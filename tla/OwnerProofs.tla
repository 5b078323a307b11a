----------------------------- MODULE OwnerProofs -----------------------------
(***************************************************************************)
(* Proofs about what the owner of a business does with it besides paying:  *)
(* Closures, Images, Notebook and Discounts, for every number of requests  *)
(* in flight and whatever they are about.  The four share no state; each   *)
(* has an inductive invariant of its own.  They close with the four and    *)
(* the billing side by side, as MCOwner runs them.                         *)
(***************************************************************************)
EXTENDS MCOwner, BillingProofs, FiniteSetTheorems, TLAPS

-----------------------------------------------------------------------------
(* Closures *)

ClosureRow == [state : {"none", "active", "inactive"},
               start : Dates, end : Dates \cup {NoEnd}]
Creation == [op : {"create"}, start : Dates, end : Dates \cup {NoEnd}, fresh : BOOLEAN]
Amendment == [op : {"update", "extend"}, id : Closures, start : Dates \cup {Given},
           end : Dates \cup {Given}, on : {"keep", "active", "inactive"}, fresh : BOOLEAN]

\* No active closure besides c overlaps the period of the row.
Clear(row, except) ==
  \A d \in ActiveClosures \ except : ~Overlapping(closure[d], Period(row.start, row.end))

\* What a request has checked is so until another request writes.
ChecksHold ==
  \A p \in Owners : owner[p] # AtRest /\ owner[p].fresh =>
    /\ owner[p].op = "create" => Clear(owner[p], {})
    /\ owner[p].op \in {"update", "extend"} =>
         Clear(UpdateRow(owner[p].id, owner[p]), {owner[p].id})

ClosureInv == ClosureTypeOK /\ OverlapsAreDoubtful /\ ChecksHold

LEMMA ClosuresTyped ==
  ASSUME ClosureTypeOK
  PROVE  /\ closure \in [Closures -> ClosureRow]
         /\ owner \in [Owners -> {AtRest} \cup Creation \cup Amendment]
         /\ asked \in 0 .. MaxAsked /\ today \in Dates /\ doubtful \subseteq Closures
BY DEF ClosureTypeOK, ClosureRow, Creation, Amendment

LEMMA ClosuresTypedAgain ==
  ASSUME closure' \in [Closures -> ClosureRow],
         owner' \in [Owners -> {AtRest} \cup Creation \cup Amendment],
         asked' \in 0 .. MaxAsked, today' \in Dates, doubtful' \subseteq Closures
  PROVE  ClosureTypeOK'
BY DEF ClosureTypeOK, ClosureRow, Creation, Amendment

LEMMA Asking ==
  ASSUME ClosureTypeOK, NEW p \in Owners, owner[p] # AtRest
  PROVE  /\ owner[p] \in Creation \cup Amendment
         /\ owner[p].fresh \in BOOLEAN
         /\ owner[p].op = "create" => owner[p] \in Creation
         /\ owner[p].op \in {"update", "extend"} => owner[p] \in Amendment
BY ClosuresTyped DEF Creation, Amendment

LEMMA ClosureInitHolds == ClosureInit => ClosureInv
BY ClosureAssumption
DEF ClosureInit, ClosureInv, ClosureTypeOK, OverlapsAreDoubtful, ChecksHold, ActiveClosures,
    Dates, AtRest

LEMMA UpdateRowType ==
  ASSUME ClosureTypeOK, NEW c \in Closures, NEW q \in Amendment
  PROVE  UpdateRow(c, q) \in ClosureRow
BY ClosuresTyped DEF UpdateRow, ClosureRow, Amendment

\* A write of a row that is clear of the other active closures, or is marked.
LEMMA Writing ==
  ASSUME ClosureInv, NEW p \in Owners, NEW c \in Closures, NEW row \in ClosureRow,
         NEW sure \in BOOLEAN, Written(p, c, row, sure),
         sure /\ row.state = "active" => Clear(row, {c})
  PROVE  ClosureInv'
<1>1. closure \in [Closures -> ClosureRow] /\ doubtful \subseteq Closures
  BY ClosuresTyped DEF ClosureInv
<1>2. /\ closure' = [closure EXCEPT ![c] = row]
      /\ doubtful' = IF sure THEN doubtful \ {c} ELSE doubtful \cup {c}
      /\ today' = today /\ asked' = asked
  BY DEF Written
<1>3. \A q \in Owners :
        /\ owner'[q] \in {AtRest} \cup Creation \cup Amendment
        /\ owner'[q] # AtRest => ~owner'[q].fresh
  <2>. SUFFICES ASSUME NEW q \in Owners
                PROVE  /\ owner'[q] \in {AtRest} \cup Creation \cup Amendment
                       /\ owner'[q] # AtRest => ~owner'[q].fresh
    OBVIOUS
  <2>1. owner'[q] = IF q = p \/ owner[q] = AtRest THEN AtRest
                    ELSE [owner[q] EXCEPT !.fresh = FALSE]
    BY DEF Written
  <2>2. CASE q = p \/ owner[q] = AtRest
    BY <2>1, <2>2
  <2>3. CASE ~(q = p \/ owner[q] = AtRest)
    <3>1. owner[q] \in Creation \cup Amendment
      BY <2>3, Asking DEF ClosureInv
    <3>2. [owner[q] EXCEPT !.fresh = FALSE] \in Creation \cup Amendment
      BY <3>1 DEF Creation, Amendment
    <3>3. [owner[q] EXCEPT !.fresh = FALSE].fresh = FALSE
      BY <3>1 DEF Creation, Amendment
    <3>. QED  BY <2>1, <2>3, <3>2, <3>3
  <2>. QED  BY <2>2, <2>3
<1>4. owner' \in [Owners -> {AtRest} \cup Creation \cup Amendment]
  <2>1. owner' = [q \in Owners |-> owner'[q]]
    BY DEF Written
  <2>. QED  BY <1>3, <2>1
<1>5. closure' \in [Closures -> ClosureRow]
  BY <1>1, <1>2
<1>6. ClosureTypeOK'
  BY <1>1, <1>2, <1>4, <1>5, ClosuresTyped, ClosuresTypedAgain DEF ClosureInv
<1>7. OverlapsAreDoubtful'
  <2>. SUFFICES ASSUME NEW d \in ActiveClosures' \ doubtful', NEW e \in ActiveClosures' \ doubtful',
                       d # e, Overlapping(closure'[d], closure'[e])
                PROVE  FALSE
    BY DEF OverlapsAreDoubtful, Overlapping
  <2>1. \A b \in ActiveClosures' \ {c} : b \in ActiveClosures /\ closure'[b] = closure[b]
    BY <1>1, <1>2 DEF ActiveClosures
  <2>2. ASSUME NEW b \in ActiveClosures' \ {c}, c \in ActiveClosures' \ doubtful'
        PROVE  /\ ~Overlapping(closure'[b], closure'[c])
               /\ ~Overlapping(closure'[c], closure'[b])
    <3>1. sure /\ closure'[c] = row /\ row.state = "active"
      BY <1>1, <1>2, <2>2 DEF ActiveClosures
    <3>2. ~Overlapping(closure[b], Period(row.start, row.end))
      BY <2>1, <2>2, <3>1 DEF Clear
    <3>. QED  BY <2>1, <2>2, <3>1, <3>2 DEF Overlapping, Period
  <2>3. d # c /\ e # c
    BY <2>2
  <2>4. d \notin doubtful /\ e \notin doubtful
    BY <1>2, <2>3
  <2>. QED  BY <2>1, <2>3, <2>4 DEF ClosureInv, OverlapsAreDoubtful
<1>8. ChecksHold'
  BY <1>3 DEF ChecksHold
<1>. QED  BY <1>6, <1>7, <1>8 DEF ClosureInv

\* A request that asks: it has checked what it will write.
LEMMA Checking ==
  ASSUME ClosureInv, NEW p \in Owners, NEW q \in Creation \cup Amendment,
         MayAsk(p), Ask(p, q),
         q.op = "create" => Clear(q, {}),
         q.op \in {"update", "extend"} => Clear(UpdateRow(q.id, q), {q.id})
  PROVE  ClosureInv'
<1>1. owner' = [owner EXCEPT ![p] = q] /\ asked' = asked + 1 /\ asked < MaxAsked
      /\ UNCHANGED <<today, closure, doubtful>>
  BY DEF MayAsk, Ask
<1>2. owner' \in [Owners -> {AtRest} \cup Creation \cup Amendment]
  BY <1>1, ClosuresTyped DEF ClosureInv
<1>3. asked' \in 0 .. MaxAsked
  BY <1>1, ClosuresTyped, ClosureAssumption DEF ClosureInv
<1>4. ClosureTypeOK'
  BY <1>1, <1>2, <1>3, ClosuresTyped, ClosuresTypedAgain DEF ClosureInv
<1>5. OverlapsAreDoubtful'
  BY <1>1 DEF ClosureInv, OverlapsAreDoubtful, ActiveClosures
<1>6. \A r \in Owners : owner'[r] = IF r = p THEN q ELSE owner[r]
  BY <1>1, ClosuresTyped DEF ClosureInv
<1>7. ChecksHold'
  BY <1>1, <1>6 DEF ClosureInv, ChecksHold, Clear, UpdateRow, ActiveClosures
<1>. QED  BY <1>4, <1>5, <1>7 DEF ClosureInv

\* Writes that nobody checks.
LEMMA AtOnce ==
  ASSUME ClosureInv, NEW c \in Closures,
         \/ \E on \in {"active", "inactive"} : Switch(c, on)
         \/ \E e \in Dates : EndEarly(c, e)
         \/ Delete(c)
  PROVE  ClosureInv'
<1>1. closure[c] \in ClosureRow
  BY ClosuresTyped DEF ClosureInv
<1>2. ASSUME NEW on \in {"active", "inactive"}, Switch(c, on)
      PROVE  ClosureInv'
  <2>. DEFINE row == [closure[c] EXCEPT !.state = on]
              sure == on = "inactive"
  <2>1. row \in ClosureRow /\ row.state = on /\ sure \in BOOLEAN
    BY <1>1 DEF ClosureRow
  <2>2. PICK p \in Owners : Written(p, c, row, sure)
    BY <1>2 DEF Switch, WrittenAtOnce
  <2>3. ~(sure /\ row.state = "active")
    BY <2>1
  <2>. HIDE DEF row, sure
  <2>. QED  BY <2>1, <2>2, <2>3, Writing
<1>3. ASSUME NEW e \in Dates, EndEarly(c, e)
      PROVE  ClosureInv'
  <2>. DEFINE row == [closure[c] EXCEPT !.state = "inactive", !.end = e]
  <2>1. row \in ClosureRow /\ row.state = "inactive"
    BY <1>1 DEF ClosureRow
  <2>2. PICK p \in Owners : Written(p, c, row, TRUE)
    BY <1>3 DEF EndEarly, WrittenAtOnce
  <2>. HIDE DEF row
  <2>. QED  BY <2>1, <2>2, Writing
<1>4. CASE Delete(c)
  <2>. DEFINE row == [closure[c] EXCEPT !.state = "inactive"]
  <2>1. row \in ClosureRow /\ row.state = "inactive"
    BY <1>1 DEF ClosureRow
  <2>2. PICK p \in Owners : Written(p, c, row, TRUE)
    BY <1>4 DEF Delete, WrittenAtOnce
  <2>. HIDE DEF row
  <2>. QED  BY <2>1, <2>2, Writing
<1>. QED  BY <1>2, <1>3, <1>4

\* createClosure
LEMMA Creating ==
  ASSUME ClosureInv, NEW p \in Owners,
         \/ \E s \in Dates, e \in Dates \cup {NoEnd}, kind \in Kinds : CreateCheck(p, kind, s, e)
         \/ \E c \in Closures : CreateInsert(p, c)
  PROVE  ClosureInv'
<1>1. ASSUME NEW s \in Dates, NEW e \in Dates \cup {NoEnd}, NEW kind \in Kinds,
             CreateCheck(p, kind, s, e)
      PROVE  ClosureInv'
  <2>. DEFINE q == [op |-> "create", start |-> s, end |-> e, fresh |-> TRUE]
  <2>1. q \in Creation /\ q.op = "create" /\ q.start = s /\ q.end = e
    BY DEF Creation
  <2>2. MayAsk(p) /\ Ask(p, q) /\ Conflicts(s, e, {}) = {}
    BY <1>1 DEF CreateCheck
  <2>3. Clear(q, {})
    BY <2>1, <2>2 DEF Clear, Conflicts
  <2>. HIDE DEF q
  <2>. QED  BY <2>1, <2>2, <2>3, Checking
<1>2. ASSUME NEW c \in Closures, CreateInsert(p, c)
      PROVE  ClosureInv'
  <2>. DEFINE row == [state |-> "active", start |-> owner[p].start, end |-> owner[p].end]
              sure == owner[p].fresh
  <2>1. owner[p] # AtRest /\ owner[p].op = "create"
    BY <1>2 DEF CreateInsert, AtRest
  <2>2. owner[p] \in Creation /\ sure \in BOOLEAN
    BY <2>1, Asking DEF ClosureInv
  <2>3. row \in ClosureRow
    BY <2>2 DEF Creation, ClosureRow
  <2>4. sure => Clear(row, {c})
    BY <2>1 DEF ClosureInv, ChecksHold, Clear
  <2>5. Written(p, c, row, sure)
    BY <1>2 DEF CreateInsert
  <2>. HIDE DEF row, sure
  <2>. QED  BY <2>2, <2>3, <2>4, <2>5, Writing
<1>. QED  BY <1>1, <1>2

\* updateClosure, extendClosure: the check
LEMMA CheckingChange ==
  ASSUME ClosureInv, NEW p \in Owners, NEW c \in Closures,
         \/ \E s, e \in Dates \cup {Given}, on \in {"keep", "active", "inactive"} :
              UpdateCheck(p, c, s, e, on)
         \/ \E e \in Dates : ExtendCheck(p, c, e)
  PROVE  ClosureInv'
<1>1. ASSUME NEW s \in Dates \cup {Given}, NEW e \in Dates \cup {Given},
             NEW on \in {"keep", "active", "inactive"}, UpdateCheck(p, c, s, e, on)
      PROVE  ClosureInv'
  <2>. DEFINE q == [op |-> "update", id |-> c, start |-> s, end |-> e, on |-> on, fresh |-> TRUE]
              row == UpdateRow(c, q)
  <2>1. q \in Amendment /\ q.op = "update" /\ q.id = c
    BY DEF Amendment
  <2>2. MayAsk(p) /\ Ask(p, q) /\ Conflicts(row.start, row.end, {c}) = {}
    BY <1>1 DEF UpdateCheck
  <2>. HIDE DEF q
  <2>3. Clear(UpdateRow(q.id, q), {q.id})
    BY <2>1, <2>2 DEF Clear, Conflicts
  <2>. QED  BY <2>1, <2>2, <2>3, Checking
<1>2. ASSUME NEW e \in Dates, ExtendCheck(p, c, e)
      PROVE  ClosureInv'
  <2>. DEFINE q == [op |-> "extend", id |-> c, start |-> Given, end |-> e, on |-> "keep",
                    fresh |-> TRUE]
  <2>1. /\ q \in Amendment /\ q.op = "extend" /\ q.id = c
        /\ q.start = Given /\ q.end = e
    BY DEF Amendment
  <2>2. MayAsk(p) /\ Ask(p, q) /\ Conflicts(closure[c].start, e, {c}) = {}
    BY <1>2 DEF ExtendCheck
  <2>. HIDE DEF q
  <2>3. e # Given
    BY ClosureAssumption DEF Dates, Given
  <2>4. UpdateRow(c, q).start = closure[c].start /\ UpdateRow(c, q).end = e
    BY <2>1, <2>3 DEF UpdateRow
  <2>5. Clear(UpdateRow(q.id, q), {q.id})
    BY <2>1, <2>2, <2>4 DEF Clear, Conflicts
  <2>. QED  BY <2>1, <2>2, <2>5, Checking
<1>. QED  BY <1>1, <1>2

\* updateClosure, extendClosure: the write
LEMMA Changing ==
  ASSUME ClosureInv, NEW p \in Owners, UpdateWrite(p) \/ ExtendWrite(p)
  PROVE  ClosureInv'
<1>. DEFINE c == owner[p].id
            row == UpdateRow(c, owner[p])
            sure == owner[p].fresh
<1>1. owner[p] # AtRest /\ owner[p].op \in {"update", "extend"}
  BY DEF UpdateWrite, ExtendWrite, AtRest
<1>2. owner[p] \in Amendment /\ sure \in BOOLEAN /\ c \in Closures
  BY <1>1, Asking DEF ClosureInv, Amendment
<1>3. row \in ClosureRow
  BY <1>2, UpdateRowType DEF ClosureInv
<1>4. sure => Clear(row, {c})
  BY <1>1 DEF ClosureInv, ChecksHold
<1>5. CASE Written(p, c, row, sure)
  <2>. HIDE DEF c, row, sure
  <2>. QED  BY <1>2, <1>3, <1>4, <1>5, Writing
<1>6. CASE ~Written(p, c, row, sure)
  <2>1. owner' = [owner EXCEPT ![p] = AtRest] /\ UNCHANGED <<today, closure, asked, doubtful>>
    BY <1>6 DEF UpdateWrite, ExtendWrite
  <2>2. owner' \in [Owners -> {AtRest} \cup Creation \cup Amendment]
    BY <2>1, ClosuresTyped DEF ClosureInv
  <2>3. ClosureTypeOK'
    BY <2>1, <2>2, ClosuresTyped, ClosuresTypedAgain DEF ClosureInv
  <2>4. OverlapsAreDoubtful'
    BY <2>1 DEF ClosureInv, OverlapsAreDoubtful, ActiveClosures
  <2>5. \A r \in Owners : owner'[r] = AtRest \/ owner'[r] = owner[r]
    BY <2>1, ClosuresTyped DEF ClosureInv
  <2>6. ChecksHold'
    BY <2>1, <2>5 DEF ClosureInv, ChecksHold, Clear, UpdateRow, ActiveClosures
  <2>. QED  BY <2>3, <2>4, <2>6 DEF ClosureInv
<1>. QED  BY <1>5, <1>6

\* Closures that expire make no check untrue.
LEMMA Expiring ==
  ASSUME ClosureInv, AutoExpire \/ NextDay
  PROVE  ClosureInv'
<1>1. UNCHANGED <<owner, asked, doubtful>>
  BY DEF AutoExpire, NextDay
<1>2. today' \in Dates
  BY ClosuresTyped, ClosureAssumption DEF ClosureInv, AutoExpire, NextDay, Dates
<1>3. closure' \in [Closures -> ClosureRow]
  <2>1. CASE NextDay
    BY <2>1, ClosuresTyped DEF ClosureInv, NextDay
  <2>2. CASE AutoExpire
    <3>1. \A c \in Closures : closure[c] \in ClosureRow
      BY ClosuresTyped DEF ClosureInv
    <3>2. \A c \in Closures : [closure[c] EXCEPT !.state = "inactive"] \in ClosureRow
      BY <3>1 DEF ClosureRow
    <3>. QED  BY <2>2, <3>1, <3>2 DEF AutoExpire
  <2>. QED  BY <2>1, <2>2
<1>4. ClosureTypeOK'
  BY <1>1, <1>2, <1>3, ClosuresTyped, ClosuresTypedAgain DEF ClosureInv
<1>5. \A c \in Closures : /\ c \in ActiveClosures' => c \in ActiveClosures
                          /\ closure'[c].start = closure[c].start
                          /\ closure'[c].end = closure[c].end
  <2>1. CASE NextDay
    BY <2>1 DEF NextDay, ActiveClosures
  <2>2. CASE AutoExpire
    <3>1. \A c \in Closures : closure[c] \in ClosureRow
      BY ClosuresTyped DEF ClosureInv
    <3>. QED  BY <2>2, <3>1 DEF AutoExpire, ActiveClosures, ClosureRow
  <2>. QED  BY <2>1, <2>2
<1>6. OverlapsAreDoubtful'
  BY <1>1, <1>5 DEF ClosureInv, OverlapsAreDoubtful, Overlapping, ActiveClosures
<1>7. ASSUME NEW p \in Owners, owner[p] # AtRest, owner[p].op \in {"update", "extend"}
      PROVE  /\ owner[p].id \in Closures
             /\ UpdateRow(owner[p].id, owner[p])'.start = UpdateRow(owner[p].id, owner[p]).start
             /\ UpdateRow(owner[p].id, owner[p])'.end = UpdateRow(owner[p].id, owner[p]).end
  <2>1. owner[p].id \in Closures
    BY <1>7, Asking DEF ClosureInv, Amendment
  <2>. QED  BY <1>1, <1>5, <2>1 DEF UpdateRow
<1>8. ChecksHold'
  <2>. SUFFICES ASSUME NEW p \in Owners, owner[p] # AtRest, owner[p].fresh
                PROVE  /\ owner[p].op = "create" => Clear(owner[p], {})'
                       /\ owner[p].op \in {"update", "extend"} =>
                            Clear(UpdateRow(owner[p].id, owner[p]), {owner[p].id})'
    BY <1>1 DEF ChecksHold
  <2>1. CASE owner[p].op = "create"
    <3>1. Clear(owner[p], {})
      BY <2>1 DEF ClosureInv, ChecksHold
    <3>. QED  BY <1>1, <1>5, <2>1, <3>1 DEF Clear, Overlapping, ActiveClosures
  <2>2. CASE owner[p].op \in {"update", "extend"}
    <3>1. Clear(UpdateRow(owner[p].id, owner[p]), {owner[p].id})
      BY <2>2 DEF ClosureInv, ChecksHold
    <3>2. Clear(UpdateRow(owner[p].id, owner[p]), {owner[p].id})'
      BY <1>1, <1>5, <1>7, <2>2, <3>1 DEF Clear, Overlapping, ActiveClosures, Period
    <3>. QED  BY <2>2, <3>2
  <2>. QED  BY <2>1, <2>2
<1>. QED  BY <1>4, <1>6, <1>8 DEF ClosureInv

-----------------------------------------------------------------------------

LEMMA ClosureStepsPreserve ==
  ASSUME ClosureInv, [ClosureNext]_closureVars
  PROVE  ClosureInv'
<1>1. CASE UNCHANGED closureVars
  BY <1>1 DEF closureVars, ClosureInv, ClosureTypeOK, OverlapsAreDoubtful, ChecksHold, Clear,
              UpdateRow, ActiveClosures
<1>2. CASE ClosureNext
  BY <1>2, Creating, CheckingChange, Changing, AtOnce, Expiring DEF ClosureNext
<1>. QED  BY <1>1, <1>2

\* The inductive invariant: what a request has checked stays so until another
\* request writes.
THEOREM ClosureInvariant == ClosureSpec => []ClosureInv
<1>1. ClosureInit => ClosureInv
  BY ClosureInitHolds
<1>2. ClosureInv /\ [ClosureNext]_closureVars => ClosureInv'
  BY ClosureStepsPreserve
<1>. QED  BY <1>1, <1>2, PTL DEF ClosureSpec

\* The variables of the closures keep their types (businessClosureService.ts).
THEOREM ClosureTypeCorrect == ClosureSpec => []ClosureTypeOK
<1>1. ClosureInv => ClosureTypeOK
  BY DEF ClosureInv
<1>. QED  BY <1>1, ClosureInvariant, PTL

\* However many requests are in flight, two active closures overlap only where
\* a check was out of date when its write was made, or where a closure was
\* switched on without one (updateClosure without dates).
THEOREM OnlyDoubtfulOverlap == ClosureSpec => []OverlapsAreDoubtful
<1>1. ClosureInv => OverlapsAreDoubtful
  BY DEF ClosureInv
<1>. QED  BY <1>1, ClosureInvariant, PTL

-----------------------------------------------------------------------------
(* Images *)

Works == {"gallery", "logo", "erase", "read", "drop", "erase logo", "clear",
          "erase photo", "replace"}
Work == [at : Works, url : Urls \cup {NoUrl}, seen : SUBSET Urls]

\* No longer than a gallery may be, and of images that were stored.
Fitting(list) == IsFiniteSet(list) /\ Cardinality(list) <= MaxGallery

\* What a request works on, when s is stored and g is doomed.
Sound(e, s, g) ==
  /\ e.at \in {"gallery", "logo"} => e.url \in (s \cup g) \ {NoUrl}
  /\ e.at \in {"drop", "replace"} => Fitting(e.seen) /\ e.seen \subseteq s \cup g
  /\ e.at \in {"erase", "erase logo", "erase photo"} => e.url \in g

\* An image to be shown is stored, one to be erased is doomed, and a list to be
\* written again was a gallery once.
ImagesInv ==
  /\ ImagesTypeOK
  /\ Fitting(gallery)
  /\ ~stale => gallery = kept
  /\ Shown \subseteq objects \cup doomed
  /\ \A q \in Editors : Sound(editor[q], objects, doomed)

LEMMA ImagesTyped ==
  ASSUME ImagesTypeOK
  PROVE  /\ gallery \subseteq Urls /\ logo \in Urls \cup {NoUrl} /\ objects \subseteq Urls
         /\ editor \in [Editors -> {NoEdit} \cup Work]
         /\ doomed \subseteq Urls /\ kept \subseteq Urls /\ stale \in BOOLEAN
BY DEF ImagesTypeOK, Work, Works

LEMMA ImagesTypedAgain ==
  ASSUME gallery' \subseteq Urls, logo' \in Urls \cup {NoUrl}, objects' \subseteq Urls,
         editor' \in [Editors -> {NoEdit} \cup Work],
         doomed' \subseteq Urls, kept' \subseteq Urls, stale' \in BOOLEAN
  PROVE  ImagesTypeOK'
BY DEF ImagesTypeOK, Work, Works

LEMMA Working ==
  ASSUME ImagesTypeOK, NEW q \in Editors, editor[q].at # "away"
  PROVE  /\ editor[q] \in Work
         /\ editor[q].url \in Urls \cup {NoUrl} /\ editor[q].seen \subseteq Urls
BY ImagesTyped DEF NoEdit, Work

\* What was found stored or doomed stays so if that only grows.
LEMMA SoundStays ==
  ASSUME NEW e, NEW s, NEW g, NEW s2, NEW g2, s \cup g \subseteq s2 \cup g2, g \subseteq g2,
         Sound(e, s, g)
  PROVE  Sound(e, s2, g2)
BY DEF Sound

\* One request turns to e, and nothing that was stored is lost.
LEMMA EditorTurns ==
  ASSUME ImagesInv, NEW q \in Editors, NEW e \in {NoEdit} \cup Work,
         editor' = [editor EXCEPT ![q] = e],
         objects \cup doomed \subseteq objects' \cup doomed', doomed \subseteq doomed',
         Sound(e, objects', doomed')
  PROVE  /\ editor' \in [Editors -> {NoEdit} \cup Work]
         /\ \A p \in Editors : Sound(editor'[p], objects', doomed')
<1>1. editor \in [Editors -> {NoEdit} \cup Work]
  BY ImagesTyped DEF ImagesInv
<1>2. ASSUME NEW p \in Editors, p # q
      PROVE  Sound(editor'[p], objects', doomed')
  <2>1. editor'[p] = editor[p] /\ Sound(editor[p], objects, doomed)
    BY <1>1, <1>2 DEF ImagesInv
  <2>2. Sound(editor[p], objects', doomed')
    BY <2>1, SoundStays
  <2>. QED  BY <2>1, <2>2
<1>3. editor'[q] = e
  BY <1>1
<1>. QED  BY <1>1, <1>2, <1>3

LEMMA ImagesInitHolds == ImagesInit => ImagesInv
<1>. SUFFICES ASSUME ImagesInit
              PROVE  ImagesInv
  OBVIOUS
<1>1. ImagesTypeOK
  BY DEF ImagesInit, ImagesTypeOK
<1>2. Fitting(gallery)
  BY FS_EmptySet, ImagesAssumption DEF ImagesInit, Fitting
<1>3. Shown \subseteq objects \cup doomed
  BY DEF ImagesInit, Shown
<1>4. \A q \in Editors : Sound(editor[q], objects, doomed)
  BY DEF ImagesInit, Sound, NoEdit
<1>5. ~stale => gallery = kept
  BY DEF ImagesInit
<1>. QED  BY <1>1, <1>2, <1>3, <1>4, <1>5 DEF ImagesInv

\* A request leaves: there is nothing left to hold of it.
LEMMA Leaving ==
  /\ NoEdit \in {NoEdit} \cup Work
  /\ \A s, g : Sound(NoEdit, s, g)
BY DEF NoEdit, Sound

\* A longer list is within the limit if the shorter one was below it.
LEMMA OneUploadMore ==
  ASSUME NEW list, NEW u, Fitting(list), Cardinality(list) < MaxGallery
  PROVE  Fitting(list \cup {u})
<1>1. IsFiniteSet(list) /\ Cardinality(list) \in Nat /\ MaxGallery \in Nat
  BY FS_CardinalityType, ImagesAssumption DEF Fitting
<1>2. IsFiniteSet(list \cup {u}) /\ Cardinality(list \cup {u}) <= Cardinality(list) + 1
  BY <1>1, FS_AddElement
<1>3. Cardinality(list \cup {u}) \in Nat
  BY <1>2, FS_CardinalityType
<1>. QED  BY <1>1, <1>2, <1>3 DEF Fitting

LEMMA Fewer ==
  ASSUME NEW list, NEW rest \in SUBSET list, Fitting(list)
  PROVE  Fitting(rest)
<1>1. IsFiniteSet(list) /\ Cardinality(list) \in Nat /\ MaxGallery \in Nat
  BY FS_CardinalityType, ImagesAssumption DEF Fitting
<1>2. IsFiniteSet(rest) /\ Cardinality(rest) <= Cardinality(list)
  BY <1>1, FS_Subset
<1>3. Cardinality(rest) \in Nat
  BY <1>2, FS_CardinalityType
<1>. QED  BY <1>1, <1>2, <1>3 DEF Fitting

LEMMA Uploading ==
  ASSUME ImagesInv, NEW q \in Editors,
         \/ AddGalleryImage(q) \/ UpdateBusinessImage(q)
         \/ \E u \in Urls, for \in {"gallery", "logo"} : PutObject(q, u, for)
  PROVE  ImagesInv'
<1>1. CASE AddGalleryImage(q)
  <2>1. editor[q].at = "gallery" /\ editor' = [editor EXCEPT ![q] = NoEdit]
    BY <1>1 DEF AddGalleryImage, EditorLeaves
  <2>2. UNCHANGED <<logo, objects, doomed, stale>>
    BY <1>1 DEF AddGalleryImage
  <2>3. /\ editor' \in [Editors -> {NoEdit} \cup Work]
        /\ \A p \in Editors : Sound(editor'[p], objects', doomed')
    BY <2>1, <2>2, EditorTurns, Leaving
  <2>4. Wanted(q) \in Urls /\ Wanted(q) \in objects \cup doomed
    BY <2>1, Working DEF ImagesInv, Sound, Wanted
  <2>5. CASE Cardinality(gallery) < MaxGallery
    <3>1. gallery' = gallery \cup {Wanted(q)} /\ kept' = kept \cup {Wanted(q)}
      BY <1>1, <2>5 DEF AddGalleryImage
    <3>2. Fitting(gallery')
      BY <2>5, <3>1, OneUploadMore DEF ImagesInv
    <3>3. ImagesTypeOK'
      BY <2>2, <2>3, <2>4, <3>1, ImagesTyped, ImagesTypedAgain DEF ImagesInv
    <3>4. (Shown \subseteq objects \cup doomed)' /\ (~stale => gallery = kept)'
      BY <2>2, <2>4, <3>1 DEF ImagesInv, Shown
    <3>. QED  BY <2>3, <3>2, <3>3, <3>4 DEF ImagesInv, Fitting
  <2>6. CASE ~(Cardinality(gallery) < MaxGallery)
    <3>1. UNCHANGED <<gallery, kept>>
      BY <1>1, <2>6 DEF AddGalleryImage
    <3>2. ImagesTypeOK'
      BY <2>2, <2>3, <3>1, ImagesTyped, ImagesTypedAgain DEF ImagesInv
    <3>. QED  BY <2>2, <2>3, <3>1, <3>2 DEF ImagesInv, Fitting, Shown
  <2>. QED  BY <2>5, <2>6
<1>2. CASE UpdateBusinessImage(q)
  <2>1. editor[q].at = "logo" /\ editor' = [editor EXCEPT ![q] = NoEdit]
    BY <1>2 DEF UpdateBusinessImage, EditorLeaves
  <2>2. logo' = Wanted(q) /\ UNCHANGED <<gallery, objects, doomed, kept, stale>>
    BY <1>2 DEF UpdateBusinessImage
  <2>3. /\ editor' \in [Editors -> {NoEdit} \cup Work]
        /\ \A p \in Editors : Sound(editor'[p], objects', doomed')
    BY <2>1, <2>2, EditorTurns, Leaving
  <2>4. Wanted(q) \in Urls /\ Wanted(q) \in objects \cup doomed
    BY <2>1, Working DEF ImagesInv, Sound, Wanted
  <2>5. ImagesTypeOK'
    BY <2>2, <2>3, <2>4, ImagesTyped, ImagesTypedAgain DEF ImagesInv
  <2>. QED  BY <2>2, <2>3, <2>4, <2>5 DEF ImagesInv, Fitting, Shown
<1>3. ASSUME NEW u \in Urls, NEW for \in {"gallery", "logo"}, PutObject(q, u, for)
      PROVE  ImagesInv'
  <2>. DEFINE e == [at |-> for, url |-> u, seen |-> IF for = "gallery" THEN gallery ELSE {}]
  <2>1. editor' = [editor EXCEPT ![q] = e] /\ objects' = objects \cup {u}
        /\ UNCHANGED <<gallery, logo, doomed, kept, stale>>
    BY <1>3 DEF PutObject, EditorStarts
  <2>2. e \in {NoEdit} \cup Work
    BY ImagesTyped DEF ImagesInv, Work, Works
  <2>3. Sound(e, objects', doomed')
    BY <2>1, ImagesAssumption DEF Sound
  <2>. HIDE DEF e
  <2>4. /\ editor' \in [Editors -> {NoEdit} \cup Work]
        /\ \A p \in Editors : Sound(editor'[p], objects', doomed')
    BY <2>1, <2>2, <2>3, EditorTurns
  <2>5. ImagesTypeOK'
    BY <2>1, <2>4, ImagesTyped, ImagesTypedAgain DEF ImagesInv
  <2>. QED  BY <2>1, <2>4, <2>5 DEF ImagesInv, Fitting, Shown
<1>. QED  BY <1>1, <1>2, <1>3

LEMMA UploadingPhoto ==
  ASSUME ImagesInv, NEW u \in Urls, UploadPhoto(u)
  PROVE  ImagesInv'
<1>1. objects' = objects \cup {u} /\ UNCHANGED <<gallery, logo, editor, doomed, kept, stale>>
  BY DEF UploadPhoto
<1>2. \A p \in Editors : Sound(editor'[p], objects', doomed')
  BY <1>1, SoundStays DEF ImagesInv
<1>3. ImagesTypeOK'
  BY <1>1, ImagesTyped, ImagesTypedAgain DEF ImagesInv
<1>. QED  BY <1>1, <1>2, <1>3 DEF ImagesInv, Fitting, Shown

\* A request to delete names an image that is in the gallery or in S3, or is the logo.
LEMMA SettingOut ==
  ASSUME ImagesInv, NEW q \in Editors, NEW at \in {"erase", "erase logo", "erase photo"},
         NEW u \in Urls, SetOut(q, at, u)
  PROVE  ImagesInv'
<1>. DEFINE e == [at |-> at, url |-> u, seen |-> {}]
<1>1. editor' = [editor EXCEPT ![q] = e] /\ doomed' = doomed \cup {u}
      /\ UNCHANGED <<gallery, logo, objects, kept, stale>>
  BY DEF SetOut, EditorStarts
<1>2. e \in {NoEdit} \cup Work
  BY DEF Work, Works
<1>3. Sound(e, objects', doomed')
  BY <1>1 DEF Sound
<1>. HIDE DEF e
<1>4. /\ editor' \in [Editors -> {NoEdit} \cup Work]
      /\ \A p \in Editors : Sound(editor'[p], objects', doomed')
  BY <1>1, <1>2, <1>3, EditorTurns
<1>5. ImagesTypeOK'
  BY <1>1, <1>4, ImagesTyped, ImagesTypedAgain DEF ImagesInv
<1>. QED  BY <1>1, <1>4, <1>5 DEF ImagesInv, Fitting, Shown

LEMMA Erasing ==
  ASSUME ImagesInv, NEW q \in Editors, EraseObject(q)
  PROVE  ImagesInv'
<1>1. objects' = objects \ {Wanted(q)} /\ UNCHANGED <<gallery, logo, doomed, kept, stale>>
  BY DEF EraseObject
<1>2. /\ editor[q].at \in {"erase", "erase logo", "erase photo"}
      /\ \/ editor' = [editor EXCEPT ![q] = [editor[q] EXCEPT !.at = "read"]]
         \/ editor' = [editor EXCEPT ![q] = [editor[q] EXCEPT !.at = "clear"]]
         \/ editor' = [editor EXCEPT ![q] = NoEdit]
  BY DEF EraseObject, EditorGoes, EditorLeaves
<1>3. editor[q] \in Work /\ Wanted(q) \in doomed
  BY <1>2, Working DEF ImagesInv, Sound, Wanted
<1>4. ASSUME NEW to \in {"read", "clear"}
      PROVE  /\ [editor[q] EXCEPT !.at = to] \in Work
             /\ Sound([editor[q] EXCEPT !.at = to], objects', doomed')
  BY <1>3 DEF Sound, Work, Works
<1>5. /\ editor' \in [Editors -> {NoEdit} \cup Work]
      /\ \A p \in Editors : Sound(editor'[p], objects', doomed')
  BY <1>1, <1>2, <1>3, <1>4, EditorTurns, Leaving
<1>6. ImagesTypeOK'
  BY <1>1, <1>5, ImagesTyped, ImagesTypedAgain DEF ImagesInv
<1>. QED  BY <1>1, <1>3, <1>5, <1>6 DEF ImagesInv, Fitting, Shown

\* What two requests read and write again.
LEMMA Listing ==
  ASSUME ImagesInv, NEW q \in Editors,
         \/ ReadGallery(q) \/ RemoveGalleryImage(q) \/ GetBusinessImages(q)
         \/ \E list \in SUBSET Urls : UpdateGalleryImages(q, list)
  PROVE  ImagesInv'
<1>1. CASE ReadGallery(q) \/ GetBusinessImages(q)
  <2>1. PICK e : /\ editor' = [editor EXCEPT ![q] = e]
                 /\ e \in Work /\ e.at \in {"drop", "replace"} /\ e.seen = gallery
    <3>1. CASE ReadGallery(q)
      <4>1. editor[q] \in Work /\ gallery \in SUBSET Urls
        BY <3>1, Working, ImagesTyped DEF ReadGallery, ImagesInv
      <4>. DEFINE d == [editor[q] EXCEPT !.at = "drop", !.seen = gallery]
      <4>2. d \in Work /\ d.at \in {"drop", "replace"} /\ d.seen = gallery
        BY <4>1 DEF Work, Works
      <4>3. editor' = [editor EXCEPT ![q] = d]
        BY <3>1 DEF ReadGallery
      <4>. QED  BY <4>2, <4>3
    <3>2. CASE GetBusinessImages(q)
      <4>. DEFINE d == [at |-> "replace", url |-> NoUrl, seen |-> gallery]
      <4>1. d \in Work /\ d.at \in {"drop", "replace"} /\ d.seen = gallery
        BY ImagesTyped DEF ImagesInv, Work, Works
      <4>2. editor' = [editor EXCEPT ![q] = d]
        BY <3>2 DEF GetBusinessImages, EditorStarts
      <4>. QED  BY <4>1, <4>2
    <3>. QED  BY <1>1, <3>1, <3>2
  <2>2. UNCHANGED <<gallery, logo, objects, doomed, kept, stale>>
    BY <1>1 DEF ReadGallery, GetBusinessImages
  <2>3. Sound(e, objects', doomed')
    BY <2>1, <2>2 DEF Sound, ImagesInv, Shown
  <2>4. /\ editor' \in [Editors -> {NoEdit} \cup Work]
        /\ \A p \in Editors : Sound(editor'[p], objects', doomed')
    BY <2>1, <2>2, <2>3, EditorTurns
  <2>5. ImagesTypeOK'
    BY <2>2, <2>4, ImagesTyped, ImagesTypedAgain DEF ImagesInv
  <2>. QED  BY <2>2, <2>4, <2>5 DEF ImagesInv, Fitting, Shown
<1>2. ASSUME NEW list \in SUBSET Urls, WriteGallery(q, list), kept' \subseteq Urls,
             ~stale /\ gallery = editor[q].seen => list = kept',
             editor[q].at \in {"drop", "replace"}, list \subseteq editor[q].seen,
             editor' = [editor EXCEPT ![q] = NoEdit]
      PROVE  ImagesInv'
  <2>1. /\ gallery' = list /\ stale' = (stale \/ gallery # editor[q].seen)
        /\ UNCHANGED <<logo, objects, doomed>>
    BY <1>2 DEF WriteGallery
  <2>2. Fitting(editor[q].seen) /\ editor[q].seen \subseteq objects \cup doomed
    BY <1>2 DEF ImagesInv, Sound
  <2>3. Fitting(gallery')
    BY <1>2, <2>1, <2>2, Fewer
  <2>4. /\ editor' \in [Editors -> {NoEdit} \cup Work]
        /\ \A p \in Editors : Sound(editor'[p], objects', doomed')
    BY <1>2, <2>1, EditorTurns, Leaving
  <2>5. stale' \in BOOLEAN
    BY <2>1, ImagesTyped DEF ImagesInv
  <2>6. ImagesTypeOK'
    BY <1>2, <2>1, <2>4, <2>5, ImagesTyped, ImagesTypedAgain DEF ImagesInv
  <2>7. (Shown \subseteq objects \cup doomed)'
    BY <1>2, <2>1, <2>2 DEF ImagesInv, Shown
  <2>8. (~stale => gallery = kept)'
    BY <1>2, <2>1
  <2>. QED  BY <2>3, <2>4, <2>6, <2>7, <2>8 DEF ImagesInv, Fitting
<1>3. CASE RemoveGalleryImage(q)
  <2>1. /\ editor[q].at = "drop" /\ editor' = [editor EXCEPT ![q] = NoEdit]
        /\ WriteGallery(q, editor[q].seen \ {Wanted(q)}) /\ kept' = kept \ {Wanted(q)}
    BY <1>3 DEF RemoveGalleryImage, EditorLeaves
  <2>2. editor[q].seen \subseteq Urls /\ kept \subseteq Urls
    BY <2>1, Working, ImagesTyped DEF ImagesInv
  <2>. QED  BY <1>2, <2>1, <2>2 DEF ImagesInv
<1>4. ASSUME NEW list \in SUBSET Urls, UpdateGalleryImages(q, list)
      PROVE  ImagesInv'
  BY <1>2, <1>4 DEF UpdateGalleryImages, EditorLeaves
<1>. QED  BY <1>1, <1>3, <1>4

LEMMA Ending ==
  ASSUME ImagesInv, NEW q \in Editors, ClearLogo(q) \/ EditorFails(q)
  PROVE  ImagesInv'
<1>1. /\ editor' = [editor EXCEPT ![q] = NoEdit] /\ logo' \in {logo, NoUrl}
      /\ UNCHANGED <<gallery, objects, doomed, kept, stale>>
  BY DEF ClearLogo, EditorFails, EditorLeaves
<1>2. /\ editor' \in [Editors -> {NoEdit} \cup Work]
      /\ \A p \in Editors : Sound(editor'[p], objects', doomed')
  BY <1>1, EditorTurns, Leaving
<1>3. ImagesTypeOK'
  BY <1>1, <1>2, ImagesTyped, ImagesTypedAgain DEF ImagesInv
<1>. QED  BY <1>1, <1>2, <1>3 DEF ImagesInv, Fitting, Shown

LEMMA ImagesStepsPreserve ==
  ASSUME ImagesInv, [ImagesNext]_imageVars
  PROVE  ImagesInv'
<1>1. CASE UNCHANGED imageVars
  <2>1. ImagesTypeOK'
    BY <1>1, ImagesTyped, ImagesTypedAgain DEF ImagesInv, imageVars
  <2>. QED  BY <1>1, <2>1 DEF ImagesInv, Fitting, Shown, imageVars
<1>2. ASSUME NEW q \in Editors,
             \/ \E u \in gallery : SetOut(q, "erase", u)
             \/ logo # NoUrl /\ SetOut(q, "erase logo", logo)
             \/ \E u \in objects \cup Shown : SetOut(q, "erase photo", u)
      PROVE  ImagesInv'
  <2>1. gallery \cup objects \cup Shown \subseteq Urls /\ (logo # NoUrl => logo \in Urls)
    BY ImagesTyped DEF ImagesInv, Shown
  <2>. QED  BY <1>2, <2>1, SettingOut
<1>3. CASE ImagesNext
  BY <1>2, <1>3, Uploading, UploadingPhoto, Erasing, Listing, Ending DEF ImagesNext
<1>. QED  BY <1>1, <1>3

\* The inductive invariant: an image about to be shown is stored, one about to
\* be erased is doomed, a list about to be written again was a gallery once.
THEOREM ImagesInvariant == ImagesSpec => []ImagesInv
<1>1. ImagesInit => ImagesInv
  BY ImagesInitHolds
<1>2. ImagesInv /\ [ImagesNext]_imageVars => ImagesInv'
  BY ImagesStepsPreserve
<1>. QED  BY <1>1, <1>2, PTL DEF ImagesSpec

\* However many requests upload, remove and put in order, the gallery holds what
\* was put into it and not taken out, within its limit, unless a list was
\* written over one that was not read; and what is shown is in S3 or was doomed
\* (addGalleryImage and removeGalleryImage in businessRepository.ts).
THEOREM GalleryKept == ImagesSpec => []GalleryTellsUploads
<1>1. ImagesInv => GalleryTellsUploads
  BY DEF ImagesInv, GalleryTellsUploads, Fitting
<1>. QED  BY <1>1, ImagesInvariant, PTL

-----------------------------------------------------------------------------
(* The daily notebook *)

Asked == [at : {"create", "look", "first", "rest", "columns", "edit"},
         for : {"month", "columns"}, again : BOOLEAN]
Copying == [at : {"revenue", "sync"}, to : Columns \cup {NoColumn}, of : Month,
            left : SUBSET BookDays, calm : BOOLEAN]

\* A request past the first standard column has one to copy into, and what it
\* has copied is there while no one else writes.
VisitHolds(s, made, cells) ==
  /\ s.at = "rest" => made # {}
  /\ s.at = "columns" /\ s.again => made # {}
  /\ s.at \in {"revenue", "sync"} => made = {s.to}
  /\ s.at = "sync" /\ s.calm =>
       \A d \in BookDays : s.of[d] # Blank /\ d \notin s.left => cells[s.to][d] = s.of[d]

\* Unless the standard columns were made twice or late, there is one column for
\* the appointments as soon as there is any.
NotebookInv ==
  /\ NotebookTypeOK
  /\ ~muddled =>
       /\ \A c, d \in Randevular : c = d
       /\ Present # {} => Randevular # {}
       /\ \A v \in Visits : VisitHolds(visit[v], Randevular, cell)

LEMMA NotebookTyped ==
  ASSUME NotebookTypeOK
  PROVE  /\ notebook \in BOOLEAN /\ muddled \in BOOLEAN /\ revenue \in Month
         /\ column \in [Columns -> {"none", "Randevular", "other"}]
         /\ cell \in [Columns -> Month]
         /\ visit \in [Visits -> {Away} \cup Asked \cup Copying]
BY DEF NotebookTypeOK, Asked, Copying

LEMMA NotebookTypedAgain ==
  ASSUME notebook' \in BOOLEAN, muddled' \in BOOLEAN, revenue' \in Month,
         column' \in [Columns -> {"none", "Randevular", "other"}],
         cell' \in [Columns -> Month],
         visit' \in [Visits -> {Away} \cup Asked \cup Copying]
  PROVE  NotebookTypeOK'
BY DEF NotebookTypeOK, Asked, Copying

LEMMA Visiting ==
  ASSUME NotebookTypeOK, NEW v \in Visits
  PROVE  /\ visit[v].at \in {"create", "look", "first", "rest", "columns", "edit"} =>
              visit[v] \in Asked
         /\ visit[v].at \in {"revenue", "sync"} =>
              /\ visit[v] \in Copying /\ visit[v].of \in Month
              /\ visit[v].to \in Columns \cup {NoColumn} /\ visit[v].left \subseteq BookDays
BY NotebookTyped DEF Away, Asked, Copying

LEMMA AwayHolds == \A made, cells : VisitHolds(Away, made, cells)
BY DEF Away, VisitHolds

LEMMA NotebookInitHolds == NotebookInit => NotebookInv
<1>. SUFFICES ASSUME NotebookInit
              PROVE  NotebookInv
  OBVIOUS
<1>1. NotebookTypeOK
  BY DEF NotebookInit, NotebookTypeOK, NoAmounts, Month
<1>2. Randevular = {} /\ Present = {}
  BY DEF NotebookInit, Randevular, Present
<1>3. \A v \in Visits : VisitHolds(visit[v], Randevular, cell)
  BY AwayHolds DEF NotebookInit
<1>. QED  BY <1>1, <1>2, <1>3 DEF NotebookInv

\* A request turns to its next statement and writes neither columns nor cells.
LEMMA VisitsTurn ==
  ASSUME NotebookInv, NEW v \in Visits, NEW s \in {Away} \cup Asked \cup Copying,
         visit' = [visit EXCEPT ![v] = s], UNCHANGED <<column, cell, revenue, muddled>>,
         notebook' \in BOOLEAN,
         ~muddled => VisitHolds(s, Randevular, cell)
  PROVE  NotebookInv'
<1>1. visit' \in [Visits -> {Away} \cup Asked \cup Copying]
  BY NotebookTyped DEF NotebookInv
<1>2. NotebookTypeOK'
  BY <1>1, NotebookTyped, NotebookTypedAgain DEF NotebookInv
<1>3. Randevular' = Randevular /\ Present' = Present
  BY DEF Randevular, Present
<1>4. ASSUME ~muddled', NEW u \in Visits
      PROVE  VisitHolds(visit'[u], Randevular', cell')
  <2>1. visit'[u] = IF u = v THEN s ELSE visit[u]
    BY NotebookTyped DEF NotebookInv
  <2>. QED  BY <1>3, <1>4, <2>1 DEF NotebookInv
<1>. QED  BY <1>2, <1>3, <1>4 DEF NotebookInv

\* The statements before anything is copied.
LEMMA Opening ==
  ASSUME NotebookInv, NEW v \in Visits,
         Open(v) \/ GetColumns(v) \/ CreateNotebook(v) \/ Look(v) \/ Edit(v) \/ VisitFails(v)
  PROVE  NotebookInv'
<1>1. CASE Open(v) \/ GetColumns(v) \/ Edit(v)
  <2>1. PICK s \in Asked : visit' = [visit EXCEPT ![v] = s]
                          /\ s.at \in {"create", "columns", "edit"} /\ ~s.again
    <3>1. CASE Open(v)
      <4>. DEFINE s == [at |-> IF notebook THEN "columns" ELSE "create", for |-> "month",
                        again |-> FALSE]
      <4>1. s \in Asked /\ s.at \in {"create", "columns", "edit"} /\ ~s.again
        BY DEF Asked
      <4>. QED  BY <3>1, <4>1 DEF Open, VisitTurns
    <3>2. CASE GetColumns(v)
      <4>. DEFINE s == [at |-> "columns", for |-> "columns", again |-> FALSE]
      <4>1. s \in Asked /\ s.at \in {"create", "columns", "edit"} /\ ~s.again
        BY DEF Asked
      <4>. QED  BY <3>2, <4>1 DEF GetColumns, VisitTurns
    <3>3. CASE Edit(v)
      <4>. DEFINE s == [at |-> "edit", for |-> "month", again |-> FALSE]
      <4>1. s \in Asked /\ s.at \in {"create", "columns", "edit"} /\ ~s.again
        BY DEF Asked
      <4>. QED  BY <3>3, <4>1 DEF Edit, VisitTurns
    <3>. QED  BY <1>1, <3>1, <3>2, <3>3
  <2>2. UNCHANGED <<column, cell, revenue, muddled>> /\ notebook' \in BOOLEAN
    BY <1>1, NotebookTyped DEF NotebookInv, Open, GetColumns, Edit
  <2>3. VisitHolds(s, Randevular, cell)
    BY <2>1 DEF VisitHolds
  <2>. QED  BY <2>1, <2>2, <2>3, VisitsTurn
<1>2. CASE (CreateNotebook(v) /\ ~notebook) \/ Look(v)
  <2>. DEFINE at == IF visit[v].at = "create" THEN "look"
                    ELSE IF Present = {} THEN "first" ELSE "columns"
              s == [visit[v] EXCEPT !.at = at]
  <2>1. visit' = [visit EXCEPT ![v] = s] /\ visit[v].at \in {"create", "look"}
    BY <1>2 DEF CreateNotebook, Look, VisitGoes
  <2>2. visit[v] \in Asked
    BY <2>1, Visiting DEF NotebookInv
  <2>3. s \in Asked
    BY <2>2 DEF Asked
  <2>4. UNCHANGED <<column, cell, revenue, muddled>> /\ notebook' \in BOOLEAN
    BY <1>2, NotebookTyped DEF NotebookInv, CreateNotebook, Look
  <2>5. s.at = "columns" => Present # {}
    BY <2>2 DEF Asked
  <2>6. s.at \in {"look", "first", "columns"}
    BY <2>2 DEF Asked
  <2>7. ~muddled => VisitHolds(s, Randevular, cell)
    BY <2>5, <2>6 DEF VisitHolds, NotebookInv
  <2>. QED  BY <2>1, <2>3, <2>4, <2>7, VisitsTurn
<1>3. CASE (CreateNotebook(v) /\ notebook) \/ VisitFails(v)
  <2>1. visit' = [visit EXCEPT ![v] = Away]
    BY <1>3 DEF CreateNotebook, VisitFails, VisitTurns
  <2>2. UNCHANGED <<column, cell, revenue, muddled>> /\ notebook' \in BOOLEAN
    BY <1>3, NotebookTyped DEF NotebookInv, CreateNotebook, VisitFails
  <2>. QED  BY <2>1, <2>2, AwayHolds, VisitsTurn
<1>. QED  BY <1>1, <1>2, <1>3

LEMMA Finding ==
  ASSUME NotebookInv, NEW v \in Visits, FindColumns(v)
  PROVE  NotebookInv'
<1>1. visit[v].at = "columns" /\ UNCHANGED <<notebook, column, cell, revenue, muddled>>
  BY DEF FindColumns
<1>2. visit[v] \in Asked /\ notebook' \in BOOLEAN
  BY <1>1, Visiting, NotebookTyped DEF NotebookInv
<1>3. CASE Present = {} /\ ~visit[v].again
  <2>. DEFINE s == [visit[v] EXCEPT !.at = "look", !.again = TRUE]
  <2>1. visit' = [visit EXCEPT ![v] = s]
    BY <1>3 DEF FindColumns, VisitTurns
  <2>2. s \in Asked /\ s.at = "look"
    BY <1>2 DEF Asked
  <2>3. VisitHolds(s, Randevular, cell)
    BY <2>2 DEF VisitHolds
  <2>. QED  BY <1>1, <1>2, <2>1, <2>2, <2>3, VisitsTurn
<1>4. CASE ~(Present = {} /\ ~visit[v].again)
  <2>1. CASE visit' = [visit EXCEPT ![v] = Away]
    BY <1>1, <1>2, <2>1, AwayHolds, VisitsTurn
  <2>2. ASSUME NEW c \in IF Randevular = {} THEN {NoColumn} ELSE Randevular,
               visit' = [visit EXCEPT ![v] = [at |-> "revenue", to |-> c, of |-> NoAmounts,
                                              left |-> {}, calm |-> FALSE]]
        PROVE  NotebookInv'
    <3>. DEFINE s == [at |-> "revenue", to |-> c, of |-> NoAmounts, left |-> {}, calm |-> FALSE]
    <3>1. c \in Columns \cup {NoColumn}
      BY <2>2 DEF Randevular
    <3>2. s \in Copying
      BY <3>1 DEF Copying, NoAmounts, Month
    <3>3. ASSUME ~muddled
          PROVE  Randevular = {c}
      <4>1. Randevular # {}
        BY <1>1, <1>4, <3>3 DEF NotebookInv, VisitHolds
      <4>. QED  BY <2>2, <3>3, <4>1 DEF NotebookInv
    <3>4. ~muddled => VisitHolds(s, Randevular, cell)
      BY <3>3 DEF VisitHolds
    <3>. HIDE DEF s
    <3>5. visit' = [visit EXCEPT ![v] = s]
      BY <2>2 DEF s
    <3>. QED  BY <1>1, <1>2, <3>2, <3>4, <3>5, VisitsTurn
  <2>. QED  BY <1>4, <2>1, <2>2 DEF FindColumns, VisitTurns
<1>. QED  BY <1>3, <1>4

LEMMA ReadingRevenue ==
  ASSUME NotebookInv, NEW v \in Visits, GetAppointmentRevenue(v) \/ AnswerNotebook(v)
  PROVE  NotebookInv'
<1>1. /\ visit[v].at \in {"revenue", "sync"}
      /\ UNCHANGED <<notebook, column, cell, revenue, muddled>>
  BY DEF GetAppointmentRevenue, AnswerNotebook
<1>2. visit[v] \in Copying /\ notebook' \in BOOLEAN /\ revenue \in Month
  BY <1>1, Visiting, NotebookTyped DEF NotebookInv
<1>3. CASE GetAppointmentRevenue(v)
  <2>. DEFINE left == IF visit[v].to = NoColumn THEN {} ELSE {d \in BookDays : revenue[d] # Blank}
              s == [visit[v] EXCEPT !.at = "sync", !.of = revenue, !.calm = TRUE, !.left = left]
  <2>1. visit' = [visit EXCEPT ![v] = s]
    BY <1>3 DEF GetAppointmentRevenue, VisitTurns
  <2>2. left \subseteq BookDays
    OBVIOUS
  <2>. HIDE DEF left
  <2>3. /\ s \in Copying /\ s.at = "sync" /\ s.of = revenue /\ s.left = left
        /\ s.to = visit[v].to
    BY <1>2, <2>2 DEF Copying
  <2>4. ASSUME ~muddled
        PROVE  Randevular = {visit[v].to} /\ visit[v].to # NoColumn
    <3>1. Randevular = {visit[v].to}
      BY <1>1, <2>4 DEF NotebookInv, VisitHolds
    <3>. QED  BY <3>1, NotebookAssumption DEF Randevular
  <2>5. ~muddled => VisitHolds(s, Randevular, cell)
    BY <2>3, <2>4 DEF VisitHolds, left
  <2>. HIDE DEF s
  <2>. QED  BY <1>1, <1>2, <2>1, <2>3, <2>5, VisitsTurn
<1>4. CASE AnswerNotebook(v)
  <2>1. visit' = [visit EXCEPT ![v] = Away]
    BY <1>4 DEF AnswerNotebook, VisitTurns
  <2>. QED  BY <1>1, <1>2, <2>1, AwayHolds, VisitsTurn
<1>. QED  BY <1>3, <1>4

\* A request writes cells: the others may not find what they copied.
LEMMA Disturbing ==
  ASSUME NotebookInv, NEW v \in Visits, NEW s \in Asked \cup Copying,
         Disturbed(v, s), UNCHANGED <<notebook, column, revenue, muddled>>,
         cell' \in [Columns -> Month],
         ~muddled => VisitHolds(s, Randevular, cell')
  PROVE  NotebookInv'
<1>1. ASSUME NEW u \in Visits
      PROVE  /\ visit'[u] \in {Away} \cup Asked \cup Copying
             /\ ~muddled => VisitHolds(visit'[u], Randevular, cell')
  <2>1. visit'[u] = IF u = v THEN s
                    ELSE IF visit[u].at = "sync" THEN [visit[u] EXCEPT !.calm = FALSE] ELSE visit[u]
    BY DEF Disturbed
  <2>2. CASE u = v
    BY <2>1, <2>2
  <2>3. CASE u # v /\ visit[u].at = "sync"
    <3>1. visit[u] \in Copying /\ visit'[u] = [visit[u] EXCEPT !.calm = FALSE]
      BY <2>1, <2>3, Visiting DEF NotebookInv
    <3>2. /\ visit'[u] \in Copying /\ ~visit'[u].calm /\ visit'[u].to = visit[u].to
          /\ visit'[u].at = "sync"
      BY <2>3, <3>1 DEF Copying
    <3>. QED  BY <2>3, <3>2 DEF NotebookInv, VisitHolds
  <2>4. CASE u # v /\ visit[u].at # "sync"
    <3>1. visit'[u] = visit[u] /\ visit[u] \in {Away} \cup Asked \cup Copying
      BY <2>1, <2>4, NotebookTyped DEF NotebookInv
    <3>. QED  BY <2>4, <3>1 DEF NotebookInv, VisitHolds
  <2>. QED  BY <2>2, <2>3, <2>4
<1>2. visit' \in [Visits -> {Away} \cup Asked \cup Copying]
  BY <1>1 DEF Disturbed
<1>3. NotebookTypeOK'
  BY <1>2, NotebookTyped, NotebookTypedAgain DEF NotebookInv
<1>4. Randevular' = Randevular /\ Present' = Present
  BY DEF Randevular, Present
<1>. QED  BY <1>1, <1>3, <1>4 DEF NotebookInv

LEMMA WritingCells ==
  ASSUME NotebookInv, NEW v \in Visits,
         \/ \E d \in BookDays : UpsertEntry(v, d)
         \/ \E cs \in SUBSET Columns, ds \in SUBSET BookDays, x \in Amounts :
              EditEntries(v, cs, ds, x)
  PROVE  NotebookInv'
<1>1. ASSUME NEW d \in BookDays, UpsertEntry(v, d)
      PROVE  NotebookInv'
  <2>. DEFINE s == [visit[v] EXCEPT !.left = @ \ {d}]
              c == visit[v].to
  <2>1. /\ visit[v].at = "sync" /\ d \in visit[v].left
        /\ cell' = [cell EXCEPT ![c][d] = visit[v].of[d]]
        /\ Disturbed(v, s) /\ UNCHANGED <<notebook, column, revenue, muddled>>
    BY <1>1 DEF UpsertEntry
  <2>2. /\ visit[v] \in Copying /\ visit[v].of \in Month /\ cell \in [Columns -> Month]
        /\ visit[v].left \subseteq BookDays
    BY <2>1, Visiting, NotebookTyped DEF NotebookInv
  <2>3. /\ s \in Copying /\ s.to = c /\ s.of = visit[v].of /\ s.calm = visit[v].calm
        /\ s.left = visit[v].left \ {d} /\ s.at = "sync"
    BY <2>1, <2>2 DEF Copying
  <2>. HIDE DEF s
  <2>4. cell' \in [Columns -> Month]
    BY <2>1, <2>2 DEF Month
  <2>5. ASSUME ~muddled
        PROVE  VisitHolds(s, Randevular, cell')
    <3>1. /\ Randevular = {c} /\ c \in Columns
          /\ visit[v].calm => \A e \in BookDays :
               visit[v].of[e] # Blank /\ e \notin visit[v].left => cell[c][e] = visit[v].of[e]
      BY <2>1, <2>5 DEF NotebookInv, VisitHolds, Randevular
    <3>2. \A e \in BookDays : cell'[c][e] = IF e = d THEN visit[v].of[d] ELSE cell[c][e]
      BY <2>1, <2>2, <3>1 DEF Month
    <3>. QED  BY <2>3, <3>1, <3>2 DEF VisitHolds
  <2>. QED  BY <2>1, <2>3, <2>4, <2>5, Disturbing
<1>2. ASSUME NEW cs \in SUBSET Columns, NEW ds \in SUBSET BookDays, NEW x \in Amounts,
             EditEntries(v, cs, ds, x)
      PROVE  NotebookInv'
  <2>. DEFINE s == [at |-> "columns", for |-> "month", again |-> FALSE]
  <2>1. /\ cell' = [c \in Columns |-> [d \in BookDays |->
                     IF c \in cs /\ d \in ds THEN x ELSE cell[c][d]]]
        /\ Disturbed(v, s) /\ UNCHANGED <<notebook, column, revenue, muddled>>
    BY <1>2 DEF EditEntries
  <2>2. cell' \in [Columns -> Month]
    BY <2>1, NotebookTyped DEF NotebookInv, Month
  <2>3. s \in Asked /\ VisitHolds(s, Randevular, cell')
    BY DEF Asked, VisitHolds
  <2>. HIDE DEF s
  <2>. QED  BY <2>1, <2>2, <2>3, Disturbing
<1>. QED  BY <1>1, <1>2

\* A column is stored where there was none: for the first time, or as one of
\* the others.
LEMMA StoringColumns ==
  ASSUME NotebookInv, NEW v \in Visits, FirstDefault(v) \/ OtherDefaults(v)
  PROVE  NotebookInv'
<1>1. CASE FirstDefault(v)
  <2>. DEFINE s == [visit[v] EXCEPT !.at = "rest"]
  <2>1. /\ visit[v].at = "first" /\ visit' = [visit EXCEPT ![v] = s]
        /\ StoreColumn("Randevular") /\ muddled' = (muddled \/ Present # {})
    BY <1>1 DEF FirstDefault, VisitGoes
  <2>2. PICK c \in Columns \ Present : column' = [column EXCEPT ![c] = "Randevular"]
    BY <2>1 DEF StoreColumn
  <2>3. UNCHANGED <<notebook, cell, revenue>>
    BY <2>1 DEF StoreColumn
  <2>4. visit[v] \in Asked
    BY <2>1, Visiting DEF NotebookInv
  <2>5. s \in Asked /\ s.at = "rest"
    BY <2>4 DEF Asked
  <2>. HIDE DEF s
  <2>6. NotebookTypeOK'
    BY <2>1, <2>2, <2>3, <2>5, NotebookTyped, NotebookTypedAgain DEF NotebookInv
  <2>7. ASSUME ~muddled'
        PROVE  /\ Randevular' = {c}
               /\ \A u \in Visits : VisitHolds(visit'[u], Randevular', cell')
    <3>1. ~muddled /\ Present = {}
      BY <2>1, <2>7
    <3>2. Randevular' = {c} /\ Randevular = {}
      BY <2>2, <3>1, NotebookTyped DEF NotebookInv, Randevular, Present
    <3>3. ASSUME NEW u \in Visits
          PROVE  VisitHolds(visit'[u], Randevular', cell')
      <4>1. CASE u = v
        <5>1. visit'[u] = s
          BY <2>1, <4>1, NotebookTyped DEF NotebookInv
        <5>. QED  BY <2>5, <3>2, <5>1 DEF VisitHolds
      <4>2. CASE u # v
        <5>1. visit'[u] = visit[u] /\ VisitHolds(visit[u], {}, cell)
          BY <2>1, <3>1, <3>2, <4>2, NotebookTyped DEF NotebookInv
        <5>2. visit[u].at \notin {"rest", "revenue", "sync"}
          BY <5>1 DEF VisitHolds
        <5>. QED  BY <3>2, <5>1, <5>2 DEF VisitHolds
      <4>. QED  BY <4>1, <4>2
    <3>. QED  BY <3>2, <3>3
  <2>. QED  BY <2>6, <2>7 DEF NotebookInv
<1>2. CASE OtherDefaults(v)
  <2>. DEFINE s == [visit[v] EXCEPT !.at = "columns"]
  <2>1. /\ visit[v].at = "rest" /\ visit' = [visit EXCEPT ![v] = s]
        /\ UNCHANGED <<notebook, cell, revenue, muddled>>
    BY <1>2 DEF OtherDefaults, VisitGoes, StoreColumn
  <2>2. \/ column' = column
        \/ \E c \in Columns \ Present : column' = [column EXCEPT ![c] = "other"]
    BY <1>2 DEF OtherDefaults, StoreColumn
  <2>3. visit[v] \in Asked
    BY <2>1, Visiting DEF NotebookInv
  <2>4. s \in Asked /\ s.at = "columns"
    BY <2>3 DEF Asked
  <2>. HIDE DEF s
  <2>5. column \in [Columns -> {"none", "Randevular", "other"}]
    BY NotebookTyped DEF NotebookInv
  <2>6. /\ Randevular' = Randevular
        /\ column' \in [Columns -> {"none", "Randevular", "other"}]
    BY <2>2, <2>5 DEF Randevular, Present
  <2>7. NotebookTypeOK'
    BY <2>1, <2>4, <2>6, NotebookTyped, NotebookTypedAgain DEF NotebookInv
  <2>8. ASSUME ~muddled
        PROVE  Randevular # {} /\ \A u \in Visits : VisitHolds(visit'[u], Randevular, cell)
    <3>1. Randevular # {}
      BY <2>1, <2>8 DEF NotebookInv, VisitHolds
    <3>2. ASSUME NEW u \in Visits
          PROVE  VisitHolds(visit'[u], Randevular, cell)
      <4>1. visit'[u] = IF u = v THEN s ELSE visit[u]
        BY <2>1, NotebookTyped DEF NotebookInv
      <4>2. VisitHolds(s, Randevular, cell)
        BY <2>4, <3>1 DEF VisitHolds
      <4>. QED  BY <2>8, <4>1, <4>2 DEF NotebookInv
    <3>. QED  BY <3>1, <3>2
  <2>. QED  BY <2>1, <2>6, <2>7, <2>8 DEF NotebookInv
<1>. QED  BY <1>1, <1>2

\* Columns made and deleted by hand, and appointments completed.
LEMMA Around ==
  ASSUME NotebookInv,
         \/ CreateColumn
         \/ \E c \in Columns : DeleteColumn(c)
         \/ \E d \in BookDays, x \in Amounts \cup {Blank} : RevenueChanges(d, x)
  PROVE  NotebookInv'
<1>. USE DEF NotebookInv
<1>1. column \in [Columns -> {"none", "Randevular", "other"}] /\ cell \in [Columns -> Month]
  BY NotebookTyped
<1>2. CASE CreateColumn
  <2>1. /\ UNCHANGED <<notebook, cell, revenue, visit>>
        /\ muddled' = (muddled \/ Present = {})
    BY <1>2 DEF CreateColumn, StoreColumn
  <2>2. PICK c \in Columns \ Present : column' = [column EXCEPT ![c] = "other"]
    BY <1>2 DEF CreateColumn, StoreColumn
  <2>3. /\ Randevular' = Randevular
        /\ column' \in [Columns -> {"none", "Randevular", "other"}]
    BY <1>1, <2>2 DEF Randevular, Present
  <2>4. NotebookTypeOK'
    BY <2>1, <2>3, NotebookTyped, NotebookTypedAgain
  <2>. QED  BY <2>1, <2>3, <2>4
<1>3. ASSUME NEW c \in Columns, DeleteColumn(c)
      PROVE  NotebookInv'
  <2>1. /\ column[c] = "other" /\ column' \in {column, [column EXCEPT ![c] = "none"]}
        /\ cell' = [cell EXCEPT ![c] = NoAmounts]
        /\ UNCHANGED <<notebook, revenue, visit, muddled>>
    BY <1>3 DEF DeleteColumn
  <2>2. /\ Randevular' = Randevular /\ Present' \subseteq Present /\ c \notin Randevular
        /\ column' \in [Columns -> {"none", "Randevular", "other"}]
    BY <1>1, <2>1 DEF Randevular, Present
  <2>3. cell' \in [Columns -> Month]
    BY <1>1, <2>1 DEF Month, NoAmounts
  <2>4. NotebookTypeOK'
    BY <2>1, <2>2, <2>3, NotebookTyped, NotebookTypedAgain
  <2>5. ASSUME ~muddled, NEW u \in Visits
        PROVE  VisitHolds(visit[u], Randevular, cell')
    <3>1. VisitHolds(visit[u], Randevular, cell)
      BY <2>5
    <3>2. \A d \in Randevular : cell'[d] = cell[d]
      BY <1>1, <2>1, <2>2 DEF Randevular
    <3>. QED  BY <3>1, <3>2 DEF VisitHolds
  <2>. QED  BY <2>1, <2>2, <2>4, <2>5
<1>4. ASSUME NEW d \in BookDays, NEW x \in Amounts \cup {Blank}, RevenueChanges(d, x)
      PROVE  NotebookInv'
  <2>1. /\ revenue' = [revenue EXCEPT ![d] = x]
        /\ UNCHANGED <<notebook, column, cell, visit, muddled>>
    BY <1>4 DEF RevenueChanges
  <2>2. revenue' \in Month
    BY <2>1, NotebookTyped DEF Month
  <2>3. NotebookTypeOK'
    BY <2>1, <2>2, NotebookTyped, NotebookTypedAgain
  <2>. QED  BY <2>1, <2>3 DEF Randevular, Present
<1>. QED  BY <1>2, <1>3, <1>4

LEMMA NotebookStepsPreserve ==
  ASSUME NotebookInv, [NotebookNext]_notebookVars
  PROVE  NotebookInv'
<1>1. CASE UNCHANGED notebookVars
  <2>1. NotebookTypeOK'
    BY <1>1, NotebookTyped, NotebookTypedAgain DEF NotebookInv, notebookVars
  <2>. QED  BY <1>1, <2>1 DEF NotebookInv, notebookVars, Randevular, Present
<1>2. CASE NotebookNext
  BY <1>2, Opening, Finding, ReadingRevenue, WritingCells, StoringColumns, Around DEF NotebookNext
<1>. QED  BY <1>1, <1>2

\* The inductive invariant: there is one column to copy into before anything is
\* copied, and what a request has copied is there while no one else writes.
THEOREM NotebookInvariant == NotebookSpec => []NotebookInv
<1>1. NotebookInit => NotebookInv
  BY NotebookInitHolds
<1>2. NotebookInv /\ [NotebookNext]_notebookVars => NotebookInv'
  BY NotebookStepsPreserve
<1>. QED  BY <1>1, <1>2, PTL DEF NotebookSpec

\* However many requests open and edit a month, and wherever one of them stops,
\* an opening answers what it read that the appointments brought in, unless
\* another wrote cells meanwhile or the standard columns were made twice or late
\* (getNotebook and syncAppointmentRevenue in dailyNotebookService.ts).
THEOREM RevenueTold == NotebookSpec => NotebookTellsRevenue
<1>1. ASSUME NotebookInv, [NotebookNext]_notebookVars, NEW v \in Visits,
             AnswerNotebook(v), visit[v].calm, ~muddled
      PROVE  \E c \in Columns :
               /\ Randevular = {c}
               /\ \A d \in BookDays : visit[v].of[d] # Blank => cell[c][d] = visit[v].of[d]
  <2>1. visit[v].at = "sync" /\ visit[v].left = {}
    BY <1>1 DEF AnswerNotebook
  <2>2. VisitHolds(visit[v], Randevular, cell)
    BY <1>1 DEF NotebookInv
  <2>3. Randevular = {visit[v].to} /\ visit[v].to \in Columns
    BY <2>1, <2>2 DEF VisitHolds, Randevular
  <2>. QED  BY <1>1, <2>1, <2>2, <2>3 DEF VisitHolds
<1>. DEFINE Tells == \A v \in Visits : AnswerNotebook(v) /\ visit[v].calm /\ ~muddled =>
               \E c \in Columns :
                 /\ Randevular = {c}
                 /\ \A d \in BookDays : visit[v].of[d] # Blank => cell[c][d] = visit[v].of[d]
<1>2. NotebookInv /\ [NotebookNext]_notebookVars => Tells
  BY <1>1
<1>3. NotebookInv /\ [NotebookNext]_notebookVars => [Tells]_notebookVars
  BY <1>2
<1>4. [][Tells]_notebookVars => NotebookTellsRevenue
  BY DEF NotebookTellsRevenue
<1>. HIDE DEF Tells
<1>. QED  BY <1>3, <1>4, NotebookInvariant, PTL DEF NotebookSpec

-----------------------------------------------------------------------------
(* Discount codes *)

Kept == [left : 0 .. MaxRecurring, trial : BOOLEAN, old : BOOLEAN]
Purchase == [at : {"checkout", "trial", "renewal", "apply", "record", "count"},
            by : Buyers, fresh : BOOLEAN]

\* The payments between the row and the count.
Counting == {w \in Tills : till[w].at = "count"}

\* A payment whose check is still true: its buyer has no use, and there is room.
CheckHolds(s) ==
  s # Closed /\ s.fresh =>
    s.at = "record" /\ redeemed[s.by] = 0 /\ Cardinality(Checked) < MaxUsages + slips

DiscountInv ==
  /\ DiscountTypeOK
  /\ CodeWithinLimit
  /\ Cardinality(Checked) <= uses + slips + Cardinality(Counting)
  /\ \A w \in Tills : CheckHolds(till[w])

LEMMA DiscountTyped ==
  ASSUME DiscountTypeOK
  PROVE  /\ uses \in Nat /\ slips \in 0 .. MaxSlips
         /\ redeemed \in [Buyers -> Nat] /\ unproven \in [Buyers -> Nat]
         /\ pending \in [Buyers -> {NoPending} \cup Kept]
         /\ till \in [Tills -> {Closed} \cup Purchase]
BY DEF DiscountTypeOK, Kept, Purchase

LEMMA DiscountTypedAgain ==
  ASSUME uses' \in Nat, slips' \in 0 .. MaxSlips,
         redeemed' \in [Buyers -> Nat], unproven' \in [Buyers -> Nat],
         pending' \in [Buyers -> {NoPending} \cup Kept],
         till' \in [Tills -> {Closed} \cup Purchase]
  PROVE  DiscountTypeOK'
BY DEF DiscountTypeOK, Kept, Purchase

LEMMA Buying ==
  ASSUME DiscountTypeOK, NEW w \in Tills, till[w].at # "closed"
  PROVE  till[w] \in Purchase /\ till[w].by \in Buyers
BY DiscountTyped DEF Closed, Purchase

LEMMA SetsFinite ==
  /\ IsFiniteSet(Checked) /\ Cardinality(Checked) \in Nat
  /\ IsFiniteSet(Counting) /\ Cardinality(Counting) \in Nat
  /\ MaxUsages \in Nat /\ MaxSlips \in Nat
<1>1. IsFiniteSet(Buyers) /\ IsFiniteSet(Tills) /\ MaxUsages \in Nat /\ MaxSlips \in Nat
  BY DiscountAssumption
<1>2. Checked \in SUBSET Buyers /\ Counting \in SUBSET Tills
  BY DEF Checked, Counting
<1>3. IsFiniteSet(Checked) /\ IsFiniteSet(Counting)
  BY <1>1, <1>2, FS_Subset
<1>. QED  BY <1>1, <1>3, FS_CardinalityType

LEMMA DiscountInitHolds == DiscountInit => DiscountInv
<1>. SUFFICES ASSUME DiscountInit
              PROVE  DiscountInv
  OBVIOUS
<1>1. DiscountTypeOK
  BY DiscountAssumption DEF DiscountInit, DiscountTypeOK
<1>2. Checked = {} /\ Counting = {}
  BY DEF DiscountInit, Checked, Counting, Closed
<1>3. Cardinality(Checked) = 0 /\ Cardinality(Counting) = 0
  BY <1>2, FS_EmptySet
<1>. QED  BY <1>1, <1>3, SetsFinite
          DEF DiscountInv, DiscountInit, CodeWithinLimit, CheckHolds, Closed

\* A payment goes on before its use is recorded; another may come to be kept.
LEMMA TillTurns ==
  ASSUME DiscountInv, NEW w \in Tills, NEW s \in {Closed} \cup Purchase,
         till' = [till EXCEPT ![w] = s], till[w].at # "count", s.at # "count",
         UNCHANGED Ledger, pending' \in [Buyers -> {NoPending} \cup Kept], CheckHolds(s)
  PROVE  DiscountInv'
<1>1. UNCHANGED <<uses, redeemed, slips, unproven>>
  BY DEF Ledger
<1>2. till' \in [Tills -> {Closed} \cup Purchase]
  BY DiscountTyped DEF DiscountInv
<1>3. DiscountTypeOK'
  BY <1>1, <1>2, DiscountTyped, DiscountTypedAgain DEF DiscountInv
<1>4. Counting' = Counting /\ Checked' = Checked
  BY <1>1, DiscountTyped DEF DiscountInv, Counting, Checked
<1>5. ASSUME NEW v \in Tills
      PROVE  CheckHolds(till[v])'
  <2>1. till'[v] = IF v = w THEN s ELSE till[v]
    BY DiscountTyped DEF DiscountInv
  <2>. QED  BY <1>1, <1>4, <2>1 DEF DiscountInv, CheckHolds
<1>. QED  BY <1>1, <1>3, <1>4, <1>5 DEF DiscountInv, CodeWithinLimit

\* Codes kept for later, and what they promise, leave the ledger alone.
LEMMA Promising ==
  ASSUME DiscountInv,
         \/ \E u \in Buyers, left \in {0, MaxRecurring}, trial \in BOOLEAN :
              Promise(u, left, trial)
         \/ \E u \in Buyers : WindowPasses(u)
  PROVE  DiscountInv'
<1>1. UNCHANGED till /\ UNCHANGED <<uses, redeemed, slips, unproven>>
  BY DEF Promise, WindowPasses, Ledger
<1>2. pending \in [Buyers -> {NoPending} \cup Kept]
  BY DiscountTyped DEF DiscountInv
<1>3. pending' \in [Buyers -> {NoPending} \cup Kept]
  <2>1. ASSUME NEW u \in Buyers, NEW left \in {0, MaxRecurring}, NEW trial \in BOOLEAN,
               Promise(u, left, trial)
        PROVE  pending' \in [Buyers -> {NoPending} \cup Kept]
    <3>1. (trial \/ OnTrial(u)) \in BOOLEAN /\ left \in 0 .. MaxRecurring
      BY <1>2, DiscountAssumption DEF OnTrial, Kept
    <3>2. [left |-> left, trial |-> trial \/ OnTrial(u), old |-> FALSE] \in Kept
      BY <3>1 DEF Kept
    <3>. QED  BY <1>2, <2>1, <3>2 DEF Promise
  <2>2. ASSUME NEW u \in Buyers, WindowPasses(u)
        PROVE  pending' \in [Buyers -> {NoPending} \cup Kept]
    <3>1. pending[u] \in Kept
      BY <1>2, <2>2 DEF WindowPasses, Promised
    <3>2. [pending[u] EXCEPT !.old = TRUE] \in Kept
      BY <3>1 DEF Kept
    <3>. QED  BY <1>2, <2>2, <3>2 DEF WindowPasses
  <2>. QED  BY <2>1, <2>2
<1>4. DiscountTypeOK'
  BY <1>1, <1>3, DiscountTyped, DiscountTypedAgain DEF DiscountInv
<1>. QED  BY <1>1, <1>4 DEF DiscountInv, CodeWithinLimit, CheckHolds, Checked, Counting

LEMMA PayingOn ==
  ASSUME DiscountInv, NEW w \in Tills,
         \/ \E u \in Buyers : Checkout(w, u) \/ ConvertTrial(w, u) \/ Renew(w, u)
         \/ ChargePaid(w) \/ ChargeDeclined(w) \/ Apply(w) \/ Dropped(w)
  PROVE  DiscountInv'
<1>1. pending \in [Buyers -> {NoPending} \cup Kept]
  BY DiscountTyped DEF DiscountInv
<1>2. Closed \in {Closed} \cup Purchase /\ CheckHolds(Closed) /\ Closed.at # "count"
  BY DEF Closed, CheckHolds
<1>3. ASSUME NEW u \in Buyers, Checkout(w, u) \/ ConvertTrial(w, u) \/ Renew(w, u)
      PROVE  DiscountInv'
  <2>1. PICK s \in Purchase : /\ till' = [till EXCEPT ![w] = s] /\ till[w] = Closed
                             /\ s.at # "count" /\ ~s.fresh
    <3>1. PICK kind \in {"checkout", "trial", "renewal"} : Charge(w, u, kind)
      BY <1>3 DEF Checkout, ConvertTrial, Renew
    <3>. DEFINE s == [at |-> kind, by |-> u, fresh |-> FALSE]
    <3>2. s \in Purchase /\ s.at # "count" /\ ~s.fresh
      BY DEF Purchase
    <3>. QED  BY <3>1, <3>2 DEF Charge, Keep
  <2>2. UNCHANGED Ledger
    BY <1>3 DEF Checkout, ConvertTrial, Renew
  <2>3. pending' \in [Buyers -> {NoPending} \cup Kept]
    <3>1. CASE Renew(w, u)
      <4>1. pending[u] \in Kept /\ pending[u].left > 0
        BY <1>1, <3>1 DEF Renew, Promised
      <4>2. [pending[u] EXCEPT !.left = @ - 1] \in Kept
        BY <4>1, DiscountAssumption DEF Kept
      <4>. QED  BY <1>1, <3>1, <4>2 DEF Renew
    <3>2. CASE Checkout(w, u) \/ ConvertTrial(w, u)
      BY <1>1, <3>2 DEF Checkout, ConvertTrial
    <3>. QED  BY <1>3, <3>1, <3>2
  <2>4. CheckHolds(s)
    BY <2>1 DEF CheckHolds
  <2>. QED  BY <1>2, <2>1, <2>2, <2>3, <2>4, TillTurns
<1>4. CASE ChargePaid(w)
  <2>. DEFINE s == [till[w] EXCEPT !.at = IF till[w].at = "checkout" THEN "apply" ELSE "record"]
  <2>1. /\ till[w].at \in Charging /\ till' = [till EXCEPT ![w] = s] /\ UNCHANGED Ledger
    BY <1>4 DEF ChargePaid, Turn, Keep
  <2>2. till[w] \in Purchase /\ till[w].by \in Buyers
    BY <2>1, Buying DEF DiscountInv, Charging
  <2>3. s \in Purchase /\ s.at # "count" /\ s.fresh = till[w].fresh
    BY <2>2 DEF Purchase
  <2>4. ~till[w].fresh
    BY <2>1 DEF DiscountInv, CheckHolds, Charging, Closed
  <2>. HIDE DEF s
  <2>5. CheckHolds(s)
    BY <2>3, <2>4 DEF CheckHolds
  <2>6. pending' \in [Buyers -> {NoPending} \cup Kept]
    <3>1. CASE till[w].at = "trial"
      <4>. DEFINE u == till[w].by
      <4>1. pending' = [pending EXCEPT ![u].trial = FALSE]
        BY <1>4, <3>1 DEF ChargePaid
      <4>2. CASE pending[u] \in Kept
        <5>1. [pending[u] EXCEPT !.trial = FALSE] \in Kept
          BY <4>2 DEF Kept
        <5>. QED  BY <1>1, <2>2, <4>1, <5>1
      <4>3. CASE pending[u] = NoPending
        <5>1. [pending[u] EXCEPT !.trial = FALSE] = NoPending
          BY <4>3 DEF NoPending
        <5>. QED  BY <1>1, <2>2, <4>1, <5>1
      <4>. QED  BY <1>1, <2>2, <4>2, <4>3
    <3>2. CASE till[w].at # "trial"
      BY <1>1, <1>4, <3>2 DEF ChargePaid
    <3>. QED  BY <3>1, <3>2
  <2>. QED  BY <2>1, <2>3, <2>5, <2>6, TillTurns DEF Charging
<1>5. CASE ChargeDeclined(w) \/ Dropped(w)
  <2>1. /\ till' = [till EXCEPT ![w] = Closed] /\ till[w].at # "count"
        /\ UNCHANGED <<pending, Ledger>>
    BY <1>5 DEF ChargeDeclined, Dropped, Keep, Charging
  <2>. QED  BY <1>1, <1>2, <2>1, TillTurns
<1>6. CASE Apply(w)
  <2>1. till[w].at = "apply" /\ UNCHANGED <<pending, Ledger>>
    BY <1>6 DEF Apply
  <2>2. till[w] \in Purchase /\ till[w].by \in Buyers
    BY <2>1, Buying DEF DiscountInv
  <2>3. CASE Valid(till[w].by)
    <3>. DEFINE calm == \A v \in Tills : till[v].at # "count"
                s == [till[w] EXCEPT !.at = "record", !.fresh = calm]
    <3>1. till' = [till EXCEPT ![w] = s]
      BY <1>6, <2>3 DEF Apply, Keep
    <3>2. calm => Cardinality(Counting) = 0
      BY FS_EmptySet DEF Counting
    <3>3. calm \in BOOLEAN
      OBVIOUS
    <3>. HIDE DEF calm
    <3>4. s \in Purchase /\ s.at # "count" /\ s.by = till[w].by /\ s.fresh = calm
      BY <2>2, <3>3 DEF Purchase
    <3>5. CheckHolds(s)
      BY <2>3, <3>2, <3>4, SetsFinite, DiscountTyped DEF CheckHolds, Valid, DiscountInv
    <3>. HIDE DEF s
    <3>. QED  BY <1>1, <2>1, <3>1, <3>4, <3>5, TillTurns
  <2>4. CASE ~Valid(till[w].by)
    <3>1. till' = [till EXCEPT ![w] = Closed]
      BY <1>6, <2>4 DEF Apply, Keep
    <3>. QED  BY <1>1, <1>2, <2>1, <3>1, TillTurns
  <2>. QED  BY <2>3, <2>4
<1>. QED  BY <1>3, <1>4, <1>5, <1>6

\* A row is recorded: if the check still holds it is the buyer's first, and
\* there was room for it.
LEMMA Recording ==
  ASSUME DiscountInv, NEW w \in Tills, RecordUsage(w)
  PROVE  DiscountInv'
<1>. DEFINE u == till[w].by
<1>1. /\ till[w].at = "record" /\ UNCHANGED <<uses, pending, slips>>
      /\ redeemed' = [redeemed EXCEPT ![u] = @ + 1]
      /\ unproven' = IF till[w].fresh THEN unproven ELSE [unproven EXCEPT ![u] = @ + 1]
  BY DEF RecordUsage
<1>2. till[w] \in Purchase /\ u \in Buyers /\ till[w] # Closed
  BY <1>1, Buying DEF DiscountInv, Closed
<1>3. /\ redeemed \in [Buyers -> Nat] /\ unproven \in [Buyers -> Nat]
      /\ uses \in Nat /\ slips \in Nat
      /\ till \in [Tills -> {Closed} \cup Purchase]
  BY DiscountTyped DEF DiscountInv
<1>4. ASSUME NEW v \in Tills
      PROVE  /\ till'[v] \in {Closed} \cup Purchase
             /\ till'[v] # Closed => ~till'[v].fresh
             /\ till'[v].at = "count" <=> (v = w \/ till[v].at = "count")
  <2>1. till'[v] = IF v = w THEN [till[v] EXCEPT !.at = "count", !.fresh = FALSE]
                   ELSE IF till[v].at = "record" THEN [till[v] EXCEPT !.fresh = FALSE]
                   ELSE till[v]
    BY DEF RecordUsage
  <2>2. CASE v = w
    BY <1>2, <2>1, <2>2 DEF Purchase, Closed
  <2>3. CASE v # w /\ till[v].at = "record"
    <3>1. till[v] \in Purchase
      BY <2>3, Buying DEF DiscountInv
    <3>. QED  BY <2>1, <2>3, <3>1 DEF Purchase, Closed
  <2>4. CASE v # w /\ till[v].at # "record"
    <3>1. till'[v] = till[v]
      BY <2>1, <2>4
    <3>. QED  BY <1>3, <2>4, <3>1 DEF DiscountInv, CheckHolds
  <2>. QED  BY <2>2, <2>3, <2>4
<1>5. till' \in [Tills -> {Closed} \cup Purchase]
  BY <1>4 DEF RecordUsage
<1>6. redeemed' \in [Buyers -> Nat] /\ unproven' \in [Buyers -> Nat]
  BY <1>1, <1>2, <1>3
<1>7. DiscountTypeOK'
  BY <1>1, <1>5, <1>6, DiscountTyped, DiscountTypedAgain DEF DiscountInv
<1>8. Cardinality(Counting') = Cardinality(Counting) + 1
  <2>1. Counting' = Counting \cup {w} /\ w \notin Counting
    BY <1>1, <1>4 DEF Counting
  <2>. QED  BY <2>1, SetsFinite, FS_AddElement
<1>9. CASE till[w].fresh
  <2>1. redeemed[u] = 0 /\ Cardinality(Checked) < MaxUsages + slips
    BY <1>2, <1>9 DEF DiscountInv, CheckHolds
  <2>2. Checked' = Checked \cup {u} \/ Checked' = Checked
    BY <1>1, <1>2, <1>3, <1>9 DEF Checked
  <2>3. Cardinality(Checked') <= Cardinality(Checked) + 1
    BY <2>2, SetsFinite, FS_AddElement
  <2>4. Cardinality(Checked') \in Nat
    BY <2>2, SetsFinite, FS_AddElement, FS_CardinalityType
  <2>5. \A b \in Buyers : redeemed'[b] <= unproven'[b] + 1
    BY <1>1, <1>2, <1>3, <1>9, <2>1 DEF DiscountInv, CodeWithinLimit
  <2>6. CodeWithinLimit'
    BY <1>1, <1>3, <2>1, <2>3, <2>4, <2>5, SetsFinite DEF CodeWithinLimit
  <2>7. (Cardinality(Checked) <= uses + slips + Cardinality(Counting))'
    BY <1>1, <1>3, <1>8, <2>3, <2>4, SetsFinite DEF DiscountInv
  <2>. QED  BY <1>4, <1>7, <2>6, <2>7 DEF DiscountInv, CheckHolds
<1>10. CASE ~till[w].fresh
  <2>1. Checked' = Checked
    BY <1>1, <1>2, <1>3, <1>10 DEF Checked
  <2>2. \A b \in Buyers : redeemed'[b] <= unproven'[b] + 1
    BY <1>1, <1>2, <1>3, <1>10 DEF DiscountInv, CodeWithinLimit
  <2>3. CodeWithinLimit'
    BY <1>1, <2>1, <2>2 DEF DiscountInv, CodeWithinLimit
  <2>4. (Cardinality(Checked) <= uses + slips + Cardinality(Counting))'
    BY <1>1, <1>3, <1>8, <2>1, SetsFinite DEF DiscountInv
  <2>. QED  BY <1>4, <1>7, <2>3, <2>4 DEF DiscountInv, CheckHolds
<1>. QED  BY <1>9, <1>10

\* The row is counted, or its count is lost.
LEMMA CountingUses ==
  ASSUME DiscountInv, NEW w \in Tills, CountUsage(w) \/ CountLost(w)
  PROVE  DiscountInv'
<1>1. /\ till[w].at = "count" /\ till' = [till EXCEPT ![w] = Closed]
      /\ UNCHANGED <<redeemed, pending, unproven>>
      /\ \/ uses' = uses + 1 /\ slips' = slips
         \/ uses' = uses /\ slips' = slips + 1 /\ slips < MaxSlips
  BY DEF CountUsage, CountLost, Keep
<1>2. /\ uses \in Nat /\ slips \in 0 .. MaxSlips /\ MaxSlips \in Nat
      /\ till \in [Tills -> {Closed} \cup Purchase]
  BY DiscountTyped, DiscountAssumption DEF DiscountInv
<1>3. /\ slips' >= slips
      /\ uses' \in Nat /\ slips' \in 0 .. MaxSlips
      /\ slips \in Nat /\ slips' \in Nat
  BY <1>1, <1>2
<1>4. till' \in [Tills -> {Closed} \cup Purchase]
  BY <1>1, <1>2
<1>5. DiscountTypeOK'
  BY <1>1, <1>3, <1>4, DiscountTyped, DiscountTypedAgain DEF DiscountInv
<1>6. Checked' = Checked
  BY <1>1 DEF Checked
<1>7. Cardinality(Counting') = Cardinality(Counting) - 1
  <2>1. Counting' = Counting \ {w} /\ w \in Counting
    BY <1>1, <1>2 DEF Counting, Closed
  <2>. QED  BY <2>1, SetsFinite, FS_RemoveElement
<1>8. ASSUME NEW v \in Tills
      PROVE  CheckHolds(till[v])'
  <2>1. till'[v] = IF v = w THEN Closed ELSE till[v]
    BY <1>1, <1>2
  <2>. QED  BY <1>1, <1>2, <1>3, <1>6, <2>1, SetsFinite DEF DiscountInv, CheckHolds
<1>9. CodeWithinLimit'
  BY <1>1, <1>2, <1>3, <1>6, SetsFinite DEF DiscountInv, CodeWithinLimit
<1>10. (Cardinality(Checked) <= uses + slips + Cardinality(Counting))'
  <2>1. Cardinality(Checked) <= uses + slips + Cardinality(Counting)
    BY DEF DiscountInv
  <2>2. CASE uses' = uses + 1 /\ slips' = slips
    BY <1>3, <1>6, <1>7, <2>1, <2>2, SetsFinite, DiscountTyped DEF DiscountInv
  <2>3. CASE uses' = uses /\ slips' = slips + 1
    BY <1>3, <1>6, <1>7, <2>1, <2>3, SetsFinite, DiscountTyped DEF DiscountInv
  <2>. QED  BY <1>1, <2>2, <2>3
<1>. QED  BY <1>5, <1>8, <1>9, <1>10 DEF DiscountInv

LEMMA DiscountStepsPreserve ==
  ASSUME DiscountInv, [DiscountNext]_discountVars
  PROVE  DiscountInv'
<1>1. CASE UNCHANGED discountVars
  <2>1. DiscountTypeOK'
    BY <1>1, DiscountTyped, DiscountTypedAgain DEF DiscountInv, discountVars
  <2>. QED  BY <1>1, <2>1
            DEF DiscountInv, CodeWithinLimit, CheckHolds, Checked, Counting, discountVars
<1>2. CASE DiscountNext
  BY <1>2, PayingOn, Promising, Recording, CountingUses DEF DiscountNext
<1>. QED  BY <1>1, <1>2

\* The inductive invariant: a row is counted, lost or about to be counted, and a
\* check that no other row has made old still tells the truth.
THEOREM DiscountInvariant == DiscountSpec => []DiscountInv
<1>1. DiscountInit => DiscountInv
  BY DiscountInitHolds
<1>2. DiscountInv /\ [DiscountNext]_discountVars => DiscountInv'
  BY DiscountStepsPreserve
<1>. QED  BY <1>1, <1>2, PTL DEF DiscountSpec

\* However many payments overlap, a code is used once by a buyer and within its
\* limit, but for uses of another, later or lost record (validateDiscountCode
\* and recordUsage in discountCodeRepository.ts).
THEOREM CodeKept == DiscountSpec => []CodeWithinLimit
<1>1. DiscountInv => CodeWithinLimit
  BY DEF DiscountInv
<1>. QED  BY <1>1, DiscountInvariant, PTL

-----------------------------------------------------------------------------
(* The parts side by side *)

\* What an owner does to one part leaves the others alone: of each part a
\* behaviour of all is one of its own, so that its theorems hold of it.
THEOREM OwnerPartsApart ==
  OwnerSpec => Spec /\ DiscountSpec /\ ClosureSpec /\ NotebookSpec /\ ImagesSpec
<1>1. OwnerInit => Init /\ DiscountInit /\ ClosureInit /\ NotebookInit /\ ImagesInit
  BY DEF OwnerInit
<1>2. [OwnerNext]_OwnerParts =>
        /\ [Next]_vars
        /\ [DiscountNext]_discountVars
        /\ [ClosureNext]_closureVars
        /\ [NotebookNext]_notebookVars
        /\ [ImagesNext]_imageVars
  BY DEF OwnerNext, OwnerParts
<1>. QED
  BY <1>1, <1>2, PTL
     DEF OwnerSpec, Spec, DiscountSpec, ClosureSpec, NotebookSpec, ImagesSpec

\* Subscriptions and payments, codes, closures, the notebook and the gallery
\* keep the types the code gives them, for any numbers of each.
THEOREM OwnerTypeCorrect == OwnerSpec => []OwnerTypeOK
<1>1. DiscountInv => DiscountTypeOK
  BY DEF DiscountInv
<1>2. NotebookInv => NotebookTypeOK
  BY DEF NotebookInv
<1>3. ImagesInv => ImagesTypeOK
  BY DEF ImagesInv
<1>4. TypeOK /\ DiscountTypeOK /\ ClosureTypeOK /\ NotebookTypeOK /\ ImagesTypeOK => OwnerTypeOK
  BY DEF OwnerTypeOK
<1>. QED
  BY <1>1, <1>2, <1>3, <1>4, OwnerPartsApart, BillingTypeCorrect, DiscountInvariant,
     ClosureTypeCorrect, NotebookInvariant, ImagesInvariant, PTL
=============================================================================
