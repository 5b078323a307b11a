------------------------------ MODULE Closures ------------------------------
(***************************************************************************)
(* The closing periods of one business.  Every request that gives a period *)
(* dates asks for active closures that overlap it and then writes, in two  *)
(* statements without a transaction; the others write at once.             *)
(*                                                                         *)
(* Sources: services/domain/closure/businessClosureService.ts and          *)
(* repositories/businessClosureRepository.ts.                              *)
(***************************************************************************)
EXTENDS Integers

CONSTANTS
  Closures, \* rows of business_closures
  Owners,   \* requests in flight
  LastDay,  \* bound on dates and on the clock
  MaxAsked  \* bound: requests that check before they write

ASSUME ClosureAssumption == LastDay \in Nat /\ MaxAsked \in Nat

Dates == 0 .. LastDay
\* A null endDate: the queries treat it as later than every date.
NoEnd == LastDay + 1
\* A date the request does not give.
Given == -1

Kinds == {"plain", "holiday", "emergency", "maintenance"}

VARIABLES
  today,
  closure,  \* the table
  owner,    \* what each request has checked and will write
  asked,    \* requests that checked, for the bound
  doubtful  \* history: closures written on a check that was out of date, or
            \* made active again without one

closureVars == <<today, closure, owner, asked, doubtful>>

AtRest == [op |-> "rest"]
Period(s, e) == [start |-> s, end |-> e]

ClosureTypeOK ==
  /\ today \in Dates
  /\ closure \in [Closures -> [state : {"none", "active", "inactive"},
                               start : Dates, end : Dates \cup {NoEnd}]]
  /\ asked \in 0 .. MaxAsked
  /\ doubtful \subseteq Closures
  /\ owner \in [Owners -> {AtRest}
       \cup [op : {"create"}, start : Dates, end : Dates \cup {NoEnd}, fresh : BOOLEAN]
       \cup [op : {"update", "extend"}, id : Closures, start : Dates \cup {Given},
             end : Dates \cup {Given}, on : {"keep", "active", "inactive"},
             fresh : BOOLEAN]]

ClosureInit ==
  /\ today = 0
  /\ closure = [c \in Closures |-> [state |-> "none", start |-> 0, end |-> 0]]
  /\ owner = [p \in Owners |-> AtRest]
  /\ asked = 0
  /\ doubtful = {}

Known(c) == closure[c].state # "none"
ActiveClosures == {c \in Closures : closure[c].state = "active"}

\* Touching periods do not overlap.
Overlapping(p, q) == p.start < q.end /\ q.start < p.end

\* A closure without an end is not looked at.
FaultConflicts(s, e, except) ==
  {c \in ActiveClosures \ except :
     closure[c].end # NoEnd /\ Overlapping(closure[c], Period(s, e))}

\* findConflictingClosures
Conflicts(s, e, except) ==
  {c \in ActiveClosures \ except : Overlapping(closure[c], Period(s, e))}

MayAsk(p) == owner[p] = AtRest /\ asked < MaxAsked
Ask(p, request) ==
  /\ owner' = [owner EXCEPT ![p] = request]
  /\ asked' = asked + 1
  /\ UNCHANGED <<today, closure, doubtful>>

\* What a write does besides: the checks of the other requests are old now.
Written(p, c, row, sure) ==
  /\ closure' = [closure EXCEPT ![c] = row]
  /\ doubtful' = IF sure THEN doubtful \ {c} ELSE doubtful \cup {c}
  /\ owner' = [q \in Owners |->
       IF q = p \/ owner[q] = AtRest THEN AtRest ELSE [owner[q] EXCEPT !.fresh = FALSE]]
  /\ UNCHANGED <<today, asked>>

\* A write that needs no check, from a request of its own.
WrittenAtOnce(c, row, sure) ==
  \E p \in Owners : owner[p] = AtRest /\ Written(p, c, row, sure)

-----------------------------------------------------------------------------
(* The ways to close: only plain closures look at the clock, and holidays  *)
(* do not compare their dates at all.                                      *)

Acceptable(kind, s, e) ==
  CASE kind = "plain" -> s >= today /\ e >= s
    [] kind = "holiday" -> TRUE
    [] kind = "emergency" -> e > s
    [] kind = "maintenance" -> e > s /\ e # NoEnd

CreateCheck(p, kind, s, e) ==
  /\ MayAsk(p)
  /\ Acceptable(kind, s, e)
  /\ Conflicts(s, e, {}) = {}
  /\ Ask(p, [op |-> "create", start |-> s, end |-> e, fresh |-> TRUE])

CreateInsert(p, c) ==
  /\ owner[p].op = "create"
  /\ ~Known(c)
  /\ Written(p, c, [state |-> "active", start |-> owner[p].start, end |-> owner[p].end],
             owner[p].fresh)

-----------------------------------------------------------------------------
(* updateClosure: dates, and isActive either way *)

UpdateRow(c, q) ==
  [state |-> IF q.on = "keep" THEN closure[c].state ELSE q.on,
   start |-> IF q.start = Given THEN closure[c].start ELSE q.start,
   end |-> IF q.end = Given THEN closure[c].end ELSE q.end]

\* The service checks the period that will result; the repository then checks
\* one of its own, from now or without an end where a date is not given.
UpdateCheck(p, c, s, e, on) ==
  LET q == [op |-> "update", id |-> c, start |-> s, end |-> e, on |-> on, fresh |-> TRUE]
      row == UpdateRow(c, q)
  IN  /\ MayAsk(p)
      /\ Known(c)
      /\ s # Given \/ e # Given
      /\ row.end > row.start
      /\ Conflicts(row.start, row.end, {c}) = {}
      /\ Conflicts(IF s = Given THEN today ELSE s, IF e = Given THEN NoEnd ELSE e, {c}) = {}
      /\ Ask(p, q)

\* The dates that were not given are written too.
FaultUpdateWrite(p) ==
  /\ owner[p].op = "update"
  /\ Written(p, owner[p].id,
             [state |-> closure[owner[p].id].state, start |-> owner[p].start,
              end |-> owner[p].end], owner[p].fresh)

UpdateWrite(p) ==
  /\ owner[p].op = "update"
  /\ LET c == owner[p].id IN
     Written(p, c, UpdateRow(c, owner[p]), owner[p].fresh)

\* Without dates nothing is checked, even when the closure becomes active.
Switch(c, on) ==
  /\ Known(c)
  /\ WrittenAtOnce(c, [closure[c] EXCEPT !.state = on], on = "inactive")

-----------------------------------------------------------------------------
(* extendClosure, endClosureEarly, deleteClosure, autoExpireClosures *)

ExtendCheck(p, c, e) ==
  /\ MayAsk(p)
  /\ Known(c)
  /\ e > closure[c].start
  /\ Conflicts(closure[c].start, e, {c}) = {}
  /\ Ask(p, [op |-> "extend", id |-> c, start |-> Given, end |-> e, on |-> "keep",
             fresh |-> TRUE])

ExtendWrite(p) ==
  /\ owner[p].op = "extend"
  /\ LET c == owner[p].id IN
     IF owner[p].end > closure[c].start
       THEN Written(p, c, UpdateRow(c, owner[p]), owner[p].fresh)
       ELSE owner' = [owner EXCEPT ![p] = AtRest] /\ UNCHANGED <<today, closure, asked, doubtful>>

EndEarly(c, e) ==
  /\ Known(c)
  /\ e >= closure[c].start
  /\ WrittenAtOnce(c, [closure[c] EXCEPT !.state = "inactive", !.end = e], TRUE)

Delete(c) ==
  /\ Known(c)
  /\ WrittenAtOnce(c, [closure[c] EXCEPT !.state = "inactive"], TRUE)

\* One UPDATE, asked for by an administrator.
AutoExpire ==
  /\ closure' = [c \in Closures |->
       IF closure[c].state = "active" /\ closure[c].end < today
         THEN [closure[c] EXCEPT !.state = "inactive"] ELSE closure[c]]
  /\ UNCHANGED <<today, owner, asked, doubtful>>

NextDay ==
  /\ today < LastDay
  /\ today' = today + 1
  /\ UNCHANGED <<closure, owner, asked, doubtful>>

ClosureNext ==
  \/ \E p \in Owners, s \in Dates, e \in Dates \cup {NoEnd}, kind \in Kinds :
       CreateCheck(p, kind, s, e)
  \/ \E p \in Owners, c \in Closures : CreateInsert(p, c)
  \/ \E p \in Owners, c \in Closures, s, e \in Dates \cup {Given},
        on \in {"keep", "active", "inactive"} : UpdateCheck(p, c, s, e, on)
  \/ \E p \in Owners : UpdateWrite(p) \/ ExtendWrite(p)
  \/ \E c \in Closures, on \in {"active", "inactive"} : Switch(c, on)
  \/ \E p \in Owners, c \in Closures, e \in Dates : ExtendCheck(p, c, e)
  \/ \E c \in Closures, e \in Dates : EndEarly(c, e)
  \/ \E c \in Closures : Delete(c)
  \/ AutoExpire
  \/ NextDay

ClosureSpec == ClosureInit /\ [][ClosureNext]_closureVars

-----------------------------------------------------------------------------
(* Properties *)

\* Two active closures overlap only if one of them was written after another
\* write that its check had not seen, or was switched on without a check:
\* creating, moving, extending, ending and expiring never make them overlap.
OverlapsAreDoubtful ==
  \A c, d \in ActiveClosures \ doubtful :
    c # d => ~Overlapping(closure[c], closure[d])
=============================================================================
