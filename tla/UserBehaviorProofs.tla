------------------------- MODULE UserBehaviorProofs -------------------------
(***************************************************************************)
(* Proofs about UserBehavior for every policy, every set of operations and *)
(* bounds in Mixes, and every number of customers, businesses, bookings    *)
(* and requests.                                                           *)
(***************************************************************************)
EXTENDS UserBehavior, FiniteSetTheorems, TLAPS

Looked == {"lift", "insert"}     \* places after a look at the ban
Swept == {"sweepRead", "sweep"}  \* places of a ban being carried out

\* A request names its customer, and where it needs one its business.
Named(x) ==
  /\ x.at # "idle" => x.customer \in Customers
  /\ x.at \in Looked \cup Swept \cup {"policy"} => x.business \in Businesses

RowNamed(r) ==
  r.status # "NONE" => r.customer \in Customers /\ r.business \in Businesses

\* A booking past the check holds a ban only if it was set since.
KnowsBan(x) ==
  x.at \in Looked /\ Banned(x.customer, x.business) => x.overtaken

\* What a request is that begins, or goes on, without having read rows to cancel.
Fresh(x) == KnowsBan(x) /\ x.at # "sweep"

\* A row that was read to be canceled is not forgotten.
SeenRows(x) == x.at = "sweep" => \A a \in x.seen : rows[a].status # "NONE"

\* The ban is carried out, or a request that carries it out is about to read
\* the rows, or has read all of them.
CarriedOut(c, b) ==
  Banned(c, b) =>
    \/ Future(c, b) \subseteq despite
    \/ \E t \in Tasks : /\ task[t].at \in Swept
                        /\ task[t].customer = c /\ task[t].business = b
                        /\ task[t].at = "sweep" =>
                             Future(c, b) \subseteq despite \cup task[t].seen

CustomerInv ==
  /\ CustomerTypeOK
  /\ \A a \in Bookings : RowNamed(rows[a])
  /\ \A t \in Tasks : Named(task[t]) /\ KnowsBan(task[t]) /\ SeenRows(task[t])
  /\ \A c \in Customers, b \in Businesses : CarriedOut(c, b)

-----------------------------------------------------------------------------
(* What a step may do without disturbing the invariant. *)

BehaviorKept == behavior' \in [Customers -> Behavior]

\* No row of a banned customer comes, or it is recorded.
TableKept ==
  /\ rows' \in [Bookings -> Row]
  /\ despite \subseteq despite' /\ despite' \subseteq Bookings
  /\ \A a \in Bookings :
       /\ RowNamed(rows'[a])
       /\ rows[a].status # "NONE" => rows'[a].status # "NONE"
       /\ \/ rows'[a] = rows[a]
          \/ rows'[a].status # "ACTIVE"
          \/ a \in despite'
          \/ ~Banned(rows'[a].customer, rows'[a].business)

\* No ban that is being carried out is abandoned.
TasksKept ==
  /\ task' \in [Tasks -> Task]
  /\ \A t \in Tasks :
       \/ task'[t] = task[t]
       \/ task[t].at \notin Swept /\ Named(task'[t]) /\ Fresh(task'[t])

LEMMA FutureKept ==
  ASSUME CustomerInv, UNCHANGED date, TableKept, NEW c \in Customers, NEW b \in Businesses,
         Banned(c, b)
  PROVE  Future(c, b)' \subseteq Future(c, b) \cup despite'
<1>. SUFFICES ASSUME NEW a \in Future(c, b)', a \notin despite'
              PROVE  a \in Future(c, b)
  OBVIOUS
<1>1. /\ a \in Bookings /\ rows'[a].customer = c /\ rows'[a].business = b
      /\ rows'[a].status = "ACTIVE" /\ rows'[a].day > date'
  BY DEF Future, RowsOf
<1>2. rows'[a] = rows[a]
  BY <1>1 DEF TableKept
<1>. QED  BY <1>1, <1>2 DEF Future, RowsOf

LEMMA Kept ==
  ASSUME CustomerInv, UNCHANGED <<mix, date, ban>>, BehaviorKept, TableKept, TasksKept
  PROVE  CustomerInv'
<1>1. CustomerTypeOK'
  BY DEF CustomerInv, CustomerTypeOK, BehaviorKept, TableKept, TasksKept
<1>2. \A c, b : Banned(c, b)' <=> Banned(c, b)
  BY DEF Banned, Expired
<1>3. \A t \in Tasks : (Named(task[t]) /\ KnowsBan(task[t]) /\ SeenRows(task[t]))'
  <2>. SUFFICES ASSUME NEW t \in Tasks
                PROVE  Named(task'[t]) /\ KnowsBan(task[t])' /\ SeenRows(task[t])'
    BY DEF Named
  <2>1. Named(task'[t]) /\ KnowsBan(task'[t])
    BY DEF TasksKept, CustomerInv, Fresh
  <2>2. KnowsBan(task[t])'
    BY <1>2, <2>1 DEF KnowsBan
  <2>3. SeenRows(task[t])'
    <3>1. CASE task'[t] = task[t]
      <4>1. SeenRows(task[t]) /\ task[t] \in Task
        BY DEF CustomerInv, CustomerTypeOK
      <4>2. task[t].seen \subseteq Bookings
        BY <4>1 DEF Task
      <4>. QED  BY <3>1, <4>1, <4>2 DEF SeenRows, TableKept
    <3>2. CASE Fresh(task'[t])
      BY <3>2 DEF Fresh, SeenRows
    <3>. QED  BY <3>1, <3>2 DEF TasksKept
  <2>. QED  BY <2>1, <2>2, <2>3
<1>4. ASSUME NEW c \in Customers, NEW b \in Businesses
      PROVE  CarriedOut(c, b)'
  <2>. SUFFICES ASSUME Banned(c, b)'
                PROVE  CarriedOut(c, b)'
    BY DEF CarriedOut
  <2>1. Banned(c, b)
    BY <1>2
  <2>2. Future(c, b)' \subseteq Future(c, b) \cup despite' /\ despite \subseteq despite'
    BY <2>1, FutureKept DEF TableKept
  <2>3. CASE Future(c, b) \subseteq despite
    BY <2>2, <2>3 DEF CarriedOut
  <2>4. ASSUME NEW t \in Tasks, task[t].at \in Swept, task[t].customer = c,
               task[t].business = b,
               task[t].at = "sweep" => Future(c, b) \subseteq despite \cup task[t].seen
        PROVE  CarriedOut(c, b)'
    <3>1. task'[t] = task[t]
      BY <2>4 DEF TasksKept
    <3>2. task'[t].at = "sweep" => Future(c, b)' \subseteq despite' \cup task'[t].seen
      BY <2>2, <2>4, <3>1
    <3>. QED  BY <2>4, <3>1, <3>2 DEF CarriedOut
  <2>. QED  BY <2>1, <2>3, <2>4 DEF CustomerInv, CarriedOut
<1>5. \A a \in Bookings : RowNamed(rows[a])'
  BY DEF TableKept, RowNamed
<1>. QED  BY <1>1, <1>3, <1>4, <1>5 DEF CustomerInv

LEMMA RowsStay == CustomerInv /\ UNCHANGED <<rows, despite>> => TableKept
BY DEF CustomerInv, CustomerTypeOK, TableKept

LEMMA TasksStay == CustomerInv /\ UNCHANGED task => TasksKept
BY DEF CustomerInv, CustomerTypeOK, TasksKept

LEMMA BehaviorStays == CustomerInv /\ UNCHANGED behavior => BehaviorKept
BY DEF CustomerInv, CustomerTypeOK, BehaviorKept

LEMMA OneBehavior ==
  ASSUME CustomerInv, NEW c, NEW x \in Behavior, behavior' = [behavior EXCEPT ![c] = x]
  PROVE  BehaviorKept
BY DEF CustomerInv, CustomerTypeOK, BehaviorKept

LEMMA OneTask ==
  ASSUME CustomerInv, NEW t \in Tasks, NEW x \in Task, task' = [task EXCEPT ![t] = x],
         task[t].at \notin Swept, Named(x), Fresh(x)
  PROVE  TasksKept
BY DEF CustomerInv, CustomerTypeOK, TasksKept

\* A row that is written and does not come onto the book.
LEMMA OneRow ==
  ASSUME CustomerInv, NEW a \in Bookings, NEW r \in Row, rows' = [rows EXCEPT ![a] = r],
         despite' = despite, RowNamed(r), r.status \notin {"ACTIVE", "NONE"}
  PROVE  TableKept
BY DEF CustomerInv, CustomerTypeOK, TableKept

LEMMA CustomerInitHolds == CustomerInit => CustomerInv
<1>. SUFFICES ASSUME CustomerInit
              PROVE  CustomerInv
  OBVIOUS
<1>1. NoRow \in Row /\ NoBehavior \in Behavior /\ Idle \in Task
  BY UserBehaviorAssumption
  DEF NoRow, Row, Statuses, NoBehavior, Behavior, Idle, Task, Days, Null, NoCounts, Counts, Places
<1>2. CustomerTypeOK
  BY <1>1, UserBehaviorAssumption DEF CustomerInit, CustomerTypeOK, Ban, Days, Null
<1>3. \A t \in Tasks : Named(task[t]) /\ KnowsBan(task[t]) /\ SeenRows(task[t])
  BY DEF CustomerInit, Named, KnowsBan, SeenRows, Idle, Looked, Swept
<1>4. \A c \in Customers, b \in Businesses : CarriedOut(c, b)
  BY DEF CustomerInit, CarriedOut, Banned
<1>5. \A a \in Bookings : RowNamed(rows[a])
  BY DEF CustomerInit, RowNamed, NoRow
<1>. QED  BY <1>2, <1>3, <1>4, <1>5 DEF CustomerInv

-----------------------------------------------------------------------------
(* What is written has its type. *)

LEMMA CountsTyped == \A c : Counted(c) \in Counts
<1>. SUFFICES ASSUME NEW c
              PROVE  Counted(c) \in Counts
  OBVIOUS
<1>1. \A d : CancelsSince(c, d) \in Nat
  <2>. SUFFICES ASSUME NEW d
                PROVE  CancelsSince(c, d) \in Nat
    OBVIOUS
  <2>. DEFINE S == {a \in RowsOf(c) : /\ rows[a].status = "CANCELED"
                                      /\ rows[a].by # "BUSINESS"
                                      /\ rows[a].gone >= d}
  <2>1. S \subseteq Bookings
    BY DEF RowsOf
  <2>. HIDE DEF S
  <2>2. Cardinality(S) \in Nat
    BY <2>1, UserBehaviorAssumption, FS_Subset, FS_CardinalityType
  <2>. QED  BY <2>2 DEF S, CancelsSince
<1>2. \A d : NoShowsSince(c, d) \in Nat
  <2>. SUFFICES ASSUME NEW d
                PROVE  NoShowsSince(c, d) \in Nat
    OBVIOUS
  <2>. DEFINE S == {a \in RowsOf(c) : rows[a].status = "NO_SHOW" /\ rows[a].gone >= d}
  <2>1. S \subseteq Bookings
    BY DEF RowsOf
  <2>. HIDE DEF S
  <2>2. Cardinality(S) \in Nat
    BY <2>1, UserBehaviorAssumption, FS_Subset, FS_CardinalityType
  <2>. QED  BY <2>2 DEF S, NoShowsSince
<1>. QED  BY <1>1, <1>2 DEF Counted, Counts

LEMMA ResetDates ==
  ASSUME date \in Nat, NEW n
  PROVE  StrikeResetDate(n) \in Days
BY UserBehaviorAssumption DEF StrikeResetDate, Days, Null

LEMMA RecountTyped ==
  ASSUME date \in Nat, NEW b \in Behavior, NEW counts \in Counts
  PROVE  Recounted(b, counts) \in Behavior
<1>1. RecountedStrikes(counts) \in 0 .. MaxStrikes
  BY UserBehaviorAssumption DEF RecountedStrikes
<1>2. \A n : StrikeResetDate(n) \in Days
  BY ResetDates
<1>3. date \in Days
  BY DEF Days
<1>. HIDE DEF Days
<1>. QED  BY <1>1, <1>2, <1>3 DEF Recounted, Behavior

\* The row a reader gets, made or found.
LEMMA ExistingTyped ==
  ASSUME CustomerInv, NEW c \in Customers
  PROVE  /\ Existing(c) \in Behavior
         /\ Existing(c).strikes \in 0 .. MaxStrikes /\ Existing(c).bans \in 0 .. 3
<1>1. NoBehavior \in Behavior /\ date \in Nat /\ behavior[c] \in Behavior
  BY UserBehaviorAssumption
  DEF NoBehavior, Behavior, Days, Null, NoCounts, Counts, CustomerInv, CustomerTypeOK
<1>2. Existing(c) \in Behavior
  BY <1>1, RecountTyped, CountsTyped DEF Existing
<1>. QED  BY <1>2 DEF Behavior

LEMMA StrikesTyped ==
  ASSUME date \in Nat, NEW b \in Behavior, NEW strikes \in 0 .. MaxStrikes,
         NEW bans \in 0 .. 3, NEW late \in BOOLEAN
  PROVE  Struck(b, strikes, bans, late) \in Behavior
<1>. DEFINE n == IF strikes < MaxStrikes THEN strikes + 1 ELSE strikes
            k == OneMoreBan(bans)
            until == date + (IF late THEN LateBan ELSE BanDays[k])
            struck == [b EXCEPT !.strikes = n, !.resetOn = StrikeResetDate(n),
                                !.banned = n >= 3, !.bans = bans, !.touched = date]
<1>1. n \in 0 .. MaxStrikes /\ n \in Int
  BY UserBehaviorAssumption
<1>2. k \in 1 .. 3 /\ k \in 0 .. 3
  BY DEF OneMoreBan
<1>3. until \in Days
  <2>1. BanDays[k] \in Nat /\ LateBan \in Nat
    BY <1>2, UserBehaviorAssumption
  <2>. QED  BY <2>1 DEF Days
<1>4. StrikeResetDate(n) \in Days /\ date \in Days /\ (n >= 3) \in BOOLEAN
  BY ResetDates DEF Days
<1>5. Struck(b, strikes, bans, late) =
        IF n < 3 THEN struck ELSE [struck EXCEPT !.bans = k, !.until = until]
  BY DEF Struck
<1>. HIDE DEF n, k, until, Days
<1>6. struck \in Behavior
  BY <1>1, <1>4 DEF Behavior
<1>7. [struck EXCEPT !.bans = k, !.until = until] \in Behavior
  BY <1>2, <1>3, <1>6 DEF Behavior
<1>. QED  BY <1>5, <1>6, <1>7

LEMMA IdleFits == Idle \in Task /\ Named(Idle) /\ Fresh(Idle)
<1>1. Idle \in Task
  BY UserBehaviorAssumption DEF Idle, Task, NoCounts, Counts, Places
<1>2. Idle.at = "idle"
  BY DEF Idle
<1>. QED  BY <1>1, <1>2 DEF Named, Fresh, KnowsBan, Looked, Swept

\* The fields of a request that begins.
LEMMA AboutTyped ==
  ASSUME NEW c \in Customers, NEW place \in Places
  PROVE  /\ About(c, place) \in Task
         /\ About(c, place).at = place /\ About(c, place).customer = c
<1>1. Idle \in Task
  BY IdleFits
<1>. QED  BY <1>1 DEF About, Task

\* A request goes on to a place where no ban matters.
LEMMA GoesTyped ==
  ASSUME NEW x \in Task, NEW place \in Places, Named(x), x.at # "idle",
         place \notin Looked \cup Swept \cup {"policy"}
  PROVE  /\ [x EXCEPT !.at = place] \in Task
         /\ Named([x EXCEPT !.at = place]) /\ Fresh([x EXCEPT !.at = place])
BY DEF Task, Named, Fresh, KnowsBan, Swept

LEMMA TaskTyped ==
  ASSUME CustomerInv, NEW t \in Tasks
  PROVE  /\ task[t] \in Task /\ Named(task[t]) /\ KnowsBan(task[t])
         /\ task[t].at \in Places /\ date \in Nat /\ date \in Days
         /\ task[t].strikes \in 0 .. MaxStrikes /\ task[t].bans \in 0 .. 3
         /\ task[t].late \in BOOLEAN /\ task[t].length \in Nat
         /\ task[t].counts \in Counts
BY DEF CustomerInv, CustomerTypeOK, Task, Days

LEMMA Ending ==
  ASSUME CustomerInv, NEW t \in Tasks, Ends(t), task[t].at \notin Swept
  PROVE  TasksKept
BY OneTask, IdleFits DEF Ends

\* A request that begins at a place where no ban matters.
LEMMA Beginning ==
  ASSUME CustomerInv, NEW t \in Tasks, NEW op, NEW x \in Task, Begins(t, op, x),
         Named(x), Fresh(x)
  PROVE  TasksKept
<1>1. task[t].at \notin Swept /\ task' = [task EXCEPT ![t] = x]
  BY DEF Begins, MayStart, Idle, Swept
<1>. QED  BY <1>1, OneTask

LEMMA RowTyped ==
  ASSUME CustomerInv, NEW a \in Bookings, rows[a].status # "NONE"
  PROVE  /\ rows[a] \in Row /\ rows[a].customer \in Customers
         /\ rows[a].business \in Businesses /\ date \in Nat
BY DEF CustomerInv, CustomerTypeOK, RowNamed

-----------------------------------------------------------------------------
(* A booking *)

\* A request of a booking looks at the ban as it begins.
LEMMA BookStarting ==
  ASSUME CustomerInv, NEW t \in Tasks, NEW c \in Customers, NEW b \in Businesses,
         NEW day \in Nat, BookStart(t, c, b, day)
  PROVE  CustomerInv'
<1>. DEFINE place == IF ban[c][b].active THEN "lift" ELSE "policy"
            x == [About(c, place) EXCEPT !.business = b, !.day = day]
<1>1. /\ ~Banned(c, b) /\ Begins(t, "book", x)
      /\ UNCHANGED <<mix, date, rows, behavior, ban, despite>>
  BY DEF BookStart
<1>2. place \in Places /\ place \in {"lift", "policy"}
  BY DEF Places
<1>. HIDE DEF place
<1>3. x \in Task /\ x.at = place /\ x.customer = c /\ x.business = b
  <2>1. /\ About(c, place) \in Task
        /\ About(c, place).at = place /\ About(c, place).customer = c
    BY <1>2, AboutTyped
  <2>. QED  BY <2>1 DEF Task
<1>. HIDE DEF x
<1>4. Named(x) /\ Fresh(x)
  BY <1>1, <1>2, <1>3 DEF Named, Fresh, KnowsBan
<1>5. TasksKept
  BY <1>1, <1>3, <1>4, Beginning
<1>. QED  BY <1>1, <1>5, Kept, RowsStay, BehaviorStays

LEMMA BookDeciding ==
  ASSUME CustomerInv, NEW t \in Tasks, BookPolicy(t)
  PROVE  CustomerInv'
<1>. DEFINE c == task[t].customer
            b == task[t].business
<1>1. /\ task[t].at = "policy" /\ behavior' = [behavior EXCEPT ![c] = Existing(c)]
      /\ \/ Allowed("BOOK", c, b, task[t].day) /\ Goes(t, "insert")
         \/ Ends(t)
      /\ UNCHANGED <<mix, date, rows, ban, despite>>
  BY DEF BookPolicy
<1>2. c \in Customers /\ b \in Businesses /\ task[t] \in Task
  BY <1>1, TaskTyped DEF Named
<1>3. BehaviorKept
  BY <1>1, <1>2, ExistingTyped, OneBehavior
<1>4. CASE ~Banned(c, b) /\ Goes(t, "insert")
  <2>. DEFINE x == [task[t] EXCEPT !.at = "insert"]
  <2>1. x \in Task /\ x.at = "insert" /\ x.customer = c /\ x.business = b
    BY <1>2 DEF Task, Places
  <2>2. task' = [task EXCEPT ![t] = x]
    BY <1>4 DEF Goes
  <2>. HIDE DEF x
  <2>3. Named(x) /\ Fresh(x)
    BY <1>2, <1>4, <2>1 DEF Named, Fresh, KnowsBan
  <2>4. TasksKept
    BY <1>1, <2>1, <2>2, <2>3, OneTask DEF Swept
  <2>. QED  BY <1>1, <1>3, <2>4, Kept, RowsStay
<1>5. CASE Ends(t)
  <2>1. TasksKept
    BY <1>1, <1>5, Ending DEF Swept
  <2>. QED  BY <1>1, <1>3, <2>1, Kept, RowsStay
<1>. QED  BY <1>1, <1>4, <1>5 DEF Allowed

\* A row for a customer banned since is recorded.
LEMMA BookInserting ==
  ASSUME CustomerInv, NEW t \in Tasks, NEW a \in Bookings, BookInsert(t, a)
  PROVE  CustomerInv'
<1>. DEFINE c == task[t].customer
            b == task[t].business
<1>1. /\ task[t].at = "insert" /\ Goes(t, "count")
      /\ despite' = IF task[t].overtaken THEN despite \cup {a} ELSE despite
      /\ UNCHANGED <<mix, date, behavior, ban>>
  BY DEF BookInsert
<1>2. /\ task[t] \in Task /\ Named(task[t]) /\ KnowsBan(task[t])
      /\ c \in Customers /\ b \in Businesses /\ task[t].day \in Nat
  BY <1>1, TaskTyped DEF Named, Looked, Task
<1>3. PICK status \in {"ACTIVE", "WAITING"} :
        rows' = [rows EXCEPT ![a] = [NoRow EXCEPT !.status = status, !.customer = c,
                                                  !.business = b, !.day = task[t].day]]
  BY DEF BookInsert
<1>. DEFINE r == [NoRow EXCEPT !.status = status, !.customer = c,
                               !.business = b, !.day = task[t].day]
<1>4. r \in Row /\ r.customer = c /\ r.business = b /\ r.status # "NONE"
  BY <1>2 DEF NoRow, Row, Statuses, Days, Null
<1>. HIDE DEF r
<1>5. TableKept
  <2>1. rows' = [rows EXCEPT ![a] = r] /\ rows \in [Bookings -> Row] /\ despite \subseteq Bookings
    BY <1>3 DEF r, CustomerInv, CustomerTypeOK
  <2>2. RowNamed(r)
    BY <1>2, <1>4 DEF RowNamed
  <2>3. a \in despite' \/ ~Banned(r.customer, r.business)
    BY <1>1, <1>2, <1>4 DEF KnowsBan, Looked
  <2>4. despite \subseteq despite' /\ despite' \subseteq Bookings
    BY <1>1, <2>1
  <2>5. \A d \in Bookings \ {a} : rows'[d] = rows[d] /\ RowNamed(rows[d])
    BY <2>1 DEF CustomerInv
  <2>6. rows'[a] = r /\ rows' \in [Bookings -> Row]
    BY <1>4, <2>1
  <2>. QED  BY <1>4, <2>2, <2>3, <2>4, <2>5, <2>6 DEF TableKept
<1>6. TasksKept
  <2>. DEFINE x == [task[t] EXCEPT !.at = "count"]
  <2>1. x \in Task /\ Named(x) /\ Fresh(x)
    BY <1>1, <1>2, GoesTyped DEF Places, Looked, Swept
  <2>2. task' = [task EXCEPT ![t] = x]
    BY <1>1 DEF Goes
  <2>. HIDE DEF x
  <2>. QED  BY <1>1, <2>1, <2>2, OneTask DEF Swept
<1>. QED  BY <1>1, <1>5, <1>6, Kept, BehaviorStays

LEMMA BookRefusing ==
  ASSUME CustomerInv, NEW t \in Tasks, BookRefused(t)
  PROVE  CustomerInv'
<1>1. TasksKept
  BY Ending DEF BookRefused, Swept
<1>. QED  BY <1>1, Kept, RowsStay, BehaviorStays DEF BookRefused

\* A ban that is lifted is one less.
LEMMA Lifting ==
  ASSUME CustomerInv, NEW t \in Tasks, BookLift(t)
  PROVE  CustomerInv'
<1>. DEFINE c == task[t].customer
            b == task[t].business
            x == [task[t] EXCEPT !.at = "policy"]
<1>1. /\ task[t].at = "lift" /\ ban' = [ban EXCEPT ![c][b].active = FALSE]
      /\ task' = [task EXCEPT ![t] = x]
      /\ UNCHANGED <<mix, date, rows, behavior, despite>>
  BY DEF BookLift, Goes
<1>2. /\ task[t] \in Task /\ c \in Customers /\ b \in Businesses
      /\ task \in [Tasks -> Task] /\ ban \in [Customers -> [Businesses -> Ban]]
  BY <1>1, TaskTyped DEF Named, Looked, CustomerInv, CustomerTypeOK
<1>3. x \in Task /\ x.at = "policy" /\ x.customer = c /\ x.business = b
  BY <1>2 DEF Task, Places
<1>. HIDE DEF x
<1>4. ban' \in [Customers -> [Businesses -> Ban]]
  <2>. DEFINE lifted == [ban[c][b] EXCEPT !.active = FALSE]
              bans == [ban[c] EXCEPT ![b] = lifted]
  <2>1. lifted \in Ban
    <3>1. ban[c][b] \in Ban
      BY <1>2
    <3>. QED  BY <3>1 DEF Ban
  <2>. HIDE DEF lifted
  <2>2. bans \in [Businesses -> Ban]
    BY <1>2, <2>1
  <2>3. ban' = [ban EXCEPT ![c] = bans]
    BY <1>1 DEF lifted
  <2>. HIDE DEF bans
  <2>. QED  BY <1>2, <2>2, <2>3
<1>5. \A d \in Customers, e \in Businesses : Banned(d, e)' => Banned(d, e)
  BY <1>1, <1>2 DEF Banned, Expired, Ban
<1>6. CustomerTypeOK'
  BY <1>1, <1>2, <1>3, <1>4 DEF CustomerInv, CustomerTypeOK
<1>7. \A s \in Tasks : (Named(task[s]) /\ KnowsBan(task[s]) /\ SeenRows(task[s]))'
  <2>. SUFFICES ASSUME NEW s \in Tasks
                PROVE  Named(task'[s]) /\ KnowsBan(task[s])' /\ SeenRows(task[s])'
    BY DEF Named
  <2>1. CASE s = t
    <3>1. task'[s] = x
      BY <1>1, <1>2, <2>1
    <3>. QED  BY <1>2, <1>3, <3>1 DEF Named, KnowsBan, SeenRows, Looked
  <2>2. CASE s # t
    <3>1. task'[s] = task[s] /\ Named(task[s]) /\ KnowsBan(task[s]) /\ SeenRows(task[s])
      BY <1>1, <1>2, <2>2 DEF CustomerInv
    <3>2. task[s].at \in Looked =>
            task[s].customer \in Customers /\ task[s].business \in Businesses
      BY <3>1 DEF Named, Looked
    <3>3. KnowsBan(task[s])'
      BY <1>5, <3>1, <3>2 DEF KnowsBan
    <3>4. SeenRows(task[s])'
      BY <1>1, <3>1 DEF SeenRows
    <3>. QED  BY <3>1, <3>3, <3>4
  <2>. QED  BY <2>1, <2>2
<1>8. ASSUME NEW d \in Customers, NEW e \in Businesses
      PROVE  CarriedOut(d, e)'
  <2>1. CarriedOut(d, e) /\ (Banned(d, e)' => Banned(d, e))
    BY <1>5 DEF CustomerInv
  <2>2. Future(d, e)' = Future(d, e)
    BY <1>1 DEF Future, RowsOf
  <2>3. \A s \in Tasks : task[s].at \in Swept => task'[s] = task[s]
    BY <1>1, <1>2 DEF Swept
  <2>. QED  BY <1>1, <2>1, <2>2, <2>3 DEF CarriedOut
<1>9. \A a \in Bookings : RowNamed(rows[a])'
  BY <1>1 DEF CustomerInv, RowNamed
<1>. QED  BY <1>6, <1>7, <1>8, <1>9 DEF CustomerInv

\* createOrUpdate
LEMMA Counting ==
  ASSUME CustomerInv, NEW t \in Tasks, Count(t) \/ Store(t)
  PROVE  CustomerInv'
<1>1. CASE Count(t)
  <2>. DEFINE n == Counted(task[t].customer)
              x == [task[t] EXCEPT !.at = "store", !.counts = n]
  <2>1. task[t].at = "count" /\ task' = [task EXCEPT ![t] = x]
    BY <1>1, TaskTyped DEF Count, CustomerInv, CustomerTypeOK
  <2>2. task[t] \in Task /\ task[t].customer \in Customers /\ n \in Counts
    BY <2>1, TaskTyped, CountsTyped DEF Named
  <2>. HIDE DEF n
  <2>3. x \in Task /\ x.at = "store" /\ x.customer = task[t].customer
    BY <2>2 DEF Task, Places
  <2>. HIDE DEF x
  <2>4. Named(x) /\ Fresh(x)
    BY <2>2, <2>3 DEF Named, Fresh, KnowsBan, Looked, Swept
  <2>5. TasksKept
    BY <2>1, <2>3, <2>4, OneTask DEF Swept
  <2>. QED  BY <1>1, <2>5, Kept, RowsStay, BehaviorStays DEF Count
<1>2. CASE Store(t)
  <2>. DEFINE c == task[t].customer
  <2>1. /\ task[t].at = "store" /\ Ends(t)
        /\ behavior' = [behavior EXCEPT ![c] = Recounted(behavior[c], task[t].counts)]
    BY <1>2 DEF Store
  <2>2. c \in Customers
    BY <2>1, TaskTyped DEF Named
  <2>3. Recounted(behavior[c], task[t].counts) \in Behavior
    BY <2>2, TaskTyped, RecountTyped DEF CustomerInv, CustomerTypeOK
  <2>4. BehaviorKept
    BY <2>1, <2>3, OneBehavior
  <2>5. TasksKept
    BY <2>1, Ending DEF Swept
  <2>. QED  BY <1>2, <2>4, <2>5, Kept, RowsStay DEF Store
<1>. QED  BY <1>1, <1>2

-----------------------------------------------------------------------------
(* What becomes of an appointment *)

LEMMA CanceledTyped ==
  ASSUME CustomerInv, NEW a \in Bookings, NEW who \in {"CUSTOMER", "BUSINESS"},
         rows[a].status # "NONE"
  PROVE  /\ CanceledBy(rows[a], who) \in Row /\ RowNamed(CanceledBy(rows[a], who))
         /\ CanceledBy(rows[a], who).status \notin {"ACTIVE", "NONE"}
<1>1. rows[a] \in Row /\ date \in Days /\ RowNamed(rows[a])
  BY RowTyped DEF CustomerInv, Days
<1>2. CanceledBy(rows[a], who) \in Row
  BY <1>1 DEF CanceledBy, Row, Statuses
<1>3. /\ CanceledBy(rows[a], who).status = "CANCELED"
      /\ CanceledBy(rows[a], who).customer = rows[a].customer
      /\ CanceledBy(rows[a], who).business = rows[a].business
  BY <1>1 DEF CanceledBy, Row
<1>. QED  BY <1>1, <1>2, <1>3 DEF RowNamed

\* A request that goes on about the customer of a row.
LEMMA AboutFits ==
  ASSUME NEW c \in Customers, NEW place \in {"strike", "count"}
  PROVE  /\ About(c, place) \in Task
         /\ Named(About(c, place)) /\ Fresh(About(c, place))
<1>1. /\ About(c, place) \in Task /\ About(c, place).at = place
      /\ About(c, place).customer = c
  BY AboutTyped DEF Places
<1>. QED  BY <1>1 DEF Named, Fresh, KnowsBan, Looked, Swept

LEMMA AfterCancelFits ==
  ASSUME CustomerInv, NEW a \in Bookings, rows[a].status # "NONE"
  PROVE  /\ AfterOwnCancel(rows[a]) \in Task
         /\ Named(AfterOwnCancel(rows[a])) /\ Fresh(AfterOwnCancel(rows[a]))
<1>. DEFINE c == rows[a].customer
            x == [About(c, "strike") EXCEPT !.late = TRUE]
<1>1. c \in Customers
  BY RowTyped
<1>2. /\ About(c, "strike") \in Task /\ About(c, "strike").at = "strike"
      /\ About(c, "strike").customer = c
  BY <1>1, AboutTyped DEF Places
<1>3. x \in Task /\ x.at = "strike" /\ x.customer = c
  BY <1>2 DEF Task
<1>. HIDE DEF x
<1>4. Named(x) /\ Fresh(x)
  BY <1>1, <1>3 DEF Named, Fresh, KnowsBan, Looked, Swept
<1>5. AfterOwnCancel(rows[a]) = x \/ AfterOwnCancel(rows[a]) = About(c, "count")
  BY DEF AfterOwnCancel, x
<1>. QED  BY <1>1, <1>3, <1>4, <1>5, AboutFits

LEMMA OwnCancels ==
  ASSUME CustomerInv, NEW t \in Tasks, NEW a \in Bookings,
         CancelOwn(t, a) \/ CancelByEdit(t, a)
  PROVE  CustomerInv'
<1>1. /\ rows[a].status # "NONE" /\ Begins(t, "cancel", AfterOwnCancel(rows[a]))
      /\ rows' = [rows EXCEPT ![a] = CanceledBy(rows[a], "CUSTOMER")]
      /\ UNCHANGED <<mix, date, ban, despite>>
      /\ \/ behavior' = behavior
         \/ behavior' = [behavior EXCEPT ![rows[a].customer] = Existing(rows[a].customer)]
  BY DEF CancelOwn, CancelByEdit
<1>2. TableKept
  BY <1>1, CanceledTyped, OneRow
<1>3. TasksKept
  BY <1>1, AfterCancelFits, Beginning
<1>4. BehaviorKept
  BY <1>1, BehaviorStays, RowTyped, ExistingTyped, OneBehavior
<1>. QED  BY <1>1, <1>2, <1>3, <1>4, Kept

LEMMA OtherCancels ==
  ASSUME CustomerInv, NEW a \in Bookings,
         OwnerCancel(a) \/ (\E who \in {"CUSTOMER", "BUSINESS"} : StatusCanceled(a, who))
  PROVE  CustomerInv'
<1>1. PICK who \in {"CUSTOMER", "BUSINESS"} :
        /\ rows[a].status # "NONE" /\ rows' = [rows EXCEPT ![a] = CanceledBy(rows[a], who)]
        /\ UNCHANGED <<mix, date, behavior, ban, task, despite>>
  BY DEF OwnerCancel, StatusCanceled
<1>2. TableKept
  BY <1>1, CanceledTyped, OneRow
<1>. QED  BY <1>1, <1>2, Kept, TasksStay, BehaviorStays

\* Put back by the business: recorded if the customer is banned.
LEMMA PuttingBack ==
  ASSUME CustomerInv, NEW a \in Bookings, StatusConfirmed(a) \/ Approve(a)
  PROVE  CustomerInv'
<1>. DEFINE r == [rows[a] EXCEPT !.status = "ACTIVE"]
<1>1. /\ rows[a].status # "NONE" /\ rows' = [rows EXCEPT ![a] = r]
      /\ despite' = IF Banned(rows[a].customer, rows[a].business)
                    THEN despite \cup {a} ELSE despite
      /\ UNCHANGED <<mix, date, behavior, ban, task>>
  BY DEF StatusConfirmed, Approve
<1>2. /\ r \in Row /\ r.customer = rows[a].customer /\ r.business = rows[a].business
      /\ r.status # "NONE"
  BY <1>1, RowTyped DEF Row, Statuses
<1>. HIDE DEF r
<1>3. RowNamed(r)
  BY <1>1, <1>2, RowTyped DEF RowNamed
<1>4. TableKept
  <2>1. rows \in [Bookings -> Row] /\ despite \subseteq Bookings
    BY DEF CustomerInv, CustomerTypeOK
  <2>2. \A d \in Bookings \ {a} : rows'[d] = rows[d] /\ RowNamed(rows[d])
    BY <1>1, <2>1 DEF CustomerInv
  <2>3. rows'[a] = r /\ rows' \in [Bookings -> Row]
    BY <1>1, <1>2, <2>1
  <2>4. a \in despite' \/ ~Banned(r.customer, r.business)
    BY <1>1, <1>2
  <2>5. despite \subseteq despite' /\ despite' \subseteq Bookings
    BY <1>1, <2>1
  <2>. QED  BY <1>2, <1>3, <2>2, <2>3, <2>4, <2>5 DEF TableKept
<1>. QED  BY <1>1, <1>4, Kept, TasksStay, BehaviorStays

LEMMA Visiting ==
  ASSUME CustomerInv, NEW t \in Tasks, NEW a \in Bookings,
         StatusNoShow(t, a) \/ StatusCompleted(t, a) \/ MarkNoShow(t, a)
  PROVE  CustomerInv'
<1>. DEFINE c == rows[a].customer
<1>1. /\ rows[a].status # "NONE" /\ UNCHANGED <<mix, date, ban, despite>>
      /\ behavior' = behavior \/ behavior' = [behavior EXCEPT ![c] = Existing(c)]
  BY DEF StatusNoShow, StatusCompleted, MarkNoShow
<1>2. c \in Customers /\ rows[a] \in Row /\ date \in Days
  BY <1>1, RowTyped DEF Days
<1>3. TableKept
  <2>. DEFINE noShow == [rows[a] EXCEPT !.status = "NO_SHOW", !.gone = date]
              done == [rows[a] EXCEPT !.status = "COMPLETED"]
  <2>1. /\ noShow \in Row /\ noShow.status = "NO_SHOW"
        /\ noShow.customer = c /\ noShow.business = rows[a].business
    BY <1>2 DEF Row, Statuses
  <2>2. /\ done \in Row /\ done.status = "COMPLETED"
        /\ done.customer = c /\ done.business = rows[a].business
    BY <1>2 DEF Row, Statuses
  <2>3. rows' = [rows EXCEPT ![a] = noShow] \/ rows' = [rows EXCEPT ![a] = done]
    <3>1. rows \in [Bookings -> Row]
      BY DEF CustomerInv, CustomerTypeOK
    <3>. QED  BY <3>1 DEF StatusNoShow, StatusCompleted, MarkNoShow
  <2>. HIDE DEF noShow, done
  <2>4. RowNamed(noShow) /\ RowNamed(done)
    BY <1>1, <1>2, <2>1, <2>2, RowTyped DEF RowNamed
  <2>. QED  BY <1>1, <2>1, <2>2, <2>3, <2>4, OneRow
<1>4. TasksKept
  <2>. DEFINE x == [About(c, "strike") EXCEPT !.then = "policy"]
  <2>1. /\ About(c, "strike") \in Task /\ About(c, "strike").at = "strike"
        /\ About(c, "strike").customer = c
    BY <1>2, AboutTyped DEF Places
  <2>2. x \in Task /\ x.at = "strike" /\ x.customer = c
    BY <2>1 DEF Task
  <2>3. \/ Begins(t, "status", About(c, "strike"))
        \/ Begins(t, "status", About(c, "count"))
        \/ Begins(t, "noShow", x)
    BY DEF StatusNoShow, StatusCompleted, MarkNoShow
  <2>. HIDE DEF x
  <2>4. Named(x) /\ Fresh(x)
    BY <1>2, <2>2 DEF Named, Fresh, KnowsBan, Looked, Swept
  <2>. QED  BY <1>2, <2>2, <2>3, <2>4, AboutFits, Beginning
<1>5. BehaviorKept
  BY <1>1, <1>2, BehaviorStays, ExistingTyped, OneBehavior
<1>. QED  BY <1>1, <1>3, <1>4, <1>5, Kept

-----------------------------------------------------------------------------
(* Strikes and the bans of the platform *)

\* A request about a customer, at a place where no ban of a business matters.
LEMMA PlainFits ==
  ASSUME NEW x \in Task, x.customer \in Customers,
         x.at \in {"strike", "strikeWrite", "unstrike", "verdict", "banWrite"}
  PROVE  Named(x) /\ Fresh(x)
BY DEF Named, Fresh, KnowsBan, Looked, Swept

LEMMA StrikesBegin ==
  ASSUME CustomerInv, NEW t \in Tasks, NEW c \in Customers,
         \/ AddStrike(t, c) \/ AutomaticStrike(t, c) \/ RemoveStrike(t, c)
         \/ \E length \in {0, PolicyBan} : AdminBan(t, c, length)
  PROVE  CustomerInv'
<1>1. CASE AddStrike(t, c) \/ AutomaticStrike(t, c)
  <2>1. /\ UNCHANGED <<mix, date, rows, behavior, ban, despite>>
        /\ \/ Begins(t, "strike", About(c, "strike"))
           \/ Begins(t, "automatic", About(c, "strike"))
    BY <1>1 DEF AddStrike, AutomaticStrike
  <2>2. TasksKept
    BY <2>1, AboutFits, Beginning
  <2>. QED  BY <2>1, <2>2, Kept, RowsStay, BehaviorStays
<1>2. CASE RemoveStrike(t, c)
  <2>. DEFINE x == [About(c, "unstrike") EXCEPT !.strikes = behavior[c].strikes]
  <2>1. /\ UNCHANGED <<mix, date, rows, behavior, ban, despite>>
        /\ Begins(t, "removeStrike", x)
    BY <1>2 DEF RemoveStrike
  <2>2. behavior[c].strikes \in 0 .. MaxStrikes
    <3>1. behavior[c] \in Behavior
      BY DEF CustomerInv, CustomerTypeOK
    <3>. QED  BY <3>1 DEF Behavior
  <2>3. /\ About(c, "unstrike") \in Task /\ About(c, "unstrike").at = "unstrike"
        /\ About(c, "unstrike").customer = c
    BY AboutTyped DEF Places
  <2>4. x \in Task /\ x.at = "unstrike" /\ x.customer = c
    BY <2>2, <2>3 DEF Task
  <2>. HIDE DEF x
  <2>5. TasksKept
    BY <2>1, <2>4, PlainFits, Beginning
  <2>. QED  BY <2>1, <2>5, Kept, RowsStay, BehaviorStays
<1>3. ASSUME NEW length \in {0, PolicyBan}, AdminBan(t, c, length)
      PROVE  CustomerInv'
  <2>. DEFINE n == Existing(c).bans
              x == [About(c, "banWrite") EXCEPT !.bans = n, !.length = length]
  <2>1. /\ UNCHANGED <<mix, date, rows, ban, despite>>
        /\ Begins(t, "adminBan", x)
        /\ behavior' = [behavior EXCEPT ![c] = Existing(c)]
    BY <1>3 DEF AdminBan
  <2>2. n \in 0 .. 3 /\ length \in Nat
    BY ExistingTyped, UserBehaviorAssumption
  <2>. HIDE DEF n
  <2>3. /\ About(c, "banWrite") \in Task /\ About(c, "banWrite").at = "banWrite"
        /\ About(c, "banWrite").customer = c
    BY AboutTyped DEF Places
  <2>4. x \in Task /\ x.at = "banWrite" /\ x.customer = c
    BY <2>2, <2>3 DEF Task
  <2>. HIDE DEF x
  <2>5. TasksKept
    BY <2>1, <2>4, PlainFits, Beginning
  <2>6. BehaviorKept
    BY <2>1, ExistingTyped, OneBehavior
  <2>. QED  BY <2>1, <2>5, <2>6, Kept, RowsStay
<1>. QED  BY <1>1, <1>2, <1>3

LEMMA StrikeReads ==
  ASSUME CustomerInv, NEW t \in Tasks, Strike(t)
  PROVE  CustomerInv'
<1>. DEFINE c == task[t].customer
            k == Existing(c).strikes
            n == Existing(c).bans
            x == [task[t] EXCEPT !.at = "strikeWrite", !.strikes = k, !.bans = n]
<1>1. /\ task[t].at = "strike" /\ behavior' = [behavior EXCEPT ![c] = Existing(c)]
      /\ task' = [task EXCEPT ![t] = x] /\ UNCHANGED <<mix, date, rows, ban, despite>>
  BY TaskTyped DEF Strike, CustomerInv, CustomerTypeOK
<1>2. c \in Customers /\ task[t] \in Task
  BY <1>1, TaskTyped DEF Named
<1>3. k \in 0 .. MaxStrikes /\ n \in 0 .. 3
  BY <1>2, ExistingTyped
<1>. HIDE DEF k, n
<1>4. x \in Task /\ x.at = "strikeWrite" /\ x.customer = c
  BY <1>2, <1>3 DEF Task, Places
<1>. HIDE DEF x
<1>5. TasksKept
  BY <1>1, <1>2, <1>4, PlainFits, OneTask DEF Swept
<1>6. BehaviorKept
  BY <1>1, <1>2, ExistingTyped, OneBehavior
<1>. QED  BY <1>1, <1>5, <1>6, Kept, RowsStay

LEMMA StrikeStores ==
  ASSUME CustomerInv, NEW t \in Tasks, StrikeWrite(t)
  PROVE  CustomerInv'
<1>. DEFINE c == task[t].customer
            again == [task[t] EXCEPT !.at = "strike", !.then = "verdict"]
            judged == [task[t] EXCEPT !.at = "verdict"]
<1>1. /\ task[t].at = "strikeWrite" /\ UNCHANGED <<mix, date, rows, ban, despite>>
      /\ behavior' = [behavior EXCEPT ![c] =
                        Struck(behavior[c], task[t].strikes, task[t].bans, task[t].late)]
      /\ \/ task' = [task EXCEPT ![t] = again]
         \/ task' = [task EXCEPT ![t] = judged]
         \/ Ends(t)
  BY TaskTyped DEF StrikeWrite, Goes, CustomerInv, CustomerTypeOK
<1>2. c \in Customers /\ task[t] \in Task
  BY <1>1, TaskTyped DEF Named
<1>3. BehaviorKept
  <2>1. behavior[c] \in Behavior
    BY <1>2 DEF CustomerInv, CustomerTypeOK
  <2>2. Struck(behavior[c], task[t].strikes, task[t].bans, task[t].late) \in Behavior
    BY <2>1, TaskTyped, StrikesTyped
  <2>. QED  BY <1>1, <2>2, OneBehavior
<1>4. TasksKept
  <2>1. again \in Task /\ again.at = "strike" /\ again.customer = c
    BY <1>2 DEF Task, Places
  <2>2. judged \in Task /\ judged.at = "verdict" /\ judged.customer = c
    BY <1>2 DEF Task, Places
  <2>. HIDE DEF again, judged
  <2>3. CASE task' = [task EXCEPT ![t] = again]
    BY <1>1, <1>2, <2>1, <2>3, PlainFits, OneTask DEF Swept
  <2>4. CASE task' = [task EXCEPT ![t] = judged]
    BY <1>1, <1>2, <2>2, <2>4, PlainFits, OneTask DEF Swept
  <2>5. CASE Ends(t)
    BY <1>1, <2>5, Ending DEF Swept
  <2>. QED  BY <1>1, <2>3, <2>4, <2>5
<1>. QED  BY <1>1, <1>3, <1>4, Kept, RowsStay

LEMMA Judging ==
  ASSUME CustomerInv, NEW t \in Tasks, Verdict(t)
  PROVE  CustomerInv'
<1>. DEFINE c == task[t].customer
            n == behavior[c].bans
            x == [task[t] EXCEPT !.at = "banWrite", !.bans = n, !.length = PolicyBan]
<1>1. /\ task[t].at = "verdict" /\ UNCHANGED <<mix, date, rows, behavior, ban, despite>>
      /\ task' = [task EXCEPT ![t] = x] \/ Ends(t)
  BY TaskTyped DEF Verdict, CustomerInv, CustomerTypeOK
<1>2. c \in Customers /\ task[t] \in Task
  BY <1>1, TaskTyped DEF Named
<1>3. n \in 0 .. 3 /\ PolicyBan \in Nat
  <2>1. behavior[c] \in Behavior
    BY <1>2 DEF CustomerInv, CustomerTypeOK
  <2>. QED  BY <2>1, UserBehaviorAssumption DEF Behavior
<1>. HIDE DEF n
<1>4. x \in Task /\ x.at = "banWrite" /\ x.customer = c
  BY <1>2, <1>3 DEF Task, Places
<1>. HIDE DEF x
<1>5. TasksKept
  BY <1>1, <1>2, <1>4, PlainFits, OneTask, Ending DEF Swept
<1>. QED  BY <1>1, <1>5, Kept, RowsStay, BehaviorStays

LEMMA BanStores ==
  ASSUME CustomerInv, NEW t \in Tasks, BanWrite(t) \/ RemoveStrikeWrite(t)
  PROVE  CustomerInv'
<1>. DEFINE c == task[t].customer
            n == OneMoreBan(task[t].bans)
            until == IF task[t].length = 0 THEN Null ELSE date + task[t].length
            k == IF task[t].strikes = 0 THEN 0 ELSE task[t].strikes - 1
            banned == [behavior[c] EXCEPT !.banned = TRUE, !.strikes = 3, !.bans = n,
                                          !.until = until, !.touched = date]
            freed == [behavior[c] EXCEPT !.strikes = k, !.resetOn = StrikeResetDate(k),
                                         !.banned = FALSE, !.until = Null,
                                         !.touched = date]
<1>1. /\ task[t].at \in {"banWrite", "unstrike"} /\ Ends(t)
      /\ UNCHANGED <<mix, date, rows, ban, despite>>
      /\ \/ behavior' = [behavior EXCEPT ![c] = banned]
         \/ behavior' = [behavior EXCEPT ![c] = freed]
  BY DEF BanWrite, RemoveStrikeWrite
<1>2. /\ c \in Customers /\ behavior[c] \in Behavior /\ date \in Days /\ Null \in Days
  BY <1>1, TaskTyped DEF Named, CustomerInv, CustomerTypeOK, Days
<1>3. /\ n \in 0 .. 3 /\ until \in Days /\ k \in 0 .. MaxStrikes /\ 3 \in 0 .. MaxStrikes
      /\ StrikeResetDate(k) \in Days
  <2>1. n \in 0 .. 3
    BY TaskTyped DEF OneMoreBan
  <2>2. until \in Days
    BY TaskTyped DEF Days
  <2>3. k \in 0 .. MaxStrikes /\ 3 \in 0 .. MaxStrikes
    BY TaskTyped, UserBehaviorAssumption
  <2>. HIDE DEF k
  <2>4. StrikeResetDate(k) \in Days
    BY TaskTyped, ResetDates
  <2>. QED  BY <2>1, <2>2, <2>3, <2>4
<1>. HIDE DEF n, until, k
<1>4. banned \in Behavior /\ freed \in Behavior
  BY <1>2, <1>3 DEF Behavior
<1>. HIDE DEF banned, freed
<1>5. BehaviorKept
  BY <1>1, <1>4, OneBehavior
<1>6. TasksKept
  BY <1>1, Ending DEF Swept
<1>. QED  BY <1>1, <1>5, <1>6, Kept, RowsStay

\* The jobs write rows of user_behavior only.
LEMMA JobsRun ==
  ASSUME CustomerInv, ExpireStrikes \/ ExpireBans \/ ResetMonthlyCounts
  PROVE  CustomerInv'
<1>1. UNCHANGED <<mix, date, rows, ban, task, despite>>
  BY DEF ExpireStrikes, ExpireBans, ResetMonthlyCounts
<1>2. behavior \in [Customers -> Behavior] /\ date \in Days /\ Null \in Days
  BY DEF CustomerInv, CustomerTypeOK, Days
<1>3. \A b \in Behavior :
        /\ [b EXCEPT !.strikes = 0, !.resetOn = Null, !.touched = date] \in Behavior
        /\ [b EXCEPT !.banned = FALSE, !.until = Null, !.touched = date] \in Behavior
        /\ [b EXCEPT !.counts = NoCounts, !.touched = date] \in Behavior
  <2>1. NoCounts \in Counts /\ 0 \in 0 .. MaxStrikes
    BY UserBehaviorAssumption DEF NoCounts, Counts
  <2>. QED  BY <1>2, <2>1 DEF Behavior
<1>4. BehaviorKept
  <2>1. CASE ExpireStrikes
    BY <1>2, <1>3, <2>1 DEF ExpireStrikes, BehaviorKept
  <2>2. CASE ExpireBans
    BY <1>2, <1>3, <2>2 DEF ExpireBans, BehaviorKept
  <2>3. CASE ResetMonthlyCounts
    BY <1>2, <1>3, <2>3 DEF ResetMonthlyCounts, BehaviorKept
  <2>. QED  BY <2>1, <2>2, <2>3
<1>. QED  BY <1>1, <1>4, Kept, RowsStay, TasksStay

-----------------------------------------------------------------------------
(* The bans of the businesses, and the clock *)

\* What a step leaves of bans: none comes, and rows of later days only go.
LEMMA Outlives ==
  ASSUME CustomerInv, UNCHANGED <<rows, despite, task>>, CustomerTypeOK',
         \A c \in Customers, b \in Businesses :
           /\ Banned(c, b)' => Banned(c, b)
           /\ Future(c, b)' \subseteq Future(c, b)
  PROVE  CustomerInv'
<1>1. \A a \in Bookings : RowNamed(rows[a])'
  BY DEF CustomerInv, RowNamed
<1>2. ASSUME NEW t \in Tasks
      PROVE  (Named(task[t]) /\ KnowsBan(task[t]) /\ SeenRows(task[t]))'
  <2>1. task'[t] = task[t] /\ Named(task[t]) /\ KnowsBan(task[t]) /\ SeenRows(task[t])
    BY DEF CustomerInv
  <2>2. Named(task[t])'
    BY <2>1 DEF Named
  <2>3. KnowsBan(task[t])'
    BY <2>1 DEF Named, KnowsBan, Looked
  <2>4. SeenRows(task[t])'
    BY <2>1 DEF SeenRows
  <2>. QED  BY <2>2, <2>3, <2>4
<1>3. ASSUME NEW c \in Customers, NEW b \in Businesses
      PROVE  CarriedOut(c, b)'
  <2>1. CarriedOut(c, b)
    BY DEF CustomerInv
  <2>. QED  BY <2>1 DEF CarriedOut
<1>. QED  BY <1>1, <1>2, <1>3 DEF CustomerInv

\* A ban that has expired does not come back, a later day does not get later.
LEMMA Passing ==
  ASSUME CustomerInv, DayPasses
  PROVE  CustomerInv'
<1>1. /\ date' = date + 1 /\ date \in Nat /\ date' \in Nat
      /\ UNCHANGED <<mix, rows, behavior, ban, task, despite>>
  BY DEF DayPasses, CustomerInv, CustomerTypeOK
<1>2. CustomerTypeOK'
  BY <1>1 DEF CustomerInv, CustomerTypeOK
<1>3. ASSUME NEW c \in Customers, NEW b \in Businesses
      PROVE  Banned(c, b)' => Banned(c, b)
  <2>1. ban[c][b] \in Ban
    BY DEF CustomerInv, CustomerTypeOK
  <2>2. ban[c][b].until \in Int
    BY <2>1 DEF Ban, Days, Null
  <2>3. Expired(c, b) => Expired(c, b)'
    BY <1>1, <2>2 DEF Expired
  <2>. QED  BY <1>1, <2>3 DEF Banned
<1>4. ASSUME NEW c \in Customers, NEW b \in Businesses
      PROVE  Future(c, b)' \subseteq Future(c, b)
  <2>. SUFFICES ASSUME NEW a \in Future(c, b)'
                PROVE  a \in Future(c, b)
    OBVIOUS
  <2>1. /\ a \in Bookings /\ rows[a].customer = c /\ rows[a].business = b
        /\ rows[a].status = "ACTIVE" /\ rows[a].day > date'
    BY <1>1 DEF Future, RowsOf
  <2>2. rows[a].day \in Nat
    <3>1. rows[a] \in Row
      BY <2>1 DEF CustomerInv, CustomerTypeOK
    <3>. QED  BY <3>1 DEF Row
  <2>3. rows[a].day > date
    BY <1>1, <2>1, <2>2
  <2>. QED  BY <2>1, <2>3 DEF Future, RowsOf
<1>. QED  BY <1>1, <1>2, <1>3, <1>4, Outlives

LEMMA Unbanning ==
  ASSUME CustomerInv, NEW c \in Customers, NEW b \in Businesses, OwnerUnban(c, b)
  PROVE  CustomerInv'
<1>. DEFINE freed == [ban[c][b] EXCEPT !.active = FALSE]
            of == [ban[c] EXCEPT ![b] = freed]
<1>1. /\ ban' = [ban EXCEPT ![c] = of] /\ ban \in [Customers -> [Businesses -> Ban]]
      /\ UNCHANGED <<mix, date, rows, behavior, task, despite>>
  BY DEF OwnerUnban, CustomerInv, CustomerTypeOK
<1>2. freed \in Ban /\ freed.active = FALSE
  <2>1. ban[c][b] \in Ban
    BY <1>1
  <2>. QED  BY <2>1 DEF Ban
<1>. HIDE DEF freed
<1>3. of \in [Businesses -> Ban] /\ of[b] = freed /\ \A e \in Businesses \ {b} : of[e] = ban[c][e]
  BY <1>1, <1>2
<1>. HIDE DEF of
<1>4. ban' \in [Customers -> [Businesses -> Ban]]
  BY <1>1, <1>3
<1>5. CustomerTypeOK'
  BY <1>1, <1>4 DEF CustomerInv, CustomerTypeOK
<1>6. ASSUME NEW d \in Customers, NEW e \in Businesses
      PROVE  Banned(d, e)' => Banned(d, e)
  <2>1. ban'[d][e] = ban[d][e] \/ ban'[d][e] = freed
    BY <1>1, <1>3
  <2>. QED  BY <1>1, <1>2, <2>1 DEF Banned, Expired
<1>7. \A d \in Customers, e \in Businesses : Future(d, e)' = Future(d, e)
  BY <1>1 DEF Future, RowsOf
<1>. QED  BY <1>1, <1>5, <1>6, <1>7, Outlives

\* A ban is set: it will be carried out, and the bookings past the check know.
LEMMA Banning ==
  ASSUME CustomerInv, NEW t \in Tasks, NEW c \in Customers, NEW b \in Businesses,
         NEW until \in Days, OwnerBan(t, c, b, until)
  PROVE  CustomerInv'
<1>. DEFINE new == [active |-> TRUE, until |-> until]
            of == [ban[c] EXCEPT ![b] = new]
            x == [About(c, "sweepRead") EXCEPT !.business = b]
            Told(s) == [task[s] EXCEPT !.overtaken = TRUE]
<1>1. /\ ban' = [ban EXCEPT ![c] = of] /\ ban \in [Customers -> [Businesses -> Ban]]
      /\ task[t] = Idle
      /\ task' = [s \in Tasks |-> IF s = t THEN x
                                  ELSE IF Overtaken(s, c, b) THEN Told(s) ELSE task[s]]
      /\ UNCHANGED <<mix, date, rows, behavior, despite>>
  BY DEF OwnerBan, MayStart, CustomerInv, CustomerTypeOK
<1>2. new \in Ban
  BY DEF Ban
<1>. HIDE DEF new
<1>3. of \in [Businesses -> Ban] /\ \A e \in Businesses \ {b} : of[e] = ban[c][e]
  BY <1>1, <1>2
<1>. HIDE DEF of
<1>4. /\ ban' \in [Customers -> [Businesses -> Ban]]
      /\ \A d \in Customers, e \in Businesses : d # c \/ e # b => ban'[d][e] = ban[d][e]
  BY <1>1, <1>3
<1>5. x \in Task /\ x.at = "sweepRead" /\ x.customer = c /\ x.business = b
  <2>1. About(c, "sweepRead") \in Task /\ About(c, "sweepRead").at = "sweepRead"
        /\ About(c, "sweepRead").customer = c
    BY AboutTyped DEF Places
  <2>. QED  BY <2>1 DEF Task
<1>. HIDE DEF x
<1>6. ASSUME NEW s \in Tasks, s # t
      PROVE  /\ task'[s] \in Task /\ task'[s].at = task[s].at
             /\ task'[s].customer = task[s].customer
             /\ task'[s].business = task[s].business /\ task'[s].seen = task[s].seen
             /\ Overtaken(s, c, b) => task'[s].overtaken
             /\ ~Overtaken(s, c, b) => task'[s] = task[s]
  <2>1. task[s] \in Task /\ task[s].overtaken \in BOOLEAN
    BY TaskTyped DEF Task
  <2>2. CASE Overtaken(s, c, b)
    <3>1. task'[s] = Told(s)
      BY <1>1, <1>6, <2>2
    <3>. QED  BY <2>1, <2>2, <3>1 DEF Task
  <2>3. CASE ~Overtaken(s, c, b)
    <3>1. task'[s] = task[s]
      BY <1>1, <1>6, <2>3
    <3>. QED  BY <2>1, <2>3, <3>1
  <2>. QED  BY <2>2, <2>3
<1>. HIDE DEF Told
<1>7. task'[t] = x
  BY <1>1
<1>8. task' \in [Tasks -> Task]
  <2>1. \A s \in Tasks : task'[s] \in Task
    BY <1>5, <1>6, <1>7
  <2>2. task' = [s \in Tasks |-> task'[s]]
    BY <1>1
  <2>. QED  BY <2>1, <2>2
<1>9. CustomerTypeOK'
  BY <1>1, <1>4, <1>8 DEF CustomerInv, CustomerTypeOK
<1>10. ASSUME NEW s \in Tasks
       PROVE  Named(task[s])' /\ KnowsBan(task[s])'
  <2>1. CASE s = t
    BY <1>5, <1>7, <2>1 DEF Named, KnowsBan, Looked, Swept
  <2>2. CASE s # t
    <3>1. Named(task[s]) /\ KnowsBan(task[s])
      BY TaskTyped
    <3>2. Named(task[s])'
      BY <1>6, <2>2, <3>1 DEF Named
    <3>3. CASE Overtaken(s, c, b)
      BY <1>6, <2>2, <3>2, <3>3 DEF KnowsBan
    <3>4. CASE ~Overtaken(s, c, b)
      <4>1. SUFFICES ASSUME task[s].at \in Looked, Banned(task[s].customer, task[s].business)'
                     PROVE  task[s].overtaken
        BY <1>6, <2>2, <3>2, <3>4 DEF KnowsBan
      <4>2. /\ task[s].customer \in Customers /\ task[s].business \in Businesses
            /\ task[s].customer # c \/ task[s].business # b
        BY <3>1, <3>4, <4>1 DEF Named, Looked, Overtaken
      <4>3. Banned(task[s].customer, task[s].business)
        BY <1>1, <1>4, <1>6, <2>2, <4>1, <4>2 DEF Banned, Expired
      <4>. QED  BY <3>1, <4>1, <4>3 DEF KnowsBan
    <3>. QED  BY <3>2, <3>3, <3>4
  <2>. QED  BY <2>1, <2>2
<1>13. ASSUME NEW s \in Tasks
       PROVE  SeenRows(task[s])'
  <2>1. CASE s = t
    BY <1>5, <1>7, <2>1 DEF SeenRows
  <2>2. CASE s # t
    <3>1. SeenRows(task[s])
      BY DEF CustomerInv
    <3>. QED  BY <1>1, <1>6, <2>2, <3>1 DEF SeenRows
  <2>. QED  BY <2>1, <2>2
<1>11. ASSUME NEW d \in Customers, NEW e \in Businesses
       PROVE  CarriedOut(d, e)'
  <2>1. CASE d = c /\ e = b
    BY <1>5, <1>7, <2>1 DEF CarriedOut, Swept
  <2>2. CASE d # c \/ e # b
    <3>1. Banned(d, e)' => Banned(d, e)
      BY <1>1, <1>4, <2>2 DEF Banned, Expired
    <3>2. Future(d, e)' = Future(d, e) /\ despite' = despite
      BY <1>1 DEF Future, RowsOf
    <3>3. \A s \in Tasks : task[s].at \in Swept => s # t
      BY <1>1 DEF Idle, Swept
    <3>4. CarriedOut(d, e)
      BY DEF CustomerInv
    <3>5. ASSUME NEW s \in Tasks, task[s].at \in Swept, task[s].customer = d,
                 task[s].business = e,
                 task[s].at = "sweep" => Future(d, e) \subseteq despite \cup task[s].seen
          PROVE  CarriedOut(d, e)'
      BY <1>6, <3>2, <3>3, <3>5 DEF CarriedOut
    <3>6. CASE Future(d, e) \subseteq despite
      BY <3>2, <3>6 DEF CarriedOut
    <3>7. CASE ~Banned(d, e)
      BY <3>1, <3>7 DEF CarriedOut
    <3>. QED  BY <3>4, <3>5, <3>6, <3>7 DEF CarriedOut
  <2>. QED  BY <2>1, <2>2
<1>12. \A a \in Bookings : RowNamed(rows[a])'
  BY <1>1 DEF CustomerInv, RowNamed
<1>. QED  BY <1>9, <1>10, <1>11, <1>12, <1>13 DEF CustomerInv

\* The rows of later days are read, all that the ban concerns.
LEMMA SweepReads ==
  ASSUME CustomerInv, NEW t \in Tasks, SweepRead(t)
  PROVE  CustomerInv'
<1>. DEFINE c == task[t].customer
            b == task[t].business
            found == Future(c, b)
            x == [task[t] EXCEPT !.at = "sweep", !.seen = found]
<1>1. /\ task[t].at = "sweepRead" /\ UNCHANGED <<mix, date, rows, behavior, ban, despite>>
      /\ task \in [Tasks -> Task] /\ task[t] \in Task
      /\ \/ found = {} /\ task' = [task EXCEPT ![t] = Idle]
         \/ task' = [task EXCEPT ![t] = x]
  BY TaskTyped DEF SweepRead, Ends, CustomerInv, CustomerTypeOK
<1>2. c \in Customers /\ b \in Businesses
  BY <1>1, TaskTyped DEF Named, Swept
<1>3. found \subseteq Bookings
  BY DEF Future, RowsOf
<1>4. x \in Task /\ x.at = "sweep" /\ x.customer = c /\ x.business = b /\ x.seen = found
  <2>. HIDE DEF found
  <2>. QED  BY <1>1, <1>3 DEF Task, Places
<1>. HIDE DEF x
<1>5. Named(x) /\ KnowsBan(x) /\ SeenRows(x)
  BY <1>2, <1>4 DEF Named, KnowsBan, Looked, SeenRows, Future
<1>6. /\ task' \in [Tasks -> Task]
      /\ \A s \in Tasks \ {t} : task'[s] = task[s]
      /\ task'[t] = x \/ (task'[t] = Idle /\ found = {})
  BY <1>1, <1>4, IdleFits
<1>7. CustomerTypeOK'
  BY <1>1, <1>6 DEF CustomerInv, CustomerTypeOK
<1>8. \A d, e : Banned(d, e)' <=> Banned(d, e)
  BY <1>1 DEF Banned, Expired
<1>9. \A s \in Tasks : (Named(task[s]) /\ KnowsBan(task[s]) /\ SeenRows(task[s]))'
  <2>. SUFFICES ASSUME NEW s \in Tasks
                PROVE  Named(task'[s]) /\ KnowsBan(task[s])' /\ SeenRows(task[s])'
    BY DEF Named
  <2>1. Named(task'[s]) /\ KnowsBan(task'[s])
    BY <1>5, <1>6, IdleFits, TaskTyped DEF Fresh
  <2>2. SeenRows(task'[s])
    <3>1. SeenRows(Idle)
      BY DEF SeenRows, Idle
    <3>. QED  BY <1>5, <1>6, <3>1 DEF CustomerInv
  <2>3. KnowsBan(task[s])'
    BY <1>8, <2>1 DEF KnowsBan
  <2>4. SeenRows(task[s])'
    BY <1>1, <2>2 DEF SeenRows
  <2>. QED  BY <2>1, <2>3, <2>4
<1>10. ASSUME NEW d \in Customers, NEW e \in Businesses
       PROVE  CarriedOut(d, e)'
  <2>1. Future(d, e)' = Future(d, e) /\ despite' = despite
    BY <1>1 DEF Future, RowsOf
  <2>2. CASE d = c /\ e = b /\ task'[t] = x
    BY <1>4, <2>1, <2>2 DEF CarriedOut, Swept
  <2>3. CASE d = c /\ e = b /\ found = {}
    BY <2>1, <2>3 DEF CarriedOut
  <2>4. CASE d # c \/ e # b
    <3>1. CarriedOut(d, e)
      BY DEF CustomerInv
    <3>2. ASSUME NEW s \in Tasks, task[s].at \in Swept, task[s].customer = d,
                 task[s].business = e,
                 task[s].at = "sweep" => Future(d, e) \subseteq despite \cup task[s].seen
          PROVE  CarriedOut(d, e)'
      <4>1. task'[s] = task[s]
        BY <1>6, <2>4, <3>2
      <4>. QED  BY <2>1, <3>2, <4>1 DEF CarriedOut
    <3>3. CASE Future(d, e) \subseteq despite
      BY <2>1, <3>3 DEF CarriedOut
    <3>4. CASE ~Banned(d, e)
      BY <1>8, <3>4 DEF CarriedOut
    <3>. QED  BY <3>1, <3>2, <3>3, <3>4 DEF CarriedOut
  <2>. QED  BY <1>6, <2>2, <2>3, <2>4
<1>11. \A a \in Bookings : RowNamed(rows[a])'
  BY <1>1 DEF CustomerInv, RowNamed
<1>. QED  BY <1>7, <1>9, <1>10, <1>11 DEF CustomerInv

\* The rows that were read are canceled, whatever has become of them.
LEMMA Sweeps ==
  ASSUME CustomerInv, NEW t \in Tasks, Sweep(t)
  PROVE  CustomerInv'
<1>. DEFINE seen == task[t].seen
<1>1. /\ task[t].at = "sweep" /\ task' = [task EXCEPT ![t] = Idle]
      /\ rows' = [a \in Bookings |-> IF a \in seen THEN CanceledBy(rows[a], rows[a].by)
                                    ELSE rows[a]]
      /\ UNCHANGED <<mix, date, behavior, ban, despite>>
      /\ task \in [Tasks -> Task] /\ rows \in [Bookings -> Row] /\ date \in Days
  BY TaskTyped DEF Sweep, Ends, CustomerInv, CustomerTypeOK
<1>2. task[t] \in Task /\ seen \subseteq Bookings /\ \A a \in seen : rows[a].status # "NONE"
  <2>1. task[t] \in Task /\ SeenRows(task[t])
    BY <1>1 DEF CustomerInv
  <2>. QED  BY <1>1, <2>1 DEF SeenRows, Task
<1>3. ASSUME NEW a \in Bookings
      PROVE  /\ rows'[a] \in Row /\ RowNamed(rows'[a])
             /\ a \in seen => rows'[a].status \notin {"ACTIVE", "NONE"}
             /\ a \notin seen => rows'[a] = rows[a]
  <2>. DEFINE r == CanceledBy(rows[a], rows[a].by)
  <2>1. rows[a] \in Row /\ RowNamed(rows[a])
    BY <1>1 DEF CustomerInv
  <2>2. CASE a \notin seen
    BY <1>1, <2>1, <2>2
  <2>3. CASE a \in seen
    <3>1. rows'[a] = r
      BY <1>1, <2>3
    <3>2. r \in Row /\ r.status = "CANCELED"
      BY <1>1, <2>1 DEF CanceledBy, Row, Statuses
    <3>3. r.customer = rows[a].customer /\ r.business = rows[a].business
      BY <2>1 DEF CanceledBy, Row
    <3>4. RowNamed(r)
      BY <1>2, <2>1, <2>3, <3>3 DEF RowNamed
    <3>. QED  BY <2>3, <3>1, <3>2, <3>4
  <2>. QED  BY <2>2, <2>3
<1>4. rows' \in [Bookings -> Row]
  <2>1. rows' = [a \in Bookings |-> rows'[a]]
    BY <1>1
  <2>. QED  BY <1>3, <2>1
<1>5. /\ task' \in [Tasks -> Task] /\ task'[t] = Idle
      /\ \A s \in Tasks \ {t} : task'[s] = task[s]
  BY <1>1, IdleFits
<1>6. CustomerTypeOK'
  BY <1>1, <1>4, <1>5 DEF CustomerInv, CustomerTypeOK
<1>7. \A d, e : Banned(d, e)' <=> Banned(d, e)
  BY <1>1 DEF Banned, Expired
<1>8. ASSUME NEW s \in Tasks
      PROVE  (Named(task[s]) /\ KnowsBan(task[s]) /\ SeenRows(task[s]))'
  <2>1. CASE s = t
    <3>1. task'[s].at = "idle"
      BY <1>5, <2>1 DEF Idle
    <3>. QED  BY <3>1 DEF Named, KnowsBan, SeenRows, Looked, Swept
  <2>2. CASE s # t
    <3>1. /\ task'[s] = task[s] /\ task[s] \in Task
          /\ Named(task[s]) /\ KnowsBan(task[s]) /\ SeenRows(task[s])
      BY <1>1, <1>5, <2>2 DEF CustomerInv
    <3>2. Named(task[s])'
      BY <3>1 DEF Named
    <3>3. KnowsBan(task[s])'
      BY <1>7, <3>1 DEF KnowsBan
    <3>4. \A a \in Bookings : rows[a].status # "NONE" => rows'[a].status # "NONE"
      BY <1>3
    <3>5. SeenRows(task[s])'
      BY <3>1, <3>4 DEF SeenRows, Task
    <3>. QED  BY <3>2, <3>3, <3>5
  <2>. QED  BY <2>1, <2>2
<1>9. ASSUME NEW d \in Customers, NEW e \in Businesses
      PROVE  CarriedOut(d, e)'
  <2>1. Future(d, e)' \subseteq Future(d, e) \ seen /\ despite' = despite
    <3>. SUFFICES ASSUME NEW a \in Future(d, e)'
                  PROVE  a \in Future(d, e) \ seen
      BY <1>1
    <3>1. /\ a \in Bookings /\ rows'[a].customer = d /\ rows'[a].business = e
          /\ rows'[a].status = "ACTIVE" /\ rows'[a].day > date
      BY <1>1 DEF Future, RowsOf
    <3>. QED  BY <1>3, <3>1 DEF Future, RowsOf
  <2>2. CarriedOut(d, e)
    BY DEF CustomerInv
  <2>3. ASSUME NEW s \in Tasks, task[s].at \in Swept, task[s].customer = d,
               task[s].business = e,
               task[s].at = "sweep" => Future(d, e) \subseteq despite \cup task[s].seen
        PROVE  CarriedOut(d, e)'
    <3>1. CASE s = t
      BY <1>1, <2>1, <2>3, <3>1 DEF CarriedOut
    <3>2. CASE s # t
      BY <1>5, <2>1, <2>3, <3>2 DEF CarriedOut
    <3>. QED  BY <3>1, <3>2
  <2>4. CASE Future(d, e) \subseteq despite
    BY <2>1, <2>4 DEF CarriedOut
  <2>5. CASE ~Banned(d, e)
    BY <1>7, <2>5 DEF CarriedOut
  <2>. QED  BY <2>2, <2>3, <2>4, <2>5 DEF CarriedOut
<1>10. \A a \in Bookings : RowNamed(rows[a])'
  BY <1>3 DEF RowNamed
<1>. QED  BY <1>6, <1>8, <1>9, <1>10 DEF CustomerInv

LEMMA CustomerStepsPreserve == CustomerInv /\ [CustomerNext]_customerVars => CustomerInv'
<1>. SUFFICES ASSUME CustomerInv, [CustomerNext]_customerVars
              PROVE  CustomerInv'
  OBVIOUS
<1>1. ASSUME NEW t \in Tasks, BookStep(t)
      PROVE  CustomerInv'
  <2>1. date .. date + 1 \subseteq Nat
    BY DEF CustomerInv, CustomerTypeOK
  <2>. QED  BY <1>1, <2>1, BookStarting, Lifting, BookDeciding, BookRefusing, BookInserting,
               Counting DEF BookStep
<1>2. ASSUME NEW t \in Tasks, VisitStep(t)
      PROVE  CustomerInv'
  BY <1>2, OwnCancels, OtherCancels, PuttingBack, Visiting DEF VisitStep
<1>3. ASSUME NEW t \in Tasks, StrikeStep(t)
      PROVE  CustomerInv'
  BY <1>3, StrikesBegin, StrikeReads, StrikeStores, Judging, BanStores DEF StrikeStep
<1>4. ASSUME NEW t \in Tasks, BanStep(t)
      PROVE  CustomerInv'
  <2>1. Null \in Days /\ date + 1 \in Days
    BY DEF CustomerInv, CustomerTypeOK, Days
  <2>. QED  BY <1>4, <2>1, Banning, SweepReads, Sweeps DEF BanStep
<1>5. CASE \E c \in Customers, b \in Businesses : OwnerUnban(c, b)
  BY <1>5, Unbanning
<1>6. CASE ExpireStrikes \/ ExpireBans \/ ResetMonthlyCounts
  BY <1>6, JobsRun
<1>7. CASE DayPasses
  BY <1>7, Passing
<1>8. CASE UNCHANGED customerVars
  BY <1>8, Kept, RowsStay, TasksStay, BehaviorStays DEF customerVars
<1>. QED  BY <1>1, <1>2, <1>3, <1>4, <1>5, <1>6, <1>7, <1>8 DEF CustomerNext

\* A request that has looked at a ban is overtaken by a later one or there is
\* none; a ban is carried out, or a request is about to cancel all its rows.
THEOREM CustomerInvariant == CustomerSpec => []CustomerInv
BY CustomerInitHolds, CustomerStepsPreserve, PTL DEF CustomerSpec

\* However bookings, bans, their ends and what the business puts back cross:
\* once banCustomer is done with a ban, the customer has no row of a later day
\* but those that came despite it (businessService.ts, appointmentService.ts).
THEOREM BansEmptyTheBook == CustomerSpec => []BannedHoldsNothing
<1>1. CustomerInv => BannedHoldsNothing
  BY DEF CustomerInv, CarriedOut, BannedHoldsNothing, Sweeping, Swept
<1>. QED  BY <1>1, CustomerInvariant, PTL

\* A ban ends early only by the business, or by a booking that lifts by its key
\* a ban set since it read the expired one.
THEOREM BansAreHeld == CustomerSpec => BansHold
<1>1. ASSUME CustomerInv, [CustomerNext]_customerVars, NEW c \in Customers,
             NEW b \in Businesses, Banned(c, b), ~ban'[c][b].active
      PROVE  \/ OwnerUnban(c, b)
             \/ \E t \in Tasks : BookLift(t) /\ task[t].overtaken
  <2>1. ban \in [Customers -> [Businesses -> Ban]] /\ ban[c][b].active
    BY <1>1 DEF CustomerInv, CustomerTypeOK, Banned
  <2>2. ban' # ban
    BY <1>1, <2>1
  <2>3. ASSUME NEW t \in Tasks, BookLift(t)
        PROVE  task[t].overtaken
    <3>1. /\ task[t].at = "lift"
          /\ ban' = [ban EXCEPT ![task[t].customer][task[t].business].active = FALSE]
      BY <2>3 DEF BookLift
    <3>2. task[t].customer = c /\ task[t].business = b
      BY <1>1, <2>1, <3>1
    <3>. QED  BY <1>1, <3>1, <3>2 DEF CustomerInv, KnowsBan, Looked
  <2>4. ASSUME NEW d \in Customers, NEW e \in Businesses, OwnerUnban(d, e)
        PROVE  OwnerUnban(c, b)
    <3>1. ban' = [ban EXCEPT ![d][e].active = FALSE]
      BY <2>4 DEF OwnerUnban
    <3>2. d = c /\ e = b
      BY <1>1, <2>1, <3>1
    <3>. QED  BY <2>4, <3>2
  <2>5. ASSUME NEW t \in Tasks, NEW d \in Customers, NEW e \in Businesses,
               NEW until, OwnerBan(t, d, e, until)
        PROVE  FALSE
    <3>1. ban' = [ban EXCEPT ![d][e] = [active |-> TRUE, until |-> until]]
      BY <2>5 DEF OwnerBan
    <3>2. ban'[c][b] = ban[c][b] \/ ban'[c][b] = [active |-> TRUE, until |-> until]
      BY <2>1, <3>1
    <3>. QED  BY <1>1, <2>1, <3>2
  <2>6. ASSUME NEW t \in Tasks, BookStep(t)
        PROVE  BookLift(t)
    BY <2>2, <2>6
    DEF BookStep, BookStart, BookPolicy, BookRefused, BookInsert, Count, Store
  <2>7. ASSUME NEW t \in Tasks, VisitStep(t)
        PROVE  FALSE
    BY <2>2, <2>7
    DEF VisitStep, CancelOwn, CancelByEdit, OwnerCancel, StatusConfirmed, Approve,
        StatusCanceled, StatusNoShow, StatusCompleted, MarkNoShow
  <2>8. ASSUME NEW t \in Tasks, StrikeStep(t)
        PROVE  FALSE
    BY <2>2, <2>8
    DEF StrikeStep, AddStrike, AutomaticStrike, RemoveStrike, Strike, StrikeWrite, Verdict,
        RemoveStrikeWrite, AdminBan, BanWrite
  <2>9. ASSUME NEW t \in Tasks, BanStep(t)
        PROVE  FALSE
    BY <2>2, <2>5, <2>9 DEF BanStep, SweepRead, Sweep
  <2>10. ~(ExpireStrikes \/ ExpireBans \/ ResetMonthlyCounts \/ DayPasses)
    BY <2>2 DEF ExpireStrikes, ExpireBans, ResetMonthlyCounts, DayPasses
  <2>11. ~UNCHANGED customerVars
    BY <2>2 DEF customerVars
  <2>. QED  BY <1>1, <2>3, <2>4, <2>6, <2>7, <2>8, <2>9, <2>10, <2>11 DEF CustomerNext
<1>2. CustomerInv /\ [CustomerNext]_customerVars =>
        [\A c \in Customers, b \in Businesses :
           Banned(c, b) /\ ~ban'[c][b].active =>
             \/ OwnerUnban(c, b)
             \/ \E t \in Tasks : BookLift(t) /\ task[t].overtaken]_customerVars
  BY <1>1
<1>. QED  BY <1>2, CustomerInvariant, PTL DEF CustomerSpec, BansHold

\* The rows of user_behavior, of business_bans and of the appointments keep
\* their types: no write leaves a count, a number of strikes or of bans that
\* the next handler could not read.
THEOREM CustomerTypeCorrect == CustomerSpec => []CustomerTypeOK
<1>1. CustomerInv => CustomerTypeOK
  BY DEF CustomerInv
<1>. QED  BY <1>1, CustomerInvariant, PTL
=============================================================================
