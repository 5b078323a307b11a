-------------------------- MODULE RemindersProofs --------------------------
(***************************************************************************)
(* Proofs about Reminders for every number of rows, runs and channels,     *)
(* every window, timing and lock lifetime.                                 *)
(***************************************************************************)
EXTENDS Reminders, FiniteSetTheorems, TLAPS

LEMMA ChannelsLength == Len(Channels) \in Nat
BY RemindersAssumption

LEMMA LeaseType == NoLease \in Nat /\ LockTtl \in 1 .. NoLease /\ NoLease \in 1 .. NoLease
BY RemindersAssumption DEF NoLease

LEMMA FreeType == Free \in [owner : Runs \cup {NoRun}, ttl : 1 .. NoLease]
BY LeaseType DEF Free

\* What a run carries, by its place.
LEMMA RunFields ==
  ASSUME TypeOK, NEW r \in Runs
  PROVE  /\ run[r].at \in {"idle", "lease", "list", "release"} => run[r] \in BareState
         /\ run[r].at = "pick" => run[r] \in ListState
         /\ run[r].at \in {"try", "send", "mark"} => run[r] \in RowState
         /\ run[r].todo \in SUBSET Reminder
BY DEF TypeOK, RunState, BareState, ListState, RowState

LEMMA BareType ==
  ASSUME NEW place \in {"idle", "lease", "list", "release"}
  PROVE  [at |-> place, todo |-> {}] \in RunState
BY DEF RunState, BareState

LEMMA GotoType ==
  ASSUME TypeOK, NEW r \in Runs, NEW state \in RunState, Goto(r, state)
  PROVE  run' \in [Runs -> RunState]
BY DEF TypeOK, Goto

LEMMA NextRowType ==
  ASSUME TypeOK, NEW r \in Runs, NextRow(r)
  PROVE  run' \in [Runs -> RunState]
<1>1. [at |-> "pick", todo |-> run[r].todo] \in RunState
  BY RunFields DEF RunState, ListState
<1>. QED  BY <1>1, GotoType DEF NextRow

LEMMA RowEdit ==
  ASSUME NEW q \in RowState, NEW place \in {"try", "send", "mark"},
         NEW t \in 1 .. MaxRetries, NEW n \in Positions \cup {1}, NEW b \in BOOLEAN
  PROVE  /\ [q EXCEPT !.next = n, !.ok = b] \in RunState
         /\ [q EXCEPT !.at = place, !.ok = b] \in RunState
         /\ [q EXCEPT !.at = place, !.next = n, !.ok = b] \in RunState
         /\ [q EXCEPT !.at = place, !.tries = t, !.next = n, !.ok = b] \in RunState
BY DEF RunState, RowState

LEMMA OnwardType ==
  ASSUME TypeOK, NEW r \in Runs, At(r, "send"), NEW ok \in BOOLEAN, Onward(r, ok)
  PROVE  run' \in [Runs -> RunState]
<1>1. run[r] \in RowState
  BY RunFields DEF At
<1>2. CASE run[r].next < Len(Channels)
  <2>1. run[r].next + 1 \in Positions
    BY <1>1, <1>2, ChannelsLength DEF RowState, Positions
  <2>2. [run[r] EXCEPT !.next = run[r].next + 1, !.ok = ok] \in RunState
    BY <1>1, <2>1, RowEdit, RemindersAssumption DEF RowState
  <2>. QED  BY <1>2, <2>2, GotoType DEF Onward
<1>3. CASE ~(run[r].next < Len(Channels)) /\ ok
  <2>1. [run[r] EXCEPT !.at = "mark", !.ok = ok] \in RunState
    BY <1>1 DEF RunState, RowState
  <2>. QED  BY <1>3, <2>1, GotoType DEF Onward
<1>4. CASE ~(run[r].next < Len(Channels)) /\ ~ok
  BY <1>4, NextRowType DEF Onward
<1>. QED  BY <1>2, <1>3, <1>4

LEMMA DeliverType ==
  ASSUME TypeOK, NEW r \in Runs, At(r, "send"), Deliver(r)
  PROVE  /\ messages' \in [Appointments -> [Positions -> 0 .. MaxMessages]]
         /\ told' \in [Appointments -> SUBSET Starts]
<1>1. run[r].cur \in Appointments \X Starts
  BY RunFields DEF At, RowState, Reminder
<1>2. PICK a \in Appointments, s \in Starts : run[r].cur = <<a, s>>
  BY <1>1
<1>3. messages' \in [Appointments -> [Positions -> 0 .. MaxMessages]]
  <2>. DEFINE k == run[r].next
              v == IF messages[a][k] < MaxMessages THEN messages[a][k] + 1
                                                   ELSE messages[a][k]
  <2>1. messages' = [messages EXCEPT ![a] = [messages[a] EXCEPT ![k] = v]]
    BY <1>2 DEF Deliver
  <2>2. messages[a] \in [Positions -> 0 .. MaxMessages]
    BY DEF TypeOK
  <2>3. k \in Positions => v \in 0 .. MaxMessages
    BY <2>2 DEF MaxMessages
  <2>. HIDE DEF v, k
  <2>4. [messages[a] EXCEPT ![k] = v] \in [Positions -> 0 .. MaxMessages]
    BY <2>2, <2>3
  <2>. QED  BY <2>1, <2>4 DEF TypeOK
<1>4. told' \in [Appointments -> SUBSET Starts]
  BY <1>2 DEF TypeOK, Deliver
<1>. QED  BY <1>3, <1>4

-----------------------------------------------------------------------------
(* Typing *)

LEMMA InitType == Init => TypeOK
<1>. SUFFICES ASSUME Init PROVE TypeOK
  OBVIOUS
<1>1. lock \in [owner : Runs \cup {NoRun}, ttl : 1 .. NoLease]
  BY FreeType DEF Init
<1>2. run \in [Runs -> RunState]
  BY DEF Init, Resting, RunState, BareState
<1>3. now \in 0 .. MaxTime
  BY RemindersAssumption DEF Init
<1>. QED  BY <1>1, <1>2, <1>3 DEF Init, TypeOK, MaxMessages

LEMMA ClaimType ==
  ASSUME TypeOK, NEW r \in Runs, Claim(r)
  PROVE  TypeOK'
<1>1. run' \in [Runs -> RunState]
  BY BareType, GotoType DEF Claim, TypeOK
<1>2. lock' \in [owner : Runs \cup {NoRun}, ttl : 1 .. NoLease]
  BY LeaseType DEF Claim, TypeOK
<1>. QED  BY <1>1, <1>2 DEF Claim, TypeOK, SentUnchanged, AppointmentsUnchanged

LEMMA LockStepType ==
  ASSUME TypeOK, NEW r \in Runs, Lease(r) \/ Release(r) \/ Crash(r)
  PROVE  TypeOK'
<1>1. Goto(r, [at |-> "list", todo |-> {}]) \/ Goto(r, [at |-> "idle", todo |-> {}])
  BY DEF Lease, Release, Crash, Resting
<1>2. run' \in [Runs -> RunState]
  BY <1>1, BareType, GotoType
<1>3. lock' \in [owner : Runs \cup {NoRun}, ttl : 1 .. NoLease]
  BY LeaseType, FreeType DEF Lease, Release, Crash, TypeOK
<1>. QED  BY <1>2, <1>3 DEF Lease, Release, Crash, TypeOK, SentUnchanged,
                          AppointmentsUnchanged

LEMMA ListType ==
  ASSUME TypeOK, NEW r \in Runs, List(r)
  PROVE  TypeOK'
<1>1. ASSUME NEW page \in FirstPages,
             Goto(r, [at |-> "pick",
                      todo |-> {<<a, start[a]>> :
                                 a \in {b \in page : InWindow(b) /\ b \notin marked}}])
      PROVE  run' \in [Runs -> RunState]
  <2>1. {<<a, start[a]>> : a \in {b \in page : InWindow(b) /\ b \notin marked}}
          \in SUBSET Reminder
    BY DEF FirstPages, Candidates, Reminder, TypeOK
  <2>. QED  BY <1>1, <2>1, GotoType DEF RunState, ListState
<1>2. run' \in [Runs -> RunState]
  BY <1>1, BareType, GotoType DEF List
<1>. QED  BY <1>2 DEF List, TypeOK, SentUnchanged, AppointmentsUnchanged

LEMMA PickType ==
  ASSUME TypeOK, NEW r \in Runs, Pick(r)
  PROVE  TypeOK'
<1>1. ASSUME NEW item \in run[r].todo,
             Goto(r, [at |-> "try", todo |-> run[r].todo \ {item}, cur |-> item,
                      tries |-> 1, next |-> 1, ok |-> FALSE])
      PROVE  run' \in [Runs -> RunState]
  <2>1. [at |-> "try", todo |-> run[r].todo \ {item}, cur |-> item,
         tries |-> 1, next |-> 1, ok |-> FALSE] \in RunState
    BY RunFields, RemindersAssumption DEF RunState, RowState
  <2>. QED  BY <1>1, <2>1, GotoType
<1>2. run' \in [Runs -> RunState]
  BY <1>1, BareType, GotoType DEF Pick
<1>. QED  BY <1>2 DEF Pick, TypeOK, SentUnchanged, AppointmentsUnchanged

LEMMA RowStepType ==
  ASSUME TypeOK, NEW r \in Runs, RowStep(r)
  PROVE  TypeOK'
<1>1. CASE Try(r)
  <2>1. [run[r] EXCEPT !.at = "send", !.next = 1, !.ok = FALSE] \in RunState
    BY <1>1, RunFields DEF Try, At, RunState, RowState
  <2>2. run' \in [Runs -> RunState]
    BY <1>1, <2>1, GotoType, NextRowType DEF Try
  <2>. QED  BY <1>1, <2>2 DEF Try, TypeOK, SentUnchanged, AppointmentsUnchanged
<1>2. CASE SendTaken(r)
  <2>1. run[r].ok \in BOOLEAN
    BY <1>2, RunFields DEF SendTaken, At, RowState
  <2>2. run' \in [Runs -> RunState]
    BY <1>2, <2>1, OnwardType DEF SendTaken
  <2>. QED  BY <1>2, <2>2, DeliverType DEF SendTaken, TypeOK, AppointmentsUnchanged
<1>3. CASE SendRefused(r)
  <2>1. run[r].ok \in BOOLEAN
    BY <1>3, RunFields DEF SendRefused, At, RowState
  <2>2. run' \in [Runs -> RunState]
    BY <1>3, <2>1, OnwardType DEF SendRefused
  <2>. QED  BY <1>3, <2>2 DEF SendRefused, TypeOK, SentUnchanged, AppointmentsUnchanged
<1>4. CASE SendThrows(r)
  <2>1. run[r] \in RowState
    BY <1>4, RunFields DEF SendThrows, At
  <2>2. run[r].tries < MaxRetries => run[r].tries + 1 \in 1 .. MaxRetries
    BY <2>1, RemindersAssumption DEF RowState
  <2>4. run[r].tries < MaxRetries =>
          [run[r] EXCEPT !.at = "try", !.tries = run[r].tries + 1,
                         !.next = 1, !.ok = FALSE] \in RunState
    BY <2>1, <2>2, RowEdit
  <2>3. run' \in [Runs -> RunState]
    BY <1>4, <2>4, GotoType, NextRowType DEF SendThrows
  <2>. QED  BY <1>4, <2>3 DEF SendThrows, TypeOK, SentUnchanged, AppointmentsUnchanged
<1>5. CASE Mark(r)
  <2>1. run[r].cur[1] \in Appointments
    BY <1>5, RunFields DEF Mark, At, RowState, Reminder
  <2>2. run' \in [Runs -> RunState]
    BY <1>5, NextRowType DEF Mark
  <2>. QED  BY <1>5, <2>1, <2>2 DEF Mark, TypeOK, AppointmentsUnchanged
<1>. QED  BY <1>1, <1>2, <1>3, <1>4, <1>5 DEF RowStep

LEMMA TickType ==
  ASSUME TypeOK, Tick
  PROVE  TypeOK'
<1>1. Aged \in [owner : Runs \cup {NoRun}, ttl : 1 .. NoLease]
  BY LeaseType, FreeType DEF Aged, TypeOK
<1>2. (IF now < MaxTime THEN now + 1 ELSE now) \in 0 .. MaxTime
  BY RemindersAssumption DEF TypeOK
<1>. QED  BY <1>1, <1>2 DEF Tick, TypeOK, SentUnchanged, AppointmentsUnchanged

LEMMA NextType ==
  ASSUME TypeOK, [Next]_vars
  PROVE  TypeOK'
<1>1. ASSUME NEW r \in Runs, RunStep(r) PROVE TypeOK'
  BY <1>1, LockStepType, ListType, PickType, RowStepType DEF RunStep
<1>2. ASSUME NEW a \in Appointments, Cancel(a) PROVE TypeOK'
  BY <1>2 DEF Cancel, TypeOK, SentUnchanged
<1>3. ASSUME NEW a \in Appointments, NEW s \in Starts, Move(a, s) PROVE TypeOK'
  BY <1>3 DEF Move, TypeOK, SentUnchanged
<1>4. CASE UNCHANGED vars
  BY <1>4 DEF vars, TypeOK
<1>. QED  BY <1>1, <1>2, <1>3, <1>4, ClaimType, LockStepType, TickType DEF Next

(***************************************************************************)
(* Whatever fails and however runs interleave, the state is well typed: a  *)
(* run never exceeds its attempts, nor the key its lifetime.               *)
(***************************************************************************)
THEOREM RemindersTypeCorrect == Spec => []TypeOK
BY InitType, NextType, PTL DEF Spec

-----------------------------------------------------------------------------
(* Marks *)

(***************************************************************************)
(* A run that has had a success, and so will mark the row, has told the    *)
(* row's customer.                                                         *)
(***************************************************************************)
SuccessWasTold ==
  \A r \in Runs :
    /\ run[r].at \in {"send", "mark"} /\ run[r].ok = TRUE => told[run[r].cur[1]] # {}
    /\ run[r].at = "mark" => run[r].ok = TRUE

MarkInv == TypeOK /\ MarkedWasSent /\ SuccessWasTold

\* A step of a run is a step of no other.
LEMMA GotoPlaces ==
  ASSUME TypeOK, NEW r \in Runs, NEW state, Goto(r, state)
  PROVE  run'[r] = state /\ \A q \in Runs \ {r} : run'[q] = run[q]
BY DEF TypeOK, Goto

LEMMA NextRowPlaces ==
  ASSUME TypeOK, NEW r \in Runs, NextRow(r)
  PROVE  /\ run'[r].at = "pick" /\ run'[r].todo = run[r].todo
         /\ \A q \in Runs \ {r} : run'[q] = run[q]
BY GotoPlaces DEF NextRow

\* What the edits of a run's record keep.
LEMMA RowEdited ==
  ASSUME NEW q \in RowState, NEW place \in {"try", "send", "mark"}, NEW t, NEW n, NEW b
  PROVE  /\ LET e == [q EXCEPT !.next = n, !.ok = b] IN
            e.at = q.at /\ e.todo = q.todo /\ e.cur = q.cur /\ e.next = n /\ e.ok = b
         /\ LET e == [q EXCEPT !.at = place, !.ok = b] IN
            e.at = place /\ e.todo = q.todo /\ e.cur = q.cur /\ e.next = q.next /\ e.ok = b
         /\ LET e == [q EXCEPT !.at = place, !.next = n, !.ok = b] IN
            e.at = place /\ e.todo = q.todo /\ e.cur = q.cur /\ e.next = n /\ e.ok = b
         /\ LET e == [q EXCEPT !.at = place, !.tries = t, !.next = n, !.ok = b] IN
            e.at = place /\ e.todo = q.todo /\ e.cur = q.cur /\ e.next = n /\ e.ok = b
BY DEF RowState

\* Where the run goes after a channel.
LEMMA OnwardPlaces ==
  ASSUME TypeOK, NEW r \in Runs, At(r, "send"), NEW ok \in BOOLEAN, Onward(r, ok)
  PROVE  /\ \A q \in Runs \ {r} : run'[q] = run[q]
         /\ \/ run'[r].at = "pick" /\ ok = FALSE /\ run'[r].todo = run[r].todo
            \/ /\ run[r].next < Len(Channels)
               /\ run'[r].at = "send" /\ run'[r].next = run[r].next + 1
               /\ run'[r].cur = run[r].cur /\ run'[r].ok = ok
               /\ run'[r].todo = run[r].todo
            \/ /\ run'[r].at = "mark" /\ ok = TRUE
               /\ run'[r].cur = run[r].cur /\ run'[r].ok = ok
               /\ run'[r].todo = run[r].todo
<1>1. run[r] \in RowState
  BY RunFields DEF At
<1>2. CASE run[r].next < Len(Channels)
  <2>1. Goto(r, [run[r] EXCEPT !.next = run[r].next + 1, !.ok = ok])
    BY <1>2 DEF Onward
  <2>2. /\ run'[r] = [run[r] EXCEPT !.next = run[r].next + 1, !.ok = ok]
        /\ \A q \in Runs \ {r} : run'[q] = run[q]
    BY <2>1, GotoPlaces
  <2>3. /\ run'[r].at = "send" /\ run'[r].next = run[r].next + 1 /\ run'[r].ok = ok
        /\ run'[r].cur = run[r].cur /\ run'[r].todo = run[r].todo
    BY <1>1, <2>2 DEF At, RowState
  <2>. QED  BY <1>2, <2>2, <2>3
<1>3. CASE ~(run[r].next < Len(Channels)) /\ ok = TRUE
  <2>1. Goto(r, [run[r] EXCEPT !.at = "mark", !.ok = ok])
    BY <1>3 DEF Onward
  <2>2. /\ run'[r] = [run[r] EXCEPT !.at = "mark", !.ok = ok]
        /\ \A q \in Runs \ {r} : run'[q] = run[q]
    BY <2>1, GotoPlaces
  <2>3. /\ run'[r].at = "mark" /\ run'[r].ok = ok
        /\ run'[r].cur = run[r].cur /\ run'[r].todo = run[r].todo
    BY <1>1, <2>2 DEF RowState
  <2>. QED  BY <1>3, <2>2, <2>3
<1>4. CASE ~(run[r].next < Len(Channels)) /\ ok = FALSE
  BY <1>4, NextRowPlaces DEF Onward
<1>. QED  BY <1>2, <1>3, <1>4

\* A message is added to what its customer was told, and to nothing else.
LEMMA DeliverTells ==
  ASSUME TypeOK, NEW r \in Runs, At(r, "send"), Deliver(r)
  PROVE  /\ run[r].cur[1] \in Appointments
         /\ told'[run[r].cur[1]] # {}
         /\ \A a \in Appointments : told[a] \subseteq told'[a]
<1>1. run[r].cur[1] \in Appointments
  BY RunFields DEF At, RowState, Reminder
<1>. QED  BY <1>1 DEF TypeOK, Deliver

LEMMA CurrentRow ==
  ASSUME TypeOK, NEW r \in Runs, run[r].at \in {"try", "send", "mark"}
  PROVE  run[r].cur[1] \in Appointments
BY RunFields DEF RowState, Reminder

LEMMA MarkStep ==
  ASSUME MarkInv, [Next]_vars
  PROVE  MarkedWasSent' /\ SuccessWasTold'
<1>0. TypeOK /\ MarkedWasSent /\ SuccessWasTold
  BY DEF MarkInv
<1>1. ASSUME NEW r \in Runs, Claim(r) \/ Lease(r) \/ List(r) \/ Pick(r) \/ Release(r)
                             \/ Crash(r) \/ SendThrows(r) \/ Try(r)
      PROVE  MarkedWasSent' /\ SuccessWasTold'
  <2>1. marked' = marked /\ told' = told
    BY <1>1 DEF Claim, Lease, List, Pick, Release, Crash, SendThrows, Try, SentUnchanged
  <2>2. CASE Claim(r) \/ Lease(r) \/ List(r) \/ Pick(r) \/ Release(r) \/ Crash(r)
    <3>1. \/ run' = run
          \/ \E place \in {"idle", "lease", "list", "release"} :
               Goto(r, [at |-> place, todo |-> {}])
          \/ List(r) \/ Pick(r)
      BY <2>2 DEF Claim, Lease, Release, Crash, Resting
    <3>2. List(r) => run'[r].at \in {"pick", "release"}
      BY <1>0 DEF List, Goto, TypeOK
    <3>3. Pick(r) => run'[r].at \in {"release", "try"}
      BY <1>0 DEF Pick, Goto, TypeOK
    <3>4. List(r) \/ Pick(r) => \A q \in Runs \ {r} : run'[q] = run[q]
      BY <1>0, GotoPlaces DEF List, Pick
    <3>5. \A q \in Runs : run'[q] = run[q] \/ run'[q].at \notin {"send", "mark"}
      BY <1>0, <3>1, <3>2, <3>3, <3>4, GotoPlaces
    <3>. QED  BY <1>0, <2>1, <3>5 DEF MarkedWasSent, SuccessWasTold
  <2>3. CASE SendThrows(r) \/ Try(r)
    <3>1. run[r] \in RowState
      BY <1>0, <2>3, RunFields DEF SendThrows, Try, At
    <3>2. \/ NextRow(r)
          \/ Goto(r, [run[r] EXCEPT !.at = "try", !.tries = run[r].tries + 1,
                                    !.next = 1, !.ok = FALSE])
          \/ Goto(r, [run[r] EXCEPT !.at = "send", !.next = 1, !.ok = FALSE])
      BY <2>3 DEF SendThrows, Try
    <3>3. \A q \in Runs \ {r} : run'[q] = run[q]
      BY <1>0, <3>2, GotoPlaces, NextRowPlaces
    <3>4. NextRow(r) => run'[r].at = "pick"
      BY <1>0, NextRowPlaces
    <3>5. ASSUME Goto(r, [run[r] EXCEPT !.at = "try", !.tries = run[r].tries + 1,
                                       !.next = 1, !.ok = FALSE])
          PROVE  run'[r].at = "try"
      <4>1. run'[r] = [run[r] EXCEPT !.at = "try", !.tries = run[r].tries + 1,
                                     !.next = 1, !.ok = FALSE]
        BY <1>0, <3>5, GotoPlaces
      <4>. QED  BY <3>1, <4>1 DEF RowState
    <3>6. ASSUME Goto(r, [run[r] EXCEPT !.at = "send", !.next = 1, !.ok = FALSE])
          PROVE  run'[r].at = "send" /\ run'[r].ok = FALSE
      <4>1. run'[r] = [run[r] EXCEPT !.at = "send", !.next = 1, !.ok = FALSE]
        BY <1>0, <3>6, GotoPlaces
      <4>. QED  BY <3>1, <4>1 DEF RowState
    <3>7. run'[r].at \notin {"send", "mark"} \/ (run'[r].at = "send" /\ run'[r].ok = FALSE)
      BY <3>2, <3>4, <3>5, <3>6
    <3>. QED  BY <1>0, <2>1, <3>3, <3>7 DEF MarkedWasSent, SuccessWasTold
  <2>. QED  BY <1>1, <2>2, <2>3
<1>2. ASSUME NEW r \in Runs, SendTaken(r)
      PROVE  MarkedWasSent' /\ SuccessWasTold'
  <2>1. run[r] \in RowState /\ run[r].ok \in BOOLEAN
    BY <1>0, <1>2, RunFields DEF SendTaken, At, RowState
  <2>2. PICK ok \in BOOLEAN : Onward(r, ok)
    BY <1>2, <2>1 DEF SendTaken
  <2>3. /\ \A q \in Runs \ {r} : run'[q] = run[q]
        /\ run'[r].at \in {"send", "mark"} => run'[r].cur = run[r].cur
        /\ run'[r].at = "mark" => run'[r].ok = TRUE
    BY <1>0, <1>2, <2>2, OnwardPlaces DEF SendTaken
  <2>4. /\ told'[run[r].cur[1]] # {}
        /\ \A a \in Appointments : told[a] \subseteq told'[a]
    BY <1>0, <1>2, DeliverTells DEF SendTaken
  <2>5. \A q \in Runs : run[q].at \in {"send", "mark"} => run[q].cur[1] \in Appointments
    BY <1>0, CurrentRow
  <2>6. MarkedWasSent'
    BY <1>0, <1>2, <2>4 DEF SendTaken, MarkedWasSent, TypeOK
  <2>7. SuccessWasTold'
    BY <1>0, <2>3, <2>4, <2>5 DEF SuccessWasTold
  <2>. QED  BY <2>6, <2>7
<1>3. ASSUME NEW r \in Runs, SendRefused(r)
      PROVE  MarkedWasSent' /\ SuccessWasTold'
  <2>1. run[r].ok \in BOOLEAN
    BY <1>0, <1>3, RunFields DEF SendRefused, At, RowState
  <2>2. /\ \A q \in Runs \ {r} : run'[q] = run[q]
        /\ run'[r].at \in {"send", "mark"} =>
             run'[r].cur = run[r].cur /\ run'[r].ok = run[r].ok
        /\ run'[r].at = "mark" => run'[r].ok = TRUE
    BY <1>0, <1>3, <2>1, OnwardPlaces DEF SendRefused
  <2>3. marked' = marked /\ told' = told /\ run[r].at = "send"
    BY <1>3 DEF SendRefused, SentUnchanged, At
  <2>. QED  BY <1>0, <2>2, <2>3 DEF MarkedWasSent, SuccessWasTold
<1>4. ASSUME NEW r \in Runs, Mark(r)
      PROVE  MarkedWasSent' /\ SuccessWasTold'
  <2>1. told[run[r].cur[1]] # {}
    BY <1>0, <1>4 DEF Mark, At, SuccessWasTold
  <2>2. run'[r].at = "pick" /\ \A q \in Runs \ {r} : run'[q] = run[q]
    BY <1>0, <1>4, NextRowPlaces DEF Mark
  <2>3. told' = told /\ (marked' = marked \cup {run[r].cur[1]} \/ marked' = marked)
    BY <1>4 DEF Mark
  <2>. QED  BY <1>0, <2>1, <2>2, <2>3 DEF MarkedWasSent, SuccessWasTold
<1>5. ASSUME Tick \/ UNCHANGED vars \/ (\E a \in Appointments : Cancel(a))
               \/ (\E a \in Appointments, t \in Starts : Move(a, t))
      PROVE  MarkedWasSent' /\ SuccessWasTold'
  <2>1. marked' = marked /\ told' = told /\ run' = run
    BY <1>5 DEF Tick, Cancel, Move, SentUnchanged, vars
  <2>. QED  BY <1>0, <2>1 DEF MarkedWasSent, SuccessWasTold
<1>. QED  BY <1>1, <1>2, <1>3, <1>4, <1>5 DEF Next, RunStep, RowStep

(***************************************************************************)
(* Whatever fails, no row is marked, and so dropped from later lists,      *)
(* before a channel took a reminder of it.                                 *)
(***************************************************************************)
THEOREM MarksFollowMessages == Spec => []MarkedWasSent
<1>1. Init => MarkInv
  BY InitType DEF Init, MarkInv, MarkedWasSent, SuccessWasTold, Resting
<1>2. MarkInv /\ [Next]_vars => MarkInv'
  BY MarkStep, NextType DEF MarkInv
<1>3. MarkInv => MarkedWasSent
  BY DEF MarkInv
<1>. QED  BY <1>1, <1>2, <1>3, PTL DEF Spec

-----------------------------------------------------------------------------
(* The lock *)

\* The failures against which the lock does not protect.
LockHolds == Faults \cap {"redis", "slow"} = {}

OwnerWorks == \A r \in Runs : Working(r) => lock.owner = r

LEMMA OwnerIsAlone ==
  ASSUME OwnerWorks, NEW r \in Runs, Working(r)
  PROVE  \A q \in Runs \ {r} : ~Working(q)
BY DEF OwnerWorks

\* Nobody works while the key is not set.
LEMMA FreeIsIdle ==
  ASSUME OwnerWorks, lock = Free
  PROVE  \A q \in Runs : ~Working(q)
BY RemindersAssumption DEF OwnerWorks, Free

LEMMA OwnerStep ==
  ASSUME LockHolds, TypeOK, OwnerWorks, [Next]_vars
  PROVE  OwnerWorks'
<1>1. ASSUME NEW r \in Runs, Claim(r)
      PROVE  OwnerWorks'
  <2>1. CASE lock = Free
    <3>1. lock'.owner = r /\ \A q \in Runs \ {r} : run'[q] = run[q]
      BY <1>1, <2>1, GotoPlaces DEF Claim, LockHolds
    <3>. QED  BY <2>1, <3>1, FreeIsIdle DEF OwnerWorks, Working, At
  <2>2. CASE lock # Free
    <3>1. lock' = lock /\ run' = run
      BY <1>1, <2>2 DEF Claim, LockHolds
    <3>. QED  BY <3>1 DEF OwnerWorks, Working, At
  <2>. QED  BY <2>1, <2>2
<1>2. ASSUME NEW r \in Runs, Lease(r)
      PROVE  OwnerWorks'
  <2>1. Working(r) /\ \A q \in Runs \ {r} : run'[q] = run[q]
    BY <1>2, GotoPlaces DEF Lease, Working, At
  <2>2. lock # Free
    BY <2>1, FreeIsIdle
  <2>3. lock'.owner = lock.owner
    BY <1>2, <2>2 DEF Lease, TypeOK
  <2>. QED  BY <2>1, <2>3 DEF OwnerWorks, Working, At
<1>3. ASSUME NEW r \in Runs, Release(r) \/ Crash(r)
      PROVE  OwnerWorks'
  <2>1. Working(r)
    BY <1>3 DEF Release, Crash, Working, At
  <2>2. run'[r].at = "idle" /\ \A q \in Runs \ {r} : run'[q] = run[q]
    BY <1>3, GotoPlaces DEF Release, Crash, Resting
  <2>. QED  BY <2>1, <2>2, OwnerIsAlone DEF OwnerWorks, Working, At
<1>4. ASSUME NEW r \in Runs, List(r) \/ Pick(r) \/ RowStep(r)
      PROVE  OwnerWorks'
  <2>1. Working(r) /\ lock' = lock
    BY <1>4 DEF List, Pick, RowStep, Try, SendTaken, SendRefused, SendThrows, Mark,
                Working, At
  <2>2. \A q \in Runs \ {r} : run'[q] = run[q]
    BY <1>4 DEF List, Pick, RowStep, Try, SendTaken, SendRefused, SendThrows, Mark,
                Onward, NextRow, Goto, TypeOK
  <2>. QED  BY <2>1, <2>2 DEF OwnerWorks, Working, At
<1>5. CASE Tick
  BY <1>5 DEF Tick, LockHolds, OwnerWorks, Working, At
<1>6. ASSUME UNCHANGED vars \/ (\E a \in Appointments : Cancel(a))
               \/ (\E a \in Appointments, t \in Starts : Move(a, t))
      PROVE  OwnerWorks'
  <2>1. lock' = lock /\ run' = run
    BY <1>6 DEF Cancel, Move, vars
  <2>. QED  BY <2>1 DEF OwnerWorks, Working, At
<1>. QED  BY <1>1, <1>2, <1>3, <1>4, <1>5, <1>6 DEF Next, RunStep

(***************************************************************************)
(* If Redis answers and every run ends within its minute, at most one run  *)
(* is past the lock, also when instances crash at any point.               *)
(***************************************************************************)
THEOREM LockExcludes ==
  ASSUME LockHolds
  PROVE  Spec => []OneRunAtATime
<1>1. Init => OwnerWorks
  BY DEF Init, OwnerWorks, Working, At, Resting
<1>2. TypeOK /\ OwnerWorks /\ [Next]_vars => OwnerWorks'
  BY OwnerStep
<1>3. OwnerWorks => OneRunAtATime
  BY DEF OwnerWorks, OneRunAtATime
<1>. QED  BY <1>1, <1>2, <1>3, RemindersTypeCorrect, PTL DEF Spec

-----------------------------------------------------------------------------
(* Repeats *)

\* The failures after which a customer may be told again.
NothingLost == Faults \subseteq {"send", "move"}

Unsent(a) == \A k \in Positions : messages[a][k] = 0

Sending(r, a) == run[r].at \in {"send", "mark"} /\ run[r].cur[1] = a

\* An unmarked row that no run is sending has had no message.
FreshRows ==
  \A a \in Appointments : a \in marked \/ Unsent(a) \/ \E r \in Runs : Sending(r, a)

(***************************************************************************)
(* The rows a run still has to do are unmarked and different from one      *)
(* another and from the row at hand, of which only the channels before     *)
(* the next one may have had a message.                                    *)
(***************************************************************************)
RowsKept(r) ==
  /\ \A i \in run[r].todo : i[1] \notin marked
  /\ \A i, j \in run[r].todo : i[1] = j[1] => i = j
  /\ run[r].at \in {"try", "send", "mark"} =>
       run[r].cur[1] \notin marked /\ \A i \in run[r].todo : i[1] # run[r].cur[1]
  /\ run[r].at = "send" =>
       /\ \A k \in Positions : k >= run[r].next => messages[run[r].cur[1]][k] = 0
       /\ run[r].ok = FALSE => Unsent(run[r].cur[1])

RepeatInv ==
  /\ TypeOK
  /\ OwnerWorks
  /\ NoRepeats
  /\ FreshRows
  /\ \A r \in Runs : RowsKept(r)

\* While r works, the other runs rest, before and after its step.
LEMMA OthersRest ==
  ASSUME TypeOK, OwnerWorks, NEW r \in Runs, Working(r),
         \A q \in Runs \ {r} : run'[q] = run[q]
  PROVE  \A q \in Runs \ {r} :
           /\ run[q].at = "idle"
           /\ run'[q].at = "idle"
           /\ RowsKept(q)'
<1>. SUFFICES ASSUME NEW q \in Runs \ {r}
              PROVE  run[q].at = "idle" /\ run'[q].at = "idle" /\ RowsKept(q)'
  OBVIOUS
<1>1. run[q].at = "idle"
  BY OwnerIsAlone DEF Working, At
<1>2. run[q].todo = {}
  BY <1>1, RunFields DEF BareState
<1>. QED  BY <1>1, <1>2 DEF RowsKept

\* A step of the lock, of cron or of a crash leaves no rows to do.
LEMMA BareStepKeepsRows ==
  ASSUME NothingLost, RepeatInv, NEW r \in Runs,
         Claim(r) \/ Lease(r) \/ Release(r)
  PROVE  NoRepeats' /\ FreshRows' /\ \A q \in Runs : RowsKept(q)'
<1>1. messages' = messages /\ marked' = marked
  BY DEF Claim, Lease, Release, SentUnchanged
<1>2. /\ run[r].at \in {"idle", "lease", "release"}
      /\ \/ run' = run
         \/ \E place \in {"idle", "lease", "list"} :
              Goto(r, [at |-> place, todo |-> {}])
  BY DEF Claim, Lease, Release, Resting, At
<1>3. run' = run \/ (run'[r].at \in {"idle", "lease", "list"} /\ run'[r].todo = {}
                     /\ \A q \in Runs \ {r} : run'[q] = run[q])
  BY <1>2, GotoPlaces DEF RepeatInv
<1>4. \A q \in Runs : run'[q] = run[q]
                       \/ (run'[q].at \in {"idle", "lease", "list"} /\ run'[q].todo = {})
  BY <1>3
<1>5. NoRepeats'
  BY <1>1 DEF RepeatInv, NoRepeats
<1>6. FreshRows'
  BY <1>1, <1>2, <1>3 DEF RepeatInv, FreshRows, Unsent, Sending
<1>7. \A q \in Runs : RowsKept(q)'
  BY <1>1, <1>4 DEF RepeatInv, RowsKept, Unsent
<1>. QED  BY <1>5, <1>6, <1>7

LEMMA ListStepKeepsRows ==
  ASSUME NothingLost, RepeatInv, NEW r \in Runs, List(r)
  PROVE  NoRepeats' /\ FreshRows' /\ \A q \in Runs : RowsKept(q)'
<1>1. messages' = messages /\ marked' = marked /\ run[r].at = "list"
  BY DEF List, SentUnchanged, At
<1>2. PICK page \in FirstPages :
        Goto(r, [at |-> "pick", todo |-> {<<a, start[a]>> :
                                 a \in {b \in page : InWindow(b) /\ b \notin marked}}])
  BY DEF List, NothingLost
<1>3. /\ run'[r].at = "pick"
      /\ \A i \in run'[r].todo : i[1] \notin marked /\ i = <<i[1], start[i[1]]>>
      /\ \A q \in Runs \ {r} : run'[q] = run[q]
  BY <1>2, GotoPlaces DEF RepeatInv
<1>4. \A q \in Runs \ {r} : RowsKept(q)'
  BY <1>1, <1>3, OthersRest DEF RepeatInv, Working, At
<1>5. RowsKept(r)'
  BY <1>1, <1>3 DEF RowsKept
<1>6. NoRepeats' /\ FreshRows'
  BY <1>1, <1>3 DEF RepeatInv, NoRepeats, FreshRows, Unsent, Sending
<1>. QED  BY <1>4, <1>5, <1>6

LEMMA PickStepKeepsRows ==
  ASSUME NothingLost, RepeatInv, NEW r \in Runs, Pick(r)
  PROVE  NoRepeats' /\ FreshRows' /\ \A q \in Runs : RowsKept(q)'
<1>1. messages' = messages /\ marked' = marked /\ run[r].at = "pick"
  BY DEF Pick, SentUnchanged, At
<1>2. \A q \in Runs \ {r} : run'[q] = run[q]
  BY GotoPlaces DEF Pick, RepeatInv
<1>3. \/ run'[r].at = "release" /\ run'[r].todo = {}
      \/ /\ run'[r].at = "try"
         /\ run'[r].cur \in run[r].todo
         /\ run'[r].todo = run[r].todo \ {run'[r].cur}
  BY DEF Pick, Goto, RepeatInv, TypeOK
<1>4. \A q \in Runs \ {r} : RowsKept(q)'
  BY <1>1, <1>2, OthersRest DEF RepeatInv, Working, At
<1>5. RowsKept(r)'
  BY <1>1, <1>3 DEF RepeatInv, RowsKept
<1>6. NoRepeats' /\ FreshRows'
  BY <1>1, <1>2, <1>3 DEF RepeatInv, NoRepeats, FreshRows, Unsent, Sending
<1>. QED  BY <1>4, <1>5, <1>6

LEMMA TryStepKeepsRows ==
  ASSUME NothingLost, RepeatInv, NEW r \in Runs, Try(r)
  PROVE  NoRepeats' /\ FreshRows' /\ \A q \in Runs : RowsKept(q)'
<1>0. TypeOK /\ OwnerWorks /\ RowsKept(r) /\ FreshRows /\ NoRepeats
  BY DEF RepeatInv
<1>1. messages' = messages /\ marked' = marked /\ run[r].at = "try"
  BY DEF Try, SentUnchanged, At
<1>2. run[r] \in RowState /\ run[r].cur[1] \in Appointments
  BY <1>0, <1>1, RunFields, CurrentRow
<1>3. \A q \in Runs \ {r} : run'[q] = run[q]
  BY <1>0, GotoPlaces, NextRowPlaces DEF Try
<1>4. \/ run'[r].at = "pick" /\ run'[r].todo = run[r].todo
      \/ /\ run'[r].at = "send" /\ run'[r].todo = run[r].todo
         /\ run'[r].cur = run[r].cur
  <2>1. CASE NextRow(r)
    BY <1>0, <2>1, NextRowPlaces
  <2>2. CASE Goto(r, [run[r] EXCEPT !.at = "send", !.next = 1, !.ok = FALSE])
    <3>1. run'[r] = [run[r] EXCEPT !.at = "send", !.next = 1, !.ok = FALSE]
      BY <1>0, <2>2, GotoPlaces
    <3>. QED  BY <1>2, <3>1 DEF RowState
  <2>. QED  BY <2>1, <2>2 DEF Try
<1>5. \A q \in Runs \ {r} : run[q].at = "idle" /\ RowsKept(q)'
  BY <1>0, <1>1, <1>3, OthersRest DEF Working, At
<1>6. Unsent(run[r].cur[1])
  BY <1>0, <1>1, <1>2, <1>5 DEF FreshRows, RowsKept, Sending
<1>7. RowsKept(r)'
  BY <1>0, <1>1, <1>4, <1>6 DEF RowsKept, Unsent
<1>8. NoRepeats' /\ FreshRows'
  BY <1>0, <1>1, <1>3, <1>4 DEF NoRepeats, FreshRows, Unsent, Sending
<1>. QED  BY <1>5, <1>7, <1>8

LEMMA TakenStepKeepsRows ==
  ASSUME NothingLost, RepeatInv, NEW r \in Runs, SendTaken(r)
  PROVE  NoRepeats' /\ FreshRows' /\ \A q \in Runs : RowsKept(q)'
<1>. DEFINE a == run[r].cur[1]
            k == run[r].next
<1>0. TypeOK /\ OwnerWorks /\ RowsKept(r) /\ FreshRows /\ NoRepeats
  BY DEF RepeatInv
<1>1. marked' = marked /\ run[r].at = "send" /\ Onward(r, TRUE) /\ Deliver(r)
  BY DEF SendTaken, At, NothingLost
<1>2. a \in Appointments /\ k \in Nat
  BY <1>0, <1>1, CurrentRow, RunFields, ChannelsLength DEF RowState, Positions
<1>3. /\ \A q \in Runs \ {r} : run'[q] = run[q]
      /\ run'[r].cur = run[r].cur /\ run'[r].todo = run[r].todo
      /\ \/ /\ run'[r].at = "send"
            /\ run'[r].next = k + 1
            /\ run'[r].ok = TRUE
         \/ run'[r].at = "mark"
  BY <1>0, <1>1, OnwardPlaces DEF At
<1>4. \A b \in Appointments, j \in Positions :
        messages'[b][j] = IF b = a /\ j = k THEN 1 ELSE messages[b][j]
  <2>. DEFINE v == IF messages[a][k] < MaxMessages THEN messages[a][k] + 1
                                                   ELSE messages[a][k]
  <2>1. messages' = [messages EXCEPT ![a] = [messages[a] EXCEPT ![k] = v]]
    BY <1>1 DEF Deliver
  <2>2. k \in Positions => v = 1
    BY <1>0, <1>1, <1>2 DEF RowsKept, MaxMessages, Positions
  <2>. HIDE DEF v, a, k
  <2>3. messages \in [Appointments -> [Positions -> 0 .. MaxMessages]]
    BY <1>0 DEF TypeOK
  <2>. QED  BY <1>2, <2>1, <2>2, <2>3
<1>5. \A q \in Runs \ {r} : run[q].at = "idle" /\ RowsKept(q)'
  BY <1>0, <1>1, <1>3, OthersRest DEF Working, At
<1>6. RowsKept(r)'
  BY <1>0, <1>1, <1>2, <1>3, <1>4 DEF RowsKept, Positions
<1>7. NoRepeats'
  BY <1>0, <1>4 DEF NoRepeats
<1>8. FreshRows'
  BY <1>0, <1>1, <1>3, <1>4, <1>5 DEF FreshRows, Unsent, Sending
<1>. QED  BY <1>5, <1>6, <1>7, <1>8

LEMMA RefusedStepKeepsRows ==
  ASSUME NothingLost, RepeatInv, NEW r \in Runs, SendRefused(r)
  PROVE  NoRepeats' /\ FreshRows' /\ \A q \in Runs : RowsKept(q)'
<1>0. TypeOK /\ OwnerWorks /\ RowsKept(r) /\ FreshRows /\ NoRepeats
  BY DEF RepeatInv
<1>1. /\ messages' = messages /\ marked' = marked
      /\ run[r].at = "send" /\ Onward(r, run[r].ok)
  BY DEF SendRefused, SentUnchanged, At
<1>2. run[r].ok \in BOOLEAN /\ run[r].next \in Nat
  BY <1>0, <1>1, RunFields, ChannelsLength DEF RowState, Positions
<1>3. /\ \A q \in Runs \ {r} : run'[q] = run[q]
      /\ run'[r].todo = run[r].todo
      /\ \/ run'[r].at = "pick" /\ run[r].ok = FALSE
         \/ /\ run'[r].at = "send" /\ run'[r].next = run[r].next + 1
            /\ run'[r].ok = run[r].ok /\ run'[r].cur = run[r].cur
         \/ run'[r].at = "mark" /\ run'[r].cur = run[r].cur
  BY <1>0, <1>1, <1>2, OnwardPlaces DEF At
<1>5. \A q \in Runs \ {r} : run[q].at = "idle" /\ RowsKept(q)'
  BY <1>0, <1>1, <1>3, OthersRest DEF Working, At
<1>6. RowsKept(r)'
  BY <1>0, <1>1, <1>2, <1>3 DEF RowsKept, Unsent, Positions
<1>7. NoRepeats' /\ FreshRows'
  BY <1>0, <1>1, <1>3, <1>5 DEF NoRepeats, FreshRows, Unsent, Sending, RowsKept
<1>. QED  BY <1>5, <1>6, <1>7

LEMMA MarkStepKeepsRows ==
  ASSUME NothingLost, RepeatInv, NEW r \in Runs, Mark(r)
  PROVE  NoRepeats' /\ FreshRows' /\ \A q \in Runs : RowsKept(q)'
<1>0. TypeOK /\ OwnerWorks /\ RowsKept(r) /\ FreshRows /\ NoRepeats
  BY DEF RepeatInv
<1>1. /\ messages' = messages /\ marked' = marked \cup {run[r].cur[1]}
      /\ run[r].at = "mark" /\ NextRow(r)
  BY DEF Mark, At, NothingLost
<1>2. /\ run'[r].at = "pick" /\ run'[r].todo = run[r].todo
      /\ \A q \in Runs \ {r} : run'[q] = run[q]
  BY <1>0, <1>1, NextRowPlaces
<1>3. \A q \in Runs \ {r} : run[q].at = "idle" /\ RowsKept(q)'
  BY <1>0, <1>1, <1>2, OthersRest DEF Working, At
<1>4. RowsKept(r)'
  BY <1>0, <1>1, <1>2 DEF RowsKept
<1>5. NoRepeats' /\ FreshRows'
  BY <1>0, <1>1, <1>2, <1>3 DEF NoRepeats, FreshRows, Unsent, Sending
<1>. QED  BY <1>3, <1>4, <1>5

LEMMA RepeatStep ==
  ASSUME NothingLost, RepeatInv, [Next]_vars
  PROVE  NoRepeats' /\ FreshRows' /\ \A q \in Runs : RowsKept(q)'
<1>1. ASSUME NEW r \in Runs, Claim(r) \/ Lease(r) \/ Release(r)
      PROVE  NoRepeats' /\ FreshRows' /\ \A q \in Runs : RowsKept(q)'
  BY <1>1, BareStepKeepsRows
<1>2. ASSUME NEW r \in Runs, List(r) \/ Pick(r) \/ RowStep(r)
      PROVE  NoRepeats' /\ FreshRows' /\ \A q \in Runs : RowsKept(q)'
  <2>1. ~SendThrows(r)
    BY DEF SendThrows, NothingLost
  <2>. QED  BY <1>2, <2>1, ListStepKeepsRows, PickStepKeepsRows, TryStepKeepsRows,
               TakenStepKeepsRows, RefusedStepKeepsRows, MarkStepKeepsRows DEF RowStep
<1>3. ASSUME NEW r \in Runs, Crash(r) PROVE FALSE
  BY <1>3 DEF Crash, NothingLost
<1>4. ASSUME Tick \/ UNCHANGED vars \/ (\E a \in Appointments : Cancel(a))
               \/ (\E a \in Appointments, t \in Starts : Move(a, t))
      PROVE  NoRepeats' /\ FreshRows' /\ \A q \in Runs : RowsKept(q)'
  <2>1. marked' = marked /\ messages' = messages /\ run' = run
    BY <1>4 DEF Tick, Cancel, Move, SentUnchanged, vars
  <2>2. NoRepeats' /\ FreshRows'
    BY <2>1 DEF RepeatInv, NoRepeats, FreshRows, Unsent, Sending
  <2>3. \A q \in Runs : RowsKept(q)'
    BY <2>1 DEF RepeatInv, RowsKept, Unsent
  <2>. QED  BY <2>2, <2>3
<1>. QED  BY <1>1, <1>2, <1>3, <1>4 DEF Next, RunStep

(***************************************************************************)
(* If nothing fails but a channel that says so, no channel gets the        *)
(* reminder of a row twice, however many runs list the row while it is due *)
(* and however it is rescheduled.                                          *)
(***************************************************************************)
THEOREM NoReminderRepeats ==
  ASSUME NothingLost
  PROVE  Spec => []NoRepeats
<1>0. LockHolds
  BY DEF NothingLost, LockHolds
<1>1. Init => RepeatInv
  <2>. SUFFICES ASSUME Init PROVE RepeatInv
    OBVIOUS
  <2>1. \A a \in Appointments : Unsent(a)
    BY DEF Init, Unsent
  <2>2. NoRepeats
    BY DEF Init, NoRepeats
  <2>3. \A r \in Runs : RowsKept(r)
    BY DEF Init, RowsKept, Resting
  <2>4. OwnerWorks
    BY DEF Init, OwnerWorks, Working, At, Resting
  <2>. QED  BY <2>1, <2>2, <2>3, <2>4, InitType DEF RepeatInv, FreshRows
<1>2. RepeatInv /\ [Next]_vars => RepeatInv'
  BY <1>0, RepeatStep, NextType, OwnerStep DEF RepeatInv
<1>3. RepeatInv => NoRepeats
  BY DEF RepeatInv
<1>. QED  BY <1>1, <1>2, <1>3, PTL DEF Spec

-----------------------------------------------------------------------------
(* Nobody is forgotten *)

SendableAt(s, t) ==
  /\ \E m \in Timings : (s - (t - Skew)) - m \in (0 - Tolerance) .. Tolerance
  /\ t \notin QuietHours

(***************************************************************************)
(* When no appointment may be forgotten: nothing fails but the count of an *)
(* SMS, no row is moved, the rows fit the query's first page, a channel    *)
(* other than e-mail is on, and each start has a minute, not a quiet one,  *)
(* in which the window and the timing agree.                               *)
(***************************************************************************)
NothingMissed ==
  /\ Faults \subseteq {"unrecorded"}
  /\ Runs # {}
  /\ IsFiniteSet(Appointments) /\ Cardinality(Appointments) <= PageSize
  /\ \E k \in Positions : Channels[k] # "email"
  /\ \A s \in Starts : s > Far => \E t \in Nat : s - t \in Near .. Far /\ SendableAt(s, t)

\* The lock is a working run's, one that cron started in this minute.
LockTells ==
  /\ lock # Free => \E r \in Runs : Working(r)
  /\ \A r \in Runs : Working(r) => r \in fired

\* What a run has listed, and what customers were told, is when rows start.
ListsTrue ==
  /\ \A r \in Runs :
       /\ \A i \in run[r].todo : i[2] = start[i[1]]
       /\ run[r].at \in {"try", "send", "mark"} => run[r].cur[2] = start[run[r].cur[1]]
  /\ \A a \in Appointments : told[a] \subseteq {start[a]} /\ start[a] > Far

\* The row is still to come in this minute's run.
Has(r, a) ==
  \/ run[r].at \in {"lease", "list"}
  \/ <<a, start[a]>> \in run[r].todo
  \/ run[r].at = "try" /\ run[r].cur = <<a, start[a]>>
  \/ /\ run[r].at = "send" /\ run[r].cur = <<a, start[a]>>
     /\ \E k \in Positions : k >= run[r].next /\ Channels[k] # "email"

\* This minute's duty is done or still to come; those of the past are done.
DutiesMet ==
  \A a \in confirmed :
    start[a] \notin told[a] =>
      /\ InWindow(a) /\ Sendable(start[a]) => fired = {} \/ \E r \in Runs : Has(r, a)
      /\ \A t \in 0 .. now - 1 : ~(start[a] - t \in Near .. Far /\ SendableAt(start[a], t))

RemindInv == MarkInv /\ OwnerWorks /\ LockTells /\ ListsTrue /\ DutiesMet

LEMMA DutyAlone ==
  ASSUME RemindInv, NEW r \in Runs, Working(r)
  PROVE  /\ r \in fired
         /\ \A q \in Runs \ {r} :
              run[q].at = "idle" /\ run[q].todo = {} /\ \A a : ~Has(q, a)
<1>1. TypeOK /\ OwnerWorks /\ LockTells
  BY DEF RemindInv, MarkInv
<1>2. \A q \in Runs \ {r} : run[q].at = "idle"
  BY <1>1, OwnerIsAlone DEF Working, At
<1>3. \A q \in Runs \ {r} : run[q].todo = {}
  BY <1>1, <1>2, RunFields DEF BareState
<1>. QED  BY <1>1, <1>2, <1>3 DEF LockTells, Has

\* A step of the run at work, which tells what its list says, forgets no row.
LEMMA WorkStep ==
  ASSUME RemindInv, NEW r \in Runs, Working(r), Working(r)',
         \A q \in Runs \ {r} : run'[q] = run[q],
         UNCHANGED <<now, start, confirmed, fired>>,
         \A i \in run'[r].todo : i[2] = start[i[1]],
         run'[r].at \in {"try", "send", "mark"} => run'[r].cur[2] = start[run'[r].cur[1]],
         \A a \in Appointments : told[a] \subseteq told'[a] /\ told'[a] \subseteq {start[a]},
         \A a \in confirmed :
           Has(r, a) /\ InWindow(a) /\ Sendable(start[a])
             => start[a] \in told'[a] \/ Has(r, a)'
  PROVE  LockTells' /\ ListsTrue' /\ DutiesMet'
<1>0. TypeOK /\ LockTells /\ ListsTrue /\ DutiesMet
  BY DEF RemindInv, MarkInv
<1>1. /\ r \in fired
      /\ \A q \in Runs \ {r} : run[q].at = "idle" /\ run[q].todo = {} /\ \A a : ~Has(q, a)
  BY DutyAlone
<1>2. LockTells'
  BY <1>0, <1>1 DEF LockTells, Working, At
<1>3. ListsTrue'
  BY <1>0 DEF ListsTrue
<1>4. DutiesMet'
  <2>. SUFFICES ASSUME NEW a \in confirmed, start[a] \notin told'[a]
                PROVE  /\ InWindow(a)' /\ Sendable(start[a])'
                            => fired' = {} \/ \E q \in Runs : Has(q, a)'
                       /\ \A t \in 0 .. now - 1 :
                            ~(start[a] - t \in Near .. Far /\ SendableAt(start[a], t))
    BY DEF DutiesMet
  <2>1. a \in Appointments /\ start[a] \notin told[a]
    BY <1>0 DEF TypeOK
  <2>2. /\ InWindow(a) /\ Sendable(start[a]) => Has(r, a)
        /\ \A t \in 0 .. now - 1 : ~(start[a] - t \in Near .. Far /\ SendableAt(start[a], t))
    BY <1>0, <1>1, <2>1 DEF DutiesMet
  <2>3. (InWindow(a)' <=> InWindow(a)) /\ (Sendable(start[a])' <=> Sendable(start[a]))
    BY DEF InWindow, Sendable
  <2>. QED  BY <2>2, <2>3
<1>. QED  BY <1>2, <1>3, <1>4

LEMMA ClaimReminds ==
  ASSUME NothingMissed, RemindInv, NEW r \in Runs, Claim(r)
  PROVE  LockTells' /\ ListsTrue' /\ DutiesMet'
<1>0. TypeOK /\ OwnerWorks /\ LockTells /\ ListsTrue /\ DutiesMet
  BY DEF RemindInv, MarkInv
<1>1. UNCHANGED <<now, start, confirmed, told>> /\ fired' = fired \cup {r}
  BY DEF Claim, SentUnchanged, AppointmentsUnchanged
<1>2. CASE lock = Free
  <2>1. /\ run'[r] = [at |-> "lease", todo |-> {}]
        /\ \A q \in Runs \ {r} : run'[q] = run[q]
    BY <1>0, <1>2, GotoPlaces DEF Claim, NothingMissed
  <2>2. \A q \in Runs : ~Working(q)
    BY <1>0, <1>2, FreeIsIdle
  <2>3. LockTells'
    BY <1>1, <2>1, <2>2 DEF LockTells, Working, At
  <2>4. ListsTrue'
    BY <1>0, <1>1, <2>1 DEF ListsTrue
  <2>5. \A a : Has(r, a)'
    BY <2>1 DEF Has
  <2>6. DutiesMet'
    BY <1>0, <1>1, <2>5 DEF DutiesMet
  <2>. QED  BY <2>3, <2>4, <2>6
<1>3. CASE lock # Free
  <2>1. UNCHANGED <<lock, run>>
    BY <1>3 DEF Claim, NothingMissed
  <2>2. fired # {}
    BY <1>0, <1>3 DEF LockTells
  <2>3. LockTells' /\ ListsTrue'
    BY <1>0, <1>1, <2>1 DEF LockTells, ListsTrue, Working, At
  <2>4. DutiesMet'
    BY <1>0, <1>1, <2>1, <2>2 DEF DutiesMet, Has, InWindow, Sendable
  <2>. QED  BY <2>3, <2>4
<1>. QED  BY <1>2, <1>3

LEMMA LeaseReminds ==
  ASSUME RemindInv, NEW r \in Runs, Lease(r)
  PROVE  LockTells' /\ ListsTrue' /\ DutiesMet'
<1>0. TypeOK /\ ListsTrue
  BY DEF RemindInv, MarkInv
<1>1. UNCHANGED <<now, start, confirmed, told, fired>> /\ Working(r)
  BY DEF Lease, SentUnchanged, AppointmentsUnchanged, Working, At
<1>2. run'[r] = [at |-> "list", todo |-> {}] /\ \A q \in Runs \ {r} : run'[q] = run[q]
  BY <1>0, GotoPlaces DEF Lease
<1>3. Working(r)' /\ \A a : Has(r, a)'
  BY <1>2 DEF Working, At, Has
<1>. QED  BY <1>0, <1>1, <1>2, <1>3, WorkStep DEF ListsTrue

LEMMA ReleaseReminds ==
  ASSUME NothingMissed, RemindInv, NEW r \in Runs, Release(r)
  PROVE  LockTells' /\ ListsTrue' /\ DutiesMet'
<1>0. TypeOK /\ LockTells /\ ListsTrue /\ DutiesMet
  BY DEF RemindInv, MarkInv
<1>1. /\ UNCHANGED <<now, start, confirmed, told, fired>> /\ Working(r)
      /\ run[r].at = "release" /\ lock' = Free
  BY DEF Release, SentUnchanged, AppointmentsUnchanged, Working, At, NothingMissed
<1>2. run'[r] = Resting /\ \A q \in Runs \ {r} : run'[q] = run[q]
  BY <1>0, GotoPlaces DEF Release
<1>3. /\ r \in fired
      /\ \A q \in Runs \ {r} : run[q].at = "idle" /\ run[q].todo = {} /\ \A a : ~Has(q, a)
  BY <1>1, DutyAlone
<1>4. \A a : ~Has(r, a)
  <2>1. run[r].todo = {}
    BY <1>0, <1>1, RunFields DEF BareState
  <2>. QED  BY <1>1, <2>1 DEF Has
<1>5. LockTells' /\ ListsTrue'
  BY <1>0, <1>1, <1>2, <1>3 DEF LockTells, ListsTrue, Working, At, Resting
<1>6. DutiesMet'
  BY <1>0, <1>1, <1>3, <1>4 DEF DutiesMet, InWindow, Sendable
<1>. QED  BY <1>5, <1>6

\* The first page holds every row when they are no more than its size.
LEMMA PageIsAll ==
  ASSUME NothingMissed, TypeOK, NEW page \in FirstPages
  PROVE  page = confirmed
<1>1. page \subseteq confirmed /\ (Cardinality(page) = PageSize \/ page = confirmed)
  BY DEF FirstPages, Candidates
<1>2. SUFFICES ASSUME Cardinality(page) = PageSize PROVE page = confirmed
  BY <1>1
<1>3. IsFiniteSet(confirmed) /\ Cardinality(confirmed) <= Cardinality(Appointments)
  BY FS_Subset DEF NothingMissed, TypeOK
<1>4. /\ Cardinality(page) <= Cardinality(confirmed)
      /\ Cardinality(page) = Cardinality(confirmed) => page = confirmed
  BY <1>1, <1>3, FS_Subset
<1>5. /\ Cardinality(page) \in Nat /\ Cardinality(confirmed) \in Nat
      /\ Cardinality(Appointments) \in Nat
  BY <1>1, <1>3, FS_Subset, FS_CardinalityType DEF NothingMissed
<1>6. Cardinality(Appointments) <= PageSize
  BY DEF NothingMissed
<1>. QED  BY <1>2, <1>3, <1>4, <1>5, <1>6, RemindersAssumption

LEMMA ListReminds ==
  ASSUME NothingMissed, RemindInv, NEW r \in Runs, List(r)
  PROVE  LockTells' /\ ListsTrue' /\ DutiesMet'
<1>0. TypeOK /\ MarkedWasSent /\ ListsTrue
  BY DEF RemindInv, MarkInv
<1>1. UNCHANGED <<now, start, confirmed, told, fired>> /\ Working(r)
  BY DEF List, SentUnchanged, AppointmentsUnchanged, Working, At
<1>2. PICK page \in FirstPages :
        Goto(r, [at |-> "pick",
                 todo |-> {<<a, start[a]>> : a \in {b \in page : InWindow(b) /\ b \notin marked}}])
  BY DEF List, NothingMissed
<1>3. /\ run'[r].at = "pick"
      /\ run'[r].todo = {<<a, start[a]>> :
                           a \in {b \in confirmed : InWindow(b) /\ b \notin marked}}
      /\ \A q \in Runs \ {r} : run'[q] = run[q]
  BY <1>0, <1>2, GotoPlaces, PageIsAll
<1>4. \A i \in run'[r].todo : i[2] = start[i[1]]
  BY <1>3
<1>5. ASSUME NEW a \in confirmed, InWindow(a)
      PROVE  start[a] \in told[a] \/ Has(r, a)'
  <2>1. CASE a \in marked
    BY <1>0, <2>1 DEF MarkedWasSent, ListsTrue, TypeOK
  <2>2. CASE a \notin marked
    <3>1. <<a, start'[a]>> \in run'[r].todo
      BY <1>1, <1>3, <1>5, <2>2
    <3>. QED  BY <3>1 DEF Has
  <2>. QED  BY <2>1, <2>2
<1>6. Working(r)' /\ run'[r].at \notin {"try", "send", "mark"}
  BY <1>3 DEF Working, At
<1>. QED  BY <1>0, <1>1, <1>3, <1>4, <1>5, <1>6, WorkStep DEF ListsTrue

LEMMA PickReminds ==
  ASSUME RemindInv, NEW r \in Runs, Pick(r)
  PROVE  LockTells' /\ ListsTrue' /\ DutiesMet'
<1>0. TypeOK /\ ListsTrue
  BY DEF RemindInv, MarkInv
<1>1. /\ UNCHANGED <<now, start, confirmed, told, fired>> /\ Working(r)
      /\ run[r].at = "pick"
  BY DEF Pick, SentUnchanged, AppointmentsUnchanged, Working, At
<1>2. CASE run[r].todo = {}
  <2>1. run'[r] = [at |-> "release", todo |-> {}] /\ \A q \in Runs \ {r} : run'[q] = run[q]
    BY <1>0, <1>2, GotoPlaces DEF Pick
  <2>2. Working(r)' /\ \A a : ~Has(r, a)
    BY <1>1, <1>2, <2>1 DEF Working, At, Has
  <2>. QED  BY <1>0, <1>1, <2>1, <2>2, WorkStep DEF ListsTrue
<1>3. CASE run[r].todo # {}
  <2>1. PICK item \in run[r].todo :
          Goto(r, [at |-> "try", todo |-> run[r].todo \ {item}, cur |-> item,
                   tries |-> 1, next |-> 1, ok |-> FALSE])
    BY <1>3 DEF Pick
  <2>2. /\ run'[r].at = "try" /\ run'[r].cur = item /\ run'[r].todo = run[r].todo \ {item}
        /\ \A q \in Runs \ {r} : run'[q] = run[q]
    BY <1>0, <2>1, GotoPlaces
  <2>3. \A a : Has(r, a) => Has(r, a)'
    BY <1>1, <2>2 DEF Has
  <2>4. Working(r)'
    BY <2>2 DEF Working, At
  <2>. QED  BY <1>0, <1>1, <2>2, <2>3, <2>4, WorkStep DEF ListsTrue
<1>. QED  BY <1>2, <1>3

LEMMA TryReminds ==
  ASSUME NothingMissed, RemindInv, NEW r \in Runs, Try(r)
  PROVE  LockTells' /\ ListsTrue' /\ DutiesMet'
<1>0. TypeOK /\ ListsTrue
  BY DEF RemindInv, MarkInv
<1>1. /\ UNCHANGED <<now, start, confirmed, told, fired>> /\ Working(r)
      /\ run[r].at = "try" /\ run[r] \in RowState
  BY <1>0, RunFields DEF Try, SentUnchanged, AppointmentsUnchanged, Working, At
<1>2. PICK k \in Positions : Channels[k] # "email" /\ k >= 1 /\ Len(Channels) > 0
  BY ChannelsLength DEF NothingMissed, Positions
<1>3. CASE Sendable(run[r].cur[2])
  <2>1. /\ run'[r] = [run[r] EXCEPT !.at = "send", !.next = 1, !.ok = FALSE]
        /\ \A q \in Runs \ {r} : run'[q] = run[q]
    BY <1>0, <1>2, <1>3, GotoPlaces DEF Try
  <2>2. /\ run'[r].at = "send" /\ run'[r].next = 1
        /\ run'[r].cur = run[r].cur /\ run'[r].todo = run[r].todo
    BY <1>1, <2>1 DEF RowState
  <2>3. \A a : Has(r, a) => Has(r, a)'
    BY <1>1, <1>2, <2>2 DEF Has
  <2>4. Working(r)'
    BY <2>2 DEF Working, At
  <2>. QED  BY <1>0, <1>1, <2>1, <2>2, <2>3, <2>4, WorkStep DEF ListsTrue
<1>4. CASE ~Sendable(run[r].cur[2])
  <2>1. /\ run'[r].at = "pick" /\ run'[r].todo = run[r].todo
        /\ \A q \in Runs \ {r} : run'[q] = run[q]
    BY <1>0, <1>4, NextRowPlaces DEF Try
  <2>2. \A a \in confirmed : Has(r, a) /\ Sendable(start[a]) => Has(r, a)'
    BY <1>1, <1>4, <2>1 DEF Has
  <2>3. Working(r)'
    BY <2>1 DEF Working, At
  <2>. QED  BY <1>0, <1>1, <2>1, <2>2, <2>3, WorkStep DEF ListsTrue
<1>. QED  BY <1>3, <1>4

LEMMA TakenReminds ==
  ASSUME NothingMissed, RemindInv, NEW r \in Runs, SendTaken(r)
  PROVE  LockTells' /\ ListsTrue' /\ DutiesMet'
<1>. DEFINE b == run[r].cur[1]
<1>0. TypeOK /\ ListsTrue
  BY DEF RemindInv, MarkInv
<1>1. /\ UNCHANGED <<now, start, confirmed, fired>> /\ Working(r)
      /\ run[r].at = "send" /\ run[r] \in RowState /\ Deliver(r)
      /\ \E ok \in BOOLEAN : Onward(r, ok)
  BY <1>0, RunFields DEF SendTaken, AppointmentsUnchanged, Working, At, RowState
<1>2. /\ \A q \in Runs \ {r} : run'[q] = run[q]
      /\ run'[r].todo = run[r].todo
      /\ \/ run'[r].at = "pick"
         \/ run'[r].at \in {"send", "mark"} /\ run'[r].cur = run[r].cur
  BY <1>0, <1>1, OnwardPlaces DEF At
<1>3. b \in Appointments /\ run[r].cur = <<b, start[b]>>
  BY <1>0, <1>1 DEF RowState, Reminder, ListsTrue
<1>4. /\ \A a \in Appointments : told[a] \subseteq told'[a] /\ told'[a] \subseteq {start[a]}
      /\ start[b] \in told'[b]
  <2>1. told' = [told EXCEPT ![b] = told[b] \cup {run[r].cur[2]}]
    BY <1>1 DEF Deliver
  <2>2. run[r].cur[2] = start[b]
    BY <1>0, <1>1 DEF ListsTrue
  <2>. HIDE DEF b
  <2>3. told' = [told EXCEPT ![b] = told[b] \cup {start[b]}]
    BY <2>1, <2>2
  <2>. QED  BY <1>0, <1>3, <2>3 DEF TypeOK, ListsTrue
<1>5. \A a \in confirmed : Has(r, a) => start[a] \in told'[a] \/ Has(r, a)'
  <2>. SUFFICES ASSUME NEW a \in confirmed, Has(r, a)
                PROVE  start[a] \in told'[a] \/ Has(r, a)'
    OBVIOUS
  <2>1. CASE <<a, start[a]>> \in run[r].todo
    BY <1>1, <1>2, <2>1 DEF Has
  <2>2. CASE run[r].cur = <<a, start[a]>>
    BY <1>3, <1>4, <2>2
  <2>. QED  BY <1>1, <2>1, <2>2 DEF Has
<1>6. Working(r)'
  BY <1>2 DEF Working, At
<1>7. /\ \A i \in run'[r].todo : i[2] = start[i[1]]
      /\ run'[r].at \in {"try", "send", "mark"} => run'[r].cur[2] = start[run'[r].cur[1]]
  BY <1>0, <1>1, <1>2 DEF ListsTrue
<1>. QED  BY <1>1, <1>2, <1>4, <1>5, <1>6, <1>7, WorkStep

LEMMA RefusedReminds ==
  ASSUME NothingMissed, RemindInv, NEW r \in Runs, SendRefused(r)
  PROVE  LockTells' /\ ListsTrue' /\ DutiesMet'
<1>0. TypeOK /\ ListsTrue
  BY DEF RemindInv, MarkInv
<1>1. /\ UNCHANGED <<now, start, confirmed, told, fired>> /\ Working(r)
      /\ run[r].at = "send" /\ run[r] \in RowState /\ Onward(r, run[r].ok)
      /\ Channels[run[r].next] = "email"
  BY <1>0, RunFields
     DEF SendRefused, SentUnchanged, AppointmentsUnchanged, Working, At, NothingMissed
<1>2. run[r].ok \in BOOLEAN /\ run[r].next \in Nat
  BY <1>1, ChannelsLength DEF RowState, Positions
<1>3. /\ \A q \in Runs \ {r} : run'[q] = run[q]
      /\ run'[r].todo = run[r].todo
      /\ \/ run'[r].at \in {"pick", "mark"} /\ ~(run[r].next < Len(Channels))
         \/ /\ run'[r].at = "send" /\ run'[r].next = run[r].next + 1
      /\ run'[r].at \in {"send", "mark"} => run'[r].cur = run[r].cur
  <2>1. /\ \A q \in Runs \ {r} : run'[q] = run[q]
        /\ run'[r].todo = run[r].todo
        /\ run'[r].at \in {"pick", "send", "mark"}
        /\ run'[r].at = "send" => run'[r].next = run[r].next + 1
        /\ run'[r].at \in {"send", "mark"} => run'[r].cur = run[r].cur
    BY <1>0, <1>1, <1>2, OnwardPlaces DEF At
  <2>2. run[r].next < Len(Channels) => run'[r].at = "send"
    <3>1. run[r].next < Len(Channels)
            => run'[r] = [run[r] EXCEPT !.next = run[r].next + 1, !.ok = run[r].ok]
      BY <1>0, <1>1, GotoPlaces DEF Onward
    <3>. QED  BY <1>1, <3>1 DEF RowState
  <2>. QED  BY <2>1, <2>2
<1>4. \A a \in confirmed : Has(r, a) => Has(r, a)'
  <2>. SUFFICES ASSUME NEW a \in confirmed, Has(r, a)
                PROVE  Has(r, a)'
    OBVIOUS
  <2>1. CASE <<a, start[a]>> \in run[r].todo
    BY <1>1, <1>3, <2>1 DEF Has
  <2>2. CASE /\ run[r].cur = <<a, start[a]>>
             /\ \E k \in Positions : k >= run[r].next /\ Channels[k] # "email"
    <3>1. PICK k \in Positions : k >= run[r].next /\ Channels[k] # "email"
      BY <2>2
    <3>2. k >= run[r].next + 1 /\ run[r].next < Len(Channels)
      BY <1>1, <1>2, <3>1, ChannelsLength DEF Positions
    <3>. QED  BY <1>1, <1>3, <2>2, <3>1, <3>2 DEF Has
  <2>. QED  BY <1>1, <2>1, <2>2 DEF Has
<1>5. Working(r)'
  BY <1>3 DEF Working, At
<1>6. /\ \A i \in run'[r].todo : i[2] = start[i[1]]
      /\ run'[r].at \in {"try", "send", "mark"} => run'[r].cur[2] = start[run'[r].cur[1]]
  BY <1>0, <1>1, <1>3 DEF ListsTrue
<1>. QED  BY <1>0, <1>1, <1>3, <1>4, <1>5, <1>6, WorkStep DEF ListsTrue

LEMMA MarkReminds ==
  ASSUME RemindInv, NEW r \in Runs, Mark(r)
  PROVE  LockTells' /\ ListsTrue' /\ DutiesMet'
<1>0. TypeOK /\ ListsTrue
  BY DEF RemindInv, MarkInv
<1>1. /\ UNCHANGED <<now, start, confirmed, told, fired>> /\ Working(r)
      /\ run[r].at = "mark" /\ NextRow(r)
  BY DEF Mark, AppointmentsUnchanged, Working, At
<1>2. /\ run'[r].at = "pick" /\ run'[r].todo = run[r].todo
      /\ \A q \in Runs \ {r} : run'[q] = run[q]
  BY <1>0, <1>1, NextRowPlaces
<1>3. Working(r)' /\ \A a : Has(r, a) => Has(r, a)'
  BY <1>1, <1>2 DEF Has, Working, At
<1>. QED  BY <1>0, <1>1, <1>2, <1>3, WorkStep DEF ListsTrue

\* When the minute ends, its run has told whom it had to tell.
LEMMA TickReminds ==
  ASSUME NothingMissed, RemindInv, Tick
  PROVE  LockTells' /\ ListsTrue' /\ DutiesMet'
<1>0. TypeOK /\ LockTells /\ ListsTrue /\ DutiesMet
  BY DEF RemindInv, MarkInv
<1>1. /\ UNCHANGED <<start, confirmed, told, run>> /\ fired' = {}
      /\ fired = Runs /\ \A r \in Runs : run[r].at = "idle"
      /\ now' = now \/ now' = now + 1
  BY DEF Tick, SentUnchanged, AppointmentsUnchanged, NothingMissed, At
<1>2. lock = Free
  BY <1>0, <1>1 DEF LockTells, Working, At
<1>3. lock' = Free
  BY <1>2 DEF Tick, Aged, Free
<1>4. LockTells' /\ ListsTrue'
  BY <1>0, <1>1, <1>3 DEF LockTells, ListsTrue, Working, At
<1>5. \A r \in Runs, a \in confirmed : ~Has(r, a)
  <2>1. \A r \in Runs : run[r].todo = {}
    BY <1>0, <1>1, RunFields DEF BareState
  <2>. QED  BY <1>1, <2>1 DEF Has
<1>6. DutiesMet'
  <2>. SUFFICES ASSUME NEW a \in confirmed, start[a] \notin told[a], NEW t \in 0 .. now' - 1
                PROVE  ~(start[a] - t \in Near .. Far /\ SendableAt(start[a], t))
    BY <1>1 DEF DutiesMet
  <2>1. now \in Nat
    BY <1>0 DEF TypeOK
  <2>2. CASE t \in 0 .. now - 1
    BY <1>0, <2>2 DEF DutiesMet
  <2>3. CASE t = now
    <3>1. ~(InWindow(a) /\ Sendable(start[a]))
      BY <1>0, <1>1, <1>5 DEF DutiesMet, NothingMissed
    <3>. QED  BY <2>3, <3>1 DEF InWindow, Sendable, SendableAt
  <2>. QED  BY <1>1, <2>1, <2>2, <2>3
<1>. QED  BY <1>4, <1>6

LEMMA RemindNext == ASSUME NothingMissed PROVE RemindInv /\ [Next]_vars => RemindInv'
<1>. SUFFICES ASSUME RemindInv, [Next]_vars PROVE RemindInv'
  OBVIOUS
<1>0. TypeOK /\ OwnerWorks /\ LockTells /\ ListsTrue /\ DutiesMet
  BY DEF RemindInv, MarkInv
<1>1. MarkInv' /\ OwnerWorks'
  BY MarkStep, NextType, OwnerStep DEF RemindInv, MarkInv, NothingMissed, LockHolds
<1>2. ASSUME NEW r \in Runs, Claim(r) \/ RunStep(r)
      PROVE  LockTells' /\ ListsTrue' /\ DutiesMet'
  <2>1. ~SendThrows(r)
    BY DEF SendThrows, NothingMissed
  <2>. QED  BY <1>2, <2>1, ClaimReminds, LeaseReminds, ListReminds, PickReminds,
               TryReminds, TakenReminds, RefusedReminds, MarkReminds, ReleaseReminds
            DEF RunStep, RowStep
<1>3. ASSUME NEW r \in Runs, Crash(r)
      PROVE  FALSE
  BY <1>3 DEF Crash, NothingMissed
<1>4. ASSUME NEW a \in Appointments, NEW s \in Starts, Move(a, s)
      PROVE  FALSE
  BY <1>4 DEF Move, NothingMissed
<1>5. ASSUME UNCHANGED vars \/ \E a \in Appointments : Cancel(a)
      PROVE  LockTells' /\ ListsTrue' /\ DutiesMet'
  <2>1. UNCHANGED <<now, start, told, lock, fired, run>> /\ confirmed' \subseteq confirmed
    BY <1>5 DEF Cancel, SentUnchanged, vars
  <2>2. LockTells' /\ ListsTrue'
    BY <1>0, <2>1 DEF LockTells, ListsTrue, Working, At
  <2>3. DutiesMet'
    BY <1>0, <2>1 DEF DutiesMet, Has, InWindow, Sendable
  <2>. QED  BY <2>2, <2>3
<1>6. LockTells' /\ ListsTrue' /\ DutiesMet'
  BY <1>2, <1>3, <1>4, <1>5, TickReminds DEF Next
<1>. QED  BY <1>1, <1>6 DEF RemindInv

(***************************************************************************)
(* If nothing fails but the count of an SMS, nobody whose appointment      *)
(* stands is forgotten: by the time the window has passed, the customer    *)
(* was told its start, whichever instance's run got the lock each minute.  *)
(***************************************************************************)
THEOREM NobodyForgotten ==
  ASSUME NothingMissed
  PROVE  Spec => []Reminded
<1>1. Init => RemindInv
  <2>. SUFFICES ASSUME Init PROVE RemindInv
    OBVIOUS
  <2>1. MarkInv /\ OwnerWorks
    BY InitType
       DEF Init, MarkInv, MarkedWasSent, SuccessWasTold, Resting, OwnerWorks, Working, At
  <2>2. LockTells /\ ListsTrue
    BY DEF Init, LockTells, ListsTrue, Resting, Working, At
  <2>3. DutiesMet
    BY DEF Init, DutiesMet
  <2>. QED  BY <2>1, <2>2, <2>3 DEF RemindInv
<1>2. RemindInv /\ [Next]_vars => RemindInv'
  BY RemindNext
<1>3. RemindInv => Reminded
  <2>. SUFFICES ASSUME RemindInv, NEW a \in confirmed, start[a] - now < Near
                PROVE  start[a] \in told[a]
    BY DEF Reminded
  <2>1. TypeOK /\ ListsTrue /\ DutiesMet /\ a \in Appointments
    BY DEF RemindInv, MarkInv, TypeOK
  <2>2. start[a] \in Starts /\ start[a] > Far /\ start[a] \in Nat /\ now \in Nat
    <3>1. start[a] \in Starts /\ now \in Nat
      BY <2>1, RemindersAssumption DEF TypeOK
    <3>2. start[a] > Far
      BY <2>1 DEF ListsTrue
    <3>. QED  BY <3>1, <3>2, RemindersAssumption
  <2>3. PICK t \in Nat : start[a] - t \in Near .. Far /\ SendableAt(start[a], t)
    BY <2>2 DEF NothingMissed
  <2>4. t \in 0 .. now - 1
    BY <2>2, <2>3, RemindersAssumption
  <2>. QED  BY <2>1, <2>3, <2>4 DEF DutiesMet
<1>. QED  BY <1>1, <1>2, <1>3, PTL DEF Spec
=============================================================================
