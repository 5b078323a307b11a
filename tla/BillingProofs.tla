--------------------------- MODULE BillingProofs ---------------------------
(***************************************************************************)
(* Proofs about Billing for every number of tasks and charges, every set   *)
(* of operations and failures, and every interval and limit.               *)
(***************************************************************************)
EXTENDS Billing, TLAPS

LEMMA CapType == FailCap \in Nat /\ FailCap >= 3
BY BillingAssumption DEF FailCap

LEMMA OneMoreType == \A n \in 0 .. FailCap : OneMore(n) \in 0 .. FailCap
BY CapType DEF OneMore

-----------------------------------------------------------------------------
(* Types *)

LEMMA RunningTask ==
  ASSUME TypeOK, NEW t \in Tasks, Busy(t)
  PROVE  /\ task[t] \in Running
         /\ task[t].seen \in Subscription
         /\ task[t].status \in Statuses
         /\ task[t].day \in Nat
BY DEF TypeOK, TaskState, Busy, Running

\* A recurring discount is taken off only where uses were left.
UsesLeft == \A t \in Tasks : At(t, "decrement") => task[t].seen.uses > 0

LEMMA BeginType ==
  ASSUME TypeOK, UsesLeft, NEW t \in Tasks, NEW op, NEW place \in Places \ {"decrement"},
         NEW c \in Charges \cup {NoCharge}, Begin(t, op, place, c)
  PROVE  task' \in [Tasks -> TaskState] /\ UsesLeft'
<1>1. op \in AllOperations /\ now \in Nat /\ sub.status \in Statuses
  BY BillingAssumption DEF Begin, TypeOK, Subscription
<1>2. [op |-> op, at |-> place, seen |-> sub, status |-> sub.status,
       day |-> now, charge |-> c] \in Running
  BY <1>1 DEF Running, TypeOK
<1>3. task' \in [Tasks -> TaskState]
  BY <1>2 DEF Begin, TypeOK, TaskState
<1>4. UsesLeft'
  BY DEF Begin, UsesLeft, At, Busy, TypeOK
<1>. QED  BY <1>3, <1>4

LEMMA GotoType ==
  ASSUME TypeOK, UsesLeft, NEW t \in Tasks, Busy(t),
         NEW place \in Places \ {"decrement"}, Goto(t, place)
  PROVE  task' \in [Tasks -> TaskState] /\ UsesLeft'
<1>1. [task[t] EXCEPT !.at = place] \in Running
  BY RunningTask DEF Running
<1>2. task' \in [Tasks -> TaskState]
  BY <1>1 DEF Goto, TypeOK, TaskState
<1>3. ASSUME NEW u \in Tasks, At(u, "decrement")' PROVE (task[u].seen.uses > 0)'
  <2>1. task[t] \in Running
    BY RunningTask
  <2>2. u # t
    BY <1>3, <2>1 DEF At, Busy, Goto, TypeOK, Running
  <2>. QED  BY <1>3, <2>2 DEF At, Busy, Goto, TypeOK, UsesLeft
<1>. QED  BY <1>2, <1>3 DEF UsesLeft

LEMMA FinishType ==
  ASSUME TypeOK, UsesLeft, NEW t \in Tasks, Finish(t)
  PROVE  task' \in [Tasks -> TaskState] /\ UsesLeft'
<1>1. task' \in [Tasks -> TaskState]
  BY DEF Finish, TypeOK, TaskState
<1>2. UsesLeft'
  BY DEF Finish, UsesLeft, At, Busy, TypeOK
<1>. QED  BY <1>1, <1>2

LEMMA GiveUpType ==
  ASSUME TypeOK, UsesLeft, NEW t \in Tasks, Busy(t), GiveUp(t)
  PROVE  task' \in [Tasks -> TaskState] /\ UsesLeft'
<1>1. "fail" \in Places \ {"decrement"}
  BY DEF Places
<1>. QED  BY <1>1, GotoType, FinishType DEF GiveUp

LEMMA PlacesLeft ==
  {"discount", "charge", "record", "activate", "refused", "settle", "fail", "write",
   "stamp", "card", "refund", "mark", "drop"} = Places \ {"decrement"}
BY DEF Places

LEMMA InitType == Init => TypeOK /\ UsesLeft
<1>. SUFFICES ASSUME Init PROVE TypeOK /\ UsesLeft
  OBVIOUS
<1>1. sub \in Subscription
  BY BillingAssumption, CapType DEF Init, Subscription, Statuses, Days, NoDay
<1>2. now \in 0 .. MaxDay
  BY BillingAssumption DEF Init
<1>3. period \in [Charges -> Days] /\ failed \in Nat /\ tries \in Nat
  BY DEF Init, Days, NoDay
<1>4. task \in [Tasks -> TaskState]
  BY DEF Init, TaskState
<1>5. payments \in [Charges -> {"NONE", "SUCCEEDED", "REFUNDED", "CANCELED"}]
  BY DEF Init
<1>6. taken \subseteq Charges /\ returned \subseteq Charges
  BY DEF Init
<1>7. UsesLeft
  BY DEF Init, UsesLeft, At, Busy
<1>. QED  BY <1>1, <1>2, <1>3, <1>4, <1>5, <1>6, <1>7 DEF TypeOK

LEMMA Constants ==
  /\ Interval \in Nat /\ TrialDays \in Nat /\ MaxUses \in Nat
  /\ {"ACTIVE", "TRIAL", "PAST_DUE", "CANCELED", "UNPAID"} \subseteq Statuses
BY BillingAssumption DEF Statuses

LEMMA PaidType ==
  ASSUME TypeOK, NEW t \in Tasks, Busy(t)
  PROVE  Paid(t) \in Subscription
<1>1. task[t].day + Interval \in Nat /\ task[t].seen.end + Interval \in Nat
  BY RunningTask, Constants DEF Subscription
<1>2. 0 \in 0 .. FailCap /\ NoDay \in Days
  BY CapType DEF NoDay, Days
<1>3. "ACTIVE" \in Statuses
  BY Constants
<1>5. [sub EXCEPT !.status = "ACTIVE", !.end = task[t].day + Interval,
                  !.trial = NoDay, !.fails = 0] \in Subscription
  BY <1>1, <1>2, <1>3 DEF TypeOK, Subscription
<1>6. [sub EXCEPT !.end = task[t].seen.end + Interval, !.fails = 0] \in Subscription
  BY <1>1, <1>2 DEF TypeOK, Subscription
<1>7. [sub EXCEPT !.status = "ACTIVE", !.fails = 0] \in Subscription
  BY <1>2, <1>3 DEF TypeOK, Subscription
<1>8. CASE Doing(t, "trial")
  BY <1>5, <1>8 DEF Paid, Doing
<1>9. CASE ~Doing(t, "trial") /\ Doing(t, "renewal")
  BY <1>6, <1>9 DEF Paid, Doing
<1>10. CASE ~Doing(t, "trial") /\ ~Doing(t, "renewal")
  BY <1>7, <1>10 DEF Paid, Doing
<1>. QED  BY <1>8, <1>9, <1>10

LEMMA UnpaidType ==
  ASSUME TypeOK, NEW t \in Tasks, Busy(t)
  PROVE  Unpaid(t) \in Subscription
<1>1. OneMore(task[t].seen.fails) \in 0 .. FailCap
  BY RunningTask, OneMoreType DEF Subscription
<1>2. (task[t].seen.auto /\ task[t].seen.fails < 2) \in BOOLEAN
  OBVIOUS
<1>3. "CANCELED" \in Statuses /\ "UNPAID" \in Statuses
  BY Constants
<1>4. [sub EXCEPT !.status = "CANCELED"] \in Subscription
  BY <1>3 DEF TypeOK, Subscription
<1>5. [sub EXCEPT !.fails = OneMore(task[t].seen.fails),
                  !.auto = task[t].seen.auto /\ task[t].seen.fails < 2] \in Subscription
  <2>. DEFINE f == OneMore(task[t].seen.fails)
              a == task[t].seen.auto /\ task[t].seen.fails < 2
  <2>1. f \in 0 .. FailCap /\ a \in BOOLEAN
    BY <1>1, <1>2
  <2>. HIDE DEF f, a
  <2>2. [sub EXCEPT !.fails = f, !.auto = a] \in Subscription
    BY <2>1 DEF TypeOK, Subscription
  <2>. QED  BY <2>2 DEF f, a
<1>6. [sub EXCEPT !.status = "UNPAID"] \in Subscription
  BY <1>3 DEF TypeOK, Subscription
<1>7. CASE Doing(t, "trial")
  BY <1>4, <1>7 DEF Unpaid, Doing
<1>8. CASE ~Doing(t, "trial") /\ Doing(t, "renewal")
  BY <1>5, <1>8 DEF Unpaid, Doing
<1>9. CASE ~Doing(t, "trial") /\ ~Doing(t, "renewal")
  BY <1>6, <1>9 DEF Unpaid, Doing
<1>. QED  BY <1>7, <1>8, <1>9

-----------------------------------------------------------------------------
(* Every step keeps the types *)

LEMMA ListTypes ==
  ASSUME TypeOK, UsesLeft, NEW t \in Tasks, ListTrials(t) \/ ListDue(t) \/ ListFailed(t)
  PROVE  TypeOK' /\ UsesLeft'
<1>1. task' \in [Tasks -> TaskState] /\ UsesLeft'
  <2>1. CASE ListTrials(t)
    BY <2>1, PlacesLeft, BeginType DEF ListTrials
  <2>2. CASE ListDue(t)
    BY <2>2, PlacesLeft, BeginType DEF ListDue
  <2>3. CASE ListFailed(t)
    BY <2>3, PlacesLeft, BeginType DEF ListFailed
  <2>. QED  BY <2>1, <2>2, <2>3
<1>. QED  BY <1>1 DEF ListTrials, ListDue, ListFailed, TypeOK, rows, provider, history

LEMMA CleanupTypes ==
  ASSUME TypeOK, UsesLeft, NEW t \in Tasks, Cleanup(t)
  PROVE  TypeOK' /\ UsesLeft'
<1>1. sub' \in Subscription
  BY Constants DEF Cleanup, TypeOK, Subscription
<1>2. UsesLeft'
  BY DEF Cleanup, UsesLeft, At, Busy
<1>. QED  BY <1>1, <1>2 DEF Cleanup, TypeOK, rows, provider, history

LEMMA DiscountTypes ==
  ASSUME TypeOK, UsesLeft, NEW t \in Tasks, ReadDiscount(t) \/ Decrement(t)
  PROVE  TypeOK' /\ UsesLeft'
<1>1. Busy(t) /\ task[t] \in Running
  BY RunningTask DEF ReadDiscount, Decrement, At
<1>2. CASE ReadDiscount(t) /\ Goto(t, "charge")
  BY <1>1, <1>2, PlacesLeft, GotoType DEF ReadDiscount, TypeOK, rows, provider, history
<1>3. CASE /\ ReadDiscount(t) /\ sub.uses > 0
           /\ task' = [task EXCEPT ![t].at = "decrement", ![t].status = sub.status,
                                   ![t].seen.uses = sub.uses]
  <2>. DEFINE seen == [task[t].seen EXCEPT !.uses = sub.uses]
              new == [task[t] EXCEPT !.at = "decrement", !.status = sub.status, !.seen = seen]
  <2>1. seen \in Subscription /\ seen.uses > 0 /\ sub.status \in Statuses
    BY <1>1, <1>3, RunningTask DEF TypeOK, Subscription
  <2>2. new \in Running /\ new.seen = seen
    BY <1>1, <2>1 DEF Running, Places
  <2>3. task' = [task EXCEPT ![t] = new]
    BY <1>1, <1>3 DEF TypeOK, Running
  <2>. HIDE DEF seen, new
  <2>4. task' \in [Tasks -> TaskState]
    BY <2>2, <2>3 DEF TypeOK, TaskState
  <2>5. UsesLeft'
    BY <2>1, <2>2, <2>3 DEF UsesLeft, At, Busy, TypeOK
  <2>. QED  BY <1>3, <2>4, <2>5 DEF ReadDiscount, TypeOK, rows, provider, history
<1>4. CASE Decrement(t)
  <2>1. task[t].seen.uses - 1 \in 0 .. MaxUses
    <3>1. task[t].seen.uses \in 0 .. MaxUses
      BY <1>1, RunningTask DEF Subscription
    <3>2. task[t].seen.uses > 0
      BY <1>4 DEF Decrement, UsesLeft
    <3>. QED  BY <3>1, <3>2, Constants
  <2>2. sub' \in Subscription
    BY <1>1, <1>4, <2>1, RunningTask DEF Decrement, TypeOK, Subscription
  <2>. QED
    BY <1>1, <1>4, <2>2, PlacesLeft, GotoType DEF Decrement, TypeOK, rows, provider, history
<1>. QED  BY <1>2, <1>3, <1>4 DEF ReadDiscount

LEMMA TakeTypes ==
  ASSUME TypeOK, NEW t \in Tasks, NEW c \in Charges, Take(t, c)
  PROVE  /\ taken' \subseteq Charges
         /\ period' \in [Charges -> Days]
         /\ UNCHANGED <<now, sub, payments, failed, returned, tries>>
<1>1. Busy(t) /\ task[t].seen.end \in Days /\ NoDay \in Days
  BY RunningTask DEF Take, At, Subscription, Days
<1>. QED  BY <1>1 DEF Take, TypeOK, rows

LEMMA ChargeTypes ==
  ASSUME TypeOK, UsesLeft, NEW t \in Tasks,
         ChargeTaken(t) \/ AnswerLost(t) \/ ChargeRefused(t)
  PROVE  TypeOK' /\ UsesLeft'
<1>1. Busy(t) /\ task[t] \in Running
  BY RunningTask DEF ChargeTaken, AnswerLost, ChargeRefused, Take, At
<1>2. CASE ChargeTaken(t)
  <2>1. PICK c \in Charges :
          Take(t, c) /\ task' = [task EXCEPT ![t].at = "record", ![t].charge = c]
    BY <1>2 DEF ChargeTaken
  <2>2. [task[t] EXCEPT !.at = "record", !.charge = c] \in Running
    BY <1>1 DEF Running, Places
  <2>3. task' \in [Tasks -> TaskState]
    BY <2>1, <2>2 DEF TypeOK, TaskState
  <2>4. UsesLeft'
    BY <1>1, <2>1 DEF UsesLeft, At, Busy, TypeOK, Running
  <2>. QED  BY <2>1, <2>3, <2>4, TakeTypes DEF TypeOK
<1>3. CASE AnswerLost(t)
  <2>1. PICK c \in Charges : Take(t, c)
    BY <1>3 DEF AnswerLost
  <2>2. task' \in [Tasks -> TaskState] /\ UsesLeft'
    BY <1>1, <1>3, PlacesLeft, GotoType DEF AnswerLost
  <2>. QED  BY <2>1, <2>2, TakeTypes DEF TypeOK
<1>4. CASE ChargeRefused(t)
  BY <1>1, <1>4, PlacesLeft, GotoType DEF ChargeRefused, TypeOK, rows, provider, history
<1>. QED  BY <1>2, <1>3, <1>4

LEMMA RecordTypes ==
  ASSUME TypeOK, UsesLeft, NEW t \in Tasks, RecordPaid(t) \/ Activate(t) \/ RecordFailed(t)
  PROVE  TypeOK' /\ UsesLeft'
<1>1. Busy(t)
  BY DEF RecordPaid, Activate, RecordFailed, At
<1>2. CASE RecordPaid(t)
  <2>1. payments' \in [Charges -> {"NONE", "SUCCEEDED", "REFUNDED", "CANCELED"}]
    BY <1>2 DEF RecordPaid, TypeOK
  <2>. QED  BY <1>1, <1>2, <2>1, PlacesLeft, GotoType DEF RecordPaid, TypeOK, provider, history
<1>3. CASE Activate(t)
  <2>1. sub' \in Subscription
    BY <1>3, Constants DEF Activate, TypeOK, Subscription
  <2>2. task' \in [Tasks -> TaskState] /\ UsesLeft'
    BY <1>1, <1>3, PlacesLeft, GotoType, FinishType DEF Activate
  <2>. QED  BY <1>3, <2>1, <2>2 DEF Activate, TypeOK, rows, provider, history
<1>4. CASE RecordFailed(t)
  BY <1>1, <1>4, GiveUpType DEF RecordFailed, TypeOK, provider, history
<1>. QED  BY <1>2, <1>3, <1>4

LEMMA OutcomeTypes ==
  ASSUME TypeOK, UsesLeft, NEW t \in Tasks, Settle(t) \/ Fail(t)
  PROVE  TypeOK' /\ UsesLeft'
<1>1. Busy(t)
  BY DEF Settle, Fail, At
<1>2. CASE Settle(t)
  BY <1>1, <1>2, PaidType, FinishType DEF Settle, TypeOK, rows, provider
<1>3. CASE Fail(t)
  BY <1>1, <1>3, UnpaidType, FinishType DEF Fail, TypeOK, rows, provider
<1>. QED  BY <1>2, <1>3

\* A request that reads the row and will write it.
LEMMA ReadsTypes ==
  ASSUME TypeOK, UsesLeft, NEW t \in Tasks, NEW op, Reads(t, op)
  PROVE  TypeOK' /\ UsesLeft'
BY PlacesLeft, BeginType DEF Reads, TypeOK, rows, provider, history

\* One that writes it and goes on, or ends.
LEMMA WritesTypes ==
  ASSUME TypeOK, UsesLeft, NEW t \in Tasks, NEW op, Writes(t, op),
         NEW place \in {"charge", "stamp", "card"}, Goto(t, place) \/ Finish(t),
         sub' \in Subscription, UNCHANGED period, tries' \in Nat
  PROVE  TypeOK' /\ UsesLeft'
<1>1. Busy(t)
  BY DEF Writes, At
<1>2. task' \in [Tasks -> TaskState] /\ UsesLeft'
  BY <1>1, PlacesLeft, GotoType, FinishType
<1>. QED  BY <1>2 DEF Writes, TypeOK, rows, provider

LEMMA EndsTypes ==
  ASSUME TypeOK, UsesLeft, NEW t \in Tasks, NEW op, Ends(t, op), sub' \in Subscription
  PROVE  TypeOK' /\ UsesLeft'
<1>1. tries' \in Nat /\ UNCHANGED period /\ Writes(t, op) /\ Finish(t)
  BY DEF Ends, TypeOK, history
<1>2. "card" \in {"charge", "stamp", "card"}
  OBVIOUS
<1>. QED  BY <1>1, <1>2, WritesTypes

LEMMA LaterTypes ==
  ASSUME TypeOK, UsesLeft, NEW t \in Tasks, Busy(t), Finish(t), sub' \in Subscription,
         UNCHANGED <<now, rows, provider, history>>
  PROVE  TypeOK' /\ UsesLeft'
BY FinishType DEF TypeOK, rows, provider, history

LEMMA SeenRow ==
  ASSUME TypeOK, NEW t \in Tasks, Busy(t)
  PROVE  task[t].seen.end \in Nat /\ task[t].seen.uses \in 0 .. MaxUses
BY RunningTask DEF Subscription

LEMMA Periods == TypeOK => now + Interval \in Nat /\ now + TrialDays \in Nat
BY Constants, BillingAssumption DEF TypeOK

LEMMA TimeRequestTypes ==
  ASSUME TypeOK, UsesLeft, NEW t \in Tasks,
         Expire(t) \/ RenewAll(t) \/ Subscribe(t) \/ Pay(t)
  PROVE  TypeOK' /\ UsesLeft'
<1>1. CASE Expire(t)
  <2>1. CASE Reads(t, "expire")
    BY <2>1, ReadsTypes
  <2>2. CASE ~Reads(t, "expire")
    <3>1. sub' \in Subscription
      BY <1>1, <2>2, Constants DEF Expire, TypeOK, Subscription
    <3>. QED  BY <1>1, <2>2, <3>1, EndsTypes DEF Expire
  <2>. QED  BY <2>1, <2>2
<1>2. CASE RenewAll(t)
  <2>1. CASE Reads(t, "renewAll")
    BY <2>1, ReadsTypes
  <2>2. CASE ~Reads(t, "renewAll")
    <3>1. sub' \in Subscription
      BY <1>2, <2>2, Constants, Periods DEF RenewAll, TypeOK, Subscription
    <3>. QED  BY <1>2, <2>2, <3>1, EndsTypes DEF RenewAll
  <2>. QED  BY <2>1, <2>2
<1>3. CASE Subscribe(t)
  <2>1. CASE Reads(t, "subscribe")
    BY <2>1, ReadsTypes
  <2>2. CASE ~Reads(t, "subscribe")
    <3>1. PICK card \in BOOLEAN, uses \in {0, MaxUses} :
            sub' = [sub EXCEPT !.status = "TRIAL", !.end = now + TrialDays,
                               !.trial = now + TrialDays, !.atEnd = FALSE,
                               !.card = card, !.uses = uses]
      BY <1>3, <2>2 DEF Subscribe
    <3>2. uses \in 0 .. MaxUses /\ now + TrialDays \in Days /\ "TRIAL" \in Statuses
      BY Constants, Periods DEF Days
    <3>3. sub' \in Subscription
      BY <3>1, <3>2, Periods DEF TypeOK, Subscription
    <3>. QED  BY <1>3, <2>2, <3>3, EndsTypes DEF Subscribe
  <2>. QED  BY <2>1, <2>2
<1>4. CASE Pay(t)
  <2>1. CASE Reads(t, "pay")
    BY <2>1, ReadsTypes
  <2>2. CASE ~Reads(t, "pay")
    <3>1. sub' \in Subscription
      BY <1>4, <2>2, Constants, Periods DEF Pay, TypeOK, Subscription
    <3>2. UNCHANGED period /\ tries' \in Nat /\ Writes(t, "pay") /\ Goto(t, "charge")
      BY <1>4, <2>2 DEF Pay, history, TypeOK
    <3>. QED  BY <3>1, <3>2, WritesTypes
  <2>. QED  BY <2>1, <2>2
<1>. QED  BY <1>1, <1>2, <1>3, <1>4

LEMMA CancelTypes ==
  ASSUME TypeOK, UsesLeft, NEW t \in Tasks,
         Cancel(t) \/ Reactivate(t) \/ Upgrade(t) \/ AddDiscount(t)
  PROVE  TypeOK' /\ UsesLeft'
<1>1. CASE \E op \in {"cancel", "cancelNow", "reactivate", "upgrade", "discount"} : Reads(t, op)
  BY <1>1, ReadsTypes
<1>2. CASE Ends(t, "cancel") /\ sub' = [sub EXCEPT !.atEnd = TRUE]
  <2>1. sub' \in Subscription
    BY <1>2 DEF TypeOK, Subscription
  <2>. QED  BY <1>2, <2>1, EndsTypes
<1>3. CASE /\ Ends(t, "cancelNow") \/ Ends(t, "reactivate")
           /\ sub' = [sub EXCEPT !.atEnd = FALSE, !.status = "CANCELED"]
  <2>1. sub' \in Subscription
    BY <1>3, Constants DEF TypeOK, Subscription
  <2>. QED  BY <1>3, <2>1, EndsTypes
<1>4. CASE /\ Ends(t, "upgrade")
           /\ sub' = [sub EXCEPT !.status = "ACTIVE", !.end = task[t].seen.end]
  <2>1. Busy(t)
    BY <1>4 DEF Ends, Writes, At
  <2>2. sub' \in Subscription
    BY <1>4, <2>1, SeenRow, Constants DEF TypeOK, Subscription
  <2>. QED  BY <1>4, <2>2, EndsTypes
<1>5. CASE Ends(t, "discount") /\ sub' = [sub EXCEPT !.uses = MaxUses]
  <2>1. MaxUses \in 0 .. MaxUses
    BY Constants
  <2>2. sub' \in Subscription
    BY <1>5, <2>1 DEF TypeOK, Subscription
  <2>. QED  BY <1>5, <2>2, EndsTypes
<1>. QED  BY <1>1, <1>2, <1>3, <1>4, <1>5 DEF Cancel, Reactivate, Upgrade, AddDiscount

LEMMA ConvertTypes ==
  ASSUME TypeOK, UsesLeft, NEW t \in Tasks, Convert(t)
  PROVE  TypeOK' /\ UsesLeft'
<1>1. CASE Reads(t, "convert")
  BY <1>1, ReadsTypes
<1>2. CASE /\ Writes(t, "convert") /\ (Finish(t) \/ Goto(t, "stamp")) /\ UNCHANGED history
           /\ sub' = [sub EXCEPT !.status = "ACTIVE", !.end = now + Interval]
  <2>1. sub' \in Subscription
    BY <1>2, Constants, Periods DEF TypeOK, Subscription
  <2>2. UNCHANGED period /\ tries' \in Nat
    BY <1>2 DEF history, TypeOK
  <2>. QED  BY <1>2, <2>1, <2>2, WritesTypes
<1>3. CASE /\ At(t, "stamp") /\ Finish(t)
           /\ sub' = [sub EXCEPT !.status = "ACTIVE", !.uses = task[t].seen.uses]
           /\ UNCHANGED <<now, rows, provider, history>>
  <2>1. Busy(t)
    BY <1>3 DEF At
  <2>2. sub' \in Subscription
    BY <1>3, <2>1, SeenRow, Constants DEF TypeOK, Subscription
  <2>. QED  BY <1>3, <2>1, <2>2, LaterTypes
<1>. QED  BY <1>1, <1>2, <1>3 DEF Convert

LEMMA ChangeTypes ==
  ASSUME TypeOK, UsesLeft, NEW t \in Tasks, Change(t)
  PROVE  TypeOK' /\ UsesLeft'
<1>1. CASE Reads(t, "change")
  BY <1>1, ReadsTypes
<1>2. CASE /\ Writes(t, "change") /\ Goto(t, "card") /\ UNCHANGED history
           /\ \E end \in {task[t].seen.end, now + Interval} :
                sub' = [sub EXCEPT !.status = "ACTIVE", !.end = end]
  <2>1. Busy(t)
    BY <1>2 DEF Writes, At
  <2>2. PICK end \in Nat : sub' = [sub EXCEPT !.status = "ACTIVE", !.end = end]
    BY <1>2, <2>1, SeenRow, Periods
  <2>3. sub' \in Subscription
    BY <2>2, Constants DEF TypeOK, Subscription
  <2>4. UNCHANGED period /\ tries' \in Nat
    BY <1>2 DEF history, TypeOK
  <2>. QED  BY <1>2, <2>3, <2>4, WritesTypes
<1>3. CASE /\ At(t, "card") /\ Finish(t)
           /\ sub' = [sub EXCEPT !.card = TRUE]
           /\ UNCHANGED <<now, rows, provider, history>>
  <2>1. Busy(t) /\ sub' \in Subscription
    BY <1>3 DEF At, TypeOK, Subscription
  <2>. QED  BY <1>3, <2>1, LaterTypes
<1>. QED  BY <1>1, <1>2, <1>3 DEF Change

LEMMA SettingsTypes ==
  ASSUME TypeOK, UsesLeft, NEW t \in Tasks, Settings(t)
  PROVE  TypeOK' /\ UsesLeft'
<1>1. CASE Reads(t, "settings")
  BY <1>1, ReadsTypes
<1>2. CASE /\ Writes(t, "settings") /\ Finish(t) /\ UNCHANGED period
           /\ \E auto, card \in BOOLEAN :
                /\ auto => card \/ task[t].seen.card
                /\ sub' = [sub EXCEPT !.auto = auto, !.card = @ \/ card]
                /\ tries' = IF auto THEN 0 ELSE tries
  <2>1. PICK auto, card \in BOOLEAN :
          /\ sub' = [sub EXCEPT !.auto = auto, !.card = @ \/ card]
          /\ tries' = IF auto THEN 0 ELSE tries
    BY <1>2
  <2>2. sub' \in Subscription
    BY <2>1 DEF TypeOK, Subscription
  <2>3. tries' \in Nat
    BY <2>1 DEF TypeOK
  <2>. QED  BY <1>2, <2>2, <2>3, WritesTypes
<1>3. CASE Ends(t, "settings") /\ sub' = [sub EXCEPT !.card = TRUE]
  <2>1. sub' \in Subscription
    BY <1>3 DEF TypeOK, Subscription
  <2>. QED  BY <1>3, <2>1, EndsTypes
<1>. QED  BY <1>1, <1>2, <1>3 DEF Settings

-----------------------------------------------------------------------------
(* The ledger *)

Held == {"record", "activate", "settle"}
Ties == Held \cup {"refund", "mark"}

\* Between iyzico and the last write a task holds a charge that was taken; the
\* row of the charge is inserted on the way, and a refund works on a row.
HoldsCharge ==
  \A t \in Tasks : Busy(t) =>
    /\ task[t].at \in Held => task[t].charge \in taken
    /\ task[t].at = "record" => payments[task[t].charge] = "NONE"
    /\ task[t].at \in {"activate", "settle", "refund", "mark"} =>
         task[t].charge \in Charges /\ payments[task[t].charge] # "NONE"
    /\ task[t].at = "mark" => task[t].charge \in returned

\* No two tasks hold the same charge.
OwnCharges ==
  \A t, u \in Tasks :
    /\ t # u
    /\ Busy(t) /\ task[t].at \in Held
    /\ Busy(u) /\ task[u].at \in Held
    => task[t].charge # task[u].charge

LedgerInv == HoldsCharge /\ OwnCharges /\ LedgerIsTrue

\* A step that ties no task to a charge and leaves payments and iyzico alone.
LEMMA QuietLedger ==
  ASSUME TypeOK, LedgerInv, NEW t \in Tasks, NEW x, x = Idle \/ x.at \notin Ties,
         task' = [task EXCEPT ![t] = x], UNCHANGED <<payments, provider>>
  PROVE  LedgerInv'
<1>1. \A u \in Tasks : u # t => task'[u] = task[u]
  BY DEF TypeOK
<1>2. task'[t] = x
  BY DEF TypeOK
<1>3. UNCHANGED <<payments, taken, returned>>
  BY DEF provider
<1>4. HoldsCharge'
  BY <1>1, <1>2, <1>3 DEF LedgerInv, HoldsCharge, Ties, Held, Busy
<1>5. OwnCharges'
  BY <1>1, <1>2, <1>3 DEF LedgerInv, OwnCharges, Ties, Held, Busy
<1>. QED  BY <1>3, <1>4, <1>5 DEF LedgerInv, LedgerIsTrue

LEMMA BeginLedger ==
  ASSUME TypeOK, LedgerInv, NEW t \in Tasks, NEW op, NEW place \in Places \ Ties, NEW c,
         Begin(t, op, place, c), UNCHANGED <<payments, provider>>
  PROVE  LedgerInv'
<1>. DEFINE x == [op |-> op, at |-> place, seen |-> sub, status |-> sub.status,
                  day |-> now, charge |-> c]
<1>1. x.at \notin Ties
  OBVIOUS
<1>2. task' = [task EXCEPT ![t] = x]
  BY DEF Begin
<1>. HIDE DEF x
<1>. QED  BY <1>1, <1>2, QuietLedger

LEMMA GotoLedger ==
  ASSUME TypeOK, LedgerInv, NEW t \in Tasks, Busy(t), NEW place \in Places \ Ties,
         Goto(t, place), UNCHANGED <<payments, provider>>
  PROVE  LedgerInv'
<1>. DEFINE x == [task[t] EXCEPT !.at = place]
<1>1. x.at \notin Ties
  BY RunningTask DEF Running
<1>2. task' = [task EXCEPT ![t] = x]
  BY DEF Goto
<1>. HIDE DEF x
<1>. QED  BY <1>1, <1>2, QuietLedger

LEMMA FinishLedger ==
  ASSUME TypeOK, LedgerInv, NEW t \in Tasks, Finish(t), UNCHANGED <<payments, provider>>
  PROVE  LedgerInv'
BY QuietLedger DEF Finish

LEMMA GiveUpLedger ==
  ASSUME TypeOK, LedgerInv, NEW t \in Tasks, Busy(t), GiveUp(t),
         UNCHANGED <<payments, provider>>
  PROVE  LedgerInv'
<1>1. "fail" \in Places \ Ties
  BY DEF Places, Ties, Held
<1>. QED  BY <1>1, GotoLedger, FinishLedger DEF GiveUp

LEMMA PlainPlaces ==
  {"discount", "decrement", "charge", "refused", "fail", "write", "stamp", "card", "drop"}
    = Places \ Ties
BY DEF Places, Ties, Held

LEMMA ReadsLedger ==
  ASSUME TypeOK, LedgerInv, NEW t \in Tasks, NEW op, Reads(t, op)
  PROVE  LedgerInv'
BY PlainPlaces, BeginLedger DEF Reads, rows

LEMMA WritesLedger ==
  ASSUME TypeOK, LedgerInv, NEW t \in Tasks, NEW op, Writes(t, op),
         NEW place \in {"charge", "stamp", "card"}, Goto(t, place) \/ Finish(t)
  PROVE  LedgerInv'
<1>1. Busy(t)
  BY DEF Writes, At
<1>. QED  BY <1>1, PlainPlaces, GotoLedger, FinishLedger DEF Writes, rows

LEMMA EndsLedger ==
  ASSUME TypeOK, LedgerInv, NEW t \in Tasks, NEW op, Ends(t, op)
  PROVE  LedgerInv'
BY FinishLedger DEF Ends, Writes, rows

LEMMA ListLedger ==
  ASSUME TypeOK, LedgerInv, NEW t \in Tasks, ListTrials(t) \/ ListDue(t) \/ ListFailed(t)
  PROVE  LedgerInv'
<1>1. CASE ListTrials(t)
  BY <1>1, PlainPlaces, BeginLedger DEF ListTrials, rows
<1>2. CASE ListDue(t)
  BY <1>2, PlainPlaces, BeginLedger DEF ListDue, rows
<1>3. CASE ListFailed(t)
  BY <1>3, PlainPlaces, BeginLedger DEF ListFailed, rows
<1>. QED  BY <1>1, <1>2, <1>3

LEMMA DiscountLedger ==
  ASSUME TypeOK, LedgerInv, NEW t \in Tasks, ReadDiscount(t) \/ Decrement(t)
  PROVE  LedgerInv'
<1>1. Busy(t) /\ task[t] \in Running /\ UNCHANGED <<payments, provider>>
  BY RunningTask DEF ReadDiscount, Decrement, At, rows
<1>2. CASE Goto(t, "charge")
  BY <1>1, <1>2, PlainPlaces, GotoLedger
<1>3. CASE task' = [task EXCEPT ![t].at = "decrement", ![t].status = sub.status,
                               ![t].seen.uses = sub.uses]
  <2>. DEFINE x == [task[t] EXCEPT !.at = "decrement", !.status = sub.status,
                                  !.seen.uses = sub.uses]
  <2>1. x.at \notin Ties
    BY <1>1 DEF Running, Ties, Held
  <2>2. task' = [task EXCEPT ![t] = x]
    BY <1>1, <1>3 DEF TypeOK, Running
  <2>. HIDE DEF x
  <2>. QED  BY <1>1, <2>1, <2>2, QuietLedger
<1>. QED  BY <1>2, <1>3 DEF ReadDiscount, Decrement

\* A new charge has no row and no other task.
LEMMA TakenLedger ==
  ASSUME TypeOK, LedgerInv, NEW t \in Tasks, ChargeTaken(t)
  PROVE  LedgerInv'
<1>1. PICK c \in Charges :
        Take(t, c) /\ task' = [task EXCEPT ![t].at = "record", ![t].charge = c]
  BY DEF ChargeTaken
<1>2. task[t] \in Running
  BY <1>1, RunningTask DEF Take, At
<1>3. task'[t] = [task[t] EXCEPT !.at = "record", !.charge = c]
  BY <1>1 DEF TypeOK
<1>4. \A u \in Tasks : u # t => task'[u] = task[u]
  BY <1>1 DEF TypeOK
<1>5. task'[t].at = "record" /\ task'[t].charge = c
  BY <1>2, <1>3 DEF Running
<1>6. /\ taken' = taken \cup {c} /\ c \notin taken
      /\ UNCHANGED <<payments, returned>>
  BY <1>1 DEF Take, rows
<1>7. payments[c] = "NONE"
  BY <1>6 DEF LedgerInv, LedgerIsTrue
<1>8. HoldsCharge'
  BY <1>4, <1>5, <1>6, <1>7 DEF LedgerInv, HoldsCharge, Busy, Held
<1>9. \A u \in Tasks : Busy(u) /\ task[u].at \in Held => task[u].charge # c
  BY <1>6 DEF LedgerInv, HoldsCharge
<1>10. OwnCharges'
  BY <1>4, <1>5, <1>9 DEF LedgerInv, OwnCharges, Busy
<1>11. LedgerIsTrue'
  BY <1>6 DEF LedgerInv, LedgerIsTrue
<1>. QED  BY <1>8, <1>10, <1>11 DEF LedgerInv

\* A charge whose answer is lost belongs to nobody.
LEMMA LostLedger ==
  ASSUME TypeOK, LedgerInv, NEW t \in Tasks, AnswerLost(t)
  PROVE  LedgerInv'
<1>1. PICK c \in Charges : Take(t, c)
  BY DEF AnswerLost
<1>2. task[t] \in Running /\ Busy(t)
  BY <1>1, RunningTask DEF Take, At
<1>3. task'[t] = [task[t] EXCEPT !.at = "refused"]
  BY DEF AnswerLost, Goto, TypeOK
<1>4. \A u \in Tasks : u # t => task'[u] = task[u]
  BY DEF AnswerLost, Goto, TypeOK
<1>5. task'[t].at = "refused"
  BY <1>2, <1>3 DEF Running
<1>6. taken \subseteq taken' /\ UNCHANGED <<payments, returned>>
  BY <1>1 DEF Take, rows
<1>7. HoldsCharge'
  BY <1>4, <1>5, <1>6 DEF LedgerInv, HoldsCharge, Busy, Held
<1>8. OwnCharges'
  BY <1>4, <1>5 DEF LedgerInv, OwnCharges, Busy, Held
<1>9. LedgerIsTrue'
  BY <1>6 DEF LedgerInv, LedgerIsTrue
<1>. QED  BY <1>7, <1>8, <1>9 DEF LedgerInv

LEMMA PaidLedger ==
  ASSUME TypeOK, LedgerInv, NEW t \in Tasks, RecordPaid(t)
  PROVE  LedgerInv'
<1>. DEFINE c == task[t].charge
<1>1. task[t] \in Running /\ Busy(t) /\ task[t].at = "record"
  BY RunningTask DEF RecordPaid, At
<1>2. c \in taken /\ c \in Charges /\ payments[c] = "NONE"
  BY <1>1 DEF LedgerInv, HoldsCharge, Held, TypeOK
<1>3. task'[t] = [task[t] EXCEPT !.at = "activate"]
  BY DEF RecordPaid, Goto, TypeOK
<1>4. \A u \in Tasks : u # t => task'[u] = task[u]
  BY DEF RecordPaid, Goto, TypeOK
<1>5. task'[t].at = "activate" /\ task'[t].charge = c
  BY <1>1, <1>3 DEF Running
<1>6. /\ payments'[c] = "SUCCEEDED"
      /\ \A d \in Charges : d # c => payments'[d] = payments[d]
      /\ UNCHANGED <<taken, returned>>
  BY <1>2 DEF RecordPaid, TypeOK, provider
<1>7. \A u \in Tasks : u # t /\ Busy(u) /\ task[u].at \in Held => task[u].charge # c
  BY <1>1 DEF LedgerInv, OwnCharges, Held
<1>8. \A u \in Tasks : Busy(u) /\ task[u].at \in Held => task[u].charge \in Charges
  BY DEF LedgerInv, HoldsCharge, TypeOK
<1>. HIDE DEF c
<1>9. HoldsCharge'
  <2>1. SUFFICES ASSUME NEW u \in Tasks, Busy(u)'
                 PROVE  (/\ task[u].at \in Held => task[u].charge \in taken
                         /\ task[u].at = "record" => payments[task[u].charge] = "NONE"
                         /\ task[u].at \in {"activate", "settle", "refund", "mark"} =>
                              task[u].charge \in Charges /\ payments[task[u].charge] # "NONE"
                         /\ task[u].at = "mark" => task[u].charge \in returned)'
    BY DEF HoldsCharge
  <2>2. CASE u = t
    BY <1>2, <1>5, <1>6, <2>2
  <2>3. CASE u # t
    BY <1>2, <1>4, <1>6, <1>7, <1>8, <2>1, <2>3 DEF LedgerInv, HoldsCharge, Held, Busy
  <2>. QED  BY <2>2, <2>3
<1>10. OwnCharges'
  BY <1>1, <1>4, <1>5, <1>7 DEF LedgerInv, OwnCharges, Busy
<1>11. LedgerIsTrue'
  BY <1>2, <1>6 DEF LedgerInv, LedgerIsTrue
<1>. QED  BY <1>9, <1>10, <1>11 DEF LedgerInv

LEMMA ActivateLedger ==
  ASSUME TypeOK, LedgerInv, NEW t \in Tasks, Activate(t)
  PROVE  LedgerInv'
<1>1. task[t] \in Running /\ Busy(t) /\ task[t].at = "activate"
  BY RunningTask DEF Activate, At
<1>2. UNCHANGED <<payments, provider>>
  BY DEF Activate, rows
<1>3. CASE Finish(t)
  BY <1>2, <1>3, FinishLedger
<1>4. CASE Goto(t, "settle")
  <2>1. task'[t] = [task[t] EXCEPT !.at = "settle"]
    BY <1>4 DEF Goto, TypeOK
  <2>2. task'[t].at = "settle" /\ task'[t].charge = task[t].charge
    BY <1>1, <2>1 DEF Running
  <2>3. \A u \in Tasks : u # t => task'[u] = task[u]
    BY <1>4 DEF Goto, TypeOK
  <2>4. UNCHANGED <<payments, taken, returned>>
    BY <1>2 DEF provider
  <2>5. HoldsCharge'
    BY <1>1, <2>2, <2>3, <2>4 DEF LedgerInv, HoldsCharge, Busy, Held
  <2>6. OwnCharges'
    BY <1>1, <2>2, <2>3 DEF LedgerInv, OwnCharges, Busy, Held
  <2>. QED  BY <2>4, <2>5, <2>6 DEF LedgerInv, LedgerIsTrue
<1>. QED  BY <1>3, <1>4 DEF Activate

LEMMA OtherPaymentLedger ==
  ASSUME TypeOK, LedgerInv, NEW t \in Tasks,
         ChargeRefused(t) \/ RecordFailed(t) \/ Settle(t) \/ Fail(t)
  PROVE  LedgerInv'
<1>1. CASE ChargeRefused(t)
  BY <1>1, PlainPlaces, GotoLedger DEF ChargeRefused, At, rows
<1>2. CASE RecordFailed(t)
  BY <1>2, GiveUpLedger DEF RecordFailed, At
<1>3. CASE Settle(t)
  BY <1>3, FinishLedger DEF Settle, rows
<1>4. CASE Fail(t)
  BY <1>4, FinishLedger DEF Fail, rows
<1>. QED  BY <1>1, <1>2, <1>3, <1>4

Plainly(t) ==
  \/ Expire(t) \/ RenewAll(t) \/ Subscribe(t) \/ Pay(t) \/ Cancel(t) \/ Reactivate(t)
  \/ Convert(t) \/ Upgrade(t) \/ Change(t) \/ Settings(t) \/ AddDiscount(t)

LEMMA RequestLedger ==
  ASSUME TypeOK, LedgerInv, NEW t \in Tasks, Plainly(t)
  PROVE  LedgerInv'
<1>1. CASE \E op : Reads(t, op)
  BY <1>1, ReadsLedger
<1>2. CASE \E op : Ends(t, op)
  BY <1>2, EndsLedger
<1>4. CASE Finish(t) /\ UNCHANGED <<rows, provider>>
  BY <1>4, FinishLedger DEF rows
<1>5. CASE Expire(t)
  BY <1>1, <1>2, <1>5 DEF Expire
<1>6. CASE RenewAll(t)
  BY <1>1, <1>2, <1>6 DEF RenewAll
<1>7. CASE Subscribe(t)
  BY <1>1, <1>2, <1>7 DEF Subscribe
<1>8. CASE Pay(t)
  <2>1. Reads(t, "pay") \/ (Writes(t, "pay") /\ Goto(t, "charge"))
    BY <1>8 DEF Pay
  <2>2. "charge" \in {"charge", "stamp", "card"}
    OBVIOUS
  <2>3. CASE Writes(t, "pay") /\ Goto(t, "charge")
    BY <2>2, <2>3, WritesLedger
  <2>. QED  BY <2>1, <2>3, ReadsLedger
<1>9. CASE Cancel(t) \/ Reactivate(t) \/ Upgrade(t) \/ AddDiscount(t)
  BY <1>1, <1>2, <1>9 DEF Cancel, Reactivate, Upgrade, AddDiscount
<1>10. CASE Convert(t)
  <2>1. \/ Reads(t, "convert")
        \/ Writes(t, "convert") /\ (Finish(t) \/ Goto(t, "stamp"))
        \/ Finish(t) /\ UNCHANGED <<rows, provider>>
    BY <1>10 DEF Convert
  <2>. QED  BY <1>4, <2>1, ReadsLedger, WritesLedger
<1>11. CASE Change(t)
  <2>1. \/ Reads(t, "change")
        \/ Writes(t, "change") /\ Goto(t, "card")
        \/ Finish(t) /\ UNCHANGED <<rows, provider>>
    BY <1>11 DEF Change
  <2>. QED  BY <1>4, <2>1, ReadsLedger, WritesLedger
<1>12. CASE Settings(t)
  <2>1. \/ Reads(t, "settings")
        \/ Writes(t, "settings") /\ Finish(t)
        \/ Ends(t, "settings")
    BY <1>12 DEF Settings
  <2>2. "card" \in {"charge", "stamp", "card"}
    OBVIOUS
  <2>. QED  BY <2>1, <2>2, ReadsLedger, WritesLedger, EndsLedger
<1>. QED  BY <1>5, <1>6, <1>7, <1>8, <1>9, <1>10, <1>11, <1>12 DEF Plainly

\* A refund works on the charge of a row, which was taken.
LEMMA RefundKept ==
  ASSUME TypeOK, UsesLeft, LedgerInv, NEW t \in Tasks, Refund(t)
  PROVE  TypeOK' /\ UsesLeft' /\ LedgerInv'
<1>1. CASE /\ \E c \in Charges : payments[c] = "SUCCEEDED" /\ Begin(t, "refund", "refund", c)
           /\ UNCHANGED <<now, sub, rows, provider, history>>
  <2>1. PICK c \in Charges : payments[c] = "SUCCEEDED" /\ Begin(t, "refund", "refund", c)
    BY <1>1
  <2>2. TypeOK' /\ UsesLeft'
    BY <1>1, <2>1, PlacesLeft, BeginType DEF TypeOK, rows, provider, history
  <2>3. task'[t].at = "refund" /\ task'[t].charge = c
    BY <2>1 DEF Begin, TypeOK
  <2>4. \A u \in Tasks : u # t => task'[u] = task[u]
    BY <2>1 DEF Begin, TypeOK
  <2>5. UNCHANGED <<payments, taken, returned>>
    BY <1>1 DEF rows, provider
  <2>6. HoldsCharge'
    BY <2>1, <2>3, <2>4, <2>5 DEF LedgerInv, HoldsCharge, Busy, Held
  <2>7. OwnCharges'
    BY <2>3, <2>4 DEF LedgerInv, OwnCharges, Busy, Held
  <2>. QED  BY <2>2, <2>5, <2>6, <2>7 DEF LedgerInv, LedgerIsTrue
<1>2. CASE /\ At(t, "refund")
           /\ returned' = returned \cup {task[t].charge} /\ Goto(t, "mark")
           /\ UNCHANGED <<now, sub, rows, taken, history>>
  <2>1. task[t] \in Running /\ Busy(t) /\ task[t].at = "refund"
    BY <1>2, RunningTask DEF At
  <2>2. task[t].charge \in Charges /\ task[t].charge \in taken /\ payments[task[t].charge] # "NONE"
    BY <2>1 DEF LedgerInv, HoldsCharge, LedgerIsTrue
  <2>3. TypeOK' /\ UsesLeft'
    BY <1>2, <2>1, <2>2, PlacesLeft, GotoType DEF TypeOK, rows, history
  <2>4. task'[t] = [task[t] EXCEPT !.at = "mark"]
    BY <1>2 DEF Goto, TypeOK
  <2>5. task'[t].at = "mark" /\ task'[t].charge = task[t].charge
    BY <2>1, <2>4 DEF Running
  <2>6. \A u \in Tasks : u # t => task'[u] = task[u]
    BY <1>2 DEF Goto, TypeOK
  <2>7. /\ UNCHANGED <<payments, taken>>
        /\ returned' = returned \cup {task[t].charge}
    BY <1>2 DEF rows
  <2>8. HoldsCharge'
    BY <2>2, <2>5, <2>6, <2>7 DEF LedgerInv, HoldsCharge, Busy, Held
  <2>9. OwnCharges'
    BY <2>5, <2>6 DEF LedgerInv, OwnCharges, Busy, Held
  <2>10. LedgerIsTrue'
    BY <2>2, <2>7 DEF LedgerInv, LedgerIsTrue
  <2>. QED  BY <2>3, <2>8, <2>9, <2>10 DEF LedgerInv
<1>3. CASE /\ At(t, "refund") /\ UNCHANGED returned /\ Finish(t)
           /\ UNCHANGED <<now, sub, rows, taken, history>>
  <2>1. TypeOK' /\ UsesLeft'
    BY <1>3, FinishType DEF TypeOK, rows, history
  <2>2. LedgerInv'
    BY <1>3, FinishLedger DEF rows, provider
  <2>. QED  BY <2>1, <2>2
<1>4. CASE /\ At(t, "mark") /\ Finish(t)
           /\ payments' = [payments EXCEPT ![task[t].charge] = "REFUNDED"]
           /\ UNCHANGED <<now, sub, failed, provider, history>>
  <2>1. TypeOK' /\ UsesLeft'
    BY <1>4, FinishType DEF TypeOK, provider, history
  <2>2. task[t].charge \in Charges /\ payments[task[t].charge] # "NONE" /\ task[t].charge \in returned
    BY <1>4 DEF At, LedgerInv, HoldsCharge
  <2>3. /\ \A c \in Charges : payments'[c] = IF c = task[t].charge THEN "REFUNDED" ELSE payments[c]
        /\ UNCHANGED <<taken, returned>>
    BY <1>4, <2>2 DEF TypeOK, provider
  <2>4. task'[t] = Idle /\ \A u \in Tasks : u # t => task'[u] = task[u]
    BY <1>4 DEF Finish, TypeOK
  <2>5. \A u \in Tasks : Busy(u) /\ task[u].at \in Held => task[u].charge \in Charges
    BY DEF LedgerInv, HoldsCharge, TypeOK
  <2>6. HoldsCharge'
    BY <2>2, <2>3, <2>4, <2>5 DEF LedgerInv, HoldsCharge, Busy, Held
  <2>7. OwnCharges'
    BY <2>4 DEF LedgerInv, OwnCharges, Busy
  <2>8. LedgerIsTrue'
    BY <2>2, <2>3 DEF LedgerInv, LedgerIsTrue
  <2>. QED  BY <2>1, <2>6, <2>7, <2>8 DEF LedgerInv
<1>. QED  BY <1>1, <1>2, <1>3, <1>4 DEF Refund

LEMMA VoidKept ==
  ASSUME TypeOK, UsesLeft, LedgerInv, NEW t \in Tasks, Void(t)
  PROVE  TypeOK' /\ UsesLeft' /\ LedgerInv'
<1>1. CASE /\ failed > 0 /\ failed' = failed - 1
           /\ Begin(t, "void", "drop", NoCharge)
           /\ UNCHANGED <<now, sub, payments, provider, history>>
  <2>1. failed' \in Nat
    BY <1>1 DEF TypeOK
  <2>2. TypeOK' /\ UsesLeft'
    BY <1>1, <2>1, PlacesLeft, BeginType DEF TypeOK, provider, history
  <2>3. LedgerInv'
    BY <1>1, PlainPlaces, BeginLedger
  <2>. QED  BY <2>2, <2>3
<1>2. CASE /\ \E c \in Charges :
                /\ payments[c] = "REFUNDED"
                /\ payments' = [payments EXCEPT ![c] = "CANCELED"]
                /\ Begin(t, "void", "drop", c)
           /\ UNCHANGED <<now, sub, failed, provider, history>>
  <2>1. PICK c \in Charges :
          /\ payments[c] = "REFUNDED"
          /\ payments' = [payments EXCEPT ![c] = "CANCELED"]
          /\ Begin(t, "void", "drop", c)
    BY <1>2
  <2>2. TypeOK' /\ UsesLeft'
    BY <1>2, <2>1, PlacesLeft, BeginType DEF TypeOK, provider, history
  <2>3. /\ \A d \in Charges : payments'[d] = IF d = c THEN "CANCELED" ELSE payments[d]
        /\ UNCHANGED <<taken, returned>>
    BY <1>2, <2>1 DEF TypeOK, provider
  <2>4. task'[t].at = "drop" /\ \A u \in Tasks : u # t => task'[u] = task[u]
    BY <2>1 DEF Begin, TypeOK
  <2>5. \A u \in Tasks : Busy(u) /\ task[u].at \in Held => task[u].charge \in Charges
    BY DEF LedgerInv, HoldsCharge, TypeOK
  <2>6. HoldsCharge'
    BY <2>1, <2>3, <2>4, <2>5 DEF LedgerInv, HoldsCharge, Busy, Held
  <2>7. OwnCharges'
    BY <2>4 DEF LedgerInv, OwnCharges, Busy, Held
  <2>8. LedgerIsTrue'
    BY <2>1, <2>3 DEF LedgerInv, LedgerIsTrue
  <2>. QED  BY <2>2, <2>6, <2>7, <2>8 DEF LedgerInv
<1>3. CASE /\ At(t, "drop") /\ Finish(t)
           /\ sub' = [sub EXCEPT !.status = "CANCELED"]
           /\ UNCHANGED <<now, rows, provider, history>>
  <2>1. Busy(t) /\ sub' \in Subscription
    BY <1>3, Constants DEF At, TypeOK, Subscription
  <2>2. LedgerInv'
    BY <1>3, FinishLedger DEF rows
  <2>. QED  BY <1>3, <2>1, <2>2, LaterTypes
<1>. QED  BY <1>1, <1>2, <1>3 DEF Void

LEMMA ThrowKept ==
  ASSUME TypeOK, UsesLeft, LedgerInv, NEW t \in Tasks, StatementThrows(t) \/ Crash(t)
  PROVE  TypeOK' /\ UsesLeft' /\ LedgerInv'
<1>1. Busy(t) /\ UNCHANGED <<now, sub, rows, provider, history>>
  BY DEF StatementThrows, Crash
<1>2. Goto(t, "refused") \/ GiveUp(t) \/ Finish(t)
  BY DEF StatementThrows, Crash
<1>3. task' \in [Tasks -> TaskState] /\ UsesLeft'
  BY <1>1, <1>2, PlacesLeft, GotoType, GiveUpType, FinishType
<1>4. LedgerInv'
  BY <1>1, <1>2, PlainPlaces, GotoLedger, GiveUpLedger, FinishLedger DEF rows
<1>. QED  BY <1>1, <1>3, <1>4 DEF TypeOK, rows, provider, history

LEMMA IdleKept ==
  ASSUME TypeOK, UsesLeft, LedgerInv, Tick \/ UNCHANGED vars \/ \E t \in Tasks : Cleanup(t)
  PROVE  TypeOK' /\ UsesLeft' /\ LedgerInv'
<1>1. UNCHANGED <<payments, failed, provider, task, history>>
  BY DEF Tick, vars, Cleanup, rows
<1>2. now' \in 0 .. MaxDay
  BY BillingAssumption DEF Tick, vars, Cleanup, TypeOK
<1>3. sub' \in Subscription
  BY Constants DEF Tick, vars, Cleanup, TypeOK, Subscription
<1>4. UsesLeft'
  BY <1>1 DEF UsesLeft, At, Busy
<1>5. LedgerInv'
  BY <1>1 DEF LedgerInv, HoldsCharge, OwnCharges, LedgerIsTrue, Busy, provider
<1>. QED  BY <1>1, <1>2, <1>3, <1>4, <1>5 DEF TypeOK, provider, history

-----------------------------------------------------------------------------
(* Every step *)

Inv == TypeOK /\ UsesLeft /\ LedgerInv

LEMMA InvInit == Init => Inv
<1>. SUFFICES ASSUME Init PROVE LedgerInv
  BY InitType DEF Inv
<1>. QED  BY DEF Init, LedgerInv, HoldsCharge, OwnCharges, LedgerIsTrue, Busy

LEMMA InvStep == Inv /\ [Next]_vars => Inv'
<1>. SUFFICES ASSUME TypeOK, UsesLeft, LedgerInv, [Next]_vars
              PROVE  TypeOK' /\ UsesLeft' /\ LedgerInv'
  BY DEF Inv
<1>1. CASE Tick \/ UNCHANGED vars
  BY <1>1, IdleKept
<1>2. ASSUME NEW t \in Tasks, Scheduler(t) PROVE TypeOK' /\ UsesLeft' /\ LedgerInv'
  <2>1. CASE ListTrials(t) \/ ListDue(t) \/ ListFailed(t)
    BY <2>1, ListTypes, ListLedger
  <2>2. CASE Cleanup(t)
    BY <2>2, IdleKept
  <2>3. CASE Settle(t) \/ Fail(t)
    BY <2>3, OutcomeTypes, OtherPaymentLedger
  <2>. QED  BY <1>2, <2>1, <2>2, <2>3 DEF Scheduler
<1>3. ASSUME NEW t \in Tasks, Payment(t) PROVE TypeOK' /\ UsesLeft' /\ LedgerInv'
  <2>1. CASE ReadDiscount(t) \/ Decrement(t)
    BY <2>1, DiscountTypes, DiscountLedger
  <2>2. CASE ChargeTaken(t)
    BY <2>2, ChargeTypes, TakenLedger
  <2>3. CASE AnswerLost(t)
    BY <2>3, ChargeTypes, LostLedger
  <2>4. CASE ChargeRefused(t)
    BY <2>4, ChargeTypes, OtherPaymentLedger
  <2>5. CASE RecordPaid(t)
    BY <2>5, RecordTypes, PaidLedger
  <2>6. CASE Activate(t)
    BY <2>6, RecordTypes, ActivateLedger
  <2>7. CASE RecordFailed(t)
    BY <2>7, RecordTypes, OtherPaymentLedger
  <2>. QED  BY <1>3, <2>1, <2>2, <2>3, <2>4, <2>5, <2>6, <2>7 DEF Payment
<1>4. ASSUME NEW t \in Tasks, Request(t) PROVE TypeOK' /\ UsesLeft' /\ LedgerInv'
  <2>1. CASE Expire(t) \/ RenewAll(t) \/ Subscribe(t) \/ Pay(t)
    BY <2>1, TimeRequestTypes, RequestLedger DEF Plainly
  <2>2. CASE Cancel(t) \/ Reactivate(t) \/ Upgrade(t) \/ AddDiscount(t)
    BY <2>2, CancelTypes, RequestLedger DEF Plainly
  <2>3. CASE Convert(t) \/ Change(t) \/ Settings(t)
    BY <2>3, ConvertTypes, ChangeTypes, SettingsTypes, RequestLedger DEF Plainly
  <2>4. CASE Refund(t)
    BY <2>4, RefundKept
  <2>5. CASE Void(t)
    BY <2>5, VoidKept
  <2>. QED  BY <1>4, <2>1, <2>2, <2>3, <2>4, <2>5 DEF Request
<1>5. ASSUME NEW t \in Tasks, StatementThrows(t) \/ Crash(t)
      PROVE  TypeOK' /\ UsesLeft' /\ LedgerInv'
  BY <1>5, ThrowKept
<1>. QED  BY <1>1, <1>2, <1>3, <1>4, <1>5 DEF Next

LEMMA InvAlways == Spec => []Inv
BY InvInit, InvStep, PTL DEF Spec

(***************************************************************************)
(* Types: whatever tasks interleave, uses of a discount never go below     *)
(* zero and every charge that is written belongs to a row.                 *)
(***************************************************************************)
THEOREM BillingTypeCorrect == Spec => []TypeOK
<1>1. Inv => TypeOK
  BY DEF Inv
<1>. QED  BY <1>1, InvAlways, PTL

(***************************************************************************)
(* The ledger never claims what did not happen, through every failing      *)
(* statement, lost answer and crash.                                       *)
(***************************************************************************)
THEOREM LedgerStaysTrue == Spec => []LedgerIsTrue
<1>1. Inv => LedgerIsTrue
  BY DEF Inv, LedgerInv
<1>. QED  BY <1>1, InvAlways, PTL

(***************************************************************************)
(* A task that is about to extend the subscription holds a charge of its   *)
(* own that was taken and recorded, however many instances run.            *)
(***************************************************************************)
THEOREM ExtensionsWerePaid == Spec => []PeriodsWerePaid
<1>1. Inv => PeriodsWerePaid
  BY DEF Inv, LedgerInv, HoldsCharge, OwnCharges, Held, PeriodsWerePaid, At
<1>. QED  BY <1>1, InvAlways, PTL

-----------------------------------------------------------------------------
(* Cancelled subscriptions *)

PayingPlaces == {"discount", "decrement", "charge", "record", "activate", "refused", "settle",
           "fail", "stamp"}
Reviving == {"expire", "renewAll", "convert", "upgrade"}
OwnerOps == {"subscribe", "pay", "change"}

\* A task that may write a status has read a row that was not cancelled, unless
\* the owner pays.
AliveTask(x) ==
  x.at \in PayingPlaces \/ x.op \in Reviving => x.op = "pay" \/ x.seen.status # "CANCELED"
Alive == \A t \in Tasks : Busy(t) => AliveTask(task[t])

LEMMA AliveKept ==
  ASSUME TypeOK, Alive, NEW t \in Tasks, NEW x, x = Idle \/ AliveTask(x),
         task' = [task EXCEPT ![t] = x]
  PROVE  Alive'
<1>1. task'[t] = x /\ \A u \in Tasks : u # t => task'[u] = task[u]
  BY DEF TypeOK
<1>2. ASSUME NEW u \in Tasks, Busy(u)' PROVE AliveTask(task'[u])
  <2>1. CASE u = t
    BY <1>1, <1>2, <2>1 DEF Busy
  <2>2. CASE u # t
    BY <1>1, <1>2, <2>2 DEF Busy, Alive
  <2>. QED  BY <2>1, <2>2
<1>. QED  BY <1>2 DEF Alive, AliveTask

LEMMA BeginAlive ==
  ASSUME TypeOK, Alive, NEW t \in Tasks, NEW op, NEW place, NEW c, Begin(t, op, place, c),
         place \in PayingPlaces \/ op \in Reviving => sub.status # "CANCELED"
  PROVE  Alive'
<1>. DEFINE x == [op |-> op, at |-> place, seen |-> sub, status |-> sub.status,
                  day |-> now, charge |-> c]
<1>1. AliveTask(x)
  BY DEF AliveTask
<1>2. task' = [task EXCEPT ![t] = x]
  BY DEF Begin
<1>. HIDE DEF x
<1>. QED  BY <1>1, <1>2, AliveKept

LEMMA GotoAlive ==
  ASSUME TypeOK, Alive, NEW t \in Tasks, Busy(t), NEW place, Goto(t, place),
         place \in PayingPlaces =>
           task[t].at \in PayingPlaces \/ task[t].op \in Reviving \cup {"pay"}
  PROVE  Alive'
<1>. DEFINE x == [task[t] EXCEPT !.at = place]
<1>1. task[t] \in Running /\ AliveTask(task[t])
  BY RunningTask DEF Alive
<1>2. x.at = place /\ x.op = task[t].op /\ x.seen = task[t].seen
  BY <1>1 DEF Running
<1>3. task' = [task EXCEPT ![t] = x]
  BY DEF Goto
<1>. HIDE DEF x
<1>4. AliveTask(x)
  BY <1>1, <1>2 DEF AliveTask
<1>. QED  BY <1>3, <1>4, AliveKept

LEMMA FinishAlive ==
  ASSUME TypeOK, Alive, NEW t \in Tasks, Finish(t)
  PROVE  Alive'
BY AliveKept DEF Finish

LEMMA GiveUpAlive ==
  ASSUME TypeOK, Alive, NEW t \in Tasks, Busy(t), task[t].at \in PayingPlaces, GiveUp(t)
  PROVE  Alive'
BY GotoAlive, FinishAlive DEF GiveUp

LEMMA SchedulerAlive ==
  ASSUME TypeOK, Alive, NEW t \in Tasks, Scheduler(t)
  PROVE  Alive'
<1>1. CASE ListTrials(t)
  BY <1>1, BeginAlive DEF ListTrials
<1>2. CASE ListDue(t)
  BY <1>2, BeginAlive DEF ListDue
<1>3. CASE ListFailed(t)
  BY <1>3, BeginAlive DEF ListFailed
<1>4. CASE Cleanup(t)
  BY <1>4 DEF Cleanup, Alive, Busy
<1>5. CASE Settle(t) \/ Fail(t)
  BY <1>5, FinishAlive DEF Settle, Fail
<1>. QED  BY <1>1, <1>2, <1>3, <1>4, <1>5 DEF Scheduler

LEMMA PaymentAlive ==
  ASSUME TypeOK, Alive, NEW t \in Tasks, Payment(t)
  PROVE  Alive'
<1>1. Busy(t) /\ task[t].at \in PayingPlaces /\ task[t] \in Running
  BY RunningTask
     DEF Payment, ReadDiscount, Decrement, ChargeTaken, ChargeRefused, AnswerLost, Take,
         RecordPaid, Activate, RecordFailed, At, PayingPlaces
<1>2. CASE \E place \in PayingPlaces : Goto(t, place)
  BY <1>1, <1>2, GotoAlive
<1>3. CASE ReadDiscount(t)
  <2>1. CASE task' = [task EXCEPT ![t].at = "decrement", ![t].status = sub.status,
                                 ![t].seen.uses = sub.uses]
    <3>. DEFINE x == [task[t] EXCEPT !.at = "decrement", !.status = sub.status,
                                    !.seen.uses = sub.uses]
    <3>1. task' = [task EXCEPT ![t] = x]
      BY <1>1, <2>1 DEF TypeOK, Running
    <3>2. x.op = task[t].op /\ x.seen.status = task[t].seen.status
      BY <1>1 DEF Running, Subscription
    <3>. HIDE DEF x
    <3>3. AliveTask(x)
      BY <1>1, <3>2 DEF Alive, AliveTask
    <3>. QED  BY <3>1, <3>3, AliveKept
  <2>. QED  BY <1>2, <1>3, <2>1 DEF ReadDiscount, PayingPlaces
<1>4. CASE ChargeTaken(t)
  <2>1. PICK c \in Charges : task' = [task EXCEPT ![t].at = "record", ![t].charge = c]
    BY <1>4 DEF ChargeTaken
  <2>. DEFINE x == [task[t] EXCEPT !.at = "record", !.charge = c]
  <2>2. task' = [task EXCEPT ![t] = x]
    BY <1>1, <2>1 DEF TypeOK, Running
  <2>3. x.op = task[t].op /\ x.seen = task[t].seen
    BY <1>1 DEF Running
  <2>. HIDE DEF x
  <2>4. AliveTask(x)
    BY <1>1, <2>3 DEF Alive, AliveTask
  <2>. QED  BY <2>2, <2>4, AliveKept
<1>5. CASE Decrement(t) \/ ChargeRefused(t) \/ AnswerLost(t) \/ RecordPaid(t)
  BY <1>2, <1>5 DEF Decrement, ChargeRefused, AnswerLost, RecordPaid, PayingPlaces
<1>6. CASE Activate(t)
  BY <1>2, <1>6, FinishAlive DEF Activate, PayingPlaces
<1>7. CASE RecordFailed(t)
  BY <1>1, <1>7, GiveUpAlive DEF RecordFailed
<1>. QED  BY <1>3, <1>4, <1>5, <1>6, <1>7 DEF Payment

LEMMA ReadsAlive ==
  ASSUME TypeOK, Alive, NEW t \in Tasks, NEW op, Reads(t, op),
         op \in Reviving => sub.status # "CANCELED"
  PROVE  Alive'
<1>1. Begin(t, op, "write", NoCharge) /\ "write" \notin PayingPlaces
  BY DEF Reads, PayingPlaces
<1>. QED  BY <1>1, BeginAlive

LEMMA WritesAlive ==
  ASSUME TypeOK, Alive, NEW t \in Tasks, NEW op, Writes(t, op), NEW place,
         Goto(t, place) \/ Finish(t), place \in PayingPlaces => op \in Reviving \cup {"pay"}
  PROVE  Alive'
<1>1. Busy(t) /\ task[t].op = op
  BY DEF Writes, At, Doing
<1>. QED  BY <1>1, GotoAlive, FinishAlive

LEMMA EndsAlive ==
  ASSUME TypeOK, Alive, NEW t \in Tasks, NEW op, Ends(t, op)
  PROVE  Alive'
BY FinishAlive DEF Ends

LEMMA RequestAlive ==
  ASSUME TypeOK, Alive, NEW t \in Tasks, Request(t)
  PROVE  Alive'
<1>1. CASE Finish(t)
  BY <1>1, FinishAlive
<1>2. CASE Expire(t)
  <2>1. Finish(t) \/ (Reads(t, "expire") /\ sub.status # "CANCELED")
    BY <1>2 DEF Expire, Ends, Live
  <2>. QED  BY <1>1, <2>1, ReadsAlive
<1>3. CASE RenewAll(t)
  <2>1. Finish(t) \/ (Reads(t, "renewAll") /\ sub.status # "CANCELED")
    BY <1>3 DEF RenewAll, Ends, Live
  <2>. QED  BY <1>1, <2>1, ReadsAlive
<1>4. CASE Subscribe(t)
  <2>1. Finish(t) \/ Reads(t, "subscribe")
    BY <1>4 DEF Subscribe, Ends
  <2>. QED  BY <1>1, <2>1, ReadsAlive DEF Reviving
<1>5. CASE Pay(t)
  <2>1. Reads(t, "pay") \/ (Writes(t, "pay") /\ Goto(t, "charge"))
    BY <1>5 DEF Pay
  <2>. QED  BY <2>1, ReadsAlive, WritesAlive DEF Reviving
<1>6. CASE Cancel(t) \/ Reactivate(t) \/ AddDiscount(t) \/ Settings(t)
  <2>1. Finish(t) \/ \E op \in {"cancel", "cancelNow", "reactivate", "discount", "settings"} :
                        Reads(t, op)
    BY <1>6 DEF Cancel, Reactivate, AddDiscount, Settings, Ends
  <2>. QED  BY <1>1, <2>1, ReadsAlive DEF Reviving
<1>7. CASE Convert(t)
  <2>1. \/ Finish(t)
        \/ Reads(t, "convert") /\ sub.status # "CANCELED"
        \/ Writes(t, "convert") /\ Goto(t, "stamp")
    BY <1>7 DEF Convert
  <2>2. "convert" \in Reviving
    BY DEF Reviving
  <2>. QED  BY <1>1, <2>1, <2>2, ReadsAlive, WritesAlive
<1>8. CASE Upgrade(t)
  <2>1. Finish(t) \/ (Reads(t, "upgrade") /\ sub.status # "CANCELED")
    BY <1>8 DEF Upgrade, Ends, Live
  <2>. QED  BY <1>1, <2>1, ReadsAlive
<1>9. CASE Change(t)
  <2>1. \/ Finish(t)
        \/ Reads(t, "change")
        \/ Writes(t, "change") /\ Goto(t, "card")
    BY <1>9 DEF Change
  <2>2. "change" \notin Reviving /\ "card" \notin PayingPlaces
    BY DEF Reviving, PayingPlaces
  <2>. QED  BY <1>1, <2>1, <2>2, ReadsAlive, WritesAlive
<1>10. CASE Refund(t)
  <2>1. \/ Finish(t)
        \/ \E c \in Charges : Begin(t, "refund", "refund", c)
        \/ At(t, "refund") /\ Goto(t, "mark")
    BY <1>10 DEF Refund
  <2>2. "refund" \notin PayingPlaces \cup Reviving /\ "mark" \notin PayingPlaces
    BY DEF PayingPlaces, Reviving
  <2>. QED  BY <1>1, <2>1, <2>2, BeginAlive, GotoAlive DEF At
<1>11. CASE Void(t)
  <2>1. Finish(t) \/ \E c : Begin(t, "void", "drop", c)
    BY <1>11 DEF Void
  <2>2. "void" \notin Reviving /\ "drop" \notin PayingPlaces
    BY DEF PayingPlaces, Reviving
  <2>. QED  BY <1>1, <2>1, <2>2, BeginAlive
<1>. QED  BY <1>2, <1>3, <1>4, <1>5, <1>6, <1>7, <1>8, <1>9, <1>10, <1>11 DEF Request

LEMMA ThrowAlive ==
  ASSUME TypeOK, Alive, NEW t \in Tasks, StatementThrows(t) \/ Crash(t)
  PROVE  Alive'
<1>1. Busy(t)
  BY DEF StatementThrows, Crash
<1>2. \/ Finish(t)
      \/ task[t].at \in PayingPlaces /\ (Goto(t, "refused") \/ GiveUp(t))
  BY DEF StatementThrows, Crash, At, PayingPlaces
<1>. QED  BY <1>1, <1>2, FinishAlive, GotoAlive, GiveUpAlive

LEMMA AliveInit == Init => Alive
BY DEF Init, Alive, Busy

LEMMA AliveStep == Inv /\ Alive /\ [Next]_vars => Alive'
<1>. SUFFICES ASSUME TypeOK, Alive, [Next]_vars PROVE Alive'
  BY DEF Inv
<1>1. CASE Tick \/ UNCHANGED vars
  BY <1>1 DEF Tick, vars, Alive, Busy
<1>2. CASE \E t \in Tasks : Scheduler(t)
  BY <1>2, SchedulerAlive
<1>3. CASE \E t \in Tasks : Payment(t)
  BY <1>3, PaymentAlive
<1>4. CASE \E t \in Tasks : Request(t)
  BY <1>4, RequestAlive
<1>5. CASE \E t \in Tasks : StatementThrows(t) \/ Crash(t)
  BY <1>5, ThrowAlive
<1>. QED  BY <1>1, <1>2, <1>3, <1>4, <1>5 DEF Next

\* What revives a cancelled row, and the step that does it.
Revived == sub.status = "CANCELED" /\ sub'.status # "CANCELED"
Reviver(t) ==
  /\ task'[t] # task[t]
  /\ task[t].op \in OwnerOps \/ task[t].seen.status # "CANCELED"

LEMMA FinishMoves ==
  ASSUME TypeOK, NEW t \in Tasks, Busy(t), Finish(t)
  PROVE  task'[t] # task[t]
BY DEF TypeOK, Busy, Finish

LEMMA GotoMoves ==
  ASSUME TypeOK, NEW t \in Tasks, Busy(t), NEW place, Goto(t, place), place # task[t].at
  PROVE  task'[t] # task[t]
<1>1. task'[t] = [task[t] EXCEPT !.at = place]
  BY DEF TypeOK, Goto
<1>. QED  BY <1>1, RunningTask DEF Running

LEMMA PayingRevives ==
  ASSUME TypeOK, Alive, Revived, NEW t \in Tasks, Busy(t), task[t].at \in PayingPlaces,
         task'[t] # task[t]
  PROVE  Reviver(t)
BY DEF Alive, AliveTask, Reviver, OwnerOps

LEMMA WriteRevives ==
  ASSUME TypeOK, Alive, Revived, NEW t \in Tasks, Busy(t),
         task[t].op \in Reviving \cup OwnerOps, task'[t] # task[t]
  PROVE  Reviver(t)
BY DEF Alive, AliveTask, Reviver, OwnerOps

\* Writing another field leaves a cancelled row cancelled.
LEMMA OtherSteps ==
  ASSUME TypeOK, NEW t \in Tasks,
         \/ ListTrials(t) \/ ListDue(t) \/ ListFailed(t) \/ Cleanup(t)
         \/ ReadDiscount(t) \/ ChargeTaken(t) \/ ChargeRefused(t) \/ AnswerLost(t)
         \/ RecordPaid(t) \/ RecordFailed(t)
         \/ Cancel(t) \/ Reactivate(t) \/ Settings(t) \/ AddDiscount(t)
         \/ Refund(t) \/ Void(t) \/ StatementThrows(t) \/ Crash(t)
  PROVE  ~Revived
<1>1. CASE Cleanup(t)
  BY <1>1 DEF Cleanup, Revived
<1>2. CASE \/ ListTrials(t) \/ ListDue(t) \/ ListFailed(t)
           \/ ReadDiscount(t) \/ ChargeTaken(t) \/ ChargeRefused(t) \/ AnswerLost(t)
           \/ RecordPaid(t) \/ RecordFailed(t)
           \/ Refund(t) \/ StatementThrows(t) \/ Crash(t)
  <2>1. sub' = sub
    BY <1>2 DEF ListTrials, ListDue, ListFailed, ReadDiscount, ChargeTaken, ChargeRefused,
                AnswerLost, Take, RecordPaid, RecordFailed, Refund, StatementThrows, Crash
  <2>. QED  BY <2>1 DEF Revived
<1>3. CASE Cancel(t) \/ Reactivate(t) \/ AddDiscount(t) \/ Void(t)
  BY <1>3 DEF Cancel, Reactivate, AddDiscount, Void, Reads, Revived, TypeOK, Subscription
<1>4. CASE Settings(t)
  BY <1>4 DEF Settings, Reads, Revived, TypeOK, Subscription
<1>. QED  BY <1>1, <1>2, <1>3, <1>4

LEMMA PaymentRevives ==
  ASSUME TypeOK, Alive, Revived, NEW t \in Tasks,
         Decrement(t) \/ Activate(t) \/ Settle(t) \/ Fail(t)
  PROVE  Reviver(t)
<1>1. Busy(t) /\ task[t].at \in {"decrement", "activate", "settle", "fail"}
  BY DEF Decrement, Activate, Settle, Fail, At
<1>2. Finish(t) \/ (Goto(t, "charge") /\ task[t].at # "charge")
                \/ (Goto(t, "settle") /\ task[t].at # "settle")
  BY DEF Decrement, Activate, Settle, Fail, At
<1>3. task'[t] # task[t]
  BY <1>1, <1>2, FinishMoves, GotoMoves
<1>. QED  BY <1>1, <1>3, PayingRevives DEF PayingPlaces

\* The steps of a request that write a status: its only write, its first of
\* two, and the second write of a conversion.
LEMMA RequestRevives ==
  ASSUME TypeOK, Alive, Revived, NEW t \in Tasks,
         \/ Expire(t) \/ RenewAll(t) \/ Subscribe(t) \/ Pay(t)
         \/ Convert(t) \/ Upgrade(t) \/ Change(t)
  PROVE  Reviver(t)
<1>1. ASSUME NEW op, Reads(t, op) PROVE FALSE
  BY <1>1 DEF Reads, Revived
<1>2. ASSUME NEW op \in Reviving \cup OwnerOps, Writes(t, op),
             \/ Finish(t) \/ Goto(t, "charge") \/ Goto(t, "stamp") \/ Goto(t, "card")
      PROVE  Reviver(t)
  <2>1. Busy(t) /\ task[t].at = "write" /\ task[t].op = op
    BY <1>2 DEF Writes, At, Doing
  <2>2. task'[t] # task[t]
    BY <1>2, <2>1, FinishMoves, GotoMoves
  <2>. QED  BY <2>1, <2>2, WriteRevives
<1>3. CASE Expire(t)
  <2>1. Reads(t, "expire") \/ (Writes(t, "expire") /\ Finish(t))
    BY <1>3 DEF Expire, Ends
  <2>. QED  BY <1>1, <1>2, <2>1 DEF Reviving
<1>4. CASE RenewAll(t)
  <2>1. Reads(t, "renewAll") \/ (Writes(t, "renewAll") /\ Finish(t))
    BY <1>4 DEF RenewAll, Ends
  <2>. QED  BY <1>1, <1>2, <2>1 DEF Reviving
<1>5. CASE Subscribe(t)
  <2>1. Reads(t, "subscribe") \/ (Writes(t, "subscribe") /\ Finish(t))
    BY <1>5 DEF Subscribe, Ends
  <2>. QED  BY <1>1, <1>2, <2>1 DEF OwnerOps
<1>6. CASE Pay(t)
  <2>1. Reads(t, "pay") \/ (Writes(t, "pay") /\ Goto(t, "charge"))
    BY <1>6 DEF Pay
  <2>. QED  BY <1>1, <1>2, <2>1 DEF OwnerOps
<1>7. CASE Upgrade(t)
  <2>1. Reads(t, "upgrade") \/ (Writes(t, "upgrade") /\ Finish(t))
    BY <1>7 DEF Upgrade, Ends
  <2>. QED  BY <1>1, <1>2, <2>1 DEF Reviving
<1>8. CASE Convert(t)
  <2>1. \/ Reads(t, "convert")
        \/ Writes(t, "convert") /\ (Finish(t) \/ Goto(t, "stamp"))
        \/ At(t, "stamp") /\ Finish(t)
    BY <1>8 DEF Convert
  <2>2. CASE At(t, "stamp") /\ Finish(t)
    BY <2>2, FinishMoves, PayingRevives DEF At, PayingPlaces
  <2>. QED  BY <1>1, <1>2, <2>1, <2>2 DEF Reviving
<1>9. CASE Change(t)
  <2>1. \/ Reads(t, "change")
        \/ Writes(t, "change") /\ Goto(t, "card")
        \/ sub' = [sub EXCEPT !.card = TRUE]
    BY <1>9 DEF Change
  <2>2. ASSUME sub' = [sub EXCEPT !.card = TRUE] PROVE FALSE
    BY <2>2 DEF Revived, TypeOK, Subscription
  <2>. QED  BY <1>1, <1>2, <2>1, <2>2 DEF OwnerOps
<1>. QED  BY <1>3, <1>4, <1>5, <1>6, <1>7, <1>8, <1>9

LEMMA OnlyRevivers ==
  TypeOK /\ Alive /\ [Next]_vars =>
    [Revived => \E t \in Tasks : Reviver(t)]_vars
<1>. SUFFICES ASSUME TypeOK, Alive, Next, Revived PROVE \E t \in Tasks : Reviver(t)
  OBVIOUS
<1>1. CASE Tick
  BY <1>1 DEF Tick, Revived
<1>2. ASSUME NEW t \in Tasks,
             Scheduler(t) \/ Payment(t) \/ Request(t) \/ StatementThrows(t) \/ Crash(t)
      PROVE  Reviver(t)
  BY <1>2, OtherSteps, PaymentRevives, RequestRevives DEF Scheduler, Payment, Request
<1>. QED  BY <1>1, <1>2 DEF Next

\* THEOREM A cancelled subscription comes back only by its owner's request or by
\* a task that read the row before it was cancelled, however many executions
\* interleave and whatever fails: Alive, that every task which may write a
\* status has read a row that was not cancelled, is the invariant behind it.
THEOREM CanceledRowsStayCanceled == Spec => CanceledStaysCanceled
<1>1. Init /\ [][Next]_vars /\ []Inv => []Alive
  BY AliveInit, AliveStep, PTL
<1>2. TypeOK /\ Alive /\ [Next]_vars =>
        [Revived => \E t \in Tasks : Reviver(t)]_vars
  BY OnlyRevivers
<1>3. Inv => TypeOK
  BY DEF Inv
<1>4. Spec => [][Revived => \E t \in Tasks : Reviver(t)]_vars
  BY <1>1, <1>2, <1>3, InvAlways, PTL DEF Spec
<1>. QED  BY <1>4 DEF CanceledStaysCanceled, Revived, Reviver, OwnerOps

-----------------------------------------------------------------------------
(* Renewals that fail in a row *)

\* One execution at a time: a single instance whose requests do not overlap.
OneTask == \A t, u \in Tasks : t = u

\* Where automatic renewal is on, the row has counted every failure since the
\* owner last agreed; a renewal under way has read the row as it is.
Counted ==
  /\ tries <= 3
  /\ sub.auto => tries <= 2 /\ tries <= sub.fails
  /\ \A t \in Tasks : Doing(t, "renewal") =>
       sub.auto /\ task[t].seen.auto = sub.auto /\ task[t].seen.fails = sub.fails

\* A step that counts nothing, and one that leaves a renewal what it has read.
SameCount == sub'.auto = sub.auto /\ sub'.fails = sub.fails /\ tries' = tries
Carries(t) ==
  Doing(t, "renewal")' =>
    /\ Doing(t, "renewal")
    /\ task'[t].seen.auto = task[t].seen.auto /\ task'[t].seen.fails = task[t].seen.fails

LEMMA CountKept ==
  ASSUME OneTask, Counted, NEW t \in Tasks, SameCount, Carries(t)
  PROVE  Counted'
<1>1. \A u \in Tasks : u = t
  BY DEF OneTask
<1>. QED  BY <1>1 DEF Counted, SameCount, Carries

LEMMA BeginCarries ==
  ASSUME TypeOK, NEW t \in Tasks, NEW op, NEW place, NEW c, Begin(t, op, place, c),
         op # "renewal"
  PROVE  Carries(t)
<1>1. task'[t].op = op
  BY DEF Begin, TypeOK
<1>. QED  BY <1>1 DEF Carries, Doing

LEMMA GotoCarries ==
  ASSUME TypeOK, NEW t \in Tasks, Busy(t), NEW place, Goto(t, place)
  PROVE  Carries(t)
<1>1. task[t] \in Running
  BY RunningTask
<1>2. task'[t] = [task[t] EXCEPT !.at = place]
  BY DEF Goto, TypeOK
<1>3. task'[t].op = task[t].op /\ task'[t].seen = task[t].seen
  BY <1>1, <1>2 DEF Running
<1>. QED  BY <1>3 DEF Carries, Doing

LEMMA FinishCarries ==
  ASSUME TypeOK, NEW t \in Tasks, Finish(t)
  PROVE  Carries(t)
BY DEF Carries, Doing, Busy, Finish, TypeOK

LEMMA GiveUpCarries ==
  ASSUME TypeOK, NEW t \in Tasks, Busy(t), GiveUp(t)
  PROVE  Carries(t)
BY GotoCarries, FinishCarries DEF GiveUp

\* A row whose other fields are written keeps its failures.
LEMMA FieldsWritten ==
  ASSUME TypeOK,
         NEW status, NEW end, NEW trial, NEW atEnd, NEW card, NEW uses,
         sub' = [sub EXCEPT !.status = status, !.end = end, !.trial = trial, !.atEnd = atEnd,
                            !.card = card, !.uses = uses]
  PROVE  sub'.auto = sub.auto /\ sub'.fails = sub.fails
BY DEF TypeOK, Subscription

LEMMA ListedCounted ==
  ASSUME TypeOK, OneTask, Counted, NEW t \in Tasks, ListDue(t)
  PROVE  Counted'
<1>1. sub' = sub /\ tries' = tries /\ sub.auto
  BY DEF ListDue, history
<1>2. task'[t].seen = sub
  BY DEF ListDue, Begin, TypeOK
<1>3. \A u \in Tasks : u = t
  BY DEF OneTask
<1>. QED  BY <1>1, <1>2, <1>3 DEF Counted

\* The last of three failures turns automatic renewal off.
LEMMA FailedCounted ==
  ASSUME TypeOK, OneTask, Counted, NEW t \in Tasks, Fail(t)
  PROVE  Counted'
<1>1. /\ sub \in Subscription /\ tries \in Nat /\ ~Busy(t)' /\ Busy(t)
      /\ task[t].seen \in Subscription
  BY RunningTask DEF Fail, At, Finish, Busy, TypeOK
<1>2. \A u \in Tasks : ~Doing(u, "renewal")'
  BY <1>1 DEF OneTask, Doing
<1>3. CASE Doing(t, "renewal")
  <2>1. /\ sub.auto /\ task[t].seen.auto = sub.auto /\ task[t].seen.fails = sub.fails
        /\ tries <= 2 /\ tries <= sub.fails
    BY <1>3 DEF Counted
  <2>2. ~Doing(t, "trial")
    BY <1>3 DEF Doing
  <2>3. Unpaid(t) = [sub EXCEPT !.fails = OneMore(task[t].seen.fails),
                                !.auto = task[t].seen.auto /\ task[t].seen.fails < 2]
    BY <1>3, <2>2 DEF Unpaid
  <2>4. sub'.fails = OneMore(sub.fails) /\ sub'.auto = (sub.auto /\ sub.fails < 2)
    BY <1>1, <2>1, <2>3 DEF Fail, Subscription
  <2>5. tries' = tries + 1
    BY <1>3 DEF Fail
  <2>6. sub.fails \in Nat /\ (sub.fails < 2 => OneMore(sub.fails) = sub.fails + 1)
    BY <1>1, CapType DEF Subscription, OneMore
  <2>7. tries' <= 3
    BY <1>1, <2>1, <2>5
  <2>8. sub'.auto => tries' <= 2 /\ tries' <= sub'.fails
    <3>1. sub'.auto => sub.fails < 2
      BY <2>4, Zenon
    <3>2. sub.fails < 2 => tries' <= 2 /\ tries' <= OneMore(sub.fails)
      BY <1>1, <2>1, <2>5, <2>6
    <3>. QED  BY <2>4, <3>1, <3>2
  <2>. QED  BY <1>2, <2>7, <2>8 DEF Counted
<1>4. CASE ~Doing(t, "renewal")
  <2>1. tries' = tries
    BY <1>4 DEF Fail
  <2>2. Unpaid(t) \in {[sub EXCEPT !.status = "CANCELED"], [sub EXCEPT !.status = "UNPAID"]}
    BY <1>4 DEF Unpaid
  <2>3. sub'.auto = sub.auto /\ sub'.fails = sub.fails
    BY <1>1, <2>2 DEF Fail, Subscription
  <2>. QED  BY <1>2, <2>1, <2>3 DEF Counted
<1>. QED  BY <1>3, <1>4

LEMMA SettledCounted ==
  ASSUME TypeOK, OneTask, Counted, NEW t \in Tasks, Settle(t)
  PROVE  Counted'
<1>1. tries' = 0 /\ sub \in Subscription /\ ~Busy(t)'
  BY DEF Settle, Finish, Busy, TypeOK
<1>2. \A u \in Tasks : ~Doing(u, "renewal")'
  BY <1>1 DEF OneTask, Doing
<1>3. sub'.fails = 0
  <2>1. CASE Doing(t, "trial")
    <3>1. Paid(t) = [sub EXCEPT !.status = "ACTIVE", !.end = task[t].day + Interval,
                                !.trial = NoDay, !.fails = 0]
      BY <2>1 DEF Paid, Doing
    <3>. QED  BY <1>1, <3>1 DEF Settle, Subscription
  <2>2. CASE Doing(t, "renewal")
    <3>1. Paid(t) = [sub EXCEPT !.end = task[t].seen.end + Interval, !.fails = 0]
      BY <2>2 DEF Paid, Doing
    <3>. QED  BY <1>1, <3>1 DEF Settle, Subscription
  <2>3. CASE ~Doing(t, "trial") /\ ~Doing(t, "renewal")
    <3>1. Paid(t) = [sub EXCEPT !.status = "ACTIVE", !.fails = 0]
      BY <2>3 DEF Paid
    <3>. QED  BY <1>1, <3>1 DEF Settle, Subscription
  <2>. QED  BY <2>1, <2>2, <2>3
<1>. QED  BY <1>1, <1>2, <1>3 DEF Counted

LEMMA CleanupCounted ==
  ASSUME TypeOK, OneTask, Counted, NEW t \in Tasks, Cleanup(t)
  PROVE  Counted'
<1>1. sub' = [sub EXCEPT !.status = "CANCELED", !.auto = FALSE] /\ tries' = tries
      /\ task' = task /\ task[t] = Idle
  BY DEF Cleanup, history
<1>2. ~sub'.auto
  BY <1>1 DEF TypeOK, Subscription
<1>3. \A u \in Tasks : ~Doing(u, "renewal")'
  BY <1>1 DEF OneTask, Doing, Busy
<1>. QED  BY <1>1, <1>2, <1>3 DEF Counted

\* The owner who turns automatic renewal on again agrees to three more.
LEMMA SettingsCounted ==
  ASSUME TypeOK, OneTask, Counted, NEW t \in Tasks, Settings(t)
  PROVE  Counted'
<1>0. sub \in Subscription /\ tries \in Nat
  BY DEF TypeOK
<1>1. CASE Reads(t, "settings")
  <2>1. SameCount /\ Begin(t, "settings", "write", NoCharge)
    BY <1>1 DEF Reads, SameCount, history
  <2>. QED  BY <2>1, BeginCarries, CountKept
<1>2. CASE /\ Writes(t, "settings") /\ Finish(t) /\ UNCHANGED period
           /\ \E auto, card \in BOOLEAN :
                /\ auto => card \/ task[t].seen.card
                /\ sub' = [sub EXCEPT !.auto = auto, !.card = @ \/ card]
                /\ tries' = IF auto THEN 0 ELSE tries
  <2>1. PICK auto, card \in BOOLEAN :
          /\ sub' = [sub EXCEPT !.auto = auto, !.card = @ \/ card]
          /\ tries' = IF auto THEN 0 ELSE tries
    BY <1>2
  <2>2. sub'.auto = auto /\ sub'.fails = sub.fails /\ sub.fails \in Nat
    BY <1>0, <2>1, CapType DEF Subscription
  <2>3. \A u \in Tasks : ~Doing(u, "renewal")'
    BY <1>2 DEF OneTask, Doing, Busy, Finish, TypeOK
  <2>4. tries' <= 3 /\ (sub'.auto => tries' <= 2 /\ tries' <= sub'.fails)
    BY <1>0, <2>1, <2>2 DEF Counted
  <2>. QED  BY <2>3, <2>4 DEF Counted
<1>3. CASE Ends(t, "settings") /\ sub' = [sub EXCEPT !.card = TRUE]
  <2>1. SameCount /\ Finish(t)
    BY <1>0, <1>3 DEF Ends, SameCount, Subscription, history
  <2>. QED  BY <2>1, FinishCarries, CountKept
<1>. QED  BY <1>1, <1>2, <1>3 DEF Settings

LEMMA PaymentCounted ==
  ASSUME TypeOK, OneTask, Counted, NEW t \in Tasks, Payment(t)
  PROVE  Counted'
<1>1. Busy(t) /\ task[t] \in Running
  BY RunningTask
     DEF Payment, ReadDiscount, Decrement, ChargeTaken, ChargeRefused, AnswerLost, Take,
         RecordPaid, Activate, RecordFailed, At
<1>2. SameCount
  <2>1. tries' = tries
    BY DEF Payment, ReadDiscount, Decrement, ChargeTaken, ChargeRefused, AnswerLost, Take,
           RecordPaid, Activate, RecordFailed, history
  <2>2. CASE Decrement(t)
    <3>1. sub' = [sub EXCEPT !.status = task[t].status, !.uses = task[t].seen.uses - 1]
      BY <2>2 DEF Decrement
    <3>. QED  BY <2>1, <3>1 DEF SameCount, TypeOK, Subscription
  <2>3. CASE Activate(t)
    <3>1. sub' = [sub EXCEPT !.status = "ACTIVE"]
      BY <2>3 DEF Activate
    <3>. QED  BY <2>1, <3>1 DEF SameCount, TypeOK, Subscription
  <2>4. CASE ~Decrement(t) /\ ~Activate(t)
    <3>1. sub' = sub
      BY <2>4 DEF Payment, ReadDiscount, ChargeTaken, ChargeRefused, AnswerLost, Take,
                  RecordPaid, RecordFailed
    <3>. QED  BY <2>1, <3>1 DEF SameCount
  <2>. QED  BY <2>2, <2>3, <2>4
<1>3. Carries(t)
  <2>1. CASE ReadDiscount(t)
    <3>1. CASE task' = [task EXCEPT ![t].at = "decrement", ![t].status = sub.status,
                                   ![t].seen.uses = sub.uses]
      <4>1. task'[t] = [task[t] EXCEPT !.at = "decrement", !.status = sub.status,
                                       !.seen.uses = sub.uses]
        BY <1>1, <3>1 DEF TypeOK, Running
      <4>2. /\ task'[t].op = task[t].op
            /\ task'[t].seen.auto = task[t].seen.auto /\ task'[t].seen.fails = task[t].seen.fails
        BY <1>1, <4>1 DEF Running, Subscription
      <4>. QED  BY <1>1, <4>2 DEF Carries, Doing
    <3>. QED  BY <1>1, <2>1, <3>1, GotoCarries DEF ReadDiscount
  <2>2. CASE ChargeTaken(t)
    <3>1. PICK c \in Charges : task' = [task EXCEPT ![t].at = "record", ![t].charge = c]
      BY <2>2 DEF ChargeTaken
    <3>2. task'[t] = [task[t] EXCEPT !.at = "record", !.charge = c]
      BY <1>1, <3>1 DEF TypeOK, Running
    <3>3. task'[t].op = task[t].op /\ task'[t].seen = task[t].seen
      BY <1>1, <3>2 DEF Running
    <3>. QED  BY <1>1, <3>3 DEF Carries, Doing
  <2>3. CASE Decrement(t) \/ ChargeRefused(t) \/ AnswerLost(t) \/ RecordPaid(t)
             \/ Activate(t) \/ RecordFailed(t)
    <3>1. Finish(t) \/ GiveUp(t) \/ \E place \in Places : Goto(t, place)
      BY <2>3 DEF Decrement, ChargeRefused, AnswerLost, RecordPaid, Activate, RecordFailed,
                  Places
    <3>. QED  BY <1>1, <3>1, FinishCarries, GiveUpCarries, GotoCarries
  <2>. QED  BY <2>1, <2>2, <2>3 DEF Payment
<1>. QED  BY <1>2, <1>3, CountKept

LEMMA RequestCounted ==
  ASSUME TypeOK, OneTask, Counted, NEW t \in Tasks, Request(t), ~Settings(t)
  PROVE  Counted'
<1>. USE DEF history
<1>1. tries' = tries
  BY DEF Request, Expire, RenewAll, Subscribe, Pay, Cancel, Reactivate, Convert, Upgrade,
         Change, AddDiscount, Refund, Void, Reads, Ends
<1>2. sub'.auto = sub.auto /\ sub'.fails = sub.fails
  <2>1. sub \in Subscription
    BY DEF TypeOK
  <2>2. CASE sub' = sub
    BY <2>2
  <2>3. CASE Expire(t) \/ RenewAll(t) \/ Upgrade(t) \/ AddDiscount(t)
    BY <2>1, <2>2, <2>3 DEF Expire, RenewAll, Upgrade, AddDiscount, Reads, Subscription
  <2>4. CASE Subscribe(t)
    BY <2>1, <2>2, <2>4 DEF Subscribe, Reads, Subscription
  <2>5. CASE Pay(t) \/ Cancel(t) \/ Reactivate(t)
    BY <2>1, <2>2, <2>5 DEF Pay, Cancel, Reactivate, Reads, Subscription
  <2>6. CASE Convert(t)
    BY <2>1, <2>2, <2>6 DEF Convert, Reads, Subscription
  <2>7. CASE Change(t)
    BY <2>1, <2>2, <2>7 DEF Change, Reads, Subscription
  <2>8. CASE Refund(t)
    BY <2>2, <2>8 DEF Refund
  <2>9. CASE Void(t)
    BY <2>1, <2>2, <2>9 DEF Void, Subscription
  <2>. QED  BY <2>3, <2>4, <2>5, <2>6, <2>7, <2>8, <2>9 DEF Request
<1>3. \/ \E op \in AllOperations \ {"renewal"} : \E place, c : Begin(t, op, place, c)
      \/ Busy(t) /\ (Finish(t) \/ \E place : Goto(t, place))
  <2>1. ASSUME NEW op \in AllOperations \ {"renewal"}, Reads(t, op)
        PROVE  \E o \in AllOperations \ {"renewal"} : \E place, c : Begin(t, o, place, c)
    BY <2>1 DEF Reads
  <2>2. ASSUME NEW place, At(t, place)  PROVE Busy(t)
    BY <2>2 DEF At
  <2>3. ASSUME NEW op, Writes(t, op)  PROVE Busy(t)
    BY <2>3 DEF Writes, At
  <2>4. {"expire", "renewAll", "subscribe", "pay", "cancel", "cancelNow", "reactivate",
         "convert", "upgrade", "change", "discount", "refund", "void"}
          \subseteq AllOperations \ {"renewal"}
    BY DEF AllOperations
  <2>5. CASE Expire(t) \/ RenewAll(t) \/ Subscribe(t) \/ Upgrade(t) \/ AddDiscount(t)
    BY <2>1, <2>3, <2>4, <2>5 DEF Expire, RenewAll, Subscribe, Upgrade, AddDiscount, Ends
  <2>6. CASE Pay(t)
    BY <2>1, <2>3, <2>4, <2>6 DEF Pay
  <2>7. CASE Cancel(t) \/ Reactivate(t)
    BY <2>1, <2>3, <2>4, <2>7 DEF Cancel, Reactivate, Ends
  <2>8. CASE Convert(t) \/ Change(t)
    BY <2>1, <2>2, <2>3, <2>4, <2>8 DEF Convert, Change
  <2>9. CASE Refund(t) \/ Void(t)
    BY <2>2, <2>4, <2>9 DEF Refund, Void
  <2>. QED  BY <2>5, <2>6, <2>7, <2>8, <2>9 DEF Request
<1>4. Carries(t)
  BY <1>3, BeginCarries, FinishCarries, GotoCarries
<1>. QED  BY <1>1, <1>2, <1>4, CountKept DEF SameCount

LEMMA CountedStep ==
  ASSUME OneTask, TypeOK, Counted, [Next]_vars
  PROVE  Counted'
<1>1. CASE Tick \/ UNCHANGED vars
  BY <1>1 DEF Tick, vars, history, Counted, Doing, Busy
<1>2. ASSUME NEW t \in Tasks, Scheduler(t)
      PROVE  Counted'
  <2>1. CASE ListTrials(t) \/ ListFailed(t)
    <3>1. SameCount
      BY <2>1 DEF ListTrials, ListFailed, SameCount, history
    <3>2. Carries(t)
      BY <2>1, BeginCarries DEF ListTrials, ListFailed
    <3>. QED  BY <3>1, <3>2, CountKept
  <2>. QED  BY <1>2, <2>1, ListedCounted, CleanupCounted, SettledCounted, FailedCounted
            DEF Scheduler
<1>3. ASSUME NEW t \in Tasks, StatementThrows(t) \/ Crash(t)
      PROVE  Counted'
  <2>1. SameCount /\ Busy(t)
    BY <1>3 DEF StatementThrows, Crash, SameCount, history
  <2>2. Finish(t) \/ GiveUp(t) \/ Goto(t, "refused")
    BY <1>3 DEF StatementThrows, Crash
  <2>3. Carries(t)
    BY <2>1, <2>2, FinishCarries, GiveUpCarries, GotoCarries
  <2>. QED  BY <2>1, <2>3, CountKept
<1>. QED
  BY <1>1, <1>2, <1>3, PaymentCounted, RequestCounted, SettingsCounted DEF Next

\* Where executions do not overlap: renewals stop after three failures in a row
\* until the owner turns automatic renewal on again, whatever else is done to
\* the row and whatever fails.  Counted is the invariant behind it: with
\* automatic renewal on, the row has counted every failure.
THEOREM RenewalsStop ==
  ASSUME OneTask
  PROVE  Spec => []ThreeFailuresStop
<1>1. Init => Counted
  BY DEF Init, Counted, Doing, Busy
<1>2. Inv /\ Counted /\ [Next]_vars => Counted'
  BY CountedStep DEF Inv
<1>3. Counted => ThreeFailuresStop
  BY DEF Counted, ThreeFailuresStop
<1>. QED  BY <1>1, <1>2, <1>3, InvAlways, PTL DEF Spec
=============================================================================
