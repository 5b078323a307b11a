------------------------------ MODULE Billing ------------------------------
(***************************************************************************)
(* The subscription of one business and the money it costs.  Every         *)
(* instance of the server runs the cron tasks of the subscription          *)
(* scheduler (trial conversion, renewal, retry, cleanup); the owner and    *)
(* administrators change the same row over HTTP.  A charge is made at      *)
(* iyzico, outside the database, between a read of the row and writes by   *)
(* its id.                                                                 *)
(*                                                                         *)
(* Sources: services/domain/subscription/subscriptionSchedulerService.ts   *)
(* and subscriptionService.ts, services/domain/payment/paymentService.ts   *)
(* and paymentRetryService.ts, repositories/subscriptionRepository.ts,     *)
(* services/domain/discount/discountCodeService.ts.                        *)
(***************************************************************************)
EXTENDS Integers, FiniteSets

CONSTANTS
  Tasks,       \* executions in flight: cron runs and requests
  Charges,     \* ids that iyzico gives to the charges it takes
  NoCharge,    \* a task that has taken none
  Interval,    \* days in a billing period, the same for every plan
  TrialDays,   \* days of a free trial
  MaxUses,     \* maxRecurringUses of a discount code
  Grace,       \* days until the cleanup cancels a row that is past due
  MaxRetries,  \* maxRetries of the retry service
  Operations,  \* the handlers an instance of the model exercises
  MaxDay,      \* bound on the clock
  MaxFailed,   \* bound: no charge is tried while there are more FAILED rows
  Faults       \* failures that may happen

AllFaults == {"database",  \* a statement throws
              "answer",    \* iyzico takes the money and its answer is lost
              "crash"}     \* the instance stops between two calls

AllOperations == {"trial", "renewal", "retry", "expire", "renewAll", "subscribe",
                  "pay", "cancel", "cancelNow", "reactivate", "convert", "upgrade",
                  "change", "settings", "discount", "refund", "void"}

ASSUME BillingAssumption ==
  /\ NoCharge \notin Charges
  /\ {Interval, TrialDays, MaxRetries} \subseteq Nat \ {0}
  /\ {MaxUses, Grace, MaxDay, MaxFailed} \subseteq Nat
  /\ Operations \subseteq AllOperations
  /\ Faults \subseteq AllFaults

NoDay == -1                    \* a date that is null
Days == Nat \cup {NoDay}
Statuses == {"NONE", "TRIAL", "ACTIVE", "PAST_DUE", "CANCELED", "UNPAID"}

\* The code compares the failure count with 0, 2, 3 and MaxRetries: larger
\* values are all alike.
FailCap == IF MaxRetries > 3 THEN MaxRetries ELSE 3
OneMore(n) == IF n < FailCap THEN n + 1 ELSE n

Subscription ==
  [status : Statuses,
   end    : Nat,              \* currentPeriodEnd
   trial  : Days,             \* trialEnd; trialStart is null when it is
   atEnd  : BOOLEAN,          \* cancelAtPeriodEnd
   auto   : BOOLEAN,          \* autoRenewal
   card   : BOOLEAN,          \* paymentMethodId is not null
   fails  : 0 .. FailCap,     \* failedPaymentCount
   uses   : 0 .. MaxUses]     \* remainingUses of a recurring pending discount

VARIABLES
  now,       \* the day
  sub,       \* the row of business_subscriptions ("NONE": not inserted)
  payments,  \* payments[c]: status of the row with provider id c
  failed,    \* rows of payments that are FAILED
  taken,     \* charges iyzico has taken
  returned,  \* charges iyzico has given back
  task,      \* what each execution is doing
  period,    \* period[c]: end of the period that a renewal charged c for
  tries      \* renewals that failed in a row since the owner last agreed

rows == <<payments, failed>>
provider == <<taken, returned>>
history == <<period, tries>>
vars == <<now, sub, rows, provider, task, history>>

Places == {"discount", "decrement", "charge", "record", "activate", "refused",
           "settle", "fail", "write", "stamp", "card", "refund", "mark", "drop"}
Idle == [op |-> "idle"]
Running ==
  [op     : AllOperations,
   at     : Places,
   seen   : Subscription,     \* the row when the task read it
   status : Statuses,         \* its status when it was read again
   day    : Nat,              \* the day the task began
   charge : Charges \cup {NoCharge}]
TaskState == {Idle} \cup Running

TypeOK ==
  /\ now \in 0 .. MaxDay
  /\ sub \in Subscription
  /\ payments \in [Charges -> {"NONE", "SUCCEEDED", "REFUNDED", "CANCELED"}]
  /\ failed \in Nat
  /\ taken \subseteq Charges
  /\ returned \subseteq Charges
  /\ task \in [Tasks -> TaskState]
  /\ period \in [Charges -> Days]
  /\ tries \in Nat

Init ==
  /\ now = 0
  /\ sub = [status |-> "NONE", end |-> 0, trial |-> NoDay, atEnd |-> FALSE,
            auto |-> TRUE, card |-> FALSE, fails |-> 0, uses |-> 0]
  /\ payments = [c \in Charges |-> "NONE"]
  /\ failed = 0
  /\ taken = {}
  /\ returned = {}
  /\ task = [t \in Tasks |-> Idle]
  /\ period = [c \in Charges |-> NoDay]
  /\ tries = 0

Live(s) == s.status \in {"ACTIVE", "TRIAL"}
Busy(t) == task[t] # Idle
At(t, place) == Busy(t) /\ task[t].at = place
Doing(t, op) == Busy(t) /\ task[t].op = op

\* A task begins with what it reads: it keeps the row as it was.
Begin(t, op, place, c) ==
  /\ task[t] = Idle
  /\ op \in Operations
  /\ task' = [task EXCEPT ![t] = [op |-> op, at |-> place, seen |-> sub,
                                  status |-> sub.status, day |-> now, charge |-> c]]
Goto(t, place) == task' = [task EXCEPT ![t].at = place]
Finish(t) == task' = [task EXCEPT ![t] = Idle]

\* What is left of the task after its payment failed: a retry changes nothing.
GiveUp(t) == IF Doing(t, "retry") THEN Finish(t) ELSE Goto(t, "fail")

-----------------------------------------------------------------------------
(* What the cron tasks list *)

ListTrials(t) ==
  /\ sub.status = "TRIAL"
  /\ sub.trial # NoDay /\ sub.trial <= now
  /\ sub.card
  /\ Begin(t, "trial", "charge", NoCharge)
  /\ UNCHANGED <<now, sub, rows, provider, history>>

\* Fault: the list is not restricted to subscriptions that are active.
FaultListsAllDue(t) ==
  /\ sub.status # "NONE"
  /\ sub.auto
  /\ ~sub.atEnd
  /\ sub.end <= now + 1
  /\ Begin(t, "renewal", IF sub.card THEN "discount" ELSE "fail", NoCharge)
  /\ UNCHANGED <<now, sub, rows, provider, history>>

ListDue(t) ==
  /\ sub.status = "ACTIVE"
  /\ sub.auto
  /\ ~sub.atEnd
  /\ sub.end <= now + 1
  /\ Begin(t, "renewal", IF sub.card THEN "discount" ELSE "fail", NoCharge)
  /\ UNCHANGED <<now, sub, rows, provider, history>>

\* The day a retry is due (1, 3, 7 or 14 days after the last write) is left open.
ListFailed(t) ==
  /\ sub.status = "PAST_DUE"
  /\ sub.fails > 0 /\ sub.fails < MaxRetries
  /\ sub.card
  /\ Begin(t, "retry", "discount", NoCharge)
  /\ UNCHANGED <<now, sub, rows, provider, history>>

\* One UPDATE: the cleanup reads nothing before it writes.
Cleanup(t) ==
  /\ task[t] = Idle
  /\ sub.status = "PAST_DUE"
  /\ sub.end < now - Grace
  /\ sub.fails >= 3
  /\ sub' = [sub EXCEPT !.status = "CANCELED", !.auto = FALSE]
  /\ UNCHANGED <<now, rows, provider, task, history>>

-----------------------------------------------------------------------------
(* A charge *)

\* createRenewalPayment reads the row again for its discount.  A discount may
\* be refused: it holds for a day after it was validated.
ReadDiscount(t) ==
  /\ At(t, "discount")
  /\ \/ Goto(t, "charge")
     \/ /\ sub.uses > 0
        /\ task' = [task EXCEPT ![t].at = "decrement", ![t].status = sub.status,
                                ![t].seen.uses = sub.uses]
  /\ UNCHANGED <<now, sub, rows, provider, history>>

\* The status goes back with the metadata, as it was read.
Decrement(t) ==
  /\ At(t, "decrement")
  /\ sub' = [sub EXCEPT !.status = task[t].status, !.uses = task[t].seen.uses - 1]
  /\ Goto(t, "charge")
  /\ UNCHANGED <<now, rows, provider, history>>

Take(t, c) ==
  /\ At(t, "charge")
  /\ failed <= MaxFailed
  /\ c \notin taken
  /\ taken' = taken \cup {c}
  /\ period' = [period EXCEPT ![c] = IF Doing(t, "renewal") THEN task[t].seen.end
                                                            ELSE NoDay]
  /\ UNCHANGED <<now, sub, rows, returned, tries>>

ChargeTaken(t) ==
  \E c \in Charges : Take(t, c) /\ task' = [task EXCEPT ![t].at = "record", ![t].charge = c]

AnswerLost(t) ==
  /\ "answer" \in Faults
  /\ \E c \in Charges : Take(t, c)
  /\ Goto(t, "refused")

ChargeRefused(t) ==
  /\ At(t, "charge")
  /\ failed <= MaxFailed
  /\ Goto(t, "refused")
  /\ UNCHANGED <<now, sub, rows, provider, history>>

RecordPaid(t) ==
  /\ At(t, "record")
  /\ payments' = [payments EXCEPT ![task[t].charge] = "SUCCEEDED"]
  /\ Goto(t, "activate")
  /\ UNCHANGED <<now, sub, failed, provider, history>>

Activate(t) ==
  /\ At(t, "activate")
  /\ sub' = [sub EXCEPT !.status = "ACTIVE"]
  /\ IF Doing(t, "pay") THEN Finish(t) ELSE Goto(t, "settle")
  /\ UNCHANGED <<now, rows, provider, history>>

\* Fault: the caller does not look at `success`.
FaultSettlesAnyway(t) ==
  /\ At(t, "refused")
  /\ failed' = failed + 1
  /\ IF Doing(t, "pay") THEN Goto(t, "fail") ELSE Goto(t, "settle")
  /\ UNCHANGED <<now, sub, payments, provider, history>>

RecordFailed(t) ==
  /\ At(t, "refused")
  /\ failed' = failed + 1
  /\ GiveUp(t)
  /\ UNCHANGED <<now, sub, payments, provider, history>>

-----------------------------------------------------------------------------
(* What the cron tasks write when the payment is made, or is not *)

Paid(t) ==
  LET seen == task[t].seen IN
  CASE Doing(t, "trial") ->
         [sub EXCEPT !.status = "ACTIVE", !.end = task[t].day + Interval,
                     !.trial = NoDay, !.fails = 0]
    [] Doing(t, "renewal") -> [sub EXCEPT !.end = seen.end + Interval, !.fails = 0]
    [] OTHER -> [sub EXCEPT !.status = "ACTIVE", !.fails = 0]

Settle(t) ==
  /\ At(t, "settle")
  /\ sub' = Paid(t)
  /\ tries' = 0
  /\ Finish(t)
  /\ UNCHANGED <<now, rows, provider, period>>

\* Fault: automatic renewal stops one failure late.
FaultFourthTry(t) ==
  LET seen == task[t].seen IN
  CASE Doing(t, "trial") -> [sub EXCEPT !.status = "CANCELED"]
    [] Doing(t, "renewal") ->
         [sub EXCEPT !.fails = OneMore(seen.fails), !.auto = seen.auto /\ seen.fails < 3]
    [] OTHER -> [sub EXCEPT !.status = "UNPAID"]

Unpaid(t) ==
  LET seen == task[t].seen IN
  CASE Doing(t, "trial") -> [sub EXCEPT !.status = "CANCELED"]
    [] Doing(t, "renewal") ->
         [sub EXCEPT !.fails = OneMore(seen.fails), !.auto = seen.auto /\ seen.fails < 2]
    [] OTHER -> [sub EXCEPT !.status = "UNPAID"]

Fail(t) ==
  /\ At(t, "fail")
  /\ sub' = Unpaid(t)
  /\ tries' = IF Doing(t, "renewal") THEN tries + 1 ELSE tries
  /\ Finish(t)
  /\ UNCHANGED <<now, rows, provider, period>>

-----------------------------------------------------------------------------
(* Requests: the row is read, then written by its id *)

Reads(t, op) ==
  /\ Begin(t, op, "write", NoCharge)
  /\ UNCHANGED <<now, sub, rows, provider, history>>
Writes(t, op) ==
  /\ At(t, "write") /\ Doing(t, op)
  /\ UNCHANGED <<now, rows, provider>>
Ends(t, op) == Writes(t, op) /\ Finish(t) /\ UNCHANGED history

Expire(t) ==
  \/ Reads(t, "expire") /\ Live(sub) /\ sub.end <= now
  \/ /\ Ends(t, "expire")
     /\ sub' = [sub EXCEPT !.status = IF task[t].seen.atEnd THEN "CANCELED" ELSE "PAST_DUE"]

\* The administrator's renewal takes no payment.
RenewAll(t) ==
  \/ Reads(t, "renewAll") /\ Live(sub) /\ sub.end <= now
  \/ /\ Ends(t, "renewAll")
     /\ sub' = [sub EXCEPT !.status = "ACTIVE", !.end = now + Interval, !.atEnd = FALSE]

Subscribe(t) ==
  \/ Reads(t, "subscribe") /\ ~Live(sub) /\ sub.trial = NoDay
  \/ /\ Ends(t, "subscribe")
     /\ \E card \in BOOLEAN, uses \in {0, MaxUses} :
          sub' = [sub EXCEPT !.status = "TRIAL", !.end = now + TrialDays,
                             !.trial = now + TrialDays, !.atEnd = FALSE,
                             !.card = card, !.uses = uses]

Pay(t) ==
  \/ Reads(t, "pay") /\ sub.status # "ACTIVE"
  \/ /\ Writes(t, "pay") /\ Goto(t, "charge") /\ UNCHANGED history
     /\ sub' = [sub EXCEPT !.status = "UNPAID", !.end = now + Interval, !.atEnd = FALSE]

Cancel(t) ==
  \/ Live(sub) /\ (Reads(t, "cancel") \/ Reads(t, "cancelNow"))
  \/ Ends(t, "cancel") /\ sub' = [sub EXCEPT !.atEnd = TRUE]
  \/ Ends(t, "cancelNow") /\ sub' = [sub EXCEPT !.atEnd = FALSE, !.status = "CANCELED"]

\* Reactivation calls the repository's cancelSubscription(id, false).
Reactivate(t) ==
  \/ Reads(t, "reactivate") /\ sub.status = "CANCELED" /\ sub.atEnd
  \/ Ends(t, "reactivate") /\ sub' = [sub EXCEPT !.atEnd = FALSE, !.status = "CANCELED"]

\* With a card in the request the status is written twice.
Convert(t) ==
  \/ Reads(t, "convert") /\ sub.status = "TRIAL"
  \/ /\ Writes(t, "convert") /\ (Finish(t) \/ Goto(t, "stamp")) /\ UNCHANGED history
     /\ sub' = [sub EXCEPT !.status = "ACTIVE", !.end = now + Interval]
  \/ /\ At(t, "stamp") /\ Finish(t)
     /\ sub' = [sub EXCEPT !.status = "ACTIVE", !.uses = task[t].seen.uses]
     /\ UNCHANGED <<now, rows, provider, history>>

Upgrade(t) ==
  \/ Reads(t, "upgrade") /\ Live(sub)
  \/ Ends(t, "upgrade") /\ sub' = [sub EXCEPT !.status = "ACTIVE", !.end = task[t].seen.end]

\* Finds the row by its id, whatever its status; the card is a write of its own.
Change(t) ==
  \/ Reads(t, "change") /\ sub.status # "NONE"
  \/ /\ Writes(t, "change") /\ Goto(t, "card") /\ UNCHANGED history
     /\ \E end \in {task[t].seen.end, now + Interval} :
          sub' = [sub EXCEPT !.status = "ACTIVE", !.end = end]
  \/ /\ At(t, "card") /\ Finish(t)
     /\ sub' = [sub EXCEPT !.card = TRUE]
     /\ UNCHANGED <<now, rows, provider, history>>

\* Automatic renewal needs a card, in the request or on the row that was read.
Settings(t) ==
  \/ Reads(t, "settings") /\ Live(sub)
  \/ /\ Writes(t, "settings") /\ Finish(t) /\ UNCHANGED period
     /\ \E auto, card \in BOOLEAN :
          /\ auto => card \/ task[t].seen.card
          /\ sub' = [sub EXCEPT !.auto = auto, !.card = @ \/ card]
          /\ tries' = IF auto THEN 0 ELSE tries
  \/ Ends(t, "settings") /\ sub' = [sub EXCEPT !.card = TRUE]

AddDiscount(t) ==
  \/ Reads(t, "discount") /\ sub.status # "NONE"
  \/ Ends(t, "discount") /\ sub' = [sub EXCEPT !.uses = MaxUses]

-----------------------------------------------------------------------------
(* Payments that are undone *)

\* Fault: the row is marked without the provider's answer.
FaultRefundsFirst(t) ==
  \/ /\ \E c \in Charges : payments[c] = "SUCCEEDED" /\ Begin(t, "refund", "mark", c)
     /\ UNCHANGED <<now, sub, rows, provider, history>>
  \/ /\ At(t, "mark") /\ Finish(t)
     /\ payments' = [payments EXCEPT ![task[t].charge] = "REFUNDED"]
     /\ UNCHANGED <<now, sub, failed, provider, history>>

\* A refund that iyzico refuses changes nothing.
Refund(t) ==
  \/ /\ \E c \in Charges : payments[c] = "SUCCEEDED" /\ Begin(t, "refund", "refund", c)
     /\ UNCHANGED <<now, sub, rows, provider, history>>
  \/ /\ At(t, "refund")
     /\ \/ returned' = returned \cup {task[t].charge} /\ Goto(t, "mark")
        \/ UNCHANGED returned /\ Finish(t)
     /\ UNCHANGED <<now, sub, rows, taken, history>>
  \/ /\ At(t, "mark") /\ Finish(t)
     /\ payments' = [payments EXCEPT ![task[t].charge] = "REFUNDED"]
     /\ UNCHANGED <<now, sub, failed, provider, history>>

\* Cancelling a payment that is not SUCCEEDED, a refunded one too, cancels the
\* subscription whatever its status.
Void(t) ==
  \/ /\ failed > 0 /\ failed' = failed - 1
     /\ Begin(t, "void", "drop", NoCharge)
     /\ UNCHANGED <<now, sub, payments, provider, history>>
  \/ /\ \E c \in Charges :
          /\ payments[c] = "REFUNDED"
          /\ payments' = [payments EXCEPT ![c] = "CANCELED"]
          /\ Begin(t, "void", "drop", c)
     /\ UNCHANGED <<now, sub, failed, provider, history>>
  \/ /\ At(t, "drop") /\ Finish(t)
     /\ sub' = [sub EXCEPT !.status = "CANCELED"]
     /\ UNCHANGED <<now, rows, provider, history>>

-----------------------------------------------------------------------------
(* Failures *)

\* createSubscriptionPayment catches what it throws and records a FAILED
\* payment; its callers catch the rest, and a run that fails while it
\* records a failure ends.
StatementThrows(t) ==
  /\ "database" \in Faults
  /\ Busy(t)
  /\ \/ task[t].at \in {"record", "activate"} /\ Goto(t, "refused")
     \/ task[t].at \in {"discount", "decrement", "settle"} /\ GiveUp(t)
     \/ task[t].at = "refused" /\ IF Doing(t, "pay") THEN Finish(t) ELSE GiveUp(t)
     \/ task[t].at \in {"fail", "write", "stamp", "card", "mark", "drop"} /\ Finish(t)
  /\ UNCHANGED <<now, sub, rows, provider, history>>

Crash(t) ==
  /\ "crash" \in Faults
  /\ Busy(t)
  /\ Finish(t)
  /\ UNCHANGED <<now, sub, rows, provider, history>>

Tick ==
  /\ now < MaxDay
  /\ now' = now + 1
  /\ UNCHANGED <<sub, rows, provider, task, history>>

Scheduler(t) ==
  \/ ListTrials(t) \/ ListDue(t) \/ ListFailed(t) \/ Cleanup(t)
  \/ Settle(t) \/ Fail(t)
Payment(t) ==
  \/ ReadDiscount(t) \/ Decrement(t)
  \/ ChargeTaken(t) \/ ChargeRefused(t) \/ AnswerLost(t)
  \/ RecordPaid(t) \/ Activate(t) \/ RecordFailed(t)
Request(t) ==
  \/ Expire(t) \/ RenewAll(t) \/ Subscribe(t) \/ Pay(t) \/ Cancel(t) \/ Reactivate(t)
  \/ Convert(t) \/ Upgrade(t) \/ Change(t) \/ Settings(t) \/ AddDiscount(t)
  \/ Refund(t) \/ Void(t)

Next ==
  \/ Tick
  \/ \E t \in Tasks : Scheduler(t) \/ Payment(t) \/ Request(t) \/ StatementThrows(t) \/ Crash(t)

Spec == Init /\ [][Next]_vars

-----------------------------------------------------------------------------
(* Properties *)

\* The ledger never claims what did not happen: a payment that is recorded was
\* taken, one that is recorded as refunded was given back, and nothing is given
\* back that was not taken, whatever statement throws and wherever an instance
\* stops between iyzico and the database.
LedgerIsTrue ==
  /\ returned \subseteq taken
  /\ \A c \in Charges :
       /\ payments[c] # "NONE" => c \in taken
       /\ payments[c] \in {"REFUNDED", "CANCELED"} => c \in returned

\* A cron task that is about to extend the subscription has a charge of its own,
\* taken and recorded, and no other task extends it for the same charge.
PeriodsWerePaid ==
  \A t \in Tasks : At(t, "settle") =>
    /\ task[t].charge \in taken
    /\ payments[task[t].charge] # "NONE"
    /\ \A u \in Tasks \ {t} : At(u, "settle") => task[u].charge # task[t].charge

\* Renewals stop after three failures in a row until the owner turns automatic
\* renewal on again ("If too many failures, disable auto-renewal"), across
\* cancellations, retries and new subscriptions of the same row.
ThreeFailuresStop == tries <= 3

\* A subscription that is cancelled comes back only by what its owner asks for, or
\* by a task that has read the row before it was cancelled: no cron task and no
\* administrator's task that begins afterwards revives it, and no retry, failure
\* path or return of a charge does.
CanceledStaysCanceled ==
  [][sub.status = "CANCELED" /\ sub'.status # "CANCELED" =>
       \E t \in Tasks :
         /\ task'[t] # task[t]
         /\ task[t].op \in {"subscribe", "pay", "change"}
            \/ task[t].seen.status # "CANCELED"]_vars

\* No period is charged twice.
OneChargePerPeriod ==
  \A c, d \in taken : period[c] # NoDay /\ period[c] = period[d] => c = d
=============================================================================
