-------------------------------- MODULE Push --------------------------------
(***************************************************************************)
(* Web push.  A notification is a row of push_notifications, one for every *)
(* device the user has subscribed, and a task of the delivery worker, which *)
(* lives in the memory of one instance: a queue, a number of tasks in      *)
(* flight, timers that put a failed task back.  The push service answers   *)
(* that it took the message, that the subscription is gone, or with an     *)
(* error; an error may hide a message that it did take.                    *)
(*                                                                         *)
(* Sources: services/domain/notification/pushDeliveryWorker.ts and         *)
(* notificationService.ts, repositories/notificationRepository.ts.         *)
(***************************************************************************)
EXTENDS Integers, Sequences, FiniteSets

CONSTANTS
  Pushes,      \* notifications; one for each call of createPushNotification
  Devices,     \* push subscriptions
  Concurrency, \* PUSH_WORKER_CONCURRENCY
  MaxAttempts, \* PUSH_WORKER_MAX_RETRIES, which counts the first attempt
  MaxFaults    \* bound: statements that fail and stops of the server

ASSUME PushAssumption ==
  /\ Concurrency \in Nat \ {0}
  /\ MaxAttempts \in Nat \ {0}
  /\ MaxFaults \in Nat

VARIABLES
  subscribed, \* the devices whose subscription is active
  push,       \* push[n]: status and device of the row
  waiting,    \* the worker's queue
  active,     \* activeTasks
  job,        \* job[n]: where the task of n is, and its attempt
  taken,      \* history: what the push service acknowledged
  pushFaults  \* history: statements that failed and stops of the server

pushVars == <<subscribed, push, waiting, active, job, taken, pushFaults>>

\* Where a task in flight is: the await it has reached.
PushSteps == {"send", "sent", "touch", "disable", "mark", "sweep"}
PushStatuses == {"NONE", "PENDING", "SENT", "FAILED"}

InFlight == {n \in Pushes : job[n].at \in PushSteps}
JobAt(n, step) == job[n].at = step
\* Off by one: a task that retries once too often.
FaultLastAttempt(n) == job[n].attempt >= MaxAttempts
LastAttempt(n) == job[n].attempt + 1 >= MaxAttempts

PushTypeOK ==
  /\ subscribed \subseteq Devices
  /\ push \in [Pushes -> [status : PushStatuses, device : Devices]]
  /\ waiting \in Seq(Pushes)
  /\ active \in 0 .. Concurrency
  /\ job \in [Pushes -> [at : PushSteps \cup {"none", "queue", "timer"},
                         attempt : 0 .. MaxAttempts - 1]]
  /\ taken \in [Pushes -> 0 .. MaxAttempts]
  /\ pushFaults \in 0 .. MaxFaults

PushInit ==
  /\ subscribed = Devices
  /\ push \in [Pushes -> [status : {"NONE"}, device : Devices]]
  /\ waiting = <<>>
  /\ active = 0
  /\ job = [n \in Pushes |-> [at |-> "none", attempt |-> 0]]
  /\ taken = [n \in Pushes |-> 0]
  /\ pushFaults = 0

-----------------------------------------------------------------------------
(* The queue.  processQueue starts tasks, oldest first, while fewer than   *)
(* Concurrency are in flight; it runs after every enqueue and every end of *)
(* a task.                                                                 *)

ProcessQueue(queue, running, jobs) ==
  LET free == Concurrency - running
      n == IF Len(queue) < free THEN Len(queue) ELSE free
      started == {queue[i] : i \in 1 .. n}
  IN  /\ waiting' = SubSeq(queue, n + 1, Len(queue))
      /\ active' = running + n
      /\ job' = [m \in Pushes |-> IF m \in started
                                  THEN [jobs[m] EXCEPT !.at = "send"] ELSE jobs[m]]

Enqueue(n, attempt) ==
  ProcessQueue(Append(waiting, n), active,
               [job EXCEPT ![n] = [at |-> "queue", attempt |-> attempt]])

\* The place is freed, the queue is not drained.
FaultSettle(n, place, attempt) ==
  /\ job' = [job EXCEPT ![n] = [at |-> place, attempt |-> attempt]]
  /\ active' = active - 1
  /\ UNCHANGED waiting

\* The promise of handleTask settles: finally frees the place and drains.
Settle(n, place, attempt) ==
  ProcessQueue(waiting, active - 1,
               [job EXCEPT ![n] = [at |-> place, attempt |-> attempt]])
Finish(n) == Settle(n, "none", 0)

JobGoto(n, step) ==
  /\ job' = [job EXCEPT ![n].at = step]
  /\ UNCHANGED <<waiting, active>>

SetStatus(n, status) == push' = [push EXCEPT ![n].status = status]

\* The rows that were delivered too.
FaultFailPendingOf(d) ==
  push' = [n \in Pushes |->
             IF push[n].device = d THEN [push[n] EXCEPT !.status = "FAILED"] ELSE push[n]]

\* updatePushNotificationStatusBySubscription: every row still pending.
FailPendingOf(d) ==
  push' = [n \in Pushes |->
             IF push[n].device = d /\ push[n].status = "PENDING"
               THEN [push[n] EXCEPT !.status = "FAILED"] ELSE push[n]]

-----------------------------------------------------------------------------
(* A notification: the row is inserted and its task enqueued *)

SendPush(n) ==
  /\ push[n].status = "NONE"
  /\ push[n].device \in subscribed
  /\ SetStatus(n, "PENDING")
  /\ Enqueue(n, 0)
  /\ UNCHANGED <<subscribed, taken, pushFaults>>

\* The owner of a device subscribes it again, or takes it off.
SubscribeDevice(d) ==
  /\ subscribed' = subscribed \cup {d}
  /\ UNCHANGED <<push, waiting, active, job, taken, pushFaults>>
UnsubscribeDevice(d) ==
  /\ subscribed' = subscribed \ {d}
  /\ UNCHANGED <<push, waiting, active, job, taken, pushFaults>>

-----------------------------------------------------------------------------
(* handleTask *)

\* The service takes the message and says so.
Accepted(n) ==
  /\ JobAt(n, "send")
  /\ taken' = [taken EXCEPT ![n] = @ + 1]
  /\ JobGoto(n, "sent")
  /\ UNCHANGED <<subscribed, push, pushFaults>>

\* 404, 410 or a text that says so: the subscription is given up.
Gone(n) ==
  /\ JobAt(n, "send")
  /\ JobGoto(n, "disable")
  /\ UNCHANGED <<subscribed, push, taken, pushFaults>>

\* The catch clause after any other error: a timer, or the end.
Caught(n) ==
  \/ ~LastAttempt(n) /\ Settle(n, "timer", job[n].attempt + 1)
  \/ LastAttempt(n) /\ JobGoto(n, "mark")
SendFails(n) ==
  /\ JobAt(n, "send")
  /\ Caught(n)
  /\ UNCHANGED <<subscribed, push, taken, pushFaults>>

\* The task is put back, and nobody looks at the queue.
FaultTimerFires(n) ==
  /\ JobAt(n, "timer")
  /\ waiting' = Append(waiting, n)
  /\ JobGoto(n, "queue") /\ UNCHANGED <<subscribed, push, taken, pushFaults>>

TimerFires(n) ==
  /\ JobAt(n, "timer")
  /\ Enqueue(n, job[n].attempt)
  /\ UNCHANGED <<subscribed, push, taken, pushFaults>>

MarkSent(n) ==
  /\ JobAt(n, "sent")
  /\ SetStatus(n, "SENT")
  /\ JobGoto(n, "touch")
  /\ UNCHANGED <<subscribed, taken, pushFaults>>

Touch(n) ==
  /\ JobAt(n, "touch")
  /\ Finish(n)
  /\ UNCHANGED <<subscribed, push, taken, pushFaults>>

Disable(n) ==
  /\ JobAt(n, "disable")
  /\ subscribed' = subscribed \ {push[n].device}
  /\ JobGoto(n, "mark")
  /\ UNCHANGED <<push, taken, pushFaults>>

MarkFailed(n) ==
  /\ JobAt(n, "mark")
  /\ SetStatus(n, "FAILED")
  /\ JobGoto(n, "sweep")
  /\ UNCHANGED <<subscribed, taken, pushFaults>>

SweepPending(n) ==
  /\ JobAt(n, "sweep")
  /\ FailPendingOf(push[n].device)
  /\ Finish(n)
  /\ UNCHANGED <<subscribed, taken, pushFaults>>

\* A statement throws.  After the message has gone out the error is taken
\* for a failure to deliver; in the catch clause it ends the task.
StoreFails(n) ==
  /\ \/ job[n].at \in {"sent", "touch"} /\ Caught(n)
     \/ job[n].at \in {"disable", "mark", "sweep"} /\ Finish(n)
  /\ pushFaults < MaxFaults
  /\ pushFaults' = pushFaults + 1
  /\ UNCHANGED <<subscribed, push, taken>>

\* The server stops: the queue, the timers and the tasks are gone.
ServerStops ==
  /\ \E n \in Pushes : job[n].at # "none"
  /\ waiting' = <<>>
  /\ active' = 0
  /\ job' = [n \in Pushes |-> [at |-> "none", attempt |-> 0]]
  /\ pushFaults < MaxFaults
  /\ pushFaults' = pushFaults + 1
  /\ UNCHANGED <<subscribed, push, taken>>

PushTask(n) ==
  \/ Accepted(n) \/ Gone(n) \/ SendFails(n) \/ TimerFires(n) \/ MarkSent(n)
  \/ Touch(n) \/ Disable(n) \/ MarkFailed(n) \/ SweepPending(n)

PushNext ==
  \/ \E n \in Pushes : SendPush(n) \/ PushTask(n) \/ StoreFails(n)
  \/ \E d \in Devices : SubscribeDevice(d) \/ UnsubscribeDevice(d)
  \/ ServerStops

\* The push service answers or the socket fails, promises settle, timers fire.
PushFairness == \A n \in Pushes : WF_pushVars(PushTask(n))
PushSpec == PushInit /\ [][PushNext]_pushVars /\ PushFairness

-----------------------------------------------------------------------------
(* Properties *)

\* The counter is the number of tasks in flight, and a task waits only while
\* all places are taken: no end of a task is missed, nothing stalls the queue.
NoIdleWorker ==
  /\ active = Cardinality(InFlight)
  /\ waiting # <<>> => active = Concurrency

\* Unless a statement failed or the server stopped, a task that is over has
\* told the truth, whatever the other tasks of the device did to the row: it
\* says SENT exactly when the service acknowledged the message, once.
StatusTellsDelivery ==
  \A n \in Pushes :
    pushFaults = 0 /\ JobAt(n, "none") /\ push[n].status # "NONE" =>
      /\ push[n].status \in {"SENT", "FAILED"}
      /\ push[n].status = "SENT" <=> taken[n] = 1
      /\ push[n].status = "FAILED" <=> taken[n] = 0

\* Every notification is settled, if the server stays up.
PushSettles ==
  \A n \in Pushes :
    push[n].status = "PENDING" ~> push[n].status # "PENDING" \/ pushFaults > 0
=============================================================================
