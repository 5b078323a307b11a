----------------------------- MODULE Reminders -----------------------------
(***************************************************************************)
(* The job that reminds customers of their appointments.  node-cron starts *)
(* it every minute in every instance of the server; a Redis key is meant   *)
(* to let one run through.  A run lists the rows that start in one to two  *)
(* hours, sends the reminder of each over the channels of its business and *)
(* marks the row.                                                          *)
(*                                                                         *)
(* Redis, PostgreSQL, the channels and the instance itself may fail        *)
(* between any two calls; Faults names the failures a model allows.        *)
(*                                                                         *)
(* Sources: jobs/appointment/SendAppointmentRemindersJob.ts, the reminder  *)
(* functions of services/domain/notification/notificationService.ts and    *)
(* search() of repositories/appointmentRepository.ts.                      *)
(***************************************************************************)
EXTENDS Integers, FiniteSets, Sequences

CONSTANTS
  Appointments,  \* rows the job may find
  Runs,          \* executions of the job, each in its own instance
  NoRun,         \* the key's value when it is not set
  Starts,        \* times at which appointments start
  Channels,      \* the channels in the order they are tried
  Near, Far,     \* the query's window: 60 and 120 minutes ahead
  Timings,       \* reminderTiming, minutes before the start
  Tolerance,     \* minutes around a timing in which a run still sends
  QuietHours,    \* minutes in which nothing is sent
  Skew,          \* Istanbul wall clock minus the server's Date.now()
  PageSize,      \* rows of the query's first page
  LockTtl,       \* LOCK_TTL
  MaxRetries,    \* MAX_RETRIES
  MaxTime,       \* bound on the clock, which stands still there
  Faults         \* failures that may happen

AllFaults == {"send",        \* a channel answers with success: false
              "throw",       \* a query made for a channel throws
              "unrecorded",  \* an SMS is sent and counting it throws
              "database",    \* the job's own query or update throws
              "redis",       \* a call to Redis throws
              "slow",        \* a run takes longer than a minute
              "crash",       \* the instance stops and is restarted
              "unleased",    \* ... also between SETNX and EXPIRE, which may fail
              "move"}        \* rows are rescheduled, which never fails

ASSUME RemindersAssumption ==
  /\ NoRun \notin Runs
  /\ Starts \subseteq Nat /\ Timings \subseteq Nat
  /\ {Near, Far, Tolerance, Skew, MaxTime} \subseteq Nat
  /\ {PageSize, LockTtl, MaxRetries} \subseteq Nat \ {0}
  /\ Channels \in Seq({"push", "sms", "email"})
  /\ Faults \subseteq AllFaults
  /\ "unleased" \in Faults => "crash" \in Faults

NoLease == LockTtl + 1     \* a key without a lifetime
MaxMessages == 2           \* bound: two messages and more are counted as two
Positions == 1 .. Len(Channels)
Reminder == Appointments \X Starts

VARIABLES
  now,        \* Istanbul wall clock
  start,      \* start of each row
  confirmed,  \* rows whose status is CONFIRMED
  marked,     \* rows with reminderSentAt
  messages,   \* messages[a][k]: messages the k-th channel took for a
  told,       \* told[a]: the start times those messages spoke of
  lock,       \* the Redis key
  fired,      \* runs cron has started in this minute
  run         \* what each run is doing

vars == <<now, start, confirmed, marked, messages, told, lock, fired, run>>

Free == [owner |-> NoRun, ttl |-> NoLease]
Resting == [at |-> "idle", todo |-> {}]

BareState == [at : {"idle", "lease", "list", "release"}, todo : {{}}]
ListState == [at : {"pick"}, todo : SUBSET Reminder]
RowState == [at : {"try", "send", "mark"}, todo : SUBSET Reminder, cur : Reminder,
             tries : 1 .. MaxRetries, next : Positions \cup {1}, ok : BOOLEAN]

RunState == BareState \cup ListState \cup RowState

TypeOK ==
  /\ now \in 0 .. MaxTime
  /\ start \in [Appointments -> Starts]
  /\ confirmed \subseteq Appointments
  /\ marked \subseteq Appointments
  /\ messages \in [Appointments -> [Positions -> 0 .. MaxMessages]]
  /\ told \in [Appointments -> SUBSET Starts]
  /\ lock \in [owner : Runs \cup {NoRun}, ttl : 1 .. NoLease]
  /\ fired \subseteq Runs
  /\ run \in [Runs -> RunState]

Init ==
  /\ now = 0
  /\ start \in [Appointments -> {s \in Starts : s > Far}]
  /\ confirmed = Appointments
  /\ marked = {}
  /\ messages = [a \in Appointments |-> [k \in Positions |-> 0]]
  /\ told = [a \in Appointments |-> {}]
  /\ lock = Free
  /\ fired = {}
  /\ run = [r \in Runs |-> Resting]

Goto(r, state) == run' = [run EXCEPT ![r] = state]
At(r, place) == run[r].at = place
AppointmentsUnchanged == UNCHANGED <<start, confirmed>>
SentUnchanged == UNCHANGED <<marked, messages, told>>

-----------------------------------------------------------------------------
(* The lock *)

\* Fault: a run that is not the lock's owner, or skipped, frees the lock.
FaultSkippedReleases(r) ==
  /\ At(r, "idle")
  /\ r \notin fired
  /\ fired' = fired \cup {r}
  /\ IF lock = Free
       THEN /\ lock' = [owner |-> r, ttl |-> NoLease]
            /\ Goto(r, [at |-> "lease", todo |-> {}])
       ELSE lock' = Free /\ UNCHANGED run
  /\ SentUnchanged /\ AppointmentsUnchanged /\ UNCHANGED now

(***************************************************************************)
(* acquireLock, SETNX.  Whoever finds the key set leaves; when Redis does  *)
(* not answer the run goes on without the lock.                            *)
(***************************************************************************)
Claim(r) ==
  /\ At(r, "idle")
  /\ r \notin fired
  /\ fired' = fired \cup {r}
  /\ \/ /\ lock = Free
        /\ lock' = [owner |-> r, ttl |-> NoLease]
        /\ Goto(r, [at |-> "lease", todo |-> {}])
     \/ /\ lock # Free
        /\ UNCHANGED <<lock, run>>
     \/ /\ "redis" \in Faults
        /\ Goto(r, [at |-> "list", todo |-> {}])
        /\ UNCHANGED lock
  /\ SentUnchanged /\ AppointmentsUnchanged /\ UNCHANGED now

\* Fault: the key never gets its lifetime.
FaultNoLifetime(r) ==
  /\ At(r, "lease")
  /\ Goto(r, [at |-> "list", todo |-> {}])
  /\ SentUnchanged /\ AppointmentsUnchanged /\ UNCHANGED <<now, lock, fired>>

\* acquireLock, EXPIRE: a second call, on whatever the key now holds.
Lease(r) ==
  /\ At(r, "lease")
  /\ Goto(r, [at |-> "list", todo |-> {}])
  /\ \/ lock' = IF lock = Free THEN Free ELSE [lock EXCEPT !.ttl = LockTtl]
     \/ "unleased" \in Faults /\ UNCHANGED lock
  /\ SentUnchanged /\ AppointmentsUnchanged /\ UNCHANGED <<now, fired>>

\* releaseLock: DEL, without a look at the value; its failure is swallowed.
Release(r) ==
  /\ At(r, "release")
  /\ Goto(r, Resting)
  /\ \/ lock' = Free
     \/ "redis" \in Faults /\ UNCHANGED lock
  /\ SentUnchanged /\ AppointmentsUnchanged /\ UNCHANGED <<now, fired>>

-----------------------------------------------------------------------------
(* The list *)

Candidates == confirmed

\* search() answers its first page, the latest starts first, of all businesses.
FirstPages ==
  {page \in SUBSET Candidates :
     /\ Cardinality(page) <= PageSize
     /\ Cardinality(page) = PageSize \/ page = Candidates
     /\ \A a \in page, b \in Candidates \ page : start[b] <= start[a]}

InWindow(a) == start[a] - now \in Near .. Far

\* Fault: rows that have their reminder are listed again.
FaultListsMarked(r) ==
  /\ At(r, "list")
  /\ \E page \in FirstPages :
       Goto(r, [at |-> "pick",
                todo |-> {<<a, start[a]>> : a \in {b \in page : InWindow(b)}}])
  /\ SentUnchanged /\ AppointmentsUnchanged /\ UNCHANGED <<now, lock, fired>>

\* getAppointmentsNeedingReminders
List(r) ==
  /\ At(r, "list")
  /\ \/ \E page \in FirstPages :
          LET due == {a \in page : InWindow(a) /\ a \notin marked} IN
          Goto(r, [at |-> "pick", todo |-> {<<a, start[a]>> : a \in due}])
     \/ "database" \in Faults /\ Goto(r, [at |-> "release", todo |-> {}])
  /\ SentUnchanged /\ AppointmentsUnchanged /\ UNCHANGED <<now, lock, fired>>

\* The loop: the next row in the order of the list, or the end of the run.
Pick(r) ==
  /\ At(r, "pick")
  /\ IF run[r].todo = {}
       THEN Goto(r, [at |-> "release", todo |-> {}])
       ELSE \E item \in run[r].todo :
              /\ \A other \in run[r].todo : other[2] <= item[2]
              /\ Goto(r, [at |-> "try", todo |-> run[r].todo \ {item}, cur |-> item,
                          tries |-> 1, next |-> 1, ok |-> FALSE])
  /\ SentUnchanged /\ AppointmentsUnchanged /\ UNCHANGED <<now, lock, fired>>

NextRow(r) == Goto(r, [at |-> "pick", todo |-> run[r].todo])

-----------------------------------------------------------------------------
(* One row *)

\* Fault: a run is in time only once the timing has passed.
FaultLateOnly(s) ==
  /\ \E m \in Timings : m - (s - (now - Skew)) \in 1 .. Tolerance
  /\ now \notin QuietHours

\* The timing test uses Date.now() on a start in Istanbul's wall clock.
Sendable(s) ==
  /\ \E m \in Timings : (s - (now - Skew)) - m \in (0 - Tolerance) .. Tolerance
  /\ now \notin QuietHours

\* Fault: the row is marked before its reminder is sent.
FaultMarksFirst(r) ==
  /\ At(r, "try")
  /\ marked' = marked \cup {run[r].cur[1]}
  /\ IF Sendable(run[r].cur[2]) /\ Len(Channels) > 0
       THEN Goto(r, [run[r] EXCEPT !.at = "send", !.next = 1, !.ok = FALSE])
       ELSE NextRow(r)
  /\ AppointmentsUnchanged /\ UNCHANGED <<now, lock, fired, messages, told>>

\* sendAppointmentReminder up to its channels; the settings enable reminders.
Try(r) ==
  /\ At(r, "try")
  /\ IF Sendable(run[r].cur[2]) /\ Len(Channels) > 0
       THEN Goto(r, [run[r] EXCEPT !.at = "send", !.next = 1, !.ok = FALSE])
       ELSE NextRow(r)
  /\ SentUnchanged /\ AppointmentsUnchanged /\ UNCHANGED <<now, lock, fired>>

\* After a channel: the next one, or the mark if any of them succeeded.
Onward(r, ok) ==
  IF run[r].next < Len(Channels)
    THEN Goto(r, [run[r] EXCEPT !.next = @ + 1, !.ok = ok])
    ELSE IF ok THEN Goto(r, [run[r] EXCEPT !.at = "mark", !.ok = ok])
               ELSE NextRow(r)

Deliver(r) ==
  LET a == run[r].cur[1] k == run[r].next IN
  /\ messages' = [messages EXCEPT ![a][k] = IF @ < MaxMessages THEN @ + 1 ELSE @]
  /\ told' = [told EXCEPT ![a] = @ \cup {run[r].cur[2]}]

(***************************************************************************)
(* The channel takes the message.  An SMS that was sent is reported as     *)
(* failed when counting it throws.  No e-mail is ever sent: the row the    *)
(* job hands over has no address.                                          *)
(***************************************************************************)
SendTaken(r) ==
  /\ At(r, "send")
  /\ Channels[run[r].next] # "email"
  /\ Deliver(r)
  /\ \/ Onward(r, TRUE)
     \/ /\ "unrecorded" \in Faults /\ Channels[run[r].next] = "sms"
        /\ Onward(r, run[r].ok)
  /\ AppointmentsUnchanged /\ UNCHANGED <<now, lock, fired, marked>>

\* The channel answers success: false.
SendRefused(r) ==
  /\ At(r, "send")
  /\ "send" \in Faults \/ Channels[run[r].next] = "email"
  /\ Onward(r, run[r].ok)
  /\ SentUnchanged /\ AppointmentsUnchanged /\ UNCHANGED <<now, lock, fired>>

(***************************************************************************)
(* A query throws before the channel is used: sendReminderWithRetry starts *)
(* over with the first channel, and gives up after MAX_RETRIES.            *)
(***************************************************************************)
SendThrows(r) ==
  /\ At(r, "try") \/ At(r, "send")
  /\ "throw" \in Faults
  /\ IF run[r].tries < MaxRetries
       THEN Goto(r, [run[r] EXCEPT !.at = "try", !.tries = @ + 1,
                                   !.next = 1, !.ok = FALSE])
       ELSE NextRow(r)
  /\ SentUnchanged /\ AppointmentsUnchanged /\ UNCHANGED <<now, lock, fired>>

\* markReminderSent; when it throws the loop goes on.
Mark(r) ==
  /\ At(r, "mark")
  /\ \/ marked' = marked \cup {run[r].cur[1]}
     \/ "database" \in Faults /\ UNCHANGED marked
  /\ NextRow(r)
  /\ AppointmentsUnchanged /\ UNCHANGED <<now, lock, fired, messages, told>>

-----------------------------------------------------------------------------
(* The environment *)

\* The instance stops; cron starts the job again in the next minute.
Crash(r) ==
  /\ "crash" \in Faults
  /\ ~At(r, "idle")
  /\ At(r, "lease") => "unleased" \in Faults
  /\ Goto(r, Resting)
  /\ SentUnchanged /\ AppointmentsUnchanged /\ UNCHANGED <<now, lock, fired>>

\* A customer or the business cancels: the list a run holds does not notice.
Cancel(a) ==
  /\ confirmed' = confirmed \ {a}
  /\ a \in confirmed
  /\ SentUnchanged /\ UNCHANGED <<now, start, lock, fired, run>>

\* Rescheduling keeps reminderSentAt.  Bound: to starts beyond the window.
Move(a, s) ==
  /\ "move" \in Faults
  /\ a \in confirmed
  /\ s > now + Far
  /\ s # start[a]
  /\ start' = [start EXCEPT ![a] = s]
  /\ SentUnchanged /\ UNCHANGED <<now, confirmed, lock, fired, run>>

\* A key whose lifetime ends is gone.
Aged ==
  IF lock.ttl = NoLease THEN lock
  ELSE IF lock.ttl = 1 THEN Free ELSE [lock EXCEPT !.ttl = @ - 1]

(***************************************************************************)
(* The next minute.  Unless runs may be slow, every instance has started   *)
(* the job in this minute and every run has ended.                         *)
(***************************************************************************)
Tick ==
  /\ "slow" \in Faults \/ (fired = Runs /\ \A r \in Runs : At(r, "idle"))
  /\ now' = IF now < MaxTime THEN now + 1 ELSE now
  /\ lock' = Aged
  /\ fired' = {}
  /\ SentUnchanged /\ AppointmentsUnchanged /\ UNCHANGED run

-----------------------------------------------------------------------------
RowStep(r) ==
  Try(r) \/ SendTaken(r) \/ SendRefused(r) \/ SendThrows(r) \/ Mark(r)

RunStep(r) == Lease(r) \/ List(r) \/ Pick(r) \/ RowStep(r) \/ Release(r)

Next ==
  \/ \E r \in Runs : Claim(r) \/ RunStep(r) \/ Crash(r)
  \/ \E a \in Appointments : Cancel(a) \/ \E s \in Starts : Move(a, s)
  \/ Tick

Spec == Init /\ [][Next]_vars

\* Runs that are not stopped go on, cron fires and time passes.
FairSpec ==
  /\ Spec
  /\ WF_vars(Tick)
  /\ \A r \in Runs : WF_vars(Claim(r)) /\ WF_vars(RunStep(r))

-----------------------------------------------------------------------------
(* Properties *)

Working(r) == ~At(r, "idle")

(***************************************************************************)
(* "Another instance is processing reminders, skipping...": at most one    *)
(* run is past the lock.                                                   *)
(***************************************************************************)
OneRunAtATime == \A r, q \in Runs : Working(r) /\ Working(q) => r = q

(***************************************************************************)
(* No channel gets the reminder of a row twice, over all runs and minutes  *)
(* in which the row is due, although the mark follows the messages.        *)
(***************************************************************************)
NoRepeats == \A a \in Appointments, k \in Positions : messages[a][k] <= 1

(***************************************************************************)
(* "Only mark as sent if at least one channel succeeded": whatever fails,  *)
(* a row that is marked, which no later run lists, was told to somebody.   *)
(***************************************************************************)
MarkedWasSent == \A a \in marked : told[a] # {}

(***************************************************************************)
(* "Sends reminders for upcoming appointments": the customer of a          *)
(* confirmed row whose reminder window has passed was told its start.      *)
(***************************************************************************)
Reminded ==
  \A a \in confirmed : start[a] - now < Near => start[a] \in told[a]

(***************************************************************************)
(* LOCK_TTL: a lock that is taken is free again sooner or later, also when *)
(* its owner crashes.                                                      *)
(***************************************************************************)
LockFreed == lock # Free ~> lock = Free

=============================================================================
