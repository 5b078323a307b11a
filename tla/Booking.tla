------------------------------ MODULE Booking ------------------------------
(***************************************************************************)
(* The appointment book of one business: the rows of the `appointments`    *)
(* table, every request handler that writes them, the background job that  *)
(* completes them and the PostgreSQL exclusion constraint that guards      *)
(* them.  Handlers are Node async functions: each `await` of a query is a  *)
(* point where the handlers of other requests, of the other application    *)
(* instances and of the cron job run.  A handler is therefore one action   *)
(* per query whose answer it still uses later; transactions run at         *)
(* PostgreSQL's default READ COMMITTED level, where each statement sees    *)
(* what is committed when it starts.                                       *)
(*                                                                         *)
(* Sources: services/domain/appointment/appointmentService.ts,             *)
(* repositories/appointmentRepository.ts, constants/appointmentStatus.ts,  *)
(* jobs/appointment/AutoCompleteAppointmentsJob.ts, services/domain/       *)
(* appointment/appointmentRescheduleService.ts,                            *)
(* services/domain/business/businessService.ts (closing a day),            *)
(* controllers/userBehaviorController.ts (banning a customer) and the      *)
(* migration 20260621000000_restore_appointment_overlap_constraint.        *)
(***************************************************************************)
EXTENDS Integers, FiniteSets

CONSTANTS
  Appointments,      \* row ids (apt_<uuid>)
  Staff,             \* business_staff ids
  Customers,         \* users who own appointments
  NoOne,             \* no staff member assigned (staffId null) / no customer
  Requests,          \* HTTP requests in flight
  Jobs,              \* application instances, each running the cron job
  Durations,         \* durations the service may have
  Endpoints,         \* groups of handlers an instance of the model exercises
  Starts,            \* start times that requests ask for
  UpdateStatuses,    \* statuses staff send to the update endpoints
  Keep,              \* an update request without a status
  MaxTime,           \* bound on the clock
  DayLength,         \* ticks in a day
  Skew,              \* Istanbul wall clock minus the clock of `new Date()`
  ServiceMinNotice,  \* service.minAdvanceBooking
  BusinessMinNotice, \* reservationSettings.minNotificationHours
  MaxAdvanceDays,    \* reservationSettings.maxAdvanceBookingDays
  ServiceMaxAdvance, \* service.maxAdvanceBooking
  MaxDaily,          \* reservationSettings.maxDailyAppointments
  DefaultDuration    \* `serviceDuration || 60`

ASSUME NoOneAssumption ==
  /\ NoOne \notin Staff \cup Customers
  /\ NoOne \notin [staff : Staff, start : Nat, end : Nat]
ASSUME TimeAssumption ==
  /\ MaxTime \in Nat
  /\ DayLength \in Nat \ {0}
  /\ Skew \in Nat
  /\ Starts \subseteq Nat
ASSUME DurationAssumption ==
  /\ Durations \subseteq Nat \ {0}
  /\ DefaultDuration \in Nat \ {0}
ASSUME RulesAssumption ==
  /\ {ServiceMinNotice, BusinessMinNotice, MaxAdvanceDays} \subseteq Nat
  /\ {ServiceMaxAdvance, MaxDaily} \subseteq Nat

Times == 0 .. MaxTime

(***************************************************************************)
(* "NONE" is a row that has not been inserted.  No code deletes a row.     *)
(***************************************************************************)
Statuses == {"PENDING", "PENDING_APPROVAL", "CONFIRMED", "IN_PROGRESS",
             "COMPLETED", "CANCELED", "NO_SHOW", "REJECTED_BY_BUSINESS"}

ASSUME StatusAssumption ==
  /\ UpdateStatuses \subseteq Statuses
  /\ Keep \notin Statuses

\* ACTIVE_APPOINTMENT_STATUSES: what the application treats as a taken slot.
ActiveStatuses == {"PENDING", "PENDING_APPROVAL", "CONFIRMED", "IN_PROGRESS"}

\* What the exclusion constraint appointments_no_overlap_per_staff covers.
ConstrainedStatuses == {"PENDING", "CONFIRMED", "IN_PROGRESS"}

\* The statuses the completion job and the read paths complete.
RunningStatuses == {"CONFIRMED", "IN_PROGRESS"}

VARIABLES
  now,   \* Istanbul wall clock, what getCurrentTimeInIstanbul returns
  rows,  \* the appointments table
  req,   \* where each request is, with the data it holds
  job    \* where each instance's completion job is

vars == <<now, rows, req, job>>

FreeRow == [status |-> "NONE", staff |-> NoOne, cust |-> NoOne,
            date |-> 0, start |-> 0, dur |-> 0, end |-> 0]

Row == [status : Statuses \cup {"NONE"}, staff : Staff \cup {NoOne},
        cust : Customers \cup {NoOne}, date : Nat,
        start : Nat, dur : Nat, end : Nat]

Idle == [op |-> "idle"]

BookingState == [op : {"bookRules", "bookConflicts", "bookInsert"},
                 staff : Staff \cup {NoOne}, cust : Customers,
                 start : Starts, dur : Durations, forOther : BOOLEAN]

OneRowState == [op : {"approve", "reject", "cancel"}, id : Appointments]

RescheduleState == [op : {"rescheduleConflicts", "rescheduleWrite"},
                    id : Appointments, start : Nat, date : Nat,
                    edit : {"full", "time", "date"},
                    dur : Durations, status : UpdateStatuses \cup {Keep}]

ManyRowsState == [op : {"monitor", "closeDay", "ban"}, ids : SUBSET Appointments]

AutoState == [op : {"auto"}, ids : SUBSET Appointments, after : Nat]

AutoRowState == [op : {"autoRules", "autoWrite"}, ids : SUBSET Appointments, after : Nat,
                 id : Appointments, start : Starts]

PromoteState == [op : {"promote"}, ids : SUBSET Appointments, at : Times]

RequestState == {Idle} \cup BookingState \cup OneRowState \cup RescheduleState
                \cup ManyRowsState \cup AutoState \cup AutoRowState \cup PromoteState

JobState == [found : SUBSET Appointments]

TypeOK ==
  /\ now \in Times
  /\ rows \in [Appointments -> Row]
  /\ req \in [Requests -> RequestState]
  /\ job \in [Jobs -> JobState]

Init ==
  /\ now = 0
  /\ rows = [i \in Appointments |-> FreeRow]
  /\ req = [p \in Requests |-> Idle]
  /\ job = [j \in Jobs |-> [found |-> {}]]

-----------------------------------------------------------------------------
(* Queries *)

Exists(i) == rows[i].status # "NONE"

DayOf(t) == t \div DayLength

\* validateBusinessReservationRules reads the server clock, not Istanbul's.
RulesClock == now - Skew

\* findByBusinessAndDateRange: rows that start, end or span in the day.
RowsTouching(day) ==
  {i \in Appointments :
     /\ Exists(i)
     /\ DayOf(rows[i].start) <= day
     /\ DayOf(rows[i].end) >= day}

\* The range query of the transaction: rows that start in the day.
RowsStartingOn(day) ==
  {i \in Appointments : Exists(i) /\ DayOf(rows[i].start) = day}

Overlap(a, b, c, d) == a < d /\ c < b

\* Faults: the limit is off by one; a customer's other bookings are ignored.
FaultLimitOffByOne(dayRows, c, t, d, notice, forOther) ==
  LET counted == {i \in dayRows : rows[i].status # "CANCELED"} IN
  /\ Cardinality(counted) <= MaxDaily
  /\ forOther \/ t > RulesClock
  /\ \A i \in counted :
       rows[i].cust = c => ~Overlap(t, t + d, rows[i].start, rows[i].end)
FaultIgnoresCustomer(dayRows, c, t, d, notice, forOther) ==
  LET counted == {i \in dayRows : rows[i].status # "CANCELED"} IN
  /\ Cardinality(counted) < MaxDaily
  /\ forOther \/ t > RulesClock

(***************************************************************************)
(* The reservation rules, for a customer c asking for [t, t + d).          *)
(* dayRows is the answer of the day's query.  Staff who book for a         *)
(* customer (forOther) skip the notice and advance limits and may use the  *)
(* part of today that has passed.                                          *)
(***************************************************************************)
RulesAllow(dayRows, c, t, d, notice, forOther) ==
  LET counted == {i \in dayRows : rows[i].status # "CANCELED"} IN
  /\ IF forOther
       THEN DayOf(t) >= DayOf(RulesClock)
       ELSE /\ t > RulesClock
            /\ DayOf(t) - DayOf(RulesClock) <= MaxAdvanceDays
            /\ t - RulesClock >= notice
  /\ Cardinality(counted) < MaxDaily
  /\ \A i \in counted :
       rows[i].cust = c => ~Overlap(t, t + d, rows[i].start, rows[i].end)

\* The three alternatives the conflict queries spell out for a row r.
SlotQuery(r, t, e) ==
  \/ r.start <= t /\ r.end > t
  \/ r.start < e /\ r.end >= e
  \/ r.start >= t /\ r.end <= e

\* Fault: rows that wait for approval do not count as taken.
FaultPendingIsFree(s, date, t, e, exclude) ==
  {i \in Appointments \ exclude :
     /\ rows[i].status \in ConstrainedStatuses
     /\ rows[i].date = date
     /\ s # NoOne => rows[i].staff = s
     /\ SlotQuery(rows[i], t, e)}

\* findConflictingAppointments; without a staff member, any row of the day.
Conflicting(s, date, t, e, exclude) ==
  {i \in Appointments \ exclude :
     /\ rows[i].status \in ActiveStatuses
     /\ rows[i].date = date
     /\ s # NoOne => rows[i].staff = s
     /\ SlotQuery(rows[i], t, e)}

-----------------------------------------------------------------------------
(* The database: what an INSERT or UPDATE of a row may write *)

Holds(r) == r.staff # NoOne /\ r.status \in ConstrainedStatuses

Clash(r, q) ==
  /\ Holds(r) /\ Holds(q)
  /\ r.staff = q.staff
  /\ Overlap(r.start, r.end, q.start, q.end)

\* Faults that the checks must notice: the constraint dropped by a migration,
\* and a constraint that only an INSERT meets.
FaultNoConstraint(i, r) == TRUE
FaultInsertOnly(i, r) ==
  rows[i].status = "NONE" => \A k \in Appointments \ {i} : ~Clash(r, rows[k])

\* The exclusion constraint compares the written row with all the others.
Admitted(i, r) == \A k \in Appointments \ {i} : ~Clash(r, rows[k])

\* A refused statement changes nothing: the handler answers 409 or 500.
Write(i, r) ==
  rows' = IF Admitted(i, r) THEN [rows EXCEPT ![i] = r] ELSE rows

WithStatus(i, s) == [rows[i] EXCEPT !.status = s]

SetStatus(ids, s) ==
  [i \in Appointments |-> IF i \in ids THEN WithStatus(i, s) ELSE rows[i]]

Begin(p, state) == req[p] = Idle /\ req' = [req EXCEPT ![p] = state]
Continue(p, state) == req' = [req EXCEPT ![p] = state]
Finish(p) == req' = [req EXCEPT ![p] = Idle]
-----------------------------------------------------------------------------
(* createAppointment *)

(***************************************************************************)
(* The checks before the transaction: reservation rules with the service's *)
(* own notice, the service's advance limit, conflicts of the slot.  The    *)
(* transaction repeats both queries, so they are one step here.            *)
(***************************************************************************)
BookCheck(p, c, s, t, d, forOther) ==
  /\ RulesAllow(RowsTouching(DayOf(t)), c, t, d, ServiceMinNotice, forOther)
  /\ DayOf(t) - DayOf(now) <= ServiceMaxAdvance
  /\ Conflicting(s, DayOf(t), t, t + d, {}) = {}
  /\ Begin(p, [op |-> "bookRules", staff |-> s, cust |-> c, start |-> t,
               dur |-> d, forOther |-> forOther])
  /\ UNCHANGED <<now, rows, job>>

\* In the transaction: read the service again, then the rules.
BookRules(p) ==
  /\ req[p].op = "bookRules"
  /\ \E d \in Durations :
       IF RulesAllow(RowsStartingOn(DayOf(req[p].start)), req[p].cust,
                     req[p].start, d, BusinessMinNotice, req[p].forOther)
         THEN Continue(p, [req[p] EXCEPT !.op = "bookConflicts", !.dur = d])
         ELSE Finish(p)
  /\ UNCHANGED <<now, rows, job>>

\* In the transaction: the conflict query again.
BookConflicts(p) ==
  /\ req[p].op = "bookConflicts"
  /\ LET q == req[p] IN
     IF Conflicting(q.staff, DayOf(q.start), q.start, q.start + q.dur, {}) = {}
       THEN Continue(p, [q EXCEPT !.op = "bookInsert"])
       ELSE Finish(p)
  /\ UNCHANGED <<now, rows, job>>

(***************************************************************************)
(* The INSERT and the commit.  The owner may have switched requireApproval *)
(* either way by now; staff bookings skip it.                              *)
(***************************************************************************)
BookInsert(p) ==
  /\ req[p].op = "bookInsert"
  /\ LET q == req[p] IN
     \E i \in Appointments, s \in {"CONFIRMED", "PENDING_APPROVAL"} :
       /\ ~Exists(i)
       /\ q.forOther => s = "CONFIRMED"
       /\ Write(i, [status |-> s, staff |-> q.staff, cust |-> q.cust,
                    date |-> DayOf(q.start), start |-> q.start,
                    dur |-> q.dur, end |-> q.start + q.dur])
  /\ Finish(p)
  /\ UNCHANGED <<now, job>>

\* Bound: the request ends without a row when the model has no id left.
BookNoRoom(p) ==
  /\ req[p].op = "bookInsert"
  /\ \A i \in Appointments : Exists(i)
  /\ Finish(p)
  /\ UNCHANGED <<now, rows, job>>

-----------------------------------------------------------------------------
(* Handlers that test the status they read and then write by id alone *)

ApproveRead(p, i) ==
  /\ rows[i].status = "PENDING_APPROVAL"
  /\ Begin(p, [op |-> "approve", id |-> i])
  /\ UNCHANGED <<now, rows, job>>

\* Fault: a status that the enum does not have.
FaultApproved(p) ==
  /\ req[p].op = "approve"
  /\ Write(req[p].id, WithStatus(req[p].id, "APPROVED"))
  /\ Finish(p)
  /\ UNCHANGED <<now, job>>

ApproveWrite(p) ==
  /\ req[p].op = "approve"
  /\ Write(req[p].id, WithStatus(req[p].id, "CONFIRMED"))
  /\ Finish(p)
  /\ UNCHANGED <<now, job>>

RejectRead(p, i) ==
  /\ rows[i].status = "PENDING_APPROVAL"
  /\ Begin(p, [op |-> "reject", id |-> i])
  /\ UNCHANGED <<now, rows, job>>

RejectWrite(p) ==
  /\ req[p].op = "reject"
  /\ Write(req[p].id, WithStatus(req[p].id, "REJECTED_BY_BUSINESS"))
  /\ Finish(p)
  /\ UNCHANGED <<now, job>>

CancelRead(p, i) ==
  /\ Exists(i)
  /\ rows[i].status \notin {"COMPLETED", "CANCELED"}
  /\ Begin(p, [op |-> "cancel", id |-> i])
  /\ UNCHANGED <<now, rows, job>>

CancelWrite(p) ==
  /\ req[p].op = "cancel"
  /\ Write(req[p].id, WithStatus(req[p].id, "CANCELED"))
  /\ Finish(p)
  /\ UNCHANGED <<now, job>>

\* cancelAppointmentsForScheduleChange: one findUnique per chosen row, ...
CloseDayRead(p, i) ==
  /\ Exists(i)
  /\ rows[i].status \notin {"COMPLETED", "CANCELED"}
  /\ \/ Begin(p, [op |-> "closeDay", ids |-> {i}])
     \/ /\ req[p].op = "closeDay"
        /\ i \notin req[p].ids
        /\ Continue(p, [req[p] EXCEPT !.ids = @ \cup {i}])
  /\ UNCHANGED <<now, rows, job>>

\* ... then all of them are updated in one transaction.
CloseDayWrite(p) ==
  /\ req[p].op = "closeDay"
  /\ rows' = SetStatus(req[p].ids, "CANCELED")
  /\ Finish(p)
  /\ UNCHANGED <<now, job>>

\* Banning a customer cancels the rows found; PENDING_APPROVAL ones stay.
BanRead(p, c) ==
  LET found == {i \in Appointments :
                  /\ rows[i].cust = c
                  /\ rows[i].status \in {"PENDING", "CONFIRMED"}
                  /\ rows[i].date * DayLength >= RulesClock} IN
  /\ found # {}
  /\ Begin(p, [op |-> "ban", ids |-> found])
  /\ UNCHANGED <<now, rows, job>>

BanWrite(p) ==
  /\ req[p].op = "ban"
  /\ rows' = SetStatus(req[p].ids, "CANCELED")
  /\ Finish(p)
  /\ UNCHANGED <<now, job>>

(***************************************************************************)
(* getMonitorAppointments, the waiting-room screen: a read path that       *)
(* promotes the rows it saw as CONFIRMED with one updateMany by id.  The   *)
(* statement fails as a whole when the constraint refuses a row.  who is   *)
(* the staff the viewer may see.                                           *)
(***************************************************************************)
MonitorRead(p, day, who) ==
  LET seen == {i \in RowsTouching(day) :
                 /\ rows[i].staff \in who
                 /\ rows[i].status = "CONFIRMED"
                 /\ rows[i].start <= now /\ now < rows[i].end} IN
  /\ seen # {}
  /\ Begin(p, [op |-> "monitor", ids |-> seen])
  /\ UNCHANGED <<now, rows, job>>

MonitorWrite(p) ==
  /\ req[p].op = "monitor"
  /\ LET new == SetStatus(req[p].ids, "IN_PROGRESS") IN
     rows' = IF \A i, k \in Appointments : i # k => ~Clash(new[i], new[k])
               THEN new ELSE rows
  /\ Finish(p)
  /\ UNCHANGED <<now, job>>

-----------------------------------------------------------------------------
(* updateAppointment *)

(***************************************************************************)
(* The checks of a reschedule to start t of the day date: the rules with   *)
(* the default duration, as a customer, counting the row itself.  An edit  *)
(* gives a day and a time ("full"), a time of the row's day ("time") or    *)
(* only a day ("date").  The service is read afterwards.                   *)
(***************************************************************************)
RescheduleRead(p, i, t, date, edit, s) ==
  /\ Exists(i)
  /\ RulesAllow(RowsTouching(DayOf(t)), rows[i].cust, t, DefaultDuration,
                BusinessMinNotice, FALSE)
  /\ \E d \in Durations :
       Begin(p, [op |-> "rescheduleConflicts", id |-> i, start |-> t,
                 date |-> date, edit |-> edit, dur |-> d, status |-> s])
  /\ UNCHANGED <<now, rows, job>>

\* The day of a time-only edit: toISOString() of midnight in the server's time
\* zone, the day before on a server that runs on Istanbul time (no Skew).
CheckedDay(i) == IF Skew = 0 THEN rows[i].date - 1 ELSE rows[i].date

\* The conflict query names no staff member and leaves out the row itself.
RescheduleConflicts(p) ==
  /\ req[p].op = "rescheduleConflicts"
  /\ LET q == req[p] IN
     IF Conflicting(NoOne, q.date, q.start, q.start + q.dur, {q.id}) = {}
       THEN Continue(p, [q EXCEPT !.op = "rescheduleWrite"])
       ELSE Finish(p)
  /\ UNCHANGED <<now, rows, job>>

\* A time-only edit keeps the day the row has when it is written.
EditedStart(r, q) ==
  IF q.edit = "time" THEN r.date * DayLength + (q.start % DayLength) ELSE q.start

\* Fault: the earlier update(), which left the end time stale.
FaultStaleEnd(r, q) ==
  IF q.edit = "date" THEN [r EXCEPT !.date = q.date]
                     ELSE [r EXCEPT !.start = EditedStart(r, q)]

\* update(): a new start time recomputes end and date; a date alone does not.
Moved(r, start) ==
  [r EXCEPT !.start = start, !.end = start + r.dur, !.date = DayOf(start)]

Edited(r, q) ==
  IF q.edit = "date" THEN [r EXCEPT !.date = q.date] ELSE Moved(r, EditedStart(r, q))

\* A CANCELED status takes the way of cancel(), which leaves the times alone.
Rescheduled(r, q) ==
  CASE q.status = "CANCELED" -> [r EXCEPT !.status = "CANCELED"]
    [] q.status = Keep -> Edited(r, q)
    [] OTHER -> [Edited(r, q) EXCEPT !.status = q.status]

RescheduleWrite(p) ==
  /\ req[p].op = "rescheduleWrite"
  /\ Write(req[p].id, Rescheduled(rows[req[p].id], req[p]))
  /\ Finish(p)
  /\ UNCHANGED <<now, job>>

-----------------------------------------------------------------------------
(* autoRescheduleAppointments, when the business closes *)

\* The rows found CONFIRMED on the days of the closure, one after another.
AutoList(p, first, last) ==
  LET found == {i \in Appointments :
                  rows[i].status = "CONFIRMED" /\ DayOf(rows[i].start) \in first .. last} IN
  /\ found # {}
  /\ Begin(p, [op |-> "auto", ids |-> found, after |-> last])
  /\ UNCHANGED <<now, rows, job>>

AutoNext(p, ids) ==
  IF ids = {} THEN Finish(p)
              ELSE Continue(p, [op |-> "auto", ids |-> ids, after |-> req[p].after])

\* findAvailableSlots: for the row as it is by now, a time after the closure at
\* which its staff member has no CONFIRMED row; rows that wait do not count.
AutoSlot(p, i, t) ==
  /\ req[p].op = "auto"
  /\ i \in req[p].ids
  /\ DayOf(t) > req[p].after
  /\ \A k \in Appointments :
       /\ rows[k].status = "CONFIRMED"
       /\ rows[i].staff # NoOne => rows[k].staff = rows[i].staff
       => ~Overlap(t, t + rows[i].dur, rows[k].start, rows[k].end)
  /\ Continue(p, [op |-> "autoRules", ids |-> req[p].ids \ {i}, after |-> req[p].after,
                  id |-> i, start |-> t])
  /\ UNCHANGED <<now, rows, job>>

\* There is none, or the step fails: the row stays where it is.
AutoSkip(p, i) ==
  /\ req[p].op = "auto"
  /\ i \in req[p].ids
  /\ AutoNext(p, req[p].ids \ {i})
  /\ UNCHANGED <<now, rows, job>>

\* The rules of this service: no other row of the customer on that day at all.
AutoAllowed(i, t) ==
  LET counted == {k \in Appointments :
                    /\ rows[k].status \notin {"NONE", "CANCELED"}
                    /\ rows[k].date = DayOf(t)} IN
  /\ DayOf(t) - DayOf(RulesClock) <= MaxAdvanceDays
  /\ t - RulesClock >= ServiceMinNotice
  /\ Cardinality(counted) < MaxDaily
  /\ \A k \in counted : rows[k].cust # rows[i].cust

AutoRules(p) ==
  /\ req[p].op = "autoRules"
  /\ IF AutoAllowed(req[p].id, req[p].start)
       THEN Continue(p, [req[p] EXCEPT !.op = "autoWrite"])
       ELSE AutoNext(p, req[p].ids)
  /\ UNCHANGED <<now, rows, job>>

\* update() by id: moved and CONFIRMED, whatever became of the row meanwhile.
AutoWrite(p) ==
  /\ req[p].op = "autoWrite"
  /\ Write(req[p].id, [Moved(rows[req[p].id], req[p].start) EXCEPT !.status = "CONFIRMED"])
  /\ AutoNext(p, req[p].ids)
  /\ UNCHANGED <<now, job>>

-----------------------------------------------------------------------------
(***************************************************************************)
(* Handlers that read the row only to find it and the caller's rights: no  *)
(* status is tested and no row is ever deleted, so each is one step.       *)
(***************************************************************************)
UpdateStatus(i, s) ==
  /\ Exists(i)
  /\ Write(i, WithStatus(i, s))
  /\ UNCHANGED <<now, req, job>>

ConfirmAppointment(i) == UpdateStatus(i, "CONFIRMED")
CompleteAppointment(i) == UpdateStatus(i, "COMPLETED")
MarkNoShow(i) == UpdateStatus(i, "NO_SHOW")
BatchCancel(i) == UpdateStatus(i, "CANCELED")
StaffUpdate(i, s) == UpdateStatus(i, s)

-----------------------------------------------------------------------------
(* Completion: the read paths' updateMany pair and the cron job *)

Ended(i) == rows[i].status \in RunningStatuses /\ rows[i].end < now

\* finalizeEndedAppointmentsIfStale, first statement; ids is its filter.
FinalizeComplete(p, ids) ==
  /\ Begin(p, [op |-> "promote", ids |-> ids, at |-> now])
  /\ rows' = SetStatus({i \in ids : Ended(i)}, "COMPLETED")
  /\ UNCHANGED <<now, job>>

\* Second statement, with the time the handler read before the first.
FinalizePromote(p) ==
  /\ req[p].op = "promote"
  /\ rows' = SetStatus({i \in req[p].ids :
                          /\ rows[i].status = "CONFIRMED"
                          /\ rows[i].start <= req[p].at
                          /\ rows[i].end > req[p].at}, "IN_PROGRESS")
  /\ Finish(p)
  /\ UNCHANGED <<now, job>>

\* Fault: the job looks for CONFIRMED rows only, as its summary line says.
FaultConfirmedOnly(j) ==
  LET due == {i \in Appointments : Ended(i) /\ rows[i].status = "CONFIRMED"} IN
  /\ job[j].found = {}
  /\ due # {}
  /\ job' = [job EXCEPT ![j].found = due]
  /\ UNCHANGED <<now, rows, req>>

\* findAppointmentsEligibleForAutoComplete
JobFind(j) ==
  /\ job[j].found = {}
  /\ \E i \in Appointments : Ended(i)
  /\ job' = [job EXCEPT ![j].found = {i \in Appointments : Ended(i)}]
  /\ UNCHANGED <<now, rows, req>>

\* Fault: the update by id alone.
FaultMarkById(j) ==
  /\ job[j].found # {}
  /\ rows' = SetStatus(job[j].found, "COMPLETED")
  /\ job' = [job EXCEPT ![j].found = {}]
  /\ UNCHANGED <<now, req>>

\* markAppointmentsAsCompleted: tests the status again, not the end time.
JobMark(j) ==
  /\ job[j].found # {}
  /\ rows' = SetStatus({i \in job[j].found :
                          rows[i].status \in RunningStatuses}, "COMPLETED")
  /\ job' = [job EXCEPT ![j].found = {}]
  /\ UNCHANGED <<now, req>>

Tick == now < MaxTime /\ now' = now + 1 /\ UNCHANGED <<rows, req, job>>

-----------------------------------------------------------------------------
BookStep(p) ==
  \/ \E c \in Customers, s \in Staff \cup {NoOne}, t \in Starts,
       d \in Durations, forOther \in BOOLEAN : BookCheck(p, c, s, t, d, forOther)
  \/ BookRules(p)
  \/ BookConflicts(p)
  \/ BookInsert(p)
  \/ BookNoRoom(p)

DecideStep(p) ==
  \/ \E i \in Appointments : ApproveRead(p, i) \/ RejectRead(p, i) \/ CancelRead(p, i)
  \/ ApproveWrite(p)
  \/ RejectWrite(p)
  \/ CancelWrite(p)

BulkStep(p) ==
  \/ \E i \in Appointments : CloseDayRead(p, i)
  \/ CloseDayWrite(p)
  \/ \E c \in Customers : BanRead(p, c)
  \/ BanWrite(p)

MonitorStep(p) ==
  \/ \E who \in SUBSET (Staff \cup {NoOne}) : MonitorRead(p, DayOf(now), who)
  \/ MonitorWrite(p)

RescheduleStep(p) ==
  \/ \E i \in Appointments, t \in Starts, s \in UpdateStatuses \cup {Keep} :
       \/ RescheduleRead(p, i, t, DayOf(t), "full", s)
       \/ RescheduleRead(p, i, CheckedDay(i) * DayLength + (t % DayLength),
                         rows[i].date, "time", s)
       \/ RescheduleRead(p, i, rows[i].start, DayOf(t), "date", s)
  \/ RescheduleConflicts(p)
  \/ RescheduleWrite(p)

AutoStep(p) ==
  \/ \E t, u \in Starts : AutoList(p, DayOf(t), DayOf(u))
  \/ \E i \in Appointments, t \in Starts : AutoSlot(p, i, t)
  \/ \E i \in Appointments : AutoSkip(p, i)
  \/ AutoRules(p)
  \/ AutoWrite(p)

FinalizeStep(p) ==
  \/ \E ids \in SUBSET Appointments : FinalizeComplete(p, ids)
  \/ FinalizePromote(p)

OneStep(i) ==
  \/ ConfirmAppointment(i)
  \/ CompleteAppointment(i)
  \/ MarkNoShow(i)
  \/ BatchCancel(i)
  \/ \E s \in UpdateStatuses : StaffUpdate(i, s)

JobStep(j) == JobFind(j) \/ JobMark(j)

Next ==
  \/ \E p \in Requests :
       \/ BookStep(p)
       \/ "decide" \in Endpoints /\ DecideStep(p)
       \/ "bulk" \in Endpoints /\ BulkStep(p)
       \/ "monitor" \in Endpoints /\ MonitorStep(p)
       \/ "reschedule" \in Endpoints /\ RescheduleStep(p)
       \/ "auto" \in Endpoints /\ AutoStep(p)
       \/ "finalize" \in Endpoints /\ FinalizeStep(p)
  \/ "status" \in Endpoints /\ \E i \in Appointments : OneStep(i)
  \/ \E j \in Jobs : JobStep(j)
  \/ Tick

Spec == Init /\ [][Next]_vars

\* node-cron starts the job on every tick of its schedule in each instance.
FairSpec == Spec /\ \A j \in Jobs : WF_vars(JobFind(j)) /\ WF_vars(JobMark(j))

-----------------------------------------------------------------------------
(* Properties *)

(***************************************************************************)
(* No double booking: whatever requests, screens and jobs interleave, a    *)
(* staff member never has two PENDING, CONFIRMED or IN_PROGRESS rows that  *)
(* overlap.  Every handler writes by id from a stale read; the exclusion   *)
(* constraint and the promotion of rows that already hold their slot have  *)
(* to make up for it.                                                      *)
(***************************************************************************)
NoDoubleBooking ==
  \A i, k \in Appointments : i # k => ~Clash(rows[i], rows[k])

(***************************************************************************)
(* A row's end time is its start time plus its own duration after every    *)
(* sequence of bookings and edits (update() once left the end stale), and  *)
(* a row with an assigned slot is not empty.                               *)
(***************************************************************************)
IntervalIntact ==
  \A i \in Appointments : Exists(i) =>
    rows[i].dur > 0 /\ rows[i].end = rows[i].start + rows[i].dur

(***************************************************************************)
(* A handler that will write by id holds only ids of rows that were        *)
(* inserted, in every handler and at every point where it waits: an id is  *)
(* written without testing again that the row is there.                    *)
(***************************************************************************)
RequestsKnowRows ==
  \A p \in Requests :
    /\ req[p].op \in {"approve", "reject", "cancel",
                     "rescheduleConflicts", "rescheduleWrite",
                     "autoRules", "autoWrite"} => Exists(req[p].id)
    /\ req[p].op \in {"monitor", "closeDay", "ban", "auto", "autoRules", "autoWrite"} => \A i \in req[p].ids : Exists(i)

(***************************************************************************)
(* The completion job leaves every row alone that is not CONFIRMED or      *)
(* IN_PROGRESS when it writes, however old its list is: "Does not change   *)
(* CANCELED or NO_SHOW".                                                   *)
(***************************************************************************)
JobKeepsDecided ==
  [][\A i \in Appointments :
       (\E j \in Jobs : JobMark(j)) /\ rows[i].status \notin RunningStatuses
         => rows'[i] = rows[i]]_vars

(***************************************************************************)
(* Only a row that exists holds a slot, so the slots held by the book are  *)
(* the calendar the abstract specification speaks of.                      *)
(***************************************************************************)
HeldBy(r) ==
  IF Holds(r) THEN [staff |-> r.staff, start |-> r.start, end |-> r.end]
              ELSE NoOne

Calendar == INSTANCE StaffCalendar
  WITH Free <- NoOne, held <- [i \in Appointments |-> HeldBy(rows[i])]

\* The book implements the staff calendar.
ImplementsCalendar == Calendar!Spec

(***************************************************************************)
(* A row whose end has passed does not stay CONFIRMED or IN_PROGRESS: the  *)
(* job of some instance completes it, or it is moved or decided otherwise. *)
(***************************************************************************)
EndedIsCompleted == \A i \in Appointments : Ended(i) ~> ~Ended(i)

-----------------------------------------------------------------------------
(* What the application's own checks guarantee when requests do not race *)

(***************************************************************************)
(* With one request at a time, two rows of a staff member and a day that   *)
(* occupy a slot in the application's sense, PENDING_APPROVAL included,    *)
(* never overlap.                                                          *)
(***************************************************************************)
ActiveSlotsDisjoint ==
  \A i, k \in Appointments :
    /\ i # k
    /\ rows[i].status \in ActiveStatuses /\ rows[k].status \in ActiveStatuses
    /\ rows[i].staff # NoOne /\ rows[i].staff = rows[k].staff
    /\ rows[i].date = rows[k].date
    => ~Overlap(rows[i].start, rows[i].end, rows[k].start, rows[k].end)

\* No more rows that are not CANCELED start in a day than the daily limit.
DailyLimitKept ==
  \A day \in {DayOf(rows[i].start) : i \in Appointments} :
    Cardinality({i \in RowsStartingOn(day) : rows[i].status # "CANCELED"}) <= MaxDaily

\* A customer never has two overlapping rows that occupy slots of one day.
CustomerNotTwice ==
  \A i, k \in Appointments :
    /\ i # k
    /\ rows[i].status \in ActiveStatuses /\ rows[k].status \in ActiveStatuses
    /\ rows[i].cust = rows[k].cust
    /\ rows[i].date = rows[k].date
    => ~Overlap(rows[i].start, rows[i].end, rows[k].start, rows[k].end)

-----------------------------------------------------------------------------
(* What a message of the code says *)

(***************************************************************************)
(* "Only pending-approval appointments can be approved": the row an        *)
(* approval confirms is still waiting for it.                              *)
(***************************************************************************)
ApprovesOnlyPending ==
  [][\A p \in Requests :
       ApproveWrite(p) => rows[req[p].id].status = "PENDING_APPROVAL"]_vars

=============================================================================
