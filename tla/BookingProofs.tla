--------------------------- MODULE BookingProofs ---------------------------
(***************************************************************************)
(* Proofs about Booking for every number of rows, staff, customers,        *)
(* requests and instances, and every setting of the reservation rules.     *)
(***************************************************************************)
EXTENDS Slots, FiniteSetTheorems, TLAPS

USE DEF Times

(***************************************************************************)
(* The three alternatives of the conflict query are the overlap of two     *)
(* half-open intervals, so the application and the constraint ask the same *)
(* question of times.                                                      *)
(***************************************************************************)
THEOREM SlotQueryIsOverlap ==
  ASSUME NEW r, r.start \in Nat, r.end \in Nat, r.start < r.end,
         NEW t \in Nat, NEW e \in Nat, t < e
  PROVE  SlotQuery(r, t, e) <=> Overlap(r.start, r.end, t, e)
BY DEF SlotQuery, Overlap

LEMMA DayOfNat == ASSUME NEW t \in Nat PROVE DayOf(t) \in Nat
BY TimeAssumption DEF DayOf

LEMMA WithStatusType ==
  ASSUME rows \in [Appointments -> Row], NEW i \in Appointments,
         NEW s \in Statuses
  PROVE  WithStatus(i, s) \in Row
BY DEF WithStatus, Row

LEMMA SetStatusType ==
  ASSUME rows \in [Appointments -> Row], NEW S, NEW s \in Statuses
  PROVE  SetStatus(S, s) \in [Appointments -> Row]
BY WithStatusType DEF SetStatus

\* A refused or accepted statement leaves the table well typed.
LEMMA WriteType ==
  ASSUME rows \in [Appointments -> Row], NEW i \in Appointments,
         NEW r \in Row, Write(i, r)
  PROVE  rows' \in [Appointments -> Row]
BY DEF Write

\* What a request carries, by the handler it is in.
LEMMA RequestFields ==
  ASSUME TypeOK, NEW p \in Requests
  PROVE  /\ req[p].op \in {"bookRules", "bookConflicts", "bookInsert"}
              => req[p] \in BookingState
         /\ req[p].op \in {"approve", "reject", "cancel"} => req[p] \in OneRowState
         /\ req[p].op \in {"rescheduleConflicts", "rescheduleWrite"}
              => req[p] \in RescheduleState
         /\ req[p].op \in {"monitor", "closeDay", "ban"} => req[p] \in ManyRowsState
         /\ req[p].op = "auto" => req[p] \in AutoState
         /\ req[p].op \in {"autoRules", "autoWrite"} => req[p] \in AutoRowState
         /\ req[p].op = "promote" => req[p] \in PromoteState
<1>1. req[p] \in RequestState
  BY DEF TypeOK
<1>. QED  BY <1>1 DEF RequestState, Idle, BookingState, OneRowState,
                    RescheduleState, ManyRowsState, AutoState, AutoRowState, PromoteState

\* A request that moves on to a typed state keeps the requests well typed.
LEMMA RequestStepType ==
  ASSUME req \in [Requests -> RequestState], NEW p \in Requests,
         NEW q \in RequestState, req' = [req EXCEPT ![p] = q]
  PROVE  req' \in [Requests -> RequestState]
OBVIOUS

LEMMA FinishType ==
  ASSUME req \in [Requests -> RequestState], NEW p \in Requests, Finish(p)
  PROVE  req' \in [Requests -> RequestState]
BY DEF Finish, RequestState

LEMMA UpdateStatusType ==
  ASSUME TypeOK, NEW i \in Appointments, NEW s \in Statuses, UpdateStatus(i, s)
  PROVE  TypeOK'
<1>1. rows' \in [Appointments -> Row]
  BY WithStatusType, WriteType DEF TypeOK, UpdateStatus
<1>. QED  BY <1>1 DEF TypeOK, UpdateStatus

-----------------------------------------------------------------------------
(* Typing, one lemma per group of handlers *)

LEMMA BookStepType ==
  ASSUME TypeOK, NEW p \in Requests, BookStep(p)
  PROVE  TypeOK'
<1>. USE DEF TypeOK
<1>1. ASSUME \E c \in Customers, s \in Staff \cup {NoOne}, t \in Starts,
             d \in Durations, forOther \in BOOLEAN :
               BookCheck(p, c, s, t, d, forOther)
      PROVE  TypeOK'
  <2>. PICK c \in Customers, s \in Staff \cup {NoOne}, t \in Starts,
            d \in Durations, forOther \in BOOLEAN :
              BookCheck(p, c, s, t, d, forOther)
    BY <1>1, Zenon
  <2>1. [op |-> "bookRules", staff |-> s, cust |-> c, start |-> t, dur |-> d,
         forOther |-> forOther] \in RequestState
    BY DEF RequestState, BookingState
  <2>. QED  BY <2>1, RequestStepType DEF BookCheck, Begin
<1>2. CASE BookRules(p)
  <2>1. req[p] \in BookingState
    BY <1>2, RequestFields DEF BookRules
  <2>2. \A d \in Durations :
          [req[p] EXCEPT !.op = "bookConflicts", !.dur = d] \in RequestState
    BY <2>1 DEF RequestState, BookingState
  <2>. QED  BY <1>2, <2>2, RequestStepType, FinishType DEF BookRules, Continue
<1>3. CASE BookConflicts(p)
  <2>1. req[p] \in BookingState
    BY <1>3, RequestFields DEF BookConflicts
  <2>2. [req[p] EXCEPT !.op = "bookInsert"] \in RequestState
    BY <2>1 DEF RequestState, BookingState
  <2>. QED  BY <1>3, <2>2, RequestStepType, FinishType DEF BookConflicts, Continue
<1>4. CASE BookInsert(p)
  <2>1. req[p] \in BookingState
    BY <1>4, RequestFields DEF BookInsert
  <2>2. /\ req[p].start \in Nat /\ req[p].dur \in Nat
        /\ req[p].staff \in Staff \cup {NoOne} /\ req[p].cust \in Customers
    BY <2>1, TimeAssumption, DurationAssumption DEF BookingState
  <2>3. DayOf(req[p].start) \in Nat
    BY <2>2, DayOfNat
  <2>4. PICK i \in Appointments, s \in {"CONFIRMED", "PENDING_APPROVAL"} :
          Write(i, [status |-> s, staff |-> req[p].staff, cust |-> req[p].cust,
                    date |-> DayOf(req[p].start), start |-> req[p].start,
                    dur |-> req[p].dur, end |-> req[p].start + req[p].dur])
    BY <1>4 DEF BookInsert
  <2>5. [status |-> s, staff |-> req[p].staff, cust |-> req[p].cust,
         date |-> DayOf(req[p].start), start |-> req[p].start,
         dur |-> req[p].dur, end |-> req[p].start + req[p].dur] \in Row
    BY <2>2, <2>3 DEF Row, Statuses
  <2>6. rows' \in [Appointments -> Row]
    BY <2>4, <2>5, WriteType
  <2>. QED  BY <1>4, <2>6, FinishType DEF BookInsert
<1>5. CASE BookNoRoom(p)
  BY <1>5, FinishType DEF BookNoRoom
<1>. QED  BY <1>1, <1>2, <1>3, <1>4, <1>5 DEF BookStep

LEMMA DecideStepType ==
  ASSUME TypeOK, NEW p \in Requests, DecideStep(p)
  PROVE  TypeOK'
<1>. USE DEF TypeOK
<1>1. ASSUME NEW i \in Appointments,
             ApproveRead(p, i) \/ RejectRead(p, i) \/ CancelRead(p, i)
      PROVE  TypeOK'
  <2>1. \A o \in {"approve", "reject", "cancel"} :
          [op |-> o, id |-> i] \in RequestState
    BY DEF RequestState, OneRowState
  <2>. QED  BY <1>1, <2>1, RequestStepType
            DEF ApproveRead, RejectRead, CancelRead, Begin
<1>2. ASSUME NEW s \in Statuses, req[p].op \in {"approve", "reject", "cancel"},
             Write(req[p].id, WithStatus(req[p].id, s)), Finish(p),
             UNCHANGED <<now, job>>
      PROVE  TypeOK'
  <2>1. req[p].id \in Appointments
    BY <1>2, RequestFields DEF OneRowState
  <2>2. rows' \in [Appointments -> Row]
    BY <1>2, <2>1, WithStatusType, WriteType
  <2>. QED  BY <1>2, <2>2, FinishType
<1>3. CASE ApproveWrite(p)
  BY <1>2, <1>3 DEF ApproveWrite, Statuses
<1>4. CASE RejectWrite(p)
  BY <1>2, <1>4 DEF RejectWrite, Statuses
<1>5. CASE CancelWrite(p)
  BY <1>2, <1>5 DEF CancelWrite, Statuses
<1>. QED  BY <1>1, <1>3, <1>4, <1>5 DEF DecideStep

LEMMA BulkStepType ==
  ASSUME TypeOK, NEW p \in Requests, BulkStep(p) \/ MonitorStep(p)
  PROVE  TypeOK'
<1>. USE DEF TypeOK
<1>1. \A o \in {"monitor", "closeDay", "ban"}, S \in SUBSET Appointments :
        [op |-> o, ids |-> S] \in RequestState
  BY DEF RequestState, ManyRowsState
<1>2. ASSUME NEW i \in Appointments, CloseDayRead(p, i)
      PROVE  TypeOK'
  <2>1. CASE Begin(p, [op |-> "closeDay", ids |-> {i}])
    <3>1. [op |-> "closeDay", ids |-> {i}] \in RequestState
      BY <1>1
    <3>. QED  BY <1>2, <2>1, <3>1, RequestStepType DEF CloseDayRead, Begin
  <2>2. CASE /\ req[p].op = "closeDay"
             /\ Continue(p, [req[p] EXCEPT !.ids = @ \cup {i}])
    <3>1. req[p] \in ManyRowsState
      BY <2>2, RequestFields
    <3>2. [req[p] EXCEPT !.ids = @ \cup {i}] \in RequestState
      BY <3>1 DEF RequestState, ManyRowsState
    <3>. QED  BY <1>2, <2>2, <3>2, RequestStepType DEF CloseDayRead, Continue
  <2>. QED  BY <1>2, <2>1, <2>2 DEF CloseDayRead
<1>3. ASSUME NEW c \in Customers, BanRead(p, c)
      PROVE  TypeOK'
  <2>. DEFINE found == {i \in Appointments :
                         /\ rows[i].cust = c
                         /\ rows[i].status \in {"PENDING", "CONFIRMED"}
                         /\ rows[i].date * DayLength >= RulesClock}
  <2>1. [op |-> "ban", ids |-> found] \in RequestState
    BY <1>1
  <2>2. Begin(p, [op |-> "ban", ids |-> found]) /\ UNCHANGED <<now, rows, job>>
    BY <1>3 DEF BanRead
  <2>. HIDE DEF found
  <2>. QED  BY <2>1, <2>2, RequestStepType DEF Begin
<1>4. ASSUME NEW who, MonitorRead(p, DayOf(now), who)
      PROVE  TypeOK'
  <2>. DEFINE seen == {i \in RowsTouching(DayOf(now)) :
                         /\ rows[i].staff \in who
                         /\ rows[i].status = "CONFIRMED"
                         /\ rows[i].start <= now /\ now < rows[i].end}
  <2>1. seen \in SUBSET Appointments
    BY DEF RowsTouching
  <2>2. Begin(p, [op |-> "monitor", ids |-> seen]) /\ UNCHANGED <<now, rows, job>>
    BY <1>4 DEF MonitorRead
  <2>. HIDE DEF seen
  <2>3. [op |-> "monitor", ids |-> seen] \in RequestState
    BY <1>1, <2>1
  <2>. QED  BY <2>2, <2>3, RequestStepType DEF Begin
<1>5. CASE CloseDayWrite(p) \/ BanWrite(p)
  BY <1>5, SetStatusType, FinishType DEF CloseDayWrite, BanWrite, Statuses
<1>6. CASE MonitorWrite(p)
  <2>1. SetStatus(req[p].ids, "IN_PROGRESS") \in [Appointments -> Row]
    BY SetStatusType DEF Statuses
  <2>. QED  BY <1>6, <2>1, FinishType DEF MonitorWrite
<1>. QED  BY <1>2, <1>3, <1>4, <1>5, <1>6 DEF BulkStep, MonitorStep

LEMMA RescheduleStarts ==
  ASSUME NEW d \in Nat, NEW t \in Nat
  PROVE  d * DayLength + (t % DayLength) \in Nat
<1>1. d * DayLength \in Nat
  BY TimeAssumption
<1>2. t % DayLength \in Nat
  BY TimeAssumption
<1>. QED  BY <1>1, <1>2

LEMMA EditedStartNat ==
  ASSUME NEW r \in Row, NEW q \in RescheduleState
  PROVE  EditedStart(r, q) \in Nat
BY RescheduleStarts DEF EditedStart, RescheduleState, Row

LEMMA EditedType ==
  ASSUME NEW r \in Row, NEW q \in RescheduleState
  PROVE  /\ Edited(r, q) \in Row
         /\ Edited(r, q).staff = r.staff
         /\ Edited(r, q).status = r.status
         /\ Edited(r, q).dur = r.dur
         /\ r.end = r.start + r.dur
              => Edited(r, q).end = Edited(r, q).start + r.dur
<1>2. ASSUME NEW c \in Nat
      PROVE  LET m == [r EXCEPT !.date = c]
             IN  /\ m \in Row /\ m.staff = r.staff /\ m.status = r.status
                 /\ m.dur = r.dur /\ m.start = r.start /\ m.end = r.end
  BY DEF Row
<1>3. q.date \in Nat /\ EditedStart(r, q) \in Nat /\ r.dur \in Nat
  BY EditedStartNat DEF RescheduleState, Row
<1>4. DayOf(EditedStart(r, q)) \in Nat /\ EditedStart(r, q) + r.dur \in Nat
  BY <1>3, DayOfNat
<1>5. CASE q.edit = "date"
  <2>1. Edited(r, q) = [r EXCEPT !.date = q.date]
    BY <1>5 DEF Edited
  <2>. QED  BY <1>2, <1>3, <2>1
<1>6. CASE q.edit # "date"
  <2>. DEFINE a == EditedStart(r, q)
              b == a + r.dur
              c == DayOf(a)
  <2>1. Edited(r, q) = [r EXCEPT !.start = a, !.end = b, !.date = c]
    BY <1>6 DEF Edited, Moved
  <2>2. a \in Nat /\ b \in Nat /\ c \in Nat /\ b = a + r.dur
    BY <1>3, <1>4
  <2>. HIDE DEF a, b, c
  <2>3. /\ Edited(r, q) \in Row /\ Edited(r, q).staff = r.staff
        /\ Edited(r, q).status = r.status /\ Edited(r, q).dur = r.dur
        /\ Edited(r, q).start = a /\ Edited(r, q).end = b
    BY <2>1, <2>2 DEF Row
  <2>. QED  BY <2>2, <2>3
<1>. QED  BY <1>5, <1>6

LEMMA RescheduledType ==
  ASSUME NEW r \in Row, NEW q \in RescheduleState
  PROVE  /\ Rescheduled(r, q) \in Row
         /\ Rescheduled(r, q).staff = r.staff
         /\ Rescheduled(r, q).dur = r.dur
         /\ Rescheduled(r, q).status \in Statuses \cup {r.status}
         /\ r.end = r.start + r.dur
              => Rescheduled(r, q).end = Rescheduled(r, q).start + r.dur
<1>1. ASSUME NEW m \in Row, NEW s \in Statuses
      PROVE  LET n == [m EXCEPT !.status = s]
             IN  /\ n \in Row /\ n.staff = m.staff /\ n.status = s
                 /\ n.dur = m.dur /\ n.start = m.start /\ n.end = m.end
  BY DEF Row
<1>2. q.status \in UpdateStatuses \cup {Keep} /\ "CANCELED" \in Statuses
  BY DEF RescheduleState, Statuses
<1>3. CASE q.status = "CANCELED"
  <2>1. Rescheduled(r, q) = [r EXCEPT !.status = "CANCELED"]
    BY <1>2, <1>3, StatusAssumption DEF Rescheduled
  <2>. QED  BY <1>1, <1>2, <2>1
<1>4. CASE q.status = Keep
  <2>1. Rescheduled(r, q) = Edited(r, q)
    BY <1>2, <1>4, StatusAssumption DEF Rescheduled
  <2>. QED  BY <2>1, EditedType
<1>5. CASE q.status # "CANCELED" /\ q.status # Keep
  <2>1. Rescheduled(r, q) = [Edited(r, q) EXCEPT !.status = q.status]
    BY <1>5 DEF Rescheduled
  <2>2. q.status \in Statuses
    BY <1>2, <1>5, StatusAssumption
  <2>. QED  BY <1>1, <2>1, <2>2, EditedType
<1>. QED  BY <1>3, <1>4, <1>5

\* A row that automatic rescheduling moves and confirms.
LEMMA MovedType ==
  ASSUME NEW r \in Row, NEW t \in Nat
  PROVE  LET m == [Moved(r, t) EXCEPT !.status = "CONFIRMED"]
         IN  /\ m \in Row /\ m.staff = r.staff /\ m.dur = r.dur
             /\ m.status = "CONFIRMED" /\ m.end = m.start + r.dur
<1>. DEFINE b == t + r.dur
            c == DayOf(t)
<1>1. b \in Nat /\ c \in Nat /\ b = t + r.dur
  BY DayOfNat DEF Row
<1>2. Moved(r, t) = [r EXCEPT !.start = t, !.end = b, !.date = c]
  BY DEF Moved
<1>. HIDE DEF b, c
<1>. QED  BY <1>1, <1>2 DEF Row, Statuses

\* The start that the checks of an edit see is a time, for each form of edit.
LEMMA RescheduleReads ==
  ASSUME TypeOK, NEW p \in Requests, NEW i \in Appointments, NEW t \in Starts,
         NEW s \in UpdateStatuses \cup {Keep},
         \/ RescheduleRead(p, i, t, DayOf(t), "full", s)
         \/ RescheduleRead(p, i, CheckedDay(i) * DayLength + (t % DayLength),
                           rows[i].date, "time", s)
         \/ RescheduleRead(p, i, rows[i].start, DayOf(t), "date", s)
  PROVE  \E u \in Nat, date \in Nat, edit \in {"full", "time", "date"} :
           RescheduleRead(p, i, u, date, edit, s)
<1>1. t \in Nat /\ DayOf(t) \in Nat
  BY TimeAssumption, DayOfNat
<1>2. rows[i].start \in Nat /\ rows[i].date \in Nat
  BY DEF TypeOK, Row
<1>3. ASSUME RescheduleRead(p, i, CheckedDay(i) * DayLength + (t % DayLength),
                            rows[i].date, "time", s)
      PROVE  CheckedDay(i) * DayLength + (t % DayLength) \in Nat
  <2>1. CASE Skew = 0
    <3>4. CheckedDay(i) * DayLength + (t % DayLength) > now - Skew
      BY <1>3 DEF RescheduleRead, RulesAllow, RulesClock
    <3>1. now - Skew = now /\ now \in Nat
      BY <2>1, TimeAssumption DEF TypeOK, Times
    <3>2. CheckedDay(i) \in Int /\ t % DayLength \in Int
      BY <1>1, <1>2, TimeAssumption DEF CheckedDay
    <3>3. CheckedDay(i) * DayLength \in Int
      BY <3>2, TimeAssumption
    <3>. QED  BY <3>1, <3>2, <3>3, <3>4
  <2>2. CASE Skew # 0
    BY <1>1, <1>2, <2>2, RescheduleStarts DEF CheckedDay
  <2>. QED  BY <2>1, <2>2
<1>4. CASE RescheduleRead(p, i, CheckedDay(i) * DayLength + (t % DayLength),
                        rows[i].date, "time", s)
  <2>. DEFINE u == CheckedDay(i) * DayLength + (t % DayLength)
  <2>1. u \in Nat /\ RescheduleRead(p, i, u, rows[i].date, "time", s)
    BY <1>3, <1>4
  <2>. HIDE DEF u
  <2>. QED  BY <1>2, <2>1
<1>5. CASE \/ RescheduleRead(p, i, t, DayOf(t), "full", s)
           \/ RescheduleRead(p, i, rows[i].start, DayOf(t), "date", s)
  BY <1>1, <1>2, <1>5
<1>. QED  BY <1>4, <1>5

LEMMA RescheduleStepType ==
  ASSUME TypeOK, NEW p \in Requests, RescheduleStep(p)
  PROVE  TypeOK'
<1>. USE DEF TypeOK
<1>1. ASSUME NEW i \in Appointments, NEW t \in Nat, NEW date \in Nat,
             NEW s \in UpdateStatuses \cup {Keep}, NEW edit \in {"full", "time", "date"},
             RescheduleRead(p, i, t, date, edit, s)
      PROVE  TypeOK'
  <2>1. ASSUME NEW d \in Durations
        PROVE  [op |-> "rescheduleConflicts", id |-> i, start |-> t, date |-> date,
                edit |-> edit, dur |-> d, status |-> s] \in RequestState
    BY DEF RequestState, RescheduleState
  <2>2. PICK d \in Durations :
          Begin(p, [op |-> "rescheduleConflicts", id |-> i, start |-> t,
                    date |-> date, edit |-> edit, dur |-> d, status |-> s])
    BY <1>1 DEF RescheduleRead
  <2>3. UNCHANGED <<now, rows, job>>
    BY <1>1 DEF RescheduleRead
  <2>. QED  BY <2>1, <2>2, <2>3, RequestStepType DEF Begin
<1>2. CASE RescheduleConflicts(p)
  <2>1. req[p] \in RescheduleState
    BY <1>2, RequestFields DEF RescheduleConflicts
  <2>2. [req[p] EXCEPT !.op = "rescheduleWrite"] \in RequestState
    BY <2>1 DEF RequestState, RescheduleState
  <2>. QED  BY <1>2, <2>2, RequestStepType, FinishType DEF RescheduleConflicts, Continue
<1>3. CASE RescheduleWrite(p)
  <2>1. req[p] \in RescheduleState
    BY <1>3, RequestFields DEF RescheduleWrite
  <2>2. req[p].id \in Appointments
    BY <2>1 DEF RescheduleState
  <2>3. Rescheduled(rows[req[p].id], req[p]) \in Row
    BY <2>1, <2>2, RescheduledType
  <2>4. rows' \in [Appointments -> Row]
    BY <1>3, <2>2, <2>3, WriteType DEF RescheduleWrite
  <2>. QED  BY <1>3, <2>4, FinishType DEF RescheduleWrite
<1>4. ASSUME NEW i \in Appointments, NEW t \in Starts,
             NEW s \in UpdateStatuses \cup {Keep},
             \/ RescheduleRead(p, i, t, DayOf(t), "full", s)
             \/ RescheduleRead(p, i, CheckedDay(i) * DayLength + (t % DayLength),
                               rows[i].date, "time", s)
             \/ RescheduleRead(p, i, rows[i].start, DayOf(t), "date", s)
      PROVE  TypeOK'
  BY <1>1, <1>4, RescheduleReads
<1>. QED  BY <1>2, <1>3, <1>4 DEF RescheduleStep

LEMMA AutoNextType ==
  ASSUME TypeOK, NEW p \in Requests, NEW ids \in SUBSET Appointments,
         req[p].after \in Nat, AutoNext(p, ids)
  PROVE  req' \in [Requests -> RequestState]
<1>1. [op |-> "auto", ids |-> ids, after |-> req[p].after] \in RequestState
  BY DEF RequestState, AutoState
<1>. QED  BY <1>1, FinishType, RequestStepType DEF AutoNext, Continue, TypeOK

LEMMA AutoStepType ==
  ASSUME TypeOK, NEW p \in Requests, AutoStep(p)
  PROVE  TypeOK'
<1>. USE DEF TypeOK
<1>1. ASSUME NEW t \in Starts, NEW u \in Starts, AutoList(p, DayOf(t), DayOf(u))
      PROVE  TypeOK'
  <2>. DEFINE found == {i \in Appointments :
                         /\ rows[i].status = "CONFIRMED"
                         /\ DayOf(rows[i].start) \in DayOf(t) .. DayOf(u)}
              q == [op |-> "auto", ids |-> found, after |-> DayOf(u)]
  <2>1. q \in RequestState
    BY TimeAssumption, DayOfNat DEF RequestState, AutoState
  <2>2. Begin(p, q) /\ UNCHANGED <<now, rows, job>>
    BY <1>1 DEF AutoList
  <2>. HIDE DEF q
  <2>. QED  BY <2>1, <2>2, RequestStepType DEF Begin
<1>2. ASSUME NEW i \in Appointments, NEW t \in Starts, AutoSlot(p, i, t)
      PROVE  TypeOK'
  <2>1. req[p] \in AutoState
    BY <1>2, RequestFields DEF AutoSlot
  <2>. DEFINE q == [op |-> "autoRules", ids |-> req[p].ids \ {i}, after |-> req[p].after,
                    id |-> i, start |-> t]
  <2>2. q \in RequestState
    BY <2>1 DEF RequestState, AutoState, AutoRowState
  <2>3. req' = [req EXCEPT ![p] = q] /\ UNCHANGED <<now, rows, job>>
    BY <1>2 DEF AutoSlot, Continue
  <2>. HIDE DEF q
  <2>. QED  BY <2>2, <2>3, RequestStepType
<1>3. ASSUME NEW i \in Appointments, AutoSkip(p, i)
      PROVE  TypeOK'
  <2>1. req[p] \in AutoState
    BY <1>3, RequestFields DEF AutoSkip
  <2>2. req[p].ids \ {i} \in SUBSET Appointments /\ req[p].after \in Nat
    BY <2>1 DEF AutoState
  <2>. QED  BY <1>3, <2>2, AutoNextType DEF AutoSkip
<1>4. CASE AutoRules(p)
  <2>1. req[p] \in AutoRowState
    BY <1>4, RequestFields DEF AutoRules
  <2>2. /\ [req[p] EXCEPT !.op = "autoWrite"] \in RequestState
        /\ req[p].ids \in SUBSET Appointments /\ req[p].after \in Nat
    BY <2>1 DEF RequestState, AutoRowState
  <2>. QED  BY <1>4, <2>2, AutoNextType, RequestStepType DEF AutoRules, Continue
<1>5. CASE AutoWrite(p)
  <2>1. req[p] \in AutoRowState
    BY <1>5, RequestFields DEF AutoWrite
  <2>2. /\ req[p].id \in Appointments /\ req[p].start \in Nat
        /\ req[p].ids \in SUBSET Appointments /\ req[p].after \in Nat
    BY <2>1, TimeAssumption DEF AutoRowState
  <2>3. [Moved(rows[req[p].id], req[p].start) EXCEPT !.status = "CONFIRMED"] \in Row
    BY <2>2, MovedType
  <2>4. rows' \in [Appointments -> Row]
    BY <1>5, <2>2, <2>3, WriteType DEF AutoWrite
  <2>. QED  BY <1>5, <2>2, <2>4, AutoNextType DEF AutoWrite
<1>. QED  BY <1>1, <1>2, <1>3, <1>4, <1>5 DEF AutoStep

LEMMA FinalizeStepType ==
  ASSUME TypeOK, NEW p \in Requests, FinalizeStep(p)
  PROVE  TypeOK'
<1>. USE DEF TypeOK
<1>1. ASSUME NEW ids \in SUBSET Appointments, FinalizeComplete(p, ids)
      PROVE  TypeOK'
  <2>1. [op |-> "promote", ids |-> ids, at |-> now] \in RequestState
    BY DEF RequestState, PromoteState
  <2>2. rows' \in [Appointments -> Row]
    BY <1>1, SetStatusType DEF FinalizeComplete, Statuses
  <2>. QED  BY <1>1, <2>1, <2>2, RequestStepType DEF FinalizeComplete, Begin
<1>2. CASE FinalizePromote(p)
  BY <1>2, SetStatusType, FinishType DEF FinalizePromote, Statuses
<1>. QED  BY <1>1, <1>2 DEF FinalizeStep

LEMMA JobStepType ==
  ASSUME TypeOK, NEW j \in Jobs, JobStep(j)
  PROVE  TypeOK'
<1>. USE DEF TypeOK
<1>1. CASE JobFind(j)
  BY <1>1 DEF JobFind, JobState
<1>2. CASE JobMark(j)
  <2>1. rows' \in [Appointments -> Row]
    BY <1>2, SetStatusType DEF JobMark, Statuses
  <2>. QED  BY <1>2, <2>1 DEF JobMark, JobState
<1>. QED  BY <1>1, <1>2 DEF JobStep

LEMMA NextType == TypeOK /\ [Next]_vars => TypeOK'
<1>. SUFFICES ASSUME TypeOK, [Next]_vars PROVE TypeOK'
  OBVIOUS
<1>1. CASE Tick
  BY <1>1, TimeAssumption DEF Tick, TypeOK
<1>2. CASE UNCHANGED vars
  BY <1>2 DEF vars, TypeOK
<1>3. ASSUME NEW p \in Requests,
             \/ BookStep(p) \/ DecideStep(p) \/ BulkStep(p) \/ MonitorStep(p)
             \/ RescheduleStep(p) \/ AutoStep(p) \/ FinalizeStep(p)
      PROVE  TypeOK'
  BY <1>3, BookStepType, DecideStepType, BulkStepType, RescheduleStepType,
     AutoStepType, FinalizeStepType
<1>4. ASSUME NEW i \in Appointments, OneStep(i)
      PROVE  TypeOK'
  <2>1. PICK s \in Statuses : UpdateStatus(i, s)
    BY <1>4, StatusAssumption DEF OneStep, ConfirmAppointment, CompleteAppointment,
       MarkNoShow, BatchCancel, StaffUpdate, Statuses
  <2>. QED  BY <2>1, UpdateStatusType
<1>5. ASSUME NEW j \in Jobs, JobStep(j)
      PROVE  TypeOK'
  BY <1>5, JobStepType
<1>. QED  BY <1>1, <1>2, <1>3, <1>4, <1>5 DEF Next

LEMMA InitType == Init => TypeOK
BY TimeAssumption DEF Init, TypeOK, FreeRow, Row, Idle, RequestState, JobState

(***************************************************************************)
(* Every variable keeps its type: in particular a request carries the data *)
(* of the handler it is in, whatever the other requests do.                *)
(***************************************************************************)
THEOREM TypeCorrect == Spec => []TypeOK
<1>1. Init => TypeOK
  BY InitType
<1>2. TypeOK /\ [Next]_vars => TypeOK'
  BY NextType
<1>. QED  BY <1>1, <1>2, PTL DEF Spec

-----------------------------------------------------------------------------
(***************************************************************************)
(* What a step can do to the table, whichever handler takes it: one        *)
(* statement the constraint judges that keeps the staff of a held slot, an *)
(* update that gives slots up, a promotion of CONFIRMED rows, or the       *)
(* screen's batch, which the constraint judges as a whole.                 *)
(***************************************************************************)
Written ==
  \E i \in Appointments, r \in Row :
    Write(i, r) /\ (Holds(rows[i]) => r.staff = rows[i].staff)

GivenUp ==
  \E S \in SUBSET Appointments, s \in Statuses \ ConstrainedStatuses :
    rows' = SetStatus(S, s)

Promoted ==
  \E S \in SUBSET Appointments :
    /\ rows' = SetStatus(S, "IN_PROGRESS")
    /\ \A i \in S : rows[i].status = "CONFIRMED"

Screened ==
  \E S \in SUBSET Appointments :
    rows' = SetStatus(S, "IN_PROGRESS") /\ NoDoubleBooking'

RowsStep == UNCHANGED rows \/ Written \/ GivenUp \/ Promoted \/ Screened

LEMMA StatusWritten ==
  ASSUME rows \in [Appointments -> Row], NEW i \in Appointments,
         NEW s \in Statuses, Write(i, WithStatus(i, s))
  PROVE  Written
<1>1. WithStatus(i, s) \in Row
  BY WithStatusType
<1>2. WithStatus(i, s).staff = rows[i].staff
  BY DEF WithStatus, Row
<1>. QED  BY <1>1, <1>2 DEF Written

LEMMA BookRows ==
  ASSUME TypeOK, NEW p \in Requests, BookInsert(p)
  PROVE  Written
<1>1. req[p] \in BookingState
  BY RequestFields DEF BookInsert
<1>2. /\ req[p].start \in Nat /\ req[p].dur \in Nat
      /\ req[p].staff \in Staff \cup {NoOne} /\ req[p].cust \in Customers
  BY <1>1, TimeAssumption, DurationAssumption DEF BookingState
<1>3. DayOf(req[p].start) \in Nat
  BY <1>2, DayOfNat
<1>4. PICK i \in Appointments, s \in {"CONFIRMED", "PENDING_APPROVAL"} :
        /\ ~Exists(i)
        /\ Write(i, [status |-> s, staff |-> req[p].staff, cust |-> req[p].cust,
                     date |-> DayOf(req[p].start), start |-> req[p].start,
                     dur |-> req[p].dur, end |-> req[p].start + req[p].dur])
  BY DEF BookInsert
<1>5. [status |-> s, staff |-> req[p].staff, cust |-> req[p].cust,
       date |-> DayOf(req[p].start), start |-> req[p].start,
       dur |-> req[p].dur, end |-> req[p].start + req[p].dur] \in Row
  BY <1>2, <1>3 DEF Row, Statuses
<1>6. ~Holds(rows[i])
  BY <1>4 DEF Exists, Holds, ConstrainedStatuses
<1>. QED  BY <1>4, <1>5, <1>6 DEF Written

LEMMA RescheduleRows ==
  ASSUME TypeOK, NEW p \in Requests, RescheduleWrite(p)
  PROVE  Written
<1>1. req[p] \in RescheduleState
  BY RequestFields DEF RescheduleWrite
<1>2. req[p].id \in Appointments
  BY <1>1 DEF RescheduleState
<1>3. rows[req[p].id] \in Row
  BY <1>2 DEF TypeOK
<1>4. Rescheduled(rows[req[p].id], req[p]) \in Row
  BY <1>1, <1>3, RescheduledType
<1>5. Rescheduled(rows[req[p].id], req[p]).staff = rows[req[p].id].staff
  BY <1>1, <1>3, RescheduledType
<1>. QED  BY <1>2, <1>4, <1>5 DEF RescheduleWrite, Written

LEMMA AutoRows ==
  ASSUME TypeOK, NEW p \in Requests, AutoWrite(p)
  PROVE  Written
<1>1. req[p] \in AutoRowState
  BY RequestFields DEF AutoWrite
<1>2. req[p].id \in Appointments /\ req[p].start \in Nat
  BY <1>1, TimeAssumption DEF AutoRowState
<1>. DEFINE m == [Moved(rows[req[p].id], req[p].start) EXCEPT !.status = "CONFIRMED"]
<1>3. m \in Row /\ m.staff = rows[req[p].id].staff
  BY <1>2, MovedType DEF TypeOK
<1>4. Write(req[p].id, m)
  BY DEF AutoWrite
<1>. HIDE DEF m
<1>. QED  BY <1>2, <1>3, <1>4 DEF Written

LEMMA NextRows == TypeOK /\ [Next]_vars => RowsStep
<1>. SUFFICES ASSUME TypeOK, [Next]_vars PROVE RowsStep
  OBVIOUS
<1>0. rows \in [Appointments -> Row]
  BY DEF TypeOK
<1>1. CASE Tick \/ UNCHANGED vars
  BY <1>1 DEF Tick, vars, RowsStep
<1>2. ASSUME NEW p \in Requests, BookStep(p)
      PROVE  RowsStep
  <2>1. CASE BookInsert(p)
    BY <2>1, BookRows DEF RowsStep
  <2>2. ASSUME ~BookInsert(p)
        PROVE  UNCHANGED rows
    BY <1>2, <2>2 DEF BookStep, BookCheck, BookRules, BookConflicts, BookNoRoom
  <2>. QED  BY <2>1, <2>2 DEF RowsStep
<1>3. ASSUME NEW p \in Requests, DecideStep(p)
      PROVE  RowsStep
  <2>1. ASSUME NEW s \in Statuses, req[p].op \in {"approve", "reject", "cancel"},
               Write(req[p].id, WithStatus(req[p].id, s))
        PROVE  RowsStep
    <3>1. req[p].id \in Appointments
      BY <2>1, RequestFields DEF OneRowState
    <3>. QED  BY <1>0, <2>1, <3>1, StatusWritten DEF RowsStep
  <2>2. CASE ApproveWrite(p)
    BY <2>1, <2>2 DEF ApproveWrite, Statuses
  <2>3. CASE RejectWrite(p)
    BY <2>1, <2>3 DEF RejectWrite, Statuses
  <2>4. CASE CancelWrite(p)
    BY <2>1, <2>4 DEF CancelWrite, Statuses
  <2>5. CASE \E i \in Appointments : ApproveRead(p, i) \/ RejectRead(p, i) \/ CancelRead(p, i)
    BY <2>5 DEF ApproveRead, RejectRead, CancelRead, RowsStep
  <2>. QED  BY <1>3, <2>2, <2>3, <2>4, <2>5 DEF DecideStep
<1>4. ASSUME NEW p \in Requests, BulkStep(p)
      PROVE  RowsStep
  <2>1. CASE CloseDayWrite(p) \/ BanWrite(p)
    <3>1. req[p] \in ManyRowsState /\ rows' = SetStatus(req[p].ids, "CANCELED")
      BY <2>1, RequestFields DEF CloseDayWrite, BanWrite
    <3>2. req[p].ids \in SUBSET Appointments
      BY <3>1 DEF ManyRowsState
    <3>. QED  BY <3>1, <3>2 DEF GivenUp, RowsStep, Statuses, ConstrainedStatuses
  <2>2. CASE (\E i \in Appointments : CloseDayRead(p, i)) \/ (\E c \in Customers : BanRead(p, c))
    BY <2>2 DEF CloseDayRead, BanRead, RowsStep
  <2>. QED  BY <1>4, <2>1, <2>2 DEF BulkStep
<1>5. ASSUME NEW p \in Requests, MonitorStep(p)
      PROVE  RowsStep
  <2>1. CASE \E who \in SUBSET (Staff \cup {NoOne}) : MonitorRead(p, DayOf(now), who)
    BY <2>1 DEF MonitorRead, RowsStep
  <2>2. CASE MonitorWrite(p)
    <3>1. req[p].ids \in SUBSET Appointments
      BY <2>2, RequestFields DEF MonitorWrite, ManyRowsState
    <3>2. \/ UNCHANGED rows
          \/ rows' = SetStatus(req[p].ids, "IN_PROGRESS") /\ NoDoubleBooking'
      BY <2>2 DEF MonitorWrite, NoDoubleBooking
    <3>. QED  BY <3>1, <3>2 DEF Screened, RowsStep
  <2>. QED  BY <1>5, <2>1, <2>2 DEF MonitorStep
<1>6. ASSUME NEW p \in Requests, RescheduleStep(p)
      PROVE  RowsStep
  <2>1. CASE RescheduleWrite(p)
    BY <2>1, RescheduleRows DEF RowsStep
  <2>2. ASSUME ~RescheduleWrite(p)
        PROVE  UNCHANGED rows
    BY <1>6, <2>2 DEF RescheduleStep, RescheduleRead, RescheduleConflicts
  <2>. QED  BY <2>1, <2>2 DEF RowsStep
<1>7. ASSUME NEW p \in Requests, FinalizeStep(p)
      PROVE  RowsStep
  <2>1. ASSUME NEW ids \in SUBSET Appointments, FinalizeComplete(p, ids)
        PROVE  GivenUp
    BY <2>1 DEF FinalizeComplete, GivenUp, Statuses, ConstrainedStatuses
  <2>2. CASE FinalizePromote(p)
    <3>1. req[p].ids \in SUBSET Appointments
      BY <2>2, RequestFields DEF FinalizePromote, PromoteState
    <3>. QED  BY <2>2, <3>1 DEF FinalizePromote, Promoted, RowsStep
  <2>. QED  BY <1>7, <2>1, <2>2 DEF FinalizeStep, RowsStep
<1>8. ASSUME NEW i \in Appointments, OneStep(i)
      PROVE  RowsStep
  <2>1. PICK s \in Statuses : UpdateStatus(i, s)
    BY <1>8, StatusAssumption DEF OneStep, ConfirmAppointment, CompleteAppointment,
       MarkNoShow, BatchCancel, StaffUpdate, Statuses
  <2>. QED  BY <1>0, <2>1, StatusWritten DEF UpdateStatus, RowsStep
<1>9. ASSUME NEW j \in Jobs, JobStep(j)
      PROVE  RowsStep
  <2>1. CASE JobFind(j)
    BY <2>1 DEF JobFind, RowsStep
  <2>2. CASE JobMark(j)
    <3>1. job[j].found \in SUBSET Appointments
      BY DEF TypeOK, JobState
    <3>. QED  BY <2>2, <3>1 DEF JobMark, GivenUp, RowsStep, Statuses, ConstrainedStatuses
  <2>. QED  BY <1>9, <2>1, <2>2 DEF JobStep
<1>10. ASSUME NEW p \in Requests, AutoStep(p)
       PROVE  RowsStep
  <2>1. CASE AutoWrite(p)
    BY <2>1, AutoRows DEF RowsStep
  <2>2. ASSUME ~AutoWrite(p)
        PROVE  UNCHANGED rows
    BY <1>10, <2>2 DEF AutoStep, AutoList, AutoSlot, AutoSkip, AutoRules
  <2>. QED  BY <2>1, <2>2 DEF RowsStep
<1>. QED  BY <1>1, <1>2, <1>3, <1>4, <1>5, <1>6, <1>7, <1>8, <1>9, <1>10 DEF Next

LEMMA ClashSymmetric ==
  ASSUME NEW r, NEW q
  PROVE  Clash(r, q) <=> Clash(q, r)
BY DEF Clash, Overlap

LEMMA RowsStepKeepsSlots ==
  ASSUME TypeOK, NoDoubleBooking, RowsStep
  PROVE  NoDoubleBooking'
<1>1. CASE UNCHANGED rows
  BY <1>1 DEF NoDoubleBooking
<1>2. CASE Written
  <2>1. PICK i \in Appointments, r \in Row : Write(i, r)
    BY <1>2 DEF Written
  <2>2. CASE rows' = rows
    BY <2>2 DEF NoDoubleBooking
  <2>3. CASE Admitted(i, r) /\ rows' = [rows EXCEPT ![i] = r]
    <3>1. \A k \in Appointments \ {i} : rows'[k] = rows[k]
      BY <2>3
    <3>2. rows'[i] = r
      BY <2>3 DEF TypeOK
    <3>3. \A k \in Appointments \ {i} : ~Clash(rows'[i], rows'[k]) /\ ~Clash(rows'[k], rows'[i])
      BY <2>3, <3>1, <3>2, ClashSymmetric DEF Admitted
    <3>. QED  BY <3>1, <3>3 DEF NoDoubleBooking
  <2>. QED  BY <2>1, <2>2, <2>3 DEF Write
<1>3. CASE GivenUp
  <2>1. PICK S \in SUBSET Appointments, s \in Statuses \ ConstrainedStatuses :
          rows' = SetStatus(S, s)
    BY <1>3 DEF GivenUp
  <2>2. \A i \in Appointments : rows'[i] = rows[i] \/ ~Holds(rows'[i])
    BY <2>1 DEF SetStatus, WithStatus, Holds, TypeOK, Row
  <2>. QED  BY <2>2 DEF NoDoubleBooking, Clash
<1>4. CASE Promoted
  <2>1. \A i \in Appointments :
          /\ Holds(rows'[i]) => Holds(rows[i])
          /\ rows'[i].staff = rows[i].staff
          /\ rows'[i].start = rows[i].start /\ rows'[i].end = rows[i].end
    BY <1>4 DEF Promoted, SetStatus, WithStatus, Holds, ConstrainedStatuses, TypeOK, Row
  <2>. QED  BY <2>1 DEF NoDoubleBooking, Clash
<1>5. CASE Screened
  BY <1>5 DEF Screened
<1>. QED  BY <1>1, <1>2, <1>3, <1>4, <1>5 DEF RowsStep

(***************************************************************************)
(* No double booking holds for any number of racing requests, instances    *)
(* and rows.  TypeOK /\ NoDoubleBooking is inductive: a single statement   *)
(* meets the constraint, completing and cancelling only give slots up, and *)
(* a promotion keeps a slot its row already has.                           *)
(***************************************************************************)
THEOREM NeverDoubleBooked == Spec => []NoDoubleBooking
<1>1. Init => NoDoubleBooking
  BY DEF Init, NoDoubleBooking, FreeRow, Clash, Holds
<1>2. TypeOK /\ NoDoubleBooking /\ [Next]_vars => NoDoubleBooking'
  BY NextRows, RowsStepKeepsSlots
<1>. QED  BY <1>1, <1>2, TypeCorrect, PTL DEF Spec

-----------------------------------------------------------------------------
(* The book implements the staff calendar *)

Held(f) == [i \in Appointments |-> HeldBy(f[i])]

LEMMA HeldByCalendar ==
  ASSUME NEW r \in Row
  PROVE  /\ Holds(r) => /\ HeldBy(r) \in Calendar!Interval
                        /\ HeldBy(r).staff = r.staff
                        /\ HeldBy(r).start = r.start
                        /\ HeldBy(r).end = r.end
         /\ ~Holds(r) => HeldBy(r) = NoOne
BY DEF HeldBy, Holds, Row, Calendar!Interval

LEMMA HeldCalendar ==
  ASSUME NEW f \in [Appointments -> Row]
  PROVE  Held(f) \in Calendar!Calendar
BY HeldByCalendar DEF Held, Calendar!Calendar

\* Slots that do not clash are disjoint intervals of the calendar.
LEMMA DisjointCalendar ==
  ASSUME NEW f \in [Appointments -> Row],
         \A i, k \in Appointments : i # k => ~Clash(f[i], f[k])
  PROVE  Calendar!Disjoint(Held(f))
<1>. SUFFICES ASSUME NEW i \in Appointments, NEW k \in Appointments,
                     i # k, Held(f)[i] # NoOne, Held(f)[k] # NoOne,
                     Held(f)[i].staff = Held(f)[k].staff
              PROVE  \/ Held(f)[i].end <= Held(f)[k].start
                     \/ Held(f)[k].end <= Held(f)[i].start
  BY DEF Calendar!Disjoint
<1>1. f[i] \in Row /\ f[k] \in Row
  OBVIOUS
<1>2. Held(f)[i] = HeldBy(f[i]) /\ Held(f)[k] = HeldBy(f[k])
  BY DEF Held
<1>3. Holds(f[i]) /\ Holds(f[k])
  BY <1>1, <1>2, HeldByCalendar
<1>4. f[i].staff = f[k].staff
  BY <1>1, <1>2, <1>3, HeldByCalendar
<1>5. ~Overlap(f[i].start, f[i].end, f[k].start, f[k].end)
  BY <1>3, <1>4 DEF Clash
<1>6. f[i].end <= f[k].start \/ f[k].end <= f[i].start
  BY <1>1, <1>5 DEF Overlap, Row
<1>. QED  BY <1>1, <1>2, <1>3, <1>6, HeldByCalendar

\* A step that only adds or keeps slots reserves, one that only drops releases.
LEMMA CalendarStep ==
  ASSUME rows \in [Appointments -> Row], rows' \in [Appointments -> Row],
         NoDoubleBooking',
         \/ \A i \in Appointments :
              rows'[i] = rows[i] \/ ~Holds(rows'[i])
         \/ \A i \in Appointments :
              \/ HeldBy(rows'[i]) = HeldBy(rows[i])
              \/ Holds(rows'[i]) /\ (Holds(rows[i]) => rows'[i].staff = rows[i].staff)
  PROVE  Calendar!Next
<1>1. /\ Held(rows) = [i \in Appointments |-> HeldBy(rows[i])]
      /\ Held(rows') = [i \in Appointments |-> HeldBy(rows[i])]'
  BY DEF Held
<1>2. Held(rows') \in Calendar!Calendar
  BY HeldCalendar
<1>3. CASE \A i \in Appointments : rows'[i] = rows[i] \/ ~Holds(rows'[i])
  <2>1. \A i \in Appointments : Held(rows')[i] \in {Held(rows)[i], NoOne}
    BY <1>3, HeldByCalendar DEF Held
  <2>. QED  BY <1>1, <1>2, <2>1 DEF Calendar!Next, Calendar!Release, Held
<1>4. CASE \A i \in Appointments :
             \/ HeldBy(rows'[i]) = HeldBy(rows[i])
             \/ Holds(rows'[i]) /\ (Holds(rows[i]) => rows'[i].staff = rows[i].staff)
  <2>1. Calendar!Disjoint(Held(rows'))
    BY DisjointCalendar DEF NoDoubleBooking
  <2>2. ASSUME NEW i \in Appointments, Held(rows')[i] # Held(rows)[i]
        PROVE  /\ Held(rows')[i] # NoOne
               /\ Held(rows)[i] # NoOne => Held(rows')[i].staff = Held(rows)[i].staff
    <3>1. Held(rows')[i] = HeldBy(rows'[i]) /\ Held(rows)[i] = HeldBy(rows[i])
      BY DEF Held
    <3>2. rows[i] \in Row /\ rows'[i] \in Row
      OBVIOUS
    <3>3. Holds(rows'[i]) /\ (Holds(rows[i]) => rows'[i].staff = rows[i].staff)
      BY <1>4, <2>2, <3>1
    <3>4. HeldBy(rows'[i]) # NoOne
      BY <3>2, <3>3, HeldByCalendar, NoOneAssumption DEF Calendar!Interval
    <3>5. HeldBy(rows[i]) # NoOne => Holds(rows[i])
      BY DEF HeldBy
    <3>. QED  BY <3>1, <3>2, <3>3, <3>4, <3>5, HeldByCalendar
  <2>. QED  BY <1>1, <1>2, <2>1, <2>2 DEF Calendar!Next, Calendar!Reserve, Held
<1>. QED  BY <1>3, <1>4

LEMMA WrittenCalendar ==
  ASSUME TypeOK, TypeOK', NoDoubleBooking', Written
  PROVE  Calendar!Next
<1>1. PICK i \in Appointments, r \in Row :
        Write(i, r) /\ (Holds(rows[i]) => r.staff = rows[i].staff)
  BY DEF Written
<1>2. rows \in [Appointments -> Row] /\ rows' \in [Appointments -> Row]
  BY DEF TypeOK
<1>3. /\ \A k \in Appointments \ {i} : rows'[k] = rows[k]
      /\ rows'[i] = rows[i] \/ rows'[i] = r
  BY <1>1, <1>2 DEF Write
<1>4. CASE Holds(r)
  <2>1. \A k \in Appointments :
          \/ HeldBy(rows'[k]) = HeldBy(rows[k])
          \/ Holds(rows'[k]) /\ (Holds(rows[k]) => rows'[k].staff = rows[k].staff)
    BY <1>1, <1>3, <1>4
  <2>. QED  BY <1>2, <2>1, CalendarStep
<1>5. CASE ~Holds(r)
  <2>1. \A k \in Appointments : rows'[k] = rows[k] \/ ~Holds(rows'[k])
    BY <1>3, <1>5
  <2>. QED  BY <1>2, <2>1, CalendarStep
<1>. QED  BY <1>4, <1>5

LEMMA RowsStepCalendar ==
  ASSUME TypeOK, TypeOK', NoDoubleBooking', RowsStep
  PROVE  Calendar!Next \/ UNCHANGED [i \in Appointments |-> HeldBy(rows[i])]
<1>. USE DEF TypeOK
<1>1. CASE UNCHANGED rows
  BY <1>1
<1>2. CASE Written
  BY <1>2, WrittenCalendar
<1>3. CASE GivenUp
  <2>1. PICK S \in SUBSET Appointments, s \in Statuses \ ConstrainedStatuses :
          rows' = SetStatus(S, s)
    BY <1>3 DEF GivenUp
  <2>2. \A i \in Appointments : rows'[i] = rows[i] \/ ~Holds(rows'[i])
    BY <2>1 DEF SetStatus, WithStatus, Holds, Row
  <2>. QED  BY <2>2, CalendarStep
<1>4. CASE Promoted \/ Screened
  <2>1. PICK S \in SUBSET Appointments : rows' = SetStatus(S, "IN_PROGRESS")
    BY <1>4 DEF Promoted, Screened
  <2>2. ASSUME NEW i \in Appointments
        PROVE  \/ rows'[i] = rows[i]
               \/ /\ rows'[i].staff = rows[i].staff
                  /\ rows'[i].status = "IN_PROGRESS"
    BY <2>1 DEF SetStatus, WithStatus, Row
  <2>3. ASSUME NEW i \in Appointments
        PROVE  \/ HeldBy(rows'[i]) = HeldBy(rows[i])
               \/ Holds(rows'[i]) /\ (Holds(rows[i]) => rows'[i].staff = rows[i].staff)
    <3>1. CASE rows'[i] = rows[i]
      BY <3>1
    <3>2. CASE Holds(rows'[i]) /\ rows'[i].staff = rows[i].staff
      BY <3>2
    <3>3. CASE ~Holds(rows'[i]) /\ ~Holds(rows[i])
      BY <3>3 DEF HeldBy
    <3>4. rows'[i].status = "IN_PROGRESS" /\ rows'[i].staff = rows[i].staff
            => Holds(rows'[i]) \/ ~Holds(rows[i])
      BY DEF Holds, ConstrainedStatuses
    <3>. QED  BY <2>2, <3>1, <3>2, <3>3, <3>4
  <2>. QED  BY <2>3, CalendarStep
<1>. QED  BY <1>1, <1>2, <1>3, <1>4 DEF RowsStep

(***************************************************************************)
(* The appointment book implements the staff calendar: each of its steps   *)
(* reserves, moves or releases intervals, or leaves the calendar alone.    *)
(***************************************************************************)
THEOREM BookingImplementsCalendar == Spec => ImplementsCalendar
<1>1. Init => Calendar!Init
  BY DEF Init, Calendar!Init, FreeRow, HeldBy, Holds
<1>2. TypeOK /\ TypeOK' /\ NoDoubleBooking' /\ [Next]_vars
        => [Calendar!Next]_([i \in Appointments |-> HeldBy(rows[i])])
  BY NextRows, RowsStepCalendar
<1>. QED  BY <1>1, <1>2, TypeCorrect, NeverDoubleBooked, PTL
          DEF Spec, ImplementsCalendar, Calendar!Spec

-----------------------------------------------------------------------------
(***************************************************************************)
(* Whatever the job's list holds, its update leaves rows that are not      *)
(* CONFIRMED or IN_PROGRESS as they are.                                   *)
(***************************************************************************)
THEOREM JobKeepsDecidedRows == Spec => JobKeepsDecided
<1>1. ASSUME NEW i \in Appointments, NEW j \in Jobs, JobMark(j),
             rows[i].status \notin RunningStatuses
      PROVE  rows'[i] = rows[i]
  BY <1>1 DEF JobMark, SetStatus
<1>2. [Next]_vars =>
        [\A i \in Appointments :
           (\E j \in Jobs : JobMark(j)) /\ rows[i].status \notin RunningStatuses
             => rows'[i] = rows[i]]_vars
  BY <1>1
<1>. QED  BY <1>2, PTL DEF Spec, JobKeepsDecided

-----------------------------------------------------------------------------
(***************************************************************************)
(* Every interval stays intact.  A handler writes by id without looking    *)
(* again, so the invariant has to say that the ids it holds are of rows    *)
(* that were inserted: IntervalInv is inductive relative to TypeOK.        *)
(***************************************************************************)
IntervalInv == TypeOK /\ RequestsKnowRows /\ IntervalIntact

Intact(r) == r.status # "NONE" => r.dur > 0 /\ r.end = r.start + r.dur

\* A step on the table that keeps what exists, and keeps it intact.
IntactStep ==
  /\ \A i \in Appointments : Intact(rows'[i])
  /\ \A i \in Appointments : Exists(i) => Exists(i)'

LEMMA IntactWrite ==
  ASSUME TypeOK, IntervalIntact, NEW i \in Appointments, NEW r \in Row,
         Write(i, r), Intact(r), r.status # "NONE"
  PROVE  IntactStep
<1>1. \A k \in Appointments : Intact(rows[k])
  BY DEF IntervalIntact, Intact, Exists
<1>2. \A k \in Appointments : rows'[k] = rows[k] \/ rows'[k] = r
  BY DEF Write, TypeOK
<1>. QED  BY <1>1, <1>2 DEF IntactStep, Exists

LEMMA IntactWithStatus ==
  ASSUME TypeOK, IntervalIntact, NEW i \in Appointments, NEW s \in Statuses,
         Exists(i)
  PROVE  /\ WithStatus(i, s) \in Row /\ WithStatus(i, s).status # "NONE"
         /\ Intact(WithStatus(i, s))
<1>1. WithStatus(i, s) \in Row /\ rows[i] \in Row
  BY WithStatusType DEF TypeOK
<1>2. /\ WithStatus(i, s).status = s /\ s # "NONE"
      /\ WithStatus(i, s).dur = rows[i].dur /\ WithStatus(i, s).end = rows[i].end
      /\ WithStatus(i, s).start = rows[i].start
  BY <1>1 DEF WithStatus, Row, Statuses
<1>. QED  BY <1>1, <1>2 DEF Intact, IntervalIntact

LEMMA IntactSetStatus ==
  ASSUME TypeOK, IntervalIntact, NEW S \in SUBSET Appointments, NEW s \in Statuses,
         \A i \in S : Exists(i), rows' = SetStatus(S, s)
  PROVE  IntactStep
<1>1. \A i \in Appointments : Intact(rows[i])
  BY DEF IntervalIntact, Intact, Exists
<1>2. \A i \in Appointments : rows'[i] = IF i \in S THEN WithStatus(i, s) ELSE rows[i]
  BY DEF SetStatus
<1>. QED  BY <1>1, <1>2, IntactWithStatus DEF IntactStep, Exists

LEMMA IntactUnchanged ==
  ASSUME IntervalIntact, UNCHANGED rows
  PROVE  IntactStep
BY DEF IntervalIntact, Intact, IntactStep, Exists

\* No request moves, or one moves on and holds ids of existing rows only.
Knows(q) ==
  /\ q.op \in {"approve", "reject", "cancel", "rescheduleConflicts", "rescheduleWrite",
             "autoRules", "autoWrite"} =>
       q.id \in Appointments /\ Exists(q.id)
  /\ q.op \in {"monitor", "closeDay", "ban", "auto", "autoRules", "autoWrite"} =>
       \A i \in q.ids : i \in Appointments /\ Exists(i)

KnownRequests ==
  \/ UNCHANGED req
  \/ \E p \in Requests, q \in RequestState :
       req' = [req EXCEPT ![p] = q] /\ Knows(q)

\* Requests other than p keep their ids, and their rows still exist.
LEMMA KnownStep ==
  ASSUME TypeOK, RequestsKnowRows, IntactStep,
         KnownRequests
  PROVE  RequestsKnowRows'
<1>1. ASSUME NEW r \in Requests,
             req[r].op \in {"approve", "reject", "cancel", "rescheduleConflicts",
                           "rescheduleWrite", "autoRules", "autoWrite"}
      PROVE  req[r].id \in Appointments
  BY <1>1, RequestFields DEF OneRowState, RescheduleState, AutoRowState
<1>2. ASSUME NEW r \in Requests,
             req[r].op \in {"monitor", "closeDay", "ban", "auto", "autoRules", "autoWrite"}
      PROVE  req[r].ids \in SUBSET Appointments
  BY <1>2, RequestFields DEF ManyRowsState, AutoState, AutoRowState
<1>3. CASE UNCHANGED req
  BY <1>1, <1>2, <1>3 DEF RequestsKnowRows, IntactStep
<1>4. ASSUME NEW p \in Requests, NEW q \in RequestState,
             req' = [req EXCEPT ![p] = q], Knows(q)
      PROVE  RequestsKnowRows'
  <2>. SUFFICES ASSUME NEW r \in Requests
       PROVE  /\ req'[r].op \in {"approve", "reject", "cancel", "rescheduleConflicts",
                     "rescheduleWrite", "autoRules", "autoWrite"} => Exists(req[r].id)'
              /\ req'[r].op \in {"monitor", "closeDay", "ban",
                                 "auto", "autoRules", "autoWrite"} =>
                     \A i \in req'[r].ids : Exists(i)'
    BY DEF RequestsKnowRows
  <2>1. CASE r = p
    <3>1. req'[r] = q
      BY <1>4, <2>1 DEF TypeOK
    <3>. QED  BY <1>4, <3>1 DEF IntactStep, Knows
  <2>2. CASE r # p
    <3>1. req'[r] = req[r]
      BY <1>4, <2>2 DEF TypeOK
    <3>. QED  BY <1>1, <1>2, <3>1 DEF RequestsKnowRows, IntactStep
  <2>. QED  BY <2>1, <2>2
<1>. QED  BY <1>3, <1>4 DEF KnownRequests

LEMMA KnownFinish ==
  ASSUME NEW p \in Requests, Finish(p)
  PROVE  KnownRequests
<1>1. Idle \in RequestState /\ Knows(Idle)
  BY DEF RequestState, Idle, Knows
<1>. QED  BY <1>1 DEF Finish, KnownRequests

LEMMA BookInterval ==
  ASSUME IntervalInv, NEW p \in Requests, BookStep(p)
  PROVE  IntactStep /\ KnownRequests
<1>. USE DEF IntervalInv
<1>1. ASSUME \E c \in Customers, s \in Staff \cup {NoOne}, t \in Starts,
             d \in Durations, forOther \in BOOLEAN :
               BookCheck(p, c, s, t, d, forOther)
      PROVE  IntactStep /\ KnownRequests
  <2>. PICK c \in Customers, s \in Staff \cup {NoOne}, t \in Starts,
            d \in Durations, forOther \in BOOLEAN :
              BookCheck(p, c, s, t, d, forOther)
    BY <1>1, Zenon
  <2>. DEFINE q == [op |-> "bookRules", staff |-> s, cust |-> c, start |-> t,
                    dur |-> d, forOther |-> forOther]
  <2>1. q \in RequestState
    BY DEF RequestState, BookingState
  <2>2. Knows(q)
    BY DEF Knows
  <2>3. req' = [req EXCEPT ![p] = q] /\ UNCHANGED rows
    BY DEF BookCheck, Begin
  <2>. HIDE DEF q
  <2>. QED  BY <2>1, <2>2, <2>3, IntactUnchanged DEF KnownRequests
<1>2. CASE BookRules(p)
  <2>1. req[p] \in BookingState
    BY <1>2, RequestFields DEF BookRules
  <2>2. ASSUME NEW d \in Durations
        PROVE  /\ [req[p] EXCEPT !.op = "bookConflicts", !.dur = d] \in RequestState
               /\ Knows([req[p] EXCEPT !.op = "bookConflicts", !.dur = d])
    BY <2>1 DEF RequestState, BookingState, Knows
  <2>3. UNCHANGED rows
    BY <1>2 DEF BookRules
  <2>4. Finish(p) \/ \E d \in Durations :
          req' = [req EXCEPT ![p] = [req[p] EXCEPT !.op = "bookConflicts", !.dur = d]]
    BY <1>2 DEF BookRules, Continue
  <2>. QED  BY <2>2, <2>3, <2>4, IntactUnchanged, KnownFinish DEF KnownRequests
<1>3. CASE BookConflicts(p)
  <2>1. req[p] \in BookingState
    BY <1>3, RequestFields DEF BookConflicts
  <2>2. /\ [req[p] EXCEPT !.op = "bookInsert"] \in RequestState
        /\ Knows([req[p] EXCEPT !.op = "bookInsert"])
    BY <2>1 DEF RequestState, BookingState, Knows
  <2>3. UNCHANGED rows
    BY <1>3 DEF BookConflicts
  <2>4. Finish(p) \/ req' = [req EXCEPT ![p] = [req[p] EXCEPT !.op = "bookInsert"]]
    BY <1>3 DEF BookConflicts, Continue
  <2>. QED  BY <2>2, <2>3, <2>4, IntactUnchanged, KnownFinish DEF KnownRequests
<1>4. CASE BookInsert(p)
  <2>1. req[p] \in BookingState
    BY <1>4, RequestFields DEF BookInsert
  <2>2. /\ req[p].start \in Nat /\ req[p].dur \in Nat \ {0}
        /\ req[p].staff \in Staff \cup {NoOne} /\ req[p].cust \in Customers
    BY <2>1, TimeAssumption, DurationAssumption DEF BookingState
  <2>3. DayOf(req[p].start) \in Nat
    BY <2>2, DayOfNat
  <2>4. PICK i \in Appointments, s \in {"CONFIRMED", "PENDING_APPROVAL"} :
          Write(i, [status |-> s, staff |-> req[p].staff, cust |-> req[p].cust,
                    date |-> DayOf(req[p].start), start |-> req[p].start,
                    dur |-> req[p].dur, end |-> req[p].start + req[p].dur])
    BY <1>4 DEF BookInsert
  <2>. DEFINE r == [status |-> s, staff |-> req[p].staff, cust |-> req[p].cust,
                    date |-> DayOf(req[p].start), start |-> req[p].start,
                    dur |-> req[p].dur, end |-> req[p].start + req[p].dur]
  <2>5. r \in Row /\ Intact(r) /\ r.status # "NONE"
    BY <2>2, <2>3 DEF Row, Statuses, Intact
  <2>6. IntactStep
    <3>1. Write(i, r)
      BY <2>4
    <3>. HIDE DEF r
    <3>. QED  BY <2>5, <3>1, IntactWrite
  <2>. QED  BY <1>4, <2>6, KnownFinish DEF BookInsert
<1>5. CASE BookNoRoom(p)
  BY <1>5, IntactUnchanged, KnownFinish DEF BookNoRoom
<1>. QED  BY <1>1, <1>2, <1>3, <1>4, <1>5 DEF BookStep

LEMMA DecideInterval ==
  ASSUME IntervalInv, NEW p \in Requests, DecideStep(p)
  PROVE  IntactStep /\ KnownRequests
<1>. USE DEF IntervalInv
<1>1. ASSUME NEW i \in Appointments,
             ApproveRead(p, i) \/ RejectRead(p, i) \/ CancelRead(p, i)
      PROVE  IntactStep /\ KnownRequests
  <2>1. Exists(i)
    BY <1>1 DEF ApproveRead, RejectRead, CancelRead, Exists
  <2>2. \A o \in {"approve", "reject", "cancel"} :
          [op |-> o, id |-> i] \in RequestState /\ Knows([op |-> o, id |-> i])
    BY <2>1 DEF RequestState, OneRowState, Knows
  <2>3. UNCHANGED rows /\ \E o \in {"approve", "reject", "cancel"} :
          req' = [req EXCEPT ![p] = [op |-> o, id |-> i]]
    BY <1>1 DEF ApproveRead, RejectRead, CancelRead, Begin
  <2>. QED  BY <2>2, <2>3, IntactUnchanged DEF KnownRequests
<1>2. ASSUME NEW s \in Statuses, req[p].op \in {"approve", "reject", "cancel"},
             Write(req[p].id, WithStatus(req[p].id, s)), Finish(p)
      PROVE  IntactStep /\ KnownRequests
  <2>1. req[p].id \in Appointments
    BY <1>2, RequestFields DEF OneRowState
  <2>2. Exists(req[p].id)
    BY <1>2 DEF RequestsKnowRows
  <2>. QED  BY <1>2, <2>1, <2>2, IntactWithStatus, IntactWrite, KnownFinish
<1>3. CASE ApproveWrite(p)
  BY <1>2, <1>3 DEF ApproveWrite, Statuses
<1>4. CASE RejectWrite(p)
  BY <1>2, <1>4 DEF RejectWrite, Statuses
<1>5. CASE CancelWrite(p)
  BY <1>2, <1>5 DEF CancelWrite, Statuses
<1>. QED  BY <1>1, <1>3, <1>4, <1>5 DEF DecideStep

\* A request that has read the rows ids and will write them by id.
LEMMA HoldsIds ==
  ASSUME IntervalInv, NEW p \in Requests, NEW ids \in SUBSET Appointments,
         \A i \in ids : Exists(i), NEW o \in {"monitor", "closeDay", "ban"},
         req' = [req EXCEPT ![p] = [op |-> o, ids |-> ids]], UNCHANGED rows
  PROVE  IntactStep /\ KnownRequests
<1>1. [op |-> o, ids |-> ids] \in RequestState /\ Knows([op |-> o, ids |-> ids])
  BY DEF RequestState, ManyRowsState, Knows
<1>. QED  BY <1>1, IntactUnchanged DEF KnownRequests, IntervalInv

LEMMA BulkInterval ==
  ASSUME IntervalInv, NEW p \in Requests, BulkStep(p)
  PROVE  IntactStep /\ KnownRequests
<1>. USE DEF IntervalInv
<1>1. ASSUME NEW i \in Appointments, CloseDayRead(p, i)
      PROVE  IntactStep /\ KnownRequests
  <2>1. Exists(i) /\ UNCHANGED rows
    BY <1>1 DEF CloseDayRead
  <2>2. CASE Begin(p, [op |-> "closeDay", ids |-> {i}])
    <3>1. req' = [req EXCEPT ![p] = [op |-> "closeDay", ids |-> {i}]]
      BY <2>2 DEF Begin
    <3>. QED  BY <2>1, <3>1, HoldsIds
  <2>3. CASE /\ req[p].op = "closeDay"
             /\ Continue(p, [req[p] EXCEPT !.ids = @ \cup {i}])
    <3>1. /\ req[p] \in ManyRowsState /\ req[p].ids \in SUBSET Appointments
          /\ \A k \in req[p].ids : Exists(k)
      BY <2>3, RequestFields DEF ManyRowsState, RequestsKnowRows
    <3>2. [req[p] EXCEPT !.ids = @ \cup {i}]
            = [op |-> "closeDay", ids |-> req[p].ids \cup {i}]
      BY <2>3, <3>1 DEF ManyRowsState
    <3>3. req' = [req EXCEPT ![p] = [op |-> "closeDay", ids |-> req[p].ids \cup {i}]]
      BY <2>3, <3>2 DEF Continue
    <3>. QED  BY <2>1, <3>1, <3>3, HoldsIds
  <2>. QED  BY <1>1, <2>2, <2>3 DEF CloseDayRead
<1>2. ASSUME NEW c \in Customers, BanRead(p, c)
      PROVE  IntactStep /\ KnownRequests
  <2>. DEFINE found == {i \in Appointments :
                         /\ rows[i].cust = c
                         /\ rows[i].status \in {"PENDING", "CONFIRMED"}
                         /\ rows[i].date * DayLength >= RulesClock}
  <2>1. found \in SUBSET Appointments /\ \A k \in found : Exists(k)
    BY DEF Exists
  <2>2. req' = [req EXCEPT ![p] = [op |-> "ban", ids |-> found]] /\ UNCHANGED rows
    BY <1>2 DEF BanRead, Begin
  <2>. HIDE DEF found
  <2>. QED  BY <2>1, <2>2, HoldsIds
<1>3. CASE CloseDayWrite(p) \/ BanWrite(p)
  <2>1. req[p].ids \in SUBSET Appointments /\ \A i \in req[p].ids : Exists(i)
    BY <1>3, RequestFields DEF CloseDayWrite, BanWrite, ManyRowsState, RequestsKnowRows
  <2>2. rows' = SetStatus(req[p].ids, "CANCELED") /\ Finish(p)
    BY <1>3 DEF CloseDayWrite, BanWrite
  <2>3. "CANCELED" \in Statuses
    BY DEF Statuses
  <2>. QED  BY <2>1, <2>2, <2>3, IntactSetStatus, KnownFinish
<1>. QED  BY <1>1, <1>2, <1>3 DEF BulkStep

LEMMA MonitorInterval ==
  ASSUME IntervalInv, NEW p \in Requests, MonitorStep(p)
  PROVE  IntactStep /\ KnownRequests
<1>. USE DEF IntervalInv
<1>1. ASSUME NEW who, MonitorRead(p, DayOf(now), who)
      PROVE  IntactStep /\ KnownRequests
  <2>. DEFINE seen == {i \in RowsTouching(DayOf(now)) :
                         /\ rows[i].staff \in who
                         /\ rows[i].status = "CONFIRMED"
                         /\ rows[i].start <= now /\ now < rows[i].end}
  <2>1. seen \in SUBSET Appointments /\ \A k \in seen : Exists(k)
    BY DEF RowsTouching, Exists
  <2>2. req' = [req EXCEPT ![p] = [op |-> "monitor", ids |-> seen]] /\ UNCHANGED rows
    BY <1>1 DEF MonitorRead, Begin
  <2>. HIDE DEF seen
  <2>. QED  BY <2>1, <2>2, HoldsIds
<1>2. CASE MonitorWrite(p)
  <2>1. req[p].ids \in SUBSET Appointments /\ \A i \in req[p].ids : Exists(i)
    BY <1>2, RequestFields DEF MonitorWrite, ManyRowsState, RequestsKnowRows
  <2>2. \/ UNCHANGED rows
        \/ rows' = SetStatus(req[p].ids, "IN_PROGRESS")
    BY <1>2 DEF MonitorWrite
  <2>3. "IN_PROGRESS" \in Statuses
    BY DEF Statuses
  <2>4. IntactStep
    BY <2>1, <2>2, <2>3, IntactSetStatus, IntactUnchanged
  <2>. QED  BY <1>2, <2>4, KnownFinish DEF MonitorWrite
<1>. QED  BY <1>1, <1>2 DEF MonitorStep

LEMMA RescheduledIntact ==
  ASSUME NEW r \in Row, NEW q \in RescheduleState, Intact(r), r.status # "NONE"
  PROVE  Intact(Rescheduled(r, q)) /\ Rescheduled(r, q).status # "NONE"
BY RescheduledType DEF Intact, Statuses

LEMMA RescheduleInterval ==
  ASSUME IntervalInv, NEW p \in Requests, RescheduleStep(p)
  PROVE  IntactStep /\ KnownRequests
<1>. USE DEF IntervalInv
<1>1. ASSUME NEW i \in Appointments, NEW t \in Nat, NEW date \in Nat,
             NEW s \in UpdateStatuses \cup {Keep}, NEW edit \in {"full", "time", "date"},
             RescheduleRead(p, i, t, date, edit, s)
      PROVE  IntactStep /\ KnownRequests
  <2>1. Exists(i) /\ UNCHANGED rows
    BY <1>1 DEF RescheduleRead
  <2>2. PICK d \in Durations :
          Begin(p, [op |-> "rescheduleConflicts", id |-> i, start |-> t,
                    date |-> date, edit |-> edit, dur |-> d, status |-> s])
    BY <1>1 DEF RescheduleRead
  <2>. DEFINE q == [op |-> "rescheduleConflicts", id |-> i, start |-> t,
                    date |-> date, edit |-> edit, dur |-> d, status |-> s]
  <2>3. q \in RequestState /\ Knows(q)
    BY <2>1 DEF RequestState, RescheduleState, Knows
  <2>4. req' = [req EXCEPT ![p] = q]
    BY <2>2 DEF Begin
  <2>. HIDE DEF q
  <2>. QED  BY <2>1, <2>3, <2>4, IntactUnchanged DEF KnownRequests
<1>2. CASE RescheduleConflicts(p)
  <2>1. req[p] \in RescheduleState /\ Exists(req[p].id)
    BY <1>2, RequestFields DEF RescheduleConflicts, RequestsKnowRows
  <2>2. /\ [req[p] EXCEPT !.op = "rescheduleWrite"] \in RequestState
        /\ Knows([req[p] EXCEPT !.op = "rescheduleWrite"])
    BY <2>1 DEF RequestState, RescheduleState, Knows
  <2>3. UNCHANGED rows
    BY <1>2 DEF RescheduleConflicts
  <2>4. Finish(p) \/ req' = [req EXCEPT ![p] = [req[p] EXCEPT !.op = "rescheduleWrite"]]
    BY <1>2 DEF RescheduleConflicts, Continue
  <2>. QED  BY <2>2, <2>3, <2>4, IntactUnchanged, KnownFinish DEF KnownRequests
<1>3. CASE RescheduleWrite(p)
  <2>1. req[p] \in RescheduleState /\ Exists(req[p].id)
    BY <1>3, RequestFields DEF RescheduleWrite, RequestsKnowRows
  <2>2. req[p].id \in Appointments
    BY <2>1 DEF RescheduleState
  <2>3. rows[req[p].id] \in Row /\ Intact(rows[req[p].id])
    BY <2>1, <2>2 DEF TypeOK, IntervalIntact, Intact
  <2>4. /\ Rescheduled(rows[req[p].id], req[p]) \in Row
        /\ Intact(Rescheduled(rows[req[p].id], req[p]))
        /\ Rescheduled(rows[req[p].id], req[p]).status # "NONE"
    BY <2>1, <2>3, RescheduledType, RescheduledIntact DEF Exists
  <2>. QED  BY <1>3, <2>2, <2>4, IntactWrite, KnownFinish DEF RescheduleWrite
<1>4. ASSUME NEW i \in Appointments, NEW t \in Starts,
             NEW s \in UpdateStatuses \cup {Keep},
             \/ RescheduleRead(p, i, t, DayOf(t), "full", s)
             \/ RescheduleRead(p, i, CheckedDay(i) * DayLength + (t % DayLength),
                               rows[i].date, "time", s)
             \/ RescheduleRead(p, i, rows[i].start, DayOf(t), "date", s)
      PROVE  IntactStep /\ KnownRequests
  BY <1>1, <1>4, RescheduleReads DEF IntervalInv
<1>. QED  BY <1>2, <1>3, <1>4 DEF RescheduleStep

LEMMA AutoNextKnown ==
  ASSUME IntervalInv, NEW p \in Requests, NEW ids \in SUBSET Appointments,
         \A i \in ids : Exists(i), req[p].after \in Nat, AutoNext(p, ids)
  PROVE  KnownRequests
<1>1. /\ [op |-> "auto", ids |-> ids, after |-> req[p].after] \in RequestState
      /\ Knows([op |-> "auto", ids |-> ids, after |-> req[p].after])
  BY DEF RequestState, AutoState, Knows
<1>. QED  BY <1>1, KnownFinish DEF AutoNext, Continue, KnownRequests

LEMMA AutoInterval ==
  ASSUME IntervalInv, NEW p \in Requests, AutoStep(p)
  PROVE  IntactStep /\ KnownRequests
<1>. USE DEF IntervalInv
<1>0. ASSUME req[p].op \in {"auto", "autoRules", "autoWrite"}
      PROVE  /\ req[p].ids \in SUBSET Appointments /\ req[p].after \in Nat
             /\ \A k \in req[p].ids : Exists(k)
  BY <1>0, RequestFields DEF AutoState, AutoRowState, RequestsKnowRows
<1>1. ASSUME NEW t \in Starts, NEW u \in Starts, AutoList(p, DayOf(t), DayOf(u))
      PROVE  IntactStep /\ KnownRequests
  <2>. DEFINE found == {i \in Appointments :
                         /\ rows[i].status = "CONFIRMED"
                         /\ DayOf(rows[i].start) \in DayOf(t) .. DayOf(u)}
              q == [op |-> "auto", ids |-> found, after |-> DayOf(u)]
  <2>1. q \in RequestState
    BY TimeAssumption, DayOfNat DEF RequestState, AutoState
  <2>2. Knows(q)
    BY DEF Knows, Exists
  <2>3. req' = [req EXCEPT ![p] = q] /\ UNCHANGED rows
    BY <1>1 DEF AutoList, Begin
  <2>. HIDE DEF q
  <2>. QED  BY <2>1, <2>2, <2>3, IntactUnchanged DEF KnownRequests
<1>2. ASSUME NEW i \in Appointments, NEW t \in Starts, AutoSlot(p, i, t)
      PROVE  IntactStep /\ KnownRequests
  <2>. DEFINE q == [op |-> "autoRules", ids |-> req[p].ids \ {i}, after |-> req[p].after,
                    id |-> i, start |-> t]
  <2>1. i \in req[p].ids /\ req' = [req EXCEPT ![p] = q] /\ UNCHANGED rows
    BY <1>2 DEF AutoSlot, Continue
  <2>2. q \in RequestState /\ Knows(q)
    BY <1>0, <1>2, <2>1 DEF AutoSlot, RequestState, AutoRowState, Knows
  <2>. HIDE DEF q
  <2>. QED  BY <2>1, <2>2, IntactUnchanged DEF KnownRequests
<1>3. ASSUME NEW i \in Appointments, AutoSkip(p, i)
      PROVE  IntactStep /\ KnownRequests
  <2>1. /\ req[p].ids \ {i} \in SUBSET Appointments /\ req[p].after \in Nat
        /\ \A k \in req[p].ids \ {i} : Exists(k)
    BY <1>0, <1>3 DEF AutoSkip
  <2>. QED  BY <1>3, <2>1, AutoNextKnown, IntactUnchanged DEF AutoSkip
<1>4. CASE AutoRules(p)
  <2>1. req[p] \in AutoRowState /\ Exists(req[p].id)
    BY <1>4, RequestFields DEF AutoRules, RequestsKnowRows
  <2>2. /\ [req[p] EXCEPT !.op = "autoWrite"] \in RequestState
        /\ Knows([req[p] EXCEPT !.op = "autoWrite"])
    BY <1>0, <1>4, <2>1 DEF AutoRules, RequestState, AutoRowState, Knows
  <2>3. AutoNext(p, req[p].ids) \/ req' = [req EXCEPT ![p] = [req[p] EXCEPT !.op = "autoWrite"]]
    BY <1>4 DEF AutoRules, Continue
  <2>4. KnownRequests
    BY <1>0, <1>4, <2>2, <2>3, AutoNextKnown DEF AutoRules, KnownRequests
  <2>. QED  BY <1>4, <2>4, IntactUnchanged DEF AutoRules
<1>5. CASE AutoWrite(p)
  <2>1. req[p] \in AutoRowState /\ Exists(req[p].id)
    BY <1>5, RequestFields DEF AutoWrite, RequestsKnowRows
  <2>2. req[p].id \in Appointments /\ req[p].start \in Nat
    BY <2>1, TimeAssumption DEF AutoRowState
  <2>. DEFINE m == [Moved(rows[req[p].id], req[p].start) EXCEPT !.status = "CONFIRMED"]
  <2>3. rows[req[p].id] \in Row /\ rows[req[p].id].dur > 0
    BY <2>1, <2>2 DEF TypeOK, IntervalIntact
  <2>4. m \in Row /\ Intact(m) /\ m.status # "NONE"
    BY <2>2, <2>3, MovedType DEF Intact
  <2>5. Write(req[p].id, m)
    BY <1>5 DEF AutoWrite
  <2>. HIDE DEF m
  <2>6. IntactStep
    BY <2>2, <2>4, <2>5, IntactWrite
  <2>. QED  BY <1>0, <1>5, <2>6, AutoNextKnown DEF AutoWrite
<1>. QED  BY <1>1, <1>2, <1>3, <1>4, <1>5 DEF AutoStep

LEMMA FinalizeInterval ==
  ASSUME IntervalInv, NEW p \in Requests, FinalizeStep(p)
  PROVE  IntactStep /\ KnownRequests
<1>. USE DEF IntervalInv
<1>1. ASSUME NEW ids \in SUBSET Appointments, FinalizeComplete(p, ids)
      PROVE  IntactStep /\ KnownRequests
  <2>. DEFINE q == [op |-> "promote", ids |-> ids, at |-> now]
              done == {i \in ids : Ended(i)}
  <2>1. q \in RequestState /\ Knows(q)
    BY DEF RequestState, PromoteState, Knows, TypeOK
  <2>2. /\ done \in SUBSET Appointments /\ \A i \in done : Exists(i)
        /\ "COMPLETED" \in Statuses
    BY DEF Ended, Exists, RunningStatuses, Statuses
  <2>3. rows' = SetStatus(done, "COMPLETED") /\ req' = [req EXCEPT ![p] = q]
    BY <1>1 DEF FinalizeComplete, Begin
  <2>. HIDE DEF q, done
  <2>. QED  BY <2>1, <2>2, <2>3, IntactSetStatus DEF KnownRequests
<1>2. CASE FinalizePromote(p)
  <2>. DEFINE due == {i \in req[p].ids :
                        /\ rows[i].status = "CONFIRMED"
                        /\ rows[i].start <= req[p].at
                        /\ rows[i].end > req[p].at}
  <2>1. req[p].ids \in SUBSET Appointments
    BY <1>2, RequestFields DEF FinalizePromote, PromoteState
  <2>2. /\ due \in SUBSET Appointments /\ \A i \in due : Exists(i)
        /\ "IN_PROGRESS" \in Statuses
    BY <2>1 DEF Exists, Statuses
  <2>3. rows' = SetStatus(due, "IN_PROGRESS") /\ Finish(p)
    BY <1>2 DEF FinalizePromote
  <2>. HIDE DEF due
  <2>. QED  BY <2>2, <2>3, IntactSetStatus, KnownFinish
<1>. QED  BY <1>1, <1>2 DEF FinalizeStep

LEMMA JobInterval ==
  ASSUME IntervalInv, NEW j \in Jobs, JobStep(j)
  PROVE  IntactStep /\ KnownRequests
<1>. USE DEF IntervalInv
<1>1. CASE JobFind(j)
  BY <1>1, IntactUnchanged DEF JobFind, KnownRequests
<1>2. CASE JobMark(j)
  <2>. DEFINE running == {i \in job[j].found : rows[i].status \in RunningStatuses}
  <2>1. /\ running \in SUBSET Appointments /\ \A i \in running : Exists(i)
        /\ "COMPLETED" \in Statuses
    BY DEF TypeOK, JobState, Exists, RunningStatuses, Statuses
  <2>2. rows' = SetStatus(running, "COMPLETED") /\ UNCHANGED req
    BY <1>2 DEF JobMark
  <2>. HIDE DEF running
  <2>. QED  BY <2>1, <2>2, IntactSetStatus DEF KnownRequests
<1>. QED  BY <1>1, <1>2 DEF JobStep

LEMMA IntervalNext == IntervalInv /\ [Next]_vars => IntervalInv'
<1>. SUFFICES ASSUME IntervalInv, [Next]_vars PROVE IntervalInv'
  OBVIOUS
<1>1. ASSUME Tick \/ UNCHANGED vars
      PROVE  IntactStep /\ KnownRequests
  <2>1. UNCHANGED <<rows, req>>
    BY <1>1 DEF Tick, vars
  <2>. QED  BY <2>1, IntactUnchanged DEF IntervalInv, KnownRequests
<1>2. ASSUME NEW i \in Appointments, OneStep(i)
      PROVE  IntactStep /\ KnownRequests
  <2>1. PICK s \in Statuses : UpdateStatus(i, s)
    BY <1>2, StatusAssumption DEF OneStep, ConfirmAppointment, CompleteAppointment,
       MarkNoShow, BatchCancel, StaffUpdate, Statuses
  <2>. QED  BY <2>1, IntactWithStatus, IntactWrite
            DEF UpdateStatus, IntervalInv, KnownRequests
<1>3. IntactStep /\ KnownRequests
  <2>1. ASSUME NEW p \in Requests,
               \/ BookStep(p) \/ DecideStep(p) \/ BulkStep(p) \/ MonitorStep(p)
               \/ RescheduleStep(p) \/ AutoStep(p) \/ FinalizeStep(p)
        PROVE  IntactStep /\ KnownRequests
    BY <2>1, BookInterval, DecideInterval, BulkInterval, MonitorInterval,
       RescheduleInterval, AutoInterval, FinalizeInterval
  <2>. QED  BY <1>1, <1>2, <2>1, JobInterval DEF Next
<1>4. TypeOK'
  BY NextType DEF IntervalInv
<1>5. RequestsKnowRows'
  BY <1>3, KnownStep DEF IntervalInv
<1>6. IntervalIntact'
  BY <1>3 DEF IntactStep, Intact, IntervalIntact, Exists
<1>. QED  BY <1>4, <1>5, <1>6 DEF IntervalInv

LEMMA IntervalInit == Init => IntervalInv
BY InitType DEF Init, IntervalInv, RequestsKnowRows, IntervalIntact, Exists,
   FreeRow, Idle

(***************************************************************************)
(* After any sequence of bookings, edits and status changes, racing or     *)
(* not, a row ends its own duration after it starts.                       *)
(***************************************************************************)
THEOREM IntervalsIntact == Spec => []IntervalIntact
<1>. IntervalInv => IntervalIntact
  BY DEF IntervalInv
<1>. QED  BY IntervalInit, IntervalNext, PTL DEF Spec

\* A handler that waits to write by id holds only ids of inserted rows.
THEOREM RequestsHoldKnownRows == Spec => []RequestsKnowRows
<1>. IntervalInv => RequestsKnowRows
  BY DEF IntervalInv
<1>. QED  BY IntervalInit, IntervalNext, PTL DEF Spec

-----------------------------------------------------------------------------
\* Days as multiples of their length.
LEMMA NextDay ==
  ASSUME NEW L \in Nat \ {0}, NEW m \in Nat, NEW n \in Nat, m < n
  PROVE  (m + 1) * L <= n * L
<1>1. PICK k \in Nat : n = m + 1 + k
  <2>1. n - m - 1 \in Nat /\ n = m + 1 + (n - m - 1)
    OBVIOUS
  <2>. QED  BY <2>1
<1>2. n * L = (m + 1) * L + k * L /\ k * L \in Nat /\ (m + 1) * L \in Nat
  BY <1>1
<1>. QED  BY <1>2

LEMMA DayBounds ==
  ASSUME NEW t \in Nat
  PROVE  /\ DayOf(t) \in Nat /\ t % DayLength \in 0 .. DayLength - 1
         /\ t = DayOf(t) * DayLength + (t % DayLength)
BY TimeAssumption DEF DayOf

LEMMA DayMonotone ==
  ASSUME NEW s \in Nat, NEW t \in Nat, s <= t
  PROVE  DayOf(s) <= DayOf(t)
<1>. SUFFICES ASSUME DayOf(t) < DayOf(s)  PROVE FALSE
  BY DayBounds
<1>. DEFINE m == DayOf(s)
            n == DayOf(t)
            x == s % DayLength
            y == t % DayLength
<1>1. /\ m \in Nat /\ n \in Nat /\ x \in Nat /\ y \in 0 .. DayLength - 1 /\ n < m
      /\ s = m * DayLength + x /\ t = n * DayLength + y
  BY DayBounds
<1>2. /\ m * DayLength \in Nat /\ n * DayLength \in Nat
      /\ (n + 1) * DayLength = n * DayLength + DayLength
  BY <1>1, TimeAssumption
<1>3. (n + 1) * DayLength <= m * DayLength
  BY <1>1, NextDay, TimeAssumption
<1>. HIDE DEF m, n, x, y
<1>. QED  BY <1>1, <1>2, <1>3, TimeAssumption

\* A time of day on a day.
LEMMA DayTimes ==
  ASSUME NEW m \in Nat, NEW x \in 0 .. DayLength - 1
  PROVE  /\ m * DayLength + x \in Nat
         /\ DayOf(m * DayLength + x) = m
         /\ (m * DayLength + x) % DayLength = x
<1>. DEFINE t == m * DayLength + x
            n == DayOf(t)
            y == t % DayLength
<1>1. t \in Nat /\ m * DayLength \in Nat
  BY TimeAssumption
<1>2. n \in Nat /\ y \in 0 .. DayLength - 1 /\ t = n * DayLength + y
  BY <1>1, DayBounds
<1>3. n * DayLength \in Nat /\ (m + 1) * DayLength = m * DayLength + DayLength
      /\ (n + 1) * DayLength = n * DayLength + DayLength
  BY <1>2, TimeAssumption
<1>4. t = m * DayLength + x
  OBVIOUS
<1>5. ~(m < n)
  <2>1. m < n => (m + 1) * DayLength <= n * DayLength
    BY <1>2, NextDay, TimeAssumption
  <2>. HIDE DEF t, n, y
  <2>. QED  BY <1>1, <1>2, <1>3, <1>4, <2>1, TimeAssumption
<1>6. ~(n < m)
  <2>1. n < m => (n + 1) * DayLength <= m * DayLength
    BY <1>2, NextDay, TimeAssumption
  <2>. HIDE DEF t, n, y
  <2>. QED  BY <1>1, <1>2, <1>3, <1>4, <2>1, TimeAssumption
<1>7. n = m
  BY <1>2, <1>5, <1>6
<1>8. y = x
  <2>. HIDE DEF t, n, y
  <2>. QED  BY <1>1, <1>2, <1>3, <1>4, <1>7, TimeAssumption
<1>. QED  BY <1>1, <1>7, <1>8

\* Intervals that end within their days overlap on the same day only.
LEMMA DaysApart ==
  ASSUME NEW s \in Nat, NEW d \in Nat, (s % DayLength) + d <= DayLength,
         NEW t \in Nat, NEW e \in Nat, (t % DayLength) + e <= DayLength,
         DayOf(s) # DayOf(t)
  PROVE  ~Overlap(s, s + d, t, t + e)
<1>. DEFINE m == DayOf(s)
            n == DayOf(t)
            x == s % DayLength
            y == t % DayLength
<1>1. /\ m \in Nat /\ n \in Nat /\ x \in Nat /\ y \in Nat /\ m # n
      /\ s = m * DayLength + x /\ t = n * DayLength + y
      /\ x + d <= DayLength /\ y + e <= DayLength
  BY DayBounds
<1>2. /\ m * DayLength \in Nat /\ n * DayLength \in Nat
      /\ (m + 1) * DayLength = m * DayLength + DayLength
      /\ (n + 1) * DayLength = n * DayLength + DayLength
  BY <1>1, TimeAssumption
<1>3. /\ m < n => (m + 1) * DayLength <= n * DayLength
      /\ n < m => (n + 1) * DayLength <= m * DayLength
  BY <1>1, NextDay, TimeAssumption
<1>. HIDE DEF m, n, x, y
<1>. QED  BY <1>1, <1>2, <1>3, TimeAssumption DEF Overlap

-----------------------------------------------------------------------------
(***************************************************************************)
(* What the application's own checks guarantee when requests do not race:  *)
(* rows that occupy their slots are apart, and the days keep their limit.  *)
(* Instances of the job are as many as there may be.                       *)
(***************************************************************************)

\* One request at a time, of the handlers that check before they write; the
\* service keeps its duration, and the server does not run on Istanbul time, on
\* which a time-only edit is judged by the day before.
OneAtATime ==
  /\ \A p, q \in Requests : p = q
  /\ \A d, e \in Durations : d = e
  /\ Skew # 0
  /\ Endpoints \subseteq {"decide", "bulk", "monitor", "reschedule", "finalize"}
  /\ IsFiniteSet(Appointments)

\* No appointment goes on after midnight.
DayFits == \A t \in Starts, d \in Durations : (t % DayLength) + d <= DayLength

Shaped(r) ==
  /\ r.dur \in Durations
  /\ r.end = r.start + r.dur
  /\ DayFits => (r.start % DayLength) + r.dur <= DayLength
RowsShaped == \A i \in Appointments : Exists(i) => Shaped(rows[i])

\* A row that a screen is about to promote counts as one that occupies its slot.
Occupied(i) ==
  \/ rows[i].status \in ActiveStatuses
  \/ \E p \in Requests : req[p].op = "monitor" /\ i \in req[p].ids

\* Two rows that must not overlap: of one staff member, or of one customer.
Rivals(r, q) == (r.staff # NoOne /\ r.staff = q.staff) \/ (DayFits /\ r.cust = q.cust)
RowsApart ==
  \A i, k \in Appointments :
    /\ i # k
    /\ Occupied(i) /\ Occupied(k)
    /\ rows[i].date = rows[k].date
    /\ Rivals(rows[i], rows[k])
    => ~Overlap(rows[i].start, rows[i].end, rows[k].start, rows[k].end)

Counted(day) == {i \in RowsStartingOn(day) : rows[i].status # "CANCELED"}
DaysWithin == \A day \in Nat : Cardinality(Counted(day)) <= MaxDaily

\* What a request's checks have found, which still holds when it writes.
Room(q) == Cardinality(Counted(DayOf(q.start))) < MaxDaily
CustomerFree(q) ==
  \A i \in Counted(DayOf(q.start)) :
    rows[i].cust = q.cust => ~Overlap(q.start, q.start + q.dur, rows[i].start, rows[i].end)
SlotFree(q) == Conflicting(q.staff, DayOf(q.start), q.start, q.start + q.dur, {}) = {}
OthersAway(q) == Conflicting(NoOne, q.date, q.start, q.start + q.dur, {q.id}) = {}

\* The start that was judged is the one the edit will write.
Timely(q) ==
  IF q.edit = "date"
    THEN q.start = rows[q.id].start
    ELSE /\ EditedStart(rows[q.id], q) = q.start
         /\ q.date = DayOf(q.start)
         /\ \E t \in Starts : q.start % DayLength = t % DayLength

KnowsBook(q) ==
  /\ q.op \in {"approve", "reject"} => rows[q.id].status = "PENDING_APPROVAL"
  /\ q.op = "monitor" => \A i \in q.ids : rows[i].status \in {"CONFIRMED", "COMPLETED"}
  /\ q.op \in {"bookConflicts", "bookInsert"} => Room(q) /\ CustomerFree(q)
  /\ q.op = "bookInsert" => SlotFree(q)
  /\ q.op \in {"rescheduleConflicts", "rescheduleWrite"} => Room(q) /\ Timely(q)
  /\ q.op = "rescheduleWrite" => OthersAway(q)

SerialInv ==
  /\ IntervalInv
  /\ RowsShaped /\ RowsApart /\ DaysWithin
  /\ \A p \in Requests : KnowsBook(req[p])

\* Rows keep what they say but for their status.
SameSlots ==
  \A i \in Appointments :
    /\ rows'[i].staff = rows[i].staff /\ rows'[i].cust = rows[i].cust
    /\ rows'[i].date = rows[i].date /\ rows'[i].dur = rows[i].dur
    /\ rows'[i].start = rows[i].start /\ rows'[i].end = rows[i].end

LEMMA CountedFinite ==
  ASSUME IsFiniteSet(Appointments), NEW day
  PROVE  IsFiniteSet(Counted(day)) /\ Cardinality(Counted(day)) \in Nat
<1>1. Counted(day) \subseteq Appointments
  BY DEF Counted, RowsStartingOn
<1>2. IsFiniteSet(Counted(day))
  BY <1>1, FS_Subset
<1>. QED  BY <1>2, FS_CardinalityType

\* No row begins to occupy or to count.
LEMMA StatusKept ==
  ASSUME OneAtATime, RowsShaped, RowsApart, DaysWithin, SameSlots,
         \A i \in Appointments :
           /\ Exists(i)' => Exists(i)
           /\ Occupied(i)' => Occupied(i)
           /\ Exists(i)' /\ rows'[i].status # "CANCELED" => rows[i].status # "CANCELED"
  PROVE  RowsShaped' /\ RowsApart' /\ DaysWithin'
<1>1. RowsShaped'
  BY DEF RowsShaped, Shaped, SameSlots
<1>2. RowsApart'
  BY DEF RowsApart, Rivals, SameSlots
<1>3. DaysWithin'
  <2>. SUFFICES ASSUME NEW day \in Nat
                PROVE  Cardinality(Counted(day)') <= MaxDaily
    BY DEF DaysWithin
  <2>1. Counted(day)' \subseteq Counted(day)
    BY DEF Counted, RowsStartingOn, SameSlots, Exists
  <2>2. /\ IsFiniteSet(Counted(day)) /\ Cardinality(Counted(day)) \in Nat
        /\ Cardinality(Counted(day)) <= MaxDaily
    BY CountedFinite DEF OneAtATime, DaysWithin
  <2>3. /\ IsFiniteSet(Counted(day)') /\ Cardinality(Counted(day)') \in Nat
        /\ Cardinality(Counted(day)') <= Cardinality(Counted(day))
    BY <2>1, <2>2, FS_Subset, FS_CardinalityType
  <2>. QED  BY <2>2, <2>3, RulesAssumption
<1>. QED  BY <1>1, <1>2, <1>3

LEMMA StatusFields ==
  ASSUME TypeOK, NEW S \in SUBSET Appointments, NEW s \in Statuses,
         \/ rows' = SetStatus(S, s)
         \/ \E i \in S : Write(i, WithStatus(i, s))
  PROVE  /\ SameSlots
         /\ \A i \in Appointments :
              (i \in S /\ rows'[i].status = s) \/ rows'[i].status = rows[i].status
<1>1. rows \in [Appointments -> Row]
  BY DEF TypeOK
<1>2. \A i \in Appointments :
        (i \in S /\ rows'[i] = WithStatus(i, s)) \/ rows'[i] = rows[i]
  BY <1>1 DEF SetStatus, Write
<1>3. \A i \in Appointments :
        /\ WithStatus(i, s).status = s
        /\ WithStatus(i, s).staff = rows[i].staff /\ WithStatus(i, s).cust = rows[i].cust
        /\ WithStatus(i, s).date = rows[i].date /\ WithStatus(i, s).dur = rows[i].dur
        /\ WithStatus(i, s).start = rows[i].start /\ WithStatus(i, s).end = rows[i].end
  BY <1>1 DEF WithStatus, Row
<1>. QED  BY <1>2, <1>3 DEF SameSlots

\* The only request ends, or begins or goes on with what it knows.
LEMMA OnlyRequest ==
  ASSUME TypeOK, OneAtATime, NEW p \in Requests, NEW q,
         req' = [req EXCEPT ![p] = q]
  PROVE  /\ req'[p] = q
         /\ \A r \in Requests : r = p
BY DEF TypeOK, OneAtATime

\* The table stays as it is, and the request is not a screen's.
LEMMA QuietStep ==
  ASSUME OneAtATime, SerialInv, IntervalInv', NEW p \in Requests, NEW q,
         req' = [req EXCEPT ![p] = q], UNCHANGED rows, q.op # "monitor", KnowsBook(q)
  PROVE  SerialInv'
<1>1. req'[p] = q /\ \A r \in Requests : r = p
  BY OnlyRequest DEF SerialInv, IntervalInv
<1>2. \A i \in Appointments : Occupied(i)' => Occupied(i)
  BY <1>1 DEF Occupied
<1>3. RowsShaped' /\ RowsApart' /\ DaysWithin'
  BY <1>2, StatusKept DEF SerialInv, SameSlots, Exists
<1>4. KnowsBook(q)'
  BY DEF KnowsBook, Room, CustomerFree, SlotFree, OthersAway, Timely, Counted, RowsStartingOn,
         Exists, Conflicting
<1>5. \A r \in Requests : KnowsBook(req[r])'
  BY <1>1, <1>4 DEF KnowsBook, Room, CustomerFree, SlotFree, OthersAway, Timely
<1>. QED  BY <1>3, <1>5 DEF SerialInv

LEMMA QuietFinish ==
  ASSUME OneAtATime, SerialInv, IntervalInv', NEW p \in Requests, Finish(p), UNCHANGED rows
  PROVE  SerialInv'
<1>1. Idle.op # "monitor" /\ KnowsBook(Idle)
  BY DEF Idle, KnowsBook
<1>. QED  BY <1>1, QuietStep DEF Finish

\* The request ends with a statement that changes statuses.
LEMMA StatusFinish ==
  ASSUME OneAtATime, SerialInv, IntervalInv', NEW p \in Requests, Finish(p),
         NEW S \in SUBSET Appointments, NEW s \in Statuses,
         \/ rows' = SetStatus(S, s)
         \/ \E i \in S : Write(i, WithStatus(i, s)),
         \A i \in S : /\ Exists(i)
                      /\ s \in ActiveStatuses => Occupied(i)
                      /\ s # "CANCELED" => rows[i].status # "CANCELED"
  PROVE  SerialInv'
<1>1. TypeOK /\ TypeOK'
  BY DEF SerialInv, IntervalInv
<1>2. req'[p] = Idle /\ \A r \in Requests : r = p
  BY <1>1, OnlyRequest DEF Finish
<1>3. /\ SameSlots
      /\ \A i \in Appointments :
           (i \in S /\ rows'[i].status = s) \/ rows'[i].status = rows[i].status
  BY <1>1, StatusFields
<1>4. \A i \in Appointments :
        /\ Exists(i)' => Exists(i)
        /\ Occupied(i)' => Occupied(i)
        /\ Exists(i)' /\ rows'[i].status # "CANCELED" => rows[i].status # "CANCELED"
  BY <1>2, <1>3 DEF Exists, Occupied, Idle
<1>5. RowsShaped' /\ RowsApart' /\ DaysWithin'
  BY <1>3, <1>4, StatusKept DEF SerialInv
<1>6. \A r \in Requests : KnowsBook(req[r])'
  BY <1>2 DEF KnowsBook, Idle
<1>. QED  BY <1>5, <1>6 DEF SerialInv

\* The request ends with a statement about one row, whose slot the checks found
\* free on a day with room.
LEMMA SlotFinish ==
  ASSUME OneAtATime, SerialInv, IntervalInv', NEW p \in Requests, Finish(p),
         req[p].op # "monitor",
         NEW i \in Appointments, NEW r \in Row, Write(i, r), Shaped(r),
         Cardinality(Counted(DayOf(r.start))) < MaxDaily,
         \A k \in Appointments \ {i} :
           rows[k].status \in ActiveStatuses /\ rows[k].date = r.date /\ Rivals(r, rows[k])
             => ~Overlap(r.start, r.end, rows[k].start, rows[k].end)
  PROVE  SerialInv'
<1>1. req'[p] = Idle /\ \A q \in Requests : q = p
  BY OnlyRequest DEF SerialInv, IntervalInv, Finish
<1>2. CASE UNCHANGED rows
  BY <1>2, QuietFinish
<1>3. CASE rows' = [rows EXCEPT ![i] = r]
  <2>1. rows'[i] = r /\ \A k \in Appointments \ {i} : rows'[k] = rows[k]
    BY <1>3 DEF SerialInv, IntervalInv, TypeOK
  <2>2. RowsShaped'
    BY <2>1 DEF SerialInv, RowsShaped, Shaped, Exists
  <2>3. \A k \in Appointments : /\ Occupied(k) <=> rows[k].status \in ActiveStatuses
                                /\ Occupied(k)' <=> rows'[k].status \in ActiveStatuses
    BY <1>1 DEF Occupied, Idle
  <2>4. RowsApart'
    <3>. SUFFICES ASSUME NEW a \in Appointments, NEW b \in Appointments, a # b,
                         Occupied(a)', Occupied(b)', rows'[a].date = rows'[b].date,
                         Rivals(rows'[a], rows'[b])
                  PROVE  ~Overlap(rows'[a].start, rows'[a].end, rows'[b].start, rows'[b].end)
      BY DEF RowsApart, Rivals, Overlap
    <3>1. Rivals(rows'[b], rows'[a])
      BY DEF Rivals
    <3>2. CASE a = i
      BY <2>1, <2>3, <3>2
    <3>3. CASE b = i
      <4>1. ~Overlap(r.start, r.end, rows[a].start, rows[a].end)
        BY <2>1, <2>3, <3>1, <3>3
      <4>. QED  BY <2>1, <3>3, <4>1 DEF Overlap
    <3>4. CASE a # i /\ b # i
      BY <2>1, <2>3, <3>4 DEF SerialInv, RowsApart
    <3>. QED  BY <3>2, <3>3, <3>4
  <2>5. DaysWithin'
    <3>. SUFFICES ASSUME NEW day \in Nat
                  PROVE  Cardinality(Counted(day)') <= MaxDaily
      BY DEF DaysWithin
    <3>1. /\ IsFiniteSet(Counted(day)) /\ Cardinality(Counted(day)) \in Nat
          /\ Cardinality(Counted(day)) <= MaxDaily
      BY CountedFinite DEF OneAtATime, SerialInv, DaysWithin
    <3>2. CASE day = DayOf(r.start)
      <4>1. Counted(day)' \subseteq Counted(day) \cup {i}
        BY <2>1 DEF Counted, RowsStartingOn, Exists
      <4>2. /\ IsFiniteSet(Counted(day) \cup {i})
            /\ Cardinality(Counted(day) \cup {i}) <= Cardinality(Counted(day)) + 1
        <5>. DEFINE C == Counted(day)
        <5>1. IsFiniteSet(C) /\ Cardinality(C) \in Nat
          BY <3>1
        <5>. HIDE DEF C
        <5>2. /\ IsFiniteSet(C \cup {i})
              /\ Cardinality(C \cup {i}) = IF i \in C THEN Cardinality(C) ELSE Cardinality(C) + 1
          BY <5>1, FS_AddElement, Zenon
        <5>3. Cardinality(C \cup {i}) <= Cardinality(C) + 1
          BY <5>1, <5>2
        <5>. QED  BY <5>2, <5>3 DEF C
      <4>3. /\ Cardinality(Counted(day)') <= Cardinality(Counted(day) \cup {i})
            /\ Cardinality(Counted(day)') \in Nat
            /\ Cardinality(Counted(day) \cup {i}) \in Nat
        BY <4>1, <4>2, FS_Subset, FS_CardinalityType
      <4>4. Cardinality(Counted(day)) < MaxDaily
        BY <3>2
      <4>. QED  BY <3>1, <4>2, <4>3, <4>4, RulesAssumption
    <3>3. CASE day # DayOf(r.start)
      <4>1. Counted(day)' \subseteq Counted(day)
        BY <2>1, <3>3 DEF Counted, RowsStartingOn, Exists
      <4>2. /\ Cardinality(Counted(day)') <= Cardinality(Counted(day))
            /\ Cardinality(Counted(day)') \in Nat
        BY <3>1, <4>1, FS_Subset, FS_CardinalityType
      <4>. QED  BY <3>1, <4>2, RulesAssumption
    <3>. QED  BY <3>2, <3>3
  <2>6. \A q \in Requests : KnowsBook(req[q])'
    BY <1>1 DEF KnowsBook, Idle
  <2>. QED  BY <2>2, <2>4, <2>5, <2>6 DEF SerialInv
<1>. QED  BY <1>2, <1>3 DEF Write

\* The reservation rules leave room on the day, whichever query of the day they
\* are asked of: a row that starts in a day touches it.
LEMMA RulesRoom ==
  ASSUME OneAtATime, TypeOK, IntervalIntact, NEW t \in Nat, NEW c, NEW d, NEW notice,
         NEW forOther, NEW dayRows, dayRows \subseteq Appointments,
         RowsStartingOn(DayOf(t)) \subseteq dayRows,
         RulesAllow(dayRows, c, t, d, notice, forOther)
  PROVE  Cardinality(Counted(DayOf(t))) < MaxDaily
<1>. DEFINE counted == {i \in dayRows : rows[i].status # "CANCELED"}
<1>1. Counted(DayOf(t)) \subseteq counted /\ counted \subseteq Appointments
  BY DEF Counted
<1>2. Cardinality(counted) < MaxDaily
  BY DEF RulesAllow
<1>. HIDE DEF counted
<1>3. IsFiniteSet(counted)
  BY <1>1, FS_Subset DEF OneAtATime
<1>4. /\ Cardinality(Counted(DayOf(t))) <= Cardinality(counted)
      /\ Cardinality(Counted(DayOf(t))) \in Nat /\ Cardinality(counted) \in Nat
  BY <1>1, <1>3, FS_Subset, FS_CardinalityType
<1>. QED  BY <1>2, <1>4, RulesAssumption

LEMMA StartsTouch ==
  ASSUME TypeOK, IntervalIntact, NEW day \in Nat
  PROVE  RowsStartingOn(day) \subseteq RowsTouching(day) /\ RowsTouching(day) \subseteq Appointments
<1>1. RowsTouching(day) \subseteq Appointments
  BY DEF RowsTouching
<1>2. ASSUME NEW i \in RowsStartingOn(day)
      PROVE  i \in RowsTouching(day)
  <2>1. i \in Appointments /\ Exists(i) /\ DayOf(rows[i].start) = day
    BY <1>2 DEF RowsStartingOn
  <2>2. /\ rows[i].start \in Nat /\ rows[i].end \in Nat /\ rows[i].dur \in Nat
        /\ rows[i].end = rows[i].start + rows[i].dur
    BY <2>1 DEF TypeOK, Row, IntervalIntact
  <2>3. DayOf(rows[i].start) <= DayOf(rows[i].end)
    BY <2>2, DayMonotone
  <2>. QED  BY <2>1, <2>3 DEF RowsTouching
<1>. QED  BY <1>1, <1>2

LEMMA BookSerial ==
  ASSUME OneAtATime, SerialInv, IntervalInv', NEW p \in Requests, BookStep(p)
  PROVE  SerialInv'
<1>0. TypeOK /\ IntervalIntact /\ RowsShaped /\ KnowsBook(req[p])
  BY DEF SerialInv, IntervalInv
<1>1. ASSUME \E c \in Customers, s \in Staff \cup {NoOne}, t \in Starts,
             d \in Durations, forOther \in BOOLEAN : BookCheck(p, c, s, t, d, forOther)
      PROVE  SerialInv'
  <2>. PICK c \in Customers, s \in Staff \cup {NoOne}, t \in Starts,
            d \in Durations, forOther \in BOOLEAN : BookCheck(p, c, s, t, d, forOther)
    BY <1>1, Zenon
  <2>. DEFINE q == [op |-> "bookRules", staff |-> s, cust |-> c, start |-> t,
                    dur |-> d, forOther |-> forOther]
  <2>1. req' = [req EXCEPT ![p] = q] /\ UNCHANGED rows
    BY DEF BookCheck, Begin
  <2>2. q.op # "monitor" /\ KnowsBook(q)
    BY DEF KnowsBook
  <2>. HIDE DEF q
  <2>. QED  BY <2>1, <2>2, QuietStep
<1>2. CASE BookRules(p)
  <2>1. req[p] \in BookingState /\ UNCHANGED rows
    BY <1>0, <1>2, RequestFields DEF BookRules
  <2>2. PICK d \in Durations :
          \/ Finish(p)
          \/ /\ RulesAllow(RowsStartingOn(DayOf(req[p].start)), req[p].cust,
                           req[p].start, d, BusinessMinNotice, req[p].forOther)
             /\ Continue(p, [req[p] EXCEPT !.op = "bookConflicts", !.dur = d])
    BY <1>2 DEF BookRules
  <2>3. CASE Finish(p)
    BY <2>1, <2>3, QuietFinish
  <2>4. CASE /\ RulesAllow(RowsStartingOn(DayOf(req[p].start)), req[p].cust,
                           req[p].start, d, BusinessMinNotice, req[p].forOther)
             /\ Continue(p, [req[p] EXCEPT !.op = "bookConflicts", !.dur = d])
    <3>. DEFINE q == [req[p] EXCEPT !.op = "bookConflicts", !.dur = d]
    <3>1. /\ q.op = "bookConflicts" /\ q.dur = d /\ q.start = req[p].start
          /\ q.cust = req[p].cust /\ req' = [req EXCEPT ![p] = q]
      BY <2>1, <2>4 DEF BookingState, Continue
    <3>. HIDE DEF q
    <3>2. q.start \in Nat
      BY <2>1, <3>1, TimeAssumption DEF BookingState
    <3>3. Room(q)
      <4>1. /\ RowsStartingOn(DayOf(q.start)) \subseteq Appointments
            /\ RulesAllow(RowsStartingOn(DayOf(q.start)), q.cust, q.start, d,
                          BusinessMinNotice, req[p].forOther)
        BY <2>4, <3>1 DEF RowsStartingOn
      <4>. QED  BY <1>0, <3>2, <4>1, RulesRoom DEF Room
    <3>4. CustomerFree(q)
      BY <2>4, <3>1 DEF CustomerFree, RulesAllow, Counted
    <3>5. KnowsBook(q)
      BY <3>1, <3>3, <3>4 DEF KnowsBook
    <3>. QED  BY <2>1, <3>1, <3>5, QuietStep
  <2>. QED  BY <2>2, <2>3, <2>4
<1>3. CASE BookConflicts(p)
  <2>1. req[p] \in BookingState /\ UNCHANGED rows /\ Room(req[p]) /\ CustomerFree(req[p])
    BY <1>0, <1>3, RequestFields DEF BookConflicts, KnowsBook
  <2>2. CASE Finish(p)
    BY <2>1, <2>2, QuietFinish
  <2>3. CASE SlotFree(req[p]) /\ Continue(p, [req[p] EXCEPT !.op = "bookInsert"])
    <3>. DEFINE q == [req[p] EXCEPT !.op = "bookInsert"]
    <3>1. /\ q.op = "bookInsert" /\ q.dur = req[p].dur /\ q.start = req[p].start
          /\ q.cust = req[p].cust /\ q.staff = req[p].staff /\ req' = [req EXCEPT ![p] = q]
      BY <2>1, <2>3 DEF BookingState, Continue
    <3>. HIDE DEF q
    <3>2. KnowsBook(q)
      BY <2>1, <2>3, <3>1 DEF KnowsBook, Room, CustomerFree, SlotFree
    <3>. QED  BY <2>1, <3>1, <3>2, QuietStep
  <2>. QED  BY <1>3, <2>2, <2>3 DEF BookConflicts, SlotFree
<1>4. CASE BookInsert(p)
  <2>1. /\ req[p] \in BookingState /\ Finish(p) /\ req[p].op = "bookInsert"
        /\ Room(req[p]) /\ CustomerFree(req[p]) /\ SlotFree(req[p])
    BY <1>0, <1>4, RequestFields DEF BookInsert, KnowsBook
  <2>2. PICK i \in Appointments, s \in {"CONFIRMED", "PENDING_APPROVAL"} :
          Write(i, [status |-> s, staff |-> req[p].staff, cust |-> req[p].cust,
                    date |-> DayOf(req[p].start), start |-> req[p].start,
                    dur |-> req[p].dur, end |-> req[p].start + req[p].dur])
    BY <1>4 DEF BookInsert
  <2>. DEFINE r == [status |-> s, staff |-> req[p].staff, cust |-> req[p].cust,
                    date |-> DayOf(req[p].start), start |-> req[p].start,
                    dur |-> req[p].dur, end |-> req[p].start + req[p].dur]
  <2>3. /\ r.status = s /\ r.staff = req[p].staff /\ r.cust = req[p].cust
        /\ r.date = DayOf(r.start) /\ r.start = req[p].start /\ r.dur = req[p].dur
        /\ r.end = r.start + r.dur
    OBVIOUS
  <2>4. /\ req[p].start \in Starts /\ req[p].start \in Nat /\ req[p].dur \in Durations
        /\ req[p].dur \in Nat \ {0} /\ DayOf(req[p].start) \in Nat
        /\ req[p].staff \in Staff \cup {NoOne} /\ req[p].cust \in Customers
    BY <2>1, TimeAssumption, DurationAssumption, DayOfNat DEF BookingState
  <2>5. r \in Row
    BY <2>4 DEF Row, Statuses
  <2>. HIDE DEF r
  <2>6. Shaped(r)
    BY <2>3, <2>4 DEF Shaped, DayFits
  <2>7. Cardinality(Counted(DayOf(r.start))) < MaxDaily
    BY <2>1, <2>3 DEF Room
  <2>8. ASSUME NEW k \in Appointments \ {i}, rows[k].status \in ActiveStatuses,
               rows[k].date = r.date, Rivals(r, rows[k])
        PROVE  ~Overlap(r.start, r.end, rows[k].start, rows[k].end)
    <3>1. Exists(k) /\ rows[k].status # "CANCELED"
      BY <2>8 DEF Exists, ActiveStatuses
    <3>2. /\ rows[k].start \in Nat /\ rows[k].end \in Nat /\ rows[k].dur \in Nat
          /\ rows[k].start < rows[k].end /\ rows[k].end = rows[k].start + rows[k].dur
      BY <1>0, <3>1 DEF TypeOK, Row, IntervalIntact
    <3>3. r.start \in Nat /\ r.dur \in Nat /\ r.end \in Nat /\ r.start < r.end
      BY <2>3, <2>4
    <3>4. CASE r.staff # NoOne /\ r.staff = rows[k].staff
      <4>1. ~SlotQuery(rows[k], r.start, r.end)
        BY <2>1, <2>3, <2>8, <3>4 DEF SlotFree, Conflicting
      <4>2. ~Overlap(rows[k].start, rows[k].end, r.start, r.end)
        BY <3>2, <3>3, <4>1, SlotQueryIsOverlap
      <4>. QED  BY <4>2 DEF Overlap
    <3>5. CASE DayFits /\ r.cust = rows[k].cust
      <4>1. CASE DayOf(rows[k].start) = DayOf(r.start)
        <5>1. k \in Counted(DayOf(req[p].start))
          BY <2>3, <3>1, <4>1 DEF Counted, RowsStartingOn
        <5>. QED  BY <2>1, <2>3, <3>5, <5>1 DEF CustomerFree
      <4>2. CASE DayOf(rows[k].start) # DayOf(r.start)
        <5>1. /\ (rows[k].start % DayLength) + rows[k].dur <= DayLength
              /\ (r.start % DayLength) + r.dur <= DayLength
          BY <1>0, <2>6, <3>1, <3>5 DEF RowsShaped, Shaped
        <5>2. ~Overlap(r.start, r.start + r.dur, rows[k].start, rows[k].start + rows[k].dur)
          BY <3>2, <3>3, <4>2, <5>1, DaysApart
        <5>. QED  BY <2>3, <3>2, <5>2
      <4>. QED  BY <4>1, <4>2
    <3>. QED  BY <2>8, <3>4, <3>5 DEF Rivals
  <2>9. Write(i, r)
    BY <2>2 DEF r
  <2>. QED  BY <2>1, <2>5, <2>6, <2>7, <2>8, <2>9, SlotFinish
<1>5. CASE BookNoRoom(p)
  BY <1>5, QuietFinish DEF BookNoRoom
<1>. QED  BY <1>1, <1>2, <1>3, <1>4, <1>5 DEF BookStep

LEMMA DecideSerial ==
  ASSUME OneAtATime, SerialInv, IntervalInv', NEW p \in Requests, DecideStep(p)
  PROVE  SerialInv'
<1>0. TypeOK /\ RequestsKnowRows /\ KnowsBook(req[p])
  BY DEF SerialInv, IntervalInv
<1>1. ASSUME NEW i \in Appointments, NEW o \in {"approve", "reject", "cancel"},
             o # "cancel" => rows[i].status = "PENDING_APPROVAL",
             Begin(p, [op |-> o, id |-> i]), UNCHANGED rows
      PROVE  SerialInv'
  <2>. DEFINE q == [op |-> o, id |-> i]
  <2>1. req' = [req EXCEPT ![p] = q] /\ q.op = o /\ q.id = i
    BY <1>1 DEF Begin
  <2>. HIDE DEF q
  <2>2. q.op # "monitor" /\ KnowsBook(q)
    BY <1>1, <2>1 DEF KnowsBook
  <2>. QED  BY <1>1, <2>1, <2>2, QuietStep
<1>2. ASSUME NEW i \in Appointments, ApproveRead(p, i) \/ RejectRead(p, i) \/ CancelRead(p, i)
      PROVE  SerialInv'
  BY <1>1, <1>2 DEF ApproveRead, RejectRead, CancelRead
<1>3. ASSUME NEW s \in Statuses, req[p].op \in {"approve", "reject", "cancel"},
             s # "CANCELED" => req[p].op # "cancel",
             Write(req[p].id, WithStatus(req[p].id, s)), Finish(p)
      PROVE  SerialInv'
  <2>1. req[p].id \in Appointments /\ Exists(req[p].id)
    BY <1>0, <1>3, RequestFields DEF OneRowState, RequestsKnowRows
  <2>2. s # "CANCELED" => rows[req[p].id].status = "PENDING_APPROVAL"
    BY <1>0, <1>3 DEF KnowsBook
  <2>3. s \in ActiveStatuses => Occupied(req[p].id)
    BY <2>2 DEF Occupied, ActiveStatuses
  <2>. DEFINE S == {req[p].id}
  <2>4. /\ S \in SUBSET Appointments
        /\ \E i \in S : Write(i, WithStatus(i, s))
        /\ \A i \in S : /\ Exists(i)
                        /\ s \in ActiveStatuses => Occupied(i)
                        /\ s # "CANCELED" => rows[i].status # "CANCELED"
    BY <1>3, <2>1, <2>2, <2>3
  <2>. HIDE DEF S
  <2>. QED  BY <1>3, <2>4, StatusFinish
<1>4. CASE ApproveWrite(p)
  BY <1>3, <1>4 DEF ApproveWrite, Statuses
<1>5. CASE RejectWrite(p)
  BY <1>3, <1>5 DEF RejectWrite, Statuses
<1>6. CASE CancelWrite(p)
  BY <1>3, <1>6 DEF CancelWrite, Statuses
<1>. QED  BY <1>2, <1>4, <1>5, <1>6 DEF DecideStep

LEMMA BulkSerial ==
  ASSUME OneAtATime, SerialInv, IntervalInv', NEW p \in Requests, BulkStep(p)
  PROVE  SerialInv'
<1>0. TypeOK /\ RequestsKnowRows
  BY DEF SerialInv, IntervalInv
<1>1. ASSUME NEW i \in Appointments, CloseDayRead(p, i)
      PROVE  SerialInv'
  <2>1. CASE Begin(p, [op |-> "closeDay", ids |-> {i}])
    <3>. DEFINE q == [op |-> "closeDay", ids |-> {i}]
    <3>1. q.op = "closeDay" /\ req' = [req EXCEPT ![p] = q] /\ UNCHANGED rows
      BY <1>1, <2>1 DEF CloseDayRead, Begin
    <3>. HIDE DEF q
    <3>2. q.op # "monitor" /\ KnowsBook(q)
      BY <3>1 DEF KnowsBook
    <3>. QED  BY <3>1, <3>2, QuietStep
  <2>2. CASE /\ req[p].op = "closeDay"
             /\ Continue(p, [req[p] EXCEPT !.ids = @ \cup {i}])
    <3>. DEFINE q == [req[p] EXCEPT !.ids = @ \cup {i}]
    <3>1. q.op = "closeDay" /\ req' = [req EXCEPT ![p] = q] /\ UNCHANGED rows
      BY <1>0, <1>1, <2>2, RequestFields DEF ManyRowsState, CloseDayRead, Continue
    <3>. HIDE DEF q
    <3>2. q.op # "monitor" /\ KnowsBook(q)
      BY <3>1 DEF KnowsBook
    <3>. QED  BY <3>1, <3>2, QuietStep
  <2>. QED  BY <1>1, <2>1, <2>2 DEF CloseDayRead
<1>2. ASSUME NEW c \in Customers, BanRead(p, c)
      PROVE  SerialInv'
  <2>. DEFINE found == {i \in Appointments :
                         /\ rows[i].cust = c
                         /\ rows[i].status \in {"PENDING", "CONFIRMED"}
                         /\ rows[i].date * DayLength >= RulesClock}
              q == [op |-> "ban", ids |-> found]
  <2>1. q.op = "ban" /\ req' = [req EXCEPT ![p] = q] /\ UNCHANGED rows
    BY <1>2 DEF BanRead, Begin
  <2>. HIDE DEF q
  <2>2. q.op # "monitor" /\ KnowsBook(q)
    BY <2>1 DEF KnowsBook
  <2>. QED  BY <2>1, <2>2, QuietStep
<1>3. CASE CloseDayWrite(p) \/ BanWrite(p)
  <2>1. /\ req[p].op \in {"closeDay", "ban"} /\ Finish(p)
        /\ rows' = SetStatus(req[p].ids, "CANCELED")
    BY <1>3 DEF CloseDayWrite, BanWrite
  <2>2. req[p].ids \in SUBSET Appointments /\ \A i \in req[p].ids : Exists(i)
    BY <1>0, <2>1, RequestFields DEF ManyRowsState, RequestsKnowRows
  <2>3. "CANCELED" \in Statuses /\ "CANCELED" \notin ActiveStatuses
    BY DEF Statuses, ActiveStatuses
  <2>. QED  BY <2>1, <2>2, <2>3, StatusFinish
<1>. QED  BY <1>1, <1>2, <1>3 DEF BulkStep

LEMMA MonitorSerial ==
  ASSUME OneAtATime, SerialInv, IntervalInv', NEW p \in Requests, MonitorStep(p)
  PROVE  SerialInv'
<1>0. TypeOK /\ RequestsKnowRows /\ KnowsBook(req[p])
  BY DEF SerialInv, IntervalInv
<1>1. ASSUME NEW who, MonitorRead(p, DayOf(now), who)
      PROVE  SerialInv'
  <2>. DEFINE seen == {i \in RowsTouching(DayOf(now)) :
                         /\ rows[i].staff \in who
                         /\ rows[i].status = "CONFIRMED"
                         /\ rows[i].start <= now /\ now < rows[i].end}
              q == [op |-> "monitor", ids |-> seen]
  <2>1. /\ q.op = "monitor" /\ q.ids = seen
        /\ req' = [req EXCEPT ![p] = q] /\ UNCHANGED rows
    BY <1>1 DEF MonitorRead, Begin
  <2>2. \A i \in seen : rows[i].status = "CONFIRMED"
    OBVIOUS
  <2>. HIDE DEF q, seen
  <2>3. req'[p] = q /\ \A r \in Requests : r = p
    BY <1>0, <2>1, OnlyRequest
  <2>4. \A i \in Appointments : Occupied(i)' => Occupied(i)
    BY <2>1, <2>2, <2>3 DEF Occupied, ActiveStatuses
  <2>5. RowsShaped' /\ RowsApart' /\ DaysWithin'
    BY <2>1, <2>4, StatusKept DEF SerialInv, SameSlots, Exists
  <2>6. \A r \in Requests : KnowsBook(req[r])'
    BY <2>1, <2>2, <2>3 DEF KnowsBook
  <2>. QED  BY <2>5, <2>6 DEF SerialInv
<1>2. CASE MonitorWrite(p)
  <2>1. /\ req[p].op = "monitor" /\ Finish(p)
        /\ UNCHANGED rows \/ rows' = SetStatus(req[p].ids, "IN_PROGRESS")
    BY <1>2 DEF MonitorWrite
  <2>2. req[p].ids \in SUBSET Appointments /\ \A i \in req[p].ids : Exists(i)
    BY <1>0, <2>1, RequestFields DEF ManyRowsState, RequestsKnowRows
  <2>3. \A i \in req[p].ids : Occupied(i) /\ rows[i].status # "CANCELED"
    BY <1>0, <2>1 DEF Occupied, KnowsBook
  <2>4. "IN_PROGRESS" \in Statuses
    BY DEF Statuses
  <2>5. CASE UNCHANGED rows
    BY <2>1, <2>5, QuietFinish
  <2>6. CASE rows' = SetStatus(req[p].ids, "IN_PROGRESS")
    BY <2>1, <2>2, <2>3, <2>4, <2>6, StatusFinish
  <2>. QED  BY <2>1, <2>5, <2>6
<1>. QED  BY <1>1, <1>2 DEF MonitorStep

\* The row that an edit writes, when the start judged is the one it will have.
LEMMA EditedFields ==
  ASSUME NEW i \in Appointments, rows[i] \in Row, NEW q \in RescheduleState, q.id = i,
         Timely(q)
  PROVE  /\ Edited(rows[i], q).start = q.start
         /\ Edited(rows[i], q).date = q.date
         /\ Edited(rows[i], q).cust = rows[i].cust
<1>1. CASE q.edit = "date"
  BY <1>1 DEF Edited, Timely, Row
<1>2. CASE q.edit # "date"
  <2>1. EditedStart(rows[i], q) = q.start /\ q.date = DayOf(q.start)
    BY <1>2 DEF Timely
  <2>. DEFINE a == q.start
              b == a + rows[i].dur
              c == q.date
  <2>2. Edited(rows[i], q) = [rows[i] EXCEPT !.start = a, !.end = b, !.date = c]
    BY <1>2, <2>1 DEF Edited, Moved
  <2>. HIDE DEF a, b, c
  <2>3. Edited(rows[i], q).start = a /\ Edited(rows[i], q).date = c
        /\ Edited(rows[i], q).cust = rows[i].cust
    BY <2>2 DEF Row
  <2>. QED  BY <2>3 DEF a, c
<1>. QED  BY <1>1, <1>2

LEMMA RescheduledFields ==
  ASSUME NEW i \in Appointments, rows[i] \in Row, NEW q \in RescheduleState, q.id = i,
         Timely(q), q.status # "CANCELED"
  PROVE  /\ Rescheduled(rows[i], q).start = q.start
         /\ Rescheduled(rows[i], q).date = q.date
         /\ Rescheduled(rows[i], q).cust = rows[i].cust
<1>0. Edited(rows[i], q) \in Row
  BY EditedType
<1>1. CASE q.status = Keep
  <2>1. Rescheduled(rows[i], q) = Edited(rows[i], q)
    BY <1>1, StatusAssumption DEF Rescheduled, Statuses
  <2>. QED  BY <2>1, EditedFields
<1>2. CASE q.status # Keep
  <2>1. Rescheduled(rows[i], q) = [Edited(rows[i], q) EXCEPT !.status = q.status]
    BY <1>2 DEF Rescheduled
  <2>2. ASSUME NEW m \in Row, NEW s
        PROVE  /\ [m EXCEPT !.status = s].start = m.start
               /\ [m EXCEPT !.status = s].date = m.date
               /\ [m EXCEPT !.status = s].cust = m.cust
    BY DEF Row
  <2>. QED  BY <1>0, <2>1, <2>2, EditedFields
<1>. QED  BY <1>1, <1>2

\* Each form of edit judges the start it will write.
LEMMA EditsTimely ==
  ASSUME TypeOK, Skew # 0, NEW i \in Appointments, NEW t \in Starts,
         NEW q, q.id = i,
         \/ q.edit = "full" /\ q.start = t /\ q.date = DayOf(t)
         \/ /\ q.edit = "time" /\ q.date = rows[i].date
            /\ q.start = CheckedDay(i) * DayLength + (t % DayLength)
         \/ q.edit = "date" /\ q.start = rows[i].start
  PROVE  q.start \in Nat /\ Timely(q)
<1>1. t \in Nat /\ rows[i].date \in Nat /\ rows[i].start \in Nat
  BY TimeAssumption DEF TypeOK, Row
<1>2. CASE q.edit = "full" /\ q.start = t /\ q.date = DayOf(t)
  BY <1>1, <1>2 DEF Timely, EditedStart
<1>3. CASE /\ q.edit = "time" /\ q.date = rows[i].date
           /\ q.start = CheckedDay(i) * DayLength + (t % DayLength)
  <2>. DEFINE x == t % DayLength
  <2>1. x \in 0 .. DayLength - 1
    BY <1>1, DayBounds
  <2>2. q.start = rows[i].date * DayLength + x
    BY <1>3 DEF CheckedDay
  <2>. HIDE DEF x
  <2>3. q.start \in Nat /\ DayOf(q.start) = rows[i].date /\ q.start % DayLength = x
    BY <1>1, <2>1, <2>2, DayTimes
  <2>4. EditedStart(rows[i], q) = q.start
    BY <1>3, <2>2, <2>3 DEF EditedStart
  <2>5. \E u \in Starts : q.start % DayLength = u % DayLength
    BY <2>3 DEF x
  <2>. QED  BY <1>3, <2>3, <2>4, <2>5 DEF Timely
<1>4. CASE q.edit = "date" /\ q.start = rows[i].start
  BY <1>1, <1>4 DEF Timely
<1>. QED  BY <1>2, <1>3, <1>4

LEMMA RescheduleSerial ==
  ASSUME OneAtATime, SerialInv, IntervalInv', NEW p \in Requests, RescheduleStep(p)
  PROVE  SerialInv'
<1>0. /\ TypeOK /\ RequestsKnowRows /\ IntervalIntact /\ RowsShaped /\ KnowsBook(req[p])
      /\ Skew # 0 /\ \A d, e \in Durations : d = e
  BY DEF SerialInv, IntervalInv, OneAtATime
<1>1. ASSUME NEW i \in Appointments, NEW t \in Starts,
             NEW s \in UpdateStatuses \cup {Keep},
             NEW u, NEW date, NEW edit, RescheduleRead(p, i, u, date, edit, s),
             \/ edit = "full" /\ u = t /\ date = DayOf(t)
             \/ /\ edit = "time" /\ date = rows[i].date
                /\ u = CheckedDay(i) * DayLength + (t % DayLength)
             \/ edit = "date" /\ u = rows[i].start
      PROVE  SerialInv'
  <2>1. PICK d \in Durations :
          Begin(p, [op |-> "rescheduleConflicts", id |-> i, start |-> u,
                    date |-> date, edit |-> edit, dur |-> d, status |-> s])
    BY <1>1 DEF RescheduleRead
  <2>. DEFINE q == [op |-> "rescheduleConflicts", id |-> i, start |-> u,
                    date |-> date, edit |-> edit, dur |-> d, status |-> s]
  <2>2. /\ q.op = "rescheduleConflicts" /\ q.id = i /\ q.start = u /\ q.date = date
        /\ q.edit = edit /\ req' = [req EXCEPT ![p] = q] /\ UNCHANGED rows
    BY <1>1, <2>1 DEF RescheduleRead, Begin
  <2>. HIDE DEF q
  <2>3. q.start \in Nat /\ Timely(q)
    <3>1. \/ q.edit = "full" /\ q.start = t /\ q.date = DayOf(t)
          \/ /\ q.edit = "time" /\ q.date = rows[i].date
             /\ q.start = CheckedDay(i) * DayLength + (t % DayLength)
          \/ q.edit = "date" /\ q.start = rows[i].start
      BY <1>1, <2>2
    <3>. QED  BY <1>0, <2>2, <3>1, EditsTimely
  <2>4. Room(q)
    <3>1. DayOf(q.start) \in Nat
      BY <2>3, DayOfNat
    <3>2. RulesAllow(RowsTouching(DayOf(q.start)), rows[i].cust, q.start, DefaultDuration,
                     BusinessMinNotice, FALSE)
      BY <1>1, <2>2 DEF RescheduleRead
    <3>3. /\ RowsStartingOn(DayOf(q.start)) \subseteq RowsTouching(DayOf(q.start))
          /\ RowsTouching(DayOf(q.start)) \subseteq Appointments
      BY <1>0, <3>1, StartsTouch
    <3>. QED  BY <1>0, <2>3, <3>2, <3>3, RulesRoom DEF Room
  <2>5. q.op # "monitor" /\ KnowsBook(q)
    BY <2>2, <2>3, <2>4 DEF KnowsBook
  <2>. QED  BY <2>2, <2>5, QuietStep
<1>2. ASSUME NEW i \in Appointments, NEW t \in Starts,
             NEW s \in UpdateStatuses \cup {Keep},
             \/ RescheduleRead(p, i, t, DayOf(t), "full", s)
             \/ RescheduleRead(p, i, CheckedDay(i) * DayLength + (t % DayLength),
                               rows[i].date, "time", s)
             \/ RescheduleRead(p, i, rows[i].start, DayOf(t), "date", s)
      PROVE  SerialInv'
  BY <1>1, <1>2
<1>3. CASE RescheduleConflicts(p)
  <2>1. req[p] \in RescheduleState /\ UNCHANGED rows /\ Room(req[p]) /\ Timely(req[p])
    BY <1>0, <1>3, RequestFields DEF RescheduleConflicts, KnowsBook
  <2>2. CASE Finish(p)
    BY <2>1, <2>2, QuietFinish
  <2>3. CASE OthersAway(req[p]) /\ Continue(p, [req[p] EXCEPT !.op = "rescheduleWrite"])
    <3>. DEFINE q == [req[p] EXCEPT !.op = "rescheduleWrite"]
    <3>1. /\ q.op = "rescheduleWrite" /\ q.dur = req[p].dur /\ q.start = req[p].start
          /\ q.id = req[p].id /\ q.date = req[p].date /\ q.edit = req[p].edit
          /\ req' = [req EXCEPT ![p] = q]
      BY <2>1, <2>3 DEF RescheduleState, Continue
    <3>. HIDE DEF q
    <3>2. q.op # "monitor" /\ KnowsBook(q)
      BY <2>1, <2>3, <3>1 DEF KnowsBook, Room, Timely, EditedStart, OthersAway
    <3>. QED  BY <2>1, <3>1, <3>2, QuietStep
  <2>. QED  BY <1>3, <2>2, <2>3 DEF RescheduleConflicts, OthersAway
<1>4. CASE RescheduleWrite(p)
  <2>. DEFINE i == req[p].id
              r == Rescheduled(rows[i], req[p])
  <2>1. /\ req[p] \in RescheduleState /\ Finish(p) /\ req[p].op = "rescheduleWrite"
        /\ Room(req[p]) /\ Timely(req[p]) /\ OthersAway(req[p])
        /\ i \in Appointments /\ Exists(i) /\ Write(i, r)
    BY <1>0, <1>4, RequestFields
       DEF RescheduleWrite, KnowsBook, RescheduleState, RequestsKnowRows
  <2>2. rows[i] \in Row /\ Shaped(rows[i])
    BY <1>0, <2>1 DEF TypeOK, RowsShaped
  <2>3. CASE req[p].status = "CANCELED"
    <3>. DEFINE S == {i}
    <3>1. r = WithStatus(i, "CANCELED")
      BY <2>3, StatusAssumption DEF Rescheduled, WithStatus, Statuses
    <3>2. /\ S \in SUBSET Appointments
          /\ \E k \in S : Write(k, WithStatus(k, "CANCELED"))
          /\ \A k \in S : Exists(k)
          /\ "CANCELED" \in Statuses /\ "CANCELED" \notin ActiveStatuses
      BY <2>1, <3>1 DEF Statuses, ActiveStatuses
    <3>. HIDE DEF S
    <3>. QED  BY <2>1, <3>2, StatusFinish
  <2>4. CASE req[p].status # "CANCELED"
    <3>1. /\ r \in Row /\ r.staff = rows[i].staff /\ r.dur = rows[i].dur
          /\ r.end = r.start + rows[i].dur
      BY <2>1, <2>2, RescheduledType DEF Shaped
    <3>2. r.start = req[p].start /\ r.date = req[p].date /\ r.cust = rows[i].cust
      BY <2>1, <2>2, <2>4, RescheduledFields
    <3>3. /\ req[p].start \in Nat /\ req[p].dur \in Durations /\ req[p].dur = rows[i].dur
          /\ rows[i].dur \in Nat \ {0} /\ rows[i].start \in Nat
      BY <1>0, <2>1, <2>2, DurationAssumption DEF RescheduleState, Shaped, Row
    <3>. HIDE DEF r
    <3>4. Shaped(r)
      <4>1. CASE req[p].edit = "date"
        BY <2>1, <2>2, <3>1, <3>2, <4>1 DEF Shaped, Timely
      <4>2. CASE req[p].edit # "date"
        <5>1. PICK t \in Starts : req[p].start % DayLength = t % DayLength
          BY <2>1, <4>2 DEF Timely
        <5>. QED  BY <2>2, <3>1, <3>2, <5>1 DEF Shaped, DayFits
      <4>. QED  BY <4>1, <4>2
    <3>5. Cardinality(Counted(DayOf(r.start))) < MaxDaily
      BY <2>1, <3>2 DEF Room
    <3>6. ASSUME NEW k \in Appointments \ {i}, rows[k].status \in ActiveStatuses,
                 rows[k].date = r.date
          PROVE  ~Overlap(r.start, r.end, rows[k].start, rows[k].end)
      <4>1. Exists(k)
        BY <3>6 DEF Exists, ActiveStatuses
      <4>2. /\ rows[k].start \in Nat /\ rows[k].end \in Nat /\ rows[k].start < rows[k].end
        BY <1>0, <4>1 DEF TypeOK, Row, IntervalIntact
      <4>3. r.start \in Nat /\ r.end \in Nat /\ r.start < r.end
        BY <3>1, <3>2, <3>3
      <4>4. ~SlotQuery(rows[k], r.start, r.end)
        BY <2>1, <3>1, <3>2, <3>3, <3>6 DEF OthersAway, Conflicting
      <4>5. ~Overlap(rows[k].start, rows[k].end, r.start, r.end)
        BY <4>2, <4>3, <4>4, SlotQueryIsOverlap
      <4>. QED  BY <4>5 DEF Overlap
    <3>7. Write(i, r)
      BY <2>1 DEF r
    <3>. HIDE DEF i
    <3>. QED  BY <2>1, <3>1, <3>4, <3>5, <3>6, <3>7, SlotFinish
  <2>. QED  BY <2>3, <2>4
<1>. QED  BY <1>2, <1>3, <1>4 DEF RescheduleStep

\* Rows that run are completed: nothing that a request knows ceases to hold.
LEMMA CompletionSerial ==
  ASSUME OneAtATime, SerialInv, IntervalInv', NEW S \in SUBSET Appointments,
         rows' = SetStatus(S, "COMPLETED"),
         \A i \in S : rows[i].status \in RunningStatuses,
         \A p \in Requests : KnowsBook(req'[p]),
         \A p \in Requests : req'[p].op = "monitor" => req'[p] = req[p]
  PROVE  SerialInv'
<1>1. TypeOK /\ "COMPLETED" \in Statuses
  BY DEF SerialInv, IntervalInv, Statuses
<1>2. /\ SameSlots
      /\ \A i \in Appointments :
           (i \in S /\ rows'[i].status = "COMPLETED") \/ rows'[i].status = rows[i].status
  BY <1>1, StatusFields
<1>3. \A i \in Appointments :
        /\ Exists(i)' <=> Exists(i)
        /\ rows'[i].status \in ActiveStatuses => rows[i].status \in ActiveStatuses
        /\ rows'[i].status # "CANCELED" <=> rows[i].status # "CANCELED"
        /\ rows[i].status = "PENDING_APPROVAL" => rows'[i].status = "PENDING_APPROVAL"
        /\ rows[i].status \in {"CONFIRMED", "COMPLETED"}
             => rows'[i].status \in {"CONFIRMED", "COMPLETED"}
  BY <1>2 DEF Exists, ActiveStatuses, RunningStatuses
<1>4. \A i \in Appointments : Occupied(i)' => Occupied(i)
  BY <1>3 DEF Occupied
<1>5. RowsShaped' /\ RowsApart' /\ DaysWithin'
  BY <1>2, <1>3, <1>4, StatusKept DEF SerialInv
<1>6. \A day : Counted(day)' = Counted(day)
  BY <1>2, <1>3 DEF Counted, RowsStartingOn, SameSlots
<1>7. \A s, day, t, e, x : Conflicting(s, day, t, e, x)' \subseteq Conflicting(s, day, t, e, x)
  BY <1>2, <1>3 DEF Conflicting, SlotQuery, SameSlots
<1>8. \A p \in Requests : KnowsBook(req[p])'
  <2>. SUFFICES ASSUME NEW p \in Requests
                PROVE  KnowsBook(req[p])'
    OBVIOUS
  <2>0. /\ KnowsBook(req'[p])
        /\ req'[p].op \in {"approve", "reject", "rescheduleConflicts", "rescheduleWrite"}
             => req'[p].id \in Appointments
        /\ req'[p].op = "monitor" => req'[p].ids \subseteq Appointments
    <3>1. req'[p] \in RequestState /\ KnowsBook(req'[p])
      BY DEF IntervalInv, TypeOK
    <3>. QED  BY <3>1 DEF RequestState, Idle, BookingState, OneRowState, RescheduleState,
                          ManyRowsState, AutoState, AutoRowState, PromoteState
  <2>1. Room(req'[p]) => Room(req[p])'
    BY <1>6 DEF Room
  <2>2. CustomerFree(req'[p]) => CustomerFree(req[p])'
    <3>1. \A day : Counted(day) \subseteq Appointments
      BY DEF Counted, RowsStartingOn
    <3>. QED  BY <1>2, <1>6, <3>1 DEF CustomerFree, SameSlots
  <2>3. SlotFree(req'[p]) => SlotFree(req[p])'
    BY <1>7 DEF SlotFree
  <2>4. OthersAway(req'[p]) => OthersAway(req[p])'
    BY <1>7 DEF OthersAway
  <2>5. req'[p].id \in Appointments /\ Timely(req'[p]) => Timely(req[p])'
    BY <1>2 DEF Timely, EditedStart, SameSlots
  <2>. QED  BY <1>3, <2>0, <2>1, <2>2, <2>3, <2>4, <2>5 DEF KnowsBook
<1>. QED  BY <1>5, <1>8 DEF SerialInv

LEMMA FinalizeSerial ==
  ASSUME OneAtATime, SerialInv, IntervalInv', NEW p \in Requests, FinalizeStep(p)
  PROVE  SerialInv'
<1>0. TypeOK
  BY DEF SerialInv, IntervalInv
<1>1. ASSUME NEW ids \in SUBSET Appointments, FinalizeComplete(p, ids)
      PROVE  SerialInv'
  <2>. DEFINE q == [op |-> "promote", ids |-> ids, at |-> now]
              done == {i \in ids : Ended(i)}
  <2>1. /\ q.op = "promote" /\ req' = [req EXCEPT ![p] = q]
        /\ rows' = SetStatus(done, "COMPLETED")
    BY <1>1 DEF FinalizeComplete, Begin
  <2>2. done \in SUBSET Appointments /\ \A i \in done : rows[i].status \in RunningStatuses
    BY DEF Ended
  <2>. HIDE DEF q, done
  <2>3. req'[p] = q /\ \A r \in Requests : r = p
    BY <1>0, <2>1, OnlyRequest
  <2>4. \A r \in Requests : KnowsBook(req'[r]) /\ req'[r].op # "monitor"
    BY <2>1, <2>3 DEF KnowsBook
  <2>. QED  BY <2>1, <2>2, <2>4, CompletionSerial
<1>2. CASE FinalizePromote(p)
  <2>. DEFINE due == {i \in req[p].ids :
                        /\ rows[i].status = "CONFIRMED"
                        /\ rows[i].start <= req[p].at
                        /\ rows[i].end > req[p].at}
  <2>1. rows' = SetStatus(due, "IN_PROGRESS") /\ Finish(p)
    BY <1>2 DEF FinalizePromote
  <2>2. req[p].ids \in SUBSET Appointments
    BY <1>0, <1>2, RequestFields DEF FinalizePromote, PromoteState
  <2>3. /\ due \in SUBSET Appointments /\ "IN_PROGRESS" \in Statuses
        /\ \A i \in due : rows[i].status = "CONFIRMED"
    BY <2>2 DEF Statuses
  <2>. HIDE DEF due
  <2>4. \A i \in due : Exists(i) /\ Occupied(i) /\ rows[i].status # "CANCELED"
    BY <2>3 DEF Exists, Occupied, ActiveStatuses
  <2>. QED  BY <2>1, <2>3, <2>4, StatusFinish
<1>. QED  BY <1>1, <1>2 DEF FinalizeStep

LEMMA JobSerial ==
  ASSUME OneAtATime, SerialInv, IntervalInv', NEW j \in Jobs, JobMark(j)
  PROVE  SerialInv'
<1>. DEFINE running == {i \in job[j].found : rows[i].status \in RunningStatuses}
<1>1. rows' = SetStatus(running, "COMPLETED") /\ UNCHANGED req
  BY DEF JobMark
<1>2. running \in SUBSET Appointments /\ \A i \in running : rows[i].status \in RunningStatuses
  BY DEF SerialInv, IntervalInv, TypeOK, JobState
<1>. HIDE DEF running
<1>3. \A p \in Requests : KnowsBook(req'[p]) /\ req'[p] = req[p]
  BY <1>1 DEF SerialInv
<1>. QED  BY <1>1, <1>2, <1>3, CompletionSerial

LEMMA BookUnchanged ==
  ASSUME SerialInv, IntervalInv', UNCHANGED <<rows, req>>
  PROVE  SerialInv'
<1>1. RowsShaped' /\ RowsApart' /\ DaysWithin'
  BY DEF SerialInv, RowsShaped, Exists, RowsApart, Occupied, DaysWithin, Counted, RowsStartingOn
<1>2. \A p \in Requests : KnowsBook(req[p])'
  BY DEF SerialInv, KnowsBook, Room, CustomerFree, SlotFree, OthersAway, Timely, Counted,
         RowsStartingOn, Exists, Conflicting
<1>. QED  BY <1>1, <1>2 DEF SerialInv

LEMMA SerialNext == ASSUME OneAtATime PROVE SerialInv /\ [Next]_vars => SerialInv'
<1>. SUFFICES ASSUME SerialInv, [Next]_vars PROVE SerialInv'
  OBVIOUS
<1>0. IntervalInv'
  BY IntervalNext DEF SerialInv
<1>1. CASE Tick \/ UNCHANGED vars
  BY <1>0, <1>1, BookUnchanged DEF Tick, vars
<1>2. ASSUME NEW j \in Jobs, JobStep(j)
      PROVE  SerialInv'
  BY <1>0, <1>2, BookUnchanged, JobSerial DEF JobStep, JobFind
<1>3. ASSUME NEW p \in Requests,
             \/ BookStep(p) \/ DecideStep(p) \/ BulkStep(p) \/ MonitorStep(p)
             \/ RescheduleStep(p) \/ FinalizeStep(p)
      PROVE  SerialInv'
  BY <1>0, <1>3, BookSerial, DecideSerial, BulkSerial, MonitorSerial, RescheduleSerial,
     FinalizeSerial
<1>4. "status" \notin Endpoints /\ "auto" \notin Endpoints
  BY DEF OneAtATime
<1>. QED  BY <1>1, <1>2, <1>3, <1>4 DEF Next

LEMMA SerialInit == ASSUME OneAtATime PROVE Init => SerialInv
<1>. SUFFICES ASSUME Init PROVE SerialInv
  OBVIOUS
<1>1. IntervalInv
  BY IntervalInit
<1>2. \A i \in Appointments : rows[i].status = "NONE"
  BY DEF Init, FreeRow
<1>3. \A p \in Requests : req[p].op = "idle" /\ KnowsBook(req[p])
  BY DEF Init, Idle, KnowsBook
<1>4. RowsShaped /\ RowsApart
  BY <1>2, <1>3 DEF RowsShaped, RowsApart, Exists, Occupied, ActiveStatuses
<1>5. DaysWithin
  <2>1. \A day : Counted(day) = {}
    BY <1>2 DEF Counted, RowsStartingOn, Exists
  <2>. QED  BY <2>1, FS_EmptySet, RulesAssumption DEF DaysWithin
<1>. QED  BY <1>1, <1>3, <1>4, <1>5 DEF SerialInv

(***************************************************************************)
(* Requests that do not race never put two rows on one staff member's      *)
(* slot, PENDING_APPROVAL ones included, which the constraint leaves out:  *)
(* the checks of createAppointment and updateAppointment suffice.          *)
(***************************************************************************)
THEOREM SlotsStayApart == ASSUME OneAtATime PROVE Spec => []ActiveSlotsDisjoint
<1>1. SerialInv => ActiveSlotsDisjoint
  BY DEF SerialInv, RowsApart, Occupied, Rivals, ActiveSlotsDisjoint
<1>2. Init => SerialInv
  BY SerialInit
<1>3. SerialInv /\ [Next]_vars => SerialInv'
  BY SerialNext
<1>. QED  BY <1>1, <1>2, <1>3, PTL DEF Spec

(***************************************************************************)
(* Nor do they put a customer into two rows at once, when no appointment   *)
(* runs over midnight: the rules read the rows of the day they start in.   *)
(***************************************************************************)
THEOREM CustomersStayApart == ASSUME OneAtATime, DayFits PROVE Spec => []CustomerNotTwice
<1>1. SerialInv => CustomerNotTwice
  BY DEF SerialInv, RowsApart, Occupied, Rivals, CustomerNotTwice
<1>2. Init => SerialInv
  BY SerialInit
<1>3. SerialInv /\ [Next]_vars => SerialInv'
  BY SerialNext
<1>. QED  BY <1>1, <1>2, <1>3, PTL DEF Spec

\* Nor do they bring more rows into a day than the business takes.
THEOREM DaysKeepLimit == ASSUME OneAtATime PROVE Spec => []DailyLimitKept
<1>1. SerialInv => DailyLimitKept
  <2>. SUFFICES ASSUME SerialInv, NEW i \in Appointments
                PROVE  Cardinality({k \in RowsStartingOn(DayOf(rows[i].start)) :
                                      rows[k].status # "CANCELED"}) <= MaxDaily
    BY DEF DailyLimitKept
  <2>1. DayOf(rows[i].start) \in Nat
    BY DayOfNat DEF SerialInv, IntervalInv, TypeOK, Row
  <2>. QED  BY <2>1 DEF SerialInv, DaysWithin, Counted
<1>2. Init => SerialInv
  BY SerialInit
<1>3. SerialInv /\ [Next]_vars => SerialInv'
  BY SerialNext
<1>. QED  BY <1>1, <1>2, <1>3, PTL DEF Spec

(***************************************************************************)
(* The page of free times and the check of a booking ask different queries *)
(* and find the same rows in the way, of every table and for every slot.   *)
(***************************************************************************)
THEOREM PageTellsBook == Spec => []SlotsTellBook
<1>1. SlotsTellBook
  BY DEF SlotsTellBook, TakenBy, FindAppointmentsForDay, RowsStartingOn, Conflicting,
         Misdated, Exists, ActiveStatuses
<1>. QED  BY <1>1, PTL
=============================================================================
