-------------------------------- MODULE Slots --------------------------------
(***************************************************************************)
(* The times that customers are shown for a day: for a staff member or, if *)
(* none is given, for the business as a whole.  The page asks for the rows *)
(* of the day by another query than a booking does, by their start instead *)
(* of their date, and judges the slots by itself.                          *)
(*                                                                         *)
(* Sources: getPublicAvailableSlots in services/domain/appointment/        *)
(* appointmentService.ts, findAppointmentsForDay in repositories/          *)
(* appointmentRepository.ts.                                               *)
(***************************************************************************)
EXTENDS Booking

\* Opening hours, from midnight; closing at 00:00 is the end of the day.
Hours == [open : {0, 1}, close : {0, DayLength - 1}]

\* Fault: rows that wait for approval are left out.
FaultFindAppointmentsForDay(s, day) ==
  {i \in RowsStartingOn(day) :
     /\ rows[i].status \in ConstrainedStatuses
     /\ s # NoOne => rows[i].staff = s}

FindAppointmentsForDay(s, day) ==
  {i \in RowsStartingOn(day) :
     /\ rows[i].status \in ActiveStatuses
     /\ s # NoOne => rows[i].staff = s}

\* Every quarter of an hour - a tick here - from opening on, as long as the
\* service ends before closing, without the part of the day that has passed.
SlotTimes(day, hours, d) ==
  LET midnight == day * DayLength
      closing == midnight + (IF hours.close = 0 THEN DayLength ELSE hours.close)
  IN  {t \in midnight + hours.open .. closing - d : t > RulesClock}

\* The rows for which a slot is shown as taken.
TakenBy(s, day, t, d) ==
  {i \in FindAppointmentsForDay(s, day) : SlotQuery(rows[i], t, t + d)}

-----------------------------------------------------------------------------
(* Properties *)

\* Rows whose day alone was edited: their date is not the day they start on.
Misdated == {i \in Appointments : rows[i].date # DayOf(rows[i].start)}

(***************************************************************************)
(* "Every overlap / availability check (booking, reschedule, public slot   *)
(* generation) MUST use this set": a slot is shown as taken for the rows   *)
(* for which a booking of it is refused, and as free where none is, but    *)
(* for rows whose day was edited without their time.                       *)
(***************************************************************************)
SlotsTellBook ==
  \A s \in Staff \cup {NoOne}, day \in {DayOf(t) : t \in Starts}, d \in Durations :
    \A t \in UNION {SlotTimes(day, hours, d) : hours \in Hours} :
      TakenBy(s, day, t, d) \ Misdated = Conflicting(s, day, t, t + d, {}) \ Misdated
=============================================================================
