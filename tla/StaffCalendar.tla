--------------------------- MODULE StaffCalendar ---------------------------
(***************************************************************************)
(* What the appointment book promises a staff member: a calendar in which  *)
(* every appointment holds at most one interval, and no two intervals of   *)
(* one staff member overlap.  An appointment may take or move its interval *)
(* and give it up, in any order and any number of times; it never changes  *)
(* staff while it holds one.  How intervals are asked for, approved or     *)
(* completed is left to the implementation.                                *)
(***************************************************************************)
EXTENDS Integers

CONSTANTS Appointments, Staff,
          Free   \* an appointment that holds no interval

VARIABLE held

Interval == [staff : Staff, start : Nat, end : Nat]

Disjoint(f) ==
  \A i, k \in Appointments :
    (i # k /\ f[i] # Free /\ f[k] # Free /\ f[i].staff = f[k].staff)
      => f[i].end <= f[k].start \/ f[k].end <= f[i].start

Init == held = [i \in Appointments |-> Free]

Calendar == [Appointments -> Interval \cup {Free}]

\* Some appointments take or move an interval; the result has no overlap.
Reserve ==
  /\ held' \in Calendar
  /\ \A i \in Appointments : held'[i] # held[i] =>
       /\ held'[i] # Free
       /\ held[i] # Free => held'[i].staff = held[i].staff
  /\ Disjoint(held')

\* Some appointments give up their interval.
Release ==
  /\ held' \in Calendar
  /\ \A i \in Appointments : held'[i] \in {held[i], Free}

Next == Reserve \/ Release

Spec == Init /\ [][Next]_held

=============================================================================
