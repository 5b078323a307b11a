-------------------------------- MODULE Team --------------------------------
(***************************************************************************)
(* The staff of a business and the limit of its plan, which counts the     *)
(* owner.  An invitation is confirmed with the code the invited person     *)
(* was sent: the members are counted and then a row is written.  Other     *)
(* requests remove members, switch them off and on, or move them to        *)
(* another business of the owner.  The usage row of the month keeps a      *)
(* count of its own, which only some of them bring up to date; it can do   *)
(* no more than refuse an invitation and is left out.                      *)
(*                                                                         *)
(* Sources: services/domain/staff/staffService.ts and repositories/        *)
(* staffRepository.ts.                                                     *)
(***************************************************************************)
EXTENDS Integers, FiniteSets

CONSTANTS
  Companies, \* businesses of one owner
  Users,
  Owner,
  StaffLimit, \* plan.maxStaffPerBusiness
  Managers    \* requests in flight

ASSUME TeamAssumption ==
  /\ IsFiniteSet(Users)
  /\ Owner \in Users
  /\ StaffLimit \in Nat \ {0}

VARIABLES
  member,    \* member[b][u]: the row of business_staff
  invited,   \* whom a business has sent a code
  manager,   \* what each request has read and will write
  unchecked  \* history: members made active without a count of the team, or
             \* on one that another member's admission had made old

teamVars == <<member, invited, manager, unchecked>>

Unoccupied == [op |-> "rest"]
Members(b) == {u \in Users : member[b][u] = "active"}
Employed(b, u) == member[b][u] # "none"

TeamTypeOK ==
  /\ member \in [Companies -> [Users -> {"none", "active", "inactive"}]]
  /\ invited \subseteq Users
  /\ unchecked \in [Companies -> SUBSET Users]
  /\ manager \in [Managers -> {Unoccupied}
       \cup [op : {"admit"}, at : Companies, who : Users, fresh : BOOLEAN]
       \cup [op : {"move"}, from : Companies, at : Companies,
             who : SUBSET Users, fresh : BOOLEAN]]

\* createBusiness makes the owner a member.
TeamInit ==
  /\ member = [b \in Companies |->
                 [u \in Users |-> IF u = Owner THEN "active" ELSE "none"]]
  /\ invited = {}
  /\ manager = [w \in Managers |-> Unoccupied]
  /\ unchecked = [b \in Companies |-> {}]

Assign(w, task) == manager' = [manager EXCEPT ![w] = task]

\* What w turns to, and the admissions to b whose count is old by now.
Outdate(b, w, task) ==
  manager' = [v \in Managers |->
    IF v = w THEN task
    ELSE IF manager[v].op \in {"admit", "move"} /\ manager[v].at = b
           THEN [manager[v] EXCEPT !.fresh = FALSE] ELSE manager[v]]

-----------------------------------------------------------------------------
(* Invitations: inviteStaff, verifyStaffInvitation *)

Invite(b, u) ==
  /\ u \notin Members(b)
  /\ Cardinality(Members(b)) < StaffLimit
  /\ invited' = invited \cup {u}
  /\ UNCHANGED <<member, manager, unchecked>>

\* Fault: one too many.
FaultVerify(w, b, u) ==
  /\ manager[w] = Unoccupied
  /\ u \in invited
  /\ Cardinality(Members(b)) <= StaffLimit
  /\ Assign(w, [op |-> "admit", at |-> b, who |-> u, fresh |-> TRUE])
  /\ UNCHANGED <<member, invited, unchecked>>

\* The code is right - it is sent to a phone, for no business in particular -
\* and validateStaffLimit finds room.
Verify(w, b, u) ==
  /\ manager[w] = Unoccupied
  /\ u \in invited
  /\ Cardinality(Members(b)) < StaffLimit
  /\ Assign(w, [op |-> "admit", at |-> b, who |-> u, fresh |-> TRUE])
  /\ UNCHANGED <<member, invited, unchecked>>

Admitted(b, us, fresh) ==
  unchecked' = [unchecked EXCEPT ![b] = IF fresh THEN @ \ us ELSE @ \cup us]

\* A new row, or the old one again.
Admit(w) ==
  /\ manager[w].op = "admit"
  /\ LET b == manager[w].at
         u == manager[w].who
     IN  IF u \in Members(b)
           THEN Assign(w, Unoccupied) /\ UNCHANGED <<member, unchecked>>
           ELSE /\ member' = [member EXCEPT ![b][u] = "active"]
                /\ Admitted(b, {u}, manager[w].fresh)
                /\ Outdate(b, w, Unoccupied)
  /\ UNCHANGED <<invited>>

-----------------------------------------------------------------------------
(* removeStaff, updateStaff, transferStaffBetweenBusinesses *)

SwitchOff(b, u) ==
  /\ Employed(b, u)
  /\ member' = [member EXCEPT ![b][u] = "inactive"]
  /\ unchecked' = [unchecked EXCEPT ![b] = @ \ {u}]
  /\ UNCHANGED <<invited, manager>>

RemoveMember(b, u) == u # Owner /\ SwitchOff(b, u)

SwitchOn(b, u) ==
  /\ member[b][u] = "inactive"
  /\ member' = [member EXCEPT ![b][u] = "active"]
  /\ unchecked' = [unchecked EXCEPT ![b] = @ \cup {u}]
  /\ \E w \in Managers : manager[w] = Unoccupied /\ Outdate(b, w, Unoccupied)
  /\ UNCHANGED <<invited>>

TransferCheck(w, from, to, us) ==
  /\ manager[w] = Unoccupied
  /\ from # to
  /\ Cardinality(Members(to)) + Cardinality(us) <= StaffLimit
  /\ Assign(w, [op |-> "move", from |-> from, at |-> to, who |-> us, fresh |-> TRUE])
  /\ UNCHANGED <<member, invited, unchecked>>

\* Fault: the rows of the list come to the new business with a status of their own.
FaultTransfer(w) ==
  /\ manager[w].op = "move"
  /\ member' = [member EXCEPT
       ![manager[w].at] = [u \in Users |-> IF u \in manager[w].who THEN "moved" ELSE @[u]]]
  /\ Assign(w, Unoccupied)
  /\ UNCHANGED <<invited, unchecked>>

\* One UPDATE of the rows that are still in the old business, active or not;
\* it fails if the new one has a row of one of them.
Transfer(w) ==
  /\ manager[w].op = "move"
  /\ LET b == manager[w].from
         c == manager[w].at
         us == {u \in manager[w].who : Employed(b, u)}
     IN  IF us = {} \/ \E u \in us : Employed(c, u)
           THEN Assign(w, Unoccupied) /\ UNCHANGED <<member, unchecked>>
           ELSE /\ member' = [member EXCEPT
                     ![b] = [u \in Users |-> IF u \in us THEN "none" ELSE @[u]],
                     ![c] = [u \in Users |-> IF u \in us THEN member[b][u] ELSE @[u]]]
                /\ unchecked' = [unchecked EXCEPT
                     ![b] = @ \ us,
                     ![c] = IF manager[w].fresh THEN @ \ us ELSE @ \cup us]
                /\ Outdate(c, w, Unoccupied)
  /\ UNCHANGED <<invited>>

\* A request is refused or fails, or its instance stops.
Abandon(w) ==
  /\ manager[w] # Unoccupied
  /\ Assign(w, Unoccupied)
  /\ UNCHANGED <<member, invited, unchecked>>

TeamNext ==
  \/ \E b \in Companies, u \in Users : Invite(b, u) \/ RemoveMember(b, u) \/ SwitchOff(b, u) \/ SwitchOn(b, u)
  \/ \E w \in Managers, b \in Companies, u \in Users : Verify(w, b, u)
  \/ \E w \in Managers, b, c \in Companies, us \in SUBSET Users \ {{}} :
       TransferCheck(w, b, c, us)
  \/ \E w \in Managers : Admit(w) \/ Transfer(w) \/ Abandon(w)

TeamSpec == TeamInit /\ [][TeamNext]_teamVars

-----------------------------------------------------------------------------
(* Properties *)

\* A team outgrows its plan only by members somebody switched on by hand, or
\* whose admission was counted before another one's: joining again
\* and moving never let in one too many.
TeamFits ==
  \A b \in Companies : Cardinality(Members(b) \ unchecked[b]) <= StaffLimit
=============================================================================
