----------------------------- MODULE Permissions -----------------------------
(***************************************************************************)
(* What each instance of the server knows of one user's roles.  An answer  *)
(* is kept in memory; the first request that misses starts a load, and the *)
(* ones that follow wait for it.  A handler that changes roles drops the   *)
(* entry and forgets the load, in its own instance.  The load goes on, and *)
(* stores what it has read.                                                *)
(*                                                                         *)
(* Sources: services/domain/rbac/rbacService.ts, services/domain/staff/    *)
(* roleService.ts and staffService.ts, repositories/roleRepository.ts.     *)
(***************************************************************************)
EXTENDS Integers

CONSTANTS
  Instances,
  Loads,     \* loads under way
  Askers,    \* requests that need the user's roles
  NoLoad, NoEntry,
  Nothing,   \* createEmptyUserPermissions: what a load that fails stores
  MaxChanges \* bound: changes of the user's roles

ASSUME PermissionAssumption ==
  /\ NoLoad \notin Loads
  /\ NoEntry # Nothing /\ {NoEntry, Nothing} \cap Nat = {}
  /\ MaxChanges \in Nat

VARIABLES
  roles,    \* what the database holds: the number of changes
  known,    \* permissionCache
  inFlight, \* inFlightRequests
  load,     \* load[l]: its next step, its instance, what it read
  asker,    \* the load each request waits for
  cleared,  \* history: what the database held when an instance last cleared
  overrun   \* history: instances whose entry a load older than that wrote

permissionVars == <<roles, known, inFlight, load, asker, cleared, overrun>>

Versions == 0 .. MaxChanges
IdleLoad == [at |-> "idle"]
NotAsking == [at |-> "idle"]

PermissionTypeOK ==
  /\ roles \in Versions
  /\ known \in [Instances -> Versions \cup {NoEntry, Nothing}]
  /\ inFlight \in [Instances -> Loads \cup {NoLoad}]
  /\ load \in [Loads -> {IdleLoad} \cup
       [at : {"read", "store"}, on : Instances, of : Versions \cup {Nothing}, since : Versions]]
  /\ asker \in [Askers -> {NotAsking} \cup [at : {"wait"}, of : Loads, since : Versions]]
  /\ cleared \in [Instances -> Versions]
  /\ overrun \subseteq Instances

PermissionInit ==
  /\ roles = 0
  /\ known = [i \in Instances |-> NoEntry]
  /\ inFlight = [i \in Instances |-> NoLoad]
  /\ load = [l \in Loads |-> IdleLoad]
  /\ asker = [q \in Askers |-> NotAsking]
  /\ cleared = [i \in Instances |-> 0]
  /\ overrun = {}

-----------------------------------------------------------------------------
(* Roles change: assigned, revoked, a team joined or left, a role edited,  *)
(* or one that runs out.                                                   *)

ChangeRoles ==
  /\ roles < MaxChanges
  /\ roles' = roles + 1
  /\ UNCHANGED <<known, inFlight, load, asker, cleared, overrun>>

\* Fault: new requests still join the load.
FaultClearUser(i) ==
  /\ known' = [known EXCEPT ![i] = NoEntry]
  /\ cleared' = [cleared EXCEPT ![i] = roles]
  /\ overrun' = overrun \ {i}
  /\ UNCHANGED <<roles, inFlight, load, asker>>

\* clearUserCache, forceInvalidateUser and clearAllCache: what the handler of a
\* change does when the change is stored, in its instance, and the profile's
\* when the client says that roles have changed.
ClearUser(i) ==
  /\ known' = [known EXCEPT ![i] = NoEntry]
  /\ inFlight' = [inFlight EXCEPT ![i] = NoLoad]
  /\ cleared' = [cleared EXCEPT ![i] = roles]
  /\ overrun' = overrun \ {i}
  /\ UNCHANGED <<roles, load, asker>>

\* The entry's time is over, or cleanupCache makes room.
Forget(i) ==
  /\ known[i] # NoEntry
  /\ known' = [known EXCEPT ![i] = NoEntry]
  /\ overrun' = overrun \ {i}
  /\ UNCHANGED <<roles, inFlight, load, asker, cleared>>

-----------------------------------------------------------------------------
(* getUserPermissions: a hit is answered at once and changes nothing; the  *)
(* handler that creates a business does not look at the entry.             *)

WaitFor(q, l, i) ==
  asker' = [asker EXCEPT ![q] = [at |-> "wait", of |-> l, since |-> cleared[i]]]

AskRoles(q, i) ==
  /\ asker[q] = NotAsking
  /\ \/ /\ inFlight[i] # NoLoad
        /\ WaitFor(q, inFlight[i], i)
        /\ UNCHANGED <<inFlight, load>>
     \/ /\ inFlight[i] = NoLoad
        /\ \E l \in Loads :
             /\ load[l] = IdleLoad
             /\ load' = [load EXCEPT ![l] = [at |-> "read", on |-> i, of |-> Nothing,
                                             since |-> cleared[i]]]
             /\ inFlight' = [inFlight EXCEPT ![i] = l]
             /\ WaitFor(q, l, i)
  /\ UNCHANGED <<roles, known, cleared, overrun>>

\* getUserRolesWithPermissions answers, or fails.
ReadRoles(l) ==
  /\ load[l].at = "read"
  /\ \E answer \in {roles, Nothing} :
       load' = [load EXCEPT ![l].at = "store", ![l].of = answer]
  /\ UNCHANGED <<roles, known, inFlight, asker, cleared, overrun>>

\* The promise settles: cacheResult, whatever was cleared meanwhile; then the
\* key is taken off the loads in flight, whichever of them it names by now.
StoreRoles(l) ==
  /\ load[l].at = "store"
  /\ LET i == load[l].on IN
     /\ known' = [known EXCEPT ![i] = load[l].of]
     /\ inFlight' = [inFlight EXCEPT ![i] = NoLoad]
     /\ overrun' = IF load[l].since = cleared[i] THEN overrun \ {i} ELSE overrun \cup {i}
  /\ load' = [load EXCEPT ![l] = IdleLoad]
  /\ asker' = [q \in Askers |->
       IF asker[q] # NotAsking /\ asker[q].of = l THEN NotAsking ELSE asker[q]]
  /\ UNCHANGED <<roles, cleared>>

PermissionNext ==
  \/ ChangeRoles
  \/ \E i \in Instances : ClearUser(i) \/ Forget(i)
  \/ \E q \in Askers, i \in Instances : AskRoles(q, i)
  \/ \E l \in Loads : ReadRoles(l) \/ StoreRoles(l)

PermissionSpec == PermissionInit /\ [][PermissionNext]_permissionVars

-----------------------------------------------------------------------------
(* Properties *)

\* After an instance has cleared what it knew, its requests are judged by the
\* roles of that time or later, by none where they could not be read, or by an
\* entry that a load from before has written since: no request joins such a load.
ClearedIsSeen ==
  /\ \A i \in Instances \ overrun : known[i] \in {NoEntry, Nothing} \/ known[i] >= cleared[i]
  /\ \A q \in Askers :
       asker[q] # NotAsking =>
         LET l == load[asker[q].of] IN
         l.at = "store" => l.of = Nothing \/ l.of >= asker[q].since
=============================================================================
