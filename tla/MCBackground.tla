---------------------------- MODULE MCBackground ----------------------------
(***************************************************************************)
(* What runs behind the requests: the reminder job, the push worker and    *)
(* the cache.  They share no state: a behaviour is one of the part drawn   *)
(* at the start, and the others stand still.                               *)
(***************************************************************************)
EXTENDS MCReminders, Push, Cache

VARIABLE part

Background == <<part, vars, pushVars, cacheVars>>

\* What start is while the reminders stand still.
AnyStarts == CHOOSE f \in [Appointments -> Starts] : \A a \in Appointments : f[a] > Far

BackgroundInit ==
  /\ part \in {"reminders", "push", "cache"}
  /\ Init /\ PushInit /\ CacheInit
  /\ part # "reminders" => start = AnyStarts

BackgroundNext ==
  \/ part = "reminders" /\ Next /\ UNCHANGED <<part, pushVars, cacheVars>>
  \/ part = "push" /\ PushNext /\ UNCHANGED <<part, vars, cacheVars>>
  \/ part = "cache" /\ CacheNext /\ UNCHANGED <<part, vars, pushVars>>

\* The fairness of PushSpec and CacheSpec and, of FairSpec, as much as frees
\* the lock: time passes, and a run that has the lock gives it its lifetime.
BackgroundFairness ==
  /\ WF_vars(part = "reminders" /\ Tick)
  /\ WF_vars(part = "reminders" /\ \E r \in Runs : Lease(r))
  /\ \A n \in Pushes : WF_pushVars(part = "push" /\ PushTask(n))
  /\ WF_cacheVars(part = "cache" /\ CacheTick)
  /\ \A q \in Readers : WF_cacheVars(part = "cache" /\ Serve(q))

\* The variables of the part that moves have their types.
BackgroundTypeOK ==
  /\ part = "reminders" => TypeOK
  /\ part = "push" => PushTypeOK
  /\ part = "cache" => CacheTypeOK

BackgroundSpec == BackgroundInit /\ [][BackgroundNext]_Background /\ BackgroundFairness
=============================================================================
