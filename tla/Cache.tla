------------------------------- MODULE Cache -------------------------------
(***************************************************************************)
(* One cached answer and the requests that want it.  A request reads the   *)
(* key; on a miss it takes a lock in Redis, fetches from the database,     *)
(* stores the answer and releases the lock; the others wait for it, look   *)
(* again a few times, and in the end fetch for themselves.  Writers change *)
(* the database and delete the key after they have answered.               *)
(*                                                                         *)
(* Sources: lib/cache/cacheStampede.ts, services/core/cacheService.ts,     *)
(* middleware/cacheInvalidation.ts.                                        *)
(***************************************************************************)
EXTENDS Integers

CONSTANTS
  Readers,   \* requests; a reader asks again and again
  NoReader,
  Absent,    \* the key is not in Redis
  Ttl,       \* ticks an answer lives
  LockTime,  \* ticks a lock lives (lockTimeout)
  MaxLooks,  \* maxRetries of a reader that waits
  MaxWrites  \* bound: writes to the database

ASSUME CacheAssumption ==
  /\ NoReader \notin Readers
  /\ Absent \notin Nat
  /\ {Ttl, LockTime, MaxLooks} \subseteq Nat \ {0}
  /\ MaxWrites \in Nat

VARIABLES
  fact,      \* what the database holds: the number of writes
  deletes,   \* writers that have yet to delete the key
  entry,     \* the cached answer
  ttl,       \* ticks it still lives
  cacheLock, \* who holds the lock
  lockTtl,   \* ticks it still lives
  reader,    \* reader[r]: its next step, what it fetched, times it looked
  late       \* history: the readers whose lock ran out while they held it

cacheVars == <<fact, deletes, entry, ttl, cacheLock, lockTtl, reader, late>>

HoldingPlaces == {"fetch", "store", "release"}
ReaderPlaces == {"idle", "acquire", "look", "exists", "reacquire", "alone"} \cup HoldingPlaces

CacheTypeOK ==
  /\ fact \in 0 .. MaxWrites
  /\ deletes \in 0 .. MaxWrites
  /\ entry \in {Absent} \cup 0 .. MaxWrites
  /\ ttl \in 0 .. Ttl
  /\ cacheLock \in Readers \cup {NoReader}
  /\ lockTtl \in 0 .. LockTime
  /\ reader \in [Readers -> [at : ReaderPlaces, data : 0 .. MaxWrites, looks : 0 .. MaxLooks]]
  /\ late \subseteq Readers
  /\ ttl > 0 => entry # Absent
  /\ cacheLock # NoReader <=> lockTtl > 0

CacheInit ==
  /\ fact = 0
  /\ deletes = 0
  /\ entry = Absent
  /\ ttl = 0
  /\ cacheLock = NoReader
  /\ lockTtl = 0
  /\ reader = [r \in Readers |-> [at |-> "idle", data |-> 0, looks |-> 0]]
  /\ late = {}

databaseVars == <<fact, deletes>>
entryVars == <<entry, ttl>>
lockVars == <<cacheLock, lockTtl>>

ReaderAt(r, place) == reader[r].at = place
ReaderGoto(r, place) == reader' = [reader EXCEPT ![r].at = place]
Answer(r) == reader' = [reader EXCEPT ![r] = [at |-> "idle", data |-> 0, looks |-> 0]]

-----------------------------------------------------------------------------
(* CacheStampedeProtection.get *)

\* A hit is answered at once.
Get(r) ==
  /\ ReaderAt(r, "idle")
  /\ IF entry # Absent THEN UNCHANGED reader ELSE ReaderGoto(r, "acquire")
  /\ UNCHANGED <<databaseVars, entryVars, lockVars, late>>

\* SET key value EX timeout NX: whether it was free.
TakeLock(r) ==
  /\ cacheLock = NoReader
  /\ cacheLock' = r
  /\ lockTtl' = LockTime
  /\ ReaderGoto(r, "fetch")

\* One look too many.
FaultLookAgain(r) ==
  /\ reader' = [reader EXCEPT ![r].looks = @ + 1,
                  ![r].at = IF reader[r].looks <= MaxLooks THEN "look" ELSE "alone"]
  /\ UNCHANGED lockVars
\* Looks without counting them.
FaultLooksOn(r) == ReaderGoto(r, "look") /\ UNCHANGED lockVars

\* Another look, after a pause, or no more of them.
LookAgain(r) ==
  /\ reader' = [reader EXCEPT ![r].looks = @ + 1,
                  ![r].at = IF reader[r].looks + 1 < MaxLooks THEN "look" ELSE "alone"]
  /\ UNCHANGED lockVars

Acquire(r) ==
  /\ ReaderAt(r, "acquire")
  /\ TakeLock(r) \/ (cacheLock # NoReader /\ ReaderGoto(r, "look") /\ UNCHANGED lockVars)
  /\ UNCHANGED <<databaseVars, entryVars, late>>

Look(r) ==
  /\ ReaderAt(r, "look")
  /\ IF entry # Absent THEN Answer(r) ELSE ReaderGoto(r, "exists")
  /\ UNCHANGED <<databaseVars, entryVars, lockVars, late>>

Exists(r) ==
  /\ ReaderAt(r, "exists")
  /\ IF cacheLock # NoReader
       THEN LookAgain(r)
       ELSE ReaderGoto(r, "reacquire") /\ UNCHANGED lockVars
  /\ UNCHANGED <<databaseVars, entryVars, late>>

Reacquire(r) ==
  /\ ReaderAt(r, "reacquire")
  /\ TakeLock(r) \/ (cacheLock # NoReader /\ LookAgain(r))
  /\ UNCHANGED <<databaseVars, entryVars, late>>

\* fetchFunction reads the database.
Fetch(r) ==
  /\ ReaderAt(r, "fetch")
  /\ reader' = [reader EXCEPT ![r].at = "store", ![r].data = fact]
  /\ UNCHANGED <<databaseVars, entryVars, lockVars, late>>

\* Without the lock the answer is not cached.
FetchAlone(r) ==
  /\ ReaderAt(r, "alone")
  /\ Answer(r)
  /\ UNCHANGED <<databaseVars, entryVars, lockVars, late>>

\* A value without a lifetime.
FaultStore(r) ==
  /\ ReaderAt(r, "store")
  /\ entry' = reader[r].data
  /\ ttl' = 0
  /\ ReaderGoto(r, "release")
  /\ UNCHANGED <<databaseVars, lockVars, late>>

Store(r) ==
  /\ ReaderAt(r, "store")
  /\ entry' = reader[r].data
  /\ ttl' = Ttl
  /\ ReaderGoto(r, "release")
  /\ UNCHANGED <<databaseVars, lockVars, late>>

\* A plain DEL of the lock's key.
FaultReleaseLock(r) ==
  /\ ReaderAt(r, "release")
  /\ cacheLock' = NoReader /\ lockTtl' = 0
  /\ Answer(r)
  /\ late' = late \ {r}
  /\ UNCHANGED <<databaseVars, entryVars>>

\* RELEASE_LOCK_SCRIPT deletes the lock if it is still this reader's.
ReleaseLock(r) ==
  /\ ReaderAt(r, "release")
  /\ IF cacheLock = r THEN cacheLock' = NoReader /\ lockTtl' = 0 ELSE UNCHANGED lockVars
  /\ Answer(r)
  /\ late' = late \ {r}
  /\ UNCHANGED <<databaseVars, entryVars>>

\* The fetch or a command of Redis throws: the caller gets an error; what
\* holds the lock tries to release it first.
Throws(r) ==
  /\ ~ReaderAt(r, "idle")
  /\ IF reader[r].at \in {"fetch", "store"}
       THEN ReaderGoto(r, "release") /\ UNCHANGED late
       ELSE Answer(r) /\ late' = late \ {r}
  /\ UNCHANGED <<databaseVars, entryVars, lockVars>>

\* The instance stops.
Dies(r) ==
  /\ ~ReaderAt(r, "idle")
  /\ Answer(r)
  /\ late' = late \ {r}
  /\ UNCHANGED <<databaseVars, entryVars, lockVars>>

-----------------------------------------------------------------------------
(* Writers and time *)

WriteFact ==
  /\ fact < MaxWrites
  /\ fact' = fact + 1
  /\ deletes' = deletes + 1
  /\ UNCHANGED <<entryVars, lockVars, reader, late>>

\* The key is deleted after the response (setImmediate) ...
Invalidate ==
  /\ deletes > 0
  /\ deletes' = deletes - 1
  /\ entry' = Absent
  /\ ttl' = 0
  /\ UNCHANGED <<fact, lockVars, reader, late>>

\* ... or never: an error of Redis is logged, the instance may stop.
InvalidationLost ==
  /\ deletes > 0
  /\ deletes' = deletes - 1
  /\ UNCHANGED <<fact, entryVars, lockVars, reader, late>>

CacheTick ==
  /\ ttl > 0 \/ lockTtl > 0
  /\ ttl' = IF ttl > 0 THEN ttl - 1 ELSE 0
  /\ entry' = IF ttl = 1 THEN Absent ELSE entry
  /\ lockTtl' = IF lockTtl > 0 THEN lockTtl - 1 ELSE 0
  /\ cacheLock' = IF lockTtl = 1 THEN NoReader ELSE cacheLock
  /\ late' = IF lockTtl = 1 /\ reader[cacheLock].at \in HoldingPlaces
               THEN late \cup {cacheLock} ELSE late
  /\ UNCHANGED <<databaseVars, reader>>

\* What a request does once it has missed.
Serve(r) ==
  \/ Acquire(r) \/ Look(r) \/ Exists(r) \/ Reacquire(r) \/ Fetch(r)
  \/ FetchAlone(r) \/ Store(r) \/ ReleaseLock(r)

CacheNext ==
  \/ \E r \in Readers : Get(r) \/ Serve(r) \/ Throws(r) \/ Dies(r)
  \/ WriteFact \/ Invalidate \/ InvalidationLost \/ CacheTick

\* Awaits settle and time passes.  Nothing makes readers ask, writers write
\* or keys be deleted.
CacheFairness == WF_cacheVars(CacheTick) /\ \A r \in Readers : WF_cacheVars(Serve(r))
CacheSpec == CacheInit /\ [][CacheNext]_cacheVars /\ CacheFairness

-----------------------------------------------------------------------------
(* Properties *)

\* Who fetches under the lock holds it until it gives it back or runs out of
\* time: a reader whose lock ran out never frees the one that took it next.
HoldersHold ==
  \A r \in Readers : reader[r].at \in HoldingPlaces /\ r \notin late => cacheLock = r

\* Every request is answered, though the one it waits for may stop with the
\* lock in its hands.
Answered == \A r \in Readers : ~ReaderAt(r, "idle") ~> ReaderAt(r, "idle")

\* When the writers are done the cache comes to tell the truth, and keeps to
\* it, though invalidations were lost and slow readers stored what they had
\* fetched before the last write: no answer outlives its time.
EventuallyTrue == <>[](entry # Absent => entry = fact)
=============================================================================
