--------------------------- MODULE BackgroundProofs ---------------------------
(***************************************************************************)
(* Proofs about Cache, for every set of readers, every lifetime of an      *)
(* answer and of a lock and every number of looks, and about Push, for     *)
(* every number of notifications, of devices, of places and of attempts.   *)
(* They close with the two and the reminder job side by side, as           *)
(* MCBackground runs them.                                                 *)
(***************************************************************************)
EXTENDS MCBackground, RemindersProofs, FiniteSetTheorems, SequenceTheorems, TLAPS

-----------------------------------------------------------------------------
(* The cache *)

LookingPlaces == {"idle", "acquire", "look", "exists", "reacquire"}

\* A reader that will look again has looks left: what types the counter.
Looking ==
  \A r \in Readers :
    reader[r].at \in LookingPlaces => reader[r].looks < MaxLooks

\* No writer deletes the key before it has written.
Owed == deletes <= fact

\* Every step preserves the type invariant and its companions together.
CacheInv == CacheTypeOK /\ Owed /\ Looking /\ HoldersHold

ReaderState == [at : ReaderPlaces, data : 0 .. MaxWrites, looks : 0 .. MaxLooks]
IdleReader == [at |-> "idle", data |-> 0, looks |-> 0]

LEMMA CacheInitHolds == CacheInit => CacheInv
BY CacheAssumption
DEF CacheInit, CacheInv, CacheTypeOK, Owed, Looking, HoldersHold, HoldingPlaces, ReaderPlaces

LEMMA IdleType == IdleReader \in ReaderState
BY CacheAssumption DEF IdleReader, ReaderState, ReaderPlaces

\* A step of one reader that leaves the locks alone and does not bring it to
\* a place that holds one preserves everything, as does one it answers at.
LEMMA ReaderMoves ==
  ASSUME CacheInv, NEW r \in Readers, NEW state \in ReaderState,
         reader' = [reader EXCEPT ![r] = state],
         state.at \in HoldingPlaces => reader[r].at \in HoldingPlaces,
         state.at \in LookingPlaces => state.looks < MaxLooks,
         late' = late \/ (late' = late \ {r} /\ state.at \notin HoldingPlaces),
         UNCHANGED <<databaseVars, lockVars>>,
         entry' \in {Absent} \cup 0 .. MaxWrites, ttl' \in 0 .. Ttl,
         ttl' > 0 => entry' # Absent
  PROVE  CacheInv'
<1>1. reader \in [Readers -> ReaderState]
  BY DEF CacheInv, CacheTypeOK, ReaderState
<1>2. reader' \in [Readers -> ReaderState]
  BY <1>1
<1>3. CacheTypeOK'
  BY <1>2 DEF CacheInv, CacheTypeOK, ReaderState, databaseVars, lockVars
<1>4. Looking'
  BY <1>1 DEF CacheInv, Looking
<1>5. HoldersHold'
  BY <1>1 DEF CacheInv, HoldersHold, lockVars
<1>6. Owed'
  BY DEF CacheInv, Owed, databaseVars
<1>. QED  BY <1>3, <1>4, <1>5, <1>6 DEF CacheInv

LEMMA ReaderFields ==
  ASSUME CacheTypeOK, NEW r \in Readers
  PROVE  /\ reader[r] \in ReaderState
         /\ reader \in [Readers -> ReaderState]
         /\ reader[r].looks \in 0 .. MaxLooks
         /\ reader[r].data \in 0 .. MaxWrites
BY DEF CacheTypeOK, ReaderState

\* A reader that goes on to a place that holds no lock, as it is.
LEMMA Goes ==
  ASSUME CacheInv, NEW r \in Readers, NEW place \in ReaderPlaces,
         ReaderGoto(r, place),
         place \in HoldingPlaces => reader[r].at \in HoldingPlaces,
         place \in LookingPlaces => reader[r].looks < MaxLooks,
         UNCHANGED <<databaseVars, lockVars, late>>,
         entry' \in {Absent} \cup 0 .. MaxWrites, ttl' \in 0 .. Ttl,
         ttl' > 0 => entry' # Absent
  PROVE  CacheInv'
<1>. DEFINE state == [reader[r] EXCEPT !.at = place]
<1>1. reader[r] \in ReaderState /\ reader \in [Readers -> ReaderState]
  BY ReaderFields DEF CacheInv
<1>2. state \in ReaderState /\ state.at = place /\ state.looks = reader[r].looks
  BY <1>1 DEF ReaderState
<1>3. reader' = [reader EXCEPT ![r] = state]
  BY <1>1 DEF ReaderGoto
<1>. HIDE DEF state
<1>. QED  BY <1>2, <1>3, ReaderMoves DEF HoldingPlaces

\* A reader that is answered, or gives up.
LEMMA Leaves ==
  ASSUME CacheInv, NEW r \in Readers, Answer(r),
         late' = late \/ late' = late \ {r},
         UNCHANGED <<databaseVars, entryVars, lockVars>>
  PROVE  CacheInv'
<1>1. reader' = [reader EXCEPT ![r] = IdleReader]
  BY DEF Answer, IdleReader
<1>2. IdleReader.at = "idle"
  BY DEF IdleReader
<1>3. /\ entry' \in {Absent} \cup 0 .. MaxWrites /\ ttl' \in 0 .. Ttl
      /\ ttl' > 0 => entry' # Absent
  BY DEF CacheInv, CacheTypeOK, entryVars
<1>4. IdleReader.at \in LookingPlaces => IdleReader.looks < MaxLooks
  BY CacheAssumption DEF IdleReader
<1>. QED  BY <1>1, <1>2, <1>3, <1>4, IdleType, ReaderMoves DEF HoldingPlaces

\* The lock is free, so nobody who is in time is fetching under it.
LEMMA Takes ==
  ASSUME CacheInv, NEW r \in Readers, TakeLock(r),
         UNCHANGED <<databaseVars, entryVars, late>>
  PROVE  CacheInv'
<1>1. reader[r] \in ReaderState /\ reader \in [Readers -> ReaderState]
  BY ReaderFields DEF CacheInv
<1>2. reader' \in [Readers -> ReaderState]
  BY <1>1 DEF TakeLock, ReaderGoto, ReaderState, ReaderPlaces, HoldingPlaces
<1>3. CacheTypeOK'
  BY <1>2, CacheAssumption DEF CacheInv, CacheTypeOK, TakeLock, ReaderState, databaseVars, entryVars
<1>4. Looking'
  BY <1>1 DEF CacheInv, Looking, LookingPlaces, TakeLock, ReaderGoto, ReaderState
<1>5. HoldersHold'
  BY <1>1, CacheAssumption
  DEF CacheInv, HoldersHold, TakeLock, ReaderGoto, ReaderState, CacheTypeOK
<1>6. Owed'
  BY DEF CacheInv, Owed, databaseVars
<1>. QED  BY <1>3, <1>4, <1>5, <1>6 DEF CacheInv

LEMMA LooksAgain ==
  ASSUME CacheInv, NEW r \in Readers, LookAgain(r),
         reader[r].at \in {"exists", "reacquire"},
         UNCHANGED <<databaseVars, entryVars, late>>
  PROVE  CacheInv'
<1>. DEFINE place == IF reader[r].looks + 1 < MaxLooks THEN "look" ELSE "alone"
            state == [reader[r] EXCEPT !.looks = reader[r].looks + 1, !.at = place]
<1>1. reader[r] \in ReaderState /\ reader \in [Readers -> ReaderState]
  BY ReaderFields DEF CacheInv
<1>2. reader[r].looks \in 0 .. MaxLooks /\ reader[r].looks < MaxLooks
  BY ReaderFields DEF CacheInv, Looking, LookingPlaces
<1>3. place \in {"look", "alone"} /\ (place = "look" => reader[r].looks + 1 < MaxLooks)
  OBVIOUS
<1>4. reader' = [reader EXCEPT ![r] = state]
  BY <1>1 DEF LookAgain
<1>5. reader[r].looks + 1 \in 0 .. MaxLooks
  BY <1>2, CacheAssumption
<1>. HIDE DEF place
<1>6. state \in ReaderState /\ state.at = place /\ state.looks = reader[r].looks + 1
  BY <1>1, <1>3, <1>5 DEF ReaderState, ReaderPlaces
<1>7. /\ entry' \in {Absent} \cup 0 .. MaxWrites /\ ttl' \in 0 .. Ttl
      /\ ttl' > 0 => entry' # Absent
  BY DEF CacheInv, CacheTypeOK, entryVars
<1>8. UNCHANGED lockVars
  BY DEF LookAgain
<1>9. state.at \in LookingPlaces => state.looks < MaxLooks
  BY <1>3, <1>6 DEF LookingPlaces
<1>. HIDE DEF state
<1>. QED  BY <1>3, <1>4, <1>6, <1>7, <1>8, <1>9, ReaderMoves DEF HoldingPlaces

LEMMA Fetches ==
  ASSUME CacheInv, NEW r \in Readers, Fetch(r)
  PROVE  CacheInv'
<1>. DEFINE state == [reader[r] EXCEPT !.at = "store", !.data = fact]
<1>1. reader[r] \in ReaderState /\ reader \in [Readers -> ReaderState]
  BY ReaderFields DEF CacheInv
<1>2. fact \in 0 .. MaxWrites /\ reader[r].at \in HoldingPlaces
  BY DEF CacheInv, CacheTypeOK, Fetch, ReaderAt, HoldingPlaces
<1>3. state \in ReaderState /\ state.at = "store"
  BY <1>1, <1>2 DEF ReaderState, ReaderPlaces, HoldingPlaces
<1>4. reader' = [reader EXCEPT ![r] = state]
  BY <1>1 DEF Fetch
<1>5. /\ entry' \in {Absent} \cup 0 .. MaxWrites /\ ttl' \in 0 .. Ttl
      /\ ttl' > 0 => entry' # Absent
      /\ UNCHANGED <<databaseVars, lockVars>> /\ late' = late
  BY DEF CacheInv, CacheTypeOK, Fetch, entryVars
<1>. HIDE DEF state
<1>. QED  BY <1>2, <1>3, <1>4, <1>5, ReaderMoves DEF LookingPlaces

\* Only its own lock is freed, so no other reader loses one.
LEMMA Releases ==
  ASSUME CacheInv, NEW r \in Readers, ReleaseLock(r)
  PROVE  CacheInv'
<1>1. reader[r] \in ReaderState /\ reader \in [Readers -> ReaderState]
  BY ReaderFields DEF CacheInv
<1>2. reader' = [reader EXCEPT ![r] = IdleReader]
  BY DEF ReleaseLock, Answer, IdleReader
<1>3. reader' \in [Readers -> ReaderState]
  BY <1>1, <1>2, IdleType
<1>4. CacheTypeOK'
  BY <1>3, CacheAssumption
  DEF CacheInv, CacheTypeOK, ReleaseLock, ReaderState, databaseVars, entryVars, lockVars
<1>5. Looking'
  BY <1>1, <1>2, CacheAssumption DEF CacheInv, Looking, IdleReader
<1>6. HoldersHold'
  <2>. SUFFICES ASSUME NEW q \in Readers, reader'[q].at \in HoldingPlaces, q \notin late'
                PROVE  cacheLock' = q
    BY DEF HoldersHold
  <2>1. q # r /\ reader[q].at \in HoldingPlaces /\ q \notin late
    BY <1>1, <1>2 DEF IdleReader, HoldingPlaces, ReleaseLock
  <2>2. cacheLock = q
    BY <2>1 DEF CacheInv, HoldersHold
  <2>. QED  BY <2>1, <2>2 DEF ReleaseLock, lockVars
<1>7. Owed'
  BY DEF CacheInv, Owed, ReleaseLock, databaseVars
<1>. QED  BY <1>4, <1>5, <1>6, <1>7 DEF CacheInv

\* The steps of a request that misses.
LEMMA ReaderSteps ==
  ASSUME CacheInv, NEW r \in Readers, Get(r) \/ Serve(r)
  PROVE  CacheInv'
<1>1. /\ entry \in {Absent} \cup 0 .. MaxWrites /\ ttl \in 0 .. Ttl
      /\ ttl > 0 => entry # Absent
  BY DEF CacheInv, CacheTypeOK
<1>2. reader[r].data \in 0 .. MaxWrites
  BY ReaderFields DEF CacheInv
<1>3. reader[r].at \in LookingPlaces => reader[r].looks < MaxLooks
  BY DEF CacheInv, Looking
<1>4. {"acquire", "look", "exists", "reacquire", "release"} \subseteq ReaderPlaces
  BY DEF ReaderPlaces, HoldingPlaces
<1>5. CASE Get(r)
  <2>1. CASE entry # Absent
    <3>1. UNCHANGED cacheVars
      BY <1>5, <2>1 DEF Get, cacheVars, databaseVars, entryVars, lockVars
    <3>. QED  BY <3>1 DEF cacheVars, CacheInv, CacheTypeOK, Owed, Looking, HoldersHold
  <2>2. CASE entry = Absent
    <3>1. /\ ReaderGoto(r, "acquire") /\ reader[r].at \in LookingPlaces
          /\ UNCHANGED <<databaseVars, entry, ttl, lockVars, late>>
      BY <1>5, <2>2 DEF Get, ReaderAt, LookingPlaces, entryVars
    <3>. QED  BY <1>1, <1>3, <1>4, <3>1, Goes DEF HoldingPlaces
  <2>. QED  BY <2>1, <2>2
<1>6. CASE Acquire(r)
  <2>1. CASE TakeLock(r)
    BY <1>6, <2>1, Takes DEF Acquire
  <2>2. CASE ~TakeLock(r)
    <3>1. /\ ReaderGoto(r, "look") /\ reader[r].at \in LookingPlaces
          /\ UNCHANGED <<databaseVars, entry, ttl, lockVars, late>>
      BY <1>6, <2>2 DEF Acquire, ReaderAt, LookingPlaces, entryVars
    <3>. QED  BY <1>1, <1>3, <1>4, <3>1, Goes DEF HoldingPlaces
  <2>. QED  BY <2>1, <2>2
<1>7. CASE Look(r)
  <2>1. CASE entry # Absent
    BY <1>7, <2>1, Leaves DEF Look
  <2>2. CASE entry = Absent
    <3>1. /\ ReaderGoto(r, "exists") /\ reader[r].at \in LookingPlaces
          /\ UNCHANGED <<databaseVars, entry, ttl, lockVars, late>>
      BY <1>7, <2>2 DEF Look, ReaderAt, LookingPlaces, entryVars
    <3>. QED  BY <1>1, <1>3, <1>4, <3>1, Goes DEF HoldingPlaces
  <2>. QED  BY <2>1, <2>2
<1>8. CASE Exists(r)
  <2>1. CASE cacheLock # NoReader
    BY <1>8, <2>1, LooksAgain DEF Exists, ReaderAt
  <2>2. CASE cacheLock = NoReader
    <3>1. /\ ReaderGoto(r, "reacquire") /\ reader[r].at \in LookingPlaces
          /\ UNCHANGED <<databaseVars, entry, ttl, lockVars, late>>
      BY <1>8, <2>2 DEF Exists, ReaderAt, LookingPlaces, entryVars
    <3>. QED  BY <1>1, <1>3, <1>4, <3>1, Goes DEF HoldingPlaces
  <2>. QED  BY <2>1, <2>2
<1>9. CASE Reacquire(r)
  <2>1. CASE TakeLock(r)
    BY <1>9, <2>1, Takes DEF Reacquire
  <2>2. CASE ~TakeLock(r)
    BY <1>9, <2>2, LooksAgain DEF Reacquire, ReaderAt
  <2>. QED  BY <2>1, <2>2
<1>10. CASE Fetch(r)
  BY <1>10, Fetches
<1>11. CASE FetchAlone(r)
  BY <1>11, Leaves DEF FetchAlone
<1>12. CASE Store(r)
  <2>1. /\ ReaderGoto(r, "release") /\ reader[r].at \in HoldingPlaces
        /\ UNCHANGED <<databaseVars, lockVars, late>>
    BY <1>12 DEF Store, ReaderAt, HoldingPlaces
  <2>2. /\ entry' \in {Absent} \cup 0 .. MaxWrites /\ ttl' \in 0 .. Ttl
        /\ ttl' > 0 => entry' # Absent
    BY <1>2, <1>12, CacheAssumption DEF Store
  <2>. QED  BY <1>4, <2>1, <2>2, Goes DEF LookingPlaces
<1>13. CASE ReleaseLock(r)
  BY <1>13, Releases
<1>. QED
  BY <1>5, <1>6, <1>7, <1>8, <1>9, <1>10, <1>11, <1>12, <1>13 DEF Serve

\* An error or a stop on the way: the lock is left to its time.
LEMMA Failures ==
  ASSUME CacheInv, NEW r \in Readers, Throws(r) \/ Dies(r)
  PROVE  CacheInv'
<1>1. CASE Throws(r) /\ reader[r].at \in {"fetch", "store"}
  <2>1. /\ ReaderGoto(r, "release") /\ reader[r].at \in HoldingPlaces
        /\ UNCHANGED <<databaseVars, entry, ttl, lockVars, late>>
    BY <1>1 DEF Throws, HoldingPlaces, entryVars
  <2>2. /\ entry \in {Absent} \cup 0 .. MaxWrites /\ ttl \in 0 .. Ttl
        /\ ttl > 0 => entry # Absent
    BY DEF CacheInv, CacheTypeOK
  <2>3. "release" \in ReaderPlaces
    BY DEF ReaderPlaces, HoldingPlaces
  <2>. QED  BY <2>1, <2>2, <2>3, Goes DEF LookingPlaces
<1>2. CASE Throws(r) /\ reader[r].at \notin {"fetch", "store"}
  BY <1>2, Leaves DEF Throws
<1>3. CASE Dies(r)
  BY <1>3, Leaves DEF Dies
<1>. QED  BY <1>1, <1>2, <1>3

\* Writers and deleted keys touch neither readers nor locks.
LEMMA Writers ==
  ASSUME CacheInv, WriteFact \/ Invalidate \/ InvalidationLost
  PROVE  CacheInv'
<1>1. Looking' /\ HoldersHold'
  BY DEF CacheInv, Looking, HoldersHold, WriteFact, Invalidate, InvalidationLost, lockVars
<1>2. /\ fact \in 0 .. MaxWrites /\ deletes \in 0 .. MaxWrites /\ deletes <= fact
  BY DEF CacheInv, CacheTypeOK, Owed
<1>3. fact' \in 0 .. MaxWrites /\ deletes' \in 0 .. MaxWrites /\ deletes' <= fact'
  BY <1>2, CacheAssumption DEF WriteFact, Invalidate, InvalidationLost
<1>4. /\ entry' \in {Absent} \cup 0 .. MaxWrites /\ ttl' \in 0 .. Ttl
      /\ ttl' > 0 => entry' # Absent
  BY CacheAssumption
  DEF CacheInv, CacheTypeOK, WriteFact, Invalidate, InvalidationLost, entryVars
<1>5. UNCHANGED <<cacheLock, lockTtl, reader, late>>
  BY DEF WriteFact, Invalidate, InvalidationLost, lockVars
<1>6. CacheTypeOK'
  BY <1>3, <1>4, <1>5 DEF CacheInv, CacheTypeOK
<1>. QED  BY <1>1, <1>3, <1>6 DEF CacheInv, Owed

\* Whoever holds a lock that runs out is late from then on.
LEMMA TimePasses ==
  ASSUME CacheInv, CacheTick
  PROVE  CacheInv'
<1>1. /\ ttl \in 0 .. Ttl /\ lockTtl \in 0 .. LockTime
      /\ entry \in {Absent} \cup 0 .. MaxWrites
      /\ ttl > 0 => entry # Absent
      /\ cacheLock \in Readers \cup {NoReader}
      /\ cacheLock # NoReader <=> lockTtl > 0
  BY DEF CacheInv, CacheTypeOK
<1>2. UNCHANGED <<fact, deletes, reader>>
  BY DEF CacheTick, databaseVars
<1>3. /\ ttl' \in 0 .. Ttl /\ entry' \in {Absent} \cup 0 .. MaxWrites
      /\ ttl' > 0 => entry' # Absent
  BY <1>1, CacheAssumption DEF CacheTick
<1>4. /\ lockTtl' \in 0 .. LockTime /\ cacheLock' \in Readers \cup {NoReader}
      /\ cacheLock' # NoReader <=> lockTtl' > 0
  BY <1>1, CacheAssumption DEF CacheTick
<1>5. late' \subseteq Readers /\ late \subseteq late'
  BY <1>1, CacheAssumption DEF CacheTick, CacheInv, CacheTypeOK
<1>6. CacheTypeOK'
  BY <1>2, <1>3, <1>4, <1>5 DEF CacheInv, CacheTypeOK
<1>7. Looking' /\ Owed'
  BY <1>2 DEF CacheInv, Looking, Owed
<1>8. HoldersHold'
  <2>. SUFFICES ASSUME NEW r \in Readers, reader[r].at \in HoldingPlaces, r \notin late'
                PROVE  cacheLock' = r
    BY <1>2 DEF HoldersHold
  <2>1. cacheLock = r
    BY <1>5 DEF CacheInv, HoldersHold
  <2>2. lockTtl # 1
    BY <2>1 DEF CacheTick
  <2>. QED  BY <2>1, <2>2 DEF CacheTick
<1>. QED  BY <1>6, <1>7, <1>8 DEF CacheInv

LEMMA CacheStepsPreserve ==
  ASSUME CacheInv, [CacheNext]_cacheVars
  PROVE  CacheInv'
<1>1. CASE UNCHANGED cacheVars
  BY <1>1 DEF cacheVars, CacheInv, CacheTypeOK, Owed, Looking, HoldersHold
<1>2. CASE CacheNext
  BY <1>2, ReaderSteps, Failures, Writers, TimePasses DEF CacheNext
<1>. QED  BY <1>1, <1>2

\* The inductive invariant: at most one reader in time holds the lock.
THEOREM CacheInvariant == CacheSpec => []CacheInv
<1>1. CacheInit => CacheInv
  BY CacheInitHolds
<1>2. CacheInv /\ [CacheNext]_cacheVars => CacheInv'
  BY CacheStepsPreserve
<1>. QED  BY <1>1, <1>2, PTL DEF CacheSpec

\* The variables of the cache keep their types: no reader looks more often
\* than it may, an answer that still lives is there, a lock that is held runs
\* out (cacheStampede.ts, get).
THEOREM CacheTypeCorrect == CacheSpec => []CacheTypeOK
<1>1. CacheInv => CacheTypeOK
  BY DEF CacheInv
<1>. QED  BY <1>1, CacheInvariant, PTL

\* Whatever the lifetimes and the number of readers, who fetches under the
\* lock holds it unless it ran out of time (RELEASE_LOCK_SCRIPT: a late
\* reader frees nobody else's lock).
THEOREM HoldersHoldIt == CacheSpec => []HoldersHold
<1>1. CacheInv => HoldersHold
  BY DEF CacheInv
<1>. QED  BY <1>1, CacheInvariant, PTL

-----------------------------------------------------------------------------
(* The push worker *)

PushRow == [status : PushStatuses, device : Devices]
Task == [at : PushSteps \cup {"none", "queue", "timer"}, attempt : 0 .. MaxAttempts - 1]

Flying(jobs) == {n \in Pushes : jobs[n].at \in PushSteps}

\* The queue holds tasks that wait in it, each once.
QueueHolds(queue, jobs) ==
  /\ queue \in Seq(Pushes)
  /\ \A i \in 1 .. Len(queue) : jobs[queue[i]].at = "queue"
  /\ \A i, j \in 1 .. Len(queue) : queue[i] = queue[j] => i = j

WorkerInv ==
  /\ job \in [Pushes -> Task]
  /\ QueueHolds(waiting, job)
  /\ IsFiniteSet(InFlight)
  /\ active \in 0 .. Concurrency
  /\ NoIdleWorker

\* What a task has sent so far, and what its row says of it.
Tells(row, task, times) ==
  /\ row.status = "NONE" => task.at = "none" /\ times = 0
  /\ task.at \in {"queue", "timer", "send"} => times <= task.attempt
  /\ task.at \in {"sent", "touch"} => times <= task.attempt + 1
TellsTruly(row, task, times) ==
  /\ task.at \in {"queue", "timer", "send", "disable", "mark"} =>
       times = 0 /\ row.status \in {"PENDING", "FAILED"}
  /\ task.at = "sent" => times = 1 /\ row.status # "NONE"
  /\ task.at = "touch" => times = 1 /\ row.status = "SENT"
  /\ task.at = "sweep" => times = 0 /\ row.status = "FAILED"
  /\ task.at = "none" =>
       \/ row.status = "NONE" /\ times = 0
       \/ row.status = "SENT" /\ times = 1
       \/ row.status = "FAILED" /\ times = 0

RowsInv ==
  /\ subscribed \subseteq Devices
  /\ push \in [Pushes -> PushRow]
  /\ taken \in [Pushes -> 0 .. MaxAttempts]
  /\ pushFaults \in 0 .. MaxFaults
  /\ \A n \in Pushes :
       /\ Tells(push[n], job[n], taken[n])
       /\ pushFaults = 0 => TellsTruly(push[n], job[n], taken[n])

PushInv == WorkerInv /\ RowsInv

LEMMA PushInitHolds == PushInit => PushInv
<1>. SUFFICES ASSUME PushInit
              PROVE  PushInv
  OBVIOUS
<1>1. job \in [Pushes -> Task]
  BY PushAssumption DEF PushInit, Task
<1>2. InFlight = {}
  BY DEF PushInit, InFlight, PushSteps
<1>3. WorkerInv
  <2>1. QueueHolds(waiting, job)
    BY DEF PushInit, QueueHolds
  <2>2. IsFiniteSet(InFlight) /\ Cardinality(InFlight) = 0
    BY <1>2, FS_EmptySet
  <2>. QED  BY <1>1, <2>1, <2>2, PushAssumption DEF PushInit, WorkerInv, NoIdleWorker
<1>4. RowsInv
  BY PushAssumption DEF PushInit, RowsInv, PushRow, PushStatuses, Tells, TellsTruly
<1>. QED  BY <1>3, <1>4 DEF PushInv

-----------------------------------------------------------------------------

\* A queue that is drained starts one task at most: before, either it was
\* empty or all places were taken.
LEMMA Drained ==
  ASSUME NEW queue, NEW running \in 0 .. Concurrency, NEW jobs \in [Pushes -> Task],
         QueueHolds(queue, jobs), IsFiniteSet(Flying(jobs)),
         running = Cardinality(Flying(jobs)),
         Len(queue) <= 1 \/ running >= Concurrency - 1,
         ProcessQueue(queue, running, jobs)
  PROVE  /\ WorkerInv'
         /\ \A m \in Pushes :
              \/ job'[m] = jobs[m]
              \/ jobs[m].at = "queue" /\ job'[m] = [jobs[m] EXCEPT !.at = "send"]
<1>. DEFINE free == Concurrency - running
            n == IF Len(queue) < free THEN Len(queue) ELSE free
            started == {queue[i] : i \in 1 .. n}
<1>1. /\ waiting' = SubSeq(queue, n + 1, Len(queue))
      /\ active' = running + n
      /\ job' = [m \in Pushes |-> IF m \in started
                                  THEN [jobs[m] EXCEPT !.at = "send"] ELSE jobs[m]]
  BY DEF ProcessQueue
<1>2. /\ Len(queue) \in Nat /\ Concurrency \in Nat /\ Concurrency >= 1 /\ free \in Nat
      /\ queue \in Seq(Pushes) /\ n \in Nat /\ n <= Len(queue) /\ n <= free
      /\ running \in Nat /\ free = Concurrency - running
      /\ n < Len(queue) => n = free
  BY PushAssumption DEF QueueHolds
<1>. HIDE DEF n, free
<1>3. n = 0 \/ n = 1
  BY <1>2
<1>4. CASE n = 0
  <2>1. started = {}
    BY <1>4
  <2>2. job' = jobs
    BY <1>1, <2>1
  <2>3. waiting' = queue
    BY <1>1, <1>2, <1>4
  <2>4. InFlight' = Flying(jobs) /\ active' = running
    BY <1>1, <1>2, <1>4, <2>2 DEF InFlight, Flying
  <2>5. queue = <<>> \/ running = Concurrency
    BY <1>2, <1>4
  <2>. QED  BY <1>2, <2>2, <2>3, <2>4, <2>5 DEF WorkerInv, NoIdleWorker
<1>5. CASE n = 1
  <2>. DEFINE first == queue[1]
  <2>1. started = {first} /\ first \in Pushes /\ jobs[first].at = "queue" /\ Len(queue) >= 1
    BY <1>2, <1>5 DEF QueueHolds
  <2>2. job' = [jobs EXCEPT ![first].at = "send"]
    BY <1>1, <2>1
  <2>3. job' \in [Pushes -> Task]
    BY <2>2, <2>1 DEF Task, PushSteps
  <2>4. /\ waiting' \in Seq(Pushes) /\ Len(waiting') = Len(queue) - 1
        /\ \A i \in 1 .. Len(waiting') : waiting'[i] = queue[i + 1]
    <3>1. waiting' = SubSeq(queue, 2, Len(queue)) /\ queue # <<>>
      BY <1>1, <1>5, <2>1
    <3>2. waiting' = Tail(queue)
      BY <1>2, <3>1, TailIsSubSeq
    <3>3. /\ Tail(queue) \in Seq(Pushes) /\ Len(Tail(queue)) = Len(queue) - 1
          /\ \A i \in 1 .. Len(Tail(queue)) : Tail(queue)[i] = queue[i + 1]
      BY <1>2, <3>1, HeadTailProperties
    <3>. QED  BY <3>2, <3>3
  <2>5. QueueHolds(waiting, job)'
    <3>1. \A i \in 1 .. Len(waiting') : i + 1 \in 1 .. Len(queue) /\ i + 1 # 1
      BY <1>2, <2>4
    <3>2. \A i \in 1 .. Len(waiting') : waiting'[i] # first /\ waiting'[i] \in Pushes
      BY <1>2, <2>1, <2>4, <3>1 DEF QueueHolds
    <3>3. \A i \in 1 .. Len(waiting') : job'[waiting'[i]].at = "queue"
      BY <2>2, <2>4, <3>1, <3>2 DEF QueueHolds
    <3>4. ASSUME NEW i \in 1 .. Len(waiting'), NEW j \in 1 .. Len(waiting'),
                 waiting'[i] = waiting'[j]
          PROVE  i = j
      <4>1. i + 1 = j + 1
        BY <2>4, <3>1, <3>4 DEF QueueHolds
      <4>. QED  BY <1>2, <2>4, <4>1
    <3>. QED  BY <2>4, <3>3, <3>4 DEF QueueHolds
  <2>6. InFlight' = Flying(jobs) \cup {first} /\ first \notin Flying(jobs)
    BY <2>1, <2>2 DEF InFlight, Flying, PushSteps, Task
  <2>7. IsFiniteSet(InFlight') /\ Cardinality(InFlight') = running + 1
    BY <2>6, FS_AddElement
  <2>8. active' = running + 1 /\ active' \in 0 .. Concurrency
    BY <1>1, <1>2, <1>5
  <2>9. waiting' # <<>> => active' = Concurrency
    <3>1. waiting' # <<>> => Len(waiting') >= 1
      BY <2>4
    <3>. QED  BY <1>2, <1>5, <2>4, <2>8, <3>1
  <2>10. WorkerInv'
    BY <2>3, <2>5, <2>7, <2>8, <2>9 DEF WorkerInv, NoIdleWorker
  <2>. QED  BY <2>1, <2>2, <2>10
<1>. QED  BY <1>3, <1>4, <1>5

\* A task in flight goes on.
LEMMA TaskGoes ==
  ASSUME WorkerInv, NEW n \in Pushes, NEW step \in PushSteps, job[n].at \in PushSteps,
         JobGoto(n, step)
  PROVE  WorkerInv' /\ job' = [job EXCEPT ![n].at = step]
<1>1. job' = [job EXCEPT ![n].at = step] /\ waiting' = waiting /\ active' = active
  BY DEF JobGoto
<1>2. job' \in [Pushes -> Task]
  BY <1>1 DEF WorkerInv, Task
<1>3. InFlight' = InFlight
  BY <1>1, <1>2 DEF InFlight, WorkerInv, Task
<1>4. QueueHolds(waiting, job)'
  <2>1. \A i \in 1 .. Len(waiting) : waiting[i] # n /\ waiting[i] \in Pushes
    BY DEF WorkerInv, QueueHolds, PushSteps
  <2>. QED  BY <1>1, <2>1 DEF WorkerInv, QueueHolds
<1>. QED  BY <1>1, <1>2, <1>3, <1>4 DEF WorkerInv, NoIdleWorker

\* A task leaves its place, and the next takes it.
LEMMA TaskSettles ==
  ASSUME WorkerInv, NEW n \in Pushes, NEW place \in {"none", "timer"},
         NEW attempt \in 0 .. MaxAttempts - 1, job[n].at \in PushSteps,
         Settle(n, place, attempt)
  PROVE  /\ WorkerInv'
         /\ job'[n] = [at |-> place, attempt |-> attempt]
         /\ \A m \in Pushes \ {n} :
              \/ job'[m] = job[m]
              \/ job[m].at = "queue" /\ job'[m] = [job[m] EXCEPT !.at = "send"]
<1>. DEFINE task == [at |-> place, attempt |-> attempt]
            jobs == [job EXCEPT ![n] = task]
<1>1. /\ ProcessQueue(waiting, active - 1, jobs)
      /\ task \in Task /\ task.at \notin PushSteps \cup {"queue"}
  BY DEF Settle, Task, PushSteps
<1>. HIDE DEF task
<1>2. jobs \in [Pushes -> Task] /\ jobs[n] = task /\ \A m \in Pushes \ {n} : jobs[m] = job[m]
  BY <1>1 DEF WorkerInv
<1>3. Flying(jobs) = InFlight \ {n} /\ n \in InFlight
  BY <1>1, <1>2 DEF Flying, InFlight
<1>. DEFINE left == active - 1
<1>4. /\ IsFiniteSet(Flying(jobs)) /\ left = Cardinality(Flying(jobs))
      /\ left \in 0 .. Concurrency
  <2>. HIDE DEF jobs
  <2>1. /\ IsFiniteSet(InFlight \ {n}) /\ Cardinality(InFlight \ {n}) = active - 1
        /\ Cardinality(InFlight \ {n}) \in Nat
    BY <1>3, FS_RemoveElement, FS_CardinalityType DEF WorkerInv, NoIdleWorker
  <2>2. active \in 0 .. Concurrency /\ Concurrency \in Nat
    BY PushAssumption DEF WorkerInv
  <2>3. left \in Nat
    BY <2>1
  <2>4. left <= Concurrency
    BY <2>2
  <2>. QED  BY <1>3, <2>1, <2>2, <2>3, <2>4
<1>5. QueueHolds(waiting, jobs)
  <2>1. \A i \in 1 .. Len(waiting) : waiting[i] # n /\ waiting[i] \in Pushes
    BY DEF WorkerInv, QueueHolds, PushSteps
  <2>. QED  BY <1>2, <2>1 DEF WorkerInv, QueueHolds
<1>6. /\ ProcessQueue(waiting, left, jobs)
      /\ Len(waiting) <= 1 \/ left >= Concurrency - 1
  BY <1>1, PushAssumption DEF WorkerInv, NoIdleWorker
<1>. HIDE DEF jobs, left
<1>7. /\ WorkerInv'
      /\ \A m \in Pushes :
           \/ job'[m] = jobs[m]
           \/ jobs[m].at = "queue" /\ job'[m] = [jobs[m] EXCEPT !.at = "send"]
  <2>1. left \in 0 .. Concurrency
    BY <1>4
  <2>2. jobs \in [Pushes -> Task]
    BY <1>2
  <2>3. IsFiniteSet(Flying(jobs)) /\ left = Cardinality(Flying(jobs))
    BY <1>4
  <2>4. QueueHolds(waiting, jobs)
    BY <1>5
  <2>5. ProcessQueue(waiting, left, jobs)
    BY <1>6
  <2>6. Len(waiting) <= 1 \/ left >= Concurrency - 1
    BY <1>6
  <2>. QED BY <2>1, <2>2, <2>3, <2>4, <2>5, <2>6, Drained
<1>8. job'[n] = task
  BY <1>1, <1>2, <1>7
<1>. QED  BY <1>2, <1>7, <1>8 DEF task

\* A task is put in the queue, and started if a place is free.
LEMMA TaskQueued ==
  ASSUME WorkerInv, NEW n \in Pushes, NEW attempt \in 0 .. MaxAttempts - 1,
         job[n].at \in {"none", "timer"}, Enqueue(n, attempt)
  PROVE  /\ WorkerInv'
         /\ job'[n] \in {[at |-> "queue", attempt |-> attempt],
                         [at |-> "send", attempt |-> attempt]}
         /\ \A m \in Pushes \ {n} :
              \/ job'[m] = job[m]
              \/ job[m].at = "queue" /\ job'[m] = [job[m] EXCEPT !.at = "send"]
<1>. DEFINE task == [at |-> "queue", attempt |-> attempt]
            jobs == [job EXCEPT ![n] = task]
            queue == Append(waiting, n)
<1>1. /\ ProcessQueue(queue, active, jobs)
      /\ task \in Task /\ task.at = "queue" /\ task.at \notin PushSteps
      /\ [task EXCEPT !.at = "send"] = [at |-> "send", attempt |-> attempt]
  BY DEF Enqueue, Task, PushSteps
<1>. HIDE DEF task
<1>2. jobs \in [Pushes -> Task] /\ jobs[n] = task /\ \A m \in Pushes \ {n} : jobs[m] = job[m]
  BY <1>1 DEF WorkerInv
<1>3. Flying(jobs) = InFlight
  <2>1. n \notin InFlight
    BY DEF InFlight, PushSteps
  <2>. QED  BY <1>1, <1>2, <2>1 DEF Flying, InFlight
<1>4. /\ waiting \in Seq(Pushes) /\ Len(waiting) \in Nat /\ queue \in Seq(Pushes)
      /\ Len(queue) = Len(waiting) + 1 /\ queue[Len(waiting) + 1] = n
      /\ \A i \in 1 .. Len(waiting) : queue[i] = waiting[i]
  BY DEF WorkerInv, QueueHolds
<1>5. QueueHolds(queue, jobs)
  <2>1. \A i \in 1 .. Len(waiting) : waiting[i] # n /\ waiting[i] \in Pushes
    BY DEF WorkerInv, QueueHolds
  <2>2. \A i \in 1 .. Len(queue) : i \in 1 .. Len(waiting) \/ i = Len(waiting) + 1
    BY <1>4
  <2>. HIDE DEF queue, jobs
  <2>3. ASSUME NEW i \in 1 .. Len(queue)
        PROVE  jobs[queue[i]].at = "queue"
    <3>1. CASE i \in 1 .. Len(waiting)
      BY <1>2, <1>4, <2>1, <3>1 DEF WorkerInv, QueueHolds
    <3>2. CASE i = Len(waiting) + 1
      BY <1>1, <1>2, <1>4, <3>2
    <3>. QED  BY <2>2, <3>1, <3>2
  <2>4. ASSUME NEW i \in 1 .. Len(queue), NEW j \in 1 .. Len(queue), queue[i] = queue[j]
        PROVE  i = j
    <3>1. CASE i \in 1 .. Len(waiting) /\ j \in 1 .. Len(waiting)
      BY <1>4, <2>4, <3>1 DEF WorkerInv, QueueHolds
    <3>2. CASE i \in 1 .. Len(waiting) /\ j = Len(waiting) + 1
      BY <1>4, <2>1, <2>4, <3>2
    <3>3. CASE i = Len(waiting) + 1 /\ j \in 1 .. Len(waiting)
      BY <1>4, <2>1, <2>4, <3>3
    <3>. QED  BY <2>2, <3>1, <3>2, <3>3
  <2>. QED  BY <1>4, <2>3, <2>4 DEF QueueHolds
<1>6. Len(queue) <= 1 \/ active >= Concurrency - 1
  BY <1>4, PushAssumption DEF WorkerInv, NoIdleWorker
<1>. HIDE DEF jobs, queue
<1>7. /\ WorkerInv'
      /\ \A m \in Pushes :
           \/ job'[m] = jobs[m]
           \/ jobs[m].at = "queue" /\ job'[m] = [jobs[m] EXCEPT !.at = "send"]
  BY <1>1, <1>2, <1>3, <1>5, <1>6, Drained DEF WorkerInv, NoIdleWorker
<1>8. job'[n] = task \/ job'[n] = [task EXCEPT !.at = "send"]
  BY <1>2, <1>7
<1>. QED  BY <1>1, <1>2, <1>7, <1>8 DEF task

-----------------------------------------------------------------------------

\* Nothing is said of a task that is started.
LEMMA StartTells ==
  ASSUME NEW row, NEW task \in Task, NEW times, task.at = "queue"
  PROVE  /\ Tells(row, task, times) => Tells(row, [task EXCEPT !.at = "send"], times)
         /\ TellsTruly(row, task, times) =>
              TellsTruly(row, [task EXCEPT !.at = "send"], times)
<1>1. /\ [task EXCEPT !.at = "send"].at = "send"
      /\ [task EXCEPT !.at = "send"].attempt = task.attempt
  BY DEF Task
<1>. HIDE DEF Task
<1>2. Tells(row, task, times) => Tells(row, [task EXCEPT !.at = "send"], times)
  BY <1>1 DEF Tells
<1>3. TellsTruly(row, task, times) => TellsTruly(row, [task EXCEPT !.at = "send"], times)
  BY <1>1 DEF TellsTruly
<1>. QED  BY <1>2, <1>3

\* A step of one task that leaves the rows of the others alone.
LEMMA OneTaskTells ==
  ASSUME PushInv, WorkerInv', NEW n \in Pushes,
         \A m \in Pushes \ {n} :
           \/ job'[m] = job[m]
           \/ job[m].at = "queue" /\ job'[m] = [job[m] EXCEPT !.at = "send"],
         push' \in [Pushes -> PushRow], taken' \in [Pushes -> 0 .. MaxAttempts],
         \A m \in Pushes \ {n} : push'[m] = push[m] /\ taken'[m] = taken[m],
         subscribed' \subseteq Devices, pushFaults' \in 0 .. MaxFaults,
         pushFaults' = 0 => pushFaults = 0,
         Tells(push'[n], job'[n], taken'[n]),
         pushFaults' = 0 => TellsTruly(push'[n], job'[n], taken'[n])
  PROVE  PushInv'
<1>1. ASSUME NEW m \in Pushes, m # n
      PROVE  /\ Tells(push'[m], job'[m], taken'[m])
             /\ pushFaults' = 0 => TellsTruly(push'[m], job'[m], taken'[m])
  <2>1. /\ Tells(push[m], job[m], taken[m])
        /\ pushFaults = 0 => TellsTruly(push[m], job[m], taken[m])
        /\ job[m] \in Task
    BY DEF PushInv, RowsInv, WorkerInv
  <2>2. push'[m] = push[m] /\ taken'[m] = taken[m]
    BY <1>1
  <2>3. CASE job'[m] = job[m]
    BY <2>1, <2>2, <2>3
  <2>4. CASE job[m].at = "queue" /\ job'[m] = [job[m] EXCEPT !.at = "send"]
    BY <2>1, <2>2, <2>4, StartTells
  <2>. QED  BY <1>1, <2>3, <2>4
<1>. QED  BY <1>1 DEF PushInv, RowsInv

LEMMA PushTyped ==
  ASSUME PushInv, NEW n \in Pushes
  PROVE  /\ push[n].status \in PushStatuses /\ push[n].device \in Devices
         /\ job[n].at \in PushSteps \cup {"none", "queue", "timer"}
         /\ job[n].attempt \in 0 .. MaxAttempts - 1
         /\ taken[n] \in 0 .. MaxAttempts /\ taken[n] \in Nat /\ job[n].attempt \in Nat
         /\ MaxAttempts \in Nat /\ MaxAttempts >= 1 /\ MaxFaults \in Nat
         /\ Tells(push[n], job[n], taken[n])
         /\ pushFaults = 0 => TellsTruly(push[n], job[n], taken[n])
         /\ pushFaults \in 0 .. MaxFaults
BY PushAssumption DEF PushInv, RowsInv, WorkerInv, PushRow, Task

\* SetStatus writes one row.
LEMMA StatusSet ==
  ASSUME PushInv, NEW n \in Pushes, NEW status \in PushStatuses, SetStatus(n, status)
  PROVE  /\ push' \in [Pushes -> PushRow]
         /\ push'[n].status = status
         /\ \A m \in Pushes \ {n} : push'[m] = push[m]
<1>1. push \in [Pushes -> PushRow] /\ push' = [push EXCEPT ![n].status = status]
  BY DEF PushInv, RowsInv, SetStatus
<1>. QED  BY <1>1 DEF PushRow

LEMMA PushSends ==
  ASSUME PushInv, NEW n \in Pushes, SendPush(n)
  PROVE  PushInv'
<1>1. /\ push[n].status = "NONE" /\ SetStatus(n, "PENDING") /\ Enqueue(n, 0)
      /\ UNCHANGED <<subscribed, taken, pushFaults>>
  BY DEF SendPush
<1>2. job[n].at = "none" /\ taken[n] = 0 /\ WorkerInv /\ 0 \in 0 .. MaxAttempts - 1
  BY <1>1, PushTyped DEF Tells, PushInv
<1>3. /\ WorkerInv'
      /\ job'[n] \in {[at |-> "queue", attempt |-> 0], [at |-> "send", attempt |-> 0]}
      /\ \A m \in Pushes \ {n} :
           \/ job'[m] = job[m]
           \/ job[m].at = "queue" /\ job'[m] = [job[m] EXCEPT !.at = "send"]
  BY <1>1, <1>2, TaskQueued
<1>4. "PENDING" \in PushStatuses
  BY DEF PushStatuses
<1>5. /\ push' \in [Pushes -> PushRow] /\ push'[n].status = "PENDING"
      /\ \A m \in Pushes \ {n} : push'[m] = push[m]
  BY <1>1, <1>4, StatusSet
<1>6. /\ Tells(push'[n], job'[n], taken'[n])
      /\ TellsTruly(push'[n], job'[n], taken'[n])
  BY <1>1, <1>2, <1>3, <1>5 DEF Tells, TellsTruly
<1>. QED  BY <1>1, <1>3, <1>5, <1>6, OneTaskTells DEF PushInv, RowsInv

LEMMA PushAccepted ==
  ASSUME PushInv, NEW n \in Pushes, Accepted(n)
  PROVE  PushInv'
<1>1. /\ job[n].at = "send" /\ taken' = [taken EXCEPT ![n] = @ + 1] /\ JobGoto(n, "sent")
      /\ UNCHANGED <<subscribed, push, pushFaults>>
  BY DEF Accepted, JobAt
<1>2. WorkerInv' /\ job' = [job EXCEPT ![n].at = "sent"]
  BY <1>1, TaskGoes DEF PushInv, PushSteps
<1>3. /\ job'[n].at = "sent" /\ job'[n].attempt = job[n].attempt
      /\ \A m \in Pushes \ {n} : job'[m] = job[m]
  BY <1>2 DEF PushInv, WorkerInv, Task
<1>4. taken[n] <= job[n].attempt /\ taken \in [Pushes -> 0 .. MaxAttempts]
  BY <1>1, PushTyped DEF Tells, PushInv, RowsInv
<1>5. taken[n] + 1 \in 0 .. MaxAttempts
  BY <1>4, PushTyped
<1>6. /\ taken' \in [Pushes -> 0 .. MaxAttempts] /\ taken'[n] = taken[n] + 1
      /\ \A m \in Pushes \ {n} : taken'[m] = taken[m]
  BY <1>1, <1>4, <1>5
<1>7. Tells(push'[n], job'[n], taken'[n])
  BY <1>1, <1>3, <1>4, <1>5, <1>6, PushTyped DEF Tells
<1>8. pushFaults' = 0 => TellsTruly(push'[n], job'[n], taken'[n])
  BY <1>1, <1>3, <1>6, PushTyped DEF TellsTruly
<1>. QED  BY <1>1, <1>2, <1>3, <1>6, <1>7, <1>8, OneTaskTells DEF PushInv, RowsInv

\* A task goes on: what it is about to say of itself decides.
LEMMA TaskGoesOn ==
  ASSUME PushInv, NEW n \in Pushes, NEW step \in PushSteps, job[n].at \in PushSteps,
         JobGoto(n, step), push' \in [Pushes -> PushRow],
         \A m \in Pushes \ {n} : push'[m] = push[m],
         taken' = taken, subscribed' \subseteq Devices, pushFaults' = pushFaults,
         push'[n].status # "NONE",
         step \in {"touch", "disable", "mark", "sweep"},
         step = "touch" => job[n].at = "sent",
         pushFaults = 0 =>
           /\ step \in {"disable", "mark"} =>
                taken[n] = 0 /\ push'[n].status \in {"PENDING", "FAILED"}
           /\ step = "touch" => taken[n] = 1 /\ push'[n].status = "SENT"
           /\ step = "sweep" => taken[n] = 0 /\ push'[n].status = "FAILED"
  PROVE  PushInv'
<1>1. WorkerInv' /\ job' = [job EXCEPT ![n].at = step]
  BY TaskGoes DEF PushInv
<1>2. /\ job'[n].at = step /\ job'[n].attempt = job[n].attempt
      /\ \A m \in Pushes \ {n} : job'[m] = job[m]
  BY <1>1 DEF PushInv, WorkerInv, Task
<1>3. Tells(push'[n], job'[n], taken'[n])
  BY <1>2, PushTyped DEF Tells
<1>4. pushFaults' = 0 => TellsTruly(push'[n], job'[n], taken'[n])
  BY <1>2 DEF TellsTruly
<1>. QED  BY <1>1, <1>2, <1>3, <1>4, OneTaskTells DEF PushInv, RowsInv

\* A task leaves its place: what it says of itself then decides.
LEMMA TaskLeaves ==
  ASSUME PushInv, NEW n \in Pushes, NEW place \in {"none", "timer"},
         NEW attempt \in 0 .. MaxAttempts - 1, job[n].at \in PushSteps,
         Settle(n, place, attempt), push' = push, taken' = taken,
         subscribed' \subseteq Devices, pushFaults' \in 0 .. MaxFaults,
         pushFaults' = 0 => pushFaults = 0,
         place = "timer" => taken[n] <= attempt,
         pushFaults' = 0 =>
           /\ place = "timer" => taken[n] = 0 /\ push[n].status \in {"PENDING", "FAILED"}
           /\ place = "none" =>
                \/ push[n].status = "SENT" /\ taken[n] = 1
                \/ push[n].status = "FAILED" /\ taken[n] = 0
  PROVE  PushInv'
<1>1. /\ WorkerInv'
      /\ job'[n] = [at |-> place, attempt |-> attempt]
      /\ \A m \in Pushes \ {n} :
           \/ job'[m] = job[m]
           \/ job[m].at = "queue" /\ job'[m] = [job[m] EXCEPT !.at = "send"]
  BY TaskSettles DEF PushInv
<1>2. push[n].status # "NONE"
  BY PushTyped DEF Tells, PushSteps
<1>3. Tells(push'[n], job'[n], taken'[n])
  BY <1>1, <1>2 DEF Tells
<1>4. pushFaults' = 0 => TellsTruly(push'[n], job'[n], taken'[n])
  BY <1>1 DEF TellsTruly
<1>. QED  BY <1>1, <1>3, <1>4, OneTaskTells DEF PushInv, RowsInv

\* An error, of the push service or of the statements that follow its answer.
LEMMA Catching ==
  ASSUME PushInv, NEW n \in Pushes, job[n].at \in {"send", "sent", "touch"}, Caught(n),
         UNCHANGED <<subscribed, push, taken>>, pushFaults' \in 0 .. MaxFaults,
         pushFaults' = 0 => pushFaults = 0 /\ job[n].at = "send"
  PROVE  PushInv'
<1>1. CASE ~LastAttempt(n) /\ Settle(n, "timer", job[n].attempt + 1)
  <2>1. job[n].attempt + 1 \in 0 .. MaxAttempts - 1
    BY <1>1, PushTyped DEF LastAttempt
  <2>2. taken[n] <= job[n].attempt + 1
    BY PushTyped DEF Tells
  <2>3. pushFaults' = 0 => taken[n] = 0 /\ push[n].status \in {"PENDING", "FAILED"}
    BY PushTyped DEF TellsTruly
  <2>. QED  BY <1>1, <2>1, <2>2, <2>3, TaskLeaves DEF PushSteps, PushInv, RowsInv
<1>2. CASE JobGoto(n, "mark")
  <2>1. WorkerInv' /\ job' = [job EXCEPT ![n].at = "mark"]
    BY <1>2, TaskGoes DEF PushInv, PushSteps
  <2>2. /\ job'[n].at = "mark" /\ job'[n].attempt = job[n].attempt
        /\ \A m \in Pushes \ {n} : job'[m] = job[m]
    BY <2>1 DEF PushInv, WorkerInv, Task
  <2>3. push[n].status # "NONE"
    BY PushTyped DEF Tells
  <2>4. Tells(push'[n], job'[n], taken'[n])
    BY <2>2, <2>3 DEF Tells
  <2>5. pushFaults' = 0 => TellsTruly(push'[n], job'[n], taken'[n])
    BY <2>2, PushTyped DEF TellsTruly
  <2>. QED  BY <2>1, <2>2, <2>4, <2>5, OneTaskTells DEF PushInv, RowsInv
<1>. QED  BY <1>1, <1>2 DEF Caught

\* TimerFires puts a task back with the attempt it failed with.
LEMMA PutBack ==
  ASSUME PushInv, NEW n \in Pushes, TimerFires(n)
  PROVE  PushInv'
<1>1. /\ job[n].at = "timer" /\ Enqueue(n, job[n].attempt)
      /\ UNCHANGED <<subscribed, push, taken, pushFaults>>
  BY DEF TimerFires, JobAt
<1>2. /\ WorkerInv'
      /\ job'[n] \in {[at |-> "queue", attempt |-> job[n].attempt],
                      [at |-> "send", attempt |-> job[n].attempt]}
      /\ \A m \in Pushes \ {n} :
           \/ job'[m] = job[m]
           \/ job[m].at = "queue" /\ job'[m] = [job[m] EXCEPT !.at = "send"]
  BY <1>1, PushTyped, TaskQueued DEF PushInv
<1>3. Tells(push'[n], job'[n], taken'[n])
  BY <1>1, <1>2, PushTyped DEF Tells
<1>4. pushFaults' = 0 => TellsTruly(push'[n], job'[n], taken'[n])
  BY <1>1, <1>2, PushTyped DEF TellsTruly
<1>. QED  BY <1>1, <1>2, <1>3, <1>4, OneTaskTells DEF PushInv, RowsInv

\* What the tasks do besides sending.
LEMMA TasksGo ==
  ASSUME PushInv, NEW n \in Pushes,
         Gone(n) \/ MarkSent(n) \/ Disable(n) \/ MarkFailed(n)
  PROVE  PushInv'
<1>1. /\ push[n].status \in {"PENDING", "SENT", "FAILED"} \/ job[n].at = "none"
      /\ push \in [Pushes -> PushRow] /\ subscribed \subseteq Devices
  BY PushTyped DEF Tells, PushInv, RowsInv, PushStatuses
<1>2. CASE Gone(n)
  <2>1. /\ job[n].at = "send" /\ JobGoto(n, "disable")
        /\ UNCHANGED <<subscribed, push, taken, pushFaults>>
    BY <1>2 DEF Gone, JobAt
  <2>2. pushFaults = 0 => taken[n] = 0 /\ push[n].status \in {"PENDING", "FAILED"}
    BY <2>1, PushTyped DEF TellsTruly
  <2>. QED  BY <1>1, <2>1, <2>2, TaskGoesOn DEF PushSteps
<1>3. CASE MarkSent(n)
  <2>1. /\ job[n].at = "sent" /\ JobGoto(n, "touch") /\ SetStatus(n, "SENT")
        /\ UNCHANGED <<subscribed, taken, pushFaults>>
    BY <1>3 DEF MarkSent, JobAt
  <2>2. pushFaults = 0 => taken[n] = 1
    BY <2>1, PushTyped DEF TellsTruly
  <2>3. /\ push' \in [Pushes -> PushRow] /\ push'[n].status = "SENT"
        /\ \A m \in Pushes \ {n} : push'[m] = push[m]
    BY <2>1, StatusSet DEF PushStatuses
  <2>. QED  BY <1>1, <2>1, <2>2, <2>3, TaskGoesOn DEF PushSteps
<1>4. CASE Disable(n)
  <2>1. /\ job[n].at = "disable" /\ JobGoto(n, "mark") /\ subscribed' \subseteq Devices
        /\ UNCHANGED <<push, taken, pushFaults>>
    BY <1>1, <1>4 DEF Disable, JobAt
  <2>2. pushFaults = 0 => taken[n] = 0 /\ push[n].status \in {"PENDING", "FAILED"}
    BY <2>1, PushTyped DEF TellsTruly
  <2>. QED  BY <1>1, <2>1, <2>2, TaskGoesOn DEF PushSteps
<1>5. CASE MarkFailed(n)
  <2>1. /\ job[n].at = "mark" /\ JobGoto(n, "sweep") /\ SetStatus(n, "FAILED")
        /\ UNCHANGED <<subscribed, taken, pushFaults>>
    BY <1>5 DEF MarkFailed, JobAt
  <2>2. pushFaults = 0 => taken[n] = 0
    BY <2>1, PushTyped DEF TellsTruly
  <2>3. /\ push' \in [Pushes -> PushRow] /\ push'[n].status = "FAILED"
        /\ \A m \in Pushes \ {n} : push'[m] = push[m]
    BY <2>1, StatusSet DEF PushStatuses
  <2>. QED  BY <1>1, <2>1, <2>2, <2>3, TaskGoesOn DEF PushSteps
<1>. QED  BY <1>2, <1>3, <1>4, <1>5

LEMMA TouchEnds ==
  ASSUME PushInv, NEW n \in Pushes, Touch(n)
  PROVE  PushInv'
<1>1. /\ job[n].at = "touch" /\ Settle(n, "none", 0)
      /\ UNCHANGED <<subscribed, push, taken, pushFaults>>
  BY DEF Touch, Finish, JobAt
<1>2. 0 \in 0 .. MaxAttempts - 1 /\ pushFaults' \in 0 .. MaxFaults
  BY <1>1, PushTyped
<1>3. pushFaults = 0 => push[n].status = "SENT" /\ taken[n] = 1
  BY <1>1, PushTyped DEF TellsTruly
<1>. QED  BY <1>1, <1>2, <1>3, TaskLeaves DEF PushSteps, PushInv, RowsInv

\* FailPendingOf fails rows of the other tasks too, none that has been told.
LEMMA Sweeping ==
  ASSUME PushInv, NEW n \in Pushes, SweepPending(n)
  PROVE  PushInv'
<1>. DEFINE d == push[n].device
<1>1. /\ job[n].at = "sweep" /\ Settle(n, "none", 0) /\ FailPendingOf(d)
      /\ UNCHANGED <<subscribed, taken, pushFaults>>
  BY DEF SweepPending, Finish, JobAt
<1>2. 0 \in 0 .. MaxAttempts - 1 /\ pushFaults' \in 0 .. MaxFaults /\ WorkerInv /\ RowsInv
  BY <1>1, PushTyped DEF PushInv
<1>3. /\ WorkerInv'
      /\ job'[n] = [at |-> "none", attempt |-> 0]
      /\ \A m \in Pushes \ {n} :
           \/ job'[m] = job[m]
           \/ job[m].at = "queue" /\ job'[m] = [job[m] EXCEPT !.at = "send"]
  BY <1>1, <1>2, TaskSettles DEF PushSteps
<1>4. \A m \in Pushes :
        /\ push'[m] \in PushRow
        /\ \/ push'[m] = push[m]
           \/ push[m].status = "PENDING" /\ push'[m].status = "FAILED"
  BY <1>1, <1>2 DEF FailPendingOf, RowsInv, PushRow, PushStatuses
<1>5. push' \in [Pushes -> PushRow]
  <2>1. push' = [m \in Pushes |-> push'[m]]
    BY <1>1 DEF FailPendingOf
  <2>. QED  BY <1>4, <2>1
<1>6. ASSUME NEW m \in Pushes
      PROVE  /\ Tells(push'[m], job[m], taken[m])
             /\ m # n /\ pushFaults = 0 => TellsTruly(push'[m], job[m], taken[m])
  <2>1. Tells(push[m], job[m], taken[m]) /\ (pushFaults = 0 => TellsTruly(push[m], job[m], taken[m]))
    BY PushTyped
  <2>2. CASE push'[m] = push[m]
    BY <2>1, <2>2
  <2>3. CASE push[m].status = "PENDING" /\ push'[m].status = "FAILED"
    BY <2>1, <2>3 DEF Tells, TellsTruly
  <2>. QED  BY <1>4, <2>2, <2>3
<1>7. ASSUME NEW m \in Pushes, m # n
      PROVE  /\ Tells(push'[m], job'[m], taken[m])
             /\ pushFaults = 0 => TellsTruly(push'[m], job'[m], taken[m])
  <2>1. CASE job'[m] = job[m]
    BY <1>6, <1>7, <2>1
  <2>2. CASE job[m].at = "queue" /\ job'[m] = [job[m] EXCEPT !.at = "send"]
    <3>1. job[m] \in Task
      BY <1>2 DEF WorkerInv
    <3>. QED  BY <1>6, <1>7, <2>2, <3>1, StartTells
  <2>. QED  BY <1>3, <1>7, <2>1, <2>2
<1>8. /\ Tells(push'[n], job'[n], taken[n])
      /\ pushFaults = 0 => TellsTruly(push'[n], job'[n], taken[n])
  <2>1. push[n].status # "NONE" /\ (pushFaults = 0 => push[n].status = "FAILED" /\ taken[n] = 0)
    BY <1>1, PushTyped DEF Tells, TellsTruly
  <2>2. push'[n].status # "NONE" /\ (pushFaults = 0 => push'[n].status = "FAILED")
    BY <1>4, <2>1
  <2>. QED  BY <1>3, <2>1, <2>2 DEF Tells, TellsTruly
<1>. QED  BY <1>1, <1>2, <1>3, <1>5, <1>7, <1>8 DEF PushInv, RowsInv

LEMMA StoreFailing ==
  ASSUME PushInv, NEW n \in Pushes, StoreFails(n)
  PROVE  PushInv'
<1>1. /\ UNCHANGED <<subscribed, push, taken>> /\ pushFaults' \in 0 .. MaxFaults
      /\ pushFaults' # 0
  BY PushTyped DEF StoreFails
<1>2. CASE job[n].at \in {"sent", "touch"} /\ Caught(n)
  BY <1>1, <1>2, Catching
<1>3. CASE job[n].at \in {"disable", "mark", "sweep"} /\ Finish(n)
  <2>1. Settle(n, "none", 0) /\ 0 \in 0 .. MaxAttempts - 1
    BY <1>3, PushTyped DEF Finish
  <2>. QED  BY <1>1, <1>3, <2>1, TaskLeaves DEF PushSteps, PushInv, RowsInv
<1>. QED  BY <1>2, <1>3 DEF StoreFails

LEMMA Stopping ==
  ASSUME PushInv, ServerStops
  PROVE  PushInv'
<1>1. /\ waiting' = <<>> /\ active' = 0
      /\ job' = [n \in Pushes |-> [at |-> "none", attempt |-> 0]]
      /\ UNCHANGED <<subscribed, push, taken>>
  BY DEF ServerStops
<1>2. pushFaults' \in 0 .. MaxFaults /\ pushFaults' # 0
  <2>1. pushFaults \in 0 .. MaxFaults /\ MaxFaults \in Nat
    BY PushAssumption DEF PushInv, RowsInv
  <2>. QED  BY <2>1 DEF ServerStops
<1>3. InFlight' = {}
  BY <1>1 DEF InFlight, PushSteps
<1>4. WorkerInv'
  <2>1. QueueHolds(waiting, job)'
    BY <1>1 DEF QueueHolds
  <2>2. IsFiniteSet(InFlight') /\ Cardinality(InFlight') = 0
    BY <1>3, FS_EmptySet
  <2>3. job' \in [Pushes -> Task]
    BY <1>1, PushAssumption DEF Task
  <2>. QED  BY <1>1, <2>1, <2>2, <2>3, PushAssumption DEF WorkerInv, NoIdleWorker
<1>5. \A n \in Pushes : Tells(push'[n], job'[n], taken'[n])
  BY <1>1, PushTyped DEF Tells
<1>. QED  BY <1>1, <1>2, <1>4, <1>5 DEF PushInv, RowsInv

LEMMA PushStepsPreserve == PushInv /\ [PushNext]_pushVars => PushInv'
<1>. SUFFICES ASSUME PushInv, [PushNext]_pushVars
              PROVE  PushInv'
  OBVIOUS
<1>1. CASE \E n \in Pushes : SendPush(n) \/ PushTask(n) \/ StoreFails(n)
  <2>1. PICK n \in Pushes : SendPush(n) \/ PushTask(n) \/ StoreFails(n)
    BY <1>1
  <2>2. CASE SendPush(n)
    BY <2>2, PushSends
  <2>3. CASE Accepted(n)
    BY <2>3, PushAccepted
  <2>4. CASE SendFails(n)
    <3>1. /\ job[n].at = "send" /\ Caught(n) /\ pushFaults' = pushFaults
          /\ UNCHANGED <<subscribed, push, taken>>
      BY <2>4 DEF SendFails, JobAt
    <3>. QED  BY <3>1, PushTyped, Catching
  <2>5. CASE TimerFires(n)
    BY <2>5, PutBack
  <2>6. CASE Gone(n) \/ MarkSent(n) \/ Disable(n) \/ MarkFailed(n)
    BY <2>6, TasksGo
  <2>7. CASE Touch(n)
    BY <2>7, TouchEnds
  <2>8. CASE SweepPending(n)
    BY <2>8, Sweeping
  <2>9. CASE StoreFails(n)
    BY <2>9, StoreFailing
  <2>. QED  BY <2>1, <2>2, <2>3, <2>4, <2>5, <2>6, <2>7, <2>8, <2>9 DEF PushTask
<1>2. CASE \E d \in Devices : SubscribeDevice(d) \/ UnsubscribeDevice(d)
  <2>1. PICK d \in Devices : SubscribeDevice(d) \/ UnsubscribeDevice(d)
    BY <1>2
  <2>2. UNCHANGED <<push, waiting, active, job, taken, pushFaults>> /\ subscribed' \subseteq Devices
    BY <2>1 DEF SubscribeDevice, UnsubscribeDevice, PushInv, RowsInv
  <2>. QED  BY <2>2 DEF PushInv, RowsInv, WorkerInv, NoIdleWorker, InFlight
<1>3. CASE ServerStops
  BY <1>3, Stopping
<1>4. CASE UNCHANGED pushVars
  BY <1>4 DEF pushVars, PushInv, RowsInv, WorkerInv, NoIdleWorker, InFlight
<1>. QED  BY <1>1, <1>2, <1>3, <1>4 DEF PushNext

\* The tasks in the queue, the counter of the tasks in flight and the rows of
\* push_notifications agree at every step of the worker.
THEOREM PushInvariant == PushSpec => []PushInv
BY PushInitHolds, PushStepsPreserve, PTL DEF PushSpec

\* Whatever number of pushes, of places and of attempts: the counter of
\* pushDeliveryWorker.ts is the number of tasks in flight, and no task waits
\* beside a free place.
THEOREM WorkerNeverIdle == PushSpec => []NoIdleWorker
<1>1. PushInv => NoIdleWorker
  BY DEF PushInv, WorkerInv
<1>. QED  BY <1>1, PushInvariant, PTL

\* A task that is over has told the truth of its push in push_notifications,
\* however the tasks of one device cross.
THEOREM DeliveryTold == PushSpec => []StatusTellsDelivery
<1>1. PushInv => StatusTellsDelivery
  BY DEF PushInv, RowsInv, TellsTruly, StatusTellsDelivery, JobAt
<1>. QED  BY <1>1, PushInvariant, PTL

\* The worker keeps to its places and a task to its attempts: the push service
\* takes a push at most PUSH_WORKER_MAX_RETRIES times.
THEOREM PushTypeCorrect == PushSpec => []PushTypeOK
<1>1. PushInv => PushTypeOK
  BY DEF PushInv, RowsInv, WorkerInv, QueueHolds, PushTypeOK, PushRow, Task
<1>. QED  BY <1>1, PushInvariant, PTL

-----------------------------------------------------------------------------
(* The parts side by side *)

\* What runs behind the requests runs apart: reminders, pushes and cache keep
\* their invariants next to each other, and with them what is stored its types.
THEOREM BackgroundTypeCorrect == BackgroundSpec => []BackgroundTypeOK
<1>1. BackgroundInit => TypeOK /\ PushInv /\ CacheInv
  BY InitType, PushInitHolds, CacheInitHolds DEF BackgroundInit
<1>2. [BackgroundNext]_Background => [Next]_vars /\ [PushNext]_pushVars /\ [CacheNext]_cacheVars
  BY DEF BackgroundNext, Background
<1>3. TypeOK /\ [Next]_vars => TypeOK'
  BY NextType
<1>4. CacheInv /\ [CacheNext]_cacheVars => CacheInv'
  BY CacheStepsPreserve
<1>5. PushInv /\ CacheInv => PushTypeOK /\ CacheTypeOK
  BY DEF PushInv, RowsInv, WorkerInv, QueueHolds, PushTypeOK, PushRow, Task, CacheInv
<1>6. TypeOK /\ PushTypeOK /\ CacheTypeOK => BackgroundTypeOK
  BY DEF BackgroundTypeOK
<1>. QED  BY <1>1, <1>2, <1>3, <1>4, <1>5, <1>6, PushStepsPreserve, PTL DEF BackgroundSpec
=============================================================================
