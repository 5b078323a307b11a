---------------------------- MODULE PlatformProofs ----------------------------
(***************************************************************************)
(* Proofs about what the businesses share: SmsUsage, Permissions, Team and *)
(* Verification, for every number of senders, instances, managers and      *)
(* requests.  The four share no state; each has an inductive invariant of  *)
(* its own.  They close with these, the reminders, the customers and the   *)
(* sessions side by side, as MCPlatform runs them.                         *)
(***************************************************************************)
EXTENDS MCPlatform, SessionsProofs, UserBehaviorProofs, FiniteSetTheorems, TLAPS

-----------------------------------------------------------------------------
(* Text messages *)

SendersAt(f, place) == {w \in Senders : f[w] = place}
AtSend == Cardinality(SendersAt(sender, "send"))
AtCount == Cardinality(SendersAt(sender, "count"))
AllSenders == Cardinality(Senders)

SenderPlaces == {"idle", "send", "count"}

\* What was sent is counted, lost or about to be counted; who may send found
\* room, and takes no more than its own place.
SmsInv ==
  /\ smssSent \in Nat /\ delivered \in Nat /\ uncounted \in 0 .. MaxLost
  /\ sender \in [Senders -> SenderPlaces]
  /\ delivered <= smssSent + uncounted + AtCount
  /\ delivered + AtSend <= SmsQuota + uncounted + AllSenders - 1
  /\ smssSent + AtSend + AtCount <= SmsQuota + AllSenders - 1
  /\ SmsQuota = 0 => AtSend + AtCount = 0

LEMMA SmsConstants ==
  AllSenders \in Nat /\ AllSenders >= 1 /\ SmsQuota \in Nat /\ MaxLost \in Nat
<1>1. IsFiniteSet(Senders) /\ Senders # {} /\ SmsQuota \in Nat /\ MaxLost \in Nat
  BY SmsAssumption
<1>2. AllSenders \in Nat /\ AllSenders # 0
  BY <1>1, FS_CardinalityType, FS_EmptySet DEF AllSenders
<1>. QED  BY <1>1, <1>2

\* No sender is in two places.
LEMMA SenderCounts ==
  ASSUME NEW f
  PROVE  /\ IsFiniteSet(SendersAt(f, "send")) /\ IsFiniteSet(SendersAt(f, "count"))
         /\ Cardinality(SendersAt(f, "send")) \in Nat /\ Cardinality(SendersAt(f, "count")) \in Nat
         /\ Cardinality(SendersAt(f, "send")) + Cardinality(SendersAt(f, "count")) <= AllSenders
<1>. DEFINE S == SendersAt(f, "send")
            T == SendersAt(f, "count")
<1>1. S \subseteq Senders /\ T \subseteq Senders /\ S \cap T = {}
  BY DEF SendersAt
<1>. HIDE DEF S, T
<1>2. IsFiniteSet(S) /\ IsFiniteSet(T)
  BY <1>1, SmsAssumption, FS_Subset
<1>3. Cardinality(S) \in Nat /\ Cardinality(T) \in Nat
  BY <1>2, FS_CardinalityType
<1>4. Cardinality(S \cup T) = Cardinality(S) + Cardinality(T) - Cardinality(S \cap T)
  BY <1>2, FS_Union
<1>5. Cardinality(S \cap T) = 0
  BY <1>1, FS_EmptySet
<1>6. Cardinality(S \cup T) <= AllSenders
  <2>1. S \cup T \in SUBSET Senders
    BY <1>1
  <2>. QED  BY <2>1, SmsAssumption, FS_Subset DEF AllSenders
<1>7. Cardinality(S) + Cardinality(T) <= AllSenders
  BY <1>3, <1>4, <1>5, <1>6, SmsConstants
<1>. QED  BY <1>2, <1>3, <1>7 DEF S, T

LEMMA SenderCountsNow ==
  /\ AllSenders \in Nat /\ AllSenders >= 1 /\ SmsQuota \in Nat /\ MaxLost \in Nat
  /\ AtSend \in Nat /\ AtCount \in Nat /\ AtSend + AtCount <= AllSenders
BY SmsConstants, SenderCounts DEF AtSend, AtCount

\* A step of one sender takes it from one count to the other.
LEMMA SenderMoves ==
  ASSUME sender \in [Senders -> SenderPlaces], NEW w \in Senders,
         NEW from \in SenderPlaces, NEW to \in SenderPlaces, from # to, SenderStep(w, from, to)
  PROVE  /\ sender' \in [Senders -> SenderPlaces]
         /\ AtSend' = AtSend + (IF to = "send" THEN 1 ELSE 0) - (IF from = "send" THEN 1 ELSE 0)
         /\ AtCount' = AtCount + (IF to = "count" THEN 1 ELSE 0) - (IF from = "count" THEN 1 ELSE 0)
<1>1. /\ sender[w] = from /\ sender' = [sender EXCEPT ![w] = to]
      /\ sender' \in [Senders -> SenderPlaces]
  BY DEF SenderStep
<1>2. ASSUME NEW place \in SenderPlaces, IsFiniteSet(SendersAt(sender, place)),
             Cardinality(SendersAt(sender, place)) \in Nat
      PROVE  Cardinality(SendersAt(sender', place))
               = Cardinality(SendersAt(sender, place)) + (IF to = place THEN 1 ELSE 0)
                 - (IF from = place THEN 1 ELSE 0)
  <2>. DEFINE S == SendersAt(sender, place)
  <2>1. CASE to = place
    <3>1. SendersAt(sender', place) = S \cup {w} /\ w \notin S
      BY <1>1, <2>1 DEF SendersAt
    <3>. HIDE DEF S
    <3>2. IsFiniteSet(S) /\ Cardinality(S) \in Nat
      BY <1>2 DEF S
    <3>3. Cardinality(S \cup {w}) = Cardinality(S) + 1
      BY <3>1, <3>2, FS_AddElement
    <3>. QED  BY <2>1, <3>1, <3>2, <3>3 DEF S
  <2>2. CASE from = place
    <3>1. SendersAt(sender', place) = S \ {w} /\ w \in S
      BY <1>1, <2>2 DEF SendersAt
    <3>. HIDE DEF S
    <3>2. IsFiniteSet(S) /\ Cardinality(S) \in Nat
      BY <1>2 DEF S
    <3>3. Cardinality(S \ {w}) = Cardinality(S) - 1
      BY <3>1, <3>2, FS_RemoveElement
    <3>. QED  BY <2>2, <3>1, <3>2, <3>3 DEF S
  <2>3. CASE to # place /\ from # place
    <3>1. SendersAt(sender', place) = S
      BY <1>1, <2>3 DEF SendersAt
    <3>. QED  BY <1>2, <2>3, <3>1
  <2>. QED  BY <2>1, <2>2, <2>3
<1>3. "send" \in SenderPlaces /\ "count" \in SenderPlaces
  BY DEF SenderPlaces
<1>. QED  BY <1>1, <1>2, <1>3, SenderCounts DEF AtSend, AtCount

LEMMA SmsInitHolds == SmsInit => SmsInv
<1>. SUFFICES ASSUME SmsInit
              PROVE  SmsInv
  OBVIOUS
<1>1. SendersAt(sender, "send") = {} /\ SendersAt(sender, "count") = {}
  BY DEF SmsInit, SendersAt
<1>2. AtSend = 0 /\ AtCount = 0
  BY <1>1, FS_EmptySet DEF AtSend, AtCount
<1>. QED  BY <1>2, SenderCountsNow DEF SmsInv, SmsInit, SenderPlaces

LEMMA SmsStepsPreserve ==
  ASSUME SmsInv, [SmsNext]_smsVars
  PROVE  SmsInv'
<1>1. /\ AllSenders \in Nat /\ AllSenders >= 1 /\ SmsQuota \in Nat /\ MaxLost \in Nat
      /\ AtSend \in Nat /\ AtCount \in Nat /\ AtSend + AtCount <= AllSenders
  BY SenderCountsNow
<1>2. /\ smssSent \in Nat /\ delivered \in Nat /\ uncounted \in 0 .. MaxLost
      /\ sender \in [Senders -> SenderPlaces]
      /\ delivered <= smssSent + uncounted + AtCount
      /\ delivered + AtSend <= SmsQuota + uncounted + AllSenders - 1
      /\ smssSent + AtSend + AtCount <= SmsQuota + AllSenders - 1
      /\ SmsQuota = 0 => AtSend + AtCount = 0
  BY DEF SmsInv
<1>3. AllSenders' = AllSenders
  BY DEF AllSenders
<1>4. AtSend' \in Nat /\ AtCount' \in Nat /\ AtSend' + AtCount' <= AllSenders
  BY <1>3, SenderCounts DEF AtSend, AtCount
<1>5. {"idle", "send", "count"} \subseteq SenderPlaces
  BY DEF SenderPlaces
<1>6. ASSUME NEW w \in Senders, CanSendSms(w)
      PROVE  SmsInv'
  <2>1. /\ AtSend' = AtSend + 1 /\ AtCount' = AtCount
        /\ sender' \in [Senders -> SenderPlaces]
    BY <1>1, <1>2, <1>5, <1>6, SenderMoves DEF CanSendSms
  <2>2. smssSent < SmsQuota /\ UNCHANGED <<smssSent, delivered, uncounted>>
    BY <1>6 DEF CanSendSms
  <2>. QED  BY <1>1, <1>2, <1>3, <1>4, <2>1, <2>2 DEF SmsInv
<1>7. ASSUME NEW w \in Senders, SmsSent(w)
      PROVE  SmsInv'
  <2>1. /\ AtSend' = AtSend - 1 /\ AtCount' = AtCount + 1
        /\ sender' \in [Senders -> SenderPlaces]
    BY <1>1, <1>2, <1>5, <1>7, SenderMoves DEF SmsSent
  <2>2. delivered' = delivered + 1 /\ UNCHANGED <<smssSent, uncounted>>
    BY <1>7 DEF SmsSent
  <2>. QED  BY <1>1, <1>2, <1>3, <1>4, <2>1, <2>2 DEF SmsInv
<1>8. ASSUME NEW w \in Senders, SmsRefused(w)
      PROVE  SmsInv'
  <2>1. /\ AtSend' = AtSend - 1 /\ AtCount' = AtCount
        /\ sender' \in [Senders -> SenderPlaces]
    BY <1>1, <1>2, <1>5, <1>8, SenderMoves DEF SmsRefused
  <2>2. UNCHANGED <<smssSent, delivered, uncounted>>
    BY <1>8 DEF SmsRefused
  <2>. QED  BY <1>1, <1>2, <1>3, <1>4, <2>1, <2>2 DEF SmsInv
<1>9. ASSUME NEW w \in Senders, RecordSmsUsage(w)
      PROVE  SmsInv'
  <2>1. /\ AtSend' = AtSend /\ AtCount' = AtCount - 1
        /\ sender' \in [Senders -> SenderPlaces]
    BY <1>1, <1>2, <1>5, <1>9, SenderMoves DEF RecordSmsUsage
  <2>2. smssSent' = smssSent + 1 /\ UNCHANGED <<delivered, uncounted>>
    BY <1>9 DEF RecordSmsUsage
  <2>. QED  BY <1>1, <1>2, <1>3, <1>4, <2>1, <2>2 DEF SmsInv
<1>10. ASSUME NEW w \in Senders, RecordLost(w)
       PROVE  SmsInv'
  <2>1. /\ AtSend' = AtSend /\ AtCount' = AtCount - 1
        /\ sender' \in [Senders -> SenderPlaces]
    BY <1>1, <1>2, <1>5, <1>10, SenderMoves DEF RecordLost
  <2>2. uncounted' = uncounted + 1 /\ uncounted < MaxLost /\ UNCHANGED <<smssSent, delivered>>
    BY <1>10 DEF RecordLost
  <2>. QED  BY <1>1, <1>2, <1>3, <1>4, <2>1, <2>2 DEF SmsInv
<1>11. ASSUME UNCHANGED sender
       PROVE  AtSend' = AtSend /\ AtCount' = AtCount
  BY <1>11 DEF AtSend, AtCount, SendersAt
<1>12. CASE NewMonth
  BY <1>1, <1>2, <1>3, <1>11, <1>12 DEF SmsInv, NewMonth
<1>13. CASE UNCHANGED smsVars
  BY <1>1, <1>2, <1>3, <1>11, <1>13 DEF SmsInv, smsVars
<1>. QED
  BY <1>6, <1>7, <1>8, <1>9, <1>10, <1>12, <1>13 DEF SmsNext

\* The inductive invariant: what was sent is counted, lost or about to be.
THEOREM SmsInvariant == SmsSpec => []SmsInv
<1>1. SmsInit => SmsInv
  BY SmsInitHolds
<1>2. SmsInv /\ [SmsNext]_smsVars => SmsInv'
  BY SmsStepsPreserve
<1>. QED  BY <1>1, <1>2, PTL DEF SmsSpec

\* The count in the usage row passes the quota by no more than the senders
\* that had asked before (usageService.ts, canSendSms).
THEOREM SmsTypeCorrect == SmsSpec => []SmsTypeOK
<1>1. SmsInv => SmsTypeOK
  BY SenderCountsNow DEF SmsInv, SmsTypeOK, SenderPlaces, AllSenders
<1>. QED  BY <1>1, SmsInvariant, PTL

\* For any number of senders on any number of instances, and across the turn
\* of a month, a business sends its quota, one message for every other sender,
\* and those that were never counted.
THEOREM QuotaKept == SmsSpec => []SmsWithinQuota
<1>1. SmsInv => SmsWithinQuota
  BY SenderCountsNow DEF SmsInv, SmsWithinQuota, AllSenders
<1>. QED  BY <1>1, SmsInvariant, PTL

-----------------------------------------------------------------------------
(* Permissions *)

UnderWay(l) == load[l].at # "idle"
Waiting(q) == asker[q].at # "idle"

LoadRow == [at : {"read", "store"}, on : Instances, of : Versions \cup {Nothing},
            since : Versions]
AskerRow == [at : {"wait"}, of : Loads, since : Versions]

\* An instance has cleared, and a load has begun, with roles that exist; what a
\* load has read is no older than its beginning.
ReadsAreLater ==
  /\ \A i \in Instances : cleared[i] <= roles
  /\ \A l \in Loads : UnderWay(l) => load[l].since <= roles
  /\ \A l \in Loads : load[l].at = "store" => load[l].of = Nothing \/ load[l].of >= load[l].since

\* The load that new requests join has begun since the instance last cleared.
JoinsAreCurrent ==
  \A i \in Instances : inFlight[i] # NoLoad =>
    /\ UnderWay(inFlight[i])
    /\ load[inFlight[i]].on = i
    /\ load[inFlight[i]].since = cleared[i]

\* Who waits, waits for a load that goes on and began late enough for him.
WaitsAreCurrent ==
  \A q \in Askers : Waiting(q) =>
    /\ UnderWay(asker[q].of)
    /\ load[asker[q].of].since >= asker[q].since

EntriesAreCurrent ==
  \A i \in Instances \ overrun : known[i] \in {NoEntry, Nothing} \/ known[i] >= cleared[i]

PermissionInv ==
  PermissionTypeOK /\ ReadsAreLater /\ JoinsAreCurrent /\ WaitsAreCurrent /\ EntriesAreCurrent

LEMMA PermissionsTyped ==
  ASSUME PermissionTypeOK
  PROVE  /\ roles \in Versions /\ Versions \subseteq Nat
         /\ known \in [Instances -> Versions \cup {NoEntry, Nothing}]
         /\ inFlight \in [Instances -> Loads \cup {NoLoad}]
         /\ load \in [Loads -> {IdleLoad} \cup LoadRow]
         /\ asker \in [Askers -> {NotAsking} \cup AskerRow]
         /\ cleared \in [Instances -> Versions]
         /\ overrun \subseteq Instances
         /\ \A l \in Loads : UnderWay(l) <=> load[l] \in LoadRow
         /\ \A l \in Loads : ~UnderWay(l) <=> load[l] = IdleLoad
         /\ \A q \in Askers : Waiting(q) <=> asker[q] \in AskerRow
         /\ \A q \in Askers : ~Waiting(q) <=> asker[q] = NotAsking
<1>1. /\ roles \in Versions /\ Versions \subseteq Nat
      /\ known \in [Instances -> Versions \cup {NoEntry, Nothing}]
      /\ inFlight \in [Instances -> Loads \cup {NoLoad}]
      /\ load \in [Loads -> {IdleLoad} \cup LoadRow]
      /\ asker \in [Askers -> {NotAsking} \cup AskerRow]
      /\ cleared \in [Instances -> Versions]
      /\ overrun \subseteq Instances
  BY PermissionAssumption DEF PermissionTypeOK, LoadRow, AskerRow, Versions
<1>2. \A l \in Loads : /\ UnderWay(l) <=> load[l] \in LoadRow
                       /\ ~UnderWay(l) <=> load[l] = IdleLoad
  BY <1>1 DEF UnderWay, IdleLoad, LoadRow
<1>3. \A q \in Askers : /\ Waiting(q) <=> asker[q] \in AskerRow
                        /\ ~Waiting(q) <=> asker[q] = NotAsking
  BY <1>1 DEF Waiting, NotAsking, AskerRow
<1>. QED  BY <1>1, <1>2, <1>3

LEMMA PermissionInitHolds == PermissionInit => PermissionInv
<1>. SUFFICES ASSUME PermissionInit PROVE PermissionInv
  OBVIOUS
<1>1. PermissionTypeOK
  BY PermissionAssumption DEF PermissionInit, PermissionTypeOK, Versions
<1>2. ReadsAreLater
  BY PermissionAssumption DEF PermissionInit, ReadsAreLater, UnderWay, IdleLoad
<1>3. JoinsAreCurrent /\ WaitsAreCurrent /\ EntriesAreCurrent
  BY DEF PermissionInit, JoinsAreCurrent, WaitsAreCurrent, EntriesAreCurrent, Waiting, NotAsking
<1>. QED  BY <1>1, <1>2, <1>3 DEF PermissionInv

-----------------------------------------------------------------------------

LEMMA Changing ==
  ASSUME PermissionInv, ChangeRoles
  PROVE  PermissionInv'
<1>1. roles \in Nat /\ roles < MaxChanges /\ roles' = roles + 1 /\ MaxChanges \in Nat
  BY PermissionsTyped, PermissionAssumption DEF PermissionInv, ChangeRoles
<1>2. PermissionTypeOK'
  BY <1>1 DEF PermissionInv, PermissionTypeOK, ChangeRoles, Versions
<1>3. \A i \in Instances : cleared[i] \in Nat
  BY PermissionsTyped DEF PermissionInv
<1>4. \A l \in Loads : UnderWay(l) => load[l].since \in Nat
  BY PermissionsTyped DEF PermissionInv, LoadRow
<1>5. ReadsAreLater'
  BY <1>1, <1>3, <1>4 DEF PermissionInv, ReadsAreLater, ChangeRoles, UnderWay
<1>6. JoinsAreCurrent' /\ WaitsAreCurrent' /\ EntriesAreCurrent'
  BY DEF PermissionInv, JoinsAreCurrent, WaitsAreCurrent, EntriesAreCurrent, ChangeRoles,
         UnderWay, Waiting
<1>. QED  BY <1>2, <1>5, <1>6 DEF PermissionInv

LEMMA Clearing ==
  ASSUME PermissionInv, NEW i \in Instances, ClearUser(i)
  PROVE  PermissionInv'
<1>1. PermissionTypeOK'
  BY DEF PermissionInv, PermissionTypeOK, ClearUser, Versions
<1>2. ReadsAreLater'
  BY PermissionsTyped DEF PermissionInv, ReadsAreLater, ClearUser, UnderWay
<1>3. JoinsAreCurrent'
  BY PermissionsTyped DEF PermissionInv, JoinsAreCurrent, ClearUser, UnderWay
<1>4. WaitsAreCurrent'
  BY DEF PermissionInv, WaitsAreCurrent, ClearUser, UnderWay, Waiting
<1>5. EntriesAreCurrent'
  BY PermissionsTyped DEF PermissionInv, EntriesAreCurrent, ClearUser
<1>. QED  BY <1>1, <1>2, <1>3, <1>4, <1>5 DEF PermissionInv

LEMMA Forgetting ==
  ASSUME PermissionInv, NEW i \in Instances, Forget(i)
  PROVE  PermissionInv'
<1>1. PermissionTypeOK'
  BY DEF PermissionInv, PermissionTypeOK, Forget
<1>2. ReadsAreLater' /\ JoinsAreCurrent' /\ WaitsAreCurrent'
  BY DEF PermissionInv, ReadsAreLater, JoinsAreCurrent, WaitsAreCurrent, Forget, UnderWay,
         Waiting
<1>3. EntriesAreCurrent'
  BY PermissionsTyped DEF PermissionInv, EntriesAreCurrent, Forget
<1>. QED  BY <1>1, <1>2, <1>3 DEF PermissionInv

\* A request that joins, or begins, a load of the instance.
LEMMA Asking ==
  ASSUME PermissionInv, NEW q \in Askers, NEW i \in Instances, AskRoles(q, i)
  PROVE  PermissionInv'
<1>1. /\ load \in [Loads -> {IdleLoad} \cup LoadRow]
      /\ asker \in [Askers -> {NotAsking} \cup AskerRow]
      /\ inFlight \in [Instances -> Loads \cup {NoLoad}]
      /\ cleared \in [Instances -> Versions] /\ Versions \subseteq Nat /\ roles \in Versions
  BY PermissionsTyped DEF PermissionInv
<1>2. EntriesAreCurrent'
  BY DEF PermissionInv, EntriesAreCurrent, AskRoles
<1>3. CASE /\ inFlight[i] # NoLoad
           /\ WaitFor(q, inFlight[i], i)
           /\ UNCHANGED <<inFlight, load>>
  <2>1. inFlight[i] \in Loads
    BY <1>1, <1>3
  <2>2. asker' = [asker EXCEPT ![q] = [at |-> "wait", of |-> inFlight[i], since |-> cleared[i]]]
    BY <1>3 DEF WaitFor
  <2>3. asker' \in [Askers -> {NotAsking} \cup AskerRow]
    BY <1>1, <2>1, <2>2 DEF AskerRow
  <2>4. PermissionTypeOK'
    BY <1>3, <2>3 DEF PermissionInv, PermissionTypeOK, AskRoles, AskerRow
  <2>5. ReadsAreLater' /\ JoinsAreCurrent'
    BY <1>3 DEF PermissionInv, ReadsAreLater, JoinsAreCurrent, AskRoles, UnderWay
  <2>6. WaitsAreCurrent'
    <3>1. UnderWay(inFlight[i]) /\ load[inFlight[i]].since = cleared[i] /\ cleared[i] \in Nat
      BY <1>1, <1>3 DEF PermissionInv, JoinsAreCurrent
    <3>. SUFFICES ASSUME NEW p \in Askers, Waiting(p)'
                  PROVE  /\ load'[asker'[p].of].at # "idle"
                         /\ load[asker'[p].of].since >= asker'[p].since
      BY <1>3 DEF WaitsAreCurrent, UnderWay
    <3>2. CASE p = q
      BY <1>1, <1>3, <2>2, <3>1, <3>2 DEF UnderWay
    <3>3. CASE p # q
      BY <1>1, <1>3, <2>2, <3>3 DEF PermissionInv, WaitsAreCurrent, UnderWay, Waiting
    <3>. QED  BY <3>2, <3>3
  <2>. QED  BY <1>2, <2>4, <2>5, <2>6 DEF PermissionInv
<1>4. ASSUME NEW l \in Loads, inFlight[i] = NoLoad, load[l] = IdleLoad,
             load' = [load EXCEPT ![l] = [at |-> "read", on |-> i, of |-> Nothing,
                                          since |-> cleared[i]]],
             inFlight' = [inFlight EXCEPT ![i] = l],
             WaitFor(q, l, i)
      PROVE  PermissionInv'
  <2>1. /\ roles' = roles /\ cleared' = cleared /\ known' = known /\ overrun' = overrun
        /\ asker' = [asker EXCEPT ![q] = [at |-> "wait", of |-> l, since |-> cleared[i]]]
    BY <1>4 DEF WaitFor, AskRoles
  <2>2. /\ load' \in [Loads -> {IdleLoad} \cup LoadRow]
        /\ asker' \in [Askers -> {NotAsking} \cup AskerRow]
        /\ inFlight' \in [Instances -> Loads \cup {NoLoad}]
    BY <1>1, <1>4, <2>1 DEF LoadRow, AskerRow
  <2>3. PermissionTypeOK'
    BY <2>1, <2>2 DEF PermissionInv, PermissionTypeOK, LoadRow, AskerRow
  <2>4. ~UnderWay(l)
    BY <1>4 DEF UnderWay, IdleLoad
  <2>5. /\ load'[l].at = "read" /\ load'[l].on = i /\ load'[l].since = cleared[i]
        /\ \A k \in Loads : k # l => load'[k] = load[k]
    BY <1>1, <1>4
  <2>6. ReadsAreLater'
    BY <2>1, <2>5 DEF PermissionInv, ReadsAreLater, UnderWay
  <2>7. JoinsAreCurrent'
    BY <1>1, <1>4, <2>1, <2>4, <2>5, PermissionAssumption
    DEF PermissionInv, JoinsAreCurrent, UnderWay
  <2>8. WaitsAreCurrent'
    <3>. SUFFICES ASSUME NEW p \in Askers, Waiting(p)'
                  PROVE  /\ load'[asker'[p].of].at # "idle"
                         /\ load'[asker'[p].of].since >= asker'[p].since
      BY DEF WaitsAreCurrent, UnderWay
    <3>1. CASE p = q
      <4>1. cleared[i] \in Nat
        BY <1>1
      <4>2. asker'[p].of = l /\ asker'[p].since = cleared[i]
        BY <1>1, <2>1, <3>1
      <4>. QED  BY <2>5, <4>1, <4>2
    <3>2. CASE p # q
      <4>1. asker'[p] = asker[p] /\ asker[p] \in AskerRow /\ UnderWay(asker[p].of)
        BY <1>1, <2>1, <3>2 DEF PermissionInv, WaitsAreCurrent, Waiting, AskerRow, NotAsking
      <4>2. asker[p].of \in Loads /\ asker[p].of # l
        BY <2>4, <4>1 DEF AskerRow
      <4>. QED  BY <2>5, <4>1, <4>2 DEF PermissionInv, WaitsAreCurrent, UnderWay, Waiting, AskerRow
    <3>. QED  BY <3>1, <3>2
  <2>. QED  BY <1>2, <2>3, <2>6, <2>7, <2>8 DEF PermissionInv
<1>. QED  BY <1>3, <1>4 DEF AskRoles

LEMMA LoadReads ==
  ASSUME PermissionInv, NEW l \in Loads, ReadRoles(l)
  PROVE  PermissionInv'
<1>1. load \in [Loads -> {IdleLoad} \cup LoadRow] /\ roles \in Versions /\ Versions \subseteq Nat
  BY PermissionsTyped DEF PermissionInv
<1>2. load[l].at = "read" /\ load[l] \in LoadRow
  BY <1>1 DEF ReadRoles, IdleLoad
<1>3. PICK answer \in {roles, Nothing} :
        load' = [load EXCEPT ![l].at = "store", ![l].of = answer]
  BY DEF ReadRoles
<1>4. /\ load'[l] \in LoadRow /\ load'[l].at = "store" /\ load'[l].of = answer
      /\ load'[l].on = load[l].on /\ load'[l].since = load[l].since
      /\ \A k \in Loads : k # l => load'[k] = load[k]
      /\ load' \in [Loads -> {IdleLoad} \cup LoadRow]
  BY <1>1, <1>2, <1>3 DEF LoadRow
<1>5. PermissionTypeOK'
  BY <1>4 DEF PermissionInv, PermissionTypeOK, ReadRoles, LoadRow
<1>6. ReadsAreLater'
  BY <1>1, <1>2, <1>4 DEF PermissionInv, ReadsAreLater, ReadRoles, UnderWay, LoadRow
<1>7. JoinsAreCurrent'
  <2>1. inFlight \in [Instances -> Loads \cup {NoLoad}]
    BY PermissionsTyped DEF PermissionInv
  <2>. QED  BY <1>4, <2>1 DEF PermissionInv, JoinsAreCurrent, ReadRoles, UnderWay
<1>8. WaitsAreCurrent'
  <2>1. \A q \in Askers : Waiting(q) => asker[q].of \in Loads
    BY PermissionsTyped DEF PermissionInv, AskerRow
  <2>. QED  BY <1>2, <1>4, <2>1 DEF PermissionInv, WaitsAreCurrent, ReadRoles, UnderWay, Waiting
<1>9. EntriesAreCurrent'
  BY DEF PermissionInv, EntriesAreCurrent, ReadRoles
<1>. QED  BY <1>5, <1>6, <1>7, <1>8, <1>9 DEF PermissionInv

\* A load that began before the instance cleared marks the entry it writes.
LEMMA LoadStores ==
  ASSUME PermissionInv, NEW l \in Loads, StoreRoles(l)
  PROVE  PermissionInv'
<1>1. /\ load \in [Loads -> {IdleLoad} \cup LoadRow]
      /\ asker \in [Askers -> {NotAsking} \cup AskerRow]
      /\ inFlight \in [Instances -> Loads \cup {NoLoad}]
      /\ known \in [Instances -> Versions \cup {NoEntry, Nothing}]
      /\ overrun \subseteq Instances
  BY PermissionsTyped DEF PermissionInv
<1>2. load[l].at = "store" /\ load[l] \in LoadRow
  BY <1>1 DEF StoreRoles, IdleLoad
<1>. DEFINE i == load[l].on
<1>3. /\ i \in Instances /\ load[l].of \in Versions \cup {Nothing}
      /\ load[l].of = Nothing \/ load[l].of >= load[l].since
  BY <1>2 DEF PermissionInv, ReadsAreLater, LoadRow
<1>4. /\ known' = [known EXCEPT ![i] = load[l].of]
      /\ inFlight' = [inFlight EXCEPT ![i] = NoLoad]
      /\ overrun' = IF load[l].since = cleared[i] THEN overrun \ {i} ELSE overrun \cup {i}
      /\ load' = [load EXCEPT ![l] = IdleLoad]
      /\ asker' = [q \in Askers |->
           IF asker[q] # NotAsking /\ asker[q].of = l THEN NotAsking ELSE asker[q]]
      /\ roles' = roles /\ cleared' = cleared
  BY DEF StoreRoles
<1>5. /\ known' \in [Instances -> Versions \cup {NoEntry, Nothing}]
      /\ inFlight' \in [Instances -> Loads \cup {NoLoad}]
      /\ overrun' \subseteq Instances
      /\ load' \in [Loads -> {IdleLoad} \cup LoadRow]
      /\ asker' \in [Askers -> {NotAsking} \cup AskerRow]
  BY <1>1, <1>3, <1>4
<1>6. PermissionTypeOK'
  BY <1>4, <1>5 DEF PermissionInv, PermissionTypeOK, LoadRow, AskerRow
<1>7. load'[l].at = "idle" /\ \A k \in Loads : k # l => load'[k] = load[k]
  BY <1>1, <1>4 DEF IdleLoad
<1>8. ReadsAreLater'
  BY <1>4, <1>7 DEF PermissionInv, ReadsAreLater, UnderWay
<1>9. JoinsAreCurrent'
  <2>. SUFFICES ASSUME NEW j \in Instances, inFlight'[j] # NoLoad
                PROVE  /\ load'[inFlight'[j]].at # "idle"
                       /\ load'[inFlight'[j]].on = j
                       /\ load'[inFlight'[j]].since = cleared'[j]
    BY DEF JoinsAreCurrent, UnderWay
  <2>1. j # i /\ inFlight'[j] = inFlight[j] /\ inFlight[j] \in Loads
    BY <1>1, <1>4
  <2>2. load[inFlight[j]].on = j /\ UnderWay(inFlight[j]) /\ load[inFlight[j]].since = cleared[j]
    BY <2>1 DEF PermissionInv, JoinsAreCurrent
  <2>3. load'[inFlight[j]] = load[inFlight[j]]
    BY <1>7, <2>1, <2>2
  <2>. QED  BY <1>4, <2>1, <2>2, <2>3 DEF UnderWay
<1>10. WaitsAreCurrent'
  <2>. SUFFICES ASSUME NEW q \in Askers, Waiting(q)'
                PROVE  /\ load'[asker'[q].of].at # "idle"
                       /\ load'[asker'[q].of].since >= asker'[q].since
    BY DEF WaitsAreCurrent, UnderWay
  <2>1. asker[q] # NotAsking /\ asker[q].of # l /\ asker'[q] = asker[q]
    BY <1>4 DEF Waiting, NotAsking
  <2>2. asker[q].of \in Loads /\ Waiting(q)
    BY <1>1, <2>1 DEF AskerRow, Waiting
  <2>. QED  BY <1>7, <2>1, <2>2 DEF PermissionInv, WaitsAreCurrent, UnderWay
<1>11. EntriesAreCurrent'
  <2>. SUFFICES ASSUME NEW j \in Instances, j \notin overrun'
                PROVE  known'[j] \in {NoEntry, Nothing} \/ known'[j] >= cleared'[j]
    BY DEF EntriesAreCurrent
  <2>1. CASE j = i
    BY <1>1, <1>3, <1>4, <2>1
  <2>2. CASE j # i
    BY <1>1, <1>4, <2>2 DEF PermissionInv, EntriesAreCurrent
  <2>. QED  BY <2>1, <2>2
<1>. QED  BY <1>6, <1>8, <1>9, <1>10, <1>11 DEF PermissionInv

-----------------------------------------------------------------------------

LEMMA PermissionStepsPreserve ==
  ASSUME PermissionInv, [PermissionNext]_permissionVars
  PROVE  PermissionInv'
<1>1. CASE UNCHANGED permissionVars
  BY <1>1 DEF permissionVars, PermissionInv, PermissionTypeOK, ReadsAreLater, JoinsAreCurrent,
              WaitsAreCurrent, EntriesAreCurrent, UnderWay, Waiting
<1>2. CASE PermissionNext
  BY <1>2, Changing, Clearing, Forgetting, Asking, LoadReads, LoadStores DEF PermissionNext
<1>. QED  BY <1>1, <1>2

\* The inductive invariant: requests join only loads that began after their
\* instance last cleared.
THEOREM PermissionInvariant == PermissionSpec => []PermissionInv
<1>1. PermissionInit => PermissionInv
  BY PermissionInitHolds
<1>2. PermissionInv /\ [PermissionNext]_permissionVars => PermissionInv'
  BY PermissionStepsPreserve
<1>. QED  BY <1>1, <1>2, PTL DEF PermissionSpec

\* For any number of instances, loads and requests: after an instance has
\* cleared a user (clearUserCache), its requests are judged by roles of that
\* time or later, unless a load from before has written over its entry.
THEOREM ClearedStaysSeen == PermissionSpec => []ClearedIsSeen
<1>1. PermissionInv => ClearedIsSeen
  <2>. SUFFICES ASSUME PermissionInv PROVE ClearedIsSeen
    OBVIOUS
  <2>1. \A q \in Askers : asker[q] # NotAsking =>
          LET l == load[asker[q].of] IN
          l.at = "store" => l.of = Nothing \/ l.of >= asker[q].since
    <3>. SUFFICES ASSUME NEW q \in Askers, asker[q] # NotAsking,
                         load[asker[q].of].at = "store", load[asker[q].of].of # Nothing
                  PROVE  load[asker[q].of].of >= asker[q].since
      OBVIOUS
    <3>1. asker[q] \in AskerRow /\ Waiting(q) /\ asker[q].of \in Loads
      BY PermissionsTyped DEF PermissionInv, AskerRow
    <3>2. load[asker[q].of] \in LoadRow
      BY PermissionsTyped, <3>1 DEF PermissionInv, UnderWay
    <3>3. /\ load[asker[q].of].of >= load[asker[q].of].since
          /\ load[asker[q].of].since >= asker[q].since
      BY <3>1 DEF PermissionInv, ReadsAreLater, WaitsAreCurrent
    <3>4. /\ load[asker[q].of].of \in Nat /\ load[asker[q].of].since \in Nat
          /\ asker[q].since \in Nat
      BY PermissionsTyped, <3>1, <3>2 DEF PermissionInv, LoadRow, AskerRow
    <3>. QED  BY <3>3, <3>4
  <2>2. \A i \in Instances \ overrun : known[i] \in {NoEntry, Nothing} \/ known[i] >= cleared[i]
    BY DEF PermissionInv, EntriesAreCurrent
  <2>. QED  BY <2>1, <2>2 DEF ClearedIsSeen
<1>. QED  BY <1>1, PermissionInvariant, PTL

\* The variables keep their types: an instance joins requests to loads that
\* exist, and stores what some load can have read (rbacService.ts).
THEOREM PermissionTypeCorrect == PermissionSpec => []PermissionTypeOK
<1>1. PermissionInv => PermissionTypeOK
  BY DEF PermissionInv
<1>. QED  BY <1>1, PermissionInvariant, PTL

-----------------------------------------------------------------------------
(* The team of a business *)

Admission == [op : {"admit"}, at : Companies, who : Users, fresh : BOOLEAN]
Transferral == [op : {"move"}, from : Companies, at : Companies, who : SUBSET Users,
                fresh : BOOLEAN]
Status == {"none", "active", "inactive"}

ActiveIn(team, b) == {u \in Users : team[b][u] = "active"}

\* Who is about to come, on a count that is not old, finds room.
Room(plan, team) ==
  /\ plan.op = "admit" /\ plan.fresh => Cardinality(ActiveIn(team, plan.at)) < StaffLimit
  /\ plan.op = "move" =>
       /\ plan.from # plan.at
       /\ plan.fresh => Cardinality(ActiveIn(team, plan.at)) + Cardinality(plan.who) <= StaffLimit

TeamInv ==
  /\ TeamTypeOK
  /\ TeamFits
  /\ \A w \in Managers : Room(manager[w], member)

LEMMA TeamTyped ==
  ASSUME TeamTypeOK
  PROVE  /\ member \in [Companies -> [Users -> Status]]
         /\ invited \subseteq Users
         /\ unchecked \in [Companies -> SUBSET Users]
         /\ manager \in [Managers -> {Unoccupied} \cup Admission \cup Transferral]
BY DEF TeamTypeOK, Status, Admission, Transferral

LEMMA TeamTypedAgain ==
  ASSUME member' \in [Companies -> [Users -> Status]], invited' \subseteq Users,
         unchecked' \in [Companies -> SUBSET Users],
         manager' \in [Managers -> {Unoccupied} \cup Admission \cup Transferral]
  PROVE  TeamTypeOK'
BY DEF TeamTypeOK, Status, Admission, Transferral

LEMMA Managing ==
  ASSUME TeamTypeOK, NEW w \in Managers
  PROVE  /\ manager[w].op = "admit" => manager[w] \in Admission
         /\ manager[w].op = "move" => manager[w] \in Transferral
BY TeamTyped DEF Unoccupied, Admission, Transferral

\* A part of a team is a finite set and no larger.
LEMMA Parts ==
  ASSUME NEW s \in SUBSET Users, NEW t \in SUBSET s
  PROVE  /\ IsFiniteSet(s) /\ Cardinality(s) \in Nat
         /\ Cardinality(t) \in Nat /\ Cardinality(t) <= Cardinality(s)
<1>1. IsFiniteSet(s)
  BY FS_Subset, TeamAssumption
<1>. QED  BY <1>1, FS_Subset, FS_CardinalityType

\* With others a team grows by no more than their number.
LEMMA Together ==
  ASSUME NEW s \in SUBSET Users, NEW t \in SUBSET Users
  PROVE  Cardinality(s \cup t) \in Nat /\ Cardinality(s \cup t) <= Cardinality(s) + Cardinality(t)
<1>1. IsFiniteSet(s) /\ IsFiniteSet(t)
  BY Parts
<1>2. Cardinality(s \cup t) = Cardinality(s) + Cardinality(t) - Cardinality(s \cap t)
  BY <1>1, FS_Union
<1>3. Cardinality(s \cap t) \in Nat /\ Cardinality(s) \in Nat /\ Cardinality(t) \in Nat
      /\ Cardinality(s \cup t) \in Nat
  BY Parts
<1>. QED  BY <1>2, <1>3

\* There is still room in a team that has not grown.
LEMMA RoomStays ==
  ASSUME NEW plan \in {Unoccupied} \cup Admission \cup Transferral, NEW team, NEW after,
         Room(plan, team),
         plan.op \in {"admit", "move"} => ActiveIn(after, plan.at) \subseteq ActiveIn(team, plan.at)
  PROVE  Room(plan, after)
<1>1. CASE plan \in Admission
  <2>1. /\ Cardinality(ActiveIn(after, plan.at)) \in Nat /\ Cardinality(ActiveIn(team, plan.at)) \in Nat
        /\ Cardinality(ActiveIn(after, plan.at)) <= Cardinality(ActiveIn(team, plan.at))
    <3>1. ActiveIn(after, plan.at) \in SUBSET ActiveIn(team, plan.at)
          /\ ActiveIn(team, plan.at) \in SUBSET Users
      BY <1>1 DEF Admission, ActiveIn
    <3>. QED  BY <3>1, Parts
  <2>. QED  BY <1>1, <2>1, TeamAssumption DEF Room, Admission
<1>2. CASE plan \in Transferral
  <2>1. /\ Cardinality(ActiveIn(after, plan.at)) \in Nat /\ Cardinality(ActiveIn(team, plan.at)) \in Nat
        /\ Cardinality(ActiveIn(after, plan.at)) <= Cardinality(ActiveIn(team, plan.at))
    <3>1. ActiveIn(after, plan.at) \in SUBSET ActiveIn(team, plan.at)
          /\ ActiveIn(team, plan.at) \in SUBSET Users
      BY <1>2 DEF Transferral, ActiveIn
    <3>. QED  BY <3>1, Parts
  <2>2. Cardinality(plan.who) \in Nat
    BY <1>2, Parts DEF Transferral
  <2>. QED  BY <1>2, <2>1, <2>2, TeamAssumption DEF Room, Transferral
<1>3. CASE plan = Unoccupied
  BY <1>3 DEF Room, Unoccupied
<1>. QED  BY <1>1, <1>2, <1>3

\* One request turns to a task; no team grows.
LEMMA Assigning ==
  ASSUME TeamInv, NEW w \in Managers, NEW plan \in {Unoccupied} \cup Admission \cup Transferral,
         Assign(w, plan), UNCHANGED <<member, unchecked>>, invited' \subseteq Users,
         Room(plan, member)
  PROVE  TeamInv'
<1>1. manager' \in [Managers -> {Unoccupied} \cup Admission \cup Transferral]
  BY TeamTyped DEF TeamInv, Assign
<1>2. TeamTypeOK'
  BY <1>1, TeamTyped, TeamTypedAgain DEF TeamInv
<1>3. ASSUME NEW v \in Managers
      PROVE  Room(manager'[v], member')
  <2>1. manager'[v] = IF v = w THEN plan ELSE manager[v]
    BY TeamTyped DEF TeamInv, Assign
  <2>. QED  BY <2>1 DEF TeamInv
<1>4. TeamFits'
  BY DEF TeamInv, TeamFits, Members
<1>. QED  BY <1>2, <1>3, <1>4 DEF TeamInv

\* The team of b has a new member, and admissions counted before are old.
LEMMA Outdating ==
  ASSUME TeamInv, NEW b \in Companies, NEW w \in Managers, Outdate(b, w, Unoccupied),
         member' \in [Companies -> [Users -> Status]],
         unchecked' \in [Companies -> SUBSET Users], UNCHANGED invited,
         \A c \in Companies \ {b} : ActiveIn(member', c) \subseteq ActiveIn(member, c),
         \A c \in Companies :
           Cardinality(ActiveIn(member', c) \ unchecked'[c]) <= StaffLimit
  PROVE  TeamInv'
<1>1. ASSUME NEW v \in Managers
      PROVE  /\ manager'[v] \in {Unoccupied} \cup Admission \cup Transferral
             /\ Room(manager'[v], member')
  <2>1. manager'[v] = IF v = w THEN Unoccupied
          ELSE IF manager[v].op \in {"admit", "move"} /\ manager[v].at = b
                 THEN [manager[v] EXCEPT !.fresh = FALSE] ELSE manager[v]
    BY DEF Outdate
  <2>2. CASE v = w
    BY <2>1, <2>2 DEF Room, Unoccupied
  <2>3. CASE v # w /\ manager[v].op \in {"admit", "move"} /\ manager[v].at = b
    <3>1. manager'[v] = [manager[v] EXCEPT !.fresh = FALSE] /\ manager[v] \in Admission \cup Transferral
      BY <2>1, <2>3, Managing DEF TeamInv
    <3>2. /\ manager'[v] \in Admission \cup Transferral /\ manager'[v].fresh = FALSE
          /\ manager'[v].op = "move" => manager[v].op = "move"
               /\ manager'[v].from = manager[v].from /\ manager'[v].at = manager[v].at
      BY <3>1 DEF Admission, Transferral
    <3>. QED  BY <3>2 DEF Room, TeamInv
  <2>4. CASE v # w /\ ~(manager[v].op \in {"admit", "move"} /\ manager[v].at = b)
    <3>1. manager'[v] = manager[v] /\ manager[v] \in {Unoccupied} \cup Admission \cup Transferral
      BY <2>1, <2>4, TeamTyped DEF TeamInv
    <3>2. manager[v].op \in {"admit", "move"} => manager[v].at \in Companies \ {b}
      BY <2>4, Managing DEF TeamInv, Admission, Transferral
    <3>. QED  BY <3>1, <3>2, RoomStays DEF TeamInv
  <2>. QED  BY <2>2, <2>3, <2>4
<1>2. manager' \in [Managers -> {Unoccupied} \cup Admission \cup Transferral]
  BY <1>1 DEF Outdate
<1>3. TeamTypeOK'
  BY <1>2, TeamTyped, TeamTypedAgain DEF TeamInv
<1>4. TeamFits'
  BY DEF TeamFits, Members, ActiveIn
<1>. QED  BY <1>1, <1>3, <1>4 DEF TeamInv

LEMMA TeamInitHolds == TeamInit => TeamInv
<1>. SUFFICES ASSUME TeamInit
              PROVE  TeamInv
  OBVIOUS
<1>1. TeamTypeOK
  BY DEF TeamInit, TeamTypeOK
<1>2. TeamFits
  <2>1. ASSUME NEW b \in Companies
        PROVE  Cardinality(Members(b) \ unchecked[b]) <= StaffLimit
    <3>1. Members(b) \ unchecked[b] = {Owner}
      BY <2>1, TeamAssumption DEF TeamInit, Members
    <3>. QED  BY <3>1, FS_Singleton, TeamAssumption
  <2>. QED  BY <2>1 DEF TeamFits
<1>3. \A w \in Managers : Room(manager[w], member)
  BY DEF TeamInit, Room, Unoccupied
<1>. QED  BY <1>1, <1>2, <1>3 DEF TeamInv

\* The counts: nobody comes or goes yet.
LEMMA CountingTeams ==
  ASSUME TeamInv,
         \/ \E b \in Companies, u \in Users : Invite(b, u)
         \/ \E w \in Managers, b \in Companies, u \in Users : Verify(w, b, u)
         \/ \E w \in Managers, b, c \in Companies, us \in SUBSET Users \ {{}} :
              TransferCheck(w, b, c, us)
         \/ \E w \in Managers : Abandon(w)
  PROVE  TeamInv'
<1>1. ASSUME NEW b \in Companies, NEW u \in Users, Invite(b, u)
      PROVE  TeamInv'
  <2>1. invited' = invited \cup {u} /\ UNCHANGED <<member, manager, unchecked>>
    BY <1>1 DEF Invite
  <2>2. TeamTypeOK'
    BY <2>1, TeamTyped, TeamTypedAgain DEF TeamInv
  <2>. QED  BY <2>1, <2>2 DEF TeamInv, TeamFits, Members
<1>2. ASSUME NEW w \in Managers, NEW b \in Companies, NEW u \in Users, Verify(w, b, u)
      PROVE  TeamInv'
  <2>. DEFINE plan == [op |-> "admit", at |-> b, who |-> u, fresh |-> TRUE]
  <2>1. Assign(w, plan) /\ UNCHANGED <<member, invited, unchecked>>
    BY <1>2 DEF Verify
  <2>2. plan \in Admission
    BY DEF Admission
  <2>3. Room(plan, member)
    BY <1>2 DEF Verify, Room, Members, ActiveIn
  <2>. HIDE DEF plan
  <2>. QED  BY <2>1, <2>2, <2>3, Assigning, TeamTyped DEF TeamInv
<1>3. ASSUME NEW w \in Managers, NEW b \in Companies, NEW c \in Companies,
             NEW us \in SUBSET Users, TransferCheck(w, b, c, us)
      PROVE  TeamInv'
  <2>. DEFINE plan == [op |-> "move", from |-> b, at |-> c, who |-> us, fresh |-> TRUE]
  <2>1. Assign(w, plan) /\ UNCHANGED <<member, invited, unchecked>>
    BY <1>3 DEF TransferCheck
  <2>2. plan \in Transferral
    BY DEF Transferral
  <2>3. Room(plan, member)
    BY <1>3 DEF TransferCheck, Room, Members, ActiveIn
  <2>. HIDE DEF plan
  <2>. QED  BY <2>1, <2>2, <2>3, Assigning, TeamTyped DEF TeamInv
<1>4. ASSUME NEW w \in Managers, Abandon(w)
      PROVE  TeamInv'
  <2>1. Assign(w, Unoccupied) /\ UNCHANGED <<member, invited, unchecked>>
    BY <1>4 DEF Abandon
  <2>2. Room(Unoccupied, member)
    BY DEF Room, Unoccupied
  <2>. QED  BY <2>1, <2>2, Assigning, TeamTyped DEF TeamInv
<1>. QED  BY <1>1, <1>2, <1>3, <1>4

\* A team without some of its members still fits; its new ones are unchecked or
\* found room.
LEMMA Switching ==
  ASSUME TeamInv, NEW b \in Companies, NEW u \in Users,
         RemoveMember(b, u) \/ SwitchOff(b, u) \/ SwitchOn(b, u)
  PROVE  TeamInv'
<1>1. /\ member \in [Companies -> [Users -> Status]]
      /\ unchecked \in [Companies -> SUBSET Users]
      /\ manager \in [Managers -> {Unoccupied} \cup Admission \cup Transferral]
  BY TeamTyped DEF TeamInv
<1>2. CASE SwitchOff(b, u)
  <2>1. /\ member' = [member EXCEPT ![b][u] = "inactive"]
        /\ unchecked' = [unchecked EXCEPT ![b] = @ \ {u}] /\ UNCHANGED <<invited, manager>>
    BY <1>2 DEF SwitchOff
  <2>2. /\ member' \in [Companies -> [Users -> Status]]
        /\ unchecked' \in [Companies -> SUBSET Users]
    BY <1>1, <2>1 DEF Status
  <2>3. TeamTypeOK'
    BY <2>1, <2>2, TeamTyped, TeamTypedAgain DEF TeamInv
  <2>4. ASSUME NEW c \in Companies
        PROVE  /\ ActiveIn(member', c) \subseteq ActiveIn(member, c)
               /\ ActiveIn(member', c) \ unchecked'[c] \subseteq ActiveIn(member, c) \ unchecked[c]
    BY <1>1, <2>1 DEF ActiveIn
  <2>5. ASSUME NEW c \in Companies
        PROVE  Cardinality(ActiveIn(member', c) \ unchecked'[c]) <= StaffLimit
    <3>1. /\ ActiveIn(member', c) \ unchecked'[c] \in SUBSET (ActiveIn(member, c) \ unchecked[c])
          /\ ActiveIn(member, c) \ unchecked[c] \in SUBSET Users
      BY <2>4 DEF ActiveIn
    <3>2. Cardinality(ActiveIn(member, c) \ unchecked[c]) <= StaffLimit
      BY DEF TeamInv, TeamFits, Members, ActiveIn
    <3>. QED  BY <3>1, <3>2, Parts, TeamAssumption
  <2>6. TeamFits'
    BY <2>5 DEF TeamFits, Members, ActiveIn
  <2>7. ASSUME NEW v \in Managers
        PROVE  Room(manager[v], member')
    <3>1. manager[v].op \in {"admit", "move"} => manager[v].at \in Companies
      BY Managing DEF TeamInv, Admission, Transferral
    <3>. QED  BY <1>1, <2>4, <3>1, RoomStays DEF TeamInv
  <2>. QED  BY <2>1, <2>3, <2>6, <2>7 DEF TeamInv
<1>3. CASE SwitchOn(b, u)
  <2>1. /\ member' = [member EXCEPT ![b][u] = "active"]
        /\ unchecked' = [unchecked EXCEPT ![b] = @ \cup {u}] /\ UNCHANGED invited
    BY <1>3 DEF SwitchOn
  <2>2. PICK w \in Managers : Outdate(b, w, Unoccupied)
    BY <1>3 DEF SwitchOn
  <2>3. /\ member' \in [Companies -> [Users -> Status]]
        /\ unchecked' \in [Companies -> SUBSET Users]
    BY <1>1, <2>1 DEF Status
  <2>4. \A c \in Companies \ {b} : ActiveIn(member', c) \subseteq ActiveIn(member, c)
    BY <1>1, <2>1 DEF ActiveIn
  <2>5. ASSUME NEW c \in Companies
        PROVE  Cardinality(ActiveIn(member', c) \ unchecked'[c]) <= StaffLimit
    <3>1. /\ ActiveIn(member', c) \ unchecked'[c] \in SUBSET (ActiveIn(member, c) \ unchecked[c])
          /\ ActiveIn(member, c) \ unchecked[c] \in SUBSET Users
      BY <1>1, <2>1 DEF ActiveIn
    <3>2. Cardinality(ActiveIn(member, c) \ unchecked[c]) <= StaffLimit
      BY DEF TeamInv, TeamFits, Members, ActiveIn
    <3>. QED  BY <3>1, <3>2, Parts, TeamAssumption
  <2>. QED  BY <2>1, <2>2, <2>3, <2>4, <2>5, Outdating
<1>. QED  BY <1>2, <1>3 DEF RemoveMember

LEMMA Admitting ==
  ASSUME TeamInv, NEW w \in Managers, Admit(w)
  PROVE  TeamInv'
<1>. DEFINE b == manager[w].at
            u == manager[w].who
<1>1. /\ member \in [Companies -> [Users -> Status]]
      /\ unchecked \in [Companies -> SUBSET Users]
      /\ manager[w] \in Admission /\ b \in Companies /\ u \in Users
      /\ UNCHANGED invited
  <2>1. manager[w] \in Admission
    BY Managing DEF TeamInv, Admit
  <2>. QED  BY <2>1, TeamTyped DEF TeamInv, Admission, Admit
<1>2. CASE u \in Members(b)
  <2>1. Assign(w, Unoccupied) /\ UNCHANGED <<member, unchecked>>
    BY <1>2 DEF Admit
  <2>2. Room(Unoccupied, member)
    BY DEF Room, Unoccupied
  <2>. QED  BY <1>1, <2>1, <2>2, Assigning, TeamTyped DEF TeamInv
<1>3. CASE u \notin Members(b)
  <2>1. /\ member' = [member EXCEPT ![b][u] = "active"]
        /\ unchecked' = [unchecked EXCEPT ![b] =
              IF manager[w].fresh THEN @ \ {u} ELSE @ \cup {u}]
        /\ Outdate(b, w, Unoccupied)
    BY <1>3 DEF Admit, Admitted
  <2>2. /\ member' \in [Companies -> [Users -> Status]]
        /\ unchecked' \in [Companies -> SUBSET Users]
    BY <1>1, <2>1 DEF Status
  <2>3. \A c \in Companies \ {b} : ActiveIn(member', c) \subseteq ActiveIn(member, c)
    BY <1>1, <2>1 DEF ActiveIn
  <2>4. ASSUME NEW c \in Companies, c # b \/ ~manager[w].fresh
        PROVE  Cardinality(ActiveIn(member', c) \ unchecked'[c]) <= StaffLimit
    <3>1. /\ ActiveIn(member', c) \ unchecked'[c] \in SUBSET (ActiveIn(member, c) \ unchecked[c])
          /\ ActiveIn(member, c) \ unchecked[c] \in SUBSET Users
      BY <1>1, <2>1, <2>4 DEF ActiveIn
    <3>2. Cardinality(ActiveIn(member, c) \ unchecked[c]) <= StaffLimit
      BY DEF TeamInv, TeamFits, Members, ActiveIn
    <3>. QED  BY <3>1, <3>2, Parts, TeamAssumption
  <2>5. ASSUME manager[w].fresh
        PROVE  Cardinality(ActiveIn(member', b) \ unchecked'[b]) <= StaffLimit
    <3>1. Cardinality(ActiveIn(member, b)) < StaffLimit
      BY <1>1, <2>5 DEF TeamInv, Room, Admission
    <3>2. /\ ActiveIn(member', b) \ unchecked'[b] \in SUBSET (ActiveIn(member, b) \cup {u})
          /\ ActiveIn(member, b) \in SUBSET Users /\ {u} \in SUBSET Users
      BY <1>1, <2>1 DEF ActiveIn
    <3>3. Cardinality({u}) = 1
      BY FS_Singleton
    <3>4. Cardinality(ActiveIn(member, b) \cup {u}) <= Cardinality(ActiveIn(member, b)) + 1
      BY <3>2, <3>3, Together
    <3>5. /\ Cardinality(ActiveIn(member, b)) \in Nat
          /\ Cardinality(ActiveIn(member, b) \cup {u}) \in Nat
          /\ Cardinality(ActiveIn(member', b) \ unchecked'[b]) \in Nat
          /\ Cardinality(ActiveIn(member', b) \ unchecked'[b])
               <= Cardinality(ActiveIn(member, b) \cup {u})
      BY <3>2, Parts
    <3>. QED  BY <3>1, <3>4, <3>5, TeamAssumption
  <2>6. ASSUME NEW c \in Companies
        PROVE  Cardinality(ActiveIn(member', c) \ unchecked'[c]) <= StaffLimit
    BY <2>4, <2>5, <2>6
  <2>. QED  BY <1>1, <2>1, <2>2, <2>3, <2>6, Outdating
<1>. QED  BY <1>2, <1>3

LEMMA Transferring ==
  ASSUME TeamInv, NEW w \in Managers, Transfer(w)
  PROVE  TeamInv'
<1>. DEFINE b == manager[w].from
            c == manager[w].at
            us == {u \in manager[w].who : Employed(b, u)}
<1>1. /\ member \in [Companies -> [Users -> Status]]
      /\ unchecked \in [Companies -> SUBSET Users]
      /\ manager[w] \in Transferral /\ b \in Companies /\ c \in Companies
      /\ manager[w].who \subseteq Users /\ us \subseteq manager[w].who
      /\ UNCHANGED invited
  <2>1. manager[w] \in Transferral
    BY Managing DEF TeamInv, Transfer
  <2>. QED  BY <2>1, TeamTyped DEF TeamInv, Transferral, Transfer
<1>2. CASE us = {} \/ \E u \in us : Employed(c, u)
  <2>1. Assign(w, Unoccupied) /\ UNCHANGED <<member, unchecked>>
    BY <1>2 DEF Transfer
  <2>2. Room(Unoccupied, member)
    BY DEF Room, Unoccupied
  <2>. QED  BY <1>1, <2>1, <2>2, Assigning, TeamTyped DEF TeamInv
<1>3. CASE ~(us = {} \/ \E u \in us : Employed(c, u))
  <2>1. /\ member' = [member EXCEPT
               ![b] = [u \in Users |-> IF u \in us THEN "none" ELSE @[u]],
               ![c] = [u \in Users |-> IF u \in us THEN member[b][u] ELSE @[u]]]
        /\ unchecked' = [unchecked EXCEPT
               ![b] = @ \ us, ![c] = IF manager[w].fresh THEN @ \ us ELSE @ \cup us]
        /\ Outdate(c, w, Unoccupied)
    BY <1>3 DEF Transfer
  <2>2. b # c /\ (manager[w].fresh =>
           Cardinality(ActiveIn(member, c)) + Cardinality(manager[w].who) <= StaffLimit)
    BY <1>1 DEF TeamInv, Room, Transferral
  <2>. HIDE DEF us
  <2>3. /\ member' \in [Companies -> [Users -> Status]]
        /\ unchecked' \in [Companies -> SUBSET Users]
    BY <1>1, <2>1, <2>2 DEF Status
  <2>4. \A d \in Companies, u \in Users :
          member'[d][u] = IF d = c THEN (IF u \in us THEN member[b][u] ELSE member[c][u])
                          ELSE IF d = b /\ u \in us THEN "none" ELSE member[d][u]
    BY <1>1, <2>1, <2>2
  <2>5. \A d \in Companies :
          unchecked'[d] = IF d = c THEN (IF manager[w].fresh THEN unchecked[c] \ us
                                                           ELSE unchecked[c] \cup us)
                          ELSE IF d = b THEN unchecked[b] \ us ELSE unchecked[d]
    BY <1>1, <2>1, <2>2
  <2>6. \A d \in Companies \ {c} : ActiveIn(member', d) \subseteq ActiveIn(member, d)
    BY <2>4 DEF ActiveIn
  <2>7. ASSUME NEW d \in Companies, d # c \/ ~manager[w].fresh
        PROVE  Cardinality(ActiveIn(member', d) \ unchecked'[d]) <= StaffLimit
    <3>1. /\ ActiveIn(member', d) \ unchecked'[d] \in SUBSET (ActiveIn(member, d) \ unchecked[d])
          /\ ActiveIn(member, d) \ unchecked[d] \in SUBSET Users
      BY <2>4, <2>5, <2>7 DEF ActiveIn
    <3>2. Cardinality(ActiveIn(member, d) \ unchecked[d]) <= StaffLimit
      BY DEF TeamInv, TeamFits, Members, ActiveIn
    <3>. QED  BY <3>1, <3>2, Parts, TeamAssumption
  <2>8. ASSUME manager[w].fresh
        PROVE  Cardinality(ActiveIn(member', c) \ unchecked'[c]) <= StaffLimit
    <3>1. /\ ActiveIn(member', c) \ unchecked'[c] \in SUBSET (ActiveIn(member, c) \cup manager[w].who)
          /\ ActiveIn(member, c) \in SUBSET Users /\ manager[w].who \in SUBSET Users
      BY <1>1, <2>4 DEF ActiveIn
    <3>2. Cardinality(ActiveIn(member, c) \cup manager[w].who)
            <= Cardinality(ActiveIn(member, c)) + Cardinality(manager[w].who)
      BY <3>1, Together
    <3>3. /\ Cardinality(ActiveIn(member, c)) \in Nat /\ Cardinality(manager[w].who) \in Nat
          /\ Cardinality(ActiveIn(member, c) \cup manager[w].who) \in Nat
          /\ Cardinality(ActiveIn(member', c) \ unchecked'[c]) \in Nat
          /\ Cardinality(ActiveIn(member', c) \ unchecked'[c])
               <= Cardinality(ActiveIn(member, c) \cup manager[w].who)
      BY <3>1, Parts
    <3>. QED  BY <2>2, <2>8, <3>2, <3>3, TeamAssumption
  <2>9. ASSUME NEW d \in Companies
        PROVE  Cardinality(ActiveIn(member', d) \ unchecked'[d]) <= StaffLimit
    BY <2>7, <2>8, <2>9
  <2>. QED  BY <1>1, <2>1, <2>3, <2>6, <2>9, Outdating
<1>. QED  BY <1>2, <1>3

LEMMA TeamStepsPreserve ==
  ASSUME TeamInv, [TeamNext]_teamVars
  PROVE  TeamInv'
<1>1. CASE UNCHANGED teamVars
  <2>1. TeamTypeOK'
    BY <1>1, TeamTyped, TeamTypedAgain DEF TeamInv, teamVars
  <2>. QED  BY <1>1, <2>1 DEF TeamInv, TeamFits, Members, teamVars
<1>2. CASE TeamNext
  BY <1>2, CountingTeams, Switching, Admitting, Transferring DEF TeamNext
<1>. QED  BY <1>1, <1>2

\* The inductive invariant: who is about to join or to move, on a count no other
\* admission has made old, still finds room.
THEOREM TeamInvariant == TeamSpec => []TeamInv
<1>1. TeamInit => TeamInv
  BY TeamInitHolds
<1>2. TeamInv /\ [TeamNext]_teamVars => TeamInv'
  BY TeamStepsPreserve
<1>. QED  BY <1>1, <1>2, PTL DEF TeamSpec

\* Whatever the limit of the plan and however invitations, transfers and
\* switches overlap, a team outgrows it only by members switched on by hand or
\* admitted on a count that was old (verifyStaffInvitation, updateStaff and
\* transferStaffBetweenBusinesses in staffService.ts).
THEOREM TeamKeepsLimit == TeamSpec => []TeamFits
<1>1. TeamInv => TeamFits
  BY DEF TeamInv
<1>. QED  BY <1>1, TeamInvariant, PTL

\* A member of staff is on a team in one way only, and a request of a manager
\* is one of those staffService knows, about members of the teams there are.
THEOREM TeamTypeCorrect == TeamSpec => []TeamTypeOK
<1>1. TeamInv => TeamTypeOK
  BY DEF TeamInv
<1>. QED  BY <1>1, TeamInvariant, PTL

-----------------------------------------------------------------------------
(* Verification of a phone number *)

CodeRow == [age : Ages, used : BOOLEAN, attempts : Nat]
Request == [at : {"rest", "clean", "look", "retire", "store"}, code : 0 .. MaxCodes]
AttemptSteps == {"rest", "right", "wrong", "accept", "close"}
Attempt == [at : AttemptSteps, code : 0 .. MaxCodes]
AllChecks == Cardinality(Checks)

\* The attempts at code c that are at one of the places.
Under(f, c, places) == {v \in Checks : f[v].at \in places /\ f[v].code = c}
Trying == {"right", "wrong"}
Winning == {"right", "accept"}

\* What a row and the attempts that have read it amount to.
Spent(row, f, c) ==
  row # Gone => row.attempts + Cardinality(Under(f, c, Trying)) <= MaxAttempts + AllChecks - 1

\* A code that was accepted is read no more.
UsedUp(row, n) == n > 0 => row = Gone \/ row.used

VerificationInv ==
  /\ verification \in [Codes -> {Gone} \cup CodeRow]
  /\ codesSent \in 0 .. MaxCodes
  /\ request \in [Sends -> Request]
  /\ attempt \in [Checks -> Attempt]
  /\ accepted \in [Codes -> Nat]
  /\ \A c \in Codes :
       /\ c > codesSent => verification[c] = Gone /\ accepted[c] = 0
       /\ Spent(verification[c], attempt, c)
       /\ UsedUp(verification[c], accepted[c])
       /\ accepted[c] + Cardinality(Under(attempt, c, Winning)) <= AllChecks

LEMMA VerificationConstants ==
  /\ AllChecks \in Nat /\ AllChecks >= 1 /\ MaxAttempts \in Nat /\ MaxAttempts >= 1
  /\ MaxCodes \in Nat
<1>1. IsFiniteSet(Checks) /\ Checks # {}
  BY VerificationAssumption
<1>2. AllChecks \in Nat /\ AllChecks # 0
  BY <1>1, FS_CardinalityType, FS_EmptySet DEF AllChecks
<1>. QED  BY <1>2, VerificationAssumption

LEMMA UnderCounts ==
  ASSUME NEW f, NEW c, NEW places
  PROVE  /\ IsFiniteSet(Under(f, c, places))
         /\ Cardinality(Under(f, c, places)) \in Nat
         /\ Cardinality(Under(f, c, places)) <= AllChecks
<1>1. Under(f, c, places) \in SUBSET Checks
  BY DEF Under
<1>. QED  BY <1>1, VerificationAssumption, FS_Subset, FS_CardinalityType DEF AllChecks

\* One attempt turns to another place.
LEMMA AttemptMoves ==
  ASSUME NEW f \in [Checks -> Attempt], NEW v \in Checks, NEW s \in Attempt,
         NEW g, g = [f EXCEPT ![v] = s], NEW c, NEW places,
         s.at \in places /\ s.code = c => f[v].at \in places /\ f[v].code = c
  PROVE  Cardinality(Under(g, c, places)) <= Cardinality(Under(f, c, places))
<1>. DEFINE S == Under(f, c, places)
            T == Under(g, c, places)
<1>1. T \in SUBSET S
  BY DEF Under
<1>2. IsFiniteSet(S)
  BY UnderCounts
<1>. HIDE DEF S, T
<1>3. Cardinality(T) <= Cardinality(S)
  BY <1>1, <1>2, FS_Subset
<1>. QED  BY <1>3 DEF S, T

\* One attempt taken away leaves one fewer.
LEMMA OneFewer ==
  ASSUME NEW f, NEW c, NEW places, NEW v \in Under(f, c, places)
  PROVE  Cardinality(Under(f, c, places) \ {v}) = Cardinality(Under(f, c, places)) - 1
<1>. DEFINE S == Under(f, c, places)
<1>1. IsFiniteSet(S)
  BY UnderCounts
<1>. HIDE DEF S
<1>2. v \in S => Cardinality(S \ {v}) = Cardinality(S) - 1
  BY <1>1, FS_RemoveElement
<1>. QED  BY <1>2 DEF S

LEMMA VerificationInitHolds == VerificationInit => VerificationInv
<1>. SUFFICES ASSUME VerificationInit
              PROVE  VerificationInv
  OBVIOUS
<1>1. /\ verification \in [Codes -> {Gone} \cup CodeRow] /\ codesSent \in 0 .. MaxCodes
      /\ request \in [Sends -> Request] /\ attempt \in [Checks -> Attempt]
      /\ accepted \in [Codes -> Nat]
  BY VerificationConstants DEF VerificationInit, AtRest, Request, Attempt, AttemptSteps
<1>2. ASSUME NEW c \in Codes
      PROVE  /\ verification[c] = Gone /\ accepted[c] = 0
             /\ accepted[c] + Cardinality(Under(attempt, c, Winning)) <= AllChecks
  BY UnderCounts, VerificationConstants DEF VerificationInit
<1>. QED  BY <1>1, <1>2 DEF VerificationInv, Spent, UsedUp

\* The steps that send codes and those of time retire and delete rows, and read
\* or count none.
LEMMA RowsAge ==
  ASSUME VerificationInv, UNCHANGED <<codesSent, attempt, accepted>>,
         request' \in [Sends -> Request],
         verification' \in [Codes -> {Gone} \cup CodeRow],
         \A c \in Codes : verification'[c] # Gone =>
           /\ verification[c] # Gone
           /\ verification'[c].attempts = verification[c].attempts
           /\ verification[c].used => verification'[c].used
  PROVE  VerificationInv'
BY DEF VerificationInv, Spent, UsedUp

LEMMA Requesting ==
  ASSUME VerificationInv, NEW w \in Sends, NEW from, NEW at, NEW c,
         RequestTurns(w, from, at, c), c \in 0 .. MaxCodes,
         at \in {"rest", "clean", "look", "retire", "store"}
  PROVE  request' \in [Sends -> Request]
<1>1. [at |-> at, code |-> c] \in Request
  BY DEF Request
<1>. QED  BY <1>1 DEF VerificationInv, RequestTurns

LEMMA StoredRow ==
  ASSUME VerificationInv, NEW c \in Stored
  PROVE  c \in Codes /\ verification[c] \in CodeRow /\ c \in 0 .. MaxCodes
BY VerificationConstants DEF VerificationInv, Stored, Codes

LEMMA Marking ==
  ASSUME VerificationInv, NEW c \in Stored, MarkAsUsed(c)
  PROVE  /\ verification' \in [Codes -> {Gone} \cup CodeRow]
         /\ \A d \in Codes : verification'[d] # Gone =>
              /\ verification[d] # Gone
              /\ verification'[d].attempts = verification[d].attempts
              /\ verification[d].used => verification'[d].used
         /\ verification'[c].used
<1>1. verification' = [verification EXCEPT ![c] = [verification[c] EXCEPT !.used = TRUE]]
  BY DEF MarkAsUsed
<1>2. verification[c] \in CodeRow /\ c \in Codes
  BY StoredRow
<1>. DEFINE r == [verification[c] EXCEPT !.used = TRUE]
<1>3. r \in CodeRow /\ r.used /\ r.attempts = verification[c].attempts
  BY <1>2 DEF CodeRow
<1>. HIDE DEF r
<1>4. verification' = [verification EXCEPT ![c] = r]
  BY <1>1 DEF r
<1>. QED  BY <1>2, <1>3, <1>4 DEF VerificationInv, Stored

LEMMA CodeGoes ==
  ASSUME VerificationInv, NEW w \in Sends,
         CheckRateLimits(w) \/ Cleanup(w) \/ Look(w) \/ Retire(w)
  PROVE  VerificationInv'
<1>0. 0 \in 0 .. MaxCodes
  BY VerificationConstants
<1>1. CASE CheckRateLimits(w)
  <2>1. request' \in [Sends -> Request]
    BY <1>0, <1>1, Requesting DEF CheckRateLimits
  <2>. QED  BY <1>1, <2>1, RowsAge DEF CheckRateLimits, VerificationInv
<1>2. CASE Cleanup(w)
  <2>1. request' \in [Sends -> Request]
    BY <1>0, <1>2, Requesting DEF Cleanup
  <2>2. \A c \in Codes : verification'[c] \in {Gone, verification[c]}
    BY <1>2 DEF Cleanup
  <2>3. verification' \in [Codes -> {Gone} \cup CodeRow]
    BY <1>2, <2>2 DEF Cleanup, VerificationInv
  <2>. QED  BY <1>2, <2>1, <2>2, <2>3, RowsAge DEF Cleanup
<1>3. CASE Look(w)
  <2>1. Unexpired \subseteq 0 .. MaxCodes
    BY VerificationConstants DEF Unexpired, Unused, Stored, Codes
  <2>2. request' \in [Sends -> Request]
    BY <1>0, <1>3, <2>1, Requesting DEF Look
  <2>. QED  BY <1>3, <2>2, RowsAge DEF Look, VerificationInv
<1>4. CASE Retire(w)
  <2>1. request' \in [Sends -> Request] /\ UNCHANGED <<codesSent, attempt, accepted>>
    BY <1>0, <1>4, Requesting DEF Retire
  <2>2. CASE request[w].code \in Stored
    <3>1. MarkAsUsed(request[w].code)
      BY <1>4, <2>2 DEF Retire
    <3>. QED  BY <2>1, <2>2, <3>1, Marking, RowsAge
  <2>3. CASE request[w].code \notin Stored
    <3>1. UNCHANGED verification
      BY <1>4, <2>3 DEF Retire
    <3>. QED  BY <2>1, <3>1, RowsAge DEF VerificationInv
  <2>. QED  BY <2>2, <2>3
<1>. QED  BY <1>1, <1>2, <1>3, <1>4

LEMMA Aging ==
  ASSUME VerificationInv, InvalidateUserVerifications \/ TimePasses
  PROVE  VerificationInv'
<1>1. UNCHANGED <<codesSent, request, attempt, accepted>>
  BY DEF InvalidateUserVerifications, TimePasses
<1>2. request' \in [Sends -> Request]
  BY <1>1 DEF VerificationInv
<1>3. PICK cs \in SUBSET Stored :
        \/ verification' = [c \in Codes |->
             IF c \in cs THEN [verification[c] EXCEPT !.used = TRUE] ELSE verification[c]]
        \/ verification' = [c \in Codes |->
             IF c \in cs THEN [verification[c] EXCEPT !.age = Older[@]] ELSE verification[c]]
  BY DEF InvalidateUserVerifications, TimePasses
<1>4. ASSUME NEW c \in cs
      PROVE  /\ verification'[c] \in CodeRow /\ verification[c] # Gone
             /\ verification'[c].attempts = verification[c].attempts
             /\ verification[c].used => verification'[c].used
  <2>1. verification[c] \in CodeRow /\ c \in Codes /\ verification[c] # Gone
    BY StoredRow DEF Stored
  <2>2. \A age \in Ages : Older[age] \in Ages
    BY DEF Older, Ages
  <2>3. [verification[c] EXCEPT !.used = TRUE] \in CodeRow
    BY <2>1 DEF CodeRow
  <2>4. [verification[c] EXCEPT !.age = Older[@]] \in CodeRow
    BY <2>1, <2>2 DEF CodeRow
  <2>. QED  BY <1>3, <2>1, <2>3, <2>4 DEF CodeRow
<1>5. \A c \in Codes \ cs : verification'[c] = verification[c]
  BY <1>3
<1>6. verification' \in [Codes -> {Gone} \cup CodeRow]
  <2>1. \A c \in Codes : verification'[c] \in {Gone} \cup CodeRow
    BY <1>4, <1>5 DEF VerificationInv
  <2>. QED  BY <1>3, <2>1
<1>. QED  BY <1>1, <1>2, <1>4, <1>5, <1>6, RowsAge

LEMMA AttemptStores ==
  ASSUME VerificationInv, NEW w \in Sends, StoreCode(w)
  PROVE  VerificationInv'
<1>. DEFINE n == codesSent + 1
            r == [age |-> "cooling", used |-> FALSE, attempts |-> 0]
<1>1. /\ codesSent < MaxCodes /\ codesSent' = n /\ UNCHANGED <<attempt, accepted>>
      /\ verification' = [verification EXCEPT ![n] = r]
  BY DEF StoreCode
<1>2. request' \in [Sends -> Request]
  BY VerificationConstants, Requesting DEF StoreCode
<1>3. /\ codesSent \in Nat /\ codesSent' \in 0 .. MaxCodes /\ n \in Codes /\ n \in Nat
      /\ r \in CodeRow
  BY <1>1, VerificationConstants DEF VerificationInv, Codes, CodeRow, Ages
<1>4. verification' \in [Codes -> {Gone} \cup CodeRow]
  BY <1>1, <1>3 DEF VerificationInv
<1>5. ASSUME NEW c \in Codes
      PROVE  /\ c > codesSent' => verification'[c] = Gone /\ accepted'[c] = 0
             /\ Spent(verification'[c], attempt', c)
             /\ UsedUp(verification'[c], accepted'[c])
             /\ accepted'[c] + Cardinality(Under(attempt', c, Winning)) <= AllChecks
  <2>1. CASE c = n
    <3>1. verification'[c] = r /\ accepted'[c] = 0 /\ ~(c > codesSent')
      BY <1>1, <1>3, <2>1 DEF VerificationInv
    <3>2. Cardinality(Under(attempt', c, Trying)) <= AllChecks
          /\ Cardinality(Under(attempt', c, Trying)) \in Nat
      BY UnderCounts
    <3>3. Spent(r, attempt', c)
      BY <3>2, VerificationConstants DEF Spent
    <3>. QED  BY <1>1, <3>1, <3>3 DEF VerificationInv, UsedUp
  <2>2. CASE c # n
    <3>1. verification'[c] = verification[c] /\ (c > codesSent' => c > codesSent)
      BY <1>1, <1>3, <2>2 DEF VerificationInv, Codes
    <3>. QED  BY <1>1, <3>1 DEF VerificationInv
  <2>. QED  BY <2>1, <2>2
<1>. QED  BY <1>1, <1>2, <1>3, <1>4, <1>5 DEF VerificationInv

LEMMA AttemptTurned ==
  ASSUME VerificationInv, NEW v \in Checks, NEW from, NEW at \in AttemptSteps,
         NEW c \in 0 .. MaxCodes, AttemptTurns(v, from, at, c)
  PROVE  /\ attempt[v].at \in from
         /\ attempt' = [attempt EXCEPT ![v] = [at |-> at, code |-> c]]
         /\ [at |-> at, code |-> c] \in Attempt
         /\ attempt' \in [Checks -> Attempt]
<1>1. [at |-> at, code |-> c] \in Attempt
  BY DEF Attempt
<1>. QED  BY <1>1 DEF VerificationInv, AttemptTurns

\* The attempts that read a code found it below its limit and not used.
LEMMA AttemptReads ==
  ASSUME VerificationInv, NEW v \in Checks, Read(v)
  PROVE  VerificationInv'
<1>1. PICK c \in Stored : \E at \in {"close", "right", "wrong"} :
        /\ ~verification[c].used
        /\ AttemptTurns(v, {"rest"}, at, c)
        /\ at # "close" => ~(verification[c].attempts >= MaxAttempts)
  BY DEF Read, IsLatest, Unexpired, Unused
<1>2. PICK at \in {"close", "right", "wrong"} :
        /\ AttemptTurns(v, {"rest"}, at, c)
        /\ at # "close" => ~(verification[c].attempts >= MaxAttempts)
  BY <1>1
<1>3. UNCHANGED <<verification, codesSent, request, accepted>>
  BY DEF Read
<1>4. verification[c] \in CodeRow /\ c \in Codes /\ c \in 0 .. MaxCodes /\ at \in AttemptSteps
  BY StoredRow DEF AttemptSteps
<1>. DEFINE s == [at |-> at, code |-> c]
<1>5. /\ attempt' = [attempt EXCEPT ![v] = s] /\ s \in Attempt
      /\ attempt' \in [Checks -> Attempt] /\ attempt \in [Checks -> Attempt]
      /\ s.code = c /\ s.at = at
  BY <1>2, <1>4, AttemptTurned DEF VerificationInv
<1>. HIDE DEF s
<1>6. ASSUME NEW d \in Codes, d # c
      PROVE  /\ Cardinality(Under(attempt', d, Trying)) <= Cardinality(Under(attempt, d, Trying))
             /\ Cardinality(Under(attempt', d, Winning)) <= Cardinality(Under(attempt, d, Winning))
  BY <1>5, <1>6, AttemptMoves
<1>7. accepted[c] = 0
  <2>1. ~(accepted[c] > 0)
    BY <1>1, <1>4 DEF VerificationInv, UsedUp, Stored
  <2>. QED  BY <1>4, <2>1 DEF VerificationInv
<1>8. ASSUME NEW d \in Codes
      PROVE  /\ Spent(verification[d], attempt', d)
             /\ accepted[d] + Cardinality(Under(attempt', d, Winning)) <= AllChecks
  <2>1. /\ Cardinality(Under(attempt', d, Trying)) \in Nat
        /\ Cardinality(Under(attempt', d, Winning)) \in Nat
        /\ Cardinality(Under(attempt', d, Trying)) <= AllChecks
        /\ Cardinality(Under(attempt', d, Winning)) <= AllChecks
        /\ Cardinality(Under(attempt, d, Trying)) \in Nat
        /\ Cardinality(Under(attempt, d, Winning)) \in Nat
    BY UnderCounts
  <2>2. CASE d # c
    <3>1. Spent(verification[d], attempt, d)
          /\ accepted[d] + Cardinality(Under(attempt, d, Winning)) <= AllChecks
          /\ verification[d] \in {Gone} \cup CodeRow /\ accepted[d] \in Nat
      BY DEF VerificationInv
    <3>2. verification[d] # Gone => verification[d].attempts \in Nat
      BY <3>1 DEF CodeRow
    <3>. QED  BY <1>6, <2>1, <2>2, <3>1, <3>2, VerificationConstants DEF Spent
  <2>3. CASE d = c /\ at # "close"
    <3>1. verification[c].attempts \in Nat /\ verification[c].attempts < MaxAttempts
      BY <1>2, <1>4, <2>3, VerificationConstants DEF CodeRow
    <3>. QED  BY <1>7, <2>1, <2>3, <3>1, VerificationConstants DEF Spent
  <2>4. CASE d = c /\ at = "close"
    <3>1. Cardinality(Under(attempt', c, Trying)) <= Cardinality(Under(attempt, c, Trying))
      BY <1>5, <2>4, AttemptMoves DEF Trying
    <3>2. Spent(verification[c], attempt, c) /\ verification[c].attempts \in Nat
      BY <1>4 DEF VerificationInv, CodeRow
    <3>. QED  BY <1>7, <2>1, <2>4, <3>1, <3>2, VerificationConstants DEF Spent
  <2>. QED  BY <2>2, <2>3, <2>4
<1>. QED  BY <1>3, <1>5, <1>8 DEF VerificationInv

\* An attempt that turns to a place where it counts no longer.
LEMMA AttemptEnds ==
  ASSUME VerificationInv, NEW v \in Checks, NEW s \in Attempt,
         attempt' = [attempt EXCEPT ![v] = s], s.at \in {"rest", "close"},
         UNCHANGED <<verification, codesSent, request, accepted>>
  PROVE  VerificationInv'
<1>1. attempt' \in [Checks -> Attempt] /\ attempt \in [Checks -> Attempt]
  BY DEF VerificationInv
<1>2. ASSUME NEW d \in Codes
      PROVE  /\ Spent(verification[d], attempt', d)
             /\ accepted[d] + Cardinality(Under(attempt', d, Winning)) <= AllChecks
  <2>1. /\ Cardinality(Under(attempt', d, Trying)) <= Cardinality(Under(attempt, d, Trying))
        /\ Cardinality(Under(attempt', d, Winning)) <= Cardinality(Under(attempt, d, Winning))
    BY <1>1, AttemptMoves DEF Trying, Winning
  <2>2. /\ Cardinality(Under(attempt', d, Trying)) \in Nat
        /\ Cardinality(Under(attempt', d, Winning)) \in Nat
        /\ Cardinality(Under(attempt, d, Trying)) \in Nat
        /\ Cardinality(Under(attempt, d, Winning)) \in Nat
    BY UnderCounts
  <2>3. /\ Spent(verification[d], attempt, d)
        /\ accepted[d] + Cardinality(Under(attempt, d, Winning)) <= AllChecks
        /\ verification[d] \in {Gone} \cup CodeRow /\ accepted[d] \in Nat
    BY DEF VerificationInv
  <2>4. verification[d] # Gone => verification[d].attempts \in Nat
    BY <2>3 DEF CodeRow
  <2>. QED  BY <2>1, <2>2, <2>3, <2>4, VerificationConstants DEF Spent
<1>. QED  BY <1>1, <1>2 DEF VerificationInv

LEMMA Incrementing ==
  ASSUME VerificationInv, NEW v \in Checks, IncrementAttempts(v)
  PROVE  VerificationInv'
<1>. DEFINE c == attempt[v].code
            n == verification[c].attempts + 1
<1>0. /\ attempt[v] \in Attempt /\ c \in 0 .. MaxCodes /\ 0 \in 0 .. MaxCodes
      /\ {"accept", "close", "rest"} \subseteq AttemptSteps
      /\ UNCHANGED <<codesSent, request, accepted>>
  BY VerificationConstants DEF VerificationInv, Attempt, IncrementAttempts, AttemptSteps
<1>1. CASE c \in Stored
  <2>1. /\ verification' = [verification EXCEPT ![c].attempts = n]
        /\ \/ attempt[v].at = "right" /\ AttemptTurns(v, {"right"}, "accept", c)
           \/ AttemptTurns(v, {"wrong"}, "close", c)
           \/ AttemptTurns(v, {"wrong"}, "rest", 0)
    BY <1>1 DEF IncrementAttempts
  <2>2. PICK s \in Attempt :
          /\ attempt' = [attempt EXCEPT ![v] = s]
          /\ \/ attempt[v].at = "right" /\ s.at = "accept" /\ s.code = c
             \/ attempt[v].at = "wrong" /\ s.at \in {"close", "rest"}
    <3>1. ASSUME NEW from \in {"right", "wrong"}, NEW at \in {"accept", "close", "rest"},
                 NEW e \in {c, 0}, AttemptTurns(v, {from}, at, e)
          PROVE  /\ attempt[v].at = from /\ [at |-> at, code |-> e] \in Attempt
                 /\ attempt' = [attempt EXCEPT ![v] = [at |-> at, code |-> e]]
      BY <1>0, <3>1, AttemptTurned
    <3>. QED  BY <2>1, <3>1
  <2>3. verification[c] \in CodeRow /\ c \in Codes
    BY <1>1, StoredRow
  <2>. DEFINE r == [verification[c] EXCEPT !.attempts = n]
  <2>4. /\ r \in CodeRow /\ r.attempts = verification[c].attempts + 1
        /\ r.used = verification[c].used /\ verification[c].attempts \in Nat /\ r # Gone
    BY <2>3 DEF CodeRow, Gone, Ages
  <2>5. verification' = [verification EXCEPT ![c] = r]
    BY <2>1
  <2>. HIDE DEF r, n
  <2>6. /\ verification' \in [Codes -> {Gone} \cup CodeRow] /\ attempt' \in [Checks -> Attempt]
        /\ attempt \in [Checks -> Attempt]
        /\ \A d \in Codes : verification'[d] = IF d = c THEN r ELSE verification[d]
    BY <2>2, <2>4, <2>5 DEF VerificationInv
  <2>7. ASSUME NEW d \in Codes
        PROVE  /\ Cardinality(Under(attempt', d, Trying)) <= Cardinality(Under(attempt, d, Trying))
               /\ d = c => Cardinality(Under(attempt', d, Trying))
                             = Cardinality(Under(attempt, d, Trying)) - 1
               /\ Cardinality(Under(attempt', d, Winning)) <= Cardinality(Under(attempt, d, Winning))
    <3>1. s.at \notin Trying
      BY <2>2 DEF Trying
    <3>2. attempt[v].at \in Trying
      BY <2>2 DEF Trying
    <3>3. s.at \in Winning /\ s.code = d => attempt[v].at \in Winning /\ attempt[v].code = d
      BY <2>2 DEF Winning
    <3>4. Cardinality(Under(attempt', d, Trying)) <= Cardinality(Under(attempt, d, Trying))
      BY <2>2, <2>6, <3>1, AttemptMoves
    <3>5. ASSUME attempt[v].code = d
          PROVE  Cardinality(Under(attempt', d, Trying)) = Cardinality(Under(attempt, d, Trying)) - 1
      <4>1. /\ Under(attempt', d, Trying) = Under(attempt, d, Trying) \ {v}
            /\ v \in Under(attempt, d, Trying)
        BY <2>2, <2>6, <3>1, <3>2, <3>5 DEF Under
      <4>. QED  BY <4>1, OneFewer
    <3>6. Cardinality(Under(attempt', d, Winning)) <= Cardinality(Under(attempt, d, Winning))
      BY <2>2, <2>6, <3>3, AttemptMoves
    <3>. QED  BY <3>4, <3>5, <3>6
  <2>8. ASSUME NEW d \in Codes
        PROVE  /\ d > codesSent => verification'[d] = Gone /\ accepted[d] = 0
               /\ Spent(verification'[d], attempt', d)
               /\ UsedUp(verification'[d], accepted[d])
               /\ accepted[d] + Cardinality(Under(attempt', d, Winning)) <= AllChecks
    <3>1. /\ Cardinality(Under(attempt', d, Trying)) \in Nat
          /\ Cardinality(Under(attempt', d, Winning)) \in Nat
          /\ Cardinality(Under(attempt, d, Trying)) \in Nat
          /\ Cardinality(Under(attempt, d, Winning)) \in Nat
      BY UnderCounts
    <3>2. /\ d > codesSent => verification[d] = Gone /\ accepted[d] = 0
          /\ Spent(verification[d], attempt, d) /\ UsedUp(verification[d], accepted[d])
          /\ accepted[d] + Cardinality(Under(attempt, d, Winning)) <= AllChecks
          /\ verification[d] \in {Gone} \cup CodeRow /\ accepted[d] \in Nat
      BY DEF VerificationInv
    <3>3. verification[d] # Gone => verification[d].attempts \in Nat
      BY <3>2 DEF CodeRow
    <3>4. accepted[d] + Cardinality(Under(attempt', d, Winning)) <= AllChecks
      BY <2>7, <3>1, <3>2, VerificationConstants
    <3>5. Spent(verification'[d], attempt', d)
      <4>1. CASE d = c
        <5>1. verification[c].attempts + Cardinality(Under(attempt, c, Trying))
                <= MaxAttempts + AllChecks - 1
          BY <1>1, <3>2, <4>1 DEF Spent, Stored
        <5>2. (verification[c].attempts + 1) + (Cardinality(Under(attempt, c, Trying)) - 1)
                <= MaxAttempts + AllChecks - 1
          BY <2>4, <3>1, <4>1, <5>1, VerificationConstants
        <5>. QED  BY <2>4, <2>6, <2>7, <4>1, <5>2 DEF Spent
      <4>2. CASE d # c
        BY <2>6, <2>7, <3>1, <3>2, <3>3, <4>2, VerificationConstants DEF Spent
      <4>. QED  BY <4>1, <4>2
    <3>6. /\ d > codesSent => verification'[d] = Gone /\ accepted[d] = 0
          /\ UsedUp(verification'[d], accepted[d])
      BY <1>1, <2>4, <2>6, <3>2 DEF UsedUp, Stored
    <3>. QED  BY <3>4, <3>5, <3>6
  <2>. QED  BY <1>0, <2>6, <2>8 DEF VerificationInv
<1>2. CASE c \notin Stored
  <2>1. AttemptTurns(v, {"right", "wrong"}, "rest", 0) /\ UNCHANGED verification
    BY <1>2 DEF IncrementAttempts
  <2>2. /\ attempt' = [attempt EXCEPT ![v] = [at |-> "rest", code |-> 0]]
        /\ [at |-> "rest", code |-> 0] \in Attempt
    BY <1>0, <2>1, AttemptTurned
  <2>. QED  BY <1>0, <2>1, <2>2, AttemptEnds
<1>. QED  BY <1>1, <1>2

\* A code is accepted at most once for each attempt that had read it before.
LEMMA Finishing ==
  ASSUME VerificationInv, NEW v \in Checks, Finish(v)
  PROVE  VerificationInv'
<1>. DEFINE c == attempt[v].code
            s == [at |-> "rest", code |-> 0]
<1>1. /\ attempt[v].at \in {"accept", "close"} /\ UNCHANGED <<codesSent, request>>
      /\ attempt' = [attempt EXCEPT ![v] = s] /\ s \in Attempt /\ s.at = "rest"
  <2>1. "rest" \in AttemptSteps /\ 0 \in 0 .. MaxCodes
    BY VerificationConstants DEF AttemptSteps
  <2>2. AttemptTurns(v, {"accept", "close"}, "rest", 0) /\ UNCHANGED <<codesSent, request>>
    BY DEF Finish
  <2>3. /\ attempt[v].at \in {"accept", "close"}
        /\ attempt' = [attempt EXCEPT ![v] = s] /\ s \in Attempt
    BY <2>1, <2>2, AttemptTurned
  <2>. QED  BY <2>2, <2>3
<1>. HIDE DEF s
<1>2. CASE c \notin Stored
  <2>1. UNCHANGED <<verification, accepted>>
    BY <1>2 DEF Finish
  <2>. QED  BY <1>1, <2>1, AttemptEnds
<1>3. CASE c \in Stored /\ attempt[v].at = "close"
  <2>1. MarkAsUsed(c) /\ accepted' = accepted
    BY <1>3 DEF Finish, Answered
  <2>2. attempt' \in [Checks -> Attempt] /\ attempt \in [Checks -> Attempt]
    BY <1>1 DEF VerificationInv
  <2>3. /\ verification' \in [Codes -> {Gone} \cup CodeRow]
        /\ \A d \in Codes : verification'[d] # Gone =>
              /\ verification[d] # Gone
              /\ verification'[d].attempts = verification[d].attempts
              /\ verification[d].used => verification'[d].used
    BY <1>3, <2>1, Marking
  <2>4. ASSUME NEW d \in Codes
        PROVE  /\ Spent(verification'[d], attempt', d)
               /\ accepted[d] + Cardinality(Under(attempt', d, Winning)) <= AllChecks
    <3>1. /\ Cardinality(Under(attempt', d, Trying)) <= Cardinality(Under(attempt, d, Trying))
          /\ Cardinality(Under(attempt', d, Winning)) <= Cardinality(Under(attempt, d, Winning))
      BY <1>1, <2>2, AttemptMoves DEF Trying, Winning
    <3>2. /\ Cardinality(Under(attempt', d, Trying)) \in Nat
          /\ Cardinality(Under(attempt', d, Winning)) \in Nat
          /\ Cardinality(Under(attempt, d, Trying)) \in Nat
          /\ Cardinality(Under(attempt, d, Winning)) \in Nat
      BY UnderCounts
    <3>3. /\ Spent(verification[d], attempt, d)
          /\ accepted[d] + Cardinality(Under(attempt, d, Winning)) <= AllChecks
          /\ verification[d] \in {Gone} \cup CodeRow /\ accepted[d] \in Nat
      BY DEF VerificationInv
    <3>4. verification[d] # Gone => verification[d].attempts \in Nat
      BY <3>3 DEF CodeRow
    <3>. QED  BY <2>3, <3>1, <3>2, <3>3, <3>4, VerificationConstants DEF Spent
  <2>. QED  BY <1>1, <2>1, <2>2, <2>3, <2>4 DEF VerificationInv, UsedUp
<1>4. CASE c \in Stored /\ attempt[v].at = "accept"
  <2>1. MarkAsUsed(c) /\ accepted' = [accepted EXCEPT ![c] = @ + 1] /\ c \in Codes
    BY <1>4, StoredRow DEF Finish, Answered
  <2>2. /\ attempt' \in [Checks -> Attempt] /\ attempt \in [Checks -> Attempt]
        /\ accepted \in [Codes -> Nat] /\ accepted' \in [Codes -> Nat]
    BY <1>1, <2>1 DEF VerificationInv
  <2>3. /\ verification' \in [Codes -> {Gone} \cup CodeRow]
        /\ verification'[c].used
        /\ \A d \in Codes : verification'[d] # Gone =>
              /\ verification[d] # Gone
              /\ verification'[d].attempts = verification[d].attempts
              /\ verification[d].used => verification'[d].used
    BY <1>4, <2>1, Marking
  <2>4. ASSUME NEW d \in Codes
        PROVE  /\ Spent(verification'[d], attempt', d)
               /\ accepted'[d] + Cardinality(Under(attempt', d, Winning)) <= AllChecks
    <3>1. /\ Cardinality(Under(attempt', d, Trying)) <= Cardinality(Under(attempt, d, Trying))
          /\ Cardinality(Under(attempt', d, Winning)) <= Cardinality(Under(attempt, d, Winning))
          /\ d = c => Cardinality(Under(attempt', d, Winning))
                        = Cardinality(Under(attempt, d, Winning)) - 1
      <4>1. s.at \notin Trying /\ s.at \notin Winning /\ attempt[v].at \in Winning
        BY <1>1, <1>4 DEF Trying, Winning
      <4>2. Cardinality(Under(attempt', d, Trying)) <= Cardinality(Under(attempt, d, Trying))
        BY <1>1, <2>2, <4>1, AttemptMoves
      <4>3. Cardinality(Under(attempt', d, Winning)) <= Cardinality(Under(attempt, d, Winning))
        BY <1>1, <2>2, <4>1, AttemptMoves
      <4>4. ASSUME attempt[v].code = d
            PROVE  Cardinality(Under(attempt', d, Winning))
                     = Cardinality(Under(attempt, d, Winning)) - 1
        <5>1. /\ Under(attempt', d, Winning) = Under(attempt, d, Winning) \ {v}
              /\ v \in Under(attempt, d, Winning)
          BY <1>1, <2>2, <4>1, <4>4 DEF Under
        <5>. QED  BY <5>1, OneFewer
      <4>. QED  BY <4>2, <4>3, <4>4
    <3>2. /\ Cardinality(Under(attempt', d, Trying)) \in Nat
          /\ Cardinality(Under(attempt', d, Winning)) \in Nat
          /\ Cardinality(Under(attempt, d, Trying)) \in Nat
          /\ Cardinality(Under(attempt, d, Winning)) \in Nat
      BY UnderCounts
    <3>3. /\ Spent(verification[d], attempt, d)
          /\ accepted[d] + Cardinality(Under(attempt, d, Winning)) <= AllChecks
          /\ verification[d] \in {Gone} \cup CodeRow
      BY DEF VerificationInv
    <3>4. verification[d] # Gone => verification[d].attempts \in Nat
      BY <3>3 DEF CodeRow
    <3>5. Spent(verification'[d], attempt', d)
      BY <2>3, <3>1, <3>2, <3>3, <3>4, VerificationConstants DEF Spent
    <3>6. accepted'[d] + Cardinality(Under(attempt', d, Winning)) <= AllChecks
      <4>1. CASE d = c
        <5>1. accepted'[d] = accepted[d] + 1
          BY <2>1, <2>2, <4>1
        <5>2. (accepted[d] + 1) + (Cardinality(Under(attempt, d, Winning)) - 1) <= AllChecks
          BY <2>2, <3>2, <3>3, VerificationConstants
        <5>. QED  BY <3>1, <4>1, <5>1, <5>2
      <4>2. CASE d # c
        BY <2>1, <2>2, <3>1, <3>2, <3>3, <4>2, VerificationConstants
      <4>. QED  BY <4>1, <4>2
    <3>. QED  BY <3>5, <3>6
  <2>5. ASSUME NEW d \in Codes
        PROVE  /\ d > codesSent => verification'[d] = Gone /\ accepted'[d] = 0
               /\ UsedUp(verification'[d], accepted'[d])
    <3>1. ~(c > codesSent)
      BY <1>4, <2>1 DEF VerificationInv, Stored
    <3>2. d # c => accepted'[d] = accepted[d]
      BY <2>1, <2>2
    <3>. QED  BY <2>3, <3>1, <3>2 DEF VerificationInv, UsedUp
  <2>. QED  BY <1>1, <2>2, <2>3, <2>4, <2>5 DEF VerificationInv
<1>. QED  BY <1>1, <1>2, <1>3, <1>4

LEMMA Interrupting ==
  ASSUME VerificationInv, NEW v \in Checks, Interrupted(v)
  PROVE  VerificationInv'
<1>1. AtRest \in Attempt /\ AtRest.at = "rest"
  BY VerificationConstants DEF AtRest, Attempt, AttemptSteps
<1>. QED  BY <1>1, AttemptEnds DEF Interrupted

LEMMA VerificationStepsPreserve ==
  ASSUME VerificationInv, [VerificationNext]_verifyVars
  PROVE  VerificationInv'
<1>1. CASE UNCHANGED verifyVars
  BY <1>1 DEF VerificationInv, verifyVars
<1>2. CASE VerificationNext
  BY <1>2, CodeGoes, AttemptStores, Aging, AttemptReads, Incrementing, Finishing, Interrupting
  DEF VerificationNext
<1>. QED  BY <1>1, <1>2

\* The inductive invariant: the attempts counted on a code and those about to be
\* counted stay within the limit and one for each other attempt, and a code that
\* was accepted is read no more.
THEOREM VerificationInvariant == VerificationSpec => []VerificationInv
<1>1. VerificationInit => VerificationInv
  BY VerificationInitHolds
<1>2. VerificationInv /\ [VerificationNext]_verifyVars => VerificationInv'
  BY VerificationStepsPreserve
<1>. QED  BY <1>1, <1>2, PTL DEF VerificationSpec

\* However many attempts overlap, and however codes are replaced, retired and
\* deleted meanwhile, a code takes MAX_ATTEMPTS and one for each other attempt
\* under way, and is accepted by no more than had read it together (verifyCode
\* in phoneVerificationService.ts).
THEOREM CodeSpent == VerificationSpec => []CodeIsSpent
<1>1. ASSUME VerificationInv, NEW c \in Codes
      PROVE  /\ c \in Stored => verification[c].attempts <= MaxAttempts + Cardinality(Checks) - 1
             /\ accepted[c] <= Cardinality(Checks)
  <2>1. /\ Spent(verification[c], attempt, c)
        /\ accepted[c] + Cardinality(Under(attempt, c, Winning)) <= AllChecks
        /\ verification[c] \in {Gone} \cup CodeRow /\ accepted[c] \in Nat
    BY <1>1 DEF VerificationInv
  <2>2. /\ Cardinality(Under(attempt, c, Trying)) \in Nat
        /\ Cardinality(Under(attempt, c, Winning)) \in Nat
    BY UnderCounts
  <2>3. c \in Stored => verification[c].attempts \in Nat
    BY <2>1 DEF CodeRow, Stored
  <2>4. c \in Stored => verification[c].attempts <= MaxAttempts + AllChecks - 1
    BY <2>1, <2>2, <2>3, VerificationConstants DEF Spent, Stored
  <2>5. accepted[c] <= AllChecks
    BY <2>1, <2>2, VerificationConstants
  <2>. QED  BY <2>4, <2>5 DEF AllChecks
<1>2. VerificationInv => CodeIsSpent
  BY <1>1 DEF CodeIsSpent
<1>. QED  BY <1>2, VerificationInvariant, PTL

\* The variables of the codes keep their types, the count of attempts within its
\* bound (phone_verifications).
THEOREM VerificationTypeCorrect == VerificationSpec => []VerificationTypeOK
<1>1. ASSUME VerificationInv, CodeIsSpent
      PROVE  VerificationTypeOK
  <2>1. ASSUME NEW c \in Codes, verification[c] # Gone
        PROVE  verification[c] \in
                 [age : Ages, used : BOOLEAN, attempts : 0 .. MaxAttempts + Cardinality(Checks) - 1]
    <3>1. verification[c] \in CodeRow /\ c \in Stored
      BY <1>1, <2>1 DEF VerificationInv, Stored
    <3>2. verification[c].attempts <= MaxAttempts + Cardinality(Checks) - 1
      BY <1>1, <3>1 DEF CodeIsSpent
    <3>3. verification[c].attempts \in 0 .. MaxAttempts + Cardinality(Checks) - 1
      BY <3>1, <3>2, VerificationConstants DEF CodeRow, AllChecks
    <3>. QED  BY <3>1, <3>3 DEF CodeRow
  <2>. QED  BY <1>1, <2>1 DEF VerificationInv, VerificationTypeOK, Request, Attempt, AttemptSteps
<1>. QED  BY <1>1, VerificationInvariant, CodeSpent, PTL

-----------------------------------------------------------------------------
(* The parts side by side *)

\* Reminders, customers, sessions, teams, messages, codes and permissions
\* touch none of each other's rows: of each part a behaviour of all is one of
\* its own, so that its theorems hold of it.
THEOREM PlatformPartsApart ==
  PlatformSpec => /\ Spec /\ CustomerSpec /\ SessionSpec /\ TeamSpec
                  /\ SmsSpec /\ VerificationSpec /\ PermissionSpec
<1>1. PlatformInit => /\ Init /\ CustomerInit /\ SessionInit /\ TeamInit
                      /\ SmsInit /\ VerificationInit /\ PermissionInit
  BY DEF PlatformInit
<1>2. [PlatformNext]_Platform =>
        /\ [Next]_vars
        /\ [CustomerNext]_customerVars
        /\ [SessionNext]_sessionVars
        /\ [TeamNext]_teamVars
        /\ [SmsNext]_smsVars
        /\ [VerificationNext]_verifyVars
        /\ [PermissionNext]_permissionVars
  BY DEF PlatformNext, Platform
<1>. QED
  BY <1>1, <1>2, PTL
     DEF PlatformSpec, Spec, CustomerSpec, SessionSpec, TeamSpec, SmsSpec, VerificationSpec,
         PermissionSpec

\* What the parts store has the types the code gives it, for any numbers of
\* customers, tokens, members, senders, codes and instances.
THEOREM PlatformTypeCorrect == PlatformSpec => []PlatformTypeOK
<1>1. /\ CustomerTypeOK /\ SessionTypeOK /\ TeamTypeOK
      /\ SmsTypeOK /\ VerificationTypeOK /\ PermissionTypeOK
      => PlatformTypeOK
  BY DEF PlatformTypeOK
<1>. QED
  BY <1>1, PlatformPartsApart, CustomerTypeCorrect, SessionTypeCorrect, TeamTypeCorrect,
     SmsTypeCorrect, VerificationTypeCorrect, PermissionTypeCorrect, PTL
=============================================================================
