---------------------------- MODULE Verification ----------------------------
(***************************************************************************)
(* The codes sent to one phone for one purpose.  A code is a row with the  *)
(* number of attempts; a new one is stored after the latest is retired,    *)
(* and a check reads the latest, counts the attempt and then marks the row *)
(* used.  None of this is locked: requests to send and to check overlap,   *)
(* and every request to send deletes the rows that have expired.           *)
(*                                                                         *)
(* Sources: services/domain/sms/phoneVerificationService.ts,               *)
(* repositories/phoneVerificationRepository.ts.                            *)
(***************************************************************************)
EXTENDS Integers, FiniteSets

CONSTANTS
  MaxCodes,    \* bound: codes sent, numbered in the order they are stored
  Sends,       \* requests for a code in flight
  Checks,      \* attempts in flight
  MaxAttempts, \* MAX_ATTEMPTS
  DailyLimit   \* DAILY_LIMIT

ASSUME VerificationAssumption ==
  /\ MaxCodes \in Nat /\ DailyLimit \in Nat
  /\ MaxAttempts \in Nat \ {0}
  /\ IsFiniteSet(Checks) /\ Checks # {}

VARIABLES
  verification, \* the rows
  codesSent,       \* codes stored so far
  request,      \* what each request for a code is about to do
  attempt,      \* what each attempt has read and will do
  accepted      \* history: how often each code was accepted

verifyVars == <<verification, codesSent, request, attempt, accepted>>

Codes == 1 .. MaxCodes
Gone == [age |-> "none"]
AtRest == [at |-> "rest", code |-> 0]

Ages == {"cooling", "live", "grace", "expired"}

VerificationTypeOK ==
  /\ verification \in [Codes -> {Gone} \cup
       [age : Ages, used : BOOLEAN, attempts : 0 .. MaxAttempts + Cardinality(Checks) - 1]]
  /\ codesSent \in 0 .. MaxCodes
  /\ request \in [Sends ->
       [at : {"rest", "clean", "look", "retire", "store"}, code : 0 .. MaxCodes]]
  /\ attempt \in [Checks -> [at : {"rest", "right", "wrong", "accept", "close"}, code : 0 .. MaxCodes]]
  /\ accepted \in [Codes -> Nat]

VerificationInit ==
  /\ verification = [c \in Codes |-> Gone]
  /\ codesSent = 0
  /\ request = [w \in Sends |-> AtRest]
  /\ attempt = [v \in Checks |-> AtRest]
  /\ accepted = [c \in Codes |-> 0]

Stored == {c \in Codes : verification[c] # Gone}
Unused(ages) == {c \in Stored : ~verification[c].used /\ verification[c].age \in ages}
Unexpired == Unused({"cooling", "live"})
IsLatest(c, cs) == c \in cs /\ \A d \in cs : d <= c

MarkAsUsed(c) == verification' = [verification EXCEPT ![c].used = TRUE]

-----------------------------------------------------------------------------
(* sendVerificationCode *)

RequestTurns(w, from, at, c) ==
  request[w].at = from /\ request' = [request EXCEPT ![w] = [at |-> at, code |-> c]]

\* Rows of the day, which are those no later request has deleted.
CheckRateLimits(w) ==
  /\ Cardinality(Stored) < DailyLimit
  /\ RequestTurns(w, "rest", "clean", 0)
  /\ UNCHANGED <<verification, codesSent, attempt, accepted>>

Cleanup(w) ==
  /\ RequestTurns(w, "clean", "look", 0)
  /\ verification' = [c \in Codes |->
       IF c \in Stored /\ verification[c].age \in {"grace", "expired"}
         THEN Gone ELSE verification[c]]
  /\ UNCHANGED <<codesSent, attempt, accepted>>

\* The cooldown, unless the latest code is used up.
Look(w) ==
  /\ IF Unexpired = {} THEN RequestTurns(w, "look", "store", 0)
     ELSE \E c \in Unexpired :
       /\ IsLatest(c, Unexpired)
       /\ IF verification[c].age = "cooling"
            THEN RequestTurns(w, "look", "rest", 0)
            ELSE RequestTurns(w, "look", "retire", c)
  /\ UNCHANGED <<verification, codesSent, attempt, accepted>>

\* The row may have expired and gone with another request: the update fails.
Retire(w) ==
  /\ IF request[w].code \in Stored
       THEN RequestTurns(w, "retire", "store", 0) /\ MarkAsUsed(request[w].code)
       ELSE RequestTurns(w, "retire", "rest", 0) /\ UNCHANGED verification
  /\ UNCHANGED <<codesSent, attempt, accepted>>

StoreCode(w) ==
  /\ codesSent < MaxCodes
  /\ RequestTurns(w, "store", "rest", 0)
  /\ codesSent' = codesSent + 1
  /\ verification' = [verification EXCEPT ![codesSent'] =
       [age |-> "cooling", used |-> FALSE, attempts |-> 0]]
  /\ UNCHANGED <<attempt, accepted>>

-----------------------------------------------------------------------------
(* verifyCode *)

AttemptTurns(v, from, at, c) ==
  attempt[v].at \in from /\ attempt' = [attempt EXCEPT ![v] = [at |-> at, code |-> c]]

\* The latest code, or the one that expired less than five minutes ago.  The
\* number typed is right or wrong.
Read(v) ==
  /\ \E c \in Stored :
       /\ \/ IsLatest(c, Unexpired)
          \/ /\ Unexpired = {}
             /\ IsLatest(c, Unused(Ages))
             /\ verification[c].age = "grace"
       /\ IF verification[c].attempts >= MaxAttempts
            THEN AttemptTurns(v, {"rest"}, "close", c)
            ELSE \E typed \in {"right", "wrong"} : AttemptTurns(v, {"rest"}, typed, c)
  /\ UNCHANGED <<verification, codesSent, request, accepted>>

\* incrementAttempts, and what comes of the attempt.  It fails if the row has gone.
IncrementAttempts(v) ==
  LET c == attempt[v].code
      n == verification[c].attempts + 1
  IN  /\ \/ /\ c \in Stored
            /\ verification' = [verification EXCEPT ![c].attempts = n]
            /\ \/ attempt[v].at = "right" /\ AttemptTurns(v, {"right"}, "accept", c)
               \/ n >= MaxAttempts /\ AttemptTurns(v, {"wrong"}, "close", c)
               \/ n < MaxAttempts /\ AttemptTurns(v, {"wrong"}, "rest", 0)
         \/ /\ c \notin Stored
            /\ AttemptTurns(v, {"right", "wrong"}, "rest", 0)
            /\ UNCHANGED verification
      /\ UNCHANGED <<codesSent, request, accepted>>

Answered(v, c) ==
  accepted' = IF attempt[v].at = "accept" THEN [accepted EXCEPT ![c] = @ + 1] ELSE accepted

\* Fault: a code that was right is not marked.
FaultFinish(v) ==
  /\ attempt[v].code \in Stored
  /\ AttemptTurns(v, {"accept", "close"}, "rest", 0)
  /\ Answered(v, attempt[v].code)
  /\ UNCHANGED <<verification, codesSent, request>>

\* The code is used: it was right, or there were too many attempts.  If the row
\* has gone the attempt fails, right as it was.
Finish(v) ==
  /\ AttemptTurns(v, {"accept", "close"}, "rest", 0)
  /\ IF attempt[v].code \in Stored
       THEN MarkAsUsed(attempt[v].code) /\ Answered(v, attempt[v].code)
       ELSE UNCHANGED <<verification, accepted>>
  /\ UNCHANGED <<codesSent, request>>

-----------------------------------------------------------------------------
(* Deactivation, time, and instances that stop *)

\* deactivateUser.
InvalidateUserVerifications ==
  /\ Unused(Ages) # {}
  /\ verification' = [c \in Codes |->
       IF c \in Stored THEN [verification[c] EXCEPT !.used = TRUE] ELSE verification[c]]
  /\ UNCHANGED <<codesSent, request, attempt, accepted>>

Older == [cooling |-> "live", live |-> "grace", grace |-> "expired", expired |-> "expired"]

\* Every code at once; those stored later may be a stage behind.
TimePasses ==
  /\ \E c \in Stored : verification[c].age # "expired"
  /\ \E cs \in SUBSET Stored :
       /\ \A c \in cs, d \in Stored : d < c => d \in cs
       /\ cs # {}
       /\ verification' = [c \in Codes |->
            IF c \in cs THEN [verification[c] EXCEPT !.age = Older[@]] ELSE verification[c]]
  /\ UNCHANGED <<codesSent, request, attempt, accepted>>

\* A request for a code that stops is one that takes no further step.
Interrupted(v) ==
  /\ attempt[v] # AtRest
  /\ attempt' = [attempt EXCEPT ![v] = AtRest]
  /\ UNCHANGED <<verification, codesSent, request, accepted>>

VerificationNext ==
  \/ \E w \in Sends : CheckRateLimits(w) \/ Cleanup(w) \/ Look(w) \/ Retire(w) \/ StoreCode(w)
  \/ \E v \in Checks : Read(v) \/ IncrementAttempts(v) \/ Finish(v) \/ Interrupted(v)
  \/ InvalidateUserVerifications \/ TimePasses

VerificationSpec == VerificationInit /\ [][VerificationNext]_verifyVars

-----------------------------------------------------------------------------
(* Properties *)

\* However attempts overlap one another and new codes, a code takes its attempts
\* and one for each other attempt under way, and is accepted by no more than
\* the attempts that had read it together.
CodeIsSpent ==
  \A c \in Codes :
    /\ c \in Stored => verification[c].attempts <= MaxAttempts + Cardinality(Checks) - 1
    /\ accepted[c] <= Cardinality(Checks)
=============================================================================
