---------------------------- MODULE SessionsProofs ----------------------------
(***************************************************************************)
(* Proofs about Sessions for every number of clients, browsers, refreshes  *)
(* in flight, tokens and failures.                                         *)
(***************************************************************************)
EXTENDS Sessions, TLAPS

\* Nobody holds a token that was not issued.
HeldAreIssued ==
  /\ \A d \in Clients : holds[d] <= issued
  /\ \A c \in Calls : call[c] # NoCall => call[c].old <= issued /\ call[c].new <= issued

\* A refresh about to store a token was read after the last time all tokens
\* were revoked, or it is known to be late.
RefreshesKnow ==
  \A c \in Calls : call[c].at = "create" =>
    \/ token[call[c].old].epoch = epoch
    \/ call[c].late
    \/ call[c].old \in overtaken

SessionInv == SessionTypeOK /\ HeldAreIssued /\ RevokedForGood /\ RefreshesKnow

TokenRow == [state : {"none", "live", "revoked"}, epoch : 0 .. MaxEpoch]

\* What the type invariant says of the parts of the state.
LEMMA Typed ==
  ASSUME SessionTypeOK
  PROVE  /\ token \in [Tokens -> TokenRow]
         /\ issued \in 0 .. MaxTokens
         /\ \A t \in Tokens : token[t] \in TokenRow /\ (token[t].state = "none" <=> t > issued)
         /\ holds \in [Clients -> Tokens \cup {NoToken}]
         /\ call \in [Calls -> CallState]
         /\ epoch \in 0 .. MaxEpoch
         /\ overtaken \subseteq Tokens /\ excused \subseteq Clients
BY DEF SessionTypeOK, TokenRow

LEMMA InFlight ==
  ASSUME SessionTypeOK, NEW c \in Calls, call[c] # NoCall
  PROVE  /\ call[c].at \in {"read", "create", "revoke", "audit"}
         /\ call[c].client \in Clients
         /\ call[c].old \in Tokens
         /\ call[c].new \in Tokens \cup {NoToken}
         /\ call[c].late \in BOOLEAN
         /\ call[c] \in CallState
BY DEF SessionTypeOK, CallState

LEMMA InitHolds == SessionInit => SessionInv
BY SessionAssumption
DEF SessionInit, SessionInv, SessionTypeOK, HeldAreIssued, RevokedForGood, RefreshesKnow,
    Live, Tokens, NoToken, CallState, NoCall

\* A token is revoked, or all are.
LEMMA Revoking ==
  ASSUME SessionTypeOK,
         \/ \E t \in Tokens : t <= issued /\ RevokeOne(t)
         \/ RevokeEvery
         \/ UNCHANGED token
  PROVE  /\ token' \in [Tokens -> TokenRow]
         /\ \A t \in Tokens : token'[t].state = "none" <=> t > issued
         /\ \A t \in Tokens : token'[t].epoch = token[t].epoch
         /\ \A t \in Tokens : token'[t].state = "live" => token[t].state = "live"
         /\ RevokeEvery => \A t \in Tokens : token'[t].state # "live"
<1>1. /\ token \in [Tokens -> TokenRow]
      /\ \A t \in Tokens : token[t] \in TokenRow /\ (token[t].state = "none" <=> t > issued)
      /\ issued \in 0 .. MaxTokens
  BY Typed
<1>2. \A t \in Tokens : t \in Nat /\ t # NoToken
  BY SessionAssumption DEF Tokens, NoToken
<1>3. CASE UNCHANGED token
  <2>1. RevokeEvery => \A t \in Tokens : token[t].state # "live"
    BY <1>1, <1>2, <1>3 DEF RevokeEvery, Live, TokenRow
  <2>. QED  BY <1>1, <1>3, <2>1
<1>4. CASE RevokeEvery
  BY <1>1, <1>2, <1>4 DEF RevokeEvery, Live, TokenRow
<1>5. ASSUME NEW s \in Tokens, s <= issued, RevokeOne(s), ~RevokeEvery
      PROVE  /\ token' \in [Tokens -> TokenRow]
             /\ \A t \in Tokens : token'[t].state = "none" <=> t > issued
             /\ \A t \in Tokens : token'[t].epoch = token[t].epoch
             /\ \A t \in Tokens : token'[t].state = "live" => token[t].state = "live"
  BY <1>1, <1>2, <1>5 DEF RevokeOne, TokenRow
<1>. QED  BY <1>3, <1>4, <1>5

LEMMA Issuing ==
  ASSUME SessionTypeOK, NEW e \in 0 .. MaxEpoch, Issue(e)
  PROVE  /\ issued' = issued + 1 /\ issued' \in Tokens /\ issued' \in 0 .. MaxTokens
         /\ issued' # NoToken
         /\ token' \in [Tokens -> TokenRow]
         /\ \A t \in Tokens : token'[t].state = "none" <=> t > issued'
         /\ token'[issued'].epoch = e
         /\ token'[issued'].state = "live"
         /\ \A t \in Tokens \ {issued'} : token'[t] = token[t]
<1>1. /\ token \in [Tokens -> TokenRow]
      /\ \A t \in Tokens : token[t] \in TokenRow /\ (token[t].state = "none" <=> t > issued)
      /\ issued \in 0 .. MaxTokens
  BY Typed
<1>2. issued' = issued + 1 /\ issued' \in 1 .. MaxTokens /\ issued' # 0
  BY <1>1, SessionAssumption DEF Issue
<1>3. token' = [token EXCEPT ![issued'] = [state |-> "live", epoch |-> e]]
  BY <1>2 DEF Issue
<1>4. [state |-> "live", epoch |-> e] \in TokenRow
  BY DEF TokenRow
<1>5. \A t \in Tokens : t > issued' <=> t > issued /\ t # issued'
  BY <1>1, <1>2, SessionAssumption DEF Tokens
<1>. QED  BY <1>1, <1>2, <1>3, <1>4, <1>5 DEF Tokens, NoToken

\* A refresh that moves on keeps its type.
LEMMA Moving ==
  ASSUME SessionTypeOK, NEW c \in Calls, call[c] # NoCall,
         NEW place \in {"read", "create", "revoke", "audit"}
  PROVE  /\ Step(c, place) => call' \in [Calls -> CallState]
         /\ Over(c) => call' \in [Calls -> CallState]
         /\ \A t \in Tokens :
              call' = [call EXCEPT ![c].at = place, ![c].new = t] =>
                call' \in [Calls -> CallState]
<1>1. call \in [Calls -> CallState] /\ NoCall \in CallState
  BY Typed DEF CallState
<1>2. Over(c) => call' \in [Calls -> CallState]
  BY <1>1 DEF Over
<1>3. [call[c] EXCEPT !.at = place] \in CallState
  BY InFlight DEF CallState, NoCall
<1>4. \A t \in Tokens : [call[c] EXCEPT !.at = place, !.new = t] \in CallState
  BY InFlight DEF CallState, NoCall
<1>5. Step(c, place) => call' = [call EXCEPT ![c] = [call[c] EXCEPT !.at = place]]
  BY <1>1 DEF Step
<1>6. ASSUME NEW t \in Tokens, call' = [call EXCEPT ![c].at = place, ![c].new = t]
      PROVE  call' \in [Calls -> CallState]
  <2>. DEFINE moved == [call[c] EXCEPT !.at = place, !.new = t]
  <2>1. moved \in CallState
    BY <1>4
  <2>2. call' = [call EXCEPT ![c] = moved]
    BY <1>1, <1>6
  <2>. HIDE DEF moved
  <2>. QED  BY <1>1, <2>1, <2>2
<1>. QED  BY <1>1, <1>2, <1>3, <1>5, <1>6

-----------------------------------------------------------------------------
(* Signing in and out *)

LEMMA SigningIn ==
  ASSUME SessionInv, NEW d \in Clients, SignIn(d)
  PROVE  SessionInv'
<1>. USE DEF SessionInv
<1>1. /\ issued' = issued + 1 /\ issued' \in Tokens /\ issued' \in 0 .. MaxTokens
      /\ token' \in [Tokens -> TokenRow]
      /\ \A t \in Tokens : token'[t].state = "none" <=> t > issued'
      /\ token'[issued'].epoch = epoch
      /\ \A t \in Tokens \ {issued'} : token'[t] = token[t]
  BY Typed, Issuing DEF SignIn
<1>2. /\ holds' = [holds EXCEPT ![d] = issued']
      /\ UNCHANGED <<call, enabled, epoch, overtaken, breaks>>
      /\ excused' \subseteq excused
  BY <1>1 DEF SignIn
<1>3. SessionTypeOK'
  <2>1. holds' \in [Clients -> Tokens \cup {NoToken}]
    BY <1>1, <1>2 DEF SessionTypeOK
  <2>. QED  BY <1>1, <1>2, <2>1 DEF SessionTypeOK, TokenRow
<1>4. HeldAreIssued'
  <2>1. issued \in Nat /\ holds \in [Clients -> Tokens \cup {NoToken}]
    BY Typed, SessionAssumption
  <2>2. \A x \in Tokens \cup {NoToken} : x <= issued => x <= issued + 1
    BY <2>1, SessionAssumption DEF Tokens, NoToken
  <2>3. \A e \in Clients : holds'[e] <= issued'
    <3>1. issued' <= issued'
      BY <1>1, <2>1
    <3>2. \A e \in Clients : holds[e] <= issued'
      BY <1>1, <2>1, <2>2 DEF HeldAreIssued
    <3>. QED  BY <1>2, <2>1, <3>1, <3>2
  <2>4. \A c \in Calls : call[c] # NoCall =>
          call[c].old \in Tokens \cup {NoToken} /\ call[c].new \in Tokens \cup {NoToken}
    BY InFlight
  <2>5. \A c \in Calls : call'[c] # NoCall => call'[c].old <= issued' /\ call'[c].new <= issued'
    BY <1>1, <1>2, <2>2, <2>4 DEF HeldAreIssued
  <2>. QED  BY <2>3, <2>5 DEF HeldAreIssued
<1>5. RevokedForGood'
  BY <1>1, <1>2 DEF RevokedForGood, Live
<1>6. RefreshesKnow'
  <2>1. \A c \in Calls : call[c].at = "create" => call[c].old \in Tokens
    BY InFlight DEF NoCall
  <2>. QED  BY <1>1, <1>2, <2>1 DEF RefreshesKnow
<1>. QED  BY <1>3, <1>4, <1>5, <1>6

\* The user's tokens are revoked, in part or altogether, and nobody is signed in.
LEMMA Revoked ==
  ASSUME SessionInv, epoch' = epoch,
         (\E t \in Tokens : t <= issued /\ RevokeOne(t)) \/ UNCHANGED token,
         UNCHANGED <<issued, overtaken>>
  PROVE  /\ token' \in [Tokens -> TokenRow]
         /\ \A t \in Tokens : token'[t].state = "none" <=> t > issued'
         /\ RevokedForGood'
         /\ \A c \in Calls : call[c].at = "create" =>
              \/ token'[call[c].old].epoch = epoch'
              \/ call[c].late
              \/ call[c].old \in overtaken'
<1>. USE DEF SessionInv
<1>1. /\ token' \in [Tokens -> TokenRow]
      /\ \A t \in Tokens : token'[t].state = "none" <=> t > issued
      /\ \A t \in Tokens : token'[t].epoch = token[t].epoch
      /\ \A t \in Tokens : token'[t].state = "live" => token[t].state = "live"
  BY Revoking
<1>2. RevokedForGood'
  BY <1>1 DEF RevokedForGood, Live
<1>3. ASSUME NEW c \in Calls, call[c].at = "create"
      PROVE  \/ token'[call[c].old].epoch = epoch'
             \/ call[c].late
             \/ call[c].old \in overtaken'
  <2>1. call[c].old \in Tokens
    BY <1>3, InFlight DEF NoCall
  <2>. QED  BY <1>1, <1>3, <2>1 DEF RefreshesKnow
<1>. QED  BY <1>1, <1>2, <1>3

LEMMA SigningOut ==
  ASSUME SessionInv, NEW d \in Clients, SignOut(d)
  PROVE  SessionInv'
<1>. USE DEF SessionInv
<1>1. holds[d] \in Tokens /\ holds[d] <= issued
  BY Typed DEF SignOut, HeldAreIssued
<1>2. /\ UNCHANGED <<issued, call, enabled, epoch, overtaken, breaks>>
      /\ holds' = [holds EXCEPT ![d] = NoToken]
      /\ excused' = excused \cup {d}
      /\ \E t \in Tokens : t <= issued /\ RevokeOne(t)
  BY <1>1 DEF SignOut
<1>3. /\ token' \in [Tokens -> TokenRow]
      /\ \A t \in Tokens : token'[t].state = "none" <=> t > issued'
      /\ RevokedForGood'
      /\ \A c \in Calls : call[c].at = "create" =>
           \/ token'[call[c].old].epoch = epoch'
           \/ call[c].late
           \/ call[c].old \in overtaken'
  BY <1>2, Revoked
<1>4. SessionTypeOK'
  BY <1>2, <1>3 DEF SessionTypeOK, TokenRow
<1>5. HeldAreIssued'
  BY <1>2, Typed DEF HeldAreIssued, NoToken
<1>6. RefreshesKnow'
  BY <1>2, <1>3 DEF RefreshesKnow
<1>. QED  BY <1>3, <1>4, <1>5, <1>6

\* All tokens are revoked: none works, and every refresh that read one is late.
LEMMA RevokingAll ==
  ASSUME SessionInv, NEW d \in Clients, RevokeAll(d),
         holds' = holds \/ holds' = [holds EXCEPT ![d] = NoToken],
         enabled' \in BOOLEAN
  PROVE  SessionInv'
<1>. USE DEF SessionInv
<1>1. /\ RevokeEvery /\ epoch' = epoch + 1 /\ epoch < MaxEpoch
      /\ UNCHANGED <<issued, overtaken, breaks>> /\ excused' = Clients
  BY DEF RevokeAll
<1>2. /\ token' \in [Tokens -> TokenRow]
      /\ \A t \in Tokens : token'[t].state = "none" <=> t > issued'
      /\ \A t \in Tokens : token'[t].state # "live"
  BY <1>1, Revoking
<1>3. call \in [Calls -> CallState]
  BY Typed
<1>4. \A c \in Calls : /\ call'[c] \in CallState
                       /\ call'[c] # NoCall =>
                            /\ call[c] # NoCall
                            /\ call'[c].old = call[c].old /\ call'[c].new = call[c].new
                       /\ call'[c].at = "create" => call'[c].late
  <2>. SUFFICES ASSUME NEW c \in Calls
                PROVE  /\ call'[c] \in CallState
                       /\ call'[c] # NoCall =>
                            /\ call[c] # NoCall
                            /\ call'[c].old = call[c].old /\ call'[c].new = call[c].new
                       /\ call'[c].at = "create" => call'[c].late
    OBVIOUS
  <2>1. call'[c] = IF call[c].at = "create" THEN [call[c] EXCEPT !.late = TRUE] ELSE call[c]
    BY DEF RevokeAll
  <2>2. CASE call[c].at = "create"
    <3>1. call[c] # NoCall
      BY <2>2 DEF NoCall
    <3>2. [call[c] EXCEPT !.late = TRUE] \in CallState
      BY <3>1, InFlight DEF CallState, NoCall
    <3>3. /\ [call[c] EXCEPT !.late = TRUE].old = call[c].old
          /\ [call[c] EXCEPT !.late = TRUE].new = call[c].new
          /\ [call[c] EXCEPT !.late = TRUE].late = TRUE
      BY <3>1, InFlight DEF CallState, NoCall
    <3>. QED  BY <2>1, <2>2, <3>1, <3>2, <3>3
  <2>3. CASE call[c].at # "create"
    BY <1>3, <2>1, <2>3
  <2>. QED  BY <2>2, <2>3
<1>5. call' \in [Calls -> CallState]
  <2>1. call' = [c \in Calls |-> call'[c]]
    BY DEF RevokeAll
  <2>. QED  BY <1>4, <2>1
<1>6. epoch' \in 0 .. MaxEpoch
  BY <1>1, Typed, SessionAssumption
<1>7. holds' \in [Clients -> Tokens \cup {NoToken}]
  BY Typed
<1>8. SessionTypeOK'
  BY <1>1, <1>2, <1>5, <1>6, <1>7 DEF SessionTypeOK, TokenRow
<1>9. HeldAreIssued'
  BY <1>1, <1>4, Typed, SessionAssumption DEF HeldAreIssued, NoToken
<1>10. RevokedForGood'
  BY <1>2 DEF RevokedForGood, Live
<1>11. RefreshesKnow'
  BY <1>4 DEF RefreshesKnow
<1>. QED  BY <1>8, <1>9, <1>10, <1>11

-----------------------------------------------------------------------------
(* Refreshing *)

\* Steps of a refresh that leave tokens and sign-outs alone.
LEMMA Refreshing ==
  ASSUME SessionInv, NEW c \in Calls,
         UNCHANGED <<token, issued, enabled, epoch, overtaken>>,
         holds' \in [Clients -> Tokens \cup {NoToken}],
         \A d \in Clients : holds'[d] <= issued,
         call' \in [Calls -> CallState],
         \A q \in Calls \ {c} : call'[q] = call[q],
         call'[c] # NoCall => call'[c].old <= issued /\ call'[c].new <= issued,
         call'[c].at = "create" => \/ token[call'[c].old].epoch = epoch
                                   \/ call'[c].late
                                   \/ call'[c].old \in overtaken,
         excused' \subseteq Clients,
         breaks' \in 0 .. MaxBreaks
  PROVE  SessionInv'
<1>. USE DEF SessionInv
<1>1. SessionTypeOK'
  BY DEF SessionTypeOK
<1>2. HeldAreIssued'
  BY DEF HeldAreIssued
<1>3. RevokedForGood'
  BY DEF RevokedForGood, Live
<1>4. RefreshesKnow'
  BY DEF RefreshesKnow
<1>. QED  BY <1>1, <1>2, <1>3, <1>4

\* Where nothing is to be said of the client's own token.
LEMMA CallEnding ==
  ASSUME SessionInv, NEW c \in Calls, call[c] # NoCall, Over(c),
         UNCHANGED <<token, issued, enabled, epoch, overtaken>>,
         holds' = holds \/ (\E d \in Clients : holds' = [holds EXCEPT ![d] = NoToken]),
         excused' \subseteq Clients,
         breaks' \in 0 .. MaxBreaks
  PROVE  SessionInv'
<1>. USE DEF SessionInv
<1>1. /\ call \in [Calls -> CallState] /\ holds \in [Clients -> Tokens \cup {NoToken}]
      /\ issued \in Nat
  BY Typed, SessionAssumption
<1>2. call' \in [Calls -> CallState]
  BY Moving
<1>3. call'[c] = NoCall /\ NoCall.at # "create" /\ \A q \in Calls \ {c} : call'[q] = call[q]
  BY <1>1 DEF Over, NoCall
<1>4. /\ holds' \in [Clients -> Tokens \cup {NoToken}]
      /\ \A d \in Clients : holds'[d] <= issued
  BY <1>1 DEF HeldAreIssued, NoToken
<1>. QED  BY <1>2, <1>3, <1>4, Refreshing

LEMMA Refusing ==
  ASSUME SessionInv, NEW c \in Calls, call[c] # NoCall, Refused(c),
         breaks' \in 0 .. MaxBreaks
  PROVE  SessionInv'
<1>1. /\ Over(c) /\ UNCHANGED <<token, issued, enabled, epoch, overtaken>>
      /\ \/ holds' = holds
         \/ holds' = [holds EXCEPT ![call[c].client] = NoToken]
      /\ excused' = excused \/ excused' = excused \cup {call[c].client}
  BY DEF Refused
<1>2. call[c].client \in Clients /\ excused \subseteq Clients
  BY InFlight, Typed DEF SessionInv
<1>. QED  BY <1>1, <1>2, CallEnding

LEMMA RefreshSteps ==
  ASSUME SessionInv, NEW c \in Calls,
         \/ \E d \in Clients : Refresh(c, d)
         \/ ReadToken(c) \/ RefreshBreaks(c) \/ Unanswered(c)
  PROVE  SessionInv'
<1>. USE DEF SessionInv
<1>1. /\ call \in [Calls -> CallState] /\ holds \in [Clients -> Tokens \cup {NoToken}]
      /\ issued \in Nat /\ breaks \in 0 .. MaxBreaks /\ excused \subseteq Clients
  BY Typed, SessionAssumption DEF SessionTypeOK
<1>2. ASSUME NEW d \in Clients, Refresh(c, d)
      PROVE  SessionInv'
  <2>. DEFINE started == [at |-> "read", client |-> d, old |-> holds[d],
                          new |-> NoToken, late |-> FALSE]
  <2>1. holds[d] \in Tokens /\ holds[d] <= issued
    BY <1>1, <1>2 DEF Refresh, HeldAreIssued
  <2>2. started \in CallState
    BY <2>1 DEF CallState
  <2>3. call' = [call EXCEPT ![c] = started]
    BY <1>2 DEF Refresh
  <2>4. started.at = "read" /\ started.old <= issued /\ started.new <= issued
    BY <1>1, <2>1 DEF NoToken
  <2>5. UNCHANGED <<token, issued, holds, enabled, epoch, overtaken, excused, breaks>>
    BY <1>2 DEF Refresh
  <2>6. \A e \in Clients : holds'[e] <= issued
    BY <2>5 DEF HeldAreIssued
  <2>7. /\ call' \in [Calls -> CallState] /\ call'[c] = started
        /\ \A q \in Calls \ {c} : call'[q] = call[q]
    BY <1>1, <2>2, <2>3
  <2>. HIDE DEF started
  <2>. QED  BY <1>1, <2>4, <2>5, <2>6, <2>7, Refreshing
<1>3. CASE ReadToken(c)
  <2>1. call[c] # NoCall /\ call[c].at = "read" /\ breaks' = breaks
    BY <1>3 DEF ReadToken, NoCall
  <2>2. CASE Refused(c)
    BY <1>1, <2>1, <2>2, Refusing
  <2>3. CASE ~Refused(c)
    <3>1. /\ Live(call[c].old) /\ Step(c, "create")
          /\ UNCHANGED <<token, issued, holds, enabled, epoch, overtaken, excused, breaks>>
      BY <1>3, <2>3 DEF ReadToken
    <3>2. call' \in [Calls -> CallState]
      BY <2>1, <3>1, Moving
    <3>3. /\ call'[c] # NoCall => call'[c].old <= issued /\ call'[c].new <= issued
          /\ call'[c].old = call[c].old
          /\ \A q \in Calls \ {c} : call'[q] = call[q]
      BY <1>1, <2>1, <3>1, InFlight DEF Step, HeldAreIssued, CallState
    <3>4. token[call[c].old].epoch = epoch \/ call[c].old \in overtaken
      BY <2>1, <3>1, InFlight DEF RevokedForGood
    <3>5. \A e \in Clients : holds'[e] <= issued
      BY <3>1 DEF HeldAreIssued
    <3>. QED  BY <1>1, <3>1, <3>2, <3>3, <3>4, <3>5, Refreshing
  <2>. QED  BY <2>2, <2>3
<1>4. CASE RefreshBreaks(c)
  <2>1. breaks' \in 0 .. MaxBreaks
    BY <1>1, <1>4, SessionAssumption DEF RefreshBreaks
  <2>. QED  BY <1>4, <2>1, Refusing DEF RefreshBreaks
<1>5. CASE Unanswered(c)
  <2>1. breaks' \in 0 .. MaxBreaks
    BY <1>1, <1>5, SessionAssumption DEF Unanswered
  <2>2. /\ call[c] # NoCall /\ Over(c)
        /\ UNCHANGED <<token, issued, holds, enabled, epoch, overtaken>>
        /\ excused' = excused \/ excused' = excused \cup {call[c].client}
    BY <1>5 DEF Unanswered
  <2>3. excused' \subseteq Clients
    BY <1>1, <2>2, InFlight
  <2>. QED  BY <2>1, <2>2, <2>3, CallEnding
<1>. QED  BY <1>2, <1>3, <1>4, <1>5

\* The new token is of the sign-in that the old one came from.
LEMMA Creating ==
  ASSUME SessionInv, NEW c \in Calls, CreateToken(c)
  PROVE  SessionInv'
<1>. USE DEF SessionInv
<1>. DEFINE old == call[c].old
<1>1. call[c] # NoCall /\ call[c].at = "create" /\ old \in Tokens
  BY InFlight DEF CreateToken, NoCall
<1>2. token[old].epoch \in 0 .. MaxEpoch
  BY <1>1, Typed DEF TokenRow
<1>3. /\ issued' = issued + 1 /\ issued' \in Tokens /\ issued' \in 0 .. MaxTokens
      /\ token' \in [Tokens -> TokenRow]
      /\ \A t \in Tokens : token'[t].state = "none" <=> t > issued'
      /\ token'[issued'].epoch = token[old].epoch
      /\ \A t \in Tokens \ {issued'} : token'[t] = token[t]
  BY <1>2, Issuing DEF CreateToken
<1>4. /\ call' = [call EXCEPT ![c].at = "revoke", ![c].new = issued']
      /\ overtaken' = IF call[c].late \/ old \in overtaken
                        THEN overtaken \cup {issued'} ELSE overtaken
      /\ UNCHANGED <<holds, enabled, epoch, excused, breaks>>
  BY <1>3 DEF CreateToken
<1>5. call' \in [Calls -> CallState] /\ call \in [Calls -> CallState]
  BY <1>1, <1>3, <1>4, Moving, Typed
<1>6. overtaken' \subseteq Tokens /\ overtaken \subseteq overtaken'
  BY <1>3, <1>4, Typed
<1>7. SessionTypeOK'
  BY <1>3, <1>4, <1>5, <1>6 DEF SessionTypeOK, TokenRow
<1>8. token[old].epoch = epoch \/ issued' \in overtaken'
  BY <1>1, <1>4 DEF RefreshesKnow
<1>9. HeldAreIssued'
  <2>1. issued \in Nat /\ issued' <= issued'
    BY <1>3, Typed, SessionAssumption
  <2>2. \A x \in Tokens \cup {NoToken} : x <= issued => x <= issued'
    BY <1>3, <2>1, SessionAssumption DEF Tokens, NoToken
  <2>3. \A d \in Clients : holds'[d] <= issued'
    BY <1>4, <2>2, Typed DEF HeldAreIssued
  <2>4. ASSUME NEW q \in Calls, call'[q] # NoCall
        PROVE  call'[q].old <= issued' /\ call'[q].new <= issued'
    <3>1. CASE q = c
      <4>1. call'[q].old = old /\ call'[q].new = issued'
        BY <1>1, <1>4, <1>5, <3>1, InFlight DEF CallState
      <4>2. old <= issued'
        BY <1>1, <2>2 DEF HeldAreIssued
      <4>. QED  BY <2>1, <4>1, <4>2
    <3>2. CASE q # c
      <4>1. call'[q] = call[q]
        BY <1>4, <1>5, <3>2
      <4>. QED  BY <2>2, <2>4, <4>1, InFlight DEF HeldAreIssued
    <3>. QED  BY <3>1, <3>2
  <2>. QED  BY <2>3, <2>4 DEF HeldAreIssued
<1>10. RevokedForGood'
  BY <1>3, <1>4, <1>6, <1>8 DEF RevokedForGood, Live
<1>11. RefreshesKnow'
  <2>. SUFFICES ASSUME NEW q \in Calls, call'[q].at = "create"
                PROVE  \/ token'[call'[q].old].epoch = epoch'
                       \/ call'[q].late
                       \/ call'[q].old \in overtaken'
    BY DEF RefreshesKnow
  <2>1. q # c /\ call'[q] = call[q]
    BY <1>1, <1>4, <1>5, InFlight DEF CallState
  <2>2. call[q].old \in Tokens
    BY <2>1, InFlight DEF NoCall
  <2>3. CASE call[q].old = issued'
    BY <1>3, <1>4, <1>8, <2>1, <2>3
  <2>4. CASE call[q].old # issued'
    BY <1>3, <1>4, <1>6, <2>1, <2>2, <2>4 DEF RefreshesKnow
  <2>. QED  BY <2>3, <2>4
<1>. QED  BY <1>7, <1>9, <1>10, <1>11

LEMMA RevokingOld ==
  ASSUME SessionInv, NEW c \in Calls, RevokeOld(c)
  PROVE  SessionInv'
<1>. USE DEF SessionInv
<1>1. /\ call[c] # NoCall /\ call[c].old \in Tokens /\ call[c].old <= issued
      /\ call \in [Calls -> CallState]
  BY InFlight, Typed DEF RevokeOld, NoCall, HeldAreIssued
<1>2. /\ UNCHANGED <<issued, holds, enabled, epoch, overtaken, excused, breaks>>
      /\ Step(c, "audit") /\ \E t \in Tokens : t <= issued /\ RevokeOne(t)
  BY <1>1 DEF RevokeOld
<1>3. /\ token' \in [Tokens -> TokenRow]
      /\ \A t \in Tokens : token'[t].state = "none" <=> t > issued'
      /\ RevokedForGood'
      /\ \A q \in Calls : call[q].at = "create" =>
           \/ token'[call[q].old].epoch = epoch'
           \/ call[q].late
           \/ call[q].old \in overtaken'
  BY <1>2, Revoked
<1>4. call' \in [Calls -> CallState]
  BY <1>1, <1>2, Moving
<1>5. /\ call'[c].at = "audit"
      /\ call'[c].old = call[c].old /\ call'[c].new = call[c].new
      /\ \A q \in Calls \ {c} : call'[q] = call[q]
  BY <1>1, <1>2, InFlight DEF Step, CallState
<1>6. SessionTypeOK'
  BY <1>2, <1>3, <1>4 DEF SessionTypeOK, TokenRow
<1>7. HeldAreIssued'
  BY <1>1, <1>2, <1>5 DEF HeldAreIssued
<1>8. RefreshesKnow'
  BY <1>2, <1>3, <1>5 DEF RefreshesKnow
<1>. QED  BY <1>3, <1>6, <1>7, <1>8

LEMMA Answering ==
  ASSUME SessionInv, NEW c \in Calls, AnswerTokens(c)
  PROVE  SessionInv'
<1>. USE DEF SessionInv
<1>1. /\ call[c] # NoCall /\ call[c].new \in Tokens \cup {NoToken}
      /\ call[c].new <= issued /\ call[c].client \in Clients
      /\ call \in [Calls -> CallState] /\ holds \in [Clients -> Tokens \cup {NoToken}]
  BY InFlight, Typed DEF AnswerTokens, NoCall, HeldAreIssued
<1>2. /\ Over(c) /\ holds' = [holds EXCEPT ![call[c].client] = call[c].new]
      /\ UNCHANGED <<token, issued, enabled, epoch, overtaken, excused, breaks>>
  BY DEF AnswerTokens
<1>3. call' \in [Calls -> CallState]
  BY <1>1, <1>2, Moving
<1>4. /\ call'[c] = NoCall /\ NoCall.at # "create"
      /\ \A q \in Calls \ {c} : call'[q] = call[q]
  BY <1>1, <1>2 DEF Over, NoCall
<1>5. /\ holds' \in [Clients -> Tokens \cup {NoToken}]
      /\ \A d \in Clients : holds'[d] <= issued
  BY <1>1, <1>2 DEF HeldAreIssued
<1>6. excused' \subseteq Clients /\ breaks' \in 0 .. MaxBreaks
  BY <1>2 DEF SessionTypeOK
<1>. QED  BY <1>2, <1>3, <1>4, <1>5, <1>6, Refreshing

-----------------------------------------------------------------------------

LEMMA StepsPreserve ==
  ASSUME SessionInv, [SessionNext]_sessionVars
  PROVE  SessionInv'
<1>1. CASE UNCHANGED sessionVars
  BY <1>1
  DEF sessionVars, SessionInv, SessionTypeOK, HeldAreIssued, RevokedForGood, RefreshesKnow, Live
<1>2. ASSUME NEW d \in Clients,
             SignOutEverywhere(d) \/ ChangePhoneNumber(d) \/ DeactivateUser(d)
      PROVE  SessionInv'
  <2>1. RevokeAll(d) /\ (holds' = holds \/ holds' = [holds EXCEPT ![d] = NoToken])
    BY <1>2 DEF SignOutEverywhere, ChangePhoneNumber, DeactivateUser
  <2>2. enabled' \in BOOLEAN
    BY <1>2 DEF SignOutEverywhere, ChangePhoneNumber, DeactivateUser, SessionInv, SessionTypeOK
  <2>. QED  BY <2>1, <2>2, RevokingAll
<1>3. CASE SessionNext
  BY <1>2, <1>3, SigningIn, SigningOut, RefreshSteps, Creating, RevokingOld, Answering
  DEF SessionNext
<1>. QED  BY <1>1, <1>3

\* The inductive invariant of the sessions.
THEOREM SessionInvariant == SessionSpec => []SessionInv
<1>1. SessionInit => SessionInv
  BY InitHolds
<1>2. SessionInv /\ [SessionNext]_sessionVars => SessionInv'
  BY StepsPreserve
<1>. QED  BY <1>1, <1>2, PTL DEF SessionSpec

\* The variables of the sessions keep their types, and the tokens in the
\* table are the ones that were issued, in the order of their numbers.
THEOREM SessionTypeCorrect == SessionSpec => []SessionTypeOK
<1>1. SessionInv => SessionTypeOK
  BY DEF SessionInv
<1>. QED  BY <1>1, SessionInvariant, PTL

\* However many refreshes are in flight on however many devices: after all
\* tokens were revoked (revokeAllByUserId) the ones that work come from later
\* sign-ins, or from a refresh that had read its token before.
THEOREM RevokedStayRevoked == SessionSpec => []RevokedForGood
<1>1. SessionInv => RevokedForGood
  BY DEF SessionInv
<1>. QED  BY <1>1, SessionInvariant, PTL

-----------------------------------------------------------------------------
(* Staying signed in *)

Underway(c) == call[c] # NoCall

\* A token is in the hands of one client, and only its refreshes show it.
OneOwner ==
  /\ \A d, e \in Clients : holds[d] = holds[e] /\ holds[d] # NoToken => d = e
  /\ \A c \in Calls, d \in Clients :
       Underway(c) /\ call[c].old = holds[d] => call[c].client = d
  /\ \A b, c \in Calls :
       Underway(b) /\ Underway(c) /\ call[b].old = call[c].old => call[b].client = call[c].client

\* A refresh has stored its new token from its third statement on.
NewNamed ==
  \A c \in Calls :
    Underway(c) => (call[c].at \in {"revoke", "audit"} <=> call[c].new # NoToken)

\* Until it is answered, the new token is known to its refresh alone.
NewUnseen ==
  \A c \in Calls : Underway(c) /\ call[c].new # NoToken =>
    /\ \A d \in Clients : holds[d] # call[c].new
    /\ \A b \in Calls : Underway(b) =>
         call[b].old # call[c].new /\ (b # c => call[b].new # call[c].new)

\* It works, unless the client is signed out.
NewLive ==
  \A c \in Calls :
    Underway(c) /\ call[c].new # NoToken /\ call[c].client \notin excused => Live(call[c].new)

\* A client that was not signed out has a token that works, or is about to
\* be answered one.
Brings(c, d) == Underway(c) /\ call[c].at = "audit" /\ call[c].client = d
Served == \A d \in Clients \ excused : Live(holds[d]) \/ \E c \in Calls : Brings(c, d)

SignedInv == SessionInv /\ OneOwner /\ NewNamed /\ NewUnseen /\ NewLive /\ Served

LEMMA SignedInit == SessionInit => SignedInv
<1>. SUFFICES ASSUME SessionInit  PROVE SignedInv
  OBVIOUS
<1>1. SessionInv
  BY InitHolds
<1>2. \A c \in Calls : ~Underway(c)
  BY DEF SessionInit, Underway
<1>3. \A d \in Clients : holds[d] = NoToken /\ d \in excused
  BY DEF SessionInit
<1>. QED
  BY <1>1, <1>2, <1>3 DEF SignedInv, OneOwner, NewNamed, NewUnseen, NewLive, Served

\* What the invariants say of the numbers of tokens.
LEMMA Numbers ==
  ASSUME SessionInv
  PROVE  /\ issued \in Nat
         /\ \A t \in Tokens : t # NoToken
         /\ \A c \in Calls : Underway(c) =>
              /\ call[c].old \in Tokens /\ call[c].old # issued + 1
              /\ call[c].new \in Tokens \cup {NoToken} /\ call[c].new # issued + 1
              /\ call[c].client \in Clients
         /\ \A d \in Clients : /\ holds[d] \in Tokens \cup {NoToken}
                               /\ holds[d] # issued + 1
<1>. USE DEF SessionInv
<1>1. issued \in Nat /\ \A t \in Tokens : t # NoToken /\ t \in Nat
  BY Typed, SessionAssumption DEF Tokens, NoToken
<1>2. \A x \in Tokens \cup {NoToken} : x <= issued => x # issued + 1
  BY <1>1 DEF NoToken
<1>3. \A c \in Calls : Underway(c) =>
        /\ call[c].old \in Tokens /\ call[c].old # issued + 1
        /\ call[c].new \in Tokens \cup {NoToken} /\ call[c].new # issued + 1
        /\ call[c].client \in Clients
  BY <1>2, InFlight DEF Underway, HeldAreIssued
<1>4. \A d \in Clients : holds[d] \in Tokens \cup {NoToken} /\ holds[d] # issued + 1
  BY <1>2, Typed DEF HeldAreIssued
<1>. QED  BY <1>1, <1>3, <1>4

\* No refresh begins or stores, and no client gets a token.
LEMMA Fading ==
  ASSUME SessionInv, OneOwner, NewNamed, NewUnseen,
         \A c \in Calls : Underway(c)' =>
           /\ Underway(c)
           /\ call'[c].client = call[c].client
           /\ call'[c].old = call[c].old /\ call'[c].new = call[c].new
           /\ call'[c].at \in {"revoke", "audit"} <=> call[c].at \in {"revoke", "audit"},
         \A d \in Clients : holds'[d] \in {holds[d], NoToken}
  PROVE  OneOwner' /\ NewNamed' /\ NewUnseen'
<1>1. \A c \in Calls : Underway(c) => call[c].old \in Tokens /\ call[c].old # NoToken
  BY Numbers
<1>2. OneOwner'
  BY <1>1 DEF OneOwner
<1>3. NewNamed'
  BY DEF NewNamed
<1>4. NewUnseen'
  BY DEF NewUnseen
<1>. QED  BY <1>2, <1>3, <1>4

\* A refresh ends or its answer is lost: nothing is revoked.
LEMMA EndingServed ==
  ASSUME SignedInv, NEW c \in Calls, Underway(c), Over(c),
         UNCHANGED <<token, issued>>,
         excused \subseteq excused',
         call[c].at = "audit" => call[c].client \in excused',
         \A d \in Clients : holds'[d] = holds[d] \/ (holds'[d] = NoToken /\ d \in excused')
  PROVE  OneOwner' /\ NewNamed' /\ NewUnseen' /\ NewLive' /\ Served'
<1>. USE DEF SignedInv
<1>1. call \in [Calls -> CallState]
  BY Typed DEF SessionInv
<1>2. ~Underway(c)' /\ \A q \in Calls \ {c} : call'[q] = call[q]
  BY <1>1 DEF Over, Underway
<1>3. OneOwner' /\ NewNamed' /\ NewUnseen'
  BY <1>2, Fading DEF Underway
<1>4. \A t : Live(t)' <=> Live(t)
  BY DEF Live
<1>5. NewLive'
  BY <1>2, <1>4 DEF NewLive, Underway
<1>6. Served'
  <2>. SUFFICES ASSUME NEW d \in Clients \ excused'
                PROVE  Live(holds[d])' \/ \E q \in Calls : Brings(q, d)'
    BY DEF Served
  <2>1. holds'[d] = holds[d] /\ d \in Clients \ excused
    OBVIOUS
  <2>2. CASE Live(holds[d])
    BY <2>1, <2>2 DEF Live
  <2>3. ASSUME NEW q \in Calls, Brings(q, d)
        PROVE  Brings(q, d)'
    BY <1>2, <2>3 DEF Underway, Brings
  <2>. QED  BY <2>1, <2>2, <2>3 DEF Served
<1>. QED  BY <1>3, <1>5, <1>6

LEMMA SigningInServed ==
  ASSUME SignedInv, NEW d \in Clients, SignIn(d)
  PROVE  OneOwner' /\ NewNamed' /\ NewUnseen' /\ NewLive' /\ Served'
<1>. USE DEF SignedInv
<1>1. /\ issued' = issued + 1 /\ issued' \in Tokens /\ issued' # NoToken
      /\ token'[issued'].state = "live"
      /\ \A t \in Tokens \ {issued'} : token'[t] = token[t]
  BY Typed, Issuing DEF SignIn, SessionInv
<1>2. /\ holds' = [holds EXCEPT ![d] = issued'] /\ excused' = excused \ {d} /\ call' = call
      /\ holds \in [Clients -> Tokens \cup {NoToken}]
  BY <1>1, Typed DEF SignIn, SessionInv
<1>3. holds'[d] = issued' /\ \A e \in Clients \ {d} : holds'[e] = holds[e] /\ holds[e] # issued'
  BY <1>1, <1>2, Numbers
<1>4. \A c \in Calls : Underway(c) =>
        call[c].old # issued' /\ call[c].new # issued' /\ call[c].client # d
  BY <1>1, Numbers DEF SignIn, Quiet, Underway
<1>5. OneOwner'
  BY <1>2, <1>3, <1>4 DEF OneOwner, Underway
<1>6. NewNamed'
  BY <1>2 DEF NewNamed, Underway
<1>7. NewUnseen'
  BY <1>2, <1>3, <1>4 DEF NewUnseen, Underway
<1>8. \A t \in Tokens : Live(t) => Live(t)'
  BY <1>1, <1>4 DEF Live
<1>9. NewLive'
  BY <1>2, <1>4, <1>8, Numbers DEF NewLive, Underway
<1>10. Served'
  <2>. SUFFICES ASSUME NEW e \in Clients \ excused'
                PROVE  Live(holds[e])' \/ \E c \in Calls : Brings(c, e)'
    BY DEF Served
  <2>1. CASE e = d
    BY <1>1, <1>3, <2>1 DEF Live
  <2>2. CASE e # d
    <3>1. e \in Clients \ excused /\ holds'[e] = holds[e]
      BY <1>2, <1>3, <2>2
    <3>2. Live(holds[e]) => Live(holds[e])'
      BY <1>8, <3>1, Numbers DEF Live
    <3>3. \A c \in Calls : Brings(c, e) => Brings(c, e)'
      BY <1>2 DEF Brings, Underway
    <3>. QED  BY <3>1, <3>2, <3>3 DEF Served
  <2>. QED  BY <2>1, <2>2
<1>. QED  BY <1>5, <1>6, <1>7, <1>9, <1>10

\* A token is revoked that is d's alone, and d is excused or about to be
\* answered another.
LEMMA RevokedServed ==
  ASSUME SignedInv, NEW s \in Tokens, RevokeOne(s),
         \A c \in Calls : Underway(c) => call[c].new # s,
         excused \subseteq excused',
         \A c \in Calls : Underway(c)' => Underway(c) /\ call'[c].client = call[c].client
                                                  /\ call'[c].new = call[c].new,
         \A c \in Calls, d \in Clients : Brings(c, d) => Brings(c, d)',
         \A d \in Clients \ excused' :
           /\ holds'[d] = holds[d]
           /\ holds[d] = s => \E c \in Calls : Brings(c, d)'
  PROVE  NewLive' /\ Served'
<1>. USE DEF SignedInv
<1>1. token \in [Tokens -> TokenRow]
  BY Typed DEF SessionInv
<1>2. \A t \in Tokens \ {s} : Live(t) => Live(t)'
  BY <1>1 DEF Live, RevokeOne
<1>3. NewLive'
  BY <1>2, Numbers DEF NewLive, Live
<1>4. Served'
  <2>. SUFFICES ASSUME NEW d \in Clients \ excused'
                PROVE  Live(holds[d])' \/ \E c \in Calls : Brings(c, d)'
    BY DEF Served
  <2>1. d \in Clients \ excused /\ holds'[d] = holds[d]
    OBVIOUS
  <2>2. CASE holds[d] = s
    BY <2>2
  <2>3. CASE holds[d] # s
    <3>1. Live(holds[d]) => Live(holds[d])'
      BY <1>2, <2>1, <2>3, Numbers DEF Live
    <3>. QED  BY <2>1, <3>1 DEF Served
  <2>. QED  BY <2>2, <2>3
<1>. QED  BY <1>3, <1>4

LEMMA SigningOutServed ==
  ASSUME SignedInv, NEW d \in Clients, SignOut(d)
  PROVE  OneOwner' /\ NewNamed' /\ NewUnseen' /\ NewLive' /\ Served'
<1>. USE DEF SignedInv
<1>1. /\ call' = call /\ excused' = excused \cup {d} /\ holds' = [holds EXCEPT ![d] = NoToken]
      /\ holds \in [Clients -> Tokens \cup {NoToken}] /\ holds[d] \in Tokens
      /\ RevokeOne(holds[d])
  BY Typed DEF SignOut, SessionInv
<1>2. OneOwner' /\ NewNamed' /\ NewUnseen'
  <2>1. \A e \in Clients : holds'[e] \in {holds[e], NoToken}
    BY <1>1
  <2>. QED  BY <1>1, <2>1, Fading DEF Underway
<1>3. \A c \in Calls : Underway(c) => call[c].new # holds[d]
  BY <1>1, Numbers DEF NewUnseen
<1>4. \A e \in Clients \ excused' : holds'[e] = holds[e] /\ holds[e] # holds[d]
  BY <1>1, Numbers DEF OneOwner
<1>5. \A c \in Calls, e \in Clients : Brings(c, e) => Brings(c, e)'
  BY <1>1 DEF Brings, Underway
<1>6. NewLive' /\ Served'
  BY <1>1, <1>3, <1>4, <1>5, RevokedServed DEF Underway
<1>. QED  BY <1>2, <1>6

LEMMA RevokingAllServed ==
  ASSUME SignedInv, NEW d \in Clients, RevokeAll(d),
         holds' = holds \/ holds' = [holds EXCEPT ![d] = NoToken]
  PROVE  OneOwner' /\ NewNamed' /\ NewUnseen' /\ NewLive' /\ Served'
<1>. USE DEF SignedInv
<1>1. excused' = Clients
  BY DEF RevokeAll
<1>2. ASSUME NEW c \in Calls, Underway(c)'
      PROVE  /\ Underway(c)
             /\ call'[c].client = call[c].client
             /\ call'[c].old = call[c].old /\ call'[c].new = call[c].new
             /\ call'[c].at = call[c].at
  <2>1. call'[c] = IF call[c].at = "create" THEN [call[c] EXCEPT !.late = TRUE] ELSE call[c]
    BY DEF RevokeAll
  <2>2. CASE call[c].at = "create"
    <3>1. call[c] # NoCall
      BY <2>2 DEF NoCall
    <3>2. call[c] \in CallState
      BY <3>1, InFlight DEF SessionInv
    <3>. QED  BY <2>1, <2>2, <3>1, <3>2 DEF Underway, CallState
  <2>3. CASE call[c].at # "create"
    BY <1>2, <2>1, <2>3 DEF Underway
  <2>. QED  BY <2>2, <2>3
<1>3. \A e \in Clients : holds'[e] \in {holds[e], NoToken}
  <2>1. holds \in [Clients -> Tokens \cup {NoToken}]
    BY Typed DEF SessionInv
  <2>. QED  BY <2>1
<1>4. OneOwner' /\ NewNamed' /\ NewUnseen'
  BY <1>2, <1>3, Fading
<1>5. NewLive'
  BY <1>1, <1>2, Numbers DEF NewLive
<1>6. Served'
  BY <1>1 DEF Served
<1>. QED  BY <1>4, <1>5, <1>6

LEMMA BeginningServed ==
  ASSUME SignedInv, NEW c \in Calls, NEW d \in Clients, Refresh(c, d)
  PROVE  OneOwner' /\ NewNamed' /\ NewUnseen' /\ NewLive' /\ Served'
<1>. USE DEF SignedInv
<1>1. /\ ~Underway(c) /\ holds[d] # NoToken
      /\ UNCHANGED <<token, issued, holds, excused>>
      /\ call \in [Calls -> CallState]
  BY Typed DEF Refresh, Underway, SessionInv
<1>2. /\ call'[c].at = "read" /\ call'[c].client = d /\ call'[c].old = holds[d]
      /\ call'[c].new = NoToken
      /\ \A q \in Calls \ {c} : call'[q] = call[q]
  BY <1>1 DEF Refresh
<1>3. OneOwner'
  BY <1>1, <1>2 DEF OneOwner, Underway
<1>4. NewNamed'
  BY <1>1, <1>2 DEF NewNamed, Underway
<1>5. NewUnseen'
  <2>. SUFFICES ASSUME NEW q \in Calls, Underway(q)', call'[q].new # NoToken
                PROVE  /\ \A e \in Clients : holds'[e] # call'[q].new
                       /\ \A b \in Calls : Underway(b)' =>
                            call'[b].old # call'[q].new /\ (b # q => call'[b].new # call'[q].new)
    BY DEF NewUnseen
  <2>1. q # c /\ call'[q] = call[q] /\ Underway(q)
    BY <1>2 DEF Underway
  <2>2. \A e \in Clients : holds'[e] # call'[q].new
    BY <1>1, <2>1 DEF NewUnseen
  <2>3. ASSUME NEW b \in Calls, Underway(b)'
        PROVE  call'[b].old # call'[q].new /\ (b # q => call'[b].new # call'[q].new)
    <3>1. CASE b = c
      BY <1>1, <1>2, <2>1, <2>2, <3>1
    <3>2. CASE b # c
      BY <1>2, <2>1, <2>3, <3>2 DEF NewUnseen, Underway
    <3>. QED  BY <3>1, <3>2
  <2>. QED  BY <2>2, <2>3
<1>6. NewLive'
  BY <1>1, <1>2 DEF NewLive, Underway, Live
<1>7. Served'
  <2>1. \A q \in Calls, e \in Clients : Brings(q, e) => Brings(q, e)'
    BY <1>1, <1>2 DEF Brings, Underway
  <2>. QED  BY <1>1, <2>1 DEF Served, Live
<1>. QED  BY <1>3, <1>4, <1>5, <1>6, <1>7

\* A refresh that was read, and may go on.
LEMMA ReadingServed ==
  ASSUME SignedInv, NEW c \in Calls, call[c].at = "read", Step(c, "create"),
         UNCHANGED <<token, issued, holds, excused>>
  PROVE  OneOwner' /\ NewNamed' /\ NewUnseen' /\ NewLive' /\ Served'
<1>. USE DEF SignedInv
<1>1. Underway(c) /\ call[c] \in CallState /\ call \in [Calls -> CallState]
  BY InFlight, Typed DEF Underway, NoCall, SessionInv
<1>2. /\ call'[c].at = "create" /\ call'[c].client = call[c].client
      /\ call'[c].old = call[c].old /\ call'[c].new = call[c].new
      /\ \A q \in Calls \ {c} : call'[q] = call[q]
  BY <1>1 DEF Step, CallState, Underway
<1>3. \A q \in Calls : Underway(q)' =>
        /\ Underway(q) /\ call'[q].client = call[q].client
        /\ call'[q].old = call[q].old /\ call'[q].new = call[q].new
        /\ call'[q].at \in {"revoke", "audit"} <=> call[q].at \in {"revoke", "audit"}
  BY <1>1, <1>2 DEF Underway
<1>4. OneOwner' /\ NewNamed' /\ NewUnseen'
  BY <1>3, Fading
<1>5. NewLive'
  BY <1>3 DEF NewLive, Live
<1>6. \A q \in Calls, e \in Clients : Brings(q, e) => Brings(q, e)'
  BY <1>2 DEF Brings, Underway
<1>7. Served'
  BY <1>6 DEF Served, Live
<1>. QED  BY <1>4, <1>5, <1>7

LEMMA CreatingServed ==
  ASSUME SignedInv, NEW c \in Calls, CreateToken(c)
  PROVE  OneOwner' /\ NewNamed' /\ NewUnseen' /\ NewLive' /\ Served'
<1>. USE DEF SignedInv
<1>1. /\ Underway(c) /\ call[c].at = "create" /\ call[c].old \in Tokens
      /\ call[c] \in CallState /\ call \in [Calls -> CallState]
  BY InFlight, Typed DEF CreateToken, Underway, NoCall, SessionInv
<1>2. token[call[c].old].epoch \in 0 .. MaxEpoch
  BY <1>1, Typed DEF TokenRow, SessionInv
<1>3. /\ issued' = issued + 1 /\ issued' \in Tokens /\ issued' # NoToken
      /\ token'[issued'].state = "live"
      /\ \A t \in Tokens \ {issued'} : token'[t] = token[t]
  BY <1>2, Issuing DEF CreateToken, SessionInv
<1>4. holds' = holds /\ excused' = excused
  BY DEF CreateToken
<1>5. /\ call'[c].at = "revoke" /\ call'[c].client = call[c].client
      /\ call'[c].old = call[c].old /\ call'[c].new = issued' /\ Underway(c)'
      /\ \A q \in Calls \ {c} : call'[q] = call[q]
  <2>1. call' = [call EXCEPT ![c] = [call[c] EXCEPT !.at = "revoke", !.new = issued']]
    BY <1>1, <1>3 DEF CreateToken
  <2>2. /\ [call[c] EXCEPT !.at = "revoke", !.new = issued'].at = "revoke"
        /\ [call[c] EXCEPT !.at = "revoke", !.new = issued'].client = call[c].client
        /\ [call[c] EXCEPT !.at = "revoke", !.new = issued'].old = call[c].old
        /\ [call[c] EXCEPT !.at = "revoke", !.new = issued'].new = issued'
    BY <1>1 DEF CallState, Underway
  <2>3. call'[c] = [call[c] EXCEPT !.at = "revoke", !.new = issued']
    BY <1>1, <2>1
  <2>. QED  BY <1>1, <2>1, <2>2, <2>3 DEF Underway, NoCall
<1>6. \A q \in Calls : Underway(q) =>
        call[q].old # issued' /\ call[q].new # issued'
  BY <1>3, Numbers
<1>7. \A q \in Calls : /\ Underway(q)' <=> Underway(q)
                       /\ call'[q].old = call[q].old /\ call'[q].client = call[q].client
  BY <1>1, <1>5 DEF Underway
<1>8. OneOwner'
  BY <1>4, <1>7 DEF OneOwner
<1>9. NewNamed'
  BY <1>3, <1>5, <1>7 DEF NewNamed
<1>10. NewUnseen'
  <2>1. \A e \in Clients : holds[e] # issued'
    BY <1>3, Numbers
  <2>. SUFFICES ASSUME NEW q \in Calls, Underway(q)', call'[q].new # NoToken
                PROVE  /\ \A e \in Clients : holds'[e] # call'[q].new
                       /\ \A b \in Calls : Underway(b)' =>
                            call'[b].old # call'[q].new /\ (b # q => call'[b].new # call'[q].new)
    BY DEF NewUnseen
  <2>2. CASE q = c
    BY <1>4, <1>5, <1>6, <1>7, <2>1, <2>2
  <2>3. CASE q # c
    <3>1. call'[q] = call[q] /\ Underway(q)
      BY <1>5, <1>7, <2>3
    <3>2. \A e \in Clients : holds'[e] # call'[q].new
      BY <1>4, <3>1 DEF NewUnseen
    <3>3. \A b \in Calls : Underway(b)' => call'[b].old # call'[q].new
      BY <1>7, <3>1 DEF NewUnseen
    <3>4. \A b \in Calls : Underway(b)' /\ b # q => call'[b].new # call'[q].new
      BY <1>5, <1>6, <1>7, <3>1 DEF NewUnseen
    <3>. QED  BY <3>2, <3>3, <3>4
  <2>. QED  BY <2>2, <2>3
<1>11. \A t \in Tokens : Live(t) => Live(t)'
  BY <1>3 DEF Live
<1>12. NewLive'
  <2>1. ASSUME NEW q \in Calls, Underway(q), call[q].new # NoToken, call[q].client \notin excused,
               q # c
        PROVE  Live(call[q].new)'
    <3>1. Live(call[q].new)
      BY <2>1 DEF NewLive
    <3>2. call[q].new \in Tokens /\ call[q].new # issued'
      BY <1>6, <2>1, Numbers
    <3>3. call'[q] = call[q]
      BY <1>5, <2>1
    <3>. QED  BY <1>3, <3>1, <3>2, <3>3 DEF Live
  <2>. SUFFICES ASSUME NEW q \in Calls, Underway(q)', call'[q].new # NoToken,
                       call'[q].client \notin excused'
                PROVE  Live(call[q].new)'
    BY DEF NewLive
  <2>2. CASE q = c
    BY <1>3, <1>5, <2>2 DEF Live
  <2>3. CASE q # c
    BY <1>4, <1>5, <1>7, <2>1, <2>3
  <2>. QED  BY <2>2, <2>3
<1>13. Served'
  <2>1. \A q \in Calls, e \in Clients : Brings(q, e) => Brings(q, e)'
    BY <1>1, <1>5, <1>7 DEF Brings
  <2>2. \A e \in Clients : Live(holds[e]) => Live(holds[e])'
    BY <1>4, <1>11, Numbers DEF Live
  <2>. QED  BY <1>4, <2>1, <2>2 DEF Served
<1>. QED  BY <1>8, <1>9, <1>10, <1>12, <1>13

\* The old token stops working when the new one is on its way.
LEMMA RevokingOldServed ==
  ASSUME SignedInv, NEW c \in Calls, RevokeOld(c)
  PROVE  OneOwner' /\ NewNamed' /\ NewUnseen' /\ NewLive' /\ Served'
<1>. USE DEF SignedInv
<1>1. /\ Underway(c) /\ call[c].at = "revoke" /\ call[c].old \in Tokens
      /\ call[c] \in CallState /\ call \in [Calls -> CallState]
  BY InFlight, Typed DEF RevokeOld, Underway, NoCall, SessionInv
<1>2. RevokeOne(call[c].old) /\ UNCHANGED <<issued, holds, excused>>
  BY DEF RevokeOld
<1>3. /\ call'[c].at = "audit" /\ call'[c].client = call[c].client /\ Underway(c)'
      /\ call'[c].old = call[c].old /\ call'[c].new = call[c].new
      /\ \A q \in Calls \ {c} : call'[q] = call[q]
  BY <1>1 DEF RevokeOld, Step, CallState, Underway, NoCall
<1>4. \A q \in Calls : Underway(q)' =>
        /\ Underway(q) /\ call'[q].client = call[q].client
        /\ call'[q].old = call[q].old /\ call'[q].new = call[q].new
        /\ call'[q].at \in {"revoke", "audit"} <=> call[q].at \in {"revoke", "audit"}
  BY <1>1, <1>3 DEF Underway
<1>5. OneOwner' /\ NewNamed' /\ NewUnseen'
  BY <1>2, <1>4, Fading
<1>6. \A q \in Calls : Underway(q) => call[q].new # call[c].old
  BY <1>1, Numbers DEF NewUnseen
<1>7. \A q \in Calls, e \in Clients : Brings(q, e) => Brings(q, e)'
  BY <1>1, <1>3 DEF Brings, Underway
<1>8. \A e \in Clients \ excused' :
        holds'[e] = holds[e] /\ (holds[e] = call[c].old => \E q \in Calls : Brings(q, e)')
  BY <1>1, <1>2, <1>3 DEF OneOwner, Brings
<1>9. NewLive' /\ Served'
  BY <1>1, <1>2, <1>4, <1>6, <1>7, <1>8, RevokedServed
<1>. QED  BY <1>5, <1>9

LEMMA AnsweringServed ==
  ASSUME SignedInv, NEW c \in Calls, AnswerTokens(c)
  PROVE  OneOwner' /\ NewNamed' /\ NewUnseen' /\ NewLive' /\ Served'
<1>. USE DEF SignedInv
<1>. DEFINE d == call[c].client
            new == call[c].new
<1>1. /\ Underway(c) /\ call[c].at = "audit" /\ call \in [Calls -> CallState]
      /\ holds \in [Clients -> Tokens \cup {NoToken}]
  BY Typed DEF AnswerTokens, Underway, NoCall, SessionInv
<1>2. d \in Clients /\ new \in Tokens /\ new # NoToken
  BY <1>1, Numbers DEF NewNamed
<1>3. /\ UNCHANGED <<token, issued, excused>>
      /\ holds'[d] = new /\ \A e \in Clients \ {d} : holds'[e] = holds[e]
  BY <1>1, <1>2 DEF AnswerTokens
<1>4. ~Underway(c)' /\ \A q \in Calls \ {c} : call'[q] = call[q] /\ (Underway(q)' <=> Underway(q))
  BY <1>1 DEF AnswerTokens, Over, Underway
<1>5. /\ \A e \in Clients : holds[e] # new
      /\ \A q \in Calls \ {c} : Underway(q) => call[q].old # new /\ call[q].new # new
  BY <1>1, <1>2 DEF NewUnseen
<1>. HIDE DEF d, new
<1>6. OneOwner'
  BY <1>3, <1>4, <1>5 DEF OneOwner
<1>7. NewNamed'
  BY <1>4 DEF NewNamed
<1>8. NewUnseen'
  <2>. SUFFICES ASSUME NEW q \in Calls, Underway(q)', call'[q].new # NoToken
                PROVE  /\ \A e \in Clients : holds'[e] # call'[q].new
                       /\ \A b \in Calls : Underway(b)' =>
                            call'[b].old # call'[q].new /\ (b # q => call'[b].new # call'[q].new)
    BY DEF NewUnseen
  <2>1. q # c /\ call'[q] = call[q] /\ Underway(q)
    BY <1>4
  <2>2. \A e \in Clients : holds'[e] # call'[q].new
    BY <1>3, <1>5, <2>1 DEF NewUnseen
  <2>3. \A b \in Calls : Underway(b)' =>
          call'[b].old # call'[q].new /\ (b # q => call'[b].new # call'[q].new)
    BY <1>4, <2>1 DEF NewUnseen
  <2>. QED  BY <2>2, <2>3
<1>9. NewLive'
  BY <1>3, <1>4 DEF NewLive, Live
<1>10. Served'
  <2>. SUFFICES ASSUME NEW e \in Clients \ excused'
                PROVE  Live(holds[e])' \/ \E q \in Calls : Brings(q, e)'
    BY DEF Served
  <2>1. CASE e = d
    <3>1. Live(new)
      BY <1>1, <1>2, <1>3, <2>1 DEF NewLive, d, new
    <3>. QED  BY <1>3, <2>1, <3>1 DEF Live
  <2>2. CASE e # d
    <3>1. e \in Clients \ excused /\ holds'[e] = holds[e]
      BY <1>3, <2>2
    <3>2. \A q \in Calls : Brings(q, e) => Brings(q, e)'
      BY <1>4, <2>2 DEF Brings, d
    <3>. QED  BY <1>3, <3>1, <3>2 DEF Served, Live
  <2>. QED  BY <2>1, <2>2
<1>. QED  BY <1>6, <1>7, <1>8, <1>9, <1>10

LEMMA StepsServe ==
  ASSUME SignedInv, [SessionNext]_sessionVars
  PROVE  OneOwner' /\ NewNamed' /\ NewUnseen' /\ NewLive' /\ Served'
<1>. DEFINE Goal == OneOwner' /\ NewNamed' /\ NewUnseen' /\ NewLive' /\ Served'
<1>1. CASE UNCHANGED sessionVars
  BY <1>1
  DEF sessionVars, SignedInv, OneOwner, NewNamed, NewUnseen, NewLive, Served, Brings, Underway, Live
<1>2. ASSUME NEW d \in Clients,
             SignOutEverywhere(d) \/ ChangePhoneNumber(d) \/ DeactivateUser(d)
      PROVE  Goal
  <2>1. RevokeAll(d) /\ (holds' = holds \/ holds' = [holds EXCEPT ![d] = NoToken])
    BY <1>2 DEF SignOutEverywhere, ChangePhoneNumber, DeactivateUser
  <2>. QED  BY <2>1, RevokingAllServed
<1>3. holds \in [Clients -> Tokens \cup {NoToken}]
  BY Typed DEF SignedInv, SessionInv
<1>4. ASSUME NEW c \in Calls, call[c] # NoCall, Refused(c),
             call[c].at = "audit" => breaks' # breaks
      PROVE  Goal
  <2>1. /\ Over(c) /\ UNCHANGED <<token, issued>> /\ excused \subseteq excused'
        /\ call[c].at = "audit" => call[c].client \in excused'
    BY <1>4 DEF Refused
  <2>2. \A d \in Clients : holds'[d] = holds[d] \/ (holds'[d] = NoToken /\ d \in excused')
    BY <1>3, <1>4 DEF Refused
  <2>. QED  BY <1>4, <2>1, <2>2, EndingServed DEF Underway
<1>5. ASSUME NEW c \in Calls, ReadToken(c) \/ RefreshBreaks(c) \/ Unanswered(c)
      PROVE  Goal
  <2>1. CASE ReadToken(c)
    <3>1. call[c] # NoCall /\ call[c].at = "read"
      BY <2>1 DEF ReadToken, NoCall
    <3>2. CASE Refused(c)
      BY <1>4, <3>1, <3>2
    <3>3. CASE ~Refused(c)
      BY <2>1, <3>1, <3>3, ReadingServed DEF ReadToken
    <3>. QED  BY <3>2, <3>3
  <2>2. CASE RefreshBreaks(c)
    <3>1. breaks' # breaks
      BY <2>2, SessionAssumption DEF RefreshBreaks, SignedInv, SessionInv, SessionTypeOK
    <3>. QED  BY <1>4, <2>2, <3>1 DEF RefreshBreaks
  <2>3. CASE Unanswered(c)
    <3>1. /\ Underway(c) /\ Over(c) /\ UNCHANGED <<token, issued, holds>>
          /\ excused \subseteq excused'
          /\ call[c].at = "audit" => call[c].client \in excused'
      BY <2>3 DEF Unanswered, Underway
    <3>. QED  BY <3>1, EndingServed
  <2>. QED  BY <1>5, <2>1, <2>2, <2>3
<1>6. ASSUME SessionNext
      PROVE  Goal
  <2>1. ASSUME NEW d \in Clients,
               SignIn(d) \/ SignOut(d) \/ SignOutEverywhere(d)
                 \/ ChangePhoneNumber(d) \/ DeactivateUser(d)
        PROVE  Goal
    BY <1>2, <2>1, SigningInServed, SigningOutServed
  <2>2. ASSUME NEW c \in Calls, NEW d \in Clients, Refresh(c, d)
        PROVE  Goal
    BY <2>2, BeginningServed
  <2>3. ASSUME NEW c \in Calls, CreateToken(c) \/ RevokeOld(c) \/ AnswerTokens(c)
        PROVE  Goal
    BY <2>3, CreatingServed, RevokingOldServed, AnsweringServed
  <2>. HIDE DEF Goal
  <2>. QED  BY <1>5, <1>6, <2>1, <2>2, <2>3 DEF SessionNext
<1>. QED  BY <1>1, <1>6

\* A client that is at rest and was not signed out holds a token that works:
\* other clients come and go, its own refreshes may race one another, and fail
\* at any statement but the last.
THEOREM NobodyDropped == SessionSpec => []StillSignedIn
<1>1. SessionInit => SignedInv
  BY SignedInit
<1>2. SignedInv /\ [SessionNext]_sessionVars => SignedInv'
  BY StepsPreserve, StepsServe DEF SignedInv
<1>3. SignedInv => StillSignedIn
  BY DEF SignedInv, Served, Brings, StillSignedIn, Quiet, Underway
<1>. QED  BY <1>1, <1>2, <1>3, PTL DEF SessionSpec
=============================================================================
