------------------------------ MODULE Sessions ------------------------------
(***************************************************************************)
(* The refresh tokens of one user.  A client holds one; to refresh, the    *)
(* server reads it, stores a new one, revokes the old one, writes its      *)
(* audit log and answers: four statements, no transaction.  A browser      *)
(* keeps its token in a cookie, which every refresh that fails clears; an  *)
(* app keeps it until an answer brings another.                            *)
(*                                                                         *)
(* Sources: services/domain/token/tokenService.ts, repositories/           *)
(* refreshTokenRepository.ts, services/domain/auth/authService.ts,         *)
(* controllers/authController.ts.                                          *)
(***************************************************************************)
EXTENDS Integers

CONSTANTS
  Clients,   \* devices of the user
  Browsers,  \* those that keep their token in a cookie
  Calls,     \* refreshes in flight
  MaxTokens, \* bound: tokens issued
  MaxEpoch,  \* bound: times that all are revoked
  MaxBreaks  \* bound: statements that fail and answers that are lost

ASSUME SessionAssumption ==
  /\ Browsers \subseteq Clients
  /\ MaxTokens \in Nat
  /\ MaxEpoch \in Nat
  /\ MaxBreaks \in Nat

Tokens == 1 .. MaxTokens
NoToken == 0

VARIABLES
  token,    \* the table: state, and the sign-out of all it was issued after
  issued,   \* tokens issued
  holds,    \* the token each client holds
  call,     \* where each refresh is
  enabled,  \* user.isActive
  epoch,    \* history: times all tokens of the user were revoked
  overtaken,\* history: tokens of refreshes that began before such a time
  excused,  \* history: clients that were signed out, or left without an answer
  breaks    \* history: failures

sessionVars == <<token, issued, holds, call, enabled, epoch, overtaken, excused, breaks>>

NoCall == [at |-> "none"]
CallState == {NoCall} \cup
  [at : {"read", "create", "revoke", "audit"}, client : Clients, old : Tokens,
   new : Tokens \cup {NoToken}, late : BOOLEAN]

SessionTypeOK ==
  /\ token \in [Tokens -> [state : {"none", "live", "revoked"}, epoch : 0 .. MaxEpoch]]
  /\ issued \in 0 .. MaxTokens
  /\ \A t \in Tokens : token[t].state = "none" <=> t > issued
  /\ holds \in [Clients -> Tokens \cup {NoToken}]
  /\ call \in [Calls -> CallState]
  /\ enabled \in BOOLEAN
  /\ epoch \in 0 .. MaxEpoch
  /\ overtaken \subseteq Tokens
  /\ excused \subseteq Clients
  /\ breaks \in 0 .. MaxBreaks

SessionInit ==
  /\ token = [t \in Tokens |-> [state |-> "none", epoch |-> 0]]
  /\ issued = 0
  /\ holds = [d \in Clients |-> NoToken]
  /\ call = [c \in Calls |-> NoCall]
  /\ enabled = TRUE
  /\ epoch = 0
  /\ overtaken = {}
  /\ excused = Clients
  /\ breaks = 0

Live(t) == t # NoToken /\ token[t].state = "live"
Quiet(d) == \A c \in Calls : call[c] # NoCall => call[c].client # d
Step(c, place) == call' = [call EXCEPT ![c].at = place]
Over(c) == call' = [call EXCEPT ![c] = NoCall]

\* generateTokenPair stores a token.
Issue(e) ==
  /\ issued < MaxTokens
  /\ issued' = issued + 1
  /\ token' = [token EXCEPT ![issued + 1] = [state |-> "live", epoch |-> e]]

\* revokeByToken, revokeAllByUserId
RevokeOne(t) == token' = [token EXCEPT ![t].state = "revoked"]
RevokeEvery ==
  token' = [t \in Tokens |->
              IF Live(t) THEN [token[t] EXCEPT !.state = "revoked"] ELSE token[t]]

-----------------------------------------------------------------------------
(* Signing in and out *)

\* A client signs in when no refresh of its own is under way.
SignIn(d) ==
  /\ enabled
  /\ Quiet(d)
  /\ Issue(epoch)
  /\ holds' = [holds EXCEPT ![d] = issued + 1]
  /\ excused' = excused \ {d}
  /\ UNCHANGED <<call, enabled, epoch, overtaken, breaks>>

\* logout: the token it shows is revoked.
SignOut(d) ==
  /\ holds[d] # NoToken
  /\ RevokeOne(holds[d])
  /\ holds' = [holds EXCEPT ![d] = NoToken]
  /\ excused' = excused \cup {d}
  /\ UNCHANGED <<issued, call, enabled, epoch, overtaken, breaks>>

\* Fault: the rows of one client.
FaultRevokeAll(d) ==
  /\ epoch < MaxEpoch
  /\ epoch' = epoch + 1
  /\ IF holds[d] = NoToken THEN UNCHANGED token ELSE RevokeOne(holds[d])
  /\ excused' = Clients
  /\ call' = [c \in Calls |-> IF call[c].at = "create"
                                THEN [call[c] EXCEPT !.late = TRUE] ELSE call[c]]
  /\ UNCHANGED <<issued, overtaken, breaks>>

\* One UPDATE of all tokens of the user, at the request of d.  A refresh that
\* has read its token has yet to store another.
RevokeAll(d) ==
  /\ epoch < MaxEpoch
  /\ epoch' = epoch + 1
  /\ RevokeEvery
  /\ excused' = Clients
  /\ call' = [c \in Calls |-> IF call[c].at = "create"
                                THEN [call[c] EXCEPT !.late = TRUE] ELSE call[c]]
  /\ UNCHANGED <<issued, overtaken, breaks>>

\* logout with a token that cannot be read, or without one.
SignOutEverywhere(d) ==
  /\ RevokeAll(d)
  /\ holds' = [holds EXCEPT ![d] = NoToken]
  /\ UNCHANGED enabled

ChangePhoneNumber(d) == enabled /\ RevokeAll(d) /\ UNCHANGED <<holds, enabled>>
DeactivateUser(d) == enabled /\ RevokeAll(d) /\ enabled' = FALSE /\ UNCHANGED holds

-----------------------------------------------------------------------------
(* refreshAccessToken *)

Refresh(c, d) ==
  /\ call[c] = NoCall
  /\ holds[d] # NoToken
  /\ call' = [call EXCEPT ![c] = [at |-> "read", client |-> d, old |-> holds[d],
                                  new |-> NoToken, late |-> FALSE]]
  /\ UNCHANGED <<token, issued, holds, enabled, epoch, overtaken, excused, breaks>>

\* An error is the answer; a browser's cookies are cleared.
Refused(c) ==
  /\ Over(c)
  /\ LET d == call[c].client IN
     /\ holds' = IF d \in Browsers THEN [holds EXCEPT ![d] = NoToken] ELSE holds
     /\ excused' = IF d \in Browsers \/ call[c].at = "audit" THEN excused \cup {d} ELSE excused
  /\ UNCHANGED <<token, issued, enabled, epoch, overtaken>>

ReadToken(c) ==
  /\ call[c].at = "read"
  /\ IF Live(call[c].old) /\ enabled
       THEN Step(c, "create") /\ UNCHANGED <<token, issued, holds, enabled, epoch, overtaken, excused>>
       ELSE Refused(c)
  /\ UNCHANGED breaks

\* Fault: a token that is answered and not stored.
FaultCreateToken(c) ==
  /\ call[c].at = "create"
  /\ issued < MaxTokens
  /\ issued' = issued + 1
  /\ call' = [call EXCEPT ![c].at = "revoke", ![c].new = issued + 1]
  /\ UNCHANGED <<token, holds, enabled, epoch, overtaken, excused, breaks>>

CreateToken(c) ==
  /\ call[c].at = "create"
  /\ Issue(token[call[c].old].epoch)
  /\ call' = [call EXCEPT ![c].at = "revoke", ![c].new = issued + 1]
  /\ overtaken' = IF call[c].late \/ call[c].old \in overtaken
                    THEN overtaken \cup {issued + 1} ELSE overtaken
  /\ UNCHANGED <<holds, enabled, epoch, excused, breaks>>

\* Fault: every token of the user is revoked but the new one.
FaultRevokeOld(c) ==
  /\ call[c].at = "revoke"
  /\ token' = [t \in Tokens |->
       IF Live(t) /\ t # call[c].new THEN [token[t] EXCEPT !.state = "revoked"] ELSE token[t]]
  /\ Step(c, "audit")
  /\ UNCHANGED <<issued, holds, enabled, epoch, overtaken, excused, breaks>>

RevokeOld(c) ==
  /\ call[c].at = "revoke"
  /\ RevokeOne(call[c].old)
  /\ Step(c, "audit")
  /\ UNCHANGED <<issued, holds, enabled, epoch, overtaken, excused, breaks>>

AnswerTokens(c) ==
  /\ call[c].at = "audit"
  /\ holds' = [holds EXCEPT ![call[c].client] = call[c].new]
  /\ Over(c)
  /\ UNCHANGED <<token, issued, enabled, epoch, overtaken, excused, breaks>>

\* The statement a refresh has come to fails.
RefreshBreaks(c) ==
  /\ call[c] # NoCall
  /\ breaks < MaxBreaks
  /\ breaks' = breaks + 1
  /\ Refused(c)

\* The instance stops, or the answer does not arrive: the client keeps what
\* it holds, which may be revoked by now.
Unanswered(c) ==
  /\ call[c] # NoCall
  /\ breaks < MaxBreaks
  /\ breaks' = breaks + 1
  /\ Over(c)
  /\ excused' = IF call[c].at = "audit" THEN excused \cup {call[c].client} ELSE excused
  /\ UNCHANGED <<token, issued, holds, enabled, epoch, overtaken>>

SessionNext ==
  \/ \E d \in Clients : SignIn(d) \/ SignOut(d) \/ SignOutEverywhere(d)
                        \/ ChangePhoneNumber(d) \/ DeactivateUser(d)
  \/ \E c \in Calls, d \in Clients : Refresh(c, d)
  \/ \E c \in Calls : ReadToken(c) \/ CreateToken(c) \/ RevokeOld(c) \/ AnswerTokens(c)
                      \/ RefreshBreaks(c) \/ Unanswered(c)

SessionSpec == SessionInit /\ [][SessionNext]_sessionVars

-----------------------------------------------------------------------------
(* Properties *)

\* A client that has no refresh under way and was not signed out holds a token
\* that works, although its refreshes may have failed at any statement but the
\* last, two of them may have raced, and other clients come and go.
StillSignedIn == \A d \in Clients \ excused : Quiet(d) => Live(holds[d])

\* After all tokens were revoked, those that work come from sign-ins after
\* that, or from a refresh that had read its token before.
RevokedForGood ==
  \A t \in Tokens : Live(t) => token[t].epoch = epoch \/ t \in overtaken
=============================================================================
