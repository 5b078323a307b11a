----------------------------- MODULE MCPlatform -----------------------------
(***************************************************************************)
(* Parts of the server that share no state with one another: reminders,    *)
(* customers' records, sessions, teams, text messages, verification codes, *)
(* permissions.  A behaviour is one of the part drawn at the start; the    *)
(* others stand still.                                                     *)
(***************************************************************************)
EXTENDS MCReminders, MCUserBehavior, Sessions, Team, SmsUsage, Verification, Permissions

VARIABLE part

Platform ==
  <<part, vars, customerVars, sessionVars, teamVars, smsVars, verifyVars, permissionVars>>

\* What mix and start are while their parts stand still.
AnyMix == CHOOSE m \in Mixes : TRUE
AnyStart == CHOOSE f \in [Appointments -> Starts] : TRUE

PlatformInit ==
  /\ part \in {"reminders", "customers", "sessions", "team", "sms", "verification",
             "permissions"}
  /\ Init /\ CustomerInit /\ SessionInit /\ TeamInit /\ SmsInit
  /\ VerificationInit /\ PermissionInit
  /\ part # "reminders" => start = AnyStart
  /\ part # "customers" => mix = AnyMix

PlatformNext ==
  \/ /\ part = "reminders" /\ Next
     /\ UNCHANGED <<part, customerVars, sessionVars, teamVars, smsVars, verifyVars, permissionVars>>
  \/ /\ part = "customers" /\ CustomerNext
     /\ UNCHANGED <<part, vars, sessionVars, teamVars, smsVars, verifyVars, permissionVars>>
  \/ /\ part = "sessions" /\ SessionNext
     /\ UNCHANGED <<part, vars, customerVars, teamVars, smsVars, verifyVars, permissionVars>>
  \/ /\ part = "team" /\ TeamNext
     /\ UNCHANGED <<part, vars, customerVars, sessionVars, smsVars, verifyVars, permissionVars>>
  \/ /\ part = "sms" /\ SmsNext
     /\ UNCHANGED <<part, vars, customerVars, sessionVars, teamVars, verifyVars, permissionVars>>
  \/ /\ part = "verification" /\ VerificationNext
     /\ UNCHANGED <<part, vars, customerVars, sessionVars, teamVars, smsVars, permissionVars>>
  \/ /\ part = "permissions" /\ PermissionNext
     /\ UNCHANGED <<part, vars, customerVars, sessionVars, teamVars, smsVars, verifyVars>>

\* The variables of the part that moves have their types; the others keep
\* the values with which some behaviour starts.
PlatformTypeOK ==
  /\ part = "customers" => CustomerTypeOK
  /\ part = "sessions" => SessionTypeOK
  /\ part = "team" => TeamTypeOK
  /\ part = "sms" => SmsTypeOK
  /\ part = "verification" => VerificationTypeOK
  /\ part = "permissions" => PermissionTypeOK

PlatformSpec == PlatformInit /\ [][PlatformNext]_Platform
=============================================================================
