------------------------------ MODULE SmsUsage ------------------------------
(***************************************************************************)
(* The text messages of one business and the quota of its plan.  Every     *)
(* sender - invitations, reminders, notices of closures - asks for the     *)
(* count in the usage row of the month, sends, and only then counts.       *)
(*                                                                         *)
(* Sources: services/domain/usage/usageService.ts, repositories/           *)
(* usageRepository.ts; the senders are in staffService.ts,                 *)
(* notificationService.ts and unifiedNotificationGateway.ts.               *)
(***************************************************************************)
EXTENDS Integers, FiniteSets

CONSTANTS
  Senders,  \* messages in preparation, on any instance
  SmsQuota, \* planLimits.smsQuota
  MaxLost   \* bound: messages of a month that are not counted

ASSUME SmsAssumption ==
  /\ IsFiniteSet(Senders) /\ Senders # {}
  /\ SmsQuota \in Nat
  /\ MaxLost \in Nat

VARIABLES
  smssSent,  \* the count in this month's usage row
  delivered, \* history: messages sent this month
  uncounted, \* history: those that are never counted
  sender     \* what each message is about to go through

smsVars == <<smssSent, delivered, uncounted, sender>>

SmsTypeOK ==
  /\ smssSent \in 0 .. SmsQuota + Cardinality(Senders) - 1
  /\ delivered \in Nat
  /\ uncounted \in 0 .. MaxLost
  /\ sender \in [Senders -> {"idle", "send", "count"}]

SmsInit ==
  /\ smssSent = 0
  /\ delivered = 0
  /\ uncounted = 0
  /\ sender = [w \in Senders |-> "idle"]

SenderStep(w, from, to) ==
  /\ sender[w] = from
  /\ sender' = [sender EXCEPT ![w] = to]

\* Off by one: the message after the last.
FaultCanSendSms(w) ==
  /\ SenderStep(w, "idle", "send")
  /\ smssSent <= SmsQuota
  /\ UNCHANGED <<smssSent, delivered, uncounted>>

CanSendSms(w) ==
  /\ SenderStep(w, "idle", "send")
  /\ smssSent < SmsQuota
  /\ UNCHANGED <<smssSent, delivered, uncounted>>

\* The provider takes the message, or does not.
SmsSent(w) ==
  /\ SenderStep(w, "send", "count")
  /\ delivered' = delivered + 1
  /\ UNCHANGED <<smssSent, uncounted>>
SmsRefused(w) ==
  /\ SenderStep(w, "send", "idle")
  /\ UNCHANGED <<smssSent, delivered, uncounted>>

\* incrementSmsUsage, in the row of the month it is by now.
RecordSmsUsage(w) ==
  /\ SenderStep(w, "count", "idle")
  /\ smssSent' = smssSent + 1
  /\ UNCHANGED <<delivered, uncounted>>

\* The increment fails - two may try to create the row - or the instance stops.
RecordLost(w) ==
  /\ SenderStep(w, "count", "idle")
  /\ uncounted < MaxLost
  /\ uncounted' = uncounted + 1
  /\ UNCHANGED <<smssSent, delivered>>

\* A month without a row yet.
NewMonth ==
  /\ smssSent' = 0
  /\ delivered' = 0
  /\ uncounted' = 0
  /\ UNCHANGED sender

SmsNext ==
  \/ \E w \in Senders : CanSendSms(w) \/ SmsSent(w) \/ SmsRefused(w)
                        \/ RecordSmsUsage(w) \/ RecordLost(w)
  \/ NewMonth

SmsSpec == SmsInit /\ [][SmsNext]_smsVars

-----------------------------------------------------------------------------
(* Properties *)

\* However the senders overlap, and across the turn of a month, a business sends
\* its quota, one message for every other sender that had asked before, and those
\* that were never counted - no more.
SmsWithinQuota ==
  delivered <= SmsQuota + uncounted + Cardinality(Senders) - 1
=============================================================================
