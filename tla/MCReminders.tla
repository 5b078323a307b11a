---------------------------- MODULE MCReminders ----------------------------
(* Reminders on small instances: a tick stands for a minute, the query's   *)
(* window and the timings are a few ticks instead of one to two hours.     *)
EXTENDS Reminders

PushAndSms == <<"push", "sms">>
AllChannels == <<"push", "sms", "email">>
SmsOnly == <<"sms">>
=============================================================================
