---------------------------- MODULE UserBehavior ----------------------------
(***************************************************************************)
(* What a customer did with his appointments and what it costs him: the    *)
(* counts and strikes of his row in user_behavior, the bans of the         *)
(* businesses, and the policy that a booking, a cancellation and a no-show *)
(* are checked against.  Handlers read these rows, await, and write them;  *)
(* a job resets the monthly counts.                                        *)
(*                                                                         *)
(* Sources: repositories/userBehaviorRepository.ts, services/domain/       *)
(* business/cancellationPolicyService.ts, services/domain/userBehavior/    *)
(* userBehaviorService.ts, controllers/userBehaviorController.ts, jobs/    *)
(* user/ResetMonthlyCountsJob.ts and the callers of these in services/     *)
(* domain/appointment/appointmentService.ts.                               *)
(***************************************************************************)
EXTENDS Integers, FiniteSets

CONSTANTS
  Customers, Businesses,
  Bookings,   \* ids that inserted rows get
  Tasks,          \* requests in flight
  Nobody,         \* customer and business of a row that is not inserted
  MaxCancels,     \* maxDailyCancellations of the policy, counted by the month
  MaxNoShows,     \* maxMonthlyNoShows
  MinNotice,      \* minCancellationHours, in days
  GraceDays,      \* gracePeriodDays
  AutoBan,        \* autoBanEnabled
  PolicyBan,      \* banDurationDays
  LateBan,        \* days of the ban for late cancellations
  BanDays,        \* days of the first, second and later bans
  StrikeDays,     \* days until strikes expire
  RecountAt,      \* events of a month that make 1, 2, 3 strikes in a recount
  ListedAt,       \* strikes, cancels, noShows that make a customer problematic
  AutoAt,         \* weekCancels, weekNoShows, cancels that earn a strike
  WeekDays, MonthDays,
  UtcServer,      \* the server's calendar is behind Istanbul's at midnight
  Mixes,          \* a behaviour exercises one of these sets of operations,
                  \* bounding the requests in flight and the clock
  MaxStrikes      \* bound: strikes saturate

AllOperations == {"book", "cancel", "ownerCancel", "status", "confirm", "approve", "noShow",
                  "ban", "unban", "strike", "removeStrike", "adminBan",
                  "automatic", "expire", "reset"}

ASSUME UserBehaviorAssumption ==
  /\ Nobody \notin Customers \cup Businesses
  /\ {MaxCancels, MaxNoShows, MinNotice, GraceDays} \subseteq Nat
  /\ {PolicyBan, LateBan, StrikeDays, WeekDays, MonthDays} \subseteq Nat \ {0}
  /\ MaxStrikes \in Nat /\ MaxStrikes >= 3
  /\ BanDays \in [1 .. 3 -> Nat \ {0}]
  /\ RecountAt \in [1 .. 3 -> Nat]
  /\ ListedAt \in [{"strikes", "cancels", "noShows"} -> Nat]
  /\ AutoAt \in [{"weekCancels", "weekNoShows", "cancels"} -> Nat]
  /\ AutoBan \in BOOLEAN /\ UtcServer \in BOOLEAN
  /\ Mixes \subseteq [operations : SUBSET AllOperations,
                      atOnce : Nat, days : Nat]
  /\ IsFiniteSet(Bookings)

Null == -1                      \* a date that is null
Days == Nat \cup {Null}
\* PENDING and CONFIRMED are alike here: "ACTIVE"; "WAITING" is PENDING_APPROVAL.
Statuses == {"NONE", "WAITING", "ACTIVE", "CANCELED", "NO_SHOW", "COMPLETED"}

Row == [status   : Statuses,
        customer : Customers \cup {Nobody},
        business : Businesses \cup {Nobody},
        day      : Nat,
        gone     : Days,                              \* canceledAt
        by       : {"nobody", "CUSTOMER", "BUSINESS"}] \* cancelledBy

NoRow == [status |-> "NONE", customer |-> Nobody, business |-> Nobody,
          day |-> 0, gone |-> Null, by |-> "nobody"]

Counts == [cancels : Nat, weekCancels : Nat, noShows : Nat, weekNoShows : Nat]
NoCounts == [cancels |-> 0, weekCancels |-> 0, noShows |-> 0, weekNoShows |-> 0]

Behavior == [born    : Days,              \* createdAt; null: no row
             counts  : Counts,            \* of this month and this week
             strikes : 0 .. MaxStrikes,
             resetOn : Days,              \* strikeResetDate
             banned  : BOOLEAN,
             until   : Days,              \* bannedUntil; null: for ever
             bans    : 0 .. 3,            \* banCount, compared with 1 and 2
             touched : Days]              \* updatedAt

NoBehavior == [born |-> Null, counts |-> NoCounts, strikes |-> 0, resetOn |-> Null,
               banned |-> FALSE, until |-> Null, bans |-> 0, touched |-> Null]

Ban == [active : BOOLEAN, until : Days]

VARIABLES
  mix,       \* the operations and bounds of this behaviour
  date,       \* the day in Istanbul
  rows,      \* appointments
  behavior,  \* user_behavior, by customer
  ban,       \* business_bans, by customer and business
  task,      \* what each request is doing and what it has read
  despite    \* history: rows put on the book of a business that had already
             \* banned the customer, by a request that started before the ban
             \* or by the business itself

customerVars == <<mix, date, rows, behavior, ban, task, despite>>

Places == {"idle", "lift", "policy", "insert",   \* a booking
           "sweepRead", "sweep",                  \* a ban
           "count", "store",                      \* createOrUpdate
           "strike", "strikeWrite",               \* addStrike
           "unstrike",                            \* removeStrike
           "verdict", "banWrite"}                 \* a violation's ban; banUser

Task == [at        : Places,
         customer  : Customers \cup {Nobody},
         business  : Businesses \cup {Nobody},
         day       : Nat,
         counts    : Counts,
         seen      : SUBSET Bookings,
         strikes   : 0 .. MaxStrikes,    \* currentStrikes as read
         bans      : 0 .. 3,             \* banCount as read
         late      : BOOLEAN,            \* the strike is for a late cancellation
         then      : {"nothing", "policy", "verdict"}, \* after the strike
         length    : Nat,                \* days of the ban to write, 0: for ever
         overtaken : BOOLEAN]            \* history: banned since it looked

Idle == [at |-> "idle", customer |-> Nobody, business |-> Nobody, day |-> 0,
         counts |-> NoCounts, seen |-> {}, strikes |-> 0, bans |-> 0,
         late |-> FALSE, then |-> "nothing", length |-> 0, overtaken |-> FALSE]

-----------------------------------------------------------------------------
(* Counting.                                                               *)

MonthStart(d) == (d \div MonthDays) * MonthDays
WeekStart(d) == (d \div WeekDays) * WeekDays

RowsOf(c) == {a \in Bookings : rows[a].customer = c}

\* Cancellations that are the customer's, since a day.
CancelsSince(c, d) ==
  Cardinality({a \in RowsOf(c) : /\ rows[a].status = "CANCELED"
                                 /\ rows[a].by # "BUSINESS"
                                 /\ rows[a].gone >= d})

NoShowsSince(c, d) ==
  Cardinality({a \in RowsOf(c) : rows[a].status = "NO_SHOW" /\ rows[a].gone >= d})

Counted(c) == [cancels     |-> CancelsSince(c, MonthStart(date)),
               weekCancels |-> CancelsSince(c, WeekStart(date)),
               noShows     |-> NoShowsSince(c, MonthStart(date)),
               weekNoShows |-> NoShowsSince(c, WeekStart(date))]

\* The strikes that a recount gives, whatever was there before.
RecountedStrikes(counts) ==
  LET n == counts.cancels + counts.noShows
  IN IF n >= RecountAt[3] THEN 3
     ELSE IF n >= RecountAt[2] THEN 2
     ELSE IF n >= RecountAt[1] THEN 1 ELSE 0

StrikeResetDate(n) == IF n = 0 THEN Null ELSE date + StrikeDays

\* createOrUpdate's last statement: counts and strikes, never the ban.
Recounted(b, counts) ==
  LET n == RecountedStrikes(counts)
  IN [b EXCEPT !.born = IF b.born = Null THEN date ELSE @,
               !.counts = counts, !.strikes = n,
               !.resetOn = StrikeResetDate(n), !.touched = date]

\* The row a reader gets: one that is missing is made first.
Existing(c) == IF behavior[c].born = Null THEN Recounted(NoBehavior, Counted(c))
               ELSE behavior[c]

(* What the policy allows.                                                 *)

Expired(c, b) == ban[c][b].until # Null /\ ban[c][b].until <= date
Banned(c, b) == ban[c][b].active /\ ~Expired(c, b)

Graced(c) == GraceDays > 0 /\ date < Existing(c).born + GraceDays

\* A bug: the bans of the businesses are not looked at again.
FaultAllowed(action, c, b, day) ==
  \/ Graced(c)
  \/ /\ action = "CANCEL" => day - date >= MinNotice
     /\ action = "BOOK" => CancelsSince(c, MonthStart(date)) < MaxCancels
     /\ action \in {"BOOK", "NO_SHOW"} => Existing(c).counts.noShows < MaxNoShows

\* checkPolicyViolations: no-shows as stored, cancellations as they are.
Allowed(action, c, b, day) ==
  /\ ~Banned(c, b)
  /\ \/ Graced(c)
     \/ /\ action = "CANCEL" => day - date >= MinNotice
        /\ action = "BOOK" => CancelsSince(c, MonthStart(date)) < MaxCancels
        /\ action \in {"BOOK", "NO_SHOW"} => Existing(c).counts.noShows < MaxNoShows

-----------------------------------------------------------------------------
(* A booking: the ban, the policy, the row, the recount.                   *)

MayStart(t) == /\ task[t] = Idle
           /\ Cardinality({s \in Tasks : task[s] # Idle}) < mix.atOnce

\* A request begins, with the fields of `with` and the rest as when idle.
Begins(t, op, with) ==
  /\ op \in mix.operations
  /\ MayStart(t)
  /\ task' = [task EXCEPT ![t] = with]

Goes(t, place) == task' = [task EXCEPT ![t].at = place]
Ends(t) == task' = [task EXCEPT ![t] = Idle]

About(c, place) == [Idle EXCEPT !.at = place, !.customer = c]

\* A bug: a ban with an end is lifted without a look at the end.
FaultBookStart(t, c, b, day) ==
  /\ day >= date
  /\ ban[c][b].active => ban[c][b].until # Null
  /\ Begins(t, "book", [About(c, IF ban[c][b].active THEN "lift" ELSE "policy")
                         EXCEPT !.business = b, !.day = day])
  /\ UNCHANGED <<mix, date, rows, behavior, ban, despite>>

BookStart(t, c, b, day) ==
  /\ day >= date
  /\ ~Banned(c, b)
  /\ Begins(t, "book", [About(c, IF ban[c][b].active THEN "lift" ELSE "policy")
                         EXCEPT !.business = b, !.day = day])
  /\ UNCHANGED <<mix, date, rows, behavior, ban, despite>>

\* The ban it read had expired: lifted by its key.
BookLift(t) ==
  /\ task[t].at = "lift"
  /\ ban' = [ban EXCEPT ![task[t].customer][task[t].business].active = FALSE]
  /\ Goes(t, "policy")
  /\ UNCHANGED <<mix, date, rows, behavior, despite>>

BookPolicy(t) ==
  LET c == task[t].customer
  IN /\ task[t].at = "policy"
     /\ behavior' = [behavior EXCEPT ![c] = Existing(c)]
     /\ IF Allowed("BOOK", c, task[t].business, task[t].day)
        THEN Goes(t, "insert") ELSE Ends(t)
     /\ UNCHANGED <<mix, date, rows, ban, despite>>

\* The other rules of a booking, and the calendar, are Booking's.
BookRefused(t) ==
  /\ task[t].at = "insert"
  /\ Ends(t)
  /\ UNCHANGED <<mix, date, rows, behavior, ban, despite>>

BookInsert(t, a) ==
  /\ task[t].at = "insert"
  /\ rows[a].status = "NONE"
  /\ \E status \in {"ACTIVE", "WAITING"} :
       /\ status = "WAITING" => "approve" \in mix.operations
       /\ rows' = [rows EXCEPT ![a] = [NoRow EXCEPT !.status = status,
                      !.customer = task[t].customer, !.business = task[t].business,
                      !.day = task[t].day]]
  /\ despite' = IF task[t].overtaken THEN despite \cup {a} ELSE despite
  /\ Goes(t, "count")
  /\ UNCHANGED <<mix, date, behavior, ban>>

\* createOrUpdate: many queries, then one write of what they found.
Count(t) ==
  /\ task[t].at = "count"
  /\ task' = [task EXCEPT ![t].at = "store", ![t].counts = Counted(task[t].customer)]
  /\ UNCHANGED <<mix, date, rows, behavior, ban, despite>>

Store(t) ==
  /\ task[t].at = "store"
  /\ behavior' = [behavior EXCEPT
                    ![task[t].customer] = Recounted(@, task[t].counts)]
  /\ Ends(t)
  /\ UNCHANGED <<mix, date, rows, ban, despite>>

-----------------------------------------------------------------------------
(* What becomes of an appointment.  A handler decides and writes the row   *)
(* in one step (races for a row are Booking's); what follows is not.       *)

CanceledBy(row, who) ==
  [row EXCEPT !.status = "CANCELED", !.gone = date, !.by = who]

\* A strike when the appointment is less than a day off, a recount otherwise.
AfterOwnCancel(row) ==
  IF row.day - date < 1
  THEN [About(row.customer, "strike") EXCEPT !.late = TRUE]
  ELSE About(row.customer, "count")

\* cancelAppointment, by the customer.
CancelOwn(t, a) ==
  /\ rows[a].status \in {"WAITING", "ACTIVE", "NO_SHOW"}
  /\ Allowed("CANCEL", rows[a].customer, rows[a].business, rows[a].day)
  /\ Begins(t, "cancel", AfterOwnCancel(rows[a]))
  /\ behavior' = [behavior EXCEPT ![rows[a].customer] = Existing(rows[a].customer)]
  /\ rows' = [rows EXCEPT ![a] = CanceledBy(@, "CUSTOMER")]
  /\ UNCHANGED <<mix, date, ban, despite>>

\* The edit endpoint: no policy, no look at the status, only at the start.
CancelByEdit(t, a) ==
  /\ rows[a].status # "NONE"
  /\ rows[a].day >= date
  /\ Begins(t, "cancel", AfterOwnCancel(rows[a]))
  /\ rows' = [rows EXCEPT ![a] = CanceledBy(@, "CUSTOMER")]
  /\ UNCHANGED <<mix, date, behavior, ban, despite>>

\* cancelAppointment, by the business.
OwnerCancel(a) ==
  /\ "ownerCancel" \in mix.operations
  /\ rows[a].status \in {"WAITING", "ACTIVE", "NO_SHOW"}
  /\ rows' = [rows EXCEPT ![a] = CanceledBy(@, "BUSINESS")]
  /\ UNCHANGED <<mix, date, behavior, ban, task, despite>>

\* The status endpoint, by the business, whatever the status was.
StatusCanceled(a, who) ==
  /\ "status" \in mix.operations
  /\ rows[a].status # "NONE"
  /\ rows' = [rows EXCEPT ![a] = CanceledBy(@, who)]
  /\ UNCHANGED <<mix, date, behavior, ban, task, despite>>

StatusConfirmed(a) ==
  /\ "confirm" \in mix.operations
  /\ rows[a].status # "NONE"
  /\ rows' = [rows EXCEPT ![a].status = "ACTIVE"]
  /\ despite' = IF Banned(rows[a].customer, rows[a].business)
                THEN despite \cup {a} ELSE despite
  /\ UNCHANGED <<mix, date, behavior, ban, task>>

\* approveAppointment does not look at bans, and a ban leaves what waits.
Approve(a) ==
  /\ "approve" \in mix.operations
  /\ rows[a].status = "WAITING"
  /\ rows' = [rows EXCEPT ![a].status = "ACTIVE"]
  /\ despite' = IF Banned(rows[a].customer, rows[a].business)
                THEN despite \cup {a} ELSE despite
  /\ UNCHANGED <<mix, date, behavior, ban, task>>

StatusNoShow(t, a) ==
  /\ rows[a].status # "NONE"
  /\ Begins(t, "status", About(rows[a].customer, "strike"))
  /\ rows' = [rows EXCEPT ![a].status = "NO_SHOW", ![a].gone = date]
  /\ UNCHANGED <<mix, date, behavior, ban, despite>>

\* This endpoint's COMPLETED, and completeAppointment.
StatusCompleted(t, a) ==
  /\ rows[a].status # "NONE"
  /\ Begins(t, "status", About(rows[a].customer, "count"))
  /\ rows' = [rows EXCEPT ![a].status = "COMPLETED"]
  /\ UNCHANGED <<mix, date, behavior, ban, despite>>

MarkNoShow(t, a) ==
  /\ rows[a].status # "NONE"
  /\ Allowed("NO_SHOW", rows[a].customer, rows[a].business, rows[a].day)
  /\ Begins(t, "noShow", [About(rows[a].customer, "strike") EXCEPT !.then = "policy"])
  /\ behavior' = [behavior EXCEPT ![rows[a].customer] = Existing(rows[a].customer)]
  /\ rows' = [rows EXCEPT ![a].status = "NO_SHOW", ![a].gone = date]
  /\ UNCHANGED <<mix, date, ban, despite>>

-----------------------------------------------------------------------------
(* Strikes: read, add in memory, write.                                    *)

AddStrike(t, c) ==
  /\ Begins(t, "strike", About(c, "strike"))
  /\ UNCHANGED <<mix, date, rows, behavior, ban, despite>>

\* processAutomaticStrikes, one listed customer.
AutomaticStrike(t, c) ==
  LET b == behavior[c]
  IN /\ b.born # Null
     /\ \/ b.strikes >= ListedAt["strikes"]
        \/ b.counts.cancels >= ListedAt["cancels"]
        \/ b.counts.noShows >= ListedAt["noShows"]
     /\ ~b.banned
     /\ \/ b.counts.weekCancels >= AutoAt["weekCancels"]
        \/ b.counts.weekNoShows >= AutoAt["weekNoShows"]
        \/ b.counts.cancels >= AutoAt["cancels"]
     /\ Begins(t, "automatic", About(c, "strike"))
     /\ UNCHANGED <<mix, date, rows, behavior, ban, despite>>

Strike(t) ==
  LET c == task[t].customer
  IN /\ task[t].at = "strike"
     /\ behavior' = [behavior EXCEPT ![c] = Existing(c)]
     /\ task' = [task EXCEPT ![t].at = "strikeWrite",
                             ![t].strikes = Existing(c).strikes,
                             ![t].bans = Existing(c).bans]
     /\ UNCHANGED <<mix, date, rows, ban, despite>>

OneMoreBan(n) == IF n < 3 THEN n + 1 ELSE 3

\* The third strike is a ban; fewer than three end one.
Struck(b, strikes, bans, late) ==
  LET n == IF strikes < MaxStrikes THEN strikes + 1 ELSE strikes
      k == OneMoreBan(bans)
      struck == [b EXCEPT !.strikes = n, !.resetOn = StrikeResetDate(n),
                          !.banned = n >= 3, !.bans = bans, !.touched = date]
  IN IF n < 3 THEN struck
     ELSE [struck EXCEPT !.bans = k,
                         !.until = date + (IF late THEN LateBan ELSE BanDays[k])]

\* handlePolicyViolation follows a no-show: a second strike, then the verdict.
StrikeWrite(t) ==
  /\ task[t].at = "strikeWrite"
  /\ behavior' = [behavior EXCEPT ![task[t].customer] =
                    Struck(@, task[t].strikes, task[t].bans, task[t].late)]
  /\ \/ /\ task[t].then = "policy" /\ AutoBan
        /\ task' = [task EXCEPT ![t].at = "strike", ![t].then = "verdict"]
     \/ /\ task[t].then = "verdict"
        /\ Goes(t, "verdict")
     \/ /\ task[t].then = "nothing" \/ (task[t].then = "policy" /\ ~AutoBan)
        /\ Ends(t)
  /\ UNCHANGED <<mix, date, rows, ban, despite>>

Verdict(t) ==
  LET c == task[t].customer
  IN /\ task[t].at = "verdict"
     /\ IF behavior[c].strikes >= 3
        THEN task' = [task EXCEPT ![t].at = "banWrite", ![t].bans = behavior[c].bans,
                                  ![t].length = PolicyBan]
        ELSE Ends(t)
     /\ UNCHANGED <<mix, date, rows, behavior, ban, despite>>

\* banUser, by an administrator, for some days or for ever.
AdminBan(t, c, length) ==
  /\ Begins(t, "adminBan", [About(c, "banWrite") EXCEPT !.bans = Existing(c).bans,
                                                        !.length = length])
  /\ behavior' = [behavior EXCEPT ![c] = Existing(c)]
  /\ UNCHANGED <<mix, date, rows, ban, despite>>

BanWrite(t) ==
  /\ task[t].at = "banWrite"
  /\ behavior' = [behavior EXCEPT ![task[t].customer] =
       [@ EXCEPT !.banned = TRUE, !.strikes = 3, !.bans = OneMoreBan(task[t].bans),
                 !.until = IF task[t].length = 0 THEN Null ELSE date + task[t].length,
                 !.touched = date]]
  /\ Ends(t)
  /\ UNCHANGED <<mix, date, rows, ban, despite>>

RemoveStrike(t, c) ==
  /\ behavior[c].born # Null
  /\ Begins(t, "removeStrike", [About(c, "unstrike") EXCEPT
                                 !.strikes = behavior[c].strikes])
  /\ UNCHANGED <<mix, date, rows, behavior, ban, despite>>

\* A bug: the count is not kept at zero.
FaultRemoveStrikeWrite(t) ==
  /\ task[t].at = "unstrike"
  /\ behavior' = [behavior EXCEPT ![task[t].customer] =
       [@ EXCEPT !.strikes = task[t].strikes - 1,
                 !.resetOn = StrikeResetDate(task[t].strikes - 1),
                 !.banned = FALSE, !.until = Null, !.touched = date]]
  /\ Ends(t)
  /\ UNCHANGED <<mix, date, rows, ban, despite>>

RemoveStrikeWrite(t) ==
  LET n == IF task[t].strikes = 0 THEN 0 ELSE task[t].strikes - 1
  IN /\ task[t].at = "unstrike"
     /\ behavior' = [behavior EXCEPT ![task[t].customer] =
          [@ EXCEPT !.strikes = n, !.resetOn = StrikeResetDate(n),
                    !.banned = FALSE, !.until = Null, !.touched = date]]
     /\ Ends(t)
     /\ UNCHANGED <<mix, date, rows, ban, despite>>

ExpireStrikes ==
  /\ "expire" \in mix.operations
  /\ behavior' = [c \in Customers |->
       IF /\ behavior[c].resetOn # Null /\ behavior[c].resetOn <= date
          /\ behavior[c].strikes > 0
       THEN [behavior[c] EXCEPT !.strikes = 0, !.resetOn = Null, !.touched = date]
       ELSE behavior[c]]
  /\ UNCHANGED <<mix, date, rows, ban, task, despite>>

ExpireBans ==
  /\ "expire" \in mix.operations
  /\ behavior' = [c \in Customers |->
       IF /\ behavior[c].banned
          /\ behavior[c].until # Null /\ behavior[c].until <= date
       THEN [behavior[c] EXCEPT !.banned = FALSE, !.until = Null, !.touched = date]
       ELSE behavior[c]]
  /\ UNCHANGED <<mix, date, rows, ban, task, despite>>

-----------------------------------------------------------------------------
(* Bans by a business: the upsert, then the customer's future rows.        *)

\* Bookings that have looked at the ban that is being replaced.
Overtaken(t, c, b) ==
  /\ task[t].at \in {"lift", "insert"}
  /\ task[t].customer = c /\ task[t].business = b

OwnerBan(t, c, b, until) ==
  /\ \E a \in Bookings : rows[a].customer = c /\ rows[a].business = b
  /\ "ban" \in mix.operations
  /\ MayStart(t)
  /\ ban' = [ban EXCEPT ![c][b] = [active |-> TRUE, until |-> until]]
  /\ task' = [s \in Tasks |->
                IF s = t THEN [About(c, "sweepRead") EXCEPT !.business = b]
                ELSE IF Overtaken(s, c, b) THEN [task[s] EXCEPT !.overtaken = TRUE]
                ELSE task[s]]
  /\ UNCHANGED <<mix, date, rows, behavior, despite>>

\* Rows of later days: the date of today is its midnight, which has passed.
Future(c, b) == {a \in RowsOf(c) : /\ rows[a].business = b
                                   /\ rows[a].status = "ACTIVE"
                                   /\ rows[a].day > date}

SweepRead(t) ==
  LET found == Future(task[t].customer, task[t].business)
  IN /\ task[t].at = "sweepRead"
     /\ IF found = {} THEN Ends(t)
        ELSE task' = [task EXCEPT ![t].at = "sweep", ![t].seen = found]
     /\ UNCHANGED <<mix, date, rows, behavior, ban, despite>>

\* By id alone, and nobody is named as the one who cancelled.
Sweep(t) ==
  /\ task[t].at = "sweep"
  /\ rows' = [a \in Bookings |->
               IF a \in task[t].seen THEN CanceledBy(rows[a], rows[a].by) ELSE rows[a]]
  /\ Ends(t)
  /\ UNCHANGED <<mix, date, behavior, ban, despite>>

OwnerUnban(c, b) ==
  /\ "unban" \in mix.operations
  /\ ban' = [ban EXCEPT ![c][b].active = FALSE]
  /\ UNCHANGED <<mix, date, rows, behavior, task, despite>>

-----------------------------------------------------------------------------
(* The job of the first of the month, and the clock.                       *)

\* The month that the server's own calendar shows at Istanbul's midnight.
ServerMonthStart == IF UtcServer /\ date > 0 THEN MonthStart(date - 1) ELSE MonthStart(date)

LooksReset(b) == /\ b.born # Null /\ b.touched >= ServerMonthStart
                 /\ b.counts.noShows = 0 /\ b.counts.cancels = 0

\* One row that looks reset keeps the job from resetting any.
ResetMonthlyCounts ==
  /\ "reset" \in mix.operations
  /\ date = MonthStart(date)
  /\ \A c \in Customers : ~LooksReset(behavior[c])
  /\ behavior' = [c \in Customers |->
       IF behavior[c].counts # NoCounts
       THEN [behavior[c] EXCEPT !.counts = NoCounts, !.touched = date]
       ELSE behavior[c]]
  /\ UNCHANGED <<mix, date, rows, ban, task, despite>>

DayPasses ==
  /\ date < mix.days
  /\ date' = date + 1
  /\ UNCHANGED <<mix, rows, behavior, ban, task, despite>>

CustomerInit ==
  /\ mix \in Mixes
  /\ date = 0
  /\ rows = [a \in Bookings |-> NoRow]
  /\ behavior = [c \in Customers |-> NoBehavior]
  /\ ban = [c \in Customers |-> [b \in Businesses |-> [active |-> FALSE, until |-> Null]]]
  /\ task = [t \in Tasks |-> Idle]
  /\ despite = {}

BookStep(t) ==
  \/ \E c \in Customers, b \in Businesses, d \in date .. date + 1 : BookStart(t, c, b, d)
  \/ BookLift(t) \/ BookPolicy(t) \/ BookRefused(t)
  \/ \E a \in Bookings : BookInsert(t, a)
  \/ Count(t) \/ Store(t)

VisitStep(t) ==
  \E a \in Bookings :
    \/ CancelOwn(t, a) \/ CancelByEdit(t, a)
    \/ OwnerCancel(a) \/ StatusConfirmed(a) \/ Approve(a)
    \/ \E who \in {"CUSTOMER", "BUSINESS"} : StatusCanceled(a, who)
    \/ StatusNoShow(t, a) \/ StatusCompleted(t, a) \/ MarkNoShow(t, a)

StrikeStep(t) ==
  \/ \E c \in Customers : AddStrike(t, c) \/ AutomaticStrike(t, c) \/ RemoveStrike(t, c)
  \/ Strike(t) \/ StrikeWrite(t) \/ Verdict(t) \/ RemoveStrikeWrite(t)
  \/ \E c \in Customers, length \in {0, PolicyBan} : AdminBan(t, c, length)
  \/ BanWrite(t)

BanStep(t) ==
  \/ \E c \in Customers, b \in Businesses, until \in {Null, date + 1} :
       OwnerBan(t, c, b, until)
  \/ SweepRead(t) \/ Sweep(t)

CustomerNext ==
  \/ \E t \in Tasks : BookStep(t) \/ VisitStep(t) \/ StrikeStep(t) \/ BanStep(t)
  \/ \E c \in Customers, b \in Businesses : OwnerUnban(c, b)
  \/ ExpireStrikes \/ ExpireBans \/ ResetMonthlyCounts \/ DayPasses

CustomerSpec == CustomerInit /\ [][CustomerNext]_customerVars

-----------------------------------------------------------------------------
(* Properties.                                                             *)

\* Every variable has its type.
CustomerTypeOK ==
  /\ mix \in Mixes
  /\ date \in Nat
  /\ rows \in [Bookings -> Row]
  /\ behavior \in [Customers -> Behavior]
  /\ ban \in [Customers -> [Businesses -> Ban]]
  /\ task \in [Tasks -> Task]
  /\ despite \subseteq Bookings

Sweeping(c, b) ==
  \E t \in Tasks : /\ task[t].at \in {"sweepRead", "sweep"}
                  /\ task[t].customer = c /\ task[t].business = b

\* Once a ban has been carried out the customer has no row of a later day at
\* the business, but those of bookings that had passed the check before it
\* and those that the business put back or approved itself.
BannedHoldsNothing ==
  \A c \in Customers, b \in Businesses :
    Banned(c, b) /\ ~Sweeping(c, b) => Future(c, b) \subseteq despite

\* A ban ends early only by the business, or by a booking that had read the
\* expired ban before this one was set.
BansHold ==
  [][\A c \in Customers, b \in Businesses :
       Banned(c, b) /\ ~ban'[c][b].active =>
         \/ OwnerUnban(c, b)
         \/ \E t \in Tasks : BookLift(t) /\ task[t].overtaken]_customerVars

\* A booking that the policy refuses is refused for what the customer did: a
\* ban, or as many of his own cancellations or no-shows this month as allowed.
RefusedForOwnDeeds ==
  [][\A t \in Tasks :
       BookPolicy(t) /\ task'[t] = Idle =>
         LET c == task[t].customer
             month == {a \in RowsOf(c) : rows[a].gone >= MonthStart(date)}
         IN \/ Banned(c, task[t].business)
            \/ Cardinality({a \in month : rows[a].status = "CANCELED"
                                          /\ rows[a].by = "CUSTOMER"}) >= MaxCancels
            \/ Cardinality({a \in month : rows[a].status = "NO_SHOW"}) >= MaxNoShows
    ]_customerVars

=============================================================================
