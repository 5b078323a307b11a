# A verification of the Randevubu server

Randevubu is an appointment service for small businesses (salons, clinics): a
Node/Express server in TypeScript, PostgreSQL through Prisma, Redis for locks and
caches, iyzico for payments. In production nginx spreads requests over three
instances of the server, and every instance also runs every cron job and the
subscription scheduler (`index.ts` starts both).

This directory holds TLA+ models of the parts where that setting makes the code
hard to get right, TLC runs that check them, and proofs of the main theorems.

## 1. The system

| Part | State it keeps | Operations | What is hard | What makes it correct | Module |
|---|---|---|---|---|---|
| Appointment book | `appointments` rows, exclusion constraint | book, approve, reject, cancel, reschedule, mark, bulk cancel, automatic rescheduling, screens that write, completion job | every handler reads, awaits, then writes by id; READ COMMITTED; two clocks | no double booking; decided rows stay decided; ended rows are completed | `Booking` |
| Reminders job | Redis lock, `reminderSentAt` | lock, list, send, mark, release | lock that expires or never does, crashes, retries | everybody is reminded, once; the lock is freed | `Reminders` |
| Subscription billing, payments | `business_subscriptions`, `payments`, iyzico | subscribe, trial, renew, cancel, reactivate, expire, change plan, charge, refund, retry | three schedulers charge the same rows; money moves outside the database | cancelled stays cancelled; failures stop the charges; rows tell what iyzico did; each period paid, once | `Billing` |
| Discount codes | usage counters, rows of uses, `pendingDiscount` | validate, keep for later, apply, record | test and count are far apart | no more uses than the limit | `Discounts` |
| Usage metering | monthly counters | check, record | same | no more than the quota | `SmsUsage` |
| Customer behaviour | counts, strikes, bans | no-show, cancel, strike, ban, policy, monthly reset | read-modify-write, two kinds of ban, counts of other people's deeds | bans hold until they end; customers pay for their own deeds | `UserBehavior` |
| Closures | `business_closures` | announce, move, extend, end, switch, expire | check and write are two statements | no two active closures overlap | `Closures` |
| Sessions | refresh tokens, cookies | sign in and out, refresh, revoke | rotation in four statements | nobody is signed out by a failure; revoked is revoked | `Sessions` |
| Staff | `business_staff`, invitations | invite, admit, remove, switch, transfer | team counted before the row is written | no more members than the plan allows | `Team` |
| Phone verification | codes, attempts | send, verify, clean | attempts overlap each other and expiry | a code works once, within its attempts | `Verification` |
| Permissions | a cache of roles in each instance | load, join a load, clear | a load that is under way when the cache is cleared | after clearing, no request is judged by older roles | `Permissions` |
| Push | queue and timers in memory, `push_notifications` | enqueue, send, retry, disable | tasks of one device write each other's rows | a row tells what became of its message; nothing stalls | `Push` |
| Cache | Redis values and locks | get, fetch, store, invalidate | lock outlived by its owner; lost invalidation | a release frees its own lock; readers are answered; the cache comes to tell the truth | `Cache` |
| Free slots | none | the page of a day's slots | asks for rows by their start and judges overlap by itself, a booking asks by their date | shows as free what a booking takes | `Slots` |
| Notebook | columns and cells of a month | open, edit, add and delete columns | a first opening is several statements, every opening writes | the answer is what was earned | `Notebook` |
| Images | gallery and logo, objects in S3 | put up, remove, arrange | S3, then the row; lists that are read and written back | no upload is lost to another | `Images` |
| Jobs | none across ticks | schedule, run | runs of one job overlap | as the jobs | with each job |
| Businesses, services, customers, ratings, pricing, reports | rows | create, read, update, delete | see section 7 | | |

Parts meet in the database and in Redis, never by calls between instances. A
handler's steps are its queries; between two of them anything may run. The modules
share little: `Booking` has the calendar's side of a customer's ban and of a closed
day, `UserBehavior` the customer's side of a booking; `Billing` counts the uses left
of a discount, `Discounts` the uses of the code.

## 2. Modules

| Module | What it is |
|---|---|
| `StaffCalendar` | abstract specification: the slots of staff members, never overlapping |
| `Booking`, `Reminders`, `Billing` | the three large parts |
| `UserBehavior`, `Closures`, `Sessions`, `Team`, `SmsUsage`, `Verification`, `Discounts`, `Permissions`, `Push`, `Cache`, `Notebook`, `Images` | one part each |
| `Slots` | the free slots of a day, beside `Booking`, whose rows it looks at |
| `MCBooking`, `MCReminders`, `MCBilling`, `MCUserBehavior` | instances of one module for TLC |
| `MCOwner`, `MCPlatform`, `MCBackground` | several parts that share no state, in one run: a variable `part` is drawn at the start and only that part moves, so the parts are explored one beside the other and not as a product |
| `BookingProofs`, `RemindersProofs`, `BillingProofs`, `SessionsProofs`, `UserBehaviorProofs` | theorems about one module, checked by TLAPS |
| `OwnerProofs`, `PlatformProofs`, `BackgroundProofs` | theorems about the small parts, and about the parts side by side in `MCOwner`, `MCPlatform`, `MCBackground` |

A variable marked "history" in a module is not in the code: it records what a
property has to tell apart, mostly which writes rested on a check that another
request had made old meanwhile. Such races are real in the code, and a property
that excepts them says that nothing else goes wrong: no sequence of operations,
no failure, no race of another kind.

### Booking

Variables: `now` (Istanbul's wall clock, as `getCurrentTimeInIstanbul` gives
it), `rows` (the table), `req` (for each request in flight, the handler it is in
and the data it holds across an `await`), `job` (what each instance's completion
job has listed).

One action stands for the stretch of a handler up to the next query whose answer
it will still use: `ApproveRead` then `ApproveWrite`, `BookCheck`, `BookRules`,
`BookConflicts` then `BookInsert`. A handler that reads a row only to find it and
to check rights is one action (`ConfirmAppointment`, `MarkNoShow`, ...): no code
deletes a row, so what it read cannot be wrong later. The checks `createAppointment`
makes before its transaction are repeated in it, so they are one action; the edit
endpoint's reservation rules and its read of the row are one too. Automatic
rescheduling lists confirmed rows (`AutoRead`), looks for a slot for one after
another and writes it by id.

Every single-row write goes through `Write`, where the exclusion constraint of the
latest migration judges the new row against the others; a refused statement
changes nothing. `$transaction` in the code is PostgreSQL's READ COMMITTED: each
statement sees what is committed when it starts, so the queries of a transaction
are separate actions.

Times are ticks, a day is `DayLength` ticks. `Skew` is Istanbul's wall clock minus
the clock of `new Date()` in the server's own time zone: 0 on a server that runs
in Istanbul's time, positive on one in UTC, which is what the image and the
compose files leave it at. A time-only edit takes the day from `toISOString()`
of local midnight, which is the day before on a server in Istanbul's time
(`CheckedDay`).

Abstracted: names, notes, prices, reminder fields, who may call (a request starts
where its rights have been checked), the answers' wording. Settings that the
code reads between two queries (duration, approval) may differ at each read.

### Slots

No variables: `SlotTimes` are the times the page goes through, `TakenBy` the rows for
which it calls one taken. Opening hours are given, any of `Hours`; a tick stands for
the quarter of an hour between two slots. Which staff member a slot is for, names and
prices are left out, and so are the closures and special days that hide a day.

### Reminders

Variables: `now` (minutes), `start`, `confirmed`, `marked` (the fields of the
rows), `messages` (what each channel took for each row), `told` (the starts the
customer was told), `lock` (owner and time to live of the Redis key), `fired` (runs
started in this minute), `run` (where each run is and what it holds). A run is one
execution of the job, in an instance of its own.

`Claim` is SETNX, `Lease` the EXPIRE after it, `List` the query, `Pick` and the row
steps the loop, `Mark` the update of `reminderSentAt`, `Release` the DEL.
`Faults` names what may fail: Redis (a call that throws takes no effect), the
database, a channel that refuses or throws, a crash, a run slower than its minute,
a row that moves. Unless runs may be slow, `Tick` waits until every run of the minute
has started and ended. The settings have reminders enabled; channels are an ordered
list in the order of the code. `messages` saturates at two and the clock at
`MaxTime`; `Move` goes only to starts beyond the window.

### Billing

Variables: `now` (days), `sub` (the row of `business_subscriptions`), `payments` and
`failed` (the rows of `payments`: by provider id, and a count of those that
failed), `taken` and `returned` (what iyzico did), `task` (each cron run or request
in flight, with the row as it read it). `period` and `tries` are history: the period
a renewal charged for, and the renewals that failed in a row since the owner last
turned renewal on.

A task begins with its read (`ListDue`, `Reads`), goes through the places of the
charge (`discount`, `decrement`, `charge`, `record`, `activate` or `refused`), and
ends with its write by id (`Settle`, `Fail`, `Ends`), which uses the row as it was
read where the code does: `currentPeriodEnd`, `failedPaymentCount`, `autoRenewal`,
the status a discount's decrement writes back. `Cleanup` is a single UPDATE.
`Faults`: a statement throws, iyzico takes the money and its answer is lost, the
instance stops between two calls.

Abstracted: one subscription; one billing interval for all plans; the day a retry is
due is open, and so is the 24-hour window of a discount; a discount changes only its
remaining uses; the reads inside `chargeTrialConversion` are one step with the
charge; cancelling a payment reads and updates the row in one step; `FailCap` saturates a count the code compares with small numbers.
`subscribeBusiness` starts a trial (every plan has one). Left out:
`forceUpdateSubscriptionStatus`, an administrator's direct write; stored cards as
rows; usage counters of discount codes (`Discounts`).

### UserBehavior

Variables: `date` (days, in Istanbul), `rows` (appointments as far as they count),
`behavior` (`user_behavior`: monthly and weekly counts, strikes with their reset
date, the administrators' ban, `updatedAt`), `ban` (`business_bans`), `task` (each
request with what it has read), `mix` (the operations this behaviour exercises;
constant), `despite` (history).

A booking is `BookStart` (the ban), `BookLift` if the ban had run out,
`BookPolicy` (`checkPolicyViolations`), `BookInsert` and the recount `Count`,
`Store` (`createOrUpdate`, many queries and one write). A cancellation or no-show
writes its row and goes on to a recount or to `Strike`, `StrikeWrite`
(`addStrike`), and for a no-show to the verdict of the policy, which may strike
again and ban (`Verdict`, `BanWrite`). `OwnerBan` writes the ban, `SweepRead` and
`Sweep` cancel the customer's future rows. `ExpireStrikes`, `ExpireBans` and
`ResetMonthlyCounts` are the jobs' statements.

Abstracted: time to whole days; PENDING and CONFIRMED are alike; races for one row
are `Booking`'s, so a handler decides and writes it in one step; the reliability
score is only displayed; strikes saturate at `MaxStrikes`. `createOrUpdate` of a
missing row is one step with the read that found it missing (`Existing`).

### Closures

Variables: `today`, `closure` (the table), `owner` (what each request has checked
and will write), `asked` (a bound), `doubtful` (history). `CreateCheck` and
`CreateInsert`, `UpdateCheck` and `UpdateWrite`, `ExtendCheck` and `ExtendWrite` are
the two statements of the requests that give dates; `Switch`, `EndEarly`, `Delete`
and `AutoExpire` are one each. A closure without an end has `NoEnd`, later than every
date. What an emergency, a holiday or maintenance may do differently is `Acceptable`.
Suggestions and notices to customers are left out: nothing reads them again.

### Sessions

Variables: `token` (the table, with the sign-out of all a token came after),
`issued`, `holds` (the token each client keeps), `call` (where each refresh is),
`enabled`, and history. `Refresh` is the request, `ReadToken`, `CreateToken`,
`RevokeOld` and `AnswerTokens` its statements; `RefreshBreaks` fails at any of them
and `Unanswered` loses the answer. A browser's cookie is cleared by every refresh
that fails, an app keeps its token. Signing out of all devices, changing the phone
number and deactivation revoke every token. JWT signatures and access tokens, which
the database does not know, are left out; expiry of refresh tokens (a month) too.

### Team

Variables: `member` (`business_staff`), `invited`, `manager` (each request with
what it has read), `unchecked` (history). `Invite` and `Verify` count the members,
`Admit` creates or reactivates the row, `TransferCheck` and `Transfer` move members
between two businesses of one owner, `SwitchOff` and `SwitchOn` are the update
endpoint. The usage row's count of staff is left out: it is brought up to date by
some of these only, and can only refuse an invitation more. Plans do not change.

### SmsUsage

Variables: `smssSent` (the usage row of the month), `sender` (each message's next
step), `delivered`, `uncounted` (history). `CanSendSms`, `SmsSent`, `RecordSmsUsage`
are the test, the message and the count; `RecordLost` a count that fails;
`NewMonth` starts a month without a row. Customers, staff, services and
appointments are counted in the same way and only shown, or used to refuse.

### Verification

Variables: `verification` (the rows of one phone and purpose, with the age of each),
`codesSent`, `request`, `attempt`, `accepted` (history). A request for a code is
`CheckRateLimits`, `Cleanup`, `Look` (cooldown), `Retire`, `StoreCode`; an attempt
`Read`, `IncrementAttempts`, `Finish`. Time moves the age of a code through
"cooling", "live", "grace" (expired less than five minutes ago) and "expired".
The limit per address in Redis can only refuse more and is left out.

### Discounts

Variables: `uses` (`currentUsages`), `redeemed` (rows of uses by buyer), `pending`
(`pendingDiscount` of a subscription), `till` (each payment's next step), `slips`,
`unproven` (history). `Checkout` validates, `ChargePaid` charges, `Apply` validates
again, `RecordUsage` writes the row and `CountUsage` the counter. `Promise` keeps a
code for later, `ConvertTrial` and `Renew` use it without another look. Conditions
that can only refuse more (dates, plans, least amount) are left out: a code that is
refused is a payment without it.

### Permissions

Variables: `roles` (the database, as the number of changes), and for each instance
`known` (`permissionCache`) and `inFlight`; `load` (loads under way), `asker`
(requests that wait for one), `cleared`, `overrun` (history). `AskRoles` joins the
load in flight or starts one, `ReadRoles` is the query, `StoreRoles` what happens
when the promise settles. `ClearUser` is what the handler of a change does in its own
instance; nothing clears the others, which `Forget` after their entry's time. The
two parallel queries of a load are one read; what a request is allowed with given
roles keeps no state and is left out.

### Push

Variables: `subscribed` (devices), `push` (`push_notifications`), `waiting` and
`active` (the worker's queue and counter), `job` (where each task is: queue, timer,
or the await it has reached), `taken`, `pushFaults` (history). `SendPush` creates the
row and enqueues, `ProcessQueue` starts tasks while there are places, `Accepted`,
`Gone` and `SendFails` are the push service's answers, `MarkSent`, `Touch`, `Disable`,
`MarkFailed`, `SweepPending` the statements that follow, `TimerFires` a retry.
`StoreFails` makes a statement throw, `ServerStops` empties memory. The choice of
channels is in `Reminders`; the counters of notification limits are left out.

### Cache

Variables: `fact` (the database), `deletes` (invalidations to come), `entry`, `ttl`,
`cacheLock`, `lockTtl`, `reader` (each request's next step and what it fetched),
`late` (history). `Get`, `Acquire`, `Fetch`, `Store`, `ReleaseLock` are the path of the
reader that regenerates; `Look`, `Exists`, `Reacquire`, `FetchAlone` that of one that
waits. `Throws` is a fetch that fails, `Dies` an instance that stops, `WriteFact` and
`Invalidate` a writer, `InvalidationLost` a delete that fails.

### Notebook

Variables: `notebook` (the month's row), `column` (each is "Randevular", where revenue
is copied to, or another), `cell` (`daily_entries`), `revenue` (the sums of completed
appointments), `visit` (each request's next statement and what it has read), `muddled`
(history). `Open`, `CreateNotebook`, `Look`, `FirstDefault`, `OtherDefaults`,
`FindColumns`, `GetAppointmentRevenue`, `UpsertEntry` and `AnswerNotebook` are the
statements of an opening; an edit of cells (`Edit`, `EditEntries`) makes the row
without columns, writes, and opens. The first read of the cells is left out: nothing
uses it. Names, order and visibility of columns, notes and totals are for display.

### Images

Variables: `gallery`, `logo` (for the cover and the profile image as well), `objects`
(S3), `editor` (each request's next call), `doomed`, `kept`, `stale` (history).
`PutObject` and `AddGalleryImage` or `UpdateBusinessImage` are an upload, `EraseObject`,
`ReadGallery` and `RemoveGalleryImage` or `ClearLogo` a removal, `GetBusinessImages`
and `UpdateGalleryImages` the page that shows a gallery and sends it back. The rows of
`business_images` with their sizes, and the storage used, are left out, so any image
may be deleted as a photo; the order of the gallery is too.

## 3. Runs

| Run | What it shows |
|---|---|
| `booking_core` | two requests that book, decide, mark, screen and automatically reschedule one staff member's rows: types, no double booking, the book implements `StaffCalendar` |
| `booking_serial` | one request at a time: the application's own checks keep waiting rows apart, a customer's own rows, and the daily limit, through edits, closed days and bans, with a skewed clock; in every book that results the free slots are the ones a booking takes, but for rows whose day alone was edited |
| `booking_job` | the completion job races edits over two days, decisions, bulk cancellation, automatic rescheduling and a screen: end = start + duration, decided rows are left alone, ended rows get completed |
| `billing_serial` | one execution at a time, every operation, every failure: three failures stop renewal, cancelled stays cancelled |
| `owner` | part "billing": two executions that convert, subscribe, pay and refund, every failure: the payment rows claim only what happened, extensions were paid. Part "discounts": two payments with one code. Part "closures": two requests on two closures. Part "notebook": two requests on one day and two columns: an opening answers what was earned. Part "images": two requests on three images and a gallery of two: uploads do not lose each other, the limit holds, what is shown is in S3 |
| `platform` | parts "reminders" (three instances without failures: one run past the lock, everybody is told, no channel twice), "customers", "sessions", "team", "sms", "verification", "permissions" |
| `background` | parts "reminders" (two runs, every failure but a crash between SETNX and EXPIRE: no row marked that nobody was told of, the lock is freed), "push", "cache", with their liveness |
| `booking_active_overlap` | two bookings that wait for approval take one slot (finding) |
| `booking_approve_race` | an approval confirms a row decided in between (finding) |
| `reminders_unleased` | a crash between SETNX and EXPIRE: the lock is never freed (finding) |
| `billing_twice` | two instances charge one period twice (finding) |
| `customers_refused` | a customer is refused for cancellations that a business made (finding) |

Bounds. Two or three appointments suffice because every property relates two rows
and every handler writes one row or a set; two requests because each race is
between a check and one write that falls after it; times are enough for two
adjacent, overlapping and nested slots and for a slot on either side of midnight.
`booking_core` and `booking_serial` hold the clock still (`MaxTime = 0`): what
they check does not depend on its moving; `booking_job` moves it.
Reminders need two rows to fill a page, three runs so that a skipped one meets one
that holds the lock and one that follows, and two minutes of lock. Billing needs
two charges to tell whose charge an extension is; `MaxDay` covers a trial, its
conversion and a due renewal with intervals of a day; `MaxFailed` bounds the FAILED
rows between two cancellations. `ThreeFailuresStop` has one task: two racing
renewals write stale counts and fail more than three times (a second task in
`billing_serial`, restricted to trial, renewal and subscribe, shows it).

In the small parts two requests race and the numbers are the least at which each
limit is reached and exceeded: two closures on two days, two buyers of a code with
one use, three tokens for two clients (a sign-in each and a rotation), a team of
one with an owner and a candidate, two codes with two attempts each, three senders
for a quota of two, three images for a gallery of two (an upload is lost, or one too
many), two columns of which a second first opening makes both "Randevular", one day
of which no other depends (cells of different days are written apart), three notifications for a worker of two places, locks and
answers of two ticks. `Mixes` of `UserBehavior` splits its operations into five
groups that interact, each with its own number of requests and days; a single mix of
everything is beyond TLC. `DailyLimit = 1` in `Verification` is counted over rows
that every send first deletes when expired, so a second code comes after the first
has gone; an attempt may find its row gone, a request for a code does not
(`Retire`'s second branch needs a third request past the limit in between). `MaxChanges = 1` in `Permissions`: one
change tells an answer from before it and one from after it.

Symmetry: the code never compares ids of rows, charges, requests or executions but for
equality, so each of these sets is interchangeable. In `owner` and `platform` the parts share no state, so their
requests are the same model values (`t1`, `t2`), and in part their rows: one symmetry
serves every part.

`CHECK_DEADLOCK FALSE` in the booking, billing, owner, platform and customers runs:
with the clock at its bound and no id, charge, token or code left the model stops,
as its bounds intend; `background` and `reminders_unleased` check it. Mutants are
operators named `Fault...`, each beside the definition it stands for: plausible
bugs (a dropped guard, an off-by-one, an update by id alone) that the property
must reveal.

Fairness. `booking_job`: weak fairness of the two steps of the completion job, and
nothing else; node-cron starts it on every tick of its schedule in every instance,
and `JobScheduler` catches what it throws, so it keeps being started; the database
is taken to answer. `reminders_unleased`: weak fairness of the
clock, of each instance's start of the job (cron, every minute) and of the steps of
a run, which goes on unless its instance stops. `background` assumes of the
reminder job only that time passes and that EXPIRE follows SETNX (`Lease`: the
crash between them is the finding `reminders_unleased`), enough to free the lock.
`PushFairness`: a task in flight or on a timer goes on, each await settles; timers
of Node fire. `CacheFairness`: time passes in Redis, and a request that is being
served goes on. Crashes, failures, requests and writers have none.

## 4. What the runs and the modelling found

`PROJECT.json` quotes the sentences of the five violation runs. Seen besides, in
the code or by changing a constant:

* Daily limit: counted in the transaction that inserts, without a lock, under the
  comment "CRITICAL: Use transaction to prevent race conditions"
  (appointmentService.ts:630). A second request in `booking_serial` exceeds it.
* The waiting-room screen writes IN_PROGRESS over a cancellation it did not see
  (appointmentRepository.ts:1833); the completion job completes a row that was moved
  to the future after it was listed (:1751); the table of allowed status changes in
  appointmentValidation.ts:125 is used by nothing.
* Rules use the server's clock (appointmentService.ts:146): on a server in UTC a
  customer books up to three hours in the past (`Skew` > 0).
* Automatic rescheduling confirms by id rows that were decided meanwhile, and looks
  for slots among CONFIRMED rows of the first page only: it puts a row on a waiting
  one even without a race, which is why `booking_serial` leaves it out. Of the
  service's rescheduling only this function is reachable; `recordCustomerResponse`
  has no callers.
* Reminders: a run that outlives the lock frees its successor's
  (SendAppointmentRemindersJob.ts:316; `"slow"` among the `Faults` breaks
  `OneRunAtATime` and `NoRepeats`); only the first page of the list is seen
  (`PageSize = 1` breaks `Reminded`); the timing test uses another clock than the
  list (`Skew`); `reminderSentAt` survives a move (`"move"`); timings outside the
  window of one to two hours never fire (`Timings = {8}`); e-mail is never sent.
* Reactivation calls `cancelSubscription(id, false)`, which cancels
  (subscriptionService.ts:445). A retry that succeeds does not extend the period, so
  the next renewal charges again (paymentRetryService.ts:219-228). Cancelling "after
  max retries" is commented out (:347), so retries go on. A row cancelled at its
  period's end ends only when an administrator calls the expiry endpoint.
* A failure's stale write can turn automatic renewal back on; a discount's
  decrement writes back the status it read; a statement that fails after a
  successful conversion charge cancels a subscription that was paid for; a plan
  change revives a cancelled row without a payment; cancelling a refunded
  payment cancels the subscription; the conversion clears `trialStart`, which is what
  "Free trial has already been used" looks at (subscriptionService.ts:168).
* Customers: the policy's limit on no-shows looks at the stored count, which
  `addStrike` does not refresh (cancellationPolicyService.ts:224); two strikes at
  once may count once (userBehaviorRepository.ts:190, `Strike` and `StrikeWrite`); a
  no-show adds two strikes when `autoBanEnabled`; a strike on top of a ban can
  shorten or lift it; a recount can set three strikes without the ban of "3 strikes
  = ban" (:199). The edit endpoint cancels without the policy check. A ban
  leaves rows in PENDING_APPROVAL, and approving does not look at bans; rows later
  today are not swept. `isBanned` of an administrator's ban is not looked at by
  bookings. The monthly reset skips everybody if one row with zero counts was
  touched in the month, by the server's calendar. `processAutomaticStrikes` strikes
  again for the same deeds.
* Closures: an update with `isActive: true` and no dates switches a closure on
  unchecked (business.schemas.ts:824); one with a start alone is refused when any later
  closure exists (businessClosureService.ts:185); the rules of a holiday do not
  compare its dates; extending may shorten. A closure within one day does not block
  bookings (appointmentService.ts:487-490). Expired closures end only when an
  administrator asks.
* Sessions: every refresh that fails clears the browser's cookie
  (authController.ts:339), and an audit log that fails after the old token is revoked
  loses the session, under "Generate new token pair FIRST to ensure user doesn't
  lose access". A refresh that has read its token before all are revoked stores one
  that works afterwards. `limitUserTokens`, `cleanupExpiredTokens` and
  `revokeDeviceTokens` have no callers.
* Staff: an update with `isActive: true` adds a member without a look at the limit;
  a transfer leaves his services assigned; an invitation's code is by phone, not
  by business; a plan with -1 (unlimited) staff is treated as a limit.
* Verification: every send deletes expired rows, so the grace of five minutes and
  the daily limit of 20 rarely apply; two sends at once store two live codes, and
  the earlier is accepted once the later is used; a right code fails when its row
  is deleted between the attempt's statements.
* Discounts: a code kept for later is counted without another look at its limit; the
  second validation, after the charge, may refuse a discount that was given; an
  unpaid renewal tries to record a use with an empty payment id; a code entered with a
  trial of 7 or 14 days is never applied, since `canApplyToPayment` trusts it for a
  day; the uses left go down before the charge; `addDiscountToSubscription` replaces
  all of the metadata.
* Free slots: the page does not look at the minimal notice nor at the days a
  booking may be ahead; rows that run over from the day before are not seen, by a
  booking neither (the constraint refuses); a closure that is longer than the day
  does not hide it; a special open day on a weekday that is closed shows no slots;
  bookings do not look at opening hours; a row whose day alone was edited is shown as
  taken on its old day and refused on its new one.
* Notebook: two first openings make the standard columns twice, and a column made
  by hand before the first opening keeps them, and revenue, from ever appearing
  (both are `muddled`); a slower opening writes older revenue over newer; a day
  that loses its last completed row keeps its amount, since the query has no row
  for it, under "including 0 to clear canceled appointments"
  (dailyNotebookService.ts:149).
* Images: a removal or a new arrangement writes back a list it read before, and
  loses what was uploaded meanwhile or revives what was removed
  (businessRepository.ts:1664; `stale`), next to the comment that uploads avoid
  this race; a removal whose second half fails leaves a url without an object;
  replacing a logo leaves the old object in S3, and removing one empties the field
  even if a new logo came in between; deleting a photo leaves it in the gallery.
* Permissions: a load under way when an instance clears stores stale roles after it,
  and the other instances keep theirs for up to ten minutes, although
  businessService.ts:130 says "Aggressively clear all cache … ensures immediate
  consistency". The end of an older load takes a newer one off the loads in flight. The
  branches for a rejected load cannot be reached: it catches everything and caches
  empty permissions for a minute.
* Push: the queue is only in memory, and a stop leaves rows PENDING for ever; a
  status that cannot be written after a successful push sends it again and may end
  FAILED; requests to the push service have no timeout.
* Cache: a reader that finds no lock fetches without looking at the key again; one
  whose lock ran out can store an older answer over a newer until its time is over;
  `releaseLock`, `mget` and `staleWhileRevalidate` have no callers.

## 5. Proofs

Every safety property of a passing run is a theorem, for every value of the constants
that meets the named assumptions of its module; three groups of theorems assume more
and say so. TLC checked each inductive invariant first on the instances of the runs.
`PROJECT.json` lists the theorems; here is what they rest on.

### Booking (`BookingProofs`)

* `TypeCorrect`, `NeverDoubleBooked`: `TypeOK /\ NoDoubleBooking` is inductive: a
  single-row write is admitted only without a clash, and the writes of many rows
  (cancel, complete, promote) free slots or keep the slot a row holds already.
  Racing edits and automatic rescheduling are covered for any number of requests.
* `BookingImplementsCalendar`: every step of the book is a step of `StaffCalendar`
  or leaves its calendar unchanged.
* `JobKeepsDecidedRows`, `RequestsHoldKnownRows`.
* `IntervalsIntact`: end = start + duration. Not inductive alone: an edit writes by
  an id it read earlier, so `RequestsKnowRows` is part of the invariant.
* `SlotQueryIsOverlap`: the three alternatives of the conflict queries are
  interval overlap for slots that are not empty.
* `PageTellsBook`: a fact about any table, not about reachable ones alone: the query of
  the page and that of a booking select the same rows where the page and the book
  agree about the day.
* `SlotsStayApart`, `CustomersStayApart`, `DaysKeepLimit` assume `OneAtATime`. The
  invariant (`SerialInv`) says of the rows that they keep the service's duration, that
  rivals (one staff member's or one customer's rows that occupy a slot) do not overlap
  and that no day holds more than its limit; and of the request in flight that what its
  checks found is still so: it has room in the day, its slot is free, its own row is as
  read. The argument that the query, which asks by date, misses no rival is
  arithmetic of days: rows of one duration overlap only if they start less than that
  duration apart.

`OneAtATime` is what the code needs, part by part: with a second request the checks
are stale (`booking_active_overlap` is the finding; for the daily limit see section 4);
with two durations a row is judged by one and stored with the other; with `Skew = 0` a
time-only edit is judged by the day before; "status" moves a row back into a slot and
"auto" places rows without looking at the ones that wait. `CustomersStayApart` needs
`DayFits` besides: the rules read the customer's rows of one day, so an appointment
over midnight is missed. `booking_serial` is an instance that meets all of it.

### Reminders (`RemindersProofs`)

* `RemindersTypeCorrect` and `MarksFollowMessages` whatever fails.
* `LockExcludes` if neither Redis fails nor a run is slow; `NoReminderRepeats` if
  nothing fails but channels that say so, or rows that move. Both need an
  invariant about the order within a minute: who has fired, who holds the lock with
  how much life, and that the list of the run past the lock has no marked row left
  except the ones behind it.
* `NobodyForgotten` assumes `NothingMissed`. Its invariant adds that the lock is held
  by a run that started this minute (`LockTells`), that lists are true (`ListsTrue`)
  and that duties are met (`DutiesMet`): a row whose customer has not been told has not
  had its minute yet, or has it now and is on the list of the run at work or will be.
  Every part of `NothingMissed` is one of section 4's ways to lose a reminder: a
  channel, Redis, the database or an instance that fails for a whole window, a row
  that moves, a list longer than its page, e-mail alone, a timing that no minute of
  the window meets. The reminders of `platform` meet it.

### Billing (`BillingProofs`)

The inductive invariant adds to `TypeOK` that a decrement has a use to take
(`UsesLeft`), that a task in the places after the charge holds a charge
that iyzico took (`HoldsCharge`), that no two tasks hold the same (`OwnCharges`), and
the ledger itself. From it `BillingTypeCorrect`, `LedgerStaysTrue`,
`ExtensionsWerePaid`. `CanceledRowsStayCanceled` needs `Alive`: a task that may
write a status has read a row that was not cancelled, unless the owner pays.

`RenewalsStop` assumes `OneTask`: two renewals at once write back one count. Its
invariant `Counted`: while renewal is on, the row has counted every failure since the
owner last turned it on, and a renewal under way has read the row as it is. Failures
of statements, lost answers and crashes are covered.

### What an owner does (`OwnerProofs`)

* Closures: `ClosureInv` adds `ChecksHold`: a request whose check is still
  fresh holds a period that overlaps no active closure but its own; every write makes
  the other checks old, so what is written on a fresh check keeps
  `OverlapsAreDoubtful` (`OnlyDoubtfulOverlap`).
* Images (`GalleryKept`): what an editor will put into the gallery is stored, what it
  will erase is doomed, and a list it will write back fits the limit (`Sound`).
* Notebook (`RevenueTold`): unless the columns are muddled there is one column for
  appointments as soon as there is any column at all, and an opening that is still calm
  has found it and has written, day by day, what it read (`VisitHolds`).
* Discounts (`CodeKept`): a payment whose validation is still true has a buyer
  without a use and finds the code below its limit (`CheckHolds`), and the uses tested
  are no more than those counted, lost and about to be counted, a cardinality that
  the library's theorems carry over each step.
* `OwnerPartsApart`, `OwnerTypeCorrect`: the parts side by side.

### Platform (`PlatformProofs`, `SessionsProofs`, `UserBehaviorProofs`)

* Sessions. `SessionInv` adds that clients hold and refreshes carry issued
  tokens (`HeldAreIssued`), and that a refresh about to store one has read a token of
  the present epoch, or is known to be late, or carries a token that already is in
  `overtaken` (`RefreshesKnow`): `RevokedStayRevoked`. For `NobodyDropped`: a token is
  brought or held by one client (`OneOwner`), a token stored by a refresh is held by
  nobody yet and nobody else refreshes with it (`NewNamed`, `NewUnseen`), works
  until everything is revoked (`NewLive`), and a client with no token that works has an
  answer on its way to it that carries one (`Served`).
* Customers. `CustomerInv`: a request past the check of a ban knows whether one was
  set since (`KnowsBan`), a sweep cancels rows that exist (`SeenRows`), and a ban is
  carried out, or a request is under way that has not read the rows yet or has read
  every future row but those recorded as despite the ban (`CarriedOut`):
  `BansEmptyTheBook`, `BansAreHeld`.
* Team (`TeamKeepsLimit`): an admission or a transfer on a count that is not old
  finds room (`Room`); every admission makes the other counts old.
* Messages (`QuotaKept`). `SmsInv` counts senders: what was delivered is at most what
  was counted, what never will be and the senders about to count; and what was
  delivered with the senders about to send is at most the quota, what is never counted
  and all senders but one.
* Verification (`CodeSpent`): attempts counted on a code and checks about to count stay
  within the attempts and the checks there are (`Spent`), acceptances and checks about
  to accept within the checks, and a code that was accepted is used or gone (`UsedUp`).
* Permissions (`ClearedStaysSeen`). A load read no less than the database held when it
  began (`ReadsAreLater`), the load that new requests join began since the last clearing
  (`JoinsAreCurrent`), the one a request waits for began late enough for it
  (`WaitsAreCurrent`), and an entry that no older load wrote is current
  (`EntriesAreCurrent`).
* `PlatformPartsApart`, `PlatformTypeCorrect`: the parts side by side.

### Background (`BackgroundProofs`)

* Cache: `HoldersHold` is inductive with the types: the owner test of
  `ReleaseLock` keeps the lock of whoever took it next. The types themselves need two
  companions: a reader that will look again has looks left (`Looking`), and no writer
  deletes the key before it has written (`Owed`).
* Push (`WorkerNeverIdle`, `DeliveryTold`): the queue holds waiting tasks only, each
  once (`QueueHolds`), the counter is the number of tasks in flight, and the row of
  each task tells what became of it as far as the task has got (`Tells`), and
  truly as long as no statement failed (`TellsTruly`): a task that finds its device gone
  sets the pending rows of the device to FAILED, also of tasks that go on, and each of
  these writes its own status after its push.
* `BackgroundTypeCorrect`: the parts side by side.

The runs `owner`, `platform` and `background` draw a part and let it move. The theorems
about a part are stated of its own specification; `OwnerPartsApart` and
`PlatformPartsApart` carry all of them over to the parts side by side. For `background`,
whose specification states a fairness of its own, `BackgroundTypeCorrect` does it for
the invariants.

Model-checked only: liveness (`EndedIsCompleted`, `LockFreed`, `PushSettles`,
`Answered`, `EventuallyTrue`), since it and what rests on ENABLED are out of the
prover's reach; and the properties of the five violation runs, which do not hold. Where a theorem assumes that
requests do not race, it is false without.

`RequestsHoldKnownRows`, `BillingTypeCorrect`, `RemindersTypeCorrect` and the types of
the small parts stand for themselves: the first is checked by no run, the types are
parts of `OwnerTypeOK`, `PlatformTypeOK` and `BackgroundTypeOK`.

## 6. Plan

Done: `Booking` with its calendar and automatic rescheduling, `Reminders`,
`Billing`, `UserBehavior`, `Closures`, `Sessions`, `Team`, `SmsUsage`,
`Verification`, `Discounts`, `Permissions`, `Push`, `Cache`, `Slots`, `Notebook`,
`Images`; theorems about all of them.

Left, in this order:

1. Proofs with weaker assumptions: `SlotsStayApart` with services of different
   durations as far as it holds, `NobodyForgotten` when channels fail less often than a
   row is retried.
2. Abstract specifications of the small parts, as `StaffCalendar` is of the book: a
   lock with a lifetime for `Cache` and `Reminders`, a quota for `SmsUsage`, `Discounts`
   and `Team`.
3. The settings of a business, which are read, merged and written back.
4. The rows of `business_images` with the storage limit, beside `Images`.

## 7. Not modelled

* Job framework: node-cron starts a job on every tick in every instance without
  waiting for the run before, which the models of the jobs contain.
* Customers, ratings, pricing, geolocation: rows of one business written by its
  staff, mostly one statement after one check. Seen while reading: rating an
  appointment is a check and an insert without a unique key, and two recomputed
  averages may be stored in the wrong order; settings of a business are a JSON that
  is read, merged and written back, so two edits at once lose one; opening hours are
  written under other keys (`open`, `close`) than a new business gets (`openTime`,
  `closeTime`).
* The storage used: rows of `business_images` are written after the image they are
  of; when the last one is deleted the next count makes them anew, of what the
  business shows (usageRepository.ts:558), and two counts at once make them twice;
  the limit is tested before the upload.
* Reports only aggregate. The HTTP layer routes, validates shapes and formats; its
  guards are those of the handlers modelled. Deployment is configuration, of which
  the models take that three instances share one database and one Redis.
