------------------------------ MODULE Discounts ------------------------------
(***************************************************************************)
(* One discount code.  A checkout validates it, charges the lower price    *)
(* and then validates it again and records the use; a subscription may     *)
(* also keep the code for later payments, whose uses are recorded without  *)
(* looking at the code at all.  A use is recorded by two statements, a row *)
(* and then the count on the code, in no transaction.  Requests of several *)
(* owners, and the scheduler's, overlap.                                   *)
(*                                                                         *)
(* Sources: repositories/discountCodeRepository.ts,                        *)
(* services/domain/discount/discountCodeService.ts, payment/               *)
(* paymentService.ts, subscription/subscriptionService.ts.                 *)
(***************************************************************************)
EXTENDS Integers, FiniteSets

CONSTANTS
  Buyers,       \* business owners
  Tills,        \* payments in progress, on any instance
  MaxUsages,    \* discountCode.maxUsages
  MaxRecurring, \* metadata.maxRecurringUses
  MaxSlips      \* bound: uses whose count is lost

ASSUME DiscountAssumption ==
  /\ IsFiniteSet(Buyers) /\ IsFiniteSet(Tills)
  /\ MaxUsages \in Nat /\ MaxRecurring \in Nat /\ MaxSlips \in Nat

VARIABLES
  uses,      \* currentUsages
  redeemed,  \* each buyer's rows of discount_code_usages
  pending,   \* pendingDiscount in the metadata of a buyer's subscription
  till,      \* what each payment is about to do
  slips,     \* history: rows that are not counted on the code
  unproven   \* history: rows of a buyer whose recording did not find every
             \* earlier use counted, or did not look

discountVars ==
  <<uses, redeemed, pending, till, slips, unproven>>

Closed == [at |-> "closed"]
NoPending == [kept |-> "none"]

DiscountTypeOK ==
  /\ uses \in Nat /\ slips \in 0 .. MaxSlips
  /\ redeemed \in [Buyers -> Nat] /\ unproven \in [Buyers -> Nat]
  /\ pending \in [Buyers -> {NoPending}
       \cup [left : 0 .. MaxRecurring, trial : BOOLEAN, old : BOOLEAN]]
  /\ till \in [Tills -> {Closed}
       \cup [at : {"checkout", "trial", "renewal", "apply", "record", "count"},
             by : Buyers, fresh : BOOLEAN]]

DiscountInit ==
  /\ uses = 0
  /\ redeemed = [u \in Buyers |-> 0] /\ unproven = [u \in Buyers |-> 0]
  /\ pending = [u \in Buyers |-> NoPending]
  /\ till = [w \in Tills |-> Closed]
  /\ slips = 0

\* Fault: the buyer's earlier use is not looked up.
FaultValid(u) == uses < MaxUsages

\* validateDiscountCode.  isActive, its dates, plans and least amount can only
\* refuse more, and a refusal is a payment that goes on without the code.
Valid(u) == uses < MaxUsages /\ redeemed[u] = 0

Keep(w, task) == till' = [till EXCEPT ![w] = task]
Charging == {"checkout", "trial", "renewal"}
Turn(w, at) == Keep(w, [till[w] EXCEPT !.at = at])
Charge(w, u, kind) ==
  till[w] = Closed /\ Keep(w, [at |-> kind, by |-> u, fresh |-> FALSE])

Ledger == <<uses, redeemed, slips, unproven>>

-----------------------------------------------------------------------------
(* Payments *)

\* createSubscriptionWithPayment; an invalid code is ignored and the full price charged.
Checkout(w, u) ==
  /\ Charge(w, u, "checkout")
  /\ Valid(u)
  /\ UNCHANGED <<pending, Ledger>>

\* A code kept for later, by subscribeBusiness with a trial or by
\* addDiscountToSubscription, which replaces what was there.  Only a recurring
\* discount is left for renewals.
OnTrial(u) == pending[u] # NoPending /\ pending[u].trial
Promise(u, left, trial) ==
  /\ Valid(u)
  /\ trial => pending[u] = NoPending
  /\ pending' = [pending EXCEPT ![u] =
       [left |-> left, trial |-> trial \/ OnTrial(u), old |-> FALSE]]
  /\ UNCHANGED <<till, Ledger>>

\* canApplyToPayment trusts a validation for a day.
Promised(u) == pending[u] # NoPending /\ ~pending[u].old
WindowPasses(u) ==
  /\ Promised(u)
  /\ pending' = [pending EXCEPT ![u].old = TRUE]
  /\ UNCHANGED <<till, Ledger>>

ConvertTrial(w, u) ==
  /\ Promised(u) /\ OnTrial(u)
  /\ Charge(w, u, "trial")
  /\ UNCHANGED <<pending, Ledger>>

\* Fault: the number left goes down though there is none.
FaultRenew(w, u) ==
  /\ Promised(u) /\ ~pending[u].trial
  /\ Charge(w, u, "renewal")
  /\ pending' = [pending EXCEPT ![u].left = @ - 1]
  /\ UNCHANGED Ledger

\* The number left goes down before the charge.
Renew(w, u) ==
  /\ Promised(u) /\ pending[u].left > 0
  /\ ~pending[u].trial
  /\ Charge(w, u, "renewal")
  /\ pending' = [pending EXCEPT ![u].left = @ - 1]
  /\ UNCHANGED Ledger

\* createSubscriptionPayment.  A conversion makes the subscription active.
ChargePaid(w) ==
  /\ till[w].at \in Charging
  /\ Turn(w, IF till[w].at = "checkout" THEN "apply" ELSE "record")
  /\ pending' = IF till[w].at = "trial"
                  THEN [pending EXCEPT ![till[w].by].trial = FALSE] ELSE pending
  /\ UNCHANGED Ledger

\* An unpaid renewal tries to record its use too, for no payment; the database
\* has a key that refuses the row.
ChargeDeclined(w) ==
  /\ till[w].at \in Charging
  /\ Keep(w, Closed)
  /\ UNCHANGED <<pending, Ledger>>

-----------------------------------------------------------------------------
(* Recording a use *)

\* applyDiscountCode validates again; if that fails the discount given is not counted.
Apply(w) ==
  /\ till[w].at = "apply"
  /\ IF Valid(till[w].by)
       THEN Keep(w, [till[w] EXCEPT !.at = "record",
                       !.fresh = \A v \in Tills : till[v].at # "count"])
       ELSE Keep(w, Closed)
  /\ UNCHANGED <<pending, Ledger>>

\* recordUsage: the row, which makes every other validation old, ...
RecordUsage(w) ==
  /\ till[w].at = "record"
  /\ redeemed' = [redeemed EXCEPT ![till[w].by] = @ + 1]
  /\ unproven' = IF till[w].fresh THEN unproven
                    ELSE [unproven EXCEPT ![till[w].by] = @ + 1]
  /\ till' = [v \in Tills |->
       IF v = w THEN [till[v] EXCEPT !.at = "count", !.fresh = FALSE]
       ELSE IF till[v].at = "record" THEN [till[v] EXCEPT !.fresh = FALSE]
       ELSE till[v]]
  /\ UNCHANGED <<uses, pending, slips>>

\* ... and the count.
CountUsage(w) ==
  /\ till[w].at = "count"
  /\ uses' = uses + 1
  /\ Keep(w, Closed)
  /\ UNCHANGED <<redeemed, pending, slips, unproven>>

\* The count fails, or the instance stops.
CountLost(w) ==
  /\ till[w].at = "count"
  /\ slips < MaxSlips
  /\ slips' = slips + 1
  /\ Keep(w, Closed)
  /\ UNCHANGED <<uses, redeemed, pending, unproven>>

\* The code is refused after all, or the row cannot be written: a discount is
\* given and no use of it is left.
Dropped(w) ==
  /\ till[w].at \in {"apply", "record"}
  /\ Keep(w, Closed)
  /\ UNCHANGED <<pending, Ledger>>

DiscountNext ==
  \/ \E w \in Tills, u \in Buyers : Checkout(w, u) \/ ConvertTrial(w, u) \/ Renew(w, u)
  \/ \E u \in Buyers, left \in {0, MaxRecurring}, trial \in BOOLEAN : Promise(u, left, trial)
  \/ \E u \in Buyers : WindowPasses(u)
  \/ \E w \in Tills : ChargePaid(w) \/ ChargeDeclined(w) \/ Apply(w) \/ RecordUsage(w)
                      \/ CountUsage(w) \/ CountLost(w) \/ Dropped(w)

DiscountSpec == DiscountInit /\ [][DiscountNext]_discountVars

-----------------------------------------------------------------------------
(* Properties *)

\* The buyers with a use that was recorded on a check that was still true.
Checked == {u \in Buyers : redeemed[u] > unproven[u]}

\* Leaving aside uses kept for later payments and those that overlapped another
\* one, a buyer uses the code once, and all of them together exceed its limit
\* only by uses whose count was lost.
CodeWithinLimit ==
  /\ \A u \in Buyers : redeemed[u] <= unproven[u] + 1
  /\ Cardinality(Checked) <= MaxUsages + slips
=============================================================================
