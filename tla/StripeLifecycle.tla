-------------------------- MODULE StripeLifecycle --------------------------
(***************************************************************************)
(* Stripe's webhooks and what HumR makes of them for one organization      *)
(* (services/billing/stripe_lifecycle.py): the mirror of one subscription, *)
(* the plan derived from it, and the credits it grants or restarts in the  *)
(* ledger (BillingLedger).                                                 *)
(*                                                                         *)
(* Stripe itself is external: subscriptions are bought, renew, fail to     *)
(* renew, recover and end, and every change is announced by events that    *)
(* are delivered at least once, late and in any order.                     *)
(***************************************************************************)
EXTENDS BillingLedger, Sequences

CONSTANTS
    Subs, NoSub,    \* subscription ids, and the mirror's absence
    Plans,          \* the plans the organization may start on
    OneAtATime,     \* bound: a second subscription is bought only after the first ended
    CancelTies,     \* a cancellation may follow another event of its second
    MaxEvents,      \* bound: events Stripe emits
    LastSecond      \* bound: Stripe's clock

StripeAssumption ==
    /\ NoSub \notin Subs
    /\ Plans \subseteq {"trial", "operator", "team"}
    /\ OneAtATime \in BOOLEAN
    /\ CancelTies \in BOOLEAN
    /\ MaxEvents \in Nat
    /\ LastSecond \in Nat

VARIABLES
    second,     \* the clock of event timestamps and period starts
    stripe,     \* what Stripe holds true of each subscription
    sent,       \* the events Stripe has emitted
    checkouts,  \* checkout pages HumR has opened
    applied,    \* StripeWebhookEvent rows, by event id
    mirror,     \* the BillingSubscription row
    plan        \* Organization.plan

stripeVars == <<second, stripe, sent, checkouts>>
lifecycleVars == <<applied, mirror, plan>>
billingVars == <<ledgerVars, stripeVars, lifecycleVars>>

OPERATOR_STATUSES == {"active", "trialing", "past_due"}
StripeManagedPlans == {"trial", "operator"}
SubscriptionEventTypes == {"created", "updated", "deleted"}
EventTypes == SubscriptionEventTypes \cup {"invoice.paid", "invoice.payment_failed"}
Statuses == {"active", "past_due", "unpaid", "canceled"}
NoStatus == "none"      \* status of a mirror that no subscription event wrote

\* Seconds count from 1; 0 is an unset timestamp.
Mirror == [sub : Subs \cup {NoSub}, status : Statuses \cup {NoStatus},
           period : Nat, paid : Nat, stamp : Nat]
NoMirror == [sub |-> NoSub, status |-> NoStatus, period |-> 0, paid |-> 0, stamp |-> 0]

Event == [id : 1..MaxEvents, type : EventTypes, sub : Subs,
          status : Statuses, period : Nat, at : Nat]

RestartKey(id) == <<"restart", id>>
PeriodKey(sub, period) == <<"period", sub, period>>

\* Every key a reset can have, and the grant of its plan.
ResetKeys ==
    {RestartKey(id) : id \in 1..MaxEvents}
        \cup {PeriodKey(s, p) : s \in Subs, p \in 1..LastSecond}

BillingInit ==
    /\ LedgerInit
    /\ second = 1
    /\ stripe = [s \in Subs |-> [status |-> NoStatus, period |-> 0, paid |-> 0]]
    /\ sent = {}
    /\ checkouts = {}
    /\ applied = {}
    /\ mirror = NoMirror
    /\ plan \in Plans

----------------------------------------------------------------------------
(* Stripe.                                                                 *)

Live(s) == stripe[s].status \in OPERATOR_STATUSES

\* The subscription becomes `now' and Stripe emits one event of each type.
Emits(s, now, types) ==
    LET count == Cardinality(sent)
        numbered(i) == [id |-> count + i, type |-> types[i], sub |-> s,
                        status |-> now.status, period |-> now.period, at |-> second]
    IN /\ count + Len(types) <= MaxEvents
       /\ \/ \A e \in sent : e.at = second => e.type \notin SubscriptionEventTypes
          \/ CancelTies /\ types = <<"deleted">>
       /\ stripe' = [stripe EXCEPT ![s] = now]
       /\ sent' = sent \cup {numbered(i) : i \in 1..Len(types)}
       /\ UNCHANGED <<second, checkouts, ledgerVars, lifecycleVars>>

Tick ==
    /\ second < LastSecond
    /\ second' = second + 1
    /\ UNCHANGED <<stripe, sent, checkouts, ledgerVars, lifecycleVars>>

\* The billing page offers the upgrade while the plan is Trial.
OpenCheckout(s) ==
    /\ plan = "trial"
    /\ checkouts' = checkouts \cup {s}
    /\ UNCHANGED <<second, stripe, sent, ledgerVars, lifecycleVars>>

CompleteCheckout(s) ==
    /\ s \in checkouts
    /\ stripe[s].status = NoStatus
    /\ OneAtATime => \A t \in Subs : stripe[t].status \in {NoStatus, "canceled"}
    /\ Emits(s, [status |-> "active", period |-> second, paid |-> second],
             <<"created", "invoice.paid">>)

Renew(s) ==
    /\ Live(s)
    /\ second > stripe[s].period
    /\ Emits(s, [status |-> "active", period |-> second, paid |-> second],
             <<"updated", "invoice.paid">>)

RenewalFails(s) ==
    /\ stripe[s].status = "active"
    /\ second > stripe[s].period
    /\ Emits(s, [stripe[s] EXCEPT !.status = "past_due", !.period = second],
             <<"updated", "invoice.payment_failed">>)

GiveUp(s) ==
    /\ stripe[s].status = "past_due"
    /\ Emits(s, [stripe[s] EXCEPT !.status = "unpaid"], <<"updated">>)

Recover(s) ==
    /\ stripe[s].status \in {"past_due", "unpaid"}
    /\ Emits(s, [stripe[s] EXCEPT !.status = "active", !.paid = stripe[s].period],
             <<"updated", "invoice.paid">>)

Cancel(s) ==
    /\ stripe[s].status \in Statuses \ {"canceled"}
    /\ Emits(s, [stripe[s] EXCEPT !.status = "canceled"], <<"deleted">>)

StripeNext ==
    \/ Tick
    \/ \E s \in Subs :
        \/ OpenCheckout(s) \/ CompleteCheckout(s)
        \/ Renew(s) \/ RenewalFails(s) \/ GiveUp(s) \/ Recover(s) \/ Cancel(s)

----------------------------------------------------------------------------
(* The webhook handlers.                                                   *)

EventNamesSupersededSubscription(e) ==
    /\ mirror.sub \notin {NoSub, e.sub}
    /\ mirror.status \notin {NoStatus, "canceled"}

EventIsOlderThanMirroredSubscriptionState(e) == e.at < mirror.stamp

\* Bug: a tie is won by the event that arrives last.
LastArrivalWinsTie(e) == FALSE

EventWouldResurrectCanceledSubscription(e) ==
    /\ e.at = mirror.stamp
    /\ e.sub = mirror.sub
    /\ mirror.status = "canceled"
    /\ e.status # "canceled"

\* A created event of a second live subscription is only logged, then applied.
ApplySubscriptionEvent(e) ==
    IF \/ e.type \in {"updated", "deleted"} /\ EventNamesSupersededSubscription(e)
       \/ EventIsOlderThanMirroredSubscriptionState(e)
       \/ EventWouldResurrectCanceledSubscription(e)
    THEN mirror
    ELSE [mirror EXCEPT !.sub = e.sub, !.status = e.status,
                        !.period = e.period, !.stamp = e.at]

\* A paid invoice carries identity and period, never a status; the paid period
\* only moves forward.
ApplyPaidInvoice(e) ==
    IF EventNamesSupersededSubscription(e)
    THEN mirror
    ELSE [mirror EXCEPT !.sub = e.sub, !.period = e.period,
                        !.paid = IF e.period >= mirror.paid THEN e.period ELSE @]

\* A failed invoice only wakes the reconciler.
Dispatched(e) ==
    CASE e.type \in SubscriptionEventTypes   -> ApplySubscriptionEvent(e)
      [] e.type = "invoice.paid"           -> ApplyPaidInvoice(e)
      [] e.type = "invoice.payment_failed" -> mirror

\* Team and Enterprise are managed by hand.
TransitionedPlan(m) ==
    IF plan \notin StripeManagedPlans THEN plan
    ELSE IF m.status \in OPERATOR_STATUSES THEN "operator" ELSE "trial"

\* Stripe advances the period even when a renewal fails: only a paid invoice
\* proves payment.
CurrentPeriodIsPaid(m) == m.paid # 0 /\ m.paid = m.period

\* The key of the trial restart of a drop from Operator to Trial.
RestartKeyOf(e, m) == RestartKey(e.id)

\* The credits follow the plan: a drop from Operator restarts the trial, an
\* Operator whose current period is the paid one gets that period's grant.
Reconciled(e, m) ==
    LET newPlan == TransitionedPlan(m)
    IN IF plan = "operator" /\ newPlan = "trial"
       THEN ResetBalanceToGrant(RestartKeyOf(e, m), GrantOf[RestartKeyOf(e, m)])
       ELSE IF newPlan = "operator" /\ CurrentPeriodIsPaid(m)
            THEN ResetBalanceToGrant(PeriodKey(m.sub, m.paid), GrantOf[PeriodKey(m.sub, m.paid)])
            ELSE Account

\* One transaction under the organization's row lock: the event row, the mirror,
\* the plan and the ledger commit together or not at all (Stripe then retries).
ApplyWebhookEvent(e) ==
    /\ e.id \notin applied
    /\ applied' = applied \cup {e.id}
    /\ mirror' = Dispatched(e)
    /\ IF mirror'.sub = NoSub
       THEN UNCHANGED <<plan, ledger, balance>>
       ELSE plan' = TransitionedPlan(mirror') /\ Commit(Reconciled(e, mirror'))
    /\ UNCHANGED <<stripeVars, today, carded, reported, ratedOn, pass>>

----------------------------------------------------------------------------
BillingNext ==
    \/ StripeNext
    \/ \E e \in sent : ApplyWebhookEvent(e)
    \/ (UsageNext \/ GrantTrial) /\ UNCHANGED <<stripeVars, lifecycleVars>>

BillingSpec == BillingInit /\ [][BillingNext]_billingVars

----------------------------------------------------------------------------
(* Properties.                                                             *)

BillingTypeOK ==
    /\ LedgerTypeOK
    /\ second \in 1..LastSecond
    /\ sent \subseteq Event
    /\ checkouts \subseteq Subs
    /\ applied \subseteq {e.id : e \in sent}
    /\ mirror \in Mirror
    /\ plan \in {"trial", "operator", "team"}

AllApplied == applied = {e.id : e \in sent}

\* No period is granted that Stripe was not paid for, in whatever order and
\* however late its events arrive (the mirror keeps the paid period of a former
\* subscription).
GrantsArePaid ==
    \A s \in Subs, p \in 1..LastSecond :
        GrantKey(PeriodKey(s, p)) \in DOMAIN ledger =>
            \E e \in sent : e.type = "invoice.paid" /\ e.sub = s /\ e.period = p

\* Each drop from Operator to Trial restarts the trial exactly once, and nothing
\* else restarts it: a subscription may drop, recover and drop again.
EachDropRestartsTrial ==
    (plan = "operator" /\ plan' = "trial") <=>
       \E id \in 1..MaxEvents :
           GrantKey(RestartKey(id)) \in DOMAIN ledger' \ DOMAIN ledger

\* Once every event of a subscription is applied, in any order, the plan is the
\* one Stripe's state implies.
PlanFollowsStripe ==
    (AllApplied /\ plan \in StripeManagedPlans) =>
        ((plan = "operator") <=> \E s \in Subs : Live(s))

\* ... and the paid current period has its grant.
PaidPeriodGranted ==
    (AllApplied /\ plan \in StripeManagedPlans) =>
        \A s \in Subs :
            (Live(s) /\ stripe[s].paid = stripe[s].period) =>
                GrantKey(PeriodKey(s, stripe[s].paid)) \in DOMAIN ledger

\* Canceled is terminal: when everything Stripe sold has ended and every event is
\* applied, no event that shares the second of the cancellation has brought the
\* subscription back to life.
CancellationSticks ==
    (AllApplied /\ \A s \in Subs : stripe[s].status \in {NoStatus, "canceled"}) =>
        plan # "operator"

\* stripe_lifecycle.py:51-53: "delivery order between ``invoice.paid`` and the
\* subscription events doesn't matter": also when the paid subscription is the
\* one that follows a cancelled one.
DeliveryOrderDoesNotMatter == PaidPeriodGranted

=============================================================================
