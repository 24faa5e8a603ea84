--------------------------- MODULE BillingLedger ---------------------------
(***************************************************************************)
(* The credits of one organization: the usage events its brokers report    *)
(* (views/billing_usage.py), the rating passes that turn them into day     *)
(* charges (services/billing/rating.py), the grants and resets that post   *)
(* credits (services/billing/grants.py), the append-only ledger and the    *)
(* cached balance whose row every writer locks.                            *)
(*                                                                         *)
(* Usage is priced in tenths of a credit, entries are whole credits.  Time *)
(* is the UTC date; a date is what the code keys a charge by.              *)
(***************************************************************************)
EXTENDS Integers, FiniteSets, FiniteSetsExt

CONSTANTS
    Events,             \* the usage events a broker may report, by idempotency key
    Apps, AppOf,        \* the apps and the app whose bearer reported the event
    Price,              \* tenths of a credit at the card of the event's occurred_at
    OccurredOn,         \* the date of occurred_at
    Rank,               \* place in the order (occurred_at, id)
    Carded,             \* events whose model family the first rate card covers
    Passes,             \* job workers whose rating tick may overlap
    MaxEventsPerPass,   \* MAX_EVENTS_PER_ORGANIZATION_PASS
    Horizon,            \* RATING_HORIZON, in days
    LastDay,            \* bound: the last date of the run
    TrialCredits,       \* the effective trial plan's grant
    Resets, GrantOf     \* the keys of balance resets and what each one grants

LedgerAssumption ==
    /\ AppOf \in [Events -> Apps]
    /\ Price \in [Events -> Nat]
    /\ OccurredOn \in [Events -> Nat]
    /\ Rank \in [Events -> Nat]
    /\ \A e, f \in Events : Rank[e] = Rank[f] => e = f
    /\ Carded \subseteq Events
    /\ MaxEventsPerPass \in Nat \ {0}
    /\ Horizon \in Nat
    /\ LastDay \in Nat
    /\ TrialCredits \in Nat \ {0}
    /\ GrantOf \in [Resets -> Nat \ {0}]

VARIABLES
    today,      \* the UTC date
    carded,     \* events the deployed rate card can price
    reported,   \* BillingUsageEvent rows
    ratedOn,    \* date of rated_at of the events that are rated
    ledger,     \* BillingLedgerEntry rows by idempotency key
    balance,    \* BillingBalance.credits
    pass        \* open rating transaction of each worker

ledgerVars == <<today, carded, reported, ratedOn, ledger, balance, pass>>

Days == 0..LastDay
TrialKey == <<"trial">>
ChargeKey(app, day) == <<"charge", app, day>>
GrantKey(k) == <<"grant", k>>
ExpiryKey(k) == <<"expiry", k>>

\* A row: its whole-credit amount, and for a day charge the exact sum in its
\* metadata.
Entry(amount, exact) == [amount |-> amount, exact |-> exact]

Posted(rows, key, entry) ==
    [k \in DOMAIN rows \cup {key} |-> IF k = key THEN entry ELSE rows[k]]

\* Decimal.quantize(1, ROUND_HALF_EVEN) of a number of tenths.
RoundHalfEven(tenths) ==
    LET whole == tenths \div 10
        rest  == tenths % 10
    IN IF rest < 5 \/ (rest = 5 /\ whole % 2 = 0) THEN whole ELSE whole + 1

PriceOf(events) == MapThenSumSet(LAMBDA e : Price[e], events)

NoPass == [open |-> FALSE, date |-> 0, batch |-> {}, credits |-> 0]

LedgerInit ==
    /\ today = 0
    /\ carded = Carded
    /\ reported = {}
    /\ ratedOn = [e \in {} |-> 0]
    /\ ledger = [k \in {} |-> Entry(0, 0)]
    /\ balance = 0
    /\ pass = [p \in Passes |-> NoPass]

----------------------------------------------------------------------------
(* Usage reports.                                                          *)

\* A broker posts a batch; rows whose idempotency key exists are ignored.
Report(batch) ==
    /\ \A e \in batch : OccurredOn[e] <= today
    /\ reported' = reported \cup batch
    /\ UNCHANGED <<today, carded, ratedOn, ledger, balance, pass>>

----------------------------------------------------------------------------
(* Rating.                                                                 *)

Pending == {e \in reported \ DOMAIN ratedOn : OccurredOn[e] >= today - Horizon}

\* What one pass selects: the oldest pending events, up to the cap.
Selected ==
    {e \in Pending : Cardinality({f \in Pending : Rank[f] < Rank[e]}) < MaxEventsPerPass}

\* Bug: the balance row is read without SELECT FOR UPDATE.
BalanceNotLocked == TRUE

BalanceFree == \A p \in Passes : ~pass[p].open

\* The pass takes the balance row (or skips the organization when it is taken),
\* then the posting date, then its events.  It goes on only with events the card
\* can price.
RatingBegins(p) ==
    /\ BalanceFree
    /\ Selected \cap carded # {}
    /\ pass' = [pass EXCEPT ![p] = [open |-> TRUE, date |-> today,
                                    batch |-> Selected \cap carded, credits |-> balance]]
    /\ UNCHANGED <<today, carded, reported, ratedOn, ledger, balance>>

\* The app's charge of that date with the events folded into it.
DayCharge(app, day, events) ==
    LET key   == ChargeKey(app, day)
        exact == (IF key \in DOMAIN ledger THEN ledger[key].exact ELSE 0)
                     - PriceOf({e \in events : AppOf[e] = app})
    IN Entry(RoundHalfEven(exact), exact)

AmountOf(rows, key) == IF key \in DOMAIN rows THEN rows[key].amount ELSE 0

\* The transaction's writes: one upsert per app, rated_at, the balance.
RatingCommits(p) ==
    LET day   == pass[p].date
        apps  == {AppOf[e] : e \in pass[p].batch}
        delta(a) == DayCharge(a, day, pass[p].batch).amount - AmountOf(ledger, ChargeKey(a, day))
    IN /\ pass[p].open
       /\ ledger' = [k \in DOMAIN ledger \cup {ChargeKey(a, day) : a \in apps} |->
                        IF \E a \in apps : k = ChargeKey(a, day)
                        THEN DayCharge(k[2], day, pass[p].batch)
                        ELSE ledger[k]]
       /\ ratedOn' = [e \in DOMAIN ratedOn \cup pass[p].batch |->
                         IF e \in pass[p].batch THEN day ELSE ratedOn[e]]
       /\ balance' = pass[p].credits + MapThenSumSet(delta, apps)
       /\ pass' = [pass EXCEPT ![p] = NoPass]
       /\ UNCHANGED <<today, carded, reported>>

\* An exception or the death of the process rolls the transaction back.
RatingAborts(p) ==
    /\ pass[p].open
    /\ pass' = [pass EXCEPT ![p] = NoPass]
    /\ UNCHANGED <<today, carded, reported, ratedOn, ledger, balance>>

\* A release whose rate card covers the missing families.
DeployRateCard ==
    /\ carded # Events
    /\ carded' = Events
    /\ UNCHANGED <<today, reported, ratedOn, ledger, balance, pass>>

Midnight ==
    /\ today < LastDay
    /\ today' = today + 1
    /\ UNCHANGED <<carded, reported, ratedOn, ledger, balance, pass>>

----------------------------------------------------------------------------
(* Grants.                                                                 *)

\* _write_locked_entry: a key that exists is never posted again.
WriteLockedEntry(account, key, amount) ==
    IF key \in DOMAIN account.rows
    THEN account
    ELSE [rows    |-> Posted(account.rows, key, Entry(amount, 0)),
          credits |-> account.credits + amount]

Account == [rows |-> ledger, credits |-> balance]

WriteGrant(k, credits) == WriteLockedEntry(Account, GrantKey(k), credits)

\* A replay returns before writing anything; a first application writes off
\* whatever balance exists and then grants.
ResetBalanceToGrant(k, credits) ==
    LET writtenOff == IF balance # 0
                      THEN WriteLockedEntry(Account, ExpiryKey(k), -balance)
                      ELSE Account
    IN IF GrantKey(k) \in DOMAIN ledger
       THEN Account
       ELSE WriteLockedEntry(writtenOff, GrantKey(k), credits)

\* A writer that has something to post waits for the balance row.
Commit(account) ==
    /\ BalanceFree \/ account = Account
    /\ ledger' = account.rows
    /\ balance' = account.credits

\* Onboarding, or an operator's backfill, posts the one-time trial grant.
GrantTrial ==
    /\ Commit(WriteGrant(TrialKey, TrialCredits))
    /\ UNCHANGED <<today, carded, reported, ratedOn, pass>>

\* A renewal or a trial restart, whose webhook may be delivered again.
Reset(k) ==
    /\ Commit(ResetBalanceToGrant(k, GrantOf[k]))
    /\ UNCHANGED <<today, carded, reported, ratedOn, pass>>

----------------------------------------------------------------------------
UsageNext ==
    \/ \E batch \in SUBSET Events : Report(batch)
    \/ \E p \in Passes : RatingBegins(p) \/ RatingCommits(p) \/ RatingAborts(p)
    \/ DeployRateCard
    \/ Midnight

LedgerNext ==
    \/ UsageNext
    \/ GrantTrial
    \/ \E k \in Resets : Reset(k)

LedgerSpec == LedgerInit /\ [][LedgerNext]_ledgerVars

\* The worker loop runs the tick every minute, and a pass is not rolled back for
\* ever.
LedgerFairness ==
    /\ WF_ledgerVars(\E p \in Passes : RatingBegins(p))
    /\ \A p \in Passes : SF_ledgerVars(RatingCommits(p))

FairLedgerSpec == LedgerSpec /\ LedgerFairness

----------------------------------------------------------------------------
(* Properties.                                                             *)

LedgerTypeOK ==
    /\ today \in Days
    /\ carded \subseteq Events
    /\ reported \subseteq Events
    /\ DOMAIN ratedOn \subseteq reported
    /\ \A e \in DOMAIN ratedOn : ratedOn[e] \in Days
    /\ \A k \in DOMAIN ledger : ledger[k] \in [amount : Int, exact : Int]
    /\ balance \in Int
    /\ pass \in [Passes -> [open : BOOLEAN, date : Days, batch : SUBSET Events, credits : Int]]

\* The balance is the sum of the ledger at all times (BillingBalance; checked in
\* production by humr_billing_verify): no interleaving of overlapping rating
\* passes, aborted passes, grants and replayed resets loses or doubles a
\* movement.
BalanceIsLedgerSum ==
    balance = MapThenSumSet(LAMBDA k : ledger[k].amount, DOMAIN ledger)

\* The charge of an app and date is the exact price of the events whose rated_at
\* has that date, each counted once however often it was reported and however
\* many passes overlapped, and the posted amount is within half a credit of it.
DayChargesAreExact ==
    \A a \in Apps, d \in Days :
        LET charged == {e \in DOMAIN ratedOn : ratedOn[e] = d /\ AppOf[e] = a}
            key == ChargeKey(a, d)
        IN /\ key \in DOMAIN ledger <=> charged # {}
           /\ key \in DOMAIN ledger =>
                /\ ledger[key].exact = -PriceOf(charged)
                /\ 10 * ledger[key].amount - ledger[key].exact \in -5..5

\* A write-off is posted only together with the grant that replaces it: the
\* replay of a reset, days later, cannot wipe credits the customer has bought
\* or spent since.
WriteOffOnlyWithGrant ==
    \A k \in Resets :
       ExpiryKey(k) \in DOMAIN ledger' \ DOMAIN ledger
           => GrantKey(k) \in DOMAIN ledger' \ DOMAIN ledger

\* Every priceable event a broker reported is rated, unless it first falls out
\* of the rating horizon: unpriceable events beside it, aborted passes and late
\* reports do not hold it up, as long as fewer unpriceable events wait before it
\* than a pass may take (CappedRemainderRates drops that condition).
PriceableEventsRated ==
    \A e \in Events :
        (e \in reported \cap carded)
            ~> (e \in DOMAIN ratedOn \/ OccurredOn[e] < today - Horizon)

\* rating.py:52-54: "A capped pass leaves the remainder for the next tick a
\* minute later": priceable events the cap left out are rated by later ticks.
CappedRemainderRates ==
    \A e \in Events :
        (e \in (Pending \ Selected) \cap carded)
            ~> (e \in DOMAIN ratedOn \/ OccurredOn[e] < today - Horizon)

=============================================================================
