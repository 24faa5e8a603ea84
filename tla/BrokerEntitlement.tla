------------------------- MODULE BrokerEntitlement -------------------------
(***************************************************************************)
(* The billing side of one agent's integrations broker                     *)
(* (hermes_agent/humr_runtime/integrations): the cached entitlement        *)
(* snapshot that refuses metered model calls (billing_entitlement.py), and *)
(* the usage reporter whose accepted posts refresh it                      *)
(* (billing_usage_metering.py).                                            *)
(*                                                                         *)
(* The broker is one asyncio event loop: a task runs from one await to the *)
(* next in one step.  The control plane is the pair of handlers of         *)
(* views/billing_usage.py, of which only the answer `exhausted' matters    *)
(* here.                                                                   *)
(***************************************************************************)
EXTENDS Integers

CONSTANTS
    Requests,           \* metered model calls in flight at a time
    Displays,           \* reads of the credits card
    NoCaller,
    MaxBuffered,        \* _MAX_BUFFERED_EVENTS
    MaxEventsPerReport, \* the control plane's ingest cap
    MaxChanges          \* bound: how often the organization's balance crosses the floor

ASSUME BrokerAssumption ==
    /\ NoCaller \notin Requests \cup Displays
    /\ Requests \cap Displays = {}
    /\ MaxBuffered \in Nat
    /\ MaxEventsPerReport \in Nat
    /\ MaxBuffered <= MaxEventsPerReport
    /\ MaxChanges \in Nat

VARIABLES
    exhausted,  \* control plane: the balance is at or below the floor
    changes,    \* control plane: how often that has changed
    cache,      \* _entitlement_snapshot
    lockHolder, \* owner of _fetch_lock
    caller,     \* each task that consults the cache
    buffered,   \* number of events in the reporter's buffer
    post        \* the reporter's POST

brokerVars == <<exhausted, changes, cache, lockHolder, caller, buffered, post>>

Callers == Requests \cup Displays

\* The part of a snapshot that decides: "nothing" is the body of a failed call.
Snapshots == {"exhausted", "in credit"}
Current == IF exhausted THEN "exhausted" ELSE "in credit"

\* A caller: where it is, whether _generation has moved since it sampled it, the
\* answer of its GET, and whether the organization was in credit ever since it
\* arrived (history).
Stages == {"idle", "waiting", "asking", "answered", "failed", "refused", "forwarded"}
Idle == [stage |-> "idle", superseded |-> FALSE, answer |-> "nothing",
         inCredit |-> FALSE]

\* Between its sampling of _generation and its decision.
Consulting(c) == caller[c].stage \in {"waiting", "asking", "answered", "failed"}

PostStages == {"none", "sent", "answered", "failed"}
NoPost == [stage |-> "none", size |-> 0, answer |-> "nothing"]

BrokerInit ==
    /\ exhausted \in BOOLEAN
    /\ changes = 0
    /\ cache = "unknown"
    /\ lockHolder = NoCaller
    /\ caller = [c \in Callers |-> Idle]
    /\ buffered = 0
    /\ post = NoPost

----------------------------------------------------------------------------
(* The control plane.                                                      *)

\* Rating exhausts the balance; a renewal, an upgrade or a comp refills it.
BalanceCrossesFloor ==
    /\ changes < MaxChanges
    /\ changes' = changes + 1
    /\ exhausted' = ~exhausted
    /\ caller' = [c \in Callers |-> [caller[c] EXCEPT !.inCredit = FALSE]]
    /\ UNCHANGED <<cache, lockHolder, buffered, post>>

BillingEntitlementAnswers(c) ==
    /\ caller[c].stage = "asking"
    /\ caller' = [caller EXCEPT ![c].stage = "answered", ![c].answer = Current]
    /\ UNCHANGED <<exhausted, changes, cache, lockHolder, buffered, post>>

BillingUsageEventsAnswers ==
    /\ post.stage = "sent"
    /\ post' = [post EXCEPT !.stage = "answered", !.answer = Current]
    /\ UNCHANGED <<exhausted, changes, cache, lockHolder, caller, buffered>>

----------------------------------------------------------------------------
(* The cached snapshot.                                                    *)

\* _replace moves _generation under every caller that sampled it.
Superseded == [c \in Callers |-> [caller[c] EXCEPT !.superseded = @ \/ Consulting(c)]]

\* Bug: the caller decides on the copy it read before the refresh.
DecisionOnOldCopy(c, snapshot) == IF c \in Displays THEN "idle" ELSE "refused"

\* Where a caller goes with the snapshot in hand.
Decision(c, snapshot) ==
    IF c \in Displays THEN "idle"
    ELSE IF snapshot = "exhausted" THEN "refused" ELSE "forwarded"

Decided(c, snapshot) == [Idle EXCEPT !.stage = Decision(c, snapshot)]

LockFree == lockHolder = NoCaller /\ \A c \in Callers : caller[c].stage # "waiting"

\* A caller that must refresh samples _generation and takes the lock at once when
\* nobody holds it or waits for it.
Refreshes(c) ==
    /\ caller' = [caller EXCEPT ![c] = [Idle EXCEPT
                     !.stage = IF LockFree THEN "asking" ELSE "waiting",
                     !.inCredit = ~exhausted]]
    /\ lockHolder' = IF LockFree THEN c ELSE lockHolder

\* refusal_for_metered_request: without a snapshot, or in credit, the call goes
\* through; exhausted, the broker asks again before it refuses.
RequestArrives(r) ==
    /\ caller[r].stage = "idle"
    /\ IF cache = "exhausted"
       THEN Refreshes(r)
       ELSE caller' = [caller EXCEPT ![r].stage = "forwarded"] /\ UNCHANGED lockHolder
    /\ UNCHANGED <<exhausted, changes, cache, buffered, post>>

\* The card's GET refreshes a copy that is over a minute old (or none); a younger
\* copy is shown as it is, which changes nothing.
DisplayArrives(d) ==
    /\ caller[d].stage = "idle"
    /\ Refreshes(d)
    /\ UNCHANGED <<exhausted, changes, cache, buffered, post>>

\* A waiter gets the lock; a snapshot installed while it waited is its answer.
TakesLock(c) ==
    /\ caller[c].stage = "waiting"
    /\ lockHolder = NoCaller
    /\ IF caller[c].superseded
       THEN caller' = [caller EXCEPT ![c] = Decided(c, cache)] /\ UNCHANGED lockHolder
       ELSE caller' = [caller EXCEPT ![c].stage = "asking"] /\ lockHolder' = c
    /\ UNCHANGED <<exhausted, changes, cache, buffered, post>>

\* A transport error, a timeout or an error status.
GetFails(c) ==
    /\ caller[c].stage = "asking"
    /\ caller' = [caller EXCEPT ![c].stage = "failed"]
    /\ UNCHANGED <<exhausted, changes, cache, lockHolder, buffered, post>>

\* `async with' releases the lock on every way out of _refresh.
Released(c) == NoCaller

\* Bug: an answer only fills an empty cache.
InstallsWhenUnknown(c) ==
    cache = "unknown" /\ caller[c].stage = "answered" /\ ~caller[c].superseded

Installs(c) == caller[c].stage = "answered" /\ ~caller[c].superseded

\* The answer is installed unless another one was during the GET; the caller
\* then decides on whatever the cache holds.
GetReturns(c) ==
    /\ caller[c].stage \in {"answered", "failed"}
    /\ cache' = IF Installs(c) THEN caller[c].answer ELSE cache
    /\ caller' = [(IF Installs(c) THEN Superseded ELSE caller) EXCEPT ![c] = Decided(c, cache')]
    /\ lockHolder' = Released(c)
    /\ UNCHANGED <<exhausted, changes, buffered, post>>

----------------------------------------------------------------------------
(* Requests and the reporter.                                              *)

RefusalSent(r) ==
    /\ caller[r].stage = "refused"
    /\ caller' = [caller EXCEPT ![r] = Idle]
    /\ UNCHANGED <<exhausted, changes, cache, lockHolder, buffered, post>>

BufferHasRoom == buffered < MaxBuffered

\* The response ends; the tap records its usage unless the buffer is full.  An
\* error response carries none.
ResponseEnds(r) ==
    /\ caller[r].stage = "forwarded"
    /\ caller' = [caller EXCEPT ![r] = Idle]
    /\ buffered' \in {buffered, IF BufferHasRoom THEN buffered + 1 ELSE buffered}
    /\ UNCHANGED <<exhausted, changes, cache, lockHolder, post>>

\* The flush loop posts the whole buffer and waits for the answer.
Flush ==
    /\ post.stage = "none"
    /\ buffered > 0
    /\ post' = [NoPost EXCEPT !.stage = "sent", !.size = buffered]
    /\ buffered' = 0
    /\ UNCHANGED <<exhausted, changes, cache, lockHolder, caller>>

\* The report or its answer is lost, or the control plane refuses it.
PostFails ==
    /\ post.stage \in {"sent", "answered"}
    /\ post' = [post EXCEPT !.stage = "failed"]
    /\ UNCHANGED <<exhausted, changes, cache, lockHolder, caller, buffered>>

\* An accepted report installs its snapshot; a failed one drops its batch.
PostReturns ==
    /\ post.stage \in {"answered", "failed"}
    /\ IF post.stage = "answered"
       THEN cache' = post.answer /\ caller' = Superseded
       ELSE UNCHANGED <<cache, caller>>
    /\ post' = NoPost
    /\ UNCHANGED <<exhausted, changes, lockHolder, buffered>>

\* Nothing survives the process.
BrokerRestarts ==
    /\ cache' = "unknown"
    /\ lockHolder' = NoCaller
    /\ caller' = [c \in Callers |-> Idle]
    /\ buffered' = 0
    /\ post' = NoPost
    /\ UNCHANGED <<exhausted, changes>>

BrokerNext ==
    \/ BalanceCrossesFloor
    \/ \E r \in Requests : RequestArrives(r) \/ RefusalSent(r) \/ ResponseEnds(r)
    \/ \E d \in Displays : DisplayArrives(d)
    \/ \E c \in Callers :
        \/ TakesLock(c) \/ GetFails(c) \/ GetReturns(c)
        \/ BillingEntitlementAnswers(c)
    \/ Flush \/ BillingUsageEventsAnswers \/ PostFails \/ PostReturns
    \/ BrokerRestarts

BrokerSpec == BrokerInit /\ [][BrokerNext]_brokerVars

\* The event loop runs every task, asyncio.Lock serves its waiters in turn, and
\* every HTTP call ends, with an answer or at its timeout.
BrokerFairness ==
    /\ \A c \in Callers :
        /\ SF_brokerVars(TakesLock(c))
        /\ WF_brokerVars(BillingEntitlementAnswers(c) \/ GetFails(c))
        /\ WF_brokerVars(GetReturns(c))
    /\ WF_brokerVars(BillingUsageEventsAnswers \/ PostFails)
    /\ WF_brokerVars(PostReturns)

FairBrokerSpec == BrokerSpec /\ BrokerFairness

----------------------------------------------------------------------------
(* Properties.                                                             *)

BrokerTypeOK ==
    /\ exhausted \in BOOLEAN
    /\ changes \in 0..MaxChanges
    /\ cache \in Snapshots \cup {"unknown"}
    /\ lockHolder \in Callers \cup {NoCaller}
    /\ caller \in [Callers -> [stage : Stages, superseded : BOOLEAN, answer : Snapshots \cup {"nothing"},
                               inCredit : BOOLEAN]]
    /\ buffered \in Nat
    /\ post \in [stage : PostStages, size : Nat, answer : Snapshots \cup {"nothing"}]

\* The lock serializes the GETs: at most one is out, and it is the holder's.
OneGetAtATime ==
    \A c \in Callers :
        caller[c].stage \in {"asking", "answered", "failed"} <=> lockHolder = c

\* A report never exceeds what the control plane's ingest accepts, so a full
\* buffer is not rejected outright.
ReportFitsIngest == post.size <= MaxEventsPerReport

\* A call of an organization that was in credit all along is refused only on an
\* answer that somebody else installed, or for want of an answer: its own answer
\* unblocks it.
OwnAnswerUnblocks ==
    [][\A r \in Requests :
          (caller[r].stage = "answered" /\ ~caller[r].superseded /\ caller[r].inCredit)
              => caller'[r].stage # "refused"]_brokerVars

\* Every call that waits for a fresh answer is decided, whoever holds the lock
\* and whatever fails.
RequestsDecided ==
    \A r \in Requests :
        caller[r].stage = "waiting" ~> caller[r].stage \in {"refused", "forwarded", "idle"}

\* An organization that stays in credit is not refused for ever: if GETs are
\* answered again and again, the broker learns it and no late report unlearns it.
RefusalsEnd ==
    (<>[](~exhausted) /\ []<>(\E r \in Requests : caller[r].stage = "answered"))
        => <>[](cache # "exhausted")

=============================================================================
