----------------------------- MODULE CostRefresh -----------------------------
(***************************************************************************)
(* The daily Bedrock cost of one app: model invocations are logged by AWS  *)
(* with a delay, refresh jobs read the log over a window of days, write    *)
(* one row per day and freeze the days that have aged.  Pricing is         *)
(* abstracted: the cost of a day is the number of invocations in its log,  *)
(* and a day without any has no row.                                       *)
(***************************************************************************)
EXTENDS Naturals, FiniteSets, FiniteSetsExt

CONSTANTS
    MaxDay,         \* bound on the days that pass
    MaxPerDay,      \* bound on the invocations of one day
    MaxJobs,        \* bound on the refresh jobs ever queued
    Retention,      \* LOG_GROUP_RETENTION_DAYS
    Disturbances    \* what else may happen: see KnownDisturbances

KnownDisturbances == {
    "crash",        \* the worker process dies, or a write of the thread raises
    "query",        \* the Insights query fails or times out: no rows, no error
    "no_progress"}  \* a live refresh is slower than the no-progress timeout

CostAssumption ==
    /\ MaxDay \in Nat \ {0} /\ MaxPerDay \in Nat /\ MaxJobs \in Nat
    /\ Retention \in Nat \ {0, 1}
    /\ Disturbances \subseteq KnownDisturbances

VARIABLES
    today,      \* the UTC day
    happened,   \* invocations of each day
    delivered,  \* of these, the ones CloudWatch has in the log
    row,        \* AppDailyCost: the row of each day, if there is one
    job,        \* CostRefreshJob: status and claimed_by_run
    thread,     \* the worker thread of each job
    removing    \* the app is in one of REMOVAL_JOB_STATUSES

costVars == <<today, happened, delivered, row, job, thread, removing>>

Days == 1 .. MaxDay
Jobs == 1 .. MaxJobs
Amount == 0 .. MaxPerDay

CostRow == [cost : Amount, is_final : BOOLEAN]
NoRow == [cost |-> 0, is_final |-> FALSE]

JobRow == [status : {"ABSENT", "PENDING", "RUNNING", "SUCCEEDED", "FAILED"},
           claim : {"none", "live", "dead"}]
NoJob == [status |-> "ABSENT", claim |-> "none"]

\* day and window: "today" and the days to query; figures: what the query returned
\* and is still to be written, 0 for nothing.
Thread == [stage : {"none", "spawned", "windowed", "collected", "frozen"},
           day : 0 .. MaxDay, window : SUBSET Days, figures : [Days -> Amount]]
NoThread == [stage |-> "none", day |-> 0, window |-> {}, figures |-> [d \in Days |-> 0]]

CostTypeOK ==
    /\ today \in Days
    /\ happened \in [Days -> Amount]
    /\ delivered \in [Days -> Amount]
    /\ \A d \in Days : delivered[d] <= happened[d]
    /\ row \in [Days -> CostRow]
    /\ \A d \in Days : row[d].is_final => row[d].cost > 0
    /\ job \in [Jobs -> JobRow]
    /\ thread \in [Jobs -> Thread]
    /\ removing \in BOOLEAN

CostInit ==
    /\ today = 1
    /\ happened = [d \in Days |-> 0]
    /\ delivered = [d \in Days |-> 0]
    /\ row = [d \in Days |-> NoRow]
    /\ job = [j \in Jobs |-> NoJob]
    /\ thread = [j \in Jobs |-> NoThread]
    /\ removing = FALSE

-----------------------------------------------------------------------------
(* AWS: the model-invocation log and its delivery lag.                     *)

Invoke ==
    /\ happened[today] < MaxPerDay
    /\ happened' = [happened EXCEPT ![today] = @ + 1]
    /\ UNCHANGED <<today, delivered, row, job, thread, removing>>

Deliver(d) ==
    /\ delivered[d] < happened[d]
    /\ delivered' = [delivered EXCEPT ![d] = @ + 1]
    /\ UNCHANGED <<today, happened, row, job, thread, removing>>

\* The lag the window allows for: what happened yesterday is delivered by midnight.
Midnight ==
    /\ today < MaxDay
    /\ \A d \in 1 .. (today - 1) : delivered[d] = happened[d]
    /\ today' = today + 1
    /\ UNCHANGED <<happened, delivered, row, job, thread, removing>>

\* The days the log still holds.
Retained == {d \in 1 .. today : d + Retention > today}

-----------------------------------------------------------------------------
(* The queue: the cost panel, the removal, the worker's claim, the reaper. *)

Active == {j \in Jobs : job[j].status \in {"PENDING", "RUNNING"}}

\* The check of enqueue_refresh, under the app's lock.
NoActiveJob == Active = {}

\* enqueue_refresh
Enqueue ==
    /\ ~removing
    /\ NoActiveJob
    /\ \E j \in Jobs :
          /\ job[j] = NoJob
          /\ \A i \in Jobs : i < j => job[i] # NoJob
          /\ job' = [job EXCEPT ![j].status = "PENDING"]
    /\ UNCHANGED <<today, happened, delivered, row, thread, removing>>

\* A removal of the app is queued; one that succeeds deletes all of these rows, so
\* what matters here is one that fails.
Removal ==
    /\ removing' = ~removing
    /\ UNCHANGED <<today, happened, delivered, row, job, thread>>

\* _claim_pending_cost_refresh and the thread it spawns
ClaimRefresh ==
    /\ ~removing
    /\ \A j \in Jobs : job[j].status # "RUNNING"
    /\ \E j \in Jobs :
          /\ job[j].status = "PENDING"
          /\ job' = [job EXCEPT ![j] = [status |-> "RUNNING", claim |-> "live"]]
          /\ thread' = [thread EXCEPT ![j].stage = "spawned"]
    /\ UNCHANGED <<today, happened, delivered, row, removing>>

\* What the reaper may fail: refreshes of a dead run, and slow ones.
Stale(j) == job[j].claim = "dead" \/ "no_progress" \in Disturbances

\* _reap_stale_cost_refreshes
ReapRefresh(j) ==
    /\ job[j].status = "RUNNING"
    /\ Stale(j)
    /\ job' = [job EXCEPT ![j].status = "FAILED"]
    /\ UNCHANGED <<today, happened, delivered, row, thread, removing>>

-----------------------------------------------------------------------------
(* The refresh thread.                                                     *)

FrozenDays == {d \in Days : row[d].is_final}

\* _recompute_start up to today: the days after the last frozen one as far as the
\* log goes back, and always today and yesterday.
RecomputeWindow ==
    {d \in 1 .. today : \/ d + 1 >= today
                        \/ d \in Retained /\ \A f \in FrozenDays : d > f}

\* refresh_app picks "today" and the window.
PickWindow(j) ==
    /\ thread[j].stage = "spawned"
    /\ thread' = [thread EXCEPT ![j] = [stage |-> "windowed", day |-> today,
                      window |-> RecomputeWindow, figures |-> NoThread.figures]]
    /\ UNCHANGED <<today, happened, delivered, row, job, removing>>

\* collect: the log as it is when the query runs.
Collect(j) ==
    /\ thread[j].stage = "windowed"
    /\ thread' = [thread EXCEPT ![j].stage = "collected", ![j].figures =
          [d \in Days |-> IF d \in thread[j].window \cap Retained
                          THEN delivered[d] ELSE 0]]
    /\ UNCHANGED <<today, happened, delivered, row, job, removing>>

\* _query_environment and _run_insights turn a failed or slow query into no rows.
CollectFails(j) ==
    /\ "query" \in Disturbances
    /\ thread[j].stage = "windowed"
    /\ thread' = [thread EXCEPT ![j].stage = "collected"]
    /\ UNCHANGED <<today, happened, delivered, row, job, removing>>

\* _upsert_rows: one row, by itself; it is written as not final.
UpsertRow(j, d) ==
    /\ thread[j].stage = "collected"
    /\ thread[j].figures[d] > 0
    /\ row' = [row EXCEPT ![d] = [cost |-> thread[j].figures[d], is_final |-> FALSE]]
    /\ thread' = [thread EXCEPT ![j].figures[d] = 0]
    /\ UNCHANGED <<today, happened, delivered, job, removing>>

\* Bug: yesterday is taken to have aged as well.
AgedWithYesterday(d, day) == d < day
\* A day before yesterday, as the refresh sees it.
Aged(d, day) == d + 1 < day

\* _freeze_aged_days, whatever the sources returned.
FreezeAgedDays(j) ==
    /\ thread[j].stage = "collected"
    /\ thread[j].figures = NoThread.figures
    /\ row' = [d \in Days |->
          IF row[d] # NoRow /\ Aged(d, thread[j].day) THEN [row[d] EXCEPT !.is_final = TRUE]
          ELSE row[d]]
    /\ thread' = [thread EXCEPT ![j].stage = "frozen"]
    /\ UNCHANGED <<today, happened, delivered, job, removing>>

\* run_refresh saves the outcome, whatever the status has become.
RefreshSucceeds(j) ==
    /\ thread[j].stage = "frozen"
    /\ job' = [job EXCEPT ![j].status = "SUCCEEDED"]
    /\ thread' = [thread EXCEPT ![j] = NoThread]
    /\ UNCHANGED <<today, happened, delivered, row, removing>>

\* A write raises, the rows before it stay.
RefreshRaises(j) ==
    /\ "crash" \in Disturbances
    /\ thread[j].stage \in {"windowed", "collected", "frozen"}
    /\ job' = [job EXCEPT ![j].status = "FAILED"]
    /\ thread' = [thread EXCEPT ![j] = NoThread]
    /\ UNCHANGED <<today, happened, delivered, row, removing>>

\* The process dies with its threads; its run stops beating.
WorkerDies ==
    /\ "crash" \in Disturbances
    /\ \E j \in Jobs : thread[j].stage # "none"
    /\ thread' = [j \in Jobs |-> NoThread]
    /\ job' = [j \in Jobs |->
          IF job[j].claim = "live" THEN [job[j] EXCEPT !.claim = "dead"] ELSE job[j]]
    /\ UNCHANGED <<today, happened, delivered, row, removing>>

RefreshStep(j) ==
    \/ PickWindow(j) \/ Collect(j) \/ CollectFails(j)
    \/ \E d \in Days : UpsertRow(j, d)
    \/ FreezeAgedDays(j) \/ RefreshSucceeds(j) \/ RefreshRaises(j)

CostNext ==
    \/ Invoke \/ (\E d \in Days : Deliver(d)) \/ Midnight
    \/ Enqueue \/ Removal \/ ClaimRefresh
    \/ \E j \in Jobs : RefreshStep(j) \/ ReapRefresh(j)
    \/ WorkerDies

CostSpec == CostInit /\ [][CostNext]_costVars

\* The worker loop claims on every pass and runs the reaper; threads end, since the
\* query has a deadline.
CostFairness ==
    /\ SF_costVars(ClaimRefresh)
    /\ \A j \in Jobs : WF_costVars(RefreshStep(j)) /\ WF_costVars(ReapRefresh(j))

FairCostSpec == CostSpec /\ CostFairness

-----------------------------------------------------------------------------
(* Properties                                                              *)

\* Two refreshes of one app never run at once: every live thread belongs to the one
\* active job that enqueue_refresh admits.
OneRefreshPerApp ==
    \A i, j \in Jobs :
        thread[i].stage # "none" /\ (thread[j].stage # "none" \/ j \in Active) => i = j

\* A frozen figure is the whole day: no crash between two writes, no midnight during a
\* refresh and no missed run freezes a day that was read while its log was incomplete.
\* It is the durable history (docs/app_cost_tracking_design.md), never read again.
FinalIsComplete == \A d \in Days : row[d].is_final => row[d].cost = happened[d]

\* "Frozen rows (is_final) are never re-queried": once frozen, a row stays as it is.
FinalNeverChanges ==
    \A d \in Days : row[d].is_final => row'[d] = row[d]

\* Every day the log still holds and that is not frozen will be read again: the
\* window "covers gaps from missed runs" (cost_refresh.py), however they came about.
GapsAreRecomputed ==
    \A d \in Retained : delivered[d] > 0 /\ ~row[d].is_final => d \in RecomputeWindow

\* Every refresh that was queued ends, so the panel's poll does: it is done, or the
\* app is being removed, however often workers die.
RefreshEnds ==
    \A j \in Jobs : j \in Active ~> (j \notin Active \/ removing)
=============================================================================
