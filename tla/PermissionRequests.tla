------------------------- MODULE PermissionRequests -------------------------
(***************************************************************************)
(* Requests for AWS permissions of one app: drafts that several people     *)
(* edit, the approval, and the worker thread that writes the IAM policy,   *)
(* the baseline and the outcome in three separate steps.  A statement of   *)
(* a policy is an opaque Grant.                                            *)
(***************************************************************************)
EXTENDS Naturals, FiniteSets

CONSTANTS
    Grant,          \* policy statements
    Editor,         \* web requests of editors that can be under way at once
    MaxRequests,    \* bound on the requests ever created
    Disturbances    \* what else may happen: see KnownDisturbances

KnownDisturbances == {
    "crash",        \* the worker process dies
    "no_progress",  \* a live apply thread is slower than the no-progress timeout
    "teardown",     \* the environment is torn down, fails and is provisioned again
    "unguarded"}    \* edits of a request that is not a draft (the HTML editor, cancel)

ASSUME PermAssumption ==
    /\ MaxRequests \in Nat
    /\ Disturbances \subseteq KnownDisturbances

VARIABLES
    request,    \* the AppPermissionRequest rows
    baseline,   \* the AppPermissions row, if it exists
    role,       \* the app's task role, if it exists, with its inline policy
    thread,     \* the apply thread of each request and the statements it loaded
    editor,     \* the row a web request is about to save
    environment,\* status of the app's environment
    job,        \* job status of the app
    approved,   \* history: the statements of each request when it was approved
    overtaken,  \* history: the requests whose thread the reaper gave up on while it ran
    touched     \* history: an apply wrote the role since it was created

permVars == <<request, baseline, role, thread, editor, environment, job, approved, overtaken, touched>>

Requests == 1 .. MaxRequests
Policies == SUBSET Grant

\* A row or a role that may be missing.
Absent == [exists |-> FALSE, statements |-> {}]
Holding(p) == [exists |-> TRUE, statements |-> p]
Stored == {Absent} \cup {Holding(p) : p \in Policies}

Status == {"ABSENT", "DRAFT", "APPROVED_PENDING_APPLY", "APPLYING", "APPLIED", "FAILED"}

\* claimed_by_run: no run, a run that is alive, a run that died.
RequestRow == [status : Status, statements : Policies, claim : {"none", "live", "dead"}]
NoRequest == [status |-> "ABSENT", statements |-> {}, claim |-> "none"]

ThreadStage == {"none", "spawned", "loaded", "written", "advanced"}
NoThread == [stage |-> "none", statements |-> {}]

\* A web request between its read of the database and its save.
NoEdit == [stage |-> "idle", target |-> 0, statements |-> {}]

PermTypeOK ==
    /\ request \in [Requests -> RequestRow]
    /\ \A r \in Requests : request[r].status = "ABSENT" => request[r] = NoRequest
    /\ baseline \in Stored
    /\ role \in Stored
    /\ thread \in [Requests -> [stage : ThreadStage, statements : Policies]]
    /\ editor \in [Editor -> [stage : {"idle", "creating", "saving"},
                              target : 0 .. MaxRequests, statements : Policies]]
    /\ environment \in {"READY", "TEARDOWN", "ERROR"}
    /\ job \in {"IDLE", "REMOVAL", "REMOVAL_FAILED"}
    /\ approved \in [Requests -> Policies]
    /\ overtaken \subseteq Requests
    /\ touched \in BOOLEAN

PermInit ==
    /\ request = [r \in Requests |-> NoRequest]
    /\ baseline = Absent
    /\ role \in {Holding({}), Absent}
    /\ thread = [r \in Requests |-> NoThread]
    /\ editor = [e \in Editor |-> NoEdit]
    /\ environment = "READY"
    /\ job = "IDLE"
    /\ approved = [r \in Requests |-> {}]
    /\ overtaken = {}
    /\ touched = FALSE

InStatus(s) == {r \in Requests : request[r].status = s}
Newest(S) == CHOOSE r \in S : \A q \in S : q <= r

-----------------------------------------------------------------------------
(* The editor: permissions_service.py behind two sets of views.            *)

\* What the first visit stores: the policy read from AWS, empty when the
\* role is missing or cannot be read.
SeedFromAws == {Holding(role.statements), Holding({})}

\* get_or_create_app_permissions
SeedBaseline ==
    /\ ~baseline.exists
    /\ baseline' \in SeedFromAws
    /\ UNCHANGED <<request, role, thread, editor, environment, job, approved, overtaken, touched>>

\* get_or_create_draft, as far as the query that finds no draft.  (A visit that
\* finds one only renders it.)
FindNoDraft(e) ==
    /\ baseline.exists
    /\ editor[e].stage = "idle"
    /\ InStatus("DRAFT") = {}
    /\ editor' = [editor EXCEPT ![e] = [stage |-> "creating", target |-> 0,
                                        statements |-> baseline.statements]]
    /\ UNCHANGED <<request, baseline, role, thread, environment, job, approved, overtaken, touched>>

\* get_or_create_draft: the insert.  Nothing keeps two visits from both inserting.
CreateDraft(e) ==
    /\ editor[e].stage = "creating"
    /\ \E r \in InStatus("ABSENT") :
          /\ \A q \in InStatus("ABSENT") : r <= q
          /\ request' = [request EXCEPT ![r].status = "DRAFT",
                                        ![r].statements = editor[e].statements]
    /\ editor' = [editor EXCEPT ![e] = NoEdit]
    /\ UNCHANGED <<baseline, role, thread, environment, job, approved, overtaken, touched>>

\* Which rows a view lets through: the JSON statement view only drafts, the HTML
\* editor and both cancels any row.
EditableRows == InStatus("DRAFT") \cup
    (IF "unguarded" \in Disturbances THEN Requests \ InStatus("ABSENT") ELSE {})

\* What update_statements may make of the statements it loaded, and cancel.
EditsOf(r) == {request[r].statements \cup {g} : g \in Grant}
              \cup {request[r].statements \ {g} : g \in Grant}
              \cup {baseline.statements}

\* The view loads the row, checks its status and computes the new statements.
LoadForEdit(e) ==
    /\ editor[e].stage = "idle"
    /\ \E r \in EditableRows : \E s \in EditsOf(r) :
          /\ s # request[r].statements
          /\ editor' = [editor EXCEPT ![e] = [stage |-> "saving", target |-> r,
                                              statements |-> s]]
    /\ UNCHANGED <<request, baseline, role, thread, environment, job, approved, overtaken, touched>>

\* save(update_fields=["statements"]): whatever the row has become meanwhile.
SaveEdit(e) ==
    /\ editor[e].stage = "saving"
    /\ request' = [request EXCEPT ![editor[e].target].statements = editor[e].statements]
    /\ editor' = [editor EXCEPT ![e] = NoEdit]
    /\ UNCHANGED <<baseline, role, thread, environment, job, approved, overtaken, touched>>

\* Bug: the request is queued whatever its status.
ApprovableAnyStatus == Requests \ InStatus("ABSENT")
\* approve queues drafts; a pending request stays as it is, others are refused.
Approvable == InStatus("DRAFT")

\* approve: under the row's lock.
Approve(r) ==
    /\ r \in Approvable
    /\ request' = [request EXCEPT ![r].status = "APPROVED_PENDING_APPLY"]
    /\ approved' = [approved EXCEPT ![r] = request[r].statements]
    /\ UNCHANGED <<baseline, role, thread, editor, environment, job, overtaken, touched>>

-----------------------------------------------------------------------------
(* The worker: claim, apply, reap.                                         *)

\* Bug: the claim does not look for another apply of the app.
AppAlwaysFree == TRUE
\* No other request of the app is being applied.
AppFree == InStatus("APPLYING") = {}

\* _claim_pending_permissions_apply and the thread it spawns.  first() takes the
\* newest request, the model's default ordering.
ClaimApply ==
    /\ InStatus("APPROVED_PENDING_APPLY") # {}
    /\ environment = "READY"
    /\ job # "REMOVAL"
    /\ AppFree
    /\ LET r == Newest(InStatus("APPROVED_PENDING_APPLY")) IN
          /\ request' = [request EXCEPT ![r].status = "APPLYING", ![r].claim = "live"]
          /\ thread' = [thread EXCEPT ![r].stage = "spawned"]
    /\ UNCHANGED <<baseline, role, editor, environment, job, approved, overtaken, touched>>

\* run_apply reads the row: its statements as they are now.
ApplyLoads(r) ==
    /\ thread[r].stage = "spawned"
    /\ thread' = [thread EXCEPT ![r] = [stage |-> "loaded",
                                        statements |-> request[r].statements]]
    /\ UNCHANGED <<request, baseline, role, editor, environment, job, approved, overtaken, touched>>

\* put_role_policy, or delete_role_policy for no statements.
ApplyWrites(r) ==
    /\ thread[r].stage = "loaded"
    /\ role.exists
    /\ role' = Holding(thread[r].statements)
    /\ thread' = [thread EXCEPT ![r].stage = "written"]
    /\ touched' = TRUE
    /\ UNCHANGED <<request, baseline, editor, environment, job, approved, overtaken>>

\* The IAM call raises; the request is saved as FAILED.
ApplyFails(r) ==
    /\ thread[r].stage = "loaded"
    /\ request' = [request EXCEPT ![r].status = "FAILED"]
    /\ thread' = [thread EXCEPT ![r] = NoThread]
    /\ UNCHANGED <<baseline, role, editor, environment, job, approved, overtaken, touched>>

\* The baseline takes the statements the thread wrote.
ApplyAdvancesBaseline(r) ==
    /\ thread[r].stage = "written"
    /\ baseline' = Holding(thread[r].statements)
    /\ thread' = [thread EXCEPT ![r].stage = "advanced"]
    /\ UNCHANGED <<request, role, editor, environment, job, approved, overtaken, touched>>

\* The thread saves APPLIED over whatever the status has become, and ends.
ApplySettles(r) ==
    /\ thread[r].stage = "advanced"
    /\ request' = [request EXCEPT ![r].status = "APPLIED"]
    /\ thread' = [thread EXCEPT ![r] = NoThread]
    /\ UNCHANGED <<baseline, role, editor, environment, job, approved, overtaken, touched>>

\* The process dies with its threads; its run stops beating.
WorkerDies ==
    /\ "crash" \in Disturbances
    /\ \E r \in Requests : thread[r].stage # "none"
    /\ thread' = [r \in Requests |-> NoThread]
    /\ request' = [r \in Requests |->
          IF request[r].claim = "live" THEN [request[r] EXCEPT !.claim = "dead"]
          ELSE request[r]]
    /\ UNCHANGED <<baseline, role, editor, environment, job, approved, overtaken, touched>>

\* What the reaper may fail: applies of a dead run, and slow ones.
Stale(r) == request[r].claim = "dead" \/ "no_progress" \in Disturbances

\* _reap_stale_permission_applies
ReapApply(r) ==
    /\ r \in InStatus("APPLYING")
    /\ Stale(r)
    /\ request' = [request EXCEPT ![r].status = "FAILED"]
    /\ overtaken' = IF thread[r].stage = "none" THEN overtaken ELSE overtaken \cup {r}
    /\ UNCHANGED <<baseline, role, thread, editor, environment, job, approved, touched>>

-----------------------------------------------------------------------------
(* The neighbours, as far as they meet a permission request.               *)

\* queue_teardown refuses while a request is being applied.
NothingApplied == InStatus("APPLYING") = {}

\* queue_teardown
QueueTeardown ==
    /\ "teardown" \in Disturbances
    /\ environment \in {"READY", "ERROR"}
    /\ job # "REMOVAL"
    /\ NothingApplied
    /\ environment' = "TEARDOWN"
    /\ UNCHANGED <<request, baseline, role, thread, editor, job, approved, overtaken, touched>>

\* The teardown deletes the app's stack, and its role with it; a later step fails.
TeardownFails ==
    /\ environment = "TEARDOWN"
    /\ role' \in {role, Absent}
    /\ environment' = "ERROR"
    /\ UNCHANGED <<request, baseline, thread, editor, job, approved, overtaken, touched>>

\* environment_retry and a provisioning that succeeds.
RetryEnvironment ==
    /\ environment = "ERROR"
    /\ environment' = "READY"
    /\ UNCHANGED <<request, baseline, role, thread, editor, job, approved, overtaken, touched>>

\* A deployment of the app creates the role without inline policy.
DeployCreatesRole ==
    /\ environment = "READY"
    /\ job = "IDLE"
    /\ ~role.exists
    /\ role' = Holding({})
    /\ touched' = FALSE
    /\ UNCHANGED <<request, baseline, thread, editor, environment, job, approved, overtaken>>

\* queue_removal: the app's own jobs are its only guard.
QueueRemoval ==
    /\ environment = "READY"
    /\ job # "REMOVAL"
    /\ job' = "REMOVAL"
    /\ UNCHANGED <<request, baseline, role, thread, editor, environment, approved, overtaken, touched>>

\* A removal that fails, before or after the stack went.  (One that succeeds
\* deletes all rows of the app.)
RemovalFails ==
    /\ job = "REMOVAL"
    /\ role' \in {role, Absent}
    /\ job' = "REMOVAL_FAILED"
    /\ UNCHANGED <<request, baseline, thread, editor, environment, approved, overtaken, touched>>

ApplyStep(r) == ApplyLoads(r) \/ ApplyWrites(r) \/ ApplyFails(r)
                \/ ApplyAdvancesBaseline(r) \/ ApplySettles(r)

PermNext ==
    \/ SeedBaseline
    \/ \E e \in Editor : FindNoDraft(e) \/ CreateDraft(e) \/ LoadForEdit(e) \/ SaveEdit(e)
    \/ \E r \in Requests : Approve(r) \/ ApplyStep(r) \/ ReapApply(r)
    \/ ClaimApply
    \/ WorkerDies
    \/ QueueTeardown \/ TeardownFails \/ RetryEnvironment
    \/ DeployCreatesRole \/ QueueRemoval \/ RemovalFails

PermSpec == PermInit /\ [][PermNext]_permVars

\* The worker loop claims on every pass and runs a reaper; threads end.
PermFairness ==
    /\ SF_permVars(ClaimApply)
    /\ \A r \in Requests : WF_permVars(ApplyStep(r)) /\ WF_permVars(ReapApply(r))

FairPermSpec == PermSpec /\ PermFairness

-----------------------------------------------------------------------------
(* Properties                                                              *)

\* The thread of r runs, and nobody gave up on it.
Trusted(r) == thread[r].stage # "none" /\ r \notin overtaken

\* Two applies of one app never run at once, except behind the back of a reaper that
\* gave up on one: the row constraint and the claim keep one request APPLYING, and
\* every other live thread belongs to that request.
OneApplyAtATime ==
    \A r, q \in Requests :
        Trusted(r) /\ (Trusted(q) \/ request[q].status = "APPLYING") => r = q

\* No policy is written while the environment is being torn down, and no request is
\* being applied: neither side is admitted while the other is under way.
TeardownWaitsForApply ==
    environment = "TEARDOWN" =>
        InStatus("APPLYING") = {} /\ \A r \in Requests : ~Trusted(r)

\* When baseline and a role that an apply wrote differ, an apply is under way or was
\* reported as failed: the drift a crash leaves behind is always visible.
DriftIsReported ==
    overtaken = {} /\ touched /\ role.exists /\ baseline.exists /\ baseline # role =>
        \E r \in Requests :
            /\ request[r].status \in {"APPLYING", "FAILED"}
            /\ request[r].claim # "none"

\* All of these: what the worker, its reaper and the teardown keep between them.
RequestsAreSound ==
    /\ PermTypeOK
    /\ OneApplyAtATime
    /\ TeardownWaitsForApply
    /\ DriftIsReported

\* A request only moves forward: "queue a draft once without moving an in-flight
\* request backward" (approve), and neither reaper nor late thread reopens it.
Rank(s) == CASE s = "ABSENT" -> 0 [] s = "DRAFT" -> 1 [] s = "APPROVED_PENDING_APPLY" -> 2
             [] s = "APPLYING" -> 3 [] OTHER -> 4

RequestsMoveForward ==
    [][\A r \in Requests : Rank(request[r].status) <= Rank(request'[r].status)]_permVars

\* An approved request is applied or failed, unless its environment leaves READY or
\* its app goes into removal, although workers keep dying.
ApprovedSettles ==
    \A r \in Requests :
        request[r].status \in {"APPROVED_PENDING_APPLY", "APPLYING"} ~>
            \/ request[r].status \in {"APPLIED", "FAILED"}
            \/ environment # "READY"
            \/ job = "REMOVAL"

\* The claim of approve's docstring that "the baseline always reflects what's in
\* AWS", when no apply is under way.  A worker that dies between the two writes
\* breaks it.
BaselineReflectsAws ==
    role.exists /\ baseline.exists /\ InStatus("APPLYING") = {} => baseline = role

\* The claim of the design that "the reviewed artifact must equal the applied
\* artifact".  An editor that loaded the draft before the approval saves after it.
AppliedIsApproved ==
    \A r \in Requests : thread[r].stage \in {"written", "advanced"} =>
        thread[r].statements = approved[r]
=============================================================================
