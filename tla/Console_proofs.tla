--------------------------- MODULE Console_proofs ---------------------------
(***************************************************************************)
(* Theorems about the security pages of the control plane: requests for    *)
(* AWS permissions, first logins and invitations, the policy proxy and the *)
(* access policies, each for any values of its constants.                  *)
(***************************************************************************)
EXTENDS PermissionRequests, PolicyProxy, Memberships, AccessPolicies,
        FiniteSetTheorems, WellFoundedInduction, TLAPS

(* Requests for permissions.                                               *)

ThreadRecord == [stage : ThreadStage, statements : Policies]
EditRecord == [stage : {"idle", "creating", "saving"}, target : 0 .. MaxRequests,
               statements : Policies]

\* The types, row by row.
Typed ==
    /\ request \in [Requests -> RequestRow]
    /\ \A r \in Requests : request[r].status = "ABSENT" => request[r] = NoRequest
    /\ baseline \in Stored
    /\ role \in Stored
    /\ thread \in [Requests -> ThreadRecord]
    /\ editor \in [Editor -> EditRecord]
    /\ environment \in {"READY", "TEARDOWN", "ERROR"}
    /\ job \in {"IDLE", "REMOVAL", "REMOVAL_FAILED"}
    /\ approved \in [Requests -> Policies]
    /\ overtaken \subseteq Requests
    /\ touched \in BOOLEAN

\* An edit that will be saved is one of a row that exists.
EditsHaveRows ==
    \A e \in Editor : editor[e].stage = "saving" =>
        editor[e].target \in Requests /\ request[editor[e].target].status # "ABSENT"

\* A thread belongs to the request that is being applied, or to one whose outcome the
\* reaper has written meanwhile.
ThreadsHaveRequests ==
    \A r \in Requests :
        /\ Trusted(r) => request[r].status = "APPLYING" /\ request[r].claim = "live"
        /\ thread[r].stage # "none" => request[r].status \in {"APPLYING", "FAILED", "APPLIED"}
        /\ r \in overtaken => request[r].status \in {"FAILED", "APPLIED"}

OneIsApplying ==
    /\ \A r, q \in Requests :
          request[r].status = "APPLYING" /\ request[q].status = "APPLYING" => r = q
    /\ \A r \in Requests : request[r].status = "APPLYING" => request[r].claim # "none"

NothingInTeardown == environment = "TEARDOWN" => \A r \in Requests : request[r].status # "APPLYING"

\* Until there is a baseline nobody has anything to apply.
BaselineComesFirst ==
    ~baseline.exists =>
        /\ ~touched
        /\ \A r \in Requests : request[r].status = "ABSENT"
        /\ \A e \in Editor : editor[e].stage = "idle"

\* The role was written by an apply and nobody has given up on one.
Written == overtaken = {} /\ touched /\ role.exists

\* An apply under way, or one that was reported as failed.
Reported(r) == request[r].status \in {"APPLYING", "FAILED"} /\ request[r].claim # "none"

\* What the thread has written so far: the role, then the baseline.
WritesInOrder ==
    Written =>
        /\ \A r \in Requests :
              /\ thread[r].stage = "written" => role = Holding(thread[r].statements)
              /\ thread[r].stage = "advanced" => role = baseline
        /\ role = baseline \/ \E r \in Requests : Reported(r)

PermIInv == /\ Typed /\ EditsHaveRows /\ ThreadsHaveRequests /\ OneIsApplying
            /\ NothingInTeardown /\ BaselineComesFirst /\ WritesInOrder

\* Every set of numbers has a least one.
LEMMA LessIsWellFounded == IsWellFoundedOn({ss \in Nat \X Nat : ss[1] < ss[2]}, Nat)
BY NatLessThanWellFounded DEF OpToRel

\* The claim takes a request that is there: a set of requests has a newest one
\* (first() in _claim_pending_permissions_apply).
LEMMA NewestIsThere == ASSUME NEW S \in SUBSET Requests, S # {}
     PROVE Newest(S) \in S
<1> DEFINE R == {ss \in Nat \X Nat : ss[1] < ss[2]}
           T == {m \in Nat : \A q \in S : q <= m}
<1>1. MaxRequests \in T
  BY PermAssumption DEF Requests
<1>2. PICK m \in T : \A y \in T : ~(<<y, m>> \in R)
  <2>1. T \subseteq Nat /\ T # {}
    BY <1>1
  <2> HIDE DEF T, R
  <2>2. IsWellFoundedOn(R, Nat) BY LessIsWellFounded DEF R
  <2>3. QED  BY <2>1, <2>2, WFMin
<1>3. ASSUME NEW y \in Nat, \A q \in S : q <= y PROVE m <= y
  <2>1. y \in T /\ m \in Nat
    BY <1>3
  <2>2. ~(<<y, m>> \in R)
    BY <1>2, <2>1
  <2>3. y < m => <<y, m>> \in R
    BY <2>1
  <2>4. QED  BY <2>1, <2>2, <2>3
<1>4. m \in S
  <2>1. SUFFICES ASSUME m \notin S PROVE FALSE
    OBVIOUS
  <2>2. PICK s \in S : TRUE
    OBVIOUS
  <2>3. \A q \in S : q \in Nat /\ q <= m - 1 /\ q >= 1
    BY <1>2, <2>1, PermAssumption DEF Requests
  <2>4. m - 1 \in Nat
    BY <2>2, <2>3, <1>2
  <2>5. QED  BY <1>2, <1>3, <2>3, <2>4
<1>5. \A q \in S : q <= m
  BY <1>2
<1> QED BY <1>4, <1>5 DEF Newest

\* SeedBaseline keeps the invariant.
LEMMA SeedBaselineKeeps ==
    ASSUME PermIInv, SeedBaseline
    PROVE  PermIInv'
<1> USE PermAssumption DEF PermIInv, Typed
<1>1. Typed'
  <2>1. baseline' \in Stored
    BY DEF SeedBaseline, SeedFromAws, Holding, Absent, Stored, Policies
  <2>2. QED  BY <2>1 DEF SeedBaseline
<1>2. EditsHaveRows'
  BY DEF SeedBaseline, EditsHaveRows
<1>3. ThreadsHaveRequests'
  BY DEF SeedBaseline, ThreadsHaveRequests, Trusted
<1>4. OneIsApplying'
  BY DEF SeedBaseline, OneIsApplying
<1>5. NothingInTeardown'
  BY DEF SeedBaseline, NothingInTeardown
<1>6. BaselineComesFirst'
  BY DEF SeedBaseline, BaselineComesFirst
<1>7. WritesInOrder'
  BY DEF SeedBaseline, WritesInOrder, Written, Reported
<1> QED  BY <1>1, <1>2, <1>3, <1>4, <1>5, <1>6, <1>7

\* FindNoDraft keeps the invariant.
LEMMA FindNoDraftKeeps ==
    ASSUME PermIInv, NEW e \in Editor, FindNoDraft(e)
    PROVE  PermIInv'
<1> USE PermAssumption DEF PermIInv, Typed
<1>1. Typed'
  BY DEF FindNoDraft, EditRecord, Stored, Holding, Absent
<1>2. EditsHaveRows'
  BY DEF FindNoDraft, EditsHaveRows
<1>3. ThreadsHaveRequests'
  BY DEF FindNoDraft, ThreadsHaveRequests, Trusted
<1>4. OneIsApplying'
  BY DEF FindNoDraft, OneIsApplying
<1>5. NothingInTeardown'
  BY DEF FindNoDraft, NothingInTeardown
<1>6. BaselineComesFirst'
  BY DEF FindNoDraft, BaselineComesFirst
<1>7. WritesInOrder'
  BY DEF FindNoDraft, WritesInOrder, Written, Reported
<1> QED  BY <1>1, <1>2, <1>3, <1>4, <1>5, <1>6, <1>7

\* CreateDraft keeps the invariant.
LEMMA CreateDraftKeeps ==
    ASSUME PermIInv, NEW e \in Editor, CreateDraft(e)
    PROVE  PermIInv'
<1> USE PermAssumption DEF PermIInv, Typed
<1>1. Typed'
  <2>1. PICK r \in Requests : request' = [request EXCEPT ![r].status = "DRAFT",
                                                     ![r].statements = editor[e].statements]
    BY DEF CreateDraft, InStatus
  <2>2. /\ request'[r].status = "DRAFT" /\ request'[r].statements \in Policies
        /\ request'[r] \in RequestRow
        /\ \A q \in Requests : q # r => request'[q] = request[q]
    BY <2>1 DEF RequestRow, Status, EditRecord
  <2>3. request' \in [Requests -> RequestRow]
    BY <2>1, <2>2
  <2>4. NoEdit \in EditRecord
    BY DEF NoEdit, EditRecord, Policies
  <2>5. editor' \in [Editor -> EditRecord]
    BY <2>4 DEF CreateDraft
  <2>6. QED  BY <2>2, <2>3, <2>5 DEF CreateDraft
<1>2. EditsHaveRows'
  BY DEF CreateDraft, NoEdit, InStatus, RequestRow, Status, EditRecord, NoRequest, EditsHaveRows
<1>3. ThreadsHaveRequests'
  BY DEF CreateDraft, InStatus, ThreadsHaveRequests, Trusted
<1>4. OneIsApplying'
  BY DEF CreateDraft, OneIsApplying
<1>5. NothingInTeardown'
  BY DEF CreateDraft, NothingInTeardown
<1>6. BaselineComesFirst'
  BY DEF CreateDraft, BaselineComesFirst
<1>7. WritesInOrder'
  BY DEF CreateDraft, InStatus, WritesInOrder, Written, Reported
<1> QED  BY <1>1, <1>2, <1>3, <1>4, <1>5, <1>6, <1>7

\* LoadForEdit keeps the invariant.
LEMMA LoadForEditKeeps ==
    ASSUME PermIInv, NEW e \in Editor, LoadForEdit(e)
    PROVE  PermIInv'
<1> USE PermAssumption DEF PermIInv, Typed
<1>1. Typed'
  <2>0. PICK r \in Requests : \E s \in EditsOf(r) :
              editor' = [editor EXCEPT ![e] = [stage |-> "saving", target |-> r, statements |-> s]]
    BY DEF LoadForEdit, EditableRows, InStatus
  <2>1. PICK s \in EditsOf(r) :
              editor' = [editor EXCEPT ![e] = [stage |-> "saving", target |-> r, statements |-> s]]
    BY <2>0
  <2>2. request[r].statements \in Policies /\ baseline.statements \in Policies
    BY DEF RequestRow, Stored, Holding, Absent, Policies
  <2>3. s \in Policies
    BY <2>1, <2>2 DEF EditsOf, Policies
  <2>4. [stage |-> "saving", target |-> r, statements |-> s] \in EditRecord
    BY <2>3 DEF EditRecord, Requests
  <2>5. editor' \in [Editor -> EditRecord]
    BY <2>1, <2>4
  <2>6. QED  BY <2>5 DEF LoadForEdit
<1>2. EditsHaveRows'
  BY DEF LoadForEdit, EditableRows, InStatus, EditsHaveRows
<1>3. ThreadsHaveRequests'
  BY DEF LoadForEdit, ThreadsHaveRequests, Trusted
<1>4. OneIsApplying'
  BY DEF LoadForEdit, OneIsApplying
<1>5. NothingInTeardown'
  BY DEF LoadForEdit, NothingInTeardown
<1>6. BaselineComesFirst'
  BY DEF LoadForEdit, EditableRows, InStatus, BaselineComesFirst
<1>7. WritesInOrder'
  BY DEF LoadForEdit, WritesInOrder, Written, Reported
<1> QED  BY <1>1, <1>2, <1>3, <1>4, <1>5, <1>6, <1>7

\* SaveEdit keeps the invariant.
LEMMA SaveEditKeeps ==
    ASSUME PermIInv, NEW e \in Editor, SaveEdit(e)
    PROVE  PermIInv'
<1> USE PermAssumption DEF PermIInv, Typed
<1>1. Typed'
  <2>1. editor[e].target \in Requests /\ request[editor[e].target].status # "ABSENT"
        /\ editor[e].statements \in Policies
    BY DEF SaveEdit, EditsHaveRows, EditRecord
  <2>2. PICK r \in Requests : /\ r = editor[e].target /\ request[r].status # "ABSENT"
                             /\ request' = [request EXCEPT ![r].statements = editor[e].statements]
    BY <2>1 DEF SaveEdit
  <2>3. /\ request'[r].status = request[r].status /\ request'[r] \in RequestRow
        /\ \A q \in Requests : q # r => request'[q] = request[q]
    BY <2>1, <2>2 DEF RequestRow
  <2>4. request' \in [Requests -> RequestRow]
    BY <2>2, <2>3
  <2>5. NoEdit \in EditRecord
    BY DEF NoEdit, EditRecord, Policies
  <2>6. editor' \in [Editor -> EditRecord]
    BY <2>5 DEF SaveEdit
  <2>7. QED  BY <2>2, <2>3, <2>4, <2>6 DEF SaveEdit
<1>2. EditsHaveRows'
  BY DEF SaveEdit, NoEdit, EditsHaveRows
<1>3. ThreadsHaveRequests'
  BY DEF SaveEdit, ThreadsHaveRequests, Trusted
<1>4. OneIsApplying'
  BY DEF SaveEdit, OneIsApplying
<1>5. NothingInTeardown'
  BY DEF SaveEdit, NothingInTeardown
<1>6. BaselineComesFirst'
  BY DEF SaveEdit, BaselineComesFirst
<1>7. WritesInOrder'
  BY DEF SaveEdit, WritesInOrder, Written, Reported
<1> QED  BY <1>1, <1>2, <1>3, <1>4, <1>5, <1>6, <1>7

\* Approve keeps the invariant.
LEMMA ApproveKeeps ==
    ASSUME PermIInv, NEW r \in Requests, Approve(r)
    PROVE  PermIInv'
<1> USE PermAssumption DEF PermIInv, Typed
<1>1. Typed'
  BY DEF Approve, Approvable, InStatus, RequestRow, Status
<1>2. EditsHaveRows'
  BY DEF Approve, EditsHaveRows
<1>3. ThreadsHaveRequests'
  BY DEF Approve, Approvable, InStatus, ThreadsHaveRequests, Trusted
<1>4. OneIsApplying'
  BY DEF Approve, OneIsApplying
<1>5. NothingInTeardown'
  BY DEF Approve, NothingInTeardown
<1>6. BaselineComesFirst'
  BY DEF Approve, Approvable, InStatus, BaselineComesFirst
<1>7. WritesInOrder'
  BY DEF Approve, Approvable, InStatus, WritesInOrder, Written, Reported
<1> QED  BY <1>1, <1>2, <1>3, <1>4, <1>5, <1>6, <1>7

\* ClaimApply keeps the invariant.
LEMMA ClaimApplyKeeps ==
    ASSUME PermIInv, ClaimApply
    PROVE  PermIInv'
<1> USE PermAssumption DEF PermIInv, Typed
<1>0. PICK r \in Requests :
          /\ request[r].status = "APPROVED_PENDING_APPLY"
          /\ request' = [request EXCEPT ![r].status = "APPLYING", ![r].claim = "live"]
          /\ thread' = [thread EXCEPT ![r].stage = "spawned"]
  <2> DEFINE S == InStatus("APPROVED_PENDING_APPLY")
  <2>1. S \in SUBSET Requests /\ S # {}
    BY DEF ClaimApply, InStatus
  <2>2. Newest(S) \in S
    BY <2>1, NewestIsThere
  <2>3. request[Newest(S)].status = "APPROVED_PENDING_APPLY"
    BY <2>2 DEF InStatus
  <2>4. QED  BY <2>1, <2>2, <2>3 DEF ClaimApply
<1>1. /\ UNCHANGED <<baseline, role, editor, environment, job, approved, overtaken, touched>>
      /\ environment = "READY" /\ \A q \in Requests : request[q].status # "APPLYING"
  BY DEF ClaimApply, AppFree, InStatus
<1>2. /\ request'[r].status = "APPLYING" /\ request'[r].claim = "live"
      /\ request'[r] \in RequestRow
      /\ \A q \in Requests : q # r => request'[q] = request[q]
  BY <1>0 DEF RequestRow, Status
<1>3. /\ thread'[r].stage = "spawned" /\ thread'[r] \in ThreadRecord
      /\ \A q \in Requests : q # r => thread'[q] = thread[q]
  BY <1>0 DEF ThreadRecord, ThreadStage
<1>4. request' \in [Requests -> RequestRow] /\ thread' \in [Requests -> ThreadRecord]
  BY <1>0, <1>2, <1>3
<1>5. Typed'
  BY <1>1, <1>2, <1>4
<1>6. EditsHaveRows' /\ BaselineComesFirst'
  BY <1>0, <1>1, <1>2 DEF EditsHaveRows, BaselineComesFirst
<1>7. ThreadsHaveRequests'
  BY <1>0, <1>1, <1>2, <1>3 DEF ThreadsHaveRequests, Trusted
<1>8. OneIsApplying' /\ NothingInTeardown'
  BY <1>1, <1>2 DEF OneIsApplying, NothingInTeardown
<1>9. WritesInOrder'
  BY <1>0, <1>1, <1>2, <1>3 DEF WritesInOrder, Written, Reported
<1> QED  BY <1>5, <1>6, <1>7, <1>8, <1>9

\* ApplyLoads keeps the invariant.
LEMMA ApplyLoadsKeeps ==
    ASSUME PermIInv, NEW r \in Requests, ApplyLoads(r)
    PROVE  PermIInv'
<1> USE PermAssumption DEF PermIInv, Typed
<1>1. Typed'
  BY DEF ApplyLoads, RequestRow, ThreadStage, ThreadRecord
<1>2. EditsHaveRows'
  BY DEF ApplyLoads, EditsHaveRows
<1>3. ThreadsHaveRequests'
  BY DEF ApplyLoads, ThreadsHaveRequests, Trusted
<1>4. OneIsApplying'
  BY DEF ApplyLoads, OneIsApplying
<1>5. NothingInTeardown'
  BY DEF ApplyLoads, NothingInTeardown
<1>6. BaselineComesFirst'
  BY DEF ApplyLoads, BaselineComesFirst
<1>7. WritesInOrder'
  BY DEF ApplyLoads, WritesInOrder, Written, Reported
<1> QED  BY <1>1, <1>2, <1>3, <1>4, <1>5, <1>6, <1>7

\* ApplyWrites keeps the invariant.
LEMMA ApplyWritesKeeps ==
    ASSUME PermIInv, NEW r \in Requests, ApplyWrites(r)
    PROVE  PermIInv'
<1> USE PermAssumption DEF PermIInv, Typed
<1>1. Typed'
  BY DEF ApplyWrites, ThreadStage, ThreadRecord, Stored, Holding, Absent
<1>2. EditsHaveRows'
  BY DEF ApplyWrites, EditsHaveRows
<1>3. ThreadsHaveRequests'
  BY DEF ApplyWrites, ThreadsHaveRequests, Trusted
<1>4. OneIsApplying'
  BY DEF ApplyWrites, OneIsApplying
<1>5. NothingInTeardown'
  BY DEF ApplyWrites, NothingInTeardown
<1>6. BaselineComesFirst'
  BY DEF ApplyWrites, BaselineComesFirst, EditsHaveRows, ThreadsHaveRequests, Trusted
<1>7. WritesInOrder'
  BY DEF ApplyWrites, WritesInOrder, Written, Reported, ThreadsHaveRequests, Trusted,
         OneIsApplying, BaselineComesFirst
<1> QED  BY <1>1, <1>2, <1>3, <1>4, <1>5, <1>6, <1>7

\* ApplyFails keeps the invariant.
LEMMA ApplyFailsKeeps ==
    ASSUME PermIInv, NEW r \in Requests, ApplyFails(r)
    PROVE  PermIInv'
<1> USE PermAssumption DEF PermIInv, Typed
<1>1. Typed'
  <2>1. request' = [request EXCEPT ![r].status = "FAILED"]
        /\ thread' = [thread EXCEPT ![r] = NoThread]
    BY DEF ApplyFails
  <2>2. /\ request'[r].status = "FAILED" /\ request'[r] \in RequestRow
        /\ \A q \in Requests : q # r => request'[q] = request[q]
    BY <2>1 DEF RequestRow, Status
  <2>3. request' \in [Requests -> RequestRow]
    BY <2>1, <2>2
  <2>4. NoThread \in ThreadRecord
    BY DEF NoThread, ThreadRecord, ThreadStage, Policies
  <2>5. thread' \in [Requests -> ThreadRecord]
    BY <2>1, <2>4
  <2>6. QED  BY <2>2, <2>3, <2>5 DEF ApplyFails
<1>2. EditsHaveRows'
  BY DEF ApplyFails, EditsHaveRows
<1>3. ThreadsHaveRequests'
  BY DEF ApplyFails, NoThread, ThreadsHaveRequests, Trusted
<1>4. OneIsApplying'
  BY DEF ApplyFails, OneIsApplying
<1>5. NothingInTeardown'
  BY DEF ApplyFails, NothingInTeardown
<1>6. BaselineComesFirst'
  BY DEF ApplyFails, NoThread, BaselineComesFirst, EditsHaveRows, ThreadsHaveRequests, Trusted
<1>7. WritesInOrder'
  BY DEF ApplyFails, NoThread, WritesInOrder, Written, Reported
<1> QED  BY <1>1, <1>2, <1>3, <1>4, <1>5, <1>6, <1>7

\* ApplyAdvancesBaseline keeps the invariant.
LEMMA ApplyAdvancesBaselineKeeps ==
    ASSUME PermIInv, NEW r \in Requests, ApplyAdvancesBaseline(r)
    PROVE  PermIInv'
<1> USE PermAssumption DEF PermIInv, Typed
<1>1. Typed'
  BY DEF ApplyAdvancesBaseline, ThreadStage, ThreadRecord, Stored, Holding, Absent
<1>2. EditsHaveRows'
  BY DEF ApplyAdvancesBaseline, EditsHaveRows
<1>3. ThreadsHaveRequests'
  BY DEF ApplyAdvancesBaseline, ThreadsHaveRequests, Trusted
<1>4. OneIsApplying'
  BY DEF ApplyAdvancesBaseline, OneIsApplying
<1>5. NothingInTeardown'
  BY DEF ApplyAdvancesBaseline, NothingInTeardown
<1>6. BaselineComesFirst'
  BY DEF ApplyAdvancesBaseline, ThreadStage, ThreadRecord, Stored, Holding, Absent,
         BaselineComesFirst, EditsHaveRows, ThreadsHaveRequests, Trusted
<1>7. WritesInOrder'
  BY DEF ApplyAdvancesBaseline, WritesInOrder, Written, Reported
<1> QED  BY <1>1, <1>2, <1>3, <1>4, <1>5, <1>6, <1>7

\* ApplySettles keeps the invariant.
LEMMA ApplySettlesKeeps ==
    ASSUME PermIInv, NEW r \in Requests, ApplySettles(r)
    PROVE  PermIInv'
<1> USE PermAssumption DEF PermIInv, Typed
<1>1. Typed'
  <2>1. request' = [request EXCEPT ![r].status = "APPLIED"]
        /\ thread' = [thread EXCEPT ![r] = NoThread]
    BY DEF ApplySettles
  <2>2. /\ request'[r].status = "APPLIED" /\ request'[r] \in RequestRow
        /\ \A q \in Requests : q # r => request'[q] = request[q]
    BY <2>1 DEF RequestRow, Status
  <2>3. request' \in [Requests -> RequestRow]
    BY <2>1, <2>2
  <2>4. NoThread \in ThreadRecord
    BY DEF NoThread, ThreadRecord, ThreadStage, Policies
  <2>5. thread' \in [Requests -> ThreadRecord]
    BY <2>1, <2>4
  <2>6. QED  BY <2>2, <2>3, <2>5 DEF ApplySettles
<1>2. EditsHaveRows'
  BY DEF ApplySettles, EditsHaveRows
<1>3. ThreadsHaveRequests'
  BY DEF ApplySettles, NoThread, ThreadsHaveRequests, Trusted
<1>4. OneIsApplying'
  BY DEF ApplySettles, OneIsApplying
<1>5. NothingInTeardown'
  BY DEF ApplySettles, NothingInTeardown
<1>6. BaselineComesFirst'
  BY DEF ApplySettles, NoThread, BaselineComesFirst, EditsHaveRows, ThreadsHaveRequests, Trusted
<1>7. WritesInOrder'
  BY DEF ApplySettles, NoThread, WritesInOrder, Written, Reported
<1> QED  BY <1>1, <1>2, <1>3, <1>4, <1>5, <1>6, <1>7

\* ReapApply keeps the invariant.
LEMMA ReapApplyKeeps ==
    ASSUME PermIInv, NEW r \in Requests, ReapApply(r)
    PROVE  PermIInv'
<1> USE PermAssumption DEF PermIInv, Typed
<1>1. Typed'
  BY DEF ReapApply, InStatus, RequestRow, Status, ThreadStage, ThreadRecord
<1>2. EditsHaveRows'
  BY DEF ReapApply, EditsHaveRows
<1>3. ThreadsHaveRequests'
  BY DEF ReapApply, ThreadsHaveRequests, Trusted
<1>4. OneIsApplying'
  BY DEF ReapApply, OneIsApplying
<1>5. NothingInTeardown'
  BY DEF ReapApply, NothingInTeardown
<1>6. BaselineComesFirst'
  BY DEF ReapApply, InStatus, BaselineComesFirst
<1>7. WritesInOrder'
  BY DEF ReapApply, WritesInOrder, Written, Reported
<1> QED  BY <1>1, <1>2, <1>3, <1>4, <1>5, <1>6, <1>7

\* WorkerDies keeps the invariant.
LEMMA WorkerDiesKeeps ==
    ASSUME PermIInv, WorkerDies
    PROVE  PermIInv'
<1> USE PermAssumption DEF PermIInv, Typed
<1>1. Typed'
  <2>1. \A r \in Requests :
              /\ request'[r] \in RequestRow /\ request'[r].status = request[r].status
              /\ request[r].status = "ABSENT" => request'[r] = request[r]
    BY DEF WorkerDies, RequestRow, NoRequest
  <2>2. request' \in [Requests -> RequestRow]
    BY <2>1 DEF WorkerDies
  <2>3. NoThread \in ThreadRecord
    BY DEF NoThread, ThreadRecord, ThreadStage, Policies
  <2>4. thread' \in [Requests -> ThreadRecord]
    BY <2>3 DEF WorkerDies
  <2>5. QED  BY <2>1, <2>2, <2>4 DEF WorkerDies
<1>2. EditsHaveRows'
  BY DEF WorkerDies, EditsHaveRows
<1>3. ThreadsHaveRequests'
  BY DEF WorkerDies, NoThread, ThreadsHaveRequests, Trusted
<1>4. OneIsApplying'
  BY DEF WorkerDies, OneIsApplying
<1>5. NothingInTeardown'
  BY DEF WorkerDies, NothingInTeardown
<1>6. BaselineComesFirst'
  BY DEF WorkerDies, BaselineComesFirst
<1>7. WritesInOrder'
  BY DEF WorkerDies, NoThread, WritesInOrder, Written, Reported
<1> QED  BY <1>1, <1>2, <1>3, <1>4, <1>5, <1>6, <1>7

\* QueueTeardown keeps the invariant.
LEMMA QueueTeardownKeeps ==
    ASSUME PermIInv, QueueTeardown
    PROVE  PermIInv'
<1> USE PermAssumption DEF PermIInv, Typed
<1>1. Typed'
  BY DEF QueueTeardown, NothingApplied, InStatus
<1>2. EditsHaveRows'
  BY DEF QueueTeardown, EditsHaveRows
<1>3. ThreadsHaveRequests'
  BY DEF QueueTeardown, ThreadsHaveRequests, Trusted
<1>4. OneIsApplying'
  BY DEF QueueTeardown, OneIsApplying
<1>5. NothingInTeardown'
  BY DEF QueueTeardown, NothingApplied, InStatus, NothingInTeardown
<1>6. BaselineComesFirst'
  BY DEF QueueTeardown, BaselineComesFirst
<1>7. WritesInOrder'
  BY DEF QueueTeardown, WritesInOrder, Written, Reported
<1> QED  BY <1>1, <1>2, <1>3, <1>4, <1>5, <1>6, <1>7

\* TeardownFails keeps the invariant.
LEMMA TeardownFailsKeeps ==
    ASSUME PermIInv, TeardownFails
    PROVE  PermIInv'
<1> USE PermAssumption DEF PermIInv, Typed
<1>1. Typed'
  BY DEF TeardownFails, Stored, Absent, Holding
<1>2. EditsHaveRows'
  BY DEF TeardownFails, EditsHaveRows
<1>3. ThreadsHaveRequests'
  BY DEF TeardownFails, ThreadsHaveRequests, Trusted
<1>4. OneIsApplying'
  BY DEF TeardownFails, OneIsApplying
<1>5. NothingInTeardown'
  BY DEF TeardownFails, NothingInTeardown
<1>6. BaselineComesFirst'
  BY DEF TeardownFails, BaselineComesFirst
<1>7. WritesInOrder'
  BY DEF TeardownFails, Stored, Absent, Holding, WritesInOrder, Written, Reported,
         ThreadsHaveRequests, Trusted, OneIsApplying, BaselineComesFirst
<1> QED  BY <1>1, <1>2, <1>3, <1>4, <1>5, <1>6, <1>7

\* RetryEnvironment keeps the invariant.
LEMMA RetryEnvironmentKeeps ==
    ASSUME PermIInv, RetryEnvironment
    PROVE  PermIInv'
<1> USE PermAssumption DEF PermIInv, Typed
<1>1. Typed'
  BY DEF RetryEnvironment
<1>2. EditsHaveRows'
  BY DEF RetryEnvironment, EditsHaveRows
<1>3. ThreadsHaveRequests'
  BY DEF RetryEnvironment, ThreadsHaveRequests, Trusted
<1>4. OneIsApplying'
  BY DEF RetryEnvironment, OneIsApplying
<1>5. NothingInTeardown'
  BY DEF RetryEnvironment, NothingInTeardown
<1>6. BaselineComesFirst'
  BY DEF RetryEnvironment, BaselineComesFirst
<1>7. WritesInOrder'
  BY DEF RetryEnvironment, WritesInOrder, Written, Reported
<1> QED  BY <1>1, <1>2, <1>3, <1>4, <1>5, <1>6, <1>7

\* DeployCreatesRole keeps the invariant.
LEMMA DeployCreatesRoleKeeps ==
    ASSUME PermIInv, DeployCreatesRole
    PROVE  PermIInv'
<1> USE PermAssumption DEF PermIInv, Typed
<1>1. Typed'
  BY DEF DeployCreatesRole, Stored, Holding, Absent, Policies
<1>2. EditsHaveRows'
  BY DEF DeployCreatesRole, EditsHaveRows
<1>3. ThreadsHaveRequests'
  BY DEF DeployCreatesRole, ThreadsHaveRequests, Trusted
<1>4. OneIsApplying'
  BY DEF DeployCreatesRole, OneIsApplying
<1>5. NothingInTeardown'
  BY DEF DeployCreatesRole, NothingInTeardown
<1>6. BaselineComesFirst'
  BY DEF DeployCreatesRole, BaselineComesFirst
<1>7. WritesInOrder'
  BY DEF DeployCreatesRole, WritesInOrder, Written, Reported
<1> QED  BY <1>1, <1>2, <1>3, <1>4, <1>5, <1>6, <1>7

\* QueueRemoval keeps the invariant.
LEMMA QueueRemovalKeeps ==
    ASSUME PermIInv, QueueRemoval
    PROVE  PermIInv'
<1> USE PermAssumption DEF PermIInv, Typed
<1>1. Typed'
  BY DEF QueueRemoval
<1>2. EditsHaveRows'
  BY DEF QueueRemoval, EditsHaveRows
<1>3. ThreadsHaveRequests'
  BY DEF QueueRemoval, ThreadsHaveRequests, Trusted
<1>4. OneIsApplying'
  BY DEF QueueRemoval, OneIsApplying
<1>5. NothingInTeardown'
  BY DEF QueueRemoval, NothingInTeardown
<1>6. BaselineComesFirst'
  BY DEF QueueRemoval, BaselineComesFirst
<1>7. WritesInOrder'
  BY DEF QueueRemoval, WritesInOrder, Written, Reported
<1> QED  BY <1>1, <1>2, <1>3, <1>4, <1>5, <1>6, <1>7

\* RemovalFails keeps the invariant.
LEMMA RemovalFailsKeeps ==
    ASSUME PermIInv, RemovalFails
    PROVE  PermIInv'
<1> USE PermAssumption DEF PermIInv, Typed
<1>1. Typed'
  BY DEF RemovalFails, Stored, Absent, Holding
<1>2. EditsHaveRows'
  BY DEF RemovalFails, EditsHaveRows
<1>3. ThreadsHaveRequests'
  BY DEF RemovalFails, ThreadsHaveRequests, Trusted
<1>4. OneIsApplying'
  BY DEF RemovalFails, OneIsApplying
<1>5. NothingInTeardown'
  BY DEF RemovalFails, NothingInTeardown
<1>6. BaselineComesFirst'
  BY DEF RemovalFails, BaselineComesFirst
<1>7. WritesInOrder'
  BY DEF RemovalFails, Stored, Absent, Holding, WritesInOrder, Written, Reported,
         ThreadsHaveRequests, Trusted, OneIsApplying, BaselineComesFirst
<1> QED  BY <1>1, <1>2, <1>3, <1>4, <1>5, <1>6, <1>7

\* The invariant holds at first.
LEMMA PermStarts == PermInit => PermIInv
<1> SUFFICES ASSUME PermInit PROVE PermIInv
  OBVIOUS
<1>1. NoRequest \in RequestRow /\ NoThread \in ThreadRecord /\ NoEdit \in EditRecord
  BY PermAssumption DEF NoRequest, RequestRow, Status, NoThread, ThreadRecord, ThreadStage, NoEdit,
                        EditRecord, Policies
<1>2. Absent \in Stored /\ Holding({}) \in Stored
  BY DEF Stored, Policies
<1>3. Typed
  BY <1>1, <1>2 DEF PermInit, Typed, Policies
<1>4. EditsHaveRows /\ BaselineComesFirst
  BY DEF PermInit, EditsHaveRows, BaselineComesFirst, NoEdit, NoRequest
<1>5. ThreadsHaveRequests
  BY DEF PermInit, ThreadsHaveRequests, Trusted, NoThread
<1>6. OneIsApplying /\ NothingInTeardown
  BY DEF PermInit, OneIsApplying, NothingInTeardown, NoRequest
<1>7. WritesInOrder
  BY DEF PermInit, WritesInOrder, Written
<1> QED  BY <1>3, <1>4, <1>5, <1>6, <1>7 DEF PermIInv

\* One step per action.
LEMMA PermSteps == PermIInv /\ [PermNext]_permVars => PermIInv'
<1> SUFFICES ASSUME PermIInv, [PermNext]_permVars PROVE PermIInv'
  OBVIOUS
<1>1. CASE UNCHANGED permVars
  BY <1>1 DEF permVars, PermIInv, Typed, EditsHaveRows, ThreadsHaveRequests, Trusted, OneIsApplying,
              NothingInTeardown, BaselineComesFirst, WritesInOrder, Written, Reported
<1>2. ASSUME NEW e \in Editor, FindNoDraft(e) \/ CreateDraft(e) \/ LoadForEdit(e) \/ SaveEdit(e)
      PROVE  PermIInv'
  BY <1>2, FindNoDraftKeeps, CreateDraftKeeps, LoadForEditKeeps, SaveEditKeeps
<1>3. ASSUME NEW r \in Requests, Approve(r) \/ ApplyStep(r) \/ ReapApply(r)
      PROVE  PermIInv'
  BY <1>3, ApproveKeeps, ApplyLoadsKeeps, ApplyWritesKeeps, ApplyFailsKeeps,
     ApplyAdvancesBaselineKeeps, ApplySettlesKeeps, ReapApplyKeeps DEF ApplyStep
<1>4. CASE SeedBaseline \/ ClaimApply \/ WorkerDies
  BY <1>4, SeedBaselineKeeps, ClaimApplyKeeps, WorkerDiesKeeps
<1>5. CASE QueueTeardown \/ TeardownFails \/ RetryEnvironment
  BY <1>5, QueueTeardownKeeps, TeardownFailsKeeps, RetryEnvironmentKeeps
<1>6. CASE DeployCreatesRole \/ QueueRemoval \/ RemovalFails
  BY <1>6, DeployCreatesRoleKeeps, QueueRemovalKeeps, RemovalFailsKeeps
<1> QED  BY <1>1, <1>2, <1>3, <1>4, <1>5, <1>6 DEF PermNext

\* The invariant is what the worker, its reaper and the teardown keep between them.
LEMMA PermSuffices == PermIInv => RequestsAreSound
<1> SUFFICES ASSUME PermIInv PROVE RequestsAreSound
  OBVIOUS
<1>1. PermTypeOK
  BY DEF PermIInv, Typed, PermTypeOK, ThreadRecord, EditRecord
<1>2. OneApplyAtATime
  BY DEF PermIInv, ThreadsHaveRequests, OneIsApplying, OneApplyAtATime
<1>3. TeardownWaitsForApply
  BY DEF PermIInv, ThreadsHaveRequests, NothingInTeardown, TeardownWaitsForApply, InStatus
<1>4. DriftIsReported
  BY DEF PermIInv, WritesInOrder, Written, Reported, DriftIsReported
<1> QED  BY <1>1, <1>2, <1>3, <1>4 DEF RequestsAreSound

\* Whatever dies, is slow, is torn down or edited: two applies of an app run at once only
\* behind the back of a reaper, none runs during a teardown, and a drift between role and
\* baseline is visible in a request (RequestsAreSound), for any number of requests.
THEOREM SoundRequests == PermSpec => []RequestsAreSound
<1>1. PermSpec => []PermIInv
  BY PermStarts, PermSteps, PTL DEF PermSpec
<1> QED  BY <1>1, PermSuffices, PTL

\* The ranks of the statuses.
LEMMA Ranks ==
    /\ Rank("ABSENT") = 0 /\ Rank("DRAFT") = 1 /\ Rank("APPROVED_PENDING_APPLY") = 2
    /\ Rank("APPLYING") = 3 /\ Rank("APPLIED") = 4 /\ Rank("FAILED") = 4
BY DEF Rank

\* Only a step that writes a status moves a request.
LEMMA StatusMovesForward ==
    ASSUME Typed, NEW r \in Requests, NEW q \in Requests, NEW s \in Status,
           Rank(request[q].status) <= Rank(s),
           \/ request'[r].status = request[r].status
           \/ r = q /\ request'[r].status = s
    PROVE  Rank(request[r].status) <= Rank(request'[r].status)
<1>1. \A t \in Status : Rank(t) \in Nat
  BY Ranks DEF Status
<1>2. request[r].status \in Status /\ request[q].status \in Status
  BY DEF Typed, RequestRow
<1> QED  BY <1>1, <1>2

\* No step moves a request backward.
LEMMA RequestStepsForward ==
    ASSUME PermIInv, [PermNext]_permVars, NEW r \in Requests
    PROVE  Rank(request[r].status) <= Rank(request'[r].status)
<1> DEFINE Goal == Rank(request[r].status) <= Rank(request'[r].status)
<1>0. Typed
  BY DEF PermIInv
<1>1. request'[r].status = request[r].status => Goal
  <2>1. request[r].status \in Status
    BY <1>0 DEF Typed, RequestRow
  <2>2. \A t \in Status : Rank(t) \in Nat
    BY Ranks DEF Status
  <2>3. QED  BY <2>1, <2>2
<1>2. ASSUME NEW e \in Editor, CreateDraft(e) PROVE Goal
  <2>1. PICK q \in Requests : /\ request[q].status = "ABSENT"
                              /\ request' = [request EXCEPT ![q].status = "DRAFT",
                                                ![q].statements = editor[e].statements]
    BY <1>2 DEF CreateDraft, InStatus
  <2>2. request'[r].status = request[r].status \/ (r = q /\ request'[r].status = "DRAFT")
    BY <1>0, <2>1 DEF Typed, RequestRow
  <2>3. "DRAFT" \in Status /\ Rank(request[q].status) <= Rank("DRAFT")
    BY <2>1, Ranks DEF Status
  <2>4. QED  BY <1>0, <2>2, <2>3, StatusMovesForward
<1>3. ASSUME NEW e \in Editor, FindNoDraft(e) \/ LoadForEdit(e) \/ SaveEdit(e) PROVE Goal
  <2>1. request'[r].status = request[r].status
    BY <1>0, <1>3 DEF Typed, RequestRow, FindNoDraft, LoadForEdit, SaveEdit
  <2>2. QED  BY <2>1, <1>1
<1>4. ASSUME NEW q \in Requests, Approve(q) PROVE Goal
  <2>1. request[q].status = "DRAFT"
        /\ (request'[r].status = request[r].status
            \/ (r = q /\ request'[r].status = "APPROVED_PENDING_APPLY"))
    BY <1>0, <1>4 DEF Approve, Approvable, InStatus, Typed, RequestRow
  <2>2. QED  BY <1>0, <2>1, Ranks, StatusMovesForward DEF Status
<1>5. CASE ClaimApply
  <2> DEFINE S == InStatus("APPROVED_PENDING_APPLY")
             q == Newest(S)
  <2>1. q \in S
    BY <1>5, NewestIsThere DEF ClaimApply, InStatus
  <2>2. q \in Requests /\ request[q].status = "APPROVED_PENDING_APPLY"
    BY <2>1 DEF InStatus
  <2>3. request' = [request EXCEPT ![q].status = "APPLYING", ![q].claim = "live"]
    BY <1>5 DEF ClaimApply
  <2> HIDE DEF q
  <2>4. request'[r].status = request[r].status \/ (r = q /\ request'[r].status = "APPLYING")
    BY <1>0, <2>2, <2>3 DEF Typed, RequestRow
  <2>5. QED  BY <1>0, <2>2, <2>4, Ranks, StatusMovesForward DEF Status
<1>6. ASSUME NEW q \in Requests, ApplyFails(q) \/ ApplySettles(q) \/ ReapApply(q) PROVE Goal
  <2>1. request[q].status \in {"APPLYING", "FAILED", "APPLIED"}
    BY <1>6 DEF PermIInv, ThreadsHaveRequests, ApplyFails, ApplySettles, ReapApply, InStatus
  <2>2. PICK s \in {"FAILED", "APPLIED"} : request' = [request EXCEPT ![q].status = s]
    BY <1>6 DEF ApplyFails, ApplySettles, ReapApply
  <2>3. request'[r].status = request[r].status \/ (r = q /\ request'[r].status = s)
    BY <1>0, <2>2 DEF Typed, RequestRow
  <2>4. s \in Status /\ Rank(request[q].status) <= Rank(s)
    BY <2>1, <2>2, Ranks DEF Status
  <2>5. QED  BY <1>0, <2>3, <2>4, StatusMovesForward
<1>7. ASSUME NEW q \in Requests, ApplyLoads(q) \/ ApplyWrites(q) \/ ApplyAdvancesBaseline(q)
      PROVE  Goal
  <2>1. request' = request
    BY <1>7 DEF ApplyLoads, ApplyWrites, ApplyAdvancesBaseline
  <2>2. QED  BY <2>1, <1>1
<1>8. CASE WorkerDies
  <2>1. request'[r].status = request[r].status
    BY <1>0, <1>8 DEF WorkerDies, Typed, RequestRow
  <2>2. QED  BY <2>1, <1>1
<1>9. CASE SeedBaseline \/ QueueTeardown \/ TeardownFails \/ RetryEnvironment \/ DeployCreatesRole
           \/ QueueRemoval \/ RemovalFails
  <2>1. request' = request
    BY <1>9 DEF SeedBaseline, QueueTeardown, TeardownFails, RetryEnvironment, DeployCreatesRole,
                QueueRemoval, RemovalFails
  <2>2. QED  BY <2>1, <1>1
<1>10. CASE PermNext
  <2>1. ASSUME NEW e \in Editor, FindNoDraft(e) \/ CreateDraft(e) \/ LoadForEdit(e) \/ SaveEdit(e)
        PROVE  Goal
    BY <2>1, <1>2, <1>3
  <2>2. ASSUME NEW q \in Requests, Approve(q) \/ ApplyStep(q) \/ ReapApply(q)
        PROVE  Goal
    BY <2>2, <1>4, <1>6, <1>7 DEF ApplyStep
  <2>3. QED  BY <1>5, <1>8, <1>9, <1>10, <2>1, <2>2 DEF PermNext
<1>11. CASE UNCHANGED permVars
  BY <1>1, <1>11 DEF permVars
<1> QED  BY <1>10, <1>11

\* A request only moves forward, from draft to outcome (RequestsMoveForward): no edit, late
\* thread, reaper or dying worker reopens one.
THEOREM ForwardOnly == PermSpec => RequestsMoveForward
<1>1. PermIInv /\ [PermNext]_permVars
      => [\A r \in Requests : Rank(request[r].status) <= Rank(request'[r].status)]_permVars
  BY RequestStepsForward
<1>2. PermSpec => []PermIInv
  BY PermStarts, PermSteps, PTL DEF PermSpec
<1> QED  BY <1>1, <1>2, PTL DEF PermSpec, RequestsMoveForward

-----------------------------------------------------------------------------
(* The policy proxy.                                                       *)

VisitRecord == [stage : {"idle", "public", "identity", "done"},
                host : Webapp \cup {Agent}, user : User \cup {Nobody}, age : 0 .. Flight,
                answer : Decision \cup {"none"}, outcome : Outcome, lag : Ages]

Cached == {w \in Webapp : public[w] # NoEntry}

\* The types, with the finitely many entries of the bounded cache.
ProxyTyped ==
    /\ granted \subseteq Webapp
    /\ allowed \subseteq User
    /\ public \in [Webapp -> Entries]
    /\ decisions \in [User -> Entries]
    /\ visit \in [Visit -> VisitRecord]
    /\ closed \in [Webapp -> Ages]
    /\ barred \in [User -> Ages]

CacheIsSmall == IsFiniteSet(Cached) /\ Cardinality(Cached) <= MaxEntries

\* Access that holds now was taken away no time ago.
GrantsAreFresh ==
    /\ \A w \in granted : closed[w] = 0
    /\ \A u \in allowed : barred[u] = 0

\* A cached allow has no more of its TTL left than the access it grants has been gone.
CachedIsYoung ==
    /\ \A w \in Webapp :
          public[w].decision = "allow" /\ public[w].left > 0 =>
              closed[w] + public[w].left <= PublicTTL + Flight
    /\ \A u \in User :
          decisions[u].decision = "allow" /\ decisions[u].left > 0 =>
              barred[u] + decisions[u].left <= PdpTTL + Flight

\* Nor is an answer on its way older than the loss of the access it grants.
FlightIsYoung(v) ==
    /\ v.stage = "public" => v.host \in Webapp /\ (v.answer = "allow" => closed[v.host] <= v.age)
    /\ v.stage = "identity" => v.user \in User /\ (v.answer = "allow" => barred[v.user] <= v.age)
    /\ v.answer = "none" => v.age = 0

\* What may be let in, by how long ago it was still allowed.
AnonymousLag(lag) == lag < PublicTTL + Flight \/ (PublicTTL = 0 /\ lag <= Flight)
IdentityLag(lag) == lag < PdpTTL + Flight \/ (PdpTTL = 0 /\ lag <= Flight)
LagIsBounded(v) ==
    /\ v.outcome = "anonymous" => AnonymousLag(v.lag)
    /\ v.outcome = "identity" => IdentityLag(v.lag)

\* All that the invariant says of one visit.
VisitIsSane(v) == v \in VisitRecord /\ FlightIsYoung(v) /\ LagIsBounded(v)

ProxyIInv == /\ ProxyTyped /\ CacheIsSmall /\ GrantsAreFresh /\ CachedIsYoung
             /\ \A r \in Visit : VisitIsSane(visit[r])

\* A visit that ends with an outcome it may have.
LEMMA EndingIsSane ==
    ASSUME NEW v \in VisitRecord, NEW o \in Outcome, NEW lag \in Ages,
           o = "anonymous" => AnonymousLag(lag), o = "identity" => IdentityLag(lag)
    PROVE  VisitIsSane(Ending(v, o, lag))
<1> DEFINE e == Ending(v, o, lag)
<1>1. e.stage = "done" /\ e.answer = "none" /\ e.age = 0 /\ e.outcome = o /\ e.lag = lag
  BY DEF Ending, VisitRecord
<1>2. e \in VisitRecord
  <2>1. 0 \in 0 .. Flight
    BY ProxyAssumption
  <2>2. QED  BY ONLY <2>1, v \in VisitRecord, o \in Outcome, lag \in Ages DEF Ending, VisitRecord
<1>3. FlightIsYoung(e)
  BY <1>1 DEF FlightIsYoung
<1>4. LagIsBounded(e)
  BY <1>1 DEF LagIsBounded
<1> QED  BY <1>2, <1>3, <1>4 DEF VisitIsSane

\* A visit that asks the control plane.
LEMMA AskingIsSane ==
    ASSUME NEW v \in VisitRecord, LagIsBounded(v), NEW stage,
           \/ stage = "public" /\ v.host \in Webapp
           \/ stage = "identity" /\ v.user \in User
    PROVE  VisitIsSane(Asking(v, stage))
<1> DEFINE e == Asking(v, stage)
<1>1. /\ e.stage = stage /\ e.host = v.host /\ e.user = v.user
      /\ e.answer = "none" /\ e.age = 0 /\ e.outcome = v.outcome /\ e.lag = v.lag
  BY DEF Asking, VisitRecord
<1>2. e \in VisitRecord
  <2>1. 0 \in 0 .. Flight
    BY ProxyAssumption
  <2>2. QED  BY ONLY <2>1, v \in VisitRecord, stage \in {"public", "identity"}
            DEF Asking, VisitRecord
<1>3. FlightIsYoung(e)
  BY <1>1 DEF FlightIsYoung
<1>4. LagIsBounded(e)
  BY <1>1 DEF LagIsBounded
<1> QED  BY <1>2, <1>3, <1>4 DEF VisitIsSane

\* A visit of a user about whom the control plane, or its cached answer, has decided.
LEMMA IdentityIsSane ==
    ASSUME ProxyTyped, NEW v \in VisitRecord, v.user \in User, NEW d,
           d = "allow" => IdentityLag(barred[v.user])
    PROVE  VisitIsSane(IdentityDecided(v, d))
<1>1. CASE d = "allow"
  <2>1. IdentityDecided(v, d) = Ending(v, "identity", barred[v.user])
    BY <1>1 DEF IdentityDecided
  <2>2. barred[v.user] \in Ages
    BY DEF ProxyTyped
  <2>3. QED  BY <1>1, <2>1, <2>2, EndingIsSane DEF Outcome
<1>2. CASE d # "allow"
  <2>1. IdentityDecided(v, d) = Ending(v, "forbidden", 0)
    BY <1>2 DEF IdentityDecided
  <2>2. 0 \in Ages
    BY ProxyAssumption DEF Ages
  <2>3. QED  BY <2>1, <2>2, EndingIsSane DEF Outcome
<1> QED  BY <1>1, <1>2

\* A visit that is left to its session.
LEMMA SessionIsSane ==
    ASSUME ProxyTyped, CachedIsYoung, NEW v \in VisitRecord, LagIsBounded(v)
    PROVE  VisitIsSane(Session(v))
<1>1. CASE v.user = Nobody
  <2>1. Session(v) = Ending(v, "sign_in", 0)
    BY <1>1 DEF Session
  <2>2. 0 \in Ages
    BY ProxyAssumption DEF Ages
  <2>3. QED  BY <2>1, <2>2, EndingIsSane DEF Outcome
<1>2. CASE v.user # Nobody
  <2> DEFINE u == v.user
  <2>1. u \in User
    BY <1>2 DEF VisitRecord
  <2>2. CASE Hit(decisions[u])
    <3>1. Session(v) = IdentityDecided(v, decisions[u].decision)
      BY <1>2, <2>2 DEF Session
    <3>2. decisions[u] \in Entries /\ decisions[u].left > 0 /\ barred[u] \in Ages
      BY <2>1, <2>2 DEF Hit, ProxyTyped
    <3>3. decisions[u].left \in Nat /\ barred[u] \in Nat
      BY <3>2, ProxyAssumption DEF Entries, NoEntry, TTLs, Ages
    <3>4. decisions[u].decision = "allow" => barred[u] + decisions[u].left <= PdpTTL + Flight
      BY <2>1, <3>2 DEF CachedIsYoung
    <3>5. decisions[u].decision = "allow" => IdentityLag(barred[u])
      BY <3>2, <3>3, <3>4, ProxyAssumption DEF IdentityLag
    <3>6. QED  BY <2>1, <3>1, <3>5, IdentityIsSane
  <2>3. CASE ~Hit(decisions[u])
    <3>1. Session(v) = Asking(v, "identity")
      BY <1>2, <2>3 DEF Session
    <3>2. QED  BY <2>1, <3>1, AskingIsSane
  <2>4. QED  BY <2>2, <2>3
<1> QED  BY <1>1, <1>2

\* A visit after the public check.
LEMMA PublicIsSane ==
    ASSUME ProxyTyped, CachedIsYoung, NEW v \in VisitRecord, LagIsBounded(v), v.host \in Webapp,
           NEW d, d = "allow" => AnonymousLag(closed[v.host])
    PROVE  VisitIsSane(PublicDecided(v, d))
<1>1. CASE d = "allow"
  <2>1. PublicDecided(v, d) = Ending(v, "anonymous", closed[v.host])
    BY <1>1 DEF PublicDecided
  <2>2. closed[v.host] \in Ages
    BY DEF ProxyTyped
  <2>3. QED  BY <1>1, <2>1, <2>2, EndingIsSane DEF Outcome
<1>2. CASE d # "allow"
  <2>1. PublicDecided(v, d) = Session(v)
    BY <1>2 DEF PublicDecided
  <2>2. QED  BY <2>1, SessionIsSane
<1> QED  BY <1>1, <1>2

\* The visit that idles.
LEMMA NoVisitIsSane == VisitIsSane(NoVisit)
<1>1. NoVisit \in VisitRecord
  BY ProxyAssumption DEF NoVisit, VisitRecord, Outcome, Ages
<1> QED  BY <1>1 DEF VisitIsSane, NoVisit, FlightIsYoung, LagIsBounded

\* put keeps the cache typed, small and young.
LEMMA PutKeepsTheCache ==
    ASSUME ProxyTyped, CacheIsSmall, CachedIsYoung, NEW w \in Webapp, NEW d \in Decision,
           d = "allow" => closed[w] <= Flight,
           NEW new \in PublicPut(w, d)
    PROVE  /\ new \in [Webapp -> Entries]
           /\ IsFiniteSet({x \in Webapp : new[x] # NoEntry})
           /\ Cardinality({x \in Webapp : new[x] # NoEntry}) <= MaxEntries
           /\ \A x \in Webapp : new[x].decision = "allow" /\ new[x].left > 0 =>
                 closed[x] + new[x].left <= PublicTTL + Flight
<1>0. /\ MaxEntries \in Nat /\ PublicTTL \in Nat /\ PdpTTL \in Nat /\ Flight \in Nat
      /\ MaxEntries >= 1
  BY ProxyAssumption
<1>1. CASE PublicTTL = 0
  <2>1. new = public
    BY <1>1 DEF PublicPut
  <2>2. QED  BY <2>1 DEF ProxyTyped, CacheIsSmall, Cached, CachedIsYoung
<1>2. CASE PublicTTL # 0
  <2> DEFINE held == {x \in Webapp : public[x] # NoEntry}
             full == public[w] = NoEntry /\ Cardinality(held) >= MaxEntries
             after == {x \in Webapp : new[x] # NoEntry}
  <2>1. PICK x : /\ new = [public EXCEPT ![x] = NoEntry, ![w] = Entry(d, PublicTTL)]
                 /\ full => x \in held
                 /\ ~full => x = w
    BY <1>2 DEF PublicPut
  <2>2. Entry(d, PublicTTL) \in Entries /\ Entry(d, PublicTTL) # NoEntry
    BY <1>0 DEF Entry, Entries, NoEntry, TTLs, Decision
  <2>3. x \in Webapp
    BY <2>1
  <2>4. new \in [Webapp -> Entries]
    BY <2>1, <2>2, <2>3 DEF ProxyTyped, Entries
  <2>5. /\ new[w] = Entry(d, PublicTTL)
        /\ \A y \in Webapp : y # w => new[y] = IF y = x THEN NoEntry ELSE public[y]
    BY <2>1, <2>3 DEF ProxyTyped
  <2>6. /\ IsFiniteSet(held) /\ Cardinality(held) <= MaxEntries /\ Cardinality(held) \in Nat
    BY FS_CardinalityType DEF CacheIsSmall, Cached
  <2>7. IsFiniteSet(after) /\ Cardinality(after) <= MaxEntries
    <3>1. CASE full
      <4>1. after = (held \ {x}) \cup {w}
        BY <2>1, <2>2, <2>3, <2>5, <3>1
      <4>2. IsFiniteSet(held \ {x}) /\ Cardinality(held \ {x}) = Cardinality(held) - 1
        BY <2>1, <2>6, <3>1, FS_RemoveElement
      <4>3. IsFiniteSet(after) /\ Cardinality(after) = Cardinality(held \ {x}) + 1
        BY <3>1, <4>1, <4>2, FS_AddElement
      <4>4. QED  BY <2>6, <4>2, <4>3, <1>0
    <3>2. CASE ~full
      <4>1. after = held \cup {w}
        BY <2>1, <2>2, <2>5, <3>2
      <4>2. IsFiniteSet(held \cup {w})
            /\ Cardinality(held \cup {w}) =
                  IF w \in held THEN Cardinality(held) ELSE Cardinality(held) + 1
        BY <2>6, FS_AddElement
      <4>3. w \notin held => Cardinality(held) < MaxEntries
        BY <2>6, <3>2, <1>0
      <4>4. QED  BY <2>6, <4>1, <4>2, <4>3, <1>0
    <3>3. QED  BY <3>1, <3>2
  <2>8. ASSUME NEW y \in Webapp, new[y].decision = "allow", new[y].left > 0
        PROVE  closed[y] + new[y].left <= PublicTTL + Flight
    <3>1. CASE y = w
      <4>1. new[y].left = PublicTTL /\ d = "allow"
        BY <2>5, <2>8, <3>1 DEF Entry
      <4>2. closed[w] \in Nat
        BY <1>0 DEF ProxyTyped, Ages
      <4>3. QED  BY <3>1, <4>1, <4>2, <1>0
    <3>2. CASE y # w /\ y = x
      BY <2>5, <2>8, <3>2 DEF NoEntry
    <3>3. CASE y # w /\ y # x
      BY <2>5, <2>8, <3>3 DEF CachedIsYoung
    <3>4. QED  BY <3>1, <3>2, <3>3
  <2>9. QED  BY <2>4, <2>7, <2>8
<1> QED  BY <1>1, <1>2

\* A visit that changes alone, and sanely, keeps the invariant.
LEMMA VisitMoves ==
    ASSUME ProxyIInv, NEW r \in Visit, NEW new, VisitIsSane(new),
           visit' = [visit EXCEPT ![r] = new],
           UNCHANGED <<granted, allowed, public, decisions, closed, barred>>
    PROVE  ProxyIInv'
<1>1. \A q \in Visit : VisitIsSane(visit[q])
  BY DEF ProxyIInv
<1>2. \A q \in Visit : visit'[q] = new \/ visit'[q] = visit[q]
  BY DEF ProxyIInv, ProxyTyped
<1>3. \A q \in Visit : VisitIsSane(visit'[q])
  BY <1>1, <1>2
<1>4. \A v : VisitIsSane(v)' <=> VisitIsSane(v)
  BY DEF VisitIsSane, FlightIsYoung
<1>5. \A q \in Visit : VisitIsSane(visit[q])'
  BY <1>3 DEF VisitIsSane, FlightIsYoung
<1>6. visit' \in [Visit -> VisitRecord]
  BY <1>3 DEF ProxyIInv, ProxyTyped, VisitIsSane
<1>7. ProxyTyped' /\ CacheIsSmall' /\ GrantsAreFresh' /\ CachedIsYoung'
  BY <1>6 DEF ProxyIInv, ProxyTyped, CacheIsSmall, Cached, GrantsAreFresh, CachedIsYoung
<1> QED  BY <1>5, <1>7 DEF ProxyIInv

\* What an answer on its way has to do with the loss of access.
LEMMA AnswersLag ==
    ASSUME ProxyIInv, NEW r \in Visit, visit[r].answer = "allow"
    PROVE  /\ visit[r].stage = "public" =>
                closed[visit[r].host] <= Flight /\ AnonymousLag(closed[visit[r].host])
           /\ visit[r].stage = "identity" =>
                barred[visit[r].user] <= Flight /\ IdentityLag(barred[visit[r].user])
<1> DEFINE v == visit[r]
<1>0. PdpTTL \in Nat /\ PublicTTL \in Nat /\ Flight \in Nat
  BY ProxyAssumption
<1>1. v \in VisitRecord /\ FlightIsYoung(v)
  BY DEF ProxyIInv, VisitIsSane
<1>2. v.age \in Nat /\ v.age <= Flight
  BY <1>0, <1>1 DEF VisitRecord
<1>3. ASSUME v.stage = "public"
      PROVE  closed[v.host] <= Flight /\ AnonymousLag(closed[v.host])
  <2>1. v.host \in Webapp /\ closed[v.host] <= v.age
    BY <1>1, <1>3 DEF FlightIsYoung
  <2>2. closed[v.host] \in Nat
    BY <2>1, <1>0 DEF ProxyIInv, ProxyTyped, Ages
  <2>3. QED  BY <2>1, <2>2, <1>0, <1>2 DEF AnonymousLag
<1>4. ASSUME v.stage = "identity"
      PROVE  barred[v.user] <= Flight /\ IdentityLag(barred[v.user])
  <2>1. v.user \in User /\ barred[v.user] <= v.age
    BY <1>1, <1>4 DEF FlightIsYoung
  <2>2. barred[v.user] \in Nat
    BY <2>1, <1>0 DEF ProxyIInv, ProxyTyped, Ages
  <2>3. QED  BY <2>1, <2>2, <1>0, <1>2 DEF IdentityLag
<1> QED  BY <1>3, <1>4

\* The visits survive a shorter time without access.
LEMMA YoungerStaysYoung ==
    ASSUME ProxyIInv, visit' = visit,
           closed' \in [Webapp -> Ages], \A w \in Webapp : closed'[w] <= closed[w],
           barred' \in [User -> Ages], \A u \in User : barred'[u] <= barred[u]
    PROVE  \A r \in Visit : VisitIsSane(visit[r])'
<1> SUFFICES ASSUME NEW r \in Visit PROVE VisitIsSane(visit[r])'
  OBVIOUS
<1>0. PdpTTL \in Nat /\ PublicTTL \in Nat /\ Flight \in Nat
  BY ProxyAssumption
<1>1. VisitIsSane(visit[r])
  BY DEF ProxyIInv
<1>2. visit[r] \in VisitRecord /\ LagIsBounded(visit[r])
  BY <1>1 DEF VisitIsSane
<1>3. visit[r].age \in Nat
  BY <1>0, <1>2 DEF VisitRecord
<1>4. /\ \A w \in Webapp : closed[w] \in Nat /\ closed'[w] \in Nat
      /\ \A u \in User : barred[u] \in Nat /\ barred'[u] \in Nat
  BY <1>0 DEF ProxyIInv, ProxyTyped, Ages
<1>5. FlightIsYoung(visit[r])'
  BY <1>1, <1>3, <1>4 DEF VisitIsSane, FlightIsYoung
<1> QED  BY <1>2, <1>5 DEF VisitIsSane

\* A grant comes or goes.
LEMMA GrantChangesKeep ==
    ASSUME ProxyIInv, NEW w \in Webapp, GrantChanges(w) PROVE ProxyIInv'
<1>0. PdpTTL \in Nat /\ PublicTTL \in Nat /\ Flight \in Nat
  BY ProxyAssumption
<1>1. /\ closed' = [closed EXCEPT ![w] = 0]
      /\ UNCHANGED <<allowed, public, decisions, visit, barred>>
      /\ granted' \subseteq granted \cup {w}
  BY DEF GrantChanges
<1>2. closed' \in [Webapp -> Ages] /\ \A x \in Webapp : closed'[x] = IF x = w THEN 0 ELSE closed[x]
  BY <1>0, <1>1 DEF ProxyIInv, ProxyTyped, Ages
<1>3. /\ \A x \in Webapp : closed[x] \in Nat /\ closed'[x] <= closed[x]
      /\ \A u \in User : barred[u] \in Nat /\ barred'[u] <= barred[u]
  BY <1>0, <1>1, <1>2 DEF ProxyIInv, ProxyTyped, Ages
<1>4. \A r \in Visit : VisitIsSane(visit[r])'
  BY <1>1, <1>2, <1>3, YoungerStaysYoung DEF ProxyIInv, ProxyTyped
<1>5. ProxyTyped'
  BY <1>1, <1>2 DEF ProxyIInv, ProxyTyped
<1>6. CacheIsSmall' /\ GrantsAreFresh'
  BY <1>1, <1>2 DEF ProxyIInv, ProxyTyped, CacheIsSmall, Cached, GrantsAreFresh
<1>7. CachedIsYoung'
  <2>1. \A x \in Webapp : public[x].left \in Nat
    BY <1>0 DEF ProxyIInv, ProxyTyped, Entries, NoEntry, TTLs
  <2>2. QED  BY <1>0, <1>1, <1>2, <1>3, <2>1 DEF ProxyIInv, CachedIsYoung
<1> QED  BY <1>4, <1>5, <1>6, <1>7 DEF ProxyIInv

\* A policy or a membership comes or goes.
LEMMA PolicyChangesKeep ==
    ASSUME ProxyIInv, NEW u \in User, PolicyChanges(u) PROVE ProxyIInv'
<1>0. PdpTTL \in Nat /\ PublicTTL \in Nat /\ Flight \in Nat
  BY ProxyAssumption
<1>1. /\ barred' = [barred EXCEPT ![u] = 0]
      /\ UNCHANGED <<granted, public, decisions, visit, closed>>
      /\ allowed' \subseteq allowed \cup {u}
  BY DEF PolicyChanges
<1>2. barred' \in [User -> Ages] /\ \A x \in User : barred'[x] = IF x = u THEN 0 ELSE barred[x]
  BY <1>0, <1>1 DEF ProxyIInv, ProxyTyped, Ages
<1>3. /\ \A w \in Webapp : closed[w] \in Nat /\ closed'[w] <= closed[w]
      /\ \A x \in User : barred[x] \in Nat /\ barred'[x] <= barred[x]
  BY <1>0, <1>1, <1>2 DEF ProxyIInv, ProxyTyped, Ages
<1>4. \A r \in Visit : VisitIsSane(visit[r])'
  BY <1>1, <1>2, <1>3, YoungerStaysYoung DEF ProxyIInv, ProxyTyped
<1>5. ProxyTyped'
  BY <1>1, <1>2 DEF ProxyIInv, ProxyTyped
<1>6. CacheIsSmall' /\ GrantsAreFresh'
  BY <1>1, <1>2 DEF ProxyIInv, ProxyTyped, CacheIsSmall, Cached, GrantsAreFresh
<1>7. CachedIsYoung'
  <2>1. \A x \in User : decisions[x].left \in Nat
    BY <1>0 DEF ProxyIInv, ProxyTyped, Entries, NoEntry, TTLs
  <2>2. QED  BY <1>0, <1>1, <1>2, <1>3, <2>1 DEF ProxyIInv, CachedIsYoung
<1> QED  BY <1>4, <1>5, <1>6, <1>7 DEF ProxyIInv

\* A visit arrives.
LEMMA ArriveKeeps ==
    ASSUME ProxyIInv, NEW r \in Visit, NEW h \in Webapp \cup {Agent}, NEW u \in User \cup {Nobody},
           Arrive(r, h, u)
    PROVE  ProxyIInv'
<1> DEFINE req == [NoVisit EXCEPT !.host = h, !.user = u]
           new == IF h = Agent THEN Session(req)
                  ELSE IF Hit(public[h]) THEN PublicDecided(req, public[h].decision)
                  ELSE Asking(req, "public")
<1>1. NoVisit \in VisitRecord /\ LagIsBounded(NoVisit) /\ NoVisit.outcome = "none"
  BY NoVisitIsSane DEF VisitIsSane, NoVisit
<1>2. req \in VisitRecord /\ req.host = h /\ req.outcome = "none"
  BY <1>1 DEF VisitRecord
<1>3. LagIsBounded(req)
  BY <1>2 DEF LagIsBounded
<1>4. ProxyTyped /\ CachedIsYoung
  BY DEF ProxyIInv
<1>5. VisitIsSane(new)
  <2>1. CASE h = Agent
    BY <1>2, <1>3, <1>4, <2>1, SessionIsSane
  <2>2. CASE h # Agent /\ Hit(public[h])
    <3>1. h \in Webapp /\ public[h] \in Entries /\ public[h].left > 0 /\ closed[h] \in Ages
      BY <2>2, <1>4 DEF ProxyTyped, Hit
    <3>2. public[h].left \in Nat /\ closed[h] \in Nat /\ PublicTTL \in Nat /\ Flight \in Nat
      BY <3>1, ProxyAssumption DEF Entries, NoEntry, TTLs, Ages
    <3>3. public[h].decision = "allow" => closed[h] + public[h].left <= PublicTTL + Flight
      BY <3>1, <1>4 DEF CachedIsYoung
    <3>4. public[h].decision = "allow" => AnonymousLag(closed[h])
      BY <3>1, <3>2, <3>3 DEF AnonymousLag
    <3>5. VisitIsSane(PublicDecided(req, public[h].decision))
      BY <1>2, <1>3, <1>4, <3>1, <3>4, PublicIsSane
    <3>6. QED  BY <2>2, <3>5
  <2>3. CASE h # Agent /\ ~Hit(public[h])
    <3>1. VisitIsSane(Asking(req, "public"))
      BY <1>2, <1>3, <2>3, AskingIsSane
    <3>2. QED  BY <2>3, <3>1
  <2>4. QED  BY <2>1, <2>2, <2>3
<1>6. visit' = [visit EXCEPT ![r] = new]
      /\ UNCHANGED <<granted, allowed, public, decisions, closed, barred>>
  BY DEF Arrive
<1> HIDE DEF new
<1> QED  BY <1>5, <1>6, VisitMoves

\* The control plane answers: access that is allowed was taken away no time ago.
LEMMA AnswersKeep ==
    ASSUME ProxyIInv, NEW r \in Visit, PdpAnswers(r) PROVE ProxyIInv'
<1> DEFINE v == visit[r]
<1>1. v \in VisitRecord /\ FlightIsYoung(v) /\ LagIsBounded(v)
  BY DEF ProxyIInv, VisitIsSane
<1>2. v.answer = "none" /\ v.age = 0
  BY <1>1 DEF PdpAnswers, FlightIsYoung
<1>3. PICK d \in Decision :
          /\ visit' = [visit EXCEPT ![r].answer = d]
          /\ d = "allow" => \/ v.stage = "public" /\ v.host \in granted
                            \/ v.stage = "identity" /\ v.user \in allowed
  BY DEF PdpAnswers, Decide, Decision
<1> DEFINE new == [v EXCEPT !.answer = d]
<1>4. /\ new.stage = v.stage /\ new.host = v.host /\ new.user = v.user /\ new.age = 0
      /\ new.outcome = v.outcome /\ new.lag = v.lag /\ new.answer = d
  BY <1>1, <1>2 DEF VisitRecord
<1>6. new \in VisitRecord
  BY <1>1 DEF VisitRecord
<1>7. d = "allow" =>
          /\ v.stage = "public" => closed[v.host] <= 0
          /\ v.stage = "identity" => barred[v.user] <= 0
  BY <1>3 DEF ProxyIInv, GrantsAreFresh
<1>8. FlightIsYoung(new)
  BY <1>1, <1>4, <1>7 DEF FlightIsYoung, Decision
<1>9. VisitIsSane(new)
  BY <1>1, <1>4, <1>6, <1>8 DEF VisitIsSane, LagIsBounded
<1>10. visit' = [visit EXCEPT ![r] = new]
       /\ UNCHANGED <<granted, allowed, public, decisions, closed, barred>>
  BY <1>3 DEF PdpAnswers
<1> HIDE DEF new
<1> QED  BY <1>9, <1>10, VisitMoves

\* A call fails, or a visit is over.
LEMMA PdpFailsKeeps ==
    ASSUME ProxyIInv, NEW r \in Visit, PdpFails(r) \/ Finish(r) PROVE ProxyIInv'
<1>1. visit[r] \in VisitRecord /\ 0 \in Ages
  BY ProxyAssumption DEF ProxyIInv, ProxyTyped, Ages
<1>2. CASE PdpFails(r)
  <2>1. VisitIsSane(Ending(visit[r], "unavailable", 0))
    BY <1>1, EndingIsSane DEF Outcome
  <2>2. visit' = [visit EXCEPT ![r] = Ending(visit[r], "unavailable", 0)]
        /\ UNCHANGED <<granted, allowed, public, decisions, closed, barred>>
    BY <1>2 DEF PdpFails
  <2>3. QED  BY <2>1, <2>2, VisitMoves
<1>3. CASE Finish(r)
  <2>1. visit' = [visit EXCEPT ![r] = NoVisit]
        /\ UNCHANGED <<granted, allowed, public, decisions, closed, barred>>
    BY <1>3 DEF Finish
  <2>2. QED  BY <2>1, NoVisitIsSane, VisitMoves
<1> QED  BY <1>2, <1>3

\* A public decision arrives and is cached.
LEMMA PublicArrivesKeeps ==
    ASSUME ProxyIInv, NEW r \in Visit, PublicArrives(r) PROVE ProxyIInv'
<1> DEFINE v == visit[r]
           new == PublicDecided(v, v.answer)
<1>0. ProxyTyped /\ CacheIsSmall /\ GrantsAreFresh /\ CachedIsYoung
  BY DEF ProxyIInv
<1>1. v \in VisitRecord /\ FlightIsYoung(v) /\ LagIsBounded(v)
  BY DEF ProxyIInv, VisitIsSane
<1>2. v.stage = "public" /\ v.answer \in Decision /\ v.host \in Webapp
  BY <1>1 DEF PublicArrives, VisitRecord, FlightIsYoung
<1>3. v.answer = "allow" => closed[v.host] <= Flight /\ AnonymousLag(closed[v.host])
  BY <1>2, AnswersLag
<1>4. VisitIsSane(new)
  BY <1>0, <1>1, <1>2, <1>3, PublicIsSane
<1>5. public' \in PublicPut(v.host, v.answer)
  BY DEF PublicArrives
<1>6. /\ public' \in [Webapp -> Entries]
      /\ IsFiniteSet({x \in Webapp : public'[x] # NoEntry})
      /\ Cardinality({x \in Webapp : public'[x] # NoEntry}) <= MaxEntries
      /\ \A x \in Webapp : public'[x].decision = "allow" /\ public'[x].left > 0 =>
            closed[x] + public'[x].left <= PublicTTL + Flight
  BY <1>0, <1>2, <1>3, <1>5, PutKeepsTheCache
<1>7. visit' = [visit EXCEPT ![r] = new]
      /\ UNCHANGED <<granted, allowed, decisions, closed, barred>>
  BY DEF PublicArrives
<1> HIDE DEF new
<1>8. \A q \in Visit : VisitIsSane(visit'[q])
  BY <1>0, <1>4, <1>7 DEF ProxyIInv, ProxyTyped
<1>9. \A q \in Visit : VisitIsSane(visit[q])'
  BY <1>7, <1>8 DEF VisitIsSane, FlightIsYoung
<1>10. visit' \in [Visit -> VisitRecord]
  BY <1>0, <1>7, <1>8 DEF ProxyTyped, VisitIsSane
<1>11. ProxyTyped'
  BY <1>0, <1>6, <1>7, <1>10 DEF ProxyTyped
<1>12. CacheIsSmall' /\ GrantsAreFresh'
  BY <1>0, <1>6, <1>7 DEF CacheIsSmall, Cached, GrantsAreFresh
<1>13. CachedIsYoung'
  BY <1>0, <1>6, <1>7 DEF CachedIsYoung
<1> QED  BY <1>9, <1>11, <1>12, <1>13 DEF ProxyIInv

\* A decision about a user arrives and is cached.
LEMMA IdentityArrivesKeeps ==
    ASSUME ProxyIInv, NEW r \in Visit, IdentityArrives(r) PROVE ProxyIInv'
<1> DEFINE v == visit[r]
           new == IdentityDecided(v, v.answer)
<1>0. ProxyTyped /\ CacheIsSmall /\ GrantsAreFresh /\ CachedIsYoung
  BY DEF ProxyIInv
<1>1. v \in VisitRecord /\ FlightIsYoung(v) /\ LagIsBounded(v)
  BY DEF ProxyIInv, VisitIsSane
<1>2. v.stage = "identity" /\ v.answer \in Decision /\ v.user \in User
  BY <1>1 DEF IdentityArrives, VisitRecord, FlightIsYoung
<1>3. v.answer = "allow" => barred[v.user] <= Flight /\ IdentityLag(barred[v.user])
  BY <1>2, AnswersLag
<1>4. VisitIsSane(new)
  BY <1>0, <1>1, <1>2, <1>3, IdentityIsSane
<1>5. visit' = [visit EXCEPT ![r] = new]
      /\ UNCHANGED <<granted, allowed, public, closed, barred>>
  BY DEF IdentityArrives
<1> HIDE DEF new
<1>6. PdpTTL \in Nat /\ PublicTTL \in Nat /\ Flight \in Nat
  BY ProxyAssumption
<1>7. Entry(v.answer, PdpTTL) \in Entries /\ Entry(v.answer, PdpTTL).left = PdpTTL
      /\ Entry(v.answer, PdpTTL).decision = v.answer
  BY <1>2, <1>6 DEF Entry, Entries, TTLs
<1>8. decisions' \in [User -> Entries]
  BY <1>0, <1>2, <1>7 DEF IdentityArrives, ProxyTyped
<1>9. \A u \in User : decisions'[u] = decisions[u]
                      \/ (u = v.user /\ decisions'[u] = Entry(v.answer, PdpTTL))
  BY <1>0, <1>2 DEF IdentityArrives, ProxyTyped
<1>10. \A u \in User : decisions'[u].decision = "allow" /\ decisions'[u].left > 0 =>
            barred[u] + decisions'[u].left <= PdpTTL + Flight
  <2>1. barred[v.user] \in Nat
    BY <1>0, <1>2, <1>6 DEF ProxyTyped, Ages
  <2>2. Entry(v.answer, PdpTTL).decision = "allow" =>
            barred[v.user] + Entry(v.answer, PdpTTL).left <= PdpTTL + Flight
    BY <2>1, <1>3, <1>6, <1>7
  <2>3. QED  BY <2>2, <1>0, <1>9 DEF CachedIsYoung
<1>11. \A q \in Visit : VisitIsSane(visit'[q])
  BY <1>0, <1>4, <1>5 DEF ProxyIInv, ProxyTyped
<1>12. \A q \in Visit : VisitIsSane(visit[q])'
  BY <1>5, <1>11 DEF VisitIsSane, FlightIsYoung
<1>13. visit' \in [Visit -> VisitRecord]
  BY <1>0, <1>5, <1>11 DEF ProxyTyped, VisitIsSane
<1>14. ProxyTyped'
  BY <1>0, <1>5, <1>8, <1>13 DEF ProxyTyped
<1>15. CacheIsSmall' /\ GrantsAreFresh'
  BY <1>0, <1>5 DEF CacheIsSmall, Cached, GrantsAreFresh
<1>16. CachedIsYoung'
  BY <1>0, <1>5, <1>10 DEF CachedIsYoung
<1> QED  BY <1>12, <1>14, <1>15, <1>16 DEF ProxyIInv

\* One unit of time.
LEMMA TickKeeps == ProxyIInv /\ Tick => ProxyIInv'
<1> SUFFICES ASSUME ProxyIInv, Tick PROVE ProxyIInv'
  OBVIOUS
<1>0. PdpTTL \in Nat /\ PublicTTL \in Nat /\ Flight \in Nat
  BY ProxyAssumption
<1>1. ProxyTyped /\ CacheIsSmall /\ GrantsAreFresh /\ CachedIsYoung
  BY DEF ProxyIInv
\* Ages grow by at most one, those of access that holds stay at 0.
<1>2. \A age \in Ages : OneOlder(age) \in Ages /\ OneOlder(age) <= age + 1
  BY <1>0 DEF OneOlder, Ages
<1>3. /\ closed' \in [Webapp -> Ages]
      /\ \A w \in Webapp : closed[w] \in Nat /\ closed'[w] \in Nat /\ closed'[w] <= closed[w] + 1
      /\ \A w \in granted : closed'[w] = 0
  BY <1>0, <1>1, <1>2 DEF Tick, ProxyTyped, Ages
<1>4. /\ barred' \in [User -> Ages]
      /\ \A u \in User : barred[u] \in Nat /\ barred'[u] \in Nat /\ barred'[u] <= barred[u] + 1
      /\ \A u \in allowed : barred'[u] = 0
  BY <1>0, <1>1, <1>2 DEF Tick, ProxyTyped, Ages
\* An entry that is hit has one unit less, any other stays as it is.
<1>5. ASSUME NEW e \in Entries, Hit(e)
      PROVE  /\ [e EXCEPT !.left = e.left - 1] \in Entries
             /\ [e EXCEPT !.left = e.left - 1] # NoEntry
             /\ [e EXCEPT !.left = e.left - 1].decision = e.decision
             /\ [e EXCEPT !.left = e.left - 1].left = e.left - 1
             /\ e # NoEntry /\ e.left \in Nat
  <2>1. e \in [decision : Decision, left : TTLs] /\ e.left > 0
    BY <1>5 DEF Hit, Entries, NoEntry
  <2>2. e.left \in Nat /\ e.left - 1 \in TTLs
    BY <2>1, <1>0 DEF TTLs
  <2>3. [e EXCEPT !.left = e.left - 1] \in [decision : Decision, left : TTLs]
    BY <2>1, <2>2
  <2>4. [e EXCEPT !.left = e.left - 1].decision = e.decision
        /\ [e EXCEPT !.left = e.left - 1].left = e.left - 1
    BY <2>1
  <2>5. e.decision # "none"
    BY <2>1 DEF Decision
  <2>6. QED  BY <2>2, <2>3, <2>4, <2>5 DEF Entries, NoEntry
<1>6. /\ public' \in [Webapp -> Entries]
      /\ \A w \in Webapp : public'[w] # NoEntry <=> public[w] # NoEntry
      /\ \A w \in Webapp : public'[w].decision = "allow" /\ public'[w].left > 0 =>
            closed'[w] + public'[w].left <= PublicTTL + Flight
  <2> SUFFICES ASSUME NEW w \in Webapp
               PROVE  /\ public'[w] \in Entries
                      /\ public'[w] # NoEntry <=> public[w] # NoEntry
                      /\ public'[w].decision = "allow" /\ public'[w].left > 0 =>
                            closed'[w] + public'[w].left <= PublicTTL + Flight
    BY DEF Tick
  <2>1. public[w] \in Entries
    BY <1>1 DEF ProxyTyped
  <2>2. CASE Hit(public[w])
    <3>1. public'[w] = [public[w] EXCEPT !.left = public[w].left - 1]
      BY <2>2 DEF Tick
    <3>2. public[w].decision = "allow" => closed[w] + public[w].left <= PublicTTL + Flight
      BY <2>2, <1>1 DEF Hit, CachedIsYoung
    <3>3. /\ public'[w] \in Entries /\ public'[w] # NoEntry /\ public[w] # NoEntry
          /\ public'[w].decision = public[w].decision /\ public'[w].left = public[w].left - 1
          /\ public[w].left \in Nat
      BY <2>1, <2>2, <3>1, <1>5
    <3>4. QED  BY <3>2, <3>3, <1>0, <1>3
  <2>3. CASE ~Hit(public[w])
    <3>1. public'[w] = public[w]
      BY <2>3 DEF Tick
    <3>2. QED  BY <2>1, <2>3, <3>1 DEF Hit
  <2>4. QED  BY <2>2, <2>3
<1>7. /\ decisions' \in [User -> Entries]
      /\ \A u \in User : decisions'[u].decision = "allow" /\ decisions'[u].left > 0 =>
            barred'[u] + decisions'[u].left <= PdpTTL + Flight
  <2> SUFFICES ASSUME NEW u \in User
               PROVE  /\ decisions'[u] \in Entries
                      /\ decisions'[u].decision = "allow" /\ decisions'[u].left > 0 =>
                            barred'[u] + decisions'[u].left <= PdpTTL + Flight
    BY DEF Tick
  <2>1. decisions[u] \in Entries
    BY <1>1 DEF ProxyTyped
  <2>2. CASE Hit(decisions[u])
    <3>1. decisions'[u] = [decisions[u] EXCEPT !.left = decisions[u].left - 1]
      BY <2>2 DEF Tick
    <3>2. decisions[u].decision = "allow" => barred[u] + decisions[u].left <= PdpTTL + Flight
      BY <2>2, <1>1 DEF Hit, CachedIsYoung
    <3>3. /\ decisions'[u] \in Entries
          /\ decisions'[u].decision = decisions[u].decision
          /\ decisions'[u].left = decisions[u].left - 1 /\ decisions[u].left \in Nat
      BY <2>1, <2>2, <3>1, <1>5
    <3>4. QED  BY <3>2, <3>3, <1>0, <1>4
  <2>3. CASE ~Hit(decisions[u])
    <3>1. decisions'[u] = decisions[u]
      BY <2>3 DEF Tick
    <3>2. QED  BY <2>1, <2>3, <3>1 DEF Hit
  <2>4. QED  BY <2>2, <2>3
\* An answer on its way is one unit older.
<1>8. ASSUME NEW r \in Visit PROVE visit'[r] \in VisitRecord /\ VisitIsSane(visit[r])'
  <2> DEFINE v == visit[r]
             n == visit'[r]
  <2>1. v \in VisitRecord /\ FlightIsYoung(v) /\ LagIsBounded(v) /\ v.age < Flight
    BY DEF ProxyIInv, VisitIsSane, Tick
  <2>2. v.age \in Nat
    BY <2>1, <1>0 DEF VisitRecord
  <2>3. CASE v.answer = "none"
    <3>1. n = v
      BY <2>3 DEF Tick
    <3>2. FlightIsYoung(visit[r])'
      BY <2>1, <2>3, <3>1 DEF FlightIsYoung
    <3>3. QED  BY <2>1, <3>1, <3>2 DEF VisitIsSane
  <2>4. CASE v.answer # "none"
    <3>1. n = [v EXCEPT !.age = v.age + 1]
      BY <2>4 DEF Tick
    <3>2. v.age + 1 \in 0 .. Flight
      BY <2>1, <2>2, <1>0
    <3>3. n \in VisitRecord
      BY <2>1, <3>1, <3>2 DEF VisitRecord
    <3>4. /\ n.stage = v.stage /\ n.host = v.host /\ n.user = v.user /\ n.answer = v.answer
          /\ n.age = v.age + 1 /\ n.outcome = v.outcome /\ n.lag = v.lag
      BY <2>1, <3>1 DEF VisitRecord
    <3>5. FlightIsYoung(visit[r])'
      BY <2>1, <2>2, <2>4, <3>4, <1>3, <1>4 DEF FlightIsYoung
    <3>6. LagIsBounded(n)
      BY <2>1, <3>4 DEF LagIsBounded
    <3>7. QED  BY <3>3, <3>5, <3>6 DEF VisitIsSane
  <2>5. QED  BY <2>3, <2>4 DEF VisitIsSane
<1>9. visit' \in [Visit -> VisitRecord]
  BY <1>8 DEF Tick
<1>10. ProxyTyped'
  BY <1>1, <1>3, <1>4, <1>6, <1>7, <1>9 DEF ProxyTyped, Tick
<1>11. CacheIsSmall'
  <2>1. Cached' = Cached
    BY <1>6 DEF Cached
  <2>2. QED  BY <1>1, <2>1 DEF CacheIsSmall
<1>12. GrantsAreFresh' /\ CachedIsYoung'
  BY <1>3, <1>4, <1>6, <1>7 DEF GrantsAreFresh, CachedIsYoung, Tick
<1> QED  BY <1>8, <1>10, <1>11, <1>12 DEF ProxyIInv

\* The container restarts.
LEMMA RestartKeeps == ProxyIInv /\ Restart => ProxyIInv'
<1> SUFFICES ASSUME ProxyIInv, Restart PROVE ProxyIInv'
  OBVIOUS
<1>1. ProxyTyped /\ GrantsAreFresh
  BY DEF ProxyIInv
<1>2. NoEntry \in Entries /\ NoEntry.decision = "none"
  BY DEF Entries, NoEntry
<1>3. NoVisit \in VisitRecord
  BY NoVisitIsSane DEF VisitIsSane
<1>4. ProxyTyped' /\ GrantsAreFresh' /\ CachedIsYoung'
  BY <1>1, <1>2, <1>3 DEF Restart, ProxyTyped, GrantsAreFresh, CachedIsYoung
<1>5. CacheIsSmall'
  <2>1. Cached' = {}
    BY DEF Restart, Cached
  <2>2. QED  BY <2>1, FS_EmptySet, ProxyAssumption DEF CacheIsSmall
<1>6. \A r \in Visit : VisitIsSane(visit[r])'
  BY <1>3 DEF Restart, VisitIsSane, NoVisit, FlightIsYoung, LagIsBounded
<1> QED  BY <1>4, <1>5, <1>6 DEF ProxyIInv

\* The caches are empty at first.
LEMMA ProxyStarts == ProxyInit => ProxyIInv
<1> SUFFICES ASSUME ProxyInit PROVE ProxyIInv
  OBVIOUS
<1>1. NoEntry \in Entries /\ NoEntry.decision = "none" /\ 0 \in Ages
  BY ProxyAssumption DEF Entries, NoEntry, Ages
<1>2. NoVisit \in VisitRecord
  BY NoVisitIsSane DEF VisitIsSane
<1>3. ProxyTyped
  BY <1>1, <1>2 DEF ProxyInit, ProxyTyped
<1>4. GrantsAreFresh /\ CachedIsYoung
  BY <1>1 DEF ProxyInit, GrantsAreFresh, CachedIsYoung
<1>5. CacheIsSmall
  <2>1. Cached = {}
    BY DEF ProxyInit, Cached
  <2>2. QED  BY <2>1, FS_EmptySet, ProxyAssumption DEF CacheIsSmall
<1>6. \A r \in Visit : VisitIsSane(visit[r])
  BY NoVisitIsSane DEF ProxyInit
<1> QED  BY <1>3, <1>4, <1>5, <1>6 DEF ProxyIInv

\* One step per action.
LEMMA ProxySteps == ProxyIInv /\ [ProxyNext]_proxyVars => ProxyIInv'
<1> SUFFICES ASSUME ProxyIInv, [ProxyNext]_proxyVars PROVE ProxyIInv'
  OBVIOUS
<1>1. CASE UNCHANGED proxyVars
  BY <1>1 DEF proxyVars, ProxyIInv, ProxyTyped, CacheIsSmall, Cached, GrantsAreFresh, CachedIsYoung,
              VisitIsSane, FlightIsYoung
<1>2. CASE ProxyNext
  BY <1>2, GrantChangesKeep, PolicyChangesKeep, ArriveKeeps, AnswersKeep, PublicArrivesKeeps,
     IdentityArrivesKeeps, PdpFailsKeeps, TickKeeps, RestartKeeps DEF ProxyNext
<1> QED  BY <1>1, <1>2

\* The invariant bounds how long access outlives its loss.
LEMMA ProxySuffices == ProxyIInv => AccessEnds
<1> SUFFICES ASSUME ProxyIInv PROVE AccessEnds
  OBVIOUS
<1>1. ProxyTypeOK
  BY DEF ProxyIInv, ProxyTyped, CacheIsSmall, Cached, ProxyTypeOK, VisitRecord
<1>2. AnonymousAccessEnds /\ IdentityAccessEnds
  BY DEF ProxyIInv, VisitIsSane, LagIsBounded, AnonymousLag, IdentityLag, AnonymousAccessEnds,
         StaleAnonymousAccess, IdentityAccessEnds
<1> QED  BY <1>1, <1>2 DEF AccessEnds

\* Access that was taken away ends within the TTL and one flight of an answer, whatever mix
\* of cached and late answers gives it, and the cache stays within its bound (AccessEnds),
\* for any TTLs, zero included, and any number of visits.
THEOREM AccessEndsInTime == ProxySpec => []AccessEnds
<1>1. ProxySpec => []ProxyIInv
  BY ProxyStarts, ProxySteps, PTL DEF ProxySpec
<1> QED  BY <1>1, ProxySuffices, PTL

-----------------------------------------------------------------------------
(* First logins and invitations.                                           *)

Invitation == [to : People, state : {"none", "sent", "expired"},
               accepted : BOOLEAN, revoked : BOOLEAN]

PcOf == IF OIDC THEN {"idle", "join", "bootstrap", "clear"}
        ELSE {"idle", "pending", "onboard", "accept"}

SessionRecord == [pc : PcOf, invite : SUBSET Invites]

\* The types, with the invitations a session may hold.
MembersTyped ==
    /\ linked \subseteq user /\ current \subseteq user /\ user \subseteq People
    /\ member \in [People -> Roles \cup {"none"}]
    /\ roles \in [People -> SUBSET Roles]
    /\ bootstrap \in BOOLEAN /\ default \in Roles
    /\ invite \in [Invites -> Invitation]
    /\ revoking \subseteq Invites
    /\ session \in [People -> SessionRecord]
    /\ edits \in Nat /\ crashes \in 0 .. MaxCrashes

\* Who is in the organization has a membership, except between the two commits of a first login.
InIsMember ==
    (~OIDC \/ MaxCrashes = 0) =>
        \A p \in current : session[p].pc \notin {"join", "bootstrap"} => member[p] # "none"

\* What a session holds was sent to its person; an invitation that was used stays as it is.
SessionsHoldTheirOwn ==
    \A p \in People :
        /\ OIDC => session[p].invite = {}
        /\ \A i \in session[p].invite : invite[i].to = p /\ invite[i].state # "none"
UsedWereSent == \A i \in Invites : invite[i].accepted => invite[i].state # "none"

\* Before the first edit nothing makes anyone but the founder an admin.
FounderFirst ==
    edits = 0 =>
        /\ default = "member"
        /\ \A p \in People \ {Founder} :
              /\ member[p] # "admin" /\ "admin" \notin roles[p]
              /\ session[p].pc # "bootstrap"

MembersIInv == /\ MembersTyped /\ InIsMember /\ SessionsHoldTheirOwn /\ UsedWereSent
               /\ InvitedOnly /\ FounderFirst

\* Every request, edit and crash keeps the invariant.
LEMMA MembersStep == MembersIInv /\ [MembershipNext]_memberVars => MembersIInv'
<1> SUFFICES ASSUME MembersIInv, [MembershipNext]_memberVars PROVE MembersIInv'
  OBVIOUS
<1>0. Idle \in SessionRecord
  BY DEF Idle, SessionRecord, PcOf
<1> USE MembershipAssumption DEF MembersIInv, MembersTyped, Invitation, SessionRecord, PcOf,
                                   Roles, OIDC
<1>1. ASSUME NEW i \in Invites, NEW p \in People, CreateInvite(i, p)
      PROVE  MembersIInv'
  <2>1. MembersTyped'
    <3>1. invite' \in [Invites -> Invitation]
      BY <1>1 DEF CreateInvite
    <3>2. QED  BY <1>1, <3>1 DEF CreateInvite
  <2>2. InIsMember'
    BY <1>1, SMTT(20) DEF CreateInvite, InIsMember
  <2>3. SessionsHoldTheirOwn'
    BY <1>1, SMTT(20) DEF CreateInvite, SessionsHoldTheirOwn
  <2>4. UsedWereSent'
    BY <1>1, SMTT(20) DEF CreateInvite, UsedWereSent
  <2>5. InvitedOnly'
    <3>1. ASSUME NEW q \in People \ {Founder}, ~OIDC, member'[q] # "none"
          PROVE  \E j \in Invites : invite'[j].to = q /\ invite'[j].accepted
      <4>1. PICK j \in Invites : invite[j].to = q /\ invite[j].accepted
        BY <1>1, <3>1 DEF CreateInvite, InvitedOnly
      <4>2. j # i
        BY <1>1, <4>1 DEF CreateInvite, UsedWereSent
      <4>3. invite'[j] = invite[j]
        BY <1>1, <4>2 DEF CreateInvite
      <4>4. QED  BY <4>1, <4>3
    <3>2. QED  BY <3>1 DEF InvitedOnly
  <2>6. FounderFirst'
    BY <1>1, SMTT(20) DEF CreateInvite, FounderFirst
  <2> QED  BY <2>1, <2>2, <2>3, <2>4, <2>5, <2>6
<1>2. ASSUME NEW i \in Invites, NEW p \in People, AcceptRead(p, i)
      PROVE  MembersIInv'
  <2>1. MembersTyped'
    BY <1>2, SMTT(20) DEF AcceptRead, Consumable
  <2>2. InIsMember'
    BY <1>2, SMTT(20) DEF AcceptRead, Consumable, InIsMember
  <2>3. SessionsHoldTheirOwn'
    BY <1>2, SMTT(20) DEF AcceptRead, Consumable, SessionsHoldTheirOwn
  <2>4. UsedWereSent'
    BY <1>2, SMTT(20) DEF AcceptRead, Consumable, UsedWereSent
  <2>5. InvitedOnly'
    BY <1>2, SMTT(20) DEF AcceptRead, Consumable, InvitedOnly
  <2>6. FounderFirst'
    BY <1>2, SMTT(20) DEF AcceptRead, Consumable, FounderFirst
  <2> QED  BY <2>1, <2>2, <2>3, <2>4, <2>5, <2>6
<1>3. ASSUME NEW i \in Invites, Expire(i)
      PROVE  MembersIInv'
  <2>1. MembersTyped'
    BY <1>3, SMTT(20) DEF Expire
  <2>2. InIsMember'
    BY <1>3, SMTT(20) DEF Expire, InIsMember
  <2>3. SessionsHoldTheirOwn'
    BY <1>3, SMTT(20) DEF Expire, SessionsHoldTheirOwn
  <2>4. UsedWereSent'
    BY <1>3, SMTT(20) DEF Expire, UsedWereSent
  <2>5. InvitedOnly'
    BY <1>3, SMTT(20) DEF Expire, InvitedOnly
  <2>6. FounderFirst'
    BY <1>3, SMTT(20) DEF Expire, FounderFirst
  <2> QED  BY <2>1, <2>2, <2>3, <2>4, <2>5, <2>6
<1>4. ASSUME NEW i \in Invites, RevokeRead(i)
      PROVE  MembersIInv'
  <2>1. MembersTyped'
    BY <1>4, SMTT(20) DEF RevokeRead
  <2>2. InIsMember'
    BY <1>4, SMTT(20) DEF RevokeRead, InIsMember
  <2>3. SessionsHoldTheirOwn'
    BY <1>4, SMTT(20) DEF RevokeRead, SessionsHoldTheirOwn
  <2>4. UsedWereSent'
    BY <1>4, SMTT(20) DEF RevokeRead, UsedWereSent
  <2>5. InvitedOnly'
    BY <1>4, SMTT(20) DEF RevokeRead, InvitedOnly
  <2>6. FounderFirst'
    BY <1>4, SMTT(20) DEF RevokeRead, FounderFirst
  <2> QED  BY <2>1, <2>2, <2>3, <2>4, <2>5, <2>6
<1>5. ASSUME NEW i \in Invites, RevokeSave(i)
      PROVE  MembersIInv'
  <2>1. MembersTyped'
    <3>1. invite' \in [Invites -> Invitation]
      BY <1>5 DEF RevokeSave
    <3>2. QED  BY <1>5, <3>1 DEF RevokeSave
  <2>2. InIsMember'
    BY <1>5, SMTT(20) DEF RevokeSave, InIsMember
  <2>3. SessionsHoldTheirOwn'
    BY <1>5, SMTT(20) DEF RevokeSave, SessionsHoldTheirOwn
  <2>4. UsedWereSent'
    BY <1>5, SMTT(20) DEF RevokeSave, UsedWereSent
  <2>5. InvitedOnly'
    BY <1>5, SMTT(20) DEF RevokeSave, InvitedOnly
  <2>6. FounderFirst'
    BY <1>5, SMTT(20) DEF RevokeSave, FounderFirst
  <2> QED  BY <2>1, <2>2, <2>3, <2>4, <2>5, <2>6
<1>6. ASSUME NEW p \in People, NEW kind \in Roles, EditRole(p, kind)
      PROVE  MembersIInv'
  <2>1. MembersTyped'
    BY <1>6, SMTT(20) DEF EditRole, SomeAdmin
  <2>2. InIsMember'
    BY <1>6, SMTT(20) DEF EditRole, SomeAdmin, InIsMember
  <2>3. SessionsHoldTheirOwn'
    BY <1>6, SMTT(20) DEF EditRole, SomeAdmin, SessionsHoldTheirOwn
  <2>4. UsedWereSent'
    BY <1>6, SMTT(20) DEF EditRole, SomeAdmin, UsedWereSent
  <2>5. InvitedOnly'
    BY <1>6, SMTT(20) DEF EditRole, SomeAdmin, InvitedOnly
  <2>6. FounderFirst'
    BY <1>6, SMTT(20) DEF EditRole, SomeAdmin, FounderFirst
  <2> QED  BY <2>1, <2>2, <2>3, <2>4, <2>5, <2>6
<1>7. ASSUME NEW kind \in Roles, SetDefaultRole(kind)
      PROVE  MembersIInv'
  <2>1. MembersTyped'
    BY <1>7, SMTT(20) DEF SetDefaultRole, SomeAdmin
  <2>2. InIsMember'
    BY <1>7, SMTT(20) DEF SetDefaultRole, SomeAdmin, InIsMember
  <2>3. SessionsHoldTheirOwn'
    BY <1>7, SMTT(20) DEF SetDefaultRole, SomeAdmin, SessionsHoldTheirOwn
  <2>4. UsedWereSent'
    BY <1>7, SMTT(20) DEF SetDefaultRole, SomeAdmin, UsedWereSent
  <2>5. InvitedOnly'
    BY <1>7, SMTT(20) DEF SetDefaultRole, SomeAdmin, InvitedOnly
  <2>6. FounderFirst'
    BY <1>7, SMTT(20) DEF SetDefaultRole, SomeAdmin, FounderFirst
  <2> QED  BY <2>1, <2>2, <2>3, <2>4, <2>5, <2>6
<1>8. ASSUME NEW p \in People, SignIn(p)
      PROVE  MembersIInv'
  <2>1. MembersTyped'
    BY <1>8, SMTT(20) DEF SignIn
  <2>2. InIsMember'
    BY <1>8, SMTT(20) DEF SignIn, InIsMember
  <2>3. SessionsHoldTheirOwn'
    BY <1>8, SMTT(20) DEF SignIn, SessionsHoldTheirOwn
  <2>4. UsedWereSent'
    BY <1>8, SMTT(20) DEF SignIn, UsedWereSent
  <2>5. InvitedOnly'
    BY <1>8, SMTT(20) DEF SignIn, InvitedOnly
  <2>6. FounderFirst'
    BY <1>8, SMTT(20) DEF SignIn, FounderFirst
  <2> QED  BY <2>1, <2>2, <2>3, <2>4, <2>5, <2>6
<1>9. ASSUME NEW p \in People, OnboardAlone(p)
      PROVE  MembersIInv'
  <2>1. MembersTyped'
    BY <1>9, SMTT(20) DEF OnboardAlone, Idle
  <2>2. InIsMember'
    BY <1>9, SMTT(20) DEF OnboardAlone, Idle, InIsMember
  <2>3. SessionsHoldTheirOwn'
    BY <1>9, SMTT(20) DEF OnboardAlone, Idle, SessionsHoldTheirOwn
  <2>4. UsedWereSent'
    BY <1>9, SMTT(20) DEF OnboardAlone, Idle, UsedWereSent
  <2>5. InvitedOnly'
    BY <1>9, SMTT(20) DEF OnboardAlone, Idle, InvitedOnly
  <2>6. FounderFirst'
    BY <1>9, SMTT(20) DEF OnboardAlone, Idle, FounderFirst
  <2> QED  BY <2>1, <2>2, <2>3, <2>4, <2>5, <2>6
<1>10. ASSUME NEW p \in People, AcceptCommit(p)
      PROVE  MembersIInv'
  <2>1. MembersTyped'
    <3>1. PICK i \in session[p].invite : invite' = [invite EXCEPT ![i].accepted = TRUE]
      BY <1>10 DEF AcceptCommit
    <3>2. i \in Invites
      BY <3>1 DEF SessionRecord
    <3>3. invite' \in [Invites -> Invitation]
      BY <3>1, <3>2
    <3>4. session' \in [People -> SessionRecord]
      BY <1>10, <1>0 DEF AcceptCommit
    <3>5. member' \in [People -> Roles \cup {"none"}] /\ roles' \in [People -> SUBSET Roles]
      BY <1>10 DEF AcceptCommit, Materialize
    <3>6. linked' \subseteq user' /\ current' \subseteq user' /\ user' \subseteq People
      BY <1>10 DEF AcceptCommit
    <3>7. QED  BY <1>10, <3>3, <3>4, <3>5, <3>6 DEF AcceptCommit
  <2>2. InIsMember'
    BY <1>10, SMTT(20) DEF AcceptCommit, Materialize, Idle, InIsMember
  <2>3. SessionsHoldTheirOwn'
    BY <1>10, SMTT(20) DEF AcceptCommit, Materialize, Idle, SessionsHoldTheirOwn
  <2>4. UsedWereSent'
    <3>1. PICK i \in session[p].invite : invite' = [invite EXCEPT ![i].accepted = TRUE]
      BY <1>10 DEF AcceptCommit
    <3>2. i \in Invites /\ invite[i].state # "none"
      BY <3>1 DEF SessionsHoldTheirOwn
    <3>3. \A j \in Invites : invite'[j].state = invite[j].state
      BY <3>1, <3>2
    <3>4. \A j \in Invites : j # i => invite'[j] = invite[j]
      BY <3>1, <3>2
    <3>5. QED  BY <3>2, <3>3, <3>4 DEF UsedWereSent
  <2>5. InvitedOnly'
    <3>1. PICK i \in session[p].invite : invite' = [invite EXCEPT ![i].accepted = TRUE]
      BY <1>10 DEF AcceptCommit
    <3>2. i \in Invites /\ invite[i].to = p
      BY <3>1 DEF SessionsHoldTheirOwn
    <3>3. \A j \in Invites : invite'[j].to = invite[j].to
      BY <3>1, <3>2
    <3>4. \A j \in Invites : invite[j].accepted => invite'[j].accepted
      BY <3>1, <3>2
    <3>5. invite'[i].accepted
      BY <3>1, <3>2
    <3>6. \A q \in People : q # p => member'[q] = member[q]
      BY <1>10 DEF AcceptCommit, Materialize
    <3>7. ASSUME NEW q \in People \ {Founder}, ~OIDC, member'[q] # "none"
          PROVE  \E j \in Invites : invite'[j].to = q /\ invite'[j].accepted
      <4>1. CASE q = p
        BY <4>1, <3>2, <3>3, <3>5
      <4>2. CASE q # p
        <5>1. PICK j \in Invites : invite[j].to = q /\ invite[j].accepted
          BY <3>6, <3>7, <4>2 DEF InvitedOnly
        <5>2. QED  BY <5>1, <3>3, <3>4
      <4>3. QED  BY <4>1, <4>2
    <3>8. QED  BY <3>7 DEF InvitedOnly
  <2>6. FounderFirst'
    BY <1>10, SMTT(20) DEF AcceptCommit, Materialize, Idle, FounderFirst
  <2> QED  BY <2>1, <2>2, <2>3, <2>4, <2>5, <2>6
<1>11. ASSUME NEW p \in People, OidcLink(p)
      PROVE  MembersIInv'
  <2>1. MembersTyped'
    BY <1>11, SMTT(20) DEF OidcLink, FoundByEmail
  <2>2. InIsMember'
    BY <1>11, SMTT(20) DEF OidcLink, FoundByEmail, InIsMember
  <2>3. SessionsHoldTheirOwn'
    BY <1>11, SMTT(20) DEF OidcLink, FoundByEmail, SessionsHoldTheirOwn
  <2>4. UsedWereSent'
    BY <1>11, SMTT(20) DEF OidcLink, FoundByEmail, UsedWereSent
  <2>5. InvitedOnly'
    BY <1>11, SMTT(20) DEF OidcLink, FoundByEmail, InvitedOnly
  <2>6. FounderFirst'
    BY <1>11, SMTT(20) DEF OidcLink, FoundByEmail, FounderFirst
  <2> QED  BY <2>1, <2>2, <2>3, <2>4, <2>5, <2>6
<1>12. ASSUME NEW p \in People, OidcCreate(p)
      PROVE  MembersIInv'
  <2>1. MembersTyped'
    BY <1>12, SMTT(20) DEF OidcCreate
  <2>2. InIsMember'
    BY <1>12, SMTT(20) DEF OidcCreate, InIsMember
  <2>3. SessionsHoldTheirOwn'
    BY <1>12, SMTT(20) DEF OidcCreate, SessionsHoldTheirOwn
  <2>4. UsedWereSent'
    BY <1>12, SMTT(20) DEF OidcCreate, UsedWereSent
  <2>5. InvitedOnly'
    BY <1>12, SMTT(20) DEF OidcCreate, InvitedOnly
  <2>6. FounderFirst'
    BY <1>12, SMTT(20) DEF OidcCreate, FounderFirst
  <2> QED  BY <2>1, <2>2, <2>3, <2>4, <2>5, <2>6
<1>13. ASSUME NEW p \in People, OidcJoin(p)
      PROVE  MembersIInv'
  <2>1. MembersTyped'
    BY <1>13, SMTT(20) DEF OidcJoin, Materialize, Idle
  <2>2. InIsMember'
    BY <1>13, SMTT(20) DEF OidcJoin, Materialize, Idle, InIsMember
  <2>3. SessionsHoldTheirOwn'
    BY <1>13, SMTT(20) DEF OidcJoin, Materialize, Idle, SessionsHoldTheirOwn
  <2>4. UsedWereSent'
    BY <1>13, SMTT(20) DEF OidcJoin, Materialize, Idle, UsedWereSent
  <2>5. InvitedOnly'
    BY <1>13, SMTT(20) DEF OidcJoin, Materialize, Idle, InvitedOnly
  <2>6. FounderFirst'
    BY <1>13, SMTT(20) DEF OidcJoin, Materialize, Idle, FounderFirst
  <2> QED  BY <2>1, <2>2, <2>3, <2>4, <2>5, <2>6
<1>14. ASSUME NEW p \in People, OidcBootstrap(p)
      PROVE  MembersIInv'
  <2>1. MembersTyped'
    BY <1>14, SMTT(20) DEF OidcBootstrap, Materialize
  <2>2. InIsMember'
    BY <1>14, SMTT(20) DEF OidcBootstrap, Materialize, InIsMember
  <2>3. SessionsHoldTheirOwn'
    BY <1>14, SMTT(20) DEF OidcBootstrap, Materialize, SessionsHoldTheirOwn
  <2>4. UsedWereSent'
    BY <1>14, SMTT(20) DEF OidcBootstrap, Materialize, UsedWereSent
  <2>5. InvitedOnly'
    BY <1>14, SMTT(20) DEF OidcBootstrap, Materialize, InvitedOnly
  <2>6. FounderFirst'
    BY <1>14, SMTT(20) DEF OidcBootstrap, Materialize, FounderFirst
  <2> QED  BY <2>1, <2>2, <2>3, <2>4, <2>5, <2>6
<1>15. ASSUME NEW p \in People, OidcClear(p)
      PROVE  MembersIInv'
  <2>1. MembersTyped'
    <3>1. session' \in [People -> SessionRecord]
      BY <1>15, <1>0 DEF OidcClear
    <3>2. QED  BY <1>15, <3>1 DEF OidcClear
  <2>2. InIsMember'
    BY <1>15, SMTT(20) DEF OidcClear, Idle, InIsMember
  <2>3. SessionsHoldTheirOwn'
    BY <1>15, SMTT(20) DEF OidcClear, Idle, SessionsHoldTheirOwn
  <2>4. UsedWereSent'
    BY <1>15, SMTT(20) DEF OidcClear, Idle, UsedWereSent
  <2>5. InvitedOnly'
    BY <1>15, SMTT(20) DEF OidcClear, Idle, InvitedOnly
  <2>6. FounderFirst'
    BY <1>15, SMTT(20) DEF OidcClear, Idle, FounderFirst
  <2> QED  BY <2>1, <2>2, <2>3, <2>4, <2>5, <2>6
<1>16. ASSUME NEW p \in People, RequestDies(p)
      PROVE  MembersIInv'
  <2>1. MembersTyped'
    BY <1>16, SMTT(20) DEF RequestDies, Idle
  <2>2. InIsMember'
    BY <1>16, SMTT(20) DEF RequestDies, Idle, InIsMember
  <2>3. SessionsHoldTheirOwn'
    BY <1>16, SMTT(20) DEF RequestDies, Idle, SessionsHoldTheirOwn
  <2>4. UsedWereSent'
    BY <1>16, SMTT(20) DEF RequestDies, Idle, UsedWereSent
  <2>5. InvitedOnly'
    BY <1>16, SMTT(20) DEF RequestDies, Idle, InvitedOnly
  <2>6. FounderFirst'
    BY <1>16, SMTT(20) DEF RequestDies, Idle, FounderFirst
  <2> QED  BY <2>1, <2>2, <2>3, <2>4, <2>5, <2>6
<1>17. CASE UNCHANGED memberVars
  BY <1>17 DEF memberVars, InIsMember, SessionsHoldTheirOwn, UsedWereSent, InvitedOnly, FounderFirst
<1> QED  BY <1>1, <1>2, <1>3, <1>4, <1>5, <1>6, <1>7, <1>8, <1>9, <1>10,
           <1>11, <1>12, <1>13, <1>14, <1>15, <1>16, <1>17
           DEF MembershipNext, OidcStep

\* The invariant holds of a new organization.
LEMMA MembersStart == MembershipInit => MembersIInv
<1> SUFFICES ASSUME MembershipInit PROVE MembersIInv
  OBVIOUS
<1> USE MembershipAssumption DEF MembershipInit, Roles, NoInvite, Idle
<1>1. MembersTyped
  <2>1. invite \in [Invites -> Invitation]
    BY DEF Invitation
  <2>2. session \in [People -> SessionRecord]
    BY DEF SessionRecord, PcOf
  <2>3. member \in [People -> Roles \cup {"none"}] /\ roles \in [People -> SUBSET Roles]
    OBVIOUS
  <2>4. linked \subseteq user /\ current \subseteq user /\ user \subseteq People
    OBVIOUS
  <2>5. bootstrap \in BOOLEAN
    BY DEF OIDC
  <2>6. default \in Roles /\ revoking \subseteq Invites 
        /\ edits \in Nat /\ crashes \in 0 .. MaxCrashes
    OBVIOUS
  <2>7. QED  BY ONLY <2>1, <2>2, <2>3, <2>4, <2>5, <2>6, Zenon DEF MembersTyped
<1>2. InIsMember
  BY DEF InIsMember
<1>3. SessionsHoldTheirOwn /\ UsedWereSent
  BY DEF SessionsHoldTheirOwn, UsedWereSent
<1>4. InvitedOnly
  BY DEF InvitedOnly
<1>5. FounderFirst
  BY DEF FounderFirst
<1> QED  BY <1>1, <1>2, <1>3, <1>4, <1>5 DEF MembersIInv

\* The invariant says that nobody is halfway in, came uninvited or is an admin first.
LEMMA MembersSuffice == MembersIInv => MembershipsAreWhole
<1> SUFFICES ASSUME MembersIInv PROVE MembershipsAreWhole
  OBVIOUS
<1>1. MembershipTypeOK
  BY DEF MembersIInv, MembersTyped, MembershipTypeOK, Invitation, SessionRecord, PcOf
<1>2. (~OIDC \/ MaxCrashes = 0) => NobodyHalfIn
  BY DEF MembersIInv, InIsMember, NobodyHalfIn
<1>3. OneFirstAdmin
  BY DEF MembersIInv, MembersTyped, FounderFirst, OneFirstAdmin
<1> QED  BY <1>1, <1>2, <1>3 DEF MembershipsAreWhole, MembersIInv

\* However first logins, invitations and revocations race and die: nobody is left halfway
\* in, everyone came by an invitation of their own, and nobody but the founder is an admin
\* before an edit (MembershipsAreWhole), for any people, invitations and bounds.
THEOREM WholeMemberships == MembershipSpec => []MembershipsAreWhole
<1>1. MembershipSpec => []MembersIInv
  BY MembersStart, MembersStep, PTL DEF MembershipSpec
<1> QED  BY <1>1, MembersSuffice, PTL

-----------------------------------------------------------------------------
(* The access engine.                                                      *)

Gives(P, act) == \E p \in P : \E b \in p.actions : ~b.deny /\ act \in {b.act} \cup Implied(b.act)
Refuses(P, act) == \E p \in P : \E b \in p.actions : b.deny /\ b.act = act

\* A verdict is a grant that no denial takes back.
LEMMA VerdictIs ==
    ASSUME NEW P, NEW act
    PROVE  act \in Verdict(P) <=> Gives(P, act) /\ ~Refuses(P, act)
<1> DEFINE G == {a.act : a \in {b \in UNION {p.actions : p \in P} : ~b.deny}}
           D == {a.act : a \in {b \in UNION {p.actions : p \in P} : b.deny}}
<1>1. act \in Verdict(P) <=> act \in UNION {{x} \cup Implied(x) : x \in G} /\ act \notin D
  BY Zenon DEF Verdict
<1>2. act \in D <=> Refuses(P, act)
  BY DEF Refuses
<1>3. \A x : x \in G <=> \E p \in P : \E b \in p.actions : ~b.deny /\ b.act = x
  OBVIOUS
<1>4. act \in UNION {{x} \cup Implied(x) : x \in G} <=> \E x \in G : act \in {x} \cup Implied(x)
  OBVIOUS
<1> HIDE DEF G, D
<1>5. act \in UNION {{x} \cup Implied(x) : x \in G} <=> Gives(P, act)
  <2>1. ASSUME NEW x \in G, act \in {x} \cup Implied(x) PROVE Gives(P, act)
    <3>1. PICK p \in P : \E b \in p.actions : ~b.deny /\ b.act = x
      BY <1>3
    <3> QED BY <2>1, <3>1 DEF Gives
  <2>2. ASSUME Gives(P, act) PROVE \E x \in G : act \in {x} \cup Implied(x)
    <3>0. PICK p \in P : \E b \in p.actions : ~b.deny /\ act \in {b.act} \cup Implied(b.act)
      BY <2>2 DEF Gives
    <3>1. PICK b \in p.actions : ~b.deny /\ act \in {b.act} \cup Implied(b.act)
      BY <3>0
    <3>2. b.act \in G
      BY <1>3, <3>1
    <3> QED BY <3>1, <3>2
  <2> QED BY <1>4, <2>1, <2>2
<1> QED BY <1>1, <1>2, <1>5

\* What matches with no resource at hand matches with any.
LEMMA MatchesMore ==
    ASSUME NEW conds, NEW own, NEW rtags, Matches(conds, own, [none |-> {}])
    PROVE  Matches(conds, own, [resource |-> rtags])
<1>1. CASE conds = Wildcard
  BY <1>1 DEF Matches
<1>2. CASE conds # Wildcard
  <2>1. ASSUME NEW c \in conds, c.side # "own" PROVE FALSE
    <3>1. c.side \in DOMAIN [none |-> {}] /\ \E pair \in [none |-> {}][c.side] : TRUE
      BY <1>2, <2>1 DEF Matches
    <3> QED BY <3>1
  <2>2. \A c \in conds : <<c.key, c.value>> \in own
    BY <1>2, <2>1 DEF Matches
  <2> QED BY <2>1, <2>2 DEF Matches
<1> QED BY <1>1, <1>2

\* The policies that apply to a resource are candidates before it is known.
LEMMA AppliesIsCandidate ==
    ASSUME NEW P, NEW p \in P, NEW own, NEW rtags, Applies(p, own, rtags)
    PROVE  p \in Candidates(P, own)
<1>1. CASE RefersToResource(p)
  BY <1>1 DEF Candidates
<1>2. CASE ~RefersToResource(p)
  <2>1. Matches(p.identity, own, [none |-> {}])
    BY <1>2 DEF Matches, RefersToResource, Applies
  <2> QED BY <2>1 DEF Candidates
<1> QED BY <1>1, <1>2

\* So the candidates decide each resource as all policies do.
LEMMA CandidatesSuffice ==
    ASSUME NEW P, NEW own, NEW rtags
    PROVE  Allowed(Candidates(P, own), own, rtags) = Allowed(P, own, rtags)
<1>1. {p \in Candidates(P, own) : Applies(p, own, rtags)} = {p \in P : Applies(p, own, rtags)}
  BY AppliesIsCandidate DEF Candidates
<1> QED BY <1>1 DEF Allowed

\* A blanket candidate applies to every resource.
LEMMA BlanketApplies ==
    ASSUME NEW P, NEW own, NEW p \in Blanket(P, own), NEW rtags
    PROVE  p \in P /\ Applies(p, own, rtags)
<1>1. p \in P /\ p.resource = Wildcard /\ Matches(p.identity, own, [none |-> {}])
  BY DEF Blanket, Candidates
<1>2. Matches(p.identity, own, [resource |-> rtags])
  BY <1>1, MatchesMore
<1>3. Matches(p.resource, rtags, [identity |-> own])
  BY <1>1 DEF Matches
<1> QED BY <1>1, <1>2, <1>3 DEF Applies

\* The short cut is right where no denial hides behind a reference to the resource.
LEMMA ShortcutIsRight ==
    ASSUME NEW P, NEW own, NEW rtags, NEW act, Shortcut(P, own, act),
           \A p \in P : ~BlindDenial(p)
    PROVE  act \in Allowed(P, own, rtags)
<1> DEFINE A == {p \in P : Applies(p, own, rtags)}
<1>1. Gives(Blanket(P, own), act) /\ ~Refuses(Blanket(P, own), act)
  BY VerdictIs DEF Shortcut
<1>2. Gives(A, act)
  <2>1. Blanket(P, own) \subseteq A
    BY BlanketApplies
  <2> QED BY <1>1, <2>1 DEF Gives
<1>3. ~Refuses(A, act)
  <2> SUFFICES ASSUME NEW p \in A, NEW b \in p.actions, b.deny, b.act = act PROVE FALSE
    BY DEF Refuses
  <2>1. p \in P /\ p \in Candidates(P, own) /\ Denies(p)
    BY AppliesIsCandidate DEF Denies
  <2>2. p.resource = Wildcard
    BY <2>1 DEF Shortcut
  <2>3. ~RefersToResource(p)
    BY <2>1, <2>2 DEF BlindDenial
  <2>4. p \in Blanket(P, own)
    BY <2>1, <2>2, <2>3 DEF Blanket
  <2> QED BY <2>4, <1>1 DEF Refuses
<1> HIDE DEF A
<1>4. act \in Verdict(A)
  BY <1>2, <1>3, VerdictIs
<1> QED BY <1>4 DEF Allowed, A

\* A listing is by its definition the check of each resource.
LEMMA ListingIsTheCheck ==
    ASSUME NEW P, NEW own, NEW tagsOf, NEW act, \A p \in P : ~BlindDenial(p)
    PROVE  Permitted(P, own, tagsOf, act) = PermittedByCheck(P, own, tagsOf, act)
<1>1. CASE Shortcut(P, own, act)
  BY <1>1, ShortcutIsRight DEF Permitted, PermittedByCheck
<1>2. CASE ~Shortcut(P, own, act)
  BY <1>2, CandidatesSuffice DEF Permitted, PermittedByCheck
<1> QED BY <1>1, <1>2

\* What is granted before the resource exists is granted on it, where nothing denies.
LEMMA UnscopedIsAllowed ==
    ASSUME NEW P, NEW own, NEW rtags, NEW act, act \in Unscoped(P, own), \A p \in P : ~Denies(p)
    PROVE  act \in Allowed(P, own, rtags)
<1> DEFINE A == {p \in P : Applies(p, own, rtags)}
           U == {p \in P : Matches(p.identity, own, [none |-> {}]) /\ p.resource = Wildcard}
<1>1. U \subseteq A
  BY MatchesMore DEF Applies, Matches
<1>2. Gives(U, act)
  <2> HIDE DEF U
  <2> QED BY VerdictIs DEF Unscoped, U
<1>3. Gives(A, act)
  BY <1>1, <1>2 DEF Gives
<1>4. ~Refuses(A, act)
  BY DEF Refuses, Denies
<1> HIDE DEF A
<1>5. act \in Verdict(A)
  BY <1>3, <1>4, VerdictIs
<1> QED BY <1>5 DEF Allowed, A

-----------------------------------------------------------------------------
(* The seeds.                                                              *)

LEMMA SeedIs ==
    ASSUME NEW name, NEW type, NEW identity, NEW resource, NEW acts
    PROVE  LET p == SeedPolicy(name, type, identity, resource, acts)
           IN  /\ p.name = <<"seed", name, type>> /\ p.type = type
               /\ p.identity = identity /\ p.resource = resource
               /\ p.actions = {[act |-> a, deny |-> FALSE] : a \in acts}
               /\ IsPolicy(p) /\ ~Denies(p)
<1> DEFINE p == SeedPolicy(name, type, identity, resource, acts)
<1>1. UNION {GrantOf(a) : a \in acts} = {[act |-> a, deny |-> FALSE] : a \in acts}
  BY DEF GrantOf
<1>2. p = [name |-> <<"seed", name, type>>, type |-> type, identity |-> identity, resource |-> resource,
           actions |-> {[act |-> a, deny |-> FALSE] : a \in acts}]
  BY <1>1 DEF SeedPolicy
<1>3. IsPolicy(p)
  BY <1>2 DEF IsPolicy
<1>4. ~Denies(p)
  BY <1>2 DEF Denies
<1> QED BY <1>2, <1>3, <1>4

\* No seed denies, none names an app; each is valid and has a name of its own.
LEMMA SeedsAreSound ==
    /\ \A p \in SeedPolicies : /\ IsPolicy(p) /\ ~Denies(p)
                              /\ p.name[1] = "seed"
                              /\ ValidConditions(p.identity, "identity")
                              /\ ValidConditions(p.resource, "resource")
                              /\ \A a : ~NamesApp(p, a)
    /\ \A p, q \in SeedPolicies : p.name = q.name => p = q
<1> DEFINE rw == RolePolicy("admin", "workspace", {"workspace:admin"})
           ra == RolePolicy("admin", "app", {"app:use"})
           mw == RolePolicy("member", "workspace", {"workspace:view", "workspace:edit"})
           vw == RolePolicy("viewer", "workspace", {"workspace:view"})
           ow == SeedPolicy("owner", "app", {Reference("username", "resource", "owner")},
                     {Literal("app-type", "personal-assistant")}, {"app:use"})
           te == SeedPolicy("to-everyone", "credential", {Literal("authenticated", "true")},
                     {Literal("sharing-scope", "everyone")}, {"credential:use"})
           tu == SeedPolicy("to-user", "credential", {Reference("username", "resource", "shared-with-user")},
                     {Literal("sharing-scope", "user")}, {"credential:use"})
           tw == SeedPolicy("to-workspace", "credential", {Literal("authenticated", "true")},
                     {Reference("shared-with-workspace", "app", "workspace-name")}, {"credential:use"})
<1>1. SeedPolicies = {rw, ra, mw, vw, ow, te, tu, tw}
  BY DEF SeedPolicies
<1>2. /\ rw.name = <<"seed", "admin", "workspace">> /\ ra.name = <<"seed", "admin", "app">>
      /\ mw.name = <<"seed", "member", "workspace">> /\ vw.name = <<"seed", "viewer", "workspace">>
      /\ ow.name = <<"seed", "owner", "app">> /\ te.name = <<"seed", "to-everyone", "credential">>
      /\ tu.name = <<"seed", "to-user", "credential">> /\ tw.name = <<"seed", "to-workspace", "credential">>
  BY SeedIs DEF RolePolicy
<1>3. \A p \in {rw, ra, mw, vw, ow, te, tu, tw} : IsPolicy(p) /\ ~Denies(p)
  BY SeedIs DEF RolePolicy
<1>4. /\ rw.identity = {Literal("org-role", "admin")} /\ rw.resource = Wildcard
      /\ ra.identity = {Literal("org-role", "admin")} /\ ra.resource = Wildcard
      /\ mw.identity = {Literal("org-role", "member")} /\ mw.resource = Wildcard
      /\ vw.identity = {Literal("org-role", "viewer")} /\ vw.resource = Wildcard
      /\ ow.identity = {Reference("username", "resource", "owner")}
      /\ ow.resource = {Literal("app-type", "personal-assistant")}
      /\ te.identity = {Literal("authenticated", "true")} /\ te.resource = {Literal("sharing-scope", "everyone")}
      /\ tu.identity = {Reference("username", "resource", "shared-with-user")}
      /\ tu.resource = {Literal("sharing-scope", "user")}
      /\ tw.identity = {Literal("authenticated", "true")}
      /\ tw.resource = {Reference("shared-with-workspace", "app", "workspace-name")}
  BY SeedIs DEF RolePolicy
<1> HIDE DEF rw, ra, mw, vw, ow, te, tu, tw
<1>5. \A p \in SeedPolicies : ValidConditions(p.identity, "identity") /\ ValidConditions(p.resource, "resource")
  BY <1>1, <1>4 DEF ValidConditions, Wildcard, Literal, Reference
<1>6. \A p \in SeedPolicies : \A a : ~NamesApp(p, a)
  BY <1>1, <1>4 DEF NamesApp, Wildcard, Literal, Reference
<1>7. \A p \in SeedPolicies : p.name[1] = "seed"
  BY <1>1, <1>2
<1>8. \A p, q \in SeedPolicies : p.name = q.name => p = q
  <2>1. \A p \in SeedPolicies : p.name \in {rw.name, ra.name, mw.name, vw.name, ow.name, te.name, tu.name, tw.name}
    BY <1>1
  <2> QED BY <1>1, <1>2
<1> QED BY <1>1, <1>3, <1>5, <1>6, <1>7, <1>8

\* The seeds about apps and about credentials, one by one.
AdminSeed == RolePolicy("admin", "app", {"app:use"})
OwnerSeed ==
    SeedPolicy("owner", "app", {Reference("username", "resource", "owner")},
               {Literal("app-type", "personal-assistant")}, {"app:use"})
ToEveryone ==
    SeedPolicy("to-everyone", "credential", {Literal("authenticated", "true")},
               {Literal("sharing-scope", "everyone")}, {"credential:use"})
ToUser ==
    SeedPolicy("to-user", "credential", {Reference("username", "resource", "shared-with-user")},
               {Literal("sharing-scope", "user")}, {"credential:use"})
ToWorkspace ==
    SeedPolicy("to-workspace", "credential", {Literal("authenticated", "true")},
               {Reference("shared-with-workspace", "app", "workspace-name")}, {"credential:use"})

LEMMA NamedSeeds ==
    /\ {AdminSeed, OwnerSeed, ToEveryone, ToUser, ToWorkspace} \subseteq SeedPolicies
    /\ \A p \in SeedPolicies : p.type = "app" => p \in {AdminSeed, OwnerSeed}
    /\ \A p \in SeedPolicies : p.type = "credential" => p \in {ToEveryone, ToUser, ToWorkspace}
<1>1. {AdminSeed, OwnerSeed, ToEveryone, ToUser, ToWorkspace} \subseteq SeedPolicies
  BY DEF SeedPolicies, AdminSeed, OwnerSeed, ToEveryone, ToUser, ToWorkspace
<1>2. \A p \in SeedPolicies : \/ p.type = "workspace"
                              \/ p \in {AdminSeed, OwnerSeed, ToEveryone, ToUser, ToWorkspace}
  <2>1. \A name, acts : RolePolicy(name, "workspace", acts).type = "workspace"
    BY SeedIs DEF RolePolicy
  <2> QED BY <2>1 DEF SeedPolicies, AdminSeed, OwnerSeed, ToEveryone, ToUser, ToWorkspace
<1>3. /\ AdminSeed.type = "app" /\ OwnerSeed.type = "app" /\ ToEveryone.type = "credential"
      /\ ToUser.type = "credential" /\ ToWorkspace.type = "credential"
  BY SeedIs DEF AdminSeed, OwnerSeed, ToEveryone, ToUser, ToWorkspace, RolePolicy
<1> HIDE DEF AdminSeed, OwnerSeed, ToEveryone, ToUser, ToWorkspace
<1> QED BY <1>1, <1>2, <1>3

\* What the named seeds say.
LEMMA AppSeedsAre ==
    /\ AdminSeed.type = "app" /\ AdminSeed.identity = {Literal("org-role", "admin")}
    /\ AdminSeed.resource = Wildcard /\ AdminSeed.actions = GrantOf("app:use")
    /\ OwnerSeed.type = "app" /\ OwnerSeed.identity = {Reference("username", "resource", "owner")}
    /\ OwnerSeed.resource = {Literal("app-type", "personal-assistant")}
    /\ OwnerSeed.actions = GrantOf("app:use")
BY SeedIs DEF AdminSeed, OwnerSeed, RolePolicy, GrantOf

LEMMA CredentialSeedsAre ==
    /\ \A p \in {ToEveryone, ToUser, ToWorkspace} : p.type = "credential" /\ p.actions = GrantOf("credential:use")
    /\ ToEveryone.identity = {Literal("authenticated", "true")}
    /\ ToEveryone.resource = {Literal("sharing-scope", "everyone")}
    /\ ToUser.identity = {Reference("username", "resource", "shared-with-user")}
    /\ ToUser.resource = {Literal("sharing-scope", "user")}
    /\ ToWorkspace.identity = {Literal("authenticated", "true")}
    /\ ToWorkspace.resource = {Reference("shared-with-workspace", "app", "workspace-name")}
<1>1. /\ ToEveryone.type = "credential" /\ ToEveryone.actions = GrantOf("credential:use")
      /\ ToUser.type = "credential" /\ ToUser.actions = GrantOf("credential:use")
      /\ ToWorkspace.type = "credential" /\ ToWorkspace.actions = GrantOf("credential:use")
  BY SeedIs DEF ToEveryone, ToUser, ToWorkspace, GrantOf
<1>2. /\ ToEveryone.identity = {Literal("authenticated", "true")}
      /\ ToEveryone.resource = {Literal("sharing-scope", "everyone")}
      /\ ToUser.identity = {Reference("username", "resource", "shared-with-user")}
      /\ ToUser.resource = {Literal("sharing-scope", "user")}
      /\ ToWorkspace.identity = {Literal("authenticated", "true")}
      /\ ToWorkspace.resource = {Reference("shared-with-workspace", "app", "workspace-name")}
  BY SeedIs DEF ToEveryone, ToUser, ToWorkspace
<1> HIDE DEF ToEveryone, ToUser, ToWorkspace
<1> QED BY <1>1, <1>2

\* The open policy of an app.
LEMMA DefaultIs ==
    ASSUME NEW a
    PROVE  /\ DefaultPolicy(a).name = <<"default", a, "app">> /\ DefaultPolicy(a).type = "app"
           /\ DefaultPolicy(a).identity = Wildcard
           /\ DefaultPolicy(a).resource = {Literal("app-name", a)}
           /\ DefaultPolicy(a).actions = GrantOf("app:use")
           /\ IsPolicy(DefaultPolicy(a)) /\ ~Denies(DefaultPolicy(a))
           /\ ValidConditions(DefaultPolicy(a).identity, "identity")
           /\ ValidConditions(DefaultPolicy(a).resource, "resource")
           /\ \A b : NamesApp(DefaultPolicy(a), b) <=> b = a
<1>1. DefaultPolicy(a) = [name |-> <<"default", a, "app">>, type |-> "app", identity |-> Wildcard,
                          resource |-> {Literal("app-name", a)}, actions |-> GrantOf("app:use")]
  BY DEF DefaultPolicy
<1>2. IsPolicy(DefaultPolicy(a))
  BY <1>1 DEF IsPolicy
<1>3. ~Denies(DefaultPolicy(a))
  BY <1>1 DEF Denies, GrantOf
<1>4. /\ ValidConditions(DefaultPolicy(a).identity, "identity")
      /\ ValidConditions(DefaultPolicy(a).resource, "resource")
  BY <1>1 DEF ValidConditions, Wildcard, Literal
<1>5. ASSUME NEW b PROVE NamesApp(DefaultPolicy(a), b) <=> b = a
  BY <1>1 DEF NamesApp, Literal
<1> QED BY <1>1, <1>2, <1>3, <1>4, <1>5

-----------------------------------------------------------------------------
(* Sets of policies.                                                       *)

\* Every policy is a record that is valid, has a name of its own, and is no blind
\* denial unless an admin wrote one.
SoundPolicy(p) ==
    /\ IsPolicy(p)
    /\ ValidConditions(p.identity, "identity") /\ ValidConditions(p.resource, "resource")
    /\ NoBlindDenials => ~BlindDenial(p)
Sound(P) ==
    /\ \A p \in P : SoundPolicy(p)
    /\ \A p, q \in P : p.name = q.name => p = q

\* Policies that are added by name keep the names apart, and what was there stays.
LEMMA GetOrCreateKeeps ==
    ASSUME NEW P, NEW seeds, Sound(P), Sound(seeds)
    PROVE  /\ Sound(GetOrCreate(P, seeds))
           /\ P \subseteq GetOrCreate(P, seeds) /\ GetOrCreate(P, seeds) \subseteq P \cup seeds
<1> DEFINE new == {p \in seeds : p.name \notin Names(P)}
<1>1. GetOrCreate(P, seeds) = P \cup new
  BY DEF GetOrCreate
<1>2. \A p \in P, q \in new : p.name # q.name
  BY DEF Names
<1> QED BY <1>1, <1>2 DEF Sound

\* A policy is there afterwards, unless another one has its name.
LEMMA GetOrCreateGives ==
    ASSUME NEW P, NEW seeds, NEW p \in seeds, \A q \in P : q.name = p.name => q = p
    PROVE  p \in GetOrCreate(P, seeds)
BY DEF GetOrCreate, Names

LEMMA SeedsSound == Sound(SeedPolicies)
BY SeedsAreSound DEF Sound, SoundPolicy, BlindDenial

LEMMA DefaultsSound == ASSUME NEW a, NEW who PROVE Sound(DefaultPolicies(a, who))
<1>1. SoundPolicy(DefaultPolicy(a))
  BY DefaultIs DEF SoundPolicy, BlindDenial
<1> QED BY <1>1 DEF Sound, DefaultPolicies

LEMMA AdminsSound == \A p \in AdminPolicies : SoundPolicy(p)
BY AccessAssumption DEF SoundPolicy, NoBlindDenials

\* The form keeps the content valid whatever name the policy gets.
LEMMA RenamedSound ==
    ASSUME NEW p, SoundPolicy(p), NEW name
    PROVE  SoundPolicy([p EXCEPT !.name = name]) /\ [p EXCEPT !.name = name].name = name
<1>1. [p EXCEPT !.name = name] = [name |-> name, type |-> p.type, identity |-> p.identity,
                                  resource |-> p.resource, actions |-> p.actions]
  BY DEF SoundPolicy, IsPolicy
<1> DEFINE q == [p EXCEPT !.name = name]
<1>2. /\ q.name = name /\ q.type = p.type /\ q.identity = p.identity
      /\ q.resource = p.resource /\ q.actions = p.actions
  BY <1>1
<1>3. IsPolicy(q)
  BY <1>1 DEF IsPolicy
<1> HIDE DEF q
<1>4. SoundPolicy(q)
  BY <1>2, <1>3 DEF SoundPolicy, BlindDenial, Denies, RefersToResource
<1> QED BY <1>2, <1>4 DEF q

-----------------------------------------------------------------------------
(* The invariant.                                                          *)

\* A person has one username.
UsernamesAreOwn ==
    /\ \A u \in Users : /\ <<"username", u>> \in attrs[u]
                        /\ \A pair \in attrs[u] : pair[1] = "username" => pair = <<"username", u>>
    /\ \A g \in Groups : \A pair \in groupAttrs[g] : pair[1] # "username"

OwnerTags(a) ==
    IF owner[a] = Everyone THEN {}
    ELSE {<<"app-type", "personal-assistant">>, <<"owner", owner[a]>>}

\* Of the keys that the seeds look at, a resource has the tags it was given.
SeedTagsAreOwn ==
    /\ \A w \in Workspaces :
          /\ <<"workspace-name", w>> \in tags[w]
          /\ \A pair \in tags[w] : pair[1] \in SeedTags => pair = <<"workspace-name", w>>
    /\ \A a \in Apps :
          /\ OwnerTags(a) \subseteq tags[a]
          /\ \A pair \in tags[a] : pair[1] \in SeedTags => pair \in OwnerTags(a) \cup {<<"app-name", a>>}
    /\ \A c \in Credentials : tags[c] = ScopeTags(c, scope[c])

\* The seeds are there, and a live app has its name and its open policy.
Given(a) ==
    <<"app-name", a>> \in tags[a] /\ (owner[a] = Everyone => DefaultPolicy(a) \in policies)

\* As long as no admin has written policies or tags.
SeedsAlone ==
    ~edited =>
      /\ \A p \in policies :
            p \in SeedPolicies \/ \E a \in live : owner[a] = Everyone /\ p = DefaultPolicy(a)
      /\ reset.pc \in {"idle", "apps"} =>
            SeedPolicies \subseteq policies /\ \A a \in live \ reset.apps : Given(a)

AccessIInv ==
    /\ AccessTypeOK /\ Sound(policies)
    /\ reset.pc # "apps" => reset.apps = {}
    /\ SeedKeysAreKept => UsernamesAreOwn /\ SeedTagsAreOwn /\ SeedsAlone

-----------------------------------------------------------------------------
(* Steps.                                                                  *)

LEMMA PoliciesStaySound == ASSUME Sound(policies), AccessNext PROVE Sound(policies)'
<1> SUFFICES Sound(policies')
  BY DEF Sound, SoundPolicy, IsPolicy, ValidConditions, NoBlindDenials, BlindDenial, Denies, RefersToResource
<1>1. CASE policies' \subseteq policies
  BY <1>1 DEF Sound
<1>2. ASSUME NEW p \in AdminPolicies, CreatePolicy(p) PROVE Sound(policies')
  <2>1. policies' = policies \cup {p} /\ \A q \in policies : q.name # p.name
    BY <1>2 DEF CreatePolicy, Names
  <2> QED BY <2>1, AdminsSound DEF Sound
<1>3. ASSUME NEW old \in policies, NEW p \in AdminPolicies, EditPolicy(old, p) PROVE Sound(policies')
  <2>1. PICK name \in {old.name} \cup ({p.name} \ Names(policies)) :
            policies' = (policies \ {old}) \cup {[p EXCEPT !.name = name]}
    BY <1>3 DEF EditPolicy
  <2>2. \A q \in policies \ {old} : q.name # name
    BY DEF Sound, Names
  <2>3. SoundPolicy([p EXCEPT !.name = name]) /\ [p EXCEPT !.name = name].name = name
    BY AdminsSound, RenamedSound
  <2> QED BY <2>1, <2>2, <2>3 DEF Sound
<1>4. ASSUME NEW a \in Apps, NEW who \in Users \cup {Everyone}, CreateApp(a, who) PROVE Sound(policies')
  BY <1>4, DefaultsSound, GetOrCreateKeeps DEF CreateApp
<1>5. ASSUME NEW a \in Apps, ResetApp(a) PROVE Sound(policies')
  BY <1>5, DefaultsSound, GetOrCreateKeeps DEF ResetApp
<1>6. CASE ResetSeed
  BY <1>6, SeedsSound, GetOrCreateKeeps DEF ResetSeed
<1>7. CASE \/ \E u \in Users, pair \in EditPairs : EditAttribute(u, pair)
           \/ \E g \in Groups, pair \in EditPairs : EditGroup(g, pair)
           \/ \E u \in Users, g \in Groups : EditMember(u, g)
           \/ \E g \in Groups : DeleteGroup(g)
           \/ \E p \in policies : DeletePolicy(p)
           \/ \E u \in Users, r \in Workspaces \cup Apps, pair \in EditTags : SaveTags(u, r, pair)
           \/ \E a \in Apps : RemoveApp(a)
           \/ \E c \in Credentials, s \in Scopes : ShareCredential(c, s)
           \/ ResetDelete \/ ResetDone \/ ResetBreaks
  <2>1. policies' \subseteq policies
    BY <1>7 DEF EditAttribute, EditGroup, EditMember, DeleteGroup, DeletePolicy, SaveTags, RemoveApp,
                ShareCredential, ResetDelete, ResetDone, ResetBreaks
  <2> QED BY <2>1, <1>1
<1> QED BY <1>2, <1>3, <1>4, <1>5, <1>6, <1>7 DEF AccessNext

\* The people: their attributes and groups.
LEMMA PeopleStayTyped ==
    ASSUME AccessTypeOK, AccessNext
    PROVE  DOMAIN attrs' = Users /\ DOMAIN groupAttrs' = Groups /\ groupOf' \subseteq Users \X Groups
<1>1. ASSUME NEW u \in Users, NEW pair \in EditPairs, EditAttribute(u, pair)
      PROVE  DOMAIN attrs' = Users /\ UNCHANGED <<groupAttrs, groupOf>>
  BY <1>1 DEF EditAttribute, AccessTypeOK
<1>2. ASSUME NEW g \in Groups, NEW pair \in EditPairs, EditGroup(g, pair)
      PROVE  DOMAIN groupAttrs' = Groups /\ UNCHANGED <<attrs, groupOf>>
  BY <1>2 DEF EditGroup, AccessTypeOK
<1>3. ASSUME NEW u \in Users, NEW g \in Groups, EditMember(u, g)
      PROVE  groupOf' \subseteq Users \X Groups /\ UNCHANGED <<attrs, groupAttrs>>
  BY <1>3 DEF EditMember, AccessTypeOK
<1>4. ASSUME NEW g \in Groups, DeleteGroup(g)
      PROVE  DOMAIN groupAttrs' = Groups /\ groupOf' \subseteq Users \X Groups /\ UNCHANGED attrs
  BY <1>4 DEF DeleteGroup, AccessTypeOK
<1>5. CASE ResetSeed
  <2>1. DOMAIN attrs' = Users /\ UNCHANGED <<groupAttrs, groupOf>>
    BY <1>5 DEF ResetSeed, AccessTypeOK
  <2> QED BY <2>1 DEF AccessTypeOK
<1>6. CASE PeopleUnchanged
  BY <1>6 DEF PeopleUnchanged, AccessTypeOK
<1>7. \/ PeopleUnchanged \/ ResetSeed
      \/ \E u \in Users, pair \in EditPairs : EditAttribute(u, pair)
      \/ \E g \in Groups, pair \in EditPairs : EditGroup(g, pair)
      \/ \E u \in Users, g \in Groups : EditMember(u, g)
      \/ \E g \in Groups : DeleteGroup(g)
  BY Zenon DEF AccessNext, CreatePolicy, EditPolicy, DeletePolicy, SaveTags, CreateApp, RemoveApp,
               ShareCredential, ResetDelete, ResetDone, ResetBreaks, ResetApp
<1> QED BY <1>1, <1>2, <1>3, <1>4, <1>5, <1>6, <1>7 DEF AccessTypeOK

\* The apps, the tags and the shares.
LEMMA AppsStayTyped ==
    ASSUME AccessTypeOK, AccessNext
    PROVE  /\ live' \subseteq Apps /\ owner' \in [Apps -> Users \cup {Everyone}]
           /\ DOMAIN tags' = Workspaces \cup Apps \cup Credentials /\ scope' \in [Credentials -> Scopes]
<1>1. ASSUME NEW a \in Apps, NEW who \in Users \cup {Everyone}, CreateApp(a, who)
      PROVE  /\ live' \subseteq Apps /\ owner' \in [Apps -> Users \cup {Everyone}]
             /\ DOMAIN tags' = Workspaces \cup Apps \cup Credentials /\ UNCHANGED scope
  BY <1>1 DEF CreateApp, AccessTypeOK
<1>2. ASSUME NEW a \in Apps, RemoveApp(a)
      PROVE  /\ live' \subseteq Apps /\ owner' \in [Apps -> Users \cup {Everyone}]
             /\ DOMAIN tags' = Workspaces \cup Apps \cup Credentials /\ UNCHANGED scope
  BY <1>2 DEF RemoveApp, AccessTypeOK
<1>3. ASSUME NEW c \in Credentials, NEW s \in Scopes, ShareCredential(c, s)
      PROVE  /\ scope' \in [Credentials -> Scopes] /\ UNCHANGED <<live, owner>>
             /\ DOMAIN tags' = Workspaces \cup Apps \cup Credentials
  BY <1>3 DEF ShareCredential, AccessTypeOK
<1>4. ASSUME NEW a \in Apps, ResetApp(a)
      PROVE  DOMAIN tags' = Workspaces \cup Apps \cup Credentials /\ UNCHANGED <<live, owner, scope>>
  BY <1>4 DEF ResetApp, AccessTypeOK
<1>5. ASSUME NEW u \in Users, NEW r \in Workspaces \cup Apps, NEW pair \in EditTags, SaveTags(u, r, pair)
      PROVE  DOMAIN tags' = Workspaces \cup Apps \cup Credentials /\ UNCHANGED <<live, owner, scope>>
  BY <1>5 DEF SaveTags, AccessTypeOK
<1>6. CASE UNCHANGED <<live, owner, tags, scope>>
  BY <1>6 DEF AccessTypeOK
<1>7. \/ UNCHANGED <<live, owner, tags, scope>>
      \/ \E a \in Apps, who \in Users \cup {Everyone} : CreateApp(a, who)
      \/ \E a \in Apps : RemoveApp(a) \/ ResetApp(a)
      \/ \E c \in Credentials, s \in Scopes : ShareCredential(c, s)
      \/ \E u \in Users, r \in Workspaces \cup Apps, pair \in EditTags : SaveTags(u, r, pair)
  BY DEF AccessNext, EditAttribute, EditGroup, EditMember, DeleteGroup, CreatePolicy, EditPolicy, DeletePolicy,
         ResetDelete, ResetSeed, ResetDone, ResetBreaks
<1> QED BY <1>1, <1>2, <1>3, <1>4, <1>5, <1>6, <1>7 DEF AccessTypeOK

\* The reset and the bounds.
LEMMA ResetStaysTyped ==
    ASSUME AccessTypeOK, AccessNext, reset.pc # "apps" => reset.apps = {}
    PROVE  /\ reset' \in [pc : {"idle", "seed", "apps", "broken"}, apps : SUBSET Apps]
           /\ reset'.pc # "apps" => reset'.apps = {}
           /\ edited' \in BOOLEAN /\ pageEdits' \in 0..MaxPageEdits
<1> DEFINE P == [pc : {"idle", "seed", "apps", "broken"}, apps : SUBSET Apps]
<1>1. ASSUME ResetDelete \/ ResetDone \/ ResetBreaks PROVE reset' \in P /\ (reset'.pc # "apps" => reset'.apps = {})
  <2>1. reset' \in {[pc |-> "seed", apps |-> {}], [pc |-> "idle", apps |-> {}], [pc |-> "broken", apps |-> {}]}
    BY <1>1 DEF ResetDelete, ResetDone, ResetBreaks, NoReset
  <2> QED BY <2>1
<1>2. ASSUME ResetSeed PROVE reset' \in P /\ (reset'.pc # "apps" => reset'.apps = {})
  <2>1. reset' = [pc |-> "apps", apps |-> live]
    BY <1>2 DEF ResetSeed
  <2> QED BY <2>1 DEF AccessTypeOK
<1>3. ASSUME NEW a \in Apps, ResetApp(a) PROVE reset' \in P /\ reset'.pc = "apps"
  BY <1>3 DEF ResetApp, AccessTypeOK
<1>4. \/ UNCHANGED reset \/ ResetDelete \/ ResetDone \/ ResetBreaks \/ ResetSeed
      \/ \E a \in Apps : ResetApp(a)
  BY DEF AccessNext, EditAttribute, EditGroup, EditMember, DeleteGroup, CreatePolicy, EditPolicy, DeletePolicy,
         SaveTags, CreateApp, RemoveApp, ShareCredential
<1>5. edited' \in BOOLEAN
  BY DEF AccessTypeOK, AccessNext, EditAttribute, EditGroup, EditMember, DeleteGroup, CreatePolicy, EditPolicy,
         DeletePolicy, SaveTags, CreateApp, RemoveApp, ShareCredential, ResetDelete, ResetSeed, ResetDone,
         ResetBreaks, ResetApp
<1>6. UNCHANGED pageEdits \/ (pageEdits < MaxPageEdits /\ pageEdits' = pageEdits + 1)
  <2>1. CASE \/ \E u \in Users, pair \in EditPairs : EditAttribute(u, pair)
             \/ \E g \in Groups, pair \in EditPairs : EditGroup(g, pair)
             \/ \E u \in Users, g \in Groups : EditMember(u, g)
             \/ \E g \in Groups : DeleteGroup(g)
             \/ \E p \in AdminPolicies : CreatePolicy(p)
             \/ \E old \in policies, p \in AdminPolicies : EditPolicy(old, p)
             \/ \E p \in policies : DeletePolicy(p)
    BY <2>1 DEF EditAttribute, EditGroup, EditMember, DeleteGroup, CreatePolicy, EditPolicy, DeletePolicy, ByAdmin
  <2>2. CASE \E u \in Users, r \in Workspaces \cup Apps, pair \in EditTags : SaveTags(u, r, pair)
    BY <2>2 DEF SaveTags
  <2>3. CASE \/ \E a \in Apps, who \in Users \cup {Everyone} : CreateApp(a, who)
             \/ \E a \in Apps : RemoveApp(a) \/ ResetApp(a)
             \/ \E c \in Credentials, s \in Scopes : ShareCredential(c, s)
    BY <2>3 DEF CreateApp, RemoveApp, ShareCredential, ResetApp
  <2>4. CASE ResetDelete \/ ResetSeed \/ ResetDone \/ ResetBreaks
    BY <2>4 DEF ResetDelete, ResetSeed, ResetDone, ResetBreaks
  <2> QED BY <2>1, <2>2, <2>3, <2>4 DEF AccessNext
<1>7. pageEdits' \in 0..MaxPageEdits
  BY <1>6, AccessAssumption DEF AccessTypeOK
<1> QED BY <1>1, <1>2, <1>3, <1>4, <1>5, <1>7 DEF AccessTypeOK

LEMMA TypesStayOK ==
    ASSUME AccessTypeOK, Sound(policies), reset.pc # "apps" => reset.apps = {}, AccessNext
    PROVE  AccessTypeOK'
<1>1. Sound(policies')
  BY PoliciesStaySound DEF Sound, SoundPolicy, IsPolicy, ValidConditions, NoBlindDenials, BlindDenial, Denies,
     RefersToResource
<1>2. /\ \A p \in policies' : /\ ValidConditions(p.identity, "identity")
                              /\ ValidConditions(p.resource, "resource")
      /\ \A p, q \in policies' : p.name = q.name => p = q
  BY <1>1 DEF Sound, SoundPolicy
<1> QED BY <1>2, PeopleStayTyped, AppsStayTyped, ResetStaysTyped DEF AccessTypeOK

\* The forms leave usernames alone; the reset writes the username of the first admin.
LEMMA UsernamesStayOwn ==
    ASSUME AccessTypeOK, SeedKeysAreKept, UsernamesAreOwn, AccessNext
    PROVE  UsernamesAreOwn'
<1>1. ASSUME NEW u \in Users, NEW pair \in EditPairs, EditAttribute(u, pair) PROVE UsernamesAreOwn'
  <2>1. pair[1] # "username" /\ pair # <<"username", u>>
    BY DEF SeedKeysAreKept
  <2>2. UNCHANGED groupAttrs
    BY <1>1 DEF EditAttribute
  <2>3. \A x \in Users : attrs'[x] \in {attrs[x], attrs[x] \cup {pair}, attrs[x] \ {pair}}
    BY <1>1 DEF EditAttribute, AccessTypeOK
  <2>4. \A x \in Users : pair # <<"username", x>>
    BY <2>1
  <2> QED BY <2>1, <2>2, <2>3, <2>4 DEF UsernamesAreOwn
<1>2. ASSUME NEW g \in Groups, NEW pair \in EditPairs, EditGroup(g, pair) PROVE UsernamesAreOwn'
  <2>1. pair[1] # "username"
    BY DEF SeedKeysAreKept
  <2>2. UNCHANGED attrs
    BY <1>2 DEF EditGroup
  <2>3. \A x \in Groups : groupAttrs'[x] \in {groupAttrs[x], groupAttrs[x] \cup {pair}, groupAttrs[x] \ {pair}}
    BY <1>2 DEF EditGroup, AccessTypeOK
  <2> QED BY <2>1, <2>2, <2>3 DEF UsernamesAreOwn
<1>3. ASSUME NEW g \in Groups, DeleteGroup(g) PROVE UsernamesAreOwn'
  <2>1. UNCHANGED attrs /\ \A x \in Groups : groupAttrs'[x] \in {groupAttrs[x], {}}
    BY <1>3 DEF DeleteGroup, AccessTypeOK
  <2> QED BY <2>1 DEF UsernamesAreOwn
<1>4. CASE ResetSeed
  <2>1. UNCHANGED groupAttrs
    BY <1>4 DEF ResetSeed
  <2>2. /\ attrs'[FirstAdmin] = attrs[FirstAdmin] \cup {<<"org-role", "admin">>, <<"username", FirstAdmin>>}
        /\ \A x \in Users \ {FirstAdmin} : attrs'[x] = attrs[x]
    BY <1>4, AccessAssumption DEF ResetSeed, AccessTypeOK
  <2> QED BY <2>1, <2>2 DEF UsernamesAreOwn
<1>5. CASE UNCHANGED <<attrs, groupAttrs>>
  BY <1>5 DEF UsernamesAreOwn
<1>6. \/ UNCHANGED <<attrs, groupAttrs>> \/ ResetSeed
      \/ \E u \in Users, pair \in EditPairs : EditAttribute(u, pair)
      \/ \E g \in Groups, pair \in EditPairs : EditGroup(g, pair)
      \/ \E g \in Groups : DeleteGroup(g)
  BY DEF AccessNext, PeopleUnchanged, EditMember, CreatePolicy, EditPolicy, DeletePolicy, SaveTags, CreateApp,
         RemoveApp, ShareCredential, ResetDelete, ResetDone, ResetBreaks, ResetApp
<1> QED BY <1>1, <1>2, <1>3, <1>4, <1>5, <1>6

\* A workspace, an app and a credential are different resources.
LEMMA ResourcesApart ==
    /\ \A w \in Workspaces, a \in Apps : w # a
    /\ \A w \in Workspaces, c \in Credentials : w # c
    /\ \A a \in Apps, c \in Credentials : a # c
BY AccessAssumption

LEMMA SeedTagsStayOwn ==
    ASSUME AccessTypeOK, SeedKeysAreKept, SeedTagsAreOwn, AccessNext
    PROVE  SeedTagsAreOwn'
<1>0. {"app-name", "app-type", "owner", "workspace-name"} \subseteq SeedTags
  BY DEF SeedTags
<1>1. ASSUME NEW u \in Users, NEW r \in Workspaces \cup Apps, NEW pair \in EditTags, SaveTags(u, r, pair)
      PROVE  SeedTagsAreOwn'
  <2>1. pair[1] \notin SeedTags
    BY DEF SeedKeysAreKept
  <2>2. UNCHANGED <<owner, scope>>
    BY <1>1 DEF SaveTags
  <2>3. \A x \in Workspaces : tags'[x] \in {tags[x], tags[x] \cup {pair}, tags[x] \ {pair}}
    BY <1>1, ResourcesApart DEF SaveTags, AccessTypeOK
  <2>4. \A x \in Apps : tags'[x] \in {tags[x], tags[x] \cup {pair}, tags[x] \ {pair}, tags[x] \ {<<"app-name", x>>}}
    BY <1>1 DEF SaveTags, AccessTypeOK
  <2>5. \A x \in Credentials : tags'[x] = tags[x]
    BY <1>1, ResourcesApart DEF SaveTags, AccessTypeOK
  <2>6. \A x : pair # <<"workspace-name", x>> /\ pair # <<"owner", x>> /\ pair # <<"app-type", x>>
    BY <1>0, <2>1
  <2>7. \A a \in Apps : OwnerTags(a)' = OwnerTags(a) /\ pair \notin OwnerTags(a) /\ <<"app-name", a>> \notin OwnerTags(a)
    BY <2>2, <2>6 DEF OwnerTags
  <2>8. \A w \in Workspaces :
           /\ <<"workspace-name", w>> \in tags'[w]
           /\ \A q \in tags'[w] : q[1] \in SeedTags => q = <<"workspace-name", w>>
    BY <2>1, <2>3, <2>6 DEF SeedTagsAreOwn
  <2>9. ASSUME NEW a \in Apps
        PROVE  /\ OwnerTags(a) \subseteq tags'[a]
               /\ \A q \in tags'[a] : q[1] \in SeedTags => q \in OwnerTags(a) \cup {<<"app-name", a>>}
    <3>1. OwnerTags(a) \subseteq tags[a] /\ pair \notin OwnerTags(a) /\ <<"app-name", a>> \notin OwnerTags(a)
      BY <2>7 DEF SeedTagsAreOwn
    <3>2. \A q \in tags[a] : q[1] \in SeedTags => q \in OwnerTags(a) \cup {<<"app-name", a>>}
      BY DEF SeedTagsAreOwn
    <3>3. tags'[a] \in {tags[a], tags[a] \cup {pair}, tags[a] \ {pair}, tags[a] \ {<<"app-name", a>>}}
      BY <2>4
    <3> QED BY <2>1, <3>1, <3>2, <3>3
  <2>10. \A c \in Credentials : tags'[c] = ScopeTags(c, scope'[c])
    BY <2>2, <2>5 DEF SeedTagsAreOwn
  <2>11. \A a \in Apps : OwnerTags(a)' = OwnerTags(a)
    BY <2>7
  <2> QED BY <2>8, <2>9, <2>10, <2>11 DEF SeedTagsAreOwn, SeedTags, ScopeTags
<1>2. ASSUME NEW a \in Apps, NEW t, NEW o,
             tags' = [tags EXCEPT ![a] = t], owner' = [owner EXCEPT ![a] = o], UNCHANGED scope,
             \/ t = {<<"app-name", a>>} \cup
                      (IF o = Everyone THEN {} ELSE {<<"app-type", "personal-assistant">>, <<"owner", o>>})
             \/ t = {} /\ o = Everyone
      PROVE  SeedTagsAreOwn'
  <2>1. tags'[a] = t /\ owner'[a] = o /\ \A x \in Workspaces \cup Credentials \cup (Apps \ {a}) : tags'[x] = tags[x]
    BY <1>2, ResourcesApart DEF AccessTypeOK
  <2>2. \A x \in Apps \ {a} : OwnerTags(x)' = OwnerTags(x)
    BY <1>2 DEF OwnerTags, AccessTypeOK
  <2>3. OwnerTags(a)' = IF o = Everyone THEN {} ELSE {<<"app-type", "personal-assistant">>, <<"owner", o>>}
    BY <2>1 DEF OwnerTags
  <2>4. OwnerTags(a)' \subseteq t /\ \A q \in t : q \in OwnerTags(a)' \cup {<<"app-name", a>>}
    BY <1>2, <2>3
  <2> QED BY <1>2, <2>1, <2>2, <2>4 DEF SeedTagsAreOwn, ScopeTags, SeedTags
<1>3. ASSUME NEW a \in Apps, NEW who \in Users \cup {Everyone}, CreateApp(a, who) PROVE SeedTagsAreOwn'
  <2> DEFINE t == {<<"app-name", a>>} \cup
                    (IF who = Everyone THEN {} ELSE {<<"app-type", "personal-assistant">>, <<"owner", who>>})
  <2>1. tags' = [tags EXCEPT ![a] = t] /\ owner' = [owner EXCEPT ![a] = who] /\ UNCHANGED scope
    BY <1>3 DEF CreateApp
  <2> QED BY <1>2, <2>1
<1>4. ASSUME NEW a \in Apps, RemoveApp(a) PROVE SeedTagsAreOwn'
  BY <1>2, <1>4 DEF RemoveApp
<1>5. ASSUME NEW c \in Credentials, NEW s \in Scopes, ShareCredential(c, s) PROVE SeedTagsAreOwn'
  <2>1. /\ tags'[c] = ScopeTags(c, scope'[c]) /\ \A x \in Workspaces \cup Apps : tags'[x] = tags[x]
        /\ \A x \in Credentials \ {c} : tags'[x] = tags[x] /\ scope'[x] = scope[x]
    BY <1>5, ResourcesApart DEF ShareCredential, AccessTypeOK
  <2>2. \A a \in Apps : OwnerTags(a)' = OwnerTags(a)
    BY <1>5 DEF ShareCredential, OwnerTags
  <2> QED BY <2>1, <2>2 DEF SeedTagsAreOwn, ScopeTags, SeedTags
<1>6. ASSUME NEW a \in Apps, ResetApp(a) PROVE SeedTagsAreOwn'
  <2>1. UNCHANGED <<owner, scope>>
    BY <1>6 DEF ResetApp
  <2>2. /\ tags'[a] = tags[a] \cup {<<"app-name", a>>}
        /\ \A x \in Workspaces \cup Credentials \cup (Apps \ {a}) : tags'[x] = tags[x]
    BY <1>6, ResourcesApart DEF ResetApp, AccessTypeOK
  <2>3. \A x \in Apps : OwnerTags(x)' = OwnerTags(x)
    BY <2>1 DEF OwnerTags
  <2> QED BY <2>1, <2>2, <2>3 DEF SeedTagsAreOwn, ScopeTags, SeedTags
<1>7. CASE UNCHANGED <<owner, tags, scope>>
  BY <1>7 DEF SeedTagsAreOwn, OwnerTags, ScopeTags, SeedTags
<1>8. \/ UNCHANGED <<owner, tags, scope>>
      \/ \E a \in Apps, who \in Users \cup {Everyone} : CreateApp(a, who)
      \/ \E a \in Apps : RemoveApp(a) \/ ResetApp(a)
      \/ \E c \in Credentials, s \in Scopes : ShareCredential(c, s)
      \/ \E u \in Users, r \in Workspaces \cup Apps, pair \in EditTags : SaveTags(u, r, pair)
  BY DEF AccessNext, EditAttribute, EditGroup, EditMember, DeleteGroup, CreatePolicy, EditPolicy, DeletePolicy,
         ResetDelete, ResetSeed, ResetDone, ResetBreaks
<1> QED BY <1>1, <1>3, <1>4, <1>5, <1>6, <1>7, <1>8

\* What is given to an app stays, as long as its tags and the policies only grow.
LEMMA GivenStays ==
    ASSUME NEW a, Given(a), tags[a] \subseteq tags'[a], policies \subseteq policies', owner'[a] = owner[a]
    PROVE  Given(a)'
<1>1. DefaultPolicy(a)' = DefaultPolicy(a)
  BY DEF DefaultPolicy, Wildcard, Literal, GrantOf
<1> QED BY <1>1 DEF Given

LEMMA SeedsStayAlone ==
    ASSUME AccessTypeOK, Sound(policies), SeedsAlone, reset.pc # "apps" => reset.apps = {}, AccessNext
    PROVE  SeedsAlone'
<1> DEFINE Known(p) == p \in SeedPolicies \/ \E a \in live : owner[a] = Everyone /\ p = DefaultPolicy(a)
<1>0. /\ \A p \in SeedPolicies : p.name[1] = "seed" /\ \A a : ~NamesApp(p, a)
      /\ \A a : /\ DefaultPolicy(a).name = <<"default", a, "app">>
                /\ \A b : NamesApp(DefaultPolicy(a), b) <=> b = a
      /\ \A p, q \in SeedPolicies : p.name = q.name => p = q
  BY SeedsAreSound, DefaultIs
<1>a. /\ SeedPolicies' = SeedPolicies
      /\ \A a : DefaultPolicy(a)' = DefaultPolicy(a)
  BY DEF SeedPolicies, SeedPolicy, RolePolicy, DefaultPolicy, Wildcard, Literal, Reference, GrantOf
<1> SUFFICES ASSUME ~edited'
             PROVE  /\ \A p \in policies' :
                         p \in SeedPolicies \/ \E a \in live' : owner'[a] = Everyone /\ p = DefaultPolicy(a)
                    /\ reset'.pc \in {"idle", "apps"} =>
                         SeedPolicies \subseteq policies' /\ \A a \in live' \ reset'.apps : Given(a)'
  BY <1>a DEF SeedsAlone
<1>1. CASE \/ \E u \in Users, pair \in EditPairs : EditAttribute(u, pair)
           \/ \E g \in Groups, pair \in EditPairs : EditGroup(g, pair)
           \/ \E u \in Users, g \in Groups : EditMember(u, g)
           \/ \E g \in Groups : DeleteGroup(g)
  <2>1. UNCHANGED <<policies, live, owner, tags, reset, edited>>
    BY <1>1 DEF EditAttribute, EditGroup, EditMember, DeleteGroup
  <2> QED BY <2>1, GivenStays DEF SeedsAlone
<1>2. CASE \/ \E p \in AdminPolicies : CreatePolicy(p)
           \/ \E old \in policies, p \in AdminPolicies : EditPolicy(old, p)
           \/ \E p \in policies : DeletePolicy(p)
           \/ \E u \in Users, r \in Workspaces \cup Apps, pair \in EditTags : SaveTags(u, r, pair)
  BY <1>2 DEF CreatePolicy, EditPolicy, DeletePolicy, SaveTags
<1>3. ASSUME NEW a \in Apps, NEW who \in Users \cup {Everyone}, CreateApp(a, who)
      PROVE  /\ \A p \in policies' :
                  p \in SeedPolicies \/ \E b \in live' : owner'[b] = Everyone /\ p = DefaultPolicy(b)
             /\ reset'.pc \in {"idle", "apps"} =>
                  SeedPolicies \subseteq policies' /\ \A b \in live' \ reset'.apps : Given(b)'
  <2>1. /\ a \notin live /\ live' = live \cup {a} /\ UNCHANGED <<reset, edited>>
        /\ policies' = GetOrCreate(policies, DefaultPolicies(a, who))
    BY <1>3 DEF CreateApp
  <2>2. /\ owner'[a] = who /\ <<"app-name", a>> \in tags'[a]
        /\ \A b \in Apps \ {a} : owner'[b] = owner[b] /\ tags'[b] = tags[b]
    BY <1>3 DEF CreateApp, AccessTypeOK
  <2>3. policies \subseteq policies' /\ policies' \subseteq policies \cup DefaultPolicies(a, who)
    BY <2>1, GetOrCreateKeeps, DefaultsSound
  <2>4. \A p \in policies : Known(p)
    BY <2>1 DEF SeedsAlone
  <2>5. \A b \in live : b \in Apps \ {a}
    BY <2>1 DEF AccessTypeOK
  <2>6. \A p \in policies : p.name # DefaultPolicy(a).name
    <3> SUFFICES ASSUME NEW p \in policies, p.name = DefaultPolicy(a).name PROVE FALSE
      OBVIOUS
    <3>1. p.name = <<"default", a, "app">>
      BY <1>0
    <3>2. CASE p \in SeedPolicies
      BY <3>1, <3>2, <1>0
    <3>3. CASE \E b \in live : owner[b] = Everyone /\ p = DefaultPolicy(b)
      BY <3>1, <3>3, <1>0, <2>1
    <3> QED BY <2>4, <3>2, <3>3
  <2>7. who = Everyone => DefaultPolicy(a) \in policies'
    BY <2>1, <2>6, GetOrCreateGives DEF DefaultPolicies
  <2>8. Given(a)'
    BY <2>2, <2>7, <1>a DEF Given
  <2>9. \A p \in policies' :
           p \in SeedPolicies \/ \E b \in live' : owner'[b] = Everyone /\ p = DefaultPolicy(b)
    BY <2>1, <2>2, <2>3, <2>4, <2>5 DEF DefaultPolicies
  <2>10. \A b \in live : Given(b) => Given(b)'
    BY <2>2, <2>3, <2>5, GivenStays
  <2> QED BY <2>1, <2>3, <2>8, <2>9, <2>10 DEF SeedsAlone
<1>4. ASSUME NEW a \in Apps, RemoveApp(a)
      PROVE  /\ \A p \in policies' :
                  p \in SeedPolicies \/ \E b \in live' : owner'[b] = Everyone /\ p = DefaultPolicy(b)
             /\ reset'.pc \in {"idle", "apps"} =>
                  SeedPolicies \subseteq policies' /\ \A b \in live' \ reset'.apps : Given(b)'
  <2>1. /\ policies' = {p \in policies : ~NamesApp(p, a)} /\ live' = live \ {a}
        /\ UNCHANGED <<reset, edited>>
    BY <1>4 DEF RemoveApp
  <2>2. \A b \in live' : b \in Apps \ {a} /\ owner'[b] = owner[b] /\ tags'[b] = tags[b]
    BY <1>4, <2>1 DEF RemoveApp, AccessTypeOK
  <2>3. \A p \in policies : Known(p)
    BY <2>1 DEF SeedsAlone
  <2>4. \A b \in live' : Given(b) => Given(b)'
    BY <1>0, <1>a, <2>1, <2>2 DEF Given
  <2>5. \A p \in policies' :
           p \in SeedPolicies \/ \E b \in live' : owner'[b] = Everyone /\ p = DefaultPolicy(b)
    BY <1>0, <2>1, <2>2, <2>3
  <2> QED BY <1>0, <2>1, <2>4, <2>5 DEF SeedsAlone
<1>5. ASSUME NEW c \in Credentials, NEW s \in Scopes, ShareCredential(c, s)
      PROVE  /\ \A p \in policies' :
                  p \in SeedPolicies \/ \E b \in live' : owner'[b] = Everyone /\ p = DefaultPolicy(b)
             /\ reset'.pc \in {"idle", "apps"} =>
                  SeedPolicies \subseteq policies' /\ \A b \in live' \ reset'.apps : Given(b)'
  <2>1. UNCHANGED <<policies, live, owner, reset, edited>> /\ \A b \in live : tags'[b] = tags[b]
    BY <1>5, ResourcesApart DEF ShareCredential, AccessTypeOK
  <2>2. \A b \in live : Given(b) => Given(b)'
    BY <2>1, GivenStays
  <2> QED BY <2>1, <2>2 DEF SeedsAlone
<1>6. CASE ResetDelete
  BY <1>6 DEF ResetDelete
<1>7. CASE ResetSeed
  <2>1. /\ policies' = GetOrCreate(policies, SeedPolicies) /\ reset' = [pc |-> "apps", apps |-> live]
        /\ UNCHANGED <<live, owner, edited>>
    BY <1>7 DEF ResetSeed
  <2>2. policies' \subseteq policies \cup SeedPolicies
    BY <2>1, GetOrCreateKeeps, SeedsSound
  <2>3. \A p \in policies : Known(p)
    BY <2>1 DEF SeedsAlone
  <2>4. \A p \in SeedPolicies : p \in policies'
    <3> SUFFICES ASSUME NEW p \in SeedPolicies, NEW q \in policies, q.name = p.name PROVE q = p
      BY <2>1, GetOrCreateGives
    <3>1. CASE q \in SeedPolicies
      BY <3>1, <1>0
    <3>2. CASE \E a \in live : owner[a] = Everyone /\ q = DefaultPolicy(a)
      BY <3>2, <1>0
    <3> QED BY <2>3, <3>1, <3>2
  <2> QED BY <2>1, <2>2, <2>3, <2>4
<1>8. CASE ResetDone \/ ResetBreaks
  <2>1. UNCHANGED <<policies, live, owner, tags, edited>>
    BY <1>8 DEF ResetDone, ResetBreaks
  <2>2. reset'.pc \in {"idle", "apps"} => reset.pc = "apps" /\ reset.apps = {}
    BY <1>8 DEF ResetDone, ResetBreaks
  <2>3. \A b \in live : Given(b) => Given(b)'
    BY <2>1, GivenStays
  <2> QED BY <2>1, <2>2, <2>3 DEF SeedsAlone
<1>9. ASSUME NEW a \in Apps, ResetApp(a)
      PROVE  /\ \A p \in policies' :
                  p \in SeedPolicies \/ \E b \in live' : owner'[b] = Everyone /\ p = DefaultPolicy(b)
             /\ reset'.pc \in {"idle", "apps"} =>
                  SeedPolicies \subseteq policies' /\ \A b \in live' \ reset'.apps : Given(b)'
  <2>1. /\ reset.pc = "apps" /\ a \in live /\ UNCHANGED <<live, owner, edited>>
        /\ policies' = GetOrCreate(policies, DefaultPolicies(a, owner[a]))
        /\ reset' = [reset EXCEPT !.apps = @ \ {a}]
    BY <1>9 DEF ResetApp
  <2>2. reset'.apps = reset.apps \ {a}
    BY <2>1 DEF AccessTypeOK
  <2>3. <<"app-name", a>> \in tags'[a] /\ \A b \in live : tags[b] \subseteq tags'[b]
    BY <1>9, ResourcesApart DEF ResetApp, AccessTypeOK
  <2>4. policies \subseteq policies' /\ policies' \subseteq policies \cup DefaultPolicies(a, owner[a])
    BY <2>1, GetOrCreateKeeps, DefaultsSound
  <2>5. \A p \in policies : Known(p)
    BY <2>1 DEF SeedsAlone
  <2>6. \A p \in policies : p.name = DefaultPolicy(a).name => p = DefaultPolicy(a)
    <3> SUFFICES ASSUME NEW p \in policies, p.name = DefaultPolicy(a).name PROVE p = DefaultPolicy(a)
      OBVIOUS
    <3>1. p.name = <<"default", a, "app">>
      BY <1>0
    <3>2. CASE p \in SeedPolicies
      BY <3>1, <3>2, <1>0
    <3>3. CASE \E b \in live : owner[b] = Everyone /\ p = DefaultPolicy(b)
      BY <3>1, <3>3, <1>0
    <3> QED BY <2>5, <3>2, <3>3
  <2>7. owner[a] = Everyone => DefaultPolicy(a) \in policies'
    BY <2>1, <2>6, GetOrCreateGives DEF DefaultPolicies
  <2>8. Given(a)'
    BY <2>1, <2>3, <2>7, <1>a DEF Given
  <2>9. \A p \in policies' :
           p \in SeedPolicies \/ \E b \in live' : owner'[b] = Everyone /\ p = DefaultPolicy(b)
    BY <2>1, <2>4, <2>5 DEF DefaultPolicies
  <2>10. \A b \in live : Given(b) => Given(b)'
    BY <2>1, <2>3, <2>4, GivenStays
  <2> QED BY <2>1, <2>2, <2>4, <2>8, <2>9, <2>10 DEF SeedsAlone
<1> QED BY <1>1, <1>2, <1>3, <1>4, <1>5, <1>6, <1>7, <1>8, <1>9 DEF AccessNext

LEMMA AccessInitIsSound == AccessInit => AccessIInv
<1> SUFFICES ASSUME AccessInit PROVE AccessIInv
  OBVIOUS
<1>1. Sound(policies) /\ policies = SeedPolicies
  BY SeedsSound DEF AccessInit
<1>2. AccessTypeOK
  <2>1. \A p \in policies : /\ ValidConditions(p.identity, "identity")
                            /\ ValidConditions(p.resource, "resource")
    BY <1>1 DEF Sound, SoundPolicy
  <2>2. \A p, q \in policies : p.name = q.name => p = q
    BY <1>1 DEF Sound
  <2>3. scope \in [Credentials -> Scopes]
    BY DEF AccessInit, Scopes
  <2>4. reset \in [pc : {"idle", "seed", "apps", "broken"}, apps : SUBSET Apps]
    BY DEF AccessInit, NoReset
  <2>5. /\ DOMAIN attrs = Users /\ DOMAIN groupAttrs = Groups /\ groupOf = {} /\ live = {}
        /\ DOMAIN tags = Workspaces \cup Apps \cup Credentials /\ edited = FALSE /\ pageEdits = 0
        /\ owner \in [Apps -> Users \cup {Everyone}]
    BY DEF AccessInit
  <2>6. 0 \in 0..MaxPageEdits
    BY AccessAssumption
  <2> QED BY <2>1, <2>2, <2>3, <2>4, <2>5, <2>6 DEF AccessTypeOK
<1>3. reset.pc = "idle" /\ reset.apps = {} /\ live = {}
  BY DEF AccessInit, NoReset
<1>4. UsernamesAreOwn
  <2>1. \A u \in Users : \E r : attrs[u] = {<<"username", u>>, <<"org-role", r>>}
    BY DEF AccessInit
  <2>2. \A g \in Groups : groupAttrs[g] = {}
    BY DEF AccessInit
  <2>3. \A r : <<"org-role", r>>[1] # "username"
    OBVIOUS
  <2> QED BY <2>1, <2>2, <2>3 DEF UsernamesAreOwn
<1>5. SeedTagsAreOwn
  <2>1. /\ \A w \in Workspaces : tags[w] = {<<"workspace-name", w>>}
        /\ \A a \in Apps : tags[a] = {} /\ owner[a] = Everyone
        /\ \A c \in Credentials : /\ tags[c] = {<<"sharing-scope", "everyone">>}
                                  /\ scope[c] = [kind |-> "everyone", target |-> Everyone]
    BY ResourcesApart DEF AccessInit
  <2> QED BY <2>1 DEF SeedTagsAreOwn, OwnerTags, ScopeTags
<1>6. SeedsAlone
  BY <1>1, <1>3 DEF SeedsAlone
<1> QED BY <1>1, <1>2, <1>3, <1>4, <1>5, <1>6 DEF AccessIInv

LEMMA AccessStepsAreSound == AccessIInv /\ [AccessNext]_accessVars => AccessIInv'
<1> SUFFICES ASSUME AccessIInv, [AccessNext]_accessVars PROVE AccessIInv'
  OBVIOUS
<1>1. CASE AccessNext
  <2>1. AccessTypeOK' /\ Sound(policies)'
    BY <1>1, TypesStayOK, PoliciesStaySound DEF AccessIInv
  <2>2. reset'.pc # "apps" => reset'.apps = {}
    BY <1>1, ResetStaysTyped DEF AccessIInv
  <2>3. ASSUME SeedKeysAreKept PROVE UsernamesAreOwn' /\ SeedTagsAreOwn' /\ SeedsAlone'
    BY <1>1, <2>3, UsernamesStayOwn, SeedTagsStayOwn, SeedsStayAlone DEF AccessIInv
  <2>4. SeedKeysAreKept' <=> SeedKeysAreKept
    BY DEF SeedKeysAreKept, SeedTags
  <2> QED BY <2>1, <2>2, <2>3, <2>4 DEF AccessIInv
<1>2. CASE UNCHANGED accessVars
  <2>1. UNCHANGED <<attrs, groupOf, groupAttrs, policies, live, owner, tags, scope, reset, edited, pageEdits>>
    BY <1>2 DEF accessVars
  <2>2. AccessTypeOK'
    BY <2>1 DEF AccessIInv, AccessTypeOK, ValidConditions, Scopes, Wildcard, Literal
  <2>3. Sound(policies)'
    BY <2>1 DEF AccessIInv, Sound, SoundPolicy, IsPolicy, ValidConditions, NoBlindDenials, BlindDenial, Denies,
       RefersToResource, Wildcard, Literal
  <2>4. UsernamesAreOwn => UsernamesAreOwn'
    BY <2>1 DEF UsernamesAreOwn
  <2>5. SeedTagsAreOwn => SeedTagsAreOwn'
    BY <2>1 DEF SeedTagsAreOwn, SeedTags, OwnerTags, ScopeTags
  <2>6. SeedsAlone => SeedsAlone'
    <3>1. SeedPolicies' = SeedPolicies /\ \A a : DefaultPolicy(a)' = DefaultPolicy(a)
      BY DEF SeedPolicies, SeedPolicy, RolePolicy, DefaultPolicy, Wildcard, Literal, Reference, GrantOf
    <3> QED BY <2>1, <3>1 DEF SeedsAlone, Given
  <2>7. SeedKeysAreKept' <=> SeedKeysAreKept
    BY DEF SeedKeysAreKept, SeedTags
  <2> QED BY <2>1, <2>2, <2>3, <2>4, <2>5, <2>6, <2>7 DEF AccessIInv
<1> QED BY <1>1, <1>2

-----------------------------------------------------------------------------
(* What the invariant decides.                                             *)

LEMMA LiteralMatches ==
    ASSUME NEW k, NEW v, k # "*", NEW own, NEW others
    PROVE  Matches({Literal(k, v)}, own, others) <=> <<k, v>> \in own
<1>1. Literal(k, v).side = "own" /\ Literal(k, v).key = k /\ Literal(k, v).value = v
  BY DEF Literal
<1>2. Literal("*", "*").key = "*"
  BY DEF Literal
<1>3. {Literal(k, v)} # Wildcard
  BY <1>1, <1>2 DEF Wildcard
<1> QED BY <1>1, <1>3 DEF Matches

LEMMA ReferenceMatches ==
    ASSUME NEW k, NEW s, NEW v, s # "own", NEW own, NEW others
    PROVE  Matches({Reference(k, s, v)}, own, others) <=>
              s \in DOMAIN others /\ \E pair \in others[s] : pair[1] = v /\ <<k, pair[2]>> \in own
<1>1. Reference(k, s, v).side = s /\ Reference(k, s, v).key = k /\ Reference(k, s, v).value = v
  BY DEF Reference
<1>2. {Reference(k, s, v)} # Wildcard
  BY <1>1 DEF Wildcard, Literal
<1> QED BY <1>1, <1>2 DEF Matches

\* The attributes of a person hold one username, and the person is authenticated.
LEMMA AttributesNameOne ==
    ASSUME UsernamesAreOwn, NEW u \in Users
    PROVE  /\ \A x : <<"username", x>> \in Attributes(u) <=> x = u
           /\ <<"authenticated", "true">> \in Attributes(u)
<1>1. ASSUME NEW x, <<"username", x>> \in Attributes(u) PROVE x = u
  <2>1. \A g \in Groups : <<"username", x>> \notin groupAttrs[g]
    BY DEF UsernamesAreOwn
  <2>2. <<"username", x>> # <<"authenticated", "true">>
    OBVIOUS
  <2>3. <<"username", x>> \in attrs[u]
    BY <1>1, <2>1, <2>2 DEF Attributes
  <2> QED BY <2>3 DEF UsernamesAreOwn
<1>2. <<"username", u>> \in Attributes(u) /\ <<"authenticated", "true">> \in Attributes(u)
  BY DEF UsernamesAreOwn, Attributes
<1> QED BY <1>1, <1>2

\* The tags of an app hold the one name, owner and workspace it has.
LEMMA AppTagsAre ==
    ASSUME AccessTypeOK, SeedTagsAreOwn, NEW a \in Apps
    PROVE  /\ \A b : <<"app-name", b>> \in EffectiveTags(a) => b = a
           /\ \A pair \in EffectiveTags(a) : pair[1] = "owner" => owner[a] # Everyone /\ pair = <<"owner", owner[a]>>
           /\ \A pair \in EffectiveTags(a) : pair[1] = "workspace-name" => pair = <<"workspace-name", Home[a]>>
           /\ <<"workspace-name", Home[a]>> \in EffectiveTags(a)
           /\ tags[a] \subseteq EffectiveTags(a)
<1>1. EffectiveTags(a) = tags[a] \cup tags[Home[a]] /\ Home[a] \in Workspaces
  BY AccessAssumption DEF EffectiveTags
<1>2. \A pair \in tags[Home[a]] : pair[1] \in SeedTags => pair = <<"workspace-name", Home[a]>>
  BY <1>1 DEF SeedTagsAreOwn
<1>3. \A pair \in tags[a] : pair[1] \in SeedTags =>
         \/ pair = <<"app-name", a>>
         \/ owner[a] # Everyone /\ pair \in {<<"app-type", "personal-assistant">>, <<"owner", owner[a]>>}
  BY DEF SeedTagsAreOwn, OwnerTags
<1>4. {"app-name", "owner", "workspace-name"} \subseteq SeedTags
  BY DEF SeedTags
<1>5. \A pair \in EffectiveTags(a) : pair[1] \in {"app-name", "owner", "workspace-name"} =>
         \/ pair = <<"app-name", a>>
         \/ owner[a] # Everyone /\ pair = <<"owner", owner[a]>>
         \/ pair = <<"workspace-name", Home[a]>>
  BY <1>1, <1>2, <1>3, <1>4
<1>6. <<"workspace-name", Home[a]>> \in EffectiveTags(a)
  BY <1>1 DEF SeedTagsAreOwn
<1> QED BY <1>1, <1>5, <1>6

LEMMA FilterStaysExact == ASSUME Sound(policies), NoBlindDenials PROVE FilterIsExact
<1>1. \A type : \A p \in PoliciesOf(type) : ~BlindDenial(p)
  BY DEF PoliciesOf, Sound, SoundPolicy
<1>2. ASSUME NEW u, NEW type, NEW act
      PROVE  Listed(u, type, act) = {r \in Listing(type) : MayDo(u, type, act, r)}
  <2> DEFINE tagsOf == [r \in Listing(type) |-> EffectiveTags(r)]
  <2>1. Listed(u, type, act) = PermittedByCheck(PoliciesOf(type), Attributes(u), tagsOf, act)
    BY <1>1, ListingIsTheCheck DEF Listed
  <2>2. DOMAIN tagsOf = Listing(type) /\ \A r \in Listing(type) : tagsOf[r] = EffectiveTags(r)
    OBVIOUS
  <2> HIDE DEF tagsOf
  <2> QED BY <2>1, <2>2 DEF PermittedByCheck, MayDo
<1>3. Listing("app") = live /\ Listing("workspace") = Workspaces
  BY DEF Listing
<1> QED BY <1>2, <1>3 DEF FilterIsExact

LEMMA UnscopedStaysKept == UnscopedIsKept
BY UnscopedIsAllowed DEF UnscopedIsKept, MayDo

\* What an app or a credential is used for, no other action implies.
LEMMA NotImplied ==
    \A act : "app:use" \notin Implied(act) /\ "credential:use" \notin Implied(act)
BY DEF Implied

\* The policies that no admin has written.
LEMMA KnownPolicies ==
    ASSUME SeedsAlone, ~edited
    PROVE  /\ \A p \in policies : ~Denies(p)
           /\ \A p \in PoliciesOf("app") :
                \/ p \in {AdminSeed, OwnerSeed}
                \/ \E a \in live : owner[a] = Everyone /\ p = DefaultPolicy(a)
           /\ \A p \in PoliciesOf("credential") : p \in {ToEveryone, ToUser, ToWorkspace}
<1>1. \A p \in policies :
         p \in SeedPolicies \/ \E a \in live : owner[a] = Everyone /\ p = DefaultPolicy(a)
  BY DEF SeedsAlone
<1>2. \A p \in policies : ~Denies(p)
  BY <1>1, SeedsAreSound, DefaultIs
<1>3. \A a : DefaultPolicy(a).type # "credential"
  BY DefaultIs
<1> QED BY <1>1, <1>2, <1>3, NamedSeeds DEF PoliciesOf

LEMMA AgentsStayPersonal ==
    ASSUME AccessTypeOK, UsernamesAreOwn, SeedTagsAreOwn, SeedsAlone
    PROVE  AgentsArePersonal
<1> SUFFICES ASSUME ~edited, NEW u \in Users, NEW a \in live, MayDo(u, "app", "app:use", a)
             PROVE  MeantFor(u, a)
  BY DEF AgentsArePersonal
<1> DEFINE A == {p \in PoliciesOf("app") : Applies(p, Attributes(u), EffectiveTags(a))}
<1>0. a \in Apps
  BY DEF AccessTypeOK
<1>1. Gives(A, "app:use")
  <2> HIDE DEF A
  <2> QED BY VerdictIs DEF MayDo, Allowed, A
<1>2. PICK p \in A : TRUE
  BY <1>1 DEF Gives
<1>3. /\ p \in PoliciesOf("app")
      /\ Matches(p.identity, Attributes(u), [resource |-> EffectiveTags(a)])
      /\ Matches(p.resource, EffectiveTags(a), [identity |-> Attributes(u)])
  BY DEF Applies
<1>4. CASE p = AdminSeed
  <2>1. <<"org-role", "admin">> \in Attributes(u)
    BY <1>3, <1>4, AppSeedsAre, LiteralMatches
  <2> QED BY <2>1 DEF MeantFor, IsAdmin
<1>5. CASE p = OwnerSeed
  <2> DEFINE others == [resource |-> EffectiveTags(a)]
  <2>0. Matches({Reference("username", "resource", "owner")}, Attributes(u), others)
    BY <1>3, <1>5, AppSeedsAre
  <2>a. others["resource"] = EffectiveTags(a)
    OBVIOUS
  <2> HIDE DEF others
  <2>1. \E pair \in others["resource"] : pair[1] = "owner" /\ <<"username", pair[2]>> \in Attributes(u)
    BY ONLY <2>0, ReferenceMatches, Zenon
  <2>2. PICK pair \in EffectiveTags(a) : pair[1] = "owner" /\ <<"username", pair[2]>> \in Attributes(u)
    BY <2>1, <2>a
  <2>b. pair = <<"owner", owner[a]>>
    BY <2>2, <1>0, AppTagsAre
  <2>3. pair[2] = owner[a]
    BY <2>b
  <2>4. owner[a] = u
    BY <2>2, <2>3, AttributesNameOne
  <2> QED BY <2>4 DEF MeantFor
<1>6. ASSUME NEW b \in live, owner[b] = Everyone, p = DefaultPolicy(b) PROVE MeantFor(u, a)
  <2>1. <<"app-name", b>> \in EffectiveTags(a)
    BY <1>3, <1>6, DefaultIs, LiteralMatches
  <2>2. b = a
    BY <2>1, <1>0, AppTagsAre
  <2> QED BY <2>2, <1>6 DEF MeantFor
<1> QED BY <1>3, <1>4, <1>5, <1>6, KnownPolicies

\* A policy that applies to an app and lets it be used, where nothing denies.
LEMMA UseIsGiven ==
    ASSUME SeedsAlone, ~edited, NEW u, NEW a, NEW p \in PoliciesOf("app"), p.actions = GrantOf("app:use"),
           Applies(p, Attributes(u), EffectiveTags(a))
    PROVE  MayDo(u, "app", "app:use", a)
<1> DEFINE A == {q \in PoliciesOf("app") : Applies(q, Attributes(u), EffectiveTags(a))}
<1>1. ~Refuses(A, "app:use")
  BY KnownPolicies DEF Refuses, Denies, PoliciesOf
<1>2. Gives(A, "app:use")
  <2>1. p \in A
    OBVIOUS
  <2>2. [act |-> "app:use", deny |-> FALSE] \in p.actions
    BY DEF GrantOf
  <2> QED BY <2>1, <2>2 DEF Gives
<1> HIDE DEF A
<1>3. "app:use" \in Verdict(A)
  BY <1>1, <1>2, VerdictIs
<1> QED BY <1>3 DEF MayDo, Allowed, A

LEMMA SeedsStillGiveAccess ==
    ASSUME AccessTypeOK, UsernamesAreOwn, SeedTagsAreOwn, SeedsAlone, reset.pc # "apps" => reset.apps = {}
    PROVE  SeedsGiveAccess
<1> SUFFICES ASSUME ~edited, reset.pc = "idle", NEW u \in Users, NEW a \in live, MeantFor(u, a)
             PROVE  MayDo(u, "app", "app:use", a)
  BY DEF SeedsGiveAccess
<1>1. SeedPolicies \subseteq policies /\ Given(a) /\ a \in Apps
  BY DEF SeedsAlone, AccessTypeOK
<1>2. AdminSeed \in PoliciesOf("app") /\ OwnerSeed \in PoliciesOf("app")
  BY <1>1, NamedSeeds, AppSeedsAre DEF PoliciesOf
<1>3. tags[a] \subseteq EffectiveTags(a)
  BY <1>1, AppTagsAre
<1>4. CASE owner[a] = Everyone
  <2>1. DefaultPolicy(a) \in PoliciesOf("app") /\ <<"app-name", a>> \in EffectiveTags(a)
    BY <1>1, <1>3, <1>4, DefaultIs DEF Given, PoliciesOf
  <2>2. Matches(DefaultPolicy(a).identity, Attributes(u), [resource |-> EffectiveTags(a)])
    BY DefaultIs DEF Matches
  <2>3. Matches(DefaultPolicy(a).resource, EffectiveTags(a), [identity |-> Attributes(u)])
    BY <2>1, DefaultIs, LiteralMatches
  <2> QED BY <2>1, <2>2, <2>3, DefaultIs, UseIsGiven DEF Applies
<1>5. CASE owner[a] = u /\ owner[a] # Everyone
  <2>1. /\ <<"app-type", "personal-assistant">> \in EffectiveTags(a)
        /\ <<"owner", u>> \in EffectiveTags(a) /\ <<"username", u>> \in Attributes(u)
    BY <1>1, <1>3, <1>5, AttributesNameOne DEF SeedTagsAreOwn, OwnerTags
  <2>2. Matches(OwnerSeed.identity, Attributes(u), [resource |-> EffectiveTags(a)])
    <3>1. <<"owner", u>> \in [resource |-> EffectiveTags(a)]["resource"]
      BY <2>1
    <3>2. "resource" \in DOMAIN [resource |-> EffectiveTags(a)]
      OBVIOUS
    <3> QED BY <2>1, <3>1, <3>2, AppSeedsAre, ReferenceMatches
  <2>3. Matches(OwnerSeed.resource, EffectiveTags(a), [identity |-> Attributes(u)])
    BY <2>1, AppSeedsAre, LiteralMatches
  <2> QED BY <1>2, <2>2, <2>3, AppSeedsAre, UseIsGiven DEF Applies
<1>6. CASE IsAdmin(u)
  <2>1. Matches(AdminSeed.identity, Attributes(u), [resource |-> EffectiveTags(a)])
    BY <1>6, AppSeedsAre, LiteralMatches DEF IsAdmin
  <2>2. Matches(AdminSeed.resource, EffectiveTags(a), [identity |-> Attributes(u)])
    BY AppSeedsAre DEF Matches
  <2> QED BY <1>2, <2>1, <2>2, AppSeedsAre, UseIsGiven DEF Applies
<1> QED BY <1>4, <1>5, <1>6 DEF MeantFor

\* The tags of a shared credential are those of its scope.
LEMMA ScopeTagsSay ==
    ASSUME AccessTypeOK, SeedTagsAreOwn, NEW c \in Credentials
    PROVE  /\ scope[c].kind \in {"everyone", "user", "workspace"}
           /\ \A k : <<"sharing-scope", k>> \in tags[c] <=> k = scope[c].kind
           /\ \A x : <<"shared-with-user", x>> \in tags[c] <=> scope[c].kind = "user" /\ x = scope[c].target
           /\ \A x : <<"shared-with-workspace", x>> \in tags[c] <=>
                        scope[c].kind = "workspace" /\ x = scope[c].target
           /\ \A pair \in tags[c] : pair[1] = "shared-with-user" =>
                        scope[c].kind = "user" /\ pair[2] = scope[c].target
<1>1. scope[c].kind \in {"everyone", "user", "workspace"}
  BY DEF AccessTypeOK, Scopes
<1>2. tags[c] = ScopeTags(c, scope[c])
  BY DEF SeedTagsAreOwn
<1>3. CASE scope[c].kind = "everyone"
  BY <1>2, <1>3 DEF ScopeTags
<1>4. CASE scope[c].kind = "user"
  BY <1>2, <1>4 DEF ScopeTags
<1>5. CASE scope[c].kind = "workspace"
  BY <1>2, <1>5 DEF ScopeTags
<1> QED BY <1>1, <1>3, <1>4, <1>5

\* The three ways to share, matched against a person, an app and a credential.
SharesWith(p, u, a, c) ==
    /\ Matches(p.identity, Attributes(u), [resource |-> tags[c], app |-> EffectiveTags(a)])
    /\ Matches(p.resource, tags[c], [identity |-> Attributes(u), app |-> EffectiveTags(a)])

LEMMA SharesAre ==
    ASSUME AccessTypeOK, UsernamesAreOwn, SeedTagsAreOwn,
           NEW u \in Users, NEW a \in Apps, NEW c \in Credentials
    PROVE  /\ SharesWith(ToEveryone, u, a, c) <=> scope[c].kind = "everyone"
           /\ SharesWith(ToUser, u, a, c) <=> scope[c].kind = "user" /\ scope[c].target = u
           /\ SharesWith(ToWorkspace, u, a, c) <=> scope[c].kind = "workspace" /\ scope[c].target = Home[a]
<1> DEFINE others == [resource |-> tags[c], app |-> EffectiveTags(a)]
           sides == [identity |-> Attributes(u), app |-> EffectiveTags(a)]
<1>1. <<"authenticated", "true">> \in Attributes(u) /\ \A x : <<"username", x>> \in Attributes(u) <=> x = u
  BY AttributesNameOne
<1>2. Matches({Literal("authenticated", "true")}, Attributes(u), others)
  BY <1>1, LiteralMatches
<1>a. \A k : <<"sharing-scope", k>> \in tags[c] <=> k = scope[c].kind
  BY ScopeTagsSay
<1>b. \A v : Matches({Literal("sharing-scope", v)}, tags[c], sides) <=> <<"sharing-scope", v>> \in tags[c]
  BY LiteralMatches
<1>3. Matches(ToEveryone.resource, tags[c], sides) <=> scope[c].kind = "everyone"
  BY <1>a, <1>b, CredentialSeedsAre
<1>4. Matches(ToUser.resource, tags[c], sides) <=> scope[c].kind = "user"
  BY <1>a, <1>b, CredentialSeedsAre
<1>5. "resource" \in DOMAIN others /\ others["resource"] = tags[c]
  OBVIOUS
<1>6. "app" \in DOMAIN sides /\ sides["app"] = EffectiveTags(a)
  OBVIOUS
<1> HIDE DEF others, sides
<1>c. /\ ToUser.identity = {Reference("username", "resource", "shared-with-user")}
      /\ ToWorkspace.resource = {Reference("shared-with-workspace", "app", "workspace-name")}
  BY CredentialSeedsAre
<1>7. Matches(ToUser.identity, Attributes(u), others) <=> scope[c].kind = "user" /\ scope[c].target = u
  <2>0. "resource" # "own"
    OBVIOUS
  <2>1. Matches(ToUser.identity, Attributes(u), others) <=>
           \E pair \in tags[c] : pair[1] = "shared-with-user" /\ <<"username", pair[2]>> \in Attributes(u)
    <3>1. Matches({Reference("username", "resource", "shared-with-user")}, Attributes(u), others) <=>
             /\ "resource" \in DOMAIN others
             /\ \E pair \in others["resource"] :
                   pair[1] = "shared-with-user" /\ <<"username", pair[2]>> \in Attributes(u)
      BY ONLY <2>0, ReferenceMatches, Zenon
    <3> QED BY <3>1, <1>5, <1>c
  <2>2. ASSUME NEW pair \in tags[c], pair[1] = "shared-with-user", <<"username", pair[2]>> \in Attributes(u)
        PROVE  scope[c].kind = "user" /\ scope[c].target = u
    BY <1>1, <2>2, ScopeTagsSay
  <2>3. ASSUME scope[c].kind = "user", scope[c].target = u
        PROVE  <<"shared-with-user", u>> \in tags[c] /\ <<"username", u>> \in Attributes(u)
    BY <1>1, <2>3, ScopeTagsSay
  <2>4. <<"shared-with-user", u>>[1] = "shared-with-user" /\ <<"shared-with-user", u>>[2] = u
    OBVIOUS
  <2> QED BY <2>1, <2>2, <2>3, <2>4
<1>8. Matches(ToWorkspace.resource, tags[c], sides) <=>
         scope[c].kind = "workspace" /\ scope[c].target = Home[a]
  <2>0. "app" # "own"
    OBVIOUS
  <2>1. Matches(ToWorkspace.resource, tags[c], sides) <=>
           \E pair \in EffectiveTags(a) :
              pair[1] = "workspace-name" /\ <<"shared-with-workspace", pair[2]>> \in tags[c]
    <3>1. Matches({Reference("shared-with-workspace", "app", "workspace-name")}, tags[c], sides) <=>
             /\ "app" \in DOMAIN sides
             /\ \E pair \in sides["app"] :
                   pair[1] = "workspace-name" /\ <<"shared-with-workspace", pair[2]>> \in tags[c]
      BY ONLY <2>0, ReferenceMatches, Zenon
    <3> QED BY <3>1, <1>6, <1>c
  <2>2. \A pair \in EffectiveTags(a) : pair[1] = "workspace-name" => pair[2] = Home[a]
    <3>1. \A pair \in EffectiveTags(a) : pair[1] = "workspace-name" => pair = <<"workspace-name", Home[a]>>
      BY AppTagsAre
    <3>2. <<"workspace-name", Home[a]>>[2] = Home[a]
      OBVIOUS
    <3> QED BY <3>1, <3>2
  <2>3. <<"workspace-name", Home[a]>> \in EffectiveTags(a) /\ <<"workspace-name", Home[a]>>[1] = "workspace-name"
    BY AppTagsAre
  <2>4. <<"shared-with-workspace", Home[a]>> \in tags[c] <=>
           scope[c].kind = "workspace" /\ scope[c].target = Home[a]
    BY ScopeTagsSay
  <2> QED BY <2>1, <2>2, <2>3, <2>4
<1>9. Matches(ToEveryone.identity, Attributes(u), others) /\ Matches(ToWorkspace.identity, Attributes(u), others)
  BY <1>2, CredentialSeedsAre
<1>10. \A p : SharesWith(p, u, a, c) <=>
          Matches(p.identity, Attributes(u), others) /\ Matches(p.resource, tags[c], sides)
  BY DEF SharesWith, others, sides
<1> QED BY <1>3, <1>4, <1>7, <1>8, <1>9, <1>10

LEMMA CredentialsStillFollow ==
    ASSUME AccessTypeOK, UsernamesAreOwn, SeedTagsAreOwn, SeedsAlone
    PROVE  CredentialsFollowScope
<1> SUFFICES ASSUME ~edited, reset.pc = "idle", NEW u \in Users, NEW a \in live, NEW c \in Credentials
             PROVE  MayUseCredential(u, a, c) <=> SharedWith(u, a, c)
  BY DEF CredentialsFollowScope
<1> DEFINE A == {p \in PoliciesOf("credential") : SharesWith(p, u, a, c)}
<1>0. a \in Apps
  BY DEF AccessTypeOK
<1>1. PoliciesOf("credential") = {ToEveryone, ToUser, ToWorkspace}
  BY NamedSeeds, KnownPolicies, CredentialSeedsAre DEF SeedsAlone, PoliciesOf
<1>2. \A p \in A : p.actions = GrantOf("credential:use")
  BY <1>1, CredentialSeedsAre
<1>3. MayUseCredential(u, a, c) <=>
        /\ [act |-> "credential:use", deny |-> FALSE] \in UNION {p.actions : p \in A}
        /\ [act |-> "credential:use", deny |-> TRUE] \notin UNION {p.actions : p \in A}
  BY DEF MayUseCredential, MayUse, SharesWith
<1>4. MayUseCredential(u, a, c) <=> \E p \in A : TRUE
  <2> HIDE DEF A
  <2>1. [act |-> "credential:use", deny |-> TRUE] \notin GrantOf("credential:use")
    BY DEF GrantOf
  <2>2. [act |-> "credential:use", deny |-> FALSE] \in GrantOf("credential:use")
    BY DEF GrantOf
  <2> QED BY <1>2, <1>3, <2>1, <2>2
<1>5. (\E p \in A : TRUE) <=> \/ SharesWith(ToEveryone, u, a, c) \/ SharesWith(ToUser, u, a, c)
                              \/ SharesWith(ToWorkspace, u, a, c)
  BY <1>1
<1> QED BY <1>0, <1>4, <1>5, SharesAre DEF SharedWith

\* A listing shows exactly what the check of each resource allows, an agent is its
\* owner's, a reset gives back the access of the seeds and a shared credential
\* follows its scope, of any organization, its policies and edits being any that
\* leave the keys of the seeds alone and write no denial that hides from a listing.
THEOREM AccessStaysDecided == AccessSpec => []AccessIsDecided
<1>1. AccessIInv => AccessIsDecided
  BY FilterStaysExact, UnscopedStaysKept, AgentsStayPersonal, SeedsStillGiveAccess, CredentialsStillFollow
     DEF AccessIInv, AccessIsDecided
<1>2. AccessSpec => []AccessIInv
  BY AccessInitIsSound, AccessStepsAreSound, PTL DEF AccessSpec
<1> QED BY <1>1, <1>2, PTL

=============================================================================
