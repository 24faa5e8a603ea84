---------------------------- MODULE RootMigration ----------------------------
(***************************************************************************)
(* humr_hermes_migrate: the state of an agent is brought from another      *)
(* environment.  The operator's phases stop the service, stage the archive *)
(* of the source (work 0) on EFS through a one-shot task, clear the app's  *)
(* directory on every instance and start the service again, while the      *)
(* service's own task stops at its own pace.  Any phase can be run at any  *)
(* time, with or without --stop-dest, and fail; the state file is all the  *)
(* phases know of each other.                                              *)
(***************************************************************************)
EXTENDS PersistentRoot

CONSTANT MaxPhases   \* bound on the phases run

MigrationAssumption == MaxPhases \in Nat

VARIABLES
    desired,    \* desiredCount of the destination service
    stopping,   \* instances whose task ECS wants STOPPED
    state,      \* the state file
    op,         \* what the operator's command is in
    stager,     \* the one-shot task
    late,       \* are stagers left of phases that failed?
    found,      \* desiredCount the stage phase read, 1 when it is not in use
    toClear,    \* instances the host-clear phase has still to clear
    watched,    \* the task whose log finalize follows, 0 before one is listed
    restored,   \* tasks that logged "Restore complete"
    phases,     \* phases run so far
    progress    \* history: how far a staging begun with the service gone has come

opVars == <<desired, state, op, stager, late, found, toClear, watched, phases, progress>>
migVars == <<opVars, stopping, restored>>

Op == {"idle", "draining", "staging", "clearing", "waiting"}
NoState == [uploaded |-> FALSE, prev |-> 1]    \* prev_desired has a default

MigTypeOK ==
    /\ desired \in 0 .. 1
    /\ stopping \subseteq Host
    /\ state \in [uploaded : BOOLEAN, prev : 0 .. 1]
    /\ op \in Op
    /\ stager \in {"none", "running", "done"}
    /\ late \in BOOLEAN
    /\ found \in 0 .. 1
    /\ toClear \subseteq Host
    /\ (op # "clearing") => (toClear = {})
    /\ watched \in 0 .. MaxTasks
    /\ restored \subseteq 0 .. MaxTasks
    /\ phases \in 0 .. MaxPhases
    /\ progress \in {"none", "alone", "staged", "cleared", "started"}

MigInit ==
    /\ RootInit
    /\ desired = 1
    /\ stopping = {}
    /\ state = NoState
    /\ op = "idle"
    /\ stager = "none"
    /\ late = FALSE
    /\ found = 1
    /\ toClear = {}
    /\ watched = 0
    /\ restored = {}
    /\ phases = 0
    /\ progress = "none"

-----------------------------------------------------------------------------
(* The service under the operator                                          *)

\* ECS wants a task stopped, for the desired count or to replace it, ...
Stop(h) ==
    /\ ~At(h, "none")
    /\ stopping' = stopping \union {h}
    /\ UNCHANGED <<rootVars, opVars, restored>>

StoppedAreGone == stopping' = {h \in stopping : task'[h].stage # "none"}

\* ... which it is told later; a task is started while one is wanted.
ServiceStep ==
    /\ \/ desired = 1 /\ \E h \in Host : StartTask(h)
       \/ \E h \in stopping : RequestTermination(h)
       \/ \E h \in Host : Kill(h) \/ LoseHost(h)
    /\ StoppedAreGone
    /\ UNCHANGED <<opVars, restored>>

\* The directory was removed under a booted task: what it mounts takes no file.
Cut(h) == task[h].stage \notin {"none", "booting"} /\ root[h].state = "empty"

\* The runner goes on, and logs the end of a restore.
LoggedStep ==
    /\ \E h \in Host : RunnerStep(h) /\ (Cut(h) => root' = root)
    /\ StoppedAreGone
    /\ restored' = restored \union {t \in {tasks} :
                        \E h \in Host : At(h, "restoring") /\ task'[h].stage = "syncing"}
    /\ UNCHANGED opVars

\* list_tasks without a desiredStatus returns those wanted RUNNING.
Listed == {h \in Host \ stopping : ~At(h, "none")}

-----------------------------------------------------------------------------
(* The phases                                                              *)

BeginPhase(to) ==
    /\ op = "idle"
    /\ phases < MaxPhases
    /\ phases' = phases + 1
    /\ op' = to

\* A phase raises CommandError; a stager it waits for goes on.
PhaseFails ==
    /\ op # "idle"
    /\ op' = "idle"
    /\ toClear' = {}
    /\ late' = (late \/ (op = "staging" /\ stager = "running"))
    /\ stager' = "none"
    /\ found' = 1 /\ watched' = 0
    /\ UNCHANGED <<rootVars, desired, stopping, state, restored, phases, progress>>

\* _phase_upload: tar of the source's root into the bridge bucket.
Upload ==
    /\ op = "idle"
    /\ state' = [state EXCEPT !.uploaded = TRUE]
    /\ UNCHANGED <<rootVars, desired, stopping, op, stager, late, found, toClear, watched, restored, phases, progress>>

\* _phase_cleanup removes the state file.
Cleanup ==
    /\ op = "idle"
    /\ state' = NoState
    /\ UNCHANGED <<rootVars, desired, stopping, op, stager, late, found, toClear, watched, restored, phases, progress>>

\* _run_stager_task
RunStager ==
    /\ stager' = "running"
    /\ progress' = IF desired = 0 /\ \A h \in Host : At(h, "none") THEN "alone" ELSE "none"

\* _phase_stage as it is, ...
StageArchive ==
    /\ state.uploaded
    /\ BeginPhase("staging")
    /\ RunStager
    /\ UNCHANGED <<rootVars, desired, stopping, state, late, found, toClear, watched, restored>>

\* ... and with --stop-dest: the service is scaled to 0, ...
StopDest ==
    /\ state.uploaded
    /\ BeginPhase("draining")
    /\ found' = desired
    /\ desired' = 0
    /\ UNCHANGED <<rootVars, stopping, state, stager, late, toClear, watched, restored, progress>>

\* ... _wait_for_no_running_tasks, and what was found is kept for finalize.
Drained ==
    /\ op = "draining"
    /\ Listed = {}
    /\ op' = "staging"
    /\ state' = [state EXCEPT !.prev = found]
    /\ found' = 1
    /\ RunStager
    /\ UNCHANGED <<rootVars, desired, stopping, late, toClear, watched, restored, phases>>

\* A stager removes temporary files, ...
StagerClean ==
    /\ stager = "running" \/ late
    /\ tmp.state # "absent"
    /\ tmp' = NoArchive
    /\ UNCHANGED <<root, archive, task, image, stored, tasks, migVars>>

\* ... downloads, verifies and moves the staged file over the archive, ...
StagerMove ==
    /\ \/ stager = "running" /\ stager' = "done"
       \/ late /\ UNCHANGED stager
    /\ archive' = [state |-> "whole", works |-> {0}]
    /\ progress' = IF progress = "alone" THEN "staged" ELSE progress
    /\ UNCHANGED <<root, tmp, task, image, stored, tasks>>
    /\ UNCHANGED <<desired, stopping, state, op, late, found, toClear, watched, restored, phases>>

\* ... or ends without.
StagerFails ==
    /\ stager = "running"
    /\ stager' = "none"
    /\ UNCHANGED <<rootVars, desired, stopping, state, op, late, found, toClear, watched, restored, phases, progress>>

\* _wait_stopped
StagerSeen ==
    /\ op = "staging"
    /\ stager = "done"
    /\ op' = "idle"
    /\ stager' = "none"
    /\ UNCHANGED <<rootVars, desired, stopping, state, late, found, toClear, watched, restored, phases, progress>>

\* Bug: one instance alone is cleared.
OneHost == {CHOOSE h \in Host : TRUE}

\* The ACTIVE container instances of the cluster.
ActiveHosts == Host

\* _phase_host_clear: the roots of an agent that was started are lost to it.
HostClear ==
    /\ BeginPhase("clearing")
    /\ toClear' = ActiveHosts
    /\ progress' = IF progress = "started" THEN "none" ELSE progress
    /\ UNCHANGED <<rootVars, desired, stopping, state, stager, late, found, watched, restored>>

ClearHost(h) ==
    /\ op = "clearing"
    /\ h \in toClear
    /\ root' = [root EXCEPT ![h] = EmptyRoot]
    /\ toClear' = toClear \ {h}
    /\ IF toClear = {h}
       THEN op' = "idle" /\ progress' = IF progress = "staged" THEN "cleared" ELSE progress
       ELSE UNCHANGED <<op, progress>>
    /\ UNCHANGED <<archive, tmp, task, image, stored, tasks>>
    /\ UNCHANGED <<desired, stopping, state, stager, late, found, watched, restored, phases>>

\* _phase_finalize
Finalize ==
    /\ BeginPhase("waiting")
    /\ desired' = state.prev
    /\ progress' = IF progress \in {"cleared", "started"} THEN "started" ELSE "none"
    /\ UNCHANGED <<rootVars, stopping, state, stager, late, found, toClear, watched, restored>>

\* _wait_for_restore_complete: the first listed task is followed to the end.
Watch ==
    /\ op = "waiting"
    /\ watched = 0
    /\ Listed # {}
    /\ watched' = tasks
    /\ UNCHANGED <<rootVars, desired, stopping, state, op, stager, late, found, toClear, restored, phases, progress>>

RestoreSeen ==
    /\ op = "waiting"
    /\ watched # 0 /\ watched \in restored
    /\ op' = "idle"
    /\ watched' = 0
    /\ UNCHANGED <<rootVars, desired, stopping, state, stager, late, found, toClear, restored, phases, progress>>

-----------------------------------------------------------------------------

PhaseStep ==
    \/ Upload \/ Cleanup \/ StageArchive \/ StopDest \/ Drained
    \/ StagerClean \/ StagerMove \/ StagerFails \/ StagerSeen
    \/ HostClear \/ (\E h \in Host : ClearHost(h))
    \/ Finalize \/ Watch \/ RestoreSeen
    \/ PhaseFails

MigNext == (\E h \in Host : Stop(h)) \/ ServiceStep \/ LoggedStep \/ PhaseStep

MigSpec == MigInit /\ [][MigNext]_<<rootVars, migVars>>

-----------------------------------------------------------------------------
(* Properties                                                              *)

\* A staging begun with the service gone, and followed by host-clear and finalize
\* in this order, lands: the staged archive stays as it is until the service is
\* started, and the agent then runs on it, on every instance it is placed on, and
\* saves it, whatever phases ran before, failed or were repeated in between,
\* whatever stager was left, and whatever tasks and instances are lost.
RootSurvives ==
    /\ MigTypeOK
    /\ progress \in {"alone", "staged", "cleared"} => desired = 0 /\ \A h \in Host : At(h, "none")
    /\ progress \in {"staged", "cleared"} => archive = [state |-> "whole", works |-> {0}]
    /\ progress = "started" =>
         /\ archive.state = "whole" /\ 0 \in archive.works
         /\ \A h \in Host : At(h, "running") => root[h].state = "whole" /\ 0 \in root[h].works

-----------------------------------------------------------------------------
(* What the command's words promise and its phases do not keep: README.    *)

\* --stop-dest: no task of the service writes its checkpoint over the staged one.
StopDestStops == op = "staging" /\ desired = 0 => \A h \in Host : At(h, "none")

\* Each phase can be rerun on its own: finalize brings the service back.
ServiceComesBack == op = "waiting" => desired = 1

\* Each phase is idempotent: host-clear leaves a migrated agent its state.
AgentKeepsItsState == \A h \in Host : ~Cut(h)
=============================================================================
