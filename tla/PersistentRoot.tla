--------------------------- MODULE PersistentRoot ---------------------------
(***************************************************************************)
(* The persistent root of one agent: the directory a container instance    *)
(* keeps for the app (the live file system of the runtime), the checkpoint *)
(* archive on EFS, and the runner that boots the one from the other.  ECS  *)
(* runs one task at a time and may place it on any instance; the runner    *)
(* writes the archive only when it was asked to stop, and can be killed at *)
(* every step.  What the user's agent stored is a set of works.            *)
(***************************************************************************)
EXTENDS Naturals, FiniteSets

CONSTANTS
    Host,         \* container instances the task may be placed on
    MaxWork,      \* bound on the works the agent stores
    MaxImage,     \* bound on the images deployed
    MaxTasks,     \* bound on the tasks started
    MarkerEarly   \* may tar extract the marker before the last file?

ASSUME RootAssumption ==
    MaxWork \in Nat /\ MaxImage \in Nat \ {0} /\ MaxTasks \in Nat /\ MarkerEarly \in BOOLEAN

VARIABLES
    root,      \* /var/lib/humr/hermes-roots/<app> on each instance
    archive,   \* rootfs.tar.zst on EFS
    tmp,       \* rootfs.tar.zst.tmp.<pid> on EFS
    task,      \* the runner of the task on each instance
    image,     \* the image the service deploys
    stored,    \* works stored so far
    tasks      \* tasks started so far

rootVars == <<root, archive, tmp, task, image, stored, tasks>>

Work == 0 .. MaxWork    \* 0 is a state staged from another environment
Image == 1 .. MaxImage

\* runtime is the image of the image-owned directories, 0 before the first sync.
Root == [marker : BOOLEAN, state : {"empty", "partial", "whole"}, works : SUBSET Work,
         runtime : 0 .. MaxImage]
EmptyRoot == [marker |-> FALSE, state |-> "empty", works |-> {}, runtime |-> 0]

Archive == [state : {"absent", "partial", "whole"}, works : SUBSET Work]
NoArchive == [state |-> "absent", works |-> {}]

Stage == {"none", "booting", "restoring", "initializing", "syncing", "trapped", "running",
          "exited", "archiving", "renaming"}
Task == [stage : Stage, image : 0 .. MaxImage, term : BOOLEAN]
NoTask == [stage |-> "none", image |-> 0, term |-> FALSE]

RootTypeOK ==
    /\ root \in [Host -> Root]
    /\ archive \in Archive
    /\ tmp \in Archive
    /\ task \in [Host -> Task]
    /\ \A h \in Host : task[h].stage = "none" <=> task[h] = NoTask
    /\ image \in Image
    /\ stored \in 0 .. MaxWork
    /\ tasks \in 0 .. MaxTasks

RootInit ==
    /\ root = [h \in Host |-> EmptyRoot]
    /\ archive = NoArchive
    /\ tmp = NoArchive
    /\ task = [h \in Host |-> NoTask]
    /\ image = 1
    /\ stored = 0
    /\ tasks = 0

At(h, stage) == task[h].stage = stage
GoTo(h, stage) == task' = [task EXCEPT ![h].stage = stage]

-----------------------------------------------------------------------------
(* ECS                                                                     *)

\* serialize_task_replacement: a task starts only when the old one has stopped.
StartTask(h) ==
    /\ \A other \in Host : At(other, "none")
    /\ tasks < MaxTasks
    /\ tasks' = tasks + 1
    /\ task' = [task EXCEPT ![h] = [stage |-> "booting", image |-> image, term |-> FALSE]]
    /\ UNCHANGED <<root, archive, tmp, image, stored>>

DeployImage ==
    /\ image < MaxImage
    /\ image' = image + 1
    /\ UNCHANGED <<root, archive, tmp, task, stored, tasks>>

\* SIGKILL after stop_timeout, an out-of-memory kill, or a signal before the trap.
Kill(h) ==
    /\ ~At(h, "none")
    /\ task' = [task EXCEPT ![h] = NoTask]
    /\ UNCHANGED <<root, archive, tmp, image, stored, tasks>>

\* The instance is terminated, and its volume with it.
LoseHost(h) ==
    /\ root[h] # EmptyRoot
    /\ root' = [root EXCEPT ![h] = EmptyRoot]
    /\ task' = [task EXCEPT ![h] = NoTask]
    /\ UNCHANGED <<archive, tmp, image, stored, tasks>>

-----------------------------------------------------------------------------
(* Boot                                                                    *)

\* report_stale_checkpoint_tmp_files
Sweep == NoArchive

\* main: an initialized root is reused, another one is restored or initialized.
Boot(h) ==
    /\ At(h, "booting")
    /\ tmp' = Sweep
    /\ IF root[h].marker
       THEN GoTo(h, "syncing") /\ UNCHANGED root
       ELSE /\ GoTo(h, IF archive.state # "absent" THEN "restoring" ELSE "initializing")
            /\ root' = [root EXCEPT ![h].state = "partial"]
    /\ UNCHANGED <<archive, image, stored, tasks>>

\* The marker is a file of the root, so the archive holds it.
ExtractMarker(h) ==
    /\ MarkerEarly
    /\ At(h, "restoring")
    /\ ~root[h].marker
    /\ root' = [root EXCEPT ![h].marker = TRUE]
    /\ UNCHANGED <<archive, tmp, task, image, stored, tasks>>

\* Bug: the marker is written before the copy is complete.
MarkedRestore(h) ==
    /\ At(h, "restoring")
    /\ \/ /\ ~root[h].marker
          /\ root' = [root EXCEPT ![h].marker = TRUE]
          /\ UNCHANGED task
       \/ /\ root[h].marker
          /\ root' = [root EXCEPT ![h] = [@ EXCEPT !.state = archive.state, !.works = archive.works]]
          /\ GoTo(h, "syncing")
    /\ UNCHANGED <<archive, tmp, image, stored, tasks>>

\* restore_persistent_root_from_checkpoint: files of an earlier attempt stay.
Restore(h) ==
    /\ At(h, "restoring")
    /\ root' = [root EXCEPT ![h] = [root[h] EXCEPT !.marker = TRUE, !.state = archive.state,
                                                  !.works = root[h].works \union archive.works]]
    /\ GoTo(h, "syncing")
    /\ UNCHANGED <<archive, tmp, image, stored, tasks>>

\* initialize_persistent_root
Initialize(h) ==
    /\ At(h, "initializing")
    /\ root' = [root EXCEPT ![h] = [@ EXCEPT !.marker = TRUE, !.state = "whole"]]
    /\ GoTo(h, "syncing")
    /\ UNCHANGED <<archive, tmp, image, stored, tasks>>

\* sync_image_owned_dirs, then the trap is set.
SyncImageDirs(h) ==
    /\ At(h, "syncing")
    /\ root' = [root EXCEPT ![h].runtime = task[h].image]
    /\ GoTo(h, "trapped")
    /\ UNCHANGED <<archive, tmp, image, stored, tasks>>

LaunchRuntime(h) ==
    /\ At(h, "trapped")
    /\ GoTo(h, "running")
    /\ UNCHANGED <<root, archive, tmp, image, stored, tasks>>

-----------------------------------------------------------------------------
(* Run and stop                                                            *)

\* The agent stores one more work in its root.
StoreWork(h) ==
    /\ At(h, "running")
    /\ stored < MaxWork
    /\ stored' = stored + 1
    /\ root' = [root EXCEPT ![h].works = @ \union {stored + 1}]
    /\ UNCHANGED <<archive, tmp, task, image, tasks>>

\* request_termination: before the runtime is forked no one is told to stop.
RequestTermination(h) ==
    /\ task[h].stage \in {"trapped", "running"}
    /\ ~task[h].term
    /\ task' = [task EXCEPT ![h].term = TRUE]
    /\ UNCHANGED <<root, archive, tmp, image, stored, tasks>>

\* The runtime exits, after SIGTERM or on its own: only the first is followed by
\* a checkpoint.
RuntimeExits(h) ==
    /\ At(h, "running")
    /\ IF task[h].term THEN GoTo(h, "exited") ELSE task' = [task EXCEPT ![h] = NoTask]
    /\ UNCHANGED <<root, archive, tmp, image, stored, tasks>>

\* checkpoint_persistent_root: tar into the temporary file ...
BeginArchive(h) ==
    /\ At(h, "exited")
    /\ tmp' = [state |-> "partial", works |-> {}]
    /\ GoTo(h, "archiving")
    /\ UNCHANGED <<root, archive, image, stored, tasks>>

EndArchive(h) ==
    /\ At(h, "archiving")
    /\ tmp' = IF tmp.state = "absent" THEN tmp    \* unlinked by someone else
               ELSE [state |-> IF root[h].state = "whole" THEN "whole" ELSE "partial",
                     works |-> root[h].works]
    /\ GoTo(h, "renaming")
    /\ UNCHANGED <<root, archive, image, stored, tasks>>

\* ... and mv it over the archive; the task ends.
RenameArchive(h) ==
    /\ At(h, "renaming")
    /\ archive' = IF tmp.state = "absent" THEN archive ELSE tmp
    /\ tmp' = NoArchive
    /\ task' = [task EXCEPT ![h] = NoTask]
    /\ UNCHANGED <<root, image, stored, tasks>>

-----------------------------------------------------------------------------

RunnerStep(h) ==
    \/ Boot(h) \/ ExtractMarker(h) \/ Restore(h) \/ Initialize(h)
    \/ SyncImageDirs(h) \/ LaunchRuntime(h) \/ StoreWork(h) \/ RuntimeExits(h)
    \/ BeginArchive(h) \/ EndArchive(h) \/ RenameArchive(h)

RootNext ==
    \/ DeployImage
    \/ \E h \in Host :
         \/ StartTask(h) \/ RequestTermination(h) \/ Kill(h) \/ LoseHost(h)
         \/ RunnerStep(h)

RootSpec == RootInit /\ [][RootNext]_rootVars

-----------------------------------------------------------------------------
(* Properties                                                              *)

\* A shutdown killed at any step of the checkpoint leaves the previous archive
\* or the new one, never a half-written one (the temporary file and mv of
\* checkpoint_persistent_root).
ArchiveIsWhole == archive.state # "partial"

\* The runtime never runs on a root that a killed restore or initialization left
\* half copied (the marker of persistent_root_initialized).
RunsOnWholeRoot == \A h \in Host : At(h, "running") => root[h].state = "whole"

\* What a checkpoint saved is in the root of every later boot, and in every later
\* checkpoint: the replacement task continues where the stopped one ended.
CheckpointIsKept ==
    /\ \A h \in Host : At(h, "running") => archive.works \subseteq root[h].works
    /\ tmp.state = "whole" => archive.works \subseteq tmp.works

\* The runtime's own code is the code of the image the task was started with,
\* whatever root the instance kept (sync_image_owned_dirs).
RunsItsImage == \A h \in Host : At(h, "running") => root[h].runtime = task[h].image

\* While the runtime runs, no leftover of a killed shutdown is on EFS
\* (report_stale_checkpoint_tmp_files).
LeftoversAreSwept == (\E h \in Host : At(h, "running")) => tmp.state = "absent"

\* What the runs check of the root a runtime finds, wherever a kill, a lost
\* instance or a new image met the shutdown and the boot before it.
RootsAreSound ==
    /\ RootTypeOK
    /\ ArchiveIsWhole
    /\ RunsOnWholeRoot
    /\ RunsItsImage
    /\ LeftoversAreSwept

\* A restore only fills an instance directory that is empty.
RestoresIntoEmpty ==
    [][\A h \in Host : At(h, "booting") /\ task'[h].stage = "restoring" => root[h].state = "empty"]_rootVars
=============================================================================
