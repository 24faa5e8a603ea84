--------------------------- MODULE TemplateImages ---------------------------
(***************************************************************************)
(* The images of the template containers.  A deployment needs an image of  *)
(* each template, tagged by the hash of the template's tree, in the shared *)
(* repository of the environment; it builds what is missing on the         *)
(* environment's builder instance, under an advisory lock per repository,  *)
(* while a watchdog stops the builder when it has been idle.               *)
(* A tree is a number; its tag is the same number.                         *)
(***************************************************************************)
EXTENDS Integers, Sequences, SequencesExt

CONSTANTS
    Deploys,       \* the deployments, each in a process of its own
    None,          \* no deployment
    Templates,     \* the templates every deployment needs, in their order
    Version,       \* the release the process of a deployment runs
    Postgres,      \* the database has advisory locks
    Remote,        \* builds run on the builder instance
    Editable,      \* the working tree may change under a running deployment
    Keep,          \* how many images a repository keeps
    IdleLimit,     \* the watchdog's limit, in ticks
    BuildLimit,    \* how many ticks a build may take
    MaxCrashes, MaxTicks

ImagesAssumption ==
    /\ Templates # <<>> /\ None \notin Deploys
    /\ Keep \in Nat \ {0}
    /\ {IdleLimit, BuildLimit, MaxCrashes, MaxTicks} \subseteq Nat
    /\ {Postgres, Remote, Editable} \subseteq BOOLEAN

VARIABLES
    pc,       \* the step of each deployment
    at,       \* the position in Templates of the image it is resolving
    tag,      \* the hash it computed for that template
    tree,     \* the tree on its disk
    lock,     \* who holds the lock of each repository
    repo,     \* does the repository exist?
    images,   \* the images of each repository, oldest first
    builder,  \* the state of the builder instance
    idle,     \* ticks since the last touch of last_build_activity
    dirs,     \* what /build/{build_id} holds, 0 if nothing
    builds,   \* the docker builds running on the builder, with their ages
    cut,      \* a build was lost because the watchdog stopped the builder
    crashes, ticks

vars == <<pc, at, tag, tree, lock, repo, images, builder, idle, dirs, builds, cut, crashes, ticks>>

Repos == ToSet(Templates)
\* A deployment is resolving the image of one template at a time.
Of(d) == Templates[at[d]]
Tags(r) == {i.tag : i \in ToSet(images[r])}

ImagesInit ==
    /\ pc = [d \in Deploys |-> "hash"]
    /\ at = [d \in Deploys |-> 1]
    /\ tag = [d \in Deploys |-> 0]
    /\ tree = Version
    /\ lock = [r \in Repos |-> None]
    /\ repo = [r \in Repos |-> FALSE]
    /\ images = [r \in Repos |-> <<>>]
    /\ builder = "stopped"
    /\ idle = 0
    /\ dirs = [d \in Deploys |-> 0]
    /\ builds = {}
    /\ cut = FALSE
    /\ crashes = 0
    /\ ticks = 0

Goto(d, step) == pc' = [pc EXCEPT ![d] = step]

\* The image of this template is there: go on with the next one.
Resolved(d) ==
    IF at[d] = Len(Templates)
    THEN Goto(d, "done") /\ UNCHANGED at
    ELSE Goto(d, "hash") /\ at' = [at EXCEPT ![d] = @ + 1]

Unlocked(d) == [r \in Repos |-> IF lock[r] = d THEN None ELSE lock[r]]

Fails(d) == Goto(d, "failed") /\ lock' = Unlocked(d) /\ UNCHANGED at

HashTree(d) ==
    /\ pc[d] = "hash"
    /\ tag' = [tag EXCEPT ![d] = tree[d]]
    /\ Goto(d, "check")
    /\ UNCHANGED <<at, tree, lock, repo, images, builder, idle, dirs, builds, cut, crashes, ticks>>

CheckTag(d) ==
    /\ pc[d] = "check"
    /\ IF tag[d] \in Tags(Of(d)) THEN Resolved(d) ELSE Goto(d, "lock") /\ UNCHANGED at
    /\ UNCHANGED <<tag, tree, lock, repo, images, builder, idle, dirs, builds, cut, crashes, ticks>>

\* Without Postgres there is nothing to lock against.
TakeLock(d) ==
    /\ pc[d] = "lock"
    /\ Postgres => lock[Of(d)] = None
    /\ lock' = IF Postgres THEN [lock EXCEPT ![Of(d)] = d] ELSE lock
    /\ Goto(d, "recheck")
    /\ UNCHANGED <<at, tag, tree, repo, images, builder, idle, dirs, builds, cut, crashes, ticks>>

Recheck(d) ==
    /\ pc[d] = "recheck"
    /\ IF tag[d] \in Tags(Of(d))
       THEN Resolved(d) /\ lock' = Unlocked(d)
       ELSE Goto(d, "repo") /\ UNCHANGED <<at, lock>>
    /\ UNCHANGED <<tag, tree, repo, images, builder, idle, dirs, builds, cut, crashes, ticks>>

DeployRepo(d) ==
    /\ pc[d] = "repo"
    /\ \/ /\ repo' = [repo EXCEPT ![Of(d)] = TRUE]
          /\ Goto(d, IF Remote THEN "wake" ELSE "local") /\ UNCHANGED <<at, lock>>
       \/ Fails(d) /\ UNCHANGED repo
    /\ UNCHANGED <<tag, tree, images, builder, idle, dirs, builds, cut, crashes, ticks>>

\* The lifecycle rule keeps the last images by the date of their push.
Pushed(r, t, content) ==
    LET all == Append(SelectSeq(images[r], LAMBDA i : i.tag # t),
                      [tag |-> t, content |-> content])
    IN  IF Len(all) > Keep THEN Tail(all) ELSE all

BuildLocally(d) ==
    /\ pc[d] = "local"
    /\ \/ /\ images' = [images EXCEPT ![Of(d)] = Pushed(Of(d), tag[d], tree[d])]
          /\ Resolved(d) /\ lock' = Unlocked(d)
       \/ Fails(d) /\ UNCHANGED images
    /\ UNCHANGED <<tag, tree, repo, builder, idle, dirs, builds, cut, crashes, ticks>>

-----------------------------------------------------------------------------
(* The builder instance. *)

\* A stopped builder is started, which may run out of capacity; one that is
\* stopping or pending is waited for, until the wait times out.
WakeBuilder(d) ==
    /\ pc[d] = "wake"
    /\ \/ builder = "running" /\ Goto(d, "transfer") /\ UNCHANGED <<at, lock, builder>>
       \/ builder = "stopped" /\ builder' = "pending" /\ UNCHANGED <<pc, at, lock>>
       \/ builder # "running" /\ Fails(d) /\ UNCHANGED builder
    /\ UNCHANGED <<tag, tree, repo, images, idle, dirs, builds, cut, crashes, ticks>>

\* Bug: all builds share one directory.
BuildDirShared(d) == CHOOSE e \in Deploys : TRUE

\* /build/{build_id}: the directory of one attempt.
BuildDir(d) == d

TransferSource(d) ==
    /\ pc[d] = "transfer"
    /\ \/ /\ builder = "running"
          /\ dirs' = [dirs EXCEPT ![BuildDir(d)] = tree[d]]
          /\ Goto(d, "start") /\ UNCHANGED <<at, lock>>
       \/ Fails(d) /\ UNCHANGED dirs
    /\ UNCHANGED <<tag, tree, repo, images, builder, idle, builds, cut, crashes, ticks>>

StartBuild(d) ==
    /\ pc[d] = "start"
    /\ \/ /\ builder = "running" /\ dirs[BuildDir(d)] # 0
          /\ builds' = builds \cup {[by |-> d, repo |-> Of(d), tag |-> tag[d], age |-> 0]}
          /\ idle' = 0
          /\ Goto(d, "build") /\ UNCHANGED <<at, lock>>
       \/ Fails(d) /\ UNCHANGED <<builds, idle>>
    /\ UNCHANGED <<tag, tree, repo, images, builder, dirs, cut, crashes, ticks>>

\* The build script: docker build, push, remove the directory, touch the file.
BuildEnds(b) ==
    /\ b \in builds /\ builder = "running"
    /\ builds' = builds \ {b}
    /\ \/ /\ images' = [images EXCEPT ![b.repo] = Pushed(b.repo, b.tag, dirs[BuildDir(b.by)])]
          /\ dirs' = [dirs EXCEPT ![BuildDir(b.by)] = 0]
          /\ idle' = 0
          /\ IF pc[b.by] = "build"
             THEN Resolved(b.by) /\ lock' = Unlocked(b.by)
             ELSE UNCHANGED <<pc, at, lock>>
       \/ /\ IF pc[b.by] = "build" THEN Fails(b.by) ELSE UNCHANGED <<pc, at, lock>>
          /\ UNCHANGED <<images, dirs, idle>>
    /\ UNCHANGED <<tag, tree, repo, builder, cut, crashes, ticks>>

\* The builder went away under the build: the ssh session ends with an error.
BuildLost(d) ==
    /\ pc[d] = "build" /\ \A b \in builds : b.by # d
    /\ Fails(d)
    /\ UNCHANGED <<tag, tree, repo, images, builder, idle, dirs, builds, cut, crashes, ticks>>

BuilderComesUp ==
    /\ builder = "pending"
    /\ builder' = "running" /\ idle' = 0
    /\ UNCHANGED <<pc, at, tag, tree, lock, repo, images, dirs, builds, cut, crashes, ticks>>

Watchdog ==
    /\ builder = "running" /\ idle > IdleLimit
    /\ builder' = "stopping"
    /\ builds' = {}
    /\ cut' = (cut \/ builds # {})
    /\ UNCHANGED <<pc, at, tag, tree, lock, repo, images, idle, dirs, crashes, ticks>>

BuilderStops ==
    /\ builder = "stopping" /\ builder' = "stopped"
    /\ UNCHANGED <<pc, at, tag, tree, lock, repo, images, idle, dirs, builds, cut, crashes, ticks>>

Tick ==
    /\ ticks < MaxTicks /\ ticks' = ticks + 1
    /\ builder = "running" /\ \A b \in builds : b.age < BuildLimit
    /\ idle' = idle + 1
    /\ builds' = {[b EXCEPT !.age = @ + 1] : b \in builds}
    /\ UNCHANGED <<pc, at, tag, tree, lock, repo, images, builder, dirs, cut, crashes>>

-----------------------------------------------------------------------------
\* The worker dies: its database session ends and with it the lock; a build it
\* started may go on.
Crash(d) ==
    /\ pc[d] \notin {"done", "failed", "dead"} /\ crashes < MaxCrashes
    /\ crashes' = crashes + 1
    /\ Goto(d, "dead") /\ lock' = Unlocked(d)
    /\ UNCHANGED <<at, tag, tree, repo, images, builder, idle, dirs, builds, cut, ticks>>

EditTree(d) ==
    /\ Editable /\ tree[d] = Version[d]
    /\ tree' = [tree EXCEPT ![d] = @ + 10]
    /\ UNCHANGED <<pc, at, tag, lock, repo, images, builder, idle, dirs, builds, cut, crashes, ticks>>

DeployStep(d) == \/ HashTree(d) \/ CheckTag(d) \/ TakeLock(d) \/ Recheck(d) \/ DeployRepo(d)
                 \/ BuildLocally(d) \/ WakeBuilder(d) \/ TransferSource(d) \/ StartBuild(d)
                 \/ BuildLost(d)
BuilderStep == BuilderComesUp \/ BuilderStops \/ \E b \in builds : BuildEnds(b)
ImagesNext == \/ \E d \in Deploys : DeployStep(d) \/ Crash(d) \/ EditTree(d)
              \/ BuilderStep \/ Watchdog \/ Tick

ImagesSpec == ImagesInit /\ [][ImagesNext]_vars
\* Calls return or time out, the instance changes state, and Postgres hands a
\* free lock to a waiter.
ImagesFairness == /\ \A d \in Deploys : WF_vars(DeployStep(d)) /\ SF_vars(TakeLock(d))
                  /\ WF_vars(BuilderStep)
ImagesLiveSpec == ImagesSpec /\ ImagesFairness

-----------------------------------------------------------------------------
(* Properties. *)

ImagesTypeOK ==
    /\ pc \in [Deploys -> {"hash", "check", "lock", "recheck", "repo", "local", "wake",
                           "transfer", "start", "build", "done", "failed", "dead"}]
    /\ at \in [Deploys -> 1..Len(Templates)]
    /\ lock \in [Repos -> Deploys \cup {None}]
    /\ builder \in {"stopped", "pending", "running", "stopping"}
    /\ \A r \in Repos : Len(images[r]) <= Keep /\ (images[r] # <<>> => repo[r])

\* The tag of an image is the hash of the tree it was built from, whichever
\* deployments, of whichever releases, built at the same time.
TagNamesContent ==
    \A r \in Repos : \A i \in ToSet(images[r]) : i.tag = i.content

\* While every session lives, a tag is built once: whoever comes second finds it.
NothingBuiltTwice ==
    crashes = 0 =>
      \A b \in builds' \ builds :
         (\A c \in builds : c.by # b.by) => b.tag \notin Tags(b.repo)

\* What a deployment goes on with is in the repository, and its locks are free.
DoneHasImages ==
    \A d \in Deploys :
       pc[d] = "done" => \A r \in Repos : lock[r] # d /\ Version[d] \in Tags(r)

\* No build is lost to the watchdog.
NoBuildCut == ~cut

\* Every deployment gets its images or an error, also behind one that died.
DeploysEnd == \A d \in Deploys : <>(pc[d] \in {"done", "failed", "dead"})
=============================================================================
