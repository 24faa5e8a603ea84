---------------------------- MODULE AppWorkloads ----------------------------
(***************************************************************************)
(* The app workloads of one agent: web apps and widgets that share one     *)
(* process-compose document, its daemon and one pool of ports.  The        *)
(* commands `webapps` and `widgets` are processes of their own, serialized *)
(* by the lock of the document (a widgets command takes its own lock       *)
(* first); the container can stop at every step, and webui.sh reconciles   *)
(* the files before it starts the daemon again.                            *)
(***************************************************************************)
EXTENDS Naturals, FiniteSets

CONSTANTS
    Cli,           \* commands run by the agent
    Webui,         \* the command webui.sh runs
    WebApp, Widget,
    Admin,         \* the web app __admin
    Example,       \* the web app of the bundled catalog
    MaxPort,       \* the pool is 1 .. MaxPort
    MaxCommands,   \* bound on the commands run
    MaxCrashes,    \* bound on the crashes of the container
    MaxEdits,      \* bound on the edits of sources
    PortsByHand    \* does set-env choose WEBAPP_PORT?

WorkAssumption ==
    /\ Webui \notin Cli /\ Admin \in WebApp /\ Example \in WebApp /\ Admin # Example
    /\ WebApp \cap Widget = {}
    /\ MaxPort \in Nat \ {0} /\ MaxCommands \in Nat /\ MaxCrashes \in Nat /\ MaxEdits \in Nat
    /\ PortsByHand \in BOOLEAN

VARIABLES
    doc,       \* app-workloads/process-compose.yaml
    webRoutes, \* webapps.caddy: the port each web app is routed to, or 0
    front,     \* registry, snapshots and widgets.caddy
    daemon,    \* the app-workloads process-compose daemon
    lock,      \* .app-workloads.lock
    cli,       \* the commands
    boot,      \* where webui.sh is
    source,    \* the manifest of each widget
    tomb,      \* the deletion tombstone of each widget
    project,   \* the source of each web app
    marker,    \* .seeded/<example>
    wanted,    \* history: the web apps whose last accepted command keeps them
    lost,      \* history: what went with the document, or was cut off from it, since it was written
    budget     \* commands, crashes and edits left

workVars == <<doc, webRoutes, front, daemon, lock, cli, boot, source, tomb, project, marker,
              wanted, lost, budget>>

User == WebApp \ {Admin}
Name == WebApp \cup Widget
Process == Cli \cup {Webui}
Port == 1 .. MaxPort
Manifest == {"static", "backend", "broken"}

\* One document: the port of every entry (0 without an entry) and the enabled web apps.
Doc == [there : BOOLEAN, port : [Name -> 0 .. MaxPort], on : SUBSET WebApp]
EmptyDoc == [there |-> TRUE, port |-> [n \in Name |-> 0], on |-> {}]
NoDoc == [EmptyDoc EXCEPT !.there = FALSE]
Front == [shown : SUBSET Widget, port : [Widget -> 0 .. MaxPort]]
NoFront == [shown |-> {}, port |-> [w \in Widget |-> 0]]

Command == {"create", "start", "stop", "restart", "reload", "set-env", "unregister", "delete",
            "apply", "drop"}
Stage == {"idle", "empty", "wait", "locked", "routes", "update", "rmtree", "copy", "mark",
          "moving", "staging", "front", "taking", "gap", "hook", "undo", "redo", "rehook", "restore", "sweep"}
\* A generation is a document and its front; moved and hooked say what a rollback undoes.
Generation == [doc : Doc, front : Front]
NoGeneration == [doc |-> NoDoc, front |-> NoFront]
CliState == [at : Stage, cmd : Command, target : Name, next : Generation, old : Generation,
             moved : BOOLEAN, hooked : BOOLEAN]
Idle == [at |-> "idle", cmd |-> "reload", target |-> Admin, next |-> NoGeneration,
         old |-> NoGeneration, moved |-> FALSE, hooked |-> FALSE]

WorkTypeOK ==
    /\ doc \in Doc
    /\ webRoutes \in [WebApp -> 0 .. MaxPort]
    /\ front \in Front
    /\ daemon \in [up : BOOLEAN, stale : BOOLEAN, port : [Name -> 0 .. MaxPort]]
    /\ lock \in Process \cup {Admin}
    /\ cli \in [Process -> CliState]
    /\ boot \in {"down", "widgets", "admin", "example", "start", "up"}
    /\ source \in [Widget -> Manifest \cup {"none"}]
    /\ tomb \in [Widget -> Manifest \cup {"none", "empty"}]
    /\ project \in [WebApp -> {"none", "image", "edited"}]
    /\ marker \in {"none", "refresh", "freeze"}
    /\ wanted \in SUBSET WebApp
    /\ lost \in SUBSET Name
    /\ budget \in [commands : 0 .. MaxCommands, crashes : 0 .. MaxCrashes, edits : 0 .. MaxEdits]
    /\ \A p \in Process : cli[p].at \in Stage \ {"idle", "empty", "wait", "copy", "mark"} => lock = p

Free == Admin   \* the value of an open lock

WorkInit ==
    /\ doc = NoDoc
    /\ webRoutes = [a \in WebApp |-> 0]
    /\ front = NoFront
    /\ daemon = [up |-> FALSE, stale |-> FALSE, port |-> [n \in Name |-> 0]]
    /\ lock = Free
    /\ cli = [p \in Process |-> Idle]
    /\ boot = "down"
    /\ source = [w \in Widget |-> "none"]
    /\ tomb = [w \in Widget |-> "none"]
    /\ project = [a \in WebApp |-> IF a = Admin THEN "image" ELSE "none"]
    /\ marker = "none"
    /\ wanted = {}
    /\ lost = {}
    /\ budget = [commands |-> MaxCommands, crashes |-> MaxCrashes, edits |-> MaxEdits]

At(p, stage) == cli[p].at = stage
GoTo(p, stage) == cli' = [cli EXCEPT ![p].at = stage]
Running(p, cmd, stage) == At(p, stage) /\ cli[p].cmd = cmd
Target(p) == cli[p].target

\* The document is away between the two renames of a publication, or of its rollback.
InGap == \E p \in Process : cli[p].at \in {"gap", "redo"}
Quiet == lock = Free /\ ~\E p \in Process : cli[p].at \in {"empty", "copy", "mark"}

-----------------------------------------------------------------------------
(* Ports, routes and what the daemon runs                                  *)

Taken(d) == {d.port[n] : n \in Name} \ {0}
Unique(d) == \A m, n \in Name : d.port[m] = d.port[n] /\ d.port[m] # 0 => m = n
FreePorts(d) == IF Unique(d) THEN Port \ Taken(d) ELSE {}
Lowest(ports) == CHOOSE p \in ports : \A q \in ports : p <= q

Routes(d) == [a \in WebApp |-> IF a \in d.on THEN d.port[a] ELSE 0]

Loaded(d) == [n \in Name |-> IF n \in Widget \cup d.on THEN d.port[n] ELSE 0]

Backends == {w \in Widget : source[w] = "backend"}
Shown == {w \in Widget : source[w] \in {"static", "backend"}}

\* The ports reconcile_widget_processes may give: kept where there is one, else free ones.
WidgetPorts(d) ==
    LET preserved == {d.port[a] : a \in WebApp} \ {0}
    IN  {ports \in [Widget -> 0 .. MaxPort] :
           /\ \A a, b \in WebApp : d.port[a] = d.port[b] /\ d.port[a] # 0 => a = b
           /\ \A w \in Widget : ports[w] # 0 <=> w \in Backends
           /\ \A v, w \in Backends : ports[v] = ports[w] => v = w
           /\ \A w \in Backends : ports[w] \notin preserved
           /\ \A w \in Backends : d.port[w] \notin preserved \cup {0} => ports[w] = d.port[w]}

\* Bug: the whole process table is replaced.
WidgetDocAlone(d, ports) ==
    [d EXCEPT !.port = [n \in Name |-> IF n \in Widget THEN ports[n] ELSE 0]]

\* reconcile_widget_processes: replace only widget-owned entries.
WidgetDoc(d, ports) ==
    [d EXCEPT !.port = [n \in Name |-> IF n \in Widget THEN ports[n] ELSE d.port[n]]]

-----------------------------------------------------------------------------
(* Entering and leaving a command                                          *)

\* A finished command of webui.sh lets the boot go on; it dies without __admin.
Finish(p, ok) ==
    /\ cli' = [cli EXCEPT ![p] = Idle]
    /\ lock' = IF lock = p THEN Free ELSE lock
    /\ boot' = IF p # Webui THEN boot
               ELSE IF boot = "widgets" THEN "admin"
               ELSE IF boot = "admin" THEN (IF ok THEN "example" ELSE "down")
               ELSE "start"

\* ensure_process_compose_layout looks before it takes the lock.
Enter(p, cmd, target) ==
    /\ At(p, "idle")
    /\ cli' = [cli EXCEPT ![p] = [Idle EXCEPT !.at = IF doc.there THEN "wait" ELSE "empty",
                                              !.cmd = cmd, !.target = target]]

\* ... and then writes the empty document, whatever is there by now: only a document
\* that is away is put back over it.
WriteEmpty(p) ==
    /\ At(p, "empty")
    /\ doc' = EmptyDoc
    /\ GoTo(p, "wait")
    /\ IF InGap
       THEN UNCHANGED <<lost, daemon>>
       ELSE /\ lost' = lost \cup wanted \cup {w \in Widget : doc.port[w] # 0 \/ front.port[w] # 0}
            /\ daemon' = [daemon EXCEPT !.stale = TRUE]
    /\ UNCHANGED <<webRoutes, front, lock, boot, source, tomb, project, marker, wanted, budget>>

Acquire(p) ==
    /\ At(p, "wait")
    /\ lock = Free
    /\ lock' = p
    /\ GoTo(p, "locked")
    /\ UNCHANGED <<doc, webRoutes, front, daemon, boot, source, tomb, project, marker, wanted, lost, budget>>

\* main: a command of the agent; create needs a project directory.
RunCommand(c) ==
    /\ boot = "up"
    /\ budget.commands > 0
    /\ \E cmd \in Command :
         \E target \in IF cmd \in {"apply", "drop"} THEN Widget ELSE User :
            /\ cmd = "create" => project[target] # "none"
            /\ Enter(c, cmd, target)
    /\ budget' = [budget EXCEPT !.commands = @ - 1]
    /\ UNCHANGED <<doc, webRoutes, front, daemon, lock, boot, source, tomb, project, marker, wanted, lost>>

-----------------------------------------------------------------------------
(* Web apps, under the lock                                                *)

Keeps(p, keep) ==
    /\ wanted' = IF keep THEN wanted \cup {Target(p)} ELSE wanted \ {Target(p)}
    /\ lost' = lost \ {Target(p)}

Save(p, newDoc, stage) ==
    /\ doc' = newDoc
    /\ GoTo(p, stage)
    /\ UNCHANGED <<webRoutes, front, daemon, lock, boot, source, tomb, project, marker, budget>>

\* cmd_create; the boot registers enabled, and only what is missing.
Create(p) ==
    LET a == Target(p)
    IN  /\ Running(p, "create", "locked")
        /\ doc.there
        /\ \/ /\ doc.port[a] = 0
              /\ FreePorts(doc) # {}
              /\ Save(p, [doc EXCEPT !.port[a] = Lowest(FreePorts(doc)),
                                     !.on = IF p = Webui THEN @ \cup {a} ELSE @], "routes")
              /\ Keeps(p, TRUE)
           \/ /\ doc.port[a] # 0 /\ p = Webui
              /\ Save(p, doc, "routes")
              /\ UNCHANGED <<wanted, lost>>

Start(p) ==
    /\ Running(p, "start", "locked")
    /\ doc.there /\ doc.port[Target(p)] # 0
    /\ Save(p, [doc EXCEPT !.on = @ \cup {Target(p)}], "routes")
    /\ UNCHANGED <<wanted, lost>>

Stop(p) ==
    /\ Running(p, "stop", "locked")
    /\ doc.there /\ doc.port[Target(p)] # 0
    /\ Save(p, [doc EXCEPT !.on = @ \ {Target(p)}], "routes")
    /\ UNCHANGED <<wanted, lost>>

\* cmd_restart and cmd_reload read the document and write the routes.
Resync(p) ==
    /\ \/ Running(p, "restart", "locked") /\ doc.there /\ Target(p) \in doc.on
       \/ Running(p, "reload", "locked") /\ doc.there
    /\ Save(p, doc, "routes")
    /\ UNCHANGED <<wanted, lost>>

\* apply_env_pairs accepts every key, the port included; the routes are not rewritten.
SetEnv(p) ==
    LET a == Target(p)
    IN  /\ Running(p, "set-env", "locked")
        /\ doc.there /\ doc.port[a] # 0
        /\ \E port \in IF PortsByHand THEN Port ELSE {doc.port[a]} :
             Save(p, [doc EXCEPT !.port[a] = port], "update")
        /\ UNCHANGED <<wanted, lost>>

\* cmd_unregister and cmd_delete
Remove(p) ==
    /\ Running(p, "unregister", "locked") \/ Running(p, "delete", "locked")
    /\ doc.there /\ doc.port[Target(p)] # 0
    /\ Save(p, [doc EXCEPT !.port[Target(p)] = 0, !.on = @ \ {Target(p)}], "routes")
    /\ Keeps(p, FALSE)

\* die: an unknown or stopped app, a taken slug, no free port, no document.
Die(p) ==
    LET a == Target(p)
    IN  /\ At(p, "locked")
        /\ \/ ~doc.there
           \/ cli[p].cmd = "create" /\ doc.port[a] # 0 /\ p # Webui
           \/ cli[p].cmd = "create" /\ doc.port[a] = 0 /\ FreePorts(doc) = {}
           \/ cli[p].cmd \in {"start", "stop", "set-env", "unregister", "delete"} /\ doc.port[a] = 0
           \/ cli[p].cmd = "restart" /\ a \notin doc.on
        /\ cli[p].cmd \notin {"apply", "drop"}
        /\ Finish(p, FALSE)
        /\ UNCHANGED <<doc, webRoutes, front, daemon, source, tomb, project, marker, wanted, lost, budget>>

RegenerateRoutes(p) ==
    /\ At(p, "routes")
    /\ webRoutes' = Routes(doc)
    /\ IF cli[p].cmd \in {"create", "restart"}
       THEN IF boot = "example" /\ p = Webui
            THEN /\ cli' = [cli EXCEPT ![p].at = "mark"]
                 /\ lock' = Free
                 /\ UNCHANGED boot
            ELSE Finish(p, TRUE)
       ELSE GoTo(p, "update") /\ UNCHANGED <<lock, boot>>
    /\ UNCHANGED <<doc, front, daemon, source, tomb, project, marker, wanted, lost, budget>>

\* process_compose_project_update
Update(p) ==
    /\ At(p, "update")
    /\ \/ /\ daemon.up
          /\ cli[p].cmd = "set-env" => Target(p) \in doc.on
          /\ daemon' = [daemon EXCEPT !.stale = FALSE, !.port = Loaded(doc)]
          /\ IF cli[p].cmd = "delete"
             THEN GoTo(p, "rmtree") /\ UNCHANGED <<lock, boot>>
             ELSE Finish(p, TRUE)
       \/ /\ cli[p].cmd = "set-env" /\ Target(p) \notin doc.on
          /\ Finish(p, TRUE)
          /\ UNCHANGED daemon
    /\ UNCHANGED <<doc, webRoutes, front, source, tomb, project, marker, wanted, lost, budget>>

\* check=True: the command ends with the saved document and an older daemon.
UpdateFails(p) ==
    /\ At(p, "update")
    /\ cli[p].cmd = "set-env" => Target(p) \in doc.on
    /\ daemon' = [daemon EXCEPT !.stale = TRUE]
    /\ Finish(p, FALSE)
    /\ UNCHANGED <<doc, webRoutes, front, source, tomb, project, marker, wanted, lost, budget>>

RemoveProject(p) ==
    /\ At(p, "rmtree")
    /\ project' = [project EXCEPT ![Target(p)] = "none"]
    /\ Finish(p, TRUE)
    /\ UNCHANGED <<doc, webRoutes, front, daemon, source, tomb, marker, wanted, lost, budget>>

-----------------------------------------------------------------------------
(* Widgets, under both locks                                               *)

\* delete_widget up to the tombstone; a residual alone is a delete to finish.
Bury(p) ==
    LET w == Target(p)
    IN  /\ Running(p, "drop", "locked")
        /\ \/ /\ tomb[w] = "none" /\ source[w] # "none"
              /\ tomb' = [tomb EXCEPT ![w] = "empty"]
              /\ GoTo(p, "moving")
              /\ UNCHANGED <<lock, boot>>
           \/ /\ tomb[w] # "none" /\ source[w] = "none"
              /\ GoTo(p, "staging")
              /\ UNCHANGED <<tomb, lock, boot>>
           \/ /\ (tomb[w] = "none") = (source[w] = "none")
              /\ Finish(p, FALSE)
              /\ UNCHANGED tomb
        /\ UNCHANGED <<doc, webRoutes, front, daemon, source, project, marker, wanted, lost, budget>>

MoveToTombstone(p) ==
    LET w == Target(p)
    IN  /\ At(p, "moving")
        /\ tomb' = [tomb EXCEPT ![w] = source[w]]
        /\ source' = [source EXCEPT ![w] = "none"]
        /\ cli' = [cli EXCEPT ![p].at = "staging", ![p].moved = TRUE]
        /\ UNCHANGED <<doc, webRoutes, front, daemon, lock, boot, project, marker, wanted, lost, budget>>

\* A delete that moved its source in this run gives it back when it fails.
GiveUp(p) ==
    IF cli[p].moved THEN GoTo(p, "restore") /\ UNCHANGED <<lock, boot>> ELSE Finish(p, FALSE)

Ready(p) == Running(p, "apply", "locked") \/ At(p, "staging")

\* A targeted apply wants a valid manifest; the boot takes every valid one.
Valid(p) == cli[p].cmd = "apply" /\ p # Webui => Target(p) \in Shown

\* _reconcile_widgets_unlocked up to the publication
StageGeneration(p) ==
    /\ Ready(p)
    /\ doc.there /\ Valid(p)
    /\ \E ports \in WidgetPorts(doc) :
         cli' = [cli EXCEPT ![p].at = "front",
                            ![p].next = [doc |-> WidgetDoc(doc, ports),
                                         front |-> [shown |-> Shown, port |-> ports]]]
    /\ UNCHANGED <<doc, webRoutes, front, daemon, lock, boot, source, tomb, project, marker, wanted, lost, budget>>

StageFails(p) ==
    /\ Ready(p)
    /\ ~doc.there \/ ~Valid(p) \/ WidgetPorts(doc) = {}
    /\ GiveUp(p)
    /\ UNCHANGED <<doc, webRoutes, front, daemon, source, tomb, project, marker, wanted, lost, budget>>

\* _publish_artifacts: snapshots, registry and routes first, ...
PublishFront(p) ==
    /\ At(p, "front")
    /\ \/ /\ front' = cli[p].next.front
          /\ cli' = [cli EXCEPT ![p].at = "taking", ![p].old.front = front]
          /\ UNCHANGED <<lock, boot>>
       \/ GiveUp(p) /\ UNCHANGED front
    /\ UNCHANGED <<doc, webRoutes, daemon, source, tomb, project, marker, wanted, lost, budget>>

\* ... then the document is moved to its backup, ...
TakeDoc(p) ==
    /\ At(p, "taking")
    /\ \/ /\ doc' = NoDoc
          /\ cli' = [cli EXCEPT ![p].at = "gap", ![p].old.doc = doc]
          /\ UNCHANGED <<front, lock, boot>>
       \/ GiveUp(p) /\ front' = cli[p].old.front /\ UNCHANGED doc
    /\ UNCHANGED <<webRoutes, daemon, source, tomb, project, marker, wanted, lost, budget>>

\* ... and the staged one into its place.
PublishDoc(p) ==
    /\ At(p, "gap")
    /\ \/ /\ doc' = cli[p].next.doc
          /\ GoTo(p, "hook")
       \/ GoTo(p, "redo") /\ UNCHANGED doc
    /\ UNCHANGED <<webRoutes, front, daemon, lock, boot, source, tomb, project, marker, wanted, lost, budget>>

Published(p) ==
    /\ lost' = lost \ {w \in Widget : doc.port[w] = cli[p].next.doc.port[w]}
    /\ IF cli[p].cmd = "drop" THEN GoTo(p, "sweep") /\ UNCHANGED <<lock, boot>> ELSE Finish(p, TRUE)

\* The publish hook; webui.sh reconciles without one.
Hook(p) ==
    /\ At(p, "hook")
    /\ IF p = Webui
       THEN Published(p) /\ UNCHANGED daemon
       ELSE \/ /\ daemon.up
               /\ daemon' = [daemon EXCEPT !.stale = FALSE, !.port = Loaded(doc)]
               /\ Published(p)
            \/ /\ daemon' = [daemon EXCEPT !.stale = TRUE]
               /\ cli' = [cli EXCEPT ![p].at = "undo", ![p].hooked = TRUE]
               /\ UNCHANGED <<lock, boot, lost>>
    /\ UNCHANGED <<doc, webRoutes, front, source, tomb, project, marker, wanted, budget>>

\* Rollback removes the new document, then moves the backup into its place.
Undo(p) ==
    /\ At(p, "undo")
    /\ doc' = NoDoc
    /\ GoTo(p, "redo")
    /\ UNCHANGED <<webRoutes, front, daemon, lock, boot, source, tomb, project, marker, wanted, lost, budget>>

RestoreGeneration(p) ==
    /\ At(p, "redo")
    /\ doc' = cli[p].old.doc
    /\ front' = cli[p].old.front
    /\ IF cli[p].hooked THEN GoTo(p, "rehook") /\ UNCHANGED <<lock, boot>> ELSE GiveUp(p)
    /\ UNCHANGED <<webRoutes, daemon, source, tomb, project, marker, wanted, lost, budget>>

RollbackHook(p) ==
    /\ At(p, "rehook")
    /\ \/ daemon.up /\ daemon' = [daemon EXCEPT !.stale = FALSE, !.port = Loaded(doc)]
       \/ UNCHANGED daemon
    /\ GiveUp(p)
    /\ UNCHANGED <<doc, webRoutes, front, source, tomb, project, marker, wanted, lost, budget>>

\* _restore_delete_artifacts does not overwrite a source written meanwhile.
RestoreSource(p) ==
    LET w == Target(p)
    IN  /\ At(p, "restore")
        /\ IF source[w] = "none"
           THEN /\ source' = [source EXCEPT ![w] = tomb[w]]
                /\ tomb' = [tomb EXCEPT ![w] = "none"]
           ELSE UNCHANGED <<source, tomb>>
        /\ Finish(p, FALSE)
        /\ UNCHANGED <<doc, webRoutes, front, daemon, project, marker, wanted, lost, budget>>

\* _finish_committed_delete_cleanup
SweepTombstone(p) ==
    /\ At(p, "sweep")
    /\ \/ tomb' = [tomb EXCEPT ![Target(p)] = "none"]
       \/ UNCHANGED tomb
    /\ Finish(p, TRUE)
    /\ UNCHANGED <<doc, webRoutes, front, daemon, source, project, marker, wanted, lost, budget>>

-----------------------------------------------------------------------------
(* webui.sh                                                                *)

\* The container starts; reconcile_widgets, then bootstrap_admin_webapp.
BootContainer ==
    /\ boot = "down"
    /\ boot' = "widgets"
    /\ UNCHANGED <<doc, webRoutes, front, daemon, lock, cli, source, tomb, project, marker, wanted, lost, budget>>

BootCommand ==
    /\ \/ boot = "widgets" /\ \E w \in Widget : Enter(Webui, "apply", w)
       \/ boot = "admin" /\ Enter(Webui, "create", Admin)
    /\ UNCHANGED <<doc, webRoutes, front, daemon, lock, boot, source, tomb, project, marker, wanted, lost, budget>>

DecideAction(policy, installed) ==
    IF policy = "none" THEN "seed"
    ELSE IF policy = "refresh" /\ installed THEN "refresh" ELSE "skip"

\* seed_one: decide, and clear the prior copy.
SeedExample ==
    /\ boot = "example" /\ At(Webui, "idle")
    /\ IF DecideAction(marker, project[Example] # "none") = "skip"
       THEN boot' = "start" /\ UNCHANGED <<cli, project>>
       ELSE /\ project' = [project EXCEPT ![Example] = "none"]
            /\ GoTo(Webui, "copy")
            /\ UNCHANGED boot
    /\ UNCHANGED <<doc, webRoutes, front, daemon, lock, source, tomb, marker, wanted, lost, budget>>

\* install_source, then the webapps command that registers the copy.
CopyExample ==
    /\ At(Webui, "copy")
    /\ project' = [project EXCEPT ![Example] = "image"]
    /\ cli' = [cli EXCEPT ![Webui] = [Idle EXCEPT !.at = IF doc.there THEN "wait" ELSE "empty",
                                                 !.cmd = "create", !.target = Example]]
    /\ UNCHANGED <<doc, webRoutes, front, daemon, lock, boot, source, tomb, marker, wanted, lost, budget>>

\* write_marker, on a first install only
MarkExample ==
    /\ At(Webui, "mark")
    /\ marker' = IF marker = "none" THEN "refresh" ELSE marker
    /\ Finish(Webui, TRUE)
    /\ UNCHANGED <<doc, webRoutes, front, daemon, source, tomb, project, wanted, lost, budget>>

StartDaemon ==
    /\ boot = "start"
    /\ boot' = "up"
    /\ daemon' = [up |-> TRUE, stale |-> FALSE, port |-> Loaded(doc)]
    /\ UNCHANGED <<doc, webRoutes, front, lock, cli, source, tomb, project, marker, wanted, lost, budget>>

\* The container is stopped or killed: files stay, processes and locks go, and what
\* a publication had moved away is not moved back.
Crash ==
    /\ boot # "down"
    /\ budget.crashes > 0
    /\ budget' = [budget EXCEPT !.crashes = @ - 1]
    /\ boot' = "down"
    /\ lock' = Free
    /\ cli' = [p \in Process |-> Idle]
    /\ daemon' = [up |-> FALSE, stale |-> FALSE, port |-> [n \in Name |-> 0]]
    /\ lost' = lost \cup (IF InGap THEN wanted ELSE {}) \cup {w \in Widget : front.port[w] # doc.port[w]}
    /\ UNCHANGED <<doc, webRoutes, front, source, tomb, project, marker, wanted>>

-----------------------------------------------------------------------------
(* The agent's edits                                                       *)

WriteWidget(w) ==
    /\ budget.edits > 0 /\ boot = "up"
    /\ \E manifest \in Manifest \ {source[w]} : source' = [source EXCEPT ![w] = manifest]
    /\ budget' = [budget EXCEPT !.edits = @ - 1]
    /\ UNCHANGED <<doc, webRoutes, front, daemon, lock, cli, boot, tomb, project, marker, wanted, lost>>

\* The user edits a project and freezes it; the marker goes with the example.
EditProject(a) ==
    /\ budget.edits > 0 /\ boot = "up"
    /\ project' = [project EXCEPT ![a] = "edited"]
    /\ marker' = IF a = Example /\ marker # "none" THEN "freeze" ELSE marker
    /\ budget' = [budget EXCEPT !.edits = @ - 1]
    /\ UNCHANGED <<doc, webRoutes, front, daemon, lock, cli, boot, source, tomb, wanted, lost>>

CommandStep(p) ==
    \/ WriteEmpty(p) \/ Acquire(p)
    \/ Create(p) \/ Start(p) \/ Stop(p) \/ Resync(p) \/ SetEnv(p) \/ Remove(p) \/ Die(p)
    \/ RegenerateRoutes(p) \/ Update(p) \/ UpdateFails(p) \/ RemoveProject(p)
    \/ Bury(p) \/ MoveToTombstone(p) \/ StageGeneration(p) \/ StageFails(p)
    \/ PublishFront(p) \/ TakeDoc(p) \/ PublishDoc(p) \/ Hook(p) \/ Undo(p) \/ RestoreGeneration(p)
    \/ RollbackHook(p) \/ RestoreSource(p) \/ SweepTombstone(p)

BootStep == BootContainer \/ BootCommand \/ SeedExample \/ CopyExample \/ MarkExample \/ StartDaemon

WorkNext ==
    \/ \E p \in Process : CommandStep(p)
    \/ \E c \in Cli : RunCommand(c)
    \/ BootStep
    \/ Crash
    \/ \E w \in Widget : WriteWidget(w)
    \/ \E a \in User : EditProject(a)

WorkSpec == WorkInit /\ [][WorkNext]_workVars

\* Commands run on, and a stopped container is started again.
WorkFairness ==
    /\ \A p \in Process : WF_workVars(CommandStep(p))
    /\ WF_workVars(BootStep)

WorkLiveSpec == WorkSpec /\ WorkFairness

-----------------------------------------------------------------------------
(* Properties                                                              *)

\* Web apps and widgets share one pool: no two entries of the document hold one
\* port, whichever commands allocated them and whatever failed in between.
PortsAreUnique == Unique(doc)

\* An accepted web app stays registered until its own command removes it, unless the
\* whole document was lost: no widgets command, rollback, boot or crash elsewhere drops
\* an app, and nothing at all brings back a removed one.
WebappsAreKept ==
    Quiet => \A a \in WebApp :
               /\ doc.port[a] # 0 => a \in wanted
               /\ a \in wanted => doc.port[a] # 0 \/ a \in lost

\* process_supervisor.py:77, "Serialize mutations to one process-compose project": the
\* document is never lost with its web apps.  It is away between the two renames of a
\* publication (widgets_runtime.py:882-884): a crash leaves it so, and a command that
\* looks then, before it has the lock, empties what is published meanwhile.
NoWebappIsLost == lost \cap WebApp = {}

\* Between commands of a running agent the routes, the registry and the document agree
\* on every entry that was not lost: what is routed runs on that port, and a stopped
\* app is not routed.
RoutesMatchDocument ==
    (Quiet /\ boot = "up") =>
        /\ \A a \in WebApp \ lost : webRoutes[a] = Routes(doc)[a]
        /\ \A w \in Widget \ lost : front.port[w] = doc.port[w]

\* The daemon runs the document between commands, unless its last reload failed or the
\* document was emptied under it.
DaemonRunsDocument ==
    (Quiet /\ daemon.up /\ ~daemon.stale) => daemon.port = Loaded(doc)

\* A widget's tombstone is emptied only by giving the source back, or when the widget
\* is published no more (or another source was written): a failed delete loses nothing.
PurgedIsUnpublished ==
    \A w \in Widget :
      (tomb[w] \in Manifest /\ tomb'[w] = "none") =>
         \/ source'[w] # "none"
         \/ (w \notin front.shown /\ doc.port[w] = 0)

\* "freeze" keeps the user's edits: only the user's delete removes a frozen copy.
FrozenIsKept ==
    (marker = "freeze" /\ project[Example] = "edited" /\ project'[Example] # "edited") =>
       \E p \in Cli : Running(p, "delete", "rmtree") /\ Target(p) = Example

\* A stopped container ends up running again, and every command ends.
ComesUpAgain == (boot = "down") ~> (boot = "up")
CommandsEnd == \A c \in Cli : (cli[c].at # "idle") ~> (cli[c].at = "idle")

\* widgets_runtime.py:790: "repeat `widgets delete {slug} --yes` to finish": a residual
\* left by a delete can be finished by deleting again.
DeleteCanBeRepeated ==
    \A w \in Widget : (Quiet /\ tomb[w] = "empty") => source[w] = "none"

\* app_workloads_design.md:142: "`webapps unregister` removes registration while preserving
\* source and logs": only a create of the user's registers a removed app again.
RemovedStaysRemoved ==
    [][\A a \in User : (a \notin wanted /\ a \in wanted' /\ (a = Example => marker # "none")) =>
          \E p \in Cli : Running(p, "create", "locked") /\ Target(p) = a]_workVars

\* seed_example_webapps.py:24: "On every deploy, overwrite the install from the baked
\* source": an example the user kept is installed whenever the agent is up.
KeptExampleIsInstalled ==
    (boot = "up" /\ Quiet /\ Example \in wanted) => project[Example] # "none"
=============================================================================
