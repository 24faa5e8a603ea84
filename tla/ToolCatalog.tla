----------------------------- MODULE ToolCatalog -----------------------------
(***************************************************************************)
(* The tool catalogue of an agent's MCP gateway: one process that lists    *)
(* the tools of several backends (Merge, reached through the control       *)
(* plane, and the connectors the gateway signs in to itself) and shows     *)
(* them to the agent as one index.  Who is connected changes outside the   *)
(* catalogue: it is re-listed over the network, a disconnect only drops    *)
(* rows in memory, and the two race.                                       *)
(***************************************************************************)
EXTENDS Integers, FiniteSets, Sequences

CONSTANTS Order,        \* the backends, in the order the gateway builds them
          Merge,        \* the backend relayed through the control plane
          ConnectorsOf, \* backend -> the connectors it serves
          Natives,      \* connectors the gateway or the broker serves itself
          Public,       \* pairs whose tools need no login
          Tools,        \* tool ids
          Offers,       \* scope -> pair -> the tools upstream lists
          Scopes,       \* the settings of a connector's tool scope
          Scoped,       \* backends with such a setting
          Slots,        \* loads that can be in flight
          MaxChanges,   \* bound: changes of what is connected or configured
          MaxRestarts,  \* bound: restarts of the gateway
          Failing       \* may a listing fail?

Backends == {Order[n] : n \in DOMAIN Order}
Pairs == {<<b, c>> : b \in Backends, c \in UNION {ConnectorsOf[x] : x \in Backends}}
ServedPairs == {p \in Pairs : p[2] \in ConnectorsOf[p[1]]}
Boot == CHOOSE i \in Slots : TRUE

CatalogIsNamed ==
  /\ Merge \in Backends /\ Scoped \subseteq Backends \ {Merge}
  /\ \A s \in Scopes, p \in ServedPairs : Offers[s][p] \subseteq Tools
  /\ \A b \in Backends \ {Merge} : ConnectorsOf[b] \subseteq Natives

\* A connector of the gateway's own is served by one backend.
ASSUME CatalogAssumption ==
  /\ CatalogIsNamed
  /\ \A a, b \in Backends \ {Merge} : ConnectorsOf[a] \cap ConnectorsOf[b] # {} => a = b
  /\ DOMAIN Order = 1..Len(Order) /\ Len(Order) \in Nat
  /\ IsFiniteSet(Tools) /\ Slots \subseteq Nat \ {0} /\ Slots # {}

VARIABLES
  linked,    \* the truth: pairs whose credential exists
  scope,     \* backend -> its saved scope
  entries,   \* tool -> the pair it is listed under, or NoRow
  index,     \* pair -> its row in the connector index
  bm25,      \* the cached keys of the search index, or Unbuilt
  loaded,    \* has any load finished since the process started?
  lock,      \* the load that holds the store's lock, or Free
  refreshing,\* is a "refresh all" under way?
  task,      \* slot -> a load
  modal,     \* Merge connectors whose connect window polls
  leaving,   \* Merge connectors whose disconnect waits for its answer
  excuse,    \* backend -> may its rows be out of date? (see QuietIsCurrent)
  changes, restarts

catalog == <<entries, index, bm25, loaded>>
catalogVars == <<linked, scope, entries, index, bm25, loaded, lock, refreshing, task,
                 modal, leaving, excuse, changes, restarts>>

NoRow == <<>>
Free == 0
Unbuilt == {<<>>}
Absent == [there |-> FALSE, status |-> "", count |-> 0]
Idle == [kind |-> "idle", of |-> {}, pc |-> "done",
         tools |-> [b \in Backends |-> {}], known |-> [b \in Backends |-> {}],
         got |-> {}, failed |-> {}, dropped |-> {}, old |-> {}]

------------------------------------------------------------------------------
(* What a backend answers. *)

\* Merge's connectors the gateway shows: a native connector of the same name
\* replaces Merge's.
Visible(p) == p \in ServedPairs /\ (p[1] = Merge => p[2] \notin Natives)

\* The tools a backend lists now.  The gateway's own connectors list none
\* without a credential; the control plane relays what Merge lists for the
\* linked and the public connectors, less those that are not shown.
ToolsUpstream(b, ps) ==
  {e \in Tools \X ps : e[2][1] = b /\ e[1] \in Offers[scope[b]][e[2]]}
OwnTools(b) == ToolsUpstream(b, linked)
RelayedTools == ToolsUpstream(Merge, linked \cup Public)
MergeTools == {e \in RelayedTools : Visible(e[2])}
Listed(b) == IF b = Merge THEN MergeTools ELSE OwnTools(b)

\* The connectors it lists, with their state.
StatusOf(p) == IF p \in linked THEN "connected" ELSE "not_connected"
KnownAt(b) == {<<p, StatusOf(p)>> : p \in {q \in Pairs : q[1] = b /\ Visible(q)}}

------------------------------------------------------------------------------
(* The store. *)

RowsUnder(ents, p) == {t \in Tools : ents[t] = p}

\* A row of the index: callable tools imply "connected", whatever the
\* backend's own list says; tools of a connector nobody listed still show.
Row(p, ents, known) ==
  LET n == Cardinality(RowsUnder(ents, p))
      said == {k \in known : k[1] = p}
  IN IF n > 0 THEN [there |-> TRUE, status |-> "connected", count |-> n]
     ELSE IF said # {} THEN [there |-> TRUE, count |-> 0,
                             status |-> (CHOOSE k \in said : TRUE)[2]]
     ELSE Absent

PairFor(t, listing) == (CHOOSE e \in listing : e[1] = t)[2]
Offered(t, listing) == \E e \in listing : e[1] = t

\* One backend's slice is swapped; a tool id another backend holds stays its.
\* Bug: the slice is added without dropping the rows it replaces.
SliceAdded(b, listing) ==
  [t \in Tools |->
     IF entries[t] # NoRow THEN entries[t]
     ELSE IF Offered(t, listing) THEN PairFor(t, listing) ELSE NoRow]

Slice(b, listing) ==
  [t \in Tools |->
     IF entries[t] # NoRow /\ entries[t][1] # b THEN entries[t]
     ELSE IF Offered(t, listing) THEN PairFor(t, listing) ELSE NoRow]

\* All backends are replaced; of two that list one tool id the later wins.
Whole(tools) ==
  [t \in Tools |->
     LET having == {n \in DOMAIN Order : Offered(t, tools[Order[n]])}
     IN IF having = {} THEN NoRow
        ELSE PairFor(t, tools[Order[CHOOSE n \in having : \A m \in having : m <= n]])]

SearchKeys == {<<"tool", t>> : t \in {u \in Tools : entries[u] # NoRow}}
              \cup {<<"connector", p>> : p \in {q \in Pairs : index[q].there
                                                              /\ index[q].count = 0}}

\* drop: the rows of a disconnected connector go at once, without a network.
Drop(p) ==
  /\ entries' = [t \in Tools |-> IF entries[t] = p THEN NoRow ELSE entries[t]]
  /\ index' = [index EXCEPT ![p] = IF @.there THEN [@ EXCEPT !.status = "not_connected",
                                                              !.count = 0] ELSE @]
  /\ bm25' = Unbuilt
  /\ UNCHANGED loaded

------------------------------------------------------------------------------
(* Loads.  "boot" runs once and takes no lock; "all" and "one" take it.    *)

Load(kind, of) == [Idle EXCEPT !.kind = kind, !.of = of,
                               !.pc = IF kind = "boot" THEN "list" ELSE "lock"]
Running(i) == task[i].kind # "idle"

\* What a change of backend b means for the loads that have listed it.
Outdated(b, wasDrop) ==
  [i \in Slots |->
     IF Running(i) /\ \E w \in {"tools", "known"} : <<b, w>> \in task[i].got
     THEN [task[i] EXCEPT !.old = @ \cup {b},
                          !.dropped = IF wasDrop THEN @ \cup {b} ELSE @]
     ELSE task[i]]

\* A change after which the one backend is listed again, in the background.
Schedule(b) ==
  \E i \in Slots :
    /\ ~Running(i)
    /\ task' = [Outdated(b, FALSE) EXCEPT ![i] = Load("one", {b})]

TakeLock(i) ==
  /\ task[i].pc = "lock" /\ lock = Free
  /\ lock' = i
  /\ task' = [task EXCEPT ![i].pc = "list"]
  /\ UNCHANGED <<linked, scope, catalog, refreshing, modal, leaving, excuse, changes, restarts>>

\* One backend's answer to "list your tools"; a failure contributes none.
ListTools(i, b, ok) ==
  /\ task[i].pc = "list" /\ b \in task[i].of /\ <<b, "tools">> \notin task[i].got
  /\ ok \/ Failing
  /\ task' = [task EXCEPT ![i].got = @ \cup {<<b, "tools">>},
                          ![i].tools[b] = IF ok THEN Listed(b) ELSE {},
                          ![i].failed = IF ok THEN @ ELSE @ \cup {b}]
  /\ UNCHANGED <<linked, scope, catalog, lock, refreshing, modal, leaving, excuse, changes, restarts>>

\* Then, once every backend has answered that, "list your connectors".
ListKnown(i, b, ok) ==
  /\ task[i].pc = "list" /\ b \in task[i].of /\ <<b, "known">> \notin task[i].got
  /\ \A x \in task[i].of : <<x, "tools">> \in task[i].got
  /\ ok \/ Failing
  /\ task' = [task EXCEPT ![i].got = @ \cup {<<b, "known">>},
                          ![i].known[b] = IF ok THEN KnownAt(b) ELSE {},
                          ![i].failed = IF ok THEN @ ELSE @ \cup {b}]
  /\ UNCHANGED <<linked, scope, catalog, lock, refreshing, modal, leaving, excuse, changes, restarts>>

FoldIn(i, ents, keep) ==
  /\ entries' = ents
  /\ index' = [p \in Pairs |->
       IF p[1] \in keep THEN index[p] ELSE Row(p, ents, task[i].known[p[1]])]
  /\ bm25' = Unbuilt
  /\ loaded' = TRUE

\* The answers are folded into the store in one go.
Finish(i) ==
  LET of == task[i].of IN
  /\ task[i].pc = "list"
  /\ \A b \in of, w \in {"tools", "known"} : <<b, w>> \in task[i].got
  /\ FoldIn(i, IF task[i].kind = "one"
                THEN LET b == CHOOSE x \in of : TRUE IN Slice(b, task[i].tools[b])
                ELSE Whole(task[i].tools),
             Backends \ of)
  /\ lock' = IF lock = i THEN Free ELSE lock
  /\ refreshing' = (refreshing /\ task[i].kind # "all")
  /\ task' = [task EXCEPT ![i] = Idle]
  /\ excuse' = [b \in Backends |->
       IF b \notin of THEN excuse[b]
       ELSE \/ b \in task[i].failed \cup task[i].dropped
            \/ b \in task[i].old /\ task[i].kind = "boot"
            \/ excuse[b] /\ \E j \in Slots : b \in task[j].old]
  /\ UNCHANGED <<linked, scope, modal, leaving, changes, restarts>>

------------------------------------------------------------------------------
(* What happens around the catalogue. *)

Change == changes < MaxChanges /\ changes' = changes + 1

\* The user signs in to a connector of the gateway's own (DcrOAuth).
ConnectOwn(p) ==
  /\ Change
  /\ p \in ServedPairs /\ p[1] # Merge /\ p \notin linked
  /\ linked' = linked \cup {p}
  /\ Schedule(p[1])
  /\ UNCHANGED <<scope, catalog, lock, refreshing, modal, leaving, excuse, restarts>>

\* ... and disconnects it: the token goes and the rows with it.
DisconnectOwn(p) ==
  /\ Change
  /\ p \in linked /\ p[1] # Merge
  /\ linked' = linked \ {p}
  /\ Drop(p)
  /\ task' = Outdated(p[1], TRUE)
  /\ UNCHANGED <<scope, lock, refreshing, modal, leaving, excuse, restarts>>

\* The connect window of a Merge connector opens and polls its status.
OpenModal(c) ==
  /\ <<Merge, c>> \in ServedPairs /\ <<Merge, c>> \notin linked /\ c \notin Natives
  /\ c \notin modal
  /\ modal' = modal \cup {c}
  /\ UNCHANGED <<linked, scope, catalog, lock, refreshing, task, leaving, excuse, changes, restarts>>

\* The user signs in at Merge: the gateway is not told.
LinkAtMerge(c) ==
  /\ Change
  /\ c \in modal /\ <<Merge, c>> \notin linked
  /\ linked' = linked \cup {<<Merge, c>>}
  /\ task' = Outdated(Merge, FALSE)
  /\ UNCHANGED <<scope, catalog, lock, refreshing, modal, leaving, excuse, restarts>>

\* The first poll that says "connected" fires the reload and ends the polling.
Poll(c) ==
  /\ c \in modal /\ <<Merge, c>> \in linked
  /\ modal' = modal \ {c}
  /\ Schedule(Merge)
  /\ UNCHANGED <<linked, scope, catalog, lock, refreshing, leaving, excuse, changes, restarts>>

\* The window is closed before that.
CloseModal(c) ==
  /\ c \in modal
  /\ modal' = modal \ {c}
  /\ excuse' = IF <<Merge, c>> \in linked THEN [excuse EXCEPT ![Merge] = TRUE] ELSE excuse
  /\ UNCHANGED <<linked, scope, catalog, lock, refreshing, task, leaving, changes, restarts>>

\* A disconnect at Merge, and its answer: it may be lost on the way back.
UnlinkAtMerge(c) ==
  /\ Change
  /\ <<Merge, c>> \in linked
  /\ linked' = linked \ {<<Merge, c>>}
  /\ leaving' = leaving \cup {c}
  /\ task' = Outdated(Merge, FALSE)
  /\ UNCHANGED <<scope, catalog, lock, refreshing, modal, excuse, restarts>>

Unlinked(c) ==
  /\ c \in leaving
  /\ leaving' = leaving \ {c}
  /\ Drop(<<Merge, c>>)
  /\ task' = Outdated(Merge, TRUE)
  /\ excuse' = IF <<Merge, c>> \in linked \cup Public THEN [excuse EXCEPT ![Merge] = TRUE]
                                                      ELSE excuse
  /\ UNCHANGED <<linked, scope, lock, refreshing, modal, changes, restarts>>

UnlinkLost(c) ==
  /\ c \in leaving /\ Failing
  /\ leaving' = leaving \ {c}
  /\ excuse' = [excuse EXCEPT ![Merge] = TRUE]
  /\ UNCHANGED <<linked, scope, catalog, lock, refreshing, task, modal, changes, restarts>>

\* The agent narrows or widens a connector's tools with a tool the catalogue
\* itself lists (also while its rows are out of date).
Reconfigure(b, s) ==
  /\ Change
  /\ b \in Scoped /\ s # scope[b]
  /\ \E p \in Pairs : p[1] = b /\ index[p].status = "connected" /\ RowsUnder(entries, p) # {}
  /\ scope' = [scope EXCEPT ![b] = s]
  /\ Schedule(b)
  /\ UNCHANGED <<linked, catalog, lock, refreshing, modal, leaving, excuse, restarts>>

\* The user's "refresh all": one at a time.
RefreshAll ==
  /\ Change
  /\ ~refreshing
  /\ \E i \in Slots : ~Running(i) /\ task' = [task EXCEPT ![i] = Load("all", Backends)]
  /\ refreshing' = TRUE
  /\ UNCHANGED <<linked, scope, catalog, lock, modal, leaving, excuse, restarts>>

\* The agent searches: the index is built when it was thrown away.
Search ==
  /\ loaded /\ bm25 = Unbuilt
  /\ bm25' = SearchKeys
  /\ UNCHANGED <<linked, scope, entries, index, loaded, lock, refreshing, task,
                 modal, leaving, excuse, changes, restarts>>

\* The gateway restarts: the catalogue is memory, credentials and scope are not.
Restart ==
  /\ restarts < MaxRestarts /\ restarts' = restarts + 1
  /\ entries' = [t \in Tools |-> NoRow]
  /\ index' = [p \in Pairs |-> Absent]
  /\ bm25' = Unbuilt /\ loaded' = FALSE
  /\ lock' = Free /\ refreshing' = FALSE
  /\ task' = [i \in Slots |-> IF i = Boot THEN Load("boot", Backends) ELSE Idle]
  /\ leaving' = {}
  /\ excuse' = [b \in Backends |-> FALSE]
  /\ UNCHANGED <<linked, scope, modal, changes>>

------------------------------------------------------------------------------
CatalogInit ==
  /\ linked \in SUBSET {p \in ServedPairs : Visible(p)} /\ scope \in [Backends -> Scopes]
  /\ \A b \in Backends \ Scoped : scope[b] = CHOOSE s \in Scopes : TRUE
  /\ entries = [t \in Tools |-> NoRow]
  /\ index = [p \in Pairs |-> Absent]
  /\ bm25 = Unbuilt /\ loaded = FALSE
  /\ lock = Free /\ refreshing = FALSE
  /\ task = [i \in Slots |-> IF i = Boot THEN Load("boot", Backends) ELSE Idle]
  /\ modal = {} /\ leaving = {}
  /\ excuse = [b \in Backends |-> FALSE]
  /\ changes = 0 /\ restarts = 0

Loading(i) ==
  \/ TakeLock(i) \/ Finish(i)
  \/ \E b \in Backends, ok \in BOOLEAN : ListTools(i, b, ok) \/ ListKnown(i, b, ok)

CatalogNext ==
  \/ \E i \in Slots : Loading(i)
  \/ \E p \in Pairs : ConnectOwn(p) \/ DisconnectOwn(p)
  \/ \E c \in ConnectorsOf[Merge] :
       \/ OpenModal(c) \/ LinkAtMerge(c) \/ Poll(c) \/ CloseModal(c)
       \/ UnlinkAtMerge(c) \/ Unlinked(c) \/ UnlinkLost(c)
  \/ \E b \in Backends, s \in Scopes : Reconfigure(b, s)
  \/ RefreshAll \/ Search \/ Restart

\* Every listing ends (the clients time out) and the event loop runs them.
CatalogFairness == \A i \in Slots : WF_catalogVars(Loading(i))

CatalogSpec == CatalogInit /\ [][CatalogNext]_catalogVars
FairCatalogSpec == CatalogSpec /\ CatalogFairness
------------------------------------------------------------------------------
(* Properties. *)

\* Every variable keeps its type.
CatalogTypeOK ==
  /\ linked \subseteq ServedPairs /\ scope \in [Backends -> Scopes]
  /\ entries \in [Tools -> Pairs \cup {NoRow}]
  /\ \A p \in Pairs : index[p].status \in {"", "connected", "not_connected"}
  /\ loaded \in BOOLEAN /\ lock \in Slots \cup {Free} /\ refreshing \in BOOLEAN
  /\ excuse \in [Backends -> BOOLEAN]

\* The connector index and the tools are two views of one catalogue, kept by
\* loads that swap a slice, loads that swap everything and drops that touch
\* both in place: no connector's count differs from the tools under it, and
\* one with tools is shown as connected (the fallback that asks the backend
\* for the status of an entry without a row is never needed).
IndexMatchesTools ==
  \A p \in Pairs :
    /\ index[p].count = Cardinality(RowsUnder(entries, p))
    /\ index[p].count > 0 => index[p].there /\ index[p].status = "connected"

\* A cached search index names exactly what the catalogue holds: a key whose
\* tool is gone would make every search that ranks it raise.
SearchIsCurrent == bm25 # Unbuilt => bm25 = SearchKeys

\* One connector is served by one backend: what the broker signs in to itself
\* is never offered by Merge as well.
NativeWins ==
  \A p, q \in Pairs : index[p].there /\ index[q].there /\ p[2] = q[2] => p = q

Quiet == /\ \A i \in Slots : ~Running(i)
         /\ modal = {} /\ leaving = {}

Fresh(b) ==
  /\ {e \in Tools \X Pairs : e[2][1] = b /\ entries[e[1]] = e[2]} = Listed(b)
  /\ \A p \in Pairs : p[1] = b /\ Visible(p) =>
       index[p] = Row(p, entries, KnownAt(b))

\* Once nothing is in flight the catalogue says what is connected and how it
\* is scoped, in whatever order changes and loads overlapped, with these
\* exceptions: a listing failed, an answer from Merge was lost, the connect
\* window was closed before it saw the sign-in, the answer to a disconnect came
\* after the next sign-in or is about a connector that needs none, a disconnect fell between a load's listing and its
\* end, or the load at boot, which takes no lock, ended after a change it had
\* not seen.
QuietIsCurrent == Quiet => \A b \in Backends : Fresh(b) \/ excuse[b]

\* Loads of the connect and refresh paths are serialised by the lock: two of
\* them never list at once.
OneLockedLoad ==
  \A i, j \in Slots : task[i].kind \in {"all", "one"} /\ task[j].kind \in {"all", "one"}
                      /\ task[i].pc = "list" /\ task[j].pc = "list" => i = j

\* No tool id is offered by two connectors that are shown.
ToolsApart ==
  \A p, q \in Pairs, s, r \in Scopes :
    Visible(p) /\ Visible(q) /\ Offers[s][p] \cap Offers[r][q] # {} => p = q

\* Loads that overlap changes leave a catalogue whose index, search and tools agree,
\* and that is current when nothing is under way, if no tool id is claimed twice.
CatalogIsCurrent ==
  /\ CatalogTypeOK /\ IndexMatchesTools /\ SearchIsCurrent /\ NativeWins /\ OneLockedLoad
  /\ QuietIsCurrent \/ ~ToolsApart

\* An agent's call that waits for the catalogue is answered, also after the
\* last restart and when every listing fails.
EventuallyLoaded == <>[]loaded

\* Every load ends.
LoadsEnd == \A i \in Slots : Running(i) ~> ~Running(i)

\* What the handler's comment says: the catalogue mirrors what can be called.
MirrorsCallable ==
  Quiet => \A t \in Tools : entries[t] # NoRow => entries[t] \in linked \cup Public
==============================================================================
