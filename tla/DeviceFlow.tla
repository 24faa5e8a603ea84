----------------------------- MODULE DeviceFlow -----------------------------
(***************************************************************************)
(* Device logins of model providers: the broker's sessions behind one lock *)
(* (device_flow.py), the dialogs of browser tabs that show a code and ask  *)
(* for the session of the provider, the tokens that HUMR stores, and the   *)
(* choreography that follows a connect or a disconnect (credentials_       *)
(* service.py) down to the marker in the gateway's auth.json, written by a *)
(* process of its own.                                                     *)
(*                                                                         *)
(* A job is a login, numbered in the order its code was issued, or a       *)
(* disconnect, numbered after every login.  A request is a step of its own *)
(* where its sender may be gone when the answer comes.                     *)
(***************************************************************************)
EXTENDS Naturals, FiniteSets

CONSTANTS
  Providers,       \* providers of a device login
  TwoStep,         \* those whose approval is a code to exchange (Codex)
  Tabs,            \* browser tabs
  MaxLogins,       \* bound on the codes issued
  MaxPresses,      \* bound on the Connect buttons pressed
  MaxDisconnects,  \* bound on the disconnects
  MaxRestarts,     \* bound on the broker's restarts
  Faults           \* whether HUMR's answers and marker processes may fail

DeviceAssumption ==
  /\ TwoStep \subseteq Providers /\ Faults \in BOOLEAN
  /\ MaxLogins \in Nat /\ MaxPresses \in Nat
  /\ MaxDisconnects \in Nat /\ MaxRestarts \in Nat

Logins == 1..MaxLogins
Disconnects == MaxLogins + 1 .. MaxLogins + MaxDisconnects
Jobs == Logins \cup Disconnects
NoHolder == "nobody"

VARIABLES
  session,    \* _sessions: the login of each provider, or 0
  lock,       \* the tab whose start holds _lock across its request, or NoHolder
  job,        \* each login's poll task, and each disconnect's handler
  code,       \* the provider: what became of each login's code
  tab,        \* each tab's dialog
  posts,      \* logins whose tokens are on their way to HUMR
  row,        \* HUMR: the login whose refresh token is stored, or 0
  card,       \* the broker's connection state
  marker,     \* auth.json: whether the provider's block is there
  writers,    \* the marker processes that run
  used,       \* codes issued, buttons pressed, disconnects, restarts
  stored,     \* history: the logins HUMR stored
  disturbed   \* history: providers whose marker something besides one job touched

vars == <<session, lock, job, code, tab, posts, row, card, marker, writers, used,
          stored, disturbed>>
humr == <<posts, row, stored>>
local == <<card, marker, writers, disturbed>>

NoJob == [prov |-> "none", at |-> "none", phase |-> "none"]
NoTab == [prov |-> "none", login |-> 0, at |-> "closed"]

\* The stages of the poll task before the tokens are HUMR's.
Polling == {"poll", "exchange", "tokens", "posted", "answered", "refused"}
\* The stages of the choreography after HUMR's answer.
Applying == {"resync", "sync", "syncing", "mark", "marking"}

\* The other jobs of a provider that HUMR has answered.
Others(j) == {k \in Jobs \ {j} : job[k].prov = job[j].prov
                                  /\ job[k].at \in Applying \cup {"answered"}}

Alive(j) == job[j].at \in Polling \cup Applying \cup {"delete"}

Go(j, at) == job' = [job EXCEPT ![j].at = at]

Init ==
  /\ session = [p \in Providers |-> 0]
  /\ lock = NoHolder
  /\ job = [j \in Jobs |-> NoJob]
  /\ code = [l \in Logins |-> "none"]
  /\ tab = [t \in Tabs |-> NoTab]
  /\ posts = {} /\ row = [p \in Providers |-> 0]
  /\ card = [p \in Providers |-> FALSE]
  /\ marker = [p \in Providers |-> FALSE]
  /\ writers = {} /\ disturbed = {} /\ stored = {}
  /\ used = [codes |-> 0, presses |-> 0, disconnects |-> 0, restarts |-> 0]

------------------------------------------------------------------------------
(* The sessions.                                                           *)

\* Bug: a session is forgotten and its poll task left to run.
ForgetSession(p) ==
  /\ session' = [session EXCEPT ![p] = 0]
  /\ UNCHANGED <<job, disturbed>>

\* Cancel and forget (_cancel_locked).  A task stops at its await; a process it
\* waits for runs on.
CancelSession(p) ==
  LET l == session[p] IN
  /\ session' = [session EXCEPT ![p] = 0]
  /\ job' = IF l # 0 /\ Alive(l) THEN [job EXCEPT ![l].at = "cancelled"] ELSE job
  /\ disturbed' = IF l # 0 /\ job[l].at \in Applying THEN disturbed \cup {p} ELSE disturbed

PressConnect(t, p) ==
  /\ tab[t].at = "closed" /\ used.presses < MaxPresses
  /\ used' = [used EXCEPT !.presses = @ + 1]
  /\ tab' = [tab EXCEPT ![t] = [prov |-> p, login |-> 0, at |-> "start"]]
  /\ UNCHANGED <<session, lock, job, code, humr, local>>

\* start takes the lock, cancels the provider's session and asks for a code.
StartTakesLock(t) ==
  /\ tab[t].at = "start" /\ lock = NoHolder
  /\ lock' = t
  /\ CancelSession(tab[t].prov)
  /\ tab' = [tab EXCEPT ![t].at = "starting"]
  /\ UNCHANGED <<code, humr, card, marker, writers, used>>

StartAnswers(t) ==
  LET l == used.codes + 1 IN
  /\ tab[t].at = "starting" /\ l <= MaxLogins
  /\ used' = [used EXCEPT !.codes = l]
  /\ code' = [code EXCEPT ![l] = "waiting"]
  /\ job' = [job EXCEPT ![l] = [prov |-> tab[t].prov, at |-> "poll", phase |-> "pending"]]
  /\ session' = [session EXCEPT ![tab[t].prov] = l]
  /\ tab' = [tab EXCEPT ![t].at = "showing", ![t].login = l]
  /\ lock' = NoHolder
  /\ UNCHANGED <<humr, local>>

StartFails(t) ==
  /\ tab[t].at = "starting"
  /\ lock' = NoHolder
  /\ tab' = [tab EXCEPT ![t] = NoTab]
  /\ UNCHANGED <<session, job, code, humr, local, used>>

------------------------------------------------------------------------------
(* The dialog: it asks for the provider's session, whichever login that is. *)

Seen(p) == IF session[p] = 0 THEN "failed" ELSE job[session[p]].phase

DialogPolls(t) ==
  /\ tab[t].at = "showing" /\ lock = NoHolder /\ Seen(tab[t].prov) # "pending"
  /\ tab' = [tab EXCEPT ![t].at = IF Seen(tab[t].prov) = "completed" THEN "changed"
                                                                    ELSE "failed"]
  /\ UNCHANGED <<session, lock, job, code, humr, local, used>>

\* Cancel, or Close under an error: the same handler, which asks the broker to
\* drop the session, best effort.
CloseDialog(t) ==
  /\ tab[t].at \in {"showing", "failed"}
  /\ tab' = [tab EXCEPT ![t].at = "cancel"]
  /\ UNCHANGED <<session, lock, job, code, humr, local, used>>

CancelArrives(t) ==
  /\ tab[t].at = "cancel" /\ lock = NoHolder
  /\ CancelSession(tab[t].prov)
  /\ tab' = [tab EXCEPT ![t] = NoTab]
  /\ UNCHANGED <<lock, code, humr, card, marker, writers, used>>

CancelLost(t) ==
  /\ tab[t].at = "cancel" /\ Faults
  /\ tab' = [tab EXCEPT ![t] = NoTab]
  /\ UNCHANGED <<session, lock, job, code, humr, local, used>>

\* The card is drawn again.
DialogGone(t) ==
  /\ tab[t].at = "changed"
  /\ tab' = [tab EXCEPT ![t] = NoTab]
  /\ UNCHANGED <<session, lock, job, code, humr, local, used>>

------------------------------------------------------------------------------
(* The poll task.                                                          *)

\* The user approves the code, with an account HUMR can use or not.
Approve(l) ==
  /\ code[l] = "waiting"
  /\ \E usable \in BOOLEAN :
       code' = [code EXCEPT ![l] = IF usable THEN "approved" ELSE "unusable"]
  /\ UNCHANGED <<session, lock, job, tab, humr, local, used>>

\* A poll finds the approval; Codex gets a code to exchange, Nous the tokens.
PollApproved(l) ==
  /\ job[l].at = "poll" /\ code[l] \in {"approved", "unusable"}
  /\ Go(l, IF job[l].prov \in TwoStep THEN "exchange" ELSE "tokens")
  /\ UNCHANGED <<session, lock, code, tab, humr, local, used>>

ExchangeCode(l) ==
  /\ job[l].at = "exchange"
  /\ Go(l, "tokens")
  /\ UNCHANGED <<session, lock, code, tab, humr, local, used>>

Failed(l) == job' = [job EXCEPT ![l].at = "done", ![l].phase = "failed"]

\* A refused or unreadable answer, a failed request, no refresh token.
PollFails(l) ==
  /\ job[l].at \in {"poll", "exchange", "tokens"}
  /\ Failed(l)
  /\ UNCHANGED <<session, lock, code, tab, humr, local, used>>

Deadline(l) == job[l].at = "poll"

\* The code is older than its expires_in.
PollTimesOut(l) ==
  /\ Deadline(l)
  /\ Failed(l)
  /\ code' = [code EXCEPT ![l] = "expired"]
  /\ UNCHANGED <<session, lock, tab, humr, local, used>>

SubmitTokens(l) ==
  /\ job[l].at = "tokens"
  /\ posts' = posts \cup {l}
  /\ Go(l, "posted")
  /\ UNCHANGED <<session, lock, code, tab, row, stored, local, used>>

\* HUMR handles the POST, its sender there or not: tokens of no ChatGPT account
\* are refused, others replace what is stored.
DeviceComplete(l) ==
  LET ok == code[l] = "approved" IN
  /\ l \in posts
  /\ posts' = posts \ {l}
  /\ row' = IF ok THEN [row EXCEPT ![job[l].prov] = l] ELSE row
  /\ stored' = IF ok THEN stored \cup {l} ELSE stored
  /\ \E heard \in {TRUE, ~Faults} :
       job' = IF job[l].at # "posted" THEN job
              ELSE [job EXCEPT ![l].at = IF ok /\ heard THEN "answered" ELSE "refused"]
  /\ disturbed' = IF Others(l) # {} THEN disturbed \cup {job[l].prov} ELSE disturbed
  /\ UNCHANGED <<session, lock, code, tab, card, marker, writers, used>>

PostLost(l) ==
  /\ l \in posts /\ Faults
  /\ posts' = posts \ {l}
  /\ job' = IF job[l].at = "posted" THEN [job EXCEPT ![l].at = "refused"] ELSE job
  /\ UNCHANGED <<session, lock, code, tab, row, stored, local, used>>

Submitted(l) == job[l].at = "answered"

\* complete_device_flow goes on only with a 2xx.
Answered(l) ==
  /\ Submitted(l)
  /\ Go(l, "resync")
  /\ UNCHANGED <<session, lock, code, tab, humr, local, used>>

NotStored(l) ==
  /\ job[l].at = "refused" /\ ~Submitted(l)
  /\ Failed(l)
  /\ UNCHANGED <<session, lock, code, tab, humr, local, used>>

------------------------------------------------------------------------------
(* The choreography of a connect or a disconnect.                          *)

AskDisconnect(p) ==
  LET d == MaxLogins + used.disconnects + 1 IN
  /\ d \in Disconnects
  /\ used' = [used EXCEPT !.disconnects = @ + 1]
  /\ job' = [job EXCEPT ![d] = [prov |-> p, at |-> "delete", phase |-> "pending"]]
  /\ UNCHANGED <<session, lock, code, tab, humr, local>>

\* HUMR deletes the row and the broker marks the provider disconnected.
HumrDeletes(d) ==
  /\ job[d].at = "delete"
  /\ row' = [row EXCEPT ![job[d].prov] = 0]
  /\ card' = [card EXCEPT ![job[d].prov] = FALSE]
  /\ Go(d, "resync")
  /\ disturbed' = IF Others(d) # {} THEN disturbed \cup {job[d].prov} ELSE disturbed
  /\ UNCHANGED <<session, lock, code, tab, posts, stored, marker, writers, used>>

DisconnectFails(d) ==
  /\ job[d].at = "delete" /\ Faults
  /\ Go(d, "done")
  /\ UNCHANGED <<session, lock, code, tab, humr, local, used>>

\* History: two choreographies of a provider at once, or a process of one that is gone.
Meets(j) ==
  IF Others(j) # {} \/ \E w \in writers : w.prov = job[j].prov /\ w.by # j
  THEN disturbed \cup {job[j].prov} ELSE disturbed

\* HUMR's truth, or nothing when it does not answer, and no projection then.
Resync(j) ==
  LET p == job[j].prov IN
  /\ job[j].at = "resync"
  /\ \/ card' = [card EXCEPT ![p] = row[p] # 0] /\ Go(j, "sync")
     \/ Faults /\ card' = card /\ Go(j, "mark")
  /\ disturbed' = IF job'[j].at = "mark" THEN disturbed \cup {p} ELSE Meets(j)
  /\ UNCHANGED <<session, lock, code, tab, humr, marker, writers, used>>

Launch(j, on) == writers' = writers \cup {[prov |-> job[j].prov, on |-> on, by |-> j]}

\* _sync_auth_markers: the marker process is started on the connection state.
Syncs(j) == Launch(j, card[job[j].prov])

Sync(j) ==
  /\ job[j].at = "sync"
  /\ Syncs(j)
  /\ Go(j, "syncing")
  /\ disturbed' = Meets(j)
  /\ UNCHANGED <<session, lock, code, tab, humr, card, marker, used>>

\* _apply_auth_marker: on what the job did, whatever the connection state is by now.
Marks(j) == Launch(j, j \in Logins)

Mark(j) ==
  /\ job[j].at = "mark"
  /\ Marks(j)
  /\ Go(j, "marking")
  /\ disturbed' = Meets(j)
  /\ UNCHANGED <<session, lock, code, tab, humr, card, marker, used>>

\* A marker process ends: auth.json is written under its lock, or not at all.
WriterEnds(w) ==
  LET j == w.by IN
  /\ w \in writers
  /\ writers' = writers \ {w}
  /\ \/ marker' = [marker EXCEPT ![w.prov] = w.on] /\ disturbed' = disturbed
     \/ Faults /\ marker' = marker /\ disturbed' = disturbed \cup {w.prov}
  /\ job' = CASE job[j].at = "syncing" -> [job EXCEPT ![j].at = "mark"]
              [] job[j].at = "marking" -> [job EXCEPT ![j].at = "done", ![j].phase = "completed"]
              [] OTHER -> job
  /\ UNCHANGED <<session, lock, code, tab, humr, card, used>>

\* The broker restarts: tasks, sessions and processes are gone; bootstrap projects HUMR's
\* truth on the card and the marker.
Restart ==
  /\ used.restarts < MaxRestarts
  /\ used' = [used EXCEPT !.restarts = @ + 1]
  /\ session' = [p \in Providers |-> 0] /\ lock' = NoHolder
  /\ job' = [j \in Jobs |-> IF Alive(j) THEN [job[j] EXCEPT !.at = "cancelled"] ELSE job[j]]
  /\ tab' = [t \in Tabs |-> IF tab[t].at \in {"start", "starting", "cancel"} THEN NoTab ELSE tab[t]]
  /\ card' = [p \in Providers |-> row[p] # 0]
  /\ marker' = card' /\ writers' = {} /\ disturbed' = {}
  /\ UNCHANGED <<code, humr>>

------------------------------------------------------------------------------
TabSteps(t) ==
  \/ StartTakesLock(t) \/ StartAnswers(t) \/ StartFails(t)
  \/ DialogPolls(t) \/ CancelArrives(t) \/ CancelLost(t) \/ DialogGone(t)

LoginAdvances(l) ==
  \/ PollApproved(l) \/ ExchangeCode(l) \/ PollTimesOut(l)
  \/ SubmitTokens(l) \/ DeviceComplete(l) \/ PostLost(l) \/ Answered(l) \/ NotStored(l)

ApplySteps(j) ==
  \/ Resync(j) \/ Sync(j) \/ Mark(j)
  \/ \E w \in writers : w.by = j /\ WriterEnds(w)

Next ==
  \/ \E t \in Tabs : TabSteps(t) \/ CloseDialog(t) \/ \E p \in Providers : PressConnect(t, p)
  \/ \E l \in Logins : LoginAdvances(l) \/ PollFails(l) \/ Approve(l)
  \/ \E p \in Providers : AskDisconnect(p)
  \/ \E d \in Disconnects : HumrDeletes(d) \/ DisconnectFails(d)
  \/ \E j \in Jobs : ApplySteps(j)
  \/ Restart

\* Requests time out, a poll task looks at its deadline, processes are killed after 30
\* seconds, and a dialog polls while it is open.
DeviceFairness ==
  /\ \A t \in Tabs : WF_vars(TabSteps(t))
  /\ \A l \in Logins : WF_vars(LoginAdvances(l))
  /\ \A j \in Jobs : WF_vars(ApplySteps(j))

Spec == Init /\ [][Next]_vars /\ DeviceFairness

------------------------------------------------------------------------------
(* Properties.                                                             *)

\* Every variable keeps its type, and the lock is held while a start waits for its code.
DeviceTypeOK ==
  /\ \A p \in Providers : session[p] \in 0..MaxLogins /\ row[p] \in 0..MaxLogins
  /\ lock = NoHolder <=> \A t \in Tabs : tab[t].at # "starting"
  /\ card \in [Providers -> BOOLEAN]
  /\ marker \in [Providers -> BOOLEAN] /\ posts \subseteq Logins /\ stored \subseteq Logins
  /\ \A j \in Jobs : /\ job[j].prov \in Providers \cup {"none"}
                     /\ job[j].phase \in {"none", "pending", "completed", "failed"}
                     /\ job[j].at \in Polling \cup Applying \cup
                                      {"none", "delete", "done", "cancelled"}
  /\ \A t \in Tabs : tab[t].at \in {"closed", "start", "starting", "showing", "failed",
                                    "changed", "cancel"}
  /\ \A w \in writers : w.prov \in Providers /\ w.on \in BOOLEAN /\ w.by \in Jobs

\* A poll task at work is the one of its provider's session, whatever tabs start, cancel
\* and start over: no code is redeemed behind the dialogs' back.
TasksAreSessions == \A l \in Logins : Alive(l) => session[job[l].prov] = l

\* A dialog that reports a connection follows a login of its provider, its own or a later
\* one, whose tokens HUMR stored.
ChangedMeansStored ==
  \A t \in Tabs : tab[t].at = "changed" =>
    \E l \in stored : l >= tab[t].login /\ job[l].prov = tab[t].prov

\* Once a later login's tokens are stored, an earlier one's never replace them, unless
\* they were already on their way when the user gave that login up.
NewestLoginStands ==
  \A p \in Providers : row'[p] # 0 /\ row'[p] < row[p] => job[row'[p]].at = "cancelled"

AtRest(p) ==
  /\ \A j \in Jobs : job[j].prov = p => job[j].at \in {"poll", "exchange", "tokens", "cancelled", "done"}
  /\ \A w \in writers : w.prov # p

\* With nothing under way, the model picker's marker says what the card says, unless two
\* choreographies met, a login was stored or cancelled in one, or a refresh or a process
\* failed.
MarkerMirrorsCard ==
  \A p \in Providers : AtRest(p) /\ p \notin disturbed => marker[p] = card[p]

\* Every login ends and every dialog stops waiting.
DialogsEnd ==
  /\ \A t \in Tabs : tab[t].at \in {"start", "starting", "showing", "cancel"}
                       ~> tab[t].at \in {"closed", "failed", "changed"}
  /\ \A l \in Logins : Alive(l) ~> ~Alive(l)

\* What the design says of the picker: a provider is there only while connected.
MarkerOnlyWhileConnected == \A p \in Providers : AtRest(p) /\ marker[p] => card[p]
==============================================================================
