------------------------------- MODULE DcrOAuth -------------------------------
(***************************************************************************)
(* The sign-in the MCP gateway of an agent does itself at one provider:    *)
(* dynamic client registration, the authorization code with PKCE, the      *)
(* refresh of the access token and the disconnect, with the client and the *)
(* token kept in memory and written through to two files.  Every request   *)
(* to the provider is an await in which any other handler may run.         *)
(***************************************************************************)
EXTENDS Integers, FiniteSets, Sequences

CONSTANTS Flows,       \* sign-ins the users start
          Refreshers,     \* coroutines that may refresh (a listing, a call)
          Origins,     \* addresses the browser may come from
          Rotates,     \* does the provider send a new refresh token?
          Lossy,       \* may an answer of the provider be lost?
          MaxCuts,     \* bound: disconnects
          MaxDowns, \* bound: restarts of the gateway
          MaxExpiries  \* bound: expired access tokens

ASSUME DcrAssumption ==
  /\ Flows \subseteq Nat \ {0}
  /\ Rotates \in BOOLEAN /\ Lossy \in BOOLEAN
  /\ MaxCuts \in Nat /\ MaxDowns \in Nat /\ MaxExpiries \in Nat

VARIABLES
  client, token,  \* what the process holds: registration, credential
  disk,           \* client.json and token.json
  flow,           \* flow -> where its handlers are
  pending,        \* states the callback will accept
  refresh,         \* refresher -> where its refresh is
  regs,           \* the provider: the redirect of each registered client
  live,           \* the provider: refresh tokens it accepts
  issued,         \* the provider: refresh tokens issued so far
  spent,          \* the provider: flows whose code was redeemed
  uses,           \* flow -> how often its code was sent to the provider
  cut,            \* flows whose consent a later disconnect ended
  late,           \* was a credential saved by a request a disconnect overtook?
  lost,           \* was an answer with a credential lost?
  cuts, downs, expiries

provider == <<regs, live, issued, spent>>
ghosts == <<uses, cut, late, lost>>
bounds == <<cuts, downs, expiries>>
dcrVars == <<client, token, disk, flow, pending, refresh, provider, ghosts, bounds>>

NoClient == [id |-> 0, redirect |-> ""]
NoToken == [flow |-> 0, rt |-> 0, fresh |-> FALSE]
NoFlow == [pc |-> "none", origin |-> "", cid |-> 0, redirect |-> "",
           sentAs |-> NoClient, rt |-> 0, overtaken |-> FALSE, coded |-> FALSE]
NoRefresh == [pc |-> "idle", cid |-> 0, rt |-> 0, of |-> 0, new |-> 0, overtaken |-> FALSE]

------------------------------------------------------------------------------
(* The two files. *)

save_client(c) == client' = c /\ disk' = [disk EXCEPT !.client = c]
save_token(t) == token' = t /\ disk' = [disk EXCEPT !.token = t]

\* Bug: the token's file outlives the disconnect.
ClearsMemory ==
  /\ token' = NoToken /\ client' = NoClient
  /\ disk' = [disk EXCEPT !.client = NoClient]

ClearsBoth ==
  /\ token' = NoToken /\ client' = NoClient
  /\ disk' = [client |-> NoClient, token |-> NoToken]

------------------------------------------------------------------------------
(* Connecting. *)

FlowEnds(f) == flow' = [flow EXCEPT ![f].pc = "failed"]

Start(f, o) ==
  /\ flow[f].pc = "none"
  /\ flow' = [flow EXCEPT ![f].pc = "meta", ![f].origin = o]
  /\ UNCHANGED <<client, token, disk, pending, refresh, provider, ghosts, bounds>>

\* The browser is sent to the provider as client c.
SendAway(f, c) ==
  /\ pending' = pending \cup {f}
  /\ flow' = [flow EXCEPT ![f].pc = "browser", ![f].cid = c.id, ![f].redirect = c.redirect]

\* With the provider's metadata: a client registered for this redirect is used
\* again.
NeedsClient(f) == client.id = 0 \/ client.redirect # flow[f].origin

StartMeta(f) ==
  /\ flow[f].pc = "meta"
  /\ IF NeedsClient(f)
     THEN flow' = [flow EXCEPT ![f].pc = "register"] /\ UNCHANGED pending
     ELSE SendAway(f, client)
  /\ UNCHANGED <<client, token, disk, refresh, provider, ghosts, bounds>>

Register(f) ==
  /\ flow[f].pc = "register"
  /\ regs' = Append(regs, flow[f].origin)
  /\ LET c == [id |-> Len(regs'), redirect |-> flow[f].origin]
     IN save_client(c) /\ SendAway(f, c)
  /\ UNCHANGED <<token, refresh, live, issued, spent, ghosts, bounds>>

\* The user consents; the provider issues a code for that client and redirect
\* (it refuses a redirect the client is not registered for).
Consent(f) ==
  /\ flow[f].pc = "browser"
  /\ IF regs[flow[f].cid] = flow[f].origin
     THEN flow' = [flow EXCEPT ![f].pc = "code", ![f].coded = TRUE]
     ELSE FlowEnds(f)
  /\ UNCHANGED <<client, token, disk, pending, refresh, provider, ghosts, bounds>>

\* The user refuses: the callback answers before it looks at the state.
Deny(f) ==
  /\ flow[f].pc = "browser"
  /\ FlowEnds(f)
  /\ UNCHANGED <<client, token, disk, pending, refresh, provider, ghosts, bounds>>

\* The callback takes the state, once.
Callback(f) ==
  /\ flow[f].coded /\ f \in pending /\ flow[f].pc \in {"code", "done", "failed"}
  /\ pending' = pending \ {f}
  /\ flow' = [flow EXCEPT ![f].pc = "callback"]
  /\ UNCHANGED <<client, token, disk, refresh, provider, ghosts, bounds>>

\* ... and refuses one it does not know.
CallbackRefused(f) ==
  /\ flow[f].pc = "code" /\ f \notin pending
  /\ FlowEnds(f)
  /\ UNCHANGED <<client, token, disk, pending, refresh, provider, ghosts, bounds>>

\* After the metadata the code is sent as the client of that moment.
SendCode(f) ==
  /\ flow[f].pc = "callback"
  /\ flow' = [flow EXCEPT ![f].pc = "post", ![f].sentAs = client]
  /\ uses' = [uses EXCEPT ![f] = @ + 1]
  /\ UNCHANGED <<client, token, disk, pending, refresh, provider, cut, late, lost, bounds>>

\* The provider redeems a code once, for its own client and redirect.
Redeem(f) ==
  /\ flow[f].pc = "post"
  /\ IF /\ f \notin spent
        /\ flow[f].sentAs = [id |-> flow[f].cid, redirect |-> flow[f].redirect]
     THEN /\ issued' = Append(issued, [flow |-> f, cid |-> flow[f].cid])
          /\ live' = live \cup {Len(issued')}
          /\ spent' = spent \cup {f}
          /\ flow' = [flow EXCEPT ![f].pc = "answer", ![f].rt = Len(issued')]
     ELSE FlowEnds(f) /\ UNCHANGED <<issued, live, spent>>
  /\ UNCHANGED <<client, token, disk, pending, refresh, regs, ghosts, bounds>>

TokenSaved(f) ==
  /\ flow[f].pc = "answer"
  /\ save_token([flow |-> f, rt |-> flow[f].rt, fresh |-> TRUE])
  /\ flow' = [flow EXCEPT ![f].pc = "done"]
  /\ late' = (late \/ flow[f].overtaken)
  /\ UNCHANGED <<client, pending, refresh, provider, uses, cut, lost, bounds>>

\* A request of a sign-in fails: 502, and the user starts again.
FlowFails(f) ==
  /\ Lossy
  /\ flow[f].pc \in {"meta", "register", "callback", "post", "answer"}
  /\ FlowEnds(f)
  /\ UNCHANGED <<client, token, disk, pending, refresh, provider, ghosts, bounds>>

------------------------------------------------------------------------------
(* Refreshing. *)

StartRefresh(r) ==
  /\ refresh[r].pc = "idle"
  /\ token.flow # 0 /\ ~token.fresh
  /\ token.rt # 0 /\ client.id # 0
  /\ refresh' = [refresh EXCEPT ![r].pc = "meta"]
  /\ UNCHANGED <<client, token, disk, flow, pending, provider, ghosts, bounds>>

\* After the metadata the request is made from what is held then.
SendRefresh(r) ==
  /\ refresh[r].pc = "meta"
  /\ refresh' = [refresh EXCEPT ![r] = [NoRefresh EXCEPT !.pc = "post",
                                        !.cid = client.id, !.rt = token.rt]]
  /\ UNCHANGED <<client, token, disk, flow, pending, provider, ghosts, bounds>>

\* The provider rotates the refresh token or answers without one.
Renew(r) ==
  /\ refresh[r].pc = "post"
  /\ LET rt == refresh[r].rt IN
     IF rt \in live /\ issued[rt].cid = refresh[r].cid
     THEN IF Rotates
          THEN /\ issued' = Append(issued, issued[rt])
               /\ live' = (live \ {rt}) \cup {Len(issued')}
               /\ refresh' = [refresh EXCEPT ![r].pc = "answer", ![r].of = issued[rt].flow,
                                           ![r].new = Len(issued')]
          ELSE /\ refresh' = [refresh EXCEPT ![r].pc = "answer", ![r].of = issued[rt].flow,
                                           ![r].new = 0]
               /\ UNCHANGED <<issued, live>>
     ELSE refresh' = [refresh EXCEPT ![r] = NoRefresh] /\ UNCHANGED <<issued, live>>
  /\ UNCHANGED <<client, token, disk, flow, pending, regs, spent, ghosts, bounds>>

\* The answer replaces the whole token, its refresh token included.
Renewed(r) ==
  /\ refresh[r].pc = "answer"
  /\ save_token([flow |-> refresh[r].of, rt |-> refresh[r].new, fresh |-> TRUE])
  /\ refresh' = [refresh EXCEPT ![r] = NoRefresh]
  /\ late' = (late \/ refresh[r].overtaken)
  /\ UNCHANGED <<client, flow, pending, provider, uses, cut, lost, bounds>>

RefreshFails(r) ==
  /\ Lossy
  /\ refresh[r].pc \in {"meta", "post", "answer"}
  /\ refresh' = [refresh EXCEPT ![r] = NoRefresh]
  /\ lost' = (lost \/ refresh[r].pc = "answer")
  /\ UNCHANGED <<client, token, disk, flow, pending, provider, uses, cut, late, bounds>>

Expire ==
  /\ expiries < MaxExpiries /\ expiries' = expiries + 1
  /\ token.flow # 0 /\ token.fresh
  /\ save_token([token EXCEPT !.fresh = FALSE])
  /\ UNCHANGED <<client, flow, pending, refresh, provider, ghosts, cuts, downs>>

------------------------------------------------------------------------------
(* Disconnecting and restarting. *)

\* handle_disconnect has no await: no other handler sees half of it.
SignOut ==
  /\ cuts < MaxCuts /\ cuts' = cuts + 1
  /\ ClearsBoth
  /\ cut' = {f \in Flows : flow[f].coded}
  /\ flow' = [f \in Flows |-> [flow[f] EXCEPT !.overtaken = @ \/ flow[f].pc \in {"post", "answer"}]]
  /\ refresh' = [r \in Refreshers |-> [refresh[r] EXCEPT !.overtaken = @ \/ refresh[r].pc \in {"post", "answer"}]]
  /\ UNCHANGED <<pending, provider, uses, late, lost, downs, expiries>>

\* The process ends and starts from the files; it may end inside a disconnect.
GatewayRestarts(cutShort) ==
  /\ downs < MaxDowns /\ downs' = downs + 1
  /\ disk' = IF cutShort THEN [disk EXCEPT !.token = NoToken] ELSE disk
  /\ client' = disk'.client /\ token' = disk'.token
  /\ pending' = {}
  /\ flow' = [f \in Flows |-> IF flow[f].pc \in {"none", "browser", "code", "done"}
                              THEN flow[f] ELSE [flow[f] EXCEPT !.pc = "failed"]]
  /\ refresh' = [r \in Refreshers |-> NoRefresh]
  /\ lost' = (lost \/ \E r \in Refreshers : refresh[r].pc \in {"post", "answer"})
  /\ UNCHANGED <<provider, uses, cut, late, cuts, expiries>>

------------------------------------------------------------------------------
DcrInit ==
  /\ client = NoClient /\ token = NoToken
  /\ disk = [client |-> NoClient, token |-> NoToken]
  /\ flow = [f \in Flows |-> NoFlow] /\ pending = {}
  /\ refresh = [r \in Refreshers |-> NoRefresh]
  /\ regs = <<>> /\ live = {} /\ issued = <<>> /\ spent = {}
  /\ uses = [f \in Flows |-> 0] /\ cut = {} /\ late = FALSE /\ lost = FALSE
  /\ cuts = 0 /\ downs = 0 /\ expiries = 0

\* The handlers of one flow, and of one refresh.
Handles(f) == \/ StartMeta(f) \/ Register(f) \/ SendCode(f) \/ Redeem(f)
              \/ TokenSaved(f) \/ FlowFails(f)
RefreshRuns(r) == SendRefresh(r) \/ Renew(r) \/ Renewed(r) \/ RefreshFails(r)

DcrNext ==
  \/ \E f \in Flows : \/ \E o \in Origins : Start(f, o)
                      \/ Handles(f) \/ Consent(f) \/ Deny(f)
                      \/ Callback(f) \/ CallbackRefused(f)
  \/ \E r \in Refreshers : StartRefresh(r) \/ RefreshRuns(r)
  \/ Expire \/ SignOut \/ \E b \in BOOLEAN : GatewayRestarts(b)

\* The HTTP client times out, so every request of a handler ends.
DcrFairness == /\ \A f \in Flows : WF_dcrVars(Handles(f))
               /\ \A r \in Refreshers : WF_dcrVars(RefreshRuns(r))

DcrSpec == DcrInit /\ [][DcrNext]_dcrVars

FairDcrSpec == DcrSpec /\ DcrFairness
------------------------------------------------------------------------------
(* Properties. *)

Client == [id : Nat, redirect : Origins \cup {""}]
Token == [flow : Flows \cup {0}, rt : Nat, fresh : BOOLEAN]
FlowPc == {"none", "meta", "register", "browser", "code", "callback", "post", "answer",
           "done", "failed"}
SignIn == [pc : FlowPc, origin : Origins \cup {""}, cid : Nat, redirect : Origins \cup {""},
           sentAs : Client, rt : Nat, overtaken : BOOLEAN, coded : BOOLEAN]
Renewal == [pc : {"idle", "meta", "post", "answer"}, cid : Nat, rt : Nat,
            of : Flows \cup {0}, new : Nat, overtaken : BOOLEAN]

\* What points at the provider's registrations and refresh tokens points at one it
\* issued.
PointsAtIssued ==
  /\ client.id <= Len(regs) /\ token.rt <= Len(issued)
  /\ \A f \in Flows : flow[f].cid <= Len(regs) /\ flow[f].rt <= Len(issued)
  /\ \A r \in Refreshers : refresh[r].rt <= Len(issued) /\ refresh[r].new <= Len(issued)
  /\ live \subseteq 1..Len(issued)

\* Every variable keeps its type, and a flow has the address it was started from.
DcrTypeOK ==
  /\ client \in Client
  /\ token \in Token /\ (token.flow = 0 => token = NoToken)
  /\ flow \in [Flows -> SignIn] /\ pending \subseteq Flows
  /\ \A f \in Flows : flow[f].pc # "none" => flow[f].origin \in Origins
  /\ refresh \in [Refreshers -> Renewal]
  /\ regs \in Seq(Origins) /\ issued \in Seq([flow : Flows, cid : Nat])
  /\ spent \subseteq Flows /\ uses \in [Flows -> Nat] /\ cut \subseteq Flows
  /\ late \in BOOLEAN /\ lost \in BOOLEAN
  /\ cuts \in 0..MaxCuts /\ downs \in 0..MaxDowns /\ expiries \in 0..MaxExpiries
  /\ PointsAtIssued

\* The files say what the process holds, so a restart changes nothing but the
\* flows under way.
DiskIsMemory == disk = [client |-> client, token |-> token]

\* A code is sent to the provider once, however often the callback is loaded:
\* providers revoke the credential of a code that comes twice.
CodesAreSentOnce == \A f \in Flows : uses[f] <= 1

\* The credential held is one the user consented to and has not disconnected
\* since; only a request the disconnect found on its way can bring it back.
TokenTracesToConsent ==
  token.flow # 0 => flow[token.flow].coded /\ (token.flow \notin cut \/ late)

\* The refresh token held is one the provider still accepts, however the
\* refreshes of several callers overlap and whatever a disconnect overtook,
\* while its successor is on the way or unless that answer was lost.
HeldGrantLives ==
  token.rt # 0 => \/ token.rt \in live \/ lost
                  \/ \E r \in Refreshers : refresh[r].pc = "answer" /\ refresh[r].rt = token.rt

\* A user is sent to the provider only as a client that is registered for the
\* address the browser came from, whatever clients other sign-ins register.
NobodyIsSentAstray ==
  \A f \in Flows : flow[f].cid # 0 => regs[flow[f].cid] = flow[f].origin

\* However sign-ins, refreshes, a disconnect and a restart overlap: the files are
\* what the process holds, a code is sent once, a user is sent to the provider as a
\* client of their address, and the credential held is one they consented to, did
\* not end and can refresh.
SignInsAreSound ==
  /\ DcrTypeOK
  /\ DiskIsMemory
  /\ CodesAreSentOnce
  /\ TokenTracesToConsent
  /\ HeldGrantLives
  /\ NobodyIsSentAstray

\* Every request of a sign-in or a refresh ends.
HandlersEnd ==
  /\ \A f \in Flows : flow[f].pc \in {"meta", "register", "callback", "post", "answer"}
                        ~> flow[f].pc \in {"browser", "done", "failed"}
  /\ \A r \in Refreshers : refresh[r].pc # "idle" ~> refresh[r].pc = "idle"

\* What the design says of a disconnect: the token is deleted.
DisconnectSticks == token.flow # 0 => token.flow \notin cut

\* What it says of a refresh: the refresh token is optionally rotated, so a
\* credential that can be refreshed stays one.
RefreshKeepsTheGrant ==
  [][token.rt # 0 /\ token'.flow = token.flow => token'.rt # 0]_dcrVars
==============================================================================
