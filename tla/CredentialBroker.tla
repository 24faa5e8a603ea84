-------------------------- MODULE CredentialBroker --------------------------
(***************************************************************************)
(* The integration credentials a Hermes app's broker holds: the token      *)
(* cache and connection state under one lock (tls_credential_state), the   *)
(* proxied requests that use them (tls_intercept), and the choreography    *)
(* that follows a credential change, down to the env file of the gateway   *)
(* and the WebUI and their restarts (credentials_service).                 *)
(*                                                                         *)
(* A credential at HUMR is a generation: an odd number while one is        *)
(* stored, the next even one once it is deleted.  Every await of the       *)
(* broker's code ends a step, and so does every call on the env file: it   *)
(* is written in a thread, beside those of other operations.               *)
(***************************************************************************)
EXTENDS Naturals, FiniteSets

CONSTANTS
  Slugs,           \* provider slugs
  Configured,      \* slugs whose env lines carry config that comes with the credential
  Bound,           \* slugs that bind env lines at all
  Restarts,        \* process -> slugs that restart it after a change
  ModelProviders,  \* slugs that affect the model picker
  Tasks,           \* user operations in the control API
  Operations,      \* kinds of user operation
  Requests,        \* connections of the intercepting proxy
  Nobody,
  MaxGeneration,   \* bound on the generations of one credential
  MaxOperations    \* bound on the user operations started

Processes == {"gateway", "webui"}
Callers == Tasks \cup Requests

ASSUME CredentialAssumption ==
  /\ MaxGeneration \in Nat \ {0} /\ MaxOperations \in Nat
  /\ Configured \subseteq Bound /\ Bound \subseteq Slugs /\ ModelProviders \subseteq Slugs
  /\ Restarts \in [Processes -> SUBSET Slugs]
  /\ Operations \subseteq {"resync", "connect", "disconnect", "refresh_all"}
  /\ Tasks \cap Requests = {} /\ Nobody \notin Callers

VARIABLES
  grant,    \* HUMR: the generation of each credential
  cache,    \* _cache
  card,     \* _connection_states: the generation last known, odd is connected
  holder,   \* who holds _lock across a refresh
  caller,   \* the operation or request in each slot
  file,     \* the managed lines of the env file, by slug
  running,  \* the lines each process was started with
  tmp,      \* the content of .env.tmp, if there is one
  handle,   \* what an operation's open .env.tmp has become: "tmp", "file", "gone", "none"
  started,  \* user operations started
  floor,    \* history: the oldest generation not dropped, by slug
  missed,   \* history: processes an operation should have restarted and failed to
  spared    \* history: processes left as they were by the operation that changed the file

fileVars == <<file, tmp, handle>>
restartVars == <<running, missed, spared>>
storeVars == <<cache, card, holder, floor>>
credentialVars == <<grant, storeVars, caller, fileVars, restartVars, started>>

Generation == 0..MaxGeneration
Stored(g) == g % 2 = 1
Later(g, h) == IF g > h THEN g ELSE h

Transient == MaxGeneration + 1
NoEntry == [gen |-> 0, life |-> "none"]
NoLines == [s \in Slugs |-> 0]
Lines == [Slugs -> Generation]
NoReply == [s \in {} |-> Transient]

Shifted == [tmp |-> "file", file |-> "gone", gone |-> "gone", none |-> "none"]

NoCall == [scope |-> {}, pc |-> "idle", reply |-> NoReply, lines |-> NoLines,
           dead |-> 0, usable |-> FALSE]

Stage == {"idle", "connect", "stored", "disconnect", "deleted", "drop", "ask", "asked",
          "answered", "snapshot", "read", "open", "write", "publish",
          "gateway", "webui", "served", "evict", "refused"}

CredentialInit ==
  /\ grant \in [Slugs -> {0, 1}]
  /\ cache = [s \in Slugs |-> IF Stored(grant[s]) THEN [gen |-> grant[s], life |-> "fresh"]
                                                   ELSE NoEntry]
  /\ card = grant
  /\ holder = Nobody
  /\ caller = [c \in Callers |-> NoCall]
  /\ file = [s \in Slugs |-> IF s \in Bound THEN grant[s] ELSE 0]
  /\ running = [p \in Processes |-> file]
  /\ tmp = {}
  /\ handle = [t \in Tasks |-> "none"]
  /\ started = 0
  /\ floor = [s \in Slugs |-> 0]
  /\ missed = {}
  /\ spared = {}

-----------------------------------------------------------------------------
(* HUMR and time *)

\* The user saves a key or finishes an OAuth connect at HUMR.
StoreCredential(s) ==
  LET next == IF Stored(grant[s]) THEN grant[s] + 2 ELSE grant[s] + 1
  IN next <= MaxGeneration /\ grant' = [grant EXCEPT ![s] = next]

\* The grant is revoked upstream, or deleted from elsewhere.
DeleteCredential(s) ==
  /\ Stored(grant[s]) /\ grant[s] < MaxGeneration
  /\ grant' = [grant EXCEPT ![s] = @ + 1]

HumrChanges ==
  /\ \E s \in Slugs : StoreCredential(s) \/ DeleteCredential(s)
  /\ UNCHANGED <<storeVars, caller, fileVars, restartVars, started>>

\* A cached secret enters the refresh-ahead window, then expires.
TokenAges(s) ==
  /\ \/ cache[s].life = "fresh" /\ cache' = [cache EXCEPT ![s].life = "near"]
     \/ cache[s].life = "near" /\ cache' = [cache EXCEPT ![s].life = "expired"]
  /\ UNCHANGED <<grant, card, holder, floor, caller, fileVars, restartVars, started>>

-----------------------------------------------------------------------------
(* The store: every operation runs under _lock.                            *)

\* Bug: no critical section ever waits for another.
LockIgnored == TRUE

LockFree == holder = Nobody

Usable(s) == cache[s].life \in {"fresh", "near"}

Pruned == [s \in Slugs |-> IF Usable(s) THEN cache[s] ELSE NoEntry]

Become(c, pc) == caller' = [caller EXCEPT ![c].pc = pc]

\* The operation or request is over, with whatever answer.
Ends(c) == caller' = [caller EXCEPT ![c] = NoCall]

Dropped(S) == [s \in Slugs |-> IF s \in S THEN NoEntry ELSE cache[s]]

\* The generations known to HUMR when S was dropped.
Raised(S) == [s \in Slugs |-> IF s \in S THEN Later(floor[s], grant[s]) ELSE floor[s]]

\* The lock is taken and the POST is on its way (_refresh_locked).
TakeAndAsk(c) == holder' = c

Release(c) == holder' = Nobody

\* HUMR answers: each slug's state of that moment, or a failure of that slug; an
\* unreachable HUMR is a failure of all.
HumrAnswers(c) ==
  /\ caller[c].pc = "asked"
  /\ \E failed \in SUBSET caller[c].scope :
       caller' = [caller EXCEPT ![c].pc = "answered",
                    ![c].reply = [s \in caller[c].scope |->
                                    IF s \in failed THEN Transient ELSE grant[s]]]
  /\ UNCHANGED <<grant, storeVars, fileVars, restartVars, started>>

Reached(c) == \E s \in caller[c].scope : caller[c].reply[s] # Transient

\* _apply_locked for every slug of the answer: has_token and absent write both the
\* entry and the card, transient neither.
Applied(reply) ==
  LET told == {s \in DOMAIN reply : reply[s] # Transient}
  IN /\ cache' = [s \in Slugs |->
           IF s \notin told THEN cache[s]
           ELSE IF Stored(reply[s]) THEN [gen |-> reply[s], life |-> "fresh"]
           ELSE NoEntry]
     /\ card' = [s \in Slugs |-> IF s \in told THEN reply[s] ELSE card[s]]

-----------------------------------------------------------------------------
(* A proxied request that needs a secret.                                  *)

\* credential_for_slug: expired entries are pruned; a fresh one is served, otherwise
\* this request refreshes its slug while it holds the lock.
CredentialForSlug(q, s) ==
  /\ caller[q].pc = "idle"
  /\ LockFree
  /\ cache' = Pruned
  /\ IF cache[s].life = "fresh"
     THEN /\ caller' = [caller EXCEPT ![q] = [NoCall EXCEPT !.scope = {s}, !.pc = "served"]]
          /\ UNCHANGED holder
     ELSE /\ caller' = [caller EXCEPT ![q] = [NoCall EXCEPT !.scope = {s}, !.pc = "asked",
                                                            !.usable = Usable(s)]]
          /\ TakeAndAsk(q)
  /\ UNCHANGED <<grant, card, floor, fileVars, restartVars, started>>

\* Whatever the cache holds after the refresh is handed out.
RequestApplies(q) ==
  /\ caller[q].pc = "answered"
  /\ Applied(caller[q].reply)
  /\ \E s \in caller[q].scope :
       Become(q, IF cache'[s] = NoEntry THEN "refused" ELSE "served")
  /\ Release(q)
  /\ UNCHANGED <<grant, floor, fileVars, restartVars, started>>

\* The request goes out; a 401 of the provider evicts the entry it was served from.
RequestEnds(q) ==
  /\ caller[q].pc \in {"served", "refused"}
  /\ Ends(q) \/ (caller[q].pc = "served" /\ Become(q, "evict"))
  /\ UNCHANGED <<grant, storeVars, fileVars, restartVars, started>>

EvictAfter401(q) ==
  /\ caller[q].pc = "evict"
  /\ LockFree
  /\ cache' = Dropped(caller[q].scope)
  /\ floor' = Raised(caller[q].scope)
  /\ Ends(q)
  /\ UNCHANGED <<grant, card, holder, fileVars, restartVars, started>>

-----------------------------------------------------------------------------
(* User operations: resync (vault save, OAuth return), connect (a device   *)
(* flow's tokens), disconnect, and Refresh-all.                            *)

StartOperation(t) ==
  /\ caller[t].pc = "idle" /\ started < MaxOperations
  /\ started' = started + 1
  /\ \E op \in Operations, s \in Slugs :
       caller' = [caller EXCEPT ![t] =
         [NoCall EXCEPT !.scope = IF op = "refresh_all" THEN Slugs ELSE {s},
                        !.pc = IF op \in {"connect", "disconnect"} THEN op ELSE "drop"]]
  /\ UNCHANGED <<grant, storeVars, fileVars, restartVars>>

\* HUMR stores the device flow's tokens, or deletes the row.
HumrStores(t) ==
  /\ caller[t].pc = "connect"
  /\ \E s \in caller[t].scope : StoreCredential(s)
  /\ Become(t, "stored")
  /\ UNCHANGED <<storeVars, fileVars, restartVars, started>>

HumrDeletes(t) ==
  /\ caller[t].pc = "disconnect"
  /\ \E s \in caller[t].scope :
       /\ DeleteCredential(s) \/ (~Stored(grant[s]) /\ UNCHANGED grant)
       /\ caller' = [caller EXCEPT ![t].pc = "deleted", ![t].dead = grant'[s]]
  /\ UNCHANGED <<storeVars, fileVars, restartVars, started>>

\* The request or its answer is lost: nothing follows here.
PostFails(t) ==
  /\ caller[t].pc \in {"connect", "stored", "disconnect", "deleted"}
  /\ Ends(t)
  /\ UNCHANGED <<grant, storeVars, fileVars, restartVars, started>>

\* mark_disconnected, on the confirmation that HUMR deleted the row.
Marked(t) ==
  /\ caller[t].pc = "deleted"
  /\ LockFree
  /\ card' = [s \in Slugs |-> IF s \in caller[t].scope THEN caller[t].dead ELSE card[s]]
  /\ floor' = [s \in Slugs |-> IF s \in caller[t].scope THEN Later(floor[s], caller[t].dead)
                                                        ELSE floor[s]]
  /\ caller' = [caller EXCEPT ![t].pc = "drop", ![t].dead = 0]

MarkDisconnected(t) ==
  /\ Marked(t)
  /\ cache' = Dropped(caller[t].scope)
  /\ UNCHANGED <<grant, holder, fileVars, restartVars, started>>

\* drop_cached_token, drop_all_cached_tokens.
DropCachedTokens(t) ==
  /\ caller[t].pc \in {"drop", "stored"}
  /\ LockFree
  /\ cache' = Dropped(caller[t].scope)
  /\ floor' = Raised(caller[t].scope)
  /\ Become(t, "ask")
  /\ UNCHANGED <<grant, card, holder, fileVars, restartVars, started>>

Refresh(t) ==
  /\ caller[t].pc = "ask"
  /\ LockFree
  /\ TakeAndAsk(t)
  /\ Become(t, "asked")
  /\ UNCHANGED <<grant, cache, card, floor, fileVars, restartVars, started>>

\* An answer that is transient throughout leaves the file and the processes alone.
OperationApplies(t) ==
  /\ caller[t].pc = "answered"
  /\ Applied(caller[t].reply)
  /\ Release(t)
  /\ IF Reached(t)
     THEN caller' = [caller EXCEPT ![t].pc = "snapshot", ![t].reply = NoReply]
     ELSE Ends(t)
  /\ UNCHANGED <<grant, floor, fileVars, restartVars, started>>

\* The lines of every connected provider, in scope or not.
Rendered ==
  [s \in Slugs |-> IF s \in Bound /\ Stored(card[s])
                   THEN IF s \in Configured THEN card[s] ELSE 1
                   ELSE 0]

\* gateway_env_snapshot: read under the lock, written later.
TakeSnapshot(t) ==
  /\ caller[t].pc = "snapshot"
  /\ LockFree
  /\ caller' = [caller EXCEPT ![t].pc = "read", ![t].lines = Rendered]
  /\ UNCHANGED <<grant, storeVars, fileVars, restartVars, started>>

InScope(t, p) == caller[t].scope \cap Restarts[p] # {}

\* The operation ends although it should have restarted the processes in S.
GivesUp(t, S) ==
  /\ missed' = missed \cup {p \in S : InScope(t, p)}
  /\ Ends(t)

\* Who is not restarted by the operation that gave the file new lines.
Spares(t) ==
  spared' = IF file' = file THEN spared ELSE spared \cup {p \in Processes : ~InScope(t, p)}

\* _write_gateway_env_file reads the file: one that has the lines already is left, and
\* nothing is restarted.
ReadEnvFile(t) ==
  /\ caller[t].pc = "read"
  /\ IF caller[t].lines = file THEN Ends(t) ELSE Become(t, "open")
  /\ UNCHANGED <<grant, storeVars, fileVars, restartVars, started>>

\* write_text of the one .env.tmp: it is created, or emptied, ...
OpenTmp(t) ==
  /\ caller[t].pc = "open"
  /\ tmp' = {NoLines}
  /\ handle' = [handle EXCEPT ![t] = "tmp"]
  /\ Become(t, "write")
  /\ UNCHANGED <<grant, storeVars, file, restartVars, started>>

\* The lines over what another operation wrote: what they do not cover stays.
Over(old, new, kept) == [s \in Slugs |-> IF s \in kept /\ old[s] # 0 THEN old[s] ELSE new[s]]

\* ... and gets the lines, wherever another operation's os.replace has moved it meanwhile.
WriteTmp(t) ==
  /\ caller[t].pc = "write"
  /\ \E kept \in SUBSET Slugs :
       \/ /\ handle[t] = "tmp"
          /\ \E old \in tmp : tmp' = {Over(old, caller[t].lines, kept)}
          /\ UNCHANGED <<file, spared>>
       \/ /\ handle[t] = "file"
          /\ file' = Over(file, caller[t].lines, kept)
          /\ Spares(t)
          /\ UNCHANGED tmp
       \/ /\ handle[t] = "gone"
          /\ UNCHANGED <<file, spared, tmp>>
  /\ handle' = [handle EXCEPT ![t] = "none"]
  /\ caller' = [caller EXCEPT ![t].pc = "publish", ![t].lines = NoLines]
  /\ UNCHANGED <<grant, storeVars, running, missed, started>>

\* os.replace publishes the .env.tmp of the moment, whoever wrote it or is about to.
PublishTmp(t) ==
  /\ caller[t].pc = "publish"
  /\ file' \in tmp /\ tmp' = {}
  /\ handle' = [u \in Tasks |-> Shifted[handle[u]]]
  /\ Spares(t)
  /\ Become(t, "gateway")
  /\ UNCHANGED <<grant, storeVars, running, missed, started>>

\* Another operation published it already: FileNotFoundError, nothing is restarted.
TmpIsGone(t) ==
  /\ caller[t].pc = "publish"
  /\ tmp = {}
  /\ GivesUp(t, Processes)
  /\ UNCHANGED <<grant, storeVars, fileVars, running, spared, started>>

\* The models cache of a model provider cannot be deleted: the operation ends there.
ModelsCacheStuck(t) ==
  /\ caller[t].pc = "gateway"
  /\ caller[t].scope \cap ModelProviders # {}
  /\ GivesUp(t, Processes)
  /\ UNCHANGED <<grant, storeVars, fileVars, running, spared, started>>

\* Bug: the first restart that succeeds ends the loop.
FirstRestartEnds(t, p) == Ends(t)

RestartEnds(t, p) == IF p = "gateway" THEN Become(t, "webui") ELSE Ends(t)

\* One process after the other; a process reads the file as it starts.
RestartProcess(t, p) ==
  /\ caller[t].pc = p
  /\ IF InScope(t, p)
     THEN /\ running' = [running EXCEPT ![p] = file]
          /\ missed' = missed \ {p} /\ spared' = spared \ {p}
     ELSE UNCHANGED restartVars
  /\ RestartEnds(t, p)
  /\ UNCHANGED <<grant, storeVars, fileVars, started>>

\* A restart that fails ends the operation, with an error unless it was a connect's; the
\* second is not tried.
RestartFails(t, p) ==
  /\ caller[t].pc = p
  /\ InScope(t, p)
  /\ GivesUp(t, IF p = "gateway" THEN Processes ELSE {p})
  /\ UNCHANGED <<grant, storeVars, fileVars, running, spared, started>>

-----------------------------------------------------------------------------
\* The container restarts: bootstrap refreshes every slug, or exits and is restarted
\* again while HUMR does not answer at all, and renders the file before the gateway
\* and the WebUI start.  A .env.tmp left behind is emptied by its next writer.
Bootstrap ==
  /\ \E told \in SUBSET Slugs \ {{}} :
       /\ card' = [s \in Slugs |-> IF s \in told THEN grant[s] ELSE 0]
       /\ cache' = [s \in Slugs |-> IF s \in told /\ Stored(grant[s])
                                    THEN [gen |-> grant[s], life |-> "fresh"] ELSE NoEntry]
  /\ holder' = Nobody
  /\ caller' = [c \in Callers |-> NoCall]
  /\ file' = Rendered' /\ tmp' = {} /\ handle' = [t \in Tasks |-> "none"]
  /\ running' = [p \in Processes |-> file']
  /\ missed' = {} /\ spared' = {}
  /\ UNCHANGED <<grant, started, floor>>

RequestStep(q) ==
  \/ RequestApplies(q) \/ RequestEnds(q) \/ EvictAfter401(q)

OperationStep(t) ==
  \/ HumrStores(t) \/ HumrDeletes(t) \/ PostFails(t)
  \/ MarkDisconnected(t) \/ DropCachedTokens(t) \/ Refresh(t) \/ OperationApplies(t)
  \/ TakeSnapshot(t) \/ ReadEnvFile(t) \/ OpenTmp(t) \/ WriteTmp(t)
  \/ PublishTmp(t) \/ TmpIsGone(t) \/ ModelsCacheStuck(t)
  \/ \E p \in Processes : RestartProcess(t, p) \/ RestartFails(t, p)

Progress(c) ==
  \/ HumrAnswers(c)
  \/ c \in Requests /\ RequestStep(c)
  \/ c \in Tasks /\ OperationStep(c)

CredentialNext ==
  \/ HumrChanges \/ Bootstrap
  \/ \E s \in Slugs : TokenAges(s)
  \/ \E q \in Requests, s \in Slugs : CredentialForSlug(q, s)
  \/ \E t \in Tasks : StartOperation(t)
  \/ \E c \in Callers : Progress(c)

CredentialSpec == CredentialInit /\ [][CredentialNext]_credentialVars

-----------------------------------------------------------------------------
\* Every variable has its type; a refresh answers for the slugs it asked about and
\* the lock is held exactly by a caller between its POST and its apply.
CredentialTypeOK ==
  /\ grant \in [Slugs -> Generation] /\ card \in [Slugs -> Generation]
  /\ cache \in [Slugs -> [gen: Generation, life: {"none", "fresh", "near", "expired"}]]
  /\ holder \in Callers \cup {Nobody}
  /\ \A c \in Callers :
       /\ caller[c].scope \in SUBSET Slugs
       /\ caller[c].pc \in Stage
       /\ caller[c].pc = "answered" => DOMAIN caller[c].reply = caller[c].scope
       /\ (holder = c) <=> caller[c].pc \in {"asked", "answered"}
  /\ file \in Lines /\ running \in [Processes -> Lines]
  /\ tmp \subseteq Lines /\ handle \in [Tasks -> DOMAIN Shifted]
  /\ missed \subseteq Processes /\ spared \subseteq Processes
  /\ started \in 0..MaxOperations
  /\ floor \in [Slugs -> Generation]

\* Once a secret was dropped (a confirmed disconnect, a credential change, a 401),
\* the cache never again holds one older than HUMR had at the drop, whatever refresh
\* was parked meanwhile: "a parked fetch wrote past a concurrent token drop" is
\* impossible (CredentialStateStore).
NoDroppedSecretReturns ==
  \A s \in Slugs : cache[s] # NoEntry => cache[s].gen >= floor[s]

\* A secret that may be injected and the card that says whose it is always come from
\* the same answer of HUMR, and a disconnected card has no secret behind it
\* (credential_for_slug: the flag never describes a different credential).
SecretMatchesCard ==
  \A s \in Slugs : cache[s] # NoEntry => cache[s].gen = card[s] /\ Stored(card[s])

\* No refresh, however late, brings back a connection older than what the card
\* already said (mark_disconnected, _apply_locked).
NoOldConnectionReturns ==
  [][\A s \in Slugs : Stored(card'[s]) => card'[s] >= card[s]]_credentialVars

\* A request that found a usable secret is refused only on HUMR's own word: a failed
\* refresh ahead of expiry does not look like a disconnect (_ensure_fresh_locked).
OutageRefusesNobody ==
  \A q \in Requests :
    caller[q].pc = "refused" /\ caller[q].usable =>
      \E s \in caller[q].scope : caller[q].reply[s] # Transient

\* What the runs check of the cache and the cards: the four above at once, for every
\* interleaving of operations, requests and refreshes (credential_broker.py).
CredentialsAreSound ==
  /\ CredentialTypeOK
  /\ NoDroppedSecretReturns
  /\ SecretMatchesCard
  /\ OutageRefusesNobody

\* When no operation is under way, each process runs with the whole file, although
\* operations share one .env.tmp, empty it under each other, publish each other's half
\* of it and may write an older snapshot last.  The exceptions are processes that an
\* operation failed to restart, and those that the providers of the operation that
\* changed the file do not restart (_apply_refreshed_state, _write_gateway_env_file).
ProcessesRunTheFile ==
  (\A t \in Tasks : caller[t].pc = "idle") =>
    \A p \in Processes \ (missed \cup spared) : running[p] = file

\* The same of every provider that restarts the process, although another provider's
\* operation may have written its lines: the file and the gateway's actual state stay
\* consistent, and a disconnect's gateway "boots without" the binding
\* (gateway_env_and_restart_design.md).
EveryRenderedLineIsApplied ==
  (\A t \in Tasks : caller[t].pc = "idle") =>
    \A p \in Processes \ missed : \A s \in Restarts[p] : running[p][s] = file[s]

\* The managed block is replaced "atomically" (_write_gateway_env_file): nobody writes
\* into the file a process may be reading.
BlockIsReplacedAtomically ==
  [][(\E t \in Tasks : WriteTmp(t)) => UNCHANGED file]_credentialVars
=============================================================================
