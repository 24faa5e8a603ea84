---------------------------- MODULE Broker_proofs ----------------------------
(***************************************************************************)
(* Theorems about the broker and the gateway: CredentialBroker, for any    *)
(* providers, operations, requests, restart declarations and bounds;       *)
(* DcrOAuth, for any sign-ins, addresses, refreshing calls and bounds;     *)
(* MessageRelay, for any requests, streams and clients; and ToolCatalog,   *)
(* for any backends, connectors, tools, scopes, loads and bounds.          *)
(***************************************************************************)
EXTENDS CredentialBroker, DcrOAuth, MessageRelay, ToolCatalog,
        FiniteSetTheorems, WellFoundedInduction, TLAPS

USE DEF storeVars, fileVars, restartVars

Replies == UNION {[S -> Generation \cup {Transient}] : S \in SUBSET Slugs}

CallRecord == [scope: SUBSET Slugs, pc: Stage, reply: Replies, lines: Lines,
               dead: Generation, usable: BOOLEAN]

CacheEntry == [gen: Generation, life: {"none", "fresh", "near", "expired"}]

DataTyped ==
  /\ grant \in [Slugs -> Generation] /\ card \in [Slugs -> Generation]
  /\ cache \in [Slugs -> CacheEntry]
  /\ file \in Lines /\ running \in [Processes -> Lines]
  /\ tmp \subseteq Lines /\ handle \in [Tasks -> DOMAIN Shifted]
  /\ missed \subseteq Processes /\ spared \subseteq Processes
  /\ started \in 0..MaxOperations
  /\ floor \in [Slugs -> Generation]

Locking(c) == caller[c].pc \in {"asked", "answered"}

CallersTyped ==
  /\ caller \in [Callers -> CallRecord]
  /\ holder \in Callers \cup {Nobody}
  /\ \A c \in Callers :
       /\ caller[c].pc = "answered" => DOMAIN caller[c].reply = caller[c].scope
       /\ (holder = c) <=> Locking(c)

\* The type invariant, with the callers' records, in two parts.
Typed == DataTyped /\ CallersTyped

\* It contains the type invariant of the module.
LEMMA TypedSuffices == Typed => CredentialTypeOK
<1>1. ASSUME CallersTyped, NEW c \in Callers
      PROVE  caller[c].scope \in SUBSET Slugs /\ caller[c].pc \in Stage
  BY <1>1 DEF CallersTyped, CallRecord
<1>2. QED  BY <1>1 DEF Typed, DataTyped, CallersTyped, CredentialTypeOK, CacheEntry, Locking

-----------------------------------------------------------------------------
(* Generations and records *)

\* A stored generation is followed by one that is not.
LEMMA DeletedNotStored ==
  ASSUME NEW g \in Nat, Stored(g)
  PROVE  ~Stored(g + 1) /\ g > 0
BY DEF Stored

\* The empty call is a call.
LEMMA NoCallTyped ==
  /\ NoCall \in CallRecord
  /\ NoReply \in Replies
  /\ NoLines \in Lines
<1>1. 0 \in Generation
  BY CredentialAssumption DEF Generation
<1>2. NoReply \in [{} -> Generation \cup {Transient}]
  BY DEF NoReply
<1>3. NoReply \in Replies
  BY <1>2 DEF Replies
<1>4. NoLines \in Lines
  BY <1>1 DEF NoLines, Lines
<1>5. QED  BY <1>1, <1>3, <1>4 DEF NoCall, CallRecord, Stage

\* What is rendered are lines.
LEMMA RenderedTyped ==
  ASSUME card \in [Slugs -> Generation]
  PROVE  Rendered \in Lines
<1>1. ASSUME NEW s \in Slugs, Stored(card[s]) PROVE 1 \in Generation
  BY <1>1, CredentialAssumption DEF Generation
<1>2. 0 \in Generation
  BY CredentialAssumption DEF Generation
<1>3. QED  BY <1>1, <1>2 DEF Rendered, Lines

\* Dropping, pruning and raising keep cache and floor typed.
LEMMA StoreTyped ==
  ASSUME DataTyped, NEW S
  PROVE  /\ Dropped(S) \in [Slugs -> CacheEntry]
         /\ Pruned \in [Slugs -> CacheEntry]
         /\ Raised(S) \in [Slugs -> Generation]
<1>1. NoEntry \in CacheEntry
  BY CredentialAssumption DEF NoEntry, Generation, CacheEntry
<1>2. QED  BY <1>1 DEF DataTyped, Dropped, Pruned, Raised, Later

\* A caller that neither takes the lock nor gives it back moves on.
LEMMA MovesTyped ==
  ASSUME CallersTyped, NEW c \in Callers, NEW rec \in CallRecord,
         rec.pc = "answered" => DOMAIN rec.reply = rec.scope,
         rec.pc \in {"asked", "answered"} <=> Locking(c),
         caller' = [caller EXCEPT ![c] = rec], UNCHANGED holder
  PROVE  CallersTyped'
<1>1. ASSUME NEW d \in Callers
      PROVE  caller'[d] = IF d = c THEN rec ELSE caller[d]
  BY <1>1 DEF CallersTyped
<1>2. caller' \in [Callers -> CallRecord]
  BY DEF CallersTyped
<1>3. QED  BY <1>1, <1>2 DEF CallersTyped, Locking

\* Ending a call that does not hold the lock is such a move.
LEMMA EndsTyped ==
  ASSUME CallersTyped, NEW c \in Callers, ~Locking(c), Ends(c), UNCHANGED holder
  PROVE  CallersTyped'
<1>1. NoCall.pc = "idle"
  BY DEF NoCall
<1>2. QED  BY <1>1, NoCallTyped, MovesTyped DEF Ends

\* So is becoming another stage outside the lock.
LEMMA BecomeTyped ==
  ASSUME CallersTyped, NEW c \in Callers, ~Locking(c),
         NEW pc \in Stage \ {"asked", "answered"}, Become(c, pc), UNCHANGED holder
  PROVE  CallersTyped'
<1>1. caller[c] \in CallRecord
  BY DEF CallersTyped
<1> DEFINE rec == [caller[c] EXCEPT !.pc = pc]
<1>2. rec \in CallRecord /\ rec.pc = pc
  BY <1>1 DEF CallRecord
<1>3. caller' = [caller EXCEPT ![c] = rec]
  BY DEF Become
<1> HIDE DEF rec
<1>4. QED  BY <1>2, <1>3, MovesTyped

\* The lock is taken by whoever finds it free and asks.
LEMMA TakesTyped ==
  ASSUME CallersTyped, NEW c \in Callers, LockFree, NEW rec \in CallRecord,
         rec.pc = "asked", caller' = [caller EXCEPT ![c] = rec], holder' = c
  PROVE  CallersTyped'
<1>1. ASSUME NEW d \in Callers
      PROVE  caller'[d] = IF d = c THEN rec ELSE caller[d]
  BY <1>1 DEF CallersTyped
<1>2. caller' \in [Callers -> CallRecord]
  BY DEF CallersTyped
<1>3. \A d \in Callers : ~Locking(d)
  BY CredentialAssumption DEF CallersTyped, LockFree
<1>4. QED  BY <1>1, <1>2, <1>3 DEF CallersTyped, Locking

\* It is free once its holder is done.
LEMMA ReleasesTyped ==
  ASSUME CallersTyped, NEW c \in Callers, Locking(c), NEW rec \in CallRecord,
         rec.pc \notin {"asked", "answered"}, caller' = [caller EXCEPT ![c] = rec],
         Release(c)
  PROVE  CallersTyped'
<1>1. ASSUME NEW d \in Callers
      PROVE  caller'[d] = IF d = c THEN rec ELSE caller[d]
  BY <1>1 DEF CallersTyped
<1>2. caller' \in [Callers -> CallRecord]
  BY DEF CallersTyped
<1>3. \A d \in Callers : Locking(d) => d = c
  BY DEF CallersTyped
<1>4. QED  BY <1>1, <1>2, <1>3, CredentialAssumption DEF CallersTyped, Locking, Release

-----------------------------------------------------------------------------
(* Each action keeps the types: HUMR and time *)

\* HUMR's changes stay within the bound of the generations.
LEMMA StoreCredentialTyped ==
  ASSUME DataTyped, NEW s \in Slugs, StoreCredential(s) \/ DeleteCredential(s)
  PROVE  grant' \in [Slugs -> Generation] /\ grant' = [grant EXCEPT ![s] = grant'[s]]
         /\ grant'[s] >= grant[s]
<1>1. grant[s] \in Generation
  BY DEF DataTyped
<1>2. CASE StoreCredential(s)
  BY <1>1, <1>2, CredentialAssumption DEF StoreCredential, DataTyped, Generation
<1>3. CASE DeleteCredential(s)
  BY <1>1, <1>3, CredentialAssumption DEF DeleteCredential, DataTyped, Generation
<1>4. QED  BY <1>2, <1>3

\* What leaves the callers and the lock alone leaves their types alone.
LEMMA CallersUnchanged ==
  ASSUME CallersTyped, UNCHANGED <<caller, holder>>
  PROVE  CallersTyped'
BY DEF CallersTyped, Locking

\* HUMR's own changes touch the grants only.
LEMMA HumrChangesTyped == ASSUME Typed, HumrChanges PROVE Typed'
<1>1. PICK s \in Slugs : StoreCredential(s) \/ DeleteCredential(s)
  BY DEF HumrChanges
<1>2. grant' \in [Slugs -> Generation]
  BY <1>1, StoreCredentialTyped DEF Typed
<1>3. DataTyped'
  BY <1>2 DEF Typed, DataTyped, HumrChanges
<1>4. CallersTyped'
  BY CallersUnchanged DEF Typed, HumrChanges
<1>5. QED  BY <1>3, <1>4 DEF Typed

\* Aging changes the life of an entry.
LEMMA TokenAgesTyped == ASSUME Typed, NEW s \in Slugs, TokenAges(s) PROVE Typed'
<1>1. cache' \in [Slugs -> CacheEntry]
  BY DEF Typed, DataTyped, TokenAges, CacheEntry
<1>2. DataTyped'
  BY <1>1 DEF Typed, DataTyped, TokenAges
<1>3. CallersTyped'
  BY CallersUnchanged DEF Typed, TokenAges
<1>4. QED  BY <1>2, <1>3 DEF Typed

\* HUMR's answer to a refresh has a reply for every slug of its scope.
LEMMA HumrAnswersTyped == ASSUME Typed, NEW c \in Callers, HumrAnswers(c) PROVE Typed'
<1>1. PICK failed \in SUBSET caller[c].scope :
        caller' = [caller EXCEPT ![c].pc = "answered",
                     ![c].reply = [s \in caller[c].scope |->
                                     IF s \in failed THEN Transient ELSE grant[s]]]
  BY DEF HumrAnswers
<1> DEFINE reply == [s \in caller[c].scope |-> IF s \in failed THEN Transient ELSE grant[s]]
           rec == [caller[c] EXCEPT !.pc = "answered", !.reply = reply]
<1>2. caller[c] \in CallRecord /\ caller[c].scope \in SUBSET Slugs
  BY DEF Typed, CallersTyped, CallRecord
<1>3. reply \in [caller[c].scope -> Generation \cup {Transient}]
  BY <1>2 DEF Typed, DataTyped
<1>4. reply \in Replies /\ DOMAIN reply = caller[c].scope
  BY <1>2, <1>3 DEF Replies
<1> HIDE DEF reply
<1>5. /\ rec \in CallRecord /\ rec.pc = "answered"
      /\ DOMAIN rec.reply = rec.scope
  BY <1>2, <1>4 DEF CallRecord, Stage
<1>6. caller' = [caller EXCEPT ![c] = rec]
  BY <1>1, <1>2 DEF reply, Typed, CallersTyped, CallRecord
<1>7. Locking(c)
  BY DEF HumrAnswers, Locking
<1> HIDE DEF rec
<1>8. CallersTyped'
  BY <1>5, <1>6, <1>7, MovesTyped DEF Typed, HumrAnswers
<1>9. DataTyped'
  BY DEF Typed, DataTyped, HumrAnswers
<1>10. QED  BY <1>8, <1>9 DEF Typed

\* Applying an answer keeps the store typed.
LEMMA AppliedTyped ==
  ASSUME DataTyped, NEW reply \in Replies, Applied(reply)
  PROVE  cache' \in [Slugs -> CacheEntry] /\ card' \in [Slugs -> Generation]
<1> DEFINE told == {s \in DOMAIN reply : reply[s] # Transient}
<1>1. \A s \in told : s \in Slugs /\ reply[s] \in Generation
  BY DEF Replies
<1>2. NoEntry \in CacheEntry
  BY CredentialAssumption DEF NoEntry, Generation, CacheEntry
<1>3. /\ cache' = [s \in Slugs |-> IF s \notin told THEN cache[s]
                     ELSE IF Stored(reply[s]) THEN [gen |-> reply[s], life |-> "fresh"]
                     ELSE NoEntry]
      /\ card' = [s \in Slugs |-> IF s \in told THEN reply[s] ELSE card[s]]
  BY DEF Applied
<1> HIDE DEF told
<1>4. card' \in [Slugs -> Generation]
  BY <1>1, <1>3 DEF DataTyped
<1>5. \A s \in told : [gen |-> reply[s], life |-> "fresh"] \in CacheEntry
  BY <1>1 DEF CacheEntry
<1>6. cache' \in [Slugs -> CacheEntry]
  BY <1>2, <1>3, <1>5 DEF DataTyped
<1>7. QED  BY <1>4, <1>6

-----------------------------------------------------------------------------
(* Proxied requests *)

\* A request that starts holds the lock exactly if it refreshes.
LEMMA CredentialForSlugTyped ==
  ASSUME Typed, NEW q \in Requests, NEW s \in Slugs, CredentialForSlug(q, s)
  PROVE  Typed'
<1>1. q \in Callers /\ ~Locking(q) /\ LockFree
  BY DEF CredentialForSlug, Locking, Callers
<1>2. DataTyped'
  BY StoreTyped DEF Typed, DataTyped, CredentialForSlug
<1>3. CASE cache[s].life = "fresh"
  <2> DEFINE rec == [NoCall EXCEPT !.scope = {s}, !.pc = "served"]
  <2>1. rec \in CallRecord /\ rec.pc = "served"
    BY NoCallTyped DEF CallRecord, Stage
  <2>2. caller' = [caller EXCEPT ![q] = rec] /\ UNCHANGED holder
    BY <1>3 DEF CredentialForSlug
  <2> HIDE DEF rec
  <2>3. QED  BY <1>1, <1>2, <2>1, <2>2, MovesTyped DEF Typed
<1>4. CASE cache[s].life # "fresh"
  <2> DEFINE rec == [NoCall EXCEPT !.scope = {s}, !.pc = "asked", !.usable = Usable(s)]
  <2>1. \A b \in BOOLEAN :
          /\ [NoCall EXCEPT !.scope = {s}, !.pc = "asked", !.usable = b] \in CallRecord
          /\ [NoCall EXCEPT !.scope = {s}, !.pc = "asked", !.usable = b].pc = "asked"
    BY NoCallTyped DEF CallRecord, Stage
  <2>2. Usable(s) \in BOOLEAN
    BY DEF Usable
  <2>3. rec \in CallRecord /\ rec.pc = "asked"
    BY <2>1, <2>2, Zenon
  <2>4. caller' = [caller EXCEPT ![q] = rec] /\ holder' = q
    BY <1>4 DEF CredentialForSlug, TakeAndAsk
  <2> HIDE DEF rec
  <2>5. QED  BY <1>1, <1>2, <2>3, <2>4, TakesTyped DEF Typed
<1>5. QED  BY <1>3, <1>4

\* The record of a caller, its reply, and the same caller at another stage.
LEMMA AtStage ==
  ASSUME CallersTyped, NEW c \in Callers, NEW pc \in Stage
  PROVE  /\ caller[c] \in CallRecord /\ caller[c].reply \in Replies
         /\ caller[c].scope \in SUBSET Slugs
         /\ [caller[c] EXCEPT !.pc = pc] \in CallRecord
         /\ [caller[c] EXCEPT !.pc = pc].pc = pc
<1>1. caller[c] \in CallRecord
  BY DEF CallersTyped
<1>2. QED  BY <1>1 DEF CallRecord

\* A request that applies its answer gives the lock back.
LEMMA RequestAppliesTyped ==
  ASSUME Typed, NEW q \in Requests, RequestApplies(q)
  PROVE  Typed'
<1>1. q \in Callers /\ Locking(q) /\ caller[q].reply \in Replies
  BY AtStage DEF RequestApplies, Locking, Callers, Typed, Stage
<1>2. DataTyped'
  BY <1>1, AppliedTyped DEF Typed, DataTyped, RequestApplies
<1>3. PICK pc \in {"refused", "served"} : Become(q, pc)
  BY DEF RequestApplies
<1> DEFINE rec == [caller[q] EXCEPT !.pc = pc]
<1>4. rec \in CallRecord /\ rec.pc \notin {"asked", "answered"}
  BY <1>1, <1>3, AtStage DEF Typed, Stage
<1>5. caller' = [caller EXCEPT ![q] = rec] /\ Release(q)
  BY <1>3 DEF Become, RequestApplies
<1> HIDE DEF rec
<1>6. QED  BY <1>1, <1>2, <1>4, <1>5, ReleasesTyped DEF Typed

\* The end of a request touches its slot.
LEMMA RequestEndsTyped ==
  ASSUME Typed, NEW q \in Requests, RequestEnds(q)
  PROVE  Typed'
<1>1. q \in Callers /\ ~Locking(q) /\ UNCHANGED holder
  BY DEF RequestEnds, Locking, Callers
<1>2. DataTyped'
  BY DEF Typed, DataTyped, RequestEnds
<1>3. Ends(q) \/ Become(q, "evict")
  BY DEF RequestEnds
<1>4. "evict" \in Stage \ {"asked", "answered"}
  BY DEF Stage
<1>5. CallersTyped'
  BY <1>1, <1>3, <1>4, EndsTyped, BecomeTyped DEF Typed
<1>6. QED  BY <1>2, <1>5 DEF Typed

\* An eviction drops an entry and ends the request.
LEMMA EvictTyped ==
  ASSUME Typed, NEW q \in Requests, EvictAfter401(q)
  PROVE  Typed'
<1>1. q \in Callers /\ ~Locking(q) /\ UNCHANGED holder /\ Ends(q)
  BY DEF EvictAfter401, Locking, Callers
<1>2. DataTyped'
  BY StoreTyped DEF Typed, DataTyped, EvictAfter401
<1>3. QED  BY <1>1, <1>2, EndsTyped DEF Typed

-----------------------------------------------------------------------------
(* User operations *)

\* An operation starts outside the lock.
LEMMA StartOperationTyped ==
  ASSUME Typed, NEW t \in Tasks, StartOperation(t)
  PROVE  Typed'
<1>1. t \in Callers /\ ~Locking(t) /\ UNCHANGED holder
  BY DEF StartOperation, Locking, Callers
<1>2. DataTyped'
  BY CredentialAssumption DEF Typed, DataTyped, StartOperation
<1>3. PICK op \in Operations, s \in Slugs :
        caller' = [caller EXCEPT ![t] =
          [NoCall EXCEPT !.scope = IF op = "refresh_all" THEN Slugs ELSE {s},
                         !.pc = IF op \in {"connect", "disconnect"} THEN op ELSE "drop"]]
  BY DEF StartOperation
<1> DEFINE rec == [NoCall EXCEPT !.scope = IF op = "refresh_all" THEN Slugs ELSE {s},
                         !.pc = IF op \in {"connect", "disconnect"} THEN op ELSE "drop"]
<1>4. rec \in CallRecord /\ rec.pc \notin {"asked", "answered"}
  BY NoCallTyped DEF CallRecord, Stage
<1>5. caller' = [caller EXCEPT ![t] = rec]
  BY <1>3
<1> HIDE DEF rec
<1>6. QED  BY <1>1, <1>2, <1>4, <1>5, MovesTyped DEF Typed

\* HUMR's writes for an operation are HUMR's changes, and the operation moves on.
LEMMA HumrWritesTyped ==
  ASSUME Typed, NEW t \in Tasks, HumrStores(t) \/ HumrDeletes(t)
  PROVE  Typed'
<1>1. t \in Callers /\ ~Locking(t) /\ UNCHANGED holder
  BY DEF HumrStores, HumrDeletes, Locking, Callers
<1>2. caller[t].scope \subseteq Slugs
  BY <1>1, AtStage DEF Typed, Stage
<1>3. grant' \in [Slugs -> Generation]
  BY <1>2, StoreCredentialTyped DEF HumrStores, HumrDeletes, Typed, DataTyped
<1>4. DataTyped'
  BY <1>3 DEF Typed, DataTyped, HumrStores, HumrDeletes
<1>5. CASE HumrStores(t)
  BY <1>1, <1>4, <1>5, BecomeTyped DEF Typed, HumrStores, Stage
<1>6. CASE HumrDeletes(t)
  <2>1. PICK s \in caller[t].scope :
          caller' = [caller EXCEPT ![t].pc = "deleted", ![t].dead = grant'[s]]
    BY <1>6 DEF HumrDeletes
  <2> DEFINE rec == [caller[t] EXCEPT !.pc = "deleted", !.dead = grant'[s]]
  <2>2. caller[t] \in CallRecord
    BY <1>1 DEF Typed, CallersTyped
  <2>3. rec \in CallRecord /\ rec.pc = "deleted"
    BY <1>2, <1>3, <2>2 DEF CallRecord, Stage
  <2>4. caller' = [caller EXCEPT ![t] = rec]
    BY <2>1, <2>2 DEF Typed, CallersTyped, CallRecord
  <2> HIDE DEF rec
  <2>5. QED  BY <1>1, <1>4, <2>3, <2>4, MovesTyped DEF Typed
<1>7. QED  BY <1>5, <1>6

\* A lost request or answer ends the operation.
LEMMA PostFailsTyped == ASSUME Typed, NEW t \in Tasks, PostFails(t) PROVE Typed'
<1>1. t \in Callers /\ ~Locking(t) /\ UNCHANGED holder /\ Ends(t)
  BY DEF PostFails, Locking, Callers
<1>2. DataTyped'
  BY DEF Typed, DataTyped, PostFails
<1>3. QED  BY <1>1, <1>2, EndsTyped DEF Typed

\* A confirmed disconnect writes the generation HUMR confirmed.
LEMMA MarkDisconnectedTyped ==
  ASSUME Typed, NEW t \in Tasks, MarkDisconnected(t)
  PROVE  Typed'
<1>1. /\ t \in Callers /\ ~Locking(t) /\ UNCHANGED holder
      /\ caller' = [caller EXCEPT ![t].pc = "drop", ![t].dead = 0]
  BY DEF MarkDisconnected, Marked, Locking, Callers
<1>2. caller[t] \in CallRecord
  BY <1>1 DEF Typed, CallersTyped
<1>3. caller[t].dead \in Generation /\ 0 \in Generation
  BY <1>2, CredentialAssumption DEF CallRecord, Generation
<1>4. card' \in [Slugs -> Generation] /\ floor' \in [Slugs -> Generation]
  BY <1>3 DEF MarkDisconnected, Marked, Later, Typed, DataTyped
<1>5. DataTyped'
  BY <1>4, StoreTyped DEF MarkDisconnected, Marked, Typed, DataTyped
<1> DEFINE rec == [caller[t] EXCEPT !.pc = "drop", !.dead = 0]
<1>6. rec \in CallRecord /\ rec.pc = "drop"
  BY <1>2, <1>3 DEF CallRecord, Stage
<1>7. caller' = [caller EXCEPT ![t] = rec]
  BY <1>1, <1>2 DEF Typed, CallersTyped, CallRecord
<1> HIDE DEF rec
<1>8. QED  BY <1>1, <1>5, <1>6, <1>7, MovesTyped DEF Typed

\* So does a drop, with the cache and the floors.
LEMMA DropTyped == ASSUME Typed, NEW t \in Tasks, DropCachedTokens(t) PROVE Typed'
<1>1. t \in Callers /\ ~Locking(t) /\ UNCHANGED holder /\ Become(t, "ask")
  BY DEF DropCachedTokens, Locking, Callers
<1>2. DataTyped'
  BY StoreTyped DEF DropCachedTokens, Typed, DataTyped
<1>3. QED  BY <1>1, <1>2, BecomeTyped DEF Typed, Stage

\* The operation's refresh takes the lock.
LEMMA RefreshTyped == ASSUME Typed, NEW t \in Tasks, Refresh(t) PROVE Typed'
<1>1. t \in Callers /\ LockFree /\ Become(t, "asked") /\ holder' = t
  BY DEF Refresh, TakeAndAsk, Callers
<1>2. DataTyped'
  BY DEF Refresh, Typed, DataTyped
<1> DEFINE rec == [caller[t] EXCEPT !.pc = "asked"]
<1>3. rec \in CallRecord /\ rec.pc = "asked"
  BY <1>1, AtStage DEF Typed, Stage
<1>4. caller' = [caller EXCEPT ![t] = rec]
  BY <1>1 DEF Become
<1> HIDE DEF rec
<1>5. QED  BY <1>1, <1>2, <1>3, <1>4, TakesTyped DEF Typed

\* And gives it back with the answer applied.
LEMMA OperationAppliesTyped ==
  ASSUME Typed, NEW t \in Tasks, OperationApplies(t)
  PROVE  Typed'
<1>1. t \in Callers /\ Locking(t) /\ caller[t].reply \in Replies /\ Release(t)
  BY AtStage DEF OperationApplies, Locking, Callers, Typed, Stage
<1>2. DataTyped'
  BY <1>1, AppliedTyped DEF Typed, DataTyped, OperationApplies
<1> DEFINE rec == IF Reached(t) THEN [caller[t] EXCEPT !.pc = "snapshot", !.reply = NoReply]
                                ELSE NoCall
<1>3. caller[t] \in CallRecord
  BY <1>1 DEF Typed, CallersTyped
<1>4. rec \in CallRecord /\ rec.pc \notin {"asked", "answered"}
  <2>1. [caller[t] EXCEPT !.pc = "snapshot", !.reply = NoReply] \in CallRecord
    BY <1>3, NoCallTyped DEF CallRecord, Stage
  <2>2. [caller[t] EXCEPT !.pc = "snapshot", !.reply = NoReply].pc = "snapshot"
    BY <1>3 DEF CallRecord
  <2>3. NoCall.pc = "idle"
    BY DEF NoCall
  <2>4. QED  BY <2>1, <2>2, <2>3, NoCallTyped
<1>5. caller' = [caller EXCEPT ![t] = rec]
  BY <1>3 DEF OperationApplies, Ends, Typed, CallersTyped, CallRecord
<1> HIDE DEF rec
<1>6. QED  BY <1>1, <1>2, <1>4, <1>5, ReleasesTyped DEF Typed

\* The snapshot is a rendering of the cards.
LEMMA TakeSnapshotTyped == ASSUME Typed, NEW t \in Tasks, TakeSnapshot(t) PROVE Typed'
<1>1. /\ t \in Callers /\ ~Locking(t) /\ UNCHANGED holder
      /\ caller' = [caller EXCEPT ![t].pc = "read", ![t].lines = Rendered]
  BY DEF TakeSnapshot, Locking, Callers
<1>2. Rendered \in Lines
  BY RenderedTyped DEF Typed, DataTyped
<1>3. caller[t] \in CallRecord
  BY <1>1 DEF Typed, CallersTyped
<1> DEFINE rec == [caller[t] EXCEPT !.pc = "read", !.lines = Rendered]
<1>4. rec \in CallRecord /\ rec.pc = "read"
  BY <1>2, <1>3 DEF CallRecord, Stage
<1>5. caller' = [caller EXCEPT ![t] = rec]
  BY <1>1, <1>3 DEF Typed, CallersTyped, CallRecord
<1>6. DataTyped'
  BY DEF TakeSnapshot, Typed, DataTyped
<1> HIDE DEF rec
<1>7. QED  BY <1>1, <1>4, <1>5, <1>6, MovesTyped DEF Typed

\* Lines over lines are lines.
LEMMA OverTyped ==
  ASSUME NEW old \in Lines, NEW new \in Lines, NEW kept
  PROVE  Over(old, new, kept) \in Lines
BY DEF Over, Lines

\* What becomes of a handle is a handle.
LEMMA ShiftedTyped == \A h \in DOMAIN Shifted : Shifted[h] \in DOMAIN Shifted
BY DEF Shifted

\* The operation compares, opens and publishes.
LEMMA FileTyped ==
  ASSUME Typed, NEW t \in Tasks,
         ReadEnvFile(t) \/ OpenTmp(t) \/ PublishTmp(t) \/ TmpIsGone(t) \/ ModelsCacheStuck(t)
  PROVE  Typed'
<1>1. t \in Callers /\ ~Locking(t) /\ UNCHANGED holder
  BY DEF ReadEnvFile, OpenTmp, PublishTmp, TmpIsGone, ModelsCacheStuck, Locking, Callers
<1>2. NoLines \in Lines /\ "tmp" \in DOMAIN Shifted
  BY NoCallTyped DEF Shifted
<1>3. DataTyped'
  <2>1. CASE ReadEnvFile(t) \/ TmpIsGone(t) \/ ModelsCacheStuck(t)
    BY <2>1 DEF ReadEnvFile, TmpIsGone, ModelsCacheStuck, GivesUp, Typed, DataTyped
  <2>2. CASE OpenTmp(t)
    BY <1>2, <2>2 DEF OpenTmp, Typed, DataTyped
  <2>3. CASE PublishTmp(t)
    <3>1. file' \in Lines /\ tmp' = {} /\ spared' \subseteq Processes
      BY <2>3 DEF PublishTmp, Spares, Typed, DataTyped
    <3>2. handle' \in [Tasks -> DOMAIN Shifted]
      BY <2>3, ShiftedTyped DEF PublishTmp, Typed, DataTyped
    <3>3. QED  BY <2>3, <3>1, <3>2 DEF PublishTmp, Typed, DataTyped
  <2>4. QED  BY <2>1, <2>2, <2>3
<1>4. PICK pc \in {"open", "write", "gateway"} : Ends(t) \/ Become(t, pc)
  BY DEF ReadEnvFile, OpenTmp, PublishTmp, TmpIsGone, ModelsCacheStuck, GivesUp
<1>5. pc \in Stage \ {"asked", "answered"}
  BY DEF Stage
<1>6. CallersTyped'
  BY <1>1, <1>4, <1>5, EndsTyped, BecomeTyped DEF Typed
<1>7. QED  BY <1>3, <1>6 DEF Typed

\* The operation writes its lines.
LEMMA WriteTyped == ASSUME Typed, NEW t \in Tasks, WriteTmp(t) PROVE Typed'
<1>1. t \in Callers /\ ~Locking(t) /\ UNCHANGED holder
  BY DEF WriteTmp, Locking, Callers
<1>2. caller[t] \in CallRecord
  BY <1>1 DEF Typed, CallersTyped
<1>3. file' \in Lines /\ tmp' \subseteq Lines /\ spared' \subseteq Processes
  <2>1. caller[t].lines \in Lines
    BY <1>2 DEF CallRecord
  <2>2. \A old \in Lines, kept \in SUBSET Slugs : Over(old, caller[t].lines, kept) \in Lines
    BY <2>1, OverTyped
  <2>3. QED  BY <2>2 DEF WriteTmp, Spares, Typed, DataTyped
<1>4. handle' \in [Tasks -> DOMAIN Shifted]
  BY DEF WriteTmp, Typed, DataTyped, Shifted
<1>5. DataTyped'
  BY <1>3, <1>4 DEF WriteTmp, Typed, DataTyped
<1> DEFINE rec == [caller[t] EXCEPT !.pc = "publish", !.lines = NoLines]
<1>6. rec \in CallRecord /\ rec.pc = "publish"
  BY <1>2, NoCallTyped DEF CallRecord, Stage
<1>7. caller' = [caller EXCEPT ![t] = rec]
  BY <1>2 DEF WriteTmp, Typed, CallersTyped, CallRecord
<1> HIDE DEF rec
<1>8. QED  BY <1>1, <1>5, <1>6, <1>7, MovesTyped DEF Typed

\* A restart reads the file; a failed one is remembered.
LEMMA RestartTyped ==
  ASSUME Typed, NEW t \in Tasks, NEW p \in Processes,
         RestartProcess(t, p) \/ RestartFails(t, p)
  PROVE  Typed'
<1>1. t \in Callers /\ ~Locking(t) /\ UNCHANGED holder
  BY DEF RestartProcess, RestartFails, Locking, Callers, Processes
<1>2. running' \in [Processes -> Lines]
  BY DEF RestartProcess, RestartFails, Typed, DataTyped
<1>3. DataTyped'
  <2>1. missed' \subseteq Processes /\ spared' \subseteq Processes
    BY DEF RestartProcess, RestartFails, GivesUp, Typed, DataTyped
  <2>2. QED  BY <1>2, <2>1 DEF RestartProcess, RestartFails, Typed, DataTyped
<1>4. Ends(t) \/ Become(t, "webui")
  BY DEF RestartProcess, RestartFails, RestartEnds, GivesUp
<1>5. "webui" \in Stage \ {"asked", "answered"}
  BY DEF Stage
<1>6. CallersTyped'
  BY <1>1, <1>4, <1>5, EndsTyped, BecomeTyped DEF Typed
<1>7. QED  BY <1>3, <1>6 DEF Typed

-----------------------------------------------------------------------------
(* The container, and the theorem *)

\* After a bootstrap nobody holds the lock and no call is under way.
LEMMA BootstrapTyped == ASSUME Typed, Bootstrap PROVE Typed'
<1>1. PICK told \in SUBSET Slugs \ {{}} :
        /\ card' = [s \in Slugs |-> IF s \in told THEN grant[s] ELSE 0]
        /\ cache' = [s \in Slugs |-> IF s \in told /\ Stored(grant[s])
                                     THEN [gen |-> grant[s], life |-> "fresh"] ELSE NoEntry]
  BY DEF Bootstrap
<1>2. 0 \in Generation /\ NoEntry \in CacheEntry
  BY CredentialAssumption DEF Generation, NoEntry, CacheEntry
<1>3. card' \in [Slugs -> Generation]
  BY <1>1, <1>2 DEF Typed, DataTyped
<1>4. \A s \in Slugs : [gen |-> grant[s], life |-> "fresh"] \in CacheEntry
  BY DEF Typed, DataTyped, CacheEntry
<1>5. cache' \in [Slugs -> CacheEntry]
  BY <1>1, <1>2, <1>4
<1>6. file' \in Lines
  <2>1. ASSUME NEW s \in Slugs, Stored(card'[s]) PROVE 1 \in Generation
    BY CredentialAssumption DEF Generation
  <2>2. QED  BY <1>2, <1>3, <2>1 DEF Bootstrap, Rendered, Lines
<1>7. /\ running' \in [Processes -> Lines] /\ missed' = {} /\ spared' = {}
      /\ tmp' = {} /\ handle' \in [Tasks -> DOMAIN Shifted]
  BY <1>6 DEF Bootstrap, Shifted
<1>8. DataTyped'
  BY <1>3, <1>5, <1>6, <1>7 DEF Bootstrap, Typed, DataTyped
<1>9. CallersTyped'
  <2>1. caller' = [c \in Callers |-> NoCall] /\ holder' = Nobody
    BY DEF Bootstrap
  <2>2. NoCall.pc = "idle"
    BY DEF NoCall
  <2>3. QED  BY <2>1, <2>2, NoCallTyped, CredentialAssumption DEF CallersTyped, Locking
<1>10. QED  BY <1>8, <1>9 DEF Typed

\* The initial state is typed.
LEMMA InitTyped == CredentialInit => Typed
<1> SUFFICES ASSUME CredentialInit PROVE Typed
  OBVIOUS
<1>1. {0, 1} \subseteq Generation /\ NoEntry \in CacheEntry
  BY CredentialAssumption DEF Generation, NoEntry, CacheEntry
<1>2. grant \in [Slugs -> Generation]
  BY <1>1 DEF CredentialInit
<1>3. \A s \in Slugs : [gen |-> grant[s], life |-> "fresh"] \in CacheEntry
  BY <1>2 DEF CacheEntry
<1>4. cache \in [Slugs -> CacheEntry]
  BY <1>1, <1>3 DEF CredentialInit
<1>5. file \in Lines
  BY <1>1, <1>2 DEF CredentialInit, Lines
<1>6. running \in [Processes -> Lines]
  BY <1>5 DEF CredentialInit
<1>7. DataTyped
  <2>1. handle \in [Tasks -> DOMAIN Shifted]
    BY DEF CredentialInit, Shifted
  <2>2. QED
    BY <1>1, <1>2, <1>4, <1>5, <1>6, <2>1, CredentialAssumption DEF CredentialInit, DataTyped
<1>8. NoCall.pc = "idle"
  BY DEF NoCall
<1>9. CallersTyped
  BY <1>8, NoCallTyped, CredentialAssumption DEF CredentialInit, CallersTyped, Locking
<1>10. QED  BY <1>7, <1>9 DEF Typed

\* Every step keeps the types.
LEMMA StepTyped == ASSUME Typed, [CredentialNext]_credentialVars PROVE Typed'
<1>1. CASE HumrChanges
  BY <1>1, HumrChangesTyped
<1>2. CASE Bootstrap
  BY <1>2, BootstrapTyped
<1>3. CASE \E s \in Slugs : TokenAges(s)
  BY <1>3, TokenAgesTyped
<1>4. CASE \E q \in Requests, s \in Slugs : CredentialForSlug(q, s)
  BY <1>4, CredentialForSlugTyped
<1>5. CASE \E t \in Tasks : StartOperation(t)
  BY <1>5, StartOperationTyped
<1>6. ASSUME NEW c \in Callers, Progress(c) PROVE Typed'
  <2>1. CASE HumrAnswers(c)
    BY <2>1, HumrAnswersTyped
  <2>2. CASE c \in Requests /\ RequestStep(c)
    BY <2>2, RequestAppliesTyped, RequestEndsTyped, EvictTyped DEF RequestStep
  <2>3. CASE c \in Tasks /\ OperationStep(c)
    BY <2>3, HumrWritesTyped, PostFailsTyped, MarkDisconnectedTyped, DropTyped,
       RefreshTyped, OperationAppliesTyped, TakeSnapshotTyped, FileTyped, WriteTyped, RestartTyped
       DEF OperationStep
  <2>4. QED  BY <1>6, <2>1, <2>2, <2>3 DEF Progress
<1>7. CASE UNCHANGED credentialVars
  BY <1>7, CallersUnchanged DEF credentialVars, Typed, DataTyped
<1>8. QED  BY <1>1, <1>2, <1>3, <1>4, <1>5, <1>6, <1>7 DEF CredentialNext

\* Whatever users, HUMR and requests do, the store, the file and the callers have
\* their types, and the lock is held exactly while one caller's refresh is out.
THEOREM CredentialTypeCorrect == CredentialSpec => []CredentialTypeOK
<1>1. Typed /\ [CredentialNext]_credentialVars => Typed'
  BY StepTyped
<1>2. QED  BY InitTyped, <1>1, TypedSuffices, PTL DEF CredentialSpec

-----------------------------------------------------------------------------
(* Whose secret, and how old: the inductive invariant.  The lock is what   *)
(* makes it inductive: between an answer of HUMR and its application no    *)
(* card and no floor can move.                                             *)

\* Nothing is newer than HUMR.
Known(s) == card[s] <= grant[s] /\ floor[s] <= grant[s]

\* A cached secret is not a dropped one, and the card is about it.
Kept(s) ==
  cache[s] # NoEntry => cache[s].gen >= floor[s] /\ cache[s].gen = card[s] /\ Stored(card[s])

\* An answer not yet applied is no older than the card and the last drop.
Reports(c) ==
  caller[c].pc = "answered" =>
    \A s \in caller[c].scope : caller[c].reply[s] # Transient =>
      /\ card[s] <= caller[c].reply[s] /\ floor[s] <= caller[c].reply[s]
      /\ caller[c].reply[s] <= grant[s]

\* A change at HUMR concerns one slug, and a confirmed deletion left none stored.
Confirms(c) ==
  /\ caller[c].pc \in {"connect", "stored", "disconnect", "deleted"} =>
       \E s \in Slugs : caller[c].scope = {s}
  /\ caller[c].pc = "deleted" =>
       ~Stored(caller[c].dead) /\ \A s \in caller[c].scope : caller[c].dead <= grant[s]

StoreInv == \A s \in Slugs : Known(s) /\ Kept(s)

CallInv == \A c \in Callers : Reports(c) /\ Confirms(c)

CredInv == Typed /\ StoreInv /\ CallInv

\* What the invariant says of the cache is the two properties.
LEMMA InvSuffices == CredInv => NoDroppedSecretReturns /\ SecretMatchesCard
BY DEF CredInv, StoreInv, Kept, NoDroppedSecretReturns, SecretMatchesCard

\* The types of what the invariant compares.
LEMMA Numbers ==
  ASSUME Typed
  PROVE  /\ \A s \in Slugs : /\ grant[s] \in Nat /\ card[s] \in Nat /\ floor[s] \in Nat
                             /\ cache[s] \in CacheEntry /\ cache[s].gen \in Nat
         /\ \A c \in Callers : /\ caller[c] \in CallRecord /\ caller[c].scope \subseteq Slugs
                               /\ caller[c].dead \in Nat
<1>1. Generation \subseteq Nat
  BY CredentialAssumption DEF Generation
<1>2. \A s \in Slugs : /\ grant[s] \in Nat /\ card[s] \in Nat /\ floor[s] \in Nat
                       /\ cache[s] \in CacheEntry /\ cache[s].gen \in Nat
  BY <1>1 DEF Typed, DataTyped, CacheEntry
<1>3. \A c \in Callers : caller[c] \in CallRecord
  BY DEF Typed, CallersTyped
<1>4. \A c \in Callers : caller[c].scope \subseteq Slugs /\ caller[c].dead \in Nat
  BY <1>1, <1>3 DEF CallRecord
<1>5. QED  BY <1>2, <1>3, <1>4

\* The replies of an answered refresh are generations or failures.
LEMMA ReplyNumbers ==
  ASSUME Typed, NEW c \in Callers, caller[c].pc = "answered"
  PROVE  \A s \in caller[c].scope : caller[c].reply[s] # Transient => caller[c].reply[s] \in Nat
<1>1. caller[c].reply \in Replies /\ DOMAIN caller[c].reply = caller[c].scope
  BY DEF Typed, CallersTyped, CallRecord
<1>2. QED  BY <1>1, CredentialAssumption DEF Replies, Generation

\* While HUMR only moves forward, the calls a step does not touch keep their part
\* of the invariant: card and floor are left alone, or no other call is answered.
LEMMA OthersKeep ==
  ASSUME CredInv, Typed', NEW d \in Callers, caller'[d] = caller[d],
         \A s \in Slugs : grant'[s] >= grant[s],
         UNCHANGED <<card, floor>> \/ ~Locking(d)
  PROVE  Reports(d)' /\ Confirms(d)'
<1>1. \A s \in Slugs : grant[s] \in Nat /\ grant'[s] \in Nat
  BY Numbers, Typed' DEF CredInv, Typed, DataTyped, Generation
<1>2. caller[d].scope \subseteq Slugs /\ caller[d].dead \in Nat
  BY Numbers DEF CredInv
<1>3. Reports(d) /\ Confirms(d)
  BY DEF CredInv, CallInv
<1>4. Confirms(d)'
  BY <1>1, <1>2, <1>3 DEF Confirms
<1>5. Reports(d)'
  <2>1. CASE ~Locking(d)
    BY <2>1 DEF Locking, Reports
  <2>2. CASE caller[d].pc = "answered" /\ UNCHANGED <<card, floor>>
    <3>1. \A s \in caller[d].scope : caller[d].reply[s] # Transient =>
            caller[d].reply[s] \in Nat
      BY <2>2, ReplyNumbers DEF CredInv
    <3>2. QED  BY <1>1, <1>2, <1>3, <2>2, <3>1 DEF Reports
  <2>3. CASE caller[d].pc # "answered"
    BY <2>3 DEF Reports
  <2>4. QED  BY <2>1, <2>2, <2>3
<1>6. QED  BY <1>4, <1>5

\* A step of one call that is quiet about answers and deletions, and only forgets
\* secrets, keeps the invariant.
LEMMA QuietStep ==
  ASSUME CredInv, Typed', NEW c \in Callers, NEW rec,
         caller' = [caller EXCEPT ![c] = rec],
         rec.pc \notin {"answered", "deleted"},
         rec.pc \in {"connect", "stored", "disconnect"} => \E s \in Slugs : rec.scope = {s},
         UNCHANGED <<grant, card, floor>>,
         \A s \in Slugs : cache'[s] = cache[s] \/ cache'[s] = NoEntry
  PROVE  CredInv'
<1>1. StoreInv'
  BY DEF CredInv, StoreInv, Known, Kept
<1>2. ASSUME NEW d \in Callers
      PROVE  caller'[d] = IF d = c THEN rec ELSE caller[d]
  BY DEF CredInv, Typed, CallersTyped
<1>3. \A s \in Slugs : grant'[s] >= grant[s]
  BY Numbers DEF CredInv
<1>4. ASSUME NEW d \in Callers, d # c PROVE Reports(d)' /\ Confirms(d)'
  BY <1>2, <1>3, <1>4, OthersKeep
<1>5. Reports(c)' /\ Confirms(c)'
  BY <1>2 DEF Reports, Confirms
<1>6. QED  BY <1>1, <1>4, <1>5 DEF CredInv, CallInv

\* When nobody else is refreshing, a step that moves card and floor keeps the
\* invariant of the other calls.
LEMMA AloneStep ==
  ASSUME CredInv, Typed', NEW c \in Callers, NEW rec, LockFree \/ Locking(c),
         caller' = [caller EXCEPT ![c] = rec],
         rec.pc \notin {"answered", "connect", "stored", "disconnect", "deleted"},
         UNCHANGED grant, StoreInv'
  PROVE  CredInv'
<1>1. ASSUME NEW d \in Callers
      PROVE  caller'[d] = IF d = c THEN rec ELSE caller[d]
  BY DEF CredInv, Typed, CallersTyped
<1>2. \A s \in Slugs : grant'[s] >= grant[s]
  BY Numbers DEF CredInv
<1>3. \A d \in Callers \ {c} : ~Locking(d)
  BY CredentialAssumption DEF CredInv, Typed, CallersTyped, LockFree
<1>4. ASSUME NEW d \in Callers, d # c PROVE Reports(d)' /\ Confirms(d)'
  BY <1>1, <1>2, <1>3, <1>4, OthersKeep
<1>5. Reports(c)' /\ Confirms(c)'
  BY <1>1 DEF Reports, Confirms
<1>6. QED  BY <1>4, <1>5 DEF CredInv, CallInv

\* A call that ends, or goes on within an operation, is such a step.
LEMMA QuietMoves ==
  ASSUME CredInv, Typed', NEW c \in Callers, NEW pc,
         Ends(c) \/ Become(c, pc),
         pc \notin {"answered", "connect", "stored", "disconnect", "deleted"},
         UNCHANGED <<grant, card, floor, cache>>
  PROVE  CredInv'
<1>1. NoCall.pc = "idle"
  BY DEF NoCall
<1>2. CASE Ends(c)
  BY <1>1, <1>2, QuietStep DEF Ends
<1>3. CASE Become(c, pc)
  <2> DEFINE rec == [caller[c] EXCEPT !.pc = pc]
  <2>1. caller[c] \in CallRecord
    BY Numbers DEF CredInv
  <2>2. rec.pc = pc
    BY <2>1 DEF CallRecord
  <2>3. caller' = [caller EXCEPT ![c] = rec]
    BY <1>3 DEF Become
  <2> HIDE DEF rec
  <2>4. QED  BY <2>2, <2>3, QuietStep
<1>4. QED  BY <1>2, <1>3

-----------------------------------------------------------------------------
(* Each action keeps the invariant *)

\* HUMR's own changes make everything known older, and age touches no generation.
LEMMA WorldKeeps ==
  ASSUME CredInv, Typed', HumrChanges \/ \E s \in Slugs : TokenAges(s)
  PROVE  CredInv'
<1>1. UNCHANGED <<card, floor, caller>>
  BY DEF HumrChanges, TokenAges
<1>2. \A s \in Slugs : grant'[s] >= grant[s]
  <2>1. CASE HumrChanges
    <3>1. PICK s \in Slugs : StoreCredential(s) \/ DeleteCredential(s)
      BY <2>1 DEF HumrChanges
    <3>2. grant' = [grant EXCEPT ![s] = grant'[s]] /\ grant'[s] >= grant[s]
      BY <3>1, StoreCredentialTyped DEF CredInv, Typed
    <3>3. QED  BY <3>2, Numbers DEF CredInv, Typed, DataTyped
  <2>2. CASE \E s \in Slugs : TokenAges(s)
    BY <2>2, Numbers DEF TokenAges, CredInv
  <2>3. QED  BY <2>1, <2>2
<1>3. \A s \in Slugs : cache'[s] # NoEntry => cache[s] # NoEntry /\ cache'[s].gen = cache[s].gen
  <2>1. CASE HumrChanges
    BY <2>1 DEF HumrChanges
  <2>2. ASSUME NEW s \in Slugs, TokenAges(s)
        PROVE  \A u \in Slugs : cache'[u] # NoEntry =>
                 cache[u] # NoEntry /\ cache'[u].gen = cache[u].gen
    <3>1. cache[s] # NoEntry
      BY <2>2 DEF TokenAges, NoEntry
    <3>2. cache'[s].gen = cache[s].gen
      BY <2>2, Numbers DEF TokenAges, CacheEntry, CredInv, Typed, DataTyped
    <3>3. \A u \in Slugs : u # s => cache'[u] = cache[u]
      BY <2>2 DEF TokenAges, CredInv, Typed, DataTyped
    <3>4. QED  BY <3>1, <3>2, <3>3
  <2>3. QED  BY <2>1, <2>2
<1>4. \A s \in Slugs : grant'[s] \in Nat
  BY CredentialAssumption DEF Typed, DataTyped, Generation
<1>5. StoreInv'
  <2> SUFFICES ASSUME NEW s \in Slugs PROVE Known(s)' /\ Kept(s)'
    BY DEF StoreInv
  <2>1. Known(s) /\ Kept(s)
    BY DEF CredInv, StoreInv
  <2>2. Known(s)'
    BY <1>1, <1>2, <1>4, <2>1, Numbers DEF Known, CredInv
  <2>3. Kept(s)'
    BY <1>1, <1>3, <2>1 DEF Kept
  <2>4. QED  BY <2>2, <2>3
<1>6. CallInv'
  BY <1>1, <1>2, OthersKeep DEF CallInv
<1>7. QED  BY <1>5, <1>6 DEF CredInv

\* An answer is the state of that moment, and no card or drop is ahead of it.
LEMMA HumrAnswersKeeps ==
  ASSUME CredInv, Typed', NEW c \in Callers, HumrAnswers(c)
  PROVE  CredInv'
<1>1. PICK failed \in SUBSET caller[c].scope :
        caller' = [caller EXCEPT ![c].pc = "answered",
                     ![c].reply = [s \in caller[c].scope |->
                                     IF s \in failed THEN Transient ELSE grant[s]]]
  BY DEF HumrAnswers
<1> DEFINE reply == [s \in caller[c].scope |-> IF s \in failed THEN Transient ELSE grant[s]]
<1>2. UNCHANGED <<grant, card, floor, cache>>
  BY DEF HumrAnswers
<1>3. caller[c] \in CallRecord /\ caller[c].scope \subseteq Slugs
  BY Numbers DEF CredInv
<1>4. /\ caller'[c].pc = "answered" /\ caller'[c].reply = reply
      /\ caller'[c].scope = caller[c].scope
      /\ \A d \in Callers : d # c => caller'[d] = caller[d]
  BY <1>1, <1>3 DEF CredInv, Typed, CallersTyped, CallRecord
<1>5. \A s \in Slugs : grant'[s] >= grant[s]
  BY <1>2, Numbers DEF CredInv
<1>6. \A s \in caller[c].scope : reply[s] = Transient \/ reply[s] = grant[s]
  OBVIOUS
<1> HIDE DEF reply
<1>7. \A s \in Slugs : /\ card[s] <= grant[s] /\ floor[s] <= grant[s] /\ grant[s] <= grant[s]
  BY Numbers DEF CredInv, StoreInv, Known
<1>8. Reports(c)'
  BY <1>2, <1>3, <1>4, <1>6, <1>7 DEF Reports
<1>9. Confirms(c)'
  BY <1>4 DEF Confirms
<1>10. ASSUME NEW d \in Callers, d # c PROVE Reports(d)' /\ Confirms(d)'
  BY <1>2, <1>4, <1>5, <1>10, OthersKeep
<1>11. StoreInv'
  BY <1>2 DEF CredInv, StoreInv, Known, Kept
<1>12. QED  BY <1>8, <1>9, <1>10, <1>11 DEF CredInv, CallInv

\* Applying an answer of the invariant leaves a store of the invariant.
LEMMA AppliedKeeps ==
  ASSUME CredInv, NEW c \in Callers, caller[c].pc = "answered", Applied(caller[c].reply),
         UNCHANGED <<grant, floor>>
  PROVE  StoreInv' /\ \A s \in Slugs : Stored(card'[s]) => card'[s] >= card[s]
<1> DEFINE reply == caller[c].reply
           told == {s \in DOMAIN reply : reply[s] # Transient}
<1>1. DOMAIN reply = caller[c].scope /\ caller[c].scope \subseteq Slugs
  BY Numbers DEF CredInv, Typed, CallersTyped
<1>2. \A s \in told : /\ reply[s] \in Nat /\ card[s] <= reply[s]
                      /\ floor[s] <= reply[s] /\ reply[s] <= grant[s]
  BY <1>1, ReplyNumbers DEF CredInv, CallInv, Reports
<1>3. /\ cache' = [s \in Slugs |-> IF s \notin told THEN cache[s]
                     ELSE IF Stored(reply[s]) THEN [gen |-> reply[s], life |-> "fresh"]
                     ELSE NoEntry]
      /\ card' = [s \in Slugs |-> IF s \in told THEN reply[s] ELSE card[s]]
  BY DEF Applied
<1>4. ASSUME NEW s \in Slugs
      PROVE  Known(s)' /\ Kept(s)' /\ (Stored(card'[s]) => card'[s] >= card[s])
  <2>1. Known(s) /\ Kept(s) /\ card[s] \in Nat /\ floor[s] \in Nat /\ grant[s] \in Nat
    BY Numbers DEF CredInv, StoreInv
  <2>2. CASE s \notin told
    BY <1>3, <2>1, <2>2 DEF Known, Kept
  <2>3. CASE s \in told
    <3>1. card'[s] = reply[s]
      BY <1>3, <2>3
    <3>2. cache'[s] # NoEntry => cache'[s].gen = reply[s] /\ Stored(reply[s])
      BY <1>3, <2>3
    <3> HIDE DEF told, reply
    <3>3. QED  BY <1>2, <2>1, <2>3, <3>1, <3>2 DEF Known, Kept
  <2>4. QED  BY <2>2, <2>3
<1>5. QED  BY <1>4 DEF StoreInv

\* A request that starts only prunes.
LEMMA CredentialForSlugKeeps ==
  ASSUME CredInv, Typed', NEW q \in Requests, NEW s \in Slugs, CredentialForSlug(q, s)
  PROVE  CredInv'
<1>1. q \in Callers /\ UNCHANGED <<grant, card, floor>>
  BY DEF CredentialForSlug, Callers
<1>2. \A u \in Slugs : cache'[u] = cache[u] \/ cache'[u] = NoEntry
  BY DEF CredentialForSlug, Pruned
<1>3. CASE cache[s].life = "fresh"
  <2> DEFINE rec == [NoCall EXCEPT !.scope = {s}, !.pc = "served"]
  <2>1. rec.pc = "served"
    BY NoCallTyped DEF CallRecord
  <2>2. caller' = [caller EXCEPT ![q] = rec]
    BY <1>3 DEF CredentialForSlug
  <2> HIDE DEF rec
  <2>3. QED  BY <1>1, <1>2, <2>1, <2>2, QuietStep
<1>4. CASE cache[s].life # "fresh"
  <2> DEFINE rec == [NoCall EXCEPT !.scope = {s}, !.pc = "asked", !.usable = Usable(s)]
  <2>1. rec.pc = "asked"
    BY NoCallTyped DEF CallRecord, Usable
  <2>2. caller' = [caller EXCEPT ![q] = rec]
    BY <1>4 DEF CredentialForSlug
  <2> HIDE DEF rec
  <2>3. QED  BY <1>1, <1>2, <2>1, <2>2, QuietStep
<1>5. QED  BY <1>3, <1>4

\* A request and an operation apply their answers under the lock.
LEMMA RequestAppliesKeeps ==
  ASSUME CredInv, Typed', NEW q \in Requests, RequestApplies(q)
  PROVE  CredInv'
<1>1. /\ q \in Callers /\ Locking(q) /\ caller[q].pc = "answered"
      /\ UNCHANGED <<grant, floor>>
  BY DEF RequestApplies, Locking, Callers
<1>2. StoreInv'
  BY <1>1, AppliedKeeps DEF RequestApplies
<1>3. PICK pc \in {"refused", "served"} : Become(q, pc)
  BY DEF RequestApplies
<1> DEFINE rec == [caller[q] EXCEPT !.pc = pc]
<1>4. rec.pc = pc
  BY <1>1, Numbers DEF CredInv, CallRecord
<1>5. caller' = [caller EXCEPT ![q] = rec]
  BY <1>3 DEF Become
<1> HIDE DEF rec
<1>6. QED  BY <1>1, <1>2, <1>3, <1>4, <1>5, AloneStep

\* The operation's answer.
LEMMA OperationAppliesKeeps ==
  ASSUME CredInv, Typed', NEW t \in Tasks, OperationApplies(t)
  PROVE  CredInv'
<1>1. /\ t \in Callers /\ Locking(t) /\ caller[t].pc = "answered"
      /\ UNCHANGED <<grant, floor>>
  BY DEF OperationApplies, Locking, Callers
<1>2. StoreInv'
  BY <1>1, AppliedKeeps DEF OperationApplies
<1> DEFINE rec == IF Reached(t) THEN [caller[t] EXCEPT !.pc = "snapshot", !.reply = NoReply]
                                ELSE NoCall
<1>3. caller[t] \in CallRecord
  BY <1>1, Numbers DEF CredInv
<1>4. rec.pc \in {"snapshot", "idle"}
  BY <1>3 DEF CallRecord, NoCall
<1>5. caller' = [caller EXCEPT ![t] = rec]
  BY <1>3 DEF OperationApplies, Ends, CredInv, Typed, CallersTyped, CallRecord
<1> HIDE DEF rec
<1>6. QED  BY <1>1, <1>2, <1>4, <1>5, AloneStep

\* Forgetting secrets and raising their floors keeps the store.
LEMMA DropsKeep ==
  ASSUME CredInv, NEW S, cache' = Dropped(S), floor' = Raised(S), UNCHANGED <<grant, card>>
  PROVE  StoreInv'
<1> SUFFICES ASSUME NEW s \in Slugs PROVE Known(s)' /\ Kept(s)'
  BY DEF StoreInv
<1>1. Known(s) /\ Kept(s) /\ grant[s] \in Nat /\ floor[s] \in Nat
  BY Numbers DEF CredInv, StoreInv
<1>2. cache'[s] = IF s \in S THEN NoEntry ELSE cache[s]
  BY DEF Dropped
<1>3. floor'[s] = IF s \in S THEN Later(floor[s], grant[s]) ELSE floor[s]
  BY DEF Raised
<1>4. QED  BY <1>1, <1>2, <1>3 DEF Known, Kept, Later

\* An eviction after a 401.
LEMMA EvictKeeps ==
  ASSUME CredInv, Typed', NEW q \in Requests, EvictAfter401(q)
  PROVE  CredInv'
<1>1. q \in Callers /\ LockFree /\ UNCHANGED grant
  BY DEF EvictAfter401, Callers
<1>2. StoreInv'
  BY DropsKeep DEF EvictAfter401
<1>3. NoCall.pc = "idle"
  BY DEF NoCall
<1>4. QED  BY <1>1, <1>2, <1>3, AloneStep DEF EvictAfter401, Ends

\* A drop of an operation.
LEMMA DropKeeps ==
  ASSUME CredInv, Typed', NEW t \in Tasks, DropCachedTokens(t)
  PROVE  CredInv'
<1>1. t \in Callers /\ LockFree /\ UNCHANGED grant
  BY DEF DropCachedTokens, Callers
<1>2. StoreInv'
  BY DropsKeep DEF DropCachedTokens
<1> DEFINE rec == [caller[t] EXCEPT !.pc = "ask"]
<1>3. rec.pc = "ask"
  BY <1>1, Numbers DEF CredInv, CallRecord
<1>4. caller' = [caller EXCEPT ![t] = rec]
  BY DEF DropCachedTokens, Become
<1> HIDE DEF rec
<1>5. QED  BY <1>1, <1>2, <1>3, <1>4, AloneStep

\* A disconnect confirmed by HUMR: the card is a deleted generation and no secret is
\* left, even when a newer credential was stored and fetched in the meantime.
LEMMA MarkKeeps ==
  ASSUME CredInv, Typed', NEW t \in Tasks, MarkDisconnected(t)
  PROVE  CredInv' /\ \A s \in Slugs : Stored(card'[s]) => card'[s] >= card[s]
<1>1. /\ t \in Callers /\ LockFree /\ UNCHANGED grant /\ caller[t].pc = "deleted"
      /\ caller' = [caller EXCEPT ![t].pc = "drop", ![t].dead = 0]
  BY DEF MarkDisconnected, Marked, Callers
<1> DEFINE asked == caller[t].scope
           dead == caller[t].dead
<1>2. ~Stored(dead) /\ dead \in Nat /\ \A s \in asked : dead <= grant[s]
  BY <1>1, Numbers DEF CredInv, CallInv, Confirms
<1>3. /\ card' = [s \in Slugs |-> IF s \in asked THEN dead ELSE card[s]]
      /\ floor' = [s \in Slugs |-> IF s \in asked THEN Later(floor[s], dead) ELSE floor[s]]
      /\ cache' = [s \in Slugs |-> IF s \in asked THEN NoEntry ELSE cache[s]]
  BY DEF MarkDisconnected, Marked, Dropped
<1>4. caller[t] \in CallRecord
  BY <1>1, Numbers DEF CredInv
<1> DEFINE rec == [caller[t] EXCEPT !.pc = "drop", !.dead = 0]
<1>5. rec.pc = "drop"
  BY <1>4 DEF CallRecord
<1>6. caller' = [caller EXCEPT ![t] = rec]
  BY <1>1, <1>4 DEF CredInv, Typed, CallersTyped, CallRecord
<1> HIDE DEF rec, asked, dead
<1>7. ASSUME NEW s \in Slugs
      PROVE  Known(s)' /\ Kept(s)' /\ (Stored(card'[s]) => card'[s] >= card[s])
  <2>1. Known(s) /\ Kept(s) /\ card[s] \in Nat /\ floor[s] \in Nat /\ grant[s] \in Nat
    BY Numbers DEF CredInv, StoreInv
  <2>2. CASE s \in asked
    BY <1>1, <1>2, <1>3, <2>1, <2>2 DEF Known, Kept, Later
  <2>3. CASE s \notin asked
    BY <1>1, <1>3, <2>1, <2>3 DEF Known, Kept
  <2>4. QED  BY <2>2, <2>3
<1>8. StoreInv'
  BY <1>7 DEF StoreInv
<1>9. CredInv'
  BY <1>1, <1>5, <1>6, <1>8, AloneStep
<1>10. QED  BY <1>7, <1>9

\* What HUMR stores or deletes for an operation is its one slug's next generation.
LEMMA HumrWritesKeep ==
  ASSUME CredInv, Typed', NEW t \in Tasks, HumrStores(t) \/ HumrDeletes(t)
  PROVE  CredInv'
<1>1. /\ t \in Callers /\ UNCHANGED <<card, floor, cache>>
      /\ caller[t].pc \in {"connect", "disconnect"}
  BY DEF HumrStores, HumrDeletes, Callers
<1>2. PICK u \in Slugs : caller[t].scope = {u}
  BY <1>1 DEF CredInv, CallInv, Confirms
<1>3. caller[t] \in CallRecord /\ \A s \in Slugs : grant[s] \in Nat
  BY <1>1, Numbers DEF CredInv
<1>4. \/ StoreCredential(u) \/ DeleteCredential(u)
      \/ UNCHANGED grant
  BY <1>2 DEF HumrStores, HumrDeletes
<1>5. /\ \A s \in Slugs : grant'[s] >= grant[s]
  <2>1. CASE StoreCredential(u) \/ DeleteCredential(u)
    <3>1. grant' = [grant EXCEPT ![u] = grant'[u]] /\ grant'[u] >= grant[u]
      BY <2>1, StoreCredentialTyped DEF CredInv, Typed
    <3>2. QED  BY <1>3, <3>1 DEF CredInv, Typed, DataTyped
  <2>2. CASE UNCHANGED grant
    BY <1>3, <2>2
  <2>3. QED  BY <1>4, <2>1, <2>2
<1>6. \A s \in Slugs : grant'[s] \in Nat
  BY CredentialAssumption DEF Typed, DataTyped, Generation
<1>7. StoreInv'
  <2> SUFFICES ASSUME NEW s \in Slugs PROVE Known(s)' /\ Kept(s)'
    BY DEF StoreInv
  <2>1. Known(s) /\ Kept(s)
    BY DEF CredInv, StoreInv
  <2>2. QED  BY <1>1, <1>5, <1>6, <2>1, Numbers DEF Known, Kept, CredInv
<1>8. /\ \A d \in Callers : d # t => caller'[d] = caller[d]
      /\ caller'[t].scope = {u}
  BY <1>2, <1>3 DEF HumrStores, HumrDeletes, Become, CredInv, Typed, CallersTyped, CallRecord
<1>9. ASSUME NEW d \in Callers, d # t PROVE Reports(d)' /\ Confirms(d)'
  BY <1>1, <1>5, <1>8, <1>9, OthersKeep
<1>10. Reports(t)' /\ Confirms(t)'
  <2>1. CASE HumrStores(t)
    <3>1. caller'[t].pc = "stored"
      BY <1>1, <1>3, <2>1 DEF HumrStores, Become, CredInv, Typed, CallersTyped, CallRecord
    <3>2. QED  BY <1>8, <3>1 DEF Reports, Confirms
  <2>2. CASE HumrDeletes(t)
    <3>1. caller'[t].pc = "deleted" /\ caller'[t].dead = grant'[u]
      BY <1>1, <1>2, <1>3, <2>2
         DEF HumrDeletes, CredInv, Typed, CallersTyped, CallRecord
    <3>2. ~Stored(grant'[u])
      <4>1. CASE DeleteCredential(u)
        <5>1. grant'[u] = grant[u] + 1
          BY <4>1 DEF DeleteCredential, CredInv, Typed, DataTyped
        <5>2. QED  BY <1>3, <4>1, <5>1, DeletedNotStored DEF DeleteCredential
      <4>2. CASE ~Stored(grant[u]) /\ UNCHANGED grant
        BY <4>2
      <4>3. QED  BY <1>2, <2>2, <4>1, <4>2 DEF HumrDeletes
    <3>3. \A s \in {u} : grant'[u] <= grant'[s]
      BY <1>6
    <3>4. QED  BY <1>8, <3>1, <3>2, <3>3 DEF Reports, Confirms
  <2>3. QED  BY <2>1, <2>2
<1>11. QED  BY <1>7, <1>9, <1>10 DEF CredInv, CallInv

\* Operations start on one slug, or on all without a change at HUMR.
LEMMA StartOperationKeeps ==
  ASSUME CredInv, Typed', NEW t \in Tasks, StartOperation(t)
  PROVE  CredInv'
<1>1. t \in Callers /\ UNCHANGED <<grant, card, floor, cache>>
  BY DEF StartOperation, Callers
<1>2. PICK op \in Operations, s \in Slugs :
        caller' = [caller EXCEPT ![t] =
          [NoCall EXCEPT !.scope = IF op = "refresh_all" THEN Slugs ELSE {s},
                         !.pc = IF op \in {"connect", "disconnect"} THEN op ELSE "drop"]]
  BY DEF StartOperation
<1> DEFINE rec == [NoCall EXCEPT !.scope = IF op = "refresh_all" THEN Slugs ELSE {s},
                         !.pc = IF op \in {"connect", "disconnect"} THEN op ELSE "drop"]
<1>3. /\ rec.pc \in {"connect", "disconnect", "drop"}
      /\ rec.pc # "drop" => rec.scope = {s}
  BY NoCallTyped DEF CallRecord
<1>4. caller' = [caller EXCEPT ![t] = rec]
  BY <1>2
<1> HIDE DEF rec
<1>5. QED  BY <1>1, <1>3, <1>4, QuietStep

\* The rest of a request and of an operation leaves the store and HUMR alone.
LEMMA QuietActions ==
  ASSUME CredInv, Typed', NEW c \in Callers,
         \/ c \in Requests /\ RequestEnds(c)
         \/ c \in Tasks /\ (PostFails(c) \/ Refresh(c) \/ TakeSnapshot(c)
                            \/ ReadEnvFile(c) \/ OpenTmp(c) \/ WriteTmp(c) \/ PublishTmp(c)
                            \/ TmpIsGone(c) \/ ModelsCacheStuck(c)
                            \/ \E p \in Processes : RestartProcess(c, p) \/ RestartFails(c, p))
  PROVE  CredInv' /\ UNCHANGED <<grant, card, floor, cache>>
<1>1. UNCHANGED <<grant, card, floor, cache>>
  BY DEF RequestEnds, PostFails, Refresh, TakeSnapshot, ReadEnvFile, OpenTmp, WriteTmp,
         PublishTmp, TmpIsGone, ModelsCacheStuck, RestartProcess, RestartFails
<1>2. caller[c] \in CallRecord
  BY Numbers DEF CredInv
<1>3. CASE \/ RequestEnds(c) \/ PostFails(c) \/ Refresh(c)
           \/ ReadEnvFile(c) \/ OpenTmp(c) \/ PublishTmp(c) \/ TmpIsGone(c)
           \/ ModelsCacheStuck(c)
           \/ \E p \in Processes : RestartProcess(c, p) \/ RestartFails(c, p)
  <2>1. PICK pc \in {"evict", "asked", "open", "write", "gateway", "webui"} :
          Ends(c) \/ Become(c, pc)
    BY <1>3 DEF RequestEnds, PostFails, Refresh, ReadEnvFile, OpenTmp, PublishTmp, TmpIsGone,
                ModelsCacheStuck, GivesUp, RestartProcess, RestartFails, RestartEnds
  <2>2. QED  BY <1>1, <2>1, QuietMoves
<1>4. CASE TakeSnapshot(c)
  <2> DEFINE rec == [caller[c] EXCEPT !.pc = "read", !.lines = Rendered]
  <2>1. rec.pc = "read"
    BY <1>2 DEF CallRecord
  <2>2. caller' = [caller EXCEPT ![c] = rec]
    BY <1>2, <1>4 DEF TakeSnapshot, CredInv, Typed, CallersTyped, CallRecord
  <2> HIDE DEF rec
  <2>3. QED  BY <1>1, <2>1, <2>2, QuietStep
<1>5. CASE WriteTmp(c)
  <2> DEFINE rec == [caller[c] EXCEPT !.pc = "publish", !.lines = NoLines]
  <2>1. rec.pc = "publish"
    BY <1>2 DEF CallRecord
  <2>2. caller' = [caller EXCEPT ![c] = rec]
    BY <1>2, <1>5 DEF WriteTmp, CredInv, Typed, CallersTyped, CallRecord
  <2> HIDE DEF rec
  <2>3. QED  BY <1>1, <2>1, <2>2, QuietStep
<1>6. QED  BY <1>3, <1>4, <1>5

\* Bootstrap takes every card and secret from one answer of HUMR.
LEMMA BootstrapKeeps ==
  ASSUME CredInv, Typed', Bootstrap
  PROVE  CredInv' /\ \A s \in Slugs : Stored(card'[s]) => card'[s] >= card[s]
<1>1. PICK told \in SUBSET Slugs \ {{}} :
        /\ card' = [s \in Slugs |-> IF s \in told THEN grant[s] ELSE 0]
        /\ cache' = [s \in Slugs |-> IF s \in told /\ Stored(grant[s])
                                     THEN [gen |-> grant[s], life |-> "fresh"] ELSE NoEntry]
  BY DEF Bootstrap
<1>2. UNCHANGED <<grant, floor>> /\ caller' = [c \in Callers |-> NoCall] /\ ~Stored(0)
  BY DEF Bootstrap, Stored
<1>3. NoCall.pc = "idle"
  BY DEF NoCall
<1>4. ASSUME NEW s \in Slugs
      PROVE  Known(s)' /\ Kept(s)' /\ (Stored(card'[s]) => card'[s] >= card[s])
  <2>1. /\ card[s] <= grant[s] /\ floor[s] <= grant[s] /\ card[s] \in Nat
        /\ floor[s] \in Nat /\ grant[s] \in Nat
    BY Numbers DEF CredInv, StoreInv, Known
  <2>2. /\ card'[s] = IF s \in told THEN grant[s] ELSE 0
        /\ cache'[s] # NoEntry => s \in told /\ Stored(grant[s]) /\ cache'[s].gen = grant[s]
    BY <1>1
  <2>3. QED  BY <1>2, <2>1, <2>2 DEF Known, Kept
<1>5. StoreInv'
  BY <1>4 DEF StoreInv
<1>6. CallInv'
  BY <1>2, <1>3 DEF CallInv, Reports, Confirms
<1>7. QED  BY <1>4, <1>5, <1>6 DEF CredInv

\* Initially cards and secrets are HUMR's, nothing was dropped, no call is under way.
LEMMA InitKept == CredentialInit => CredInv
<1> SUFFICES ASSUME CredentialInit PROVE CredInv
  OBVIOUS
<1>1. Typed
  BY InitTyped
<1>2. NoCall.pc = "idle"
  BY DEF NoCall
<1>3. CallInv
  BY <1>2 DEF CredentialInit, CallInv, Reports, Confirms
<1>4. StoreInv
  <2> SUFFICES ASSUME NEW s \in Slugs PROVE Known(s) /\ Kept(s)
    BY DEF StoreInv
  <2>1. grant[s] \in Nat /\ card[s] = grant[s] /\ floor[s] = 0
    BY <1>1, Numbers DEF CredentialInit
  <2>2. cache[s] # NoEntry => Stored(grant[s]) /\ cache[s].gen = grant[s]
    BY DEF CredentialInit
  <2>3. QED  BY <2>1, <2>2 DEF Known, Kept
<1>5. QED  BY <1>1, <1>3, <1>4 DEF CredInv

\* Every step keeps the invariant, and no step brings an older connection back.
LEMMA StepKeeps ==
  ASSUME CredInv, [CredentialNext]_credentialVars
  PROVE  CredInv' /\ \A s \in Slugs : Stored(card'[s]) => card'[s] >= card[s]
<1>0. Typed'
  BY StepTyped DEF CredInv
<1> DEFINE NotBack == \A s \in Slugs : Stored(card'[s]) => card'[s] >= card[s]
<1> SUFFICES CredInv' /\ NotBack
  OBVIOUS
<1>1. ASSUME UNCHANGED card PROVE NotBack
  BY <1>1, Numbers DEF CredInv
<1> HIDE DEF NotBack
<1>2. CASE HumrChanges \/ \E s \in Slugs : TokenAges(s)
  BY <1>0, <1>1, <1>2, WorldKeeps DEF HumrChanges, TokenAges
<1>3. CASE Bootstrap
  BY <1>0, <1>3, BootstrapKeeps DEF NotBack
<1>4. CASE \E q \in Requests, s \in Slugs : CredentialForSlug(q, s)
  BY <1>0, <1>1, <1>4, CredentialForSlugKeeps DEF CredentialForSlug
<1>5. CASE \E t \in Tasks : StartOperation(t)
  BY <1>0, <1>1, <1>5, StartOperationKeeps DEF StartOperation
<1>6. ASSUME NEW c \in Callers, Progress(c) PROVE CredInv' /\ NotBack
  <2>1. CASE HumrAnswers(c)
    BY <1>0, <1>1, <2>1, HumrAnswersKeeps DEF HumrAnswers
  <2>2. ASSUME c \in Requests, RequestStep(c) PROVE CredInv' /\ NotBack
    <3>1. CASE RequestApplies(c)
      BY <1>0, <2>2, <3>1, RequestAppliesKeeps, AppliedKeeps DEF RequestApplies, NotBack
    <3>2. CASE RequestEnds(c)
      BY <1>0, <1>1, <2>2, <3>2, QuietActions
    <3>3. CASE EvictAfter401(c)
      BY <1>0, <1>1, <2>2, <3>3, EvictKeeps DEF EvictAfter401
    <3>4. QED  BY <2>2, <3>1, <3>2, <3>3 DEF RequestStep
  <2>3. ASSUME c \in Tasks, OperationStep(c) PROVE CredInv' /\ NotBack
    <3>1. CASE HumrStores(c) \/ HumrDeletes(c)
      BY <1>0, <1>1, <2>3, <3>1, HumrWritesKeep DEF HumrStores, HumrDeletes
    <3>2. CASE MarkDisconnected(c)
      BY <1>0, <2>3, <3>2, MarkKeeps DEF NotBack
    <3>3. CASE DropCachedTokens(c)
      BY <1>0, <1>1, <2>3, <3>3, DropKeeps DEF DropCachedTokens
    <3>4. CASE OperationApplies(c)
      BY <1>0, <2>3, <3>4, OperationAppliesKeeps, AppliedKeeps DEF OperationApplies, NotBack
    <3>5. CASE \/ PostFails(c) \/ Refresh(c) \/ TakeSnapshot(c)
               \/ ReadEnvFile(c) \/ OpenTmp(c) \/ WriteTmp(c) \/ PublishTmp(c)
               \/ TmpIsGone(c) \/ ModelsCacheStuck(c)
               \/ \E p \in Processes : RestartProcess(c, p) \/ RestartFails(c, p)
      BY <1>0, <1>1, <2>3, <3>5, QuietActions
    <3>6. QED  BY <2>3, <3>1, <3>2, <3>3, <3>4, <3>5 DEF OperationStep
  <2>4. QED  BY <1>6, <2>1, <2>2, <2>3 DEF Progress
<1>7. CASE UNCHANGED credentialVars
  <2>1. StoreInv' /\ CallInv'
    BY <1>7 DEF credentialVars, CredInv, StoreInv, CallInv, Known, Kept, Reports, Confirms
  <2>2. QED  BY <1>0, <1>1, <1>7, <2>1 DEF credentialVars, CredInv
<1>8. QED  BY <1>2, <1>3, <1>4, <1>5, <1>6, <1>7 DEF CredentialNext

\* The invariant always holds.
LEMMA CredAlways == CredentialSpec => []CredInv
<1>1. CredInv /\ [CredentialNext]_credentialVars => CredInv'
  BY StepKeeps
<1>2. QED  BY InitKept, <1>1, PTL DEF CredentialSpec

\* However refreshes, drops, disconnects and bootstraps interleave, the cache never
\* holds a secret older than the last drop of its slug.
THEOREM DroppedSecretsStayDropped == CredentialSpec => []NoDroppedSecretReturns
BY CredAlways, InvSuffices, PTL

\* A cached secret and the card that describes it are of the same generation.
THEOREM CardDescribesSecret == CredentialSpec => []SecretMatchesCard
BY CredAlways, InvSuffices, PTL

\* No step shows a connection older than the one the card had.
THEOREM ConnectionsNeverReturn == CredentialSpec => NoOldConnectionReturns
<1>1. CredInv /\ [CredentialNext]_credentialVars =>
        [\A s \in Slugs : Stored(card'[s]) => card'[s] >= card[s]]_credentialVars
  BY StepKeeps
<1>2. QED  BY CredAlways, <1>1, PTL DEF CredentialSpec, NoOldConnectionReturns

-----------------------------------------------------------------------------
(* Outages: a request that found a usable secret still has it when the     *)
(* answer comes, because nobody drops it while the request holds the lock. *)

Held(q) ==
  /\ Locking(q) /\ caller[q].usable => \A s \in caller[q].scope : cache[s] # NoEntry
  /\ caller[q].pc = "refused" /\ caller[q].usable =>
       \E s \in caller[q].scope : caller[q].reply[s] # Transient

HeldInv == Typed /\ \A q \in Requests : Held(q)

\* A step of one call keeps what the other requests hold: it has the lock, or finds it
\* free, or forgets nothing.
LEMMA HeldByOthers ==
  ASSUME HeldInv, NEW c, NEW q \in Requests, q # c, caller'[q] = caller[q],
         \/ LockFree
         \/ c \in Callers /\ Locking(c)
         \/ \A s \in Slugs : cache[s] # NoEntry => cache'[s] # NoEntry
  PROVE  Held(q)'
<1>1. q \in Callers /\ Held(q) /\ caller[q].scope \subseteq Slugs
  BY Numbers DEF HeldInv, Callers
<1>2. LockFree \/ (c \in Callers /\ Locking(c)) => ~Locking(q)
  BY <1>1, CredentialAssumption DEF HeldInv, Typed, CallersTyped, LockFree
<1>3. QED  BY <1>1, <1>2 DEF Held, Locking

\* A request starts with a secret it found usable still in the cache.
LEMMA StartHolds ==
  ASSUME HeldInv, NEW q \in Requests, NEW s \in Slugs, CredentialForSlug(q, s)
  PROVE  Held(q)'
<1>1. q \in Callers /\ NoCall \in CallRecord
  BY NoCallTyped DEF Callers
<1>2. CASE cache[s].life = "fresh"
  <2>1. caller'[q].pc = "served"
    BY <1>1, <1>2 DEF CredentialForSlug, HeldInv, Typed, CallersTyped, CallRecord
  <2>2. QED  BY <2>1 DEF Held, Locking
<1>3. CASE cache[s].life # "fresh"
  <2> DEFINE rec == [NoCall EXCEPT !.scope = {s}, !.pc = "asked", !.usable = Usable(s)]
  <2>1. caller'[q] = rec
    BY <1>1, <1>3 DEF CredentialForSlug, HeldInv, Typed, CallersTyped
  <2>2. \A b \in BOOLEAN :
          /\ [NoCall EXCEPT !.scope = {s}, !.pc = "asked", !.usable = b].pc = "asked"
          /\ [NoCall EXCEPT !.scope = {s}, !.pc = "asked", !.usable = b].scope = {s}
          /\ [NoCall EXCEPT !.scope = {s}, !.pc = "asked", !.usable = b].usable = b
    BY <1>1 DEF CallRecord
  <2>3. Usable(s) \in BOOLEAN
    BY DEF Usable
  <2>4. rec.pc = "asked" /\ rec.scope = {s} /\ rec.usable = Usable(s)
    BY <2>2, <2>3, Zenon
  <2>5. Usable(s) => cache'[s] # NoEntry
    BY DEF CredentialForSlug, Pruned, Usable, NoEntry
  <2> HIDE DEF rec
  <2>6. caller'[q].usable => cache'[s] # NoEntry
    <3>1. caller'[q].usable = Usable(s)
      BY <2>1, <2>4
    <3>2. QED  BY <2>5, <3>1, Zenon
  <2>7. caller'[q].pc = "asked" /\ caller'[q].scope = {s}
    BY <2>1, <2>4
  <2>8. QED  BY <2>6, <2>7 DEF Held
<1>4. QED  BY <1>2, <1>3

\* A request is refused only when its answer said that there is no credential.
LEMMA RefusalHolds ==
  ASSUME HeldInv, NEW q \in Requests, RequestApplies(q)
  PROVE  Held(q)'
<1>1. q \in Callers /\ Held(q) /\ caller[q] \in CallRecord /\ caller[q].pc = "answered"
  BY Numbers DEF HeldInv, Callers, RequestApplies
<1>2. PICK s \in caller[q].scope :
        Become(q, IF cache'[s] = NoEntry THEN "refused" ELSE "served")
  BY DEF RequestApplies
<1>3. /\ caller'[q].pc = IF cache'[s] = NoEntry THEN "refused" ELSE "served"
      /\ caller'[q].scope = caller[q].scope /\ caller'[q].reply = caller[q].reply
      /\ caller'[q].usable = caller[q].usable
  BY <1>1, <1>2 DEF Become, HeldInv, Typed, CallersTyped, CallRecord
<1>4. caller[q].usable /\ cache'[s] = NoEntry => caller[q].reply[s] # Transient
  <2>1. caller[q].usable => cache[s] # NoEntry
    BY <1>1 DEF Held, Locking
  <2>2. caller[q].reply[s] = Transient => cache'[s] = cache[s]
    BY <1>1 DEF RequestApplies, Applied, CallRecord
  <2>3. QED  BY <2>1, <2>2
<1>5. QED  BY <1>3, <1>4 DEF Held, Locking

\* HUMR's answer leaves the cache alone.
LEMMA AnswerHolds ==
  ASSUME HeldInv, NEW q \in Requests, HumrAnswers(q)
  PROVE  Held(q)'
<1>1. q \in Callers /\ Held(q) /\ caller[q] \in CallRecord /\ Locking(q)
  BY Numbers DEF HeldInv, Callers, HumrAnswers, Locking
<1>2. /\ caller'[q].pc = "answered" /\ caller'[q].scope = caller[q].scope
      /\ caller'[q].usable = caller[q].usable /\ UNCHANGED cache
  BY <1>1 DEF HumrAnswers, HeldInv, Typed, CallersTyped, CallRecord
<1>3. QED  BY <1>1, <1>2 DEF Held

\* Every step keeps it.
LEMMA StepHolds == ASSUME HeldInv, [CredentialNext]_credentialVars PROVE HeldInv'
<1>0. Typed'
  BY StepTyped DEF HeldInv
<1> SUFFICES ASSUME NEW q \in Requests PROVE Held(q)'
  BY <1>0 DEF HeldInv
<1>1. q \in Callers /\ Held(q)
  BY DEF HeldInv, Callers
<1>2. CASE HumrChanges \/ UNCHANGED credentialVars
  BY <1>1, <1>2 DEF HumrChanges, credentialVars, Held, Locking
<1>3. ASSUME NEW s \in Slugs, TokenAges(s) PROVE Held(q)'
  <2>1. UNCHANGED caller /\ q # Nobody
    BY <1>1, <1>3, CredentialAssumption DEF TokenAges
  <2>2. \A u \in Slugs : cache[u] # NoEntry => cache'[u] # NoEntry
    <3>1. cache'[s].life \in {"near", "expired"}
      BY <1>3, Numbers DEF TokenAges, HeldInv, Typed, DataTyped, CacheEntry
    <3>2. \A u \in Slugs : u # s => cache'[u] = cache[u]
      BY <1>3 DEF TokenAges, HeldInv, Typed, DataTyped
    <3>3. QED  BY <3>1, <3>2 DEF NoEntry
  <2>3. QED  BY <2>1, <2>2, HeldByOthers
<1>4. CASE Bootstrap
  <2>1. caller'[q].pc = "idle"
    BY <1>1, <1>4 DEF Bootstrap, NoCall
  <2>2. QED  BY <2>1 DEF Held, Locking
<1>5. ASSUME NEW r \in Requests, NEW s \in Slugs, CredentialForSlug(r, s) PROVE Held(q)'
  <2>1. CASE r = q
    BY <1>5, <2>1, StartHolds
  <2>2. CASE r # q
    <3>1. LockFree /\ caller'[q] = caller[q]
      BY <1>1, <1>5, <2>2 DEF CredentialForSlug, HeldInv, Typed, CallersTyped
    <3>2. QED  BY <2>2, <3>1, HeldByOthers
  <2>3. QED  BY <2>1, <2>2
<1>6. ASSUME NEW t \in Tasks, StartOperation(t) PROVE Held(q)'
  <2>1. t # q /\ UNCHANGED cache
    BY <1>6, CredentialAssumption DEF StartOperation
  <2>2. caller'[q] = caller[q]
    BY <1>1, <1>6, <2>1 DEF StartOperation, HeldInv, Typed, CallersTyped
  <2>3. QED  BY <2>1, <2>2, HeldByOthers
<1>7. ASSUME NEW c \in Callers, Progress(c) PROVE Held(q)'
  <2>1. CASE c # q
    <3>1. caller'[q] = caller[q]
      BY <1>1, <1>7, <2>1
         DEF Progress, RequestStep, OperationStep, HumrAnswers, RequestApplies, RequestEnds,
             EvictAfter401, HumrStores, HumrDeletes, PostFails, MarkDisconnected, Marked,
             DropCachedTokens, Refresh, OperationApplies, TakeSnapshot, ReadEnvFile, OpenTmp,
             WriteTmp, PublishTmp, TmpIsGone, ModelsCacheStuck, GivesUp, RestartProcess, RestartFails, RestartEnds, Become, Ends,
             HeldInv, Typed, CallersTyped
    <3>2. LockFree \/ Locking(c) \/ UNCHANGED cache
      BY <1>7
         DEF Progress, RequestStep, OperationStep, HumrAnswers, RequestApplies, RequestEnds,
             EvictAfter401, HumrStores, HumrDeletes, PostFails, MarkDisconnected, Marked,
             DropCachedTokens, Refresh, OperationApplies, TakeSnapshot, ReadEnvFile, OpenTmp,
             WriteTmp, PublishTmp, TmpIsGone, ModelsCacheStuck, RestartProcess, RestartFails, Locking
    <3>3. QED  BY <2>1, <3>1, <3>2, HeldByOthers
  <2>2. CASE c = q
    <3>1. c \notin Tasks
      BY <2>2, CredentialAssumption
    <3>2. CASE HumrAnswers(q)
      BY <3>2, AnswerHolds
    <3>3. CASE RequestApplies(q)
      BY <3>3, RefusalHolds
    <3>4. CASE RequestEnds(q) \/ EvictAfter401(q)
      <4>1. caller'[q].pc \in {"idle", "evict"}
        BY <1>1, <3>4, Numbers
           DEF RequestEnds, EvictAfter401, Ends, Become, NoCall, HeldInv, Typed,
               CallersTyped, CallRecord
      <4>2. QED  BY <4>1 DEF Held, Locking
    <3>5. QED  BY <1>7, <2>2, <3>1, <3>2, <3>3, <3>4 DEF Progress, RequestStep
  <2>3. QED  BY <2>1, <2>2
<1>8. QED  BY <1>2, <1>3, <1>4, <1>5, <1>6, <1>7 DEF CredentialNext

\* A failed refresh never makes a request with a usable secret look disconnected.
THEOREM OutagesRefuseNobody == CredentialSpec => []OutageRefusesNobody
<1>1. CredentialInit => HeldInv
  <2>1. NoCall.pc = "idle"
    BY DEF NoCall
  <2>2. QED  BY <2>1, InitTyped DEF CredentialInit, HeldInv, Held, Locking, Callers
<1>2. HeldInv /\ [CredentialNext]_credentialVars => HeldInv'
  BY StepHolds
<1>3. HeldInv => OutageRefusesNobody
  BY DEF HeldInv, Held, OutageRefusesNobody
<1>4. QED  BY <1>1, <1>2, <1>3, PTL DEF CredentialSpec

\* The store of the broker is sound under every interleaving of requests and
\* operations: what the user dropped stays dropped, a card shows the secret it has,
\* and an outage refuses nobody.
THEOREM CredentialsStaySound == CredentialSpec => []CredentialsAreSound
BY CredentialTypeCorrect, DroppedSecretsStayDropped, CardDescribesSecret, OutagesRefuseNobody, PTL
   DEF CredentialsAreSound

-----------------------------------------------------------------------------
(* The env file and the processes that run with its lines. *)

\* An operation that will still restart the process, or give it up.
Pending(t, p) ==
  /\ InScope(t, p)
  /\ caller[t].pc \in {"publish", "gateway"} \/ (p = "webui" /\ caller[t].pc = "webui")

\* A process that does not run with the file has an operation about to restart it, or
\* one failed to, or the operation that changed the file was to leave it alone.
Accounted(p) == running[p] = file \/ p \in missed \cup spared \/ \E t \in Tasks : Pending(t, p)

RunInv == Typed /\ \A p \in Processes : Accounted(p)

\* A step that leaves file and processes alone, and no operation's restarts behind.
LEMMA CallersMove ==
  ASSUME RunInv, Typed', UNCHANGED <<file, running>>, missed \subseteq missed', spared' = spared,
         \A t \in Tasks, p \in Processes : Pending(t, p) => Pending(t, p)' \/ p \in missed'
  PROVE  RunInv'
BY DEF RunInv, Accounted

\* A caller that moves outside the restarts.
LEMMA CallerMoves ==
  ASSUME RunInv, Typed', UNCHANGED <<file, restartVars>>, NEW c \in Callers,
         \A d \in Callers \ {c} : caller'[d] = caller[d],
         c \in Tasks => caller[c].pc \notin {"publish", "gateway", "webui"}
  PROVE  RunInv'
<1>1. \A t \in Tasks, p \in Processes : Pending(t, p) => Pending(t, p)'
  BY DEF Pending, InScope, Callers
<1>2. QED  BY <1>1, CallersMove

\* A step of one caller leaves the others' records alone.
LEMMA OthersStay ==
  ASSUME Typed, NEW c \in Callers, NEW d \in Callers \ {c},
         \/ \E s \in Slugs : CredentialForSlug(c, s)
         \/ StartOperation(c) \/ Progress(c)
  PROVE  caller'[d] = caller[d]
BY DEF Progress, RequestStep, OperationStep, HumrAnswers, RequestApplies, RequestEnds,
       EvictAfter401, HumrStores, HumrDeletes, PostFails, MarkDisconnected, Marked,
       DropCachedTokens, Refresh, OperationApplies, TakeSnapshot, ReadEnvFile, OpenTmp,
       WriteTmp, PublishTmp, TmpIsGone, ModelsCacheStuck, GivesUp, RestartProcess,
       RestartFails, RestartEnds, Become, Ends, CredentialForSlug, StartOperation,
       Typed, CallersTyped

\* The requests of the proxy touch neither file nor processes.
LEMMA RequestsRun ==
  ASSUME RunInv, Typed', NEW q \in Requests,
         (\E s \in Slugs : CredentialForSlug(q, s)) \/ HumrAnswers(q) \/ RequestStep(q)
  PROVE  RunInv'
<1>1. q \in Callers /\ q \notin Tasks
  BY CredentialAssumption DEF Callers
<1>2. UNCHANGED <<file, restartVars>>
  BY DEF CredentialForSlug, HumrAnswers, RequestStep, RequestApplies, RequestEnds, EvictAfter401
<1>3. \A d \in Callers \ {q} : caller'[d] = caller[d]
  BY <1>1, OthersStay DEF RunInv, Progress
<1>4. QED  BY <1>1, <1>2, <1>3, CallerMoves

\* The operations' steps before they write.
LEMMA OperationsRun ==
  ASSUME RunInv, Typed', NEW t \in Tasks,
         \/ StartOperation(t) \/ HumrAnswers(t) \/ HumrStores(t) \/ HumrDeletes(t) \/ PostFails(t)
         \/ MarkDisconnected(t) \/ DropCachedTokens(t) \/ Refresh(t) \/ OperationApplies(t)
         \/ TakeSnapshot(t) \/ ReadEnvFile(t) \/ OpenTmp(t)
  PROVE  RunInv'
<1>1. t \in Callers
  BY DEF Callers
<1>2. UNCHANGED <<file, restartVars>> /\ caller[t].pc \notin {"publish", "gateway", "webui"}
  BY DEF StartOperation, HumrAnswers, HumrStores, HumrDeletes, PostFails, MarkDisconnected, Marked,
     DropCachedTokens, Refresh, OperationApplies, TakeSnapshot, ReadEnvFile, OpenTmp
<1>3. \A d \in Callers \ {t} : caller'[d] = caller[d]
  <2>1. StartOperation(t) \/ Progress(t)
    BY DEF Progress, OperationStep
  <2>2. QED  BY <1>1, <2>1, OthersStay DEF RunInv
<1>4. QED  BY <1>1, <1>2, <1>3, CallerMoves

\* An operation's lines reach a file that is published already, or a .env.tmp; it has
\* its restarts before it.
LEMMA LinesWritten == ASSUME RunInv, Typed', NEW t \in Tasks, WriteTmp(t) PROVE RunInv'
<1>1. t \in Callers /\ caller[t] \in CallRecord /\ caller[t].pc = "write"
  BY DEF WriteTmp, Callers, RunInv, Typed, CallersTyped
<1>2. \A d \in Callers \ {t} : caller'[d] = caller[d]
  BY <1>1, OthersStay DEF RunInv, Progress, OperationStep
<1>3. caller'[t].pc = "publish" /\ caller'[t].scope = caller[t].scope
  BY <1>1 DEF WriteTmp, RunInv, Typed, CallersTyped, CallRecord
<1>4. \A u \in Tasks, p \in Processes : Pending(u, p) => Pending(u, p)'
  BY <1>1, <1>2 DEF Pending, InScope, Callers
<1>5. running' = running /\ missed' = missed /\ (UNCHANGED <<file, spared>> \/ Spares(t))
  BY DEF WriteTmp
<1>6. ASSUME NEW p \in Processes PROVE Accounted(p)'
  <2>1. Accounted(p)
    BY DEF RunInv
  <2>2. CASE file' = file
    BY <1>4, <1>5, <2>1, <2>2 DEF Accounted, Spares
  <2>3. CASE file' # file
    <3>1. CASE InScope(t, p)
      BY <1>3, <3>1 DEF Accounted, Pending, InScope
    <3>2. CASE ~InScope(t, p)
      BY <1>5, <2>3, <3>2 DEF Accounted, Spares
    <3>3. QED  BY <3>1, <3>2
  <2>4. QED  BY <2>2, <2>3
<1>7. QED  BY <1>6 DEF RunInv

\* The file is replaced, and the operation has its restarts before it.
LEMMA FilePublished == ASSUME RunInv, Typed', NEW t \in Tasks, PublishTmp(t) PROVE RunInv'
<1>1. t \in Callers /\ caller[t] \in CallRecord /\ caller[t].pc = "publish"
  BY DEF PublishTmp, Callers, RunInv, Typed, CallersTyped
<1>2. \A d \in Callers \ {t} : caller'[d] = caller[d]
  BY <1>1, OthersStay DEF RunInv, Progress, OperationStep
<1>3. caller'[t].pc = "gateway" /\ caller'[t].scope = caller[t].scope
  BY <1>1 DEF PublishTmp, Become, RunInv, Typed, CallersTyped, CallRecord
<1>4. \A u \in Tasks, p \in Processes : Pending(u, p) => Pending(u, p)'
  <2> SUFFICES ASSUME NEW u \in Tasks, NEW p \in Processes, Pending(u, p) PROVE Pending(u, p)'
    OBVIOUS
  <2>1. CASE u = t
    BY <1>3, <2>1 DEF Pending, InScope
  <2>2. CASE u # t
    BY <1>2, <2>2 DEF Pending, InScope, Callers
  <2>3. QED  BY <2>1, <2>2
<1>5. running' = running /\ missed' = missed /\ Spares(t)
  BY DEF PublishTmp
<1>6. ASSUME NEW p \in Processes PROVE Accounted(p)'
  <2>1. Accounted(p)
    BY DEF RunInv
  <2>2. CASE file' = file
    BY <1>4, <1>5, <2>1, <2>2 DEF Accounted, Spares
  <2>3. CASE file' # file
    <3>1. CASE InScope(t, p)
      BY <1>3, <3>1 DEF Accounted, Pending, InScope
    <3>2. CASE ~InScope(t, p)
      BY <1>5, <2>3, <3>2 DEF Accounted, Spares
    <3>3. QED  BY <3>1, <3>2
  <2>4. QED  BY <2>2, <2>3
<1>7. QED  BY <1>6 DEF RunInv

\* An operation that fails leaves its processes accounted for.
LEMMA OperationFails ==
  ASSUME RunInv, Typed', NEW t \in Tasks,
         \/ TmpIsGone(t) \/ ModelsCacheStuck(t)
         \/ \E p \in Processes : RestartFails(t, p)
  PROVE  RunInv'
<1>1. t \in Callers
  BY DEF Callers
<1>2. \A d \in Callers \ {t} : caller'[d] = caller[d]
  BY <1>1, OthersStay DEF RunInv, Progress, OperationStep
<1>3. UNCHANGED <<file, running, spared>> /\ missed \subseteq missed'
  BY DEF TmpIsGone, ModelsCacheStuck, RestartFails, GivesUp
<1>4. ASSUME NEW q \in Processes, Pending(t, q) PROVE q \in missed'
  <2>1. CASE TmpIsGone(t) \/ ModelsCacheStuck(t)
    BY <1>4, <2>1 DEF TmpIsGone, ModelsCacheStuck, GivesUp, Pending
  <2>2. ASSUME NEW p \in Processes, RestartFails(t, p) PROVE q \in missed'
    BY <1>4, <2>2 DEF RestartFails, GivesUp, Pending, Processes
  <2>3. QED  BY <2>1, <2>2
<1>5. \A u \in Tasks, p \in Processes : Pending(u, p) => Pending(u, p)' \/ p \in missed'
  BY <1>2, <1>4 DEF Pending, InScope, Callers
<1>6. QED  BY <1>3, <1>5, CallersMove

\* A restart brings one process up to date.
LEMMA ProcessRestarts ==
  ASSUME RunInv, Typed', NEW t \in Tasks, NEW p \in Processes, RestartProcess(t, p)
  PROVE  RunInv'
<1>1. t \in Callers /\ caller[t] \in CallRecord /\ caller[t].pc = p
  BY DEF RestartProcess, Callers, RunInv, Typed, CallersTyped
<1>2. \A d \in Callers \ {t} : caller'[d] = caller[d]
  BY <1>1, OthersStay DEF RunInv, Progress, OperationStep
<1>3. p = "gateway" => caller'[t].pc = "webui" /\ caller'[t].scope = caller[t].scope
  BY <1>1 DEF RestartProcess, RestartEnds, Become, RunInv, Typed, CallersTyped, CallRecord
<1>4. \A u \in Tasks, q \in Processes : Pending(u, q) => Pending(u, q)' \/ q = p
  <2> SUFFICES ASSUME NEW u \in Tasks, NEW q \in Processes, Pending(u, q), q # p
               PROVE  Pending(u, q)'
    OBVIOUS
  <2>1. CASE u = t
    BY <1>1, <1>3, <2>1 DEF Pending, InScope, Processes
  <2>2. CASE u # t
    BY <1>2, <2>2 DEF Pending, InScope, Callers
  <2>3. QED  BY <2>1, <2>2
<1>5. file' = file /\ running \in [Processes -> Lines]
  BY DEF RestartProcess, RunInv, Typed, DataTyped
<1>6. CASE InScope(t, p)
  <2>1. /\ running' = [running EXCEPT ![p] = file]
        /\ missed' = missed \ {p} /\ spared' = spared \ {p}
    BY <1>6 DEF RestartProcess
  <2>2. ASSUME NEW q \in Processes PROVE Accounted(q)'
    <3>1. CASE q = p
      BY <1>5, <2>1, <3>1 DEF Accounted
    <3>2. CASE q # p
      <4>1. Accounted(q)
        BY DEF RunInv
      <4>2. QED  BY <1>4, <1>5, <2>1, <3>2, <4>1 DEF Accounted
    <3>3. QED  BY <3>1, <3>2
  <2>3. QED  BY <2>2 DEF RunInv
<1>7. CASE ~InScope(t, p)
  <2>1. UNCHANGED restartVars
    BY <1>7 DEF RestartProcess
  <2>2. ~Pending(t, p)
    BY <1>7 DEF Pending
  <2>3. \A u \in Tasks, q \in Processes : Pending(u, q) => Pending(u, q)'
    <3>1. \A u \in Tasks \ {t} : Pending(u, p) => Pending(u, p)'
      BY <1>2 DEF Pending, InScope, Callers
    <3>2. QED  BY <1>4, <2>2, <3>1
  <2>4. QED  BY <1>5, <2>1, <2>3, CallersMove
<1>8. QED  BY <1>6, <1>7

\* Every step keeps the invariant.
LEMMA RunStep == ASSUME RunInv, [CredentialNext]_credentialVars PROVE RunInv'
<1>1. Typed'
  BY StepTyped DEF RunInv
<1>2. ASSUME UNCHANGED <<file, restartVars, caller>> PROVE RunInv'
  BY <1>1, <1>2 DEF RunInv, Accounted, Pending, InScope
<1>3. CASE HumrChanges \/ (\E s \in Slugs : TokenAges(s)) \/ UNCHANGED credentialVars
  BY <1>2, <1>3 DEF HumrChanges, TokenAges, credentialVars
<1>4. CASE Bootstrap
  BY <1>1, <1>4 DEF Bootstrap, RunInv, Accounted
<1>5. ASSUME NEW q \in Requests, (\E s \in Slugs : CredentialForSlug(q, s)) \/ Progress(q) PROVE RunInv'
  <2>1. q \notin Tasks
    BY <1>5, CredentialAssumption
  <2>2. QED  BY <1>1, <1>5, <2>1, RequestsRun DEF Progress
<1>6. ASSUME NEW t \in Tasks, StartOperation(t) \/ Progress(t) PROVE RunInv'
  <2>1. t \notin Requests
    BY <1>6, CredentialAssumption
  <2>2. CASE WriteTmp(t) \/ PublishTmp(t)
    BY <1>1, <2>2, LinesWritten, FilePublished
  <2>3. CASE TmpIsGone(t) \/ ModelsCacheStuck(t) \/ \E p \in Processes : RestartFails(t, p)
    BY <1>1, <2>3, OperationFails
  <2>4. CASE \E p \in Processes : RestartProcess(t, p)
    BY <1>1, <2>4, ProcessRestarts
  <2>5. QED
    BY <1>1, <1>6, <2>1, <2>2, <2>3, <2>4, OperationsRun DEF Progress, OperationStep
<1>7. QED  BY <1>3, <1>4, <1>5, <1>6 DEF CredentialNext, Callers

\* When no operation is under way, every process runs with the whole file, unless an
\* operation failed to restart it or the one that changed the file was to leave it
\* alone, for any catalogue, however many operations shared the .env.tmp and in
\* whatever order they wrote it and published it (_write_gateway_env_file).
THEOREM ProcessesStayInStep == CredentialSpec => []ProcessesRunTheFile
<1>1. CredentialInit => RunInv
  BY InitTyped DEF CredentialInit, RunInv, Accounted
<1>2. RunInv /\ [CredentialNext]_credentialVars => RunInv'
  BY RunStep
<1>3. RunInv => ProcessesRunTheFile
  BY DEF RunInv, Accounted, Pending, ProcessesRunTheFile
<1>4. QED  BY <1>1, <1>2, <1>3, PTL DEF CredentialSpec

-----------------------------------------------------------------------------
(* DcrOAuth: the sign-ins of the gateway.                                  *)

\* The client that is held is registered for its redirect.
ClientIsRegistered ==
  client.id # 0 => regs[client.id] = client.redirect

\* A flow has no client and no code before its browser is sent away.
FreshFlows ==
  \A f \in Flows : flow[f].pc \in {"none", "meta", "register"} =>
      flow[f].cid = 0 /\ ~flow[f].coded /\ uses[f] = 0 /\ f \notin pending

\* The state is taken before the code is sent.
OneUse ==
  \A f \in Flows :
      /\ uses[f] \in 0..1
      /\ uses[f] = 1 => flow[f].pc \in {"post", "answer", "done", "failed"} /\ f \notin pending
      /\ flow[f].pc = "callback" => f \notin pending

\* What the provider issued, it issued to flows with a consent.
IssuedToConsent == \A i \in 1..Len(issued) : flow[issued[i].flow].coded

\* ... and a flow has its consent from the callback on.
CodedFlows ==
  /\ \A f \in Flows : flow[f].pc \in {"code", "callback", "post", "answer", "done"} => flow[f].coded
  /\ \A f \in Flows : flow[f].coded \/ flow[f].pc = "browser" => flow[f].cid # 0

\* After a disconnect the client of an earlier flow is never held again: a code
\* that was not yet sent is sent as another client, and refused.
CutFlows ==
  \A f \in cut :
      /\ flow[f].coded /\ client.id # flow[f].cid
      /\ flow[f].pc = "post" /\ ~flow[f].overtaken => flow[f].sentAs.id # flow[f].cid
      /\ flow[f].pc = "answer" => flow[f].overtaken

\* A refresh is about the credential that was held when it was sent.
TokenIsIssued ==
  /\ token.rt # 0 => issued[token.rt].flow = token.flow
  /\ token.flow # 0 => flow[token.flow].coded /\ (token.flow \notin cut \/ late)

Traces(r) ==
  /\ refresh[r].pc = "post" /\ refresh[r].rt # 0 =>
         issued[refresh[r].rt].flow \notin cut \/ late \/ refresh[r].overtaken
  /\ refresh[r].pc = "answer" =>
         /\ refresh[r].of \in Flows /\ flow[refresh[r].of].coded
         /\ refresh[r].of \notin cut \/ late \/ refresh[r].overtaken
         /\ refresh[r].new # 0 => issued[refresh[r].new].flow = refresh[r].of

RefreshesTrace == \A r \in Refreshers : Traces(r)

\* The answers on their way: refresh tokens nobody holds or has sent, each of its
\* own, which the provider accepts.
FlowAnswer(f) == flow[f].pc = "answer"
NewAnswer(r) == refresh[r].pc = "answer" /\ refresh[r].new # 0

Unsent(rt) ==
  /\ rt \in live
  /\ rt # token.rt
  /\ \A q \in Refreshers : refresh[q].rt # rt

AnswersApart ==
  /\ \A f \in Flows : FlowAnswer(f) => Unsent(flow[f].rt) /\ issued[flow[f].rt].flow = f
  /\ \A r \in Refreshers : NewAnswer(r) => Unsent(refresh[r].new)
  /\ \A f, g \in Flows : FlowAnswer(f) /\ FlowAnswer(g) /\ flow[f].rt = flow[g].rt => f = g
  /\ \A q, r \in Refreshers : NewAnswer(q) /\ NewAnswer(r) /\ refresh[q].new = refresh[r].new => q = r
  /\ \A f \in Flows, r \in Refreshers : FlowAnswer(f) /\ NewAnswer(r) => flow[f].rt # refresh[r].new

DcrIInv ==
  /\ DcrTypeOK /\ DiskIsMemory
  /\ ClientIsRegistered /\ NobodyIsSentAstray /\ FreshFlows /\ OneUse
  /\ IssuedToConsent /\ CodedFlows /\ CutFlows /\ TokenIsIssued /\ RefreshesTrace
  /\ AnswersApart /\ HeldGrantLives

-----------------------------------------------------------------------------
(* What each step does to the flow or the refresh it is about.             *)

OtherFlows(f) == \A g \in Flows \ {f} : flow'[g] = flow[g]
OtherRefreshes(r) == \A q \in Refreshers \ {r} : refresh'[q] = refresh[q]

\* The fields of a flow that its step leaves alone.
SameAddress(f) == flow'[f].origin = flow[f].origin
SameClient(f) == flow'[f].cid = flow[f].cid /\ flow'[f].coded = flow[f].coded
SameCode(f) == flow'[f].sentAs = flow[f].sentAs /\ flow'[f].overtaken = flow[f].overtaken
SameAnswer(f) == flow'[f].rt = flow[f].rt

SameHeld == UNCHANGED <<client, token, disk>>
SameProvider == UNCHANGED <<regs, live, issued, spent>>

LEMMA FlowStep ==
  ASSUME DcrTypeOK, NEW f \in Flows, NEW v \in SignIn, flow' = [flow EXCEPT ![f] = v]
  PROVE  flow' \in [Flows -> SignIn] /\ flow'[f] = v /\ OtherFlows(f)
BY DEF DcrTypeOK, OtherFlows

LEMMA RefreshStep ==
  ASSUME DcrTypeOK, NEW r \in Refreshers, NEW v \in Renewal, refresh' = [refresh EXCEPT ![r] = v]
  PROVE  refresh' \in [Refreshers -> Renewal] /\ refresh'[r] = v /\ OtherRefreshes(r)
BY DEF DcrTypeOK, OtherRefreshes

\* Only the pc moves.
PcMoves(f, pc) == flow' = [flow EXCEPT ![f].pc = pc]

LEMMA PcStep ==
  ASSUME DcrTypeOK, NEW f \in Flows, NEW pc \in FlowPc, PcMoves(f, pc)
  PROVE  /\ flow' \in [Flows -> SignIn] /\ OtherFlows(f) /\ flow'[f].pc = pc
         /\ SameAddress(f) /\ SameClient(f) /\ SameCode(f) /\ SameAnswer(f)
<1>1. flow[f] \in SignIn
  BY DEF DcrTypeOK
<1>2. [flow[f] EXCEPT !.pc = pc] \in SignIn
  BY <1>1 DEF SignIn
<1>3. flow' = [flow EXCEPT ![f] = [flow[f] EXCEPT !.pc = pc]]
  BY DEF PcMoves, DcrTypeOK
<1>4. flow' \in [Flows -> SignIn] /\ flow'[f] = [flow[f] EXCEPT !.pc = pc] /\ OtherFlows(f)
  BY <1>2, <1>3, FlowStep
<1> QED BY <1>1, <1>4 DEF SignIn, SameAddress, SameClient, SameCode, SameAnswer

LEMMA StartStep ==
  ASSUME DcrTypeOK, NEW f \in Flows, NEW o \in Origins, Start(f, o)
  PROVE  /\ flow' \in [Flows -> SignIn] /\ OtherFlows(f)
         /\ flow[f].pc = "none" /\ flow'[f].pc = "meta"
         /\ flow'[f].origin = o /\ SameClient(f) /\ SameCode(f) /\ SameAnswer(f)
         /\ SameHeld /\ SameProvider /\ UNCHANGED <<pending, refresh, ghosts, bounds>>
<1>1. flow[f] \in SignIn
  BY DEF DcrTypeOK
<1>2. [flow[f] EXCEPT !.pc = "meta", !.origin = o] \in SignIn
  BY <1>1 DEF SignIn, FlowPc
<1>3. flow' = [flow EXCEPT ![f] = [flow[f] EXCEPT !.pc = "meta", !.origin = o]]
  BY DEF Start, DcrTypeOK
<1>4. /\ flow' \in [Flows -> SignIn] /\ OtherFlows(f)
      /\ flow'[f] = [flow[f] EXCEPT !.pc = "meta", !.origin = o]
  BY <1>2, <1>3, FlowStep
<1>5. flow'[f].pc = "meta" /\ flow'[f].origin = o /\ SameClient(f) /\ SameCode(f) /\ SameAnswer(f)
  BY <1>1, <1>4 DEF SignIn, SameClient, SameCode, SameAnswer
<1> QED BY <1>4, <1>5 DEF Start, provider, SameHeld, SameProvider

\* The browser is sent away as a client registered for its address.
LEMMA SendAwayStep ==
  ASSUME DcrTypeOK, NEW f \in Flows, NEW c \in Client, SendAway(f, c)
  PROVE  /\ OtherFlows(f) /\ pending' = pending \cup {f}
         /\ flow'[f].pc = "browser" /\ flow'[f].cid = c.id
         /\ flow' = [flow EXCEPT ![f] = flow'[f]] /\ flow'[f] \in SignIn
         /\ SameAddress(f) /\ flow'[f].coded = flow[f].coded /\ SameCode(f) /\ SameAnswer(f)
<1>1. flow[f] \in SignIn
  BY DEF DcrTypeOK
<1> DEFINE v == [flow[f] EXCEPT !.pc = "browser", !.cid = c.id, !.redirect = c.redirect]
<1>2. v \in SignIn
  BY <1>1 DEF SignIn, FlowPc, Client
<1>3. flow' = [flow EXCEPT ![f] = v]
  BY DEF SendAway, DcrTypeOK
<1>4. flow' \in [Flows -> SignIn] /\ OtherFlows(f) /\ flow'[f] = v
  BY <1>2, <1>3, FlowStep
<1>5. v.pc = "browser" /\ v.cid = c.id /\ v.origin = flow[f].origin /\ v.coded = flow[f].coded
      /\ v.sentAs = flow[f].sentAs /\ v.overtaken = flow[f].overtaken /\ v.rt = flow[f].rt
  BY <1>1 DEF SignIn
<1> HIDE DEF v
<1> QED BY <1>2, <1>3, <1>4, <1>5 DEF SendAway, SameAddress, SameCode, SameAnswer

LEMMA ConsentStep ==
  ASSUME DcrTypeOK, NEW f \in Flows, Consent(f)
  PROVE  /\ flow' \in [Flows -> SignIn] /\ OtherFlows(f) /\ flow[f].pc = "browser"
         /\ \/ flow'[f].pc = "code" /\ flow'[f].coded
            \/ flow'[f].pc = "failed" /\ flow'[f].coded = flow[f].coded
         /\ SameAddress(f) /\ flow'[f].cid = flow[f].cid /\ SameCode(f) /\ SameAnswer(f)
         /\ SameHeld /\ SameProvider /\ UNCHANGED <<pending, refresh, ghosts, bounds>>
<1>1. flow[f] \in SignIn
  BY DEF DcrTypeOK
<1>2. flow[f].pc = "browser" /\ SameHeld /\ SameProvider /\ UNCHANGED <<pending, refresh, ghosts, bounds>>
  BY DEF Consent, provider, SameHeld, SameProvider
<1>3. CASE regs[flow[f].cid] = flow[f].origin
  <2>1. [flow[f] EXCEPT !.pc = "code", !.coded = TRUE] \in SignIn
    BY <1>1 DEF SignIn, FlowPc
  <2>2. flow' = [flow EXCEPT ![f] = [flow[f] EXCEPT !.pc = "code", !.coded = TRUE]]
    BY <1>3 DEF Consent, DcrTypeOK
  <2>3. /\ flow' \in [Flows -> SignIn] /\ OtherFlows(f)
        /\ flow'[f] = [flow[f] EXCEPT !.pc = "code", !.coded = TRUE]
    BY <2>1, <2>2, FlowStep
  <2>4. flow'[f].pc = "code" /\ flow'[f].coded /\ flow'[f].cid = flow[f].cid
        /\ SameAddress(f) /\ SameCode(f) /\ SameAnswer(f)
    BY <1>1, <2>3 DEF SignIn, SameAddress, SameCode, SameAnswer
  <2> QED BY <1>2, <2>3, <2>4
<1>4. CASE regs[flow[f].cid] # flow[f].origin
  <2>1. PcMoves(f, "failed")
    BY <1>4 DEF Consent, FlowEnds, PcMoves
  <2>2. /\ flow' \in [Flows -> SignIn] /\ OtherFlows(f) /\ flow'[f].pc = "failed"
        /\ SameAddress(f) /\ SameClient(f) /\ SameCode(f) /\ SameAnswer(f)
    BY <2>1, PcStep DEF FlowPc
  <2> QED BY <1>2, <2>2 DEF SameClient
<1> QED BY <1>3, <1>4

LEMMA SendCodeStep ==
  ASSUME DcrTypeOK, NEW f \in Flows, SendCode(f)
  PROVE  /\ flow' \in [Flows -> SignIn] /\ OtherFlows(f)
         /\ flow[f].pc = "callback" /\ flow'[f].pc = "post" /\ flow'[f].sentAs = client
         /\ SameAddress(f) /\ SameClient(f) /\ SameAnswer(f)
         /\ flow'[f].overtaken = flow[f].overtaken
         /\ uses' \in [Flows -> Nat] /\ uses'[f] = uses[f] + 1 /\ \A g \in Flows \ {f} : uses'[g] = uses[g]
         /\ SameHeld /\ SameProvider /\ UNCHANGED <<pending, refresh, cut, late, lost, bounds>>
<1>1. flow[f] \in SignIn /\ client \in Client
  BY DEF DcrTypeOK
<1>2. [flow[f] EXCEPT !.pc = "post", !.sentAs = client] \in SignIn
  BY <1>1 DEF SignIn, FlowPc
<1>3. flow' = [flow EXCEPT ![f] = [flow[f] EXCEPT !.pc = "post", !.sentAs = client]]
  BY DEF SendCode, DcrTypeOK
<1>4. /\ flow' \in [Flows -> SignIn] /\ OtherFlows(f)
      /\ flow'[f] = [flow[f] EXCEPT !.pc = "post", !.sentAs = client]
  BY <1>2, <1>3, FlowStep
<1>5. flow'[f].pc = "post" /\ flow'[f].sentAs = client /\ SameAddress(f) /\ SameClient(f) /\ SameAnswer(f)
      /\ flow'[f].overtaken = flow[f].overtaken
  BY <1>1, <1>4 DEF SignIn, SameAddress, SameClient, SameAnswer
<1>6. uses' \in [Flows -> Nat] /\ uses'[f] = uses[f] + 1 /\ \A g \in Flows \ {f} : uses'[g] = uses[g]
  <2>1. uses \in [Flows -> Nat] /\ uses' = [uses EXCEPT ![f] = uses[f] + 1]
    BY DEF SendCode, DcrTypeOK
  <2> QED BY <2>1
<1> QED BY <1>4, <1>5, <1>6 DEF SendCode, provider, SameHeld, SameProvider

LEMMA AppendFacts ==
  ASSUME NEW S, NEW s \in Seq(S), NEW e \in S, NEW t, t = Append(s, e)
  PROVE  /\ t \in Seq(S) /\ Len(t) = Len(s) + 1 /\ Len(s) \in Nat
         /\ \A i \in 1..Len(s) : t[i] = s[i]
         /\ t[Len(t)] = e
OBVIOUS

LEMMA MetaStep ==
  ASSUME DcrTypeOK, NEW f \in Flows, StartMeta(f)
  PROVE  /\ flow' \in [Flows -> SignIn] /\ OtherFlows(f) /\ flow[f].pc = "meta"
         /\ \/ flow'[f].pc = "register" /\ flow'[f].cid = flow[f].cid /\ pending' = pending
            \/ /\ flow'[f].pc = "browser" /\ flow'[f].cid = client.id /\ pending' = pending \cup {f}
               /\ client.id # 0 /\ client.redirect = flow[f].origin
         /\ SameAddress(f) /\ flow'[f].coded = flow[f].coded /\ SameCode(f) /\ SameAnswer(f)
         /\ SameHeld /\ SameProvider /\ UNCHANGED <<refresh, ghosts, bounds>>
<1>1. flow[f].pc = "meta" /\ SameHeld /\ SameProvider /\ UNCHANGED <<refresh, ghosts, bounds>>
  BY DEF StartMeta, provider, SameHeld, SameProvider
<1>2. CASE NeedsClient(f)
  <2>1. PcMoves(f, "register") /\ pending' = pending
    BY <1>2 DEF StartMeta, PcMoves
  <2>2. /\ flow' \in [Flows -> SignIn] /\ OtherFlows(f) /\ flow'[f].pc = "register"
        /\ SameAddress(f) /\ SameClient(f) /\ SameCode(f) /\ SameAnswer(f)
    BY <2>1, PcStep DEF FlowPc
  <2> QED BY <1>1, <2>1, <2>2 DEF SameClient
<1>3. CASE ~NeedsClient(f)
  <2>1. SendAway(f, client) /\ client \in Client
    BY <1>3 DEF StartMeta, DcrTypeOK
  <2>2. client.id # 0 /\ client.redirect = flow[f].origin
    BY <1>3 DEF NeedsClient
  <2>3. flow' \in [Flows -> SignIn]
    BY <2>1, SendAwayStep, FlowStep
  <2> QED BY <1>1, <2>1, <2>2, <2>3, SendAwayStep
<1> QED BY <1>2, <1>3

LEMMA RegisterStep ==
  ASSUME DcrTypeOK, NEW f \in Flows, Register(f)
  PROVE  /\ flow' \in [Flows -> SignIn] /\ OtherFlows(f) /\ flow[f].pc = "register"
         /\ flow'[f].pc = "browser" /\ flow'[f].cid = client'.id /\ pending' = pending \cup {f}
         /\ SameAddress(f) /\ flow'[f].coded = flow[f].coded /\ SameCode(f) /\ SameAnswer(f)
         /\ client' \in Client /\ client'.id = Len(regs') /\ client'.redirect = flow[f].origin
         /\ disk' = [disk EXCEPT !.client = client']
         /\ regs' \in Seq(Origins) /\ Len(regs') = Len(regs) + 1 /\ Len(regs) \in Nat
         /\ \A i \in 1..Len(regs) : regs'[i] = regs[i]
         /\ regs'[client'.id] = flow[f].origin
         /\ UNCHANGED <<token, refresh, live, issued, spent, ghosts, bounds>>
<1>1. /\ flow[f].pc = "register" /\ regs' = Append(regs, flow[f].origin)
      /\ UNCHANGED <<token, refresh, live, issued, spent, ghosts, bounds>>
      /\ client' = [id |-> Len(regs'), redirect |-> flow[f].origin]
      /\ disk' = [disk EXCEPT !.client = client']
      /\ SendAway(f, client')
  BY DEF Register, save_client
<1>2. flow[f].origin \in Origins
  BY <1>1 DEF DcrTypeOK
<1>3. regs \in Seq(Origins)
  BY DEF DcrTypeOK
<1>4. /\ regs' \in Seq(Origins) /\ Len(regs') = Len(regs) + 1 /\ Len(regs) \in Nat
      /\ \A i \in 1..Len(regs) : regs'[i] = regs[i]
      /\ regs'[Len(regs')] = flow[f].origin
  BY <1>1, <1>2, <1>3, AppendFacts
<1>5. client' \in Client /\ client'.id = Len(regs') /\ client'.redirect = flow[f].origin
  <2>1. Len(regs') \in Nat
    BY <1>4
  <2> QED BY <1>1, <1>2, <2>1 DEF Client
<1>6. flow' \in [Flows -> SignIn]
  BY <1>1, <1>5, SendAwayStep, FlowStep
<1> QED BY <1>1, <1>4, <1>5, <1>6, SendAwayStep

\* The provider issues one more refresh token.
IssuesOne ==
  /\ Len(issued') = Len(issued) + 1 /\ Len(issued) \in Nat
  /\ \A i \in 1..Len(issued) : issued'[i] = issued[i]

Issued == Seq([flow : Flows, cid : Nat])

LEMMA RedeemStep ==
  ASSUME DcrTypeOK, NEW f \in Flows, Redeem(f)
  PROVE  /\ flow' \in [Flows -> SignIn] /\ OtherFlows(f) /\ flow[f].pc = "post"
         /\ \/ /\ flow'[f].pc = "answer" /\ flow[f].sentAs.id = flow[f].cid
               /\ flow'[f].rt = Len(issued')
               /\ IssuesOne /\ issued' \in Issued /\ issued'[Len(issued')].flow = f
               /\ live' = live \cup {Len(issued')} /\ spent' = spent \cup {f}
            \/ flow'[f].pc = "failed" /\ SameAnswer(f) /\ UNCHANGED <<issued, live, spent>>
         /\ SameAddress(f) /\ SameClient(f) /\ SameCode(f)
         /\ SameHeld /\ UNCHANGED <<pending, refresh, regs, ghosts, bounds>>
<1>1. flow[f] \in SignIn
  BY DEF DcrTypeOK
<1>2. flow[f].pc = "post" /\ SameHeld /\ UNCHANGED <<pending, refresh, regs, ghosts, bounds>>
  BY DEF Redeem, SameHeld
<1> DEFINE Accepted == f \notin spent /\ flow[f].sentAs = [id |-> flow[f].cid, redirect |-> flow[f].redirect]
<1>3. CASE Accepted
  <2>1. /\ issued' = Append(issued, [flow |-> f, cid |-> flow[f].cid])
        /\ live' = live \cup {Len(issued')} /\ spent' = spent \cup {f}
        /\ flow' = [flow EXCEPT ![f].pc = "answer", ![f].rt = Len(issued')]
    BY <1>3 DEF Redeem
  <2>2. [flow |-> f, cid |-> flow[f].cid] \in [flow : Flows, cid : Nat]
    BY <1>1 DEF SignIn
  <2>3. IssuesOne /\ issued' \in Issued /\ issued'[Len(issued')].flow = f
    <3>1. issued \in Issued
      BY DEF DcrTypeOK, Issued
    <3> QED BY <2>1, <2>2, <3>1, AppendFacts DEF Issued, IssuesOne
  <2>4. Len(issued') \in Nat
    BY <2>3 DEF IssuesOne
  <2> DEFINE n == Len(issued')
             v == [flow[f] EXCEPT !.pc = "answer", !.rt = n]
  <2>5. n \in Nat /\ flow' = [flow EXCEPT ![f].pc = "answer", ![f].rt = n]
    BY <2>1, <2>4
  <2>6. n = Len(issued')
    OBVIOUS
  <2> HIDE DEF n
  <2>7. v \in SignIn
    BY <1>1, <2>5 DEF SignIn, FlowPc
  <2>8. flow' = [flow EXCEPT ![f] = v]
    BY <2>5 DEF DcrTypeOK
  <2>9. flow' \in [Flows -> SignIn] /\ OtherFlows(f) /\ flow'[f] = v
    BY <2>7, <2>8, FlowStep
  <2>10. v.pc = "answer" /\ v.rt = n /\ v.origin = flow[f].origin /\ v.cid = flow[f].cid
         /\ v.coded = flow[f].coded /\ v.sentAs = flow[f].sentAs /\ v.overtaken = flow[f].overtaken
    BY <1>1 DEF SignIn
  <2>11. flow[f].sentAs.id = flow[f].cid
    BY <1>3
  <2> HIDE DEF v
  <2> QED BY <1>2, <2>1, <2>3, <2>6, <2>9, <2>10, <2>11 DEF SameAddress, SameClient, SameCode
<1>4. CASE ~Accepted
  <2>1. PcMoves(f, "failed") /\ UNCHANGED <<issued, live, spent>>
    BY <1>4 DEF Redeem, FlowEnds, PcMoves
  <2>2. /\ flow' \in [Flows -> SignIn] /\ OtherFlows(f) /\ flow'[f].pc = "failed"
        /\ SameAddress(f) /\ SameClient(f) /\ SameCode(f) /\ SameAnswer(f)
    BY <2>1, PcStep DEF FlowPc
  <2> QED BY <1>2, <2>1, <2>2
<1> QED BY <1>3, <1>4

LEMMA SavedStep ==
  ASSUME DcrTypeOK, NEW f \in Flows, TokenSaved(f)
  PROVE  /\ flow' \in [Flows -> SignIn] /\ OtherFlows(f)
         /\ flow[f].pc = "answer" /\ flow'[f].pc = "done"
         /\ SameAddress(f) /\ SameClient(f) /\ SameCode(f) /\ SameAnswer(f)
         /\ token' = [flow |-> f, rt |-> flow[f].rt, fresh |-> TRUE]
         /\ disk' = [disk EXCEPT !.token = token'] /\ client' = client
         /\ late' = (late \/ flow[f].overtaken)
         /\ SameProvider /\ UNCHANGED <<pending, refresh, uses, cut, lost, bounds>>
<1>1. PcMoves(f, "done")
  BY DEF TokenSaved, PcMoves
<1>2. /\ flow' \in [Flows -> SignIn] /\ OtherFlows(f) /\ flow'[f].pc = "done"
      /\ SameAddress(f) /\ SameClient(f) /\ SameCode(f) /\ SameAnswer(f)
  BY <1>1, PcStep DEF FlowPc
<1> QED BY <1>2 DEF TokenSaved, save_token, SameProvider, provider

\* The steps of a flow that only move its pc.
LEMMA PlainStep ==
  ASSUME DcrTypeOK, NEW f \in Flows, Deny(f) \/ CallbackRefused(f) \/ FlowFails(f)
  PROVE  /\ flow' \in [Flows -> SignIn] /\ OtherFlows(f)
         /\ flow[f].pc # "none" /\ flow'[f].pc = "failed"
         /\ SameAddress(f) /\ SameClient(f) /\ SameCode(f) /\ SameAnswer(f)
         /\ SameHeld /\ SameProvider /\ UNCHANGED <<pending, refresh, ghosts, bounds>>
         /\ flow[f].pc \in {"meta", "register"} => Lossy
<1>1. PcMoves(f, "failed") /\ flow[f].pc # "none"
  BY DEF Deny, CallbackRefused, FlowFails, FlowEnds, PcMoves
<1>2. /\ flow' \in [Flows -> SignIn] /\ OtherFlows(f) /\ flow'[f].pc = "failed"
      /\ SameAddress(f) /\ SameClient(f) /\ SameCode(f) /\ SameAnswer(f)
  BY <1>1, PcStep DEF FlowPc
<1> QED BY <1>1, <1>2 DEF Deny, CallbackRefused, FlowFails, SameHeld, SameProvider, provider

LEMMA CallbackStep ==
  ASSUME DcrTypeOK, NEW f \in Flows, Callback(f)
  PROVE  /\ flow' \in [Flows -> SignIn] /\ OtherFlows(f)
         /\ flow[f].pc \in {"code", "done", "failed"} /\ flow'[f].pc = "callback"
         /\ SameAddress(f) /\ SameClient(f) /\ SameCode(f) /\ SameAnswer(f)
         /\ flow[f].coded /\ f \in pending /\ pending' = pending \ {f}
         /\ SameHeld /\ SameProvider /\ UNCHANGED <<refresh, ghosts, bounds>>
<1>1. PcMoves(f, "callback")
  BY DEF Callback, PcMoves
<1>2. /\ flow' \in [Flows -> SignIn] /\ OtherFlows(f) /\ flow'[f].pc = "callback"
      /\ SameAddress(f) /\ SameClient(f) /\ SameCode(f) /\ SameAnswer(f)
  BY <1>1, PcStep DEF FlowPc
<1> QED BY <1>2 DEF Callback, SameHeld, SameProvider, provider

-----------------------------------------------------------------------------
LEMMA NoRefreshTyped == NoRefresh \in Renewal
BY DEF NoRefresh, Renewal

LEMMA CallStep ==
  ASSUME DcrTypeOK, NEW r \in Refreshers, StartRefresh(r) \/ SendRefresh(r)
  PROVE  /\ refresh' \in [Refreshers -> Renewal] /\ OtherRefreshes(r)
         /\ \/ refresh[r].pc = "idle" /\ refresh'[r].pc = "meta" /\ refresh'[r].rt = refresh[r].rt
            \/ refresh[r].pc = "meta" /\ refresh'[r].pc = "post" /\ refresh'[r].rt = token.rt
         /\ refresh'[r].new \in {0, refresh[r].new}
         /\ SameHeld /\ SameProvider /\ UNCHANGED <<flow, pending, ghosts, bounds>>
<1>1. refresh[r] \in Renewal /\ token \in Token /\ client \in Client
  BY DEF DcrTypeOK
<1>2. SameHeld /\ SameProvider /\ UNCHANGED <<flow, pending, ghosts, bounds>>
  BY DEF StartRefresh, SendRefresh, SameHeld, SameProvider, provider
<1>3. CASE StartRefresh(r)
  <2>1. [refresh[r] EXCEPT !.pc = "meta"] \in Renewal
    BY <1>1 DEF Renewal
  <2>2. refresh' = [refresh EXCEPT ![r] = [refresh[r] EXCEPT !.pc = "meta"]] /\ refresh[r].pc = "idle"
    BY <1>3 DEF StartRefresh, DcrTypeOK
  <2>3. refresh' \in [Refreshers -> Renewal] /\ OtherRefreshes(r) /\ refresh'[r] = [refresh[r] EXCEPT !.pc = "meta"]
    BY <2>1, <2>2, RefreshStep
  <2>4. refresh'[r].pc = "meta" /\ refresh'[r].rt = refresh[r].rt /\ refresh'[r].new = refresh[r].new
    BY <1>1, <2>3 DEF Renewal
  <2> QED BY <1>2, <2>2, <2>3, <2>4
<1>4. CASE SendRefresh(r)
  <2> DEFINE v == [NoRefresh EXCEPT !.pc = "post", !.cid = client.id, !.rt = token.rt]
  <2>1. v \in Renewal
    BY <1>1, NoRefreshTyped DEF Renewal, Token, Client
  <2>2. v.pc = "post" /\ v.rt = token.rt /\ v.new = 0
    BY DEF NoRefresh
  <2> HIDE DEF v
  <2>3. refresh' = [refresh EXCEPT ![r] = v] /\ refresh[r].pc = "meta"
    BY <1>4 DEF SendRefresh, v
  <2>4. refresh' \in [Refreshers -> Renewal] /\ OtherRefreshes(r) /\ refresh'[r] = v
    BY <2>1, <2>3, RefreshStep
  <2> QED BY <1>2, <2>2, <2>3, <2>4
<1> QED BY <1>3, <1>4

LEMMA ElementTyped ==
  ASSUME NEW S, NEW s \in Seq(S), NEW i \in 1..Len(s)
  PROVE  s[i] \in S
OBVIOUS

\* The provider answers a refresh: with a new refresh token in place of the one
\* sent, without one, or not at all.
LEMMA RenewStep ==
  ASSUME DcrTypeOK, NEW r \in Refreshers, Renew(r)
  PROVE  /\ refresh' \in [Refreshers -> Renewal] /\ OtherRefreshes(r) /\ refresh[r].pc = "post"
         /\ \/ /\ refresh[r].rt \in live /\ refresh'[r].pc = "answer" /\ refresh'[r].rt = refresh[r].rt
               /\ refresh'[r].of = issued[refresh[r].rt].flow
               /\ refresh'[r].overtaken = refresh[r].overtaken
               /\ \/ /\ IssuesOne /\ issued' \in Issued /\ refresh'[r].new = Len(issued')
                     /\ issued'[Len(issued')].flow = issued[refresh[r].rt].flow
                     /\ live' = (live \ {refresh[r].rt}) \cup {Len(issued')}
                  \/ refresh'[r].new = 0 /\ UNCHANGED <<issued, live>>
            \/ refresh'[r] = NoRefresh /\ UNCHANGED <<issued, live>>
         /\ SameHeld /\ UNCHANGED <<flow, pending, regs, spent, ghosts, bounds>>
<1> DEFINE rt == refresh[r].rt
           Accepted == rt \in live /\ issued[rt].cid = refresh[r].cid
<1>1. refresh[r] \in Renewal /\ issued \in Seq([flow : Flows, cid : Nat])
  BY DEF DcrTypeOK
<1>2. refresh[r].pc = "post" /\ SameHeld /\ UNCHANGED <<flow, pending, regs, spent, ghosts, bounds>>
  BY DEF Renew, SameHeld
<1>3. CASE ~Accepted
  <2>1. refresh' = [refresh EXCEPT ![r] = NoRefresh] /\ UNCHANGED <<issued, live>>
    BY <1>3 DEF Renew
  <2>2. refresh' \in [Refreshers -> Renewal] /\ OtherRefreshes(r) /\ refresh'[r] = NoRefresh
    BY <2>1, NoRefreshTyped, RefreshStep
  <2> QED BY <1>2, <2>1, <2>2
<1>4. ASSUME Accepted, NEW n \in Nat,
             refresh' = [refresh EXCEPT ![r].pc = "answer", ![r].of = issued[rt].flow, ![r].new = n]
      PROVE  /\ refresh' \in [Refreshers -> Renewal] /\ OtherRefreshes(r)
             /\ refresh'[r].pc = "answer" /\ refresh'[r].rt = rt /\ refresh'[r].of = issued[rt].flow
             /\ refresh'[r].overtaken = refresh[r].overtaken /\ refresh'[r].new = n
  <2> DEFINE o == issued[rt].flow
             v == [refresh[r] EXCEPT !.pc = "answer", !.of = o, !.new = n]
  <2>1. o \in Flows
    <3>1. rt \in 1..Len(issued)
      BY <1>4 DEF DcrTypeOK, PointsAtIssued
    <3>2. issued[rt] \in [flow : Flows, cid : Nat]
      BY ONLY <1>1, <3>1, ElementTyped
    <3> QED BY <3>2
  <2>2. refresh' = [refresh EXCEPT ![r].pc = "answer", ![r].of = o, ![r].new = n] /\ o = issued[rt].flow
    BY <1>4
  <2> HIDE DEF o
  <2>3. v \in Renewal
    BY <1>1, <2>1 DEF Renewal
  <2>4. refresh' = [refresh EXCEPT ![r] = v]
    BY <2>2 DEF DcrTypeOK
  <2>5. refresh' \in [Refreshers -> Renewal] /\ OtherRefreshes(r) /\ refresh'[r] = v
    BY <2>3, <2>4, RefreshStep
  <2>6. v.pc = "answer" /\ v.rt = refresh[r].rt /\ v.of = o /\ v.new = n /\ v.overtaken = refresh[r].overtaken
    BY <1>1 DEF Renewal
  <2> QED BY <2>2, <2>5, <2>6
<1>5. CASE Accepted /\ Rotates
  <2>1. /\ issued' = Append(issued, issued[rt]) /\ live' = (live \ {rt}) \cup {Len(issued')}
        /\ refresh' = [refresh EXCEPT ![r].pc = "answer", ![r].of = issued[rt].flow, ![r].new = Len(issued')]
    BY <1>5 DEF Renew
  <2>2. issued[rt] \in [flow : Flows, cid : Nat]
    <3>1. rt \in 1..Len(issued)
      BY <1>5 DEF DcrTypeOK, PointsAtIssued
    <3> QED BY ONLY <1>1, <3>1, ElementTyped
  <2>3. IssuesOne /\ issued' \in Issued /\ issued'[Len(issued')].flow = issued[rt].flow
    BY <1>1, <2>1, <2>2, AppendFacts DEF Issued, IssuesOne
  <2>4. Len(issued') \in Nat
    BY <2>3 DEF IssuesOne
  <2>5. /\ refresh' \in [Refreshers -> Renewal] /\ OtherRefreshes(r)
        /\ refresh'[r].pc = "answer" /\ refresh'[r].rt = rt /\ refresh'[r].of = issued[rt].flow
        /\ refresh'[r].overtaken = refresh[r].overtaken /\ refresh'[r].new = Len(issued')
    BY <1>4, <1>5, <2>1, <2>4
  <2> QED BY <1>2, <1>5, <2>1, <2>3, <2>5
<1>6. CASE Accepted /\ ~Rotates
  <2>1. /\ refresh' = [refresh EXCEPT ![r].pc = "answer", ![r].of = issued[rt].flow, ![r].new = 0]
        /\ UNCHANGED <<issued, live>>
    BY <1>6 DEF Renew
  <2>2. /\ refresh' \in [Refreshers -> Renewal] /\ OtherRefreshes(r)
        /\ refresh'[r].pc = "answer" /\ refresh'[r].rt = rt /\ refresh'[r].of = issued[rt].flow
        /\ refresh'[r].overtaken = refresh[r].overtaken /\ refresh'[r].new = 0
    BY <1>4, <1>6, <2>1
  <2> QED BY <1>2, <1>6, <2>1, <2>2
<1> QED BY <1>3, <1>5, <1>6

LEMMA RenewedStep ==
  ASSUME DcrTypeOK, NEW r \in Refreshers, Renewed(r)
  PROVE  /\ refresh' \in [Refreshers -> Renewal] /\ OtherRefreshes(r)
         /\ refresh[r].pc = "answer" /\ refresh'[r] = NoRefresh
         /\ token' = [flow |-> refresh[r].of, rt |-> refresh[r].new, fresh |-> TRUE]
         /\ disk' = [disk EXCEPT !.token = token'] /\ client' = client
         /\ late' = (late \/ refresh[r].overtaken)
         /\ SameProvider /\ UNCHANGED <<flow, pending, uses, cut, lost, bounds>>
<1>1. refresh' = [refresh EXCEPT ![r] = NoRefresh]
  BY DEF Renewed
<1>2. refresh' \in [Refreshers -> Renewal] /\ OtherRefreshes(r) /\ refresh'[r] = NoRefresh
  BY <1>1, NoRefreshTyped, RefreshStep
<1> QED BY <1>2 DEF Renewed, save_token, SameProvider, provider

LEMMA RefreshFailsStep ==
  ASSUME DcrTypeOK, NEW r \in Refreshers, RefreshFails(r)
  PROVE  /\ refresh' \in [Refreshers -> Renewal] /\ OtherRefreshes(r) /\ refresh'[r] = NoRefresh
         /\ lost' = (lost \/ refresh[r].pc = "answer")
         /\ SameHeld /\ SameProvider /\ UNCHANGED <<flow, pending, uses, cut, late, bounds>>
<1>1. refresh' = [refresh EXCEPT ![r] = NoRefresh]
  BY DEF RefreshFails
<1>2. refresh' \in [Refreshers -> Renewal] /\ OtherRefreshes(r) /\ refresh'[r] = NoRefresh
  BY <1>1, NoRefreshTyped, RefreshStep
<1> QED BY <1>2 DEF RefreshFails, SameHeld, SameProvider, provider

-----------------------------------------------------------------------------
LEMMA ExpireStep ==
  ASSUME DcrTypeOK, Expire
  PROVE  /\ token' \in Token /\ token'.flow = token.flow /\ token'.rt = token.rt /\ token.flow # 0
         /\ disk' = [disk EXCEPT !.token = token'] /\ client' = client /\ expiries' \in 0..MaxExpiries
         /\ SameProvider /\ UNCHANGED <<flow, pending, refresh, ghosts, cuts, downs>>
<1>1. token \in Token /\ token' = [token EXCEPT !.fresh = FALSE]
  BY DEF Expire, save_token, DcrTypeOK
<1>2. token' \in Token /\ token'.flow = token.flow /\ token'.rt = token.rt
  BY <1>1 DEF Token
<1>3. expiries' \in 0..MaxExpiries
  BY DcrAssumption DEF Expire, DcrTypeOK
<1> QED BY <1>2, <1>3 DEF Expire, save_token, SameProvider, provider

LEMMA SignOutStep ==
  ASSUME DcrTypeOK, SignOut
  PROVE  /\ flow' \in [Flows -> SignIn] /\ refresh' \in [Refreshers -> Renewal]
         /\ \A f \in Flows :
                /\ flow'[f].pc = flow[f].pc /\ SameAddress(f) /\ SameClient(f) /\ SameAnswer(f)
                /\ flow'[f].sentAs = flow[f].sentAs
                /\ flow'[f].overtaken = (flow[f].overtaken \/ flow[f].pc \in {"post", "answer"})
         /\ \A r \in Refreshers :
                /\ refresh'[r].pc = refresh[r].pc /\ refresh'[r].rt = refresh[r].rt
                /\ refresh'[r].of = refresh[r].of /\ refresh'[r].new = refresh[r].new
                /\ refresh'[r].overtaken = (refresh[r].overtaken \/ refresh[r].pc \in {"post", "answer"})
         /\ client' = NoClient /\ token' = NoToken
         /\ disk' = [client |-> NoClient, token |-> NoToken]
         /\ cut' = {f \in Flows : flow[f].coded}
         /\ cuts' \in 0..MaxCuts
         /\ SameProvider /\ UNCHANGED <<pending, uses, late, lost, downs, expiries>>
<1>1. ASSUME NEW f \in Flows
      PROVE  /\ flow'[f] \in SignIn
             /\ flow'[f].pc = flow[f].pc /\ SameAddress(f) /\ SameClient(f) /\ SameAnswer(f)
             /\ flow'[f].sentAs = flow[f].sentAs
             /\ flow'[f].overtaken = (flow[f].overtaken \/ flow[f].pc \in {"post", "answer"})
  <2> DEFINE b == flow[f].overtaken \/ flow[f].pc \in {"post", "answer"}
  <2>1. flow[f] \in SignIn
    BY DEF DcrTypeOK
  <2>2. flow'[f] = [flow[f] EXCEPT !.overtaken = b] /\ b \in BOOLEAN
    BY DEF SignOut
  <2> HIDE DEF b
  <2>3. flow'[f].overtaken = b
    BY <2>1, <2>2 DEF SignIn
  <2>4. flow'[f] \in SignIn /\ flow'[f].pc = flow[f].pc /\ SameAddress(f) /\ SameClient(f) /\ SameAnswer(f)
        /\ flow'[f].sentAs = flow[f].sentAs
    BY <2>1, <2>2 DEF SignIn, SameAddress, SameClient, SameAnswer
  <2> QED BY <2>3, <2>4 DEF b
<1>2. ASSUME NEW r \in Refreshers
      PROVE  /\ refresh'[r] \in Renewal
             /\ refresh'[r].pc = refresh[r].pc /\ refresh'[r].rt = refresh[r].rt
             /\ refresh'[r].of = refresh[r].of /\ refresh'[r].new = refresh[r].new
             /\ refresh'[r].overtaken = (refresh[r].overtaken \/ refresh[r].pc \in {"post", "answer"})
  <2> DEFINE b == refresh[r].overtaken \/ refresh[r].pc \in {"post", "answer"}
  <2>1. refresh[r] \in Renewal
    BY DEF DcrTypeOK
  <2>2. refresh'[r] = [refresh[r] EXCEPT !.overtaken = b] /\ b \in BOOLEAN
    BY DEF SignOut
  <2> HIDE DEF b
  <2>3. refresh'[r].overtaken = b
    BY <2>1, <2>2 DEF Renewal
  <2>4. refresh'[r] \in Renewal /\ refresh'[r].pc = refresh[r].pc /\ refresh'[r].rt = refresh[r].rt
        /\ refresh'[r].of = refresh[r].of /\ refresh'[r].new = refresh[r].new
    BY <2>1, <2>2 DEF Renewal
  <2> QED BY <2>3, <2>4 DEF b
<1>3. flow' \in [Flows -> SignIn] /\ refresh' \in [Refreshers -> Renewal]
  BY <1>1, <1>2 DEF SignOut
<1>4. cuts' \in 0..MaxCuts
  BY DcrAssumption DEF SignOut, DcrTypeOK
<1> QED BY <1>1, <1>2, <1>3, <1>4 DEF SignOut, ClearsBoth, SameProvider, provider

LEMMA RestartStep ==
  ASSUME DcrTypeOK, NEW b \in BOOLEAN, GatewayRestarts(b)
  PROVE  /\ flow' \in [Flows -> SignIn] /\ refresh' = [r \in Refreshers |-> NoRefresh]
         /\ \A f \in Flows :
                /\ \/ flow'[f].pc = flow[f].pc /\ flow[f].pc \in {"none", "browser", "code", "done"}
                   \/ flow'[f].pc = "failed" /\ flow[f].pc # "none"
                /\ SameAddress(f) /\ SameClient(f) /\ SameCode(f) /\ SameAnswer(f)
         /\ disk' = IF b THEN [disk EXCEPT !.token = NoToken] ELSE disk
         /\ client' = disk'.client /\ token' = disk'.token /\ pending' = {}
         /\ downs' \in 0..MaxDowns
         /\ lost' \in BOOLEAN /\ (lost => lost')
         /\ (\E r \in Refreshers : refresh[r].pc = "answer") => lost'
         /\ SameProvider /\ UNCHANGED <<uses, cut, late, cuts, expiries>>
<1>1. ASSUME NEW f \in Flows
      PROVE  /\ flow'[f] \in SignIn
             /\ \/ flow'[f].pc = flow[f].pc /\ flow[f].pc \in {"none", "browser", "code", "done"}
                \/ flow'[f].pc = "failed" /\ flow[f].pc # "none"
             /\ SameAddress(f) /\ SameClient(f) /\ SameCode(f) /\ SameAnswer(f)
  <2>1. flow[f] \in SignIn
    BY DEF DcrTypeOK
  <2>2. CASE flow[f].pc \in {"none", "browser", "code", "done"}
    <3>1. flow'[f] = flow[f]
      BY <2>2 DEF GatewayRestarts
    <3> QED BY <2>1, <2>2, <3>1 DEF SameAddress, SameClient, SameCode, SameAnswer
  <2>3. CASE flow[f].pc \notin {"none", "browser", "code", "done"}
    <3>1. flow'[f] = [flow[f] EXCEPT !.pc = "failed"]
      BY <2>3 DEF GatewayRestarts
    <3> QED BY <2>1, <2>3, <3>1 DEF SignIn, FlowPc, SameAddress, SameClient, SameCode, SameAnswer
  <2> QED BY <2>2, <2>3
<1>2. flow' \in [Flows -> SignIn]
  BY <1>1 DEF GatewayRestarts
<1>3. downs' \in 0..MaxDowns
  BY DcrAssumption DEF GatewayRestarts, DcrTypeOK
<1>4. lost' \in BOOLEAN /\ (lost => lost') /\ ((\E r \in Refreshers : refresh[r].pc = "answer") => lost')
  BY DEF GatewayRestarts
<1> QED BY <1>1, <1>2, <1>3, <1>4 DEF GatewayRestarts, SameProvider, provider

\* The process starts again with what it held, or without its credential.
LEMMA RestartHeld ==
  ASSUME DcrTypeOK, DiskIsMemory, NEW b \in BOOLEAN, GatewayRestarts(b)
  PROVE  client' = client /\ token' \in {token, NoToken} /\ DiskIsMemory'
<1>1. disk = [client |-> client, token |-> token]
  BY DEF DiskIsMemory
<1>2. disk' \in {disk, [disk EXCEPT !.token = NoToken]} /\ client' = disk'.client /\ token' = disk'.token
  BY DEF GatewayRestarts
<1> QED BY <1>1, <1>2 DEF DiskIsMemory

LEMMA NothingHeld == NoClient.id = 0 /\ NoToken.flow = 0 /\ NoToken.rt = 0
BY DEF NoClient, NoToken

LEMMA NothingTyped == NoClient \in Client /\ NoToken \in Token
BY DEF NoClient, NoToken, Client, Token

LEMMA TokenTyped ==
  ASSUME NEW f \in Flows, NEW n \in Nat
  PROVE  [flow |-> f, rt |-> n, fresh |-> TRUE] \in Token
BY DEF Token

\* The type invariant in parts, by what the steps change.
HandlersOK ==
  flow \in [Flows -> SignIn] /\ refresh \in [Refreshers -> Renewal] /\ pending \subseteq Flows

HeldOK == client \in Client /\ token \in Token /\ (token.flow = 0 => token = NoToken)

ProviderOK ==
  /\ regs \in Seq(Origins) /\ issued \in Seq([flow : Flows, cid : Nat])
  /\ spent \subseteq Flows

HistoryOK ==
  uses \in [Flows -> Nat] /\ cut \subseteq Flows /\ late \in BOOLEAN /\ lost \in BOOLEAN

CountersOK ==
  cuts \in 0..MaxCuts /\ downs \in 0..MaxDowns /\ expiries \in 0..MaxExpiries

OriginsOK == \A x \in Flows : flow[x].pc # "none" => flow[x].origin \in Origins

LEMMA TypeParts ==
  DcrTypeOK <=> /\ HandlersOK /\ HeldOK /\ ProviderOK /\ HistoryOK
                /\ CountersOK /\ OriginsOK /\ PointsAtIssued
BY DEF DcrTypeOK, HandlersOK, HeldOK, ProviderOK, HistoryOK, CountersOK, OriginsOK

LEMMA HandlersTyped == DcrIInv /\ [DcrNext]_dcrVars => HandlersOK'
<1> SUFFICES ASSUME DcrIInv, [DcrNext]_dcrVars PROVE HandlersOK'
  OBVIOUS
<1>0. DcrTypeOK /\ HandlersOK
  BY TypeParts DEF DcrIInv
<1>1. ASSUME NEW f \in Flows, NEW o \in Origins, Start(f, o) PROVE HandlersOK'
  BY <1>0, <1>1, StartStep DEF HandlersOK, OtherFlows, SameClient, SameCode, SameAnswer
<1>2. ASSUME NEW f \in Flows, StartMeta(f) PROVE HandlersOK'
  BY <1>0, <1>2, MetaStep DEF HandlersOK, OtherFlows, SameCode, SameAnswer
<1>3. ASSUME NEW f \in Flows, Register(f) PROVE HandlersOK'
  BY <1>0, <1>3, RegisterStep DEF HandlersOK, OtherFlows, SameCode, SameAnswer
<1>4. ASSUME NEW f \in Flows, Consent(f) PROVE HandlersOK'
  BY <1>0, <1>4, ConsentStep DEF HandlersOK, OtherFlows, SameCode, SameAnswer
<1>5. ASSUME NEW f \in Flows, Deny(f) \/ CallbackRefused(f) \/ FlowFails(f) PROVE HandlersOK'
  BY <1>0, <1>5, PlainStep DEF HandlersOK, OtherFlows, SameClient, SameCode, SameAnswer
<1>6. ASSUME NEW f \in Flows, Callback(f) PROVE HandlersOK'
  BY <1>0, <1>6, CallbackStep DEF HandlersOK, OtherFlows, SameClient, SameCode, SameAnswer
<1>7. ASSUME NEW f \in Flows, SendCode(f) PROVE HandlersOK'
  BY <1>0, <1>7, SendCodeStep DEF HandlersOK, OtherFlows, SameClient, SameAnswer
<1>8. ASSUME NEW f \in Flows, Redeem(f) PROVE HandlersOK'
  BY <1>0, <1>8, RedeemStep DEF HandlersOK, OtherFlows, SameClient, SameCode, SameAnswer
<1>9. ASSUME NEW f \in Flows, TokenSaved(f) PROVE HandlersOK'
  BY <1>0, <1>9, SavedStep DEF HandlersOK, OtherFlows, SameClient, SameCode, SameAnswer
<1>10. ASSUME NEW r \in Refreshers, StartRefresh(r) \/ SendRefresh(r) PROVE HandlersOK'
  BY <1>0, <1>10, CallStep DEF HandlersOK, OtherRefreshes
<1>11. ASSUME NEW r \in Refreshers, Renew(r) PROVE HandlersOK'
  BY <1>0, <1>11, RenewStep DEF HandlersOK, NoRefresh, OtherRefreshes
<1>12. ASSUME NEW r \in Refreshers, Renewed(r) PROVE HandlersOK'
  BY <1>0, <1>12, RenewedStep DEF HandlersOK, NoRefresh, OtherRefreshes
<1>13. ASSUME NEW r \in Refreshers, RefreshFails(r) PROVE HandlersOK'
  BY <1>0, <1>13, RefreshFailsStep DEF HandlersOK, NoRefresh, OtherRefreshes
<1>14. CASE Expire
  BY <1>0, <1>14, ExpireStep DEF HandlersOK
<1>15. CASE SignOut
  BY <1>0, <1>15, SignOutStep DEF HandlersOK, SameClient, SameAnswer
<1>16. ASSUME NEW b \in BOOLEAN, GatewayRestarts(b) PROVE HandlersOK'
  BY <1>0, <1>16, RestartStep, NoRefreshTyped DEF HandlersOK
<1>17. CASE UNCHANGED dcrVars
  BY <1>0, <1>17 DEF dcrVars, provider, ghosts, bounds, HandlersOK, NoRefresh
<1> QED BY <1>1, <1>2, <1>3, <1>4, <1>5, <1>6, <1>7, <1>8, <1>9, <1>10, <1>11, <1>12, <1>13,
       <1>14, <1>15, <1>16, <1>17 DEF DcrNext, Handles, RefreshRuns
LEMMA HeldTyped == DcrIInv /\ [DcrNext]_dcrVars => HeldOK'
<1> SUFFICES ASSUME DcrIInv, [DcrNext]_dcrVars PROVE HeldOK'
  OBVIOUS
<1>0. DcrTypeOK /\ HeldOK /\ DiskIsMemory /\ RefreshesTrace /\ HandlersOK
  BY TypeParts DEF DcrIInv
<1>1. ASSUME NEW f \in Flows, NEW o \in Origins, Start(f, o) PROVE HeldOK'
  BY <1>0, <1>1, StartStep DEF HeldOK, OtherFlows, SameHeld
<1>2. ASSUME NEW f \in Flows, StartMeta(f) PROVE HeldOK'
  BY <1>0, <1>2, MetaStep DEF HeldOK, OtherFlows, SameHeld
<1>3. ASSUME NEW f \in Flows, Register(f) PROVE HeldOK'
  BY <1>0, <1>3, RegisterStep DEF HeldOK, OtherFlows
<1>4. ASSUME NEW f \in Flows, Consent(f) PROVE HeldOK'
  BY <1>0, <1>4, ConsentStep DEF HeldOK, OtherFlows, SameHeld
<1>5. ASSUME NEW f \in Flows, Deny(f) \/ CallbackRefused(f) \/ FlowFails(f) PROVE HeldOK'
  BY <1>0, <1>5, PlainStep DEF HeldOK, OtherFlows, SameHeld
<1>6. ASSUME NEW f \in Flows, Callback(f) PROVE HeldOK'
  BY <1>0, <1>6, CallbackStep DEF HeldOK, OtherFlows, SameHeld
<1>7. ASSUME NEW f \in Flows, SendCode(f) PROVE HeldOK'
  BY <1>0, <1>7, SendCodeStep DEF HeldOK, OtherFlows, SameHeld
<1>8. ASSUME NEW f \in Flows, Redeem(f) PROVE HeldOK'
  BY <1>0, <1>8, RedeemStep DEF HeldOK, OtherFlows, SameHeld
<1>9. ASSUME NEW f \in Flows, TokenSaved(f) PROVE HeldOK'
  <2>1. flow[f].rt \in Nat
    BY <1>0 DEF HandlersOK, SignIn
  <2>2. token' = [flow |-> f, rt |-> flow[f].rt, fresh |-> TRUE] /\ client' = client
    BY <1>0, <1>9, SavedStep
  <2>3. token' \in Token
    BY <2>1, <2>2, TokenTyped
  <2> QED BY <1>0, <2>2, <2>3, DcrAssumption DEF HeldOK
<1>10. ASSUME NEW r \in Refreshers, StartRefresh(r) \/ SendRefresh(r) PROVE HeldOK'
  BY <1>0, <1>10, CallStep DEF HeldOK, SameHeld
<1>11. ASSUME NEW r \in Refreshers, Renew(r) PROVE HeldOK'
  BY <1>0, <1>11, RenewStep DEF HeldOK, SameHeld
<1>12. ASSUME NEW r \in Refreshers, Renewed(r) PROVE HeldOK'
  <2>1. refresh[r].new \in Nat /\ refresh[r].of \in Flows
    BY <1>0, <1>12, RenewedStep DEF HandlersOK, Renewal, RefreshesTrace, Traces
  <2>2. token' = [flow |-> refresh[r].of, rt |-> refresh[r].new, fresh |-> TRUE] /\ client' = client
    BY <1>0, <1>12, RenewedStep
  <2>3. token' \in Token
    BY <2>1, <2>2, TokenTyped
  <2> QED BY <1>0, <2>1, <2>2, <2>3, DcrAssumption DEF HeldOK
<1>13. ASSUME NEW r \in Refreshers, RefreshFails(r) PROVE HeldOK'
  BY <1>0, <1>13, RefreshFailsStep DEF HeldOK, SameHeld
<1>14. CASE Expire
  BY <1>0, <1>14, ExpireStep DEF HeldOK
<1>15. CASE SignOut
  BY <1>0, <1>15, SignOutStep, NothingTyped DEF HeldOK
<1>16. ASSUME NEW b \in BOOLEAN, GatewayRestarts(b) PROVE HeldOK'
  BY <1>0, <1>16, RestartHeld, NothingTyped DEF HeldOK
<1>17. CASE UNCHANGED dcrVars
  BY <1>0, <1>17 DEF dcrVars, provider, ghosts, bounds, HeldOK
<1> QED BY <1>1, <1>2, <1>3, <1>4, <1>5, <1>6, <1>7, <1>8, <1>9, <1>10, <1>11, <1>12, <1>13,
       <1>14, <1>15, <1>16, <1>17 DEF DcrNext, Handles, RefreshRuns
LEMMA ProviderTyped == DcrIInv /\ [DcrNext]_dcrVars => ProviderOK'
<1> SUFFICES ASSUME DcrIInv, [DcrNext]_dcrVars PROVE ProviderOK'
  OBVIOUS
<1>0. DcrTypeOK /\ ProviderOK
  BY TypeParts DEF DcrIInv
<1>1. ASSUME NEW f \in Flows, NEW o \in Origins, Start(f, o) PROVE ProviderOK'
  BY <1>0, <1>1, StartStep DEF ProviderOK, OtherFlows, SameClient, SameProvider
<1>2. ASSUME NEW f \in Flows, StartMeta(f) PROVE ProviderOK'
  BY <1>0, <1>2, MetaStep DEF ProviderOK, OtherFlows, SameProvider
<1>3. ASSUME NEW f \in Flows, Register(f) PROVE ProviderOK'
  BY <1>0, <1>3, RegisterStep DEF ProviderOK, OtherFlows
<1>4. ASSUME NEW f \in Flows, Consent(f) PROVE ProviderOK'
  BY <1>0, <1>4, ConsentStep DEF ProviderOK, OtherFlows, SameProvider
<1>5. ASSUME NEW f \in Flows, Deny(f) \/ CallbackRefused(f) \/ FlowFails(f) PROVE ProviderOK'
  BY <1>0, <1>5, PlainStep DEF ProviderOK, OtherFlows, SameClient, SameProvider
<1>6. ASSUME NEW f \in Flows, Callback(f) PROVE ProviderOK'
  BY <1>0, <1>6, CallbackStep DEF ProviderOK, OtherFlows, SameClient, SameProvider
<1>7. ASSUME NEW f \in Flows, SendCode(f) PROVE ProviderOK'
  BY <1>0, <1>7, SendCodeStep DEF ProviderOK, OtherFlows, SameClient, SameProvider
<1>8. ASSUME NEW f \in Flows, Redeem(f) PROVE ProviderOK'
  <2>1. spent' \subseteq Flows /\ regs' = regs
    BY <1>0, <1>8, RedeemStep DEF ProviderOK
  <2>2. issued' \in Seq([flow : Flows, cid : Nat])
    BY <1>0, <1>8, RedeemStep DEF Issued, ProviderOK
  <2> QED BY <1>0, <2>1, <2>2 DEF ProviderOK
<1>9. ASSUME NEW f \in Flows, TokenSaved(f) PROVE ProviderOK'
  BY <1>0, <1>9, SavedStep DEF ProviderOK, OtherFlows, SameClient, SameProvider
<1>10. ASSUME NEW r \in Refreshers, StartRefresh(r) \/ SendRefresh(r) PROVE ProviderOK'
  BY <1>0, <1>10, CallStep DEF ProviderOK, SameProvider
<1>11. ASSUME NEW r \in Refreshers, Renew(r) PROVE ProviderOK'
  BY <1>0, <1>11, RenewStep DEF ProviderOK, Issued
<1>12. ASSUME NEW r \in Refreshers, Renewed(r) PROVE ProviderOK'
  BY <1>0, <1>12, RenewedStep DEF ProviderOK, SameProvider
<1>13. ASSUME NEW r \in Refreshers, RefreshFails(r) PROVE ProviderOK'
  BY <1>0, <1>13, RefreshFailsStep DEF ProviderOK, SameProvider
<1>14. CASE Expire
  BY <1>0, <1>14, ExpireStep DEF ProviderOK, SameProvider
<1>15. CASE SignOut
  BY <1>0, <1>15, SignOutStep DEF ProviderOK, SameClient, SameProvider
<1>16. ASSUME NEW b \in BOOLEAN, GatewayRestarts(b) PROVE ProviderOK'
  BY <1>0, <1>16, RestartStep DEF ProviderOK, SameClient, SameProvider
<1>17. CASE UNCHANGED dcrVars
  BY <1>0, <1>17 DEF dcrVars, provider, ghosts, bounds, ProviderOK, Issued
<1> QED BY <1>1, <1>2, <1>3, <1>4, <1>5, <1>6, <1>7, <1>8, <1>9, <1>10, <1>11, <1>12, <1>13,
       <1>14, <1>15, <1>16, <1>17 DEF DcrNext, Handles, RefreshRuns
LEMMA HistoryTyped == DcrIInv /\ [DcrNext]_dcrVars => HistoryOK'
<1> SUFFICES ASSUME DcrIInv, [DcrNext]_dcrVars PROVE HistoryOK'
  OBVIOUS
<1>0. DcrTypeOK /\ HistoryOK
  BY TypeParts DEF DcrIInv
<1>1. ASSUME NEW f \in Flows, NEW o \in Origins, Start(f, o) PROVE HistoryOK'
  BY <1>0, <1>1, StartStep DEF HistoryOK, ghosts
<1>2. ASSUME NEW f \in Flows, StartMeta(f) PROVE HistoryOK'
  BY <1>0, <1>2, MetaStep DEF HistoryOK, ghosts
<1>3. ASSUME NEW f \in Flows, Register(f) PROVE HistoryOK'
  BY <1>0, <1>3, RegisterStep DEF HistoryOK, ghosts
<1>4. ASSUME NEW f \in Flows, Consent(f) PROVE HistoryOK'
  BY <1>0, <1>4, ConsentStep DEF HistoryOK, ghosts
<1>5. ASSUME NEW f \in Flows, Deny(f) \/ CallbackRefused(f) \/ FlowFails(f) PROVE HistoryOK'
  BY <1>0, <1>5, PlainStep DEF HistoryOK, ghosts
<1>6. ASSUME NEW f \in Flows, Callback(f) PROVE HistoryOK'
  BY <1>0, <1>6, CallbackStep DEF HistoryOK, ghosts
<1>7. ASSUME NEW f \in Flows, SendCode(f) PROVE HistoryOK'
  BY <1>0, <1>7, SendCodeStep DEF HistoryOK
<1>8. ASSUME NEW f \in Flows, Redeem(f) PROVE HistoryOK'
  BY <1>0, <1>8, RedeemStep DEF HistoryOK, ghosts
<1>9. ASSUME NEW f \in Flows, TokenSaved(f) PROVE HistoryOK'
  BY <1>0, <1>9, SavedStep DEF HistoryOK
<1>10. ASSUME NEW r \in Refreshers, StartRefresh(r) \/ SendRefresh(r) PROVE HistoryOK'
  BY <1>0, <1>10, CallStep DEF HistoryOK, ghosts
<1>11. ASSUME NEW r \in Refreshers, Renew(r) PROVE HistoryOK'
  BY <1>0, <1>11, RenewStep DEF HistoryOK, ghosts
<1>12. ASSUME NEW r \in Refreshers, Renewed(r) PROVE HistoryOK'
  BY <1>0, <1>12, RenewedStep DEF HistoryOK
<1>13. ASSUME NEW r \in Refreshers, RefreshFails(r) PROVE HistoryOK'
  BY <1>0, <1>13, RefreshFailsStep DEF HistoryOK
<1>14. CASE Expire
  BY <1>0, <1>14, ExpireStep DEF HistoryOK, ghosts
<1>15. CASE SignOut
  BY <1>0, <1>15, SignOutStep DEF HistoryOK
<1>16. ASSUME NEW b \in BOOLEAN, GatewayRestarts(b) PROVE HistoryOK'
  BY <1>0, <1>16, RestartStep DEF HistoryOK
<1>17. CASE UNCHANGED dcrVars
  BY <1>0, <1>17 DEF dcrVars, provider, ghosts, bounds, HistoryOK
<1> QED BY <1>1, <1>2, <1>3, <1>4, <1>5, <1>6, <1>7, <1>8, <1>9, <1>10, <1>11, <1>12, <1>13,
       <1>14, <1>15, <1>16, <1>17 DEF DcrNext, Handles, RefreshRuns
LEMMA CountersTyped == DcrIInv /\ [DcrNext]_dcrVars => CountersOK'
<1> SUFFICES ASSUME DcrIInv, [DcrNext]_dcrVars PROVE CountersOK'
  OBVIOUS
<1>0. DcrTypeOK /\ CountersOK
  BY TypeParts DEF DcrIInv
<1>1. ASSUME NEW f \in Flows, NEW o \in Origins, Start(f, o) PROVE CountersOK'
  BY <1>0, <1>1, StartStep DEF CountersOK, bounds
<1>2. ASSUME NEW f \in Flows, StartMeta(f) PROVE CountersOK'
  BY <1>0, <1>2, MetaStep DEF CountersOK, bounds
<1>3. ASSUME NEW f \in Flows, Register(f) PROVE CountersOK'
  BY <1>0, <1>3, RegisterStep DEF CountersOK, bounds
<1>4. ASSUME NEW f \in Flows, Consent(f) PROVE CountersOK'
  BY <1>0, <1>4, ConsentStep DEF CountersOK, bounds
<1>5. ASSUME NEW f \in Flows, Deny(f) \/ CallbackRefused(f) \/ FlowFails(f) PROVE CountersOK'
  BY <1>0, <1>5, PlainStep DEF CountersOK, bounds
<1>6. ASSUME NEW f \in Flows, Callback(f) PROVE CountersOK'
  BY <1>0, <1>6, CallbackStep DEF CountersOK, bounds
<1>7. ASSUME NEW f \in Flows, SendCode(f) PROVE CountersOK'
  BY <1>0, <1>7, SendCodeStep DEF CountersOK, bounds
<1>8. ASSUME NEW f \in Flows, Redeem(f) PROVE CountersOK'
  BY <1>0, <1>8, RedeemStep DEF CountersOK, bounds
<1>9. ASSUME NEW f \in Flows, TokenSaved(f) PROVE CountersOK'
  BY <1>0, <1>9, SavedStep DEF CountersOK, bounds
<1>10. ASSUME NEW r \in Refreshers, StartRefresh(r) \/ SendRefresh(r) PROVE CountersOK'
  BY <1>0, <1>10, CallStep DEF CountersOK, bounds
<1>11. ASSUME NEW r \in Refreshers, Renew(r) PROVE CountersOK'
  BY <1>0, <1>11, RenewStep DEF CountersOK, bounds
<1>12. ASSUME NEW r \in Refreshers, Renewed(r) PROVE CountersOK'
  BY <1>0, <1>12, RenewedStep DEF CountersOK, bounds
<1>13. ASSUME NEW r \in Refreshers, RefreshFails(r) PROVE CountersOK'
  BY <1>0, <1>13, RefreshFailsStep DEF CountersOK, bounds
<1>14. CASE Expire
  BY <1>0, <1>14, ExpireStep DEF CountersOK
<1>15. CASE SignOut
  BY <1>0, <1>15, SignOutStep DEF CountersOK
<1>16. ASSUME NEW b \in BOOLEAN, GatewayRestarts(b) PROVE CountersOK'
  BY <1>0, <1>16, RestartStep DEF CountersOK
<1>17. CASE UNCHANGED dcrVars
  BY <1>0, <1>17 DEF dcrVars, provider, ghosts, bounds, CountersOK
<1> QED BY <1>1, <1>2, <1>3, <1>4, <1>5, <1>6, <1>7, <1>8, <1>9, <1>10, <1>11, <1>12, <1>13,
       <1>14, <1>15, <1>16, <1>17 DEF DcrNext, Handles, RefreshRuns
LEMMA OriginsTyped == DcrIInv /\ [DcrNext]_dcrVars => OriginsOK'
<1> SUFFICES ASSUME DcrIInv, [DcrNext]_dcrVars PROVE OriginsOK'
  OBVIOUS
<1>0. DcrTypeOK /\ OriginsOK
  BY TypeParts DEF DcrIInv
<1>1. ASSUME NEW f \in Flows, NEW o \in Origins, Start(f, o) PROVE OriginsOK'
  BY <1>0, <1>1, StartStep DEF OriginsOK, OtherFlows
<1>2. ASSUME NEW f \in Flows, StartMeta(f) PROVE OriginsOK'
  BY <1>0, <1>2, MetaStep DEF OriginsOK, OtherFlows, SameAddress
<1>3. ASSUME NEW f \in Flows, Register(f) PROVE OriginsOK'
  BY <1>0, <1>3, RegisterStep DEF OriginsOK, OtherFlows, SameAddress
<1>4. ASSUME NEW f \in Flows, Consent(f) PROVE OriginsOK'
  BY <1>0, <1>4, ConsentStep DEF OriginsOK, OtherFlows, SameAddress
<1>5. ASSUME NEW f \in Flows, Deny(f) \/ CallbackRefused(f) \/ FlowFails(f) PROVE OriginsOK'
  BY <1>0, <1>5, PlainStep DEF OriginsOK, OtherFlows, SameAddress
<1>6. ASSUME NEW f \in Flows, Callback(f) PROVE OriginsOK'
  BY <1>0, <1>6, CallbackStep DEF OriginsOK, OtherFlows, SameAddress
<1>7. ASSUME NEW f \in Flows, SendCode(f) PROVE OriginsOK'
  BY <1>0, <1>7, SendCodeStep DEF OriginsOK, OtherFlows, SameAddress
<1>8. ASSUME NEW f \in Flows, Redeem(f) PROVE OriginsOK'
  BY <1>0, <1>8, RedeemStep DEF OriginsOK, OtherFlows, SameAddress
<1>9. ASSUME NEW f \in Flows, TokenSaved(f) PROVE OriginsOK'
  BY <1>0, <1>9, SavedStep DEF OriginsOK, OtherFlows, SameAddress
<1>10. ASSUME NEW r \in Refreshers, StartRefresh(r) \/ SendRefresh(r) PROVE OriginsOK'
  BY <1>0, <1>10, CallStep DEF OriginsOK
<1>11. ASSUME NEW r \in Refreshers, Renew(r) PROVE OriginsOK'
  BY <1>0, <1>11, RenewStep DEF OriginsOK
<1>12. ASSUME NEW r \in Refreshers, Renewed(r) PROVE OriginsOK'
  BY <1>0, <1>12, RenewedStep DEF OriginsOK
<1>13. ASSUME NEW r \in Refreshers, RefreshFails(r) PROVE OriginsOK'
  BY <1>0, <1>13, RefreshFailsStep DEF OriginsOK
<1>14. CASE Expire
  BY <1>0, <1>14, ExpireStep DEF OriginsOK
<1>15. CASE SignOut
  BY <1>0, <1>15, SignOutStep DEF OriginsOK, SameAddress
<1>16. ASSUME NEW b \in BOOLEAN, GatewayRestarts(b) PROVE OriginsOK'
  BY <1>0, <1>16, RestartStep DEF OriginsOK, SameAddress
<1>17. CASE UNCHANGED dcrVars
  BY <1>0, <1>17 DEF dcrVars, provider, ghosts, bounds, OriginsOK
<1> QED BY <1>1, <1>2, <1>3, <1>4, <1>5, <1>6, <1>7, <1>8, <1>9, <1>10, <1>11, <1>12, <1>13,
       <1>14, <1>15, <1>16, <1>17 DEF DcrNext, Handles, RefreshRuns

LEMMA OneMore ==
  ASSUME NEW n \in Nat, NEW S, S \subseteq 1..n, NEW m, m = n + 1
  PROVE  S \cup {m} \subseteq 1..m
OBVIOUS

\* The numbers a step moves are numbers.
DcrNumbers ==
  /\ client.id \in Nat /\ token.rt \in Nat /\ Len(regs) \in Nat /\ Len(issued) \in Nat
  /\ \A f \in Flows : flow[f].cid \in Nat /\ flow[f].rt \in Nat
  /\ \A r \in Refreshers : refresh[r].rt \in Nat /\ refresh[r].new \in Nat

LEMMA NumbersHold == DcrTypeOK => DcrNumbers
<1> SUFFICES ASSUME DcrTypeOK PROVE DcrNumbers
  OBVIOUS
<1>1. client.id \in Nat /\ token.rt \in Nat
  BY DEF DcrTypeOK, Client, Token
<1>2. Len(regs) \in Nat /\ Len(issued) \in Nat
  BY DEF DcrTypeOK
<1>3. \A f \in Flows : flow[f].cid \in Nat /\ flow[f].rt \in Nat
  BY DEF DcrTypeOK, SignIn
<1>4. \A r \in Refreshers : refresh[r].rt \in Nat /\ refresh[r].new \in Nat
  BY DEF DcrTypeOK, Renewal
<1> QED BY <1>1, <1>2, <1>3, <1>4 DEF DcrNumbers
LEMMA PointersStay == DcrIInv /\ [DcrNext]_dcrVars => PointsAtIssued'
<1> SUFFICES ASSUME DcrIInv, [DcrNext]_dcrVars PROVE PointsAtIssued'
  OBVIOUS
<1>0. DcrTypeOK /\ PointsAtIssued /\ DiskIsMemory
  BY DEF DcrIInv, DcrTypeOK
<1>1. ASSUME NEW f \in Flows, NEW o \in Origins, Start(f, o) PROVE PointsAtIssued'
  BY <1>0, <1>1, StartStep, NumbersHold DEF PointsAtIssued, DcrNumbers, OtherFlows, SameClient,
     SameCode, SameAnswer, SameHeld, SameProvider
<1>2. ASSUME NEW f \in Flows, StartMeta(f) PROVE PointsAtIssued'
  BY <1>0, <1>2, MetaStep, NumbersHold DEF PointsAtIssued, DcrNumbers, OtherFlows, SameCode,
     SameAnswer, SameHeld, SameProvider
<1>3. ASSUME NEW f \in Flows, Register(f) PROVE PointsAtIssued'
  <2>1. client'.id <= Len(regs') /\ token'.rt <= Len(issued')
    BY <1>0, <1>3, RegisterStep, NumbersHold DEF PointsAtIssued, DcrNumbers, SameHeld, SameProvider,
       OtherFlows, SameClient, SameAnswer, OtherRefreshes, NoRefresh
  <2>2. \A x \in Flows : flow'[x].cid <= Len(regs') /\ flow'[x].rt <= Len(issued')
    BY <1>0, <1>3, RegisterStep, NumbersHold DEF PointsAtIssued, DcrNumbers, SameHeld, SameProvider,
       OtherFlows, SameClient, SameAnswer, OtherRefreshes, NoRefresh
  <2>3. \A q \in Refreshers : refresh'[q].rt <= Len(issued') /\ refresh'[q].new <= Len(issued')
    BY <1>0, <1>3, RegisterStep, NumbersHold DEF PointsAtIssued, DcrNumbers, SameHeld, SameProvider,
       OtherFlows, SameClient, SameAnswer, OtherRefreshes, NoRefresh
  <2>4. live' \subseteq 1..Len(issued')
    BY <1>0, <1>3, RegisterStep, NumbersHold DEF PointsAtIssued, DcrNumbers, SameHeld, SameProvider,
       OtherFlows, SameClient, SameAnswer, OtherRefreshes, NoRefresh
  <2> QED BY <2>1, <2>2, <2>3, <2>4 DEF PointsAtIssued
<1>4. ASSUME NEW f \in Flows, Consent(f) PROVE PointsAtIssued'
  BY <1>0, <1>4, ConsentStep, NumbersHold DEF PointsAtIssued, DcrNumbers, OtherFlows, SameCode,
     SameAnswer, SameHeld, SameProvider
<1>5. ASSUME NEW f \in Flows, Deny(f) \/ CallbackRefused(f) \/ FlowFails(f) PROVE PointsAtIssued'
  BY <1>0, <1>5, PlainStep, NumbersHold DEF PointsAtIssued, DcrNumbers, OtherFlows, SameClient,
     SameCode, SameAnswer, SameHeld, SameProvider
<1>6. ASSUME NEW f \in Flows, Callback(f) PROVE PointsAtIssued'
  BY <1>0, <1>6, CallbackStep, NumbersHold DEF PointsAtIssued, DcrNumbers, OtherFlows, SameClient,
     SameCode, SameAnswer, SameHeld, SameProvider
<1>7. ASSUME NEW f \in Flows, SendCode(f) PROVE PointsAtIssued'
  BY <1>0, <1>7, SendCodeStep, NumbersHold DEF PointsAtIssued, DcrNumbers, OtherFlows, SameClient,
     SameAnswer, SameHeld, SameProvider
<1>8. ASSUME NEW f \in Flows, Redeem(f) PROVE PointsAtIssued'
  <2>0. /\ regs' = regs /\ client' = client /\ token' = token /\ refresh' = refresh
        /\ OtherFlows(f) /\ flow'[f].cid = flow[f].cid
        /\ \/ IssuesOne /\ flow'[f].rt = Len(issued') /\ live' = live \cup {Len(issued')}
           \/ flow'[f].rt = flow[f].rt /\ issued' = issued /\ live' = live
    BY <1>0, <1>8, RedeemStep DEF  SameHeld, SameClient, SameAnswer, NoRefresh
  <2>1. client'.id <= Len(regs') /\ token'.rt <= Len(issued')
    BY <1>0, <2>0, NumbersHold DEF PointsAtIssued, DcrNumbers, IssuesOne, OtherFlows, OtherRefreshes
  <2>2. \A x \in Flows : flow'[x].cid <= Len(regs') /\ flow'[x].rt <= Len(issued')
    BY <1>0, <2>0, NumbersHold DEF PointsAtIssued, DcrNumbers, IssuesOne, OtherFlows, OtherRefreshes
  <2>3. \A q \in Refreshers : refresh'[q].rt <= Len(issued') /\ refresh'[q].new <= Len(issued')
    BY <1>0, <2>0, NumbersHold DEF PointsAtIssued, DcrNumbers, IssuesOne, OtherFlows, OtherRefreshes
  <2>4. live' \subseteq 1..Len(issued')
    BY <1>0, <2>0, NumbersHold, OneMore DEF PointsAtIssued, DcrNumbers, IssuesOne, OtherFlows,
       OtherRefreshes
  <2> QED BY <2>1, <2>2, <2>3, <2>4 DEF PointsAtIssued
<1>9. ASSUME NEW f \in Flows, TokenSaved(f) PROVE PointsAtIssued'
  BY <1>0, <1>9, SavedStep, NumbersHold DEF PointsAtIssued, DcrNumbers, OtherFlows, SameClient,
     SameCode, SameAnswer, SameProvider
<1>10. ASSUME NEW r \in Refreshers, StartRefresh(r) \/ SendRefresh(r) PROVE PointsAtIssued'
  <2>1. client'.id <= Len(regs') /\ token'.rt <= Len(issued')
    BY <1>0, <1>10, CallStep, NumbersHold DEF PointsAtIssued, DcrNumbers, SameHeld, SameProvider,
       OtherFlows, SameClient, SameAnswer, OtherRefreshes, NoRefresh
  <2>2. \A x \in Flows : flow'[x].cid <= Len(regs') /\ flow'[x].rt <= Len(issued')
    BY <1>0, <1>10, CallStep, NumbersHold DEF PointsAtIssued, DcrNumbers, SameHeld, SameProvider,
       OtherFlows, SameClient, SameAnswer, OtherRefreshes, NoRefresh
  <2>3. \A q \in Refreshers : refresh'[q].rt <= Len(issued') /\ refresh'[q].new <= Len(issued')
    BY <1>0, <1>10, CallStep, NumbersHold DEF PointsAtIssued, DcrNumbers, SameHeld, SameProvider,
       OtherFlows, SameClient, SameAnswer, OtherRefreshes, NoRefresh
  <2>4. live' \subseteq 1..Len(issued')
    BY <1>0, <1>10, CallStep, NumbersHold DEF PointsAtIssued, DcrNumbers, SameHeld, SameProvider,
       OtherFlows, SameClient, SameAnswer, OtherRefreshes, NoRefresh
  <2> QED BY <2>1, <2>2, <2>3, <2>4 DEF PointsAtIssued
<1>11. ASSUME NEW r \in Refreshers, Renew(r) PROVE PointsAtIssued'
  <2>0. /\ regs' = regs /\ client' = client /\ token' = token /\ flow' = flow
        /\ OtherRefreshes(r)
        /\ \/ /\ IssuesOne /\ refresh'[r].new = Len(issued') /\ refresh'[r].rt = refresh[r].rt
              /\ live' = (live \ {refresh[r].rt}) \cup {Len(issued')}
           \/ /\ refresh'[r].new = 0 /\ refresh'[r].rt \in {0, refresh[r].rt}
              /\ issued' = issued /\ live' = live
    BY <1>0, <1>11, RenewStep DEF  SameHeld, SameClient, SameAnswer, NoRefresh
  <2>1. client'.id <= Len(regs') /\ token'.rt <= Len(issued')
    BY <1>0, <2>0, NumbersHold DEF PointsAtIssued, DcrNumbers, IssuesOne, OtherFlows, OtherRefreshes
  <2>2. \A x \in Flows : flow'[x].cid <= Len(regs') /\ flow'[x].rt <= Len(issued')
    BY <1>0, <2>0, NumbersHold DEF PointsAtIssued, DcrNumbers, IssuesOne, OtherFlows, OtherRefreshes
  <2>3. \A q \in Refreshers : refresh'[q].rt <= Len(issued') /\ refresh'[q].new <= Len(issued')
    BY <1>0, <2>0, NumbersHold DEF PointsAtIssued, DcrNumbers, IssuesOne, OtherFlows, OtherRefreshes
  <2>4. live' \subseteq 1..Len(issued')
    BY <1>0, <2>0, NumbersHold, OneMore DEF PointsAtIssued, DcrNumbers, IssuesOne, OtherFlows,
       OtherRefreshes
  <2> QED BY <2>1, <2>2, <2>3, <2>4 DEF PointsAtIssued
<1>12. ASSUME NEW r \in Refreshers, Renewed(r) PROVE PointsAtIssued'
  BY <1>0, <1>12, RenewedStep, NumbersHold DEF PointsAtIssued, DcrNumbers, NoRefresh, OtherRefreshes,
     SameProvider
<1>13. ASSUME NEW r \in Refreshers, RefreshFails(r) PROVE PointsAtIssued'
  <2>1. client'.id <= Len(regs') /\ token'.rt <= Len(issued')
    BY <1>0, <1>13, RefreshFailsStep, NumbersHold DEF PointsAtIssued, DcrNumbers, SameHeld,
       SameProvider, OtherFlows, SameClient, SameAnswer, OtherRefreshes, NoRefresh
  <2>2. \A x \in Flows : flow'[x].cid <= Len(regs') /\ flow'[x].rt <= Len(issued')
    BY <1>0, <1>13, RefreshFailsStep, NumbersHold DEF PointsAtIssued, DcrNumbers, SameHeld,
       SameProvider, OtherFlows, SameClient, SameAnswer, OtherRefreshes, NoRefresh
  <2>3. \A q \in Refreshers : refresh'[q].rt <= Len(issued') /\ refresh'[q].new <= Len(issued')
    BY <1>0, <1>13, RefreshFailsStep, NumbersHold DEF PointsAtIssued, DcrNumbers, SameHeld,
       SameProvider, OtherFlows, SameClient, SameAnswer, OtherRefreshes, NoRefresh
  <2>4. live' \subseteq 1..Len(issued')
    BY <1>0, <1>13, RefreshFailsStep, NumbersHold DEF PointsAtIssued, DcrNumbers, SameHeld,
       SameProvider, OtherFlows, SameClient, SameAnswer, OtherRefreshes, NoRefresh
  <2> QED BY <2>1, <2>2, <2>3, <2>4 DEF PointsAtIssued
<1>14. CASE Expire
  BY <1>0, <1>14, ExpireStep, NumbersHold DEF PointsAtIssued, DcrNumbers, SameProvider
<1>15. CASE SignOut
  <2>1. client'.id <= Len(regs') /\ token'.rt <= Len(issued')
    <3>1. client'.id = 0 /\ token'.rt = 0 /\ regs' = regs /\ issued' = issued
      BY <1>0, <1>15, SignOutStep, NothingHeld DEF SameProvider
    <3> QED BY <1>0, <3>1, NumbersHold DEF DcrNumbers
  <2>2. \A x \in Flows : flow'[x].cid <= Len(regs') /\ flow'[x].rt <= Len(issued')
    BY <1>0, <1>15, SignOutStep, NumbersHold DEF PointsAtIssued, DcrNumbers, SameHeld, SameProvider,
       OtherFlows, SameClient, SameAnswer, OtherRefreshes, NoRefresh
  <2>3. \A q \in Refreshers : refresh'[q].rt <= Len(issued') /\ refresh'[q].new <= Len(issued')
    BY <1>0, <1>15, SignOutStep, NumbersHold DEF PointsAtIssued, DcrNumbers, SameHeld, SameProvider,
       OtherFlows, SameClient, SameAnswer, OtherRefreshes, NoRefresh
  <2>4. live' \subseteq 1..Len(issued')
    BY <1>0, <1>15, SignOutStep, NumbersHold DEF PointsAtIssued, DcrNumbers, SameHeld, SameProvider,
       OtherFlows, SameClient, SameAnswer, OtherRefreshes, NoRefresh
  <2> QED BY <2>1, <2>2, <2>3, <2>4 DEF PointsAtIssued
<1>16. ASSUME NEW b \in BOOLEAN, GatewayRestarts(b) PROVE PointsAtIssued'
  <2>1. client' = client /\ token' \in {token, NoToken} /\ refresh' = [r \in Refreshers |-> NoRefresh]
    BY <1>0, <1>16, RestartHeld, RestartStep
  <2> QED BY <1>0, <2>1, <1>16, RestartStep, NumbersHold DEF PointsAtIssued, DcrNumbers, NoRefresh,
       NoToken, SameProvider, SameClient, SameAnswer
<1>17. CASE UNCHANGED dcrVars
  BY <1>0, <1>17 DEF dcrVars, provider, ghosts, bounds, PointsAtIssued, DcrNumbers, NoRefresh,
     NoToken, NoClient
<1> QED BY <1>1, <1>2, <1>3, <1>4, <1>5, <1>6, <1>7, <1>8, <1>9, <1>10, <1>11, <1>12, <1>13,
       <1>14, <1>15, <1>16, <1>17 DEF DcrNext, Handles, RefreshRuns

LEMMA RegistrationsStay == DcrIInv /\ [DcrNext]_dcrVars => ClientIsRegistered'
<1> SUFFICES ASSUME DcrIInv, [DcrNext]_dcrVars PROVE ClientIsRegistered'
  OBVIOUS
<1>0. DcrTypeOK /\ PointsAtIssued /\ ClientIsRegistered /\ DiskIsMemory
  BY DEF DcrIInv, DcrTypeOK
<1>1. ASSUME NEW f \in Flows, NEW o \in Origins, Start(f, o) PROVE ClientIsRegistered'
  BY <1>0, <1>1, StartStep, NumbersHold DEF ClientIsRegistered, PointsAtIssued, DcrNumbers,
     OtherFlows, SameClient, SameAnswer, SameHeld, SameProvider
<1>2. ASSUME NEW f \in Flows, StartMeta(f) PROVE ClientIsRegistered'
  BY <1>0, <1>2, MetaStep, NumbersHold DEF ClientIsRegistered, PointsAtIssued, DcrNumbers,
     OtherFlows, SameAnswer, SameHeld, SameProvider
<1>3. ASSUME NEW f \in Flows, Register(f) PROVE ClientIsRegistered'
  BY <1>0, <1>3, RegisterStep, NumbersHold DEF ClientIsRegistered, PointsAtIssued, DcrNumbers,
     OtherFlows, SameAnswer
<1>4. ASSUME NEW f \in Flows, Consent(f) PROVE ClientIsRegistered'
  BY <1>0, <1>4, ConsentStep, NumbersHold DEF ClientIsRegistered, PointsAtIssued, DcrNumbers,
     OtherFlows, SameAnswer, SameHeld, SameProvider
<1>5. ASSUME NEW f \in Flows, Deny(f) \/ CallbackRefused(f) \/ FlowFails(f)
      PROVE  ClientIsRegistered'
  BY <1>0, <1>5, PlainStep, NumbersHold DEF ClientIsRegistered, PointsAtIssued, DcrNumbers,
     OtherFlows, SameClient, SameAnswer, SameHeld, SameProvider
<1>6. ASSUME NEW f \in Flows, Callback(f) PROVE ClientIsRegistered'
  BY <1>0, <1>6, CallbackStep, NumbersHold DEF ClientIsRegistered, PointsAtIssued, DcrNumbers,
     OtherFlows, SameClient, SameAnswer, SameHeld, SameProvider
<1>7. ASSUME NEW f \in Flows, SendCode(f) PROVE ClientIsRegistered'
  BY <1>0, <1>7, SendCodeStep, NumbersHold DEF ClientIsRegistered, PointsAtIssued, DcrNumbers,
     OtherFlows, SameClient, SameAnswer, SameHeld, SameProvider
<1>8. ASSUME NEW f \in Flows, Redeem(f) PROVE ClientIsRegistered'
  BY <1>0, <1>8, RedeemStep, NumbersHold DEF ClientIsRegistered, PointsAtIssued, DcrNumbers,
     OtherFlows, SameClient, SameAnswer, SameHeld
<1>9. ASSUME NEW f \in Flows, TokenSaved(f) PROVE ClientIsRegistered'
  BY <1>0, <1>9, SavedStep, NumbersHold DEF ClientIsRegistered, PointsAtIssued, DcrNumbers,
     OtherFlows, SameClient, SameAnswer, SameProvider
<1>10. ASSUME NEW r \in Refreshers, StartRefresh(r) \/ SendRefresh(r) PROVE ClientIsRegistered'
  BY <1>0, <1>10, CallStep, NumbersHold DEF ClientIsRegistered, PointsAtIssued, DcrNumbers,
     OtherRefreshes, SameHeld, SameProvider
<1>11. ASSUME NEW r \in Refreshers, Renew(r) PROVE ClientIsRegistered'
  BY <1>0, <1>11, RenewStep, NumbersHold DEF ClientIsRegistered, PointsAtIssued, DcrNumbers,
     OtherRefreshes, SameHeld
<1>12. ASSUME NEW r \in Refreshers, Renewed(r) PROVE ClientIsRegistered'
  BY <1>0, <1>12, RenewedStep, NumbersHold DEF ClientIsRegistered, PointsAtIssued, DcrNumbers,
     OtherRefreshes, SameProvider
<1>13. ASSUME NEW r \in Refreshers, RefreshFails(r) PROVE ClientIsRegistered'
  BY <1>0, <1>13, RefreshFailsStep, NumbersHold DEF ClientIsRegistered, PointsAtIssued, DcrNumbers,
     OtherRefreshes, SameHeld, SameProvider
<1>14. CASE Expire
  BY <1>0, <1>14, ExpireStep, NumbersHold DEF ClientIsRegistered, PointsAtIssued, DcrNumbers,
     SameProvider
<1>15. CASE SignOut
  BY <1>0, <1>15, SignOutStep, NumbersHold, NothingHeld DEF ClientIsRegistered, PointsAtIssued,
     DcrNumbers, SameClient, SameAnswer, SameProvider
<1>16. ASSUME NEW b \in BOOLEAN, GatewayRestarts(b) PROVE ClientIsRegistered'
  BY <1>0, <1>16, RestartHeld, RestartStep DEF ClientIsRegistered, SameProvider
<1>17. CASE UNCHANGED dcrVars
  BY <1>0, <1>17 DEF dcrVars, provider, ghosts, bounds, ClientIsRegistered, PointsAtIssued, DcrNumbers
<1> QED BY <1>1, <1>2, <1>3, <1>4, <1>5, <1>6, <1>7, <1>8, <1>9, <1>10, <1>11, <1>12, <1>13,
       <1>14, <1>15, <1>16, <1>17 DEF DcrNext, Handles, RefreshRuns
LEMMA SentAsRegisteredStays == DcrIInv /\ [DcrNext]_dcrVars => NobodyIsSentAstray'
<1> SUFFICES ASSUME DcrIInv, [DcrNext]_dcrVars PROVE NobodyIsSentAstray'
  OBVIOUS
<1>0. DcrTypeOK /\ PointsAtIssued /\ ClientIsRegistered /\ NobodyIsSentAstray /\ FreshFlows
  BY DEF DcrIInv, DcrTypeOK
<1>1. ASSUME NEW f \in Flows, NEW o \in Origins, Start(f, o) PROVE NobodyIsSentAstray'
  BY <1>0, <1>1, StartStep, NumbersHold DEF ClientIsRegistered, NobodyIsSentAstray,
     PointsAtIssued, DcrNumbers, FreshFlows, OtherFlows, SameClient, SameAnswer, SameHeld,
     SameProvider, ghosts
<1>2. ASSUME NEW f \in Flows, StartMeta(f) PROVE NobodyIsSentAstray'
  BY <1>0, <1>2, MetaStep, NumbersHold DEF ClientIsRegistered, NobodyIsSentAstray, PointsAtIssued,
     DcrNumbers, FreshFlows, OtherFlows, SameAddress, SameAnswer, SameHeld, SameProvider, ghosts
<1>3. ASSUME NEW f \in Flows, Register(f) PROVE NobodyIsSentAstray'
  BY <1>0, <1>3, RegisterStep, NumbersHold DEF ClientIsRegistered, NobodyIsSentAstray,
     PointsAtIssued, DcrNumbers, FreshFlows, OtherFlows, SameAddress, SameAnswer, ghosts
<1>4. ASSUME NEW f \in Flows, Consent(f) PROVE NobodyIsSentAstray'
  BY <1>0, <1>4, ConsentStep, NumbersHold DEF ClientIsRegistered, NobodyIsSentAstray,
     PointsAtIssued, DcrNumbers, FreshFlows, OtherFlows, SameAddress, SameAnswer, SameHeld,
     SameProvider, ghosts
<1>5. ASSUME NEW f \in Flows, Deny(f) \/ CallbackRefused(f) \/ FlowFails(f)
      PROVE  NobodyIsSentAstray'
  BY <1>0, <1>5, PlainStep, NumbersHold DEF ClientIsRegistered, NobodyIsSentAstray,
     PointsAtIssued, DcrNumbers, FreshFlows, OtherFlows, SameAddress, SameClient, SameAnswer,
     SameHeld, SameProvider, ghosts
<1>6. ASSUME NEW f \in Flows, Callback(f) PROVE NobodyIsSentAstray'
  BY <1>0, <1>6, CallbackStep, NumbersHold DEF ClientIsRegistered, NobodyIsSentAstray,
     PointsAtIssued, DcrNumbers, FreshFlows, OtherFlows, SameAddress, SameClient, SameAnswer,
     SameHeld, SameProvider, ghosts
<1>7. ASSUME NEW f \in Flows, SendCode(f) PROVE NobodyIsSentAstray'
  BY <1>0, <1>7, SendCodeStep, NumbersHold DEF ClientIsRegistered, NobodyIsSentAstray,
     PointsAtIssued, DcrNumbers, FreshFlows, OtherFlows, SameAddress, SameClient, SameAnswer,
     SameHeld, SameProvider
<1>8. ASSUME NEW f \in Flows, Redeem(f) PROVE NobodyIsSentAstray'
  BY <1>0, <1>8, RedeemStep, NumbersHold DEF ClientIsRegistered, NobodyIsSentAstray,
     PointsAtIssued, DcrNumbers, FreshFlows, OtherFlows, SameAddress, SameClient, SameAnswer,
     SameHeld, ghosts
<1>9. ASSUME NEW f \in Flows, TokenSaved(f) PROVE NobodyIsSentAstray'
  BY <1>0, <1>9, SavedStep, NumbersHold DEF ClientIsRegistered, NobodyIsSentAstray,
     PointsAtIssued, DcrNumbers, FreshFlows, OtherFlows, SameAddress, SameClient, SameAnswer,
     SameProvider
<1>10. ASSUME NEW r \in Refreshers, StartRefresh(r) \/ SendRefresh(r) PROVE NobodyIsSentAstray'
  BY <1>0, <1>10, CallStep, NumbersHold DEF ClientIsRegistered, NobodyIsSentAstray,
     PointsAtIssued, DcrNumbers, FreshFlows, OtherRefreshes, SameHeld, SameProvider, ghosts
<1>11. ASSUME NEW r \in Refreshers, Renew(r) PROVE NobodyIsSentAstray'
  BY <1>0, <1>11, RenewStep, NumbersHold DEF ClientIsRegistered, NobodyIsSentAstray,
     PointsAtIssued, DcrNumbers, FreshFlows, OtherRefreshes, SameHeld, ghosts
<1>12. ASSUME NEW r \in Refreshers, Renewed(r) PROVE NobodyIsSentAstray'
  BY <1>0, <1>12, RenewedStep, NumbersHold DEF ClientIsRegistered, NobodyIsSentAstray,
     PointsAtIssued, DcrNumbers, FreshFlows, OtherRefreshes, SameProvider
<1>13. ASSUME NEW r \in Refreshers, RefreshFails(r) PROVE NobodyIsSentAstray'
  BY <1>0, <1>13, RefreshFailsStep, NumbersHold DEF ClientIsRegistered, NobodyIsSentAstray,
     PointsAtIssued, DcrNumbers, FreshFlows, OtherRefreshes, SameHeld, SameProvider
<1>14. CASE Expire
  BY <1>0, <1>14, ExpireStep, NumbersHold DEF ClientIsRegistered, NobodyIsSentAstray,
     PointsAtIssued, DcrNumbers, FreshFlows, SameProvider, ghosts
<1>15. CASE SignOut
  BY <1>0, <1>15, SignOutStep, NumbersHold, NothingHeld DEF ClientIsRegistered,
     NobodyIsSentAstray, PointsAtIssued, DcrNumbers, FreshFlows, SameAddress, SameClient, SameAnswer,
     SameProvider
<1>16. ASSUME NEW b \in BOOLEAN, GatewayRestarts(b) PROVE NobodyIsSentAstray'
  BY <1>0, <1>16, RestartStep, NumbersHold, NothingHeld DEF ClientIsRegistered,
     NobodyIsSentAstray, PointsAtIssued, DcrNumbers, FreshFlows, SameAddress, SameClient, SameAnswer,
     SameProvider
<1>17. CASE UNCHANGED dcrVars
  BY <1>0, <1>17 DEF dcrVars, provider, ghosts, bounds, ClientIsRegistered, NobodyIsSentAstray,
     PointsAtIssued, DcrNumbers, FreshFlows
<1> QED BY <1>1, <1>2, <1>3, <1>4, <1>5, <1>6, <1>7, <1>8, <1>9, <1>10, <1>11, <1>12, <1>13,
       <1>14, <1>15, <1>16, <1>17 DEF DcrNext, Handles, RefreshRuns
LEMMA CodedStay == DcrIInv /\ [DcrNext]_dcrVars => CodedFlows'
<1> SUFFICES ASSUME DcrIInv, [DcrNext]_dcrVars PROVE CodedFlows'
  OBVIOUS
<1>0. DcrTypeOK /\ CodedFlows /\ DcrNumbers
  BY NumbersHold DEF DcrIInv
<1>1. ASSUME NEW f \in Flows, NEW o \in Origins, Start(f, o) PROVE CodedFlows'
  BY <1>0, <1>1, StartStep DEF CodedFlows, DcrNumbers, OtherFlows, SameClient, SameAnswer, SameHeld,
     SameProvider
<1>2. ASSUME NEW f \in Flows, StartMeta(f) PROVE CodedFlows'
  BY <1>0, <1>2, MetaStep DEF CodedFlows, DcrNumbers, OtherFlows, SameAnswer, SameHeld, SameProvider
<1>3. ASSUME NEW f \in Flows, Register(f) PROVE CodedFlows'
  <2>1. client'.id # 0
    BY <1>0, <1>3, RegisterStep DEF DcrNumbers
  <2> QED BY <1>0, <2>1, <1>3, RegisterStep DEF CodedFlows, OtherFlows
<1>4. ASSUME NEW f \in Flows, Consent(f) PROVE CodedFlows'
  BY <1>0, <1>4, ConsentStep DEF CodedFlows, DcrNumbers, OtherFlows, SameAnswer, SameHeld, SameProvider
<1>5. ASSUME NEW f \in Flows, Deny(f) \/ CallbackRefused(f) \/ FlowFails(f) PROVE CodedFlows'
  BY <1>0, <1>5, PlainStep DEF CodedFlows, DcrNumbers, OtherFlows, SameClient, SameAnswer, SameHeld,
     SameProvider
<1>6. ASSUME NEW f \in Flows, Callback(f) PROVE CodedFlows'
  BY <1>0, <1>6, CallbackStep DEF CodedFlows, DcrNumbers, OtherFlows, SameClient, SameAnswer,
     SameHeld, SameProvider
<1>7. ASSUME NEW f \in Flows, SendCode(f) PROVE CodedFlows'
  BY <1>0, <1>7, SendCodeStep DEF CodedFlows, DcrNumbers, OtherFlows, SameClient, SameAnswer,
     SameHeld, SameProvider
<1>8. ASSUME NEW f \in Flows, Redeem(f) PROVE CodedFlows'
  BY <1>0, <1>8, RedeemStep DEF CodedFlows, DcrNumbers, OtherFlows, SameClient, SameAnswer, SameHeld
<1>9. ASSUME NEW f \in Flows, TokenSaved(f) PROVE CodedFlows'
  BY <1>0, <1>9, SavedStep DEF CodedFlows, DcrNumbers, OtherFlows, SameClient, SameAnswer, SameProvider
<1>10. ASSUME NEW r \in Refreshers, StartRefresh(r) \/ SendRefresh(r) PROVE CodedFlows'
  BY <1>0, <1>10, CallStep DEF CodedFlows, DcrNumbers, OtherRefreshes, SameHeld, SameProvider
<1>11. ASSUME NEW r \in Refreshers, Renew(r) PROVE CodedFlows'
  BY <1>0, <1>11, RenewStep DEF CodedFlows, DcrNumbers, OtherRefreshes, SameHeld
<1>12. ASSUME NEW r \in Refreshers, Renewed(r) PROVE CodedFlows'
  BY <1>0, <1>12, RenewedStep DEF CodedFlows, DcrNumbers, OtherRefreshes, SameProvider
<1>13. ASSUME NEW r \in Refreshers, RefreshFails(r) PROVE CodedFlows'
  BY <1>0, <1>13, RefreshFailsStep DEF CodedFlows, DcrNumbers, OtherRefreshes, SameHeld, SameProvider
<1>14. CASE Expire
  BY <1>0, <1>14, ExpireStep DEF CodedFlows, DcrNumbers, SameProvider
<1>15. CASE SignOut
  BY <1>0, <1>15, SignOutStep DEF CodedFlows, DcrNumbers, SameClient, SameAnswer, SameProvider
<1>16. ASSUME NEW b \in BOOLEAN, GatewayRestarts(b) PROVE CodedFlows'
  BY <1>0, <1>16, RestartStep DEF CodedFlows, DcrNumbers, SameClient, SameAnswer, SameProvider
<1>17. CASE UNCHANGED dcrVars
  BY <1>0, <1>17 DEF dcrVars, provider, ghosts, bounds, CodedFlows, DcrNumbers
<1> QED BY <1>1, <1>2, <1>3, <1>4, <1>5, <1>6, <1>7, <1>8, <1>9, <1>10, <1>11, <1>12, <1>13,
       <1>14, <1>15, <1>16, <1>17 DEF DcrNext, Handles, RefreshRuns
LEMMA ConsentsStay ==
  DcrIInv /\ [DcrNext]_dcrVars => \A x \in Flows : flow[x].coded => flow'[x].coded
<1> SUFFICES ASSUME DcrIInv, [DcrNext]_dcrVars
             PROVE  \A x \in Flows : flow[x].coded => flow'[x].coded
  OBVIOUS
<1>0. DcrTypeOK
  BY DEF DcrIInv
<1>1. ASSUME NEW f \in Flows, NEW o \in Origins, Start(f, o)
      PROVE  \A x \in Flows : flow[x].coded => flow'[x].coded
  BY <1>0, <1>1, StartStep DEF OtherFlows, SameClient
<1>2. ASSUME NEW f \in Flows, StartMeta(f) PROVE \A x \in Flows : flow[x].coded => flow'[x].coded
  BY <1>0, <1>2, MetaStep DEF OtherFlows
<1>3. ASSUME NEW f \in Flows, Register(f) PROVE \A x \in Flows : flow[x].coded => flow'[x].coded
  BY <1>0, <1>3, RegisterStep DEF OtherFlows
<1>4. ASSUME NEW f \in Flows, Consent(f) PROVE \A x \in Flows : flow[x].coded => flow'[x].coded
  BY <1>0, <1>4, ConsentStep DEF OtherFlows
<1>5. ASSUME NEW f \in Flows, Deny(f) \/ CallbackRefused(f) \/ FlowFails(f)
      PROVE  \A x \in Flows : flow[x].coded => flow'[x].coded
  BY <1>0, <1>5, PlainStep DEF OtherFlows, SameClient
<1>6. ASSUME NEW f \in Flows, Callback(f) PROVE \A x \in Flows : flow[x].coded => flow'[x].coded
  BY <1>0, <1>6, CallbackStep DEF OtherFlows, SameClient
<1>7. ASSUME NEW f \in Flows, SendCode(f) PROVE \A x \in Flows : flow[x].coded => flow'[x].coded
  BY <1>0, <1>7, SendCodeStep DEF OtherFlows, SameClient
<1>8. ASSUME NEW f \in Flows, Redeem(f) PROVE \A x \in Flows : flow[x].coded => flow'[x].coded
  BY <1>0, <1>8, RedeemStep DEF OtherFlows, SameClient
<1>9. ASSUME NEW f \in Flows, TokenSaved(f) PROVE \A x \in Flows : flow[x].coded => flow'[x].coded
  BY <1>0, <1>9, SavedStep DEF OtherFlows, SameClient
<1>10. ASSUME NEW r \in Refreshers, StartRefresh(r) \/ SendRefresh(r)
       PROVE  \A x \in Flows : flow[x].coded => flow'[x].coded
  BY <1>0, <1>10, CallStep
<1>11. ASSUME NEW r \in Refreshers, Renew(r) PROVE \A x \in Flows : flow[x].coded => flow'[x].coded
  BY <1>0, <1>11, RenewStep
<1>12. ASSUME NEW r \in Refreshers, Renewed(r)
       PROVE  \A x \in Flows : flow[x].coded => flow'[x].coded
  BY <1>0, <1>12, RenewedStep
<1>13. ASSUME NEW r \in Refreshers, RefreshFails(r)
       PROVE  \A x \in Flows : flow[x].coded => flow'[x].coded
  BY <1>0, <1>13, RefreshFailsStep
<1>14. CASE Expire
  BY <1>0, <1>14, ExpireStep
<1>15. CASE SignOut
  BY <1>0, <1>15, SignOutStep DEF SameClient
<1>16. ASSUME NEW b \in BOOLEAN, GatewayRestarts(b)
       PROVE  \A x \in Flows : flow[x].coded => flow'[x].coded
  BY <1>0, <1>16, RestartStep DEF SameClient
<1>17. CASE UNCHANGED dcrVars
  BY <1>0, <1>17 DEF dcrVars, provider, ghosts, bounds, FlowPc
<1> QED BY <1>1, <1>2, <1>3, <1>4, <1>5, <1>6, <1>7, <1>8, <1>9, <1>10, <1>11, <1>12, <1>13,
       <1>14, <1>15, <1>16, <1>17 DEF DcrNext, Handles, RefreshRuns

LEMMA IssuedTyped == DcrTypeOK => \A i \in 1..Len(issued) : issued[i].flow \in Flows
<1> SUFFICES ASSUME DcrTypeOK, NEW i \in 1..Len(issued) PROVE issued[i].flow \in Flows
  OBVIOUS
<1>1. issued \in Seq([flow : Flows, cid : Nat])
  BY DEF DcrTypeOK
<1>2. issued[i] \in [flow : Flows, cid : Nat]
  BY ONLY <1>1, i \in 1..Len(issued), ElementTyped
<1> QED BY <1>2
LEMMA IssuedToConsentStays == DcrIInv /\ [DcrNext]_dcrVars => IssuedToConsent'
<1> SUFFICES ASSUME DcrIInv, [DcrNext]_dcrVars PROVE IssuedToConsent'
  OBVIOUS
<1>0. DcrTypeOK /\ PointsAtIssued /\ IssuedToConsent /\ CodedFlows /\ DcrIInv /\ [DcrNext]_dcrVars
  BY DEF DcrIInv, DcrTypeOK
<1>1. ASSUME NEW f \in Flows, NEW o \in Origins, Start(f, o) PROVE IssuedToConsent'
  <2>1. issued' = issued
    BY <1>0, <1>1, StartStep DEF SameProvider, ghosts
  <2> QED BY <1>0, <2>1, ConsentsStay, IssuedTyped DEF IssuedToConsent
<1>2. ASSUME NEW f \in Flows, StartMeta(f) PROVE IssuedToConsent'
  <2>1. issued' = issued
    BY <1>0, <1>2, MetaStep DEF SameProvider, ghosts
  <2> QED BY <1>0, <2>1, ConsentsStay, IssuedTyped DEF IssuedToConsent
<1>3. ASSUME NEW f \in Flows, Register(f) PROVE IssuedToConsent'
  <2>1. issued' = issued
    BY <1>0, <1>3, RegisterStep DEF SameProvider, ghosts
  <2> QED BY <1>0, <2>1, ConsentsStay, IssuedTyped DEF IssuedToConsent
<1>4. ASSUME NEW f \in Flows, Consent(f) PROVE IssuedToConsent'
  <2>1. issued' = issued
    BY <1>0, <1>4, ConsentStep DEF SameProvider, ghosts
  <2> QED BY <1>0, <2>1, ConsentsStay, IssuedTyped DEF IssuedToConsent
<1>5. ASSUME NEW f \in Flows, Deny(f) \/ CallbackRefused(f) \/ FlowFails(f) PROVE IssuedToConsent'
  <2>1. issued' = issued
    BY <1>0, <1>5, PlainStep DEF SameProvider, ghosts
  <2> QED BY <1>0, <2>1, ConsentsStay, IssuedTyped DEF IssuedToConsent
<1>6. ASSUME NEW f \in Flows, Callback(f) PROVE IssuedToConsent'
  <2>1. issued' = issued
    BY <1>0, <1>6, CallbackStep DEF SameProvider, ghosts
  <2> QED BY <1>0, <2>1, ConsentsStay, IssuedTyped DEF IssuedToConsent
<1>7. ASSUME NEW f \in Flows, SendCode(f) PROVE IssuedToConsent'
  <2>1. issued' = issued
    BY <1>0, <1>7, SendCodeStep DEF SameProvider, ghosts
  <2> QED BY <1>0, <2>1, ConsentsStay, IssuedTyped DEF IssuedToConsent
<1>8. ASSUME NEW f \in Flows, Redeem(f) PROVE IssuedToConsent'
  <2>0. CASE issued' = issued
    BY <1>0, <2>0, ConsentsStay, IssuedTyped DEF IssuedToConsent
  <2>1. ASSUME IssuesOne, NEW g \in Flows, flow[g].coded, issued'[Len(issued')].flow = g
        PROVE  IssuedToConsent'
    <3> SUFFICES ASSUME NEW i \in 1..Len(issued') PROVE flow'[issued'[i].flow].coded
      BY DEF IssuedToConsent
    <3>1. CASE i = Len(issued')
      BY <2>1, <3>1, <1>0, ConsentsStay
    <3>2. CASE i # Len(issued')
      <4>1. i \in 1..Len(issued) /\ issued'[i] = issued[i]
        BY <2>1, <3>2, NumbersHold, <1>0 DEF IssuesOne, DcrNumbers
      <4> QED BY <4>1, <1>0, ConsentsStay, IssuedTyped DEF IssuedToConsent
    <3> QED BY <3>1, <3>2
  <2> QED BY <1>0, <2>0, <2>1, <1>8, RedeemStep DEF CodedFlows
<1>9. ASSUME NEW f \in Flows, TokenSaved(f) PROVE IssuedToConsent'
  <2>1. issued' = issued
    BY <1>0, <1>9, SavedStep DEF SameProvider, ghosts
  <2> QED BY <1>0, <2>1, ConsentsStay, IssuedTyped DEF IssuedToConsent
<1>10. ASSUME NEW r \in Refreshers, StartRefresh(r) \/ SendRefresh(r) PROVE IssuedToConsent'
  <2>1. issued' = issued
    BY <1>0, <1>10, CallStep DEF SameProvider, ghosts
  <2> QED BY <1>0, <2>1, ConsentsStay, IssuedTyped DEF IssuedToConsent
<1>11. ASSUME NEW r \in Refreshers, Renew(r) PROVE IssuedToConsent'
  <2>0. CASE issued' = issued
    BY <1>0, <2>0, ConsentsStay, IssuedTyped DEF IssuedToConsent
  <2>1. ASSUME IssuesOne, NEW g \in Flows, flow[g].coded, issued'[Len(issued')].flow = g
        PROVE  IssuedToConsent'
    <3> SUFFICES ASSUME NEW i \in 1..Len(issued') PROVE flow'[issued'[i].flow].coded
      BY DEF IssuedToConsent
    <3>1. CASE i = Len(issued')
      BY <2>1, <3>1, <1>0, ConsentsStay
    <3>2. CASE i # Len(issued')
      <4>1. i \in 1..Len(issued) /\ issued'[i] = issued[i]
        BY <2>1, <3>2, NumbersHold, <1>0 DEF IssuesOne, DcrNumbers
      <4> QED BY <4>1, <1>0, ConsentsStay, IssuedTyped DEF IssuedToConsent
    <3> QED BY <3>1, <3>2
  <2>2. refresh[r].rt \in live => refresh[r].rt \in 1..Len(issued)
    BY <1>0 DEF PointsAtIssued
  <2> QED BY <1>0, <2>0, <2>1, <2>2, <1>11, RenewStep, IssuedTyped DEF IssuedToConsent
<1>12. ASSUME NEW r \in Refreshers, Renewed(r) PROVE IssuedToConsent'
  <2>1. issued' = issued
    BY <1>0, <1>12, RenewedStep DEF SameProvider, ghosts
  <2> QED BY <1>0, <2>1, ConsentsStay, IssuedTyped DEF IssuedToConsent
<1>13. ASSUME NEW r \in Refreshers, RefreshFails(r) PROVE IssuedToConsent'
  <2>1. issued' = issued
    BY <1>0, <1>13, RefreshFailsStep DEF SameProvider, ghosts
  <2> QED BY <1>0, <2>1, ConsentsStay, IssuedTyped DEF IssuedToConsent
<1>14. CASE Expire
  <2>1. issued' = issued
    BY <1>0, <1>14, ExpireStep DEF SameProvider, ghosts
  <2> QED BY <1>0, <2>1, ConsentsStay, IssuedTyped DEF IssuedToConsent
<1>15. CASE SignOut
  <2>1. issued' = issued
    BY <1>0, <1>15, SignOutStep DEF SameProvider, ghosts
  <2> QED BY <1>0, <2>1, ConsentsStay, IssuedTyped DEF IssuedToConsent
<1>16. ASSUME NEW b \in BOOLEAN, GatewayRestarts(b) PROVE IssuedToConsent'
  <2>1. issued' = issued
    BY <1>0, <1>16, RestartStep DEF SameProvider, ghosts
  <2> QED BY <1>0, <2>1, ConsentsStay, IssuedTyped DEF IssuedToConsent
<1>17. CASE UNCHANGED dcrVars
  BY <1>0, <1>17 DEF dcrVars, provider, IssuedToConsent
<1> QED BY <1>1, <1>2, <1>3, <1>4, <1>5, <1>6, <1>7, <1>8, <1>9, <1>10, <1>11, <1>12, <1>13,
       <1>14, <1>15, <1>16, <1>17 DEF DcrNext, Handles, RefreshRuns
LEMMA CutStay == DcrIInv /\ [DcrNext]_dcrVars => CutFlows'
<1> SUFFICES ASSUME DcrIInv, [DcrNext]_dcrVars PROVE CutFlows'
  OBVIOUS
<1>0. DcrTypeOK /\ PointsAtIssued /\ CodedFlows /\ CutFlows /\ FreshFlows /\ cut \subseteq Flows /\ DiskIsMemory
  BY DEF DcrIInv, DcrTypeOK
<1>1. ASSUME NEW f \in Flows, NEW o \in Origins, Start(f, o) PROVE CutFlows'
  BY <1>0, <1>1, StartStep, NumbersHold DEF CutFlows, FreshFlows, CodedFlows, PointsAtIssued,
     DcrNumbers, OtherFlows, SameClient, SameCode, SameAnswer, SameHeld, SameProvider, ghosts
<1>2. ASSUME NEW f \in Flows, StartMeta(f) PROVE CutFlows'
  BY <1>0, <1>2, MetaStep, NumbersHold DEF CutFlows, FreshFlows, CodedFlows, PointsAtIssued,
     DcrNumbers, OtherFlows, SameCode, SameAnswer, SameHeld, SameProvider, ghosts
<1>3. ASSUME NEW f \in Flows, Register(f) PROVE CutFlows'
  BY <1>0, <1>3, RegisterStep, NumbersHold DEF CutFlows, FreshFlows, CodedFlows, PointsAtIssued,
     DcrNumbers, OtherFlows, SameCode, SameAnswer, ghosts
<1>4. ASSUME NEW f \in Flows, Consent(f) PROVE CutFlows'
  BY <1>0, <1>4, ConsentStep, NumbersHold DEF CutFlows, FreshFlows, CodedFlows, PointsAtIssued,
     DcrNumbers, OtherFlows, SameCode, SameAnswer, SameHeld, SameProvider, ghosts
<1>5. ASSUME NEW f \in Flows, Deny(f) \/ CallbackRefused(f) \/ FlowFails(f) PROVE CutFlows'
  BY <1>0, <1>5, PlainStep, NumbersHold DEF CutFlows, FreshFlows, CodedFlows, PointsAtIssued,
     DcrNumbers, OtherFlows, SameClient, SameCode, SameAnswer, SameHeld, SameProvider, ghosts
<1>6. ASSUME NEW f \in Flows, Callback(f) PROVE CutFlows'
  BY <1>0, <1>6, CallbackStep, NumbersHold DEF CutFlows, FreshFlows, CodedFlows, PointsAtIssued,
     DcrNumbers, OtherFlows, SameClient, SameCode, SameAnswer, SameHeld, SameProvider, ghosts
<1>7. ASSUME NEW f \in Flows, SendCode(f) PROVE CutFlows'
  BY <1>0, <1>7, SendCodeStep, NumbersHold DEF CutFlows, FreshFlows, CodedFlows, PointsAtIssued,
     DcrNumbers, OtherFlows, SameClient, SameAnswer, SameHeld, SameProvider
<1>8. ASSUME NEW f \in Flows, Redeem(f) PROVE CutFlows'
  BY <1>0, <1>8, RedeemStep, NumbersHold DEF CutFlows, FreshFlows, CodedFlows, PointsAtIssued,
     DcrNumbers, OtherFlows, SameClient, SameCode, SameAnswer, SameHeld, ghosts
<1>9. ASSUME NEW f \in Flows, TokenSaved(f) PROVE CutFlows'
  BY <1>0, <1>9, SavedStep, NumbersHold DEF CutFlows, FreshFlows, CodedFlows, PointsAtIssued,
     DcrNumbers, OtherFlows, SameClient, SameCode, SameAnswer, SameProvider
<1>10. ASSUME NEW r \in Refreshers, StartRefresh(r) \/ SendRefresh(r) PROVE CutFlows'
  BY <1>0, <1>10, CallStep, NumbersHold DEF CutFlows, FreshFlows, CodedFlows, PointsAtIssued,
     DcrNumbers, OtherRefreshes, SameHeld, SameProvider, ghosts
<1>11. ASSUME NEW r \in Refreshers, Renew(r) PROVE CutFlows'
  BY <1>0, <1>11, RenewStep, NumbersHold DEF CutFlows, FreshFlows, CodedFlows, PointsAtIssued,
     DcrNumbers, OtherRefreshes, SameHeld, ghosts
<1>12. ASSUME NEW r \in Refreshers, Renewed(r) PROVE CutFlows'
  BY <1>0, <1>12, RenewedStep, NumbersHold DEF CutFlows, FreshFlows, CodedFlows, PointsAtIssued,
     DcrNumbers, OtherRefreshes, SameProvider
<1>13. ASSUME NEW r \in Refreshers, RefreshFails(r) PROVE CutFlows'
  BY <1>0, <1>13, RefreshFailsStep, NumbersHold DEF CutFlows, FreshFlows, CodedFlows,
     PointsAtIssued, DcrNumbers, OtherRefreshes, SameHeld, SameProvider
<1>14. CASE Expire
  BY <1>0, <1>14, ExpireStep, NumbersHold DEF CutFlows, FreshFlows, CodedFlows, PointsAtIssued,
     DcrNumbers, SameProvider, ghosts
<1>15. CASE SignOut
  <2>1. client'.id = 0 /\ cut' = {f \in Flows : flow[f].coded}
    BY <1>0, <1>15, SignOutStep, NothingHeld
  <2> SUFFICES ASSUME NEW x \in Flows, flow[x].coded
               PROVE  /\ flow'[x].coded /\ client'.id # flow'[x].cid
                      /\ flow'[x].pc = "post" /\ ~flow'[x].overtaken => flow'[x].sentAs.id # flow'[x].cid
                      /\ flow'[x].pc = "answer" => flow'[x].overtaken
    BY <2>1 DEF CutFlows
  <2>2. flow'[x].coded /\ flow'[x].cid = flow[x].cid
    BY <1>0, <1>15, SignOutStep DEF SameClient
  <2>3. flow'[x].pc \in {"post", "answer"} => flow'[x].overtaken
    BY <1>0, <1>15, SignOutStep
  <2> QED BY <1>0, <2>1, <2>2, <2>3 DEF CodedFlows
<1>16. ASSUME NEW b \in BOOLEAN, GatewayRestarts(b) PROVE CutFlows'
  BY <1>0, <1>16, RestartHeld, RestartStep DEF CutFlows, SameClient, SameCode, SameAnswer
<1>17. CASE UNCHANGED dcrVars
  BY <1>0, <1>17 DEF dcrVars, provider, ghosts, bounds, CutFlows, FreshFlows, CodedFlows,
     PointsAtIssued, DcrNumbers
<1> QED BY <1>1, <1>2, <1>3, <1>4, <1>5, <1>6, <1>7, <1>8, <1>9, <1>10, <1>11, <1>12, <1>13,
       <1>14, <1>15, <1>16, <1>17 DEF DcrNext, Handles, RefreshRuns

LEMMA FilesStay == DcrIInv /\ [DcrNext]_dcrVars => DiskIsMemory'
<1> SUFFICES ASSUME DcrIInv, [DcrNext]_dcrVars PROVE DiskIsMemory'
  OBVIOUS
<1>0. DcrTypeOK /\ DiskIsMemory
  BY DEF DcrIInv
<1>1. ASSUME NEW f \in Flows, NEW o \in Origins, Start(f, o) PROVE DiskIsMemory'
  BY <1>0, <1>1, StartStep DEF DiskIsMemory, SameHeld
<1>2. ASSUME NEW f \in Flows, StartMeta(f) PROVE DiskIsMemory'
  BY <1>0, <1>2, MetaStep DEF DiskIsMemory, SameHeld
<1>3. ASSUME NEW f \in Flows, Register(f) PROVE DiskIsMemory'
  BY <1>0, <1>3, RegisterStep DEF DiskIsMemory
<1>4. ASSUME NEW f \in Flows, Consent(f) PROVE DiskIsMemory'
  BY <1>0, <1>4, ConsentStep DEF DiskIsMemory, SameHeld
<1>5. ASSUME NEW f \in Flows, Deny(f) \/ CallbackRefused(f) \/ FlowFails(f) PROVE DiskIsMemory'
  BY <1>0, <1>5, PlainStep DEF DiskIsMemory, SameHeld
<1>6. ASSUME NEW f \in Flows, Callback(f) PROVE DiskIsMemory'
  BY <1>0, <1>6, CallbackStep DEF DiskIsMemory, SameHeld
<1>7. ASSUME NEW f \in Flows, SendCode(f) PROVE DiskIsMemory'
  BY <1>0, <1>7, SendCodeStep DEF DiskIsMemory, SameHeld
<1>8. ASSUME NEW f \in Flows, Redeem(f) PROVE DiskIsMemory'
  BY <1>0, <1>8, RedeemStep DEF DiskIsMemory, SameHeld
<1>9. ASSUME NEW f \in Flows, TokenSaved(f) PROVE DiskIsMemory'
  BY <1>0, <1>9, SavedStep DEF DiskIsMemory
<1>10. ASSUME NEW r \in Refreshers, StartRefresh(r) \/ SendRefresh(r) PROVE DiskIsMemory'
  BY <1>0, <1>10, CallStep DEF DiskIsMemory, SameHeld
<1>11. ASSUME NEW r \in Refreshers, Renew(r) PROVE DiskIsMemory'
  BY <1>0, <1>11, RenewStep DEF DiskIsMemory, SameHeld
<1>12. ASSUME NEW r \in Refreshers, Renewed(r) PROVE DiskIsMemory'
  BY <1>0, <1>12, RenewedStep DEF DiskIsMemory
<1>13. ASSUME NEW r \in Refreshers, RefreshFails(r) PROVE DiskIsMemory'
  BY <1>0, <1>13, RefreshFailsStep DEF DiskIsMemory, SameHeld
<1>14. CASE Expire
  BY <1>0, <1>14, ExpireStep DEF DiskIsMemory
<1>15. CASE SignOut
  BY <1>0, <1>15, SignOutStep DEF DiskIsMemory
<1>16. ASSUME NEW b \in BOOLEAN, GatewayRestarts(b) PROVE DiskIsMemory'
  BY <1>0, <1>16, RestartStep DEF DiskIsMemory
<1>17. CASE UNCHANGED dcrVars
  BY <1>0, <1>17 DEF dcrVars, provider, ghosts, bounds, DiskIsMemory
<1> QED BY <1>1, <1>2, <1>3, <1>4, <1>5, <1>6, <1>7, <1>8, <1>9, <1>10, <1>11, <1>12, <1>13,
       <1>14, <1>15, <1>16, <1>17 DEF DcrNext, Handles, RefreshRuns
LEMMA FreshFlowsStay == DcrIInv /\ [DcrNext]_dcrVars => FreshFlows'
<1> SUFFICES ASSUME DcrIInv, [DcrNext]_dcrVars PROVE FreshFlows'
  OBVIOUS
<1>0. DcrTypeOK /\ FreshFlows
  BY DEF DcrIInv
<1>1. ASSUME NEW f \in Flows, NEW o \in Origins, Start(f, o) PROVE FreshFlows'
  BY <1>0, <1>1, StartStep DEF FreshFlows, OtherFlows, SameClient, ghosts
<1>2. ASSUME NEW f \in Flows, StartMeta(f) PROVE FreshFlows'
  BY <1>0, <1>2, MetaStep DEF FreshFlows, OtherFlows, ghosts
<1>3. ASSUME NEW f \in Flows, Register(f) PROVE FreshFlows'
  BY <1>0, <1>3, RegisterStep DEF FreshFlows, OtherFlows, ghosts
<1>4. ASSUME NEW f \in Flows, Consent(f) PROVE FreshFlows'
  BY <1>0, <1>4, ConsentStep DEF FreshFlows, OtherFlows, ghosts
<1>5. ASSUME NEW f \in Flows, Deny(f) \/ CallbackRefused(f) \/ FlowFails(f) PROVE FreshFlows'
  BY <1>0, <1>5, PlainStep DEF FreshFlows, OtherFlows, SameClient, ghosts
<1>6. ASSUME NEW f \in Flows, Callback(f) PROVE FreshFlows'
  BY <1>0, <1>6, CallbackStep DEF FreshFlows, OtherFlows, SameClient, ghosts
<1>7. ASSUME NEW f \in Flows, SendCode(f) PROVE FreshFlows'
  BY <1>0, <1>7, SendCodeStep DEF FreshFlows, OtherFlows, SameClient
<1>8. ASSUME NEW f \in Flows, Redeem(f) PROVE FreshFlows'
  BY <1>0, <1>8, RedeemStep DEF FreshFlows, OtherFlows, SameClient, ghosts
<1>9. ASSUME NEW f \in Flows, TokenSaved(f) PROVE FreshFlows'
  BY <1>0, <1>9, SavedStep DEF FreshFlows, OtherFlows, SameClient
<1>10. ASSUME NEW r \in Refreshers, StartRefresh(r) \/ SendRefresh(r) PROVE FreshFlows'
  BY <1>0, <1>10, CallStep DEF FreshFlows, ghosts
<1>11. ASSUME NEW r \in Refreshers, Renew(r) PROVE FreshFlows'
  BY <1>0, <1>11, RenewStep DEF FreshFlows, ghosts
<1>12. ASSUME NEW r \in Refreshers, Renewed(r) PROVE FreshFlows'
  BY <1>0, <1>12, RenewedStep DEF FreshFlows
<1>13. ASSUME NEW r \in Refreshers, RefreshFails(r) PROVE FreshFlows'
  BY <1>0, <1>13, RefreshFailsStep DEF FreshFlows
<1>14. CASE Expire
  BY <1>0, <1>14, ExpireStep DEF FreshFlows, ghosts
<1>15. CASE SignOut
  BY <1>0, <1>15, SignOutStep DEF FreshFlows, SameClient
<1>16. ASSUME NEW b \in BOOLEAN, GatewayRestarts(b) PROVE FreshFlows'
  BY <1>0, <1>16, RestartStep DEF FreshFlows, SameClient
<1>17. CASE UNCHANGED dcrVars
  BY <1>0, <1>17 DEF dcrVars, provider, ghosts, bounds, FreshFlows
<1> QED BY <1>1, <1>2, <1>3, <1>4, <1>5, <1>6, <1>7, <1>8, <1>9, <1>10, <1>11, <1>12, <1>13,
       <1>14, <1>15, <1>16, <1>17 DEF DcrNext, Handles, RefreshRuns
LEMMA OneUseStays == DcrIInv /\ [DcrNext]_dcrVars => OneUse'
<1> SUFFICES ASSUME DcrIInv, [DcrNext]_dcrVars PROVE OneUse'
  OBVIOUS
<1>0. DcrTypeOK /\ FreshFlows /\ OneUse
  BY DEF DcrIInv
<1>1. ASSUME NEW f \in Flows, NEW o \in Origins, Start(f, o) PROVE OneUse'
  BY <1>0, <1>1, StartStep DEF OneUse, FreshFlows, OtherFlows, SameClient, ghosts
<1>2. ASSUME NEW f \in Flows, StartMeta(f) PROVE OneUse'
  BY <1>0, <1>2, MetaStep DEF OneUse, FreshFlows, OtherFlows, ghosts
<1>3. ASSUME NEW f \in Flows, Register(f) PROVE OneUse'
  BY <1>0, <1>3, RegisterStep DEF OneUse, FreshFlows, OtherFlows, ghosts
<1>4. ASSUME NEW f \in Flows, Consent(f) PROVE OneUse'
  BY <1>0, <1>4, ConsentStep DEF OneUse, FreshFlows, OtherFlows, ghosts
<1>5. ASSUME NEW f \in Flows, Deny(f) \/ CallbackRefused(f) \/ FlowFails(f) PROVE OneUse'
  BY <1>0, <1>5, PlainStep DEF OneUse, FreshFlows, OtherFlows, SameClient, ghosts
<1>6. ASSUME NEW f \in Flows, Callback(f) PROVE OneUse'
  BY <1>0, <1>6, CallbackStep DEF OneUse, FreshFlows, OtherFlows, SameClient, ghosts
<1>7. ASSUME NEW f \in Flows, SendCode(f) PROVE OneUse'
  BY <1>0, <1>7, SendCodeStep DEF OneUse, FreshFlows, OtherFlows, SameClient
<1>8. ASSUME NEW f \in Flows, Redeem(f) PROVE OneUse'
  BY <1>0, <1>8, RedeemStep DEF OneUse, FreshFlows, OtherFlows, SameClient, ghosts
<1>9. ASSUME NEW f \in Flows, TokenSaved(f) PROVE OneUse'
  BY <1>0, <1>9, SavedStep DEF OneUse, FreshFlows, OtherFlows, SameClient
<1>10. ASSUME NEW r \in Refreshers, StartRefresh(r) \/ SendRefresh(r) PROVE OneUse'
  BY <1>0, <1>10, CallStep DEF OneUse, FreshFlows, ghosts
<1>11. ASSUME NEW r \in Refreshers, Renew(r) PROVE OneUse'
  BY <1>0, <1>11, RenewStep DEF OneUse, FreshFlows, ghosts
<1>12. ASSUME NEW r \in Refreshers, Renewed(r) PROVE OneUse'
  BY <1>0, <1>12, RenewedStep DEF OneUse, FreshFlows
<1>13. ASSUME NEW r \in Refreshers, RefreshFails(r) PROVE OneUse'
  BY <1>0, <1>13, RefreshFailsStep DEF OneUse, FreshFlows
<1>14. CASE Expire
  BY <1>0, <1>14, ExpireStep DEF OneUse, FreshFlows, ghosts
<1>15. CASE SignOut
  BY <1>0, <1>15, SignOutStep DEF OneUse, FreshFlows, SameClient
<1>16. ASSUME NEW b \in BOOLEAN, GatewayRestarts(b) PROVE OneUse'
  BY <1>0, <1>16, RestartStep DEF OneUse, FreshFlows, SameClient
<1>17. CASE UNCHANGED dcrVars
  BY <1>0, <1>17 DEF dcrVars, provider, ghosts, bounds, OneUse, FreshFlows
<1> QED BY <1>1, <1>2, <1>3, <1>4, <1>5, <1>6, <1>7, <1>8, <1>9, <1>10, <1>11, <1>12, <1>13,
       <1>14, <1>15, <1>16, <1>17 DEF DcrNext, Handles, RefreshRuns

LEMMA IssuedKept == DcrIInv /\ [DcrNext]_dcrVars => \A i \in 1..Len(issued) : issued'[i] = issued[i]
<1> SUFFICES ASSUME DcrIInv, [DcrNext]_dcrVars
             PROVE  \A i \in 1..Len(issued) : issued'[i] = issued[i]
  OBVIOUS
<1>0. DcrTypeOK
  BY DEF DcrIInv
<1>1. ASSUME NEW f \in Flows, NEW o \in Origins, Start(f, o)
      PROVE  \A i \in 1..Len(issued) : issued'[i] = issued[i]
  BY <1>0, <1>1, StartStep DEF SameProvider
<1>2. ASSUME NEW f \in Flows, StartMeta(f) PROVE \A i \in 1..Len(issued) : issued'[i] = issued[i]
  BY <1>0, <1>2, MetaStep DEF SameProvider
<1>3. ASSUME NEW f \in Flows, Register(f) PROVE \A i \in 1..Len(issued) : issued'[i] = issued[i]
  BY <1>0, <1>3, RegisterStep
<1>4. ASSUME NEW f \in Flows, Consent(f) PROVE \A i \in 1..Len(issued) : issued'[i] = issued[i]
  BY <1>0, <1>4, ConsentStep DEF SameProvider
<1>5. ASSUME NEW f \in Flows, Deny(f) \/ CallbackRefused(f) \/ FlowFails(f)
      PROVE  \A i \in 1..Len(issued) : issued'[i] = issued[i]
  BY <1>0, <1>5, PlainStep DEF SameProvider
<1>6. ASSUME NEW f \in Flows, Callback(f) PROVE \A i \in 1..Len(issued) : issued'[i] = issued[i]
  BY <1>0, <1>6, CallbackStep DEF SameProvider
<1>7. ASSUME NEW f \in Flows, SendCode(f) PROVE \A i \in 1..Len(issued) : issued'[i] = issued[i]
  BY <1>0, <1>7, SendCodeStep DEF SameProvider
<1>8. ASSUME NEW f \in Flows, Redeem(f) PROVE \A i \in 1..Len(issued) : issued'[i] = issued[i]
  BY <1>0, <1>8, RedeemStep DEF IssuesOne
<1>9. ASSUME NEW f \in Flows, TokenSaved(f) PROVE \A i \in 1..Len(issued) : issued'[i] = issued[i]
  BY <1>0, <1>9, SavedStep DEF SameProvider
<1>10. ASSUME NEW r \in Refreshers, StartRefresh(r) \/ SendRefresh(r)
       PROVE  \A i \in 1..Len(issued) : issued'[i] = issued[i]
  BY <1>0, <1>10, CallStep DEF SameProvider
<1>11. ASSUME NEW r \in Refreshers, Renew(r) PROVE \A i \in 1..Len(issued) : issued'[i] = issued[i]
  BY <1>0, <1>11, RenewStep DEF IssuesOne
<1>12. ASSUME NEW r \in Refreshers, Renewed(r)
       PROVE  \A i \in 1..Len(issued) : issued'[i] = issued[i]
  BY <1>0, <1>12, RenewedStep DEF SameProvider
<1>13. ASSUME NEW r \in Refreshers, RefreshFails(r)
       PROVE  \A i \in 1..Len(issued) : issued'[i] = issued[i]
  BY <1>0, <1>13, RefreshFailsStep DEF SameProvider
<1>14. CASE Expire
  BY <1>0, <1>14, ExpireStep DEF SameProvider
<1>15. CASE SignOut
  BY <1>0, <1>15, SignOutStep DEF SameProvider
<1>16. ASSUME NEW b \in BOOLEAN, GatewayRestarts(b)
       PROVE  \A i \in 1..Len(issued) : issued'[i] = issued[i]
  BY <1>0, <1>16, RestartStep DEF SameProvider
<1>17. CASE UNCHANGED dcrVars
  BY <1>0, <1>17 DEF dcrVars, provider, ghosts, bounds, IssuesOne
<1> QED BY <1>1, <1>2, <1>3, <1>4, <1>5, <1>6, <1>7, <1>8, <1>9, <1>10, <1>11, <1>12, <1>13,
       <1>14, <1>15, <1>16, <1>17 DEF DcrNext, Handles, RefreshRuns

LEMMA IdleIs == NoRefresh.pc = "idle" /\ NoRefresh.rt = 0 /\ NoRefresh.new = 0
BY DEF NoRefresh

LEMMA HeldFlow ==
  DcrTypeOK => token.flow \in Flows \cup {0} /\ (token.flow = 0 => token.rt = 0) /\ 0 \notin Flows
<1> SUFFICES ASSUME DcrTypeOK
             PROVE  token.flow \in Flows \cup {0} /\ (token.flow = 0 => token.rt = 0) /\ 0 \notin Flows
  OBVIOUS
<1>1. token.flow \in Flows \cup {0} /\ (token.flow = 0 => token = NoToken)
  BY DEF DcrTypeOK, Token
<1> QED BY <1>1, NothingHeld, DcrAssumption

\* A credential that stays where it is stays sound.
LEMMA CredentialKept ==
  ASSUME DcrIInv, [DcrNext]_dcrVars, token'.flow = token.flow, token'.rt = token.rt,
         cut' = cut, late => late'
  PROVE  TokenIsIssued'
<1>1. token.rt # 0 => token.rt \in 1..Len(issued)
  BY NumbersHold DEF DcrIInv, DcrTypeOK, PointsAtIssued, DcrNumbers
<1>2. token.flow # 0 => token.flow \in Flows
  BY HeldFlow DEF DcrIInv
<1> QED BY <1>1, <1>2, IssuedKept, ConsentsStay DEF DcrIInv, TokenIsIssued
LEMMA TokenTraces == DcrIInv /\ [DcrNext]_dcrVars => TokenIsIssued'
<1> SUFFICES ASSUME DcrIInv, [DcrNext]_dcrVars PROVE TokenIsIssued'
  OBVIOUS
<1>0. DcrTypeOK /\ DiskIsMemory /\ AnswersApart /\ CodedFlows /\ CutFlows /\ RefreshesTrace /\ DcrIInv /\ [DcrNext]_dcrVars
  BY DEF DcrIInv
<1>1. ASSUME NEW f \in Flows, NEW o \in Origins, Start(f, o) PROVE TokenIsIssued'
  BY <1>0, <1>1, StartStep, CredentialKept DEF SameHeld, ghosts
<1>2. ASSUME NEW f \in Flows, StartMeta(f) PROVE TokenIsIssued'
  BY <1>0, <1>2, MetaStep, CredentialKept DEF SameHeld, ghosts
<1>3. ASSUME NEW f \in Flows, Register(f) PROVE TokenIsIssued'
  BY <1>0, <1>3, RegisterStep, CredentialKept DEF SameHeld, ghosts
<1>4. ASSUME NEW f \in Flows, Consent(f) PROVE TokenIsIssued'
  BY <1>0, <1>4, ConsentStep, CredentialKept DEF SameHeld, ghosts
<1>5. ASSUME NEW f \in Flows, Deny(f) \/ CallbackRefused(f) \/ FlowFails(f) PROVE TokenIsIssued'
  BY <1>0, <1>5, PlainStep, CredentialKept DEF SameHeld, ghosts
<1>6. ASSUME NEW f \in Flows, Callback(f) PROVE TokenIsIssued'
  BY <1>0, <1>6, CallbackStep, CredentialKept DEF SameHeld, ghosts
<1>7. ASSUME NEW f \in Flows, SendCode(f) PROVE TokenIsIssued'
  BY <1>0, <1>7, SendCodeStep, CredentialKept DEF SameHeld, ghosts
<1>8. ASSUME NEW f \in Flows, Redeem(f) PROVE TokenIsIssued'
  BY <1>0, <1>8, RedeemStep, CredentialKept DEF SameHeld, ghosts
<1>9. ASSUME NEW f \in Flows, TokenSaved(f) PROVE TokenIsIssued'
  <2>1. token' = [flow |-> f, rt |-> flow[f].rt, fresh |-> TRUE] /\ cut' = cut /\ late' = (late \/ flow[f].overtaken)
        /\ issued' = issued /\ flow'[f].coded = flow[f].coded /\ flow[f].pc = "answer"
    BY <1>0, <1>9, SavedStep DEF SameProvider, SameClient
  <2>2. issued[flow[f].rt].flow = f
    BY <1>0, <2>1 DEF AnswersApart, FlowAnswer
  <2>3. flow[f].coded /\ (f \in cut => flow[f].overtaken)
    BY <1>0, <2>1 DEF CodedFlows, CutFlows
  <2>4. token'.flow = f /\ token'.rt = flow[f].rt
    BY <2>1
  <2> QED BY <2>1, <2>2, <2>3, <2>4 DEF TokenIsIssued
<1>10. ASSUME NEW r \in Refreshers, StartRefresh(r) \/ SendRefresh(r) PROVE TokenIsIssued'
  BY <1>0, <1>10, CallStep, CredentialKept DEF SameHeld, ghosts
<1>11. ASSUME NEW r \in Refreshers, Renew(r) PROVE TokenIsIssued'
  BY <1>0, <1>11, RenewStep, CredentialKept DEF SameHeld, ghosts
<1>12. ASSUME NEW r \in Refreshers, Renewed(r) PROVE TokenIsIssued'
  <2>1. token' = [flow |-> refresh[r].of, rt |-> refresh[r].new, fresh |-> TRUE] /\ cut' = cut
        /\ late' = (late \/ refresh[r].overtaken) /\ issued' = issued /\ flow' = flow /\ refresh[r].pc = "answer"
    BY <1>0, <1>12, RenewedStep DEF SameProvider
  <2>2. token'.flow = refresh[r].of /\ token'.rt = refresh[r].new
    BY <2>1
  <2> QED BY <1>0, <2>1, <2>2 DEF TokenIsIssued, RefreshesTrace, Traces
<1>13. ASSUME NEW r \in Refreshers, RefreshFails(r) PROVE TokenIsIssued'
  BY <1>0, <1>13, RefreshFailsStep, CredentialKept DEF SameHeld, ghosts
<1>14. CASE Expire
  BY <1>0, <1>14, ExpireStep, CredentialKept DEF ghosts
<1>15. CASE SignOut
  <2>1. token'.flow = 0 /\ token'.rt = 0
    BY <1>0, <1>15, SignOutStep, NothingHeld
  <2> QED BY <2>1 DEF TokenIsIssued
<1>16. ASSUME NEW b \in BOOLEAN, GatewayRestarts(b) PROVE TokenIsIssued'
  <2>1. token' \in {token, NoToken} /\ cut' = cut /\ late' = late
    BY <1>0, <1>16, RestartHeld, RestartStep
  <2>2. CASE token' = NoToken
    BY <2>2, NothingHeld DEF TokenIsIssued
  <2> QED BY <1>0, <2>1, <2>2, CredentialKept
<1>17. CASE UNCHANGED dcrVars
  BY <1>0, <1>17, CredentialKept DEF dcrVars, ghosts
<1> QED BY <1>1, <1>2, <1>3, <1>4, <1>5, <1>6, <1>7, <1>8, <1>9, <1>10, <1>11, <1>12, <1>13,
       <1>14, <1>15, <1>16, <1>17 DEF DcrNext, Handles, RefreshRuns

LEMMA RefreshKept ==
  ASSUME DcrIInv, [DcrNext]_dcrVars, NEW q \in Refreshers, refresh'[q] = refresh[q],
         cut' = cut, late => late'
  PROVE  Traces(q)'
<1>1. /\ refresh[q].rt # 0 => refresh[q].rt \in 1..Len(issued)
      /\ refresh[q].new # 0 => refresh[q].new \in 1..Len(issued)
  BY NumbersHold DEF DcrIInv, DcrTypeOK, PointsAtIssued, DcrNumbers
<1>2. Traces(q)
  BY DEF DcrIInv, RefreshesTrace
<1> QED BY <1>1, <1>2, IssuedKept, ConsentsStay DEF DcrIInv, Traces
LEMMA RefreshesStayTraced == DcrIInv /\ [DcrNext]_dcrVars => RefreshesTrace'
<1> SUFFICES ASSUME DcrIInv, [DcrNext]_dcrVars PROVE RefreshesTrace'
  OBVIOUS
<1>0. DcrTypeOK /\ IssuedToConsent /\ TokenIsIssued /\ RefreshesTrace /\ DcrIInv /\ [DcrNext]_dcrVars
  BY DEF DcrIInv
<1>1. ASSUME NEW f \in Flows, NEW o \in Origins, Start(f, o) PROVE RefreshesTrace'
  <2>1. refresh' = refresh /\ cut' = cut /\ (late => late')
    BY <1>0, <1>1, StartStep DEF ghosts
  <2> QED BY <1>0, <2>1, RefreshKept DEF RefreshesTrace
<1>2. ASSUME NEW f \in Flows, StartMeta(f) PROVE RefreshesTrace'
  <2>1. refresh' = refresh /\ cut' = cut /\ (late => late')
    BY <1>0, <1>2, MetaStep DEF ghosts
  <2> QED BY <1>0, <2>1, RefreshKept DEF RefreshesTrace
<1>3. ASSUME NEW f \in Flows, Register(f) PROVE RefreshesTrace'
  <2>1. refresh' = refresh /\ cut' = cut /\ (late => late')
    BY <1>0, <1>3, RegisterStep DEF ghosts
  <2> QED BY <1>0, <2>1, RefreshKept DEF RefreshesTrace
<1>4. ASSUME NEW f \in Flows, Consent(f) PROVE RefreshesTrace'
  <2>1. refresh' = refresh /\ cut' = cut /\ (late => late')
    BY <1>0, <1>4, ConsentStep DEF ghosts
  <2> QED BY <1>0, <2>1, RefreshKept DEF RefreshesTrace
<1>5. ASSUME NEW f \in Flows, Deny(f) \/ CallbackRefused(f) \/ FlowFails(f) PROVE RefreshesTrace'
  <2>1. refresh' = refresh /\ cut' = cut /\ (late => late')
    BY <1>0, <1>5, PlainStep DEF ghosts
  <2> QED BY <1>0, <2>1, RefreshKept DEF RefreshesTrace
<1>6. ASSUME NEW f \in Flows, Callback(f) PROVE RefreshesTrace'
  <2>1. refresh' = refresh /\ cut' = cut /\ (late => late')
    BY <1>0, <1>6, CallbackStep DEF ghosts
  <2> QED BY <1>0, <2>1, RefreshKept DEF RefreshesTrace
<1>7. ASSUME NEW f \in Flows, SendCode(f) PROVE RefreshesTrace'
  <2>1. refresh' = refresh /\ cut' = cut /\ (late => late')
    BY <1>0, <1>7, SendCodeStep DEF ghosts
  <2> QED BY <1>0, <2>1, RefreshKept DEF RefreshesTrace
<1>8. ASSUME NEW f \in Flows, Redeem(f) PROVE RefreshesTrace'
  <2>1. refresh' = refresh /\ cut' = cut /\ (late => late')
    BY <1>0, <1>8, RedeemStep DEF ghosts
  <2> QED BY <1>0, <2>1, RefreshKept DEF RefreshesTrace
<1>9. ASSUME NEW f \in Flows, TokenSaved(f) PROVE RefreshesTrace'
  <2>1. refresh' = refresh /\ cut' = cut /\ (late => late')
    BY <1>0, <1>9, SavedStep DEF ghosts
  <2> QED BY <1>0, <2>1, RefreshKept DEF RefreshesTrace
<1>10. ASSUME NEW r \in Refreshers, StartRefresh(r) \/ SendRefresh(r) PROVE RefreshesTrace'
  <2>1. OtherRefreshes(r) /\ cut' = cut /\ (late => late')
    BY <1>0, <1>10, CallStep DEF ghosts
  <2>2. Traces(r)'
    <3>1. \/ refresh'[r].pc = "meta"
          \/ refresh'[r].pc = "post" /\ refresh'[r].rt = token.rt /\ issued' = issued /\ late' = late
      BY <1>0, <1>10, CallStep DEF SameProvider, ghosts
    <3> QED BY <1>0, <2>1, <3>1, HeldFlow DEF Traces, TokenIsIssued
  <2> SUFFICES ASSUME NEW q \in Refreshers PROVE Traces(q)'
    BY DEF RefreshesTrace
  <2>9. CASE q # r
    BY <1>0, <2>1, <2>9, RefreshKept DEF OtherRefreshes
  <2> QED BY <2>2, <2>9
<1>11. ASSUME NEW r \in Refreshers, Renew(r) PROVE RefreshesTrace'
  <2>1. OtherRefreshes(r) /\ cut' = cut /\ (late => late')
    BY <1>0, <1>11, RenewStep DEF ghosts
  <2>2. Traces(r)'
    <3>1. CASE refresh'[r] = NoRefresh
      BY <3>1, IdleIs DEF Traces
    <3>2. CASE refresh'[r] # NoRefresh
      <4> DEFINE o == issued[refresh[r].rt].flow
      <4>1. /\ refresh[r].rt \in live /\ refresh[r].pc = "post"
            /\ refresh'[r].pc = "answer" /\ refresh'[r].of = o
            /\ refresh'[r].overtaken = refresh[r].overtaken
            /\ refresh'[r].new # 0 => issued'[refresh'[r].new].flow = o
            /\ flow' = flow /\ late' = late
        BY <1>0, <1>11, <3>2, RenewStep DEF ghosts
      <4>2. refresh[r].rt \in 1..Len(issued)
        BY <1>0, <4>1 DEF DcrTypeOK, PointsAtIssued
      <4>3. refresh[r].rt # 0
        BY <4>2
      <4>4. o \in Flows /\ flow[o].coded
        BY <1>0, <4>2, IssuedTyped DEF IssuedToConsent
      <4>5. o \notin cut \/ late \/ refresh[r].overtaken
        BY <1>0, <4>1, <4>3 DEF RefreshesTrace, Traces
      <4> HIDE DEF o
      <4> QED BY <2>1, <4>1, <4>4, <4>5 DEF Traces
    <3> QED BY <3>1, <3>2
  <2> SUFFICES ASSUME NEW q \in Refreshers PROVE Traces(q)'
    BY DEF RefreshesTrace
  <2>9. CASE q # r
    BY <1>0, <2>1, <2>9, RefreshKept DEF OtherRefreshes
  <2> QED BY <2>2, <2>9
<1>12. ASSUME NEW r \in Refreshers, Renewed(r) PROVE RefreshesTrace'
  <2>1. OtherRefreshes(r) /\ cut' = cut /\ (late => late')
    BY <1>0, <1>12, RenewedStep DEF ghosts
  <2>2. Traces(r)'
    <3>1. refresh'[r].pc = "idle"
      BY <1>0, <1>12, RenewedStep, IdleIs
    <3> QED BY <3>1 DEF Traces
  <2> SUFFICES ASSUME NEW q \in Refreshers PROVE Traces(q)'
    BY DEF RefreshesTrace
  <2>9. CASE q # r
    BY <1>0, <2>1, <2>9, RefreshKept DEF OtherRefreshes
  <2> QED BY <2>2, <2>9
<1>13. ASSUME NEW r \in Refreshers, RefreshFails(r) PROVE RefreshesTrace'
  <2>1. OtherRefreshes(r) /\ cut' = cut /\ (late => late')
    BY <1>0, <1>13, RefreshFailsStep DEF ghosts
  <2>2. Traces(r)'
    <3>1. refresh'[r].pc = "idle"
      BY <1>0, <1>13, RefreshFailsStep, IdleIs
    <3> QED BY <3>1 DEF Traces
  <2> SUFFICES ASSUME NEW q \in Refreshers PROVE Traces(q)'
    BY DEF RefreshesTrace
  <2>9. CASE q # r
    BY <1>0, <2>1, <2>9, RefreshKept DEF OtherRefreshes
  <2> QED BY <2>2, <2>9
<1>14. CASE Expire
  <2>1. refresh' = refresh /\ cut' = cut /\ (late => late')
    BY <1>0, <1>14, ExpireStep DEF ghosts
  <2> QED BY <1>0, <2>1, RefreshKept DEF RefreshesTrace
<1>15. CASE SignOut
  <2>1. /\ issued' = issued /\ late' = late
        /\ \A x \in Flows : flow'[x].coded = flow[x].coded
        /\ \A q \in Refreshers : /\ refresh'[q].pc = refresh[q].pc /\ refresh'[q].rt = refresh[q].rt
                                 /\ refresh'[q].of = refresh[q].of /\ refresh'[q].new = refresh[q].new
                                 /\ refresh[q].pc \in {"post", "answer"} => refresh'[q].overtaken
    BY <1>0, <1>15, SignOutStep DEF SameProvider, SameClient
  <2> QED BY <1>0, <2>1 DEF RefreshesTrace, Traces
<1>16. ASSUME NEW b \in BOOLEAN, GatewayRestarts(b) PROVE RefreshesTrace'
  <2>1. refresh' = [q \in Refreshers |-> NoRefresh]
    BY <1>0, <1>16, RestartStep
  <2> QED BY <2>1, IdleIs DEF RefreshesTrace, Traces
<1>17. CASE UNCHANGED dcrVars
  <2>1. refresh' = refresh /\ cut' = cut /\ (late => late')
    BY <1>0, <1>17 DEF ghosts, dcrVars
  <2> QED BY <1>0, <2>1, RefreshKept DEF RefreshesTrace
<1> QED BY <1>1, <1>2, <1>3, <1>4, <1>5, <1>6, <1>7, <1>8, <1>9, <1>10, <1>11, <1>12, <1>13,
       <1>14, <1>15, <1>16, <1>17 DEF DcrNext, Handles, RefreshRuns

\* A grant that is held lives on while the provider, and what may replace it, do.
LEMMA GrantKept ==
  ASSUME HeldGrantLives, token'.rt = token.rt, live \subseteq live', lost => lost',
         \A q \in Refreshers : refresh[q].pc = "answer" =>
             lost' \/ (refresh'[q].pc = "answer" /\ refresh'[q].rt = refresh[q].rt)
  PROVE  HeldGrantLives'
BY DEF HeldGrantLives
LEMMA HeldGrantLivesOn == DcrIInv /\ [DcrNext]_dcrVars => HeldGrantLives'
<1> SUFFICES ASSUME DcrIInv, [DcrNext]_dcrVars PROVE HeldGrantLives'
  OBVIOUS
<1>0. DcrTypeOK /\ DiskIsMemory /\ AnswersApart /\ HeldGrantLives
  BY DEF DcrIInv
<1>1. ASSUME NEW f \in Flows, NEW o \in Origins, Start(f, o) PROVE HeldGrantLives'
  BY <1>0, <1>1, StartStep, GrantKept DEF SameHeld, SameProvider, OtherRefreshes, ghosts
<1>2. ASSUME NEW f \in Flows, StartMeta(f) PROVE HeldGrantLives'
  BY <1>0, <1>2, MetaStep, GrantKept DEF SameHeld, SameProvider, OtherRefreshes, ghosts
<1>3. ASSUME NEW f \in Flows, Register(f) PROVE HeldGrantLives'
  BY <1>0, <1>3, RegisterStep, GrantKept DEF SameHeld, SameProvider, OtherRefreshes, ghosts
<1>4. ASSUME NEW f \in Flows, Consent(f) PROVE HeldGrantLives'
  BY <1>0, <1>4, ConsentStep, GrantKept DEF SameHeld, SameProvider, OtherRefreshes, ghosts
<1>5. ASSUME NEW f \in Flows, Deny(f) \/ CallbackRefused(f) \/ FlowFails(f) PROVE HeldGrantLives'
  BY <1>0, <1>5, PlainStep, GrantKept DEF SameHeld, SameProvider, OtherRefreshes, ghosts
<1>6. ASSUME NEW f \in Flows, Callback(f) PROVE HeldGrantLives'
  BY <1>0, <1>6, CallbackStep, GrantKept DEF SameHeld, SameProvider, OtherRefreshes, ghosts
<1>7. ASSUME NEW f \in Flows, SendCode(f) PROVE HeldGrantLives'
  BY <1>0, <1>7, SendCodeStep, GrantKept DEF SameHeld, SameProvider, OtherRefreshes, ghosts
<1>8. ASSUME NEW f \in Flows, Redeem(f) PROVE HeldGrantLives'
  BY <1>0, <1>8, RedeemStep, GrantKept DEF SameHeld, SameProvider, OtherRefreshes, ghosts
<1>9. ASSUME NEW f \in Flows, TokenSaved(f) PROVE HeldGrantLives'
  <2>1. /\ token' = [flow |-> f, rt |-> flow[f].rt, fresh |-> TRUE]
        /\ live' = live /\ flow[f].pc = "answer"
    BY <1>0, <1>9, SavedStep DEF SameProvider
  <2>2. token'.rt = flow[f].rt
    BY <2>1
  <2> QED BY <1>0, <2>1, <2>2 DEF AnswersApart, FlowAnswer, Unsent, HeldGrantLives
<1>10. ASSUME NEW r \in Refreshers, StartRefresh(r) \/ SendRefresh(r) PROVE HeldGrantLives'
  BY <1>0, <1>10, CallStep, GrantKept DEF SameHeld, SameProvider, OtherRefreshes, ghosts
<1>11. ASSUME NEW r \in Refreshers, Renew(r) PROVE HeldGrantLives'
  <2>1. OtherRefreshes(r) /\ token' = token /\ lost' = lost /\ refresh[r].pc = "post"
    BY <1>0, <1>11, RenewStep DEF SameHeld, ghosts
  <2>2. CASE live \subseteq live'
    BY <1>0, <2>1, <2>2, GrantKept DEF OtherRefreshes
  <2>3. CASE /\ live \ {refresh[r].rt} \subseteq live'
             /\ refresh'[r].pc = "answer" /\ refresh'[r].rt = refresh[r].rt
    BY <1>0, <2>1, <2>3 DEF OtherRefreshes, HeldGrantLives
  <2> QED BY <1>0, <2>2, <2>3, <1>11, RenewStep
<1>12. ASSUME NEW r \in Refreshers, Renewed(r) PROVE HeldGrantLives'
  <2>1. /\ token' = [flow |-> refresh[r].of, rt |-> refresh[r].new, fresh |-> TRUE]
        /\ live' = live /\ refresh[r].pc = "answer"
    BY <1>0, <1>12, RenewedStep DEF SameProvider
  <2>2. token'.rt = refresh[r].new
    BY <2>1
  <2> QED BY <1>0, <2>1, <2>2 DEF AnswersApart, NewAnswer, Unsent, HeldGrantLives
<1>13. ASSUME NEW r \in Refreshers, RefreshFails(r) PROVE HeldGrantLives'
  BY <1>0, <1>13, RefreshFailsStep, GrantKept DEF SameHeld, SameProvider, OtherRefreshes, ghosts
<1>14. CASE Expire
  BY <1>0, <1>14, ExpireStep, GrantKept DEF SameHeld, SameProvider, OtherRefreshes, ghosts
<1>15. CASE SignOut
  <2>1. token'.rt = 0
    BY <1>0, <1>15, SignOutStep, NothingHeld
  <2> QED BY <2>1 DEF HeldGrantLives
<1>16. ASSUME NEW b \in BOOLEAN, GatewayRestarts(b) PROVE HeldGrantLives'
  <2>1. token' \in {token, NoToken} /\ live' = live /\ (lost => lost')
        /\ ((\E q \in Refreshers : refresh[q].pc = "answer") => lost')
    BY <1>0, <1>16, RestartHeld, RestartStep DEF SameProvider
  <2>2. CASE token' = NoToken
    BY <2>2, NothingHeld DEF HeldGrantLives
  <2> QED BY <1>0, <2>1, <2>2, GrantKept
<1>17. CASE UNCHANGED dcrVars
  BY <1>0, <1>17, GrantKept DEF dcrVars, provider, ghosts
<1> QED BY <1>1, <1>2, <1>3, <1>4, <1>5, <1>6, <1>7, <1>8, <1>9, <1>10, <1>11, <1>12, <1>13,
       <1>14, <1>15, <1>16, <1>17 DEF DcrNext, Handles, RefreshRuns

LEMMA SentTokens ==
  DcrIInv /\ [DcrNext]_dcrVars => \A q \in Refreshers : refresh'[q].rt \in {refresh[q].rt, 0, token.rt}
<1> SUFFICES ASSUME DcrIInv, [DcrNext]_dcrVars
             PROVE  \A q \in Refreshers : refresh'[q].rt \in {refresh[q].rt, 0, token.rt}
  OBVIOUS
<1>0. DcrTypeOK
  BY DEF DcrIInv
<1>1. ASSUME NEW f \in Flows, NEW o \in Origins, Start(f, o)
      PROVE  \A q \in Refreshers : refresh'[q].rt \in {refresh[q].rt, 0, token.rt}
  BY <1>0, <1>1, StartStep DEF SameAnswer, SameHeld
<1>2. ASSUME NEW f \in Flows, StartMeta(f)
      PROVE  \A q \in Refreshers : refresh'[q].rt \in {refresh[q].rt, 0, token.rt}
  BY <1>0, <1>2, MetaStep DEF SameAnswer, SameHeld
<1>3. ASSUME NEW f \in Flows, Register(f)
      PROVE  \A q \in Refreshers : refresh'[q].rt \in {refresh[q].rt, 0, token.rt}
  BY <1>0, <1>3, RegisterStep DEF SameAnswer
<1>4. ASSUME NEW f \in Flows, Consent(f)
      PROVE  \A q \in Refreshers : refresh'[q].rt \in {refresh[q].rt, 0, token.rt}
  BY <1>0, <1>4, ConsentStep DEF SameAnswer, SameHeld
<1>5. ASSUME NEW f \in Flows, Deny(f) \/ CallbackRefused(f) \/ FlowFails(f)
      PROVE  \A q \in Refreshers : refresh'[q].rt \in {refresh[q].rt, 0, token.rt}
  BY <1>0, <1>5, PlainStep DEF SameAnswer, SameHeld
<1>6. ASSUME NEW f \in Flows, Callback(f)
      PROVE  \A q \in Refreshers : refresh'[q].rt \in {refresh[q].rt, 0, token.rt}
  BY <1>0, <1>6, CallbackStep DEF SameAnswer, SameHeld
<1>7. ASSUME NEW f \in Flows, SendCode(f)
      PROVE  \A q \in Refreshers : refresh'[q].rt \in {refresh[q].rt, 0, token.rt}
  BY <1>0, <1>7, SendCodeStep DEF SameAnswer, SameHeld
<1>8. ASSUME NEW f \in Flows, Redeem(f)
      PROVE  \A q \in Refreshers : refresh'[q].rt \in {refresh[q].rt, 0, token.rt}
  BY <1>0, <1>8, RedeemStep DEF SameAnswer, SameHeld
<1>9. ASSUME NEW f \in Flows, TokenSaved(f)
      PROVE  \A q \in Refreshers : refresh'[q].rt \in {refresh[q].rt, 0, token.rt}
  BY <1>0, <1>9, SavedStep DEF SameAnswer
<1>10. ASSUME NEW r \in Refreshers, StartRefresh(r) \/ SendRefresh(r)
       PROVE  \A q \in Refreshers : refresh'[q].rt \in {refresh[q].rt, 0, token.rt}
  BY <1>0, <1>10, CallStep DEF OtherRefreshes, SameHeld
<1>11. ASSUME NEW r \in Refreshers, Renew(r)
       PROVE  \A q \in Refreshers : refresh'[q].rt \in {refresh[q].rt, 0, token.rt}
  BY <1>0, <1>11, RenewStep, IdleIs DEF OtherRefreshes, SameHeld
<1>12. ASSUME NEW r \in Refreshers, Renewed(r)
       PROVE  \A q \in Refreshers : refresh'[q].rt \in {refresh[q].rt, 0, token.rt}
  BY <1>0, <1>12, RenewedStep, IdleIs DEF OtherRefreshes
<1>13. ASSUME NEW r \in Refreshers, RefreshFails(r)
       PROVE  \A q \in Refreshers : refresh'[q].rt \in {refresh[q].rt, 0, token.rt}
  BY <1>0, <1>13, RefreshFailsStep, IdleIs DEF OtherRefreshes, SameHeld
<1>14. CASE Expire
  BY <1>0, <1>14, ExpireStep
<1>15. CASE SignOut
  BY <1>0, <1>15, SignOutStep DEF SameAnswer
<1>16. ASSUME NEW b \in BOOLEAN, GatewayRestarts(b)
       PROVE  \A q \in Refreshers : refresh'[q].rt \in {refresh[q].rt, 0, token.rt}
  BY <1>0, <1>16, RestartStep, IdleIs DEF SameAnswer
<1>17. CASE UNCHANGED dcrVars
  BY <1>0, <1>17 DEF dcrVars, provider, ghosts, bounds, FlowPc
<1> QED BY <1>1, <1>2, <1>3, <1>4, <1>5, <1>6, <1>7, <1>8, <1>9, <1>10, <1>11, <1>12, <1>13,
       <1>14, <1>15, <1>16, <1>17 DEF DcrNext, Handles, RefreshRuns

\* An answer on its way stays what it was unless its token is held now.
LEMMA UnsentKept ==
  ASSUME DcrIInv, [DcrNext]_dcrVars, NEW n, Unsent(n), n \in live', n # token'.rt
  PROVE  Unsent(n)'
<1>1. n # 0
  BY NumbersHold DEF DcrIInv, DcrTypeOK, PointsAtIssued, DcrNumbers, Unsent
<1> QED BY <1>1, SentTokens DEF Unsent

\* No answer was sent in this step.
LEMMA NoNewAnswer ==
  ASSUME DcrIInv, [DcrNext]_dcrVars, live' = live,
         \A f \in Flows : flow'[f].pc = "answer" =>
             flow[f].pc = "answer" /\ flow'[f].rt = flow[f].rt /\ flow[f].rt # token'.rt,
         \A r \in Refreshers : refresh'[r].pc = "answer" /\ refresh'[r].new # 0 =>
             refresh[r].pc = "answer" /\ refresh'[r].new = refresh[r].new /\ refresh[r].new # token'.rt
  PROVE  AnswersApart'
<1>1. AnswersApart
  BY DEF DcrIInv
<1>2. ASSUME NEW f \in Flows, flow'[f].pc = "answer"
      PROVE  /\ flow'[f].rt \in live' /\ flow'[f].rt # token'.rt
             /\ \A q \in Refreshers : refresh'[q].rt # flow'[f].rt
             /\ issued'[flow'[f].rt].flow = f
  <2>1. PICK n : n = flow'[f].rt
    OBVIOUS
  <2>2. flow[f].pc = "answer" /\ n = flow[f].rt /\ n # token'.rt
    BY <1>2, <2>1
  <2>3. Unsent(n) /\ issued[n].flow = f /\ n \in live
    BY <1>1, <2>2 DEF AnswersApart, FlowAnswer, Unsent
  <2>4. Unsent(n)'
    BY <2>2, <2>3, UnsentKept
  <2>5. issued'[n].flow = f
    BY <2>3, IssuedKept DEF DcrIInv, DcrTypeOK, PointsAtIssued
  <2> QED BY <2>1, <2>4, <2>5 DEF Unsent
<1>3. ASSUME NEW r \in Refreshers, refresh'[r].pc = "answer", refresh'[r].new # 0
      PROVE  /\ refresh'[r].new \in live' /\ refresh'[r].new # token'.rt
             /\ \A q \in Refreshers : refresh'[q].rt # refresh'[r].new
  <2>1. PICK n : n = refresh'[r].new
    OBVIOUS
  <2>2. refresh[r].pc = "answer" /\ n = refresh[r].new /\ n # 0 /\ n # token'.rt
    BY <1>3, <2>1
  <2>3. Unsent(n) /\ n \in live
    BY <1>1, <2>2 DEF AnswersApart, NewAnswer, Unsent
  <2>4. Unsent(n)'
    BY <2>2, <2>3, UnsentKept
  <2> QED BY <2>1, <2>4 DEF Unsent
<1> QED BY <1>1, <1>2, <1>3 DEF AnswersApart, FlowAnswer, NewAnswer, Unsent

\* The answer n of this step is newer than every one before it.
Newer(n) ==
  /\ \A x \in Flows : flow[x].rt # n
  /\ \A q \in Refreshers : refresh[q].new # n /\ refresh[q].rt # n
  /\ token.rt # n

LEMMA NewerToken ==
  ASSUME DcrTypeOK, IssuesOne, NEW n, n = Len(issued')
  PROVE  n \in Nat \ {0} /\ Newer(n)
BY NumbersHold DEF DcrTypeOK, PointsAtIssued, DcrNumbers, IssuesOne, Newer

LEMMA NewUnsent ==
  ASSUME DcrIInv, [DcrNext]_dcrVars, token'.rt = token.rt, NEW n \in Nat \ {0}, n \in live', Newer(n)
  PROVE  Unsent(n)'
BY SentTokens DEF Newer, Unsent

\* What is known of an answer stays true of it after a step that leaves it alone.
LEMMA FlowAnswerKept ==
  ASSUME DcrIInv, [DcrNext]_dcrVars, token'.rt = token.rt, NEW x \in Flows, flow[x].pc = "answer",
         flow'[x] = flow[x], flow[x].rt \in live'
  PROVE  /\ flow'[x].rt \in live' /\ flow'[x].rt # token'.rt
         /\ \A q \in Refreshers : refresh'[q].rt # flow'[x].rt
         /\ issued'[flow'[x].rt].flow = x
<1>1. PICK m : m = flow[x].rt
  OBVIOUS
<1>2. Unsent(m) /\ issued[m].flow = x /\ m \in live /\ m # token'.rt
  BY <1>1 DEF DcrIInv, AnswersApart, FlowAnswer, Unsent
<1>3. Unsent(m)'
  BY <1>1, <1>2, UnsentKept
<1>4. issued'[m].flow = x
  BY <1>2, IssuedKept DEF DcrIInv, DcrTypeOK, PointsAtIssued
<1> QED BY <1>1, <1>3, <1>4 DEF Unsent

LEMMA NewAnswerKept ==
  ASSUME DcrIInv, [DcrNext]_dcrVars, token'.rt = token.rt, NEW x \in Refreshers,
         refresh[x].pc = "answer", refresh[x].new # 0,
         refresh'[x] = refresh[x], refresh[x].new \in live'
  PROVE  /\ refresh'[x].new \in live' /\ refresh'[x].new # token'.rt
         /\ \A q \in Refreshers : refresh'[q].rt # refresh'[x].new
<1>1. PICK m : m = refresh[x].new
  OBVIOUS
<1>2. Unsent(m) /\ m \in live /\ m # token'.rt
  BY <1>1 DEF DcrIInv, AnswersApart, NewAnswer, Unsent
<1>3. Unsent(m)'
  BY <1>1, <1>2, UnsentKept
<1> QED BY <1>1, <1>3 DEF Unsent

LEMMA RedeemAnswers ==
  ASSUME DcrIInv, [DcrNext]_dcrVars, NEW f \in Flows, Redeem(f)
  PROVE  AnswersApart'
<1>1. AnswersApart /\ DcrTypeOK
  BY DEF DcrIInv
<1>2. /\ OtherFlows(f) /\ refresh' = refresh /\ token' = token /\ flow[f].pc = "post"
      /\ \/ /\ flow'[f].pc = "answer" /\ flow'[f].rt = Len(issued') /\ IssuesOne
            /\ issued'[Len(issued')].flow = f /\ live' = live \cup {Len(issued')}
         \/ flow'[f].pc = "failed" /\ live' = live
  BY <1>1, RedeemStep DEF SameHeld
<1>3. CASE flow'[f].pc = "failed" /\ live' = live
  BY <1>1, <1>2, <1>3, NoNewAnswer DEF OtherFlows, AnswersApart, FlowAnswer, NewAnswer, Unsent
<1>4. CASE /\ flow'[f].pc = "answer" /\ flow'[f].rt = Len(issued') /\ IssuesOne
           /\ issued'[Len(issued')].flow = f /\ live' = live \cup {Len(issued')}
  <2>1. PICK n : n = Len(issued')
    OBVIOUS
  <2>2. n \in Nat \ {0} /\ Newer(n) /\ n \in live'
    BY <1>1, <1>4, <2>1, NewerToken
  <2>3. Unsent(n)'
    BY <1>2, <2>2, NewUnsent
  <2>4. ASSUME NEW x \in Flows, flow'[x].pc = "answer"
        PROVE  /\ flow'[x].rt \in live' /\ flow'[x].rt # token'.rt
               /\ \A q \in Refreshers : refresh'[q].rt # flow'[x].rt
               /\ issued'[flow'[x].rt].flow = x
    <3>1. CASE x = f
      BY <1>4, <2>1, <2>3, <3>1 DEF Unsent
    <3>2. CASE x # f
      <4>1. flow'[x] = flow[x]
        BY <1>2, <3>2 DEF OtherFlows
      <4>2. flow[x].rt \in live'
        BY <1>1, <1>4, <2>4, <4>1 DEF AnswersApart, FlowAnswer, Unsent
      <4> QED BY <1>2, <2>4, <4>1, <4>2, FlowAnswerKept
    <3> QED BY <3>1, <3>2
  <2>5. ASSUME NEW x \in Refreshers, refresh'[x].pc = "answer", refresh'[x].new # 0
        PROVE  /\ refresh'[x].new \in live' /\ refresh'[x].new # token'.rt
               /\ \A q \in Refreshers : refresh'[q].rt # refresh'[x].new
    <3>1. refresh[x].new \in live'
      BY <1>1, <1>2, <1>4, <2>5 DEF AnswersApart, NewAnswer, Unsent
    <3> QED BY <1>2, <2>5, <3>1, NewAnswerKept
  <2>6. \A x, y \in Flows : flow'[x].pc = "answer" /\ flow'[y].pc = "answer" /\ flow'[x].rt = flow'[y].rt => x = y
    BY <2>4
  <2>7. \A x, y \in Refreshers :
            refresh'[x].pc = "answer" /\ refresh'[x].new # 0 /\ refresh'[y].pc = "answer" /\ refresh'[y].new # 0
              => (refresh'[x].new = refresh'[y].new => x = y)
    BY <1>1, <1>2 DEF AnswersApart, NewAnswer
  <2>8. \A x \in Flows, y \in Refreshers :
            flow'[x].pc = "answer" /\ refresh'[y].pc = "answer" /\ refresh'[y].new # 0
              => flow'[x].rt # refresh'[y].new
    <3> SUFFICES ASSUME NEW x \in Flows, NEW y \in Refreshers, flow'[x].pc = "answer",
                        refresh'[y].pc = "answer", refresh'[y].new # 0
                 PROVE  flow'[x].rt # refresh'[y].new
      OBVIOUS
    <3>1. CASE x = f
      BY <1>2, <1>4, <2>1, <2>2, <3>1 DEF Newer
    <3>2. CASE x # f
      BY <1>1, <1>2, <3>2 DEF AnswersApart, FlowAnswer, NewAnswer, OtherFlows
    <3> QED BY <3>1, <3>2
  <2> QED BY <2>4, <2>5, <2>6, <2>7, <2>8 DEF AnswersApart, FlowAnswer, NewAnswer, Unsent
<1> QED BY <1>2, <1>3, <1>4

LEMMA RenewAnswers ==
  ASSUME DcrIInv, [DcrNext]_dcrVars, NEW r \in Refreshers, Renew(r)
  PROVE  AnswersApart'
<1>1. AnswersApart /\ DcrTypeOK
  BY DEF DcrIInv
<1>2. /\ OtherRefreshes(r) /\ flow' = flow /\ token' = token /\ refresh[r].pc = "post"
      /\ \/ /\ refresh'[r].new = Len(issued') /\ IssuesOne
            /\ live' = (live \ {refresh[r].rt}) \cup {Len(issued')}
         \/ refresh'[r].new = 0 /\ live' = live
  BY <1>1, RenewStep, IdleIs DEF SameHeld
<1>3. CASE refresh'[r].new = 0 /\ live' = live
  BY <1>1, <1>2, <1>3, NoNewAnswer DEF OtherRefreshes, AnswersApart, FlowAnswer, NewAnswer, Unsent
<1>4. CASE /\ refresh'[r].new = Len(issued') /\ IssuesOne
           /\ live' = (live \ {refresh[r].rt}) \cup {Len(issued')}
  <2>1. PICK n : n = Len(issued')
    OBVIOUS
  <2>2. n \in Nat \ {0} /\ Newer(n) /\ n \in live'
    BY <1>1, <1>4, <2>1, NewerToken
  <2>3. Unsent(n)'
    BY <1>2, <2>2, NewUnsent
  <2>4. ASSUME NEW x \in Flows, flow'[x].pc = "answer"
        PROVE  /\ flow'[x].rt \in live' /\ flow'[x].rt # token'.rt
               /\ \A q \in Refreshers : refresh'[q].rt # flow'[x].rt
               /\ issued'[flow'[x].rt].flow = x
    <3>1. flow'[x] = flow[x]
      BY <1>2
    <3>2. flow[x].rt \in live'
      BY <1>1, <1>4, <2>4, <3>1 DEF AnswersApart, FlowAnswer, Unsent
    <3> QED BY <1>2, <2>4, <3>1, <3>2, FlowAnswerKept
  <2>5. ASSUME NEW x \in Refreshers, refresh'[x].pc = "answer", refresh'[x].new # 0
        PROVE  /\ refresh'[x].new \in live' /\ refresh'[x].new # token'.rt
               /\ \A q \in Refreshers : refresh'[q].rt # refresh'[x].new
    <3>1. CASE x = r
      BY <1>4, <2>1, <2>3, <3>1 DEF Unsent
    <3>2. CASE x # r
      <4>1. refresh'[x] = refresh[x]
        BY <1>2, <3>2 DEF OtherRefreshes
      <4>2. refresh[x].new \in live'
        BY <1>1, <1>4, <2>5, <4>1 DEF AnswersApart, NewAnswer, Unsent
      <4> QED BY <1>2, <2>5, <4>1, <4>2, NewAnswerKept
    <3> QED BY <3>1, <3>2
  <2>6. \A x, y \in Flows : flow'[x].pc = "answer" /\ flow'[y].pc = "answer" /\ flow'[x].rt = flow'[y].rt => x = y
    BY <2>4
  <2>7. \A x, y \in Refreshers :
            refresh'[x].pc = "answer" /\ refresh'[x].new # 0 /\ refresh'[y].pc = "answer" /\ refresh'[y].new # 0
              => (refresh'[x].new = refresh'[y].new => x = y)
    BY <1>1, <1>2, <1>4, <2>1, <2>2 DEF AnswersApart, NewAnswer, OtherRefreshes, Newer
  <2>8. \A x \in Flows, y \in Refreshers :
            flow'[x].pc = "answer" /\ refresh'[y].pc = "answer" /\ refresh'[y].new # 0
              => flow'[x].rt # refresh'[y].new
    BY <1>1, <1>2, <1>4, <2>1, <2>2 DEF AnswersApart, FlowAnswer, NewAnswer, OtherRefreshes, Newer
  <2> QED BY <2>4, <2>5, <2>6, <2>7, <2>8 DEF AnswersApart, FlowAnswer, NewAnswer, Unsent
<1> QED BY <1>2, <1>3, <1>4

LEMMA AnswersStayApart == DcrIInv /\ [DcrNext]_dcrVars => AnswersApart'
<1> SUFFICES ASSUME DcrIInv, [DcrNext]_dcrVars PROVE AnswersApart'
  OBVIOUS
<1>0. DcrTypeOK /\ AnswersApart
  BY DEF DcrIInv
<1>1. ASSUME NEW f \in Flows, NEW o \in Origins, Start(f, o) PROVE AnswersApart'
  BY <1>0, <1>1, StartStep, IdleIs, NoNewAnswer DEF AnswersApart, FlowAnswer, NewAnswer, Unsent,
     OtherFlows, OtherRefreshes, SameAnswer, SameHeld, SameProvider, ghosts
<1>2. ASSUME NEW f \in Flows, StartMeta(f) PROVE AnswersApart'
  BY <1>0, <1>2, MetaStep, IdleIs, NoNewAnswer DEF AnswersApart, FlowAnswer, NewAnswer, Unsent,
     OtherFlows, OtherRefreshes, SameAnswer, SameHeld, SameProvider, ghosts
<1>3. ASSUME NEW f \in Flows, Register(f) PROVE AnswersApart'
  BY <1>0, <1>3, RegisterStep, IdleIs, NoNewAnswer DEF AnswersApart, FlowAnswer, NewAnswer,
     Unsent, OtherFlows, OtherRefreshes, SameAnswer, SameHeld, SameProvider, ghosts
<1>4. ASSUME NEW f \in Flows, Consent(f) PROVE AnswersApart'
  BY <1>0, <1>4, ConsentStep, IdleIs, NoNewAnswer DEF AnswersApart, FlowAnswer, NewAnswer, Unsent,
     OtherFlows, OtherRefreshes, SameAnswer, SameHeld, SameProvider, ghosts
<1>5. ASSUME NEW f \in Flows, Deny(f) \/ CallbackRefused(f) \/ FlowFails(f) PROVE AnswersApart'
  BY <1>0, <1>5, PlainStep, IdleIs, NoNewAnswer DEF AnswersApart, FlowAnswer, NewAnswer, Unsent,
     OtherFlows, OtherRefreshes, SameAnswer, SameHeld, SameProvider, ghosts
<1>6. ASSUME NEW f \in Flows, Callback(f) PROVE AnswersApart'
  BY <1>0, <1>6, CallbackStep, IdleIs, NoNewAnswer DEF AnswersApart, FlowAnswer, NewAnswer,
     Unsent, OtherFlows, OtherRefreshes, SameAnswer, SameHeld, SameProvider, ghosts
<1>7. ASSUME NEW f \in Flows, SendCode(f) PROVE AnswersApart'
  BY <1>0, <1>7, SendCodeStep, IdleIs, NoNewAnswer DEF AnswersApart, FlowAnswer, NewAnswer,
     Unsent, OtherFlows, OtherRefreshes, SameAnswer, SameHeld, SameProvider, ghosts
<1>8. ASSUME NEW f \in Flows, Redeem(f) PROVE AnswersApart'
  BY <1>8, RedeemAnswers
<1>9. ASSUME NEW f \in Flows, TokenSaved(f) PROVE AnswersApart'
  <2>1. /\ OtherFlows(f) /\ flow[f].pc = "answer" /\ flow'[f].pc = "done"
        /\ live' = live /\ refresh' = refresh
        /\ token' = [flow |-> f, rt |-> flow[f].rt, fresh |-> TRUE]
    BY <1>0, <1>9, SavedStep DEF SameProvider
  <2>2. token'.rt = flow[f].rt
    BY <2>1
  <2> QED BY <1>0, <2>1, <2>2, NoNewAnswer DEF AnswersApart, FlowAnswer, NewAnswer, Unsent,
       OtherFlows
<1>10. ASSUME NEW r \in Refreshers, StartRefresh(r) \/ SendRefresh(r) PROVE AnswersApart'
  BY <1>0, <1>10, CallStep, IdleIs, NoNewAnswer DEF AnswersApart, FlowAnswer, NewAnswer, Unsent,
     OtherFlows, OtherRefreshes, SameAnswer, SameHeld, SameProvider, ghosts
<1>11. ASSUME NEW r \in Refreshers, Renew(r) PROVE AnswersApart'
  BY <1>11, RenewAnswers
<1>12. ASSUME NEW r \in Refreshers, Renewed(r) PROVE AnswersApart'
  <2>1. /\ OtherRefreshes(r) /\ refresh[r].pc = "answer" /\ refresh'[r] = NoRefresh
        /\ live' = live /\ flow' = flow
        /\ token' = [flow |-> refresh[r].of, rt |-> refresh[r].new, fresh |-> TRUE]
    BY <1>0, <1>12, RenewedStep DEF SameProvider
  <2>2. token'.rt = refresh[r].new
    BY <2>1
  <2>3. \A x \in live : x # 0
    BY <1>0, NumbersHold DEF DcrTypeOK, PointsAtIssued, DcrNumbers
  <2> QED BY <1>0, <2>1, <2>2, <2>3, IdleIs, NoNewAnswer DEF AnswersApart, FlowAnswer, NewAnswer,
       Unsent, OtherRefreshes
<1>13. ASSUME NEW r \in Refreshers, RefreshFails(r) PROVE AnswersApart'
  BY <1>0, <1>13, RefreshFailsStep, IdleIs, NoNewAnswer DEF AnswersApart, FlowAnswer, NewAnswer,
     Unsent, OtherFlows, OtherRefreshes, SameAnswer, SameHeld, SameProvider, ghosts
<1>14. CASE Expire
  BY <1>0, <1>14, ExpireStep, IdleIs, NoNewAnswer DEF AnswersApart, FlowAnswer, NewAnswer, Unsent,
     OtherFlows, OtherRefreshes, SameAnswer, SameHeld, SameProvider, ghosts
<1>15. CASE SignOut
  <2>1. token'.rt = 0
    BY <1>0, <1>15, SignOutStep, NothingHeld
  <2>2. \A x \in live : x # 0
    BY <1>0, NumbersHold DEF DcrTypeOK, PointsAtIssued, DcrNumbers
  <2> QED BY <1>0, <2>1, <2>2, <1>15, SignOutStep, NoNewAnswer DEF AnswersApart, FlowAnswer,
       NewAnswer, Unsent, SameAnswer, SameProvider
<1>16. ASSUME NEW b \in BOOLEAN, GatewayRestarts(b) PROVE AnswersApart'
  <2>1. /\ live' = live
        /\ \A x \in Flows : flow'[x].pc # "answer"
        /\ \A q \in Refreshers : refresh'[q].pc = "idle"
    BY <1>0, <1>16, RestartStep, IdleIs DEF SameProvider
  <2> QED BY <2>1, NoNewAnswer
<1>17. CASE UNCHANGED dcrVars
  BY <1>0, <1>17, NoNewAnswer DEF dcrVars, provider, AnswersApart, FlowAnswer, NewAnswer, Unsent
<1> QED BY <1>1, <1>2, <1>3, <1>4, <1>5, <1>6, <1>7, <1>8, <1>9, <1>10, <1>11, <1>12, <1>13,
       <1>14, <1>15, <1>16, <1>17 DEF DcrNext, Handles, RefreshRuns

LEMMA DcrTypesStay == DcrIInv /\ [DcrNext]_dcrVars => DcrTypeOK'
BY HandlersTyped, HeldTyped, ProviderTyped, HistoryTyped, CountersTyped, OriginsTyped, PointersStay
   DEF DcrTypeOK, HandlersOK, HeldOK, ProviderOK, HistoryOK, CountersOK, OriginsOK

LEMMA DcrInitHolds == DcrInit => DcrIInv
<1> SUFFICES ASSUME DcrInit PROVE DcrIInv
  OBVIOUS
<1> USE DcrAssumption DEF DcrInit
<1>1. NoFlow \in SignIn
  BY NothingTyped DEF NoFlow, SignIn, FlowPc
<1>2. /\ NoFlow.pc = "none" /\ NoFlow.cid = 0 /\ NoFlow.rt = 0 /\ ~NoFlow.coded
      /\ NoRefresh.pc = "idle" /\ NoRefresh.rt = 0 /\ NoRefresh.new = 0
  BY DEF NoFlow, NoRefresh
<1>3. PointsAtIssued
  BY <1>2, NothingHeld DEF PointsAtIssued
<1>4. DcrTypeOK
  <2>1. client \in Client /\ token \in Token /\ token = NoToken
    BY NothingTyped
  <2>2. /\ flow \in [Flows -> SignIn] /\ refresh \in [Refreshers -> Renewal]
        /\ \A f \in Flows : flow[f].pc = "none"
    BY <1>1, <1>2, NoRefreshTyped
  <2>3. regs \in Seq(Origins) /\ issued \in Seq([flow : Flows, cid : Nat])
    OBVIOUS
  <2>4. cuts \in 0..MaxCuts /\ downs \in 0..MaxDowns /\ expiries \in 0..MaxExpiries
    OBVIOUS
  <2>5. /\ pending \subseteq Flows /\ spent \subseteq Flows /\ cut \subseteq Flows
        /\ uses \in [Flows -> Nat] /\ late \in BOOLEAN /\ lost \in BOOLEAN
    OBVIOUS
  <2> QED BY <1>3, <2>1, <2>2, <2>3, <2>4, <2>5 DEF DcrTypeOK
<1>5. DiskIsMemory /\ ClientIsRegistered /\ NobodyIsSentAstray /\ FreshFlows /\ OneUse
  BY <1>2, NothingHeld DEF DiskIsMemory, ClientIsRegistered, NobodyIsSentAstray, FreshFlows, OneUse
<1>6. IssuedToConsent /\ CodedFlows /\ CutFlows /\ TokenIsIssued /\ HeldGrantLives
  BY <1>2, NothingHeld DEF IssuedToConsent, CodedFlows, CutFlows, TokenIsIssued, HeldGrantLives
<1>7. RefreshesTrace /\ AnswersApart
  BY <1>2 DEF RefreshesTrace, Traces, AnswersApart, FlowAnswer, NewAnswer
<1> QED BY <1>4, <1>5, <1>6, <1>7 DEF DcrIInv

LEMMA DcrStepHolds == DcrIInv /\ [DcrNext]_dcrVars => DcrIInv'
BY DcrTypesStay, FilesStay, FreshFlowsStay, OneUseStays, RegistrationsStay, SentAsRegisteredStays,
   CodedStay, IssuedToConsentStays, CutStay, TokenTraces, RefreshesStayTraced, HeldGrantLivesOn,
   AnswersStayApart
   DEF DcrIInv

\* (DcrOAuth) However many sign-ins, refreshes, disconnects and restarts overlap, at
\* any number of users, addresses and refreshing calls: the files say what the process
\* holds, a code is sent once, every browser goes to the provider as a client of its
\* address, and the credential held is one the user consented to and did not end, with a
\* refresh token the provider still accepts.
THEOREM SignInsStaySound == DcrSpec => []SignInsAreSound
<1>1. DcrIInv => SignInsAreSound
  BY DEF DcrIInv, SignInsAreSound, OneUse, CodesAreSentOnce, TokenIsIssued, TokenTracesToConsent
<1> QED BY <1>1, DcrInitHolds, DcrStepHolds, PTL DEF DcrSpec

-----------------------------------------------------------------------------
(* MessageRelay: streams                                                   *)

\* A set of numbers that is not empty has a least one.
LEMMA LeastNumber ==
  ASSUME NEW E, E \subseteq Nat, E # {}
  PROVE  \E i \in E : \A j \in E : i <= j
<1>1. PICK i \in E : \A j \in E : ~(<<j, i>> \in OpToRel(<, Nat))
  BY ONLY NatLessThanWellFounded, WFMin, E \subseteq Nat, E # {}, Zenon
<1>2. ASSUME NEW j \in E PROVE i <= j
  <2>1. <<j, i>> \in Nat \X Nat /\ <<j, i>>[1] = j /\ <<j, i>>[2] = i
    OBVIOUS
  <2>2. ~(j < i)
    BY <1>1, <2>1 DEF OpToRel
  <2> QED BY <2>2
<1> QED BY <1>2

\* After the last chunk and after a trailer comes a blank line, another trailer
\* or the end of the stream.
Tidy(s) ==
    /\ s \in Seq(StreamToken)
    /\ \A i \in 1..(Len(s) - 1) : (s[i].t = "trailer" \/ s[i] = LastChunk)
                                     => s[i + 1].t \in {"crlf", "trailer", "eof"}

\* What is left of a stream is as tidy as the stream.
LEMMA TailsAreTidy ==
  ASSUME NEW s, Tidy(s), NEW a \in 1..(Len(s) + 1)
  PROVE  Tidy(SubSeq(s, a, Len(s)))
<1> DEFINE r == SubSeq(s, a, Len(s))
<1>1. s \in Seq(StreamToken) /\ Len(s) \in Nat
  BY DEF Tidy
<1>2. /\ r \in Seq(StreamToken) /\ Len(r) = Len(s) - a + 1
      /\ \A i \in 1..Len(r) : r[i] = s[i + a - 1]
  BY <1>1
<1>3. ASSUME NEW i \in 1..(Len(r) - 1), r[i].t = "trailer" \/ r[i] = LastChunk
      PROVE  r[i + 1].t \in {"crlf", "trailer", "eof"}
  <2> DEFINE j == i + a - 1
  <2>1. j \in 1..(Len(s) - 1) /\ r[i] = s[j] /\ r[i + 1] = s[j + 1]
    BY <1>1, <1>2
  <2> HIDE DEF j, r
  <2> QED BY <1>3, <2>1 DEF Tidy
<1> QED BY <1>2, <1>3 DEF Tidy

LEMMA EmptyIsTidy == Tidy(<<>>)
BY DEF Tidy

\* The first line of a stream that has one, and what follows it.
LEMMA NextToken ==
  ASSUME NEW s, Tidy(s), s # <<>>
  PROVE  /\ Head(s) \in StreamToken
         /\ Tidy(SubSeq(s, 2, Len(s)))
         /\ (Head(s).t = "trailer" \/ Head(s) = LastChunk) /\ SubSeq(s, 2, Len(s)) # <<>>
              => Head(SubSeq(s, 2, Len(s))).t \in {"crlf", "trailer", "eof"}
<1>1. s \in Seq(StreamToken) /\ Len(s) \in Nat \ {0} /\ Head(s) = s[1]
  BY DEF Tidy
<1>2. Tidy(SubSeq(s, 2, Len(s)))
  BY <1>1, TailsAreTidy
<1>3. Head(s) \in StreamToken
  BY <1>1
<1>4. ASSUME s[1].t = "trailer" \/ s[1] = LastChunk, SubSeq(s, 2, Len(s)) # <<>>
      PROVE  Head(SubSeq(s, 2, Len(s))).t \in {"crlf", "trailer", "eof"}
  <2>1. Len(s) > 1 /\ Head(SubSeq(s, 2, Len(s))) = s[2]
    BY <1>1, <1>4
  <2>2. 1 \in 1..(Len(s) - 1)
    BY <1>1, <2>1
  <2>3. s[1 + 1].t \in {"crlf", "trailer", "eof"}
    BY <1>4, <2>2 DEF Tidy
  <2> QED BY <2>1, <2>3
<1> QED BY <1>1, <1>2, <1>3, <1>4

\* The end of a head lies in the stream, and its lines are lines of the stream.
LEMMA HeadsAreRead ==
  ASSUME NEW s, Tidy(s), s # <<>>
  PROVE  /\ HeadLength(s) \in 1..Len(s)
         /\ Tidy(AfterTheHead(s))
         /\ Range(SubSeq(s, 1, HeadLength(s))) \subseteq StreamToken
<1>1. s \in Seq(StreamToken) /\ Len(s) \in Nat \ {0}
  BY DEF Tidy
<1>2. HeadLength(s) \in 1..Len(s)
  <2>1. CASE ~\E i \in DOMAIN s : s[i].t \in {"end", "eof"}
    BY <1>1, <2>1 DEF HeadLength
  <2>2. CASE \E i \in DOMAIN s : s[i].t \in {"end", "eof"}
    <3> DEFINE E == {i \in DOMAIN s : s[i].t \in {"end", "eof"}}
    <3>1. E \subseteq Nat /\ E # {}
      BY <1>1, <2>2
    <3>2. \E i \in E : \A j \in E : i <= j
      BY ONLY <3>1, LeastNumber
    <3>3. \E i \in DOMAIN s : /\ s[i].t \in {"end", "eof"}
                              /\ \A j \in 1..(i - 1) : s[j].t \notin {"end", "eof"}
      BY <1>1, <3>2
    <3> QED BY <1>1, <2>2, <3>3 DEF HeadLength
  <2> QED BY <2>1, <2>2
<1>3. Tidy(AfterTheHead(s))
  BY <1>1, <1>2, TailsAreTidy DEF AfterTheHead
<1>4. Range(SubSeq(s, 1, HeadLength(s))) \subseteq StreamToken
  BY <1>1, <1>2 DEF Range
<1> QED BY <1>2, <1>3, <1>4

-----------------------------------------------------------------------------
(* MessageRelay: who has read how far                                      *)

\* Nothing of a response is under way.
NothingUnderWay == framing = NoFraming /\ parser = Boundary

ParserState ==
    [at : {"boundary", "length", "size", "data", "delimiter", "trailers", "eof", "broken"},
     left : Nat]

\* The body the broker still expects is the one the sandbox's parser waits for.
SameRest ==
    /\ parser \in ParserState
    /\ \/ /\ framing.kind = "length" /\ framing.at = "size" /\ framing.left \in Nat \ {0}
          /\ parser = [at |-> "length", left |-> framing.left]
       \/ /\ framing.kind = "chunked" /\ framing.left \in Nat
          /\ framing.at \in {"size", "data", "delimiter", "trailers"}
          /\ parser.at = framing.at
          /\ framing.at = "data" => framing.left > 0 /\ parser.left = framing.left
          /\ framing.at = "trailers" /\ from # <<>> => Head(from).t \in {"crlf", "trailer", "eof"}
       \/ framing.kind = "eof" /\ parser.at = "eof"

RelayShape ==
    /\ phase \in {"idle", "connect", "head", "body", "answered", "closed"}
    /\ parser \in ParserState
    /\ framing \in [kind : {None, "eof", "length", "chunked"}, left : Int,
                    at : {"size", "data", "delimiter", "trailers"}]
    /\ observer \in {"absent", "watching", "dropped", "ended"}
    /\ Tidy(from)

\* The state of the exchange, phase by phase.
Exchange ==
    /\ phase \in {"idle", "connect", "head"} => NothingUnderWay
    /\ phase = "answered" => parser = Boundary
    /\ phase = "body" => SameRest
    /\ TruncationIsDetectable

\* Each request read is answered once, and never before it was read.
Counts ==
    /\ answers \in Nat /\ reads \in Nat /\ answers <= reads
    /\ phase \in {"connect", "head"} => answers < reads

Observation ==
    /\ ObserverSeesThePayload
    /\ seen \in Nat /\ decoded \in Nat
    /\ phase \in {"head", "body"} => observer # "ended"

RelayIInv == RelayShape /\ Exchange /\ Counts /\ Observation

LEMMA RelayInitHolds == RelayInit => RelayIInv
<1> SUFFICES ASSUME RelayInit PROVE RelayIInv
  OBVIOUS
<1>1. RelayShape
  BY EmptyIsTidy DEF RelayInit, RelayShape, ParserState, NoFraming, Boundary
<1>2. Exchange
  BY RelayAssumption DEF RelayInit, Exchange, NothingUnderWay, NoFraming, Boundary, TruncationIsDetectable
<1>3. Counts /\ Observation
  BY RelayAssumption DEF RelayInit, Counts, Observation, ObserverSeesThePayload
<1> QED BY <1>1, <1>2, <1>3 DEF RelayIInv

\* An answer of the broker's own where the parser expects one.
LEMMA OwnAnswers ==
  ASSUME RelayIInv, phase \in {"idle", "connect", "head"}, Answers
  PROVE  /\ phase' = "closed" /\ parser' = Boundary /\ framing = NoFraming
         /\ answers' = answers + 1
BY DEF RelayIInv, Exchange, NothingUnderWay, Answers, Boundary

LEMMA ReadKeeps == ASSUME RelayIInv, read_sandbox_request PROVE RelayIInv'
<1>1. /\ phase = "idle" /\ phase' \in {"connect", "closed"}
      /\ UNCHANGED <<from, framing, observer, seen, decoded>>
  BY DEF read_sandbox_request, Answers
<1>2. NothingUnderWay /\ parser' = Boundary
  BY <1>1 DEF read_sandbox_request, Answers, RelayIInv, Exchange, NothingUnderWay, Boundary
<1>3. RelayShape' /\ Exchange' /\ Observation'
  BY <1>1, <1>2, RelayAssumption
     DEF RelayIInv, RelayShape, Exchange, NothingUnderWay, Observation, ObserverSeesThePayload,
         TruncationIsDetectable, Boundary, NoFraming
<1>4. \/ reads' = reads /\ answers' = answers /\ phase' = "closed"
      \/ reads' = reads + 1 /\ answers' = answers + 1 /\ phase' = "closed"
      \/ reads' = reads + 1 /\ answers' = answers
  BY DEF read_sandbox_request, Answers
<1>5. Counts'
  BY <1>1, <1>4 DEF RelayIInv, Counts
<1> QED BY <1>3, <1>5 DEF RelayIInv

LEMMA RefusalsKeep == ASSUME RelayIInv, Refuse \/ ConnectFails \/ RefuseHead \/ HeadFails
                      PROVE  RelayIInv'
<1>1. /\ phase \in {"connect", "head"} /\ Answers /\ (from' = from \/ from' = <<>>)
      /\ observer' \in {observer, IF observer = "watching" THEN "ended" ELSE observer}
      /\ UNCHANGED <<framing, seen, decoded, reads>>
  BY DEF Refuse, ConnectFails, RefuseHead, HeadFails
<1>2. phase' = "closed" /\ parser' = Boundary /\ framing = NoFraming /\ answers' = answers + 1
  BY <1>1, OwnAnswers
<1>3. Tidy(from)'
  BY <1>1, EmptyIsTidy DEF RelayIInv, RelayShape
<1>4. RelayShape'
  BY <1>1, <1>2, <1>3 DEF RelayIInv, RelayShape, ParserState, Boundary
<1>5. Exchange' /\ Counts' /\ Observation'
  BY <1>1, <1>2, RelayAssumption
     DEF RelayIInv, Exchange, NothingUnderWay, Counts, Observation, ObserverSeesThePayload,
         TruncationIsDetectable, NoFraming
<1> QED BY <1>4, <1>5 DEF RelayIInv

LEMMA ConnectKeeps == ASSUME RelayIInv, NEW r \in Responses, Connect(r) PROVE RelayIInv'
<1>1. Tidy(r)
  BY RelayAssumption DEF Tidy
<1>2. RelayShape'
  BY <1>1 DEF Connect, RelayIInv, RelayShape, NoFraming
<1>3. Exchange' /\ Counts' /\ Observation'
  BY RelayAssumption
     DEF Connect, RelayIInv, Exchange, NothingUnderWay, Counts, Observation, ObserverSeesThePayload,
         TruncationIsDetectable, NoFraming
<1> QED BY <1>2, <1>3 DEF RelayIInv

LEMMA InterimKeeps == ASSUME RelayIInv, RelayInterim PROVE RelayIInv'
<1>1. Tidy(from')
  BY HeadsAreRead DEF RelayInterim, HeadHasArrived, RelayIInv, RelayShape
<1> QED BY <1>1 DEF RelayInterim, RelayIInv, RelayShape, Exchange, NothingUnderWay, Counts, Observation,
                    ObserverSeesThePayload, TruncationIsDetectable

\* The framing the broker reads off a head is the one the sandbox's parser reads off
\* the head that was passed on.
LEMMA HeadsAreReadAlike ==
  ASSUME RelayIInv, RelayHead
  PROVE  \/ /\ phase' = "answered" /\ parser' = Boundary
            /\ framing' \in {NoFraming, Complete}
         \/ /\ phase' = "body" /\ SameRest'
            /\ framing' \in [kind : {"eof", "length", "chunked"}, left : Nat, at : {"size"}]
<1> DEFINE H == ResponseHead
           F == ForwardedHead(H)
<1>1. /\ phase = "head" /\ parser = Boundary /\ from # <<>> /\ Tidy(from)
      /\ H \subseteq StreamToken
  BY HeadsAreRead DEF RelayHead, HeadHasArrived, RelayIInv, RelayShape, Exchange, NothingUnderWay, ResponseHead
<1>2. CASE ~CanHaveBody(Status)
  <2>1. parser' = Boundary /\ framing' = NoFraming /\ phase' = "answered"
    BY <1>1, <1>2 DEF RelayHead, AfterHead, ResponseCanHaveBody, Boundary
  <2> QED BY <2>1
<1>3. CASE CanHaveBody(Status)
  <2>1. /\ parser' = AfterHead(Status, F) /\ framing' = FramingOf(H)
        /\ phase' = IF FramingOf(H) = Complete THEN "answered" ELSE "body"
    BY <1>3 DEF RelayHead, ResponseCanHaveBody
  <2>2. /\ Has(F, "coded") = Has(H, "coded") /\ Has(F, "chunked") = Has(H, "chunked")
    BY DEF ForwardedHead, Has
  <2>3. CASE Has(H, "coded")
    <3>1. ~Has(F, "length")
      BY <2>3 DEF ForwardedHead, Has
    <3>2. parser' = [at |-> "eof", left |-> 0] /\ framing' = [NoFraming EXCEPT !.kind = "eof"]
      BY <1>1, <1>3, <2>1, <2>2, <2>3, <3>1 DEF AfterHead, FramingOf, Boundary
    <3> QED BY <2>1, <3>2 DEF SameRest, ParserState, NoFraming, Complete
  <2>4. CASE ~Has(H, "coded") /\ Has(H, "chunked")
    <3>1. ~Has(F, "length")
      BY <2>4 DEF ForwardedHead, Has
    <3>2. parser' = [at |-> "size", left |-> 0] /\ framing' = [NoFraming EXCEPT !.kind = "chunked"]
      BY <1>1, <1>3, <2>1, <2>2, <2>4, <3>1 DEF AfterHead, FramingOf, Boundary
    <3> QED BY <2>1, <3>2 DEF SameRest, ParserState, NoFraming, Complete
  <2>5. CASE ~Has(H, "coded") /\ ~Has(H, "chunked") /\ Has(H, "length")
    <3>1. F = H
      BY <2>5 DEF ForwardedHead
    <3>2. LengthOf(H) \in Nat
      BY <1>1, <2>5 DEF Has, LengthOf, StreamToken
    <3>3. /\ framing' = [NoFraming EXCEPT !.kind = "length", !.left = LengthOf(H)]
          /\ parser' = IF LengthOf(H) = 0 THEN Boundary ELSE [at |-> "length", left |-> LengthOf(H)]
      BY <1>1, <1>3, <2>1, <2>5, <3>1 DEF AfterHead, FramingOf, Boundary
    <3>4. framing' = [kind |-> "length", left |-> LengthOf(H), at |-> "size"]
      BY <3>3 DEF NoFraming
    <3>5. CASE LengthOf(H) = 0
      BY <2>1, <3>3, <3>4, <3>5 DEF Complete
    <3>6. CASE LengthOf(H) # 0
      <4>1. framing' # Complete
        BY <3>4, <3>6 DEF Complete
      <4>2. phase' = "body"
        BY <2>1, <3>3, <3>4, <4>1 DEF Complete
      <4>3. parser' = [at |-> "length", left |-> LengthOf(H)]
        BY <3>3, <3>6
      <4> HIDE DEF H, F
      <4> QED BY <3>2, <3>4, <3>6, <4>2, <4>3 DEF SameRest, ParserState
    <3> QED BY <3>5, <3>6
  <2>6. CASE ~Has(H, "coded") /\ ~Has(H, "chunked") /\ ~Has(H, "length")
    <3>1. F = H
      BY <2>6 DEF ForwardedHead
    <3>2. parser' = [at |-> "eof", left |-> 0] /\ framing' = [NoFraming EXCEPT !.kind = "eof"]
      BY <1>1, <1>3, <2>1, <2>6, <3>1 DEF AfterHead, FramingOf, Boundary
    <3> QED BY <2>1, <3>2 DEF SameRest, ParserState, NoFraming, Complete
  <2> QED BY <2>3, <2>4, <2>5, <2>6
<1> QED BY <1>2, <1>3

LEMMA HeadKeeps == ASSUME RelayIInv, RelayHead PROVE RelayIInv'
<1>1. /\ phase = "head" /\ from # <<>> /\ Tidy(from')
      /\ answers' = answers + 1 /\ UNCHANGED <<observer, seen, decoded, reads>>
  BY HeadsAreRead DEF RelayHead, HeadHasArrived, RelayIInv, RelayShape
<1>2. /\ phase' \in {"answered", "body"}
      /\ phase' = "answered" => parser' = Boundary
      /\ phase' = "body" => SameRest'
      /\ framing' \in [kind : {None, "eof", "length", "chunked"}, left : Int,
                       at : {"size", "data", "delimiter", "trailers"}]
  BY HeadsAreReadAlike DEF NoFraming, Complete
<1>3. RelayShape'
  BY <1>1, <1>2 DEF RelayIInv, RelayShape, SameRest, ParserState, Boundary
<1>4. Exchange'
  BY <1>1, <1>2 DEF Exchange, TruncationIsDetectable
<1>5. Counts' /\ Observation'
  BY <1>1, <1>2 DEF RelayIInv, Counts, Observation, ObserverSeesThePayload
<1> QED BY <1>3, <1>4, <1>5 DEF RelayIInv

LEMMA UnitKeeps == ASSUME RelayIInv, RelayUnit PROVE RelayIInv'
<1>1. /\ phase = "body" /\ phase' \in {"body", "answered"} /\ SameRest
      /\ from # <<>> /\ Tidy(from') /\ Head(from).t = "unit"
      /\ UNCHANGED <<observer, answers, reads>>
  BY NextToken DEF RelayUnit, AfterToken, RelayIInv, RelayShape, Exchange
<1>2. /\ phase' = "answered" => parser' = Boundary
      /\ phase' = "body" => SameRest'
      /\ framing' \in [kind : {None, "eof", "length", "chunked"}, left : Int,
                       at : {"size", "data", "delimiter", "trailers"}]
  <2>0. framing = [kind |-> framing.kind, left |-> framing.left, at |-> framing.at]
    BY DEF RelayIInv, RelayShape
  <2>1. CASE framing.kind = "eof" /\ parser.at = "eof"
    <3>1. framing' = framing /\ parser' = parser
      BY <2>1 DEF RelayUnit, AfterUnit
    <3>2. phase' = "body"
      BY <2>1, <3>1 DEF RelayUnit, Complete
    <3> QED BY <2>1, <3>1, <3>2 DEF RelayIInv, RelayShape, SameRest
  <2>2. CASE /\ framing.kind = "length" /\ framing.at = "size" /\ framing.left \in Nat \ {0}
             /\ parser = [at |-> "length", left |-> framing.left]
    <3>1. framing' = [kind |-> "length", left |-> framing.left - 1, at |-> "size"]
      BY <2>0, <2>2 DEF RelayUnit
    <3>2. CASE framing.left = 1
      BY <2>2, <3>1, <3>2 DEF RelayUnit, AfterUnit, Complete, Boundary
    <3>3. CASE framing.left # 1
      <4>1. phase' = "body"
        BY <2>2, <3>1, <3>3 DEF RelayUnit, Complete
      <4>2. parser' = [at |-> "length", left |-> framing.left - 1]
        BY <2>2, <3>3 DEF RelayUnit, AfterUnit
      <4> QED BY <2>2, <3>1, <3>3, <4>1, <4>2 DEF SameRest, ParserState
    <3> QED BY <3>2, <3>3
  <2>3. CASE /\ framing.kind = "chunked" /\ framing.at = "data" /\ framing.left \in Nat \ {0}
             /\ parser.at = "data" /\ parser.left = framing.left
    <3>1. framing' = [kind |-> "chunked", left |-> framing.left - 1,
                      at |-> IF framing.left = 1 THEN "delimiter" ELSE "data"]
      BY <2>0, <2>3 DEF RelayUnit
    <3>2. phase' = "body"
      BY <3>1 DEF RelayUnit, Complete
    <3>3. parser' = IF framing.left = 1 THEN [at |-> "delimiter", left |-> 0]
                                        ELSE [parser EXCEPT !.left = @ - 1]
      BY <2>3 DEF RelayUnit, AfterUnit
    <3>4. /\ parser' \in ParserState
          /\ parser'.at = IF framing.left = 1 THEN "delimiter" ELSE "data"
          /\ framing.left # 1 => parser'.left = framing.left - 1
      BY <2>3, <3>3 DEF RelayIInv, RelayShape, ParserState
    <3> QED BY <2>3, <3>1, <3>2, <3>4 DEF SameRest
  <2> QED BY <1>1, <2>1, <2>2, <2>3 DEF RelayUnit, SameRest
<1>3. RelayShape'
  BY <1>1, <1>2 DEF RelayIInv, RelayShape, SameRest, ParserState, Boundary
<1>4. Exchange'
  BY <1>1, <1>2 DEF Exchange, TruncationIsDetectable
<1>5. Observation'
  BY <1>1 DEF RelayUnit, Watched, RelayIInv, Observation, ObserverSeesThePayload
<1>6. Counts'
  BY <1>1 DEF RelayIInv, Counts
<1> QED BY <1>3, <1>4, <1>5, <1>6 DEF RelayIInv

LEMMA SizeKeeps == ASSUME RelayIInv, RelaySize PROVE RelayIInv'
<1>1. /\ phase = "body" /\ SameRest /\ framing.kind = "chunked" /\ framing.at = "size"
      /\ parser.at = "size" /\ from # <<>> /\ Tidy(from) /\ Tidy(from')
      /\ Head(from) \in StreamToken /\ seen' = seen
      /\ UNCHANGED <<observer, decoded, answers, reads>>
  BY NextToken DEF RelaySize, AfterToken, WatchedSize, RelayIInv, RelayShape, Exchange, SameRest
<1>2. CASE Head(from).t # "size"
  <2>1. phase' = "closed" /\ UNCHANGED <<parser, framing>>
    BY <1>2 DEF RelaySize, StopsShort
  <2> QED BY <1>1, <2>1 DEF RelayIInv, RelayShape, Exchange, TruncationIsDetectable, Counts,
                            Observation, ObserverSeesThePayload
<1>3. CASE Head(from).t = "size"
  <2> DEFINE n == Head(from).n
  <2>1. n \in Nat /\ (n = 0 => Head(from) = LastChunk)
    BY <1>1, <1>3 DEF StreamToken, LastChunk
  <2>2. /\ parser' = IF n = 0 THEN [at |-> "trailers", left |-> 0] ELSE [at |-> "data", left |-> n]
        /\ phase' = "body"
    BY <1>1, <1>3 DEF RelaySize, AfterSize
  <2>3. framing' = [kind |-> "chunked", left |-> n, at |-> IF n = 0 THEN "trailers" ELSE "data"]
    BY <1>1, <1>3 DEF RelaySize, RelayIInv, RelayShape
  <2>4. n = 0 /\ from' # <<>> => Head(from').t \in {"crlf", "trailer", "eof"}
    BY <1>1, <2>1, NextToken DEF RelaySize, AfterToken
  <2> HIDE DEF n
  <2>5. SameRest'
    BY <2>1, <2>2, <2>3, <2>4 DEF SameRest, ParserState
  <2>6. RelayShape'
    BY <1>1, <2>1, <2>2, <2>3 DEF RelayIInv, RelayShape, ParserState
  <2> QED BY <1>1, <2>2, <2>5, <2>6 DEF RelayIInv, Exchange, TruncationIsDetectable, Counts,
                            Observation, ObserverSeesThePayload
<1> QED BY <1>2, <1>3

LEMMA DelimiterKeeps == ASSUME RelayIInv, RelayDelimiter PROVE RelayIInv'
<1>1. /\ phase = "body" /\ SameRest /\ framing.kind = "chunked" /\ framing.at = "delimiter"
      /\ parser.at = "delimiter" /\ Tidy(from')
      /\ UNCHANGED <<observer, seen, decoded, answers, reads>>
  BY NextToken DEF RelayDelimiter, AfterToken, RelayIInv, RelayShape, Exchange, SameRest
<1>2. framing' = [kind |-> "chunked", left |-> framing.left, at |-> "size"] /\ framing.left \in Nat
  BY <1>1 DEF RelayDelimiter, RelayIInv, RelayShape, SameRest
<1>3. \/ phase' = "body" /\ parser' = [at |-> "size", left |-> 0]
      \/ phase' = "closed" /\ parser' = [at |-> "broken", left |-> 0]
  BY <1>1 DEF RelayDelimiter, AfterLine, StopsShort
<1>4. phase' = "body" => SameRest'
  BY <1>2, <1>3 DEF SameRest, ParserState
<1>5. RelayShape'
  BY <1>1, <1>2, <1>3 DEF RelayIInv, RelayShape, ParserState
<1> QED BY <1>1, <1>3, <1>4, <1>5 DEF RelayIInv, Exchange, TruncationIsDetectable, Counts,
                            Observation, ObserverSeesThePayload

LEMMA TrailerKeeps == ASSUME RelayIInv, RelayTrailer PROVE RelayIInv'
<1>1. /\ phase = "body" /\ SameRest /\ framing.kind = "chunked" /\ framing.at = "trailers"
      /\ parser.at = "trailers" /\ from # <<>> /\ Tidy(from) /\ Tidy(from')
      /\ Head(from).t \in {"crlf", "trailer"}
      /\ UNCHANGED <<framing, observer, seen, decoded, answers, reads>>
  BY NextToken DEF RelayTrailer, AfterToken, RelayIInv, RelayShape, Exchange, SameRest
<1>2. CASE Head(from).t = "crlf"
  <2>1. phase' = "answered" /\ parser' = Boundary
    BY <1>1, <1>2 DEF RelayTrailer, AfterLine
  <2> QED BY <1>1, <2>1 DEF RelayIInv, RelayShape, ParserState, Boundary, Exchange,
                TruncationIsDetectable, Counts, Observation, ObserverSeesThePayload
<1>3. CASE Head(from).t = "trailer"
  <2>1. phase' = "body" /\ parser' = parser
    BY <1>1, <1>3 DEF RelayTrailer, AfterLine
  <2>2. from' # <<>> => Head(from').t \in {"crlf", "trailer", "eof"}
    BY <1>1, <1>3, NextToken DEF RelayTrailer, AfterToken
  <2>3. SameRest'
    BY <1>1, <2>1, <2>2 DEF SameRest
  <2> QED BY <1>1, <2>1, <2>3 DEF RelayIInv, RelayShape, Exchange,
                TruncationIsDetectable, Counts, Observation, ObserverSeesThePayload
<1> QED BY <1>1, <1>2, <1>3

LEMMA BreaksKeep == ASSUME RelayIInv, ProviderCloses \/ ProviderFails PROVE RelayIInv'
<1>1. /\ phase = "body" /\ phase' = "closed" /\ SameRest
      /\ UNCHANGED <<from, framing, parser, observer, seen, decoded, answers, reads>>
  BY DEF ProviderCloses, ProviderFails, StopsShort, FailsSilently, RelayIInv, Exchange
<1>2. framing.kind \in {"length", "chunked"} => parser.at # "boundary"
  BY <1>1 DEF SameRest
<1> QED BY <1>1, <1>2 DEF RelayIInv, RelayShape, Exchange, TruncationIsDetectable, Counts,
                          Observation, ObserverSeesThePayload

LEMMA ObserverKeeps == ASSUME RelayIInv, ObserverRaises PROVE RelayIInv'
BY DEF ObserverRaises, RelayIInv, RelayShape, Exchange, SameRest, TruncationIsDetectable, Counts,
       Observation, ObserverSeesThePayload

LEMMA ServedKeeps == ASSUME RelayIInv, Served PROVE RelayIInv'
<1>1. /\ phase = "answered" /\ phase' \in {"idle", "closed"} /\ from' = <<>>
      /\ framing' = NoFraming /\ parser' = Boundary /\ parser' = parser
      /\ observer' = IF observer = "watching" THEN "ended" ELSE observer
      /\ UNCHANGED <<seen, decoded, answers, reads>>
  BY DEF Served, RelayIInv, Exchange
<1>2. RelayShape'
  BY <1>1, EmptyIsTidy DEF RelayIInv, RelayShape, NoFraming
<1>3. Exchange'
  BY <1>1, RelayAssumption DEF Exchange, NothingUnderWay, TruncationIsDetectable, NoFraming
<1>4. Counts' /\ Observation'
  BY <1>1 DEF RelayIInv, Counts, Observation, ObserverSeesThePayload
<1> QED BY <1>2, <1>3, <1>4 DEF RelayIInv

LEMMA RelayStepKeeps == RelayIInv /\ [RelayNext]_relayVars => RelayIInv'
<1> SUFFICES ASSUME RelayIInv, [RelayNext]_relayVars PROVE RelayIInv'
  OBVIOUS
<1>1. CASE UNCHANGED relayVars
  BY <1>1 DEF relayVars, RelayIInv, RelayShape, Exchange, NothingUnderWay, SameRest, TruncationIsDetectable,
              Counts, Observation, ObserverSeesThePayload
<1> QED BY <1>1, ReadKeeps, RefusalsKeep, ConnectKeeps, InterimKeeps, HeadKeeps, UnitKeeps,
           SizeKeeps, DelimiterKeeps, TrailerKeeps, BreaksKeep, ObserverKeeps, ServedKeeps
        DEF RelayNext, BrokerStep

\* (MessageRelay) Whatever the sandbox and the providers send, in whatever framing that
\* states a length at most once, and wherever it breaks or an observer raises: an answer begins only where the sandbox's
\* parser expects one, the broker and that parser count the same body to its end, one
\* that is cut short never looks whole, and the observer is given the payload and no
\* more.
THEOREM FramesStayShared == RelaySpec => []FramesAgree
<1>1. RelayIInv => FramesAgree
  BY RelayAssumption
     DEF RelayIInv, RelayShape, ParserState, Exchange, NothingUnderWay, SameRest, Counts, Observation,
         FramesAgree, RelayTypeOK, ResponsesStartAtABoundary, FramingIsShared, Boundary
<1> QED BY <1>1, RelayInitHolds, RelayStepKeeps, PTL DEF RelaySpec

-----------------------------------------------------------------------------
(* ToolCatalog: the invariant                                              *)

ListedUnder(listing, p) == {t \in Tools : <<t, p>> \in listing}
SaidOf(known, p) == {k \in known : k[1] = p}

Offerable(t, p) == Visible(p) /\ \E s \in Scopes : t \in Offers[s][p]

Statuses == {"connected", "not_connected"}
IndexRow == [there : BOOLEAN, status : {"", "connected", "not_connected"}, count : Nat]
LoadRecord ==
    [kind : {"idle", "boot", "all", "one"}, of : SUBSET Backends, pc : {"done", "lock", "list"},
     tools : [Backends -> SUBSET (Tools \X Pairs)], known : [Backends -> SUBSET (Pairs \X Statuses)],
     got : SUBSET (Backends \X {"tools", "known"}), failed : SUBSET Backends,
     dropped : SUBSET Backends, old : SUBSET Backends]

\* What a load is.
LoadShape(l) ==
    /\ l.kind = "idle" <=> l.pc = "done"
    /\ l.kind \in {"boot", "all"} => l.of = Backends
    /\ l.kind = "one" => \E b \in Backends : l.of = {b}
    /\ l.kind = "boot" => l.pc = "list"
    /\ l.pc # "list" => l.got = {}
    /\ \A b \in Backends :
         /\ b \in l.old => <<b, "tools">> \in l.got
         /\ <<b, "known">> \in l.got => <<b, "tools">> \in l.got

\* What a load has been told.
LoadAnswers(l) == \A b \in Backends :
    /\ \A e \in l.tools[b] : e[2][1] = b /\ Offerable(e[1], e[2])
    /\ \A k \in l.known[b] : k[1][1] = b /\ Visible(k[1])
    /\ <<b, "known">> \in l.got /\ b \notin l.failed =>
         \A p \in Pairs : p[1] = b /\ Visible(p) => SaidOf(l.known[b], p) # {}

\* A row is one of a tool that its connector may offer.
GoodRows(ents) ==
  /\ ents \in [Tools -> Pairs \cup {NoRow}]
  /\ \A t \in Tools : ents[t] # NoRow => Offerable(t, ents[t])

StoreShape ==
    /\ linked \subseteq ServedPairs /\ scope \in [Backends -> Scopes]
    /\ GoodRows(entries) /\ index \in [Pairs -> IndexRow]
    /\ loaded \in BOOLEAN /\ lock \in Slots \cup {Free} /\ refreshing \in BOOLEAN
    /\ excuse \in [Backends -> BOOLEAN]
    /\ \A p \in Pairs : index[p].there => Visible(p)

LoadsShape ==
    /\ task \in [Slots -> LoadRecord]
    /\ \A i \in Slots : LoadShape(task[i]) /\ LoadAnswers(task[i])
    /\ \A i \in Slots : task[i].pc = "list" /\ task[i].kind # "boot" => lock = i

Covered(b) == \E j \in Slots : Running(j) /\ b \in task[j].of
Waiting(b) == \E j \in Slots : task[j].pc = "lock" /\ b \in task[j].of

RowsAreSaid ==
    \A p \in Pairs : Visible(p) => index[p].there \/ excuse[p[1]] \/ Covered(p[1])

Parting(p) == p[1] = Merge /\ (p[2] \in leaving \/ (p[2] \in modal /\ p \in linked))

IsCurrent(p) ==
    /\ RowsUnder(entries, p) = ListedUnder(Listed(p[1]), p)
    /\ index[p] = Row(p, entries, KnownAt(p[1]))

AnswerIsCurrent(l, p) ==
    /\ <<p[1], "tools">> \in l.got => ListedUnder(l.tools[p[1]], p) = ListedUnder(Listed(p[1]), p)
    /\ <<p[1], "known">> \in l.got => SaidOf(l.known[p[1]], p) = SaidOf(KnownAt(p[1]), p)

\* What a load was told is true until its backend changes.
YoungAnswers == \A i \in Slots : \A p \in Pairs :
    Visible(p) /\ p[1] \notin task[i].old \cup task[i].failed => AnswerIsCurrent(task[i], p)

\* ... and after that it is told again, or the backend is excused.
OldAnswer(i, p) ==
    task[i].kind # "boot" /\ p[1] \in task[i].old \ (task[i].failed \cup task[i].dropped) =>
       AnswerIsCurrent(task[i], p) \/ excuse[p[1]] \/ Parting(p) \/ Waiting(p[1])

PairIsCurrent(p) == IsCurrent(p) \/ excuse[p[1]] \/ Parting(p) \/ Covered(p[1])

OldAnswers == \A i \in Slots : \A p \in Pairs : Visible(p) => OldAnswer(i, p)

PairsAreCurrent == \A p \in Pairs : Visible(p) => PairIsCurrent(p)

CatalogIInv ==
    /\ StoreShape /\ LoadsShape /\ RowsAreSaid /\ IndexMatchesTools /\ SearchIsCurrent
    /\ YoungAnswers
    /\ ToolsApart => OldAnswers /\ PairsAreCurrent

-----------------------------------------------------------------------------
(* ToolCatalog: what upstream says                                         *)

LEMMA PairIs ==
  ASSUME NEW p \in Pairs
  PROVE  p = <<p[1], p[2]>> /\ p[1] \in Backends /\ p # NoRow
BY DEF Pairs, NoRow

LEMMA VisibleIs ==
  ASSUME NEW p, Visible(p)
  PROVE  p \in Pairs /\ p \in ServedPairs
BY DEF Visible, ServedPairs

LEMMA ServedIsShown ==
  ASSUME NEW p \in ServedPairs, p[1] # Merge
  PROVE  Visible(p)
BY DEF Visible

\* What upstream lists is offered, and shown.
LEMMA ListedIsOffered ==
  ASSUME StoreShape, NEW b \in Backends
  PROVE  /\ Listed(b) \subseteq Tools \X Pairs
         /\ \A e \in Listed(b) : e[2][1] = b /\ Offerable(e[1], e[2])
<1>1. scope[b] \in Scopes /\ linked \subseteq ServedPairs
  BY DEF StoreShape
<1>2. ASSUME NEW e \in Listed(b)
      PROVE  e \in Tools \X Pairs /\ e[2][1] = b /\ Offerable(e[1], e[2])
  <2>1. CASE b = Merge
    <3>1. e \in Tools \X (linked \cup Public) /\ Visible(e[2])
          /\ e[2][1] = b /\ e[1] \in Offers[scope[b]][e[2]]
      BY <1>2, <2>1 DEF Listed, MergeTools, RelayedTools, ToolsUpstream
    <3>2. e[2] \in Pairs
      BY <3>1, VisibleIs
    <3> QED BY <1>1, <3>1, <3>2 DEF Offerable
  <2>2. CASE b # Merge
    <3>1. e \in Tools \X linked /\ e[2][1] = b /\ e[1] \in Offers[scope[b]][e[2]]
      BY <1>2, <2>2 DEF Listed, OwnTools, ToolsUpstream
    <3>2. e[2] \in ServedPairs /\ e[2] \in Pairs /\ Visible(e[2])
      BY <1>1, <2>2, <3>1, ServedIsShown, VisibleIs
    <3> QED BY <1>1, <3>1, <3>2 DEF Offerable
  <2> QED BY <2>1, <2>2
<1> QED BY <1>2

LEMMA KnownIsShown ==
  ASSUME NEW b \in Backends
  PROVE  /\ KnownAt(b) \subseteq Pairs \X Statuses
         /\ \A k \in KnownAt(b) : k[1][1] = b /\ Visible(k[1])
BY DEF KnownAt, StatusOf, Statuses

\* What is true of a pair that is shown, read off the credentials and the scope.
Truth == \A p \in Pairs : Visible(p) =>
    /\ ListedUnder(Listed(p[1]), p) =
         IF p \in linked \/ (p[1] = Merge /\ p \in Public)
         THEN {t \in Tools : t \in Offers[scope[p[1]]][p]} ELSE {}
    /\ SaidOf(KnownAt(p[1]), p) = {<<p, StatusOf(p)>>}

LEMMA TruthNow == Truth
<1> SUFFICES ASSUME NEW p \in Pairs, Visible(p)
             PROVE  /\ ListedUnder(Listed(p[1]), p) =
                         IF p \in linked \/ (p[1] = Merge /\ p \in Public)
                         THEN {t \in Tools : t \in Offers[scope[p[1]]][p]} ELSE {}
                    /\ SaidOf(KnownAt(p[1]), p) = {<<p, StatusOf(p)>>}
  BY DEF Truth
<1>1. ASSUME NEW t \in Tools
      PROVE  <<t, p>> \in Listed(p[1]) <=>
               (p \in linked \/ (p[1] = Merge /\ p \in Public)) /\ t \in Offers[scope[p[1]]][p]
  <2>1. <<t, p>>[1] = t /\ <<t, p>>[2] = p
    OBVIOUS
  <2> QED BY <2>1 DEF Listed, MergeTools, RelayedTools, OwnTools, ToolsUpstream
<1>2. ListedUnder(Listed(p[1]), p) =
        IF p \in linked \/ (p[1] = Merge /\ p \in Public)
        THEN {t \in Tools : t \in Offers[scope[p[1]]][p]} ELSE {}
  BY <1>1 DEF ListedUnder
<1>3. SaidOf(KnownAt(p[1]), p) = {<<p, StatusOf(p)>>}
  BY DEF SaidOf, KnownAt
<1> QED BY <1>2, <1>3

LEMMA TruthNext == Truth'
BY TruthNow, PTL

\* The truth about a pair stays when its credential and its scope do.
LEMMA TruthStays ==
  ASSUME NEW p \in Pairs, Visible(p), p \in linked' <=> p \in linked,
         scope'[p[1]] = scope[p[1]]
  PROVE  /\ ListedUnder(Listed(p[1]), p)' = ListedUnder(Listed(p[1]), p)
         /\ SaidOf(KnownAt(p[1]), p)' = SaidOf(KnownAt(p[1]), p)
BY TruthNow, TruthNext DEF Truth, StatusOf

-----------------------------------------------------------------------------
(* Rows of the index *)

LEMMA RowsAreFinite ==
  ASSUME NEW ents, NEW p
  PROVE  /\ Cardinality(RowsUnder(ents, p)) \in Nat
         /\ Cardinality(RowsUnder(ents, p)) = 0 <=> RowsUnder(ents, p) = {}
<1>1. IsFiniteSet(RowsUnder(ents, p))
  BY CatalogAssumption, FS_Subset DEF RowsUnder
<1> QED BY <1>1, FS_CardinalityType, FS_EmptySet

LEMMA RowIs ==
  ASSUME NEW p, NEW ents, NEW known \in SUBSET (Pairs \X Statuses)
  PROVE  /\ Row(p, ents, known) \in IndexRow
         /\ Row(p, ents, known).count = Cardinality(RowsUnder(ents, p))
         /\ Row(p, ents, known).count > 0 =>
              Row(p, ents, known).there /\ Row(p, ents, known).status = "connected"
         /\ Row(p, ents, known).there <=> (RowsUnder(ents, p) # {} \/ SaidOf(known, p) # {})
<1> DEFINE n == Cardinality(RowsUnder(ents, p))
           said == SaidOf(known, p)
           k == CHOOSE x \in said : TRUE
<1>1. n \in Nat /\ (n = 0 <=> RowsUnder(ents, p) = {})
  BY RowsAreFinite
<1>2. Row(p, ents, known) =
        IF n > 0 THEN [there |-> TRUE, status |-> "connected", count |-> n]
        ELSE IF said # {} THEN [there |-> TRUE, count |-> 0, status |-> k[2]]
        ELSE Absent
  BY DEF Row, SaidOf
<1>3. said # {} => k[2] \in Statuses
  BY DEF SaidOf
<1> DEFINE r == Row(p, ents, known)
           Holds == /\ r \in IndexRow /\ r.count = n
                    /\ r.count > 0 => r.there /\ r.status = "connected"
                    /\ r.there <=> (n # 0 \/ said # {})
<1> HIDE DEF n, said, k, r
<1>3a. r = IF n > 0 THEN [there |-> TRUE, status |-> "connected", count |-> n]
           ELSE IF said # {} THEN [there |-> TRUE, count |-> 0, status |-> k[2]]
           ELSE Absent
  BY <1>2 DEF r
<1>4. ASSUME n > 0 PROVE Holds
  <2>1. r = [there |-> TRUE, status |-> "connected", count |-> n]
    BY <1>3a, <1>4
  <2> QED BY <1>1, <1>4, <2>1 DEF IndexRow
<1>5. ASSUME n = 0, said # {} PROVE Holds
  <2>1. r = [there |-> TRUE, count |-> 0, status |-> k[2]]
    BY <1>3a, <1>5
  <2>2. r \in IndexRow
    BY <1>3, <1>5, <2>1 DEF IndexRow, Statuses
  <2>3. r.count = 0 /\ r.there
    BY <2>1
  <2> QED BY <1>5, <2>2, <2>3
<1>6. ASSUME n = 0, said = {} PROVE Holds
  <2>1. r = Absent
    BY <1>3a, <1>6
  <2>2. r \in IndexRow
    BY <2>1 DEF IndexRow, Absent
  <2>3. r.count = 0 /\ ~r.there
    BY <2>1 DEF Absent
  <2> QED BY <1>6, <2>2, <2>3
<1>7. Holds
  BY <1>1, <1>4, <1>5, <1>6
<1> QED BY <1>1, <1>7 DEF n, said, r

LEMMA RowReads ==
  ASSUME NEW p, NEW e1, NEW e2, NEW k1, NEW k2,
         RowsUnder(e1, p) = RowsUnder(e2, p), SaidOf(k1, p) = SaidOf(k2, p)
  PROVE  Row(p, e1, k1) = Row(p, e2, k2)
BY DEF Row, SaidOf

\* A pair whose rows and truth stay stays current.
LEMMA CurrencyStays ==
  ASSUME NEW p \in Pairs, Visible(p), IsCurrent(p),
         p \in linked' <=> p \in linked, scope'[p[1]] = scope[p[1]],
         RowsUnder(entries', p) = RowsUnder(entries, p), index'[p] = index[p]
  PROVE  IsCurrent(p)'
<1>1. /\ ListedUnder(Listed(p[1]), p)' = ListedUnder(Listed(p[1]), p)
      /\ SaidOf(KnownAt(p[1])', p) = SaidOf(KnownAt(p[1]), p)
  BY TruthStays DEF SaidOf
<1>2. Row(p, entries', KnownAt(p[1])') = Row(p, entries, KnownAt(p[1]))
  BY <1>1, RowReads
<1> QED BY <1>1, <1>2 DEF IsCurrent, RowsUnder

LEMMA AnswersStay ==
  ASSUME NEW p \in Pairs, Visible(p), NEW i \in Slots, AnswerIsCurrent(task[i], p),
         p \in linked' <=> p \in linked, scope'[p[1]] = scope[p[1]],
         UNCHANGED <<task[i].got, task[i].tools, task[i].known>>
  PROVE  AnswerIsCurrent(task[i], p)'
<1>1. /\ ListedUnder(Listed(p[1]), p)' = ListedUnder(Listed(p[1]), p)
      /\ SaidOf(KnownAt(p[1]), p)' = SaidOf(KnownAt(p[1]), p)
  BY TruthStays
<1> QED BY <1>1 DEF AnswerIsCurrent, ListedUnder, SaidOf

-----------------------------------------------------------------------------
(* Loads *)

LEMMA SlotsAreNumbers == Free \notin Slots /\ Boot \in Slots
BY CatalogAssumption DEF Free, Boot

LEMMA IdleIsALoad ==
  /\ Idle \in LoadRecord /\ LoadShape(Idle) /\ LoadAnswers(Idle)
  /\ Idle.kind = "idle" /\ Idle.pc = "done" /\ Idle.got = {} /\ Idle.old = {} /\ Idle.of = {}
BY DEF Idle, LoadRecord, LoadShape, LoadAnswers

\* A new load has been told nothing.
IsNew(l) ==
  /\ l \in LoadRecord /\ LoadShape(l) /\ LoadAnswers(l)
  /\ l.kind # "idle" /\ l.got = {} /\ l.old = {}
  /\ l.kind # "boot" => l.pc = "lock"

LEMMA NewLoad ==
  ASSUME NEW k \in {"boot", "all", "one"}, NEW o,
         k # "one" => o = Backends, k = "one" => \E b \in Backends : o = {b}
  PROVE  IsNew(Load(k, o)) /\ Load(k, o).kind = k /\ Load(k, o).of = o
<1> DEFINE l == Load(k, o)
           none == [b \in Backends |-> {}]
           first == IF k = "boot" THEN "list" ELSE "lock"
<1>1. l = [kind |-> k, of |-> o, pc |-> first, tools |-> none, known |-> none,
           got |-> {}, failed |-> {}, dropped |-> {}, old |-> {}]
  <2>1. Idle = [kind |-> "idle", of |-> {}, pc |-> "done", tools |-> none, known |-> none,
                got |-> {}, failed |-> {}, dropped |-> {}, old |-> {}]
    BY DEF Idle
  <2>2. l = [Idle EXCEPT !.kind = k, !.of = o, !.pc = first]
    BY DEF Load
  <2> HIDE DEF l, none, first, Idle
  <2> QED BY <2>1, <2>2
<1>2. o \in SUBSET Backends
  OBVIOUS
<1>3. l \in LoadRecord
  BY <1>1, <1>2 DEF LoadRecord
<1>4. LoadShape(l)
  BY <1>1 DEF LoadShape
<1>5. LoadAnswers(l)
  BY <1>1 DEF LoadAnswers
<1>6. l.kind = k /\ l.of = o /\ l.got = {} /\ l.old = {} /\ (k # "boot" => l.pc = "lock")
  BY <1>1
<1> HIDE DEF l
<1>7. IsNew(l)
  BY <1>3, <1>4, <1>5, <1>6 DEF IsNew
<1> QED BY <1>6, <1>7 DEF l

\* A load to which a change of a backend happened is the same load, with the backend
\* among the old ones if it had answered, and among the dropped ones after a drop.
Aged(l, m, b, wasDrop) ==
  /\ m \in LoadRecord
  /\ m.kind = l.kind /\ m.of = l.of /\ m.pc = l.pc /\ m.tools = l.tools /\ m.known = l.known
  /\ m.got = l.got /\ m.failed = l.failed
  /\ \A x \in Backends \ {b} : /\ x \in m.old <=> x \in l.old
                               /\ x \in m.dropped <=> x \in l.dropped
  /\ b \in m.old <=> <<b, "tools">> \in l.got
  /\ wasDrop /\ b \in m.old => b \in m.dropped
  /\ l.dropped \subseteq m.dropped

LEMMA OutdatedAges ==
  ASSUME LoadsShape, NEW b \in Backends, NEW wasDrop \in BOOLEAN, NEW i \in Slots
  PROVE  Aged(task[i], Outdated(b, wasDrop)[i], b, wasDrop)
<1> DEFINE l == task[i]
           m == Outdated(b, wasDrop)[i]
           touched == Running(i) /\ \E w \in {"tools", "known"} : <<b, w>> \in l.got
<1>1. l \in LoadRecord /\ LoadShape(l)
  BY DEF LoadsShape
<1>2. touched <=> <<b, "tools">> \in l.got
  BY <1>1 DEF LoadShape, Running
<1>3. CASE ~touched
  <2>1. m = l
    BY <1>3 DEF Outdated
  <2>2. b \notin l.old
    BY <1>1, <1>2, <1>3 DEF LoadShape
  <2> HIDE DEF l, m, touched
  <2>3. Aged(l, m, b, wasDrop)
    BY <1>1, <1>2, <1>3, <2>1, <2>2 DEF Aged
  <2> QED BY <2>3 DEF l, m
<1>4. CASE touched
  <2>1. m = [l EXCEPT !.old = @ \cup {b}, !.dropped = IF wasDrop THEN @ \cup {b} ELSE @]
    BY <1>4 DEF Outdated
  <2> HIDE DEF l, m, touched
  <2>2. /\ m.kind = l.kind /\ m.of = l.of /\ m.pc = l.pc /\ m.tools = l.tools
        /\ m.known = l.known /\ m.got = l.got /\ m.failed = l.failed
        /\ m.old = l.old \cup {b} /\ m.dropped = IF wasDrop THEN l.dropped \cup {b} ELSE l.dropped
    BY <1>1, <2>1 DEF LoadRecord
  <2>3. m \in LoadRecord
    BY <1>1, <2>1 DEF LoadRecord
  <2>4. Aged(l, m, b, wasDrop)
    BY <1>2, <1>4, <2>2, <2>3 DEF Aged
  <2> QED BY <2>4 DEF l, m
<1> QED BY <1>3, <1>4

\* It keeps what a load is.
LEMMA AgedShape ==
  ASSUME NEW l, NEW m, NEW b \in Backends, NEW w, Aged(l, m, b, w), LoadShape(l), LoadAnswers(l)
  PROVE  LoadShape(m) /\ LoadAnswers(m)
<1>1. LoadShape(m)
  BY DEF Aged, LoadShape
<1>2. LoadAnswers(m)
  BY DEF Aged, LoadAnswers
<1> QED BY <1>1, <1>2

-----------------------------------------------------------------------------
(* The end of a load *)

\* Of the backends that list a tool the last one decides.
LEMMA LastOfOrder ==
  ASSUME NEW H, H \subseteq DOMAIN Order, H # {}
  PROVE  \E n \in H : \A k \in H : k <= n
<1> DEFINE E == {Len(Order) - n : n \in H}
<1>1. E \subseteq Nat /\ E # {} /\ Len(Order) \in Nat /\ H \subseteq Nat
  BY CatalogAssumption
<1>2. PICK i \in E : \A j \in E : i <= j
  BY ONLY <1>1, LeastNumber
<1>3. PICK n \in H : i = Len(Order) - n
  BY <1>2
<1>4. ASSUME NEW k \in H PROVE k <= n
  <2>1. Len(Order) - n <= Len(Order) - k
    BY <1>2, <1>3
  <2> QED BY <1>1, <2>1
<1> QED BY <1>4

LEMMA PairForIsListed ==
  ASSUME NEW t, NEW listing, Offered(t, listing)
  PROVE  <<t, PairFor(t, listing)>> \in listing \/ ~(listing \subseteq Tools \X Pairs)
<1> SUFFICES ASSUME listing \subseteq Tools \X Pairs
             PROVE  <<t, PairFor(t, listing)>> \in listing
  OBVIOUS
<1> DEFINE e == CHOOSE x \in listing : x[1] = t
<1>1. e \in listing /\ e[1] = t
  BY DEF Offered
<1>2. e = <<e[1], e[2]>>
  BY <1>1
<1> QED BY <1>1, <1>2 DEF PairFor

\* The listings of a load name what their backend may offer.
GoodListing(listing, b) ==
  /\ listing \subseteq Tools \X Pairs
  /\ \A e \in listing : e[2][1] = b /\ Offerable(e[1], e[2])

LEMMA ListedPair ==
  ASSUME NEW b, NEW listing, GoodListing(listing, b), NEW t \in Tools, Offered(t, listing)
  PROVE  LET p == PairFor(t, listing) IN
           <<t, p>> \in listing /\ p \in Pairs /\ p # NoRow /\ p[1] = b /\ Offerable(t, p)
<1> DEFINE p == PairFor(t, listing)
<1>1. <<t, p>> \in listing
  BY PairForIsListed DEF GoodListing
<1>2. p \in Pairs /\ p[1] = b /\ Offerable(t, p)
  BY <1>1 DEF GoodListing
<1> QED BY <1>1, <1>2, PairIs

LEMMA OfferedApart ==
  ASSUME ToolsApart, NEW t, NEW p, NEW q, Offerable(t, p), Offerable(t, q)
  PROVE  p = q
BY VisibleIs DEF ToolsApart, Offerable

LEMMA SliceIs ==
  ASSUME GoodRows(entries), NEW b \in Backends, NEW listing, GoodListing(listing, b)
  PROVE  /\ GoodRows(Slice(b, listing))
         /\ \A p \in Pairs : p[1] # b => RowsUnder(Slice(b, listing), p) = RowsUnder(entries, p)
         /\ ToolsApart => \A p \in Pairs : p[1] = b =>
              RowsUnder(Slice(b, listing), p) = ListedUnder(listing, p)
<1> DEFINE E == Slice(b, listing)
<1>1. \A t \in Tools : E[t] = IF entries[t] # NoRow /\ entries[t][1] # b THEN entries[t]
                              ELSE IF Offered(t, listing) THEN PairFor(t, listing) ELSE NoRow
  BY DEF Slice
<1>1a. \A t \in Tools : Offered(t, listing) =>
         /\ <<t, PairFor(t, listing)>> \in listing /\ PairFor(t, listing) \in Pairs
         /\ PairFor(t, listing) # NoRow /\ PairFor(t, listing)[1] = b
         /\ Offerable(t, PairFor(t, listing))
  BY ListedPair
<1>2. ASSUME NEW t \in Tools
      PROVE  E[t] \in Pairs \cup {NoRow} /\ (E[t] # NoRow => Offerable(t, E[t]))
  <2> HIDE DEF E
  <2> QED BY <1>1, <1>1a DEF GoodRows
<1>3. GoodRows(E)
  BY <1>2 DEF Slice, GoodRows
<1>4. ASSUME NEW p \in Pairs, p[1] # b, NEW t \in Tools
      PROVE  E[t] = p <=> entries[t] = p
  <2> HIDE DEF E
  <2> QED BY <1>1, <1>1a, <1>4, PairIs
<1>5. ASSUME ToolsApart, NEW p \in Pairs, p[1] = b, NEW t \in Tools
      PROVE  E[t] = p <=> <<t, p>> \in listing
  <2>1. ASSUME E[t] = p PROVE <<t, p>> \in listing
    BY <1>1, <1>5, <2>1, PairIs, ListedPair
  <2>2. ASSUME <<t, p>> \in listing PROVE E[t] = p
    <3>1. Offered(t, listing) /\ Offerable(t, p)
      BY <2>2 DEF Offered, GoodListing
    <3>2. PairFor(t, listing) = p
      BY <1>5, <3>1, ListedPair, OfferedApart
    <3>3. entries[t] # NoRow => entries[t] = p
      BY <1>5, <3>1, OfferedApart DEF GoodRows
    <3> QED BY <1>1, <1>5, <3>1, <3>2, <3>3
  <2> QED BY <2>1, <2>2
<1> HIDE DEF E
<1>6. \A p \in Pairs : p[1] # b => RowsUnder(E, p) = RowsUnder(entries, p)
  BY <1>4 DEF RowsUnder
<1>7. ToolsApart => \A p \in Pairs : p[1] = b => RowsUnder(E, p) = ListedUnder(listing, p)
  BY <1>5 DEF RowsUnder, ListedUnder
<1> QED BY <1>3, <1>6, <1>7 DEF E

LEMMA WholeIs ==
  ASSUME NEW tools, \A b \in Backends : GoodListing(tools[b], b)
  PROVE  /\ GoodRows(Whole(tools))
         /\ ToolsApart => \A p \in Pairs :
              RowsUnder(Whole(tools), p) = ListedUnder(tools[p[1]], p)
<1> DEFINE E == Whole(tools)
           having(t) == {n \in DOMAIN Order : Offered(t, tools[Order[n]])}
           last(t) == CHOOSE n \in having(t) : \A m \in having(t) : m <= n
<1>1. \A t \in Tools : E[t] = IF having(t) = {} THEN NoRow
                              ELSE PairFor(t, tools[Order[last(t)]])
  BY DEF Whole
<1>2. ASSUME NEW t \in Tools, having(t) # {}
      PROVE  /\ Order[last(t)] \in Backends /\ Offered(t, tools[Order[last(t)]])
             /\ <<t, E[t]>> \in tools[Order[last(t)]] /\ E[t] \in Pairs
             /\ E[t] # NoRow /\ E[t][1] = Order[last(t)] /\ Offerable(t, E[t])
  <2>1. having(t) \subseteq DOMAIN Order
    OBVIOUS
  <2>2. \E n \in having(t) : \A m \in having(t) : m <= n
    BY ONLY <1>2, <2>1, LastOfOrder
  <2>3. last(t) \in having(t)
    BY <2>2
  <2>4. Order[last(t)] \in Backends /\ Offered(t, tools[Order[last(t)]])
    BY <2>3 DEF Backends
  <2>5. E[t] = PairFor(t, tools[Order[last(t)]])
    BY <1>1, <1>2
  <2> HIDE DEF E, having, last
  <2> QED BY <2>4, <2>5, ListedPair
<1>3. ASSUME NEW t \in Tools
      PROVE  E[t] \in Pairs \cup {NoRow} /\ (E[t] # NoRow => Offerable(t, E[t]))
  BY <1>1, <1>2
<1>4. GoodRows(E)
  BY <1>3 DEF Whole, GoodRows
<1>5. ASSUME ToolsApart, NEW p \in Pairs, NEW t \in Tools
      PROVE  E[t] = p <=> <<t, p>> \in tools[p[1]]
  <2>1. ASSUME E[t] = p PROVE <<t, p>> \in tools[p[1]]
    <3>1. having(t) # {}
      BY <1>1, <2>1, PairIs
    <3> HIDE DEF E, having, last
    <3> QED BY <1>2, <2>1, <3>1
  <2>2. ASSUME <<t, p>> \in tools[p[1]] PROVE E[t] = p
    <3>1. p[1] \in Backends
      BY PairIs
    <3>2. PICK n \in DOMAIN Order : Order[n] = p[1]
      BY <3>1 DEF Backends
    <3>3. Offered(t, tools[p[1]]) /\ Offerable(t, p)
      BY <2>2, <3>1 DEF Offered, GoodListing
    <3>4. having(t) # {}
      BY <3>2, <3>3
    <3>5. Offerable(t, E[t])
      BY <1>2, <3>4
    <3> QED BY <1>5, <3>3, <3>5, OfferedApart
  <2> QED BY <2>1, <2>2
<1> HIDE DEF E, having, last
<1>6. ToolsApart => \A p \in Pairs : RowsUnder(E, p) = ListedUnder(tools[p[1]], p)
  BY <1>5 DEF RowsUnder, ListedUnder
<1> QED BY <1>4, <1>6 DEF E

LEMMA FinishedStore ==
  ASSUME StoreShape, LoadsShape, NEW i \in Slots, Finish(i)
  PROVE  /\ GoodRows(entries')
         /\ \A p \in Pairs : p[1] \notin task[i].of =>
              RowsUnder(entries', p) = RowsUnder(entries, p) /\ index'[p] = index[p]
         /\ \A p \in Pairs : p[1] \in task[i].of =>
              index'[p] = Row(p, entries', task[i].known[p[1]])
         /\ ToolsApart => \A p \in Pairs : p[1] \in task[i].of =>
              RowsUnder(entries', p) = ListedUnder(task[i].tools[p[1]], p)
<1> DEFINE of == task[i].of
<1>1. task[i] \in LoadRecord /\ LoadShape(task[i]) /\ LoadAnswers(task[i])
  BY DEF LoadsShape
<1>2. \A b \in Backends : GoodListing(task[i].tools[b], b)
  BY <1>1 DEF LoadRecord, LoadAnswers, GoodListing
<1>3. GoodRows(entries)
  BY DEF StoreShape
<1>4. task[i].pc = "list" /\ index' = [p \in Pairs |->
         IF p[1] \in Backends \ of THEN index[p] ELSE Row(p, entries', task[i].known[p[1]])]
  BY DEF Finish, FoldIn
<1>5. \A p \in Pairs : p[1] \in of => index'[p] = Row(p, entries', task[i].known[p[1]])
  BY <1>4
<1>6. \A p \in Pairs : p[1] \notin of => index'[p] = index[p]
  BY <1>4, PairIs
<1>7. CASE task[i].kind = "one"
  <2>1. PICK b \in Backends : of = {b}
    BY <1>1, <1>7 DEF LoadShape
  <2>2. entries' = Slice(b, task[i].tools[b])
    <3>1. (CHOOSE x \in of : TRUE) = b
      BY <2>1
    <3> QED BY <1>7, <3>1 DEF Finish, FoldIn
  <2> QED BY <1>2, <1>3, <1>5, <1>6, <2>1, <2>2, SliceIs
<1>8. CASE task[i].kind # "one"
  <2>1. of = Backends
    BY <1>1, <1>4, <1>8 DEF LoadRecord, LoadShape
  <2>2. entries' = Whole(task[i].tools)
    BY <1>8 DEF Finish, FoldIn
  <2> QED BY <1>2, <1>5, <2>1, <2>2, WholeIs, PairIs
<1> QED BY <1>7, <1>8

-----------------------------------------------------------------------------
(* What the steps do *)

LEMMA ViewsStay ==
  ASSUME IndexMatchesTools, SearchIsCurrent, UNCHANGED <<entries, index, bm25>>
  PROVE  IndexMatchesTools' /\ SearchIsCurrent'
BY DEF IndexMatchesTools, SearchIsCurrent, SearchKeys, RowsUnder

LEMMA DropIs ==
  ASSUME StoreShape, IndexMatchesTools, NEW p \in Pairs, Drop(p)
  PROVE  /\ GoodRows(entries') /\ index' \in [Pairs -> IndexRow]
         /\ \A q \in Pairs : index'[q].there = index[q].there
         /\ \A q \in Pairs \ {p} : /\ RowsUnder(entries', q) = RowsUnder(entries, q)
                                  /\ index'[q] = index[q]
         /\ RowsUnder(entries', p) = {}
         /\ index[p].there =>
              index'[p] = [there |-> TRUE, status |-> "not_connected", count |-> 0]
         /\ IndexMatchesTools' /\ SearchIsCurrent'
<1>1. /\ entries' = [t \in Tools |-> IF entries[t] = p THEN NoRow ELSE entries[t]]
      /\ index' = [index EXCEPT ![p] = IF @.there THEN [@ EXCEPT !.status = "not_connected",
                                                                  !.count = 0] ELSE @]
      /\ bm25' = Unbuilt
  BY DEF Drop
<1>2. GoodRows(entries) /\ index \in [Pairs -> IndexRow] /\ p # NoRow
  BY PairIs DEF StoreShape
<1>3. GoodRows(entries')
  BY <1>1, <1>2 DEF GoodRows
<1>4. /\ \A q \in Pairs \ {p} : index'[q] = index[q]
      /\ index'[p] = IF index[p].there
                     THEN [index[p] EXCEPT !.status = "not_connected", !.count = 0] ELSE index[p]
  BY <1>1, <1>2
<1>5. index[p].there =>
        index'[p] = [there |-> TRUE, status |-> "not_connected", count |-> 0]
  <2>1. index[p] \in IndexRow
    BY <1>2
  <2> QED BY <1>4, <2>1 DEF IndexRow
<1>6. index'[p] \in IndexRow /\ index'[p].there = index[p].there
  <2>1. index[p] \in IndexRow
    BY <1>2
  <2>2. CASE index[p].there
    <3>1. [there |-> TRUE, status |-> "not_connected", count |-> 0] \in IndexRow
      BY DEF IndexRow
    <3>2. index'[p] = [there |-> TRUE, status |-> "not_connected", count |-> 0]
      BY <1>5, <2>2
    <3>3. index'[p].there = TRUE
      BY <3>2
    <3>4. index[p].there = TRUE
      BY <2>1, <2>2 DEF IndexRow
    <3>5. index'[p] \in IndexRow
      BY <3>1, <3>2
    <3> QED BY <3>3, <3>4, <3>5
  <2>3. CASE ~index[p].there
    BY <1>4, <2>1, <2>3
  <2> QED BY <2>2, <2>3
<1>7. index' \in [Pairs -> IndexRow]
  BY <1>1, <1>2, <1>4, <1>6
<1>8. \A q \in Pairs \ {p} : RowsUnder(entries', q) = RowsUnder(entries, q)
  BY <1>1, <1>2, PairIs DEF RowsUnder
<1>9. RowsUnder(entries', p) = {}
  BY <1>1, <1>2 DEF RowsUnder
<1>10. ASSUME NEW q \in Pairs
       PROVE  /\ index'[q].count = Cardinality(RowsUnder(entries', q))
              /\ index'[q].count > 0 => index'[q].there /\ index'[q].status = "connected"
  <2>1. CASE q # p
    BY <1>4, <1>8, <2>1 DEF IndexMatchesTools
  <2>2. CASE q = p /\ index[p].there
    <3>1. index'[p].count = 0
      BY <1>5, <2>2
    <3> QED BY <1>9, <2>2, <3>1, FS_EmptySet
  <2>3. CASE q = p /\ ~index[p].there
    <3>1. index[p].count \in Nat
      BY <1>2 DEF IndexRow
    <3>2. index[p].count = 0 /\ index'[p] = index[p]
      BY <1>4, <2>3, <3>1 DEF IndexMatchesTools
    <3> QED BY <1>9, <2>3, <3>2, FS_EmptySet
  <2> QED BY <2>1, <2>2, <2>3
<1>11. IndexMatchesTools'
  BY <1>10 DEF IndexMatchesTools, RowsUnder
<1>12. SearchIsCurrent'
  BY <1>1 DEF SearchIsCurrent
<1> QED BY <1>3, <1>4, <1>5, <1>6, <1>7, <1>8, <1>9, <1>11, <1>12

\* A load goes on, or one begins in a free slot.
GoesOn(l, m) == m.kind = l.kind /\ m.of = l.of /\ m.pc = l.pc

LoadsGoOn(b, wasDrop) ==
  /\ task' \in [Slots -> LoadRecord]
  /\ \A i \in Slots :
       \/ Aged(task[i], task'[i], b, wasDrop)
       \/ ~Running(i) /\ IsNew(task'[i]) /\ task'[i].kind # "boot"

LEMMA ScheduleIs ==
  ASSUME LoadsShape, NEW b \in Backends, Schedule(b)
  PROVE  LoadsGoOn(b, FALSE) /\ Waiting(b)' /\ Covered(b)'
<1>1. PICK i \in Slots :
        ~Running(i) /\ task' = [Outdated(b, FALSE) EXCEPT ![i] = Load("one", {b})]
  BY DEF Schedule
<1> DEFINE d == Outdated(b, FALSE)
           new == Load("one", {b})
<1>2. IsNew(new) /\ new.kind = "one" /\ new.of = {b} /\ new.pc = "lock"
  BY NewLoad DEF IsNew
<1>3. \A j \in Slots : Aged(task[j], d[j], b, FALSE)
  BY OutdatedAges
<1>4. d = [j \in Slots |-> d[j]]
  BY DEF Outdated
<1> HIDE DEF d, new
<1>5. task'[i] = new /\ \A j \in Slots \ {i} : task'[j] = d[j]
  BY <1>1, <1>4 DEF d, new
<1>6. task' \in [Slots -> LoadRecord]
  BY <1>1, <1>2, <1>3, <1>4, <1>5 DEF d, new, Aged, IsNew
<1>7. LoadsGoOn(b, FALSE)
  BY <1>1, <1>2, <1>3, <1>5, <1>6 DEF LoadsGoOn
<1>8. Waiting(b)' /\ Covered(b)'
  BY <1>2, <1>5 DEF Waiting, Covered, Running
<1> QED BY <1>7, <1>8

LEMMA AgeIs ==
  ASSUME LoadsShape, NEW b \in Backends, NEW wasDrop \in BOOLEAN, task' = Outdated(b, wasDrop)
  PROVE  LoadsGoOn(b, wasDrop)
<1>1. \A j \in Slots : Aged(task[j], task'[j], b, wasDrop)
  BY OutdatedAges
<1>2. task' = [j \in Slots |-> task'[j]]
  BY DEF Outdated
<1>3. \A j \in Slots : task'[j] \in LoadRecord
  BY <1>1 DEF Aged
<1>4. task' \in [Slots -> LoadRecord]
  BY <1>2, <1>3
<1> QED BY <1>1, <1>4 DEF LoadsGoOn

\* Loads that go on keep their shape, and what they cover and wait for.
LEMMA LoadsKeepShape ==
  ASSUME LoadsShape, NEW b \in Backends, NEW w, LoadsGoOn(b, w), lock' = lock
  PROVE  /\ LoadsShape'
         /\ \A x \in Backends : (Covered(x) => Covered(x)') /\ (Waiting(x) => Waiting(x)')
<1>1. ASSUME NEW i \in Slots
      PROVE  /\ LoadShape(task'[i]) /\ LoadAnswers(task'[i])
             /\ task'[i].pc = "list" /\ task'[i].kind # "boot" => lock' = i
             /\ Running(i) => GoesOn(task[i], task'[i])
  <2>1. LoadShape(task[i]) /\ LoadAnswers(task[i])
        /\ (task[i].pc = "list" /\ task[i].kind # "boot" => lock = i)
    BY DEF LoadsShape
  <2>2. CASE Aged(task[i], task'[i], b, w)
    BY <2>1, <2>2, AgedShape DEF Aged, GoesOn
  <2>3. CASE ~Running(i) /\ IsNew(task'[i]) /\ task'[i].kind # "boot"
    BY <2>3 DEF IsNew
  <2> QED BY <2>2, <2>3 DEF LoadsGoOn
<1>2. LoadsShape'
  BY <1>1 DEF LoadsShape, LoadsGoOn
<1>3. ASSUME NEW x \in Backends, Covered(x) PROVE Covered(x)'
  BY <1>1, <1>3 DEF Covered, GoesOn, Running
<1>4. ASSUME NEW x \in Backends, Waiting(x) PROVE Waiting(x)'
  <2>1. PICK j \in Slots : task[j].pc = "lock" /\ x \in task[j].of
    BY <1>4 DEF Waiting
  <2>2. Running(j)
    BY <2>1 DEF Running, LoadsShape, LoadShape
  <2> QED BY <1>1, <2>1, <2>2 DEF Waiting, GoesOn
<1> QED BY <1>2, <1>3, <1>4

-----------------------------------------------------------------------------
(* A change of one backend *)

\* What a step about backend b leaves alone: the credentials, the scope and the rows
\* of the others.
Elsewhere(b) ==
  /\ \A x \in Backends \ {b} : scope'[x] = scope[x]
  /\ \A x \in Backends : excuse[x] => excuse'[x]
  /\ \A p \in Pairs : p[1] # b =>
       /\ p \in linked' <=> p \in linked
       /\ Parting(p) => Parting(p)'
       /\ RowsUnder(entries', p) = RowsUnder(entries, p) /\ index'[p] = index[p]

LEMMA ElsewhereStays ==
  ASSUME CatalogIInv, NEW b \in Backends, NEW w \in BOOLEAN, LoadsGoOn(b, w), lock' = lock,
         Elsewhere(b)
  PROVE  /\ YoungAnswers'
         /\ ToolsApart => \A p \in Pairs : Visible(p) /\ p[1] # b =>
              PairIsCurrent(p)' /\ \A i \in Slots : OldAnswer(i, p)'
<1>1. /\ LoadsShape /\ LoadsShape' /\ YoungAnswers
      /\ \A x \in Backends : (Covered(x) => Covered(x)') /\ (Waiting(x) => Waiting(x)')
  BY LoadsKeepShape DEF CatalogIInv
<1>2. ASSUME NEW i \in Slots, NEW p \in Pairs, Visible(p), IsNew(task'[i])
      PROVE  AnswerIsCurrent(task[i], p)' /\ OldAnswer(i, p)'
  BY <1>2 DEF IsNew, AnswerIsCurrent, OldAnswer
<1>3. ASSUME NEW i \in Slots, NEW p \in Pairs, Visible(p), p[1] # b,
             Aged(task[i], task'[i], b, w), AnswerIsCurrent(task[i], p)
      PROVE  AnswerIsCurrent(task[i], p)'
  <2>1. /\ p \in linked' <=> p \in linked
        /\ scope'[p[1]] = scope[p[1]]
    BY <1>3, PairIs DEF Elsewhere
  <2>2. UNCHANGED <<task[i].got, task[i].tools, task[i].known>>
    BY <1>3 DEF Aged
  <2> QED BY <1>3, <2>1, <2>2, AnswersStay
<1>4. ASSUME NEW i \in Slots, NEW p \in Pairs, Visible(p),
             p[1] \notin task'[i].old \cup task'[i].failed
      PROVE  AnswerIsCurrent(task[i], p)'
  <2>1. CASE IsNew(task'[i])
    BY <1>2, <1>4, <2>1
  <2>2. CASE Aged(task[i], task'[i], b, w) /\ p[1] = b
    BY <1>1, <1>4, <2>2 DEF Aged, AnswerIsCurrent, LoadsShape, LoadShape
  <2>3. CASE Aged(task[i], task'[i], b, w) /\ p[1] # b
    <3>1. p[1] \notin task[i].old \cup task[i].failed
      BY <1>4, <2>3, PairIs DEF Aged
    <3>2. AnswerIsCurrent(task[i], p)
      BY <1>1, <1>4, <3>1 DEF YoungAnswers
    <3> QED BY <1>3, <1>4, <2>3, <3>2
  <2> QED BY <2>1, <2>2, <2>3 DEF LoadsGoOn
<1>5. YoungAnswers'
  BY <1>4 DEF YoungAnswers
<1>6. ASSUME ToolsApart, NEW p \in Pairs, Visible(p), p[1] # b, NEW i \in Slots
      PROVE  OldAnswer(i, p)'
  <2>1. OldAnswer(i, p) /\ p[1] \in Backends
    BY <1>6, PairIs DEF CatalogIInv, OldAnswers
  <2>2. CASE IsNew(task'[i])
    BY <1>2, <1>6, <2>2
  <2>3. CASE Aged(task[i], task'[i], b, w)
    <3>1. SUFFICES ASSUME task'[i].kind # "boot",
                          p[1] \in task'[i].old \ (task'[i].failed \cup task'[i].dropped)
                   PROVE  \/ AnswerIsCurrent(task[i], p)' \/ excuse'[p[1]]
                          \/ Parting(p)' \/ Waiting(p[1])'
      BY DEF OldAnswer
    <3>2. \/ AnswerIsCurrent(task[i], p) \/ excuse[p[1]] \/ Parting(p) \/ Waiting(p[1])
      BY <1>6, <2>1, <2>3, <3>1 DEF Aged, OldAnswer
    <3> QED BY <1>1, <1>3, <1>6, <2>1, <2>3, <3>2 DEF Elsewhere
  <2> QED BY <2>2, <2>3 DEF LoadsGoOn
<1>7. ASSUME ToolsApart, NEW p \in Pairs, Visible(p), p[1] # b
      PROVE  PairIsCurrent(p)'
  <2>1. PairIsCurrent(p) /\ p[1] \in Backends /\ scope'[p[1]] = scope[p[1]]
    BY <1>7, PairIs DEF CatalogIInv, PairsAreCurrent, Elsewhere
  <2>2. ASSUME IsCurrent(p) PROVE IsCurrent(p)'
    BY <1>7, <2>1, <2>2, CurrencyStays DEF Elsewhere
  <2> QED BY <1>1, <1>7, <2>1, <2>2 DEF Elsewhere, PairIsCurrent
<1> QED BY <1>5, <1>6, <1>7

\* A pair of that backend whose credential, scope and rows stay.
LEMMA SameBackend ==
  ASSUME CatalogIInv, ToolsApart, NEW p \in Pairs, Visible(p), NEW w \in BOOLEAN,
         LoadsGoOn(p[1], w), lock' = lock,
         p \in linked' <=> p \in linked, scope'[p[1]] = scope[p[1]],
         RowsUnder(entries', p) = RowsUnder(entries, p), index'[p] = index[p],
         excuse[p[1]] => excuse'[p[1]], Parting(p) => Parting(p)'
  PROVE  PairIsCurrent(p)' /\ \A i \in Slots : OldAnswer(i, p)'
<1>1. /\ LoadsShape /\ YoungAnswers /\ p[1] \in Backends
      /\ (Covered(p[1]) => Covered(p[1])') /\ (Waiting(p[1]) => Waiting(p[1])')
  BY LoadsKeepShape, PairIs DEF CatalogIInv
<1>2. PairIsCurrent(p)'
  <2>1. PairIsCurrent(p)
    BY DEF CatalogIInv, PairsAreCurrent
  <2>2. ASSUME IsCurrent(p) PROVE IsCurrent(p)'
    BY <2>2, CurrencyStays
  <2> QED BY <1>1, <2>1, <2>2 DEF PairIsCurrent
<1>3. ASSUME NEW i \in Slots PROVE OldAnswer(i, p)'
  <2>1. CASE IsNew(task'[i])
    BY <2>1 DEF IsNew, OldAnswer
  <2>2. CASE Aged(task[i], task'[i], p[1], w)
    <3>1. SUFFICES ASSUME task'[i].kind # "boot",
                          p[1] \in task'[i].old \ (task'[i].failed \cup task'[i].dropped)
                   PROVE  \/ AnswerIsCurrent(task[i], p)' \/ excuse'[p[1]]
                          \/ Parting(p)' \/ Waiting(p[1])'
      BY DEF OldAnswer
    <3>2. task[i].kind # "boot" /\ p[1] \notin task[i].failed \cup task[i].dropped
      BY <2>2, <3>1 DEF Aged
    <3>3. \/ AnswerIsCurrent(task[i], p) \/ excuse[p[1]] \/ Parting(p) \/ Waiting(p[1])
      <4>1. CASE p[1] \in task[i].old
        BY <3>2, <4>1 DEF CatalogIInv, OldAnswers, OldAnswer
      <4>2. CASE p[1] \notin task[i].old
        BY <1>1, <3>2, <4>2 DEF YoungAnswers
      <4> QED BY <4>1, <4>2
    <3>4. ASSUME AnswerIsCurrent(task[i], p) PROVE AnswerIsCurrent(task[i], p)'
      <4>1. UNCHANGED <<task[i].got, task[i].tools, task[i].known>>
        BY <2>2 DEF Aged
      <4> QED BY <3>4, <4>1, AnswersStay
    <3> QED BY <1>1, <3>3, <3>4
  <2> QED BY <2>1, <2>2 DEF LoadsGoOn
<1> QED BY <1>2, <1>3

\* A step about one backend keeps the invariant if it keeps that backend's pairs.
LEMMA ChangeKeeps ==
  ASSUME CatalogIInv, NEW b \in Backends, NEW w \in BOOLEAN, LoadsGoOn(b, w), lock' = lock,
         Elsewhere(b), StoreShape', IndexMatchesTools', SearchIsCurrent',
         \A p \in Pairs : index'[p].there = index[p].there,
         ToolsApart => \A p \in Pairs : Visible(p) /\ p[1] = b =>
           PairIsCurrent(p)' /\ \A i \in Slots : OldAnswer(i, p)'
  PROVE  CatalogIInv'
<1>1. /\ LoadsShape' /\ RowsAreSaid
      /\ \A x \in Backends : Covered(x) => Covered(x)'
  BY LoadsKeepShape DEF CatalogIInv
<1>2. RowsAreSaid'
  BY <1>1, PairIs DEF RowsAreSaid, Elsewhere, Visible
<1>3. /\ YoungAnswers'
      /\ ToolsApart => \A p \in Pairs : Visible(p) /\ p[1] # b =>
           PairIsCurrent(p)' /\ \A i \in Slots : OldAnswer(i, p)'
  BY ONLY ElsewhereStays, CatalogIInv, b \in Backends, w \in BOOLEAN, LoadsGoOn(b, w),
          lock' = lock, Elsewhere(b)
<1>4. ToolsApart => \A p \in Pairs : Visible(p) =>
        PairIsCurrent(p)' /\ \A i \in Slots : OldAnswer(i, p)'
  BY <1>3
<1>5. ToolsApart => OldAnswers' /\ PairsAreCurrent'
  BY <1>4 DEF OldAnswers, PairsAreCurrent
<1> QED BY <1>1, <1>2, <1>3, <1>5 DEF CatalogIInv, ToolsApart, Visible

\* A change after which the backend is listed again.
LEMMA ScheduledKeeps ==
  ASSUME CatalogIInv, NEW b \in Backends, Schedule(b), lock' = lock, Elsewhere(b), StoreShape',
         UNCHANGED <<entries, index, bm25>>
  PROVE  CatalogIInv'
<1>1. LoadsGoOn(b, FALSE) /\ Waiting(b)' /\ Covered(b)'
  BY ScheduleIs DEF CatalogIInv
<1>2. IndexMatchesTools' /\ SearchIsCurrent'
  BY ViewsStay DEF CatalogIInv
<1>3. \A p \in Pairs : p[1] = b => PairIsCurrent(p)' /\ \A i \in Slots : OldAnswer(i, p)'
  BY <1>1 DEF PairIsCurrent, OldAnswer
<1> QED BY <1>1, <1>2, <1>3, ChangeKeeps

LEMMA MergePair ==
  ASSUME NEW c \in ConnectorsOf[Merge]
  PROVE  <<Merge, c>> \in Pairs /\ <<Merge, c>> \in ServedPairs /\ Merge \in Backends
         /\ <<Merge, c>>[1] = Merge /\ <<Merge, c>>[2] = c
BY CatalogAssumption DEF CatalogIsNamed, Pairs, ServedPairs

LEMMA KeepsConnectOwn ==
  ASSUME CatalogIInv, NEW p \in Pairs, ConnectOwn(p)
  PROVE  CatalogIInv'
<1>1. /\ linked' = linked \cup {p} /\ p \in ServedPairs /\ p[1] # Merge /\ Schedule(p[1])
      /\ UNCHANGED <<scope, entries, index, bm25, loaded, lock, refreshing, modal, leaving, excuse>>
  BY DEF ConnectOwn, catalog
<1>2. p[1] \in Backends
  BY PairIs
<1>3. StoreShape'
  BY <1>1 DEF CatalogIInv, StoreShape, GoodRows, Offerable, Visible
<1>4. Elsewhere(p[1])
  BY <1>1 DEF Elsewhere, Parting
<1> QED BY <1>1, <1>2, <1>3, <1>4, ScheduledKeeps

LEMMA KeepsReconfigure ==
  ASSUME CatalogIInv, NEW b \in Backends, NEW s \in Scopes, Reconfigure(b, s)
  PROVE  CatalogIInv'
<1>1. /\ scope' = [scope EXCEPT ![b] = s] /\ Schedule(b)
      /\ UNCHANGED <<linked, entries, index, bm25, loaded, lock, refreshing, modal, leaving, excuse>>
  BY DEF Reconfigure, catalog
<1>2. scope \in [Backends -> Scopes]
  BY DEF CatalogIInv, StoreShape
<1>3. StoreShape'
  BY <1>1, <1>2 DEF CatalogIInv, StoreShape, GoodRows, Offerable, Visible
<1>4. Elsewhere(b)
  BY <1>1, <1>2 DEF Elsewhere, Parting
<1> QED BY <1>1, <1>3, <1>4, ScheduledKeeps

LEMMA KeepsPoll ==
  ASSUME CatalogIInv, NEW c \in ConnectorsOf[Merge], Poll(c)
  PROVE  CatalogIInv'
<1>1. /\ modal' = modal \ {c} /\ Schedule(Merge)
      /\ UNCHANGED <<linked, scope, entries, index, bm25, loaded, lock, refreshing, leaving, excuse>>
  BY DEF Poll, catalog
<1>2. StoreShape'
  BY <1>1 DEF CatalogIInv, StoreShape, GoodRows, Offerable, Visible
<1>3. Elsewhere(Merge)
  BY <1>1 DEF Elsewhere, Parting
<1> QED BY <1>1, <1>2, <1>3, MergePair, ScheduledKeeps

\* A pair whose credential changes at Merge is parting until the catalogue hears of it.
LEMMA AtMergeKeeps ==
  ASSUME CatalogIInv, NEW c \in ConnectorsOf[Merge], task' = Outdated(Merge, FALSE),
         UNCHANGED <<scope, entries, index, bm25, loaded, lock, refreshing, excuse>>,
         linked' \subseteq ServedPairs,
         \A p \in Pairs \ {<<Merge, c>>} : /\ p \in linked' <=> p \in linked
                                           /\ Parting(p) => Parting(p)',
         Parting(<<Merge, c>>)'
  PROVE  CatalogIInv'
<1> DEFINE m == <<Merge, c>>
<1>1. m \in Pairs /\ Merge \in Backends /\ m[1] = Merge
  BY MergePair
<1>2. LoadsGoOn(Merge, FALSE)
  BY <1>1, AgeIs DEF CatalogIInv
<1>3. StoreShape' /\ IndexMatchesTools' /\ SearchIsCurrent'
  BY ViewsStay DEF CatalogIInv, StoreShape, GoodRows, Offerable, Visible
<1>4. Elsewhere(Merge)
  BY <1>1 DEF Elsewhere
<1>5. ASSUME ToolsApart, NEW p \in Pairs, Visible(p), p[1] = Merge
      PROVE  PairIsCurrent(p)' /\ \A i \in Slots : OldAnswer(i, p)'
  <2>1. CASE p = m
    BY <2>1 DEF PairIsCurrent, OldAnswer
  <2>2. CASE p # m
    <3>1. LoadsGoOn(p[1], FALSE) /\ (p \in linked' <=> p \in linked)
          /\ (Parting(p) => Parting(p)')
      BY <1>2, <1>5, <2>2
    <3> QED BY <1>5, <3>1, SameBackend
  <2> QED BY <2>1, <2>2
<1> QED BY <1>1, <1>2, <1>3, <1>4, <1>5, ChangeKeeps

LEMMA KeepsLinkAtMerge ==
  ASSUME CatalogIInv, NEW c \in ConnectorsOf[Merge], LinkAtMerge(c)
  PROVE  CatalogIInv'
<1>1. /\ linked' = linked \cup {<<Merge, c>>} /\ c \in modal /\ task' = Outdated(Merge, FALSE)
      /\ UNCHANGED <<scope, entries, index, bm25, loaded, lock, refreshing, modal, leaving, excuse>>
  BY DEF LinkAtMerge, catalog
<1>2. linked' \subseteq ServedPairs
  BY <1>1, MergePair DEF CatalogIInv, StoreShape
<1>3. ASSUME NEW p \in Pairs \ {<<Merge, c>>}
      PROVE  (p \in linked' <=> p \in linked) /\ (Parting(p) => Parting(p)')
  <2>1. p \in linked' <=> p \in linked
    BY <1>1
  <2> QED BY <1>1, <2>1 DEF Parting
<1>4. Parting(<<Merge, c>>)'
  BY <1>1 DEF Parting
<1> QED BY <1>1, <1>2, <1>3, <1>4, AtMergeKeeps

LEMMA KeepsUnlinkAtMerge ==
  ASSUME CatalogIInv, NEW c \in ConnectorsOf[Merge], UnlinkAtMerge(c)
  PROVE  CatalogIInv'
<1>1. /\ linked' = linked \ {<<Merge, c>>} /\ leaving' = leaving \cup {c}
      /\ task' = Outdated(Merge, FALSE)
      /\ UNCHANGED <<scope, entries, index, bm25, loaded, lock, refreshing, modal, excuse>>
  BY DEF UnlinkAtMerge, catalog
<1>2. linked' \subseteq ServedPairs
  BY <1>1 DEF CatalogIInv, StoreShape
<1>3. ASSUME NEW p \in Pairs \ {<<Merge, c>>}
      PROVE  (p \in linked' <=> p \in linked) /\ (Parting(p) => Parting(p)')
  <2>1. p \in linked' <=> p \in linked
    BY <1>1
  <2> QED BY <1>1, <2>1 DEF Parting
<1>4. Parting(<<Merge, c>>)'
  BY <1>1 DEF Parting
<1> QED BY <1>1, <1>2, <1>3, <1>4, AtMergeKeeps

-----------------------------------------------------------------------------
(* Drops *)

LEMMA RowWithoutTools ==
  ASSUME NEW p, NEW ents, NEW known, NEW s, RowsUnder(ents, p) = {}, SaidOf(known, p) = {<<p, s>>}
  PROVE  Row(p, ents, known) = [there |-> TRUE, count |-> 0, status |-> s]
<1>1. ~(Cardinality(RowsUnder(ents, p)) > 0)
  BY FS_EmptySet
<1>2. {k \in known : k[1] = p} = {<<p, s>>} /\ (CHOOSE k \in {<<p, s>>} : TRUE) = <<p, s>>
  BY DEF SaidOf
<1>3. <<p, s>>[2] = s
  OBVIOUS
<1> QED BY <1>1, <1>2, <1>3 DEF Row

LEMMA DroppedIsCurrent ==
  ASSUME NEW p \in Pairs, Visible(p), p \notin linked', p[1] = Merge => p \notin Public,
         RowsUnder(entries', p) = {},
         index'[p] = [there |-> TRUE, status |-> "not_connected", count |-> 0]
  PROVE  IsCurrent(p)'
<1>1. /\ ListedUnder(Listed(p[1]), p)' = {}
      /\ SaidOf(KnownAt(p[1])', p) = {<<p, "not_connected">>}
  BY TruthNext DEF Truth, StatusOf, SaidOf
<1>2. Row(p, entries', KnownAt(p[1])') = [there |-> TRUE, count |-> 0, status |-> "not_connected"]
  BY <1>1, RowWithoutTools
<1>3. RowsUnder(entries, p)' = {} /\ Row(p, entries, KnownAt(p[1]))' = index'[p]
  BY <1>2 DEF RowsUnder
<1> QED BY <1>1, <1>3 DEF IsCurrent

\* The rows of a connector whose credential went go with it; or its backend is excused.
LEMMA DroppedKeeps ==
  ASSUME CatalogIInv, NEW p \in Pairs, Drop(p), task' = Outdated(p[1], TRUE), lock' = lock,
         linked' \subseteq linked, UNCHANGED <<scope, refreshing>>,
         excuse' \in [Backends -> BOOLEAN], \A x \in Backends : excuse[x] => excuse'[x],
         \A q \in Pairs \ {p} : (q \in linked' <=> q \in linked) /\ (Parting(q) => Parting(q)'),
         excuse'[p[1]] \/ (p \notin linked' /\ (p[1] = Merge => p \notin Public))
  PROVE  CatalogIInv'
<1> DEFINE b == p[1]
<1>1. b \in Backends
  BY PairIs
<1>2. LoadsGoOn(b, TRUE)
  BY <1>1, AgeIs DEF CatalogIInv
<1>3. /\ GoodRows(entries') /\ index' \in [Pairs -> IndexRow]
      /\ \A q \in Pairs : index'[q].there = index[q].there
      /\ \A q \in Pairs \ {p} : /\ RowsUnder(entries', q) = RowsUnder(entries, q)
                               /\ index'[q] = index[q]
      /\ RowsUnder(entries', p) = {}
      /\ index[p].there =>
           index'[p] = [there |-> TRUE, status |-> "not_connected", count |-> 0]
      /\ IndexMatchesTools' /\ SearchIsCurrent'
  BY DropIs DEF CatalogIInv
<1>4. StoreShape'
  <2>1. loaded' = loaded
    BY DEF Drop
  <2>2. GoodRows(entries)'
    BY <1>3 DEF GoodRows, Offerable, Visible
  <2> QED BY <1>3, <2>1, <2>2 DEF CatalogIInv, StoreShape, Visible
<1>5. Elsewhere(b)
  BY <1>3 DEF Elsewhere
<1>6. ASSUME ToolsApart, NEW q \in Pairs, Visible(q), q[1] = b
      PROVE  PairIsCurrent(q)' /\ \A i \in Slots : OldAnswer(i, q)'
  <2>1. CASE q # p
    <3>1. /\ LoadsGoOn(q[1], TRUE) /\ (q \in linked' <=> q \in linked)
          /\ (Parting(q) => Parting(q)') /\ scope'[q[1]] = scope[q[1]]
          /\ RowsUnder(entries', q) = RowsUnder(entries, q) /\ index'[q] = index[q]
          /\ (excuse[q[1]] => excuse'[q[1]])
      BY <1>1, <1>2, <1>3, <1>6, <2>1
    <3> QED BY <1>6, <3>1, SameBackend
  <2>2. CASE q = p
    <3>1. ASSUME NEW i \in Slots PROVE OldAnswer(i, p)'
      <4>1. CASE IsNew(task'[i])
        BY <4>1 DEF IsNew, OldAnswer
      <4>2. CASE Aged(task[i], task'[i], b, TRUE)
        BY <1>1, <4>2 DEF Aged, OldAnswer
      <4> QED BY <1>2, <4>1, <4>2 DEF LoadsGoOn
    <3>2. PairIsCurrent(p)'
      <4>1. CASE index[p].there
        <5>1. p \notin linked' /\ (b = Merge => p \notin Public) => IsCurrent(p)'
          BY <1>3, <1>6, <2>2, <4>1, DroppedIsCurrent
        <5> QED BY <5>1 DEF PairIsCurrent
      <4>2. CASE ~index[p].there
        <5>1. excuse[b] \/ Covered(b)
          BY <1>6, <2>2, <4>2 DEF CatalogIInv, RowsAreSaid
        <5>2. Covered(b) => Covered(b)'
          BY <1>1, <1>2, LoadsKeepShape DEF CatalogIInv
        <5> QED BY <1>1, <5>1, <5>2 DEF PairIsCurrent
      <4> QED BY <4>1, <4>2
    <3> QED BY <2>2, <3>1, <3>2
  <2> QED BY <2>1, <2>2
<1> HIDE DEF b
<1> QED BY <1>1, <1>2, <1>3, <1>4, <1>5, <1>6, ChangeKeeps

LEMMA KeepsDisconnectOwn ==
  ASSUME CatalogIInv, NEW p \in Pairs, DisconnectOwn(p)
  PROVE  CatalogIInv'
<1>1. /\ linked' = linked \ {p} /\ p[1] # Merge /\ Drop(p) /\ task' = Outdated(p[1], TRUE)
      /\ UNCHANGED <<scope, lock, refreshing, modal, leaving, excuse>>
  BY DEF DisconnectOwn
<1>2. /\ excuse' \in [Backends -> BOOLEAN] /\ (\A x \in Backends : excuse[x] => excuse'[x])
      /\ linked' \subseteq linked /\ p \notin linked'
  BY <1>1 DEF CatalogIInv, StoreShape
<1>3. ASSUME NEW q \in Pairs \ {p}
      PROVE  (q \in linked' <=> q \in linked) /\ (Parting(q) => Parting(q)')
  <2>1. q \in linked' <=> q \in linked
    BY <1>1
  <2> QED BY <1>1, <2>1 DEF Parting
<1> QED BY <1>1, <1>2, <1>3, DroppedKeeps

LEMMA KeepsUnlinked ==
  ASSUME CatalogIInv, NEW c \in ConnectorsOf[Merge], Unlinked(c)
  PROVE  CatalogIInv'
<1> DEFINE m == <<Merge, c>>
<1>1. /\ leaving' = leaving \ {c} /\ Drop(m) /\ task' = Outdated(Merge, TRUE)
      /\ excuse' = IF m \in linked \cup Public THEN [excuse EXCEPT ![Merge] = TRUE] ELSE excuse
      /\ UNCHANGED <<linked, scope, lock, refreshing, modal>>
  BY DEF Unlinked
<1>2. m \in Pairs /\ m[1] = Merge /\ m[2] = c /\ Merge \in Backends
  BY MergePair
<1>3. excuse \in [Backends -> BOOLEAN]
  BY DEF CatalogIInv, StoreShape
<1>4. /\ excuse' \in [Backends -> BOOLEAN] /\ (\A x \in Backends : excuse[x] => excuse'[x])
      /\ excuse'[Merge] \/ m \notin linked' \cup Public
  BY <1>1, <1>2, <1>3
<1>5. ASSUME NEW q \in Pairs \ {m}
      PROVE  (q \in linked' <=> q \in linked) /\ (Parting(q) => Parting(q)')
  <2>1. q[1] = Merge => q[2] # c
    BY PairIs
  <2> QED BY <1>1, <2>1 DEF Parting
<1>6. linked' \subseteq linked /\ UNCHANGED <<scope, refreshing>> /\ lock' = lock
  BY <1>1
<1> HIDE DEF m
<1> QED BY <1>1, <1>2, <1>4, <1>5, <1>6, DroppedKeeps

-----------------------------------------------------------------------------
(* Steps that leave the loads, and steps of one load *)

LEMMA NoLoadMoves ==
  ASSUME CatalogIInv, UNCHANGED <<linked, scope, entries, index, task, lock>>,
         StoreShape', SearchIsCurrent', \A x \in Backends : excuse[x] => excuse'[x],
         \A p \in Pairs : Parting(p) => Parting(p)' \/ excuse'[p[1]]
  PROVE  CatalogIInv'
<1>1. /\ LoadsShape' /\ IndexMatchesTools'
      /\ \A x : (Covered(x) <=> Covered(x)') /\ (Waiting(x) <=> Waiting(x)')
  BY DEF CatalogIInv, LoadsShape, LoadAnswers, Offerable, Visible, IndexMatchesTools, RowsUnder,
         Covered, Waiting, Running
<1>2. RowsAreSaid'
  BY <1>1, PairIs DEF CatalogIInv, RowsAreSaid, Visible
<1>3. ASSUME NEW p \in Pairs, Visible(p)
      PROVE  /\ IsCurrent(p) => IsCurrent(p)'
             /\ \A i \in Slots : AnswerIsCurrent(task[i], p) => AnswerIsCurrent(task[i], p)'
  BY <1>3, CurrencyStays, AnswersStay
<1>4. YoungAnswers'
  BY <1>3 DEF CatalogIInv, YoungAnswers, Visible
<1>5. ASSUME ToolsApart PROVE OldAnswers' /\ PairsAreCurrent'
  <2>1. OldAnswers /\ PairsAreCurrent
    BY <1>5 DEF CatalogIInv
  <2>2. ASSUME NEW p \in Pairs, Visible(p), NEW i \in Slots PROVE OldAnswer(i, p)'
    <3>1. OldAnswer(i, p) /\ p[1] \in Backends
      BY <2>1, <2>2, PairIs DEF OldAnswers
    <3> QED BY <1>1, <1>3, <2>2, <3>1 DEF OldAnswer
  <2>3. ASSUME NEW p \in Pairs, Visible(p) PROVE PairIsCurrent(p)'
    <3>1. PairIsCurrent(p) /\ p[1] \in Backends
      BY <2>1, <2>3, PairIs DEF PairsAreCurrent
    <3> QED BY <1>1, <1>3, <2>3, <3>1 DEF PairIsCurrent
  <2> QED BY <2>2, <2>3 DEF OldAnswers, PairsAreCurrent, Visible
<1> QED BY <1>1, <1>2, <1>4, <1>5 DEF CatalogIInv, ToolsApart, Visible

LEMMA StoreStays ==
  ASSUME StoreShape, UNCHANGED <<linked, scope, entries, index, loaded, refreshing>>,
         lock' \in Slots \cup {Free}, excuse' \in [Backends -> BOOLEAN]
  PROVE  StoreShape'
BY DEF StoreShape, GoodRows, Offerable, Visible

LEMMA KeepsOpenModal ==
  ASSUME CatalogIInv, NEW c \in ConnectorsOf[Merge], OpenModal(c)
  PROVE  CatalogIInv'
<1>1. /\ modal' = modal \cup {c}
      /\ UNCHANGED <<linked, scope, entries, index, bm25, loaded, lock, refreshing, task, leaving, excuse>>
  BY DEF OpenModal, catalog
<1>2. StoreShape' /\ SearchIsCurrent'
  BY <1>1, StoreStays, ViewsStay DEF CatalogIInv, StoreShape
<1>3. \A p \in Pairs : Parting(p) => Parting(p)'
  BY <1>1 DEF Parting
<1> QED BY <1>1, <1>2, <1>3, NoLoadMoves

LEMMA KeepsCloseModal ==
  ASSUME CatalogIInv, NEW c \in ConnectorsOf[Merge], CloseModal(c)
  PROVE  CatalogIInv'
<1>1. /\ modal' = modal \ {c}
      /\ excuse' = IF <<Merge, c>> \in linked THEN [excuse EXCEPT ![Merge] = TRUE] ELSE excuse
      /\ UNCHANGED <<linked, scope, entries, index, bm25, loaded, lock, refreshing, task, leaving>>
  BY DEF CloseModal, catalog
<1>2. excuse \in [Backends -> BOOLEAN] /\ Merge \in Backends
  BY MergePair DEF CatalogIInv, StoreShape
<1>3. /\ excuse' \in [Backends -> BOOLEAN] /\ \A x \in Backends : excuse[x] => excuse'[x]
      /\ <<Merge, c>> \in linked => excuse'[Merge]
  BY <1>1, <1>2
<1>4. StoreShape' /\ SearchIsCurrent'
  BY <1>1, <1>3, StoreStays, ViewsStay DEF CatalogIInv, StoreShape
<1>5. ASSUME NEW p \in Pairs, Parting(p) PROVE Parting(p)' \/ excuse'[p[1]]
  <2>1. CASE p = <<Merge, c>>
    BY <1>1, <1>3, <1>5, <2>1 DEF Parting
  <2>2. CASE p # <<Merge, c>>
    <3>1. p[2] # c
      BY <1>5, <2>2, PairIs DEF Parting
    <3> QED BY <1>1, <1>5, <3>1 DEF Parting
  <2> QED BY <2>1, <2>2
<1> QED BY <1>1, <1>3, <1>4, <1>5, NoLoadMoves

LEMMA KeepsUnlinkLost ==
  ASSUME CatalogIInv, NEW c \in ConnectorsOf[Merge], UnlinkLost(c)
  PROVE  CatalogIInv'
<1>1. /\ leaving' = leaving \ {c} /\ excuse' = [excuse EXCEPT ![Merge] = TRUE]
      /\ UNCHANGED <<linked, scope, entries, index, bm25, loaded, lock, refreshing, task, modal>>
  BY DEF UnlinkLost, catalog
<1>2. excuse \in [Backends -> BOOLEAN] /\ Merge \in Backends
  BY MergePair DEF CatalogIInv, StoreShape
<1>3. /\ excuse' \in [Backends -> BOOLEAN] /\ \A x \in Backends : excuse[x] => excuse'[x]
      /\ excuse'[Merge]
  BY <1>1, <1>2
<1>4. StoreShape' /\ SearchIsCurrent'
  BY <1>1, <1>3, StoreStays, ViewsStay DEF CatalogIInv, StoreShape
<1>5. \A p \in Pairs : Parting(p) => Parting(p)' \/ excuse'[p[1]]
  BY <1>3 DEF Parting
<1> QED BY <1>1, <1>3, <1>4, <1>5, NoLoadMoves

LEMMA KeepsSearch ==
  ASSUME CatalogIInv, Search
  PROVE  CatalogIInv'
<1>1. /\ bm25' = SearchKeys
      /\ UNCHANGED <<linked, scope, entries, index, loaded, lock, refreshing, task, modal, leaving, excuse>>
  BY DEF Search
<1>2. SearchIsCurrent'
  BY <1>1 DEF SearchIsCurrent, SearchKeys
<1>3. StoreShape'
  BY <1>1, StoreStays DEF CatalogIInv, StoreShape
<1>4. \A p \in Pairs : Parting(p) => Parting(p)'
  BY <1>1 DEF Parting
<1> QED BY <1>1, <1>2, <1>3, <1>4, NoLoadMoves

LEMMA KeepsIdling ==
  ASSUME CatalogIInv, UNCHANGED catalogVars
  PROVE  CatalogIInv'
<1>1. UNCHANGED <<linked, scope, entries, index, bm25, loaded, lock, refreshing, task, modal, leaving, excuse>>
  BY DEF catalogVars
<1>2. StoreShape' /\ SearchIsCurrent'
  BY <1>1, StoreStays, ViewsStay DEF CatalogIInv, StoreShape
<1>3. \A p \in Pairs : Parting(p) => Parting(p)'
  BY <1>1 DEF Parting
<1> QED BY <1>1, <1>2, <1>3, NoLoadMoves

LEMMA UpstreamStays ==
  ASSUME UNCHANGED <<linked, scope>>
  PROVE  \A b : Listed(b)' = Listed(b) /\ KnownAt(b)' = KnownAt(b)
BY DEF Listed, MergeTools, RelayedTools, OwnTools, ToolsUpstream, KnownAt, StatusOf, Visible

\* One load moves, and neither the store nor what upstream says.
LEMMA OneLoadMoves ==
  ASSUME CatalogIInv, NEW i \in Slots,
         UNCHANGED <<linked, scope, entries, index, bm25, loaded, modal, leaving, excuse>>,
         refreshing' \in BOOLEAN, lock' \in Slots \cup {Free}, task' \in [Slots -> LoadRecord],
         \A j \in Slots \ {i} : task'[j] = task[j],
         LoadShape(task'[i]), LoadAnswers(task'[i]),
         \A j \in Slots : task'[j].pc = "list" /\ task'[j].kind # "boot" => lock' = j,
         Running(i) => task'[i].kind = task[i].kind /\ task'[i].of = task[i].of,
         \A p \in Pairs : Visible(p) /\ p[1] \notin task'[i].old \cup task'[i].failed =>
           AnswerIsCurrent(task'[i], p),
         ToolsApart => OldAnswers'
  PROVE  CatalogIInv'
<1>1. /\ StoreShape /\ RowsAreSaid /\ IndexMatchesTools /\ SearchIsCurrent /\ YoungAnswers
  BY DEF CatalogIInv
<1>2. StoreShape' /\ IndexMatchesTools' /\ SearchIsCurrent'
  <2>1. excuse' \in [Backends -> BOOLEAN]
    BY <1>1 DEF StoreShape
  <2>2. IndexMatchesTools' /\ SearchIsCurrent'
    BY <1>1, ViewsStay
  <2>3. StoreShape'
    BY <1>1, <2>1 DEF StoreShape, GoodRows, Offerable, Visible
  <2> QED BY <2>2, <2>3
<1>3. LoadsShape'
  <2>1. \A j \in Slots : LoadShape(task'[j]) /\ LoadAnswers(task'[j])
    BY DEF CatalogIInv, LoadsShape
  <2> QED BY <2>1 DEF LoadsShape, LoadAnswers, Offerable, Visible
<1>4. ASSUME NEW x, Covered(x) PROVE Covered(x)'
  <2>1. PICK j \in Slots : Running(j) /\ x \in task[j].of
    BY <1>4 DEF Covered
  <2>2. task'[j].kind = task[j].kind /\ task'[j].of = task[j].of
    BY <2>1
  <2> QED BY <2>1, <2>2 DEF Covered, Running
<1>5. RowsAreSaid'
  BY <1>1, <1>4 DEF RowsAreSaid, Visible
<1>6. \A b : Listed(b)' = Listed(b) /\ KnownAt(b)' = KnownAt(b)
  BY UpstreamStays
<1>7. YoungAnswers'
  <2>1. ASSUME NEW j \in Slots, NEW p \in Pairs, Visible(p),
               p[1] \notin task'[j].old \cup task'[j].failed
        PROVE  AnswerIsCurrent(task'[j], p)
    BY <1>1, <2>1 DEF YoungAnswers
  <2>2. ASSUME NEW j \in Slots, NEW p \in Pairs, AnswerIsCurrent(task'[j], p)
        PROVE  AnswerIsCurrent(task[j], p)'
    BY <1>6, <2>2 DEF AnswerIsCurrent, ListedUnder, SaidOf
  <2> QED BY <2>1, <2>2 DEF YoungAnswers, Visible
<1>8. ASSUME ToolsApart PROVE PairsAreCurrent'
  <2>1. ASSUME NEW p \in Pairs, Visible(p) PROVE PairIsCurrent(p)'
    <3>1. PairIsCurrent(p)
      BY <1>8, <2>1 DEF CatalogIInv, PairsAreCurrent
    <3>2. IsCurrent(p) => IsCurrent(p)'
      BY <2>1, CurrencyStays
    <3>3. Parting(p) => Parting(p)'
      BY DEF Parting
    <3> QED BY <1>4, <3>1, <3>2, <3>3 DEF PairIsCurrent
  <2> QED BY <2>1 DEF PairsAreCurrent, Visible
<1> QED BY <1>2, <1>3, <1>5, <1>7, <1>8 DEF CatalogIInv, ToolsApart, Visible

LEMMA KeepsTakeLock ==
  ASSUME CatalogIInv, NEW i \in Slots, TakeLock(i)
  PROVE  CatalogIInv'
<1>1. /\ task[i].pc = "lock" /\ lock = Free /\ lock' = i
      /\ task' = [task EXCEPT ![i].pc = "list"]
      /\ UNCHANGED <<linked, scope, entries, index, bm25, loaded, modal, leaving, excuse, refreshing>>
  BY DEF TakeLock, catalog
<1>2. LoadsShape /\ YoungAnswers
  BY DEF CatalogIInv
<1>3. task \in [Slots -> LoadRecord] /\ task[i] \in LoadRecord
  BY <1>2 DEF LoadsShape
<1> DEFINE l == task[i]
           m == task'[i]
<1>4. m = [l EXCEPT !.pc = "list"] /\ \A j \in Slots \ {i} : task'[j] = task[j]
  BY <1>1, <1>3
<1> HIDE DEF l, m
<1>5. l \in LoadRecord /\ l.pc = "lock" /\ LoadShape(l) /\ LoadAnswers(l)
  BY <1>1, <1>2, <1>3 DEF l, LoadsShape
<1>6. /\ m \in LoadRecord /\ m.kind = l.kind /\ m.of = l.of /\ m.pc = "list" /\ m.tools = l.tools
      /\ m.known = l.known /\ m.got = l.got /\ m.failed = l.failed /\ m.old = l.old
  BY <1>4, <1>5 DEF LoadRecord
<1>7. LoadShape(m) /\ l.got = {} /\ l.old = {}
  BY <1>5, <1>6 DEF LoadShape, LoadRecord
<1>8. LoadAnswers(m)
  BY <1>5, <1>6 DEF LoadAnswers
<1>9. task' \in [Slots -> LoadRecord]
  BY <1>1, <1>3, <1>4, <1>6 DEF m
<1>10. \A j \in Slots : task[j].pc = "list" => task[j].kind = "boot"
  BY <1>1, <1>2, SlotsAreNumbers DEF LoadsShape
<1>11. \A j \in Slots : task'[j].pc = "list" /\ task'[j].kind # "boot" => lock' = j
  BY <1>1, <1>4, <1>10
<1>12. \A p \in Pairs : AnswerIsCurrent(m, p)
  BY <1>6, <1>7 DEF AnswerIsCurrent
<1>13. OldAnswers'
  <2>1. ASSUME NEW j \in Slots, task'[j].kind # "boot" PROVE task'[j].old = {}
    <3>1. CASE j = i
      BY <1>6, <1>7, <3>1 DEF m
    <3>2. CASE j # i
      <4>1. task'[j] = task[j] /\ LoadShape(task[j]) /\ task[j] \in LoadRecord
        BY <1>2, <1>3, <1>4, <3>2 DEF LoadsShape
      <4>2. task[j].pc # "list"
        BY <1>10, <2>1, <4>1
      <4> QED BY <4>1, <4>2 DEF LoadShape, LoadRecord
    <3> QED BY <3>1, <3>2
  <2> QED BY <2>1 DEF OldAnswers, OldAnswer
<1>14. Running(i) => m.kind = task[i].kind /\ m.of = task[i].of
  BY <1>6 DEF l
<1>15. refreshing' \in BOOLEAN /\ lock' \in Slots \cup {Free}
  BY <1>1 DEF CatalogIInv, StoreShape
<1> QED BY <1>1, <1>4, <1>7, <1>8, <1>9, <1>11, <1>12, <1>13, <1>14, <1>15, OneLoadMoves DEF m

LEMMA KeepsRefreshAll ==
  ASSUME CatalogIInv, RefreshAll
  PROVE  CatalogIInv'
<1>1. PICK i \in Slots : ~Running(i) /\ task' = [task EXCEPT ![i] = Load("all", Backends)]
  BY DEF RefreshAll
<1>2. /\ refreshing' = TRUE
      /\ UNCHANGED <<linked, scope, entries, index, bm25, loaded, lock, modal, leaving, excuse>>
  BY DEF RefreshAll, catalog
<1>3. LoadsShape /\ task \in [Slots -> LoadRecord]
  BY DEF CatalogIInv, LoadsShape
<1> DEFINE new == Load("all", Backends)
<1>4. IsNew(new) /\ new.kind = "all" /\ new.pc = "lock"
  BY NewLoad DEF IsNew
<1> HIDE DEF new
<1>5. task'[i] = new /\ \A j \in Slots \ {i} : task'[j] = task[j]
  BY <1>1, <1>3 DEF new
<1>6. /\ new \in LoadRecord /\ LoadShape(new) /\ LoadAnswers(new) /\ new.got = {} /\ new.old = {}
  BY <1>4 DEF IsNew
<1>7. task' \in [Slots -> LoadRecord]
  BY <1>1, <1>3, <1>6 DEF new
<1>8. \A j \in Slots : task'[j].pc = "list" /\ task'[j].kind # "boot" => lock' = j
  BY <1>2, <1>3, <1>4, <1>5 DEF LoadsShape
<1>9. \A p \in Pairs : AnswerIsCurrent(new, p)
  BY <1>6 DEF AnswerIsCurrent
<1>10. ASSUME ToolsApart PROVE OldAnswers'
  <2>1. ASSUME NEW x, Waiting(x) PROVE Waiting(x)'
    <3>1. PICK j \in Slots : task[j].pc = "lock" /\ x \in task[j].of
      BY <2>1 DEF Waiting
    <3>2. j # i
      BY <1>1, <1>3, <3>1 DEF Running, LoadsShape, LoadShape
    <3> QED BY <1>5, <3>1, <3>2 DEF Waiting
  <2>2. ASSUME NEW j \in Slots, NEW p \in Pairs, Visible(p) PROVE OldAnswer(j, p)'
    <3>1. CASE j = i
      BY <1>5, <1>6, <3>1 DEF OldAnswer
    <3>2. CASE j # i
      <4>1. OldAnswer(j, p) /\ task'[j] = task[j]
        BY <1>5, <1>10, <2>2, <3>2 DEF CatalogIInv, OldAnswers
      <4>2. AnswerIsCurrent(task[j], p) => AnswerIsCurrent(task[j], p)'
        BY <1>2, <2>2, <4>1, AnswersStay
      <4>3. Parting(p) => Parting(p)'
        BY <1>2 DEF Parting
      <4> QED BY <1>2, <2>1, <4>1, <4>2, <4>3 DEF OldAnswer
    <3> QED BY <3>1, <3>2
  <2> QED BY <2>2 DEF OldAnswers, Visible
<1>11. lock' \in Slots \cup {Free}
  BY <1>2 DEF CatalogIInv, StoreShape
<1> QED BY <1>1, <1>2, <1>5, <1>6, <1>7, <1>8, <1>9, <1>10, <1>11, OneLoadMoves

\* A load that takes the answer of backend b to one question.
Told(l, m, b) ==
  /\ m \in LoadRecord /\ LoadShape(m) /\ LoadAnswers(m)
  /\ m.kind = l.kind /\ m.of = l.of /\ m.pc = l.pc /\ m.old = l.old /\ m.dropped = l.dropped
  /\ l.failed \subseteq m.failed
  /\ \A x \in Backends \ {b} :
       /\ m.tools[x] = l.tools[x] /\ m.known[x] = l.known[x]
       /\ \A w \in {"tools", "known"} : <<x, w>> \in m.got <=> <<x, w>> \in l.got
  /\ \A p \in Pairs : Visible(p) /\ p[1] = b /\ b \notin m.failed /\ AnswerIsCurrent(l, p) =>
       AnswerIsCurrent(m, p)

LEMMA ToldKeeps ==
  ASSUME CatalogIInv, NEW i \in Slots, NEW b \in Backends,
         task' = [task EXCEPT ![i] = task'[i]], Told(task[i], task'[i], b),
         UNCHANGED <<linked, scope, entries, index, bm25, loaded, lock, refreshing,
                     modal, leaving, excuse>>
  PROVE  CatalogIInv'
<1> DEFINE l == task[i]
           m == task'[i]
<1>1. LoadsShape /\ YoungAnswers /\ task \in [Slots -> LoadRecord]
  BY DEF CatalogIInv, LoadsShape
<1>2. \A j \in Slots \ {i} : task'[j] = task[j]
  BY <1>1
<1>3. task' \in [Slots -> LoadRecord]
  <2> HIDE DEF m
  <2>1. task' = [task EXCEPT ![i] = m] /\ m \in LoadRecord
    BY DEF m, Told
  <2> QED BY <1>1, <2>1
<1>4. \A j \in Slots : task'[j].pc = "list" /\ task'[j].kind # "boot" => lock' = j
  BY <1>1, <1>2 DEF LoadsShape, Told
<1>5. ASSUME NEW p \in Pairs, Visible(p), p[1] \notin m.failed, AnswerIsCurrent(l, p)
      PROVE  AnswerIsCurrent(m, p)
  <2>1. CASE p[1] = b
    BY <1>5, <2>1 DEF Told
  <2>2. CASE p[1] # b
    BY <1>5, <2>2, PairIs DEF Told, AnswerIsCurrent
  <2> QED BY <2>1, <2>2
<1>6. ASSUME NEW p \in Pairs, Visible(p), p[1] \notin m.old \cup m.failed
      PROVE  AnswerIsCurrent(m, p)
  <2>1. p[1] \notin l.old \cup l.failed
    BY <1>6 DEF Told
  <2>2. AnswerIsCurrent(l, p)
    BY <1>1, <1>6, <2>1 DEF YoungAnswers
  <2> QED BY <1>5, <1>6, <2>2
<1>7. ASSUME ToolsApart PROVE OldAnswers'
  <2>1. ASSUME NEW x, Waiting(x) PROVE Waiting(x)'
    BY <1>2, <2>1 DEF Waiting, Told
  <2>2. ASSUME NEW j \in Slots, NEW p \in Pairs, Visible(p) PROVE OldAnswer(j, p)'
    <3>0. OldAnswer(j, p)
      BY <1>7, <2>2 DEF CatalogIInv, OldAnswers
    <3>1. Parting(p) => Parting(p)'
      BY DEF Parting
    <3>2. CASE j = i
      <4>1. SUFFICES ASSUME m.kind # "boot", p[1] \in m.old \ (m.failed \cup m.dropped)
                     PROVE  \/ AnswerIsCurrent(task[i], p)' \/ excuse'[p[1]]
                            \/ Parting(p)' \/ Waiting(p[1])'
        BY <3>2 DEF OldAnswer
      <4>2. AnswerIsCurrent(l, p) \/ excuse[p[1]] \/ Parting(p) \/ Waiting(p[1])
        BY <3>0, <3>2, <4>1 DEF OldAnswer, Told
      <4>3. AnswerIsCurrent(l, p) => AnswerIsCurrent(m, p)
        BY <1>5, <2>2, <4>1
      <4>4. AnswerIsCurrent(m, p) => AnswerIsCurrent(task[i], p)'
        BY UpstreamStays DEF AnswerIsCurrent, ListedUnder, SaidOf
      <4> QED BY <2>1, <3>1, <4>2, <4>3, <4>4
    <3>3. CASE j # i
      <4>1. task'[j] = task[j]
        BY <1>2, <3>3
      <4>2. AnswerIsCurrent(task[j], p) => AnswerIsCurrent(task[j], p)'
        BY <2>2, <4>1, AnswersStay
      <4> QED BY <2>1, <3>0, <3>1, <4>1, <4>2 DEF OldAnswer
    <3> QED BY <3>2, <3>3
  <2> QED BY <2>2 DEF OldAnswers, Visible
<1>8. refreshing' \in BOOLEAN /\ lock' \in Slots \cup {Free}
  BY DEF CatalogIInv, StoreShape
<1>9. LoadShape(m) /\ LoadAnswers(m) /\ m.kind = l.kind /\ m.of = l.of
  BY DEF Told
<1> QED BY <1>2, <1>3, <1>4, <1>6, <1>7, <1>8, <1>9, OneLoadMoves

LEMMA KeepsListTools ==
  ASSUME CatalogIInv, NEW i \in Slots, NEW b \in Backends, NEW ok \in BOOLEAN, ListTools(i, b, ok)
  PROVE  CatalogIInv'
<1>1. /\ task[i].pc = "list" /\ <<b, "tools">> \notin task[i].got
      /\ task' = [task EXCEPT ![i].got = @ \cup {<<b, "tools">>},
                              ![i].tools[b] = IF ok THEN Listed(b) ELSE {},
                              ![i].failed = IF ok THEN @ ELSE @ \cup {b}]
      /\ UNCHANGED <<linked, scope, entries, index, bm25, loaded, lock, refreshing,
                     modal, leaving, excuse>>
  BY DEF ListTools, catalog
<1>2. LoadsShape /\ StoreShape /\ task \in [Slots -> LoadRecord]
  BY DEF CatalogIInv, LoadsShape
<1> DEFINE l == task[i]
           told == IF ok THEN Listed(b) ELSE {}
           m == [l EXCEPT !.got = @ \cup {<<b, "tools">>}, !.tools[b] = told,
                          !.failed = IF ok THEN @ ELSE @ \cup {b}]
<1>3. l \in LoadRecord /\ LoadShape(l) /\ LoadAnswers(l)
  BY <1>2 DEF LoadsShape
<1>4. task' = [task EXCEPT ![i] = m]
  BY <1>1, <1>2
<1>5. task'[i] = m
  BY <1>2, <1>4
<1>6. told \subseteq Tools \X Pairs /\ \A e \in told : e[2][1] = b /\ Offerable(e[1], e[2])
  BY <1>2, ListedIsOffered
<1>7. l.pc = "list" /\ <<b, "tools">> \notin l.got
  BY <1>1
<1>8. ok => told = Listed(b)
  OBVIOUS
<1> HIDE DEF l, told
<1>9. /\ m.got = l.got \cup {<<b, "tools">>} /\ m.tools = [l.tools EXCEPT ![b] = told]
      /\ m.failed = IF ok THEN l.failed ELSE l.failed \cup {b}
      /\ m.kind = l.kind /\ m.of = l.of /\ m.pc = l.pc /\ m.old = l.old /\ m.dropped = l.dropped
      /\ m.known = l.known
  BY <1>3 DEF LoadRecord
<1>10. m \in LoadRecord
  <2> DEFINE g == l.got \cup {<<b, "tools">>}
             a == [l.tools EXCEPT ![b] = told]
             f == IF ok THEN l.failed ELSE l.failed \cup {b}
  <2>1. g \in SUBSET (Backends \X {"tools", "known"}) /\ f \in SUBSET Backends
    BY <1>3 DEF LoadRecord
  <2>2. a \in [Backends -> SUBSET (Tools \X Pairs)]
    BY <1>3, <1>6 DEF LoadRecord
  <2>3. m = [l EXCEPT !.got = g, !.tools = a, !.failed = f]
    BY <1>3 DEF LoadRecord
  <2> HIDE DEF g, a, f, m
  <2> QED BY <1>3, <2>1, <2>2, <2>3 DEF LoadRecord
<1> HIDE DEF m
<1>11. m.tools[b] = told /\ \A x \in Backends \ {b} : m.tools[x] = l.tools[x]
  BY <1>3, <1>9 DEF LoadRecord
<1>12. b \notin l.old /\ <<b, "known">> \notin l.got
  BY <1>3, <1>7 DEF LoadShape
<1>13. LoadShape(m)
  <2>1. /\ m.kind = "idle" <=> m.pc = "done"
        /\ m.kind \in {"boot", "all"} => m.of = Backends
        /\ m.kind = "one" => \E x \in Backends : m.of = {x}
        /\ m.kind = "boot" => m.pc = "list"
        /\ m.pc = "list"
    BY <1>3, <1>7, <1>9 DEF LoadShape
  <2>2. ASSUME NEW x \in Backends
        PROVE  /\ x \in m.old => <<x, "tools">> \in m.got
               /\ <<x, "known">> \in m.got => <<x, "tools">> \in m.got
    <3>1. /\ x \in l.old => <<x, "tools">> \in l.got
          /\ <<x, "known">> \in l.got => <<x, "tools">> \in l.got
      BY <1>3 DEF LoadShape
    <3>2. m.old = l.old /\ m.got = l.got \cup {<<b, "tools">>}
      BY <1>9
    <3> QED BY <1>7, <3>1, <3>2
  <2> QED BY <2>1, <2>2 DEF LoadShape
<1>14. LoadAnswers(m)
  <2>1. ASSUME NEW x \in Backends
        PROVE  /\ \A e \in m.tools[x] : e[2][1] = x /\ Offerable(e[1], e[2])
               /\ \A k \in m.known[x] : k[1][1] = x /\ Visible(k[1])
               /\ <<x, "known">> \in m.got /\ x \notin m.failed =>
                    \A p \in Pairs : p[1] = x /\ Visible(p) => SaidOf(m.known[x], p) # {}
    <3>1. \A e \in m.tools[x] : e[2][1] = x /\ Offerable(e[1], e[2])
      BY <1>3, <1>6, <1>11 DEF LoadAnswers
    <3>2. \A k \in m.known[x] : k[1][1] = x /\ Visible(k[1])
      BY <1>3, <1>9 DEF LoadAnswers
    <3>3. <<x, "known">> \in m.got /\ x \notin m.failed => <<x, "known">> \in l.got /\ x \notin l.failed
      BY <1>9
    <3> QED BY <1>3, <1>9, <3>1, <3>2, <3>3 DEF LoadAnswers
  <2> QED BY <2>1 DEF LoadAnswers
<1>15. ASSUME NEW p \in Pairs, p[1] = b, b \notin m.failed
       PROVE  AnswerIsCurrent(m, p)
  <2>1. told = Listed(b) /\ <<b, "known">> \notin m.got
    BY <1>8, <1>9, <1>12, <1>15
  <2> QED BY <1>11, <1>15, <2>1 DEF AnswerIsCurrent
<1>16. \A x \in Backends \ {b} : \A w \in {"tools", "known"} : <<x, w>> \in m.got <=> <<x, w>> \in l.got
  BY <1>9
<1>17. Told(l, m, b)
  BY <1>9, <1>10, <1>11, <1>13, <1>14, <1>15, <1>16 DEF Told
<1> QED BY <1>1, <1>4, <1>5, <1>17, ToldKeeps DEF l

LEMMA KeepsListKnown ==
  ASSUME CatalogIInv, NEW i \in Slots, NEW b \in Backends, NEW ok \in BOOLEAN, ListKnown(i, b, ok)
  PROVE  CatalogIInv'
<1>1. /\ task[i].pc = "list" /\ <<b, "tools">> \in task[i].got
      /\ task' = [task EXCEPT ![i].got = @ \cup {<<b, "known">>},
                              ![i].known[b] = IF ok THEN KnownAt(b) ELSE {},
                              ![i].failed = IF ok THEN @ ELSE @ \cup {b}]
      /\ UNCHANGED <<linked, scope, entries, index, bm25, loaded, lock, refreshing,
                     modal, leaving, excuse>>
  BY DEF ListKnown, catalog
<1>2. LoadsShape /\ StoreShape /\ task \in [Slots -> LoadRecord]
  BY DEF CatalogIInv, LoadsShape
<1> DEFINE l == task[i]
           told == IF ok THEN KnownAt(b) ELSE {}
           m == [l EXCEPT !.got = @ \cup {<<b, "known">>}, !.known[b] = told,
                          !.failed = IF ok THEN @ ELSE @ \cup {b}]
<1>3. l \in LoadRecord /\ LoadShape(l) /\ LoadAnswers(l)
  BY <1>2 DEF LoadsShape
<1>4. task' = [task EXCEPT ![i] = m]
  BY <1>1, <1>2
<1>5. task'[i] = m
  BY <1>2, <1>4
<1>6. told \subseteq Pairs \X Statuses /\ \A k \in told : k[1][1] = b /\ Visible(k[1])
  BY KnownIsShown
<1>7. l.pc = "list" /\ <<b, "tools">> \in l.got
  BY <1>1
<1>8. ok => told = KnownAt(b)
  OBVIOUS
<1> HIDE DEF l, told
<1>9. /\ m.got = l.got \cup {<<b, "known">>} /\ m.known = [l.known EXCEPT ![b] = told]
      /\ m.failed = IF ok THEN l.failed ELSE l.failed \cup {b}
      /\ m.kind = l.kind /\ m.of = l.of /\ m.pc = l.pc /\ m.old = l.old /\ m.dropped = l.dropped
      /\ m.tools = l.tools
  BY <1>3 DEF LoadRecord
<1>10. m \in LoadRecord
  <2> DEFINE g == l.got \cup {<<b, "known">>}
             a == [l.known EXCEPT ![b] = told]
             f == IF ok THEN l.failed ELSE l.failed \cup {b}
  <2>1. g \in SUBSET (Backends \X {"tools", "known"}) /\ f \in SUBSET Backends
    BY <1>3 DEF LoadRecord
  <2>2. a \in [Backends -> SUBSET (Pairs \X Statuses)]
    BY <1>3, <1>6 DEF LoadRecord
  <2>3. m = [l EXCEPT !.got = g, !.known = a, !.failed = f]
    BY <1>3 DEF LoadRecord
  <2> HIDE DEF g, a, f, m
  <2> QED BY <1>3, <2>1, <2>2, <2>3 DEF LoadRecord
<1> HIDE DEF m
<1>11. m.known[b] = told /\ \A x \in Backends \ {b} : m.known[x] = l.known[x]
  BY <1>3, <1>9 DEF LoadRecord
<1>13. LoadShape(m)
  <2>1. /\ m.kind = "idle" <=> m.pc = "done"
        /\ m.kind \in {"boot", "all"} => m.of = Backends
        /\ m.kind = "one" => \E x \in Backends : m.of = {x}
        /\ m.kind = "boot" => m.pc = "list"
        /\ m.pc = "list"
    BY <1>3, <1>7, <1>9 DEF LoadShape
  <2>2. ASSUME NEW x \in Backends
        PROVE  /\ x \in m.old => <<x, "tools">> \in m.got
               /\ <<x, "known">> \in m.got => <<x, "tools">> \in m.got
    <3>1. /\ x \in l.old => <<x, "tools">> \in l.got
          /\ <<x, "known">> \in l.got => <<x, "tools">> \in l.got
      BY <1>3 DEF LoadShape
    <3>2. m.old = l.old /\ m.got = l.got \cup {<<b, "known">>}
      BY <1>9
    <3> QED BY <1>7, <3>1, <3>2
  <2> QED BY <2>1, <2>2 DEF LoadShape
<1>14. LoadAnswers(m)
  <2>1. ASSUME NEW x \in Backends
        PROVE  /\ \A e \in m.tools[x] : e[2][1] = x /\ Offerable(e[1], e[2])
               /\ \A k \in m.known[x] : k[1][1] = x /\ Visible(k[1])
               /\ <<x, "known">> \in m.got /\ x \notin m.failed =>
                    \A p \in Pairs : p[1] = x /\ Visible(p) => SaidOf(m.known[x], p) # {}
    <3>1. \A e \in m.tools[x] : e[2][1] = x /\ Offerable(e[1], e[2])
      BY <1>3, <1>9 DEF LoadAnswers
    <3>2. \A k \in m.known[x] : k[1][1] = x /\ Visible(k[1])
      BY <1>3, <1>6, <1>11 DEF LoadAnswers
    <3>3. ASSUME <<x, "known">> \in m.got, x \notin m.failed, NEW p \in Pairs, p[1] = x, Visible(p)
          PROVE  SaidOf(m.known[x], p) # {}
      <4>1. CASE x = b
        <5>1. m.known[x] = KnownAt(p[1])
          BY <1>8, <1>9, <1>11, <3>3, <4>1
        <5>2. SaidOf(KnownAt(p[1]), p) = {<<p, StatusOf(p)>>}
          BY <3>3, TruthNow DEF Truth
        <5> QED BY <5>1, <5>2
      <4>2. CASE x # b
        <5>1. <<x, "known">> \in l.got /\ x \notin l.failed /\ m.known[x] = l.known[x]
          BY <1>9, <1>11, <3>3, <4>2
        <5> QED BY <1>3, <3>3, <5>1 DEF LoadAnswers
      <4> QED BY <4>1, <4>2
    <3> QED BY <3>1, <3>2, <3>3
  <2> QED BY <2>1 DEF LoadAnswers
<1>15. ASSUME NEW p \in Pairs, p[1] = b, b \notin m.failed, AnswerIsCurrent(l, p)
       PROVE  AnswerIsCurrent(m, p)
  <2>1. m.known[b] = KnownAt(b)
    BY <1>8, <1>9, <1>11, <1>15
  <2>2. ListedUnder(m.tools[p[1]], p) = ListedUnder(Listed(p[1]), p)
    BY <1>7, <1>9, <1>15 DEF AnswerIsCurrent
  <2> QED BY <1>15, <2>1, <2>2 DEF AnswerIsCurrent
<1>16. \A x \in Backends \ {b} : \A w \in {"tools", "known"} : <<x, w>> \in m.got <=> <<x, w>> \in l.got
  BY <1>9
<1>17. Told(l, m, b)
  BY <1>9, <1>10, <1>11, <1>13, <1>14, <1>15, <1>16 DEF Told
<1> QED BY <1>1, <1>4, <1>5, <1>17, ToldKeeps DEF l

-----------------------------------------------------------------------------
(* The end of a load, the restart and the theorem *)

LEMMA ToldIsCurrent ==
  ASSUME NEW i \in Slots, NEW p \in Pairs, UNCHANGED <<linked, scope>>,
         AnswerIsCurrent(task[i], p),
         <<p[1], "tools">> \in task[i].got, <<p[1], "known">> \in task[i].got,
         RowsUnder(entries', p) = ListedUnder(task[i].tools[p[1]], p),
         index'[p] = Row(p, entries', task[i].known[p[1]])
  PROVE  IsCurrent(p)'
<1>1. /\ ListedUnder(task[i].tools[p[1]], p) = ListedUnder(Listed(p[1]), p)
      /\ SaidOf(task[i].known[p[1]], p) = SaidOf(KnownAt(p[1]), p)
  BY DEF AnswerIsCurrent
<1>2. Listed(p[1])' = Listed(p[1]) /\ KnownAt(p[1])' = KnownAt(p[1])
  BY UpstreamStays
<1>3. RowsUnder(entries', p) = ListedUnder(Listed(p[1])', p)
  BY <1>1, <1>2
<1>4. Row(p, entries', task[i].known[p[1]]) = Row(p, entries', KnownAt(p[1])')
  BY <1>1, <1>2, RowReads
<1> QED BY <1>3, <1>4 DEF IsCurrent, RowsUnder, ListedUnder

LEMMA KeepsFinish ==
  ASSUME CatalogIInv, NEW i \in Slots, Finish(i)
  PROVE  CatalogIInv'
<1> DEFINE l == task[i]
<1>0. /\ StoreShape /\ LoadsShape /\ RowsAreSaid /\ IndexMatchesTools /\ YoungAnswers
      /\ task \in [Slots -> LoadRecord] /\ l \in LoadRecord /\ LoadShape(l) /\ LoadAnswers(l)
  BY DEF CatalogIInv, LoadsShape
<1>1. /\ l.pc = "list" /\ bm25' = Unbuilt /\ loaded' = TRUE
      /\ \A b \in l.of, w \in {"tools", "known"} : <<b, w>> \in l.got
      /\ index' = [p \in Pairs |-> index'[p]]
      /\ lock' = IF lock = i THEN Free ELSE lock
      /\ refreshing' = (refreshing /\ l.kind # "all")
      /\ task' = [task EXCEPT ![i] = Idle]
      /\ excuse' = [b \in Backends |->
           IF b \notin l.of THEN excuse[b]
           ELSE \/ b \in l.failed \cup l.dropped
                \/ b \in l.old /\ l.kind = "boot"
                \/ excuse[b] /\ \E j \in Slots : b \in task[j].old]
      /\ UNCHANGED <<linked, scope, modal, leaving>>
  BY DEF Finish, FoldIn
<1>2. /\ GoodRows(entries')
      /\ \A p \in Pairs : p[1] \notin l.of =>
           RowsUnder(entries', p) = RowsUnder(entries, p) /\ index'[p] = index[p]
      /\ \A p \in Pairs : p[1] \in l.of => index'[p] = Row(p, entries', l.known[p[1]])
      /\ ToolsApart => \A p \in Pairs : p[1] \in l.of =>
           RowsUnder(entries', p) = ListedUnder(l.tools[p[1]], p)
  BY <1>0, FinishedStore
<1>3. /\ task'[i] = Idle /\ \A j \in Slots \ {i} : task'[j] = task[j]
      /\ task' \in [Slots -> LoadRecord]
  BY <1>0, <1>1, IdleIsALoad
<1>4. \A b \in Backends : b \notin l.of /\ excuse[b] => excuse'[b]
  BY <1>1
<1>4a. \A b \in Backends : b \in l.of /\ b \in l.failed \cup l.dropped => excuse'[b]
  BY <1>1
<1>4b. \A b \in Backends : b \in l.of /\ b \in l.old /\ l.kind = "boot" => excuse'[b]
  BY <1>1
<1>4c. \A b \in Backends : excuse[b] /\ (\E j \in Slots : b \in task[j].old) => excuse'[b]
  BY <1>1
<1>5. excuse' \in [Backends -> BOOLEAN]
  BY <1>0, <1>1 DEF StoreShape
<1> HIDE DEF l
<1>6. ASSUME NEW p \in Pairs, p[1] \in l.of
      PROVE  /\ index'[p] \in IndexRow /\ index'[p].count = Cardinality(RowsUnder(entries', p))
             /\ index'[p].count > 0 => index'[p].there /\ index'[p].status = "connected"
             /\ index'[p].there <=> (RowsUnder(entries', p) # {} \/ SaidOf(l.known[p[1]], p) # {})
  <2>1. l.known[p[1]] \in SUBSET (Pairs \X Statuses)
    BY <1>0, <1>6, PairIs DEF LoadRecord
  <2>2. index'[p] = Row(p, entries', l.known[p[1]])
    BY <1>2, <1>6
  <2> QED BY <2>1, <2>2, RowIs
<1>7. StoreShape'
  <2>1. index' \in [Pairs -> IndexRow]
    <3>1. \A p \in Pairs : index'[p] \in IndexRow
      BY <1>0, <1>2, <1>6 DEF StoreShape
    <3> QED BY <1>1, <3>1
  <2>2. ASSUME NEW p \in Pairs, index'[p].there PROVE Visible(p)
    <3>1. CASE p[1] \notin l.of
      BY <1>0, <1>2, <2>2, <3>1 DEF StoreShape
    <3>2. CASE p[1] \in l.of /\ RowsUnder(entries', p) # {}
      <4>1. PICK t \in Tools : entries'[t] = p
        BY <3>2 DEF RowsUnder
      <4> QED BY <1>2, <4>1, PairIs DEF GoodRows, Offerable
    <3>3. CASE p[1] \in l.of /\ SaidOf(l.known[p[1]], p) # {}
      <4>1. PICK k \in l.known[p[1]] : k[1] = p
        BY <3>3 DEF SaidOf
      <4> QED BY <1>0, <4>1, PairIs DEF LoadAnswers
    <3> QED BY <1>6, <2>2, <3>1, <3>2, <3>3
  <2>3. GoodRows(entries)'
    BY <1>1, <1>2 DEF GoodRows, Offerable, Visible
  <2>4. /\ loaded' \in BOOLEAN /\ refreshing' \in BOOLEAN /\ lock' \in Slots \cup {Free}
        /\ linked' \subseteq ServedPairs /\ scope' \in [Backends -> Scopes]
    BY <1>0, <1>1 DEF StoreShape
  <2> QED BY <1>5, <2>1, <2>2, <2>3, <2>4 DEF StoreShape, Visible
<1>8. LoadsShape'
  <2>1. ASSUME NEW j \in Slots
        PROVE  /\ LoadShape(task'[j]) /\ LoadAnswers(task'[j])
               /\ task'[j].pc = "list" /\ task'[j].kind # "boot" => lock' = j
    BY <1>0, <1>1, <1>3, IdleIsALoad DEF LoadsShape
  <2> QED BY <1>3, <2>1 DEF LoadsShape, LoadAnswers, Offerable, Visible
<1>9. IndexMatchesTools'
  <2>1. ASSUME NEW p \in Pairs
        PROVE  /\ index'[p].count = Cardinality(RowsUnder(entries', p))
               /\ index'[p].count > 0 => index'[p].there /\ index'[p].status = "connected"
    BY <1>0, <1>2, <1>6 DEF IndexMatchesTools
  <2> QED BY <2>1 DEF IndexMatchesTools, RowsUnder
<1>10. SearchIsCurrent'
  BY <1>1 DEF SearchIsCurrent
<1>11. ASSUME NEW x, x \notin l.of, Covered(x) PROVE Covered(x)'
  <2>1. PICK j \in Slots : Running(j) /\ x \in task[j].of
    BY <1>11 DEF Covered
  <2>2. j # i
    BY <1>11, <2>1 DEF l
  <2> QED BY <1>3, <2>1, <2>2 DEF Covered, Running
<1>12. ASSUME NEW x, Waiting(x) PROVE Waiting(x)' /\ Covered(x)'
  <2>1. PICK j \in Slots : task[j].pc = "lock" /\ x \in task[j].of
    BY <1>12 DEF Waiting
  <2>2. j # i /\ task[j].kind # "idle"
    BY <1>0, <1>1, <2>1 DEF LoadsShape, LoadShape, l
  <2> QED BY <1>3, <2>1, <2>2 DEF Waiting, Covered, Running
<1>13. RowsAreSaid'
  <2>1. ASSUME NEW p \in Pairs, Visible(p)
        PROVE  index'[p].there \/ excuse'[p[1]] \/ Covered(p[1])'
    <3>0. p[1] \in Backends
      BY PairIs
    <3>1. CASE p[1] \notin l.of
      <4>1. index[p].there \/ excuse[p[1]] \/ Covered(p[1])
        BY <1>0, <2>1 DEF RowsAreSaid
      <4> QED BY <1>2, <1>4, <1>11, <3>0, <3>1, <4>1
    <3>2. CASE p[1] \in l.of /\ p[1] \in l.failed
      BY <1>4a, <3>0, <3>2
    <3>3. CASE p[1] \in l.of /\ p[1] \notin l.failed
      <4>1. <<p[1], "known">> \in l.got
        BY <1>1, <3>3
      <4>2. SaidOf(l.known[p[1]], p) # {}
        BY <1>0, <2>1, <3>0, <3>3, <4>1 DEF LoadAnswers
      <4> QED BY <1>6, <3>3, <4>2
    <3> QED BY <3>1, <3>2, <3>3
  <2> QED BY <2>1 DEF RowsAreSaid, Visible
<1>14. ASSUME NEW p \in Pairs, Visible(p), NEW j \in Slots \ {i}, AnswerIsCurrent(task[j], p)
       PROVE  AnswerIsCurrent(task[j], p)'
  <2>1. UNCHANGED <<task[j].got, task[j].tools, task[j].known>>
    BY <1>3
  <2> QED BY <1>1, <1>14, <2>1, AnswersStay
<1>15. YoungAnswers'
  <2>1. ASSUME NEW j \in Slots, NEW p \in Pairs, Visible(p),
               p[1] \notin task'[j].old \cup task'[j].failed
        PROVE  AnswerIsCurrent(task[j], p)'
    <3>1. CASE j = i
      BY <1>3, <3>1, IdleIsALoad DEF AnswerIsCurrent
    <3>2. CASE j # i
      BY <1>0, <1>3, <1>14, <2>1, <3>2 DEF YoungAnswers
    <3> QED BY <3>1, <3>2
  <2> QED BY <2>1 DEF YoungAnswers, Visible
<1>16. \A p : Parting(p) => Parting(p)'
  BY <1>1 DEF Parting
<1>17. ASSUME ToolsApart PROVE OldAnswers'
  <2>1. ASSUME NEW p \in Pairs, Visible(p), NEW j \in Slots PROVE OldAnswer(j, p)'
    <3>1. CASE j = i
      BY <1>3, <3>1, IdleIsALoad DEF OldAnswer
    <3>2. CASE j # i
      <4>1. SUFFICES ASSUME task[j].kind # "boot",
                            p[1] \in task[j].old \ (task[j].failed \cup task[j].dropped)
                     PROVE  \/ AnswerIsCurrent(task[j], p)' \/ excuse'[p[1]]
                            \/ Parting(p)' \/ Waiting(p[1])'
        BY <1>3, <3>2 DEF OldAnswer
      <4>2. \/ AnswerIsCurrent(task[j], p) \/ excuse[p[1]] \/ Parting(p) \/ Waiting(p[1])
        BY <1>17, <2>1, <4>1 DEF CatalogIInv, OldAnswers, OldAnswer
      <4>3. excuse[p[1]] => excuse'[p[1]]
        BY <1>4c, <4>1, PairIs
      <4> QED BY <1>12, <1>14, <1>16, <2>1, <3>2, <4>2, <4>3
    <3> QED BY <3>1, <3>2
  <2> QED BY <2>1 DEF OldAnswers, Visible
<1>18. ASSUME ToolsApart PROVE PairsAreCurrent'
  <2>1. ASSUME NEW p \in Pairs, Visible(p) PROVE PairIsCurrent(p)'
    <3>0. p[1] \in Backends /\ PairIsCurrent(p)
      BY <1>18, <2>1, PairIs DEF CatalogIInv, PairsAreCurrent
    <3>1. CASE p[1] \notin l.of
      <4>1. excuse[p[1]] => excuse'[p[1]]
        BY <1>4, <3>0, <3>1
      <4>2. IsCurrent(p) => IsCurrent(p)'
        BY <1>1, <1>2, <2>1, <3>1, CurrencyStays
      <4> QED BY <1>11, <1>16, <3>0, <3>1, <4>1, <4>2 DEF PairIsCurrent
    <3>2. CASE p[1] \in l.of
      <4>1. AnswerIsCurrent(l, p) => IsCurrent(p)'
        <5>1. /\ <<p[1], "tools">> \in l.got /\ <<p[1], "known">> \in l.got
              /\ RowsUnder(entries', p) = ListedUnder(l.tools[p[1]], p)
              /\ index'[p] = Row(p, entries', l.known[p[1]])
          BY <1>1, <1>2, <1>18, <3>2
        <5> QED BY <1>1, <5>1, ToldIsCurrent DEF l
      <4>2. CASE p[1] \in l.failed \cup l.dropped
        BY <1>4a, <3>0, <3>2, <4>2 DEF PairIsCurrent
      <4>3. CASE p[1] \notin l.failed \cup l.dropped /\ p[1] \notin l.old
        <5>1. AnswerIsCurrent(l, p)
          BY <1>0, <2>1, <4>3 DEF YoungAnswers, l
        <5> QED BY <4>1, <5>1 DEF PairIsCurrent
      <4>4. CASE p[1] \notin l.failed \cup l.dropped /\ p[1] \in l.old
        <5>1. CASE l.kind = "boot"
          BY <1>4b, <3>0, <3>2, <4>4, <5>1 DEF PairIsCurrent
        <5>2. CASE l.kind # "boot"
          <6>1. \/ AnswerIsCurrent(l, p) \/ excuse[p[1]] \/ Parting(p) \/ Waiting(p[1])
            BY <1>18, <2>1, <4>4, <5>2 DEF CatalogIInv, OldAnswers, OldAnswer, l
          <6>2. excuse[p[1]] => excuse'[p[1]]
            BY <1>4c, <3>0, <4>4 DEF l
          <6> QED BY <1>12, <1>16, <4>1, <6>1, <6>2 DEF PairIsCurrent
        <5> QED BY <5>1, <5>2
      <4> QED BY <4>2, <4>3, <4>4
    <3> QED BY <3>1, <3>2
  <2> QED BY <2>1 DEF PairsAreCurrent, Visible
<1> QED BY <1>7, <1>8, <1>9, <1>10, <1>13, <1>15, <1>17, <1>18 DEF CatalogIInv, ToolsApart, Visible

\* The catalogue of a process that starts: empty, with the load at boot under way.
JustStarted ==
  /\ linked \subseteq ServedPairs /\ scope \in [Backends -> Scopes]
  /\ entries = [t \in Tools |-> NoRow] /\ index = [p \in Pairs |-> Absent]
  /\ bm25 = Unbuilt /\ loaded = FALSE /\ lock = Free /\ refreshing = FALSE
  /\ task = [i \in Slots |-> IF i = Boot THEN Load("boot", Backends) ELSE Idle]
  /\ excuse = [b \in Backends |-> FALSE]

LEMMA StartedIsSound == JustStarted => CatalogIInv
<1> SUFFICES ASSUME JustStarted PROVE CatalogIInv
  OBVIOUS
<1> DEFINE boot == Load("boot", Backends)
<1>1. IsNew(boot) /\ boot.kind = "boot" /\ boot.of = Backends
  BY NewLoad
<1> HIDE DEF boot
<1>2. /\ boot \in LoadRecord /\ LoadShape(boot) /\ LoadAnswers(boot) /\ boot.kind # "idle"
      /\ boot.got = {} /\ boot.old = {}
  BY <1>1 DEF IsNew
<1>3. \A j \in Slots : task[j] = IF j = Boot THEN boot ELSE Idle
  BY DEF JustStarted, boot
<1>4. task \in [Slots -> LoadRecord]
  <2>1. task = [j \in Slots |-> IF j = Boot THEN boot ELSE Idle]
    BY DEF JustStarted, boot
  <2> QED BY <1>2, <2>1, IdleIsALoad
<1>5. /\ Absent \in IndexRow /\ Absent.there = FALSE /\ Absent.count = 0
  BY DEF Absent, IndexRow
<1>6. StoreShape
  <2>1. \A p \in Pairs : index[p] = Absent
    BY DEF JustStarted
  <2>2. index \in [Pairs -> IndexRow] /\ \A p \in Pairs : index[p].there => Visible(p)
    BY <1>5, <2>1 DEF JustStarted
  <2>3. GoodRows(entries)
    BY DEF JustStarted, GoodRows
  <2> QED BY <2>2, <2>3 DEF JustStarted, StoreShape
<1>7. LoadsShape
  <2>1. ASSUME NEW j \in Slots
        PROVE  /\ LoadShape(task[j]) /\ LoadAnswers(task[j])
               /\ ~(task[j].pc = "list" /\ task[j].kind # "boot")
    <3>1. CASE j = Boot
      BY <1>1, <1>2, <1>3, <3>1
    <3>2. CASE j # Boot
      <4>1. task[j] = Idle
        BY <1>3, <3>2
      <4> QED BY <4>1, IdleIsALoad
    <3> QED BY <3>1, <3>2
  <2> QED BY <1>4, <2>1 DEF LoadsShape
<1>8. IndexMatchesTools
  <2>1. ASSUME NEW p \in Pairs PROVE index[p] = Absent /\ RowsUnder(entries, p) = {}
    BY PairIs DEF JustStarted, RowsUnder
  <2> QED BY <1>5, <2>1, FS_EmptySet DEF IndexMatchesTools
<1>9. SearchIsCurrent
  BY DEF JustStarted, SearchIsCurrent
<1>10. \A b \in Backends : Covered(b)
  BY <1>1, <1>2, <1>3, SlotsAreNumbers DEF Covered, Running
<1>11. RowsAreSaid /\ PairsAreCurrent
  BY <1>10, PairIs DEF RowsAreSaid, PairsAreCurrent, PairIsCurrent
<1>12. \A j \in Slots : task[j].got = {} /\ task[j].old = {}
  BY <1>2, <1>3, IdleIsALoad
<1>13. YoungAnswers /\ OldAnswers
  BY <1>12 DEF YoungAnswers, OldAnswers, OldAnswer, AnswerIsCurrent
<1> QED BY <1>6, <1>7, <1>8, <1>9, <1>11, <1>13 DEF CatalogIInv

LEMMA KeepsRestart ==
  ASSUME CatalogIInv, Restart
  PROVE  CatalogIInv'
<1>1. JustStarted'
  BY DEF Restart, JustStarted, CatalogIInv, StoreShape
<1>2. JustStarted' => CatalogIInv'
  BY StartedIsSound, PTL
<1> QED BY <1>1, <1>2

LEMMA CatalogIInvStep == CatalogIInv /\ [CatalogNext]_catalogVars => CatalogIInv'
<1> SUFFICES ASSUME CatalogIInv, [CatalogNext]_catalogVars PROVE CatalogIInv'
  OBVIOUS
<1>1. ASSUME NEW i \in Slots, Loading(i) PROVE CatalogIInv'
  BY <1>1, KeepsTakeLock, KeepsFinish, KeepsListTools, KeepsListKnown DEF Loading
<1>2. ASSUME NEW p \in Pairs, ConnectOwn(p) \/ DisconnectOwn(p) PROVE CatalogIInv'
  BY <1>2, KeepsConnectOwn, KeepsDisconnectOwn
<1>3. ASSUME NEW c \in ConnectorsOf[Merge],
             \/ OpenModal(c) \/ LinkAtMerge(c) \/ Poll(c) \/ CloseModal(c)
             \/ UnlinkAtMerge(c) \/ Unlinked(c) \/ UnlinkLost(c)
      PROVE  CatalogIInv'
  BY <1>3, KeepsOpenModal, KeepsLinkAtMerge, KeepsPoll, KeepsCloseModal, KeepsUnlinkAtMerge,
     KeepsUnlinked, KeepsUnlinkLost
<1>4. ASSUME NEW b \in Backends, NEW s \in Scopes, Reconfigure(b, s) PROVE CatalogIInv'
  BY <1>4, KeepsReconfigure
<1>5. CASE RefreshAll \/ Search \/ Restart
  BY <1>5, KeepsRefreshAll, KeepsSearch, KeepsRestart
<1>6. CASE UNCHANGED catalogVars
  BY <1>6, KeepsIdling
<1> QED BY <1>1, <1>2, <1>3, <1>4, <1>5, <1>6 DEF CatalogNext

LEMMA CatalogIInvIsEnough == CatalogIInv => CatalogIsCurrent
<1> SUFFICES ASSUME CatalogIInv PROVE CatalogIsCurrent
  OBVIOUS
<1>1. StoreShape /\ LoadsShape /\ IndexMatchesTools /\ SearchIsCurrent
  BY DEF CatalogIInv
<1>2. CatalogTypeOK
  BY <1>1 DEF StoreShape, GoodRows, IndexRow, CatalogTypeOK
<1>3. NativeWins
  <2>1. SUFFICES ASSUME NEW p \in Pairs, NEW q \in Pairs, index[p].there, index[q].there, p[2] = q[2]
                 PROVE  p = q
    BY DEF NativeWins
  <2>2. Visible(p) /\ Visible(q)
    BY <1>1, <2>1 DEF StoreShape
  <2>3. /\ p[2] \in ConnectorsOf[p[1]] /\ (p[1] = Merge => p[2] \notin Natives)
        /\ q[2] \in ConnectorsOf[q[1]] /\ (q[1] = Merge => q[2] \notin Natives)
        /\ p[1] \in Backends /\ q[1] \in Backends
    BY <2>2, PairIs DEF Visible, ServedPairs
  <2>4. p[1] = q[1]
    BY <2>1, <2>3, CatalogAssumption DEF CatalogIsNamed
  <2> QED BY <2>1, <2>4, PairIs
<1>4. OneLockedLoad
  BY <1>1 DEF LoadsShape, OneLockedLoad
<1>5. ASSUME ToolsApart, Quiet, NEW b \in Backends, ~excuse[b] PROVE Fresh(b)
  <2>1. ASSUME NEW p \in Pairs, Visible(p), p[1] = b PROVE IsCurrent(p)
    BY <1>5, <2>1 DEF CatalogIInv, PairsAreCurrent, PairIsCurrent, Quiet, Parting, Covered
  <2>2. ASSUME NEW t \in Tools, NEW p \in Pairs, p[1] = b
        PROVE  entries[t] = p <=> <<t, p>> \in Listed(b)
    <3>1. CASE Visible(p)
      BY <2>1, <2>2, <3>1 DEF IsCurrent, RowsUnder, ListedUnder
    <3>2. CASE ~Visible(p)
      <4>1. entries[t] # p
        BY <1>1, <3>2, PairIs DEF StoreShape, GoodRows, Offerable
      <4>2. <<t, p>> \notin Listed(b)
        <5>1. <<t, p>>[1] = t /\ <<t, p>>[2] = p
          OBVIOUS
        <5> QED BY <1>1, <3>2, <5>1, ListedIsOffered DEF Offerable
      <4> QED BY <4>1, <4>2
    <3> QED BY <3>1, <3>2
  <2>3. Listed(b) \subseteq Tools \X Pairs /\ \A e \in Listed(b) : e[2][1] = b
    BY <1>1, ListedIsOffered
  <2>4. ASSUME NEW e \in Tools \X Pairs
        PROVE  (e[2][1] = b /\ entries[e[1]] = e[2]) <=> e \in Listed(b)
    <3>1. e = <<e[1], e[2]>> /\ e[1] \in Tools /\ e[2] \in Pairs
      OBVIOUS
    <3> QED BY <2>2, <2>3, <3>1
  <2>5. {e \in Tools \X Pairs : e[2][1] = b /\ entries[e[1]] = e[2]} = Listed(b)
    BY <2>3, <2>4
  <2>6. \A p \in Pairs : p[1] = b /\ Visible(p) => index[p] = Row(p, entries, KnownAt(b))
    BY <2>1 DEF IsCurrent
  <2> QED BY <2>5, <2>6 DEF Fresh
<1>6. QuietIsCurrent \/ ~ToolsApart
  BY <1>1, <1>5 DEF QuietIsCurrent, StoreShape
<1> QED BY <1>1, <1>2, <1>3, <1>4, <1>6 DEF CatalogIsCurrent

\* (ToolCatalog) However loads, sign-ins, disconnects, polls, changes of scope and restarts
\* overlap, at any backends, connectors and tools: the catalogue's tools, index and search
\* agree, two loads of those that take the lock never list at once, and, when nothing is
\* under way and no tool id is offered twice, the catalogue says what is connected, but for
\* the exceptions that QuietIsCurrent names.
THEOREM CatalogStaysCurrent == CatalogSpec => []CatalogIsCurrent
<1>1. CatalogInit => CatalogIInv
  <2>1. CatalogInit => JustStarted
    BY DEF CatalogInit, JustStarted
  <2> QED BY <2>1, StartedIsSound
<1> QED BY <1>1, CatalogIInvStep, CatalogIInvIsEnough, PTL DEF CatalogSpec
=============================================================================
