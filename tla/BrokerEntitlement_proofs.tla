---------------------- MODULE BrokerEntitlement_proofs ----------------------
(***************************************************************************)
(* Proofs about the broker's entitlement cache, for any number of callers: *)
(* type correctness, that the fetch lock serializes the GETs, that a       *)
(* report never exceeds the control plane's ingest cap, and that a call's  *)
(* own answer unblocks it.                                                 *)
(***************************************************************************)
EXTENDS BrokerEntitlement, TLAPS

\* The buffer and the report that takes it stay within the buffer's cap.
BufferBounded ==
    /\ buffered <= MaxBuffered
    /\ post.size <= MaxBuffered

\* An answer in hand is a snapshot, never the body of a failed call.
AnswersAreSnapshots ==
    /\ \A c \in Callers : caller[c].stage = "answered" => caller[c].answer \in Snapshots
    /\ post.stage = "answered" => post.answer \in Snapshots

\* The record of one task that consults the cache.
CallerRecord == [stage : Stages, superseded : BOOLEAN,
                 answer : Snapshots \cup {"nothing"}, inCredit : BOOLEAN]

\* The inductive invariant: the cache has its type because only answers are
\* installed, and a report is bounded through the buffer it empties.
BrokerInv == BrokerTypeOK /\ AnswersAreSnapshots /\ OneGetAtATime /\ BufferBounded

\* The initial state satisfies the invariant.
LEMMA BrokerInvInit == BrokerInit => BrokerInv
<1> SUFFICES ASSUME BrokerInit PROVE BrokerInv
  OBVIOUS
<1> USE BrokerAssumption
<1>1. BrokerTypeOK
  BY DEF BrokerInit, BrokerTypeOK, Idle, NoPost, Stages, PostStages, Snapshots
<1>2. OneGetAtATime
  BY DEF BrokerInit, OneGetAtATime, Idle, Callers
<1>3. BufferBounded
  BY DEF BrokerInit, BufferBounded, NoPost
<1>4. AnswersAreSnapshots
  BY DEF BrokerInit, AnswersAreSnapshots, Idle, NoPost
<1> QED BY <1>1, <1>2, <1>3, <1>4 DEF BrokerInv

\* _replace changes nobody's stage, answer or history.
LEMMA SupersededKeeps ==
  ASSUME BrokerTypeOK
  PROVE  /\ Superseded \in [Callers -> CallerRecord]
         /\ \A c \in Callers : /\ Superseded[c].stage = caller[c].stage
                               /\ Superseded[c].answer = caller[c].answer
<1>1. caller \in [Callers -> CallerRecord]
  BY DEF BrokerTypeOK, CallerRecord
<1> QED BY <1>1 DEF Superseded, Consulting, CallerRecord

\* A caller that has its snapshot is a caller, and no longer holds a GET.
LEMMA DecidedIsDone ==
  ASSUME NEW c, NEW snapshot
  PROVE  /\ Decided(c, snapshot) \in CallerRecord
         /\ Decided(c, snapshot).stage \in {"idle", "refused", "forwarded"}
BY DEF Decided, Decision, Idle, CallerRecord, Stages, Snapshots

\* Whoever refreshes starts from a fresh record, asking or waiting.
LEMMA RefreshStarts ==
  ASSUME BrokerTypeOK, NEW c \in Callers, Refreshes(c)
  PROVE  \E rec \in CallerRecord : /\ rec.stage \in {"asking", "waiting"}
                                   /\ rec.stage = "asking" => lockHolder = NoCaller
                                   /\ caller' = [caller EXCEPT ![c] = rec]
                                   /\ lockHolder' = IF rec.stage = "asking" THEN c ELSE lockHolder
<1> DEFINE rec == [Idle EXCEPT !.stage = IF LockFree THEN "asking" ELSE "waiting",
                               !.inCredit = ~exhausted]
<1>1. rec \in CallerRecord
  BY DEF CallerRecord, Idle, Stages, Snapshots, BrokerTypeOK
<1>2. rec.stage = IF LockFree THEN "asking" ELSE "waiting"
  BY DEF Idle
<1>3. caller' = [caller EXCEPT ![c] = rec] /\ lockHolder' = IF LockFree THEN c ELSE lockHolder
  BY DEF Refreshes
<1> HIDE DEF rec
<1>4. LockFree => lockHolder = NoCaller
  BY DEF LockFree
<1> QED BY <1>1, <1>2, <1>3, <1>4

\* Replacing one caller's record by one that has a snapshot if it says so.
LEMMA OneCallerMoves ==
  ASSUME BrokerTypeOK, AnswersAreSnapshots, NEW c \in Callers, NEW rec \in CallerRecord,
         rec.stage = "answered" => rec.answer \in Snapshots,
         caller' = [caller EXCEPT ![c] = rec], exhausted' \in BOOLEAN,
         changes' = changes, cache' \in Snapshots \cup {"unknown"},
         lockHolder' \in Callers \cup {NoCaller}, buffered' \in Nat, post' = post
  PROVE  BrokerTypeOK' /\ AnswersAreSnapshots'
<1>1. caller \in [Callers -> CallerRecord]
  BY DEF BrokerTypeOK, CallerRecord
<1>2. caller' \in [Callers -> CallerRecord]
  BY <1>1
<1>3. BrokerTypeOK'
  BY <1>2 DEF BrokerTypeOK, CallerRecord
<1>4. \A d \in Callers : caller'[d].stage = "answered" => caller'[d].answer \in Snapshots
  BY <1>1 DEF AnswersAreSnapshots
<1> QED BY <1>3, <1>4 DEF AnswersAreSnapshots

\* Every step preserves the types and the answers in hand.
LEMMA BrokerTypeStep ==
  BrokerTypeOK /\ AnswersAreSnapshots /\ [BrokerNext]_brokerVars
      => BrokerTypeOK' /\ AnswersAreSnapshots'
<1> SUFFICES ASSUME BrokerTypeOK, AnswersAreSnapshots, [BrokerNext]_brokerVars
             PROVE  BrokerTypeOK' /\ AnswersAreSnapshots'
  OBVIOUS
<1>a. /\ exhausted \in BOOLEAN
      /\ cache \in Snapshots \cup {"unknown"}
      /\ lockHolder \in Callers \cup {NoCaller}
      /\ caller \in [Callers -> CallerRecord]
      /\ buffered \in Nat
  BY DEF BrokerTypeOK, CallerRecord
<1>b. \A r \in Requests : r \in Callers
  BY DEF Callers
<1>c. \A d \in Displays : d \in Callers
  BY DEF Callers
<1>1. CASE BalanceCrossesFloor
  <2>1. changes' \in 0..MaxChanges /\ exhausted' \in BOOLEAN
    BY <1>1, BrokerAssumption DEF BalanceCrossesFloor, BrokerTypeOK
  <2>2. /\ caller' \in [Callers -> CallerRecord]
        /\ \A c \in Callers : /\ caller'[c].stage = caller[c].stage
                              /\ caller'[c].answer = caller[c].answer
    BY <1>1, <1>a DEF BalanceCrossesFloor, CallerRecord
  <2>3. UNCHANGED <<cache, lockHolder, buffered, post>>
    BY <1>1 DEF BalanceCrossesFloor
  <2>4. BrokerTypeOK'
    BY <2>1, <2>2, <2>3 DEF BrokerTypeOK, CallerRecord
  <2> QED BY <2>2, <2>3, <2>4 DEF AnswersAreSnapshots
<1>2. ASSUME NEW c \in Callers, NEW stage \in Stages \ {"answered"},
             caller' = [caller EXCEPT ![c].stage = stage],
             lockHolder' \in {lockHolder, c},
             UNCHANGED <<exhausted, changes, cache, buffered, post>>
      PROVE  BrokerTypeOK' /\ AnswersAreSnapshots'
  <2> DEFINE rec == [caller[c] EXCEPT !.stage = stage]
  <2>1. rec \in CallerRecord /\ rec.stage = stage
    BY <1>a DEF CallerRecord
  <2>2. caller' = [caller EXCEPT ![c] = rec]
    BY <1>2, <1>a
  <2> HIDE DEF rec
  <2> QED BY <1>2, <1>a, <2>1, <2>2, OneCallerMoves
<1>3. ASSUME NEW c \in Callers, NEW rec \in CallerRecord, rec.stage # "answered",
             caller' = [caller EXCEPT ![c] = rec],
             lockHolder' \in {lockHolder, c, NoCaller}, buffered' \in Nat,
             UNCHANGED <<exhausted, changes, cache, post>>
      PROVE  BrokerTypeOK' /\ AnswersAreSnapshots'
  BY <1>3, <1>a, OneCallerMoves
<1>4. Idle \in CallerRecord /\ Idle.stage = "idle"
  BY DEF Idle, CallerRecord, Stages, Snapshots
<1>5. ASSUME NEW c \in Callers, Refreshes(c), UNCHANGED <<exhausted, changes, cache, buffered, post>>
      PROVE  BrokerTypeOK' /\ AnswersAreSnapshots'
  BY <1>5, <1>3, <1>a, RefreshStarts
<1>6. ASSUME NEW r \in Requests, RequestArrives(r) PROVE BrokerTypeOK' /\ AnswersAreSnapshots'
  <2>1. CASE cache = "exhausted"
    BY <1>6, <2>1, <1>5, <1>b DEF RequestArrives
  <2>2. CASE cache # "exhausted"
    BY <1>6, <2>2, <1>2, <1>b DEF RequestArrives, Stages
  <2> QED BY <2>1, <2>2
<1>7. ASSUME NEW r \in Requests, RefusalSent(r) PROVE BrokerTypeOK' /\ AnswersAreSnapshots'
  BY <1>7, <1>3, <1>4, <1>a, <1>b DEF RefusalSent
<1>8. ASSUME NEW r \in Requests, ResponseEnds(r) PROVE BrokerTypeOK' /\ AnswersAreSnapshots'
  <2>1. buffered' \in Nat
    BY <1>8, <1>a DEF ResponseEnds
  <2> QED BY <1>8, <1>3, <1>4, <1>b, <2>1 DEF ResponseEnds
<1>9. ASSUME NEW d \in Displays, DisplayArrives(d) PROVE BrokerTypeOK' /\ AnswersAreSnapshots'
  BY <1>9, <1>5, <1>c DEF DisplayArrives
<1>10. ASSUME NEW c \in Callers, TakesLock(c) PROVE BrokerTypeOK' /\ AnswersAreSnapshots'
  <2>1. CASE caller[c].superseded
    <3>1. Decided(c, cache) \in CallerRecord /\ Decided(c, cache).stage # "answered"
      BY DecidedIsDone
    <3> QED BY <1>10, <2>1, <3>1, <1>3, <1>a DEF TakesLock
  <2>2. CASE ~caller[c].superseded
    BY <1>10, <2>2, <1>2 DEF TakesLock, Stages
  <2> QED BY <2>1, <2>2
<1>11. ASSUME NEW c \in Callers, GetFails(c) PROVE BrokerTypeOK' /\ AnswersAreSnapshots'
  BY <1>11, <1>2 DEF GetFails, Stages
<1>12. ASSUME NEW c \in Callers, GetReturns(c) PROVE BrokerTypeOK' /\ AnswersAreSnapshots'
  <2>1. Decided(c, cache') \in CallerRecord /\ Decided(c, cache').stage # "answered"
    BY DecidedIsDone
  <2>2. /\ lockHolder' = NoCaller
        /\ UNCHANGED <<exhausted, changes, buffered, post>>
    BY <1>12 DEF GetReturns, Released
  <2>3. CASE Installs(c)
    <3>1. cache' \in Snapshots
      BY <1>12, <2>3 DEF GetReturns, Installs, AnswersAreSnapshots
    <3>2. caller' = [Superseded EXCEPT ![c] = Decided(c, cache')]
      BY <1>12, <2>3 DEF GetReturns
    <3>3. /\ caller' \in [Callers -> CallerRecord]
          /\ \A d \in Callers : caller'[d].stage = "answered" => caller'[d].answer \in Snapshots
      BY <3>2, <2>1, SupersededKeeps DEF AnswersAreSnapshots
    <3>4. BrokerTypeOK'
      BY <3>1, <3>3, <2>2 DEF BrokerTypeOK, CallerRecord
    <3> QED BY <2>2, <3>3, <3>4 DEF AnswersAreSnapshots
  <2>4. CASE ~Installs(c)
    <3>1. cache' = cache /\ caller' = [caller EXCEPT ![c] = Decided(c, cache')]
      BY <1>12, <2>4 DEF GetReturns
    <3> QED BY <3>1, <2>1, <2>2, <1>3, <1>a
  <2> QED BY <2>3, <2>4
<1>13. ASSUME NEW c \in Callers, BillingEntitlementAnswers(c)
      PROVE  BrokerTypeOK' /\ AnswersAreSnapshots'
  <2> DEFINE rec == [caller[c] EXCEPT !.stage = "answered", !.answer = Current]
  <2>1. rec \in CallerRecord /\ rec.answer \in Snapshots
    BY <1>a DEF CallerRecord, Current, Stages, Snapshots
  <2>2. caller' = [caller EXCEPT ![c] = rec]
    BY <1>13, <1>a DEF BillingEntitlementAnswers
  <2> HIDE DEF rec
  <2> QED BY <1>13, <1>a, <2>1, <2>2, OneCallerMoves DEF BillingEntitlementAnswers
<1>14. ASSUME post' \in [stage : PostStages, size : Nat, answer : Snapshots \cup {"nothing"}],
              post'.stage = "answered" => post'.answer \in Snapshots, buffered' \in Nat,
              UNCHANGED <<exhausted, changes, cache, lockHolder, caller>>
       PROVE  BrokerTypeOK' /\ AnswersAreSnapshots'
  BY <1>14 DEF BrokerTypeOK, AnswersAreSnapshots
<1>15. CASE Flush
  BY <1>15, <1>14, <1>a DEF Flush, NoPost, PostStages, Snapshots
<1>16. CASE BillingUsageEventsAnswers
  <2>1. /\ post' \in [stage : PostStages, size : Nat, answer : Snapshots \cup {"nothing"}]
        /\ post'.answer \in Snapshots
    BY <1>16 DEF BillingUsageEventsAnswers, Current, BrokerTypeOK, PostStages, Snapshots
  <2> QED BY <1>16, <2>1, <1>14, <1>a DEF BillingUsageEventsAnswers
<1>17. CASE PostFails
  <2>1. /\ post' \in [stage : PostStages, size : Nat, answer : Snapshots \cup {"nothing"}]
        /\ post'.stage = "failed"
    BY <1>17 DEF PostFails, BrokerTypeOK, PostStages
  <2> QED BY <1>17, <2>1, <1>14, <1>a DEF PostFails
<1>18. CASE PostReturns
  <2>1. NoPost \in [stage : PostStages, size : Nat, answer : Snapshots \cup {"nothing"}]
        /\ NoPost.stage # "answered"
    BY DEF NoPost, PostStages
  <2>2. cache' \in Snapshots \cup {"unknown"}
    BY <1>18, <1>a DEF PostReturns, AnswersAreSnapshots
  <2>3. /\ caller' \in [Callers -> CallerRecord]
        /\ \A c \in Callers : /\ caller'[c].stage = caller[c].stage
                              /\ caller'[c].answer = caller[c].answer
    BY <1>18, <1>a, SupersededKeeps DEF PostReturns
  <2>4. UNCHANGED <<exhausted, changes, lockHolder, buffered>> /\ post' = NoPost
    BY <1>18 DEF PostReturns
  <2>5. BrokerTypeOK'
    BY <2>1, <2>2, <2>3, <2>4 DEF BrokerTypeOK, CallerRecord
  <2> QED BY <2>1, <2>3, <2>4, <2>5 DEF AnswersAreSnapshots
<1>19. CASE BrokerRestarts
  <2>1. NoPost \in [stage : PostStages, size : Nat, answer : Snapshots \cup {"nothing"}]
        /\ NoPost.stage # "answered"
    BY DEF NoPost, PostStages
  <2>2. BrokerTypeOK'
    BY <1>19, <2>1, <1>4, <1>a DEF BrokerRestarts, BrokerTypeOK, CallerRecord
  <2> QED BY <1>19, <2>1, <2>2, <1>4 DEF BrokerRestarts, AnswersAreSnapshots
<1>20. CASE UNCHANGED brokerVars
  BY <1>20 DEF brokerVars, BrokerTypeOK, AnswersAreSnapshots
<1> QED BY <1>1, <1>6, <1>7, <1>8, <1>9, <1>10, <1>11, <1>12, <1>13, <1>15, <1>16, <1>17,
           <1>18, <1>19, <1>20 DEF BrokerNext

\* Every step keeps the GETs serialized.
LEMMA OneGetStep ==
  BrokerTypeOK /\ OneGetAtATime /\ [BrokerNext]_brokerVars => OneGetAtATime'
<1> SUFFICES ASSUME BrokerTypeOK, OneGetAtATime, [BrokerNext]_brokerVars PROVE OneGetAtATime'
  OBVIOUS
<1>a. NoCaller \notin Callers
  BY BrokerAssumption DEF Callers
<1>b. caller \in [Callers -> CallerRecord]
  BY DEF BrokerTypeOK, CallerRecord
<1> USE <1>a, <1>b DEF OneGetAtATime, CallerRecord
<1>1. CASE BalanceCrossesFloor
  BY <1>1 DEF BalanceCrossesFloor
<1>2. ASSUME NEW r \in Requests, RequestArrives(r) PROVE OneGetAtATime'
  <2>1. r \in Callers /\ caller[r].stage = "idle"
    BY <1>2 DEF RequestArrives, Callers
  <2>2. CASE cache = "exhausted"
    <3>1. Refreshes(r)
      BY <1>2, <2>2 DEF RequestArrives
    <3> QED BY <2>1, <3>1, RefreshStarts
  <2>3. CASE cache # "exhausted"
    <3>1. caller' = [caller EXCEPT ![r].stage = "forwarded"] /\ lockHolder' = lockHolder
      BY <1>2, <2>3 DEF RequestArrives
    <3> QED BY <2>1, <3>1
  <2> QED BY <2>2, <2>3
<1>3. ASSUME NEW r \in Requests, RefusalSent(r) PROVE OneGetAtATime'
  BY <1>3 DEF RefusalSent, Idle
<1>4. ASSUME NEW r \in Requests, ResponseEnds(r) PROVE OneGetAtATime'
  BY <1>4 DEF ResponseEnds, Idle
<1>5. ASSUME NEW d \in Displays, DisplayArrives(d) PROVE OneGetAtATime'
  BY <1>5 DEF DisplayArrives, Refreshes, LockFree, Callers, Idle
<1>6. ASSUME NEW c \in Callers, TakesLock(c) PROVE OneGetAtATime'
  BY <1>6, DecidedIsDone DEF TakesLock
<1>7. ASSUME NEW c \in Callers, GetFails(c) PROVE OneGetAtATime'
  BY <1>7 DEF GetFails
<1>8. ASSUME NEW c \in Callers, GetReturns(c) PROVE OneGetAtATime'
  <2>1. lockHolder = c /\ lockHolder' = NoCaller
    BY <1>8 DEF GetReturns, Released
  <2>2. \A d \in Callers \ {c} : caller'[d].stage = caller[d].stage
    BY <1>8, SupersededKeeps DEF GetReturns
  <2>3. caller'[c].stage \in {"idle", "refused", "forwarded"}
    BY <1>8, SupersededKeeps, DecidedIsDone DEF GetReturns
  <2> QED BY <2>1, <2>2, <2>3
<1>9. ASSUME NEW c \in Callers, BillingEntitlementAnswers(c) PROVE OneGetAtATime'
  BY <1>9 DEF BillingEntitlementAnswers
<1>10. CASE Flush \/ BillingUsageEventsAnswers \/ PostFails
  BY <1>10 DEF Flush, BillingUsageEventsAnswers, PostFails
<1>11. CASE PostReturns
  BY <1>11, SupersededKeeps DEF PostReturns
<1>12. CASE BrokerRestarts
  BY <1>12 DEF BrokerRestarts, Idle
<1>13. CASE UNCHANGED brokerVars
  BY <1>13 DEF brokerVars
<1> QED BY <1>1, <1>2, <1>3, <1>4, <1>5, <1>6, <1>7, <1>8, <1>9, <1>10, <1>11, <1>12,
           <1>13 DEF BrokerNext

\* The buffer is bounded where an event is recorded, the report where it is cut.
LEMMA BufferStep ==
  BrokerTypeOK /\ BufferBounded /\ [BrokerNext]_brokerVars => BufferBounded'
<1> SUFFICES ASSUME BrokerTypeOK, BufferBounded, [BrokerNext]_brokerVars PROVE BufferBounded'
  OBVIOUS
<1> USE BrokerAssumption DEF BufferBounded, BrokerTypeOK
<1>1. ASSUME NEW r \in Requests, RequestArrives(r) \/ RefusalSent(r) PROVE BufferBounded'
  BY <1>1 DEF RequestArrives, RefusalSent
<1>2. ASSUME NEW r \in Requests, ResponseEnds(r) PROVE BufferBounded'
  BY <1>2 DEF ResponseEnds, BufferHasRoom
<1>3. ASSUME NEW d \in Displays, DisplayArrives(d) PROVE BufferBounded'
  BY <1>3 DEF DisplayArrives
<1>4. ASSUME NEW c \in Callers,
             TakesLock(c) \/ GetFails(c) \/ GetReturns(c) \/ BillingEntitlementAnswers(c)
      PROVE  BufferBounded'
  BY <1>4 DEF TakesLock, GetFails, GetReturns, BillingEntitlementAnswers
<1>5. CASE Flush
  BY <1>5 DEF Flush, NoPost
<1>6. CASE BalanceCrossesFloor \/ BillingUsageEventsAnswers \/ PostFails
  BY <1>6 DEF BalanceCrossesFloor, BillingUsageEventsAnswers, PostFails
<1>7. CASE PostReturns \/ BrokerRestarts
  BY <1>7 DEF PostReturns, BrokerRestarts, NoPost
<1>8. CASE UNCHANGED brokerVars
  BY <1>8 DEF brokerVars
<1> QED BY <1>1, <1>2, <1>3, <1>4, <1>5, <1>6, <1>7, <1>8 DEF BrokerNext

\* The invariant holds of every reachable state of every broker.
LEMMA BrokerInvariant == BrokerSpec => []BrokerInv
<1>1. BrokerInv /\ [BrokerNext]_brokerVars => BrokerInv'
  BY BrokerTypeStep, OneGetStep, BufferStep DEF BrokerInv
<1> QED BY <1>1, BrokerInvInit, PTL DEF BrokerSpec

\* The cache only ever holds the answer of a call that succeeded
\* (_refresh, absorb_report_response): the body of a failed one is never adopted.
THEOREM BrokerTypeCorrect == BrokerSpec => []BrokerTypeOK
<1>1. BrokerInv => BrokerTypeOK
  BY DEF BrokerInv
<1> QED BY <1>1, BrokerInvariant, PTL

\* The fetch lock serializes the GETs of any number of requests and displays, and
\* no way out of _refresh, nor a restart, leaves it held.
THEOREM GetsSerialized == BrokerSpec => []OneGetAtATime
<1>1. BrokerInv => OneGetAtATime
  BY DEF BrokerInv
<1> QED BY <1>1, BrokerInvariant, PTL

\* A report never exceeds the control plane's ingest cap (UsageReporter.flush),
\* whatever the caps are as long as the buffer's is no larger.
THEOREM ReportsFit == BrokerSpec => []ReportFitsIngest
<1>1. BrokerInv => ReportFitsIngest
  BY BrokerAssumption DEF BrokerInv, BrokerTypeOK, BufferBounded, ReportFitsIngest
<1> QED BY <1>1, BrokerInvariant, PTL

\* Whoever was in credit ever since it arrived is so now, and its answer says so.
CreditHistory ==
    \A c \in Callers :
        caller[c].inCredit => /\ ~exhausted
                              /\ caller[c].stage = "answered" => caller[c].answer = "in credit"

\* The history holds at the start, where nobody has arrived.
LEMMA CreditHistoryInit == BrokerInit => CreditHistory
<1> SUFFICES ASSUME BrokerInit, NEW c \in Callers PROVE ~caller[c].inCredit
  BY DEF CreditHistory
<1>1. caller[c] = Idle
  BY DEF BrokerInit
<1> QED BY <1>1 DEF Idle

\* Every step keeps the history: an answer is the balance of the moment.
LEMMA CreditHistoryStep ==
  BrokerTypeOK /\ CreditHistory /\ [BrokerNext]_brokerVars => CreditHistory'
<1> SUFFICES ASSUME BrokerTypeOK, CreditHistory, [BrokerNext]_brokerVars PROVE CreditHistory'
  OBVIOUS
<1>a. caller \in [Callers -> CallerRecord]
  BY DEF BrokerTypeOK, CallerRecord
<1>b. \A r \in Requests : r \in Callers
  BY DEF Callers
<1>c. \A d \in Displays : d \in Callers
  BY DEF Callers
<1>d. Idle \in CallerRecord /\ ~Idle.inCredit
  BY DEF Idle, CallerRecord, Stages, Snapshots
<1>1. CASE BalanceCrossesFloor
  BY <1>1, <1>a DEF BalanceCrossesFloor, CreditHistory, CallerRecord
<1>2. ASSUME NEW c \in Callers, NEW rec \in CallerRecord, exhausted' = exhausted,
             rec.inCredit => ~exhausted /\ (rec.stage = "answered" => rec.answer = "in credit"),
             caller' = [caller EXCEPT ![c] = rec]
      PROVE  CreditHistory'
  BY <1>2, <1>a DEF CreditHistory
<1>3. ASSUME NEW c \in Callers, NEW stage \in Stages \ {"answered"}, exhausted' = exhausted,
             caller' = [caller EXCEPT ![c].stage = stage]
      PROVE  CreditHistory'
  <2> DEFINE rec == [caller[c] EXCEPT !.stage = stage]
  <2>1. rec \in CallerRecord /\ rec.stage # "answered" /\ rec.inCredit = caller[c].inCredit
    BY <1>a DEF CallerRecord
  <2>2. caller' = [caller EXCEPT ![c] = rec]
    BY <1>3, <1>a
  <2> HIDE DEF rec
  <2> QED BY <1>2, <1>3, <2>1, <2>2 DEF CreditHistory
<1>4. ASSUME NEW c \in Callers, Refreshes(c), exhausted' = exhausted PROVE CreditHistory'
  <2> DEFINE rec == [Idle EXCEPT !.stage = IF LockFree THEN "asking" ELSE "waiting",
                                 !.inCredit = ~exhausted]
  <2>1. rec \in CallerRecord /\ rec.stage # "answered" /\ (rec.inCredit => ~exhausted)
    BY DEF CallerRecord, Idle, Stages, Snapshots, BrokerTypeOK
  <2>2. caller' = [caller EXCEPT ![c] = rec]
    BY <1>4 DEF Refreshes
  <2> HIDE DEF rec
  <2> QED BY <1>2, <1>4, <2>1, <2>2
<1>5. ASSUME NEW r \in Requests, RequestArrives(r) PROVE CreditHistory'
  <2>1. CASE cache = "exhausted"
    BY <1>5, <2>1, <1>4, <1>b DEF RequestArrives
  <2>2. CASE cache # "exhausted"
    BY <1>5, <2>2, <1>3, <1>b DEF RequestArrives, Stages
  <2> QED BY <2>1, <2>2
<1>6. ASSUME NEW r \in Requests, RefusalSent(r) \/ ResponseEnds(r) PROVE CreditHistory'
  BY <1>6, <1>2, <1>b, <1>d DEF RefusalSent, ResponseEnds
<1>7. ASSUME NEW d \in Displays, DisplayArrives(d) PROVE CreditHistory'
  BY <1>7, <1>4, <1>c DEF DisplayArrives
<1>8. \A c \in Callers : \A snapshot : Decided(c, snapshot) \in CallerRecord
                                       /\ ~Decided(c, snapshot).inCredit
  BY DEF Decided, Decision, Idle, CallerRecord, Stages, Snapshots
<1>9. ASSUME NEW c \in Callers, TakesLock(c) PROVE CreditHistory'
  <2>1. CASE caller[c].superseded
    BY <1>9, <2>1, <1>2, <1>8 DEF TakesLock
  <2>2. CASE ~caller[c].superseded
    BY <1>9, <2>2, <1>3 DEF TakesLock, Stages
  <2> QED BY <2>1, <2>2
<1>10. ASSUME NEW c \in Callers, GetFails(c) PROVE CreditHistory'
  BY <1>10, <1>3 DEF GetFails, Stages
<1>11. \A c \in Callers : /\ Superseded[c].stage = caller[c].stage
                          /\ Superseded[c].answer = caller[c].answer
                          /\ Superseded[c].inCredit = caller[c].inCredit
  BY <1>a DEF Superseded, CallerRecord
<1>12. ASSUME NEW c \in Callers, GetReturns(c) PROVE CreditHistory'
  <2>1. CASE Installs(c)
    <3>1. caller' = [Superseded EXCEPT ![c] = Decided(c, cache')] /\ exhausted' = exhausted
      BY <1>12, <2>1 DEF GetReturns
    <3> QED BY <3>1, <1>8, <1>11, SupersededKeeps DEF CreditHistory
  <2>2. CASE ~Installs(c)
    <3>1. caller' = [caller EXCEPT ![c] = Decided(c, cache')] /\ exhausted' = exhausted
      BY <1>12, <2>2 DEF GetReturns
    <3> QED BY <3>1, <1>2, <1>8
  <2> QED BY <2>1, <2>2
<1>13. ASSUME NEW c \in Callers, BillingEntitlementAnswers(c) PROVE CreditHistory'
  <2> DEFINE rec == [caller[c] EXCEPT !.stage = "answered", !.answer = Current]
  <2>1. rec \in CallerRecord /\ rec.inCredit = caller[c].inCredit /\ rec.answer = Current
    BY <1>a DEF CallerRecord, Current, Stages, Snapshots
  <2>2. caller' = [caller EXCEPT ![c] = rec] /\ exhausted' = exhausted
    BY <1>13, <1>a DEF BillingEntitlementAnswers
  <2> HIDE DEF rec
  <2> QED BY <1>2, <2>1, <2>2 DEF CreditHistory, Current
<1>14. CASE Flush \/ BillingUsageEventsAnswers \/ PostFails
  BY <1>14 DEF Flush, BillingUsageEventsAnswers, PostFails, CreditHistory
<1>15. CASE PostReturns
  BY <1>15, <1>11 DEF PostReturns, CreditHistory
<1>16. CASE BrokerRestarts
  BY <1>16, <1>d DEF BrokerRestarts, CreditHistory
<1>17. CASE UNCHANGED brokerVars
  BY <1>17 DEF brokerVars, CreditHistory
<1> QED BY <1>1, <1>5, <1>6, <1>7, <1>9, <1>10, <1>12, <1>13, <1>14, <1>15, <1>16, <1>17
        DEF BrokerNext

\* The step that OwnAnswerUnblocks speaks of: only the decision itself moves a call
\* that has its answer.
LEMMA OwnAnswerStep ==
  ASSUME BrokerTypeOK, CreditHistory, [BrokerNext]_brokerVars, NEW r \in Requests,
         caller[r].stage = "answered", ~caller[r].superseded, caller[r].inCredit
  PROVE  caller'[r].stage # "refused"
<1>a. caller \in [Callers -> CallerRecord] /\ r \in Callers
  BY DEF BrokerTypeOK, CallerRecord, Callers
<1>b. caller[r].answer = "in credit"
  BY <1>a DEF CreditHistory
<1>1. CASE BalanceCrossesFloor
  BY <1>1, <1>a DEF BalanceCrossesFloor, CallerRecord
<1>2. ASSUME NEW q \in Requests, RequestArrives(q) \/ RefusalSent(q) \/ ResponseEnds(q)
      PROVE  caller'[r] = caller[r]
  BY <1>2, <1>a DEF RequestArrives, RefusalSent, ResponseEnds, Refreshes
<1>3. ASSUME NEW d \in Displays, DisplayArrives(d) PROVE caller'[r] = caller[r]
  BY <1>3, <1>a DEF DisplayArrives, Refreshes
<1>4. ASSUME NEW c \in Callers, TakesLock(c) \/ BillingEntitlementAnswers(c)
      PROVE  caller'[r] = caller[r]
  BY <1>4, <1>a DEF TakesLock, BillingEntitlementAnswers
<1>5. ASSUME NEW c \in Callers, GetFails(c) PROVE caller'[r].stage # "refused"
  <2>1. caller' = [caller EXCEPT ![c].stage = "failed"] /\ caller[c].stage = "asking"
    BY <1>5 DEF GetFails
  <2> QED BY <2>1, <1>a
<1>6. ASSUME NEW c \in Callers, GetReturns(c) PROVE caller'[r].stage # "refused"
  <2>1. CASE c # r
    BY <1>6, <1>a, <2>1, SupersededKeeps DEF GetReturns
  <2>2. CASE c = r
    <3>1. Installs(r)
      BY DEF Installs
    <3>2. cache' = "in credit" /\ caller' = [Superseded EXCEPT ![r] = Decided(r, cache')]
      BY <1>6, <2>2, <3>1, <1>b DEF GetReturns
    <3>3. caller'[r] = Decided(r, "in credit")
      BY <3>2, <1>a, SupersededKeeps
    <3> QED BY <3>3 DEF Decided, Decision, Idle
  <2> QED BY <2>1, <2>2
<1>7. CASE Flush \/ BillingUsageEventsAnswers \/ PostFails
  BY <1>7 DEF Flush, BillingUsageEventsAnswers, PostFails
<1>8. CASE PostReturns
  BY <1>8, <1>a, SupersededKeeps DEF PostReturns
<1>9. CASE BrokerRestarts
  BY <1>9, <1>a DEF BrokerRestarts, Idle
<1>10. CASE UNCHANGED brokerVars
  BY <1>10 DEF brokerVars
<1> QED BY <1>1, <1>2, <1>3, <1>4, <1>5, <1>6, <1>7, <1>8, <1>9, <1>10 DEF BrokerNext

\* A call of an organization that was in credit ever since it arrived is never
\* refused on its own answer (refusal_for_metered_request, _refresh).
THEOREM OwnAnswerHelps == BrokerSpec => OwnAnswerUnblocks
<1>1. BrokerTypeOK /\ CreditHistory /\ [BrokerNext]_brokerVars
        => [\A r \in Requests :
              (caller[r].stage = "answered" /\ ~caller[r].superseded /\ caller[r].inCredit)
                  => caller'[r].stage # "refused"]_brokerVars
  BY OwnAnswerStep
<1>2. BrokerSpec => []CreditHistory
  <2>1. BrokerTypeOK /\ CreditHistory /\ [BrokerNext]_brokerVars => CreditHistory'
    BY CreditHistoryStep
  <2> QED BY <2>1, CreditHistoryInit, BrokerTypeCorrect, PTL DEF BrokerSpec
<1> QED BY <1>1, <1>2, BrokerTypeCorrect, PTL DEF BrokerSpec, OwnAnswerUnblocks

=============================================================================
