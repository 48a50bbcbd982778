-------------------------- MODULE SyncQueueProofs ---------------------------
(***************************************************************************)
(* Theorems about SyncQueue, for every number of artifacts and replicas,   *)
(* every limit and every combination of faults.                            *)
(***************************************************************************)
EXTENDS SyncQueue, FiniteSetTheorems, TLAPS

\* Keys are pairs of an artifact and a task type.
LEMMA KeyFacts ==
  /\ \A a \in Artifacts : PushOf(a) \in Keys /\ DeleteOf(a) \in Keys
  /\ \A k \in Keys : k[1] \in Artifacts /\ k[2] \in {"push", "delete"}
  BY DEF Keys, PushOf, DeleteOf

\* A re-queued row is a pending row without a claim.
LEMMA RequeuedFacts ==
  ASSUME NEW n \in 0..MaxRetries
  PROVE  /\ Requeued(n) \in Row /\ Requeued(n).retries = n
         /\ Requeued(n).status = "pending" /\ Requeued(n).token = None
  BY ConstantsAssumption DEF Row, Statuses, Requeued

\* A settled row has the new status and no claim.
LEMMA SettledFacts ==
  ASSUME NEW n \in 0..MaxRetries, NEW s \in Statuses
  PROVE  /\ Settled(s, n) \in Row /\ Settled(s, n).retries = n
         /\ Settled(s, n).status = s /\ Settled(s, n).token = None
  BY ConstantsAssumption DEF Row, Statuses, Settled

\* A claimed row is in progress and carries its token.
LEMMA ClaimedFacts ==
  ASSUME NEW n \in 0..MaxRetries, NEW t \in Tokens
  PROVE  /\ ClaimedRow(n, t) \in Row /\ ClaimedRow(n, t).retries = n
         /\ ClaimedRow(n, t).status = "in_progress" /\ ClaimedRow(n, t).token = t
  BY ConstantsAssumption DEF Row, Statuses, ClaimedRow

\* The part of the invariant that is about the rows of the queue.
RowsOK(f) ==
    /\ f \in [Keys -> Row]
    /\ \A k \in Keys : f[k].status = "in_progress" <=> f[k].token # None
    /\ \A k \in Keys : f[k].status \in {"pending", "in_progress"} => f[k].retries < MaxRetries

\* A good row may be put in any place of a good queue.
LEMMA RowsPut ==
  ASSUME NEW f, RowsOK(f), NEW k \in Keys, NEW row \in Row,
         row.status = "in_progress" <=> row.token # None,
         row.status \in {"pending", "in_progress"} => row.retries < MaxRetries
  PROVE  RowsOK([f EXCEPT ![k] = row])
  BY DEF RowsOK

\* The part that is about the spawned transfers.
ExecsOK(s) == s \subseteq Exec /\ \A e \in s : e.retries < MaxRetries

\* The part that is about everything else.
RestOK ==
    /\ art \in [Artifacts -> [deleted : BOOLEAN, ver : 0..MaxVer]]
    /\ later \in [Artifacts -> {"none", "push", "delete"}]
    /\ todo \subseteq Artifacts \X {"queue", "rearm", "cancel", "fanout"}
    /\ peer \in PeerRow
    /\ remote \in [Artifacts -> 0..MaxVer]
    /\ loop \in [Replicas -> [pc : {"idle", "recovered", "fetched", "ready"}, slots : Int]]

\* The parts together are the types and the retry budget.
LEMMA InvParts == TypeOK /\ RetryBudget <=> RowsOK(task) /\ ExecsOK(execs) /\ RestOK
  BY DEF TypeOK, RetryBudget, RowsOK, ExecsOK, RestOK

\* The same of the next state.
LEMMA InvPartsPrime == (TypeOK /\ RetryBudget)' <=> RowsOK(task') /\ ExecsOK(execs') /\ RestOK'
  BY DEF TypeOK, RetryBudget, RowsOK, ExecsOK, RestOK

----------------------------------------------------------------------------
(* Every step keeps the rows in order. *)

\* Every statement on sync_tasks leaves typed rows, claimed exactly while in
\* progress, and queued only with attempts left.
LEMMA RowsStep ==
  ASSUME RowsOK(task), ExecsOK(execs), [Next]_vars
  PROVE  RowsOK(task')
<1> USE ConstantsAssumption
<1>q. RowsOK(task) /\ 0 \in 0..MaxRetries /\ 0 < MaxRetries
    OBVIOUS
<1>r. \A k \in Keys : task[k] \in Row /\ task[k].retries \in 0..MaxRetries
    BY DEF RowsOK, Row
<1>0. ASSUME NEW k \in Keys, NEW n \in 0..MaxRetries, n < MaxRetries
      PROVE  RowsOK([task EXCEPT ![k] = Requeued(n)])
    BY <1>q, <1>0, RequeuedFacts, RowsPut
<1>1. ASSUME NEW k \in Keys, NEW n \in 0..MaxRetries, NEW s \in {"completed", "failed", "cancelled"}
      PROVE  RowsOK([task EXCEPT ![k] = Settled(s, n)])
  <2>1. s \in Statuses /\ s \notin {"pending", "in_progress"}
    BY DEF Statuses
  <2> QED  BY <2>1, <1>q, <1>1, SettledFacts, RowsPut
<1>2. ASSUME NEW a \in Artifacts, QueuePush(a) PROVE RowsOK(task')
    BY <1>2, <1>0, <1>q, KeyFacts DEF QueuePush
<1>3. ASSUME NEW a \in Artifacts, NEW v PROVE RowsOK(Rearmed(a, v))
    BY <1>0, <1>q, KeyFacts DEF Rearmed
<1>4. ASSUME NEW a \in Artifacts, CancelPushes(a) PROVE RowsOK(task')
  <2>1. CASE task' = task
    BY <2>1
  <2>2. CASE task' = [task EXCEPT ![PushOf(a)] = Settled("cancelled", task[PushOf(a)].retries)]
    BY <2>2, <1>1, <1>r, KeyFacts
  <2> QED  BY <2>1, <2>2, <1>4 DEF CancelPushes
<1>5. ASSUME NEW a \in Artifacts, FanOutDelete(a) PROVE RowsOK(task')
    BY <1>5, <1>0, <1>q, KeyFacts DEF FanOutDelete
<1>6. ASSUME NEW r \in Replicas, Recover(r) PROVE RowsOK(task')
  <2>1. \A k \in Keys : task'[k] = task[k] \/
          (task[k].status = "in_progress" /\ task'[k] = Requeued(task[k].retries))
    BY <1>6 DEF Recover
  <2>2. task' = [k \in Keys |-> task'[k]]
    BY <1>6 DEF Recover
  <2> QED  BY <2>1, <2>2, <1>r, RequeuedFacts DEF RowsOK
<1>7. ASSUME NEW r \in Replicas, ResetFailed(r) PROVE RowsOK(task')
  <2>1. \A k \in Keys : task'[k] = task[k] \/
          (Retriable(task[k]) /\ task'[k] = Requeued(task[k].retries))
    BY <1>7 DEF ResetFailed
  <2>2. task' = [k \in Keys |-> task'[k]]
    BY <1>7 DEF ResetFailed
  <2> QED  BY <2>1, <2>2, <1>r, RequeuedFacts DEF RowsOK, Retriable
<1>8. ASSUME NEW r \in Replicas, Claim(r) PROVE RowsOK(task')
  <2>1. PICK S \in SUBSET {k \in Keys : Claimable(k)} :
          \E tokenOf \in [S -> Tokens \ UsedTokens] :
            task' = [k \in Keys |-> IF k \in S THEN ClaimedRow(task[k].retries, tokenOf[k]) ELSE task[k]]
    BY <1>8 DEF Claim
  <2>2. PICK tokenOf \in [S -> Tokens \ UsedTokens] :
            task' = [k \in Keys |-> IF k \in S THEN ClaimedRow(task[k].retries, tokenOf[k]) ELSE task[k]]
    BY <2>1
  <2>3. \A k \in Keys : task'[k] = task[k] \/
          (task[k].status = "pending" /\ \E t \in Tokens : task'[k] = ClaimedRow(task[k].retries, t))
    BY <2>2 DEF Claimable
  <2>4. task' = [k \in Keys |-> task'[k]]
    BY <2>2
  <2> QED  BY <2>3, <2>4, <1>r, ClaimedFacts DEF RowsOK
<1>9. ASSUME NEW e \in execs, FilterOut(e) \/ Succeed(e) PROVE RowsOK(task')
  <2>1. e.key \in Keys
    BY DEF ExecsOK, Exec
  <2>2. task' = task \/ task' = [task EXCEPT ![e.key] = Settled("completed", task[e.key].retries)]
    BY <1>9 DEF FilterOut, Succeed, Finalize
  <2> QED  BY <2>1, <2>2, <1>1, <1>r
<1>10. ASSUME NEW e \in execs, Fail(e) PROVE RowsOK(task')
  <2>1. e.key \in Keys /\ NewRetryCount(e) \in 0..MaxRetries
    BY DEF ExecsOK, Exec, NewRetryCount
  <2>2. task' = task \/ task' = [task EXCEPT ![e.key] = Settled("failed", NewRetryCount(e))]
    BY <1>10 DEF Fail, Finalize
  <2> QED  BY <2>1, <2>2, <1>1
<1>11. ASSUME NEW e \in execs, ExtendClaim(e) PROVE RowsOK(task')
  <2>1. e.key \in Keys /\ e.token \in Tokens
    BY DEF ExecsOK, Exec
  <2>2. task' = [task EXCEPT ![e.key] = ClaimedRow(task[e.key].retries, e.token)]
    BY <1>11 DEF ExtendClaim
  <2>3. task[e.key].status = "in_progress"
    BY <1>11 DEF ExtendClaim, Owns
  <2>4. task[e.key].retries < MaxRetries /\ task[e.key].retries \in 0..MaxRetries
    BY <2>1, <2>3, <1>r DEF RowsOK
  <2>5. e.token # None
    BY <2>1
  <2> DEFINE row == ClaimedRow(task[e.key].retries, e.token)
  <2>6. row \in Row /\ row.status = "in_progress" /\ row.token # None /\ row.retries < MaxRetries
    BY <2>1, <2>4, <2>5, ClaimedFacts
  <2> HIDE DEF row
  <2>7. RowsOK([task EXCEPT ![e.key] = row])
    BY <2>1, <2>6, <1>q, RowsPut
  <2> QED  BY <2>2, <2>7 DEF row
<1>12. ASSUME NEW e \in execs, RearmIfSuperseded(e) PROVE RowsOK(task')
  <2>1. e.key[1] \in Artifacts
    BY KeyFacts DEF ExecsOK, Exec
  <2> QED  BY <2>1, <1>3, <1>12 DEF RearmIfSuperseded
<1>13. CASE Tick
  <2>1. task' = [k \in Keys |-> [task[k] EXCEPT !.left = NonNegative(@ - 1)]]
    BY <1>13 DEF Tick
  <2>2. ASSUME NEW row \in Row
        PROVE  /\ [row EXCEPT !.left = NonNegative(@ - 1)] \in Row
               /\ [row EXCEPT !.left = NonNegative(@ - 1)].status = row.status
               /\ [row EXCEPT !.left = NonNegative(@ - 1)].token = row.token
               /\ [row EXCEPT !.left = NonNegative(@ - 1)].retries = row.retries
    BY DEF Row, NonNegative
  <2> QED  BY <2>1, <2>2, <1>r DEF RowsOK
<1>14. ASSUME NEW a \in Artifacts, QueueRearm(a) PROVE RowsOK(task')
    BY <1>14, <1>3 DEF QueueRearm
<1>15. ASSUME task' = task PROVE RowsOK(task')
    BY <1>15
<1> QED
    BY <1>2, <1>4, <1>5, <1>6, <1>7, <1>8, <1>9, <1>10, <1>11, <1>12, <1>13, <1>14, <1>15
    DEF Next, Request, Continue, Work, Transfer, Trouble, Upload, Delete, ContinuationFails,
        FetchPeer, LoopFails, Crash, Begin, Deliver, SettleSuccess, SettleFailure,
        GiveUp, SettleFails, BackoffEnds, PeerStale, PeerProbed, vars

----------------------------------------------------------------------------
(* Every step keeps the transfers in order. *)

\* A transfer that moves to another stage keeps what it carries.
LEMMA MoveFacts ==
  ASSUME NEW e \in Exec, NEW s \in {"running", "delivered", "succeeded", "failed", "rearm"}
  PROVE  LET f == [e EXCEPT !.pc = s] IN f \in Exec /\ f.retries = e.retries
  BY DEF Exec

\* Transfers are spawned from rows with attempts left and keep their count.
LEMMA ExecsStep ==
  ASSUME RowsOK(task), ExecsOK(execs), RestOK, [Next]_vars
  PROVE  ExecsOK(execs')
<1> USE ConstantsAssumption
<1>1. ASSUME execs' \subseteq execs PROVE ExecsOK(execs')
    BY <1>1 DEF ExecsOK
<1>2. ASSUME NEW e \in execs, NEW s \in {"running", "delivered", "succeeded", "failed", "rearm"},
             Move(e, s)
      PROVE  ExecsOK(execs')
  <2>1. e \in Exec /\ e.retries < MaxRetries
    BY DEF ExecsOK
  <2> DEFINE f == [e EXCEPT !.pc = s]
  <2>2. f \in Exec /\ f.retries < MaxRetries
    BY <2>1, MoveFacts
  <2>3. execs' \subseteq execs \cup {f}
    BY <1>2 DEF Move
  <2> HIDE DEF f
  <2> QED  BY <2>2, <2>3 DEF ExecsOK
<1>3. ASSUME NEW r \in Replicas, Claim(r) PROVE ExecsOK(execs')
  <2>1. PICK S \in SUBSET {k \in Keys : Claimable(k)} :
          \E tokenOf \in [S -> Tokens \ UsedTokens] :
            execs' \subseteq execs \cup {NewExec(r, k, tokenOf[k]) : k \in S}
    BY <1>3 DEF Claim
  <2>2. ASSUME NEW k \in S, NEW t \in Tokens
        PROVE  NewExec(r, k, t) \in Exec /\ NewExec(r, k, t).retries < MaxRetries
    <3>1. k \in Keys /\ task[k].status = "pending"
      BY <2>1 DEF Claimable
    <3>2. task[k].retries \in 0..MaxRetries /\ task[k].retries < MaxRetries
      BY <3>1 DEF RowsOK, Row
    <3>3. art[k[1]].ver \in 0..MaxVer
      BY <3>1, KeyFacts DEF RestOK
    <3> QED  BY <3>1, <3>2, <3>3 DEF NewExec, Exec
  <2> QED  BY <2>1, <2>2 DEF ExecsOK
<1>4. ASSUME NEW e \in execs,
             FilterOut(e) \/ RearmIfSuperseded(e) \/ GiveUp(e) \/ ExtendClaim(e)
      PROVE  ExecsOK(execs')
    BY <1>4, <1>1 DEF FilterOut, RearmIfSuperseded, GiveUp, ExtendClaim, Gone
<1>5. ASSUME NEW e \in execs,
             Begin(e) \/ Deliver(e) \/ SettleSuccess(e) \/ SettleFailure(e) \/ SettleFails(e)
      PROVE  ExecsOK(execs')
    BY <1>5, <1>2 DEF Begin, Deliver, SettleSuccess, SettleFailure, SettleFails
<1>6. ASSUME NEW e \in execs, Succeed(e) \/ Fail(e) PROVE ExecsOK(execs')
  <2>1. Move(e, "succeeded") \/ Move(e, "failed") \/ Gone(e)
    BY <1>6 DEF Succeed, Fail, Finalize
  <2> QED  BY <2>1, <1>1, <1>2 DEF Gone
<1>7. ASSUME NEW r \in Replicas, Crash(r) PROVE ExecsOK(execs')
    BY <1>7, <1>1 DEF Crash
<1> QED
    BY <1>1, <1>3, <1>4, <1>5, <1>6, <1>7
    DEF Next, Request, Continue, Work, Transfer, Trouble, Upload, Delete, QueuePush, QueueRearm,
        CancelPushes, FanOutDelete, ContinuationFails, Recover, FetchPeer, ResetFailed, LoopFails,
        Tick, BackoffEnds, PeerStale, PeerProbed, vars

----------------------------------------------------------------------------
(* Every step keeps the rest in order. *)

\* Rows can be counted, and a union is no larger than its parts together.
LEMMA KeyCounts ==
  /\ \A S \in SUBSET Keys : IsFiniteSet(S) /\ Cardinality(S) \in Nat
  /\ \A S, T \in SUBSET Keys : S \subseteq T => Cardinality(S) <= Cardinality(T)
  /\ \A S, T \in SUBSET Keys : Cardinality(S \cup T) <= Cardinality(S) + Cardinality(T)
<1>1. IsFiniteSet({"push", "delete"})
  <2>1. IsFiniteSet({"push"}) /\ IsFiniteSet({"delete"})
    BY FS_Singleton
  <2>2. {"push", "delete"} = {"push"} \cup {"delete"}
    OBVIOUS
  <2> QED  BY <2>1, <2>2, FS_Union
<1>2. IsFiniteSet(Keys)
    BY <1>1, FS_Product, ConstantsAssumption DEF Keys
<1>3. \A S \in SUBSET Keys : IsFiniteSet(S) /\ Cardinality(S) \in Nat
    BY <1>2, FS_Subset, FS_CardinalityType
<1>4. ASSUME NEW S \in SUBSET Keys, NEW T \in SUBSET Keys, S \subseteq T
      PROVE  Cardinality(S) <= Cardinality(T)
    BY <1>3, <1>4, FS_Subset
<1>5. ASSUME NEW S \in SUBSET Keys, NEW T \in SUBSET Keys
      PROVE  Cardinality(S \cup T) <= Cardinality(S) + Cardinality(T)
  <2>1. Cardinality(S \cup T) = Cardinality(S) + Cardinality(T) - Cardinality(S \cap T)
    BY <1>3, FS_Union
  <2>2. /\ Cardinality(S \cap T) \in Nat /\ Cardinality(S) \in Nat /\ Cardinality(T) \in Nat
    BY <1>3
  <2> QED  BY <2>1, <2>2
<1> QED  BY <1>3, <1>4, <1>5

\* The peer rows a step may leave behind.
LEMMA PeerPut ==
  ASSUME RestOK, NEW n \in Int, NEW b \in BOOLEAN
  PROVE  /\ [peer EXCEPT !.active = NonNegative(n)] \in PeerRow
         /\ [peer EXCEPT !.backoff = b] \in PeerRow
         /\ [peer EXCEPT !.online = b] \in PeerRow
         /\ [online |-> peer.online, backoff |-> b, active |-> NonNegative(n)] \in PeerRow
<1>1. NonNegative(n) \in Nat
    BY DEF NonNegative
<1>2. [peer EXCEPT !.active = NonNegative(n)] \in PeerRow
    BY <1>1 DEF RestOK, PeerRow
<1>3. [peer EXCEPT !.backoff = b] \in PeerRow
    BY DEF RestOK, PeerRow
<1>4. [peer EXCEPT !.online = b] \in PeerRow
    BY DEF RestOK, PeerRow
<1>5. [online |-> peer.online, backoff |-> b, active |-> NonNegative(n)] \in PeerRow
    BY <1>1 DEF RestOK, PeerRow
<1> QED  BY <1>2, <1>3, <1>4, <1>5

\* Every step keeps artifacts, continuations, the peer row, what the peer holds
\* and the loops well typed.
LEMMA RestStep ==
  ASSUME RowsOK(task), ExecsOK(execs), RestOK, [Next]_vars
  PROVE  RestOK'
<1> USE ConstantsAssumption
<1>0. peer.active \in Nat
    BY DEF RestOK, PeerRow
<1>1. ASSUME NEW a \in Artifacts, Upload(a) \/ Delete(a) PROVE RestOK'
  <2>1. art[a] \in [deleted : BOOLEAN, ver : 0..MaxVer]
    BY DEF RestOK
  <2>2. PICK row \in [deleted : BOOLEAN, ver : 0..MaxVer] : art' = [art EXCEPT ![a] = row]
    <3>1. CASE Upload(a)
      <4>1. [deleted |-> FALSE, ver |-> art[a].ver + 1] \in [deleted : BOOLEAN, ver : 0..MaxVer]
        BY <3>1, <2>1 DEF Upload
      <4> QED  BY <4>1, <3>1 DEF Upload
    <3>2. CASE Delete(a)
      <4>1. [art[a] EXCEPT !.deleted = TRUE] \in [deleted : BOOLEAN, ver : 0..MaxVer]
        BY <2>1
      <4> QED  BY <4>1, <3>2 DEF Delete
    <3> QED  BY <1>1, <3>1, <3>2
  <2>3. art' \in [Artifacts -> [deleted : BOOLEAN, ver : 0..MaxVer]]
    BY <2>2 DEF RestOK
  <2> QED  BY <2>3, <1>1 DEF Upload, Delete, RestOK
<1>2. ASSUME NEW a \in Artifacts, QueuePush(a) \/ QueueRearm(a) \/ FanOutDelete(a) \/ ContinuationFails(a)
      PROVE  RestOK'
    BY <1>2 DEF QueuePush, QueueRearm, FanOutDelete, ContinuationFails, RestOK
<1>3. ASSUME NEW a \in Artifacts, CancelPushes(a) PROVE RestOK'
    BY <1>3 DEF CancelPushes, RestOK
<1>4. ASSUME NEW r \in Replicas, Recover(r) PROVE RestOK'
  <2> DEFINE lapsed == {k \in Keys : task[k].status = "in_progress" /\ task[k].left = 0}
  <2>1. Cardinality(lapsed) \in Nat
    BY KeyCounts
  <2>2. peer' = [peer EXCEPT !.active = NonNegative(peer.active - Cardinality(lapsed))]
    BY <1>4 DEF Recover
  <2> HIDE DEF lapsed
  <2>3. peer.active - Cardinality(lapsed) \in Int
    BY <2>1, <1>0
  <2>4. peer' \in PeerRow
    BY <2>2, <2>3, PeerPut
  <2> QED  BY <2>4, <1>4 DEF Recover, Goto, RestOK
<1>5. ASSUME NEW r \in Replicas, FetchPeer(r) PROVE RestOK'
    BY <1>5, <1>0 DEF FetchPeer, RestOK
<1>6. ASSUME NEW r \in Replicas, ResetFailed(r) PROVE RestOK'
    BY <1>6 DEF ResetFailed, RestOK
<1>7. ASSUME NEW r \in Replicas, Claim(r) \/ LoopFails(r) \/ Crash(r) PROVE RestOK'
  <2>1. UNCHANGED <<art, later, todo, peer, remote>>
    BY <1>7 DEF Claim, LoopFails, Crash
  <2>2. \/ loop' = [loop EXCEPT ![r] = [pc |-> "idle", slots |-> 0]]
        \/ loop' = [loop EXCEPT ![r].pc = "recovered"]
    BY <1>7 DEF Claim, LoopFails, Crash, Goto
  <2> DEFINE LoopRow == [pc : {"idle", "recovered", "fetched", "ready"}, slots : Int]
  <2>3. loop[r] \in LoopRow /\ loop \in [Replicas -> LoopRow]
    BY DEF RestOK
  <2>4. [loop[r] EXCEPT !.pc = "recovered"] \in LoopRow /\ [pc |-> "idle", slots |-> 0] \in LoopRow
    BY <2>3
  <2> HIDE DEF LoopRow
  <2>5. loop' \in [Replicas -> LoopRow]
    BY <2>2, <2>3, <2>4
  <2> QED  BY <2>1, <2>5 DEF RestOK, LoopRow
<1>8. ASSUME NEW e \in execs, FilterOut(e) \/ Succeed(e) \/ Fail(e) PROVE RestOK'
  <2>1. e.key[1] \in Artifacts /\ e.key[2] \in {"push", "delete"}
    BY KeyFacts DEF ExecsOK, Exec
  <2> QED  BY <2>1, <1>8 DEF FilterOut, Succeed, Fail, Finalize, RestOK
<1>9. ASSUME NEW e \in execs, Begin(e) PROVE RestOK'
  <2>1. peer' = [peer EXCEPT !.active = NonNegative(peer.active + 1)]
    BY <1>9, <1>0 DEF Begin, NonNegative
  <2>2. peer.active + 1 \in Int
    BY <1>0
  <2>3. peer' \in PeerRow
    BY <2>1, <2>2, PeerPut
  <2> QED  BY <2>3, <1>9 DEF Begin, RestOK
<1>10. ASSUME NEW e \in execs, Deliver(e) PROVE RestOK'
  <2>1. e.key[1] \in Artifacts /\ e.ver \in 0..MaxVer
    BY KeyFacts DEF ExecsOK, Exec
  <2> QED  BY <2>1, <1>10 DEF Deliver, RestOK
<1>11. ASSUME NEW e \in execs, SettleSuccess(e) \/ SettleFailure(e) PROVE RestOK'
  <2>1. peer.active - 1 \in Int
    BY <1>0
  <2>2. peer' \in PeerRow
    BY <2>1, <1>11, PeerPut DEF SettleSuccess, SettleFailure
  <2> QED  BY <2>2, <1>11 DEF SettleSuccess, SettleFailure, RestOK
<1>12. ASSUME NEW e \in execs, RearmIfSuperseded(e) \/ ExtendClaim(e) \/ GiveUp(e) \/ SettleFails(e)
       PROVE  RestOK'
    BY <1>12 DEF RearmIfSuperseded, ExtendClaim, GiveUp, SettleFails, RestOK
<1>13. CASE Tick
    BY <1>13 DEF Tick, RestOK
<1>14. CASE BackoffEnds \/ PeerStale \/ PeerProbed
  <2>1. 0 \in Int /\ TRUE \in BOOLEAN /\ FALSE \in BOOLEAN /\ RestOK
    OBVIOUS
  <2>2. \/ peer' = [peer EXCEPT !.backoff = FALSE]
        \/ peer' = [peer EXCEPT !.online = FALSE]
        \/ peer' = [peer EXCEPT !.online = TRUE]
    BY <1>14 DEF BackoffEnds, PeerStale, PeerProbed
  <2>3. peer' \in PeerRow
    BY <2>1, <2>2, PeerPut
  <2> QED  BY <2>3, <1>14 DEF BackoffEnds, PeerStale, PeerProbed, RestOK
<1>15. CASE UNCHANGED vars
    BY <1>15 DEF vars, RestOK
<1> QED
    BY <1>1, <1>2, <1>3, <1>4, <1>5, <1>6, <1>7, <1>8, <1>9, <1>10, <1>11, <1>12, <1>13, <1>14, <1>15
    DEF Next, Request, Continue, Work, Transfer, Trouble

----------------------------------------------------------------------------
(* The retry budget. *)

\* The initial state has an empty queue.
LEMMA InitOK == Init => TypeOK /\ RetryBudget
<1> SUFFICES ASSUME Init PROVE TypeOK /\ RetryBudget
    OBVIOUS
<1>1. NoRow \in Row /\ NoRow.status = "absent" /\ NoRow.token = None
    BY ConstantsAssumption DEF NoRow, Row, Statuses
<1>2. RowsOK(task)
    BY <1>1 DEF Init, RowsOK
<1>3. ExecsOK(execs)
    BY DEF Init, ExecsOK
<1>4. RestOK
    BY ConstantsAssumption DEF Init, RestOK, PeerRow
<1> QED  BY <1>2, <1>3, <1>4, InvParts

\* Type correctness and the retry budget together are inductive: the retry
\* count of a transfer bounds the one its failure writes, and the row's bounds
\* the transfer's when it is claimed.
THEOREM TypesAndBudget == Spec => [](TypeOK /\ RetryBudget)
<1>1. Init => TypeOK /\ RetryBudget
    BY InitOK
<1>2. TypeOK /\ RetryBudget /\ [Next]_vars => (TypeOK /\ RetryBudget)'
    BY InvParts, InvPartsPrime, RowsStep, ExecsStep, RestStep
<1> QED  BY <1>1, <1>2, PTL DEF Spec

\* No row is queued or worked on, by any number of replicas and with any
\* faults, once its attempts are used up (process_pending_tasks,
\* handle_transfer_failure, recover_expired_sync_task_claims).
THEOREM RetriesBounded == Spec => []RetryBudget
  BY TypesAndBudget, PTL

\* Every state of the queue is well typed, and a row carries a claim token
\* exactly while it is in progress.
THEOREM TypeCorrect == Spec => []TypeOK
  BY TypesAndBudget, PTL

----------------------------------------------------------------------------
(* Claim fencing. *)

\* A row whose claim is live keeps its token in every step but the finalizer of
\* the transfer that carries the token.
LEMMA FencedByToken ==
  ASSUME RowsOK(task), ExecsOK(execs), RestOK, [Next]_vars
  PROVE  ClaimEndsByOwner
<1> USE ConstantsAssumption
<1> SUFFICES ASSUME NEW k \in LiveClaims, task'[k].token # task[k].token
             PROVE  \E e \in execs \ execs' : e.key = k /\ e.token = task[k].token
    BY DEF ClaimEndsByOwner
<1>k. k \in Keys /\ task[k].status = "in_progress" /\ task[k].left > 0
    BY DEF LiveClaims
<1>t. task \in [Keys -> Row] /\ DOMAIN task = Keys
    BY DEF RowsOK
<1>r. ASSUME NEW a \in Artifacts, NEW v PROVE Rearmed(a, v)[k] = task[k]
    BY <1>k, <1>t, KeyFacts DEF Rearmed, Superseded
<1>1. ASSUME NEW a \in Artifacts, QueuePush(a) \/ QueueRearm(a) \/ CancelPushes(a) \/ FanOutDelete(a)
      PROVE  FALSE
    BY <1>1, <1>k, <1>t, <1>r, KeyFacts DEF QueuePush, QueueRearm, CancelPushes, FanOutDelete
<1>2. ASSUME NEW r \in Replicas, Recover(r) \/ ResetFailed(r) PROVE FALSE
    BY <1>2, <1>k DEF Recover, ResetFailed, Retriable
<1>3. ASSUME NEW r \in Replicas, Claim(r) PROVE FALSE
    BY <1>3, <1>k DEF Claim, Claimable
<1>4. ASSUME NEW e \in execs, FilterOut(e)
      PROVE  \E f \in execs \ execs' : f.key = k /\ f.token = task[k].token
    BY <1>4, <1>k, <1>t DEF FilterOut, Owns, Gone
<1>5. ASSUME NEW e \in execs, Succeed(e) \/ Fail(e)
      PROVE  \E f \in execs \ execs' : f.key = k /\ f.token = task[k].token
  <2>1. PICK s \in {"succeeded", "failed"} : \E row : Finalize(e, row, s)
    BY <1>5 DEF Succeed, Fail
  <2>2. Owns(e) /\ (\E row : task' = [task EXCEPT ![e.key] = row]) /\ Move(e, s)
    BY <2>1, <1>k DEF Finalize
  <2>3. e.key = k /\ e.token = task[k].token
    BY <2>2, <1>k, <1>t DEF Owns
  <2>4. e \in Exec /\ e.pc \in {"running", "delivered"}
    BY <1>5 DEF Succeed, Fail, ExecsOK
  <2>5. [e EXCEPT !.pc = s].pc = s
    BY <2>4 DEF Exec
  <2>6. e \notin execs'
    BY <2>2, <2>4, <2>5 DEF Move
  <2> QED  BY <2>3, <2>6
<1>6. ASSUME NEW e \in execs, ExtendClaim(e) PROVE FALSE
  <2>1. task'[k] = task[k] \/ (e.key = k /\ task'[k] = ClaimedRow(task[k].retries, e.token))
    BY <1>6, <1>k, <1>t DEF ExtendClaim
  <2>2. ClaimedRow(task[k].retries, e.token).token = e.token
    BY DEF ClaimedRow
  <2> QED  BY <2>1, <2>2, <1>6 DEF ExtendClaim, Owns
<1>7. ASSUME NEW e \in execs, RearmIfSuperseded(e) PROVE FALSE
  <2>1. e.key[1] \in Artifacts
    BY KeyFacts DEF ExecsOK, Exec
  <2> QED  BY <2>1, <1>7, <1>r DEF RearmIfSuperseded
<1>8. CASE Tick
  <2>1. task[k] \in Row /\ task'[k] = [task[k] EXCEPT !.left = NonNegative(@ - 1)]
    BY <1>8, <1>k, <1>t DEF Tick
  <2> QED  BY <2>1 DEF Row
<1>9. ASSUME task' = task PROVE FALSE
    BY <1>9
<1> QED
    BY <1>1, <1>2, <1>3, <1>4, <1>5, <1>6, <1>7, <1>8, <1>9
    DEF Next, Request, Continue, Work, Transfer, Trouble, Upload, Delete, ContinuationFails,
        FetchPeer, LoopFails, Crash, Begin, Deliver, SettleSuccess, SettleFailure,
        GiveUp, SettleFails, BackoffEnds, PeerStale, PeerProbed, vars

\* With any number of replicas and any faults, crashes and expired claims
\* included, a live claim is ended only by the transfer that carries its token
\* (the finalizers of sync_worker.rs).
THEOREM ClaimFencing == Spec => LiveClaimFenced
<1>1. TypeOK /\ RetryBudget /\ [Next]_vars => [ClaimEndsByOwner]_vars
    BY InvParts, FencedByToken
<1> QED  BY <1>1, TypesAndBudget, PTL DEF Spec, LiveClaimFenced
=============================================================================
