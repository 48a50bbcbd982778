----------------------- MODULE SyncQueueSteadyProofs ------------------------
(***************************************************************************)
(* Theorems about SyncQueue that need some faults to be absent: the limit  *)
(* of live claims, the workers behind them, the counter of transfers, and  *)
(* that the peer holds what was uploaded.  All are for any number of       *)
(* artifacts, replicas, versions and retries.                              *)
(***************************************************************************)
EXTENDS SyncQueueProofs

\* Expired claims are recovered before anything is claimed: the statement works
\* and no loop is held up between it and the claim for as long as a claim lasts.
Prompt == "recover" \notin Faults /\ "pause" \notin Faults

\* No transfer is lost with its claim.
NoneLost == "crash" \notin Faults /\ "db" \notin Faults /\ "init" \notin Faults

\* Claims do not expire.
NoneExpires == "stall" \notin Faults

\* Requests for one artifact work one after the other, and deliveries go to the
\* peer.
Orderly == "overlap" \notin Faults /\ "scored" \notin Faults

Claims == {k \in Keys : task[k].status = "in_progress"}

\* All claims count, expired ones too: ExtendClaim may revive those.  While a
\* loop is past its recovery there are no expired ones.
ClaimsCapped ==
    /\ Cardinality(Claims) <= Limit
    /\ (\E r \in Replicas : ~At(r, "idle")) => Claims \subseteq LiveClaims

\* A transfer that has not yet finalized its row.
UnderWay(e) == e.pc \in {"spawned", "running", "delivered"}

TokensApart == \A e, f \in execs : e.token = f.token => e = f

\* Behind every claim is a transfer under way.
Worked ==
    \A k \in Keys : task[k].status = "in_progress" =>
        \E e \in execs : e.key = k /\ e.token = task[k].token /\ UnderWay(e)

\* Transfers under way still have their claims, none of which is expired.
StillOwned ==
    /\ \A k \in Keys : task[k].status = "in_progress" => task[k].left > 0
    /\ \A e \in execs : UnderWay(e) => Owns(e)

Live(a) == ~art[a].deleted

\* The delete's continuations are at work only while the artifact is deleted.
DeletesInTurn ==
    \A a \in Artifacts : <<a, "cancel">> \in todo \/ <<a, "fanout">> \in todo => art[a].deleted

\* A push sends a version there has been; while it is the current one no delete
\* is in its way, and once delivered the peer has it.
PushesCurrent ==
    \A e \in execs : \A a \in Artifacts : e.key = PushOf(a) =>
        /\ e.ver <= art[a].ver
        /\ task[PushOf(a)].status # "absent"
        /\ Live(a) /\ e.ver = art[a].ver => ~ActiveDelete(a)
        /\ Live(a) /\ e.ver = art[a].ver /\ e.pc = "delivered" => remote[a] = e.ver

\* The peer has the current version, or a transfer is about to send it, and no
\* delete will take it away.
HeldOrSent(a) ==
    /\ ~ActiveDelete(a)
    /\ \/ remote[a] = art[a].ver
       \/ \E e \in execs : e.key = PushOf(a) /\ e.ver = art[a].ver /\ e.pc \in {"spawned", "running"}

\* What still brings the current version of a to the peer.
Promised(a) ==
    \/ <<a, "queue">> \in todo
    \/ <<a, "rearm">> \in todo /\ task[PushOf(a)].status # "absent"
    \/ task[PushOf(a)].status \in {"pending", "failed"}
    \/ \E e \in execs : e.key = PushOf(a) /\ e.ver # art[a].ver
    \/ HeldOrSent(a)

UploadsPromised == \A a \in Artifacts \ Filtered : Live(a) => art[a].ver # 0 /\ Promised(a)

----------------------------------------------------------------------------
(* Where claims come from and how they end. *)

\* Only claim_pending_sync_tasks claims a row; time and extensions change how
\* long a claim has left, everything else leaves a claim as it is or ends it.
LEMMA ClaimOrigin ==
  ASSUME RowsOK(task), ExecsOK(execs), [Next]_vars,
         NEW k \in Keys, task'[k].status = "in_progress"
  PROVE  \/ \E r \in Replicas : Claim(r)
         \/ Tick /\ task[k].status = "in_progress" /\ task'[k].token = task[k].token
         \/ /\ task[k].status = "in_progress"
            /\ task'[k].token = task[k].token
            /\ task'[k].left \in {task[k].left, ClaimTTL}
<1> DEFINE Kept == /\ task[k].status = "in_progress"
                   /\ task'[k].token = task[k].token
                   /\ task'[k].left \in {task[k].left, ClaimTTL}
<1>t. task \in [Keys -> Row] /\ DOMAIN task = Keys
    BY DEF RowsOK
<1>r. ASSUME NEW n, NEW s \in {"completed", "failed", "cancelled"}
      PROVE  Requeued(n).status = "pending" /\ Settled(s, n).status = s
    BY DEF Requeued, Settled
<1>s. ASSUME task' = task PROVE Kept
    BY <1>s
<1>1. ASSUME NEW a \in Artifacts, NEW v, task' = Rearmed(a, v) PROVE Kept
    BY <1>1, <1>t, <1>r, KeyFacts DEF Rearmed
<1>2. ASSUME NEW a \in Artifacts, QueuePush(a) \/ QueueRearm(a) \/ CancelPushes(a) \/ FanOutDelete(a)
      PROVE  Kept
    BY <1>2, <1>1, <1>t, <1>r, KeyFacts DEF QueuePush, QueueRearm, CancelPushes, FanOutDelete
<1>3. ASSUME NEW r \in Replicas, Recover(r) \/ ResetFailed(r) PROVE Kept
    BY <1>3, <1>r DEF Recover, ResetFailed
<1>4. ASSUME NEW e \in execs, FilterOut(e) \/ Succeed(e) \/ Fail(e) PROVE Kept
  <2>1. PICK s \in {"completed", "failed"} : \E n :
            task' = task \/ task' = [task EXCEPT ![e.key] = Settled(s, n)]
    BY <1>4 DEF FilterOut, Succeed, Fail, Finalize
  <2> QED  BY <2>1, <1>t, <1>r
<1>5. ASSUME NEW e \in execs, ExtendClaim(e) PROVE Kept
  <2>1. task[e.key].status = "in_progress" /\ task[e.key].token = e.token
    BY <1>5 DEF ExtendClaim, Owns
  <2>2. task'[k] = task[k] \/ (k = e.key /\ task'[k] = ClaimedRow(task[k].retries, e.token))
    BY <1>5, <1>t DEF ExtendClaim
  <2> QED  BY <2>1, <2>2 DEF ClaimedRow
<1>6. ASSUME NEW e \in execs, RearmIfSuperseded(e) PROVE Kept
  <2>1. e.key[1] \in Artifacts
    BY KeyFacts DEF ExecsOK, Exec
  <2> QED  BY <2>1, <1>6, <1>1, <1>s DEF RearmIfSuperseded
<1>7. ASSUME Tick PROVE task[k].status = "in_progress" /\ task'[k].token = task[k].token
  <2>1. task[k] \in Row /\ task'[k] = [task[k] EXCEPT !.left = NonNegative(@ - 1)]
    BY <1>7, <1>t DEF Tick
  <2> QED  BY <2>1 DEF Row
<1> HIDE DEF Kept
<1>8. (\E r \in Replicas : Claim(r)) \/ Tick \/ Kept
    BY <1>s, <1>2, <1>3, <1>4, <1>5, <1>6
    DEF Next, Request, Continue, Work, Transfer, Trouble, Upload, Delete, ContinuationFails,
        FetchPeer, LoopFails, Crash, Begin, Deliver, SettleSuccess, SettleFailure,
        GiveUp, SettleFails, BackoffEnds, PeerStale, PeerProbed, vars
<1> QED  BY <1>7, <1>8 DEF Kept

----------------------------------------------------------------------------
(* The limit of live claims. *)

\* Every step keeps the number of claims, expired ones included, within the limit.
LEMMA CapStep ==
  ASSUME RowsOK(task), ExecsOK(execs), RestOK, RowsOK(task'), Prompt, ClaimsCapped, [Next]_vars
  PROVE  ClaimsCapped'
<1> USE ConstantsAssumption
<1> DEFINE Busy == \E r \in Replicas : ~At(r, "idle")
<1>t. task \in [Keys -> Row] /\ task' \in [Keys -> Row]
    BY DEF RowsOK
<1>c. Claims \in SUBSET Keys /\ Claims' \in SUBSET Keys
    BY DEF Claims
<1>n. Cardinality(Claims) \in Nat /\ Cardinality(Claims') \in Nat
    BY <1>c, KeyCounts
<1>1. ASSUME NEW r \in Replicas, Claim(r) PROVE ClaimsCapped'
  <2>1. Claims = LiveClaims
    BY <1>1 DEF Claim, At, ClaimsCapped, Claims, LiveClaims
  <2>2. PICK S \in SUBSET {k \in Keys : Claimable(k)} :
          /\ Cardinality(S) <= ClaimRoom(loop[r].slots)
          /\ \E tokenOf \in [S -> Tokens \ UsedTokens] :
               task' = [k \in Keys |-> IF k \in S THEN ClaimedRow(task[k].retries, tokenOf[k]) ELSE task[k]]
    BY <1>1 DEF Claim
  <2>3. \A k \in Keys : task'[k] = task[k] \/ (k \in S /\ task'[k].status = "in_progress" /\ task'[k].left = ClaimTTL)
    BY <2>2 DEF ClaimedRow
  <2>4. Claims' \subseteq Claims \cup S
    BY <2>3 DEF Claims
  <2>5. S \in SUBSET Keys /\ Cardinality(S) \in Nat
    BY KeyCounts
  <2>6. Cardinality(Claims \cup S) \in Nat /\ Cardinality(Claims') <= Cardinality(Claims \cup S)
    BY <2>4, <2>5, <1>c, KeyCounts
  <2>7. Cardinality(Claims \cup S) <= Cardinality(Claims) + Cardinality(S)
    BY <2>5, <1>c, KeyCounts
  <2>8. Cardinality(S) <= Limit - Cardinality(Claims)
    <3>1. loop[r].slots \in Int
      BY DEF RestOK
    <3>2. Cardinality(Claims) <= Limit
      BY DEF ClaimsCapped
    <3> QED  BY <2>1, <2>2, <2>5, <3>1, <3>2, <1>n DEF ClaimRoom, NonNegative
  <2>9. Cardinality(Claims') <= Limit
    BY <2>5, <2>6, <2>7, <2>8, <1>n
  <2>10. (Claims \subseteq LiveClaims)'
    BY <2>1, <2>3 DEF Claims, LiveClaims
  <2> QED  BY <2>9, <2>10 DEF ClaimsCapped
<1>2. CASE Tick
  <2>1. ~Busy'
    BY <1>2 DEF Tick, NobodyPaused, Prompt, At
  <2>2. \A k \in Keys : task'[k].status = task[k].status
    BY <1>2, <1>t DEF Tick, Row
  <2>3. Claims' = Claims
    BY <2>2 DEF Claims
  <2> QED  BY <2>1, <2>3 DEF ClaimsCapped
<1>3. ASSUME ~\E r \in Replicas : Claim(r), ~Tick PROVE Cardinality(Claims') <= Limit
  <2>1. Claims' \subseteq Claims
    BY <1>3, ClaimOrigin DEF Claims
  <2> QED  BY <2>1, <1>c, <1>n, KeyCounts DEF ClaimsCapped
<1>4. ASSUME ~\E r \in Replicas : Claim(r), ~Tick, Busy PROVE (Claims \subseteq LiveClaims)'
  <2>1. SUFFICES ASSUME NEW k \in Keys, task'[k].status = "in_progress" PROVE task'[k].left > 0
    BY DEF Claims, LiveClaims
  <2>2. task[k].status = "in_progress" /\ task'[k].left \in {task[k].left, ClaimTTL}
    BY <1>4, <2>1, ClaimOrigin
  <2>3. task[k].left > 0
    BY <1>4, <2>2 DEF ClaimsCapped, Claims, LiveClaims
  <2> QED  BY <2>2, <2>3
<1>5. ASSUME NEW r \in Replicas, Recover(r) PROVE (Claims \subseteq LiveClaims)'
  <2>1. \A k \in Keys : task'[k].status = "in_progress" => task'[k].left # 0
    BY <1>5 DEF Recover, Requeued
  <2>2. \A k \in Keys : task'[k].left \in Nat
    BY <1>t DEF Row
  <2> QED  BY <2>1, <2>2 DEF Claims, LiveClaims
<1>6. ASSUME ~\E r \in Replicas : Recover(r) PROVE Busy' => Busy
  <2>1. ASSUME NEW r \in Replicas, FetchPeer(r) \/ ResetFailed(r) \/ Claim(r) PROVE Busy
    BY <2>1 DEF FetchPeer, ResetFailed, Claim, At
  <2>2. ASSUME NEW r \in Replicas, LoopFails(r) \/ Crash(r) PROVE Busy' => Busy
    BY <2>2 DEF LoopFails, Crash, At, Prompt, RestOK
  <2>3. ASSUME loop' = loop PROVE Busy' => Busy
    BY <2>3 DEF At
  <2> HIDE DEF Busy
  <2> QED
    BY <1>6, <2>1, <2>2, <2>3
    DEF Next, Request, Continue, Work, Transfer, Trouble, Upload, Delete, QueuePush, QueueRearm,
        CancelPushes, FanOutDelete, ContinuationFails, FilterOut, Begin, Deliver, Succeed, Fail,
        Finalize, SettleSuccess, SettleFailure, RearmIfSuperseded, ExtendClaim, GiveUp, SettleFails,
        Tick, BackoffEnds, PeerStale, PeerProbed, vars
<1> QED  BY <1>1, <1>2, <1>3, <1>4, <1>5, <1>6 DEF ClaimsCapped

\* "Making the cap hard": however many replicas claim for the peer, and whatever
\* crashes or fails, it has no more live claims than its limit.  Every claim has
\* to count, since extend_sync_task_claim revives an expired one; so a loop must
\* recover the expired claims before it claims, and not be held up in between.
THEOREM CapIsHard ==
  ASSUME Prompt
  PROVE  Spec => []CapHeld
<1>1. Init => ClaimsCapped
  <2> SUFFICES ASSUME Init PROVE ClaimsCapped
    OBVIOUS
  <2>1. Claims = {}
    BY DEF Init, NoRow, Claims
  <2>2. Cardinality(Claims) = 0
    BY <2>1, FS_EmptySet
  <2> QED  BY <2>1, <2>2, ConstantsAssumption DEF ClaimsCapped
<1>2. TypeOK /\ RetryBudget /\ (TypeOK /\ RetryBudget)' /\ ClaimsCapped /\ [Next]_vars => ClaimsCapped'
    BY InvParts, InvPartsPrime, CapStep
<1>3. ClaimsCapped => CapHeld
  <2>1. LiveClaims \in SUBSET Keys /\ Claims \in SUBSET Keys /\ LiveClaims \subseteq Claims
    BY DEF LiveClaims, Claims
  <2>2. /\ Cardinality(LiveClaims) \in Nat /\ Cardinality(Claims) \in Nat
        /\ Cardinality(LiveClaims) <= Cardinality(Claims)
    BY <2>1, KeyCounts
  <2> QED  BY <2>2, ConstantsAssumption DEF ClaimsCapped, CapHeld
<1> QED  BY <1>1, <1>2, <1>3, TypesAndBudget, PTL DEF Spec

----------------------------------------------------------------------------
(* The workers behind the claims. *)

\* A transfer that moves to another stage is otherwise the same.
LEMMA MovedFacts ==
  ASSUME NEW e \in Exec, NEW s \in {"running", "delivered", "succeeded", "failed", "rearm"}
  PROVE  LET f == [e EXCEPT !.pc = s]
         IN  f \in Exec /\ f.key = e.key /\ f.token = e.token /\ f.ver = e.ver /\ f.pc = s
  BY DEF Exec

\* The four things that happen to the set of transfers.
LEMMA ExecChange ==
  ASSUME NoneLost, [Next]_vars
  PROVE  \/ execs' = execs
         \/ \E r \in Replicas : Claim(r)
         \/ \E e \in execs :
               \/ (FilterOut(e) \/ RearmIfSuperseded(e)) /\ Gone(e)
               \/ (Succeed(e) \/ Fail(e)) /\ ~Owns(e) /\ Gone(e)
               \/ Begin(e) /\ Move(e, "running")
               \/ Deliver(e) /\ Move(e, "delivered")
               \/ Succeed(e) /\ Owns(e) /\ Move(e, "succeeded")
               \/ Fail(e) /\ Owns(e) /\ Move(e, "failed")
               \/ (SettleSuccess(e) \/ SettleFailure(e)) /\ Move(e, "rearm")
<1>1. ASSUME NEW e \in execs, Succeed(e) \/ Fail(e)
      PROVE  \/ ~Owns(e) /\ Gone(e)
             \/ Succeed(e) /\ Owns(e) /\ Move(e, "succeeded")
             \/ Fail(e) /\ Owns(e) /\ Move(e, "failed")
    BY <1>1, Zenon DEF Succeed, Fail, Finalize
<1>2. ASSUME NEW e \in execs, Transfer(e)
      PROVE  \/ (FilterOut(e) \/ RearmIfSuperseded(e)) /\ Gone(e)
             \/ Succeed(e)
             \/ Begin(e) /\ Move(e, "running")
             \/ Deliver(e) /\ Move(e, "delivered")
             \/ (SettleSuccess(e) \/ SettleFailure(e)) /\ Move(e, "rearm")
    BY <1>2, Zenon DEF Transfer, FilterOut, RearmIfSuperseded, Begin, Deliver, SettleSuccess, SettleFailure
<1>3. ASSUME NEW e \in execs, Trouble(e) PROVE Fail(e) \/ execs' = execs
    BY <1>3 DEF Trouble, ExtendClaim, GiveUp, SettleFails, NoneLost
<1>4. ASSUME NEW r \in Replicas, Work(r) \/ LoopFails(r) \/ Crash(r) PROVE Claim(r) \/ execs' = execs
    BY <1>4 DEF Work, Recover, FetchPeer, ResetFailed, LoopFails, Crash, NoneLost
<1>5. ASSUME NEW a \in Artifacts, Request(a) \/ Continue(a) \/ ContinuationFails(a) PROVE execs' = execs
    BY <1>5 DEF Request, Continue, Upload, Delete, QueuePush, QueueRearm, CancelPushes, FanOutDelete,
                ContinuationFails
<1>6. CASE Tick \/ BackoffEnds \/ PeerStale \/ PeerProbed \/ UNCHANGED vars
    BY <1>6 DEF Tick, BackoffEnds, PeerStale, PeerProbed, vars
<1> QED  BY <1>1, <1>2, <1>3, <1>4, <1>5, <1>6 DEF Next

\* A claim without a lost answer: rows and transfers get the same fresh tokens.
LEMMA ClaimFacts ==
  ASSUME NoneLost, NEW r \in Replicas, Claim(r)
  PROVE  \E S \in SUBSET {k \in Keys : Claimable(k)} : \E tokenOf \in [S -> Tokens \ UsedTokens] :
            /\ \A j, k \in S : j # k => tokenOf[j] # tokenOf[k]
            /\ task' = [k \in Keys |-> IF k \in S THEN ClaimedRow(task[k].retries, tokenOf[k]) ELSE task[k]]
            /\ execs' = execs \cup {NewExec(r, k, tokenOf[k]) : k \in S}
  BY DEF Claim, NoneLost

\* Every step keeps the tokens of transfers apart.
LEMMA ApartStep ==
  ASSUME ExecsOK(execs), NoneLost, TokensApart, [Next]_vars
  PROVE  TokensApart'
<1>1. ASSUME execs' \subseteq execs PROVE TokensApart'
    BY <1>1 DEF TokensApart
<1>2. ASSUME NEW e \in execs, NEW s \in {"running", "delivered", "succeeded", "failed", "rearm"},
             Move(e, s)
      PROVE  TokensApart'
  <2> DEFINE f == [e EXCEPT !.pc = s]
  <2>1. f.token = e.token
    BY MovedFacts DEF ExecsOK
  <2>2. execs' = (execs \ {e}) \cup {f}
    BY <1>2 DEF Move
  <2> HIDE DEF f
  <2> QED  BY <2>1, <2>2 DEF TokensApart
<1>3. ASSUME NEW r \in Replicas, Claim(r) PROVE TokensApart'
  <2>1. PICK S \in SUBSET {k \in Keys : Claimable(k)} : \E tokenOf \in [S -> Tokens \ UsedTokens] :
            /\ \A j, k \in S : j # k => tokenOf[j] # tokenOf[k]
            /\ execs' = execs \cup {NewExec(r, k, tokenOf[k]) : k \in S}
    BY <1>3, ClaimFacts
  <2>2. PICK tokenOf \in [S -> Tokens \ UsedTokens] :
            /\ \A j, k \in S : j # k => tokenOf[j] # tokenOf[k]
            /\ execs' = execs \cup {NewExec(r, k, tokenOf[k]) : k \in S}
    BY <2>1
  <2>3. \A k \in S : NewExec(r, k, tokenOf[k]).token = tokenOf[k] /\ tokenOf[k] \notin {e.token : e \in execs}
    BY <2>2 DEF NewExec, UsedTokens
  <2> QED  BY <2>2, <2>3 DEF TokensApart
<1> QED  BY <1>1, <1>2, <1>3, ExecChange DEF Gone

\* A transfer under way leaves that state with its claim, or not at all.
LEMMA WorkStep ==
  ASSUME RowsOK(task), ExecsOK(execs), NoneLost, Worked, [Next]_vars
  PROVE  Worked'
<1> SUFFICES ASSUME NEW k \in Keys, task'[k].status = "in_progress"
             PROVE  \E e \in execs' : e.key = k /\ e.token = task'[k].token /\ UnderWay(e)
    BY DEF Worked, UnderWay
<1>1. ASSUME NEW r \in Replicas, Claim(r)
      PROVE  \E e \in execs' : e.key = k /\ e.token = task'[k].token /\ UnderWay(e)
  <2>1. PICK S \in SUBSET {j \in Keys : Claimable(j)} : \E tokenOf \in [S -> Tokens \ UsedTokens] :
            /\ task' = [j \in Keys |-> IF j \in S THEN ClaimedRow(task[j].retries, tokenOf[j]) ELSE task[j]]
            /\ execs' = execs \cup {NewExec(r, j, tokenOf[j]) : j \in S}
    BY <1>1, ClaimFacts
  <2>2. PICK tokenOf \in [S -> Tokens \ UsedTokens] :
            /\ task' = [j \in Keys |-> IF j \in S THEN ClaimedRow(task[j].retries, tokenOf[j]) ELSE task[j]]
            /\ execs' = execs \cup {NewExec(r, j, tokenOf[j]) : j \in S}
    BY <2>1
  <2>3. CASE k \in S
    <3>1. task'[k].token = tokenOf[k] /\ NewExec(r, k, tokenOf[k]) \in execs'
      BY <2>2, <2>3 DEF ClaimedRow
    <3> QED  BY <3>1 DEF NewExec, UnderWay
  <2>4. CASE k \notin S
    BY <2>2, <2>4 DEF Worked
  <2> QED  BY <2>3, <2>4
<1>2. ASSUME ~\E r \in Replicas : Claim(r)
      PROVE  \E e \in execs' : e.key = k /\ e.token = task'[k].token /\ UnderWay(e)
  <2>1. task[k].status = "in_progress" /\ task'[k].token = task[k].token
    BY <1>2, ClaimOrigin
  <2>2. PICK e \in execs : e.key = k /\ e.token = task[k].token /\ UnderWay(e)
    BY <2>1 DEF Worked
  <2>3. Owns(e) /\ e \in Exec
    BY <2>1, <2>2 DEF Owns, ExecsOK
  <2>4. ~(FilterOut(e) \/ Succeed(e) \/ Fail(e))
    BY <2>1, <2>2, <2>3 DEF FilterOut, Succeed, Fail, Finalize, Settled, RowsOK
  <2>5. ASSUME NEW s \in {"running", "delivered"}, Move(e, s)
        PROVE  \E f \in execs' : f.key = k /\ f.token = task'[k].token /\ UnderWay(f)
    <3> DEFINE f == [e EXCEPT !.pc = s]
    <3>1. f \in execs' /\ f.key = k /\ f.token = task'[k].token /\ UnderWay(f)
      BY <2>1, <2>2, <2>3, <2>5, MovedFacts DEF Move, UnderWay
    <3> QED  BY <3>1
  <2>6. CASE e \in execs'
    BY <2>1, <2>2, <2>6
  <2>7. CASE e \notin execs'
    <3>1. PICK g \in execs :
               \/ (FilterOut(g) \/ RearmIfSuperseded(g)) /\ Gone(g)
               \/ (Succeed(g) \/ Fail(g)) /\ ~Owns(g) /\ Gone(g)
               \/ Begin(g) /\ Move(g, "running")
               \/ Deliver(g) /\ Move(g, "delivered")
               \/ Succeed(g) /\ Owns(g) /\ Move(g, "succeeded")
               \/ Fail(g) /\ Owns(g) /\ Move(g, "failed")
               \/ (SettleSuccess(g) \/ SettleFailure(g)) /\ Move(g, "rearm")
      BY <1>2, <2>7, ExecChange, Zenon
    <3>2. g = e
      BY <2>7, <3>1 DEF Gone, Move
    <3> QED  BY <2>2, <2>4, <2>5, <3>1, <3>2
             DEF UnderWay, RearmIfSuperseded, SettleSuccess, SettleFailure
  <2> QED  BY <2>6, <2>7
<1> QED  BY <1>1, <1>2

\* Transfers have tokens of their own, and every claim has a transfer.
LEMMA WorkedHolds ==
  ASSUME NoneLost
  PROVE  Spec => [](TokensApart /\ Worked)
<1>1. Init => TokensApart /\ Worked
    BY DEF Init, NoRow, TokensApart, Worked
<1>2. TypeOK /\ RetryBudget /\ TokensApart /\ Worked /\ [Next]_vars => (TokensApart /\ Worked)'
    BY InvParts, ApartStep, WorkStep
<1> QED  BY <1>1, <1>2, TypesAndBudget, PTL DEF Spec

\* Unless a process dies, a statement fails or an upload session cannot be
\* opened, a claim and the slot of the peer that it takes are held only while a
\* transfer works on them: also when transfers fail, claims expire and are taken
\* again, and loops are paused.
THEOREM ClaimsAreWorked ==
  ASSUME NoneLost
  PROVE  Spec => []ClaimHasWorker
<1>1. Worked => ClaimHasWorker
    BY DEF Worked, ClaimHasWorker, LiveClaims
<1> QED  BY <1>1, WorkedHolds, PTL

----------------------------------------------------------------------------
(* The counter of transfers. *)

\* A transfer under way that moves on to another stage of its way.
OnItsWay(e) == Begin(e) \/ Deliver(e)

\* While claims do not expire, the transfers under way keep theirs.
LEMMA OwnedStep ==
  ASSUME RowsOK(task), ExecsOK(execs), RestOK, RowsOK(task'), NoneLost, NoneExpires,
         TokensApart, StillOwned, [Next]_vars
  PROVE  StillOwned'
<1> USE ConstantsAssumption
<1>1. ASSUME NEW k \in Keys, task'[k].status = "in_progress" PROVE task'[k].left > 0
  <2>1. CASE \E r \in Replicas : Claim(r)
    <3>1. PICK r \in Replicas : Claim(r)
      BY <2>1
    <3>2. task'[k] = task[k] \/ task'[k].left = ClaimTTL
      BY <3>1 DEF Claim, ClaimedRow
    <3> QED  BY <3>2, <1>1 DEF StillOwned
  <2>2. CASE ~\E r \in Replicas : Claim(r)
    <3>1. task[k].status = "in_progress" /\ task'[k].left \in {task[k].left, ClaimTTL}
      BY <1>1, <2>2, ClaimOrigin DEF Tick, NoneExpires
    <3> QED  BY <3>1 DEF StillOwned
  <2> QED  BY <2>1, <2>2
<1>2. ASSUME NEW e \in execs, e \in execs', UnderWay(e) PROVE Owns(e)'
  <2>1. e.key \in Keys /\ e.token \in Tokens /\ e.token # None
    BY DEF ExecsOK, Exec
  <2>2. task[e.key].status = "in_progress" /\ task[e.key].token = e.token /\ task[e.key].left > 0
    BY <1>2, <2>1 DEF StillOwned, Owns
  <2>3. task'[e.key].token = task[e.key].token
    <3>1. e.key \in LiveClaims
      BY <2>1, <2>2 DEF LiveClaims
    <3>2. ASSUME task'[e.key].token # task[e.key].token PROVE FALSE
      <4>1. PICK f \in execs \ execs' : f.key = e.key /\ f.token = task[e.key].token
        BY <3>1, <3>2, FencedByToken DEF ClaimEndsByOwner
      <4> QED  BY <4>1, <2>2, <1>2 DEF TokensApart
    <3> QED  BY <3>2
  <2>4. task'[e.key].status = "in_progress"
    BY <2>1, <2>2, <2>3 DEF RowsOK
  <2> QED  BY <2>2, <2>3, <2>4 DEF Owns
<1>3. ASSUME NEW r \in Replicas, Claim(r), NEW f \in execs', f \notin execs PROVE Owns(f)'
  <2>1. PICK S \in SUBSET {k \in Keys : Claimable(k)} : \E tokenOf \in [S -> Tokens \ UsedTokens] :
            /\ task' = [k \in Keys |-> IF k \in S THEN ClaimedRow(task[k].retries, tokenOf[k]) ELSE task[k]]
            /\ execs' = execs \cup {NewExec(r, k, tokenOf[k]) : k \in S}
    BY <1>3, ClaimFacts
  <2>2. PICK tokenOf \in [S -> Tokens \ UsedTokens] :
            /\ task' = [k \in Keys |-> IF k \in S THEN ClaimedRow(task[k].retries, tokenOf[k]) ELSE task[k]]
            /\ execs' = execs \cup {NewExec(r, k, tokenOf[k]) : k \in S}
    BY <2>1
  <2>3. PICK k \in S : f = NewExec(r, k, tokenOf[k])
    BY <1>3, <2>2
  <2>4. f.key = k /\ f.token = tokenOf[k] /\ task'[k] = ClaimedRow(task[k].retries, tokenOf[k])
    BY <2>2, <2>3 DEF NewExec
  <2> QED  BY <2>4 DEF Owns, ClaimedRow
<1>4. ASSUME NEW e \in execs, NEW s \in {"running", "delivered"}, OnItsWay(e), Move(e, s),
             NEW f \in execs', f \notin execs
      PROVE  Owns(f)'
  <2>1. f = [e EXCEPT !.pc = s] /\ e \in Exec
    BY <1>4 DEF Move, ExecsOK
  <2>2. f.key = e.key /\ f.token = e.token
    BY <2>1, MovedFacts
  <2>3. Owns(e) /\ task' = task
    BY <1>4 DEF OnItsWay, Begin, Deliver, StillOwned, UnderWay
  <2> QED  BY <2>2, <2>3 DEF Owns
<1>5. ASSUME NEW e \in execs, NEW s \in {"succeeded", "failed", "rearm"}, Move(e, s),
             NEW f \in execs', f \notin execs
      PROVE  ~UnderWay(f)
  <2>1. f = [e EXCEPT !.pc = s] /\ e \in Exec
    BY <1>5 DEF Move, ExecsOK
  <2>2. f.pc = s
    BY <2>1, MovedFacts
  <2> QED  BY <2>2 DEF UnderWay
<1>6. ASSUME NEW f \in execs', f \notin execs, UnderWay(f) PROVE Owns(f)'
  <2>1. \/ \E r \in Replicas : Claim(r)
        \/ \E e \in execs : OnItsWay(e) /\ (Move(e, "running") \/ Move(e, "delivered"))
        \/ \E e \in execs : \E s \in {"succeeded", "failed", "rearm"} : Move(e, s)
    BY <1>6, ExecChange DEF OnItsWay, Gone
  <2> QED  BY <1>3, <1>4, <1>5, <1>6, <2>1
<1> QED  BY <1>1, <1>2, <1>6 DEF StillOwned, UnderWay

\* Taking one element out and another one in keeps the number of elements.
LEMMA Exchanged ==
  ASSUME NEW C, IsFiniteSet(C), NEW e \in C, NEW f, f \notin C
  PROVE  Cardinality((C \ {e}) \cup {f}) = Cardinality(C)
<1>1. IsFiniteSet(C \ {e}) /\ Cardinality(C \ {e}) = Cardinality(C) - 1
    BY FS_RemoveElement
<1>2. Cardinality((C \ {e}) \cup {f}) = Cardinality(C \ {e}) + 1
    BY <1>1, FS_AddElement
<1>3. Cardinality(C) \in Nat
    BY FS_CardinalityType
<1> QED  BY <1>1, <1>2, <1>3

\* The set of transfers stays finite.
LEMMA FiniteStep ==
  ASSUME IsFiniteSet(execs), NoneLost, [Next]_vars
  PROVE  IsFiniteSet(execs')
<1>1. ASSUME NEW r \in Replicas, Claim(r) PROVE IsFiniteSet(execs')
  <2>1. PICK S \in SUBSET {k \in Keys : Claimable(k)} : \E tokenOf \in [S -> Tokens \ UsedTokens] :
            execs' = execs \cup {NewExec(r, k, tokenOf[k]) : k \in S}
    BY <1>1, ClaimFacts
  <2>2. PICK tokenOf \in [S -> Tokens \ UsedTokens] :
            execs' = execs \cup {NewExec(r, k, tokenOf[k]) : k \in S}
    BY <2>1
  <2>3. IsFiniteSet(S)
    BY KeyCounts
  <2> DEFINE new == [k \in S |-> NewExec(r, k, tokenOf[k])]
  <2>4. {NewExec(r, k, tokenOf[k]) : k \in S} = {new[k] : k \in S}
    OBVIOUS
  <2>5. IsFiniteSet({new[k] : k \in S})
    <3> HIDE DEF new
    <3>1. new \in [S -> {new[k] : k \in S}]
      BY DEF new
    <3>2. new \in Surjection(S, {new[k] : k \in S})
      BY <3>1 DEF Surjection
    <3> QED  BY <2>3, <3>2, FS_Surjection
  <2> QED  BY <2>2, <2>4, <2>5, FS_Union
<1>2. ASSUME NEW e \in execs, NEW s, Move(e, s) PROVE IsFiniteSet(execs')
    BY <1>2, FS_RemoveElement, FS_AddElement DEF Move
<1>3. ASSUME NEW e \in execs, Gone(e) PROVE IsFiniteSet(execs')
    BY <1>3, FS_RemoveElement DEF Gone
<1> QED  BY <1>1, <1>2, <1>3, ExecChange

\* A transfer that moves is a new element of the set.
LEMMA MoveIsNew ==
  ASSUME ExecsOK(execs), TokensApart, NEW e \in execs,
         NEW s \in {"running", "delivered", "succeeded", "failed", "rearm"}, e.pc # s
  PROVE  [e EXCEPT !.pc = s] \notin execs
<1> DEFINE f == [e EXCEPT !.pc = s]
<1>1. f.token = e.token /\ f.pc = s
    BY MovedFacts DEF ExecsOK
<1> HIDE DEF f
<1>2. f \notin execs
    BY <1>1 DEF TokensApart
<1> QED  BY <1>2 DEF f

\* Every step that counts a transfer in or out changes active_transfers by one,
\* no other step changes the one or the other.
LEMMA CounterStep ==
  ASSUME RowsOK(task), ExecsOK(execs), RestOK, NoneLost, IsFiniteSet(execs),
         TokensApart, StillOwned, CounterExact, [Next]_vars
  PROVE  CounterExact'
<1> USE ConstantsAssumption
<1>p. peer \in PeerRow /\ peer.active \in Nat
    BY DEF RestOK, PeerRow
<1>f. IsFiniteSet(Counted) /\ Cardinality(Counted) \in Nat
    BY FS_Subset, FS_CardinalityType DEF Counted
<1>1. ASSUME NEW e \in execs, Begin(e) PROVE CounterExact'
  <2> DEFINE f == [e EXCEPT !.pc = "running"]
  <2>1. e.pc = "spawned" /\ execs' = (execs \ {e}) \cup {f} /\ peer' = [peer EXCEPT !.active = @ + 1]
    BY <1>1 DEF Begin, Move
  <2>2. f.pc = "running" /\ f \notin execs
    BY <2>1, MovedFacts, MoveIsNew DEF ExecsOK
  <2> HIDE DEF f
  <2>3. Counted' = Counted \cup {f} /\ f \notin Counted
    BY <2>1, <2>2 DEF Counted
  <2>4. Cardinality(Counted') = Cardinality(Counted) + 1
    BY <2>3, <1>f, FS_AddElement
  <2>5. peer'.active = peer.active + 1
    BY <2>1, <1>p DEF PeerRow
  <2> QED  BY <2>4, <2>5 DEF CounterExact
<1>2. ASSUME NEW e \in execs, SettleSuccess(e) \/ SettleFailure(e) PROVE CounterExact'
  <2> DEFINE f == [e EXCEPT !.pc = "rearm"]
  <2>1. e.pc \in {"succeeded", "failed"} /\ execs' = (execs \ {e}) \cup {f}
    BY <1>2 DEF SettleSuccess, SettleFailure, Move
  <2>2. peer'.active = NonNegative(peer.active - 1)
    BY <1>2, <1>p DEF SettleSuccess, SettleFailure, PeerRow
  <2>3. f.pc = "rearm"
    BY MovedFacts DEF ExecsOK
  <2> HIDE DEF f
  <2>4. Counted' = Counted \ {e} /\ e \in Counted
    BY <2>1, <2>3 DEF Counted
  <2>5. Cardinality(Counted') = Cardinality(Counted) - 1 /\ Cardinality(Counted') \in Nat
    BY <2>4, <1>f, FS_RemoveElement, FS_CardinalityType
  <2> QED  BY <2>2, <2>5, <1>p, <1>f DEF CounterExact, NonNegative
<1>3. ASSUME NEW e \in execs, NEW s \in {"delivered", "succeeded", "failed"}, Move(e, s),
             e.pc \in {"running", "delivered"}, e.pc # s
      PROVE  Cardinality(Counted') = Cardinality(Counted)
  <2> DEFINE f == [e EXCEPT !.pc = s]
  <2>0. e \in Exec /\ s \in {"running", "delivered", "succeeded", "failed", "rearm"}
    BY DEF ExecsOK
  <2>1. execs' = (execs \ {e}) \cup {f} /\ f.pc = s /\ f \notin execs
    <3>1. execs' = (execs \ {e}) \cup {f}
      BY <1>3 DEF Move
    <3>2. f.pc = s
      BY <2>0, MovedFacts
    <3>3. f \notin execs
      BY <1>3, <2>0, MoveIsNew
    <3> QED  BY <3>1, <3>2, <3>3
  <2> HIDE DEF f
  <2>2. Counted' = (Counted \ {e}) \cup {f} /\ e \in Counted /\ f \notin Counted
    BY <1>3, <2>1 DEF Counted
  <2> QED  BY <2>2, <1>f, Exchanged
<1>4. ASSUME NEW e \in execs, Gone(e), e.pc \in {"spawned", "rearm"}
      PROVE  Cardinality(Counted') = Cardinality(Counted)
  <2>1. Counted' = Counted
    BY <1>4 DEF Gone, Counted
  <2> QED  BY <2>1
<1>5. ASSUME NEW r \in Replicas, Claim(r) PROVE Cardinality(Counted') = Cardinality(Counted)
  <2>1. \A e \in execs' : e \in execs \/ e.pc = "spawned"
    BY <1>5, ClaimFacts DEF NewExec
  <2>2. execs \subseteq execs'
    BY <1>5, ClaimFacts
  <2>3. Counted' = Counted
    BY <2>1, <2>2 DEF Counted
  <2> QED  BY <2>3
<1>6. ASSUME ~\E e \in execs : Begin(e) \/ SettleSuccess(e) \/ SettleFailure(e)
      PROVE  Cardinality(Counted') = Cardinality(Counted)
  <2>1. ASSUME execs' = execs PROVE Counted' = Counted
    BY <2>1 DEF Counted
  <2>2. ASSUME NEW e \in execs, Succeed(e) \/ Fail(e) PROVE Owns(e)
    BY <2>2 DEF Succeed, Fail, StillOwned, UnderWay
  <2>3. ASSUME NEW e \in execs, Succeed(e) \/ Fail(e) \/ Deliver(e)
        PROVE  e.pc \in {"running", "delivered"} /\ (Deliver(e) => e.pc # "delivered")
    BY <2>3 DEF Succeed, Fail, Deliver
  <2>4. ASSUME NEW e \in execs, FilterOut(e) \/ RearmIfSuperseded(e) PROVE e.pc \in {"spawned", "rearm"}
    BY <2>4 DEF FilterOut, RearmIfSuperseded
  <2> QED  BY <1>3, <1>4, <1>5, <1>6, <2>1, <2>2, <2>3, <2>4, ExecChange
<1>7. ASSUME NEW r \in Replicas, Recover(r) PROVE peer'.active = peer.active
  <2> DEFINE lapsed == {k \in Keys : task[k].status = "in_progress" /\ task[k].left = 0}
  <2>1. lapsed = {}
    BY DEF StillOwned
  <2>2. peer' = [peer EXCEPT !.active = NonNegative(peer.active - Cardinality(lapsed))]
    BY <1>7 DEF Recover
  <2> HIDE DEF lapsed
  <2>3. Cardinality(lapsed) = 0
    BY <2>1, FS_EmptySet
  <2> QED  BY <2>2, <2>3, <1>p DEF NonNegative, PeerRow
<1>8. CASE BackoffEnds \/ PeerStale \/ PeerProbed
  <2>1. peer'.active = peer.active
    BY <1>8, <1>p DEF BackoffEnds, PeerStale, PeerProbed, PeerRow
  <2>2. Counted' = Counted
    BY <1>8 DEF BackoffEnds, PeerStale, PeerProbed, Counted
  <2> QED  BY <2>1, <2>2 DEF CounterExact
<1>9. ASSUME ~\E e \in execs : Begin(e) \/ SettleSuccess(e) \/ SettleFailure(e),
             ~(BackoffEnds \/ PeerStale \/ PeerProbed)
      PROVE  peer'.active = peer.active
    BY <1>7, <1>9
    DEF Next, Request, Continue, Work, Transfer, Trouble, Upload, Delete, QueuePush, QueueRearm,
        CancelPushes, FanOutDelete, ContinuationFails, FetchPeer, ResetFailed, Claim, LoopFails,
        Crash, FilterOut, Deliver, Succeed, Fail, Finalize, RearmIfSuperseded, ExtendClaim,
        GiveUp, SettleFails, Tick, vars
<1> QED  BY <1>1, <1>2, <1>6, <1>8, <1>9 DEF CounterExact

\* Transfers under way have their claims, and there are finitely many.
LEMMA OwnedHolds ==
  ASSUME NoneLost, NoneExpires
  PROVE  Spec => [](StillOwned /\ IsFiniteSet(execs))
<1>1. Init => StillOwned /\ IsFiniteSet(execs)
    BY FS_EmptySet DEF Init, NoRow, StillOwned
<1>2. /\ TypeOK /\ RetryBudget /\ (TypeOK /\ RetryBudget)' /\ TokensApart
      /\ StillOwned /\ IsFiniteSet(execs) /\ [Next]_vars
      => (StillOwned /\ IsFiniteSet(execs))'
    BY InvParts, InvPartsPrime, OwnedStep, FiniteStep
<1> QED  BY <1>1, <1>2, TypesAndBudget, WorkedHolds, PTL DEF Spec

\* As long as no process dies, no statement fails and no claim expires,
\* active_transfers is the number of transfers under way, whatever the peer
\* answers and however the replicas interleave: every way a transfer ends gives
\* back what it took, and none gives back twice.
THEOREM CounterIsExact ==
  ASSUME NoneLost, NoneExpires
  PROVE  Spec => []CounterExact
<1>1. Init => CounterExact
  <2> SUFFICES ASSUME Init PROVE CounterExact
    OBVIOUS
  <2>1. Counted = {} /\ peer.active = 0
    BY DEF Init, Counted
  <2> QED  BY <2>1, FS_EmptySet DEF CounterExact
<1>2. /\ TypeOK /\ RetryBudget /\ TokensApart /\ StillOwned /\ IsFiniteSet(execs)
      /\ CounterExact /\ [Next]_vars
      => CounterExact'
    BY InvParts, CounterStep
<1> QED  BY <1>1, <1>2, TypesAndBudget, WorkedHolds, OwnedHolds, PTL DEF Spec

----------------------------------------------------------------------------
(* What the peer holds. *)

\* The two kinds of keys and what they are made of.
LEMMA KeyPairs ==
  /\ \A k \in Keys : (k[2] = "push" /\ k = PushOf(k[1])) \/ (k[2] = "delete" /\ k = DeleteOf(k[1]))
  /\ \A a \in Artifacts : PushOf(a)[1] = a /\ PushOf(a)[2] = "push"
  /\ \A a \in Artifacts : DeleteOf(a)[1] = a /\ DeleteOf(a)[2] = "delete"
  /\ \A a, b \in Artifacts : PushOf(a) # DeleteOf(b)
  BY DEF Keys, PushOf, DeleteOf

RowSame(k) == task'[k].status = task[k].status /\ task'[k].retries = task[k].retries

\* A push that was settled is back in the queue.
RowRearmed(k) ==
    /\ k[2] = "push" /\ task[k].status \in {"completed", "failed", "cancelled"}
    /\ task'[k].status = "pending"

RowFinalized(k) ==
    /\ task[k].status = "in_progress" /\ task'[k].status \in {"completed", "failed"}
    /\ \E e \in execs : e.key = k /\ Owns(e) /\ (FilterOut(e) \/ Succeed(e) \/ Fail(e))

\* All that a step may do to a row.
LEMMA StatusStep ==
  ASSUME RowsOK(task), ExecsOK(execs), [Next]_vars, NEW k \in Keys
  PROVE  \/ RowSame(k) \/ RowRearmed(k) \/ RowFinalized(k)
         \/ \E a \in Artifacts : QueuePush(a) /\ k = PushOf(a) /\ task'[k].status = "pending"
         \/ \E a \in Artifacts : CancelPushes(a) /\ k = PushOf(a) /\ task'[k].status = "cancelled"
         \/ \E a \in Artifacts : FanOutDelete(a) /\ k = DeleteOf(a) /\ task'[k].status = "pending"
         \/ task[k].status = "in_progress" /\ task[k].left = 0 /\ task'[k].status = "pending"
         \/ Retriable(task[k]) /\ task'[k].status = "pending"
         \/ (\E r \in Replicas : Claim(r)) /\ Claimable(k) /\ task'[k].status = "in_progress"
<1>t. task \in [Keys -> Row] /\ DOMAIN task = Keys
    BY DEF RowsOK
<1>r. ASSUME NEW n, NEW s, NEW u
      PROVE  /\ Requeued(n).status = "pending" /\ Settled(s, n).status = s
             /\ ClaimedRow(n, u).status = "in_progress" /\ ClaimedRow(n, u).retries = n
    BY DEF Requeued, Settled, ClaimedRow
<1>s. ASSUME task' = task PROVE RowSame(k)
    BY <1>s DEF RowSame
<1>1. ASSUME NEW a \in Artifacts, NEW v, task' = Rearmed(a, v) PROVE RowSame(k) \/ RowRearmed(k)
  <2>1. CASE Superseded(a, v) /\ k = PushOf(a)
    <3>1. task'[k] = Requeued(0)
      BY <1>1, <2>1, <1>t DEF Rearmed
    <3> QED  BY <2>1, <3>1, <1>r, KeyPairs DEF Superseded, RowRearmed
  <2>2. CASE ~(Superseded(a, v) /\ k = PushOf(a))
    <3>1. task'[k] = task[k]
      BY <1>1, <2>2, <1>t, KeyFacts DEF Rearmed
    <3> QED  BY <3>1 DEF RowSame
  <2> QED  BY <2>1, <2>2
<1>2. ASSUME NEW a \in Artifacts, QueuePush(a)
      PROVE  RowSame(k) \/ (k = PushOf(a) /\ task'[k].status = "pending")
    BY <1>2, <1>t, <1>r, KeyFacts DEF QueuePush, RowSame
<1>3. ASSUME NEW a \in Artifacts, CancelPushes(a)
      PROVE  RowSame(k) \/ (k = PushOf(a) /\ task'[k].status = "cancelled")
  <2>1. \/ task' = task
        \/ task' = [task EXCEPT ![PushOf(a)] = Settled("cancelled", task[PushOf(a)].retries)]
    BY <1>3 DEF CancelPushes
  <2>2. PushOf(a) \in Keys /\ Settled("cancelled", task[PushOf(a)].retries).status = "cancelled"
    BY KeyFacts DEF Settled
  <2> QED  BY <2>1, <2>2, <1>t DEF RowSame
<1>4. ASSUME NEW a \in Artifacts, FanOutDelete(a)
      PROVE  RowSame(k) \/ (k = DeleteOf(a) /\ task'[k].status = "pending")
    BY <1>4, <1>t, <1>r, KeyFacts DEF FanOutDelete, RowSame
<1>5. ASSUME NEW r \in Replicas, Recover(r)
      PROVE  RowSame(k) \/ (task[k].status = "in_progress" /\ task[k].left = 0 /\ task'[k].status = "pending")
    BY <1>5, <1>r DEF Recover, RowSame
<1>6. ASSUME NEW r \in Replicas, ResetFailed(r)
      PROVE  RowSame(k) \/ (Retriable(task[k]) /\ task'[k].status = "pending")
    BY <1>6, <1>r DEF ResetFailed, RowSame
<1>7. ASSUME NEW r \in Replicas, Claim(r)
      PROVE  RowSame(k) \/ (Claimable(k) /\ task'[k].status = "in_progress")
  <2>1. PICK S \in SUBSET {j \in Keys : Claimable(j)} : \E tokenOf :
            task' = [j \in Keys |-> IF j \in S THEN ClaimedRow(task[j].retries, tokenOf[j]) ELSE task[j]]
    BY <1>7 DEF Claim
  <2>2. task'[k] = task[k] \/ (k \in S /\ task'[k].status = "in_progress")
    BY <2>1 DEF ClaimedRow
  <2> QED  BY <2>2 DEF RowSame
<1>8. ASSUME NEW e \in execs, FilterOut(e) \/ Succeed(e) \/ Fail(e) PROVE RowSame(k) \/ RowFinalized(k)
  <2>1. \/ task' = task
        \/ Owns(e) /\ \E s \in {"completed", "failed"} : \E n : task' = [task EXCEPT ![e.key] = Settled(s, n)]
    BY <1>8 DEF FilterOut, Succeed, Fail, Finalize
  <2>2. CASE task' = task \/ e.key # k
    BY <2>1, <2>2, <1>t DEF RowSame
  <2>3. CASE Owns(e) /\ e.key = k /\ \E s \in {"completed", "failed"} : \E n : task' = [task EXCEPT ![e.key] = Settled(s, n)]
    <3>1. task'[k].status \in {"completed", "failed"} /\ task[k].status = "in_progress"
      BY <2>3, <1>t, <1>r DEF Owns
    <3> QED  BY <1>8, <2>3, <3>1 DEF RowFinalized
  <2> QED  BY <2>1, <2>2, <2>3
<1>9. ASSUME NEW e \in execs, ExtendClaim(e) PROVE RowSame(k)
    BY <1>9, <1>t, <1>r DEF ExtendClaim, Owns, RowSame
<1>10. ASSUME NEW e \in execs, RearmIfSuperseded(e) PROVE RowSame(k) \/ RowRearmed(k)
  <2>1. e.key[1] \in Artifacts
    BY KeyFacts DEF ExecsOK, Exec
  <2> QED  BY <2>1, <1>10, <1>1, <1>s DEF RearmIfSuperseded
<1>11. CASE Tick
  <2>1. task[k] \in Row /\ task'[k] = [task[k] EXCEPT !.left = NonNegative(@ - 1)]
    BY <1>11, <1>t DEF Tick
  <2> QED  BY <2>1 DEF Row, RowSame
<1>12. ASSUME NEW a \in Artifacts, QueueRearm(a) PROVE RowSame(k) \/ RowRearmed(k)
    BY <1>12, <1>1 DEF QueueRearm
<1> QED
    BY <1>s, <1>2, <1>3, <1>4, <1>5, <1>6, <1>7, <1>8, <1>9, <1>10, <1>11, <1>12
    DEF Next, Request, Continue, Work, Transfer, Trouble, Upload, Delete, ContinuationFails,
        FetchPeer, LoopFails, Crash, Begin, Deliver, SettleSuccess, SettleFailure,
        GiveUp, SettleFails, BackoffEnds, PeerStale, PeerProbed, vars

\* A row once written is never removed.
LEMMA RowsStay ==
  ASSUME RowsOK(task), ExecsOK(execs), [Next]_vars, NEW k \in Keys, task[k].status # "absent"
  PROVE  task'[k].status # "absent"
  BY StatusStep DEF RowSame, RowRearmed, RowFinalized

\* Only the fan-out of a delete makes one active that was not.
LEMMA DeleteActivated ==
  ASSUME RowsOK(task), ExecsOK(execs), [Next]_vars, NEW a \in Artifacts,
         ActiveDelete(a)', <<a, "fanout">> \notin todo
  PROVE  ActiveDelete(a)
<1> DEFINE k == DeleteOf(a)
<1>1. k \in Keys /\ k[2] = "delete" /\ \A b \in Artifacts : k # PushOf(b) /\ (k = DeleteOf(b) => a = b)
    BY KeyFacts, KeyPairs
<1>2. task'[k].status \in {"pending", "in_progress"} \/ Retriable(task'[k])
    BY DEF ActiveDelete
<1>3. \A b \in Artifacts : k = DeleteOf(b) => ~FanOutDelete(b)
    BY <1>1 DEF FanOutDelete
<1>4. task[k].status \in {"pending", "in_progress"} \/ Retriable(task[k])
  <2> HIDE DEF k
  <2> QED  BY <1>1, <1>2, <1>3, StatusStep DEF RowSame, RowRearmed, RowFinalized, Claimable, Retriable
<1> QED  BY <1>4 DEF ActiveDelete

\* An artifact changes only by a request for it.
LEMMA ArtStep ==
  ASSUME RestOK, [Next]_vars, NEW a \in Artifacts
  PROVE  Upload(a) \/ Delete(a) \/ art'[a] = art[a]
<1>1. ASSUME NEW b \in Artifacts, Upload(b) \/ Delete(b) PROVE Upload(a) \/ Delete(a) \/ art'[a] = art[a]
    BY <1>1 DEF Upload, Delete, RestOK
<1>2. (\E b \in Artifacts : Upload(b) \/ Delete(b)) \/ art' = art
    BY DEF Next, Request, Continue, Work, Transfer, Trouble, QueuePush, QueueRearm,
        CancelPushes, FanOutDelete, ContinuationFails, Recover, FetchPeer, ResetFailed, Claim,
        LoopFails, Crash, FilterOut, Begin, Deliver, Succeed, Fail, Finalize, SettleSuccess,
        SettleFailure, RearmIfSuperseded, ExtendClaim, GiveUp, SettleFails, Tick, BackoffEnds,
        PeerStale, PeerProbed, vars
<1> QED  BY <1>1, <1>2

\* What an upload and a delete of an artifact do to it.
LEMMA RequestFacts ==
  ASSUME RestOK, NEW a \in Artifacts
  PROVE  /\ Upload(a) => art'[a].ver = art[a].ver + 1 /\ ~art'[a].deleted /\ execs' = execs
         /\ Delete(a) => art'[a].deleted
         /\ art[a].ver \in Nat
<1>1. art[a] \in [deleted : BOOLEAN, ver : 0..MaxVer] /\ DOMAIN art = Artifacts
    BY DEF RestOK
<1>2. ASSUME Upload(a) PROVE art'[a].ver = art[a].ver + 1 /\ ~art'[a].deleted /\ execs' = execs
    BY <1>2, <1>1 DEF Upload
<1>3. ASSUME Delete(a) PROVE art'[a].deleted
    BY <1>3, <1>1 DEF Delete
<1> QED  BY <1>1, <1>2, <1>3, ConstantsAssumption

\* The continuations of a delete end before the next request for the artifact.
LEMMA InTurnStep ==
  ASSUME RestOK, Orderly, DeletesInTurn, [Next]_vars
  PROVE  DeletesInTurn'
<1> SUFFICES ASSUME NEW a \in Artifacts, <<a, "cancel">> \in todo' \/ <<a, "fanout">> \in todo'
             PROVE  art'[a].deleted
    BY DEF DeletesInTurn
<1>1. CASE Delete(a)
    BY <1>1, RequestFacts
<1>2. ASSUME ~Delete(a) PROVE <<a, "cancel">> \in todo \/ <<a, "fanout">> \in todo
  <2>1. ASSUME NEW b \in Artifacts, Upload(b) \/ Delete(b) \/ QueuePush(b) \/ QueueRearm(b)
                                    \/ CancelPushes(b) \/ FanOutDelete(b) \/ ContinuationFails(b)
        PROVE  <<a, "cancel">> \in todo \/ <<a, "fanout">> \in todo
    BY <2>1, <1>2 DEF Upload, Delete, QueuePush, QueueRearm, CancelPushes, FanOutDelete, ContinuationFails
  <2>2. CASE todo' = todo
    BY <2>2
  <2> QED
    BY <2>1, <2>2
    DEF Next, Request, Continue, Work, Transfer, Trouble, Recover, FetchPeer, ResetFailed, Claim,
        LoopFails, Crash, FilterOut, Begin, Deliver, Succeed, Fail, Finalize, SettleSuccess,
        SettleFailure, RearmIfSuperseded, ExtendClaim, GiveUp, SettleFails, Tick, BackoffEnds,
        PeerStale, PeerProbed, vars
<1>3. ASSUME ~Delete(a) PROVE ~Upload(a)
    BY <1>2, <1>3 DEF Upload, InTurn, Orderly
<1> QED  BY <1>1, <1>2, <1>3, ArtStep DEF DeletesInTurn

\* Where a transfer of the next state comes from.
LEMMA ExecOrigin ==
  ASSUME ExecsOK(execs), NoneLost, [Next]_vars, NEW f \in execs'
  PROVE  \/ f \in execs
         \/ \E e \in execs : /\ f.key = e.key /\ f.ver = e.ver /\ f.token = e.token
                             /\ f.pc = "delivered" => Deliver(e)
         \/ \E r \in Replicas : /\ Claim(r) /\ Claimable(f.key) /\ f.key \in Keys
                                /\ f.ver = art[f.key[1]].ver /\ f.pc = "spawned"
<1>1. ASSUME NEW e \in execs, NEW s \in {"running", "delivered", "succeeded", "failed", "rearm"},
             Move(e, s), f \notin execs
      PROVE  f.key = e.key /\ f.ver = e.ver /\ f.token = e.token /\ f.pc = s
  <2>1. f = [e EXCEPT !.pc = s] /\ e \in Exec
    BY <1>1 DEF Move, ExecsOK
  <2> QED  BY <2>1, MovedFacts
<1>2. ASSUME NEW r \in Replicas, Claim(r), f \notin execs
      PROVE  /\ Claimable(f.key) /\ f.key \in Keys
             /\ f.ver = art[f.key[1]].ver /\ f.pc = "spawned"
  <2>1. PICK S \in SUBSET {k \in Keys : Claimable(k)} : \E tokenOf \in [S -> Tokens \ UsedTokens] :
            execs' = execs \cup {NewExec(r, k, tokenOf[k]) : k \in S}
    BY <1>2, ClaimFacts
  <2>2. PICK k \in S : \E t : f = NewExec(r, k, t)
    BY <1>2, <2>1
  <2>3. f.key = k /\ f.ver = art[k[1]].ver /\ f.pc = "spawned"
    BY <2>2 DEF NewExec
  <2> QED  BY <2>3
<1> QED  BY <1>1, <1>2, ExecChange DEF Gone

\* What the peer holds changes by a delivery of the artifact's push or delete.
LEMMA RemoteStep ==
  ASSUME ExecsOK(execs), RestOK, Orderly, [Next]_vars, NEW a \in Artifacts
  PROVE  \/ remote'[a] = remote[a]
         \/ \E g \in execs : Deliver(g) /\ g.key = DeleteOf(a)
         \/ \E g \in execs : Deliver(g) /\ g.key = PushOf(a) /\ remote'[a] = g.ver
<1>1. ASSUME NEW g \in execs, Deliver(g)
      PROVE  \/ remote'[a] = remote[a]
             \/ g.key = DeleteOf(a)
             \/ g.key = PushOf(a) /\ remote'[a] = g.ver
  <2>1. g.key \in Keys
    BY DEF ExecsOK, Exec
  <2>2. remote' = [remote EXCEPT ![g.key[1]] = IF g.key[2] = "push" THEN g.ver ELSE 0]
    BY <1>1 DEF Deliver, Orderly
  <2> QED  BY <2>1, <2>2, KeyPairs DEF RestOK
<1>2. (\E g \in execs : Deliver(g)) \/ remote' = remote
    BY DEF Next, Request, Continue, Work, Transfer, Trouble, Upload, Delete, QueuePush, QueueRearm,
        CancelPushes, FanOutDelete, ContinuationFails, Recover, FetchPeer, ResetFailed, Claim,
        LoopFails, Crash, FilterOut, Begin, Succeed, Fail, Finalize, SettleSuccess,
        SettleFailure, RearmIfSuperseded, ExtendClaim, GiveUp, SettleFails, Tick, BackoffEnds,
        PeerStale, PeerProbed, vars
<1> QED  BY <1>1, <1>2

\* The invariants that the transfers of an orderly queue have.
Steady ==
    /\ RowsOK(task) /\ ExecsOK(execs) /\ RestOK
    /\ TokensApart /\ Worked /\ StillOwned /\ DeletesInTurn

\* A delivery is by a transfer that has its claim, so the delete of a live
\* artifact that delivers is an active one.
LEMMA DeliverOwns ==
  ASSUME Steady, NEW g \in execs, Deliver(g)
  PROVE  /\ g.pc = "running" /\ Owns(g)
         /\ \A a \in Artifacts : g.key = DeleteOf(a) => ActiveDelete(a)
<1>1. g.pc = "running" /\ Owns(g)
    BY DEF Deliver, Steady, StillOwned, UnderWay
<1> QED  BY <1>1 DEF Owns, ActiveDelete

\* A delete does not become active while the artifact is there.
LEMMA NoDeleteComes ==
  ASSUME Steady, [Next]_vars, NEW a \in Artifacts, ~art[a].deleted, ~ActiveDelete(a)
  PROVE  ~ActiveDelete(a)'
  BY DeleteActivated DEF Steady, DeletesInTurn

\* Every step keeps pushes of the current version out of the way of deletes.
LEMMA CurrentStep ==
  ASSUME Steady, NoneLost, Orderly, PushesCurrent, [Next]_vars
  PROVE  PushesCurrent'
<1> SUFFICES ASSUME NEW f \in execs', NEW a \in Artifacts, f.key = PushOf(a)
             PROVE  /\ f.ver <= art'[a].ver
                    /\ task'[PushOf(a)].status # "absent"
                    /\ ~art'[a].deleted /\ f.ver = art'[a].ver => ~ActiveDelete(a)'
                    /\ ~art'[a].deleted /\ f.ver = art'[a].ver /\ f.pc = "delivered" => remote'[a] = f.ver
    BY DEF PushesCurrent, Live
<1>k. PushOf(a) \in Keys /\ PushOf(a)[1] = a /\ PushOf(a)[2] = "push"
    BY KeyFacts, KeyPairs
<1>v. art[a].ver \in Nat
    BY RequestFacts DEF Steady
<1>1. CASE Upload(a)
  <2>1. f \in execs /\ art'[a].ver = art[a].ver + 1
    BY <1>1, RequestFacts DEF Steady
  <2>2. f.ver <= art[a].ver /\ f.ver \in Nat /\ task[PushOf(a)].status # "absent"
    BY <2>1, ConstantsAssumption DEF PushesCurrent, Steady, ExecsOK, Exec
  <2>3. task'[PushOf(a)].status # "absent"
    BY <2>2, <1>k, RowsStay DEF Steady
  <2> QED  BY <2>1, <2>2, <2>3, <1>v
<1>2. ASSUME NEW e \in execs, e.key = PushOf(a), e.ver = f.ver, ~Upload(a),
             f.pc = "delivered" => e = f \/ Deliver(e)
      PROVE  /\ f.ver <= art'[a].ver
             /\ task'[PushOf(a)].status # "absent"
             /\ ~art'[a].deleted /\ f.ver = art'[a].ver => ~ActiveDelete(a)'
             /\ ~art'[a].deleted /\ f.ver = art'[a].ver /\ f.pc = "delivered" => remote'[a] = f.ver
  <2>1. art'[a] = art[a] \/ (Delete(a) /\ art'[a].deleted)
    BY <1>2, ArtStep, RequestFacts DEF Steady
  <2>2. f.ver <= art'[a].ver
    <3>1. CASE Delete(a)
      BY <3>1, <1>2 DEF Delete, Steady, RestOK, PushesCurrent
    <3>2. CASE art'[a] = art[a]
      BY <3>2, <1>2 DEF PushesCurrent
    <3> QED  BY <2>1, <3>1, <3>2
  <2>3. task'[PushOf(a)].status # "absent"
    BY <1>2, <1>k, RowsStay DEF Steady, PushesCurrent
  <2>4. ASSUME ~art'[a].deleted, f.ver = art'[a].ver PROVE ~ActiveDelete(a) /\ ~ActiveDelete(a)'
    BY <1>2, <2>1, <2>4, NoDeleteComes DEF PushesCurrent, Live
  <2>5. ASSUME ~art'[a].deleted, f.ver = art'[a].ver, f.pc = "delivered" PROVE remote'[a] = f.ver
    <3>1. ~art[a].deleted /\ e.ver = art[a].ver
      BY <1>2, <2>1, <2>5
    <3>2. CASE Deliver(e)
      BY <3>2, <1>2, <1>k DEF Deliver, Orderly, Steady, RestOK
    <3>3. CASE e = f
      <4>1. remote[a] = f.ver /\ Owns(e)
        BY <1>2, <2>5, <3>1, <3>3 DEF PushesCurrent, Live, Steady, StillOwned, UnderWay
      <4>2. ASSUME NEW g \in execs, Deliver(g), g.key = PushOf(a) PROVE FALSE
        <5>1. g.token = e.token
          BY <1>2, <4>1, <4>2, DeliverOwns DEF Owns
        <5> QED  BY <2>5, <3>3, <4>2, <5>1, DeliverOwns DEF Steady, TokensApart
      <4>3. ASSUME NEW g \in execs, Deliver(g), g.key = DeleteOf(a) PROVE FALSE
        BY <2>4, <2>5, <4>3, DeliverOwns
      <4> QED  BY <4>1, <4>2, <4>3, RemoteStep DEF Steady
    <3> QED  BY <1>2, <2>5, <3>2, <3>3
  <2> QED  BY <2>2, <2>3, <2>4, <2>5
<1>3. ASSUME NEW r \in Replicas, Claim(r), Claimable(f.key), f.ver = art[a].ver, f.pc = "spawned"
      PROVE  /\ f.ver <= art'[a].ver
             /\ task'[PushOf(a)].status # "absent"
             /\ ~art'[a].deleted /\ f.ver = art'[a].ver => ~ActiveDelete(a)'
  <2>1. art' = art
    BY <1>3 DEF Claim
  <2>2. task[PushOf(a)].status = "pending" /\ ~art[a].deleted /\ ~ActiveDelete(a)
    BY <1>3, <1>k DEF Claimable
  <2>3. task'[PushOf(a)].status # "absent"
    BY <2>2, <1>k, RowsStay DEF Steady
  <2> QED  BY <1>3, <1>v, <2>1, <2>2, <2>3, NoDeleteComes
<1>4. \/ \E e \in execs : /\ e.key = PushOf(a) /\ e.ver = f.ver
                          /\ f.pc = "delivered" => e = f \/ Deliver(e)
      \/ \E r \in Replicas : Claim(r) /\ Claimable(f.key) /\ f.ver = art[a].ver /\ f.pc = "spawned"
    BY <1>k, ExecOrigin DEF Steady
<1> QED  BY <1>1, <1>2, <1>3, <1>4

\* A push that is in progress sends the current version, has sent it, or will be
\* re-armed because it is overtaken.
LEMMA WorkerPromises ==
  ASSUME Steady, PushesCurrent, NEW a \in Artifacts, ~art[a].deleted,
         task[PushOf(a)].status = "in_progress"
  PROVE  \E e \in execs :
            /\ e.key = PushOf(a) /\ UnderWay(e)
            /\ e.ver # art[a].ver \/ (~ActiveDelete(a) /\ (e.pc = "delivered" => remote[a] = art[a].ver))
<1>1. PICK e \in execs : e.key = PushOf(a) /\ UnderWay(e)
    BY KeyFacts DEF Steady, Worked
<1> QED  BY <1>1 DEF PushesCurrent, Live

\* After a re-arm for a version that is not the current one, the current one
\* is promised.
LEMMA RearmPromises ==
  ASSUME Steady, PushesCurrent, Versioned, [Next]_vars, NEW a \in Artifacts, ~art[a].deleted,
         task[PushOf(a)].status # "absent", NEW v, v # art[a].ver,
         task' = Rearmed(a, v), art' = art, remote' = remote,
         \A e \in execs : UnderWay(e) => e \in execs'
  PROVE  Promised(a)'
<1> DEFINE k == PushOf(a)
<1>k. k \in Keys /\ task \in [Keys -> Row]
    BY KeyFacts DEF Steady, RowsOK
<1>1. CASE task[k].status \in {"completed", "failed", "cancelled"}
  <2>1. Superseded(a, v)
    BY <1>1 DEF Superseded
  <2>2. task'[k].status = "pending"
    BY <2>1, <1>k DEF Rearmed, Requeued
  <2> QED  BY <2>2 DEF Promised
<1>2. CASE task[k].status = "pending"
  <2>1. task'[k].status = "pending"
    BY <1>2, <1>k DEF Rearmed, Superseded
  <2> QED  BY <2>1 DEF Promised
<1>3. CASE task[k].status = "in_progress"
  <2>1. PICK e \in execs :
            /\ e.key = PushOf(a) /\ UnderWay(e)
            /\ e.ver # art[a].ver \/ (~ActiveDelete(a) /\ (e.pc = "delivered" => remote[a] = art[a].ver))
    BY <1>3, WorkerPromises
  <2>2. e \in execs'
    BY <2>1
  <2>3. ~ActiveDelete(a) => ~ActiveDelete(a)'
    BY NoDeleteComes
  <2>4. CASE e.ver # art[a].ver
    BY <2>1, <2>2, <2>4 DEF Promised
  <2>5. CASE e.ver = art[a].ver
    <3>1. ~ActiveDelete(a)'
      BY <2>1, <2>3, <2>5
    <3>2. \/ remote'[a] = art'[a].ver
          \/ \E f \in execs' : f.key = PushOf(a) /\ f.ver = art'[a].ver /\ f.pc \in {"spawned", "running"}
      BY <2>1, <2>2, <2>5 DEF UnderWay
    <3>3. HeldOrSent(a)'
      BY <3>1, <3>2 DEF HeldOrSent
    <3> QED  BY <3>3 DEF Promised
  <2> QED  BY <2>4, <2>5
<1>4. task[k].status \in Statuses
    BY <1>k DEF Row
<1> QED  BY <1>1, <1>2, <1>3, <1>4 DEF Statuses

\* A transfer that no re-arm, filter or failure ends is there after the step.
LEMMA ExecStays ==
  ASSUME Steady, NoneLost, [Next]_vars, NEW e \in execs, e.key[1] \notin Filtered, ~RearmIfSuperseded(e)
  PROVE  \E f \in execs' : /\ f.key = e.key /\ f.ver = e.ver
                           /\ \/ f = e
                              \/ Begin(e) /\ f.pc = "running"
                              \/ Deliver(e)
                              \/ e.pc \notin {"spawned", "running"}
                              \/ Fail(e) /\ Owns(e)
<1>0. e \in Exec
    BY DEF Steady, ExecsOK
<1>1. CASE e \in execs'
    BY <1>1
<1>2. CASE e \notin execs'
  <2>1. ~FilterOut(e)
    BY DEF FilterOut
  <2>2. Succeed(e) \/ Fail(e) => Owns(e)
    BY DEF Succeed, Fail, Steady, StillOwned, UnderWay
  <2>3. ~\E r \in Replicas : Claim(r)
    BY <1>2, ClaimFacts
  <2>4. PICK g \in execs :
               \/ (FilterOut(g) \/ RearmIfSuperseded(g)) /\ Gone(g)
               \/ (Succeed(g) \/ Fail(g)) /\ ~Owns(g) /\ Gone(g)
               \/ Begin(g) /\ Move(g, "running")
               \/ Deliver(g) /\ Move(g, "delivered")
               \/ Succeed(g) /\ Owns(g) /\ Move(g, "succeeded")
               \/ Fail(g) /\ Owns(g) /\ Move(g, "failed")
               \/ (SettleSuccess(g) \/ SettleFailure(g)) /\ Move(g, "rearm")
    BY <1>2, <2>3, ExecChange
  <2>5. g = e
    BY <1>2, <2>4 DEF Gone, Move
  <2>6. PICK s \in {"running", "delivered", "succeeded", "failed", "rearm"} :
            /\ Move(e, s)
            /\ \/ Begin(e) /\ s = "running"
               \/ Deliver(e)
               \/ e.pc \notin {"spawned", "running"}
               \/ Fail(e) /\ Owns(e)
    BY <2>1, <2>2, <2>4, <2>5 DEF Succeed, SettleSuccess, SettleFailure
  <2> DEFINE f == [e EXCEPT !.pc = s]
  <2>7. f \in execs' /\ f.key = e.key /\ f.ver = e.ver /\ f.pc = s
    BY <1>0, <2>6, MovedFacts DEF Move
  <2> QED  BY <2>6, <2>7
<1> QED  BY <1>1, <1>2

\* The continuations of an upload are left only by their own statements.
LEMMA TodoStep ==
  ASSUME NoneLost, [Next]_vars, NEW a \in Artifacts
  PROVE  /\ <<a, "queue">> \in todo => <<a, "queue">> \in todo' \/ QueuePush(a)
         /\ <<a, "rearm">> \in todo => <<a, "rearm">> \in todo' \/ QueueRearm(a)
<1> DEFINE Goal == /\ <<a, "queue">> \in todo => <<a, "queue">> \in todo' \/ QueuePush(a)
                   /\ <<a, "rearm">> \in todo => <<a, "rearm">> \in todo' \/ QueueRearm(a)
<1>1. ASSUME NEW b \in Artifacts, QueuePush(b) \/ QueueRearm(b) PROVE Goal
  <2>1. CASE b = a
    BY <1>1, <2>1 DEF QueuePush, QueueRearm
  <2>2. CASE b # a
    BY <1>1, <2>2 DEF QueuePush, QueueRearm
  <2> QED  BY <2>1, <2>2
<1>2. ASSUME NEW b \in Artifacts, Upload(b) \/ Delete(b) \/ CancelPushes(b) \/ FanOutDelete(b) PROVE Goal
    BY <1>2 DEF Upload, Delete, CancelPushes, FanOutDelete
<1>3. ASSUME todo' = todo PROVE Goal
    BY <1>3
<1>4. ASSUME NEW r \in Replicas, Work(r) \/ LoopFails(r) \/ Crash(r) PROVE todo' = todo
    BY <1>4 DEF Work, Recover, FetchPeer, ResetFailed, Claim, LoopFails, Crash
<1>5. ASSUME NEW e \in execs, Transfer(e) \/ Trouble(e) PROVE todo' = todo
    BY <1>5 DEF Transfer, Trouble, FilterOut, Begin, Deliver, Succeed, Fail, Finalize, SettleSuccess,
                SettleFailure, RearmIfSuperseded, ExtendClaim, GiveUp, SettleFails
<1>6. ASSUME Tick \/ BackoffEnds \/ PeerStale \/ PeerProbed \/ UNCHANGED vars PROVE todo' = todo
    BY <1>6 DEF Tick, BackoffEnds, PeerStale, PeerProbed, vars
<1>7. ASSUME NEW b \in Artifacts PROVE ~ContinuationFails(b)
    BY DEF ContinuationFails, NoneLost
<1> HIDE DEF Goal
<1>8. Goal
    BY <1>1, <1>2, <1>3, <1>4, <1>5, <1>6, <1>7 DEF Next, Request, Continue
<1> QED  BY <1>8 DEF Goal

\* Whatever a step does, the current version of a live artifact stays promised.
LEMMA PromiseStep ==
  ASSUME Steady, NoneLost, Orderly, Versioned, PushesCurrent, UploadsPromised, [Next]_vars
  PROVE  UploadsPromised'
<1> SUFFICES ASSUME NEW a \in Artifacts \ Filtered, ~art'[a].deleted
             PROVE  art'[a].ver # 0 /\ Promised(a)'
    BY DEF UploadsPromised, Live
<1> DEFINE k == PushOf(a)
<1>k. /\ k \in Keys /\ k[1] = a /\ k[2] = "push"
      /\ \A b \in Artifacts : (k = PushOf(b) => a = b) /\ k # DeleteOf(b)
      /\ task \in [Keys -> Row]
    BY KeyFacts, KeyPairs DEF Steady, RowsOK
<1>1. CASE Upload(a)
  <2>1. <<a, "queue">> \in todo' /\ art'[a].ver = art[a].ver + 1 /\ art[a].ver \in Nat
    BY <1>1, RequestFacts DEF Upload, Steady
  <2> QED  BY <2>1 DEF Promised
<1>2. CASE ~Upload(a)
  <2>1. art'[a] = art[a] /\ ~art[a].deleted
    BY <1>2, ArtStep, RequestFacts DEF Steady
  <2>2. art[a].ver # 0 /\ Promised(a)
    BY <2>1 DEF UploadsPromised, Live
  <2>3. task[k].status # "absent" => task'[k].status # "absent"
    BY <1>k, RowsStay DEF Steady
  <2>n. <<a, "cancel">> \notin todo /\ <<a, "fanout">> \notin todo
    BY <2>1 DEF Steady, DeletesInTurn
  <2>4. CASE <<a, "queue">> \in todo
    <3>1. CASE QueuePush(a)
      <4>1. <<a, "rearm">> \in todo'
        BY <3>1 DEF QueuePush
      <4>2. task'[k].status # "absent"
        BY <3>1, <1>k DEF QueuePush, Requeued
      <4> QED  BY <2>1, <2>2, <4>1, <4>2 DEF Promised
    <3>2. CASE <<a, "queue">> \in todo'
      BY <2>1, <2>2, <3>2 DEF Promised
    <3> QED  BY <2>4, <3>1, <3>2, TodoStep
  <2>5. CASE <<a, "rearm">> \in todo /\ task[k].status # "absent"
    <3>1. CASE QueueRearm(a)
      <4>1. task' = Rearmed(a, 0) /\ art' = art /\ remote' = remote /\ execs' = execs
        BY <3>1 DEF QueueRearm
      <4>2. Promised(a)'
        BY <2>1, <2>2, <2>5, <4>1, RearmPromises
      <4> QED  BY <2>1, <2>2, <4>2
    <3>2. CASE <<a, "rearm">> \in todo'
      BY <2>1, <2>2, <2>3, <2>5, <3>2 DEF Promised
    <3> QED  BY <2>5, <3>1, <3>2, TodoStep
  <2>6. CASE task[k].status \in {"pending", "failed"}
    <3>1. CASE task'[k].status \in {"pending", "failed"}
      BY <2>1, <2>2, <3>1 DEF Promised
    <3>2. CASE task'[k].status \notin {"pending", "failed"}
      <4>1. (\E r \in Replicas : Claim(r)) /\ Claimable(k) /\ task'[k].status = "in_progress"
        <5>1. ~CancelPushes(a)
          BY <2>n DEF CancelPushes
        <5> HIDE DEF k
        <5> QED  BY <2>6, <3>2, <1>k, <5>1, StatusStep DEF RowSame, RowRearmed, RowFinalized, Steady
      <4>2. PICK r \in Replicas : Claim(r)
        BY <4>1
      <4>3. ~ActiveDelete(a)'
        BY <2>1, <4>1, <1>k, NoDeleteComes DEF Claimable
      <4>4. \E f \in execs' : f.key = k /\ f.ver = art[a].ver /\ f.pc = "spawned"
        <5>1. PICK S \in SUBSET {j \in Keys : Claimable(j)} : \E tokenOf \in [S -> Tokens \ UsedTokens] :
                  /\ task' = [j \in Keys |-> IF j \in S THEN ClaimedRow(task[j].retries, tokenOf[j]) ELSE task[j]]
                  /\ execs' = execs \cup {NewExec(r, j, tokenOf[j]) : j \in S}
          BY <4>2, ClaimFacts
        <5>2. k \in S
          BY <2>6, <4>1, <5>1, <1>k
        <5>3. PICK t : NewExec(r, k, t) \in execs'
          BY <5>1, <5>2
        <5> QED  BY <5>3, <1>k DEF NewExec
      <4>5. HeldOrSent(a)'
        BY <2>1, <4>3, <4>4 DEF HeldOrSent
      <4> QED  BY <2>1, <2>2, <4>5 DEF Promised
    <3> QED  BY <3>1, <3>2
  <2>7. ASSUME NEW e \in execs, e.key = k, e.ver # art[a].ver PROVE art'[a].ver # 0 /\ Promised(a)'
    <3>1. CASE RearmIfSuperseded(e)
      <4>1. task' = Rearmed(a, e.ver) /\ art' = art /\ remote' = remote
        BY <2>7, <3>1, <1>k DEF RearmIfSuperseded
      <4>2. \A f \in execs : UnderWay(f) => f \in execs'
        BY <3>1 DEF RearmIfSuperseded, Gone, UnderWay
      <4>3. task[k].status # "absent"
        BY <2>7 DEF PushesCurrent
      <4>4. Promised(a)'
        BY <2>1, <2>7, <4>1, <4>2, <4>3, RearmPromises
      <4> QED  BY <2>1, <2>2, <4>4
    <3>2. CASE ~RearmIfSuperseded(e)
      <4>1. \E f \in execs' : f.key = k /\ f.ver # art'[a].ver
        BY <2>1, <2>7, <3>2, <1>k, ExecStays
      <4> QED  BY <2>1, <2>2, <4>1 DEF Promised
    <3> QED  BY <3>1, <3>2
  <2>8. CASE HeldOrSent(a)
    <3>1. ~ActiveDelete(a) /\ ~ActiveDelete(a)'
      BY <2>1, <2>8, NoDeleteComes DEF HeldOrSent
    <3>2. CASE remote[a] = art[a].ver
      <4>1. ASSUME NEW g \in execs, Deliver(g), g.key = DeleteOf(a) PROVE FALSE
        BY <3>1, <4>1, DeliverOwns
      <4>2. CASE remote'[a] = art[a].ver
        BY <2>1, <2>2, <3>1, <4>2 DEF Promised, HeldOrSent
      <4>3. CASE remote'[a] # art[a].ver
        <5>1. PICK g \in execs : Deliver(g) /\ g.key = k /\ remote'[a] = g.ver
          BY <3>2, <4>1, <4>3, RemoteStep DEF Steady
        <5> QED  BY <2>7, <4>3, <5>1
      <4> QED  BY <4>2, <4>3
    <3>3. CASE \E e \in execs : e.key = PushOf(a) /\ e.ver = art[a].ver /\ e.pc \in {"spawned", "running"}
      <4>1. PICK e \in execs : e.key = k /\ e.ver = art[a].ver /\ e.pc \in {"spawned", "running"}
        BY <3>3
      <4>2. ~RearmIfSuperseded(e)
        BY <4>1 DEF RearmIfSuperseded
      <4>3. PICK f \in execs' :
                /\ f.key = e.key /\ f.ver = e.ver
                /\ f = e \/ (Begin(e) /\ f.pc = "running") \/ Deliver(e) \/ (Fail(e) /\ Owns(e))
        BY <4>1, <4>2, <1>k, ExecStays
      <4>4. CASE f = e \/ (Begin(e) /\ f.pc = "running")
        <5>1. HeldOrSent(a)'
          BY <2>1, <3>1, <4>1, <4>3, <4>4 DEF HeldOrSent
        <5> QED  BY <2>1, <2>2, <5>1 DEF Promised
      <4>5. CASE Deliver(e)
        <5>1. remote'[a] = art'[a].ver
          BY <2>1, <4>1, <4>5, <1>k DEF Deliver, Orderly, Steady, RestOK
        <5>2. HeldOrSent(a)'
          BY <3>1, <5>1 DEF HeldOrSent
        <5> QED  BY <2>1, <2>2, <5>2 DEF Promised
      <4>6. CASE Fail(e) /\ Owns(e)
        <5>1. task' = [task EXCEPT ![k] = Settled("failed", NewRetryCount(e))]
          BY <4>1, <4>6 DEF Fail, Finalize
        <5>2. task'[k].status = "failed"
          BY <5>1, <1>k DEF Settled
        <5> QED  BY <2>1, <2>2, <5>2 DEF Promised
      <4> QED  BY <4>3, <4>4, <4>5, <4>6
    <3> QED  BY <2>8, <3>2, <3>3 DEF HeldOrSent
  <2> QED  BY <2>2, <2>4, <2>5, <2>6, <2>7, <2>8 DEF Promised
<1> QED  BY <1>1, <1>2

\* In a versioned repository, when the queue has come to rest, the peer holds the
\* current version of every artifact that is there and passes the filter: for any
\* number of uploads, replacements and deletes that overtake the transfers of
\* earlier ones, transfers that fail before or after their effect, and a peer that
\* comes and goes.  Every upload stays promised until its version has arrived: by
\* the continuation of the upload, by the row, by an overtaken transfer, which
\* re-arms the row (rearm_if_superseded), or by the transfer that sends it, in
\* whose way no delete can be.  Assumed: no transfer is lost with its claim, no
\* claim expires, requests for one artifact do not overlap, and no other peer is
\* sent the chunks.  Versioned cannot be dropped: without it an overtaken push is
\* re-armed only for a delete that finished after it.
THEOREM UploadsArrive ==
  ASSUME NoneLost, NoneExpires, Orderly, Versioned
  PROVE  Spec => []PeerHoldsUploads
<1>1. Init => DeletesInTurn /\ PushesCurrent /\ UploadsPromised
    BY DEF Init, DeletesInTurn, PushesCurrent, UploadsPromised, Live
<1>2. /\ TypeOK /\ RetryBudget /\ TokensApart /\ Worked /\ StillOwned
      /\ DeletesInTurn /\ PushesCurrent /\ UploadsPromised /\ [Next]_vars
      => (DeletesInTurn /\ PushesCurrent /\ UploadsPromised)'
  <2> SUFFICES ASSUME TypeOK, RetryBudget, TokensApart, Worked, StillOwned,
                      DeletesInTurn, PushesCurrent, UploadsPromised, [Next]_vars
               PROVE  (DeletesInTurn /\ PushesCurrent /\ UploadsPromised)'
    OBVIOUS
  <2>1. Steady
    BY InvParts DEF Steady
  <2>2. DeletesInTurn'
    BY <2>1, InTurnStep DEF Steady
  <2> QED  BY <2>1, <2>2, CurrentStep, PromiseStep
<1>3. UploadsPromised => PeerHoldsUploads
  <2> SUFFICES ASSUME UploadsPromised, Quiet, NEW a \in Artifacts \ Filtered, ~art[a].deleted
               PROVE  art[a].ver # 0 /\ remote[a] = art[a].ver
    BY DEF PeerHoldsUploads
  <2>1. art[a].ver # 0 /\ Promised(a)
    BY DEF UploadsPromised, Live
  <2>2. todo = {} /\ execs = {} /\ task[PushOf(a)].status \notin {"pending", "failed"}
    BY KeyFacts DEF Quiet
  <2> QED  BY <2>1, <2>2 DEF Promised, HeldOrSent
<1> QED  BY <1>1, <1>2, <1>3, TypesAndBudget, WorkedHolds, OwnedHolds, PTL DEF Spec
=============================================================================
