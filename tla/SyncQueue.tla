------------------------------ MODULE SyncQueue ------------------------------
(***************************************************************************)
(* Replication of artifacts to one remote peer: the `sync_tasks` queue,    *)
(* the reference RowClaimedQueue of cluster_work.rs.                       *)
(*                                                                         *)
(*   sync_worker.rs           replicas claim pending rows under a per-peer *)
(*                            advisory lock, transfer them to the peer and *)
(*                            finalize them by claim token;                *)
(*   artifact_service.rs      uploads and deletes enqueue the rows;        *)
(*   peer_instance_service.rs the push queue, the re-arming of superseded  *)
(*                            pushes and the peer's liveness.              *)
(*                                                                         *)
(* Peers share no rows, so one is enough; that a transfer may be sent to   *)
(* another peer than its own is one of the faults.  Every SQL statement is *)
(* one atomic step; what a worker does between two statements is not.      *)
(* Claim expiries are kept as time left.                                   *)
(***************************************************************************)
EXTENDS Integers, FiniteSets

CONSTANTS
    Artifacts,    \* artifact rows of a repository the peer is subscribed to
    Filtered,     \* those the subscription's replication filter rejects
    Replicas,     \* backend processes, each with one sync worker loop
    Tokens,       \* claim tokens
    None,         \* no token
    Limit,        \* concurrent_transfers_limit of the peer
    MaxRetries,   \* GREATEST(max_retries, policy)
    ClaimTTL,     \* claim time-to-live
    Versioned,    \* the repository keeps versions: a changed artifact is sent again
    MaxVer,       \* bound: versions of one artifact
    Faults        \* what may go wrong: subset of FaultKinds

\* crash: a process dies.  stall: claims may expire.  db: a statement fails,
\* other than the recovery of expired claims; recover: that one.
\* http: a request fails, before or after its effect.  init: the request that
\* opens a chunked upload fails.  link: the peer's liveness flips.  pause: a
\* worker loop may be held up for as long as a claim lasts.  overlap: a request
\* may begin before an earlier one for the same artifact has done its work.
\* scored: resolve_scored_peer finds another peer that advertises chunks.
FaultKinds == {"crash", "stall", "db", "recover", "http", "init", "link", "pause", "overlap", "scored"}

ASSUME ConstantsAssumption ==
    /\ Limit \in Nat \ {0} /\ MaxRetries \in Nat \ {0} /\ ClaimTTL \in Nat \ {0}
    /\ MaxVer \in Nat
    /\ Versioned \in BOOLEAN
    /\ Faults \subseteq FaultKinds
    /\ Filtered \subseteq Artifacts
    /\ None \notin Tokens
    /\ IsFiniteSet(Artifacts) /\ IsFiniteSet(Tokens)

Keys == Artifacts \X {"push", "delete"}

PushOf(a) == <<a, "push">>
DeleteOf(a) == <<a, "delete">>

VARIABLES
    art,     \* artifact -> deleted flag and content version (0: never uploaded)
    task,    \* key -> the sync_tasks row
    later,   \* artifact -> which of its rows has the later completed_at
    todo,    \* what requests and spawned tasks still have to do after a commit
    peer,    \* the peer_instances row: online, backoff, active (active_transfers)
    remote,  \* artifact -> the version the peer holds (0: none)
    loop,    \* replica -> where its worker loop is, with its slot snapshot
    execs    \* the spawned transfers

vars == <<art, task, later, todo, peer, remote, loop, execs>>

Statuses == {"absent", "pending", "in_progress", "completed", "failed", "cancelled"}

Row == [status : Statuses, retries : 0..MaxRetries, token : Tokens \cup {None}, left : 0..ClaimTTL]

PeerRow == [online : BOOLEAN, backoff : BOOLEAN, active : Nat]

Exec == [key : Keys, token : Tokens, rep : Replicas, retries : 0..MaxRetries, ver : 0..MaxVer,
         pc : {"spawned", "running", "delivered", "succeeded", "failed", "rearm"}]

TypeOK ==
    /\ art \in [Artifacts -> [deleted : BOOLEAN, ver : 0..MaxVer]]
    /\ task \in [Keys -> Row]
    /\ later \in [Artifacts -> {"none", "push", "delete"}]
    /\ todo \subseteq Artifacts \X {"queue", "rearm", "cancel", "fanout"}
    /\ peer \in PeerRow
    /\ remote \in [Artifacts -> 0..MaxVer]
    /\ loop \in [Replicas -> [pc : {"idle", "recovered", "fetched", "ready"}, slots : Int]]
    /\ execs \subseteq Exec
    /\ \A k \in Keys : task[k].status = "in_progress" <=> task[k].token # None

NoRow == [status |-> "absent", retries |-> 0, token |-> None, left |-> 0]

Init ==
    /\ art = [a \in Artifacts |-> [deleted |-> TRUE, ver |-> 0]]
    /\ task = [k \in Keys |-> NoRow]
    /\ later = [a \in Artifacts |-> "none"]
    /\ todo = {}
    /\ peer = [online |-> TRUE, backoff |-> FALSE, active |-> 0]
    /\ remote = [a \in Artifacts |-> 0]
    /\ loop = [r \in Replicas |-> [pc |-> "idle", slots |-> 0]]
    /\ execs = {}

----------------------------------------------------------------------------
(* Rows. *)

\* A row back in the queue; started_at, completed_at and the claim are cleared.
Requeued(n) == [status |-> "pending", retries |-> n, token |-> None, left |-> 0]

\* A row after a finalizer: the claim is cleared.
Settled(s, n) == [status |-> s, retries |-> n, token |-> None, left |-> 0]

ClaimedRow(n, t) == [status |-> "in_progress", retries |-> n, token |-> t, left |-> ClaimTTL]

\* Faulty variant: one retry too many.
RetriableOnceMore(row) == row.status = "failed" /\ row.retries <= MaxRetries

Retriable(row) == row.status = "failed" /\ row.retries < MaxRetries

LiveClaims == {k \in Keys : task[k].status = "in_progress" /\ task[k].left > 0}

\* A delete that is queued, running or to be retried keeps pushes waiting.
ActiveDelete(a) ==
    \/ task[DeleteOf(a)].status \in {"pending", "in_progress"}
    \/ Retriable(task[DeleteOf(a)])

\* REARM_SUPERSEDED_PUSH_SQL for the push of a that sent version ver (0: none).
Superseded(a, ver) ==
    /\ task[PushOf(a)].status \in {"completed", "failed", "cancelled"}
    /\ ~art[a].deleted
    /\ \/ Versioned /\ art[a].ver # ver
       \/ task[DeleteOf(a)].status \in {"pending", "in_progress"}
       \/ task[DeleteOf(a)].status \in {"completed", "failed"} /\ later[a] = "delete"

Rearmed(a, ver) ==
    IF Superseded(a, ver) THEN [task EXCEPT ![PushOf(a)] = Requeued(0)] ELSE task

----------------------------------------------------------------------------
(* Requests: upload and delete, with their best-effort continuations. *)

InTurn(a) == "overlap" \in Faults \/ \A w \in todo : w[1] # a

\* The artifact row is inserted, resurrected or replaced (a live row too: in a
\* versioned repository, and in any other one under a new version); then a task
\* is spawned that queues the pushes.
Upload(a) ==
    /\ art[a].ver < MaxVer
    /\ InTurn(a)
    /\ art' = [art EXCEPT ![a] = [deleted |-> FALSE, ver |-> @.ver + 1]]
    /\ todo' = todo \cup {<<a, "queue">>}
    /\ UNCHANGED <<task, later, peer, remote, loop, execs>>

\* queue_sync_task, first statement: insert, or only raise the priority.
QueuePush(a) ==
    /\ <<a, "queue">> \in todo
    /\ todo' = (todo \ {<<a, "queue">>}) \cup {<<a, "rearm">>}
    /\ task' = IF task[PushOf(a)].status = "absent"
               THEN [task EXCEPT ![PushOf(a)] = Requeued(0)] ELSE task
    /\ UNCHANGED <<art, later, peer, remote, loop, execs>>

\* queue_sync_task, second statement: rearm_superseded_push(id, None).
QueueRearm(a) ==
    /\ <<a, "rearm">> \in todo
    /\ todo' = todo \ {<<a, "rearm">>}
    /\ task' = Rearmed(a, 0)
    /\ UNCHANGED <<art, later, peer, remote, loop, execs>>

\* commit_delete_in_tx; finish_delete follows after the commit.
Delete(a) ==
    /\ ~art[a].deleted
    /\ InTurn(a)
    /\ art' = [art EXCEPT ![a].deleted = TRUE]
    /\ todo' = todo \cup {<<a, "cancel">>}
    /\ UNCHANGED <<task, later, peer, remote, loop, execs>>

\* finish_delete: cancel waiting pushes, but not one that is in progress.
CancelPushes(a) ==
    /\ <<a, "cancel">> \in todo
    /\ todo' = (todo \ {<<a, "cancel">>}) \cup {<<a, "fanout">>}
    /\ IF task[PushOf(a)].status \in {"pending", "failed"}
       THEN /\ task' = [task EXCEPT ![PushOf(a)] = Settled("cancelled", @.retries)]
            /\ later' = [later EXCEPT ![a] = "push"]
       ELSE UNCHANGED <<task, later>>
    /\ UNCHANGED <<art, peer, remote, loop, execs>>

\* finish_delete: queue the delete for a peer that is online, again if need be.
FanOutDelete(a) ==
    /\ <<a, "fanout">> \in todo
    /\ todo' = todo \ {<<a, "fanout">>}
    /\ task' = IF peer.online /\ task[DeleteOf(a)].status # "in_progress"
               THEN [task EXCEPT ![DeleteOf(a)] = Requeued(0)] ELSE task
    /\ UNCHANGED <<art, later, peer, remote, loop, execs>>

\* A continuation's statement fails, which is only logged: finish_delete goes on
\* with its next statement, queue_sync_task gives up.
ContinuationFails(a) ==
    /\ "db" \in Faults
    /\ \E step \in {"queue", "rearm", "cancel", "fanout"} :
          /\ <<a, step>> \in todo
          /\ todo' = (todo \ {<<a, step>>})
                       \cup (IF step = "cancel" THEN {<<a, "fanout">>} ELSE {})
    /\ UNCHANGED <<art, task, later, peer, remote, loop, execs>>

----------------------------------------------------------------------------
(* process_pending_tasks: the worker loop of replica r. *)

At(r, s) == loop[r].pc = s
Goto(r, s) == loop' = [loop EXCEPT ![r].pc = s]

NonNegative(n) == IF n > 0 THEN n ELSE 0

\* recover_expired_sync_task_claims: one statement for the rows and the counter.
Recover(r) ==
    /\ At(r, "idle")
    /\ LET lapsed == {k \in Keys : task[k].status = "in_progress" /\ task[k].left = 0}
       IN  /\ task' = [k \in Keys |->
                          IF k \in lapsed THEN Requeued(task[k].retries) ELSE task[k]]
           /\ peer' = [peer EXCEPT !.active = NonNegative(@ - Cardinality(lapsed))]
    /\ Goto(r, "recovered")
    /\ UNCHANGED <<art, later, todo, remote, execs>>

Eligible == peer.online /\ ~peer.backoff

\* The peer row is read, and with it the slot count (compute_available_slots).
FetchPeer(r) ==
    /\ At(r, "recovered")
    /\ loop' = [loop EXCEPT ![r] = IF Eligible THEN [pc |-> "fetched", slots |-> Limit - peer.active]
                                   ELSE [pc |-> "idle", slots |-> 0]]
    /\ UNCHANGED <<art, task, later, todo, peer, remote, execs>>

\* Failed rows with retries left go back to the queue, if the peer still is
\* eligible and, for a push, the artifact still is there.
ResetFailed(r) ==
    /\ At(r, "fetched")
    /\ task' = [k \in Keys |->
                  IF /\ Eligible /\ Retriable(task[k])
                     /\ k[2] = "delete" \/ ~art[k[1]].deleted
                  THEN Requeued(task[k].retries) ELSE task[k]]
    /\ loop' = [loop EXCEPT ![r] = IF @.slots > 0 THEN [@ EXCEPT !.pc = "ready"]
                                   ELSE [pc |-> "idle", slots |-> 0]]
    /\ UNCHANGED <<art, later, todo, peer, remote, execs>>

Claimable(k) ==
    /\ task[k].status = "pending"
    /\ k[2] = "delete" \/ (~art[k[1]].deleted /\ ~ActiveDelete(k[1]))

\* Faulty variant: the slot snapshot alone limits the claim.
ClaimRoomBySnapshot(slots) == slots

\* LIMIT LEAST(slots, GREATEST(limit - live claims, 0)).
ClaimRoom(slots) ==
    LET room == NonNegative(Limit - Cardinality(LiveClaims))
    IN  IF slots < room THEN slots ELSE room

UsedTokens == {task[k].token : k \in Keys} \cup {e.token : e \in execs}

NewExec(r, k, t) ==
    [key |-> k, token |-> t, rep |-> r, retries |-> task[k].retries,
     ver |-> art[k[1]].ver, pc |-> "spawned"]

\* claim_pending_sync_tasks: under the peer's advisory lock, so one statement at
\* a time; the order of the candidates is left open, and SKIP LOCKED may leave
\* some out.  Every claimed row gets a token of its own and is spawned, unless
\* the answer to the commit is lost.
Claim(r) ==
    /\ At(r, "ready")
    /\ \E S \in SUBSET {k \in Keys : Claimable(k)} :
          /\ Cardinality(S) <= ClaimRoom(loop[r].slots)
          /\ \E tokenOf \in [S -> Tokens \ UsedTokens] :
                /\ \A j, k \in S : j # k => tokenOf[j] # tokenOf[k]
                /\ task' = [k \in Keys |->
                              IF k \in S
                              THEN ClaimedRow(task[k].retries, tokenOf[k])
                              ELSE task[k]]
                /\ \/ execs' = execs \cup {NewExec(r, k, tokenOf[k]) : k \in S}
                   \/ "db" \in Faults /\ execs' = execs
    /\ loop' = [loop EXCEPT ![r] = [pc |-> "idle", slots |-> 0]]
    /\ UNCHANGED <<art, later, todo, peer, remote>>

\* A statement of the loop fails: recovery is only logged, the others end the tick.
LoopFails(r) ==
    /\ \/ "recover" \in Faults /\ At(r, "idle") /\ Goto(r, "recovered")
       \/ /\ "db" \in Faults /\ ~At(r, "idle")
          /\ loop' = [loop EXCEPT ![r] = [pc |-> "idle", slots |-> 0]]
    /\ UNCHANGED <<art, task, later, todo, peer, remote, execs>>

----------------------------------------------------------------------------
(* One transfer. *)

Move(e, s) == execs' = (execs \ {e}) \cup {[e EXCEPT !.pc = s]}
Gone(e) == execs' = execs \ {e}

\* Faulty variant: the finalizers check the status but not the token.
OwnsByStatus(e) == task[e.key].status = "in_progress"

Owns(e) == task[e.key].status = "in_progress" /\ task[e.key].token = e.token

\* The replication filter rejects the artifact: completed without a transfer.
FilterOut(e) ==
    /\ e.pc = "spawned" /\ e.key[1] \in Filtered
    /\ IF Owns(e)
       THEN /\ task' = [task EXCEPT ![e.key] = Settled("completed", @.retries)]
            /\ later' = [later EXCEPT ![e.key[1]] = e.key[2]]
       ELSE UNCHANGED <<task, later>>
    /\ Gone(e)
    /\ UNCHANGED <<art, todo, peer, remote, loop>>

\* execute_transfer: count the transfer first.
Begin(e) ==
    /\ e.pc = "spawned" /\ e.key[1] \notin Filtered
    /\ peer' = [peer EXCEPT !.active = @ + 1]
    /\ Move(e, "running")
    /\ UNCHANGED <<art, task, later, todo, remote, loop>>

\* A chunk is through: extend_sync_task_claim, by token, expired or not.
ExtendClaim(e) ==
    /\ e.pc = "running" /\ e.key[2] = "push"
    /\ Owns(e)
    /\ task' = [task EXCEPT ![e.key] = ClaimedRow(@.retries, e.token)]
    /\ UNCHANGED <<art, later, todo, peer, remote, loop, execs>>

\* The request takes effect, at the peer or at one that scored better.
Deliver(e) ==
    /\ e.pc = "running"
    /\ \/ remote' = [remote EXCEPT ![e.key[1]] = IF e.key[2] = "push" THEN e.ver ELSE 0]
       \/ "scored" \in Faults /\ UNCHANGED remote
    /\ Move(e, "delivered")
    /\ UNCHANGED <<art, task, later, todo, peer, loop>>

\* A finalizer's token-guarded statement: with zero rows the worker leaves.
Finalize(e, row, s) ==
    /\ IF Owns(e)
       THEN /\ task' = [task EXCEPT ![e.key] = row]
            /\ later' = [later EXCEPT ![e.key[1]] = e.key[2]]
            /\ Move(e, s)
       ELSE /\ Gone(e)
            /\ UNCHANGED <<task, later>>
    /\ UNCHANGED <<art, todo, peer, remote, loop>>

\* Faulty variant: a success is not recorded.
SucceedUnrecorded(e) ==
    /\ e.pc = "delivered"
    /\ Gone(e)
    /\ UNCHANGED <<art, task, later, todo, peer, remote, loop>>

\* handle_transfer_success, first statement.
Succeed(e) ==
    /\ e.pc = "delivered"
    /\ Finalize(e, Settled("completed", task[e.key].retries), "succeeded")

\* Faulty variant: an attempt is not counted.
NewRetryCountStuck(e) == e.retries

\* Faulty variant: an attempt is counted twice.
NewRetryCountTwice(e) == e.retries + 2

\* evaluate_task_failure: the count comes from the row as it was claimed.
NewRetryCount(e) == e.retries + 1

\* handle_transfer_failure, first statement; the peer may have seen the request.
Fail(e) ==
    /\ "http" \in Faults
    /\ e.pc \in {"running", "delivered"}
    /\ Finalize(e, Settled("failed", NewRetryCount(e)), "failed")

\* handle_transfer_success, second statement: the peer's counters.
SettleSuccess(e) ==
    /\ e.pc = "succeeded"
    /\ peer' = [peer EXCEPT !.active = NonNegative(@ - 1)]
    /\ Move(e, "rearm")
    /\ UNCHANGED <<art, task, later, todo, remote, loop>>

\* Faulty variant: the failure path keeps the transfer counted.
SettleFailureKeepsCount(e) ==
    /\ e.pc = "failed"
    /\ peer' = [peer EXCEPT !.backoff = TRUE]
    /\ Move(e, "rearm")
    /\ UNCHANGED <<art, task, later, todo, remote, loop>>

\* handle_transfer_failure, second statement: the counters and the backoff.
SettleFailure(e) ==
    /\ e.pc = "failed"
    /\ peer' = [online |-> peer.online, backoff |-> TRUE, active |-> NonNegative(peer.active - 1)]
    /\ Move(e, "rearm")
    /\ UNCHANGED <<art, task, later, todo, remote, loop>>

\* Faulty variant: a push overtaken by an upload or a delete stays completed.
RearmNever(e) ==
    /\ e.pc = "rearm"
    /\ Gone(e)
    /\ UNCHANGED <<art, task, later, todo, peer, remote, loop>>

\* rearm_if_superseded: the artifact changed while it was under way.
RearmIfSuperseded(e) ==
    /\ e.pc = "rearm"
    /\ task' = IF e.key[2] = "push" THEN Rearmed(e.key[1], e.ver) ELSE task
    /\ Gone(e)
    /\ UNCHANGED <<art, later, todo, peer, remote, loop>>

\* The worker returns early: the first statement or a finalizer's failed, or a
\* chunked upload's session could not be opened (no failure is recorded then).
GiveUp(e) ==
    /\ \/ e.pc \in {"spawned", "delivered", "rearm"} /\ "db" \in Faults
       \/ e.pc = "running" /\ e.key[2] = "push" /\ "init" \in Faults
       \/ e.pc = "running" /\ "db" \in Faults
    /\ Gone(e)
    /\ UNCHANGED <<art, task, later, todo, peer, remote, loop>>

\* The counters' statement fails, which is ignored.
SettleFails(e) ==
    /\ "db" \in Faults
    /\ e.pc \in {"succeeded", "failed"}
    /\ Move(e, "rearm")
    /\ UNCHANGED <<art, task, later, todo, peer, remote, loop>>

----------------------------------------------------------------------------
(* The environment. *)

\* A replica dies with its transfers; it restarts with an idle loop.
Crash(r) ==
    /\ "crash" \in Faults
    /\ execs' = {e \in execs : e.rep # r}
    /\ loop' = [loop EXCEPT ![r] = [pc |-> "idle", slots |-> 0]]
    /\ UNCHANGED <<art, task, later, todo, peer, remote>>

\* Nobody is between reading the queue and starting what was read.
NobodyPaused ==
    /\ \A r \in Replicas : At(r, "idle")
    /\ \A e \in execs : e.pc # "spawned"

\* Time passes for the claims.
Tick ==
    /\ "stall" \in Faults
    /\ "pause" \in Faults \/ NobodyPaused
    /\ LiveClaims # {}
    /\ task' = [k \in Keys |-> [task[k] EXCEPT !.left = NonNegative(@ - 1)]]
    /\ UNCHANGED <<art, later, todo, peer, remote, loop, execs>>

BackoffEnds ==
    /\ peer.backoff
    /\ peer' = [peer EXCEPT !.backoff = FALSE]
    /\ UNCHANGED <<art, task, later, todo, remote, loop, execs>>

\* mark_stale_offline.
PeerStale ==
    /\ "link" \in Faults /\ peer.online
    /\ peer' = [peer EXCEPT !.online = FALSE]
    /\ UNCHANGED <<art, task, later, todo, remote, loop, execs>>

\* mark_peer_online, after a probe that got through.
PeerProbed ==
    /\ ~peer.online
    /\ peer' = [peer EXCEPT !.online = TRUE]
    /\ UNCHANGED <<art, task, later, todo, remote, loop, execs>>

----------------------------------------------------------------------------
Request(a) == Upload(a) \/ Delete(a)

Continue(a) == QueuePush(a) \/ QueueRearm(a) \/ CancelPushes(a) \/ FanOutDelete(a)

Work(r) == Recover(r) \/ FetchPeer(r) \/ ResetFailed(r) \/ Claim(r)

Transfer(e) ==
    \/ FilterOut(e) \/ Begin(e) \/ Deliver(e) \/ Succeed(e)
    \/ SettleSuccess(e) \/ SettleFailure(e) \/ RearmIfSuperseded(e)

Trouble(e) == ExtendClaim(e) \/ Fail(e) \/ GiveUp(e) \/ SettleFails(e)

Next ==
    \/ \E a \in Artifacts : Request(a) \/ Continue(a) \/ ContinuationFails(a)
    \/ \E r \in Replicas : Work(r) \/ LoopFails(r) \/ Crash(r)
    \/ \E e \in execs : Transfer(e) \/ Trouble(e)
    \/ Tick \/ BackoffEnds \/ PeerStale \/ PeerProbed

Spec == Init /\ [][Next]_vars

\* The transfer that carries token t.
TransferOf(t) == \E e \in execs : e.token = t /\ Transfer(e)

ClaimOf(r, k) == task[k].status = "pending" /\ Claim(r) /\ task'[k].status = "in_progress"

\* What the runtime gives: spawned tasks and the loop's ticker run, backoffs end,
\* claims run out, and a row that is claimable again and again is claimed (the
\* claim statement serves the oldest first).  Nothing makes a request happen.
Fairness ==
    /\ \A a \in Artifacts : WF_vars(Continue(a))
    /\ \A r \in Replicas : WF_vars(Work(r))
    /\ \A r \in Replicas, k \in Keys : SF_vars(ClaimOf(r, k))
    /\ \A t \in Tokens : WF_vars(TransferOf(t))
    /\ SF_vars(Tick) /\ WF_vars(BackoffEnds) /\ WF_vars(PeerProbed)

FairSpec == Spec /\ Fairness

----------------------------------------------------------------------------
(* Properties. *)

\* "Making the cap hard": the peer never has more live claims than its
\* concurrent_transfers_limit, however many replicas claim for it.
CapHeld == Cardinality(LiveClaims) <= Limit

\* A row is queued or running, and a transfer works on it, only while it has
\* retries left: neither recovery nor re-queueing revives a row whose attempts
\* are used up.
RetryBudget ==
    /\ \A k \in Keys : task[k].status \in {"pending", "in_progress"} => task[k].retries < MaxRetries
    /\ \A e \in execs : e.retries < MaxRetries

\* Transfers that were counted in active_transfers and not yet uncounted.
Counted == {e \in execs : e.pc \in {"running", "delivered", "succeeded", "failed"}}

\* Without crashes and expiries active_transfers is the number of transfers
\* under way: success, failure and re-arming each give back what was taken.
CounterExact == peer.active = Cardinality(Counted)

\* Short of a crash, a failing statement and a chunked upload whose session could
\* not be opened, a live claim, and the slot of the peer's limit it takes, is held
\* only while a transfer works on it: a transfer that ends, well or badly, has
\* finalized its row.
ClaimHasWorker == \A k \in LiveClaims : \E e \in execs : e.token = task[k].token

\* Nothing is queued, running or failed, and no request is still at work.
Quiet ==
    /\ todo = {} /\ execs = {}
    /\ \A k \in Keys : task[k].status \in {"absent", "completed", "cancelled"}

\* When the queue of a versioned repository has come to rest, the peer has the
\* current version of every artifact, though it was uploaded, deleted, uploaded
\* again or replaced while an earlier push or delete was queued or under way.
\* Without versions an artifact replaced in place is not sent again, on purpose, and
\* the formula asks only that the peer has it; that can fail, and it can fail with
\* versions too when an upload overtakes the tail of a delete ("overlap").
PeerHoldsUploads ==
    Quiet => \A a \in Artifacts \ Filtered : ~art[a].deleted =>
        remote[a] # 0 /\ (Versioned => remote[a] = art[a].ver)

\* "A worker whose claim expired and was re-claimed elsewhere cannot clobber
\* the new owner's state": a live claim ends by a step of the transfer that
\* carries its token, never by a stale transfer, a request or another loop.
ClaimEndsByOwner ==
    \A k \in LiveClaims : task'[k].token # task[k].token =>
        \E e \in execs \ execs' : e.key = k /\ e.token = task[k].token

LiveClaimFenced == [][ClaimEndsByOwner]_vars

\* A row has been dealt with: done, withdrawn, out of retries, or a push whose
\* artifact is gone (it may stay in the queue, where nothing claims it).
DealtWith(k) ==
    \/ task[k].status \in {"completed", "cancelled"}
    \/ task[k].status = "failed" /\ ~Retriable(task[k])
    \/ k[2] = "push" /\ art[k[1]].deleted

\* Every queued row is dealt with in the end, if the peer stays reachable from some
\* time on: retries are bounded, backoff and the delete-before-push rule keep
\* nothing waiting forever.
QueueDrains ==
    <>[](peer.online) =>
        \A k \in Keys : task[k].status \in {"pending", "in_progress"} ~> DealtWith(k)
=============================================================================
