# Artifact Keeper: TLA+ specifications

Artifact Keeper is a package registry written in Rust. Several backend replicas
share one PostgreSQL database and one object store, serve forty-odd package
formats, proxy upstream registries, scan what they store and replicate artifacts
to peer installations. Package formats are parsing and rendering; what is hard
in this system is the *work the replicas share*: claims, leases, queues,
retries and best-effort continuations over a database that each replica may
lose at any moment. That is what these modules specify.

## Inventory

| Component | State | Operations | Interacts with | Hard because |
|---|---|---|---|---|
| Scheduler lease, `services/cluster_work.rs` | one `scheduler_leases` row per job; token, heartbeat task and cancellation token in memory | acquire, renew, release, heartbeat, loss | every periodic job | pauses, lost answers, statements that outlive their sender, crashes |
| Periodic jobs, `services/scheduler_service.rs` | a ticker per job | tick, run, release | lease; lifecycle, GC, health monitor, re-evaluation, backups | who runs, for how long, when it stops |
| Peer sync queue, `services/sync_worker.rs` | `sync_tasks` rows with claim token and expiry; `peer_instances` counters and backoff; spawned transfers | recover, fetch, reset, claim, transfer, extend, finalize, re-arm | uploads and deletes, remote peers | concurrent claimers, expiry, stale finalizers, counters in statements of their own |
| Peers and subscriptions, `services/peer_instance_service.rs` | `peer_instances`, `peer_repo_subscriptions` | queue a push, re-arm, mark stale, heartbeat, run-now | sync queue | peer flips between online and offline |
| Artifact service, `services/artifact_service.rs` | `artifacts` rows | upsert, soft delete, post-commit fan-out | sync queue, quota, storage | continuations run after the commit, in any order |
| Chunked uploads, `services/upload_service.rs`, `api/handlers/upload.rs` | `upload_sessions` with a commit lease, `upload_chunks`, `upload_staging_orphans`, staged objects | create, PATCH, complete, cancel, reap, clean up before a retry | artifact service, peers, storage | storage and database commit apart; duplicate completes, crash in the middle of a commit |
| OCI registry, `api/handlers/oci_v2.rs` | `oci_blobs`, `oci_tags`, `manifest_blob_refs`, `oci_upload_cleanup_keys` | HEAD, mount, push, manifest PUT, tag delete | storage GC | a blob and its manifest are two requests; repositories share one object |
| Storage GC, `services/storage_gc_service.rs` | claims and tombstones on journal rows, marks on blob rows | claim, tombstone, delete, reap; gate, prune, mark, sweep | OCI pushes, uploads, lifecycle | references appear between check and delete |
| Proxy cache and hydration, `services/proxy_service.rs`, `proxy_hydration.rs`, `cluster_lock.rs` | per process a stream registry, a publish registry and memoised sidecars; shared the advisory lock, the cached object and its sidecar | cache read, election, fan-out, wait for the lock, fill, publish, evict | upstreams, storage, clients | the leader is a client's response: it may stop at any byte; the publish outlives it |
| Webhooks, migrations, backups | claimed rows, due runs | claim, deliver, retry | remote services | retries of what was already done |
| Scans, quarantine, promotion | scan rows, holds, approvals | start, finish, reap, hold, release | uploads, downloads | worker dies, decision on stale result |
| Authentication, permissions, SSO | users, tokens, device grants | login, rotate, poll, revoke | every handler | mostly cryptography and directory I/O |
| Format handlers, search, SBOM, WASM, storage backends | none of their own | parse, render, adapt | external systems | data, not protocol |

What makes the parts correct:

- *Lease*: at most one replica in a job while heartbeats are on time; a dead
  holder blocks the job for no longer than its TTL; a stale holder harms nobody;
  a run that lost its lease stops; the job is never given up.
- *Sync queue*: a peer never has more live claims than its limit; only the owner
  of a claim ends it; retries are bounded; the counter returns to what is under
  way; a claim has a worker; the queue drains; at rest the peer has what it
  should have.
- *Chunked upload*: one committer at a time; completed means committed and
  stored; an ended session writes nothing and stays ended; no purge takes a
  counted chunk of a session that can still be completed; staging is reclaimed
  whoever dies.
- *Blobs*: a committed blob row has its bytes; bytes are deleted only under a
  claim; no collector takes what a tag serves.
- *Proxy stream*: a response that ends well has the whole body, whoever fetched
  it; fills under the lock follow one another, and whoever the lock wakes finds
  the entry; nobody waits for ever; the key is never left locked.

## Modules

| Module | Models |
|---|---|
| `SingletonJob` | abstract specification: at most one replica is in a periodic job |
| `SchedulerLease` | the lease protocol, the heartbeat and the job loop around them |
| `SchedulerLeaseProofs` | its theorems |
| `SyncQueue` | uploads and deletes, the task queue, the worker loops, transfers and the peer |
| `SyncQueueProofs` | its theorems that hold whatever fails |
| `SyncQueueSteadyProofs` | its theorems that need some faults to be absent |
| `ChunkedUpload` | one chunked upload session: PATCH, complete, cancel, the reaper, the retry clean-up |
| `ChunkedUploadProofs` | its theorems |
| `OciBlobGc` | one OCI blob: pushes, mounts, deletes, the cleanup journal's sweep, the blob collector |
| `OciBlobGcProofs` | its theorems |
| `ProxyStream` | one proxied object: cache reads, election per process and per cluster, fan-out, the cache writer |
| `ProxyStreamProofs` | its theorems |
| `MCSchedulerLease`, `MCSyncQueue`, `MCChunkedUpload`, `MCOciBlobGc` | symmetry for TLC, nothing else |
| `MCProxyStream` | the placements of requests that differ: the first request is on the first replica |

The modules share no variables: a lease, a peer's queue, an upload session, a
blob and a proxied object meet only in that the lease runs the jobs (the
collector's tick, the reaper), which each module lets stop at any point when
`crash` is among its faults.

### SchedulerLease

`lease` is the row: owner, token and time left. `tok`, `pc`, `lost`, `hb`,
`hbLeft` and `misses` are the memory of one replica's run: the token it was
given, how far its loop is (`idle`, `claimed`, `check`, `item`, `finish`),
whether its cancellation token has fired, and its heartbeat task. `wire` holds
renewals whose sender has been aborted or has died, which the database may still
execute. `orphanFor` only observes: how long nobody alive has known the row's
token.

`Acquire` is the upsert of `try_acquire_scheduler_lease`, with a new token even
for the same owner; `AcquireNoAnswer` is the upsert that commits while the quiet
wrapper reports an error; `SkipTick` is another's lease, or a failed statement.
`Start` spawns the heartbeat. `BeginItem` and `EndItem` are the items of a job
between which it looks at the token (lifecycle policies); a job that never looks
is one with a single item. `StopWork` drops the renewal guard and `Finish` is the
release, which may fail. `RenewSend` and the three answers follow the loop in
`spawn_renewal_loop_with_cancellation`; the interval counts from the tick, not
from the answer. `Crash` gives a replica a new identity, as the per-boot UUID does.

All time is time left, so there is no clock to bound. Tokens and identities are
random in the code; here a new one is any value nobody refers to, which keeps
both sets finite. `Renews` distinguishes jobs with a heartbeat (lifecycle,
storage GC) from jobs that hold a fixed lease (environment re-evaluation).

`Spec` lets every process pause for any time. `TimelySpec` adds what mutual
exclusion really needs: a heartbeat is sent and answered before its deadline
passes, and at most `MaxMisses` renewals in a row fail.

### SyncQueue

One peer, because peers share no rows. A key is an artifact and a task type, as
in the table's unique constraint. `task` is the row of each key, `art` the
artifact's deleted flag and version (for its checksum), `remote` what the peer
holds. A live row is replaced in every repository (the upsert lets another version
pass); only where versions are kept (`Versioned`) does the re-arm statement look at
the checksum. `later` keeps the only thing the code asks about two `completed_at`
stamps: which is later. `todo` holds what requests have not done yet after their
commit: the spawned `queue_push_sync_tasks`, and the statements of
`finish_delete`. `loop` is where each replica's `process_pending_tasks` is, with
the slot count it computed from a counter it read earlier. `execs` are the
spawned transfers.

Each SQL statement is one action, and nothing is atomic across two of them. A
transfer goes `spawned`, `running` (counted), `delivered` (the peer has seen
it), `succeeded` or `failed` (its row is settled), `rearm` (the counter is
settled). `Claim` runs under the per-peer advisory lock, so it is one step; it
may claim any set of candidates within the limit, because priorities are open and
`SKIP LOCKED` may leave some out, and a sync window may leave out all. `Finalize`
is the token-guarded statement of both finalizers.

`Faults` says what may go wrong in a run: `crash`, `stall` (claims may expire),
`db`, `recover`, `http`, `init`, `link`, `pause`, `overlap`, `scored`; the module explains
each. Time passes only while no loop is between reading the queue and starting
what it read, unless `pause` allows it: a claim lasts half an hour and a loop
takes milliseconds.

Left out: building URLs and requests, chunk ranges, OCI blob closures (one
transfer here), priorities, sync windows (a loop may claim nothing), byte counts,
run-now requests, sync policies, unregistering peers, and request processes that
die before their continuation.

### ChunkedUpload

One session, because sessions share no rows. `status`, `token`, `lease`,
`purged` and `expired` are its row, `row` and `count` the chunk rows and the
counter, `staged` the objects in shared staging, `orphan` the
`upload_staging_orphans` row the delete trigger writes, `art` and `blob` what a
commit leaves at the path. `upc` and `cpc` say where each PATCH and each complete
request is; `canc`, `reap` and `repl` the cancel that won, the reaper and the
clean-up before a replication retry.

A PATCH reads the session (`UploadCheck`), locks its chunk row, stores the bytes
while it holds the lock, and settles chunk and counter if the session is still
open; otherwise it rolls back, which frees the chunk, and deletes what it stored; a
delete that fails (`discard`) queues the session as an orphan, open or not. A complete claims the
lease with a fresh token, counts, applies the gates, assembles, copies, upserts
the artifact, does the post-commit work, settles the session by token and purges.
Every step may fail, and the handler then releases or fails the session as the
code does. `Cancel`, `ReapExpired` and the purge passes follow the statements'
`WHERE` clauses. `art` tells apart what the two rules of
`enforce_path_immutability` and the upsert's `WHERE` tell apart: our row, other
bytes of our version, another version, and a row without a version, each live or
deleted. `LeaseLapses` hits a lease whose owner is dead, or any with
`stall`.

Left out: byte ranges and hashing (a chunk's bytes are the declared ones or
not), quota arithmetic (`refuse`), progress reports, and several sessions for one
path, which are `OtherAtPath`.

### OciBlobGc

One digest and one image manifest that references it. `obj` is the object, one
for all `Repos` of the bucket. Per repository there are the `oci_blobs` row
(`blob`: none, live, stamped with a mark, or ripe for the sweep; `old`; `lock`),
the tags and the reference, and the journal row (`jage`, `tomb`, `claim`,
`owner`). A filesystem backend keeps the object per storage path: that is one
repository here.

A client finds the blob by HEAD, mounts it, or uploads it: `RegisterKey`,
`CopyBlob`, `GuardCommit` (`claim_cleanup_journal_row_for_blob_commit`, which
takes the per-key advisory lock) and `CommitBlob`, which waits for the row. Then
it puts the manifest in one transaction of three steps, because it waits twice:
`BeginManifest` writes the tag, locks the blob row and inserts the reference
unless a committed one exists; `RecordManifest` reaches the `oci_manifests` row
that `DeleteTag` locks as well; `CommitManifest` publishes all of it. Clients
follow the protocol: they put a manifest after a HEAD that found the blob, a
mount or an upload. `PushFails` is a failed statement, a refusal, a crash or a
client that left.

The journal's sweepers claim, tombstone, delete and reap one key each; a claim
late in a batch may have lapsed. The collector's tick reads the gate, prunes,
marks and sweeps row by row. Time is what the predicates ask about: whether a row
is older than 24 hours, a mark older than the grace, a claim older than 15
minutes. It passes only when no transaction of the repository is open, and, short
of `slow` and `late`, not under a push it is meant to outlast.

Left out: image indexes, referrers, pull-through caching, the upload session
around a chunked push, the `Unreferenced` family (the same protocol on part
keys), migrations and promotions (they insert rows like a mount), and deleting a
repository.

### ProxyStream

Requests for one immutable path, each on a replica. A request is where
`streaming_gated_fetch` is (`pc`), with the attempts it has used (`tries`), the
leader it follows (`of`, `pos`) and what its client has or will get (`got`).
`slot` is the stream registry of a process, `sent` and `term` the broadcast of a
leader, `wr` its cache writer and `registry` the publish registry. `live` and
`side` are the cached object and its sidecar, counted in chunks, so that a
truncated body, a short copy and a sidecar that does not agree are different
states; `lru` is the memoised sidecar of a process, a memoised miss included.
`load` is the load that `try_get_with` has under way in a process, with what it has
read: a load is two steps, and everyone of the process who asks meanwhile shares it.
`lock` is the advisory lock. `leased` (the fill was opened under the lock, a held one
too) and `woken` (the lock woke the request while the entry was there, with or
without a load under way) only observe; an overwrite that fails, and an eviction, end
what `woken` expects.

A request loads the sidecar, waits for a publish in its tail (`AwaitPublish`),
opens the object if the size agrees and evicts the entry if not (object, sidecar
and memoised sidecar, each a step), and otherwise takes the slot or follows the request that has it. A leader tries the lock; if
another has it, it waits, and the grant sends it and its followers back to the
cache (`ReElect`). `Open` is `open_streaming_leader` with `tee_stream`,
`OpenUncached` and `OpenHeld` its quota and hold arms. A follower takes chunks from a
channel of `Depth` items and serves them only after the marker of a complete body;
all other ends are a re-enter, `Budget` times, then it fetches on its own. The
writer stages, copies, measures, writes the sidecar and drops the memoised one, in
that order, long after the client may have gone. A cancelled wait for the lock
leaves a session the server may still grant it to (`GhostWait`).

Abstracted: the path is immutable, so nothing expires or is revalidated, and
there is no negative caching; the sidecar carries no ETag (filesystem storage), so
the size check is the guard, and it and the opening of the object are one step.
Chunks have no sizes: any one
may be the one over `FANOUT_CAPTURE_MAX_BYTES`, and the abandoned write of an
object over the ceiling is a writer that rejects. A stale copy served instead of
an upstream that fails is `OpenUncached`; the expected digest's mismatch is a
failing `put_stream`. An upstream that ends early without an error leaves a short
response with a longer `Content-Length`, which HTTP reports; it is not modelled.

What the model shows beside its properties: a leader that wins the lock does not
look at the cache again, so a request may fetch an object published between its
miss and its lock; and a publish that ends between the load and the look at the
registry is missed in the same way. Both cost a second fetch of the same bytes, not
correctness; so do a lock given up under a held fill and a stale load (see *What other
constants refute*).

## Runs

| Run | Expected | Shows |
|---|---|---|
| `lease_timely` | pass | `TypeOK`, `NoOverlap`, the inductive `HolderBudget`, and that the protocol implements `SingletonJob`: three replicas, one missed renewal allowed |
| `lease_live` | pass | `TakenRunStops`, `JobKeepsRunning`, `OrphanExpires`, `LiveLeaseFenced` with processes paused for any time |
| `sync_steady` | pass | `TypeOK`, `RetryBudget`, `CounterExact`, `ClaimHasWorker`, `PeerHoldsUploads`, `QueueDrains`: a versioned repository, failing transfers, a peer that comes and goes |
| `sync_claims` | pass | `CapHeld`, `LiveClaimFenced`: two replicas, two artifacts, crashes, failing statements, transfers that abandon their claim, expired claims |
| `upload_commit` | pass | `TypeOK`, `SingleCommitter`, `CompletedWritten`, `EndedWritesNothing`, `NoLeakedChunk`, `StagedKept`: two chunks, two PATCHes that may carry the same one, two completes, crashes, refusals, failing statements and storage calls |
| `upload_fenced` | pass | `CommitFenced`, `CountExact`: completers stalled past their lease, duplicate PATCHes that die anywhere, deletes that fail |
| `upload_live` | pass | `CommitSettles`, `StagingReclaimed` |
| `blob_journal` | pass | `BlobBacked`, `DeleteUnderClaim`: two repositories on one bucket, two clients, two sweepers |
| `blob_gc` | pass | `TypeOK`, `ServedKept`: both collectors, slow pushes, crashes and failing deletes |
| `blob_sibling` | violation | one failed delete hides a push from the sweep of another repository's row, and `BlobBacked` fails |
| `proxy_flight` | pass | `TypeOK`, `WholeBody`, `RequestAnswered`, `LockFreed`: two requests on one or two replicas, every fault but `hang` |
| `proxy_lock` | pass | `LockedFillsApart`, `WokenServed`: three requests, so that a load or an eviction of a woken request's process can be under way |

The passing runs finish in under four minutes each on two workers, with 10 thousand to
three million states.

### The expected violation

`blob_sibling` is the code against what the repository says of it; `PROJECT.json`
quotes the line. Repositories A and B hold old journal rows for one object. A sweep
tombstones A's row, its delete fails, the claim lapses and the tombstone stays. A push
to A has re-registered the row and copied the bytes; registration renews
`last_registered_at` and leaves the tombstone. The sweep of B's row looks for fresh
siblings *without* tombstone, sees none, deletes the object and reaps B's row. The push
finds its own tombstone under a lapsed claim, takes it for a crashed sweep's, and
commits a row whose bytes are gone.

### What other constants refute

Each passing run leaves out what the code does not promise or does not hold.
Adding it back gives a counterexample, in the run that checks the property, or, where the
second column has a formula of its own, in an instance with the constants it names:

| Module, constants | Refuted | What happens |
|---|---|---|
| `SchedulerLease`, `Renews = FALSE` | `NoOverlap` | a job with a fixed lease (environment re-evaluation, 120 s) overlaps with itself |
| `SyncQueue`, `"crash"` | `CounterExact` | a crash between the finalizer's two statements loses a transfer slot for good |
| `SyncQueue`, no fault | `Quiet => \A a : art[a].deleted => remote[a] = 0` | a push in progress lands after the delete that follows it |
| `SyncQueue`, `"pause"` | `CapHeld` | `extend_sync_task_claim` revives a claim that expired unnoticed, after its place was given away |
| `SyncQueue`, `"scored"` | `PeerHoldsUploads` | `resolve_scored_peer` sends the task of one peer to another, and it is completed |
| `SyncQueue`, `"init"` | `ClaimHasWorker` | the request that opens a chunked upload fails in `send`, and `?` leaves `execute_chunked_transfer` without `handle_transfer_failure`: the row is `in_progress` with nobody behind it, and its slot counted, until the claim expires after half an hour; `sync_worker.rs` (214-216) bounds the connect phase so that an unreachable peer "fails fast instead of holding a transfer slot" |
| `SyncQueue`, `"overlap"` | `PeerHoldsUploads` | the statements of `finish_delete` come after the delete's commit; an upload that commits and queues its push in between has it cancelled, and the artifact is deleted at the peer |
| `SyncQueue`, `Versioned = FALSE`, no fault | `PeerHoldsUploads` | a push is claimed, the artifact deleted, the delete claimed as well, and the artifact uploaded again; the push arrives, the delete removes it at the peer and completes, then the push completes. The re-arm statement compares `completed_at`: the delete is the earlier, so nothing is sent again |
| `SyncQueue`, `Versioned = FALSE` | `Quiet => remote[a] = art[a].ver` | an artifact replaced in place is not sent again, on purpose (test `queue_sync_task_keeps_completed_push_on_unversioned_reupload`): the peer would answer 409 |
| `ChunkedUpload`, `"stall"` | `StagedKept` | a completer that lost its lease purges the chunks its successor reads |
| `ChunkedUpload`, `"discard"` | `StagedKept`, `NoLeakedChunk` | the reaper purges an open session that a refused chunk queued; the orphan row of a second refused chunk is a no-op between the reaper's deletes and its delete of the row |
| `ChunkedUpload`, two `Uploaders`, no fault | `status \in Open \cup {"committing"} => \A k : row[k] = "completed" => staged[k] # "none"` | a PATCH is refused because a completion holds the session, and rolls back; the completion is released, a retry stores the same chunk and is counted; then the refused PATCH deletes "its" object, whose key is the chunk's. The client is told that the chunk is complete, and every completion fails on it, though `upload.rs` (853) says that the staged chunks "outlive this request" |
| `ChunkedUpload`, `Versioned = FALSE`, `"path"` | `[][art \in {"same", "variant", "other_gone"} => art' # "ours"]_vars` | the upsert's `WHERE` repeats the rule about live rows of the same version; another version that was committed since the check is replaced, and so is a deleted row with other bytes, the swap that `enforce_path_immutability` rejects |
| `ChunkedUpload`, `"upload"` | `NoLeakedChunk` | a PATCH that dies after the purge leaves an object no table names |
| `OciBlobGc`, `Jobs = {"journal"}`, two `Tags` | `\A r : tags[r] # {} => ref[r]` | a push's reference insert is a no-op on a row that the delete of the last other tag removes before the push commits; the readiness gate then stays closed until a backfill |
| `OciBlobGc`, `Jobs = {"blob"}` | `\A r : tags[r] # {} => blob[r] # "none" /\ obj` | HEAD finds a marked blob, the sweep takes it, the manifest PUT is accepted |
| `OciBlobGc`, two `Repos`, `"blob"` | `ServedKept` | the sweep locks the row of its own repository only |
| `OciBlobGc`, `"grace"` | `ServedKept` | with a grace of 0 one tick prunes, marks and sweeps after reading the gate once |
| `OciBlobGc`, `"late"` | `BlobBacked` | a delete that outlasts its claim lands after a push has committed |
| `OciBlobGc`, two `Repos`, `"crash"` | `BlobBacked` | a sweeper that dies leaves its tombstone, which hides that row's push from the sweep of the other repository's row |
| `OciBlobGc`, two `Repos`, `"slow"` | `BlobBacked` | a push that takes longer than its registration protects it loses its bytes to the sweep of the other repository's row, and its commit reads only its own row |
| `OciBlobGc`, `Jobs = {"blob"}` | `BlobBacked` | the collector deletes the bytes first and the row after, under the row's lock, so that a row without bytes is an ordinary state of its sweep |
| `ProxyStream`, `KnownLength = FALSE`, `"drop"` | `WholeBody` | the leader's client disconnects, the channel to the writer closes as at the end of a body, and the part that was sent is published with a sidecar that agrees; `docs/plans/2026-08-13-proxy-scan-visibility-design.md` (lines 321-323) counts a client disconnect among what leaves no cache commit |
| `ProxyStream`, `"hold"` | `LockedFillsApart` | under a Package Age hold `open_streaming_leader` spawns the drain into the cache and returns an error, which `open_as_cluster_leader` takes for the absence of a body: the lock is released under the fill, against `proxy_hydration.rs` (1046), "the remote leader releases only after its cache publish" |
| `ProxyStream`, three `Requests`, no fault | `\A q : woken[q] # "no" => pc[q] \notin SentUpstream` | on replica 1 one fills; on replica 2 one waits for the lock and another has read the missing sidecar. The publish wakes the first, which forgets a memoised miss that is not there yet; the load ends and gives it the miss, so "one upstream fetch cluster-wide" fails |
| `ProxyStream`, `"hang"` | `LockedFillsApart` | after `LEASE_PUBLISH_WAIT_MAX` (60 s) the lock is given up under a publish that still runs |

### Bounds

- *Lease*: two or three replicas, since a third shows nothing new but a takeover
  of a takeover; one identity and one token more than can be in use; TTL 6 with
  heartbeat 2, so that one missed renewal fits and two do not; TTL 3 and 2 in the
  others, where timing is unrestricted anyway.
- *Queue*: one artifact has a push and a delete row, which is where the races
  are; two artifacts in `sync_claims`, one filtered, to compete for one slot. One
  or two replicas, two tokens (as many as transfers at once), one or two
  versions, one attempt, claim TTL of one tick, limit 1 or 2.
  `MaxVer` bounds requests, so the system may come to rest: these runs do not
  check for deadlock.
- *Upload*: two chunks in `upload_commit`, where the count and the other chunk
  matter, one elsewhere; two PATCHes, for duplicates, and two completes, for takeover,
  but one of each in `upload_live`; as many tokens as claims can be remembered and one
  more; one attempt before the reaper gives up on an orphan.
- *Blob*: two repositories, clients and sweepers in `blob_journal`, without tags,
  which no step of the journal reads; one repository and two tags in `blob_gc`, so
  that one tag's delete meets the other's push. All sets are finite and nothing
  counts, so no further bound is needed. Clients may stop for good: deadlock is
  not checked.
- *Proxy*: two requests on the same or on different replicas, which is a leader
  with a follower, or two leaders and the lock; a body of two chunks, so that one
  can be missing at either end; a channel of one item, so that a follower lags;
  one re-enter before the fetch alone. `proxy_lock` has three requests and a body of
  one chunk: a filler, a request that the lock wakes and one that loads or evicts on
  the same replica. Requests end: deadlock is not
  checked.

Every safety property of the passing runs is also proved, for every value of the
constants but those that its theorem excludes; the bounds matter for
liveness.

### Fairness

*Lease*: the clock, spawned tasks and statements in flight are weakly fair, as
the runtime and the connection timeout make them. `RenewLost` and `Acquire` are
strongly fair: a database asked at every tick answers once in a while. Nothing
makes a process crash or keeps it from it; `JobKeepsRunning` asks only that
crashes end.

*Queue*: continuations, loops and transfers are weakly fair; backoffs end, an
offline peer is probed again, claims run out. A row claimable again and again is
claimed (`SF` on `ClaimOf`), since the statement serves priority and age. No
request is forced.

*Upload*: a PATCH under way goes on; the steps of a complete and of the reaper are
strongly fair, as row locks are granted in turn and the hourly pass comes again;
a purge tried every hour succeeds once in a while. No client is forced to send
anything. The blob module states no fairness: its properties are safety.

*Proxy*: what the server does for a request, timers included, the writer's task
and the database server's care for sessions whose client is gone are weakly fair.
A client need not read: the body of a response is fair only where a task of the
server drains it. Nobody is served by fairness alone, then: a follower whose
leader is never read leaves it by `FOLLOWER_STALL_TIMEOUT`, and one that waits for
its lock by the wait's timeout, which is why `RequestAnswered` is checked with
`stall` and `timeout` among the faults.

## Proofs

Checked by TLAPS with `ConstantsAssumption` of each module and nothing else,
except where stated.

*SchedulerLeaseProofs.* `TypeCorrect` by one case per action. `MutualExclusion`
needs a strengthening, because a run does not know the row: `HolderBudget` says
that a run in the job owns the row by its token, and that the row outlives the
next heartbeat by as many intervals as renewals may still be missed. `BudgetStep`
shows it inductive under `SlackHolds`, that is `Renews` and
`(MaxMisses + 1) * RenewalInterval < TTL`; with an interval of a third of the TTL
that is one missed renewal, and with the 300 s ceiling and a TTL of an hour, ten.
`Refinement` maps the replicas in the job to `SingletonJob`'s `active`.
`FailoverBound` and `Fencing` hold for `Spec`, with no assumption on timing;
`OrphanInv` adds that while time is counted nobody alive knows the token.

*SyncQueueProofs.* `TypesAndBudget` is one induction: the retry count in a row
bounds the one a transfer carries, which bounds the one its failure writes, so
neither part is inductive alone. It is split into rows, transfers and the rest
(`RowsStep`, `ExecsStep`, `RestStep`). `ClaimFencing` shows that every step
leaves the token of a live claim alone, except the finalizer of the transfer that
carries it; the only assumption is that tokens are not `None`.

*SyncQueueSteadyProofs.* Each theorem names the faults it excludes, and the
table above has a run into each of them.

- `CapIsHard` (no `recover`, no `pause`): the statement counts live claims only,
  so `CapHeld` is not inductive: an expired claim comes back to life when its
  worker extends it. `ClaimsCapped` counts expired ones too, and adds that there
  are none while a loop is between its recovery and its claim.
- `ClaimsAreWorked` (no `crash`, `db`, `init`): `TokensApart` says that tokens
  tell transfers apart, `Worked` that a claim, expired or not, has a transfer that
  has not finalized it.
- `CounterIsExact` (also no `stall`): the finalizer decrements only when it owned
  the row, so `StillOwned` is needed: a transfer under way has its claim. The
  count itself is over a finite set of transfers, which is proved first.
- `UploadsArrive` (also no `overlap`, no `scored`, and `Versioned`):
  `UploadsPromised` follows an upload from its continuation to its row, its transfer
  and the peer, and says at each place why no delete takes it away. `PushesCurrent`
  and `DeletesInTurn` are what it needs of transfers and of the delete's
  continuations.

*ChunkedUploadProofs.* With no assumption: `TypesHold` (the reaper purges an
orphan only with attempts left), `CountIsExact` (`ChunkHeld`: the PATCH that
stores a chunk has it to itself), `TokenFences`, and
`CompletedIsWritten` (`Progress`: the commit's steps in their order, seen from
the completer). `OneCommitter` and `EndedStaysUnwritten` assume that no completer outlives its
lease (`Timely`, no `stall`): `CommitterOwns` says that a request past its claim
still has the row's token. Without it a late completer runs beside its
successor, which is what `TokenFences` is for. `PurgesSpareOpen` assumes `Timely` and
that deletes of refused chunks work (`DiscardsWork`, no `discard`), so that an orphan
row means that the session is gone; PATCHes may be duplicates and die anywhere. Both
are needed, as the table shows. What it leaves open, the delete of a refused
duplicate, is a row of the table too. `NothingLeaks` assumes the same two and that no
PATCH dies between its object and its row (`UploadsFinish`): `SweptCovered` says that
after the purge whatever is in staging belongs to a PATCH that will still settle or
delete it.

*OciBlobGcProofs.* `TypesHold` with `PlacesKnown`. `DeletesUnderClaim` assumes
that a delete does not outlast its claim (`ClaimsLast`, no `late`);
`ClearedUndoomed` says that past the guard of its commit a push meets no
announced delete of its own repository's row. `BlobsBacked` is about the
journal's sweep alone: no collector, no delete that fails or lasts too long, no
sweeper that dies, no push that outlasts its registration. The run `blob_sibling`
and the table above show each of these to be needed; the collector's deletes are
`ServedIsKept`'s subject. `Backed` relates the two
sides of the handshake: an announced delete sees no blob row anywhere, a
registered push has got past every announcement or shares its row with it.
`ServedIsKept` allows crashes, storage faults and slow pushes, and assumes
one repository in the bucket, a sweep grace longer than a tick, and `ClaimsLast`;
the first two are refuted otherwise. `Kept` says that an open manifest push holds the blob row or
is over before the row has had its grace, and that during a tick a ripe row with
tags has its reference.

*ProxyStreamProofs.* `TypesHold` is proved with `Course`, which places requests,
slots and captured chunks in the request's course: that positions and counts are
in range depends on it. `LeasedFillsApart` (no `hang`, no `hold`; the table
shows what happens otherwise) by `LeaseKept`: a fill opened under the
lock has it until the writer is done, whatever became of the request.
`BodiesWhole` assumes that the length is announced or that no client disconnects
(`Announced`): `Whole` says that every copy of the sidecar, in storage, memoised,
loaded or being loaded, vouches for the whole body, as does every fill past its
length test. `WokenIsServed` under the same assumption, by `EntryAwaits`: while a
request woken with no load under way is on its way to the entry, the entry stays, and
no memoised miss hides it and no load that has read one is under way.

Each inductive invariant was model-checked on the instances of the runs before
it was proved.

Only model-checked: the liveness properties `TakenRunStops`, `JobKeepsRunning`,
`QueueDrains`, `CommitSettles`, `StagingReclaimed`, `RequestAnswered` and
`LockFreed`. They rest on fairness, and `ENABLED` is beyond the prover.

## Plan

1. `ProxyStream`: mutable paths (expiry, revalidation, stale-if-error), the
   buffered single flight (`coordinate`, `follow_buffered`), pinned ETags.
2. The remaining producers of sync tasks (sync policies, run-now, unregister) and
   request processes that die; webhook deliveries as a second claimed queue.
3. `OciBlobGc`: image indexes, the upload session around a chunked push, deleting
   a repository, and liveness of both collectors.
4. Theorems: abstract specifications for the queue's claims, the upload's commit
   and the proxy's fill, with proofs that the modules implement them; what still
   holds of `BlobBacked` when storage fails and one repository is in the bucket.

## Not modelled

Format handlers, search, SBOM generation, WASM plugins, storage backends, single
sign-on and the command line are conversion and adapters without shared state of
their own. Scans, quarantine, promotion, migrations and backups have state
machines worth a module and none yet. `PROJECT.json` lists every part with its
reason.
