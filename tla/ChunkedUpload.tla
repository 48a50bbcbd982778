---------------------------- MODULE ChunkedUpload ----------------------------
(***************************************************************************)
(* One chunked upload session: PATCH requests that stage chunks, complete  *)
(* requests that commit the artifact under a lease, cancel, the hourly     *)
(* reaper and the clean-up before a replication retry, on any replica.     *)
(*                                                                         *)
(* Each SQL statement or transaction and each call of the storage backend  *)
(* is one action.  What an abandoned session owns is a set of objects in   *)
(* the storage backend, which no transaction covers.                       *)
(***************************************************************************)
EXTENDS Naturals, FiniteSets

CONSTANTS
    Chunks,         \* the chunk indexes of the session
    Uploaders,      \* PATCH requests that may be under way at once
    Completers,     \* complete requests that may be under way at once
    Tokens,         \* state tokens (random UUIDs)
    None,
    Replication,    \* the session was opened by a peer
    Versioned,      \* versioning_applies: a path may be overwritten
    MaxTries,       \* ORPHAN_PURGE_MAX_ATTEMPTS
    Faults          \* what may go wrong, see below

(* crash    a complete, cancel or reaper dies with its process             *)
(* stall    a commit lease may lapse while its owner is alive              *)
(* db       a statement of a complete or cancel fails                      *)
(* storage  a call of the storage backend fails                            *)
(* upload   a PATCH dies, or its last statements fail                      *)
(* discard  the delete of a refused chunk fails                            *)
(* bytes    a client sends other bytes than it declared                    *)
(* refuse   the content, the repository or the quota refuses the artifact  *)
(* path     other uploads and deletes at the same path                     *)
FaultKinds == {"crash", "stall", "db", "storage", "upload", "discard", "bytes",
               "refuse", "path"}

ASSUME ConstantsAssumption ==
    /\ IsFiniteSet(Chunks) /\ Chunks # {}
    /\ Replication \in BOOLEAN /\ Versioned \in BOOLEAN
    /\ MaxTries \in Nat \ {0}
    /\ Faults \subseteq FaultKinds
    /\ None \notin Tokens /\ None \notin Chunks /\ None \notin Uploaders

VARIABLES
    status,     \* upload_sessions.status; "gone": the row was deleted
    token,      \* state_token
    lease,      \* committing_expires_at: none, live or lapsed
    purged,     \* staging_purged_at is set
    expired,    \* expires_at has passed
    count,      \* completed_chunks
    row,        \* chunk -> status of its upload_chunks row
    lock,       \* chunk -> the request whose transaction holds the row
    staged,     \* chunk -> its staged object: none, the right bytes, others
    orphan,     \* the upload_staging_orphans row: there, tries
    art,        \* the artifacts row at the path, see Rows
    blob,       \* the content is in final storage
    wrote,      \* some complete request of this session committed the row
    upc,        \* PATCH request -> where it is
    uchunk,     \* PATCH request -> its chunk
    cpc,        \* complete request -> where it is
    ctok,       \* complete request -> the token of its lease
    canc,       \* the cancel that won: idle, purge or stamp
    reap,       \* the reaper: idle, purge, stamp, opurge or odone
    repl        \* the clean-up before a replication retry: idle or purge

sessVars == <<status, token, lease, purged>>
chunkVars == <<count, row, lock>>
artVars == <<art, blob, wrote>>
upVars == <<upc, uchunk>>
comVars == <<cpc, ctok>>
purgeVars == <<canc, reap, repl>>
vars == <<sessVars, expired, chunkVars, staged, orphan, artVars, upVars, comVars, purgeVars>>

Open == {"pending", "in_progress"}
Terminal == {"completed", "failed", "cancelled"}
\* From the claim to the settlement: the handler owns a lease and renews it.
HoldingPcs == {"claimed", "counted", "gated", "assembled", "copied", "written",
               "recorded", "release", "fail"}
Holding(c) == cpc[c] \in HoldingPcs

\* The rows that may be live at the path: ours; other bytes of the same version;
\* another version; one without a version, where the path is not a released one.
Rows == {"ours", "same", "variant", "loose"}

\* What a row of the path is once it is deleted.
Gone(a) == IF a \in {"ours", "loose"} THEN [ours |-> "ours_gone", loose |-> "loose_gone"][a]
           ELSE "other_gone"

TypeOK ==
    /\ status \in Open \cup Terminal \cup {"committing", "gone"}
    /\ token \in Tokens \cup {None}
    /\ lease \in {"none", "live", "lapsed"}
    /\ purged \in BOOLEAN /\ expired \in BOOLEAN
    /\ count \in Nat
    /\ row \in [Chunks -> {"pending", "completed"}]
    /\ lock \in [Chunks -> Uploaders \cup {None}]
    /\ staged \in [Chunks -> {"none", "good", "bad"}]
    /\ orphan \in [there : BOOLEAN, tries : 0..MaxTries]
    /\ art \in {"none"} \cup Rows \cup {Gone(a) : a \in Rows}
    /\ blob \in BOOLEAN /\ wrote \in BOOLEAN
    /\ upc \in [Uploaders -> {"idle", "checked", "locked", "stored", "refused"}]
    /\ uchunk \in [Uploaders -> Chunks \cup {None}]
    /\ cpc \in [Completers -> HoldingPcs \cup {"idle", "checked", "purge", "stamp",
                                               "cleanup", "reclaim", "rpurge", "rstamp"}]
    /\ ctok \in [Completers -> Tokens \cup {None}]
    /\ canc \in {"idle", "purge", "stamp"}
    /\ reap \in {"idle", "purge", "stamp", "opurge", "odone"}
    /\ repl \in {"idle", "purge"}

\* create_session has committed: the session and a placeholder row per chunk.
Init ==
    /\ status = "pending" /\ token = None /\ lease = "none"
    /\ purged = FALSE /\ expired = FALSE
    /\ count = 0
    /\ row = [c \in Chunks |-> "pending"]
    /\ lock = [c \in Chunks |-> None]
    /\ staged = [c \in Chunks |-> "none"]
    /\ orphan = [there |-> FALSE, tries |-> 0]
    /\ art = "none" /\ blob = FALSE /\ wrote = FALSE
    /\ upc = [u \in Uploaders |-> "idle"]
    /\ uchunk = [u \in Uploaders |-> None]
    /\ cpc = [c \in Completers |-> "idle"]
    /\ ctok = [c \in Completers |-> None]
    /\ canc = "idle" /\ reap = "idle" /\ repl = "idle"

\* The reaper's purge holds the session row; every update of the row waits.
RowFree == reap \notin {"purge", "stamp"}

----------------------------------------------------------------------------
(* upload_chunk: one transaction, from the row lock to the commit, around   *)
(* the put into storage.                                                    *)

\* The first read of the session is outside the transaction.
UploadCheck(u, k) ==
    /\ upc[u] = "idle"
    /\ ~expired /\ status \in Open
    /\ upc' = [upc EXCEPT ![u] = "checked"]
    /\ uchunk' = [uchunk EXCEPT ![u] = k]
    /\ UNCHANGED <<sessVars, expired, chunkVars, staged, orphan, artVars, comVars, purgeVars>>

UploadEnds(u) ==
    /\ upc' = [upc EXCEPT ![u] = "idle"]
    /\ uchunk' = [uchunk EXCEPT ![u] = None]

\* Rolling back or committing gives the chunk row back.
Unlock(u) == lock' = [k \in Chunks |-> IF lock[k] = u THEN None ELSE lock[k]]

\* Faulty variant: the row is read without FOR UPDATE.
LockFreeAlways(k) == TRUE

LockFree(k) == lock[k] = None

\* SELECT ... FOR UPDATE: waits for the winner, then finds the chunk completed
\* (answered as a success), the row gone, or a chunk to claim.
UploadLock(u) ==
    /\ upc[u] = "checked" /\ LockFree(uchunk[u])
    /\ \/ /\ status = "gone" \/ row[uchunk[u]] = "completed"
          /\ UploadEnds(u) /\ UNCHANGED lock
       \/ /\ status # "gone" /\ row[uchunk[u]] = "pending"
          /\ lock' = [lock EXCEPT ![uchunk[u]] = u]
          /\ upc' = [upc EXCEPT ![u] = "locked"]
          /\ UNCHANGED uchunk
    /\ UNCHANGED <<sessVars, expired, count, row, staged, orphan, artVars, comVars, purgeVars>>

UploadPut(u) ==
    /\ upc[u] = "locked"
    /\ \E b \in {"good"} \cup (IF "bytes" \in Faults THEN {"bad"} ELSE {}) :
          staged' = [staged EXCEPT ![uchunk[u]] = b]
    /\ upc' = [upc EXCEPT ![u] = "stored"]
    /\ UNCHANGED <<sessVars, expired, chunkVars, orphan, artVars, uchunk, comVars, purgeVars>>

\* Faulty variant: the chunk counts whatever has become of the session.
AcceptsAnyChunk == status # "gone"

\* WHERE id = $1 AND status IN ('pending', 'in_progress')
AcceptsChunk == status \in Open

\* The guarded session update, and the commit or the roll back after it.
UploadSettle(u) ==
    /\ upc[u] = "stored" /\ RowFree
    /\ Unlock(u)
    /\ \/ /\ AcceptsChunk
          /\ row' = [row EXCEPT ![uchunk[u]] = "completed"]
          /\ count' = count + 1
          /\ status' = IF status = "pending" THEN "in_progress" ELSE status
          /\ UploadEnds(u)
       \/ /\ ~AcceptsChunk
          /\ upc' = [upc EXCEPT ![u] = "refused"]
          /\ UNCHANGED <<row, count, status, uchunk>>
    /\ UNCHANGED <<token, lease, purged, expired, staged, orphan, artVars, comVars, purgeVars>>

\* ON CONFLICT (session_id) DO NOTHING
QueueOrphan == IF orphan.there THEN orphan ELSE [there |-> TRUE, tries |-> 0]

\* Nothing guards the delete of a refused chunk: the row is unlocked already.
\* When it fails the session is queued, whatever its status is by now.
UploadDiscard(u) ==
    /\ upc[u] = "refused"
    /\ \/ /\ staged' = [staged EXCEPT ![uchunk[u]] = "none"]
          /\ UNCHANGED orphan
       \/ /\ "discard" \in Faults
          /\ \/ orphan' = IF status = "gone" THEN orphan ELSE QueueOrphan
             \/ "upload" \in Faults /\ UNCHANGED orphan
          /\ UNCHANGED staged
    /\ UploadEnds(u)
    /\ UNCHANGED <<sessVars, expired, chunkVars, artVars, comVars, purgeVars>>

\* The put or a statement fails, or the request dies: the transaction is
\* rolled back and what is in storage stays there.
UploadFails(u) ==
    /\ upc[u] # "idle" /\ "upload" \in Faults
    /\ Unlock(u) /\ UploadEnds(u)
    /\ UNCHANGED <<sessVars, expired, count, row, staged, orphan, artVars, comVars, purgeVars>>

----------------------------------------------------------------------------
(* complete_session and complete_session_commit. *)

At(c, from) == cpc[c] = from
Goto(c, to) == cpc' = [cpc EXCEPT ![c] = to]

CompleteCheck(c) ==
    /\ At(c, "idle")
    /\ status # "gone"
    /\ Goto(c, IF expired \/ status \in {"completed", "cancelled"} THEN "reclaim" ELSE "checked")
    /\ UNCHANGED <<sessVars, expired, chunkVars, staged, orphan, artVars, upVars, ctok, purgeVars>>

\* Faulty variant: a live lease may be taken over.
ClaimableAlways == status \in Open \/ status = "committing"

Claimable == status \in Open \/ (status = "committing" /\ lease = "lapsed")

FreshToken(t) == t \in Tokens \ ({token} \cup {ctok[c] : c \in Completers})

\* Faulty variant: the claim marks the session completed at once.
CompleteClaimAsDone(c) ==
    /\ At(c, "checked") /\ RowFree /\ Claimable
    /\ status' = "completed" /\ Goto(c, "claimed")
    /\ UNCHANGED <<token, lease, ctok, purged, expired, chunkVars, staged, orphan, artVars,
                   upVars, purgeVars>>

CompleteClaim(c) ==
    /\ At(c, "checked") /\ RowFree
    /\ \/ /\ Claimable
          /\ status' = "committing" /\ lease' = "live"
          /\ \E t \in Tokens :
                /\ FreshToken(t)
                /\ token' = t
                /\ ctok' = [ctok EXCEPT ![c] = t]
          /\ Goto(c, "claimed")
       \/ /\ ~Claimable
          /\ Goto(c, "reclaim")
          /\ UNCHANGED <<status, token, lease, ctok>>
    /\ UNCHANGED <<purged, expired, chunkVars, staged, orphan, artVars, upVars, purgeVars>>

\* A step of the handler that only looks: onwards, or to the settlement that
\* its error calls for.
Advance(c, to) ==
    /\ Goto(c, to)
    /\ UNCHANGED <<sessVars, expired, chunkVars, staged, orphan, artVars, upVars, ctok, purgeVars>>

CompleteCount(c) ==
    /\ At(c, "claimed")
    /\ \/ Advance(c, IF \A k \in Chunks : row[k] = "completed" THEN "counted" ELSE "release")
       \/ "db" \in Faults /\ Advance(c, "release")

\* enforce_path_immutability: no live row of the same version, and no other
\* bytes of a released row, live or deleted.
PathFree == Versioned \/ art \in {"none", "ours_gone", "loose", "loose_gone"}

\* Authorisation, repository, hosted-only gate, storage and immutability.
CompleteGate(c) ==
    /\ At(c, "counted")
    /\ \/ Advance(c, IF PathFree THEN "gated" ELSE "release")
       \/ "db" \in Faults /\ Advance(c, "release")
       \/ "refuse" \in Faults /\ Advance(c, "fail")

\* assemble_for_commit: a missing object is an error to retry, wrong bytes are
\* final; so is content that the format's own parser refuses.
CompleteAssemble(c) ==
    /\ At(c, "gated")
    /\ \/ Advance(c, IF \E k \in Chunks : staged[k] = "none" THEN "release"
                     ELSE IF \E k \in Chunks : staged[k] = "bad" THEN "fail"
                     ELSE "assembled")
       \/ "storage" \in Faults /\ Advance(c, "release")
       \/ "refuse" \in Faults /\ Advance(c, "fail")

CompleteCopy(c) ==
    /\ At(c, "assembled")
    /\ \/ blob' = TRUE /\ Goto(c, "copied")
       \/ "storage" \in Faults /\ Goto(c, "release") /\ UNCHANGED blob
    /\ UNCHANGED <<sessVars, expired, chunkVars, staged, orphan, art, wrote, upVars, ctok, purgeVars>>

VersionOf(a) == IF a = "ours" THEN "same" ELSE a

\* ON CONFLICT DO UPDATE ... WHERE artifacts.is_deleted OR versioning applies OR
\* artifacts.version IS DISTINCT FROM EXCLUDED.version
MayWrite(a) == Versioned \/ art \notin Rows \/ VersionOf(art) # VersionOf(a)

\* The transaction of quota admission and upsert.  An error of the commit
\* itself is ambiguous, and final.
CompleteUpsert(c) ==
    /\ At(c, "copied")
    /\ \/ /\ MayWrite("ours")
          /\ art' = "ours" /\ wrote' = TRUE
          /\ \/ Goto(c, "written")
             \/ "db" \in Faults /\ Goto(c, "fail")
       \/ ~MayWrite("ours") /\ Goto(c, "release") /\ UNCHANGED <<art, wrote>>
       \/ "db" \in Faults /\ (Goto(c, "release") \/ Goto(c, "fail")) /\ UNCHANGED <<art, wrote>>
       \/ "refuse" \in Faults /\ Goto(c, "fail") /\ UNCHANGED <<art, wrote>>
    /\ UNCHANGED <<sessVars, expired, chunkVars, staged, orphan, blob, upVars, ctok, purgeVars>>

\* Metadata, package catalogue, scan and event.
CompleteRecord(c) ==
    /\ At(c, "written")
    /\ \/ Advance(c, "recorded")
       \/ "db" \in Faults /\ Advance(c, "fail")

\* Faulty variant: the token is not compared.
OwnsCommitAny(c) == status = "committing"

\* WHERE status = 'committing' AND state_token = $2
OwnsCommit(c) == status = "committing" /\ token = ctok[c]

\* A token-guarded transition out of committing; it changes nothing when the
\* lease is another's by now.
SettleAs(c, s) ==
    /\ RowFree
    /\ status' = IF OwnsCommit(c) THEN s ELSE status
    /\ token' = IF OwnsCommit(c) THEN None ELSE token
    /\ lease' = IF OwnsCommit(c) THEN "none" ELSE lease

\* finalize_completed and settle_completed_session: a lost lease is a success.
CompleteFinalize(c) ==
    /\ At(c, "recorded")
    /\ \/ SettleAs(c, "completed") /\ Goto(c, "purge")
       \/ /\ "db" \in Faults
          /\ SettleAs(c, "completed") \/ UNCHANGED <<status, token, lease>>
          /\ Goto(c, "fail")
    /\ UNCHANGED <<purged, expired, chunkVars, staged, orphan, artVars, upVars, ctok, purgeVars>>

\* release_commit_lease and fail_committing: an error of theirs is ignored.
CompleteSettle(c) ==
    /\ \/ At(c, "release") /\ SettleAs(c, "in_progress")
       \/ At(c, "fail") /\ SettleAs(c, "failed")
       \/ /\ cpc[c] \in {"release", "fail"} /\ "db" \in Faults
          /\ UNCHANGED <<status, token, lease>>
    /\ Goto(c, "reclaim")
    /\ UNCHANGED <<purged, expired, chunkVars, staged, orphan, artVars, upVars, ctok, purgeVars>>

\* Faulty variant: a completion that may be retried is reclaimed too.
ReclaimsAny == status \notin {"committing", "gone"} /\ ~purged

\* reclaim_failed_session_staging: only what ended failed.
Reclaims == status = "failed" /\ ~purged

CompleteReclaim(c) ==
    /\ At(c, "reclaim")
    /\ Goto(c, IF Reclaims THEN "rpurge" ELSE "idle")
    /\ ctok' = [ctok EXCEPT ![c] = None]
    /\ UNCHANGED <<sessVars, expired, chunkVars, staged, orphan, artVars, upVars, purgeVars>>

\* delete_staged_chunk_objects: all of them, or some and an error.
DeleteAll == staged' = [k \in Chunks |-> "none"]
DeleteSome ==
    /\ "storage" \in Faults
    /\ \E left \in SUBSET Chunks :
          staged' = [k \in Chunks |-> IF k \in left THEN staged[k] ELSE "none"]

\* purge_staged_chunks, and the stamp that follows it when all went well.
CompletePurge(c) ==
    /\ \/ At(c, "purge") /\ DeleteAll /\ Goto(c, "stamp")
       \/ At(c, "purge") /\ DeleteSome /\ Goto(c, "cleanup")
       \/ At(c, "rpurge") /\ DeleteAll /\ Goto(c, "rstamp")
       \/ At(c, "rpurge") /\ DeleteSome /\ Goto(c, "idle")
    /\ UNCHANGED <<sessVars, expired, chunkVars, orphan, artVars, upVars, ctok, purgeVars>>

CompleteStamp(c) ==
    /\ cpc[c] \in {"stamp", "rstamp"} /\ RowFree
    /\ \/ purged' = (purged \/ status # "gone")
       \/ "db" \in Faults /\ UNCHANGED purged
    /\ Goto(c, IF cpc[c] = "stamp" THEN "cleanup" ELSE "idle")
    /\ UNCHANGED <<status, token, lease, expired, chunkVars, staged, orphan, artVars, upVars,
                   ctok, purgeVars>>

\* cleanup_completed_upload_session: a replication session whose chunks are
\* purged is removed.
CompleteCleanup(c) ==
    /\ At(c, "cleanup") /\ RowFree
    /\ IF Replication /\ status = "completed" /\ purged
          THEN status' = "gone" /\ token' = None /\ lease' = "none"
          ELSE UNCHANGED <<status, token, lease>>
    /\ Goto(c, "idle")
    /\ ctok' = [ctok EXCEPT ![c] = None]
    /\ UNCHANGED <<purged, expired, chunkVars, staged, orphan, artVars, upVars, purgeVars>>

\* The heartbeat of a commit lease: the token is all it checks, so it also
\* revives a lease that lapsed and that nobody took.
RenewCommit(c) ==
    /\ Holding(c) /\ OwnsCommit(c)
    /\ lease = "lapsed"
    /\ lease' = "live"
    /\ UNCHANGED <<status, token, purged, expired, chunkVars, staged, orphan, artVars, upVars,
                   comVars, purgeVars>>

CompleteCrash(c) ==
    /\ cpc[c] # "idle" /\ "crash" \in Faults
    /\ Goto(c, "idle")
    /\ ctok' = [ctok EXCEPT ![c] = None]
    /\ UNCHANGED <<sessVars, expired, chunkVars, staged, orphan, artVars, upVars, purgeVars>>

----------------------------------------------------------------------------
(* cancel_session, cleanup_expired and the clean-up before a retry. *)

\* Faulty variants: a cancel does not look at the commit lease; only open
\* sessions are ended.
CancellableAlways == status \in Open \cup {"committing"}
CancellableOpen == status \in Open

\* Open, or committing under a lease that lapsed.
Cancellable == status \in Open \/ (status = "committing" /\ lease # "live")

BecomeCancelled == status' = "cancelled" /\ token' = None /\ lease' = "none"

Cancel ==
    /\ Cancellable /\ RowFree
    /\ BecomeCancelled
    /\ canc' = "purge"
    /\ UNCHANGED <<purged, expired, chunkVars, staged, orphan, artVars, upVars, comVars, reap, repl>>

CancelPurge ==
    /\ canc = "purge"
    /\ \/ DeleteAll /\ canc' = "stamp"
       \/ DeleteSome /\ canc' = "idle"
    /\ UNCHANGED <<sessVars, expired, chunkVars, orphan, artVars, upVars, comVars, reap, repl>>

CancelStamp ==
    /\ canc = "stamp" /\ RowFree
    /\ purged' = (purged \/ status # "gone")
    /\ canc' = "idle"
    /\ UNCHANGED <<status, token, lease, expired, chunkVars, staged, orphan, artVars, upVars,
                   comVars, reap, repl>>

CancelCrash ==
    /\ \/ canc # "idle" /\ "crash" \in Faults
       \/ canc = "stamp" /\ "db" \in Faults
    /\ canc' = "idle"
    /\ UNCHANGED <<sessVars, expired, chunkVars, staged, orphan, artVars, upVars, comVars, reap, repl>>

\* First pass of the reaper: FOR UPDATE SKIP LOCKED.
ReapExpired ==
    /\ reap = "idle" /\ expired /\ Cancellable
    /\ BecomeCancelled
    /\ UNCHANGED <<purged, expired, chunkVars, staged, orphan, artVars, upVars, comVars, purgeVars>>

\* Faulty variant: sessions that are still open are purged too.
PurgeDueAny == status # "gone" /\ expired /\ ~purged

\* Terminal and not stamped.
PurgeDue == status \in Terminal /\ ~purged

\* Second pass: lock the row, delete, stamp, commit.
ReapLock ==
    /\ reap = "idle" /\ PurgeDue
    /\ reap' = "purge"
    /\ UNCHANGED <<sessVars, expired, chunkVars, staged, orphan, artVars, upVars, comVars, canc, repl>>

ReapPurge ==
    /\ reap = "purge"
    /\ \/ DeleteAll /\ reap' = "stamp"
       \/ DeleteSome /\ reap' = "idle"
    /\ UNCHANGED <<sessVars, expired, chunkVars, orphan, artVars, upVars, comVars, canc, repl>>

ReapStamp ==
    /\ reap = "stamp"
    /\ purged' = TRUE /\ reap' = "idle"
    /\ UNCHANGED <<status, token, lease, expired, chunkVars, staged, orphan, artVars, upVars,
                   comVars, canc, repl>>

\* Faulty variant: an orphan is tried for ever.
OrphanDueAlways == orphan.there

\* attempts < 24
OrphanDue == orphan.there /\ orphan.tries < MaxTries

\* Third pass: what is queued, for sessions whose row is gone and for those a
\* refused chunk queued, which may be open.
ReapOrphan ==
    /\ reap = "idle" /\ OrphanDue
    /\ reap' = "opurge"
    /\ UNCHANGED <<sessVars, expired, chunkVars, staged, orphan, artVars, upVars, comVars, canc, repl>>

ReapOrphanPurge ==
    /\ reap = "opurge"
    /\ \/ DeleteAll /\ reap' = "odone" /\ UNCHANGED orphan
       \/ DeleteSome /\ reap' = "idle" /\ orphan' = [orphan EXCEPT !.tries = @ + 1]
    /\ UNCHANGED <<sessVars, expired, chunkVars, artVars, upVars, comVars, canc, repl>>

ReapOrphanDone ==
    /\ reap = "odone"
    /\ orphan' = [there |-> FALSE, tries |-> 0] /\ reap' = "idle"
    /\ UNCHANGED <<sessVars, expired, chunkVars, staged, artVars, upVars, comVars, canc, repl>>

ReapCrash ==
    /\ reap # "idle" /\ "crash" \in Faults
    /\ reap' = "idle"
    /\ UNCHANGED <<sessVars, expired, chunkVars, staged, orphan, artVars, upVars, comVars, canc, repl>>

\* Faulty variant: the delete trigger queues nothing.
OrphanAfterDeleteNever == orphan

\* ak_upload_session_staging_orphan
OrphanAfterDelete == IF purged THEN orphan ELSE QueueOrphan

\* cleanup_stale_replication_upload_sessions deletes the row whatever its
\* status; the cascade to the chunk rows waits for the requests that hold them.
ReplDelete ==
    /\ Replication /\ status # "gone" /\ RowFree /\ repl = "idle"
    /\ \A k \in Chunks : lock[k] = None
    /\ status' = "gone" /\ token' = None /\ lease' = "none"
    /\ orphan' = OrphanAfterDelete
    /\ repl' = IF purged THEN "idle" ELSE "purge"
    /\ UNCHANGED <<purged, expired, chunkVars, staged, artVars, upVars, comVars, canc, reap>>

ReplPurge ==
    /\ repl = "purge"
    /\ \/ DeleteAll
       \/ DeleteSome
       \/ "crash" \in Faults /\ UNCHANGED staged
    /\ repl' = "idle"
    /\ UNCHANGED <<sessVars, expired, chunkVars, orphan, artVars, upVars, comVars, canc, reap>>

----------------------------------------------------------------------------
(* Time, and the rest of the repository. *)

\* Faulty variant: nothing renews a commit lease.
RenewedNever == FALSE

\* A live owner renews many times before its lease could lapse.
Renewed == \E c \in Completers : Holding(c) /\ OwnsCommit(c)

LeaseLapses ==
    /\ lease = "live"
    /\ ~Renewed \/ "stall" \in Faults
    /\ lease' = "lapsed"
    /\ UNCHANGED <<status, token, purged, expired, chunkVars, staged, orphan, artVars, upVars,
                   comVars, purgeVars>>

SessionExpires ==
    /\ ~expired
    /\ expired' = TRUE
    /\ UNCHANGED <<sessVars, chunkVars, staged, orphan, artVars, upVars, comVars, purgeVars>>

\* Another upload of the path, or a delete of what is there.
OtherAtPath ==
    /\ "path" \in Faults
    /\ \/ \E a \in Rows \ {"ours"} : MayWrite(a) /\ art' = a
       \/ art \in Rows /\ art' = Gone(art)
    /\ UNCHANGED <<sessVars, expired, chunkVars, staged, orphan, blob, wrote, upVars, comVars, purgeVars>>

----------------------------------------------------------------------------
Upload(u) ==
    \/ \E k \in Chunks : UploadCheck(u, k)
    \/ UploadLock(u) \/ UploadPut(u) \/ UploadSettle(u) \/ UploadDiscard(u)
    \/ UploadFails(u)

\* The handler from its claim on, without the heartbeat.
Commit(c) ==
    \/ CompleteClaim(c) \/ CompleteCount(c) \/ CompleteGate(c) \/ CompleteAssemble(c)
    \/ CompleteCopy(c) \/ CompleteUpsert(c) \/ CompleteRecord(c) \/ CompleteFinalize(c)
    \/ CompleteSettle(c) \/ CompleteReclaim(c) \/ CompletePurge(c) \/ CompleteStamp(c)
    \/ CompleteCleanup(c)

Next ==
    \/ \E u \in Uploaders : Upload(u)
    \/ \E c \in Completers :
          CompleteCheck(c) \/ Commit(c) \/ RenewCommit(c) \/ CompleteCrash(c)
    \/ Cancel \/ CancelPurge \/ CancelStamp \/ CancelCrash
    \/ ReapExpired \/ ReapLock \/ ReapPurge \/ ReapStamp
    \/ ReapOrphan \/ ReapOrphanPurge \/ ReapOrphanDone \/ ReapCrash
    \/ ReplDelete \/ ReplPurge
    \/ LeaseLapses \/ SessionExpires \/ OtherAtPath

Spec == Init /\ [][Next]_vars

\* What the runtime, PostgreSQL and the hourly reaper give: a request that can
\* go on does, a row lock is granted in turn, time passes, and a purge that is
\* tried every hour succeeds once in a while.
Fairness ==
    /\ \A u \in Uploaders :
          WF_vars(UploadLock(u) \/ UploadPut(u) \/ UploadSettle(u) \/ UploadDiscard(u))
    /\ \A c \in Completers : SF_vars(Commit(c))
    /\ WF_vars(LeaseLapses) /\ WF_vars(SessionExpires)
    /\ WF_vars(CancelPurge \/ CancelStamp) /\ WF_vars(ReplPurge)
    /\ SF_vars(ReapExpired)
    /\ SF_vars(ReapLock \/ ReapOrphan)
    /\ SF_vars((ReapPurge \/ ReapOrphanPurge) /\ DeleteAll)
    /\ SF_vars(ReapStamp \/ ReapOrphanDone)

FairSpec == Spec /\ Fairness

----------------------------------------------------------------------------
(* Properties. *)

\* "exactly one request completes each chunk, so + 1 counts every completed
\* chunk once": the counter is the number of completed chunk rows.
CountExact == count = Cardinality({k \in Chunks : row[k] = "completed"})

\* Of a session that can still be completed, no purge takes a counted chunk: not
\* that of a complete request whose lease was settled by another, of a cancel, of
\* the reaper's passes or of a replication retry, wherever each of them stopped.
\* Only a refused PATCH that deletes what it stored takes one: its duplicate may
\* have been counted meanwhile, and the object is the chunk's, not the request's.
KeepsStaged ==
    \A k \in Chunks :
        /\ status \in Open \cup {"committing"} /\ row[k] = "completed"
        /\ staged[k] # "none" /\ staged'[k] = "none"
        => \E u \in Uploaders : upc[u] = "refused" /\ uchunk[u] = k /\ upc'[u] # upc[u]

StagedKept == [][KeepsStaged]_vars

\* Between winning the lease and settling it.
Committing(c) == cpc[c] \in HoldingPcs \ {"release", "fail"}

\* A duplicate complete request, on any replica, gets a conflict "instead of
\* a second storage copy + artifact upsert": one committer at a time.
SingleCommitter ==
    \A c, d \in Completers : Committing(c) /\ Committing(d) => c = d

\* A session is marked completed only with its artifact row committed and its
\* content in final storage, whoever settled it.
CompletedWritten == status = "completed" => wrote /\ blob

\* The client that was told its upload is cancelled, failed or completed sees
\* no artifact appear from it later.
EndedWritesNothing == [][(status \in Terminal) => wrote' = wrote]_vars

\* Terminal is final: no straggling release, failure, chunk or renewal reopens
\* a session.
\* And a live commit lease is ended only by the request that holds its token,
\* or with the whole row by a replication retry.
FencedStep ==
    /\ status \in Terminal => status' \in {status, "gone"}
    /\ status = "committing" /\ lease = "live" /\ (status' # status \/ token' # token) =>
          status' = "gone" \/ \E c \in Completers : ctok[c] = token /\ cpc'[c] # cpc[c]

CommitFenced == [][FencedStep]_vars

\* A commit lease never wedges its session: when the owner dies, or cannot
\* settle it, the lease lapses and the reaper ends the session at the latest.
CommitSettles == status = "committing" ~> status # "committing"

\* "nothing depends on the request that created the bytes surviving": once a
\* session has ended its staged objects are deleted for good, unless the
\* reaper gave up on them after its last attempt.
StagingReclaimed ==
    status \in Terminal \cup {"gone"} ~>
        []((\A k \in Chunks : staged[k] = "none") \/ orphan.tries = MaxTries)

\* The same as a state: with nobody at work on a stamped session, storage is
\* empty.
NoLeakedChunk ==
    (/\ status \in Terminal /\ purged /\ ~orphan.there
     /\ \A u \in Uploaders : upc[u] = "idle") =>
        \A k \in Chunks : staged[k] = "none"
=============================================================================
