------------------------- MODULE ChunkedUploadProofs -------------------------
(***************************************************************************)
(* Theorems about ChunkedUpload, for every number of chunks, of PATCH      *)
(* requests and of complete requests.                                      *)
(***************************************************************************)
EXTENDS ChunkedUpload, FiniteSetTheorems, TLAPS

----------------------------------------------------------------------------
(* Type correctness. *)

OrphanRow == [there : BOOLEAN, tries : 0..MaxTries]

\* A new, a queued and a cleared upload_staging_orphans row.
LEMMA OrphanTypes ==
  ASSUME orphan \in OrphanRow
  PROVE  /\ [there |-> TRUE, tries |-> 0] \in OrphanRow
         /\ [there |-> FALSE, tries |-> 0] \in OrphanRow
         /\ QueueOrphan \in OrphanRow
<1>1. 0 \in 0..MaxTries  BY ConstantsAssumption
<1>2. [there |-> TRUE, tries |-> 0] \in OrphanRow  BY <1>1 DEF OrphanRow
<1>3. [there |-> FALSE, tries |-> 0] \in OrphanRow  BY <1>1 DEF OrphanRow
<1> QED  BY <1>2, <1>3, Zenon DEF QueueOrphan

\* Every step of a PATCH request keeps the types.
LEMMA TypeUpload ==
  ASSUME TypeOK, NEW u \in Uploaders, Upload(u)
  PROVE  TypeOK'
<1> USE ConstantsAssumption DEF TypeOK, sessVars, chunkVars, artVars, comVars, purgeVars
<1>1. ASSUME NEW k \in Chunks, UploadCheck(u, k) PROVE TypeOK'
    BY <1>1 DEF UploadCheck
<1>2. CASE UploadLock(u)
    BY <1>2 DEF UploadLock, UploadEnds, LockFree
<1>3. CASE UploadPut(u)
  <2>1. PICK b \in {"good", "bad"} : staged' = [staged EXCEPT ![uchunk[u]] = b]
      BY <1>3 DEF UploadPut
  <2>2. staged' \in [Chunks -> {"none", "good", "bad"}]
      BY <2>1
  <2> QED  BY <1>3, <2>2 DEF UploadPut
<1>4. CASE UploadSettle(u)
    BY <1>4 DEF UploadSettle, UploadEnds, Unlock, AcceptsChunk, Open
<1>5. CASE UploadDiscard(u)
  <2>1. orphan' \in OrphanRow
      BY <1>5, OrphanTypes, Zenon DEF UploadDiscard, OrphanRow
  <2>2. staged' \in [Chunks -> {"none", "good", "bad"}]
      BY <1>5 DEF UploadDiscard
  <2> QED  BY <1>5, <2>1, <2>2 DEF UploadDiscard, UploadEnds, OrphanRow
<1>6. CASE UploadFails(u)
    BY <1>6 DEF UploadFails, UploadEnds, Unlock
<1> QED  BY <1>1, <1>2, <1>3, <1>4, <1>5, <1>6 DEF Upload

\* Every step of a complete request keeps the types.
LEMMA TypeComplete ==
  ASSUME TypeOK, NEW c \in Completers,
         CompleteCheck(c) \/ Commit(c) \/ RenewCommit(c) \/ CompleteCrash(c)
  PROVE  TypeOK'
<1> USE ConstantsAssumption
    DEF TypeOK, sessVars, chunkVars, artVars, upVars, comVars, purgeVars, HoldingPcs, At, Goto, Advance
<1>1. CASE CompleteCheck(c) \/ CompleteCount(c) \/ CompleteGate(c) \/ CompleteAssemble(c)
    BY <1>1 DEF CompleteCheck, CompleteCount, CompleteGate, CompleteAssemble
<1>2. CASE CompleteClaim(c)
    BY <1>2 DEF CompleteClaim, FreshToken
<1>3. CASE CompleteCopy(c) \/ CompleteUpsert(c) \/ CompleteRecord(c)
  <2>1. blob' \in BOOLEAN /\ wrote' \in BOOLEAN
      BY <1>3, Zenon DEF CompleteCopy, CompleteUpsert, CompleteRecord
  <2>2. art' \in {art, "ours"}
      BY <1>3, Zenon DEF CompleteCopy, CompleteUpsert, CompleteRecord
  <2>3. "ours" \in Rows
      BY DEF Rows
  <2> QED  BY <1>3, <2>1, <2>2, <2>3 DEF CompleteCopy, CompleteUpsert, CompleteRecord
<1>4. CASE CompleteFinalize(c) \/ CompleteSettle(c)
    BY <1>4 DEF CompleteFinalize, CompleteSettle, SettleAs, Open, Terminal
<1>5. CASE CompleteReclaim(c) \/ CompleteCleanup(c) \/ CompleteCrash(c) \/ RenewCommit(c)
    BY <1>5 DEF CompleteReclaim, CompleteCleanup, CompleteCrash, RenewCommit
<1>6. CASE CompletePurge(c)
    BY <1>6 DEF CompletePurge, DeleteAll, DeleteSome
<1>7. CASE CompleteStamp(c)
  <2>1. purged' \in BOOLEAN
      BY <1>7, Zenon DEF CompleteStamp
  <2> QED  BY <1>7, <2>1 DEF CompleteStamp
<1> QED  BY <1>1, <1>2, <1>3, <1>4, <1>5, <1>6, <1>7 DEF Commit

\* Cancel, the reaper, the retry's clean-up and time.
Elsewhere ==
    \/ Cancel \/ CancelPurge \/ CancelStamp \/ CancelCrash
    \/ ReapExpired \/ ReapLock \/ ReapPurge \/ ReapStamp
    \/ ReapOrphan \/ ReapOrphanPurge \/ ReapOrphanDone \/ ReapCrash
    \/ ReplDelete \/ ReplPurge
    \/ LeaseLapses \/ SessionExpires \/ OtherAtPath

\* Nothing is left out.
LEMMA NextCases ==
    Next <=> \/ \E u \in Uploaders : Upload(u)
             \/ \E c \in Completers :
                   CompleteCheck(c) \/ Commit(c) \/ RenewCommit(c) \/ CompleteCrash(c)
             \/ Elsewhere
  BY DEF Next, Elsewhere

\* Every other step keeps the types, given that a purge of orphans starts
\* only below the bound on attempts.
LEMMA TypeElsewhere ==
  ASSUME TypeOK, Elsewhere, reap = "opurge" => orphan.tries < MaxTries
  PROVE  TypeOK'
<1> USE ConstantsAssumption DEF TypeOK, sessVars, chunkVars, artVars, upVars, comVars, purgeVars
<1>1. CASE Cancel \/ CancelStamp \/ CancelCrash \/ ReapExpired
  <2>1. purged' \in BOOLEAN
      BY <1>1, Zenon DEF Cancel, CancelStamp, CancelCrash, ReapExpired
  <2> QED  BY <1>1, <2>1 DEF Cancel, CancelStamp, CancelCrash, ReapExpired, BecomeCancelled, Terminal
<1>2. CASE CancelPurge \/ ReapPurge \/ ReplPurge
    BY <1>2 DEF CancelPurge, ReapPurge, ReplPurge, DeleteAll, DeleteSome
<1>3. CASE ReapLock \/ ReapStamp \/ ReapOrphan \/ ReapOrphanDone \/ ReapCrash
  <2>1. purged' \in BOOLEAN
      BY <1>3, Zenon DEF ReapLock, ReapStamp, ReapOrphan, ReapOrphanDone, ReapCrash
  <2>2. orphan' \in OrphanRow
      BY <1>3, OrphanTypes, Zenon DEF OrphanRow, ReapLock, ReapStamp, ReapOrphan, ReapOrphanDone, ReapCrash
  <2> QED  BY <1>3, <2>1, <2>2 DEF OrphanRow, ReapLock, ReapStamp, ReapOrphan, ReapOrphanDone, ReapCrash
<1>4. CASE ReapOrphanPurge
    BY <1>4 DEF ReapOrphanPurge, DeleteAll, DeleteSome
<1>5. CASE ReplDelete
    BY <1>5 DEF ReplDelete, OrphanAfterDelete, QueueOrphan
<1>6. CASE LeaseLapses \/ SessionExpires \/ OtherAtPath
  <2>1. expired' \in BOOLEAN
      BY <1>6, Zenon DEF LeaseLapses, SessionExpires, OtherAtPath
  <2> QED  BY <1>6, <2>1 DEF LeaseLapses, SessionExpires, OtherAtPath
<1> QED  BY <1>1, <1>2, <1>3, <1>4, <1>5, <1>6 DEF Elsewhere

\* The reaper works on an orphan only below the bound on its attempts, and
\* whoever queues the orphan meanwhile leaves it there.
AttemptsLeft == reap = "opurge" => orphan.tries < MaxTries

\* Every step keeps that: ReapOrphan looks at the attempts, nobody else adds one.
LEMMA AttemptsStep ==
  ASSUME TypeOK, AttemptsLeft, Next
  PROVE  AttemptsLeft'
<1> USE ConstantsAssumption DEF AttemptsLeft, purgeVars
<1>0. QueueOrphan.tries \in {orphan.tries, 0}
    BY Zenon DEF QueueOrphan
<1>1. ASSUME NEW u \in Uploaders, Upload(u) PROVE AttemptsLeft'
  <2>1. orphan' \in {orphan, QueueOrphan} /\ reap' = reap
      BY <1>1, Zenon DEF Upload, UploadCheck, UploadLock, UploadPut, UploadSettle, UploadDiscard, UploadFails
  <2> QED  BY <1>0, <2>1
<1>2. ASSUME NEW c \in Completers,
             CompleteCheck(c) \/ Commit(c) \/ RenewCommit(c) \/ CompleteCrash(c)
      PROVE  AttemptsLeft'
  <2>1. orphan' = orphan /\ reap' = reap
      BY <1>2, Zenon DEF Commit, CompleteCheck, CompleteClaim, CompleteCount, CompleteGate,
         CompleteAssemble, CompleteCopy, CompleteUpsert, CompleteRecord, CompleteFinalize,
         CompleteSettle, CompleteReclaim, CompletePurge, CompleteStamp, CompleteCleanup,
         RenewCommit, CompleteCrash, Advance
  <2> QED  BY <2>1
<1>3. CASE Elsewhere
  <2>1. CASE ReplDelete
    <3>1. orphan' \in {orphan, QueueOrphan} /\ reap' = reap
        BY <2>1, Zenon DEF ReplDelete, OrphanAfterDelete
    <3> QED  BY <1>0, <3>1
  <2>2. CASE ReapOrphan
      BY <2>2 DEF ReapOrphan, OrphanDue
  <2>3. CASE ~ReplDelete /\ ~ReapOrphan
    <3>1. reap' # "opurge" \/ (reap' = reap /\ orphan' = orphan)
        BY <1>3, <2>3, Zenon DEF Elsewhere, Cancel, CancelPurge, CancelStamp, CancelCrash,
           ReapExpired, ReapLock, ReapPurge, ReapStamp, ReapOrphanPurge, ReapOrphanDone,
           ReapCrash, ReplPurge, LeaseLapses, SessionExpires, OtherAtPath
    <3> QED  BY <3>1
  <2> QED  BY <2>1, <2>2, <2>3
<1> QED  BY <1>1, <1>2, <1>3, NextCases

\* The row of an orphan is given up after its last attempt: the counter stays
\* within its bound, and every other variable keeps its type.
THEOREM TypesHold == Spec => []TypeOK
<1>1. Init => TypeOK /\ AttemptsLeft
  <2> SUFFICES ASSUME Init PROVE TypeOK /\ AttemptsLeft
      OBVIOUS
  <2>1. orphan \in [there : BOOLEAN, tries : 0..MaxTries]
      BY ConstantsAssumption DEF Init
  <2> QED  BY <2>1, ConstantsAssumption DEF Init, TypeOK, AttemptsLeft, Open
<1>2. TypeOK /\ AttemptsLeft /\ [Next]_vars => (TypeOK /\ AttemptsLeft)'
  <2> SUFFICES ASSUME TypeOK, AttemptsLeft, [Next]_vars PROVE (TypeOK /\ AttemptsLeft)'
      OBVIOUS
  <2>1. CASE Next
    <3>1. TypeOK'
        BY <2>1, NextCases, TypeUpload, TypeComplete, TypeElsewhere DEF AttemptsLeft
    <3> QED  BY <2>1, <3>1, AttemptsStep
  <2>2. CASE UNCHANGED vars
      BY <2>2 DEF vars, sessVars, chunkVars, artVars, upVars, comVars, purgeVars, TypeOK, AttemptsLeft
  <2> QED  BY <2>1, <2>2
<1> QED  BY <1>1, <1>2, PTL DEF Spec

----------------------------------------------------------------------------
(* The counter of completed chunks. *)

\* A PATCH that stores a chunk holds the row of that chunk, and the row is
\* pending until the transaction ends.
ChunkHeld ==
    \A u \in Uploaders :
        /\ upc[u] # "idle" => uchunk[u] \in Chunks
        /\ upc[u] \in {"locked", "stored"} =>
              lock[uchunk[u]] = u /\ row[uchunk[u]] = "pending"

\* Only a PATCH writes chunk rows and their locks.
LEMMA ChunksElsewhere ==
  ASSUME \/ Elsewhere
         \/ \E c \in Completers :
               CompleteCheck(c) \/ Commit(c) \/ RenewCommit(c) \/ CompleteCrash(c)
  PROVE  UNCHANGED <<chunkVars, upVars>>
<1>1. CASE Elsewhere
    BY <1>1, Zenon DEF Elsewhere, Cancel, CancelPurge, CancelStamp, CancelCrash,
       ReapExpired, ReapLock, ReapPurge, ReapStamp, ReapOrphan, ReapOrphanPurge, ReapOrphanDone,
       ReapCrash, ReplDelete, ReplPurge, LeaseLapses, SessionExpires, OtherAtPath
<1>2. ASSUME NEW c \in Completers,
             CompleteCheck(c) \/ Commit(c) \/ RenewCommit(c) \/ CompleteCrash(c)
      PROVE  UNCHANGED <<chunkVars, upVars>>
    BY <1>2, Zenon DEF Commit, CompleteCheck, CompleteClaim, CompleteCount, CompleteGate,
       CompleteAssemble, CompleteCopy, CompleteUpsert, CompleteRecord, CompleteFinalize,
       CompleteSettle, CompleteReclaim, CompletePurge, CompleteStamp, CompleteCleanup,
       RenewCommit, CompleteCrash, Advance
<1> QED  BY <1>1, <1>2

\* FOR UPDATE: the row of a chunk is taken by one transaction at a time.
LEMMA ChunkHeldStep ==
  ASSUME TypeOK, ChunkHeld, [Next]_vars
  PROVE  ChunkHeld'
<1> USE ConstantsAssumption DEF ChunkHeld, TypeOK
<1>1. ASSUME NEW u \in Uploaders, NEW k \in Chunks, UploadCheck(u, k) PROVE ChunkHeld'
    BY <1>1 DEF UploadCheck, chunkVars
<1>2. ASSUME NEW u \in Uploaders, UploadLock(u) PROVE ChunkHeld'
    BY <1>2 DEF UploadLock, UploadEnds, LockFree
<1>3. ASSUME NEW u \in Uploaders, UploadPut(u) PROVE ChunkHeld'
    BY <1>3 DEF UploadPut, chunkVars
<1>4. ASSUME NEW u \in Uploaders, UploadSettle(u) PROVE ChunkHeld'
    BY <1>4 DEF UploadSettle, UploadEnds, Unlock
<1>5. ASSUME NEW u \in Uploaders, UploadDiscard(u) PROVE ChunkHeld'
    BY <1>5 DEF UploadDiscard, UploadEnds, chunkVars
<1>6. ASSUME NEW u \in Uploaders, UploadFails(u) PROVE ChunkHeld'
    BY <1>6 DEF UploadFails, UploadEnds, Unlock
<1>7. ASSUME UNCHANGED <<chunkVars, upVars>> PROVE ChunkHeld'
    BY <1>7 DEF chunkVars, upVars
<1>8. CASE UNCHANGED vars
    BY <1>7, <1>8 DEF vars
<1> QED  BY <1>1, <1>2, <1>3, <1>4, <1>5, <1>6, <1>7, <1>8, NextCases, ChunksElsewhere DEF Upload

DoneChunks == {k \in Chunks : row[k] = "completed"}

\* The counter and the chunk rows move together, and only when a pending row
\* is completed.
LEMMA CountStep ==
  ASSUME TypeOK, ChunkHeld, CountExact, [Next]_vars
  PROVE  CountExact'
<1>0. IsFiniteSet(DoneChunks)
    BY ConstantsAssumption, FS_Subset DEF DoneChunks
<1>1. SUFFICES ASSUME ~(count' = count /\ row' = row) PROVE CountExact'
    BY DEF CountExact
<1>2. PICK u \in Uploaders : UploadSettle(u) /\ AcceptsChunk
  <2>1. ~UNCHANGED vars
      BY <1>1 DEF vars, chunkVars
  <2>2. PICK u \in Uploaders : Upload(u)
      BY <1>1, <2>1, NextCases, ChunksElsewhere DEF chunkVars
  <2> QED  BY <1>1, <2>2, Zenon DEF Upload, UploadCheck, UploadLock, UploadPut, UploadSettle,
              UploadDiscard, UploadFails, chunkVars
<1>3. uchunk[u] \in Chunks /\ row[uchunk[u]] = "pending"
    BY <1>2 DEF UploadSettle, ChunkHeld
<1>4. DoneChunks' = DoneChunks \cup {uchunk[u]} /\ uchunk[u] \notin DoneChunks
    BY <1>2, <1>3 DEF UploadSettle, DoneChunks, TypeOK
<1>5. Cardinality(DoneChunks') = Cardinality(DoneChunks) + 1
    BY <1>0, <1>4, FS_AddElement
<1> QED  BY <1>2, <1>5 DEF UploadSettle, CountExact, DoneChunks

\* upload_chunk: however PATCH requests for one chunk interleave, die or are
\* refused, completed_chunks is the number of completed chunk rows.
THEOREM CountIsExact == Spec => []CountExact
<1>1. Init => ChunkHeld /\ CountExact
  <2> SUFFICES ASSUME Init PROVE ChunkHeld /\ CountExact
      OBVIOUS
  <2>1. ChunkHeld
      BY DEF Init, ChunkHeld
  <2>2. {k \in Chunks : row[k] = "completed"} = {} /\ count = 0
      BY DEF Init
  <2> QED  BY <2>1, <2>2, FS_EmptySet DEF CountExact
<1>2. TypeOK /\ ChunkHeld /\ CountExact /\ [Next]_vars => (ChunkHeld /\ CountExact)'
    BY ChunkHeldStep, CountStep
<1> QED  BY <1>1, <1>2, TypesHold, PTL DEF Spec

----------------------------------------------------------------------------
(* Who may end a session. *)

\* Every step of a complete request that touches the session's status or
\* token: a claim of what is claimable, a settlement under its own token, or
\* the removal of a completed replication session.
LEMMA CompleteMoves ==
  ASSUME TypeOK, NEW c \in Completers,
         CompleteCheck(c) \/ Commit(c) \/ RenewCommit(c) \/ CompleteCrash(c),
         ~UNCHANGED <<status, token>>
  PROVE  /\ cpc'[c] # cpc[c]
         /\ \/ Claimable /\ status' = "committing"
            \/ OwnsCommit(c) /\ status' \in {"completed", "in_progress", "failed"}
            \/ status = "completed" /\ status' = "gone"
<1> USE DEF TypeOK, sessVars, At, Goto, Advance, HoldingPcs
<1>1. CASE CompleteClaim(c)
    BY <1>1 DEF CompleteClaim
<1>2. CASE CompleteFinalize(c)
    BY <1>2 DEF CompleteFinalize, SettleAs
<1>3. CASE CompleteSettle(c)
    BY <1>3 DEF CompleteSettle, SettleAs
<1>4. CASE CompleteCleanup(c)
    BY <1>4 DEF CompleteCleanup
<1>5. CASE ~CompleteClaim(c) /\ ~CompleteFinalize(c) /\ ~CompleteSettle(c) /\ ~CompleteCleanup(c)
    BY <1>5, Zenon DEF Commit, CompleteCheck, CompleteCount, CompleteGate,
       CompleteAssemble, CompleteCopy, CompleteUpsert, CompleteRecord,
       CompleteReclaim, CompletePurge, CompleteStamp, RenewCommit, CompleteCrash
<1> QED  BY <1>1, <1>2, <1>3, <1>4, <1>5

\* What everybody else does to the session: a chunk opens it, a cancel or the
\* reaper ends what is cancellable, a retry deletes it.
LEMMA OtherMoves ==
  ASSUME Elsewhere \/ \E u \in Uploaders : Upload(u),
         ~UNCHANGED <<status, token>>
  PROVE  \/ status = "pending" /\ status' = "in_progress"
         \/ Cancellable /\ status' = "cancelled"
         \/ status # "gone" /\ status' = "gone"
<1> USE DEF sessVars
<1>1. ASSUME NEW u \in Uploaders, Upload(u)
      PROVE  status = "pending" /\ status' = "in_progress"
    BY <1>1, Zenon DEF Upload, UploadCheck, UploadLock, UploadPut, UploadSettle, UploadDiscard,
       UploadFails
<1>2. CASE Elsewhere
    BY <1>2, Zenon DEF Elsewhere, Cancel, CancelPurge, CancelStamp, CancelCrash, BecomeCancelled,
       ReapExpired, ReapLock, ReapPurge, ReapStamp, ReapOrphan, ReapOrphanPurge, ReapOrphanDone,
       ReapCrash, ReplDelete, ReplPurge, LeaseLapses, SessionExpires, OtherAtPath
<1> QED  BY <1>1, <1>2

\* No step breaks the fence of the state token and of the terminal states.
LEMMA FencedNext ==
  ASSUME TypeOK, [Next]_vars
  PROVE  FencedStep
<1>1. CASE UNCHANGED <<status, token>>
    BY <1>1 DEF FencedStep
<1>2. ASSUME ~UNCHANGED <<status, token>>, NEW c \in Completers,
             CompleteCheck(c) \/ Commit(c) \/ RenewCommit(c) \/ CompleteCrash(c)
      PROVE  FencedStep
    BY <1>2, CompleteMoves DEF FencedStep, Claimable, OwnsCommit, Open, Terminal
<1>3. ASSUME ~UNCHANGED <<status, token>>, Elsewhere \/ \E u \in Uploaders : Upload(u)
      PROVE  FencedStep
    BY <1>3, OtherMoves DEF FencedStep, Cancellable, Open, Terminal
<1>4. CASE UNCHANGED vars
    BY <1>1, <1>4 DEF vars, sessVars
<1> QED  BY <1>1, <1>2, <1>3, <1>4, NextCases

\* The state_token guard of renew, release, fail and finalize, and the status
\* guards of cancel, reaper and PATCH: a terminal session never opens again,
\* and a live commit lease is ended by its owner or with the whole row, also
\* when leases lapse under a stalled owner.
THEOREM TokenFences == Spec => CommitFenced
<1>1. TypeOK /\ [Next]_vars => [FencedStep]_vars
    BY FencedNext
<1> QED  BY <1>1, TypesHold, PTL DEF Spec, CommitFenced

----------------------------------------------------------------------------
(* A completed session has its artifact. *)

\* Only a complete request moves complete requests, stores the content and
\* commits the artifact row.
LEMMA CompletersElsewhere ==
  ASSUME Elsewhere \/ \E u \in Uploaders : Upload(u)
  PROVE  UNCHANGED <<comVars, blob, wrote>>
<1> USE DEF artVars
<1>1. ASSUME NEW u \in Uploaders, Upload(u) PROVE UNCHANGED <<comVars, blob, wrote>>
    BY <1>1, Zenon DEF Upload, UploadCheck, UploadLock, UploadPut, UploadSettle, UploadDiscard,
       UploadFails
<1>2. CASE Elsewhere
    BY <1>2, Zenon DEF Elsewhere, Cancel, CancelPurge, CancelStamp, CancelCrash,
       ReapExpired, ReapLock, ReapPurge, ReapStamp, ReapOrphan, ReapOrphanPurge, ReapOrphanDone,
       ReapCrash, ReplDelete, ReplPurge, LeaseLapses, SessionExpires, OtherAtPath
<1> QED  BY <1>1, <1>2

\* What a complete request has behind it at each of its later steps.
Progress ==
    \A c \in Completers :
        /\ cpc[c] \in {"copied", "written", "recorded"} => blob
        /\ cpc[c] \in {"written", "recorded"} => wrote

\* Content and artifact row stay, once the complete request has come so far.
LEMMA ProgressStep ==
  ASSUME TypeOK, Progress, [Next]_vars
  PROVE  Progress' /\ (blob => blob') /\ (wrote => wrote')
<1> USE DEF TypeOK, Progress, At, Goto, Advance, artVars, comVars
<1>1. CASE Elsewhere \/ \E u \in Uploaders : Upload(u)
    BY <1>1, CompletersElsewhere
<1>2. ASSUME NEW c \in Completers,
             CompleteCheck(c) \/ Commit(c) \/ RenewCommit(c) \/ CompleteCrash(c)
      PROVE  Progress' /\ (blob => blob') /\ (wrote => wrote')
  <2>1. CASE CompleteCopy(c)
      BY <2>1 DEF CompleteCopy
  <2>2. CASE CompleteUpsert(c)
      BY <2>2 DEF CompleteUpsert
  <2>3. CASE CompleteRecord(c)
      BY <2>3 DEF CompleteRecord
  <2>4. CASE ~CompleteCopy(c) /\ ~CompleteUpsert(c) /\ ~CompleteRecord(c)
    <3>1. UNCHANGED <<blob, wrote>>
        BY <1>2, <2>4, Zenon DEF Commit, CompleteCheck, CompleteClaim, CompleteCount, CompleteGate,
           CompleteAssemble, CompleteFinalize, CompleteSettle, CompleteReclaim, CompletePurge,
           CompleteStamp, CompleteCleanup, RenewCommit, CompleteCrash
    <3>2. \/ cpc' = cpc
          \/ \E to \in HoldingPcs \cup {"idle", "checked", "purge", "stamp", "cleanup", "reclaim",
                                        "rpurge", "rstamp"} :
                to \notin {"copied", "written", "recorded"} /\ cpc' = [cpc EXCEPT ![c] = to]
        BY <1>2, <2>4 DEF Commit, CompleteCheck, CompleteClaim, CompleteCount, CompleteGate,
           CompleteAssemble, CompleteFinalize, CompleteSettle, CompleteReclaim, CompletePurge,
           CompleteStamp, CompleteCleanup, RenewCommit, CompleteCrash, HoldingPcs
    <3> QED  BY <3>1, <3>2
  <2> QED  BY <2>1, <2>2, <2>3, <2>4
<1>3. CASE UNCHANGED vars
    BY <1>3 DEF vars
<1> QED  BY <1>1, <1>2, <1>3, NextCases

\* finalize_completed is the only step that marks a session completed, and it
\* comes after the copy and the upsert of the same request.
LEMMA CompletedStep ==
  ASSUME TypeOK, Progress, CompletedWritten, [Next]_vars
  PROVE  CompletedWritten'
<1> SUFFICES ASSUME status' = "completed" PROVE wrote' /\ blob'
    BY DEF CompletedWritten
<1>1. CASE status = "completed"
    BY <1>1, ProgressStep DEF CompletedWritten
<1>2. CASE status # "completed"
  <2>1. ~UNCHANGED vars
      BY <1>2 DEF vars, sessVars
  <2>2. PICK c \in Completers :
           CompleteCheck(c) \/ Commit(c) \/ RenewCommit(c) \/ CompleteCrash(c)
      BY <1>2, <2>1, NextCases, OtherMoves
  <2>3. cpc[c] = "recorded"
    <3>1. ~UNCHANGED <<status, token>>
        BY <1>2
    <3>2. ~CompleteClaim(c)
        BY <1>2 DEF CompleteClaim
    <3>3. ~CompleteSettle(c) /\ ~CompleteCleanup(c)
        BY <1>2 DEF CompleteSettle, SettleAs, CompleteCleanup
    <3>4. CompleteFinalize(c)
        BY <2>2, <3>1, <3>2, <3>3, Zenon DEF Commit, CompleteCheck, CompleteCount, CompleteGate,
           CompleteAssemble, CompleteCopy, CompleteUpsert, CompleteRecord,
           CompleteReclaim, CompletePurge, CompleteStamp, RenewCommit, CompleteCrash, Advance, sessVars
    <3> QED  BY <3>4 DEF CompleteFinalize, At
  <2> QED  BY <2>3, ProgressStep DEF Progress
<1> QED  BY <1>1, <1>2

\* complete_session_commit and finalize_completed: a session is completed
\* only after its artifact row is committed and its content is in final
\* storage, whichever steps fail, die or run under a lapsed lease.
THEOREM CompletedIsWritten == Spec => []CompletedWritten
<1>1. Init => Progress /\ CompletedWritten
    BY DEF Init, Progress, CompletedWritten
<1>2. TypeOK /\ Progress /\ CompletedWritten /\ [Next]_vars => (Progress /\ CompletedWritten)'
    BY ProgressStep, CompletedStep
<1> QED  BY <1>1, <1>2, TypesHold, PTL DEF Spec

----------------------------------------------------------------------------
(* One committer at a time. *)

\* Tokens are handed out once, to whoever is between claim and settlement.
TokensApart ==
    /\ \A c \in Completers : Holding(c) => ctok[c] \in Tokens
    /\ \A c, d \in Completers : ctok[c] = ctok[d] /\ ctok[c] # None => c = d

\* Every claim_commit makes a new token, and it is dropped with its request.
LEMMA TokensStep ==
  ASSUME TypeOK, TokensApart, [Next]_vars
  PROVE  TokensApart'
<1> USE ConstantsAssumption DEF TypeOK, TokensApart, Holding, comVars
<1>1. CASE Elsewhere \/ \E u \in Uploaders : Upload(u)
    BY <1>1, CompletersElsewhere
<1>2. ASSUME NEW c \in Completers,
             CompleteCheck(c) \/ Commit(c) \/ RenewCommit(c) \/ CompleteCrash(c)
      PROVE  TokensApart'
  <2>1. CASE CompleteClaim(c)
    <3>1. CASE Claimable
      <4>1. PICK t \in Tokens : FreshToken(t) /\ ctok' = [ctok EXCEPT ![c] = t]
          BY <2>1, <3>1 DEF CompleteClaim
      <4>2. \A d \in Completers : ctok[d] # t
          BY <4>1 DEF FreshToken
      <4>3. cpc' = [cpc EXCEPT ![c] = "claimed"]
          BY <2>1, <3>1 DEF CompleteClaim, Goto
      <4> QED  BY <4>1, <4>2, <4>3
    <3>2. CASE ~Claimable
        BY <2>1, <3>2 DEF CompleteClaim, Goto, HoldingPcs
    <3> QED  BY <3>1, <3>2
  <2>2. CASE CompleteReclaim(c) \/ CompleteCleanup(c) \/ CompleteCrash(c)
      BY <2>2 DEF CompleteReclaim, CompleteCleanup, CompleteCrash, Goto, HoldingPcs
  <2>3. CASE \/ CompleteCheck(c) \/ CompleteCount(c) \/ CompleteGate(c) \/ CompleteAssemble(c)
             \/ CompleteCopy(c) \/ CompleteUpsert(c) \/ CompleteRecord(c) \/ RenewCommit(c)
             \/ CompleteFinalize(c) \/ CompleteSettle(c) \/ CompletePurge(c) \/ CompleteStamp(c)
    <3>1. ctok' = ctok
        BY <2>3, Zenon DEF CompleteCheck, CompleteCount, CompleteGate, CompleteAssemble, CompleteCopy,
           CompleteUpsert, CompleteRecord, RenewCommit, CompleteFinalize, CompleteSettle,
           CompletePurge, CompleteStamp, Advance
    <3>2. \/ cpc' = cpc
          \/ \E to : /\ cpc' = [cpc EXCEPT ![c] = to]
                     /\ to \in HoldingPcs => cpc[c] \in HoldingPcs
        BY <2>3 DEF CompleteCheck, CompleteCount, CompleteGate, CompleteAssemble, CompleteCopy,
           CompleteUpsert, CompleteRecord, RenewCommit, CompleteFinalize, CompleteSettle,
           CompletePurge, CompleteStamp, Advance, At, Goto, HoldingPcs
    <3> QED  BY <3>1, <3>2
  <2> QED  BY <1>2, <2>1, <2>2, <2>3 DEF Commit
<1>3. CASE UNCHANGED vars
    BY <1>3 DEF vars
<1> QED  BY <1>1, <1>2, <1>3, NextCases

\* A lease is renewed long before it would lapse as long as its owner runs.
Timely == "stall" \notin Faults

\* Whoever is committing owns the live lease, unless the row is gone.
CommitterOwns ==
    /\ \A c \in Completers : Committing(c) => status = "gone" \/ (OwnsCommit(c) /\ lease = "live")
    /\ SingleCommitter

\* A complete request starts to commit with its claim and in no other step.
LEMMA StartsToCommit ==
  ASSUME TypeOK, NEW c \in Completers,
         CompleteCheck(c) \/ Commit(c) \/ RenewCommit(c) \/ CompleteCrash(c)
  PROVE  /\ \A d \in Completers \ {c} : cpc'[d] = cpc[d] /\ ctok'[d] = ctok[d]
         /\ Committing(c)' => \/ ctok'[c] = ctok[c] /\ Committing(c)
                              \/ Claimable /\ CompleteClaim(c)
<1> USE DEF TypeOK, comVars, At, Goto, Advance
<1>1. CASE CompleteClaim(c)
    BY <1>1 DEF CompleteClaim, Committing, HoldingPcs
<1>2. CASE CompleteReclaim(c) \/ CompleteCleanup(c) \/ CompleteCrash(c)
    BY <1>2 DEF CompleteReclaim, CompleteCleanup, CompleteCrash, Committing, HoldingPcs
<1>3. CASE \/ CompleteCheck(c) \/ CompleteCount(c) \/ CompleteGate(c) \/ CompleteAssemble(c)
           \/ CompleteCopy(c) \/ CompleteUpsert(c) \/ CompleteRecord(c) \/ RenewCommit(c)
           \/ CompleteFinalize(c) \/ CompleteSettle(c) \/ CompletePurge(c) \/ CompleteStamp(c)
  <2>1. ctok' = ctok
      BY <1>3, Zenon DEF CompleteCheck, CompleteCount, CompleteGate, CompleteAssemble, CompleteCopy,
         CompleteUpsert, CompleteRecord, RenewCommit, CompleteFinalize, CompleteSettle,
         CompletePurge, CompleteStamp
  <2>2. \/ cpc' = cpc
        \/ \E to : /\ cpc' = [cpc EXCEPT ![c] = to]
                   /\ to \in HoldingPcs \ {"release", "fail"} =>
                         cpc[c] \in HoldingPcs \ {"release", "fail"}
      BY <1>3 DEF CompleteCheck, CompleteCount, CompleteGate, CompleteAssemble, CompleteCopy,
         CompleteUpsert, CompleteRecord, RenewCommit, CompleteFinalize, CompleteSettle,
         CompletePurge, CompleteStamp, HoldingPcs
  <2>3. CASE cpc' = cpc
      BY <2>1, <2>3 DEF Committing
  <2>4. ASSUME NEW to, cpc' = [cpc EXCEPT ![c] = to],
               to \in HoldingPcs \ {"release", "fail"} =>
                  cpc[c] \in HoldingPcs \ {"release", "fail"}
        PROVE  /\ \A d \in Completers \ {c} : cpc'[d] = cpc[d] /\ ctok'[d] = ctok[d]
               /\ Committing(c)' => ctok'[c] = ctok[c] /\ Committing(c)
      BY <2>1, <2>4 DEF Committing
  <2> QED  BY <2>2, <2>3, <2>4
<1> QED  BY <1>1, <1>2, <1>3 DEF Commit

\* Whoever commits keeps its lease: it is not claimable, cancellable or
\* settled under another token, and it does not lapse.
LEMMA CommitterStep ==
  ASSUME Timely, TypeOK, TokensApart, CommitterOwns, [Next]_vars
  PROVE  CommitterOwns'
<1>0. \A c \in Completers : Committing(c) => Holding(c) /\ ctok[c] # None
    BY ConstantsAssumption DEF Committing, Holding, TokensApart
<1>1. CASE Elsewhere \/ \E u \in Uploaders : Upload(u)
  <2>1. UNCHANGED comVars /\ \A c \in Completers : Committing(c)' = Committing(c)
      BY <1>1, CompletersElsewhere DEF comVars, Committing
  <2>2. SingleCommitter'
      BY <2>1 DEF CommitterOwns, SingleCommitter
  <2>3. ASSUME NEW c \in Completers, Committing(c), status # "gone"
        PROVE  status' = "gone" \/ (OwnsCommit(c)' /\ lease' = "live")
    <3>1. OwnsCommit(c) /\ lease = "live" /\ Renewed
        BY <1>0, <2>3 DEF CommitterOwns, Renewed
    <3>2. status' = "gone" \/ (UNCHANGED <<status, token>>)
        BY <1>1, <3>1, OtherMoves DEF OwnsCommit, Cancellable, Open
    <3>3. ~LeaseLapses
        BY <3>1 DEF LeaseLapses, Timely
    <3>4. lease' = lease \/ Cancellable \/ status' = "gone"
      <4>1. ASSUME NEW u \in Uploaders, Upload(u) PROVE lease' = lease
          BY <4>1, Zenon DEF Upload, UploadCheck, UploadLock, UploadPut, UploadSettle, UploadDiscard,
             UploadFails, sessVars
      <4>2. CASE Elsewhere
          BY <3>3, <4>2, Zenon DEF Elsewhere, Cancel, CancelPurge, CancelStamp, CancelCrash,
             ReapExpired, ReapLock, ReapPurge, ReapStamp, ReapOrphan, ReapOrphanPurge,
             ReapOrphanDone, ReapCrash, ReplDelete, ReplPurge, SessionExpires, OtherAtPath, sessVars
      <4> QED  BY <1>1, <4>1, <4>2
    <3> QED  BY <2>1, <3>1, <3>2, <3>4 DEF OwnsCommit, Cancellable, Open, comVars
  <2>4. ASSUME status = "gone" PROVE status' = "gone"
      BY <1>1, <2>4, OtherMoves DEF Cancellable, Open
  <2> QED  BY <2>1, <2>2, <2>3, <2>4 DEF CommitterOwns
<1>2. ASSUME NEW c \in Completers,
             CompleteCheck(c) \/ Commit(c) \/ RenewCommit(c) \/ CompleteCrash(c)
      PROVE  CommitterOwns'
  <2>1. /\ \A d \in Completers \ {c} : cpc'[d] = cpc[d] /\ ctok'[d] = ctok[d]
        /\ Committing(c)' => \/ ctok'[c] = ctok[c] /\ Committing(c)
                             \/ Claimable /\ CompleteClaim(c)
      BY <1>2, StartsToCommit
  <2>2. ASSUME NEW d \in Completers, Claimable PROVE ~Committing(d)
      BY <2>2 DEF CommitterOwns, Claimable, OwnsCommit, Open
  <2>3. \A d \in Completers \ {c} : Committing(d)' = Committing(d)
      BY <2>1 DEF Committing
  <2>4. SingleCommitter'
      BY <2>1, <2>2, <2>3 DEF CommitterOwns, SingleCommitter
  <2>5. CASE Claimable /\ CompleteClaim(c)
    <3>1. status' = "committing" /\ lease' = "live" /\ token' = ctok'[c]
        BY <2>5 DEF CompleteClaim, TypeOK
    <3> QED  BY <2>2, <2>3, <2>4, <2>5, <3>1 DEF CommitterOwns, OwnsCommit
  <2>6. CASE ~(Claimable /\ CompleteClaim(c))
    <3>1. ASSUME NEW d \in Completers, Committing(d)'
          PROVE  status' = "gone" \/ (OwnsCommit(d)' /\ lease' = "live")
      <4>1. Committing(d) /\ ctok'[d] = ctok[d]
          BY <2>1, <2>3, <2>6, <3>1
      <4>2. CASE status = "gone"
          BY <1>2, <4>2, CompleteMoves DEF Claimable, OwnsCommit, Open
      <4>3. CASE OwnsCommit(d) /\ lease = "live"
        <5>1. CASE OwnsCommit(c)
          <6>1. c = d
              BY <1>0, <4>1, <4>3, <5>1 DEF OwnsCommit, TokensApart
          <6>2. ~CompleteFinalize(c) /\ ~CompleteSettle(c)
              BY <3>1, <6>1 DEF CompleteFinalize, CompleteSettle, Goto, Committing, HoldingPcs, TypeOK
          <6>3. UNCHANGED <<status, token>>
            <7>1. ~CompleteClaim(c) /\ ~CompleteCleanup(c)
                BY <4>3, <4>1, <6>1 DEF CompleteClaim, CompleteCleanup, At, Committing, HoldingPcs
            <7> QED  BY <1>2, <6>2, <7>1, Zenon DEF Commit, CompleteCheck, CompleteCount, CompleteGate,
                        CompleteAssemble, CompleteCopy, CompleteUpsert, CompleteRecord,
                        CompleteReclaim, CompletePurge, CompleteStamp, RenewCommit, CompleteCrash,
                        Advance, sessVars
          <6>4. lease' \in {lease, "live"}
            <7>1. ~CompleteClaim(c) /\ ~CompleteCleanup(c)
                BY <4>3, <4>1, <6>1 DEF CompleteClaim, CompleteCleanup, At, Committing, HoldingPcs
            <7> QED  BY <1>2, <6>2, <7>1, Zenon DEF Commit, CompleteCheck, CompleteCount, CompleteGate,
                        CompleteAssemble, CompleteCopy, CompleteUpsert, CompleteRecord,
                        CompleteReclaim, CompletePurge, CompleteStamp, RenewCommit, CompleteCrash,
                        Advance, sessVars
          <6> QED  BY <4>1, <4>3, <6>3, <6>4 DEF OwnsCommit
        <5>2. CASE ~OwnsCommit(c)
          <6>1. UNCHANGED <<status, token>>
              BY <1>2, <2>6, <4>3, <5>2, CompleteMoves DEF OwnsCommit, Claimable, Open
          <6>2. lease' \in {lease, "live"}
            <7>1. CASE CompleteClaim(c)
                BY <2>6, <7>1 DEF CompleteClaim
            <7>2. CASE CompleteFinalize(c) \/ CompleteSettle(c)
                BY <5>2, <7>2 DEF CompleteFinalize, CompleteSettle, SettleAs
            <7>3. CASE CompleteCleanup(c)
                BY <4>3, <7>3 DEF CompleteCleanup, OwnsCommit
            <7> QED  BY <1>2, <7>1, <7>2, <7>3, Zenon DEF Commit, CompleteCheck, CompleteCount, CompleteGate,
                        CompleteAssemble, CompleteCopy, CompleteUpsert, CompleteRecord,
                        CompleteReclaim, CompletePurge, CompleteStamp, RenewCommit, CompleteCrash,
                        Advance, sessVars
          <6> QED  BY <4>1, <4>3, <6>1, <6>2 DEF OwnsCommit
        <5> QED  BY <5>1, <5>2
      <4> QED  BY <4>1, <4>2, <4>3 DEF CommitterOwns
    <3> QED  BY <2>4, <3>1 DEF CommitterOwns
  <2> QED  BY <2>5, <2>6
<1>3. CASE UNCHANGED vars
    BY <1>3 DEF vars, sessVars, comVars, CommitterOwns, SingleCommitter, Committing, OwnsCommit
<1> QED  BY <1>1, <1>2, <1>3, NextCases

\* claim_commit, the heartbeat and the token guard: while heartbeats come in
\* time, of all the complete requests of a session on any number of replicas,
\* at most one is between its claim and its settlement, through crashes,
\* failed statements, cancels, take-overs and the deletion of the row.
THEOREM OneCommitter ==
  ASSUME Timely
  PROVE  Spec => [](CommitterOwns /\ SingleCommitter)
<1>1. Init => TokensApart /\ CommitterOwns
    BY DEF Init, TokensApart, CommitterOwns, SingleCommitter, Holding, Committing, HoldingPcs
<1>2. TypeOK /\ TokensApart /\ CommitterOwns /\ [Next]_vars => (TokensApart /\ CommitterOwns)'
    BY TokensStep, CommitterStep
<1>3. CommitterOwns => SingleCommitter
    BY DEF CommitterOwns
<1> QED  BY <1>1, <1>2, <1>3, TypesHold, PTL DEF Spec

\* Only the upsert of a complete request that is committing writes the
\* artifact row.
LEMMA WritesWhileCommitting ==
  ASSUME Next, wrote' # wrote
  PROVE  \E c \in Completers : Committing(c)
<1>1. PICK c \in Completers :
         CompleteCheck(c) \/ Commit(c) \/ RenewCommit(c) \/ CompleteCrash(c)
    BY NextCases, CompletersElsewhere
<1>2. CompleteUpsert(c)
    BY <1>1, Zenon DEF Commit, CompleteCheck, CompleteClaim, CompleteCount, CompleteGate,
       CompleteAssemble, CompleteCopy, CompleteRecord, CompleteFinalize,
       CompleteSettle, CompleteReclaim, CompletePurge, CompleteStamp, CompleteCleanup,
       RenewCommit, CompleteCrash, Advance, artVars
<1> QED  BY <1>2 DEF CompleteUpsert, At, Committing, HoldingPcs

\* Once a session is completed, failed or cancelled, no complete request that
\* is still under way commits an artifact from it.
THEOREM EndedStaysUnwritten ==
  ASSUME Timely
  PROVE  Spec => EndedWritesNothing
<1>1. CommitterOwns /\ [Next]_vars => [(status \in Terminal) => wrote' = wrote]_vars
  <2> SUFFICES ASSUME CommitterOwns, Next, status \in Terminal, wrote' # wrote PROVE FALSE
      OBVIOUS
  <2>1. PICK c \in Completers : Committing(c)
      BY WritesWhileCommitting
  <2> QED  BY <2>1 DEF CommitterOwns, OwnsCommit, Terminal
<1> QED  BY <1>1, OneCommitter, PTL DEF Spec, EndedWritesNothing

----------------------------------------------------------------------------
(* What is staged: never deleted too early, never left behind. *)

Ended == status \in Terminal \cup {"gone"}

\* Ended sessions stay ended.
LEMMA EndedStep ==
  ASSUME TypeOK, Ended, [Next]_vars
  PROVE  Ended'
<1>1. CASE UNCHANGED <<status, token>>
    BY <1>1 DEF Ended
<1>2. ASSUME NEW c \in Completers, ~UNCHANGED <<status, token>>,
             CompleteCheck(c) \/ Commit(c) \/ RenewCommit(c) \/ CompleteCrash(c)
      PROVE  Ended'
    BY <1>2, CompleteMoves DEF Ended, Claimable, OwnsCommit, Open, Terminal
<1>3. ASSUME Elsewhere \/ \E u \in Uploaders : Upload(u), ~UNCHANGED <<status, token>>
      PROVE  Ended'
    BY <1>3, OtherMoves DEF Ended, Cancellable, Open, Terminal
<1>4. CASE UNCHANGED vars
    BY <1>1, <1>4 DEF vars, sessVars
<1> QED  BY <1>1, <1>2, <1>3, <1>4, NextCases

\* Who deletes all of a session's staged objects, or says it was done.
AfterEnd == {"purge", "stamp", "cleanup", "rpurge", "rstamp"}
Purging ==
    \/ \E c \in Completers : cpc[c] \in AfterEnd
    \/ canc # "idle" \/ reap \in {"purge", "stamp"} \/ purged

PurgesEnded == Purging => Ended

\* A complete request purges only a session that it, or somebody, has ended.
LEMMA PurgesEndedStep ==
  ASSUME TypeOK, CommitterOwns, PurgesEnded, [Next]_vars
  PROVE  PurgesEnded'
<1> SUFFICES ASSUME Purging', ~Ended PROVE Ended'
    BY EndedStep DEF PurgesEnded
<1> USE DEF TypeOK
<1>0. /\ \A c \in Completers : cpc[c] \notin AfterEnd
      /\ canc = "idle" /\ reap \notin {"purge", "stamp"} /\ ~purged
    BY DEF PurgesEnded, Purging
<1>1. ASSUME NEW u \in Uploaders, Upload(u) PROVE Ended'
  <2>1. UNCHANGED <<comVars, canc, reap, purged>>
      BY <1>1, Zenon DEF Upload, UploadCheck, UploadLock, UploadPut, UploadSettle, UploadDiscard,
         UploadFails, sessVars, purgeVars
  <2> QED  BY <1>0, <2>1 DEF Purging, comVars
<1>2. ASSUME NEW c \in Completers,
             CompleteCheck(c) \/ Commit(c) \/ RenewCommit(c) \/ CompleteCrash(c)
      PROVE  Ended'
  <2>1. UNCHANGED <<canc, reap>>
      BY <1>2, Zenon DEF Commit, CompleteCheck, CompleteClaim, CompleteCount, CompleteGate,
         CompleteAssemble, CompleteCopy, CompleteUpsert, CompleteRecord, CompleteFinalize,
         CompleteSettle, CompleteReclaim, CompletePurge, CompleteStamp, CompleteCleanup,
         RenewCommit, CompleteCrash, Advance, purgeVars
  <2>2. \A d \in Completers \ {c} : cpc'[d] = cpc[d]
      BY <1>2, StartsToCommit
  <2>3. CASE CompleteFinalize(c)
    <3>1. Committing(c)
        BY <2>3 DEF CompleteFinalize, At, Committing, HoldingPcs
    <3>2. OwnsCommit(c)
        BY <3>1 DEF CommitterOwns, Ended
    <3>3. purged' = purged
        BY <2>3 DEF CompleteFinalize
    <3>4. cpc'[c] \in AfterEnd
        BY <1>0, <2>1, <2>2, <3>3 DEF Purging
    <3> QED  BY <2>3, <3>2, <3>4 DEF CompleteFinalize, SettleAs, Goto, AfterEnd, Ended, Terminal
  <2>4. CASE CompleteReclaim(c)
    <3>1. CASE Reclaims
        BY <3>1 DEF Reclaims, Ended, Terminal
    <3>2. CASE ~Reclaims
      <4>1. cpc'[c] = "idle" /\ purged' = purged
          BY <2>4, <3>2 DEF CompleteReclaim, Goto, sessVars
      <4> QED  BY <1>0, <2>1, <2>2, <4>1 DEF Purging, AfterEnd
    <3> QED  BY <3>1, <3>2
  <2>5. CASE ~CompleteFinalize(c) /\ ~CompleteReclaim(c)
    <3>1. ~CompletePurge(c) /\ ~CompleteStamp(c) /\ ~CompleteCleanup(c)
        BY <1>0 DEF CompletePurge, CompleteStamp, CompleteCleanup, At, AfterEnd
    <3>2. purged' = purged
        BY <1>2, <2>5, <3>1, Zenon DEF Commit, CompleteCheck, CompleteClaim, CompleteCount,
           CompleteGate, CompleteAssemble, CompleteCopy, CompleteUpsert, CompleteRecord,
           CompleteSettle, RenewCommit, CompleteCrash, Advance, sessVars
    <3>3. cpc'[c] \notin AfterEnd
        BY <1>0, <1>2, <2>5, <3>1 DEF Commit, CompleteCheck, CompleteClaim, CompleteCount,
           CompleteGate, CompleteAssemble, CompleteCopy, CompleteUpsert, CompleteRecord,
           CompleteSettle, RenewCommit, CompleteCrash, Advance, Goto, comVars, AfterEnd
    <3> QED  BY <1>0, <2>1, <2>2, <3>2, <3>3 DEF Purging
  <2> QED  BY <2>3, <2>4, <2>5
<1>3. CASE Elsewhere
  <2>1. CASE Cancel \/ ReplDelete
      BY <2>1 DEF Cancel, BecomeCancelled, ReplDelete, Ended, Terminal
  <2>2. CASE ReapLock
      BY <2>2 DEF ReapLock, PurgeDue, Ended
  <2>3. CASE ~Cancel /\ ~ReplDelete /\ ~ReapLock
    <3>1. UNCHANGED <<comVars, canc, purged>> /\ reap' \notin {"purge", "stamp"}
        BY <1>0, <1>3, <2>3, Zenon DEF Elsewhere, CancelPurge, CancelStamp, CancelCrash,
           ReapExpired, ReapPurge, ReapStamp, ReapOrphan, ReapOrphanPurge, ReapOrphanDone,
           ReapCrash, ReplPurge, LeaseLapses, SessionExpires, OtherAtPath, sessVars, purgeVars
    <3> QED  BY <1>0, <3>1 DEF Purging, comVars
  <2> QED  BY <2>1, <2>2, <2>3
<1>4. CASE UNCHANGED vars
    BY <1>0, <1>4 DEF vars, sessVars, comVars, purgeVars, Purging
<1> QED  BY <1>1, <1>2, <1>3, <1>4, NextCases

\* A PATCH that gets as far as its transaction also finishes it, and the delete
\* of a refused chunk succeeds.
UploadsFinish == "upload" \notin Faults
DiscardsWork == "discard" \notin Faults

\* Every staged object belongs to a PATCH that will still settle or delete it.
Covered ==
    \A k \in Chunks : staged[k] # "none" =>
        \E u \in Uploaders : uchunk[u] = k /\ upc[u] \in {"stored", "refused"}

\* Somebody deleted everything, and has stamped the session or is about to.
Swept ==
    \/ \E c \in Completers : cpc[c] \in {"stamp", "rstamp"}
    \/ canc = "stamp" \/ reap = "stamp" \/ purged

SweptCovered == Swept => Covered

\* Nobody but a PATCH adds a staged object, and nobody starts to stamp a
\* session but after deleting all of them.
LEMMA OnlyDeletes ==
  ASSUME TypeOK,
         \/ Elsewhere
         \/ \E c \in Completers :
               CompleteCheck(c) \/ Commit(c) \/ RenewCommit(c) \/ CompleteCrash(c)
  PROVE  /\ \A k \in Chunks : staged'[k] \in {staged[k], "none"}
         /\ Swept' => Swept \/ DeleteAll
<1> USE DEF TypeOK
<1>1. ASSUME NEW c \in Completers,
             CompleteCheck(c) \/ Commit(c) \/ RenewCommit(c) \/ CompleteCrash(c)
      PROVE  /\ \A k \in Chunks : staged'[k] \in {staged[k], "none"}
             /\ Swept' => Swept \/ DeleteAll
  <2>0. \A d \in Completers \ {c} : cpc'[d] = cpc[d]
      BY <1>1, StartsToCommit
  <2>1. UNCHANGED <<canc, reap>>
      BY <1>1, Zenon DEF Commit, CompleteCheck, CompleteClaim, CompleteCount, CompleteGate,
         CompleteAssemble, CompleteCopy, CompleteUpsert, CompleteRecord, CompleteFinalize,
         CompleteSettle, CompleteReclaim, CompletePurge, CompleteStamp, CompleteCleanup,
         RenewCommit, CompleteCrash, Advance, purgeVars
  <2>2. CASE CompletePurge(c)
    <3>1. \A k \in Chunks : staged'[k] \in {staged[k], "none"}
        BY <2>2 DEF CompletePurge, DeleteAll, DeleteSome
    <3>2. purged' = purged /\ (cpc'[c] \in {"stamp", "rstamp"} => DeleteAll)
        BY <2>2 DEF CompletePurge, Goto, sessVars
    <3> QED  BY <2>0, <2>1, <3>1, <3>2 DEF Swept
  <2>3. CASE CompleteStamp(c)
      BY <2>3 DEF CompleteStamp, Swept
  <2>4. CASE ~CompletePurge(c) /\ ~CompleteStamp(c)
    <3>1. staged' = staged /\ purged' = purged
        BY <1>1, <2>4, Zenon DEF Commit, CompleteCheck, CompleteClaim, CompleteCount, CompleteGate,
           CompleteAssemble, CompleteCopy, CompleteUpsert, CompleteRecord, CompleteFinalize,
           CompleteSettle, CompleteReclaim, CompleteCleanup, RenewCommit, CompleteCrash, Advance,
           sessVars
    <3>2. cpc'[c] \in {"stamp", "rstamp"} => cpc'[c] = cpc[c]
        BY <1>1, <2>4 DEF Commit, CompleteCheck, CompleteClaim, CompleteCount, CompleteGate,
           CompleteAssemble, CompleteCopy, CompleteUpsert, CompleteRecord, CompleteFinalize,
           CompleteSettle, CompleteReclaim, CompleteCleanup, RenewCommit, CompleteCrash, Advance,
           Goto, comVars
    <3> QED  BY <2>0, <2>1, <3>1, <3>2 DEF Swept
  <2> QED  BY <2>2, <2>3, <2>4
<1>2. ASSUME Elsewhere
      PROVE  /\ \A k \in Chunks : staged'[k] \in {staged[k], "none"}
             /\ Swept' => Swept \/ DeleteAll
  <2>1. comVars' = comVars
      BY <1>2, CompletersElsewhere
  <2>2. CASE CancelPurge \/ ReapPurge \/ ReapOrphanPurge \/ ReplPurge
    <3>1. \A k \in Chunks : staged'[k] \in {staged[k], "none"}
        BY <2>2 DEF CancelPurge, ReapPurge, ReapOrphanPurge, ReplPurge, DeleteAll, DeleteSome
    <3>2. /\ purged' = purged
          /\ canc' = "stamp" => canc = "stamp" \/ DeleteAll
          /\ reap' = "stamp" => reap = "stamp" \/ DeleteAll
        BY <2>2, Zenon DEF CancelPurge, ReapPurge, ReapOrphanPurge, ReplPurge, sessVars
    <3> QED  BY <2>1, <3>1, <3>2 DEF Swept, comVars
  <2>3. CASE ~(CancelPurge \/ ReapPurge \/ ReapOrphanPurge \/ ReplPurge)
    <3>1. /\ staged' = staged
          /\ canc' # "stamp" \/ canc' = canc
          /\ reap' # "stamp" \/ reap' = reap
          /\ purged' = purged \/ canc = "stamp" \/ reap = "stamp"
        BY <1>2, <2>3, Zenon DEF Elsewhere, Cancel, CancelStamp, CancelCrash,
           ReapExpired, ReapLock, ReapStamp, ReapOrphan, ReapOrphanDone,
           ReapCrash, ReplDelete, LeaseLapses, SessionExpires, OtherAtPath, sessVars, purgeVars
    <3> QED  BY <2>1, <3>1 DEF Swept, comVars
  <2> QED  BY <2>2, <2>3
<1> QED  BY <1>1, <1>2

\* A stamped session gets no new staged object but from a PATCH whose
\* settlement will be refused, which then deletes it.
LEMMA SweptStep ==
  ASSUME UploadsFinish, DiscardsWork, TypeOK, ChunkHeld, PurgesEnded, SweptCovered, [Next]_vars
  PROVE  SweptCovered'
<1> USE DEF TypeOK, SweptCovered
<1>1. ASSUME NEW u \in Uploaders, Upload(u) PROVE SweptCovered'
  <2>1. UNCHANGED <<comVars, canc, reap, purged>>
      BY <1>1, Zenon DEF Upload, UploadCheck, UploadLock, UploadPut, UploadSettle, UploadDiscard,
         UploadFails, sessVars, purgeVars
  <2>2. SUFFICES ASSUME Covered, Ended PROVE Covered'
      BY <2>1 DEF Swept, comVars, PurgesEnded, Purging, AfterEnd
  <2>3. ASSUME NEW k \in Chunks, UploadCheck(u, k) PROVE Covered'
      BY <2>2, <2>3 DEF UploadCheck, Covered
  <2>4. CASE UploadLock(u)
      BY <2>2, <2>4 DEF UploadLock, UploadEnds, Covered
  <2>5. CASE UploadPut(u)
    <3>1. uchunk[u] \in Chunks
        BY <2>5 DEF UploadPut, ChunkHeld
    <3>2. \A k \in Chunks : k # uchunk[u] => staged'[k] = staged[k]
        BY <2>5 DEF UploadPut
    <3>3. UNCHANGED uchunk /\ upc' = [upc EXCEPT ![u] = "stored"]
        BY <2>5 DEF UploadPut
    <3> QED  BY <2>2, <3>1, <3>2, <3>3 DEF Covered
  <2>6. CASE UploadSettle(u)
    <3>1. ~AcceptsChunk
        BY <2>2 DEF AcceptsChunk, Ended, Open, Terminal
    <3> QED  BY <2>2, <2>6, <3>1 DEF UploadSettle, Covered
  <2>7. CASE UploadDiscard(u)
    <3>1. staged' = [staged EXCEPT ![uchunk[u]] = "none"]
        BY <2>7 DEF UploadDiscard, DiscardsWork
    <3>2. upc' = [upc EXCEPT ![u] = "idle"] /\ uchunk' = [uchunk EXCEPT ![u] = None]
        BY <2>7 DEF UploadDiscard, UploadEnds
    <3> QED  BY <2>2, <3>1, <3>2 DEF Covered
  <2>8. ~UploadFails(u)
      BY DEF UploadFails, UploadsFinish
  <2> QED  BY <1>1, <2>3, <2>4, <2>5, <2>6, <2>7, <2>8 DEF Upload
<1>2. CASE \/ Elsewhere
           \/ \E c \in Completers :
                 CompleteCheck(c) \/ Commit(c) \/ RenewCommit(c) \/ CompleteCrash(c)
  <2>1. UNCHANGED <<upc, uchunk>>
      BY <1>2, ChunksElsewhere DEF upVars
  <2>2. DeleteAll => Covered'
      BY DEF DeleteAll, Covered
  <2> QED  BY <1>2, <2>1, <2>2, OnlyDeletes DEF Covered
<1>3. CASE UNCHANGED vars
    BY <1>3 DEF vars, sessVars, upVars, comVars, purgeVars, Swept, Covered
<1> QED  BY <1>1, <1>2, <1>3, NextCases

\* purge_staged_chunks, mark_staging_purged and the reaper: a session that is
\* stamped as purged owns no object in storage once its last PATCH is done, for
\* any number of requests, and whatever complete requests, cancels and purges
\* died or failed on the way.  It needs heartbeats that come in time, PATCH
\* requests that finish, and deletes of refused chunks that succeed.
THEOREM NothingLeaks ==
  ASSUME Timely, UploadsFinish, DiscardsWork
  PROVE  Spec => []NoLeakedChunk
<1>1. Init => ChunkHeld /\ PurgesEnded /\ SweptCovered
    BY DEF Init, ChunkHeld, PurgesEnded, Purging, AfterEnd, SweptCovered, Swept
<1>2. TypeOK /\ ChunkHeld /\ CommitterOwns /\ PurgesEnded /\ SweptCovered /\ [Next]_vars
        => (ChunkHeld /\ PurgesEnded /\ SweptCovered)'
    BY ChunkHeldStep, PurgesEndedStep, SweptStep
<1>3. SweptCovered => NoLeakedChunk
    BY DEF SweptCovered, Swept, Covered, NoLeakedChunk
<1> QED  BY <1>1, <1>2, <1>3, TypesHold, OneCommitter, PTL DEF Spec

\* The orphan queue and the retry's purge belong to sessions whose row is gone,
\* as long as no refused chunk queues its session.
OrphansGone ==
    orphan.there \/ reap \in {"opurge", "odone"} \/ repl # "idle" => status = "gone"

\* The delete trigger queues an orphan with the row it belonged to.
LEMMA OrphansStep ==
  ASSUME DiscardsWork, TypeOK, OrphansGone, [Next]_vars
  PROVE  OrphansGone'
<1> USE DEF OrphansGone
<1>1. CASE UNCHANGED vars
    BY <1>1 DEF vars, sessVars, purgeVars
<1>2. CASE Next
  <2>1. status = "gone" => status' = "gone"
    <3>1. ASSUME NEW c \in Completers, ~UNCHANGED <<status, token>>,
                 CompleteCheck(c) \/ Commit(c) \/ RenewCommit(c) \/ CompleteCrash(c)
          PROVE  status # "gone"
        BY <3>1, CompleteMoves DEF Claimable, OwnsCommit, Open
    <3>2. ASSUME Elsewhere \/ \E u \in Uploaders : Upload(u), ~UNCHANGED <<status, token>>
          PROVE  status # "gone"
        BY <3>2, OtherMoves DEF Cancellable, Open
    <3> QED  BY <1>2, <3>1, <3>2, NextCases
  <2>2. ASSUME NEW u \in Uploaders, Upload(u) PROVE UNCHANGED <<orphan, reap, repl>>
      BY <2>2, Zenon DEF Upload, UploadCheck, UploadLock, UploadPut, UploadSettle, UploadDiscard,
         UploadFails, DiscardsWork, purgeVars
  <2>3. ASSUME NEW c \in Completers,
               CompleteCheck(c) \/ Commit(c) \/ RenewCommit(c) \/ CompleteCrash(c)
        PROVE  UNCHANGED <<orphan, reap, repl>>
      BY <2>3, Zenon DEF Commit, CompleteCheck, CompleteClaim, CompleteCount, CompleteGate,
         CompleteAssemble, CompleteCopy, CompleteUpsert, CompleteRecord, CompleteFinalize,
         CompleteSettle, CompleteReclaim, CompletePurge, CompleteStamp, CompleteCleanup,
         RenewCommit, CompleteCrash, Advance, purgeVars
  <2>4. CASE Elsewhere
    <3>1. CASE ReplDelete
        BY <3>1 DEF ReplDelete
    <3>2. CASE ReapOrphan
        BY <2>1, <3>2 DEF ReapOrphan, OrphanDue
    <3>3. CASE ReapOrphanPurge
        BY <2>1, <3>3 DEF ReapOrphanPurge
    <3>4. CASE ReapOrphanDone
        BY <2>1, <3>4 DEF ReapOrphanDone
    <3>5. CASE ~ReplDelete /\ ~ReapOrphan /\ ~ReapOrphanPurge /\ ~ReapOrphanDone
      <4>1. /\ orphan' = orphan
            /\ reap' = reap \/ reap' \notin {"opurge", "odone"}
            /\ repl' = repl \/ repl' = "idle"
          BY <2>4, <3>5, Zenon DEF Elsewhere, Cancel, CancelPurge, CancelStamp, CancelCrash,
             ReapExpired, ReapLock, ReapPurge, ReapStamp, ReapCrash, ReplPurge, LeaseLapses,
             SessionExpires, OtherAtPath, purgeVars
      <4> QED  BY <2>1, <4>1
    <3> QED  BY <3>1, <3>2, <3>3, <3>4, <3>5
  <2> QED  BY <1>2, <2>1, <2>2, <2>3, <2>4, NextCases
<1> QED  BY <1>1, <1>2

\* No purge of any kind touches a session that can still be completed.
LEMMA OpenNotPurged ==
  ASSUME TypeOK, PurgesEnded, OrphansGone, ~Ended,
         \/ Elsewhere
         \/ \E c \in Completers :
               CompleteCheck(c) \/ Commit(c) \/ RenewCommit(c) \/ CompleteCrash(c)
  PROVE  staged' = staged
<1>0. /\ \A c \in Completers : cpc[c] \notin AfterEnd
      /\ canc = "idle" /\ reap \notin {"purge", "opurge"} /\ repl = "idle"
    BY DEF PurgesEnded, Purging, OrphansGone, Ended
<1>1. ASSUME NEW c \in Completers,
             CompleteCheck(c) \/ Commit(c) \/ RenewCommit(c) \/ CompleteCrash(c)
      PROVE  staged' = staged
  <2>1. ~CompletePurge(c)
      BY <1>0 DEF CompletePurge, At, AfterEnd
  <2> QED  BY <1>1, <2>1, Zenon DEF Commit, CompleteCheck, CompleteClaim, CompleteCount,
              CompleteGate, CompleteAssemble, CompleteCopy, CompleteUpsert, CompleteRecord,
              CompleteFinalize, CompleteSettle, CompleteReclaim, CompleteStamp, CompleteCleanup,
              RenewCommit, CompleteCrash, Advance
<1>2. CASE Elsewhere
  <2>1. ~CancelPurge /\ ~ReapPurge /\ ~ReapOrphanPurge /\ ~ReplPurge
      BY <1>0 DEF CancelPurge, ReapPurge, ReapOrphanPurge, ReplPurge
  <2> QED  BY <1>2, <2>1, Zenon DEF Elsewhere, Cancel, CancelStamp, CancelCrash, ReapExpired,
              ReapLock, ReapStamp, ReapOrphan, ReapOrphanDone, ReapCrash, ReplDelete,
              LeaseLapses, SessionExpires, OtherAtPath
<1> QED  BY <1>1, <1>2

\* A PATCH deletes nothing but its own refused chunk.
LEMMA KeepsStep ==
  ASSUME TypeOK, PurgesEnded, OrphansGone, Next
  PROVE  KeepsStaged
<1> SUFFICES ASSUME NEW k \in Chunks, status \in Open \cup {"committing"},
                    staged[k] # "none", staged'[k] = "none"
             PROVE  \E u \in Uploaders : upc[u] = "refused" /\ uchunk[u] = k /\ upc'[u] # upc[u]
    BY DEF KeepsStaged
<1>1. ~Ended
    BY DEF Ended, Open, Terminal
<1>2. PICK u \in Uploaders : Upload(u)
    BY <1>1, NextCases, OpenNotPurged
<1>3. ~UploadPut(u)
  <2> SUFFICES ASSUME UploadPut(u) PROVE FALSE
      OBVIOUS
  <2>1. PICK b \in {"good", "bad"} : staged' = [staged EXCEPT ![uchunk[u]] = b]
      BY DEF UploadPut
  <2> QED  BY <2>1 DEF TypeOK
<1>4. UploadDiscard(u) /\ staged' # staged
    BY <1>2, <1>3, Zenon DEF Upload, UploadCheck, UploadLock, UploadSettle, UploadFails
<1>5. staged' = [staged EXCEPT ![uchunk[u]] = "none"]
    BY <1>4, Zenon DEF UploadDiscard
<1>6. upc[u] = "refused" /\ upc' = [upc EXCEPT ![u] = "idle"]
    BY <1>4, Zenon DEF UploadDiscard, UploadEnds
<1> QED  BY <1>5, <1>6 DEF TypeOK

\* No purge takes a counted chunk from a session that can still be completed,
\* for any number of PATCH and complete requests, of chunks and of crashes and
\* failing calls: whoever purges has seen, or made, the session end, and ended
\* sessions stay ended.  It needs heartbeats that come in time, and deletes of
\* refused chunks that succeed; with one that fails, the orphan pass purges an
\* open session.
THEOREM PurgesSpareOpen ==
  ASSUME Timely, DiscardsWork
  PROVE  Spec => StagedKept
<1>1. Init => PurgesEnded /\ OrphansGone
  <2> SUFFICES ASSUME Init PROVE PurgesEnded /\ OrphansGone
      OBVIOUS
  <2>1. ~orphan.there /\ reap = "idle" /\ repl = "idle"
      BY DEF Init
  <2>2. OrphansGone
      BY <2>1 DEF OrphansGone
  <2> QED  BY <2>2 DEF Init, PurgesEnded, Purging, AfterEnd
<1>2. TypeOK /\ CommitterOwns /\ PurgesEnded /\ OrphansGone /\ [Next]_vars
        => (PurgesEnded /\ OrphansGone)'
    BY PurgesEndedStep, OrphansStep
<1>3. TypeOK /\ PurgesEnded /\ OrphansGone /\ [Next]_vars => [KeepsStaged]_vars
    BY KeepsStep
<1> QED  BY <1>1, <1>2, <1>3, TypesHold, OneCommitter, PTL DEF Spec, StagedKept
=============================================================================
