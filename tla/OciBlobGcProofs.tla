--------------------------- MODULE OciBlobGcProofs ---------------------------
(***************************************************************************)
(* Theorems about OciBlobGc, for any number of repositories, tags, clients *)
(* and replicas.                                                           *)
(***************************************************************************)
EXTENDS OciBlobGc, TLAPS

-----------------------------------------------------------------------------
(* Type correctness. *)

\* A request that is under way knows its repository, an open manifest
\* transaction its tag, and a sweeper the repository of its row.
PlacesKnown ==
    /\ \A p \in Pushers : ppc[p] # "idle" => prepo[p] \in Repos
    /\ \A p \in Pushers : ppc[p] \in {"putting", "recorded"} => ptag[p] \in Tags
    /\ \A s \in Sweepers : spc[s] # "idle" => srepo[s] \in Repos

Typed == TypeOK /\ PlacesKnown

\* The ids that named a deleted journal row are dropped.
LEMMA FlagsLowered ==
  ASSUME NEW S, NEW f, NEW g, NEW r
  PROVE  [q \in S |-> f[q] /\ g[q] # r] \in [S -> BOOLEAN]
  BY Zenon

\* A deleted journal row leaves a well-formed table.
LEMMA DropTypes ==
  ASSUME TypeOK, NEW r \in Repos, DropJournalRow(r)
  PROVE  /\ jage' \in [Repos -> Ages \cup {"none"}] /\ tomb' \in [Repos -> BOOLEAN]
         /\ claim' \in [Repos -> {"none", "live", "lapsed"}]
         /\ owner' \in [Repos -> Sweepers \cup {None}]
  BY DEF DropJournalRow, TypeOK, Ages

\* Every step of a push keeps the types.
LEMMA TypePush ==
  ASSUME Typed, NEW p \in Pushers, PushStep(p)
  PROVE  Typed'
<1> USE ConstantsAssumption DEF Typed, TypeOK, PlacesKnown, Ages,
        blobVars, refVars, journal, pushVars, sweepVars, gcVars
<1>1. ASSUME NEW r \in Repos, HeadBlob(p, r) PROVE Typed'
    BY <1>1 DEF HeadBlob
<1>2. ASSUME NEW r \in Repos, RegisterKey(p, r) PROVE Typed'
    BY <1>2 DEF RegisterKey
<1>3. ASSUME NEW r \in Repos, NEW o \in Repos, MountFind(p, r, o) PROVE Typed'
    BY <1>3 DEF MountFind
<1>4. ASSUME NEW t \in Tags, BeginManifest(p, t) PROVE Typed'
    BY <1>4 DEF BeginManifest
<1>5. CASE MountBlob(p)
    BY <1>5 DEF MountBlob, PutBlobRow
<1>6. CASE CopyBlob(p)
    BY <1>6 DEF CopyBlob
<1>7. CASE GuardCommit(p)
  <2>1. CASE Cleared(p)
      BY <1>7, <2>1 DEF GuardCommit
  <2>2. CASE ~Cleared(p)
    <3>1. PushEnds(p) /\ UNCHANGED <<obj, blobVars, refVars, journal, sweepVars, gcVars>>
        BY <1>7, <2>2, Zenon DEF GuardCommit
    <3> QED  BY <3>1 DEF PushEnds
  <2> QED  BY <2>1, <2>2
<1>8. CASE CommitBlob(p)
  <2>1. old' \in [Repos -> BOOLEAN] /\ blob' \in [Repos -> {"none", "live", "stamped", "ripe"}]
      BY <1>8 DEF CommitBlob, PutBlobRow
  <2>2. CASE pid[p]
    <3>1. /\ DropJournalRow(prepo[p])
          /\ pid' = [q \in Pushers |-> pid[q] /\ prepo[q] # prepo[p]]
          /\ ppc' = [ppc EXCEPT ![p] = "uploaded"]
          /\ UNCHANGED <<obj, lock, refVars, prepo, ptag, pown, sweepVars, gcVars>>
        BY <1>8, <2>2, Zenon DEF CommitBlob
    <3>2. pid' \in [Pushers -> BOOLEAN]
        BY <3>1, FlagsLowered, Zenon
    <3>3. prepo[p] \in Repos
        BY <1>8 DEF CommitBlob
    <3> QED  BY <2>1, <3>1, <3>2, <3>3, DropTypes
  <2>3. CASE ~pid[p]
      BY <1>8, <2>1, <2>3 DEF CommitBlob
  <2> QED  BY <2>2, <2>3
<1>9. CASE RecordManifest(p)
    BY <1>9 DEF RecordManifest
<1>10. CASE CommitManifest(p)
    BY <1>10 DEF CommitManifest, PushEnds, Resurrected, Unlocked
<1>11. CASE PushFails(p)
    BY <1>11 DEF PushFails, PushEnds, Unlocked
<1> QED  BY <1>1, <1>2, <1>3, <1>4, <1>5, <1>6, <1>7, <1>8, <1>9, <1>10, <1>11 DEF PushStep

\* Every step of a sweeper keeps the types.
LEMMA TypeSweep ==
  ASSUME Typed, NEW s \in Sweepers, SweeperStep(s)
  PROVE  Typed'
<1> USE ConstantsAssumption DEF Typed, TypeOK, PlacesKnown, Ages,
        blobVars, refVars, journal, pushVars, gcVars, SweepEnds
<1>1. ASSUME NEW r \in Repos, ClaimKey(s, r) PROVE Typed'
    BY <1>1 DEF ClaimKey
<1>2. CASE TombstoneKey(s)
  <2>1. CASE Reclaimable(s)
    <3>1. /\ tomb' = [tomb EXCEPT ![srepo[s]] = TRUE] /\ claim' = [claim EXCEPT ![srepo[s]] = "live"]
          /\ spc' = [spc EXCEPT ![s] = "tombed"]
          /\ UNCHANGED <<srepo, obj, blobVars, refVars, jage, owner, pushVars, gcVars>>
        BY <1>2, <2>1, Zenon DEF TombstoneKey
    <3>2. spc[s] # "idle"
        BY <1>2 DEF TombstoneKey
    <3> QED  BY <3>1, <3>2
  <2>2. CASE ~Reclaimable(s)
      BY <1>2, <2>2 DEF TombstoneKey
  <2> QED  BY <2>1, <2>2
<1>3. CASE DeleteObject(s)
    BY <1>3 DEF DeleteObject
<1>4. CASE DeleteFails(s)
    BY <1>4 DEF DeleteFails
<1>5. CASE ReapRow(s)
  <2> DEFINE Still == owner[srepo[s]] = s /\ tomb[srepo[s]] /\ ~AnyBlobRow
  <2>1. CASE Still
    <3>1. /\ DropJournalRow(srepo[s])
          /\ pid' = [q \in Pushers |-> pid[q] /\ prepo[q] # srepo[s]]
          /\ SweepEnds(s)
          /\ UNCHANGED <<obj, blobVars, refVars, ppc, prepo, ptag, pown, gcVars>>
        BY <1>5, <2>1, Zenon DEF ReapRow
    <3>2. pid' \in [Pushers -> BOOLEAN]
        BY <3>1, FlagsLowered, Zenon
    <3>3. srepo[s] \in Repos
        BY <1>5 DEF ReapRow
    <3> QED  BY <3>1, <3>2, <3>3, DropTypes
  <2>2. CASE ~Still
      BY <1>5, <2>2 DEF ReapRow
  <2> QED  BY <2>1, <2>2
<1>6. CASE SweeperDies(s)
    BY <1>6 DEF SweeperDies
<1> QED  BY <1>1, <1>2, <1>3, <1>4, <1>5, <1>6 DEF SweeperStep

\* Every step of the collector keeps the types.
LEMMA TypeTick ==
  ASSUME Typed, TickStep
  PROVE  Typed'
<1> USE ConstantsAssumption DEF Typed, TypeOK, PlacesKnown,
        blobVars, refVars, journal, pushVars, sweepVars
<1>1. CASE GateOpens \/ StartSweep \/ TickEnds
    BY <1>1 DEF GateOpens, StartSweep, TickEnds, Orphans
<1>2. CASE PruneRefs
  <2>1. ref' \in [Repos -> BOOLEAN]
    <3>1. ref' = [r \in Repos |-> ref[r] /\ tags[r] # {}] \/ ref' = ref
        BY <1>2, Zenon DEF PruneRefs
    <3>2. [r \in Repos |-> ref[r] /\ tags[r] # {}] \in [Repos -> BOOLEAN]
        BY FlagsLowered, Zenon
    <3> QED  BY <3>1, <3>2, Zenon
  <2>2. todo' \subseteq Repos
      BY <1>2, Zenon DEF PruneRefs
  <2> QED  BY <1>2, <2>1, <2>2 DEF PruneRefs
<1>3. CASE SweepObject
    BY <1>3 DEF SweepObject
<1>4. CASE TickAborts
    BY <1>4 DEF TickAborts, Unlocked
<1>5. ASSUME NEW r \in Repos, MarkBlob(r) \/ LockMarked(r) \/ SweepFails(r) PROVE Typed'
    BY <1>5 DEF MarkBlob, LockMarked, SweepFails
<1>6. ASSUME NEW r \in Repos, SweepRow(r) PROVE Typed'
    BY <1>6 DEF SweepRow
<1> QED  BY <1>1, <1>2, <1>3, <1>4, <1>5, <1>6 DEF TickStep

\* Tags, references and time.
Elsewhere ==
    \/ \E r \in Repos, t \in Tags : DeleteTag(r, t) \/ TagMoves(r, t)
    \/ \E r \in Repos : Backfill(r)
    \/ TimePasses

\* Every other step keeps the types.
LEMMA TypeElsewhere ==
  ASSUME Typed, Elsewhere
  PROVE  Typed'
<1> USE ConstantsAssumption DEF Typed, TypeOK, PlacesKnown, Ages,
        blobVars, refVars, journal, pushVars, sweepVars, gcVars
<1>1. ASSUME NEW r \in Repos, NEW t \in Tags, DeleteTag(r, t) PROVE Typed'
    BY <1>1 DEF DeleteTag
<1>2. ASSUME NEW r \in Repos, NEW t \in Tags, TagMoves(r, t) PROVE Typed'
    BY <1>2 DEF TagMoves
<1>3. ASSUME NEW r \in Repos, Backfill(r) PROVE Typed'
    BY <1>3 DEF Backfill
<1>4. ASSUME NEW r \in Repos, KeyAges(r) PROVE Typed'
    BY <1>4 DEF KeyAges
<1>5. ASSUME NEW r \in Repos, ClaimLapses(r) PROVE Typed'
    BY <1>5 DEF ClaimLapses
<1>6. ASSUME NEW r \in Repos, BlobAges(r) PROVE Typed'
  <2>1. CASE old' = [old EXCEPT ![r] = TRUE] /\ UNCHANGED blob
      BY <1>6, <2>1 DEF BlobAges
  <2>2. CASE blob' = [blob EXCEPT ![r] = "ripe"] /\ UNCHANGED old
      BY <1>6, <2>2 DEF BlobAges
  <2> QED  BY <1>6, <2>1, <2>2, Zenon DEF BlobAges
<1> QED  BY <1>1, <1>2, <1>3, <1>4, <1>5, <1>6 DEF Elsewhere, TimePasses

\* Nothing is left out.
LEMMA NextCases ==
    Next <=> \/ \E p \in Pushers : PushStep(p)
             \/ \E s \in Sweepers : SweeperStep(s)
             \/ TickStep
             \/ Elsewhere
  BY DEF Next, Elsewhere

\* Types and places together are inductive.
LEMMA TypedHolds == Spec => []Typed
<1>1. Init => Typed
  <2> SUFFICES ASSUME Init PROVE Typed
      OBVIOUS
  <2>1. PlacesKnown /\ obj \in BOOLEAN
      BY DEF Init, PlacesKnown
  <2>2. /\ old \in [Repos -> BOOLEAN] /\ ref \in [Repos -> BOOLEAN] /\ tomb \in [Repos -> BOOLEAN]
        /\ pid \in [Pushers -> BOOLEAN] /\ pown \in [Pushers -> BOOLEAN]
      BY DEF Init
  <2> QED  BY <2>1, <2>2 DEF Init, Typed, TypeOK
<1>2. Typed /\ [Next]_vars => Typed'
  <2>1. ASSUME Typed, UNCHANGED vars PROVE Typed'
      BY <2>1 DEF vars, blobVars, refVars, journal, pushVars, sweepVars, gcVars, Typed, TypeOK,
         PlacesKnown
  <2> QED  BY <2>1, NextCases, TypePush, TypeSweep, TypeTick, TypeElsewhere
<1> QED  BY <1>1, <1>2, PTL DEF Spec

\* The rows, locks and requests keep their types: a manifest is committed
\* under a tag and in a repository, and a row is claimed by a sweeper.
THEOREM TypesHold == Spec => []TypeOK
<1>1. Typed => TypeOK
    BY DEF Typed
<1> QED  BY <1>1, TypedHolds, PTL

-----------------------------------------------------------------------------
(* The bytes are deleted under a claim. *)

\* A claim does not lapse under a delete, nor before a push that has copied
\* its bytes commits: both are over within the 15 minutes.
ClaimsLast == "late" \notin Faults

\* A push past its guard does not commit over an announced delete of its own
\* repository's row.
ClearedUndoomed ==
    \A p \in Pushers : ppc[p] = "cleared" => ~Doomed(prepo[p])

\* No step of a push takes a row from the sweeper that announced its delete.
LEMMA ClaimPush ==
  ASSUME Typed, ClearedUndoomed, DeleteUnderClaim, NEW p \in Pushers, PushStep(p)
  PROVE  ClearedUndoomed' /\ DeleteUnderClaim'
<1> USE DEF Typed, PlacesKnown, ClearedUndoomed, DeleteUnderClaim, Doomed, journal, sweepVars
<1>1. CASE GuardCommit(p)
  <2>1. UNCHANGED <<tomb, claim, owner, spc, srepo>>
      BY <1>1 DEF GuardCommit
  <2>2. CASE Cleared(p)
    <3>1. ppc' = [ppc EXCEPT ![p] = "cleared"] /\ UNCHANGED prepo
        BY <1>1, <2>2 DEF GuardCommit
    <3>2. ~Doomed(prepo[p])
        BY <1>1, <2>2 DEF GuardCommit, Cleared
    <3> QED  BY <2>1, <3>1, <3>2 DEF TypeOK
  <2>3. CASE ~Cleared(p)
    <3>1. ppc' = [ppc EXCEPT ![p] = "idle"] /\ prepo' = [prepo EXCEPT ![p] = None]
        BY <1>1, <2>3, Zenon DEF GuardCommit, PushEnds
    <3> QED  BY <2>1, <3>1 DEF TypeOK
  <2> QED  BY <2>2, <2>3
<1>2. CASE CommitBlob(p)
  <2>1. ppc' = [ppc EXCEPT ![p] = "uploaded"] /\ UNCHANGED <<prepo, spc, srepo>>
      BY <1>2 DEF CommitBlob
  <2>2. CASE pid[p]
    <3>1. DropJournalRow(prepo[p]) /\ prepo[p] \in Repos /\ ppc[p] = "cleared"
        BY <1>2, <2>2 DEF CommitBlob
    <3>2. /\ \A r \in Repos : Doomed(r)' <=> Doomed(r) /\ r # prepo[p]
          /\ \A r \in Repos : r # prepo[p] =>
                tomb'[r] = tomb[r] /\ claim'[r] = claim[r] /\ owner'[r] = owner[r]
        BY <3>1 DEF DropJournalRow, TypeOK
    <3>3. ClearedUndoomed'
        BY <2>1, <3>2 DEF TypeOK
    <3>4. \A s \in Sweepers : spc[s] = "tombed" => srepo[s] # prepo[p] /\ srepo[s] \in Repos
        BY <3>1
    <3> QED  BY <2>1, <3>2, <3>3, <3>4
  <2>3. CASE ~pid[p]
    <3>1. UNCHANGED <<tomb, claim, owner>>
        BY <1>2, <2>3 DEF CommitBlob
    <3> QED  BY <2>1, <3>1 DEF TypeOK
  <2> QED  BY <2>2, <2>3
<1>3. CASE ~GuardCommit(p) /\ ~CommitBlob(p)
  <2>1. UNCHANGED <<tomb, claim, owner, spc, srepo>>
      BY <1>3, Zenon DEF PushStep, HeadBlob, RegisterKey, MountFind, BeginManifest, MountBlob, CopyBlob,
         RecordManifest, CommitManifest, PushFails
  <2>2. /\ ppc'[p] # "cleared"
        /\ \A q \in Pushers \ {p} : ppc'[q] = ppc[q] /\ prepo'[q] = prepo[q]
      BY <1>3 DEF PushStep, HeadBlob, RegisterKey, MountFind, BeginManifest, MountBlob, CopyBlob,
         RecordManifest, CommitManifest, PushFails, PushEnds, TypeOK
  <2> QED  BY <2>1, <2>2
<1> QED  BY <1>1, <1>2, <1>3

\* A sweeper announces a delete for a row that is its own, and takes, gives up
\* or reaps no row of another.
LEMMA ClaimSweep ==
  ASSUME Typed, ClearedUndoomed, DeleteUnderClaim, NEW s \in Sweepers, SweeperStep(s)
  PROVE  ClearedUndoomed' /\ DeleteUnderClaim'
<1> USE ConstantsAssumption
    DEF Typed, PlacesKnown, TypeOK, ClearedUndoomed, DeleteUnderClaim, Doomed, journal, pushVars
<1>1. ASSUME NEW r \in Repos, ClaimKey(s, r) PROVE ClearedUndoomed' /\ DeleteUnderClaim'
  <2>1. /\ claim' = [claim EXCEPT ![r] = "live"] /\ owner' = [owner EXCEPT ![r] = s]
        /\ spc' = [spc EXCEPT ![s] = "claimed"] /\ srepo' = [srepo EXCEPT ![s] = r]
        /\ claim[r] # "live" /\ UNCHANGED <<tomb, ppc, prepo>>
      BY <1>1 DEF ClaimKey
  <2>2. \A p \in Pushers : ppc[p] = "cleared" => prepo[p] # r
      BY <1>1 DEF ClaimKey, JournalLocked
  <2> QED  BY <2>1, <2>2
<1>2. CASE TombstoneKey(s)
  <2>1. CASE Reclaimable(s)
    <3>1. /\ tomb' = [tomb EXCEPT ![srepo[s]] = TRUE] /\ claim' = [claim EXCEPT ![srepo[s]] = "live"]
          /\ spc' = [spc EXCEPT ![s] = "tombed"] /\ UNCHANGED <<srepo, owner, ppc, prepo>>
        BY <1>2, <2>1 DEF TombstoneKey
    <3>2. srepo[s] \in Repos /\ owner[srepo[s]] = s /\ \A p \in Pushers : ppc[p] # "cleared"
        BY <1>2, <2>1 DEF TombstoneKey, Reclaimable, KeyFree
    <3> QED  BY <3>1, <3>2
  <2>2. CASE ~Reclaimable(s)
      BY <1>2, <2>2 DEF TombstoneKey, SweepEnds
  <2> QED  BY <2>1, <2>2
<1>3. CASE DeleteObject(s) \/ SweeperDies(s)
    BY <1>3 DEF DeleteObject, SweeperDies, SweepEnds
<1>4. CASE DeleteFails(s)
  <2>1. /\ claim' = [claim EXCEPT ![srepo[s]] = IF owner[srepo[s]] = s THEN "lapsed" ELSE @]
        /\ spc' = [spc EXCEPT ![s] = "idle"] /\ srepo' = [srepo EXCEPT ![s] = None]
        /\ UNCHANGED <<tomb, owner, ppc, prepo>> /\ srepo[s] \in Repos
      BY <1>4 DEF DeleteFails, SweepEnds
  <2> QED  BY <2>1
<1>5. CASE ReapRow(s)
  <2> DEFINE Still == owner[srepo[s]] = s /\ tomb[srepo[s]] /\ ~AnyBlobRow
  <2>1. /\ spc' = [spc EXCEPT ![s] = "idle"] /\ srepo' = [srepo EXCEPT ![s] = None]
        /\ UNCHANGED <<ppc, prepo>> /\ srepo[s] \in Repos
      BY <1>5 DEF ReapRow, SweepEnds
  <2>2. CASE Still
    <3>1. DropJournalRow(srepo[s])
        BY <1>5, <2>2 DEF ReapRow
    <3> QED  BY <2>1, <2>2, <3>1 DEF DropJournalRow
  <2>3. CASE ~Still
    <3>1. UNCHANGED <<tomb, claim, owner>>
        BY <1>5, <2>3 DEF ReapRow
    <3> QED  BY <2>1, <3>1
  <2> QED  BY <2>2, <2>3
<1> QED  BY <1>1, <1>2, <1>3, <1>4, <1>5 DEF SweeperStep

\* Of the steps of the collector, of tags and of time, only the lapse of a
\* claim touches what a sweeper relies on.
LEMMA ClaimElsewhere ==
  ASSUME ClaimsLast, Typed, ClearedUndoomed, DeleteUnderClaim, TickStep \/ Elsewhere
  PROVE  ClearedUndoomed' /\ DeleteUnderClaim'
<1> USE DEF Typed, PlacesKnown, ClearedUndoomed, DeleteUnderClaim, Doomed
<1>1. ASSUME NEW r \in Repos, ClaimLapses(r) PROVE ClearedUndoomed' /\ DeleteUnderClaim'
  <2>1. /\ claim' = [claim EXCEPT ![r] = "lapsed"]
        /\ UNCHANGED <<tomb, owner, ppc, prepo, spc, srepo>>
      BY <1>1 DEF ClaimLapses, pushVars, sweepVars
  <2>2. tomb[r] => \A s \in Sweepers : owner[r] = s => srepo[s] # r
      BY <1>1 DEF ClaimLapses, ClaimsLast
  <2> QED  BY <2>1, <2>2 DEF TypeOK
<1>2. CASE ~\E r \in Repos : ClaimLapses(r)
  <2>1. UNCHANGED <<tomb, claim, owner, ppc, prepo, spc, srepo>>
    <3>1. CASE TickStep
        BY <3>1, Zenon DEF TickStep, GateOpens, PruneRefs, StartSweep, SweepObject, TickEnds, TickAborts,
           MarkBlob, LockMarked, SweepFails, SweepRow, journal, pushVars, sweepVars
    <3>2. CASE Elsewhere
        BY <1>2, <3>2, Zenon DEF Elsewhere, DeleteTag, TagMoves, Backfill, TimePasses, KeyAges, BlobAges,
           journal, pushVars, sweepVars
    <3> QED  BY <3>1, <3>2
  <2> QED  BY <2>1
<1> QED  BY <1>1, <1>2

\* reap_pending_oci_upload_cleanup_keys, claim_cleanup_journal_row_for_blob_commit
\* and release_cleanup_key_claim: any number of sweepers, pushes and
\* repositories, with failing deletes, crashes and slow pushes; a sweeper that
\* is about to delete the bytes holds the row, its live claim and its tombstone.
THEOREM DeletesUnderClaim ==
  ASSUME ClaimsLast
  PROVE  Spec => []DeleteUnderClaim
<1>1. Init => ClearedUndoomed /\ DeleteUnderClaim
    BY DEF Init, ClearedUndoomed, DeleteUnderClaim
<1>2. Typed /\ ClearedUndoomed /\ DeleteUnderClaim /\ [Next]_vars
        => (ClearedUndoomed /\ DeleteUnderClaim)'
  <2>1. ASSUME ClearedUndoomed, DeleteUnderClaim, UNCHANGED vars
        PROVE  (ClearedUndoomed /\ DeleteUnderClaim)'
      BY <2>1 DEF vars, journal, pushVars, sweepVars, ClearedUndoomed, DeleteUnderClaim, Doomed
  <2> QED  BY <2>1, NextCases, ClaimPush, ClaimSweep, ClaimElsewhere
<1> QED  BY <1>1, <1>2, TypedHolds, PTL DEF Spec

-----------------------------------------------------------------------------
(* A committed blob row has its bytes. *)

\* Only the journal is swept, no delete fails and no sweeper dies, and a push
\* is over within the day in which its registration protects it.
JournalOnly == "blob" \notin Jobs
SweepsFinish == "crash" \notin Faults /\ "storage" \notin Faults
PushesTimely == "slow" \notin Faults

\* Between the tombstone and the reaping of the row.
Announced(s) == spc[s] \in {"tombed", "deleted"}

\* The collector does not run.  A manifest push locks a row that exists, and
\* a mount has found one.
RowsFound ==
    /\ gpc = "idle"
    /\ \A r \in Repos, p \in Pushers : lock[r] = p => blob[r] # "none"
    /\ \A p \in Pushers : ppc[p] = "mounting" => AnyBlobRow

\* An announced delete binds its row and finds no blob row anywhere; every
\* tombstone belongs to one.
Announcements ==
    /\ \A s \in Sweepers : Announced(s) =>
          owner[srepo[s]] = s /\ Doomed(srepo[s]) /\ ~AnyBlobRow
    /\ \A r \in Repos : tomb[r] => \E s \in Sweepers : Announced(s) /\ srepo[s] = r

\* A push whose journal row exists is seen by every sweep: its row is fresh,
\* and a sweep of another repository's row got past it only by a tombstone.
PushesSeen ==
    \A p \in Pushers : pid[p] =>
        /\ ppc[p] \in {"registered", "copied", "cleared"}
        /\ jage[prepo[p]] \in {"fresh", "again", "renewed"}
        /\ \A s \in Sweepers : Announced(s) => srepo[s] = prepo[p] \/ tomb[prepo[p]]

\* What a push has copied is there, or the guard of its commit will see why
\* not; past the guard nobody has announced a delete.
CopiesKept ==
    \A p \in Pushers :
        /\ ppc[p] = "copied" /\ pid[p] => obj \/ \E r \in Repos : Doomed(r)
        /\ ppc[p] = "cleared" => obj /\ \A s \in Sweepers : ~Announced(s)

Backed == RowsFound /\ Announcements /\ PushesSeen /\ CopiesKept /\ BlobBacked

\* The steps of a push that read the blob row or copy the bytes.
LEMMA BackedLooks ==
  ASSUME Typed, Backed, NEW p \in Pushers,
         \/ \E r \in Repos : HeadBlob(p, r)
         \/ \E r, o \in Repos : MountFind(p, r, o)
         \/ CopyBlob(p)
         \/ RecordManifest(p)
  PROVE  Backed'
<1> USE DEF Typed, TypeOK, Backed
<1> DEFINE Looks ==
      /\ UNCHANGED <<blob, lock, jage, tomb, claim, owner, pid, spc, srepo, gpc>>
      /\ \A q \in Pushers \ {p} : ppc'[q] = ppc[q] /\ prepo'[q] = prepo[q]
      /\ ppc'[p] \in {"uploaded", "mounting", "copied", "recorded"}
      /\ ppc'[p] = "mounting" => AnyBlobRow
      /\ pid[p] => UNCHANGED prepo /\ ppc'[p] = "copied"
      /\ obj' = obj \/ obj' = TRUE
      /\ ppc'[p] = "copied" => obj' = TRUE
<1>1. Looks
  <2>1. ASSUME NEW r \in Repos, HeadBlob(p, r) PROVE Looks
      BY <2>1 DEF HeadBlob, blobVars, journal, sweepVars, gcVars, PushesSeen
  <2>2. ASSUME NEW r \in Repos, NEW o \in Repos, MountFind(p, r, o) PROVE Looks
      BY <2>2 DEF MountFind, AnyBlobRow, blobVars, journal, sweepVars, gcVars, PushesSeen
  <2>3. CASE CopyBlob(p)
      BY <2>3 DEF CopyBlob, blobVars, journal, sweepVars, gcVars
  <2>4. CASE RecordManifest(p)
      BY <2>4 DEF RecordManifest, blobVars, journal, sweepVars, gcVars, PushesSeen
  <2> QED  BY <2>1, <2>2, <2>3, <2>4
<1>2. RowsFound'
    BY <1>1 DEF RowsFound, AnyBlobRow
<1>3. Announcements'
    BY <1>1 DEF Announcements, Announced, Doomed, AnyBlobRow
<1>4. PushesSeen'
    BY <1>1 DEF PushesSeen, Announced
<1>5. CopiesKept' /\ BlobBacked'
    BY <1>1 DEF CopiesKept, Announced, Doomed, BlobBacked, AnyBlobRow
<1> QED  BY <1>2, <1>3, <1>4, <1>5

\* A mount finds a blob row before it inserts its own.
LEMMA BackedMount ==
  ASSUME Typed, Backed, NEW p \in Pushers, MountBlob(p)
  PROVE  Backed'
<1> USE DEF Typed, TypeOK, Backed
<1>1. /\ UNCHANGED <<obj, lock, jage, tomb, claim, owner, prepo, pid, spc, srepo, gpc>>
      /\ \A q \in Pushers \ {p} : ppc'[q] = ppc[q]
      /\ ppc'[p] = "uploaded" /\ ~pid[p]
      /\ \A r \in Repos : blob[r] # "none" => blob'[r] # "none"
    BY DEF MountBlob, PutBlobRow, journal, sweepVars, gcVars, PushesSeen
<1>2. AnyBlobRow
    BY DEF MountBlob, RowsFound
<1>3. RowsFound'
    BY <1>1, <1>2 DEF RowsFound, AnyBlobRow
<1>4. Announcements'
    BY <1>1, <1>2 DEF Announcements, Announced, Doomed
<1>5. PushesSeen'
    BY <1>1 DEF PushesSeen, Announced
<1>6. CopiesKept' /\ BlobBacked'
    BY <1>1, <1>2 DEF CopiesKept, Announced, Doomed, BlobBacked
<1> QED  BY <1>3, <1>4, <1>5, <1>6

\* register_upload_cleanup_key waits for the sweeps of other repositories'
\* rows of the key, and its row is fresh from then on.
LEMMA BackedRegister ==
  ASSUME Typed, Backed, NEW p \in Pushers, NEW r \in Repos, RegisterKey(p, r)
  PROVE  Backed'
<1> USE DEF Typed, TypeOK, Backed
<1>1. /\ UNCHANGED <<obj, blob, lock, tomb, claim, owner, spc, srepo, gpc>>
      /\ ppc' = [ppc EXCEPT ![p] = "registered"] /\ prepo' = [prepo EXCEPT ![p] = r]
      /\ pid' = [pid EXCEPT ![p] = TRUE]
      /\ \A o \in Repos \ {r} : jage'[o] = jage[o] /\ ~Doomed(o)
      /\ jage'[r] \in {"fresh", "again", "renewed"}
    BY DEF RegisterKey, blobVars, sweepVars, gcVars
<1>2. RowsFound' /\ BlobBacked'
    BY <1>1 DEF RowsFound, BlobBacked, AnyBlobRow
<1>3. Announcements'
    BY <1>1 DEF Announcements, Announced, Doomed, AnyBlobRow
<1>4. \A s \in Sweepers : Announced(s) => srepo[s] = r
    BY <1>1 DEF Announcements, PlacesKnown, Announced
<1>5. PushesSeen'
  <2> SUFFICES ASSUME NEW q \in Pushers, pid'[q]
               PROVE  /\ ppc'[q] \in {"registered", "copied", "cleared"}
                      /\ jage'[prepo'[q]] \in {"fresh", "again", "renewed"}
                      /\ \A s \in Sweepers : Announced(s)' => srepo'[s] = prepo'[q] \/ tomb'[prepo'[q]]
      BY DEF PushesSeen
  <2>1. CASE q = p
      BY <1>1, <1>4, <2>1 DEF Announced
  <2>2. CASE q # p
    <3>1. pid[q] /\ ppc'[q] = ppc[q] /\ prepo'[q] = prepo[q] /\ prepo[q] \in Repos
        BY <1>1, <2>2 DEF PlacesKnown, PushesSeen
    <3> QED  BY <1>1, <3>1 DEF PushesSeen, Announced
  <2> QED  BY <2>1, <2>2
<1>6. CopiesKept'
    BY <1>1 DEF CopiesKept, Announced, Doomed
<1> QED  BY <1>2, <1>3, <1>5, <1>6

\* claim_cleanup_journal_row_for_blob_commit: past the guard the bytes are
\* there and nobody is about to delete them.
LEMMA BackedGuard ==
  ASSUME Typed, Backed, NEW p \in Pushers, GuardCommit(p)
  PROVE  Backed'
<1> USE DEF Typed, TypeOK, Backed
<1>1. UNCHANGED <<obj, blob, lock, jage, tomb, claim, owner, spc, srepo, gpc>> /\ ppc[p] = "copied"
    BY DEF GuardCommit, blobVars, journal, sweepVars, gcVars
<1>2. CASE Cleared(p)
  <2>1. ppc' = [ppc EXCEPT ![p] = "cleared"] /\ UNCHANGED <<prepo, pid>>
      BY <1>2 DEF GuardCommit
  <2>2. \A s \in Sweepers : ~Announced(s)
      BY <1>2 DEF Cleared, Announcements, PlacesKnown, Announced
  <2>3. obj
    <3>1. prepo[p] \in Repos
        BY <1>1 DEF PlacesKnown
    <3> QED  BY <1>1, <1>2, <3>1 DEF Cleared, CopiesKept, BlobBacked, AnyBlobRow
  <2>4. RowsFound' /\ BlobBacked'
      BY <1>1, <2>1 DEF RowsFound, BlobBacked, AnyBlobRow
  <2>5. Announcements'
      BY <1>1 DEF Announcements, Announced, Doomed, AnyBlobRow
  <2>6. PushesSeen'
      BY <1>1, <2>1 DEF PushesSeen, Announced
  <2>7. CopiesKept'
      BY <1>1, <2>1, <2>2, <2>3 DEF CopiesKept, Announced, Doomed
  <2> QED  BY <2>4, <2>5, <2>6, <2>7
<1>3. CASE ~Cleared(p)
  <2>1. /\ ppc' = [ppc EXCEPT ![p] = "idle"] /\ prepo' = [prepo EXCEPT ![p] = None]
        /\ pid' = [pid EXCEPT ![p] = FALSE]
      BY <1>3, Zenon DEF GuardCommit, PushEnds
  <2>2. RowsFound' /\ BlobBacked'
      BY <1>1, <2>1 DEF RowsFound, BlobBacked, AnyBlobRow
  <2>3. Announcements'
      BY <1>1 DEF Announcements, Announced, Doomed, AnyBlobRow
  <2>4. PushesSeen'
      BY <1>1, <2>1 DEF PushesSeen, Announced
  <2>5. CopiesKept'
      BY <1>1, <2>1 DEF CopiesKept, Announced, Doomed
  <2> QED  BY <2>2, <2>3, <2>4, <2>5
<1> QED  BY <1>2, <1>3

\* The commit of a blob row past its guard.
LEMMA BackedCommit ==
  ASSUME Typed, Backed, NEW p \in Pushers, CommitBlob(p)
  PROVE  Backed'
<1> USE DEF Typed, TypeOK, Backed
<1>0. prepo[p] \in Repos /\ obj /\ \A s \in Sweepers : ~Announced(s)
    BY DEF CommitBlob, CopiesKept, PlacesKnown
<1>1. /\ UNCHANGED <<obj, lock, prepo, spc, srepo, gpc>>
      /\ ppc' = [ppc EXCEPT ![p] = "uploaded"]
      /\ blob' = [blob EXCEPT ![prepo[p]] = "live"]
    BY DEF CommitBlob, PutBlobRow, sweepVars, gcVars
<1>2. \A r \in Repos : ~tomb[r]
    BY <1>0 DEF Announcements
<1>3. /\ \A r \in Repos : ~tomb'[r]
      /\ \A q \in Pushers : pid'[q] => q # p /\ pid[q] /\ jage'[prepo[q]] = jage[prepo[q]]
  <2>1. CASE pid[p]
    <3>1. DropJournalRow(prepo[p]) /\ pid' = [q \in Pushers |-> pid[q] /\ prepo[q] # prepo[p]]
        BY <2>1 DEF CommitBlob
    <3>2. \A q \in Pushers : pid'[q] => pid[q] /\ prepo[q] # prepo[p]
        BY <3>1, Zenon
    <3>3. \A q \in Pushers : pid[q] => prepo[q] \in Repos
        BY DEF PushesSeen, PlacesKnown
    <3> QED  BY <1>0, <1>2, <3>1, <3>2, <3>3 DEF DropJournalRow
  <2>2. CASE ~pid[p]
      BY <1>2, <2>2 DEF CommitBlob, journal
  <2> QED  BY <2>1, <2>2
<1>4. RowsFound' /\ BlobBacked'
    BY <1>0, <1>1 DEF RowsFound, BlobBacked, AnyBlobRow
<1>5. Announcements'
    BY <1>0, <1>1, <1>3 DEF Announcements, Announced
<1>6. PushesSeen'
    BY <1>0, <1>1, <1>3 DEF PushesSeen, Announced
<1>7. CopiesKept'
    BY <1>0, <1>1, <1>3 DEF CopiesKept, Announced
<1> QED  BY <1>4, <1>5, <1>6, <1>7

\* A manifest push locks and frees blob rows and adds none.
LEMMA BackedManifest ==
  ASSUME Typed, Backed, NEW p \in Pushers,
         (\E t \in Tags : BeginManifest(p, t)) \/ CommitManifest(p) \/ PushFails(p)
  PROVE  Backed'
<1> USE ConstantsAssumption DEF Typed, TypeOK, Backed
<1> DEFINE Moves ==
      /\ UNCHANGED <<obj, jage, tomb, claim, owner, spc, srepo, gpc>>
      /\ \A q \in Pushers \ {p} : ppc'[q] = ppc[q] /\ prepo'[q] = prepo[q] /\ pid'[q] = pid[q]
      /\ ppc'[p] \in {"idle", "putting"} /\ ~pid'[p]
      /\ \A r \in Repos : blob[r] = "none" <=> blob'[r] = "none"
      /\ \A r \in Repos, q \in Pushers : lock'[r] = q => blob[r] # "none"
<1>1. Moves
  <2>1. ASSUME NEW t \in Tags, BeginManifest(p, t) PROVE Moves
    <3>1. \A r \in Repos : lock'[r] = lock[r] \/ blob[r] # "none"
        BY <2>1 DEF BeginManifest, PlacesKnown
    <3>2. ~pid[p]
        BY <2>1 DEF BeginManifest, PushesSeen
    <3>3. /\ UNCHANGED <<obj, jage, tomb, claim, owner, spc, srepo, gpc, blob, prepo, pid>>
          /\ ppc' = [ppc EXCEPT ![p] = "putting"]
        BY <2>1 DEF BeginManifest, journal, sweepVars, gcVars
    <3> QED  BY <3>1, <3>2, <3>3 DEF RowsFound
  <2>2. CASE CommitManifest(p) \/ PushFails(p)
    <3>1. /\ UNCHANGED <<obj, jage, tomb, claim, owner, spc, srepo, gpc>>
          /\ PushEnds(p) /\ lock' = Unlocked(p) /\ blob' \in {blob, Resurrected(p)}
        BY <2>2, Zenon DEF CommitManifest, PushFails, journal, sweepVars, gcVars
    <3>2. \A r \in Repos, q \in Pushers : lock'[r] = q => lock[r] = q
        BY <3>1 DEF Unlocked
    <3>3. \A r \in Repos : blob[r] = "none" <=> blob'[r] = "none"
        BY <3>1 DEF Resurrected, RowsFound
    <3>4. /\ ppc' = [ppc EXCEPT ![p] = "idle"] /\ prepo' = [prepo EXCEPT ![p] = None]
          /\ pid' = [pid EXCEPT ![p] = FALSE]
        BY <3>1 DEF PushEnds
    <3> QED  BY <3>1, <3>2, <3>3, <3>4 DEF RowsFound
  <2> QED  BY <2>1, <2>2
<1>2. AnyBlobRow' <=> AnyBlobRow
    BY <1>1 DEF AnyBlobRow
<1>3. RowsFound' /\ BlobBacked'
    BY <1>1, <1>2 DEF RowsFound, BlobBacked
<1>4. Announcements'
    BY <1>1, <1>2 DEF Announcements, Announced, Doomed
<1>5. PushesSeen'
    BY <1>1 DEF PushesSeen, Announced
<1>6. CopiesKept'
    BY <1>1 DEF CopiesKept, Announced, Doomed
<1> QED  BY <1>3, <1>4, <1>5, <1>6

\* claim_next_cleanup_key takes a row without a live claim, so none with a
\* tombstone.
LEMMA BackedClaim ==
  ASSUME Typed, Backed, NEW s \in Sweepers, NEW r \in Repos, ClaimKey(s, r)
  PROVE  Backed'
<1> USE DEF Typed, TypeOK, Backed
<1>1. /\ claim' = [claim EXCEPT ![r] = "live"] /\ owner' = [owner EXCEPT ![r] = s]
      /\ spc' = [spc EXCEPT ![s] = "claimed"] /\ srepo' = [srepo EXCEPT ![s] = r]
      /\ claim[r] # "live" /\ spc[s] = "idle"
      /\ UNCHANGED <<obj, blob, lock, jage, tomb, ppc, prepo, pid, gpc>>
    BY DEF ClaimKey, blobVars, pushVars, gcVars
<1>2. \A z \in Sweepers : Announced(z)' <=> Announced(z) /\ z # s
    BY <1>1 DEF Announced
<1>3. /\ \A z \in Sweepers : Announced(z) => srepo[z] \in Repos /\ srepo[z] # r
      /\ \A o \in Repos : Doomed(o)' <=> Doomed(o)
      /\ ~tomb[r]
    BY <1>1 DEF Announcements, Announced, Doomed, PlacesKnown
<1>4. RowsFound' /\ BlobBacked'
    BY <1>1 DEF RowsFound, BlobBacked, AnyBlobRow
<1>5. Announcements'
    BY <1>1, <1>2, <1>3 DEF Announcements, AnyBlobRow, Announced
<1>6. PushesSeen'
    BY <1>1, <1>2 DEF PushesSeen
<1>7. CopiesKept'
    BY <1>1, <1>2, <1>3 DEF CopiesKept
<1> QED  BY <1>4, <1>5, <1>6, <1>7

\* tombstone_cleanup_key_for_delete: no blob row and no fresh sibling, under
\* the advisory lock that a push past its guard holds.
LEMMA BackedTombstone ==
  ASSUME Typed, Backed, NEW s \in Sweepers, TombstoneKey(s)
  PROVE  Backed'
<1> USE DEF Typed, TypeOK, Backed
<1>0. /\ UNCHANGED <<obj, blob, lock, jage, owner, ppc, prepo, pid, gpc>>
      /\ spc[s] = "claimed" /\ srepo[s] \in Repos /\ KeyFree
    BY DEF TombstoneKey, blobVars, pushVars, gcVars, PlacesKnown
<1>1. RowsFound' /\ BlobBacked'
    BY <1>0 DEF RowsFound, BlobBacked, AnyBlobRow
<1>2. CASE Reclaimable(s)
  <2>1. /\ tomb' = [tomb EXCEPT ![srepo[s]] = TRUE] /\ claim' = [claim EXCEPT ![srepo[s]] = "live"]
        /\ spc' = [spc EXCEPT ![s] = "tombed"] /\ UNCHANGED srepo
      BY <1>2 DEF TombstoneKey
  <2>2. owner[srepo[s]] = s /\ ~AnyBlobRow /\ ~FreshSibling(srepo[s])
      BY <1>2 DEF Reclaimable
  <2>3. /\ \A z \in Sweepers : Announced(z)' <=> Announced(z) \/ z = s
        /\ \A r \in Repos : Doomed(r)' <=> Doomed(r) \/ r = srepo[s]
      BY <1>0, <2>1 DEF Announced, Doomed
  <2>4. Announcements'
    <3>1. ASSUME NEW z \in Sweepers, Announced(z)'
          PROVE  owner'[srepo'[z]] = z /\ tomb'[srepo'[z]] /\ claim'[srepo'[z]] = "live" /\ ~AnyBlobRow'
        BY <1>0, <2>1, <2>2, <2>3, <3>1 DEF Announcements, AnyBlobRow, Doomed
    <3>2. ASSUME NEW r \in Repos, tomb'[r] PROVE \E z \in Sweepers : Announced(z)' /\ srepo'[z] = r
        BY <1>0, <2>1, <2>3, <3>2 DEF Announcements
    <3> QED  BY <3>1, <3>2 DEF Announcements, Doomed
  <2>5. PushesSeen'
    <3>1. \A p \in Pushers : pid[p] => prepo[p] \in Repos /\ (srepo[s] = prepo[p] \/ tomb[prepo[p]])
        BY <2>2 DEF PushesSeen, PlacesKnown, FreshSibling
    <3> QED  BY <1>0, <2>1, <2>3, <3>1 DEF PushesSeen
  <2>6. CopiesKept'
      BY <1>0, <2>1, <2>3 DEF CopiesKept, KeyFree
  <2> QED  BY <1>1, <2>4, <2>5, <2>6
<1>3. CASE ~Reclaimable(s)
  <2>1. /\ spc' = [spc EXCEPT ![s] = "idle"] /\ srepo' = [srepo EXCEPT ![s] = None]
        /\ UNCHANGED <<tomb, claim>>
      BY <1>3 DEF TombstoneKey, SweepEnds
  <2>2. \A z \in Sweepers : /\ Announced(z)' <=> Announced(z)
                            /\ Announced(z) => srepo'[z] = srepo[z]
      BY <1>0, <2>1 DEF Announced
  <2>3. Announcements'
      BY <1>0, <2>1, <2>2 DEF Announcements, AnyBlobRow, Doomed
  <2>4. PushesSeen' /\ CopiesKept'
      BY <1>0, <2>1, <2>2 DEF PushesSeen, CopiesKept, Doomed
  <2> QED  BY <1>1, <2>3, <2>4
<1> QED  BY <1>2, <1>3

\* The delete itself: no blob row, and every push that copied the bytes will
\* see the tombstone at its guard.
LEMMA BackedDelete ==
  ASSUME Typed, Backed, NEW s \in Sweepers, DeleteObject(s)
  PROVE  Backed'
<1> USE DEF Typed, TypeOK, Backed
<1>1. /\ obj' = FALSE /\ spc' = [spc EXCEPT ![s] = "deleted"] /\ spc[s] = "tombed"
      /\ UNCHANGED <<blob, lock, jage, tomb, claim, owner, ppc, prepo, pid, srepo, gpc>>
    BY DEF DeleteObject, blobVars, journal, pushVars, gcVars
<1>2. /\ \A z \in Sweepers : Announced(z)' <=> Announced(z)
      /\ Announced(s) /\ Doomed(srepo[s]) /\ srepo[s] \in Repos /\ ~AnyBlobRow
    BY <1>1 DEF Announced, Announcements, PlacesKnown
<1>3. RowsFound' /\ BlobBacked'
    BY <1>1, <1>2 DEF RowsFound, BlobBacked, AnyBlobRow
<1>4. Announcements' /\ PushesSeen'
    BY <1>1, <1>2 DEF Announcements, PushesSeen, AnyBlobRow, Doomed
<1>5. CopiesKept'
    BY <1>1, <1>2 DEF CopiesKept, Doomed
<1> QED  BY <1>3, <1>4, <1>5

\* Phase 3 drops the tombstone together with the ids of the pushes that
\* relied on it; another repository's push has a tombstone of its own.
LEMMA BackedReap ==
  ASSUME Typed, Backed, NEW s \in Sweepers, ReapRow(s)
  PROVE  Backed'
<1> USE DEF Typed, TypeOK, Backed
<1>0. Announced(s) /\ srepo[s] \in Repos /\ owner[srepo[s]] = s /\ Doomed(srepo[s]) /\ ~AnyBlobRow
    BY DEF ReapRow, Announced, Announcements, PlacesKnown
<1>1. /\ DropJournalRow(srepo[s])
      /\ pid' = [q \in Pushers |-> pid[q] /\ prepo[q] # srepo[s]]
      /\ SweepEnds(s)
      /\ UNCHANGED <<obj, blobVars, refVars, ppc, prepo, ptag, pown, gcVars>>
    BY <1>0, Zenon DEF ReapRow, Doomed
<1>2. \A q \in Pushers : pid'[q] => pid[q] /\ prepo[q] # srepo[s]
    BY <1>1, Zenon
<1>3. /\ UNCHANGED <<obj, blob, lock, ppc, prepo, gpc>>
      /\ \A z \in Sweepers : /\ Announced(z)' <=> Announced(z) /\ z # s
                             /\ z # s => srepo'[z] = srepo[z]
      /\ \A r \in Repos : Doomed(r)' <=> Doomed(r) /\ r # srepo[s]
      /\ \A r \in Repos : r # srepo[s] =>
            jage'[r] = jage[r] /\ tomb'[r] = tomb[r] /\ owner'[r] = owner[r]
      /\ ~tomb'[srepo[s]]
    BY <1>0, <1>1 DEF SweepEnds, DropJournalRow, Announced, Doomed, blobVars, gcVars
<1>4. RowsFound' /\ BlobBacked'
    BY <1>3 DEF RowsFound, BlobBacked, AnyBlobRow
<1>5. Announcements'
  <2>1. \A z \in Sweepers : Announced(z) /\ z # s => srepo[z] \in Repos /\ srepo[z] # srepo[s]
      BY <1>0 DEF Announcements, Announced, PlacesKnown
  <2> QED  BY <1>0, <1>3, <2>1 DEF Announcements, AnyBlobRow
<1>6. \A q \in Pushers : pid'[q] => prepo[q] \in Repos /\ tomb[prepo[q]]
    BY <1>0, <1>2 DEF PushesSeen, PlacesKnown
<1>7. PushesSeen'
    BY <1>2, <1>3, <1>6 DEF PushesSeen
<1>8. CopiesKept'
  <2>1. \A q \in Pushers : pid'[q] => \E r \in Repos : Doomed(r)'
    <3> SUFFICES ASSUME NEW q \in Pushers, pid'[q] PROVE \E r \in Repos : Doomed(r)'
        OBVIOUS
    <3>1. PICK r \in Repos : r = prepo[q] /\ tomb[r]
        BY <1>6
    <3>2. Doomed(r) /\ r # srepo[s]
        BY <1>2, <3>1 DEF Announcements
    <3> QED  BY <1>3, <3>2
  <2> QED  BY <1>3, <2>1 DEF CopiesKept
<1> QED  BY <1>4, <1>5, <1>7, <1>8

\* With the collector off, tags and references do not matter, and time does
\* not pass for a row that a push or a sweep relies on.
LEMMA BackedElsewhere ==
  ASSUME ClaimsLast, PushesTimely, Typed, Backed, Elsewhere
  PROVE  Backed'
<1> USE DEF Typed, TypeOK, Backed
<1>1. ASSUME NEW r \in Repos, KeyAges(r) PROVE Backed'
  <2>1. /\ UNCHANGED <<obj, blob, lock, tomb, claim, owner, ppc, prepo, pid, spc, srepo, gpc>>
        /\ \A o \in Repos \ {r} : jage'[o] = jage[o]
        /\ jage'[r] = "renewed" \/ TimeFor(r)
      BY <1>1 DEF KeyAges, blobVars, pushVars, sweepVars, gcVars
  <2>2. \A p \in Pushers : pid[p] => jage'[prepo[p]] \in {"fresh", "again", "renewed"}
    <3> SUFFICES ASSUME NEW p \in Pushers, pid[p]
                 PROVE  jage'[prepo[p]] \in {"fresh", "again", "renewed"}
        OBVIOUS
    <3>1. prepo[p] \in Repos /\ jage[prepo[p]] \in {"fresh", "again", "renewed"}
        BY DEF PushesSeen, PlacesKnown
    <3> QED  BY <2>1, <3>1 DEF TimeFor, PushesTimely
  <2>3. RowsFound' /\ BlobBacked' /\ Announcements'
      BY <2>1 DEF RowsFound, BlobBacked, AnyBlobRow, Announcements, Announced, Doomed
  <2>4. PushesSeen'
      BY <2>1, <2>2 DEF PushesSeen, Announced
  <2>5. CopiesKept'
      BY <2>1 DEF CopiesKept, Announced, Doomed
  <2> QED  BY <2>3, <2>4, <2>5
<1>2. ASSUME NEW r \in Repos, ClaimLapses(r) PROVE Backed'
  <2>1. /\ UNCHANGED <<obj, blob, lock, jage, tomb, owner, ppc, prepo, pid, spc, srepo, gpc>>
        /\ claim' = [claim EXCEPT ![r] = "lapsed"]
      BY <1>2 DEF ClaimLapses, blobVars, pushVars, sweepVars, gcVars
  <2>2. ~tomb[r]
      BY <1>2 DEF ClaimLapses, ClaimsLast, Announcements
  <2>3. \A o \in Repos : Doomed(o)' <=> Doomed(o)
      BY <2>1, <2>2 DEF Doomed
  <2>4. RowsFound' /\ BlobBacked' /\ PushesSeen'
      BY <2>1 DEF RowsFound, BlobBacked, AnyBlobRow, PushesSeen, Announced
  <2>5. Announcements' /\ CopiesKept'
      BY <2>1, <2>3 DEF Announcements, CopiesKept, Announced, AnyBlobRow, PlacesKnown
  <2> QED  BY <2>4, <2>5
<1>3. CASE ~\E r \in Repos : KeyAges(r) \/ ClaimLapses(r)
  <2>1. /\ UNCHANGED <<obj, lock, jage, tomb, claim, owner, ppc, prepo, pid, spc, srepo, gpc>>
        /\ \A r \in Repos : blob[r] = "none" <=> blob'[r] = "none"
    <3>1. UNCHANGED <<obj, lock, jage, tomb, claim, owner, ppc, prepo, pid, spc, srepo, gpc>>
        BY <1>3, Zenon DEF Elsewhere, DeleteTag, TagMoves, Backfill, TimePasses, BlobAges,
           blobVars, journal, pushVars, sweepVars, gcVars
    <3>2. blob' = blob \/ \E r \in Repos : blob[r] = "stamped" /\ blob' = [blob EXCEPT ![r] = "ripe"]
        BY <1>3, Zenon DEF Elsewhere, DeleteTag, TagMoves, Backfill, TimePasses, BlobAges, blobVars
    <3> QED  BY <3>1, <3>2
  <2>2. AnyBlobRow' <=> AnyBlobRow
      BY <2>1 DEF AnyBlobRow
  <2>3. RowsFound' /\ BlobBacked'
      BY <2>1, <2>2 DEF RowsFound, BlobBacked
  <2>4. Announcements' /\ PushesSeen' /\ CopiesKept'
      BY <2>1, <2>2 DEF Announcements, PushesSeen, CopiesKept, Announced, Doomed
  <2> QED  BY <2>3, <2>4
<1> QED  BY <1>1, <1>2, <1>3

\* claim_cleanup_journal_row_for_blob_commit and tombstone_cleanup_key_for_delete:
\* with any number of repositories in the bucket, of pushes and of sweeping
\* replicas, every committed oci_blobs row has its bytes, as long as no delete
\* fails or dies half-way and the ages outlast what they are to outlast.
THEOREM BlobsBacked ==
  ASSUME JournalOnly, SweepsFinish, PushesTimely, ClaimsLast
  PROVE  Spec => []BlobBacked
<1>1. Init => Backed
  <2> SUFFICES ASSUME Init PROVE Backed
      OBVIOUS
  <2>1. RowsFound /\ BlobBacked
      BY ConstantsAssumption DEF Init, RowsFound, BlobBacked, AnyBlobRow
  <2>2. Announcements /\ PushesSeen /\ CopiesKept
      BY DEF Init, Announcements, PushesSeen, CopiesKept, Announced
  <2> QED  BY <2>1, <2>2 DEF Backed
<1>2. Typed /\ Backed /\ [Next]_vars => Backed'
  <2> SUFFICES ASSUME Typed, Backed, [Next]_vars PROVE Backed'
      OBVIOUS
  <2>1. ASSUME NEW p \in Pushers, PushStep(p) PROVE Backed'
      BY <2>1, BackedLooks, BackedMount, BackedRegister, BackedGuard, BackedCommit, BackedManifest
         DEF PushStep
  <2>2. ASSUME NEW s \in Sweepers, SweeperStep(s) PROVE Backed'
    <3>1. ~DeleteFails(s) /\ ~SweeperDies(s)
        BY DEF DeleteFails, SweeperDies, SweepsFinish
    <3> QED  BY <2>2, <3>1, BackedClaim, BackedTombstone, BackedDelete, BackedReap DEF SweeperStep
  <2>3. ~TickStep
      BY DEF TickStep, GateOpens, PruneRefs, StartSweep, SweepObject, TickEnds, TickAborts, MarkBlob,
         LockMarked, SweepFails, SweepRow, Backed, RowsFound, JournalOnly
  <2>4. CASE Elsewhere
      BY <2>4, BackedElsewhere
  <2>5. CASE UNCHANGED vars
      BY <2>5 DEF vars, blobVars, journal, pushVars, sweepVars, gcVars, Backed, RowsFound,
         BlobBacked, AnyBlobRow, Announcements, PushesSeen, CopiesKept, Announced, Doomed
  <2> QED  BY <2>1, <2>2, <2>3, <2>4, <2>5, NextCases
<1>3. Backed => BlobBacked
    BY DEF Backed
<1> QED  BY <1>1, <1>2, <1>3, TypedHolds, PTL DEF Spec

-----------------------------------------------------------------------------
(* What can be pulled is kept. *)

\* One repository in the bucket, and a sweep grace that outlasts a tick.
OneRepo == \A r, o \in Repos : r = o
GraceLasts == "grace" \notin Faults

\* An announced delete and a push past its guard exclude each other.
SweepsApart ==
    \A s \in Sweepers : spc[s] = "tombed" => ~AnyBlobRow /\ KeyFree

\* A manifest push that found a blob row holds it to its end; one that found
\* none is over before a row that came later has had its grace.
PushesHold ==
    /\ \A p \in Pushers : ppc[p] # "mounting"
    /\ \A r \in Repos, p \in Pushers : lock[r] = p => blob[r] # "none"
    /\ \A r \in Repos, p \in Pushers : OpenPut(p, r) /\ lock[r] # p => blob[r] # "ripe"

\* The collector works on one row at a time, under its lock; no tag and no
\* open push needs that row.  A row that has had its grace and is tagged has
\* its reference for the rest of the tick.
TickHolds ==
    /\ \A r \in Repos : lock[r] = Gc =>
          gpc \in {"locked", "deleted"} /\ tags[r] = {} /\ \A p \in Pushers : ~OpenPut(p, r)
    /\ gpc \in {"locked", "deleted"} => \E r \in Repos : lock[r] = Gc
    /\ gpc \in {"sweep", "locked", "deleted"} => \A r \in todo : blob[r] # "stamped"
    /\ gpc # "idle" => \A r \in Repos : blob[r] = "ripe" /\ tags[r] # {} => ref[r]

Kept == SweepsApart /\ PushesHold /\ TickHolds

\* The steps of a push before its manifest.
LEMMA KeptBlobPush ==
  ASSUME OneRepo, Typed, DeleteUnderClaim, Kept, NEW p \in Pushers,
         \/ \E r \in Repos : HeadBlob(p, r) \/ RegisterKey(p, r)
         \/ \E r, o \in Repos : MountFind(p, r, o)
         \/ MountBlob(p) \/ CopyBlob(p) \/ GuardCommit(p) \/ CommitBlob(p)
  PROVE  Kept'
<1> USE DEF Typed, TypeOK, Kept
<1>0. ~MountBlob(p) /\ \A r, o \in Repos : ~MountFind(p, r, o)
    BY DEF MountBlob, MountFind, OneRepo, PushesHold
<1>1. UNCHANGED <<lock, tags, ref, spc, gpc, todo>>
    BY <1>0, Zenon DEF HeadBlob, RegisterKey, CopyBlob, GuardCommit, CommitBlob, blobVars, refVars,
       sweepVars, gcVars
<1>2. /\ \A q \in Pushers \ {p} : ppc'[q] = ppc[q] /\ prepo'[q] = prepo[q]
      /\ ppc'[p] \in {"idle", "uploaded", "registered", "copied", "cleared"}
  <2>1. CASE GuardCommit(p)
    <3>1. CASE Cleared(p)
        BY <2>1, <3>1 DEF GuardCommit
    <3>2. CASE ~Cleared(p)
        BY <2>1, <3>2 DEF GuardCommit, PushEnds
    <3> QED  BY <3>1, <3>2
  <2>2. CASE CommitBlob(p)
      BY <2>2 DEF CommitBlob
  <2>3. CASE CopyBlob(p) \/ \E r \in Repos : HeadBlob(p, r) \/ RegisterKey(p, r)
      BY <2>3 DEF HeadBlob, RegisterKey, CopyBlob
  <2> QED  BY <1>0, <2>1, <2>2, <2>3
<1>3. \A q \in Pushers, r \in Repos : OpenPut(q, r)' => OpenPut(q, r) /\ q # p
    BY <1>2 DEF OpenPut
<1>4. blob' = blob \/ (CommitBlob(p) /\ blob' = [blob EXCEPT ![prepo[p]] = "live"])
    BY <1>0, Zenon DEF HeadBlob, RegisterKey, CopyBlob, GuardCommit, CommitBlob, PutBlobRow, blobVars
<1>5. ~CommitBlob(p) \/ \A s \in Sweepers : spc[s] # "tombed"
    BY DEF CommitBlob, SweepsApart, KeyFree
<1>6. SweepsApart'
  <2>1. ASSUME NEW s \in Sweepers, spc[s] = "tombed" PROVE ppc'[p] # "cleared"
    <3>1. ~GuardCommit(p) \/ ~Cleared(p)
        BY <2>1 DEF Cleared, DeleteUnderClaim, Doomed, PlacesKnown
    <3>2. CASE GuardCommit(p)
        BY <3>1, <3>2 DEF GuardCommit, PushEnds
    <3>3. CASE ~GuardCommit(p)
        BY <1>0, <3>3 DEF HeadBlob, RegisterKey, CopyBlob, CommitBlob
    <3> QED  BY <3>2, <3>3
  <2> QED  BY <1>1, <1>2, <1>4, <1>5, <2>1 DEF SweepsApart, KeyFree, AnyBlobRow
<1>7. PushesHold'
  <2>1. \A r \in Repos : blob'[r] = blob[r] \/ blob'[r] = "live"
      BY <1>4
  <2>2. \A q \in Pushers : ppc'[q] # "mounting"
      BY <1>2 DEF PushesHold
  <2>3. \A r \in Repos, q \in Pushers : lock'[r] = q => blob'[r] # "none"
      BY <1>1, <2>1 DEF PushesHold
  <2>4. \A r \in Repos, q \in Pushers : OpenPut(q, r)' /\ lock'[r] # q => blob'[r] # "ripe"
      BY <1>1, <1>3, <2>1 DEF PushesHold
  <2> QED  BY <2>2, <2>3, <2>4 DEF PushesHold
<1>8. TickHolds'
  <2>1. \A r \in Repos : blob'[r] = blob[r] \/ blob'[r] = "live"
      BY <1>4
  <2> QED  BY <1>1, <1>3, <2>1 DEF TickHolds
<1> QED  BY <1>6, <1>7, <1>8

\* The manifest push: it never waits with a row that the collector holds, and
\* the row it holds itself is live again when its tag appears.
LEMMA KeptManifestPush ==
  ASSUME Typed, Kept, NEW p \in Pushers,
         \/ \E t \in Tags : BeginManifest(p, t)
         \/ RecordManifest(p) \/ CommitManifest(p) \/ PushFails(p)
  PROVE  Kept'
<1> USE ConstantsAssumption DEF Typed, TypeOK, Kept
<1>1. ASSUME NEW t \in Tags, BeginManifest(p, t) PROVE Kept'
  <2>1. /\ UNCHANGED <<blob, tags, ref, prepo, spc, gpc, todo>>
        /\ ppc' = [ppc EXCEPT ![p] = "putting"] /\ lock[prepo[p]] = None /\ prepo[p] \in Repos
        /\ lock' = IF blob[prepo[p]] = "none" THEN lock ELSE [lock EXCEPT ![prepo[p]] = p]
      BY <1>1 DEF BeginManifest, refVars, sweepVars, gcVars, PlacesKnown
  <2>2. SweepsApart'
      BY <2>1 DEF SweepsApart, KeyFree, AnyBlobRow
  <2>3. PushesHold'
      BY <2>1 DEF PushesHold, OpenPut
  <2>4. TickHolds'
    <3>1. \A r \in Repos : lock'[r] = Gc <=> lock[r] = Gc
        BY <2>1
    <3>2. \A r \in Repos, q \in Pushers : OpenPut(q, r)' => OpenPut(q, r) \/ r = prepo[p]
        BY <2>1 DEF OpenPut
    <3> QED  BY <2>1, <3>1, <3>2 DEF TickHolds
  <2> QED  BY <2>2, <2>3, <2>4
<1>2. CASE RecordManifest(p)
  <2>1. /\ UNCHANGED <<blob, lock, tags, ref, prepo, spc, gpc, todo>>
        /\ ppc' = [ppc EXCEPT ![p] = "recorded"] /\ ppc[p] = "putting"
      BY <1>2 DEF RecordManifest, blobVars, refVars, sweepVars, gcVars
  <2>2. \A r \in Repos, q \in Pushers : OpenPut(q, r)' <=> OpenPut(q, r)
      BY <2>1 DEF OpenPut
  <2>3. SweepsApart'
      BY <2>1 DEF SweepsApart, KeyFree, AnyBlobRow
  <2>4. PushesHold' /\ TickHolds'
      BY <2>1, <2>2 DEF PushesHold, TickHolds
  <2> QED  BY <2>3, <2>4
<1>3. CASE CommitManifest(p) \/ PushFails(p)
  <2>1. /\ UNCHANGED <<spc, gpc, todo>> /\ lock' = Unlocked(p) /\ PushEnds(p)
        /\ blob' \in {blob, Resurrected(p)}
      BY <1>3, Zenon DEF CommitManifest, PushFails, sweepVars, gcVars
  <2>2. ppc' = [ppc EXCEPT ![p] = "idle"] /\ prepo' = [prepo EXCEPT ![p] = None]
      BY <2>1 DEF PushEnds
  <2>3. \A r \in Repos : /\ lock'[r] = IF lock[r] = p THEN None ELSE lock[r]
                         /\ blob'[r] = blob[r] \/ (lock[r] = p /\ blob'[r] = "live")
      BY <2>1 DEF Unlocked, Resurrected
  <2>4. \A r \in Repos, q \in Pushers : OpenPut(q, r)' <=> OpenPut(q, r) /\ q # p
      BY <2>2 DEF OpenPut
  <2>5. SweepsApart'
      BY <2>1, <2>2, <2>3 DEF SweepsApart, PushesHold, KeyFree, AnyBlobRow
  <2>6. PushesHold'
      BY <2>2, <2>3, <2>4 DEF PushesHold
  <2>7. CASE PushFails(p)
    <3>1. UNCHANGED <<blob, tags, ref>>
        BY <2>7 DEF PushFails, refVars
    <3> QED  BY <2>1, <2>3, <2>4, <2>5, <2>6, <3>1 DEF TickHolds
  <2>8. CASE CommitManifest(p)
    <3>1. /\ OpenPut(p, prepo[p]) /\ prepo[p] \in Repos
          /\ blob' = Resurrected(p)
          /\ \A r \in Repos \ {prepo[p]} : tags'[r] = tags[r]
          /\ \A r \in Repos : ref[r] => ref'[r]
        BY <2>8 DEF CommitManifest, OpenPut, PlacesKnown
    <3>2. blob'[prepo[p]] # "ripe"
        BY <3>1 DEF Resurrected, PushesHold
    <3>3. lock[prepo[p]] # Gc
        BY <3>1 DEF TickHolds
    <3>4. \A r \in Repos : lock'[r] = Gc <=> lock[r] = Gc
        BY <2>3
    <3>5. /\ \A r \in Repos : lock'[r] = Gc =>
                gpc' \in {"locked", "deleted"} /\ tags'[r] = {} /\ \A q \in Pushers : ~OpenPut(q, r)'
          /\ gpc' \in {"locked", "deleted"} => \E r \in Repos : lock'[r] = Gc
        BY <2>1, <2>4, <3>1, <3>3, <3>4 DEF TickHolds
    <3>6. gpc' \in {"sweep", "locked", "deleted"} => \A r \in todo' : blob'[r] # "stamped"
        BY <2>1, <2>3 DEF TickHolds
    <3>7. gpc' # "idle" => \A r \in Repos : blob'[r] = "ripe" /\ tags'[r] # {} => ref'[r]
        BY <2>1, <2>3, <3>1, <3>2 DEF TickHolds
    <3> QED  BY <2>5, <2>6, <3>5, <3>6, <3>7 DEF TickHolds
  <2> QED  BY <1>3, <2>7, <2>8
<1> QED  BY <1>1, <1>2, <1>3

\* A sweeper announces a delete only where no blob row and no commit is.
LEMMA KeptSweep ==
  ASSUME Typed, Kept, NEW s \in Sweepers, SweeperStep(s)
  PROVE  Kept'
<1> USE DEF Typed, TypeOK, Kept
<1>1. UNCHANGED <<blob, lock, tags, ref, ppc, prepo, gpc, todo>>
    BY Zenon DEF SweeperStep, ClaimKey, TombstoneKey, DeleteObject, DeleteFails, ReapRow, SweeperDies,
       blobVars, refVars, pushVars, gcVars
<1>2. /\ \A z \in Sweepers \ {s} : spc'[z] = spc[z]
      /\ spc'[s] = "tombed" => ~AnyBlobRow /\ KeyFree
  <2>1. CASE TombstoneKey(s)
    <3>1. CASE Reclaimable(s)
        BY <2>1, <3>1 DEF TombstoneKey, Reclaimable
    <3>2. CASE ~Reclaimable(s)
        BY <2>1, <3>2 DEF TombstoneKey, SweepEnds
    <3> QED  BY <3>1, <3>2
  <2>2. CASE ~TombstoneKey(s)
      BY <2>2 DEF SweeperStep, ClaimKey, DeleteObject, DeleteFails, ReapRow, SweeperDies, SweepEnds
  <2> QED  BY <2>1, <2>2
<1>3. SweepsApart'
    BY <1>1, <1>2 DEF SweepsApart, AnyBlobRow, KeyFree
<1>4. PushesHold' /\ TickHolds'
    BY <1>1 DEF PushesHold, TickHolds, OpenPut
<1> QED  BY <1>3, <1>4

\* The collector: the readiness gate is what the sweep relies on later in the
\* tick, and is_blob_still_orphan under the row lock does the rest.
LEMMA KeptTick ==
  ASSUME OneRepo, Typed, Kept, TickStep
  PROVE  Kept'
<1> USE ConstantsAssumption DEF Typed, TypeOK, Kept
<1>0. UNCHANGED <<tags, ppc, prepo, spc>>
    BY Zenon DEF TickStep, GateOpens, PruneRefs, StartSweep, SweepObject, TickEnds, TickAborts, MarkBlob,
       LockMarked, SweepFails, SweepRow, refVars, pushVars, sweepVars
<1>1. \A q \in Pushers, r \in Repos : OpenPut(q, r)' <=> OpenPut(q, r)
    BY <1>0 DEF OpenPut
<1>2. ASSUME UNCHANGED <<blob, lock>> PROVE SweepsApart' /\ PushesHold'
    BY <1>0, <1>1, <1>2 DEF SweepsApart, PushesHold, AnyBlobRow, KeyFree
<1>3. CASE GateOpens
  <2>1. UNCHANGED <<blob, lock, ref>> /\ gpc = "idle" /\ gpc' = "gated" /\ RefsComplete
      BY <1>3 DEF GateOpens, blobVars, refVars
  <2> QED  BY <1>0, <1>1, <1>2, <2>1 DEF TickHolds, RefsComplete
<1>4. CASE PruneRefs
  <2>1. UNCHANGED <<blob, lock>> /\ gpc = "gated" /\ gpc' = "mark"
      BY <1>4 DEF PruneRefs, blobVars
  <2>2. \A r \in Repos : ref[r] /\ tags[r] # {} => ref'[r]
    <3>1. ref' = [r \in Repos |-> ref[r] /\ tags[r] # {}] \/ ref' = ref
        BY <1>4, Zenon DEF PruneRefs
    <3>2. CASE ref' = [r \in Repos |-> ref[r] /\ tags[r] # {}]
        BY <3>2
    <3> QED  BY <3>1, <3>2
  <2> QED  BY <1>0, <1>1, <1>2, <2>1, <2>2 DEF TickHolds
<1>5. CASE StartSweep
  <2>1. UNCHANGED <<blob, lock, ref>> /\ gpc = "mark" /\ gpc' = "sweep" /\ todo' = Orphans({"ripe"})
      BY <1>5 DEF StartSweep, blobVars, refVars
  <2>2. \A r \in todo' : blob[r] = "ripe"
      BY <2>1 DEF Orphans
  <2> QED  BY <1>0, <1>1, <1>2, <2>1, <2>2 DEF TickHolds
<1>6. CASE SweepObject
  <2>1. UNCHANGED <<blob, lock, ref, todo>> /\ gpc = "locked" /\ gpc' = "deleted"
      BY <1>6 DEF SweepObject, blobVars, refVars
  <2> QED  BY <1>0, <1>1, <1>2, <2>1 DEF TickHolds
<1>7. CASE TickEnds
  <2>1. UNCHANGED <<blob, lock, ref>> /\ gpc = "sweep" /\ gpc' = "idle"
      BY <1>7 DEF TickEnds, blobVars, refVars
  <2> QED  BY <1>0, <1>1, <1>2, <2>1 DEF TickHolds
<1>8. CASE TickAborts
  <2>1. UNCHANGED blob /\ lock' = Unlocked(Gc) /\ gpc' = "idle"
      BY <1>8 DEF TickAborts
  <2>2. \A r \in Repos : lock'[r] # Gc /\ \A q \in Pushers : lock'[r] = q <=> lock[r] = q
      BY <2>1 DEF Unlocked
  <2>3. SweepsApart' /\ PushesHold'
      BY <1>0, <1>1, <2>1, <2>2 DEF SweepsApart, PushesHold, AnyBlobRow, KeyFree
  <2> QED  BY <2>1, <2>2, <2>3 DEF TickHolds
<1>9. ASSUME NEW r \in Repos, MarkBlob(r) PROVE Kept'
  <2>1. /\ UNCHANGED <<lock, ref, gpc>> /\ gpc = "mark"
        /\ \A o \in Repos : blob'[o] = blob[o] \/ (blob[o] = "live" /\ blob'[o] = "stamped")
      BY <1>9 DEF MarkBlob, refVars
  <2>2. SweepsApart' /\ PushesHold'
      BY <1>0, <1>1, <2>1 DEF SweepsApart, PushesHold, AnyBlobRow, KeyFree
  <2> QED  BY <1>0, <1>1, <2>1, <2>2 DEF TickHolds
<1>10. ASSUME NEW r \in Repos, LockMarked(r) PROVE Kept'
  <2>1. UNCHANGED <<blob, ref>> /\ gpc = "sweep" /\ r \in todo /\ lock[r] = None
      BY <1>10 DEF LockMarked, refVars
  <2>2. CASE StillOrphan(r)
    <3>1. lock' = [lock EXCEPT ![r] = Gc] /\ gpc' = "locked" /\ todo' = todo
        BY <1>10, <2>2 DEF LockMarked
    <3>2. blob[r] = "ripe" /\ ~ref[r]
        BY <2>1, <2>2 DEF StillOrphan, Protected, TickHolds
    <3>3. tags[r] = {} /\ \A q \in Pushers : ~OpenPut(q, r)
        BY <2>1, <3>2 DEF TickHolds, PushesHold
    <3>4. SweepsApart'
        BY <1>0, <2>1 DEF SweepsApart, AnyBlobRow, KeyFree
    <3>5. PushesHold'
        BY <1>0, <1>1, <2>1, <3>1, <3>3 DEF PushesHold
    <3> QED  BY <1>0, <1>1, <2>1, <3>1, <3>3, <3>4, <3>5 DEF TickHolds
  <2>3. CASE ~StillOrphan(r)
    <3>1. todo' \subseteq todo /\ UNCHANGED <<lock, gpc>>
        BY <1>10, <2>3 DEF LockMarked
    <3> QED  BY <1>0, <1>1, <1>2, <2>1, <3>1 DEF TickHolds
  <2> QED  BY <2>2, <2>3
<1>11. ASSUME NEW r \in Repos, SweepFails(r) \/ SweepRow(r) PROVE Kept'
  <2>1. /\ lock' = [lock EXCEPT ![r] = None] /\ lock[r] = Gc /\ UNCHANGED ref
        /\ gpc' = "sweep" /\ todo' \subseteq todo
        /\ blob' = blob \/ blob' = [blob EXCEPT ![r] = "none"]
      BY <1>11 DEF SweepFails, SweepRow, refVars
  <2>2. \A o \in Repos : o = r /\ lock'[o] = None
      BY <2>1 DEF OneRepo
  <2>3. \A o \in Repos : blob'[o] = blob[o] \/ blob'[o] = "none"
      BY <2>1
  <2>4. SweepsApart' /\ PushesHold'
      BY <1>0, <1>1, <2>1, <2>2, <2>3 DEF SweepsApart, PushesHold, TickHolds, AnyBlobRow, KeyFree
  <2> QED  BY <1>0, <2>1, <2>2, <2>3, <2>4 DEF TickHolds
<1> QED  BY <1>3, <1>4, <1>5, <1>6, <1>7, <1>8, <1>9, <1>10, <1>11 DEF TickStep

\* Deletes of tags drop the reference with the last tag only, and no row has
\* had its grace without a tick in between.
LEMMA KeptElsewhere ==
  ASSUME GraceLasts, Typed, Kept, Elsewhere
  PROVE  Kept'
<1> USE DEF Typed, TypeOK, Kept
<1>0. UNCHANGED <<lock, ppc, prepo, spc, gpc, todo>>
    BY Zenon DEF Elsewhere, DeleteTag, TagMoves, Backfill, TimePasses, KeyAges, ClaimLapses, BlobAges,
       blobVars, pushVars, sweepVars, gcVars
<1>1. \A q \in Pushers, r \in Repos : OpenPut(q, r)' <=> OpenPut(q, r)
    BY <1>0 DEF OpenPut
<1>2. ASSUME UNCHANGED blob, \A r \in Repos : tags'[r] \subseteq tags[r],
             \A r \in Repos : ref[r] /\ tags'[r] # {} => ref'[r]
      PROVE  Kept'
  <2>1. SweepsApart' /\ PushesHold'
      BY <1>0, <1>1, <1>2 DEF SweepsApart, PushesHold, AnyBlobRow, KeyFree
  <2>2. \A r \in Repos : tags'[r] # {} => tags[r] # {}
      BY <1>2
  <2> QED  BY <1>0, <1>1, <1>2, <2>1, <2>2 DEF TickHolds
<1>3. ASSUME NEW r \in Repos, NEW t \in Tags, DeleteTag(r, t) PROVE Kept'
  <2>1. UNCHANGED blob /\ \A o \in Repos : tags'[o] \subseteq tags[o]
      BY <1>3 DEF DeleteTag, blobVars
  <2>2. ASSUME NEW o \in Repos, ref[o], tags'[o] # {} PROVE ref'[o]
      BY <1>3, <2>2 DEF DeleteTag
  <2> QED  BY <1>2, <2>1, <2>2
<1>4. ASSUME NEW r \in Repos, NEW t \in Tags, TagMoves(r, t) PROVE Kept'
  <2>1. UNCHANGED <<blob, ref>> /\ \A o \in Repos : tags'[o] \subseteq tags[o]
      BY <1>4 DEF TagMoves, blobVars
  <2> QED  BY <1>2, <2>1
<1>5. ASSUME NEW r \in Repos, Backfill(r) PROVE Kept'
  <2>1. UNCHANGED <<blob, tags>> /\ \A o \in Repos : ref[o] => ref'[o]
      BY <1>5 DEF Backfill, blobVars
  <2> QED  BY <1>2, <2>1
<1>6. ASSUME NEW r \in Repos, KeyAges(r) \/ ClaimLapses(r) PROVE Kept'
  <2>1. UNCHANGED <<blob, tags, ref>>
      BY <1>6 DEF KeyAges, ClaimLapses, blobVars, refVars
  <2> QED  BY <1>2, <2>1
<1>7. ASSUME NEW r \in Repos, BlobAges(r) PROVE Kept'
  <2>1. UNCHANGED <<tags, ref>>
      BY <1>7 DEF BlobAges, refVars
  <2>2. CASE UNCHANGED blob
      BY <1>2, <2>1, <2>2
  <2>3. CASE blob[r] = "stamped" /\ TimeFor(r) /\ gpc = "idle" /\ blob' = [blob EXCEPT ![r] = "ripe"]
    <3>1. \A q \in Pushers : ~OpenPut(q, r)
        BY <2>3 DEF TimeFor, InTransaction, OpenPut
    <3>2. SweepsApart'
        BY <1>0, <2>3 DEF SweepsApart, AnyBlobRow, KeyFree
    <3>3. PushesHold'
        BY <1>0, <1>1, <2>3, <3>1 DEF PushesHold
    <3> QED  BY <1>0, <1>1, <2>1, <2>3, <3>2, <3>3 DEF TickHolds
  <2> QED  BY <1>7, <2>2, <2>3, Zenon DEF BlobAges, GraceLasts
<1> QED  BY <1>3, <1>4, <1>5, <1>6, <1>7 DEF Elsewhere, TimePasses

\* Nobody takes the row or the bytes of a blob with a tag.
LEMMA ServedStep ==
  ASSUME OneRepo, Typed, Kept, Next, NEW r \in Repos, tags[r] # {}, blob[r] # "none", obj
  PROVE  blob'[r] # "none" /\ obj'
<1> USE DEF Typed, TypeOK, Kept
<1>1. ASSUME NEW p \in Pushers, PushStep(p) PROVE blob'[r] # "none" /\ obj'
  <2>1. obj' = obj \/ obj' = TRUE
      BY <1>1, Zenon DEF PushStep, HeadBlob, RegisterKey, MountFind, MountBlob, CopyBlob, GuardCommit,
         CommitBlob, BeginManifest, RecordManifest, CommitManifest, PushFails
  <2>2. \/ UNCHANGED blob
        \/ blob' = [blob EXCEPT ![prepo[p]] = "live"]
        \/ blob' = Resurrected(p)
      BY <1>1, Zenon DEF PushStep, HeadBlob, RegisterKey, MountFind, MountBlob, CopyBlob, GuardCommit,
         CommitBlob, PutBlobRow, BeginManifest, RecordManifest, CommitManifest, PushFails, blobVars
  <2> QED  BY <2>1, <2>2 DEF Resurrected
<1>2. ASSUME NEW s \in Sweepers, SweeperStep(s) PROVE blob'[r] # "none" /\ obj'
  <2>1. UNCHANGED blob
      BY <1>2, Zenon DEF SweeperStep, ClaimKey, TombstoneKey, DeleteObject, DeleteFails, ReapRow,
         SweeperDies, blobVars
  <2>2. ~DeleteObject(s)
      BY DEF DeleteObject, SweepsApart, AnyBlobRow
  <2>3. UNCHANGED obj
      BY <1>2, <2>2, Zenon DEF SweeperStep, ClaimKey, TombstoneKey, DeleteFails, ReapRow, SweeperDies
  <2> QED  BY <2>1, <2>3
<1>3. CASE TickStep
  <2>1. \A o \in Repos : lock[o] # Gc
      BY DEF TickHolds, OneRepo
  <2>2. ~SweepObject /\ \A o \in Repos : ~SweepRow(o)
      BY <2>1 DEF SweepObject, SweepRow, TickHolds
  <2>3. UNCHANGED obj
      BY <1>3, <2>2, Zenon DEF TickStep, GateOpens, PruneRefs, StartSweep, TickEnds, TickAborts, MarkBlob,
         LockMarked, SweepFails
  <2>4. \/ UNCHANGED blob
        \/ \E o \in Repos : blob' = [blob EXCEPT ![o] = IF @ = "live" /\ ~Protected THEN "stamped" ELSE @]
      BY <1>3, <2>2, Zenon DEF TickStep, GateOpens, PruneRefs, StartSweep, TickEnds, TickAborts, MarkBlob,
         LockMarked, SweepFails, blobVars
  <2> QED  BY <2>3, <2>4
<1>4. CASE Elsewhere
  <2>1. UNCHANGED obj
      BY <1>4, Zenon DEF Elsewhere, DeleteTag, TagMoves, Backfill, TimePasses, KeyAges, ClaimLapses, BlobAges
  <2>2. UNCHANGED blob \/ \E o \in Repos : blob' = [blob EXCEPT ![o] = "ripe"]
      BY <1>4, Zenon DEF Elsewhere, DeleteTag, TagMoves, Backfill, TimePasses, KeyAges, ClaimLapses,
         BlobAges, blobVars
  <2> QED  BY <2>1, <2>2
<1> QED  BY <1>1, <1>2, <1>3, <1>4, NextCases

\* mark_orphan_blobs, sweep_marked_blob, prune_orphan_blob_refs and the
\* journal's sweep, in a bucket of one repository: with any number of tags,
\* pushes and sweepers, through crashes, failing deletes and slow pushes, a
\* blob that can be pulled through a tag keeps its row and its bytes.
THEOREM ServedIsKept ==
  ASSUME OneRepo, ClaimsLast, GraceLasts
  PROVE  Spec => ServedKept
<1> DEFINE Served == \A r \in Repos : (tags[r] # {} /\ blob[r] # "none" /\ obj) /\ tags'[r] # {}
                                         => blob'[r] # "none" /\ obj'
<1>1. Init => Kept
  <2> SUFFICES ASSUME Init PROVE Kept
      OBVIOUS
  <2>1. SweepsApart
      BY DEF Init, SweepsApart
  <2>2. PushesHold
      BY ConstantsAssumption DEF Init, PushesHold, OpenPut
  <2>3. TickHolds
      BY ConstantsAssumption DEF Init, TickHolds
  <2> QED  BY <2>1, <2>2, <2>3 DEF Kept
<1>2. Typed /\ DeleteUnderClaim /\ Kept /\ [Next]_vars => Kept'
  <2> SUFFICES ASSUME Typed, DeleteUnderClaim, Kept, [Next]_vars PROVE Kept'
      OBVIOUS
  <2>1. ASSUME NEW p \in Pushers, PushStep(p) PROVE Kept'
      BY <2>1, KeptBlobPush, KeptManifestPush DEF PushStep
  <2>2. CASE UNCHANGED vars
      BY <2>2 DEF vars, blobVars, refVars, pushVars, sweepVars, gcVars, Kept, SweepsApart, PushesHold,
         TickHolds, AnyBlobRow, KeyFree, OpenPut
  <2> QED  BY <2>1, <2>2, KeptSweep, KeptTick, KeptElsewhere, NextCases
<1>3. Typed /\ Kept /\ [Next]_vars => [Served]_vars
    BY ServedStep
<1> QED  BY <1>1, <1>2, <1>3, TypedHolds, DeletesUnderClaim, PTL DEF Spec, ServedKept
=============================================================================
