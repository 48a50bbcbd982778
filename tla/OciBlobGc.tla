------------------------------ MODULE OciBlobGc ------------------------------
(***************************************************************************)
(* The life of one OCI blob: pushes of the blob and of the image manifest  *)
(* that references it, deletes of its tags, the cleanup journal's sweep of *)
(* abandoned writes, and the mark-and-sweep blob collector.                *)
(*                                                                         *)
(* The bytes live under one content-addressed key that every repository of *)
(* a cloud backend shares; each repository has its own rows for them.  One *)
(* action is one SQL transaction, or the part of one between two points    *)
(* where it waits for a lock or calls the storage backend.                 *)
(***************************************************************************)
EXTENDS Naturals, FiniteSets

CONSTANTS
    Repos,          \* repositories whose blobs are in the same bucket
    Tags,           \* tag names
    Pushers,        \* clients that may be pushing at once
    Sweepers,       \* replicas that may be sweeping the journal at once
    None,
    Jobs,           \* {"journal"}, or {"journal", "blob"} with BLOB_GC_ENABLED
    Faults          \* what may go wrong, see below

(* crash    a sweeper or the collector dies, or a statement of it fails    *)
(* storage  a delete in the storage backend fails and deletes nothing      *)
(* slow     a push outlasts the ages that are to outlast it                *)
(* late     a claim lapses under a delete, or before a push that has       *)
(*          copied its bytes commits                                       *)
(* grace    the sweep grace passes within one tick of the collector        *)
FaultKinds == {"crash", "storage", "slow", "late", "grace"}

Gc == "gc"      \* the collector, as the holder of a row lock

ASSUME ConstantsAssumption ==
    /\ Jobs \subseteq {"journal", "blob"}
    /\ Faults \subseteq FaultKinds
    /\ None \notin Repos /\ None \notin Tags /\ None \notin Sweepers
    /\ None \notin Pushers /\ Gc \notin Pushers /\ Gc # None

VARIABLES
    obj,        \* the object is in the bucket
    blob,       \* repo -> its oci_blobs row: none, live, stamped or ripe
    old,        \* repo -> created_at of that row is past the minimum age
    lock,       \* repo -> the transaction that holds that row
    tags,       \* repo -> the committed tags of the manifest
    ref,        \* repo -> the committed manifest_blob_refs row
    jage,       \* repo -> its oci_upload_cleanup_keys row, by age
    tomb,       \* repo -> pending_delete_at of that row is set
    claim,      \* repo -> claim_expires_at: none, live or lapsed
    owner,      \* repo -> the sweeper whose claim_token the row has
    ppc,        \* pusher -> where it is
    prepo,      \* pusher -> the repository it pushes to
    ptag,       \* pusher -> the tag its open manifest transaction writes
    pid,        \* pusher -> the journal row it registered still exists
    pown,       \* pusher -> its open transaction inserted the reference
    spc,        \* sweeper -> where it is
    srepo,      \* sweeper -> the repository of its journal row
    gpc,        \* the collector: idle, gated, mark, sweep, locked, deleted
    todo        \* the rows of the page the collector is going through

blobVars == <<blob, old, lock>>
refVars == <<tags, ref>>
journal == <<jage, tomb, claim, owner>>
pushVars == <<ppc, prepo, ptag, pid, pown>>
sweepVars == <<spc, srepo>>
gcVars == <<gpc, todo>>
vars == <<obj, blobVars, refVars, journal, pushVars, sweepVars, gcVars>>

(* The age of a journal row.  fresh: created within 24 hours.  again:      *)
(* the same, and registered again since.  renewed: created earlier and     *)
(* registered again within 24 hours.  old: neither.                        *)
Ages == {"fresh", "again", "renewed", "old"}

TypeOK ==
    /\ obj \in BOOLEAN
    /\ blob \in [Repos -> {"none", "live", "stamped", "ripe"}]
    /\ old \in [Repos -> BOOLEAN]
    /\ lock \in [Repos -> Pushers \cup {Gc, None}]
    /\ tags \in [Repos -> SUBSET Tags]
    /\ ref \in [Repos -> BOOLEAN]
    /\ jage \in [Repos -> Ages \cup {"none"}]
    /\ tomb \in [Repos -> BOOLEAN]
    /\ claim \in [Repos -> {"none", "live", "lapsed"}]
    /\ owner \in [Repos -> Sweepers \cup {None}]
    /\ ppc \in [Pushers -> {"idle", "mounting", "registered", "copied", "cleared",
                            "uploaded", "putting", "recorded"}]
    /\ prepo \in [Pushers -> Repos \cup {None}]
    /\ ptag \in [Pushers -> Tags \cup {None}]
    /\ pid \in [Pushers -> BOOLEAN]
    /\ pown \in [Pushers -> BOOLEAN]
    /\ spc \in [Sweepers -> {"idle", "claimed", "tombed", "deleted"}]
    /\ srepo \in [Sweepers -> Repos \cup {None}]
    /\ gpc \in {"idle", "gated", "mark", "sweep", "locked", "deleted"}
    /\ todo \subseteq Repos

Init ==
    /\ obj = FALSE
    /\ blob = [r \in Repos |-> "none"]
    /\ old = [r \in Repos |-> FALSE]
    /\ lock = [r \in Repos |-> None]
    /\ tags = [r \in Repos |-> {}]
    /\ ref = [r \in Repos |-> FALSE]
    /\ jage = [r \in Repos |-> "none"]
    /\ tomb = [r \in Repos |-> FALSE]
    /\ claim = [r \in Repos |-> "none"]
    /\ owner = [r \in Repos |-> None]
    /\ ppc = [p \in Pushers |-> "idle"]
    /\ prepo = [p \in Pushers |-> None]
    /\ ptag = [p \in Pushers |-> None]
    /\ pid = [p \in Pushers |-> FALSE]
    /\ pown = [p \in Pushers |-> FALSE]
    /\ spc = [s \in Sweepers |-> "idle"]
    /\ srepo = [s \in Sweepers |-> None]
    /\ gpc = "idle"
    /\ todo = {}

-----------------------------------------------------------------------------
(* What the transactions read and write. *)

\* A row of any repository of the backend: the key is the same for all.
AnyBlobRow == \E r \in Repos : blob[r] # "none"

\* BLOB_PROTECTED_BY_REFS_SQL
Protected == \E r \in Repos : ref[r]

\* The advisory lock a push holds from its guard to its commit.
KeyFree == \A p \in Pushers : ppc[p] # "cleared"

\* A sweep that has announced its delete, under a claim that still binds.
Doomed(r) == tomb[r] /\ claim[r] = "live"

\* Faulty variant: only the repository's own pushes are looked at.
NoFreshSibling(r) == FALSE

\* Another repository's row that a push registered within 24 hours.
FreshSibling(r) ==
    \E o \in Repos \ {r} : jage[o] \in {"fresh", "again", "renewed"} /\ ~tomb[o]

\* The manifest transactions of r that are open.
OpenPut(p, r) == ppc[p] \in {"putting", "recorded"} /\ prepo[p] = r
TagWritten(r, t) == \E p \in Pushers : OpenPut(p, r) /\ ptag[p] = t

\* The journal row of r is deleted, and with it every id that named it.
DropJournalRow(r) ==
    /\ jage' = [jage EXCEPT ![r] = "none"]
    /\ tomb' = [tomb EXCEPT ![r] = FALSE]
    /\ claim' = [claim EXCEPT ![r] = "none"]
    /\ owner' = [owner EXCEPT ![r] = None]

\* INSERT ... ON CONFLICT DO UPDATE SET pending_delete_at = NULL
PutBlobRow(r) ==
    /\ blob' = [blob EXCEPT ![r] = "live"]
    /\ old' = [old EXCEPT ![r] = @ /\ blob[r] # "none"]

\* Whatever p had open is over.
PushEnds(p) ==
    /\ ppc' = [ppc EXCEPT ![p] = "idle"]
    /\ prepo' = [prepo EXCEPT ![p] = None]
    /\ ptag' = [ptag EXCEPT ![p] = None]
    /\ pid' = [pid EXCEPT ![p] = FALSE]
    /\ pown' = [pown EXCEPT ![p] = FALSE]

-----------------------------------------------------------------------------
(* A push: the blob, by HEAD or by upload, and then the manifest. *)

\* HEAD says the blob is there, so the client does not upload it.
HeadBlob(p, r) ==
    /\ ppc[p] = "idle" /\ blob[r] # "none" /\ obj
    /\ ppc' = [ppc EXCEPT ![p] = "uploaded"]
    /\ prepo' = [prepo EXCEPT ![p] = r]
    /\ UNCHANGED <<obj, blobVars, refVars, journal, ptag, pid, pown, sweepVars, gcVars>>

\* The client asks for the blob of repository o: its row and the bytes are
\* looked up, and then the row of r is inserted without a journal row.
MountFind(p, r, o) ==
    /\ ppc[p] = "idle" /\ r # o /\ blob[o] # "none" /\ obj
    /\ ppc' = [ppc EXCEPT ![p] = "mounting"]
    /\ prepo' = [prepo EXCEPT ![p] = r]
    /\ UNCHANGED <<obj, blobVars, refVars, journal, ptag, pid, pown, sweepVars, gcVars>>

MountBlob(p) ==
    /\ ppc[p] = "mounting" /\ lock[prepo[p]] = None
    /\ PutBlobRow(prepo[p])
    /\ ppc' = [ppc EXCEPT ![p] = "uploaded"]
    /\ UNCHANGED <<obj, lock, refVars, journal, prepo, ptag, pid, pown, sweepVars, gcVars>>

\* The journal row is written before the object is.
RegisterKey(p, r) ==
    /\ ppc[p] = "idle" /\ KeyFree /\ \A o \in Repos \ {r} : ~Doomed(o)
    /\ jage' = [jage EXCEPT ![r] = CASE @ = "none" -> "fresh"
                                     [] @ \in {"fresh", "again"} -> "again"
                                     [] OTHER -> "renewed"]
    /\ ppc' = [ppc EXCEPT ![p] = "registered"]
    /\ prepo' = [prepo EXCEPT ![p] = r]
    /\ pid' = [pid EXCEPT ![p] = TRUE]
    /\ UNCHANGED <<obj, blobVars, refVars, tomb, claim, owner, ptag, pown, sweepVars, gcVars>>

CopyBlob(p) ==
    /\ ppc[p] = "registered"
    /\ obj' = TRUE
    /\ ppc' = [ppc EXCEPT ![p] = "copied"]
    /\ UNCHANGED <<blobVars, refVars, journal, prepo, ptag, pid, pown, sweepVars, gcVars>>

\* claim_cleanup_journal_row_for_blob_commit: no sweep is deleting the key,
\* and none has reaped the row p registered, unless another push has since
\* committed the blob.
Cleared(p) ==
    /\ \A r \in Repos : ~Doomed(r)
    /\ pid[p] \/ blob[prepo[p]] # "none"

GuardCommit(p) ==
    /\ ppc[p] = "copied" /\ KeyFree
    /\ IF Cleared(p)
       THEN ppc' = [ppc EXCEPT ![p] = "cleared"] /\ UNCHANGED <<prepo, ptag, pid, pown>>
       ELSE PushEnds(p)
    /\ UNCHANGED <<obj, blobVars, refVars, journal, sweepVars, gcVars>>

\* The row is inserted, or its mark cleared, once nobody else holds it; the
\* journal row the guard deleted goes with the same commit.
CommitBlob(p) ==
    LET r == prepo[p] IN
    /\ ppc[p] = "cleared" /\ lock[r] = None
    /\ PutBlobRow(r)
    /\ IF pid[p]
       THEN /\ DropJournalRow(r)
            /\ pid' = [q \in Pushers |-> pid[q] /\ prepo[q] # r]
       ELSE UNCHANGED <<journal, pid>>
    /\ ppc' = [ppc EXCEPT ![p] = "uploaded"]
    /\ UNCHANGED <<obj, lock, refVars, prepo, ptag, pown, sweepVars, gcVars>>

\* The tag row, the lock on the blob row and the reference, which is inserted
\* only if no committed one is there.
BeginManifest(p, t) ==
    LET r == prepo[p] IN
    /\ ppc[p] = "uploaded" /\ lock[r] = None
    /\ \A q \in Pushers : OpenPut(q, r) => ptag[q] # t /\ ~pown[q]
    /\ lock' = IF blob[r] = "none" THEN lock ELSE [lock EXCEPT ![r] = p]
    /\ ppc' = [ppc EXCEPT ![p] = "putting"]
    /\ ptag' = [ptag EXCEPT ![p] = t]
    /\ pown' = [pown EXCEPT ![p] = ~ref[r]]
    /\ UNCHANGED <<obj, blob, old, refVars, journal, prepo, pid, sweepVars, gcVars>>

\* Faulty variant: the request's tag is given up before the commit.
RecordManifestNoTag(p) ==
    /\ ppc[p] = "putting"
    /\ \A q \in Pushers : ppc[q] = "recorded" => prepo[q] # prepo[p]
    /\ ppc' = [ppc EXCEPT ![p] = "recorded"]
    /\ ptag' = [ptag EXCEPT ![p] = None]
    /\ UNCHANGED <<obj, blobVars, refVars, journal, prepo, pid, pown, sweepVars, gcVars>>

\* The oci_manifests row, which the delete of the last tag locks as well.
RecordManifest(p) ==
    /\ ppc[p] = "putting"
    /\ \A q \in Pushers : ppc[q] = "recorded" => prepo[q] # prepo[p]
    /\ ppc' = [ppc EXCEPT ![p] = "recorded"]
    /\ UNCHANGED <<obj, blobVars, refVars, journal, prepo, ptag, pid, pown, sweepVars, gcVars>>

Unlocked(p) == [r \in Repos |-> IF lock[r] = p THEN None ELSE lock[r]]

\* The rows p has locked lose the mark the collector gave them.
Resurrected(p) == [r \in Repos |-> IF lock[r] = p THEN "live" ELSE blob[r]]

CommitManifest(p) ==
    LET r == prepo[p] IN
    /\ ppc[p] = "recorded"
    /\ tags' = [tags EXCEPT ![r] = @ \cup {ptag[p]}]
    /\ ref' = [ref EXCEPT ![r] = @ \/ pown[p]]
    /\ blob' = Resurrected(p)
    /\ lock' = Unlocked(p)
    /\ PushEnds(p)
    /\ UNCHANGED <<obj, old, journal, sweepVars, gcVars>>

\* The request fails, is refused by the quota, or its client or server is
\* gone: the open transaction is rolled back and nothing else is undone.
PushFails(p) ==
    /\ ppc[p] # "idle"
    /\ lock' = Unlocked(p)
    /\ PushEnds(p)
    /\ UNCHANGED <<obj, blob, old, refVars, journal, sweepVars, gcVars>>

-----------------------------------------------------------------------------
(* Other writers of the tags and references. *)

\* DELETE of a manifest by tag.  It waits for an open push of the same tag
\* and for one that has reached the oci_manifests row.
DeleteTag(r, t) ==
    /\ t \in tags[r] /\ ~TagWritten(r, t)
    /\ \A p \in Pushers : ppc[p] = "recorded" => prepo[p] # r
    /\ tags' = [tags EXCEPT ![r] = @ \ {t}]
    /\ ref' = [ref EXCEPT ![r] = @ /\ tags[r] # {t}]
    /\ UNCHANGED <<obj, blobVars, journal, pushVars, sweepVars, gcVars>>

\* The tag is pushed again for another image: the references stay behind.
TagMoves(r, t) ==
    /\ t \in tags[r] /\ ~TagWritten(r, t)
    /\ tags' = [tags EXCEPT ![r] = @ \ {t}]
    /\ UNCHANGED <<obj, blobVars, ref, journal, pushVars, sweepVars, gcVars>>

\* The backfill at the start of a server.
Backfill(r) ==
    /\ tags[r] # {} /\ ~ref[r]
    /\ \A p \in Pushers : OpenPut(p, r) => ~pown[p]
    /\ ref' = [ref EXCEPT ![r] = TRUE]
    /\ UNCHANGED <<obj, blobVars, tags, journal, pushVars, sweepVars, gcVars>>

-----------------------------------------------------------------------------
(* The sweep of the cleanup journal: claim, tombstone, delete, reap. *)

JournalLocked(r) == \E p \in Pushers : ppc[p] = "cleared" /\ prepo[p] = r

ClaimKey(s, r) ==
    /\ "journal" \in Jobs
    /\ spc[s] = "idle"
    /\ jage[r] \in {"renewed", "old"} /\ claim[r] # "live" /\ ~JournalLocked(r)
    /\ ~AnyBlobRow
    /\ claim' = [claim EXCEPT ![r] = "live"]
    /\ owner' = [owner EXCEPT ![r] = s]
    /\ spc' = [spc EXCEPT ![s] = "claimed"]
    /\ srepo' = [srepo EXCEPT ![s] = r]
    /\ UNCHANGED <<obj, blobVars, refVars, jage, tomb, pushVars, gcVars>>

SweepEnds(s) ==
    /\ spc' = [spc EXCEPT ![s] = "idle"]
    /\ srepo' = [srepo EXCEPT ![s] = None]

\* Faulty variant: the token of the claim is not compared.
ReclaimableAnyToken(s) == ~AnyBlobRow /\ ~FreshSibling(srepo[s])

\* Phase 1: the row must still be the sweeper's and its key still dead.
Reclaimable(s) == owner[srepo[s]] = s /\ ~AnyBlobRow /\ ~FreshSibling(srepo[s])

TombstoneKey(s) ==
    LET r == srepo[s] IN
    /\ spc[s] = "claimed" /\ KeyFree
    /\ IF Reclaimable(s)
       THEN /\ tomb' = [tomb EXCEPT ![r] = TRUE]
            /\ claim' = [claim EXCEPT ![r] = "live"]
            /\ spc' = [spc EXCEPT ![s] = "tombed"]
            /\ UNCHANGED srepo
       ELSE SweepEnds(s) /\ UNCHANGED <<tomb, claim>>
    /\ UNCHANGED <<obj, blobVars, refVars, jage, owner, pushVars, gcVars>>

\* Phase 2.  A failed delete gives the claim up and leaves the tombstone.
DeleteObject(s) ==
    /\ spc[s] = "tombed"
    /\ obj' = FALSE
    /\ spc' = [spc EXCEPT ![s] = "deleted"]
    /\ UNCHANGED <<blobVars, refVars, journal, pushVars, srepo, gcVars>>

DeleteFails(s) ==
    LET r == srepo[s] IN
    /\ "storage" \in Faults
    /\ spc[s] = "tombed"
    /\ claim' = [claim EXCEPT ![r] = IF owner[r] = s THEN "lapsed" ELSE @]
    /\ SweepEnds(s)
    /\ UNCHANGED <<obj, blobVars, refVars, jage, tomb, owner, pushVars, gcVars>>

\* Phase 3: the row goes, if it is still what phase 1 left.
ReapRow(s) ==
    LET r == srepo[s] IN
    /\ spc[s] = "deleted" /\ ~JournalLocked(r)
    /\ IF owner[r] = s /\ tomb[r] /\ ~AnyBlobRow
       THEN /\ DropJournalRow(r)
            /\ pid' = [q \in Pushers |-> pid[q] /\ prepo[q] # r]
       ELSE UNCHANGED <<journal, pid>>
    /\ SweepEnds(s)
    /\ UNCHANGED <<obj, blobVars, refVars, ppc, prepo, ptag, pown, gcVars>>

SweeperDies(s) ==
    /\ "crash" \in Faults
    /\ spc[s] # "idle"
    /\ SweepEnds(s)
    /\ UNCHANGED <<obj, blobVars, refVars, journal, pushVars, gcVars>>

-----------------------------------------------------------------------------
(* The blob collector's tick: gate, prune, mark, sweep. *)

Orphans(stage) == {r \in Repos : blob[r] \in stage /\ ~Protected}

\* Faulty variant: the references are taken to be complete.
RefsAssumed == TRUE

\* any_live_manifest_missing_refs
RefsComplete == \A r \in Repos : tags[r] # {} => ref[r]

\* The readiness gate: while it is closed the tick is a dry run.
GateOpens ==
    /\ "blob" \in Jobs
    /\ gpc = "idle" /\ RefsComplete
    /\ gpc' = "gated"
    /\ UNCHANGED <<obj, blobVars, refVars, journal, pushVars, sweepVars, todo>>

\* Marking goes through the rows that are old and orphaned after the prune;
\* a prune that fails is only logged.
PruneRefs ==
    /\ gpc = "gated"
    /\ \/ ref' = [r \in Repos |-> ref[r] /\ tags[r] # {}]
       \/ "crash" \in Faults /\ UNCHANGED ref
    /\ gpc' = "mark"
    /\ todo' = {r \in Repos : old[r] /\ blob[r] # "none" /\ \A o \in Repos : ~ref'[o]}
    /\ UNCHANGED <<obj, blobVars, tags, journal, pushVars, sweepVars>>

\* One row under its lock: the first mark's time is kept.
MarkBlob(r) ==
    /\ gpc = "mark" /\ r \in todo /\ lock[r] = None
    /\ blob' = [blob EXCEPT ![r] = IF @ = "live" /\ ~Protected THEN "stamped" ELSE @]
    /\ todo' = todo \ {r}
    /\ UNCHANGED <<obj, old, lock, refVars, journal, pushVars, sweepVars, gpc>>

StartSweep ==
    /\ gpc = "mark" /\ todo = {}
    /\ gpc' = "sweep"
    /\ todo' = Orphans({"ripe"})
    /\ UNCHANGED <<obj, blobVars, refVars, journal, pushVars, sweepVars>>

\* is_blob_still_orphan under the row lock: still marked, still no reference.
StillOrphan(r) == blob[r] \in {"stamped", "ripe"} /\ ~Protected

LockMarked(r) ==
    /\ gpc = "sweep" /\ r \in todo /\ lock[r] = None
    /\ IF StillOrphan(r)
       THEN /\ lock' = [lock EXCEPT ![r] = Gc]
            /\ gpc' = "locked"
            /\ UNCHANGED todo
       ELSE todo' = todo \ {r} /\ UNCHANGED <<lock, gpc>>
    /\ UNCHANGED <<obj, blob, old, refVars, journal, pushVars, sweepVars>>

SweepObject ==
    /\ gpc = "locked"
    /\ obj' = FALSE
    /\ gpc' = "deleted"
    /\ UNCHANGED <<blobVars, refVars, journal, pushVars, sweepVars, todo>>

SweepFails(r) ==
    /\ "storage" \in Faults
    /\ gpc = "locked" /\ lock[r] = Gc
    /\ lock' = [lock EXCEPT ![r] = None]
    /\ gpc' = "sweep"
    /\ todo' = todo \ {r}
    /\ UNCHANGED <<obj, blob, old, refVars, journal, pushVars, sweepVars>>

SweepRow(r) ==
    /\ gpc = "deleted" /\ lock[r] = Gc
    /\ blob' = [blob EXCEPT ![r] = "none"]
    /\ old' = [old EXCEPT ![r] = FALSE]
    /\ lock' = [lock EXCEPT ![r] = None]
    /\ gpc' = "sweep"
    /\ todo' = todo \ {r}
    /\ UNCHANGED <<obj, refVars, journal, pushVars, sweepVars>>

TickEnds ==
    /\ gpc = "sweep" /\ todo = {}
    /\ gpc' = "idle"
    /\ UNCHANGED <<obj, blobVars, refVars, journal, pushVars, sweepVars, todo>>

\* The replica dies, or loses its lease at the start of a phase.
TickAborts ==
    /\ "crash" \in Faults
    /\ gpc # "idle"
    /\ gpc' = "idle"
    /\ todo' = {}
    /\ lock' = Unlocked(Gc)
    /\ UNCHANGED <<obj, blob, old, refVars, journal, pushVars, sweepVars>>

-----------------------------------------------------------------------------
(* Time.  A transaction is over before anything gets old, and a push before *)
(* what it wrote at its start does.                                         *)

InTransaction(p) == ppc[p] \in {"cleared", "putting", "recorded"}
TimeFor(r) ==
    \A p \in Pushers : prepo[p] = r => "slow" \in Faults /\ ~InTransaction(p)

\* 24 hours since the last registration, or only since the first.
KeyAges(r) ==
    /\ \/ jage[r] \in {"fresh", "again", "renewed"} /\ TimeFor(r)
          /\ jage' = [jage EXCEPT ![r] = "old"]
       \/ jage[r] = "again" /\ jage' = [jage EXCEPT ![r] = "renewed"]
    /\ UNCHANGED <<obj, blobVars, refVars, tomb, claim, owner, pushVars, sweepVars, gcVars>>

\* The 15 minutes of a claim: from the claim, which a long batch outlasts,
\* and again from the tombstone, which neither the delete that follows nor
\* the way of a push from its copy to its commit does.
ClaimLapses(r) ==
    /\ claim[r] = "live"
    /\ \/ ~tomb[r]
       \/ "late" \in Faults
       \/ /\ \A s \in Sweepers : owner[r] = s => srepo[s] # r
          /\ \A p \in Pushers : ppc[p] \notin {"copied", "cleared"}
    /\ claim' = [claim EXCEPT ![r] = "lapsed"]
    /\ UNCHANGED <<obj, blobVars, refVars, jage, tomb, owner, pushVars, sweepVars, gcVars>>

\* MIN_BLOB_AGE_SECS and blob_gc_sweep_grace_secs.
BlobAges(r) ==
    /\ \/ blob[r] # "none" /\ ~old[r] /\ TimeFor(r)
          /\ old' = [old EXCEPT ![r] = TRUE] /\ UNCHANGED blob
       \/ blob[r] = "stamped" /\ TimeFor(r) /\ (gpc = "idle" \/ "grace" \in Faults)
          /\ blob' = [blob EXCEPT ![r] = "ripe"] /\ UNCHANGED old
    /\ UNCHANGED <<obj, lock, refVars, journal, pushVars, sweepVars, gcVars>>

-----------------------------------------------------------------------------
PushStep(p) ==
    \/ \E r \in Repos : HeadBlob(p, r) \/ RegisterKey(p, r)
    \/ \E r, o \in Repos : MountFind(p, r, o)
    \/ \E t \in Tags : BeginManifest(p, t)
    \/ MountBlob(p) \/ CopyBlob(p) \/ GuardCommit(p) \/ CommitBlob(p)
    \/ RecordManifest(p) \/ CommitManifest(p) \/ PushFails(p)

SweeperStep(s) ==
    \/ \E r \in Repos : ClaimKey(s, r)
    \/ TombstoneKey(s) \/ DeleteObject(s) \/ DeleteFails(s) \/ ReapRow(s) \/ SweeperDies(s)

TickStep ==
    \/ GateOpens \/ PruneRefs \/ StartSweep \/ SweepObject \/ TickEnds \/ TickAborts
    \/ \E r \in Repos : MarkBlob(r) \/ LockMarked(r) \/ SweepFails(r) \/ SweepRow(r)

TimePasses == \E r \in Repos : KeyAges(r) \/ ClaimLapses(r) \/ BlobAges(r)

Next ==
    \/ \E p \in Pushers : PushStep(p)
    \/ \E s \in Sweepers : SweeperStep(s)
    \/ TickStep
    \/ \E r \in Repos, t \in Tags : DeleteTag(r, t) \/ TagMoves(r, t)
    \/ \E r \in Repos : Backfill(r)
    \/ TimePasses

Spec == Init /\ [][Next]_vars

-----------------------------------------------------------------------------
(* Properties. *)

\* A committed oci_blobs row has its bytes, in every repository of the
\* bucket, while only the journal is swept: a push does not commit over a
\* sweep that announced its delete (claim_cleanup_journal_row_for_blob_commit),
\* and a sweep announces none over a push that registered its key
\* (tombstone_cleanup_key_for_delete).
BlobBacked == AnyBlobRow => obj

\* The bytes are only ever deleted under a live claim on the journal row
\* (reap_pending_oci_upload_cleanup_keys): no second sweeper, whose earlier
\* claim lapsed in a long batch, deletes what a push has meanwhile renewed.
DeleteUnderClaim ==
    \A s \in Sweepers : spc[s] = "tombed" =>
        owner[srepo[s]] = s /\ claim[srepo[s]] = "live" /\ tomb[srepo[s]]

\* Neither collector takes the row or the bytes of a blob that can be pulled
\* through a tag (sweep_marked_blob, prune_orphan_blob_refs), whatever
\* pushes, deletes and crashes do around it.
ServedKept ==
    [][\A r \in Repos : (tags[r] # {} /\ blob[r] # "none" /\ obj) /\ tags'[r] # {}
                           => blob'[r] # "none" /\ obj']_vars
=============================================================================
