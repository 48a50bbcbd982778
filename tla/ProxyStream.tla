----------------------------- MODULE ProxyStream -----------------------------
(***************************************************************************)
(* One proxied object: requests on several replicas that miss the cache,   *)
(* elect one streaming leader per process, and, between processes, one     *)
(* leader by a PostgreSQL advisory lock.  The leader's body goes to its    *)
(* client, to the requests that follow it and to a writer that publishes   *)
(* it in the shared cache.                                                 *)
(*                                                                         *)
(* A body is a number of chunks.  The path is immutable, so an entry does  *)
(* not expire and every fill that is complete has the same bytes.          *)
(***************************************************************************)
EXTENDS Naturals

CONSTANTS
    Requests,
    Replicas,
    Placements,     \* how requests may be spread over the replicas
    None,
    Advisory,       \* PROXY_SINGLEFLIGHT_ADVISORY_LOCKS_ENABLED
    KnownLength,    \* upstream sends a Content-Length
    Len,            \* the chunks of the body
    Depth,          \* STREAM_BROADCAST_DEPTH
    Budget,         \* STREAM_REENTER_BUDGET
    Faults          \* what may go wrong, see below

(* drop      a client disconnects                                          *)
(* crash     a replica dies                                                *)
(* open      upstream cannot be opened                                     *)
(* upstream  upstream fails in the middle of a body                        *)
(* bypass    a body is served without a cache write (quota, stale copy)    *)
(* hold      the Package Age Policy may hold the object                    *)
(* storage   a call of the storage backend fails                           *)
(* badcopy   a copy reports success and stores fewer bytes                 *)
(* lock      the lock's connection fails, or no permit to wait is free     *)
(* timeout   a wait for the lock, or for a publish, times out              *)
(* stall     a leader's client reads nothing for 30 seconds                *)
(* hang      a publish takes longer than 60 seconds                        *)
FaultKinds == {"drop", "crash", "open", "upstream", "bypass", "hold", "storage",
               "badcopy", "lock", "timeout", "stall", "hang"}

ASSUME ConstantsAssumption ==
    /\ Len \in Nat \ {0} /\ Depth \in Nat \ {0} /\ Budget \in Nat \ {0}
    /\ Advisory \in BOOLEAN /\ KnownLength \in BOOLEAN
    /\ None \notin Requests /\ None \notin Replicas /\ None \notin Nat
    /\ Placements \subseteq [Requests -> Replicas]
    /\ Faults \subseteq FaultKinds

VARIABLES
    pc,         \* request -> where it is
    at,         \* request -> its replica
    tries,      \* request -> coordinated attempts that ended in a re-enter
    of,         \* request -> the leader it follows, the publish it waits for
    pos,        \* request -> broadcast items it has taken
    got,        \* request -> the chunks captured for its client, or given to it
    card,       \* request -> the size in the sidecar it has loaded, else 0
    slot,       \* replica -> the leader in its stream registry
    sent,       \* leader -> chunks handed to client, followers and writer
    term,       \* leader -> its stream: none, open, done, failed, closed
    wr,         \* leader -> its cache writer
    registry,   \* replica -> the publish registered for the key
    live,       \* chunks of the object under cache_key, 0 if there is none
    side,       \* chunks the metadata sidecar vouches for, 0 if there is none
    lru,        \* replica -> its memoised sidecar; 0 is a memoised miss
    load,       \* replica -> the load under way: who began it, what it has read
    lock,       \* the request whose lease holds the advisory lock
    hold,       \* the Package Age Policy holds the object
    leased,     \* leader -> its fill was opened under the lock
    woken       \* request -> the lock woke it while the entry was there: no,
                \* clear, or loading when its process had a load under way

reqVars == <<pc, at, tries, of, pos, got, card>>
streamVars == <<slot, sent, term>>
fillVars == <<wr, registry, leased>>
memoVars == <<lru, load>>
cacheVars == <<live, side, memoVars>>
vars == <<reqVars, streamVars, fillVars, cacheVars, lock, hold, woken>>

\* Before the handle of a body exists: nothing has been sent to the client.
Waiting == {"probe", "again", "absent", "tail", "open", "evict", "unvouch", "unmemo",
            "elect", "leader", "lockWait", "granted", "fetch",
            "follow", "capture", "behind", "reenter"}
Final == {"served", "failed", "gone"}
Writing == {"filling", "copied", "measured", "written"}

TypeOK ==
    /\ pc \in [Requests -> {"lead", "body", "drain", "ghost"} \cup Waiting \cup Final]
    /\ at \in [Requests -> Replicas]
    /\ tries \in [Requests -> 0..Budget]
    /\ of \in [Requests -> Requests \cup {None}]
    /\ pos \in [Requests -> 0..Len]
    /\ got \in [Requests -> 0..Len]
    /\ card \in [Requests -> 0..Len]
    /\ slot \in [Replicas -> Requests \cup {None}]
    /\ sent \in [Requests -> 0..Len]
    /\ term \in [Requests -> {"none", "open", "done", "failed", "closed"}]
    /\ wr \in [Requests -> {"none", "done"} \cup Writing]
    /\ registry \in [Replicas -> Requests \cup {None}]
    /\ live \in 0..Len /\ side \in 0..Len
    /\ lru \in [Replicas -> 0..Len \cup {None}]
    /\ load \in [Replicas -> [by : Requests \cup {None}, saw : 0..Len]]
    /\ lock \in Requests \cup {None}
    /\ hold \in BOOLEAN
    /\ leased \in [Requests -> BOOLEAN]
    /\ woken \in [Requests -> {"no", "clear", "loading"}]

NoLoad == [by |-> None, saw |-> 0]

Init ==
    /\ pc = [q \in Requests |-> "probe"]
    /\ at \in Placements
    /\ tries = [q \in Requests |-> 0]
    /\ of = [q \in Requests |-> None]
    /\ pos = [q \in Requests |-> 0]
    /\ got = [q \in Requests |-> 0]
    /\ card = [q \in Requests |-> 0]
    /\ slot = [r \in Replicas |-> None]
    /\ sent = [q \in Requests |-> 0]
    /\ term = [q \in Requests |-> "none"]
    /\ wr = [q \in Requests |-> "none"]
    /\ registry = [r \in Replicas |-> None]
    /\ live = 0 /\ side = 0
    /\ lru = [r \in Replicas |-> None]
    /\ load = [r \in Replicas |-> NoLoad]
    /\ lock = None
    /\ hold \in {FALSE} \cup {h \in {TRUE} : "hold" \in Faults}
    /\ leased = [q \in Requests |-> FALSE]
    /\ woken = [q \in Requests |-> "no"]

----------------------------------------------------------------------------
(* Helpers. *)

\* Faulty variant: the re-enters are not bounded.
SoloNever(q) == FALSE

\* The last attempt, after the budget of re-enters, is not coordinated.
Solo(q) == tries[q] = Budget

Goto(q, s) == pc' = [pc EXCEPT ![q] = s]

\* The end of a request, with the chunks its client has.
Answer(q, n) == Goto(q, "served") /\ got' = [got EXCEPT ![q] = n]

\* Drop of a StreamLeaderLease: the slot is freed if it is still its own.
FreeSlot(q) == slot' = [r \in Replicas |-> IF slot[r] = q THEN None ELSE slot[r]]

\* Faulty variant: nobody tells the followers.
LeaderQuitsSilently(q, s) == Goto(q, s) /\ FreeSlot(q)

\* A leader ends without headers: dropping the watch sender sends every
\* request that waits for them back to the cache.
LeaderQuits(q, s) ==
    /\ pc' = [f \in Requests |-> IF f = q THEN s
                                 ELSE IF pc[f] = "follow" /\ of[f] = q THEN "reenter"
                                 ELSE pc[f]]
    /\ FreeSlot(q)

\* A body ends, one way or the other.
StreamEnds(q, how) ==
    /\ term' = [term EXCEPT ![q] = how]
    /\ FreeSlot(q)

\* Drop of a ClusterLease that no publish is waited for.
DropLease(q) == lock' = IF lock = q THEN None ELSE lock

\* Drop of a TeePublishGuard: only its own registration is removed.
Deregister(q) == registry' = [r \in Replicas |-> IF registry[r] = q THEN None ELSE registry[r]]

WriterTo(q, s) ==
    /\ wr' = [wr EXCEPT ![q] = s]
    /\ UNCHANGED <<registry, leased>>

\* The writer's task ends, on whatever path.
WriterOver(q) ==
    /\ wr' = [wr EXCEPT ![q] = "done"]
    /\ leased' = [leased EXCEPT ![q] = FALSE]
    /\ Deregister(q)

\* The entry changes under whoever expected it.
NobodyWoken == woken' = [f \in Requests |-> "no"]

\* An object after a delete, whose failure is ignored.
Deleted(n) == {0} \cup {m \in {n} : "storage" \in Faults}

\* TeePublishEntry.tail: set with the last chunk of a known length, and at EOF.
Tail(q) == term[q] = "done" \/ (KnownLength /\ sent[q] = Len)

\* await_tee_publish waits only for a publish in its tail.
TailPublish(r) == registry[r] # None /\ Tail(registry[r])

\* classify_stream_write
Committable(n) == n # 0 /\ (KnownLength => n = Len)

----------------------------------------------------------------------------
(* streaming_gated_fetch: the cache, then the election. *)

\* A request arrives when it takes its first step.
\* "again" is the second load of load_cache_metadata_awaiting_publish.
Loading(q) == pc[q] \in {"probe", "again"}

\* A miss: elect a leader, or, when the budget is used up, fetch alone.
AfterMiss(q) == IF Solo(q) THEN "fetch" ELSE "elect"
Missed(q) == Goto(q, AfterMiss(q))

\* What a sidecar of size n means to q.  check_quarantine_until: a held entry
\* is refused before its object is opened.
AfterLoad(q, n) ==
    IF n = 0 THEN (IF pc[q] = "probe" THEN "absent" ELSE AfterMiss(q))
    ELSE IF hold THEN "failed" ELSE "open"

Loaded(J, n) ==
    /\ pc' = [f \in Requests |-> IF f \in J THEN AfterLoad(f, n) ELSE pc[f]]
    /\ card' = [f \in Requests |-> IF f \in J /\ AfterLoad(f, n) = "open" THEN n ELSE card[f]]
    /\ UNCHANGED <<at, tries, of, pos, got>>

\* load_cache_metadata: what is memoised, a miss included.
LoadMemo(q) ==
    /\ Loading(q) /\ lru[at[q]] # None
    /\ Loaded({q}, lru[at[q]])
    /\ UNCHANGED <<streamVars, fillVars, cacheVars, lock, hold, woken>>

\* try_get_with runs one load at a time for the key; this is its read.
LoadReads(q) ==
    /\ Loading(q) /\ lru[at[q]] = None /\ load[at[q]].by = None
    /\ load' = [load EXCEPT ![at[q]] = [by |-> q, saw |-> side]]
    /\ UNCHANGED <<reqVars, streamVars, fillVars, live, side, lru, lock, hold, woken>>

\* The load ends, for q and for all who asked meanwhile: which of those that
\* are about to load have asked shows only now.  What it read is memoised,
\* whatever was invalidated since; an error counts as a miss and is not.
LoadEnds(q) ==
    LET r == at[q] IN
    /\ load[r].by = q
    /\ load' = [load EXCEPT ![r] = NoLoad]
    /\ \E J \in SUBSET {f \in Requests : at[f] = r /\ Loading(f)} :
          /\ q \in J
          /\ \/ /\ Loaded(J, load[r].saw)
                /\ lru' = [lru EXCEPT ![r] = load[r].saw]
                /\ UNCHANGED woken
             \/ /\ "storage" \in Faults
                /\ Loaded(J, 0)
                /\ woken' = [f \in Requests |-> IF f \in J THEN "no" ELSE woken[f]]
                /\ UNCHANGED lru
    /\ UNCHANGED <<streamVars, fillVars, live, side, lock, hold>>

\* A load whose request is dropped is begun again by whoever asks for it.
AbandonLoad(q) == load' = [r \in Replicas |-> IF load[r].by = q THEN NoLoad ELSE load[r]]

\* The registry is looked at after the load, and a publish that ended in
\* between is not noticed.
AwaitPublish(q) ==
    /\ pc[q] = "absent"
    /\ \/ /\ TailPublish(at[q])
          /\ Goto(q, "tail")
          /\ of' = [of EXCEPT ![q] = registry[at[q]]]
       \/ ~TailPublish(at[q]) /\ Missed(q) /\ UNCHANGED of
    /\ UNCHANGED <<at, tries, pos, got, card, streamVars, fillVars, cacheVars, lock, hold, woken>>

AwaitEnds(q) ==
    /\ pc[q] = "tail"
    /\ wr[of[q]] = "done" \/ "timeout" \in Faults
    /\ Goto(q, "again")
    /\ of' = [of EXCEPT ![q] = None]
    /\ lru' = [lru EXCEPT ![at[q]] = None]
    /\ UNCHANGED <<at, tries, pos, got, card, streamVars, fillVars, live, side, load, lock, hold, woken>>

\* open_cached_stream.  The size check and the opening of the object are one
\* step: an object replaced in between ends in a response that is cut off.
CachedHit(q) ==
    /\ pc[q] = "open" /\ live = card[q]
    /\ Answer(q, live)
    /\ card' = [card EXCEPT ![q] = 0]
    /\ UNCHANGED <<at, tries, of, pos, streamVars, fillVars, cacheVars, lock, hold, woken>>

\* The object is gone under its sidecar.
CachedMissing(q) ==
    /\ pc[q] = "open" /\ live = 0
    /\ Missed(q)
    /\ card' = [card EXCEPT ![q] = 0]
    /\ UNCHANGED <<at, tries, of, pos, got, streamVars, fillVars, cacheVars, lock, hold, woken>>

\* evict_if_unpinned_body_disagrees: the object has another size; then it, the
\* sidecar and the memoised one are removed, whatever they are by then.
CachedDisagrees(q) ==
    /\ pc[q] = "open" /\ live \notin {0, card[q]}
    /\ Goto(q, "evict")
    /\ card' = [card EXCEPT ![q] = 0]
    /\ UNCHANGED <<at, tries, of, pos, got, streamVars, fillVars, cacheVars, lock, hold, woken>>

EvictObject(q) ==
    /\ pc[q] = "evict"
    /\ live' \in Deleted(live)
    /\ NobodyWoken
    /\ Goto(q, "unvouch")
    /\ UNCHANGED <<at, tries, of, pos, got, card, streamVars, fillVars, side, memoVars, lock, hold>>

EvictSidecar(q) ==
    /\ pc[q] = "unvouch"
    /\ side' \in Deleted(side)
    /\ NobodyWoken
    /\ Goto(q, "unmemo")
    /\ UNCHANGED <<at, tries, of, pos, got, card, streamVars, fillVars, live, memoVars, lock, hold>>

EvictMemo(q) ==
    /\ pc[q] = "unmemo"
    /\ lru' = [lru EXCEPT ![at[q]] = None]
    /\ Missed(q)
    /\ UNCHANGED <<at, tries, of, pos, got, card, streamVars, fillVars, live, side, load, lock, hold, woken>>

CachedError(q) ==
    /\ pc[q] = "open" /\ "storage" \in Faults
    /\ Goto(q, "failed")
    /\ card' = [card EXCEPT ![q] = 0]
    /\ UNCHANGED <<at, tries, of, pos, got, streamVars, fillVars, cacheVars, lock, hold, woken>>

\* Faulty variant: a late follower joins as well.
JoinableLate(l) == TRUE

\* acquire_stream_slot: nothing has been emitted yet.
Joinable(l) == pc[l] # "body"

ElectLead(q) ==
    /\ pc[q] = "elect" /\ slot[at[q]] = None
    /\ Goto(q, "leader")
    /\ slot' = [slot EXCEPT ![at[q]] = q]
    /\ UNCHANGED <<at, tries, of, pos, got, card, sent, term, fillVars, cacheVars, lock, hold, woken>>

ElectFollow(q) ==
    LET l == slot[at[q]] IN
    /\ pc[q] = "elect" /\ l # None
    /\ Goto(q, IF Joinable(l) THEN "follow" ELSE "behind")
    /\ of' = [of EXCEPT ![q] = l]
    /\ pos' = [pos EXCEPT ![q] = sent[l]]
    /\ UNCHANGED <<at, tries, got, card, streamVars, fillVars, cacheVars, lock, hold, woken>>

\* Faulty variant: the memoised miss stays.
ForgetNothing(r) == UNCHANGED lru

\* coordinate_stream returned Ok(None): forget_cached_sidecar_miss, once more.
ForgetMiss(r) == lru' = IF lru[r] = 0 THEN [lru EXCEPT ![r] = None] ELSE lru

Reenter(q) ==
    /\ pc[q] = "reenter"
    /\ Goto(q, "probe")
    /\ tries' = [tries EXCEPT ![q] = @ + 1]
    /\ of' = [of EXCEPT ![q] = None]
    /\ pos' = [pos EXCEPT ![q] = 0]
    /\ got' = [got EXCEPT ![q] = 0]
    /\ ForgetMiss(at[q])
    /\ UNCHANGED <<at, card, streamVars, fillVars, live, side, load, lock, hold, woken>>

----------------------------------------------------------------------------
(* open_as_cluster_leader *)

TryLock(q) ==
    /\ pc[q] = "leader"
    /\ \/ Advisory /\ lock = None /\ lock' = q /\ Goto(q, "fetch")
       \/ Advisory /\ lock # None /\ UNCHANGED lock /\ Goto(q, "lockWait")
       \/ (~Advisory \/ "lock" \in Faults) /\ UNCHANGED lock /\ Goto(q, "fetch")
    /\ UNCHANGED <<at, tries, of, pos, got, card, streamVars, fillVars, cacheVars, hold, woken>>

LockGranted(q) ==
    /\ pc[q] = "lockWait" /\ lock = None
    /\ lock' = q
    /\ Goto(q, "granted")
    /\ woken' = [woken EXCEPT ![q] = IF side = 0 \/ live # side THEN "no"
                                     ELSE IF load[at[q]].by = None THEN "clear" ELSE "loading"]
    /\ UNCHANGED <<at, tries, of, pos, got, card, streamVars, fillVars, cacheVars, hold>>

\* The wait times out or fails: a per-process leader without the lock.
LockExpires(q) ==
    /\ pc[q] = "lockWait" /\ "timeout" \in Faults
    /\ Goto(q, "fetch")
    /\ UNCHANGED <<at, tries, of, pos, got, card, streamVars, fillVars, cacheVars, lock, hold, woken>>

\* The grant means that the other leader has published: release, and all of
\* this process return to the cache.
ReElect(q) ==
    /\ pc[q] = "granted"
    /\ LeaderQuits(q, "reenter")
    /\ DropLease(q)
    /\ UNCHANGED <<at, tries, of, pos, got, card, sent, term, fillVars, cacheVars, hold, woken>>

----------------------------------------------------------------------------
(* open_streaming_leader and the leader's body *)

\* tee_stream registers the publish before it returns.
TeeOpens(q) ==
    /\ term' = [term EXCEPT ![q] = "open"]
    /\ wr' = [wr EXCEPT ![q] = "filling"]
    /\ registry' = [registry EXCEPT ![at[q]] = q]
    /\ UNCHANGED sent

\* hold_lease_until_published keeps the lease with the body.
Open(q) ==
    /\ pc[q] = "fetch" /\ ~hold
    /\ Goto(q, "lead")
    /\ TeeOpens(q)
    /\ leased' = [leased EXCEPT ![q] = lock = q]
    /\ UNCHANGED <<at, tries, of, pos, got, card, slot, cacheVars, lock, hold, woken>>

\* Over the quota: nothing is cached and nobody waits for it.
OpenUncached(q) ==
    /\ pc[q] = "fetch" /\ ~hold /\ "bypass" \in Faults
    /\ Goto(q, "lead")
    /\ term' = [term EXCEPT ![q] = "open"]
    /\ DropLease(q)
    /\ UNCHANGED <<at, tries, of, pos, got, card, slot, sent, fillVars, cacheVars, hold, woken>>

\* Cache-but-hold: the request is refused, which gives up the lock, while a
\* task of its own drains the body into the cache.
OpenHeld(q) ==
    /\ pc[q] = "fetch" /\ hold
    /\ LeaderQuits(q, "drain")
    /\ TeeOpens(q)
    /\ leased' = [leased EXCEPT ![q] = lock = q]
    /\ DropLease(q)
    /\ UNCHANGED <<at, tries, of, pos, got, card, cacheVars, hold, woken>>

\* Upstream refuses, or an object over the quota is on hold: no body at all.
OpenFails(q) ==
    /\ pc[q] = "fetch" /\ ("open" \in Faults \/ (hold /\ "bypass" \in Faults))
    /\ LeaderQuits(q, "failed")
    /\ DropLease(q)
    /\ UNCHANGED <<at, tries, of, pos, got, card, sent, term, fillVars, cacheVars, hold, woken>>

\* The first poll of the body flips under the registry's lock.
StartBody(q) ==
    /\ pc[q] = "lead"
    /\ Goto(q, "body")
    /\ UNCHANGED <<at, tries, of, pos, got, card, streamVars, fillVars, cacheVars, lock, hold, woken>>

Reading(q) == pc[q] \in {"body", "drain"}

\* A chunk goes to the writer, to the followers and to the client.
EmitChunk(q) ==
    /\ Reading(q) /\ sent[q] < Len
    /\ sent' = [sent EXCEPT ![q] = @ + 1]
    /\ UNCHANGED <<reqVars, slot, term, fillVars, cacheVars, lock, hold, woken>>

Eof(q) ==
    /\ Reading(q) /\ sent[q] = Len
    /\ StreamEnds(q, "done")
    /\ \/ pc[q] = "body" /\ Answer(q, Len)
       \/ pc[q] = "drain" /\ Goto(q, "failed") /\ UNCHANGED got
    /\ UNCHANGED <<at, tries, of, pos, card, sent, fillVars, cacheVars, lock, hold, woken>>

\* A client that has Content-Length bytes need not poll for the end.
ClientHasAll(q) ==
    /\ pc[q] = "body" /\ KnownLength /\ sent[q] = Len
    /\ StreamEnds(q, "closed")
    /\ Answer(q, Len)
    /\ UNCHANGED <<at, tries, of, pos, card, sent, fillVars, cacheVars, lock, hold, woken>>

UpstreamFails(q) ==
    /\ "upstream" \in Faults
    /\ Reading(q) /\ sent[q] < Len
    /\ StreamEnds(q, "failed")
    /\ Goto(q, "failed")
    /\ UNCHANGED <<at, tries, of, pos, got, card, sent, fillVars, cacheVars, lock, hold, woken>>

----------------------------------------------------------------------------
(* watch_leader_fanout *)

\* What the leader has broadcast: its chunks and, after the last, a marker.
Items(l) == sent[l] + (IF term[l] \in {"done", "failed"} THEN 1 ELSE 0)

\* The channel keeps the last Depth items.
Lags(q) == Items(of[q]) - pos[q] > Depth

HeadersSeen(q) ==
    /\ pc[q] = "follow" /\ term[of[q]] # "none"
    /\ Goto(q, "capture")
    /\ UNCHANGED <<at, tries, of, pos, got, card, streamVars, fillVars, cacheVars, lock, hold, woken>>

\* Chunks have no size here: any of them may be the one that exceeds
\* FANOUT_CAPTURE_MAX_BYTES and turns the capture into a wait.
TakeChunk(q) ==
    /\ pc[q] = "capture" /\ ~Lags(q) /\ pos[q] < sent[of[q]]
    /\ pos' = [pos EXCEPT ![q] = @ + 1]
    /\ got' = [got EXCEPT ![q] = @ + 1]
    /\ \E s \in {"capture", "behind"} : Goto(q, s)
    /\ UNCHANGED <<at, tries, of, card, streamVars, fillVars, cacheVars, lock, hold, woken>>

\* Only the marker of a complete body makes a capture a response.
TakeDone(q) ==
    /\ pc[q] = "capture" /\ ~Lags(q) /\ pos[q] = sent[of[q]] /\ term[of[q]] = "done"
    /\ Answer(q, got[q])
    /\ UNCHANGED <<at, tries, of, pos, card, streamVars, fillVars, cacheVars, lock, hold, woken>>

\* Lagged, Failed and Closed, and a wait that is over, end in a re-enter; so
\* does a leader that has sent nothing for FOLLOWER_STALL_TIMEOUT.
FollowEnds(q) ==
    /\ \/ pc[q] = "capture" /\ Lags(q)
       \/ pc[q] = "capture" /\ pos[q] = sent[of[q]] /\ term[of[q]] \in {"failed", "closed"}
       \/ pc[q] = "behind" /\ term[of[q]] # "open"
       \/ /\ pc[q] \in {"capture", "behind"} /\ "stall" \in Faults
          /\ term[of[q]] = "open" /\ (pc[q] = "behind" \/ pos[q] = sent[of[q]])
    /\ Goto(q, "reenter")
    /\ UNCHANGED <<at, tries, of, pos, got, card, streamVars, fillVars, cacheVars, lock, hold, woken>>

----------------------------------------------------------------------------
(* The cache writer of tee_stream *)

Rejected(q) == term[q] = "failed" \/ (term[q] \in {"done", "closed"} /\ ~Committable(sent[q]))

\* put_stream fails, or the body is short, empty or not the expected digest.
WriterRejects(q) ==
    /\ wr[q] = "filling" /\ (Rejected(q) \/ "storage" \in Faults)
    /\ WriterOver(q)
    /\ UNCHANGED <<reqVars, streamVars, cacheVars, lock, hold, woken>>

WriterCopies(q) ==
    /\ wr[q] = "filling" /\ term[q] \in {"done", "closed"} /\ Committable(sent[q])
    /\ \/ live' = sent[q] /\ UNCHANGED woken
       \/ "badcopy" \in Faults /\ live' = sent[q] - 1 /\ NobodyWoken
    /\ WriterTo(q, "copied")
    /\ UNCHANGED <<reqVars, streamVars, side, memoVars, lock, hold>>

\* An object that cannot be measured is taken to be what was staged.
WriterMeasures(q) ==
    /\ wr[q] = "copied" /\ (live \in {0, sent[q]} \/ "storage" \in Faults)
    /\ WriterTo(q, "measured")
    /\ UNCHANGED <<reqVars, streamVars, cacheVars, lock, hold, woken>>

\* discard_bad_publish, whoever wrote what is there now.
WriterDiscards(q) ==
    /\ wr[q] = "copied" /\ live \notin {0, sent[q]}
    /\ live' \in Deleted(live)
    /\ NobodyWoken
    /\ WriterOver(q)
    /\ UNCHANGED <<reqVars, streamVars, side, memoVars, lock, hold>>

WriterVouches(q) ==
    /\ wr[q] = "measured"
    /\ \/ side' = sent[q] /\ WriterTo(q, "written")
       \/ "storage" \in Faults /\ UNCHANGED side /\ WriterOver(q)
    /\ UNCHANGED <<reqVars, streamVars, live, memoVars, lock, hold, woken>>

\* The process's own memoised sidecar is dropped, the publish is over.
WriterEnds(q) ==
    /\ wr[q] = "written"
    /\ lru' = [lru EXCEPT ![at[q]] = None]
    /\ WriterOver(q)
    /\ UNCHANGED <<reqVars, streamVars, live, side, load, lock, hold, woken>>

\* Faulty variant: the lock goes with the client's body.
ReleaseAtEof(q) == pc[q] \in Final

\* Faulty variant: only a response that ended well gives the lock back.
ReleaseWhenServed(q) == pc[q] = "served" /\ wr[q] \notin Writing

\* release_after_publish; also the server ending the session of a dead process.
ReleaseDue(q) == pc[q] \in Final /\ (wr[q] \notin Writing \/ "hang" \in Faults)

ReleaseLock(q) ==
    /\ lock = q /\ ReleaseDue(q)
    /\ DropLease(q)
    /\ UNCHANGED <<reqVars, streamVars, fillVars, cacheVars, hold, woken>>

----------------------------------------------------------------------------
(* The environment. *)

\* A session that waits for the lock, or has it, outlives its process's end
\* of the connection for a while.
Abandoned(q) == IF pc[q] = "lockWait" THEN "ghost" ELSE "gone"

\* The client of a request that has no response yet disconnects: its future
\* is dropped, with the slot and the connection it holds.
Cancel(q) ==
    /\ "drop" \in Faults /\ pc[q] \in Waiting
    /\ LeaderQuits(q, Abandoned(q))
    /\ card' = [card EXCEPT ![q] = 0]
    /\ AbandonLoad(q)
    /\ UNCHANGED <<at, tries, of, pos, got, sent, term, fillVars, live, side, lru, lock, hold, woken>>

\* The server still grants the lock to a session whose client has gone, or
\* notices first.
GhostWait(q) ==
    /\ pc[q] = "ghost"
    /\ \/ lock = None /\ lock' = q
       \/ UNCHANGED lock
    /\ Goto(q, "gone")
    /\ UNCHANGED <<at, tries, of, pos, got, card, streamVars, fillVars, cacheVars, hold, woken>>

\* The client of a leader disconnects: the channel to the writer closes, the
\* lock stays with the publish.
ClientLeaves(q) ==
    /\ "drop" \in Faults /\ pc[q] \in {"lead", "body"}
    /\ StreamEnds(q, "closed")
    /\ Goto(q, "gone")
    /\ UNCHANGED <<at, tries, of, pos, got, card, sent, fillVars, cacheVars, lock, hold, woken>>

\* A replica dies and comes back; its sessions at the server end later.
Crash(r) ==
    LET dying == {q \in Requests : at[q] = r /\ pc[q] \notin Final \cup {"ghost"}}
        writing == {q \in Requests : at[q] = r /\ wr[q] \in Writing}
    IN
    /\ "crash" \in Faults /\ dying \cup writing # {}
    /\ pc' = [q \in Requests |-> IF q \in dying THEN Abandoned(q) ELSE pc[q]]
    /\ card' = [q \in Requests |-> IF q \in dying THEN 0 ELSE card[q]]
    /\ wr' = [q \in Requests |-> IF q \in writing THEN "done" ELSE wr[q]]
    /\ term' = [q \in Requests |-> IF q \in dying /\ term[q] = "open" THEN "closed" ELSE term[q]]
    /\ slot' = [slot EXCEPT ![r] = None]
    /\ registry' = [registry EXCEPT ![r] = None]
    /\ lru' = [lru EXCEPT ![r] = None] /\ load' = [load EXCEPT ![r] = NoLoad]
    /\ leased' = [q \in Requests |-> leased[q] /\ q \notin writing]
    /\ UNCHANGED <<at, tries, of, pos, got, sent, live, side, lock, hold, woken>>

\* The hold elapses, or an administrator releases the entry.
HoldEnds ==
    /\ hold /\ hold' = FALSE
    /\ UNCHANGED <<reqVars, streamVars, fillVars, cacheVars, lock, woken>>

\* PROXY_METADATA_LRU_TTL passes.
LruExpires(r) ==
    /\ lru[r] # None
    /\ lru' = [lru EXCEPT ![r] = None]
    /\ UNCHANGED <<reqVars, streamVars, fillVars, live, side, load, lock, hold, woken>>

----------------------------------------------------------------------------
\* What the server does for a request on its own, timeouts included.
RequestStep(q) ==
    \/ LoadMemo(q) \/ LoadReads(q) \/ LoadEnds(q) \/ AwaitPublish(q) \/ AwaitEnds(q)
    \/ CachedHit(q) \/ CachedMissing(q) \/ CachedError(q)
    \/ CachedDisagrees(q) \/ EvictObject(q) \/ EvictSidecar(q) \/ EvictMemo(q)
    \/ ElectLead(q) \/ ElectFollow(q) \/ Reenter(q)
    \/ TryLock(q) \/ LockGranted(q) \/ LockExpires(q) \/ ReElect(q)
    \/ Open(q) \/ OpenUncached(q) \/ OpenHeld(q) \/ OpenFails(q)
    \/ HeadersSeen(q) \/ TakeChunk(q) \/ TakeDone(q) \/ FollowEnds(q)

\* What happens only when a client reads, or the drain does.
BodyStep(q) ==
    StartBody(q) \/ EmitChunk(q) \/ Eof(q) \/ ClientHasAll(q) \/ UpstreamFails(q)

WriterStep(q) ==
    \/ WriterRejects(q) \/ WriterCopies(q) \/ WriterMeasures(q) \/ WriterDiscards(q)
    \/ WriterVouches(q) \/ WriterEnds(q)

\* What the database server does about the sessions of requests that ended.
SessionStep(q) == GhostWait(q) \/ ReleaseLock(q)

Next ==
    \/ \E q \in Requests :
           \/ RequestStep(q) \/ BodyStep(q) \/ WriterStep(q) \/ SessionStep(q)
           \/ Cancel(q) \/ ClientLeaves(q)
    \/ HoldEnds
    \/ \E r \in Replicas : Crash(r) \/ LruExpires(r)

Spec == Init /\ [][Next]_vars

\* Tasks and timers of the runtime run; a client need not read.
Fairness ==
    \A q \in Requests :
        /\ WF_vars(RequestStep(q) \/ (pc[q] = "drain" /\ BodyStep(q)))
        /\ WF_vars(WriterStep(q)) /\ WF_vars(SessionStep(q))

FairSpec == Spec /\ Fairness

----------------------------------------------------------------------------
(* Properties. *)

\* A response that ends well has the whole body, whether it came from
\* upstream, from the capture of another request's body or from the cache:
\* "a follower is NEVER handed a body with a hole".
WholeBody == \A q \in Requests : pc[q] = "served" => got[q] = Len

\* Two fills that were opened under the advisory lock are never under way at
\* the same time, on whatever replicas and however their clients went: the lock
\* passes on only when the sidecar is written or the fill is given up.  Not so for
\* a fill under a Package Age hold ("hold") and a publish that hangs ("hang").
LockedFillsApart ==
    \A p, q \in Requests :
        leased[p] /\ wr[p] \in Writing /\ leased[q] /\ wr[q] \in Writing => p = q

\* Where a request is when it has been sent upstream.
SentUpstream == {"elect", "leader", "lockWait", "fetch", "lead", "body", "drain"}

\* A request that the lock woke when the entry was in the cache, and no load of
\* its process was under way, is not sent upstream again while the entry
\* stays, whatever its process had memoised and whoever loads meanwhile.  A load
\* that was under way may hand it the miss that it has read ("loading").
WokenServed == \A q \in Requests : woken[q] = "clear" => pc[q] \notin SentUpstream

\* Nobody waits for ever for a leader, a publish or the lock, also when the
\* leader's client stops reading.
RequestAnswered == \A q \in Requests : pc[q] \in Waiting ~> pc[q] \notin Waiting

\* A lease whose request has ended, however it ended, frees the key.
LockFreed == \A q \in Requests : lock = q /\ pc[q] \in Final ~> lock # q

=============================================================================
