-------------------------- MODULE ProxyStreamProofs --------------------------
(***************************************************************************)
(* Proofs about ProxyStream, for any number of requests and replicas, any  *)
(* placement, any length of the body and any budget of re-enters.          *)
(***************************************************************************)
EXTENDS ProxyStream, TLAPS

\* Where a request counts on an attempt of its budget.
Coordinated == {"elect", "leader", "lockWait", "granted", "follow", "capture",
                "behind", "reenter"}

\* A request is in the coordinated part only while its budget lasts, and what
\* it waits for is a request.
Placed ==
    \A q \in Requests :
        /\ pc[q] \in Coordinated => tries[q] < Budget
        /\ pc[q] \in {"tail", "follow", "capture", "behind"} => of[q] \in Requests

\* A slot belongs to a leader of its own replica that has not ended.
SlotsHeld ==
    \A r \in Replicas :
        slot[r] # None =>
            /\ at[slot[r]] = r
            /\ pc[slot[r]] \in {"leader", "lockWait", "granted", "fetch", "lead", "body"}

\* Only a body that is read has sent anything.
SentByReaders ==
    \A q \in Requests : sent[q] # 0 => pc[q] \in {"body", "drain"} \cup Final

\* A request has captured nothing before it captures, and what it has then is
\* every chunk from the first to its position.
CaptureFromStart ==
    \A q \in Requests :
        /\ pc[q] \in {"probe", "again", "absent", "tail", "open", "evict", "unvouch",
                     "unmemo", "elect"} => got[q] = 0
        /\ pc[q] \in {"follow", "capture"} => got[q] = pos[q]

Course == Placed /\ SlotsHeld /\ SentByReaders /\ CaptureFromStart

Streams == TypeOK /\ Course

\* A short body is never committed as a whole one: its length is announced, or
\* no client disconnects.
Announced == KnownLength \/ "drop" \notin Faults

\* Every copy of the sidecar, in storage, memoised, read by a load or given to
\* a request, vouches for the whole body, as does every fill past the test of
\* its length.
SidecarsWhole ==
    /\ side \in {0, Len}
    /\ \A r \in Replicas : lru[r] \in {None, 0, Len} /\ load[r].saw \in {0, Len}
    /\ \A q \in Requests : card[q] \in {0, Len} /\ (pc[q] = "open" => card[q] = Len)

FillsWhole ==
    \A q \in Requests :
        /\ term[q] = "done" => sent[q] = Len
        /\ term[q] = "closed" /\ wr[q] = "filling" /\ ~KnownLength => sent[q] = Len
        /\ wr[q] \in {"copied", "measured", "written"} => sent[q] = Len

Whole == SidecarsWhole /\ FillsWhole /\ WholeBody

\* A fill opened under the lock is under way and has it.
LeaseKept ==
    \A q \in Requests :
        leased[q] => /\ lock = q
                     /\ wr[q] \in Writing
                     /\ pc[q] \in {"lead", "body"} \cup Final

\* While a request that was woken with the entry there, and no load under way,
\* is on its way to it, the entry stays, every load of its process has read it,
\* and no memoised miss stands between them.
EntryAwaits ==
    \A q \in Requests :
        woken[q] = "clear" =>
            /\ live = Len /\ side = Len
            /\ load[at[q]].by # None => load[at[q]].saw = Len
            /\ pc[q] \in {"granted", "reenter", "probe", "open"} \cup Final
            /\ pc[q] \in {"probe", "open"} => lru[at[q]] # 0

\* Flags stay Boolean when one of them is lowered or none.
LEMMA FlagLowered ==
  ASSUME NEW f \in [Requests -> BOOLEAN], NEW q \in Requests, NEW g,
         g = f \/ g = [f EXCEPT ![q] = FALSE]
  PROVE  g \in [Requests -> BOOLEAN]
OBVIOUS

\* A request that is not on its last attempt has re-enters left.
LEMMA BudgetLeft ==
  ASSUME TypeOK, NEW q \in Requests, tries[q] # Budget
  PROVE  tries[q] < Budget
<1>1. tries[q] \in 0..Budget /\ Budget \in Nat
  BY ConstantsAssumption DEF TypeOK
<1>2. QED
  BY <1>1

\* Every step keeps the type, given where requests may be.
LEMMA TypeStep ==
  ASSUME Streams, [Next]_vars
  PROVE  TypeOK'
<1> USE ConstantsAssumption DEF Streams, TypeOK, Waiting, Final, Writing,
           reqVars, streamVars, fillVars, memoVars, cacheVars
<1>1. ASSUME NEW q \in Requests, LoadMemo(q) PROVE TypeOK'
  BY <1>1 DEF LoadMemo, Loading, Loaded, AfterLoad, AfterMiss, Solo
<1>2. ASSUME NEW q \in Requests, LoadReads(q) PROVE TypeOK'
  BY <1>2 DEF LoadReads, Loading
<1>3. ASSUME NEW q \in Requests, LoadEnds(q) PROVE TypeOK'
  <2>1. PICK J \in SUBSET Requests, n \in 0..Len : Loaded(J, n)
    <3>1. load[at[q]].saw \in 0..Len /\ 0 \in 0..Len
      OBVIOUS
    <3>2. QED
      BY <1>3, <3>1 DEF LoadEnds
  <2>2. pc' \in [Requests -> {"lead", "body", "drain", "ghost"} \cup Waiting \cup Final]
    BY <2>1 DEF Loaded, AfterLoad, AfterMiss
  <2>3. card' \in [Requests -> 0..Len] /\ UNCHANGED <<at, tries, of, pos, got>>
    BY <2>1 DEF Loaded
  <2>4. lru' \in [Replicas -> 0..Len \cup {None}]
    BY <1>3 DEF LoadEnds
  <2>5. load' \in [Replicas -> [by : Requests \cup {None}, saw : 0..Len]]
    BY <1>3 DEF LoadEnds, NoLoad
  <2>6. woken' \in [Requests -> {"no", "clear", "loading"}]
    BY <1>3 DEF LoadEnds
  <2>7. UNCHANGED <<streamVars, fillVars, live, side, lock, hold>>
    BY <1>3 DEF LoadEnds
  <2>8. QED
    BY <2>2, <2>3, <2>4, <2>5, <2>6, <2>7
<1>4. ASSUME NEW q \in Requests, AwaitPublish(q) PROVE TypeOK'
  <2>1. \E s \in {"tail", "fetch", "elect"} : pc' = [pc EXCEPT ![q] = s]
    BY <1>4 DEF AwaitPublish, Missed, AfterMiss, Goto
  <2>2. of' = of \/ of' = [of EXCEPT ![q] = registry[at[q]]]
    BY <1>4, Zenon DEF AwaitPublish
  <2>3. UNCHANGED <<at, tries, pos, got, card, streamVars, fillVars, cacheVars, lock, hold, woken>>
    BY <1>4 DEF AwaitPublish
  <2>4. QED
    BY <2>1, <2>2, <2>3
<1>5. ASSUME NEW q \in Requests, AwaitEnds(q) PROVE TypeOK'
  BY <1>5 DEF AwaitEnds, Goto
<1>6. ASSUME NEW q \in Requests, CachedHit(q) PROVE TypeOK'
  BY <1>6 DEF CachedHit, Answer, Goto
<1>7. ASSUME NEW q \in Requests, CachedMissing(q) PROVE TypeOK'
  BY <1>7 DEF CachedMissing, Missed, Goto, AfterMiss, Solo
<1>8. ASSUME NEW q \in Requests, CachedDisagrees(q) PROVE TypeOK'
  BY <1>8 DEF CachedDisagrees, Goto
<1>9. ASSUME NEW q \in Requests, EvictObject(q) PROVE TypeOK'
  BY <1>9 DEF EvictObject, Goto, Deleted, NobodyWoken
<1>10. ASSUME NEW q \in Requests, EvictSidecar(q) PROVE TypeOK'
  BY <1>10 DEF EvictSidecar, Goto, Deleted, NobodyWoken
<1>11. ASSUME NEW q \in Requests, EvictMemo(q) PROVE TypeOK'
  BY <1>11 DEF EvictMemo, Missed, Goto, AfterMiss, Solo
<1>12. ASSUME NEW q \in Requests, CachedError(q) PROVE TypeOK'
  BY <1>12 DEF CachedError, Goto
<1>13. ASSUME NEW q \in Requests, ElectLead(q) PROVE TypeOK'
  BY <1>13 DEF ElectLead, Goto
<1>14. ASSUME NEW q \in Requests, ElectFollow(q) PROVE TypeOK'
  BY <1>14 DEF ElectFollow, Goto, Joinable
<1>15. ASSUME NEW q \in Requests, Reenter(q) PROVE TypeOK'
  BY <1>15 DEF Reenter, Goto, ForgetMiss, Course, Placed, Coordinated
<1>16. ASSUME NEW q \in Requests, TryLock(q) PROVE TypeOK'
  <2>1. lock' \in Requests \cup {None}
    BY <1>16 DEF TryLock
  <2>2. \E s \in {"fetch", "lockWait"} : pc' = [pc EXCEPT ![q] = s]
    BY <1>16 DEF TryLock, Goto
  <2>3. UNCHANGED <<at, tries, of, pos, got, card, streamVars, fillVars, cacheVars, hold, woken>>
    BY <1>16 DEF TryLock
  <2>4. QED
    BY <2>1, <2>2, <2>3
<1>17. ASSUME NEW q \in Requests, LockGranted(q) PROVE TypeOK'
  BY <1>17 DEF LockGranted, Goto
<1>18. ASSUME NEW q \in Requests, LockExpires(q) PROVE TypeOK'
  BY <1>18 DEF LockExpires, Goto
<1>19. ASSUME NEW q \in Requests, ReElect(q) PROVE TypeOK'
  BY <1>19 DEF ReElect, LeaderQuits, FreeSlot, DropLease
<1>20. ASSUME NEW q \in Requests, Open(q) PROVE TypeOK'
  BY <1>20 DEF Open, Goto, TeeOpens
<1>21. ASSUME NEW q \in Requests, OpenUncached(q) PROVE TypeOK'
  BY <1>21 DEF OpenUncached, Goto, DropLease
<1>22. ASSUME NEW q \in Requests, OpenHeld(q) PROVE TypeOK'
  BY <1>22 DEF OpenHeld, LeaderQuits, FreeSlot, TeeOpens, DropLease
<1>23. ASSUME NEW q \in Requests, OpenFails(q) PROVE TypeOK'
  BY <1>23 DEF OpenFails, LeaderQuits, FreeSlot, DropLease
<1>24. ASSUME NEW q \in Requests, HeadersSeen(q) PROVE TypeOK'
  BY <1>24 DEF HeadersSeen, Goto
<1>25. ASSUME NEW q \in Requests, TakeChunk(q) PROVE TypeOK'
  BY <1>25 DEF TakeChunk, Goto, Course, Placed, CaptureFromStart
<1>26. ASSUME NEW q \in Requests, TakeDone(q) PROVE TypeOK'
  BY <1>26 DEF TakeDone, Answer, Goto
<1>27. ASSUME NEW q \in Requests, FollowEnds(q) PROVE TypeOK'
  BY <1>27 DEF FollowEnds, Goto
<1>28. ASSUME NEW q \in Requests, StartBody(q) PROVE TypeOK'
  BY <1>28 DEF StartBody, Goto
<1>29. ASSUME NEW q \in Requests, EmitChunk(q) PROVE TypeOK'
  BY <1>29 DEF EmitChunk, Reading
<1>30. ASSUME NEW q \in Requests, Eof(q) PROVE TypeOK'
  <2>1. \E s \in {"served", "failed"} : pc' = [pc EXCEPT ![q] = s]
    BY <1>30 DEF Eof, Answer, Goto
  <2>2. got' = got \/ got' = [got EXCEPT ![q] = Len]
    BY <1>30 DEF Eof, Answer
  <2>3. StreamEnds(q, "done")
    BY <1>30 DEF Eof
  <2>4. UNCHANGED <<at, tries, of, pos, card, sent, fillVars, cacheVars, lock, hold, woken>>
    BY <1>30 DEF Eof
  <2>5. QED
    BY <2>1, <2>2, <2>3, <2>4 DEF StreamEnds, FreeSlot
<1>31. ASSUME NEW q \in Requests, ClientHasAll(q) PROVE TypeOK'
  BY <1>31 DEF ClientHasAll, StreamEnds, FreeSlot, Answer, Goto
<1>32. ASSUME NEW q \in Requests, UpstreamFails(q) PROVE TypeOK'
  BY <1>32 DEF UpstreamFails, Reading, StreamEnds, FreeSlot, Goto
<1>33. ASSUME NEW q \in Requests, WriterRejects(q) PROVE TypeOK'
  BY <1>33 DEF WriterRejects, WriterOver, Deregister
<1>34. ASSUME NEW q \in Requests, WriterCopies(q) PROVE TypeOK'
  <2>1. live' \in 0..Len
    <3>1. live' = sent[q] \/ live' = sent[q] - 1
      BY <1>34, Zenon DEF WriterCopies
    <3>2. sent[q] \in 1..Len
      BY <1>34 DEF WriterCopies, Committable
    <3>3. QED
      BY <3>1, <3>2
  <2>2. woken' \in [Requests -> {"no", "clear", "loading"}]
    BY <1>34 DEF WriterCopies, NobodyWoken
  <2>3. wr' = [wr EXCEPT ![q] = "copied"]
    BY <1>34 DEF WriterCopies, WriterTo
  <2>4. UNCHANGED <<reqVars, streamVars, registry, leased, side, memoVars, lock, hold>>
    BY <1>34 DEF WriterCopies, WriterTo
  <2>5. QED
    BY <2>1, <2>2, <2>3, <2>4
<1>35. ASSUME NEW q \in Requests, WriterMeasures(q) PROVE TypeOK'
  BY <1>35 DEF WriterMeasures, WriterTo
<1>36. ASSUME NEW q \in Requests, WriterDiscards(q) PROVE TypeOK'
  BY <1>36 DEF WriterDiscards, WriterOver, Deregister, Deleted, NobodyWoken
<1>37. ASSUME NEW q \in Requests, WriterVouches(q) PROVE TypeOK'
  <2>1. side' \in 0..Len /\ wr' \in [Requests -> {"none", "done"} \cup Writing]
    <3>1. side' = sent[q] \/ side' = side
      BY <1>37, Zenon DEF WriterVouches
    <3>2. wr' = [wr EXCEPT ![q] = "written"] \/ wr' = [wr EXCEPT ![q] = "done"]
      BY <1>37, Zenon DEF WriterVouches, WriterTo, WriterOver
    <3>3. QED
      BY <3>1, <3>2
  <2>2. registry' \in [Replicas -> Requests \cup {None}]
    BY <1>37 DEF WriterVouches, WriterTo, WriterOver, Deregister
  <2>3. leased' \in [Requests -> BOOLEAN]
    <3>1. leased' = leased \/ leased' = [leased EXCEPT ![q] = FALSE]
      BY <1>37, Zenon DEF WriterVouches, WriterTo, WriterOver
    <3>2. leased \in [Requests -> BOOLEAN]
      OBVIOUS
    <3>3. QED
      BY <3>1, <3>2, FlagLowered, Zenon
  <2>4. UNCHANGED <<reqVars, streamVars, live, memoVars, lock, hold, woken>>
    BY <1>37 DEF WriterVouches
  <2>5. QED
    BY <2>1, <2>2, <2>3, <2>4
<1>38. ASSUME NEW q \in Requests, WriterEnds(q) PROVE TypeOK'
  BY <1>38 DEF WriterEnds, WriterOver, Deregister
<1>39. ASSUME NEW q \in Requests, GhostWait(q) PROVE TypeOK'
  BY <1>39 DEF GhostWait, Goto
<1>40. ASSUME NEW q \in Requests, ReleaseLock(q) PROVE TypeOK'
  BY <1>40 DEF ReleaseLock, DropLease
<1>41. ASSUME NEW q \in Requests, Cancel(q) PROVE TypeOK'
  BY <1>41 DEF Cancel, LeaderQuits, FreeSlot, Abandoned, AbandonLoad, NoLoad
<1>42. ASSUME NEW q \in Requests, ClientLeaves(q) PROVE TypeOK'
  BY <1>42 DEF ClientLeaves, StreamEnds, FreeSlot, Goto
<1>43. CASE HoldEnds
  BY <1>43 DEF HoldEnds
<1>44. ASSUME NEW r \in Replicas, Crash(r) PROVE TypeOK'
  BY <1>44 DEF Crash, Abandoned, NoLoad
<1>45. ASSUME NEW r \in Replicas, LruExpires(r) PROVE TypeOK'
  BY <1>45 DEF LruExpires
<1>46. CASE UNCHANGED vars
  BY <1>46 DEF vars
<1>47. QED
  BY <1>1, <1>2, <1>3, <1>4, <1>5, <1>6, <1>7, <1>8, <1>9, <1>10, <1>11,
     <1>12, <1>13, <1>14, <1>15, <1>16, <1>17, <1>18, <1>19, <1>20, <1>21,
     <1>22, <1>23, <1>24, <1>25, <1>26, <1>27, <1>28, <1>29, <1>30, <1>31,
     <1>32, <1>33, <1>34, <1>35, <1>36, <1>37, <1>38, <1>39, <1>40, <1>41,
     <1>42, <1>43, <1>44, <1>45, <1>46
     DEF Next, RequestStep, BodyStep, WriterStep, SessionStep

\* A request that has not been elected moves on, and takes nothing with it.
LEMMA MovedOn ==
  ASSUME Streams, NEW q \in Requests,
         pc[q] \in {"probe", "again", "absent", "open", "unmemo"},
         NEW s \in {"absent", "fetch", "elect", "failed", "open"},
         pc' = [pc EXCEPT ![q] = s], s = "elect" => tries[q] < Budget,
         UNCHANGED <<at, tries, of, pos, got, streamVars>>
  PROVE  Course'
<1> USE ConstantsAssumption DEF Streams, Course, TypeOK, Placed, SlotsHeld, SentByReaders,
           CaptureFromStart, Final, Coordinated, streamVars
<1>1. Placed'
  <2>1. /\ pc'[q] \in Coordinated => tries'[q] < Budget
        /\ pc'[q] \notin {"tail", "follow", "capture", "behind"}
    OBVIOUS
  <2>2. \A p \in Requests : p # q => pc'[p] = pc[p] /\ tries'[p] = tries[p] /\ of'[p] = of[p]
    OBVIOUS
  <2>3. QED
    BY <2>1, <2>2
<1>2. SlotsHeld'
  OBVIOUS
<1>3. SentByReaders' /\ CaptureFromStart'
  OBVIOUS
<1>4. QED
  BY <1>1, <1>2, <1>3 DEF Course

\* Every step keeps requests, slots, streams and captures where they may be.
LEMMA StreamsStep ==
  ASSUME Streams, TypeOK', [Next]_vars
  PROVE  Course'
<1> USE ConstantsAssumption DEF Streams, Course, TypeOK, Placed, SlotsHeld, SentByReaders,
           CaptureFromStart, Waiting, Final, Writing, Coordinated,
           reqVars, streamVars, fillVars, memoVars, cacheVars
<1>1. ASSUME NEW q \in Requests, LoadMemo(q) PROVE Course'
  <2>1. PICK s \in {"absent", "fetch", "elect", "failed", "open"} :
                pc' = [pc EXCEPT ![q] = s] /\ (s = "elect" => tries[q] < Budget)
    <3>1. tries[q] # Budget => tries[q] < Budget
      BY BudgetLeft
    <3>2. pc' = [pc EXCEPT ![q] = AfterLoad(q, lru[at[q]])]
      BY <1>1 DEF LoadMemo, Loaded
    <3>3. QED
      BY <3>1, <3>2 DEF AfterLoad, AfterMiss, Solo
  <2>2. UNCHANGED <<at, tries, of, pos, got, streamVars>>
    BY <1>1 DEF LoadMemo, Loaded
  <2>3. pc[q] \in {"probe", "again"}
    BY <1>1 DEF LoadMemo, Loading
  <2>4. QED
    BY <2>1, <2>2, <2>3, MovedOn
<1>2. ASSUME NEW q \in Requests, LoadReads(q) PROVE Course'
  BY <1>2 DEF LoadReads, Loading
<1>3. ASSUME NEW q \in Requests, LoadEnds(q) PROVE Course'
  <2>1. PICK J \in SUBSET {f \in Requests : at[f] = at[q] /\ Loading(f)}, n \in 0..Len : Loaded(J, n)
    <3>1. load[at[q]].saw \in 0..Len /\ 0 \in 0..Len
      OBVIOUS
    <3>2. QED
      BY <1>3, <3>1 DEF LoadEnds
  <2>2. UNCHANGED <<at, tries, of, pos, got, streamVars>>
    BY <1>3, <2>1 DEF LoadEnds, Loaded
  <2>3. \A f \in Requests : f \notin J => pc'[f] = pc[f]
    BY <2>1 DEF Loaded
  <2>4. ASSUME NEW f \in J
        PROVE  /\ pc[f] \in {"probe", "again"}
               /\ pc'[f] \in {"absent", "fetch", "elect", "failed", "open"}
               /\ pc'[f] = "elect" => tries[f] < Budget
    <3>1. tries[f] # Budget => tries[f] < Budget
      BY BudgetLeft
    <3>2. pc'[f] = AfterLoad(f, n)
      BY <2>1 DEF Loaded
    <3>3. QED
      BY <2>1, <3>1, <3>2 DEF AfterLoad, AfterMiss, Solo, Loading
  <2>5. Placed'
    BY <2>1, <2>2, <2>3, <2>4
  <2>6. SlotsHeld'
    <3>1. ASSUME NEW r \in Replicas, slot[r] # None PROVE slot[r] \in Requests \ J
      <4>1. slot[r] \in Requests
        BY <3>1
      <4>2. pc[slot[r]] \in {"leader", "lockWait", "granted", "fetch", "lead", "body"}
        BY <3>1
      <4>3. QED
        BY <2>4, <4>1, <4>2
    <3>2. QED
      BY <2>2, <2>3, <3>1
  <2>7. SentByReaders' /\ CaptureFromStart'
    BY <2>2, <2>3, <2>4
  <2>8. QED
    BY <2>5, <2>6, <2>7 DEF Course
<1>4. ASSUME NEW q \in Requests, AwaitPublish(q) PROVE Course'
  <2>1. CASE TailPublish(at[q]) /\ Goto(q, "tail") /\ of' = [of EXCEPT ![q] = registry[at[q]]]
    BY <1>4, <2>1 DEF AwaitPublish, TailPublish, Goto
  <2>2. CASE Missed(q) /\ UNCHANGED of
    <3>1. PICK s \in {"fetch", "elect"} :
                  pc' = [pc EXCEPT ![q] = s] /\ (s = "elect" => tries[q] < Budget)
      <4>1. tries[q] # Budget => tries[q] < Budget
        BY BudgetLeft
      <4>2. QED
        BY <2>2, <4>1 DEF Missed, AfterMiss, Solo, Goto
    <3>2. UNCHANGED <<at, tries, of, pos, got, streamVars>>
      BY <1>4, <2>2 DEF AwaitPublish
    <3>3. pc[q] = "absent"
      BY <1>4 DEF AwaitPublish
    <3>4. QED
      BY <3>1, <3>2, <3>3, MovedOn
  <2>3. QED
    BY <1>4, <2>1, <2>2 DEF AwaitPublish
<1>5. ASSUME NEW q \in Requests, AwaitEnds(q) PROVE Course'
  BY <1>5 DEF AwaitEnds, Goto
<1>6. ASSUME NEW q \in Requests, CachedHit(q) PROVE Course'
  BY <1>6 DEF CachedHit, Answer, Goto
<1>7. ASSUME NEW q \in Requests, CachedMissing(q) PROVE Course'
  <2>1. PICK s \in {"fetch", "elect"} :
                pc' = [pc EXCEPT ![q] = s] /\ (s = "elect" => tries[q] < Budget)
    <3>1. tries[q] # Budget => tries[q] < Budget
      BY BudgetLeft
    <3>2. QED
      BY <1>7, <3>1 DEF CachedMissing, Missed, AfterMiss, Solo, Goto
  <2>2. UNCHANGED <<at, tries, of, pos, got, streamVars>>
    BY <1>7 DEF CachedMissing
  <2>3. pc[q] = "open"
    BY <1>7 DEF CachedMissing
  <2>4. QED
    BY <2>1, <2>2, <2>3, MovedOn
<1>8. ASSUME NEW q \in Requests, CachedDisagrees(q) PROVE Course'
  BY <1>8 DEF CachedDisagrees, Goto
<1>9. ASSUME NEW q \in Requests, EvictObject(q) PROVE Course'
  BY <1>9 DEF EvictObject, Goto, Deleted, NobodyWoken
<1>10. ASSUME NEW q \in Requests, EvictSidecar(q) PROVE Course'
  BY <1>10 DEF EvictSidecar, Goto, Deleted, NobodyWoken
<1>11. ASSUME NEW q \in Requests, EvictMemo(q) PROVE Course'
  <2>1. PICK s \in {"fetch", "elect"} :
                pc' = [pc EXCEPT ![q] = s] /\ (s = "elect" => tries[q] < Budget)
    <3>1. tries[q] # Budget => tries[q] < Budget
      BY BudgetLeft
    <3>2. QED
      BY <1>11, <3>1 DEF EvictMemo, Missed, AfterMiss, Solo, Goto
  <2>2. UNCHANGED <<at, tries, of, pos, got, streamVars>>
    BY <1>11 DEF EvictMemo
  <2>3. pc[q] = "unmemo"
    BY <1>11 DEF EvictMemo
  <2>4. QED
    BY <2>1, <2>2, <2>3, MovedOn
<1>12. ASSUME NEW q \in Requests, CachedError(q) PROVE Course'
  BY <1>12 DEF CachedError, Goto
<1>13. ASSUME NEW q \in Requests, ElectLead(q) PROVE Course'
  BY <1>13 DEF ElectLead, Goto
<1>14. ASSUME NEW q \in Requests, ElectFollow(q) PROVE Course'
  <2>1. slot[at[q]] \in Requests /\ pc[q] = "elect"
    BY <1>14 DEF ElectFollow
  <2>2. PICK s \in {"follow", "behind"} :
                pc' = [pc EXCEPT ![q] = s] /\ (s = "follow" => pc[slot[at[q]]] # "body")
    BY <1>14 DEF ElectFollow, Goto, Joinable
  <2>3. /\ of' = [of EXCEPT ![q] = slot[at[q]]]
        /\ pos' = [pos EXCEPT ![q] = sent[slot[at[q]]]]
        /\ UNCHANGED <<at, tries, got, streamVars>>
    BY <1>14 DEF ElectFollow
  <2>4. Placed'
    BY <2>1, <2>2, <2>3
  <2>5. SlotsHeld' /\ SentByReaders'
    BY <2>1, <2>2, <2>3
  <2>6. s = "follow" => sent[slot[at[q]]] = 0
    <3>1. at[q] \in Replicas /\ slot[at[q]] # None
      BY <2>1
    <3>2. pc[slot[at[q]]] \in {"leader", "lockWait", "granted", "fetch", "lead", "body"}
      BY <3>1
    <3>3. QED
      BY <2>1, <2>2, <3>2
  <2>7. CaptureFromStart'
    BY <2>1, <2>2, <2>3, <2>6
  <2>8. QED
    BY <2>4, <2>5, <2>7 DEF Course
<1>15. ASSUME NEW q \in Requests, Reenter(q) PROVE Course'
  BY <1>15 DEF Reenter, Goto, ForgetMiss
<1>16. ASSUME NEW q \in Requests, TryLock(q) PROVE Course'
  <2>1. PICK s \in {"fetch", "lockWait"} : pc' = [pc EXCEPT ![q] = s]
    BY <1>16 DEF TryLock, Goto
  <2>2. pc[q] = "leader" /\ UNCHANGED <<at, tries, of, pos, got, streamVars>>
    BY <1>16 DEF TryLock
  <2>3. QED
    BY <2>1, <2>2
<1>17. ASSUME NEW q \in Requests, LockGranted(q) PROVE Course'
  BY <1>17 DEF LockGranted, Goto
<1>18. ASSUME NEW q \in Requests, LockExpires(q) PROVE Course'
  BY <1>18 DEF LockExpires, Goto
<1>19. ASSUME NEW q \in Requests, ReElect(q) PROVE Course'
  BY <1>19 DEF ReElect, LeaderQuits, FreeSlot, DropLease
<1>20. ASSUME NEW q \in Requests, Open(q) PROVE Course'
  BY <1>20 DEF Open, Goto, TeeOpens
<1>21. ASSUME NEW q \in Requests, OpenUncached(q) PROVE Course'
  BY <1>21 DEF OpenUncached, Goto, DropLease
<1>22. ASSUME NEW q \in Requests, OpenHeld(q) PROVE Course'
  BY <1>22 DEF OpenHeld, LeaderQuits, FreeSlot, TeeOpens, DropLease
<1>23. ASSUME NEW q \in Requests, OpenFails(q) PROVE Course'
  BY <1>23 DEF OpenFails, LeaderQuits, FreeSlot, DropLease
<1>24. ASSUME NEW q \in Requests, HeadersSeen(q) PROVE Course'
  BY <1>24 DEF HeadersSeen, Goto
<1>25. ASSUME NEW q \in Requests, TakeChunk(q) PROVE Course'
  <2>1. PICK s \in {"capture", "behind"} : pc' = [pc EXCEPT ![q] = s]
    BY <1>25 DEF TakeChunk, Goto
  <2>2. /\ pc[q] = "capture"
        /\ pos' = [pos EXCEPT ![q] = @ + 1] /\ got' = [got EXCEPT ![q] = @ + 1]
        /\ UNCHANGED <<at, tries, of, streamVars>>
    BY <1>25 DEF TakeChunk
  <2>3. Placed' /\ SlotsHeld' /\ SentByReaders'
    BY <2>1, <2>2
  <2>4. CaptureFromStart'
    BY <2>1, <2>2
  <2>5. QED
    BY <2>3, <2>4 DEF Course
<1>26. ASSUME NEW q \in Requests, TakeDone(q) PROVE Course'
  BY <1>26 DEF TakeDone, Answer, Goto
<1>27. ASSUME NEW q \in Requests, FollowEnds(q) PROVE Course'
  BY <1>27 DEF FollowEnds, Goto
<1>28. ASSUME NEW q \in Requests, StartBody(q) PROVE Course'
  BY <1>28 DEF StartBody, Goto
<1>29. ASSUME NEW q \in Requests, EmitChunk(q) PROVE Course'
  BY <1>29 DEF EmitChunk, Reading
<1>30. ASSUME NEW q \in Requests, Eof(q) PROVE Course'
  <2>1. FreeSlot(q) /\ UNCHANGED <<at, tries, of, pos, card, sent>>
    BY <1>30 DEF Eof, StreamEnds
  <2>2. CASE pc[q] = "body" /\ Answer(q, Len)
    BY <2>1, <2>2 DEF FreeSlot, Answer, Goto
  <2>3. CASE pc[q] = "drain" /\ Goto(q, "failed") /\ UNCHANGED got
    BY <2>1, <2>3 DEF FreeSlot, Goto
  <2>4. QED
    BY <1>30, <2>2, <2>3 DEF Eof
<1>31. ASSUME NEW q \in Requests, ClientHasAll(q) PROVE Course'
  BY <1>31 DEF ClientHasAll, StreamEnds, FreeSlot, Answer, Goto
<1>32. ASSUME NEW q \in Requests, UpstreamFails(q) PROVE Course'
  BY <1>32 DEF UpstreamFails, Reading, StreamEnds, FreeSlot, Goto
<1>33. ASSUME NEW q \in Requests, WriterRejects(q) PROVE Course'
  BY <1>33 DEF WriterRejects, WriterOver, Deregister
<1>34. ASSUME NEW q \in Requests, WriterCopies(q) PROVE Course'
  BY <1>34 DEF WriterCopies, WriterTo, Committable, NobodyWoken
<1>35. ASSUME NEW q \in Requests, WriterMeasures(q) PROVE Course'
  BY <1>35 DEF WriterMeasures, WriterTo
<1>36. ASSUME NEW q \in Requests, WriterDiscards(q) PROVE Course'
  BY <1>36 DEF WriterDiscards, WriterOver, Deregister, Deleted, NobodyWoken
<1>37. ASSUME NEW q \in Requests, WriterVouches(q) PROVE Course'
  BY <1>37 DEF WriterVouches, WriterTo, WriterOver, Deregister
<1>38. ASSUME NEW q \in Requests, WriterEnds(q) PROVE Course'
  BY <1>38 DEF WriterEnds, WriterOver, Deregister
<1>39. ASSUME NEW q \in Requests, GhostWait(q) PROVE Course'
  BY <1>39 DEF GhostWait, Goto
<1>40. ASSUME NEW q \in Requests, ReleaseLock(q) PROVE Course'
  BY <1>40 DEF ReleaseLock, DropLease
<1>41. ASSUME NEW q \in Requests, Cancel(q) PROVE Course'
  BY <1>41 DEF Cancel, LeaderQuits, FreeSlot, Abandoned, AbandonLoad, NoLoad
<1>42. ASSUME NEW q \in Requests, ClientLeaves(q) PROVE Course'
  BY <1>42 DEF ClientLeaves, StreamEnds, FreeSlot, Goto
<1>43. CASE HoldEnds
  BY <1>43 DEF HoldEnds
<1>44. ASSUME NEW r \in Replicas, Crash(r) PROVE Course'
  BY <1>44 DEF Crash, Abandoned, NoLoad
<1>45. ASSUME NEW r \in Replicas, LruExpires(r) PROVE Course'
  BY <1>45 DEF LruExpires
<1>46. CASE UNCHANGED vars
  BY <1>46 DEF vars
<1>47. QED
  BY <1>1, <1>2, <1>3, <1>4, <1>5, <1>6, <1>7, <1>8, <1>9, <1>10, <1>11,
     <1>12, <1>13, <1>14, <1>15, <1>16, <1>17, <1>18, <1>19, <1>20, <1>21,
     <1>22, <1>23, <1>24, <1>25, <1>26, <1>27, <1>28, <1>29, <1>30, <1>31,
     <1>32, <1>33, <1>34, <1>35, <1>36, <1>37, <1>38, <1>39, <1>40, <1>41,
     <1>42, <1>43, <1>44, <1>45, <1>46
     DEF Next, RequestStep, BodyStep, WriterStep, SessionStep

\* The type, where requests may be, and what slots, streams and captures hold.
LEMMA StreamsHold == Spec => []Streams
<1>1. ASSUME Init PROVE Streams
  <2>1. hold \in BOOLEAN /\ at \in [Requests -> Replicas]
    BY <1>1, ConstantsAssumption DEF Init
  <2>2. leased \in [Requests -> BOOLEAN]
    <3>1. leased = [q \in Requests |-> FALSE]
      BY <1>1, Zenon DEF Init
    <3>2. QED
      BY <3>1, Zenon
  <2>3. pc \in [Requests -> {"lead", "body", "drain", "ghost"} \cup Waiting \cup Final]
    BY <1>1 DEF Init, Waiting
  <2>4. /\ term \in [Requests -> {"none", "open", "done", "failed", "closed"}]
        /\ wr \in [Requests -> {"none", "done"} \cup Writing]
    BY <1>1 DEF Init
  <2>5. TypeOK
    BY <1>1, <2>1, <2>2, <2>3, <2>4, ConstantsAssumption DEF Init, TypeOK, NoLoad
  <2>6. Placed /\ SlotsHeld /\ SentByReaders /\ CaptureFromStart
    BY <1>1, ConstantsAssumption DEF Init, Placed, SlotsHeld, SentByReaders,
       CaptureFromStart, Coordinated
  <2>7. QED
    BY <2>5, <2>6 DEF Streams, Course
<1>2. Streams /\ [Next]_vars => Streams'
  BY TypeStep, StreamsStep DEF Streams
<1>3. QED
  BY <1>1, <1>2, PTL DEF Spec

\* Whatever a leader emits, a follower captures and a writer publishes, every
\* variable keeps its type.  The type alone is not inductive: a capture stays
\* within the body because it starts with the first chunk (acquire_stream_slot
\* lets no one join a body that has started), and the re-enters stay within
\* STREAM_REENTER_BUDGET because the last attempt is not coordinated.
THEOREM TypesHold == Spec => []TypeOK
<1>1. Streams => TypeOK
  BY DEF Streams
<1>2. QED
  BY <1>1, StreamsHold, PTL

----------------------------------------------------------------------------
(* The advisory lock. *)

\* Every step keeps the lock with the fills that were opened under it.
LEMMA LeaseStep ==
  ASSUME TypeOK, "hang" \notin Faults, ~hold, LeaseKept, [Next]_vars
  PROVE  LeaseKept'
<1> USE ConstantsAssumption DEF TypeOK, LeaseKept, Waiting, Final, Writing,
           reqVars, streamVars, fillVars, memoVars, cacheVars
<1>1. ASSUME NEW q \in Requests, LoadMemo(q) PROVE LeaseKept'
  BY <1>1 DEF LoadMemo, Loading, Loaded, AfterLoad, AfterMiss, Solo
<1>2. ASSUME NEW q \in Requests, LoadReads(q) PROVE LeaseKept'
  BY <1>2 DEF LoadReads, Loading
<1>3. ASSUME NEW q \in Requests, LoadEnds(q) PROVE LeaseKept'
  <2>1. PICK J \in SUBSET {f \in Requests : at[f] = at[q] /\ Loading(f)} :
                \A f \in Requests \ J : pc'[f] = pc[f]
    <3>1. PICK J \in SUBSET {f \in Requests : at[f] = at[q] /\ Loading(f)} :
                  \E n : Loaded(J, n)
      BY <1>3, Zenon DEF LoadEnds
    <3>2. PICK n : Loaded(J, n)
      BY <3>1, Zenon
    <3>3. QED
      BY <3>2 DEF Loaded
  <2>2. UNCHANGED <<fillVars, lock>>
    BY <1>3 DEF LoadEnds
  <2>3. QED
    BY <2>1, <2>2 DEF Loading
<1>4. ASSUME NEW q \in Requests, AwaitPublish(q) PROVE LeaseKept'
  <2>1. pc[q] = "absent" /\ \A p \in Requests : p # q => pc'[p] = pc[p]
    BY <1>4 DEF AwaitPublish, Missed, Goto
  <2>2. UNCHANGED <<fillVars, lock>>
    BY <1>4 DEF AwaitPublish
  <2>3. QED
    BY <2>1, <2>2
<1>5. ASSUME NEW q \in Requests, AwaitEnds(q) PROVE LeaseKept'
  BY <1>5 DEF AwaitEnds, Goto
<1>6. ASSUME NEW q \in Requests, CachedHit(q) PROVE LeaseKept'
  BY <1>6 DEF CachedHit, Answer, Goto
<1>7. ASSUME NEW q \in Requests, CachedMissing(q) PROVE LeaseKept'
  BY <1>7 DEF CachedMissing, Missed, Goto, AfterMiss, Solo
<1>8. ASSUME NEW q \in Requests, CachedDisagrees(q) PROVE LeaseKept'
  BY <1>8 DEF CachedDisagrees, Goto
<1>9. ASSUME NEW q \in Requests, EvictObject(q) PROVE LeaseKept'
  BY <1>9 DEF EvictObject, Goto, Deleted, NobodyWoken
<1>10. ASSUME NEW q \in Requests, EvictSidecar(q) PROVE LeaseKept'
  BY <1>10 DEF EvictSidecar, Goto, Deleted, NobodyWoken
<1>11. ASSUME NEW q \in Requests, EvictMemo(q) PROVE LeaseKept'
  BY <1>11 DEF EvictMemo, Missed, Goto, AfterMiss, Solo
<1>12. ASSUME NEW q \in Requests, CachedError(q) PROVE LeaseKept'
  BY <1>12 DEF CachedError, Goto
<1>13. ASSUME NEW q \in Requests, ElectLead(q) PROVE LeaseKept'
  BY <1>13 DEF ElectLead, Goto
<1>14. ASSUME NEW q \in Requests, ElectFollow(q) PROVE LeaseKept'
  BY <1>14 DEF ElectFollow, Goto, Joinable
<1>15. ASSUME NEW q \in Requests, Reenter(q) PROVE LeaseKept'
  BY <1>15 DEF Reenter, Goto, ForgetMiss
<1>16. ASSUME NEW q \in Requests, TryLock(q) PROVE LeaseKept'
  BY <1>16 DEF TryLock, Goto
<1>17. ASSUME NEW q \in Requests, LockGranted(q) PROVE LeaseKept'
  BY <1>17 DEF LockGranted, Goto
<1>18. ASSUME NEW q \in Requests, LockExpires(q) PROVE LeaseKept'
  BY <1>18 DEF LockExpires, Goto
<1>19. ASSUME NEW q \in Requests, ReElect(q) PROVE LeaseKept'
  BY <1>19 DEF ReElect, LeaderQuits, FreeSlot, DropLease
<1>20. ASSUME NEW q \in Requests, Open(q) PROVE LeaseKept'
  BY <1>20 DEF Open, Goto, TeeOpens
<1>21. ASSUME NEW q \in Requests, OpenUncached(q) PROVE LeaseKept'
  BY <1>21 DEF OpenUncached, Goto, DropLease
<1>22. ASSUME NEW q \in Requests, OpenHeld(q) PROVE LeaseKept'
  BY <1>22 DEF OpenHeld, LeaderQuits, FreeSlot, TeeOpens, DropLease
<1>23. ASSUME NEW q \in Requests, OpenFails(q) PROVE LeaseKept'
  BY <1>23 DEF OpenFails, LeaderQuits, FreeSlot, DropLease
<1>24. ASSUME NEW q \in Requests, HeadersSeen(q) PROVE LeaseKept'
  BY <1>24 DEF HeadersSeen, Goto
<1>25. ASSUME NEW q \in Requests, TakeChunk(q) PROVE LeaseKept'
  BY <1>25 DEF TakeChunk, Goto
<1>26. ASSUME NEW q \in Requests, TakeDone(q) PROVE LeaseKept'
  BY <1>26 DEF TakeDone, Answer, Goto
<1>27. ASSUME NEW q \in Requests, FollowEnds(q) PROVE LeaseKept'
  BY <1>27 DEF FollowEnds, Goto
<1>28. ASSUME NEW q \in Requests, StartBody(q) PROVE LeaseKept'
  BY <1>28 DEF StartBody, Goto
<1>29. ASSUME NEW q \in Requests, EmitChunk(q) PROVE LeaseKept'
  BY <1>29 DEF EmitChunk, Reading
<1>30. ASSUME NEW q \in Requests, Eof(q) PROVE LeaseKept'
  <2>1. \E s \in {"served", "failed"} : pc' = [pc EXCEPT ![q] = s]
    BY <1>30 DEF Eof, Answer, Goto
  <2>2. UNCHANGED <<fillVars, lock>>
    BY <1>30 DEF Eof
  <2>3. QED
    BY <2>1, <2>2
<1>31. ASSUME NEW q \in Requests, ClientHasAll(q) PROVE LeaseKept'
  BY <1>31 DEF ClientHasAll, StreamEnds, FreeSlot, Answer, Goto
<1>32. ASSUME NEW q \in Requests, UpstreamFails(q) PROVE LeaseKept'
  BY <1>32 DEF UpstreamFails, Reading, StreamEnds, FreeSlot, Goto
<1>33. ASSUME NEW q \in Requests, WriterRejects(q) PROVE LeaseKept'
  BY <1>33 DEF WriterRejects, WriterOver, Deregister
<1>34. ASSUME NEW q \in Requests, WriterCopies(q) PROVE LeaseKept'
  BY <1>34 DEF WriterCopies, WriterTo, Committable, NobodyWoken
<1>35. ASSUME NEW q \in Requests, WriterMeasures(q) PROVE LeaseKept'
  BY <1>35 DEF WriterMeasures, WriterTo
<1>36. ASSUME NEW q \in Requests, WriterDiscards(q) PROVE LeaseKept'
  BY <1>36 DEF WriterDiscards, WriterOver, Deregister, Deleted, NobodyWoken
<1>37. ASSUME NEW q \in Requests, WriterVouches(q) PROVE LeaseKept'
  <2>1. UNCHANGED <<pc, lock>>
    BY <1>37 DEF WriterVouches
  <2>2. CASE WriterTo(q, "written")
    BY <2>1, <2>2 DEF WriterTo
  <2>3. CASE WriterOver(q)
    BY <2>1, <2>3 DEF WriterOver
  <2>4. QED
    BY <1>37, <2>2, <2>3 DEF WriterVouches
<1>38. ASSUME NEW q \in Requests, WriterEnds(q) PROVE LeaseKept'
  BY <1>38 DEF WriterEnds, WriterOver, Deregister
<1>39. ASSUME NEW q \in Requests, GhostWait(q) PROVE LeaseKept'
  BY <1>39 DEF GhostWait, Goto
<1>40. ASSUME NEW q \in Requests, ReleaseLock(q) PROVE LeaseKept'
  BY <1>40 DEF ReleaseLock, DropLease, ReleaseDue
<1>41. ASSUME NEW q \in Requests, Cancel(q) PROVE LeaseKept'
  BY <1>41 DEF Cancel, LeaderQuits, FreeSlot, Abandoned, AbandonLoad, NoLoad
<1>42. ASSUME NEW q \in Requests, ClientLeaves(q) PROVE LeaseKept'
  BY <1>42 DEF ClientLeaves, StreamEnds, FreeSlot, Goto
<1>43. CASE HoldEnds
  BY <1>43 DEF HoldEnds
<1>44. ASSUME NEW r \in Replicas, Crash(r) PROVE LeaseKept'
  BY <1>44 DEF Crash, Abandoned, NoLoad
<1>45. ASSUME NEW r \in Replicas, LruExpires(r) PROVE LeaseKept'
  BY <1>45 DEF LruExpires
<1>46. CASE UNCHANGED vars
  BY <1>46 DEF vars
<1>47. QED
  BY <1>1, <1>2, <1>3, <1>4, <1>5, <1>6, <1>7, <1>8, <1>9, <1>10, <1>11,
     <1>12, <1>13, <1>14, <1>15, <1>16, <1>17, <1>18, <1>19, <1>20, <1>21,
     <1>22, <1>23, <1>24, <1>25, <1>26, <1>27, <1>28, <1>29, <1>30, <1>31,
     <1>32, <1>33, <1>34, <1>35, <1>36, <1>37, <1>38, <1>39, <1>40, <1>41,
     <1>42, <1>43, <1>44, <1>45, <1>46
     DEF Next, RequestStep, BodyStep, WriterStep, SessionStep

\* Without the Package Age Policy nothing is ever on hold.
LEMMA NothingHeld ==
  ASSUME "hold" \notin Faults
  PROVE  Spec => []~hold
<1>1. Init => ~hold
  BY DEF Init
<1>2. ASSUME ~hold, [Next]_vars PROVE ~hold'
  <2>1. ASSUME NEW q \in Requests, RequestStep(q) PROVE hold' = hold
    BY <2>1, Zenon DEF RequestStep, LoadMemo, LoadReads, LoadEnds, AwaitPublish, AwaitEnds,
       CachedHit, CachedMissing, CachedError, CachedDisagrees, EvictObject, EvictSidecar,
       EvictMemo, ElectLead, ElectFollow, Reenter, TryLock, LockGranted, LockExpires,
       ReElect, Open, OpenUncached, OpenHeld, OpenFails, HeadersSeen, TakeChunk,
       TakeDone, FollowEnds
  <2>2. ASSUME NEW q \in Requests, BodyStep(q) PROVE hold' = hold
    BY <2>2, Zenon DEF BodyStep, StartBody, EmitChunk, Eof, ClientHasAll, UpstreamFails
  <2>3. ASSUME NEW q \in Requests, WriterStep(q) \/ SessionStep(q) PROVE hold' = hold
    BY <2>3, Zenon DEF WriterStep, SessionStep, WriterRejects, WriterCopies, WriterMeasures,
       WriterDiscards, WriterVouches, WriterEnds, GhostWait, ReleaseLock
  <2>4. ASSUME NEW q \in Requests, Cancel(q) \/ ClientLeaves(q) PROVE hold' = hold
    BY <2>4, Zenon DEF Cancel, ClientLeaves
  <2>5. ASSUME NEW r \in Replicas, Crash(r) \/ LruExpires(r) PROVE hold' = hold
    BY <2>5, Zenon DEF Crash, LruExpires
  <2>6. ASSUME UNCHANGED vars PROVE hold' = hold
    BY <2>6 DEF vars
  <2>7. hold' = hold \/ HoldEnds
    BY <1>2, <2>1, <2>2, <2>3, <2>4, <2>5, <2>6 DEF Next
  <2>8. QED
    BY <1>2, <2>7 DEF HoldEnds
<1>3. QED
  BY <1>1, <1>2, PTL DEF Spec

\* Two fills opened under the advisory lock never overlap, in two cases that the
\* code leaves open excluded: a publish that takes longer than the 60 seconds
\* release_after_publish waits for it, and an object held by the Package Age
\* Policy, whose drain fills the cache without the lock.  Clients may go,
\* processes may die, and requests without the lock may fill beside it: a fill
\* that was opened under the lock has it until its sidecar is written or it is
\* given up.
THEOREM LeasedFillsApart ==
  ASSUME "hang" \notin Faults, "hold" \notin Faults
  PROVE  Spec => []LockedFillsApart
<1>1. Init => LeaseKept
  <2>1. ASSUME Init, NEW q \in Requests PROVE ~leased[q]
    BY <2>1 DEF Init
  <2>2. QED
    BY <2>1 DEF LeaseKept
<1>2. TypeOK /\ ~hold /\ LeaseKept /\ [Next]_vars => LeaseKept'
  BY LeaseStep
<1>3. LeaseKept => LockedFillsApart
  BY DEF LeaseKept, LockedFillsApart
<1>4. QED
  BY <1>1, <1>2, <1>3, TypesHold, NothingHeld, PTL DEF Spec

----------------------------------------------------------------------------
(* What the client gets. *)

\* Every step keeps sidecars, fills and responses whole.
LEMMA WholeStep ==
  ASSUME Streams, Streams', Announced, Whole, [Next]_vars
  PROVE  Whole'
<1> USE ConstantsAssumption DEF Streams, Course, TypeOK, Placed, SlotsHeld, SentByReaders,
           CaptureFromStart, Announced, Whole, SidecarsWhole, FillsWhole,
           WholeBody, Committable, Waiting, Final, Writing, Coordinated,
           reqVars, streamVars, fillVars, memoVars, cacheVars
<1>1. ASSUME NEW q \in Requests, LoadMemo(q) PROVE Whole'
  BY <1>1 DEF LoadMemo, Loading, Loaded, AfterLoad, AfterMiss, Solo
<1>2. ASSUME NEW q \in Requests, LoadReads(q) PROVE Whole'
  BY <1>2 DEF LoadReads, Loading
<1>3. ASSUME NEW q \in Requests, LoadEnds(q) PROVE Whole'
  <2>1. PICK J \in SUBSET {f \in Requests : at[f] = at[q] /\ Loading(f)}, n \in {0, Len} : Loaded(J, n)
    <3>1. load[at[q]].saw \in {0, Len}
      OBVIOUS
    <3>2. PICK J \in SUBSET {f \in Requests : at[f] = at[q] /\ Loading(f)} :
                  Loaded(J, load[at[q]].saw) \/ Loaded(J, 0)
      BY <1>3, Zenon DEF LoadEnds
    <3>3. QED
      BY <3>1, <3>2
  <2>2. UNCHANGED <<got, sent, term, wr, side>>
    BY <1>3, <2>1 DEF LoadEnds, Loaded
  <2>3. \A r \in Replicas : lru'[r] \in {None, 0, Len} /\ load'[r].saw \in {0, Len}
    BY <1>3 DEF LoadEnds, NoLoad
  <2>4. \A f \in Requests : f \notin J => pc'[f] = pc[f] /\ card'[f] = card[f]
    BY <2>1 DEF Loaded
  <2>5. \A f \in J : /\ card'[f] \in {0, Len} /\ pc'[f] # "served"
                     /\ pc'[f] = "open" => card'[f] = Len
    BY <2>1 DEF Loaded, AfterLoad, AfterMiss
  <2>6. SidecarsWhole'
    BY <2>2, <2>3, <2>4, <2>5
  <2>7. FillsWhole' /\ WholeBody'
    BY <2>2, <2>4, <2>5
  <2>8. QED
    BY <2>6, <2>7
<1>4. ASSUME NEW q \in Requests, AwaitPublish(q) PROVE Whole'
  BY <1>4 DEF AwaitPublish, TailPublish, Goto, Missed, AfterMiss, Solo
<1>5. ASSUME NEW q \in Requests, AwaitEnds(q) PROVE Whole'
  BY <1>5 DEF AwaitEnds, Goto
<1>6. ASSUME NEW q \in Requests, CachedHit(q) PROVE Whole'
  BY <1>6 DEF CachedHit, Answer, Goto
<1>7. ASSUME NEW q \in Requests, CachedMissing(q) PROVE Whole'
  BY <1>7 DEF CachedMissing, Missed, Goto, AfterMiss, Solo
<1>8. ASSUME NEW q \in Requests, CachedDisagrees(q) PROVE Whole'
  BY <1>8 DEF CachedDisagrees, Goto
<1>9. ASSUME NEW q \in Requests, EvictObject(q) PROVE Whole'
  BY <1>9 DEF EvictObject, Goto, Deleted, NobodyWoken
<1>10. ASSUME NEW q \in Requests, EvictSidecar(q) PROVE Whole'
  BY <1>10 DEF EvictSidecar, Goto, Deleted, NobodyWoken
<1>11. ASSUME NEW q \in Requests, EvictMemo(q) PROVE Whole'
  BY <1>11 DEF EvictMemo, Missed, Goto, AfterMiss, Solo
<1>12. ASSUME NEW q \in Requests, CachedError(q) PROVE Whole'
  BY <1>12 DEF CachedError, Goto
<1>13. ASSUME NEW q \in Requests, ElectLead(q) PROVE Whole'
  BY <1>13 DEF ElectLead, Goto
<1>14. ASSUME NEW q \in Requests, ElectFollow(q) PROVE Whole'
  BY <1>14 DEF ElectFollow, Goto, Joinable
<1>15. ASSUME NEW q \in Requests, Reenter(q) PROVE Whole'
  BY <1>15 DEF Reenter, Goto, ForgetMiss
<1>16. ASSUME NEW q \in Requests, TryLock(q) PROVE Whole'
  BY <1>16 DEF TryLock, Goto
<1>17. ASSUME NEW q \in Requests, LockGranted(q) PROVE Whole'
  BY <1>17 DEF LockGranted, Goto
<1>18. ASSUME NEW q \in Requests, LockExpires(q) PROVE Whole'
  BY <1>18 DEF LockExpires, Goto
<1>19. ASSUME NEW q \in Requests, ReElect(q) PROVE Whole'
  BY <1>19 DEF ReElect, LeaderQuits, FreeSlot, DropLease
<1>20. ASSUME NEW q \in Requests, Open(q) PROVE Whole'
  BY <1>20 DEF Open, Goto, TeeOpens
<1>21. ASSUME NEW q \in Requests, OpenUncached(q) PROVE Whole'
  BY <1>21 DEF OpenUncached, Goto, DropLease
<1>22. ASSUME NEW q \in Requests, OpenHeld(q) PROVE Whole'
  BY <1>22 DEF OpenHeld, LeaderQuits, FreeSlot, TeeOpens, DropLease
<1>23. ASSUME NEW q \in Requests, OpenFails(q) PROVE Whole'
  BY <1>23 DEF OpenFails, LeaderQuits, FreeSlot, DropLease
<1>24. ASSUME NEW q \in Requests, HeadersSeen(q) PROVE Whole'
  BY <1>24 DEF HeadersSeen, Goto
<1>25. ASSUME NEW q \in Requests, TakeChunk(q) PROVE Whole'
  BY <1>25 DEF TakeChunk, Goto
<1>26. ASSUME NEW q \in Requests, TakeDone(q) PROVE Whole'
  BY <1>26 DEF TakeDone, Answer, Goto
<1>27. ASSUME NEW q \in Requests, FollowEnds(q) PROVE Whole'
  BY <1>27 DEF FollowEnds, Goto
<1>28. ASSUME NEW q \in Requests, StartBody(q) PROVE Whole'
  BY <1>28 DEF StartBody, Goto
<1>29. ASSUME NEW q \in Requests, EmitChunk(q) PROVE Whole'
  BY <1>29 DEF EmitChunk, Reading
<1>30. ASSUME NEW q \in Requests, Eof(q) PROVE Whole'
  BY <1>30 DEF Eof, Reading, StreamEnds, FreeSlot, Answer, Goto
<1>31. ASSUME NEW q \in Requests, ClientHasAll(q) PROVE Whole'
  BY <1>31 DEF ClientHasAll, StreamEnds, FreeSlot, Answer, Goto
<1>32. ASSUME NEW q \in Requests, UpstreamFails(q) PROVE Whole'
  BY <1>32 DEF UpstreamFails, Reading, StreamEnds, FreeSlot, Goto
<1>33. ASSUME NEW q \in Requests, WriterRejects(q) PROVE Whole'
  BY <1>33 DEF WriterRejects, WriterOver, Deregister
<1>34. ASSUME NEW q \in Requests, WriterCopies(q) PROVE Whole'
  BY <1>34 DEF WriterCopies, WriterTo, Committable, NobodyWoken
<1>35. ASSUME NEW q \in Requests, WriterMeasures(q) PROVE Whole'
  BY <1>35 DEF WriterMeasures, WriterTo
<1>36. ASSUME NEW q \in Requests, WriterDiscards(q) PROVE Whole'
  BY <1>36 DEF WriterDiscards, WriterOver, Deregister, Deleted, NobodyWoken
<1>37. ASSUME NEW q \in Requests, WriterVouches(q) PROVE Whole'
  BY <1>37 DEF WriterVouches, WriterTo, WriterOver, Deregister
<1>38. ASSUME NEW q \in Requests, WriterEnds(q) PROVE Whole'
  BY <1>38 DEF WriterEnds, WriterOver, Deregister
<1>39. ASSUME NEW q \in Requests, GhostWait(q) PROVE Whole'
  BY <1>39 DEF GhostWait, Goto
<1>40. ASSUME NEW q \in Requests, ReleaseLock(q) PROVE Whole'
  BY <1>40 DEF ReleaseLock, DropLease, ReleaseDue
<1>41. ASSUME NEW q \in Requests, Cancel(q) PROVE Whole'
  BY <1>41 DEF Cancel, LeaderQuits, FreeSlot, Abandoned, AbandonLoad, NoLoad
<1>42. ASSUME NEW q \in Requests, ClientLeaves(q) PROVE Whole'
  BY <1>42 DEF ClientLeaves, StreamEnds, FreeSlot, Goto
<1>43. CASE HoldEnds
  BY <1>43 DEF HoldEnds
<1>44. ASSUME NEW r \in Replicas, Crash(r) PROVE Whole'
  BY <1>44 DEF Crash, Abandoned, NoLoad
<1>45. ASSUME NEW r \in Replicas, LruExpires(r) PROVE Whole'
  BY <1>45 DEF LruExpires
<1>46. CASE UNCHANGED vars
  BY <1>46 DEF vars
<1>47. QED
  BY <1>1, <1>2, <1>3, <1>4, <1>5, <1>6, <1>7, <1>8, <1>9, <1>10, <1>11,
     <1>12, <1>13, <1>14, <1>15, <1>16, <1>17, <1>18, <1>19, <1>20, <1>21,
     <1>22, <1>23, <1>24, <1>25, <1>26, <1>27, <1>28, <1>29, <1>30, <1>31,
     <1>32, <1>33, <1>34, <1>35, <1>36, <1>37, <1>38, <1>39, <1>40, <1>41,
     <1>42, <1>43, <1>44, <1>45, <1>46
     DEF Next, RequestStep, BodyStep, WriterStep, SessionStep

\* Every sidecar, fill and response is whole.
LEMMA WholeHolds ==
  ASSUME Announced
  PROVE  Spec => []Whole
<1>1. Init => Whole
  BY ConstantsAssumption DEF Init, Whole, SidecarsWhole, FillsWhole, WholeBody, NoLoad
<1>2. Streams /\ Streams' /\ Whole /\ [Next]_vars => Whole'
  BY WholeStep
<1>3. QED
  BY <1>1, <1>2, StreamsHold, PTL DEF Spec

\* A response that ends well has the whole body, wherever it came from, also
\* when clients, replicas, upstream, the storage and the copies of the object
\* fail in any order: a capture is a response only after the marker of a
\* complete body, and an object only when its size is the sidecar's, which is
\* always that of the whole body.  Without a Content-Length this needs clients
\* that do not disconnect.
THEOREM BodiesWhole ==
  ASSUME Announced
  PROVE  Spec => []WholeBody
<1>1. Whole => WholeBody
  BY DEF Whole
<1>2. QED
  BY <1>1, WholeHolds, PTL

----------------------------------------------------------------------------
(* The wake-up of the lock. *)

\* Every step keeps the entry for the requests that were woken by it.
LEMMA EntryStep ==
  ASSUME Streams, Streams', Announced, Whole, Whole', EntryAwaits, [Next]_vars
  PROVE  EntryAwaits'
<1> USE ConstantsAssumption DEF Streams, TypeOK, Announced, Whole, SidecarsWhole,
           FillsWhole, EntryAwaits, Committable, Waiting, Final, Writing,
           reqVars, streamVars, fillVars, memoVars, cacheVars
<1>1. ASSUME NEW q \in Requests, LoadMemo(q) PROVE EntryAwaits'
  BY <1>1 DEF LoadMemo, Loading, Loaded, AfterLoad, AfterMiss, Solo
<1>2. ASSUME NEW q \in Requests, LoadReads(q) PROVE EntryAwaits'
  BY <1>2 DEF LoadReads, Loading
<1>3. ASSUME NEW q \in Requests, LoadEnds(q) PROVE EntryAwaits'
  BY <1>3 DEF LoadEnds, Loading, Loaded, AfterLoad, AfterMiss, Solo, NoLoad
<1>4. ASSUME NEW q \in Requests, AwaitPublish(q) PROVE EntryAwaits'
  <2>1. \A p \in Requests : p # q => pc'[p] = pc[p]
    BY <1>4 DEF AwaitPublish, Missed, Goto
  <2>2. pc[q] = "absent" /\ UNCHANGED <<at, cacheVars, woken>>
    BY <1>4 DEF AwaitPublish
  <2>3. QED
    BY <2>1, <2>2
<1>5. ASSUME NEW q \in Requests, AwaitEnds(q) PROVE EntryAwaits'
  BY <1>5 DEF AwaitEnds, Goto
<1>6. ASSUME NEW q \in Requests, CachedHit(q) PROVE EntryAwaits'
  BY <1>6 DEF CachedHit, Answer, Goto
<1>7. ASSUME NEW q \in Requests, CachedMissing(q) PROVE EntryAwaits'
  BY <1>7 DEF CachedMissing, Missed, Goto, AfterMiss, Solo
<1>8. ASSUME NEW q \in Requests, CachedDisagrees(q) PROVE EntryAwaits'
  BY <1>8 DEF CachedDisagrees, Goto
<1>9. ASSUME NEW q \in Requests, EvictObject(q) PROVE EntryAwaits'
  BY <1>9 DEF EvictObject, Goto, Deleted, NobodyWoken
<1>10. ASSUME NEW q \in Requests, EvictSidecar(q) PROVE EntryAwaits'
  BY <1>10 DEF EvictSidecar, Goto, Deleted, NobodyWoken
<1>11. ASSUME NEW q \in Requests, EvictMemo(q) PROVE EntryAwaits'
  BY <1>11 DEF EvictMemo, Missed, Goto, AfterMiss, Solo
<1>12. ASSUME NEW q \in Requests, CachedError(q) PROVE EntryAwaits'
  BY <1>12 DEF CachedError, Goto
<1>13. ASSUME NEW q \in Requests, ElectLead(q) PROVE EntryAwaits'
  BY <1>13 DEF ElectLead, Goto
<1>14. ASSUME NEW q \in Requests, ElectFollow(q) PROVE EntryAwaits'
  BY <1>14 DEF ElectFollow, Goto, Joinable
<1>15. ASSUME NEW q \in Requests, Reenter(q) PROVE EntryAwaits'
  BY <1>15 DEF Reenter, Goto, ForgetMiss
<1>16. ASSUME NEW q \in Requests, TryLock(q) PROVE EntryAwaits'
  <2>1. pc[q] = "leader" /\ \A p \in Requests : p # q => pc'[p] = pc[p]
    BY <1>16 DEF TryLock, Goto
  <2>2. UNCHANGED <<at, cacheVars, woken>>
    BY <1>16 DEF TryLock
  <2>3. QED
    BY <2>1, <2>2
<1>17. ASSUME NEW q \in Requests, LockGranted(q) PROVE EntryAwaits'
  BY <1>17 DEF LockGranted, Goto
<1>18. ASSUME NEW q \in Requests, LockExpires(q) PROVE EntryAwaits'
  BY <1>18 DEF LockExpires, Goto
<1>19. ASSUME NEW q \in Requests, ReElect(q) PROVE EntryAwaits'
  BY <1>19 DEF ReElect, LeaderQuits, FreeSlot, DropLease
<1>20. ASSUME NEW q \in Requests, Open(q) PROVE EntryAwaits'
  BY <1>20 DEF Open, Goto, TeeOpens
<1>21. ASSUME NEW q \in Requests, OpenUncached(q) PROVE EntryAwaits'
  BY <1>21 DEF OpenUncached, Goto, DropLease
<1>22. ASSUME NEW q \in Requests, OpenHeld(q) PROVE EntryAwaits'
  BY <1>22 DEF OpenHeld, LeaderQuits, FreeSlot, TeeOpens, DropLease
<1>23. ASSUME NEW q \in Requests, OpenFails(q) PROVE EntryAwaits'
  BY <1>23 DEF OpenFails, LeaderQuits, FreeSlot, DropLease
<1>24. ASSUME NEW q \in Requests, HeadersSeen(q) PROVE EntryAwaits'
  BY <1>24 DEF HeadersSeen, Goto
<1>25. ASSUME NEW q \in Requests, TakeChunk(q) PROVE EntryAwaits'
  BY <1>25 DEF TakeChunk, Goto
<1>26. ASSUME NEW q \in Requests, TakeDone(q) PROVE EntryAwaits'
  BY <1>26 DEF TakeDone, Answer, Goto
<1>27. ASSUME NEW q \in Requests, FollowEnds(q) PROVE EntryAwaits'
  BY <1>27 DEF FollowEnds, Goto
<1>28. ASSUME NEW q \in Requests, StartBody(q) PROVE EntryAwaits'
  BY <1>28 DEF StartBody, Goto
<1>29. ASSUME NEW q \in Requests, EmitChunk(q) PROVE EntryAwaits'
  BY <1>29 DEF EmitChunk, Reading
<1>30. ASSUME NEW q \in Requests, Eof(q) PROVE EntryAwaits'
  BY <1>30 DEF Eof, Reading, StreamEnds, FreeSlot, Answer, Goto
<1>31. ASSUME NEW q \in Requests, ClientHasAll(q) PROVE EntryAwaits'
  BY <1>31 DEF ClientHasAll, StreamEnds, FreeSlot, Answer, Goto
<1>32. ASSUME NEW q \in Requests, UpstreamFails(q) PROVE EntryAwaits'
  BY <1>32 DEF UpstreamFails, Reading, StreamEnds, FreeSlot, Goto
<1>33. ASSUME NEW q \in Requests, WriterRejects(q) PROVE EntryAwaits'
  BY <1>33 DEF WriterRejects, WriterOver, Deregister
<1>34. ASSUME NEW q \in Requests, WriterCopies(q) PROVE EntryAwaits'
  BY <1>34 DEF WriterCopies, WriterTo, Committable, NobodyWoken
<1>35. ASSUME NEW q \in Requests, WriterMeasures(q) PROVE EntryAwaits'
  BY <1>35 DEF WriterMeasures, WriterTo
<1>36. ASSUME NEW q \in Requests, WriterDiscards(q) PROVE EntryAwaits'
  BY <1>36 DEF WriterDiscards, WriterOver, Deregister, Deleted, NobodyWoken
<1>37. ASSUME NEW q \in Requests, WriterVouches(q) PROVE EntryAwaits'
  BY <1>37 DEF WriterVouches, WriterTo, WriterOver, Deregister
<1>38. ASSUME NEW q \in Requests, WriterEnds(q) PROVE EntryAwaits'
  BY <1>38 DEF WriterEnds, WriterOver, Deregister
<1>39. ASSUME NEW q \in Requests, GhostWait(q) PROVE EntryAwaits'
  BY <1>39 DEF GhostWait, Goto
<1>40. ASSUME NEW q \in Requests, ReleaseLock(q) PROVE EntryAwaits'
  BY <1>40 DEF ReleaseLock, DropLease, ReleaseDue
<1>41. ASSUME NEW q \in Requests, Cancel(q) PROVE EntryAwaits'
  BY <1>41 DEF Cancel, LeaderQuits, FreeSlot, Abandoned, AbandonLoad, NoLoad
<1>42. ASSUME NEW q \in Requests, ClientLeaves(q) PROVE EntryAwaits'
  BY <1>42 DEF ClientLeaves, StreamEnds, FreeSlot, Goto
<1>43. CASE HoldEnds
  BY <1>43 DEF HoldEnds
<1>44. ASSUME NEW r \in Replicas, Crash(r) PROVE EntryAwaits'
  BY <1>44 DEF Crash, Abandoned, NoLoad
<1>45. ASSUME NEW r \in Replicas, LruExpires(r) PROVE EntryAwaits'
  BY <1>45 DEF LruExpires
<1>46. CASE UNCHANGED vars
  BY <1>46 DEF vars
<1>47. QED
  BY <1>1, <1>2, <1>3, <1>4, <1>5, <1>6, <1>7, <1>8, <1>9, <1>10, <1>11,
     <1>12, <1>13, <1>14, <1>15, <1>16, <1>17, <1>18, <1>19, <1>20, <1>21,
     <1>22, <1>23, <1>24, <1>25, <1>26, <1>27, <1>28, <1>29, <1>30, <1>31,
     <1>32, <1>33, <1>34, <1>35, <1>36, <1>37, <1>38, <1>39, <1>40, <1>41,
     <1>42, <1>43, <1>44, <1>45, <1>46
     DEF Next, RequestStep, BodyStep, WriterStep, SessionStep

\* A request that the advisory lock woke when the entry was in the cache, and no
\* load of the sidecar was under way in its process, is answered from the entry
\* or not at all, and not sent upstream again, for as long as the entry stays:
\* forget_cached_sidecar_miss removes what its process had memoised, and a load,
\* a fill or an eviction begun since cannot bring the miss back.  A load begun
\* before the publish can: such a request is woken as "loading".
THEOREM WokenIsServed ==
  ASSUME Announced
  PROVE  Spec => []WokenServed
<1>1. Init => EntryAwaits
  <2>1. ASSUME Init, NEW q \in Requests PROVE woken[q] = "no"
    BY <2>1 DEF Init
  <2>2. QED
    BY <2>1 DEF EntryAwaits
<1>2. Streams /\ Streams' /\ Whole /\ Whole' /\ EntryAwaits /\ [Next]_vars => EntryAwaits'
  BY EntryStep
<1>3. EntryAwaits => WokenServed
  BY DEF EntryAwaits, WokenServed, SentUpstream, Final
<1>4. QED
  BY <1>1, <1>2, <1>3, StreamsHold, WholeHolds, PTL DEF Spec

=============================================================================
