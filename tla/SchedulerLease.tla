--------------------------- MODULE SchedulerLease ---------------------------
(***************************************************************************)
(* The durable singleton lease of backend/src/services/cluster_work.rs and *)
(* the periodic job loop that uses it (scheduler_service.rs,               *)
(* storage_gc_service.rs): one row of `scheduler_leases`, several backend  *)
(* replicas that try to claim it on every tick, a heartbeat task that      *)
(* renews it while the job runs, a cancellation token that tells the job   *)
(* its lease is gone, and a release at the end.                            *)
(*                                                                         *)
(* Time is relative.  A timestamp in the row is kept as the time that is   *)
(* left until it (0: it has passed), so no clock bound is needed.  Claim   *)
(* tokens and process identities are random in the code (UUIDs); here a    *)
(* new one is any value nobody refers to any more, which keeps both sets   *)
(* finite without ever confusing two uses.                                 *)
(***************************************************************************)
EXTENDS Integers, FiniteSets

CONSTANTS
    Replicas,   \* backend processes sharing the database
    Ids,        \* process identities: host:pid:boot-uuid
    Tokens,     \* claim tokens
    None,       \* no identity, no token
    TTL,        \* lease time-to-live
    HbMin,      \* floor of the renewal interval (5 s in the code)
    HbMax,      \* ceiling of the renewal interval (300 s in the code)
    Period,     \* interval of the job's ticker
    MaxMisses,  \* consecutive failed renewals an on-time run may see
    Renews      \* the job spawns the renewal heartbeat

\* Faulty variant: the heartbeat is as far out as the lease.
RenewalIntervalWhole == IF TTL < HbMin THEN HbMin ELSE TTL

\* renewal_interval: a third of the TTL, clamped.
RenewalInterval ==
    LET third == TTL \div 3
    IN  IF third < HbMin THEN HbMin ELSE IF third > HbMax THEN HbMax ELSE third

ASSUME ConstantsAssumption ==
    /\ TTL \in Nat \ {0} /\ HbMin \in Nat \ {0} /\ HbMax \in Nat \ {0}
    /\ HbMin <= HbMax
    /\ Period \in Nat \ {0}
    /\ MaxMisses \in Nat
    /\ Renews \in BOOLEAN
    /\ None \notin Ids /\ None \notin Tokens

VARIABLES
    lease,      \* the scheduler_leases row: owner, token, time left (0: expired)
    id,         \* replica -> its current process identity
    pc,         \* replica -> where its job loop is
    tok,        \* replica -> the token of the lease it holds in memory
    lost,       \* replica -> the run's cancellation token has fired
    hb,         \* replica -> heartbeat task: off, waiting or a statement sent
    hbLeft,     \* replica -> time left until the heartbeat's next tick
    misses,     \* replica -> consecutive renewal errors (saturating)
    due,        \* replica -> time left until the job loop's next tick
    wire,       \* tokens of renewal statements whose sender no longer waits
    orphanFor   \* how long nobody alive has known the row's token (saturating)

runVars == <<pc, tok, lost, hb, hbLeft, misses>>
vars == <<lease, id, runVars, due, wire, orphanFor>>

----------------------------------------------------------------------------
TypeOK ==
    /\ lease \in [owner : Ids \cup {None}, token : Tokens \cup {None}, left : 0..TTL]
    /\ id \in [Replicas -> Ids]
    /\ pc \in [Replicas -> {"idle", "claimed", "check", "item", "finish"}]
    /\ tok \in [Replicas -> Tokens \cup {None}]
    /\ lost \in [Replicas -> BOOLEAN]
    /\ hb \in [Replicas -> {"off", "wait", "sent"}]
    /\ hbLeft \in [Replicas -> 0..RenewalInterval]
    /\ misses \in [Replicas -> 0..MaxMisses]
    /\ due \in [Replicas -> 0..Period]
    /\ wire \subseteq Tokens
    /\ orphanFor \in 0..TTL
    /\ \A r \in Replicas :
          /\ pc[r] # "idle" => tok[r] # None
          /\ hb[r] # "off" => pc[r] \in {"check", "item"}

\* A row that does not exist is one anybody may claim, like an expired one.
Init ==
    /\ lease = [owner |-> None, token |-> None, left |-> 0]
    /\ id \in [Replicas -> Ids]
    /\ \A r, s \in Replicas : r # s => id[r] # id[s]
    /\ pc = [r \in Replicas |-> "idle"]
    /\ tok = [r \in Replicas |-> None]
    /\ lost = [r \in Replicas |-> FALSE]
    /\ hb = [r \in Replicas |-> "off"]
    /\ hbLeft = [r \in Replicas |-> 0]
    /\ misses = [r \in Replicas |-> 0]
    /\ due = [r \in Replicas |-> 0]
    /\ wire = {}
    /\ orphanFor = 0

\* Tokens that a live process or a statement in flight still carries.
LiveTokens == {tok[r] : r \in Replicas} \cup wire

FreshToken(t) == t \in Tokens \ (LiveTokens \cup {lease.token})

FreshId(i) == i \in Ids \ ({id[r] : r \in Replicas} \cup {lease.owner})

\* The replica is between winning the lease and giving up the heartbeat.
Working(r) == pc[r] \in {"claimed", "check", "item"}

----------------------------------------------------------------------------
(* The statements on the row. *)

\* Faulty variants: both conditions are asked for; a lease about to expire is taken.
CanAcquireBoth(r) == lease.left = 0 /\ lease.owner = id[r]
CanAcquireEarly(r) == lease.left <= 3 \/ lease.owner = id[r]

\* ON CONFLICT (job_name) DO UPDATE ... WHERE expired OR same owner.
CanAcquire(r) == lease.left = 0 \/ lease.owner = id[r]

AcquireRow(r, t) == [owner |-> id[r], token |-> t, left |-> TTL]

\* Faulty variants: the TTL is added to the old expiry; the token is not checked.
RenewRowFromExpiry(t) == IF lease.token = t THEN [lease EXCEPT !.left = @ + TTL] ELSE lease
RenewRowAnyToken(t) == [lease EXCEPT !.left = TTL]

\* renew_scheduler_lease_by_token: the token is the only guard, so an expired
\* lease that nobody reclaimed is revived.
RenewRow(t) == IF lease.token = t THEN [lease EXCEPT !.left = TTL] ELSE lease

\* Faulty variant: the release does not check the token.
ReleaseRowAnyToken(t) == [lease EXCEPT !.left = 0]

\* SchedulerLease::release: expires the row, if it is still ours.
ReleaseRow(t) == IF lease.token = t THEN [lease EXCEPT !.left = 0] ELSE lease

----------------------------------------------------------------------------
(* The job loop of one replica. *)

\* The ticker fires again a period later, or at once when ticks were missed.
Rearm(r) == \E d \in {0, Period} : due' = [due EXCEPT ![r] = d]

\* try_acquire_scheduler_lease wins: a new token even for the same owner.
Acquire(r) ==
    /\ pc[r] = "idle" /\ due[r] = 0
    /\ CanAcquire(r)
    /\ \E t \in Tokens :
          /\ FreshToken(t)
          /\ lease' = AcquireRow(r, t)
          /\ tok' = [tok EXCEPT ![r] = t]
    /\ pc' = [pc EXCEPT ![r] = "claimed"]
    /\ orphanFor' = 0
    /\ Rearm(r)
    /\ UNCHANGED <<id, lost, hb, hbLeft, misses, wire>>

\* The upsert commits but its answer is lost: the quiet wrapper maps the error
\* to "not the holder" and the tick is skipped with the row now ours.
AcquireNoAnswer(r) ==
    /\ pc[r] = "idle" /\ due[r] = 0
    /\ CanAcquire(r)
    /\ \E t \in Tokens : FreshToken(t) /\ lease' = AcquireRow(r, t)
    /\ orphanFor' = 0
    /\ Rearm(r)
    /\ UNCHANGED <<id, runVars, wire>>

\* Another owner's lease is alive, or the statement failed: skip the tick.
SkipTick(r) ==
    /\ pc[r] = "idle" /\ due[r] = 0
    /\ due' = [due EXCEPT ![r] = Period]
    /\ UNCHANGED <<lease, id, runVars, wire, orphanFor>>

\* The job starts; spawn_renewal_with_cancellation starts the heartbeat, whose
\* first tick is consumed at once.
Start(r) ==
    /\ pc[r] = "claimed"
    /\ pc' = [pc EXCEPT ![r] = "check"]
    /\ lost' = [lost EXCEPT ![r] = FALSE]
    /\ hb' = [hb EXCEPT ![r] = IF Renews THEN "wait" ELSE "off"]
    /\ hbLeft' = [hbLeft EXCEPT ![r] = IF Renews THEN RenewalInterval ELSE 0]
    /\ misses' = [misses EXCEPT ![r] = 0]
    /\ UNCHANGED <<lease, id, tok, due, wire, orphanFor>>

\* Faulty variant: the job never looks at its cancellation token.
BeginItemAlways(r) ==
    /\ pc[r] = "check"
    /\ pc' = [pc EXCEPT ![r] = "item"]
    /\ UNCHANGED <<lease, id, tok, lost, hb, hbLeft, misses, due, wire, orphanFor>>

\* abort.is_cancelled() is looked at between items; the item is a side effect.
BeginItem(r) ==
    /\ pc[r] = "check" /\ ~lost[r]
    /\ pc' = [pc EXCEPT ![r] = "item"]
    /\ UNCHANGED <<lease, id, tok, lost, hb, hbLeft, misses, due, wire, orphanFor>>

EndItem(r) ==
    /\ pc[r] = "item"
    /\ pc' = [pc EXCEPT ![r] = "check"]
    /\ UNCHANGED <<lease, id, tok, lost, hb, hbLeft, misses, due, wire, orphanFor>>

\* What aborting the heartbeat task leaves behind: a statement already sent.
Abandoned(r) == IF hb[r] = "sent" THEN {tok[r]} ELSE {}

\* The items are done, or the token has fired: drop the renewal guard.
StopWork(r) ==
    /\ pc[r] = "check"
    /\ pc' = [pc EXCEPT ![r] = "finish"]
    /\ wire' = wire \cup Abandoned(r)
    /\ hb' = [hb EXCEPT ![r] = "off"]
    /\ hbLeft' = [hbLeft EXCEPT ![r] = 0]
    /\ misses' = [misses EXCEPT ![r] = 0]
    /\ UNCHANGED <<lease, id, tok, lost, due, orphanFor>>

\* The loop goes back to its ticker, after the token-guarded release.  A failed
\* release is only logged, and some jobs (the health monitor) leave it out.
Finish(r) ==
    /\ pc[r] = "finish"
    /\ pc' = [pc EXCEPT ![r] = "idle"]
    /\ lease' \in {lease, ReleaseRow(tok[r])}
    /\ tok' = [tok EXCEPT ![r] = None]
    /\ lost' = [lost EXCEPT ![r] = FALSE]
    /\ UNCHANGED <<id, hb, hbLeft, misses, due, wire, orphanFor>>

----------------------------------------------------------------------------
(* The heartbeat task: spawn_renewal_loop_with_cancellation. *)

\* The ticker fires: the next tick is an interval away, answer or not.
RenewSend(r) ==
    /\ hb[r] = "wait" /\ hbLeft[r] = 0
    /\ hb' = [hb EXCEPT ![r] = "sent"]
    /\ hbLeft' = [hbLeft EXCEPT ![r] = RenewalInterval]
    /\ UNCHANGED <<lease, id, pc, tok, lost, misses, due, wire, orphanFor>>

\* Ok(true)
RenewHeld(r) ==
    /\ hb[r] = "sent"
    /\ lease.token = tok[r]
    /\ lease' = RenewRow(tok[r])
    /\ hb' = [hb EXCEPT ![r] = "wait"]
    /\ misses' = [misses EXCEPT ![r] = 0]
    /\ UNCHANGED <<id, pc, tok, lost, hbLeft, due, wire, orphanFor>>

\* Ok(false): fire the cancellation token and end the task.
RenewLost(r) ==
    /\ hb[r] = "sent"
    /\ lease.token # tok[r]
    /\ lost' = [lost EXCEPT ![r] = TRUE]
    /\ hb' = [hb EXCEPT ![r] = "off"]
    /\ hbLeft' = [hbLeft EXCEPT ![r] = 0]
    /\ UNCHANGED <<lease, id, pc, tok, misses, due, wire, orphanFor>>

\* Err: logged and retried on the next tick; the statement may have executed.
RenewError(r) ==
    /\ hb[r] = "sent"
    /\ lease' \in {lease, RenewRow(tok[r])}
    /\ hb' = [hb EXCEPT ![r] = "wait"]
    /\ misses' = [misses EXCEPT ![r] = IF @ < MaxMisses THEN @ + 1 ELSE @]
    /\ UNCHANGED <<id, pc, tok, lost, hbLeft, due, wire, orphanFor>>

----------------------------------------------------------------------------
(* The environment. *)

\* A renewal whose sender was aborted reaches the database, or never does.
LateRenew(t) ==
    /\ t \in wire
    /\ wire' = wire \ {t}
    /\ lease' \in {lease, RenewRow(t)}
    /\ UNCHANGED <<id, runVars, due, orphanFor>>

\* The process dies and comes back under a new identity; the row stays.
Crash(r) ==
    /\ wire' = wire \cup Abandoned(r)
    /\ \E i \in Ids : FreshId(i) /\ id' = [id EXCEPT ![r] = i]
    /\ pc' = [pc EXCEPT ![r] = "idle"]
    /\ tok' = [tok EXCEPT ![r] = None]
    /\ lost' = [lost EXCEPT ![r] = FALSE]
    /\ hb' = [hb EXCEPT ![r] = "off"]
    /\ hbLeft' = [hbLeft EXCEPT ![r] = 0]
    /\ misses' = [misses EXCEPT ![r] = 0]
    /\ due' = [due EXCEPT ![r] = 0]
    /\ UNCHANGED <<lease, orphanFor>>

Countdown(n) == IF n > 0 THEN n - 1 ELSE 0

Tick ==
    /\ lease' = [lease EXCEPT !.left = Countdown(@)]
    /\ hbLeft' = [r \in Replicas |-> Countdown(hbLeft[r])]
    /\ due' = [r \in Replicas |-> Countdown(due[r])]
    /\ orphanFor' = IF lease.token \in LiveTokens \/ lease.token = None THEN 0
                    ELSE IF orphanFor < TTL THEN orphanFor + 1 ELSE TTL
    /\ UNCHANGED <<id, pc, tok, lost, hb, misses, wire>>

----------------------------------------------------------------------------
(* Every step of replica r but a failed renewal. *)
Step(r) ==
    \/ Acquire(r) \/ AcquireNoAnswer(r) \/ SkipTick(r)
    \/ Start(r) \/ BeginItem(r) \/ EndItem(r) \/ StopWork(r) \/ Finish(r)
    \/ RenewSend(r) \/ RenewHeld(r) \/ RenewLost(r)
    \/ Crash(r)

Next ==
    \/ \E r \in Replicas : Step(r)
    \/ \E r \in Replicas : RenewError(r)
    \/ \E t \in Tokens : LateRenew(t)
    \/ Tick

Spec == Init /\ [][Next]_vars

\* The clock waits for whatever a healthy process would have done by now.
OnTime(r) ==
    /\ pc[r] # "claimed"
    /\ hb[r] # "sent"
    /\ ~(hb[r] = "wait" /\ hbLeft[r] = 0)

\* No process is paused beyond its heartbeat deadline, and no more than
\* MaxMisses renewals in a row fail.
TimelyNext ==
    \/ \E r \in Replicas : Step(r)
    \/ \E r \in Replicas : misses[r] < MaxMisses /\ RenewError(r)
    \/ \E t \in Tokens : LateRenew(t)
    \/ (\A r \in Replicas : OnTime(r)) /\ Tick

TimelySpec == Init /\ [][TimelyNext]_vars

\* What the runtime gives: a task that can run does, a ticker keeps ticking, a
\* statement in flight arrives or is dropped with its connection, and a
\* database that is asked again and again answers once in a while.
Fairness ==
    /\ WF_vars(Tick)
    /\ \A t \in Tokens : WF_vars(LateRenew(t))
    /\ \A r \in Replicas :
          /\ WF_vars(Start(r)) /\ WF_vars(EndItem(r))
          /\ WF_vars(BeginItem(r) \/ StopWork(r)) /\ WF_vars(Finish(r))
          /\ WF_vars(RenewSend(r))
          /\ SF_vars(RenewLost(r))
          /\ SF_vars(Acquire(r))

FairSpec == Spec /\ Fairness

----------------------------------------------------------------------------
(* Properties. *)

\* "Exactly one replica runs a coarse periodic job": no two replicas are in
\* the job at once, from the won upsert to the dropped renewal guard.
NoOverlap ==
    \A r, s \in Replicas : Working(r) /\ Working(s) => r = s

\* How long the lease must outlive the next heartbeat when m renewals in a row
\* have failed already.
Budget(m) == (MaxMisses - m) * RenewalInterval

\* Why no two runs overlap: a run in the job is the row's owner, by its token,
\* and the row outlives the renewals it is still allowed to miss.  Identities
\* and tokens in memory are never shared.
HolderBudget ==
    /\ \A r, s \in Replicas :
          r # s => id[r] # id[s] /\ (tok[r] # None => tok[r] # tok[s])
    /\ \A r \in Replicas :
          /\ Working(r) => lease.token = tok[r] /\ tok[r] # None /\ lease.owner = id[r]
          /\ pc[r] = "claimed" => lease.left = TTL
          /\ pc[r] \in {"check", "item"} <=> hb[r] # "off"
          /\ hb[r] = "wait" => lease.left > hbLeft[r] + Budget(misses[r])
          /\ hb[r] = "sent" => lease.left > Budget(misses[r]) /\ hbLeft[r] = RenewalInterval

\* The lease protocol implements the singleton job it is meant to provide.
Abstract == INSTANCE SingletonJob WITH active <- {r \in Replicas : Working(r)}

ImplementsSingleton == Abstract!Spec

\* "A crashed holder blocks the job for at most ttl_secs": once nobody alive
\* knows the row's token, nothing prolongs the lease.
OrphanExpires == orphanFor + lease.left <= TTL

\* A lease that is still running is replaced only by its own owner, and it is
\* ended early only by a run that holds its very token: a run that lost the
\* lease and comes back late (release, renewal) never touches its successor.
FencedStep ==
    lease.left > 0 =>
        /\ lease'.token # lease.token => lease'.owner = lease.owner
        /\ lease'.token = lease.token /\ lease'.left = 0 /\ lease.left > 1 =>
              \E r \in Replicas : tok[r] = lease.token /\ pc[r] = "finish"

LiveLeaseFenced == [][FencedStep]_vars

\* A run whose lease was taken over leaves the job: the heartbeat notices and
\* the cancellation token stops it at the next item.
TakenRunStops ==
    \A r \in Replicas :
        (Working(r) /\ Renews /\ lease.token # tok[r]) ~> ~Working(r)

\* Unless replicas keep crashing, the job keeps being run by somebody, even
\* with answers lost and late renewals reviving a released lease.
JobKeepsRunning ==
    (<>[][\A r \in Replicas : ~Crash(r)]_vars) => []<>(\E r \in Replicas : Working(r))
=============================================================================
