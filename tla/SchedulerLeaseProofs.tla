------------------------ MODULE SchedulerLeaseProofs ------------------------
(***************************************************************************)
(* Theorems about SchedulerLease, for every number of replicas and every   *)
(* timing constant.                                                        *)
(***************************************************************************)
EXTENDS SchedulerLease, TLAPS

\* The renewal interval is a positive number.
LEMMA IntervalType == RenewalInterval \in Nat \ {0}
  BY ConstantsAssumption DEF RenewalInterval

----------------------------------------------------------------------------
(* Type correctness. *)

\* One line per action of the model: types are preserved.
LEMMA TypeStep == TypeOK /\ [Next]_vars => TypeOK'
<1> SUFFICES ASSUME TypeOK, [Next]_vars PROVE TypeOK'
    OBVIOUS
<1> USE ConstantsAssumption, IntervalType
<1>1. ASSUME NEW r \in Replicas, Acquire(r) PROVE TypeOK'
    BY <1>1 DEF TypeOK, Acquire, AcquireRow, Rearm, FreshToken
<1>2. ASSUME NEW r \in Replicas, AcquireNoAnswer(r) PROVE TypeOK'
    BY <1>2 DEF TypeOK, AcquireNoAnswer, AcquireRow, Rearm, FreshToken, runVars
<1>3. ASSUME NEW r \in Replicas, SkipTick(r) PROVE TypeOK'
    BY <1>3 DEF TypeOK, SkipTick, runVars
<1>4. ASSUME NEW r \in Replicas, Start(r) PROVE TypeOK'
    BY <1>4 DEF TypeOK, Start
<1>5. ASSUME NEW r \in Replicas, BeginItem(r) \/ EndItem(r) PROVE TypeOK'
    BY <1>5 DEF TypeOK, BeginItem, EndItem
<1>6. ASSUME NEW r \in Replicas, StopWork(r) PROVE TypeOK'
    BY <1>6 DEF TypeOK, StopWork, Abandoned
<1>7. ASSUME NEW r \in Replicas, Finish(r) PROVE TypeOK'
    BY <1>7 DEF TypeOK, Finish, ReleaseRow
<1>8. ASSUME NEW r \in Replicas, RenewSend(r) PROVE TypeOK'
    BY <1>8 DEF TypeOK, RenewSend
<1>9. ASSUME NEW r \in Replicas, RenewHeld(r) PROVE TypeOK'
    BY <1>9 DEF TypeOK, RenewHeld, RenewRow
<1>10. ASSUME NEW r \in Replicas, RenewLost(r) PROVE TypeOK'
    BY <1>10 DEF TypeOK, RenewLost
<1>11. ASSUME NEW r \in Replicas, RenewError(r) PROVE TypeOK'
    BY <1>11 DEF TypeOK, RenewError, RenewRow
<1>12. ASSUME NEW t \in Tokens, LateRenew(t) PROVE TypeOK'
    BY <1>12 DEF TypeOK, LateRenew, RenewRow, runVars
<1>13. ASSUME NEW r \in Replicas, Crash(r) PROVE TypeOK'
    BY <1>13 DEF TypeOK, Crash, Abandoned
<1>14. CASE Tick
    BY <1>14 DEF TypeOK, Tick, Countdown
<1>15. CASE UNCHANGED vars
    BY <1>15 DEF TypeOK, vars, runVars
<1> QED
    BY <1>1, <1>2, <1>3, <1>4, <1>5, <1>6, <1>7, <1>8, <1>9, <1>10, <1>11,
       <1>12, <1>13, <1>14, <1>15 DEF Next, Step

\* Every variable keeps the type its column or field has in the code; only a
\* run inside the job has a heartbeat, and it holds a token.
THEOREM TypeCorrect == Spec => []TypeOK
<1>1. Init => TypeOK
    BY ConstantsAssumption, IntervalType DEF Init, TypeOK
<1> QED  BY <1>1, TypeStep, PTL DEF Spec

\* On-time steps are steps.
LEMMA TimelyIsNext == [TimelyNext]_vars => [Next]_vars
  BY DEF TimelyNext, Next

\* The same for the runs in which no process misses its heartbeat deadline.
THEOREM TimelyTypeCorrect == TimelySpec => []TypeOK
<1>1. Init => TypeOK
    BY ConstantsAssumption, IntervalType DEF Init, TypeOK
<1> QED  BY <1>1, TypeStep, TimelyIsNext, PTL DEF TimelySpec

----------------------------------------------------------------------------
(* Mutual exclusion, for a job that renews its lease. *)

\* What the constants of a renewing job must satisfy: the lease outlives the
\* renewals that may be missed.
SlackHolds == Renews /\ (MaxMisses + 1) * RenewalInterval < TTL

\* The budget after one more failed renewal, and the budget of a new lease.
LEMMA BudgetFacts ==
    /\ \A m \in 0..MaxMisses : Budget(m) \in Nat
    /\ \A m \in 0..MaxMisses : m < MaxMisses => Budget(m) = RenewalInterval + Budget(m + 1)
    /\ SlackHolds => RenewalInterval + Budget(0) < TTL
<1> DEFINE I == RenewalInterval
<1>1. I \in Nat /\ MaxMisses \in Nat /\ TTL \in Nat
    BY IntervalType, ConstantsAssumption
<1> HIDE DEF I
<1>2. \A m \in 0..MaxMisses : (MaxMisses - m) * I \in Nat
    BY <1>1
<1>3. \A m \in 0..MaxMisses : (MaxMisses - m) * I = I + (MaxMisses - (m + 1)) * I
    BY <1>1
<1>4. (MaxMisses + 1) * I = I + (MaxMisses - 0) * I
    BY <1>1
<1> QED
    BY <1>2, <1>3, <1>4 DEF I, Budget, SlackHolds

\* Every on-time step keeps the holder's budget, one case per action.
LEMMA BudgetStep ==
  ASSUME SlackHolds, TypeOK, HolderBudget, [TimelyNext]_vars
  PROVE  HolderBudget'
<1> USE ConstantsAssumption, IntervalType, BudgetFacts DEF SlackHolds
<1>1. ASSUME NEW r \in Replicas, Acquire(r) PROVE HolderBudget'
    BY <1>1 DEF TypeOK, HolderBudget, Working, Acquire, AcquireRow, CanAcquire, FreshToken, LiveTokens
<1>2. ASSUME NEW r \in Replicas, AcquireNoAnswer(r) PROVE HolderBudget'
    BY <1>2 DEF TypeOK, HolderBudget, Working, AcquireNoAnswer, AcquireRow, CanAcquire, FreshToken, LiveTokens, runVars
<1>3. ASSUME NEW r \in Replicas, SkipTick(r) PROVE HolderBudget'
    BY <1>3 DEF TypeOK, HolderBudget, Working, SkipTick, runVars
<1>4. ASSUME NEW r \in Replicas, Start(r) PROVE HolderBudget'
    BY <1>4 DEF TypeOK, HolderBudget, Working, Start
<1>5. ASSUME NEW r \in Replicas, BeginItem(r) \/ EndItem(r) PROVE HolderBudget'
    BY <1>5 DEF TypeOK, HolderBudget, Working, BeginItem, EndItem
<1>6. ASSUME NEW r \in Replicas, StopWork(r) PROVE HolderBudget'
    BY <1>6 DEF TypeOK, HolderBudget, Working, StopWork
<1>7. ASSUME NEW r \in Replicas, Finish(r) PROVE HolderBudget'
    BY <1>7 DEF TypeOK, HolderBudget, Working, Finish, ReleaseRow
<1>8. ASSUME NEW r \in Replicas, RenewSend(r) PROVE HolderBudget'
    BY <1>8 DEF TypeOK, HolderBudget, Working, RenewSend
<1>9. ASSUME NEW r \in Replicas, RenewHeld(r) PROVE HolderBudget'
    BY <1>9 DEF TypeOK, HolderBudget, Working, RenewHeld, RenewRow
<1>10. ASSUME NEW r \in Replicas, RenewLost(r) PROVE HolderBudget'
    BY <1>10 DEF TypeOK, HolderBudget, Working, RenewLost
<1>11. ASSUME NEW r \in Replicas, misses[r] < MaxMisses, RenewError(r) PROVE HolderBudget'
    BY <1>11 DEF TypeOK, HolderBudget, Working, RenewError, RenewRow
<1>12. ASSUME NEW t \in Tokens, LateRenew(t) PROVE HolderBudget'
    BY <1>12 DEF TypeOK, HolderBudget, Working, LateRenew, RenewRow, runVars
<1>13. ASSUME NEW r \in Replicas, Crash(r) PROVE HolderBudget'
    BY <1>13 DEF TypeOK, HolderBudget, Working, Crash, FreshId
<1>14. ASSUME \A r \in Replicas : OnTime(r), Tick PROVE HolderBudget'
    BY <1>14 DEF TypeOK, HolderBudget, Working, OnTime, Tick, Countdown
<1>15. CASE UNCHANGED vars
    BY <1>15 DEF HolderBudget, Working, vars, runVars
<1> QED
    BY <1>1, <1>2, <1>3, <1>4, <1>5, <1>6, <1>7, <1>8, <1>9, <1>10, <1>11,
       <1>12, <1>13, <1>14, <1>15 DEF TimelyNext, Step

\* In an on-time run the holder's row always outlives the renewals it may miss.
THEOREM BudgetHolds == ASSUME SlackHolds PROVE TimelySpec => []HolderBudget
<1>1. Init => HolderBudget
    BY DEF Init, HolderBudget, Working
<1>2. TypeOK /\ HolderBudget /\ [TimelyNext]_vars => HolderBudget'
    BY BudgetStep
<1> QED  BY <1>1, <1>2, TimelyTypeCorrect, PTL DEF TimelySpec

\* Two runs in the job would both be the owner of the one row.
LEMMA BudgetExcludes == HolderBudget => NoOverlap
  BY DEF HolderBudget, NoOverlap

\* "Exactly one replica runs a coarse periodic job": with a heartbeat that is on
\* time and loses at most MaxMisses renewals in a row, no two replicas are ever
\* in the job at once, whatever crashes, lost answers and late renewals occur.
THEOREM MutualExclusion == ASSUME SlackHolds PROVE TimelySpec => []NoOverlap
  BY BudgetHolds, BudgetExcludes, PTL

\* A step of the protocol is a step of the abstract singleton job, or none.
LEMMA StepRefines ==
  ASSUME TypeOK, HolderBudget, HolderBudget', [TimelyNext]_vars
  PROVE  [Abstract!Next]_{r \in Replicas : Working(r)}
<1> DEFINE Active == {r \in Replicas : Working(r)}
<1>a. NoOverlap /\ NoOverlap'
    BY DEF HolderBudget, NoOverlap
<1>1. ASSUME NEW r \in Replicas, Acquire(r) PROVE Abstract!Enter(r)
  <2>1. r \notin Active /\ r \in Active'
    BY <1>1 DEF Acquire, Working, TypeOK
  <2>2. Active' = {r}
    BY <2>1, <1>a DEF NoOverlap
  <2>3. Active \subseteq Active'
    BY <1>1 DEF Acquire, Working, TypeOK
  <2> QED  BY <2>1, <2>2, <2>3 DEF Abstract!Enter
<1>2. ASSUME NEW r \in Replicas, StopWork(r) \/ Crash(r)
      PROVE  Abstract!Leave(r) \/ Active' = Active
  <2>1. Active' = Active \ {r}
    BY <1>2 DEF StopWork, Crash, Working, TypeOK
  <2> QED  BY <2>1 DEF Abstract!Leave
<1>3. ASSUME NEW r \in Replicas,
             \/ AcquireNoAnswer(r) \/ SkipTick(r) \/ RenewSend(r)
             \/ RenewHeld(r) \/ RenewLost(r) \/ RenewError(r)
      PROVE  Active' = Active
    BY <1>3 DEF AcquireNoAnswer, SkipTick, RenewSend, RenewHeld, RenewLost,
                RenewError, Working, runVars
<1>4. ASSUME NEW r \in Replicas, Start(r) \/ BeginItem(r) \/ EndItem(r) \/ Finish(r)
      PROVE  Active' = Active
    BY <1>4 DEF Start, BeginItem, EndItem, Finish, Working, TypeOK
<1>5. ASSUME Tick \/ UNCHANGED vars \/ \E t \in Tokens : LateRenew(t)
      PROVE  Active' = Active
    BY <1>5 DEF Tick, LateRenew, Working, vars, runVars
<1> QED
    BY <1>1, <1>2, <1>3, <1>4, <1>5 DEF TimelyNext, Step, Abstract!Next

\* The lease protocol implements the abstract singleton job.
THEOREM Refinement == ASSUME SlackHolds PROVE TimelySpec => ImplementsSingleton
<1>1. Init => Abstract!Init
    BY DEF Init, Abstract!Init, Working
<1>2. TypeOK /\ HolderBudget /\ HolderBudget' /\ [TimelyNext]_vars
        => [Abstract!Next]_{r \in Replicas : Working(r)}
    BY StepRefines
<1> QED
    BY <1>1, <1>2, TimelyTypeCorrect, BudgetHolds, PTL
       DEF TimelySpec, ImplementsSingleton, Abstract!Spec

----------------------------------------------------------------------------
(* Whatever the timing: failover bound and fencing. *)

\* While the row's token is known to somebody alive nothing has been counted.
OrphanInv == OrphanExpires /\ (orphanFor > 0 => lease.token \notin LiveTokens \cup {None})

\* Nothing but the clock touches the row of a dead holder, until it is taken.
LEMMA OrphanStep ==
  ASSUME TypeOK, OrphanInv, [Next]_vars
  PROVE  OrphanInv'
<1> USE ConstantsAssumption DEF OrphanInv, OrphanExpires, LiveTokens
<1>1. ASSUME NEW r \in Replicas, Acquire(r) \/ AcquireNoAnswer(r) PROVE OrphanInv'
    BY <1>1 DEF Acquire, AcquireNoAnswer, AcquireRow
<1>2. ASSUME NEW r \in Replicas,
             SkipTick(r) \/ Start(r) \/ BeginItem(r) \/ EndItem(r) \/ RenewSend(r) \/ RenewLost(r)
      PROVE  OrphanInv'
    BY <1>2 DEF SkipTick, Start, BeginItem, EndItem, RenewSend, RenewLost, runVars
<1>3. ASSUME NEW r \in Replicas, StopWork(r) PROVE OrphanInv'
    BY <1>3 DEF StopWork, Abandoned, TypeOK
<1>4. ASSUME NEW r \in Replicas, Finish(r) PROVE OrphanInv'
    BY <1>4 DEF Finish, ReleaseRow, TypeOK
<1>5. ASSUME NEW r \in Replicas, RenewHeld(r) \/ RenewError(r) PROVE OrphanInv'
    BY <1>5 DEF RenewHeld, RenewError, RenewRow, TypeOK
<1>6. ASSUME NEW t \in Tokens, LateRenew(t) PROVE OrphanInv'
    BY <1>6 DEF LateRenew, RenewRow, TypeOK, runVars
<1>7. ASSUME NEW r \in Replicas, Crash(r) PROVE OrphanInv'
    BY <1>7 DEF Crash, Abandoned, TypeOK
<1>8. CASE Tick
    BY <1>8 DEF Tick, Countdown, TypeOK
<1>9. CASE UNCHANGED vars
    BY <1>9 DEF vars, runVars
<1> QED
    BY <1>1, <1>2, <1>3, <1>4, <1>5, <1>6, <1>7, <1>8, <1>9 DEF Next, Step

\* "A crashed holder blocks the job for at most ttl_secs", without any
\* assumption on timing.
THEOREM FailoverBound == Spec => []OrphanExpires
<1>1. Init => OrphanInv
    BY ConstantsAssumption DEF Init, OrphanInv, OrphanExpires
<1>2. TypeOK /\ OrphanInv /\ [Next]_vars => OrphanInv'
    BY OrphanStep
<1>3. OrphanInv => OrphanExpires
    BY DEF OrphanInv
<1> QED  BY <1>1, <1>2, <1>3, TypeCorrect, PTL DEF Spec

\* Every step leaves a live lease to its owner, one case per action.
LEMMA FencedEveryStep ==
  ASSUME TypeOK, Next
  PROVE  FencedStep
<1> USE ConstantsAssumption DEF FencedStep
<1>1. ASSUME NEW r \in Replicas, Acquire(r) \/ AcquireNoAnswer(r) PROVE FencedStep
    BY <1>1 DEF Acquire, AcquireNoAnswer, AcquireRow, CanAcquire
<1>2. ASSUME NEW r \in Replicas,
             \/ SkipTick(r) \/ Start(r) \/ BeginItem(r) \/ EndItem(r)
             \/ StopWork(r) \/ RenewSend(r) \/ RenewLost(r) \/ Crash(r)
      PROVE  FencedStep
    BY <1>2 DEF SkipTick, Start, BeginItem, EndItem, StopWork, RenewSend, RenewLost, Crash
<1>3. ASSUME NEW r \in Replicas, Finish(r) PROVE FencedStep
    BY <1>3 DEF Finish, ReleaseRow, TypeOK
<1>4. ASSUME NEW r \in Replicas, RenewHeld(r) \/ RenewError(r) PROVE FencedStep
    BY <1>4 DEF RenewHeld, RenewError, RenewRow, TypeOK
<1>5. ASSUME NEW t \in Tokens, LateRenew(t) PROVE FencedStep
    BY <1>5 DEF LateRenew, RenewRow, TypeOK
<1>6. CASE Tick
    BY <1>6 DEF Tick, Countdown, TypeOK
<1> QED
    BY <1>1, <1>2, <1>3, <1>4, <1>5, <1>6 DEF Next, Step

\* "Releasing a lease that was already lost is a no-op", and so is renewing it:
\* without any assumption on timing, a live lease changes hands only when its
\* own owner claims it again, and ends early only by its holder's release.
THEOREM Fencing == Spec => LiveLeaseFenced
<1>1. TypeOK /\ [Next]_vars => [FencedStep]_vars
    BY FencedEveryStep
<1> QED  BY <1>1, TypeCorrect, PTL DEF Spec, LiveLeaseFenced
=============================================================================
