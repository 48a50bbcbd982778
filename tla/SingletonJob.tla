---------------------------- MODULE SingletonJob ----------------------------
(***************************************************************************)
(* What the `SingletonLease` coordination pattern of                       *)
(* backend/src/services/cluster_work.rs promises to a periodic job: at any *)
(* moment at most one replica is inside the job.  This is the abstract     *)
(* specification; SchedulerLease is the lease protocol that implements it. *)
(***************************************************************************)
CONSTANT Replicas

VARIABLE active    \* the replicas that are inside the job

Init == active = {}

\* A replica enters the job, which nobody is running.
Enter(r) == /\ active = {}
            /\ active' = {r}

\* A replica leaves the job: it finished, gave up or died.
Leave(r) == /\ r \in active
            /\ active' = active \ {r}

Next == \E r \in Replicas : Enter(r) \/ Leave(r)

Spec == Init /\ [][Next]_active
=============================================================================
