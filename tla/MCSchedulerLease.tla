-------------------------- MODULE MCSchedulerLease --------------------------
(* Instances of SchedulerLease for TLC. *)
EXTENDS SchedulerLease, TLC

\* Replicas, identities and tokens are only ever compared.
Symmetry == Permutations(Replicas) \cup Permutations(Ids) \cup Permutations(Tokens)
=============================================================================
