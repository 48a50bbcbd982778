----------------------------- MODULE MCSyncQueue -----------------------------
(* Instances of SyncQueue for TLC. *)
EXTENDS SyncQueue, TLC

\* Replicas and claim tokens are only ever compared.
Symmetry == Permutations(Replicas) \cup Permutations(Tokens)
=============================================================================
