----------------------------- MODULE MCOciBlobGc -----------------------------
(* Instances of OciBlobGc for TLC. *)
EXTENDS OciBlobGc, TLC

\* Repositories, tags, clients and replicas are only ever compared.
Symmetry == Permutations(Repos) \cup Permutations(Tags)
            \cup Permutations(Pushers) \cup Permutations(Sweepers)
=============================================================================
