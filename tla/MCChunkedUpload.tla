--------------------------- MODULE MCChunkedUpload ---------------------------
(* Instances of ChunkedUpload for TLC. *)
EXTENDS ChunkedUpload, TLC

\* Chunks, requests and tokens are only ever compared.
Symmetry == Permutations(Chunks) \cup Permutations(Uploaders)
            \cup Permutations(Completers) \cup Permutations(Tokens)
=============================================================================
