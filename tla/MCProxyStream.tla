--------------------------- MODULE MCProxyStream ---------------------------
(* ProxyStream for TLC.  Replicas are alike, so the first request's is fixed; *)
(* the other requests are alike.                                              *)
EXTENDS ProxyStream, TLC

CONSTANTS q1, r1

FirstFixed == {p \in [Requests -> Replicas] : p[q1] = r1}

Symmetry == Permutations(Requests \ {q1})

=============================================================================
