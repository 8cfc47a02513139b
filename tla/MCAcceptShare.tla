--------------------------- MODULE MCAcceptShare ---------------------------
(* Model-checking instances of AcceptShare. *)
EXTENDS AcceptShare, TLC

Symmetry == Permutations(Workers) \cup Permutations(Conns)
=============================================================================
