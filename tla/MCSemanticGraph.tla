-------------------------- MODULE MCSemanticGraph --------------------------
(* SemanticGraph on small instances. *)
EXTENDS SemanticGraph, TLC

\* Names, spellings and callers are interchangeable; for the runs without liveness.
Symmetry == Permutations(Names) \cup Permutations(Spellings) \cup Permutations(Clients)
=============================================================================
