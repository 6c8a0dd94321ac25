--------------------------- MODULE MCEpisodicStore ---------------------------
(* EpisodicStore on small instances. *)
EXTENDS EpisodicStore, TLC

\* Ids and callers are interchangeable; sound for the runs that check no liveness.
Symmetry == Permutations(Ids) \cup Permutations(Clients)
=============================================================================
