------------------------ MODULE MCEpisodicMaintenance ------------------------
(* EpisodicMaintenance on small instances. *)
EXTENDS EpisodicMaintenance, TLC

\* Sound: no run of this module checks liveness.
Symmetry == Permutations(Ids)
=============================================================================
