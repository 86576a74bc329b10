------------------------- MODULE MCParticipantStore -------------------------
(* ParticipantStore for TLC: the puts are interchangeable.                     *)
EXTENDS ParticipantStore, TLC

Symmetry == Permutations(Puts)
=============================================================================
