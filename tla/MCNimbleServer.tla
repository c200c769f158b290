--------------------------- MODULE MCNimbleServer ---------------------------
(***************************************************************************)
(* Instantiates NimbleServer for TLC: two transport slots (model values,  *)
(* interchangeable, so a symmetry set), a pool of two participant         *)
(* connections and two participant ids (both taken smallest-first by the  *)
(* code, so not symmetric).                                               *)
(***************************************************************************)
EXTENDS NimbleServer, TLC

CONSTANTS s1, s2

MCSlots == {s1, s2}
MCPool == {0, 1}
MCParticipantIds == {1, 2}
MCSymmetry == Permutations(MCSlots)
=============================================================================
