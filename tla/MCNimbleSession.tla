--------------------------- MODULE MCNimbleSession ---------------------------
(***************************************************************************)
(* Instantiates NimbleSession for TLC with model-value slots.              *)
(***************************************************************************)
EXTENDS NimbleSession, TLC

CONSTANTS s1, s2

MCOneClient == {s1}
MCTwoClients == {s1, s2}
MCPool == {0, 1}
MCParticipantIds == {1, 2}
MCOnePool == {0}
MCOneParticipantId == {1}
=============================================================================
