--------------------------- MODULE MCTurnSession ---------------------------
(* The turns of a thread on a small instance: one person with the          *)
(* authority to approve, and one without.                                  *)
EXTENDS TurnSession

CONSTANTS alice, bob

MCPeople == {alice, bob}
MCOnlyAlice == {alice}
MCAgent == {"agent"}
MCPresets == {"read-only", "agent"}
=============================================================================
