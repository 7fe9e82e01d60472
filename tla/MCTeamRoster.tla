---------------------------- MODULE MCTeamRoster ----------------------------
(* A founder and one other account, one tab each.                          *)
EXTENDS TeamRoster

CONSTANTS ana, ben, a1, b1, c1, c2

MCPersonOf == (a1 :> ana) @@ (b1 :> ben)
MCSymmetry == Permutations(Codes)
=============================================================================
