-------------------------- MODULE MCCommandLedger --------------------------
(***************************************************************************)
(* Instances of CommandLedger for TLC.  bob owns the team, alice is a      *)
(* member who may be removed.                                              *)
(***************************************************************************)
EXTENDS CommandLedger, TLC

CONSTANTS alice, bob, a1, b1

(* Two people, one connection each.                                        *)
MCUserOf == (a1 :> alice @@ b1 :> bob)

(* Every command has an id of its own, as a client that draws them at      *)
(* random sends them.                                                      *)
DistinctCommands == {[user |-> alice, id |-> 1, input |-> "x"],
                     [user |-> bob, id |-> 2, input |-> "x"]}

(* One id used three ways: by one person for two things, and by another.   *)
ReusedCommands == {[user |-> alice, id |-> 1, input |-> "x"],
                   [user |-> alice, id |-> 1, input |-> "y"],
                   [user |-> bob, id |-> 1, input |-> "x"]}
=============================================================================
