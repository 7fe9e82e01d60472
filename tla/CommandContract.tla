-------------------------- MODULE CommandContract --------------------------
(***************************************************************************)
(* What the hub and the host together promise about commands, without the  *)
(* maps, links and messages that keep the promise (CommandLedger does):    *)
(* an id is claimed by one command, the command acts at most once, its     *)
(* outcome is decided once and never revised, and people are told that     *)
(* outcome and no other.                                                   *)
(***************************************************************************)
EXTENDS Integers

CONSTANTS Commands,  \* records with a field id
          Tabs       \* who can be told

VARIABLES phase,     \* per command, how far it got
          told       \* final answers given: records [tab, cmd, outcome]

vars == <<phase, told>>

Final == {"ok", "failed", "uncertain"}

Init == phase = [c \in Commands |-> "new"] /\ told = {}

(* A command takes its id, unless another command has it.                  *)
Claim(c) ==
  /\ phase[c] = "new"
  /\ \A d \in Commands : d.id = c.id => phase[d] = "new"
  /\ phase' = [phase EXCEPT ![c] = "claimed"]
  /\ UNCHANGED told

Act(c) ==
  /\ phase[c] = "claimed"
  /\ phase' = [phase EXCEPT ![c] = "acted"]
  /\ UNCHANGED told

Finish(c) ==
  /\ phase[c] = "acted"
  /\ \E o \in {"ok", "failed"} : phase' = [phase EXCEPT ![c] = o]
  /\ UNCHANGED told

(* A crash: nobody will learn how the commands under way ended.            *)
Abandon ==
  /\ phase' = [c \in Commands |->
                 IF phase[c] \in {"claimed", "acted"} THEN "uncertain" ELSE phase[c]]
  /\ UNCHANGED told

Tell ==
  /\ \E new \in SUBSET [tab : Tabs, cmd : Commands, outcome : Final] :
       /\ \A a \in new : phase[a.cmd] = a.outcome
       /\ told' = told \cup new
  /\ UNCHANGED phase

Next ==
  \/ \E c \in Commands : Claim(c) \/ Act(c) \/ Finish(c)
  \/ Abandon
  \/ Tell

Spec == Init /\ [][Next]_vars
=============================================================================
