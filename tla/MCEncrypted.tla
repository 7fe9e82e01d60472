----------------------------- MODULE MCEncrypted -----------------------------
(***************************************************************************)
(* The encrypted task path for TLC: the chain of memberships, the task     *)
(* log, an execution host and its turns.  They meet only in what each      *)
(* takes from the others as given, so one of them runs in each behaviour.  *)
(***************************************************************************)
EXTENDS MembershipChain, EncryptedTaskLog, EncryptedHost, EncryptedRun

CONSTANTS Ann, Ben, o1, o2, m1

VARIABLE part

TheAccounts == (o1 :> Ann) @@ (o2 :> Ann) @@ (m1 :> Ben)
Order(action, by, t) == [action |-> action, by |-> by, turn |-> t]
TheOrders == {Order("continue", "mate", 2), Order("accept", "mate", 1), Order("grant", "owner", 1),
              Order("interrupt", "mate", 1), Order("outcome", "mate", 1)}

Init ==
  /\ ChainInit /\ LogInit /\ HostInit /\ RunInit
  /\ part \in {"chain", "log", "host", "run"}

Next ==
  /\ UNCHANGED part
  /\ \/ part = "chain" /\ ChainNext /\ UNCHANGED <<logVars, hostVars, runVars>>
     \/ part = "log" /\ LogNext /\ UNCHANGED <<chainVars, hostVars, runVars>>
     \/ part = "host" /\ HostNext /\ UNCHANGED <<chainVars, logVars, runVars>>
     \/ part = "run" /\ RunNext /\ UNCHANGED <<chainVars, logVars, hostVars>>

Spec == Init /\ [][Next]_<<part, chainVars, logVars, hostVars, runVars>>

(* Every variable of every part has its shape.                             *)
TypesOK == ChainTypeOK /\ LogTypeOK /\ HostTypeOK /\ RunTypeOK

=============================================================================
