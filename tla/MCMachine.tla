------------------------------ MODULE MCMachine ------------------------------
(***************************************************************************)
(* What runs on a person's own machine, for TLC: the single-player         *)
(* application, the provider adapters, the desktop shell, the sign-in, the *)
(* two ceremonies of the encrypted client and the pairing of a host.  None *)
(* of them touches the state of another, so one runs in each behaviour.    *)
(***************************************************************************)
EXTENDS AgentApp, CodexAdapter, Desktop, HostedLogin, ClientMailbox, OwnerRecovery, HostPairing

VARIABLE part

TheCalls == {<<>>, <<"risky">>}
TheScripts == {<<"plan", "safe", "plan">>, <<"edit">>}

Init ==
  /\ AppInit /\ AdapterInit /\ DeskInit /\ LoginInit /\ MailboxInit /\ RecInit /\ PairInit
  /\ part \in {"app", "adapter", "desktop", "login", "mailbox", "recovery", "pairing"}
  /\ part # "app" => job = "none"
  /\ part # "desktop" => shell.tray
  /\ part # "pairing" => ~machine.given

Next ==
  /\ UNCHANGED part
  /\ \/ part = "app" /\ AppNext /\ UNCHANGED <<adapterVars, deskVars, loginVars, mailVars, recVars, pairVars>>
     \/ part = "adapter" /\ AdapterNext /\ UNCHANGED <<appVars, deskVars, loginVars, mailVars, recVars, pairVars>>
     \/ part = "desktop" /\ DeskNext /\ UNCHANGED <<appVars, adapterVars, loginVars, mailVars, recVars, pairVars>>
     \/ part = "login" /\ LoginNext /\ UNCHANGED <<appVars, adapterVars, deskVars, mailVars, recVars, pairVars>>
     \/ part = "mailbox" /\ MailboxNext /\ UNCHANGED <<appVars, adapterVars, deskVars, loginVars, recVars, pairVars>>
     \/ part = "recovery" /\ RecNext /\ UNCHANGED <<appVars, adapterVars, deskVars, loginVars, mailVars, pairVars>>
     \/ part = "pairing" /\ PairNext /\ UNCHANGED <<appVars, adapterVars, deskVars, loginVars, mailVars, recVars>>

Spec == Init /\ [][Next]_<<part, appVars, adapterVars, deskVars, loginVars, mailVars, recVars, pairVars>>

(* Every variable of the part that runs has its shape.                     *)
TypesOK ==
  /\ part = "app" => AppTypeOK
  /\ part = "adapter" => AdapterTypeOK
  /\ part = "desktop" => DeskTypeOK
  /\ part = "login" => LoginTypeOK
  /\ part = "mailbox" => MailboxTypeOK
  /\ part = "recovery" => RecTypeOK
  /\ part = "pairing" => PairTypeOK

(* What a person agreed to is what happens: no process outlives the shell, *)
(* its host trusts no signer but the one they said yes to (main.js:323-340,*)
(* local-runtime-rpc.js:101-143); a sign-in yields one session, for who    *)
(* typed its code (auth.js:169-192); and a host acts for the team it was   *)
(* paired with, with one crypto store open (server.js:336-359, 441-474,    *)
(* index.js:248-300, 349-382).                                             *)
ConsentHolds ==
  /\ part = "desktop" => HostIsOwned
  /\ part = "login" => OneSessionEach
  /\ part = "pairing" => HostFollowsPairing /\ OneStoreOpen

(* The encrypted client loses nothing it can still need: what a host sealed*)
(* for it (encrypted.js:385-482), and its place in a recovery of the       *)
(* owner's membership (encrypted.js:811-863).                              *)
ClientKeeps == (part = "mailbox" => MailIsKept) /\ (part = "recovery" => RecoveryInReach)

=============================================================================
