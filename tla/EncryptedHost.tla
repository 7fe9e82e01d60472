---------------------------- MODULE EncryptedHost ----------------------------
(***************************************************************************)
(* An execution host of an encrypted team: how it learns who may hold the  *)
(* keys of its tasks, and what it does when somebody no longer may         *)
(* (packages/runtime/encrypted-host.js, freshness-authority.js,            *)
(* local-control.js, the sweep in index.js).                               *)
(*                                                                         *)
(* One teammate's device, one task.  The team's log (MembershipChain) is   *)
(* here the sequence of what concerns this host: the device is removed,    *)
(* the endpoint the host trusts for fresh answers is removed, the owner    *)
(* recovers the team, the task is deleted.  The sweep is sequential, but   *)
(* every request it makes yields: the link may drop, the person at the     *)
(* host may appoint another endpoint, the host may crash.                  *)
(***************************************************************************)
EXTENDS Integers, Sequences, FiniteSets

CONSTANTS
  Concerns,       \* what the log may say: of "device", "signer", "recover", "delete"
  MaxConcerns,    \* bound: entries of the log
  MaxGenerations, \* bound: reconcileGeneration
  MaxLives        \* bound: starts of the host's process

ASSUME HostAssumption ==
  /\ Concerns \subseteq {"device", "signer", "recover", "delete"}
  /\ {MaxConcerns, MaxGenerations, MaxLives} \subseteq Nat

VARIABLES
  signedLog,      \* team: the signed log, one entry per concern
  challenges,     \* hub: the host's challenge, and the head its proof is for
  receipts,       \* hub: what the host acknowledged to have applied
  disk,           \* host disk: EncryptedTaskState
  host,           \* host memory: EncryptedHost and EncryptedExecution
  sweep,          \* host memory: where the sweep is
  proposal,       \* host memory: the appointment a person is asked to confirm
  holds,          \* the device can read what is written next in the task
  handed,         \* history: the device was given the history after the host knew
  lives           \* starts so far

hostVars == <<signedLog, challenges, receipts, disk, host, sweep, proposal, holds, handed, lives>>

Says(what, n) == \E i \in 1..n : signedLog[i] = what
LogHead == Len(signedLog)

NoSweep == [pc |-> "idle", for |-> "none", gen |-> 0, nonce |-> 0, seq |-> 0, proof |-> 0, bare |-> FALSE]
NoProposal == [seq |-> 0, gen |-> 0, floor |-> 0, authority |-> "none"]
HostStarted == [observed |-> 0, membership |-> 0, reconciled |-> FALSE, gen |-> 0, nonce |-> 0,
          open |-> TRUE, running |-> FALSE]

HostInit ==
  /\ signedLog = <<>> /\ challenges = [nonce |-> 0, proof |-> -1] /\ receipts = {}
  /\ disk = [floor |-> 0, rotated |-> 0, due |-> FALSE, authority |-> "genesis", epoch |-> FALSE,
             recovery |-> "none", fence |-> FALSE, deletion |-> "none"]
  /\ host = HostStarted /\ sweep = NoSweep /\ proposal = NoProposal
  /\ holds = FALSE /\ handed = FALSE /\ lives = 1

Floor == IF disk.floor > host.observed THEN disk.floor ELSE host.observed

(* freshness-authority.js: signer, requiresRecovery, isRevoked.            *)
RequiresRecovery(n) == Says("recover", n) # disk.epoch
SignerRevoked(n) == disk.authority = "revoked" \/ (disk.authority = "genesis" /\ Says("signer", n))
SignerAnswers ==
  IF disk.authority = "appointed" THEN ~RequiresRecovery(LogHead)
  ELSE ~Says("signer", LogHead) /\ ~Says("recover", LogHead)

Eligible(n) == ~Says("device", n) /\ ~Says("recover", n)
Disconnected(h) == [h EXCEPT !.reconciled = FALSE, !.nonce = 0, !.gen = @ + 1]
HostClosed(h) == [h EXCEPT !.open = FALSE, !.running = FALSE]
SweepEnds == sweep' = NoSweep

-----------------------------------------------------------------------------
(* The team, the hub and time.                                             *)

LogGrows(what) ==
  /\ ~Says(what, LogHead) /\ LogHead < MaxConcerns /\ signedLog' = Append(signedLog, what)
  /\ UNCHANGED <<challenges, receipts, disk, host, sweep, proposal, holds, handed, lives>>

(* The endpoint the host trusts answers for the head it sees.              *)
SignerSigns ==
  /\ challenges.nonce # 0 /\ challenges.proof = -1 /\ SignerAnswers
  /\ challenges' = [challenges EXCEPT !.proof = LogHead]
  /\ UNCHANGED <<signedLog, receipts, disk, host, sweep, proposal, holds, handed, lives>>

LinkDrops ==
  /\ host.gen < MaxGenerations /\ host' = Disconnected(host)
  /\ UNCHANGED <<signedLog, challenges, receipts, disk, sweep, proposal, holds, handed, lives>>

ChallengeLapses ==
  /\ host.nonce # 0 /\ host' = [host EXCEPT !.nonce = 0]
  /\ UNCHANGED <<signedLog, challenges, receipts, disk, sweep, proposal, holds, handed, lives>>

HostDies ==
  /\ lives < MaxLives /\ lives' = lives + 1
  /\ host' = HostStarted /\ proposal' = NoProposal /\ SweepEnds
  /\ UNCHANGED <<signedLog, challenges, receipts, disk, holds, handed>>

TurnFinishes ==
  /\ host.running /\ host' = [host EXCEPT !.running = FALSE]
  /\ UNCHANGED <<signedLog, challenges, receipts, disk, sweep, proposal, holds, handed, lives>>

-----------------------------------------------------------------------------
(* reconcileMembership, for one of the things the sweep is about to do.    *)

Asks(what, h) == [NoSweep EXCEPT !.pc = "asked", !.for = what, !.gen = h.gen, !.nonce = h.nonce]

(* pollEncryptedHost begins with applyRevocations; a host whose signer was *)
(* removed goes on with the membership it stopped for.                     *)
SweepBegins ==
  /\ sweep.pc = "idle" /\ host.gen < MaxGenerations /\ (host.open \/ disk.authority = "revoked")
  /\ IF disk.authority # "revoked" THEN sweep' = Asks("removals", host) /\ UNCHANGED host
     ELSE /\ host' = HostClosed(Disconnected(host))
          /\ sweep' = IF host.membership >= disk.floor
                      THEN [NoSweep EXCEPT !.pc = "removals", !.seq = host.membership, !.gen = host.gen + 1, !.bare = TRUE]
                      ELSE [Asks("removals", host') EXCEPT !.bare = TRUE]
  /\ UNCHANGED <<signedLog, challenges, receipts, disk, proposal, holds, handed, lives>>

(* The hub answers with its log and, for this challenge, the proof it has. *)
HubReplies ==
  /\ sweep.pc = "asked"
  /\ sweep' = [sweep EXCEPT !.pc = "read", !.seq = LogHead,
       !.proof = IF challenges.nonce = sweep.nonce /\ sweep.nonce # 0 THEN challenges.proof ELSE -1]
  /\ UNCHANGED <<signedLog, challenges, receipts, disk, host, proposal, holds, handed, lives>>
RequestFails ==
  /\ sweep.pc = "asked" /\ SweepEnds
  /\ UNCHANGED <<signedLog, challenges, receipts, disk, host, proposal, holds, handed, lives>>

(* readMembership: a log shorter than one seen before is refused.          *)
MembershipRead ==
  /\ sweep.pc = "read"
  /\ IF sweep.seq < Floor
     THEN /\ host' = [host EXCEPT !.reconciled = @ /\ sweep.gen # host.gen]
          /\ SweepEnds /\ UNCHANGED disk
     ELSE IF sweep.bare
     THEN /\ host' = [host EXCEPT !.observed = sweep.seq, !.membership = sweep.seq]
          /\ disk' = [disk EXCEPT !.floor = sweep.seq]
          /\ sweep' = [sweep EXCEPT !.pc = "removals"]
     ELSE /\ host' = [host EXCEPT !.observed = sweep.seq]
          /\ sweep' = [sweep EXCEPT !.pc = IF Says("delete", sweep.seq) /\ disk.deletion # "acknowledged"
                                           THEN "deletion" ELSE "decide"]
          /\ UNCHANGED disk
  /\ UNCHANGED <<signedLog, challenges, receipts, proposal, holds, handed, lives>>

(* performDeletions: the fence first, then the turn is stopped ...         *)
DeletionFenced ==
  /\ sweep.pc = "deletion" /\ disk' = [disk EXCEPT !.fence = TRUE]
  /\ sweep' = [sweep EXCEPT !.pc = "stopping"]
  /\ UNCHANGED <<signedLog, challenges, receipts, host, proposal, holds, handed, lives>>
(* ... and awaited, the room rotated, the task forgotten ...               *)
DeletionApplied ==
  /\ sweep.pc = "stopping" /\ ~host.running
  /\ holds' = FALSE /\ disk' = [disk EXCEPT !.deletion = "applied"]
  /\ sweep' = [sweep EXCEPT !.pc = "telling"]
  /\ UNCHANGED <<signedLog, challenges, receipts, host, proposal, handed, lives>>
(* ... and the hub told; an answer that is lost has it told again.         *)
DeletionAcknowledged(heard) ==
  /\ sweep.pc = "telling" /\ receipts' = receipts \cup {"delete"}
  /\ IF heard THEN /\ disk' = [disk EXCEPT !.deletion = "acknowledged"]
                   /\ sweep' = [sweep EXCEPT !.pc = "decide"]
     ELSE SweepEnds /\ UNCHANGED disk
  /\ UNCHANGED <<signedLog, challenges, host, proposal, holds, handed, lives>>

Deciding == sweep.pc = "decide" /\ UNCHANGED <<signedLog, receipts, proposal, holds, handed, lives>>
Superseded == sweep.gen # host.gen
Unproved == ~host.reconciled

(* After an owner's recovery nothing resumes without consent at the host.  *)
RecoveryStops ==
  /\ Deciding /\ RequiresRecovery(sweep.seq)
  /\ host' = HostClosed([Disconnected(host) EXCEPT !.membership = sweep.seq])
  /\ disk' = [disk EXCEPT !.floor = sweep.seq] /\ SweepEnds /\ UNCHANGED challenges

(* The signer's own removal stops execution, and is applied nevertheless.  *)
SignerGone ==
  /\ Deciding /\ ~RequiresRecovery(sweep.seq) /\ SignerRevoked(sweep.seq)
  /\ host' = HostClosed([Disconnected(host) EXCEPT !.membership = sweep.seq])
  /\ disk' = [disk EXCEPT !.floor = sweep.seq, !.authority = "revoked"]
  /\ sweep' = IF sweep.for = "removals"
              THEN [sweep EXCEPT !.pc = "removals", !.bare = TRUE, !.gen = host'.gen] ELSE NoSweep
  /\ UNCHANGED challenges

Undecided(n) == Deciding /\ ~RequiresRecovery(n) /\ ~SignerRevoked(n)

(* beginReconcile: a new challenge; an older proof is renewed the same way. *)
ChallengePosted(lost) ==
  /\ Undecided(sweep.seq) /\ ~Superseded /\ Unproved /\ host.gen < MaxGenerations
  /\ sweep.nonce = 0 \/ host.nonce = 0 \/ sweep.proof \in 0..(sweep.seq - 1)
  /\ host' = [host EXCEPT !.gen = @ + 1, !.nonce = IF lost THEN 0 ELSE host.gen + 1]
  /\ challenges' = IF lost THEN challenges ELSE [nonce |-> host.gen + 1, proof |-> -1]
  /\ SweepEnds /\ UNCHANGED disk

(* Nothing proves the head, or the answer came for an earlier connection.  *)
NotProved ==
  /\ Undecided(sweep.seq)
  /\ Superseded \/ (Unproved /\ sweep.nonce # 0 /\ host.nonce # 0 /\ sweep.proof = -1)
  /\ SweepEnds /\ UNCHANGED <<challenges, disk, host>>

(* The head is proved, or was before on this connection: it is the floor,  *)
(* and turns that wait on who was removed are cancelled, which yields.     *)
MembershipTaken ==
  /\ Undecided(sweep.seq) /\ ~Superseded
  /\ Unproved => sweep.nonce # 0 /\ host.nonce = sweep.nonce /\ sweep.proof = sweep.seq
  /\ UNCHANGED challenges
  /\ IF sweep.seq < Floor THEN SweepEnds /\ host' = [host EXCEPT !.reconciled = FALSE] /\ UNCHANGED disk
     ELSE /\ host' = [host EXCEPT !.membership = sweep.seq]
          /\ disk' = [disk EXCEPT !.floor = sweep.seq]
          /\ sweep' = [sweep EXCEPT !.pc = "applying"]

(* The checkpoint cannot be written: execution stops.                      *)
CheckpointFails ==
  /\ Undecided(sweep.seq) /\ ~Superseded /\ sweep.seq >= Floor
  /\ Unproved => sweep.nonce # 0 /\ host.nonce = sweep.nonce /\ sweep.proof = sweep.seq
  /\ host' = HostClosed([Disconnected(host) EXCEPT !.membership = sweep.seq])
  /\ SweepEnds /\ UNCHANGED <<challenges, disk>>

-----------------------------------------------------------------------------
(* Reconciled: the sweep goes on with what it reconciled for.              *)

(* Mutant: what another request learned meanwhile is not looked at again.  *)
StillNewestUnchecked == sweep.gen = host.gen

StillNewest == sweep.gen = host.gen /\ sweep.seq >= Floor

(* finishOwnerRecovery rotates every room before anybody is told again.    *)
RecoveryFinished(d) == IF d.recovery = "pending" THEN [d EXCEPT !.recovery = "active"] ELSE d

OnTo(h) ==
  CASE sweep.for = "removals" -> [sweep EXCEPT !.pc = "removals"]
    [] sweep.for = "seal" -> IF disk.fence \/ ~Eligible(sweep.seq) THEN [sweep EXCEPT !.pc = "start"]
                             ELSE [sweep EXCEPT !.pc = "seal"]
    [] sweep.for = "deliver" -> Asks("share", h)
    [] OTHER -> [sweep EXCEPT !.pc = sweep.for]

(* admitParticipants: the history it sealed before it asked is delivered.  *)
Knows == Says("device", Floor)
Delivered == sweep.for = "deliver" /\ Eligible(sweep.seq) /\ ~disk.fence

Reconciled ==
  /\ sweep.pc = "applying" /\ UNCHANGED <<signedLog, challenges, receipts, proposal, lives>>
  /\ IF StillNewest /\ (disk.recovery = "pending" => ~host.running)
     THEN /\ host' = [host EXCEPT !.reconciled = TRUE]
          /\ disk' = RecoveryFinished(disk)
          /\ holds' = (holds /\ disk.recovery # "pending")
          /\ sweep' = OnTo(host')
          /\ handed' = (handed \/ (Delivered /\ Knows))
     ELSE /\ host' = [host EXCEPT !.reconciled = @ /\ sweep.gen # host.gen]
          /\ SweepEnds /\ UNCHANGED <<disk, holds, handed>>

(* applyRevocations: rotate, then save, then tell the hub.                 *)
Due == \E i \in (disk.rotated + 1)..sweep.seq : signedLog[i] = "device"

(* Mutant: the removal is recorded, and the room keeps its session.        *)
RecordedOnly ==
  /\ disk' = [disk EXCEPT !.rotated = sweep.seq, !.due = @ \/ Due]
  /\ sweep' = [sweep EXCEPT !.pc = "acknowledge"] /\ UNCHANGED holds
Rotated ==
  /\ disk' = [disk EXCEPT !.rotated = sweep.seq, !.due = @ \/ Due]
  /\ sweep' = [sweep EXCEPT !.pc = "acknowledge"] /\ holds' = (holds /\ ~Due)

RemovalsApplied ==
  /\ sweep.pc = "removals" /\ UNCHANGED <<signedLog, challenges, receipts, host, proposal, handed, lives>>
  /\ IF ~Due /\ ~disk.due
     THEN sweep' = (IF sweep.bare THEN NoSweep ELSE Asks("seal", host)) /\ UNCHANGED <<disk, holds>>
     ELSE IF Due /\ (sweep.gen # host.gen \/ ~(host.reconciled \/ sweep.bare))
     THEN SweepEnds /\ UNCHANGED <<disk, holds>>
     ELSE Rotated

RemovalsAcknowledged(heard) ==
  /\ sweep.pc = "acknowledge" /\ receipts' = receipts \cup {"device"}
  /\ disk' = IF heard THEN [disk EXCEPT !.due = FALSE] ELSE disk
  /\ sweep' = IF heard /\ ~sweep.bare THEN Asks("seal", host) ELSE NoSweep
  /\ UNCHANGED <<signedLog, challenges, host, proposal, holds, handed, lives>>

-----------------------------------------------------------------------------
(* admitParticipants: the history is exported and sealed, which yields;    *)
(* the membership is read again before it is delivered, and once more      *)
(* before the session is shared, in the queue all shares go through.       *)

HistorySealed ==
  /\ sweep.pc = "seal" /\ sweep' = Asks("deliver", host)
  /\ UNCHANGED <<signedLog, challenges, receipts, disk, host, proposal, holds, handed, lives>>

SessionShared ==
  /\ sweep.pc = "share"
  /\ LET shares == sweep.gen = host.gen /\ host.reconciled /\ Eligible(host.membership) /\ ~disk.fence
     IN  holds' = (holds \/ shares)
  /\ sweep' = [sweep EXCEPT !.pc = "start"]
  /\ UNCHANGED <<signedLog, challenges, receipts, disk, host, proposal, handed, lives>>

(* startTask, for a task that is not deleted.                              *)
TaskStarts ==
  /\ sweep.pc = "start" /\ SweepEnds
  /\ host' = [host EXCEPT !.running = host.open /\ host.reconciled /\ ~disk.fence /\ ~Says("delete", host.observed)]
  /\ UNCHANGED <<signedLog, challenges, receipts, disk, proposal, holds, handed, lives>>

-----------------------------------------------------------------------------
(* A person at the host appoints another endpoint of the owner's.          *)

AppointmentPrepared ==
  /\ host.open /\ ~host.running
  /\ disk.authority = "appointed" => RequiresRecovery(LogHead)
  /\ host' = [host EXCEPT !.observed = LogHead]
  /\ proposal' = [seq |-> LogHead, gen |-> host.gen, floor |-> disk.floor, authority |-> disk.authority]
  /\ UNCHANGED <<signedLog, challenges, receipts, disk, sweep, holds, handed, lives>>

(* Confirmed against what it was prepared for.  Polling ends here: the     *)
(* desktop starts the host again.                                          *)
AppointmentConfirmed ==
  /\ proposal.seq > 0 /\ host.open /\ ~host.running /\ proposal' = NoProposal
  /\ LET n == LogHead
         taken == proposal = [seq |-> n, gen |-> host.gen, floor |-> disk.floor, authority |-> disk.authority]
         seen == [host EXCEPT !.observed = n]
     IN  IF ~taken THEN host' = seen /\ UNCHANGED disk
         ELSE /\ host' = HostClosed([Disconnected(seen) EXCEPT !.membership = n])
              /\ disk' = [disk EXCEPT !.floor = n, !.authority = "appointed", !.epoch = Says("recover", n),
                                      !.recovery = IF RequiresRecovery(n) THEN "pending" ELSE @]
  /\ UNCHANGED <<signedLog, challenges, receipts, sweep, holds, handed, lives>>

HostNext ==
  \/ \E what \in Concerns : LogGrows(what)
  \/ SignerSigns \/ LinkDrops \/ ChallengeLapses \/ HostDies \/ TurnFinishes
  \/ SweepBegins \/ HubReplies \/ RequestFails \/ MembershipRead
  \/ DeletionFenced \/ DeletionApplied \/ RecoveryStops \/ SignerGone \/ NotProved
  \/ \E b \in BOOLEAN : DeletionAcknowledged(b) \/ ChallengePosted(b) \/ RemovalsAcknowledged(b)
  \/ MembershipTaken \/ CheckpointFails \/ Reconciled \/ RemovalsApplied
  \/ HistorySealed \/ SessionShared \/ TaskStarts
  \/ AppointmentPrepared \/ AppointmentConfirmed

HostSpec == HostInit /\ [][HostNext]_hostVars

-----------------------------------------------------------------------------
(* Every variable has its shape.                                           *)
HostTypeOK ==
  /\ Len(signedLog) <= MaxConcerns /\ \A i \in DOMAIN signedLog : signedLog[i] \in Concerns
  /\ challenges.proof \in -1..LogHead /\ receipts \subseteq Concerns
  /\ disk.floor \in 0..LogHead /\ disk.rotated \in 0..LogHead
  /\ disk.authority \in {"genesis", "appointed", "revoked"} /\ disk.recovery \in {"none", "pending", "active"}
  /\ host.observed \in 0..LogHead /\ host.membership \in 0..LogHead /\ host.gen \in Nat
  /\ sweep.seq \in 0..LogHead /\ proposal.seq \in 0..LogHead
  /\ {holds, handed, host.reconciled, host.running, host.open} \subseteq BOOLEAN

(* Removed means locked out: once the host acknowledged that a device was  *)
(* removed the device holds no session of the task, its history is never   *)
(* handed to a device the host had seen removed, even by another request   *)
(* while it was sealing, and a task whose deletion it acknowledged does    *)
(* not run.                                                                *)
RemovedStaysOut ==
  /\ "device" \in receipts => ~holds
  /\ ~handed
  /\ "delete" \in receipts => ~host.running

=============================================================================
