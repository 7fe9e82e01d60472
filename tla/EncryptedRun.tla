----------------------------- MODULE EncryptedRun -----------------------------
(***************************************************************************)
(* Turns of one encrypted task on its host: what the host keeps on disk,   *)
(* what it writes in the task's log and what it does with the commands     *)
(* people seal to it (packages/runtime/encrypted-execution.js,             *)
(* encrypted-run.js, apply in encrypted-host.js).                          *)
(*                                                                         *)
(* The log and the disk are written one after the other, an append may be  *)
(* lost, or reach the relay and its answer be lost, and the process may    *)
(* end between any two of them.  A turn asks once at most and waits for    *)
(* the answer; the request carries the number of its turn.  How a session  *)
(* settles requests is module TurnSession; how the writer sends an entry   *)
(* again is module EncryptedTaskLog.                                       *)
(***************************************************************************)
EXTENDS Integers, Sequences, FiniteSets

CONSTANTS
  Orders,   \* what people send: records [action, by, turn], each with an id of its own
  MaxSent,  \* bound: how many of them are sent
  MaxTurns, \* bound: turns
  MaxFaults \* bound: failing appends, and starts of the host's process after the first

ASSUME RunAssumption ==
  /\ \A o \in Orders : /\ o.action \in {"start", "continue", "accept", "cancel", "grant", "revoke", "interrupt", "outcome"}
                       /\ o.by \in {"owner", "mate"} /\ o.turn \in 1..MaxTurns
  /\ {MaxSent, MaxTurns, MaxFaults} \subseteq Nat

VARIABLES
  taskLog,   \* relay: the task's log, decrypted
  stuck,     \* host disk: the entry saved as pending, if the relay has not got it
  execution, \* host disk: execution:<task>
  commands,  \* host disk: control:<task>:<command>
  control,   \* host memory: the command being applied
  turn,      \* host memory: pending, active, and the run's queue of appends
  approver,  \* the owner's device: "verified", "removed", or removed and told so
  shut,      \* host memory: EncryptedExecution.closed
  faults     \* how often an append failed or the process ended

runVars == <<taskLog, stuck, execution, commands, control, turn, approver, shut, faults>>

Turns == 1..MaxTurns
Entry(what, t, said) == [what |-> what, turn |-> t, said |-> said]
NoEntry == Entry("none", 0, "none")
NoTurn == [pc |-> "none", id |-> 0, queue |-> <<>>, failed |-> FALSE, stopping |-> FALSE,
           asked |-> FALSE, answer |-> "none", authority |-> FALSE]
NoControl == [pc |-> "none", order |-> [action |-> "none", by |-> "owner", turn |-> 0]]

RunInit ==
  /\ taskLog = <<>> /\ stuck = NoEntry /\ turn = NoTurn /\ control = NoControl
  /\ execution = [state |-> "none", turn |-> 0, open |-> {}, settled |-> [t \in Turns |-> "none"], abandoned |-> {},
                  atFailure |-> {}, failure |-> FALSE, granted |-> FALSE, logged |-> FALSE]
  /\ commands = [o \in Orders |-> "new"] /\ approver = "verified" /\ shut = FALSE /\ faults = 0

Saying(what, t) == \E i \in DOMAIN taskLog : taskLog[i].what = what /\ taskLog[i].turn = t

(* EncryptedTaskWriter.write: what is pending goes first.                  *)
Through == IF stuck = NoEntry THEN taskLog ELSE Append(taskLog, stuck)
Written(e) == taskLog' = Append(Through, e) /\ stuck' = NoEntry
(* The append fails: the relay has the entry, or it stays pending.         *)
NotWritten(e, reached) ==
  /\ faults < MaxFaults /\ faults' = faults + 1
  /\ IF reached THEN Written(e) ELSE taskLog' = Through /\ stuck' = e

(* The claim of a command is saved as what came of it.                     *)
Refused == commands' = [commands EXCEPT ![control.order] = "rejected"] /\ control' = NoControl
Completed == commands' = [commands EXCEPT ![control.order] = "completed"] /\ control' = NoControl

-----------------------------------------------------------------------------
(* startTask.                                                              *)

Startable == turn.pc = "none" /\ ~shut /\ ~(\E t \in 0..MaxTurns : Saying("outcome", t))
Begun == turn' = [NoTurn EXCEPT !.pc = "creating", !.id = execution.turn + 1]

(* The sweep starts a task it has never started.                           *)
TaskBegins ==
  /\ Startable /\ execution.state = "none" /\ control.pc = "none" /\ MaxTurns > 0 /\ Begun
  /\ UNCHANGED <<taskLog, stuck, execution, commands, control, approver, shut, faults>>

(* ensureTaskCreated fails: nothing was started.                           *)
TaskNotCreated(reached) ==
  /\ turn.pc = "creating" /\ taskLog = <<>> /\ turn' = NoTurn
  /\ NotWritten(Entry("created", 0, "none"), reached)
  /\ IF control.pc = "starting" THEN Refused
     ELSE UNCHANGED <<commands, control>>
  /\ UNCHANGED <<execution, approver, shut>>

(* The record is saved as running before the provider can act.             *)
TurnRuns ==
  /\ turn.pc = "creating" /\ ~shut
  /\ IF taskLog = <<>> THEN Written(Entry("created", 0, "none")) ELSE UNCHANGED <<taskLog, stuck>>
  /\ execution' = [execution EXCEPT !.state = "running", !.turn = turn.id, !.open = {}, !.abandoned = {},
                                    !.atFailure = {}, !.failure = FALSE, !.granted = FALSE, !.logged = FALSE]
  /\ turn' = [turn EXCEPT !.pc = "running", !.queue = <<Entry("started", turn.id, "none")>>,
                          !.authority = approver = "verified"]
  /\ IF control.pc = "starting" THEN Completed ELSE UNCHANGED <<commands, control>>
  /\ UNCHANGED <<approver, shut, faults>>

TurnTooLate ==
  /\ turn.pc = "creating" /\ shut /\ turn' = NoTurn
  /\ IF control.pc = "starting" THEN Refused
     ELSE UNCHANGED <<commands, control>>
  /\ UNCHANGED <<taskLog, stuck, execution, approver, shut, faults>>

-----------------------------------------------------------------------------
(* The turn: what the session tells goes to the disk and to the queue, in  *)
(* the order the callbacks run; neither after the host began to close.     *)

Telling(t, e) == IF shut \/ t.failed THEN t ELSE [t EXCEPT !.queue = Append(@, e)]
Updated(d) == IF shut THEN execution ELSE d

RequestMade ==
  /\ turn.pc = "running" /\ ~turn.asked /\ ~turn.stopping /\ ~shut
  /\ turn' = Telling([turn EXCEPT !.asked = TRUE], Entry("asked", turn.id, "none"))
  /\ execution' = Updated([execution EXCEPT !.open = {turn.id}])
  /\ UNCHANGED <<taskLog, stuck, commands, control, approver, shut, faults>>

(* Mutant: the reason is kept in place of the decision.                    *)
SettledWithReason(d, said) ==
  [d EXCEPT !.open = {}, !.granted = FALSE, !.settled[turn.id] = IF said = "cancel" THEN "turn_interrupted" ELSE said]

SettledAs(d, said) == [d EXCEPT !.open = {}, !.granted = FALSE, !.settled[turn.id] = said]
Awaited == turn.pc = "running" /\ turn.asked /\ turn.answer = "none"

(* Mutant: the answer is in the log, and on disk only later.               *)
SettlingUnsaved(said) ==
  /\ turn' = Telling([turn EXCEPT !.answer = said], Entry("decided", turn.id, said))
  /\ UNCHANGED execution

Settling(said) ==
  /\ turn' = Telling([turn EXCEPT !.answer = said], Entry("decided", turn.id, said))
  /\ execution' = Updated(SettledAs(execution, said))

RequestExpires ==
  /\ Awaited /\ Settling("cancel")
  /\ UNCHANGED <<taskLog, stuck, commands, control, approver, shut, faults>>

(* A turn told to stop cancels what it waits for.                          *)
StoppedTurn(t) == [t EXCEPT !.stopping = TRUE, !.answer = IF Awaited THEN "cancel" ELSE @]
Cancelled(t) == IF Awaited THEN Telling(StoppedTurn(t), Entry("decided", turn.id, "cancel")) ELSE StoppedTurn(t)
CancelledOnDisk(d) == IF Awaited THEN SettledAs(d, "cancel") ELSE d

(* session.run returned; the record says running until all is written.     *)
TurnEnds ==
  /\ turn.pc = "running" /\ ~Awaited
  /\ turn' = Telling([turn EXCEPT !.pc = "flushing"], Entry("ended", turn.id, "none"))
  /\ execution' = Updated([execution EXCEPT !.granted = FALSE])
  /\ UNCHANGED <<taskLog, stuck, commands, control, approver, shut, faults>>

QueueAppends ==
  /\ turn.queue # <<>> /\ Written(turn.queue[1]) /\ turn' = [turn EXCEPT !.queue = Tail(@)]
  /\ IF control.pc = "waiting" /\ turn.queue[1].what \in {"receipt", "granted", "revoked"}
     THEN Completed ELSE UNCHANGED <<commands, control>>
  /\ UNCHANGED <<execution, approver, shut, faults>>

(* The first failure sticks: the record is marked and the turn stopped.    *)
QueueFails(reached) ==
  /\ turn.queue # <<>> /\ NotWritten(turn.queue[1], reached)
  /\ turn' = [StoppedTurn(turn) EXCEPT !.failed = TRUE, !.queue = <<>>]
  /\ execution' = Updated(CancelledOnDisk([execution EXCEPT !.state = "recovery", !.failure = TRUE, !.atFailure = execution.open,
                                                            !.granted = FALSE]))
  /\ IF control.pc = "waiting" THEN Refused
     ELSE UNCHANGED <<commands, control>>
  /\ UNCHANGED <<approver, shut>>

TurnSettles ==
  /\ turn.pc = "flushing" /\ turn.queue = <<>> /\ turn' = NoTurn
  /\ execution' = Updated([execution EXCEPT !.state = IF turn.failed THEN "recovery" ELSE "finished", !.granted = FALSE])
  /\ UNCHANGED <<taskLog, stuck, commands, control, approver, shut, faults>>

-----------------------------------------------------------------------------
(* reconcile: a turn that was lost is told to the log before anything else *)
(* happens, under ids that make telling it twice telling it once.          *)

Lost == turn.pc = "none" /\ ~shut /\ execution.state \in {"running", "recovery"} /\ ~execution.logged
        /\ control.pc \in {"none", "taken"}

Abandoned == execution.atFailure \cup execution.open

(* Mutant: only what the disk says was open is closed in the log.          *)
UnresolvedOnDisk == {}
Unresolved == {t \in Turns : Saying("asked", t) /\ ~Saying("decided", t) /\ ~Saying("closed", t)}

ToDecide == {t \in Unresolved \cup Abandoned : ~Saying("closed", t)}
Verdict(t) == IF execution.settled[t] = "none" THEN "cancel" ELSE execution.settled[t]

LostRequestDecided(t) ==
  /\ Lost /\ t \in ToDecide /\ taskLog # <<>> /\ Written(Entry("closed", t, Verdict(t)))
  /\ UNCHANGED <<execution, commands, control, turn, approver, shut, faults>>
Closing == [execution EXCEPT !.state = "recovery", !.logged = TRUE, !.granted = FALSE,
                             !.abandoned = Abandoned, !.open = {}]
LostTurnTold(heard) ==
  /\ Lost /\ ToDecide = {} /\ taskLog # <<>> /\ ~Saying("recovery", execution.turn)
  /\ Written(Entry("recovery", execution.turn, IF execution.failure THEN "unwritable" ELSE "restarted"))
  /\ execution' = IF heard THEN Closing ELSE execution
  /\ UNCHANGED <<commands, control, turn, approver, shut, faults>>
LostTurnToldBefore ==
  /\ Lost /\ ToDecide = {} /\ Saying("recovery", execution.turn) /\ execution' = Closing
  /\ UNCHANGED <<taskLog, stuck, commands, control, turn, approver, shut, faults>>

-----------------------------------------------------------------------------
(* apply: one command of a task at a time.  The claim is saved before      *)
(* anything is done; a refusal with a code is saved as final.              *)

ControlTaken(o) ==
  /\ control.pc = "none" /\ turn.pc # "creating" /\ ~shut /\ commands[o] = "new"
  /\ Cardinality({p \in Orders : commands[p] # "new"}) < MaxSent
  /\ o.by = "owner" => approver = "verified"
  /\ commands' = [commands EXCEPT ![o] = "accepted"] /\ control' = [pc |-> "taken", order |-> o]
  /\ UNCHANGED <<taskLog, stuck, execution, turn, approver, shut, faults>>

Acting(actions) == control.pc = "taken" /\ control.order.action \in actions /\ ~Lost
                   /\ UNCHANGED <<approver, shut>>
Running == turn.pc = "running" /\ turn.id = control.order.turn

(* turn.start: after a lost turn only if its outcome is acknowledged.      *)
ControlStarts ==
  /\ Acting({"start", "continue"}) /\ UNCHANGED <<faults, taskLog, stuck, execution>>
  /\ IF /\ Startable /\ execution.turn < MaxTurns /\ execution.state # "running"
        /\ execution.state = "recovery" => control.order.action = "continue"
     THEN Begun /\ control' = [control EXCEPT !.pc = "starting"] /\ UNCHANGED commands
     ELSE Refused /\ UNCHANGED turn

(* approval.resolve: the owner's device, or whoever it was granted to.     *)
May == IF control.order.by = "owner" THEN approver = "verified" ELSE execution.granted
ControlAnswers ==
  /\ Acting({"accept", "cancel"}) /\ UNCHANGED <<faults, taskLog, stuck>>
  /\ IF Running /\ Awaited /\ control.order.turn \notin execution.abandoned
        /\ execution.settled[control.order.turn] = "none" /\ May
     THEN Settling(control.order.action) /\ Completed
     ELSE Refused /\ UNCHANGED <<turn, execution>>

(* approval.grant, approval.revoke: the project's participants are asked   *)
(* for, and much may happen before they are known.                         *)
ControlDelegates ==
  /\ Acting({"grant", "revoke"}) /\ UNCHANGED <<faults, taskLog, stuck, execution, turn>>
  /\ IF Running /\ control.order.by = "owner"
     THEN control' = [control EXCEPT !.pc = "delegating"] /\ UNCHANGED commands ELSE Refused
ControlDelegated ==
  /\ control.pc = "delegating" /\ UNCHANGED <<approver, shut, faults>>
  /\ LET grant == control.order.action = "grant"
         e == Entry(IF grant THEN "granted" ELSE "revoked", control.order.turn, "none")
         over == turn.id # control.order.turn
         failed == turn.failed \/ (over /\ execution.state = "recovery")
     IN  IF failed \/ (grant /\ (over \/ ~Awaited))
         THEN Refused /\ UNCHANGED <<taskLog, stuck, execution, turn>>
         ELSE /\ execution' = [execution EXCEPT !.granted = grant]
              /\ IF over THEN Written(e) /\ Completed /\ UNCHANGED turn
                 ELSE /\ turn' = [turn EXCEPT !.queue = Append(@, e)] /\ control' = [control EXCEPT !.pc = "waiting"]
                      /\ UNCHANGED <<taskLog, stuck, commands>>

ControlInterrupts ==
  /\ Acting({"interrupt"}) /\ UNCHANGED <<faults, taskLog, stuck>>
  /\ IF ~Running THEN Refused /\ UNCHANGED <<turn, execution>>
     ELSE /\ execution' = Updated(CancelledOnDisk(execution))
          /\ IF turn.failed THEN turn' = Cancelled(turn) /\ Refused
             ELSE /\ turn' = [Cancelled(turn) EXCEPT !.queue = Append(@, Entry("receipt", turn.id, "none"))]
                  /\ control' = [control EXCEPT !.pc = "waiting"] /\ UNCHANGED commands

(* task.outcome: also while a turn runs.  A lost append is answered as a   *)
(* refusal, and the entry is sent with the next one.                       *)
ControlConcludes(fails, reached) ==
  /\ Acting({"outcome"}) /\ taskLog # <<>> /\ UNCHANGED <<execution, turn>>
  /\ LET e == Entry("outcome", 0, "none")
     IN  IF Saying("outcome", 0) THEN Refused /\ UNCHANGED <<taskLog, stuck, faults>>
         ELSE IF fails THEN NotWritten(e, reached) /\ Refused
         ELSE Written(e) /\ Completed /\ UNCHANGED faults

-----------------------------------------------------------------------------
(* The approving device is removed; the host closes; the process ends.     *)

(* applyMembership stops the turns that wait on it, and waits for them.    *)
ApproverRemoved ==
  /\ approver = "verified" /\ approver' = "removed"
  /\ IF turn.pc = "running" /\ turn.authority
     THEN /\ turn' = Cancelled(turn) /\ execution' = CancelledOnDisk([execution EXCEPT !.granted = FALSE])
     ELSE UNCHANGED <<turn, execution>>
  /\ UNCHANGED <<taskLog, stuck, commands, control, shut, faults>>
RemovalTold ==
  /\ approver = "removed" /\ (turn.pc \in {"running", "flushing"} => ~turn.authority) /\ approver' = "told"
  /\ UNCHANGED <<taskLog, stuck, execution, commands, control, turn, shut, faults>>

(* close: turns are interrupted, and what is queued is still sent.         *)
HostStops ==
  /\ ~shut /\ faults < MaxFaults /\ shut' = TRUE /\ turn' = IF turn.pc = "running" THEN StoppedTurn(turn) ELSE turn
  /\ UNCHANGED <<taskLog, stuck, execution, commands, control, approver, faults>>

(* A new process opens the task, which sends what was pending.             *)
HostStartsAgain ==
  /\ faults < MaxFaults /\ faults' = faults + 1 /\ shut' = FALSE
  /\ turn' = NoTurn /\ control' = NoControl /\ taskLog' = Through /\ stuck' = NoEntry
  /\ UNCHANGED <<execution, commands, approver>>

RunNext ==
  \/ TaskBegins \/ TurnRuns \/ TurnTooLate \/ RequestMade \/ RequestExpires \/ TurnEnds
  \/ QueueAppends \/ TurnSettles \/ LostTurnToldBefore
  \/ \E t \in Turns : LostRequestDecided(t)
  \/ \E o \in Orders : ControlTaken(o)
  \/ \E b \in BOOLEAN : TaskNotCreated(b) \/ QueueFails(b) \/ LostTurnTold(b) \/ (\E f \in BOOLEAN : ControlConcludes(f, b))
  \/ ControlStarts \/ ControlAnswers \/ ControlDelegates \/ ControlDelegated \/ ControlInterrupts
  \/ ApproverRemoved \/ RemovalTold \/ HostStops \/ HostStartsAgain

RunSpec == RunInit /\ [][RunNext]_runVars

-----------------------------------------------------------------------------
(* Every variable has its shape.                                           *)
RunTypeOK ==
  /\ \A i \in DOMAIN taskLog : taskLog[i].turn \in 0..MaxTurns
  /\ execution.turn \in 0..MaxTurns /\ execution.state \in {"none", "running", "recovery", "finished"}
  /\ execution.settled \in [Turns -> {"none", "accept", "cancel"}]
  /\ {execution.open, execution.abandoned, execution.atFailure} \subseteq SUBSET Turns
  /\ commands \in [Orders -> {"new", "accepted", "rejected", "completed"}]
  /\ control.pc \in {"none", "taken", "starting", "delegating", "waiting"}
  /\ turn.pc \in {"none", "creating", "running", "flushing"} /\ turn.id \in 0..MaxTurns
  /\ approver \in {"verified", "removed", "told"} /\ faults \in 0..MaxFaults

Answer(i) == taskLog[i].what \in {"decided", "closed"}

(* What the log tells of a task is true, whatever was lost and whenever    *)
(* the host stopped: an answer it gives is the answer the host has on      *)
(* record, a turn lost in a crash has no request left open once the log    *)
(* tells so, a lost turn tells nothing more of itself, a turn on record as *)
(* finished has its end in the log, and the turn of a removed approver is  *)
(* over once the removal is told.                                          *)
TaskHistoryTrue ==
  /\ \A i \in DOMAIN taskLog : Answer(i) => execution.settled[taskLog[i].turn] \in {taskLog[i].said, "none"}
  /\ \A i \in DOMAIN taskLog : Answer(i) /\ taskLog[i].said = "accept" => execution.settled[taskLog[i].turn] = "accept"
  /\ \A i \in DOMAIN taskLog : taskLog[i].what = "recovery" =>
       /\ taskLog[i].said = "restarted" => \A j \in 1..i : taskLog[j].what = "asked" =>
            \E k \in 1..i : Answer(k) /\ taskLog[k].turn = taskLog[j].turn
       /\ \A j \in DOMAIN taskLog : j > i /\ taskLog[j].turn = taskLog[i].turn => taskLog[j].what = "closed"
  /\ execution.state = "finished" => Saying("ended", execution.turn)
  /\ approver = "told" /\ turn.pc = "running" => ~turn.authority

=============================================================================
