---------------------------- MODULE TurnSession ----------------------------
(***************************************************************************)
(* The turns of one thread on its execution host                           *)
(* (packages/runtime/session.js, and the parts of index.js that start a    *)
(* turn, dispatch answers, steers and interrupts to it, and account for it *)
(* after a restart).                                                       *)
(*                                                                         *)
(* A turn streams from a model, makes the tool calls the model asked for,  *)
(* and streams again.  A call that changes the workspace may first need a  *)
(* person's approval; the request is remembered three times: in the        *)
(* session, in the thread object the session closes over, and on disk.     *)
(* People answer, steer and interrupt while the turn waits; a timer lets a *)
(* request expire; writing to the disk may fail; the process may stop.     *)
(*                                                                         *)
(* A promise that is resolved runs its continuation later ("released"):    *)
(* messages that came in the same read of the socket are handled between.  *)
(* The generic model loop asks one thing at a time; read-only tools and    *)
(* plans change nothing here and are left out.                             *)
(***************************************************************************)
EXTENDS Integers, Sequences, FiniteSets

CONSTANTS
  People,       \* who may answer an approval request
  Approvers,    \* those of them the hub says hold approval authority
  Presets,      \* policy presets up to this host's ceiling
  MaxRounds,    \* model calls in a turn (32 in the code)
  MaxTurns,     \* bound: turns started
  MaxRequests,  \* bound: approval requests made
  MaxSteers,    \* bound: steers accepted in a turn
  MaxFaults,    \* bound: writes to the disk that fail
  MaxCrashes    \* bound: crashes of the host

ASSUME PeopleAssumption == Approvers \subseteq People
ASSUME PresetsAssumption ==
  Presets \subseteq {"read-only", "agent", "agent-untrusted", "full-access"}
ASSUME BoundsAssumption ==
  /\ MaxRounds \in Nat \ {0} /\ MaxTurns \in Nat /\ MaxRequests \in Nat
  /\ MaxSteers \in Nat /\ MaxFaults \in Nat /\ MaxCrashes \in Nat

VARIABLES
  up,           \* the process runs and has been welcomed by the hub
  live,         \* sessions has a running session for the thread
  turns,        \* turns started; the last one is the live one
  preset,       \* settings of the live turn
  stage,        \* where the turn is: idle, stream, calls, waiting, released
  rounds,       \* model calls made in the turn
  cancelled,    \* the turn was told to stop
  ended,        \* how the last turn ended
  accepted,     \* steers accepted in the turn
  delivered,    \* steers the model was given; the rest is the steer queue
  asks,         \* approval requests made so far, [turn, action]
  pending,      \* pendingApprovals: the request the turn waits on, or 0
  due,          \* the pending request is past expiresAt
  released,     \* decision its promise was resolved with
  settled,      \* settledApprovals of the session and of its thread object
  open,         \* openApprovals of the thread object
  diskSettled,  \* the same two on disk,
  diskOpen,
  abandoned,    \* and abandonedApprovals on disk
  mutations,    \* history: changes made to the workspace
  winners,      \* history: answers that were accepted, [by, req, decision]
  announced,    \* history: outcomes of a request teammates were told
  reply,        \* the refusal just given, [req, code], if one of Fates
  faults, crashes

turnVars == <<live, turns, preset, stage, rounds, cancelled, ended, accepted, delivered>>
requestVars == <<asks, pending, due, released, settled, open>>
diskVars == <<diskSettled, diskOpen, abandoned>>
historyVars == <<mutations, winners, announced>>
vars == <<up, turnVars, requestVars, diskVars, historyVars, reply, faults, crashes>>

Requests == 1 .. MaxRequests
Actions == {"remove", "write"}
Decisions == {"accept", "decline", "cancel"}
Receipts == Decisions \cup {"expired"}     \* "expired": declined, approval_expired
Unsettled == [r \in Requests |-> "none"]
Asked == 1 .. Len(asks)
NoReply == [req |-> 0, code |-> "none"]
Quiet == reply' = NoReply

(* policy.js for the two calls that change the workspace.  Writes stay     *)
(* inside the workspace; a collision with a teammate's recent change makes *)
(* a write ask unless approvals are off.                                   *)
Verdict(p, action, collision) ==
  IF p = "read-only" THEN "deny"
  ELSE IF p # "full-access" /\ (action = "remove" \/ collision) THEN "ask" ELSE "allow"

Init ==
  /\ up = TRUE /\ live = FALSE /\ turns = 0 /\ preset = "none"
  /\ stage = "idle" /\ rounds = 0 /\ cancelled = FALSE /\ ended = "none"
  /\ accepted = 0 /\ delivered = 0
  /\ asks = <<>> /\ pending = 0 /\ due = FALSE /\ released = "none"
  /\ settled = Unsettled /\ open = {}
  /\ diskSettled = Unsettled /\ diskOpen = {} /\ abandoned = {}
  /\ mutations = {} /\ winners = {} /\ announced = [r \in Requests |-> {}]
  /\ reply = NoReply /\ faults = 0 /\ crashes = 0

-----------------------------------------------------------------------------
(* The turn begins and ends.                                               *)

(* turnStart: one turn at a time; the session starts from the row on disk. *)
TurnStarts(p) ==
  /\ up /\ Quiet /\ ~live /\ turns < MaxTurns
  /\ live' = TRUE /\ turns' = turns + 1 /\ preset' = p
  /\ stage' = "stream" /\ rounds' = 1 /\ cancelled' = FALSE /\ ended' = "none"
  /\ accepted' = 0 /\ delivered' = 0
  /\ settled' = diskSettled /\ open' = diskOpen
  /\ pending' = 0 /\ due' = FALSE /\ released' = "none"
  /\ UNCHANGED <<up, asks, diskVars, historyVars, faults, crashes>>

(* What the process held in memory is gone.                                *)
Forget ==
  /\ live' = FALSE /\ preset' = "none" /\ stage' = "idle" /\ cancelled' = FALSE
  /\ pending' = 0 /\ due' = FALSE /\ released' = "none"
  /\ settled' = Unsettled /\ open' = {}
  /\ rounds' = 0 /\ accepted' = 0 /\ delivered' = 0
  /\ UNCHANGED turns

Dies == up' = FALSE /\ ended' = "none" /\ Forget /\ UNCHANGED diskVars

Fault == faults < MaxFaults /\ faults' = faults + 1

(* run returns and the thread object is written for the last time; when    *)
(* that write fails nobody handles the rejection and the process dies.     *)
Finishes(status, openNow) ==
  \/ /\ ended' = status /\ Forget
     /\ diskSettled' = settled /\ diskOpen' = openNow
     /\ UNCHANGED <<up, abandoned, faults>>
  \/ Fault /\ Dies

Outcome(status) == IF cancelled THEN "interrupted" ELSE status

(* The provider throws, which is also what an aborted stream does.         *)
ProviderFails ==
  /\ up /\ Quiet /\ live /\ stage = "stream"
  /\ Finishes(Outcome("failed"), open)
  /\ UNCHANGED <<asks, historyVars, crashes>>

-----------------------------------------------------------------------------
(* The model loop.                                                         *)

(* Everything in the steer queue goes into the next model call.            *)
NextRound ==
  /\ rounds' = rounds + 1 /\ delivered' = accepted /\ stage' = "stream"
  /\ UNCHANGED <<up, live, turns, preset, cancelled, ended, accepted, requestVars,
                 diskVars, faults>>

(* Mutant: a turn ends when the model stops, whatever is in the queue.     *)
StreamEndsDeaf ==
  /\ up /\ Quiet /\ live /\ stage = "stream"
  /\ Finishes(Outcome("completed"), open)
  /\ UNCHANGED <<historyVars, asks, crashes>>

(* The stream ends without a call: what was steered meanwhile gets another *)
(* round, otherwise the turn is over.                                      *)
StreamEnds ==
  /\ up /\ Quiet /\ live /\ stage = "stream"
  /\ IF delivered < accepted /\ ~cancelled /\ rounds < MaxRounds
     THEN NextRound ELSE Finishes(Outcome("completed"), open)
  /\ UNCHANGED <<historyVars, asks, crashes>>

StreamCalls ==
  /\ up /\ Quiet /\ live /\ stage = "stream" /\ ~cancelled
  /\ stage' = "calls"
  /\ UNCHANGED <<up, live, turns, preset, rounds, cancelled, ended, accepted, delivered,
                 requestVars, diskVars, historyVars, faults, crashes>>

(* Mutant: model calls are not counted.                                    *)
CallsDoneEndless ==
  /\ up /\ Quiet /\ live /\ stage = "calls"
  /\ IF cancelled THEN Finishes(Outcome("completed"), open) ELSE NextRound
  /\ UNCHANGED <<historyVars, asks, crashes>>

CallsDone ==
  /\ up /\ Quiet /\ live /\ stage = "calls"
  /\ IF cancelled \/ rounds = MaxRounds
     THEN Finishes(Outcome("completed"), open) ELSE NextRound
  /\ UNCHANGED <<historyVars, asks, crashes>>

(* removePath and writeFile, when policy lets them act at once.            *)
ToolAllowed(action, collision) ==
  /\ up /\ Quiet /\ live /\ stage = "calls" /\ ~cancelled
  /\ Verdict(preset, action, collision) = "allow"
  /\ mutations' = mutations \cup {[turn |-> turns, action |-> action, req |-> 0]}
  /\ UNCHANGED <<up, turnVars, requestVars, diskVars, winners, announced, faults, crashes>>

(* requestApproval: the request is announced, then recorded as open, then  *)
(* awaited.  When recording it fails the tool throws and the turn fails;   *)
(* the last write of the turn records it, or fails too.                    *)
ToolAsks(action, collision) ==
  /\ up /\ Quiet /\ live /\ stage = "calls" /\ ~cancelled /\ Len(asks) < MaxRequests
  /\ Verdict(preset, action, collision) = "ask"
  /\ asks' = Append(asks, [turn |-> turns, action |-> action])
  /\ LET r == Len(asks) + 1
     IN  \/ /\ stage' = "waiting" /\ pending' = r /\ due' = FALSE
            /\ open' = open \cup {r} /\ diskOpen' = open \cup {r} /\ diskSettled' = settled
            /\ UNCHANGED <<up, live, turns, preset, rounds, cancelled, ended, accepted,
                           delivered, released, settled, abandoned, faults>>
         \/ /\ Fault /\ ended' = "failed" /\ Forget
            /\ diskSettled' = settled /\ diskOpen' = open \cup {r}
            /\ UNCHANGED <<up, abandoned>>
         \/ faults + 2 <= MaxFaults /\ faults' = faults + 2 /\ Dies
  /\ UNCHANGED <<historyVars, crashes>>

(* Mutant: the action an approval was for is not checked against a stop    *)
(* that came after the answer.                                             *)
ToolResumesAnyway ==
  /\ up /\ Quiet /\ live /\ stage = "released"
  /\ stage' = "calls" /\ released' = "none"
  /\ cancelled' = (cancelled \/ released = "cancel")
  /\ mutations' = IF released = "accept"
                  THEN mutations \cup {[turn |-> turns, action |-> asks[Len(asks)].action,
                                        req |-> Len(asks)]}
                  ELSE mutations
  /\ UNCHANGED <<up, live, turns, preset, rounds, ended, accepted, delivered, asks, pending,
                 due, settled, open, diskVars, winners, announced, faults, crashes>>

(* The awaited decision arrives: act, unless the turn was stopped since.   *)
(* A cancelled request stops the turn.                                     *)
ToolResumes ==
  /\ up /\ Quiet /\ live /\ stage = "released"
  /\ stage' = "calls" /\ released' = "none"
  /\ cancelled' = (cancelled \/ released = "cancel")
  /\ mutations' = IF released = "accept" /\ ~cancelled
                  THEN mutations \cup {[turn |-> turns, action |-> asks[Len(asks)].action,
                                        req |-> Len(asks)]}
                  ELSE mutations
  /\ UNCHANGED <<up, live, turns, preset, rounds, ended, accepted, delivered, asks, pending,
                 due, settled, open, diskVars, winners, announced, faults, crashes>>

-----------------------------------------------------------------------------
(* Settling the pending request.                                           *)

DecisionOf(receipt) == IF receipt = "expired" THEN "decline" ELSE receipt

(* What remains is what every settlement does, stored or not.              *)
Closes(receipt) ==
  /\ pending' = 0 /\ due' = FALSE
  /\ stage' = "released" /\ released' = DecisionOf(receipt)
  /\ settled' = [settled EXCEPT ![pending] = receipt]
  /\ open' = open \ {pending}
  /\ announced' = [announced EXCEPT ![pending] = @ \cup {receipt}]
  /\ UNCHANGED <<asks, abandoned>>

(* Mutant: the provider is released with the answer before the receipt is  *)
(* stored, and a failed write changes nothing about it.                    *)
SettlesFirst(receipt, stored) ==
  /\ Closes(receipt)
  /\ IF stored THEN diskSettled' = settled' /\ diskOpen' = open' /\ UNCHANGED faults
     ELSE Fault /\ UNCHANGED <<diskSettled, diskOpen>>

(* Mutant: a failed write leaves the provider waiting.                     *)
SettlesStuck(receipt, stored) ==
  \/ /\ stored /\ Closes(receipt)
     /\ diskSettled' = settled' /\ diskOpen' = open' /\ UNCHANGED faults
  \/ /\ ~stored /\ Fault /\ pending' = 0 /\ due' = FALSE
     /\ settled' = [settled EXCEPT ![pending] = "cancel"] /\ open' = open \ {pending}
     /\ UNCHANGED <<stage, released, announced, asks, diskVars>>

(* settleApproval: the receipt is stored before anybody is told; when that *)
(* fails the request is cancelled instead, in memory and for the provider. *)
Settles(receipt, stored) ==
  \/ /\ stored /\ Closes(receipt)
     /\ diskSettled' = settled' /\ diskOpen' = open' /\ UNCHANGED faults
  \/ /\ ~stored /\ Fault /\ Closes("cancel")
     /\ UNCHANGED <<diskSettled, diskOpen>>

Unsettling == UNCHANGED <<stage, requestVars, diskVars, announced, faults>>

(* expiresAt passes; the timer goes off later, or an answer comes first.   *)
TimePasses ==
  /\ up /\ Quiet /\ pending # 0 /\ ~due /\ due' = TRUE
  /\ UNCHANGED <<up, turnVars, asks, pending, released, settled, open, diskVars,
                 historyVars, faults, crashes>>

(* Mutant: the timer is set again.                                         *)
ExpiresLater ==
  /\ up /\ Quiet /\ pending # 0 /\ due /\ due' = FALSE
  /\ UNCHANGED <<up, turnVars, asks, pending, released, settled, open, diskVars,
                 historyVars, faults, crashes>>

(* The timer.  A failed write throws out of a timer callback.              *)
Expires ==
  /\ up /\ Quiet /\ pending # 0 /\ due
  /\ \/ /\ Settles("expired", TRUE)
        /\ UNCHANGED <<up, live, turns, preset, rounds, cancelled, ended, accepted, delivered>>
     \/ Fault /\ Dies /\ UNCHANGED <<asks, announced>>
  /\ UNCHANGED <<mutations, winners, crashes>>

(* Mutant: a stop leaves the prompt to its timer.                          *)
InterruptedLater ==
  /\ up /\ Quiet /\ live
  /\ cancelled' = TRUE /\ Unsettling
  /\ UNCHANGED <<up, live, turns, preset, rounds, ended, accepted, delivered,
                 mutations, winners, crashes>>

(* turn/interrupt naming the running turn, and the host's own interrupts   *)
(* (it was unpaired): the turn is told to stop, what it waits on is        *)
(* cancelled.                                                              *)
Interrupted ==
  /\ up /\ Quiet /\ live
  /\ cancelled' = TRUE
  /\ IF pending # 0 THEN \E stored \in BOOLEAN : Settles("cancel", stored) ELSE Unsettling
  /\ UNCHANGED <<up, live, turns, preset, rounds, ended, accepted, delivered,
                 mutations, winners, crashes>>

(* turn/steer naming the running turn.                                     *)
Steered ==
  /\ up /\ Quiet /\ live /\ accepted < MaxSteers
  /\ accepted' = accepted + 1
  /\ UNCHANGED <<up, live, turns, preset, stage, rounds, cancelled, ended, delivered,
                 requestVars, diskVars, historyVars, faults, crashes>>

-----------------------------------------------------------------------------
(* approval/resolve: dispatch looks first, then the session.               *)

(* Of the refusals, those are kept that tell whether the request was made; *)
(* the others tell how it was answered, or find fault with the answer.     *)
Fates == {"stale", "unknown"}
Refused(r, code) == reply' = IF code \in Fates THEN [req |-> r, code |-> code] ELSE NoReply

(* No authority; answered before; no session, so the request did not       *)
(* survive the host or was never made.                                     *)
AnswerWithoutSession(p, r) ==
  /\ up
  /\ \/ p \notin Approvers /\ Refused(r, "not_approver")
     \/ p \in Approvers /\ diskSettled[r] # "none" /\ Refused(r, "settled")
     \/ /\ p \in Approvers /\ diskSettled[r] = "none" /\ ~live
        /\ Refused(r, IF r \in diskOpen \cup abandoned THEN "stale" ELSE "unknown")
  /\ UNCHANGED <<up, turnVars, requestVars, diskVars, historyVars, faults, crashes>>

ReachesSession(p, r) == up /\ live /\ p \in Approvers /\ diskSettled[r] = "none"

(* resolveApproval after expirePendingApprovals: each way of being wrong   *)
(* has its own code.                                                       *)
SessionCode(receipts, waiting, r, d, t, a) ==
  IF d \notin Decisions THEN "scope"
  ELSE IF receipts[r] = "expired" THEN "expired"
  ELSE IF receipts[r] # "none" THEN "settled"
  ELSE IF r # waiting THEN "unknown"
  ELSE IF t = 0 \/ a = "none" THEN "binding"
  ELSE IF t # turns THEN "stale_turn"
  ELSE IF a # asks[r].action THEN "action_changed" ELSE "ok"

AnswerLate(p, r, d, t, a) ==
  /\ ReachesSession(p, r) /\ due
  /\ \/ Settles("expired", TRUE) /\ Refused(r, SessionCode(settled', 0, r, d, t, a))
     \/ Settles("expired", FALSE) /\ Refused(r, "failed")
  /\ UNCHANGED <<up, live, turns, preset, rounds, cancelled, ended, accepted, delivered,
                 mutations, winners, crashes>>

AnswerRefused(p, r, d, t, a) ==
  /\ ReachesSession(p, r) /\ ~due
  /\ SessionCode(settled, pending, r, d, t, a) # "ok"
  /\ Refused(r, SessionCode(settled, pending, r, d, t, a))
  /\ UNCHANGED <<up, turnVars, requestVars, diskVars, historyVars, faults, crashes>>

(* Mutant: the answer is reported as settled whether or not it was stored. *)
AnswerSettlesAnyway(p, r, d, t, a) ==
  /\ ReachesSession(p, r) /\ ~due
  /\ SessionCode(settled, pending, r, d, t, a) = "ok"
  /\ \E stored \in BOOLEAN : Settles(d, stored)
  /\ reply' = NoReply
  /\ winners' = winners \cup {[by |-> p, req |-> r, decision |-> d]}
  /\ UNCHANGED <<up, live, turns, preset, rounds, cancelled, ended, accepted, delivered,
                 mutations, crashes>>

AnswerSettles(p, r, d, t, a) ==
  /\ ReachesSession(p, r) /\ ~due
  /\ SessionCode(settled, pending, r, d, t, a) = "ok"
  /\ \/ /\ Settles(d, TRUE) /\ reply' = NoReply
        /\ winners' = winners \cup {[by |-> p, req |-> r, decision |-> d]}
     \/ Settles(d, FALSE) /\ Refused(r, "failed") /\ UNCHANGED winners
  /\ UNCHANGED <<up, live, turns, preset, rounds, cancelled, ended, accepted, delivered,
                 mutations, crashes>>

(* An answer names a request, a decision, a turn and an action; it may     *)
(* leave out the last two.                                                 *)
Answers ==
  \E p \in People, r \in Requests :
    \/ AnswerWithoutSession(p, r)
    \/ \E d \in Decisions \cup {"acceptForSession"},
          t \in 0 .. MaxTurns, a \in Actions \cup {"none"} :
         \/ AnswerLate(p, r, d, t, a)
         \/ AnswerRefused(p, r, d, t, a)
         \/ AnswerSettles(p, r, d, t, a)

-----------------------------------------------------------------------------
(* The process.                                                            *)

HostCrashes ==
  /\ up /\ Quiet /\ crashes < MaxCrashes /\ crashes' = crashes + 1
  /\ Dies
  /\ UNCHANGED <<asks, historyVars, faults>>

(* Mutant: requests that did not survive are cleared, not remembered.      *)
WelcomedForgetful ==
  /\ Quiet /\ (~up \/ (~live /\ diskOpen # {}))
  /\ up' = TRUE
  /\ diskOpen' = IF live THEN diskOpen ELSE {}
  /\ UNCHANGED <<turnVars, requestVars, diskSettled, abandoned, historyVars, faults, crashes>>

(* reconcileAfterRestart, run on every welcome: with no session behind it  *)
(* a request that is still open was abandoned.                             *)
Welcomed ==
  /\ Quiet /\ (~up \/ (~live /\ diskOpen # {}))
  /\ up' = TRUE
  /\ abandoned' = abandoned \cup diskOpen /\ diskOpen' = {}
  /\ UNCHANGED <<turnVars, requestVars, diskSettled, historyVars, faults, crashes>>

-----------------------------------------------------------------------------
Loop == ProviderFails \/ StreamEnds \/ StreamCalls \/ CallsDone \/ ToolResumes

Others ==
  \/ \E p \in Presets : TurnStarts(p)
  \/ \E action \in Actions, collision \in BOOLEAN :
       ToolAllowed(action, collision) \/ ToolAsks(action, collision)
  \/ Loop \/ TimePasses \/ Expires \/ Interrupted \/ Steered
  \/ HostCrashes \/ Welcomed

Next == Answers \/ Others

(* Time passes and timers go off; continuations run; an aborted stream     *)
(* ends, and the calls of a stopped turn are skipped.  A provider may      *)
(* otherwise stream for ever, and nobody has to answer.                    *)
Fairness ==
  /\ WF_vars(TimePasses) /\ WF_vars(Expires)
  /\ WF_vars(ToolResumes)
  /\ WF_vars(cancelled /\ (ProviderFails \/ StreamEnds))
  /\ WF_vars(cancelled /\ CallsDone)

Spec == Init /\ [][Next]_vars
FairSpec == Spec /\ Fairness
-----------------------------------------------------------------------------
(* Properties.                                                             *)

(* Every variable has its shape.                                           *)
TypeOK ==
  /\ up \in BOOLEAN /\ live \in BOOLEAN /\ cancelled \in BOOLEAN /\ due \in BOOLEAN
  /\ turns \in 0 .. MaxTurns /\ preset \in Presets \cup {"none"}
  /\ stage \in {"idle", "stream", "calls", "waiting", "released"}
  /\ rounds \in 0 .. MaxRounds
  /\ ended \in {"none", "completed", "interrupted", "failed"}
  /\ accepted \in 0 .. MaxSteers /\ delivered \in 0 .. MaxSteers
  /\ asks \in Seq([turn : 1 .. MaxTurns, action : Actions])
  /\ Len(asks) <= MaxRequests /\ pending \in 0 .. MaxRequests
  /\ released \in Decisions \cup {"none"}
  /\ settled \in [Requests -> Receipts \cup {"none"}] /\ open \subseteq Requests
  /\ diskSettled \in [Requests -> Receipts \cup {"none"}]
  /\ diskOpen \subseteq Requests /\ abandoned \subseteq Requests
  /\ mutations \subseteq [turn : 1 .. MaxTurns, action : Actions, req : 0 .. MaxRequests]
  /\ winners \subseteq [by : People, req : Requests, decision : Decisions]
  /\ announced \in [Requests -> SUBSET Receipts]
  /\ reply \in {NoReply} \cup [req : Requests, code : Fates]
  /\ faults \in 0 .. MaxFaults /\ crashes \in 0 .. MaxCrashes

(* Whatever an approver was asked about and happened, happened because an  *)
(* approver accepted that very request, for the action and the turn it was *)
(* made for, and the receipt of it is on disk: it survives a crash between *)
(* the answer and the action, and a write that failed.                     *)
NothingUnapproved ==
  \A m \in mutations : m.req # 0 =>
    /\ diskSettled[m.req] = "accept"
    /\ asks[m.req] = [turn |-> m.turn, action |-> m.action]
    /\ \E w \in winners : w.by \in Approvers /\ w.req = m.req /\ w.decision = "accept"

(* Once a turn was told to stop it changes nothing, even with an accepted  *)
(* approval in hand.                                                       *)
NoWorkAfterStop == [][cancelled => mutations' = mutations]_vars

(* Two people answering at once: one answer settles a request, it is the   *)
(* receipt on disk from then on, and it is what everybody else is told.    *)
OneAnswerSettles ==
  \A w \in winners :
    /\ diskSettled[w.req] = w.decision /\ announced[w.req] = {w.decision}
    /\ \A v \in winners : v.req = w.req => v = w

(* A prompt that may be answered is the one the running turn waits on, it  *)
(* is on record as open, so that a host that stops knows it was asked, and *)
(* the turn was not told to stop.                                          *)
OpenMeansWaiting ==
  pending # 0 =>
    /\ live /\ stage = "waiting" /\ ~cancelled
    /\ pending \in diskOpen /\ diskSettled[pending] = "none"

(* What the host has on record it does not forget: a request keeps its     *)
(* receipt, and an open one gets a receipt or is known to be abandoned.    *)
OnRecord == {r \in Requests : diskSettled[r] # "none"} \cup diskOpen \cup abandoned
NothingForgotten ==
  [][/\ OnRecord \subseteq OnRecord'
     /\ \A r \in Requests : diskSettled[r] # "none" => diskSettled'[r] = diskSettled[r]]_vars

(* An instruction the host accepted reaches the agent before the turn is   *)
(* called completed, unless the turn used up its model calls.              *)
CompletedMeansHeard ==
  [][live /\ ended' = "completed" /\ rounds < MaxRounds => delivered = accepted]_vars

(* A turn that was told to stop ends.                                      *)
StopEndsTurn == cancelled ~> ~live

(* "unknown_approval_request" says that nothing is or was pending under    *)
(* that id.                                                                *)
UnknownMeansNeverAsked == reply.code = "unknown" => reply.req \notin Asked

(* Turns, receipts and crashes together keep the contract of module        *)
(* ApprovalContract for every request, and close what was opened.          *)
Phase(r) ==
  IF r \notin Asked THEN "none"
  ELSE IF \E m \in mutations : m.req = r THEN "done"
  ELSE IF diskSettled[r] = "accept" THEN "accepted"
  ELSE IF pending = r THEN "open" ELSE "refused"

Contract == INSTANCE ApprovalContract WITH phase <- [r \in Requests |-> Phase(r)]
KeepsContract == Contract!FairSpec
=============================================================================
