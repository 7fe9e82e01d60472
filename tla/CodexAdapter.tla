----------------------------- MODULE CodexAdapter -----------------------------
(***************************************************************************)
(* One turn driven by a command-line provider: `codex app-server` with its *)
(* own approvals ("server") or with host tools only ("tools"), `codex exec`*)
(* confined to proposing edits ("exec"), and Claude Code ("claude").       *)
(* packages/runtime/codex-app-server.js, codex-rpc.js, codex-exec.js,      *)
(* claude-code.js, and what they use of session.js.                        *)
(*                                                                         *)
(* The provider is another process: what it prints arrives in order and    *)
(* later, and it may die, refuse or stay silent at any time.  Between two  *)
(* events the adapter's promises run dry (Quiet).  Texts, plans, models    *)
(* and limits on sizes are left out.                                       *)
(***************************************************************************)
EXTENDS Integers, Sequences, FiniteSets, SequencesExt

CONSTANTS
  Adapters,   \* adapters in use
  Patches,    \* actions a provider may ask to be approved
  NoPatch,    \* an item nobody has seen yet
  MaxTold,    \* bound: steers
  MaxFollow,  \* MAX_STEER_FOLLOWUPS
  MaxNative,  \* bound: approval requests of the provider
  MaxTools,   \* bound: calls of host tools, and edits one message proposes
  MaxEarly,   \* lines kept that come before the turn has a name
  MaxPipe     \* bound: lines not yet read

ASSUME AdapterAssumption ==
  /\ Adapters \subseteq {"server", "tools", "exec", "claude"} /\ NoPatch \notin Patches
  /\ {MaxTold, MaxFollow, MaxNative, MaxTools, MaxEarly, MaxPipe} \subseteq Nat

VARIABLES
  seat,    \* the turn's session, as far as the adapter uses it
  rpc,     \* app-server's connection: is it over, calls with no answer yet
  link,    \* what the adapter knows of the provider's turn
  cli,     \* the provider
  pipe,    \* what it printed and nobody read yet
  native,  \* its approval requests
  edits    \* what was written or accepted: was the turn already stopped

adapterVars == <<seat, rpc, link, cli, pipe, native, edits>>

RpcCalls == {"init", "config", "thread", "account", "turn", "check", "steer", "interrupt"}
Line(kind, what, n) == [kind |-> kind, what |-> what, n |-> n]
NoSeat == [pc |-> "idle", kind |-> "none", cancelled |-> FALSE, said |-> 0, queue |-> <<>>, delivered |-> <<>>,
           taken |-> <<>>, follow |-> 0, writing |-> "no", result |-> "none"]
NoRpc == [error |-> FALSE, pending |-> {}]
NoLink == [turn |-> FALSE, stopping |-> FALSE, done |-> "no", early |-> <<>>, chain |-> <<>>, step |-> "none",
           item |-> NoPatch, work |-> <<>>, ack |-> FALSE, failed |-> FALSE, proposed |-> 0]
NoCli == [pc |-> "off", item |-> NoPatch, took |-> <<>>, ended |-> "no"]
NoNative == [state |-> "none", asked |-> NoPatch, shown |-> NoPatch]

AdapterInit ==
  /\ seat = NoSeat /\ rpc = NoRpc /\ link = NoLink /\ cli = NoCli /\ pipe = <<>> /\ edits = {}
  /\ native = [k \in 1..MaxNative |-> NoNative]

ByRpc == seat.kind \in {"server", "tools"}
Alive == seat.pc \notin {"idle", "over"}
Prints(line) == Len(pipe) < MaxPipe /\ pipe' = Append(pipe, line)

(* The run is called; the process may fail to start.                       *)
TurnBegins(kind) ==
  /\ seat.pc = "idle"
  /\ \/ /\ seat' = [seat EXCEPT !.kind = kind, !.pc = IF kind \in {"server", "tools"} THEN "init" ELSE "executing"]
        /\ cli' = [cli EXCEPT !.pc = "up"]
        /\ rpc' = IF kind \in {"server", "tools"} THEN [rpc EXCEPT !.pending = {"init"}] ELSE rpc
     \/ seat' = [seat EXCEPT !.kind = kind, !.pc = "over", !.result = "failed"] /\ UNCHANGED <<cli, rpc>>
  /\ UNCHANGED <<link, pipe, native, edits>>

-----------------------------------------------------------------------------
(* What runs by itself between two events.                                 *)

SteerDue == ByRpc /\ Alive /\ link.turn /\ link.chain # <<>> /\ link.step = "none"
ToolDue == Alive /\ ByRpc /\ link.work # <<>> /\ seat.writing = "no"
EditDue == seat.pc = "applying" /\ seat.writing = "no"
JoinDue == seat.pc = "running" /\ link.done # "no"
DoneDue == seat.pc = "joining" /\ link.chain = <<>>
FailDue == rpc.error /\ Alive /\ seat.pc # "saving"
Quiet == ~(SteerDue \/ ToolDue \/ EditDue \/ JoinDue \/ DoneDue \/ FailDue)

Written == edits' = edits \cup {[after |-> seat.cancelled \/ seat.pc = "over"]}

(* The end of run, however it ends: the connection is closed, the process  *)
(* killed, every approval cancelled.  A host tool that waited for one stops*)
(* the session, before or after the session has looked.                    *)
AdapterEnds(result) ==
  /\ \E stopped \in {seat.cancelled} \cup (IF seat.writing = "asking" THEN {TRUE} ELSE {}) :
       seat' = [seat EXCEPT !.pc = "over", !.writing = "no", !.result = IF stopped THEN "interrupted" ELSE result,
                            !.cancelled = @ \/ seat.writing = "asking"]
  /\ rpc' = [error |-> TRUE, pending |-> {}] /\ link' = [link EXCEPT !.chain = <<>>, !.work = <<>>]
  /\ cli' = [cli EXCEPT !.pc = "dead"] /\ pipe' = <<>>
  /\ native' = [k \in 1..MaxNative |-> IF native[k].state = "open" THEN [native[k] EXCEPT !.state = "closed"] ELSE native[k]]
  /\ UNCHANGED edits

RunFails == FailDue /\ AdapterEnds("failed")

TurnJoins == JoinDue /\ ~FailDue /\ seat' = [seat EXCEPT !.pc = "joining"] /\ UNCHANGED <<rpc, link, cli, pipe, native, edits>>
TurnEnds ==
  /\ DoneDue /\ ~FailDue
  /\ AdapterEnds(IF link.done = "completed" /\ ~link.stopping THEN "completed" ELSE "failed")

RpcFails == rpc' = [error |-> TRUE, pending |-> {}]
Calls2(c) == rpc' = [rpc EXCEPT !.pending = @ \cup {c}]

(* Mutant: a steer is reported delivered as soon as it is sent.            *)
SteerGoesEarly ==
  /\ SteerDue /\ ~rpc.error
  /\ IF link.done # "no" \/ link.stopping THEN RpcFails /\ UNCHANGED <<link, seat>>
     ELSE /\ Calls2(IF seat.kind = "tools" THEN "check" ELSE "steer")
          /\ link' = [link EXCEPT !.step = IF seat.kind = "tools" THEN "checking" ELSE "sent"]
          /\ seat' = [seat EXCEPT !.delivered = Append(@, Head(link.chain))]
  /\ UNCHANGED <<cli, pipe, native, edits>>

(* sendSteer: one after the other, once the turn has a name; a turn that   *)
(* ended or was stopped takes none, and that fails the run.                *)
SteerGoes ==
  /\ SteerDue /\ ~rpc.error
  /\ IF link.done # "no" \/ link.stopping THEN RpcFails /\ UNCHANGED link
     ELSE /\ Calls2(IF seat.kind = "tools" THEN "check" ELSE "steer")
          /\ link' = [link EXCEPT !.step = IF seat.kind = "tools" THEN "checking" ELSE "sent"]
  /\ UNCHANGED <<seat, cli, pipe, native, edits>>

(* writeFile and removePath, up to the question whether they may.          *)
HostWrites ==
  \/ seat' = seat /\ UNCHANGED edits
  \/ ~seat.cancelled /\ Written /\ seat' = seat
  \/ ~seat.cancelled /\ seat' = [seat EXCEPT !.writing = "asking"] /\ UNCHANGED edits

(* hostToolWork: one call after the other, none once the turn is over.     *)
HostToolRuns ==
  /\ ToolDue /\ ~FailDue
  /\ IF link.done # "no" \/ link.stopping THEN seat' = seat /\ UNCHANGED edits ELSE HostWrites
  /\ link' = [link EXCEPT !.work = IF seat'.writing = "asking" THEN @ ELSE Tail(@)]
  /\ UNCHANGED <<rpc, cli, pipe, native>>

(* applyProposedEdits: after the provider, one by one, until a stop.       *)
EditApplies ==
  /\ EditDue
  /\ IF link.proposed = 0 \/ seat.cancelled
     THEN /\ seat' = [seat EXCEPT !.pc = "over", !.result = IF seat.cancelled THEN "interrupted" ELSE "completed"]
          /\ UNCHANGED <<link, edits>>
     ELSE HostWrites /\ link' = [link EXCEPT !.proposed = @ - 1]
  /\ UNCHANGED <<rpc, cli, pipe, native>>

-----------------------------------------------------------------------------
(* What people do.                                                         *)

(* steer: queued, and for app-server put in the chain too.                 *)
PersonSteers ==
  /\ Quiet /\ Alive /\ seat.said < MaxTold
  /\ seat' = [seat EXCEPT !.said = @ + 1, !.queue = Append(@, seat.said + 1)]
  /\ link' = IF ByRpc THEN [link EXCEPT !.chain = Append(@, seat.said + 1)] ELSE link
  /\ UNCHANGED <<rpc, cli, pipe, native, edits>>

(* onAbort, and then every approval is cancelled; a provider without       *)
(* control is killed.                                                      *)
Aborted ==
  /\ IF ~ByRpc \/ link.stopping \/ link.done # "no" \/ rpc.error THEN UNCHANGED <<link, rpc>>
     ELSE /\ link' = [link EXCEPT !.stopping = TRUE, !.work = IF seat.writing = "asking" THEN Tail(@) ELSE @]
          /\ IF link.turn THEN Calls2("interrupt") ELSE RpcFails
  /\ native' = [k \in 1..MaxNative |-> IF native[k].state = "open" THEN [native[k] EXCEPT !.state = "declined"] ELSE native[k]]
  /\ IF ByRpc \/ cli.pc \in {"off", "dead"} THEN UNCHANGED <<cli, pipe>>
     ELSE cli' = [cli EXCEPT !.pc = "dead"] /\ pipe' = Append(pipe, Line("close", "failed", 0))
Interrupts ==
  /\ Quiet /\ Alive /\ ~seat.cancelled /\ seat.pc # "joining"
  /\ seat' = [seat EXCEPT !.cancelled = TRUE, !.writing = "no"] /\ Aborted
  /\ UNCHANGED edits

(* The approval a host write waits for is answered or runs out; cancelling *)
(* it stops the turn.                                                      *)
WriteAnswered(verdict) ==
  /\ Quiet /\ seat.writing = "asking"
  /\ \/ /\ verdict = "cancel" /\ seat.pc # "joining"
        /\ seat' = [seat EXCEPT !.cancelled = TRUE, !.writing = "no"] /\ Aborted /\ UNCHANGED edits
     \/ /\ verdict # "cancel"
        /\ IF verdict = "accept" /\ ~seat.cancelled THEN Written ELSE UNCHANGED edits
        /\ seat' = [seat EXCEPT !.writing = "no"]
        /\ link' = IF ByRpc THEN [link EXCEPT !.work = Tail(@)] ELSE link
        /\ UNCHANGED <<rpc, cli, pipe, native>>

(* The answer to the provider's own request: yes only to the very action   *)
(* that was shown.                                                         *)
ShownNow(k) == IF native[k].asked = NoPatch THEN link.item ELSE native[k].asked
NativeAnswered(k, ok) ==
  /\ Quiet /\ native[k].state = "open"
  /\ LET yes == ok /\ link.done = "no" /\ ~link.stopping /\ ShownNow(k) = native[k].shown IN
       /\ native' = [native EXCEPT ![k].state = IF link.done # "no" THEN "closed" ELSE IF yes THEN "accepted" ELSE "declined"]
       /\ IF yes THEN Written ELSE UNCHANGED edits
  /\ UNCHANGED <<seat, rpc, link, cli, pipe>>

-----------------------------------------------------------------------------
(* The adapter reads a line.                                               *)

(* onNotification: the first end counts, and nothing after it.             *)
Noted(l, line) ==
  IF l.done # "no" THEN l
  ELSE IF line.kind = "end" THEN [l EXCEPT !.done = line.what]
  ELSE [l EXCEPT !.item = line.what]

(* The lines kept from before the turn had a name, read in order: nothing  *)
(* counts after the first end.                                             *)
UpToEnd(lines) ==
  CHOOSE n \in 0..Len(lines) : /\ n = Len(lines) \/ lines[n + 1].kind = "end"
                               /\ \A i \in 1..n : lines[i].kind # "end"
HeardAs(l, item, done) == [l EXCEPT !.item = item, !.done = done]
EarlyHeard(l, lines) ==
  LET n == UpToEnd(lines) IN
  IF l.done # "no" THEN l
  ELSE HeardAs(l, IF n = 0 THEN l.item ELSE lines[n].what, IF n = Len(lines) THEN l.done ELSE lines[n + 1].what)

(* onRequest, once the turn has a name.                                    *)
NativeHandled(n, l, k) ==
  IF l.done # "no" \/ l.stopping THEN [n EXCEPT ![k].state = "declined"]
  ELSE LET shown == IF n[k].asked = NoPatch THEN l.item ELSE n[k].asked IN
       IF seat.kind = "tools" \/ shown = NoPatch THEN [n EXCEPT ![k].state = "declined"]
       ELSE [n EXCEPT ![k].state = "open", ![k].shown = shown]

(* The turn has a name: what came before it is read again, in order, then  *)
(* the requests that were held back.                                       *)
NamedLink(l) == [l EXCEPT !.turn = TRUE, !.early = <<>>]
TurnNamed ==
  LET l == NamedLink(EarlyHeard(link, link.early))
      held == {k \in 1..MaxNative : native[k].state = "held"}
  IN /\ seat' = [seat EXCEPT !.pc = "running"] /\ link' = l
     /\ native' = [k \in 1..MaxNative |-> IF k \in held THEN NativeHandled(native, l, k)[k] ELSE native[k]]

Then(c, pc) == rpc' = [rpc EXCEPT !.pending = (@ \ {Head(pipe).what}) \cup c] /\ seat' = [seat EXCEPT !.pc = pc]

(* An entry of the queue is spliced out where it is found.                 *)
Spliced(q, e) == IF \E i \in DOMAIN q : q[i] = e THEN RemoveAt(q, CHOOSE i \in DOMAIN q : q[i] = e) ELSE q

(* Answers of app-server, each resuming what waited for it.                *)
ReplyRead ==
  LET c == Head(pipe).what ok == Head(pipe).n = 1 IN
  /\ Head(pipe).kind = "reply" /\ c \in rpc.pending
  /\ \/ ~ok /\ RpcFails /\ UNCHANGED <<seat, link, native>>
     \/ /\ ok /\ c \in {"init", "config", "thread", "account"} /\ UNCHANGED <<link, native>>
        /\ \/ c = "init" /\ seat.kind = "tools" /\ Then({"config"}, "config")
           \/ (c = "config" \/ (c = "init" /\ seat.kind = "server")) /\ Then({"thread"}, "thread")
           \/ c = "thread" /\ Then({}, "saving")
           \/ c = "account" /\ Then({"turn"}, "turn")
     \/ ok /\ c = "turn" /\ rpc' = [rpc EXCEPT !.pending = @ \ {c}] /\ TurnNamed
     \/ /\ ok /\ c = "check" /\ rpc' = [rpc EXCEPT !.pending = (@ \ {c}) \cup {"steer"}]
        /\ link' = [link EXCEPT !.step = "sent"] /\ UNCHANGED <<seat, native>>
     \/ /\ ok /\ c = "steer" /\ UNCHANGED native
        /\ IF link.stopping THEN RpcFails /\ UNCHANGED <<seat, link>>
           ELSE /\ rpc' = [rpc EXCEPT !.pending = @ \ {c}]
                /\ link' = [link EXCEPT !.step = "none", !.chain = Tail(@)]
                /\ seat' = [seat EXCEPT !.queue = Spliced(@, Head(link.chain)),
                                        !.delivered = Append(@, Head(link.chain))]
     \/ ok /\ c = "interrupt" /\ rpc' = [rpc EXCEPT !.pending = @ \ {c}] /\ UNCHANGED <<seat, link, native>>

(* Mutant: lines that come before the turn has a name are kept without end.*)
NoteReadUncapped ==
  /\ Head(pipe).kind \in {"item", "end"} /\ UNCHANGED rpc
  /\ link' = IF link.turn THEN Noted(link, Head(pipe)) ELSE [link EXCEPT !.early = Append(@, Head(pipe))]
  /\ UNCHANGED <<seat, native>>

(* What the turn reports; what comes before the turn has a name is kept.   *)
NoteRead ==
  /\ Head(pipe).kind \in {"item", "end"}
  /\ \/ link.turn /\ link' = Noted(link, Head(pipe)) /\ UNCHANGED rpc
     \/ ~link.turn /\ Len(link.early) < MaxEarly /\ link' = [link EXCEPT !.early = Append(@, Head(pipe))] /\ UNCHANGED rpc
     \/ ~link.turn /\ Len(link.early) = MaxEarly /\ RpcFails /\ UNCHANGED link
  /\ UNCHANGED <<seat, native>>

(* A request that was made before is answered as it was, or not at all;    *)
(* the same number with another action ends the connection.                *)
AskRead ==
  LET k == Head(pipe).n IN
  /\ Head(pipe).kind = "ask"
  /\ IF native[k].state # "none"
     THEN /\ IF native[k].asked = Head(pipe).what \/ link.done # "no" \/ link.stopping THEN UNCHANGED rpc ELSE RpcFails
          /\ UNCHANGED native
     ELSE /\ LET n == [native EXCEPT ![k].asked = Head(pipe).what] IN
               native' = IF link.turn THEN NativeHandled(n, link, k) ELSE [n EXCEPT ![k].state = "held"]
          /\ UNCHANGED rpc
  /\ UNCHANGED <<seat, link>>

(* A host tool is called; before the turn has a name this waits, too.      *)
ToolRead ==
  /\ Head(pipe).kind = "tool"
  /\ link' = IF link.done # "no" \/ link.stopping THEN link ELSE [link EXCEPT !.work = Append(@, Head(pipe).n)]
  /\ UNCHANGED <<seat, rpc, native>>

LineRead ==
  /\ Quiet /\ ByRpc /\ Alive /\ pipe # <<>>
  /\ IF rpc.error THEN UNCHANGED <<seat, rpc, link, native>>
     ELSE \/ ReplyRead \/ NoteRead \/ AskRead \/ (ToolRead /\ link.turn)
          \/ Head(pipe).kind = "close" /\ RpcFails /\ UNCHANGED <<seat, link, native>>
  /\ pipe' = Tail(pipe) /\ UNCHANGED <<cli, edits>>

(* onProviderStateChanged has stored the provider's thread.                *)
ThreadStored ==
  /\ Quiet /\ seat.pc = "saving"
  /\ IF rpc.error THEN seat' = [seat EXCEPT !.pc = "account"] /\ UNCHANGED rpc
     ELSE LET c == IF seat.kind = "tools" THEN "account" ELSE "turn" IN
            seat' = [seat EXCEPT !.pc = c] /\ Calls2(c)
  /\ UNCHANGED <<link, cli, pipe, native, edits>>

(* A call unanswered for too long, a turn, or a stop: no turn outlives it. *)
TimesOut ==
  /\ Quiet /\ ByRpc /\ Alive /\ ~rpc.error
  /\ rpc.pending # {} \/ (link.turn /\ (~link.stopping \/ link.done = "no"))
  /\ RpcFails /\ UNCHANGED <<seat, link, cli, pipe, native, edits>>

(* A line of `codex exec --json`, or of Claude Code.  The steers this      *)
(* process was started with are delivered when its turn begins.            *)
ExecLineRead ==
  LET line == Head(pipe) IN
  /\ Quiet /\ seat.pc = "executing" /\ pipe # <<>> /\ line.kind # "close" /\ pipe' = Tail(pipe)
  /\ link' = IF link.failed THEN link
             ELSE CASE line.kind = "thread" -> [link EXCEPT !.ack = TRUE]
                    [] line.kind = "turn" -> [link EXCEPT !.turn = link.ack]
                    [] line.kind = "said" ->
                         [link EXCEPT !.proposed = IF seat.kind = "exec" THEN line.n ELSE 0]
                    [] line.kind = "end" -> [link EXCEPT !.done = "completed"]
                    [] OTHER -> [link EXCEPT !.failed = TRUE]
  /\ seat' = IF line.kind = "turn" /\ ~link.turn /\ link'.turn
             THEN [seat EXCEPT !.delivered = @ \o seat.taken, !.taken = <<>>] ELSE seat
  /\ UNCHANGED <<rpc, cli, native, edits>>

(* The process is gone.  A stopped turn ends; a failure, a bad exit or no  *)
(* word of completion fails it; then what was steered meanwhile is given to*)
(* a new process that resumes.  Claude Code is only asked for an error.    *)
ExecCloses ==
  LET exit == Head(pipe).what
      bad == link.failed \/ (seat.kind = "exec" /\ (exit = "failed" \/ link.done = "no" \/ ~link.ack))
      Over(result) == seat' = [seat EXCEPT !.pc = "over", !.result = result] /\ UNCHANGED <<cli, link>>
  IN /\ Quiet /\ seat.pc = "executing" /\ pipe # <<>> /\ Head(pipe).kind = "close" /\ pipe' = <<>>
     /\ \/ seat.cancelled /\ Over("interrupted")
        \/ ~seat.cancelled /\ bad /\ Over("failed")
        \/ ~seat.cancelled /\ ~bad /\ seat.kind = "claude" /\ Over("completed")
        \/ /\ ~seat.cancelled /\ ~bad /\ seat.kind = "exec"
           /\ IF seat.queue # <<>> /\ seat.follow < MaxFollow
              THEN /\ seat' = [seat EXCEPT !.taken = @ \o seat.queue, !.queue = <<>>, !.follow = @ + 1]
                   /\ link' = [link EXCEPT !.turn = FALSE, !.ack = FALSE, !.done = "no"]
                   /\ cli' = [cli EXCEPT !.pc = "up", !.ended = "no"]
              ELSE seat' = [seat EXCEPT !.pc = "applying"] /\ UNCHANGED <<cli, link>>
     /\ UNCHANGED <<rpc, native, edits>>

-----------------------------------------------------------------------------
(* The provider.                                                           *)

cliRest == <<seat, rpc, link, native, edits>>

(* app-server answers a call: a steer only into the turn that is on.       *)
ProviderReplies(c, ok) ==
  /\ Quiet /\ ByRpc /\ c \in rpc.pending /\ cli.pc \in {"up", "turning", "ended"}
  /\ ~\E i \in DOMAIN pipe : pipe[i].kind = "reply" /\ pipe[i].what = c
  /\ (c = "turn" /\ ok) => cli.pc # "up" /\ UNCHANGED cli
  /\ IF c = "steer" /\ ok THEN cli.pc = "turning" /\ cli' = [cli EXCEPT !.took = Append(@, Head(link.chain))] ELSE UNCHANGED cli
  /\ Prints(Line("reply", c, IF ok THEN 1 ELSE 0)) /\ UNCHANGED cliRest

(* Its turn begins when it reads the call, before it answers it.           *)
ProviderTurns ==
  /\ Quiet /\ ByRpc /\ "turn" \in rpc.pending /\ cli.pc = "up"
  /\ cli' = [cli EXCEPT !.pc = "turning"] /\ UNCHANGED <<pipe, cliRest>>

ProviderShows(p) ==
  /\ Quiet /\ ByRpc /\ cli.pc = "turning" /\ cli.item # p
  /\ cli' = [cli EXCEPT !.item = p] /\ Prints(Line("item", p, 0)) /\ UNCHANGED cliRest

ProviderAsks(k, p) ==
  /\ Quiet /\ seat.kind = "server" /\ cli.pc = "turning" /\ Prints(Line("ask", p, k)) /\ UNCHANGED <<cli, cliRest>>

ProviderCalls ==
  /\ Quiet /\ seat.kind = "tools" /\ cli.pc = "turning" /\ Len(link.work) < MaxTools
  /\ Prints(Line("tool", "call", 1)) /\ UNCHANGED <<cli, cliRest>>

ProviderEnds(status) ==
  /\ Quiet /\ ByRpc /\ cli.pc = "turning"
  /\ cli' = [cli EXCEPT !.pc = "ended", !.ended = status] /\ Prints(Line("end", status, 0)) /\ UNCHANGED cliRest

(* A process of exec or of Claude Code.                                    *)
ExecPrints(kind, n) ==
  /\ Quiet /\ seat.pc = "executing"
  /\ \/ kind = "thread" /\ cli.pc = "up" /\ cli' = [cli EXCEPT !.pc = "named"]
     \/ kind = "turn" /\ cli.pc = "named" /\ cli' = [cli EXCEPT !.pc = "turning", !.took = @ \o seat.taken]
     \/ kind = "said" /\ cli.pc = "turning" /\ UNCHANGED cli
     \/ kind = "end" /\ cli.pc = "turning" /\ cli' = [cli EXCEPT !.pc = "ended", !.ended = "completed"]
     \/ kind = "failed" /\ cli.pc \in {"up", "named", "turning"} /\ cli' = [cli EXCEPT !.pc = "ended"]
  /\ Prints(Line(kind, "line", n)) /\ UNCHANGED cliRest

(* The process ends, by itself or killed from outside.                     *)
ProviderCloses(exit) ==
  /\ Quiet /\ cli.pc \notin {"off", "dead"} /\ (exit = "ok" => ~ByRpc /\ cli.pc = "ended")
  /\ cli' = [cli EXCEPT !.pc = "dead"] /\ Prints(Line("close", exit, 0)) /\ UNCHANGED cliRest

AdapterNext ==
  \/ \E kind \in Adapters : TurnBegins(kind)
  \/ RunFails \/ TurnJoins \/ TurnEnds \/ SteerGoes \/ HostToolRuns \/ EditApplies
  \/ PersonSteers \/ Interrupts \/ LineRead \/ ThreadStored \/ TimesOut \/ ExecLineRead \/ ExecCloses
  \/ \E verdict \in {"accept", "decline", "cancel"} : WriteAnswered(verdict)
  \/ \E k \in 1..MaxNative : \/ \E ok \in BOOLEAN : NativeAnswered(k, ok)
                             \/ \E p \in Patches \cup {NoPatch} : ProviderAsks(k, p)
  \/ \E c \in RpcCalls, ok \in BOOLEAN : ProviderReplies(c, ok)
  \/ ProviderTurns \/ ProviderCalls
  \/ \E p \in Patches : ProviderShows(p)
  \/ \E status \in {"completed", "failed", "interrupted"} : ProviderEnds(status)
  \/ \E kind \in {"thread", "turn", "end", "failed"} : ExecPrints(kind, 0)
  \/ \E n \in 0..MaxTools : ExecPrints("said", n)
  \/ \E exit \in {"ok", "failed"} : ProviderCloses(exit)

AdapterSpec == AdapterInit /\ [][AdapterNext]_adapterVars

-----------------------------------------------------------------------------
(* Every variable has its shape.                                           *)
AdapterTypeOK ==
  /\ seat.pc \in {"idle", "init", "config", "thread", "saving", "account", "turn", "running", "joining", "executing", "applying", "over"}
  /\ seat.result \in {"none", "completed", "failed", "interrupted"} /\ seat.writing \in {"no", "asking"}
  /\ seat.said \in 0..MaxTold /\ seat.follow \in 0..MaxFollow
  /\ \A q \in {seat.queue, seat.delivered, seat.taken, link.chain, cli.took} : ToSet(q) \subseteq 1..MaxTold
  /\ Len(link.early) <= MaxEarly /\ rpc.error \in BOOLEAN /\ rpc.pending \subseteq RpcCalls /\ Len(pipe) <= MaxPipe + 1
  /\ link.step \in {"none", "checking", "sent"} /\ link.item \in Patches \cup {NoPatch}
  /\ cli.pc \in {"off", "up", "named", "turning", "ended", "dead"}
  /\ \A k \in 1..MaxNative : native[k].state \in {"none", "held", "open", "accepted", "declined", "closed"}

(* What the host says of a provider's turn is so.  A steer is reported     *)
(* delivered once, in the order of acceptance, and only if the provider    *)
(* has taken it; until then it is in the queue or with the process it was  *)
(* given to; a turn of Codex is completed only if the provider completed   *)
(* it; nothing is written or accepted once the turn was stopped or is over *)
(* (codex-app-server.js:184-204, codex-exec.js:203-228, 364-366).          *)
ReportsAreTrue ==
  /\ IsPrefix(seat.delivered, cli.took)
  /\ seat.delivered \o seat.taken \o seat.queue = [i \in 1..seat.said |-> i]
  /\ seat.result = "completed" /\ seat.kind # "claude" => cli.ended = "completed"
  /\ \A e \in edits : ~e.after

=============================================================================
