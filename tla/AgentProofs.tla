----------------------------- MODULE AgentProofs ------------------------------
(***************************************************************************)
(* Proofs about the agent of a machine: CodexAdapter, which drives a       *)
(* provider, for any adapter, steers, follow-ups and bounds; HostedLogin,  *)
(* its account, for any number of people and tickets; and the invariant of *)
(* AgentApp, with what each kind of step does to it.                       *)
(***************************************************************************)
EXTENDS MachineProofs

-----------------------------------------------------------------------------
(* CodexAdapter: what is told of a turn, and what the provider did.        *)

(* What the seat, the connection, the turn, the provider and its requests  *)
(* are made of.                                                            *)
SeatPcs == {"idle", "init", "config", "thread", "saving", "account", "turn", "running", "joining", "executing", "applying", "over"}
CliPcs == {"off", "up", "named", "turning", "ended", "dead"}
Results == {"none", "completed", "failed", "interrupted"}
AskStates == {"none", "held", "open", "accepted", "declined", "closed"}
Steers == Seq(1 .. MaxTold)

SeatOK ==
  /\ seat = [pc |-> seat.pc, kind |-> seat.kind, cancelled |-> seat.cancelled, said |-> seat.said,
             queue |-> seat.queue,
             delivered |-> seat.delivered, taken |-> seat.taken, follow |-> seat.follow, writing |-> seat.writing,
             result |-> seat.result]
  /\ seat.pc \in SeatPcs /\ seat.kind \in Adapters \cup {"none"} /\ seat.cancelled \in BOOLEAN /\ seat.said \in 0 .. MaxTold
  /\ seat.queue \in Steers /\ seat.delivered \in Steers /\ seat.taken \in Steers /\ seat.follow \in 0 .. MaxFollow
  /\ seat.writing \in {"no", "asking"} /\ seat.result \in Results
RpcOK == rpc = [error |-> rpc.error, pending |-> rpc.pending] /\ rpc.error \in BOOLEAN /\ rpc.pending \subseteq RpcCalls
LinkOK ==
  /\ link = [turn |-> link.turn, stopping |-> link.stopping, done |-> link.done, early |-> link.early, chain |-> link.chain,
             step |-> link.step, item |-> link.item, work |-> link.work, ack |-> link.ack, failed |-> link.failed,
             proposed |-> link.proposed]
  /\ link.turn \in BOOLEAN /\ link.stopping \in BOOLEAN /\ link.ack \in BOOLEAN /\ link.failed \in BOOLEAN
  /\ link.chain \in Steers /\ link.step \in {"none", "checking", "sent"} /\ link.item \in Patches \cup {NoPatch}
CliOK ==
  /\ cli = [pc |-> cli.pc, item |-> cli.item, took |-> cli.took, ended |-> cli.ended]
  /\ cli.pc \in CliPcs /\ cli.took \in Steers
NativesOK ==
  /\ DOMAIN native = 1 .. MaxNative
  /\ \A k \in 1 .. MaxNative : native[k] = [state |-> native[k].state, asked |-> native[k].asked, shown |-> native[k].shown]
                              /\ native[k].state \in AskStates
Shown(line) == line.kind = "item" => line.what \in Patches
TurnStatuses == {"completed", "failed", "interrupted"}
LineKinds == {"reply", "item", "end", "ask", "tool", "close", "thread", "turn", "said", "failed"}
LineWhats == RpcCalls \cup Patches \cup TurnStatuses \cup {NoPatch, "line", "call", "ok"}
Lines == [kind : LineKinds, what : LineWhats, n : Nat]
EarlyLines == [kind : {"item", "end"}, what : Patches \cup TurnStatuses, n : Nat]
LinesOK ==
  /\ pipe \in Seq(Lines) /\ link.early \in Seq(EarlyLines)
  /\ Len(pipe) <= MaxPipe + 1 /\ (cli.pc # "dead" => Len(pipe) <= MaxPipe) /\ Len(link.early) <= MaxEarly
  /\ \A i \in 1 .. Len(pipe) : Shown(pipe[i]) /\ (pipe[i].kind = "end" => pipe[i].what \in TurnStatuses \cup {"line"})
  /\ \A i \in 1 .. Len(link.early) : Shown(link.early[i]) /\ (link.early[i].kind = "end" => link.early[i].what \in TurnStatuses)
AdapterShapes == SeatOK /\ RpcOK /\ LinkOK /\ CliOK /\ NativesOK /\ LinesOK

(* Where a turn is, by the adapter that drives it.                         *)
PcInv ==
  /\ seat.pc = "idle" => /\ seat = NoSeat /\ rpc = NoRpc /\ link = NoLink /\ cli = NoCli /\ pipe = <<>>
                         /\ \A k \in 1 .. MaxNative : native[k].state = "none"
  /\ seat.kind = "none" => seat.pc = "idle"
  /\ seat.pc \in {"executing", "applying"} => ~ByRpc
  /\ seat.pc = "applying" => seat.kind = "exec"
  /\ Alive /\ seat.pc \notin {"executing", "applying"} => ByRpc
  /\ seat.pc = "over" /\ ByRpc => cli.pc \in {"off", "dead"}
  /\ seat.writing = "asking" => Alive /\ seat.pc # "executing"
  /\ rpc.error => rpc.pending = {}

(* Steers are numbered in the order of acceptance: those delivered, those  *)
(* given to a process, those that wait.                                    *)
CountInv ==
  /\ Len(seat.delivered) + Len(seat.taken) + Len(seat.queue) = seat.said
  /\ \A i \in 1 .. Len(seat.delivered) : seat.delivered[i] = i
  /\ \A i \in 1 .. Len(seat.taken) : seat.taken[i] = Len(seat.delivered) + i
  /\ \A i \in 1 .. Len(seat.queue) : seat.queue[i] = Len(seat.delivered) + Len(seat.taken) + i
  /\ \A i \in 1 .. Len(cli.took) : cli.took[i] = i
  /\ Len(seat.delivered) <= Len(cli.took) /\ Len(cli.took) <= seat.said

(* app-server: the provider is at most one steer ahead of the adapter, and *)
(* only while its answer is on its way.                                    *)
Taken(line) == line.kind = "reply" /\ line.what = "steer" /\ line.n = 1
RpcInv ==
  Alive /\ ByRpc =>
    /\ seat.taken = <<>> /\ Len(link.chain) = Len(seat.queue)
    /\ \A i \in 1 .. Len(link.chain) : link.chain[i] = seat.queue[i]
    /\ link.step # "none" => link.chain # <<>>
    /\ ("steer" \in rpc.pending => link.step = "sent") /\ ("check" \in rpc.pending => link.step = "checking")
    /\ Len(cli.took) = Len(seat.delivered) \/ (Len(cli.took) = Len(seat.delivered) + 1 /\ link.chain # <<>>)
    /\ ~rpc.error => /\ \A i \in 1 .. Len(pipe) : Taken(pipe[i]) => link.step = "sent" /\ Len(cli.took) = Len(seat.delivered) + 1
                     /\ (\A i \in 1 .. Len(pipe) : ~Taken(pipe[i])) => Len(cli.took) = Len(seat.delivered)
    /\ \A i, j \in 1 .. Len(pipe) : pipe[i].kind = "reply" /\ pipe[j].kind = "reply" /\ pipe[i].what = pipe[j].what => i = j
    /\ seat.cancelled => link.stopping \/ link.done # "no" \/ rpc.error

(* exec and Claude Code: what a process was started with is delivered when *)
(* its turn begins, and nothing of the turn counts before.                 *)
ExecInv ==
  seat.pc = "executing" =>
    /\ Len(cli.took) = Len(seat.delivered) \/ Len(cli.took) = Len(seat.delivered) + Len(seat.taken)
    /\ cli.pc \in {"up", "named"} => Len(cli.took) = Len(seat.delivered)
    /\ link.turn => seat.taken = <<>> /\ link.ack
    /\ link.done \in {"no", "completed"} /\ (link.done # "no" => link.turn \/ link.failed)
    /\ \A i \in 1 .. Len(pipe) :
         /\ pipe[i].kind = "turn" => /\ ~link.turn => Len(cli.took) = Len(seat.delivered) + Len(seat.taken)
                                     /\ link.ack \/ link.failed \/ \E j \in 1 .. i - 1 : pipe[j].kind = "thread"
         /\ pipe[i].kind = "end" => link.turn \/ link.failed \/ \E j \in 1 .. i - 1 : pipe[j].kind = "turn"
         /\ pipe[i].kind = "end" => pipe[i].what = "line"
         /\ pipe[i].kind = "close" => cli.pc = "dead"
    /\ cli.pc = "named" => link.ack \/ link.failed \/ \E j \in 1 .. Len(pipe) : pipe[j].kind = "thread"
    /\ cli.pc = "turning" => link.turn \/ link.failed \/ \E j \in 1 .. Len(pipe) : pipe[j].kind = "turn"

(* Nobody says completed before the provider did.                          *)
EndInv ==
  /\ cli.ended = "completed" => cli.pc \in {"ended", "dead"}
  /\ link.done = "completed" => cli.ended = "completed"
  /\ \A i \in 1 .. Len(pipe) : pipe[i].kind = "end" /\ pipe[i].what \in {"completed", "line"} => cli.ended = "completed"
  /\ \A i \in 1 .. Len(link.early) : link.early[i].kind = "end" /\ link.early[i].what = "completed" => cli.ended = "completed"
  /\ ByRpc => \A i \in 1 .. Len(pipe) : pipe[i].kind = "end" => pipe[i].what # "line"
  /\ ~ByRpc => link.early = <<>>
  /\ seat.pc = "applying" => cli.ended = "completed"
  /\ seat.result = "completed" /\ seat.kind # "claude" => cli.ended = "completed" /\ seat.pc = "over"

(* A request that can be accepted is one of a turn nobody stopped.         *)
AskInv ==
  /\ \A k \in 1 .. MaxNative : native[k].state = "open" => Alive /\ ByRpc /\ ~seat.cancelled
  /\ \A e \in edits : ~e.after

AdapterInv == AdapterShapes /\ PcInv /\ CountInv /\ RpcInv /\ ExecInv /\ EndInv /\ AskInv

LEMMA AdapterConstants ==
  /\ Adapters \subseteq {"server", "tools", "exec", "claude"} /\ NoPatch \notin Patches
  /\ MaxTold \in Nat /\ MaxFollow \in Nat /\ MaxNative \in Nat /\ MaxTools \in Nat /\ MaxEarly \in Nat /\ MaxPipe \in Nat
  BY AdapterAssumption

LEMMA AdapterInvInit == AdapterInit => AdapterInv
<1> SUFFICES ASSUME AdapterInit PROVE AdapterInv
  OBVIOUS
<1> USE AdapterConstants DEF AdapterInit
<1>0. <<>> \in Steers /\ Len(<<>>) = 0 /\ 1 .. 0 = {}
  BY DEF Steers
<1>1. SeatOK /\ RpcOK /\ LinkOK /\ CliOK /\ NativesOK
  BY <1>0 DEF SeatOK, RpcOK, LinkOK, CliOK, NativesOK, NoSeat, NoRpc, NoLink, NoCli, NoNative, SeatPcs, CliPcs, Results, AskStates
<1>2. LinesOK
  BY <1>0 DEF LinesOK, NoLink, NoCli
<1>3. PcInv
  BY DEF PcInv, NoSeat, NoRpc, NoNative, ByRpc, Alive
<1>4. CountInv
  BY <1>0 DEF CountInv, NoSeat, NoCli
<1>5. RpcInv /\ ExecInv
  BY DEF RpcInv, ExecInv, NoSeat, Alive
<1>6. EndInv /\ AskInv
  BY <1>0 DEF EndInv, AskInv, NoSeat, NoCli, NoLink, NoNative
<1> QED BY <1>1, <1>2, <1>3, <1>4, <1>5, <1>6 DEF AdapterInv, AdapterShapes

(* What is so between any two steps.                                       *)
LEMMA AdapterNow ==
  ASSUME AdapterInv
  PROVE  /\ SeatOK /\ RpcOK /\ LinkOK /\ CliOK /\ NativesOK /\ LinesOK
         /\ PcInv /\ CountInv /\ RpcInv /\ ExecInv /\ EndInv /\ AskInv
         /\ Len(pipe) \in Nat /\ Len(link.early) \in Nat /\ Len(seat.queue) \in Nat /\ Len(seat.delivered) \in Nat
         /\ Len(seat.taken) \in Nat /\ Len(link.chain) \in Nat /\ Len(cli.took) \in Nat
  BY DEF AdapterInv, AdapterShapes, SeatOK, LinkOK, CliOK, LinesOK, Steers

LEMMA TurnBeginsInv ==
  ASSUME AdapterInv, NEW kind \in Adapters, TurnBegins(kind)
  PROVE  AdapterInv'
<1> USE AdapterConstants
<1>1. /\ seat = NoSeat /\ rpc = NoRpc /\ link = NoLink /\ cli = NoCli /\ pipe = <<>> /\ Len(<<>>) = 0 /\ 1 .. 0 = {}
      /\ \A k \in 1 .. MaxNative : native[k].state = "none"
  BY AdapterNow DEF TurnBegins, PcInv
<1>2. PICK pc, result, at :
        /\ seat' = [pc |-> pc, kind |-> kind, cancelled |-> FALSE, said |-> 0, queue |-> <<>>,
                    delivered |-> <<>>,
                    taken |-> <<>>, follow |-> 0, writing |-> "no", result |-> result]
        /\ cli' = [pc |-> at, item |-> NoPatch, took |-> <<>>, ended |-> "no"]
        /\ pc \in {"init", "executing", "over"} /\ result \in {"none", "failed"} /\ at \in {"off", "up"}
        /\ pc = "init" => kind \in {"server", "tools"} /\ rpc' = [error |-> FALSE, pending |-> {"init"}]
        /\ pc = "executing" => kind \notin {"server", "tools"} /\ rpc' = rpc
        /\ pc = "over" => rpc' = rpc /\ at = "off"
  <2>1. CASE cli' = [cli EXCEPT !.pc = "up"]
    <3>1. cli' = [pc |-> "up", item |-> NoPatch, took |-> <<>>, ended |-> "no"]
      BY <1>1, <2>1 DEF NoCli
    <3>2. PICK pc : pc = IF kind \in {"server", "tools"} THEN "init" ELSE "executing"
      OBVIOUS
    <3>3. \/ seat' = [seat EXCEPT !.kind = kind, !.pc = pc] /\ rpc' = IF kind \in {"server", "tools"} THEN [rpc EXCEPT !.pending = {"init"}] ELSE rpc
          \/ UNCHANGED cli
      BY <3>2 DEF TurnBegins
    <3>4. cli' # cli
      BY <1>1, <3>1 DEF NoCli
    <3>5. seat' = [pc |-> pc, kind |-> kind, cancelled |-> FALSE, said |-> 0, queue |-> <<>>,
                   delivered |-> <<>>,
                   taken |-> <<>>, follow |-> 0, writing |-> "no", result |-> "none"]
      BY <1>1, <3>3, <3>4 DEF NoSeat
    <3>6. kind \in {"server", "tools"} => rpc' = [error |-> FALSE, pending |-> {"init"}]
      BY <1>1, <3>3, <3>4 DEF NoRpc
    <3> QED BY <3>1, <3>2, <3>3, <3>4, <3>5, <3>6
  <2>2. CASE seat' = [seat EXCEPT !.kind = kind, !.pc = "over", !.result = "failed"] /\ UNCHANGED <<cli, rpc>>
    <3>1. seat' = [pc |-> "over", kind |-> kind, cancelled |-> FALSE, said |-> 0, queue |-> <<>>,
                   delivered |-> <<>>,
                   taken |-> <<>>, follow |-> 0, writing |-> "no", result |-> "failed"]
      BY <1>1, <2>2 DEF NoSeat
    <3>2. cli' = [pc |-> "off", item |-> NoPatch, took |-> <<>>, ended |-> "no"]
      BY <1>1, <2>2 DEF NoCli
    <3> QED BY <2>2, <3>1, <3>2
  <2> QED BY <2>1, <2>2 DEF TurnBegins
<1>3. <<>> \in Steers /\ UNCHANGED <<link, pipe, native, edits>>
  BY DEF Steers, TurnBegins
<1>a. /\ seat'.pc = pc /\ seat'.kind = kind /\ seat'.cancelled = FALSE /\ seat'.said = 0 /\ seat'.queue = <<>>
      /\ seat'.delivered = <<>> /\ seat'.taken = <<>> /\ seat'.follow = 0 /\ seat'.writing = "no" /\ seat'.result = result
      /\ cli'.pc = at /\ cli'.took = <<>> /\ cli'.ended = "no"
  BY <1>2
<1>b. SeatOK'
  BY <1>2, <1>3, <1>a DEF SeatOK, SeatPcs, Results
<1>c. CliOK'
  BY <1>2, <1>3, <1>a DEF CliOK, CliPcs
<1>4. RpcOK'
  <2>1. PICK some : rpc' = [error |-> FALSE, pending |-> some] /\ some \in {{"init"}, {}}
    BY <1>1, <1>2 DEF NoRpc
  <2>2. rpc'.error = FALSE /\ rpc'.pending = some
    BY <2>1
  <2>3. some \subseteq RpcCalls
    BY <2>1 DEF RpcCalls
  <2> QED BY <2>1, <2>2, <2>3 DEF RpcOK
<1>5. LinkOK' /\ NativesOK' /\ LinesOK'
  BY <1>1, <1>2, <1>3, AdapterNow DEF LinkOK, NativesOK, LinesOK
<1>6. PcInv'
  BY <1>1, <1>2, <1>3 DEF PcInv, ByRpc, Alive, NoRpc
<1>7. CountInv'
  <2>1. 1 .. Len(<<>>) = {} /\ Len(<<>>) = 0
    BY <1>1
  <2> QED BY <2>1, <1>a DEF CountInv
<1>8. RpcInv'
  BY <1>1, <1>2, <1>3 DEF RpcInv, Alive, ByRpc, NoLink
<1>9. ExecInv'
  BY <1>1, <1>2, <1>3 DEF ExecInv, NoLink
<1>10. EndInv' /\ AskInv'
  BY <1>1, <1>2, <1>3, AdapterNow DEF EndInv, AskInv, NoLink
<1> QED BY <1>b, <1>c, <1>4, <1>5, <1>6, <1>7, <1>8, <1>9, <1>10 DEF AdapterInv, AdapterShapes

Joined(a, b) == a \o b

LEMMA SteersJoined ==
  ASSUME NEW a \in Steers, NEW b \in Steers, NEW c, c = Joined(a, b)
  PROVE  /\ c \in Steers /\ Len(a) \in Nat /\ Len(b) \in Nat /\ Len(c) = Len(a) + Len(b)
         /\ \A i \in 1 .. Len(a) : c[i] = a[i]
         /\ \A i \in 1 .. Len(c) : i \notin 1 .. Len(a) => i - Len(a) \in 1 .. Len(b) /\ c[i] = b[i - Len(a)]
<1>1. a \in Seq(1 .. MaxTold) /\ b \in Seq(1 .. MaxTold) /\ Len(a) \in Nat /\ Len(b) \in Nat
  BY DEF Steers
<1>2. /\ c \in Seq(1 .. MaxTold) /\ Len(c) = Len(a) + Len(b)
      /\ \A i \in 1 .. Len(c) : c[i] = IF i <= Len(a) THEN a[i] ELSE b[i - Len(a)]
  BY <1>1, ConcatProperties DEF Joined
<1>3. ASSUME NEW i \in 1 .. Len(a) PROVE c[i] = a[i]
  BY <1>1, <1>2
<1>4. ASSUME NEW i \in 1 .. Len(c), i \notin 1 .. Len(a) PROVE i - Len(a) \in 1 .. Len(b) /\ c[i] = b[i - Len(a)]
  <2>1. PICK m, n \in Nat : m = Len(a) /\ n = Len(b)
    BY <1>1
  <2>2. i \in Int /\ 1 <= i /\ i <= m + n /\ ~(i <= m)
    BY <1>2, <1>4, <2>1
  <2>3. i - m \in 1 .. n
    BY <2>1, <2>2
  <2> QED BY <1>2, <2>1, <2>2, <2>3
<1> QED BY <1>1, <1>2, <1>3, <1>4 DEF Steers

LEMMA SteerJoined ==
  ASSUME NEW a \in Steers, NEW b \in Steers, NEW c, c = Joined(a, b), NEW i \in 1 .. Len(c)
  PROVE  \/ i \in 1 .. Len(a) /\ c[i] = a[i]
         \/ i - Len(a) \in 1 .. Len(b) /\ c[i] = b[i - Len(a)]
<1>1. a \in Seq(1 .. MaxTold) /\ b \in Seq(1 .. MaxTold) /\ Len(a) \in Nat /\ Len(b) \in Nat
  BY DEF Steers
<1>2. /\ Len(c) = Len(a) + Len(b)
      /\ \A j \in 1 .. Len(c) : c[j] = IF j <= Len(a) THEN a[j] ELSE b[j - Len(a)]
  BY <1>1, ConcatProperties DEF Joined
<1>3. PICK m, n \in Nat : m = Len(a) /\ n = Len(b)
  BY <1>1
<1>4. CASE i <= m
  BY <1>2, <1>3, <1>4
<1>5. CASE ~(i <= m)
  <2>1. i - m \in 1 .. n
    BY <1>2, <1>3, <1>5
  <2> QED BY <1>2, <1>3, <1>5, <2>1
<1> QED BY <1>4, <1>5

LEMMA Sums ==
  ASSUME NEW d \in Nat, NEW t \in Nat, NEW q \in Nat, NEW s, d + t + q = s
  PROVE  d <= d + t /\ d + t <= s /\ d + t \in Nat /\ d <= s
  OBVIOUS

LEMMA CountsNow ==
  ASSUME AdapterInv
  PROVE  \E d, t, q, k, said \in Nat :
           /\ d = Len(seat.delivered) /\ t = Len(seat.taken) /\ q = Len(seat.queue) /\ k = Len(cli.took) /\ said = seat.said
           /\ d + t + q = said /\ d <= k /\ k <= said /\ said <= MaxTold
<1>1. seat.said \in Nat /\ seat.said <= MaxTold
  BY AdapterNow, AdapterConstants DEF SeatOK
<1> QED BY <1>1, AdapterNow DEF CountInv

(* The provider.                                                           *)
LEMMA LinesNow ==
  ASSUME AdapterInv
  PROVE  /\ pipe \in Seq(Lines) /\ Len(pipe) \in Nat
         /\ \A i \in 1 .. Len(pipe) : /\ pipe[i].kind \in LineKinds /\ pipe[i].what \in LineWhats /\ pipe[i].n \in Nat
                                      /\ pipe[i] = [kind |-> pipe[i].kind, what |-> pipe[i].what, n |-> pipe[i].n]
<1>1. pipe \in Seq(Lines) /\ Len(pipe) \in Nat
  BY AdapterNow DEF LinesOK
<1>2. \A i \in 1 .. Len(pipe) : pipe[i] \in Lines
  BY <1>1
<1> QED BY <1>1, <1>2 DEF Lines

(* A line comes after those already printed.                               *)
LEMMA LinePrinted ==
  ASSUME AdapterInv, NEW kind \in LineKinds, NEW what \in LineWhats, NEW n \in Nat,
         pipe' = Append(pipe, Line(kind, what, n)), UNCHANGED <<seat, link>>, seat.pc # "idle",
         Len(pipe) < MaxPipe \/ (cli.pc # "dead" /\ cli'.pc = "dead"), cli'.pc = "dead" \/ cli.pc # "dead",
         kind = "item" => what \in Patches, kind = "end" => what \in TurnStatuses \cup {"line"},
         seat.pc = "over" /\ ByRpc => cli'.pc = "dead", UNCHANGED <<rpc, native>>
  PROVE  /\ Len(pipe') = Len(pipe) + 1 /\ \A i \in 1 .. Len(pipe) : pipe'[i] = pipe[i]
         /\ pipe'[Len(pipe) + 1].kind = kind /\ pipe'[Len(pipe) + 1].what = what /\ pipe'[Len(pipe) + 1].n = n
         /\ \A i \in 1 .. Len(pipe') : i \in 1 .. Len(pipe) \/ i = Len(pipe) + 1
         /\ LinesOK' /\ PcInv' /\ SeatOK' /\ RpcOK' /\ LinkOK' /\ NativesOK'
<1> USE AdapterConstants
<1>1. PICK line : line = Line(kind, what, n)
  OBVIOUS
<1>2. line.kind = kind /\ line.what = what /\ line.n = n /\ line \in Lines
  BY <1>1 DEF Line, Lines
<1>3. /\ pipe' \in Seq(Lines) /\ Len(pipe') = Len(pipe) + 1
      /\ pipe'[Len(pipe) + 1] = line /\ \A i \in 1 .. Len(pipe) : pipe'[i] = pipe[i]
  BY <1>1, <1>2, LinesNow, AppendProperties
<1>4. \A i \in 1 .. Len(pipe') : i \in 1 .. Len(pipe) \/ i = Len(pipe) + 1
  BY <1>3, LinesNow
<1>5. LinesOK'
  <2>1. Len(pipe') <= MaxPipe + 1 /\ (cli'.pc # "dead" => Len(pipe') <= MaxPipe)
    BY <1>3, AdapterNow DEF LinesOK
  <2>2. \A i \in 1 .. Len(pipe') : Shown(pipe'[i]) /\ (pipe'[i].kind = "end" => pipe'[i].what \in TurnStatuses \cup {"line"})
    BY <1>2, <1>3, <1>4, AdapterNow DEF LinesOK, Shown
  <2>3. link'.early = link.early
    OBVIOUS
  <2> QED BY <1>3, <2>1, <2>2, <2>3, AdapterNow DEF LinesOK
<1>6. PcInv'
  BY AdapterNow DEF PcInv, Alive, ByRpc
<1>7. SeatOK' /\ RpcOK' /\ LinkOK' /\ NativesOK'
  BY AdapterNow DEF SeatOK, RpcOK, LinkOK, NativesOK
<1> QED BY <1>2, <1>3, <1>4, <1>5, <1>6, <1>7

LEMMA StepNow ==
  ASSUME AdapterInv, Alive, ByRpc
  PROVE  /\ seat.taken = <<>> /\ Len(link.chain) = Len(seat.queue)
         /\ \A i \in 1 .. Len(link.chain) : link.chain[i] = seat.queue[i]
         /\ link.step # "none" => link.chain # <<>>
         /\ ("steer" \in rpc.pending => link.step = "sent") /\ ("check" \in rpc.pending => link.step = "checking")
         /\ Len(cli.took) = Len(seat.delivered) \/ (Len(cli.took) = Len(seat.delivered) + 1 /\ link.chain # <<>>)
         /\ ~rpc.error => /\ \A i \in 1 .. Len(pipe) : Taken(pipe[i]) => link.step = "sent" /\ Len(cli.took) = Len(seat.delivered) + 1
                          /\ (\A i \in 1 .. Len(pipe) : ~Taken(pipe[i])) => Len(cli.took) = Len(seat.delivered)
         /\ \A i, j \in 1 .. Len(pipe) : pipe[i].kind = "reply" /\ pipe[j].kind = "reply" /\ pipe[i].what = pipe[j].what => i = j
         /\ seat.cancelled => link.stopping \/ link.done # "no" \/ rpc.error
  BY AdapterNow DEF RpcInv

(* Whether the turn was completed is not touched.                          *)
LEMMA EndKept ==
  ASSUME AdapterInv, UNCHANGED link, seat'.pc = seat.pc, seat'.kind = seat.kind, seat'.result = seat.result,
         cli'.ended = cli.ended, cli.pc \in {"ended", "dead"} => cli'.pc \in {"ended", "dead"},
         \A i \in 1 .. Len(pipe') : pipe'[i].kind = "end" => i \in 1 .. Len(pipe) /\ pipe'[i] = pipe[i]
  PROVE  EndInv'
<1>1. EndInv
  BY AdapterNow
<1>2. /\ cli'.ended = "completed" => cli'.pc \in {"ended", "dead"}
      /\ link'.done = "completed" => cli'.ended = "completed"
  BY <1>1 DEF EndInv
<1>3. /\ \A i \in 1 .. Len(pipe') : pipe'[i].kind = "end" /\ pipe'[i].what \in {"completed", "line"} => cli'.ended = "completed"
      /\ \A i \in 1 .. Len(link'.early) : link'.early[i].kind = "end" /\ link'.early[i].what = "completed" => cli'.ended = "completed"
  BY <1>1 DEF EndInv
<1>4. ByRpc' => \A i \in 1 .. Len(pipe') : pipe'[i].kind = "end" => pipe'[i].what # "line"
  BY <1>1 DEF EndInv, ByRpc
<1>5. /\ ~ByRpc' => link'.early = <<>>
      /\ seat'.pc = "applying" => cli'.ended = "completed"
      /\ seat'.result = "completed" /\ seat'.kind # "claude" => cli'.ended = "completed" /\ seat'.pc = "over"
  BY <1>1 DEF EndInv, ByRpc
<1> QED BY <1>2, <1>3, <1>4, <1>5 DEF EndInv

(* A line that answers no call.                                            *)
LEMMA LineOfTurn ==
  ASSUME AdapterInv, NEW kind \in LineKinds \ {"reply"}, NEW what \in LineWhats, NEW n \in Nat,
         pipe' = Append(pipe, Line(kind, what, n)), UNCHANGED <<seat, link>>, seat.pc # "idle",
         Len(pipe) < MaxPipe \/ (cli.pc # "dead" /\ cli'.pc = "dead"), cli'.pc = "dead" \/ cli.pc # "dead",
         kind = "item" => what \in Patches, kind = "end" => what \in TurnStatuses \cup {"line"},
         seat.pc = "over" /\ ByRpc => cli'.pc = "dead", UNCHANGED <<rpc, native, edits>>,
         CliOK', CountInv', ByRpc => cli'.took = cli.took, ExecInv', EndInv'
  PROVE  AdapterInv'
<1>1. /\ Len(pipe') = Len(pipe) + 1 /\ \A i \in 1 .. Len(pipe) : pipe'[i] = pipe[i]
      /\ pipe'[Len(pipe) + 1].kind = kind
      /\ \A i \in 1 .. Len(pipe') : i \in 1 .. Len(pipe) \/ i = Len(pipe) + 1
      /\ LinesOK' /\ PcInv' /\ SeatOK' /\ RpcOK' /\ LinkOK' /\ NativesOK'
  BY LinePrinted
<1>3. RpcInv'
  <2>1. \A i \in 1 .. Len(pipe') : pipe'[i].kind = "reply" => i \in 1 .. Len(pipe) /\ pipe'[i] = pipe[i]
    BY <1>1
  <2>2. \A i \in 1 .. Len(pipe) : i \in 1 .. Len(pipe') /\ pipe'[i] = pipe[i]
    BY <1>1, LinesNow
  <2> SUFFICES ASSUME Alive, ByRpc PROVE RpcInv'
    BY DEF RpcInv, Alive, ByRpc
  <2>3. cli'.took = cli.took
    OBVIOUS
  <2>4. \A i \in 1 .. Len(pipe') : Taken(pipe'[i]) => i \in 1 .. Len(pipe) /\ Taken(pipe[i])
    BY <2>1 DEF Taken
  <2>5. (\A i \in 1 .. Len(pipe') : ~Taken(pipe'[i])) => \A i \in 1 .. Len(pipe) : ~Taken(pipe[i])
    BY <2>2
  <2>6. ~rpc.error => /\ \A i \in 1 .. Len(pipe') : Taken(pipe'[i]) => link.step = "sent" /\ Len(cli.took) = Len(seat.delivered) + 1
                      /\ (\A i \in 1 .. Len(pipe') : ~Taken(pipe'[i])) => Len(cli.took) = Len(seat.delivered)
    BY <2>4, <2>5, StepNow
  <2>7. \A i, j \in 1 .. Len(pipe') : pipe'[i].kind = "reply" /\ pipe'[j].kind = "reply" /\ pipe'[i].what = pipe'[j].what => i = j
    BY <2>1, StepNow
  <2>8. /\ seat.taken = <<>> /\ Len(link.chain) = Len(seat.queue)
        /\ \A i \in 1 .. Len(link.chain) : link.chain[i] = seat.queue[i]
        /\ link.step # "none" => link.chain # <<>>
        /\ ("steer" \in rpc.pending => link.step = "sent") /\ ("check" \in rpc.pending => link.step = "checking")
        /\ Len(cli.took) = Len(seat.delivered) \/ (Len(cli.took) = Len(seat.delivered) + 1 /\ link.chain # <<>>)
        /\ seat.cancelled => link.stopping \/ link.done # "no" \/ rpc.error
    BY StepNow
  <2> QED BY <2>3, <2>6, <2>7, <2>8 DEF RpcInv, Taken
<1>4. AskInv'
  BY AdapterNow DEF AskInv, Alive, ByRpc
<1> QED BY <1>1, <1>3, <1>4 DEF AdapterInv, AdapterShapes

(* The first steer that waits is the next one in number.                   *)
LEMMA FirstSteer ==
  ASSUME AdapterInv, Alive, ByRpc, link.chain # <<>>
  PROVE  /\ Len(link.chain) >= 1 /\ Head(link.chain) = Len(seat.delivered) + 1 /\ Head(link.chain) \in 1 .. MaxTold
         /\ Len(seat.delivered) + 1 <= seat.said /\ seat.said <= MaxTold
         /\ 1 \in 1 .. Len(seat.queue) /\ seat.queue[1] = Head(link.chain) /\ seat.queue # <<>>
<1> USE AdapterConstants
<1>1. link.chain \in Steers /\ seat.queue \in Steers /\ seat.said \in 0 .. MaxTold
  BY AdapterNow DEF LinkOK, SeatOK
<1>2. Len(link.chain) >= 1 /\ Head(link.chain) = link.chain[1] /\ link.chain[1] \in 1 .. MaxTold
  BY <1>1 DEF Steers
<1>3. Len(seat.taken) = 0 /\ Len(link.chain) = Len(seat.queue) /\ \A i \in 1 .. Len(link.chain) : link.chain[i] = seat.queue[i]
  BY StepNow
<1>4. 1 \in 1 .. Len(seat.queue) /\ seat.queue[1] = link.chain[1]
  BY <1>2, <1>3, AdapterNow
<1>5. seat.queue[1] = Len(seat.delivered) + 0 + 1 /\ Len(seat.delivered) + 0 + Len(seat.queue) = seat.said
  BY <1>3, <1>4, AdapterNow DEF CountInv
<1>6. seat.queue # <<>>
  BY <1>2, <1>3
<1>7. Len(seat.delivered) \in Nat /\ Len(seat.queue) \in Nat /\ Len(seat.queue) >= 1
  BY <1>2, <1>3, AdapterNow
<1>10. seat.said \in Nat /\ seat.said <= MaxTold
  BY <1>1
<1>8. Len(seat.delivered) + 1 <= seat.said /\ seat.said <= MaxTold
  <2>1. PICK d \in Nat : d = Len(seat.delivered)
    BY <1>7
  <2>2. PICK q \in Nat : q = Len(seat.queue) /\ q >= 1
    BY <1>7
  <2>3. PICK s \in Nat : s = seat.said
    BY <1>10
  <2>4. d + 0 + q = s
    BY <1>5, <2>1, <2>2, <2>3
  <2>5. d + 1 <= s
    BY <2>2, <2>4
  <2> QED BY <1>10, <2>1, <2>3, <2>5
<1>9. seat.queue[1] = Len(seat.delivered) + 1
  BY <1>5, <1>7
<1> QED BY <1>2, <1>4, <1>6, <1>8, <1>9

LEMMA ProviderRepliesInv ==
  ASSUME AdapterInv, NEW c \in RpcCalls, NEW ok \in BOOLEAN, ProviderReplies(c, ok)
  PROVE  AdapterInv'
<1> USE AdapterConstants
<1>1. PICK n \in Nat : n = IF ok THEN 1 ELSE 0
  OBVIOUS
<1>2. /\ ByRpc /\ c \in rpc.pending /\ cli.pc \in {"up", "turning", "ended"} /\ UNCHANGED <<seat, rpc, link, native, edits>>
      /\ Len(pipe) < MaxPipe /\ pipe' = Append(pipe, Line("reply", c, n))
      /\ \A i \in 1 .. Len(pipe) : ~(pipe[i].kind = "reply" /\ pipe[i].what = c)
  BY <1>1, LinesNow DEF ProviderReplies, Prints, cliRest
<1>3. seat.pc # "idle" /\ seat.pc # "over" /\ Alive /\ ~rpc.error /\ seat.pc \notin {"executing", "applying"}
  BY <1>2, AdapterNow DEF PcInv, ByRpc, Alive, NoSeat
<1>4. (c = "steer" /\ ok) \/ UNCHANGED cli
  BY DEF ProviderReplies
<1>5. c = "steer" /\ ok => cli' = [cli EXCEPT !.took = Append(@, Head(link.chain))] /\ link.step = "sent" /\ link.chain # <<>>
                           /\ Len(cli.took) = Len(seat.delivered)
  <2> SUFFICES ASSUME c = "steer", ok PROVE cli' = [cli EXCEPT !.took = Append(@, Head(link.chain))] /\ link.step = "sent" /\ link.chain # <<>>
                           /\ Len(cli.took) = Len(seat.delivered)
    OBVIOUS
  <2>1. \A i \in 1 .. Len(pipe) : ~Taken(pipe[i])
    BY <1>2 DEF Taken
  <2> QED BY <1>2, <1>3, <2>1, StepNow DEF ProviderReplies
<1>6. /\ cli' = [pc |-> cli.pc, item |-> cli.item, took |-> cli'.took, ended |-> cli.ended]
      /\ cli'.pc = cli.pc /\ cli'.ended = cli.ended
  BY <1>4, <1>5, AdapterNow DEF CliOK
<1>7. c = "steer" /\ ok => /\ cli'.took \in Steers /\ Len(cli'.took) = Len(cli.took) + 1
                           /\ cli'.took[Len(cli.took) + 1] = Len(cli.took) + 1
                           /\ \A i \in 1 .. Len(cli.took) : cli'.took[i] = cli.took[i]
  <2> SUFFICES ASSUME c = "steer", ok PROVE /\ cli'.took \in Steers /\ Len(cli'.took) = Len(cli.took) + 1
                                            /\ cli'.took[Len(cli.took) + 1] = Len(cli.took) + 1
                                            /\ \A i \in 1 .. Len(cli.took) : cli'.took[i] = cli.took[i]
    OBVIOUS
  <2>1. cli'.took = Append(cli.took, Head(link.chain)) /\ cli.took \in Steers
    BY <1>5, AdapterNow DEF CliOK
  <2>2. Head(link.chain) \in 1 .. MaxTold /\ Head(link.chain) = Len(cli.took) + 1
    BY <1>2, <1>3, <1>5, FirstSteer
  <2> QED BY <2>1, <2>2, AppendProperties DEF Steers
<1>8. CliOK'
  BY <1>4, <1>6, <1>7, AdapterNow DEF CliOK
<1>9. /\ Len(pipe') = Len(pipe) + 1 /\ \A i \in 1 .. Len(pipe) : pipe'[i] = pipe[i]
      /\ pipe'[Len(pipe) + 1].kind = "reply" /\ pipe'[Len(pipe) + 1].what = c /\ pipe'[Len(pipe) + 1].n = n
      /\ \A i \in 1 .. Len(pipe') : i \in 1 .. Len(pipe) \/ i = Len(pipe) + 1
      /\ LinesOK' /\ PcInv' /\ SeatOK' /\ RpcOK' /\ LinkOK' /\ NativesOK'
  <2>1. c \in LineWhats /\ "reply" \in LineKinds
    BY DEF LineWhats, LineKinds
  <2>2. cli'.pc # "dead" /\ cli.pc # "dead"
    BY <1>2, <1>6
  <2> QED BY <1>2, <1>3, <2>1, <2>2, LinePrinted
<1>10. CountInv'
  <2>1. CASE UNCHANGED cli
    BY <1>2, <2>1, AdapterNow DEF CountInv
  <2>2. CASE c = "steer" /\ ok
    <3>1. \A i \in 1 .. Len(cli'.took) : cli'.took[i] = i
      <4>1. \A i \in 1 .. Len(cli'.took) : i \in 1 .. Len(cli.took) \/ i = Len(cli.took) + 1
        BY <1>7, <2>2, AdapterNow
      <4>2. \A i \in 1 .. Len(cli.took) : cli.took[i] = i
        BY AdapterNow DEF CountInv
      <4> QED BY <1>7, <2>2, <4>1, <4>2
    <3>2. Len(seat.delivered) <= Len(cli'.took) /\ Len(cli'.took) <= seat.said
      <4>1. Len(seat.delivered) + 1 <= seat.said /\ Len(cli.took) = Len(seat.delivered) /\ Len(cli'.took) = Len(cli.took) + 1
        BY <1>2, <1>3, <1>5, <1>7, <2>2, FirstSteer
      <4>2. Len(seat.delivered) \in Nat
        BY AdapterNow
      <4> QED BY <4>1, <4>2
    <3> QED BY <1>2, <3>1, <3>2, AdapterNow DEF CountInv
  <2> QED BY <1>4, <2>1, <2>2
<1>11. RpcInv'
  <2>1. seat.taken = <<>> /\ Len(link.chain) = Len(seat.queue) /\ (link.step # "none" => link.chain # <<>>)
    BY <1>2, <1>3, StepNow
  <2>2. Len(cli'.took) = Len(seat.delivered) \/ (Len(cli'.took) = Len(seat.delivered) + 1 /\ link.chain # <<>>)
    BY <1>2, <1>3, <1>4, <1>5, <1>7, StepNow
  <2>3. \A i, j \in 1 .. Len(pipe') : pipe'[i].kind = "reply" /\ pipe'[j].kind = "reply" /\ pipe'[i].what = pipe'[j].what => i = j
    <3> SUFFICES ASSUME NEW i \in 1 .. Len(pipe'), NEW j \in 1 .. Len(pipe'), pipe'[i].kind = "reply", pipe'[j].kind = "reply",
                        pipe'[i].what = pipe'[j].what
                 PROVE  i = j
      OBVIOUS
    <3>1. CASE i \in 1 .. Len(pipe) /\ j \in 1 .. Len(pipe)
      BY <1>2, <1>3, <1>9, <3>1, StepNow
    <3>2. CASE i = Len(pipe) + 1 /\ j = Len(pipe) + 1
      BY <3>2
    <3>3. CASE i \in 1 .. Len(pipe) /\ j = Len(pipe) + 1
      BY <1>2, <1>9, <3>3
    <3>4. CASE i = Len(pipe) + 1 /\ j \in 1 .. Len(pipe)
      BY <1>2, <1>9, <3>4
    <3> QED BY <1>9, <3>1, <3>2, <3>3, <3>4
  <2>4. \A i \in 1 .. Len(pipe') : Taken(pipe'[i]) => link.step = "sent" /\ Len(cli'.took) = Len(seat.delivered) + 1
    <3> SUFFICES ASSUME NEW i \in 1 .. Len(pipe'), Taken(pipe'[i]) PROVE link.step = "sent" /\ Len(cli'.took) = Len(seat.delivered) + 1
      OBVIOUS
    <3>1. CASE i \in 1 .. Len(pipe)
      <4>1. Taken(pipe[i]) /\ link.step = "sent" /\ Len(cli.took) = Len(seat.delivered) + 1
        BY <1>2, <1>3, <1>9, <3>1, StepNow
      <4>2. ~(c = "steer" /\ ok)
        <5> SUFFICES ASSUME c = "steer", ok PROVE FALSE
          OBVIOUS
        <5>1. Len(cli.took) = Len(seat.delivered) /\ Len(seat.delivered) \in Nat
          BY <1>5, AdapterNow
        <5> QED BY <4>1, <5>1
      <4> QED BY <1>4, <4>1, <4>2
    <3>2. CASE i = Len(pipe) + 1
      BY <1>1, <1>5, <1>7, <1>9, <3>2 DEF Taken
    <3> QED BY <1>9, <3>1, <3>2
  <2>5. (\A i \in 1 .. Len(pipe') : ~Taken(pipe'[i])) => Len(cli'.took) = Len(seat.delivered)
    <3> SUFFICES ASSUME \A i \in 1 .. Len(pipe') : ~Taken(pipe'[i]) PROVE Len(cli'.took) = Len(seat.delivered)
      OBVIOUS
    <3>1. Len(pipe) + 1 \in 1 .. Len(pipe') /\ \A i \in 1 .. Len(pipe) : i \in 1 .. Len(pipe')
      BY <1>9, LinesNow
    <3>2. ~(c = "steer" /\ ok)
      BY <1>1, <1>9, <3>1 DEF Taken
    <3>3. \A i \in 1 .. Len(pipe) : ~Taken(pipe[i])
      BY <1>9, <3>1
    <3> QED BY <1>2, <1>3, <1>4, <3>2, <3>3, StepNow
  <2> QED BY <1>2, <1>3, <2>1, <2>2, <2>3, <2>4, <2>5, StepNow DEF RpcInv
<1>12. ExecInv'
  BY <1>2, <1>3 DEF ExecInv
<1>13. EndInv'
  <2>1. \A i \in 1 .. Len(pipe') : pipe'[i].kind = "end" => i \in 1 .. Len(pipe) /\ pipe'[i] = pipe[i]
    BY <1>9
  <2> QED BY <1>2, <1>6, <2>1, AdapterNow DEF EndInv, ByRpc
<1>14. AskInv'
  BY <1>2, AdapterNow DEF AskInv, Alive, ByRpc
<1> QED BY <1>8, <1>9, <1>10, <1>11, <1>12, <1>13, <1>14 DEF AdapterInv, AdapterShapes

LEMMA ProviderTurnsInv ==
  ASSUME AdapterInv, ProviderTurns
  PROVE  AdapterInv'
<1> USE AdapterConstants
<1>1. /\ ByRpc /\ cli.pc = "up" /\ cli' = [cli EXCEPT !.pc = "turning"] /\ UNCHANGED <<seat, rpc, link, native, edits, pipe>>
  BY DEF ProviderTurns, cliRest
<1>2. /\ cli' = [pc |-> "turning", item |-> cli.item, took |-> cli.took, ended |-> cli.ended]
      /\ cli'.pc = "turning" /\ cli'.took = cli.took /\ cli'.ended = cli.ended
  BY <1>1, AdapterNow DEF CliOK
<1>3. CliOK'
  BY <1>2, AdapterNow DEF CliOK, CliPcs
<1>4. SeatOK' /\ RpcOK' /\ LinkOK' /\ NativesOK'
  BY <1>1, AdapterNow DEF SeatOK, RpcOK, LinkOK, NativesOK
<1>5. LinesOK'
  BY <1>1, <1>2, AdapterNow DEF LinesOK
<1>6. seat.pc # "idle" /\ seat.pc # "over" /\ seat.pc # "executing"
  BY <1>1, AdapterNow DEF PcInv, ByRpc, NoSeat
<1>7. PcInv'
  BY <1>1, <1>2, <1>6, AdapterNow DEF PcInv, ByRpc, Alive
<1>8. CountInv' /\ RpcInv' /\ ExecInv'
  BY <1>1, <1>2, <1>6, AdapterNow DEF CountInv, RpcInv, ExecInv, ByRpc, Alive
<1>9. EndInv' /\ AskInv'
  BY <1>1, <1>2, AdapterNow DEF EndInv, AskInv, ByRpc, Alive
<1> QED BY <1>3, <1>4, <1>5, <1>7, <1>8, <1>9 DEF AdapterInv, AdapterShapes

(* A line of the provider's turn, that does not end it.                    *)
LEMMA ProviderSaysInv ==
  ASSUME AdapterInv,
         \/ \E p \in Patches : ProviderShows(p)
         \/ \E k \in 1 .. MaxNative, q \in Patches \cup {NoPatch} : ProviderAsks(k, q)
         \/ ProviderCalls
  PROVE  AdapterInv'
<1> USE AdapterConstants
<1>1. PICK kind \in {"item", "ask", "tool"}, what \in LineWhats, n \in Nat :
        /\ pipe' = Append(pipe, Line(kind, what, n)) /\ Len(pipe) < MaxPipe /\ cli.pc = "turning"
        /\ \E thing : cli' = [cli EXCEPT !.item = thing]
        /\ (kind = "item" => what \in Patches) /\ seat.kind \in {"server", "tools"} /\ UNCHANGED <<seat, rpc, link, native, edits>>
  <2>1. ASSUME NEW p \in Patches, ProviderShows(p)
        PROVE  pipe' = Append(pipe, Line("item", p, 0)) /\ Len(pipe) < MaxPipe /\ p \in LineWhats /\ cli.pc = "turning"
               /\ cli' = [cli EXCEPT !.item = p] /\ seat.kind \in {"server", "tools"} /\ UNCHANGED <<seat, rpc, link, native, edits>>
    BY <2>1 DEF ProviderShows, Prints, cliRest, LineWhats, ByRpc
  <2>2. cli' = cli => cli' = [cli EXCEPT !.item = cli.item]
    BY AdapterNow DEF CliOK
  <2>3. ASSUME NEW k \in 1 .. MaxNative, NEW q \in Patches \cup {NoPatch}, ProviderAsks(k, q)
        PROVE  pipe' = Append(pipe, Line("ask", q, k)) /\ Len(pipe) < MaxPipe /\ q \in LineWhats /\ k \in Nat /\ cli.pc = "turning"
               /\ cli' = cli /\ seat.kind \in {"server", "tools"} /\ UNCHANGED <<seat, rpc, link, native, edits>>
    BY <2>3 DEF ProviderAsks, Prints, cliRest, LineWhats
  <2>4. ASSUME ProviderCalls
        PROVE  pipe' = Append(pipe, Line("tool", "call", 1)) /\ Len(pipe) < MaxPipe /\ "call" \in LineWhats /\ cli.pc = "turning"
               /\ cli' = cli /\ seat.kind \in {"server", "tools"} /\ UNCHANGED <<seat, rpc, link, native, edits>>
    BY <2>4 DEF ProviderCalls, Prints, cliRest, LineWhats
  <2> QED BY <2>1, <2>2, <2>3, <2>4
<1>2. /\ cli'.pc = "turning" /\ cli'.took = cli.took /\ cli'.ended = cli.ended /\ CliOK'
  <2>1. PICK thing : cli' = [cli EXCEPT !.item = thing]
    BY <1>1
  <2>2. cli' = [pc |-> cli.pc, item |-> thing, took |-> cli.took, ended |-> cli.ended]
    BY <2>1, AdapterNow DEF CliOK
  <2> QED BY <1>1, <2>2, AdapterNow DEF CliOK
<1>3. seat.pc # "idle" /\ seat.pc # "over" /\ seat.pc # "executing" /\ kind \in LineKinds \ {"reply"} /\ kind # "end"
  BY <1>1, AdapterNow DEF PcInv, ByRpc, NoSeat, LineKinds
<1>4. /\ \A i \in 1 .. Len(pipe') : i \in 1 .. Len(pipe) \/ i = Len(pipe) + 1
      /\ \A i \in 1 .. Len(pipe) : pipe'[i] = pipe[i]
      /\ pipe'[Len(pipe) + 1].kind = kind
  BY <1>1, <1>2, <1>3, LinePrinted
<1>5. CountInv' /\ ExecInv'
  BY <1>1, <1>2, <1>3, AdapterNow DEF CountInv, ExecInv
<1>6. EndInv'
  <2>1. \A i \in 1 .. Len(pipe') : pipe'[i].kind = "end" => i \in 1 .. Len(pipe) /\ pipe'[i] = pipe[i]
    BY <1>3, <1>4
  <2>2. UNCHANGED <<seat, link>> /\ cli'.ended = cli.ended /\ cli.pc = "turning"
    BY <1>1, <1>2
  <2> QED BY <2>1, <2>2, EndKept
<1> QED BY <1>1, <1>2, <1>3, <1>5, <1>6, LineOfTurn

(* Its end; or the end of the process.                                     *)
LEMMA ProviderEndsInv ==
  ASSUME AdapterInv, NEW status \in {"completed", "failed", "interrupted"}, ProviderEnds(status)
  PROVE  AdapterInv'
<1> USE AdapterConstants
<1>1. /\ pipe' = Append(pipe, Line("end", status, 0)) /\ Len(pipe) < MaxPipe /\ cli.pc = "turning" /\ seat.kind \in {"server", "tools"}
      /\ cli' = [cli EXCEPT !.pc = "ended", !.ended = status] /\ UNCHANGED <<seat, rpc, link, native, edits>>
  BY DEF ProviderEnds, Prints, cliRest, ByRpc
<1>2. cli' = [pc |-> "ended", item |-> cli.item, took |-> cli.took, ended |-> status]
  BY <1>1, AdapterNow DEF CliOK
<1>3. cli'.pc = "ended" /\ cli'.took = cli.took /\ cli'.ended = status /\ CliOK'
  BY <1>2, AdapterNow DEF CliOK, CliPcs
<1>4. seat.pc # "idle" /\ seat.pc # "over" /\ seat.pc # "executing" /\ status \in LineWhats /\ "end" \in LineKinds \ {"reply"}
      /\ status \in TurnStatuses /\ seat.pc # "applying"
  BY <1>1, AdapterNow DEF PcInv, ByRpc, NoSeat, LineKinds, LineWhats, TurnStatuses
<1>5. /\ \A i \in 1 .. Len(pipe') : i \in 1 .. Len(pipe) \/ i = Len(pipe) + 1
      /\ \A i \in 1 .. Len(pipe) : pipe'[i] = pipe[i]
      /\ pipe'[Len(pipe) + 1].kind = "end" /\ pipe'[Len(pipe) + 1].what = status
  BY <1>1, <1>3, <1>4, LinePrinted
<1>6. CountInv' /\ ExecInv'
  BY <1>1, <1>3, <1>4, AdapterNow DEF CountInv, ExecInv
<1>7. cli.ended # "completed" /\ link.done # "completed"
  BY <1>1, AdapterNow DEF EndInv
<1>8. EndInv'
  <2>1. \A i \in 1 .. Len(pipe') : \/ i \in 1 .. Len(pipe) /\ pipe'[i] = pipe[i]
                                   \/ pipe'[i].kind = "end" /\ pipe'[i].what = status
    BY <1>5
  <2>2. \A i \in 1 .. Len(pipe') : pipe'[i].kind = "end" => (pipe'[i].what \in {"completed", "line"} => status = "completed") /\ pipe'[i].what # "line"
    BY <1>1, <1>7, <2>1, AdapterNow DEF EndInv, ByRpc
  <2> QED BY <1>1, <1>3, <1>4, <1>7, <2>2, AdapterNow DEF EndInv, ByRpc
<1> QED BY <1>1, <1>3, <1>4, <1>6, <1>8, LineOfTurn

LEMMA ProviderClosesInv ==
  ASSUME AdapterInv, NEW exit \in {"ok", "failed"}, ProviderCloses(exit)
  PROVE  AdapterInv'
<1> USE AdapterConstants
<1>1. /\ pipe' = Append(pipe, Line("close", exit, 0)) /\ Len(pipe) < MaxPipe /\ cli.pc \notin {"off", "dead"}
      /\ cli' = [cli EXCEPT !.pc = "dead"] /\ UNCHANGED <<seat, rpc, link, native, edits>>
  BY DEF ProviderCloses, Prints, cliRest
<1>2. cli' = [pc |-> "dead", item |-> cli.item, took |-> cli.took, ended |-> cli.ended]
  BY <1>1, AdapterNow DEF CliOK
<1>3. cli'.pc = "dead" /\ cli'.took = cli.took /\ cli'.ended = cli.ended /\ CliOK'
  BY <1>2, AdapterNow DEF CliOK, CliPcs
<1>4. seat.pc # "idle" /\ exit \in LineWhats /\ "close" \in LineKinds \ {"reply"}
  BY <1>1, AdapterNow DEF PcInv, NoCli, LineKinds, LineWhats, TurnStatuses
<1>5. /\ \A i \in 1 .. Len(pipe') : i \in 1 .. Len(pipe) \/ i = Len(pipe) + 1
      /\ \A i \in 1 .. Len(pipe) : pipe'[i] = pipe[i]
      /\ pipe'[Len(pipe) + 1].kind = "close"
  BY <1>1, <1>3, <1>4, LinePrinted
<1>6. CountInv'
  BY <1>1, <1>3, AdapterNow DEF CountInv
<1>7. ExecInv' /\ EndInv'
  <2>1. \A i \in 1 .. Len(pipe') : pipe'[i].kind # "close" => i \in 1 .. Len(pipe) /\ pipe'[i] = pipe[i]
    BY <1>5
  <2>2. \A i \in 1 .. Len(pipe) : \A j \in 1 .. i - 1 : pipe'[j] = pipe[j]
    BY <1>5, LinesNow
  <2>3. ExecInv'
    <3> SUFFICES ASSUME seat.pc = "executing" PROVE ExecInv'
      BY <1>1 DEF ExecInv
    <3>1. ASSUME NEW i \in 1 .. Len(pipe')
          PROVE  /\ pipe'[i].kind = "turn" =>
                    /\ ~link.turn => Len(cli.took) = Len(seat.delivered) + Len(seat.taken)
                    /\ link.ack \/ link.failed \/ \E j \in 1 .. i - 1 : pipe'[j].kind = "thread"
                 /\ pipe'[i].kind = "end" => link.turn \/ link.failed \/ \E j \in 1 .. i - 1 : pipe'[j].kind = "turn"
                 /\ pipe'[i].kind = "end" => pipe'[i].what = "line"
      <4>1. CASE i \in 1 .. Len(pipe) /\ pipe'[i] = pipe[i]
        <5>1. /\ pipe[i].kind = "turn" =>
                    /\ ~link.turn => Len(cli.took) = Len(seat.delivered) + Len(seat.taken)
                    /\ link.ack \/ link.failed \/ \E j \in 1 .. i - 1 : pipe[j].kind = "thread"
              /\ pipe[i].kind = "end" => link.turn \/ link.failed \/ \E j \in 1 .. i - 1 : pipe[j].kind = "turn"
              /\ pipe[i].kind = "end" => pipe[i].what = "line"
          BY <4>1, AdapterNow DEF ExecInv
        <5>2. \A j \in 1 .. i - 1 : pipe'[j] = pipe[j]
          BY <2>2, <4>1
        <5> HIDE DEF ProviderCloses
        <5> QED BY <4>1, <5>1, <5>2
      <4>2. CASE pipe'[i].kind = "close"
        BY <4>2
      <4> QED BY <2>1, <4>1, <4>2
    <3> QED BY <1>1, <1>3, <3>1, AdapterNow DEF ExecInv
  <2>4. EndInv'
    BY <1>1, <1>3, <2>1, AdapterNow DEF EndInv, ByRpc
  <2> QED BY <2>3, <2>4
<1> QED BY <1>1, <1>3, <1>4, <1>6, <1>7, LineOfTurn

(* What a process of exec or of Claude Code prints, in its order.          *)
LEMMA ExecPrintsInv ==
  ASSUME AdapterInv, NEW kind \in {"thread", "turn", "said", "end", "failed"}, NEW n \in Nat, ExecPrints(kind, n)
  PROVE  AdapterInv'
<1> USE AdapterConstants
<1>1. /\ pipe' = Append(pipe, Line(kind, "line", n)) /\ Len(pipe) < MaxPipe /\ seat.pc = "executing"
      /\ UNCHANGED <<seat, rpc, link, native, edits>>
      /\ \/ kind = "thread" /\ cli.pc = "up" /\ cli' = [cli EXCEPT !.pc = "named"]
         \/ kind = "turn" /\ cli.pc = "named" /\ cli' = [cli EXCEPT !.pc = "turning", !.took = @ \o seat.taken]
         \/ kind = "said" /\ cli.pc = "turning" /\ UNCHANGED cli
         \/ kind = "end" /\ cli.pc = "turning" /\ cli' = [cli EXCEPT !.pc = "ended", !.ended = "completed"]
         \/ kind = "failed" /\ cli.pc \in {"up", "named", "turning"} /\ cli' = [cli EXCEPT !.pc = "ended"]
  BY DEF ExecPrints, Prints, cliRest
<1>2. PICK pc, took, ended : cli' = [pc |-> pc, item |-> cli.item, took |-> took, ended |-> ended]
        /\ \/ kind = "thread" /\ cli.pc = "up" /\ pc = "named" /\ took = cli.took /\ ended = cli.ended
           \/ kind = "turn" /\ cli.pc = "named" /\ pc = "turning" /\ took = cli.took \o seat.taken /\ ended = cli.ended
           \/ kind = "said" /\ cli.pc = "turning" /\ pc = "turning" /\ took = cli.took /\ ended = cli.ended
           \/ kind = "end" /\ cli.pc = "turning" /\ pc = "ended" /\ took = cli.took /\ ended = "completed"
           \/ kind = "failed" /\ cli.pc \in {"up", "named", "turning"} /\ pc = "ended" /\ took = cli.took /\ ended = cli.ended
  BY <1>1, AdapterNow DEF CliOK
<1>3. /\ cli'.pc = pc /\ cli'.took = took /\ cli'.ended = ended /\ pc \in {"named", "turning", "ended"} /\ cli.pc # "dead"
      /\ cli.pc \in {"up", "named", "turning"}
  BY <1>2
<1>4. seat.pc # "idle" /\ "line" \in LineWhats /\ kind \in LineKinds \ {"reply"} /\ ~ByRpc
  BY <1>1, AdapterNow DEF PcInv, LineKinds, LineWhats
<1>5. /\ \A i \in 1 .. Len(pipe') : i \in 1 .. Len(pipe) \/ i = Len(pipe) + 1
      /\ \A i \in 1 .. Len(pipe) : pipe'[i] = pipe[i] /\ Len(pipe') = Len(pipe) + 1
      /\ pipe'[Len(pipe) + 1].kind = kind /\ pipe'[Len(pipe) + 1].what = "line" /\ Len(pipe') = Len(pipe) + 1
  BY <1>1, <1>3, <1>4, LinePrinted
<1>6. took = cli.took \/ (kind = "turn" /\ cli.pc = "named" /\ took = cli.took \o seat.taken /\ Len(cli.took) = Len(seat.delivered))
  BY <1>1, <1>2, AdapterNow DEF ExecInv
<1>7. /\ took \in Steers /\ Len(took) \in Nat
      /\ kind # "turn" => took = cli.took
      /\ kind = "turn" => /\ Len(took) = Len(seat.delivered) + Len(seat.taken)
                          /\ \A i \in 1 .. Len(took) : took[i] = i
  <2>1. CASE took = cli.took /\ kind # "turn"
    BY <2>1, AdapterNow DEF CliOK
  <2>2. CASE kind = "turn"
    <3>1. took = cli.took \o seat.taken /\ Len(cli.took) = Len(seat.delivered) /\ cli.took \in Steers /\ seat.taken \in Steers
      BY <1>1, <1>2, <2>2, AdapterNow DEF ExecInv, CliOK, SeatOK
    <3>2. PICK a, b : a = cli.took /\ b = seat.taken
      OBVIOUS
    <3>a. a \in Steers /\ b \in Steers /\ took = Joined(a, b)
      BY <3>1, <3>2 DEF Joined
    <3>c. took \in Steers /\ Len(a) \in Nat /\ Len(b) \in Nat /\ Len(took) = Len(a) + Len(b)
      BY <3>a, SteersJoined
    <3>b. took \in Steers /\ Len(cli.took) \in Nat /\ Len(seat.taken) \in Nat /\ Len(took) = Len(cli.took) + Len(seat.taken)
      BY <3>2, <3>c
    <3>3. ASSUME NEW i \in 1 .. Len(took) PROVE took[i] = i
      <4>1. \/ i \in 1 .. Len(a) /\ took[i] = a[i]
            \/ i - Len(a) \in 1 .. Len(b) /\ took[i] = b[i - Len(a)]
        BY <3>a, SteerJoined
      <4>2. CASE i \in 1 .. Len(a) /\ took[i] = a[i]
        BY <3>2, <4>2, AdapterNow DEF CountInv
      <4>3. CASE i - Len(a) \in 1 .. Len(b) /\ took[i] = b[i - Len(a)]
        <5>1. PICK k \in Nat : k = Len(cli.took) /\ k = Len(seat.delivered)
          BY <3>1, <3>b
        <5>2. i - k \in 1 .. Len(seat.taken) /\ took[i] = seat.taken[i - k]
          BY <3>2, <4>3, <5>1
        <5>3. seat.taken[i - k] = k + (i - k)
          BY <5>1, <5>2, AdapterNow DEF CountInv
        <5>4. i \in Int
          BY <3>b
        <5> QED BY <5>2, <5>3, <5>4
      <4> QED BY <4>1, <4>2, <4>3
    <3>4. Len(took) \in Nat /\ Len(took) = Len(seat.delivered) + Len(seat.taken)
      <4>1. PICK m, v \in Nat : m = Len(cli.took) /\ v = Len(seat.taken)
        BY <3>b
      <4>2. Len(took) = Len(cli.took) + Len(seat.taken)
        BY <3>b
      <4>3. Len(took) = m + v
        BY <4>1, <4>2
      <4>4. m + v \in Nat
        OBVIOUS
      <4> QED BY <3>1, <4>1, <4>3, <4>4
    <3> QED BY <2>2, <3>b, <3>3, <3>4
  <2> QED BY <1>6, <2>1, <2>2
<1>8. CliOK'
  BY <1>2, <1>3, <1>7 DEF CliOK, CliPcs
<1>9. CountInv'
  <2>1. Len(seat.delivered) <= Len(took) /\ Len(took) <= seat.said /\ \A i \in 1 .. Len(took) : took[i] = i
    <3>1. CASE kind = "turn"
      <4>1. PICK d, t, q, k, said \in Nat : d = Len(seat.delivered) /\ t = Len(seat.taken) /\ said = seat.said /\ d + t + q = said
        BY CountsNow
      <4>2. Len(took) = d + t
        BY <1>7, <3>1, <4>1
      <4>3. d <= d + t /\ d + t <= said
        BY <4>1, Sums
      <4> QED BY <1>7, <3>1, <4>1, <4>2, <4>3
    <3>2. CASE kind # "turn"
      BY <1>7, <3>2, AdapterNow DEF CountInv
    <3> QED BY <3>1, <3>2
  <2> QED BY <1>1, <1>3, <2>1, AdapterNow DEF CountInv
<1>10. ExecInv'
  <2>1. \A i \in 1 .. Len(pipe') : \A j \in 1 .. i - 1 : j \in 1 .. Len(pipe) /\ pipe'[j] = pipe[j]
    BY <1>5, LinesNow
  <2>2. Len(took) = Len(seat.delivered) \/ Len(took) = Len(seat.delivered) + Len(seat.taken)
    BY <1>1, <1>7, AdapterNow DEF ExecInv
  <2>3. pc \in {"up", "named"} => Len(took) = Len(seat.delivered)
    BY <1>1, <1>2, <1>7, AdapterNow DEF ExecInv
  <2>4. ASSUME NEW i \in 1 .. Len(pipe')
        PROVE  /\ pipe'[i].kind = "turn" =>
                    /\ ~link.turn => Len(took) = Len(seat.delivered) + Len(seat.taken)
                    /\ link.ack \/ link.failed \/ \E j \in 1 .. i - 1 : pipe'[j].kind = "thread"
               /\ pipe'[i].kind = "end" => link.turn \/ link.failed \/ \E j \in 1 .. i - 1 : pipe'[j].kind = "turn"
               /\ pipe'[i].kind = "end" => pipe'[i].what = "line"
               /\ pipe'[i].kind = "close" => pc = "dead"
    <3>1. CASE i \in 1 .. Len(pipe)
      <4>1. pipe'[i] = pipe[i] /\ pipe[i].kind # "close"
        BY <1>1, <1>3, <1>5, <3>1, AdapterNow DEF ExecInv
      <4>2. pipe[i].kind = "turn" /\ ~link.turn => Len(took) = Len(seat.delivered) + Len(seat.taken)
        BY <1>1, <1>7, <3>1, AdapterNow DEF ExecInv
      <4>3. /\ pipe[i].kind = "turn" => link.ack \/ link.failed \/ \E j \in 1 .. i - 1 : pipe[j].kind = "thread"
            /\ pipe[i].kind = "end" => link.turn \/ link.failed \/ \E j \in 1 .. i - 1 : pipe[j].kind = "turn"
            /\ pipe[i].kind = "end" => pipe[i].what = "line"
        BY <1>1, <3>1, AdapterNow DEF ExecInv
      <4> QED BY <2>1, <4>1, <4>2, <4>3
    <3>2. CASE i = Len(pipe) + 1
      <4>1. i - 1 = Len(pipe) /\ pipe'[i].kind = kind /\ pipe'[i].what = "line" /\ kind # "close"
        BY <1>5, <3>2, LinesNow
      <4>2. kind = "turn" => cli.pc = "named"
        BY <1>2
      <4>3. kind = "end" => cli.pc = "turning"
        BY <1>2
      <4>4. kind = "turn" => link.ack \/ link.failed \/ \E j \in 1 .. Len(pipe) : pipe'[j].kind = "thread"
        BY <1>1, <1>5, <4>2, AdapterNow DEF ExecInv
      <4>5. kind = "end" => link.turn \/ link.failed \/ \E j \in 1 .. Len(pipe) : pipe'[j].kind = "turn"
        BY <1>1, <1>5, <4>3, AdapterNow DEF ExecInv
      <4> QED BY <1>7, <4>1, <4>4, <4>5
    <3> QED BY <1>5, <3>1, <3>2
  <2>5. pc = "named" => link.ack \/ link.failed \/ \E j \in 1 .. Len(pipe') : pipe'[j].kind = "thread"
    <3>1. pc = "named" => kind = "thread"
      BY <1>2
    <3>2. Len(pipe) + 1 \in 1 .. Len(pipe')
      BY <1>5, LinesNow
    <3> QED BY <1>5, <3>1, <3>2
  <2>6. pc = "turning" => link.turn \/ link.failed \/ \E j \in 1 .. Len(pipe') : pipe'[j].kind = "turn"
    <3>1. pc = "turning" => kind = "turn" \/ cli.pc = "turning"
      BY <1>2
    <3>2. Len(pipe) + 1 \in 1 .. Len(pipe') /\ \A j \in 1 .. Len(pipe) : j \in 1 .. Len(pipe')
      BY <1>5, LinesNow
    <3>3. cli.pc = "turning" => link.turn \/ link.failed \/ \E j \in 1 .. Len(pipe) : pipe[j].kind = "turn"
      BY <1>1, AdapterNow DEF ExecInv
    <3> QED BY <1>5, <3>1, <3>2, <3>3
  <2> QED BY <1>1, <1>3, <2>2, <2>3, <2>4, <2>5, <2>6, AdapterNow DEF ExecInv
<1>11. EndInv'
  <2>1. cli.ended # "completed" /\ (kind = "end" => ended = "completed") /\ (ended = "completed" => pc = "ended")
    BY <1>2, <1>3, AdapterNow DEF EndInv
  <2>2. \A i \in 1 .. Len(pipe') : pipe'[i].kind = "end" => ended = "completed" \/ (i \in 1 .. Len(pipe) /\ pipe'[i] = pipe[i])
    BY <1>5, <2>1
  <2> QED BY <1>1, <1>3, <1>4, <2>1, <2>2, AdapterNow DEF EndInv, ByRpc
<1> QED BY <1>1, <1>3, <1>4, <1>8, <1>9, <1>10, <1>11, LineOfTurn

(* A step that leaves the counters alone, and one that touches neither the *)
(* provider's lines nor the processes.                                     *)
LEMMA CountKept ==
  ASSUME AdapterInv, seat'.delivered = seat.delivered, seat'.taken = seat.taken, seat'.queue = seat.queue,
         seat'.said = seat.said, cli'.took = cli.took
  PROVE  CountInv'
  BY AdapterNow DEF CountInv

(* The end of run.                                                         *)
LEMMA AdapterEndsInv ==
  ASSUME AdapterInv, Alive, NEW result \in {"completed", "failed"}, AdapterEnds(result),
         result = "completed" => link.done = "completed"
  PROVE  AdapterInv'
<1> USE AdapterConstants
<1>1. PICK r, c :
        /\ seat' = [seat EXCEPT !.pc = "over", !.writing = "no", !.result = r, !.cancelled = c]
        /\ r \in {"interrupted", result} /\ c \in BOOLEAN
        /\ rpc' = [error |-> TRUE, pending |-> {}] /\ link' = [link EXCEPT !.chain = <<>>, !.work = <<>>]
        /\ cli' = [cli EXCEPT !.pc = "dead"] /\ pipe' = <<>>
        /\ native' = [k \in 1..MaxNative |-> IF native[k].state = "open" THEN [native[k] EXCEPT !.state = "closed"] ELSE native[k]]
        /\ UNCHANGED edits
  <2>1. PICK stopped \in {seat.cancelled} \cup (IF seat.writing = "asking" THEN {TRUE} ELSE {}) :
          seat' = [seat EXCEPT !.pc = "over", !.writing = "no", !.result = IF stopped THEN "interrupted" ELSE result,
                               !.cancelled = @ \/ seat.writing = "asking"]
    BY DEF AdapterEnds
  <2>2. PICK r : r = IF stopped THEN "interrupted" ELSE result
    OBVIOUS
  <2>3. PICK c : c = (seat.cancelled \/ seat.writing = "asking")
    OBVIOUS
  <2>4. seat' = [seat EXCEPT !.pc = "over", !.writing = "no", !.result = r, !.cancelled = c]
    BY <2>1, <2>2, <2>3
  <2>5. r \in {"interrupted", result} /\ c \in BOOLEAN
    BY <2>2, <2>3
  <2> QED BY <2>4, <2>5 DEF AdapterEnds
<1>2. seat' = [pc |-> "over", kind |-> seat.kind, cancelled |-> c, said |-> seat.said, queue |-> seat.queue,
               delivered |-> seat.delivered, taken |-> seat.taken, follow |-> seat.follow, writing |-> "no", result |-> r]
  BY <1>1, AdapterNow DEF SeatOK
<1>3. /\ seat'.pc = "over" /\ seat'.kind = seat.kind /\ seat'.cancelled = c /\ seat'.said = seat.said /\ seat'.queue = seat.queue
      /\ seat'.delivered = seat.delivered /\ seat'.taken = seat.taken /\ seat'.follow = seat.follow /\ seat'.writing = "no" /\ seat'.result = r
  BY <1>2
<1>4. link' = [turn |-> link.turn, stopping |-> link.stopping, done |-> link.done, early |-> link.early, chain |-> <<>>,
               step |-> link.step, item |-> link.item, work |-> <<>>, ack |-> link.ack, failed |-> link.failed,
               proposed |-> link.proposed]
  BY <1>1, AdapterNow DEF LinkOK
<1>5. /\ link'.turn = link.turn /\ link'.stopping = link.stopping /\ link'.done = link.done /\ link'.early = link.early
      /\ link'.chain = <<>> /\ link'.step = link.step /\ link'.item = link.item /\ link'.ack = link.ack /\ link'.failed = link.failed
  BY <1>4
<1>6. cli' = [pc |-> "dead", item |-> cli.item, took |-> cli.took, ended |-> cli.ended]
  BY <1>1, AdapterNow DEF CliOK
<1>7. cli'.pc = "dead" /\ cli'.took = cli.took /\ cli'.ended = cli.ended
  BY <1>6
<1>8. <<>> \in Steers /\ Len(<<>>) = 0 /\ 1 .. 0 = {} /\ <<>> \in Seq(Lines)
  BY DEF Steers
<1>9. SeatOK'
  <2>1. r \in Results
    BY <1>1 DEF Results
  <2> QED BY <1>1, <1>2, <1>3, <2>1, AdapterNow DEF SeatOK, SeatPcs
<1>10. rpc'.error = TRUE /\ rpc'.pending = {} /\ RpcOK'
  BY <1>1 DEF RpcOK
<1>11. LinkOK'
  BY <1>4, <1>5, <1>8, AdapterNow DEF LinkOK
<1>12. CliOK'
  BY <1>6, <1>7, AdapterNow DEF CliOK, CliPcs
<1>13. NativesOK' /\ \A k \in 1 .. MaxNative : native'[k].state # "open"
  <2>1. DOMAIN native' = 1 .. MaxNative
    BY <1>1
  <2>2. ASSUME NEW k \in 1 .. MaxNative
        PROVE  /\ native'[k] = [state |-> native'[k].state, asked |-> native'[k].asked, shown |-> native'[k].shown]
               /\ native'[k].state \in AskStates /\ native'[k].state # "open"
    <3>1. CASE native[k].state = "open"
      <4>1. native'[k] = [native[k] EXCEPT !.state = "closed"]
        BY <1>1, <3>1
      <4>2. native'[k] = [state |-> "closed", asked |-> native[k].asked, shown |-> native[k].shown]
        BY <4>1, AdapterNow DEF NativesOK
      <4> QED BY <4>2 DEF AskStates
    <3>2. CASE native[k].state # "open"
      BY <1>1, <3>2, AdapterNow DEF NativesOK
    <3> QED BY <3>1, <3>2
  <2> QED BY <2>1, <2>2 DEF NativesOK
<1>14. LinesOK'
  <2>1. Len(pipe') = 0
    BY <1>1, <1>8
  <2>2. pipe' \in Seq(Lines) /\ Len(pipe') <= MaxPipe + 1 /\ Len(pipe') <= MaxPipe /\ 1 .. Len(pipe') = {}
    BY <1>1, <1>8, <2>1
  <2> QED BY <1>5, <2>2, AdapterNow DEF LinesOK
<1>15. PcInv'
  BY <1>3, <1>7, <1>10, AdapterNow DEF PcInv, Alive, ByRpc
<1>16. CountInv'
  BY <1>3, <1>7, CountKept
<1>17. RpcInv' /\ ExecInv'
  BY <1>3 DEF RpcInv, ExecInv, Alive
<1>18. EndInv'
  <2>1. 1 .. Len(pipe') = {}
    BY <1>1, <1>8
  <2>2. r = "completed" => cli.ended = "completed"
    BY <1>1, AdapterNow DEF EndInv
  <2> QED BY <1>3, <1>5, <1>7, <2>1, <2>2, AdapterNow DEF EndInv, ByRpc
<1>19. AskInv'
  BY <1>1, <1>13, AdapterNow DEF AskInv
<1> QED BY <1>9, <1>10, <1>11, <1>12, <1>13, <1>14, <1>15, <1>16, <1>17, <1>18, <1>19 DEF AdapterInv, AdapterShapes

LEMMA RunFailsInv ==
  ASSUME AdapterInv, RunFails
  PROVE  AdapterInv'
  BY AdapterEndsInv DEF RunFails, FailDue

LEMMA TurnEndsInv ==
  ASSUME AdapterInv, TurnEnds
  PROVE  AdapterInv'
<1>1. PICK result : result = IF link.done = "completed" /\ ~link.stopping THEN "completed" ELSE "failed"
  OBVIOUS
<1>2. AdapterEnds(result) /\ Alive
  BY <1>1 DEF TurnEnds, DoneDue, Alive
<1>3. result \in {"completed", "failed"} /\ (result = "completed" => link.done = "completed")
  BY <1>1
<1> QED BY <1>2, <1>3, AdapterEndsInv

LEMMA TurnJoinsInv ==
  ASSUME AdapterInv, TurnJoins
  PROVE  AdapterInv'
<1> USE AdapterConstants
<1>1. seat.pc = "running" /\ UNCHANGED <<rpc, link, cli, pipe, native, edits>>
  BY DEF TurnJoins, JoinDue
<1>2. seat' = [pc |-> "joining", kind |-> seat.kind, cancelled |-> seat.cancelled, said |-> seat.said,
               queue |-> seat.queue,
               delivered |-> seat.delivered, taken |-> seat.taken, follow |-> seat.follow, writing |-> seat.writing, result |-> seat.result]
  BY AdapterNow DEF SeatOK, TurnJoins
<1>3. /\ seat'.pc = "joining" /\ seat'.kind = seat.kind /\ seat'.cancelled = seat.cancelled /\ seat'.said = seat.said /\ seat'.queue = seat.queue
      /\ seat'.delivered = seat.delivered /\ seat'.taken = seat.taken /\ seat'.follow = seat.follow /\ seat'.writing = seat.writing
      /\ seat'.result = seat.result
  BY <1>2
<1>4. ByRpc /\ Alive /\ ByRpc' /\ Alive'
  BY <1>1, <1>3, AdapterNow DEF PcInv, Alive, ByRpc
<1>5. SeatOK'
  BY <1>2, <1>3, AdapterNow DEF SeatOK, SeatPcs
<1>6. RpcOK' /\ LinkOK' /\ CliOK' /\ NativesOK' /\ LinesOK'
  BY <1>1, AdapterNow DEF RpcOK, LinkOK, CliOK, NativesOK, LinesOK
<1>7. PcInv'
  BY <1>1, <1>3, <1>4, AdapterNow DEF PcInv
<1>8. CountInv'
  BY <1>1, <1>3, CountKept
<1>9. RpcInv'
  BY <1>1, <1>3, <1>4, StepNow DEF RpcInv, Taken
<1>10. ExecInv'
  BY <1>3 DEF ExecInv
<1>11. EndInv'
  BY <1>1, <1>3, AdapterNow DEF EndInv, ByRpc
<1>12. AskInv'
  BY <1>1, <1>3, <1>4, AdapterNow DEF AskInv
<1> QED BY <1>5, <1>6, <1>7, <1>8, <1>9, <1>10, <1>11, <1>12 DEF AdapterInv, AdapterShapes

LEMMA ExecKept ==
  ASSUME AdapterInv, seat'.pc = seat.pc, seat'.delivered = seat.delivered, seat'.taken = seat.taken, cli'.pc = cli.pc, cli'.took = cli.took,
         link'.turn = link.turn, link'.ack = link.ack, link'.done = link.done, link'.failed = link.failed, pipe' = pipe
  PROVE  ExecInv'
<1> SUFFICES ASSUME seat.pc = "executing" PROVE ExecInv'
  BY DEF ExecInv
<1>1. ASSUME NEW i \in 1 .. Len(pipe)
      PROVE  /\ pipe[i].kind = "turn" =>
                    /\ ~link.turn => Len(cli.took) = Len(seat.delivered) + Len(seat.taken)
                    /\ link.ack \/ link.failed \/ \E j \in 1 .. i - 1 : pipe[j].kind = "thread"
             /\ pipe[i].kind = "end" => link.turn \/ link.failed \/ \E j \in 1 .. i - 1 : pipe[j].kind = "turn"
             /\ pipe[i].kind = "end" => pipe[i].what = "line"
             /\ pipe[i].kind = "close" => cli.pc = "dead"
  BY AdapterNow DEF ExecInv
<1>2. /\ Len(cli.took) = Len(seat.delivered) \/ Len(cli.took) = Len(seat.delivered) + Len(seat.taken)
      /\ cli.pc \in {"up", "named"} => Len(cli.took) = Len(seat.delivered)
      /\ link.turn => seat.taken = <<>> /\ link.ack
      /\ link.done \in {"no", "completed"} /\ (link.done # "no" => link.turn \/ link.failed)
      /\ cli.pc = "named" => link.ack \/ link.failed \/ \E j \in 1 .. Len(pipe) : pipe[j].kind = "thread"
      /\ cli.pc = "turning" => link.turn \/ link.failed \/ \E j \in 1 .. Len(pipe) : pipe[j].kind = "turn"
  BY AdapterNow DEF ExecInv
<1>3. ASSUME NEW i \in 1 .. Len(pipe')
      PROVE  /\ pipe'[i].kind = "turn" =>
                    /\ ~link'.turn => Len(cli'.took) = Len(seat'.delivered) + Len(seat'.taken)
                    /\ link'.ack \/ link'.failed \/ \E j \in 1 .. i - 1 : pipe'[j].kind = "thread"
             /\ pipe'[i].kind = "end" => link'.turn \/ link'.failed \/ \E j \in 1 .. i - 1 : pipe'[j].kind = "turn"
             /\ pipe'[i].kind = "end" => pipe'[i].what = "line"
             /\ pipe'[i].kind = "close" => cli'.pc = "dead"
  <2>1. i \in 1 .. Len(pipe)
    OBVIOUS
  <2> QED BY <1>1, <2>1
<1>4. /\ Len(cli'.took) = Len(seat'.delivered) \/ Len(cli'.took) = Len(seat'.delivered) + Len(seat'.taken)
      /\ cli'.pc \in {"up", "named"} => Len(cli'.took) = Len(seat'.delivered)
      /\ link'.turn => seat'.taken = <<>> /\ link'.ack
      /\ link'.done \in {"no", "completed"} /\ (link'.done # "no" => link'.turn \/ link'.failed)
      /\ cli'.pc = "named" => link'.ack \/ link'.failed \/ \E j \in 1 .. Len(pipe') : pipe'[j].kind = "thread"
      /\ cli'.pc = "turning" => link'.turn \/ link'.failed \/ \E j \in 1 .. Len(pipe') : pipe'[j].kind = "turn"
  BY <1>2
<1> QED BY <1>3, <1>4 DEF ExecInv

(* A host tool or an edit goes on, with its question or without.           *)
LEMMA WritingInv ==
  ASSUME AdapterInv, NEW v \in {"no", "asking"}, v = "asking" => Alive /\ seat.pc # "executing", seat.pc # "idle",
         NEW w, NEW p, seat' = [seat EXCEPT !.writing = v], link' = [link EXCEPT !.work = w, !.proposed = p],
         UNCHANGED <<rpc, cli, pipe, native>>, edits' = edits \/ edits' = edits \cup {[after |-> FALSE]}
  PROVE  AdapterInv'
<1> USE AdapterConstants
<1>2. seat' = [pc |-> seat.pc, kind |-> seat.kind, cancelled |-> seat.cancelled, said |-> seat.said,
               queue |-> seat.queue,
               delivered |-> seat.delivered, taken |-> seat.taken, follow |-> seat.follow, writing |-> v, result |-> seat.result]
  BY AdapterNow DEF SeatOK
<1>3. /\ seat'.pc = seat.pc /\ seat'.kind = seat.kind /\ seat'.cancelled = seat.cancelled /\ seat'.said = seat.said /\ seat'.queue = seat.queue
      /\ seat'.delivered = seat.delivered /\ seat'.taken = seat.taken /\ seat'.follow = seat.follow /\ seat'.writing = v
      /\ seat'.result = seat.result
  BY <1>2
<1>4. link' = [turn |-> link.turn, stopping |-> link.stopping, done |-> link.done, early |-> link.early, chain |-> link.chain,
               step |-> link.step, item |-> link.item, work |-> w, ack |-> link.ack, failed |-> link.failed, proposed |-> p]
  BY AdapterNow DEF LinkOK
<1>5. /\ link'.turn = link.turn /\ link'.stopping = link.stopping /\ link'.done = link.done /\ link'.early = link.early
      /\ link'.chain = link.chain /\ link'.step = link.step /\ link'.item = link.item /\ link'.ack = link.ack /\ link'.failed = link.failed
  BY <1>4
<1>6. SeatOK'
  BY <1>2, <1>3, AdapterNow DEF SeatOK
<1>7. LinkOK'
  BY <1>4, <1>5, AdapterNow DEF LinkOK
<1>8. RpcOK' /\ CliOK' /\ NativesOK' /\ LinesOK'
  BY <1>5, AdapterNow DEF RpcOK, CliOK, NativesOK, LinesOK
<1>9. PcInv'
  BY <1>3, AdapterNow DEF PcInv, Alive, ByRpc
<1>10. CountInv'
  BY <1>3, CountKept
<1>11. RpcInv'
  BY <1>3, <1>5, StepNow DEF RpcInv, Taken, Alive, ByRpc
<1>12. ExecInv'
  BY <1>3, <1>5, ExecKept
<1>13. EndInv'
  BY <1>3, <1>5, AdapterNow DEF EndInv, ByRpc
<1>14. AskInv'
  <2>1. \A e \in edits' : ~e.after
    BY AdapterNow DEF AskInv
  <2>2. ~seat.cancelled <=> ~seat'.cancelled
    BY <1>3
  <2>3. Alive' <=> Alive
    BY <1>3 DEF Alive
  <2>4. ByRpc' <=> ByRpc
    BY <1>3 DEF ByRpc
  <2> QED BY <1>3, <2>1, <2>2, <2>3, <2>4, AdapterNow DEF AskInv
<1> QED BY <1>6, <1>7, <1>8, <1>9, <1>10, <1>11, <1>12, <1>13, <1>14 DEF AdapterInv, AdapterShapes

LEMMA HostWritesNow ==
  ASSUME AdapterInv, HostWrites, Alive, seat.pc # "executing", seat.writing = "no"
  PROVE  \E v \in {"no", "asking"} : /\ seat' = [seat EXCEPT !.writing = v] /\ seat'.writing = v
                                     /\ edits' = edits \/ edits' = edits \cup {[after |-> FALSE]}
<1>1. ASSUME seat' = seat PROVE seat' = [seat EXCEPT !.writing = "no"] /\ seat'.writing = "no"
  BY <1>1, AdapterNow DEF SeatOK
<1>2. ASSUME Written, ~seat.cancelled PROVE edits' = edits \cup {[after |-> FALSE]}
  <2>1. (seat.cancelled \/ seat.pc = "over") = FALSE
    BY <1>2 DEF Alive
  <2> QED BY <1>2, <2>1 DEF Written
<1>3. ASSUME seat' = [seat EXCEPT !.writing = "asking"] PROVE seat'.writing = "asking"
  BY <1>3, AdapterNow DEF SeatOK
<1> QED BY <1>1, <1>2, <1>3 DEF HostWrites

LEMMA HostToolRunsInv ==
  ASSUME AdapterInv, HostToolRuns
  PROVE  AdapterInv'
<1>1. /\ Alive /\ ByRpc /\ seat.writing = "no" /\ UNCHANGED <<rpc, cli, pipe, native>>
      /\ link' = [link EXCEPT !.work = IF seat'.writing = "asking" THEN @ ELSE Tail(@)]
      /\ (seat' = seat /\ UNCHANGED edits) \/ HostWrites
  BY DEF HostToolRuns, ToolDue
<1>2. seat.pc # "executing" /\ seat.pc # "idle"
  BY <1>1, AdapterNow DEF PcInv, Alive
<1>3. HostWrites
  BY <1>1 DEF HostWrites
<1>4. PICK v \in {"no", "asking"} : /\ seat' = [seat EXCEPT !.writing = v]
                                    /\ edits' = edits \/ edits' = edits \cup {[after |-> FALSE]}
  BY <1>1, <1>2, <1>3, HostWritesNow
<1>5. PICK w : w = IF seat'.writing = "asking" THEN link.work ELSE Tail(link.work)
  OBVIOUS
<1>6. link' = [link EXCEPT !.work = w]
  BY <1>1, <1>5
<1>7. PICK p : p = link.proposed
  OBVIOUS
<1>8. link' = [link EXCEPT !.work = w, !.proposed = p]
  BY <1>6, <1>7, AdapterNow DEF LinkOK
<1> QED BY <1>1, <1>2, <1>4, <1>8, WritingInv

LEMMA EditAppliesInv ==
  ASSUME AdapterInv, EditApplies
  PROVE  AdapterInv'
<1> USE AdapterConstants
<1>1. seat.pc = "applying" /\ seat.writing = "no" /\ UNCHANGED <<rpc, cli, pipe, native>> /\ Alive /\ ~ByRpc /\ seat.kind = "exec"
  BY AdapterNow DEF EditApplies, EditDue, Alive, PcInv
<1>2. CASE HostWrites /\ link' = [link EXCEPT !.proposed = @ - 1]
  <2>1. PICK v \in {"no", "asking"} : /\ seat' = [seat EXCEPT !.writing = v]
                                      /\ edits' = edits \/ edits' = edits \cup {[after |-> FALSE]}
    BY <1>1, <1>2, HostWritesNow
  <2>2. PICK p, w : p = link.proposed - 1 /\ w = link.work
    OBVIOUS
  <2>3. link' = [link EXCEPT !.proposed = p]
    BY <1>2, <2>2
  <2>4. link' = [link EXCEPT !.work = w, !.proposed = p]
    BY <2>2, <2>3, AdapterNow DEF LinkOK
  <2> QED BY <1>1, <2>1, <2>4, WritingInv
<1>3. CASE /\ seat' = [seat EXCEPT !.pc = "over", !.result = IF seat.cancelled THEN "interrupted" ELSE "completed"]
           /\ UNCHANGED <<link, edits>>
  <2>1. PICK r : r = IF seat.cancelled THEN "interrupted" ELSE "completed"
    OBVIOUS
  <2>2. seat' = [seat EXCEPT !.pc = "over", !.result = r]
    BY <1>3, <2>1
  <2>3. seat' = [pc |-> "over", kind |-> seat.kind, cancelled |-> seat.cancelled, said |-> seat.said,
                 queue |-> seat.queue,
                 delivered |-> seat.delivered, taken |-> seat.taken, follow |-> seat.follow, writing |-> seat.writing, result |-> r]
    BY <2>2, AdapterNow DEF SeatOK
  <2>4. /\ seat'.pc = "over" /\ seat'.kind = seat.kind /\ seat'.cancelled = seat.cancelled /\ seat'.said = seat.said /\ seat'.queue = seat.queue
        /\ seat'.delivered = seat.delivered /\ seat'.taken = seat.taken /\ seat'.follow = seat.follow /\ seat'.writing = seat.writing
        /\ seat'.result = r
    BY <2>3
  <2>5. SeatOK'
    BY <2>1, <2>3, <2>4, AdapterNow DEF SeatOK, SeatPcs, Results
  <2>6. RpcOK' /\ LinkOK' /\ CliOK' /\ NativesOK' /\ LinesOK'
    BY <1>1, <1>3, AdapterNow DEF RpcOK, LinkOK, CliOK, NativesOK, LinesOK
  <2>7. PcInv'
    BY <1>1, <1>3, <2>4, AdapterNow DEF PcInv, Alive, ByRpc
  <2>8. CountInv'
    BY <1>1, <2>4, CountKept
  <2>9. RpcInv' /\ ExecInv'
    BY <2>4 DEF RpcInv, ExecInv, Alive
  <2>10. EndInv'
    BY <1>1, <1>3, <2>4, AdapterNow DEF EndInv, ByRpc
  <2>11. AskInv'
    BY <1>1, <1>3, AdapterNow DEF AskInv
  <2> QED BY <2>5, <2>6, <2>7, <2>8, <2>9, <2>10, <2>11 DEF AdapterInv, AdapterShapes
<1> QED BY <1>2, <1>3 DEF EditApplies

(* The connection is over, for whatever reason: every call with it.        *)
LEMMA RpcFailsInv ==
  ASSUME AdapterInv, RpcFails, UNCHANGED <<seat, link, cli, native, edits>>, seat.pc # "idle",
         pipe' \in Seq(Lines), Len(pipe') <= Len(pipe), \A i \in 1 .. Len(pipe') : \E j \in 1 .. Len(pipe) : pipe'[i] = pipe[j],
         ByRpc, pipe' = pipe \/ Alive,
         \A i, j \in 1 .. Len(pipe') : pipe'[i].kind = "reply" /\ pipe'[j].kind = "reply" /\ pipe'[i].what = pipe'[j].what => i = j
  PROVE  AdapterInv'
<1> USE AdapterConstants
<1>1. rpc' = [error |-> TRUE, pending |-> {}] /\ rpc'.error = TRUE /\ rpc'.pending = {}
  BY DEF RpcFails
<1>2. SeatOK' /\ RpcOK' /\ LinkOK' /\ CliOK' /\ NativesOK'
  BY <1>1, AdapterNow DEF SeatOK, RpcOK, LinkOK, CliOK, NativesOK
<1>3. LinesOK'
  <2>1. Len(pipe') <= MaxPipe + 1 /\ (cli'.pc # "dead" => Len(pipe') <= MaxPipe)
    <3>1. PICK m, n \in Nat : m = Len(pipe') /\ n = Len(pipe)
      BY LinesNow
    <3>2. m <= n /\ n <= MaxPipe + 1 /\ (cli.pc # "dead" => n <= MaxPipe)
      BY <3>1, AdapterNow DEF LinesOK
    <3>3. m <= MaxPipe + 1 /\ (cli.pc # "dead" => m <= MaxPipe)
      BY <3>2
    <3> QED BY <3>1, <3>3
  <2>2. \A i \in 1 .. Len(pipe') : Shown(pipe'[i]) /\ (pipe'[i].kind = "end" => pipe'[i].what \in TurnStatuses \cup {"line"})
    BY AdapterNow DEF LinesOK, Shown
  <2> QED BY <2>1, <2>2, AdapterNow DEF LinesOK
<1>4. PcInv'
  BY <1>1, AdapterNow DEF PcInv, Alive, ByRpc
<1>5. CountInv'
  BY CountKept
<1>6. RpcInv'
  BY <1>1, StepNow DEF RpcInv, Alive, ByRpc
<1>7. ExecInv'
  BY AdapterNow DEF ExecInv, PcInv, Alive
<1>8. EndInv' /\ AskInv'
  BY AdapterNow DEF EndInv, AskInv, ByRpc, Alive
<1> QED BY <1>2, <1>3, <1>4, <1>5, <1>6, <1>7, <1>8 DEF AdapterInv, AdapterShapes

LEMMA RpcFailsHere ==
  ASSUME AdapterInv, RpcFails, UNCHANGED <<seat, link, cli, pipe, native, edits>>, ByRpc, Alive
  PROVE  AdapterInv'
<1>1. /\ pipe \in Seq(Lines) /\ Len(pipe) <= Len(pipe) /\ seat.pc # "idle"
      /\ \A i, j \in 1 .. Len(pipe) : pipe[i].kind = "reply" /\ pipe[j].kind = "reply" /\ pipe[i].what = pipe[j].what => i = j
  BY LinesNow, StepNow DEF Alive
<1> QED BY <1>1, RpcFailsInv

(* What is left to read: the same lines, or all but the first.             *)
LinesLeft ==
  /\ pipe' \in Seq(Lines) /\ Len(pipe') <= Len(pipe) /\ Len(pipe') \in Nat
  /\ \A i \in 1 .. Len(pipe') : \E j \in 1 .. Len(pipe) : pipe'[i] = pipe[j]
  /\ \A i, j \in 1 .. Len(pipe') : pipe'[i].kind = "reply" /\ pipe'[j].kind = "reply" /\ pipe'[i].what = pipe'[j].what => i = j
SteersLeft == \A j \in 1 .. Len(pipe) : Taken(pipe[j]) => \E i \in 1 .. Len(pipe') : Taken(pipe'[i])
EarlyOK ==
  /\ link.early \in Seq(EarlyLines) /\ Len(link.early) <= MaxEarly
  /\ \A i \in 1 .. Len(link.early) : Shown(link.early[i]) /\ (link.early[i].kind = "end" => link.early[i].what \in TurnStatuses)
  /\ \A i \in 1 .. Len(link.early) : link.early[i].kind = "end" /\ link.early[i].what = "completed" => cli.ended = "completed"

LEMMA SameLines ==
  ASSUME AdapterInv, Alive, ByRpc, pipe' = pipe
  PROVE  LinesLeft /\ SteersLeft
<1>1. /\ pipe' \in Seq(Lines) /\ Len(pipe') <= Len(pipe) /\ Len(pipe') \in Nat
      /\ \A i, j \in 1 .. Len(pipe') : pipe'[i].kind = "reply" /\ pipe'[j].kind = "reply" /\ pipe'[i].what = pipe'[j].what => i = j
  BY LinesNow, StepNow
<1>2. \A i \in 1 .. Len(pipe') : \E j \in 1 .. Len(pipe) : pipe'[i] = pipe[j]
  OBVIOUS
<1> QED BY <1>1, <1>2 DEF LinesLeft, SteersLeft

LEMMA TailNow ==
  ASSUME AdapterInv, pipe # <<>>, pipe' = Tail(pipe)
  PROVE  /\ pipe' \in Seq(Lines) /\ Len(pipe') \in Nat /\ Len(pipe) = Len(pipe') + 1 /\ Head(pipe) = pipe[1] /\ 1 \in 1 .. Len(pipe)
         /\ \A i \in 1 .. Len(pipe') : i + 1 \in 1 .. Len(pipe) /\ pipe'[i] = pipe[i + 1]
         /\ \A j \in 1 .. Len(pipe) : j # 1 => j - 1 \in 1 .. Len(pipe') /\ pipe'[j - 1] = pipe[j]
<1>1. pipe \in Seq(Lines) /\ Len(pipe) \in Nat /\ Len(pipe) >= 1
  BY LinesNow
<1>2. pipe' \in Seq(Lines) /\ Len(pipe') = Len(pipe) - 1 /\ \A i \in 1 .. Len(pipe') : pipe'[i] = pipe[i + 1]
  BY <1>1
<1>3. PICK n \in Nat : n = Len(pipe) /\ n >= 1
  BY <1>1
<1>4. Len(pipe') = n - 1 /\ n - 1 \in Nat
  BY <1>2, <1>3
<1>5. \A i \in 1 .. n - 1 : i + 1 \in 1 .. n
  BY <1>3
<1>6. \A j \in 1 .. n : j # 1 => j - 1 \in 1 .. n - 1 /\ (j - 1) + 1 = j
  BY <1>3
<1>7. n = (n - 1) + 1
  OBVIOUS
<1>8. Head(pipe) = pipe[1]
  BY <1>1
<1> QED BY <1>2, <1>3, <1>4, <1>5, <1>6, <1>7, <1>8

LEMMA RestLines ==
  ASSUME AdapterInv, Alive, ByRpc, pipe # <<>>, pipe' = Tail(pipe)
  PROVE  LinesLeft /\ (~Taken(Head(pipe)) => SteersLeft)
<1>1. Len(pipe') <= Len(pipe)
  <2>1. PICK m, n \in Nat : m = Len(pipe) /\ n = Len(pipe')
    BY TailNow, LinesNow
  <2>2. m = n + 1
    BY <2>1, TailNow
  <2>3. n <= m
    BY <2>2
  <2> QED BY <2>1, <2>3
<1>2. \A i \in 1 .. Len(pipe') : \E j \in 1 .. Len(pipe) : pipe'[i] = pipe[j]
  BY TailNow
<1>3. ASSUME NEW i \in 1 .. Len(pipe'), NEW j \in 1 .. Len(pipe'), pipe'[i].kind = "reply" /\ pipe'[j].kind = "reply" /\ pipe'[i].what = pipe'[j].what
      PROVE  i = j
  <2>1. i + 1 \in 1 .. Len(pipe) /\ j + 1 \in 1 .. Len(pipe) /\ pipe'[i] = pipe[i + 1] /\ pipe'[j] = pipe[j + 1]
    BY TailNow
  <2>2. i + 1 = j + 1
    BY <1>3, <2>1, StepNow
  <2>3. i \in Int /\ j \in Int
    BY TailNow
  <2> QED BY <2>2, <2>3
<1>4. ASSUME ~Taken(Head(pipe)) PROVE SteersLeft
  BY <1>4, TailNow DEF SteersLeft
<1> QED BY <1>1, <1>2, <1>3, <1>4, TailNow DEF LinesLeft

(* A step of app-server's adapter that moves no steer.                     *)
LEMMA RpcStep ==
  ASSUME AdapterInv, Alive, ByRpc, LinesLeft, SeatOK', RpcOK', LinkOK', NativesOK', EarlyOK', cli' = cli,
         seat'.kind = seat.kind, seat'.said = seat.said, seat'.queue = seat.queue, seat'.delivered = seat.delivered,
         seat'.taken = seat.taken, seat'.result = seat.result, seat'.pc \notin {"idle", "over", "executing", "applying"},
         rpc.error => rpc'.error, rpc'.error => rpc'.pending = {}, rpc'.error \/ SteersLeft,
         link'.chain = link.chain, link'.step # "none" => link.chain # <<>>,
         "steer" \in rpc'.pending => link'.step = "sent", "check" \in rpc'.pending => link'.step = "checking",
         link.step = "sent" => link'.step = "sent",
         seat'.cancelled => link'.stopping \/ link'.done # "no" \/ rpc'.error,
         link'.done = "completed" => cli.ended = "completed",
         \A k \in 1 .. MaxNative : native'[k].state = "open" => ~seat'.cancelled, \A e \in edits' : ~e.after
  PROVE  AdapterInv'
<1> USE AdapterConstants
<1>1. Alive' /\ ByRpc'
  BY DEF Alive, ByRpc
<1>2. CliOK'
  BY AdapterNow DEF CliOK
<1>3. LinesOK'
  <2>1. Len(pipe') <= MaxPipe + 1 /\ (cli'.pc # "dead" => Len(pipe') <= MaxPipe)
    <3>1. PICK m, n \in Nat : m = Len(pipe') /\ n = Len(pipe)
      BY LinesNow DEF LinesLeft
    <3>2. m <= n /\ n <= MaxPipe + 1 /\ (cli.pc # "dead" => n <= MaxPipe)
      BY <3>1, AdapterNow DEF LinesOK, LinesLeft
    <3>3. m <= MaxPipe + 1 /\ (cli.pc # "dead" => m <= MaxPipe)
      BY <3>2
    <3> QED BY <3>1, <3>3
  <2>2. \A i \in 1 .. Len(pipe') : Shown(pipe'[i]) /\ (pipe'[i].kind = "end" => pipe'[i].what \in TurnStatuses \cup {"line"})
    <3> SUFFICES ASSUME NEW i \in 1 .. Len(pipe')
                 PROVE  Shown(pipe'[i]) /\ (pipe'[i].kind = "end" => pipe'[i].what \in TurnStatuses \cup {"line"})
      BY DEF Shown
    <3>1. PICK j \in 1 .. Len(pipe) : pipe'[i] = pipe[j]
      BY DEF LinesLeft
    <3>2. (pipe[j].kind = "item" => pipe[j].what \in Patches) /\ (pipe[j].kind = "end" => pipe[j].what \in TurnStatuses \cup {"line"})
      BY AdapterNow DEF LinesOK, Shown
    <3> QED BY <3>1, <3>2 DEF Shown
  <2> QED BY <2>1, <2>2 DEF LinesOK, EarlyOK, LinesLeft
<1>4. PcInv'
  BY <1>1, AdapterNow DEF PcInv, Alive, ByRpc
<1>5. CountInv'
  BY CountKept
<1>6. RpcInv'
  <2>1. ~rpc'.error => /\ \A i \in 1 .. Len(pipe') : Taken(pipe'[i]) => link'.step = "sent" /\ Len(cli.took) = Len(seat.delivered) + 1
                       /\ (\A i \in 1 .. Len(pipe') : ~Taken(pipe'[i])) => Len(cli.took) = Len(seat.delivered)
    <3> SUFFICES ASSUME ~rpc'.error
                 PROVE  /\ \A i \in 1 .. Len(pipe') : Taken(pipe'[i]) => link'.step = "sent" /\ Len(cli.took) = Len(seat.delivered) + 1
                        /\ (\A i \in 1 .. Len(pipe') : ~Taken(pipe'[i])) => Len(cli.took) = Len(seat.delivered)
      OBVIOUS
    <3>1. ASSUME NEW i \in 1 .. Len(pipe'), Taken(pipe'[i]) PROVE link'.step = "sent" /\ Len(cli.took) = Len(seat.delivered) + 1
      <4>1. PICK j \in 1 .. Len(pipe) : pipe'[i] = pipe[j]
        BY DEF LinesLeft
      <4> QED BY <3>1, <4>1, StepNow
    <3>2. ASSUME \A i \in 1 .. Len(pipe') : ~Taken(pipe'[i]) PROVE Len(cli.took) = Len(seat.delivered)
      <4>1. \A j \in 1 .. Len(pipe) : ~Taken(pipe[j])
        BY <3>2 DEF SteersLeft
      <4> QED BY <4>1, StepNow
    <3> QED BY <3>1, <3>2
  <2>2. \A i, j \in 1 .. Len(pipe') : pipe'[i].kind = "reply" /\ pipe'[j].kind = "reply" /\ pipe'[i].what = pipe'[j].what => i = j
    BY DEF LinesLeft
  <2>3. /\ seat'.taken = <<>> /\ Len(link'.chain) = Len(seat'.queue)
        /\ \A i \in 1 .. Len(link'.chain) : link'.chain[i] = seat'.queue[i]
        /\ Len(cli'.took) = Len(seat'.delivered) \/ (Len(cli'.took) = Len(seat'.delivered) + 1 /\ link'.chain # <<>>)
    BY StepNow
  <2> QED BY <1>1, <2>1, <2>2, <2>3 DEF RpcInv, Taken
<1>7. ExecInv'
  BY DEF ExecInv
<1>8. EndInv'
  <2>1. \A i \in 1 .. Len(pipe') : pipe'[i].kind = "end" /\ pipe'[i].what \in {"completed", "line"} => cli.ended = "completed"
    BY AdapterNow DEF EndInv, LinesLeft
  <2>2. \A i \in 1 .. Len(pipe') : pipe'[i].kind = "end" => pipe'[i].what # "line"
    BY AdapterNow DEF EndInv, LinesLeft
  <2>3. seat.result = "completed" /\ seat.kind # "claude" => FALSE
    BY AdapterNow DEF EndInv, Alive
  <2> QED BY <1>1, <2>1, <2>2, <2>3, AdapterNow DEF EndInv, EarlyOK
<1>9. AskInv'
  BY <1>1 DEF AskInv
<1> QED BY <1>2, <1>3, <1>4, <1>5, <1>6, <1>7, <1>8, <1>9 DEF AdapterInv, AdapterShapes

(* One field changes.                                                      *)
LEMMA SeatPc ==
  ASSUME AdapterInv, NEW pc \in SeatPcs, seat' = [seat EXCEPT !.pc = pc]
  PROVE  /\ SeatOK' /\ seat'.pc = pc /\ seat'.kind = seat.kind /\ seat'.cancelled = seat.cancelled /\ seat'.said = seat.said
         /\ seat'.queue = seat.queue /\ seat'.delivered = seat.delivered /\ seat'.taken = seat.taken /\ seat'.follow = seat.follow
         /\ seat'.writing = seat.writing /\ seat'.result = seat.result
<1>1. seat' = [pc |-> pc, kind |-> seat.kind, cancelled |-> seat.cancelled, said |-> seat.said,
               queue |-> seat.queue,
               delivered |-> seat.delivered, taken |-> seat.taken, follow |-> seat.follow, writing |-> seat.writing, result |-> seat.result]
  BY AdapterNow DEF SeatOK
<1>2. /\ seat'.pc = pc /\ seat'.kind = seat.kind /\ seat'.cancelled = seat.cancelled /\ seat'.said = seat.said
      /\ seat'.queue = seat.queue /\ seat'.delivered = seat.delivered /\ seat'.taken = seat.taken /\ seat'.follow = seat.follow
      /\ seat'.writing = seat.writing /\ seat'.result = seat.result
  BY <1>1
<1> QED BY <1>1, <1>2, AdapterNow DEF SeatOK

LEMMA LinkStep ==
  ASSUME AdapterInv, NEW s \in {"none", "checking", "sent"}, link' = [link EXCEPT !.step = s]
  PROVE  /\ LinkOK' /\ link'.turn = link.turn /\ link'.stopping = link.stopping /\ link'.done = link.done /\ link'.early = link.early
         /\ link'.chain = link.chain /\ link'.step = s /\ link'.item = link.item /\ link'.ack = link.ack /\ link'.failed = link.failed
<1>1. link' = [turn |-> link.turn, stopping |-> link.stopping, done |-> link.done, early |-> link.early, chain |-> link.chain,
               step |-> s, item |-> link.item, work |-> link.work, ack |-> link.ack, failed |-> link.failed, proposed |-> link.proposed]
  BY AdapterNow DEF LinkOK
<1>2. /\ link'.turn = link.turn /\ link'.stopping = link.stopping /\ link'.done = link.done /\ link'.early = link.early
      /\ link'.chain = link.chain /\ link'.step = s /\ link'.item = link.item /\ link'.ack = link.ack /\ link'.failed = link.failed
  BY <1>1
<1> QED BY <1>1, <1>2, AdapterNow DEF LinkOK

LEMMA RpcPending ==
  ASSUME AdapterInv, NEW some \in SUBSET RpcCalls, rpc' = [rpc EXCEPT !.pending = some]
  PROVE  RpcOK' /\ rpc'.error = rpc.error /\ rpc'.pending = some
<1>1. rpc' = [error |-> rpc.error, pending |-> some]
  BY AdapterNow DEF RpcOK
<1> QED BY <1>1, AdapterNow DEF RpcOK

LEMMA EarlyNow ==
  ASSUME AdapterInv
  PROVE  EarlyOK
  BY AdapterNow DEF LinesOK, EndInv, EarlyOK

LEMMA EarlyKept ==
  ASSUME AdapterInv, link'.early = link.early, cli' = cli
  PROVE  EarlyOK'
  BY EarlyNow DEF EarlyOK

LEMMA OpenNow ==
  ASSUME AdapterInv
  PROVE  (\A k \in 1 .. MaxNative : native[k].state = "open" => ~seat.cancelled) /\ (\A e \in edits : ~e.after)
  BY AdapterNow DEF AskInv

LEMMA SteerGoesInv ==
  ASSUME AdapterInv, SteerGoes
  PROVE  AdapterInv'
<1>1. /\ ByRpc /\ Alive /\ link.chain # <<>> /\ link.step = "none" /\ ~rpc.error /\ UNCHANGED <<seat, cli, pipe, native, edits>>
  BY DEF SteerGoes, SteerDue
<1>2. CASE RpcFails /\ UNCHANGED link
  BY <1>1, <1>2, RpcFailsHere
<1>3. CASE /\ Calls2(IF seat.kind = "tools" THEN "check" ELSE "steer")
           /\ link' = [link EXCEPT !.step = IF seat.kind = "tools" THEN "checking" ELSE "sent"]
  <2>1. PICK c, s : /\ c = IF seat.kind = "tools" THEN "check" ELSE "steer"
                    /\ s = IF seat.kind = "tools" THEN "checking" ELSE "sent"
    OBVIOUS
  <2>2. (c = "check" /\ s = "checking") \/ (c = "steer" /\ s = "sent")
    BY <2>1
  <2>3. PICK some : some = rpc.pending \cup {c}
    OBVIOUS
  <2>4. rpc' = [rpc EXCEPT !.pending = some] /\ link' = [link EXCEPT !.step = s]
    BY <1>3, <2>1, <2>3 DEF Calls2
  <2>5. some \in SUBSET RpcCalls
    BY <2>2, <2>3, AdapterNow DEF RpcOK, RpcCalls
  <2>6. RpcOK' /\ rpc'.error = FALSE /\ rpc'.pending = some
    BY <1>1, <2>4, <2>5, RpcPending, AdapterNow DEF RpcOK
  <2>7. /\ LinkOK' /\ link'.stopping = link.stopping /\ link'.done = link.done /\ link'.early = link.early
        /\ link'.chain = link.chain /\ link'.step = s
    BY <2>2, <2>4, LinkStep
  <2>8. ("steer" \in some => s = "sent") /\ ("check" \in some => s = "checking")
    BY <1>1, <2>2, <2>3, StepNow
  <2>9. SeatOK' /\ NativesOK' /\ EarlyOK' /\ LinesLeft /\ SteersLeft
    BY <1>1, <2>7, AdapterNow, EarlyKept, SameLines DEF SeatOK, NativesOK
  <2>10. seat.pc \notin {"idle", "over", "executing", "applying"}
    BY <1>1, AdapterNow DEF Alive, PcInv
  <2>11. seat.cancelled => link'.stopping \/ link'.done # "no"
    BY <1>1, <2>7, StepNow
  <2>12. link'.done = "completed" => cli.ended = "completed"
    BY <2>7, AdapterNow DEF EndInv
  <2> QED BY <1>1, <2>6, <2>7, <2>8, <2>9, <2>10, <2>11, <2>12, OpenNow, RpcStep
<1> QED BY <1>2, <1>3 DEF SteerGoes

LEMMA TimesOutInv ==
  ASSUME AdapterInv, TimesOut
  PROVE  AdapterInv'
  BY RpcFailsHere DEF TimesOut

LEMMA ThreadStoredInv ==
  ASSUME AdapterInv, ThreadStored
  PROVE  AdapterInv'
<1>1. seat.pc = "saving" /\ UNCHANGED <<link, cli, pipe, native, edits>>
  BY DEF ThreadStored
<1>2. Alive /\ ByRpc
  BY <1>1, AdapterNow DEF Alive, PcInv
<1>3. PICK c \in {"account", "turn"} : /\ seat' = [seat EXCEPT !.pc = c]
                                       /\ (rpc.error /\ rpc' = rpc) \/ (~rpc.error /\ Calls2(c))
  BY DEF ThreadStored
<1>4. /\ SeatOK' /\ seat'.pc = c /\ seat'.kind = seat.kind /\ seat'.cancelled = seat.cancelled /\ seat'.said = seat.said
      /\ seat'.queue = seat.queue /\ seat'.delivered = seat.delivered /\ seat'.taken = seat.taken /\ seat'.result = seat.result
  BY <1>3, SeatPc DEF SeatPcs
<1>5. PICK some : some = rpc.pending \cup {c}
  OBVIOUS
<1>6. some \in SUBSET RpcCalls
  BY <1>5, AdapterNow DEF RpcOK, RpcCalls
<1>7. /\ RpcOK' /\ rpc'.error = rpc.error /\ (rpc.error => rpc'.pending = {})
      /\ \A x \in rpc'.pending : x \in rpc.pending \/ x = c
  <2>1. CASE rpc.error /\ rpc' = rpc
    BY <2>1, AdapterNow DEF RpcOK, PcInv
  <2>2. CASE ~rpc.error /\ Calls2(c)
    <3>1. rpc' = [rpc EXCEPT !.pending = some]
      BY <1>5, <2>2 DEF Calls2
    <3> QED BY <1>5, <1>6, <2>2, <3>1, RpcPending
  <2> QED BY <1>3, <2>1, <2>2
<1>8. ("steer" \in rpc'.pending => link.step = "sent") /\ ("check" \in rpc'.pending => link.step = "checking")
      /\ (link.step # "none" => link.chain # <<>>) /\ (seat.cancelled => link.stopping \/ link.done # "no" \/ rpc.error)
  BY <1>2, <1>3, <1>7, StepNow
<1>9. LinkOK' /\ NativesOK' /\ EarlyOK' /\ LinesLeft /\ SteersLeft
  BY <1>1, <1>2, AdapterNow, EarlyKept, SameLines DEF LinkOK, NativesOK
<1>10. link'.done = "completed" => cli.ended = "completed"
  BY <1>1, AdapterNow DEF EndInv
<1>11. c \notin {"idle", "over", "executing", "applying"} /\ link' = link
  BY <1>1
<1> QED BY <1>1, <1>2, <1>4, <1>7, <1>8, <1>9, <1>10, <1>11, OpenNow, RpcStep

(* A steer is accepted.                                                    *)
LEMMA SteerAdded ==
  ASSUME NEW q \in Steers, NEW n \in 1 .. MaxTold
  PROVE  /\ Append(q, n) \in Steers /\ Len(Append(q, n)) = Len(q) + 1 /\ Len(q) \in Nat /\ Append(q, n) # <<>>
         /\ \A i \in 1 .. Len(q) : Append(q, n)[i] = q[i]
         /\ Append(q, n)[Len(q) + 1] = n
         /\ \A i \in 1 .. Len(q) + 1 : i \in 1 .. Len(q) \/ i = Len(q) + 1
<1>1. q \in Seq(1 .. MaxTold) /\ Len(q) \in Nat
  BY DEF Steers
<1>2. /\ Append(q, n) \in Seq(1 .. MaxTold) /\ Len(Append(q, n)) = Len(q) + 1
      /\ \A i \in 1 .. Len(q) : Append(q, n)[i] = q[i] /\ Append(q, n)[Len(q) + 1] = n
      /\ Append(q, n)[Len(q) + 1] = n
  BY <1>1, AppendProperties
<1>3. Append(q, n) # <<>>
  BY <1>1, <1>2
<1> QED BY <1>1, <1>2, <1>3 DEF Steers

Added(q, n) == Append(q, n)

LEMMA SteerAddedLast ==
  ASSUME NEW q \in Steers, NEW n \in 1 .. MaxTold, NEW r, r = Added(q, n)
  PROVE  r \in Steers /\ Len(r) = Len(q) + 1 /\ r # <<>> /\ Len(q) \in Nat
  BY SteerAdded DEF Added

LEMMA SteerAddedAt ==
  ASSUME NEW q \in Steers, NEW n \in 1 .. MaxTold, NEW r, r = Added(q, n), NEW i \in 1 .. Len(r)
  PROVE  (i \in 1 .. Len(q) /\ r[i] = q[i]) \/ (i = Len(q) + 1 /\ r[i] = n)
<1>1. Len(r) = Len(q) + 1 /\ r = Append(q, n)
  BY SteerAdded DEF Added
<1>2. i \in 1 .. Len(q) \/ i = Len(q) + 1
  BY <1>1, SteerAdded
<1> QED BY <1>1, <1>2, SteerAdded

LEMMA PersonSteersInv ==
  ASSUME AdapterInv, PersonSteers
  PROVE  AdapterInv'
<1> USE AdapterConstants
<1>1. Alive /\ seat.said < MaxTold /\ UNCHANGED <<rpc, cli, pipe, native, edits>> /\ seat.said \in 0 .. MaxTold
  BY AdapterNow DEF PersonSteers, SeatOK
<1>2. PICK n : n = seat.said + 1
  OBVIOUS
<1>3. n \in 1 .. MaxTold /\ n \in 0 .. MaxTold /\ seat.said \in Nat /\ seat.said <= n
  BY <1>1, <1>2
<1>4. PICK q : q = Append(seat.queue, n)
  OBVIOUS
<1>5. /\ q \in Steers /\ Len(q) = Len(seat.queue) + 1
      /\ \A i \in 1 .. Len(q) : (i \in 1 .. Len(seat.queue) /\ q[i] = seat.queue[i]) \/ (i = Len(seat.queue) + 1 /\ q[i] = n)
  <2>1. PICK old : old = seat.queue
    OBVIOUS
  <2>2. old \in Steers /\ q = Added(old, n)
    BY <1>4, <2>1, AdapterNow DEF SeatOK, Added
  <2>3. q \in Steers /\ Len(q) = Len(old) + 1
    BY <1>3, <2>2, SteerAddedLast
  <2>4. \A i \in 1 .. Len(q) : (i \in 1 .. Len(old) /\ q[i] = old[i]) \/ (i = Len(old) + 1 /\ q[i] = n)
    BY <1>3, <2>2, SteerAddedAt
  <2> QED BY <2>1, <2>3, <2>4
<1>6. seat' = [seat EXCEPT !.said = n, !.queue = q]
  BY <1>2, <1>4 DEF PersonSteers
<1>7. seat' = [pc |-> seat.pc, kind |-> seat.kind, cancelled |-> seat.cancelled, said |-> n, queue |-> q,
               delivered |-> seat.delivered, taken |-> seat.taken, follow |-> seat.follow, writing |-> seat.writing, result |-> seat.result]
  BY <1>6, AdapterNow DEF SeatOK
<1>8. /\ seat'.pc = seat.pc /\ seat'.kind = seat.kind /\ seat'.cancelled = seat.cancelled /\ seat'.said = n /\ seat'.queue = q
      /\ seat'.delivered = seat.delivered /\ seat'.taken = seat.taken /\ seat'.follow = seat.follow /\ seat'.writing = seat.writing
      /\ seat'.result = seat.result
  BY <1>7
<1>9. SeatOK'
  BY <1>3, <1>5, <1>7, <1>8, AdapterNow DEF SeatOK
<1>10. PICK ch : ch = IF ByRpc THEN Append(link.chain, n) ELSE link.chain
  OBVIOUS
<1>11. link' = [link EXCEPT !.chain = ch]
  <2>1. CASE ByRpc
    <3>1. link' = [link EXCEPT !.chain = Append(@, n)]
      BY <1>2, <2>1 DEF PersonSteers
    <3> QED BY <1>10, <2>1, <3>1
  <2>2. CASE ~ByRpc
    <3>1. link' = link /\ ch = link.chain
      BY <1>10, <2>2 DEF PersonSteers
    <3> QED BY <3>1, AdapterNow DEF LinkOK
  <2> QED BY <2>1, <2>2
<1>12. link' = [turn |-> link.turn, stopping |-> link.stopping, done |-> link.done, early |-> link.early, chain |-> ch,
                step |-> link.step, item |-> link.item, work |-> link.work, ack |-> link.ack, failed |-> link.failed, proposed |-> link.proposed]
  BY <1>11, AdapterNow DEF LinkOK
<1>13. /\ link'.turn = link.turn /\ link'.stopping = link.stopping /\ link'.done = link.done /\ link'.early = link.early
       /\ link'.chain = ch /\ link'.step = link.step /\ link'.item = link.item /\ link'.ack = link.ack /\ link'.failed = link.failed
  BY <1>12
<1>14. ByRpc => /\ ch \in Steers /\ Len(ch) = Len(link.chain) + 1 /\ ch # <<>>
                /\ \A i \in 1 .. Len(ch) : (i \in 1 .. Len(link.chain) /\ ch[i] = link.chain[i]) \/ (i = Len(link.chain) + 1 /\ ch[i] = n)
  <2>1. PICK old : old = link.chain
    OBVIOUS
  <2>2. old \in Steers /\ (ByRpc => ch = Added(old, n))
    BY <1>10, <2>1, AdapterNow DEF LinkOK, Added
  <2>3. ByRpc => ch \in Steers /\ Len(ch) = Len(old) + 1 /\ ch # <<>>
    BY <1>3, <2>2, SteerAddedLast
  <2>4. ByRpc => \A i \in 1 .. Len(ch) : (i \in 1 .. Len(old) /\ ch[i] = old[i]) \/ (i = Len(old) + 1 /\ ch[i] = n)
    BY <1>3, <2>2, SteerAddedAt
  <2> QED BY <2>1, <2>3, <2>4
<1>15. ch \in Steers
  BY <1>10, <1>14, AdapterNow DEF LinkOK
<1>16. LinkOK'
  BY <1>12, <1>13, <1>15, AdapterNow DEF LinkOK
<1>17. RpcOK' /\ CliOK' /\ NativesOK' /\ LinesOK'
  BY <1>1, <1>13, AdapterNow DEF RpcOK, CliOK, NativesOK, LinesOK
<1>18. PcInv'
  BY <1>1, <1>8, AdapterNow DEF PcInv, Alive, ByRpc
<1>19. CountInv'
  <2>1. PICK d, t, m, k, s \in Nat : /\ d = Len(seat.delivered) /\ t = Len(seat.taken) /\ m = Len(seat.queue) /\ k = Len(cli.took)
                                     /\ s = seat.said /\ d + t + m = s /\ k <= s
    BY CountsNow
  <2>a. n = s + 1 /\ Len(q) = m + 1
    BY <1>2, <1>5, <2>1
  <2>b. d + t + m = s /\ k <= s
    BY <2>1
  <2>c. d + t + (m + 1) = s + 1 /\ k <= s + 1
    BY <2>b
  <2>2. d + t + (m + 1) = s + 1 /\ n = s + 1 /\ k <= n /\ Len(q) = m + 1
    BY <2>a, <2>c
  <2>3. Len(seat'.delivered) + Len(seat'.taken) + Len(seat'.queue) = seat'.said
    BY <1>8, <2>1, <2>2
  <2>4. Len(cli'.took) <= seat'.said
    BY <1>1, <1>8, <2>1, <2>2
  <2>5. ASSUME NEW i \in 1 .. Len(q) PROVE q[i] = Len(seat.delivered) + Len(seat.taken) + i
    <3>1. CASE i \in 1 .. Len(seat.queue) /\ q[i] = seat.queue[i]
      BY <3>1, AdapterNow DEF CountInv
    <3>2. CASE i = Len(seat.queue) + 1 /\ q[i] = n
      <4>1. q[i] = n /\ i = m + 1
        BY <2>1, <3>2
      <4>2. n = d + t + (m + 1)
        BY <2>2
      <4> QED BY <2>1, <4>1, <4>2
    <3> QED BY <1>5, <3>1, <3>2
  <2> QED BY <1>1, <1>8, <2>3, <2>4, <2>5, AdapterNow DEF CountInv
<1>20. RpcInv'
  <2> SUFFICES ASSUME ByRpc PROVE RpcInv'
    BY <1>8 DEF RpcInv, ByRpc
  <2>1. Len(ch) = Len(q) /\ ch # <<>>
    BY <1>1, <1>5, <1>14, StepNow
  <2>2. ASSUME NEW i \in 1 .. Len(ch) PROVE ch[i] = q[i]
    BY <1>1, <1>5, <1>14, StepNow
  <2> QED BY <1>1, <1>8, <1>13, <2>1, <2>2, StepNow DEF RpcInv, Taken
<1>21. ExecInv'
  BY <1>1, <1>8, <1>13, ExecKept
<1>22. EndInv' /\ AskInv'
  <2>1. ~seat.cancelled <=> ~seat'.cancelled
    BY <1>8
  <2>2. Alive' <=> Alive
    BY <1>8 DEF Alive
  <2>3. ByRpc' <=> ByRpc
    BY <1>8 DEF ByRpc
  <2>4. AskInv'
    BY <1>1, <1>8, <2>1, <2>2, <2>3, AdapterNow DEF AskInv
  <2> QED BY <1>1, <1>8, <1>13, <2>4, AdapterNow DEF EndInv, ByRpc
<1> QED BY <1>9, <1>16, <1>17, <1>18, <1>19, <1>20, <1>21, <1>22 DEF AdapterInv, AdapterShapes

(* What a step that leaves the connection and the chain alone keeps.       *)
LEMMA StepsKept ==
  ASSUME AdapterInv, Alive, ByRpc
  PROVE  /\ link.step # "none" => link.chain # <<>>
         /\ "steer" \in rpc.pending => link.step = "sent"
         /\ "check" \in rpc.pending => link.step = "checking"
         /\ seat.cancelled => link.stopping \/ link.done # "no" \/ rpc.error
         /\ link.done = "completed" => cli.ended = "completed"
         /\ rpc.error => rpc.pending = {}
         /\ seat.pc \notin {"idle", "over", "executing", "applying"}
  BY StepNow, AdapterNow DEF EndInv, PcInv, Alive

(* Requests of the provider that are settled.                              *)
LEMMA OpenSettled ==
  ASSUME AdapterInv, NEW x \in AskStates \ {"open"},
         native' = [k \in 1..MaxNative |-> IF native[k].state = "open" THEN [native[k] EXCEPT !.state = x] ELSE native[k]]
  PROVE  NativesOK' /\ \A k \in 1 .. MaxNative : native'[k].state # "open"
<1> USE AdapterConstants
<1>1. DOMAIN native' = 1 .. MaxNative
  OBVIOUS
<1>2. ASSUME NEW k \in 1 .. MaxNative
      PROVE  /\ native'[k] = [state |-> native'[k].state, asked |-> native'[k].asked, shown |-> native'[k].shown]
             /\ native'[k].state \in AskStates /\ native'[k].state # "open"
  <2>1. CASE native[k].state = "open"
    <3>1. native'[k] = [native[k] EXCEPT !.state = x]
      BY <2>1
    <3>2. native'[k] = [state |-> x, asked |-> native[k].asked, shown |-> native[k].shown]
      BY <3>1, AdapterNow DEF NativesOK
    <3> QED BY <3>2
  <2>2. CASE native[k].state # "open"
    BY <2>2, AdapterNow DEF NativesOK
  <2> QED BY <2>1, <2>2
<1> QED BY <1>1, <1>2 DEF NativesOK

(* The turn is stopped.                                                    *)
LEMMA StoppedInv ==
  ASSUME AdapterInv, Alive, seat' = [seat EXCEPT !.cancelled = TRUE, !.writing = "no"], Aborted, UNCHANGED edits
  PROVE  AdapterInv'
<1> USE AdapterConstants
<1>1. seat' = [pc |-> seat.pc, kind |-> seat.kind, cancelled |-> TRUE, said |-> seat.said, queue |-> seat.queue,
               delivered |-> seat.delivered, taken |-> seat.taken, follow |-> seat.follow, writing |-> "no", result |-> seat.result]
  BY AdapterNow DEF SeatOK
<1>2. /\ seat'.pc = seat.pc /\ seat'.kind = seat.kind /\ seat'.cancelled = TRUE /\ seat'.said = seat.said /\ seat'.queue = seat.queue
      /\ seat'.delivered = seat.delivered /\ seat'.taken = seat.taken /\ seat'.follow = seat.follow /\ seat'.writing = "no"
      /\ seat'.result = seat.result
  BY <1>1
<1>3. SeatOK'
  BY <1>1, <1>2, AdapterNow DEF SeatOK
<1>4. NativesOK' /\ \A k \in 1 .. MaxNative : native'[k].state # "open"
  <2>1. native' = [k \in 1..MaxNative |-> IF native[k].state = "open" THEN [native[k] EXCEPT !.state = "declined"] ELSE native[k]]
    BY DEF Aborted
  <2>2. "declined" \in AskStates \ {"open"}
    BY DEF AskStates
  <2> QED BY <2>1, <2>2, OpenSettled
<1>5. CASE ByRpc
  <2>1. UNCHANGED <<cli, pipe>>
    BY <1>5 DEF Aborted
  <2>2. PICK w, z : /\ link' = [link EXCEPT !.stopping = z, !.work = w] /\ z \in BOOLEAN
                    /\ \/ rpc' = rpc /\ z = link.stopping /\ (link.stopping \/ link.done # "no" \/ rpc.error)
                       \/ z /\ ~rpc.error /\ (RpcFails \/ Calls2("interrupt"))
    <3>1. CASE link.stopping \/ link.done # "no" \/ rpc.error
      <4>1. UNCHANGED <<link, rpc>>
        BY <1>5, <3>1 DEF Aborted
      <4>2. PICK w, z : w = link.work /\ z = link.stopping
        OBVIOUS
      <4>3. link' = [link EXCEPT !.stopping = z, !.work = w] /\ z \in BOOLEAN
        BY <4>1, <4>2, AdapterNow DEF LinkOK
      <4> QED BY <3>1, <4>1, <4>2, <4>3
    <3>2. CASE ~(link.stopping \/ link.done # "no" \/ rpc.error)
      <4>1. PICK w : w = IF seat.writing = "asking" THEN Tail(link.work) ELSE link.work
        OBVIOUS
      <4>2. link' = [link EXCEPT !.stopping = TRUE, !.work = IF seat.writing = "asking" THEN Tail(@) ELSE @]
            /\ (RpcFails \/ Calls2("interrupt"))
        BY <1>5, <3>2 DEF Aborted
      <4>3. link' = [link EXCEPT !.stopping = TRUE, !.work = w]
        BY <4>1, <4>2
      <4> QED BY <3>2, <4>2, <4>3
    <3> QED BY <3>1, <3>2
  <2>3. link' = [turn |-> link.turn, stopping |-> z, done |-> link.done, early |-> link.early, chain |-> link.chain,
                 step |-> link.step, item |-> link.item, work |-> w, ack |-> link.ack, failed |-> link.failed, proposed |-> link.proposed]
    BY <2>2, AdapterNow DEF LinkOK
  <2>4. /\ link'.turn = link.turn /\ link'.stopping = z /\ link'.done = link.done /\ link'.early = link.early
        /\ link'.chain = link.chain /\ link'.step = link.step /\ link'.item = link.item /\ link'.ack = link.ack /\ link'.failed = link.failed
    BY <2>3
  <2>5. LinkOK'
    BY <2>2, <2>3, <2>4, AdapterNow DEF LinkOK
  <2>6. /\ RpcOK' /\ (rpc.error => rpc'.error) /\ (rpc'.error => rpc'.pending = {})
        /\ \A x \in rpc'.pending : x \in rpc.pending \/ x = "interrupt"
    <3>1. CASE rpc' = rpc
      BY <1>5, <3>1, StepsKept, AdapterNow DEF RpcOK
    <3>2. CASE RpcFails /\ ~rpc.error
      <4>1. rpc' = [error |-> TRUE, pending |-> {}]
        BY <3>2 DEF RpcFails
      <4>2. rpc'.error = TRUE /\ rpc'.pending = {}
        BY <4>1
      <4> QED BY <4>1, <4>2 DEF RpcOK
    <3>3. CASE Calls2("interrupt") /\ ~rpc.error
      <4>1. PICK some : some = rpc.pending \cup {"interrupt"}
        OBVIOUS
      <4>2. rpc' = [rpc EXCEPT !.pending = some]
        BY <3>3, <4>1 DEF Calls2
      <4>3. some \in SUBSET RpcCalls
        BY <4>1, AdapterNow DEF RpcOK, RpcCalls
      <4> QED BY <3>3, <4>1, <4>2, <4>3, RpcPending
    <3> QED BY <2>2, <3>1, <3>2, <3>3
  <2>7. LinesLeft /\ SteersLeft /\ EarlyOK'
    BY <1>5, <2>1, <2>4, SameLines, EarlyKept
  <2>8. link'.stopping \/ link'.done # "no" \/ rpc'.error
    BY <2>2, <2>4
  <2>9. ("steer" \in rpc'.pending => link.step = "sent") /\ ("check" \in rpc'.pending => link.step = "checking")
    BY <1>5, <2>6, StepsKept
  <2> QED BY <1>2, <1>3, <1>4, <1>5, <2>1, <2>4, <2>5, <2>6, <2>7, <2>8, <2>9, StepsKept, OpenNow, RpcStep
<1>6. CASE ~ByRpc
  <2>1. /\ UNCHANGED <<link, rpc>>
        /\ \/ UNCHANGED <<cli, pipe>>
           \/ cli.pc \notin {"off", "dead"} /\ cli' = [cli EXCEPT !.pc = "dead"] /\ pipe' = Append(pipe, Line("close", "failed", 0))
    BY <1>6 DEF Aborted
  <2>2. seat.pc \in {"executing", "applying"} /\ ~ByRpc' /\ Alive'
    BY <1>2, <1>6, AdapterNow DEF PcInv, ByRpc, Alive
  <2>3. RpcOK' /\ LinkOK'
    BY <2>1, AdapterNow DEF RpcOK, LinkOK
  <2>4. AskInv'
    BY <1>4, AdapterNow DEF AskInv
  <2>5. RpcInv'
    BY <2>2 DEF RpcInv
  <2>6. CASE UNCHANGED <<cli, pipe>>
    <3>1. CliOK' /\ LinesOK'
      BY <2>1, <2>6, AdapterNow DEF CliOK, LinesOK
    <3>2. PcInv'
      BY <1>2, <2>1, <2>2, <2>6, AdapterNow DEF PcInv
    <3>3. CountInv'
      BY <1>2, <2>6, CountKept
    <3>4. ExecInv'
      BY <1>2, <2>1, <2>6, ExecKept
    <3>5. EndInv'
      BY <1>2, <1>6, <2>1, <2>2, <2>6, AdapterNow DEF EndInv
    <3> QED BY <1>3, <1>4, <2>3, <2>4, <2>5, <3>1, <3>2, <3>3, <3>4, <3>5 DEF AdapterInv, AdapterShapes
  <2>7. CASE cli.pc \notin {"off", "dead"} /\ cli' = [cli EXCEPT !.pc = "dead"] /\ pipe' = Append(pipe, Line("close", "failed", 0))
    <3>1. cli' = [pc |-> "dead", item |-> cli.item, took |-> cli.took, ended |-> cli.ended]
      BY <2>7, AdapterNow DEF CliOK
    <3>2. cli'.pc = "dead" /\ cli'.took = cli.took /\ cli'.ended = cli.ended
      BY <3>1
    <3>3. PICK line : line = Line("close", "failed", 0)
      OBVIOUS
    <3>4. line.kind = "close" /\ line.what = "failed" /\ line \in Lines
      BY <3>3 DEF Line, Lines, LineKinds, LineWhats, TurnStatuses
    <3>5. /\ pipe' \in Seq(Lines) /\ Len(pipe') = Len(pipe) + 1
          /\ pipe'[Len(pipe) + 1] = line /\ \A i \in 1 .. Len(pipe) : pipe'[i] = pipe[i]
      BY <2>7, <3>3, <3>4, LinesNow, AppendProperties
    <3>6. \A i \in 1 .. Len(pipe') : (i \in 1 .. Len(pipe) /\ pipe'[i] = pipe[i]) \/ (i = Len(pipe) + 1 /\ pipe'[i] = line)
      BY <3>5, LinesNow
    <3>7. CliOK'
      BY <3>1, <3>2, AdapterNow DEF CliOK, CliPcs
    <3>8. LinesOK'
      <4>1. Len(pipe') <= MaxPipe + 1
        BY <2>7, <3>5, AdapterNow DEF LinesOK
      <4>2. ASSUME NEW i \in 1 .. Len(pipe')
            PROVE  Shown(pipe'[i]) /\ (pipe'[i].kind = "end" => pipe'[i].what \in TurnStatuses \cup {"line"})
        BY <3>4, <3>6, AdapterNow DEF LinesOK, Shown
      <4> QED BY <2>1, <3>2, <3>5, <4>1, <4>2, AdapterNow DEF LinesOK
    <3>9. PcInv'
      BY <1>2, <2>1, <2>2, <3>2, AdapterNow DEF PcInv
    <3>10. CountInv'
      BY <1>2, <3>2, CountKept
    <3>11. ExecInv'
      <4> SUFFICES ASSUME seat.pc = "executing" PROVE ExecInv'
        BY <1>2 DEF ExecInv
      <4>1. ASSUME NEW i \in 1 .. Len(pipe')
            PROVE  /\ pipe'[i].kind = "turn" =>
                      /\ ~link.turn => Len(cli.took) = Len(seat.delivered) + Len(seat.taken)
                      /\ link.ack \/ link.failed \/ \E j \in 1 .. i - 1 : pipe'[j].kind = "thread"
                   /\ pipe'[i].kind = "end" => link.turn \/ link.failed \/ \E j \in 1 .. i - 1 : pipe'[j].kind = "turn"
                   /\ pipe'[i].kind = "end" => pipe'[i].what = "line"
        <5>1. CASE i \in 1 .. Len(pipe) /\ pipe'[i] = pipe[i]
          <6>1. /\ pipe[i].kind = "turn" =>
                    /\ ~link.turn => Len(cli.took) = Len(seat.delivered) + Len(seat.taken)
                    /\ link.ack \/ link.failed \/ \E j \in 1 .. i - 1 : pipe[j].kind = "thread"
                /\ pipe[i].kind = "end" => link.turn \/ link.failed \/ \E j \in 1 .. i - 1 : pipe[j].kind = "turn"
                /\ pipe[i].kind = "end" => pipe[i].what = "line"
            BY <5>1, AdapterNow DEF ExecInv
          <6>2. \A j \in 1 .. i - 1 : j \in 1 .. Len(pipe)
            BY <5>1, LinesNow
          <6>3. \A j \in 1 .. i - 1 : pipe'[j] = pipe[j]
            BY <3>5, <6>2
          <6> QED BY <5>1, <6>1, <6>3
        <5>2. CASE pipe'[i] = line
          BY <3>4, <5>2
        <5> QED BY <3>6, <5>1, <5>2
      <4> QED BY <1>2, <2>1, <3>2, <4>1, AdapterNow DEF ExecInv
    <3>12. EndInv'
      <4>1. \A i \in 1 .. Len(pipe') : pipe'[i].kind = "end" => i \in 1 .. Len(pipe) /\ pipe'[i] = pipe[i]
        BY <3>4, <3>6
      <4>2. /\ UNCHANGED link /\ seat'.pc = seat.pc /\ seat'.kind = seat.kind /\ seat'.result = seat.result
            /\ cli'.ended = cli.ended /\ cli'.pc = "dead"
        BY <1>2, <2>1, <3>2
      <4> QED BY <4>1, <4>2, EndKept
    <3> QED BY <1>3, <1>4, <2>3, <2>4, <2>5, <3>7, <3>8, <3>9, <3>10, <3>11, <3>12 DEF AdapterInv, AdapterShapes
  <2> QED BY <2>1, <2>6, <2>7
<1> QED BY <1>5, <1>6

LEMMA InterruptsInv ==
  ASSUME AdapterInv, Interrupts
  PROVE  AdapterInv'
  BY StoppedInv DEF Interrupts

LEMMA WriteAnsweredInv ==
  ASSUME AdapterInv, NEW verdict, WriteAnswered(verdict)
  PROVE  AdapterInv'
<1>1. seat.writing = "asking" /\ Alive /\ seat.pc # "executing" /\ seat.pc # "idle"
  BY AdapterNow DEF WriteAnswered, PcInv, Alive
<1>2. CASE seat' = [seat EXCEPT !.cancelled = TRUE, !.writing = "no"] /\ Aborted /\ UNCHANGED edits
  BY <1>1, <1>2, StoppedInv
<1>3. CASE /\ IF verdict = "accept" /\ ~seat.cancelled THEN Written ELSE UNCHANGED edits
           /\ seat' = [seat EXCEPT !.writing = "no"]
           /\ link' = IF ByRpc THEN [link EXCEPT !.work = Tail(@)] ELSE link
           /\ UNCHANGED <<rpc, cli, pipe, native>>
  <2>1. edits' = edits \/ edits' = edits \cup {[after |-> FALSE]}
    <3>1. CASE verdict = "accept" /\ ~seat.cancelled
      <4>1. (seat.cancelled \/ seat.pc = "over") = FALSE
        BY <1>1, <3>1 DEF Alive
      <4> QED BY <1>3, <3>1, <4>1 DEF Written
    <3>2. CASE ~(verdict = "accept" /\ ~seat.cancelled)
      BY <1>3, <3>2
    <3> QED BY <3>1, <3>2
  <2>2. PICK w, p : w = (IF ByRpc THEN Tail(link.work) ELSE link.work) /\ p = link.proposed
    OBVIOUS
  <2>3. link' = [link EXCEPT !.work = w]
    BY <1>3, <2>2, AdapterNow DEF LinkOK
  <2>4. link' = [link EXCEPT !.work = w, !.proposed = p]
    BY <2>2, <2>3, AdapterNow DEF LinkOK
  <2> QED BY <1>1, <1>3, <2>1, <2>4, WritingInv
<1> QED BY <1>2, <1>3 DEF WriteAnswered

LEMMA NativeAnsweredInv ==
  ASSUME AdapterInv, NEW k \in 1 .. MaxNative, NEW ok, NativeAnswered(k, ok)
  PROVE  AdapterInv'
<1> USE AdapterConstants
<1>1. native[k].state = "open" /\ Alive /\ ByRpc /\ ~seat.cancelled /\ UNCHANGED <<seat, rpc, link, cli, pipe>>
  BY AdapterNow DEF NativeAnswered, AskInv
<1>2. PICK x : native' = [native EXCEPT ![k].state = x] /\ x \in AskStates \ {"open"}
  <2>1. PICK yes : native' = [native EXCEPT ![k].state = IF link.done # "no" THEN "closed" ELSE IF yes THEN "accepted" ELSE "declined"]
    BY DEF NativeAnswered
  <2>2. PICK x : x = IF link.done # "no" THEN "closed" ELSE IF yes THEN "accepted" ELSE "declined"
    OBVIOUS
  <2>3. x \in AskStates \ {"open"}
    BY <2>2 DEF AskStates
  <2>4. native' = [native EXCEPT ![k].state = x]
    BY <2>1, <2>2
  <2> QED BY <2>3, <2>4
<1>3. \A e \in edits' : ~e.after
  <2>1. CASE Written
    <3>1. (seat.cancelled \/ seat.pc = "over") = FALSE
      BY <1>1 DEF Alive
    <3>2. edits' = edits \cup {[after |-> FALSE]}
      BY <2>1, <3>1 DEF Written
    <3> QED BY <3>2, OpenNow
  <2>2. CASE UNCHANGED edits
    BY <2>2, OpenNow
  <2> QED BY <2>1, <2>2 DEF NativeAnswered
<1>4. NativesOK'
  <2>1. DOMAIN native' = 1 .. MaxNative
    BY <1>2, AdapterNow DEF NativesOK
  <2>2. ASSUME NEW i \in 1 .. MaxNative
        PROVE  /\ native'[i] = [state |-> native'[i].state, asked |-> native'[i].asked, shown |-> native'[i].shown]
               /\ native'[i].state \in AskStates
    <3>1. CASE i = k
      <4>1. native'[i] = [native[k] EXCEPT !.state = x]
        BY <1>2, <3>1, AdapterNow DEF NativesOK
      <4>2. native'[i] = [state |-> x, asked |-> native[k].asked, shown |-> native[k].shown]
        BY <4>1, AdapterNow DEF NativesOK
      <4> QED BY <1>2, <4>2
    <3>2. CASE i # k
      BY <1>2, <3>2, AdapterNow DEF NativesOK
    <3> QED BY <3>1, <3>2
  <2> QED BY <2>1, <2>2 DEF NativesOK
<1>5. SeatOK' /\ RpcOK' /\ LinkOK' /\ EarlyOK' /\ LinesLeft /\ SteersLeft
  BY <1>1, AdapterNow, EarlyKept, SameLines DEF SeatOK, RpcOK, LinkOK
<1>6. \A j \in 1 .. MaxNative : native'[j].state = "open" => ~seat'.cancelled
  BY <1>1
<1>7. seat' = seat /\ rpc' = rpc /\ link' = link /\ cli' = cli
  BY <1>1
<1> QED BY <1>1, <1>3, <1>4, <1>5, <1>6, <1>7, StepsKept, RpcStep

(* The adapter of app-server reads a line.                                 *)
LEMMA ReadFails ==
  ASSUME AdapterInv, Alive, ByRpc, pipe # <<>>, pipe' = Tail(pipe), RpcFails, UNCHANGED <<seat, link, cli, native, edits>>
  PROVE  AdapterInv'
<1>1. LinesLeft /\ seat.pc # "idle"
  BY RestLines DEF Alive
<1> QED BY <1>1, RpcFailsInv DEF LinesLeft

(* Answers that concern no steer and no turn.                              *)
LEMMA CallAnswered ==
  ASSUME AdapterInv, Alive, ByRpc, pipe # <<>>, pipe' = Tail(pipe), ~Taken(Head(pipe)) \/ rpc.error, NEW some \in SUBSET RpcCalls,
         rpc' = [rpc EXCEPT !.pending = some], \A x \in some : x \in rpc.pending \/ x \in {"config", "thread", "turn"}, rpc.error => some = {},
         NEW pc \in SeatPcs \ {"idle", "over", "executing", "applying"}, seat' = [seat EXCEPT !.pc = pc],
         UNCHANGED <<link, cli, native, edits>>
  PROVE  AdapterInv'
<1>1. RpcOK' /\ rpc'.error = rpc.error /\ rpc'.pending = some
  BY RpcPending
<1>2. /\ SeatOK' /\ seat'.pc = pc /\ seat'.kind = seat.kind /\ seat'.cancelled = seat.cancelled /\ seat'.said = seat.said
      /\ seat'.queue = seat.queue /\ seat'.delivered = seat.delivered /\ seat'.taken = seat.taken /\ seat'.result = seat.result
  BY SeatPc
<1>3. LinkOK' /\ NativesOK' /\ EarlyOK'
  BY AdapterNow, EarlyKept DEF LinkOK, NativesOK
<1>4. LinesLeft /\ (rpc'.error \/ SteersLeft)
  BY <1>1, RestLines
<1>5. ("steer" \in some => link.step = "sent") /\ ("check" \in some => link.step = "checking")
  BY StepsKept
<1>6. link' = link /\ cli' = cli
  OBVIOUS
<1> QED BY <1>1, <1>2, <1>3, <1>4, <1>5, <1>6, StepsKept, OpenNow, RpcStep

(* Nothing but the link or the requests of the provider change.            *)
LEMMA TurnHeard ==
  ASSUME AdapterInv, Alive, ByRpc, pipe # <<>>, pipe' = Tail(pipe), ~Taken(Head(pipe)), UNCHANGED <<seat, rpc, cli, edits>>,
         LinkOK', NativesOK', EarlyOK', link'.chain = link.chain, link'.step = link.step, link'.stopping = link.stopping,
         link.done # "no" => link'.done = link.done, link'.done = "completed" => cli.ended = "completed",
         \A k \in 1 .. MaxNative : native'[k].state = "open" => ~seat.cancelled
  PROVE  AdapterInv'
<1>1. LinesLeft /\ SteersLeft
  BY RestLines
<1>2. SeatOK' /\ RpcOK'
  BY AdapterNow DEF SeatOK, RpcOK
<1>3. seat' = seat /\ rpc' = rpc /\ cli' = cli
  OBVIOUS
<1>4. seat.cancelled => link'.stopping \/ link'.done # "no" \/ rpc.error
  BY StepsKept
<1> QED BY <1>1, <1>2, <1>3, <1>4, StepsKept, OpenNow, RpcStep

(* A line that the turn reports.                                           *)
LEMMA NoteReadInv ==
  ASSUME AdapterInv, Alive, ByRpc, pipe # <<>>, pipe' = Tail(pipe), UNCHANGED <<cli, edits>>, NoteRead
  PROVE  AdapterInv'
<1> USE AdapterConstants
<1>1. PICK line : line = Head(pipe)
  OBVIOUS
<1>2. 1 \in 1 .. Len(pipe) /\ line = pipe[1]
  BY <1>1, TailNow
<1>3. line.kind \in {"item", "end"} /\ UNCHANGED <<seat, native>> /\ ~Taken(Head(pipe))
  BY <1>1 DEF NoteRead, Taken
<1>4. /\ line.n \in Nat /\ line = [kind |-> line.kind, what |-> line.what, n |-> line.n]
      /\ line.kind = "item" => line.what \in Patches
      /\ line.kind = "end" => line.what \in TurnStatuses
      /\ line.kind = "end" /\ line.what = "completed" => cli.ended = "completed"
  <2>1. line.n \in Nat /\ line = [kind |-> line.kind, what |-> line.what, n |-> line.n]
    BY <1>2, LinesNow
  <2>2. (line.kind = "item" => line.what \in Patches) /\ (line.kind = "end" => line.what \in TurnStatuses \cup {"line"})
    BY <1>2, AdapterNow DEF LinesOK, Shown
  <2>3. (line.kind = "end" => line.what # "line") /\ (line.kind = "end" /\ line.what = "completed" => cli.ended = "completed")
    BY <1>2, AdapterNow DEF EndInv
  <2> QED BY <2>1, <2>2, <2>3
<1>5. NativesOK' /\ \A k \in 1 .. MaxNative : native'[k].state = "open" => ~seat.cancelled
  BY <1>3, AdapterNow, OpenNow DEF NativesOK
<1>6. CASE link' = Noted(link, Head(pipe)) /\ UNCHANGED rpc
  <2>1. PICK done, thing : link' = [link EXCEPT !.done = done, !.item = thing]
          /\ (link.done # "no" => done = link.done) /\ (done = "completed" => cli.ended = "completed")
          /\ thing \in Patches \cup {NoPatch}
    <3>1. CASE link.done # "no"
      <4>1. PICK done, thing : done = link.done /\ thing = link.item
        OBVIOUS
      <4>2. link' = link
        BY <1>6, <3>1 DEF Noted
      <4>3. link' = [link EXCEPT !.done = done, !.item = thing]
        BY <4>1, <4>2, AdapterNow DEF LinkOK
      <4>4. (done = "completed" => cli.ended = "completed") /\ thing \in Patches \cup {NoPatch}
        BY <4>1, AdapterNow DEF EndInv, LinkOK
      <4> QED BY <4>1, <4>3, <4>4
    <3>2. CASE link.done = "no" /\ line.kind = "end"
      <4>1. PICK done, thing : done = line.what /\ thing = link.item
        OBVIOUS
      <4>2. link' = [link EXCEPT !.done = done]
        BY <1>1, <1>6, <3>2, <4>1 DEF Noted
      <4>3. link' = [link EXCEPT !.done = done, !.item = thing]
        BY <4>1, <4>2, AdapterNow DEF LinkOK
      <4>4. (done = "completed" => cli.ended = "completed") /\ thing \in Patches \cup {NoPatch}
        BY <1>4, <3>2, <4>1, AdapterNow DEF LinkOK
      <4> QED BY <3>2, <4>3, <4>4
    <3>3. CASE link.done = "no" /\ line.kind # "end"
      <4>1. PICK done, thing : done = link.done /\ thing = line.what
        OBVIOUS
      <4>2. link' = [link EXCEPT !.item = thing]
        BY <1>1, <1>6, <3>3, <4>1 DEF Noted
      <4>3. link' = [link EXCEPT !.done = done, !.item = thing]
        BY <4>1, <4>2, AdapterNow DEF LinkOK
      <4> QED BY <1>3, <1>4, <3>3, <4>1, <4>3
    <3> QED BY <3>1, <3>2, <3>3
  <2>2. link' = [turn |-> link.turn, stopping |-> link.stopping, done |-> done, early |-> link.early, chain |-> link.chain,
                 step |-> link.step, item |-> thing, work |-> link.work, ack |-> link.ack, failed |-> link.failed, proposed |-> link.proposed]
    BY <2>1, AdapterNow DEF LinkOK
  <2>3. /\ link'.turn = link.turn /\ link'.stopping = link.stopping /\ link'.done = done /\ link'.early = link.early
        /\ link'.chain = link.chain /\ link'.step = link.step /\ link'.item = thing /\ link'.ack = link.ack /\ link'.failed = link.failed
    BY <2>2
  <2>4. LinkOK'
    BY <2>1, <2>2, <2>3, AdapterNow DEF LinkOK
  <2>5. EarlyOK'
    BY <2>3, EarlyKept
  <2> QED BY <1>3, <1>5, <1>6, <2>1, <2>3, <2>4, <2>5, TurnHeard
<1>7. CASE Len(link.early) < MaxEarly /\ link' = [link EXCEPT !.early = Append(@, Head(pipe))] /\ UNCHANGED rpc
  <2>1. PICK early : early = Append(link.early, line)
    OBVIOUS
  <2>2. link' = [link EXCEPT !.early = early]
    BY <1>1, <1>7, <2>1
  <2>3. link' = [turn |-> link.turn, stopping |-> link.stopping, done |-> link.done, early |-> early, chain |-> link.chain,
                 step |-> link.step, item |-> link.item, work |-> link.work, ack |-> link.ack, failed |-> link.failed, proposed |-> link.proposed]
    BY <2>2, AdapterNow DEF LinkOK
  <2>4. /\ link'.turn = link.turn /\ link'.stopping = link.stopping /\ link'.done = link.done /\ link'.early = early
        /\ link'.chain = link.chain /\ link'.step = link.step /\ link'.item = link.item /\ link'.ack = link.ack /\ link'.failed = link.failed
    BY <2>3
  <2>5. LinkOK'
    BY <2>3, <2>4, AdapterNow DEF LinkOK
  <2>6. line \in EarlyLines
    BY <1>3, <1>4 DEF EarlyLines
  <2>7. /\ early \in Seq(EarlyLines) /\ Len(early) = Len(link.early) + 1 /\ Len(link.early) \in Nat
        /\ \A i \in 1 .. Len(link.early) : early[i] = link.early[i]
        /\ early[Len(link.early) + 1] = line
    BY <2>1, <2>6, EarlyNow, AppendProperties DEF EarlyOK
  <2>8. \A i \in 1 .. Len(early) : (i \in 1 .. Len(link.early) /\ early[i] = link.early[i]) \/ early[i] = line
    BY <2>7
  <2>9. Len(early) <= MaxEarly
    BY <1>7, <2>7
  <2>10. ASSUME NEW i \in 1 .. Len(early)
         PROVE  /\ Shown(early[i]) /\ (early[i].kind = "end" => early[i].what \in TurnStatuses)
                /\ early[i].kind = "end" /\ early[i].what = "completed" => cli.ended = "completed"
    <3>1. CASE i \in 1 .. Len(link.early) /\ early[i] = link.early[i]
      BY <3>1, EarlyNow DEF EarlyOK, Shown
    <3>2. CASE early[i] = line
      BY <1>4, <3>2 DEF Shown
    <3> QED BY <2>8, <3>1, <3>2
  <2>11. EarlyOK'
    BY <2>4, <2>7, <2>9, <2>10 DEF EarlyOK, Shown
  <2>12. link'.done = "completed" => cli.ended = "completed"
    BY <2>4, AdapterNow DEF EndInv
  <2> QED BY <1>3, <1>5, <1>7, <2>4, <2>5, <2>11, <2>12, TurnHeard
<1>8. CASE RpcFails /\ UNCHANGED link
  BY <1>3, <1>8, ReadFails
<1> QED BY <1>6, <1>7, <1>8 DEF NoteRead

(* A host tool is called.                                                  *)
LEMMA ToolReadInv ==
  ASSUME AdapterInv, Alive, ByRpc, pipe # <<>>, pipe' = Tail(pipe), UNCHANGED <<cli, edits>>, ToolRead
  PROVE  AdapterInv'
<1>1. UNCHANGED <<seat, rpc, native>> /\ ~Taken(Head(pipe))
  BY DEF ToolRead, Taken
<1>2. PICK w : link' = [link EXCEPT !.work = w]
  <2>1. PICK w : w = IF link.done # "no" \/ link.stopping THEN link.work ELSE Append(link.work, Head(pipe).n)
    OBVIOUS
  <2>2. CASE link.done # "no" \/ link.stopping
    BY <2>1, <2>2, AdapterNow DEF ToolRead, LinkOK
  <2>3. CASE ~(link.done # "no" \/ link.stopping)
    <3>1. link' = [link EXCEPT !.work = Append(@, Head(pipe).n)]
      BY <2>3 DEF ToolRead
    <3>2. link' = [link EXCEPT !.work = w]
      BY <2>1, <2>3, <3>1
    <3> QED BY <3>2
  <2> QED BY <2>2, <2>3
<1>3. link' = [turn |-> link.turn, stopping |-> link.stopping, done |-> link.done, early |-> link.early, chain |-> link.chain,
               step |-> link.step, item |-> link.item, work |-> w, ack |-> link.ack, failed |-> link.failed, proposed |-> link.proposed]
  BY <1>2, AdapterNow DEF LinkOK
<1>4. /\ link'.turn = link.turn /\ link'.stopping = link.stopping /\ link'.done = link.done /\ link'.early = link.early
      /\ link'.chain = link.chain /\ link'.step = link.step /\ link'.item = link.item /\ link'.ack = link.ack /\ link'.failed = link.failed
  BY <1>3
<1>5. LinkOK'
  BY <1>3, <1>4, AdapterNow DEF LinkOK
<1>6. NativesOK' /\ EarlyOK' /\ \A k \in 1 .. MaxNative : native'[k].state = "open" => ~seat.cancelled
  BY <1>1, <1>4, AdapterNow, EarlyKept, OpenNow DEF NativesOK
<1>7. link'.done = "completed" => cli.ended = "completed"
  BY <1>4, AdapterNow DEF EndInv
<1> QED BY <1>1, <1>4, <1>5, <1>6, <1>7, TurnHeard

(* Of the lines kept, those before the first end of a turn are heard.      *)
LEMMA UpToEndNow ==
  ASSUME NEW lines \in Seq(EarlyLines), NEW n, n = UpToEnd(lines)
  PROVE  /\ n \in Nat /\ Len(lines) \in Nat /\ n <= Len(lines) /\ (n = Len(lines) \/ lines[n + 1].kind = "end")
         /\ \A i \in 1 .. n : lines[i].kind # "end"
<1> DEFINE TurnStops(m) == /\ m = Len(lines) \/ lines[m + 1].kind = "end"
                       /\ \A i \in 1 .. m : lines[i].kind # "end"
<1>1. Len(lines) \in Nat
  OBVIOUS
<1>2. \E m \in 0 .. Len(lines) : TurnStops(m)
  <2>1. PICK S : S = {k \in Nat : k = Len(lines) \/ (k < Len(lines) /\ lines[k + 1].kind = "end")}
    OBVIOUS
  <2>2. S \subseteq Nat /\ Len(lines) \in S
    BY <1>1, <2>1
  <2>3. PICK m \in S : \A k \in S : m <= k
    BY <2>2, Least
  <2>4. m \in 0 .. Len(lines) /\ (m = Len(lines) \/ lines[m + 1].kind = "end")
    BY <1>1, <2>1, <2>2, <2>3
  <2>5. ASSUME NEW i \in 1 .. m PROVE lines[i].kind # "end"
    <3>1. PICK len \in Nat : len = Len(lines)
      BY <1>1
    <3>2. m \in Nat /\ m <= len /\ i \in Nat /\ i - 1 \in Nat /\ i - 1 < m /\ i - 1 < len /\ (i - 1) + 1 = i
      BY <2>4, <3>1
    <3>3. i - 1 \notin S
      BY <2>3, <3>2
    <3>4. ~(i - 1 < Len(lines) /\ lines[(i - 1) + 1].kind = "end")
      BY <2>1, <3>2, <3>3
    <3> QED BY <3>1, <3>2, <3>4
  <2> QED BY <2>4, <2>5
<1>3. n = CHOOSE m \in 0 .. Len(lines) : TurnStops(m)
  BY DEF UpToEnd
<1>4. n \in 0 .. Len(lines) /\ TurnStops(n)
  <2> HIDE DEF TurnStops
  <2> QED BY <1>2, <1>3
<1> QED BY <1>1, <1>4

LEMMA HeardShape ==
  ASSUME AdapterInv, NEW thing, NEW done
  PROVE  HeardAs(link, thing, done) = [turn |-> link.turn, stopping |-> link.stopping, done |-> done, early |-> link.early, chain |-> link.chain,
                                      step |-> link.step, item |-> thing, work |-> link.work, ack |-> link.ack, failed |-> link.failed, proposed |-> link.proposed]
<1>1. PICK h : h = HeardAs(link, thing, done)
  OBVIOUS
<1>2. h = [link EXCEPT !.item = thing, !.done = done]
  BY <1>1 DEF HeardAs
<1>3. PICK l : l = link
  OBVIOUS
<1>4. l = [turn |-> l.turn, stopping |-> l.stopping, done |-> l.done, early |-> l.early, chain |-> l.chain,
           step |-> l.step, item |-> l.item, work |-> l.work, ack |-> l.ack, failed |-> l.failed, proposed |-> l.proposed]
  BY <1>3, AdapterNow DEF LinkOK
<1>5. h = [turn |-> l.turn, stopping |-> l.stopping, done |-> done, early |-> l.early, chain |-> l.chain,
           step |-> l.step, item |-> thing, work |-> l.work, ack |-> l.ack, failed |-> l.failed, proposed |-> l.proposed]
  BY <1>2, <1>3, <1>4
<1> QED BY <1>1, <1>3, <1>5

LEMMA HeardNow ==
  ASSUME AdapterInv, ByRpc
  PROVE  \E done, thing : /\ EarlyHeard(link, link.early) = [turn |-> link.turn, stopping |-> link.stopping, done |-> done, early |-> link.early, chain |-> link.chain,
                                                        step |-> link.step, item |-> thing, work |-> link.work, ack |-> link.ack, failed |-> link.failed, proposed |-> link.proposed]
                         /\ (link.done # "no" => done = link.done) /\ (done = "completed" => cli.ended = "completed")
                         /\ thing \in Patches \cup {NoPatch}
<1> USE AdapterConstants
<1>1. PICK lines : lines = link.early
  OBVIOUS
<1>2. /\ lines \in Seq(EarlyLines)
      /\ \A i \in 1 .. Len(lines) : (lines[i].kind = "item" => lines[i].what \in Patches) /\ lines[i].kind \in {"item", "end"}
      /\ \A i \in 1 .. Len(lines) : lines[i].kind = "end" /\ lines[i].what = "completed" => cli.ended = "completed"
  <2>1. lines \in Seq(EarlyLines)
    BY <1>1, EarlyNow DEF EarlyOK
  <2>2. \A i \in 1 .. Len(lines) : lines[i] \in EarlyLines
    BY <2>1
  <2>3. \A i \in 1 .. Len(lines) : lines[i].kind \in {"item", "end"}
    BY <2>2 DEF EarlyLines
  <2>4. \A i \in 1 .. Len(lines) : lines[i].kind = "item" => lines[i].what \in Patches
    BY <1>1, EarlyNow DEF EarlyOK, Shown
  <2>5. \A i \in 1 .. Len(lines) : lines[i].kind = "end" /\ lines[i].what = "completed" => cli.ended = "completed"
    BY <1>1, EarlyNow DEF EarlyOK
  <2> QED BY <2>1, <2>3, <2>4, <2>5
<1>3. PICK n : n = UpToEnd(lines)
  OBVIOUS
<1>4. /\ n \in Nat /\ Len(lines) \in Nat /\ n <= Len(lines) /\ (n = Len(lines) \/ lines[n + 1].kind = "end")
      /\ \A i \in 1 .. n : lines[i].kind # "end"
  BY <1>2, <1>3, UpToEndNow
<1>5. PICK thing : thing = IF link.done # "no" \/ n = 0 THEN link.item ELSE lines[n].what
  OBVIOUS
<1>6. PICK done : done = IF link.done # "no" \/ n = Len(lines) THEN link.done ELSE lines[n + 1].what
  OBVIOUS
<1>7. thing \in Patches \cup {NoPatch}
  <2>1. CASE link.done # "no" \/ n = 0
    BY <1>5, <2>1, AdapterNow DEF LinkOK
  <2>2. CASE ~(link.done # "no" \/ n = 0)
    <3>1. n \in 1 .. Len(lines) /\ n \in 1 .. n
      BY <1>4, <2>2
    <3> QED BY <1>2, <1>4, <1>5, <2>2, <3>1
  <2> QED BY <2>1, <2>2
<1>8. done = "completed" => cli.ended = "completed"
  <2>1. CASE link.done # "no" \/ n = Len(lines)
    BY <1>6, <2>1, AdapterNow DEF EndInv
  <2>2. CASE ~(link.done # "no" \/ n = Len(lines))
    <3>1. n + 1 \in 1 .. Len(lines) /\ lines[n + 1].kind = "end"
      BY <1>4, <2>2
    <3> QED BY <1>2, <1>6, <2>2, <3>1
  <2> QED BY <2>1, <2>2
<1>9. EarlyHeard(link, link.early) = [turn |-> link.turn, stopping |-> link.stopping, done |-> done, early |-> link.early, chain |-> link.chain,
                                 step |-> link.step, item |-> thing, work |-> link.work, ack |-> link.ack, failed |-> link.failed, proposed |-> link.proposed]
  <2>1. CASE link.done # "no"
    <3>1. EarlyHeard(link, link.early) = link
      BY <2>1 DEF EarlyHeard
    <3>2. thing = link.item /\ done = link.done
      BY <1>5, <1>6, <2>1
    <3>3. PICK l : l = link
      OBVIOUS
    <3>4. l = [turn |-> l.turn, stopping |-> l.stopping, done |-> l.done, early |-> l.early, chain |-> l.chain,
               step |-> l.step, item |-> l.item, work |-> l.work, ack |-> l.ack, failed |-> l.failed, proposed |-> l.proposed]
      BY <3>3, AdapterNow DEF LinkOK
    <3> QED BY <3>1, <3>2, <3>3, <3>4
  <2>2. CASE link.done = "no"
    <3>1. /\ thing = IF n = 0 THEN link.item ELSE lines[n].what
          /\ done = IF n = Len(lines) THEN link.done ELSE lines[n + 1].what
      BY <1>5, <1>6, <2>2
    <3>2. EarlyHeard(link, link.early) = HeardAs(link, thing, done)
      BY <1>1, <1>3, <2>2, <3>1 DEF EarlyHeard
    <3> QED BY <3>2, HeardShape
  <2> QED BY <2>1, <2>2
<1>10. link.done # "no" => done = link.done
  BY <1>6
<1> QED BY <1>7, <1>8, <1>9, <1>10

(* A request of the provider is shown to people, or declined at once.      *)
AskAdded(n, k) ==
  /\ DOMAIN n = 1 .. MaxNative
  /\ n[k] = [state |-> n[k].state, asked |-> n[k].asked, shown |-> n[k].shown]

HandledAs(r, n, l, k) ==
  \E x, y : /\ r = [i \in 1 .. MaxNative |-> IF i = k THEN [state |-> x, asked |-> n[k].asked, shown |-> y] ELSE n[i]]
            /\ x \in {"declined", "open"} /\ (x = "open" => l.done = "no" /\ ~l.stopping)

LEMMA Handled ==
  ASSUME NEW n, NEW l, NEW k \in 1 .. MaxNative, AskAdded(n, k), NEW r, r = NativeHandled(n, l, k)
  PROVE  HandledAs(r, n, l, k)
<1> SUFFICES \E x, y : /\ NativeHandled(n, l, k) = [i \in 1 .. MaxNative |-> IF i = k THEN [state |-> x, asked |-> n[k].asked, shown |-> y] ELSE n[i]]
                       /\ x \in {"declined", "open"} /\ (x = "open" => l.done = "no" /\ ~l.stopping)
  BY DEF HandledAs
<1>1. PICK old : old = n[k]
  OBVIOUS
<1>2. old = [state |-> old.state, asked |-> old.asked, shown |-> old.shown]
  BY <1>1 DEF AskAdded
<1>3. PICK no : no = [old EXCEPT !.state = "declined"]
  OBVIOUS
<1>4. no = [state |-> "declined", asked |-> n[k].asked, shown |-> old.shown]
  BY <1>1, <1>2, <1>3
<1>5. CASE NativeHandled(n, l, k) = [n EXCEPT ![k].state = "declined"]
  <2>1. NativeHandled(n, l, k) = [i \in 1 .. MaxNative |-> IF i = k THEN no ELSE n[i]]
    BY <1>1, <1>3, <1>5 DEF AskAdded
  <2>2. PICK x, y : x = "declined" /\ y = old.shown
    OBVIOUS
  <2>3. NativeHandled(n, l, k) = [i \in 1 .. MaxNative |-> IF i = k THEN [state |-> x, asked |-> n[k].asked, shown |-> y] ELSE n[i]]
    BY <1>4, <2>1, <2>2
  <2>4. x \in {"declined", "open"} /\ (x = "open" => l.done = "no" /\ ~l.stopping)
    BY <2>2
  <2> QED BY <2>3, <2>4
<1>6. ASSUME NEW y, NativeHandled(n, l, k) = [n EXCEPT ![k].state = "open", ![k].shown = y]
      PROVE  NativeHandled(n, l, k) = [i \in 1 .. MaxNative |-> IF i = k THEN [state |-> "open", asked |-> n[k].asked, shown |-> y] ELSE n[i]]
  <2>1. PICK yes : yes = [old EXCEPT !.state = "open", !.shown = y]
    OBVIOUS
  <2>2. yes = [state |-> "open", asked |-> n[k].asked, shown |-> y]
    BY <1>1, <1>2, <2>1
  <2>3. PICK half : half = [n EXCEPT ![k].state = "open"]
    OBVIOUS
  <2>4. half = [i \in 1 .. MaxNative |-> IF i = k THEN [old EXCEPT !.state = "open"] ELSE n[i]]
    BY <1>1, <2>3 DEF AskAdded
  <2>5. NativeHandled(n, l, k) = [half EXCEPT ![k].shown = y]
    BY <1>6, <2>3
  <2>6. NativeHandled(n, l, k) = [i \in 1 .. MaxNative |-> IF i = k THEN yes ELSE n[i]]
    BY <1>1, <2>1, <2>4, <2>5
  <2> QED BY <2>2, <2>6
<1>7. \/ NativeHandled(n, l, k) = [n EXCEPT ![k].state = "declined"]
      \/ l.done = "no" /\ ~l.stopping /\ \E y : NativeHandled(n, l, k) = [n EXCEPT ![k].state = "open", ![k].shown = y]
  BY DEF NativeHandled
<1> QED BY <1>5, <1>6, <1>7

(* A request of the provider is read.                                      *)
LEMMA AskReadInv ==
  ASSUME AdapterInv, Alive, ByRpc, pipe # <<>>, pipe' = Tail(pipe), UNCHANGED <<cli, edits>>, AskRead, ~rpc.error
  PROVE  AdapterInv'
<1> USE AdapterConstants
<1>1. UNCHANGED <<seat, link>> /\ ~Taken(Head(pipe))
  BY DEF AskRead, Taken
<1>2. PICK k, p : k = Head(pipe).n /\ p = Head(pipe).what
  OBVIOUS
<1>3. LinkOK' /\ EarlyOK' /\ (link.done = "completed" => cli.ended = "completed")
  BY <1>1, AdapterNow, EarlyKept DEF LinkOK, EndInv
<1>4. ASSUME UNCHANGED native PROVE NativesOK' /\ \A i \in 1 .. MaxNative : native'[i].state = "open" => ~seat.cancelled
  BY <1>4, AdapterNow, OpenNow DEF NativesOK
<1>5. CASE native[k].state # "none"
  <2>1. UNCHANGED native /\ (UNCHANGED rpc \/ RpcFails)
    BY <1>2, <1>5 DEF AskRead
  <2>2. CASE UNCHANGED rpc
    BY <1>1, <1>3, <1>4, <2>1, <2>2, TurnHeard
  <2>3. CASE RpcFails
    BY <1>1, <2>1, <2>3, ReadFails
  <2> QED BY <2>1, <2>2, <2>3
<1>6. CASE ~(native[k].state # "none")
  <2>1. PICK n : n = [native EXCEPT ![k].asked = p]
    OBVIOUS
  <2>2. (native' = NativeHandled(n, link, k) \/ native' = [n EXCEPT ![k].state = "held"]) /\ UNCHANGED rpc
    BY <1>2, <1>6, <2>1 DEF AskRead
  <2>3. DOMAIN n = 1 .. MaxNative
    BY <2>1, AdapterNow DEF NativesOK
  <2>4. link.done = "no" /\ ~link.stopping => ~seat.cancelled
    BY StepsKept
  <2>5. CASE k \notin 1 .. MaxNative
    <3>1. \A i \in 1 .. MaxNative : n[i] = native[i]
      BY <2>1, <2>5, AdapterNow DEF NativesOK
    <3>2. \/ native' = [n EXCEPT ![k].state = "held"]
          \/ native' = [n EXCEPT ![k].state = "declined"]
          \/ \E y : native' = [n EXCEPT ![k].state = "open", ![k].shown = y]
      BY <2>2 DEF NativeHandled
    <3>3. DOMAIN native' = 1 .. MaxNative /\ \A i \in 1 .. MaxNative : native'[i] = n[i]
      <4>1. ASSUME NEW s, native' = [n EXCEPT ![k].state = s] PROVE DOMAIN native' = 1 .. MaxNative /\ \A i \in 1 .. MaxNative : native'[i] = n[i]
        BY <2>3, <2>5, <4>1
      <4>2. ASSUME NEW y, native' = [n EXCEPT ![k].state = "open", ![k].shown = y]
            PROVE  DOMAIN native' = 1 .. MaxNative /\ \A i \in 1 .. MaxNative : native'[i] = n[i]
        <5>1. PICK half : half = [n EXCEPT ![k].state = "open"]
          OBVIOUS
        <5>2. native' = [half EXCEPT ![k].shown = y]
          BY <4>2, <5>1
        <5>3. DOMAIN half = 1 .. MaxNative /\ \A i \in 1 .. MaxNative : half[i] = n[i]
          BY <2>3, <2>5, <5>1
        <5> QED BY <2>5, <5>2, <5>3
      <4> QED BY <3>2, <4>1, <4>2
    <3>4. \A i \in 1 .. MaxNative : native'[i] = native[i]
      BY <3>1, <3>3
    <3>5. NativesOK' /\ \A i \in 1 .. MaxNative : native'[i].state = "open" => ~seat.cancelled
      BY <3>3, <3>4, AdapterNow, OpenNow DEF NativesOK
    <3> QED BY <1>1, <1>3, <2>2, <3>5, TurnHeard
  <2>6. CASE k \in 1 .. MaxNative
    <3>1. PICK old : old = native[k]
      OBVIOUS
    <3>2. old = [state |-> old.state, asked |-> old.asked, shown |-> old.shown]
      BY <2>6, <3>1, AdapterNow DEF NativesOK
    <3>3. PICK now : now = [old EXCEPT !.asked = p]
      OBVIOUS
    <3>4. now = [state |-> old.state, asked |-> p, shown |-> old.shown]
      BY <3>2, <3>3
    <3>5. n = [i \in 1 .. MaxNative |-> IF i = k THEN now ELSE native[i]]
      BY <2>1, <2>6, <3>1, <3>3, AdapterNow DEF NativesOK
    <3>6. n[k] = now /\ \A i \in 1 .. MaxNative : i # k => n[i] = native[i]
      BY <2>6, <3>5
    <3>7. AskAdded(n, k)
      BY <2>3, <3>4, <3>6 DEF AskAdded
    <3>8. PICK x, y : /\ native' = [i \in 1 .. MaxNative |-> IF i = k THEN [state |-> x, asked |-> p, shown |-> y] ELSE n[i]]
                      /\ x \in {"declined", "open", "held"} /\ (x = "open" => link.done = "no" /\ ~link.stopping)
      <4>1. CASE native' = NativeHandled(n, link, k)
        <5>1. PICK l : l = link
          OBVIOUS
        <5>a. PICK r : r = NativeHandled(n, l, k)
          OBVIOUS
        <5>b. HandledAs(r, n, l, k)
          BY <2>6, <3>7, <5>a, Handled
        <5>2. PICK x, y : /\ r = [i \in 1 .. MaxNative |-> IF i = k THEN [state |-> x, asked |-> n[k].asked, shown |-> y] ELSE n[i]]
                          /\ x \in {"declined", "open"} /\ (x = "open" => l.done = "no" /\ ~l.stopping)
          BY <5>b DEF HandledAs
        <5>3. n[k].asked = p
          BY <3>4, <3>6
        <5>4. native' = NativeHandled(n, l, k)
          BY <4>1, <5>1
        <5>5. native' = [i \in 1 .. MaxNative |-> IF i = k THEN [state |-> x, asked |-> p, shown |-> y] ELSE n[i]]
          BY <5>a, <5>2, <5>3, <5>4
        <5>6. x \in {"declined", "open", "held"} /\ (x = "open" => link.done = "no" /\ ~link.stopping)
          BY <5>1, <5>2
        <5> QED BY <5>5, <5>6
      <4>2. CASE native' = [n EXCEPT ![k].state = "held"]
        <5>1. PICK x, y : x = "held" /\ y = old.shown
          OBVIOUS
        <5>2. PICK kept : kept = [now EXCEPT !.state = "held"]
          OBVIOUS
        <5>3. kept = [state |-> x, asked |-> p, shown |-> y]
          BY <3>4, <5>1, <5>2
        <5>4. native' = [i \in 1 .. MaxNative |-> IF i = k THEN kept ELSE n[i]]
          BY <2>3, <2>6, <3>5, <3>6, <4>2, <5>2
        <5>5. native' = [i \in 1 .. MaxNative |-> IF i = k THEN [state |-> x, asked |-> p, shown |-> y] ELSE n[i]]
          BY <5>3, <5>4
        <5>6. x \in {"declined", "open", "held"} /\ (x = "open" => link.done = "no" /\ ~link.stopping)
          BY <5>1
        <5> QED BY <5>5, <5>6
      <4> QED BY <2>2, <4>1, <4>2
    <3>9. DOMAIN native' = 1 .. MaxNative
      BY <3>8
    <3>10. ASSUME NEW i \in 1 .. MaxNative
           PROVE  /\ native'[i] = [state |-> native'[i].state, asked |-> native'[i].asked, shown |-> native'[i].shown]
                  /\ native'[i].state \in AskStates /\ (native'[i].state = "open" => ~seat.cancelled)
      <4>1. CASE i = k
        <5>1. native'[i] = [state |-> x, asked |-> p, shown |-> y]
          BY <3>8, <4>1
        <5>2. x \in AskStates
          BY <3>8 DEF AskStates
        <5> QED BY <2>4, <3>8, <5>1, <5>2
      <4>2. CASE i # k
        <5>1. native'[i] = native[i]
          BY <3>6, <3>8, <4>2
        <5> QED BY <5>1, AdapterNow, OpenNow DEF NativesOK
      <4> QED BY <4>1, <4>2
    <3>11. NativesOK' /\ \A i \in 1 .. MaxNative : native'[i].state = "open" => ~seat.cancelled
      BY <3>9, <3>10 DEF NativesOK
    <3> QED BY <1>1, <1>3, <2>2, <3>11, TurnHeard
  <2> QED BY <2>5, <2>6
<1> QED BY <1>5, <1>6

(* The turn has a name.                                                    *)
LEMMA NamedShape ==
  ASSUME NEW h, h = [turn |-> h.turn, stopping |-> h.stopping, done |-> h.done, early |-> h.early, chain |-> h.chain,
                     step |-> h.step, item |-> h.item, work |-> h.work, ack |-> h.ack, failed |-> h.failed, proposed |-> h.proposed]
  PROVE  NamedLink(h) = [turn |-> TRUE, stopping |-> h.stopping, done |-> h.done, early |-> <<>>, chain |-> h.chain,
                         step |-> h.step, item |-> h.item, work |-> h.work, ack |-> h.ack, failed |-> h.failed, proposed |-> h.proposed]
<1>1. PICK l : l = NamedLink(h)
  OBVIOUS
<1>2. PICK none : none = <<>>
  OBVIOUS
<1>3. l = [h EXCEPT !.turn = TRUE, !.early = none]
  BY <1>1, <1>2 DEF NamedLink
<1>4. l = [turn |-> TRUE, stopping |-> h.stopping, done |-> h.done, early |-> none, chain |-> h.chain,
           step |-> h.step, item |-> h.item, work |-> h.work, ack |-> h.ack, failed |-> h.failed, proposed |-> h.proposed]
  BY <1>3
<1> QED BY <1>1, <1>2, <1>4

LEMMA TurnNamedInv ==
  ASSUME AdapterInv, Alive, ByRpc, pipe # <<>>, pipe' = Tail(pipe), UNCHANGED <<cli, edits>>, ~rpc.error, ~Taken(Head(pipe)),
         NEW c, rpc' = [rpc EXCEPT !.pending = @ \ {c}], TurnNamed
  PROVE  AdapterInv'
<1> USE AdapterConstants
<1>1. PICK some : some = rpc.pending \ {c}
  OBVIOUS
<1>2. RpcOK' /\ rpc'.error = rpc.error /\ rpc'.pending = some
  <2>1. rpc' = [rpc EXCEPT !.pending = some]
    BY <1>1
  <2>2. some \in SUBSET RpcCalls
    BY <1>1, AdapterNow DEF RpcOK
  <2> QED BY <2>1, <2>2, RpcPending
<1>3. /\ SeatOK' /\ seat'.pc = "running" /\ seat'.kind = seat.kind /\ seat'.cancelled = seat.cancelled /\ seat'.said = seat.said
      /\ seat'.queue = seat.queue /\ seat'.delivered = seat.delivered /\ seat'.taken = seat.taken /\ seat'.result = seat.result
  <2>1. seat' = [seat EXCEPT !.pc = "running"] /\ "running" \in SeatPcs
    BY DEF TurnNamed, SeatPcs
  <2> QED BY <2>1, SeatPc
<1>4. PICK done, thing : /\ EarlyHeard(link, link.early) = [turn |-> link.turn, stopping |-> link.stopping, done |-> done, early |-> link.early, chain |-> link.chain,
                                                      step |-> link.step, item |-> thing, work |-> link.work, ack |-> link.ack, failed |-> link.failed, proposed |-> link.proposed]
                        /\ (link.done # "no" => done = link.done) /\ (done = "completed" => cli.ended = "completed")
                        /\ thing \in Patches \cup {NoPatch}
  BY HeardNow
<1>5. link' = [turn |-> TRUE, stopping |-> link.stopping, done |-> done, early |-> <<>>, chain |-> link.chain,
               step |-> link.step, item |-> thing, work |-> link.work, ack |-> link.ack, failed |-> link.failed, proposed |-> link.proposed]
  <2>1. PICK h : h = EarlyHeard(link, link.early)
    OBVIOUS
  <2>2. h = [turn |-> link.turn, stopping |-> link.stopping, done |-> done, early |-> link.early, chain |-> link.chain,
             step |-> link.step, item |-> thing, work |-> link.work, ack |-> link.ack, failed |-> link.failed, proposed |-> link.proposed]
    BY <1>4, <2>1
  <2>3. link' = NamedLink(h)
    BY <2>1 DEF TurnNamed
  <2>4. link' = [turn |-> TRUE, stopping |-> h.stopping, done |-> h.done, early |-> <<>>, chain |-> h.chain,
                 step |-> h.step, item |-> h.item, work |-> h.work, ack |-> h.ack, failed |-> h.failed, proposed |-> h.proposed]
    BY <2>2, <2>3, NamedShape
  <2> QED BY <2>2, <2>4
<1>6. /\ link'.turn = TRUE /\ link'.stopping = link.stopping /\ link'.done = done /\ link'.early = <<>>
      /\ link'.chain = link.chain /\ link'.step = link.step /\ link'.item = thing /\ link'.ack = link.ack /\ link'.failed = link.failed
  BY <1>5
<1>7. LinkOK'
  BY <1>4, <1>5, <1>6, AdapterNow DEF LinkOK
<1>8. EarlyOK'
  <2>1. <<>> \in Seq(EarlyLines) /\ Len(<<>>) = 0 /\ 1 .. Len(<<>>) = {}
    OBVIOUS
  <2>2. Len(<<>>) <= MaxEarly
    BY <2>1
  <2> QED BY <1>6, <2>1, <2>2 DEF EarlyOK
<1>9. PICK l : l = NamedLink(EarlyHeard(link, link.early))
  OBVIOUS
<1>10. l = link'
  BY <1>9 DEF TurnNamed
<1>11. l.done = "no" /\ ~l.stopping => ~seat.cancelled
  BY <1>4, <1>6, <1>10, StepsKept
<1>12. PICK kept : kept = {k \in 1..MaxNative : native[k].state = "held"}
  OBVIOUS
<1>13. native' = [k \in 1..MaxNative |-> IF k \in kept THEN NativeHandled(native, l, k)[k] ELSE native[k]]
  BY <1>9, <1>12 DEF TurnNamed
<1>14. ASSUME NEW k \in 1 .. MaxNative
       PROVE  /\ native'[k] = [state |-> native'[k].state, asked |-> native'[k].asked, shown |-> native'[k].shown]
              /\ native'[k].state \in AskStates /\ (native'[k].state = "open" => ~seat.cancelled)
  <2>1. CASE k \in kept
    <3>1. PICK n : n = native
      OBVIOUS
    <3>2. AskAdded(n, k)
      BY <3>1, AdapterNow DEF NativesOK, AskAdded
    <3>a. PICK r : r = NativeHandled(n, l, k)
      OBVIOUS
    <3>b. HandledAs(r, n, l, k)
      BY <3>2, <3>a, Handled
    <3>c. PICK x, y : /\ r = [i \in 1 .. MaxNative |-> IF i = k THEN [state |-> x, asked |-> n[k].asked, shown |-> y] ELSE n[i]]
                      /\ x \in {"declined", "open"} /\ (x = "open" => l.done = "no" /\ ~l.stopping)
      BY <3>b DEF HandledAs
    <3>3. /\ NativeHandled(n, l, k) = [i \in 1 .. MaxNative |-> IF i = k THEN [state |-> x, asked |-> n[k].asked, shown |-> y] ELSE n[i]]
          /\ x \in {"declined", "open"} /\ (x = "open" => l.done = "no" /\ ~l.stopping)
      BY <3>a, <3>c
    <3>4. NativeHandled(n, l, k)[k] = [state |-> x, asked |-> n[k].asked, shown |-> y]
      BY <3>3
    <3>5. native'[k] = NativeHandled(n, l, k)[k]
      BY <1>13, <2>1, <3>1
    <3>6. native'[k] = [state |-> x, asked |-> n[k].asked, shown |-> y] /\ x \in AskStates
      BY <3>3, <3>4, <3>5 DEF AskStates
    <3> QED BY <1>11, <3>3, <3>6
  <2>2. CASE k \notin kept
    <3>1. native'[k] = native[k]
      BY <1>13, <2>2
    <3> QED BY <3>1, AdapterNow, OpenNow DEF NativesOK
  <2> QED BY <2>1, <2>2
<1>15. NativesOK'
  <2>1. DOMAIN native' = 1 .. MaxNative
    BY <1>13
  <2> QED BY <1>14, <2>1 DEF NativesOK
<1>16. LinesLeft /\ SteersLeft
  BY RestLines
<1>17. ("steer" \in some => link.step = "sent") /\ ("check" \in some => link.step = "checking")
  BY <1>1, StepsKept
<1>18. seat.cancelled => link'.stopping \/ link'.done # "no"
  BY <1>4, <1>6, StepsKept
<1>19. \A k \in 1 .. MaxNative : native'[k].state = "open" => ~seat'.cancelled
  BY <1>3, <1>14
<1>20. link'.done = "completed" => cli.ended = "completed"
  BY <1>4, <1>6
<1> QED BY <1>2, <1>3, <1>6, <1>7, <1>8, <1>15, <1>16, <1>17, <1>18, <1>19, <1>20, StepsKept, OpenNow, RpcStep

(* The first steer leaves the queue, or the chain.                         *)
LEMMA FirstGone ==
  ASSUME NEW q \in Steers, q # <<>>, NEW r, r = Tail(q)
  PROVE  /\ r \in Steers /\ Len(r) \in Nat /\ Len(q) = Len(r) + 1
         /\ \A i \in 1 .. Len(r) : i + 1 \in 1 .. Len(q) /\ r[i] = q[i + 1]
<1>1. /\ r \in Seq(1 .. MaxTold) /\ Len(r) = Len(q) - 1 /\ Len(q) \in Nat /\ Len(q) # 0
      /\ \A i \in 1 .. Len(r) : r[i] = q[i + 1]
  BY HeadTailProperties, EmptySeq DEF Steers
<1>2. PICK n \in Nat : n = Len(q) /\ n # 0
  BY <1>1
<1>3. Len(r) = n - 1 /\ n - 1 \in Nat /\ n = (n - 1) + 1 /\ \A i \in 1 .. n - 1 : i + 1 \in 1 .. n
  BY <1>1, <1>2
<1> QED BY <1>1, <1>2, <1>3 DEF Steers

LEMMA FirstSpliced ==
  ASSUME NEW q \in Steers, q # <<>>, NEW e, q[1] = e, \A i \in 1 .. Len(q) : q[i] = e => i = 1
  PROVE  Spliced(q, e) = Tail(q)
<1>1. q \in Seq(1 .. MaxTold) /\ Len(q) \in Nat /\ DOMAIN q = 1 .. Len(q) /\ 1 \in 1 .. Len(q)
  BY DEF Steers
<1>2. (CHOOSE i \in DOMAIN q : q[i] = e) = 1
  BY <1>1
<1>3. Spliced(q, e) = RemoveAt(q, 1)
  BY <1>1, <1>2 DEF Spliced
<1>4. SubSeq(q, 1, 1 - 1) = <<>> /\ SubSeq(q, 1 + 1, Len(q)) = Tail(q)
  BY <1>1, SubSeqEmpty, TailIsSubSeq
<1>5. Tail(q) \in Seq(1 .. MaxTold)
  BY <1>1
<1>6. <<>> \o Tail(q) = Tail(q)
  BY <1>5, ConcatEmptySeq
<1> QED BY <1>3, <1>4, <1>6 DEF RemoveAt

(* A steer is confirmed: it leaves the queue and is delivered.             *)
SteerTaken ==
  /\ rpc' = [rpc EXCEPT !.pending = @ \ {"steer"}]
  /\ link' = [link EXCEPT !.step = "none", !.chain = Tail(@)]
  /\ seat' = [seat EXCEPT !.queue = Spliced(@, Head(link.chain)), !.delivered = Append(@, Head(link.chain))]

LEMMA SteerTakenInv ==
  ASSUME AdapterInv, Alive, ByRpc, pipe # <<>>, pipe' = Tail(pipe), UNCHANGED <<cli, native, edits>>, ~rpc.error,
         "steer" \in rpc.pending, Taken(Head(pipe)), SteerTaken
  PROVE  AdapterInv'
<1> USE AdapterConstants
<1>1. link.step = "sent" /\ link.chain # <<>>
  BY StepsKept
<1>2. PICK e : e = Head(link.chain)
  OBVIOUS
<1>3. /\ e = Len(seat.delivered) + 1 /\ e \in 1 .. MaxTold /\ 1 \in 1 .. Len(seat.queue) /\ seat.queue[1] = e /\ seat.queue # <<>>
  BY <1>1, <1>2, FirstSteer
<1>4. seat.queue \in Steers /\ seat.delivered \in Steers /\ link.chain \in Steers
  BY AdapterNow DEF SeatOK, LinkOK
<1>5. \A i \in 1 .. Len(seat.queue) : seat.queue[i] = e => i = 1
  <2>1. PICK d, t \in Nat : d = Len(seat.delivered) /\ t = Len(seat.taken)
    BY AdapterNow
  <2>2. ASSUME NEW i \in 1 .. Len(seat.queue), seat.queue[i] = e PROVE i = 1
    <3>1. seat.queue[i] = d + t + i /\ seat.queue[1] = d + t + 1
      BY <1>3, <2>1, AdapterNow DEF CountInv
    <3>2. d + t + i = d + t + 1 /\ i \in Int
      BY <1>3, <2>2, <3>1, AdapterNow
    <3> QED BY <3>2
  <2> QED BY <2>2
<1>6. PICK q : q = Tail(seat.queue)
  OBVIOUS
<1>7. PICK ch : ch = Tail(link.chain)
  OBVIOUS
<1>8. PICK dl : dl = Append(seat.delivered, e)
  OBVIOUS
<1>9. seat' = [seat EXCEPT !.queue = q, !.delivered = dl]
  <2>1. Spliced(seat.queue, e) = q
    BY <1>3, <1>4, <1>5, <1>6, FirstSpliced
  <2> QED BY <1>2, <1>8, <2>1 DEF SteerTaken
<1>10. seat' = [pc |-> seat.pc, kind |-> seat.kind, cancelled |-> seat.cancelled, said |-> seat.said,
                queue |-> q,
                delivered |-> dl, taken |-> seat.taken, follow |-> seat.follow, writing |-> seat.writing, result |-> seat.result]
  BY <1>9, AdapterNow DEF SeatOK
<1>11. /\ seat'.pc = seat.pc /\ seat'.kind = seat.kind /\ seat'.cancelled = seat.cancelled /\ seat'.said = seat.said /\ seat'.queue = q
       /\ seat'.delivered = dl /\ seat'.taken = seat.taken /\ seat'.follow = seat.follow /\ seat'.writing = seat.writing
       /\ seat'.result = seat.result
  BY <1>10
<1>12. link' = [link EXCEPT !.step = "none", !.chain = ch]
  BY <1>7 DEF SteerTaken
<1>13. link' = [turn |-> link.turn, stopping |-> link.stopping, done |-> link.done, early |-> link.early, chain |-> ch,
                step |-> "none", item |-> link.item, work |-> link.work, ack |-> link.ack, failed |-> link.failed, proposed |-> link.proposed]
  BY <1>12, AdapterNow DEF LinkOK
<1>14. /\ link'.turn = link.turn /\ link'.stopping = link.stopping /\ link'.done = link.done /\ link'.early = link.early
       /\ link'.chain = ch /\ link'.step = "none" /\ link'.item = link.item /\ link'.ack = link.ack /\ link'.failed = link.failed
  BY <1>13
<1>15. PICK old : old = seat.queue
  OBVIOUS
<1>16. /\ q \in Steers /\ Len(q) \in Nat /\ Len(seat.queue) = Len(q) + 1
       /\ \A i \in 1 .. Len(q) : i + 1 \in 1 .. Len(seat.queue) /\ q[i] = seat.queue[i + 1]
  <2>1. old \in Steers /\ old # <<>> /\ q = Tail(old)
    BY <1>3, <1>4, <1>6, <1>15
  <2>2. q \in Steers /\ Len(q) \in Nat /\ Len(old) = Len(q) + 1
    BY <2>1, FirstGone
  <2>3. \A i \in 1 .. Len(q) : i + 1 \in 1 .. Len(old) /\ q[i] = old[i + 1]
    BY <2>1, FirstGone
  <2> QED BY <1>15, <2>2, <2>3
<1>17. PICK all : all = link.chain
  OBVIOUS
<1>18. /\ ch \in Steers /\ Len(ch) \in Nat /\ Len(link.chain) = Len(ch) + 1
       /\ \A i \in 1 .. Len(ch) : i + 1 \in 1 .. Len(link.chain) /\ ch[i] = link.chain[i + 1]
  <2>1. all \in Steers /\ all # <<>> /\ ch = Tail(all)
    BY <1>1, <1>4, <1>7, <1>17
  <2>2. ch \in Steers /\ Len(ch) \in Nat /\ Len(all) = Len(ch) + 1
    BY <2>1, FirstGone
  <2>3. \A i \in 1 .. Len(ch) : i + 1 \in 1 .. Len(all) /\ ch[i] = all[i + 1]
    BY <2>1, FirstGone
  <2> QED BY <1>17, <2>2, <2>3
<1>19. PICK gone : gone = seat.delivered
  OBVIOUS
<1>20. /\ dl \in Steers /\ Len(dl) = Len(seat.delivered) + 1
       /\ \A i \in 1 .. Len(dl) : (i \in 1 .. Len(seat.delivered) /\ dl[i] = seat.delivered[i]) \/ (i = Len(seat.delivered) + 1 /\ dl[i] = e)
  <2>1. gone \in Steers /\ dl = Added(gone, e)
    BY <1>4, <1>8, <1>19 DEF Added
  <2>2. dl \in Steers /\ Len(dl) = Len(gone) + 1
    BY <1>3, <2>1, SteerAddedLast
  <2>3. \A i \in 1 .. Len(dl) : (i \in 1 .. Len(gone) /\ dl[i] = gone[i]) \/ (i = Len(gone) + 1 /\ dl[i] = e)
    BY <1>3, <2>1, SteerAddedAt
  <2> QED BY <1>19, <2>2, <2>3
<1>21. SeatOK'
  BY <1>10, <1>11, <1>16, <1>20, AdapterNow DEF SeatOK
<1>22. LinkOK'
  BY <1>13, <1>14, <1>18, AdapterNow DEF LinkOK
<1>23. PICK some : some = rpc.pending \ {"steer"}
  OBVIOUS
<1>24. RpcOK' /\ rpc'.error = rpc.error /\ rpc'.pending = some
  <2>1. rpc' = [rpc EXCEPT !.pending = some]
    BY <1>23 DEF SteerTaken
  <2>2. some \in SUBSET RpcCalls
    BY <1>23, AdapterNow DEF RpcOK
  <2> QED BY <2>1, <2>2, RpcPending
<1>25. LinesLeft
  BY RestLines
<1>26. CliOK' /\ NativesOK'
  BY AdapterNow DEF CliOK, NativesOK
<1>27. LinesOK'
  <2>1. Len(pipe') <= MaxPipe + 1 /\ (cli'.pc # "dead" => Len(pipe') <= MaxPipe)
    <3>1. PICK m, n \in Nat : m = Len(pipe') /\ n = Len(pipe)
      BY <1>25, LinesNow DEF LinesLeft
    <3>2. m <= n /\ n <= MaxPipe + 1 /\ (cli.pc # "dead" => n <= MaxPipe)
      BY <1>25, <3>1, AdapterNow DEF LinesOK, LinesLeft
    <3>3. m <= MaxPipe + 1 /\ (cli.pc # "dead" => m <= MaxPipe)
      BY <3>2
    <3> QED BY <3>1, <3>3
  <2>2. ASSUME NEW i \in 1 .. Len(pipe')
        PROVE  Shown(pipe'[i]) /\ (pipe'[i].kind = "end" => pipe'[i].what \in TurnStatuses \cup {"line"})
    <3>1. PICK j \in 1 .. Len(pipe) : pipe'[i] = pipe[j]
      BY <1>25 DEF LinesLeft
    <3>2. (pipe[j].kind = "item" => pipe[j].what \in Patches) /\ (pipe[j].kind = "end" => pipe[j].what \in TurnStatuses \cup {"line"})
      BY AdapterNow DEF LinesOK, Shown
    <3> QED BY <3>1, <3>2 DEF Shown
  <2> QED BY <1>14, <1>25, <2>1, <2>2, AdapterNow DEF LinesOK, LinesLeft
<1>28. Alive' /\ ByRpc'
  BY <1>11 DEF Alive, ByRpc
<1>29. PcInv'
  BY <1>11, <1>24, AdapterNow DEF PcInv, Alive, ByRpc
<1>30. PICK d, m, k, s \in Nat : /\ d = Len(seat.delivered) /\ m = Len(q) /\ k = Len(cli.took) /\ s = seat.said
                                 /\ d + (m + 1) = s /\ k = d + 1 /\ k <= s /\ Len(seat.taken) = 0
  <2>1. PICK d, t, n, k, s \in Nat : /\ d = Len(seat.delivered) /\ t = Len(seat.taken) /\ n = Len(seat.queue) /\ k = Len(cli.took)
                                     /\ s = seat.said /\ d + t + n = s /\ k <= s
    BY CountsNow
  <2>2. t = 0
    BY <2>1, StepNow
  <2>3. PICK m \in Nat : m = Len(q)
    BY <1>16
  <2>4. n = m + 1
    BY <1>16, <2>1, <2>3
  <2>a. d + t + n = s
    BY <2>1
  <2>5. d + (m + 1) = s
    BY <2>2, <2>4, <2>a
  <2>6. Len(cli.took) = Len(seat.delivered) + 1
    BY StepNow, TailNow
  <2>7. k = d + 1
    BY <2>1, <2>6
  <2> QED BY <2>1, <2>2, <2>3, <2>5, <2>7
<1>31. Len(dl) = d + 1 /\ e = d + 1
  BY <1>3, <1>20, <1>30
<1>32. CountInv'
  <2>a. d + (m + 1) = s /\ k = d + 1
    BY <1>30
  <2>1. d + 1 + 0 + m = s /\ d + 1 <= k
    BY <2>a
  <2>2. Len(seat'.delivered) + Len(seat'.taken) + Len(seat'.queue) = seat'.said
    BY <1>11, <1>30, <1>31, <2>1
  <2>3. ASSUME NEW i \in 1 .. Len(dl) PROVE dl[i] = i
    BY <1>20, <1>30, <1>31, AdapterNow DEF CountInv
  <2>4. ASSUME NEW i \in 1 .. Len(q) PROVE q[i] = Len(dl) + Len(seat.taken) + i
    <3>1. i + 1 \in 1 .. Len(seat.queue) /\ q[i] = seat.queue[i + 1]
      BY <1>16
    <3>2. seat.queue[i + 1] = d + 0 + (i + 1)
      BY <1>30, <3>1, AdapterNow DEF CountInv
    <3>3. i \in Int
      BY <1>16
    <3>4. q[i] = d + 1 + 0 + i
      BY <3>1, <3>2, <3>3
    <3> QED BY <1>30, <1>31, <3>4
  <2>5. Len(seat'.delivered) <= Len(cli'.took) /\ Len(cli'.took) <= seat'.said
    BY <1>11, <1>30, <1>31, <2>1
  <2>6. \A i \in 1 .. Len(seat.taken) : FALSE
    BY <1>30
  <2> QED BY <1>11, <2>2, <2>3, <2>4, <2>5, <2>6, AdapterNow DEF CountInv
<1>33. RpcInv'
  <2>1. Len(ch) = Len(q) /\ \A i \in 1 .. Len(ch) : ch[i] = q[i]
    <3>1. Len(link.chain) = Len(seat.queue)
      BY StepNow
    <3>2. PICK a, b \in Nat : a = Len(ch) /\ b = Len(q)
      BY <1>16, <1>18
    <3>3. a + 1 = b + 1
      BY <1>16, <1>18, <3>1, <3>2
    <3>4. Len(ch) = Len(q)
      BY <3>2, <3>3
    <3> QED BY <1>16, <1>18, <3>4, StepNow
  <2>2. \A i \in 1 .. Len(pipe') : ~Taken(pipe'[i])
    <3>1. ASSUME NEW i \in 1 .. Len(pipe'), Taken(pipe'[i]) PROVE FALSE
      <4>1. i + 1 \in 1 .. Len(pipe) /\ pipe'[i] = pipe[i + 1] /\ 1 \in 1 .. Len(pipe) /\ pipe[1] = Head(pipe) /\ i \in Int /\ i >= 1
        BY TailNow
      <4>a. pipe[i + 1].kind = "reply" /\ pipe[i + 1].what = "steer" /\ pipe[1].kind = "reply" /\ pipe[1].what = "steer"
        BY <3>1, <4>1 DEF Taken
      <4>b. \A a, b \in 1 .. Len(pipe) : pipe[a].kind = "reply" /\ pipe[b].kind = "reply" /\ pipe[a].what = pipe[b].what => a = b
        BY StepNow
      <4>c. PICK b : b = i + 1
        OBVIOUS
      <4>d. b \in 1 .. Len(pipe) /\ pipe[b].kind = "reply" /\ pipe[b].what = "steer"
        BY <4>1, <4>a, <4>c
      <4>e. b = 1
        BY <4>1, <4>a, <4>b, <4>d
      <4>2. i + 1 = 1
        BY <4>c, <4>e
      <4> QED BY <4>1, <4>2
    <3> QED BY <3>1
  <2>3. Len(cli'.took) = Len(seat'.delivered)
    BY <1>11, <1>30, <1>31
  <2>4. "steer" \notin some /\ "check" \notin some
    BY <1>1, <1>23, StepNow
  <2>5. seat.cancelled => link'.stopping \/ link'.done # "no"
    BY <1>14, StepsKept
  <2>6. \A i, j \in 1 .. Len(pipe') : pipe'[i].kind = "reply" /\ pipe'[j].kind = "reply" /\ pipe'[i].what = pipe'[j].what => i = j
    BY <1>25 DEF LinesLeft
  <2>7. seat'.taken = <<>>
    BY <1>11, StepNow
  <2> QED BY <1>11, <1>14, <1>24, <1>28, <2>1, <2>2, <2>3, <2>4, <2>5, <2>6, <2>7 DEF RpcInv, Taken
<1>34. ExecInv'
  BY <1>11, AdapterNow DEF ExecInv, PcInv
<1>35. EndInv'
  <2>1. \A i \in 1 .. Len(pipe') : pipe'[i].kind = "end" /\ pipe'[i].what \in {"completed", "line"} => cli.ended = "completed"
    BY <1>25, AdapterNow DEF EndInv, LinesLeft
  <2>2. \A i \in 1 .. Len(pipe') : pipe'[i].kind = "end" => pipe'[i].what # "line"
    BY <1>25, AdapterNow DEF EndInv, LinesLeft
  <2> QED BY <1>11, <1>14, <1>28, <2>1, <2>2, AdapterNow DEF EndInv
<1>36. AskInv'
  BY <1>11, <1>28, AdapterNow DEF AskInv
<1> QED BY <1>21, <1>22, <1>24, <1>26, <1>27, <1>29, <1>32, <1>33, <1>34, <1>35, <1>36 DEF AdapterInv, AdapterShapes

(* Answers of app-server.                                                  *)
LEMMA ReplyReadInv ==
  ASSUME AdapterInv, Alive, ByRpc, pipe # <<>>, pipe' = Tail(pipe), UNCHANGED <<cli, edits>>, ReplyRead, ~rpc.error
  PROVE  AdapterInv'
<1> USE AdapterConstants
<1>1. PICK c : c = Head(pipe).what
  OBVIOUS
<1>2. Head(pipe).kind = "reply" /\ c \in rpc.pending /\ c \in RpcCalls
  BY <1>1, AdapterNow DEF ReplyRead, RpcOK
<1>3. CASE RpcFails /\ UNCHANGED <<seat, link, native>>
  BY <1>3, ReadFails
<1>4. ASSUME NEW more \in SUBSET {"config", "thread", "turn"}, NEW pc \in {"config", "thread", "saving", "turn"}, Then(more, pc),
             UNCHANGED <<link, native>>, c # "steer"
      PROVE  AdapterInv'
  <2>1. PICK some : some = (rpc.pending \ {c}) \cup more
    OBVIOUS
  <2>2. rpc' = [rpc EXCEPT !.pending = some] /\ seat' = [seat EXCEPT !.pc = pc]
    BY <1>1, <1>4, <2>1 DEF Then
  <2>3. some \in SUBSET RpcCalls
    BY <2>1, AdapterNow DEF RpcOK, RpcCalls
  <2>4. pc \in SeatPcs \ {"idle", "over", "executing", "applying"}
    BY DEF SeatPcs
  <2>5. ~Taken(Head(pipe))
    BY <1>1, <1>4 DEF Taken
  <2> QED BY <1>4, <2>1, <2>2, <2>3, <2>4, <2>5, CallAnswered
<1>5. CASE Head(pipe).n = 1 /\ c = "turn" /\ rpc' = [rpc EXCEPT !.pending = @ \ {c}] /\ TurnNamed
  <2>1. ~Taken(Head(pipe))
    BY <1>1, <1>5 DEF Taken
  <2> QED BY <1>5, <2>1, TurnNamedInv
<1>6. CASE c = "check" /\ rpc' = [rpc EXCEPT !.pending = (@ \ {c}) \cup {"steer"}] /\ link' = [link EXCEPT !.step = "sent"] /\ UNCHANGED <<seat, native>>
  <2>1. PICK some : some = (rpc.pending \ {c}) \cup {"steer"}
    OBVIOUS
  <2>2. some \in SUBSET RpcCalls
    BY <2>1, AdapterNow DEF RpcOK, RpcCalls
  <2>3. RpcOK' /\ rpc'.error = rpc.error /\ rpc'.pending = some
    <3>1. rpc' = [rpc EXCEPT !.pending = some]
      BY <1>6, <2>1
    <3> QED BY <2>2, <3>1, RpcPending
  <2>4. /\ LinkOK' /\ link'.turn = link.turn /\ link'.stopping = link.stopping /\ link'.done = link.done /\ link'.early = link.early
        /\ link'.chain = link.chain /\ link'.step = "sent"
    BY <1>6, LinkStep
  <2>5. link.chain # <<>>
    BY <1>2, <1>6, StepsKept
  <2>6. LinesLeft /\ SteersLeft
    <3>1. ~Taken(Head(pipe))
      BY <1>1, <1>6 DEF Taken
    <3> QED BY <3>1, RestLines
  <2>7. SeatOK' /\ NativesOK' /\ EarlyOK'
    BY <1>6, <2>4, AdapterNow, EarlyKept DEF SeatOK, NativesOK
  <2>8. "check" \notin some
    BY <1>6, <2>1
  <2>9. seat' = seat /\ native' = native /\ cli' = cli
    BY <1>6
  <2>10. (seat.cancelled => link'.stopping \/ link'.done # "no") /\ (link'.done = "completed" => cli.ended = "completed")
    BY <2>4, StepsKept
  <2> QED BY <2>3, <2>4, <2>5, <2>6, <2>7, <2>8, <2>9, <2>10, StepsKept, OpenNow, RpcStep
<1>7. CASE Head(pipe).n = 1 /\ c = "steer" /\ UNCHANGED native /\ SteerTaken
  <2>1. Taken(Head(pipe))
    BY <1>1, <1>2, <1>7 DEF Taken
  <2> QED BY <1>2, <1>7, <2>1, SteerTakenInv
<1>8. CASE c = "interrupt" /\ rpc' = [rpc EXCEPT !.pending = @ \ {c}] /\ UNCHANGED <<seat, link, native>>
  <2>1. PICK some, pc : some = rpc.pending \ {c} /\ pc = seat.pc
    OBVIOUS
  <2>2. rpc' = [rpc EXCEPT !.pending = some]
    BY <1>8, <2>1
  <2>3. seat' = [seat EXCEPT !.pc = pc]
    BY <1>8, <2>1, AdapterNow DEF SeatOK
  <2>4. some \in SUBSET RpcCalls
    BY <2>1, AdapterNow DEF RpcOK
  <2>5. pc \in SeatPcs \ {"idle", "over", "executing", "applying"}
    BY <2>1, StepsKept, AdapterNow DEF SeatOK
  <2>6. ~Taken(Head(pipe))
    BY <1>1, <1>8 DEF Taken
  <2>7. \A x \in some : x \in rpc.pending
    BY <2>1
  <2> QED BY <1>8, <2>2, <2>3, <2>4, <2>5, <2>6, <2>7, CallAnswered
<1>9. \/ RpcFails /\ UNCHANGED <<seat, link, native>>
      \/ /\ c \in {"init", "config", "thread", "account"} /\ UNCHANGED <<link, native>>
         /\ Then({"config"}, "config") \/ Then({"thread"}, "thread") \/ Then({}, "saving") \/ Then({"turn"}, "turn")
      \/ Head(pipe).n = 1 /\ c = "turn" /\ rpc' = [rpc EXCEPT !.pending = @ \ {c}] /\ TurnNamed
      \/ c = "check" /\ rpc' = [rpc EXCEPT !.pending = (@ \ {c}) \cup {"steer"}] /\ link' = [link EXCEPT !.step = "sent"] /\ UNCHANGED <<seat, native>>
      \/ Head(pipe).n = 1 /\ c = "steer" /\ UNCHANGED native /\ SteerTaken
      \/ c = "interrupt" /\ rpc' = [rpc EXCEPT !.pending = @ \ {c}] /\ UNCHANGED <<seat, link, native>>
  <2>1. CASE Head(pipe).n # 1
    BY <1>1, <2>1 DEF ReplyRead
  <2>2. CASE Head(pipe).n = 1 /\ c \in {"init", "config", "thread", "account"}
    BY <1>1, <2>2 DEF ReplyRead
  <2>3. CASE Head(pipe).n = 1 /\ c = "turn"
    BY <1>1, <2>3 DEF ReplyRead
  <2>4. CASE Head(pipe).n = 1 /\ c = "check"
    BY <1>1, <2>4 DEF ReplyRead
  <2>5. CASE Head(pipe).n = 1 /\ c = "steer"
    <3>1. CASE link.stopping
      BY <1>1, <2>5, <3>1 DEF ReplyRead
    <3>2. CASE ~link.stopping
      BY <1>1, <2>5, <3>2 DEF ReplyRead, SteerTaken
    <3> QED BY <3>1, <3>2
  <2>6. CASE Head(pipe).n = 1 /\ c = "interrupt"
    BY <1>1, <2>6 DEF ReplyRead
  <2> QED BY <1>2, <2>1, <2>2, <2>3, <2>4, <2>5, <2>6 DEF RpcCalls
<1>10. CASE /\ c \in {"init", "config", "thread", "account"} /\ UNCHANGED <<link, native>>
            /\ Then({"config"}, "config") \/ Then({"thread"}, "thread") \/ Then({}, "saving") \/ Then({"turn"}, "turn")
  <2>1. c # "steer"
    BY <1>10
  <2>2. CASE Then({"config"}, "config")
    BY <1>4, <1>10, <2>1, <2>2
  <2>3. CASE Then({"thread"}, "thread")
    BY <1>4, <1>10, <2>1, <2>3
  <2>4. CASE Then({}, "saving")
    BY <1>4, <1>10, <2>1, <2>4
  <2>5. CASE Then({"turn"}, "turn")
    BY <1>4, <1>10, <2>1, <2>5
  <2> QED BY <1>10, <2>2, <2>3, <2>4, <2>5
<1> QED BY <1>3, <1>5, <1>6, <1>7, <1>8, <1>9, <1>10

LEMMA LineReadInv ==
  ASSUME AdapterInv, LineRead
  PROVE  AdapterInv'
<1>1. ByRpc /\ Alive /\ pipe # <<>> /\ pipe' = Tail(pipe) /\ UNCHANGED <<cli, edits>>
  BY DEF LineRead
<1>2. CASE rpc.error
  <2>1. UNCHANGED <<seat, rpc, link, native>>
    BY <1>2 DEF LineRead
  <2>2. PICK pc, some : pc = seat.pc /\ some = rpc.pending
    OBVIOUS
  <2>3. seat' = [seat EXCEPT !.pc = pc] /\ rpc' = [rpc EXCEPT !.pending = some]
    BY <2>1, <2>2, AdapterNow DEF SeatOK, RpcOK
  <2>4. some = {} /\ some \in SUBSET RpcCalls
    BY <1>1, <1>2, <2>2, StepsKept
  <2>5. pc \in SeatPcs \ {"idle", "over", "executing", "applying"}
    BY <1>1, <2>2, StepsKept, AdapterNow DEF SeatOK
  <2> QED BY <1>1, <1>2, <2>1, <2>3, <2>4, <2>5, CallAnswered
<1>3. CASE ~rpc.error
  <2>1. \/ ReplyRead \/ NoteRead \/ AskRead \/ ToolRead
        \/ RpcFails /\ UNCHANGED <<seat, link, native>>
    BY <1>3 DEF LineRead
  <2>2. CASE RpcFails /\ UNCHANGED <<seat, link, native>>
    BY <1>1, <2>2, ReadFails
  <2> QED BY <1>1, <1>3, <2>1, <2>2, ReplyReadInv, NoteReadInv, AskReadInv, ToolReadInv
<1> QED BY <1>2, <1>3

(* What is so while a process of exec or of Claude Code runs.              *)
LEMMA ExecNow ==
  ASSUME AdapterInv, seat.pc = "executing"
  PROVE  /\ ~ByRpc /\ Alive /\ seat.writing = "no" /\ link.early = <<>>
         /\ Len(cli.took) = Len(seat.delivered) \/ Len(cli.took) = Len(seat.delivered) + Len(seat.taken)
         /\ cli.pc \in {"up", "named"} => Len(cli.took) = Len(seat.delivered)
         /\ link.turn => seat.taken = <<>> /\ link.ack
         /\ link.done \in {"no", "completed"} /\ (link.done # "no" => link.turn \/ link.failed)
         /\ cli.pc = "named" => link.ack \/ link.failed \/ \E j \in 1 .. Len(pipe) : pipe[j].kind = "thread"
         /\ cli.pc = "turning" => link.turn \/ link.failed \/ \E j \in 1 .. Len(pipe) : pipe[j].kind = "turn"
         /\ seat.result = "completed" => seat.kind = "claude"
         /\ link.done = "completed" => cli.ended = "completed"
<1>1. ~ByRpc /\ Alive /\ seat.writing = "no" /\ link.early = <<>>
  BY AdapterNow DEF PcInv, EndInv, Alive, SeatOK
<1>2. (seat.result = "completed" => seat.kind = "claude") /\ (link.done = "completed" => cli.ended = "completed")
  BY AdapterNow DEF EndInv
<1>3. /\ Len(cli.took) = Len(seat.delivered) \/ Len(cli.took) = Len(seat.delivered) + Len(seat.taken)
      /\ cli.pc \in {"up", "named"} => Len(cli.took) = Len(seat.delivered)
      /\ link.turn => seat.taken = <<>> /\ link.ack
      /\ link.done \in {"no", "completed"} /\ (link.done # "no" => link.turn \/ link.failed)
      /\ cli.pc = "named" => link.ack \/ link.failed \/ \E j \in 1 .. Len(pipe) : pipe[j].kind = "thread"
      /\ cli.pc = "turning" => link.turn \/ link.failed \/ \E j \in 1 .. Len(pipe) : pipe[j].kind = "turn"
  BY AdapterNow DEF ExecInv
<1> QED BY <1>1, <1>2, <1>3

LEMMA ExecLineNow ==
  ASSUME AdapterInv, seat.pc = "executing", NEW i \in 1 .. Len(pipe)
  PROVE  /\ pipe[i].kind = "turn" => /\ ~link.turn => Len(cli.took) = Len(seat.delivered) + Len(seat.taken)
                                     /\ link.ack \/ link.failed \/ \E j \in 1 .. i - 1 : pipe[j].kind = "thread"
         /\ pipe[i].kind = "end" => link.turn \/ link.failed \/ \E j \in 1 .. i - 1 : pipe[j].kind = "turn"
         /\ pipe[i].kind = "end" => pipe[i].what = "line" /\ cli.ended = "completed"
         /\ pipe[i].kind = "close" => cli.pc = "dead"
<1>1. /\ pipe[i].kind = "turn" => /\ ~link.turn => Len(cli.took) = Len(seat.delivered) + Len(seat.taken)
                                  /\ link.ack \/ link.failed \/ \E j \in 1 .. i - 1 : pipe[j].kind = "thread"
      /\ pipe[i].kind = "end" => link.turn \/ link.failed \/ \E j \in 1 .. i - 1 : pipe[j].kind = "turn"
      /\ pipe[i].kind = "end" => pipe[i].what = "line"
      /\ pipe[i].kind = "close" => cli.pc = "dead"
  BY AdapterNow DEF ExecInv
<1>2. pipe[i].kind = "end" => cli.ended = "completed"
  BY <1>1, AdapterNow DEF EndInv
<1> QED BY <1>1, <1>2

(* What the adapter makes of the first line.                               *)
LEMMA ExecHeard ==
  ASSUME AdapterInv, ExecLineRead
  PROVE  \E turn, done, ack, failed, proposed :
           /\ link' = [turn |-> turn, stopping |-> link.stopping, done |-> done, early |-> link.early, chain |-> link.chain,
                       step |-> link.step, item |-> link.item, work |-> link.work, ack |-> ack, failed |-> failed, proposed |-> proposed]
           /\ turn \in BOOLEAN /\ ack \in BOOLEAN /\ failed \in BOOLEAN
           /\ (link.turn => turn) /\ (link.ack => ack) /\ (link.failed => failed)
           /\ Head(pipe).kind = "thread" => ack \/ failed
           /\ Head(pipe).kind = "turn" => turn \/ failed
           /\ turn => ack /\ (link.turn \/ Head(pipe).kind = "turn")
           /\ done = link.done \/ (done = "completed" /\ Head(pipe).kind = "end")
<1>1. PICK line : line = Head(pipe)
  OBVIOUS
<1>2. 1 \in 1 .. Len(pipe) /\ pipe[1] = line /\ seat.pc = "executing"
  BY <1>1, TailNow DEF ExecLineRead
<1>3. line.kind = "turn" => link.ack \/ link.failed
  <2>1. PICK i \in 1 .. Len(pipe) : i = 1
    BY <1>2
  <2>2. pipe[i].kind = "turn" => link.ack \/ link.failed \/ \E j \in 1 .. i - 1 : pipe[j].kind = "thread"
    BY <1>2, ExecLineNow
  <2>3. 1 .. i - 1 = {}
    BY <2>1
  <2> QED BY <1>2, <2>1, <2>2, <2>3
<1>4. link.turn \in BOOLEAN /\ link.ack \in BOOLEAN /\ link.failed \in BOOLEAN /\ (link.turn => link.ack)
  BY <1>2, ExecNow, AdapterNow DEF LinkOK
<1>5. PICK p : p = IF seat.kind = "exec" THEN line.n ELSE 0
  OBVIOUS
<1>6. link' = IF link.failed THEN link
              ELSE CASE line.kind = "thread" -> [link EXCEPT !.ack = TRUE]
                     [] line.kind = "turn" -> [link EXCEPT !.turn = link.ack]
                     [] line.kind = "said" -> [link EXCEPT !.proposed = p]
                     [] line.kind = "end" -> [link EXCEPT !.done = "completed"]
                     [] OTHER -> [link EXCEPT !.failed = TRUE]
  BY <1>1, <1>5 DEF ExecLineRead
<1>7. CASE link.failed
  <2>1. link' = link
    BY <1>6, <1>7
  <2>2. link' = [turn |-> link.turn, stopping |-> link.stopping, done |-> link.done, early |-> link.early, chain |-> link.chain,
                 step |-> link.step, item |-> link.item, work |-> link.work, ack |-> link.ack, failed |-> link.failed, proposed |-> link.proposed]
    BY <2>1, AdapterNow DEF LinkOK
  <2> QED BY <1>1, <1>4, <1>7, <2>2
<1>8. CASE ~link.failed /\ line.kind = "thread"
  <2>1. link' = [link EXCEPT !.ack = TRUE]
    BY <1>6, <1>8
  <2>2. link' = [turn |-> link.turn, stopping |-> link.stopping, done |-> link.done, early |-> link.early, chain |-> link.chain,
                 step |-> link.step, item |-> link.item, work |-> link.work, ack |-> TRUE, failed |-> link.failed, proposed |-> link.proposed]
    BY <2>1, AdapterNow DEF LinkOK
  <2> QED BY <1>1, <1>4, <1>8, <2>2
<1>9. CASE ~link.failed /\ line.kind = "turn"
  <2>1. link' = [link EXCEPT !.turn = TRUE]
    BY <1>3, <1>4, <1>6, <1>9
  <2>2. link' = [turn |-> TRUE, stopping |-> link.stopping, done |-> link.done, early |-> link.early, chain |-> link.chain,
                 step |-> link.step, item |-> link.item, work |-> link.work, ack |-> link.ack, failed |-> link.failed, proposed |-> link.proposed]
    BY <2>1, AdapterNow DEF LinkOK
  <2> QED BY <1>1, <1>3, <1>4, <1>9, <2>2
<1>10. CASE ~link.failed /\ line.kind = "said"
  <2>1. link' = [link EXCEPT !.proposed = p]
    BY <1>6, <1>10
  <2>2. link' = [turn |-> link.turn, stopping |-> link.stopping, done |-> link.done, early |-> link.early, chain |-> link.chain,
                 step |-> link.step, item |-> link.item, work |-> link.work, ack |-> link.ack, failed |-> link.failed, proposed |-> p]
    BY <2>1, AdapterNow DEF LinkOK
  <2> QED BY <1>1, <1>4, <1>10, <2>2
<1>11. CASE ~link.failed /\ line.kind = "end"
  <2>1. link' = [link EXCEPT !.done = "completed"]
    BY <1>6, <1>11
  <2>2. PICK done : done = "completed"
    OBVIOUS
  <2>3. link' = [turn |-> link.turn, stopping |-> link.stopping, done |-> done, early |-> link.early, chain |-> link.chain,
                 step |-> link.step, item |-> link.item, work |-> link.work, ack |-> link.ack, failed |-> link.failed, proposed |-> link.proposed]
    BY <2>1, <2>2, AdapterNow DEF LinkOK
  <2> QED BY <1>1, <1>4, <1>11, <2>2, <2>3
<1>12. CASE ~link.failed /\ line.kind \notin {"thread", "turn", "said", "end"}
  <2>1. link' = [link EXCEPT !.failed = TRUE]
    BY <1>6, <1>12
  <2>2. link' = [turn |-> link.turn, stopping |-> link.stopping, done |-> link.done, early |-> link.early, chain |-> link.chain,
                 step |-> link.step, item |-> link.item, work |-> link.work, ack |-> link.ack, failed |-> TRUE, proposed |-> link.proposed]
    BY <2>1, AdapterNow DEF LinkOK
  <2> QED BY <1>1, <1>4, <1>12, <2>2
<1> QED BY <1>7, <1>8, <1>9, <1>10, <1>11, <1>12

(* The steers a process was started with are delivered.                    *)
LEMMA ExecDelivers ==
  ASSUME AdapterInv, ExecLineRead
  PROVE  /\ \/ seat' = seat /\ (link'.turn => link.turn)
            \/ /\ seat' = [seat EXCEPT !.delivered = Joined(@, seat.taken), !.taken = <<>>]
               /\ Len(cli.took) = Len(seat.delivered) + Len(seat.taken)
         /\ Head(pipe).kind # "turn" \/ link.turn => seat' = seat
<1>1. 1 \in 1 .. Len(pipe) /\ pipe[1] = Head(pipe) /\ seat.pc = "executing"
  BY TailNow DEF ExecLineRead
<1>2. CASE Head(pipe).kind = "turn" /\ ~link.turn /\ link'.turn
  <2>1. seat' = [seat EXCEPT !.delivered = @ \o seat.taken, !.taken = <<>>]
    BY <1>2 DEF ExecLineRead
  <2>2. Len(cli.took) = Len(seat.delivered) + Len(seat.taken)
    BY <1>1, <1>2, ExecLineNow
  <2> QED BY <1>2, <2>1, <2>2 DEF Joined
<1>3. CASE ~(Head(pipe).kind = "turn" /\ ~link.turn /\ link'.turn)
  <2>1. seat' = seat
    BY <1>3 DEF ExecLineRead
  <2>2. link'.turn => link.turn \/ Head(pipe).kind = "turn"
    BY ExecHeard
  <2> QED BY <1>3, <2>1, <2>2
<1> QED BY <1>2, <1>3

LEMMA ExecLineReadInv ==
  ASSUME AdapterInv, ExecLineRead
  PROVE  AdapterInv'
<1> USE AdapterConstants
<1>1. /\ seat.pc = "executing" /\ pipe # <<>> /\ Head(pipe).kind # "close" /\ pipe' = Tail(pipe)
      /\ UNCHANGED <<rpc, cli, native, edits>>
  BY DEF ExecLineRead
<1>2. PICK turn, done, ack, failed, proposed :
           /\ link' = [turn |-> turn, stopping |-> link.stopping, done |-> done, early |-> link.early, chain |-> link.chain,
                       step |-> link.step, item |-> link.item, work |-> link.work, ack |-> ack, failed |-> failed, proposed |-> proposed]
           /\ turn \in BOOLEAN /\ ack \in BOOLEAN /\ failed \in BOOLEAN
           /\ (link.turn => turn) /\ (link.ack => ack) /\ (link.failed => failed)
           /\ Head(pipe).kind = "thread" => ack \/ failed
           /\ Head(pipe).kind = "turn" => turn \/ failed
           /\ turn => ack /\ (link.turn \/ Head(pipe).kind = "turn")
           /\ done = link.done \/ (done = "completed" /\ Head(pipe).kind = "end")
  BY ExecHeard
<1>3. /\ link'.turn = turn /\ link'.stopping = link.stopping /\ link'.done = done /\ link'.early = link.early
      /\ link'.chain = link.chain /\ link'.step = link.step /\ link'.item = link.item /\ link'.ack = ack /\ link'.failed = failed
  BY <1>2
<1>4. LinkOK'
  BY <1>2, <1>3, AdapterNow DEF LinkOK
<1>5. PICK dl, tk :
        /\ seat' = [pc |-> "executing", kind |-> seat.kind, cancelled |-> seat.cancelled, said |-> seat.said,
                    queue |-> seat.queue,
                    delivered |-> dl, taken |-> tk, follow |-> seat.follow, writing |-> seat.writing, result |-> seat.result]
        /\ \/ dl = seat.delivered /\ tk = seat.taken /\ (turn => link.turn)
           \/ dl = Joined(seat.delivered, seat.taken) /\ tk = <<>> /\ Len(cli.took) = Len(seat.delivered) + Len(seat.taken)
        /\ Head(pipe).kind # "turn" \/ link.turn => dl = seat.delivered /\ tk = seat.taken
  <2>1. CASE seat' = seat /\ (link'.turn => link.turn)
    <3>1. PICK dl, tk : dl = seat.delivered /\ tk = seat.taken
      OBVIOUS
    <3>2. seat' = [pc |-> "executing", kind |-> seat.kind, cancelled |-> seat.cancelled, said |-> seat.said,
                   queue |-> seat.queue,
                   delivered |-> dl, taken |-> tk, follow |-> seat.follow, writing |-> seat.writing, result |-> seat.result]
      BY <1>1, <2>1, <3>1, AdapterNow DEF SeatOK
    <3> QED BY <1>3, <2>1, <3>1, <3>2
  <2>2. CASE /\ seat' = [seat EXCEPT !.delivered = Joined(@, seat.taken), !.taken = <<>>]
             /\ Len(cli.took) = Len(seat.delivered) + Len(seat.taken)
    <3>1. PICK dl, tk : dl = Joined(seat.delivered, seat.taken) /\ tk = <<>>
      OBVIOUS
    <3>2. seat' = [seat EXCEPT !.delivered = dl, !.taken = tk]
      BY <2>2, <3>1
    <3>3. seat' = [pc |-> "executing", kind |-> seat.kind, cancelled |-> seat.cancelled, said |-> seat.said,
                   queue |-> seat.queue,
                   delivered |-> dl, taken |-> tk, follow |-> seat.follow, writing |-> seat.writing, result |-> seat.result]
      BY <1>1, <3>2, AdapterNow DEF SeatOK
    <3>4. seat'.delivered = dl /\ seat'.taken = tk
      BY <3>3
    <3>5. Head(pipe).kind # "turn" \/ link.turn => dl = seat.delivered /\ tk = seat.taken
      BY <3>4, ExecDelivers
    <3> QED BY <2>2, <3>1, <3>3, <3>5
  <2> QED BY <2>1, <2>2, ExecDelivers
<1>6. /\ seat'.pc = "executing" /\ seat'.kind = seat.kind /\ seat'.cancelled = seat.cancelled /\ seat'.said = seat.said /\ seat'.queue = seat.queue
      /\ seat'.delivered = dl /\ seat'.taken = tk /\ seat'.follow = seat.follow /\ seat'.writing = seat.writing
      /\ seat'.result = seat.result
  BY <1>5
<1>7. PICK a, b : a = seat.delivered /\ b = seat.taken
  OBVIOUS
<1>8. a \in Steers /\ b \in Steers
  BY <1>7, AdapterNow DEF SeatOK
<1>9. /\ dl \in Steers /\ tk \in Steers
      /\ Len(dl) + Len(tk) = Len(a) + Len(b)
      /\ Len(dl) <= Len(cli.took)
      /\ \A i \in 1 .. Len(dl) : dl[i] = i
      /\ \A i \in 1 .. Len(tk) : tk[i] = Len(dl) + i
      /\ Len(cli.took) = Len(dl) \/ Len(cli.took) = Len(dl) + Len(tk)
      /\ cli.pc \in {"up", "named"} => Len(cli.took) = Len(dl)
  <2>1. CASE dl = seat.delivered /\ tk = seat.taken
    BY <1>1, <1>7, <1>8, <2>1, ExecNow, AdapterNow DEF CountInv
  <2>2. CASE dl = Joined(seat.delivered, seat.taken) /\ tk = <<>> /\ Len(cli.took) = Len(seat.delivered) + Len(seat.taken)
    <3>1. dl = Joined(a, b)
      BY <1>7, <2>2
    <3>2. dl \in Steers /\ Len(a) \in Nat /\ Len(b) \in Nat /\ Len(dl) = Len(a) + Len(b)
      BY <1>8, <3>1, SteersJoined
    <3>3. tk \in Steers /\ Len(tk) = 0 /\ 1 .. Len(tk) = {}
      BY <2>2 DEF Steers
    <3>4. Len(cli.took) = Len(dl) /\ Len(dl) \in Nat
      <4>1. PICK x, y \in Nat : x = Len(a) /\ y = Len(b)
        BY <3>2
      <4>2. Len(dl) = x + y
        BY <3>2, <4>1
      <4>3. Len(cli.took) = x + y
        BY <1>7, <2>2, <4>1
      <4> QED BY <4>1, <4>2, <4>3
    <3>5. Len(dl) + Len(tk) = Len(a) + Len(b) /\ Len(dl) <= Len(cli.took)
      BY <3>2, <3>3, <3>4
    <3>6. ASSUME NEW i \in 1 .. Len(dl) PROVE dl[i] = i
      <4>1. \/ i \in 1 .. Len(a) /\ dl[i] = a[i]
            \/ i - Len(a) \in 1 .. Len(b) /\ dl[i] = b[i - Len(a)]
        BY <1>8, <3>1, SteerJoined
      <4>2. CASE i \in 1 .. Len(a) /\ dl[i] = a[i]
        BY <1>7, <4>2, AdapterNow DEF CountInv
      <4>3. CASE i - Len(a) \in 1 .. Len(b) /\ dl[i] = b[i - Len(a)]
        <5>1. PICK k \in Nat : k = Len(a)
          BY <3>2
        <5>2. i - k \in 1 .. Len(seat.taken) /\ dl[i] = seat.taken[i - k] /\ k = Len(seat.delivered)
          BY <1>7, <4>3, <5>1
        <5>3. seat.taken[i - k] = k + (i - k)
          BY <5>2, AdapterNow DEF CountInv
        <5>4. i \in Int
          BY <3>4
        <5> QED BY <5>2, <5>3, <5>4
      <4> QED BY <4>1, <4>2, <4>3
    <3> QED BY <3>2, <3>3, <3>4, <3>5, <3>6
  <2> QED BY <1>5, <2>1, <2>2
<1>10. SeatOK'
  BY <1>5, <1>6, <1>9, AdapterNow DEF SeatOK, SeatPcs
<1>11. RpcOK' /\ CliOK' /\ NativesOK'
  BY <1>1, AdapterNow DEF RpcOK, CliOK, NativesOK
<1>12. PICK m \in Nat : m = Len(pipe') /\ Len(pipe) = m + 1
  BY <1>1, TailNow
<1>13. /\ pipe' \in Seq(Lines) /\ Head(pipe) = pipe[1]
       /\ \A i \in 1 .. m : i + 1 \in 1 .. Len(pipe) /\ pipe'[i] = pipe[i + 1]
       /\ \A j \in 1 .. Len(pipe) : j # 1 => j - 1 \in 1 .. m /\ pipe'[j - 1] = pipe[j]
  BY <1>1, <1>12, TailNow
<1>14. LinesOK'
  <2>1. Len(pipe') <= MaxPipe + 1 /\ (cli'.pc # "dead" => Len(pipe') <= MaxPipe)
    <3>1. m + 1 <= MaxPipe + 1 /\ (cli.pc # "dead" => m + 1 <= MaxPipe)
      BY <1>12, AdapterNow DEF LinesOK
    <3>2. m <= MaxPipe + 1 /\ (cli.pc # "dead" => m <= MaxPipe)
      BY <3>1
    <3> QED BY <1>1, <1>12, <3>2
  <2>2. ASSUME NEW i \in 1 .. Len(pipe')
        PROVE  Shown(pipe'[i]) /\ (pipe'[i].kind = "end" => pipe'[i].what \in TurnStatuses \cup {"line"})
    <3>1. PICK j \in 1 .. Len(pipe) : pipe'[i] = pipe[j]
      BY <1>12, <1>13
    <3>2. (pipe[j].kind = "item" => pipe[j].what \in Patches) /\ (pipe[j].kind = "end" => pipe[j].what \in TurnStatuses \cup {"line"})
      BY AdapterNow DEF LinesOK, Shown
    <3> QED BY <3>1, <3>2 DEF Shown
  <2> QED BY <1>3, <1>13, <2>1, <2>2, AdapterNow DEF LinesOK
<1>15. ~ByRpc' /\ Alive'
  BY <1>1, <1>6, ExecNow DEF ByRpc, Alive
<1>16. PcInv'
  BY <1>1, <1>6, <1>15, ExecNow, AdapterNow DEF PcInv
<1>17. CountInv'
  <2>1. PICK d, t, q, k, said \in Nat : d = Len(seat.delivered) /\ t = Len(seat.taken) /\ q = Len(seat.queue) /\ said = seat.said
                                        /\ d + t + q = said /\ k = Len(cli.took) /\ k <= said
    BY CountsNow
  <2>2. PICK e, u \in Nat : e = Len(dl) /\ u = Len(tk)
    BY <1>9 DEF Steers
  <2>3. e + u = d + t
    BY <1>7, <1>9, <2>1, <2>2
  <2>4. d + t + q = said
    BY <2>1
  <2>5. e + u + q = said
    BY <2>3, <2>4
  <2>6. Len(seat'.delivered) + Len(seat'.taken) + Len(seat'.queue) = seat'.said
    BY <1>6, <2>1, <2>2, <2>5
  <2>7. ASSUME NEW i \in 1 .. Len(seat.queue) PROVE seat.queue[i] = Len(dl) + Len(tk) + i
    <3>1. seat.queue[i] = d + t + i
      BY <2>1, AdapterNow DEF CountInv
    <3>2. seat.queue[i] = e + u + i
      BY <2>3, <3>1
    <3> QED BY <2>2, <3>2
  <2> QED BY <1>1, <1>6, <1>9, <2>6, <2>7, AdapterNow DEF CountInv
<1>18. RpcInv'
  BY <1>15 DEF RpcInv
<1>19. turn => tk = <<>>
  <2>1. CASE link.turn
    BY <1>1, <1>5, <2>1, ExecNow
  <2>2. CASE ~link.turn
    BY <1>5, <2>2
  <2> QED BY <2>1, <2>2
<1>20. /\ pipe[1].kind = "end" => link.turn \/ link.failed
       /\ pipe[1].kind = "turn" => link.ack \/ link.failed
       /\ pipe[1].kind = "end" => cli.ended = "completed"
  <2>1. PICK i \in 1 .. Len(pipe) : i = 1
    BY <1>1, TailNow
  <2>2. /\ pipe[i].kind = "turn" => link.ack \/ link.failed \/ \E j \in 1 .. i - 1 : pipe[j].kind = "thread"
        /\ pipe[i].kind = "end" => link.turn \/ link.failed \/ \E j \in 1 .. i - 1 : pipe[j].kind = "turn"
        /\ pipe[i].kind = "end" => cli.ended = "completed"
    BY <1>1, ExecLineNow
  <2>3. 1 .. i - 1 = {}
    BY <2>1
  <2> QED BY <2>1, <2>2, <2>3
<1>21. done \in {"no", "completed"} /\ (done # "no" => turn \/ failed) /\ (done = "completed" => cli.ended = "completed")
  BY <1>1, <1>2, <1>13, <1>20, ExecNow
<1>22. ExecInv'
  <2>1. ASSUME NEW i \in 1 .. Len(pipe')
        PROVE  /\ pipe'[i].kind = "turn" => /\ ~turn => Len(cli.took) = Len(dl) + Len(tk)
                                            /\ ack \/ failed \/ \E j \in 1 .. i - 1 : pipe'[j].kind = "thread"
               /\ pipe'[i].kind = "end" => turn \/ failed \/ \E j \in 1 .. i - 1 : pipe'[j].kind = "turn"
               /\ pipe'[i].kind = "end" => pipe'[i].what = "line"
               /\ pipe'[i].kind = "close" => cli.pc = "dead"
    <3>1. PICK k \in 1 .. Len(pipe) : k = i + 1 /\ pipe'[i] = pipe[k]
      BY <1>12, <1>13
    <3>2. /\ pipe[k].kind = "turn" => /\ ~link.turn => Len(cli.took) = Len(seat.delivered) + Len(seat.taken)
                                      /\ link.ack \/ link.failed \/ \E j \in 1 .. k - 1 : pipe[j].kind = "thread"
          /\ pipe[k].kind = "end" => link.turn \/ link.failed \/ \E j \in 1 .. k - 1 : pipe[j].kind = "turn"
          /\ pipe[k].kind = "end" => pipe[k].what = "line"
          /\ pipe[k].kind = "close" => cli.pc = "dead"
      BY <1>1, ExecLineNow
    <3>3. ASSUME NEW j \in 1 .. k - 1 PROVE j = 1 \/ (j - 1 \in 1 .. i - 1 /\ pipe'[j - 1] = pipe[j])
      <4>1. i \in Nat /\ k - 1 = i /\ j \in Nat /\ i <= m /\ j <= i /\ j >= 1
        BY <1>12, <3>1, <3>3
      <4>2. j \in 1 .. Len(pipe)
        BY <1>12, <4>1
      <4>3. j # 1 => j - 1 \in 1 .. i - 1
        BY <4>1
      <4> QED BY <1>13, <4>2, <4>3
    <3>4. pipe[k].kind = "turn" /\ ~turn => Len(cli.took) = Len(dl) + Len(tk)
      <4>1. CASE dl = seat.delivered /\ tk = seat.taken
        BY <1>2, <3>2, <4>1
      <4>2. CASE tk = <<>> /\ Len(cli.took) = Len(seat.delivered) + Len(seat.taken)
        BY <1>7, <1>9, <4>2
      <4> QED BY <1>5, <4>1, <4>2
    <3>5. pipe[k].kind = "turn" => ack \/ failed \/ \E j \in 1 .. i - 1 : pipe'[j].kind = "thread"
      <4>1. CASE link.ack \/ link.failed
        BY <1>2, <4>1
      <4>2. ASSUME NEW j \in 1 .. k - 1, pipe[j].kind = "thread" PROVE ack \/ failed \/ \E h \in 1 .. i - 1 : pipe'[h].kind = "thread"
        <5>1. CASE j = 1
          BY <1>2, <1>13, <4>2, <5>1
        <5>2. CASE j - 1 \in 1 .. i - 1 /\ pipe'[j - 1] = pipe[j]
          BY <4>2, <5>2
        <5> QED BY <3>3, <5>1, <5>2
      <4> QED BY <3>2, <4>1, <4>2
    <3>6. pipe[k].kind = "end" => turn \/ failed \/ \E j \in 1 .. i - 1 : pipe'[j].kind = "turn"
      <4>1. CASE link.turn \/ link.failed
        BY <1>2, <4>1
      <4>2. ASSUME NEW j \in 1 .. k - 1, pipe[j].kind = "turn" PROVE turn \/ failed \/ \E h \in 1 .. i - 1 : pipe'[h].kind = "turn"
        <5>1. CASE j = 1
          BY <1>2, <1>13, <4>2, <5>1
        <5>2. CASE j - 1 \in 1 .. i - 1 /\ pipe'[j - 1] = pipe[j]
          BY <4>2, <5>2
        <5> QED BY <3>3, <5>1, <5>2
      <4> QED BY <3>2, <4>1, <4>2
    <3> QED BY <3>1, <3>2, <3>4, <3>5, <3>6
  <2>2. cli.pc = "named" => ack \/ failed \/ \E j \in 1 .. Len(pipe') : pipe'[j].kind = "thread"
    <3>1. ASSUME NEW j \in 1 .. Len(pipe), pipe[j].kind = "thread" PROVE ack \/ failed \/ \E h \in 1 .. Len(pipe') : pipe'[h].kind = "thread"
      <4>1. CASE j = 1
        BY <1>2, <1>13, <3>1, <4>1
      <4>2. CASE j # 1
        BY <1>12, <1>13, <3>1, <4>2
      <4> QED BY <4>1, <4>2
    <3> QED BY <1>1, <1>2, <3>1, ExecNow
  <2>3. cli.pc = "turning" => turn \/ failed \/ \E j \in 1 .. Len(pipe') : pipe'[j].kind = "turn"
    <3>1. ASSUME NEW j \in 1 .. Len(pipe), pipe[j].kind = "turn" PROVE turn \/ failed \/ \E h \in 1 .. Len(pipe') : pipe'[h].kind = "turn"
      <4>1. CASE j = 1
        BY <1>2, <1>13, <3>1, <4>1
      <4>2. CASE j # 1
        BY <1>12, <1>13, <3>1, <4>2
      <4> QED BY <4>1, <4>2
    <3> QED BY <1>1, <1>2, <3>1, ExecNow
  <2>4. /\ Len(cli'.took) = Len(seat'.delivered) \/ Len(cli'.took) = Len(seat'.delivered) + Len(seat'.taken)
        /\ cli'.pc \in {"up", "named"} => Len(cli'.took) = Len(seat'.delivered)
        /\ link'.turn => seat'.taken = <<>> /\ link'.ack
        /\ link'.done \in {"no", "completed"} /\ (link'.done # "no" => link'.turn \/ link'.failed)
    BY <1>1, <1>2, <1>3, <1>6, <1>9, <1>19, <1>21
  <2> QED BY <1>1, <1>3, <1>6, <2>1, <2>2, <2>3, <2>4 DEF ExecInv
<1>23. EndInv'
  <2>1. \A i \in 1 .. Len(pipe') : pipe'[i].kind = "end" => cli.ended = "completed"
    <3> SUFFICES ASSUME NEW i \in 1 .. Len(pipe'), pipe'[i].kind = "end" PROVE cli.ended = "completed"
      OBVIOUS
    <3>1. PICK k \in 1 .. Len(pipe) : pipe'[i] = pipe[k]
      BY <1>12, <1>13
    <3> QED BY <1>1, <3>1, ExecLineNow
  <2> QED BY <1>1, <1>3, <1>6, <1>15, <1>21, <2>1, ExecNow, AdapterNow DEF EndInv
<1>24. AskInv'
  BY <1>1, ExecNow, AdapterNow DEF AskInv
<1> QED BY <1>4, <1>10, <1>11, <1>14, <1>16, <1>17, <1>18, <1>22, <1>23, <1>24 DEF AdapterInv, AdapterShapes

(* The process is gone and the turn ends, or its edits are next.           *)
LEMMA ExecOver ==
  ASSUME AdapterInv, seat.pc = "executing", NEW pc \in {"over", "applying"}, NEW r \in Results,
         seat' = [seat EXCEPT !.pc = pc, !.result = r], pipe' = <<>>, UNCHANGED <<rpc, link, cli, native, edits>>,
         pc = "applying" => seat.kind = "exec" /\ cli.ended = "completed" /\ r = seat.result,
         r = "completed" => seat.kind = "claude"
  PROVE  AdapterInv'
<1> USE AdapterConstants
<1>1. seat' = [pc |-> pc, kind |-> seat.kind, cancelled |-> seat.cancelled, said |-> seat.said,
               queue |-> seat.queue,
               delivered |-> seat.delivered, taken |-> seat.taken, follow |-> seat.follow, writing |-> seat.writing, result |-> r]
  BY AdapterNow DEF SeatOK
<1>2. /\ seat'.pc = pc /\ seat'.kind = seat.kind /\ seat'.cancelled = seat.cancelled /\ seat'.said = seat.said /\ seat'.queue = seat.queue
      /\ seat'.delivered = seat.delivered /\ seat'.taken = seat.taken /\ seat'.follow = seat.follow /\ seat'.writing = seat.writing
      /\ seat'.result = r
  BY <1>1
<1>3. Len(pipe') = 0 /\ 1 .. Len(pipe') = {} /\ pipe' \in Seq(Lines)
  OBVIOUS
<1>4. SeatOK'
  BY <1>1, <1>2, AdapterNow DEF SeatOK, SeatPcs, Results
<1>5. RpcOK' /\ LinkOK' /\ CliOK' /\ NativesOK'
  BY AdapterNow DEF RpcOK, LinkOK, CliOK, NativesOK
<1>6. LinesOK'
  BY <1>3, AdapterNow DEF LinesOK
<1>7. ~ByRpc /\ seat.kind # "none" /\ seat.writing = "no"
  BY ExecNow, AdapterNow DEF PcInv
<1>8. PcInv'
  BY <1>2, <1>7, AdapterNow DEF PcInv, Alive, ByRpc
<1>9. CountInv'
  BY <1>2, CountKept
<1>10. RpcInv' /\ ExecInv'
  BY <1>2, <1>7 DEF RpcInv, ExecInv, ByRpc
<1>11. EndInv'
  BY <1>2, <1>3, <1>7, AdapterNow DEF EndInv, ByRpc
<1>12. AskInv'
  BY <1>7, AdapterNow DEF AskInv
<1> QED BY <1>4, <1>5, <1>6, <1>8, <1>9, <1>10, <1>11, <1>12 DEF AdapterInv, AdapterShapes

(* A new process gets what was steered meanwhile.                          *)
FollowedUp ==
  /\ seat' = [seat EXCEPT !.taken = @ \o seat.queue, !.queue = <<>>, !.follow = @ + 1]
  /\ link' = [link EXCEPT !.turn = FALSE, !.ack = FALSE, !.done = "no"]
  /\ cli' = [cli EXCEPT !.pc = "up", !.ended = "no"]

LEMMA ExecFollows ==
  ASSUME AdapterInv, seat.pc = "executing", seat.kind = "exec", seat.taken = <<>>, seat.follow < MaxFollow,
         Len(cli.took) = Len(seat.delivered), FollowedUp, pipe' = <<>>, UNCHANGED <<rpc, native, edits>>
  PROVE  AdapterInv'
<1> USE AdapterConstants
<1>1. PICK tk, f : tk = seat.queue /\ f = seat.follow + 1
  OBVIOUS
<1>2. seat.queue \in Steers /\ seat.follow \in 0 .. MaxFollow /\ f \in 0 .. MaxFollow /\ tk \in Steers /\ <<>> \in Steers
  BY <1>1, AdapterNow DEF SeatOK, Steers
<1>3. seat.taken \o seat.queue = tk
  BY <1>1, <1>2 DEF Steers
<1>4. seat' = [seat EXCEPT !.taken = tk, !.queue = <<>>, !.follow = f]
  BY <1>1, <1>3 DEF FollowedUp
<1>5. seat' = [pc |-> "executing", kind |-> seat.kind, cancelled |-> seat.cancelled, said |-> seat.said,
               queue |-> <<>>,
               delivered |-> seat.delivered, taken |-> tk, follow |-> f, writing |-> seat.writing, result |-> seat.result]
  <2>1. PICK none : none = <<>>
    OBVIOUS
  <2>2. seat' = [seat EXCEPT !.taken = tk, !.queue = none, !.follow = f]
    BY <1>4, <2>1
  <2>3. seat' = [pc |-> "executing", kind |-> seat.kind, cancelled |-> seat.cancelled, said |-> seat.said,
                 queue |-> none,
                 delivered |-> seat.delivered, taken |-> tk, follow |-> f, writing |-> seat.writing, result |-> seat.result]
    BY <2>2, AdapterNow DEF SeatOK
  <2> QED BY <2>1, <2>3
<1>6. /\ seat'.pc = "executing" /\ seat'.kind = seat.kind /\ seat'.cancelled = seat.cancelled /\ seat'.said = seat.said /\ seat'.queue = <<>>
      /\ seat'.delivered = seat.delivered /\ seat'.taken = tk /\ seat'.follow = f /\ seat'.writing = seat.writing
      /\ seat'.result = seat.result
  <2>1. PICK none : none = <<>>
    OBVIOUS
  <2>2. seat' = [pc |-> "executing", kind |-> seat.kind, cancelled |-> seat.cancelled, said |-> seat.said,
                 queue |-> none,
                 delivered |-> seat.delivered, taken |-> tk, follow |-> f, writing |-> seat.writing, result |-> seat.result]
    BY <1>5, <2>1
  <2>3. seat'.pc = "executing" /\ seat'.kind = seat.kind /\ seat'.cancelled = seat.cancelled /\ seat'.said = seat.said
    BY <2>2
  <2>4. seat'.queue = none /\ seat'.taken = tk
    BY <2>2
  <2>5. seat'.delivered = seat.delivered /\ seat'.writing = seat.writing /\ seat'.result = seat.result
    BY <2>2
  <2>6. seat'.follow = f
    BY <2>2
  <2> QED BY <2>1, <2>3, <2>4, <2>5, <2>6
<1>7. link' = [turn |-> FALSE, stopping |-> link.stopping, done |-> "no", early |-> link.early, chain |-> link.chain,
               step |-> link.step, item |-> link.item, work |-> link.work, ack |-> FALSE, failed |-> link.failed, proposed |-> link.proposed]
  BY AdapterNow DEF FollowedUp, LinkOK
<1>8. /\ link'.turn = FALSE /\ link'.done = "no" /\ link'.early = link.early /\ link'.chain = link.chain /\ link'.ack = FALSE
      /\ link'.stopping = link.stopping /\ link'.step = link.step /\ link'.item = link.item /\ link'.failed = link.failed
  BY <1>7
<1>9. cli' = [pc |-> "up", item |-> cli.item, took |-> cli.took, ended |-> "no"]
  BY AdapterNow DEF FollowedUp, CliOK
<1>10. cli'.pc = "up" /\ cli'.took = cli.took /\ cli'.ended = "no"
  BY <1>9
<1>11. Len(pipe') = 0 /\ 1 .. Len(pipe') = {} /\ pipe' \in Seq(Lines)
  OBVIOUS
<1>12. SeatOK'
  BY <1>2, <1>5, <1>6, AdapterNow DEF SeatOK, SeatPcs
<1>13. RpcOK' /\ NativesOK'
  BY AdapterNow DEF RpcOK, NativesOK
<1>14. LinkOK'
  BY <1>7, <1>8, AdapterNow DEF LinkOK
<1>15. CliOK'
  BY <1>9, <1>10, AdapterNow DEF CliOK, CliPcs
<1>16. LinesOK'
  BY <1>8, <1>11, AdapterNow DEF LinesOK
<1>17. ~ByRpc /\ ~ByRpc' /\ seat.kind # "none" /\ seat.writing = "no" /\ link.early = <<>>
  BY <1>6, ExecNow, AdapterNow DEF PcInv, ByRpc
<1>18. PcInv'
  BY <1>6, <1>17, AdapterNow DEF PcInv, Alive
<1>19. CountInv'
  <2>1. PICK d, t, q, k, said \in Nat : d = Len(seat.delivered) /\ t = Len(seat.taken) /\ q = Len(seat.queue) /\ said = seat.said
                                        /\ d + t + q = said /\ k = Len(cli.took) /\ k <= said
    BY CountsNow
  <2>2. t = 0
    BY <2>1
  <2>a. d + t + q = said
    BY <2>1
  <2>3. d + q + 0 = said
    BY <2>2, <2>a
  <2>4. Len(seat'.delivered) = d /\ Len(seat'.taken) = q /\ Len(seat'.queue) = 0 /\ 1 .. Len(seat'.queue) = {}
    BY <1>1, <1>6, <2>1
  <2>5. Len(seat'.delivered) + Len(seat'.taken) + Len(seat'.queue) = seat'.said
    BY <1>6, <2>1, <2>3, <2>4
  <2>6. ASSUME NEW i \in 1 .. Len(tk) PROVE tk[i] = Len(seat.delivered) + i
    <3>1. seat.queue[i] = Len(seat.delivered) + Len(seat.taken) + i
      BY <1>1, AdapterNow DEF CountInv
    <3>2. seat.queue[i] = d + t + i
      BY <2>1, <3>1
    <3>3. i \in Int
      BY <1>1, AdapterNow
    <3>4. d + t + i = d + i
      BY <2>2, <3>3
    <3> QED BY <1>1, <2>1, <3>2, <3>4
  <2> QED BY <1>6, <1>10, <2>4, <2>5, <2>6, AdapterNow DEF CountInv
<1>20. RpcInv'
  BY <1>17 DEF RpcInv
<1>21. ExecInv'
  BY <1>6, <1>8, <1>10, <1>11 DEF ExecInv
<1>22. EndInv'
  <2>1. 1 .. Len(link'.early) = {}
    BY <1>8, <1>17
  <2>2. seat.result = "completed" => seat.kind = "claude"
    BY ExecNow
  <2> QED BY <1>6, <1>8, <1>10, <1>11, <1>17, <2>1, <2>2 DEF EndInv
<1>23. AskInv'
  BY <1>17, AdapterNow DEF AskInv
<1> QED BY <1>12, <1>13, <1>14, <1>15, <1>16, <1>18, <1>19, <1>20, <1>21, <1>22, <1>23 DEF AdapterInv, AdapterShapes

LEMMA ExecClosesInv ==
  ASSUME AdapterInv, ExecCloses
  PROVE  AdapterInv'
<1>1. seat.pc = "executing" /\ pipe' = <<>> /\ UNCHANGED <<rpc, native, edits>>
  BY DEF ExecCloses
<1>2. ASSUME NEW r \in {"interrupted", "failed"}, seat' = [seat EXCEPT !.pc = "over", !.result = r], UNCHANGED <<cli, link>>
      PROVE  AdapterInv'
  BY <1>1, <1>2, ExecOver DEF Results
<1>3. ASSUME seat.kind = "claude", seat' = [seat EXCEPT !.pc = "over", !.result = "completed"], UNCHANGED <<cli, link>>
      PROVE  AdapterInv'
  BY <1>1, <1>3, ExecOver DEF Results
<1>4. ASSUME seat.kind = "exec", ~link.failed, link.done # "no", seat.follow < MaxFollow, FollowedUp
      PROVE  AdapterInv'
  <2>1. seat.taken = <<>>
    BY <1>1, <1>4, ExecNow
  <2>2. PICK d, k \in Nat : d = Len(seat.delivered) /\ k = Len(cli.took)
    BY AdapterNow
  <2>3. Len(seat.taken) = 0
    BY <2>1
  <2>4. d + 0 = d
    BY <2>2
  <2>5. k = d \/ k = d + 0
    BY <1>1, <2>2, <2>3, ExecNow
  <2>6. Len(cli.took) = Len(seat.delivered)
    BY <2>2, <2>4, <2>5
  <2> QED BY <1>1, <1>4, <2>1, <2>6, ExecFollows
<1>5. ASSUME seat.kind = "exec", ~link.failed, link.done # "no", seat' = [seat EXCEPT !.pc = "applying"], UNCHANGED <<cli, link>>
      PROVE  AdapterInv'
  <2>1. link.done = "completed" /\ cli.ended = "completed" /\ seat.result # "completed"
    BY <1>1, <1>5, ExecNow
  <2>2. PICK r \in Results : r = seat.result
    BY AdapterNow DEF SeatOK
  <2>3. seat' = [seat EXCEPT !.pc = "applying", !.result = r]
    BY <1>5, <2>2, AdapterNow DEF SeatOK
  <2> QED BY <1>1, <1>5, <2>1, <2>2, <2>3, ExecOver
<1>6. CASE seat.cancelled
  BY <1>2, <1>6 DEF ExecCloses
<1>7. CASE ~seat.cancelled
  BY <1>2, <1>3, <1>4, <1>5, <1>7 DEF ExecCloses, FollowedUp
<1> QED BY <1>6, <1>7

(* Every step keeps the adapter's invariant.                               *)
LEMMA AdapterStep ==
  ASSUME AdapterInv, [AdapterNext]_adapterVars
  PROVE  AdapterInv'
<1> USE AdapterConstants
<1>1. CASE UNCHANGED adapterVars
  <2>1. UNCHANGED <<seat, rpc, link, cli, pipe, native, edits>>
    BY <1>1 DEF adapterVars
  <2>2. SeatOK' /\ RpcOK' /\ LinkOK' /\ CliOK' /\ NativesOK' /\ LinesOK'
    BY <2>1, AdapterNow DEF SeatOK, RpcOK, LinkOK, CliOK, NativesOK, LinesOK
  <2>3. PcInv' = PcInv
    BY <2>1 DEF PcInv, Alive, ByRpc
  <2>a. CountInv' = CountInv /\ AskInv' = AskInv
    BY <2>1 DEF CountInv, AskInv, Alive, ByRpc
  <2>b. RpcInv' = RpcInv
    BY <2>1 DEF RpcInv, Alive, ByRpc
  <2>c. EndInv' = EndInv
    BY <2>1 DEF EndInv, ByRpc
  <2>4. ExecInv' = ExecInv
    BY <2>1 DEF ExecInv
  <2> QED BY <2>2, <2>3, <2>a, <2>b, <2>c, <2>4, AdapterNow DEF AdapterInv, AdapterShapes
<1>2. ASSUME NEW kind \in Adapters, TurnBegins(kind) PROVE AdapterInv'
  BY <1>2, TurnBeginsInv
<1>3. CASE RunFails \/ TurnJoins \/ TurnEnds \/ SteerGoes \/ HostToolRuns \/ EditApplies
  BY <1>3, RunFailsInv, TurnJoinsInv, TurnEndsInv, SteerGoesInv, HostToolRunsInv, EditAppliesInv
<1>4. CASE PersonSteers \/ Interrupts \/ LineRead \/ ThreadStored \/ TimesOut \/ ExecLineRead \/ ExecCloses
  BY <1>4, PersonSteersInv, InterruptsInv, LineReadInv, ThreadStoredInv, TimesOutInv, ExecLineReadInv, ExecClosesInv
<1>5. ASSUME NEW verdict \in {"accept", "decline", "cancel"}, WriteAnswered(verdict) PROVE AdapterInv'
  BY <1>5, WriteAnsweredInv
<1>6. ASSUME NEW k \in 1 .. MaxNative, NEW ok \in BOOLEAN, NativeAnswered(k, ok) PROVE AdapterInv'
  BY <1>6, NativeAnsweredInv
<1>7. ASSUME NEW k \in 1 .. MaxNative, NEW p \in Patches \cup {NoPatch}, ProviderAsks(k, p) PROVE AdapterInv'
  BY <1>7, ProviderSaysInv
<1>8. ASSUME NEW c \in RpcCalls, NEW ok \in BOOLEAN, ProviderReplies(c, ok) PROVE AdapterInv'
  BY <1>8, ProviderRepliesInv
<1>9. CASE ProviderTurns \/ ProviderCalls
  BY <1>9, ProviderTurnsInv, ProviderSaysInv
<1>10. ASSUME NEW p \in Patches, ProviderShows(p) PROVE AdapterInv'
  BY <1>10, ProviderSaysInv
<1>11. ASSUME NEW status \in {"completed", "failed", "interrupted"}, ProviderEnds(status) PROVE AdapterInv'
  BY <1>11, ProviderEndsInv
<1>12. ASSUME NEW kind \in {"thread", "turn", "end", "failed"}, ExecPrints(kind, 0) PROVE AdapterInv'
  BY <1>12, ExecPrintsInv
<1>13. ASSUME NEW n \in 0 .. MaxTools, ExecPrints("said", n) PROVE AdapterInv'
  BY <1>13, ExecPrintsInv
<1>14. ASSUME NEW exit \in {"ok", "failed"}, ProviderCloses(exit) PROVE AdapterInv'
  BY <1>14, ProviderClosesInv
<1> QED
  BY <1>1, <1>2, <1>3, <1>4, <1>5, <1>6, <1>7, <1>8, <1>9, <1>10, <1>11, <1>12, <1>13, <1>14 DEF AdapterNext

(* A sequence of steers has members among the steers.                      *)
LEMMA SteersSet ==
  ASSUME NEW q \in Steers
  PROVE  ToSet(q) \subseteq 1 .. MaxTold
<1>1. q \in Seq(1 .. MaxTold)
  BY DEF Steers
<1>2. ASSUME NEW i \in DOMAIN q PROVE q[i] \in 1 .. MaxTold
  <2>1. i \in 1 .. Len(q)
    BY <1>1, LenProperties
  <2> QED BY <1>1, <2>1, ElementOfSeq
<1> QED BY <1>2 DEF ToSet

LEMMA AdapterTypes == AdapterInv => AdapterTypeOK
<1> SUFFICES ASSUME AdapterInv PROVE AdapterTypeOK
  OBVIOUS
<1>1. /\ seat.pc \in {"idle", "init", "config", "thread", "saving", "account", "turn", "running", "joining", "executing", "applying", "over"}
      /\ seat.result \in {"none", "completed", "failed", "interrupted"} /\ seat.writing \in {"no", "asking"}
      /\ seat.said \in 0..MaxTold /\ seat.follow \in 0..MaxFollow
  BY AdapterNow DEF SeatOK, SeatPcs, Results
<1>2. ASSUME NEW q \in {seat.queue, seat.delivered, seat.taken, link.chain, cli.took} PROVE ToSet(q) \subseteq 1..MaxTold
  <2>1. q \in Steers
    BY <1>2, AdapterNow DEF SeatOK, LinkOK, CliOK
  <2> QED BY <2>1, SteersSet
<1>3. /\ Len(link.early) <= MaxEarly /\ rpc.error \in BOOLEAN /\ rpc.pending \subseteq RpcCalls /\ Len(pipe) <= MaxPipe + 1
      /\ link.step \in {"none", "checking", "sent"} /\ link.item \in Patches \cup {NoPatch}
  BY AdapterNow DEF RpcOK, LinkOK, LinesOK
<1>4. /\ cli.pc \in {"off", "up", "named", "turning", "ended", "dead"}
      /\ \A k \in 1..MaxNative : native[k].state \in {"none", "held", "open", "accepted", "declined", "closed"}
  BY AdapterNow DEF CliOK, CliPcs, NativesOK, AskStates
<1> QED BY <1>1, <1>2, <1>3, <1>4 DEF AdapterTypeOK

(* Three sequences that count on from one another are one that counts.     *)
Counted(a, b, c, n) ==
  /\ Len(a) + Len(b) + Len(c) = n
  /\ \A i \in 1 .. Len(a) : a[i] = i
  /\ \A i \in 1 .. Len(b) : b[i] = Len(a) + i
  /\ \A i \in 1 .. Len(c) : c[i] = Len(a) + Len(b) + i

LEMMA CountedSteers ==
  ASSUME NEW a \in Steers, NEW b \in Steers, NEW c \in Steers, NEW n \in Nat, Counted(a, b, c, n)
  PROVE  a \o b \o c = [i \in 1 .. n |-> i]
<1>1. PICK x, y, z \in Nat : x = Len(a) /\ y = Len(b) /\ z = Len(c)
  BY DEF Steers
<1>2. x + y + z = n
  BY <1>1 DEF Counted
<1>3. PICK d : d = Joined(a, b)
  OBVIOUS
<1>4. d \in Steers /\ Len(d) = Len(a) + Len(b)
  BY <1>3, SteersJoined
<1>5. Len(d) = x + y
  BY <1>1, <1>4
<1>6. PICK e : e = Joined(d, c)
  OBVIOUS
<1>7. e \in Steers /\ Len(e) = Len(d) + Len(c)
  BY <1>4, <1>6, SteersJoined
<1>8. Len(e) = x + y + z
  BY <1>1, <1>5, <1>7
<1>9. ASSUME NEW i \in 1 .. Len(d) PROVE d[i] = i
  <2>1. i \in Int
    BY <1>5
  <2>2. \/ i \in 1 .. Len(a) /\ d[i] = a[i]
        \/ i - Len(a) \in 1 .. Len(b) /\ d[i] = b[i - Len(a)]
    BY <1>3, SteerJoined
  <2>a. CASE i \in 1 .. Len(a) /\ d[i] = a[i]
    BY <2>a DEF Counted
  <2>3. CASE i - Len(a) \in 1 .. Len(b) /\ d[i] = b[i - Len(a)]
    <3>1. b[i - x] = x + (i - x)
      BY <1>1, <2>3 DEF Counted
    <3>2. x + (i - x) = i
      BY <2>1
    <3> QED BY <1>1, <2>3, <3>1, <3>2
  <2> QED BY <2>2, <2>3, <2>a
<1>10. ASSUME NEW i \in 1 .. Len(e) PROVE e[i] = i
  <2>1. i \in Int
    BY <1>8
  <2>2. \/ i \in 1 .. Len(d) /\ e[i] = d[i]
        \/ i - Len(d) \in 1 .. Len(c) /\ e[i] = c[i - Len(d)]
    <3>1. d \in Steers
      BY <1>4
    <3> QED BY <1>6, <3>1, SteerJoined
  <2>3. CASE i - Len(d) \in 1 .. Len(c) /\ e[i] = c[i - Len(d)]
    <3>1. PICK w \in Int : w = i - (x + y)
      BY <2>1
    <3>2. w \in 1 .. Len(c) /\ e[i] = c[w]
      BY <1>5, <2>3, <3>1
    <3>3. c[w] = x + y + w
      BY <1>1, <3>2 DEF Counted
    <3>4. x + y + w = i
      BY <2>1, <3>1
    <3> QED BY <3>2, <3>3, <3>4
  <2> QED BY <1>9, <2>2, <2>3
<1>11. Len(e) = n /\ e \in Seq(1 .. MaxTold)
  BY <1>2, <1>7, <1>8 DEF Steers
<1>12. e = [i \in 1 .. n |-> e[i]]
  BY <1>11
<1>13. e = [i \in 1 .. n |-> i]
  BY <1>10, <1>11, <1>12
<1> QED BY <1>3, <1>6, <1>13 DEF Joined

LEMMA ReportsTrue == AdapterInv => ReportsAreTrue
<1> SUFFICES ASSUME AdapterInv PROVE ReportsAreTrue
  OBVIOUS
<1>1. seat.delivered \o seat.taken \o seat.queue = [i \in 1..seat.said |-> i]
  <2>1. PICK a, b, c \in Steers : a = seat.delivered /\ b = seat.taken /\ c = seat.queue
    BY AdapterNow DEF SeatOK
  <2>2. PICK n \in Nat : n = seat.said
    BY CountsNow
  <2>3. Len(a) + Len(b) + Len(c) = n
    BY <2>1, <2>2, AdapterNow DEF CountInv
  <2>4. \A i \in 1 .. Len(a) : a[i] = i
    BY <2>1, AdapterNow DEF CountInv
  <2>5. \A i \in 1 .. Len(b) : b[i] = Len(a) + i
    BY <2>1, AdapterNow DEF CountInv
  <2>6. \A i \in 1 .. Len(c) : c[i] = Len(a) + Len(b) + i
    BY <2>1, AdapterNow DEF CountInv
  <2>7. a \o b \o c = [i \in 1 .. n |-> i]
    <3>1. Counted(a, b, c, n)
      BY <2>3, <2>4, <2>5, <2>6 DEF Counted
    <3> QED BY <3>1, CountedSteers
  <2> QED BY <2>1, <2>2, <2>7
<1>2. IsPrefix(seat.delivered, cli.took)
  <2>1. PICK s, t \in Steers : s = seat.delivered /\ t = cli.took
    BY AdapterNow DEF SeatOK, CliOK
  <2>2. s \in Seq(1 .. MaxTold) /\ t \in Seq(1 .. MaxTold)
    BY <2>1 DEF Steers
  <2>3. PICK m, n \in Nat : m = Len(s) /\ n = Len(t) /\ m <= n
    BY <2>1, <2>2, AdapterNow DEF CountInv
  <2>4. \A i \in 1 .. m : s[i] = i /\ t[i] = i
    BY <2>1, <2>3, AdapterNow DEF CountInv
  <2>5. SubSeq(s, 1, m) = [i \in 1 .. m |-> s[i]] /\ SubSeq(t, 1, m) = [i \in 1 .. m |-> t[i]]
    BY <2>2, <2>3
  <2>6. SubSeq(s, 1, m) = SubSeq(t, 1, m)
    BY <2>4, <2>5
  <2> QED BY <2>1, <2>3, <2>6 DEF IsPrefix
<1>3. /\ seat.result = "completed" /\ seat.kind # "claude" => cli.ended = "completed"
      /\ \A e \in edits : ~e.after
  BY AdapterNow DEF EndInv, AskInv
<1> QED BY <1>1, <1>2, <1>3 DEF ReportsAreTrue

(* What the host says of a provider's turn is so, for any adapter, any     *)
(* number of steers and of follow-ups, any bound on what is kept or read   *)
(* late, and whenever the provider refuses, stays silent or dies: a steer  *)
(* is delivered once and in order, and only if the provider took it; a     *)
(* turn of Codex is completed only if the provider completed it; nothing   *)
(* is written or accepted after a stop: ReportsAreTrue.                    *)
THEOREM ReportsAreTrueHolds == Spec => []ReportsAreTrue
<1>1. Init => AdapterInv
  BY AdapterInvInit DEF Init
<1>2. AdapterInv /\ [Next]_<<part, appVars, adapterVars, deskVars, loginVars, mailVars, recVars, pairVars>> => AdapterInv'
  <2> SUFFICES ASSUME AdapterInv, [Next]_<<part, appVars, adapterVars, deskVars, loginVars, mailVars, recVars, pairVars>>
               PROVE  AdapterInv'
    OBVIOUS
  <2>1. [AdapterNext]_adapterVars
    BY DEF Next
  <2> QED BY <2>1, AdapterStep
<1>3. AdapterInv => ReportsAreTrue
  BY ReportsTrue
<1> QED BY <1>1, <1>2, <1>3, PTL DEF Spec

-----------------------------------------------------------------------------
(* HostedLogin: one session for each sign-in.                              *)

LEMMA LoginConstants ==
  /\ MaxTokens \in Nat /\ MaxPolls \in Nat /\ NoPerson \notin People
  /\ NoTicket \notin Tickets /\ NoTicket \notin Logins /\ Tickets \cap Logins = {}
  BY LoginAssumption

(* What is kept of a call, and what the desktop waits for.                 *)
LoginCalls == [pc : {"idle", "sent", "back"}, of : Tickets \cup {NoTicket}, k : Nat,
               reply : {"none", "error", "pending", "token", "yes", "no"}]
LoginShapes ==
  /\ ticket \in [Tickets -> [pc : {"none", "open", "gone"}, user : People \cup {NoPerson}]]
  /\ token \in [TokenIds -> [pc : {"none", "live", "dead"}, user : People \cup {NoPerson},
                             via : Tickets \cup Logins \cup {NoTicket}]]
  /\ login \in [Logins -> {"none", "open", "asking", "used"}]
  /\ approving \subseteq People \X Tickets /\ sockets \subseteq TokenIds /\ left \subseteq TokenIds
  /\ account \in [pending : Tickets \cup {NoTicket}, saved : 0 .. MaxTokens,
                  start : LoginCalls, check : LoginCalls, leave : LoginCalls]
  /\ polls \in [1 .. MaxPolls -> LoginCalls]

(* A session is traced back to the sign-in that made it, which is used up. *)
TokenInv ==
  /\ \A k \in TokenIds :
       /\ token[k].pc = "none" <=> token[k].via = NoTicket
       /\ token[k].via \in Tickets =>
            ticket[token[k].via].pc = "gone" /\ <<token[k].user, token[k].via>> \in typed
       /\ token[k].via \in Logins => login[token[k].via] = "used"
  /\ \A j, k \in TokenIds : j # k /\ token[j].pc # "none" => token[j].via # token[k].via

(* Whom a ticket is approved for typed its code.                           *)
TicketInv == \A t \in Tickets : ticket[t].user # NoPerson => <<ticket[t].user, t>> \in typed

(* A session's number, in an answer, on disk or in a call, is that of one  *)
(* made for a ticket.                                                      *)
OfTicket(k) == k \in TokenIds /\ token[k].via \in Tickets
CallInv ==
  /\ account.saved # 0 => OfTicket(account.saved)
  /\ account.leave.pc # "idle" => OfTicket(account.leave.k)
  /\ account.start.pc # "idle" => account.start.of \in Tickets
  /\ \A i \in 1 .. MaxPolls : /\ polls[i].pc # "idle" => polls[i].of \in Tickets
                              /\ polls[i].reply = "token" => OfTicket(polls[i].k)
LeftInv == \A k \in left : token[k].pc = "dead" /\ k \notin sockets

LoginInv == LoginShapes /\ TokenInv /\ TicketInv /\ CallInv /\ LeftInv

LEMMA LoginInvInit == LoginInit => LoginInv
<1> SUFFICES ASSUME LoginInit PROVE LoginInv
  OBVIOUS
<1> USE LoginConstants DEF LoginInit
<1>1. LoginShapes
  BY DEF LoginShapes, LoginCalls, NoCall, TokenIds
<1>2. TokenInv
  BY DEF TokenInv, TokenIds
<1>3. TicketInv /\ CallInv /\ LeftInv
  BY DEF TicketInv, CallInv, LeftInv, NoCall
<1> QED BY <1>1, <1>2, <1>3 DEF LoginInv

LEMMA NewTokenIs ==
  ASSUME FreeTokens # {}
  PROVE  NewToken \in TokenIds /\ token[NewToken].pc = "none"
<1>1. FreeTokens \subseteq Nat
  BY LoginConstants DEF FreeTokens, TokenIds
<1>2. \E m \in FreeTokens : \A k \in FreeTokens : m <= k
  BY <1>1, Least
<1>3. NewToken \in FreeTokens
  BY <1>2 DEF NewToken
<1> QED BY <1>3 DEF FreeTokens

(* A new session for a sign-in that made none yet.                         *)
LEMMA IssuedInv ==
  ASSUME LoginShapes, TokenInv, LeftInv, FreeTokens # {}, NEW p \in People, NEW via \in Tickets \cup Logins,
         Issued(p, via), \A k \in TokenIds : token[k].via # via, sockets' = sockets, left' = left,
         via \in Tickets => /\ ticket' = [ticket EXCEPT ![via].pc = "gone"] /\ login' = login /\ typed' = typed
                            /\ <<p, via>> \in typed,
         via \in Logins => ticket' = ticket /\ login' = [login EXCEPT ![via] = "used"] /\ typed' = typed
  PROVE  /\ token' \in [TokenIds -> [pc : {"none", "live", "dead"}, user : People \cup {NoPerson},
                                     via : Tickets \cup Logins \cup {NoTicket}]]
         /\ TokenInv' /\ LeftInv'
         /\ \A k \in TokenIds : token[k].via \in Tickets => token'[k] = token[k]
         /\ token'[NewToken].via = via /\ NewToken \in TokenIds
<1> DEFINE n == NewToken
<1>1. n \in TokenIds /\ token[n].pc = "none" /\ token[n].via = NoTicket
  BY NewTokenIs DEF TokenInv
<1> HIDE DEF n
<1>2. /\ token'[n] = [pc |-> "live", user |-> p, via |-> via]
      /\ \A k \in TokenIds : k # n => token'[k] = token[k]
  BY <1>1 DEF Issued, LoginShapes, n
<1>3. token' \in [TokenIds -> [pc : {"none", "live", "dead"}, user : People \cup {NoPerson},
                               via : Tickets \cup Logins \cup {NoTicket}]]
  BY DEF Issued, LoginShapes
<1>4. \A k \in TokenIds : token[k].via \in Tickets => token'[k] = token[k]
  BY <1>1, <1>2, LoginConstants
<1>5. TokenInv'
  <2>1. ASSUME NEW k \in TokenIds
        PROVE  /\ token'[k].pc = "none" <=> token'[k].via = NoTicket
               /\ token'[k].via \in Tickets =>
                    ticket'[token'[k].via].pc = "gone" /\ <<token'[k].user, token'[k].via>> \in typed'
               /\ token'[k].via \in Logins => login'[token'[k].via] = "used"
    <3>1. CASE k = n
      <4>1. token'[k].pc = "live" /\ token'[k].via = via /\ token'[k].user = p
        BY <1>2, <3>1
      <4>2. via \in Tickets => ticket'[via].pc = "gone" /\ <<p, via>> \in typed'
        BY DEF LoginShapes
      <4>3. via \in Logins => login'[via] = "used"
        BY DEF LoginShapes
      <4> QED BY <4>1, <4>2, <4>3, LoginConstants
    <3>2. CASE k # n
      <4>1. token'[k] = token[k] /\ token[k].via # via
        BY <1>2, <3>2
      <4> QED BY <4>1, LoginConstants DEF LoginShapes, TokenInv
    <3> QED BY <3>1, <3>2
  <2>2. ASSUME NEW j \in TokenIds, NEW k \in TokenIds, j # k, token'[j].pc # "none"
        PROVE  token'[j].via # token'[k].via
    <3>1. CASE j = n
      BY <1>2, <2>2, <3>1
    <3>2. CASE k = n
      BY <1>2, <2>2, <3>2
    <3>3. CASE j # n /\ k # n
      BY <1>2, <2>2, <3>3 DEF TokenInv
    <3> QED BY <3>1, <3>2, <3>3
  <2> QED BY <2>1, <2>2 DEF TokenInv, TokenIds
<1>6. LeftInv'
  BY <1>1, <1>2 DEF LeftInv, LoginShapes
<1> QED BY <1>1, <1>2, <1>3, <1>4, <1>5, <1>6 DEF n

(* Steps that leave the sessions and what they are traced back to alone.   *)
LEMMA LoginQuiet ==
  ASSUME LoginInv, token' = token, sockets' = sockets, left' = left, LoginShapes', CallInv',
         \A l \in Logins : login[l] = "used" => login'[l] = "used",
         \A t \in Tickets : ticket[t].pc = "gone" => ticket'[t].pc = "gone",
         \A t \in Tickets : ticket'[t].user # NoPerson => <<ticket'[t].user, t>> \in typed',
         typed \subseteq typed'
  PROVE  LoginInv'
<1>1. TokenInv'
  <2>1. ASSUME NEW k \in TokenIds
        PROVE  /\ token[k].pc = "none" <=> token[k].via = NoTicket
               /\ token[k].via \in Tickets =>
                    ticket'[token[k].via].pc = "gone" /\ <<token[k].user, token[k].via>> \in typed'
               /\ token[k].via \in Logins => login'[token[k].via] = "used"
    BY DEF LoginInv, TokenInv
  <2>2. \A j, k \in TokenIds : j # k /\ token[j].pc # "none" => token[j].via # token[k].via
    BY DEF LoginInv, TokenInv
  <2> QED BY <2>1, <2>2 DEF TokenInv, TokenIds
<1>2. TicketInv' /\ LeftInv'
  BY DEF LoginInv, TicketInv, LeftInv
<1> QED BY <1>1, <1>2 DEF LoginInv

LEMMA LoginNow ==
  ASSUME LoginInv
  PROVE  /\ account.start \in LoginCalls /\ account.check \in LoginCalls /\ account.leave \in LoginCalls
         /\ account.saved \in 0 .. MaxTokens /\ account.pending \in Tickets \cup {NoTicket}
         /\ \A i \in 1 .. MaxPolls : polls[i] \in LoginCalls
         /\ NoCall \in LoginCalls /\ NoCall.pc = "idle" /\ NoCall.reply = "none"
         /\ \A k \in 0 .. MaxTokens : k # 0 => k \in TokenIds
  BY LoginConstants DEF LoginInv, LoginShapes, NoCall, LoginCalls, TokenIds

LEMMA LoginsInv ==
  ASSUME LoginInv, NEW l \in Logins,
         LoginStarts(l) \/ LoginCallsBack(l) \/ \E p \in People, ok \in BOOLEAN : LoginEnds(l, p, ok)
  PROVE  LoginInv'
<1>1. CASE LoginStarts(l) \/ LoginCallsBack(l)
  <2>1. /\ UNCHANGED <<ticket, token, approving, sockets, account, polls, typed, left>>
        /\ login' \in [Logins -> {"none", "open", "asking", "used"}]
        /\ \A m \in Logins : login[m] = "used" => login'[m] = "used"
    BY <1>1 DEF LoginStarts, LoginCallsBack, LoginInv, LoginShapes
  <2>2. LoginShapes' /\ CallInv'
    BY <2>1 DEF LoginInv, LoginShapes, CallInv, OfTicket, TokenIds
  <2>3. \A t \in Tickets : ticket'[t].user # NoPerson => <<ticket'[t].user, t>> \in typed'
    BY <2>1 DEF LoginInv, TicketInv
  <2> QED BY <2>1, <2>2, <2>3, LoginQuiet
<1>2. ASSUME NEW p \in People, NEW ok \in BOOLEAN, LoginEnds(l, p, ok)
      PROVE  LoginInv'
  <2>1. /\ UNCHANGED <<ticket, approving, sockets, account, polls, typed, left>> /\ login[l] = "asking"
        /\ login' = [login EXCEPT ![l] = "used"] /\ FreeTokens # {}
    BY <1>2 DEF LoginEnds
  <2>2. CASE ok
    <3>1. Issued(p, l)
      BY <1>2, <2>2 DEF LoginEnds
    <3>2. \A k \in TokenIds : token[k].via # l
      BY <2>1 DEF LoginInv, TokenInv
    <3>3. /\ token' \in [TokenIds -> [pc : {"none", "live", "dead"}, user : People \cup {NoPerson},
                                     via : Tickets \cup Logins \cup {NoTicket}]]
          /\ TokenInv' /\ LeftInv' /\ \A k \in TokenIds : token[k].via \in Tickets => token'[k] = token[k]
      BY <2>1, <3>1, <3>2, IssuedInv, LoginConstants DEF LoginInv
    <3>4. LoginShapes'
      BY <2>1, <3>3 DEF LoginInv, LoginShapes, TokenIds
    <3>5. CallInv'
      BY <2>1, <3>3 DEF LoginInv, CallInv, OfTicket, TokenIds
    <3>6. TicketInv'
      BY <2>1 DEF LoginInv, TicketInv
    <3> QED BY <3>3, <3>4, <3>5, <3>6 DEF LoginInv
  <2>3. CASE ~ok
    <3>1. token' = token
      BY <1>2, <2>3 DEF LoginEnds
    <3>2. LoginShapes' /\ CallInv'
      BY <2>1, <3>1 DEF LoginInv, LoginShapes, CallInv, OfTicket, TokenIds
    <3>3. /\ \A m \in Logins : login[m] = "used" => login'[m] = "used"
          /\ \A t \in Tickets : ticket'[t].user # NoPerson => <<ticket'[t].user, t>> \in typed'
      BY <2>1 DEF LoginInv, TicketInv, LoginShapes
    <3> QED BY <2>1, <3>1, <3>2, <3>3, LoginQuiet
  <2> QED BY <2>2, <2>3
<1> QED BY <1>1, <1>2

LEMMA TicketStepsInv ==
  ASSUME LoginInv, NEW t \in Tickets,
         \/ StartHandled(t) \/ TicketExpires(t)
         \/ \E p \in People : ApprovalBegins(p, t) \/ \E right \in BOOLEAN : ApprovalEnds(p, t, right)
  PROVE  LoginInv'
<1>1. UNCHANGED <<token, login, sockets, polls, left>> /\ typed \subseteq typed'
  BY DEF StartHandled, TicketExpires, ApprovalBegins, ApprovalEnds
<1>9. \/ ticket' = ticket
      \/ ticket[t].pc # "gone" /\ \E pc \in {"open", "gone"} : ticket' = [ticket EXCEPT ![t].pc = pc]
      \/ \E p \in People : ticket' = [ticket EXCEPT ![t].user = p] /\ <<p, t>> \in typed'
  BY DEF StartHandled, TicketExpires, ApprovalBegins, ApprovalEnds
<1>10. /\ ticket \in [Tickets -> [pc : {"none", "open", "gone"}, user : People \cup {NoPerson}]]
       /\ approving \subseteq People \X Tickets
  BY DEF LoginInv, LoginShapes
<1>2. /\ ticket' \in [Tickets -> [pc : {"none", "open", "gone"}, user : People \cup {NoPerson}]]
      /\ \A s \in Tickets : ticket[s].pc = "gone" => ticket'[s].pc = "gone"
      /\ approving' \subseteq People \X Tickets
  <2>1. approving' \subseteq People \X Tickets
    <3>1. \/ approving' = approving
          \/ \E p \in People : approving' = approving \cup {<<p, t>>} \/ approving' = approving \ {<<p, t>>}
      BY DEF StartHandled, TicketExpires, ApprovalBegins, ApprovalEnds
    <3> QED BY <1>10, <3>1
  <2>2. CASE ticket' = ticket
    BY <1>10, <2>1, <2>2
  <2>3. ASSUME NEW pc \in {"open", "gone"}, ticket[t].pc # "gone", ticket' = [ticket EXCEPT ![t].pc = pc]
        PROVE  /\ ticket' \in [Tickets -> [pc : {"none", "open", "gone"}, user : People \cup {NoPerson}]]
               /\ \A s \in Tickets : ticket[s].pc = "gone" => ticket'[s].pc = "gone"
    BY <1>10, <2>3
  <2>4. ASSUME NEW p \in People, ticket' = [ticket EXCEPT ![t].user = p]
        PROVE  /\ ticket' \in [Tickets -> [pc : {"none", "open", "gone"}, user : People \cup {NoPerson}]]
               /\ \A s \in Tickets : ticket[s].pc = "gone" => ticket'[s].pc = "gone"
    BY <1>10, <2>4
  <2> QED BY <1>9, <2>1, <2>2, <2>3, <2>4
<1>3. \A s \in Tickets : ticket'[s].user # NoPerson => <<ticket'[s].user, s>> \in typed'
  <2>1. \A s \in Tickets : ticket[s].user # NoPerson => <<ticket[s].user, s>> \in typed'
    BY <1>1 DEF LoginInv, TicketInv
  <2> QED BY <1>9, <1>10, <2>1
<1>4. account' = account \/ account' = [account EXCEPT !.start = [NoCall EXCEPT !.pc = "sent", !.of = t]]
  BY DEF StartHandled, TicketExpires, ApprovalBegins, ApprovalEnds
<1>5. [NoCall EXCEPT !.pc = "sent", !.of = t] \in LoginCalls
  BY DEF NoCall, LoginCalls
<1>6. /\ account' \in [pending : Tickets \cup {NoTicket}, saved : 0 .. MaxTokens,
                       start : LoginCalls, check : LoginCalls, leave : LoginCalls]
      /\ account'.saved = account.saved /\ account'.leave = account.leave
      /\ account'.start.pc # "idle" => account'.start.of \in Tickets
  BY <1>4, <1>5 DEF LoginInv, LoginShapes, CallInv, NoCall
<1>7. LoginShapes'
  BY <1>1, <1>2, <1>6 DEF LoginInv, LoginShapes, TokenIds
<1>8. CallInv'
  BY <1>1, <1>6 DEF LoginInv, CallInv, OfTicket, TokenIds
<1> QED BY <1>1, <1>2, <1>3, <1>7, <1>8, LoginQuiet

LEMMA PollsInv ==
  ASSUME LoginInv, NEW i \in 1 .. MaxPolls,
         PollSent(i) \/ Exchanged(i) \/ \E lost \in BOOLEAN : PollReturns(i, lost)
  PROVE  LoginInv'
<1>0. /\ polls[i] \in LoginCalls /\ polls \in [1 .. MaxPolls -> LoginCalls]
      /\ \A j \in 1 .. MaxPolls : /\ polls[j].pc # "idle" => polls[j].of \in Tickets
                                  /\ polls[j].reply = "token" => OfTicket(polls[j].k)
  BY LoginNow DEF LoginInv, LoginShapes, CallInv
<1>1. CASE PollSent(i)
  <2>1. /\ UNCHANGED <<ticket, token, login, approving, sockets, account, typed, left>>
        /\ polls' = [polls EXCEPT ![i] = [NoCall EXCEPT !.pc = "sent", !.of = account.pending]]
        /\ account.pending \in Tickets
    BY <1>1, LoginNow DEF PollSent
  <2>2. /\ [NoCall EXCEPT !.pc = "sent", !.of = account.pending] \in LoginCalls
        /\ [NoCall EXCEPT !.pc = "sent", !.of = account.pending].of = account.pending
        /\ [NoCall EXCEPT !.pc = "sent", !.of = account.pending].reply = "none"
    BY <2>1 DEF NoCall, LoginCalls
  <2>3. /\ polls' \in [1 .. MaxPolls -> LoginCalls]
        /\ \A j \in 1 .. MaxPolls : /\ polls'[j].pc # "idle" => polls'[j].of \in Tickets
                                    /\ polls'[j].reply = "token" => OfTicket(polls'[j].k)
    BY <1>0, <2>1, <2>2
  <2>4. LoginShapes'
    BY <2>1, <2>3 DEF LoginInv, LoginShapes, TokenIds
  <2>5. CallInv'
    BY <2>1, <2>3 DEF LoginInv, CallInv, OfTicket, TokenIds
  <2>6. \A t \in Tickets : ticket'[t].user # NoPerson => <<ticket'[t].user, t>> \in typed'
    BY <2>1 DEF LoginInv, TicketInv
  <2> QED BY <2>1, <2>4, <2>5, <2>6, LoginQuiet
<1>2. CASE Exchanged(i)
  <2> DEFINE t == polls[i].of
  <2>1. /\ UNCHANGED <<login, approving, sockets, account, typed, left>> /\ polls[i].pc = "sent" /\ t \in Tickets
    BY <1>0, <1>2 DEF Exchanged
  <2>2. CASE \/ PollAnswered(i, "error", 0) /\ UNCHANGED <<ticket, token>>
             \/ PollAnswered(i, "pending", 0) /\ UNCHANGED <<ticket, token>>
    <3>1. UNCHANGED <<ticket, token>>
      BY <2>2
    <3>2. polls' \in [1 .. MaxPolls -> LoginCalls]
      BY <1>0, <2>2 DEF PollAnswered, LoginCalls
    <3>7. polls'[i].of = polls[i].of /\ polls'[i].reply # "token" /\ \A j \in 1 .. MaxPolls : j # i => polls'[j] = polls[j]
      <4>1. polls[i] \in [pc : {"idle", "sent", "back"}, of : Tickets \cup {NoTicket}, k : Nat,
                          reply : {"none", "error", "pending", "token", "yes", "no"}]
        BY <1>0 DEF LoginCalls
      <4>2. PICK r \in {"error", "pending"} : polls' = [polls EXCEPT ![i].pc = "back", ![i].reply = r, ![i].k = 0]
        BY <2>2 DEF PollAnswered
      <4>3. /\ polls'[i] = [polls[i] EXCEPT !.pc = "back", !.reply = r, !.k = 0]
            /\ \A j \in 1 .. MaxPolls : j # i => polls'[j] = polls[j]
        BY <1>0, <4>2
      <4> QED BY <4>1, <4>3
    <3>3. \A j \in 1 .. MaxPolls : /\ polls'[j].pc # "idle" => polls'[j].of \in Tickets
                                   /\ polls'[j].reply = "token" => OfTicket(polls'[j].k)
      BY <1>0, <2>1, <3>7
    <3>4. LoginShapes'
      BY <2>1, <3>1, <3>2 DEF LoginInv, LoginShapes, TokenIds
    <3>5. CallInv'
      BY <2>1, <3>1, <3>3 DEF LoginInv, CallInv, OfTicket, TokenIds
    <3>6. \A s \in Tickets : ticket'[s].user # NoPerson => <<ticket'[s].user, s>> \in typed'
      BY <2>1, <3>1 DEF LoginInv, TicketInv
    <3> QED BY <2>1, <3>1, <3>4, <3>5, <3>6, LoginQuiet
  <2>3. CASE /\ ticket[t].pc = "open" /\ ticket[t].user # NoPerson /\ FreeTokens # {}
             /\ ticket' = [ticket EXCEPT ![t].pc = "gone"] /\ Issued(ticket[t].user, t) /\ PollAnswered(i, "token", NewToken)
    <3> DEFINE p == ticket[t].user
    <3>1. p \in People /\ <<p, t>> \in typed
      BY <2>1, <2>3 DEF LoginInv, LoginShapes, TicketInv
    <3>2. \A k \in TokenIds : token[k].via # t
      BY <2>1, <2>3 DEF LoginInv, TokenInv
    <3> HIDE DEF p, t
    <3>3. /\ token' \in [TokenIds -> [pc : {"none", "live", "dead"}, user : People \cup {NoPerson},
                                     via : Tickets \cup Logins \cup {NoTicket}]]
          /\ TokenInv' /\ LeftInv' /\ \A k \in TokenIds : token[k].via \in Tickets => token'[k] = token[k]
          /\ token'[NewToken].via = t /\ NewToken \in TokenIds
      <4>1. Issued(p, t)
        BY <2>3 DEF p
      <4>2. t \notin Logins
        BY <2>1, LoginConstants
      <4> QED BY <2>1, <2>3, <3>1, <3>2, <4>1, <4>2, IssuedInv DEF LoginInv
    <3>4. /\ polls' \in [1 .. MaxPolls -> LoginCalls]
          /\ \A j \in 1 .. MaxPolls : /\ polls'[j].pc # "idle" => polls'[j].of \in Tickets
                                      /\ j # i => polls'[j] = polls[j]
          /\ polls'[i].k = NewToken
      <4>1. /\ polls[i] \in [pc : {"idle", "sent", "back"}, of : Tickets \cup {NoTicket}, k : Nat,
                              reply : {"none", "error", "pending", "token", "yes", "no"}]
            /\ NewToken \in Nat
        BY <1>0, <3>3 DEF LoginCalls, TokenIds
      <4>2. polls' = [polls EXCEPT ![i].pc = "back", ![i].reply = "token", ![i].k = NewToken]
        BY <2>3 DEF PollAnswered
      <4>3. /\ polls'[i] = [polls[i] EXCEPT !.pc = "back", !.reply = "token", !.k = NewToken]
            /\ \A j \in 1 .. MaxPolls : j # i => polls'[j] = polls[j]
            /\ DOMAIN polls' = 1 .. MaxPolls
        BY <1>0, <4>2
      <4>4. polls'[i] \in LoginCalls /\ polls'[i].of = polls[i].of /\ polls'[i].k = NewToken
        BY <4>1, <4>3 DEF LoginCalls
      <4>5. polls' \in [1 .. MaxPolls -> LoginCalls]
        <5>1. polls' = [j \in 1 .. MaxPolls |-> polls'[j]]
          BY <1>0, <4>2
        <5>2. \A j \in 1 .. MaxPolls : polls'[j] \in LoginCalls
          BY <1>0, <4>3, <4>4
        <5> QED BY <5>1, <5>2
      <4>6. polls'[i].of \in Tickets /\ i \in 1 .. MaxPolls
        BY <1>0, <2>1, <4>4 DEF t
      <4>7. ASSUME NEW j \in 1 .. MaxPolls PROVE (polls'[j].pc # "idle" => polls'[j].of \in Tickets) /\ (j # i => polls'[j] = polls[j])
        <5>1. CASE j = i
          BY <4>6, <5>1
        <5>2. CASE j # i
          <6>1. polls'[j] = polls[j]
            BY <4>3, <5>2
          <6>2. polls[j].pc # "idle" => polls[j].of \in Tickets
            BY <1>0
          <6> QED BY <6>1, <6>2
        <5> QED BY <5>1, <5>2
      <4> QED BY <4>4, <4>5, <4>7
    <3>5. ticket' \in [Tickets -> [pc : {"none", "open", "gone"}, user : People \cup {NoPerson}]]
      <4>1. ticket \in [Tickets -> [pc : {"none", "open", "gone"}, user : People \cup {NoPerson}]]
        BY DEF LoginInv, LoginShapes
      <4>2. ticket' = [ticket EXCEPT ![t].pc = "gone"]
        BY <2>3
      <4> QED BY <4>1, <4>2
    <3>6. LoginShapes'
      BY <2>1, <3>3, <3>4, <3>5 DEF LoginInv, LoginShapes, TokenIds
    <3>8. CallInv'
      <4>1. ASSUME NEW j \in 1 .. MaxPolls, polls'[j].reply = "token" PROVE (polls'[j].k \in TokenIds /\ token'[polls'[j].k].via \in Tickets)
        BY <1>0, <2>1, <3>3, <3>4, <4>1 DEF OfTicket
      <4>2. /\ account.saved # 0 => (account.saved \in TokenIds /\ token'[account.saved].via \in Tickets)
            /\ account.leave.pc # "idle" => (account.leave.k \in TokenIds /\ token'[account.leave.k].via \in Tickets)
        BY <3>3 DEF LoginInv, CallInv, OfTicket
      <4>3. account.start.pc # "idle" => account.start.of \in Tickets
        BY DEF LoginInv, CallInv
      <4> QED BY <2>1, <3>4, <4>1, <4>2, <4>3 DEF CallInv, OfTicket, TokenIds
    <3>9. TicketInv'
      BY <2>1, <2>3 DEF LoginInv, LoginShapes, TicketInv
    <3> QED BY <3>3, <3>6, <3>8, <3>9 DEF LoginInv
  <2> QED BY <1>2, <2>2, <2>3 DEF Exchanged
<1>3. ASSUME NEW lost \in BOOLEAN, PollReturns(i, lost)
      PROVE  LoginInv'
  <2>1. /\ UNCHANGED <<ticket, token, login, approving, sockets, typed, left>>
        /\ polls' = [polls EXCEPT ![i] = NoCall]
    BY <1>3 DEF PollReturns
  <2>2. /\ polls' \in [1 .. MaxPolls -> LoginCalls]
        /\ \A j \in 1 .. MaxPolls : /\ polls'[j].pc # "idle" => polls'[j].of \in Tickets
                                    /\ polls'[j].reply = "token" => OfTicket(polls'[j].k)
    BY <1>0, <2>1, LoginNow
  <2>3. /\ account' \in [pending : Tickets \cup {NoTicket}, saved : 0 .. MaxTokens,
                         start : LoginCalls, check : LoginCalls, leave : LoginCalls]
        /\ account'.saved # 0 => OfTicket(account'.saved)
        /\ account'.leave = account.leave /\ account'.start = account.start
    <3>1. \/ account' = account
          \/ /\ OfTicket(polls[i].k)
             /\ account' = [account EXCEPT !.saved = polls[i].k, !.pending = NoTicket]
      <4>1. CASE ~lost /\ polls[i].reply = "token" /\ account.pending = polls[i].of
        <5>1. account' = [account EXCEPT !.saved = polls[i].k, !.pending = NoTicket]
          BY <1>3, <4>1 DEF PollReturns
        <5> QED BY <1>0, <4>1, <5>1
      <4>2. CASE ~(~lost /\ polls[i].reply = "token" /\ account.pending = polls[i].of)
        <5>1. account' = account
          BY <1>3, <4>2 DEF PollReturns
        <5> QED BY <5>1
      <4> QED BY <4>1, <4>2
    <3>2. OfTicket(polls[i].k) => polls[i].k \in 0 .. MaxTokens
      BY LoginConstants DEF OfTicket, TokenIds
    <3>3. /\ account \in [pending : Tickets \cup {NoTicket}, saved : 0 .. MaxTokens,
                           start : LoginCalls, check : LoginCalls, leave : LoginCalls]
          /\ account.saved # 0 => OfTicket(account.saved)
      BY DEF LoginInv, LoginShapes, CallInv
    <3> QED BY <3>1, <3>2, <3>3
  <2>4. LoginShapes'
    BY <2>1, <2>2, <2>3 DEF LoginInv, LoginShapes, TokenIds
  <2>5. CallInv'
    BY <2>1, <2>2, <2>3 DEF LoginInv, CallInv, OfTicket, TokenIds
  <2>6. \A t \in Tickets : ticket'[t].user # NoPerson => <<ticket'[t].user, t>> \in typed'
    BY <2>1 DEF LoginInv, TicketInv
  <2> QED BY <2>1, <2>4, <2>5, <2>6, LoginQuiet
<1> QED BY <1>1, <1>2, <1>3

(* What the desktop does with a session it keeps, up to a logout.          *)
LEMMA AccountInv ==
  ASSUME LoginInv,
         \/ \E lost \in BOOLEAN : StartReturns(lost) \/ CheckReturns(lost) \/ LogoutReturns(lost)
         \/ \E name \in {"check", "leave"} : CallSent(name)
         \/ CheckHandled
  PROVE  LoginInv'
<1>1. UNCHANGED <<ticket, token, login, approving, sockets, polls, typed, left>>
  BY DEF StartReturns, CheckReturns, LogoutReturns, CallSent, CheckHandled
<1>2. /\ account' \in [pending : Tickets \cup {NoTicket}, saved : 0 .. MaxTokens,
                       start : LoginCalls, check : LoginCalls, leave : LoginCalls]
      /\ account'.saved # 0 => OfTicket(account'.saved)
      /\ account'.leave.pc # "idle" => OfTicket(account'.leave.k)
      /\ account'.start.pc # "idle" => account'.start.of \in Tickets
  <2>0. /\ account \in [pending : Tickets \cup {NoTicket}, saved : 0 .. MaxTokens,
                        start : LoginCalls, check : LoginCalls, leave : LoginCalls]
        /\ account.saved # 0 => OfTicket(account.saved)
        /\ account.leave.pc # "idle" => OfTicket(account.leave.k)
        /\ account.start.pc # "idle" => account.start.of \in Tickets
    BY DEF LoginInv, LoginShapes, CallInv
  <2>1. CASE \E lost \in BOOLEAN : StartReturns(lost)
    BY <2>0, <2>1, LoginNow DEF StartReturns
  <2>2. CASE \E lost \in BOOLEAN : CheckReturns(lost)
    <3>1. 0 \in 0 .. MaxTokens
      BY LoginConstants
    <3>2. PICK n \in {0, account.saved} : account' = [account EXCEPT !.check = NoCall, !.saved = n]
      BY <2>2 DEF CheckReturns
    <3>3. account' = [pending |-> account.pending, saved |-> n, start |-> account.start, check |-> NoCall, leave |-> account.leave]
      BY <2>0, <3>2
    <3>4. account'.saved # 0 => OfTicket(account'.saved)
      BY <2>0, <3>3
    <3> QED BY <2>0, <3>1, <3>3, <3>4, LoginNow
  <2>3. CASE \E lost \in BOOLEAN : LogoutReturns(lost)
    <3>1. 0 \in 0 .. MaxTokens
      BY LoginConstants
    <3>2. \/ account' = [account EXCEPT !.leave = NoCall]
          \/ account' = [account EXCEPT !.leave = NoCall, !.saved = 0, !.pending = NoTicket]
      BY <2>3 DEF LogoutReturns
    <3>3. \/ account' = [pending |-> account.pending, saved |-> account.saved, start |-> account.start, check |-> account.check, leave |-> NoCall]
          \/ account' = [pending |-> NoTicket, saved |-> 0, start |-> account.start, check |-> account.check, leave |-> NoCall]
      BY <2>0, <3>2
    <3> QED BY <2>0, <3>1, <3>3, LoginNow
  <2>4. ASSUME NEW name \in {"check", "leave"}, CallSent(name)
        PROVE  /\ account' \in [pending : Tickets \cup {NoTicket}, saved : 0 .. MaxTokens,
                                start : LoginCalls, check : LoginCalls, leave : LoginCalls]
               /\ account'.saved # 0 => OfTicket(account'.saved)
               /\ account'.leave.pc # "idle" => OfTicket(account'.leave.k)
               /\ account'.start.pc # "idle" => account'.start.of \in Tickets
    <3> DEFINE c == [NoCall EXCEPT !.pc = "sent", !.k = account.saved]
    <3>1. c \in LoginCalls /\ c.k = account.saved /\ account.saved # 0
      <4>1. account.saved \in Nat
        BY <2>0, LoginConstants
      <4>2. account.saved # 0
        BY <2>4 DEF CallSent
      <4> QED BY <4>1, <4>2 DEF LoginCalls, NoCall
    <3>2. account' = [account EXCEPT ![name] = c]
      BY <2>4 DEF CallSent
    <3> HIDE DEF c
    <3> QED BY <2>0, <3>1, <3>2
  <2>5. CASE CheckHandled
    <3>1. account' = [account EXCEPT !.check.pc = "back", !.check.reply = IF Live(account.check.k) THEN "yes" ELSE "no"]
      BY <2>5 DEF CheckHandled
    <3> QED BY <2>0, <3>1 DEF LoginCalls
  <2> QED BY <2>1, <2>2, <2>3, <2>4, <2>5
<1>3. LoginShapes'
  BY <1>1, <1>2 DEF LoginInv, LoginShapes, TokenIds
<1>4. CallInv'
  BY <1>1, <1>2 DEF LoginInv, CallInv, OfTicket, TokenIds
<1>5. \A t \in Tickets : ticket'[t].user # NoPerson => <<ticket'[t].user, t>> \in typed'
  BY <1>1 DEF LoginInv, TicketInv
<1> QED BY <1>1, <1>3, <1>4, <1>5, LoginQuiet

(* A session ends, and its sockets with it; or a socket opens with a live  *)
(* one.                                                                    *)
LEMMA SessionEndsInv ==
  ASSUME LoginInv, LogoutHandled \/ \E k \in TokenIds : SocketOpens(k) \/ TokenExpires(k)
  PROVE  LoginInv'
<1>0. /\ token \in [TokenIds -> [pc : {"none", "live", "dead"}, user : People \cup {NoPerson},
                                 via : Tickets \cup Logins \cup {NoTicket}]]
      /\ sockets \subseteq TokenIds /\ left \subseteq TokenIds
  BY DEF LoginInv, LoginShapes
<1>1. CASE LogoutHandled
  <2> DEFINE k == account.leave.k
  <2>1. /\ UNCHANGED <<ticket, login, approving, polls, typed>> /\ OfTicket(k) /\ token[k].pc # "none"
        /\ account' = [account EXCEPT !.leave.pc = "back"] /\ token' = [token EXCEPT ![k].pc = "dead"]
        /\ sockets' = sockets \ {k} /\ left' = left \cup {k}
    BY <1>1, LoginConstants DEF LogoutHandled, LoginInv, CallInv, TokenInv, OfTicket
  <2> HIDE DEF k
  <2>2. /\ token' \in [TokenIds -> [pc : {"none", "live", "dead"}, user : People \cup {NoPerson},
                                    via : Tickets \cup Logins \cup {NoTicket}]]
        /\ \A j \in TokenIds : /\ token'[j].via = token[j].via /\ token'[j].user = token[j].user
                               /\ token'[j].pc = "none" <=> token[j].pc = "none"
                               /\ token[j].pc = "dead" => token'[j].pc = "dead"
        /\ k \in TokenIds /\ token'[k].pc = "dead"
    BY <1>0, <2>1 DEF OfTicket
  <2>3. /\ account' \in [pending : Tickets \cup {NoTicket}, saved : 0 .. MaxTokens,
                         start : LoginCalls, check : LoginCalls, leave : LoginCalls]
        /\ account'.saved = account.saved /\ account'.start = account.start /\ account'.leave.k = account.leave.k
        /\ account.leave.pc # "idle"
    BY <1>1, <2>1 DEF LoginInv, LoginShapes, LoginCalls, LogoutHandled
  <2>4. LoginShapes'
    BY <2>1, <2>2, <2>3 DEF LoginInv, LoginShapes, TokenIds
  <2>5. TokenInv'
    BY <2>1, <2>2 DEF LoginInv, TokenInv, TokenIds
  <2>6. CallInv'
    BY <2>1, <2>2, <2>3 DEF LoginInv, CallInv, OfTicket, TokenIds
  <2>7. TicketInv' /\ LeftInv'
    BY <1>0, <2>1, <2>2 DEF LoginInv, TicketInv, LeftInv
  <2> QED BY <2>4, <2>5, <2>6, <2>7 DEF LoginInv
<1>2. ASSUME NEW k \in TokenIds, SocketOpens(k)
      PROVE  LoginInv'
  <2>1. /\ UNCHANGED <<ticket, token, login, approving, account, polls, typed, left>>
        /\ token[k].pc = "live" /\ sockets' = sockets \cup {k}
    BY <1>2 DEF SocketOpens, Live
  <2>2. LoginShapes' /\ TokenInv' /\ TicketInv'
    BY <2>1 DEF LoginInv, LoginShapes, TokenInv, TicketInv, TokenIds
  <2>3. CallInv'
    BY <2>1 DEF LoginInv, CallInv, OfTicket, TokenIds
  <2>4. LeftInv'
    BY <2>1 DEF LoginInv, LeftInv
  <2> QED BY <2>2, <2>3, <2>4 DEF LoginInv
<1>3. ASSUME NEW k \in TokenIds, TokenExpires(k)
      PROVE  LoginInv'
  <2>1. /\ UNCHANGED <<ticket, login, approving, account, polls, typed, left>> /\ token[k].pc = "live"
        /\ token' = [token EXCEPT ![k].pc = "dead"] /\ sockets' = sockets \ {k}
    BY <1>3 DEF TokenExpires, Live
  <2>2. /\ token' \in [TokenIds -> [pc : {"none", "live", "dead"}, user : People \cup {NoPerson},
                                    via : Tickets \cup Logins \cup {NoTicket}]]
        /\ \A j \in TokenIds : /\ token'[j].via = token[j].via /\ token'[j].user = token[j].user
                               /\ token'[j].pc = "none" <=> token[j].pc = "none"
                               /\ token[j].pc = "dead" => token'[j].pc = "dead"
    BY <1>0, <2>1
  <2>3. LoginShapes'
    BY <2>1, <2>2 DEF LoginInv, LoginShapes, TokenIds
  <2>4. TokenInv'
    BY <2>1, <2>2 DEF LoginInv, TokenInv, TokenIds
  <2>5. CallInv'
    BY <2>1, <2>2 DEF LoginInv, CallInv, OfTicket, TokenIds
  <2>6. TicketInv' /\ LeftInv'
    BY <1>0, <2>1, <2>2 DEF LoginInv, TicketInv, LeftInv
  <2> QED BY <2>3, <2>4, <2>5, <2>6 DEF LoginInv
<1> QED BY <1>1, <1>2, <1>3

LEMMA LoginInvStep == LoginInv /\ [LoginNext]_loginVars => LoginInv'
<1> SUFFICES ASSUME LoginInv, [LoginNext]_loginVars PROVE LoginInv'
  OBVIOUS
<1>1. CASE UNCHANGED loginVars
  BY <1>1 DEF loginVars, LoginInv, LoginShapes, TokenInv, TicketInv, CallInv, OfTicket, LeftInv, TokenIds
<1>2. CASE LoginNext
  BY <1>2, LoginsInv, TicketStepsInv, PollsInv, AccountInv, SessionEndsInv DEF LoginNext
<1> QED BY <1>1, <1>2

LEMMA LoginInvImplies == LoginInv => LoginTypeOK /\ OneSessionEach
<1> SUFFICES ASSUME LoginInv PROVE LoginTypeOK /\ OneSessionEach
  OBVIOUS
<1>1. LoginTypeOK
  BY DEF LoginInv, LoginShapes, LoginTypeOK
<1>2. OneSessionEach
  BY DEF LoginInv, LoginShapes, TokenInv, CallInv, LeftInv, OfTicket, OneSessionEach, Live
<1> QED BY <1>1, <1>2

-----------------------------------------------------------------------------
(* What a person agreed to.                                                *)

(* What a person agreed to is what happens on their machine, for any       *)
(* number of people, tickets, devices, teams, processes and restarts: the  *)
(* desktop's processes do not outlive it and its host trusts no signer but *)
(* one the person said yes to; a sign-in yields one session, for who typed *)
(* its code; and a host acts for the team it was paired with, with one     *)
(* crypto store open: ConsentHolds.                                        *)
THEOREM ConsentHoldsHolds == Spec => []ConsentHolds
<1> DEFINE Inv == DeskInv /\ LoginInv /\ PairInv
<1>1. Init => Inv
  BY DeskInvInit, LoginInvInit, PairInvInit DEF Init
<1>2. Inv /\ [Next]_<<part, appVars, adapterVars, deskVars, loginVars, mailVars, recVars, pairVars>> => Inv'
  <2> SUFFICES ASSUME Inv, [Next]_<<part, appVars, adapterVars, deskVars, loginVars, mailVars, recVars, pairVars>>
               PROVE  Inv'
    OBVIOUS
  <2>1. [DeskNext]_deskVars /\ [LoginNext]_loginVars /\ [PairNext]_pairVars
    BY DEF Next
  <2> QED BY <2>1, DeskInvStep, LoginInvStep, PairInvStep
<1>3. Inv => ConsentHolds
  BY DeskInvImplies, LoginInvImplies, PairInvImplies DEF ConsentHolds
<1> QED BY <1>1, <1>2, <1>3, PTL DEF Spec


-----------------------------------------------------------------------------
(* AgentApp: what the window tells, and what is so.                        *)

(* What a row, a turn, a message and the window are made of.               *)
Threads == AppThreads \cup {"none"}
ItemKinds == {"user", "steer", "text", "command", "edit", "plan"}
Items == [kind : ItemKinds, run : RunIds, n : Nat]
RowRecs == [state : {"unused", "here", "gone"}, tree : BOOLEAN, dir : {"project", "tree"}, items : SUBSET Items]
AlivePcs == {"top", "fetching", "turning", "calls", "asking", "running", "killed"}
RunShapes == [on : Threads, demo : BOOLEAN, mode : Modes \cup {"agent"}, pc : AlivePcs \cup {"none", "over"}, calls : Seq(Calls),
              steers : 0 .. MaxSteers, said : 0 .. MaxSteers, stopped : BOOLEAN, round : 0 .. MaxAppRounds, n : Nat,
              plan : Items \cup {NoItem}]
RunRecs == {r \in RunShapes : r.steers <= r.said}
MsgKinds == {"begun", "item", "ask", "start", "end", "auto", "running", "got", "created", "listed", "deleted"}
Msgs == [kind : MsgKinds, on : Threads, item : Items \cup {NoItem}, those : SUBSET (AppThreads \cup Items)]
Cards == [on : AppThreads, item : Items]
Pages == [pc : {"closed", "loading", "up"}, listed : SUBSET AppThreads, active : Threads, shown : SUBSET Items,
          cards : SUBSET Cards, running : SUBSET AppThreads, asks : SUBSET AppThreads, describing : SUBSET (SUBSET Items),
          sending : {"no", "creating", "listing"}, raced : BOOLEAN, opened : 0 .. MaxWindows]

Shapes(w, p) ==
  /\ rows \in [AppThreads -> RowRecs] /\ runs \in [RunIds -> RunRecs] /\ sessions \in [AppThreads -> 0 .. MaxAppTurns]
  /\ making \subseteq AppThreads \X (1 .. MaxWindows)
  /\ deleting \subseteq AppThreads \X (1 .. MaxWindows) \X {"project", "tree"}
  /\ job \in {"none", "on"} /\ checkout \in BOOLEAN
  /\ w \in Seq(Msgs) /\ Len(w) <= MaxWire /\ p \in Pages
  /\ \A i \in 1 .. Len(w) : /\ w[i].kind \in {"begun", "item", "ask"} => w[i].item \in Items
                            /\ w[i].kind # "running" => w[i].on \in AppThreads
                            /\ w[i].kind \in {"running", "created"} => w[i].those \subseteq AppThreads
                            /\ w[i].kind = "got" => w[i].those \subseteq Items

Goes(k) == runs[k].pc \in AlivePcs
(* A thread that is still there, or will be.                               *)
Stays(t) == rows[t].state # "gone" /\ ~Leaving(t)
OnWay(k) == ({runs[k].plan} \ {NoItem}) \cup (IF runs[k].pc \in {"running", "killed"} THEN {Item("command", k, runs[k].n)} ELSE {})

(* Turns and the map from threads to them.                                 *)
RunsInv ==
  /\ \A k \in RunIds : Goes(k) => /\ runs[k].on \in AppThreads /\ rows[runs[k].on].state # "unused"
                                  /\ Stays(runs[k].on) => sessions[runs[k].on] = k
                                  /\ (runs[k].pc = "asking" => runs[k].calls # <<>> /\ Head(runs[k].calls) \in {"risky", "outside"})
                                  /\ (runs[k].pc \in {"running", "killed"} => runs[k].calls # <<>>)
  /\ \A t \in AppThreads : sessions[t] # 0 => Goes(sessions[t]) /\ runs[sessions[t]].on = t

(* A thread nobody created yet is nowhere.                                 *)
UnusedInv(w, p) ==
  \A t \in AppThreads : rows[t].state = "unused" =>
    /\ rows[t].items = {} /\ sessions[t] = 0 /\ ~Leaving(t) /\ t \notin p.running /\ t \notin p.asks /\ t \notin p.listed
    /\ p.active # t
    /\ \A i \in 1 .. Len(w) : w[i].on # t /\ (w[i].kind \in {"running", "created"} => t \notin w[i].those)
    /\ \A d \in making : d[1] # t

(* The window, and which messages can be on their way to it.               *)
PageInv(w, p) ==
  /\ p.pc = "closed" => w = <<>> /\ p = [Closed EXCEPT !.opened = p.opened]
  /\ p.pc = "loading" => /\ p.running = {} /\ p.asks = {} /\ p.cards = {} /\ p.shown = {} /\ p.describing = {} /\ p.sending = "no"
                         /\ p.active = "none"
                         /\ \A i \in 1 .. Len(w) : w[i].kind \notin {"got", "created", "listed"}
                         /\ \A d \in making : d[2] # p.opened
  /\ p.pc # "closed" => p.opened # 0
  /\ p.pc = "up" => \A i \in 1 .. Len(w) : w[i].kind # "running"
  /\ \A i, j \in 1 .. Len(w) : w[i].kind = "running" /\ w[j].kind = "running" => i = j
  /\ \A d \in making : d[2] <= p.opened
  /\ \A d \in deleting : d[2] <= p.opened

(* Which threads run, as the window will know it.                          *)
Marks(m, t) == (m.kind \in {"auto", "start", "end"} /\ m.on = t) \/ m.kind = "running"
Says(m, t) == IF m.kind = "running" THEN t \in m.those ELSE m.kind # "end"
MarksInv(w, p) ==
  \A t \in AppThreads : Stays(t) =>
    /\ \A i \in 1 .. Len(w) : Marks(w[i], t) =>
         (\E j \in 1 .. Len(w) : j > i /\ Marks(w[j], t)) \/ (Says(w[i], t) <=> sessions[t] # 0)
    /\ p.pc = "up" => (\E j \in 1 .. Len(w) : Marks(w[j], t)) \/ (t \in p.running <=> sessions[t] # 0)

(* Requests for approval: each is told once, with a number of its own.     *)
Ended(m, t) == m.kind = "end" /\ m.on = t
AsksInv(w, p) ==
  /\ \A t \in AppThreads : Stays(t) =>
       /\ \A i \in 1 .. Len(w) : w[i].kind = "ask" /\ w[i].on = t =>
            \/ \E j \in 1 .. Len(w) : j > i /\ Ended(w[j], t)
            \/ /\ sessions[t] # 0 /\ w[i].item.run = sessions[t]
               /\ runs[sessions[t]].stopped \/ (runs[sessions[t]].pc = "asking" /\ w[i].item.n = runs[sessions[t]].n)
       /\ t \in p.asks =>
            \/ \E j \in 1 .. Len(w) : Ended(w[j], t)
            \/ sessions[t] # 0 /\ (runs[sessions[t]].stopped \/ runs[sessions[t]].pc = "asking")
  /\ \A i \in 1 .. Len(w) : w[i].kind = "ask" =>
       /\ runs[w[i].item.run].pc # "none" /\ (Goes(w[i].item.run) => w[i].item.n <= runs[w[i].item.run].n)
       /\ \A c \in p.cards : c.item.run = w[i].item.run => c.item.n < w[i].item.n
       /\ \A j \in 1 .. Len(w) : w[j].kind = "ask" /\ w[j].item.run = w[i].item.run /\ j < i => w[j].item.n < w[i].item.n
  /\ \A c \in p.cards : runs[c.item.run].pc # "none" /\ (Goes(c.item.run) => c.item.n <= runs[c.item.run].n)

(* What is told of a thread is on its row, or under way.                   *)
Tells(m, t) == m.kind \in {"begun", "item"} /\ m.on = t
Known(t) == rows[t].items \cup (IF sessions[t] = 0 THEN {} ELSE OnWay(sessions[t]))
ToldInv(w, p) ==
  \A t \in AppThreads : Stays(t) => \A i \in 1 .. Len(w) : Tells(w[i], t) => w[i].item \in Known(t)

(* A window that did not race waits for one thing at most.                 *)
OneWait(w, p) ==
  p.pc = "up" /\ ~p.raced =>
    /\ \A i \in 1 .. Len(w) : w[i].kind = "got" =>
         /\ p.describing = {} /\ p.sending = "no" /\ w[i].on = p.active
         /\ \A j \in 1 .. Len(w) : w[j].kind = "got" => i = j
    /\ \A d, e \in p.describing : d = e
    /\ p.describing # {} => p.sending = "no"
    /\ \A i \in 1 .. Len(w) : w[i].kind = "created" =>
         /\ p.sending = "creating" /\ w[i].those \subseteq {w[i].on}
         /\ \A j \in 1 .. Len(w) : w[j].kind = "created" => i = j
         /\ \A d \in making : d[2] # p.opened
    /\ \A d \in making : d[2] = p.opened => p.sending = "creating"
    /\ \A d, e \in making : d[2] = p.opened /\ e[2] = p.opened => d = e
    /\ p.sending = "creating" => p.active = "none"
    /\ \A i \in 1 .. Len(w) : w[i].kind = "listed" => p.sending = "listing" /\ w[i].on = p.active
    /\ \A i, j \in 1 .. Len(w) : w[i].kind = "listed" /\ w[j].kind = "listed" => i = j

(* A thread that is being created for the window has nothing on its row.   *)
Bare(t) == Stays(t) => rows[t].state = "here" /\ rows[t].items = {} /\ sessions[t] = 0
NewInv(w, p) ==
  p.pc = "up" /\ ~p.raced =>
    /\ \A d \in making : d[2] = p.opened => Bare(d[1])
    /\ \A i \in 1 .. Len(w) : w[i].kind \in {"created", "listed"} => Bare(w[i].on)

(* What the open thread shows, once all that is on its way is there.       *)
ShownInv(w, p) ==
  p.pc = "up" /\ ~p.raced /\ p.active \in AppThreads /\ p.sending = "no" /\ Stays(p.active) =>
    /\ \A i \in 1 .. Len(w) : w[i].kind = "got" =>
         /\ \A x \in rows[p.active].items : x \in w[i].those \/ \E j \in 1 .. Len(w) : j > i /\ Tells(w[j], p.active) /\ w[j].item = x
         /\ w[i].those \subseteq Known(p.active)
    /\ (\A i \in 1 .. Len(w) : w[i].kind # "got") =>
         /\ \A x \in rows[p.active].items : \/ x \in p.shown \/ x \in UNION p.describing
                                            \/ \E j \in 1 .. Len(w) : Tells(w[j], p.active) /\ w[j].item = x
         /\ p.shown \cup UNION p.describing \subseteq Known(p.active)

AppInvAt(w, p) ==
  /\ Shapes(w, p) /\ RunsInv /\ UnusedInv(w, p) /\ PageInv(w, p) /\ MarksInv(w, p) /\ AsksInv(w, p) /\ ToldInv(w, p)
  /\ OneWait(w, p) /\ NewInv(w, p) /\ ShownInv(w, p)
AppInv == AppInvAt(wire, page)

LEMMA AppConstants ==
  /\ CallLists \subseteq Seq(Calls \ {"text"}) /\ DemoScripts \subseteq Seq(Calls) /\ Trees \subseteq AppThreads /\ OldThreads \subseteq AppThreads
  /\ Modes \subseteq {"read-only", "agent", "full-access"} /\ "none" \notin AppThreads
  /\ MaxAppTurns \in Nat /\ MaxSteers \in Nat /\ MaxAppRounds \in Nat /\ MaxWire \in Nat /\ MaxWindows \in Nat
  BY AppAssumption

(* Messages put after those that are on their way.                         *)
Lengthened(v, w, e) == v = w \o e
Extends(v, w, e) ==
  /\ v \in Seq(Msgs) /\ Len(w) \in Nat /\ Len(e) \in Nat /\ Len(v) = Len(w) + Len(e)
  /\ \A i \in 1 .. Len(w) : i \in 1 .. Len(v) /\ v[i] = w[i]
  /\ \A i \in 1 .. Len(v) : i \notin 1 .. Len(w) => \E h \in 1 .. Len(e) : v[i] = e[h]
  /\ \A h \in 1 .. Len(e) : \E i \in 1 .. Len(v) : i \notin 1 .. Len(w) /\ v[i] = e[h]
  /\ \A i \in 1 .. Len(w), j \in 1 .. Len(v) : j \notin 1 .. Len(w) => j > i
  /\ Len(e) = 1 => \A i, j \in 1 .. Len(v) : i \notin 1 .. Len(w) /\ j \notin 1 .. Len(w) => i = j
LEMMA WireLonger ==
  ASSUME NEW w \in Seq(Msgs), NEW e \in Seq(Msgs), NEW v, Lengthened(v, w, e)
  PROVE  Extends(v, w, e)
<1>0. v = w \o e
  BY DEF Lengthened
<1>1. /\ v \in Seq(Msgs) /\ Len(v) = Len(w) + Len(e) /\ Len(w) \in Nat /\ Len(e) \in Nat
      /\ \A i \in 1 .. Len(v) : v[i] = IF i <= Len(w) THEN w[i] ELSE e[i - Len(w)]
  BY <1>0, ConcatProperties
<1>2. PICK m, n \in Nat : m = Len(w) /\ n = Len(e)
  BY <1>1
<1>3. Len(v) = m + n
  BY <1>1, <1>2
<1>4. ASSUME NEW i \in 1 .. m PROVE i \in 1 .. m + n /\ v[i] = w[i]
  BY <1>1, <1>2, <1>3
<1>5. ASSUME NEW i \in 1 .. m + n, i \notin 1 .. m PROVE i - m \in 1 .. n /\ v[i] = e[i - m]
  BY <1>1, <1>2, <1>3, <1>5
<1>6. ASSUME NEW h \in 1 .. n PROVE m + h \in 1 .. m + n /\ m + h \notin 1 .. m /\ v[m + h] = e[h]
  <2>1. m + h \in 1 .. m + n /\ ~(m + h <= m) /\ (m + h) - m = h
    OBVIOUS
  <2> QED BY <1>1, <1>2, <1>3, <2>1
<1>7. \A i \in 1 .. m, j \in 1 .. m + n : j \notin 1 .. m => j > i
  OBVIOUS
<1>8. n = 1 => \A i, j \in 1 .. m + n : i \notin 1 .. m /\ j \notin 1 .. m => i = j
  OBVIOUS
<1> QED BY <1>1, <1>2, <1>3, <1>4, <1>5, <1>6, <1>7, <1>8 DEF Extends

(* The first of them is gone.                                              *)
LEMMA WireShorter ==
  ASSUME NEW w \in Seq(Msgs), w # <<>>, NEW v, v = Tail(w)
  PROVE  /\ v \in Seq(Msgs) /\ Len(w) \in Nat /\ Len(v) \in Nat /\ Len(v) + 1 = Len(w) /\ 1 \in 1 .. Len(w) /\ Head(w) = w[1]
         /\ \A i \in 1 .. Len(v) : i + 1 \in 1 .. Len(w) /\ v[i] = w[i + 1] /\ i + 1 > 1
         /\ \A j \in 1 .. Len(w) : j # 1 => j - 1 \in 1 .. Len(v) /\ v[j - 1] = w[j]
         /\ \A j \in 1 .. Len(w) : j > 1 => j # 1
         /\ \A i \in 1 .. Len(v), j \in 1 .. Len(w) : j > i + 1 => j # 1 /\ j - 1 > i
         /\ \A i, j \in 1 .. Len(v) : (i + 1 = j + 1 => i = j) /\ (j < i => j + 1 < i + 1)
<1>1. Len(w) \in Nat /\ Len(w) >= 1 /\ Head(w) = w[1]
  OBVIOUS
<1>2. v \in Seq(Msgs) /\ Len(v) = Len(w) - 1 /\ \A i \in 1 .. Len(v) : v[i] = w[i + 1]
  OBVIOUS
<1>3. PICK n \in Nat : Len(w) = n + 1
  <2>1. PICK n : n = Len(w) - 1
    OBVIOUS
  <2> QED BY <1>1, <2>1
<1>4. Len(v) = n
  BY <1>2, <1>3
<1>5. /\ \A i \in 1 .. n : i + 1 \in 1 .. n + 1 /\ i + 1 > 1
      /\ \A j \in 1 .. n + 1 : j # 1 => j - 1 \in 1 .. n /\ (j - 1) + 1 = j
      /\ \A j \in 1 .. n + 1 : j > 1 => j # 1
      /\ \A i \in 1 .. n, j \in 1 .. n + 1 : j > i + 1 => j # 1 /\ j - 1 > i
      /\ \A i, j \in 1 .. n : (i + 1 = j + 1 => i = j) /\ (j < i => j + 1 < i + 1)
  OBVIOUS
<1> QED BY <1>1, <1>2, <1>3, <1>4, <1>5

(* What the messages, the rows, the turns and the window are made of.      *)
LEMMA MsgIs ==
  ASSUME NEW w \in Seq(Msgs), NEW i \in 1 .. Len(w)
  PROVE  /\ w[i] \in Msgs /\ w[i].kind \in MsgKinds /\ w[i].on \in Threads /\ w[i].item \in Items \cup {NoItem}
         /\ w[i].those \subseteq AppThreads \cup Items
<1>1. w[i] \in Msgs
  BY ElementOfSeq
<1> QED BY <1>1 DEF Msgs

LEMMA PageIs ==
  ASSUME NEW p \in Pages
  PROVE  /\ p = [pc |-> p.pc, listed |-> p.listed, active |-> p.active, shown |-> p.shown, cards |-> p.cards,
                 running |-> p.running,
                 asks |-> p.asks, describing |-> p.describing, sending |-> p.sending, raced |-> p.raced, opened |-> p.opened]
         /\ p.pc \in {"closed", "loading", "up"} /\ p.listed \subseteq AppThreads /\ p.active \in Threads /\ p.shown \subseteq Items
         /\ p.cards \subseteq Cards /\ p.running \subseteq AppThreads /\ p.asks \subseteq AppThreads
         /\ p.describing \subseteq SUBSET Items /\ p.sending \in {"no", "creating", "listing"} /\ p.raced \in BOOLEAN
         /\ p.opened \in 0 .. MaxWindows
  BY DEF Pages

PageRec(pc, listed, viewed, shown, cards, running, asks, describing, sending, raced, nth) ==
  [pc |-> pc, listed |-> listed, active |-> viewed, shown |-> shown, cards |-> cards, running |-> running,
   asks |-> asks, describing |-> describing, sending |-> sending, raced |-> raced, opened |-> nth]
PageFrom(p) == PageRec(p.pc, p.listed, p.active, p.shown, p.cards, p.running, p.asks, p.describing, p.sending, p.raced, p.opened)
LEMMA PageShape ==
  ASSUME NEW p \in Pages
  PROVE  p = PageFrom(p)
  BY PageIs DEF PageRec, PageFrom

LEMMA PageMade ==
  ASSUME NEW pc \in {"closed", "loading", "up"}, NEW listed \in SUBSET AppThreads, NEW viewed \in Threads, NEW shown \in SUBSET Items,
         NEW cards \in SUBSET Cards, NEW running \in SUBSET AppThreads, NEW asks \in SUBSET AppThreads,
         NEW describing \in SUBSET (SUBSET Items), NEW sending \in {"no", "creating", "listing"}, NEW raced \in BOOLEAN,
         NEW nth \in 0 .. MaxWindows, NEW q,
         q = PageRec(pc, listed, viewed, shown, cards, running, asks, describing, sending, raced, nth)
  PROVE  /\ q \in Pages
         /\ q.pc = pc /\ q.listed = listed /\ q.active = viewed /\ q.shown = shown /\ q.cards = cards /\ q.running = running
         /\ q.asks = asks /\ q.describing = describing /\ q.sending = sending /\ q.raced = raced /\ q.opened = nth
<1>1. q \in Pages
  BY DEF Pages, PageRec
<1> QED BY <1>1 DEF PageRec

LEMMA RunIs ==
  ASSUME NEW r \in RunRecs
  PROVE  /\ r = [on |-> r.on, demo |-> r.demo, mode |-> r.mode, pc |-> r.pc, calls |-> r.calls, steers |-> r.steers, said |-> r.said,
                 stopped |-> r.stopped, round |-> r.round, n |-> r.n, plan |-> r.plan]
         /\ r.on \in Threads /\ r.demo \in BOOLEAN /\ r.mode \in Modes \cup {"agent"} /\ r.pc \in AlivePcs \cup {"none", "over"}
         /\ r.calls \in Seq(Calls) /\ r.steers \in 0 .. MaxSteers /\ r.steers <= r.said /\ r.said \in 0 .. MaxSteers /\ r.stopped \in BOOLEAN
         /\ r.round \in 0 .. MaxAppRounds /\ r.n \in Nat /\ r.plan \in Items \cup {NoItem}
  BY DEF RunRecs, RunShapes

LEMMA AppNow ==
  ASSUME NEW w, NEW p, AppInvAt(w, p)
  PROVE  /\ Shapes(w, p) /\ RunsInv /\ UnusedInv(w, p) /\ PageInv(w, p) /\ MarksInv(w, p) /\ AsksInv(w, p) /\ ToldInv(w, p)
         /\ OneWait(w, p) /\ NewInv(w, p) /\ ShownInv(w, p)
         /\ w \in Seq(Msgs) /\ Len(w) \in Nat /\ Len(w) <= MaxWire /\ p \in Pages /\ DOMAIN w = 1 .. Len(w)
         /\ rows \in [AppThreads -> RowRecs] /\ runs \in [RunIds -> RunRecs] /\ sessions \in [AppThreads -> 0 .. MaxAppTurns]
         /\ \A t \in AppThreads : rows[t] \in RowRecs /\ sessions[t] \in 0 .. MaxAppTurns
         /\ \A t \in AppThreads : sessions[t] # 0 => sessions[t] \in RunIds
         /\ \A k \in RunIds : runs[k] \in RunRecs
<1>1. /\ Shapes(w, p) /\ RunsInv /\ UnusedInv(w, p) /\ PageInv(w, p) /\ MarksInv(w, p) /\ AsksInv(w, p) /\ ToldInv(w, p)
      /\ OneWait(w, p) /\ NewInv(w, p) /\ ShownInv(w, p)
  BY DEF AppInvAt
<1>2. /\ w \in Seq(Msgs) /\ Len(w) <= MaxWire /\ p \in Pages
      /\ rows \in [AppThreads -> RowRecs] /\ runs \in [RunIds -> RunRecs] /\ sessions \in [AppThreads -> 0 .. MaxAppTurns]
  BY <1>1 DEF Shapes
<1>3. Len(w) \in Nat /\ DOMAIN w = 1 .. Len(w)
  BY <1>2
<1>4. /\ \A t \in AppThreads : rows[t] \in RowRecs /\ sessions[t] \in 0 .. MaxAppTurns
      /\ \A k \in RunIds : runs[k] \in RunRecs
  BY <1>2
<1>5. \A t \in AppThreads : sessions[t] # 0 => sessions[t] \in RunIds
  BY <1>4, AppConstants DEF RunIds
<1> QED BY <1>1, <1>2, <1>3, <1>4, <1>5

(* Only the wire and the window changed.                                   *)
LEMMA AppInvThere ==
  ASSUME NEW v, NEW q, AppInvAt(v, q), wire' = v, page' = q, UNCHANGED <<rows, checkout, runs, sessions, making, deleting, job>>
  PROVE  AppInv'
<1>1. Shapes(wire, page)' = Shapes(v, q)
  BY DEF Shapes
<1>2. RunsInv' = RunsInv
  BY DEF RunsInv, Goes, Stays, Leaving
<1>3. UnusedInv(wire, page)' = UnusedInv(v, q)
  BY DEF UnusedInv, Leaving
<1>4. PageInv(wire, page)' = PageInv(v, q)
  BY DEF PageInv
<1>5. MarksInv(wire, page)' = MarksInv(v, q)
  BY DEF MarksInv, Marks, Says, Stays, Leaving
<1>6. AsksInv(wire, page)' = AsksInv(v, q)
  BY DEF AsksInv, Ended, Goes, Stays, Leaving
<1>7. ToldInv(wire, page)' = ToldInv(v, q)
  BY DEF ToldInv, Tells, Known, OnWay, Stays, Leaving
<1>8. OneWait(wire, page)' = OneWait(v, q)
  BY DEF OneWait
<1>9. NewInv(wire, page)' = NewInv(v, q)
  BY DEF NewInv, Bare, Stays, Leaving
<1>10. ShownInv(wire, page)' = ShownInv(v, q)
  BY DEF ShownInv, Tells, Known, OnWay, Stays, Leaving
<1> QED BY <1>1, <1>2, <1>3, <1>4, <1>5, <1>6, <1>7, <1>8, <1>9, <1>10 DEF AppInv, AppInvAt

(* No turn, and no window.                                                 *)
LEMMA NoRunIs == NoRun \in RunRecs /\ NoRun.pc = "none" /\ NoRun.on = "none" /\ NoRun.n = 0 /\ NoRun.stopped = FALSE /\ NoRun.plan = NoItem
<1>1. /\ NoItem \in Items \cup {NoItem} /\ "none" \in Threads /\ <<>> \in Seq(Calls) /\ 0 \in Nat /\ 0 \in 0 .. MaxSteers /\ 0 \in 0 .. MaxAppRounds
      /\ FALSE \in BOOLEAN /\ "agent" \in Modes \cup {"agent"} /\ "none" \in AlivePcs \cup {"none", "over"}
  BY AppConstants DEF Threads
<1>2. PICK none, thing : none = <<>> /\ thing = NoItem
  OBVIOUS
<1>3. NoRun = [on |-> "none", demo |-> FALSE, mode |-> "agent", pc |-> "none", calls |-> none, steers |-> 0, said |-> 0,
               stopped |-> FALSE, round |-> 0, n |-> 0, plan |-> thing]
  BY <1>2 DEF NoRun
<1>4. NoRun \in RunRecs
  BY <1>1, <1>2, <1>3 DEF RunRecs, RunShapes
<1> QED BY <1>2, <1>3, <1>4

LEMMA ClosedIs ==
  Closed \in Pages /\ Closed.pc = "closed" /\ Closed.opened = 0
<1>1. /\ "closed" \in {"closed", "loading", "up"} /\ {} \in SUBSET AppThreads /\ "none" \in Threads /\ {} \in SUBSET Items
      /\ {} \in SUBSET Cards /\ {} \in SUBSET (SUBSET Items) /\ "no" \in {"no", "creating", "listing"} /\ FALSE \in BOOLEAN
      /\ 0 \in 0 .. MaxWindows
  BY AppConstants DEF Threads
<1>2. PICK none : none = {}
  OBVIOUS
<1>3. Closed = [pc |-> "closed", listed |-> none, active |-> "none", shown |-> none, cards |-> none,
                running |-> none, asks |-> none,
                describing |-> none, sending |-> "no", raced |-> FALSE, opened |-> 0]
  BY <1>2 DEF Closed
<1>4. Closed \in Pages
  BY <1>1, <1>2, <1>3 DEF Pages
<1> QED BY <1>3, <1>4

(* A window that is not there, and nothing that turns.                     *)
LEMMA AppInvInit == AppInit => AppInv
<1> SUFFICES ASSUME AppInit PROVE AppInv
  OBVIOUS
<1>1. PICK w, p : w = wire /\ p = page
  OBVIOUS
<1>2. w = <<>> /\ p = Closed /\ making = {} /\ deleting = {} /\ job \in {"none", "on"} /\ checkout = TRUE
  BY <1>1 DEF AppInit
<1>3. Len(w) = 0 /\ 1 .. Len(w) = {} /\ w \in Seq(Msgs)
  BY <1>2
<1>4. NoItem \in Items \cup {NoItem} /\ "none" \in Threads /\ <<>> \in Seq(Calls) /\ 0 \in Nat /\ 0 \in 0 .. MaxSteers /\ 0 \in 0 .. MaxAppRounds
      /\ 0 \in 0 .. MaxAppTurns /\ 0 \in 0 .. MaxWindows
  BY AppConstants DEF Threads
<1>5. NoRun \in RunRecs /\ NoRun.pc = "none"
  BY NoRunIs
<1>6. p \in Pages
  BY <1>2, ClosedIs
<1>7. /\ rows \in [AppThreads -> RowRecs]
      /\ \A t \in AppThreads : rows[t].items = {}
  BY DEF AppInit, Unused, RowRecs
<1>8. /\ runs = [k \in RunIds |-> NoRun] /\ sessions = [t \in AppThreads |-> 0]
  BY DEF AppInit
<1>9. /\ \A k \in RunIds : runs[k] = NoRun
      /\ \A t \in AppThreads : sessions[t] = 0
  BY <1>8
<1>10. Shapes(w, p)
  BY <1>2, <1>3, <1>4, <1>5, <1>6, <1>7, <1>8, AppConstants DEF Shapes
<1>11. RunsInv
  BY <1>5, <1>9 DEF RunsInv, Goes, AlivePcs
<1>12. /\ p.pc = "closed" /\ p.running = {} /\ p.asks = {} /\ p.listed = {} /\ p.active = "none" /\ p.cards = {}
  BY <1>2 DEF Closed
<1>13. UnusedInv(w, p)
  BY <1>2, <1>3, <1>7, <1>9, <1>12, AppConstants DEF UnusedInv, Leaving
<1>14. PageInv(w, p)
  <2>1. p = [Closed EXCEPT !.opened = p.opened]
    BY <1>2 DEF Closed
  <2> QED BY <1>2, <1>3, <1>12, <2>1 DEF PageInv
<1>15. MarksInv(w, p) /\ AsksInv(w, p) /\ ToldInv(w, p)
  BY <1>3, <1>12 DEF MarksInv, AsksInv, ToldInv
<1>16. OneWait(w, p) /\ NewInv(w, p) /\ ShownInv(w, p)
  BY <1>12 DEF OneWait, NewInv, ShownInv
<1> QED BY <1>1, <1>10, <1>11, <1>13, <1>14, <1>15, <1>16 DEF AppInv, AppInvAt

(* What a row keeps.                                                       *)
LEMMA RowKept ==
  ASSUME rows \in [AppThreads -> RowRecs], NEW t \in AppThreads, NEW items \in SUBSET Items, NEW r, r = Kept(rows, t, items)
  PROVE  /\ r \in [AppThreads -> RowRecs]
         /\ \A u \in AppThreads : r[u].state = rows[u].state /\ (u # t => r[u] = rows[u])
         /\ rows[t].state = "here" => r[t].items = rows[t].items \cup items
         /\ rows[t].state # "here" => r = rows
<1>1. CASE rows[t].state = "here"
  <2>1. PICK s : s = rows[t].items \cup items
    OBVIOUS
  <2>2. r = [rows EXCEPT ![t].items = s]
    BY <1>1, <2>1 DEF Kept
  <2>3. rows[t] \in RowRecs /\ s \in SUBSET Items
    BY <2>1 DEF RowRecs
  <2>4. rows[t] = [state |-> rows[t].state, tree |-> rows[t].tree, dir |-> rows[t].dir, items |-> rows[t].items]
    BY <2>3 DEF RowRecs
  <2>5. PICK row : row = [state |-> rows[t].state, tree |-> rows[t].tree, dir |-> rows[t].dir, items |-> s]
    OBVIOUS
  <2>6. row \in RowRecs /\ row.state = rows[t].state /\ row.items = s
    BY <2>3, <2>5 DEF RowRecs
  <2>7. r = [u \in AppThreads |-> IF u = t THEN row ELSE rows[u]]
    BY <2>2, <2>4, <2>5
  <2> QED BY <1>1, <2>1, <2>6, <2>7
<1>2. CASE rows[t].state # "here"
  BY <1>2 DEF Kept
<1> QED BY <1>1, <1>2

(* One step of main: what it tells, in order, and what the row, the turn   *)
(* and the window have afterwards.                                         *)
EventKinds == {"begun", "item", "ask", "start", "end", "auto", "deleted"}
Events(e) ==
  e \in Seq(Msgs) /\ \A h \in 1 .. Len(e) : /\ e[h].kind \in EventKinds /\ e[h].on \in AppThreads
                                            /\ (e[h].kind \in {"begun", "item", "ask"} => e[h].item \in Items)
SameState ==
  /\ rows' \in [AppThreads -> RowRecs] /\ runs' \in [RunIds -> RunRecs] /\ sessions' \in [AppThreads -> 0 .. MaxAppTurns]
  /\ job' \in {"none", "on"} /\ checkout' \in BOOLEAN /\ making' = making
  /\ deleting' \subseteq AppThreads \X (1 .. MaxWindows) \X {"project", "tree"}
PageGrown(p, q, X) ==
  /\ q \in Pages /\ q.pc = p.pc /\ q.listed = p.listed /\ q.active = p.active /\ q.shown = p.shown \cup X /\ q.cards = p.cards
  /\ q.running = p.running /\ q.asks = p.asks /\ q.describing = p.describing /\ q.sending = p.sending /\ q.raced = p.raced
  /\ q.opened = p.opened
UnusedFollow(e) ==
  \A t \in AppThreads : rows'[t].state = "unused" =>
    /\ rows[t].state = "unused" /\ rows'[t].items = rows[t].items /\ sessions'[t] = sessions[t] /\ ~Leaving(t)'
    /\ \A h \in 1 .. Len(e) : e[h].on # t
MarksFollow(e) ==
  \A t \in AppThreads : Stays(t)' =>
    /\ Stays(t) /\ ((\E h \in 1 .. Len(e) : Marks(e[h], t)) \/ (sessions'[t] = 0 <=> sessions[t] = 0))
    /\ \A h \in 1 .. Len(e) : Marks(e[h], t) => (Says(e[h], t) <=> sessions'[t] # 0)
AskStands(w, p, t, k) ==
  /\ runs[k].stopped => runs'[k].stopped
  /\ runs[k].pc = "asking" => \/ runs'[k].stopped
                              \/ runs'[k].pc = "asking" /\ runs'[k].n = runs[k].n
                              \/ t \notin p.asks /\ \A i \in 1 .. Len(w) : w[i].kind = "ask" /\ w[i].on = t => w[i].item.run # k
AsksFollow(w, p, e) ==
  /\ \A t \in AppThreads : Stays(t)' =>
       /\ Stays(t)
       /\ sessions[t] # 0 => (\E h \in 1 .. Len(e) : Ended(e[h], t)) \/ (sessions'[t] = sessions[t] /\ AskStands(w, p, t, sessions[t]))
  /\ \A h \in 1 .. Len(e) : e[h].kind = "ask" =>
       /\ Len(e) = 1 /\ Goes(e[h].item.run) /\ runs[e[h].item.run].n < e[h].item.n
       /\ runs'[e[h].item.run].pc = "asking" /\ runs'[e[h].item.run].n = e[h].item.n
       /\ Stays(e[h].on)' => sessions'[e[h].on] = e[h].item.run
  /\ \A k \in RunIds : runs[k].pc # "none" => runs'[k].pc # "none" /\ (Goes(k)' => Goes(k) /\ runs[k].n <= runs'[k].n)
TellsFollow(e) ==
  \A t \in AppThreads : Stays(t)' =>
    Stays(t) /\ Known(t) \subseteq Known(t)' /\ \A h \in 1 .. Len(e) : Tells(e[h], t) => e[h].item \in Known(t)'
NewFollow(w, p) ==
  p.pc = "up" /\ ~p.raced =>
    /\ \A d \in making : d[2] = p.opened /\ Bare(d[1]) => Bare(d[1])'
    /\ \A i \in 1 .. Len(w) : w[i].kind \in {"created", "listed"} /\ Bare(w[i].on) => Bare(w[i].on)'
ShownFollow(w, p, e, X) ==
  p.pc = "up" /\ ~p.raced /\ p.active \in AppThreads /\ p.sending = "no" /\ Stays(p.active)' =>
    /\ X \subseteq Known(p.active)'
    /\ \A x \in rows'[p.active].items : \/ x \in rows[p.active].items \/ (x \in X /\ \A i \in 1 .. Len(w) : w[i].kind # "got")
                                        \/ \E h \in 1 .. Len(e) : Tells(e[h], p.active) /\ e[h].item = x

LEMMA MarksKept ==
  ASSUME NEW w \in Seq(Msgs), NEW p, NEW e, Events(e), NEW v, Lengthened(v, w, e), wire' = v, MarksInv(w, p), MarksFollow(e),
         page'.pc = p.pc, page'.running = p.running
  PROVE  MarksInv(wire, page)'
<1>0. Extends(v, w, e)
  BY WireLonger DEF Events
<1>1. PICK q : q = page'
  OBVIOUS
<1>2. /\ Len(w) \in Nat
      /\ \A i \in 1 .. Len(w) : i \in 1 .. Len(v) /\ v[i] = w[i]
      /\ \A i \in 1 .. Len(v) : i \notin 1 .. Len(w) => \E h \in 1 .. Len(e) : v[i] = e[h]
      /\ \A h \in 1 .. Len(e) : \E i \in 1 .. Len(v) : i \notin 1 .. Len(w) /\ v[i] = e[h]
      /\ \A i \in 1 .. Len(w), j \in 1 .. Len(v) : j \notin 1 .. Len(w) => j > i
  BY <1>0 DEF Extends
<1> SUFFICES ASSUME NEW t \in AppThreads, Stays(t)'
             PROVE  /\ \A i \in 1 .. Len(v) : Marks(v[i], t) =>
                         (\E j \in 1 .. Len(v) : j > i /\ Marks(v[j], t)) \/ (Says(v[i], t) <=> sessions'[t] # 0)
                    /\ q.pc = "up" => (\E j \in 1 .. Len(v) : Marks(v[j], t)) \/ (t \in q.running <=> sessions'[t] # 0)
  BY <1>1 DEF MarksInv, Marks, Says
<1>3. /\ Stays(t) /\ ((\E h \in 1 .. Len(e) : Marks(e[h], t)) \/ (sessions'[t] = 0 <=> sessions[t] = 0))
      /\ \A h \in 1 .. Len(e) : Marks(e[h], t) => (Says(e[h], t) <=> sessions'[t] # 0)
  BY DEF MarksFollow
<1>4. /\ \A i \in 1 .. Len(w) : Marks(w[i], t) =>
           (\E j \in 1 .. Len(w) : j > i /\ Marks(w[j], t)) \/ (Says(w[i], t) <=> sessions[t] # 0)
      /\ p.pc = "up" => (\E j \in 1 .. Len(w) : Marks(w[j], t)) \/ (t \in p.running <=> sessions[t] # 0)
  BY <1>3 DEF MarksInv
<1>5. ASSUME NEW i \in 1 .. Len(v), Marks(v[i], t)
      PROVE  (\E j \in 1 .. Len(v) : j > i /\ Marks(v[j], t)) \/ (Says(v[i], t) <=> sessions'[t] # 0)
  <2>1. CASE i \in 1 .. Len(w)
    <3>1. CASE \E h \in 1 .. Len(e) : Marks(e[h], t)
      <4>1. PICK h \in 1 .. Len(e) : Marks(e[h], t)
        BY <3>1
      <4>2. PICK j \in 1 .. Len(v) : j \notin 1 .. Len(w) /\ v[j] = e[h]
        BY <1>2
      <4> QED BY <1>2, <2>1, <4>1, <4>2
    <3>2. CASE sessions'[t] = 0 <=> sessions[t] = 0
      BY <1>2, <1>4, <1>5, <2>1, <3>2
    <3> QED BY <1>3, <3>1, <3>2
  <2>2. CASE i \notin 1 .. Len(w)
    BY <1>2, <1>3, <1>5, <2>2
  <2> QED BY <2>1, <2>2
<1>6. ASSUME q.pc = "up" PROVE (\E j \in 1 .. Len(v) : Marks(v[j], t)) \/ (t \in q.running <=> sessions'[t] # 0)
  <2>1. p.pc = "up" /\ q.running = p.running
    BY <1>1, <1>6
  <2>2. CASE \E h \in 1 .. Len(e) : Marks(e[h], t)
    BY <1>2, <2>2
  <2>3. CASE sessions'[t] = 0 <=> sessions[t] = 0
    BY <1>2, <1>4, <2>1, <2>3
  <2> QED BY <1>3, <2>2, <2>3
<1> QED BY <1>5, <1>6

LEMMA ToldKept ==
  ASSUME NEW w \in Seq(Msgs), NEW p, NEW e, Events(e), NEW v, Lengthened(v, w, e), wire' = v, ToldInv(w, p), TellsFollow(e)
  PROVE  ToldInv(wire, page)'
<1>0. Extends(v, w, e)
  BY WireLonger DEF Events
<1>2. /\ \A i \in 1 .. Len(w) : i \in 1 .. Len(v) /\ v[i] = w[i]
      /\ \A i \in 1 .. Len(v) : i \notin 1 .. Len(w) => \E h \in 1 .. Len(e) : v[i] = e[h]
  BY <1>0 DEF Extends
<1> SUFFICES ASSUME NEW t \in AppThreads, Stays(t)', NEW i \in 1 .. Len(v), Tells(v[i], t)
             PROVE  v[i].item \in Known(t)'
  BY DEF ToldInv, Tells
<1>3. Stays(t) /\ Known(t) \subseteq Known(t)' /\ \A h \in 1 .. Len(e) : Tells(e[h], t) => e[h].item \in Known(t)'
  BY DEF TellsFollow
<1>4. CASE i \in 1 .. Len(w)
  BY <1>2, <1>3, <1>4 DEF ToldInv
<1>5. CASE i \notin 1 .. Len(w)
  BY <1>2, <1>3, <1>5
<1> QED BY <1>4, <1>5

LEMMA AsksKept ==
  ASSUME NEW w \in Seq(Msgs), NEW p, NEW e, Events(e), NEW v, Lengthened(v, w, e), wire' = v, AsksInv(w, p), AsksFollow(w, p, e),
         page'.asks = p.asks, page'.cards = p.cards, p.cards \subseteq Cards, runs' \in [RunIds -> RunRecs], runs \in [RunIds -> RunRecs],
         \A i \in 1 .. Len(w) : w[i].kind = "ask" => w[i].item \in Items
  PROVE  AsksInv(wire, page)'
<1>0. Extends(v, w, e)
  BY WireLonger DEF Events
<1>1. PICK q : q = page'
  OBVIOUS
<1>2. /\ Len(w) \in Nat
      /\ \A i \in 1 .. Len(w) : i \in 1 .. Len(v) /\ v[i] = w[i]
      /\ \A i \in 1 .. Len(v) : i \notin 1 .. Len(w) => \E h \in 1 .. Len(e) : v[i] = e[h]
      /\ \A h \in 1 .. Len(e) : \E i \in 1 .. Len(v) : i \notin 1 .. Len(w) /\ v[i] = e[h]
      /\ \A i \in 1 .. Len(w), j \in 1 .. Len(v) : j \notin 1 .. Len(w) => j > i
      /\ Len(e) = 1 => \A i, j \in 1 .. Len(v) : i \notin 1 .. Len(w) /\ j \notin 1 .. Len(w) => i = j
  BY <1>0 DEF Extends
<1>3. ASSUME NEW t \in AppThreads, Stays(t)', sessions[t] # 0
      PROVE  /\ Stays(t)
             /\ (\E h \in 1 .. Len(e) : Ended(e[h], t)) \/ (sessions'[t] = sessions[t] /\ AskStands(w, p, t, sessions[t]))
  BY <1>3 DEF AsksFollow
<1>4. ASSUME NEW h \in 1 .. Len(e), e[h].kind = "ask"
      PROVE  /\ Len(e) = 1 /\ Goes(e[h].item.run) /\ runs[e[h].item.run].n < e[h].item.n
             /\ runs'[e[h].item.run].pc = "asking" /\ runs'[e[h].item.run].n = e[h].item.n
             /\ Stays(e[h].on)' => sessions'[e[h].on] = e[h].item.run
             /\ e[h].item \in Items /\ e[h].item.run \in RunIds /\ e[h].item.n \in Nat
  BY <1>4 DEF AsksFollow, Events, Items
<1>5. ASSUME NEW k \in RunIds, runs[k].pc # "none"
      PROVE  runs'[k].pc # "none" /\ (Goes(k)' => Goes(k) /\ runs[k].n <= runs'[k].n) /\ runs[k].n \in Nat /\ runs'[k].n \in Nat
  BY <1>5 DEF AsksFollow, RunRecs, RunShapes
<1>6. \A k \in RunIds : k # 0
  BY AppConstants DEF RunIds
<1>7. ASSUME NEW t \in AppThreads, Stays(t)'
      PROVE  Stays(t) \/ sessions[t] = 0
  BY <1>3, <1>7
<1>8. ASSUME NEW t \in AppThreads, Stays(t)', NEW i \in 1 .. Len(v), v[i].kind = "ask", v[i].on = t, Stays(t)
      PROVE  \/ \E j \in 1 .. Len(v) : j > i /\ Ended(v[j], t)
             \/ /\ sessions'[t] # 0 /\ v[i].item.run = sessions'[t]
                /\ runs'[sessions'[t]].stopped \/ (runs'[sessions'[t]].pc = "asking" /\ v[i].item.n = runs'[sessions'[t]].n)
  <2>1. CASE i \in 1 .. Len(w)
    <3>1. v[i] = w[i]
      BY <1>2, <2>1
    <3>2. CASE \E j \in 1 .. Len(w) : j > i /\ Ended(w[j], t)
      BY <1>2, <3>2
    <3>3. CASE ~\E j \in 1 .. Len(w) : j > i /\ Ended(w[j], t)
      <4>1. /\ sessions[t] # 0 /\ w[i].item.run = sessions[t]
            /\ runs[sessions[t]].stopped \/ (runs[sessions[t]].pc = "asking" /\ w[i].item.n = runs[sessions[t]].n)
        BY <1>8, <2>1, <3>1, <3>3 DEF AsksInv
      <4>2. CASE \E h \in 1 .. Len(e) : Ended(e[h], t)
        <5>1. PICK h \in 1 .. Len(e) : Ended(e[h], t)
          BY <4>2
        <5>2. PICK j \in 1 .. Len(v) : j \notin 1 .. Len(w) /\ v[j] = e[h]
          BY <1>2
        <5> QED BY <1>2, <2>1, <5>1, <5>2
      <4>3. CASE sessions'[t] = sessions[t] /\ AskStands(w, p, t, sessions[t])
        BY <1>8, <2>1, <3>1, <4>1, <4>3 DEF AskStands
      <4> QED BY <1>3, <1>8, <4>1, <4>2, <4>3
    <3> QED BY <3>2, <3>3
  <2>2. CASE i \notin 1 .. Len(w)
    <3>1. PICK h \in 1 .. Len(e) : v[i] = e[h]
      BY <1>2, <2>2
    <3>2. sessions'[t] = e[h].item.run /\ runs'[e[h].item.run].pc = "asking" /\ runs'[e[h].item.run].n = e[h].item.n /\ e[h].item.run \in RunIds
      BY <1>4, <1>8, <3>1
    <3> QED BY <1>6, <3>1, <3>2
  <2> QED BY <2>1, <2>2
<1>9. ASSUME NEW t \in AppThreads, Stays(t)', t \in q.asks, Stays(t)
      PROVE  \/ \E j \in 1 .. Len(v) : Ended(v[j], t)
             \/ sessions'[t] # 0 /\ (runs'[sessions'[t]].stopped \/ runs'[sessions'[t]].pc = "asking")
  <2>1. t \in p.asks
    BY <1>1, <1>9
  <2>2. CASE \E j \in 1 .. Len(w) : Ended(w[j], t)
    BY <1>2, <2>2
  <2>3. CASE ~\E j \in 1 .. Len(w) : Ended(w[j], t)
    <3>1. sessions[t] # 0 /\ (runs[sessions[t]].stopped \/ runs[sessions[t]].pc = "asking")
      BY <1>9, <2>1, <2>3 DEF AsksInv
    <3>2. CASE \E h \in 1 .. Len(e) : Ended(e[h], t)
      BY <1>2, <3>2
    <3>3. CASE sessions'[t] = sessions[t] /\ AskStands(w, p, t, sessions[t])
      BY <2>1, <3>1, <3>3 DEF AskStands
    <3> QED BY <1>3, <1>9, <3>1, <3>2, <3>3
  <2> QED BY <2>2, <2>3
<1>10. ASSUME NEW t \in AppThreads, Stays(t)' PROVE Stays(t)
  BY <1>10 DEF AsksFollow
<1>11. ASSUME NEW i \in 1 .. Len(v), v[i].kind = "ask"
       PROVE  /\ runs'[v[i].item.run].pc # "none" /\ (Goes(v[i].item.run)' => v[i].item.n <= runs'[v[i].item.run].n)
              /\ \A c \in q.cards : c.item.run = v[i].item.run => c.item.n < v[i].item.n
              /\ \A j \in 1 .. Len(v) : v[j].kind = "ask" /\ v[j].item.run = v[i].item.run /\ j < i => v[j].item.n < v[i].item.n
  <2>1. CASE i \in 1 .. Len(w)
    <3>1. v[i] = w[i] /\ w[i].kind = "ask" /\ w[i].item \in Items
      BY <1>2, <1>11, <2>1
    <3>2. PICK k, n : k = w[i].item.run /\ n = w[i].item.n
      OBVIOUS
    <3>3. k \in RunIds /\ n \in Nat
      BY <3>1, <3>2 DEF Items
    <3>4. /\ runs[k].pc # "none" /\ (Goes(k) => n <= runs[k].n)
          /\ \A c \in p.cards : c.item.run = k => c.item.n < n
          /\ \A j \in 1 .. Len(w) : w[j].kind = "ask" /\ w[j].item.run = k /\ j < i => w[j].item.n < n
      BY <2>1, <3>1, <3>2 DEF AsksInv
    <3>5. runs'[k].pc # "none" /\ (Goes(k)' => n <= runs'[k].n)
      BY <1>5, <3>3, <3>4
    <3>6. ASSUME NEW j \in 1 .. Len(v), v[j].kind = "ask", v[j].item.run = k, j < i PROVE v[j].item.n < n
      <4>1. j \in 1 .. Len(w)
        BY <1>2, <2>1, <3>6
      <4> QED BY <1>2, <3>4, <3>6, <4>1
    <3> QED BY <1>1, <3>1, <3>2, <3>4, <3>5, <3>6
  <2>2. CASE i \notin 1 .. Len(w)
    <3>1. PICK h \in 1 .. Len(e) : v[i] = e[h]
      BY <1>2, <2>2
    <3>2. PICK k, n : k = e[h].item.run /\ n = e[h].item.n
      OBVIOUS
    <3>3. /\ Len(e) = 1 /\ Goes(k) /\ runs[k].n < n /\ runs'[k].pc = "asking" /\ runs'[k].n = n /\ k \in RunIds /\ n \in Nat
      BY <1>4, <1>11, <3>1, <3>2
    <3>4. runs[k].pc # "none" /\ runs[k].n \in Nat
      BY <3>3, <1>5 DEF Goes, AlivePcs
    <3>5. ASSUME NEW c \in p.cards, c.item.run = k PROVE c.item.n < n
      <4>1. c.item.n <= runs[k].n
        BY <3>3, <3>5 DEF AsksInv
      <4>2. c.item.n \in Nat
        BY <3>5 DEF Cards, Items
      <4> QED BY <3>3, <3>4, <4>1, <4>2
    <3>6. ASSUME NEW j \in 1 .. Len(v), v[j].kind = "ask", v[j].item.run = k, j < i PROVE v[j].item.n < n
      <4>1. CASE j \in 1 .. Len(w)
        <5>1. v[j] = w[j] /\ w[j].kind = "ask" /\ w[j].item \in Items
          BY <1>2, <3>6, <4>1
        <5>2. w[j].item.n <= runs[k].n
          BY <3>3, <3>6, <4>1, <5>1 DEF AsksInv
        <5>3. w[j].item.n \in Nat
          BY <5>1 DEF Items
        <5> QED BY <3>3, <3>4, <5>1, <5>2, <5>3
      <4>2. CASE j \notin 1 .. Len(w)
        <5>1. j = i
          BY <1>2, <2>2, <3>3, <4>2
        <5> QED BY <3>6, <5>1
      <4> QED BY <4>1, <4>2
    <3>7. n <= n
      BY <3>3
    <3> QED BY <1>1, <3>1, <3>2, <3>3, <3>5, <3>6, <3>7
  <2> QED BY <2>1, <2>2
<1>12. ASSUME NEW c \in q.cards
       PROVE  runs'[c.item.run].pc # "none" /\ (Goes(c.item.run)' => c.item.n <= runs'[c.item.run].n)
  <2>1. PICK k, n : k = c.item.run /\ n = c.item.n
    OBVIOUS
  <2>2. k \in RunIds /\ n \in Nat /\ c \in p.cards
    BY <1>1, <1>12, <2>1 DEF Cards, Items
  <2>3. runs[k].pc # "none" /\ (Goes(k) => n <= runs[k].n)
    BY <2>1, <2>2 DEF AsksInv
  <2> QED BY <1>5, <2>1, <2>2, <2>3
<1>13. \A t \in AppThreads : Stays(t)' =>
         /\ \A i \in 1 .. Len(v) : v[i].kind = "ask" /\ v[i].on = t =>
              \/ \E j \in 1 .. Len(v) : j > i /\ Ended(v[j], t)
              \/ /\ sessions'[t] # 0 /\ v[i].item.run = sessions'[t]
                 /\ runs'[sessions'[t]].stopped \/ (runs'[sessions'[t]].pc = "asking" /\ v[i].item.n = runs'[sessions'[t]].n)
         /\ t \in q.asks =>
              \/ \E j \in 1 .. Len(v) : Ended(v[j], t)
              \/ sessions'[t] # 0 /\ (runs'[sessions'[t]].stopped \/ runs'[sessions'[t]].pc = "asking")
  BY <1>8, <1>9, <1>10
<1> QED BY <1>1, <1>11, <1>12, <1>13 DEF AsksInv, Ended

LEMMA OneKept ==
  ASSUME NEW w \in Seq(Msgs), NEW p, NEW q, NEW e, Events(e), NEW v, Lengthened(v, w, e), wire' = v, page' = q, NEW X, PageGrown(p, q, X),
         OneWait(w, p), making' = making
  PROVE  OneWait(wire, page)'
<1>0. Extends(v, w, e)
  BY WireLonger DEF Events
<1>1. /\ \A i \in 1 .. Len(w) : i \in 1 .. Len(v) /\ v[i] = w[i]
      /\ \A i \in 1 .. Len(v) : i \notin 1 .. Len(w) => \E h \in 1 .. Len(e) : v[i] = e[h]
  BY <1>0 DEF Extends
<1>2. ASSUME NEW i \in 1 .. Len(v), v[i].kind \in {"got", "created", "listed"} PROVE i \in 1 .. Len(w) /\ v[i] = w[i]
  <2>1. ASSUME NEW h \in 1 .. Len(e) PROVE e[h].kind \notin {"got", "created", "listed"}
    BY DEF Events, EventKinds
  <2> QED BY <1>1, <1>2, <2>1
<1>3. /\ q.pc = p.pc /\ q.active = p.active /\ q.describing = p.describing /\ q.sending = p.sending /\ q.raced = p.raced /\ q.opened = p.opened
  BY DEF PageGrown
<1> SUFFICES ASSUME p.pc = "up", ~p.raced
             PROVE  /\ \A i \in 1 .. Len(v) : v[i].kind = "got" =>
                         /\ p.describing = {} /\ p.sending = "no" /\ v[i].on = p.active
                         /\ \A j \in 1 .. Len(v) : v[j].kind = "got" => i = j
                    /\ \A d, f \in p.describing : d = f
                    /\ p.describing # {} => p.sending = "no"
                    /\ \A i \in 1 .. Len(v) : v[i].kind = "created" =>
                         /\ p.sending = "creating" /\ v[i].those \subseteq {v[i].on}
                         /\ \A j \in 1 .. Len(v) : v[j].kind = "created" => i = j
                         /\ \A d \in making : d[2] # p.opened
                    /\ \A d \in making : d[2] = p.opened => p.sending = "creating"
                    /\ \A d, f \in making : d[2] = p.opened /\ f[2] = p.opened => d = f
                    /\ p.sending = "creating" => p.active = "none"
                    /\ \A i \in 1 .. Len(v) : v[i].kind = "listed" => p.sending = "listing" /\ v[i].on = p.active
                    /\ \A i, j \in 1 .. Len(v) : v[i].kind = "listed" /\ v[j].kind = "listed" => i = j
  BY <1>3 DEF OneWait
<1>4. /\ \A i \in 1 .. Len(w) : w[i].kind = "got" =>
           /\ p.describing = {} /\ p.sending = "no" /\ w[i].on = p.active
           /\ \A j \in 1 .. Len(w) : w[j].kind = "got" => i = j
      /\ \A d, f \in p.describing : d = f
      /\ p.describing # {} => p.sending = "no"
  BY DEF OneWait
<1>5. /\ \A i \in 1 .. Len(w) : w[i].kind = "created" =>
           /\ p.sending = "creating" /\ w[i].those \subseteq {w[i].on}
           /\ \A j \in 1 .. Len(w) : w[j].kind = "created" => i = j
           /\ \A d \in making : d[2] # p.opened
      /\ \A d \in making : d[2] = p.opened => p.sending = "creating"
      /\ \A d, f \in making : d[2] = p.opened /\ f[2] = p.opened => d = f
      /\ p.sending = "creating" => p.active = "none"
  BY DEF OneWait
<1>6. /\ \A i \in 1 .. Len(w) : w[i].kind = "listed" => p.sending = "listing" /\ w[i].on = p.active
      /\ \A i, j \in 1 .. Len(w) : w[i].kind = "listed" /\ w[j].kind = "listed" => i = j
  BY DEF OneWait
<1>7. ASSUME NEW i \in 1 .. Len(v), v[i].kind = "got"
      PROVE  /\ p.describing = {} /\ p.sending = "no" /\ v[i].on = p.active
             /\ \A j \in 1 .. Len(v) : v[j].kind = "got" => i = j
  BY <1>2, <1>4, <1>7
<1>8. ASSUME NEW i \in 1 .. Len(v), v[i].kind = "created"
      PROVE  /\ p.sending = "creating" /\ v[i].those \subseteq {v[i].on}
             /\ \A j \in 1 .. Len(v) : v[j].kind = "created" => i = j
             /\ \A d \in making : d[2] # p.opened
  BY <1>2, <1>5, <1>8
<1>9. ASSUME NEW i \in 1 .. Len(v), v[i].kind = "listed" PROVE p.sending = "listing" /\ v[i].on = p.active
  BY <1>2, <1>6, <1>9
<1>10. ASSUME NEW i \in 1 .. Len(v), NEW j \in 1 .. Len(v), v[i].kind = "listed", v[j].kind = "listed" PROVE i = j
  BY <1>2, <1>6, <1>10
<1> QED BY <1>4, <1>5, <1>7, <1>8, <1>9, <1>10

LEMMA NewKept ==
  ASSUME NEW w \in Seq(Msgs), NEW p, NEW q, NEW e, Events(e), NEW v, Lengthened(v, w, e), wire' = v, page' = q, NEW X, PageGrown(p, q, X),
         NewInv(w, p), making' = making, NewFollow(w, p)
  PROVE  NewInv(wire, page)'
<1>0. Extends(v, w, e)
  BY WireLonger DEF Events
<1>1. /\ \A i \in 1 .. Len(w) : i \in 1 .. Len(v) /\ v[i] = w[i]
      /\ \A i \in 1 .. Len(v) : i \notin 1 .. Len(w) => \E h \in 1 .. Len(e) : v[i] = e[h]
  BY <1>0 DEF Extends
<1>2. ASSUME NEW i \in 1 .. Len(v), v[i].kind \in {"created", "listed"} PROVE i \in 1 .. Len(w) /\ v[i] = w[i]
  <2>1. ASSUME NEW h \in 1 .. Len(e) PROVE e[h].kind \notin {"created", "listed"}
    BY DEF Events, EventKinds
  <2> QED BY <1>1, <1>2, <2>1
<1>3. q.pc = p.pc /\ q.raced = p.raced /\ q.opened = p.opened
  BY DEF PageGrown
<1> SUFFICES ASSUME p.pc = "up", ~p.raced
             PROVE  /\ \A d \in making : d[2] = p.opened => Bare(d[1])'
                    /\ \A i \in 1 .. Len(v) : v[i].kind \in {"created", "listed"} => Bare(v[i].on)'
  BY <1>3 DEF NewInv
<1>4. ASSUME NEW d \in making, d[2] = p.opened PROVE Bare(d[1])'
  BY <1>4 DEF NewInv, NewFollow
<1>5. ASSUME NEW i \in 1 .. Len(v), v[i].kind \in {"created", "listed"} PROVE Bare(v[i].on)'
  BY <1>2, <1>5 DEF NewInv, NewFollow
<1> QED BY <1>4, <1>5

LEMMA ShownKept ==
  ASSUME NEW w \in Seq(Msgs), NEW p, NEW q, NEW e, Events(e), NEW v, Lengthened(v, w, e), wire' = v, page' = q, NEW X, PageGrown(p, q, X),
         ShownInv(w, p), TellsFollow(e), ShownFollow(w, p, e, X)
  PROVE  ShownInv(wire, page)'
<1>0. Extends(v, w, e)
  BY WireLonger DEF Events
<1>1. /\ \A i \in 1 .. Len(w) : i \in 1 .. Len(v) /\ v[i] = w[i]
      /\ \A i \in 1 .. Len(v) : i \notin 1 .. Len(w) => \E h \in 1 .. Len(e) : v[i] = e[h]
      /\ \A h \in 1 .. Len(e) : \E i \in 1 .. Len(v) : i \notin 1 .. Len(w) /\ v[i] = e[h]
      /\ \A i \in 1 .. Len(w), j \in 1 .. Len(v) : j \notin 1 .. Len(w) => j > i
  BY <1>0 DEF Extends
<1>2. ASSUME NEW i \in 1 .. Len(v), v[i].kind = "got" PROVE i \in 1 .. Len(w) /\ v[i] = w[i]
  <2>1. ASSUME NEW h \in 1 .. Len(e) PROVE e[h].kind # "got"
    BY DEF Events, EventKinds
  <2> QED BY <1>1, <1>2, <2>1
<1>3. /\ q.pc = p.pc /\ q.active = p.active /\ q.shown = p.shown \cup X /\ q.describing = p.describing /\ q.sending = p.sending
      /\ q.raced = p.raced
  BY DEF PageGrown
<1>4. PICK a : a = p.active
  OBVIOUS
<1> SUFFICES ASSUME p.pc = "up", ~p.raced, a \in AppThreads, p.sending = "no", Stays(a)'
             PROVE  /\ \A i \in 1 .. Len(v) : v[i].kind = "got" =>
                         /\ \A x \in rows'[a].items : x \in v[i].those \/ \E j \in 1 .. Len(v) : j > i /\ Tells(v[j], a) /\ v[j].item = x
                         /\ v[i].those \subseteq Known(a)'
                    /\ (\A i \in 1 .. Len(v) : v[i].kind # "got") =>
                         /\ \A x \in rows'[a].items : \/ x \in q.shown \/ x \in UNION q.describing
                                                      \/ \E j \in 1 .. Len(v) : Tells(v[j], a) /\ v[j].item = x
                         /\ q.shown \cup UNION q.describing \subseteq Known(a)'
  BY <1>3, <1>4 DEF ShownInv, Tells
<1>5. /\ Stays(a) /\ Known(a) \subseteq Known(a)'
      /\ X \subseteq Known(a)'
      /\ \A x \in rows'[a].items : \/ x \in rows[a].items \/ (x \in X /\ \A i \in 1 .. Len(w) : w[i].kind # "got")
                                   \/ \E h \in 1 .. Len(e) : Tells(e[h], a) /\ e[h].item = x
  BY <1>4 DEF TellsFollow, ShownFollow
<1>6. /\ \A i \in 1 .. Len(w) : w[i].kind = "got" =>
           /\ \A x \in rows[a].items : x \in w[i].those \/ \E j \in 1 .. Len(w) : j > i /\ Tells(w[j], a) /\ w[j].item = x
           /\ w[i].those \subseteq Known(a)
      /\ (\A i \in 1 .. Len(w) : w[i].kind # "got") =>
           /\ \A x \in rows[a].items : \/ x \in p.shown \/ x \in UNION p.describing
                                       \/ \E j \in 1 .. Len(w) : Tells(w[j], a) /\ w[j].item = x
           /\ p.shown \cup UNION p.describing \subseteq Known(a)
  BY <1>4, <1>5 DEF ShownInv
<1>7. ASSUME NEW i \in 1 .. Len(v), v[i].kind = "got"
      PROVE  /\ \A x \in rows'[a].items : x \in v[i].those \/ \E j \in 1 .. Len(v) : j > i /\ Tells(v[j], a) /\ v[j].item = x
             /\ v[i].those \subseteq Known(a)'
  <2>1. i \in 1 .. Len(w) /\ v[i] = w[i] /\ w[i].kind = "got"
    BY <1>2, <1>7
  <2>2. v[i].those \subseteq Known(a)'
    BY <1>5, <1>6, <2>1
  <2>3. ASSUME NEW x \in rows'[a].items PROVE x \in v[i].those \/ \E j \in 1 .. Len(v) : j > i /\ Tells(v[j], a) /\ v[j].item = x
    <3>1. CASE x \in rows[a].items
      BY <1>1, <1>6, <2>1, <3>1
    <3>2. CASE \E h \in 1 .. Len(e) : Tells(e[h], a) /\ e[h].item = x
      BY <1>1, <2>1, <3>2
    <3> QED BY <1>5, <2>1, <3>1, <3>2
  <2> QED BY <2>2, <2>3
<1>8. ASSUME \A i \in 1 .. Len(v) : v[i].kind # "got"
      PROVE  /\ \A x \in rows'[a].items : \/ x \in q.shown \/ x \in UNION q.describing
                                          \/ \E j \in 1 .. Len(v) : Tells(v[j], a) /\ v[j].item = x
             /\ q.shown \cup UNION q.describing \subseteq Known(a)'
  <2>1. \A i \in 1 .. Len(w) : w[i].kind # "got"
    BY <1>1, <1>8
  <2>2. q.shown \cup UNION q.describing \subseteq Known(a)'
    BY <1>3, <1>5, <1>6, <2>1
  <2>3. ASSUME NEW x \in rows'[a].items
        PROVE  \/ x \in q.shown \/ x \in UNION q.describing
               \/ \E j \in 1 .. Len(v) : Tells(v[j], a) /\ v[j].item = x
    <3>1. CASE x \in rows[a].items
      <4>1. \/ x \in p.shown \/ x \in UNION p.describing
            \/ \E j \in 1 .. Len(w) : Tells(w[j], a) /\ w[j].item = x
        BY <1>6, <2>1, <3>1
      <4>2. CASE x \in p.shown
        BY <1>3, <4>2
      <4>3. CASE x \in UNION p.describing
        BY <1>3, <4>3
      <4>4. CASE \E j \in 1 .. Len(w) : Tells(w[j], a) /\ w[j].item = x
        BY <1>1, <4>4
      <4> QED BY <4>1, <4>2, <4>3, <4>4
    <3>2. CASE \E h \in 1 .. Len(e) : Tells(e[h], a) /\ e[h].item = x
      <4>1. PICK h \in 1 .. Len(e) : Tells(e[h], a) /\ e[h].item = x
        BY <3>2
      <4>2. PICK j \in 1 .. Len(v) : v[j] = e[h]
        BY <1>1
      <4> QED BY <4>1, <4>2
    <3>3. CASE x \in X
      BY <1>3, <3>3
    <3> QED BY <1>5, <3>1, <3>2, <3>3
  <2> QED BY <2>2, <2>3
<1> QED BY <1>7, <1>8

(* Where nothing is told: no window, or no messages.                       *)
DeletingOK(p) == \A d \in deleting' : d[2] <= p.opened

LEMMA PageKept ==
  ASSUME NEW w \in Seq(Msgs), NEW p, NEW q, NEW e, Events(e), NEW v, Lengthened(v, w, e), wire' = v, page' = q, NEW X, PageGrown(p, q, X),
         p.pc \in {"loading", "up"}, p.pc = "loading" => X = {}, PageInv(w, p), making' = making, DeletingOK(p)
  PROVE  PageInv(wire, page)'
<1>0. Extends(v, w, e)
  BY WireLonger DEF Events
<1>1. /\ \A i \in 1 .. Len(w) : i \in 1 .. Len(v) /\ v[i] = w[i]
      /\ \A i \in 1 .. Len(v) : i \notin 1 .. Len(w) => \E h \in 1 .. Len(e) : v[i] = e[h]
  BY <1>0 DEF Extends
<1>2. ASSUME NEW i \in 1 .. Len(v), v[i].kind \in {"got", "created", "listed", "running"} PROVE i \in 1 .. Len(w) /\ v[i] = w[i]
  <2>1. ASSUME NEW h \in 1 .. Len(e) PROVE e[h].kind \notin {"got", "created", "listed", "running"}
    BY DEF Events, EventKinds
  <2> QED BY <1>1, <1>2, <2>1
<1>3. /\ q.pc = p.pc /\ q.active = p.active /\ q.shown = p.shown \cup X /\ q.describing = p.describing /\ q.sending = p.sending
      /\ q.opened = p.opened /\ q.cards = p.cards /\ q.running = p.running /\ q.asks = p.asks
  BY DEF PageGrown
<1>4. q.pc # "closed"
  BY <1>3
<1>5. ASSUME q.pc = "loading"
      PROVE  /\ q.running = {} /\ q.asks = {} /\ q.cards = {} /\ q.shown = {} /\ q.describing = {} /\ q.sending = "no"
             /\ q.active = "none"
             /\ \A i \in 1 .. Len(v) : v[i].kind \notin {"got", "created", "listed"}
             /\ \A d \in making : d[2] # q.opened
  <2>1. p.pc = "loading" /\ X = {}
    BY <1>3, <1>5
  <2>2. /\ p.running = {} /\ p.asks = {} /\ p.cards = {} /\ p.shown = {} /\ p.describing = {} /\ p.sending = "no" /\ p.active = "none"
        /\ \A i \in 1 .. Len(w) : w[i].kind \notin {"got", "created", "listed"}
        /\ \A d \in making : d[2] # p.opened
    BY <2>1 DEF PageInv
  <2>3. \A i \in 1 .. Len(v) : v[i].kind \notin {"got", "created", "listed"}
    BY <1>2, <2>2
  <2> QED BY <1>3, <2>1, <2>2, <2>3
<1>6. q.pc = "up" => \A i \in 1 .. Len(v) : v[i].kind # "running"
  BY <1>2, <1>3 DEF PageInv
<1>7. ASSUME NEW i \in 1 .. Len(v), NEW j \in 1 .. Len(v), v[i].kind = "running", v[j].kind = "running" PROVE i = j
  <2>1. i \in 1 .. Len(w) /\ v[i] = w[i] /\ j \in 1 .. Len(w) /\ v[j] = w[j]
    BY <1>2, <1>7
  <2> QED BY <1>7, <2>1 DEF PageInv
<1>8. (\A d \in making : d[2] <= q.opened) /\ \A d \in deleting' : d[2] <= q.opened
  BY <1>3 DEF PageInv, DeletingOK
<1>9. q.opened # 0
  BY <1>3 DEF PageInv
<1> QED BY <1>4, <1>5, <1>6, <1>7, <1>8, <1>9 DEF PageInv

LEMMA UnusedKept ==
  ASSUME NEW w \in Seq(Msgs), NEW p, NEW q, NEW e, Events(e), NEW v, Lengthened(v, w, e), wire' = v, page' = q, NEW X, PageGrown(p, q, X),
         UnusedInv(w, p), making' = making, UnusedFollow(e)
  PROVE  UnusedInv(wire, page)'
<1>0. Extends(v, w, e)
  BY WireLonger DEF Events
<1>1. \A i \in 1 .. Len(v) : (i \in 1 .. Len(w) /\ v[i] = w[i]) \/ (\E h \in 1 .. Len(e) : v[i] = e[h])
  BY <1>0 DEF Extends
<1>2. q.active = p.active /\ q.running = p.running /\ q.asks = p.asks /\ q.listed = p.listed
  BY DEF PageGrown
<1> SUFFICES ASSUME NEW t \in AppThreads, rows'[t].state = "unused"
             PROVE  /\ rows'[t].items = {} /\ sessions'[t] = 0 /\ ~Leaving(t)' /\ t \notin q.running /\ t \notin q.asks
                    /\ t \notin q.listed /\ q.active # t
                    /\ \A i \in 1 .. Len(v) : v[i].on # t /\ (v[i].kind \in {"running", "created"} => t \notin v[i].those)
                    /\ \A d \in making : d[1] # t
  BY DEF UnusedInv
<1>3. /\ rows[t].state = "unused" /\ rows'[t].items = rows[t].items /\ sessions'[t] = sessions[t] /\ ~Leaving(t)'
      /\ \A h \in 1 .. Len(e) : e[h].on # t
  BY DEF UnusedFollow
<1>4. /\ rows[t].items = {} /\ sessions[t] = 0 /\ t \notin p.running /\ t \notin p.asks /\ t \notin p.listed /\ p.active # t
      /\ \A i \in 1 .. Len(w) : w[i].on # t /\ (w[i].kind \in {"running", "created"} => t \notin w[i].those)
      /\ \A d \in making : d[1] # t
  BY <1>3 DEF UnusedInv
<1>5. ASSUME NEW h \in 1 .. Len(e) PROVE e[h].kind \notin {"running", "created"}
  BY DEF Events, EventKinds
<1>6. \A i \in 1 .. Len(v) : v[i].on # t /\ (v[i].kind \in {"running", "created"} => t \notin v[i].those)
  BY <1>1, <1>3, <1>4, <1>5
<1> QED BY <1>2, <1>3, <1>4, <1>6

LEMMA ShapesKept ==
  ASSUME NEW w \in Seq(Msgs), NEW p, NEW q, NEW e, Events(e), NEW v, Lengthened(v, w, e), wire' = v, page' = q, NEW X, PageGrown(p, q, X),
         Shapes(w, p), SameState, Len(w) + Len(e) <= MaxWire
  PROVE  Shapes(wire, page)'
<1>0. Extends(v, w, e)
  BY WireLonger DEF Events
<1>1. /\ v \in Seq(Msgs) /\ Len(v) = Len(w) + Len(e)
      /\ \A i \in 1 .. Len(v) : (i \in 1 .. Len(w) /\ v[i] = w[i]) \/ (\E h \in 1 .. Len(e) : v[i] = e[h])
  BY <1>0 DEF Extends
<1>2. q \in Pages
  BY DEF PageGrown
<1>3. \A h \in 1 .. Len(e) : /\ e[h].kind \in {"begun", "item", "ask"} => e[h].item \in Items
                             /\ e[h].on \in AppThreads /\ e[h].kind \notin {"running", "created", "got"}
  BY DEF Events, EventKinds
<1>4. \A i \in 1 .. Len(w) : /\ w[i].kind \in {"begun", "item", "ask"} => w[i].item \in Items
                             /\ w[i].kind # "running" => w[i].on \in AppThreads
                             /\ w[i].kind \in {"running", "created"} => w[i].those \subseteq AppThreads
                             /\ w[i].kind = "got" => w[i].those \subseteq Items
  BY DEF Shapes
<1>5. \A i \in 1 .. Len(v) : /\ v[i].kind \in {"begun", "item", "ask"} => v[i].item \in Items
                             /\ v[i].kind # "running" => v[i].on \in AppThreads
                             /\ v[i].kind \in {"running", "created"} => v[i].those \subseteq AppThreads
                             /\ v[i].kind = "got" => v[i].those \subseteq Items
  BY <1>1, <1>3, <1>4
<1>6. making' \subseteq AppThreads \X (1 .. MaxWindows)
  BY DEF Shapes, SameState
<1>7. Len(v) <= MaxWire
  BY <1>1
<1> QED BY <1>1, <1>2, <1>5, <1>6, <1>7 DEF Shapes, SameState

(* A step of main, while there is no window and while there is one.        *)
Tell(w, p, e) == wire' = IF p.pc = "closed" THEN w ELSE w \o e
Follow(w, p, e, X) ==
  /\ MarksFollow(e) /\ AsksFollow(w, p, e) /\ TellsFollow(e) /\ NewFollow(w, p) /\ ShownFollow(w, p, e, X)

LEMMA TurnStepInv ==
  ASSUME NEW w, NEW p, AppInvAt(w, p), NEW e, Events(e), Len(w) + Len(e) <= MaxWire, Tell(w, p, e),
         NEW q, page' = q, NEW X, PageGrown(p, q, X), p.pc # "up" => X = {}, SameState, DeletingOK(p),
         RunsInv', UnusedFollow(e), Follow(w, p, e, X)
  PROVE  AppInv'
<1>1. CASE p.pc = "closed"
  <2>1. w = <<>> /\ p = [Closed EXCEPT !.opened = p.opened] /\ wire' = w
    BY <1>1, AppNow DEF PageInv, Tell
  <2>2. PICK v : v = wire'
    OBVIOUS
  <2>3. Len(v) = 0 /\ 1 .. Len(v) = {} /\ v \in Seq(Msgs) /\ 0 <= MaxWire
    BY <2>1, <2>2, AppConstants
  <2>4. q = p
    <3>1. q \in Pages /\ p \in Pages /\ X = {}
      BY <1>1, AppNow DEF PageGrown
    <3>2. /\ q.pc = p.pc /\ q.listed = p.listed /\ q.active = p.active /\ q.shown = p.shown /\ q.cards = p.cards
          /\ q.running = p.running /\ q.asks = p.asks /\ q.describing = p.describing /\ q.sending = p.sending /\ q.raced = p.raced
          /\ q.opened = p.opened
      BY <3>1 DEF PageGrown
    <3>3. q = [pc |-> q.pc, listed |-> q.listed, active |-> q.active, shown |-> q.shown, cards |-> q.cards,
               running |-> q.running,
               asks |-> q.asks, describing |-> q.describing, sending |-> q.sending, raced |-> q.raced, opened |-> q.opened]
      BY <3>1, PageIs
    <3>4. p = [pc |-> p.pc, listed |-> p.listed, active |-> p.active, shown |-> p.shown, cards |-> p.cards,
               running |-> p.running,
               asks |-> p.asks, describing |-> p.describing, sending |-> p.sending, raced |-> p.raced, opened |-> p.opened]
      BY <3>1, PageIs
    <3> QED BY <3>2, <3>3, <3>4
  <2>5. q \in Pages /\ q.pc = "closed" /\ q.running = {} /\ q.asks = {} /\ q.listed = {} /\ q.active = "none" /\ q.cards = {}
    BY <1>1, <2>1, <2>4, AppNow DEF Closed
  <2>6. Shapes(wire, page)'
    BY <2>2, <2>3, <2>5, AppNow DEF Shapes, SameState
  <2>7. UnusedInv(wire, page)'
    <3>1. making' = making /\ UnusedInv(w, p)
      BY AppNow DEF SameState
    <3> SUFFICES ASSUME NEW t \in AppThreads, rows'[t].state = "unused"
                 PROVE  /\ rows'[t].items = {} /\ sessions'[t] = 0 /\ ~Leaving(t)' /\ t \notin q.running /\ t \notin q.asks
                        /\ t \notin q.listed /\ q.active # t /\ \A d \in making : d[1] # t
      BY <2>2, <2>3, <3>1 DEF UnusedInv
    <3>2. rows[t].state = "unused" /\ rows'[t].items = rows[t].items /\ sessions'[t] = sessions[t] /\ ~Leaving(t)'
      BY DEF UnusedFollow
    <3>3. rows[t].items = {} /\ sessions[t] = 0 /\ \A d \in making : d[1] # t
      BY <3>1, <3>2 DEF UnusedInv
    <3> QED BY <2>5, <3>2, <3>3, AppConstants
  <2>8. PageInv(wire, page)'
    <3>1. \A d \in making : d[2] <= p.opened
      BY AppNow DEF PageInv
    <3> QED BY <2>1, <2>2, <2>3, <2>4, <2>5, <3>1 DEF PageInv, DeletingOK, SameState
  <2>9. MarksInv(wire, page)' /\ AsksInv(wire, page)' /\ ToldInv(wire, page)'
    BY <2>2, <2>3, <2>5 DEF MarksInv, AsksInv, ToldInv
  <2>10. OneWait(wire, page)' /\ NewInv(wire, page)' /\ ShownInv(wire, page)'
    BY <2>5 DEF OneWait, NewInv, ShownInv
  <2> QED BY <2>6, <2>7, <2>8, <2>9, <2>10 DEF AppInv, AppInvAt
<1>2. CASE p.pc # "closed"
  <2>1. PICK v : v = wire'
    OBVIOUS
  <2>2. Lengthened(v, w, e)
    BY <1>2, <2>1 DEF Tell, Lengthened
  <2>3. /\ w \in Seq(Msgs) /\ p \in Pages /\ making' = making /\ p.pc \in {"loading", "up"} /\ (p.pc = "loading" => X = {})
    BY <1>2, AppNow, PageIs DEF SameState
  <2>4. Shapes(wire, page)'
    BY <2>1, <2>2, <2>3, AppNow, ShapesKept
  <2>5. UnusedInv(wire, page)'
    BY <2>1, <2>2, <2>3, AppNow, UnusedKept
  <2>6. PageInv(wire, page)'
    BY <2>1, <2>2, <2>3, AppNow, PageKept
  <2>7. MarksInv(wire, page)'
    BY <2>1, <2>2, <2>3, AppNow, MarksKept DEF Follow, PageGrown
  <2>8. AsksInv(wire, page)'
    <3>1. page'.asks = p.asks /\ page'.cards = p.cards
      BY DEF PageGrown
    <3>2. /\ p.cards \subseteq Cards /\ runs' \in [RunIds -> RunRecs] /\ runs \in [RunIds -> RunRecs]
          /\ \A i \in 1 .. Len(w) : w[i].kind = "ask" => w[i].item \in Items
      BY <2>3, AppNow, PageIs DEF Shapes, SameState
    <3>3. AsksInv(w, p) /\ AsksFollow(w, p, e)
      BY AppNow DEF Follow
    <3> QED BY <2>1, <2>2, <2>3, <3>1, <3>2, <3>3, AsksKept
  <2>9. ToldInv(wire, page)'
    BY <2>1, <2>2, <2>3, AppNow, ToldKept DEF Follow
  <2>10. OneWait(wire, page)'
    BY <2>1, <2>2, <2>3, AppNow, OneKept
  <2>11. NewInv(wire, page)'
    BY <2>1, <2>2, <2>3, AppNow, NewKept DEF Follow
  <2>12. ShownInv(wire, page)'
    BY <2>1, <2>2, <2>3, AppNow, ShownKept DEF Follow
  <2> QED BY <2>4, <2>5, <2>6, <2>7, <2>8, <2>9, <2>10, <2>11, <2>12 DEF AppInv, AppInvAt
<1> QED BY <1>1, <1>2

(* A step of a turn: the turn and its row, the map, and what is told.      *)
NowOf(k, run) ==
  ({run.plan} \ {NoItem}) \cup (IF run.pc \in {"running", "killed"} THEN {Item("command", k, run.n)} ELSE {})
MovedTo(k, run, items) ==
  /\ runs' = [runs EXCEPT ![k] = run] /\ rows' = Kept(rows, runs[k].on, items)
  /\ sessions' = IF run.pc = "over" THEN [sessions EXCEPT ![runs[k].on] = 0] ELSE sessions
  /\ UNCHANGED <<checkout, making, deleting, job>>
CallsOK(run) == /\ run.pc = "asking" => run.calls # <<>> /\ Head(run.calls) \in {"risky", "outside"}
                /\ run.pc \in {"running", "killed"} => run.calls # <<>>
Unasked(w, p, t, k) == t \notin p.asks /\ \A i \in 1 .. Len(w) : w[i].kind = "ask" /\ w[i].on = t => w[i].item.run # k
RunGoesOn(w, p, k, run, items) ==
  /\ run \in RunRecs /\ run.pc \in AlivePcs \cup {"over"} /\ CallsOK(run) /\ items \in SUBSET Items
  /\ run.pc # "over" => /\ run.on = runs[k].on /\ runs[k].n <= run.n /\ (runs[k].stopped => run.stopped)
                        /\ runs[k].pc = "asking" => \/ run.stopped
                                                    \/ run.pc = "asking" /\ run.n = runs[k].n
                                                    \/ Unasked(w, p, runs[k].on, k)
  /\ OnWay(k) \subseteq items \cup NowOf(k, run)
  /\ run.pc = "over" => NowOf(k, run) = {}
ToldOf(k, run, items, e) ==
  /\ Events(e)
  /\ \A h \in 1 .. Len(e) :
       /\ e[h].on = runs[k].on /\ e[h].kind \in {"begun", "item", "ask", "end"}
       /\ e[h].kind = "begun" => e[h].item \in NowOf(k, run)
       /\ e[h].kind = "item" => e[h].item \in items
       /\ e[h].kind = "ask" => /\ Len(e) = 1 /\ run.pc = "asking" /\ e[h].item.run = k /\ e[h].item.n = run.n /\ runs[k].n < run.n
       /\ e[h].kind = "end" => run.pc = "over"
  /\ run.pc = "over" => \E h \in 1 .. Len(e) : e[h].kind = "end"
SeenOf(w, p, k, items, e, X) ==
  /\ X \subseteq items /\ (p.pc # "up" => X = {}) /\ (X # {} => p.active = runs[k].on)
  /\ p.pc = "up" /\ ~p.raced /\ p.sending = "no" =>
       \A x \in items : \/ x \in X /\ \A i \in 1 .. Len(w) : w[i].kind # "got"
                        \/ \E h \in 1 .. Len(e) : e[h].kind \in {"begun", "item"} /\ e[h].item = x

LEMMA MovedFacts ==
  ASSUME NEW w, NEW p, AppInvAt(w, p), NEW k \in RunIds, Goes(k), NEW run, NEW items, RunGoesOn(w, p, k, run, items), MovedTo(k, run, items)
  PROVE  /\ runs[k].on \in AppThreads /\ rows[runs[k].on].state # "unused" /\ (Stays(runs[k].on) => sessions[runs[k].on] = k)
         /\ runs' \in [RunIds -> RunRecs] /\ runs'[k] = run
         /\ \A j \in RunIds : j # k => runs'[j] = runs[j] /\ (Goes(j)' <=> Goes(j))
         /\ (Goes(k)' <=> run.pc # "over") /\ (run.pc \in AlivePcs <=> run.pc # "over")
         /\ rows' \in [AppThreads -> RowRecs]
         /\ \A u \in AppThreads : /\ rows'[u].state = rows[u].state /\ (Stays(u)' <=> Stays(u)) /\ (Leaving(u)' <=> Leaving(u))
                                  /\ u # runs[k].on => rows'[u] = rows[u] /\ sessions'[u] = sessions[u] /\ sessions[u] # k
         /\ Stays(runs[k].on) => rows[runs[k].on].state = "here" /\ rows'[runs[k].on].items = rows[runs[k].on].items \cup items
         /\ sessions' \in [AppThreads -> 0 .. MaxAppTurns]
         /\ sessions'[runs[k].on] = IF run.pc = "over" THEN 0 ELSE sessions[runs[k].on]
         /\ k # 0
<1> USE AppConstants
<1>1. PICK t : t = runs[k].on
  OBVIOUS
<1>2. t \in AppThreads /\ rows[t].state # "unused" /\ (Stays(t) => sessions[t] = k)
  BY <1>1, AppNow DEF RunsInv
<1>3. /\ rows \in [AppThreads -> RowRecs] /\ runs \in [RunIds -> RunRecs] /\ sessions \in [AppThreads -> 0 .. MaxAppTurns]
  BY AppNow
<1>4. run \in RunRecs /\ items \in SUBSET Items /\ run.pc \in AlivePcs \cup {"over"}
  BY DEF RunGoesOn
<1>5. runs' = [runs EXCEPT ![k] = run]
  BY DEF MovedTo
<1>6. runs' \in [RunIds -> RunRecs] /\ runs'[k] = run /\ \A j \in RunIds : j # k => runs'[j] = runs[j]
  BY <1>3, <1>4, <1>5
<1>7. \A j \in RunIds : j # k => (Goes(j)' <=> Goes(j))
  BY <1>6 DEF Goes
<1>8. (run.pc \in AlivePcs <=> run.pc # "over") /\ (Goes(k)' <=> run.pc # "over")
  BY <1>4, <1>6 DEF Goes, AlivePcs
<1>9. PICK r : r = rows'
  OBVIOUS
<1>10. r = Kept(rows, t, items)
  BY <1>1, <1>9 DEF MovedTo
<1>11. /\ r \in [AppThreads -> RowRecs]
       /\ \A u \in AppThreads : r[u].state = rows[u].state /\ (u # t => r[u] = rows[u])
       /\ rows[t].state = "here" => r[t].items = rows[t].items \cup items
  BY <1>2, <1>3, <1>4, <1>10, RowKept
<1>12. \A u \in AppThreads : (Leaving(u)' <=> Leaving(u))
  BY DEF Leaving, MovedTo
<1>13. \A u \in AppThreads : (Stays(u)' <=> Stays(u))
  BY <1>9, <1>11, <1>12 DEF Stays
<1>14. Stays(t) => rows[t].state = "here"
  BY <1>2, <1>3 DEF Stays, RowRecs
<1>15. /\ sessions' \in [AppThreads -> 0 .. MaxAppTurns]
       /\ \A u \in AppThreads : u # t => sessions'[u] = sessions[u]
       /\ sessions'[t] = IF run.pc = "over" THEN 0 ELSE sessions[t]
  <2>1. 0 \in 0 .. MaxAppTurns
    OBVIOUS
  <2>2. CASE run.pc = "over"
    <3>1. sessions' = [sessions EXCEPT ![t] = 0]
      BY <1>1, <2>2 DEF MovedTo
    <3> QED BY <1>2, <1>3, <2>1, <2>2, <3>1
  <2>3. CASE run.pc # "over"
    <3>1. sessions' = sessions
      BY <2>3 DEF MovedTo
    <3> QED BY <1>2, <1>3, <2>3, <3>1
  <2> QED BY <2>2, <2>3
<1>16. k # 0
  BY DEF RunIds
<1>17. ASSUME NEW u \in AppThreads, u # t PROVE sessions[u] # k
  BY <1>1, <1>16, <1>17, AppNow DEF RunsInv
<1> QED BY <1>1, <1>2, <1>6, <1>7, <1>8, <1>9, <1>11, <1>12, <1>13, <1>14, <1>15, <1>16, <1>17

LEMMA MovedKnown ==
  ASSUME NEW w, NEW p, AppInvAt(w, p), NEW k \in RunIds, Goes(k), NEW run, NEW items, RunGoesOn(w, p, k, run, items), MovedTo(k, run, items),
         NEW u \in AppThreads, Stays(u)'
  PROVE  /\ Stays(u) /\ Known(u) \subseteq Known(u)'
         /\ u = runs[k].on => items \subseteq Known(u)' /\ NowOf(k, run) \subseteq Known(u)'
<1>1. PICK t : t = runs[k].on
  OBVIOUS
<1>2. Stays(u) /\ k # 0 /\ t \in AppThreads
  BY <1>1, MovedFacts
<1>3. CASE u = t
  <2>1. /\ rows'[t].items = rows[t].items \cup items /\ sessions[t] = k /\ sessions'[t] = IF run.pc = "over" THEN 0 ELSE sessions[t]
        /\ runs'[k] = run
    BY <1>1, <1>2, <1>3, MovedFacts
  <2>2. Known(t) = rows[t].items \cup OnWay(k)
    BY <1>2, <2>1 DEF Known
  <2>3. OnWay(k)' = NowOf(k, run)
    BY <2>1 DEF OnWay, NowOf
  <2>4. CASE run.pc = "over"
    <3>1. Known(t)' = rows'[t].items
      BY <2>1, <2>4 DEF Known
    <3>2. OnWay(k) \subseteq items /\ NowOf(k, run) = {}
      BY <2>4 DEF RunGoesOn
    <3> QED BY <1>1, <1>2, <1>3, <2>1, <2>2, <3>1, <3>2
  <2>5. CASE run.pc # "over"
    <3>1. Known(t)' = rows'[t].items \cup OnWay(k)'
      BY <1>2, <2>1, <2>5 DEF Known
    <3>2. OnWay(k) \subseteq items \cup NowOf(k, run)
      BY DEF RunGoesOn
    <3> QED BY <1>1, <1>2, <1>3, <2>1, <2>2, <2>3, <3>1, <3>2
  <2> QED BY <2>4, <2>5
<1>4. CASE u # t
  <2>1. rows'[u] = rows[u] /\ sessions'[u] = sessions[u] /\ sessions[u] # k
    BY <1>1, <1>4, MovedFacts
  <2>2. CASE sessions[u] = 0
    BY <1>1, <1>2, <1>4, <2>1, <2>2 DEF Known
  <2>3. CASE sessions[u] # 0
    <3>1. PICK j : j = sessions[u]
      OBVIOUS
    <3>2. j \in RunIds /\ j # k
      BY <2>1, <2>3, <3>1, AppNow
    <3>3. runs'[j] = runs[j]
      BY <3>2, MovedFacts
    <3>4. OnWay(j)' = OnWay(j)
      BY <3>3 DEF OnWay
    <3>5. Known(u) = rows[u].items \cup OnWay(j) /\ Known(u)' = rows'[u].items \cup OnWay(j)'
      BY <2>1, <2>3, <3>1 DEF Known
    <3> QED BY <1>1, <1>2, <1>4, <2>1, <3>4, <3>5
  <2> QED BY <2>2, <2>3
<1> QED BY <1>3, <1>4

(* What the turns and the map are to be, thread by thread.                 *)
LEMMA RunsInvMade ==
  ASSUME \A j \in RunIds : \A u : Goes(j)' /\ u = runs'[j].on =>
           /\ u \in AppThreads /\ rows'[u].state # "unused" /\ (Stays(u)' => sessions'[u] = j)
           /\ (runs'[j].pc = "asking" => runs'[j].calls # <<>> /\ Head(runs'[j].calls) \in {"risky", "outside"})
           /\ (runs'[j].pc \in {"running", "killed"} => runs'[j].calls # <<>>),
         \A u \in AppThreads : \A j : j = sessions'[u] /\ j # 0 => Goes(j)' /\ runs'[j].on = u
  PROVE  RunsInv'
<1>1. ASSUME NEW j \in RunIds, runs'[j].pc \in AlivePcs
      PROVE  /\ runs'[j].on \in AppThreads /\ rows'[runs'[j].on].state # "unused"
             /\ (rows'[runs'[j].on].state # "gone" /\ ~\E d \in deleting' : d[1] = runs'[j].on) => sessions'[runs'[j].on] = j
             /\ (runs'[j].pc = "asking" => runs'[j].calls # <<>> /\ Head(runs'[j].calls) \in {"risky", "outside"})
             /\ (runs'[j].pc \in {"running", "killed"} => runs'[j].calls # <<>>)
  <2>1. PICK u : u = runs'[j].on
    OBVIOUS
  <2>2. Goes(j)'
    BY <1>1 DEF Goes
  <2>3. Stays(u)' <=> rows'[u].state # "gone" /\ ~\E d \in deleting' : d[1] = u
    BY DEF Stays, Leaving
  <2> QED BY <2>1, <2>2, <2>3
<1>2. ASSUME NEW u \in AppThreads, sessions'[u] # 0
      PROVE  runs'[sessions'[u]].pc \in AlivePcs /\ runs'[sessions'[u]].on = u
  <2>1. PICK j : j = sessions'[u]
    OBVIOUS
  <2>2. Goes(j)' /\ runs'[j].on = u
    BY <1>2, <2>1
  <2> QED BY <2>1, <2>2 DEF Goes
<1> QED BY <1>1, <1>2 DEF RunsInv, Goes, Stays, Leaving

LEMMA MovedRuns ==
  ASSUME NEW w, NEW p, AppInvAt(w, p), NEW k \in RunIds, Goes(k), NEW run, NEW items, RunGoesOn(w, p, k, run, items), MovedTo(k, run, items)
  PROVE  RunsInv'
<1>1. PICK t : t = runs[k].on
  OBVIOUS
<1>2. ASSUME NEW j \in RunIds, Goes(j)', NEW u, u = runs'[j].on
      PROVE  /\ u \in AppThreads /\ rows'[u].state # "unused" /\ (Stays(u)' => sessions'[u] = j)
             /\ (runs'[j].pc = "asking" => runs'[j].calls # <<>> /\ Head(runs'[j].calls) \in {"risky", "outside"})
             /\ (runs'[j].pc \in {"running", "killed"} => runs'[j].calls # <<>>)
  <2>1. CASE j = k
    <3>1. run.pc # "over" /\ runs'[k] = run /\ run.on = t /\ u = t
      BY <1>1, <1>2, <2>1, MovedFacts DEF RunGoesOn
    <3>2. t \in AppThreads /\ rows'[t].state # "unused" /\ (Stays(t)' => sessions'[t] = k)
      BY <1>1, <3>1, MovedFacts
    <3>3. CallsOK(run)
      BY DEF RunGoesOn
    <3>4. Stays(u)' => sessions'[u] = j
      BY <2>1, <3>1, <3>2
    <3> QED BY <2>1, <3>1, <3>2, <3>3, <3>4 DEF CallsOK
  <2>2. CASE j # k
    <3>1. runs'[j] = runs[j] /\ Goes(j) /\ u = runs[j].on
      BY <1>2, <2>2, MovedFacts
    <3>3. /\ u \in AppThreads /\ rows[u].state # "unused" /\ (Stays(u) => sessions[u] = j)
          /\ (runs[j].pc = "asking" => runs[j].calls # <<>> /\ Head(runs[j].calls) \in {"risky", "outside"})
          /\ (runs[j].pc \in {"running", "killed"} => runs[j].calls # <<>>)
      BY <3>1, AppNow DEF RunsInv
    <3>4. rows'[u].state # "unused" /\ (Stays(u)' => Stays(u))
      BY <3>3, MovedFacts
    <3>5. Stays(u)' => sessions'[u] = j
      <4>1. CASE u = t
        BY <1>1, <2>2, <3>3, <3>4, <4>1, MovedFacts
      <4>2. CASE u # t
        BY <1>1, <3>3, <3>4, <4>2, MovedFacts
      <4> QED BY <4>1, <4>2
    <3> QED BY <3>1, <3>3, <3>4, <3>5
  <2> QED BY <2>1, <2>2
<1>3. ASSUME NEW u \in AppThreads, NEW j, j = sessions'[u], j # 0 PROVE Goes(j)' /\ runs'[j].on = u
  <2>1. CASE u = t
    <3>1. run.pc # "over" /\ j = sessions[t]
      BY <1>1, <1>3, <2>1, MovedFacts
    <3>3. j \in RunIds /\ Goes(j) /\ runs[j].on = t
      BY <1>3, <2>1, <3>1, AppNow DEF RunsInv
    <3>4. Goes(j)' /\ runs'[j].on = t
      BY <1>1, <3>1, <3>3, MovedFacts DEF RunGoesOn
    <3> QED BY <2>1, <3>4
  <2>2. CASE u # t
    <3>1. j = sessions[u] /\ sessions[u] # k
      BY <1>1, <1>3, <2>2, MovedFacts
    <3>3. j \in RunIds /\ Goes(j) /\ runs[j].on = u /\ j # k
      BY <1>3, <3>1, AppNow DEF RunsInv
    <3> QED BY <3>3, MovedFacts
  <2> QED BY <2>1, <2>2
<1> QED BY <1>2, <1>3, RunsInvMade

LEMMA MovedFollow ==
  ASSUME NEW w, NEW p, AppInvAt(w, p), NEW k \in RunIds, Goes(k), NEW run, NEW items, RunGoesOn(w, p, k, run, items), MovedTo(k, run, items),
         NEW e, ToldOf(k, run, items, e), NEW X, SeenOf(w, p, k, items, e, X)
  PROVE  Follow(w, p, e, X) /\ UnusedFollow(e)
<1>1. PICK t : t = runs[k].on
  OBVIOUS
<1>2. Events(e)
  BY DEF ToldOf
<1>3. ASSUME NEW h \in 1 .. Len(e)
      PROVE  /\ e[h].on = t /\ e[h].kind \in {"begun", "item", "ask", "end"}
             /\ e[h].kind = "begun" => e[h].item \in NowOf(k, run)
             /\ e[h].kind = "item" => e[h].item \in items
             /\ e[h].kind = "ask" => /\ Len(e) = 1 /\ run.pc = "asking" /\ e[h].item.run = k /\ e[h].item.n = run.n /\ runs[k].n < run.n
             /\ e[h].kind = "end" => run.pc = "over"
  BY <1>1 DEF ToldOf
<1>4. MarksFollow(e)
  <2> SUFFICES ASSUME NEW u \in AppThreads, Stays(u)'
               PROVE  /\ Stays(u) /\ ((\E h \in 1 .. Len(e) : Marks(e[h], u)) \/ (sessions'[u] = 0 <=> sessions[u] = 0))
                      /\ \A h \in 1 .. Len(e) : Marks(e[h], u) => (Says(e[h], u) <=> sessions'[u] # 0)
    BY DEF MarksFollow
  <2>1. Stays(u)
    BY MovedFacts
  <2>2. ASSUME NEW h \in 1 .. Len(e), Marks(e[h], u) PROVE e[h].kind = "end" /\ u = t /\ run.pc = "over"
    BY <1>3, <2>2 DEF Marks
  <2>3. CASE u = t /\ run.pc = "over"
    <3>1. sessions'[u] = 0
      BY <1>1, <2>3, MovedFacts
    <3>2. PICK h \in 1 .. Len(e) : e[h].kind = "end"
      BY <2>3 DEF ToldOf
    <3>3. Marks(e[h], u)
      BY <1>3, <2>3, <3>2 DEF Marks
    <3> QED BY <2>1, <2>2, <3>1, <3>3 DEF Says
  <2>4. CASE ~(u = t /\ run.pc = "over")
    <3>1. sessions'[u] = sessions[u]
      BY <1>1, <2>4, MovedFacts
    <3> QED BY <2>1, <2>2, <2>4, <3>1
  <2> QED BY <2>3, <2>4
<1>5. AsksFollow(w, p, e)
  <2>1. ASSUME NEW u \in AppThreads, Stays(u)', sessions[u] # 0
        PROVE  (\E h \in 1 .. Len(e) : Ended(e[h], u)) \/ (sessions'[u] = sessions[u] /\ AskStands(w, p, u, sessions[u]))
    <3>1. PICK j : j = sessions[u]
      OBVIOUS
    <3>2. j \in RunIds /\ runs[j].on = u
      BY <2>1, <3>1, AppNow DEF RunsInv
    <3>3. CASE u = t /\ run.pc = "over"
      <4>1. PICK h \in 1 .. Len(e) : e[h].kind = "end"
        BY <3>3 DEF ToldOf
      <4> QED BY <1>3, <3>3, <4>1 DEF Ended
    <3>4. CASE ~(u = t /\ run.pc = "over")
      <4>1. sessions'[u] = sessions[u]
        BY <1>1, <3>4, MovedFacts
      <4>2. AskStands(w, p, u, j)
        <5>1. CASE j = k
          <6>1. run.pc # "over" /\ runs'[k] = run /\ u = t
            BY <1>1, <3>2, <3>4, <5>1, MovedFacts
          <6> QED BY <1>1, <5>1, <6>1 DEF AskStands, RunGoesOn, Unasked
        <5>2. CASE j # k
          <6>1. runs'[j] = runs[j]
            BY <3>2, <5>2, MovedFacts
          <6> QED BY <6>1 DEF AskStands
        <5> QED BY <5>1, <5>2
      <4> QED BY <3>1, <4>1, <4>2
    <3> QED BY <3>3, <3>4
  <2>2. ASSUME NEW h \in 1 .. Len(e), e[h].kind = "ask"
        PROVE  /\ Len(e) = 1 /\ Goes(e[h].item.run) /\ runs[e[h].item.run].n < e[h].item.n
               /\ runs'[e[h].item.run].pc = "asking" /\ runs'[e[h].item.run].n = e[h].item.n
               /\ Stays(e[h].on)' => sessions'[e[h].on] = e[h].item.run
    <3>1. /\ Len(e) = 1 /\ run.pc = "asking" /\ e[h].item.run = k /\ e[h].item.n = run.n /\ runs[k].n < run.n /\ e[h].on = t
      BY <1>3, <2>2
    <3>2. runs'[k] = run /\ (Stays(t)' => sessions'[t] = k)
      BY <1>1, <3>1, MovedFacts
    <3> QED BY <3>1, <3>2
  <2>3. ASSUME NEW j \in RunIds, runs[j].pc # "none"
        PROVE  runs'[j].pc # "none" /\ (Goes(j)' => Goes(j) /\ runs[j].n <= runs'[j].n)
    <3>1. CASE j = k
      BY <3>1, MovedFacts DEF RunGoesOn, AlivePcs
    <3>2. CASE j # k
      <4>1. runs'[j] = runs[j] /\ (Goes(j)' <=> Goes(j)) /\ runs[j].n \in Nat
        BY <3>2, AppNow, MovedFacts DEF RunRecs, RunShapes
      <4>2. runs[j].n <= runs[j].n
        BY <4>1
      <4> QED BY <2>3, <4>1, <4>2
    <3> QED BY <3>1, <3>2
  <2>4. \A u \in AppThreads : Stays(u)' => Stays(u)
    BY MovedFacts
  <2> QED BY <2>1, <2>2, <2>3, <2>4 DEF AsksFollow
<1>6. TellsFollow(e)
  <2> SUFFICES ASSUME NEW u \in AppThreads, Stays(u)'
               PROVE  Stays(u) /\ Known(u) \subseteq Known(u)' /\ \A h \in 1 .. Len(e) : Tells(e[h], u) => e[h].item \in Known(u)'
    BY DEF TellsFollow
  <2>1. Stays(u) /\ Known(u) \subseteq Known(u)'
    BY MovedKnown
  <2>2. ASSUME NEW h \in 1 .. Len(e), Tells(e[h], u) PROVE e[h].item \in Known(u)'
    <3>1. u = t /\ e[h].kind \in {"begun", "item"}
      BY <1>3, <2>2 DEF Tells
    <3>2. items \subseteq Known(u)' /\ NowOf(k, run) \subseteq Known(u)'
      BY <1>1, <3>1, MovedKnown
    <3> QED BY <1>3, <3>1, <3>2
  <2> QED BY <2>1, <2>2
<1>7. ASSUME NEW u \in AppThreads, Bare(u) PROVE Bare(u)'
  <2>1. CASE u = t
    BY <1>1, <1>7, <2>1, MovedFacts DEF Bare
  <2>2. CASE u # t
    BY <1>1, <1>7, <2>2, MovedFacts DEF Bare
  <2> QED BY <2>1, <2>2
<1>8. NewFollow(w, p)
  <2>1. \A d \in making : d[1] \in AppThreads
    BY AppNow DEF Shapes
  <2>2. \A i \in 1 .. Len(w) : w[i].kind \in {"created", "listed"} => w[i].on \in AppThreads
    BY AppNow DEF Shapes
  <2> QED BY <1>7, <2>1, <2>2 DEF NewFollow
<1>9. ShownFollow(w, p, e, X)
  <2>1. PICK a : a = p.active
    OBVIOUS
  <2> SUFFICES ASSUME p.pc = "up", ~p.raced, a \in AppThreads, p.sending = "no", Stays(a)'
               PROVE  /\ X \subseteq Known(a)'
                      /\ \A x \in rows'[a].items : \/ x \in rows[a].items \/ (x \in X /\ \A i \in 1 .. Len(w) : w[i].kind # "got")
                                                   \/ \E h \in 1 .. Len(e) : Tells(e[h], a) /\ e[h].item = x
    BY <2>1 DEF ShownFollow
  <2>2. CASE a = t
    <3>1. items \subseteq Known(a)' /\ rows'[a].items = rows[a].items \cup items
      BY <1>1, <2>2, MovedKnown, MovedFacts
    <3>2. X \subseteq items
      BY DEF SeenOf
    <3>3. ASSUME NEW x \in items
          PROVE  (x \in X /\ \A i \in 1 .. Len(w) : w[i].kind # "got") \/ \E h \in 1 .. Len(e) : Tells(e[h], a) /\ e[h].item = x
      <4>1. \/ x \in X /\ \A i \in 1 .. Len(w) : w[i].kind # "got"
            \/ \E h \in 1 .. Len(e) : e[h].kind \in {"begun", "item"} /\ e[h].item = x
        BY <3>3 DEF SeenOf
      <4>2. \A h \in 1 .. Len(e) : e[h].kind \in {"begun", "item"} => Tells(e[h], a)
        BY <1>3, <2>2 DEF Tells
      <4> QED BY <4>1, <4>2
    <3> QED BY <3>1, <3>2, <3>3
  <2>3. CASE a # t
    <3>1. X = {}
      BY <1>1, <2>1, <2>3 DEF SeenOf
    <3>2. rows'[a] = rows[a]
      BY <1>1, <2>3, MovedFacts
    <3> QED BY <3>1, <3>2
  <2> QED BY <2>2, <2>3
<1>10. UnusedFollow(e)
  <2> SUFFICES ASSUME NEW u \in AppThreads, rows'[u].state = "unused"
               PROVE  /\ rows[u].state = "unused" /\ rows'[u].items = rows[u].items /\ sessions'[u] = sessions[u] /\ ~Leaving(u)'
                      /\ \A h \in 1 .. Len(e) : e[h].on # u
    BY DEF UnusedFollow
  <2>1. rows[u].state = "unused" /\ u # t
    BY <1>1, MovedFacts
  <2>2. rows'[u] = rows[u] /\ sessions'[u] = sessions[u] /\ (Leaving(u)' <=> Leaving(u))
    BY <1>1, <2>1, MovedFacts
  <2>3. ~Leaving(u)
    BY <2>1, AppNow DEF UnusedInv
  <2> QED BY <1>3, <2>1, <2>2, <2>3
<1> QED BY <1>4, <1>5, <1>6, <1>8, <1>9, <1>10 DEF Follow

(* A step of a turn.                                                       *)
LEMMA RunMoved ==
  ASSUME NEW w, NEW p, AppInvAt(w, p), NEW k \in RunIds, Goes(k), NEW run, NEW items, RunGoesOn(w, p, k, run, items), MovedTo(k, run, items),
         NEW e, ToldOf(k, run, items, e), NEW X, SeenOf(w, p, k, items, e, X), Len(w) + Len(e) <= MaxWire, Tell(w, p, e),
         NEW q, page' = q, PageGrown(p, q, X)
  PROVE  AppInv'
<1>1. Follow(w, p, e, X) /\ UnusedFollow(e)
  BY MovedFollow
<1>2. RunsInv'
  BY MovedRuns
<1>3. SameState
  <2>1. /\ rows' \in [AppThreads -> RowRecs] /\ runs' \in [RunIds -> RunRecs] /\ sessions' \in [AppThreads -> 0 .. MaxAppTurns]
    BY MovedFacts
  <2>2. /\ job' \in {"none", "on"} /\ checkout' \in BOOLEAN /\ making' = making
        /\ deleting' \subseteq AppThreads \X (1 .. MaxWindows) \X {"project", "tree"}
    BY AppNow DEF Shapes, MovedTo
  <2> QED BY <2>1, <2>2 DEF SameState
<1>4. DeletingOK(p)
  BY AppNow DEF PageInv, DeletingOK, MovedTo
<1>5. Events(e) /\ (p.pc # "up" => X = {})
  BY DEF ToldOf, SeenOf
<1> QED BY <1>1, <1>2, <1>3, <1>4, <1>5, TurnStepInv

(* What a step of a turn tells, in order: what is begun, what is done.     *)
Tellings(k, begun, items) == [i \in DOMAIN begun |-> Begun(k, begun[i])] \o [i \in DOMAIN items |-> Done(k, items[i])]

LEMMA MsgMade ==
  ASSUME NEW kind \in MsgKinds, NEW on \in Threads, NEW thing \in Items \cup {NoItem}, NEW those \in SUBSET (AppThreads \cup Items)
  PROVE  Msg(kind, on, thing, those) \in Msgs
  BY DEF Msg, Msgs

PartsOf(e, k, begun, items) ==
  /\ e \in Seq(Msgs) /\ Len(e) = Len(begun) + Len(items)
  /\ \A h \in 1 .. Len(e) : \/ \E i \in 1 .. Len(begun) : e[h] = Begun(k, begun[i])
                            \/ \E i \in 1 .. Len(items) : e[h] = Done(k, items[i])
  /\ \A i \in 1 .. Len(items) : \E h \in 1 .. Len(e) : e[h] = Done(k, items[i])
TellingsAre(e, k, begun, items) == e = Tellings(k, begun, items)

LEMMA ToldParts ==
  ASSUME NEW k, runs[k].on \in AppThreads, NEW begun \in Seq(Items), NEW items \in Seq(Items), NEW e, TellingsAre(e, k, begun, items)
  PROVE  PartsOf(e, k, begun, items)
<1>1. PICK b, d : b = [i \in 1 .. Len(begun) |-> Begun(k, begun[i])] /\ d = [i \in 1 .. Len(items) |-> Done(k, items[i])]
  OBVIOUS
<1>2. PICK m, n \in Nat : m = Len(begun) /\ n = Len(items)
  OBVIOUS
<1>3. DOMAIN begun = 1 .. m /\ DOMAIN items = 1 .. n
  BY <1>2
<1>4. e = b \o d
  BY <1>1, <1>2, <1>3 DEF Tellings, TellingsAre
<1>5. ASSUME NEW x \in Items PROVE Begun(k, x) \in Msgs /\ Done(k, x) \in Msgs
  <2>1. /\ "begun" \in MsgKinds /\ "item" \in MsgKinds /\ runs[k].on \in Threads /\ x \in Items \cup {NoItem}
        /\ {} \in SUBSET (AppThreads \cup Items)
    BY <1>5 DEF MsgKinds, Threads
  <2> QED BY <2>1, MsgMade DEF Begun, Done
<1>6. /\ \A i \in 1 .. m : Begun(k, begun[i]) \in Msgs
      /\ \A i \in 1 .. n : Done(k, items[i]) \in Msgs
  <2>1. (\A i \in 1 .. m : begun[i] \in Items) /\ \A i \in 1 .. n : items[i] \in Items
    BY <1>2
  <2> QED BY <1>5, <2>1
<1>7. b \in Seq(Msgs) /\ Len(b) = m
  <2>1. b \in [1 .. m -> Msgs]
    BY <1>1, <1>2, <1>6
  <2> QED BY <2>1, <1>2, SeqDef
<1>8. d \in Seq(Msgs) /\ Len(d) = n
  <2>1. d \in [1 .. n -> Msgs]
    BY <1>1, <1>2, <1>6
  <2> QED BY <2>1, <1>2, SeqDef
<1>9. Extends(e, b, d)
  <2>1. Lengthened(e, b, d)
    BY <1>4 DEF Lengthened
  <2> QED BY <1>7, <1>8, <2>1, WireLonger
<1>10. /\ e \in Seq(Msgs) /\ Len(e) = m + n
       /\ \A h \in 1 .. m : h \in 1 .. Len(e) /\ e[h] = b[h]
       /\ \A h \in 1 .. Len(e) : h \notin 1 .. m => \E i \in 1 .. n : e[h] = d[i]
       /\ \A i \in 1 .. n : \E h \in 1 .. Len(e) : e[h] = d[i]
  BY <1>7, <1>8, <1>9 DEF Extends
<1>11. /\ \A i \in 1 .. m : b[i] = Begun(k, begun[i])
       /\ \A i \in 1 .. n : d[i] = Done(k, items[i])
  BY <1>1, <1>2
<1>12. ASSUME NEW h \in 1 .. Len(e)
       PROVE  \/ \E i \in 1 .. m : e[h] = Begun(k, begun[i])
              \/ \E i \in 1 .. n : e[h] = Done(k, items[i])
  <2>1. CASE h \in 1 .. m
    BY <1>10, <1>11, <2>1
  <2>2. CASE h \notin 1 .. m
    <3>1. PICK i \in 1 .. n : e[h] = d[i]
      BY <1>10, <2>2
    <3> QED BY <1>11, <3>1
  <2> QED BY <2>1, <2>2
<1>13. \A i \in 1 .. n : \E h \in 1 .. Len(e) : e[h] = Done(k, items[i])
  BY <1>10, <1>11
<1> QED BY <1>2, <1>10, <1>12, <1>13 DEF PartsOf

(* A step that tells of items, and goes on.                                *)
LEMMA EmitsInv ==
  ASSUME NEW w, NEW p, AppInvAt(w, p), w = wire, p.pc = page.pc, NEW k \in RunIds, Goes(k), NEW run,
         NEW begun \in Seq(Items), NEW items \in Seq(Items), Emits(k, run, begun, items), RunGoesOn(w, p, k, run, ToSet(items)),
         run.pc # "over", ToSet(begun) \subseteq NowOf(k, run), UNCHANGED <<sessions, checkout, making, deleting, job>>,
         NEW q, page' = q, PageGrown(p, q, {})
  PROVE  AppInv'
<1>1. PICK t, e, those : t = runs[k].on /\ e = Tellings(k, begun, items) /\ those = ToSet(items)
  OBVIOUS
<1>2. t \in AppThreads
  BY <1>1, AppNow DEF RunsInv
<1>3. /\ e \in Seq(Msgs) /\ Len(e) = Len(begun) + Len(items)
      /\ \A h \in 1 .. Len(e) : \/ \E i \in 1 .. Len(begun) : e[h] = Begun(k, begun[i])
                                \/ \E i \in 1 .. Len(items) : e[h] = Done(k, items[i])
      /\ \A i \in 1 .. Len(items) : \E h \in 1 .. Len(e) : e[h] = Done(k, items[i])
  <2>1. TellingsAre(e, k, begun, items) /\ runs[k].on \in AppThreads
    BY <1>1, <1>2 DEF TellingsAre
  <2>2. PartsOf(e, k, begun, items)
    BY <2>1, ToldParts
  <2> QED BY <2>2 DEF PartsOf
<1>4. /\ \A i \in 1 .. Len(begun) : begun[i] \in Items /\ begun[i] \in NowOf(k, run)
      /\ \A i \in 1 .. Len(items) : items[i] \in Items /\ items[i] \in those
      /\ \A x \in those : \E i \in 1 .. Len(items) : x = items[i]
  BY <1>1 DEF ToSet
<1>5. /\ \A x : Begun(k, x).kind = "begun" /\ Begun(k, x).on = t /\ Begun(k, x).item = x
      /\ \A x : Done(k, x).kind = "item" /\ Done(k, x).on = t /\ Done(k, x).item = x
  BY <1>1 DEF Begun, Done, Msg
<1>6. \A h \in 1 .. Len(e) : /\ e[h].on = t /\ e[h].kind \in {"begun", "item"} /\ e[h].item \in Items
                             /\ (e[h].kind = "begun" => e[h].item \in NowOf(k, run))
                             /\ (e[h].kind = "item" => e[h].item \in those)
  <2> SUFFICES ASSUME NEW h \in 1 .. Len(e)
               PROVE  /\ e[h].on = t /\ e[h].kind \in {"begun", "item"} /\ e[h].item \in Items
                      /\ (e[h].kind = "begun" => e[h].item \in NowOf(k, run))
                      /\ (e[h].kind = "item" => e[h].item \in those)
    OBVIOUS
  <2>1. CASE \E i \in 1 .. Len(begun) : e[h] = Begun(k, begun[i])
    BY <1>4, <1>5, <2>1
  <2>2. CASE \E i \in 1 .. Len(items) : e[h] = Done(k, items[i])
    BY <1>4, <1>5, <2>2
  <2> QED BY <1>3, <2>1, <2>2
<1>7. ToldOf(k, run, those, e)
  <2>1. Events(e)
    BY <1>2, <1>3, <1>6 DEF Events, EventKinds
  <2> QED BY <1>1, <1>6, <2>1 DEF ToldOf
<1>8. SeenOf(w, p, k, those, e, {})
  <2>1. ASSUME NEW x \in those PROVE \E h \in 1 .. Len(e) : e[h].kind \in {"begun", "item"} /\ e[h].item = x
    <3>1. PICK i \in 1 .. Len(items) : x = items[i]
      BY <1>4
    <3>2. PICK h \in 1 .. Len(e) : e[h] = Done(k, items[i])
      BY <1>3
    <3> QED BY <1>5, <3>1, <3>2
  <2> QED BY <2>1 DEF SeenOf
<1>9. MovedTo(k, run, those) /\ Tell(w, p, e) /\ Len(w) + Len(e) <= MaxWire
  <2>1. Len(w) + (Len(begun) + Len(items)) <= MaxWire
    BY DEF Emits, Room
  <2>2. wire' = Told(wire, e)
    BY <1>1 DEF Emits, Tellings
  <2> QED BY <1>1, <1>3, <2>1, <2>2 DEF MovedTo, Emits, Tell, Told
<1> QED BY <1>1, <1>7, <1>8, <1>9, RunMoved
=============================================================================
