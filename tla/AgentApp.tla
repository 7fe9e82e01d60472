------------------------------- MODULE AgentApp -------------------------------
(***************************************************************************)
(* The single-player application: the main process with its threads on     *)
(* disk and the turns it runs (src/main/main.js, agent.js, store.js), and  *)
(* the window that shows one thread at a time (src/renderer/app.js).       *)
(*                                                                         *)
(* What main sends to the window, events and answers alike, arrives in     *)
(* order and later; what the window asks is handled at once, since all     *)
(* that main did before it got there is still on its way to the window.    *)
(* Text, deltas and layout are left out: an item is what the row keeps and *)
(* the screen shows.  A second message sent while the first one's thread   *)
(* is being created is left out.                                           *)
(***************************************************************************)
EXTENDS Integers, Sequences, FiniteSets, SequencesExt

CONSTANTS
  AppThreads,   \* threads, each created once
  OldThreads,   \* those of them an earlier start of the application left on disk
  Trees,        \* those of them a worktree may be asked for
  CallLists,    \* what a model may ask for in one answer: sequences of calls
  DemoScripts,  \* what a demo turn does, whatever happens: sequences of calls
  Modes,        \* access modes in use
  MaxAppTurns,  \* bound: turns
  MaxSteers,    \* bound: messages that steer one turn
  MaxAppRounds, \* MAX_TURNS: requests to the model in one turn
  MaxWire,      \* bound: messages on their way to the window
  MaxWindows    \* bound: windows opened

Calls == {"safe", "risky", "edit", "outside", "plan", "text"}

ASSUME AppAssumption ==
  /\ CallLists \subseteq Seq(Calls \ {"text"}) /\ DemoScripts \subseteq Seq(Calls) /\ Trees \cup OldThreads \subseteq AppThreads
  /\ Modes \subseteq {"read-only", "agent", "full-access"}
  /\ "none" \notin AppThreads
  /\ {MaxAppTurns, MaxSteers, MaxAppRounds, MaxWire, MaxWindows} \subseteq Nat

VARIABLES
  rows,      \* disk: threads.json
  checkout,  \* disk: is the project's own working directory still there
  runs,      \* main: every turn, the one with number 0 standing for none
  sessions,  \* main: the map from a thread to its turn
  making,    \* main: threads whose worktree is being added, and for which window
  deleting,  \* main: threads whose worktree is being removed, which it is, for which window
  job,       \* disk: is there an automation, "none" or "on"
  wire,      \* on its way to the window
  page       \* the window

appVars == <<rows, checkout, runs, sessions, making, deleting, job, wire, page>>

RunIds == 1..MaxAppTurns
Item(kind, k, n) == [kind |-> kind, run |-> k, n |-> n]
NoItem == Item("none", 0, 0)
NoRun == [on |-> "none", demo |-> FALSE, mode |-> "agent", pc |-> "none", calls |-> <<>>, steers |-> 0, said |-> 0,
          stopped |-> FALSE, round |-> 0, n |-> 0, plan |-> NoItem]
Msg(kind, t, item, those) == [kind |-> kind, on |-> t, item |-> item, those |-> those]
Unused == [state |-> "unused", tree |-> FALSE, dir |-> "project", items |-> {}]
Gone == [Unused EXCEPT !.state = "gone"]
Closed == [pc |-> "closed", listed |-> {}, active |-> "none", shown |-> {}, cards |-> {}, running |-> {}, asks |-> {},
           describing |-> {}, sending |-> "no", raced |-> FALSE, opened |-> 0]

AppInit ==
  /\ rows = [t \in AppThreads |-> IF t \in OldThreads THEN [Unused EXCEPT !.state = "here"] ELSE Unused]
  /\ checkout = TRUE /\ job \in {"none", "on"}
  /\ runs = [k \in RunIds |-> NoRun] /\ sessions = [t \in AppThreads |-> 0]
  /\ making = {} /\ deleting = {} /\ wire = <<>> /\ page = Closed

Here(t) == rows[t].state = "here"
Held(t) == IF sessions[t] = 0 THEN NoRun ELSE runs[sessions[t]]
(* main's send: nothing when there is no window.                           *)
Told(q, es) == IF page.pc = "closed" THEN q ELSE q \o es
(* What handle returns goes to the window that asked.                      *)
Answer(w, m) == IF w = page.opened THEN Told(wire, <<m>>) ELSE wire
Room(n) == Len(wire) + n <= MaxWire
(* appendMessage: a thread that is gone takes nothing.                     *)
Kept(r, t, items) == IF r[t].state = "here" THEN [r EXCEPT ![t].items = @ \cup items] ELSE r

-----------------------------------------------------------------------------
(* A turn.  Every step below runs to the next await of agent.js.           *)

Begun(k, item) == Msg("begun", runs[k].on, item, {})
Done(k, item) == Msg("item", runs[k].on, item, {})
Next0(k, kind) == Item(kind, k, runs[k].n + 1)

(* emit: item-done is put on record before the window hears of it.         *)
Emits(k, run, begun, items) ==
  /\ Room(Len(begun) + Len(items))
  /\ runs' = [runs EXCEPT ![k] = run]
  /\ rows' = Kept(rows, runs[k].on, ToSet(items))
  /\ wire' = Told(wire, [i \in DOMAIN begun |-> Begun(k, begun[i])] \o [i \in DOMAIN items |-> Done(k, items[i])])

Numbered(k, run) == [run EXCEPT !.n = runs[k].n + 1]
Advanced(k) == [Numbered(k, runs[k]) EXCEPT !.calls = Tail(@), !.pc = "calls"]

(* The end of run: the plan's last state, and one event.  The session is   *)
(* taken out of the map by the name of its thread.                         *)
Ends(k) ==
  LET t == runs[k].on
      plan == IF runs[k].plan = NoItem THEN <<>> ELSE <<runs[k].plan>>
  IN /\ Room(Len(plan) + 1)
     /\ rows' = Kept(rows, t, ToSet(plan))
     /\ runs' = [runs EXCEPT ![k] = [NoRun EXCEPT !.pc = "over"]]
     /\ sessions' = [sessions EXCEPT ![t] = 0]
     /\ wire' = Told(wire, [i \in DOMAIN plan |-> Done(k, plan[i])] \o <<Msg("end", t, NoItem, {})>>)

mainRest == <<checkout, making, deleting, job, page>>

(* The top of a round: stop, give up, or ask with all that was steered.    *)
RoundBegins(k) ==
  /\ runs[k].pc = "top"
  /\ \/ /\ runs[k].stopped \/ runs[k].round = MaxAppRounds
        /\ Ends(k)
     \/ /\ ~runs[k].stopped /\ runs[k].round < MaxAppRounds
        /\ runs' = [runs EXCEPT ![k].steers = 0, ![k].pc = "fetching", ![k].round = @ + 1]
        /\ UNCHANGED <<rows, sessions, wire>>
  /\ UNCHANGED mainRest

(* The request fails, or the stream does: neither is cut short by a stop.  *)
RequestFails(k) ==
  /\ runs[k].pc = "fetching" /\ ~runs[k].demo /\ Ends(k)
  /\ UNCHANGED mainRest

(* The stream ends, or is left at a stop with what it brought so far; an   *)
(* answer with nothing in it still makes an item.                          *)
Answered(k, text, calls) ==
  LET says == text \/ (calls = <<>> /\ ~runs[k].stopped)
      said == IF says THEN <<Next0(k, "text")>> ELSE <<>>
      on == [runs[k] EXCEPT !.n = IF says THEN @ + 1 ELSE @, !.calls = calls,
                            !.pc = IF calls = <<>> THEN "turning" ELSE "calls"]
  IN /\ runs[k].pc = "fetching" /\ ~runs[k].demo
     /\ Emits(k, on, <<>>, said)
     /\ UNCHANGED <<sessions, mainRest>>

(* No call: the turn is over unless somebody steered it meanwhile.         *)
RoundEnds(k) ==
  /\ runs[k].pc = "turning"
  /\ \/ runs[k].steers = 0 /\ Ends(k)
     \/ /\ runs[k].steers > 0
        /\ runs' = [runs EXCEPT ![k].pc = "top"]
        /\ UNCHANGED <<rows, sessions, wire>>
  /\ UNCHANGED mainRest

(* All calls answered, or the turn told to stop: a demo turn does not look.*)
CallsEnd(k) ==
  /\ runs[k].pc = "calls" /\ (runs[k].calls = <<>> \/ (runs[k].stopped /\ ~runs[k].demo))
  /\ \/ (runs[k].demo \/ runs[k].stopped) /\ Ends(k)
     \/ /\ ~runs[k].demo /\ ~runs[k].stopped
        /\ runs' = [runs EXCEPT ![k].pc = "top"]
        /\ UNCHANGED <<rows, sessions, wire>>
  /\ UNCHANGED mainRest

(* A demo turn of the last kind answers what was said meanwhile.           *)
DemoNotes(k) ==
  /\ runs[k].pc = "calls" /\ runs[k].demo /\ runs[k].calls = <<>> /\ runs[k].steers > 0
  /\ Emits(k, [Numbered(k, runs[k]) EXCEPT !.steers = 0], <<>>, <<Next0(k, "text")>>)
  /\ UNCHANGED <<sessions, mainRest>>

Denied(k, call) == runs[k].mode = "read-only" /\ call \in {"risky", "edit", "outside"}
Asking(k, call) == runs[k].mode = "agent" /\ call \in {"risky", "outside"}
KindOf(call) == IF call \in {"edit", "outside"} THEN "edit" ELSE "command"

(* execCommand, writeFile, updatePlan and the texts of a demo turn.        *)
CallRuns(k) ==
  LET call == Head(runs[k].calls)
      item == Next0(k, IF call \in {"plan", "text"} THEN call ELSE KindOf(call))
  IN /\ runs[k].pc = "calls" /\ runs[k].calls # <<>> /\ (runs[k].demo \/ ~runs[k].stopped)
     /\ \/ (Denied(k, call) \/ call = "text" \/ (KindOf(call) = "edit" /\ ~Asking(k, call)))
             /\ call # "plan" /\ Emits(k, Advanced(k), <<>>, <<item>>)
        \/ /\ call \in {"safe", "risky"} /\ ~Denied(k, call) /\ ~Asking(k, call)
           /\ Emits(k, [Numbered(k, runs[k]) EXCEPT !.pc = "running"], <<item>>, <<>>)
        \/ /\ Asking(k, call) /\ Room(1)
           /\ runs' = [runs EXCEPT ![k] = [Numbered(k, @) EXCEPT !.pc = "asking"]]
           /\ wire' = Told(wire, <<Msg("ask", runs[k].on, item, {})>>)
           /\ UNCHANGED rows
        \/ /\ call = "plan"
           /\ IF runs[k].plan = NoItem THEN Emits(k, [Advanced(k) EXCEPT !.plan = item], <<item>>, <<>>)
              ELSE Emits(k, [runs[k] EXCEPT !.calls = Tail(@)], <<runs[k].plan>>, <<>>)
     /\ UNCHANGED <<sessions, mainRest>>

(* The child closes, by itself, after two minutes or killed.               *)
CommandEnds(k) ==
  /\ runs[k].pc \in {"running", "killed"}
  /\ Emits(k, [runs[k] EXCEPT !.pc = "calls", !.calls = Tail(@)], <<>>, <<Item("command", k, runs[k].n)>>)
  /\ UNCHANGED <<sessions, mainRest>>

(* The waiting call goes on with the answer.                               *)
Resumed(k, ok) ==
  LET call == Head(runs[k].calls)
      item == Item(KindOf(call), k, runs[k].n)
  IN IF ok /\ call = "risky"
     THEN Emits(k, [runs[k] EXCEPT !.pc = "running"], <<item>>, <<>>)
     ELSE Emits(k, [runs[k] EXCEPT !.pc = "calls", !.calls = Tail(@)], <<>>, <<item>>)

(* cancel: what waits is answered no, what runs is killed.                 *)
Cancelled(k) ==
  IF runs[k].pc = "asking" THEN [runs[k] EXCEPT !.stopped = TRUE, !.pc = "calls", !.calls = Tail(@)]
  ELSE [runs[k] EXCEPT !.stopped = TRUE, !.pc = IF @ = "running" THEN "killed" ELSE @]
CancelTells(k) ==
  IF runs[k].pc = "asking" THEN <<Item(KindOf(Head(runs[k].calls)), k, runs[k].n)>> ELSE <<>>

-----------------------------------------------------------------------------
(* Turns begin.                                                            *)

FreeRuns == {k \in RunIds : runs[k].pc = "none"}
ThisRun == CHOOSE k \in FreeRuns : \A j \in FreeRuns : k <= j
Script(demo) == IF demo THEN DemoScripts ELSE {<<>>}

(* startTurn, up to the first await.                                       *)
Starts(r, q, t, demo, mode, calls) ==
  LET k == ThisRun IN
  /\ FreeRuns # {}
  /\ rows' = Kept(r, t, {Item("user", k, 0)})
  /\ runs' = [runs EXCEPT ![k] = [NoRun EXCEPT !.on = t, !.demo = demo, !.mode = mode, !.calls = calls,
                                               !.pc = IF demo THEN "calls" ELSE "top"]]
  /\ sessions' = [sessions EXCEPT ![t] = k]
  /\ wire' = Told(q, <<Msg("start", t, NoItem, {})>>)

(* runAutomation: due and not paused, or told to run now.                  *)
AutomationRuns(t, demo, mode, calls) ==
  /\ job # "none" /\ rows[t].state = "unused" /\ Room(2)
  /\ Starts([rows EXCEPT ![t] = [Unused EXCEPT !.state = "here"]], Told(wire, <<Msg("auto", t, NoItem, {})>>),
            t, demo, mode, calls)
  /\ UNCHANGED <<checkout, making, deleting, job, page>>

(* saveAutomation, deleteAutomation.                                       *)
JobChanges(j) ==
  /\ page.pc = "up" /\ j # job
  /\ job' = j
  /\ UNCHANGED <<rows, checkout, runs, sessions, making, deleting, wire, page>>

-----------------------------------------------------------------------------
(* The window.                                                             *)

Opening == \E i \in DOMAIN wire : wire[i].kind = "got"
Waits == Opening \/ page.describing # {} \/ page.sending # "no"
Raced(p) == [p EXCEPT !.raced = @ \/ Waits]
Cleared(p) == [p EXCEPT !.shown = {}, !.cards = {}]
Left(p) == [p EXCEPT !.active = "none"]
(* Bound: a window in which one answer overtook another is used no more.   *)
Usable == page.pc = "up" /\ ~page.raced

WindowOpens ==
  /\ page.pc = "closed" /\ page.opened < MaxWindows
  /\ page' = [Closed EXCEPT !.pc = "loading", !.opened = page.opened + 1] /\ wire' = <<>>
  /\ UNCHANGED <<rows, checkout, runs, sessions, making, deleting, job>>

(* The last step of init asks which turns run; the listeners come after.   *)
WindowAsksRunning ==
  /\ page.pc = "loading" /\ Room(1) /\ ~\E i \in DOMAIN wire : wire[i].kind = "running"
  /\ wire' = Append(wire, Msg("running", "none", NoItem, {t \in AppThreads : Held(t).pc # "none"}))
  /\ UNCHANGED <<rows, checkout, runs, sessions, making, deleting, job, page>>

WindowCloses ==
  /\ page.pc # "closed" /\ page' = [Closed EXCEPT !.opened = page.opened] /\ wire' = <<>>
  /\ UNCHANGED <<rows, checkout, runs, sessions, making, deleting, job>>

(* selectThread up to its first await.                                     *)
Selects(t) ==
  /\ Usable /\ Here(t) /\ t \in page.listed /\ Room(1)
  /\ page' = [Raced(page) EXCEPT !.active = t]
  /\ wire' = Append(wire, Msg("got", t, NoItem, rows[t].items))
  /\ UNCHANGED <<rows, checkout, runs, sessions, making, deleting, job>>

ShowsHome ==
  /\ Usable /\ page.active # "none" /\ page' = Left(Raced(page))
  /\ UNCHANGED <<rows, checkout, runs, sessions, making, deleting, job, wire>>

(* The items of the thread that was read come below what is shown by then. *)
Describes ==
  /\ \E d \in page.describing :
       page' = [page EXCEPT !.describing = @ \ {d}, !.shown = @ \cup d]
  /\ UNCHANGED <<rows, checkout, runs, sessions, making, deleting, job, wire>>

(* sendMessage with no thread open: threads:create.                        *)
SendsFirst(t, tree) ==
  /\ Usable /\ page.active = "none" /\ page.sending = "no" /\ rows[t].state = "unused" /\ Room(1)
  /\ tree => t \in Trees
  /\ page' = [Raced(page) EXCEPT !.sending = "creating"]
  /\ rows' = [rows EXCEPT ![t] = [Unused EXCEPT !.state = "here", !.tree = tree]]
  /\ IF tree THEN making' = making \cup {<<t, page.opened>>} /\ UNCHANGED wire
     ELSE wire' = Append(wire, Msg("created", t, NoItem, {t})) /\ UNCHANGED making
  /\ UNCHANGED <<checkout, runs, sessions, deleting, job>>

(* git has added the worktree, or not: only then the row says where it is. *)
WorktreeAdded(t, w, ok) ==
  /\ <<t, w>> \in making /\ Room(1) /\ making' = making \ {<<t, w>>}
  /\ rows' = IF Here(t) THEN [rows EXCEPT ![t].tree = ok, ![t].dir = IF ok THEN "tree" ELSE "project"] ELSE rows
  /\ wire' = Answer(w, Msg("created", t, NoItem, IF Here(t) THEN {t} ELSE {}))
  /\ UNCHANGED <<checkout, runs, sessions, deleting, job, page>>

(* The message itself, to the thread that is open by then.  Main decides   *)
(* whether it steers the turn or starts one; an unknown thread refuses it. *)
Steer(k) == Item("steer", k, runs[k].said + 1)
Sends(p, q, demo, mode, calls) ==
  LET t == p.active IN
  \/ /\ t # "none" /\ Held(t).pc # "none" /\ Held(t).said < MaxSteers
     /\ runs' = [runs EXCEPT ![sessions[t]].steers = @ + 1, ![sessions[t]].said = @ + 1]
     /\ rows' = Kept(rows, t, {Steer(sessions[t])})
     /\ page' = [p EXCEPT !.shown = @ \cup {Steer(sessions[t])}]
     /\ wire' = q /\ UNCHANGED sessions
  \/ /\ t # "none" /\ Held(t).pc = "none" /\ Here(t) /\ FreeRuns # {}
     /\ page' = [p EXCEPT !.shown = @ \cup {Item("user", ThisRun, 0)}]
     /\ Starts(rows, q, t, demo, mode, calls)
  \/ /\ (IF t = "none" THEN TRUE ELSE Held(t).pc = "none" /\ ~Here(t))
     /\ page' = p /\ wire' = q /\ UNCHANGED <<runs, rows, sessions>>

SendsMore(demo, mode, calls) ==
  /\ Usable /\ page.active # "none" /\ page.sending = "no" /\ Room(1)
  /\ Sends(Raced(page), wire, demo, mode, calls)
  /\ UNCHANGED <<checkout, making, deleting, job>>

(* A click on the card of a request, which goes away with it.              *)
Approves(c, ok) ==
  /\ Usable /\ c \in page.cards
  /\ page' = [page EXCEPT !.asks = @ \ {c.on}, !.cards = @ \ {c}]
  /\ IF sessions[c.on] = c.item.run /\ Held(c.on).pc = "asking" /\ Held(c.on).n = c.item.n
     THEN Resumed(sessions[c.on], ok)
     ELSE UNCHANGED <<runs, rows, wire>>
  /\ UNCHANGED <<checkout, sessions, making, deleting, job>>

Stops ==
  /\ Usable /\ page.active # "none" /\ Held(page.active).pc # "none"
  /\ Emits(sessions[page.active], Cancelled(sessions[page.active]), <<>>, CancelTells(sessions[page.active]))
  /\ UNCHANGED <<sessions, mainRest>>

Leaving(t) == \E d \in deleting : d[1] = t

(* threads:delete, up to its await if there is a worktree to remove.       *)
Deletes(t) ==
  LET k == sessions[t]
      told == IF k = 0 THEN <<>> ELSE CancelTells(k)
      left == IF rows[t].tree THEN rows ELSE [rows EXCEPT ![t] = Gone]
      gone == IF rows[t].tree THEN <<>> ELSE <<Msg("deleted", t, NoItem, {})>>
  IN /\ Usable /\ Here(t) /\ t \in page.listed /\ ~Leaving(t) /\ Room(2)
     /\ runs' = IF k = 0 THEN runs ELSE [runs EXCEPT ![k] = Cancelled(k)]
     /\ sessions' = [sessions EXCEPT ![t] = 0]
     /\ rows' = Kept(left, t, ToSet(told))
     /\ wire' = Told(wire, [i \in DOMAIN told |-> Done(k, told[i])] \o gone)
     /\ deleting' = IF rows[t].tree THEN deleting \cup {<<t, page.opened, rows[t].dir>>} ELSE deleting
     /\ UNCHANGED <<checkout, making, job, page>>

(* removeWorktree removes the directory the row names, then the row goes.  *)
WorktreeRemoved(t, w, dir) ==
  /\ <<t, w, dir>> \in deleting /\ Room(1) /\ deleting' = deleting \ {<<t, w, dir>>}
  /\ checkout' = (checkout /\ dir = "tree")
  /\ rows' = [rows EXCEPT ![t] = Gone]
  /\ wire' = Answer(w, Msg("deleted", t, NoItem, {}))
  /\ UNCHANGED <<runs, sessions, making, job, page>>

(* Mutant: the list forgets that a thread runs, not that it asked.         *)
EndedStillAsking(p, t) == [p EXCEPT !.running = @ \ {t}]
EndedOn(p, t) == [p EXCEPT !.running = @ \ {t}, !.asks = @ \ {t}]

Shows(p, m) == IF p.active = m.on THEN [p EXCEPT !.shown = @ \cup {m.item}] ELSE p
Asked(p, m) ==
  [p EXCEPT !.asks = @ \cup {m.on}, !.cards = IF p.active = m.on THEN @ \cup {[on |-> m.on, item |-> m.item]} ELSE @]

(* refreshThreads: the list is what is on disk.                            *)
Listed(p) == [p EXCEPT !.listed = {t \in AppThreads : Here(t)}]

(* onAgentEvent and onAutomation.                                          *)
Follows(p, m) ==
  CASE m.kind = "auto" -> [Listed(p) EXCEPT !.running = @ \cup {m.on}]
    [] m.kind = "start" -> [p EXCEPT !.running = @ \cup {m.on}]
    [] m.kind \in {"begun", "item"} -> Shows(p, m)
    [] m.kind = "ask" -> Asked(p, m)
    [] m.kind = "end" -> Listed(EndedOn(p, m.on))
    [] m.kind = "deleted" -> Listed(IF p.active = m.on THEN Left(Raced(p)) ELSE p)
    [] OTHER -> p

WindowHears ==
  LET m == Head(wire) q == Tail(wire) IN
  /\ wire # <<>> /\ page.pc # "closed"
  /\ \/ /\ page.pc = "loading" /\ wire' = q
        /\ page' = IF m.kind = "running" THEN [Listed(page) EXCEPT !.pc = "up", !.running = m.those] ELSE page
     \/ /\ page.pc = "up" /\ m.kind \notin {"got", "created", "listed"} /\ page' = Follows(page, m) /\ wire' = q
     \/ /\ page.pc = "up" /\ m.kind = "got" /\ wire' = q
        /\ page' \in {[Cleared(page) EXCEPT !.shown = m.those], [Cleared(page) EXCEPT !.describing = @ \cup {m.those}]}
     \/ /\ page.pc = "up" /\ m.kind = "created" /\ m.those = {} /\ wire' = q
        /\ page' = [page EXCEPT !.sending = "no"]
     \/ /\ page.pc = "up" /\ m.kind = "created" /\ m.those # {} /\ wire' = Append(q, Msg("listed", m.on, NoItem, {}))
        /\ page' = [page EXCEPT !.active = m.on, !.sending = "listing"]
  /\ UNCHANGED <<rows, checkout, runs, sessions, making, deleting, job>>

(* sendMessage goes on once the list is there.                             *)
SendFollows(demo, mode, calls) ==
  /\ wire # <<>> /\ page.pc = "up" /\ Head(wire).kind = "listed"
  /\ Sends([Listed(Cleared(page)) EXCEPT !.sending = "no"], Tail(wire), demo, mode, calls)
  /\ UNCHANGED <<checkout, making, deleting, job>>

(* The application ends, or is killed: only the disk is left.              *)
AppStops ==
  /\ page.pc # "closed"
  /\ runs' = [k \in RunIds |-> IF runs[k].pc = "none" THEN NoRun ELSE [NoRun EXCEPT !.pc = "over"]]
  /\ sessions' = [t \in AppThreads |-> 0] /\ making' = {} /\ deleting' = {} /\ wire' = <<>>
  /\ page' = [Closed EXCEPT !.opened = page.opened]
  /\ UNCHANGED <<rows, checkout, job>>

AppNext ==
  \/ \E k \in RunIds :
       \/ RoundBegins(k) \/ RequestFails(k) \/ RoundEnds(k) \/ CallsEnd(k) \/ CallRuns(k) \/ CommandEnds(k)
       \/ DemoNotes(k)
       \/ \E text \in BOOLEAN, calls \in CallLists : Answered(k, text, calls)
  \/ \E demo \in BOOLEAN : \E mode \in Modes, calls \in Script(demo) :
       \/ SendsMore(demo, mode, calls) \/ SendFollows(demo, mode, calls)
       \/ \E t \in AppThreads : AutomationRuns(t, demo, mode, calls)
  \/ \E j \in {"none", "on"} : JobChanges(j)
  \/ \E t \in AppThreads :
       \/ Selects(t) \/ Deletes(t) \/ \E w \in 1..MaxWindows : \/ \E dir \in {"project", "tree"} : WorktreeRemoved(t, w, dir)
                               \/ \E ok \in BOOLEAN : WorktreeAdded(t, w, ok)
       \/ \E tree \in BOOLEAN : SendsFirst(t, tree)
  \/ WindowOpens \/ WindowAsksRunning \/ WindowCloses \/ ShowsHome \/ Describes \/ WindowHears \/ Stops \/ AppStops
  \/ \E c \in page.cards, ok \in BOOLEAN : Approves(c, ok)

AppSpec == AppInit /\ [][AppNext]_appVars

-----------------------------------------------------------------------------
(* Every variable has its shape.                                           *)
AppTypeOK ==
  /\ \A t \in AppThreads : /\ rows[t].state \in {"unused", "here", "gone"} /\ sessions[t] \in 0..MaxAppTurns
                           /\ rows[t].tree \in BOOLEAN /\ rows[t].dir \in {"project", "tree"}
  /\ \A k \in RunIds : /\ runs[k].pc \in {"none", "top", "fetching", "turning", "calls", "asking", "running", "killed", "over"}
                       /\ runs[k].calls \in Seq(Calls) /\ runs[k].steers \in 0..MaxSteers
  /\ making \subseteq AppThreads \X (1..MaxWindows)
  /\ deleting \subseteq AppThreads \X (1..MaxWindows) \X {"project", "tree"} /\ job \in {"none", "on"}
  /\ Len(wire) <= MaxWire /\ checkout \in BOOLEAN
  /\ page.listed \subseteq AppThreads /\ page.running \subseteq AppThreads /\ page.asks \subseteq AppThreads
  /\ page.pc \in {"closed", "loading", "up"} /\ page.sending \in {"no", "creating", "listing"}

(* When nothing is on its way to the window and it waits for nothing, it   *)
(* tells what is: a thread turns in the list if and only if it has a turn  *)
(* one can steer or stop; the mark of a request stands for one that is     *)
(* open, or for a turn told to stop; and the open thread shows all that    *)
(* its row keeps and nothing more, but for the command or plan under way   *)
(* (app.js:110-129, 378-399, 549-654, main.js:179-217).  Excepted are      *)
(* threads being deleted, whose turn goes on, and a window in which one    *)
(* selection or message overtook another (README).                   *)
UnderWay(k) == {runs[k].plan} \cup (IF runs[k].pc \in {"running", "killed"} THEN {Item("command", k, runs[k].n)} ELSE {})
WindowTellsTruth ==
  page.pc = "up" /\ wire = <<>> /\ ~Waits /\ ~page.raced =>
    /\ \A t \in {u \in AppThreads : Here(u) /\ ~Leaving(u)} :
         /\ t \in page.running <=> sessions[t] # 0
         /\ t \in page.asks => Held(t).pc = "asking" \/ Held(t).stopped
    /\ \A t \in AppThreads : page.active = t /\ Here(t) /\ ~Leaving(t) =>
         /\ rows[t].items \subseteq page.shown
         /\ page.shown \ rows[t].items \subseteq UNION {UnderWay(k) : k \in {j \in RunIds : sessions[t] = j}}

(* Deleting a thread never takes the project's own checkout with it: a     *)
(* thread's worktree is a directory of its own ("Changes here do not touch *)
(* the main checkout", agent.js:339; gitutils.js:96-110, main.js:64-87).   *)
CheckoutStays == checkout

=============================================================================
