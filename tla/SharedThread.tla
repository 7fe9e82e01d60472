---------------------------- MODULE SharedThread ----------------------------
(***************************************************************************)
(* One thread as three parties hold it: the row on the execution host's    *)
(* disk, the copy of it a running turn closes over                         *)
(* (packages/runtime/index.js), and the row at the hub that every client   *)
(* looks at (packages/hub/server.js), which the hub derives from the       *)
(* host's thread.upsert snapshots and from the events of its turns.        *)
(*                                                                         *)
(* The host tells the hub over a connection that breaks and is reopened;   *)
(* what it says meanwhile is buffered (packages/runtime/hub-client.js).    *)
(* Either process may stop.  Commands are taken as they reach the host;    *)
(* how they get there is module CommandLedger, and what a turn does is     *)
(* module TurnSession: here a turn starts, may ask for an approval, gets   *)
(* its answer, is asked to stop and ends.                                  *)
(***************************************************************************)
EXTENDS Integers, Sequences

CONSTANTS
  Helps,        \* ids of help requests
  MaxTurns,     \* bound: turns started
  MaxEvents,    \* bound: events emitted before nothing new is asked
  MaxConns,     \* bound: connections the host opens
  MaxCrashes,   \* bound: crashes of the host
  MaxRestarts   \* bound: restarts of the hub

ASSUME BoundsAssumption ==
  {MaxTurns, MaxEvents, MaxConns, MaxCrashes, MaxRestarts} \subseteq Nat

VARIABLES
  row,          \* hub store: the thread, [status, flag, turn, prompt]
  applied,      \* hub store: number of the last event in the thread's log
  registered,   \* hub: runtimes.get(runtimeId), a connection or 0
  hubConns,     \* hub: connections whose close event has not run
  greeted,      \* hub: connections that were sent a welcome
  up,           \* messages on their way to the hub, per connection
  opened,       \* connections opened so far
  hostConn,     \* host: the HubClient's open socket, or 0
  welcomed,     \* host: the socket HubClient.welcome came over, or 0
  queue,        \* host: HubClient.queue
  disk,         \* host store: the thread, [help, open, cleared]
  copy,         \* host: the thread object turnStart closes over
  turn,         \* host: the running turn, or 0
  turns,        \* turns started so far
  pending,      \* host: the running turn waits for an approval
  stopping,     \* host: session.interruptState of the running turn is set
  turnConn,     \* history: the connection the turn was started over, or 0
  emitted,      \* history: events emitted so far
  wanted,       \* history: help requests accepted and not resolved
  crashes, restarts

hubVars == <<row, applied, registered, hubConns, greeted>>
linkVars == <<up, opened, hostConn, welcomed, queue>>
turnVars == <<copy, turn, turns, pending, stopping, turnConn>>
countVars == <<crashes, restarts>>
vars == <<hubVars, linkVars, disk, turnVars, emitted, wanted, countVars>>

Conns == 1 .. MaxConns
Methods == {"turn/started", "requestApproval", "serverRequest/resolved",
            "turn/interrupt/requested", "turn/completed", "turn/failed", "turn/abandoned",
            "help/requested", "help/resolved"}

(* thread.upsert carries the whole row of the host.  Its status is idle,   *)
(* the only one the host ever stores; it has an activeTurnId, null, once a *)
(* turn of the thread was found abandoned, and never a pendingApproval.    *)
Hello == [type |-> "hello"]
Upsert(cleared) == [type |-> "upsert", cleared |-> cleared]
Event(method, n, id) == [type |-> "event", method |-> method, n |-> n, turn |-> id]

NewRow == [help |-> {}, open |-> FALSE, cleared |-> FALSE]

Init ==
  /\ row = [status |-> "idle", flag |-> "none", turn |-> 0, prompt |-> FALSE]
  /\ applied = 0 /\ registered = 0 /\ hubConns = {} /\ greeted = {}
  /\ up = [n \in Conns |-> <<>>] /\ opened = 0
  /\ hostConn = 0 /\ welcomed = 0 /\ queue = <<>>
  /\ disk = NewRow /\ copy = NewRow
  /\ turn = 0 /\ turns = 0 /\ pending = FALSE /\ stopping = FALSE /\ turnConn = 0
  /\ emitted = 0 /\ wanted = {} /\ crashes = 0 /\ restarts = 0

-----------------------------------------------------------------------------
(* The host speaks: HubClient.send.                                        *)

Ready == hostConn # 0 /\ welcomed = hostConn

Sent(ms) == IF hostConn \in hubConns THEN [up EXCEPT ![hostConn] = @ \o ms] ELSE up

Emit(methods, id) ==
  LET events == [i \in DOMAIN methods |-> Event(methods[i], emitted + i, id)]
  IN  /\ emitted' = emitted + Len(methods)
      /\ IF Ready THEN up' = Sent(events) /\ UNCHANGED queue
         ELSE queue' = queue \o events /\ UNCHANGED up

Speaking == UNCHANGED <<hubVars, opened, hostConn, welcomed, countVars>>

-----------------------------------------------------------------------------
(* A turn of the host.                                                     *)

(* turnStart, a command: the session keeps the thread object it was given. *)
TurnStarts ==
  /\ Ready /\ turn = 0 /\ turns < MaxTurns
  /\ turns' = turns + 1 /\ turn' = turns + 1
  /\ copy' = disk /\ turnConn' = hostConn
  /\ Emit(<<"turn/started">>, turns + 1)
  /\ Speaking /\ UNCHANGED <<disk, pending, stopping, wanted>>

(* requestApproval: announced, then recorded by writing the copy.          *)
TurnAsks ==
  /\ turn # 0 /\ ~pending /\ ~stopping /\ emitted < MaxEvents
  /\ pending' = TRUE
  /\ copy' = [copy EXCEPT !.open = TRUE] /\ disk' = copy'
  /\ Emit(<<"requestApproval">>, turn)
  /\ Speaking /\ UNCHANGED <<turn, turns, stopping, turnConn, wanted>>

(* settleApproval, by a person or by the timer.                            *)
TurnIsAnswered ==
  /\ turn # 0 /\ pending
  /\ pending' = FALSE
  /\ copy' = [copy EXCEPT !.open = FALSE] /\ disk' = copy'
  /\ Emit(<<"serverRequest/resolved">>, turn)
  /\ Speaking /\ UNCHANGED <<turn, turns, stopping, turnConn, wanted>>

(* requestInterrupt, a command: what is outstanding is cancelled with it.  *)
TurnIsStopped ==
  /\ Ready /\ turn # 0 /\ ~stopping
  /\ stopping' = TRUE /\ pending' = FALSE
  /\ IF pending THEN copy' = [copy EXCEPT !.open = FALSE] /\ disk' = copy'
     ELSE UNCHANGED <<copy, disk>>
  /\ Emit(<<"turn/interrupt/requested">> \o
          (IF pending THEN <<"serverRequest/resolved">> ELSE <<>>), turn)
  /\ Speaking /\ UNCHANGED <<turn, turns, turnConn, wanted>>

(* run returns, and the copy is written a last time.                       *)
TurnEnds ==
  /\ turn # 0 /\ ~pending
  /\ turn' = 0 /\ turnConn' = 0 /\ stopping' = FALSE
  /\ disk' = copy /\ copy' = NewRow
  /\ \E how \in {"turn/completed", "turn/failed"} :
       /\ stopping => how = "turn/completed"
       /\ Emit(<<how>>, turn)
  /\ Speaking /\ UNCHANGED <<turns, pending, wanted>>

(* Commands on the row: it is read from disk, changed and written back,    *)
(* whatever a running turn closes over.                                    *)
HelpAsked(h) ==
  /\ Ready /\ h \notin wanted /\ h \notin disk.help /\ emitted < MaxEvents
  /\ wanted' = wanted \cup {h}
  /\ disk' = [disk EXCEPT !.help = @ \cup {h}]
  /\ Emit(<<"help/requested">>, 0)
  /\ Speaking /\ UNCHANGED turnVars

HelpResolved(h) ==
  /\ Ready /\ h \in disk.help /\ emitted < MaxEvents
  /\ wanted' = wanted \ {h}
  /\ disk' = [disk EXCEPT !.help = @ \ {h}]
  /\ Emit(<<"help/resolved">>, 0)
  /\ Speaking /\ UNCHANGED turnVars

HostSteps ==
  \/ TurnStarts \/ TurnAsks \/ TurnIsAnswered \/ TurnIsStopped \/ TurnEnds
  \/ \E h \in Helps : HelpAsked(h) \/ HelpResolved(h)

-----------------------------------------------------------------------------
(* The connection.                                                         *)

Replaced(n) == n \in hubConns /\ n # registered /\ n \in greeted

HostConnects ==
  /\ hostConn = 0 /\ opened < MaxConns
  /\ opened' = opened + 1 /\ hostConn' = opened + 1
  /\ hubConns' = hubConns \cup {opened + 1}
  /\ up' = [up EXCEPT ![opened + 1] = <<Hello>>]
  /\ UNCHANGED <<row, applied, registered, greeted, welcomed, queue, disk, turnVars,
                 emitted, wanted, countVars>>

HostDrops ==
  /\ hostConn' = 0 /\ welcomed' = 0
  /\ UNCHANGED <<hubVars, up, opened, queue, disk, turnVars, emitted, wanted, countVars>>

(* The network fails, or the hub closed its side.                          *)
HostLosesLink == hostConn # 0 /\ HostDrops
HostSeesClose == hostConn # 0 /\ (hostConn \notin hubConns \/ Replaced(hostConn)) /\ HostDrops

(* onHello of the paired host.                                             *)
HubHello(n) ==
  /\ n \in hubConns /\ n \notin greeted
  /\ registered' = n /\ greeted' = greeted \cup {n}
  /\ up' = [up EXCEPT ![n] = Tail(@)]
  /\ UNCHANGED <<row, applied, hubConns, opened, hostConn, welcomed, queue, disk, turnVars,
                 emitted, wanted, countVars>>

(* Mutant: reconnecting only flushes what was buffered.                    *)
HostWelcomeSilent ==
  /\ hostConn # 0 /\ hostConn \in greeted /\ welcomed # hostConn
  /\ welcomed' = hostConn /\ queue' = <<>>
  /\ up' = Sent(queue)
  /\ UNCHANGED <<hubVars, opened, hostConn, disk, turnVars, emitted, wanted, countVars>>

(* The welcome handler: a turn that did not survive the process is         *)
(* declared abandoned if it left an approval open, the row is announced,   *)
(* and only then does HubClient flush what was buffered.                   *)
HostWelcome ==
  /\ hostConn # 0 /\ hostConn \in greeted /\ welcomed # hostConn
  /\ welcomed' = hostConn /\ queue' = <<>>
  /\ LET abandoned == turn = 0 /\ disk.open
         said == IF abandoned THEN <<Event("turn/abandoned", emitted + 1, 0)>> ELSE <<>>
     IN  /\ disk' = IF abandoned THEN [disk EXCEPT !.open = FALSE, !.cleared = TRUE] ELSE disk
         /\ emitted' = emitted + Len(said)
         /\ up' = Sent(said \o <<Upsert(disk'.cleared)>> \o queue)
  /\ UNCHANGED <<hubVars, opened, hostConn, turnVars, wanted, countVars>>

-----------------------------------------------------------------------------
(* The hub's row.                                                          *)

(* Mutant: what the host announces does not touch a row that is unknown.   *)
AnnouncedToKnown(r, m) ==
  IF r.status = "unknown" THEN r
  ELSE [r EXCEPT !.status = "idle", !.flag = "none", !.turn = IF m.cleared THEN 0 ELSE @]

(* onThreadUpsert: the host's row over the hub's.                          *)
Announced(r, m) ==
  [r EXCEPT !.status = "idle", !.flag = "none", !.turn = IF m.cleared THEN 0 ELSE @]

Running(r, flag) == [r EXCEPT !.status = "active", !.flag = flag]

(* Mutant: a failed turn leaves its own status on the thread.              *)
OverByTurn(r, status) ==
  [r EXCEPT !.status = IF status = "systemError" THEN "failed" ELSE status, !.flag = "none",
            !.turn = 0, !.prompt = FALSE]

Over(r, status) == [r EXCEPT !.status = status, !.flag = "none", !.turn = 0, !.prompt = FALSE]

(* onAppend: what each method says of the thread.                          *)
Patched(r, m) ==
  CASE m.method = "turn/started" ->
         [Running(r, "none") EXCEPT !.turn = m.turn, !.prompt = FALSE]
    [] m.method = "requestApproval" -> [Running(r, "waitingOnApproval") EXCEPT !.prompt = TRUE]
    [] m.method = "serverRequest/resolved" -> [Running(r, "none") EXCEPT !.prompt = FALSE]
    [] m.method = "turn/interrupt/requested" -> Running(r, "stopping")
    [] m.method \in {"turn/completed", "turn/abandoned"} -> Over(r, "idle")
    [] m.method = "turn/failed" -> Over(r, "systemError")
    [] m.method \in {"help/requested", "help/resolved"} -> r

(* Mutant: a message is believed from any connection of the host.          *)
HubReceivesFromAny(n) ==
  /\ n \in hubConns /\ n \in greeted /\ up[n] # <<>>
  /\ up' = [up EXCEPT ![n] = Tail(@)]
  /\ LET m == Head(up[n])
     IN  IF m.type = "upsert" THEN row' = Announced(row, m) /\ UNCHANGED applied
         ELSE row' = Patched(row, m) /\ applied' = m.n
  /\ UNCHANGED <<registered, hubConns, greeted, opened, hostConn, welcomed, queue, disk,
                 turnVars, emitted, wanted, countVars>>

(* A message of the host, believed from the registered connection only.    *)
HubReceives(n) ==
  /\ n \in hubConns /\ n \in greeted /\ up[n] # <<>>
  /\ up' = [up EXCEPT ![n] = Tail(@)]
  /\ LET m == Head(up[n])
     IN  CASE registered # n -> UNCHANGED <<row, applied>>
           [] registered = n /\ m.type = "upsert" -> row' = Announced(row, m) /\ UNCHANGED applied
           [] registered = n /\ m.type = "event" -> row' = Patched(row, m) /\ applied' = m.n
  /\ UNCHANGED <<registered, hubConns, greeted, opened, hostConn, welcomed, queue, disk,
                 turnVars, emitted, wanted, countVars>>

(* Mutant: only a thread whose turn waits for an approval is marked.       *)
MarkedIfWaiting(r) ==
  IF r.flag = "waitingOnApproval"
  THEN [r EXCEPT !.status = "unknown", !.flag = "none", !.prompt = FALSE]
  ELSE r

(* markRunningThreadsUnknown.                                              *)
Marked(r) ==
  IF r.status = "active"
  THEN [r EXCEPT !.status = "unknown", !.flag = "none", !.prompt = FALSE]
  ELSE r

(* Mutant: the close of any connection of the host marks its threads.      *)
HubClosesAny(n) ==
  /\ n \in hubConns /\ (hostConn # n \/ Replaced(n))
  /\ registered' = (IF registered = n THEN 0 ELSE registered) /\ row' = Marked(row)
  /\ hubConns' = hubConns \ {n}
  /\ up' = [up EXCEPT ![n] = <<>>]
  /\ UNCHANGED <<applied, greeted, opened, hostConn, welcomed, queue, disk, turnVars,
                 emitted, wanted, countVars>>

(* onClose; what had not been read is lost.                                *)
HubCloses(n) ==
  /\ n \in hubConns /\ (hostConn # n \/ Replaced(n))
  /\ IF registered = n THEN registered' = 0 /\ row' = Marked(row)
     ELSE UNCHANGED <<registered, row>>
  /\ hubConns' = hubConns \ {n}
  /\ up' = [up EXCEPT ![n] = <<>>]
  /\ UNCHANGED <<applied, greeted, opened, hostConn, welcomed, queue, disk, turnVars,
                 emitted, wanted, countVars>>

(* The stores survive; sockets, sessions and what was buffered do not.     *)
HubRestarts ==
  /\ restarts < MaxRestarts /\ restarts' = restarts + 1
  /\ registered' = 0 /\ hubConns' = {} /\ up' = [n \in Conns |-> <<>>]
  /\ UNCHANGED <<row, applied, greeted, opened, hostConn, welcomed, queue, disk, turnVars,
                 emitted, wanted, crashes>>

HostCrashes ==
  /\ crashes < MaxCrashes /\ crashes' = crashes + 1
  /\ hostConn' = 0 /\ welcomed' = 0 /\ queue' = <<>>
  /\ copy' = NewRow /\ turn' = 0 /\ pending' = FALSE /\ stopping' = FALSE /\ turnConn' = 0
  /\ UNCHANGED <<hubVars, up, opened, disk, turns, emitted, wanted, restarts>>

Next ==
  \/ HostSteps
  \/ HostConnects \/ HostLosesLink \/ HostSeesClose \/ HostWelcome
  \/ \E n \in Conns : HubHello(n) \/ HubReceives(n) \/ HubCloses(n)
  \/ HubRestarts \/ HostCrashes

(* Processes that are up run their handlers; turns, people, the network    *)
(* and crashes owe nothing.                                                *)
Fairness ==
  /\ \A n \in Conns : WF_vars(HubHello(n)) /\ WF_vars(HubReceives(n)) /\ WF_vars(HubCloses(n))
  /\ WF_vars(HostSeesClose) /\ WF_vars(HostWelcome)

Spec == Init /\ [][Next]_vars
FairSpec == Spec /\ Fairness

-----------------------------------------------------------------------------
(* Properties.                                                             *)

HostRows == [help : SUBSET Helps, open : BOOLEAN, cleared : BOOLEAN]
Events == [type : {"event"}, method : Methods, n : Nat, turn : 0 .. MaxTurns]
Messages == {Hello} \cup {Upsert(c) : c \in BOOLEAN} \cup Events

(* Every variable has its shape.                                           *)
TypeOK ==
  /\ row \in [status : {"idle", "active", "systemError", "unknown"},
              flag : {"none", "waitingOnApproval", "stopping"},
              turn : 0 .. MaxTurns, prompt : BOOLEAN]
  /\ applied \in Nat /\ registered \in {0} \cup Conns
  /\ hubConns \subseteq Conns /\ greeted \subseteq Conns
  /\ \A n \in Conns : \A i \in DOMAIN up[n] : up[n][i] \in Messages
  /\ opened \in 0 .. MaxConns /\ hostConn \in {0} \cup Conns /\ welcomed \in {0} \cup Conns
  /\ \A i \in DOMAIN queue : queue[i] \in Events
  /\ disk \in HostRows /\ copy \in HostRows
  /\ turn \in 0 .. MaxTurns /\ turns \in 0 .. MaxTurns
  /\ pending \in BOOLEAN /\ stopping \in BOOLEAN /\ turnConn \in {0} \cup Conns
  /\ emitted \in Nat /\ wanted \subseteq Helps
  /\ crashes \in 0 .. MaxCrashes /\ restarts \in 0 .. MaxRestarts

(* The thread's log only moves forward: events may be lost with a          *)
(* connection, but none is applied after a later one, or twice, although   *)
(* reconnecting sends what the reconciliation says ahead of what was       *)
(* buffered, and connections overlap.                                      *)
EventsInOrder == [][applied' # applied => applied' > applied]_vars

(* As long as the hub has not restarted, a host that has no registered     *)
(* connection has nothing the team sees as running.                        *)
AbsentHostRunsNothing == registered = 0 /\ restarts = 0 => row.status # "active"

(* Host and hub have nothing left to tell each other.                      *)
Settled == Ready /\ registered = hostConn /\ up[hostConn] = <<>>

(* Whatever was lost on the way, once they are settled and no turn runs,   *)
(* the team sees the thread as over, and not as running or as unknown.     *)
SettledThreadIsOver == Settled /\ turn = 0 => row.status \in {"idle", "systemError"}

(* A turn of the present connection is seen as it is: running, under its   *)
(* own id, and with a prompt and the waiting flag just while the host      *)
(* waits for the answer.                                                   *)
MirrorFollowsTurn ==
  Settled /\ turn # 0 /\ turnConn = hostConn =>
    /\ row.status = "active" /\ row.turn = turn
    /\ row.prompt = pending /\ (row.flag = "waitingOnApproval") = pending

(* A thread of unknown outcome does not stay one while its host is there   *)
(* to say what happened.                                                   *)
UnknownPasses ==
  (row.status = "unknown" /\ hostConn # 0) ~> (row.status # "unknown" \/ hostConn = 0)

(* A thread that reads as idle has no turn whose outcome was never told.   *)
IdleMeansOver == row.status = "idle" => row.turn = 0

(* A help request that was accepted is on the thread until it is resolved. *)
HelpKept == wanted \subseteq disk.help
=============================================================================
