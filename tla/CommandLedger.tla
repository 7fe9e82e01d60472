--------------------------- MODULE CommandLedger ---------------------------
(***************************************************************************)
(* How a command travels from a person to the one machine that may act on  *)
(* it, and how the answer comes back.                                      *)
(*                                                                         *)
(* The hub (packages/hub/server.js) remembers commands in memory: in       *)
(* commandLog, by user and command id, so that a retry is answered and not *)
(* sent again, and in pendingCommands, by command id, so that a result     *)
(* finds whoever waits for it.  The execution host                         *)
(* (packages/runtime/index.js) keeps a durable table of the ids it has     *)
(* claimed.  Between them is a WebSocket that breaks and is reopened       *)
(* (packages/runtime/hub-client.js); the host buffers what it wants to say *)
(* while the link is down.  Both processes may stop at any step: the hub   *)
(* forgets both maps, the host forgets its buffer and what it was running. *)
(*                                                                         *)
(* What a command does on the host is abstracted to the fact that it ran;  *)
(* the pairing of the host with its team is fixed.                         *)
(***************************************************************************)
EXTENDS Integers, Sequences, FiniteSets

CONSTANTS
  Users,        \* people with an account on the hub
  Owner,        \* the owner of the host's team, who cannot be removed
  Ids,          \* command ids chosen by clients
  Inputs,       \* what a command asks for: method, thread and parameters
  Commands,     \* the commands people may send: records [user, id, input]
  Tabs,         \* client connections
  UserOf,       \* the person behind each client connection
  MaxLog,       \* settled commands the hub keeps (2000 in the code)
  MaxConns,     \* bound: host connections opened in a behaviour
  MaxCrashes,   \* bound: host crashes in a behaviour
  MaxRestarts   \* bound: hub restarts in a behaviour

ASSUME CommandsAssumption == Commands \subseteq [user : Users, id : Ids, input : Inputs]
ASSUME UserOfAssumption == UserOf \in [Tabs -> Users] /\ Owner \in Users
ASSUME BoundsAssumption ==
  MaxLog \in Nat /\ MaxConns \in Nat /\ MaxCrashes \in Nat /\ MaxRestarts \in Nat

VARIABLES
  members,      \* hub store: people with a membership row in the host's team
  asking,       \* clients: requests [tab, cmd] that wait for an answer
  log,          \* hub: commandLog, entries [cmd, state, outcome]
  pending,      \* hub: pendingCommands, entries [cmd, conn, waiters]
  registered,   \* hub: runtimes.get(runtimeId), a connection or 0
  hubConns,     \* hub: host connections whose close event has not run
  up, down,     \* per connection: messages to the hub, to the host
  opened,       \* how many connections the host has opened
  hostConn,     \* host: the HubClient's open socket, or 0
  welcomed,     \* host: the socket HubClient.welcome came over, or 0
  queue,        \* host: HubClient.queue
  table,        \* host: the durable commands table, [cmd, state, outcome]
  active,       \* host: activeCommands with the outcome dispatch reached
  ran,          \* history: how often dispatch acted on each command
  told,         \* history: final answers [tab, cmd, outcome] people were given
  crashes, restarts

hubVars  == <<members, log, pending, registered>>
linkVars == <<hubConns, up, down, opened>>
hostVars == <<hostConn, welcomed, queue, table, active, ran, crashes>>
vars == <<hubVars, linkVars, hostVars, asking, told, restarts>>

Conns == 1 .. MaxConns

(* What dispatch reports; what a host answers; what anybody may be told.   *)
(* "running", "conflict" and "uncertain" are the host's refusals           *)
(* COMMAND_IN_PROGRESS, COMMAND_ID_CONFLICT and COMMAND_OUTCOME_UNKNOWN;   *)
(* "taken", "offline" and "lost" are said by the hub: COMMAND_IN_PROGRESS, *)
(* "runtime offline", and "execution outcome may be unknown".              *)
(* A success, a failure and "uncertain" are meant to be final.             *)
Results == {"ok", "failed"}
Final == Results \cup {"uncertain"}
HostAnswers == Results \cup {"running", "conflict", "uncertain"}
Answers == HostAnswers \cup {"taken", "offline", "lost"}

(* Messages to the hub and to the host.                                    *)
Hello == [type |-> "hello"]
Welcome == [type |-> "welcome"]
CommandMsg(c) == [type |-> "command", cmd |-> c]
Result(i, o) == [type |-> "result", id |-> i, outcome |-> o]
ResultMsgs == [type : {"result"}, id : Ids, outcome : HostAnswers]
UpMsgs == {Hello} \cup ResultMsgs
DownMsgs == {Welcome} \cup [type : {"command"}, cmd : Commands]

SameKey(c, d) == c.user = d.user /\ c.id = d.id

Init ==
  /\ members = Users
  /\ asking = {} /\ log = {} /\ pending = {} /\ registered = 0
  /\ hubConns = {} /\ opened = 0
  /\ up = [n \in Conns |-> <<>>] /\ down = [n \in Conns |-> <<>>]
  /\ hostConn = 0 /\ welcomed = 0 /\ queue = <<>>
  /\ table = {} /\ active = {} /\ ran = [c \in Commands |-> 0]
  /\ told = {} /\ crashes = 0 /\ restarts = 0

-----------------------------------------------------------------------------
(* The hub: settling and remembering.                                      *)

(* A client keeps its requests by command id and drops an answer it no     *)
(* longer waits for.                                                       *)
AnsweredBy(ps) ==
  {a \in asking : \E p \in ps : a.tab \in p.waiters /\ a.cmd.id = p.cmd.id}

(* What the history keeps of an answer to these requests.                  *)
Recorded(requests, outcome) ==
  IF outcome \in Final
  THEN {[tab |-> a.tab, cmd |-> a.cmd, outcome |-> outcome] : a \in requests}
  ELSE {}

(* Mutant: an entry is settled and its outcome is not kept.                *)
SettleForgetting(ps, outcome) ==
  /\ pending' = pending \ ps
  /\ log' = {IF \E p \in ps : p.cmd = e.cmd THEN [e EXCEPT !.state = "done"] ELSE e : e \in log}
  /\ told' = told \cup Recorded(AnsweredBy(ps), outcome)
  /\ asking' = asking \ AnsweredBy(ps)

(* settleCommand: the entries stop being pending, the log keeps the        *)
(* outcome for retries, every waiter is told.                              *)
Settle(ps, outcome) ==
  /\ pending' = pending \ ps
  /\ log' = {IF \E p \in ps : p.cmd = e.cmd
             THEN [e EXCEPT !.state = "done", !.outcome = outcome] ELSE e : e \in log}
  /\ told' = told \cup Recorded(AnsweredBy(ps), outcome)
  /\ asking' = asking \ AnsweredBy(ps)

(* Mutant: pruning also takes entries in flight.                           *)
PrunedOfAny(l) ==
  IF Cardinality(l) <= MaxLog THEN {l} ELSE {k \in SUBSET l : Cardinality(k) = MaxLog}

(* pruneCommandLog: settled entries go until the log fits, entries still   *)
(* in flight never do.  The code evicts the oldest first; here any may go. *)
Pruned(l) ==
  IF Cardinality(l) <= MaxLog THEN {l}
  ELSE {k \in SUBSET l :
          /\ \A e \in l \ k : e.state = "done"
          /\ \/ Cardinality(k) = MaxLog
             \/ Cardinality(k) > MaxLog /\ \A e \in k : e.state = "pending"}

NewEntry(c) == [cmd |-> c, state |-> "pending", outcome |-> "none"]

-----------------------------------------------------------------------------
(* The hub: onCommand, one action per way it ends.  The answer of a        *)
(* request refused or answered at once is recorded in the same step.       *)

Prior(c) == {e \in log : SameKey(e.cmd, c)}

(* A client connection sends one command at a time (a bound of the model), *)
(* and only a member of the host's team gets past the membership check.    *)
MaySend(t, c) ==
  /\ UserOf[t] = c.user
  /\ c.user \in members
  /\ \A a \in asking : a.tab # t

TellNow(t, c, outcome) ==
  /\ told' = told \cup Recorded({[tab |-> t, cmd |-> c]}, outcome)
  /\ UNCHANGED asking

(* The id was used before by the same person: with other input it is a     *)
(* conflict, settled it is answered from the log, otherwise it joins.      *)
AskConflicting(t, c) ==
  /\ MaySend(t, c)
  /\ \E e \in Prior(c) : e.cmd # c
  /\ TellNow(t, c, "conflict")
  /\ UNCHANGED <<hubVars, linkVars, hostVars, restarts>>

AskSettled(t, c) ==
  /\ MaySend(t, c)
  /\ \E e \in Prior(c) : e.cmd = c /\ e.state = "done" /\ TellNow(t, c, e.outcome)
  /\ UNCHANGED <<hubVars, linkVars, hostVars, restarts>>

(* Mutant: a retry is taken for the request it repeats and does not join.  *)
AskAgainUnheard(t, c) ==
  /\ MaySend(t, c)
  /\ \E e \in Prior(c) : e.cmd = c /\ e.state = "pending"
  /\ asking' = asking \cup {[tab |-> t, cmd |-> c]}
  /\ UNCHANGED <<hubVars, told, linkVars, hostVars, restarts>>

AskAgain(t, c) ==
  /\ MaySend(t, c)
  /\ \E e \in Prior(c) : e.cmd = c /\ e.state = "pending"
  /\ pending' = {IF p.cmd = c THEN [p EXCEPT !.waiters = @ \cup {t}] ELSE p : p \in pending}
  /\ asking' = asking \cup {[tab |-> t, cmd |-> c]}
  /\ UNCHANGED <<members, log, registered, told, linkVars, hostVars, restarts>>

(* Somebody else's command of the same id is in flight.                    *)
AskTaken(t, c) ==
  /\ MaySend(t, c)
  /\ Prior(c) = {}
  /\ \E p \in pending : p.cmd.id = c.id
  /\ TellNow(t, c, "taken")
  /\ UNCHANGED <<hubVars, linkVars, hostVars, restarts>>

IsNew(t, c) ==
  /\ MaySend(t, c)
  /\ Prior(c) = {}
  /\ \A p \in pending : p.cmd.id # c.id

AskRouted(t, c) ==
  /\ IsNew(t, c)
  /\ registered # 0
  /\ log' \in Pruned(log \cup {NewEntry(c)})
  /\ pending' = pending \cup {[cmd |-> c, conn |-> registered, waiters |-> {t}]}
  /\ down' = [down EXCEPT ![registered] = Append(@, CommandMsg(c))]
  /\ asking' = asking \cup {[tab |-> t, cmd |-> c]}
  /\ UNCHANGED <<members, registered, told, hubConns, up, opened, hostVars, restarts>>

(* No host, or a socket that has left the open state while its close event *)
(* has yet to run.  The entry is dropped again, after it made room.        *)
AskOffline(t, c) ==
  /\ IsNew(t, c)
  /\ registered = 0 \/ hostConn # registered
  /\ \E l \in Pruned(log \cup {NewEntry(c)}) : log' = l \ {NewEntry(c)}
  /\ TellNow(t, c, "offline")
  /\ UNCHANGED <<members, pending, registered, linkVars, hostVars, restarts>>

-----------------------------------------------------------------------------
(* The hub: clients that go away, members that are removed.                *)

WithoutWaiters(ts) == {[p EXCEPT !.waiters = @ \ ts] : p \in pending}

(* A client socket closes: onClose takes it out of every waiter set.       *)
TabCloses(t) ==
  /\ \E a \in asking : a.tab = t
  /\ pending' = WithoutWaiters({t})
  /\ asking' = {a \in asking : a.tab # t}
  /\ UNCHANGED <<members, log, registered, told, linkVars, hostVars, restarts>>

(* The web client gives up after 30 seconds; the hub does not know.        *)
TabTimesOut(t) ==
  /\ \E a \in asking : a.tab = t
  /\ asking' = {a \in asking : a.tab # t}
  /\ UNCHANGED <<told, hubVars, linkVars, hostVars, restarts>>

(* Mutant: removal takes the membership only.                              *)
RemoveMemberOnly(u) ==
  /\ u \in members \ {Owner}
  /\ members' = members \ {u}
  /\ UNCHANGED <<pending, asking, log, registered, told, linkVars, hostVars, restarts>>

(* The owner removes somebody; their connections stop being waiters.       *)
RemoveMember(u) ==
  /\ u \in members \ {Owner}
  /\ members' = members \ {u}
  /\ pending' = WithoutWaiters({t \in Tabs : UserOf[t] = u})
  /\ UNCHANGED <<asking, log, registered, told, linkVars, hostVars, restarts>>

-----------------------------------------------------------------------------
(* The link.                                                               *)

Greeted(n) == \A i \in DOMAIN up[n] : up[n][i] # Hello

(* A connection another hello of the same host has taken the place of; the *)
(* hub has called close() on it.                                           *)
Replaced(n) == n \in hubConns /\ n # registered /\ Greeted(n)

HostConnects ==
  /\ hostConn = 0 /\ opened < MaxConns
  /\ opened' = opened + 1
  /\ hostConn' = opened + 1
  /\ hubConns' = hubConns \cup {opened + 1}
  /\ up' = [up EXCEPT ![opened + 1] = <<Hello>>]
  /\ UNCHANGED <<down, welcomed, queue, table, active, ran, crashes,
                 hubVars, asking, told, restarts>>

HostDrops ==
  /\ hostConn' = 0 /\ welcomed' = 0
  /\ down' = [down EXCEPT ![hostConn] = <<>>]
  /\ UNCHANGED <<queue, table, active, ran, crashes, hubVars, hubConns, up, opened,
                 asking, told, restarts>>

(* The network fails, or the hub closed its side.                          *)
HostLosesLink == hostConn # 0 /\ HostDrops
HostSeesClose == hostConn # 0 /\ (hostConn \notin hubConns \/ Replaced(hostConn)) /\ HostDrops

(* onHello of the paired host: it becomes the registered connection.       *)
HubHello(n) ==
  /\ n \in hubConns /\ ~Greeted(n)
  /\ registered' = n
  /\ up' = [up EXCEPT ![n] = Tail(@)]
  /\ down' = [down EXCEPT ![n] = Append(@, Welcome)]
  /\ UNCHANGED <<members, log, pending, hubConns, opened, hostVars, asking, told, restarts>>

(* Mutant: the close of a host connection settles nothing.                 *)
HubClosesSilently(n) ==
  /\ n \in hubConns /\ (hostConn # n \/ Replaced(n))
  /\ registered' = IF registered = n THEN 0 ELSE registered
  /\ hubConns' = hubConns \ {n}
  /\ up' = [up EXCEPT ![n] = <<>>]
  /\ down' = [down EXCEPT ![n] = IF hostConn = n THEN @ ELSE <<>>]
  /\ UNCHANGED <<members, log, pending, asking, told, opened, hostVars, restarts>>

(* onClose of a host connection: what was routed over it is settled as     *)
(* possibly executed.  What it had not read is lost; a host whose side of  *)
(* the socket is still open reads on to the close.                         *)
HubCloses(n) ==
  /\ n \in hubConns /\ (hostConn # n \/ Replaced(n))
  /\ Settle({p \in pending : p.conn = n}, "lost")
  /\ registered' = IF registered = n THEN 0 ELSE registered
  /\ hubConns' = hubConns \ {n}
  /\ up' = [up EXCEPT ![n] = <<>>]
  /\ down' = [down EXCEPT ![n] = IF hostConn = n THEN @ ELSE <<>>]
  /\ UNCHANGED <<members, opened, hostVars, restarts>>

(* command.result.  It is believed from the registered connection only,    *)
(* and only for a command that was routed over that connection; anything   *)
(* else is refused or has nobody waiting.                                  *)
HubResult(n) ==
  /\ n \in hubConns /\ Greeted(n) /\ up[n] # <<>>
  /\ LET m == Head(up[n])
         ps == {p \in pending : p.cmd.id = m.id}
     IN  IF registered = n /\ \A p \in ps : p.conn = n
         THEN Settle(ps, m.outcome)
         ELSE UNCHANGED <<pending, log, told, asking>>
  /\ up' = [up EXCEPT ![n] = Tail(@)]
  /\ UNCHANGED <<members, registered, hubConns, down, opened, hostVars, restarts>>

(* The hub process stops and starts: both maps and every socket are gone.  *)
HubRestarts ==
  /\ restarts < MaxRestarts /\ restarts' = restarts + 1
  /\ log' = {} /\ pending' = {} /\ registered' = 0 /\ asking' = {}
  /\ hubConns' = {}
  /\ up' = [n \in Conns |-> <<>>]
  /\ down' = [n \in Conns |-> IF hostConn = n THEN down[n] ELSE <<>>]
  /\ UNCHANGED <<members, opened, hostVars, told>>

-----------------------------------------------------------------------------
(* The host.                                                               *)

(* HubClient.send: on the socket once welcomed, otherwise buffered.        *)
Reply(m) ==
  IF hostConn # 0 /\ welcomed = hostConn
  THEN /\ up' = IF hostConn \in hubConns THEN [up EXCEPT ![hostConn] = Append(@, m)] ELSE up
       /\ UNCHANGED queue
  ELSE queue' = Append(queue, m) /\ UNCHANGED up

Incoming == IF hostConn = 0 THEN <<>> ELSE down[hostConn]

Consume == down' = [down EXCEPT ![hostConn] = Tail(@)]

(* A welcome flushes the buffer.                                           *)
HostWelcome ==
  /\ Incoming # <<>> /\ Head(Incoming) = Welcome
  /\ Consume
  /\ welcomed' = hostConn /\ queue' = <<>>
  /\ up' = IF hostConn \in hubConns THEN [up EXCEPT ![hostConn] = @ \o queue] ELSE up
  /\ UNCHANGED <<hubConns, opened, hostConn, table, active, ran, crashes,
                 hubVars, asking, told, restarts>>

Running(i) == \E a \in active : a.cmd.id = i

(* Mutant: whatever is not completed is taken for lost.                    *)
HostAnswerHasty(e, c) ==
  IF e.cmd # c THEN "conflict"
  ELSE IF e.state = "completed" THEN e.outcome ELSE "uncertain"

(* onCommand for an id the table already holds: refuse other input, replay *)
(* a stored reply, and say of an unfinished one either that it is running  *)
(* or, when it did not survive a restart, that its outcome is unknown.     *)
HostAnswer(e, c) ==
  IF e.cmd # c THEN "conflict"
  ELSE IF e.state = "completed" THEN e.outcome
  ELSE IF Running(c.id) THEN "running" ELSE "uncertain"

HostRecognises ==
  /\ Incoming # <<>> /\ Head(Incoming) # Welcome
  /\ LET c == Head(Incoming).cmd
     IN  \E e \in table : e.cmd.id = c.id /\ Reply(Result(c.id, HostAnswer(e, c)))
  /\ Consume
  /\ UNCHANGED <<hubConns, opened, hostConn, welcomed, table, active, ran, crashes,
                 hubVars, asking, told, restarts>>

(* onCommand for a new id: the claim is durable before anything is done.   *)
HostClaims ==
  /\ Incoming # <<>> /\ Head(Incoming) # Welcome
  /\ LET c == Head(Incoming).cmd
     IN  /\ \A e \in table : e.cmd.id # c.id
         /\ table' = table \cup {[cmd |-> c, state |-> "pending", outcome |-> "none"]}
         /\ active' = active \cup {[cmd |-> c, outcome |-> "none"]}
  /\ Consume
  /\ UNCHANGED <<hubConns, up, opened, hostConn, welcomed, queue, ran, crashes,
                 hubVars, asking, told, restarts>>

(* dispatch acts.  It is awaited, so other messages come in between.       *)
HostRuns(a, outcome) ==
  /\ a \in active /\ a.outcome = "none"
  /\ active' = (active \ {a}) \cup {[a EXCEPT !.outcome = outcome]}
  /\ ran' = [ran EXCEPT ![a.cmd] = @ + 1]
  /\ UNCHANGED <<hostConn, welcomed, queue, table, crashes, hubVars, linkVars,
                 asking, told, restarts>>

(* The reply is stored, then sent.                                         *)
HostFinishes(a) ==
  /\ a \in active /\ a.outcome # "none"
  /\ table' = {IF e.cmd = a.cmd THEN [e EXCEPT !.state = "completed", !.outcome = a.outcome]
               ELSE e : e \in table}
  /\ active' = active \ {a}
  /\ Reply(Result(a.cmd.id, a.outcome))
  /\ UNCHANGED <<hubConns, down, opened, hostConn, welcomed, ran, crashes,
                 hubVars, asking, told, restarts>>

(* Mutant: only completed commands are on disk.                            *)
HostCrashesForgetting ==
  /\ crashes < MaxCrashes /\ crashes' = crashes + 1
  /\ hostConn' = 0 /\ welcomed' = 0 /\ queue' = <<>> /\ active' = {}
  /\ table' = {e \in table : e.state = "completed"}
  /\ UNCHANGED <<ran, hubVars, linkVars, asking, told, restarts>>

(* The host process stops and starts.  Only the table is on disk.          *)
HostCrashes ==
  /\ crashes < MaxCrashes /\ crashes' = crashes + 1
  /\ hostConn' = 0 /\ welcomed' = 0 /\ queue' = <<>> /\ active' = {}
  /\ UNCHANGED <<table, ran, hubVars, linkVars, asking, told, restarts>>

-----------------------------------------------------------------------------
HubSteps == \E n \in Conns : HubHello(n) \/ HubResult(n) \/ HubCloses(n)

HostSteps ==
  \/ HostSeesClose \/ HostWelcome \/ HostRecognises \/ HostClaims
  \/ \E a \in active : HostFinishes(a) \/ \E o \in Results : HostRuns(a, o)

Environment ==
  \/ \E t \in Tabs, c \in Commands :
       \/ AskConflicting(t, c) \/ AskSettled(t, c) \/ AskAgain(t, c)
       \/ AskTaken(t, c) \/ AskRouted(t, c) \/ AskOffline(t, c)
  \/ \E t \in Tabs : TabCloses(t) \/ TabTimesOut(t)
  \/ \E u \in Users : RemoveMember(u)
  \/ HostConnects \/ HostLosesLink \/ HostCrashes \/ HubRestarts

Next == HubSteps \/ HostSteps \/ Environment

(* Both processes handle what has arrived and see a broken socket in the   *)
(* end, and dispatch returns.  Nothing makes the host reconnect, a client  *)
(* ask, or a process stop.                                                 *)
Fairness ==
  /\ \A n \in Conns : WF_vars(HubHello(n)) /\ WF_vars(HubResult(n)) /\ WF_vars(HubCloses(n))
  /\ WF_vars(HostSeesClose) /\ WF_vars(HostWelcome)
  /\ WF_vars(HostRecognises) /\ WF_vars(HostClaims)
  /\ \A c \in Commands :
       /\ WF_vars(\E a \in active : a.cmd = c /\ \E o \in Results : HostRuns(a, o))
       /\ WF_vars(\E a \in active : a.cmd = c /\ HostFinishes(a))

Spec == Init /\ [][Next]_vars
FairSpec == Spec /\ Fairness
-----------------------------------------------------------------------------
(* Properties.                                                             *)

(* Every variable has its shape.                                           *)
HubTypeOK ==
  /\ members \subseteq Users
  /\ log \subseteq [cmd : Commands, state : {"pending"}, outcome : {"none"}]
              \cup [cmd : Commands, state : {"done"}, outcome : Answers]
  /\ pending \subseteq [cmd : Commands, conn : Conns, waiters : SUBSET Tabs]
  /\ registered \in {0} \cup Conns

ClientTypeOK ==
  /\ asking \subseteq [tab : Tabs, cmd : Commands]
  /\ told \subseteq [tab : Tabs, cmd : Commands, outcome : Final]
  /\ restarts \in 0 .. MaxRestarts

LinkTypeOK ==
  /\ hubConns \subseteq Conns /\ opened \in 0 .. MaxConns
  /\ up \in [Conns -> Seq(UpMsgs)]
  /\ down \in [Conns -> Seq(DownMsgs)]

HostTypeOK ==
  /\ hostConn \in {0} \cup Conns /\ welcomed \in {0} \cup Conns
  /\ queue \in Seq(ResultMsgs)
  /\ table \subseteq [cmd : Commands, state : {"pending"}, outcome : {"none"}]
                \cup [cmd : Commands, state : {"completed"}, outcome : Results]
  /\ active \subseteq [cmd : Commands, outcome : Results \cup {"none"}]
  /\ ran \in [Commands -> Nat] /\ crashes \in 0 .. MaxCrashes

TypeOK == HubTypeOK /\ ClientTypeOK /\ LinkTypeOK /\ HostTypeOK

(* A command id acts on the host at most once in the life of the host's    *)
(* data directory, whatever is retried, lost or restarted, and by whoever  *)
(* it is used: the claim in the durable table is taken before dispatch.    *)
AtMostOnce ==
  \A c, d \in Commands :
    /\ ran[c] <= 1
    /\ c.id = d.id /\ ran[c] > 0 /\ ran[d] > 0 => c = d

(* Nobody waits on nothing: a member whose request is outstanding is a     *)
(* waiter of a pending entry for exactly that command, and the entry was   *)
(* routed over a connection whose close event, which would settle it, is   *)
(* still to come.                                                          *)
NobodyForgotten ==
  \A a \in asking : UserOf[a.tab] \in members =>
    \E p \in pending : p.cmd = a.cmd /\ a.tab \in p.waiters /\ p.conn \in hubConns

(* An id that is reused for something else is a conflict and is never      *)
(* answered with how another command ended, whichever layer answers.       *)
ReuseIsConflict ==
  \A a \in told : \A e \in table : e.cmd.id = a.cmd.id => e.cmd = a.cmd

(* The two maps of the hub agree: a command in flight is in the log, so a  *)
(* retry joins it rather than being sent again or turned away as taken;    *)
(* and an entry the log calls pending is in flight, so that somebody who   *)
(* joins it is settled with it.  One entry per person and id, one in       *)
(* flight per id.                                                          *)
LogMatchesPending ==
  /\ {e.cmd : e \in {x \in log : x.state = "pending"}} = {p.cmd : p \in pending}
  /\ \A e, f \in log : SameKey(e.cmd, f.cmd) => e = f
  /\ \A p, q \in pending : p.cmd.id = q.cmd.id => p = q

(* Nobody who was removed from the team is told how a command ended, not   *)
(* even one that was in flight when they were removed.                     *)
WaitersAreMembers ==
  \A p \in pending : \A t \in p.waiters : UserOf[t] \in members

(* Whoever waits is answered: by the host, by the close of the connection, *)
(* or because they leave, or are removed.                                  *)
EverybodyAnswered ==
  \A t \in Tabs, c \in Commands :
    ([tab |-> t, cmd |-> c] \in asking) ~>
      (([tab |-> t, cmd |-> c] \notin asking) \/ UserOf[t] \notin members)

(* The hub and the host together keep the contract of module               *)
(* CommandContract, as long as ids are not reused.                         *)
Phase(c) ==
  IF \E e \in table : e.cmd = c
  THEN LET e == CHOOSE x \in table : x.cmd = c
       IN  CASE e.state = "completed" -> e.outcome
             [] e.state = "pending" /\ [cmd |-> c, outcome |-> "none"] \in active -> "claimed"
             [] e.state = "pending" /\ (\E a \in active : a.cmd = c /\ a.outcome # "none") -> "acted"
             [] OTHER -> "uncertain"
  ELSE "new"

Contract == INSTANCE CommandContract WITH phase <- [c \in Commands |-> Phase(c)]
KeepsContract == Contract!Spec
=============================================================================
