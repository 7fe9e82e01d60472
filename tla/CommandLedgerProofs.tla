------------------------ MODULE CommandLedgerProofs ------------------------
(***************************************************************************)
(* Proofs about CommandLedger for every set of people, ids, commands and   *)
(* connections, and every value of the bounds.                             *)
(***************************************************************************)
EXTENDS CommandLedger, TLAPS

USE CommandsAssumption, UserOfAssumption, BoundsAssumption

-----------------------------------------------------------------------------
(* Types, one part of the state at a time.                                 *)

LogEntries == [cmd : Commands, state : {"pending"}, outcome : {"none"}]
                \cup [cmd : Commands, state : {"done"}, outcome : Answers]

(* What the history keeps are final answers.                               *)
LEMMA RecordedType ==
  ASSUME NEW requests \in SUBSET [tab : Tabs, cmd : Commands], NEW o
  PROVE  Recorded(requests, o) \subseteq [tab : Tabs, cmd : Commands, outcome : Final]
  BY DEF Recorded

(* settleCommand keeps the shape of what it touches.                       *)
LEMMA SettleType ==
  ASSUME TypeOK, NEW ps, NEW o \in Answers, Settle(ps, o)
  PROVE  /\ pending' \subseteq [cmd : Commands, conn : Conns, waiters : SUBSET Tabs]
         /\ log' \subseteq LogEntries
         /\ told' \subseteq [tab : Tabs, cmd : Commands, outcome : Final]
         /\ asking' \subseteq [tab : Tabs, cmd : Commands]
<1>1. pending' \subseteq [cmd : Commands, conn : Conns, waiters : SUBSET Tabs]
  BY DEF Settle, TypeOK, HubTypeOK, LogEntries
<1>2. log' \subseteq LogEntries
  BY DEF Settle, TypeOK, HubTypeOK, LogEntries
<1>3. asking' \subseteq [tab : Tabs, cmd : Commands]
  BY DEF Settle, TypeOK, ClientTypeOK
<1>4. AnsweredBy(ps) \subseteq [tab : Tabs, cmd : Commands]
  BY DEF AnsweredBy, TypeOK, ClientTypeOK
<1>5. told' \subseteq [tab : Tabs, cmd : Commands, outcome : Final]
  BY <1>4, RecordedType DEF Settle, TypeOK, ClientTypeOK
<1> QED BY <1>1, <1>2, <1>3, <1>5

(* What the hub reads off a greeted connection is an answer of the host.   *)
LEMMA HeadIsAnAnswer ==
  ASSUME TypeOK, NEW n \in Conns, Greeted(n), up[n] # <<>>
  PROVE  Head(up[n]).outcome \in Answers
<1>1. Head(up[n]) = up[n][1] /\ 1 \in DOMAIN up[n] /\ Head(up[n]) \in UpMsgs
  BY DEF TypeOK, LinkTypeOK
<1>2. Head(up[n]) \in ResultMsgs
  BY <1>1 DEF Greeted, UpMsgs
<1> QED BY <1>2 DEF ResultMsgs, Answers

(* No step of anybody upsets the shape of the hub's own state: members,    *)
(* commandLog, pendingCommands and the registered connection.              *)
LEMMA HubTypeStep == TypeOK /\ [Next]_vars => HubTypeOK'
<1> SUFFICES ASSUME TypeOK, [Next]_vars PROVE HubTypeOK'
  OBVIOUS
<1>1. ASSUME NEW n \in Conns, HubHello(n) PROVE HubTypeOK'
  BY <1>1 DEF HubHello, TypeOK, HubTypeOK, LogEntries
<1>2. ASSUME NEW n \in Conns, HubResult(n) PROVE HubTypeOK'
  <2>1. Head(up[n]).outcome \in Answers
    BY <1>2, HeadIsAnAnswer DEF HubResult
  <2> QED BY <1>2, <2>1, SettleType DEF HubResult, TypeOK, HubTypeOK, LogEntries
<1>3. ASSUME NEW n \in Conns, HubCloses(n) PROVE HubTypeOK'
  <2>1. "lost" \in Answers
    BY DEF Answers
  <2> QED BY <1>3, <2>1, SettleType DEF HubCloses, TypeOK, HubTypeOK, LogEntries
<1>4. CASE HostSteps
  <2>1. UNCHANGED hubVars
    BY <1>4 DEF HostSteps, HostSeesClose, HostDrops, HostWelcome, HostRecognises, HostClaims,
                HostFinishes, HostRuns
  <2> QED BY <2>1 DEF TypeOK, HubTypeOK, hubVars
<1>5. ASSUME NEW t \in Tabs, NEW c \in Commands, AskAgain(t, c) PROVE HubTypeOK'
  BY <1>5 DEF AskAgain, TypeOK, HubTypeOK, LogEntries
<1>6. ASSUME NEW t \in Tabs, NEW c \in Commands, AskRouted(t, c) PROVE HubTypeOK'
  <2>1. log' \subseteq LogEntries
    BY <1>6 DEF AskRouted, Pruned, NewEntry, TypeOK, HubTypeOK, LogEntries
  <2> QED BY <1>6, <2>1 DEF AskRouted, TypeOK, HubTypeOK, LogEntries
<1>7. ASSUME NEW t \in Tabs, NEW c \in Commands, AskOffline(t, c) PROVE HubTypeOK'
  BY <1>7 DEF AskOffline, Pruned, NewEntry, TypeOK, HubTypeOK, LogEntries
<1>8. ASSUME NEW t \in Tabs, NEW c \in Commands,
             AskConflicting(t, c) \/ AskSettled(t, c) \/ AskTaken(t, c)
      PROVE  HubTypeOK'
  BY <1>8 DEF AskConflicting, AskSettled, AskTaken, TypeOK, HubTypeOK, hubVars
<1>9. ASSUME NEW t \in Tabs, TabCloses(t) \/ TabTimesOut(t) PROVE HubTypeOK'
  BY <1>9 DEF TabCloses, TabTimesOut, WithoutWaiters, TypeOK, HubTypeOK, hubVars
<1>10. ASSUME NEW u \in Users, RemoveMember(u) PROVE HubTypeOK'
  BY <1>10 DEF RemoveMember, WithoutWaiters, TypeOK, HubTypeOK, LogEntries
<1>11. CASE HostConnects \/ HostLosesLink \/ HostCrashes \/ HubRestarts
  BY <1>11 DEF HostConnects, HostLosesLink, HostDrops, HostCrashes, HubRestarts,
               TypeOK, HubTypeOK, hubVars
<1>12. CASE UNCHANGED vars
  BY <1>12 DEF vars, TypeOK, HubTypeOK, hubVars
<1> QED
  BY <1>1, <1>2, <1>3, <1>4, <1>5, <1>6, <1>7, <1>8, <1>9, <1>10, <1>11, <1>12
     DEF Next, HubSteps, Environment

(* No step upsets the shape of what clients wait for and were told.        *)
LEMMA ClientTypeStep == TypeOK /\ [Next]_vars => ClientTypeOK'
<1> SUFFICES ASSUME TypeOK, [Next]_vars PROVE ClientTypeOK'
  OBVIOUS
<1>1. ASSUME NEW n \in Conns, HubHello(n) PROVE ClientTypeOK'
  BY <1>1 DEF HubHello, TypeOK, ClientTypeOK
<1>2. ASSUME NEW n \in Conns, HubResult(n) PROVE ClientTypeOK'
  <2>1. Head(up[n]).outcome \in Answers
    BY <1>2, HeadIsAnAnswer DEF HubResult
  <2> QED BY <1>2, <2>1, SettleType DEF HubResult, TypeOK, ClientTypeOK
<1>3. ASSUME NEW n \in Conns, HubCloses(n) PROVE ClientTypeOK'
  <2>1. "lost" \in Answers
    BY DEF Answers
  <2> QED BY <1>3, <2>1, SettleType DEF HubCloses, TypeOK, ClientTypeOK
<1>4. CASE HostSteps
  <2>1. UNCHANGED <<asking, told, restarts>>
    BY <1>4 DEF HostSteps, HostSeesClose, HostDrops, HostWelcome, HostRecognises, HostClaims,
                HostFinishes, HostRuns
  <2> QED BY <2>1 DEF TypeOK, ClientTypeOK
<1>5. ASSUME NEW t \in Tabs, NEW c \in Commands, AskSettled(t, c) PROVE ClientTypeOK'
  BY <1>5, RecordedType DEF AskSettled, TellNow, TypeOK, ClientTypeOK
<1>6. ASSUME NEW t \in Tabs, NEW c \in Commands, AskAgain(t, c) \/ AskRouted(t, c)
      PROVE  ClientTypeOK'
  BY <1>6 DEF AskAgain, AskRouted, TypeOK, ClientTypeOK
<1>7. ASSUME NEW t \in Tabs, NEW c \in Commands,
             AskConflicting(t, c) \/ AskTaken(t, c) \/ AskOffline(t, c)
      PROVE  ClientTypeOK'
  BY <1>7, RecordedType DEF AskConflicting, AskTaken, AskOffline, TellNow, TypeOK, ClientTypeOK
<1>8. ASSUME NEW t \in Tabs, TabCloses(t) \/ TabTimesOut(t) PROVE ClientTypeOK'
  BY <1>8 DEF TabCloses, TabTimesOut, TypeOK, ClientTypeOK
<1>9. ASSUME NEW u \in Users, RemoveMember(u) PROVE ClientTypeOK'
  BY <1>9 DEF RemoveMember, TypeOK, ClientTypeOK
<1>10. CASE HostConnects \/ HostLosesLink \/ HostCrashes \/ HubRestarts
  BY <1>10 DEF HostConnects, HostLosesLink, HostDrops, HostCrashes, HubRestarts,
               TypeOK, ClientTypeOK
<1>11. CASE UNCHANGED vars
  BY <1>11 DEF vars, TypeOK, ClientTypeOK
<1> QED
  BY <1>1, <1>2, <1>3, <1>4, <1>5, <1>6, <1>7, <1>8, <1>9, <1>10, <1>11
     DEF Next, HubSteps, Environment

(* A reply lands on the wire or in the buffer.                             *)
LEMMA ReplyType ==
  ASSUME TypeOK, NEW m \in ResultMsgs, Reply(m)
  PROVE  up' \in [Conns -> Seq(UpMsgs)] /\ queue' \in Seq(ResultMsgs)
<1>1. m \in UpMsgs
  BY DEF UpMsgs
<1>2. CASE hostConn # 0 /\ welcomed = hostConn
  <2>1. UNCHANGED queue
    BY <1>2 DEF Reply
  <2>2. up' = IF hostConn \in hubConns THEN [up EXCEPT ![hostConn] = Append(@, m)] ELSE up
    BY <1>2 DEF Reply
  <2>3. hostConn \in Conns
    BY <1>2 DEF TypeOK, HostTypeOK
  <2>4. Append(up[hostConn], m) \in Seq(UpMsgs)
    BY <1>1, <2>3 DEF TypeOK, LinkTypeOK
  <2> QED BY <2>1, <2>2, <2>4 DEF TypeOK, HostTypeOK, LinkTypeOK
<1>3. CASE ~(hostConn # 0 /\ welcomed = hostConn)
  <2>1. queue' = Append(queue, m) /\ UNCHANGED up
    BY <1>3 DEF Reply
  <2> QED BY <2>1 DEF TypeOK, HostTypeOK, LinkTypeOK
<1> QED BY <1>2, <1>3

(* What the host reads off the wire after the welcome is a command.        *)
LEMMA IncomingIsACommand ==
  ASSUME TypeOK, Incoming # <<>>, Head(Incoming) # Welcome
  PROVE  Head(Incoming).cmd \in Commands
  BY DEF Incoming, TypeOK, HostTypeOK, LinkTypeOK, DownMsgs

(* Reading a message leaves messages of the right kind on the wire.        *)
LEMMA ConsumeType ==
  ASSUME TypeOK, Incoming # <<>>, Consume
  PROVE  down' \in [Conns -> Seq(DownMsgs)]
  BY DEF Consume, Incoming, TypeOK, HostTypeOK, LinkTypeOK

(* onCommand for an id the table holds answers with a well-formed result,  *)
(* on the wire or in the buffer.                                           *)
LEMMA RecognisesType ==
  ASSUME TypeOK, HostRecognises
  PROVE  /\ up' \in [Conns -> Seq(UpMsgs)]
         /\ queue' \in Seq(ResultMsgs)
         /\ down' \in [Conns -> Seq(DownMsgs)]
<1> DEFINE c == Head(Incoming).cmd
<1>1. c \in Commands /\ c.id \in Ids
  BY IncomingIsACommand DEF HostRecognises
<1>2. PICK e \in table : Reply(Result(c.id, HostAnswer(e, c)))
  BY DEF HostRecognises
<1>3. HostAnswer(e, c) \in HostAnswers
  BY DEF HostAnswer, HostAnswers, TypeOK, HostTypeOK
<1>4. Result(c.id, HostAnswer(e, c)) \in ResultMsgs
  BY <1>1, <1>3 DEF Result, ResultMsgs
<1> QED BY <1>2, <1>4, ReplyType, ConsumeType DEF HostRecognises

(* Appending to what is on the wire, or flushing the buffer onto it.       *)
LEMMA WelcomeType ==
  ASSUME TypeOK, HostWelcome
  PROVE  up' \in [Conns -> Seq(UpMsgs)]
<1>1. queue \in Seq(UpMsgs)
  <2>1. \A i \in 1 .. Len(queue) : queue[i] \in UpMsgs
    BY DEF TypeOK, HostTypeOK, UpMsgs
  <2> QED BY <2>1 DEF TypeOK, HostTypeOK
<1>2. ASSUME NEW n \in Conns PROVE up[n] \o queue \in Seq(UpMsgs)
  BY <1>1, <1>2 DEF TypeOK, LinkTypeOK
<1> QED BY <1>2 DEF HostWelcome, TypeOK, LinkTypeOK, HostTypeOK

(* No step upsets the shape of the connections and what is on them.        *)
LEMMA LinkTypeStep == TypeOK /\ [Next]_vars => LinkTypeOK'
<1> SUFFICES ASSUME TypeOK, [Next]_vars PROVE LinkTypeOK'
  OBVIOUS
<1>1. ASSUME NEW n \in Conns, HubHello(n) PROVE LinkTypeOK'
  BY <1>1 DEF HubHello, TypeOK, LinkTypeOK, DownMsgs, Greeted
<1>2. ASSUME NEW n \in Conns, HubResult(n) PROVE LinkTypeOK'
  BY <1>2 DEF HubResult, TypeOK, LinkTypeOK
<1>3. ASSUME NEW n \in Conns, HubCloses(n) PROVE LinkTypeOK'
  BY <1>3 DEF HubCloses, TypeOK, LinkTypeOK
<1>4. CASE HostSeesClose \/ HostLosesLink
  <2>1. hostConn # 0 /\ HostDrops
    BY <1>4 DEF HostSeesClose, HostLosesLink
  <2> QED BY <2>1 DEF HostDrops, TypeOK, LinkTypeOK, HostTypeOK
<1>5. CASE HostWelcome
  BY <1>5, WelcomeType, ConsumeType DEF HostWelcome, TypeOK, LinkTypeOK
<1>6. CASE HostRecognises
  BY <1>6, RecognisesType DEF HostRecognises, TypeOK, LinkTypeOK
<1>7. CASE HostClaims
  BY <1>7, ConsumeType DEF HostClaims, TypeOK, LinkTypeOK
<1>8. ASSUME NEW a \in active, HostFinishes(a) PROVE LinkTypeOK'
  <2>1. Result(a.cmd.id, a.outcome) \in ResultMsgs
    BY <1>8 DEF HostFinishes, Result, ResultMsgs, HostAnswers, TypeOK, HostTypeOK
  <2> QED BY <1>8, <2>1, ReplyType DEF HostFinishes, TypeOK, LinkTypeOK
<1>9. ASSUME NEW a \in active, NEW o \in Results, HostRuns(a, o) PROVE LinkTypeOK'
  BY <1>9 DEF HostRuns, TypeOK, LinkTypeOK, linkVars
<1>10. ASSUME NEW t \in Tabs, NEW c \in Commands, AskRouted(t, c) PROVE LinkTypeOK'
  BY <1>10 DEF AskRouted, CommandMsg, DownMsgs, TypeOK, LinkTypeOK, HubTypeOK
<1>11. ASSUME NEW t \in Tabs, NEW c \in Commands,
              AskConflicting(t, c) \/ AskSettled(t, c) \/ AskAgain(t, c)
                \/ AskTaken(t, c) \/ AskOffline(t, c)
       PROVE  LinkTypeOK'
  BY <1>11 DEF AskConflicting, AskSettled, AskAgain, AskTaken, AskOffline,
               TypeOK, LinkTypeOK, linkVars
<1>12. ASSUME NEW t \in Tabs, TabCloses(t) \/ TabTimesOut(t) PROVE LinkTypeOK'
  BY <1>12 DEF TabCloses, TabTimesOut, TypeOK, LinkTypeOK, linkVars
<1>16. ASSUME NEW u \in Users, RemoveMember(u) PROVE LinkTypeOK'
  BY <1>16 DEF RemoveMember, TypeOK, LinkTypeOK, linkVars
<1>13. CASE HostConnects
  BY <1>13 DEF HostConnects, Conns, UpMsgs, TypeOK, LinkTypeOK
<1>14. CASE HostCrashes \/ UNCHANGED vars
  BY <1>14 DEF HostCrashes, vars, TypeOK, LinkTypeOK, linkVars
<1>15. CASE HubRestarts
  BY <1>15 DEF HubRestarts, TypeOK, LinkTypeOK
<1> QED
  BY <1>1, <1>2, <1>3, <1>4, <1>5, <1>6, <1>7, <1>8, <1>9, <1>10, <1>11, <1>12, <1>13,
     <1>14, <1>15, <1>16 DEF Next, HubSteps, HostSteps, Environment

TableEntries == [cmd : Commands, state : {"pending"}, outcome : {"none"}]
                  \cup [cmd : Commands, state : {"completed"}, outcome : Results]

(* Completing a command rewrites its entry and leaves the others.          *)
Completed(e, a) ==
  IF e.cmd = a.cmd THEN [e EXCEPT !.state = "completed", !.outcome = a.outcome] ELSE e

LEMMA FinishedTable ==
  ASSUME TypeOK, NEW a \in active, HostFinishes(a)
  PROVE  /\ table' = {Completed(e, a) : e \in table}
         /\ \A e \in table : Completed(e, a) \in TableEntries /\ Completed(e, a).cmd = e.cmd
<1>1. table' = {Completed(e, a) : e \in table}
  BY DEF HostFinishes, Completed
<1>2. a.outcome \in Results
  BY DEF HostFinishes, TypeOK, HostTypeOK
<1>3. ASSUME NEW e \in table PROVE Completed(e, a) \in TableEntries /\ Completed(e, a).cmd = e.cmd
  <2>1. e \in TableEntries
    BY DEF TypeOK, HostTypeOK, TableEntries
  <2> QED BY <1>2, <2>1 DEF TableEntries, Completed
<1> QED BY <1>1, <1>3

(* No step upsets the shape of the host's socket, buffer, durable table    *)
(* and activeCommands.                                                     *)
LEMMA HostTypeStep == TypeOK /\ [Next]_vars => HostTypeOK'
<1> SUFFICES ASSUME TypeOK, [Next]_vars PROVE HostTypeOK'
  OBVIOUS
<1>1. CASE HubSteps
  BY <1>1 DEF HubSteps, HubHello, HubResult, HubCloses, hostVars, TypeOK, HostTypeOK
<1>2. CASE HostSeesClose \/ HostLosesLink
  BY <1>2 DEF HostSeesClose, HostLosesLink, HostDrops, TypeOK, HostTypeOK
<1>3. CASE HostWelcome
  BY <1>3 DEF HostWelcome, TypeOK, HostTypeOK
<1>4. CASE HostRecognises
  BY <1>4, RecognisesType DEF HostRecognises, TypeOK, HostTypeOK
<1>5. CASE HostClaims
  BY <1>5, IncomingIsACommand DEF HostClaims, TypeOK, HostTypeOK
<1>6. ASSUME NEW a \in active, HostFinishes(a) PROVE HostTypeOK'
  <2>1. Result(a.cmd.id, a.outcome) \in ResultMsgs
    BY <1>6 DEF HostFinishes, Result, ResultMsgs, HostAnswers, TypeOK, HostTypeOK
  <2>2. table' \subseteq TableEntries
    BY <1>6, FinishedTable DEF TypeOK, HostTypeOK
  <2>3. active' \subseteq [cmd : Commands, outcome : Results \cup {"none"}]
    BY <1>6 DEF HostFinishes, TypeOK, HostTypeOK
  <2> QED BY <1>6, <2>1, <2>2, <2>3, ReplyType DEF HostFinishes, TypeOK, HostTypeOK, TableEntries
<1>7. ASSUME NEW a \in active, NEW o \in Results, HostRuns(a, o) PROVE HostTypeOK'
  <2>1. active' \subseteq [cmd : Commands, outcome : Results \cup {"none"}]
    BY <1>7 DEF HostRuns, TypeOK, HostTypeOK
  <2>2. ran' \in [Commands -> Nat]
    BY <1>7 DEF HostRuns, TypeOK, HostTypeOK
  <2> QED BY <1>7, <2>1, <2>2 DEF HostRuns, TypeOK, HostTypeOK
<1>8. ASSUME NEW t \in Tabs, NEW c \in Commands,
             AskConflicting(t, c) \/ AskSettled(t, c) \/ AskAgain(t, c)
               \/ AskTaken(t, c) \/ AskRouted(t, c) \/ AskOffline(t, c)
      PROVE  HostTypeOK'
  BY <1>8 DEF AskConflicting, AskSettled, AskAgain, AskTaken, AskRouted, AskOffline,
              TypeOK, HostTypeOK, hostVars
<1>9. ASSUME NEW t \in Tabs, TabCloses(t) \/ TabTimesOut(t) PROVE HostTypeOK'
  BY <1>9 DEF TabCloses, TabTimesOut, TypeOK, HostTypeOK, hostVars
<1>10. ASSUME NEW u \in Users, RemoveMember(u) PROVE HostTypeOK'
  BY <1>10 DEF RemoveMember, TypeOK, HostTypeOK, hostVars
<1>11. CASE HostConnects
  <2>1. opened + 1 \in Conns
    BY <1>11 DEF HostConnects, Conns, TypeOK, LinkTypeOK
  <2> QED BY <1>11, <2>1 DEF HostConnects, TypeOK, HostTypeOK
<1>12. CASE HostCrashes
  BY <1>12 DEF HostCrashes, TypeOK, HostTypeOK
<1>13. CASE HubRestarts \/ UNCHANGED vars
  BY <1>13 DEF HubRestarts, vars, TypeOK, HostTypeOK, hostVars
<1> QED
  BY <1>1, <1>2, <1>3, <1>4, <1>5, <1>6, <1>7, <1>8, <1>9, <1>10, <1>11, <1>12, <1>13
     DEF Next, HostSteps, Environment

(* Every variable of hub, link, host and clients has its shape in every    *)
(* state of every behaviour, whatever crashes, is lost or is retried.      *)
THEOREM TypeCorrect == Spec => []TypeOK
<1>1. Init => TypeOK
  BY DEF Init, TypeOK, HubTypeOK, ClientTypeOK, LinkTypeOK, HostTypeOK, Conns
<1>2. TypeOK /\ [Next]_vars => TypeOK'
  BY HubTypeStep, ClientTypeStep, LinkTypeStep, HostTypeStep DEF TypeOK
<1> QED BY <1>1, <1>2, PTL DEF Spec

-----------------------------------------------------------------------------
(* At most once.  The invariant says how far each command got from what    *)
(* the host's table and activeCommands hold: nothing has acted that was    *)
(* not claimed, an id is claimed by one command, and what is claimed and   *)
(* has not acted has its one activity ahead of it.                         *)
ClaimInv ==
  /\ \A e, f \in table : e.cmd.id = f.cmd.id => e = f
  /\ \A c \in Commands : ran[c] > 0 => \E e \in table : e.cmd = c
  /\ \A a, b \in active : a.cmd = b.cmd => a = b
  /\ \A a \in active :
       /\ \E e \in table : e.cmd = a.cmd
       /\ ran[a.cmd] = IF a.outcome = "none" THEN 0 ELSE 1
  /\ \A c \in Commands : ran[c] <= 1

(* The durable claim precedes the action and is unique per id: every step  *)
(* of hub, link and host keeps it so, crashes included.                    *)
LEMMA ClaimStep == TypeOK /\ ClaimInv /\ [Next]_vars => ClaimInv'
<1> SUFFICES ASSUME TypeOK, ClaimInv, [Next]_vars PROVE ClaimInv'
  OBVIOUS
<1>1. CASE HostClaims
  <2> DEFINE c == Head(Incoming).cmd
  <2>1. c \in Commands
    BY <1>1, IncomingIsACommand DEF HostClaims
  <2>2. ran[c] = 0
    BY <1>1, <2>1 DEF HostClaims, ClaimInv, TypeOK, HostTypeOK
  <2>3. \A e \in table : e.cmd.id # c.id
    BY <1>1 DEF HostClaims
  <2>4. \A a \in active : a.cmd # c
    BY <2>3 DEF ClaimInv
  <2>5. /\ table' = table \cup {[cmd |-> c, state |-> "pending", outcome |-> "none"]}
        /\ active' = active \cup {[cmd |-> c, outcome |-> "none"]}
        /\ ran' = ran
    BY <1>1 DEF HostClaims
  <2> HIDE DEF c
  <2>6. \A e, f \in table' : e.cmd.id = f.cmd.id => e = f
    BY <2>3, <2>5 DEF ClaimInv
  <2> DEFINE new == [cmd |-> c, state |-> "pending", outcome |-> "none"]
  <2>7. /\ new \in table' /\ new.cmd = c
        /\ \A e \in table : e \in table'
    BY <2>5
  <2> HIDE DEF new
  <2>8. \A a, b \in active' : a.cmd = b.cmd => a = b
    BY <2>4, <2>5 DEF ClaimInv
  <2>9. \A a \in active' : ran'[a.cmd] = IF a.outcome = "none" THEN 0 ELSE 1
    BY <2>2, <2>5 DEF ClaimInv
  <2> QED BY <2>5, <2>6, <2>7, <2>8, <2>9 DEF ClaimInv
<1>2. ASSUME NEW a \in active, NEW o \in Results, HostRuns(a, o) PROVE ClaimInv'
  <2> DEFINE b == [a EXCEPT !.outcome = o]
  <2>1. /\ a.outcome = "none" /\ table' = table
        /\ active' = (active \ {a}) \cup {b}
        /\ ran' = [ran EXCEPT ![a.cmd] = @ + 1]
    BY <1>2 DEF HostRuns
  <2>2. b.cmd = a.cmd /\ b.outcome = o /\ o # "none" /\ a.cmd \in Commands
    BY <1>2 DEF TypeOK, HostTypeOK, Results
  <2>3. ran[a.cmd] = 0
    BY <2>1 DEF ClaimInv
  <2>4. \A c \in Commands : ran'[c] = IF c = a.cmd THEN 1 ELSE ran[c]
    BY <2>1, <2>3 DEF TypeOK, HostTypeOK
  <2>5. \A d \in active : d.cmd \in Commands /\ (d.cmd = a.cmd => d = a)
    BY DEF ClaimInv, TypeOK, HostTypeOK
  <2> HIDE DEF b
  <2> QED BY <2>1, <2>2, <2>4, <2>5 DEF ClaimInv
<1>3. ASSUME NEW a \in active, HostFinishes(a) PROVE ClaimInv'
  <2>1. active' = active \ {a} /\ ran' = ran
    BY <1>3 DEF HostFinishes
  <2>2. /\ table' = {Completed(e, a) : e \in table}
        /\ \A e \in table : Completed(e, a).cmd = e.cmd
    BY <1>3, FinishedTable
  <2>3. \A e, f \in table' : e.cmd.id = f.cmd.id => e = f
    BY <2>2 DEF ClaimInv
  <2>4. \A c : (\E e \in table : e.cmd = c) => \E e \in table' : e.cmd = c
    BY <2>2
  <2> QED BY <2>1, <2>3, <2>4 DEF ClaimInv
<1>4. CASE HostCrashes
  BY <1>4 DEF HostCrashes, ClaimInv
<1>5. CASE UNCHANGED <<table, active, ran>>
  BY <1>5 DEF ClaimInv
<1>6. HubSteps => UNCHANGED <<table, active, ran>>
  BY DEF HubSteps, HubHello, HubResult, HubCloses, hostVars
<1>7. HostSeesClose \/ HostWelcome \/ HostRecognises => UNCHANGED <<table, active, ran>>
  BY DEF HostSeesClose, HostDrops, HostWelcome, HostRecognises
<1>8. Environment /\ ~HostCrashes => UNCHANGED <<table, active, ran>>
  BY DEF Environment, AskConflicting, AskSettled, AskAgain, AskTaken, AskRouted, AskOffline,
         TabCloses, TabTimesOut, RemoveMember, HostConnects, HostLosesLink, HostDrops,
         HubRestarts, hostVars
<1>9. UNCHANGED vars => UNCHANGED <<table, active, ran>>
  BY DEF vars, hostVars
<1> QED
  BY <1>1, <1>2, <1>3, <1>4, <1>5, <1>6, <1>7, <1>8, <1>9 DEF Next, HostSteps

(* Whatever is retried, lost, reordered or restarted, and however ids are  *)
(* reused: a command id acts at most once on the host.                     *)
THEOREM AtMostOnceHolds == Spec => []AtMostOnce
<1>1. Init => ClaimInv
  BY DEF Init, ClaimInv
<1>2. TypeOK /\ ClaimInv => AtMostOnce
  BY DEF ClaimInv, AtMostOnce
<1> QED BY <1>1, <1>2, TypeCorrect, ClaimStep, PTL DEF Spec

-----------------------------------------------------------------------------
(* The hub's two maps and whoever waits.  What LogMatchesPending and       *)
(* NobodyForgotten need besides each other: an entry in flight was routed  *)
(* over a connection whose close event is still to come, and so is what is *)
(* routed next.                                                            *)
RoutedOverLive ==
  /\ registered \in {0} \cup hubConns
  /\ \A p \in pending : p.conn \in hubConns

HubInv == LogMatchesPending /\ WaitersAreMembers /\ RoutedOverLive /\ NobodyForgotten

(* Pruning drops entries that are done, and nothing else.                  *)
LEMMA PrunedKeepsPending ==
  ASSUME NEW l, NEW k \in Pruned(l)
  PROVE  k \subseteq l /\ \A e \in l : e.state = "pending" => e \in k
  BY DEF Pruned

(* What settling makes of an entry of the log.                             *)
SettledEntry(e, ps, o) ==
  IF \E p \in ps : p.cmd = e.cmd THEN [e EXCEPT !.state = "done", !.outcome = o] ELSE e

LEMMA SettleKeepsMatch ==
  ASSUME TypeOK, LogMatchesPending, NEW ps \in SUBSET pending, NEW o, Settle(ps, o)
  PROVE  LogMatchesPending'
<1>1. log' = {SettledEntry(e, ps, o) : e \in log} /\ pending' = pending \ ps
  BY DEF Settle, SettledEntry
<1>2. ASSUME NEW e \in log
      PROVE  /\ SettledEntry(e, ps, o).cmd = e.cmd
             /\ SettledEntry(e, ps, o).state = "pending"
                  <=> e.state = "pending" /\ \A p \in ps : p.cmd # e.cmd
  BY DEF SettledEntry, TypeOK, HubTypeOK
<1>3. \A e, f \in log' : SameKey(e.cmd, f.cmd) => e = f
  BY <1>1, <1>2 DEF LogMatchesPending
<1>4. \A p, q \in pending' : p.cmd.id = q.cmd.id => p = q
  BY <1>1 DEF LogMatchesPending
<1>5. ASSUME NEW e \in log', e.state = "pending" PROVE \E p \in pending' : p.cmd = e.cmd
  BY <1>1, <1>2, <1>5 DEF LogMatchesPending
<1>6. ASSUME NEW p \in pending' PROVE \E e \in log' : e.state = "pending" /\ e.cmd = p.cmd
  <2>1. PICK e \in log : e.state = "pending" /\ e.cmd = p.cmd
    BY <1>1 DEF LogMatchesPending
  <2>2. \A q \in ps : q.cmd # e.cmd
    BY <1>1, <2>1 DEF LogMatchesPending
  <2> QED BY <1>1, <1>2, <2>1, <2>2
<1> QED BY <1>3, <1>4, <1>5, <1>6 DEF LogMatchesPending

(* Settling answers whoever waits on what is settled, so that nobody who   *)
(* still asks waits on it.                                                 *)
LEMMA SettleKeepsWaiting ==
  ASSUME TypeOK, HubInv, NEW ps \in SUBSET pending, NEW o, Settle(ps, o), UNCHANGED members
  PROVE  /\ WaitersAreMembers'
         /\ \A a \in asking' : UserOf[a.tab] \in members =>
              \E p \in pending \ ps : p.cmd = a.cmd /\ a.tab \in p.waiters /\ p.conn \in hubConns
<1>1. pending' = pending \ ps /\ asking' = asking \ AnsweredBy(ps)
  BY DEF Settle
<1>2. WaitersAreMembers'
  BY <1>1 DEF HubInv, WaitersAreMembers
<1>3. ASSUME NEW a \in asking', UserOf[a.tab] \in members
      PROVE  \E p \in pending \ ps : p.cmd = a.cmd /\ a.tab \in p.waiters /\ p.conn \in hubConns
  <2>1. PICK p \in pending : p.cmd = a.cmd /\ a.tab \in p.waiters /\ p.conn \in hubConns
    BY <1>1, <1>3 DEF HubInv, NobodyForgotten
  <2>2. p \notin ps
    BY <1>1, <2>1 DEF AnsweredBy
  <2> QED BY <2>1, <2>2
<1> QED BY <1>2, <1>3

(* Waiters that leave, or lose their seat, change nothing else of the      *)
(* entries in flight.                                                      *)
Without(p, ts) == [p EXCEPT !.waiters = @ \ ts]

LEMMA WithoutWaitersKeepsEntries ==
  ASSUME TypeOK, NEW ts
  PROVE  /\ WithoutWaiters(ts) = {Without(p, ts) : p \in pending}
         /\ \A p \in pending : /\ Without(p, ts).cmd = p.cmd /\ Without(p, ts).conn = p.conn
                               /\ Without(p, ts).waiters = p.waiters \ ts
<1>1. WithoutWaiters(ts) = {Without(p, ts) : p \in pending}
  BY DEF WithoutWaiters, Without
<1>2. ASSUME NEW p \in pending
      PROVE  /\ Without(p, ts).cmd = p.cmd /\ Without(p, ts).conn = p.conn
             /\ Without(p, ts).waiters = p.waiters \ ts
  BY DEF Without, TypeOK, HubTypeOK
<1> QED BY <1>1, <1>2

(* A retry that joins adds its tab to the entry of its command.            *)
Joined(p, t, c) == IF p.cmd = c THEN [p EXCEPT !.waiters = @ \cup {t}] ELSE p

LEMMA HubInvStep == TypeOK /\ HubInv /\ [Next]_vars => HubInv'
<1> SUFFICES ASSUME TypeOK, HubInv, [Next]_vars PROVE HubInv'
  OBVIOUS
<1>1. ASSUME NEW t \in Tabs, NEW c \in Commands, AskAgain(t, c) PROVE HubInv'
  <2>1. /\ UserOf[t] \in members /\ asking' = asking \cup {[tab |-> t, cmd |-> c]}
        /\ UNCHANGED <<members, log, registered, hubConns>>
    BY <1>1 DEF AskAgain, MaySend, linkVars
  <2>2. pending' = {Joined(p, t, c) : p \in pending}
    BY <1>1 DEF AskAgain, Joined
  <2>3. \A p \in pending :
          /\ Joined(p, t, c).cmd = p.cmd /\ Joined(p, t, c).conn = p.conn
          /\ Joined(p, t, c).waiters = IF p.cmd = c THEN p.waiters \cup {t} ELSE p.waiters
    BY DEF Joined, TypeOK, HubTypeOK
  <2>5. LogMatchesPending'
    <3>0. \A p \in pending : Joined(p, t, c).cmd = p.cmd
      BY <2>3
    <3>1. ASSUME NEW p \in pending', NEW q \in pending', p.cmd.id = q.cmd.id PROVE p = q
      BY <2>2, <3>0, <3>1 DEF HubInv, LogMatchesPending
    <3>2. {p.cmd : p \in pending'} = {p.cmd : p \in pending}
      BY <2>2, <3>0
    <3> QED BY <2>1, <3>1, <3>2 DEF HubInv, LogMatchesPending
  <2>6. WaitersAreMembers' /\ RoutedOverLive'
    <3>1. ASSUME NEW q \in pending'
          PROVE  q.conn \in hubConns /\ \A u \in q.waiters : UserOf[u] \in members
      <4>1. PICK p \in pending : q = Joined(p, t, c)
        BY <2>2
      <4>2. q.conn = p.conn /\ q.waiters \subseteq p.waiters \cup {t}
        BY <2>3, <4>1
      <4> QED BY <2>1, <4>2 DEF HubInv, WaitersAreMembers, RoutedOverLive
    <3> QED BY <2>1, <3>1 DEF HubInv, WaitersAreMembers, RoutedOverLive
  <2>7. ASSUME NEW a \in asking', UserOf[a.tab] \in members'
        PROVE  \E p \in pending' : p.cmd = a.cmd /\ a.tab \in p.waiters /\ p.conn \in hubConns'
    <3>1. \E p \in pending : /\ p.cmd = a.cmd /\ p.conn \in hubConns
                             /\ (a.tab \in p.waiters \/ (a.cmd = c /\ a.tab = t))
      <4>1. CASE a \in asking
        BY <2>1, <2>7, <4>1 DEF HubInv, NobodyForgotten
      <4>2. CASE a = [tab |-> t, cmd |-> c]
        BY <1>1, <4>2 DEF AskAgain, Prior, HubInv, LogMatchesPending, RoutedOverLive
      <4> QED BY <2>1, <4>1, <4>2
    <3> QED BY <2>1, <2>2, <2>3, <3>1
  <2> QED BY <2>5, <2>6, <2>7 DEF HubInv, NobodyForgotten
<1>2. ASSUME NEW t \in Tabs, NEW c \in Commands, AskRouted(t, c) PROVE HubInv'
  <2> DEFINE new == [cmd |-> c, conn |-> registered, waiters |-> {t}]
  <2>1. /\ UserOf[t] \in members /\ registered # 0 /\ Prior(c) = {}
        /\ \A p \in pending : p.cmd.id # c.id
        /\ log' \in Pruned(log \cup {NewEntry(c)})
        /\ pending' = pending \cup {new} /\ asking' = asking \cup {[tab |-> t, cmd |-> c]}
        /\ UNCHANGED <<members, registered, hubConns>>
    BY <1>2 DEF AskRouted, IsNew, MaySend
  <2>2. new.cmd = c /\ new.conn = registered /\ new.waiters = {t}
    OBVIOUS
  <2> HIDE DEF new
  <2>3. LogMatchesPending'
    <3>1. /\ log' \subseteq log \cup {NewEntry(c)}
          /\ \A e \in log \cup {NewEntry(c)} : e.state = "pending" => e \in log'
      BY <2>1, PrunedKeepsPending
    <3>2. NewEntry(c).cmd = c /\ NewEntry(c).state = "pending"
      BY DEF NewEntry
    <3>3. {e.cmd : e \in {x \in log' : x.state = "pending"}} = {p.cmd : p \in pending'}
      <4>1. ASSUME NEW e \in log', e.state = "pending" PROVE \E p \in pending' : p.cmd = e.cmd
        BY <2>1, <2>2, <3>1, <3>2, <4>1 DEF HubInv, LogMatchesPending
      <4>2. ASSUME NEW p \in pending' PROVE \E e \in log' : e.state = "pending" /\ e.cmd = p.cmd
        BY <2>1, <2>2, <3>1, <3>2, <4>2 DEF HubInv, LogMatchesPending
      <4> QED BY <4>1, <4>2
    <3>4. \A e, f \in log' : SameKey(e.cmd, f.cmd) => e = f
      <4>1. \A e \in log : ~SameKey(e.cmd, c) /\ ~SameKey(c, e.cmd)
        BY <2>1 DEF Prior, SameKey
      <4> QED BY <3>1, <3>2, <4>1 DEF HubInv, LogMatchesPending
    <3>5. \A p, q \in pending' : p.cmd.id = q.cmd.id => p = q
      BY <2>1, <2>2 DEF HubInv, LogMatchesPending
    <3> QED BY <3>3, <3>4, <3>5 DEF LogMatchesPending
  <2>4. WaitersAreMembers' /\ RoutedOverLive'
    BY <2>1, <2>2 DEF HubInv, WaitersAreMembers, RoutedOverLive
  <2>5. NobodyForgotten'
    BY <2>1, <2>2 DEF HubInv, NobodyForgotten, RoutedOverLive
  <2> QED BY <2>3, <2>4, <2>5 DEF HubInv
<1>3. ASSUME NEW t \in Tabs, NEW c \in Commands, AskOffline(t, c) PROVE HubInv'
  <2>1. PICK l \in Pruned(log \cup {NewEntry(c)}) : log' = l \ {NewEntry(c)}
    BY <1>3 DEF AskOffline
  <2>2. Prior(c) = {} /\ UNCHANGED <<members, pending, registered, asking, hubConns>>
    BY <1>3 DEF AskOffline, IsNew, TellNow, linkVars
  <2>3. NewEntry(c) \notin log
    BY <2>2 DEF Prior, SameKey, NewEntry
  <2>4. /\ log' \subseteq log
        /\ \A e \in log : e.state = "pending" => e \in log'
    BY <2>1, <2>3, PrunedKeepsPending
  <2>5. {e \in log' : e.state = "pending"} = {e \in log : e.state = "pending"}
    BY <2>4
  <2>6. LogMatchesPending'
    BY <2>2, <2>4, <2>5 DEF HubInv, LogMatchesPending
  <2> QED BY <2>2, <2>6 DEF HubInv, WaitersAreMembers, RoutedOverLive, NobodyForgotten
<1>4. ASSUME NEW ts \in SUBSET Tabs, pending' = WithoutWaiters(ts), asking' \subseteq asking,
             members' \subseteq members, UNCHANGED <<log, registered, hubConns>>,
             \A t \in Tabs : UserOf[t] \in members \ members' => t \in ts,
             \A a \in asking' : UserOf[a.tab] \in members' => a.tab \notin ts
      PROVE  HubInv'
  <2>1. pending' = {Without(p, ts) : p \in pending}
    BY <1>4, WithoutWaitersKeepsEntries
  <2>2. \A p \in pending : /\ Without(p, ts).cmd = p.cmd /\ Without(p, ts).conn = p.conn
                           /\ Without(p, ts).waiters = p.waiters \ ts
    BY WithoutWaitersKeepsEntries
  <2>3. LogMatchesPending'
    <3>1. {p.cmd : p \in pending'} = {p.cmd : p \in pending}
      BY <2>1, <2>2
    <3>2. ASSUME NEW p \in pending', NEW q \in pending', p.cmd.id = q.cmd.id PROVE p = q
      BY <2>1, <2>2, <3>2 DEF HubInv, LogMatchesPending
    <3> QED BY <1>4, <3>1, <3>2 DEF HubInv, LogMatchesPending
  <2>4. WaitersAreMembers'
    BY <1>4, <2>1, <2>2 DEF HubInv, WaitersAreMembers, TypeOK, HubTypeOK
  <2>5. RoutedOverLive'
    BY <1>4, <2>1, <2>2 DEF HubInv, RoutedOverLive
  <2>6. NobodyForgotten'
    BY <1>4, <2>1, <2>2 DEF HubInv, NobodyForgotten
  <2> QED BY <2>3, <2>4, <2>5, <2>6 DEF HubInv
<1>5. ASSUME NEW t \in Tabs, TabCloses(t) PROVE HubInv'
  <2>1. \A u \in Tabs : UserOf[u] \in members \ members' => u \in {t}
    BY <1>5 DEF TabCloses
  <2>2. {t} \in SUBSET Tabs /\ asking' \subseteq asking /\ \A a \in asking' : a.tab \notin {t}
    BY <1>5 DEF TabCloses
  <2> QED BY <1>4, <1>5, <2>1, <2>2 DEF TabCloses, linkVars
<1>6. ASSUME NEW u \in Users, RemoveMember(u) PROVE HubInv'
  <2> DEFINE ts == {t \in Tabs : UserOf[t] = u}
  <2>1. \A t \in Tabs : UserOf[t] \in members \ members' => t \in ts
    BY <1>6 DEF RemoveMember
  <2>2. \A a \in asking' : UserOf[a.tab] \in members' => a.tab \notin ts
    BY <1>6 DEF RemoveMember
  <2>3. ts \in SUBSET Tabs /\ pending' = WithoutWaiters(ts)
    BY <1>6 DEF RemoveMember
  <2> QED BY <1>4, <1>6, <2>1, <2>2, <2>3 DEF RemoveMember, linkVars
<1>7. ASSUME NEW t \in Tabs, TabTimesOut(t) PROVE HubInv'
  <2>1. asking' \subseteq asking /\ UNCHANGED <<members, log, pending, registered, hubConns>>
    BY <1>7 DEF TabTimesOut, hubVars, linkVars
  <2> QED BY <2>1 DEF HubInv, LogMatchesPending, WaitersAreMembers, RoutedOverLive, NobodyForgotten
<1>8. ASSUME NEW n \in Conns, HubCloses(n) PROVE HubInv'
  <2> DEFINE ps == {p \in pending : p.conn = n}
  <2>1. /\ ps \in SUBSET pending /\ Settle(ps, "lost") /\ UNCHANGED members
        /\ registered' = (IF registered = n THEN 0 ELSE registered) /\ hubConns' = hubConns \ {n}
        /\ pending' = pending \ ps
    BY <1>8 DEF HubCloses, Settle
  <2>2. LogMatchesPending'
    BY <2>1, SettleKeepsMatch DEF HubInv
  <2>3. WaitersAreMembers' /\ NobodyForgotten'
    <3>1. /\ WaitersAreMembers'
          /\ \A a \in asking' : UserOf[a.tab] \in members =>
               \E p \in pending \ ps : p.cmd = a.cmd /\ a.tab \in p.waiters /\ p.conn \in hubConns
      BY <2>1, SettleKeepsWaiting
    <3> QED BY <2>1, <3>1 DEF NobodyForgotten
  <2>4. RoutedOverLive'
    BY <2>1 DEF HubInv, RoutedOverLive
  <2> QED BY <2>2, <2>3, <2>4 DEF HubInv
<1>9. ASSUME NEW n \in Conns, HubResult(n) PROVE HubInv'
  <2> DEFINE m == Head(up[n])
             ps == {p \in pending : p.cmd.id = m.id}
  <2>1. UNCHANGED <<members, registered, hubConns>>
    BY <1>9 DEF HubResult
  <2>2. CASE UNCHANGED <<pending, log, told, asking>>
    BY <2>1, <2>2 DEF HubInv, LogMatchesPending, WaitersAreMembers, RoutedOverLive, NobodyForgotten
  <2>3. CASE Settle(ps, m.outcome)
    <3>1. ps \in SUBSET pending /\ pending' = pending \ ps
      BY <2>3 DEF Settle
    <3> HIDE DEF ps, m
    <3>2. LogMatchesPending'
      BY <2>3, <3>1, SettleKeepsMatch DEF HubInv
    <3>3. /\ WaitersAreMembers'
          /\ \A a \in asking' : UserOf[a.tab] \in members =>
               \E p \in pending \ ps : p.cmd = a.cmd /\ a.tab \in p.waiters /\ p.conn \in hubConns
      BY <2>1, <2>3, <3>1, SettleKeepsWaiting
    <3>4. RoutedOverLive' /\ NobodyForgotten'
      BY <2>1, <3>1, <3>3 DEF HubInv, RoutedOverLive, NobodyForgotten
    <3> QED BY <3>2, <3>3, <3>4 DEF HubInv
  <2> QED BY <1>9, <2>2, <2>3 DEF HubResult
<1>10. CASE HubRestarts
  BY <1>10 DEF HubRestarts, HubInv, LogMatchesPending, WaitersAreMembers, RoutedOverLive, NobodyForgotten
<1>11. ASSUME members' = members, log' = log, pending' = pending, asking' = asking,
              registered' \in {registered} \cup hubConns, hubConns \subseteq hubConns'
       PROVE  HubInv'
  BY <1>11 DEF HubInv, LogMatchesPending, WaitersAreMembers, RoutedOverLive, NobodyForgotten
<1>12. ASSUME NEW n \in Conns, HubHello(n) PROVE HubInv'
  BY <1>11, <1>12 DEF HubHello
<1>13. CASE HostSteps \/ HostConnects \/ HostLosesLink \/ HostCrashes \/ UNCHANGED vars
  BY <1>11, <1>13 DEF HostSteps, HostSeesClose, HostWelcome, HostRecognises, HostClaims,
       HostFinishes, HostRuns, HostConnects, HostLosesLink, HostDrops, HostCrashes,
       vars, hubVars, linkVars
<1>14. ASSUME NEW t \in Tabs, NEW c \in Commands,
              AskConflicting(t, c) \/ AskSettled(t, c) \/ AskTaken(t, c)
       PROVE  HubInv'
  BY <1>11, <1>14 DEF AskConflicting, AskSettled, AskTaken, TellNow, hubVars, linkVars
<1> QED
  BY <1>1, <1>2, <1>3, <1>5, <1>6, <1>7, <1>8, <1>9, <1>10, <1>12, <1>13, <1>14
     DEF Next, HubSteps, Environment

(* The parts of HubInv need each other: a retry joins an entry in flight   *)
(* because the maps agree, and is not forgotten because what is in flight  *)
(* still has its connection's close ahead of it.                           *)
LEMMA HubInvariant == Spec => []HubInv
<1>1. Init => HubInv
  BY DEF Init, HubInv, LogMatchesPending, WaitersAreMembers, RoutedOverLive, NobodyForgotten
<1> QED BY <1>1, TypeCorrect, HubInvStep, PTL DEF Spec

(* commandLog and pendingCommands agree after every step, whatever is      *)
(* pruned, joined, settled or forgotten in a restart.                      *)
THEOREM LogMatchesPendingHolds == Spec => []LogMatchesPending
  BY HubInvariant, PTL DEF HubInv

(* A removal (MEMBER_REMOVE) reaches every command in flight: who is       *)
(* removed is no waiter of a pending command and is told nothing any more. *)
THEOREM WaitersAreMembersHolds == Spec => []WaitersAreMembers
  BY HubInvariant, PTL DEF HubInv

(* Whoever of the team still asks is a waiter of an entry that is routed   *)
(* over a live connection, so that its result or the connection's close    *)
(* will settle it (command.result, onClose).                               *)
THEOREM NobodyForgottenHolds == Spec => []NobodyForgotten
  BY HubInvariant, PTL DEF HubInv

-----------------------------------------------------------------------------
(* The contract.  It is kept as long as no id is used for two commands;    *)
(* ledger_conflict shows what happens otherwise.                           *)
NoIdReused == \A c, d \in Commands : c.id = d.id => c = d

(* Where an outcome is written down, in the log, on the wire or in the     *)
(* buffer, it is the outcome of the command it is about.                   *)
TrueOf(i, o) == o \in Final => \A c \in Commands : c.id = i => Phase(c) = o

UnderWay ==
  {m \in ResultMsgs : \/ \E i \in 1 .. Len(queue) : queue[i] = m
                      \/ \E n \in Conns : \E i \in 1 .. Len(up[n]) : up[n][i] = m}

OutcomeInv ==
  /\ \A a \in active : \E e \in table : e.cmd = a.cmd /\ e.state = "pending"
  /\ \A e \in log : e.state = "done" => TrueOf(e.cmd.id, e.outcome)
  /\ \A m \in UnderWay : TrueOf(m.id, m.outcome)

(* How far a command got, from its one entry in the table.                 *)
LEMMA PhaseOf ==
  ASSUME TypeOK, ClaimInv, NEW e \in table
  PROVE  Phase(e.cmd) =
           CASE e.state = "completed" -> e.outcome
             [] e.state = "pending" /\ [cmd |-> e.cmd, outcome |-> "none"] \in active -> "claimed"
             [] e.state = "pending" /\ (\E a \in active : a.cmd = e.cmd /\ a.outcome # "none") -> "acted"
             [] OTHER -> "uncertain"
<1>1. \A x \in table : x.cmd = e.cmd => x = e
  BY DEF ClaimInv
<1>2. (CHOOSE x \in table : x.cmd = e.cmd) = e
  BY <1>1
<1> QED BY <1>2 DEF Phase

(* The same, one phase at a time.                                          *)
PhaseFacts ==
  \A c \in Commands :
    /\ (\A e \in table : e.cmd # c) => Phase(c) = "new"
    /\ \A e \in table : e.cmd = c =>
         /\ e.state = "completed" => Phase(c) = e.outcome
         /\ e.state = "pending" =>
              /\ (\A a \in active : a.cmd # c) => Phase(c) = "uncertain"
              /\ \A a \in active : a.cmd = c =>
                   Phase(c) = IF a.outcome = "none" THEN "claimed" ELSE "acted"

LEMMA PhaseCases == TypeOK /\ ClaimInv => PhaseFacts
<1> SUFFICES ASSUME TypeOK, ClaimInv, NEW c \in Commands
             PROVE  /\ (\A e \in table : e.cmd # c) => Phase(c) = "new"
                    /\ \A e \in table : e.cmd = c =>
                         /\ e.state = "completed" => Phase(c) = e.outcome
                         /\ e.state = "pending" =>
                              /\ (\A a \in active : a.cmd # c) => Phase(c) = "uncertain"
                              /\ \A a \in active : a.cmd = c =>
                                   Phase(c) = IF a.outcome = "none" THEN "claimed" ELSE "acted"
  BY DEF PhaseFacts
<1>1. (\A e \in table : e.cmd # c) => Phase(c) = "new"
  BY DEF Phase
<1>2. ASSUME NEW e \in table, e.cmd = c, e.state = "completed" PROVE Phase(c) = e.outcome
  BY <1>2, PhaseOf
<1>3. ASSUME NEW e \in table, e.cmd = c, e.state = "pending", \A a \in active : a.cmd # c
      PROVE  Phase(c) = "uncertain"
  BY <1>3, PhaseOf
<1>4. ASSUME NEW e \in table, e.cmd = c, e.state = "pending", NEW a \in active, a.cmd = c
      PROVE  Phase(c) = IF a.outcome = "none" THEN "claimed" ELSE "acted"
  <2>1. \A b \in active : b.cmd = c => b = a
    BY <1>4 DEF ClaimInv
  <2>2. a = [cmd |-> c, outcome |-> a.outcome]
    BY <1>4 DEF TypeOK, HostTypeOK
  <2>3. [cmd |-> e.cmd, outcome |-> "none"] \in active <=> a.outcome = "none"
    BY <1>4, <2>1, <2>2
  <2>4. (\E b \in active : b.cmd = e.cmd /\ b.outcome # "none") <=> a.outcome # "none"
    BY <1>4, <2>1
  <2> QED BY <1>4, <2>3, <2>4, PhaseOf
<1> QED BY <1>1, <1>2, <1>3, <1>4

LEMMA PhaseCasesNext == (TypeOK /\ ClaimInv)' => PhaseFacts'
  BY PhaseCases, PTL

(* Nothing a step of the link or of the hub does changes how far a command *)
(* got.                                                                    *)
LEMMA PhaseUnchanged ==
  ASSUME UNCHANGED <<table, active>>
  PROVE  \A c : Phase(c)' = Phase(c)
  BY DEF Phase

(* What a step of the host does to it: a claim is new,                     *)
LEMMA ClaimsPhase ==
  ASSUME TypeOK, ClaimInv, TypeOK', ClaimInv', HostClaims,
         NEW c, c = Head(Incoming).cmd
  PROVE  /\ c \in Commands /\ Phase(c)' = "claimed"
         /\ \A d \in Commands : d.id = c.id => Phase(d) = "new"
         /\ \A d \in Commands : d # c => Phase(d)' = Phase(d)
<1> DEFINE new == [cmd |-> c, state |-> "pending", outcome |-> "none"]
           job == [cmd |-> c, outcome |-> "none"]
<1>1. c \in Commands
  BY IncomingIsACommand DEF HostClaims
<1>2. /\ table' = table \cup {new} /\ active' = active \cup {job}
      /\ \A e \in table : e.cmd.id # c.id
  BY DEF HostClaims
<1>3. new.cmd = c /\ new.state = "pending" /\ job.cmd = c /\ job.outcome = "none"
  OBVIOUS
<1> HIDE DEF new, job
<1>4. \A d \in Commands : d.id = c.id => Phase(d) = "new"
  BY <1>2, PhaseCases DEF PhaseFacts
<1>5. Phase(c)' = "claimed"
  BY <1>1, <1>2, <1>3, PhaseCasesNext DEF PhaseFacts
<1>6. ASSUME NEW d \in Commands, d # c PROVE Phase(d)' = Phase(d)
  <2>1. \A a \in active' : a.cmd = d => a \in active
    BY <1>2, <1>3, <1>6
  <2>2. CASE \A e \in table : e.cmd # d
    BY <1>2, <1>3, <1>6, <2>2, PhaseCases, PhaseCasesNext DEF PhaseFacts
  <2>3. ASSUME NEW e \in table, e.cmd = d PROVE Phase(d)' = Phase(d)
    <3>1. e \in table'
      BY <1>2
    <3>2. e.state \in {"pending", "completed"}
      BY DEF TypeOK, HostTypeOK
    <3> QED BY <1>2, <2>1, <2>3, <3>1, <3>2, PhaseCases, PhaseCasesNext DEF PhaseFacts
  <2> QED BY <2>2, <2>3
<1> QED BY <1>1, <1>4, <1>5, <1>6

(* an activity takes a command from claimed to acted,                      *)
LEMMA RunsPhase ==
  ASSUME TypeOK, ClaimInv, OutcomeInv, TypeOK', ClaimInv',
         NEW a \in active, NEW o \in Results, HostRuns(a, o)
  PROVE  /\ a.cmd \in Commands /\ Phase(a.cmd) = "claimed" /\ Phase(a.cmd)' = "acted"
         /\ \A d \in Commands : d # a.cmd => Phase(d)' = Phase(d)
<1> DEFINE b == [a EXCEPT !.outcome = o]
<1>1. /\ a.outcome = "none" /\ table' = table
      /\ active' = (active \ {a}) \cup {b}
  BY DEF HostRuns
<1>2. b.cmd = a.cmd /\ b.outcome = o /\ o # "none" /\ a.cmd \in Commands
  BY DEF TypeOK, HostTypeOK, Results
<1> HIDE DEF b
<1>3. PICK e \in table : e.cmd = a.cmd /\ e.state = "pending"
  BY DEF OutcomeInv
<1>4. Phase(a.cmd) = "claimed"
  BY <1>1, <1>2, <1>3, PhaseCases DEF PhaseFacts
<1>5. Phase(a.cmd)' = "acted"
  BY <1>1, <1>2, <1>3, PhaseCasesNext DEF PhaseFacts
<1>6. ASSUME NEW d \in Commands, d # a.cmd PROVE Phase(d)' = Phase(d)
  <2>1. \A x : x.cmd = d => (x \in active' <=> x \in active)
    BY <1>1, <1>2, <1>6
  <2>2. CASE \A e2 \in table : e2.cmd # d
    BY <1>1, <2>2, PhaseCases, PhaseCasesNext DEF PhaseFacts
  <2>3. ASSUME NEW e2 \in table, e2.cmd = d PROVE Phase(d)' = Phase(d)
    <3>1. e2.state \in {"pending", "completed"}
      BY DEF TypeOK, HostTypeOK
    <3> QED BY <1>1, <2>1, <2>3, <3>1, PhaseCases, PhaseCasesNext DEF PhaseFacts
  <2> QED BY <2>2, <2>3
<1> QED BY <1>2, <1>4, <1>5, <1>6

(* and the stored reply is its outcome.                                    *)
LEMMA FinishesPhase ==
  ASSUME TypeOK, ClaimInv, OutcomeInv, TypeOK', ClaimInv',
         NEW a \in active, HostFinishes(a)
  PROVE  /\ a.cmd \in Commands /\ a.outcome \in Results
         /\ Phase(a.cmd) = "acted" /\ Phase(a.cmd)' = a.outcome
         /\ \A d \in Commands : d # a.cmd => Phase(d)' = Phase(d)
<1>1. a.cmd \in Commands /\ a.outcome \in Results /\ a.outcome # "none" /\ active' = active \ {a}
  BY DEF HostFinishes, TypeOK, HostTypeOK
<1>2. table' = {Completed(e, a) : e \in table}
  BY FinishedTable
<1>3. PICK e \in table : e.cmd = a.cmd /\ e.state = "pending"
  BY DEF OutcomeInv
<1>4. Phase(a.cmd) = "acted"
  BY <1>1, <1>3, PhaseCases DEF PhaseFacts
<1>5. Phase(a.cmd)' = a.outcome
  <2>1. /\ Completed(e, a) \in table' /\ Completed(e, a).cmd = a.cmd
        /\ Completed(e, a).state = "completed" /\ Completed(e, a).outcome = a.outcome
    BY <1>2, <1>3 DEF Completed, TypeOK, HostTypeOK
  <2> QED BY <1>1, <2>1, PhaseCasesNext DEF PhaseFacts
<1>6. ASSUME NEW d \in Commands, d # a.cmd PROVE Phase(d)' = Phase(d)
  <2>1. \A x \in active : x.cmd = d => x \in active'
    BY <1>1, <1>6
  <2>2. CASE \A e2 \in table : e2.cmd # d
    <3>1. \A e2 \in table' : e2.cmd # d
      BY <1>2, <2>2, FinishedTable
    <3> QED BY <2>2, <3>1, PhaseCases, PhaseCasesNext DEF PhaseFacts
  <2>3. ASSUME NEW e2 \in table, e2.cmd = d PROVE Phase(d)' = Phase(d)
    <3>1. e2 \in table'
      BY <1>2, <1>6, <2>3 DEF Completed
    <3>2. e2.state \in {"pending", "completed"}
      BY DEF TypeOK, HostTypeOK
    <3> QED BY <1>1, <2>1, <2>3, <3>1, <3>2, PhaseCases, PhaseCasesNext DEF PhaseFacts
  <2> QED BY <2>2, <2>3
<1> QED BY <1>1, <1>4, <1>5, <1>6

(* A crash leaves what is settled, and nobody learns how the rest ended.   *)
LEMMA CrashesPhase ==
  ASSUME TypeOK, ClaimInv, OutcomeInv, TypeOK', ClaimInv', HostCrashes, NEW c \in Commands
  PROVE  Phase(c)' = IF Phase(c) \in {"claimed", "acted"} THEN "uncertain" ELSE Phase(c)
<1>1. table' = table /\ active' = {}
  BY DEF HostCrashes
<1>2. CASE \A e \in table : e.cmd # c
  BY <1>1, <1>2, PhaseCases, PhaseCasesNext DEF PhaseFacts
<1>3. ASSUME NEW e \in table, e.cmd = c
      PROVE  Phase(c)' = IF Phase(c) \in {"claimed", "acted"} THEN "uncertain" ELSE Phase(c)
  <2>1. CASE e.state = "completed"
    <3>1. e.outcome \in Results
      BY <2>1 DEF TypeOK, HostTypeOK
    <3> QED BY <1>1, <1>3, <2>1, <3>1, PhaseCases, PhaseCasesNext DEF PhaseFacts, Results
  <2>2. CASE e.state = "pending"
    <3>1. CASE \A a \in active : a.cmd # c
      BY <1>1, <1>3, <2>2, <3>1, PhaseCases, PhaseCasesNext DEF PhaseFacts
    <3>2. CASE \E a \in active : a.cmd = c
      BY <1>1, <1>3, <2>2, <3>2, PhaseCases, PhaseCasesNext DEF PhaseFacts
    <3> QED BY <3>1, <3>2
  <2> QED BY <2>1, <2>2 DEF TypeOK, HostTypeOK
<1> QED BY <1>2, <1>3

(* Every other step leaves every command where it is.                      *)
HostActs == HostClaims \/ HostCrashes
              \/ \E a \in active : HostFinishes(a) \/ \E o \in Results : HostRuns(a, o)

LEMMA OthersLeavePhase ==
  ASSUME [Next]_vars, ~HostActs
  PROVE  UNCHANGED <<table, active>>
  BY DEF HostActs, Next, HubSteps, HostSteps, Environment, vars, hostVars, HubHello, HubResult,
         HubCloses, HostSeesClose, HostLosesLink, HostDrops, HostWelcome, HostRecognises,
         AskConflicting, AskSettled, AskAgain, AskTaken, AskRouted, AskOffline, TabCloses,
         TabTimesOut, RemoveMember, HostConnects, HubRestarts

(* An outcome that is decided is never revised.                            *)
LEMMA FinalStays ==
  ASSUME TypeOK, ClaimInv, OutcomeInv, TypeOK', ClaimInv', [Next]_vars,
         NEW c \in Commands, Phase(c) \in Final
  PROVE  Phase(c)' = Phase(c)
<1>1. CASE HostClaims
  <2>1. Phase(c) # "new"
    BY DEF Final, Results
  <2> QED BY <1>1, <2>1, ClaimsPhase
<1>2. ASSUME NEW a \in active, NEW o \in Results, HostRuns(a, o) PROVE Phase(c)' = Phase(c)
  <2>1. Phase(c) # "claimed"
    BY DEF Final, Results
  <2> QED BY <1>2, <2>1, RunsPhase
<1>3. ASSUME NEW a \in active, HostFinishes(a) PROVE Phase(c)' = Phase(c)
  <2>1. Phase(c) # "acted"
    BY DEF Final, Results
  <2> QED BY <1>3, <2>1, FinishesPhase
<1>4. CASE HostCrashes
  <2>1. Phase(c) \notin {"claimed", "acted"}
    BY DEF Final, Results
  <2> QED BY <1>4, <2>1, CrashesPhase
<1>5. CASE ~HostActs
  BY <1>5, OthersLeavePhase, PhaseUnchanged
<1> QED BY <1>1, <1>2, <1>3, <1>4, <1>5 DEF HostActs

LEMMA TrueStays ==
  ASSUME TypeOK, ClaimInv, OutcomeInv, TypeOK', ClaimInv', [Next]_vars,
         NEW i, NEW o, TrueOf(i, o)
  PROVE  TrueOf(i, o)'
  BY FinalStays DEF TrueOf

(* A reply is all that is added to what is under way.                      *)
LEMMA ReplyUnderWay ==
  ASSUME TypeOK, NEW m \in ResultMsgs, Reply(m)
  PROVE  UnderWay' \subseteq UnderWay \cup {m}
<1>1. CASE UNCHANGED <<queue, up>>
  BY <1>1 DEF UnderWay
<1>2. CASE queue' = Append(queue, m) /\ UNCHANGED up
  <2>1. ASSUME NEW i \in 1 .. Len(queue') PROVE queue'[i] = m \/ (i \in 1 .. Len(queue) /\ queue'[i] = queue[i])
    BY <1>2, <2>1 DEF TypeOK, HostTypeOK
  <2> QED BY <1>2, <2>1 DEF UnderWay
<1>3. CASE UNCHANGED queue /\ hostConn \in Conns /\ up' = [up EXCEPT ![hostConn] = Append(@, m)]
  <2>1. ASSUME NEW n \in Conns, NEW i \in 1 .. Len(up'[n])
        PROVE  up'[n][i] = m \/ (i \in 1 .. Len(up[n]) /\ up'[n][i] = up[n][i])
    BY <1>3, <2>1 DEF TypeOK, LinkTypeOK
  <2> QED BY <1>3, <2>1 DEF UnderWay
<1> QED BY <1>1, <1>2, <1>3 DEF Reply, TypeOK, HostTypeOK

(* A welcome moves the buffer onto the wire.                               *)
LEMMA WelcomeUnderWay ==
  ASSUME TypeOK, HostWelcome
  PROVE  UnderWay' \subseteq UnderWay
<1>1. queue' = <<>> /\ up' = IF hostConn \in hubConns THEN [up EXCEPT ![hostConn] = @ \o queue] ELSE up
  BY DEF HostWelcome
<1>2. ASSUME NEW n \in Conns, NEW i \in 1 .. Len(up'[n])
      PROVE  \/ i \in 1 .. Len(up[n]) /\ up'[n][i] = up[n][i]
             \/ \E j \in 1 .. Len(queue) : up'[n][i] = queue[j]
  <2>1. up[n] \in Seq(UpMsgs) /\ queue \in Seq(ResultMsgs)
    BY DEF TypeOK, LinkTypeOK, HostTypeOK
  <2>2. CASE up'[n] = up[n]
    BY <1>2, <2>2
  <2>3. CASE up'[n] = up[n] \o queue
    <3>1. CASE i \in 1 .. Len(up[n])
      BY <2>1, <2>3, <3>1
    <3>2. CASE i \notin 1 .. Len(up[n])
      <4>1. i - Len(up[n]) \in 1 .. Len(queue) /\ up'[n][i] = queue[i - Len(up[n])]
        BY <1>2, <2>1, <2>3, <3>2
      <4> QED BY <4>1
    <3> QED BY <3>1, <3>2
  <2> QED BY <1>1, <2>2, <2>3 DEF TypeOK, LinkTypeOK
<1> QED BY <1>1, <1>2 DEF UnderWay

(* Otherwise the wire and the buffer only lose replies.                    *)
LEMMA LessUnderWay ==
  ASSUME TypeOK, queue' \in {queue, <<>>},
         \A n \in Conns : \/ up'[n] \in {up[n], <<>>, <<Hello>>}
                          \/ up[n] # <<>> /\ up'[n] = Tail(up[n])
  PROVE  UnderWay' \subseteq UnderWay
<1>1. ASSUME NEW n \in Conns, NEW i \in 1 .. Len(up'[n])
      PROVE  up'[n][i] = Hello \/ \E j \in 1 .. Len(up[n]) : up'[n][i] = up[n][j]
  <2>1. up[n] \in Seq(UpMsgs)
    BY DEF TypeOK, LinkTypeOK
  <2>2. CASE up[n] # <<>> /\ up'[n] = Tail(up[n])
    <3>1. i + 1 \in 1 .. Len(up[n]) /\ up'[n][i] = up[n][i + 1]
      BY <1>1, <2>1, <2>2
    <3> QED BY <3>1
  <2>3. CASE up'[n] = <<>> \/ up'[n] = <<Hello>>
    BY <1>1, <2>3
  <2> QED BY <1>1, <2>2, <2>3
<1>2. Hello \notin ResultMsgs
  BY DEF Hello, ResultMsgs
<1>3. ASSUME NEW i \in 1 .. Len(queue') PROVE i \in 1 .. Len(queue) /\ queue'[i] = queue[i]
  BY <1>3
<1> QED BY <1>1, <1>2, <1>3 DEF UnderWay

(* Settling writes down in the log what the host said.                     *)
LEMMA SettleStaysTrue ==
  ASSUME TypeOK, NEW ps \in SUBSET pending, NEW o, Settle(ps, o),
         \A p \in ps : TrueOf(p.cmd.id, o)',
         \A e \in log : e.state = "done" => TrueOf(e.cmd.id, e.outcome)'
  PROVE  \A e \in log' : e.state = "done" => TrueOf(e.cmd.id, e.outcome)'
<1>1. log' = {SettledEntry(e, ps, o) : e \in log}
  BY DEF Settle, SettledEntry
<1>2. ASSUME NEW e \in log, SettledEntry(e, ps, o).state = "done"
      PROVE  TrueOf(SettledEntry(e, ps, o).cmd.id, SettledEntry(e, ps, o).outcome)'
  <2>1. CASE \E p \in ps : p.cmd = e.cmd
    BY <2>1 DEF SettledEntry, TypeOK, HubTypeOK
  <2>2. CASE ~\E p \in ps : p.cmd = e.cmd
    BY <1>2, <2>2 DEF SettledEntry
  <2> QED BY <2>1, <2>2
<1> QED BY <1>1, <1>2

(* What the hub reads of a greeted connection is a result, and a true one. *)
LEMMA ResultIsTrue ==
  ASSUME TypeOK, OutcomeInv, NEW n \in Conns, HubResult(n)
  PROVE  Head(up[n]) \in ResultMsgs /\ TrueOf(Head(up[n]).id, Head(up[n]).outcome)
<1>1. 1 \in DOMAIN up[n] /\ 1 \in 1 .. Len(up[n]) /\ Head(up[n]) = up[n][1] /\ up[n][1] \in UpMsgs
  BY DEF HubResult, TypeOK, LinkTypeOK
<1>2. up[n][1] # Hello
  BY <1>1 DEF HubResult, Greeted
<1> QED BY <1>1, <1>2 DEF UpMsgs, OutcomeInv, UnderWay

(* What the host answers for an id its table holds is true of the id.      *)
LEMMA AnswerIsTrue ==
  ASSUME NoIdReused, TypeOK, ClaimInv, NEW c \in Commands, NEW e \in table, e.cmd.id = c.id
  PROVE  TrueOf(c.id, HostAnswer(e, c))
<1>1. e.cmd = c /\ \A d \in Commands : d.id = c.id => d = c
  BY DEF NoIdReused, TypeOK, HostTypeOK
<1>2. CASE e.state = "completed"
  BY <1>1, <1>2, PhaseCases DEF HostAnswer, TrueOf, PhaseFacts
<1>3. CASE e.state = "pending" /\ Running(c.id)
  <2>1. HostAnswer(e, c) = "running"
    BY <1>1, <1>3 DEF HostAnswer
  <2> QED BY <2>1 DEF TrueOf, Final, Results
<1>4. CASE e.state = "pending" /\ ~Running(c.id)
  <2>1. HostAnswer(e, c) = "uncertain" /\ \A a \in active : a.cmd # c
    BY <1>1, <1>4 DEF HostAnswer, Running
  <2> QED BY <1>1, <1>4, <2>1, PhaseCases DEF TrueOf, PhaseFacts
<1> QED BY <1>2, <1>3, <1>4 DEF TypeOK, HostTypeOK

LEMMA OutcomeStep ==
  ASSUME NoIdReused, TypeOK, ClaimInv, OutcomeInv, TypeOK', ClaimInv', [Next]_vars
  PROVE  OutcomeInv'
<1>0. /\ \A e \in log : e.state = "done" => TrueOf(e.cmd.id, e.outcome)'
      /\ \A m \in UnderWay : TrueOf(m.id, m.outcome)'
  BY TrueStays DEF OutcomeInv
<1>1. \A a \in active' : \E e \in table' : e.cmd = a.cmd /\ e.state = "pending"
  <2>1. CASE HostClaims
    <3> DEFINE c == Head(Incoming).cmd
               new == [cmd |-> c, state |-> "pending", outcome |-> "none"]
               job == [cmd |-> c, outcome |-> "none"]
    <3>1. table' = table \cup {new} /\ active' = active \cup {job}
      BY <2>1 DEF HostClaims
    <3>2. new.cmd = c /\ new.state = "pending" /\ job.cmd = c
      OBVIOUS
    <3> HIDE DEF c, new, job
    <3> QED BY <3>1, <3>2 DEF OutcomeInv
  <2>2. ASSUME NEW a \in active, NEW o \in Results, HostRuns(a, o)
        PROVE  \A x \in active' : \E e \in table' : e.cmd = x.cmd /\ e.state = "pending"
    <3> DEFINE b == [a EXCEPT !.outcome = o]
    <3>1. table' = table /\ active' = (active \ {a}) \cup {b}
      BY <2>2 DEF HostRuns
    <3>2. b.cmd = a.cmd
      BY DEF TypeOK, HostTypeOK
    <3> HIDE DEF b
    <3> QED BY <3>1, <3>2 DEF OutcomeInv
  <2>3. ASSUME NEW a \in active, HostFinishes(a), NEW x \in active'
        PROVE  \E e \in table' : e.cmd = x.cmd /\ e.state = "pending"
    <3>1. x \in active /\ x # a
      BY <2>3 DEF HostFinishes
    <3>2. x.cmd # a.cmd
      BY <3>1 DEF ClaimInv
    <3>3. PICK e \in table : e.cmd = x.cmd /\ e.state = "pending"
      BY <3>1 DEF OutcomeInv
    <3>4. table' = {Completed(d, a) : d \in table} /\ Completed(e, a) = e
      BY <2>3, <3>2, <3>3, FinishedTable DEF Completed
    <3>5. e \in table'
      BY <3>3, <3>4
    <3> QED BY <3>3, <3>5
  <2>4. CASE HostCrashes
    BY <2>4 DEF HostCrashes
  <2>5. CASE ~HostActs
    BY <2>5, OthersLeavePhase DEF OutcomeInv
  <2> QED BY <2>1, <2>2, <2>3, <2>4, <2>5 DEF HostActs
<1>2. \A e \in log' : e.state = "done" => TrueOf(e.cmd.id, e.outcome)'
  <2>1. ASSUME NEW n \in Conns, HubCloses(n)
        PROVE  \A e \in log' : e.state = "done" => TrueOf(e.cmd.id, e.outcome)'
    <3> DEFINE ps == {p \in pending : p.conn = n}
    <3>1. ps \in SUBSET pending /\ Settle(ps, "lost")
      BY <2>1 DEF HubCloses
    <3>2. \A i : TrueOf(i, "lost")'
      BY DEF TrueOf, Final, Results
    <3> HIDE DEF ps
    <3> QED BY <1>0, <3>1, <3>2, SettleStaysTrue
  <2>2. ASSUME NEW n \in Conns, HubResult(n)
        PROVE  \A e \in log' : e.state = "done" => TrueOf(e.cmd.id, e.outcome)'
    <3>1. PICK m \in ResultMsgs : m = Head(up[n])
      BY <2>2, ResultIsTrue
    <3> DEFINE ps == {p \in pending : p.cmd.id = m.id}
    <3>2. Settle(ps, m.outcome) \/ UNCHANGED log
      BY <2>2, <3>1 DEF HubResult
    <3>3. ps \in SUBSET pending /\ \A p \in ps : p.cmd.id = m.id
      OBVIOUS
    <3>4. TrueOf(m.id, m.outcome)'
      BY <2>2, <3>1, ResultIsTrue, TrueStays
    <3> HIDE DEF ps
    <3> QED BY <1>0, <3>2, <3>3, <3>4, SettleStaysTrue
  <2>3. ASSUME NEW t \in Tabs, NEW c \in Commands, AskRouted(t, c) \/ AskOffline(t, c)
        PROVE  \A e \in log' : e.state = "done" => TrueOf(e.cmd.id, e.outcome)'
    <3>1. log' \subseteq log \cup {NewEntry(c)}
      BY <2>3, PrunedKeepsPending DEF AskRouted, AskOffline
    <3>2. NewEntry(c).state # "done"
      BY DEF NewEntry
    <3> QED BY <1>0, <3>1, <3>2
  <2>4. CASE log' \subseteq log
    BY <1>0, <2>4
  <2>5. HostSteps \/ UNCHANGED vars => log' = log
    BY DEF HostSteps, vars, hubVars, HostSeesClose, HostDrops, HostWelcome, HostRecognises,
           HostClaims, HostFinishes, HostRuns
  <2>6. ASSUME NEW t \in Tabs, NEW c \in Commands,
               AskConflicting(t, c) \/ AskSettled(t, c) \/ AskAgain(t, c) \/ AskTaken(t, c)
        PROVE  log' = log
    BY <2>6 DEF hubVars, AskConflicting, AskSettled, AskAgain, AskTaken
  <2>7. ASSUME NEW t \in Tabs, TabCloses(t) \/ TabTimesOut(t) PROVE log' = log
    BY <2>7 DEF hubVars, TabCloses, TabTimesOut
  <2>8. (\E n \in Conns : HubHello(n)) \/ (\E u \in Users : RemoveMember(u)) \/ HostConnects
          \/ HostLosesLink \/ HostCrashes \/ HubRestarts => log' \subseteq log
    BY DEF hubVars, HubHello, RemoveMember, HostConnects, HostLosesLink, HostDrops, HostCrashes,
           HubRestarts
  <2> QED BY <2>1, <2>2, <2>3, <2>4, <2>5, <2>6, <2>7, <2>8 DEF Next, HubSteps, Environment
<1>3. \A m \in UnderWay' : TrueOf(m.id, m.outcome)'
  <2>1. CASE HostRecognises
    <3>1. PICK c \in Commands : c = Head(Incoming).cmd
      BY <2>1, IncomingIsACommand DEF HostRecognises
    <3>2. PICK e \in table : e.cmd.id = c.id /\ Reply(Result(c.id, HostAnswer(e, c)))
      BY <2>1, <3>1 DEF HostRecognises
    <3>3. PICK o \in HostAnswers : o = HostAnswer(e, c)
      BY DEF HostAnswer, HostAnswers, TypeOK, HostTypeOK
    <3>4. TrueOf(c.id, o)'
      BY <3>2, <3>3, AnswerIsTrue, TrueStays
    <3>5. PICK m \in ResultMsgs : m = Result(c.id, o)
      BY DEF Result, ResultMsgs
    <3>6. m.id = c.id /\ m.outcome = o
      BY <3>5 DEF Result
    <3> QED BY <1>0, <3>2, <3>3, <3>4, <3>5, <3>6, ReplyUnderWay
  <2>2. ASSUME NEW a \in active, HostFinishes(a) PROVE \A m \in UnderWay' : TrueOf(m.id, m.outcome)'
    <3>1. a.cmd \in Commands /\ a.outcome \in Results /\ Phase(a.cmd)' = a.outcome
      BY <2>2, FinishesPhase
    <3>2. TrueOf(a.cmd.id, a.outcome)'
      BY <3>1 DEF TrueOf, NoIdReused
    <3>3. PICK m \in ResultMsgs : m = Result(a.cmd.id, a.outcome)
      BY <3>1 DEF Result, ResultMsgs, HostAnswers
    <3>4. m.id = a.cmd.id /\ m.outcome = a.outcome /\ Reply(m)
      BY <2>2, <3>3 DEF Result, HostFinishes
    <3> QED BY <1>0, <3>2, <3>4, ReplyUnderWay
  <2>3. CASE UnderWay' \subseteq UnderWay
    BY <1>0, <2>3
  <2>4. CASE HostWelcome
    BY <2>3, <2>4, WelcomeUnderWay
  <2>5. ASSUME NEW n \in Conns, HubHello(n) \/ HubResult(n) \/ HubCloses(n)
        PROVE  UnderWay' \subseteq UnderWay
    <3>1. up \in [Conns -> Seq(UpMsgs)] /\ queue' = queue
      BY <2>5 DEF HubHello, HubResult, HubCloses, hostVars, TypeOK, LinkTypeOK
    <3>2. CASE up[n] # <<>> /\ up' = [up EXCEPT ![n] = Tail(@)]
      BY <3>1, <3>2, LessUnderWay
    <3>3. CASE up' = [up EXCEPT ![n] = <<>>]
      BY <3>1, <3>3, LessUnderWay
    <3>4. HubHello(n) => up[n] # <<>>
      BY <3>1 DEF HubHello, Greeted
    <3> QED BY <2>5, <3>2, <3>3, <3>4 DEF HubHello, HubResult, HubCloses
  <2>6. HostConnects \/ HubRestarts => UnderWay' \subseteq UnderWay
    BY LessUnderWay DEF HostConnects, HubRestarts, hostVars, TypeOK, LinkTypeOK
  <2>7. UNCHANGED up /\ queue' \in {queue, <<>>} => UnderWay' \subseteq UnderWay
    BY LessUnderWay
  <2>8. HostSeesClose \/ HostClaims \/ HostLosesLink \/ HostCrashes \/ UNCHANGED vars
               \/ (\E a \in active, o \in Results : HostRuns(a, o))
           => UnderWay' \subseteq UnderWay
    BY <2>7 DEF HostSeesClose, HostLosesLink, HostDrops, HostClaims, HostCrashes, HostRuns, vars, hostVars,
         linkVars
  <2>9. ASSUME NEW t \in Tabs, NEW c \in Commands,
               AskConflicting(t, c) \/ AskSettled(t, c) \/ AskAgain(t, c) \/ AskTaken(t, c)
                 \/ AskRouted(t, c) \/ AskOffline(t, c)
        PROVE  UnderWay' \subseteq UnderWay
    BY <2>7, <2>9 DEF AskConflicting, AskSettled, AskAgain, AskTaken, AskRouted, AskOffline,
         hostVars, linkVars
  <2>10. (\E t \in Tabs : TabCloses(t) \/ TabTimesOut(t)) \/ (\E u \in Users : RemoveMember(u))
           => UnderWay' \subseteq UnderWay
    BY <2>7 DEF TabCloses, TabTimesOut, RemoveMember, hostVars, linkVars
  <2> QED BY <2>1, <2>2, <2>3, <2>4, <2>5, <2>6, <2>8, <2>9, <2>10
          DEF Next, HubSteps, HostSteps, Environment
<1> QED BY <1>1, <1>2, <1>3 DEF OutcomeInv

(* People are told outcomes that are true.                                 *)
LEMMA RecordedIsTrue ==
  ASSUME NEW requests \in SUBSET [tab : Tabs, cmd : Commands], NEW o,
         \A a \in requests : TrueOf(a.cmd.id, o)
  PROVE  \A a \in Recorded(requests, o) : Phase(a.cmd) = a.outcome
  BY DEF Recorded, TrueOf

LEMMA ContractTell ==
  ASSUME TypeOK, UNCHANGED <<table, active>>,
         NEW new \in SUBSET [tab : Tabs, cmd : Commands, outcome : Final],
         \A a \in new : Phase(a.cmd) = a.outcome,
         told' = told \cup new
  PROVE  Contract!Tell
<1>1. [c \in Commands |-> Phase(c)]' = [c \in Commands |-> Phase(c)]
  BY PhaseUnchanged
<1>2. \A a \in new : [c \in Commands |-> Phase(c)][a.cmd] = a.outcome
  OBVIOUS
<1>3. Final = Contract!Final
  BY DEF Final, Results, Contract!Final
<1> QED BY <1>1, <1>2, <1>3 DEF Contract!Tell

(* An answer given at once, and the answers a settlement gives.            *)
LEMMA TellNowKeeps ==
  ASSUME TypeOK, UNCHANGED <<table, active>>, NEW t \in Tabs, NEW c \in Commands, NEW o,
         TellNow(t, c, o), TrueOf(c.id, o)
  PROVE  Contract!Tell
<1> DEFINE new == Recorded({[tab |-> t, cmd |-> c]}, o)
<1>1. {[tab |-> t, cmd |-> c]} \in SUBSET [tab : Tabs, cmd : Commands]
  OBVIOUS
<1>2. new \in SUBSET [tab : Tabs, cmd : Commands, outcome : Final]
  BY <1>1, RecordedType
<1>3. \A a \in new : Phase(a.cmd) = a.outcome
  BY <1>1, RecordedIsTrue
<1>4. told' = told \cup new
  BY DEF TellNow
<1> HIDE DEF new
<1> QED BY <1>2, <1>3, <1>4, ContractTell

LEMMA SettleKeeps ==
  ASSUME TypeOK, UNCHANGED <<table, active>>, NEW ps, NEW o, Settle(ps, o),
         \A a \in AnsweredBy(ps) : TrueOf(a.cmd.id, o)
  PROVE  Contract!Tell
<1> DEFINE new == Recorded(AnsweredBy(ps), o)
<1>1. AnsweredBy(ps) \in SUBSET [tab : Tabs, cmd : Commands]
  BY DEF AnsweredBy, TypeOK, ClientTypeOK
<1>2. new \in SUBSET [tab : Tabs, cmd : Commands, outcome : Final]
  BY <1>1, RecordedType
<1>3. \A a \in new : Phase(a.cmd) = a.outcome
  BY <1>1, RecordedIsTrue
<1>4. told' = told \cup new
  BY DEF Settle
<1> HIDE DEF new
<1> QED BY <1>2, <1>3, <1>4, ContractTell

LEMMA ContractStep ==
  ASSUME NoIdReused, TypeOK, ClaimInv, OutcomeInv, TypeOK', ClaimInv', [Next]_vars
  PROVE  [Contract!Next]_(Contract!vars)
<1> DEFINE P == [c \in Commands |-> Phase(c)]
<1> USE DEF Contract!Next, Contract!vars
<1>1. CASE HostClaims
  <2>1. PICK c \in Commands : c = Head(Incoming).cmd
    BY <1>1, IncomingIsACommand DEF HostClaims
  <2>2. /\ Phase(c)' = "claimed" /\ \A d \in Commands : d.id = c.id => Phase(d) = "new"
        /\ \A d \in Commands : d # c => Phase(d)' = Phase(d)
    BY <1>1, <2>1, ClaimsPhase
  <2>3. P' = [P EXCEPT ![c] = "claimed"]
    BY <2>2
  <2>4. UNCHANGED told
    BY <1>1 DEF HostClaims
  <2>5. Contract!Claim(c)
    BY <2>2, <2>3, <2>4 DEF Contract!Claim
  <2> QED BY <2>5
<1>2. ASSUME NEW a \in active, NEW o \in Results, HostRuns(a, o) PROVE \E c \in Commands : Contract!Act(c)
  <2>1. /\ a.cmd \in Commands /\ Phase(a.cmd) = "claimed" /\ Phase(a.cmd)' = "acted"
        /\ \A d \in Commands : d # a.cmd => Phase(d)' = Phase(d)
    BY <1>2, RunsPhase
  <2>2. P' = [P EXCEPT ![a.cmd] = "acted"]
    BY <2>1
  <2>3. UNCHANGED told
    BY <1>2 DEF HostRuns
  <2> QED BY <2>1, <2>2, <2>3 DEF Contract!Act
<1>3. ASSUME NEW a \in active, HostFinishes(a) PROVE \E c \in Commands : Contract!Finish(c)
  <2>1. /\ a.cmd \in Commands /\ a.outcome \in Results
        /\ Phase(a.cmd) = "acted" /\ Phase(a.cmd)' = a.outcome
        /\ \A d \in Commands : d # a.cmd => Phase(d)' = Phase(d)
    BY <1>3, FinishesPhase
  <2>2. P' = [P EXCEPT ![a.cmd] = a.outcome]
    BY <2>1
  <2>3. UNCHANGED told
    BY <1>3 DEF HostFinishes
  <2> QED BY <2>1, <2>2, <2>3 DEF Contract!Finish, Results
<1>4. CASE HostCrashes
  <2>1. \A c \in Commands : Phase(c)' = IF Phase(c) \in {"claimed", "acted"} THEN "uncertain" ELSE Phase(c)
    BY <1>4, CrashesPhase
  <2>2. UNCHANGED told
    BY <1>4 DEF HostCrashes
  <2> QED BY <2>1, <2>2 DEF Contract!Abandon
<1>5. CASE UNCHANGED <<table, active, told>>
  <2>1. P' = P
    BY <1>5, PhaseUnchanged
  <2> QED BY <1>5, <2>1
<1>6. ASSUME NEW n \in Conns, HubCloses(n) PROVE Contract!Tell
  <2>1. PICK ps : Settle(ps, "lost")
    BY <1>6 DEF HubCloses
  <2>2. \A i : TrueOf(i, "lost")
    BY DEF TrueOf, Final, Results
  <2> QED BY <1>6, <2>1, <2>2, SettleKeeps DEF HubCloses, hostVars
<1>7. ASSUME NEW n \in Conns, HubResult(n), ~UNCHANGED told PROVE Contract!Tell
  <2>1. PICK m \in ResultMsgs : m = Head(up[n])
    BY <1>7, ResultIsTrue
  <2> DEFINE ps == {p \in pending : p.cmd.id = m.id}
  <2>2. Settle(ps, m.outcome)
    BY <1>7, <2>1 DEF HubResult
  <2>3. TrueOf(m.id, m.outcome)
    BY <1>7, <2>1, ResultIsTrue
  <2>4. \A a \in AnsweredBy(ps) : a.cmd.id = m.id
    BY DEF AnsweredBy
  <2> HIDE DEF ps
  <2> QED BY <1>7, <2>2, <2>3, <2>4, SettleKeeps DEF HubResult, hostVars
<1>8. ASSUME NEW t \in Tabs, NEW c \in Commands, AskSettled(t, c) PROVE Contract!Tell
  <2>1. PICK e \in log : e.cmd = c /\ e.state = "done" /\ TellNow(t, c, e.outcome)
    BY <1>8 DEF AskSettled, Prior
  <2> QED BY <1>8, <2>1, TellNowKeeps DEF AskSettled, hostVars, OutcomeInv
<1>9. ASSUME NEW t \in Tabs, NEW c \in Commands, AskTaken(t, c) \/ AskOffline(t, c)
      PROVE  UNCHANGED <<table, active, told>>
  BY <1>9 DEF AskTaken, AskOffline, TellNow, Recorded, Final, Results, hostVars
<1>10. ASSUME NEW t \in Tabs, NEW c \in Commands, AskConflicting(t, c)
       PROVE  UNCHANGED <<table, active, told>>
  BY <1>10 DEF AskConflicting, TellNow, Recorded, Final, Results, hostVars
<1>11. ASSUME NEW t \in Tabs, NEW c \in Commands, AskAgain(t, c) \/ AskRouted(t, c)
       PROVE  UNCHANGED <<table, active, told>>
  BY <1>11 DEF AskAgain, AskRouted, hostVars
<1>12. ASSUME NEW n \in Conns, HubHello(n) PROVE UNCHANGED <<table, active, told>>
  BY <1>12 DEF HubHello, hostVars
<1>13. ASSUME NEW n \in Conns, HubResult(n) PROVE UNCHANGED <<table, active>>
  BY <1>13 DEF HubResult, hostVars
<1>14. HostSeesClose \/ HostWelcome \/ HostRecognises \/ HostConnects \/ HostLosesLink
         \/ HubRestarts \/ UNCHANGED vars => UNCHANGED <<table, active, told>>
  BY DEF HostSeesClose, HostDrops, HostWelcome, HostRecognises, HostConnects, HostLosesLink,
         HubRestarts, vars, hostVars
<1>15. ASSUME NEW t \in Tabs, TabCloses(t) \/ TabTimesOut(t) PROVE UNCHANGED <<table, active, told>>
  BY <1>15 DEF TabCloses, TabTimesOut, hostVars
<1>16. ASSUME NEW u \in Users, RemoveMember(u) PROVE UNCHANGED <<table, active, told>>
  BY <1>16 DEF RemoveMember, hostVars
<1> HIDE DEF P
<1> QED
  BY <1>1, <1>2, <1>3, <1>4, <1>5, <1>6, <1>7, <1>8, <1>9, <1>10, <1>11, <1>12, <1>13, <1>14,
     <1>15, <1>16 DEF Next, HubSteps, HostSteps, Environment

(* Hub, link and host together implement the contract, whatever crashes,   *)
(* is lost or is retried, as long as an id names one command.              *)
THEOREM ContractKept ==
  ASSUME NoIdReused
  PROVE  Spec => KeepsContract
<1>1. Init => ClaimInv /\ OutcomeInv
  BY DEF Init, ClaimInv, OutcomeInv, UnderWay
<1>2. Init => Contract!Init
  BY DEF Init, Contract!Init, Phase
<1>3. TypeOK /\ ClaimInv /\ OutcomeInv /\ (TypeOK /\ ClaimInv)' /\ [Next]_vars => OutcomeInv'
  BY OutcomeStep
<1>4. TypeOK /\ ClaimInv /\ OutcomeInv /\ (TypeOK /\ ClaimInv)' /\ [Next]_vars
        => [Contract!Next]_(Contract!vars)
  BY ContractStep
<1> QED
  BY <1>1, <1>2, <1>3, <1>4, TypeCorrect, ClaimStep, PTL DEF Spec, KeepsContract, Contract!Spec
=============================================================================
