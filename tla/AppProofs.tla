------------------------------ MODULE AppProofs -------------------------------
(***************************************************************************)
(* Proofs about AgentApp for any number of threads, turns, steers, windows *)
(* and messages on their way: one lemma per action, from the invariant     *)
(* that AgentProofs states; and the shapes of what runs on one machine.    *)
(***************************************************************************)
EXTENDS AgentProofs

-----------------------------------------------------------------------------
(* AgentApp: the actions, and what the window tells.                       *)

(* A step that tells nothing.                                              *)
LEMMA KeptNothing ==
  ASSUME rows \in [AppThreads -> RowRecs], NEW t \in AppThreads
  PROVE  Kept(rows, t, {}) = rows
<1>1. CASE rows[t].state = "here"
  <2>1. PICK r : r = Kept(rows, t, {})
    OBVIOUS
  <2>2. /\ r \in [AppThreads -> RowRecs]
        /\ \A u \in AppThreads : r[u].state = rows[u].state /\ (u # t => r[u] = rows[u])
        /\ r[t].items = rows[t].items
    <3>1. PICK none : none = {}
      OBVIOUS
    <3>2. none \in SUBSET Items /\ r = Kept(rows, t, none)
      BY <2>1, <3>1
    <3>3. /\ r \in [AppThreads -> RowRecs]
          /\ \A u \in AppThreads : r[u].state = rows[u].state /\ (u # t => r[u] = rows[u])
          /\ r[t].items = rows[t].items \cup none
      BY <1>1, <3>2, RowKept
    <3> QED BY <3>1, <3>3
  <2>3. PICK s : s = rows[t].items \cup {}
    OBVIOUS
  <2>4. r = [rows EXCEPT ![t].items = s]
    BY <1>1, <2>1, <2>3 DEF Kept
  <2>5. s = rows[t].items
    BY <2>3
  <2>6. PICK row : row = rows[t]
    OBVIOUS
  <2>7. row = [state |-> row.state, tree |-> row.tree, dir |-> row.dir, items |-> row.items]
    BY <2>6 DEF RowRecs
  <2>8. r = [u \in AppThreads |-> IF u = t THEN [row EXCEPT !.items = s] ELSE rows[u]]
    BY <2>4, <2>6
  <2>9. [row EXCEPT !.items = s] = row
    BY <2>5, <2>6, <2>7
  <2> QED BY <2>1, <2>6, <2>8, <2>9
<1>2. CASE rows[t].state # "here"
  BY <1>2 DEF Kept
<1> QED BY <1>1, <1>2

LEMMA QuietInv ==
  ASSUME NEW w, NEW p, AppInvAt(w, p), w = wire, NEW k \in RunIds, Goes(k), NEW run, runs' = [runs EXCEPT ![k] = run],
         RunGoesOn(w, p, k, run, {}), run.pc # "over", UNCHANGED <<rows, wire, sessions, checkout, making, deleting, job>>,
         NEW q, page' = q, PageGrown(p, q, {})
  PROVE  AppInv'
<1>1. runs[k].on \in AppThreads /\ rows \in [AppThreads -> RowRecs] /\ w \in Seq(Msgs) /\ Len(w) <= MaxWire /\ Len(w) \in Nat
  BY AppNow DEF RunsInv
<1>2. MovedTo(k, run, {})
  BY <1>1, KeptNothing DEF MovedTo
<1>3. PICK e : e = <<>>
  OBVIOUS
<1>4. e \in Seq(Msgs) /\ Len(e) = 0 /\ 1 .. Len(e) = {} /\ w \o e = w
  BY <1>1, <1>3
<1>5. ToldOf(k, run, {}, e)
  BY <1>4 DEF ToldOf, Events
<1>6. SeenOf(w, p, k, {}, e, {})
  BY DEF SeenOf
<1>7. Tell(w, p, e) /\ Len(w) + Len(e) <= MaxWire
  BY <1>1, <1>4 DEF Tell
<1> QED BY <1>2, <1>5, <1>6, <1>7, RunMoved

(* A step that asks.                                                       *)
LEMMA AsksInvMade ==
  ASSUME NEW w, NEW p, AppInvAt(w, p), w = wire, p.pc = page.pc, NEW k \in RunIds, Goes(k), NEW run, runs' = [runs EXCEPT ![k] = run],
         RunGoesOn(w, p, k, run, {}), run.pc = "asking", NEW thing \in Items, thing.run = k, thing.n = run.n, runs[k].n < run.n,
         Len(w) + 1 <= MaxWire, NEW e, e = <<Msg("ask", runs[k].on, thing, {})>>, wire' = Told(wire, e),
         UNCHANGED <<rows, sessions, checkout, making, deleting, job>>, NEW q, page' = q, PageGrown(p, q, {})
  PROVE  AppInv'
<1>1. runs[k].on \in AppThreads /\ rows \in [AppThreads -> RowRecs]
  BY AppNow DEF RunsInv
<1>2. MovedTo(k, run, {})
  BY <1>1, KeptNothing DEF MovedTo
<1>3. PICK m : m = Msg("ask", runs[k].on, thing, {})
  OBVIOUS
<1>4. m \in Msgs /\ m.kind = "ask" /\ m.on = runs[k].on /\ m.item = thing
  <2>1. "ask" \in MsgKinds /\ runs[k].on \in Threads /\ thing \in Items \cup {NoItem} /\ {} \in SUBSET (AppThreads \cup Items)
    BY <1>1 DEF MsgKinds, Threads
  <2>2. m \in Msgs
    BY <1>3, <2>1, MsgMade
  <2> QED BY <1>3, <2>2 DEF Msg
<1>5. e \in Seq(Msgs) /\ Len(e) = 1 /\ \A h \in 1 .. Len(e) : e[h] = m
  BY <1>3, <1>4
<1>6. Events(e)
  BY <1>1, <1>4, <1>5 DEF Events, EventKinds
<1>7. ToldOf(k, run, {}, e)
  BY <1>4, <1>5, <1>6 DEF ToldOf
<1>8. SeenOf(w, p, k, {}, e, {})
  BY DEF SeenOf
<1>9. Tell(w, p, e) /\ Len(w) + Len(e) <= MaxWire
  BY <1>5 DEF Tell, Told
<1> QED BY <1>2, <1>7, <1>8, <1>9, RunMoved

(* The end of a turn.                                                      *)
OverAs(run) == run = [NoRun EXCEPT !.pc = "over"]
LEMMA OverIs ==
  ASSUME NEW run, OverAs(run)
  PROVE  run \in RunRecs /\ run.pc = "over" /\ run.plan = NoItem
<1>1. PICK r : r = NoRun
  OBVIOUS
<1>2. r \in RunRecs /\ r.plan = NoItem
  BY <1>1, NoRunIs
<1>3. run = [r EXCEPT !.pc = "over"]
  BY <1>1 DEF OverAs
<1>4. run = [on |-> r.on, demo |-> r.demo, mode |-> r.mode, pc |-> "over", calls |-> r.calls, steers |-> r.steers, said |-> r.said,
             stopped |-> r.stopped, round |-> r.round, n |-> r.n, plan |-> r.plan]
  BY <1>2, <1>3, RunIs
<1>5. run \in RunRecs
  <2>1. "over" \in AlivePcs \cup {"none", "over"}
    OBVIOUS
  <2>2. /\ r.on \in Threads /\ r.demo \in BOOLEAN /\ r.mode \in Modes \cup {"agent"} /\ r.calls \in Seq(Calls)
        /\ r.steers \in 0 .. MaxSteers /\ r.steers <= r.said /\ r.said \in 0 .. MaxSteers /\ r.stopped \in BOOLEAN
        /\ r.round \in 0 .. MaxAppRounds /\ r.n \in Nat /\ r.plan \in Items \cup {NoItem}
    BY <1>2, RunIs
  <2> QED BY <1>4, <2>1, <2>2 DEF RunRecs, RunShapes
<1> QED BY <1>2, <1>4, <1>5

LEMMA FinishesInv ==
  ASSUME AppInv, NEW k \in RunIds, Goes(k), runs[k].pc \notin {"running", "killed"}, Ends(k), UNCHANGED <<checkout, making, deleting, job, page>>
  PROVE  AppInv'
<1>1. PICK w, p : w = wire /\ p = page
  OBVIOUS
<1>2. AppInvAt(w, p)
  BY <1>1 DEF AppInv
<1>3. PICK t, run, old : t = runs[k].on /\ run = [NoRun EXCEPT !.pc = "over"] /\ old = runs[k].plan
  OBVIOUS
<1>4. t \in AppThreads /\ old \in Items \cup {NoItem} /\ OnWay(k) = {old} \ {NoItem}
  BY <1>2, <1>3, AppNow DEF RunsInv, RunRecs, RunShapes, OnWay
<1>5. run \in RunRecs /\ run.pc = "over" /\ run.plan = NoItem
  BY <1>3, OverIs DEF OverAs
<1>6. PICK plan : plan = IF old = NoItem THEN <<>> ELSE <<old>>
  OBVIOUS
<1>7. PICK those : those = ToSet(plan)
  OBVIOUS
<1>8. PICK d : d = [i \in DOMAIN plan |-> Done(k, plan[i])]
  OBVIOUS
<1>9. PICK m : m = Msg("end", t, NoItem, {})
  OBVIOUS
<1>10. PICK e : e = d \o <<m>>
  OBVIOUS
<1>11. /\ Len(wire) + (Len(plan) + 1) <= MaxWire /\ rows' = Kept(rows, t, those) /\ runs' = [runs EXCEPT ![k] = run]
       /\ sessions' = [sessions EXCEPT ![t] = 0] /\ wire' = Told(wire, e)
  BY <1>3, <1>6, <1>7, <1>8, <1>9, <1>10 DEF Ends, Room
<1>12. /\ those \subseteq Items /\ those = {old} \ {NoItem} /\ Len(plan) \in Nat /\ DOMAIN plan = 1 .. Len(plan)
       /\ \A i \in 1 .. Len(plan) : plan[i] \in those /\ plan[i] \in Items
       /\ \A x \in those : \E i \in 1 .. Len(plan) : plan[i] = x
  <2>1. CASE old = NoItem
    <3>1. plan = <<>>
      BY <1>6, <2>1
    <3>2. DOMAIN plan = {} /\ 1 .. Len(plan) = {} /\ Len(plan) \in Nat
      BY <3>1
    <3>3. those = {}
      BY <1>7, <3>2 DEF ToSet
    <3> QED BY <2>1, <3>2, <3>3
  <2>2. CASE old # NoItem
    <3>1. plan = <<old>> /\ old \in Items
      BY <1>4, <1>6, <2>2
    <3>2. DOMAIN plan = 1 .. Len(plan) /\ Len(plan) = 1 /\ 1 .. Len(plan) = {1} /\ plan[1] = old
      BY <3>1
    <3>3. those = {old}
      BY <1>7, <3>2 DEF ToSet
    <3> QED BY <2>2, <3>1, <3>2, <3>3
  <2> QED BY <2>1, <2>2
<1>13. /\ m \in Msgs /\ m.kind = "end" /\ m.on = t
  <2>1. "end" \in MsgKinds /\ t \in Threads /\ NoItem \in Items \cup {NoItem} /\ {} \in SUBSET (AppThreads \cup Items)
    BY <1>4 DEF MsgKinds, Threads
  <2>2. m \in Msgs
    BY <1>9, <2>1, MsgMade
  <2> QED BY <1>9, <2>2 DEF Msg
<1>14. ASSUME NEW x \in Items PROVE Done(k, x) \in Msgs /\ Done(k, x).kind = "item" /\ Done(k, x).on = t /\ Done(k, x).item = x
  <2>1. "item" \in MsgKinds /\ t \in Threads /\ x \in Items \cup {NoItem} /\ {} \in SUBSET (AppThreads \cup Items)
    BY <1>4, <1>14 DEF MsgKinds, Threads
  <2>2. Done(k, x) \in Msgs
    BY <1>3, <2>1, MsgMade DEF Done
  <2> QED BY <1>3, <2>2 DEF Done, Msg
<1>15. d \in Seq(Msgs) /\ Len(d) = Len(plan) /\ \A i \in 1 .. Len(plan) : d[i] = Done(k, plan[i])
  <2>1. d \in [1 .. Len(plan) -> Msgs]
    BY <1>8, <1>12, <1>14
  <2> QED BY <1>8, <1>12, <2>1, SeqDef
<1>16. PICK n : n = <<m>>
  OBVIOUS
<1>17. n \in Seq(Msgs) /\ Len(n) = 1 /\ n[1] = m
  BY <1>13, <1>16
<1>18. Extends(e, d, n)
  <2>1. Lengthened(e, d, n)
    BY <1>10, <1>16 DEF Lengthened
  <2> QED BY <1>15, <1>17, <2>1, WireLonger
<1>19. /\ e \in Seq(Msgs) /\ Len(e) = Len(plan) + 1
       /\ \A i \in 1 .. Len(plan) : i \in 1 .. Len(e) /\ e[i] = Done(k, plan[i])
       /\ \A i \in 1 .. Len(e) : i \notin 1 .. Len(plan) => e[i] = m
       /\ \E i \in 1 .. Len(e) : e[i] = m
  BY <1>15, <1>17, <1>18 DEF Extends
<1>20. \A h \in 1 .. Len(e) : /\ e[h].on = t /\ e[h].kind \in {"item", "end"}
                              /\ (e[h].kind = "item" => e[h].item \in those /\ e[h].item \in Items)
  <2> SUFFICES ASSUME NEW h \in 1 .. Len(e)
               PROVE  /\ e[h].on = t /\ e[h].kind \in {"item", "end"}
                      /\ (e[h].kind = "item" => e[h].item \in those /\ e[h].item \in Items)
    OBVIOUS
  <2>1. CASE h \in 1 .. Len(plan)
    BY <1>12, <1>14, <1>19, <2>1
  <2>2. CASE h \notin 1 .. Len(plan)
    BY <1>13, <1>19, <2>2
  <2> QED BY <2>1, <2>2
<1>21. ToldOf(k, run, those, e)
  <2>1. Events(e)
    BY <1>4, <1>19, <1>20 DEF Events, EventKinds
  <2>2. \E h \in 1 .. Len(e) : e[h].kind = "end"
    BY <1>13, <1>19
  <2> QED BY <1>3, <1>5, <1>20, <2>1, <2>2 DEF ToldOf
<1>22. SeenOf(w, p, k, those, e, {})
  <2>1. ASSUME NEW x \in those PROVE \E h \in 1 .. Len(e) : e[h].kind \in {"begun", "item"} /\ e[h].item = x
    BY <1>12, <1>14, <1>19, <2>1
  <2> QED BY <2>1 DEF SeenOf
<1>23. RunGoesOn(w, p, k, run, those)
  <2>1. NowOf(k, run) = {}
    BY <1>5 DEF NowOf
  <2> QED BY <1>4, <1>5, <1>12, <2>1 DEF RunGoesOn, CallsOK
<1>24. MovedTo(k, run, those)
  BY <1>3, <1>5, <1>11 DEF MovedTo
<1>25. Tell(w, p, e) /\ Len(w) + Len(e) <= MaxWire
  BY <1>1, <1>11, <1>19 DEF Tell, Told
<1>26. PageGrown(p, p, {}) /\ page' = p
  BY <1>1, <1>2, AppNow DEF PageGrown
<1> QED BY <1>2, <1>21, <1>22, <1>23, <1>24, <1>25, <1>26, RunMoved

(* A turn with other fields, on the thread it is on.                       *)
RunWith(r, pc, calls, steers, said, stopped, round, n, plan) ==
  [on |-> r.on, demo |-> r.demo, mode |-> r.mode, pc |-> pc, calls |-> calls, steers |-> steers, said |-> said,
   stopped |-> stopped, round |-> round, n |-> n, plan |-> plan]
LEMMA RunWithIs ==
  ASSUME NEW r \in RunRecs, NEW pc \in AlivePcs, NEW calls \in Seq(Calls), NEW steers \in 0 .. MaxSteers, NEW said \in 0 .. MaxSteers, steers <= said,
         NEW stopped \in BOOLEAN, NEW round \in 0 .. MaxAppRounds, NEW n \in Nat, NEW plan \in Items \cup {NoItem}, NEW run,
         run = RunWith(r, pc, calls, steers, said, stopped, round, n, plan)
  PROVE  /\ run \in RunRecs /\ run.on = r.on /\ run.demo = r.demo /\ run.mode = r.mode /\ run.pc = pc /\ run.calls = calls
         /\ run.steers = steers /\ run.said = said /\ run.stopped = stopped /\ run.round = round /\ run.n = n /\ run.plan = plan
<1>1. r.on \in Threads /\ r.demo \in BOOLEAN /\ r.mode \in Modes \cup {"agent"} /\ pc \in AlivePcs \cup {"none", "over"}
  BY RunIs
<1>2. run \in RunRecs
  BY <1>1 DEF RunWith, RunRecs, RunShapes
<1> QED BY <1>2 DEF RunWith

LEMMA GoesOnMade ==
  ASSUME NEW w, NEW p, NEW k \in RunIds, NEW r \in RunRecs, r = runs[k], NEW run \in RunRecs, NEW items \in SUBSET Items,
         run.on = r.on, run.pc \in AlivePcs, CallsOK(run), r.n <= run.n, r.stopped => run.stopped, run.plan = r.plan \/ r.plan = NoItem,
         r.pc = "asking" => run.stopped \/ (run.pc = "asking" /\ run.n = r.n) \/ Unasked(w, p, r.on, k),
         r.pc \in {"running", "killed"} => Item("command", k, r.n) \in items \/ (run.pc \in {"running", "killed"} /\ run.n = r.n)
  PROVE  RunGoesOn(w, p, k, run, items) /\ run.pc # "over"
<1>1. run.pc # "over" /\ run.pc \in AlivePcs \cup {"over"}
  BY DEF AlivePcs
<1>2. OnWay(k) \subseteq items \cup NowOf(k, run)
  <2>1. {r.plan} \ {NoItem} \subseteq NowOf(k, run)
    BY DEF NowOf
  <2>2. r.pc \in {"running", "killed"} => Item("command", k, r.n) \in items \cup NowOf(k, run)
    BY DEF NowOf
  <2> QED BY <2>1, <2>2 DEF OnWay
<1> QED BY <1>1, <1>2 DEF RunGoesOn

(* What a step of a turn starts from.                                      *)
LEMMA RunHere ==
  ASSUME AppInv, NEW k \in RunIds, Goes(k), NEW w, w = wire, NEW p, p = page, NEW r, r = runs[k]
  PROVE  /\ AppInvAt(w, p) /\ PageGrown(p, p, {}) /\ r \in RunRecs /\ r.on \in AppThreads /\ runs \in [RunIds -> RunRecs]
         /\ r = RunWith(r, r.pc, r.calls, r.steers, r.said, r.stopped, r.round, r.n, r.plan)
         /\ r.calls \in Seq(Calls) /\ r.steers \in 0 .. MaxSteers /\ r.steers <= r.said /\ r.said \in 0 .. MaxSteers
         /\ r.stopped \in BOOLEAN /\ r.round \in 0 .. MaxAppRounds /\ r.n \in Nat /\ r.n + 1 \in Nat /\ r.n <= r.n /\ r.n <= r.n + 1
         /\ r.n < r.n + 1 /\ r.plan \in Items \cup {NoItem}
         /\ (r.pc = "asking" => r.calls # <<>> /\ Head(r.calls) \in {"risky", "outside"})
         /\ (r.pc \in {"running", "killed"} => r.calls # <<>>)
<1>1. AppInvAt(w, p)
  BY DEF AppInv
<1>2. p \in Pages /\ r \in RunRecs /\ runs \in [RunIds -> RunRecs]
  BY <1>1, AppNow
<1>3. PageGrown(p, p, {})
  BY <1>2 DEF PageGrown
<1>4. r.on \in AppThreads /\ (r.pc = "asking" => r.calls # <<>> /\ Head(r.calls) \in {"risky", "outside"})
      /\ (r.pc \in {"running", "killed"} => r.calls # <<>>)
  BY <1>1, AppNow DEF RunsInv
<1>5. /\ r = RunWith(r, r.pc, r.calls, r.steers, r.said, r.stopped, r.round, r.n, r.plan)
      /\ r.calls \in Seq(Calls) /\ r.steers \in 0 .. MaxSteers /\ r.steers <= r.said /\ r.said \in 0 .. MaxSteers
      /\ r.stopped \in BOOLEAN /\ r.round \in 0 .. MaxAppRounds /\ r.n \in Nat /\ r.plan \in Items \cup {NoItem}
  BY <1>2, RunIs DEF RunWith
<1>6. r.n + 1 \in Nat /\ r.n <= r.n /\ r.n <= r.n + 1 /\ r.n < r.n + 1
  BY <1>5
<1> QED BY <1>1, <1>2, <1>3, <1>4, <1>5, <1>6

LEMMA RoundBeginsInv ==
  ASSUME AppInv, NEW k \in RunIds, RoundBegins(k)
  PROVE  AppInv'
<1>1. PICK w, p, r : w = wire /\ p = page /\ r = runs[k]
  OBVIOUS
<1>2. r.pc = "top" /\ Goes(k) /\ UNCHANGED <<checkout, making, deleting, job, page>>
  BY <1>1 DEF RoundBegins, Goes, AlivePcs, mainRest
<1>3. CASE Ends(k)
  BY <1>1, <1>2, <1>3, FinishesInv
<1>4. CASE /\ ~runs[k].stopped /\ runs[k].round < MaxAppRounds
           /\ runs' = [runs EXCEPT ![k].steers = 0, ![k].pc = "fetching", ![k].round = @ + 1]
           /\ UNCHANGED <<rows, sessions, wire>>
  <2>1. PICK n : n = r.round + 1
    OBVIOUS
  <2>2. PICK run : run = RunWith(r, "fetching", r.calls, 0, r.said, r.stopped, n, r.n, r.plan)
    OBVIOUS
  <2>3. runs' = [runs EXCEPT ![k] = run]
    <3>1. runs \in [RunIds -> RunRecs] /\ r = RunWith(r, r.pc, r.calls, r.steers, r.said, r.stopped, r.round, r.n, r.plan)
      BY <1>1, <1>2, RunHere
    <3>2. runs' = [runs EXCEPT ![k].steers = 0, ![k].pc = "fetching", ![k].round = n]
      BY <1>1, <1>4, <2>1
    <3>3. PICK a, b : a = [runs EXCEPT ![k].steers = 0] /\ b = [a EXCEPT ![k].pc = "fetching"]
      OBVIOUS
    <3>4. runs' = [b EXCEPT ![k].round = n]
      BY <3>2, <3>3
    <3>5. PICK x, y, z : x = [r EXCEPT !.steers = 0] /\ y = [x EXCEPT !.pc = "fetching"] /\ z = [y EXCEPT !.round = n]
      OBVIOUS
    <3>6. x = RunWith(r, r.pc, r.calls, 0, r.said, r.stopped, r.round, r.n, r.plan)
      BY <3>1, <3>5 DEF RunWith
    <3>7. y = RunWith(r, "fetching", r.calls, 0, r.said, r.stopped, r.round, r.n, r.plan)
      BY <3>5, <3>6 DEF RunWith
    <3>8. z = run
      <4>1. z = RunWith(r, "fetching", r.calls, 0, r.said, r.stopped, n, r.n, r.plan)
        BY <3>5, <3>7 DEF RunWith
      <4> QED BY <2>2, <4>1
    <3>9. a = [j \in RunIds |-> IF j = k THEN x ELSE runs[j]]
      BY <1>1, <3>1, <3>3, <3>5
    <3>10. b = [j \in RunIds |-> IF j = k THEN y ELSE runs[j]]
      BY <3>3, <3>5, <3>9
    <3>11. runs' = [j \in RunIds |-> IF j = k THEN z ELSE runs[j]]
      BY <3>4, <3>5, <3>10
    <3> QED BY <3>1, <3>8, <3>11
  <2>4. n \in 0 .. MaxAppRounds
    <3>1. r.round \in 0 .. MaxAppRounds /\ r.round < MaxAppRounds
      BY <1>1, <1>2, <1>4, RunHere
    <3> QED BY <2>1, <3>1, AppConstants
  <2>5. run \in RunRecs /\ run.on = r.on /\ run.pc = "fetching" /\ run.n = r.n /\ run.stopped = r.stopped /\ run.plan = r.plan
    <3>1. "fetching" \in AlivePcs /\ 0 \in 0 .. MaxSteers /\ 0 <= r.said
      BY <1>1, <1>2, AppConstants, RunHere DEF AlivePcs
    <3> QED BY <1>1, <1>2, <2>2, <2>4, <3>1, RunHere, RunWithIs
  <2>6. RunGoesOn(w, p, k, run, {}) /\ run.pc # "over"
    <3>1. run.pc \in AlivePcs /\ {} \in SUBSET Items
      BY <2>5 DEF AlivePcs
    <3>2. r.n <= run.n /\ CallsOK(run) /\ r \in RunRecs
      BY <1>1, <1>2, <2>5, RunHere DEF CallsOK
    <3> QED BY <1>1, <1>2, <2>5, <3>1, <3>2, GoesOnMade
  <2>7. AppInvAt(w, p) /\ PageGrown(p, p, {})
    BY <1>1, <1>2, RunHere
  <2> QED BY <1>1, <1>2, <1>4, <2>3, <2>6, <2>7, QuietInv
<1> QED BY <1>2, <1>3, <1>4 DEF RoundBegins

(* The steps of a turn that tell nothing, or of items only.                *)
LEMMA QuietStep ==
  ASSUME AppInv, NEW k \in RunIds, Goes(k), runs[k].pc \notin {"asking", "running", "killed"}, NEW pc \in AlivePcs,
         pc \notin {"asking", "running", "killed"}, runs' = [runs EXCEPT ![k].pc = pc],
         UNCHANGED <<rows, wire, sessions, checkout, making, deleting, job, page>>
  PROVE  AppInv'
<1>1. PICK w, p, r : w = wire /\ p = page /\ r = runs[k]
  OBVIOUS
<1>2. PICK run : run = [r EXCEPT !.pc = pc]
  OBVIOUS
<1>3. run = RunWith(r, pc, r.calls, r.steers, r.said, r.stopped, r.round, r.n, r.plan)
  <2>1. r = RunWith(r, r.pc, r.calls, r.steers, r.said, r.stopped, r.round, r.n, r.plan)
    BY <1>1, RunHere
  <2> QED BY <1>2, <2>1 DEF RunWith
<1>4. runs' = [runs EXCEPT ![k] = run]
  BY <1>1, <1>2
<1>5. run \in RunRecs /\ run.on = r.on /\ run.pc = pc /\ run.n = r.n /\ run.stopped = r.stopped /\ run.plan = r.plan
  BY <1>1, <1>3, RunHere, RunWithIs
<1>6. RunGoesOn(w, p, k, run, {}) /\ run.pc # "over"
  <2>1. {} \in SUBSET Items
    OBVIOUS
  <2>2. r.n <= run.n /\ CallsOK(run) /\ r \in RunRecs
    BY <1>1, <1>5, RunHere DEF CallsOK
  <2> QED BY <1>1, <1>5, <2>1, <2>2, GoesOnMade
<1>7. AppInvAt(w, p) /\ PageGrown(p, p, {})
  BY <1>1, RunHere
<1> QED BY <1>1, <1>4, <1>6, <1>7, QuietInv

LEMMA RequestFailsInv ==
  ASSUME AppInv, NEW k \in RunIds, RequestFails(k)
  PROVE  AppInv'
<1>1. Ends(k) /\ UNCHANGED <<checkout, making, deleting, job, page>> /\ Goes(k) /\ runs[k].pc \notin {"running", "killed"}
  BY DEF RequestFails, mainRest, Goes, AlivePcs
<1> QED BY <1>1, FinishesInv

LEMMA RoundEndsInv ==
  ASSUME AppInv, NEW k \in RunIds, RoundEnds(k)
  PROVE  AppInv'
<1>1. UNCHANGED <<checkout, making, deleting, job, page>> /\ Goes(k) /\ runs[k].pc \notin {"asking", "running", "killed"}
  BY DEF RoundEnds, mainRest, Goes, AlivePcs
<1>2. CASE Ends(k)
  BY <1>1, <1>2, FinishesInv
<1>3. CASE runs' = [runs EXCEPT ![k].pc = "top"] /\ UNCHANGED <<rows, sessions, wire>>
  <2>1. "top" \in AlivePcs
    BY DEF AlivePcs
  <2> QED BY <1>1, <1>3, <2>1, QuietStep
<1> QED BY <1>2, <1>3 DEF RoundEnds

LEMMA CallsEndInv ==
  ASSUME AppInv, NEW k \in RunIds, CallsEnd(k)
  PROVE  AppInv'
<1>1. UNCHANGED <<checkout, making, deleting, job, page>> /\ Goes(k) /\ runs[k].pc \notin {"asking", "running", "killed"}
  BY DEF CallsEnd, mainRest, Goes, AlivePcs
<1>2. CASE Ends(k)
  BY <1>1, <1>2, FinishesInv
<1>3. CASE runs' = [runs EXCEPT ![k].pc = "top"] /\ UNCHANGED <<rows, sessions, wire>>
  <2>1. "top" \in AlivePcs
    BY DEF AlivePcs
  <2> QED BY <1>1, <1>3, <2>1, QuietStep
<1> QED BY <1>2, <1>3 DEF CallsEnd

(* One item or none.                                                       *)
LEMMA OneOrNone ==
  /\ \A x \in Items : <<x>> \in Seq(Items) /\ ToSet(<<x>>) = {x}
  /\ <<>> \in Seq(Items) /\ ToSet(<<>>) = {}
<1>1. ASSUME NEW x \in Items PROVE <<x>> \in Seq(Items) /\ ToSet(<<x>>) = {x}
  <2>1. PICK s : s = <<x>>
    OBVIOUS
  <2>2. s \in Seq(Items) /\ DOMAIN s = {1} /\ s[1] = x
    BY <2>1
  <2> QED BY <2>1, <2>2 DEF ToSet
<1>2. <<>> \in Seq(Items) /\ ToSet(<<>>) = {}
  <2>1. PICK s : s = <<>>
    OBVIOUS
  <2>2. s \in Seq(Items) /\ DOMAIN s = {}
    BY <2>1
  <2> QED BY <2>1, <2>2 DEF ToSet
<1> QED BY <1>1, <1>2

LEMMA ItemMade ==
  ASSUME NEW kind \in ItemKinds, NEW k \in RunIds, NEW n \in Nat
  PROVE  Item(kind, k, n) \in Items /\ Item(kind, k, n).run = k /\ Item(kind, k, n).n = n
  BY DEF Item, Items

(* An item is done, nothing begun: the page stays as it is, but for what a *)
(* click took away.                                                        *)
LEMMA DoneInv ==
  ASSUME NEW w, NEW p, AppInvAt(w, p), w = wire, p.pc = page.pc, NEW k \in RunIds, Goes(k), NEW run,
         NEW thing \in Items, Emits(k, run, <<>>, <<thing>>), RunGoesOn(w, p, k, run, {thing}), run.pc # "over",
         UNCHANGED <<sessions, checkout, making, deleting, job>>, NEW q, page' = q, PageGrown(p, q, {})
  PROVE  AppInv'
<1>1. PICK begun, items : begun = <<>> /\ items = <<thing>>
  OBVIOUS
<1>2. begun \in Seq(Items) /\ items \in Seq(Items) /\ ToSet(begun) = {} /\ ToSet(items) = {thing}
  BY <1>1, OneOrNone
<1>3. Emits(k, run, begun, items) /\ RunGoesOn(w, p, k, run, ToSet(items)) /\ ToSet(begun) \subseteq NowOf(k, run)
  BY <1>1, <1>2
<1> QED BY <1>2, <1>3, EmitsInv

LEMMA BegunInv ==
  ASSUME NEW w, NEW p, AppInvAt(w, p), w = wire, p.pc = page.pc, NEW k \in RunIds, Goes(k), NEW run,
         NEW thing \in Items, Emits(k, run, <<thing>>, <<>>), RunGoesOn(w, p, k, run, {}), run.pc # "over", thing \in NowOf(k, run),
         UNCHANGED <<sessions, checkout, making, deleting, job>>, NEW q, page' = q, PageGrown(p, q, {})
  PROVE  AppInv'
<1>1. PICK begun, items : begun = <<thing>> /\ items = <<>>
  OBVIOUS
<1>2. begun \in Seq(Items) /\ items \in Seq(Items) /\ ToSet(begun) = {thing} /\ ToSet(items) = {}
  BY <1>1, OneOrNone
<1>3. Emits(k, run, begun, items) /\ RunGoesOn(w, p, k, run, ToSet(items)) /\ ToSet(begun) \subseteq NowOf(k, run)
  BY <1>1, <1>2
<1> QED BY <1>2, <1>3, EmitsInv

LEMMA NoneInv ==
  ASSUME NEW w, NEW p, AppInvAt(w, p), w = wire, p.pc = page.pc, NEW k \in RunIds, Goes(k), NEW run,
         Emits(k, run, <<>>, <<>>), RunGoesOn(w, p, k, run, {}), run.pc # "over",
         UNCHANGED <<sessions, checkout, making, deleting, job>>, NEW q, page' = q, PageGrown(p, q, {})
  PROVE  AppInv'
<1>1. PICK none : none = <<>>
  OBVIOUS
<1>2. none \in Seq(Items) /\ ToSet(none) = {}
  BY <1>1, OneOrNone
<1>3. Emits(k, run, none, none) /\ RunGoesOn(w, p, k, run, ToSet(none)) /\ ToSet(none) \subseteq NowOf(k, run)
  BY <1>1, <1>2
<1> QED BY <1>2, <1>3, EmitsInv

LEMMA AnsweredInv ==
  ASSUME AppInv, NEW k \in RunIds, NEW text \in BOOLEAN, NEW calls \in CallLists, Answered(k, text, calls)
  PROVE  AppInv'
<1>1. PICK w, p, r : w = wire /\ p = page /\ r = runs[k]
  OBVIOUS
<1>2. Goes(k) /\ r.pc = "fetching" /\ UNCHANGED <<sessions, checkout, making, deleting, job>> /\ page' = p
  BY <1>1 DEF Answered, mainRest, Goes, AlivePcs
<1>3. PICK says : says = (text \/ (calls = <<>> /\ ~runs[k].stopped))
  OBVIOUS
<1>4. PICK pc : pc = IF calls = <<>> THEN "turning" ELSE "calls"
  OBVIOUS
<1>5. PICK n : n = IF says THEN r.n + 1 ELSE r.n
  OBVIOUS
<1>6. PICK run : run = [r EXCEPT !.n = n, !.calls = calls, !.pc = pc]
  OBVIOUS
<1>7. Emits(k, run, <<>>, IF says THEN <<Next0(k, "text")>> ELSE <<>>)
  BY <1>1, <1>3, <1>4, <1>5, <1>6 DEF Answered
<1>8. /\ r = RunWith(r, r.pc, r.calls, r.steers, r.said, r.stopped, r.round, r.n, r.plan)
      /\ r \in RunRecs /\ r.n \in Nat /\ r.n + 1 \in Nat /\ r.n <= r.n /\ r.n <= r.n + 1 /\ AppInvAt(w, p) /\ PageGrown(p, p, {})
      /\ r.steers \in 0 .. MaxSteers /\ r.steers <= r.said /\ r.said \in 0 .. MaxSteers /\ r.stopped \in BOOLEAN /\ r.round \in 0 .. MaxAppRounds
      /\ r.plan \in Items \cup {NoItem}
  BY <1>1, <1>2, RunHere
<1>9. run = RunWith(r, pc, calls, r.steers, r.said, r.stopped, r.round, n, r.plan)
  BY <1>6, <1>8 DEF RunWith
<1>10. /\ run \in RunRecs /\ run.on = r.on /\ run.pc = pc /\ run.n = n /\ run.stopped = r.stopped /\ run.plan = r.plan
       /\ pc \in {"turning", "calls"} /\ n \in Nat /\ r.n <= n
  <2>1. calls \in Seq(Calls)
    <3>1. calls \in Seq(Calls \ {"text"})
      BY AppConstants
    <3> QED BY <3>1
  <2>2. pc \in AlivePcs /\ pc \in {"turning", "calls"}
    BY <1>4 DEF AlivePcs
  <2>3. n \in Nat /\ r.n <= n
    BY <1>5, <1>8
  <2> QED BY <1>8, <1>9, <2>1, <2>2, <2>3, RunWithIs
<1>11. ASSUME NEW items \in SUBSET Items PROVE RunGoesOn(w, p, k, run, items) /\ run.pc # "over"
  <2>1. run.pc \in AlivePcs /\ CallsOK(run)
    BY <1>10 DEF CallsOK, AlivePcs
  <2> QED BY <1>1, <1>2, <1>8, <1>10, <2>1, GoesOnMade
<1>12. CASE says
  <2>1. PICK thing : thing = Next0(k, "text")
    OBVIOUS
  <2>2. thing \in Items
    <3>1. "text" \in ItemKinds
      BY DEF ItemKinds
    <3> QED BY <1>1, <1>8, <2>1, <3>1, ItemMade DEF Next0
  <2>3. Emits(k, run, <<>>, <<thing>>)
    BY <1>7, <1>12, <2>1
  <2>4. RunGoesOn(w, p, k, run, {thing}) /\ run.pc # "over"
    BY <1>11, <2>2
  <2> QED BY <1>1, <1>2, <1>8, <2>2, <2>3, <2>4, DoneInv
<1>13. CASE ~says
  <2>1. Emits(k, run, <<>>, <<>>)
    BY <1>7, <1>13
  <2>2. RunGoesOn(w, p, k, run, {}) /\ run.pc # "over"
    BY <1>11
  <2> QED BY <1>1, <1>2, <1>8, <2>1, <2>2, NoneInv
<1> QED BY <1>12, <1>13

(* The next item of a turn.                                                *)
LEMMA NextItem ==
  ASSUME AppInv, NEW k \in RunIds, Goes(k), NEW kind \in ItemKinds
  PROVE  Next0(k, kind) \in Items /\ Next0(k, kind).run = k /\ Next0(k, kind).n = runs[k].n + 1 /\ Next0(k, kind) # NoItem
<1>1. PICK w, p, r : w = wire /\ p = page /\ r = runs[k]
  OBVIOUS
<1>2. r.n + 1 \in Nat
  BY <1>1, RunHere
<1>3. Next0(k, kind) \in Items /\ Next0(k, kind).run = k /\ Next0(k, kind).n = r.n + 1
  BY <1>1, <1>2, ItemMade DEF Next0
<1>4. k # 0
  BY AppConstants DEF RunIds
<1>5. NoItem.run = 0
  BY DEF NoItem, Item
<1> QED BY <1>1, <1>3, <1>4, <1>5

LEMMA DemoNotesInv ==
  ASSUME AppInv, NEW k \in RunIds, DemoNotes(k)
  PROVE  AppInv'
<1>1. PICK w, p, r : w = wire /\ p = page /\ r = runs[k]
  OBVIOUS
<1>2. Goes(k) /\ r.pc = "calls" /\ UNCHANGED <<sessions, checkout, making, deleting, job>> /\ page' = p
  BY <1>1 DEF DemoNotes, mainRest, Goes, AlivePcs
<1>3. PICK n, thing : n = r.n + 1 /\ thing = Next0(k, "text")
  OBVIOUS
<1>4. PICK half, run : half = [r EXCEPT !.n = n] /\ run = [half EXCEPT !.steers = 0]
  OBVIOUS
<1>5. Emits(k, run, <<>>, <<thing>>)
  BY <1>1, <1>3, <1>4 DEF DemoNotes, Numbered
<1>6. /\ r = RunWith(r, r.pc, r.calls, r.steers, r.said, r.stopped, r.round, r.n, r.plan)
      /\ r \in RunRecs /\ r.calls \in Seq(Calls) /\ r.n + 1 \in Nat /\ r.n <= r.n + 1 /\ AppInvAt(w, p) /\ PageGrown(p, p, {})
      /\ r.said \in 0 .. MaxSteers /\ r.stopped \in BOOLEAN /\ r.round \in 0 .. MaxAppRounds
      /\ r.plan \in Items \cup {NoItem}
  BY <1>1, <1>2, RunHere
<1>7. half = RunWith(r, r.pc, r.calls, r.steers, r.said, r.stopped, r.round, n, r.plan)
  BY <1>4, <1>6 DEF RunWith
<1>8. run = RunWith(r, r.pc, r.calls, 0, r.said, r.stopped, r.round, n, r.plan)
  BY <1>4, <1>7 DEF RunWith
<1>9. run \in RunRecs /\ run.on = r.on /\ run.pc = r.pc /\ run.n = n /\ run.stopped = r.stopped /\ run.plan = r.plan
  <2>1. r.pc \in AlivePcs /\ 0 \in 0 .. MaxSteers /\ 0 <= r.said
    BY <1>2, <1>6, AppConstants DEF AlivePcs
  <2> QED BY <1>3, <1>6, <1>8, <2>1, RunWithIs
<1>10. thing \in Items
  <2>1. "text" \in ItemKinds
    BY DEF ItemKinds
  <2> QED BY <1>2, <1>3, <2>1, NextItem
<1>11. RunGoesOn(w, p, k, run, {thing}) /\ run.pc # "over"
  <2>1. run.pc \in AlivePcs /\ CallsOK(run) /\ {thing} \in SUBSET Items /\ r.n <= run.n
    BY <1>2, <1>3, <1>6, <1>9, <1>10 DEF CallsOK, AlivePcs
  <2> QED BY <1>1, <1>2, <1>6, <1>9, <2>1, GoesOnMade
<1> QED BY <1>1, <1>2, <1>5, <1>6, <1>10, <1>11, DoneInv

LEMMA CommandEndsInv ==
  ASSUME AppInv, NEW k \in RunIds, CommandEnds(k)
  PROVE  AppInv'
<1>1. PICK w, p, r : w = wire /\ p = page /\ r = runs[k]
  OBVIOUS
<1>2. Goes(k) /\ r.pc \in {"running", "killed"} /\ UNCHANGED <<sessions, checkout, making, deleting, job>> /\ page' = p
  BY <1>1 DEF CommandEnds, mainRest, Goes, AlivePcs
<1>3. PICK rest, thing : rest = Tail(r.calls) /\ thing = Item("command", k, r.n)
  OBVIOUS
<1>4. PICK run : run = [r EXCEPT !.pc = "calls", !.calls = rest]
  OBVIOUS
<1>5. Emits(k, run, <<>>, <<thing>>)
  BY <1>1, <1>3, <1>4 DEF CommandEnds
<1>6. /\ r = RunWith(r, r.pc, r.calls, r.steers, r.said, r.stopped, r.round, r.n, r.plan)
      /\ r \in RunRecs /\ r.calls \in Seq(Calls) /\ r.n \in Nat /\ r.n <= r.n /\ AppInvAt(w, p) /\ PageGrown(p, p, {})
      /\ r.steers \in 0 .. MaxSteers /\ r.steers <= r.said /\ r.said \in 0 .. MaxSteers /\ r.stopped \in BOOLEAN /\ r.round \in 0 .. MaxAppRounds
      /\ r.plan \in Items \cup {NoItem} /\ r.calls # <<>>
  BY <1>1, <1>2, RunHere
<1>7. run = RunWith(r, "calls", rest, r.steers, r.said, r.stopped, r.round, r.n, r.plan)
  BY <1>4, <1>6 DEF RunWith
<1>8. run \in RunRecs /\ run.on = r.on /\ run.pc = "calls" /\ run.n = r.n /\ run.stopped = r.stopped /\ run.plan = r.plan
  <2>1. "calls" \in AlivePcs /\ rest \in Seq(Calls)
    BY <1>3, <1>6 DEF AlivePcs
  <2> QED BY <1>6, <1>7, <2>1, RunWithIs
<1>9. thing \in Items
  <2>1. "command" \in ItemKinds
    BY DEF ItemKinds
  <2> QED BY <1>3, <1>6, <2>1, ItemMade
<1>10. RunGoesOn(w, p, k, run, {thing}) /\ run.pc # "over"
  <2>1. run.pc \in AlivePcs /\ CallsOK(run) /\ {thing} \in SUBSET Items /\ Item("command", k, r.n) \in {thing} /\ r.n <= run.n
    BY <1>3, <1>6, <1>8, <1>9 DEF CallsOK, AlivePcs
  <2> QED BY <1>1, <1>2, <1>6, <1>8, <2>1, GoesOnMade
<1> QED BY <1>1, <1>2, <1>5, <1>6, <1>9, <1>10, DoneInv

(* The next call of a turn.                                                *)
LEMMA CallRunsInv ==
  ASSUME AppInv, NEW k \in RunIds, CallRuns(k)
  PROVE  AppInv'
<1>1. PICK w, p, r : w = wire /\ p = page /\ r = runs[k]
  OBVIOUS
<1>2. Goes(k) /\ r.pc = "calls" /\ r.calls # <<>> /\ UNCHANGED <<sessions, checkout, making, deleting, job>> /\ page' = p
  BY <1>1 DEF CallRuns, mainRest, Goes, AlivePcs
<1>3. PICK call, rest, n : call = Head(r.calls) /\ rest = Tail(r.calls) /\ n = r.n + 1
  OBVIOUS
<1>4. PICK thing : thing = Next0(k, IF call \in {"plan", "text"} THEN call ELSE KindOf(call))
  OBVIOUS
<1>5. /\ r = RunWith(r, r.pc, r.calls, r.steers, r.said, r.stopped, r.round, r.n, r.plan)
      /\ r \in RunRecs /\ r.calls \in Seq(Calls) /\ r.n \in Nat /\ n \in Nat /\ r.n <= r.n /\ r.n <= n /\ r.n < n
      /\ r.steers \in 0 .. MaxSteers /\ r.steers <= r.said /\ r.said \in 0 .. MaxSteers /\ r.stopped \in BOOLEAN /\ r.round \in 0 .. MaxAppRounds
      /\ r.plan \in Items \cup {NoItem} /\ AppInvAt(w, p) /\ PageGrown(p, p, {}) /\ runs \in [RunIds -> RunRecs]
  BY <1>1, <1>2, <1>3, RunHere
<1>6. rest \in Seq(Calls) /\ call \in Calls
  BY <1>2, <1>3, <1>5
<1>7. thing \in Items /\ thing # NoItem /\ thing.run = k /\ thing.n = n
  <2>1. PICK kind : kind = IF call \in {"plan", "text"} THEN call ELSE KindOf(call)
    OBVIOUS
  <2>2. kind \in ItemKinds
    BY <2>1 DEF KindOf, ItemKinds
  <2> QED BY <1>1, <1>2, <1>3, <1>4, <2>1, <2>2, NextItem
<1>8. PICK half, on : half = [r EXCEPT !.n = n] /\ on = [half EXCEPT !.calls = rest, !.pc = "calls"]
  OBVIOUS
<1>9. half = RunWith(r, r.pc, r.calls, r.steers, r.said, r.stopped, r.round, n, r.plan)
  BY <1>5, <1>8 DEF RunWith
<1>10. on = RunWith(r, "calls", rest, r.steers, r.said, r.stopped, r.round, n, r.plan)
  BY <1>8, <1>9 DEF RunWith
<1>11. Numbered(k, runs[k]) = half /\ half.calls = r.calls /\ Advanced(k) = on
  <2>1. Numbered(k, runs[k]) = half
    BY <1>1, <1>3, <1>8 DEF Numbered
  <2>2. half.calls = r.calls
    BY <1>9 DEF RunWith
  <2> QED BY <1>3, <1>8, <2>1, <2>2 DEF Advanced
<1>12. "calls" \in AlivePcs /\ "running" \in AlivePcs /\ "asking" \in AlivePcs /\ {} \in SUBSET Items
  BY DEF AlivePcs
<1>13. CASE Emits(k, Advanced(k), <<>>, <<thing>>)
  <2>1. on \in RunRecs /\ on.on = r.on /\ on.pc = "calls" /\ on.n = n /\ on.stopped = r.stopped /\ on.plan = r.plan
    <3>1. /\ r \in RunRecs /\ r.steers \in 0 .. MaxSteers /\ r.steers <= r.said /\ r.said \in 0 .. MaxSteers /\ r.stopped \in BOOLEAN
          /\ r.round \in 0 .. MaxAppRounds /\ n \in Nat /\ r.plan \in Items \cup {NoItem} /\ rest \in Seq(Calls) /\ "calls" \in AlivePcs
      BY <1>5, <1>6, <1>12
    <3> QED BY <1>10, <3>1, RunWithIs
  <2>2. Emits(k, on, <<>>, <<thing>>)
    BY <1>11, <1>13
  <2>3. RunGoesOn(w, p, k, on, {thing}) /\ on.pc # "over"
    <3>1. on.pc \in AlivePcs /\ CallsOK(on) /\ {thing} \in SUBSET Items /\ r.n <= on.n
      BY <1>5, <1>7, <1>12, <2>1 DEF CallsOK
    <3> QED BY <1>1, <1>2, <1>5, <2>1, <3>1, GoesOnMade
  <2> QED BY <1>1, <1>2, <1>5, <1>7, <2>2, <2>3, DoneInv
<1>14. CASE Emits(k, [Numbered(k, runs[k]) EXCEPT !.pc = "running"], <<thing>>, <<>>) /\ call \in {"safe", "risky"}
  <2>1. PICK run : run = [half EXCEPT !.pc = "running"]
    OBVIOUS
  <2>2. run = RunWith(r, "running", r.calls, r.steers, r.said, r.stopped, r.round, n, r.plan)
    BY <1>9, <2>1 DEF RunWith
  <2>3. /\ run \in RunRecs /\ run.on = r.on /\ run.pc = "running" /\ run.n = n /\ run.stopped = r.stopped /\ run.plan = r.plan
        /\ run.calls = r.calls
    BY <1>5, <1>12, <2>2, RunWithIs
  <2>4. Emits(k, run, <<thing>>, <<>>)
    BY <1>11, <1>14, <2>1
  <2>5. RunGoesOn(w, p, k, run, {}) /\ run.pc # "over"
    <3>1. run.pc \in AlivePcs /\ CallsOK(run) /\ r.n <= run.n
      BY <1>2, <1>5, <1>12, <2>3 DEF CallsOK
    <3> QED BY <1>1, <1>2, <1>5, <1>12, <2>3, <3>1, GoesOnMade
  <2>6. thing \in NowOf(k, run)
    <3>1. thing = Item("command", k, n)
      BY <1>1, <1>3, <1>4, <1>14 DEF Next0, KindOf
    <3> QED BY <2>3, <3>1 DEF NowOf
  <2> QED BY <1>1, <1>2, <1>5, <1>7, <2>4, <2>5, <2>6, BegunInv
<1>15. CASE /\ Asking(k, call) /\ Room(1)
            /\ runs' = [runs EXCEPT ![k] = [Numbered(k, @) EXCEPT !.pc = "asking"]]
            /\ wire' = Told(wire, <<Msg("ask", runs[k].on, thing, {})>>)
            /\ UNCHANGED rows
  <2>1. PICK run : run = [half EXCEPT !.pc = "asking"]
    OBVIOUS
  <2>2. run = RunWith(r, "asking", r.calls, r.steers, r.said, r.stopped, r.round, n, r.plan)
    BY <1>9, <2>1 DEF RunWith
  <2>3. /\ run \in RunRecs /\ run.on = r.on /\ run.pc = "asking" /\ run.n = n /\ run.stopped = r.stopped /\ run.plan = r.plan
        /\ run.calls = r.calls
    BY <1>5, <1>12, <2>2, RunWithIs
  <2>4. runs' = [runs EXCEPT ![k] = run]
    BY <1>11, <1>15, <2>1
  <2>5. RunGoesOn(w, p, k, run, {}) /\ run.pc # "over"
    <3>1. call \in {"risky", "outside"}
      BY <1>15 DEF Asking
    <3>2. run.pc \in AlivePcs /\ CallsOK(run) /\ r.n <= run.n
      BY <1>2, <1>3, <1>5, <1>12, <2>3, <3>1 DEF CallsOK
    <3> QED BY <1>1, <1>2, <1>5, <1>12, <2>3, <3>2, GoesOnMade
  <2>6. PICK e : e = <<Msg("ask", runs[k].on, thing, {})>>
    OBVIOUS
  <2>7. Len(w) + 1 <= MaxWire /\ wire' = Told(wire, e)
    BY <1>1, <1>15, <2>6 DEF Room
  <2>8. runs[k].n < run.n /\ thing.n = run.n /\ p.pc = page.pc /\ UNCHANGED rows
    BY <1>1, <1>5, <1>7, <1>15, <2>3
  <2> QED BY <1>1, <1>2, <1>5, <1>7, <2>3, <2>4, <2>5, <2>6, <2>7, <2>8, AsksInvMade
<1>16. CASE r.plan = NoItem /\ Emits(k, [Advanced(k) EXCEPT !.plan = thing], <<thing>>, <<>>)
  <2>1. PICK run : run = [on EXCEPT !.plan = thing]
    OBVIOUS
  <2>2. run = RunWith(r, "calls", rest, r.steers, r.said, r.stopped, r.round, n, thing)
    BY <1>10, <2>1 DEF RunWith
  <2>3. run \in RunRecs /\ run.on = r.on /\ run.pc = "calls" /\ run.n = n /\ run.stopped = r.stopped /\ run.plan = thing
    <3>1. PICK new : new = thing
      OBVIOUS
    <3>2. new \in Items \cup {NoItem}
      BY <1>7, <3>1
    <3>3. /\ r \in RunRecs /\ r.steers \in 0 .. MaxSteers /\ r.steers <= r.said /\ r.said \in 0 .. MaxSteers /\ r.stopped \in BOOLEAN
          /\ r.round \in 0 .. MaxAppRounds /\ n \in Nat
      BY <1>5
    <3>4. run = RunWith(r, "calls", rest, r.steers, r.said, r.stopped, r.round, n, new)
      BY <2>2, <3>1
    <3>5. run \in RunRecs /\ run.on = r.on /\ run.pc = "calls" /\ run.n = n /\ run.stopped = r.stopped /\ run.plan = new
      BY <1>6, <1>12, <3>2, <3>3, <3>4, RunWithIs
    <3> QED BY <3>1, <3>5
  <2>4. Emits(k, run, <<thing>>, <<>>)
    BY <1>11, <1>16, <2>1
  <2>5. RunGoesOn(w, p, k, run, {}) /\ run.pc # "over"
    <3>1. run.pc \in AlivePcs /\ CallsOK(run) /\ r.n <= run.n
      BY <1>5, <1>12, <2>3 DEF CallsOK
    <3> QED BY <1>1, <1>2, <1>5, <1>12, <1>16, <2>3, <3>1, GoesOnMade
  <2>6. thing \in NowOf(k, run)
    BY <1>7, <2>3 DEF NowOf
  <2> QED BY <1>1, <1>2, <1>5, <1>7, <2>4, <2>5, <2>6, BegunInv
<1>17. CASE r.plan # NoItem /\ Emits(k, [runs[k] EXCEPT !.calls = Tail(@)], <<runs[k].plan>>, <<>>)
  <2>1. PICK run, old : run = [r EXCEPT !.calls = rest] /\ old = r.plan
    OBVIOUS
  <2>2. run = RunWith(r, r.pc, rest, r.steers, r.said, r.stopped, r.round, r.n, r.plan)
    BY <1>5, <2>1 DEF RunWith
  <2>3. run \in RunRecs /\ run.on = r.on /\ run.pc = "calls" /\ run.n = r.n /\ run.stopped = r.stopped /\ run.plan = r.plan
    <3>1. /\ r \in RunRecs /\ r.steers \in 0 .. MaxSteers /\ r.steers <= r.said /\ r.said \in 0 .. MaxSteers /\ r.stopped \in BOOLEAN
          /\ r.round \in 0 .. MaxAppRounds /\ r.n \in Nat /\ r.plan \in Items \cup {NoItem}
      BY <1>5
    <3>2. run = RunWith(r, "calls", rest, r.steers, r.said, r.stopped, r.round, r.n, r.plan)
      BY <1>2, <2>2
    <3> QED BY <1>6, <1>12, <3>1, <3>2, RunWithIs
  <2>4. Emits(k, run, <<old>>, <<>>)
    BY <1>1, <1>3, <1>17, <2>1
  <2>5. RunGoesOn(w, p, k, run, {}) /\ run.pc # "over"
    <3>1. run.pc \in AlivePcs /\ CallsOK(run) /\ r.n <= run.n
      BY <1>5, <1>12, <2>3 DEF CallsOK
    <3> QED BY <1>1, <1>2, <1>5, <1>12, <2>3, <3>1, GoesOnMade
  <2>6. old \in Items /\ old \in NowOf(k, run)
    BY <1>5, <1>17, <2>1, <2>3 DEF NowOf
  <2> QED BY <1>1, <1>2, <1>5, <2>4, <2>5, <2>6, BegunInv
<1> QED
  <2>1. PICK c : c = Head(runs[k].calls)
    OBVIOUS
  <2>2. c = call
    BY <1>1, <1>3, <2>1
  <2>3. \/ Emits(k, Advanced(k), <<>>, <<thing>>)
        \/ call \in {"safe", "risky"} /\ Emits(k, [Numbered(k, runs[k]) EXCEPT !.pc = "running"], <<thing>>, <<>>)
        \/ /\ Asking(k, call) /\ Room(1)
           /\ runs' = [runs EXCEPT ![k] = [Numbered(k, @) EXCEPT !.pc = "asking"]]
           /\ wire' = Told(wire, <<Msg("ask", runs[k].on, thing, {})>>)
           /\ UNCHANGED rows
        \/ (IF runs[k].plan = NoItem THEN Emits(k, [Advanced(k) EXCEPT !.plan = thing], <<thing>>, <<>>)
              ELSE Emits(k, [runs[k] EXCEPT !.calls = Tail(@)], <<runs[k].plan>>, <<>>))
    BY <1>1, <1>3, <1>4, Zenon DEF CallRuns
  <2> QED BY <1>1, <1>13, <1>14, <1>15, <1>16, <1>17, <2>3

(* A window that asks less, or waited for two things at once.              *)
Trimmed(p, q) ==
  /\ q \in Pages /\ q.pc = p.pc /\ q.listed = p.listed /\ q.active = p.active /\ q.shown = p.shown /\ q.cards \subseteq p.cards
  /\ q.running = p.running /\ q.asks \subseteq p.asks /\ q.describing = p.describing /\ q.sending = p.sending /\ (p.raced => q.raced)
  /\ q.opened = p.opened
LEMMA TrimmedInv ==
  ASSUME NEW w, NEW p, AppInvAt(w, p), p.pc = "up", NEW q, Trimmed(p, q)
  PROVE  AppInvAt(w, q)
<1>0. /\ q \in Pages /\ q.pc = "up" /\ q.listed = p.listed /\ q.active = p.active /\ q.shown = p.shown /\ q.cards \subseteq p.cards
      /\ q.running = p.running /\ q.asks \subseteq p.asks /\ q.describing = p.describing /\ q.sending = p.sending /\ (p.raced => q.raced)
      /\ q.opened = p.opened
  BY DEF Trimmed
<1>1. Shapes(w, q)
  BY <1>0, AppNow DEF Shapes
<1>2. UnusedInv(w, q)
  <2>1. UnusedInv(w, p)
    BY AppNow
  <2> QED BY <1>0, <2>1 DEF UnusedInv
<1>3. PageInv(w, q)
  <2>1. PageInv(w, p)
    BY AppNow
  <2> QED BY <1>0, <2>1 DEF PageInv
<1>4. MarksInv(w, q)
  <2>1. MarksInv(w, p)
    BY AppNow
  <2> QED BY <1>0, <2>1 DEF MarksInv
<1>5. AsksInv(w, q)
  <2>1. AsksInv(w, p)
    BY AppNow
  <2> QED BY <1>0, <2>1 DEF AsksInv
<1>6. ToldInv(w, q)
  BY AppNow DEF ToldInv
<1>7. OneWait(w, q)
  <2>1. OneWait(w, p)
    BY AppNow
  <2> QED BY <1>0, <2>1 DEF OneWait
<1>8. NewInv(w, q)
  <2>1. NewInv(w, p)
    BY AppNow
  <2> QED BY <1>0, <2>1 DEF NewInv
<1>9. ShownInv(w, q)
  <2>1. ShownInv(w, p)
    BY AppNow
  <2> QED BY <1>0, <2>1 DEF ShownInv
<1> QED BY <1>1, <1>2, <1>3, <1>4, <1>5, <1>6, <1>7, <1>8, <1>9, AppNow DEF AppInvAt

(* The click on a card.                                                    *)
CardOff(p, c) == [p EXCEPT !.asks = @ \ {c.on}, !.cards = @ \ {c}]
LEMMA CardGone ==
  ASSUME NEW p \in Pages, NEW c \in p.cards, NEW q, q = CardOff(p, c)
  PROVE  Trimmed(p, q) /\ c.on \notin q.asks /\ c \notin q.cards
<1>1. PICK a, b : a = p.asks \ {c.on} /\ b = p.cards \ {c}
  OBVIOUS
<1>2. p = PageFrom(p)
  BY PageShape
<1>3. q = [p EXCEPT !.asks = a, !.cards = b]
  BY <1>1 DEF CardOff
<1>4. q = PageRec(p.pc, p.listed, p.active, p.shown, b, p.running, a, p.describing, p.sending, p.raced, p.opened)
  BY <1>2, <1>3 DEF PageRec, PageFrom
<1>5. /\ p.pc \in {"closed", "loading", "up"} /\ p.listed \in SUBSET AppThreads /\ p.active \in Threads /\ p.shown \in SUBSET Items
      /\ b \in SUBSET Cards /\ p.running \in SUBSET AppThreads /\ a \in SUBSET AppThreads
      /\ p.describing \in SUBSET (SUBSET Items) /\ p.sending \in {"no", "creating", "listing"} /\ p.raced \in BOOLEAN
      /\ p.opened \in 0 .. MaxWindows
  BY <1>1, PageIs
<1>6. /\ q \in Pages /\ q.pc = p.pc /\ q.listed = p.listed /\ q.active = p.active /\ q.shown = p.shown /\ q.cards = b
      /\ q.running = p.running /\ q.asks = a /\ q.describing = p.describing /\ q.sending = p.sending /\ q.raced = p.raced
      /\ q.opened = p.opened
  <2>1. q \in Pages
    BY <1>4, <1>5 DEF Pages, PageRec
  <2>2. /\ q.pc = p.pc /\ q.listed = p.listed /\ q.active = p.active /\ q.shown = p.shown /\ q.cards = b
        /\ q.running = p.running /\ q.asks = a /\ q.describing = p.describing /\ q.sending = p.sending /\ q.raced = p.raced
        /\ q.opened = p.opened
    BY <1>4 DEF PageRec
  <2> QED BY <2>1, <2>2
<1> QED BY <1>1, <1>6 DEF Trimmed

(* The turn goes on with the answer.                                       *)
LEMMA ResumedInv ==
  ASSUME NEW w, NEW p, AppInvAt(w, p), w = wire, p.pc = page.pc, AppInv, NEW k \in RunIds, Goes(k), runs[k].pc = "asking",
         Unasked(w, p, runs[k].on, k), NEW ok, Resumed(k, ok), UNCHANGED <<sessions, checkout, making, deleting, job>>, page' = p
  PROVE  AppInv'
<1>1. PICK r, pp : r = runs[k] /\ pp = page
  OBVIOUS
<1>2. PICK call, rest, thing : call = Head(r.calls) /\ rest = Tail(r.calls) /\ thing = Item(KindOf(call), k, r.n)
  OBVIOUS
<1>3. /\ r = RunWith(r, r.pc, r.calls, r.steers, r.said, r.stopped, r.round, r.n, r.plan)
      /\ r \in RunRecs /\ r.calls \in Seq(Calls) /\ r.n \in Nat /\ r.n <= r.n /\ r.calls # <<>>
      /\ r.steers \in 0 .. MaxSteers /\ r.steers <= r.said /\ r.said \in 0 .. MaxSteers /\ r.stopped \in BOOLEAN /\ r.round \in 0 .. MaxAppRounds
      /\ r.plan \in Items \cup {NoItem} /\ r.pc = "asking"
  BY <1>1, RunHere
<1>4. PageGrown(p, p, {})
  <2>1. p \in Pages
    BY AppNow
  <2> QED BY <2>1 DEF PageGrown
<1>5. rest \in Seq(Calls) /\ thing \in Items /\ "calls" \in AlivePcs /\ "running" \in AlivePcs /\ {} \in SUBSET Items
  <2>1. KindOf(call) \in ItemKinds
    BY DEF KindOf, ItemKinds
  <2> QED BY <1>2, <1>3, <2>1, ItemMade DEF AlivePcs
<1>6. CASE ok /\ call = "risky"
  <2>1. PICK run : run = [r EXCEPT !.pc = "running"]
    OBVIOUS
  <2>2. run = RunWith(r, "running", r.calls, r.steers, r.said, r.stopped, r.round, r.n, r.plan)
    BY <1>3, <2>1 DEF RunWith
  <2>3. /\ run \in RunRecs /\ run.on = r.on /\ run.pc = "running" /\ run.n = r.n /\ run.stopped = r.stopped /\ run.plan = r.plan
        /\ run.calls = r.calls
    <3>1. /\ r \in RunRecs /\ r.steers \in 0 .. MaxSteers /\ r.steers <= r.said /\ r.said \in 0 .. MaxSteers /\ r.stopped \in BOOLEAN
          /\ r.round \in 0 .. MaxAppRounds /\ r.n \in Nat /\ r.plan \in Items \cup {NoItem} /\ r.calls \in Seq(Calls) /\ "running" \in AlivePcs
      BY <1>3, <1>5
    <3> QED BY <2>2, <3>1, RunWithIs
  <2>4. Emits(k, run, <<thing>>, <<>>)
    BY <1>1, <1>2, <1>6, <2>1 DEF Resumed
  <2>5. RunGoesOn(w, p, k, run, {}) /\ run.pc # "over"
    <3>1. run.pc \in AlivePcs /\ CallsOK(run) /\ r.n <= run.n
      BY <1>3, <1>5, <2>3 DEF CallsOK
    <3> QED BY <1>1, <1>3, <1>5, <2>3, <3>1, GoesOnMade
  <2>6. thing \in NowOf(k, run)
    BY <1>2, <1>6, <2>3 DEF NowOf, KindOf
  <2> QED BY <1>4, <1>5, <2>4, <2>5, <2>6, BegunInv
<1>7. CASE ~(ok /\ call = "risky")
  <2>1. PICK run : run = [r EXCEPT !.pc = "calls", !.calls = rest]
    OBVIOUS
  <2>2. run = RunWith(r, "calls", rest, r.steers, r.said, r.stopped, r.round, r.n, r.plan)
    BY <1>3, <2>1 DEF RunWith
  <2>3. run \in RunRecs /\ run.on = r.on /\ run.pc = "calls" /\ run.n = r.n /\ run.stopped = r.stopped /\ run.plan = r.plan
    <3>1. /\ r \in RunRecs /\ r.steers \in 0 .. MaxSteers /\ r.steers <= r.said /\ r.said \in 0 .. MaxSteers /\ r.stopped \in BOOLEAN
          /\ r.round \in 0 .. MaxAppRounds /\ r.n \in Nat /\ r.plan \in Items \cup {NoItem} /\ rest \in Seq(Calls) /\ "calls" \in AlivePcs
      BY <1>3, <1>5
    <3> QED BY <2>2, <3>1, RunWithIs
  <2>4. Emits(k, run, <<>>, <<thing>>)
    BY <1>1, <1>2, <1>7, <2>1 DEF Resumed
  <2>5. RunGoesOn(w, p, k, run, {thing}) /\ run.pc # "over"
    <3>1. run.pc \in AlivePcs /\ CallsOK(run) /\ {thing} \in SUBSET Items /\ r.n <= run.n
      BY <1>3, <1>5, <2>3 DEF CallsOK
    <3> QED BY <1>1, <1>3, <2>3, <3>1, GoesOnMade
  <2> QED BY <1>4, <1>5, <2>4, <2>5, DoneInv
<1> QED BY <1>6, <1>7

LEMMA ApprovesInv ==
  ASSUME AppInv, NEW c \in page.cards, NEW ok \in BOOLEAN, Approves(c, ok)
  PROVE  AppInv'
<1>1. PICK w, p : w = wire /\ p = page
  OBVIOUS
<1>2. AppInvAt(w, p) /\ p \in Pages /\ p.pc = "up" /\ c \in p.cards
  BY <1>1, AppNow DEF AppInv, Approves, Usable
<1>3. PICK q : q = CardOff(p, c)
  OBVIOUS
<1>4. page' = q /\ UNCHANGED <<checkout, sessions, making, deleting, job>>
  BY <1>1, <1>3 DEF Approves, CardOff
<1>5. Trimmed(p, q) /\ c.on \notin q.asks
  BY <1>2, <1>3, CardGone
<1>6. AppInvAt(w, q) /\ q.pc = p.pc
  BY <1>2, <1>5, TrimmedInv DEF Trimmed
<1>7. CASE UNCHANGED <<runs, rows, wire>>
  BY <1>1, <1>4, <1>6, <1>7, AppInvThere
<1>8. CASE sessions[c.on] = c.item.run /\ Held(c.on).pc = "asking" /\ Held(c.on).n = c.item.n /\ Resumed(sessions[c.on], ok)
  <2>1. PICK k, t : k = sessions[c.on] /\ t = c.on
    OBVIOUS
  <2>2. t \in AppThreads
    BY <1>2, <2>1, PageIs DEF Cards
  <2>3. k # 0
    BY <1>8, <2>1, NoRunIs DEF Held
  <2>4. k \in RunIds /\ Goes(k) /\ runs[k].on = t
    BY <1>2, <2>1, <2>2, <2>3, AppNow DEF RunsInv
  <2>5. runs[k].pc = "asking" /\ runs[k].n = c.item.n /\ c.item.run = k
    BY <1>8, <2>1, <2>3 DEF Held
  <2>6. Unasked(w, q, t, k)
    <3>1. ASSUME NEW i \in 1 .. Len(w), w[i].kind = "ask", w[i].item.run = k PROVE FALSE
      <4>1. PICK a, b : a = w[i].item.n /\ b = c.item.n
        OBVIOUS
      <4>2. a <= b /\ b < a
        BY <1>2, <2>4, <2>5, <3>1, <4>1, AppNow DEF AsksInv
      <4>3. a \in Nat /\ b \in Nat
        BY <1>2, <3>1, <4>1, AppNow, PageIs DEF Shapes, Cards, Items
      <4> QED BY <4>2, <4>3
    <3> QED BY <1>5, <2>1, <3>1 DEF Unasked
  <2>7. Resumed(k, ok)
    BY <1>8, <2>1
  <2> QED BY <1>1, <1>4, <1>6, <2>4, <2>5, <2>6, <2>7, ResumedInv
<1> QED BY <1>7, <1>8 DEF Approves

(* A turn that is told to stop.                                            *)
LEMMA CancelledIs ==
  ASSUME AppInv, NEW k \in RunIds, Goes(k), NEW r, r = runs[k], NEW run, run = Cancelled(k)
  PROVE  /\ run \in RunRecs /\ run.on = r.on /\ run.pc \in AlivePcs /\ run.n = r.n /\ run.stopped = TRUE /\ run.plan = r.plan
         /\ CallsOK(run) /\ (r.pc \in {"running", "killed"} => run.pc \in {"running", "killed"}) /\ run.pc \notin {"asking"}
<1>1. PICK w, p : w = wire /\ p = page
  OBVIOUS
<1>2. PICK rest : rest = Tail(r.calls)
  OBVIOUS
<1>3. /\ r = RunWith(r, r.pc, r.calls, r.steers, r.said, r.stopped, r.round, r.n, r.plan)
      /\ r \in RunRecs /\ r.calls \in Seq(Calls) /\ r.n \in Nat
      /\ r.steers \in 0 .. MaxSteers /\ r.steers <= r.said /\ r.said \in 0 .. MaxSteers /\ r.stopped \in BOOLEAN /\ r.round \in 0 .. MaxAppRounds
      /\ r.plan \in Items \cup {NoItem}
      /\ (r.pc = "asking" => r.calls # <<>>) /\ (r.pc \in {"running", "killed"} => r.calls # <<>>)
  BY <1>1, RunHere
<1>4. r.pc \in AlivePcs
  BY DEF Goes
<1>5. CASE r.pc = "asking"
  <2>1. PICK yes : yes = TRUE
    OBVIOUS
  <2>2. run = [r EXCEPT !.stopped = yes, !.pc = "calls", !.calls = rest]
    BY <1>2, <1>5, <2>1 DEF Cancelled
  <2>3. run = RunWith(r, "calls", rest, r.steers, r.said, yes, r.round, r.n, r.plan)
    BY <1>3, <2>2 DEF RunWith
  <2>4. rest \in Seq(Calls) /\ "calls" \in AlivePcs /\ yes \in BOOLEAN
    BY <1>2, <1>3, <1>5, <2>1 DEF AlivePcs
  <2>5. /\ r \in RunRecs /\ r.n \in Nat
        /\ r.steers \in 0 .. MaxSteers /\ r.steers <= r.said /\ r.said \in 0 .. MaxSteers /\ r.round \in 0 .. MaxAppRounds
        /\ r.plan \in Items \cup {NoItem}
    BY <1>3
  <2>6. run \in RunRecs /\ run.on = r.on /\ run.pc = "calls" /\ run.n = r.n /\ run.stopped = yes /\ run.plan = r.plan
    <3>1. r.on \in Threads /\ r.demo \in BOOLEAN /\ r.mode \in Modes \cup {"agent"}
      BY <2>5, RunIs
    <3>2. run \in RunRecs
      BY <2>3, <2>4, <2>5, <3>1 DEF RunWith, RunRecs, RunShapes
    <3>3. run.on = r.on /\ run.pc = "calls" /\ run.n = r.n /\ run.stopped = yes /\ run.plan = r.plan
      BY <2>3 DEF RunWith
    <3> QED BY <3>2, <3>3
  <2> QED BY <1>5, <2>1, <2>4, <2>6 DEF CallsOK
<1>6. CASE r.pc # "asking"
  <2>1. PICK yes, pc : yes = TRUE /\ pc = IF r.pc = "running" THEN "killed" ELSE r.pc
    OBVIOUS
  <2>2. run = [r EXCEPT !.stopped = yes, !.pc = pc]
    BY <1>6, <2>1 DEF Cancelled
  <2>3. run = RunWith(r, pc, r.calls, r.steers, r.said, yes, r.round, r.n, r.plan)
    BY <1>3, <2>2 DEF RunWith
  <2>4. pc \in AlivePcs /\ yes \in BOOLEAN /\ pc # "asking"
    BY <1>4, <1>6, <2>1 DEF AlivePcs
  <2>5. /\ r \in RunRecs /\ r.n \in Nat /\ r.calls \in Seq(Calls)
        /\ r.steers \in 0 .. MaxSteers /\ r.steers <= r.said /\ r.said \in 0 .. MaxSteers /\ r.round \in 0 .. MaxAppRounds
        /\ r.plan \in Items \cup {NoItem}
    BY <1>3
  <2>6. run \in RunRecs /\ run.on = r.on /\ run.pc = pc /\ run.n = r.n /\ run.stopped = yes /\ run.plan = r.plan /\ run.calls = r.calls
    <3>1. r.on \in Threads /\ r.demo \in BOOLEAN /\ r.mode \in Modes \cup {"agent"}
      BY <2>5, RunIs
    <3>2. run \in RunRecs
      BY <2>3, <2>4, <2>5, <3>1 DEF RunWith, RunRecs, RunShapes
    <3>3. run.on = r.on /\ run.pc = pc /\ run.n = r.n /\ run.stopped = yes /\ run.plan = r.plan /\ run.calls = r.calls
      BY <2>3 DEF RunWith
    <3> QED BY <3>2, <3>3
  <2>7. CallsOK(run)
    BY <1>3, <2>1, <2>4, <2>6 DEF CallsOK
  <2> QED BY <1>6, <2>1, <2>4, <2>6, <2>7
<1> QED BY <1>5, <1>6

LEMMA CancelSays ==
  ASSUME AppInv, NEW k \in RunIds, Goes(k), NEW tells, tells = CancelTells(k)
  PROVE  tells = <<>> \/ \E x \in Items : tells = <<x>>
<1>1. PICK w, p, r : w = wire /\ p = page /\ r = runs[k]
  OBVIOUS
<1>2. r.n \in Nat
  BY <1>1, RunHere
<1>3. \A call : Item(KindOf(call), k, r.n) \in Items
  <2>1. \A call : KindOf(call) \in ItemKinds
    BY DEF KindOf, ItemKinds
  <2> QED BY <1>2, <2>1, ItemMade
<1> QED BY <1>1, <1>3 DEF CancelTells

LEMMA StopsInv ==
  ASSUME AppInv, Stops
  PROVE  AppInv'
<1>1. PICK w, p, t : w = wire /\ p = page /\ t = page.active
  OBVIOUS
<1>2. AppInvAt(w, p) /\ p \in Pages /\ t \in AppThreads
  BY <1>1, AppNow, PageIs DEF AppInv, Stops, Threads
<1>3. PICK k : k = sessions[t]
  OBVIOUS
<1>4. k # 0
  BY <1>1, <1>3, NoRunIs DEF Stops, Held
<1>5. k \in RunIds /\ Goes(k)
  BY <1>2, <1>3, <1>4, AppNow DEF RunsInv
<1>6. PICK run, tells, r : run = Cancelled(k) /\ tells = CancelTells(k) /\ r = runs[k]
  OBVIOUS
<1>7. Emits(k, run, <<>>, tells) /\ UNCHANGED <<sessions, checkout, making, deleting, job>> /\ page' = p
  BY <1>1, <1>3, <1>6 DEF Stops, mainRest
<1>8. /\ run \in RunRecs /\ run.on = r.on /\ run.pc \in AlivePcs /\ run.n = r.n /\ run.stopped = TRUE /\ run.plan = r.plan
      /\ CallsOK(run) /\ (r.pc \in {"running", "killed"} => run.pc \in {"running", "killed"})
  BY <1>5, <1>6, CancelledIs
<1>9. r \in RunRecs /\ r.n <= r.n /\ PageGrown(p, p, {})
  BY <1>1, <1>5, <1>6, RunHere
<1>10. ASSUME NEW items \in SUBSET Items PROVE RunGoesOn(w, p, k, run, items) /\ run.pc # "over"
  BY <1>5, <1>6, <1>8, <1>9, GoesOnMade
<1>11. CASE tells = <<>>
  <2>1. RunGoesOn(w, p, k, run, {}) /\ run.pc # "over"
    BY <1>10
  <2> QED BY <1>1, <1>2, <1>5, <1>7, <1>9, <1>11, <2>1, NoneInv
<1>12. CASE \E x \in Items : tells = <<x>>
  <2>1. PICK x \in Items : tells = <<x>>
    BY <1>12
  <2>2. RunGoesOn(w, p, k, run, {x}) /\ run.pc # "over"
    BY <1>10
  <2>3. Emits(k, run, <<>>, <<x>>)
    BY <1>7, <2>1
  <2> QED BY <1>1, <1>2, <1>5, <1>7, <1>9, <2>2, <2>3, DoneInv
<1> QED BY <1>5, <1>6, <1>11, <1>12, CancelSays

(* A turn begins: the first that is free takes the thread.                 *)
LEMMA FirstFree ==
  ASSUME FreeRuns # {}
  PROVE  ThisRun \in RunIds /\ runs[ThisRun].pc = "none"
<1>1. FreeRuns \subseteq Nat
  BY AppConstants DEF FreeRuns, RunIds
<1>2. PICK S : S = FreeRuns
  OBVIOUS
<1>3. \E m \in S : \A j \in S : m <= j
  BY <1>1, <1>2, Least
<1>4. ThisRun \in FreeRuns
  BY <1>2, <1>3 DEF ThisRun
<1> QED BY <1>4 DEF FreeRuns

NotNew(w, p, t) ==
  p.pc = "up" /\ ~p.raced => /\ \A d \in making : d[1] = t => d[2] # p.opened
                             /\ \A i \in 1 .. Len(w) : w[i].on = t => w[i].kind \notin {"created", "listed"}
Starting(k, t, run, thing) ==
  /\ runs[k].pc = "none" /\ run \in RunRecs /\ run.on = t /\ run.pc \in {"top", "calls"} /\ run.plan = NoItem
  /\ thing \in Items /\ sessions[t] = 0 /\ rows[t].state \in {"unused", "here"}
  /\ runs' = [runs EXCEPT ![k] = run] /\ sessions' = [sessions EXCEPT ![t] = k]
  /\ rows' \in [AppThreads -> RowRecs] /\ rows'[t].state = "here" /\ rows'[t].items = rows[t].items \cup {thing}
  /\ \A u \in AppThreads : u # t => rows'[u] = rows[u]
  /\ UNCHANGED <<checkout, making, deleting, job>>
ToldStart(t, e) ==
  /\ Events(e) /\ \A h \in 1 .. Len(e) : e[h].on = t /\ e[h].kind \in {"auto", "start"}
  /\ \E h \in 1 .. Len(e) : e[h].kind = "start"
SeenStart(w, p, t, thing, X) ==
  /\ X \subseteq {thing} /\ (X # {} => p.pc = "up" /\ p.active = t)
  /\ p.pc = "up" /\ ~p.raced /\ p.active = t /\ p.sending = "no" => thing \in X /\ \A i \in 1 .. Len(w) : w[i].kind # "got"

LEMMA StartFacts ==
  ASSUME NEW w, NEW p, AppInvAt(w, p), NEW k \in RunIds, NEW t \in AppThreads, NEW run, NEW thing, Starting(k, t, run, thing)
  PROVE  /\ runs' \in [RunIds -> RunRecs] /\ runs'[k] = run /\ Goes(k)' /\ ~Goes(k) /\ k # 0
         /\ \A j \in RunIds : j # k => runs'[j] = runs[j] /\ (Goes(j)' <=> Goes(j))
         /\ sessions' \in [AppThreads -> 0 .. MaxAppTurns] /\ sessions'[t] = k
         /\ \A u \in AppThreads : u # t => sessions'[u] = sessions[u]
         /\ \A u \in AppThreads : (Stays(u)' <=> Stays(u)) /\ (Leaving(u)' <=> Leaving(u))
<1>1. /\ runs \in [RunIds -> RunRecs] /\ sessions \in [AppThreads -> 0 .. MaxAppTurns]
  BY AppNow
<1>2. runs' = [runs EXCEPT ![k] = run] /\ sessions' = [sessions EXCEPT ![t] = k] /\ run \in RunRecs /\ run.pc \in {"top", "calls"}
      /\ runs[k].pc = "none" /\ deleting' = deleting
  BY DEF Starting
<1>3. k \in 0 .. MaxAppTurns /\ k # 0
  BY AppConstants DEF RunIds
<1>4. /\ runs' \in [RunIds -> RunRecs] /\ runs'[k] = run
      /\ \A j \in RunIds : j # k => runs'[j] = runs[j]
      /\ sessions' \in [AppThreads -> 0 .. MaxAppTurns] /\ sessions'[t] = k
      /\ \A u \in AppThreads : u # t => sessions'[u] = sessions[u]
  BY <1>1, <1>2, <1>3
<1>5. Goes(k)' /\ ~Goes(k)
  BY <1>2, <1>4 DEF Goes, AlivePcs
<1>6. \A j \in RunIds : j # k => (Goes(j)' <=> Goes(j))
  BY <1>4 DEF Goes
<1>7. \A u \in AppThreads : (Leaving(u)' <=> Leaving(u))
  BY <1>2 DEF Leaving
<1>8. \A u \in AppThreads : (Stays(u)' <=> Stays(u))
  BY <1>7 DEF Stays, Starting
<1> QED BY <1>3, <1>4, <1>5, <1>6, <1>7, <1>8

LEMMA StartRuns ==
  ASSUME NEW w, NEW p, AppInvAt(w, p), NEW k \in RunIds, NEW t \in AppThreads, NEW run, NEW thing, Starting(k, t, run, thing)
  PROVE  RunsInv'
<1>1. /\ run.on = t /\ run.pc \in {"top", "calls"} /\ sessions[t] = 0 /\ rows'[t].state = "here"
      /\ \A u \in AppThreads : u # t => rows'[u] = rows[u]
  BY DEF Starting
<1>2. ASSUME NEW j \in RunIds, Goes(j)', NEW u, u = runs'[j].on
      PROVE  /\ u \in AppThreads /\ rows'[u].state # "unused" /\ (Stays(u)' => sessions'[u] = j)
             /\ (runs'[j].pc = "asking" => runs'[j].calls # <<>> /\ Head(runs'[j].calls) \in {"risky", "outside"})
             /\ (runs'[j].pc \in {"running", "killed"} => runs'[j].calls # <<>>)
  <2>1. CASE j = k
    BY <1>1, <1>2, <2>1, StartFacts
  <2>2. CASE j # k
    <3>1. runs'[j] = runs[j] /\ Goes(j) /\ u = runs[j].on /\ j # 0
      BY <1>2, <2>2, AppConstants, StartFacts DEF RunIds
    <3>2. RunsInv
      BY AppNow
    <3>3. /\ u \in AppThreads /\ rows[u].state # "unused" /\ (Stays(u) => sessions[u] = j)
          /\ (runs[j].pc = "asking" => runs[j].calls # <<>> /\ Head(runs[j].calls) \in {"risky", "outside"})
          /\ (runs[j].pc \in {"running", "killed"} => runs[j].calls # <<>>)
      BY <3>1, <3>2 DEF RunsInv
    <3>4. rows'[u].state # "unused"
      BY <1>1, <3>3
    <3>5. Stays(u)' => sessions'[u] = j
      BY <1>1, <3>1, <3>3, StartFacts
    <3> QED BY <3>1, <3>3, <3>4, <3>5
  <2> QED BY <2>1, <2>2
<1>3. ASSUME NEW u \in AppThreads, NEW j, j = sessions'[u], j # 0 PROVE Goes(j)' /\ runs'[j].on = u
  <2>1. CASE u = t
    BY <1>1, <1>3, <2>1, StartFacts
  <2>2. CASE u # t
    <3>1. j = sessions[u]
      BY <1>3, <2>2, StartFacts
    <3>2. j \in RunIds /\ Goes(j) /\ runs[j].on = u
      BY <1>3, <3>1, AppNow DEF RunsInv
    <3>3. j # k
      BY <3>2, StartFacts
    <3> QED BY <3>2, <3>3, StartFacts
  <2> QED BY <2>1, <2>2
<1> QED BY <1>2, <1>3, RunsInvMade

LEMMA StartFollow ==
  ASSUME NEW w, NEW p, AppInvAt(w, p), NEW k \in RunIds, NEW t \in AppThreads, NEW run, NEW thing, Starting(k, t, run, thing),
         NEW e, ToldStart(t, e), NEW X, SeenStart(w, p, t, thing, X), NotNew(w, p, t)
  PROVE  Follow(w, p, e, X) /\ UnusedFollow(e)
<1>1. /\ run.on = t /\ run.pc \in {"top", "calls"} /\ run.plan = NoItem /\ sessions[t] = 0 /\ rows'[t].state = "here"
      /\ rows'[t].items = rows[t].items \cup {thing} /\ deleting' = deleting
      /\ \A u \in AppThreads : u # t => rows'[u] = rows[u]
  BY DEF Starting
<1>2. /\ \A h \in 1 .. Len(e) : e[h].on = t /\ e[h].kind \in {"auto", "start"}
      /\ \E h \in 1 .. Len(e) : e[h].kind = "start"
  BY DEF ToldStart
<1>3. MarksFollow(e)
  <2> SUFFICES ASSUME NEW u \in AppThreads, Stays(u)'
               PROVE  /\ Stays(u) /\ ((\E h \in 1 .. Len(e) : Marks(e[h], u)) \/ (sessions'[u] = 0 <=> sessions[u] = 0))
                      /\ \A h \in 1 .. Len(e) : Marks(e[h], u) => (Says(e[h], u) <=> sessions'[u] # 0)
    BY DEF MarksFollow
  <2>1. CASE u = t
    <3>1. \E h \in 1 .. Len(e) : Marks(e[h], u)
      BY <1>2, <2>1 DEF Marks
    <3>2. \A h \in 1 .. Len(e) : Says(e[h], u)
      BY <1>2 DEF Says
    <3>3. sessions'[u] # 0
      BY <2>1, StartFacts
    <3> QED BY <3>1, <3>2, <3>3, StartFacts
  <2>2. CASE u # t
    <3>1. \A h \in 1 .. Len(e) : ~Marks(e[h], u)
      BY <1>2, <2>2 DEF Marks
    <3> QED BY <2>2, <3>1, StartFacts
  <2> QED BY <2>1, <2>2
<1>4. AsksFollow(w, p, e)
  <2>1. ASSUME NEW u \in AppThreads, Stays(u)', sessions[u] # 0
        PROVE  sessions'[u] = sessions[u] /\ AskStands(w, p, u, sessions[u])
    <3>1. PICK j : j = sessions[u]
      OBVIOUS
    <3>2. j \in RunIds /\ Goes(j)
      BY <2>1, <3>1, AppNow DEF RunsInv
    <3>3. runs'[j] = runs[j]
      BY <3>2, StartFacts
    <3>4. AskStands(w, p, u, j)
      BY <3>3 DEF AskStands
    <3>5. sessions'[u] = sessions[u]
      BY <1>1, <2>1, StartFacts
    <3> QED BY <3>1, <3>4, <3>5
  <2>2. \A h \in 1 .. Len(e) : e[h].kind # "ask"
    BY <1>2
  <2>3. ASSUME NEW j \in RunIds, runs[j].pc # "none"
        PROVE  runs'[j].pc # "none" /\ (Goes(j)' => Goes(j) /\ runs[j].n <= runs'[j].n)
    <3>1. j # k
      BY <2>3 DEF Starting
    <3>2. runs'[j] = runs[j] /\ (Goes(j)' <=> Goes(j)) /\ runs[j].n \in Nat
      BY <3>1, AppNow, StartFacts DEF RunRecs, RunShapes
    <3>3. runs[j].n <= runs[j].n
      BY <3>2
    <3> QED BY <2>3, <3>2, <3>3
  <2> QED BY <2>1, <2>2, <2>3, StartFacts DEF AsksFollow
<1>5. ASSUME NEW u \in AppThreads, Stays(u)'
      PROVE  Stays(u) /\ Known(u) \subseteq Known(u)' /\ (u = t => thing \in Known(u)')
  <2>1. Stays(u)
    BY <1>5, StartFacts
  <2>2. CASE u = t
    <3>1. Known(u) = rows[t].items
      BY <1>1, <2>2 DEF Known
    <3>2. rows'[t].items \subseteq Known(u)'
      BY <2>2 DEF Known
    <3> QED BY <1>1, <2>1, <3>1, <3>2
  <2>3. CASE u # t
    <3>1. rows'[u] = rows[u] /\ sessions'[u] = sessions[u]
      BY <1>1, <2>3, StartFacts
    <3>2. CASE sessions[u] = 0
      BY <2>1, <2>3, <3>1, <3>2 DEF Known
    <3>3. CASE sessions[u] # 0
      <4>1. PICK j : j = sessions[u]
        OBVIOUS
      <4>2. j \in RunIds /\ Goes(j)
        BY <3>3, <4>1, AppNow DEF RunsInv
      <4>3. runs'[j] = runs[j]
        BY <4>2, StartFacts
      <4>4. OnWay(j)' = OnWay(j)
        BY <4>3 DEF OnWay
      <4>5. Known(u) = rows[u].items \cup OnWay(j) /\ Known(u)' = rows'[u].items \cup OnWay(j)'
        BY <3>1, <3>3, <4>1 DEF Known, OnWay
      <4> QED BY <2>1, <2>3, <3>1, <4>4, <4>5
    <3> QED BY <3>2, <3>3
  <2> QED BY <2>2, <2>3
<1>6. TellsFollow(e)
  <2>1. \A u \in AppThreads, h \in 1 .. Len(e) : ~Tells(e[h], u)
    BY <1>2 DEF Tells
  <2> QED BY <1>5, <2>1 DEF TellsFollow
<1>7. NewFollow(w, p)
  <2>1. ASSUME NEW u \in AppThreads, u # t, Bare(u) PROVE Bare(u)'
    BY <1>1, <2>1, StartFacts DEF Bare
  <2>2. \A d \in making : d[1] \in AppThreads
    BY AppNow DEF Shapes
  <2>3. \A i \in 1 .. Len(w) : w[i].kind \in {"created", "listed"} => w[i].on \in AppThreads
    BY AppNow DEF Shapes
  <2> QED BY <2>1, <2>2, <2>3 DEF NewFollow, NotNew
<1>8. ShownFollow(w, p, e, X)
  <2>1. PICK a : a = p.active
    OBVIOUS
  <2> SUFFICES ASSUME p.pc = "up", ~p.raced, a \in AppThreads, p.sending = "no", Stays(a)'
               PROVE  /\ X \subseteq Known(a)'
                      /\ \A x \in rows'[a].items : \/ x \in rows[a].items \/ (x \in X /\ \A i \in 1 .. Len(w) : w[i].kind # "got")
    BY <2>1 DEF ShownFollow
  <2>2. CASE a = t
    <3>1. X \subseteq {thing} /\ thing \in X /\ \A i \in 1 .. Len(w) : w[i].kind # "got"
      BY <2>1, <2>2 DEF SeenStart
    <3> QED BY <1>1, <1>5, <2>2, <3>1
  <2>3. CASE a # t
    <3>1. X = {}
      BY <2>1, <2>3 DEF SeenStart
    <3> QED BY <1>1, <2>3, <3>1
  <2> QED BY <2>2, <2>3
<1>9. UnusedFollow(e)
  <2> SUFFICES ASSUME NEW u \in AppThreads, rows'[u].state = "unused"
               PROVE  /\ rows[u].state = "unused" /\ rows'[u].items = rows[u].items /\ sessions'[u] = sessions[u] /\ ~Leaving(u)'
                      /\ \A h \in 1 .. Len(e) : e[h].on # u
    BY DEF UnusedFollow
  <2>1. u # t /\ rows'[u] = rows[u]
    BY <1>1
  <2>2. ~Leaving(u)
    BY <2>1, AppNow DEF UnusedInv
  <2> QED BY <1>2, <2>1, <2>2, StartFacts
<1> QED BY <1>3, <1>4, <1>6, <1>7, <1>8, <1>9 DEF Follow

LEMMA StartInv ==
  ASSUME NEW w, NEW p, AppInvAt(w, p), NEW k \in RunIds, NEW t \in AppThreads, NEW run, NEW thing, Starting(k, t, run, thing),
         NEW e, ToldStart(t, e), NEW X, SeenStart(w, p, t, thing, X), NotNew(w, p, t), Len(w) + Len(e) <= MaxWire, Tell(w, p, e),
         NEW q, page' = q, PageGrown(p, q, X)
  PROVE  AppInv'
<1>1. Follow(w, p, e, X) /\ UnusedFollow(e)
  BY StartFollow
<1>2. RunsInv'
  BY StartRuns
<1>3. SameState
  <2>1. /\ rows' \in [AppThreads -> RowRecs] /\ runs' \in [RunIds -> RunRecs] /\ sessions' \in [AppThreads -> 0 .. MaxAppTurns]
    BY StartFacts DEF Starting
  <2>2. /\ job' \in {"none", "on"} /\ checkout' \in BOOLEAN /\ making' = making
        /\ deleting' \subseteq AppThreads \X (1 .. MaxWindows) \X {"project", "tree"}
    BY AppNow DEF Shapes, Starting
  <2> QED BY <2>1, <2>2 DEF SameState
<1>4. DeletingOK(p)
  BY AppNow DEF PageInv, DeletingOK, Starting
<1>5. Events(e) /\ (p.pc # "up" => X = {})
  BY DEF ToldStart, SeenStart
<1> QED BY <1>1, <1>2, <1>3, <1>4, <1>5, TurnStepInv

StartedAs(run, t, demo, mode, calls) ==
  run = [NoRun EXCEPT !.on = t, !.demo = demo, !.mode = mode, !.calls = calls, !.pc = IF demo THEN "calls" ELSE "top"]
LEMMA StartIs ==
  ASSUME NEW t \in AppThreads, NEW demo \in BOOLEAN, NEW mode \in Modes, NEW calls \in Script(demo), NEW run,
         StartedAs(run, t, demo, mode, calls)
  PROVE  run \in RunRecs /\ run.on = t /\ run.pc \in {"top", "calls"} /\ run.plan = NoItem
<1>1. PICK r : r = NoRun
  OBVIOUS
<1>2. r \in RunRecs /\ r.plan = NoItem
  BY <1>1, NoRunIs
<1>3. PICK pc : pc = IF demo THEN "calls" ELSE "top"
  OBVIOUS
<1>4. run = [r EXCEPT !.on = t, !.demo = demo, !.mode = mode, !.calls = calls, !.pc = pc]
  BY <1>1, <1>3 DEF StartedAs
<1>5. r = [on |-> r.on, demo |-> r.demo, mode |-> r.mode, pc |-> r.pc, calls |-> r.calls, steers |-> r.steers, said |-> r.said,
           stopped |-> r.stopped, round |-> r.round, n |-> r.n, plan |-> r.plan]
  BY <1>2, RunIs
<1>6. run = [on |-> t, demo |-> demo, mode |-> mode, pc |-> pc, calls |-> calls, steers |-> r.steers, said |-> r.said,
             stopped |-> r.stopped, round |-> r.round, n |-> r.n, plan |-> r.plan]
  BY <1>4, <1>5
<1>7. t \in Threads /\ mode \in Modes \cup {"agent"} /\ pc \in AlivePcs \cup {"none", "over"} /\ calls \in Seq(Calls) /\ pc \in {"top", "calls"}
  <2>1. calls \in Seq(Calls)
    <3>1. CASE demo
      BY <3>1, AppConstants DEF Script
    <3>2. CASE ~demo
      <4>1. calls = <<>>
        BY <3>2 DEF Script
      <4> QED BY <4>1
    <3> QED BY <3>1, <3>2
  <2> QED BY <1>3, <2>1 DEF Threads, AlivePcs
<1>8. /\ r.steers \in 0 .. MaxSteers /\ r.steers <= r.said /\ r.said \in 0 .. MaxSteers /\ r.stopped \in BOOLEAN
      /\ r.round \in 0 .. MaxAppRounds /\ r.n \in Nat /\ r.plan \in Items \cup {NoItem}
  BY <1>2, RunIs
<1>9. run \in RunRecs
  BY <1>6, <1>7, <1>8 DEF RunRecs, RunShapes
<1> QED BY <1>2, <1>6, <1>7, <1>9

(* The row a turn starts with, and what is told of it.                     *)
RowsToStart(r, t) ==
  /\ r \in [AppThreads -> RowRecs] /\ r[t].state = "here" /\ r[t].items = rows[t].items /\ rows[t].state \in {"unused", "here"}
  /\ \A u \in AppThreads : u # t => r[u] = rows[u]
LEMMA StartsIs ==
  ASSUME NEW r, NEW q, NEW t \in AppThreads, NEW demo \in BOOLEAN, NEW mode \in Modes, NEW calls \in Script(demo),
         Starts(r, q, t, demo, mode, calls), RowsToStart(r, t), sessions[t] = 0, UNCHANGED <<checkout, making, deleting, job>>
  PROVE  \E k \in RunIds : \E run, thing : /\ Starting(k, t, run, thing) /\ thing = Item("user", k, 0) /\ k = ThisRun
                                          /\ wire' = Told(q, <<Msg("start", t, NoItem, {})>>)
<1>1. PICK k, run, thing : k = ThisRun /\ StartedAs(run, t, demo, mode, calls) /\ thing = Item("user", k, 0)
  BY DEF StartedAs
<1>2. k \in RunIds /\ runs[k].pc = "none"
  BY <1>1, FirstFree DEF Starts
<1>3. run \in RunRecs /\ run.on = t /\ run.pc \in {"top", "calls"} /\ run.plan = NoItem
  BY <1>1, StartIs
<1>4. thing \in Items
  <2>1. "user" \in ItemKinds /\ 0 \in Nat
    BY DEF ItemKinds
  <2> QED BY <1>1, <1>2, <2>1, ItemMade
<1>5. /\ rows' = Kept(r, t, {thing}) /\ runs' = [runs EXCEPT ![k] = run] /\ sessions' = [sessions EXCEPT ![t] = k]
      /\ wire' = Told(q, <<Msg("start", t, NoItem, {})>>)
  BY <1>1 DEF Starts, StartedAs
<1>6. /\ rows' \in [AppThreads -> RowRecs] /\ rows'[t].state = "here" /\ rows'[t].items = rows[t].items \cup {thing}
      /\ \A u \in AppThreads : u # t => rows'[u] = rows[u]
  <2>1. PICK s : s = rows[t].items \cup {thing}
    OBVIOUS
  <2>2. /\ r \in [AppThreads -> RowRecs] /\ r[t].state = "here" /\ r[t].items = rows[t].items
        /\ \A u \in AppThreads : u # t => r[u] = rows[u]
    BY DEF RowsToStart
  <2>3. rows' = [r EXCEPT ![t].items = s]
    BY <1>5, <2>1, <2>2 DEF Kept
  <2>4. r[t] \in RowRecs /\ s \in SUBSET Items
    BY <1>4, <2>1, <2>2 DEF RowRecs
  <2>9. PICK old : old = r[t]
    OBVIOUS
  <2>5. old = [state |-> old.state, tree |-> old.tree, dir |-> old.dir, items |-> old.items]
    BY <2>4, <2>9 DEF RowRecs
  <2>6. PICK row : row = [old EXCEPT !.items = s]
    OBVIOUS
  <2>10. row = [state |-> old.state, tree |-> old.tree, dir |-> old.dir, items |-> s]
    BY <2>5, <2>6
  <2>7. row \in RowRecs /\ row.state = r[t].state /\ row.items = s
    BY <2>4, <2>9, <2>10 DEF RowRecs
  <2>8. rows' = [u \in AppThreads |-> IF u = t THEN row ELSE r[u]]
    BY <2>2, <2>3, <2>6, <2>9
  <2> QED BY <2>1, <2>2, <2>7, <2>8
<1>7. Starting(k, t, run, thing)
  BY <1>2, <1>3, <1>4, <1>5, <1>6 DEF Starting, RowsToStart
<1> QED BY <1>1, <1>2, <1>5, <1>7

LEMMA StartMsg ==
  ASSUME NEW t \in AppThreads, NEW kind \in {"auto", "start"}, NEW m, m = Msg(kind, t, NoItem, {})
  PROVE  m \in Msgs /\ m.kind = kind /\ m.on = t
<1>1. kind \in MsgKinds /\ t \in Threads /\ NoItem \in Items \cup {NoItem} /\ {} \in SUBSET (AppThreads \cup Items)
  BY DEF MsgKinds, Threads
<1>2. m \in Msgs
  BY <1>1, MsgMade
<1> QED BY <1>2 DEF Msg

(* The automation is due, or told to run.                                  *)
LEMMA AutomationRunsInv ==
  ASSUME AppInv, NEW t \in AppThreads, NEW demo \in BOOLEAN, NEW mode \in Modes, NEW calls \in Script(demo),
         AutomationRuns(t, demo, mode, calls)
  PROVE  AppInv'
<1>1. PICK w, p : w = wire /\ p = page
  OBVIOUS
<1>2. AppInvAt(w, p) /\ w \in Seq(Msgs) /\ Len(w) \in Nat /\ p \in Pages
  BY <1>1, AppNow DEF AppInv
<1>3. PICK r, auto, start : r = [rows EXCEPT ![t] = [Unused EXCEPT !.state = "here"]] /\ auto = Msg("auto", t, NoItem, {})
                            /\ start = Msg("start", t, NoItem, {})
  OBVIOUS
<1>4. PICK q : q = Told(wire, <<auto>>)
  OBVIOUS
<1>5. /\ rows[t].state = "unused" /\ Len(wire) + 2 <= MaxWire /\ UNCHANGED <<checkout, making, deleting, job>> /\ page' = p
      /\ Starts(r, q, t, demo, mode, calls)
  BY <1>1, <1>3, <1>4 DEF AutomationRuns, Room
<1>6. UnusedInv(w, p)
  BY <1>2, AppNow
<1>7. /\ rows[t].items = {} /\ sessions[t] = 0 /\ p.active # t
      /\ \A i \in 1 .. Len(w) : w[i].on # t
      /\ \A d \in making : d[1] # t
  BY <1>5, <1>6 DEF UnusedInv
<1>8. RowsToStart(r, t)
  <2>1. PICK row : row = [Unused EXCEPT !.state = "here"]
    OBVIOUS
  <2>2. PICK none : none = {}
    OBVIOUS
  <2>3. row = [state |-> "here", tree |-> FALSE, dir |-> "project", items |-> none]
    BY <2>1, <2>2 DEF Unused
  <2>4. row \in RowRecs /\ row.state = "here" /\ row.items = none
    <3>1. none \in SUBSET Items /\ FALSE \in BOOLEAN
      BY <2>2
    <3> QED BY <2>3, <3>1 DEF RowRecs
  <2>5. r = [rows EXCEPT ![t] = row] /\ rows \in [AppThreads -> RowRecs]
    BY <1>2, <1>3, <2>1, AppNow
  <2> QED BY <1>5, <1>7, <2>2, <2>4, <2>5 DEF RowsToStart
<1>9. PICK k \in RunIds : \E run, thing : Starting(k, t, run, thing) /\ wire' = Told(q, <<Msg("start", t, NoItem, {})>>)
  BY <1>5, <1>7, <1>8, StartsIs
<1>18. PICK run, thing : Starting(k, t, run, thing) /\ wire' = Told(q, <<Msg("start", t, NoItem, {})>>)
  BY <1>9
<1>10. auto \in Msgs /\ auto.kind = "auto" /\ auto.on = t /\ start \in Msgs /\ start.kind = "start" /\ start.on = t
  <2>1. "auto" \in {"auto", "start"} /\ "start" \in {"auto", "start"}
    OBVIOUS
  <2> QED BY <1>3, <2>1, StartMsg
<1>11. PICK e : e = <<auto, start>>
  OBVIOUS
<1>12. e \in Seq(Msgs) /\ Len(e) = 2 /\ 1 .. Len(e) = {1, 2} /\ e[1] = auto /\ e[2] = start
  BY <1>10, <1>11
<1>13. ToldStart(t, e)
  <2>1. \A h \in 1 .. Len(e) : e[h] \in {auto, start}
    BY <1>12
  <2>2. Events(e)
    BY <1>10, <1>12, <2>1 DEF Events, EventKinds
  <2> QED BY <1>10, <1>12, <2>1, <2>2 DEF ToldStart
<1>14. SeenStart(w, p, t, thing, {})
  BY <1>7 DEF SeenStart
<1>15. NotNew(w, p, t)
  BY <1>7 DEF NotNew
<1>16. Tell(w, p, e)
  <2>1. (w \o <<auto>>) \o <<start>> = w \o e
    <3>1. PICK a, b : a = <<auto>> /\ b = <<start>>
      OBVIOUS
    <3>2. a \in Seq(Msgs) /\ b \in Seq(Msgs)
      BY <1>10, <3>1
    <3>3. (w \o a) \o b = w \o (a \o b)
      BY <1>2, <3>2, ConcatAssociative
    <3>4. a \o b = e
      <4>1. e = Append(a, start)
        BY <1>10, <1>11, <3>1
      <4> QED BY <1>10, <3>1, <3>2, <4>1, AppendIsConcat
    <3> QED BY <3>1, <3>3, <3>4
  <2> QED BY <1>1, <1>3, <1>4, <1>18, <2>1 DEF Tell, Told
<1>17. PageGrown(p, p, {}) /\ Len(w) + Len(e) <= MaxWire
  BY <1>1, <1>2, <1>5, <1>12 DEF PageGrown
<1> QED BY <1>2, <1>5, <1>18, <1>13, <1>14, <1>15, <1>16, <1>17, StartInv

(* A window that waited for something when it was used.                    *)
LEMMA RacedIs ==
  ASSUME AppInv, page.pc = "up", NEW p, p = page, NEW q, q = Raced(page)
  PROVE  Trimmed(p, q) /\ AppInvAt(wire, q) /\ (~q.raced => ~Waits /\ ~p.raced)
<1>1. AppInvAt(wire, p) /\ p \in Pages
  <2>1. AppInvAt(wire, p)
    BY DEF AppInv
  <2> QED BY <2>1, AppNow
<1>2. PICK b : b = (page.raced \/ Waits)
  OBVIOUS
<1>3. q = [p EXCEPT !.raced = b]
  BY <1>2 DEF Raced
<1>4. p = PageFrom(p)
  BY <1>1, PageShape
<1>5. q = PageRec(p.pc, p.listed, p.active, p.shown, p.cards, p.running, p.asks, p.describing, p.sending, b, p.opened)
  BY <1>3, <1>4 DEF PageRec, PageFrom
<1>6. /\ p.pc \in {"closed", "loading", "up"} /\ p.listed \in SUBSET AppThreads /\ p.active \in Threads /\ p.shown \in SUBSET Items
      /\ p.cards \in SUBSET Cards /\ p.running \in SUBSET AppThreads /\ p.asks \in SUBSET AppThreads
      /\ p.describing \in SUBSET (SUBSET Items) /\ p.sending \in {"no", "creating", "listing"} /\ b \in BOOLEAN
      /\ p.opened \in 0 .. MaxWindows
  BY <1>1, <1>2, PageIs
<1>7. q \in Pages
  BY <1>5, <1>6 DEF Pages, PageRec
<1>8. /\ q.pc = p.pc /\ q.listed = p.listed /\ q.active = p.active /\ q.shown = p.shown /\ q.cards = p.cards
      /\ q.running = p.running /\ q.asks = p.asks /\ q.describing = p.describing /\ q.sending = p.sending /\ q.raced = b
      /\ q.opened = p.opened
  BY <1>5 DEF PageRec
<1>9. Trimmed(p, q)
  BY <1>2, <1>7, <1>8 DEF Trimmed
<1>10. AppInvAt(wire, q)
  BY <1>1, <1>9, TrimmedInv
<1> QED BY <1>2, <1>8, <1>9, <1>10

(* The window shows what was just said.                                    *)
Shown1(p, x) == [p EXCEPT !.shown = @ \cup {x}]
LEMMA ShownMore ==
  ASSUME NEW p \in Pages, NEW x \in Items, NEW q, q = Shown1(p, x)
  PROVE  PageGrown(p, q, {x})
<1>1. PICK s : s = p.shown \cup {x}
  OBVIOUS
<1>2. q = [p EXCEPT !.shown = s]
  BY <1>1 DEF Shown1
<1>3. p = PageFrom(p)
  BY PageShape
<1>4. q = PageRec(p.pc, p.listed, p.active, s, p.cards, p.running, p.asks, p.describing, p.sending, p.raced, p.opened)
  BY <1>2, <1>3 DEF PageRec, PageFrom
<1>5. /\ p.pc \in {"closed", "loading", "up"} /\ p.listed \in SUBSET AppThreads /\ p.active \in Threads /\ s \in SUBSET Items
      /\ p.cards \in SUBSET Cards /\ p.running \in SUBSET AppThreads /\ p.asks \in SUBSET AppThreads
      /\ p.describing \in SUBSET (SUBSET Items) /\ p.sending \in {"no", "creating", "listing"} /\ p.raced \in BOOLEAN
      /\ p.opened \in 0 .. MaxWindows
  BY <1>1, PageIs
<1>6. q \in Pages
  BY <1>4, <1>5 DEF Pages, PageRec
<1>7. /\ q.pc = p.pc /\ q.listed = p.listed /\ q.active = p.active /\ q.shown = s /\ q.cards = p.cards
      /\ q.running = p.running /\ q.asks = p.asks /\ q.describing = p.describing /\ q.sending = p.sending /\ q.raced = p.raced
      /\ q.opened = p.opened
  BY <1>4 DEF PageRec
<1> QED BY <1>1, <1>6, <1>7 DEF PageGrown

(* No thread is being read for a window that waited for nothing.           *)
NoneRead(w, p) == ~p.raced => \A i \in 1 .. Len(w) : w[i].kind # "got"

(* The message steers the turn of its thread.                              *)
Steered(k) == runs' = [runs EXCEPT ![k].steers = @ + 1, ![k].said = @ + 1]
LEMMA SteersInv ==
  ASSUME AppInv, NEW w, NEW p, AppInvAt(w, p), p.pc = "up", p.sending = "no", NoneRead(w, p),
         NEW t \in AppThreads, t = p.active, NEW k, k = sessions[t], k # 0, runs[k].said < MaxSteers,
         Steered(k), rows' = Kept(rows, t, {Steer(k)}), page' = Shown1(p, Steer(k)),
         wire' = w, UNCHANGED <<sessions, checkout, making, deleting, job>>
  PROVE  AppInv'
<1>1. k \in RunIds /\ Goes(k) /\ runs[k].on = t
  BY AppNow DEF RunsInv
<1>2. PICK r, x, n, m : r = runs[k] /\ x = Steer(k) /\ n = r.steers + 1 /\ m = r.said + 1
  OBVIOUS
<1>3. /\ r = RunWith(r, r.pc, r.calls, r.steers, r.said, r.stopped, r.round, r.n, r.plan)
      /\ r \in RunRecs /\ r.calls \in Seq(Calls) /\ r.n \in Nat /\ r.n <= r.n
      /\ r.steers \in 0 .. MaxSteers /\ r.steers <= r.said /\ r.said \in 0 .. MaxSteers /\ r.stopped \in BOOLEAN /\ r.round \in 0 .. MaxAppRounds
      /\ r.plan \in Items \cup {NoItem} /\ runs \in [RunIds -> RunRecs]
      /\ (r.pc = "asking" => r.calls # <<>> /\ Head(r.calls) \in {"risky", "outside"})
      /\ (r.pc \in {"running", "killed"} => r.calls # <<>>)
  <2>1. PICK ww, pp : ww = wire /\ pp = page
    OBVIOUS
  <2> QED BY <1>1, <1>2, <2>1, RunHere
<1>4. n \in 0 .. MaxSteers /\ m \in 0 .. MaxSteers /\ n <= m /\ m \in Nat
  <2>1. r.said < MaxSteers
    BY <1>2
  <2>2. PICK a, b, c \in Nat : a = r.steers /\ b = r.said /\ c = MaxSteers /\ a <= b /\ b < c
    BY <1>3, <2>1, AppConstants
  <2>3. a + 1 \in 0 .. c /\ b + 1 \in 0 .. c /\ a + 1 <= b + 1 /\ b + 1 \in Nat
    BY <2>2
  <2> QED BY <1>2, <2>2, <2>3
<1>5. PICK run : run = RunWith(r, r.pc, r.calls, n, m, r.stopped, r.round, r.n, r.plan)
  OBVIOUS
<1>6. runs' = [runs EXCEPT ![k] = run]
  <2>1. runs' = [runs EXCEPT ![k].steers = n, ![k].said = m]
    BY <1>2 DEF Steered
  <2>2. PICK a : a = [runs EXCEPT ![k].steers = n]
    OBVIOUS
  <2>3. runs' = [a EXCEPT ![k].said = m]
    BY <2>1, <2>2
  <2>4. PICK y, z : y = [r EXCEPT !.steers = n] /\ z = [y EXCEPT !.said = m]
    OBVIOUS
  <2>5. y = RunWith(r, r.pc, r.calls, n, r.said, r.stopped, r.round, r.n, r.plan)
    BY <1>3, <2>4 DEF RunWith
  <2>6. z = run
    <3>1. z = RunWith(r, r.pc, r.calls, n, m, r.stopped, r.round, r.n, r.plan)
      BY <2>4, <2>5 DEF RunWith
    <3> QED BY <1>5, <3>1
  <2>7. a = [j \in RunIds |-> IF j = k THEN y ELSE runs[j]]
    BY <1>2, <1>3, <2>2, <2>4
  <2>8. runs' = [j \in RunIds |-> IF j = k THEN z ELSE runs[j]]
    BY <1>1, <2>3, <2>4, <2>7
  <2> QED BY <1>3, <2>6, <2>8
<1>7. /\ run \in RunRecs /\ run.on = r.on /\ run.pc = r.pc /\ run.n = r.n /\ run.stopped = r.stopped /\ run.plan = r.plan /\ run.calls = r.calls
  <2>1. r.on \in Threads /\ r.demo \in BOOLEAN /\ r.mode \in Modes \cup {"agent"} /\ r.pc \in AlivePcs \cup {"none", "over"}
    BY <1>3, RunIs
  <2>2. run.on = r.on /\ run.pc = r.pc /\ run.n = r.n /\ run.stopped = r.stopped /\ run.plan = r.plan /\ run.calls = r.calls
        /\ run.steers = n /\ run.said = m
    BY <1>5 DEF RunWith
  <2>3. run \in RunShapes
    BY <1>3, <1>4, <1>5, <2>1 DEF RunWith, RunShapes
  <2> QED BY <1>4, <2>2, <2>3 DEF RunRecs
<1>8. x \in Items /\ {x} \in SUBSET Items
  <2>1. "steer" \in ItemKinds
    BY DEF ItemKinds
  <2> QED BY <1>1, <1>2, <1>4, <2>1, ItemMade DEF Steer
<1>9. RunGoesOn(w, p, k, run, {x})
  <2>1. run.pc \in AlivePcs
    BY <1>1, <1>2, <1>7 DEF Goes
  <2>2. CallsOK(run) /\ r.n <= run.n
    BY <1>3, <1>7 DEF CallsOK
  <2> QED BY <1>1, <1>2, <1>3, <1>7, <1>8, <2>1, <2>2, GoesOnMade
<1>10. run.pc # "over" /\ MovedTo(k, run, {x})
  <2>1. run.pc # "over"
    BY <1>1, <1>2, <1>7 DEF Goes, AlivePcs
  <2> QED BY <1>1, <1>2, <1>6, <2>1 DEF MovedTo
<1>11. PICK e : e = <<>>
  OBVIOUS
<1>12. e \in Seq(Msgs) /\ Len(e) = 0 /\ 1 .. Len(e) = {} /\ w \o e = w /\ Len(w) \in Nat /\ Len(w) <= MaxWire
  <2>1. w \in Seq(Msgs) /\ Len(w) \in Nat /\ Len(w) <= MaxWire
    BY AppNow
  <2> QED BY <1>11, <2>1
<1>13. ToldOf(k, run, {x}, e)
  BY <1>10, <1>12 DEF ToldOf, Events
<1>14. SeenOf(w, p, k, {x}, e, {x})
  BY <1>1 DEF SeenOf, NoneRead
<1>15. Tell(w, p, e) /\ Len(w) + Len(e) <= MaxWire
  BY <1>12 DEF Tell
<1>16. PICK q : q = page'
  OBVIOUS
<1>17. PageGrown(p, q, {x})
  BY <1>2, <1>8, <1>16, AppNow, ShownMore
<1> QED BY <1>1, <1>9, <1>10, <1>13, <1>14, <1>15, <1>16, <1>17, RunMoved

(* The message starts a turn of its thread.                                *)
LEMMA SendStartsInv ==
  ASSUME NEW w, NEW p, AppInvAt(w, p), p.pc = "up", page.pc = "up", p.sending = "no",
         NoneRead(w, p),
         NEW t \in AppThreads, t = p.active, Here(t), sessions[t] = 0, Len(w) + 1 <= MaxWire,
         NEW demo \in BOOLEAN, NEW mode \in Modes, NEW calls \in Script(demo), Starts(rows, w, t, demo, mode, calls),
         page' = Shown1(p, Item("user", ThisRun, 0)), UNCHANGED <<checkout, making, deleting, job>>
  PROVE  AppInv'
<1>1. RowsToStart(rows, t)
  BY AppNow DEF RowsToStart, Here
<1>2. PICK k \in RunIds : \E run, thing : /\ Starting(k, t, run, thing) /\ thing = Item("user", k, 0) /\ k = ThisRun
                                         /\ wire' = Told(w, <<Msg("start", t, NoItem, {})>>)
  <2>1. PICK r : r = rows
    OBVIOUS
  <2>2. Starts(r, w, t, demo, mode, calls) /\ RowsToStart(r, t)
    BY <1>1, <2>1
  <2>3. demo \in BOOLEAN /\ mode \in Modes /\ calls \in Script(demo) /\ sessions[t] = 0 /\ UNCHANGED <<checkout, making, deleting, job>>
    OBVIOUS
  <2> QED BY <2>2, <2>3, StartsIs, ZenonT(30)
<1>3. PICK run, thing : /\ Starting(k, t, run, thing) /\ thing = Item("user", k, 0) /\ k = ThisRun
                       /\ wire' = Told(w, <<Msg("start", t, NoItem, {})>>)
  BY <1>2
<1>4. PICK start, e : start = Msg("start", t, NoItem, {}) /\ e = <<start>>
  OBVIOUS
<1>5. start \in Msgs /\ start.kind = "start" /\ start.on = t
  <2>1. "start" \in {"auto", "start"}
    OBVIOUS
  <2> QED BY <1>4, <2>1, StartMsg
<1>6. e \in Seq(Msgs) /\ Len(e) = 1 /\ 1 .. Len(e) = {1} /\ e[1] = start
  BY <1>4, <1>5
<1>7. ToldStart(t, e)
  <2>1. Events(e)
    BY <1>5, <1>6 DEF Events, EventKinds
  <2> QED BY <1>5, <1>6, <2>1 DEF ToldStart
<1>8. SeenStart(w, p, t, thing, {thing})
  BY DEF SeenStart, NoneRead
<1>9. NotNew(w, p, t)
  <2>1. OneWait(w, p)
    BY AppNow
  <2> QED BY <2>1, AppConstants DEF OneWait, NotNew
<1>10. Tell(w, p, e) /\ Len(w) + Len(e) <= MaxWire
  BY <1>3, <1>4, <1>6 DEF Tell, Told
<1>11. PICK q : q = page'
  OBVIOUS
<1>12. PageGrown(p, q, {thing})
  <2>1. thing \in Items /\ p \in Pages
    BY <1>3, AppNow DEF Starting
  <2> QED BY <1>3, <1>11, <2>1, ShownMore
<1> QED BY <1>3, <1>7, <1>8, <1>9, <1>10, <1>11, <1>12, StartInv

LEMMA SendsInv ==
  ASSUME AppInv, NEW w, NEW p, AppInvAt(w, p), p.pc = "up", page.pc = "up", p.sending = "no",
         NoneRead(w, p), Len(w) + 1 <= MaxWire,
         NEW demo \in BOOLEAN, NEW mode \in Modes, NEW calls \in Script(demo), Sends(p, w, demo, mode, calls),
         UNCHANGED <<checkout, making, deleting, job>>
  PROVE  AppInv'
<1>1. PICK t : t = p.active
  OBVIOUS
<1>2. t # "none" => t \in AppThreads
  BY <1>1, AppNow, PageIs DEF Threads
<1>3. CASE /\ t # "none" /\ Held(t).pc # "none" /\ Held(t).said < MaxSteers
           /\ runs' = [runs EXCEPT ![sessions[t]].steers = @ + 1, ![sessions[t]].said = @ + 1]
           /\ rows' = Kept(rows, t, {Steer(sessions[t])})
           /\ page' = [p EXCEPT !.shown = @ \cup {Steer(sessions[t])}]
           /\ wire' = w /\ UNCHANGED sessions
  <2>1. PICK k : k = sessions[t]
    OBVIOUS
  <2>2. k # 0
    BY <1>3, <2>1, NoRunIs DEF Held
  <2>3. /\ runs[k].said < MaxSteers /\ Steered(k)
        /\ rows' = Kept(rows, t, {Steer(k)}) /\ page' = Shown1(p, Steer(k)) /\ wire' = w /\ UNCHANGED sessions
    BY <1>3, <2>1, <2>2 DEF Held, Shown1, Steered
  <2>4. t \in AppThreads /\ t = p.active
    BY <1>1, <1>2, <1>3
  <2>5. UNCHANGED <<sessions, checkout, making, deleting, job>>
    BY <1>3
  <2> QED BY <2>1, <2>2, <2>3, <2>4, <2>5, SteersInv
<1>4. CASE /\ t # "none" /\ Held(t).pc = "none" /\ Here(t) /\ FreeRuns # {}
           /\ page' = [p EXCEPT !.shown = @ \cup {Item("user", ThisRun, 0)}]
           /\ Starts(rows, w, t, demo, mode, calls)
  <2>1. t \in AppThreads
    BY <1>2, <1>4
  <2>2. sessions[t] = 0
    <3>1. ASSUME sessions[t] # 0 PROVE FALSE
      <4>1. Goes(sessions[t])
        BY <2>1, <3>1, AppNow DEF RunsInv
      <4> QED BY <1>4, <3>1, <4>1 DEF Held, Goes, AlivePcs
    <3> QED BY <3>1
  <2>3. page' = Shown1(p, Item("user", ThisRun, 0))
    BY <1>4 DEF Shown1
  <2> QED BY <1>1, <1>4, <2>1, <2>2, <2>3, SendStartsInv
<1>5. CASE page' = p /\ wire' = w /\ UNCHANGED <<runs, rows, sessions>>
  BY <1>5, AppInvThere
<1> QED BY <1>1, <1>3, <1>4, <1>5 DEF Sends

LEMMA SendsMoreInv ==
  ASSUME AppInv, NEW demo \in BOOLEAN, NEW mode \in Modes, NEW calls \in Script(demo), SendsMore(demo, mode, calls)
  PROVE  AppInv'
<1>1. PICK w, p, q : w = wire /\ p = page /\ q = Raced(page)
  OBVIOUS
<1>2. /\ p.pc = "up" /\ p.sending = "no" /\ Len(w) + 1 <= MaxWire /\ Sends(q, w, demo, mode, calls)
      /\ UNCHANGED <<checkout, making, deleting, job>>
  BY <1>1 DEF SendsMore, Usable, Room
<1>3. Trimmed(p, q) /\ AppInvAt(w, q) /\ (~q.raced => ~Waits /\ ~p.raced)
  BY <1>1, <1>2, RacedIs
<1>4. q.pc = "up" /\ q.sending = "no"
  BY <1>2, <1>3 DEF Trimmed
<1>5. NoneRead(w, q)
  <2>1. DOMAIN w = 1 .. Len(w)
    BY <1>3, AppNow
  <2> QED BY <1>1, <1>3, <2>1 DEF Waits, Opening, NoneRead
<1> QED BY <1>1, <1>2, <1>3, <1>4, <1>5, SendsInv

(* A message is heard: what follows from the rest for what the window has  *)
(* made of it.                                                             *)
HeardOK(m, p, q) ==
  /\ q \in Pages /\ q.opened = p.opened /\ p.pc # "closed"
  /\ (q = p /\ p.pc = "loading") \/ (q.pc = "up" /\ (p.pc = "up" \/ m.kind = "running"))
  /\ \A t \in AppThreads :
       /\ q.pc = "up" => IF Marks(m, t) THEN t \in q.running <=> Says(m, t) ELSE p.pc = "up" /\ (t \in q.running <=> t \in p.running)
       /\ t \in q.asks => (t \in p.asks /\ ~Ended(m, t)) \/ (m.kind = "ask" /\ m.on = t)
       /\ rows[t].state = "unused" => t \notin q.running /\ t \notin q.asks /\ t \notin q.listed /\ q.active # t
  /\ \A c \in q.cards : c \in p.cards \/ (m.kind = "ask" /\ c.item = m.item)
RestAfter(v, w) ==
  /\ v \in Seq(Msgs) /\ Len(w) \in Nat /\ Len(v) \in Nat /\ Len(v) <= Len(w) /\ 1 \in 1 .. Len(w)
  /\ \A i \in 1 .. Len(v) : i + 1 \in 1 .. Len(w) /\ v[i] = w[i + 1] /\ i + 1 > 1
  /\ \A j \in 1 .. Len(w) : j # 1 => j - 1 \in 1 .. Len(v) /\ v[j - 1] = w[j]
  /\ \A j \in 1 .. Len(w) : j > 1 => j # 1
  /\ \A i \in 1 .. Len(v), j \in 1 .. Len(w) : j > i + 1 => j # 1 /\ j - 1 > i
  /\ \A i, j \in 1 .. Len(v) : (i + 1 = j + 1 => i = j) /\ (j < i => j + 1 < i + 1)
LEMMA RestIs ==
  ASSUME NEW w \in Seq(Msgs), w # <<>>, NEW v, v = Tail(w)
  PROVE  RestAfter(v, w) /\ Head(w) = w[1]
<1>1. Len(w) \in Nat /\ Len(v) \in Nat /\ Len(v) + 1 = Len(w)
  BY WireShorter
<1>2. Len(v) <= Len(w)
  BY <1>1
<1> QED BY <1>2, WireShorter DEF RestAfter

LEMMA MarksHeard ==
  ASSUME NEW w, NEW p, NEW v, NEW m, NEW q, MarksInv(w, p), RestAfter(v, w), m = w[1], HeardOK(m, p, q)
  PROVE  MarksInv(v, q)
<1>1. /\ 1 \in 1 .. Len(w)
      /\ \A i \in 1 .. Len(v) : i + 1 \in 1 .. Len(w) /\ v[i] = w[i + 1]
      /\ \A j \in 1 .. Len(w) : j # 1 => j - 1 \in 1 .. Len(v) /\ v[j - 1] = w[j]
      /\ \A j \in 1 .. Len(w) : j > 1 => j # 1
      /\ \A i \in 1 .. Len(v), j \in 1 .. Len(w) : j > i + 1 => j # 1 /\ j - 1 > i
  BY DEF RestAfter
<1> SUFFICES ASSUME NEW t \in AppThreads, Stays(t)
             PROVE  /\ \A i \in 1 .. Len(v) : Marks(v[i], t) =>
                         (\E j \in 1 .. Len(v) : j > i /\ Marks(v[j], t)) \/ (Says(v[i], t) <=> sessions[t] # 0)
                    /\ q.pc = "up" => (\E j \in 1 .. Len(v) : Marks(v[j], t)) \/ (t \in q.running <=> sessions[t] # 0)
  BY DEF MarksInv
<1>2. /\ \A i \in 1 .. Len(w) : Marks(w[i], t) =>
           (\E j \in 1 .. Len(w) : j > i /\ Marks(w[j], t)) \/ (Says(w[i], t) <=> sessions[t] # 0)
      /\ p.pc = "up" => (\E j \in 1 .. Len(w) : Marks(w[j], t)) \/ (t \in p.running <=> sessions[t] # 0)
  BY DEF MarksInv
<1>3. ASSUME NEW i \in 1 .. Len(v), Marks(v[i], t)
      PROVE  (\E j \in 1 .. Len(v) : j > i /\ Marks(v[j], t)) \/ (Says(v[i], t) <=> sessions[t] # 0)
  <2>1. PICK h : h = i + 1
    OBVIOUS
  <2>2. h \in 1 .. Len(w) /\ v[i] = w[h]
    BY <1>1, <2>1
  <2>3. CASE \E j \in 1 .. Len(w) : j > h /\ Marks(w[j], t)
    <3>1. PICK j \in 1 .. Len(w) : j > h /\ Marks(w[j], t)
      BY <2>3
    <3>2. PICK g : g = j - 1
      OBVIOUS
    <3>3. g \in 1 .. Len(v) /\ g > i /\ v[g] = w[j]
      BY <1>1, <2>1, <3>1, <3>2
    <3> QED BY <3>1, <3>3
  <2>4. CASE Says(w[h], t) <=> sessions[t] # 0
    BY <2>2, <2>4
  <2> QED BY <1>2, <1>3, <2>2, <2>3, <2>4
<1>4. ASSUME q.pc = "up" PROVE (\E j \in 1 .. Len(v) : Marks(v[j], t)) \/ (t \in q.running <=> sessions[t] # 0)
  <2>1. ASSUME NEW j \in 1 .. Len(w), j # 1, Marks(w[j], t) PROVE \E g \in 1 .. Len(v) : Marks(v[g], t)
    BY <1>1, <2>1
  <2>2. CASE Marks(m, t)
    <3>1. t \in q.running <=> Says(m, t)
      BY <1>4, <2>2 DEF HeardOK
    <3>2. (\E j \in 1 .. Len(w) : j > 1 /\ Marks(w[j], t)) \/ (Says(m, t) <=> sessions[t] # 0)
      BY <1>1, <1>2, <2>2
    <3> QED BY <1>1, <2>1, <3>1, <3>2
  <2>3. CASE ~Marks(m, t)
    <3>1. p.pc = "up" /\ (t \in q.running <=> t \in p.running)
      BY <1>4, <2>3 DEF HeardOK
    <3>2. (\E j \in 1 .. Len(w) : Marks(w[j], t)) \/ (t \in p.running <=> sessions[t] # 0)
      BY <1>2, <3>1
    <3>3. \A j \in 1 .. Len(w) : Marks(w[j], t) => j # 1
      BY <2>3
    <3> QED BY <2>1, <3>1, <3>2, <3>3
  <2> QED BY <2>2, <2>3
<1> QED BY <1>3, <1>4

LEMMA AsksHeard ==
  ASSUME NEW w, NEW p, NEW v, NEW m, NEW q, AsksInv(w, p), RestAfter(v, w), m = w[1], HeardOK(m, p, q)
  PROVE  AsksInv(v, q)
<1>1. /\ 1 \in 1 .. Len(w)
      /\ \A i \in 1 .. Len(v) : i + 1 \in 1 .. Len(w) /\ v[i] = w[i + 1] /\ i + 1 > 1
      /\ \A j \in 1 .. Len(w) : j # 1 => j - 1 \in 1 .. Len(v) /\ v[j - 1] = w[j]
      /\ \A j \in 1 .. Len(w) : j > 1 => j # 1
      /\ \A i \in 1 .. Len(v), j \in 1 .. Len(w) : j > i + 1 => j # 1 /\ j - 1 > i
      /\ \A i, j \in 1 .. Len(v) : j < i => j + 1 < i + 1
  BY DEF RestAfter
<1>2. ASSUME NEW t \in AppThreads, Stays(t), NEW i \in 1 .. Len(v), v[i].kind = "ask", v[i].on = t
      PROVE  \/ \E j \in 1 .. Len(v) : j > i /\ Ended(v[j], t)
             \/ /\ sessions[t] # 0 /\ v[i].item.run = sessions[t]
                /\ runs[sessions[t]].stopped \/ (runs[sessions[t]].pc = "asking" /\ v[i].item.n = runs[sessions[t]].n)
  <2>1. PICK h : h = i + 1
    OBVIOUS
  <2>2. h \in 1 .. Len(w) /\ v[i] = w[h]
    BY <1>1, <2>1
  <2>3. \/ \E j \in 1 .. Len(w) : j > h /\ Ended(w[j], t)
        \/ /\ sessions[t] # 0 /\ w[h].item.run = sessions[t]
           /\ runs[sessions[t]].stopped \/ (runs[sessions[t]].pc = "asking" /\ w[h].item.n = runs[sessions[t]].n)
    BY <1>2, <2>2 DEF AsksInv
  <2>4. CASE \E j \in 1 .. Len(w) : j > h /\ Ended(w[j], t)
    <3>1. PICK j \in 1 .. Len(w) : j > h /\ Ended(w[j], t)
      BY <2>4
    <3>2. PICK g : g = j - 1
      OBVIOUS
    <3>3. g \in 1 .. Len(v) /\ g > i /\ v[g] = w[j]
      BY <1>1, <2>1, <3>1, <3>2
    <3> QED BY <3>1, <3>3
  <2> QED BY <2>2, <2>3, <2>4
<1>3. ASSUME NEW t \in AppThreads, Stays(t), t \in q.asks
      PROVE  \/ \E j \in 1 .. Len(v) : Ended(v[j], t)
             \/ sessions[t] # 0 /\ (runs[sessions[t]].stopped \/ runs[sessions[t]].pc = "asking")
  <2>1. ASSUME NEW j \in 1 .. Len(w), j # 1, Ended(w[j], t) PROVE \E g \in 1 .. Len(v) : Ended(v[g], t)
    BY <1>1, <2>1
  <2>2. CASE t \in p.asks /\ ~Ended(m, t)
    <3>1. \/ \E j \in 1 .. Len(w) : Ended(w[j], t)
          \/ sessions[t] # 0 /\ (runs[sessions[t]].stopped \/ runs[sessions[t]].pc = "asking")
      BY <1>3, <2>2 DEF AsksInv
    <3>2. \A j \in 1 .. Len(w) : Ended(w[j], t) => j # 1
      BY <2>2
    <3> QED BY <2>1, <3>1, <3>2
  <2>3. CASE m.kind = "ask" /\ m.on = t
    <3>1. \/ \E j \in 1 .. Len(w) : j > 1 /\ Ended(w[j], t)
          \/ sessions[t] # 0 /\ (runs[sessions[t]].stopped \/ runs[sessions[t]].pc = "asking")
      BY <1>1, <1>3, <2>3 DEF AsksInv
    <3> QED BY <1>1, <2>1, <3>1
  <2> QED BY <1>3, <2>2, <2>3 DEF HeardOK
<1>4. ASSUME NEW i \in 1 .. Len(v), v[i].kind = "ask"
      PROVE  /\ runs[v[i].item.run].pc # "none" /\ (Goes(v[i].item.run) => v[i].item.n <= runs[v[i].item.run].n)
             /\ \A c \in q.cards : c.item.run = v[i].item.run => c.item.n < v[i].item.n
             /\ \A j \in 1 .. Len(v) : v[j].kind = "ask" /\ v[j].item.run = v[i].item.run /\ j < i => v[j].item.n < v[i].item.n
  <2>1. PICK h : h = i + 1
    OBVIOUS
  <2>2. h \in 1 .. Len(w) /\ v[i] = w[h] /\ h > 1 /\ w[h].kind = "ask"
    BY <1>1, <1>4, <2>1
  <2>3. /\ runs[w[h].item.run].pc # "none" /\ (Goes(w[h].item.run) => w[h].item.n <= runs[w[h].item.run].n)
        /\ \A c \in p.cards : c.item.run = w[h].item.run => c.item.n < w[h].item.n
        /\ \A j \in 1 .. Len(w) : w[j].kind = "ask" /\ w[j].item.run = w[h].item.run /\ j < h => w[j].item.n < w[h].item.n
    BY <2>2 DEF AsksInv
  <2>4. ASSUME NEW c \in q.cards, c.item.run = w[h].item.run PROVE c.item.n < w[h].item.n
    <3>1. CASE c \in p.cards
      BY <2>3, <2>4, <3>1
    <3>2. CASE m.kind = "ask" /\ c.item = m.item
      <4>1. 1 < h
        BY <1>1, <2>1
      <4> QED BY <1>1, <2>3, <2>4, <3>2, <4>1
    <3> QED BY <3>1, <3>2 DEF HeardOK
  <2>5. ASSUME NEW j \in 1 .. Len(v), v[j].kind = "ask", v[j].item.run = w[h].item.run, j < i PROVE v[j].item.n < w[h].item.n
    <3>1. PICK g : g = j + 1
      OBVIOUS
    <3>2. g \in 1 .. Len(w) /\ v[j] = w[g] /\ g < h
      BY <1>1, <2>1, <2>5, <3>1
    <3> QED BY <2>3, <2>5, <3>2
  <2> QED BY <2>2, <2>3, <2>4, <2>5
<1>5. ASSUME NEW c \in q.cards
      PROVE  runs[c.item.run].pc # "none" /\ (Goes(c.item.run) => c.item.n <= runs[c.item.run].n)
  <2>1. CASE c \in p.cards
    BY <2>1 DEF AsksInv
  <2>2. CASE m.kind = "ask" /\ c.item = m.item
    BY <1>1, <2>2 DEF AsksInv
  <2> QED BY <2>1, <2>2 DEF HeardOK
<1> QED BY <1>2, <1>3, <1>4, <1>5 DEF AsksInv

LEMMA HeardMost ==
  ASSUME NEW w, NEW p, AppInvAt(w, p), NEW v, NEW m, NEW q, RestAfter(v, w), m = w[1], HeardOK(m, p, q)
  PROVE  /\ Shapes(v, q) /\ RunsInv /\ UnusedInv(v, q) /\ PageInv(v, q) /\ MarksInv(v, q) /\ AsksInv(v, q) /\ ToldInv(v, q)
<1>1. /\ v \in Seq(Msgs) /\ Len(w) \in Nat /\ Len(v) \in Nat /\ Len(v) <= Len(w) /\ 1 \in 1 .. Len(w)
      /\ \A i \in 1 .. Len(v) : i + 1 \in 1 .. Len(w) /\ v[i] = w[i + 1] /\ i + 1 > 1
      /\ \A i, j \in 1 .. Len(v) : i + 1 = j + 1 => i = j
  BY DEF RestAfter
<1>2. q \in Pages /\ q.opened = p.opened /\ p.pc # "closed"
  BY DEF HeardOK
<1>3. Shapes(v, q)
  <2>1. \A i \in 1 .. Len(w) : /\ w[i].kind \in {"begun", "item", "ask"} => w[i].item \in Items
                               /\ w[i].kind # "running" => w[i].on \in AppThreads
                               /\ w[i].kind \in {"running", "created"} => w[i].those \subseteq AppThreads
                               /\ w[i].kind = "got" => w[i].those \subseteq Items
    BY AppNow DEF Shapes
  <2>2. \A i \in 1 .. Len(v) : /\ v[i].kind \in {"begun", "item", "ask"} => v[i].item \in Items
                               /\ v[i].kind # "running" => v[i].on \in AppThreads
                               /\ v[i].kind \in {"running", "created"} => v[i].those \subseteq AppThreads
                               /\ v[i].kind = "got" => v[i].those \subseteq Items
    <3> SUFFICES ASSUME NEW i \in 1 .. Len(v)
                 PROVE  /\ v[i].kind \in {"begun", "item", "ask"} => v[i].item \in Items
                        /\ v[i].kind # "running" => v[i].on \in AppThreads
                        /\ v[i].kind \in {"running", "created"} => v[i].those \subseteq AppThreads
                        /\ v[i].kind = "got" => v[i].those \subseteq Items
      OBVIOUS
    <3>1. PICK h \in 1 .. Len(w) : v[i] = w[h]
      BY <1>1
    <3> QED BY <2>1, <3>1
  <2>3. Len(w) <= MaxWire /\ MaxWire \in Nat
    BY AppNow, AppConstants
  <2>4. Len(v) <= MaxWire
    BY <1>1, <2>3
  <2> QED BY <1>1, <1>2, <2>2, <2>4, AppNow DEF Shapes
<1>4. UnusedInv(v, q)
  <2> SUFFICES ASSUME NEW t \in AppThreads, rows[t].state = "unused"
               PROVE  /\ rows[t].items = {} /\ sessions[t] = 0 /\ ~Leaving(t) /\ t \notin q.running /\ t \notin q.asks /\ t \notin q.listed
                      /\ q.active # t
                      /\ \A i \in 1 .. Len(v) : v[i].on # t /\ (v[i].kind \in {"running", "created"} => t \notin v[i].those)
                      /\ \A d \in making : d[1] # t
    BY DEF UnusedInv
  <2>1. /\ rows[t].items = {} /\ sessions[t] = 0 /\ ~Leaving(t)
        /\ \A i \in 1 .. Len(w) : w[i].on # t /\ (w[i].kind \in {"running", "created"} => t \notin w[i].those)
        /\ \A d \in making : d[1] # t
    BY AppNow DEF UnusedInv
  <2>2. t \notin q.running /\ t \notin q.asks /\ t \notin q.listed /\ q.active # t
    BY DEF HeardOK
  <2> QED BY <1>1, <2>1, <2>2
<1>5. PageInv(v, q)
  <2>0. /\ p.pc = "loading" => /\ p.running = {} /\ p.asks = {} /\ p.cards = {} /\ p.shown = {} /\ p.describing = {} /\ p.sending = "no"
                               /\ p.active = "none"
                               /\ \A i \in 1 .. Len(w) : w[i].kind \notin {"got", "created", "listed"}
                               /\ \A d \in making : d[2] # p.opened
        /\ p.pc = "up" => \A i \in 1 .. Len(w) : w[i].kind # "running"
        /\ \A i, j \in 1 .. Len(w) : w[i].kind = "running" /\ w[j].kind = "running" => i = j
        /\ (\A d \in making : d[2] <= p.opened) /\ (\A d \in deleting : d[2] <= p.opened) /\ p.opened # 0
    BY AppNow DEF PageInv, HeardOK
  <2>1. \A i, j \in 1 .. Len(v) : v[i].kind = "running" /\ v[j].kind = "running" => i = j
    BY <1>1, <2>0
  <2>2. CASE q = p /\ p.pc = "loading"
    BY <1>1, <2>0, <2>1, <2>2 DEF PageInv
  <2>3. CASE q.pc = "up" /\ (p.pc = "up" \/ m.kind = "running")
    <3>1. ASSUME NEW i \in 1 .. Len(v), v[i].kind = "running" PROVE FALSE
      <4>1. PICK h : h = i + 1
        OBVIOUS
      <4>2. h \in 1 .. Len(w) /\ w[h].kind = "running" /\ h > 1
        BY <1>1, <3>1, <4>1
      <4>3. h # 1
        BY <4>2
      <4> QED BY <1>1, <2>0, <2>3, <4>2, <4>3
    <3> QED BY <1>2, <2>0, <2>1, <2>3, <3>1 DEF PageInv
  <2> QED BY <2>2, <2>3 DEF HeardOK
<1>6. ToldInv(v, q)
  <2>1. ToldInv(w, p)
    BY AppNow
  <2> QED BY <1>1, <2>1 DEF ToldInv
<1>7. MarksInv(v, q) /\ AsksInv(v, q)
  BY AppNow, MarksHeard, AsksHeard
<1> QED BY <1>3, <1>4, <1>5, <1>6, <1>7, AppNow

(* Hearing a message, where what waits and what is shown come out right.   *)
LEMMA HeardInv ==
  ASSUME AppInv, NEW w, NEW p, w = wire, p = page, NEW v, NEW m, NEW q, RestAfter(v, w), m = w[1], HeardOK(m, p, q),
         OneWait(v, q), NewInv(v, q), ShownInv(v, q), wire' = v, page' = q,
         UNCHANGED <<rows, checkout, runs, sessions, making, deleting, job>>
  PROVE  AppInv'
<1>1. AppInvAt(w, p)
  BY DEF AppInv
<1>2. /\ Shapes(v, q) /\ RunsInv /\ UnusedInv(v, q) /\ PageInv(v, q) /\ MarksInv(v, q) /\ AsksInv(v, q) /\ ToldInv(v, q)
  BY <1>1, HeardMost
<1>3. AppInvAt(v, q)
  BY <1>2 DEF AppInvAt
<1> QED BY <1>3, AppInvThere

(* A window with some of its fields changed.                               *)
Changed(p, pc, listed, viewed, shown, cards, running, asks, raced) ==
  PageRec(pc, listed, viewed, shown, cards, running, asks, p.describing, p.sending, raced, p.opened)
LEMMA ChangedIs ==
  ASSUME NEW p \in Pages, NEW pc \in {"closed", "loading", "up"}, NEW listed \in SUBSET AppThreads, NEW viewed \in Threads,
         NEW shown \in SUBSET Items, NEW cards \in SUBSET Cards, NEW running \in SUBSET AppThreads, NEW asks \in SUBSET AppThreads,
         NEW raced \in BOOLEAN, NEW q, q = Changed(p, pc, listed, viewed, shown, cards, running, asks, raced)
  PROVE  /\ q \in Pages /\ q.pc = pc /\ q.listed = listed /\ q.active = viewed /\ q.shown = shown /\ q.cards = cards
         /\ q.running = running /\ q.asks = asks /\ q.describing = p.describing /\ q.sending = p.sending /\ q.raced = raced
         /\ q.opened = p.opened
<1>1. PICK d, s, o : d = p.describing /\ s = p.sending /\ o = p.opened
  OBVIOUS
<1>2. q = PageRec(pc, listed, viewed, shown, cards, running, asks, d, s, raced, o)
  BY <1>1 DEF Changed
<1>3. d \in SUBSET (SUBSET Items) /\ s \in {"no", "creating", "listing"} /\ o \in 0 .. MaxWindows
  BY <1>1, PageIs
<1>4. q \in Pages
  BY <1>2, <1>3 DEF Pages, PageRec
<1>5. /\ q.pc = pc /\ q.listed = listed /\ q.active = viewed /\ q.shown = shown /\ q.cards = cards
      /\ q.running = running /\ q.asks = asks /\ q.describing = d /\ q.sending = s /\ q.raced = raced /\ q.opened = o
  BY <1>2 DEF PageRec
<1> QED BY <1>1, <1>4, <1>5

(* The threads the list names are on disk.                                 *)
HereNow == {t \in AppThreads : Here(t)}
LoadHeard(p, m) == IF m.kind = "running" THEN [Listed(p) EXCEPT !.pc = "up", !.running = m.those] ELSE p
LEMMA HearsLoading ==
  ASSUME AppInv, NEW w, NEW p, w = wire, p = page, w # <<>>, p.pc = "loading", NEW m, m = Head(w), NEW v, v = Tail(w), NEW q,
         q = LoadHeard(p, m), wire' = v, page' = q,
         UNCHANGED <<rows, checkout, runs, sessions, making, deleting, job>>
  PROVE  AppInv'
<1>1. AppInvAt(w, p) /\ w \in Seq(Msgs) /\ p \in Pages
  <2>1. AppInvAt(w, p)
    BY DEF AppInv
  <2> QED BY <2>1, AppNow
<1>2. RestAfter(v, w) /\ m = w[1] /\ 1 \in 1 .. Len(w)
  BY <1>1, RestIs DEF RestAfter
<1>3. /\ p.running = {} /\ p.asks = {} /\ p.cards = {} /\ p.shown = {} /\ p.describing = {} /\ p.sending = "no" /\ p.active = "none"
      /\ \A i \in 1 .. Len(w) : w[i].kind \notin {"got", "created", "listed"}
      /\ \A d \in making : d[2] # p.opened
  BY <1>1, AppNow DEF PageInv
<1>4. \A t \in AppThreads : rows[t].state = "unused" =>
        /\ t \notin p.running /\ t \notin p.asks /\ t \notin p.listed /\ p.active # t
        /\ (m.kind = "running" => t \notin m.those)
  BY <1>1, <1>2, AppNow DEF UnusedInv
<1>5. CASE m.kind # "running"
  <2>1. q = p
    BY <1>5 DEF LoadHeard
  <2>2. HeardOK(m, p, q)
    BY <1>1, <1>3, <1>4, <2>1 DEF HeardOK
  <2>3. OneWait(v, q) /\ NewInv(v, q) /\ ShownInv(v, q)
    BY <2>1 DEF OneWait, NewInv, ShownInv
  <2> QED BY <1>2, <2>2, <2>3, HeardInv
<1>6. CASE m.kind = "running"
  <2>1. PICK here, those : here = HereNow /\ those = m.those
    OBVIOUS
  <2>2. here \in SUBSET AppThreads /\ those \in SUBSET AppThreads
    BY <1>1, <1>2, <1>6, <2>1, AppNow DEF Shapes, HereNow
  <2>3. PICK y : y = [p EXCEPT !.listed = here]
    OBVIOUS
  <2>4. q = [y EXCEPT !.pc = "up", !.running = those]
    BY <1>6, <2>1, <2>3 DEF Listed, HereNow, LoadHeard
  <2>5. p = PageFrom(p)
    BY <1>1, PageShape
  <2>6. y = PageRec(p.pc, here, p.active, p.shown, p.cards, p.running, p.asks, p.describing, p.sending, p.raced, p.opened)
    BY <2>3, <2>5 DEF PageRec, PageFrom
  <2>7. PICK z : z = [y EXCEPT !.pc = "up"]
    OBVIOUS
  <2>8. q = [z EXCEPT !.running = those]
    BY <2>4, <2>7
  <2>9. z = PageRec("up", here, p.active, p.shown, p.cards, p.running, p.asks, p.describing, p.sending, p.raced, p.opened)
    BY <2>6, <2>7 DEF PageRec
  <2>10. q = Changed(p, "up", here, p.active, p.shown, p.cards, those, p.asks, p.raced)
    BY <2>8, <2>9 DEF PageRec, Changed
  <2>11. /\ q \in Pages /\ q.pc = "up" /\ q.listed = here /\ q.active = p.active /\ q.cards = p.cards
         /\ q.running = those /\ q.asks = p.asks /\ q.describing = p.describing /\ q.sending = p.sending /\ q.opened = p.opened
    <3>1. PICK shown, cards, asks, viewed, raced :
            /\ shown = p.shown /\ cards = p.cards /\ asks = p.asks /\ viewed = p.active /\ raced = p.raced
            /\ shown \in SUBSET Items /\ cards \in SUBSET Cards /\ asks \in SUBSET AppThreads /\ viewed \in Threads /\ raced \in BOOLEAN
      BY <1>1, PageIs
    <3>2. q = Changed(p, "up", here, viewed, shown, cards, those, asks, raced)
      BY <2>10, <3>1
    <3>3. "up" \in {"closed", "loading", "up"}
      OBVIOUS
    <3> QED BY <1>1, <2>2, <3>1, <3>2, <3>3, ChangedIs
  <2>12. HeardOK(m, p, q)
    <3>1. ASSUME NEW t \in AppThreads
          PROVE  /\ Marks(m, t) /\ (t \in q.running <=> Says(m, t)) /\ t \notin q.asks
                 /\ rows[t].state = "unused" => t \notin q.running /\ t \notin q.asks /\ t \notin q.listed /\ q.active # t
      <4>1. Marks(m, t) /\ (t \in q.running <=> Says(m, t)) /\ t \notin q.asks
        BY <1>3, <1>6, <2>1, <2>11 DEF Marks, Says
      <4>2. rows[t].state = "unused" => t \notin here
        BY <2>1 DEF HereNow, Here
      <4> QED BY <1>4, <1>6, <2>1, <2>11, <4>1, <4>2
    <3> QED BY <1>3, <1>6, <2>11, <3>1 DEF HeardOK
  <2>13. \A i \in 1 .. Len(v) : v[i].kind \notin {"got", "created", "listed"}
    BY <1>2, <1>3 DEF RestAfter
  <2>14. /\ q.describing = {} /\ q.sending = "no" /\ q.active \notin AppThreads /\ \A d \in making : d[2] # q.opened
    BY <1>3, <2>11, AppConstants
  <2>15. OneWait(v, q)
    BY <2>13, <2>14 DEF OneWait
  <2>16. NewInv(v, q) /\ ShownInv(v, q)
    BY <2>13, <2>14 DEF NewInv, ShownInv
  <2> QED BY <1>2, <2>12, <2>15, <2>16, HeardInv
<1> QED BY <1>5, <1>6

(* The window follows what it hears of a turn or of a thread.              *)
Followed(m, p, q) ==
  /\ q.pc = "up" /\ q.opened = p.opened /\ q.describing = p.describing /\ q.sending = p.sending
  /\ \/ q.active = p.active /\ q.raced = p.raced /\ q.shown = p.shown /\ ~Tells(m, p.active)
     \/ q.active = p.active /\ q.raced = p.raced /\ q.shown = p.shown \cup {m.item} /\ Tells(m, p.active)
     \/ q.active = "none" /\ (~q.raced => ~p.raced /\ ~Waits)
LEMMA FollowedInv ==
  ASSUME AppInv, NEW w, NEW p, w = wire, p = page, p.pc = "up", NEW v, NEW m, NEW q, RestAfter(v, w), m = w[1], HeardOK(m, p, q),
         Followed(m, p, q), m.kind \notin {"got", "created", "listed"}, wire' = v, page' = q,
         UNCHANGED <<rows, checkout, runs, sessions, making, deleting, job>>
  PROVE  AppInv'
<1>1. AppInvAt(w, p) /\ DOMAIN w = 1 .. Len(w)
  <2>1. AppInvAt(w, p)
    BY DEF AppInv
  <2> QED BY <2>1, AppNow
<1>2. /\ 1 \in 1 .. Len(w)
      /\ \A i \in 1 .. Len(v) : i + 1 \in 1 .. Len(w) /\ v[i] = w[i + 1]
      /\ \A j \in 1 .. Len(w) : j # 1 => j - 1 \in 1 .. Len(v) /\ v[j - 1] = w[j]
      /\ \A j \in 1 .. Len(w) : j > 1 => j # 1
      /\ \A i \in 1 .. Len(v), j \in 1 .. Len(w) : j > i + 1 => j # 1 /\ j - 1 > i
      /\ \A i, j \in 1 .. Len(v) : i + 1 = j + 1 => i = j
  BY DEF RestAfter
<1>3. /\ q.pc = "up" /\ q.opened = p.opened /\ q.describing = p.describing /\ q.sending = p.sending
  BY DEF Followed
<1>4. ASSUME ~q.raced
      PROVE  ~p.raced /\ (q.active # p.active =>
               /\ p.describing = {} /\ p.sending = "no" /\ \A i \in 1 .. Len(w) : w[i].kind # "got")
  <2>1. CASE q.raced = p.raced /\ q.active = p.active
    BY <1>4, <2>1
  <2>2. CASE ~p.raced /\ ~Waits
    BY <1>1, <2>2 DEF Waits, Opening
  <2> QED BY <1>4, <2>1, <2>2 DEF Followed
<1>5. OneWait(w, p) /\ NewInv(w, p) /\ ShownInv(w, p) /\ ToldInv(w, p)
  BY <1>1, AppNow
<1>6. OneWait(v, q)
  <2> SUFFICES ASSUME ~q.raced PROVE OneWait(v, q)
    BY DEF OneWait
  <2>1. /\ \A i \in 1 .. Len(w) : w[i].kind = "got" =>
             /\ p.describing = {} /\ p.sending = "no" /\ w[i].on = p.active
             /\ \A j \in 1 .. Len(w) : w[j].kind = "got" => i = j
        /\ \A d, e \in p.describing : d = e
        /\ p.describing # {} => p.sending = "no"
        /\ \A i \in 1 .. Len(w) : w[i].kind = "created" =>
             /\ p.sending = "creating" /\ w[i].those \subseteq {w[i].on}
             /\ \A j \in 1 .. Len(w) : w[j].kind = "created" => i = j
             /\ \A d \in making : d[2] # p.opened
        /\ \A d \in making : d[2] = p.opened => p.sending = "creating"
        /\ \A d, e \in making : d[2] = p.opened /\ e[2] = p.opened => d = e
        /\ p.sending = "creating" => p.active = "none"
        /\ \A i \in 1 .. Len(w) : w[i].kind = "listed" => p.sending = "listing" /\ w[i].on = p.active
        /\ \A i, j \in 1 .. Len(w) : w[i].kind = "listed" /\ w[j].kind = "listed" => i = j
    BY <1>4, <1>5 DEF OneWait
  <2>2. \A i \in 1 .. Len(v) : v[i].kind = "got" =>
          /\ q.describing = {} /\ q.sending = "no" /\ v[i].on = q.active
          /\ \A j \in 1 .. Len(v) : v[j].kind = "got" => i = j
    <3> SUFFICES ASSUME NEW i \in 1 .. Len(v), v[i].kind = "got"
                 PROVE  /\ q.describing = {} /\ q.sending = "no" /\ v[i].on = q.active
                        /\ \A j \in 1 .. Len(v) : v[j].kind = "got" => i = j
      OBVIOUS
    <3>1. PICK h : h = i + 1
      OBVIOUS
    <3>2. h \in 1 .. Len(w) /\ v[i] = w[h]
      BY <1>2, <3>1
    <3>3. /\ p.describing = {} /\ p.sending = "no" /\ w[h].on = p.active
          /\ \A j \in 1 .. Len(w) : w[j].kind = "got" => h = j
      BY <2>1, <3>2
    <3>4. ASSUME NEW j \in 1 .. Len(v), v[j].kind = "got" PROVE i = j
      <4>1. j + 1 \in 1 .. Len(w) /\ v[j] = w[j + 1]
        BY <1>2
      <4>2. h = j + 1
        BY <3>3, <3>4, <4>1
      <4> QED BY <1>2, <3>1, <4>2
    <3>5. q.active = p.active
      BY <1>4, <3>2
    <3> QED BY <1>3, <3>2, <3>3, <3>4, <3>5
  <2>3. \A i \in 1 .. Len(v) : v[i].kind = "created" =>
          /\ q.sending = "creating" /\ v[i].those \subseteq {v[i].on}
          /\ \A j \in 1 .. Len(v) : v[j].kind = "created" => i = j
          /\ \A d \in making : d[2] # q.opened
    <3> SUFFICES ASSUME NEW i \in 1 .. Len(v), v[i].kind = "created"
                 PROVE  /\ q.sending = "creating" /\ v[i].those \subseteq {v[i].on}
                        /\ \A j \in 1 .. Len(v) : v[j].kind = "created" => i = j
                        /\ \A d \in making : d[2] # q.opened
      OBVIOUS
    <3>1. PICK h : h = i + 1
      OBVIOUS
    <3>2. h \in 1 .. Len(w) /\ v[i] = w[h]
      BY <1>2, <3>1
    <3>3. /\ p.sending = "creating" /\ w[h].those \subseteq {w[h].on}
          /\ \A j \in 1 .. Len(w) : w[j].kind = "created" => h = j
          /\ \A d \in making : d[2] # p.opened
      BY <2>1, <3>2
    <3>4. ASSUME NEW j \in 1 .. Len(v), v[j].kind = "created" PROVE i = j
      <4>1. j + 1 \in 1 .. Len(w) /\ v[j] = w[j + 1]
        BY <1>2
      <4>2. h = j + 1
        BY <3>3, <3>4, <4>1
      <4> QED BY <1>2, <3>1, <4>2
    <3> QED BY <1>3, <3>2, <3>3, <3>4
  <2>4. \A i \in 1 .. Len(v) : v[i].kind = "listed" => q.sending = "listing" /\ v[i].on = q.active
    BY <1>2, <1>3, <1>4, <2>1
  <2>5. \A i, j \in 1 .. Len(v) : v[i].kind = "listed" /\ v[j].kind = "listed" => i = j
    BY <1>2, <2>1
  <2>6. q.sending = "creating" => q.active = "none"
    BY <1>3, <1>4, <2>1
  <2> QED BY <1>3, <2>1, <2>2, <2>3, <2>4, <2>5, <2>6 DEF OneWait
<1>7. NewInv(v, q)
  <2> SUFFICES ASSUME ~q.raced PROVE NewInv(v, q)
    BY DEF NewInv
  <2>1. /\ \A d \in making : d[2] = p.opened => Bare(d[1])
        /\ \A i \in 1 .. Len(w) : w[i].kind \in {"created", "listed"} => Bare(w[i].on)
    BY <1>4, <1>5 DEF NewInv
  <2> QED BY <1>2, <1>3, <2>1 DEF NewInv
<1>8. ShownInv(v, q)
  <2> SUFFICES ASSUME ~q.raced, q.active \in AppThreads, q.sending = "no", Stays(q.active) PROVE ShownInv(v, q)
    BY DEF ShownInv
  <2>0. q.active = p.active /\ ~p.raced
    BY <1>4, AppConstants DEF Followed
  <2>1. PICK t \in AppThreads : t = p.active /\ q.active = t
    BY <2>0
  <2>2. \/ q.shown = p.shown /\ ~Tells(m, t)
        \/ q.shown = p.shown \cup {m.item} /\ Tells(m, t)
    BY <2>1, AppConstants DEF Followed
  <2>3. /\ \A i \in 1 .. Len(w) : w[i].kind = "got" =>
             /\ \A x \in rows[t].items : x \in w[i].those \/ \E j \in 1 .. Len(w) : j > i /\ Tells(w[j], t) /\ w[j].item = x
             /\ w[i].those \subseteq Known(t)
        /\ (\A i \in 1 .. Len(w) : w[i].kind # "got") =>
             /\ \A x \in rows[t].items : \/ x \in p.shown \/ x \in UNION p.describing
                                         \/ \E j \in 1 .. Len(w) : Tells(w[j], t) /\ w[j].item = x
             /\ p.shown \cup UNION p.describing \subseteq Known(t)
    BY <1>3, <1>5, <2>0, <2>1 DEF ShownInv
  <2>4. Tells(m, t) => m.item \in Known(t)
    BY <1>2, <1>5, <2>1 DEF ToldInv
  <2>5. ASSUME NEW i \in 1 .. Len(v), v[i].kind = "got"
        PROVE  /\ \A x \in rows[t].items : x \in v[i].those \/ \E j \in 1 .. Len(v) : j > i /\ Tells(v[j], t) /\ v[j].item = x
               /\ v[i].those \subseteq Known(t)
    <3>1. PICK h : h = i + 1
      OBVIOUS
    <3>2. h \in 1 .. Len(w) /\ v[i] = w[h]
      BY <1>2, <3>1
    <3>3. ASSUME NEW x \in rows[t].items, x \notin w[h].those
          PROVE  \E j \in 1 .. Len(v) : j > i /\ Tells(v[j], t) /\ v[j].item = x
      <4>1. PICK j \in 1 .. Len(w) : j > h /\ Tells(w[j], t) /\ w[j].item = x
        BY <2>3, <2>5, <3>2, <3>3
      <4>2. PICK g : g = j - 1
        OBVIOUS
      <4>3. g \in 1 .. Len(v) /\ g > i /\ v[g] = w[j]
        BY <1>2, <3>1, <4>1, <4>2
      <4> QED BY <4>1, <4>3
    <3> QED BY <2>3, <2>5, <3>2, <3>3
  <2>6. ASSUME \A i \in 1 .. Len(v) : v[i].kind # "got"
        PROVE  /\ \A x \in rows[t].items : \/ x \in q.shown \/ x \in UNION q.describing
                                           \/ \E j \in 1 .. Len(v) : Tells(v[j], t) /\ v[j].item = x
               /\ q.shown \cup UNION q.describing \subseteq Known(t)
    <3>1. \A i \in 1 .. Len(w) : w[i].kind # "got"
      BY <1>2, <2>6
    <3>2. ASSUME NEW x \in rows[t].items, x \notin q.shown, x \notin UNION q.describing
          PROVE  \E j \in 1 .. Len(v) : Tells(v[j], t) /\ v[j].item = x
      <4>1. x \notin p.shown /\ x \notin UNION p.describing /\ ~(Tells(m, t) /\ m.item = x)
        BY <1>3, <2>2, <3>2
      <4>2. PICK j \in 1 .. Len(w) : Tells(w[j], t) /\ w[j].item = x
        BY <2>3, <3>1, <4>1
      <4>3. j # 1
        BY <4>1, <4>2
      <4>4. PICK g : g = j - 1
        OBVIOUS
      <4>5. g \in 1 .. Len(v) /\ v[g] = w[j]
        BY <1>2, <4>3, <4>4
      <4> QED BY <4>2, <4>5
    <3> QED BY <1>3, <2>2, <2>3, <2>4, <3>1, <3>2
  <2> QED BY <2>1, <2>5, <2>6 DEF ShownInv
<1> QED BY <1>6, <1>7, <1>8, HeardInv

(* What onAgentEvent and onAutomation may make of the window.              *)
FollowingOK(m, p, listed, viewed, shown, cards, running, asks, raced) ==
  /\ listed \in {p.listed, HereNow} /\ shown \in SUBSET Items /\ cards \in SUBSET Cards /\ running \in SUBSET AppThreads
  /\ asks \in SUBSET AppThreads /\ raced \in BOOLEAN
  /\ \A t \in AppThreads : IF Marks(m, t) THEN t \in running <=> Says(m, t) ELSE t \in running <=> t \in p.running
  /\ \A t \in asks : (t \in p.asks /\ ~Ended(m, t)) \/ (m.kind = "ask" /\ m.on = t)
  /\ \A c \in cards : c \in p.cards \/ (m.kind = "ask" /\ c.item = m.item)
  /\ \/ viewed = p.active /\ raced = p.raced /\ shown = p.shown /\ ~Tells(m, p.active)
     \/ viewed = p.active /\ raced = p.raced /\ shown = p.shown \cup {m.item} /\ Tells(m, p.active)
     \/ viewed = "none" /\ (~raced => ~p.raced /\ ~Waits)
Turning(w, p, v, m) ==
  /\ w = wire /\ p = page /\ w \in Seq(Msgs) /\ p.pc = "up" /\ p \in Pages /\ RestAfter(v, w) /\ m = w[1] /\ m \in Msgs
  /\ m.kind \in {"begun", "item", "ask", "start", "end", "auto", "deleted"} /\ m.on \in AppThreads
  /\ m.kind \in {"begun", "item", "ask"} => m.item \in Items
LEMMA FollowingInv ==
  ASSUME AppInv, NEW w, NEW p, NEW v, NEW m, Turning(w, p, v, m),
         NEW listed, NEW viewed, NEW shown, NEW cards, NEW running, NEW asks, NEW raced,
         FollowingOK(m, p, listed, viewed, shown, cards, running, asks, raced),
         NEW q, q = Changed(p, "up", listed, viewed, shown, cards, running, asks, raced), wire' = v, page' = q,
         UNCHANGED <<rows, checkout, runs, sessions, making, deleting, job>>
  PROVE  AppInv'
<1>1. /\ w = wire /\ p = page /\ w \in Seq(Msgs) /\ p.pc = "up" /\ p \in Pages /\ RestAfter(v, w) /\ m = w[1] /\ m \in Msgs
      /\ m.kind \in {"begun", "item", "ask", "start", "end", "auto", "deleted"} /\ m.on \in AppThreads
  BY DEF Turning
<1>2. /\ listed \in {p.listed, HereNow} /\ shown \in SUBSET Items /\ cards \in SUBSET Cards /\ running \in SUBSET AppThreads
      /\ asks \in SUBSET AppThreads /\ raced \in BOOLEAN
      /\ \A t \in AppThreads : IF Marks(m, t) THEN t \in running <=> Says(m, t) ELSE t \in running <=> t \in p.running
      /\ \A t \in asks : (t \in p.asks /\ ~Ended(m, t)) \/ (m.kind = "ask" /\ m.on = t)
      /\ \A c \in cards : c \in p.cards \/ (m.kind = "ask" /\ c.item = m.item)
      /\ viewed \in {p.active, "none"}
  BY DEF FollowingOK
<1>3. viewed \in Threads /\ listed \in SUBSET AppThreads /\ "up" \in {"closed", "loading", "up"}
  <2>1. p.active \in Threads /\ p.listed \subseteq AppThreads
    BY <1>1, PageIs
  <2> QED BY <1>2, <2>1 DEF Threads, HereNow
<1>4. /\ q \in Pages /\ q.pc = "up" /\ q.listed = listed /\ q.active = viewed /\ q.shown = shown /\ q.cards = cards
      /\ q.running = running /\ q.asks = asks /\ q.describing = p.describing /\ q.sending = p.sending /\ q.raced = raced
      /\ q.opened = p.opened
  BY <1>1, <1>2, <1>3, ChangedIs
<1>5. AppInvAt(w, p) /\ 1 \in 1 .. Len(w)
  BY <1>1 DEF AppInv, RestAfter
<1>6. ASSUME NEW t \in AppThreads, rows[t].state = "unused"
      PROVE  t \notin q.running /\ t \notin q.asks /\ t \notin q.listed /\ q.active # t
  <2>1. t \notin p.running /\ t \notin p.asks /\ t \notin p.listed /\ p.active # t /\ m.on # t
    BY <1>1, <1>5, <1>6, AppNow DEF UnusedInv
  <2>2. ~Marks(m, t)
    BY <1>1, <2>1 DEF Marks
  <2>3. t \notin running /\ t \notin asks
    BY <1>2, <2>1, <2>2
  <2>4. t \notin HereNow
    BY <1>6 DEF HereNow, Here
  <2> QED BY <1>2, <1>4, <2>1, <2>3, <2>4, AppConstants
<1>7. HeardOK(m, p, q)
  BY <1>1, <1>2, <1>4, <1>6 DEF HeardOK
<1>8. Followed(m, p, q)
  BY <1>4 DEF Followed, FollowingOK
<1>9. m.kind \notin {"got", "created", "listed"}
  BY <1>1
<1> QED BY <1>1, <1>4, <1>7, <1>8, <1>9, FollowedInv

(* Each kind of event, one after the other.                                *)
LEMMA FollowsInv ==
  ASSUME AppInv, NEW w, NEW p, w = wire, p = page, w # <<>>, p.pc = "up", NEW m, m = Head(w), NEW v, v = Tail(w),
         m.kind \notin {"got", "created", "listed"}, NEW q, q = Follows(p, m), wire' = v, page' = q,
         UNCHANGED <<rows, checkout, runs, sessions, making, deleting, job>>
  PROVE  AppInv'
<1>1. AppInvAt(w, p) /\ w \in Seq(Msgs) /\ p \in Pages
  <2>1. AppInvAt(w, p)
    BY DEF AppInv
  <2> QED BY <2>1, AppNow
<1>2. RestAfter(v, w) /\ m = w[1] /\ 1 \in 1 .. Len(w)
  BY <1>1, RestIs DEF RestAfter
<1>3. m \in Msgs /\ m.kind \in {"begun", "item", "ask", "start", "end", "auto", "deleted"} /\ m.on \in AppThreads
      /\ (m.kind \in {"begun", "item", "ask"} => m.item \in Items)
  <2>1. m \in Msgs /\ m.kind \in MsgKinds
    BY <1>1, <1>2, MsgIs
  <2>2. m.kind # "running"
    BY <1>1, <1>2, AppNow DEF PageInv
  <2>3. (m.kind \in {"begun", "item", "ask"} => m.item \in Items) /\ (m.kind # "running" => m.on \in AppThreads)
    BY <1>1, <1>2, AppNow DEF Shapes
  <2> QED BY <2>1, <2>2, <2>3 DEF MsgKinds
<1>4. Turning(w, p, v, m)
  BY <1>1, <1>2, <1>3 DEF Turning
<1>5. p = PageFrom(p)
  BY <1>1, PageShape
<1>6. PICK listed, viewed, shown, cards, running, asks, raced :
        /\ listed = p.listed /\ viewed = p.active /\ shown = p.shown /\ cards = p.cards /\ running = p.running /\ asks = p.asks
        /\ raced = p.raced /\ shown \in SUBSET Items /\ cards \in SUBSET Cards /\ running \in SUBSET AppThreads /\ asks \in SUBSET AppThreads
        /\ raced \in BOOLEAN /\ listed \in {p.listed, HereNow}
  BY <1>1, PageIs
<1>7. p = Changed(p, "up", listed, viewed, shown, cards, running, asks, raced)
  BY <1>5, <1>6 DEF Changed, PageFrom
<1>8. PICK t : t = m.on
  OBVIOUS
<1>9. CASE m.kind \in {"auto", "start"}
  <2>1. PICK more, list : more = running \cup {t} /\ list = IF m.kind = "auto" THEN HereNow ELSE listed
    OBVIOUS
  <2>2. q = Changed(p, "up", list, viewed, shown, cards, more, asks, raced)
    <3>1. CASE m.kind = "auto"
      <4>1. PICK y : y = [p EXCEPT !.listed = list]
        OBVIOUS
      <4>2. q = [y EXCEPT !.running = @ \cup {t}]
        BY <1>8, <2>1, <3>1, <4>1 DEF Follows, Listed, HereNow
      <4>3. y = PageRec(p.pc, list, viewed, shown, cards, running, asks, p.describing, p.sending, raced, p.opened)
        BY <1>5, <1>6, <4>1 DEF PageRec, PageFrom
      <4>4. y.running = running
        BY <4>3 DEF PageRec
      <4>5. q = [y EXCEPT !.running = more]
        BY <2>1, <4>2, <4>4
      <4> QED BY <4>3, <4>5 DEF PageRec, Changed
    <3>2. CASE m.kind = "start"
      <4>1. q = [p EXCEPT !.running = more]
        BY <1>6, <1>8, <2>1, <3>2 DEF Follows
      <4>2. list = p.listed
        BY <1>6, <2>1, <3>2
      <4> QED BY <1>5, <1>6, <4>1, <4>2 DEF PageRec, PageFrom, Changed
    <3> QED BY <1>9, <3>1, <3>2
  <2>3. FollowingOK(m, p, list, viewed, shown, cards, more, asks, raced)
    <3>1. more \in SUBSET AppThreads /\ list \in {p.listed, HereNow}
      BY <1>3, <1>6, <1>8, <2>1
    <3>2. \A u \in AppThreads : IF Marks(m, u) THEN u \in more <=> Says(m, u) ELSE u \in more <=> u \in p.running
      BY <1>6, <1>8, <1>9, <2>1 DEF Marks, Says
    <3>3. ~Tells(m, p.active) /\ \A u \in AppThreads : ~Ended(m, u)
      BY <1>9 DEF Tells, Ended
    <3> QED BY <1>6, <3>1, <3>2, <3>3 DEF FollowingOK
  <2> QED BY <1>4, <2>2, <2>3, FollowingInv
<1>10. CASE m.kind \in {"begun", "item"}
  <2>0. (\A u \in AppThreads : ~Marks(m, u)) /\ \A u \in AppThreads : ~Ended(m, u)
    BY <1>10 DEF Marks, Ended
  <2>1. CASE p.active = m.on
    <3>1. PICK more : more = shown \cup {m.item}
      OBVIOUS
    <3>2. q = [p EXCEPT !.shown = more]
      BY <1>6, <1>10, <2>1, <3>1 DEF Follows, Shows
    <3>3. q = Changed(p, "up", listed, viewed, more, cards, running, asks, raced)
      BY <1>5, <1>6, <3>2 DEF PageRec, PageFrom, Changed
    <3>4. more \in SUBSET Items /\ Tells(m, p.active)
      BY <1>3, <1>6, <1>10, <2>1, <3>1 DEF Tells
    <3>5. FollowingOK(m, p, listed, viewed, more, cards, running, asks, raced)
      BY <1>6, <2>0, <3>1, <3>4 DEF FollowingOK
    <3> QED BY <1>4, <3>3, <3>5, FollowingInv
  <2>2. CASE p.active # m.on
    <3>1. q = Changed(p, "up", listed, viewed, shown, cards, running, asks, raced)
      BY <1>7, <1>10, <2>2 DEF Follows, Shows
    <3>2. ~Tells(m, p.active)
      BY <2>2 DEF Tells
    <3>3. FollowingOK(m, p, listed, viewed, shown, cards, running, asks, raced)
      BY <1>6, <2>0, <3>2 DEF FollowingOK
    <3> QED BY <1>4, <3>1, <3>3, FollowingInv
  <2> QED BY <2>1, <2>2
<1>11. CASE m.kind = "ask"
  <2>0. (\A u \in AppThreads : ~Marks(m, u)) /\ (\A u \in AppThreads : ~Ended(m, u)) /\ ~Tells(m, p.active)
    BY <1>11 DEF Marks, Ended, Tells
  <2>1. PICK card : card = [on |-> m.on, item |-> m.item]
    OBVIOUS
  <2>2. PICK more, put : more = asks \cup {t} /\ put = IF p.active = m.on THEN cards \cup {card} ELSE cards
    OBVIOUS
  <2>3. card \in Cards /\ card.item = m.item
    BY <1>3, <1>11, <2>1 DEF Cards
  <2>4. q = Changed(p, "up", listed, viewed, shown, put, running, more, raced)
    <3>1. q = Asked(p, m)
      BY <1>11 DEF Follows
    <3>2. PICK y : y = [p EXCEPT !.asks = more]
      OBVIOUS
    <3>3. y = PageRec(p.pc, listed, viewed, shown, cards, running, more, p.describing, p.sending, raced, p.opened)
      BY <1>5, <1>6, <3>2 DEF PageRec, PageFrom
    <3>4. q = [p EXCEPT !.asks = more, !.cards = put]
      BY <1>6, <1>8, <2>1, <2>2, <3>1 DEF Asked
    <3>5. q = [y EXCEPT !.cards = put]
      BY <3>2, <3>4
    <3> QED BY <3>3, <3>5 DEF PageRec, Changed
  <2>5. FollowingOK(m, p, listed, viewed, shown, put, running, more, raced)
    <3>1. more \in SUBSET AppThreads /\ put \in SUBSET Cards
      BY <1>3, <1>6, <1>8, <2>2, <2>3
    <3>2. \A u \in more : (u \in p.asks /\ ~Ended(m, u)) \/ (m.kind = "ask" /\ m.on = u)
      BY <1>6, <1>8, <1>11, <2>0, <2>2
    <3>3. \A c \in put : c \in p.cards \/ (m.kind = "ask" /\ c.item = m.item)
      BY <1>6, <1>11, <2>2, <2>3
    <3> QED BY <1>6, <2>0, <3>1, <3>2, <3>3 DEF FollowingOK
  <2> QED BY <1>4, <2>4, <2>5, FollowingInv
<1>12. CASE m.kind = "end"
  <2>0. ~Tells(m, p.active)
    BY <1>12 DEF Tells
  <2>1. PICK less, few, here : less = running \ {t} /\ few = asks \ {t} /\ here = HereNow
    OBVIOUS
  <2>2. q = Changed(p, "up", here, viewed, shown, cards, less, few, raced)
    <3>1. PICK y, z : y = [p EXCEPT !.running = less] /\ z = EndedOn(p, t)
      OBVIOUS
    <3>2. y = PageRec(p.pc, listed, viewed, shown, cards, less, asks, p.describing, p.sending, raced, p.opened)
      BY <1>5, <1>6, <3>1 DEF PageRec, PageFrom
    <3>3. z = [p EXCEPT !.running = less, !.asks = few]
      BY <1>6, <2>1, <3>1 DEF EndedOn
    <3>4. z = [y EXCEPT !.asks = few]
      BY <3>1, <3>3
    <3>5. z = PageRec(p.pc, listed, viewed, shown, cards, less, few, p.describing, p.sending, raced, p.opened)
      BY <3>2, <3>4 DEF PageRec
    <3>6. q = [z EXCEPT !.listed = here]
      BY <1>8, <1>12, <2>1, <3>1 DEF Follows, Listed, HereNow
    <3> QED BY <3>5, <3>6 DEF PageRec, Changed
  <2>3. FollowingOK(m, p, here, viewed, shown, cards, less, few, raced)
    <3>1. less \in SUBSET AppThreads /\ few \in SUBSET AppThreads /\ here \in {p.listed, HereNow}
      BY <1>6, <2>1
    <3>2. \A u \in AppThreads : IF Marks(m, u) THEN u \in less <=> Says(m, u) ELSE u \in less <=> u \in p.running
      BY <1>6, <1>8, <1>12, <2>1 DEF Marks, Says
    <3>3. \A u \in few : u \in p.asks /\ ~Ended(m, u)
      BY <1>6, <1>8, <2>1 DEF Ended
    <3> QED BY <1>6, <2>0, <3>1, <3>2, <3>3 DEF FollowingOK
  <2> QED BY <1>4, <2>2, <2>3, FollowingInv
<1>13. CASE m.kind = "deleted"
  <2>0. ~Tells(m, p.active) /\ (\A u \in AppThreads : ~Marks(m, u)) /\ \A u \in AppThreads : ~Ended(m, u)
    BY <1>13 DEF Tells, Marks, Ended
  <2>1. PICK here, y : here = HereNow /\ y = IF p.active = m.on THEN Left(Raced(p)) ELSE p
    OBVIOUS
  <2>2. q = [y EXCEPT !.listed = here]
    BY <1>13, <2>1 DEF Follows, Listed, HereNow
  <2>3. CASE p.active = m.on
    <3>1. PICK b : b = (raced \/ Waits)
      OBVIOUS
    <3>2. PICK z : z = [p EXCEPT !.raced = b]
      OBVIOUS
    <3>3. z = PageRec(p.pc, listed, viewed, shown, cards, running, asks, p.describing, p.sending, b, p.opened)
      BY <1>5, <1>6, <3>2 DEF PageRec, PageFrom
    <3>4. y = [z EXCEPT !.active = "none"]
      BY <1>6, <2>1, <2>3, <3>1, <3>2 DEF Left, Raced
    <3>5. y = PageRec(p.pc, listed, "none", shown, cards, running, asks, p.describing, p.sending, b, p.opened)
      BY <3>3, <3>4 DEF PageRec
    <3>6. q = Changed(p, "up", here, "none", shown, cards, running, asks, b)
      BY <2>2, <3>5 DEF PageRec, Changed
    <3>7. b \in BOOLEAN /\ (~b => ~p.raced /\ ~Waits) /\ here \in {p.listed, HereNow}
      BY <1>6, <2>1, <3>1
    <3>8. FollowingOK(m, p, here, "none", shown, cards, running, asks, b)
      BY <1>6, <2>0, <3>7 DEF FollowingOK
    <3> QED BY <1>4, <3>6, <3>8, FollowingInv
  <2>4. CASE p.active # m.on
    <3>1. q = [p EXCEPT !.listed = here]
      BY <2>1, <2>2, <2>4
    <3>2. q = Changed(p, "up", here, viewed, shown, cards, running, asks, raced)
      BY <1>5, <1>6, <3>1 DEF PageRec, PageFrom, Changed
    <3>3. here \in {p.listed, HereNow}
      BY <2>1
    <3>4. FollowingOK(m, p, here, viewed, shown, cards, running, asks, raced)
      BY <1>6, <2>0, <3>3 DEF FollowingOK
    <3> QED BY <1>4, <3>2, <3>4, FollowingInv
  <2> QED BY <2>3, <2>4
<1> QED BY <1>3, <1>9, <1>10, <1>11, <1>12, <1>13

(* The invariant but for what waits and what is shown.                     *)
AppMost(w, p) == Shapes(w, p) /\ RunsInv /\ UnusedInv(w, p) /\ PageInv(w, p) /\ MarksInv(w, p) /\ AsksInv(w, p) /\ ToldInv(w, p)

(* The window looks at something else.                                     *)
LEMMA MostPage ==
  ASSUME NEW w, NEW p, AppMost(w, p), p.pc = "up", NEW q \in Pages, q.pc = "up", q.opened = p.opened, q.running = p.running,
         q.asks = p.asks, q.cards \subseteq p.cards, q.listed = p.listed,
         \A t \in AppThreads : rows[t].state = "unused" => q.active # t
  PROVE  AppMost(w, q)
<1>0. /\ Shapes(w, p) /\ RunsInv /\ UnusedInv(w, p) /\ PageInv(w, p) /\ MarksInv(w, p) /\ AsksInv(w, p) /\ ToldInv(w, p)
  BY DEF AppMost
<1>1. Shapes(w, q)
  BY <1>0 DEF Shapes
<1>2. UnusedInv(w, q)
  BY <1>0 DEF UnusedInv
<1>3. PageInv(w, q)
  BY <1>0 DEF PageInv
<1>4. MarksInv(w, q)
  BY <1>0 DEF MarksInv
<1>5. AsksInv(w, q)
  BY <1>0 DEF AsksInv
<1>6. ToldInv(w, q)
  BY <1>0 DEF ToldInv
<1> QED BY <1>0, <1>1, <1>2, <1>3, <1>4, <1>5, <1>6 DEF AppMost

(* Rows are made or go, and worktrees with them; no turn moves.            *)
RowsOK(p) ==
  /\ rows' \in [AppThreads -> RowRecs] /\ runs' = runs /\ sessions' = sessions /\ job' \in {"none", "on"} /\ checkout' \in BOOLEAN
  /\ making' \subseteq AppThreads \X (1 .. MaxWindows) /\ deleting' \subseteq AppThreads \X (1 .. MaxWindows) \X {"project", "tree"}
  /\ \A d \in making' : d[2] <= p.opened /\ (p.pc = "loading" => d[2] # p.opened)
  /\ \A d \in deleting' : d[2] <= p.opened
  /\ \A t \in AppThreads :
       /\ Stays(t)' => Stays(t) /\ rows'[t].items = rows[t].items
       /\ rows'[t].state = "unused" => /\ rows[t].state = "unused" /\ rows'[t].items = rows[t].items /\ ~Leaving(t)'
                                       /\ \A d \in making' : d[1] # t
LEMMA MostRows ==
  ASSUME NEW w, NEW p, AppMost(w, p), RowsOK(p)
  PROVE  AppMost(w, p)'
<1>0. /\ Shapes(w, p) /\ RunsInv /\ UnusedInv(w, p) /\ PageInv(w, p) /\ MarksInv(w, p) /\ AsksInv(w, p) /\ ToldInv(w, p)
  BY DEF AppMost
<1>1. /\ rows' \in [AppThreads -> RowRecs] /\ runs' = runs /\ sessions' = sessions /\ job' \in {"none", "on"} /\ checkout' \in BOOLEAN
      /\ making' \subseteq AppThreads \X (1 .. MaxWindows) /\ deleting' \subseteq AppThreads \X (1 .. MaxWindows) \X {"project", "tree"}
      /\ \A d \in making' : d[2] <= p.opened /\ (p.pc = "loading" => d[2] # p.opened)
      /\ \A d \in deleting' : d[2] <= p.opened
  BY DEF RowsOK
<1>2. ASSUME NEW t \in AppThreads
      PROVE  /\ Stays(t)' => Stays(t) /\ rows'[t].items = rows[t].items
             /\ rows'[t].state = "unused" => /\ rows[t].state = "unused" /\ rows'[t].items = rows[t].items /\ ~Leaving(t)'
                                             /\ \A d \in making' : d[1] # t
  BY DEF RowsOK
<1>3. Shapes(w, p)'
  BY <1>0, <1>1 DEF Shapes
<1>4. RunsInv'
  <2>1. ASSUME NEW k \in RunIds, Goes(k)'
        PROVE  /\ runs'[k].on \in AppThreads /\ rows'[runs'[k].on].state # "unused"
               /\ Stays(runs[k].on)' => sessions'[runs'[k].on] = k
               /\ (runs'[k].pc = "asking" => runs'[k].calls # <<>> /\ Head(runs'[k].calls) \in {"risky", "outside"})
               /\ (runs'[k].pc \in {"running", "killed"} => runs'[k].calls # <<>>)
    <3>1. Goes(k)
      BY <1>1, <2>1 DEF Goes
    <3>2. PICK t : t = runs[k].on
      OBVIOUS
    <3>3. /\ t \in AppThreads /\ rows[t].state # "unused" /\ (Stays(t) => sessions[t] = k)
          /\ (runs[k].pc = "asking" => runs[k].calls # <<>> /\ Head(runs[k].calls) \in {"risky", "outside"})
          /\ (runs[k].pc \in {"running", "killed"} => runs[k].calls # <<>>)
      BY <1>0, <3>1, <3>2 DEF RunsInv
    <3>4. rows'[t].state # "unused" /\ (Stays(t)' => sessions[t] = k)
      BY <1>2, <3>3
    <3> QED BY <1>1, <3>2, <3>3, <3>4 DEF Stays, Leaving
  <2>2. ASSUME NEW t \in AppThreads, sessions'[t] # 0 PROVE Goes(sessions[t])' /\ runs'[sessions'[t]].on = t
    <3>1. Goes(sessions[t]) /\ runs[sessions[t]].on = t
      BY <1>0, <1>1, <2>2 DEF RunsInv
    <3> QED BY <1>1, <3>1 DEF Goes
  <2> QED BY <1>1, <2>1, <2>2 DEF RunsInv, Goes, Stays, Leaving
<1>5. UnusedInv(w, p)'
  <2> SUFFICES ASSUME NEW t \in AppThreads, rows'[t].state = "unused"
               PROVE  /\ rows'[t].items = {} /\ sessions'[t] = 0 /\ ~Leaving(t)' /\ t \notin p.running /\ t \notin p.asks /\ t \notin p.listed
                      /\ p.active # t
                      /\ \A i \in 1 .. Len(w) : w[i].on # t /\ (w[i].kind \in {"running", "created"} => t \notin w[i].those)
                      /\ \A d \in making' : d[1] # t
    BY DEF UnusedInv, Leaving
  <2>1. rows[t].state = "unused" /\ rows'[t].items = rows[t].items /\ ~Leaving(t)' /\ \A d \in making' : d[1] # t
    BY <1>2
  <2> QED BY <1>0, <1>1, <2>1 DEF UnusedInv
<1>6. PageInv(w, p)'
  BY <1>0, <1>1 DEF PageInv
<1>7. MarksInv(w, p)'
  <2> SUFFICES ASSUME NEW t \in AppThreads, Stays(t)'
               PROVE  /\ \A i \in 1 .. Len(w) : Marks(w[i], t) =>
                           (\E j \in 1 .. Len(w) : j > i /\ Marks(w[j], t)) \/ (Says(w[i], t) <=> sessions'[t] # 0)
                      /\ p.pc = "up" => (\E j \in 1 .. Len(w) : Marks(w[j], t)) \/ (t \in p.running <=> sessions'[t] # 0)
    BY DEF MarksInv, Marks, Says, Stays, Leaving
  <2> QED BY <1>0, <1>1, <1>2 DEF MarksInv
<1>8. AsksInv(w, p)'
  <2>1. ASSUME NEW t \in AppThreads, Stays(t)'
        PROVE  /\ \A i \in 1 .. Len(w) : w[i].kind = "ask" /\ w[i].on = t =>
                    \/ \E j \in 1 .. Len(w) : j > i /\ Ended(w[j], t)
                    \/ /\ sessions'[t] # 0 /\ w[i].item.run = sessions'[t]
                       /\ runs'[sessions'[t]].stopped \/ (runs'[sessions'[t]].pc = "asking" /\ w[i].item.n = runs'[sessions'[t]].n)
               /\ t \in p.asks =>
                    \/ \E j \in 1 .. Len(w) : Ended(w[j], t)
                    \/ sessions'[t] # 0 /\ (runs'[sessions'[t]].stopped \/ runs'[sessions'[t]].pc = "asking")
    <3>1. Stays(t)
      BY <1>2, <2>1
    <3> QED BY <1>0, <1>1, <3>1 DEF AsksInv
  <2>2. \A i \in 1 .. Len(w) : w[i].kind = "ask" =>
          /\ runs'[w[i].item.run].pc # "none" /\ (Goes(w[i].item.run)' => w[i].item.n <= runs'[w[i].item.run].n)
          /\ \A c \in p.cards : c.item.run = w[i].item.run => c.item.n < w[i].item.n
          /\ \A j \in 1 .. Len(w) : w[j].kind = "ask" /\ w[j].item.run = w[i].item.run /\ j < i => w[j].item.n < w[i].item.n
    BY <1>0, <1>1 DEF AsksInv, Goes
  <2>3. \A c \in p.cards : runs'[c.item.run].pc # "none" /\ (Goes(c.item.run)' => c.item.n <= runs'[c.item.run].n)
    BY <1>0, <1>1 DEF AsksInv, Goes
  <2> QED BY <2>1, <2>2, <2>3 DEF AsksInv, Ended, Goes, Stays, Leaving
<1>9. ToldInv(w, p)'
  <2> SUFFICES ASSUME NEW t \in AppThreads, Stays(t)', NEW i \in 1 .. Len(w), Tells(w[i], t) PROVE w[i].item \in Known(t)'
    BY DEF ToldInv, Tells, Stays, Leaving
  <2>1. w[i].item \in Known(t) /\ rows'[t].items = rows[t].items
    BY <1>0, <1>2 DEF ToldInv
  <2>2. Known(t)' = Known(t)
    BY <1>1, <2>1 DEF Known, OnWay
  <2> QED BY <2>1, <2>2
<1> QED BY <1>3, <1>4, <1>5, <1>6, <1>7, <1>8, <1>9 DEF AppMost

(* An answer is put on the wire.                                           *)
AddedOK(x, v, q) ==
  /\ x \in Msgs /\ x.kind \in {"listed", "got", "created", "deleted", "running"} /\ q.pc # "closed"
  /\ (q.pc = "loading" => x.kind \in {"deleted", "running"}) /\ (q.pc = "up" => x.kind # "running")
  /\ x.kind = "running" => /\ x.on \notin AppThreads /\ x.those = {t \in AppThreads : sessions'[t] # 0}
                           /\ \A i \in 1 .. Len(v) : v[i].kind # "running"
  /\ x.kind # "running" => x.on \in AppThreads /\ rows'[x.on].state # "unused"
  /\ x.kind = "created" => x.those \subseteq {x.on}
  /\ x.kind = "got" => x.those \subseteq Items
LEMMA MostMore ==
  ASSUME NEW v, NEW q, AppMost(v, q)', Len(v) + 1 <= MaxWire, NEW x, AddedOK(x, v, q), NEW e, e = <<x>>, NEW u, Lengthened(u, v, e)
  PROVE  AppMost(u, q)'
<1>0. /\ Shapes(v, q)' /\ RunsInv' /\ UnusedInv(v, q)' /\ PageInv(v, q)' /\ MarksInv(v, q)' /\ AsksInv(v, q)' /\ ToldInv(v, q)'
  BY DEF AppMost
<1>1. /\ x \in Msgs /\ x.kind \in {"listed", "got", "created", "deleted", "running"} /\ q.pc # "closed"
      /\ (q.pc = "loading" => x.kind \in {"deleted", "running"}) /\ (q.pc = "up" => x.kind # "running")
      /\ x.kind = "running" => /\ x.on \notin AppThreads /\ x.those = {t \in AppThreads : sessions'[t] # 0}
                               /\ \A i \in 1 .. Len(v) : v[i].kind # "running"
      /\ x.kind # "running" => x.on \in AppThreads /\ rows'[x.on].state # "unused"
      /\ x.kind = "created" => x.those \subseteq {x.on}
      /\ x.kind = "got" => x.those \subseteq Items
  BY DEF AddedOK
<1>2. v \in Seq(Msgs) /\ e \in Seq(Msgs) /\ Len(e) = 1 /\ 1 .. Len(e) = {1} /\ e[1] = x
  BY <1>0, <1>1 DEF Shapes
<1>3. Extends(u, v, e)
  BY <1>2, WireLonger
<1>4. PICK n \in 1 .. Len(u) : n \notin 1 .. Len(v) /\ u[n] = x
  BY <1>2, <1>3 DEF Extends
<1>5. /\ u \in Seq(Msgs) /\ Len(u) = Len(v) + 1
      /\ \A i \in 1 .. Len(v) : i \in 1 .. Len(u) /\ u[i] = v[i] /\ n > i
      /\ \A i \in 1 .. Len(u) : i \notin 1 .. Len(v) => u[i] = x /\ i = n
  BY <1>2, <1>3, <1>4 DEF Extends
<1>6. Shapes(u, q)'
  <2>1. \A i \in 1 .. Len(v) : /\ v[i].kind \in {"begun", "item", "ask"} => v[i].item \in Items
                               /\ v[i].kind # "running" => v[i].on \in AppThreads
                               /\ v[i].kind \in {"running", "created"} => v[i].those \subseteq AppThreads
                               /\ v[i].kind = "got" => v[i].those \subseteq Items
    BY <1>0 DEF Shapes
  <2>2. /\ x.kind \notin {"begun", "item", "ask"}
        /\ x.kind # "running" => x.on \in AppThreads
        /\ x.kind \in {"running", "created"} => x.those \subseteq AppThreads
        /\ x.kind = "got" => x.those \subseteq Items
    BY <1>1
  <2>3. \A i \in 1 .. Len(u) : /\ u[i].kind \in {"begun", "item", "ask"} => u[i].item \in Items
                               /\ u[i].kind # "running" => u[i].on \in AppThreads
                               /\ u[i].kind \in {"running", "created"} => u[i].those \subseteq AppThreads
                               /\ u[i].kind = "got" => u[i].those \subseteq Items
    BY <1>5, <2>1, <2>2
  <2> QED BY <1>0, <1>5, <2>3 DEF Shapes
<1>7. UnusedInv(u, q)'
  <2> SUFFICES ASSUME NEW t \in AppThreads, rows'[t].state = "unused"
               PROVE  /\ rows'[t].items = {} /\ sessions'[t] = 0 /\ ~Leaving(t)' /\ t \notin q.running /\ t \notin q.asks /\ t \notin q.listed
                      /\ q.active # t
                      /\ \A i \in 1 .. Len(u) : u[i].on # t /\ (u[i].kind \in {"running", "created"} => t \notin u[i].those)
                      /\ \A d \in making' : d[1] # t
    BY DEF UnusedInv, Leaving
  <2>1. /\ rows'[t].items = {} /\ sessions'[t] = 0 /\ ~Leaving(t)' /\ t \notin q.running /\ t \notin q.asks /\ t \notin q.listed
        /\ q.active # t
        /\ \A i \in 1 .. Len(v) : v[i].on # t /\ (v[i].kind \in {"running", "created"} => t \notin v[i].those)
        /\ \A d \in making' : d[1] # t
    BY <1>0 DEF UnusedInv, Leaving
  <2>2. x.on # t /\ (x.kind \in {"running", "created"} => t \notin x.those)
    BY <1>1, <2>1
  <2>3. \A i \in 1 .. Len(u) : u[i].on # t /\ (u[i].kind \in {"running", "created"} => t \notin u[i].those)
    BY <1>5, <2>1, <2>2
  <2> QED BY <2>1, <2>3
<1>8. PageInv(u, q)'
  <2>1. /\ q.pc = "loading" => /\ q.running = {} /\ q.asks = {} /\ q.cards = {} /\ q.shown = {} /\ q.describing = {} /\ q.sending = "no"
                               /\ q.active = "none"
                               /\ \A i \in 1 .. Len(v) : v[i].kind \notin {"got", "created", "listed"}
                               /\ \A d \in making' : d[2] # q.opened
        /\ q.pc = "up" => \A i \in 1 .. Len(v) : v[i].kind # "running"
        /\ \A i, j \in 1 .. Len(v) : v[i].kind = "running" /\ v[j].kind = "running" => i = j
        /\ \A d \in making' : d[2] <= q.opened
        /\ \A d \in deleting' : d[2] <= q.opened
        /\ q.opened # 0
    BY <1>0, <1>1 DEF PageInv
  <2>2. q.pc = "loading" => \A i \in 1 .. Len(u) : u[i].kind \notin {"got", "created", "listed"}
    BY <1>1, <1>5, <2>1
  <2>3. q.pc = "up" => \A i \in 1 .. Len(u) : u[i].kind # "running"
    BY <1>1, <1>5, <2>1
  <2>4. \A i, j \in 1 .. Len(u) : u[i].kind = "running" /\ u[j].kind = "running" => i = j
    BY <1>1, <1>5, <2>1
  <2> QED BY <1>1, <2>1, <2>2, <2>3, <2>4 DEF PageInv
<1>9. MarksInv(u, q)'
  <2> SUFFICES ASSUME NEW t \in AppThreads, Stays(t)'
               PROVE  /\ \A i \in 1 .. Len(u) : Marks(u[i], t) =>
                           (\E j \in 1 .. Len(u) : j > i /\ Marks(u[j], t)) \/ (Says(u[i], t) <=> sessions'[t] # 0)
                      /\ q.pc = "up" => (\E j \in 1 .. Len(u) : Marks(u[j], t)) \/ (t \in q.running <=> sessions'[t] # 0)
    BY DEF MarksInv, Marks, Says, Stays, Leaving
  <2>1. /\ \A i \in 1 .. Len(v) : Marks(v[i], t) =>
             (\E j \in 1 .. Len(v) : j > i /\ Marks(v[j], t)) \/ (Says(v[i], t) <=> sessions'[t] # 0)
        /\ q.pc = "up" => (\E j \in 1 .. Len(v) : Marks(v[j], t)) \/ (t \in q.running <=> sessions'[t] # 0)
    BY <1>0 DEF MarksInv, Marks, Says, Stays, Leaving
  <2>2. Marks(x, t) => x.kind = "running"
    BY <1>1 DEF Marks
  <2>3. Marks(x, t) => (Says(x, t) <=> sessions'[t] # 0)
    BY <1>1, <2>2 DEF Says
  <2>4. ASSUME NEW i \in 1 .. Len(u), Marks(u[i], t)
        PROVE  (\E j \in 1 .. Len(u) : j > i /\ Marks(u[j], t)) \/ (Says(u[i], t) <=> sessions'[t] # 0)
    <3>1. CASE i \in 1 .. Len(v)
      BY <1>5, <2>1, <2>4, <3>1
    <3>2. CASE i \notin 1 .. Len(v)
      BY <1>5, <2>3, <2>4, <3>2
    <3> QED BY <3>1, <3>2
  <2> QED BY <1>5, <2>1, <2>4
<1>10. AsksInv(u, q)'
  <2>1. ASSUME NEW i \in 1 .. Len(u), u[i].kind = "ask" PROVE i \in 1 .. Len(v) /\ u[i] = v[i]
    BY <1>1, <1>5, <2>1
  <2>2. ASSUME NEW t \in AppThreads, Stays(t)'
        PROVE  /\ \A i \in 1 .. Len(u) : u[i].kind = "ask" /\ u[i].on = t =>
                    \/ \E j \in 1 .. Len(u) : j > i /\ Ended(u[j], t)
                    \/ /\ sessions'[t] # 0 /\ u[i].item.run = sessions'[t]
                       /\ runs'[sessions'[t]].stopped \/ (runs'[sessions'[t]].pc = "asking" /\ u[i].item.n = runs'[sessions'[t]].n)
               /\ t \in q.asks =>
                    \/ \E j \in 1 .. Len(u) : Ended(u[j], t)
                    \/ sessions'[t] # 0 /\ (runs'[sessions'[t]].stopped \/ runs'[sessions'[t]].pc = "asking")
    <3>1. /\ \A i \in 1 .. Len(v) : v[i].kind = "ask" /\ v[i].on = t =>
               \/ \E j \in 1 .. Len(v) : j > i /\ Ended(v[j], t)
               \/ /\ sessions'[t] # 0 /\ v[i].item.run = sessions'[t]
                  /\ runs'[sessions'[t]].stopped \/ (runs'[sessions'[t]].pc = "asking" /\ v[i].item.n = runs'[sessions'[t]].n)
          /\ t \in q.asks =>
               \/ \E j \in 1 .. Len(v) : Ended(v[j], t)
               \/ sessions'[t] # 0 /\ (runs'[sessions'[t]].stopped \/ runs'[sessions'[t]].pc = "asking")
      BY <1>0, <2>2 DEF AsksInv, Ended, Stays, Leaving
    <3> QED BY <1>5, <2>1, <3>1
  <2>3. \A i \in 1 .. Len(u) : u[i].kind = "ask" =>
          /\ runs'[u[i].item.run].pc # "none" /\ (Goes(u[i].item.run)' => u[i].item.n <= runs'[u[i].item.run].n)
          /\ \A c \in q.cards : c.item.run = u[i].item.run => c.item.n < u[i].item.n
          /\ \A j \in 1 .. Len(u) : u[j].kind = "ask" /\ u[j].item.run = u[i].item.run /\ j < i => u[j].item.n < u[i].item.n
    <3>1. \A i \in 1 .. Len(v) : v[i].kind = "ask" =>
            /\ runs'[v[i].item.run].pc # "none" /\ (Goes(v[i].item.run)' => v[i].item.n <= runs'[v[i].item.run].n)
            /\ \A c \in q.cards : c.item.run = v[i].item.run => c.item.n < v[i].item.n
            /\ \A j \in 1 .. Len(v) : v[j].kind = "ask" /\ v[j].item.run = v[i].item.run /\ j < i => v[j].item.n < v[i].item.n
      BY <1>0 DEF AsksInv, Goes
    <3> QED BY <1>5, <2>1, <3>1
  <2>4. \A c \in q.cards : runs'[c.item.run].pc # "none" /\ (Goes(c.item.run)' => c.item.n <= runs'[c.item.run].n)
    BY <1>0 DEF AsksInv, Goes
  <2> QED BY <2>2, <2>3, <2>4 DEF AsksInv, Ended, Goes, Stays, Leaving
<1>11. ToldInv(u, q)'
  <2> SUFFICES ASSUME NEW t \in AppThreads, Stays(t)', NEW i \in 1 .. Len(u), Tells(u[i], t) PROVE u[i].item \in Known(t)'
    BY DEF ToldInv, Tells, Stays, Leaving, Known, OnWay
  <2>1. i \in 1 .. Len(v) /\ u[i] = v[i]
    BY <1>1, <1>5 DEF Tells
  <2>2. \A j \in 1 .. Len(v) : Tells(v[j], t) => v[j].item \in Known(t)'
    BY <1>0 DEF ToldInv, Tells, Stays, Leaving, Known, OnWay
  <2> QED BY <2>1, <2>2
<1> QED BY <1>6, <1>7, <1>8, <1>9, <1>10, <1>11 DEF AppMost

(* All of it, for the wire and the window as they are then.                *)
LEMMA AppThen ==
  ASSUME NEW u, NEW q, AppMost(u, q)', OneWait(u, q)', NewInv(u, q)', ShownInv(u, q)', wire' = u, page' = q
  PROVE  AppInv'
<1>1. Shapes(wire, page)' = Shapes(u, q)'
  BY DEF Shapes
<1>2. UnusedInv(wire, page)' = UnusedInv(u, q)'
  BY DEF UnusedInv, Leaving
<1>3. PageInv(wire, page)' = PageInv(u, q)'
  BY DEF PageInv
<1>4. MarksInv(wire, page)' = MarksInv(u, q)'
  BY DEF MarksInv, Marks, Says, Stays, Leaving
<1>5. AsksInv(wire, page)' = AsksInv(u, q)'
  BY DEF AsksInv, Ended, Goes, Stays, Leaving
<1>6. ToldInv(wire, page)' = ToldInv(u, q)'
  BY DEF ToldInv, Tells, Known, OnWay, Stays, Leaving
<1>7. OneWait(wire, page)' = OneWait(u, q)'
  BY DEF OneWait
<1>8. NewInv(wire, page)' = NewInv(u, q)'
  BY DEF NewInv, Bare, Stays, Leaving
<1>9. ShownInv(wire, page)' = ShownInv(u, q)'
  BY DEF ShownInv, Tells, Known, OnWay, Stays, Leaving
<1>10. Shapes(u, q)' /\ RunsInv' /\ UnusedInv(u, q)' /\ PageInv(u, q)' /\ MarksInv(u, q)' /\ AsksInv(u, q)' /\ ToldInv(u, q)'
  BY DEF AppMost
<1> QED BY <1>1, <1>2, <1>3, <1>4, <1>5, <1>6, <1>7, <1>8, <1>9, <1>10 DEF AppInv, AppInvAt

(* Only the window and the wire change.                                    *)
LEMMA RowsSame ==
  ASSUME NEW v, NEW q, AppMost(v, q), q.pc # "closed", UNCHANGED <<rows, checkout, runs, sessions, making, deleting, job>>
  PROVE  AppMost(v, q)'
<1>1. Shapes(v, q)' = Shapes(v, q)
  BY DEF Shapes
<1>2. RunsInv' = RunsInv
  BY DEF RunsInv, Goes, Stays, Leaving
<1>3. UnusedInv(v, q)' = UnusedInv(v, q)
  BY DEF UnusedInv, Leaving
<1>4. PageInv(v, q)' = PageInv(v, q)
  BY DEF PageInv
<1>5. MarksInv(v, q)' = MarksInv(v, q)
  BY DEF MarksInv, Marks, Says, Stays, Leaving
<1>6. AsksInv(v, q)' = AsksInv(v, q)
  BY DEF AsksInv, Ended, Goes, Stays, Leaving
<1>7. ToldInv(v, q)' = ToldInv(v, q)
  BY DEF ToldInv, Tells, Known, OnWay, Stays, Leaving
<1> QED BY <1>1, <1>2, <1>3, <1>4, <1>5, <1>6, <1>7 DEF AppMost

(* What a window that did not race knows when an answer comes.             *)
LEMMA GotAlone ==
  ASSUME NEW w, NEW p, OneWait(w, p), p.pc = "up", ~p.raced, NEW n \in 1 .. Len(w), w[n].kind = "got"
  PROVE  /\ p.describing = {} /\ p.sending = "no" /\ w[n].on = p.active
         /\ \A i \in 1 .. Len(w) : i # n => w[i].kind \notin {"got", "created", "listed"}
         /\ \A i \in 1 .. Len(w) : w[i].kind \notin {"created", "listed"}
         /\ \A d \in making : d[2] # p.opened
  BY DEF OneWait
LEMMA CreatedAlone ==
  ASSUME NEW w, NEW p, OneWait(w, p), p.pc = "up", ~p.raced, NEW n \in 1 .. Len(w), w[n].kind = "created"
  PROVE  /\ p.describing = {} /\ p.sending = "creating" /\ p.active = "none"
         /\ \A i \in 1 .. Len(w) : i # n => w[i].kind \notin {"got", "created", "listed"}
         /\ \A i \in 1 .. Len(w) : w[i].kind \notin {"got", "listed"}
         /\ \A d \in making : d[2] # p.opened
  BY DEF OneWait
LEMMA ListedAlone ==
  ASSUME NEW w, NEW p, OneWait(w, p), p.pc = "up", ~p.raced, NEW n \in 1 .. Len(w), w[n].kind = "listed"
  PROVE  /\ p.describing = {} /\ p.sending = "listing" /\ w[n].on = p.active
         /\ \A i \in 1 .. Len(w) : i # n => w[i].kind \notin {"got", "created", "listed"}
         /\ \A i \in 1 .. Len(w) : w[i].kind \notin {"got", "created"}
         /\ \A d \in making : d[2] # p.opened
  BY DEF OneWait

(* The window hears that what is asked of it does not end.                 *)
HeardPlain(p, q) ==
  /\ q \in Pages /\ q.pc = "up" /\ q.opened = p.opened /\ q.running = p.running /\ q.asks = p.asks /\ q.cards \subseteq p.cards
  /\ q.raced = p.raced
LEMMA HeardPlainOK ==
  ASSUME NEW m, NEW p, NEW q, p.pc = "up", HeardPlain(p, q), m.kind \in {"got", "created", "listed"},
         \A t \in AppThreads : rows[t].state = "unused" => t \notin q.running /\ t \notin q.asks /\ t \notin q.listed /\ q.active # t
  PROVE  HeardOK(m, p, q)
<1>1. \A t \in AppThreads : ~Marks(m, t) /\ ~Ended(m, t)
  BY DEF Marks, Ended
<1> QED BY <1>1 DEF HeardOK, HeardPlain

(* selectThread's answer.                                                  *)
GotHeard(p, m) == {[Cleared(p) EXCEPT !.shown = m.those], [Cleared(p) EXCEPT !.describing = @ \cup {m.those}]}
LEMMA HearsGot ==
  ASSUME AppInv, NEW w, NEW p, w = wire, p = page, w # <<>>, p.pc = "up", NEW m, m = Head(w), NEW v, v = Tail(w),
         m.kind = "got", NEW q, q \in GotHeard(p, m), wire' = v, page' = q,
         UNCHANGED <<rows, checkout, runs, sessions, making, deleting, job>>
  PROVE  AppInv'
<1>1. AppInvAt(w, p) /\ w \in Seq(Msgs) /\ p \in Pages
  <2>1. AppInvAt(w, p)
    BY DEF AppInv
  <2> QED BY <2>1, AppNow
<1>2. RestAfter(v, w) /\ m = w[1] /\ 1 \in 1 .. Len(w)
  BY <1>1, RestIs DEF RestAfter
<1>3. PICK those, none : those = m.those /\ none = {}
  OBVIOUS
<1>4. those \in SUBSET Items
  BY <1>1, <1>2, <1>3, AppNow DEF Shapes
<1>5. p = PageFrom(p)
  BY <1>1, PageShape
<1>6. PICK y : y = [p EXCEPT !.shown = none]
  OBVIOUS
<1>7. PICK z : z = Cleared(p)
  OBVIOUS
<1>8. z = PageRec(p.pc, p.listed, p.active, none, none, p.running, p.asks, p.describing, p.sending, p.raced, p.opened)
  <2>1. y = PageRec(p.pc, p.listed, p.active, none, p.cards, p.running, p.asks, p.describing, p.sending, p.raced, p.opened)
    BY <1>5, <1>6 DEF PageRec, PageFrom
  <2>2. z = [p EXCEPT !.shown = none, !.cards = none]
    BY <1>3, <1>7 DEF Cleared
  <2>3. z = [y EXCEPT !.cards = none]
    BY <1>6, <2>2
  <2> QED BY <2>1, <2>3 DEF PageRec
<1>9. PICK more : more = p.describing \cup {those}
  OBVIOUS
<1>10. z.describing = p.describing
  BY <1>8 DEF PageRec
<1>11. q = [z EXCEPT !.shown = those] \/ q = [z EXCEPT !.describing = more]
  BY <1>3, <1>7, <1>9, <1>10 DEF GotHeard
<1>12. PICK shown, reading :
         /\ (shown = those /\ reading = p.describing) \/ (shown = none /\ reading = more)
         /\ q = PageRec(p.pc, p.listed, p.active, shown, none, p.running, p.asks, reading, p.sending, p.raced, p.opened)
  <2>1. CASE q = [z EXCEPT !.shown = those]
    <3>1. q = PageRec(p.pc, p.listed, p.active, those, none, p.running, p.asks, p.describing, p.sending, p.raced, p.opened)
      BY <1>8, <2>1 DEF PageRec
    <3> QED BY <3>1
  <2>2. CASE q = [z EXCEPT !.describing = more]
    <3>1. q = PageRec(p.pc, p.listed, p.active, none, none, p.running, p.asks, more, p.sending, p.raced, p.opened)
      BY <1>8, <2>2 DEF PageRec
    <3> QED BY <3>1
  <2> QED BY <1>11, <2>1, <2>2
<1>13. /\ p.pc \in {"closed", "loading", "up"} /\ p.listed \in SUBSET AppThreads /\ p.active \in Threads /\ shown \in SUBSET Items
       /\ none \in SUBSET Cards /\ p.running \in SUBSET AppThreads /\ p.asks \in SUBSET AppThreads
       /\ reading \in SUBSET (SUBSET Items) /\ p.sending \in {"no", "creating", "listing"} /\ p.raced \in BOOLEAN
       /\ p.opened \in 0 .. MaxWindows
  BY <1>1, <1>3, <1>4, <1>9, <1>12, PageIs
<1>14. q \in Pages
  BY <1>12, <1>13 DEF Pages, PageRec
<1>15. /\ q.pc = p.pc /\ q.listed = p.listed /\ q.active = p.active /\ q.shown = shown /\ q.cards = none /\ q.running = p.running
       /\ q.asks = p.asks /\ q.describing = reading /\ q.sending = p.sending /\ q.raced = p.raced /\ q.opened = p.opened
  BY <1>12 DEF PageRec
<1>16. HeardOK(m, p, q)
  <2>1. HeardPlain(p, q)
    BY <1>3, <1>14, <1>15 DEF HeardPlain
  <2>2. \A t \in AppThreads : rows[t].state = "unused" => t \notin q.running /\ t \notin q.asks /\ t \notin q.listed /\ q.active # t
    BY <1>1, <1>15, AppNow DEF UnusedInv
  <2> QED BY <2>1, <2>2, HeardPlainOK
<1>17. ASSUME ~q.raced
       PROVE  /\ ~p.raced /\ p.describing = {} /\ p.sending = "no" /\ m.on = p.active
              /\ \A i \in 1 .. Len(v) : v[i].kind \notin {"got", "created", "listed"}
              /\ \A d \in making : d[2] # p.opened
  <2>1. ~p.raced
    BY <1>15, <1>17
  <2>2. OneWait(w, p)
    BY <1>1, AppNow
  <2>3. /\ p.describing = {} /\ p.sending = "no" /\ m.on = p.active
        /\ \A i \in 1 .. Len(w) : i # 1 => w[i].kind \notin {"got", "created", "listed"}
        /\ \A d \in making : d[2] # p.opened
    BY <1>2, <2>1, <2>2, GotAlone
  <2>4. ASSUME NEW i \in 1 .. Len(v) PROVE v[i].kind \notin {"got", "created", "listed"}
    <3>1. PICK h : h = i + 1
      OBVIOUS
    <3>2. h \in 1 .. Len(w) /\ v[i] = w[h] /\ h > 1
      BY <1>2, <3>1 DEF RestAfter
    <3>3. h # 1
      BY <3>2
    <3> QED BY <2>3, <3>2, <3>3
  <2> QED BY <2>1, <2>3, <2>4
<1>18. ~q.raced => q.shown \cup UNION q.describing = those
  BY <1>3, <1>9, <1>12, <1>15, <1>17
<1>19. OneWait(v, q)
  <2> SUFFICES ASSUME ~q.raced PROVE OneWait(v, q)
    BY DEF OneWait
  <2>1. q.sending = "no" /\ (\A d \in making : d[2] # q.opened) /\ \A i \in 1 .. Len(v) : v[i].kind \notin {"got", "created", "listed"}
    BY <1>15, <1>17
  <2>2. \A d, e \in q.describing : d = e
    BY <1>9, <1>12, <1>15, <1>17
  <2> QED BY <2>1, <2>2 DEF OneWait
<1>20. NewInv(v, q)
  BY <1>15, <1>17 DEF NewInv
<1>21. ShownInv(v, q)
  <2> SUFFICES ASSUME ~q.raced, q.active \in AppThreads, Stays(q.active) PROVE ShownInv(v, q)
    BY DEF ShownInv
  <2>1. PICK t \in AppThreads : t = p.active /\ q.active = t
    BY <1>15
  <2>2. /\ \A x \in rows[t].items : x \in those \/ \E j \in 1 .. Len(w) : j > 1 /\ Tells(w[j], t) /\ w[j].item = x
        /\ those \subseteq Known(t)
    <3>1. ShownInv(w, p)
      BY <1>1, AppNow
    <3> QED BY <1>2, <1>3, <1>15, <1>17, <2>1, <3>1 DEF ShownInv
  <2>3. ASSUME NEW x \in rows[t].items, x \notin those PROVE \E j \in 1 .. Len(v) : Tells(v[j], t) /\ v[j].item = x
    <3>1. PICK j \in 1 .. Len(w) : j > 1 /\ Tells(w[j], t) /\ w[j].item = x
      BY <2>2, <2>3
    <3>2. PICK g : g = j - 1
      OBVIOUS
    <3>3. g \in 1 .. Len(v) /\ v[g] = w[j]
      BY <1>2, <3>1, <3>2 DEF RestAfter
    <3> QED BY <3>1, <3>3
  <2>4. \A x \in rows[t].items : \/ x \in q.shown \/ x \in UNION q.describing
                                 \/ \E j \in 1 .. Len(v) : Tells(v[j], t) /\ v[j].item = x
    BY <1>18, <2>3
  <2>5. q.shown \cup UNION q.describing \subseteq Known(t) /\ \A i \in 1 .. Len(v) : v[i].kind # "got"
    BY <1>17, <1>18, <2>2
  <2> QED BY <2>1, <2>4, <2>5 DEF ShownInv
<1> QED BY <1>2, <1>16, <1>19, <1>20, <1>21, HeardInv

(* threads:create's answer: the worktree could not be added, or the thread *)
(* went away meanwhile.                                                    *)
NotCreated(p) == [p EXCEPT !.sending = "no"]
LEMMA HearsNone ==
  ASSUME AppInv, NEW w, NEW p, w = wire, p = page, w # <<>>, p.pc = "up", NEW m, m = Head(w), NEW v, v = Tail(w),
         m.kind = "created", NEW q, q = NotCreated(p), wire' = v, page' = q,
         UNCHANGED <<rows, checkout, runs, sessions, making, deleting, job>>
  PROVE  AppInv'
<1>1. AppInvAt(w, p) /\ w \in Seq(Msgs) /\ p \in Pages
  <2>1. AppInvAt(w, p)
    BY DEF AppInv
  <2> QED BY <2>1, AppNow
<1>2. RestAfter(v, w) /\ m = w[1] /\ 1 \in 1 .. Len(w)
  BY <1>1, RestIs DEF RestAfter
<1>3. p = PageFrom(p)
  BY <1>1, PageShape
<1>4. q = PageRec(p.pc, p.listed, p.active, p.shown, p.cards, p.running, p.asks, p.describing, "no", p.raced, p.opened)
  BY <1>3 DEF NotCreated, PageRec, PageFrom
<1>5. /\ p.pc \in {"closed", "loading", "up"} /\ p.listed \in SUBSET AppThreads /\ p.active \in Threads /\ p.shown \in SUBSET Items
      /\ p.cards \in SUBSET Cards /\ p.running \in SUBSET AppThreads /\ p.asks \in SUBSET AppThreads
      /\ p.describing \in SUBSET (SUBSET Items) /\ "no" \in {"no", "creating", "listing"} /\ p.raced \in BOOLEAN
      /\ p.opened \in 0 .. MaxWindows
  BY <1>1, PageIs
<1>6. q \in Pages
  BY <1>4, <1>5 DEF Pages, PageRec
<1>7. /\ q.pc = p.pc /\ q.listed = p.listed /\ q.active = p.active /\ q.shown = p.shown /\ q.cards = p.cards /\ q.running = p.running
      /\ q.asks = p.asks /\ q.describing = p.describing /\ q.sending = "no" /\ q.raced = p.raced /\ q.opened = p.opened
  BY <1>4 DEF PageRec
<1>8. HeardOK(m, p, q)
  <2>1. HeardPlain(p, q)
    BY <1>6, <1>7 DEF HeardPlain
  <2>2. \A t \in AppThreads : rows[t].state = "unused" => t \notin q.running /\ t \notin q.asks /\ t \notin q.listed /\ q.active # t
    BY <1>1, <1>7, AppNow DEF UnusedInv
  <2> QED BY <2>1, <2>2, HeardPlainOK
<1>9. ASSUME ~q.raced
      PROVE  /\ p.describing = {} /\ p.active = "none"
             /\ \A i \in 1 .. Len(v) : v[i].kind \notin {"got", "created", "listed"}
             /\ \A d \in making : d[2] # p.opened
  <2>1. ~p.raced /\ OneWait(w, p)
    BY <1>1, <1>7, <1>9, AppNow
  <2>2. /\ p.describing = {} /\ p.active = "none"
        /\ \A i \in 1 .. Len(w) : i # 1 => w[i].kind \notin {"got", "created", "listed"}
        /\ \A d \in making : d[2] # p.opened
    BY <1>2, <2>1, CreatedAlone
  <2>3. ASSUME NEW i \in 1 .. Len(v) PROVE v[i].kind \notin {"got", "created", "listed"}
    <3>1. PICK h : h = i + 1
      OBVIOUS
    <3>2. h \in 1 .. Len(w) /\ v[i] = w[h] /\ h > 1
      BY <1>2, <3>1 DEF RestAfter
    <3>3. h # 1
      BY <3>2
    <3> QED BY <2>2, <3>2, <3>3
  <2> QED BY <2>2, <2>3
<1>10. OneWait(v, q)
  BY <1>7, <1>9 DEF OneWait
<1>11. NewInv(v, q) /\ ShownInv(v, q)
  <2>1. NewInv(v, q)
    BY <1>7, <1>9 DEF NewInv
  <2>2. ~q.raced => q.active \notin AppThreads
    BY <1>7, <1>9, AppConstants
  <2> QED BY <2>1, <2>2 DEF ShownInv
<1> QED BY <1>2, <1>8, <1>10, <1>11, HeardInv

(* The thread is there: the window opens it and asks for the list.         *)
NewlyOpen(p, t) == [p EXCEPT !.active = t, !.sending = "listing"]
LEMMA HearsCreated ==
  ASSUME AppInv, NEW w, NEW p, w = wire, p = page, w # <<>>, p.pc = "up", NEW m, m = Head(w), NEW v, v = Tail(w),
         m.kind = "created", NEW q, q = NewlyOpen(p, m.on), NEW e, e = <<Msg("listed", m.on, NoItem, {})>>,
         NEW u, Lengthened(u, v, e), wire' = u, page' = q,
         UNCHANGED <<rows, checkout, runs, sessions, making, deleting, job>>
  PROVE  AppInv'
<1>1. AppInvAt(w, p) /\ w \in Seq(Msgs) /\ p \in Pages /\ Len(w) <= MaxWire
  <2>1. AppInvAt(w, p)
    BY DEF AppInv
  <2> QED BY <2>1, AppNow
<1>2. RestAfter(v, w) /\ m = w[1] /\ 1 \in 1 .. Len(w)
  BY <1>1, RestIs DEF RestAfter
<1>3. PICK t : t = m.on
  OBVIOUS
<1>4. t \in AppThreads /\ rows[t].state # "unused"
  BY <1>1, <1>2, <1>3, AppNow DEF Shapes, UnusedInv
<1>5. p = PageFrom(p)
  BY <1>1, PageShape
<1>6. q = PageRec(p.pc, p.listed, t, p.shown, p.cards, p.running, p.asks, p.describing, "listing", p.raced, p.opened)
  <2>1. PICK y : y = [p EXCEPT !.active = t]
    OBVIOUS
  <2>2. y = PageRec(p.pc, p.listed, t, p.shown, p.cards, p.running, p.asks, p.describing, p.sending, p.raced, p.opened)
    BY <1>5, <2>1 DEF PageRec, PageFrom
  <2>3. q = [p EXCEPT !.active = t, !.sending = "listing"]
    BY <1>3 DEF NewlyOpen
  <2>4. q = [y EXCEPT !.sending = "listing"]
    BY <2>1, <2>3
  <2> QED BY <2>2, <2>4 DEF PageRec
<1>7. /\ p.pc \in {"closed", "loading", "up"} /\ p.listed \in SUBSET AppThreads /\ t \in Threads /\ p.shown \in SUBSET Items
      /\ p.cards \in SUBSET Cards /\ p.running \in SUBSET AppThreads /\ p.asks \in SUBSET AppThreads
      /\ p.describing \in SUBSET (SUBSET Items) /\ "listing" \in {"no", "creating", "listing"} /\ p.raced \in BOOLEAN
      /\ p.opened \in 0 .. MaxWindows
  BY <1>1, <1>4, PageIs DEF Threads
<1>8. q \in Pages
  BY <1>6, <1>7 DEF Pages, PageRec
<1>9. /\ q.pc = p.pc /\ q.listed = p.listed /\ q.active = t /\ q.shown = p.shown /\ q.cards = p.cards /\ q.running = p.running
      /\ q.asks = p.asks /\ q.describing = p.describing /\ q.sending = "listing" /\ q.raced = p.raced /\ q.opened = p.opened
  BY <1>6 DEF PageRec
<1>10. HeardOK(m, p, q)
  <2>1. HeardPlain(p, q)
    BY <1>8, <1>9 DEF HeardPlain
  <2>2. \A s \in AppThreads : rows[s].state = "unused" => s \notin q.running /\ s \notin q.asks /\ s \notin q.listed /\ q.active # s
    BY <1>1, <1>4, <1>9, AppNow DEF UnusedInv
  <2> QED BY <2>1, <2>2, HeardPlainOK
<1>11. AppMost(v, q)'
  <2>1. AppMost(v, q)
    BY <1>1, <1>2, <1>10, HeardMost DEF AppMost
  <2> QED BY <1>9, <2>1, RowsSame
<1>12. PICK x : x = Msg("listed", t, NoItem, {})
  OBVIOUS
<1>13. x \in Msgs /\ x.kind = "listed" /\ x.on = t /\ x.those = {}
  <2>1. PICK thing, those : thing = NoItem /\ those = {}
    OBVIOUS
  <2>2. x = [kind |-> "listed", on |-> t, item |-> thing, those |-> those]
    BY <1>12, <2>1 DEF Msg
  <2>3. "listed" \in MsgKinds /\ t \in Threads /\ thing \in Items \cup {NoItem} /\ those \in SUBSET (AppThreads \cup Items)
    BY <1>7, <2>1 DEF MsgKinds
  <2> QED BY <2>1, <2>2, <2>3 DEF Msgs
<1>14. AddedOK(x, v, q)
  BY <1>4, <1>9, <1>13 DEF AddedOK
<1>15. Len(v) + 1 <= MaxWire
  <2>1. Len(v) + 1 = Len(w)
    BY <1>1, WireShorter
  <2> QED BY <1>1, <2>1
<1>16. e = <<x>>
  BY <1>3, <1>12
<1>17. AppMost(u, q)'
  BY <1>11, <1>14, <1>15, <1>16, MostMore
<1>18. Extends(u, v, e) /\ v \in Seq(Msgs) /\ Len(e) = 1 /\ e[1] = x /\ 1 .. Len(e) = {1}
  <2>1. v \in Seq(Msgs) /\ e \in Seq(Msgs) /\ Len(e) = 1 /\ e[1] = x /\ 1 .. Len(e) = {1}
    BY <1>2, <1>13, <1>16 DEF RestAfter
  <2> QED BY <2>1, WireLonger
<1>19. /\ \A i \in 1 .. Len(u) : (i \in 1 .. Len(v) /\ u[i] = v[i]) \/ (i \notin 1 .. Len(v) /\ u[i] = x)
       /\ \A i, j \in 1 .. Len(u) : i \notin 1 .. Len(v) /\ j \notin 1 .. Len(v) => i = j
  BY <1>18 DEF Extends
<1>20. ASSUME ~q.raced
       PROVE  /\ p.describing = {} /\ Bare(t)
              /\ \A i \in 1 .. Len(v) : v[i].kind \notin {"got", "created", "listed"}
              /\ \A d \in making : d[2] # p.opened
  <2>1. ~p.raced /\ OneWait(w, p) /\ NewInv(w, p)
    BY <1>1, <1>9, <1>20, AppNow
  <2>2. /\ p.describing = {}
        /\ \A i \in 1 .. Len(w) : i # 1 => w[i].kind \notin {"got", "created", "listed"}
        /\ \A d \in making : d[2] # p.opened
    BY <1>2, <2>1, CreatedAlone
  <2>3. ASSUME NEW i \in 1 .. Len(v) PROVE v[i].kind \notin {"got", "created", "listed"}
    <3>1. PICK h : h = i + 1
      OBVIOUS
    <3>2. h \in 1 .. Len(w) /\ v[i] = w[h] /\ h > 1
      BY <1>2, <3>1 DEF RestAfter
    <3>3. h # 1
      BY <3>2
    <3> QED BY <2>2, <3>2, <3>3
  <2>4. Bare(t)
    BY <1>2, <1>3, <2>1 DEF NewInv
  <2> QED BY <2>2, <2>3, <2>4
<1>21. Bare(t)' <=> Bare(t)
  BY DEF Bare, Stays, Leaving
<1>22. OneWait(u, q)'
  <2> SUFFICES ASSUME ~q.raced PROVE OneWait(u, q)'
    BY DEF OneWait
  <2>1. \A i \in 1 .. Len(u) : u[i].kind \notin {"got", "created"} /\ (u[i].kind = "listed" => u[i].on = t /\ i \notin 1 .. Len(v))
    BY <1>13, <1>19, <1>20
  <2>2. \A i, j \in 1 .. Len(u) : u[i].kind = "listed" /\ u[j].kind = "listed" => i = j
    BY <1>19, <2>1
  <2>3. \A d \in making' : d[2] # q.opened
    BY <1>9, <1>20
  <2> QED BY <1>9, <1>20, <2>1, <2>2, <2>3 DEF OneWait
<1>23. NewInv(u, q)'
  <2> SUFFICES ASSUME ~q.raced PROVE NewInv(u, q)'
    BY DEF NewInv
  <2>1. \A i \in 1 .. Len(u) : u[i].kind \in {"created", "listed"} => u[i].on = t
    BY <1>13, <1>19, <1>20
  <2>2. \A d \in making' : d[2] # q.opened
    BY <1>9, <1>20
  <2>3. Bare(t)'
    BY <1>20, <1>21
  <2> QED BY <2>1, <2>2, <2>3 DEF NewInv, Bare, Stays, Leaving
<1>24. ShownInv(u, q)'
  BY <1>9 DEF ShownInv
<1> QED BY <1>17, <1>22, <1>23, <1>24, AppThen

(* Whatever comes first is heard.                                          *)
LEMMA WindowHearsInv == ASSUME AppInv, WindowHears PROVE AppInv'
<1>1. PICK w, p, m, v : w = wire /\ p = page /\ m = Head(w) /\ v = Tail(w)
  OBVIOUS
<1>2. w # <<>> /\ UNCHANGED <<rows, checkout, runs, sessions, making, deleting, job>>
  BY <1>1 DEF WindowHears
<1>3. PICK q : q = page'
  OBVIOUS
<1>4. CASE p.pc = "loading" /\ wire' = v /\ q = LoadHeard(p, m)
  BY <1>1, <1>2, <1>3, <1>4, HearsLoading
<1>5. CASE p.pc = "up" /\ m.kind \notin {"got", "created", "listed"} /\ q = Follows(p, m) /\ wire' = v
  BY <1>1, <1>2, <1>3, <1>5, FollowsInv
<1>6. CASE p.pc = "up" /\ m.kind = "got" /\ wire' = v /\ q \in GotHeard(p, m)
  BY <1>1, <1>2, <1>3, <1>6, HearsGot
<1>7. CASE p.pc = "up" /\ m.kind = "created" /\ wire' = v /\ q = NotCreated(p)
  BY <1>1, <1>2, <1>3, <1>7, HearsNone
<1>8. CASE p.pc = "up" /\ m.kind = "created" /\ wire' = Append(v, Msg("listed", m.on, NoItem, {})) /\ q = NewlyOpen(p, m.on)
  <2>1. PICK e, u : e = <<Msg("listed", m.on, NoItem, {})>> /\ u = wire'
    OBVIOUS
  <2>2. v \in Seq(Msgs)
    <3>1. w \in Seq(Msgs)
      BY <1>1, AppNow DEF AppInv
    <3> QED BY <1>1, <1>2, <3>1
  <2>3. PICK x : x = Msg("listed", m.on, NoItem, {})
    OBVIOUS
  <2>4. u = Append(v, x) /\ e = <<x>>
    BY <1>8, <2>1, <2>3
  <2>5. Lengthened(u, v, e)
    BY <2>2, <2>4 DEF Lengthened
  <2> QED BY <1>1, <1>2, <1>3, <1>8, <2>1, <2>5, HearsCreated
<1> QED BY <1>1, <1>3, <1>4, <1>5, <1>6, <1>7, <1>8 DEF WindowHears, LoadHeard, GotHeard, NotCreated, NewlyOpen

(* sendMessage goes on once the list is there.                             *)
ReadyToSend(p) == [Listed(Cleared(p)) EXCEPT !.sending = "no"]
LEMMA ListHeard ==
  ASSUME AppInv, NEW w, NEW p, w = wire, p = page, w # <<>>, p.pc = "up", NEW m, m = Head(w), NEW v, v = Tail(w),
         m.kind = "listed", NEW q, q = ReadyToSend(p)
  PROVE  AppInvAt(v, q) /\ q.pc = "up" /\ q.sending = "no" /\ NoneRead(v, q) /\ Len(v) + 1 <= MaxWire
<1>1. AppInvAt(w, p) /\ w \in Seq(Msgs) /\ p \in Pages /\ Len(w) <= MaxWire
  <2>1. AppInvAt(w, p)
    BY DEF AppInv
  <2> QED BY <2>1, AppNow
<1>2. RestAfter(v, w) /\ m = w[1] /\ 1 \in 1 .. Len(w)
  BY <1>1, RestIs DEF RestAfter
<1>3. p = PageFrom(p)
  BY <1>1, PageShape
<1>4. PICK none, here : none = {} /\ here = HereNow
  OBVIOUS
<1>5. q = PageRec(p.pc, here, p.active, none, none, p.running, p.asks, p.describing, "no", p.raced, p.opened)
  <2>1. PICK y, z, s : y = [p EXCEPT !.shown = none] /\ z = Cleared(p) /\ s = [z EXCEPT !.listed = here]
    OBVIOUS
  <2>2. y = PageRec(p.pc, p.listed, p.active, none, p.cards, p.running, p.asks, p.describing, p.sending, p.raced, p.opened)
    BY <1>3, <2>1 DEF PageRec, PageFrom
  <2>3. z = [p EXCEPT !.shown = none, !.cards = none]
    BY <1>4, <2>1 DEF Cleared
  <2>4. z = [y EXCEPT !.cards = none]
    BY <2>1, <2>3
  <2>5. z = PageRec(p.pc, p.listed, p.active, none, none, p.running, p.asks, p.describing, p.sending, p.raced, p.opened)
    BY <2>2, <2>4 DEF PageRec
  <2>6. s = PageRec(p.pc, here, p.active, none, none, p.running, p.asks, p.describing, p.sending, p.raced, p.opened)
    BY <2>1, <2>5 DEF PageRec
  <2>7. q = [s EXCEPT !.sending = "no"]
    BY <1>4, <2>1 DEF ReadyToSend, Listed, HereNow
  <2> QED BY <2>6, <2>7 DEF PageRec
<1>6. /\ p.pc \in {"closed", "loading", "up"} /\ here \in SUBSET AppThreads /\ p.active \in Threads /\ none \in SUBSET Items
      /\ none \in SUBSET Cards /\ p.running \in SUBSET AppThreads /\ p.asks \in SUBSET AppThreads
      /\ p.describing \in SUBSET (SUBSET Items) /\ "no" \in {"no", "creating", "listing"} /\ p.raced \in BOOLEAN
      /\ p.opened \in 0 .. MaxWindows
  BY <1>1, <1>4, PageIs DEF HereNow
<1>7. q \in Pages
  BY <1>5, <1>6 DEF Pages, PageRec
<1>8. /\ q.pc = p.pc /\ q.listed = here /\ q.active = p.active /\ q.shown = none /\ q.cards = none /\ q.running = p.running
      /\ q.asks = p.asks /\ q.describing = p.describing /\ q.sending = "no" /\ q.raced = p.raced /\ q.opened = p.opened
  BY <1>5 DEF PageRec
<1>9. HeardOK(m, p, q)
  <2>1. HeardPlain(p, q)
    BY <1>4, <1>7, <1>8 DEF HeardPlain
  <2>2. \A t \in AppThreads : rows[t].state = "unused" => t \notin q.running /\ t \notin q.asks /\ t \notin q.listed /\ q.active # t
    <3>1. \A t \in AppThreads : rows[t].state = "unused" => t \notin here
      BY <1>4 DEF HereNow, Here
    <3> QED BY <1>1, <1>8, <3>1, AppNow DEF UnusedInv
  <2> QED BY <2>1, <2>2, HeardPlainOK
<1>10. ASSUME ~q.raced
       PROVE  /\ p.describing = {} /\ Bare(p.active)
              /\ \A i \in 1 .. Len(v) : v[i].kind \notin {"got", "created", "listed"}
              /\ \A d \in making : d[2] # p.opened
  <2>1. ~p.raced /\ OneWait(w, p) /\ NewInv(w, p)
    BY <1>1, <1>8, <1>10, AppNow
  <2>2. /\ p.describing = {} /\ m.on = p.active
        /\ \A i \in 1 .. Len(w) : i # 1 => w[i].kind \notin {"got", "created", "listed"}
        /\ \A d \in making : d[2] # p.opened
    BY <1>2, <2>1, ListedAlone
  <2>3. ASSUME NEW i \in 1 .. Len(v) PROVE v[i].kind \notin {"got", "created", "listed"}
    <3>1. PICK h : h = i + 1
      OBVIOUS
    <3>2. h \in 1 .. Len(w) /\ v[i] = w[h] /\ h > 1
      BY <1>2, <3>1 DEF RestAfter
    <3>3. h # 1
      BY <3>2
    <3> QED BY <2>2, <3>2, <3>3
  <2>4. Bare(m.on)
    BY <1>2, <2>1 DEF NewInv
  <2> QED BY <2>2, <2>3, <2>4
<1>11. OneWait(v, q)
  BY <1>8, <1>10 DEF OneWait
<1>12. NewInv(v, q)
  BY <1>8, <1>10 DEF NewInv
<1>13. ShownInv(v, q)
  <2> SUFFICES ASSUME ~q.raced, q.active \in AppThreads, Stays(q.active) PROVE ShownInv(v, q)
    BY DEF ShownInv
  <2>1. PICK t \in AppThreads : t = q.active /\ t = p.active
    BY <1>8
  <2>2. rows[t].items = {}
    BY <1>10, <2>1 DEF Bare
  <2>3. q.shown \cup UNION q.describing = {} /\ \A i \in 1 .. Len(v) : v[i].kind # "got"
    BY <1>4, <1>8, <1>10
  <2> QED BY <2>1, <2>2, <2>3 DEF ShownInv
<1>14. AppInvAt(v, q)
  BY <1>1, <1>2, <1>9, <1>11, <1>12, <1>13, HeardMost DEF AppInvAt
<1>15. NoneRead(v, q)
  BY <1>10 DEF NoneRead
<1>16. Len(v) + 1 <= MaxWire
  <2>1. Len(v) + 1 = Len(w)
    BY <1>1, WireShorter
  <2> QED BY <1>1, <2>1
<1> QED BY <1>8, <1>14, <1>15, <1>16

LEMMA SendFollowsInv ==
  ASSUME AppInv, NEW demo \in BOOLEAN, NEW mode \in Modes, NEW calls \in Script(demo), SendFollows(demo, mode, calls)
  PROVE  AppInv'
<1>1. PICK w, p, m, v, q : w = wire /\ p = page /\ m = Head(w) /\ v = Tail(w) /\ q = ReadyToSend(p)
  OBVIOUS
<1>2. /\ w # <<>> /\ p.pc = "up" /\ m.kind = "listed" /\ Sends(q, v, demo, mode, calls) /\ UNCHANGED <<checkout, making, deleting, job>>
  BY <1>1 DEF SendFollows, ReadyToSend
<1>3. AppInvAt(v, q) /\ q.pc = "up" /\ q.sending = "no" /\ NoneRead(v, q) /\ Len(v) + 1 <= MaxWire
  BY <1>1, <1>2, ListHeard
<1> QED BY <1>1, <1>2, <1>3, SendsInv

(* The items that were read are shown.                                     *)
LEMMA DescribesInv == ASSUME AppInv, Describes PROVE AppInv'
<1>1. PICK w, p, q : w = wire /\ p = page /\ q = page'
  OBVIOUS
<1>2. PICK d : d \in p.describing /\ q = [p EXCEPT !.describing = @ \ {d}, !.shown = @ \cup d]
  BY <1>1 DEF Describes
<1>3. UNCHANGED <<rows, checkout, runs, sessions, making, deleting, job, wire>>
  BY DEF Describes
<1>4. AppInvAt(w, p) /\ p \in Pages
  <2>1. AppInvAt(w, p)
    BY <1>1 DEF AppInv
  <2> QED BY <2>1, AppNow
<1>5. p.pc = "up"
  <2>1. p.pc # "loading"
    BY <1>2, <1>4, AppNow DEF PageInv
  <2>2. p.pc # "closed"
    <3>1. Closed.describing = {}
      BY DEF Closed
    <3>2. ASSUME p.pc = "closed" PROVE FALSE
      <4>1. p = [Closed EXCEPT !.opened = p.opened]
        BY <1>4, <3>2, AppNow DEF PageInv
      <4>2. p.describing = {}
        BY <4>1, <3>1, ClosedIs DEF Pages
      <4> QED BY <1>2, <4>2
    <3> QED BY <3>2
  <2> QED BY <1>4, <2>1, <2>2, PageIs
<1>6. PICK less, more : less = p.describing \ {d} /\ more = p.shown \cup d
  OBVIOUS
<1>7. q = PageRec(p.pc, p.listed, p.active, more, p.cards, p.running, p.asks, less, p.sending, p.raced, p.opened)
  <2>1. PICK y : y = [p EXCEPT !.describing = less]
    OBVIOUS
  <2>2. p = PageFrom(p)
    BY <1>4, PageShape
  <2>3. y = PageRec(p.pc, p.listed, p.active, p.shown, p.cards, p.running, p.asks, less, p.sending, p.raced, p.opened)
    BY <2>1, <2>2 DEF PageRec, PageFrom
  <2>4. q = [p EXCEPT !.describing = less, !.shown = more]
    BY <1>2, <1>6
  <2>5. q = [y EXCEPT !.shown = more]
    BY <2>1, <2>4
  <2> QED BY <2>3, <2>5 DEF PageRec
<1>8. /\ p.pc \in {"closed", "loading", "up"} /\ p.listed \in SUBSET AppThreads /\ p.active \in Threads /\ more \in SUBSET Items
      /\ p.cards \in SUBSET Cards /\ p.running \in SUBSET AppThreads /\ p.asks \in SUBSET AppThreads
      /\ less \in SUBSET (SUBSET Items) /\ p.sending \in {"no", "creating", "listing"} /\ p.raced \in BOOLEAN
      /\ p.opened \in 0 .. MaxWindows
  BY <1>2, <1>4, <1>6, PageIs
<1>9. q \in Pages
  BY <1>7, <1>8 DEF Pages, PageRec
<1>10. /\ q.pc = p.pc /\ q.listed = p.listed /\ q.active = p.active /\ q.shown = more /\ q.cards = p.cards /\ q.running = p.running
       /\ q.asks = p.asks /\ q.describing = less /\ q.sending = p.sending /\ q.raced = p.raced /\ q.opened = p.opened
  BY <1>7 DEF PageRec
<1>11. AppMost(w, q)
  <2>1. AppMost(w, p)
    BY <1>4, AppNow DEF AppMost
  <2>2. \A t \in AppThreads : rows[t].state = "unused" => q.active # t
    BY <1>4, <1>10, AppNow DEF UnusedInv
  <2> QED BY <1>5, <1>9, <1>10, <2>1, <2>2, MostPage
<1>12. OneWait(w, q)
  <2>1. OneWait(w, p)
    BY <1>4, AppNow
  <2>2. q.describing \subseteq p.describing
    BY <1>6, <1>10
  <2> QED BY <1>10, <2>1, <2>2 DEF OneWait
<1>13. NewInv(w, q)
  BY <1>4, <1>10, AppNow DEF NewInv
<1>14. ShownInv(w, q)
  <2>1. q.shown \cup UNION q.describing = p.shown \cup UNION p.describing
    BY <1>2, <1>6, <1>10
  <2>2. ShownInv(w, p)
    BY <1>4, AppNow
  <2> QED BY <1>10, <2>1, <2>2 DEF ShownInv
<1>15. AppInvAt(w, q)
  BY <1>11, <1>12, <1>13, <1>14 DEF AppInvAt, AppMost
<1> QED BY <1>1, <1>3, <1>15, AppInvThere

(* A window that waits for nothing when it is used.                        *)
LEMMA RacedAlone ==
  ASSUME AppInv, page.pc = "up", NEW w, NEW p, w = wire, p = page, NEW q, q = Raced(page)
  PROVE  /\ AppInvAt(w, p) /\ AppInvAt(w, q) /\ Trimmed(p, q) /\ q \in Pages
         /\ ~q.raced => /\ ~p.raced /\ q.describing = {} /\ q.sending = "no"
                        /\ \A i \in 1 .. Len(w) : w[i].kind \notin {"got", "created", "listed"}
                        /\ \A d \in making : d[2] # q.opened
<1>1. Trimmed(p, q) /\ AppInvAt(w, q) /\ (~q.raced => ~Waits /\ ~p.raced)
  BY RacedIs
<1>2. AppInvAt(w, p)
  BY DEF AppInv
<1>3. ASSUME ~q.raced
      PROVE  /\ ~p.raced /\ q.describing = {} /\ q.sending = "no"
             /\ \A i \in 1 .. Len(w) : w[i].kind \notin {"got", "created", "listed"}
             /\ \A d \in making : d[2] # q.opened
  <2>1. ~Waits /\ ~p.raced /\ q.pc = "up" /\ q.describing = p.describing /\ q.sending = p.sending /\ DOMAIN w = 1 .. Len(w)
    BY <1>1, <1>2, <1>3, AppNow DEF Trimmed
  <2>2. q.describing = {} /\ q.sending = "no" /\ \A i \in 1 .. Len(w) : w[i].kind # "got"
    BY <2>1 DEF Waits, Opening
  <2>3. OneWait(w, q)
    BY <1>1, AppNow
  <2>4. /\ \A i \in 1 .. Len(w) : w[i].kind # "created" /\ w[i].kind # "listed"
        /\ \A d \in making : d[2] # q.opened
    BY <1>3, <2>1, <2>2, <2>3 DEF OneWait
  <2> QED BY <2>1, <2>2, <2>4
<1> QED BY <1>1, <1>2, <1>3, AppNow

(* The window opens another thread, or none.                               *)
OpenOn(p, t) == [p EXCEPT !.active = t]
LEMMA OpenOnIs ==
  ASSUME NEW p \in Pages, NEW t \in Threads, NEW q, q = OpenOn(p, t)
  PROVE  /\ q \in Pages
         /\ q.pc = p.pc /\ q.listed = p.listed /\ q.active = t /\ q.shown = p.shown /\ q.cards = p.cards /\ q.running = p.running
         /\ q.asks = p.asks /\ q.describing = p.describing /\ q.sending = p.sending /\ q.raced = p.raced /\ q.opened = p.opened
<1>1. p = PageFrom(p)
  BY PageShape
<1>2. q = PageRec(p.pc, p.listed, t, p.shown, p.cards, p.running, p.asks, p.describing, p.sending, p.raced, p.opened)
  BY <1>1 DEF PageRec, PageFrom, OpenOn
<1>3. /\ p.pc \in {"closed", "loading", "up"} /\ p.listed \in SUBSET AppThreads /\ p.shown \in SUBSET Items
      /\ p.cards \in SUBSET Cards /\ p.running \in SUBSET AppThreads /\ p.asks \in SUBSET AppThreads
      /\ p.describing \in SUBSET (SUBSET Items) /\ p.sending \in {"no", "creating", "listing"} /\ p.raced \in BOOLEAN
      /\ p.opened \in 0 .. MaxWindows
  BY PageIs
<1>4. q \in Pages
  BY <1>2, <1>3 DEF Pages, PageRec
<1>5. /\ q.pc = p.pc /\ q.listed = p.listed /\ q.active = t /\ q.shown = p.shown /\ q.cards = p.cards /\ q.running = p.running
      /\ q.asks = p.asks /\ q.describing = p.describing /\ q.sending = p.sending /\ q.raced = p.raced /\ q.opened = p.opened
  BY <1>2 DEF PageRec
<1> QED BY <1>4, <1>5

LEMMA ShowsHomeInv == ASSUME AppInv, ShowsHome PROVE AppInv'
<1>1. PICK w, p, z, q : w = wire /\ p = page /\ z = Raced(page) /\ q = page'
  OBVIOUS
<1>2. page.pc = "up" /\ q = OpenOn(z, "none") /\ UNCHANGED <<rows, checkout, runs, sessions, making, deleting, job, wire>>
  BY <1>1 DEF ShowsHome, Usable, Left, OpenOn
<1>3. /\ AppInvAt(w, z) /\ z \in Pages /\ z.pc = "up"
      /\ ~z.raced => /\ z.describing = {} /\ z.sending = "no"
                     /\ \A i \in 1 .. Len(w) : w[i].kind \notin {"got", "created", "listed"}
                     /\ \A d \in making : d[2] # z.opened
  <2>1. Trimmed(p, z)
    BY <1>1, <1>2, RacedAlone
  <2> QED BY <1>1, <1>2, <2>1, RacedAlone DEF Trimmed
<1>4. /\ q \in Pages
      /\ q.pc = z.pc /\ q.listed = z.listed /\ q.active = "none" /\ q.shown = z.shown /\ q.cards = z.cards /\ q.running = z.running
      /\ q.asks = z.asks /\ q.describing = z.describing /\ q.sending = z.sending /\ q.raced = z.raced /\ q.opened = z.opened
  <2>1. "none" \in Threads
    BY DEF Threads
  <2> QED BY <1>2, <1>3, <2>1, OpenOnIs
<1>5. AppMost(w, q)
  <2>1. AppMost(w, z)
    BY <1>3, AppNow DEF AppMost
  <2> QED BY <1>3, <1>4, <2>1, MostPage, AppConstants
<1>6. OneWait(w, q)
  BY <1>3, <1>4 DEF OneWait
<1>7. NewInv(w, q) /\ ShownInv(w, q)
  BY <1>3, <1>4, AppConstants DEF NewInv, ShownInv
<1>8. AppInvAt(w, q)
  BY <1>5, <1>6, <1>7 DEF AppInvAt, AppMost
<1> QED BY <1>1, <1>2, <1>8, AppInvThere

LEMMA SelectsInv == ASSUME AppInv, NEW t \in AppThreads, Selects(t) PROVE AppInv'
<1>1. PICK w, p, z, q, u : w = wire /\ p = page /\ z = Raced(page) /\ q = page' /\ u = wire'
  OBVIOUS
<1>2. PICK x, e : x = Msg("got", t, NoItem, rows[t].items) /\ e = <<x>>
  OBVIOUS
<1>3. /\ page.pc = "up" /\ q = OpenOn(z, t) /\ Here(t) /\ Len(w) + 1 <= MaxWire /\ u = Append(w, x)
      /\ UNCHANGED <<rows, checkout, runs, sessions, making, deleting, job>>
  BY <1>1, <1>2 DEF Selects, Usable, OpenOn, Room
<1>4. /\ AppInvAt(w, z) /\ z \in Pages /\ z.pc = "up"
      /\ ~z.raced => /\ z.describing = {} /\ z.sending = "no"
                     /\ \A i \in 1 .. Len(w) : w[i].kind \notin {"got", "created", "listed"}
                     /\ \A d \in making : d[2] # z.opened
  <2>1. Trimmed(p, z)
    BY <1>1, <1>3, RacedAlone
  <2> QED BY <1>1, <1>3, <2>1, RacedAlone DEF Trimmed
<1>5. /\ q \in Pages
      /\ q.pc = z.pc /\ q.listed = z.listed /\ q.active = t /\ q.shown = z.shown /\ q.cards = z.cards /\ q.running = z.running
      /\ q.asks = z.asks /\ q.describing = z.describing /\ q.sending = z.sending /\ q.raced = z.raced /\ q.opened = z.opened
  <2>1. t \in Threads
    BY DEF Threads
  <2> QED BY <1>3, <1>4, <2>1, OpenOnIs
<1>6. AppMost(w, q)'
  <2>1. AppMost(w, z)
    BY <1>4, AppNow DEF AppMost
  <2>2. AppMost(w, q)
    BY <1>3, <1>4, <1>5, <2>1, MostPage DEF Here
  <2> QED BY <1>3, <1>4, <1>5, <2>2, RowsSame
<1>7. /\ x \in Msgs /\ x.kind = "got" /\ x.on = t /\ x.those = rows[t].items /\ rows[t].items \subseteq Items
  <2>1. PICK thing, those : thing = NoItem /\ those = rows[t].items
    OBVIOUS
  <2>2. those \subseteq Items
    BY <1>4, <2>1, AppNow DEF RowRecs
  <2>3. x = [kind |-> "got", on |-> t, item |-> thing, those |-> those]
    BY <1>2, <2>1 DEF Msg
  <2>4. "got" \in MsgKinds /\ t \in Threads /\ thing \in Items \cup {NoItem} /\ those \in SUBSET (AppThreads \cup Items)
    BY <2>1, <2>2 DEF MsgKinds, Threads
  <2>5. x \in Msgs
    BY <2>3, <2>4 DEF Msgs
  <2> QED BY <2>1, <2>2, <2>3, <2>5
<1>8. w \in Seq(Msgs) /\ e \in Seq(Msgs) /\ Len(e) = 1 /\ e[1] = x /\ 1 .. Len(e) = {1} /\ Lengthened(u, w, e)
  <2>1. w \in Seq(Msgs)
    BY <1>4, AppNow
  <2> QED BY <1>2, <1>3, <1>7, <2>1 DEF Lengthened
<1>9. AddedOK(x, w, q)
  BY <1>3, <1>4, <1>5, <1>7 DEF AddedOK, Here
<1>10. AppMost(u, q)'
  BY <1>2, <1>3, <1>6, <1>8, <1>9, MostMore
<1>11. /\ \A i \in 1 .. Len(u) : (i \in 1 .. Len(w) /\ u[i] = w[i]) \/ (i \notin 1 .. Len(w) /\ u[i] = x)
       /\ \A i, j \in 1 .. Len(u) : i \notin 1 .. Len(w) /\ j \notin 1 .. Len(w) => i = j
       /\ \E i \in 1 .. Len(u) : u[i] = x
  <2>1. Extends(u, w, e)
    BY <1>8, WireLonger
  <2>2. /\ \A i \in 1 .. Len(w) : i \in 1 .. Len(u) /\ u[i] = w[i]
        /\ \A i \in 1 .. Len(u) : i \notin 1 .. Len(w) => \E h \in {1} : u[i] = e[h]
        /\ \A h \in {1} : \E i \in 1 .. Len(u) : i \notin 1 .. Len(w) /\ u[i] = e[h]
        /\ \A i, j \in 1 .. Len(u) : i \notin 1 .. Len(w) /\ j \notin 1 .. Len(w) => i = j
    BY <1>8, <2>1 DEF Extends
  <2> QED BY <1>8, <2>2
<1>12. ASSUME ~q.raced
       PROVE  /\ q.describing = {} /\ q.sending = "no" /\ (\A d \in making' : d[2] # q.opened)
              /\ \A i \in 1 .. Len(u) : u[i].kind \notin {"created", "listed"}
              /\ \A i \in 1 .. Len(u) : u[i].kind = "got" => i \notin 1 .. Len(w) /\ u[i] = x
  BY <1>3, <1>4, <1>5, <1>7, <1>11, <1>12
<1>13. OneWait(u, q)'
  <2> SUFFICES ASSUME ~q.raced PROVE OneWait(u, q)'
    BY DEF OneWait
  <2>1. \A i, j \in 1 .. Len(u) : u[i].kind = "got" /\ u[j].kind = "got" => i = j
    BY <1>11, <1>12
  <2>2. \A i \in 1 .. Len(u) : u[i].kind = "got" => u[i].on = q.active
    BY <1>5, <1>7, <1>12
  <2> QED BY <1>12, <2>1, <2>2 DEF OneWait
<1>14. NewInv(u, q)'
  BY <1>12 DEF NewInv
<1>15. ShownInv(u, q)'
  <2> SUFFICES ASSUME ~q.raced PROVE ShownInv(u, q)'
    BY DEF ShownInv
  <2>1. \A i \in 1 .. Len(u) : u[i].kind = "got" => u[i].those = rows'[t].items
    BY <1>3, <1>7, <1>12
  <2>2. rows'[t].items \subseteq Known(t)'
    BY DEF Known, OnWay
  <2>3. ~\A i \in 1 .. Len(u) : u[i].kind # "got"
    BY <1>7, <1>11
  <2> QED BY <1>5, <2>1, <2>2, <2>3 DEF ShownInv, Known, OnWay
<1> QED BY <1>1, <1>10, <1>13, <1>14, <1>15, AppThen

(* Which turns run, for a window that has just come up.                    *)
LEMMA WindowAsksInv == ASSUME AppInv, WindowAsksRunning PROVE AppInv'
<1>1. PICK w, p, u : w = wire /\ p = page /\ u = wire'
  OBVIOUS
<1>2. PICK those, x, e : /\ those = {t \in AppThreads : Held(t).pc # "none"}
                         /\ x = Msg("running", "none", NoItem, those) /\ e = <<x>>
  OBVIOUS
<1>3. /\ p.pc = "loading" /\ Len(w) + 1 <= MaxWire /\ ~(\E i \in DOMAIN w : w[i].kind = "running") /\ u = Append(w, x)
      /\ UNCHANGED <<rows, checkout, runs, sessions, making, deleting, job, page>>
  BY <1>1, <1>2 DEF WindowAsksRunning, Room
<1>4. AppInvAt(w, p) /\ w \in Seq(Msgs) /\ DOMAIN w = 1 .. Len(w)
  <2>1. AppInvAt(w, p)
    BY <1>1 DEF AppInv
  <2> QED BY <2>1, AppNow
<1>5. those = {t \in AppThreads : sessions[t] # 0}
  <2>1. ASSUME NEW t \in AppThreads PROVE Held(t).pc # "none" <=> sessions[t] # 0
    <3>1. CASE sessions[t] = 0
      BY <3>1, NoRunIs DEF Held
    <3>2. CASE sessions[t] # 0
      <4>1. Goes(sessions[t])
        BY <1>4, <3>2, AppNow DEF RunsInv
      <4> QED BY <3>2, <4>1 DEF Held, Goes, AlivePcs
    <3> QED BY <3>1, <3>2
  <2> QED BY <1>2, <2>1
<1>6. x \in Msgs /\ x.kind = "running" /\ x.on = "none" /\ x.those = those
  <2>1. PICK thing : thing = NoItem
    OBVIOUS
  <2>2. x = [kind |-> "running", on |-> "none", item |-> thing, those |-> those]
    BY <1>2, <2>1 DEF Msg
  <2>3. "running" \in MsgKinds /\ "none" \in Threads /\ thing \in Items \cup {NoItem} /\ those \in SUBSET (AppThreads \cup Items)
    BY <1>5, <2>1 DEF MsgKinds, Threads
  <2> QED BY <2>2, <2>3 DEF Msgs
<1>7. AppMost(w, p)'
  <2>1. AppMost(w, p)
    BY <1>4, AppNow DEF AppMost
  <2> QED BY <1>3, <2>1, RowsSame
<1>8. AddedOK(x, w, p)
  <2>1. x.those = {t \in AppThreads : sessions'[t] # 0}
    BY <1>3, <1>5, <1>6
  <2> QED BY <1>3, <1>4, <1>6, <2>1, AppConstants DEF AddedOK
<1>9. Lengthened(u, w, e)
  <2>1. u = Append(w, x) /\ e = <<x>> /\ x \in Msgs /\ w \in Seq(Msgs)
    BY <1>2, <1>3, <1>4, <1>6
  <2> QED BY <2>1 DEF Lengthened
<1>10. AppMost(u, p)'
  BY <1>2, <1>3, <1>7, <1>8, <1>9, MostMore
<1>11. OneWait(u, p)' /\ NewInv(u, p)' /\ ShownInv(u, p)'
  BY <1>3 DEF OneWait, NewInv, ShownInv
<1>12. page' = p
  BY <1>1, <1>3
<1> QED BY <1>1, <1>10, <1>11, <1>12, AppThen

(* A window that was just opened, or is there no more.                     *)
FreshWindow(pc, o) == PageRec(pc, {}, "none", {}, {}, {}, {}, {}, "no", FALSE, o)
ClosedAt(o) == [Closed EXCEPT !.opened = o]
LEMMA FreshIs ==
  ASSUME NEW pc \in {"closed", "loading"}, NEW o \in 0 .. MaxWindows, NEW q, q = FreshWindow(pc, o)
  PROVE  /\ q \in Pages /\ q.pc = pc /\ q.opened = o /\ q.listed = {} /\ q.active = "none" /\ q.shown = {} /\ q.cards = {}
         /\ q.running = {} /\ q.asks = {} /\ q.describing = {} /\ q.sending = "no"
         /\ (pc = "closed" => q = ClosedAt(o))
<1>1. PICK none : none = {}
  OBVIOUS
<1>2. q = PageRec(pc, none, "none", none, none, none, none, none, "no", FALSE, o)
  BY <1>1 DEF FreshWindow
<1>3. /\ pc \in {"closed", "loading", "up"} /\ none \in SUBSET AppThreads /\ "none" \in Threads /\ none \in SUBSET Items
      /\ none \in SUBSET Cards /\ none \in SUBSET (SUBSET Items) /\ "no" \in {"no", "creating", "listing"} /\ FALSE \in BOOLEAN
  BY <1>1 DEF Threads
<1>4. q \in Pages
  BY <1>2, <1>3 DEF Pages, PageRec
<1>5. /\ q.pc = pc /\ q.opened = o /\ q.listed = none /\ q.active = "none" /\ q.shown = none /\ q.cards = none
      /\ q.running = none /\ q.asks = none /\ q.describing = none /\ q.sending = "no" /\ q.raced = FALSE
  BY <1>2 DEF PageRec
<1>6. Closed = PageRec("closed", none, "none", none, none, none, none, none, "no", FALSE, 0)
  BY <1>1 DEF Closed, PageRec
<1>7. PICK y : y = ClosedAt(o)
  OBVIOUS
<1>8. y = PageRec("closed", none, "none", none, none, none, none, none, "no", FALSE, o)
  BY <1>6, <1>7 DEF PageRec, ClosedAt
<1>9. pc = "closed" => q = y
  BY <1>2, <1>8
<1> QED BY <1>1, <1>4, <1>5, <1>7, <1>9

LEMMA FreshInv ==
  ASSUME NEW pc \in {"closed", "loading"}, NEW o \in 0 .. MaxWindows, NEW v, v = <<>>, NEW q, q = FreshWindow(pc, o),
         Shapes(v, q)', RunsInv', \A d \in making' : d[2] <= o /\ (pc = "loading" => d[2] # o), pc = "loading" => o # 0, \A d \in deleting' : d[2] <= o,
         \A t \in AppThreads : rows'[t].state = "unused" =>
           rows'[t].items = {} /\ sessions'[t] = 0 /\ ~Leaving(t)' /\ \A d \in making' : d[1] # t,
         wire' = v, page' = q
  PROVE  AppInv'
<1>1. /\ q \in Pages /\ q.pc = pc /\ q.opened = o /\ q.listed = {} /\ q.active = "none" /\ q.shown = {} /\ q.cards = {}
      /\ q.running = {} /\ q.asks = {} /\ q.describing = {} /\ q.sending = "no"
      /\ (pc = "closed" => q = ClosedAt(o))
  BY FreshIs
<1>2. 1 .. Len(v) = {}
  OBVIOUS
<1>3. UnusedInv(v, q)'
  <2> SUFFICES ASSUME NEW t \in AppThreads, rows'[t].state = "unused"
               PROVE  /\ rows'[t].items = {} /\ sessions'[t] = 0 /\ ~Leaving(t)' /\ t \notin q.running /\ t \notin q.asks /\ t \notin q.listed
                      /\ q.active # t
                      /\ \A i \in 1 .. Len(v) : v[i].on # t /\ (v[i].kind \in {"running", "created"} => t \notin v[i].those)
                      /\ \A d \in making' : d[1] # t
    BY DEF UnusedInv, Leaving
  <2> QED BY <1>1, <1>2, AppConstants
<1>4. PageInv(v, q)'
  BY <1>1, <1>2 DEF PageInv, ClosedAt
<1>5. MarksInv(v, q)'
  BY <1>1, <1>2 DEF MarksInv
<1>6. AsksInv(v, q)'
  BY <1>1, <1>2 DEF AsksInv
<1>7. ToldInv(v, q)'
  BY <1>2 DEF ToldInv
<1>8. OneWait(v, q)' /\ NewInv(v, q)' /\ ShownInv(v, q)'
  BY <1>1 DEF OneWait, NewInv, ShownInv
<1>9. AppMost(v, q)'
  BY <1>3, <1>4, <1>5, <1>6, <1>7 DEF AppMost
<1> QED BY <1>8, <1>9, AppThen

LEMMA FreshKept ==
  ASSUME NEW w, NEW p, AppInvAt(w, p), NEW v, v = <<>>, NEW q \in Pages, UNCHANGED <<rows, checkout, runs, sessions, making, deleting, job>>
  PROVE  /\ Shapes(v, q)' /\ RunsInv' /\ (\A d \in making' : d[2] <= p.opened) /\ (\A d \in deleting' : d[2] <= p.opened)
         /\ \A t \in AppThreads : rows'[t].state = "unused" =>
              rows'[t].items = {} /\ sessions'[t] = 0 /\ ~Leaving(t)' /\ \A d \in making' : d[1] # t
<1>1. Len(v) = 0 /\ 1 .. Len(v) = {} /\ v \in Seq(Msgs) /\ Len(v) <= MaxWire
  BY AppConstants
<1>2. Shapes(v, q)'
  BY <1>1, AppNow DEF Shapes
<1>3. RunsInv'
  <2>1. RunsInv' = RunsInv
    BY DEF RunsInv, Goes, Stays, Leaving
  <2> QED BY <2>1, AppNow
<1>4. (\A d \in making' : d[2] <= p.opened) /\ \A d \in deleting' : d[2] <= p.opened
  BY AppNow DEF PageInv
<1>5. \A t \in AppThreads : rows'[t].state = "unused" =>
        rows'[t].items = {} /\ sessions'[t] = 0 /\ ~Leaving(t)' /\ \A d \in making' : d[1] # t
  BY AppNow DEF UnusedInv, Leaving
<1> QED BY <1>2, <1>3, <1>4, <1>5

LEMMA WindowOpensInv == ASSUME AppInv, WindowOpens PROVE AppInv'
<1>1. PICK w, p, q, v : w = wire /\ p = page /\ q = page' /\ v = wire'
  OBVIOUS
<1>2. PICK o : o = p.opened + 1
  OBVIOUS
<1>3. /\ p.pc = "closed" /\ p.opened < MaxWindows /\ v = <<>> /\ UNCHANGED <<rows, checkout, runs, sessions, making, deleting, job>>
      /\ q = [Closed EXCEPT !.pc = "loading", !.opened = o]
  BY <1>1, <1>2 DEF WindowOpens
<1>4. AppInvAt(w, p) /\ p \in Pages
  <2>1. AppInvAt(w, p)
    BY <1>1 DEF AppInv
  <2> QED BY <2>1, AppNow
<1>5. PICK n, m \in Nat : n = p.opened /\ m = MaxWindows /\ o = n + 1 /\ n < m
  BY <1>2, <1>3, <1>4, PageIs, AppConstants
<1>6. o \in 0 .. MaxWindows /\ o # 0
  BY <1>5
<1>7. q = FreshWindow("loading", o)
  <2>1. PICK none, y : none = {} /\ y = [Closed EXCEPT !.pc = "loading"]
    OBVIOUS
  <2>2. Closed = PageRec("closed", none, "none", none, none, none, none, none, "no", FALSE, 0)
    BY <2>1 DEF Closed, PageRec
  <2>3. y = PageRec("loading", none, "none", none, none, none, none, none, "no", FALSE, 0)
    BY <2>1, <2>2 DEF PageRec
  <2>4. q = [y EXCEPT !.opened = o]
    BY <1>3, <2>1
  <2>5. q = PageRec("loading", none, "none", none, none, none, none, none, "no", FALSE, o)
    BY <2>3, <2>4 DEF PageRec
  <2> QED BY <2>1, <2>5 DEF FreshWindow
<1>8. q \in Pages
  <2>1. "loading" \in {"closed", "loading"}
    OBVIOUS
  <2> QED BY <1>6, <1>7, <2>1, FreshIs
<1>9. /\ Shapes(v, q)' /\ RunsInv' /\ (\A d \in making' : d[2] <= p.opened) /\ (\A d \in deleting' : d[2] <= p.opened)
      /\ \A t \in AppThreads : rows'[t].state = "unused" =>
           rows'[t].items = {} /\ sessions'[t] = 0 /\ ~Leaving(t)' /\ \A d \in making' : d[1] # t
  BY <1>3, <1>4, <1>8, FreshKept
<1>10. /\ \A d \in making' : d[2] <= o /\ d[2] # o
       /\ \A d \in deleting' : d[2] <= o
  <2>1. /\ making' \subseteq AppThreads \X (1 .. MaxWindows) /\ deleting' \subseteq AppThreads \X (1 .. MaxWindows) \X {"project", "tree"}
    BY <1>9 DEF Shapes
  <2>2. ASSUME NEW k \in 1 .. m, k <= n PROVE k <= n + 1 /\ k # n + 1
    BY <2>2
  <2>3. (\A d \in making' : d[2] \in 1 .. m) /\ \A d \in deleting' : d[2] \in 1 .. m
    BY <1>5, <2>1
  <2> QED BY <1>5, <1>9, <2>2, <2>3
<1>11. v = <<>> /\ wire' = v /\ page' = q /\ "loading" \in {"closed", "loading"}
  BY <1>1, <1>3
<1> QED BY <1>6, <1>7, <1>9, <1>10, <1>11, FreshInv

LEMMA WindowClosesInv == ASSUME AppInv, WindowCloses PROVE AppInv'
<1>1. PICK w, p, q, v : w = wire /\ p = page /\ q = page' /\ v = wire'
  OBVIOUS
<1>2. PICK o : o = p.opened
  OBVIOUS
<1>3. v = <<>> /\ UNCHANGED <<rows, checkout, runs, sessions, making, deleting, job>> /\ q = ClosedAt(o)
  BY <1>1, <1>2 DEF WindowCloses, ClosedAt
<1>4. AppInvAt(w, p) /\ p \in Pages /\ o \in 0 .. MaxWindows
  <2>1. AppInvAt(w, p)
    BY <1>1 DEF AppInv
  <2> QED BY <1>2, <2>1, AppNow, PageIs
<1>5. PICK z : z = FreshWindow("closed", o)
  OBVIOUS
<1>6. z = q /\ q \in Pages
  <2>1. "closed" \in {"closed", "loading"}
    OBVIOUS
  <2>2. z \in Pages /\ z = ClosedAt(o)
    BY <1>4, <1>5, <2>1, FreshIs
  <2> QED BY <1>3, <2>2
<1>7. /\ Shapes(v, q)' /\ RunsInv' /\ (\A d \in making' : d[2] <= p.opened) /\ (\A d \in deleting' : d[2] <= p.opened)
      /\ \A t \in AppThreads : rows'[t].state = "unused" =>
           rows'[t].items = {} /\ sessions'[t] = 0 /\ ~Leaving(t)' /\ \A d \in making' : d[1] # t
  BY <1>3, <1>4, <1>6, FreshKept
<1>8. v = <<>> /\ wire' = v /\ page' = q /\ "closed" \in {"closed", "loading"} /\ q = FreshWindow("closed", o)
  BY <1>1, <1>3, <1>5, <1>6
<1> QED BY <1>2, <1>4, <1>7, <1>8, FreshInv

(* The application is gone, and all its turns with it.                     *)
LEMMA AppStopsInv == ASSUME AppInv, AppStops PROVE AppInv'
<1>1. PICK w, p, q, v : w = wire /\ p = page /\ q = page' /\ v = wire'
  OBVIOUS
<1>2. PICK o, over, non : o = p.opened /\ over = [NoRun EXCEPT !.pc = "over"] /\ non = NoRun
  OBVIOUS
<1>3. /\ v = <<>> /\ making' = {} /\ deleting' = {} /\ q = ClosedAt(o) /\ UNCHANGED <<rows, checkout, job>>
      /\ runs' = [k \in RunIds |-> IF runs[k].pc = "none" THEN non ELSE over] /\ sessions' = [t \in AppThreads |-> 0]
  BY <1>1, <1>2 DEF AppStops, ClosedAt
<1>4. AppInvAt(w, p) /\ p \in Pages /\ o \in 0 .. MaxWindows
  <2>1. AppInvAt(w, p)
    BY <1>1 DEF AppInv
  <2> QED BY <1>2, <2>1, AppNow, PageIs
<1>5. q = FreshWindow("closed", o) /\ q \in Pages
  <2>1. "closed" \in {"closed", "loading"}
    OBVIOUS
  <2>2. PICK z : z = FreshWindow("closed", o)
    OBVIOUS
  <2>3. z \in Pages /\ z = ClosedAt(o)
    BY <1>4, <2>1, <2>2, FreshIs
  <2> QED BY <1>3, <2>2, <2>3
<1>6. over \in RunRecs /\ over.pc = "over" /\ non \in RunRecs /\ non.pc = "none"
  BY <1>2, OverIs, NoRunIs DEF OverAs
<1>7. runs' \in [RunIds -> RunRecs] /\ (\A k \in RunIds : runs'[k].pc \in {"none", "over"})
  BY <1>3, <1>6
<1>8. sessions' \in [AppThreads -> 0 .. MaxAppTurns] /\ \A t \in AppThreads : sessions'[t] = 0
  BY <1>3, AppConstants
<1>9. Len(v) = 0 /\ 1 .. Len(v) = {} /\ v \in Seq(Msgs) /\ Len(v) <= MaxWire
  BY <1>3, AppConstants
<1>10. Shapes(v, q)'
  BY <1>3, <1>4, <1>5, <1>7, <1>8, <1>9, AppNow DEF Shapes
<1>11. RunsInv'
  BY <1>7, <1>8 DEF RunsInv, Goes, AlivePcs
<1>12. \A t \in AppThreads : rows'[t].state = "unused" =>
         rows'[t].items = {} /\ sessions'[t] = 0 /\ ~Leaving(t)' /\ \A d \in making' : d[1] # t
  BY <1>3, <1>4, <1>8, AppNow DEF UnusedInv, Leaving
<1>13. v = <<>> /\ wire' = v /\ page' = q /\ "closed" \in {"closed", "loading"}
  BY <1>1, <1>3
<1>14. (\A d \in making' : d[2] <= o) /\ \A d \in deleting' : d[2] <= o
  BY <1>3
<1> QED BY <1>4, <1>5, <1>10, <1>11, <1>12, <1>13, <1>14, FreshInv

LEMMA JobChangesInv == ASSUME AppInv, NEW j \in {"none", "on"}, JobChanges(j) PROVE AppInv'
<1>1. PICK w, p : w = wire /\ p = page
  OBVIOUS
<1>2. AppInvAt(w, p)
  BY <1>1 DEF AppInv
<1>3. p.pc = "up" /\ job' = j /\ UNCHANGED <<rows, checkout, runs, sessions, making, deleting, wire, page>>
  BY <1>1 DEF JobChanges
<1>4. Shapes(w, p)'
  BY <1>2, <1>3, AppNow DEF Shapes
<1>5. RunsInv' = RunsInv
  BY <1>3 DEF RunsInv, Goes, Stays, Leaving
<1>6. UnusedInv(w, p)' = UnusedInv(w, p)
  BY <1>3 DEF UnusedInv, Leaving
<1>7. PageInv(w, p)' = PageInv(w, p)
  BY <1>3 DEF PageInv
<1>8. MarksInv(w, p)' = MarksInv(w, p)
  BY <1>3 DEF MarksInv, Marks, Says, Stays, Leaving
<1>9. AsksInv(w, p)' = AsksInv(w, p)
  BY <1>3 DEF AsksInv, Ended, Goes, Stays, Leaving
<1>10. ToldInv(w, p)' = ToldInv(w, p)
  BY <1>3 DEF ToldInv, Tells, Known, OnWay, Stays, Leaving
<1>11. OneWait(w, p)' = OneWait(w, p)
  BY <1>3 DEF OneWait
<1>12. NewInv(w, p)' = NewInv(w, p)
  BY <1>3 DEF NewInv, Bare, Stays, Leaving
<1>13. ShownInv(w, p)' = ShownInv(w, p)
  BY <1>3 DEF ShownInv, Tells, Known, OnWay, Stays, Leaving
<1>14. AppMost(w, p)' /\ OneWait(w, p)' /\ NewInv(w, p)' /\ ShownInv(w, p)'
  BY <1>2, <1>4, <1>5, <1>6, <1>7, <1>8, <1>9, <1>10, <1>11, <1>12, <1>13, AppNow DEF AppMost
<1>15. wire' = w /\ page' = p
  BY <1>1, <1>3
<1> QED BY <1>14, <1>15, AppThen

(* What the window waits for and shows, where rows only go.                *)
AtMostDeleted(u, w) ==
  /\ \A i \in 1 .. Len(w) : i \in 1 .. Len(u) /\ u[i] = w[i]
  /\ \A i \in 1 .. Len(u) : (i \in 1 .. Len(w) /\ u[i] = w[i]) \/ u[i].kind = "deleted"
LEMMA RestAfterKept ==
  ASSUME NEW w, NEW p, AppInvAt(w, p), RowsOK(p), making' \subseteq making,
         \A t \in AppThreads : Stays(t)' => rows'[t].state = rows[t].state, NEW u, AtMostDeleted(u, w)
  PROVE  OneWait(u, p)' /\ NewInv(u, p)' /\ ShownInv(u, p)'
<1>1. /\ \A i \in 1 .. Len(w) : i \in 1 .. Len(u) /\ u[i] = w[i]
      /\ \A i \in 1 .. Len(u) : (i \in 1 .. Len(w) /\ u[i] = w[i]) \/ u[i].kind = "deleted"
  BY DEF AtMostDeleted
<1>2. runs' = runs /\ sessions' = sessions /\ \A t \in AppThreads : Stays(t)' => Stays(t) /\ rows'[t].items = rows[t].items
  BY DEF RowsOK
<1>3. OneWait(u, p)'
  <2>1. OneWait(w, p)
    BY AppNow
  <2>2. \A i \in 1 .. Len(u) : u[i].kind \in {"got", "created", "listed"} => i \in 1 .. Len(w) /\ u[i] = w[i]
    BY <1>1
  <2> QED BY <2>1, <2>2 DEF OneWait
<1>4. ASSUME NEW s \in AppThreads, Bare(s) PROVE Bare(s)'
  <2> SUFFICES ASSUME Stays(s)' PROVE rows'[s].state = "here" /\ rows'[s].items = {} /\ sessions'[s] = 0
    BY DEF Bare
  <2> QED BY <1>2, <1>4 DEF Bare
<1>5. NewInv(u, p)'
  <2> SUFFICES ASSUME p.pc = "up", ~p.raced
               PROVE  /\ \A d \in making' : d[2] = p.opened => Bare(d[1])'
                      /\ \A i \in 1 .. Len(u) : u[i].kind \in {"created", "listed"} => Bare(u[i].on)'
    BY DEF NewInv, Bare, Stays, Leaving
  <2>1. ASSUME NEW d \in making', d[2] = p.opened PROVE Bare(d[1])'
    <3>1. d \in making /\ d[1] \in AppThreads
      BY AppNow DEF Shapes
    <3> QED BY <1>4, <2>1, <3>1, AppNow DEF NewInv
  <2>2. ASSUME NEW i \in 1 .. Len(u), u[i].kind \in {"created", "listed"} PROVE Bare(u[i].on)'
    <3>1. i \in 1 .. Len(w) /\ u[i] = w[i]
      BY <1>1, <2>2
    <3>2. w[i].on \in AppThreads
      BY <2>2, <3>1, AppNow DEF Shapes
    <3>3. Bare(w[i].on)
      BY <2>2, <3>1, AppNow DEF NewInv
    <3>4. PICK s : s = w[i].on
      OBVIOUS
    <3>5. Bare(s)'
      BY <1>4, <3>2, <3>3, <3>4
    <3> QED BY <3>1, <3>4, <3>5 DEF Bare, Stays, Leaving
  <2> QED BY <2>1, <2>2
<1>6. ShownInv(u, p)'
  <2> SUFFICES ASSUME NEW t \in AppThreads, t = p.active, p.pc = "up", ~p.raced, p.sending = "no", Stays(t)'
               PROVE  /\ \A i \in 1 .. Len(u) : u[i].kind = "got" =>
                           /\ \A x \in rows'[t].items : x \in u[i].those \/ \E j \in 1 .. Len(u) : j > i /\ Tells(u[j], t) /\ u[j].item = x
                           /\ u[i].those \subseteq Known(t)'
                      /\ (\A i \in 1 .. Len(u) : u[i].kind # "got") =>
                           /\ \A x \in rows'[t].items : \/ x \in p.shown \/ x \in UNION p.describing
                                                        \/ \E j \in 1 .. Len(u) : Tells(u[j], t) /\ u[j].item = x
                           /\ p.shown \cup UNION p.describing \subseteq Known(t)'
    BY DEF ShownInv, Tells, Known, OnWay, Stays, Leaving
  <2>1. Stays(t) /\ rows'[t].items = rows[t].items
    BY <1>2
  <2>2. Known(t)' = Known(t)
    BY <1>2, <2>1 DEF Known, OnWay
  <2>3. /\ \A i \in 1 .. Len(w) : w[i].kind = "got" =>
             /\ \A x \in rows[t].items : x \in w[i].those \/ \E j \in 1 .. Len(w) : j > i /\ Tells(w[j], t) /\ w[j].item = x
             /\ w[i].those \subseteq Known(t)
        /\ (\A i \in 1 .. Len(w) : w[i].kind # "got") =>
             /\ \A x \in rows[t].items : \/ x \in p.shown \/ x \in UNION p.describing
                                         \/ \E j \in 1 .. Len(w) : Tells(w[j], t) /\ w[j].item = x
             /\ p.shown \cup UNION p.describing \subseteq Known(t)
    <3>1. ShownInv(w, p)
      BY AppNow
    <3>2. p.active \in AppThreads /\ Stays(p.active)
      BY <2>1
    <3>3. /\ \A i \in 1 .. Len(w) : w[i].kind = "got" =>
               /\ \A x \in rows[p.active].items : x \in w[i].those \/ \E j \in 1 .. Len(w) : j > i /\ Tells(w[j], p.active) /\ w[j].item = x
               /\ w[i].those \subseteq Known(p.active)
          /\ (\A i \in 1 .. Len(w) : w[i].kind # "got") =>
               /\ \A x \in rows[p.active].items : \/ x \in p.shown \/ x \in UNION p.describing
                                                  \/ \E j \in 1 .. Len(w) : Tells(w[j], p.active) /\ w[j].item = x
               /\ p.shown \cup UNION p.describing \subseteq Known(p.active)
      BY <3>1, <3>2 DEF ShownInv
    <3> QED BY <3>3
  <2>4. ASSUME NEW i \in 1 .. Len(u), u[i].kind = "got"
        PROVE  /\ \A x \in rows'[t].items : x \in u[i].those \/ \E j \in 1 .. Len(u) : j > i /\ Tells(u[j], t) /\ u[j].item = x
               /\ u[i].those \subseteq Known(t)'
    BY <1>1, <2>1, <2>2, <2>3, <2>4
  <2>5. ASSUME \A i \in 1 .. Len(u) : u[i].kind # "got"
        PROVE  /\ \A x \in rows'[t].items : \/ x \in p.shown \/ x \in UNION p.describing
                                            \/ \E j \in 1 .. Len(u) : Tells(u[j], t) /\ u[j].item = x
               /\ p.shown \cup UNION p.describing \subseteq Known(t)'
    BY <1>1, <2>1, <2>2, <2>3, <2>5
  <2> QED BY <2>4, <2>5
<1> QED BY <1>3, <1>5, <1>6

(* An answer goes to the window that asked, if it is still there.          *)
LEMMA AnswerIs ==
  ASSUME NEW w, NEW p, w = wire, p = page, AppInvAt(w, p), NEW d, NEW x \in Msgs, NEW u, u = Answer(d, x)
  PROVE  u = w \/ (d = p.opened /\ p.pc # "closed" /\ u = Append(w, x))
<1>1. w \in Seq(Msgs)
  BY AppNow
<1>2. PICK e : e = <<x>>
  OBVIOUS
<1>3. u = IF d = p.opened THEN (IF p.pc = "closed" THEN w ELSE w \o e) ELSE w
  BY <1>2 DEF Answer, Told
<1>4. w \o e = Append(w, x)
  BY <1>1, <1>2
<1> QED BY <1>3, <1>4

(* The worktree is gone, and the row with it.                              *)
LEMMA GoneIs == Gone \in RowRecs /\ Gone.state = "gone"
<1>1. PICK none : none = {}
  OBVIOUS
<1>2. Unused = [state |-> "unused", tree |-> FALSE, dir |-> "project", items |-> none]
  BY <1>1 DEF Unused
<1>3. PICK old : old = Unused
  OBVIOUS
<1>4. PICK y : y = [old EXCEPT !.state = "gone"]
  OBVIOUS
<1>5. y = [state |-> "gone", tree |-> FALSE, dir |-> "project", items |-> none]
  BY <1>2, <1>3, <1>4
<1>6. Gone = y
  BY <1>3, <1>4 DEF Gone
<1> QED BY <1>1, <1>5, <1>6 DEF RowRecs

LEMMA WorktreeRemovedInv ==
  ASSUME AppInv, NEW t \in AppThreads, NEW d \in 1 .. MaxWindows, NEW dir \in {"project", "tree"}, WorktreeRemoved(t, d, dir)
  PROVE  AppInv'
<1>1. PICK w, p, u : w = wire /\ p = page /\ u = wire'
  OBVIOUS
<1>2. PICK x, e, gone : x = Msg("deleted", t, NoItem, {}) /\ e = <<x>> /\ gone = Gone
  OBVIOUS
<1>3. PICK one : one = <<t, d, dir>>
  OBVIOUS
<1>4. /\ one \in deleting /\ Len(w) + 1 <= MaxWire /\ deleting' = deleting \ {one} /\ checkout' = (checkout /\ dir = "tree")
      /\ rows' = [rows EXCEPT ![t] = gone] /\ u = Answer(d, x) /\ page' = p /\ UNCHANGED <<runs, sessions, making, job>>
  BY <1>1, <1>2, <1>3 DEF WorktreeRemoved, Room
<1>5. AppInvAt(w, p) /\ w \in Seq(Msgs)
  <2>1. AppInvAt(w, p)
    BY <1>1 DEF AppInv
  <2> QED BY <2>1, AppNow
<1>6. gone \in RowRecs /\ gone.state = "gone"
  BY <1>2, GoneIs
<1>7. /\ rows' \in [AppThreads -> RowRecs] /\ rows'[t] = gone
      /\ \A s \in AppThreads : s # t => rows'[s] = rows[s]
  BY <1>4, <1>5, <1>6, AppNow
<1>8. ~Stays(t)' /\ rows'[t].state # "unused"
  BY <1>6, <1>7 DEF Stays
<1>9. ASSUME NEW s \in AppThreads, s # t PROVE Leaving(s)' <=> Leaving(s)
  <2>1. one[1] = t
    BY <1>3
  <2> QED BY <1>4, <1>9, <2>1 DEF Leaving
<1>10. RowsOK(p)
  <2>1. ASSUME NEW s \in AppThreads
        PROVE  /\ Stays(s)' => Stays(s) /\ rows'[s].items = rows[s].items
               /\ rows'[s].state = "unused" => /\ rows[s].state = "unused" /\ rows'[s].items = rows[s].items /\ ~Leaving(s)'
                                               /\ \A c \in making' : c[1] # s
    <3>1. CASE s = t
      BY <1>8, <3>1
    <3>2. CASE s # t
      <4>1. rows'[s] = rows[s] /\ (Leaving(s)' <=> Leaving(s)) /\ making' = making
        BY <1>4, <1>7, <1>9, <3>2
      <4>2. rows[s].state = "unused" => ~Leaving(s) /\ \A c \in making : c[1] # s
        BY <1>5, AppNow DEF UnusedInv
      <4> QED BY <4>1, <4>2 DEF Stays
    <3> QED BY <3>1, <3>2
  <2>2. /\ job' \in {"none", "on"} /\ checkout' \in BOOLEAN
        /\ making' \subseteq AppThreads \X (1 .. MaxWindows) /\ deleting' \subseteq AppThreads \X (1 .. MaxWindows) \X {"project", "tree"}
    BY <1>4, <1>5, AppNow DEF Shapes
  <2>3. /\ \A c \in making' : c[2] <= p.opened /\ (p.pc = "loading" => c[2] # p.opened)
        /\ \A c \in deleting' : c[2] <= p.opened
    BY <1>4, <1>5, AppNow DEF PageInv
  <2> QED BY <1>4, <1>7, <2>1, <2>2, <2>3 DEF RowsOK
<1>11. AppMost(w, p)'
  <2>1. AppMost(w, p)
    BY <1>5, AppNow DEF AppMost
  <2> QED BY <1>10, <2>1, MostRows
<1>12. x \in Msgs /\ x.kind = "deleted" /\ x.on = t
  <2>1. PICK thing, those : thing = NoItem /\ those = {}
    OBVIOUS
  <2>2. x = [kind |-> "deleted", on |-> t, item |-> thing, those |-> those]
    BY <1>2, <2>1 DEF Msg
  <2>3. "deleted" \in MsgKinds /\ t \in Threads /\ thing \in Items \cup {NoItem} /\ those \in SUBSET (AppThreads \cup Items)
    BY <2>1 DEF MsgKinds, Threads
  <2> QED BY <2>2, <2>3 DEF Msgs
<1>13. \A s \in AppThreads : Stays(s)' => rows'[s].state = rows[s].state
  BY <1>7, <1>8
<1>14. AppMost(u, p)' /\ AtMostDeleted(u, w)
  <2>1. CASE u = w
    BY <1>11, <2>1 DEF AtMostDeleted
  <2>2. CASE p.pc # "closed" /\ u = Append(w, x)
    <3>1. Lengthened(u, w, e) /\ e \in Seq(Msgs) /\ Len(e) = 1 /\ 1 .. Len(e) = {1} /\ e[1] = x
      <4>1. u = Append(w, x) /\ e = <<x>> /\ x \in Msgs /\ w \in Seq(Msgs)
        BY <1>2, <1>5, <1>12, <2>2
      <4> QED BY <4>1 DEF Lengthened
    <3>2. AddedOK(x, w, p)
      BY <1>8, <1>12, <2>2 DEF AddedOK
    <3>3. AppMost(u, p)'
      BY <1>2, <1>4, <1>11, <3>1, <3>2, MostMore
    <3>4. Extends(u, w, e)
      BY <1>5, <3>1, WireLonger
    <3>5. /\ \A i \in 1 .. Len(w) : i \in 1 .. Len(u) /\ u[i] = w[i]
          /\ \A i \in 1 .. Len(u) : i \notin 1 .. Len(w) => \E h \in {1} : u[i] = e[h]
      BY <3>1, <3>4 DEF Extends
    <3>6. AtMostDeleted(u, w)
      BY <1>12, <3>1, <3>5 DEF AtMostDeleted
    <3> QED BY <3>3, <3>6
  <2> QED BY <1>1, <1>4, <1>5, <1>12, <2>1, <2>2, AnswerIs
<1>15. OneWait(u, p)' /\ NewInv(u, p)' /\ ShownInv(u, p)'
  BY <1>4, <1>5, <1>10, <1>13, <1>14, RestAfterKept
<1>16. wire' = u /\ page' = p
  BY <1>1, <1>4
<1> QED BY <1>14, <1>15, <1>16, AppThen

(* One message more at the end.                                            *)
OneMore(u, w, x) ==
  /\ \A i \in 1 .. Len(w) : i \in 1 .. Len(u) /\ u[i] = w[i]
  /\ \A i \in 1 .. Len(u) : (i \in 1 .. Len(w) /\ u[i] = w[i]) \/ (i \notin 1 .. Len(w) /\ u[i] = x)
  /\ \A i, j \in 1 .. Len(u) : i \notin 1 .. Len(w) /\ j \notin 1 .. Len(w) => i = j
LEMMA OneMoreIs ==
  ASSUME NEW w \in Seq(Msgs), NEW x \in Msgs, NEW e, e = <<x>>, NEW u, u = Append(w, x)
  PROVE  Lengthened(u, w, e) /\ OneMore(u, w, x)
<1>1. Lengthened(u, w, e) /\ e \in Seq(Msgs) /\ Len(e) = 1 /\ 1 .. Len(e) = {1} /\ e[1] = x
  BY DEF Lengthened
<1>2. Extends(u, w, e)
  BY <1>1, WireLonger
<1>3. /\ \A i \in 1 .. Len(w) : i \in 1 .. Len(u) /\ u[i] = w[i]
      /\ \A i \in 1 .. Len(u) : i \notin 1 .. Len(w) => \E h \in {1} : u[i] = e[h]
      /\ \A i, j \in 1 .. Len(u) : i \notin 1 .. Len(w) /\ j \notin 1 .. Len(w) => i = j
  BY <1>1, <1>2 DEF Extends
<1> QED BY <1>1, <1>3 DEF OneMore

(* The row is told where its worktree is, if it is there.                  *)
Placed(r, t, ok) ==
  IF Here(t) THEN [r EXCEPT ![t].tree = ok, ![t].dir = IF ok THEN "tree" ELSE "project"] ELSE r
LEMMA PlacedIs ==
  ASSUME rows \in [AppThreads -> RowRecs], NEW t \in AppThreads, NEW ok \in BOOLEAN, NEW r, r = Placed(rows, t, ok)
  PROVE  /\ r \in [AppThreads -> RowRecs]
         /\ \A s \in AppThreads : r[s].state = rows[s].state /\ r[s].items = rows[s].items
<1>1. CASE Here(t)
  <2>1. PICK old, dir : old = rows[t] /\ dir = IF ok THEN "tree" ELSE "project"
    OBVIOUS
  <2>2. PICK a, x, y : a = [rows EXCEPT ![t].tree = ok] /\ x = [old EXCEPT !.tree = ok] /\ y = [x EXCEPT !.dir = dir]
    OBVIOUS
  <2>3. r = [a EXCEPT ![t].dir = dir]
    BY <1>1, <2>1, <2>2 DEF Placed
  <2>4. old \in RowRecs
    BY <2>1
  <2>5. old = [state |-> old.state, tree |-> old.tree, dir |-> old.dir, items |-> old.items]
    BY <2>4 DEF RowRecs
  <2>6. x = [state |-> old.state, tree |-> ok, dir |-> old.dir, items |-> old.items]
    BY <2>2, <2>5
  <2>7. y = [state |-> old.state, tree |-> ok, dir |-> dir, items |-> old.items]
    BY <2>2, <2>6
  <2>8. a = [s \in AppThreads |-> IF s = t THEN x ELSE rows[s]]
    BY <2>1, <2>2
  <2>9. r = [s \in AppThreads |-> IF s = t THEN y ELSE rows[s]]
    BY <2>2, <2>3, <2>8
  <2>10. dir \in {"project", "tree"} /\ old.state \in {"unused", "here", "gone"} /\ old.items \in SUBSET Items
    BY <2>1, <2>4 DEF RowRecs
  <2>11. y \in RowRecs /\ y.state = old.state /\ y.items = old.items
    BY <2>7, <2>10 DEF RowRecs
  <2> QED BY <2>1, <2>9, <2>11
<1>2. CASE ~Here(t)
  BY <1>2 DEF Placed
<1> QED BY <1>1, <1>2

LEMMA WorktreeAddedInv ==
  ASSUME AppInv, NEW t \in AppThreads, NEW d \in 1 .. MaxWindows, NEW ok \in BOOLEAN, WorktreeAdded(t, d, ok)
  PROVE  AppInv'
<1>1. PICK w, p, u : w = wire /\ p = page /\ u = wire'
  OBVIOUS
<1>2. PICK those, x, e, one : /\ those = (IF Here(t) THEN {t} ELSE {}) /\ x = Msg("created", t, NoItem, those) /\ e = <<x>>
                              /\ one = <<t, d>>
  OBVIOUS
<1>3. /\ one \in making /\ Len(w) + 1 <= MaxWire /\ making' = making \ {one} /\ rows' = Placed(rows, t, ok)
      /\ u = Answer(d, x) /\ page' = p /\ UNCHANGED <<checkout, runs, sessions, deleting, job>>
  BY <1>1, <1>2 DEF WorktreeAdded, Room, Placed
<1>4. AppInvAt(w, p) /\ w \in Seq(Msgs) /\ p \in Pages
  <2>1. AppInvAt(w, p)
    BY <1>1 DEF AppInv
  <2> QED BY <2>1, AppNow
<1>5. one[1] = t /\ one[2] = d
  BY <1>2
<1>6. /\ rows' \in [AppThreads -> RowRecs]
      /\ \A s \in AppThreads : rows'[s].state = rows[s].state /\ rows'[s].items = rows[s].items
  BY <1>3, <1>4, AppNow, PlacedIs
<1>7. \A s \in AppThreads : (Leaving(s)' <=> Leaving(s)) /\ (Stays(s)' <=> Stays(s))
  <2>1. \A s \in AppThreads : Leaving(s)' <=> Leaving(s)
    BY <1>3 DEF Leaving
  <2> QED BY <1>6, <2>1 DEF Stays
<1>8. RowsOK(p)
  <2>1. ASSUME NEW s \in AppThreads, rows'[s].state = "unused"
        PROVE  rows[s].state = "unused" /\ rows'[s].items = rows[s].items /\ ~Leaving(s)' /\ \A c \in making' : c[1] # s
    BY <1>3, <1>4, <1>6, <1>7, <2>1, AppNow DEF UnusedInv
  <2>2. /\ job' \in {"none", "on"} /\ checkout' \in BOOLEAN
        /\ making' \subseteq AppThreads \X (1 .. MaxWindows) /\ deleting' \subseteq AppThreads \X (1 .. MaxWindows) \X {"project", "tree"}
    BY <1>3, <1>4, AppNow DEF Shapes
  <2>3. /\ \A c \in making' : c[2] <= p.opened /\ (p.pc = "loading" => c[2] # p.opened)
        /\ \A c \in deleting' : c[2] <= p.opened
    BY <1>3, <1>4, AppNow DEF PageInv
  <2> QED BY <1>3, <1>6, <1>7, <2>1, <2>2, <2>3 DEF RowsOK
<1>9. AppMost(w, p)'
  <2>1. AppMost(w, p)
    BY <1>4, AppNow DEF AppMost
  <2> QED BY <1>8, <2>1, MostRows
<1>10. x \in Msgs /\ x.kind = "created" /\ x.on = t /\ x.those = those /\ those \subseteq {t}
  <2>1. PICK thing : thing = NoItem
    OBVIOUS
  <2>2. x = [kind |-> "created", on |-> t, item |-> thing, those |-> those]
    BY <1>2, <2>1 DEF Msg
  <2>3. those \subseteq {t}
    BY <1>2
  <2>4. "created" \in MsgKinds /\ t \in Threads /\ thing \in Items \cup {NoItem} /\ those \in SUBSET (AppThreads \cup Items)
    BY <2>1, <2>3 DEF MsgKinds, Threads
  <2> QED BY <2>2, <2>3, <2>4 DEF Msgs
<1>11. u = w \/ (d = p.opened /\ p.pc # "closed" /\ u = Append(w, x))
  BY <1>1, <1>3, <1>4, <1>10, AnswerIs
<1>12. CASE u = w
  <2>1. AtMostDeleted(u, w)
    BY <1>12 DEF AtMostDeleted
  <2>2. \A s \in AppThreads : Stays(s)' => rows'[s].state = rows[s].state
    BY <1>6
  <2>3. making' \subseteq making
    BY <1>3
  <2>4. OneWait(u, p)' /\ NewInv(u, p)' /\ ShownInv(u, p)'
    BY <1>4, <1>8, <2>1, <2>2, <2>3, RestAfterKept
  <2>5. AppMost(u, p)' /\ wire' = u /\ page' = p
    BY <1>1, <1>3, <1>9, <1>12
  <2> QED BY <2>4, <2>5, AppThen
<1>13. CASE d = p.opened /\ p.pc # "closed" /\ u = Append(w, x)
  <2>1. p.pc = "up"
    <3>1. p.pc # "loading"
      BY <1>3, <1>4, <1>5, <1>13, AppNow DEF PageInv
    <3> QED BY <1>4, <1>13, <3>1, PageIs
  <2>2. rows[t].state # "unused"
    BY <1>3, <1>4, <1>5, AppNow DEF UnusedInv
  <2>3. AddedOK(x, w, p)
    BY <1>6, <1>10, <2>1, <2>2 DEF AddedOK
  <2>4. Lengthened(u, w, e) /\ OneMore(u, w, x)
    BY <1>2, <1>4, <1>10, <1>13, OneMoreIs
  <2>5. AppMost(u, p)'
    BY <1>2, <1>3, <1>9, <2>3, <2>4, MostMore
  <2>6. /\ \A i \in 1 .. Len(u) : (i \in 1 .. Len(w) /\ u[i] = w[i]) \/ (i \notin 1 .. Len(w) /\ u[i] = x)
        /\ \A i, j \in 1 .. Len(u) : i \notin 1 .. Len(w) /\ j \notin 1 .. Len(w) => i = j
    BY <2>4 DEF OneMore
  <2>7. ASSUME ~p.raced
        PROVE  /\ p.sending = "creating" /\ p.active = "none" /\ p.describing = {} /\ Bare(t)
               /\ \A c \in making' : c[2] # p.opened
               /\ \A i \in 1 .. Len(w) : w[i].kind \notin {"got", "created", "listed"}
    <3>1. OneWait(w, p) /\ NewInv(w, p)
      BY <1>4, AppNow
    <3>2. p.sending = "creating" /\ \A c \in making : c[2] = p.opened => c = one
      BY <1>3, <1>5, <1>13, <2>1, <2>7, <3>1 DEF OneWait
    <3>3. p.active = "none" /\ p.describing = {} /\ \A i \in 1 .. Len(w) : w[i].kind \notin {"got", "listed"}
      BY <2>1, <2>7, <3>1, <3>2 DEF OneWait
    <3>4. \A i \in 1 .. Len(w) : w[i].kind # "created"
      BY <1>3, <1>5, <1>13, <2>1, <2>7, <3>1 DEF OneWait
    <3>5. Bare(t)
      BY <1>3, <1>5, <1>13, <2>1, <2>7, <3>1 DEF NewInv
    <3> QED BY <1>3, <3>2, <3>3, <3>4, <3>5
  <2>8. ASSUME ~p.raced, NEW i \in 1 .. Len(u), u[i].kind \in {"got", "created", "listed"}
        PROVE  i \notin 1 .. Len(w) /\ u[i] = x
    BY <2>6, <2>7, <2>8
  <2>9. OneWait(u, p)'
    <3> SUFFICES ASSUME ~p.raced PROVE OneWait(u, p)'
      BY DEF OneWait
    <3>1. /\ \A i \in 1 .. Len(u) : u[i].kind \notin {"got", "listed"}
          /\ \A i \in 1 .. Len(u) : u[i].kind = "created" => u[i].those \subseteq {u[i].on}
          /\ \A i, j \in 1 .. Len(u) : u[i].kind = "created" /\ u[j].kind = "created" => i = j
      BY <1>10, <2>6, <2>8
    <3> QED BY <2>7, <3>1 DEF OneWait
  <2>10. ~p.raced => Bare(t)'
    BY <1>3, <1>6, <1>7, <2>7 DEF Bare
  <2>11. NewInv(u, p)'
    <3> SUFFICES ASSUME ~p.raced, NEW i \in 1 .. Len(u), u[i].kind \in {"created", "listed"} PROVE Bare(u[i].on)'
      BY <2>7 DEF NewInv, Bare, Stays, Leaving
    <3>1. u[i].on = t
      BY <1>10, <2>8
    <3> QED BY <2>10, <3>1 DEF Bare, Stays, Leaving
  <2>12. ShownInv(u, p)'
    BY <2>7 DEF ShownInv
  <2> QED BY <1>1, <1>3, <2>5, <2>9, <2>11, <2>12, AppThen
<1> QED BY <1>11, <1>12, <1>13

(* sendMessage with no thread open: a thread is made.                      *)
SendingOf(p) == [p EXCEPT !.sending = "creating"]
LEMMA SendingIs ==
  ASSUME NEW p \in Pages, NEW q, q = SendingOf(p)
  PROVE  /\ q \in Pages
         /\ q.pc = p.pc /\ q.listed = p.listed /\ q.active = p.active /\ q.shown = p.shown /\ q.cards = p.cards
         /\ q.running = p.running /\ q.asks = p.asks /\ q.describing = p.describing /\ q.sending = "creating" /\ q.raced = p.raced
         /\ q.opened = p.opened
<1>1. p = PageFrom(p)
  BY PageShape
<1>2. q = PageRec(p.pc, p.listed, p.active, p.shown, p.cards, p.running, p.asks, p.describing, "creating", p.raced, p.opened)
  BY <1>1 DEF PageRec, PageFrom, SendingOf
<1>3. /\ p.pc \in {"closed", "loading", "up"} /\ p.listed \in SUBSET AppThreads /\ p.active \in Threads /\ p.shown \in SUBSET Items
      /\ p.cards \in SUBSET Cards /\ p.running \in SUBSET AppThreads /\ p.asks \in SUBSET AppThreads
      /\ p.describing \in SUBSET (SUBSET Items) /\ "creating" \in {"no", "creating", "listing"} /\ p.raced \in BOOLEAN
      /\ p.opened \in 0 .. MaxWindows
  BY PageIs
<1>4. q \in Pages
  BY <1>2, <1>3 DEF Pages, PageRec
<1>5. /\ q.pc = p.pc /\ q.listed = p.listed /\ q.active = p.active /\ q.shown = p.shown /\ q.cards = p.cards
      /\ q.running = p.running /\ q.asks = p.asks /\ q.describing = p.describing /\ q.sending = "creating" /\ q.raced = p.raced
      /\ q.opened = p.opened
  BY <1>2 DEF PageRec
<1> QED BY <1>4, <1>5

NewRow(tree) == [Unused EXCEPT !.state = "here", !.tree = tree]
LEMMA NewRowIs ==
  ASSUME NEW tree \in BOOLEAN, NEW row, row = NewRow(tree)
  PROVE  row \in RowRecs /\ row.state = "here" /\ row.items = {}
<1>1. PICK none, old, b, off : none = {} /\ old = Unused /\ b = tree /\ off = FALSE
  OBVIOUS
<1>2. old = [state |-> "unused", tree |-> off, dir |-> "project", items |-> none]
  BY <1>1 DEF Unused
<1>3. PICK x : x = [old EXCEPT !.state = "here"]
  OBVIOUS
<1>8. PICK y : y = [x EXCEPT !.tree = b]
  OBVIOUS
<1>4. x = [state |-> "here", tree |-> off, dir |-> "project", items |-> none]
  BY <1>2, <1>3
<1>5. y = [state |-> "here", tree |-> b, dir |-> "project", items |-> none]
  BY <1>4, <1>8
<1>6. row = [old EXCEPT !.state = "here", !.tree = b]
  BY <1>1 DEF NewRow
<1>7. row = y
  BY <1>3, <1>6, <1>8
<1> QED BY <1>1, <1>5, <1>7 DEF RowRecs

LEMMA SendsFirstInv ==
  ASSUME AppInv, NEW t \in AppThreads, NEW tree \in BOOLEAN, SendsFirst(t, tree)
  PROVE  AppInv'
<1>1. PICK w, p, z, q, u : w = wire /\ p = page /\ z = Raced(page) /\ q = page' /\ u = wire'
  OBVIOUS
<1>2. PICK those, x, e, one, row : /\ those = {t} /\ x = Msg("created", t, NoItem, those) /\ e = <<x>>
                                   /\ one = <<t, page.opened>> /\ row = NewRow(tree)
  OBVIOUS
<1>3. /\ p.pc = "up" /\ p.active = "none" /\ rows[t].state = "unused" /\ Len(w) + 1 <= MaxWire /\ q = SendingOf(z)
      /\ rows' = [rows EXCEPT ![t] = row]
      /\ (tree /\ making' = making \cup {one} /\ u = w) \/ (~tree /\ u = Append(w, x) /\ making' = making)
      /\ UNCHANGED <<checkout, runs, sessions, deleting, job>>
  BY <1>1, <1>2 DEF SendsFirst, Usable, Room, SendingOf, NewRow
<1>4. /\ AppInvAt(w, p) /\ AppInvAt(w, z) /\ z \in Pages /\ z.pc = "up" /\ z.active = "none" /\ z.opened = p.opened
      /\ ~z.raced => /\ z.describing = {} /\ z.sending = "no"
                     /\ \A i \in 1 .. Len(w) : w[i].kind \notin {"got", "created", "listed"}
                     /\ \A c \in making : c[2] # z.opened
  <2>1. Trimmed(p, z)
    BY <1>1, <1>3, RacedAlone
  <2> QED BY <1>1, <1>3, <2>1, RacedAlone DEF Trimmed
<1>5. /\ q \in Pages
      /\ q.pc = z.pc /\ q.listed = z.listed /\ q.active = z.active /\ q.shown = z.shown /\ q.cards = z.cards
      /\ q.running = z.running /\ q.asks = z.asks /\ q.describing = z.describing /\ q.sending = "creating" /\ q.raced = z.raced
      /\ q.opened = z.opened
  BY <1>3, <1>4, SendingIs
<1>6. row \in RowRecs /\ row.state = "here" /\ row.items = {}
  BY <1>2, NewRowIs
<1>7. /\ rows' \in [AppThreads -> RowRecs] /\ rows'[t] = row
      /\ \A s \in AppThreads : s # t => rows'[s] = rows[s]
  BY <1>3, <1>4, <1>6, AppNow
<1>8. w \in Seq(Msgs) /\ one[1] = t /\ one[2] = z.opened /\ z.opened \in 1 .. MaxWindows
  <2>1. z.opened # 0
    BY <1>4, AppNow DEF PageInv
  <2>2. z.opened \in 0 .. MaxWindows
    BY <1>4, PageIs
  <2>3. z.opened \in 1 .. MaxWindows
    BY <2>1, <2>2, AppConstants
  <2> QED BY <1>1, <1>2, <1>4, <2>3, AppNow
<1>9. rows[t].items = {} /\ sessions[t] = 0 /\ ~Leaving(t) /\ \A c \in making : c[1] # t
  BY <1>3, <1>4, AppNow DEF UnusedInv
<1>10. \A s \in AppThreads : (Leaving(s)' <=> Leaving(s)) /\ (Stays(s)' => Stays(s)) /\ rows'[s].items = rows[s].items
  <2>1. \A s \in AppThreads : Leaving(s)' <=> Leaving(s)
    BY <1>3 DEF Leaving
  <2>2. Stays(t)
    BY <1>3, <1>9 DEF Stays
  <2> QED BY <1>6, <1>7, <1>9, <2>1, <2>2 DEF Stays
<1>11. RowsOK(q)
  <2>1. ASSUME NEW s \in AppThreads, rows'[s].state = "unused"
        PROVE  rows[s].state = "unused" /\ rows'[s].items = rows[s].items /\ ~Leaving(s)' /\ \A c \in making' : c[1] # s
    <3>1. s # t
      BY <1>6, <1>7, <2>1
    <3>2. rows[s].state = "unused"
      BY <1>7, <2>1, <3>1
    <3>3. ~Leaving(s) /\ \A c \in making : c[1] # s
      BY <1>4, <3>2, AppNow DEF UnusedInv
    <3> QED BY <1>3, <1>8, <1>10, <3>1, <3>2, <3>3
  <2>2. making' \subseteq AppThreads \X (1 .. MaxWindows)
    <3>1. making \subseteq AppThreads \X (1 .. MaxWindows)
      BY <1>4, AppNow DEF Shapes
    <3>2. one \in AppThreads \X (1 .. MaxWindows)
      BY <1>1, <1>2, <1>4, <1>8
    <3> QED BY <1>3, <3>1, <3>2
  <2>3. job' \in {"none", "on"} /\ checkout' \in BOOLEAN /\ deleting' \subseteq AppThreads \X (1 .. MaxWindows) \X {"project", "tree"}
    BY <1>3, <1>4, AppNow DEF Shapes
  <2>4. /\ \A c \in making' : c[2] <= q.opened
        /\ \A c \in deleting' : c[2] <= q.opened
    <3>1. (\A c \in making : c[2] <= z.opened) /\ \A c \in deleting : c[2] <= z.opened
      BY <1>4, AppNow DEF PageInv
    <3>2. z.opened <= z.opened
      BY <1>8
    <3> QED BY <1>3, <1>5, <1>8, <3>1, <3>2
  <2>5. q.pc # "loading"
    BY <1>4, <1>5
  <2> QED BY <1>3, <1>7, <1>10, <2>1, <2>2, <2>3, <2>4, <2>5 DEF RowsOK
<1>12. AppMost(w, q)'
  <2>1. AppMost(w, z)
    BY <1>4, AppNow DEF AppMost
  <2>2. \A s \in AppThreads : rows[s].state = "unused" => q.active # s
    BY <1>4, <1>5, AppConstants
  <2>3. AppMost(w, q)
    BY <1>4, <1>5, <2>1, <2>2, MostPage
  <2> QED BY <1>11, <2>3, MostRows
<1>13. Bare(t)'
  BY <1>3, <1>6, <1>7, <1>9 DEF Bare
<1>14. ShownInv(u, q)'
  BY <1>5 DEF ShownInv
<1>15. wire' = u /\ page' = q
  BY <1>1
<1>16. CASE tree /\ making' = making \cup {one} /\ u = w
  <2>1. OneWait(u, q)'
    <3> SUFFICES ASSUME ~q.raced PROVE OneWait(u, q)'
      BY DEF OneWait
    <3>1. /\ \A i \in 1 .. Len(u) : u[i].kind \notin {"got", "created", "listed"}
          /\ q.describing = {} /\ q.sending = "creating" /\ q.active = "none"
      BY <1>4, <1>5, <1>16
    <3>2. \A c, b \in making' : c[2] = q.opened /\ b[2] = q.opened => c = b
      BY <1>4, <1>5, <1>16
    <3> QED BY <3>1, <3>2 DEF OneWait
  <2>2. NewInv(u, q)'
    <3> SUFFICES ASSUME ~q.raced
                 PROVE  /\ \A c \in making' : c[2] = q.opened => Bare(c[1])'
                        /\ \A i \in 1 .. Len(u) : u[i].kind \in {"created", "listed"} => Bare(u[i].on)'
      BY DEF NewInv, Bare, Stays, Leaving
    <3>1. \A i \in 1 .. Len(u) : u[i].kind \notin {"created", "listed"}
      BY <1>4, <1>5, <1>16
    <3>2. ASSUME NEW c \in making', c[2] = q.opened PROVE c[1] = t
      BY <1>4, <1>5, <1>8, <1>16, <3>2
    <3>3. ASSUME NEW c \in making', c[2] = q.opened PROVE Bare(c[1])'
      BY <1>13, <3>2, <3>3 DEF Bare, Stays, Leaving
    <3> QED BY <3>1, <3>3
  <2>3. AppMost(u, q)'
    BY <1>12, <1>16
  <2> QED BY <1>14, <1>15, <2>1, <2>2, <2>3, AppThen
<1>17. CASE ~tree /\ u = Append(w, x) /\ making' = making
  <2>1. x \in Msgs /\ x.kind = "created" /\ x.on = t /\ x.those = {t}
    <3>1. PICK thing : thing = NoItem
      OBVIOUS
    <3>2. x = [kind |-> "created", on |-> t, item |-> thing, those |-> those]
      BY <1>2, <3>1 DEF Msg
    <3>3. "created" \in MsgKinds /\ t \in Threads /\ thing \in Items \cup {NoItem} /\ those \in SUBSET (AppThreads \cup Items)
      BY <1>2, <3>1 DEF MsgKinds, Threads
    <3> QED BY <1>2, <3>2, <3>3 DEF Msgs
  <2>2. AddedOK(x, w, q)
    BY <1>4, <1>5, <1>6, <1>7, <2>1 DEF AddedOK
  <2>3. Lengthened(u, w, e) /\ OneMore(u, w, x)
    BY <1>2, <1>8, <1>17, <2>1, OneMoreIs
  <2>4. AppMost(u, q)'
    BY <1>2, <1>3, <1>12, <2>2, <2>3, MostMore
  <2>5. /\ \A i \in 1 .. Len(u) : (i \in 1 .. Len(w) /\ u[i] = w[i]) \/ (i \notin 1 .. Len(w) /\ u[i] = x)
        /\ \A i, j \in 1 .. Len(u) : i \notin 1 .. Len(w) /\ j \notin 1 .. Len(w) => i = j
    BY <2>3 DEF OneMore
  <2>6. ASSUME ~q.raced, NEW i \in 1 .. Len(u), u[i].kind \in {"got", "created", "listed"}
        PROVE  i \notin 1 .. Len(w) /\ u[i] = x
    BY <1>4, <1>5, <2>5, <2>6
  <2>7. OneWait(u, q)'
    <3> SUFFICES ASSUME ~q.raced PROVE OneWait(u, q)'
      BY DEF OneWait
    <3>1. /\ \A i \in 1 .. Len(u) : u[i].kind \notin {"got", "listed"}
          /\ \A i \in 1 .. Len(u) : u[i].kind = "created" => u[i].those \subseteq {u[i].on}
          /\ \A i, j \in 1 .. Len(u) : u[i].kind = "created" /\ u[j].kind = "created" => i = j
      BY <2>1, <2>5, <2>6
    <3>2. q.describing = {} /\ q.sending = "creating" /\ q.active = "none" /\ \A c \in making' : c[2] # q.opened
      BY <1>4, <1>5, <1>17
    <3> QED BY <3>1, <3>2 DEF OneWait
  <2>8. NewInv(u, q)'
    <3> SUFFICES ASSUME ~q.raced
                 PROVE  /\ \A c \in making' : c[2] = q.opened => Bare(c[1])'
                        /\ \A i \in 1 .. Len(u) : u[i].kind \in {"created", "listed"} => Bare(u[i].on)'
      BY DEF NewInv, Bare, Stays, Leaving
    <3>1. ASSUME NEW i \in 1 .. Len(u), u[i].kind \in {"created", "listed"} PROVE Bare(u[i].on)'
      <4>1. u[i].on = t
        BY <2>1, <2>6, <3>1
      <4> QED BY <1>13, <4>1 DEF Bare, Stays, Leaving
    <3>2. \A c \in making' : c[2] # q.opened
      BY <1>4, <1>5, <1>17
    <3> QED BY <3>1, <3>2
  <2> QED BY <1>14, <1>15, <2>4, <2>7, <2>8, AppThen
<1> QED BY <1>3, <1>16, <1>17

(* A thread is deleted: its turn is told to stop.                          *)
SaysOf(t) == {m \in Msgs : m.on = t /\ m.kind \in {"item", "deleted"} /\ (m.kind = "item" => m.item \in Items)}
DonesOf(d, k, tells) == d = [i \in DOMAIN tells |-> Done(k, tells[i])]
LEMMA DonesOfIs ==
  ASSUME NEW t \in AppThreads, NEW k, runs[k].on = t, NEW tells \in Seq(Items), NEW d, DonesOf(d, k, tells)
  PROVE  d \in Seq(SaysOf(t)) /\ Len(d) = Len(tells)
<1>1. PICK n \in Nat : n = Len(tells) /\ DOMAIN tells = 1 .. n
  OBVIOUS
<1>2. ASSUME NEW x \in Items PROVE Done(k, x) \in SaysOf(t)
  <2>1. PICK y, those : those = {} /\ y = Msg("item", t, x, those)
    OBVIOUS
  <2>2. "item" \in MsgKinds /\ t \in Threads /\ x \in Items \cup {NoItem} /\ those \in SUBSET (AppThreads \cup Items)
    BY <1>2, <2>1 DEF MsgKinds, Threads
  <2>3. y \in Msgs
    BY <2>1, <2>2, MsgMade
  <2>4. y.on = t /\ y.kind = "item" /\ y.item = x
    BY <2>1 DEF Msg
  <2>5. Done(k, x) = y
    BY <2>1 DEF Done
  <2> QED BY <1>2, <2>3, <2>4, <2>5 DEF SaysOf
<1>3. \A i \in 1 .. n : tells[i] \in Items
  BY <1>1
<1>4. d = [i \in 1 .. n |-> Done(k, tells[i])]
  <2>1. DOMAIN tells = 1 .. n /\ d = [i \in DOMAIN tells |-> Done(k, tells[i])]
    BY <1>1 DEF DonesOf
  <2> QED BY <2>1
<1>5. d \in [1 .. n -> SaysOf(t)]
  BY <1>2, <1>3, <1>4
<1>6. d \in Seq(SaysOf(t))
  BY <1>5, SeqDef
<1>7. DOMAIN d = 1 .. n
  BY <1>5
<1> QED BY <1>1, <1>6, <1>7, LenProperties

(* What the deleted thread leaves on disk.                                 *)
RowsLeft(t) == IF rows[t].tree THEN rows ELSE [rows EXCEPT ![t] = Gone]
LEMMA RowsLeftAre ==
  ASSUME rows \in [AppThreads -> RowRecs], NEW t \in AppThreads, Here(t), NEW items \in SUBSET Items, NEW r, r = Kept(RowsLeft(t), t, items)
  PROVE  /\ r \in [AppThreads -> RowRecs] /\ r[t].state # "unused" /\ (~rows[t].tree => r[t].state = "gone")
         /\ \A s \in AppThreads : s # t => r[s] = rows[s]
<1>1. rows[t].state = "here"
  BY DEF Here
<1>2. CASE rows[t].tree
  <2>1. r = Kept(rows, t, items)
    BY <1>2 DEF RowsLeft
  <2>2. /\ r \in [AppThreads -> RowRecs]
        /\ \A u \in AppThreads : r[u].state = rows[u].state /\ (u # t => r[u] = rows[u])
    BY <2>1, RowKept
  <2> QED BY <1>1, <1>2, <2>2
<1>3. CASE ~rows[t].tree
  <2>1. PICK gone : gone = Gone
    OBVIOUS
  <2>2. gone \in RowRecs /\ gone.state = "gone"
    BY <2>1, GoneIs
  <2>3. PICK y : y = [rows EXCEPT ![t] = gone]
    OBVIOUS
  <2>4. y \in [AppThreads -> RowRecs] /\ y[t] = gone /\ \A s \in AppThreads : s # t => y[s] = rows[s]
    BY <2>2, <2>3
  <2>5. r = Kept(y, t, items)
    BY <1>3, <2>1, <2>3 DEF RowsLeft
  <2>6. r = y
    BY <2>2, <2>4, <2>5 DEF Kept
  <2> QED BY <2>2, <2>4, <2>6
<1> QED BY <1>2, <1>3

(* Who else is there has nothing of it.                                    *)
Struck(t, k, e) ==
  /\ runs' \in [RunIds -> RunRecs] /\ \A j \in RunIds : j # k => runs'[j] = runs[j]
  /\ k \in RunIds => /\ Goes(k) /\ runs[k].on = t /\ runs'[k].on = t /\ runs'[k].pc \in AlivePcs /\ runs'[k].n = runs[k].n
                     /\ CallsOK(runs'[k]) /\ runs'[k].pc # "asking"
  /\ k = sessions[t] /\ sessions' \in [AppThreads -> 0 .. MaxAppTurns] /\ sessions'[t] = 0
  /\ \A s \in AppThreads : s # t => sessions'[s] = sessions[s]
  /\ rows' \in [AppThreads -> RowRecs] /\ rows'[t].state # "unused" /\ \A s \in AppThreads : s # t => rows'[s] = rows[s]
  /\ rows[t].state # "unused" /\ ~Stays(t)' /\ \A s \in AppThreads : s # t => (Leaving(s)' <=> Leaving(s))
  /\ e \in Seq(SaysOf(t)) /\ making' = making
LEMMA StruckRuns ==
  ASSUME NEW w, NEW p, AppInvAt(w, p), NEW t \in AppThreads, NEW k, NEW e, Struck(t, k, e)
  PROVE  RunsInv'
<1>1. \A s \in AppThreads : Stays(s)' => s # t /\ Stays(s) /\ rows'[s] = rows[s] /\ sessions'[s] = sessions[s]
  BY DEF Struck, Stays
<1>2. ASSUME NEW j \in RunIds, Goes(j)', NEW u, u = runs'[j].on
      PROVE  /\ u \in AppThreads /\ rows'[u].state # "unused" /\ (Stays(u)' => sessions'[u] = j)
             /\ (runs'[j].pc = "asking" => runs'[j].calls # <<>> /\ Head(runs'[j].calls) \in {"risky", "outside"})
             /\ (runs'[j].pc \in {"running", "killed"} => runs'[j].calls # <<>>)
  <2>1. CASE j = k
    <3>1. u = t /\ ~Stays(t)' /\ rows'[t].state # "unused" /\ CallsOK(runs'[j]) /\ runs'[j].pc # "asking"
      BY <1>2, <2>1 DEF Struck
    <3> QED BY <3>1 DEF CallsOK
  <2>2. CASE j # k
    <3>1. runs'[j] = runs[j]
      BY <2>2 DEF Struck
    <3>2. Goes(j)
      BY <1>2, <3>1 DEF Goes
    <3>3. /\ u \in AppThreads /\ rows[u].state # "unused" /\ (Stays(u) => sessions[u] = j)
          /\ (runs[j].pc = "asking" => runs[j].calls # <<>> /\ Head(runs[j].calls) \in {"risky", "outside"})
          /\ (runs[j].pc \in {"running", "killed"} => runs[j].calls # <<>>)
      BY <1>2, <3>1, <3>2, AppNow DEF RunsInv
    <3>4. rows'[u].state # "unused"
      BY <3>3 DEF Struck
    <3>5. Stays(u)' => sessions'[u] = j
      BY <1>1, <3>3
    <3> QED BY <3>1, <3>3, <3>4, <3>5
  <2> QED BY <2>1, <2>2
<1>3. ASSUME NEW u \in AppThreads, NEW j, j = sessions'[u], j # 0 PROVE Goes(j)' /\ runs'[j].on = u
  <2>1. u # t /\ j = sessions[u]
    BY <1>3 DEF Struck
  <2>2. j \in RunIds /\ Goes(j) /\ runs[j].on = u
    BY <1>3, <2>1, AppNow DEF RunsInv
  <2>3. j # k
    BY <2>1, <2>2 DEF Struck
  <2>4. runs'[j] = runs[j]
    BY <2>2, <2>3 DEF Struck
  <2> QED BY <2>2, <2>4 DEF Goes
<1> QED BY <1>2, <1>3, RunsInvMade

LEMMA StruckFollow ==
  ASSUME NEW w, NEW p, AppInvAt(w, p), NEW t \in AppThreads, NEW k, NEW e, Struck(t, k, e)
  PROVE  Events(e) /\ Follow(w, p, e, {}) /\ UnusedFollow(e)
<1>1. \A s \in AppThreads : Stays(s)' => s # t /\ Stays(s) /\ rows'[s] = rows[s] /\ sessions'[s] = sessions[s]
  BY DEF Struck, Stays
<1>2. ASSUME NEW h \in 1 .. Len(e)
      PROVE  e[h] \in Msgs /\ e[h].on = t /\ e[h].kind \in {"item", "deleted"} /\ (e[h].kind = "item" => e[h].item \in Items)
  <2>1. e \in Seq(SaysOf(t))
    BY DEF Struck
  <2>2. e[h] \in SaysOf(t)
    BY <2>1, ElementOfSeq
  <2> QED BY <2>2 DEF SaysOf
<1>3. Events(e)
  <2>1. e \in Seq(Msgs)
    <3>1. e \in Seq(SaysOf(t)) /\ SaysOf(t) \subseteq Msgs
      BY DEF Struck, SaysOf
    <3> QED BY <3>1
  <2> QED BY <1>2, <2>1 DEF Events, EventKinds
<1>4. ASSUME NEW s \in AppThreads, s # t, sessions[s] # 0
      PROVE  /\ sessions[s] \in RunIds /\ sessions[s] # k /\ runs'[sessions[s]] = runs[sessions[s]]
  <2>1. PICK j : j = sessions[s]
    OBVIOUS
  <2>2. j \in RunIds /\ runs[j].on = s
    BY <1>4, <2>1, AppNow DEF RunsInv
  <2>3. j # k
    BY <1>4, <2>2 DEF Struck
  <2>4. runs'[j] = runs[j]
    BY <2>2, <2>3 DEF Struck
  <2> QED BY <2>1, <2>2, <2>3, <2>4
<1>5. MarksFollow(e)
  <2>1. ASSUME NEW s \in AppThreads, s # t, NEW h \in 1 .. Len(e) PROVE ~Marks(e[h], s)
    BY <1>2, <2>1 DEF Marks
  <2> QED BY <1>1, <2>1 DEF MarksFollow
<1>6. AsksFollow(w, p, e)
  <2>1. ASSUME NEW s \in AppThreads, Stays(s)', sessions[s] # 0
        PROVE  sessions'[s] = sessions[s] /\ AskStands(w, p, s, sessions[s])
    <3>1. sessions'[s] = sessions[s] /\ runs'[sessions[s]] = runs[sessions[s]]
      BY <1>1, <1>4, <2>1
    <3> QED BY <3>1 DEF AskStands
  <2>2. \A h \in 1 .. Len(e) : e[h].kind # "ask"
    BY <1>2
  <2>3. ASSUME NEW j \in RunIds, runs[j].pc # "none"
        PROVE  runs'[j].pc # "none" /\ (Goes(j)' => Goes(j) /\ runs[j].n <= runs'[j].n)
    <3>0. runs[j].n \in Nat
      BY AppNow, RunIs
    <3>1. runs[j].n <= runs[j].n
      BY <3>0
    <3>2. CASE j = k
      BY <3>1, <3>2 DEF Struck, AlivePcs
    <3>3. CASE j # k
      <4>1. runs'[j] = runs[j]
        BY <3>3 DEF Struck
      <4> QED BY <2>3, <3>1, <4>1 DEF Goes
    <3> QED BY <3>2, <3>3
  <2> QED BY <1>1, <2>1, <2>2, <2>3 DEF AsksFollow
<1>7. ASSUME NEW s \in AppThreads, s # t, rows'[s] = rows[s], sessions'[s] = sessions[s] PROVE Known(s)' = Known(s)
  <2>1. CASE sessions[s] = 0
    BY <1>7, <2>1 DEF Known
  <2>2. CASE sessions[s] # 0
    <3>1. runs'[sessions[s]] = runs[sessions[s]]
      BY <1>4, <1>7, <2>2
    <3> QED BY <1>7, <2>2, <3>1 DEF Known, OnWay
  <2> QED BY <2>1, <2>2
<1>8. TellsFollow(e)
  <2>1. ASSUME NEW s \in AppThreads, s # t, NEW h \in 1 .. Len(e) PROVE ~Tells(e[h], s)
    BY <1>2, <2>1 DEF Tells
  <2>2. ASSUME NEW s \in AppThreads, Stays(s)' PROVE Stays(s) /\ Known(s) \subseteq Known(s)'
    BY <1>1, <1>7, <2>2
  <2> QED BY <1>1, <2>1, <2>2 DEF TellsFollow
<1>9. ASSUME NEW s \in AppThreads, Bare(s) PROVE Bare(s)'
  BY <1>1, <1>9 DEF Bare
<1>10. NewFollow(w, p)
  <2>1. \A c \in making : c[1] \in AppThreads
    BY AppNow DEF Shapes
  <2>2. \A i \in 1 .. Len(w) : w[i].kind \in {"created", "listed"} => w[i].on \in AppThreads
    BY AppNow DEF Shapes
  <2> QED BY <1>9, <2>1, <2>2 DEF NewFollow
<1>11. ShownFollow(w, p, e, {})
  BY <1>1 DEF ShownFollow
<1>12. UnusedFollow(e)
  <2> SUFFICES ASSUME NEW s \in AppThreads, rows'[s].state = "unused"
               PROVE  /\ rows[s].state = "unused" /\ rows'[s].items = rows[s].items /\ sessions'[s] = sessions[s] /\ ~Leaving(s)'
                      /\ \A h \in 1 .. Len(e) : e[h].on # s
    BY DEF UnusedFollow
  <2>1. s # t
    BY DEF Struck
  <2>2. rows'[s] = rows[s] /\ sessions'[s] = sessions[s] /\ (Leaving(s)' <=> Leaving(s))
    BY <2>1 DEF Struck
  <2>3. ~Leaving(s)
    BY <2>2, AppNow DEF UnusedInv
  <2> QED BY <1>2, <2>1, <2>2, <2>3
<1> QED BY <1>3, <1>5, <1>6, <1>8, <1>10, <1>11, <1>12 DEF Follow

LEMMA DeletesInv ==
  ASSUME AppInv, NEW t \in AppThreads, Deletes(t)
  PROVE  AppInv'
<1>1. PICK w, p, k : w = wire /\ p = page /\ k = sessions[t]
  OBVIOUS
<1>2. PICK tells, d, gone, e : /\ tells = (IF k = 0 THEN <<>> ELSE CancelTells(k)) /\ DonesOf(d, k, tells)
                              /\ gone = (IF rows[t].tree THEN <<>> ELSE <<Msg("deleted", t, NoItem, {})>>) /\ e = d \o gone
  BY DEF DonesOf
<1>3. PICK one : one = <<t, page.opened, rows[t].dir>>
  OBVIOUS
<1>4. p.pc = "up" /\ Here(t) /\ ~Leaving(t) /\ Len(w) + 2 <= MaxWire
  BY <1>1 DEF Deletes, Usable, Room
<1>5. /\ runs' = IF k = 0 THEN runs ELSE [runs EXCEPT ![k] = Cancelled(k)]
      /\ sessions' = [sessions EXCEPT ![t] = 0] /\ rows' = Kept(RowsLeft(t), t, ToSet(tells))
      /\ wire' = Told(wire, e)
      /\ deleting' = IF rows[t].tree THEN deleting \cup {one} ELSE deleting
      /\ UNCHANGED <<checkout, making, job, page>>
  <2>1. tells = (IF k = 0 THEN <<>> ELSE CancelTells(k)) /\ k = sessions[t] /\ d = [i \in DOMAIN tells |-> Done(k, tells[i])]
    BY <1>1, <1>2 DEF DonesOf
  <2>2. /\ runs' = IF k = 0 THEN runs ELSE [runs EXCEPT ![k] = Cancelled(k)]
        /\ sessions' = [sessions EXCEPT ![t] = 0] /\ UNCHANGED <<checkout, making, job, page>>
    BY <2>1 DEF Deletes
  <2>3. rows' = Kept(RowsLeft(t), t, ToSet(tells))
    BY <2>1 DEF Deletes, RowsLeft
  <2>4. wire' = Told(wire, d \o gone)
    BY <1>2, <2>1 DEF Deletes
  <2>5. deleting' = IF rows[t].tree THEN deleting \cup {one} ELSE deleting
    BY <1>3 DEF Deletes
  <2> QED BY <1>2, <2>2, <2>3, <2>4, <2>5
<1>6. AppInvAt(w, p) /\ w \in Seq(Msgs) /\ p \in Pages /\ rows \in [AppThreads -> RowRecs] /\ runs \in [RunIds -> RunRecs]
      /\ sessions \in [AppThreads -> 0 .. MaxAppTurns] /\ rows[t] \in RowRecs /\ rows[t].state = "here"
  <2>1. AppInvAt(w, p)
    BY <1>1 DEF AppInv
  <2> QED BY <1>4, <2>1, AppNow DEF Here
<1>7. k # 0 => k \in RunIds /\ Goes(k) /\ runs[k].on = t
  BY <1>1, <1>6, AppNow DEF RunsInv
<1>8. tells \in Seq(Items) /\ Len(tells) <= 1 /\ Len(tells) \in Nat /\ ToSet(tells) \in SUBSET Items
  <2>1. CASE tells = <<>>
    BY <2>1, OneOrNone
  <2>2. CASE \E x \in Items : tells = <<x>>
    <3>1. PICK x \in Items : tells = <<x>>
      BY <2>2
    <3>2. tells \in Seq(Items) /\ ToSet(tells) = {x}
      BY <3>1, OneOrNone
    <3>3. Len(tells) = 1
      BY <3>1
    <3> QED BY <3>2, <3>3
  <2>3. tells = <<>> \/ \E x \in Items : tells = <<x>>
    <3>1. CASE k = 0
      BY <1>2, <3>1
    <3>2. CASE k # 0
      BY <1>2, <1>7, <3>2, CancelSays
    <3> QED BY <3>1, <3>2
  <2> QED BY <2>1, <2>2, <2>3
<1>9. d \in Seq(SaysOf(t)) /\ Len(d) = Len(tells)
  <2>1. CASE k = 0
    <3>1. tells = <<>>
      BY <1>2, <2>1
    <3>2. PICK none : none = <<>>
      OBVIOUS
    <3>3. DOMAIN tells = {} /\ Len(tells) = 0
      BY <3>1
    <3>4. d = none
      <4>1. d = [i \in DOMAIN tells |-> Done(k, tells[i])]
        BY <1>2 DEF DonesOf
      <4>2. d = [i \in {} |-> Done(k, tells[i])]
        BY <3>3, <4>1
      <4> QED BY <3>2, <4>2
    <3> QED BY <3>2, <3>3, <3>4
  <2>2. CASE k # 0
    BY <1>2, <1>7, <1>8, <2>2, DonesOfIs
  <2> QED BY <2>1, <2>2
<1>10. gone \in Seq(SaysOf(t)) /\ Len(gone) <= 1 /\ Len(gone) \in Nat
  <2>1. PICK m, those : those = {} /\ m = Msg("deleted", t, NoItem, those)
    OBVIOUS
  <2>2. PICK thing : thing = NoItem
    OBVIOUS
  <2>3. m = [kind |-> "deleted", on |-> t, item |-> thing, those |-> those]
    BY <2>1, <2>2 DEF Msg
  <2>4. "deleted" \in MsgKinds /\ t \in Threads /\ thing \in Items \cup {NoItem} /\ those \in SUBSET (AppThreads \cup Items)
    BY <2>1, <2>2 DEF MsgKinds, Threads
  <2>5. m \in Msgs
    BY <2>3, <2>4 DEF Msgs
  <2>6. m \in SaysOf(t)
    BY <2>3, <2>5 DEF SaysOf
  <2>7. gone = <<>> \/ gone = <<m>>
    BY <1>2, <2>1
  <2>8. CASE gone = <<>>
    BY <2>8
  <2>9. CASE gone = <<m>>
    <3>1. <<m>> \in Seq(SaysOf(t)) /\ Len(<<m>>) = 1
      BY <2>6
    <3> QED BY <2>9, <3>1
  <2> QED BY <2>7, <2>8, <2>9
<1>11. e \in Seq(SaysOf(t)) /\ Len(e) <= 2 /\ Len(e) \in Nat
  <2>1. e \in Seq(SaysOf(t)) /\ Len(e) = Len(d) + Len(gone)
    BY <1>2, <1>9, <1>10, ConcatProperties
  <2> QED BY <1>8, <1>9, <1>10, <2>1
<1>12. /\ rows' \in [AppThreads -> RowRecs] /\ rows'[t].state # "unused" /\ (~rows[t].tree => rows'[t].state = "gone")
       /\ \A s \in AppThreads : s # t => rows'[s] = rows[s]
  <2>1. PICK items, r : items = ToSet(tells) /\ r = Kept(RowsLeft(t), t, items)
    OBVIOUS
  <2>2. items \in SUBSET Items /\ rows' = r
    BY <1>5, <1>8, <2>1
  <2> QED BY <1>4, <1>6, <2>1, <2>2, RowsLeftAre
<1>13. one[1] = t /\ one[2] = p.opened
  BY <1>1, <1>3
<1>14. ~Stays(t)' /\ \A s \in AppThreads : s # t => (Leaving(s)' <=> Leaving(s))
  <2>1. rows[t].tree => Leaving(t)'
    BY <1>5, <1>13 DEF Leaving
  <2>2. \A s \in AppThreads : s # t => (Leaving(s)' <=> Leaving(s))
    BY <1>5, <1>13 DEF Leaving
  <2> QED BY <1>12, <2>1, <2>2 DEF Stays
<1>15. PICK run : run = Cancelled(k)
  OBVIOUS
<1>16. k # 0 => run \in RunRecs /\ run.on = t /\ run.pc \in AlivePcs /\ run.n = runs[k].n /\ CallsOK(run) /\ run.pc # "asking"
  <2> SUFFICES ASSUME k # 0
               PROVE  run \in RunRecs /\ run.on = t /\ run.pc \in AlivePcs /\ run.n = runs[k].n /\ CallsOK(run) /\ run.pc # "asking"
    OBVIOUS
  <2>1. PICK r : r = runs[k]
    OBVIOUS
  <2>2. /\ run \in RunRecs /\ run.on = r.on /\ run.pc \in AlivePcs /\ run.n = r.n
        /\ CallsOK(run) /\ run.pc \notin {"asking"}
    BY <1>7, <1>15, <2>1, CancelledIs
  <2> QED BY <1>7, <2>1, <2>2
<1>17. /\ runs' \in [RunIds -> RunRecs] /\ \A j \in RunIds : j # k => runs'[j] = runs[j]
       /\ k # 0 => runs'[k] = run
  <2>1. CASE k = 0
    BY <1>5, <1>6, <2>1
  <2>2. CASE k # 0
    <3>1. runs' = [runs EXCEPT ![k] = run]
      BY <1>5, <1>15, <2>2
    <3> QED BY <1>6, <1>7, <1>16, <2>2, <3>1
  <2> QED BY <2>1, <2>2
<1>18. 0 \notin RunIds
  BY DEF RunIds
<1>19. Struck(t, k, e)
  <2>1. /\ sessions' \in [AppThreads -> 0 .. MaxAppTurns] /\ sessions'[t] = 0
        /\ \A s \in AppThreads : s # t => sessions'[s] = sessions[s]
    <3>1. 0 \in 0 .. MaxAppTurns
      BY AppConstants
    <3> QED BY <1>5, <1>6, <3>1
  <2>2. k \in RunIds => /\ Goes(k) /\ runs[k].on = t /\ runs'[k].on = t /\ runs'[k].pc \in AlivePcs /\ runs'[k].n = runs[k].n
                        /\ CallsOK(runs'[k]) /\ runs'[k].pc # "asking"
    BY <1>7, <1>16, <1>17, <1>18
  <2>3. rows[t].state # "unused" /\ making' = making
    BY <1>5, <1>6
  <2> QED BY <1>1, <1>11, <1>12, <1>14, <1>17, <2>1, <2>2, <2>3 DEF Struck
<1>20. p.opened \in 1 .. MaxWindows /\ p.opened <= p.opened
  <2>1. p.opened # 0
    BY <1>4, <1>6, AppNow DEF PageInv
  <2>2. p.opened \in 0 .. MaxWindows
    BY <1>6, PageIs
  <2> QED BY <2>1, <2>2, AppConstants
<1>21. SameState
  <2>1. deleting' \subseteq AppThreads \X (1 .. MaxWindows) \X {"project", "tree"}
    <3>1. rows[t].dir \in {"project", "tree"}
      BY <1>6 DEF RowRecs
    <3>2. one \in AppThreads \X (1 .. MaxWindows) \X {"project", "tree"}
      BY <1>1, <1>3, <1>20, <3>1
    <3>3. deleting \subseteq AppThreads \X (1 .. MaxWindows) \X {"project", "tree"}
      BY <1>6, AppNow DEF Shapes
    <3> QED BY <1>5, <3>2, <3>3
  <2>2. job' \in {"none", "on"} /\ checkout' \in BOOLEAN
    BY <1>5, <1>6, AppNow DEF Shapes
  <2>3. /\ rows' \in [AppThreads -> RowRecs] /\ runs' \in [RunIds -> RunRecs] /\ sessions' \in [AppThreads -> 0 .. MaxAppTurns]
        /\ making' = making
    BY <1>19 DEF Struck
  <2> QED BY <2>1, <2>2, <2>3 DEF SameState
<1>22. DeletingOK(p)
  <2>1. \A c \in deleting : c[2] <= p.opened
    BY <1>6, AppNow DEF PageInv
  <2> QED BY <1>5, <1>13, <1>20, <2>1 DEF DeletingOK
<1>23. RunsInv' /\ Events(e) /\ Follow(w, p, e, {}) /\ UnusedFollow(e)
  BY <1>6, <1>19, StruckRuns, StruckFollow
<1>24. Tell(w, p, e) /\ page' = p /\ Len(w) + Len(e) <= MaxWire
  <2>1. Tell(w, p, e) /\ page' = p
    BY <1>1, <1>5 DEF Tell, Told
  <2>2. Len(w) \in Nat
    BY <1>6
  <2> QED BY <1>4, <1>11, <2>1, <2>2, AppConstants
<1>25. PageGrown(p, p, {})
  BY <1>6 DEF PageGrown
<1>26. PICK none : none = {}
  OBVIOUS
<1>27. PageGrown(p, p, none) /\ Follow(w, p, e, none)
  BY <1>23, <1>25, <1>26
<1> QED BY <1>6, <1>21, <1>22, <1>23, <1>24, <1>26, <1>27, TurnStepInv

(* Another part of the machine moves.                                      *)
LEMMA AppRests ==
  ASSUME AppInv, UNCHANGED appVars
  PROVE  AppInv'
<1>1. PICK w, p : w = wire /\ p = page
  OBVIOUS
<1>2. UNCHANGED <<rows, checkout, runs, sessions, making, deleting, job>> /\ wire' = w /\ page' = p
  BY <1>1 DEF appVars
<1>3. AppInvAt(w, p)
  BY <1>1 DEF AppInv
<1> QED BY <1>2, <1>3, AppInvThere

LEMMA AppStep ==
  ASSUME AppInv, AppNext \/ UNCHANGED appVars
  PROVE  AppInv'
<1>1. CASE \E k \in RunIds :
             \/ RoundBegins(k) \/ RequestFails(k) \/ RoundEnds(k) \/ CallsEnd(k) \/ CallRuns(k) \/ CommandEnds(k)
             \/ DemoNotes(k)
             \/ \E text \in BOOLEAN, calls \in CallLists : Answered(k, text, calls)
  <2>1. PICK k \in RunIds :
             \/ RoundBegins(k) \/ RequestFails(k) \/ RoundEnds(k) \/ CallsEnd(k) \/ CallRuns(k) \/ CommandEnds(k)
             \/ DemoNotes(k)
             \/ \E text \in BOOLEAN, calls \in CallLists : Answered(k, text, calls)
    BY <1>1
  <2>2. CASE RoundBegins(k)
    BY <2>2, RoundBeginsInv
  <2>3. CASE RequestFails(k)
    BY <2>3, RequestFailsInv
  <2>4. CASE RoundEnds(k)
    BY <2>4, RoundEndsInv
  <2>5. CASE CallsEnd(k)
    BY <2>5, CallsEndInv
  <2>6. CASE CallRuns(k)
    BY <2>6, CallRunsInv
  <2>7. CASE CommandEnds(k)
    BY <2>7, CommandEndsInv
  <2>8. CASE DemoNotes(k)
    BY <2>8, DemoNotesInv
  <2>9. CASE \E text \in BOOLEAN, calls \in CallLists : Answered(k, text, calls)
    BY <2>9, AnsweredInv
  <2> QED BY <2>1, <2>2, <2>3, <2>4, <2>5, <2>6, <2>7, <2>8, <2>9
<1>2. CASE \E demo \in BOOLEAN : \E mode \in Modes, calls \in Script(demo) :
             \/ SendsMore(demo, mode, calls) \/ SendFollows(demo, mode, calls)
             \/ \E t \in AppThreads : AutomationRuns(t, demo, mode, calls)
  BY <1>2, SendsMoreInv, SendFollowsInv, AutomationRunsInv
<1>3. CASE \E j \in {"none", "on"} : JobChanges(j)
  BY <1>3, JobChangesInv
<1>4. CASE \E t \in AppThreads :
             \/ Selects(t) \/ Deletes(t) \/ \E w \in 1..MaxWindows : \/ \E dir \in {"project", "tree"} : WorktreeRemoved(t, w, dir)
                                                                     \/ \E ok \in BOOLEAN : WorktreeAdded(t, w, ok)
             \/ \E tree \in BOOLEAN : SendsFirst(t, tree)
  <2>1. PICK t \in AppThreads :
             \/ Selects(t) \/ Deletes(t) \/ \E w \in 1..MaxWindows : \/ \E dir \in {"project", "tree"} : WorktreeRemoved(t, w, dir)
                                                                     \/ \E ok \in BOOLEAN : WorktreeAdded(t, w, ok)
             \/ \E tree \in BOOLEAN : SendsFirst(t, tree)
    BY <1>4
  <2>2. CASE Selects(t)
    BY <2>2, SelectsInv
  <2>3. CASE Deletes(t)
    BY <2>3, DeletesInv
  <2>4. CASE \E w \in 1..MaxWindows : \E dir \in {"project", "tree"} : WorktreeRemoved(t, w, dir)
    BY <2>4, WorktreeRemovedInv
  <2>5. CASE \E w \in 1..MaxWindows : \E ok \in BOOLEAN : WorktreeAdded(t, w, ok)
    BY <2>5, WorktreeAddedInv
  <2>6. CASE \E tree \in BOOLEAN : SendsFirst(t, tree)
    BY <2>6, SendsFirstInv
  <2> QED BY <2>1, <2>2, <2>3, <2>4, <2>5, <2>6
<1>5. CASE WindowOpens
  BY <1>5, WindowOpensInv
<1>6. CASE WindowAsksRunning
  BY <1>6, WindowAsksInv
<1>7. CASE WindowCloses
  BY <1>7, WindowClosesInv
<1>8. CASE ShowsHome
  BY <1>8, ShowsHomeInv
<1>9. CASE Describes
  BY <1>9, DescribesInv
<1>10. CASE WindowHears
  BY <1>10, WindowHearsInv
<1>11. CASE Stops
  BY <1>11, StopsInv
<1>12. CASE AppStops
  BY <1>12, AppStopsInv
<1>13. CASE \E c \in page.cards, ok \in BOOLEAN : Approves(c, ok)
  BY <1>13, ApprovesInv
<1>14. CASE UNCHANGED appVars
  BY <1>14, AppRests
<1> QED BY <1>1, <1>2, <1>3, <1>4, <1>5, <1>6, <1>7, <1>8, <1>9, <1>10, <1>11, <1>12, <1>13, <1>14 DEF AppNext

(* The invariant says what the run checks.                                 *)
LEMMA AppTypes == AppInv => AppTypeOK
<1> SUFFICES ASSUME AppInv PROVE AppTypeOK
  OBVIOUS
<1>1. PICK w, p : w = wire /\ p = page
  OBVIOUS
<1>2. AppInvAt(w, p)
  BY <1>1 DEF AppInv
<1>3. \A t \in AppThreads : /\ rows[t].state \in {"unused", "here", "gone"} /\ sessions[t] \in 0..MaxAppTurns
                            /\ rows[t].tree \in BOOLEAN /\ rows[t].dir \in {"project", "tree"}
  BY <1>2, AppNow DEF RowRecs
<1>4. \A k \in RunIds : /\ runs[k].pc \in {"none", "top", "fetching", "turning", "calls", "asking", "running", "killed", "over"}
                        /\ runs[k].calls \in Seq(Calls) /\ runs[k].steers \in 0..MaxSteers
  <2> SUFFICES ASSUME NEW k \in RunIds
               PROVE  /\ runs[k].pc \in {"none", "top", "fetching", "turning", "calls", "asking", "running", "killed", "over"}
                      /\ runs[k].calls \in Seq(Calls) /\ runs[k].steers \in 0..MaxSteers
    OBVIOUS
  <2>1. runs[k] \in RunRecs
    BY <1>2, AppNow
  <2>2. runs[k].pc \in AlivePcs \cup {"none", "over"} /\ runs[k].calls \in Seq(Calls) /\ runs[k].steers \in 0..MaxSteers
    BY <2>1, RunIs
  <2> QED BY <2>2 DEF AlivePcs
<1>5. /\ making \subseteq AppThreads \X (1..MaxWindows)
      /\ deleting \subseteq AppThreads \X (1..MaxWindows) \X {"project", "tree"} /\ job \in {"none", "on"}
      /\ checkout \in BOOLEAN
  BY <1>2, AppNow DEF Shapes
<1>6. Len(wire) <= MaxWire /\ page \in Pages
  BY <1>1, <1>2, AppNow
<1>7. /\ page.listed \subseteq AppThreads /\ page.running \subseteq AppThreads /\ page.asks \subseteq AppThreads
      /\ page.pc \in {"closed", "loading", "up"} /\ page.sending \in {"no", "creating", "listing"}
  BY <1>6, PageIs
<1> QED BY <1>3, <1>4, <1>5, <1>6, <1>7 DEF AppTypeOK

LEMMA AppTells == AppInv => WindowTellsTruth
<1> SUFFICES ASSUME AppInv, page.pc = "up", wire = <<>>, ~Waits, ~page.raced
             PROVE  /\ \A t \in {u \in AppThreads : Here(u) /\ ~Leaving(u)} :
                         /\ t \in page.running <=> sessions[t] # 0
                         /\ t \in page.asks => Held(t).pc = "asking" \/ Held(t).stopped
                    /\ \A t \in AppThreads : page.active = t /\ Here(t) /\ ~Leaving(t) =>
                         /\ rows[t].items \subseteq page.shown
                         /\ page.shown \ rows[t].items \subseteq UNION {UnderWay(k) : k \in {j \in RunIds : sessions[t] = j}}
  BY DEF WindowTellsTruth
<1>1. PICK w, p : w = wire /\ p = page
  OBVIOUS
<1>2. AppInvAt(w, p) /\ 1 .. Len(w) = {}
  BY <1>1 DEF AppInv
<1>3. ASSUME NEW t \in AppThreads, Here(t), ~Leaving(t)
      PROVE  /\ Stays(t) /\ (t \in p.running <=> sessions[t] # 0)
             /\ t \in p.asks => Held(t).pc = "asking" \/ Held(t).stopped
  <2>1. Stays(t)
    BY <1>3 DEF Stays, Here
  <2>2. t \in p.running <=> sessions[t] # 0
    BY <1>1, <1>2, <2>1, AppNow DEF MarksInv
  <2>3. t \in p.asks => sessions[t] # 0 /\ (runs[sessions[t]].stopped \/ runs[sessions[t]].pc = "asking")
    BY <1>1, <1>2, <2>1, AppNow DEF AsksInv
  <2> QED BY <2>1, <2>2, <2>3 DEF Held
<1>4. ASSUME NEW t \in AppThreads, p.active = t, Here(t), ~Leaving(t)
      PROVE  /\ rows[t].items \subseteq p.shown
             /\ p.shown \ rows[t].items \subseteq UNION {UnderWay(k) : k \in {j \in RunIds : sessions[t] = j}}
  <2>1. Stays(t)
    BY <1>3, <1>4
  <2>2. p.describing = {} /\ p.sending = "no"
    BY <1>1 DEF Waits
  <2>3. PICK none : none = {} /\ UNION none = none
    OBVIOUS
  <2>4. /\ \A x \in rows[t].items : x \in p.shown \/ x \in UNION p.describing
        /\ p.shown \cup UNION p.describing \subseteq Known(t)
    <3>1. ShownInv(w, p)
      BY <1>2, AppNow
    <3> QED BY <1>1, <1>2, <1>4, <2>1, <2>2, <3>1 DEF ShownInv
  <2>5. rows[t].items \subseteq p.shown /\ p.shown \subseteq Known(t)
    BY <2>2, <2>3, <2>4
  <2>6. ASSUME NEW x \in Known(t), x \notin rows[t].items
        PROVE  x \in UNION {UnderWay(k) : k \in {j \in RunIds : sessions[t] = j}}
    <3>1. sessions[t] # 0 /\ x \in OnWay(sessions[t])
      BY <2>6 DEF Known
    <3>2. PICK k : k = sessions[t]
      OBVIOUS
    <3>3. k \in RunIds /\ x \in UnderWay(k)
      <4>1. k \in RunIds
        BY <1>2, <3>1, <3>2, AppNow
      <4> QED BY <3>1, <3>2, <4>1 DEF OnWay, UnderWay
    <3> QED BY <3>2, <3>3
  <2> QED BY <2>5, <2>6
<1> QED BY <1>1, <1>3, <1>4

-----------------------------------------------------------------------------
(* The machine as a whole.                                                 *)

(* A window that has heard all that was sent and waits for nothing tells   *)
(* what is, for any number of threads, turns, steers, windows and messages *)
(* on their way, and whatever a model asks for: a thread turns in the list *)
(* if it has a turn, a request's mark stands for one that is open or for a *)
(* turn told to stop, and the open thread shows what its row keeps:        *)
(* WindowTellsTruth.                                                       *)
THEOREM WindowTellsTruthHolds == Spec => []WindowTellsTruth
<1>1. Init => AppInv
  BY AppInvInit DEF Init
<1>2. AppInv /\ [Next]_<<part, appVars, adapterVars, deskVars, loginVars, mailVars, recVars, pairVars>> => AppInv'
  <2> SUFFICES ASSUME AppInv, [Next]_<<part, appVars, adapterVars, deskVars, loginVars, mailVars, recVars, pairVars>>
               PROVE  AppInv'
    OBVIOUS
  <2>1. AppNext \/ UNCHANGED appVars
    BY DEF Next
  <2> QED BY <2>1, AppStep
<1>3. AppInv => WindowTellsTruth
  BY AppTells
<1> QED BY <1>1, <1>2, <1>3, PTL DEF Spec

(* Every variable of the machine has its shape, whichever part of it runs, *)
(* for all values of its constants.                                        *)
THEOREM MachineTypesCorrect == Spec => []TypesOK
<1> DEFINE Inv == AppInv /\ AdapterInv /\ DeskInv /\ LoginInv /\ MailInv /\ RecInv /\ PairInv
<1>1. Init => Inv
  BY AppInvInit, AdapterInvInit, DeskInvInit, LoginInvInit, MailInvInit, RecInvInit, PairInvInit DEF Init
<1>2. Inv /\ [Next]_<<part, appVars, adapterVars, deskVars, loginVars, mailVars, recVars, pairVars>> => Inv'
  <2> SUFFICES ASSUME Inv, [Next]_<<part, appVars, adapterVars, deskVars, loginVars, mailVars, recVars, pairVars>>
               PROVE  Inv'
    OBVIOUS
  <2>1. AppNext \/ UNCHANGED appVars
    BY DEF Next
  <2>2. [AdapterNext]_adapterVars /\ [DeskNext]_deskVars /\ [LoginNext]_loginVars
    BY DEF Next
  <2>3. [MailboxNext]_mailVars /\ [RecNext]_recVars /\ [PairNext]_pairVars
    BY DEF Next
  <2>4. AppInv' /\ AdapterInv' /\ DeskInv' /\ LoginInv'
    BY <2>1, <2>2, AppStep, AdapterStep, DeskInvStep, LoginInvStep
  <2> QED BY <2>3, <2>4, MailInvStep, RecInvStep, PairInvStep
<1>3. Inv => TypesOK
  BY AppTypes, AdapterTypes, DeskInvImplies, LoginInvImplies, MailInvImplies, RecInvImplies, PairInvImplies DEF TypesOK
<1> QED BY <1>1, <1>2, <1>3, PTL DEF Spec

=============================================================================
