---------------------------- MODULE MachineProofs -----------------------------
(***************************************************************************)
(* Proofs about a person's own machine: Desktop for any number of          *)
(* processes, devices and wishes, HostPairing for any number of teams,     *)
(* ClientMailbox for any mail and any number of epochs, and OwnerRecovery  *)
(* for any number of stores, epochs and records of the chain.              *)
(***************************************************************************)
EXTENDS MCMachine, SequenceTheorems, FiniteSetTheorems, WellFoundedInduction, TLAPS

-----------------------------------------------------------------------------
(* The least of a set of numbers.                                          *)

LessThan == {z \in Nat \X Nat : z[1] < z[2]}

LEMMA LessThanWellFounded == IsWellFoundedOn(LessThan, Nat)
  BY NatLessThanWellFounded DEF OpToRel, LessThan

(* A set of numbers that is not empty has a least one.                     *)
LEMMA Least ==
  ASSUME NEW S, S \subseteq Nat, S # {}
  PROVE  \E m \in S : \A k \in S : m <= k
<1>1. PICK m \in S : \A k \in S : ~(<<k, m>> \in LessThan)
  BY LessThanWellFounded, WFMin
<1>2. ASSUME NEW k \in S PROVE m <= k
  <2>1. k \in Nat /\ m \in Nat
    OBVIOUS
  <2>2. <<k, m>> \in LessThan <=> k < m
    BY <2>1 DEF LessThan
  <2> QED BY <1>1, <2>1, <2>2
<1> QED BY <1>2


-----------------------------------------------------------------------------
(* Desktop: the shell, its processes, and the question it asks its host.   *)

(* What a process, a function in flight, and the shell are made of.        *)
Pids == 1 .. MaxProcs
Signers == Candidates \cup {NoSigner}
Wishes == Grants \cup {"codex"}
Requests == [kind : {"prepare", "commit"}, who : Candidates, no : 1 .. MaxAsked]
Offers == [no : 0 .. MaxAsked, prior : Signers]
Procs == [pc : {"none", "up", "stopping", "dead"}, kind : {"host", "hub"}, ready : BOOLEAN, busy : BOOLEAN,
          signer : Signers, offer : Offers, mail : Seq(Requests)]
Shells == [host : 0 .. MaxProcs, hub : 0 .. MaxProcs, children : SUBSET Pids, quitting : BOOLEAN, exited : BOOLEAN,
           launch : BOOLEAN, booted : BOOLEAN, page : {"none", "boot", "failed", "app"}, tray : BOOLEAN,
           boots : 0 .. MaxBoots, asked : 0 .. MaxAsked]
Pcs == [s \in Slots |-> IF s \in {"boot", "retry"} THEN {"idle", "hub", "host", "stopping"}
                        ELSE IF s \in Quits THEN {"idle", "plan", "asked", "down"}
                        ELSE IF s = "fresh" THEN {"idle", "prepare", "dialog", "commit", "stopping", "ready"}
                        ELSE {"idle", "dialog", "checking", "stopping"}]
AllPcs == {"idle", "hub", "host", "stopping", "plan", "asked", "down", "prepare", "dialog", "commit", "ready", "checking"}
Jobs == [pc : AllPcs, child : 0 .. MaxProcs, left : Seq(Pids), read : SUBSET (Pids \cup Wishes),
         who : Signers, no : 0 .. MaxAsked, reply : {"none", "ok", "no"}]
DeskShapes ==
  /\ shell \in Shells /\ procs \in [Pids -> Procs] /\ jobs \in [Slots -> Jobs]
  /\ \A s \in Slots : jobs[s].pc \in Pcs[s]
  /\ jobs["codex"].read \subseteq Wishes /\ config \subseteq Wishes
  /\ signer \in Signers /\ agreed \subseteq Candidates

(* A process that was not told to end is the shell's, or one it goes on    *)
(* to.  Only one function shuts down.                                      *)
Later(s) == {jobs[s].left[i] : i \in 2 .. Len(jobs[s].left)}
UpInv ==
  /\ \A p \in Pids : procs[p].pc = "up" =>
       ~shell.exited /\ (p \in shell.children \/ \E s \in Quits : jobs[s].pc = "down" /\ p \in Later(s))
  /\ \A s \in Quits : jobs[s].pc = "down" => shell.quitting /\ \A r \in Quits : jobs[r].pc = "down" => r = s
  /\ shell.exited => shell.quitting
  /\ shell.boots = 0 => shell.page = "none" /\ ~shell.quitting /\ \A s \in Quits : jobs[s].pc = "idle"

(* A message is of a request that was made, an order of one agreed to.  No *)
(* order is older than the question it follows.                            *)
PostInv ==
  /\ \A p \in Pids : Len(procs[p].mail) <= 2 /\ procs[p].offer.prior \in agreed \cup {NoSigner}
  /\ \A p \in Pids : \A i \in 1 .. Len(procs[p].mail) :
       procs[p].mail[i].no <= shell.asked /\ (procs[p].mail[i].kind = "commit" => procs[p].mail[i].who \in agreed)
  /\ \A p, q \in Pids : \A i \in 1 .. Len(procs[p].mail), j \in 1 .. Len(procs[q].mail) :
       procs[p].mail[i].kind = "prepare" /\ procs[q].mail[j].kind = "commit" => procs[p].mail[i].no # procs[q].mail[j].no

(* The request under way is the last its host was sent, and unanswered.  A *)
(* late order of an earlier one cannot replace the signer this one set:    *)
(* its proposal remembers another.                                         *)
Fresh == jobs["fresh"]
OneInv ==
  /\ Fresh.pc # "idle" => Fresh.no \in 1 .. shell.asked /\ Fresh.who \in Candidates
  /\ Fresh.reply # "none" => Fresh.pc \in {"prepare", "commit"}
  /\ \A p \in Pids : \A i \in 1 .. Len(procs[p].mail) : Fresh.pc # "idle" /\ procs[p].mail[i].no = Fresh.no =>
       /\ Fresh.pc = procs[p].mail[i].kind /\ Fresh.reply = "none" /\ Fresh.child = p /\ Fresh.who = procs[p].mail[i].who
       /\ i = Len(procs[p].mail)
  /\ \A p \in Pids : Fresh.pc # "idle" /\ Fresh.child = p => procs[p].pc # "none"
  /\ \A p \in Pids : Fresh.child = p /\ (Fresh.pc = "dialog" \/ (Fresh.pc = "prepare" /\ Fresh.reply # "none")) => procs[p].mail = <<>>
  /\ \A p \in Pids : \A i \in 1 .. Len(procs[p].mail) :
       Fresh.pc # "idle" /\ procs[p].mail[i].kind = "commit" /\ procs[p].mail[i].no # Fresh.no
       /\ procs[p].offer.no = procs[p].mail[i].no => procs[p].offer.prior # Fresh.who

(* What is set is what was agreed to, and what is used is what was set.    *)
SignerInv ==
  /\ signer \in agreed \cup {NoSigner}
  /\ Fresh.pc \in {"commit", "stopping", "ready"} => Fresh.who \in agreed
  /\ (Fresh.pc = "commit" /\ Fresh.reply = "ok") \/ Fresh.pc = "stopping" => signer = Fresh.who
  /\ \A p \in Pids : Fresh.pc = "ready" /\ Fresh.child = p /\ procs[p].pc \in {"up", "stopping"} => procs[p].signer = Fresh.who
  /\ \A t \in told : t.who \in agreed /\ t.used = t.who

DeskInv == DeskShapes /\ UpInv /\ PostInv /\ OneInv /\ SignerInv

LEMMA DeskConstants ==
  /\ NoSigner \notin Candidates /\ MaxProcs \in Nat /\ MaxBoots \in Nat /\ MaxAsked \in Nat
  /\ Grants \cap {"boot", "retry", "codex", "fresh", "quit", "again"} = {}
  BY DesktopAssumption

LEMMA ShellIs ==
  ASSUME NEW sh \in Shells
  PROVE  /\ sh = [host |-> sh.host, hub |-> sh.hub, children |-> sh.children, quitting |-> sh.quitting,
                  exited |-> sh.exited, launch |-> sh.launch, booted |-> sh.booted, page |-> sh.page,
                  tray |-> sh.tray, boots |-> sh.boots, asked |-> sh.asked]
         /\ sh.host \in 0 .. MaxProcs /\ sh.hub \in 0 .. MaxProcs /\ sh.children \subseteq Pids
         /\ sh.quitting \in BOOLEAN /\ sh.exited \in BOOLEAN /\ sh.launch \in BOOLEAN /\ sh.booted \in BOOLEAN
         /\ sh.tray \in BOOLEAN /\ sh.page \in {"none", "boot", "failed", "app"}
         /\ sh.boots \in 0 .. MaxBoots /\ sh.asked \in 0 .. MaxAsked
  BY DEF Shells

LEMMA ProcIs ==
  ASSUME NEW q \in Procs
  PROVE  /\ q = [pc |-> q.pc, kind |-> q.kind, ready |-> q.ready, busy |-> q.busy, signer |-> q.signer,
                 offer |-> q.offer, mail |-> q.mail]
         /\ q.pc \in {"none", "up", "stopping", "dead"} /\ q.kind \in {"host", "hub"} /\ q.ready \in BOOLEAN
         /\ q.busy \in BOOLEAN /\ q.signer \in Signers /\ q.offer \in Offers /\ q.mail \in Seq(Requests)
  BY DEF Procs

LEMMA JobIs ==
  ASSUME NEW j \in Jobs
  PROVE  /\ j = [pc |-> j.pc, child |-> j.child, left |-> j.left, read |-> j.read, who |-> j.who, no |-> j.no,
                 reply |-> j.reply]
         /\ j.pc \in AllPcs /\ j.child \in 0 .. MaxProcs /\ j.left \in Seq(Pids) /\ j.read \subseteq Pids \cup Wishes
         /\ j.who \in Signers /\ j.no \in 0 .. MaxAsked /\ j.reply \in {"none", "ok", "no"}
  BY DEF Jobs

LEMMA SlotFacts ==
  /\ {"boot", "retry", "codex", "fresh", "quit", "again"} \cup Grants = Slots
  /\ Pcs["boot"] = {"idle", "hub", "host", "stopping"} /\ Pcs["retry"] = {"idle", "hub", "host", "stopping"}
  /\ \A s \in Quits : s \in Slots /\ Pcs[s] = {"idle", "plan", "asked", "down"} /\ s \notin Grants \cup {"boot", "retry", "codex", "fresh"}
  /\ Pcs["fresh"] = {"idle", "prepare", "dialog", "commit", "stopping", "ready"}
  /\ \A s \in Wishes : s \in Slots /\ Pcs[s] = {"idle", "dialog", "checking", "stopping"} /\ s \notin Quits /\ s \notin {"boot", "retry", "fresh"}
  /\ \A s \in Slots : Pcs[s] \subseteq AllPcs /\ "idle" \in Pcs[s]
<1>1. {"boot", "retry", "codex", "fresh", "quit", "again"} \cup Grants = Slots
  BY DEF Slots, Quits
<1>2. \A s \in Slots : Pcs[s] = IF s \in {"boot", "retry"} THEN {"idle", "hub", "host", "stopping"}
                        ELSE IF s \in Quits THEN {"idle", "plan", "asked", "down"}
                        ELSE IF s = "fresh" THEN {"idle", "prepare", "dialog", "commit", "stopping", "ready"}
                        ELSE {"idle", "dialog", "checking", "stopping"}
  BY DEF Pcs
<1>3. \A s \in Slots : Pcs[s] \subseteq AllPcs /\ "idle" \in Pcs[s]
  BY <1>2 DEF AllPcs
<1>4. Pcs["boot"] = {"idle", "hub", "host", "stopping"} /\ Pcs["retry"] = {"idle", "hub", "host", "stopping"}
  BY <1>1, <1>2
<1>5. \A s \in Quits : s \in Slots /\ Pcs[s] = {"idle", "plan", "asked", "down"} /\ s \notin Grants \cup {"boot", "retry", "codex", "fresh"}
  BY <1>1, <1>2, DeskConstants DEF Quits
<1>6. Pcs["fresh"] = {"idle", "prepare", "dialog", "commit", "stopping", "ready"}
  BY <1>1, <1>2 DEF Quits
<1>7. \A s \in Wishes : s \in Slots /\ Pcs[s] = {"idle", "dialog", "checking", "stopping"} /\ s \notin Quits /\ s \notin {"boot", "retry", "fresh"}
  BY <1>1, <1>2, DeskConstants DEF Quits, Wishes
<1> QED BY <1>1, <1>3, <1>4, <1>5, <1>6, <1>7

LEMMA NothingIs ==
  /\ NoJob \in Jobs /\ NoJob.pc = "idle" /\ NoJob.reply = "none" /\ NoJob.read = {} /\ NoJob.no = 0
  /\ NoJob = [pc |-> NoJob.pc, child |-> NoJob.child, left |-> NoJob.left, read |-> NoJob.read,
              who |-> NoJob.who, no |-> NoJob.no, reply |-> NoJob.reply]
  /\ NoProc \in Procs /\ NoProc.pc = "none" /\ NoProc.mail = <<>> /\ NoProc.offer = NoOffer
  /\ NoProc = [pc |-> NoProc.pc, kind |-> NoProc.kind, ready |-> NoProc.ready, busy |-> NoProc.busy,
               signer |-> NoProc.signer, offer |-> NoProc.offer, mail |-> NoProc.mail]
  /\ NoOffer \in Offers /\ NoOffer.prior = NoSigner /\ NoOffer.no = 0 /\ NoSigner \in Signers
<1>1. NoOffer \in Offers /\ NoOffer.prior = NoSigner /\ NoOffer.no = 0 /\ NoSigner \in Signers
  BY DeskConstants DEF NoOffer, Offers, Signers
<1>2. /\ NoJob.pc = "idle" /\ NoJob.reply = "none" /\ NoJob.read = {} /\ NoJob.no = 0
      /\ NoJob = [pc |-> NoJob.pc, child |-> NoJob.child, left |-> NoJob.left, read |-> NoJob.read,
                  who |-> NoJob.who, no |-> NoJob.no, reply |-> NoJob.reply]
  BY DEF NoJob
<1>3. NoJob \in Jobs
  <2>1. "idle" \in AllPcs /\ 0 \in 0 .. MaxProcs /\ 0 \in 0 .. MaxAsked /\ <<>> \in Seq(Pids)
    BY DeskConstants DEF AllPcs
  <2> QED BY <1>1, <2>1 DEF NoJob, Jobs
<1>4. /\ NoProc.pc = "none" /\ NoProc.mail = <<>> /\ NoProc.offer = NoOffer
      /\ NoProc = [pc |-> NoProc.pc, kind |-> NoProc.kind, ready |-> NoProc.ready, busy |-> NoProc.busy,
                   signer |-> NoProc.signer, offer |-> NoProc.offer, mail |-> NoProc.mail]
  BY DEF NoProc
<1>5. NoProc \in Procs
  <2>1. <<>> \in Seq(Requests)
    OBVIOUS
  <2> QED BY <1>1, <2>1 DEF NoProc, Procs
<1> QED BY <1>1, <1>2, <1>3, <1>4, <1>5

LEMMA DeskNow ==
  ASSUME DeskShapes
  PROVE  /\ shell \in Shells /\ procs \in [Pids -> Procs] /\ jobs \in [Slots -> Jobs]
         /\ \A p \in Pids : procs[p] \in Procs
         /\ \A s \in Slots : jobs[s] \in Jobs /\ jobs[s].pc \in Pcs[s]
         /\ jobs["codex"].read \subseteq Wishes /\ config \subseteq Wishes
         /\ signer \in Signers /\ agreed \subseteq Candidates
  BY DEF DeskShapes

(* One function moves on.                                                  *)
LEMMA JobSet ==
  ASSUME DeskShapes, NEW s \in Slots, NEW j \in Jobs, j.pc \in Pcs[s],
         jobs' = [jobs EXCEPT ![s] = j]
  PROVE  /\ jobs' \in [Slots -> Jobs] /\ (\A t \in Slots : jobs'[t].pc \in Pcs[t])
         /\ jobs'[s] = j /\ \A t \in Slots : t # s => jobs'[t] = jobs[t]
<1>1. jobs \in [Slots -> Jobs] /\ \A t \in Slots : jobs[t].pc \in Pcs[t]
  BY DeskNow
<1>2. jobs' = [t \in Slots |-> IF t = s THEN j ELSE jobs[t]]
  BY <1>1
<1> QED BY <1>1, <1>2

LEMMA NowIs ==
  ASSUME DeskShapes, NEW s \in Slots, NEW pc \in Pcs[s]
  PROVE  \E j \in Jobs : /\ Now(s, pc) = [jobs EXCEPT ![s] = j] /\ j.pc = pc
                         /\ j = [pc |-> pc, child |-> jobs[s].child, left |-> jobs[s].left,
                                 read |-> jobs[s].read, who |-> jobs[s].who, no |-> jobs[s].no,
                                 reply |-> jobs[s].reply]
<1> DEFINE j == [pc |-> pc, child |-> jobs[s].child, left |-> jobs[s].left, read |-> jobs[s].read,
                 who |-> jobs[s].who, no |-> jobs[s].no, reply |-> jobs[s].reply]
<1>1. jobs \in [Slots -> Jobs] /\ jobs[s] \in Jobs
  BY DeskNow
<1>2. jobs[s] = [pc |-> jobs[s].pc, child |-> jobs[s].child, left |-> jobs[s].left, read |-> jobs[s].read,
                 who |-> jobs[s].who, no |-> jobs[s].no, reply |-> jobs[s].reply]
  BY <1>1, JobIs
<1>3. [jobs[s] EXCEPT !.pc = pc] = j
  BY <1>2
<1>4. Now(s, pc) = [jobs EXCEPT ![s] = [jobs[s] EXCEPT !.pc = pc]]
  BY <1>1 DEF Now
<1>5. j \in Jobs
  <2>1. pc \in AllPcs
    BY SlotFacts
  <2> QED BY <1>1, <2>1, JobIs DEF Jobs
<1> HIDE DEF j
<1>6. Now(s, pc) = [jobs EXCEPT ![s] = j]
  BY <1>3, <1>4
<1> QED BY <1>5, <1>6 DEF j

LEMMA ProcSet ==
  ASSUME DeskShapes, NEW p \in Pids, NEW q \in Procs, procs' = [procs EXCEPT ![p] = q]
  PROVE  procs' \in [Pids -> Procs] /\ procs'[p] = q /\ \A r \in Pids : r # p => procs'[r] = procs[r]
<1>1. procs \in [Pids -> Procs]
  BY DeskNow
<1>2. procs' = [r \in Pids |-> IF r = p THEN q ELSE procs[r]]
  BY <1>1
<1> QED BY <1>1, <1>2

LEMMA ToldIs ==
  ASSUME DeskShapes, NEW Stopped, procs' = ToldToStop(procs, Stopped)
  PROVE  /\ procs' \in [Pids -> Procs]
         /\ \A p \in Pids : /\ procs'[p].mail = procs[p].mail /\ procs'[p].offer = procs[p].offer
                            /\ procs'[p].signer = procs[p].signer
                            /\ procs'[p].pc = IF p \in Stopped /\ procs[p].pc = "up" THEN "stopping" ELSE procs[p].pc
<1>1. procs \in [Pids -> Procs] /\ procs' = [p \in Pids |-> IF p \in Stopped /\ procs[p].pc = "up"
                                                            THEN [procs[p] EXCEPT !.pc = "stopping"] ELSE procs[p]]
  BY DeskNow DEF ToldToStop, Pids
<1>2. ASSUME NEW p \in Pids
      PROVE  /\ procs'[p] \in Procs
             /\ procs'[p].mail = procs[p].mail /\ procs'[p].offer = procs[p].offer /\ procs'[p].signer = procs[p].signer
             /\ procs'[p].pc = IF p \in Stopped /\ procs[p].pc = "up" THEN "stopping" ELSE procs[p].pc
  <2>1. CASE p \in Stopped /\ procs[p].pc = "up"
    <3>1. PICK q : q = [pc |-> "stopping", kind |-> procs[p].kind, ready |-> procs[p].ready,
                        busy |-> procs[p].busy, signer |-> procs[p].signer, offer |-> procs[p].offer,
                        mail |-> procs[p].mail]
      OBVIOUS
    <3>2. procs[p] = [pc |-> procs[p].pc, kind |-> procs[p].kind, ready |-> procs[p].ready,
                      busy |-> procs[p].busy, signer |-> procs[p].signer, offer |-> procs[p].offer,
                      mail |-> procs[p].mail]
      BY <1>1, ProcIs
    <3>3. procs'[p] = q
      <4>1. procs'[p] = [procs[p] EXCEPT !.pc = "stopping"]
        BY <1>1, <2>1
      <4>2. [procs[p] EXCEPT !.pc = "stopping"] = q
        BY <3>1, <3>2
      <4> QED BY <4>1, <4>2
    <3>4. q \in Procs
      <4>1. procs[p] \in Procs
        BY <1>1
      <4>2. procs[p].kind \in {"host", "hub"} /\ procs[p].ready \in BOOLEAN /\ procs[p].busy \in BOOLEAN
            /\ procs[p].signer \in Signers /\ procs[p].offer \in Offers /\ procs[p].mail \in Seq(Requests)
        BY <4>1, ProcIs
      <4> QED BY <3>1, <4>2 DEF Procs
    <3> QED BY <2>1, <3>1, <3>3, <3>4
  <2>2. CASE ~(p \in Stopped /\ procs[p].pc = "up")
    BY <1>1, <2>2
  <2> QED BY <2>1, <2>2
<1>3. procs' \in [Pids -> Procs]
  <2>1. procs' = [p \in Pids |-> procs'[p]]
    BY <1>1
  <2> QED BY <1>2, <2>1
<1> QED BY <1>2, <1>3

(* A finite set of numbers can be put in order, and an ordering leaves     *)
(* nobody out.                                                             *)
Sorted(q) == \A i, j \in DOMAIN q : i < j => q[i] < q[j]

LEMMA PidsAreNat == Pids \subseteq Nat \ {0}
  BY DeskConstants DEF Pids

LEMMA PidsFinite ==
  ASSUME NEW T \in SUBSET Pids
  PROVE  IsFiniteSet(T) /\ Cardinality(T) \in Nat
<1>1. IsFiniteSet(Pids)
  BY DeskConstants, FS_Interval DEF Pids
<1>2. IsFiniteSet(T)
  BY <1>1, FS_Subset
<1> QED BY <1>2, FS_CardinalityType

LEMMA LastOf ==
  ASSUME NEW T \in SUBSET Pids, T # {}
  PROVE  \E x \in T : \A k \in T : k <= x
<1> DEFINE D == {MaxProcs - k : k \in T}
<1>1. \A k \in T : k \in Nat /\ MaxProcs - k \in Nat
  BY DeskConstants DEF Pids
<1>2. D \subseteq Nat /\ D # {}
  BY <1>1
<1>3. PICK d \in D : \A e \in D : d <= e
  <2> HIDE DEF D
  <2> QED BY <1>2, Least
<1>4. PICK x \in T : d = MaxProcs - x
  OBVIOUS
<1>5. ASSUME NEW k \in T PROVE k <= x
  <2>1. d <= MaxProcs - k
    BY <1>3
  <2> QED BY <1>1, <1>4, <2>1, DeskConstants
<1> QED BY <1>5

LEMMA OrderExists ==
  ASSUME NEW T \in SUBSET Pids
  PROVE  \E q \in [1 .. Cardinality(T) -> T] : Sorted(q)
<1> DEFINE Unsorted(U) == ~\E q \in [1 .. Cardinality(U) -> U] : Sorted(q)
           Bad == {m \in Nat : \E U \in SUBSET Pids : Cardinality(U) = m /\ Unsorted(U)}
<1>1. SUFFICES ASSUME Unsorted(T) PROVE FALSE
  OBVIOUS
<1>2. Bad \subseteq Nat /\ Bad # {}
  <2>1. Cardinality(T) \in Bad
    BY <1>1, PidsFinite
  <2> QED BY <2>1
<1>3. PICK m \in Bad : \A k \in Bad : m <= k
  <2> HIDE DEF Bad
  <2> QED BY <1>2, Least
<1>4. PICK U \in SUBSET Pids : Cardinality(U) = m /\ Unsorted(U)
  OBVIOUS
<1>5. m \in Nat /\ IsFiniteSet(U)
  BY <1>4, PidsFinite
<1>6. U # {}
  <2>1. ASSUME U = {} PROVE FALSE
    <3>1. m = 0
      BY <1>4, <2>1, FS_EmptySet
    <3>2. PICK q : q = [i \in 1 .. 0 |-> i]
      OBVIOUS
    <3>3. q \in [1 .. m -> U] /\ Sorted(q)
      BY <3>1, <3>2 DEF Sorted
    <3> QED BY <1>4, <3>3
  <2> QED BY <2>1
<1>7. PICK x \in U : \A k \in U : k <= x
  BY <1>6, LastOf
<1> DEFINE V == U \ {x}
<1>8. Cardinality(V) = m - 1 /\ V \in SUBSET Pids
  BY <1>4, <1>5, FS_RemoveElement
<1>9. Cardinality(V) \in Nat
  BY <1>8, PidsFinite
<1>10. Cardinality(V) \notin Bad
  <2>1. Cardinality(V) = m - 1 /\ \A k \in Bad : m <= k
    BY <1>3, <1>8
  <2>2. ~(m <= m - 1)
    BY <1>5
  <2> HIDE DEF Bad, V
  <2> QED BY <2>1, <2>2
<1>11. ~Unsorted(V)
  BY <1>8, <1>9, <1>10
<1>12. PICK q \in [1 .. m - 1 -> V] : Sorted(q)
  BY <1>8, <1>11
<1>13. PICK r : r = [i \in 1 .. m |-> IF i = m THEN x ELSE q[i]]
  OBVIOUS
<1>14. \A i \in 1 .. m : i # m => i \in 1 .. m - 1 /\ q[i] \in V
  BY <1>5, <1>12
<1>15. r \in [1 .. m -> U]
  BY <1>13, <1>14
<1>16. Sorted(r)
  <2> SUFFICES ASSUME NEW i \in 1 .. m, NEW j \in 1 .. m, i < j PROVE r[i] < r[j]
    BY <1>13 DEF Sorted
  <2>1. i # m /\ i \in 1 .. m - 1 /\ r[i] = q[i] /\ q[i] \in V
    BY <1>5, <1>13, <1>14
  <2>2. CASE j = m
    <3>1. q[i] \in U /\ q[i] # x /\ r[j] = x
      BY <1>13, <2>1, <2>2
    <3>2. q[i] \in Nat /\ x \in Nat /\ q[i] <= x
      BY <1>7, <3>1, PidsAreNat
    <3> QED BY <2>1, <3>1, <3>2
  <2>3. CASE j # m
    BY <1>12, <1>13, <1>14, <2>1, <2>3 DEF Sorted
  <2> QED BY <2>2, <2>3
<1> QED BY <1>4, <1>15, <1>16

LEMMA OrderIs ==
  ASSUME NEW T \in SUBSET Pids
  PROVE  /\ Order(T) \in Seq(Pids)
         /\ \A p \in T : \E i \in 1 .. Len(Order(T)) : Order(T)[i] = p
<1> DEFINE n == Cardinality(T)
           q == Order(T)
<1>1. n \in Nat /\ IsFiniteSet(T)
  BY PidsFinite
<1>2. q \in [1 .. n -> T] /\ Sorted(q)
  <2>1. \E r \in [1 .. n -> T] : Sorted(r)
    BY OrderExists
  <2> HIDE DEF n
  <2>2. q = CHOOSE r \in [1 .. n -> T] : Sorted(r)
    BY DEF Order, Sorted, n
  <2> QED BY <2>1, <2>2
<1> HIDE DEF n, q
<1>3. q \in Injection(1 .. n, T)
  <2>1. \A i, j \in 1 .. n : q[i] = q[j] => i = j
    <3> SUFFICES ASSUME NEW i \in 1 .. n, NEW j \in 1 .. n, q[i] = q[j], i # j PROVE FALSE
      OBVIOUS
    <3>1. i < j \/ j < i
      BY <1>1
    <3>2. q[i] < q[j] \/ q[j] < q[i]
      BY <1>2, <3>1 DEF Sorted
    <3>3. q[i] \in T
      BY <1>2
    <3>4. q[i] \in Nat
      BY <3>3, PidsAreNat
    <3> QED BY <3>2, <3>4
  <2> QED BY <1>2, <2>1 DEF Injection, IsInjective
<1>4. Cardinality(1 .. n) = n
  BY <1>1, FS_Interval
<1>5. q \in Surjection(1 .. n, T)
  BY <1>1, <1>3, <1>4, FS_Injection DEF n
<1>6. q \in Seq(Pids) /\ Len(q) = n
  BY <1>1, <1>2
<1>7. \A p \in T : \E i \in 1 .. n : q[i] = p
  BY <1>5 DEF Surjection
<1> QED BY <1>6, <1>7 DEF q

LEMMA NewPidIs ==
  ASSUME NEW ps, Free(ps) # {}
  PROVE  NewPid(ps) \in Pids /\ ps[NewPid(ps)].pc = "none"
<1>1. Free(ps) \subseteq Nat
  BY DEF Free
<1>2. \E p \in Free(ps) : \A q \in Free(ps) : p <= q
  BY <1>1, Least
<1>3. NewPid(ps) \in Free(ps)
  BY <1>2 DEF NewPid
<1> QED BY <1>3 DEF Free, Pids

(* A process more.                                                         *)
Started(ps, p, kind) == [ps EXCEPT ![p] = [NoProc EXCEPT !.pc = "up", !.kind = kind, !.signer = signer]]
LEMMA StartedIs ==
  ASSUME DeskShapes, NEW p \in Pids, NEW kind \in {"host", "hub"}
  PROVE  /\ Started(procs, p, kind) \in [Pids -> Procs]
         /\ Started(procs, p, kind)[p].pc = "up" /\ Started(procs, p, kind)[p].mail = <<>>
         /\ Started(procs, p, kind)[p].offer = NoOffer /\ Started(procs, p, kind)[p].signer = signer
         /\ \A r \in Pids : r # p => Started(procs, p, kind)[r] = procs[r]
<1>1. PICK q : q = [NoProc EXCEPT !.pc = "up", !.kind = kind, !.signer = signer]
  OBVIOUS
<1>2. q = [pc |-> "up", kind |-> kind, ready |-> NoProc.ready, busy |-> NoProc.busy, signer |-> signer,
           offer |-> NoProc.offer, mail |-> NoProc.mail]
  BY <1>1, NothingIs
<1>0. q \in Procs
  <2>1. NoProc.ready \in BOOLEAN /\ NoProc.busy \in BOOLEAN /\ NoProc.offer \in Offers /\ NoProc.mail \in Seq(Requests)
    BY NothingIs, ProcIs
  <2> QED BY <1>2, <2>1, DeskNow DEF Procs
<1>3. procs \in [Pids -> Procs]
  BY DeskNow
<1>4. Started(procs, p, kind) = [r \in Pids |-> IF r = p THEN q ELSE procs[r]]
  BY <1>1, <1>3 DEF Started
<1> QED BY <1>0, <1>2, <1>3, <1>4, NothingIs

LEMMA SpawnedIs ==
  ASSUME NEW sh \in Shells, NEW kind \in {"host", "hub"}, DeskShapes, Free(procs) # {}
  PROVE  \E p \in Pids, s2 \in Shells :
           /\ procs[p].pc = "none"
           /\ Spawned(sh, procs, kind).sh = s2 /\ Spawned(sh, procs, kind).ps = Started(procs, p, kind)
           /\ s2.children = sh.children \cup {p} /\ s2.host = (IF kind = "host" THEN p ELSE sh.host)
           /\ s2.quitting = sh.quitting /\ s2.exited = sh.exited /\ s2.launch = sh.launch /\ s2.booted = sh.booted
           /\ s2.page = sh.page /\ s2.boots = sh.boots /\ s2.asked = sh.asked
<1> DEFINE p == NewPid(procs)
<1>1. p \in Pids /\ procs[p].pc = "none"
  BY NewPidIs
<1>2. PICK s2 : s2 = Spawned(sh, procs, kind).sh
  OBVIOUS
<1>3. s2 = [sh EXCEPT !.children = sh.children \cup {p}, !.host = IF kind = "host" THEN p ELSE sh.host,
                      !.hub = IF kind = "hub" THEN p ELSE sh.hub]
      /\ Spawned(sh, procs, kind).ps = Started(procs, p, kind)
  BY <1>2 DEF Spawned, Started
<1> HIDE DEF p
<1>4. s2 = [host |-> (IF kind = "host" THEN p ELSE sh.host), hub |-> (IF kind = "hub" THEN p ELSE sh.hub),
            children |-> sh.children \cup {p}, quitting |-> sh.quitting, exited |-> sh.exited,
            launch |-> sh.launch, booted |-> sh.booted, page |-> sh.page, tray |-> sh.tray, boots |-> sh.boots,
            asked |-> sh.asked]
  <2>1. sh = [host |-> sh.host, hub |-> sh.hub, children |-> sh.children, quitting |-> sh.quitting,
              exited |-> sh.exited, launch |-> sh.launch, booted |-> sh.booted, page |-> sh.page,
              tray |-> sh.tray, boots |-> sh.boots, asked |-> sh.asked]
    BY ShellIs
  <2> QED BY <1>3, <2>1
<1>5. s2 \in Shells
  <2>1. (IF kind = "host" THEN p ELSE sh.host) \in 0 .. MaxProcs /\ (IF kind = "hub" THEN p ELSE sh.hub) \in 0 .. MaxProcs
    BY <1>1, ShellIs, DeskConstants DEF Pids
  <2>2. sh.children \cup {p} \subseteq Pids
    BY <1>1, ShellIs
  <2> QED BY <1>4, <2>1, <2>2, ShellIs DEF Shells
<1> QED BY <1>1, <1>2, <1>3, <1>4, <1>5

(* What a step does to the processes that is not the host's business, and  *)
(* what it may do to those that were not told to end.                      *)
ProcsQuiet(ps) ==
  /\ ps \in [Pids -> Procs]
  /\ \A p \in Pids :
       \/ /\ ps[p].mail = procs[p].mail /\ ps[p].offer = procs[p].offer /\ ps[p].signer = procs[p].signer
          /\ ps[p].pc = procs[p].pc \/ (procs[p].pc = "up" /\ ps[p].pc = "stopping")
       \/ ps[p].mail = <<>> /\ ps[p].offer = NoOffer /\ (ps[p].pc = "dead" \/ (procs[p].pc = "none" /\ ps[p].pc = "up"))
Owned(ps, sh) ==
  \A p \in Pids : ps[p].pc = "up" =>
    (procs[p].pc = "up" /\ (p \in shell.children => p \in sh.children)) \/ (p \in sh.children /\ ~sh.exited)

LEMMA SameIsQuiet ==
  ASSUME DeskShapes
  PROVE  ProcsQuiet(procs) /\ \A sh : shell.children \subseteq sh.children => Owned(procs, sh)
  BY DeskNow DEF ProcsQuiet, Owned

LEMMA ToldIsQuiet ==
  ASSUME DeskShapes, NEW Stopped, procs' = ToldToStop(procs, Stopped)
  PROVE  ProcsQuiet(procs') /\ \A sh : shell.children \subseteq sh.children \cup Stopped => Owned(procs', sh)
<1>1. \A p \in Pids : /\ procs'[p].mail = procs[p].mail /\ procs'[p].offer = procs[p].offer
                      /\ procs'[p].signer = procs[p].signer
                      /\ procs'[p].pc = IF p \in Stopped /\ procs[p].pc = "up" THEN "stopping" ELSE procs[p].pc
  BY ToldIs
<1>2. ProcsQuiet(procs')
  BY <1>1, ToldIs DEF ProcsQuiet
<1>3. \A sh : shell.children \subseteq sh.children \cup Stopped => Owned(procs', sh)
  BY <1>1 DEF Owned
<1> QED BY <1>2, <1>3

LEMMA StartedIsQuiet ==
  ASSUME DeskShapes, NEW p \in Pids, procs[p].pc = "none", NEW kind \in {"host", "hub"}, procs' = Started(procs, p, kind),
         NEW sh, ~sh.exited, shell.children \cup {p} \subseteq sh.children
  PROVE  ProcsQuiet(procs') /\ Owned(procs', sh)
<1>1. /\ procs' \in [Pids -> Procs] /\ procs'[p].pc = "up" /\ procs'[p].mail = <<>> /\ procs'[p].offer = NoOffer
      /\ \A r \in Pids : r # p => procs'[r] = procs[r]
  BY StartedIs
<1> QED BY <1>1 DEF ProcsQuiet, Owned

LEMMA MailIs ==
  ASSUME DeskShapes, NEW p \in Pids, NEW i \in 1 .. Len(procs[p].mail)
  PROVE  /\ procs[p].mail \in Seq(Requests) /\ procs[p].mail[i] \in Requests
         /\ procs[p].mail[i].no \in 1 .. MaxAsked /\ procs[p].mail[i].who \in Candidates
         /\ procs[p].mail[i].kind \in {"prepare", "commit"} /\ procs[p].mail[i].no \in Nat
<1>1. procs[p].mail \in Seq(Requests)
  BY DeskNow, ProcIs
<1>2. procs[p].mail[i] \in Requests
  BY <1>1, ElementOfSeq
<1> QED BY <1>1, <1>2, DeskConstants DEF Requests

LEMMA PostQuiet ==
  ASSUME DeskInv, ProcsQuiet(procs'), UNCHANGED agreed, shell'.asked \in Int, shell.asked <= shell'.asked
  PROVE  PostInv'
<1>1. /\ \A p \in Pids : \/ procs'[p].mail = procs[p].mail /\ procs'[p].offer = procs[p].offer
                         \/ procs'[p].mail = <<>> /\ procs'[p].offer = NoOffer
      /\ \A p \in Pids : procs'[p].pc \in {"up", "stopping"} /\ procs[p].pc # "none" => 
                           procs[p].pc \in {"up", "stopping"} /\ procs'[p].signer = procs[p].signer
      /\ \A p \in Pids : procs'[p].pc = "none" => procs[p].pc = "none"
  BY DEF ProcsQuiet
<1>2. Len(<<>>) = 0 /\ NoOffer.prior = NoSigner
  BY NothingIs
<1>3. /\ \A p \in Pids : \A i \in 1 .. Len(procs'[p].mail) :
           procs'[p].mail = procs[p].mail /\ procs'[p].offer = procs[p].offer /\ i \in 1 .. Len(procs[p].mail)
  <2> SUFFICES ASSUME NEW p \in Pids, NEW i \in 1 .. Len(procs'[p].mail)
               PROVE  procs'[p].mail = procs[p].mail /\ procs'[p].offer = procs[p].offer /\ i \in 1 .. Len(procs[p].mail)
    OBVIOUS
  <2>1. procs'[p].mail # <<>>
    BY <1>2
  <2> QED BY <1>1, <2>1
<1>4. shell.asked \in Int
  BY ShellIs, DeskNow DEF DeskInv
<1>5. \A p \in Pids : Len(procs'[p].mail) <= 2 /\ procs'[p].offer.prior \in agreed \cup {NoSigner}
  BY <1>1, <1>2 DEF DeskInv, PostInv
<1>6. \A p \in Pids : \A i \in 1 .. Len(procs'[p].mail) :
        procs'[p].mail[i].no <= shell'.asked /\ (procs'[p].mail[i].kind = "commit" => procs'[p].mail[i].who \in agreed)
  <2> SUFFICES ASSUME NEW p \in Pids, NEW i \in 1 .. Len(procs'[p].mail)
               PROVE  procs'[p].mail[i].no <= shell'.asked /\ (procs'[p].mail[i].kind = "commit" => procs'[p].mail[i].who \in agreed)
    OBVIOUS
  <2>1. procs[p].mail[i].no <= shell.asked /\ (procs[p].mail[i].kind = "commit" => procs[p].mail[i].who \in agreed)
    BY <1>3 DEF DeskInv, PostInv
  <2>2. procs[p].mail[i].no \in Int
    BY <1>3, MailIs DEF DeskInv
  <2> QED BY <1>3, <1>4, <2>1, <2>2
<1>7. \A p, q \in Pids : \A i \in 1 .. Len(procs'[p].mail), j \in 1 .. Len(procs'[q].mail) :
        procs'[p].mail[i].kind = "prepare" /\ procs'[q].mail[j].kind = "commit" => procs'[p].mail[i].no # procs'[q].mail[j].no
  <2> SUFFICES ASSUME NEW p \in Pids, NEW q \in Pids, NEW i \in 1 .. Len(procs'[p].mail), NEW j \in 1 .. Len(procs'[q].mail),
                      procs'[p].mail[i].kind = "prepare", procs'[q].mail[j].kind = "commit"
               PROVE  procs'[p].mail[i].no # procs'[q].mail[j].no
    OBVIOUS
  <2>1. /\ procs'[p].mail = procs[p].mail /\ i \in 1 .. Len(procs[p].mail)
        /\ procs'[q].mail = procs[q].mail /\ j \in 1 .. Len(procs[q].mail)
    BY <1>3
  <2> QED BY <2>1 DEF DeskInv, PostInv
<1> QED BY <1>5, <1>6, <1>7 DEF PostInv

LEMMA FreshQuiet ==
  ASSUME DeskInv, ProcsQuiet(procs'), Fresh' = Fresh \/ (Fresh'.pc = "idle" /\ Fresh'.reply = "none"),
         UNCHANGED <<signer, agreed, told>>, shell'.asked \in Int, shell.asked <= shell'.asked
  PROVE  PostInv' /\ OneInv' /\ SignerInv'
<1>1. /\ \A p \in Pids : \/ procs'[p].mail = procs[p].mail /\ procs'[p].offer = procs[p].offer
                         \/ procs'[p].mail = <<>> /\ procs'[p].offer = NoOffer
      /\ \A p \in Pids : procs'[p].pc \in {"up", "stopping"} /\ procs[p].pc # "none" => 
                           procs[p].pc \in {"up", "stopping"} /\ procs'[p].signer = procs[p].signer
      /\ \A p \in Pids : procs'[p].pc = "none" => procs[p].pc = "none"
  BY DEF ProcsQuiet
<1>2. Len(<<>>) = 0 /\ NoOffer.prior = NoSigner
  BY NothingIs
<1>3. /\ \A p \in Pids : \A i \in 1 .. Len(procs'[p].mail) :
           procs'[p].mail = procs[p].mail /\ procs'[p].offer = procs[p].offer /\ i \in 1 .. Len(procs[p].mail)
  <2> SUFFICES ASSUME NEW p \in Pids, NEW i \in 1 .. Len(procs'[p].mail)
               PROVE  procs'[p].mail = procs[p].mail /\ procs'[p].offer = procs[p].offer /\ i \in 1 .. Len(procs[p].mail)
    OBVIOUS
  <2>1. procs'[p].mail # <<>>
    BY <1>2
  <2> QED BY <1>1, <2>1
<1>4. shell.asked \in Int
  BY ShellIs, DeskNow DEF DeskInv
<1>5. PostInv'
  BY PostQuiet
<1>6. OneInv'
  <2>1. CASE Fresh' = Fresh
    <3>1. \A p \in Pids : procs[p].mail = <<>> => procs'[p].mail = <<>>
      BY <1>1
    <3>2. Fresh.pc # "idle" => Fresh.no \in 1 .. shell'.asked /\ Fresh.who \in Candidates
      BY <1>4 DEF DeskInv, OneInv
    <3>3. Fresh.reply # "none" => Fresh.pc \in {"prepare", "commit"}
      BY DEF DeskInv, OneInv
    <3>4. \A p \in Pids : \A i \in 1 .. Len(procs'[p].mail) : Fresh.pc # "idle" /\ procs'[p].mail[i].no = Fresh.no =>
            /\ Fresh.pc = procs'[p].mail[i].kind /\ Fresh.reply = "none" /\ Fresh.child = p /\ Fresh.who = procs'[p].mail[i].who
            /\ i = Len(procs'[p].mail)
      BY <1>3 DEF DeskInv, OneInv
    <3>5. \A p \in Pids : Fresh.pc # "idle" /\ Fresh.child = p => procs'[p].pc # "none"
      BY <1>1 DEF DeskInv, OneInv
    <3>6. \A p \in Pids : Fresh.child = p /\ (Fresh.pc = "dialog" \/ (Fresh.pc = "prepare" /\ Fresh.reply # "none")) => procs'[p].mail = <<>>
      BY <3>1 DEF DeskInv, OneInv
    <3>7. \A p \in Pids : \A i \in 1 .. Len(procs'[p].mail) :
            Fresh.pc # "idle" /\ procs'[p].mail[i].kind = "commit" /\ procs'[p].mail[i].no # Fresh.no
            /\ procs'[p].offer.no = procs'[p].mail[i].no => procs'[p].offer.prior # Fresh.who
      BY <1>3 DEF DeskInv, OneInv
    <3> QED BY <2>1, <3>2, <3>3, <3>4, <3>5, <3>6, <3>7 DEF OneInv
  <2>2. CASE Fresh'.pc = "idle" /\ Fresh'.reply = "none"
    BY <2>2 DEF OneInv
  <2> QED BY <2>1, <2>2
<1>7. SignerInv'
  <2>1. CASE Fresh' = Fresh
    <3>1. \A p \in Pids : Fresh.pc = "ready" /\ Fresh.child = p /\ procs'[p].pc \in {"up", "stopping"} => procs'[p].signer = Fresh.who
      <4> SUFFICES ASSUME NEW p \in Pids, Fresh.pc = "ready", Fresh.child = p, procs'[p].pc \in {"up", "stopping"}
                   PROVE  procs'[p].signer = Fresh.who
        OBVIOUS
      <4>1. procs[p].pc # "none"
        BY DEF DeskInv, OneInv
      <4> QED BY <1>1, <4>1 DEF DeskInv, SignerInv
    <3> QED BY <2>1, <3>1 DEF DeskInv, SignerInv
  <2>2. CASE Fresh'.pc = "idle" /\ Fresh'.reply = "none"
    BY <2>2 DEF DeskInv, SignerInv
  <2> QED BY <2>1, <2>2
<1> QED BY <1>5, <1>6, <1>7

LEMMA UpQuiet ==
  ASSUME DeskInv, Owned(procs', shell'), shell'.exited = shell.exited, shell'.quitting = shell.quitting,
         \A s \in Quits : /\ jobs'[s].pc = "down" <=> jobs[s].pc = "down"
                          /\ jobs[s].pc = "down" => jobs'[s].left = jobs[s].left,
         shell'.boots = 0 => shell'.page = "none" /\ ~shell.quitting /\ \A s \in Quits : jobs'[s].pc = "idle"
  PROVE  UpInv'
<1>1. \A p \in Pids : procs'[p].pc = "up" =>
       ~shell'.exited /\ (p \in shell'.children \/ \E s \in Quits : jobs'[s].pc = "down" /\ p \in Later(s)')
  <2> SUFFICES ASSUME NEW p \in Pids, procs'[p].pc = "up"
               PROVE  ~shell'.exited /\ (p \in shell'.children \/ \E s \in Quits : jobs'[s].pc = "down" /\ p \in Later(s)')
    OBVIOUS
  <2>1. CASE procs[p].pc = "up" /\ (p \in shell.children => p \in shell'.children)
    <3>1. ~shell.exited /\ (p \in shell.children \/ \E s \in Quits : jobs[s].pc = "down" /\ p \in Later(s))
      BY <2>1 DEF DeskInv, UpInv
    <3>2. \A s \in Quits : jobs[s].pc = "down" => Later(s)' = Later(s)
      BY DEF Later
    <3> QED BY <2>1, <3>1, <3>2
  <2>2. CASE p \in shell'.children /\ ~shell'.exited
    BY <2>2
  <2> QED BY <2>1, <2>2 DEF Owned
<1>2. \A s \in Quits : jobs'[s].pc = "down" => shell'.quitting /\ \A r \in Quits : jobs'[r].pc = "down" => r = s
  BY DEF DeskInv, UpInv
<1> QED BY <1>1, <1>2 DEF DeskInv, UpInv

LEMMA LaunchedIs ==
  ASSUME NEW sh \in Shells, DeskShapes, Lives(procs, sh.host) \/ Free(procs) # {}
  PROVE  \E s2 \in Shells :
           /\ Launched(sh, procs).sh = s2
           /\ \/ s2 = sh /\ Launched(sh, procs).ps = procs /\ (~sh.launch \/ Lives(procs, sh.host))
              \/ \E p \in Pids : /\ procs[p].pc = "none" /\ Launched(sh, procs).ps = Started(procs, p, "host")
                                 /\ s2.children = sh.children \cup {p} /\ s2.host = p
           /\ sh.children \subseteq s2.children
           /\ s2.quitting = sh.quitting /\ s2.exited = sh.exited /\ s2.launch = sh.launch /\ s2.booted = sh.booted
           /\ s2.page = sh.page /\ s2.boots = sh.boots /\ s2.asked = sh.asked
<1>1. CASE ~sh.launch \/ Lives(procs, sh.host)
  <2>1. Launched(sh, procs) = [sh |-> sh, ps |-> procs]
    BY <1>1 DEF Launched
  <2>2. Launched(sh, procs).sh = sh /\ Launched(sh, procs).ps = procs
    BY <2>1
  <2> QED BY <1>1, <2>2
<1>2. CASE ~(~sh.launch \/ Lives(procs, sh.host))
  <2>1. Launched(sh, procs) = Spawned(sh, procs, "host")
    BY <1>2 DEF Launched
  <2>2. Free(procs) # {}
    BY <1>2
  <2>3. PICK p \in Pids, s2 \in Shells :
           /\ procs[p].pc = "none"
           /\ Spawned(sh, procs, "host").sh = s2 /\ Spawned(sh, procs, "host").ps = Started(procs, p, "host")
           /\ s2.children = sh.children \cup {p} /\ s2.host = p
           /\ s2.quitting = sh.quitting /\ s2.exited = sh.exited /\ s2.launch = sh.launch /\ s2.booted = sh.booted
           /\ s2.page = sh.page /\ s2.boots = sh.boots /\ s2.asked = sh.asked
    BY <2>2, SpawnedIs
  <2>4. Launched(sh, procs).sh = s2 /\ Launched(sh, procs).ps = Started(procs, p, "host")
    BY <2>1, <2>3
  <2> QED BY <2>3, <2>4
<1> QED BY <1>1, <1>2

(* The host is launched, if need be.                                       *)
LEMMA LaunchInv ==
  ASSUME DeskInv, NEW sh \in Shells, Lives(procs, sh.host) \/ Free(procs) # {}, shell.children \subseteq sh.children,
         sh.exited = FALSE, shell' = Launched(sh, procs).sh, procs' = Launched(sh, procs).ps
  PROVE  /\ shell' \in Shells /\ ProcsQuiet(procs') /\ Owned(procs', shell')
         /\ shell'.quitting = sh.quitting /\ shell'.exited = sh.exited /\ shell'.page = sh.page
         /\ shell'.boots = sh.boots /\ shell'.asked = sh.asked
<1>0. DeskShapes
  BY DEF DeskInv
<1>1. PICK s2 \in Shells :
         /\ shell' = s2
         /\ \/ s2 = sh /\ procs' = procs
            \/ \E p \in Pids : procs[p].pc = "none" /\ procs' = Started(procs, p, "host") /\ s2.children = sh.children \cup {p}
         /\ sh.children \subseteq s2.children
         /\ s2.quitting = sh.quitting /\ s2.exited = sh.exited /\ s2.page = sh.page /\ s2.boots = sh.boots /\ s2.asked = sh.asked
  BY <1>0, LaunchedIs
<1>2. CASE procs' = procs
  <2>1. ProcsQuiet(procs) /\ Owned(procs, s2)
    BY <1>0, <1>1, SameIsQuiet
  <2> QED BY <1>1, <1>2, <2>1
<1>3. CASE \E p \in Pids : procs[p].pc = "none" /\ procs' = Started(procs, p, "host") /\ s2.children = sh.children \cup {p}
  <2>1. PICK p \in Pids : procs[p].pc = "none" /\ procs' = Started(procs, p, "host") /\ s2.children = sh.children \cup {p}
    BY <1>3
  <2>2. ~s2.exited /\ shell.children \cup {p} \subseteq s2.children
    BY <1>1, <2>1
  <2>3. ProcsQuiet(procs') /\ Owned(procs', s2)
    BY <1>0, <2>1, <2>2, StartedIsQuiet
  <2> QED BY <1>1, <2>3
<1> QED BY <1>1, <1>2, <1>3

(* A step that asks nothing of the host.                                   *)
LEMMA DeskQuiet ==
  ASSUME DeskInv, shell' \in Shells, ProcsQuiet(procs'), Owned(procs', shell'),
         NEW s \in Slots, NEW j \in Jobs, j.pc \in Pcs[s], jobs' = [jobs EXCEPT ![s] = j],
         s = "fresh" => j.pc = "idle" /\ j.reply = "none",
         s = "codex" => j.read \subseteq Wishes,
         s \in Quits => j.pc # "down" /\ jobs[s].pc # "down",
         config' \subseteq Wishes, UNCHANGED <<signer, agreed, told>>,
         shell'.exited = shell.exited, shell'.quitting = shell.quitting, shell.asked <= shell'.asked,
         shell'.boots = 0 => shell.boots = 0 /\ shell'.page = "none" /\ (s \in Quits => j.pc = "idle")
  PROVE  DeskInv'
<1>0. DeskShapes
  BY DEF DeskInv
<1>1. /\ jobs' \in [Slots -> Jobs] /\ (\A t \in Slots : jobs'[t].pc \in Pcs[t])
      /\ jobs'[s] = j /\ \A t \in Slots : t # s => jobs'[t] = jobs[t]
  BY <1>0, JobSet
<1>2. "fresh" \in Slots /\ "codex" \in Slots /\ Quits \subseteq Slots
  BY SlotFacts
<1>3. DeskShapes'
  <2>1. jobs'["codex"].read \subseteq Wishes
    BY <1>0, <1>1, <1>2 DEF DeskShapes
  <2>2. procs' \in [Pids -> Procs]
    BY DEF ProcsQuiet
  <2>3. signer' \in Signers /\ agreed' \subseteq Candidates
    BY <1>0 DEF DeskShapes
  <2> QED BY <1>1, <2>1, <2>2, <2>3 DEF DeskShapes
<1>4. UpInv'
  <2>1. \A t \in Quits : /\ jobs'[t].pc = "down" <=> jobs[t].pc = "down"
                         /\ jobs[t].pc = "down" => jobs'[t].left = jobs[t].left
    BY <1>1, <1>2
  <2>2. shell'.boots = 0 => shell'.page = "none" /\ ~shell.quitting /\ \A t \in Quits : jobs'[t].pc = "idle"
    BY <1>1, <1>2 DEF DeskInv, UpInv
  <2> QED BY <2>1, <2>2, UpQuiet
<1>5. PostInv' /\ OneInv' /\ SignerInv'
  <2>1. Fresh' = Fresh \/ (Fresh'.pc = "idle" /\ Fresh'.reply = "none")
    BY <1>1, <1>2 DEF Fresh
  <2>2. shell'.asked \in Int
    BY ShellIs
  <2> QED BY <2>1, <2>2, FreshQuiet
<1> QED BY <1>3, <1>4, <1>5 DEF DeskInv

(* How it begins.                                                          *)
LEMMA DeskInvInit == DeskInit => DeskInv
<1> SUFFICES ASSUME DeskInit PROVE DeskInv
  OBVIOUS
<1>1. \A p \in Pids : procs[p] = NoProc
  BY DEF DeskInit, Pids
<1>2. \A s \in Slots : jobs[s] = NoJob
  BY DEF DeskInit
<1>3. "fresh" \in Slots /\ "codex" \in Slots /\ Quits \subseteq Slots
  BY SlotFacts
<1>4. DeskShapes
  <2>1. shell \in Shells
    <3>1. 0 \in 0 .. MaxProcs /\ 0 \in 0 .. MaxBoots /\ 0 \in 0 .. MaxAsked
      BY DeskConstants
    <3> QED BY <3>1 DEF DeskInit, Shells
  <2>2. procs \in [Pids -> Procs]
    BY NothingIs DEF DeskInit, Pids
  <2>3. jobs \in [Slots -> Jobs] /\ \A s \in Slots : jobs[s].pc \in Pcs[s]
    <3>1. jobs = [s \in Slots |-> NoJob] /\ NoJob \in Jobs /\ \A s \in Slots : NoJob.pc \in Pcs[s]
      BY NothingIs, SlotFacts DEF DeskInit
    <3> QED BY <3>1
  <2>4. jobs["codex"].read \subseteq Wishes /\ config \subseteq Wishes /\ signer \in Signers /\ agreed \subseteq Candidates
    BY <1>2, <1>3, NothingIs DEF DeskInit
  <2> QED BY <2>1, <2>2, <2>3, <2>4 DEF DeskShapes
<1>5. UpInv
  <2>1. \A p \in Pids : procs[p].pc # "up"
    BY <1>1, NothingIs
  <2>2. \A s \in Quits : jobs[s].pc = "idle"
    BY <1>2, <1>3, NothingIs
  <2>3. ~shell.exited /\ ~shell.quitting /\ shell.page = "none"
    BY DEF DeskInit
  <2> QED BY <2>1, <2>2, <2>3 DEF UpInv
<1>6. Fresh.pc = "idle" /\ Fresh.reply = "none"
  BY <1>2, <1>3, NothingIs DEF Fresh
<1>7. \A p \in Pids : procs[p].mail = <<>> /\ Len(procs[p].mail) = 0 /\ procs[p].offer.prior = NoSigner
  BY <1>1, NothingIs
<1>8. PostInv
  BY <1>7 DEF PostInv
<1>9. OneInv
  BY <1>6, <1>7 DEF OneInv
<1>10. SignerInv
  BY <1>6 DEF SignerInv, DeskInit
<1> QED BY <1>4, <1>5, <1>8, <1>9, <1>10 DEF DeskInv

LEMMA JobOf ==
  ASSUME NEW pc \in AllPcs, NEW child \in 0 .. MaxProcs, NEW line \in Seq(Pids), NEW read, read \subseteq Pids \cup Wishes,
         NEW who \in Signers, NEW no \in 0 .. MaxAsked, NEW reply \in {"none", "ok", "no"}
  PROVE  [pc |-> pc, child |-> child, left |-> line, read |-> read, who |-> who, no |-> no,
          reply |-> reply] \in Jobs
  BY DEF Jobs

(* No function moves.                                                      *)
LEMMA ProcsMoveInv ==
  ASSUME DeskInv, ProcsQuiet(procs'), Owned(procs', shell'), UNCHANGED <<shell, jobs, Rest>>
  PROVE  DeskInv'
<1>1. UNCHANGED <<shell, jobs, config, signer, agreed, told>> /\ shell \in Shells /\ config \subseteq Wishes
  BY DeskNow DEF Rest, DeskInv
<1>2. DeskShapes'
  BY <1>1 DEF ProcsQuiet, DeskInv, DeskShapes
<1>3. UpInv'
  <2>1. shell'.boots = 0 => shell'.page = "none" /\ ~shell.quitting /\ \A s \in Quits : jobs'[s].pc = "idle"
    BY <1>1 DEF DeskInv, UpInv
  <2> QED BY <1>1, <2>1, UpQuiet
<1>4. PostInv' /\ OneInv' /\ SignerInv'
  <2>1. Fresh' = Fresh /\ shell'.asked \in Int /\ shell.asked <= shell'.asked
    BY <1>1, ShellIs DEF Fresh
  <2> QED BY <1>1, <2>1, FreshQuiet
<1> QED BY <1>2, <1>3, <1>4 DEF DeskInv

LEMMA ProcStepsInv ==
  ASSUME DeskInv, NEW p \in Pids, ProcessEnds(p) \/ HostIsReady(p) \/ HostWorks(p)
  PROVE  DeskInv'
<1>0. DeskShapes /\ procs[p] \in Procs /\ procs \in [Pids -> Procs]
  BY DeskNow DEF DeskInv
<1>1. PICK q \in Procs :
        /\ procs' = [procs EXCEPT ![p] = q]
        /\ \/ q.mail = procs[p].mail /\ q.offer = procs[p].offer /\ q.signer = procs[p].signer /\ q.pc = procs[p].pc
           \/ q.mail = <<>> /\ q.offer = NoOffer /\ q.pc = "dead"
  <2>1. CASE ProcessEnds(p)
    <3>1. PICK q : q = [NoProc EXCEPT !.pc = "dead", !.kind = procs[p].kind]
      OBVIOUS
    <3>2. q = [pc |-> "dead", kind |-> procs[p].kind, ready |-> NoProc.ready, busy |-> NoProc.busy,
               signer |-> NoProc.signer, offer |-> NoProc.offer, mail |-> NoProc.mail]
      BY <3>1, NothingIs
    <3>3. q \in Procs
      <4>1. /\ NoProc.ready \in BOOLEAN /\ NoProc.busy \in BOOLEAN /\ NoProc.offer \in Offers /\ NoProc.mail \in Seq(Requests)
            /\ NoProc.signer \in Signers /\ procs[p].kind \in {"host", "hub"}
        BY <1>0, NothingIs, ProcIs
      <4> QED BY <3>2, <4>1 DEF Procs
    <3>4. procs' = [procs EXCEPT ![p] = q]
      BY <2>1, <3>1 DEF ProcessEnds
    <3> QED BY <3>2, <3>3, <3>4, NothingIs
  <2>2. CASE HostIsReady(p)
    <3>0. PICK b \in BOOLEAN : b = TRUE
      OBVIOUS
    <3>1. PICK q : q = [procs[p] EXCEPT !.ready = b]
      OBVIOUS
    <3>2. q = [pc |-> procs[p].pc, kind |-> procs[p].kind, ready |-> b, busy |-> procs[p].busy,
               signer |-> procs[p].signer, offer |-> procs[p].offer, mail |-> procs[p].mail]
      BY <1>0, <3>1, ProcIs
    <3>3. q \in Procs
      BY <1>0, <3>2, ProcIs DEF Procs
    <3>4. procs' = [procs EXCEPT ![p] = q]
      BY <1>0, <2>2, <3>0, <3>1 DEF HostIsReady
    <3> QED BY <3>2, <3>3, <3>4
  <2>3. CASE HostWorks(p)
    <3>0. PICK b \in BOOLEAN : b = ~procs[p].busy
      OBVIOUS
    <3>1. PICK q : q = [procs[p] EXCEPT !.busy = b]
      OBVIOUS
    <3>2. q = [pc |-> procs[p].pc, kind |-> procs[p].kind, ready |-> procs[p].ready, busy |-> b,
               signer |-> procs[p].signer, offer |-> procs[p].offer, mail |-> procs[p].mail]
      BY <1>0, <3>1, ProcIs
    <3>3. q \in Procs
      BY <1>0, <3>2, ProcIs DEF Procs
    <3>4. procs' = [procs EXCEPT ![p] = q]
      BY <1>0, <2>3, <3>0, <3>1 DEF HostWorks
    <3> QED BY <3>2, <3>3, <3>4
  <2> QED BY <2>1, <2>2, <2>3
<1>2. procs' \in [Pids -> Procs] /\ procs'[p] = q /\ \A r \in Pids : r # p => procs'[r] = procs[r]
  BY <1>0, <1>1, ProcSet
<1>3. ProcsQuiet(procs')
  BY <1>1, <1>2 DEF ProcsQuiet
<1>4. UNCHANGED <<shell, jobs, Rest>>
  BY DEF ProcessEnds, HostIsReady, HostWorks
<1>5. Owned(procs', shell')
  BY <1>1, <1>2, <1>4 DEF Owned
<1> QED BY <1>3, <1>4, <1>5, ProcsMoveInv

(* Starting, and trying again.                                             *)
LEMMA BootsNowInv ==
  ASSUME DeskInv, NEW s \in {"boot", "retry"}, NEW sh \in Shells, sh.children = shell.children, sh.asked = shell.asked,
         sh.quitting = shell.quitting, sh.exited = shell.exited, ~shell.exited, BootsNow(sh, procs, s), UNCHANGED Rest
  PROVE  DeskInv'
<1>0. DeskShapes
  BY DEF DeskInv
<1>1. PICK s1 : s1 = [sh EXCEPT !.boots = sh.boots + 1, !.page = "boot"]
  OBVIOUS
<1>2. s1 = [host |-> sh.host, hub |-> sh.hub, children |-> sh.children, quitting |-> sh.quitting,
            exited |-> sh.exited, launch |-> sh.launch, booted |-> sh.booted, page |-> "boot",
            tray |-> sh.tray, boots |-> sh.boots + 1, asked |-> sh.asked]
  <2>1. sh = [host |-> sh.host, hub |-> sh.hub, children |-> sh.children, quitting |-> sh.quitting,
              exited |-> sh.exited, launch |-> sh.launch, booted |-> sh.booted, page |-> sh.page,
              tray |-> sh.tray, boots |-> sh.boots, asked |-> sh.asked]
    BY ShellIs
  <2> QED BY <1>1, <2>1
<1>3. s1 \in Shells
  <2>1. sh.boots + 1 \in 0 .. MaxBoots
    BY ShellIs, DeskConstants DEF BootsNow
  <2> QED BY <1>2, <2>1, ShellIs DEF Shells
<1>4. PICK p \in Pids, s2 \in Shells :
         /\ procs[p].pc = "none" /\ shell' = s2 /\ procs' = Started(procs, p, "hub")
         /\ s2.children = s1.children \cup {p} /\ s2.quitting = s1.quitting /\ s2.exited = s1.exited
         /\ s2.page = s1.page /\ s2.boots = s1.boots /\ s2.asked = s1.asked
  <2>1. Free(procs) # {} /\ shell' = Spawned(s1, procs, "hub").sh /\ procs' = Spawned(s1, procs, "hub").ps
    BY <1>1 DEF BootsNow
  <2>2. PICK p \in Pids, s2 \in Shells :
           /\ procs[p].pc = "none"
           /\ Spawned(s1, procs, "hub").sh = s2 /\ Spawned(s1, procs, "hub").ps = Started(procs, p, "hub")
           /\ s2.children = s1.children \cup {p}
           /\ s2.quitting = s1.quitting /\ s2.exited = s1.exited /\ s2.launch = s1.launch /\ s2.booted = s1.booted
           /\ s2.page = s1.page /\ s2.boots = s1.boots /\ s2.asked = s1.asked
    BY <1>0, <1>3, <2>1, SpawnedIs
  <2> QED BY <2>1, <2>2
<1>5. ProcsQuiet(procs') /\ Owned(procs', shell')
  <2>1. ~shell'.exited /\ shell.children \cup {p} \subseteq shell'.children
    BY <1>2, <1>4
  <2> QED BY <1>0, <1>4, <2>1, StartedIsQuiet
<1>6. PICK j : j = [NoJob EXCEPT !.pc = "hub"]
  OBVIOUS
<1>7. j = [pc |-> "hub", child |-> NoJob.child, left |-> NoJob.left, read |-> NoJob.read, who |-> NoJob.who,
           no |-> NoJob.no, reply |-> NoJob.reply]
  BY <1>6, NothingIs
<1>8. j \in Jobs /\ j.pc = "hub" /\ "hub" \in Pcs[s] /\ s \in Slots
  <2>1. "hub" \in Pcs[s] /\ s \in Slots /\ "hub" \in AllPcs
    BY SlotFacts DEF AllPcs
  <2> QED BY <1>7, <2>1, NothingIs, JobIs DEF Jobs
<1>9. jobs' = [jobs EXCEPT ![s] = j]
  BY <1>6 DEF BootsNow
<1>10. shell'.boots # 0 /\ shell' \in Shells /\ shell.asked <= shell'.asked
  BY <1>2, <1>4, ShellIs
<1>11. s # "fresh" /\ s # "codex" /\ s \notin Quits /\ config' \subseteq Wishes
  BY <1>0, DeskNow DEF Quits, Rest
<1> QED BY <1>2, <1>4, <1>5, <1>8, <1>9, <1>10, <1>11, DeskQuiet DEF Rest

LEMMA DesktopStartsInv == DeskInv /\ DesktopStarts => DeskInv'
<1> SUFFICES ASSUME DeskInv, DesktopStarts PROVE DeskInv'
  OBVIOUS
<1>1. shell \in Shells /\ ~shell.exited /\ BootsNow(shell, procs, "boot") /\ UNCHANGED Rest
  BY DeskNow DEF DeskInv, UpInv, DesktopStarts
<1> QED BY <1>1, BootsNowInv

LEMMA OverJob ==
  ASSUME NEW s \in Slots
  PROVE  NoJob \in Jobs /\ NoJob.pc \in Pcs[s] /\ Over(s) = [jobs EXCEPT ![s] = NoJob] /\ NoJob.pc = "idle" /\ NoJob.reply = "none"
         /\ NoJob.read \subseteq Wishes /\ NoJob.pc # "down"
  BY NothingIs, SlotFacts DEF Over

(* What a change of some fields makes of the shell's variables.            *)
SameRest(sh, s2) == s2.quitting = sh.quitting /\ s2.exited = sh.exited /\ s2.boots = sh.boots

LEMMA AskedMore ==
  ASSUME NEW sh \in Shells, sh.asked < MaxAsked, NEW s2, s2 = [sh EXCEPT !.asked = sh.asked + 1]
  PROVE  /\ s2 \in Shells /\ SameRest(sh, s2) /\ s2.asked = sh.asked + 1 /\ sh.asked <= s2.asked
         /\ s2.children = sh.children /\ s2.page = sh.page /\ s2.host = sh.host /\ s2.hub = sh.hub
<1>1. s2 = [host |-> sh.host, hub |-> sh.hub, children |-> sh.children, quitting |-> sh.quitting,
            exited |-> sh.exited, launch |-> sh.launch, booted |-> sh.booted, page |-> sh.page,
            tray |-> sh.tray, boots |-> sh.boots, asked |-> sh.asked + 1]
  <2>1. sh = [host |-> sh.host, hub |-> sh.hub, children |-> sh.children, quitting |-> sh.quitting,
              exited |-> sh.exited, launch |-> sh.launch, booted |-> sh.booted, page |-> sh.page,
              tray |-> sh.tray, boots |-> sh.boots, asked |-> sh.asked]
    BY ShellIs
  <2> QED BY <2>1
<1>2. sh.asked + 1 \in 0 .. MaxAsked /\ sh.asked <= sh.asked + 1
  BY ShellIs, DeskConstants
<1>3. s2 \in Shells
  BY <1>1, <1>2, ShellIs DEF Shells
<1> QED BY <1>1, <1>2, <1>3 DEF SameRest

LEMMA OnlyPage ==
  ASSUME NEW sh \in Shells, NEW shown \in {"none", "boot", "failed", "app"}, NEW s2, s2 = [sh EXCEPT !.page = shown]
  PROVE  /\ s2 \in Shells /\ SameRest(sh, s2) /\ s2.asked = sh.asked /\ sh.asked <= s2.asked
         /\ s2.children = sh.children /\ s2.page = shown /\ s2.host = sh.host /\ s2.hub = sh.hub
<1>1. sh = [host |-> sh.host, hub |-> sh.hub, children |-> sh.children, quitting |-> sh.quitting,
            exited |-> sh.exited, launch |-> sh.launch, booted |-> sh.booted, page |-> sh.page,
            tray |-> sh.tray, boots |-> sh.boots, asked |-> sh.asked]
  BY ShellIs
<1>2. s2 = [host |-> sh.host, hub |-> sh.hub, children |-> sh.children, quitting |-> sh.quitting,
            exited |-> sh.exited, launch |-> sh.launch, booted |-> sh.booted, page |-> shown, tray |-> sh.tray,
            boots |-> sh.boots, asked |-> sh.asked]
  BY <1>1
<1>3. s2 \in Shells
  BY <1>2, ShellIs DEF Shells
<1> QED BY <1>2, <1>3, ShellIs, DeskConstants DEF SameRest

LEMMA Launching ==
  ASSUME NEW sh \in Shells, NEW b \in BOOLEAN, NEW s2, s2 = [sh EXCEPT !.launch = b]
  PROVE  /\ s2 \in Shells /\ SameRest(sh, s2) /\ s2.asked = sh.asked
         /\ s2.children = sh.children /\ s2.page = sh.page /\ s2.host = sh.host
<1>1. s2 = [host |-> sh.host, hub |-> sh.hub, children |-> sh.children, quitting |-> sh.quitting,
            exited |-> sh.exited, launch |-> b, booted |-> sh.booted, page |-> sh.page, tray |-> sh.tray,
            boots |-> sh.boots, asked |-> sh.asked]
  <2>1. sh = [host |-> sh.host, hub |-> sh.hub, children |-> sh.children, quitting |-> sh.quitting,
              exited |-> sh.exited, launch |-> sh.launch, booted |-> sh.booted, page |-> sh.page,
              tray |-> sh.tray, boots |-> sh.boots, asked |-> sh.asked]
    BY ShellIs
  <2> QED BY <2>1
<1>2. s2 \in Shells
  BY <1>1, ShellIs DEF Shells
<1> QED BY <1>1, <1>2 DEF SameRest

LEMMA Forgetting ==
  ASSUME NEW sh \in Shells, NEW s2, s2 = [sh EXCEPT !.host = 0, !.hub = 0]
  PROVE  /\ s2 \in Shells /\ SameRest(sh, s2) /\ s2.asked = sh.asked /\ sh.asked <= s2.asked
         /\ s2.children = sh.children /\ s2.page = sh.page
<1>1. s2 = [host |-> 0, hub |-> 0, children |-> sh.children, quitting |-> sh.quitting, exited |-> sh.exited,
            launch |-> sh.launch, booted |-> sh.booted, page |-> sh.page, tray |-> sh.tray, boots |-> sh.boots,
            asked |-> sh.asked]
  <2>1. sh = [host |-> sh.host, hub |-> sh.hub, children |-> sh.children, quitting |-> sh.quitting,
              exited |-> sh.exited, launch |-> sh.launch, booted |-> sh.booted, page |-> sh.page,
              tray |-> sh.tray, boots |-> sh.boots, asked |-> sh.asked]
    BY ShellIs
  <2> QED BY <2>1
<1>2. 0 \in 0 .. MaxProcs
  BY DeskConstants
<1>3. s2 \in Shells
  BY <1>1, <1>2, ShellIs DEF Shells
<1> QED BY <1>1, <1>3, ShellIs, DeskConstants DEF SameRest

LEMMA RestKept ==
  ASSUME DeskInv, UNCHANGED Rest
  PROVE  config' \subseteq Wishes /\ UNCHANGED <<config, signer, agreed, told>>
  BY DeskNow DEF DeskInv, Rest

(* A function goes on, or is over, that is none of those that shut down or *)
(* speak with the host.                                                    *)
LEMMA StepOn ==
  ASSUME DeskInv, NEW s \in Slots, s \notin Quits, s # "fresh", NEW pc \in Pcs[s], jobs' = Now(s, pc),
         shell' \in Shells, SameRest(shell, shell'), shell.asked <= shell'.asked, shell.page = "none" => shell'.page = "none",
         ProcsQuiet(procs'), Owned(procs', shell'), config' \subseteq Wishes, UNCHANGED <<signer, agreed, told>>
  PROVE  DeskInv'
<1>0. DeskShapes
  BY DEF DeskInv
<1>1. PICK j \in Jobs : /\ Now(s, pc) = [jobs EXCEPT ![s] = j] /\ j.pc = pc
                        /\ j = [pc |-> pc, child |-> jobs[s].child, left |-> jobs[s].left,
                                read |-> jobs[s].read, who |-> jobs[s].who, no |-> jobs[s].no,
                                reply |-> jobs[s].reply]
  BY <1>0, NowIs
<1>2. jobs' = [jobs EXCEPT ![s] = j] /\ j.pc \in Pcs[s]
  BY <1>1
<1>3. s = "codex" => j.read \subseteq Wishes
  <2>1. j.read = jobs[s].read
    BY <1>1
  <2> QED BY <1>0, <2>1, DeskNow
<1>4. shell'.boots = 0 => shell.boots = 0 /\ shell'.page = "none"
  BY DEF SameRest, DeskInv, UpInv
<1>5. shell'.exited = shell.exited /\ shell'.quitting = shell.quitting
  BY DEF SameRest
<1> QED BY <1>2, <1>3, <1>4, <1>5, DeskQuiet

LEMMA JobOver ==
  ASSUME DeskInv, NEW s \in Slots, s \in Quits => jobs[s].pc # "down", jobs' = Over(s),
         shell' \in Shells, SameRest(shell, shell'), shell.asked <= shell'.asked, shell.page = "none" => shell'.page = "none",
         ProcsQuiet(procs'), Owned(procs', shell'), config' \subseteq Wishes, UNCHANGED <<signer, agreed, told>>
  PROVE  DeskInv'
<1>1. NoJob \in Jobs /\ NoJob.pc \in Pcs[s] /\ jobs' = [jobs EXCEPT ![s] = NoJob] /\ NoJob.pc = "idle" /\ NoJob.reply = "none"
      /\ NoJob.read \subseteq Wishes /\ NoJob.pc # "down"
  BY OverJob
<1>2. shell'.boots = 0 => shell.boots = 0 /\ shell'.page = "none"
  BY DEF SameRest, DeskInv, UpInv
<1>3. shell'.exited = shell.exited /\ shell'.quitting = shell.quitting
  BY DEF SameRest
<1> QED BY <1>1, <1>2, <1>3, DeskQuiet

(* The shell and its processes stay as they are.                           *)
LEMMA StillThere ==
  ASSUME DeskInv
  PROVE  /\ DeskShapes /\ shell \in Shells /\ SameRest(shell, shell) /\ shell.asked <= shell.asked
         /\ ProcsQuiet(procs) /\ \A sh : shell.children \subseteq sh.children => Owned(procs, sh)
<1>1. DeskShapes /\ shell \in Shells
  BY DeskNow DEF DeskInv
<1> QED BY <1>1, SameIsQuiet, ShellIs, DeskConstants DEF SameRest

LEMMA BootFailsInv ==
  ASSUME DeskInv, NEW s \in {"boot", "retry"}, BootFails(s), UNCHANGED procs, UNCHANGED Rest
  PROVE  DeskInv'
<1> DEFINE shown == IF shell.page = "boot" THEN "failed" ELSE shell.page
<1>0. shell \in Shells /\ s \in Slots /\ s \notin Quits
  BY DeskNow, SlotFacts DEF DeskInv, Quits
<1>1. shell' = [shell EXCEPT !.page = shown] /\ jobs' = Over(s)
  BY DEF BootFails
<1>2. shown \in {"none", "boot", "failed", "app"} /\ (shell.page = "none" => shown = "none")
  BY <1>0, ShellIs
<1> HIDE DEF shown
<1>3. /\ shell' \in Shells /\ SameRest(shell, shell') /\ shell.asked <= shell'.asked
      /\ shell'.children = shell.children /\ shell'.page = shown
  BY <1>0, <1>1, <1>2, OnlyPage
<1>4. ProcsQuiet(procs') /\ Owned(procs', shell')
  BY <1>3, StillThere
<1> QED BY <1>0, <1>1, <1>2, <1>3, <1>4, RestKept, JobOver

LEMMA HubAnswersInv ==
  ASSUME DeskInv, NEW s \in {"boot", "retry"}, HubAnswers(s)
  PROVE  DeskInv'
<1>1. CASE ~HubIsUp /\ BootFails(s) /\ UNCHANGED procs
  BY <1>1, BootFailsInv DEF HubAnswers
<1>2. CASE /\ HubIsUp /\ (Lives(procs, shell.host) \/ Free(procs) # {})
           /\ LET r == Launched([shell EXCEPT !.launch = TRUE], procs) IN shell' = r.sh /\ procs' = r.ps
           /\ jobs' = Now(s, "host")
  <2>0. shell \in Shells /\ s \in Slots /\ s \notin Quits /\ s # "fresh" /\ "host" \in Pcs[s] /\ ~shell.exited
    BY DeskNow, SlotFacts DEF DeskInv, Quits, HubAnswers, At
  <2>1. PICK b \in BOOLEAN : b = TRUE
    OBVIOUS
  <2>2. PICK s2 : s2 = [shell EXCEPT !.launch = b]
    OBVIOUS
  <2>3. /\ s2 \in Shells /\ SameRest(shell, s2) /\ s2.asked = shell.asked
        /\ s2.children = shell.children /\ s2.page = shell.page /\ s2.host = shell.host
    BY <2>0, <2>2, Launching
  <2>4. shell' = Launched(s2, procs).sh /\ procs' = Launched(s2, procs).ps
    BY <1>2, <2>1, <2>2
  <2>5. Lives(procs, s2.host) \/ Free(procs) # {}
    BY <1>2, <2>3
  <2>6. s2.exited = FALSE
    BY <2>0, <2>3, ShellIs DEF SameRest
  <2>7. /\ shell' \in Shells /\ ProcsQuiet(procs') /\ Owned(procs', shell')
        /\ shell'.quitting = s2.quitting /\ shell'.exited = s2.exited /\ shell'.page = s2.page
        /\ shell'.boots = s2.boots /\ shell'.asked = s2.asked
    BY <2>3, <2>4, <2>5, <2>6, LaunchInv
  <2>8. SameRest(shell, shell') /\ shell.asked <= shell'.asked /\ shell'.page = shell.page
    BY <2>0, <2>3, <2>7, ShellIs, DeskConstants DEF SameRest
  <2>9. UNCHANGED Rest
    BY DEF HubAnswers
  <2> QED BY <1>2, <2>0, <2>7, <2>8, <2>9, RestKept, StepOn
<1> QED BY <1>1, <1>2 DEF HubAnswers

LEMMA HostRegistersInv ==
  ASSUME DeskInv, NEW s \in {"boot", "retry"}, HostRegisters(s)
  PROVE  DeskInv'
<1>0. shell \in Shells /\ s \in Slots /\ s \notin Quits
  BY DeskNow, SlotFacts DEF DeskInv, Quits
<1>1. jobs' = Over(s) /\ UNCHANGED procs /\ UNCHANGED Rest
  BY DEF HostRegisters
<1>2. PICK b \in BOOLEAN, shown \in {"none", "boot", "failed", "app"} :
         shell' = [shell EXCEPT !.booted = b, !.page = shown] /\ (shell.page = "none" => shown = "none")
  <2>1. PICK ready \in BOOLEAN : ready = (Lives(procs, shell.host) /\ procs[shell.host].ready = TRUE)
    OBVIOUS
  <2>2. CASE shell' = [shell EXCEPT !.booted = TRUE, !.page = "app"] /\ shell.page # "none"
    <3>1. PICK b \in BOOLEAN : b = TRUE
      OBVIOUS
    <3>2. shell' = [shell EXCEPT !.booted = b, !.page = "app"]
      BY <2>2, <3>1
    <3> QED BY <2>2, <3>2
  <2>3. CASE shell' = [shell EXCEPT !.booted = @ \/ (Lives(procs, shell.host) /\ procs[shell.host].ready),
                                    !.page = IF @ = "boot" THEN "failed" ELSE @]
    <3>1. PICK b \in BOOLEAN : b = (shell.booted \/ (Lives(procs, shell.host) /\ procs[shell.host].ready))
      OBVIOUS
    <3>2. PICK shown : shown = IF shell.page = "boot" THEN "failed" ELSE shell.page
      OBVIOUS
    <3>3. shell' = [shell EXCEPT !.booted = b, !.page = shown]
      BY <2>3, <3>1, <3>2
    <3>4. shown \in {"none", "boot", "failed", "app"} /\ (shell.page = "none" => shown = "none")
      BY <1>0, <3>2, ShellIs
    <3> QED BY <3>3, <3>4
  <2> QED BY <2>2, <2>3 DEF HostRegisters
<1>3. /\ shell' \in Shells /\ SameRest(shell, shell') /\ shell.asked <= shell'.asked
      /\ shell'.children = shell.children /\ shell'.page = shown
  <2>1. shell = [host |-> shell.host, hub |-> shell.hub, children |-> shell.children,
                 quitting |-> shell.quitting, exited |-> shell.exited, launch |-> shell.launch,
                 booted |-> shell.booted, page |-> shell.page, tray |-> shell.tray, boots |-> shell.boots,
                 asked |-> shell.asked]
    BY <1>0, ShellIs
  <2>2. shell' = [host |-> shell.host, hub |-> shell.hub, children |-> shell.children,
                  quitting |-> shell.quitting, exited |-> shell.exited, launch |-> shell.launch, booted |-> b,
                  page |-> shown, tray |-> shell.tray, boots |-> shell.boots, asked |-> shell.asked]
    BY <1>2, <2>1
  <2>3. shell' \in Shells
    BY <1>0, <2>2, ShellIs DEF Shells
  <2> QED BY <1>0, <2>2, <2>3, ShellIs, DeskConstants DEF SameRest
<1>4. ProcsQuiet(procs') /\ Owned(procs', shell')
  BY <1>1, <1>3, StillThere
<1> QED BY <1>0, <1>1, <1>2, <1>3, <1>4, RestKept, JobOver

LEMMA StoppingJob ==
  ASSUME NEW child \in 0 .. MaxProcs, NEW read, read \subseteq Pids, NEW s \in Slots, "stopping" \in Pcs[s], NEW j,
         j = [pc |-> "stopping", child |-> child, left |-> <<>>, read |-> read, who |-> NoSigner, no |-> 0,
              reply |-> "none"]
  PROVE  j \in Jobs /\ j.pc = "stopping" /\ j.pc \in Pcs[s] /\ j.read = read
<1>1. "stopping" \in AllPcs /\ <<>> \in Seq(Pids) /\ NoSigner \in Signers /\ 0 \in 0 .. MaxAsked
  BY DeskConstants, NothingIs DEF AllPcs
<1> QED BY <1>1 DEF Jobs

LEMMA RetryAskedInv == DeskInv /\ RetryAsked => DeskInv'
<1> SUFFICES ASSUME DeskInv, RetryAsked PROVE DeskInv'
  OBVIOUS
<1>0. DeskShapes /\ shell \in Shells /\ "retry" \in Slots /\ "stopping" \in Pcs["retry"] /\ 0 \in 0 .. MaxProcs
  BY DeskNow, SlotFacts, DeskConstants DEF DeskInv
<1>1. PICK j : j = [NoJob EXCEPT !.pc = "stopping", !.read = shell.children]
  OBVIOUS
<1>2. j = [pc |-> "stopping", child |-> 0, left |-> <<>>, read |-> shell.children, who |-> NoSigner, no |-> 0,
           reply |-> "none"]
  BY <1>1 DEF NoJob
<1>3. j \in Jobs /\ j.pc = "stopping" /\ j.pc \in Pcs["retry"]
  BY <1>0, <1>2, StoppingJob, ShellIs
<1>4. jobs' = [jobs EXCEPT !["retry"] = j]
  BY <1>1 DEF RetryAsked
<1>5. shell' = [host |-> shell.host, hub |-> shell.hub, children |-> {}, quitting |-> shell.quitting,
                exited |-> shell.exited, launch |-> shell.launch, booted |-> shell.booted, page |-> shell.page,
                tray |-> shell.tray, boots |-> shell.boots, asked |-> shell.asked + 1]
  <2>1. shell = [host |-> shell.host, hub |-> shell.hub, children |-> shell.children,
                 quitting |-> shell.quitting, exited |-> shell.exited, launch |-> shell.launch,
                 booted |-> shell.booted, page |-> shell.page, tray |-> shell.tray, boots |-> shell.boots,
                 asked |-> shell.asked]
    BY <1>0, ShellIs
  <2> QED BY <2>1 DEF RetryAsked
<1>6. shell.asked + 1 \in 0 .. MaxAsked /\ shell.asked <= shell.asked + 1 /\ {} \subseteq Pids
  BY <1>0, ShellIs, DeskConstants DEF RetryAsked
<1>7. shell' \in Shells
  BY <1>0, <1>5, <1>6, ShellIs DEF Shells
<1>8. ProcsQuiet(procs') /\ Owned(procs', shell')
  <2>1. procs' = ToldToStop(procs, shell.children) /\ shell.children \subseteq shell'.children \cup shell.children
    BY DEF RetryAsked
  <2> QED BY <1>0, <2>1, ToldIsQuiet
<1>9. config' \subseteq Wishes /\ UNCHANGED <<signer, agreed, told>>
  BY RestKept DEF RetryAsked
<1>10. /\ "retry" # "fresh" /\ "retry" # "codex" /\ "retry" \notin Quits
       /\ shell'.exited = shell.exited /\ shell'.quitting = shell.quitting /\ shell.asked <= shell'.asked
       /\ shell'.boots = 0 => shell.boots = 0 /\ shell'.page = "none"
  <2>1. shell'.boots = shell.boots /\ shell'.page = shell.page
    BY <1>5
  <2> QED BY <1>5, <1>6, <2>1 DEF Quits, DeskInv, UpInv
<1> QED BY <1>0, <1>3, <1>4, <1>7, <1>8, <1>9, <1>10, DeskQuiet

LEMMA RetryStoppedInv == DeskInv /\ RetryStopped => DeskInv'
<1> SUFFICES ASSUME DeskInv, RetryStopped PROVE DeskInv'
  OBVIOUS
<1>0. shell \in Shells /\ ~shell.exited /\ UNCHANGED Rest /\ "retry" \in Slots /\ "retry" \notin Quits
  BY DeskNow, SlotFacts DEF DeskInv, RetryStopped, At, Quits
<1>1. PICK s2 : s2 = [shell EXCEPT !.host = 0, !.hub = 0]
  OBVIOUS
<1>2. /\ s2 \in Shells /\ SameRest(shell, s2) /\ s2.asked = shell.asked /\ shell.asked <= s2.asked
      /\ s2.children = shell.children /\ s2.page = shell.page
  BY <1>0, <1>1, Forgetting
<1>3. CASE BootsNow(s2, procs, "retry")
  <2>1. s2.quitting = shell.quitting /\ s2.exited = shell.exited
    BY <1>2 DEF SameRest
  <2> QED BY <1>0, <1>2, <1>3, <2>1, BootsNowInv
<1>4. CASE jobs' = Over("retry") /\ shell' = s2 /\ UNCHANGED procs
  <2>1. ProcsQuiet(procs') /\ Owned(procs', shell')
    BY <1>2, <1>4, StillThere
  <2> QED BY <1>0, <1>2, <1>4, <2>1, RestKept, JobOver
<1> QED BY <1>1, <1>3, <1>4 DEF RetryStopped

LEMMA ShowWindowInv == DeskInv /\ ShowWindow => DeskInv'
<1> SUFFICES ASSUME DeskInv, ShowWindow PROVE DeskInv'
  OBVIOUS
<1>0. DeskShapes /\ shell \in Shells /\ ~shell.exited /\ UNCHANGED Rest /\ "boot" \in Slots /\ "boot" \notin Quits
  BY DeskNow, SlotFacts DEF DeskInv, UpInv, ShowWindow, Quits
<1>1. CASE BootsNow(shell, procs, "boot")
  BY <1>0, <1>1, BootsNowInv
<1>2. CASE shell' = [shell EXCEPT !.page = "app"] /\ UNCHANGED <<procs, jobs>>
  <2>1. /\ shell' \in Shells /\ SameRest(shell, shell') /\ shell.asked <= shell'.asked /\ shell'.children = shell.children
    BY <1>0, <1>2, OnlyPage
  <2>2. ProcsQuiet(procs') /\ Owned(procs', shell')
    BY <1>2, <2>1, StillThere
  <2>3. jobs["boot"] \in Jobs /\ jobs["boot"].pc \in Pcs["boot"] /\ jobs' = [jobs EXCEPT !["boot"] = jobs["boot"]]
    BY <1>0, <1>2, DeskNow
  <2>4. shell'.boots # 0 /\ shell'.exited = shell.exited /\ shell'.quitting = shell.quitting
    BY <1>0, <2>1, ShellIs, DeskConstants DEF ShowWindow, SameRest
  <2>5. "boot" # "fresh" /\ "boot" # "codex"
    OBVIOUS
  <2> QED BY <1>0, <2>1, <2>2, <2>3, <2>4, <2>5, RestKept, DeskQuiet
<1> QED BY <1>1, <1>2 DEF ShowWindow

(* What a person agrees to.                                                *)
LEMMA AsksIs ==
  ASSUME DeskInv, NEW s, Asks(s)
  PROVE  /\ shell' \in Shells /\ SameRest(shell, shell') /\ shell'.asked = shell.asked + 1 /\ shell.asked <= shell'.asked
         /\ shell'.children = shell.children /\ shell'.page = shell.page /\ shell'.host = shell.host
         /\ shell.page = "app" /\ ~shell.exited /\ Idle(s)
<1>1. shell \in Shells /\ shell.asked < MaxAsked
  BY DeskNow DEF DeskInv, Asks
<1>2. shell' = [shell EXCEPT !.asked = shell.asked + 1]
  BY DEF Asks
<1> QED BY <1>1, <1>2, AskedMore DEF Asks

LEMMA StopsHostInv ==
  ASSUME DeskInv, NEW s \in Wishes, StopsHost(s), UNCHANGED shell, config' \subseteq Wishes, UNCHANGED <<signer, agreed, told>>
  PROVE  DeskInv'
<1>0. DeskShapes /\ shell \in Shells /\ s \in Slots /\ "stopping" \in Pcs[s] /\ s # "fresh" /\ s \notin Quits
  BY DeskNow, SlotFacts DEF DeskInv
<1>1. PICK j : j = [NoJob EXCEPT !.pc = "stopping", !.child = shell.host]
  OBVIOUS
<1>2. j = [pc |-> "stopping", child |-> shell.host, left |-> <<>>, read |-> {}, who |-> NoSigner, no |-> 0,
           reply |-> "none"]
  BY <1>1 DEF NoJob
<1>3. j \in Jobs /\ j.pc = "stopping" /\ j.pc \in Pcs[s] /\ j.read = {}
  BY <1>0, <1>2, StoppingJob, ShellIs
<1>4. jobs' = [jobs EXCEPT ![s] = j]
  BY <1>1 DEF StopsHost
<1>5. ProcsQuiet(procs') /\ Owned(procs', shell')
  <2>1. procs' = ToldToStop(procs, {shell.host}) /\ shell.children \subseteq shell'.children \cup {shell.host}
    BY DEF StopsHost
  <2> QED BY <1>0, <2>1, ToldIsQuiet
<1>6. /\ s = "codex" => j.read \subseteq Wishes
      /\ shell' \in Shells /\ shell'.exited = shell.exited /\ shell'.quitting = shell.quitting /\ shell.asked <= shell'.asked
      /\ shell'.boots = 0 => shell.boots = 0 /\ shell'.page = "none"
  BY <1>0, <1>3, StillThere DEF DeskInv, UpInv
<1> QED BY <1>0, <1>3, <1>4, <1>5, <1>6, DeskQuiet

LEMMA WishAskedInv ==
  ASSUME DeskInv, NEW s \in Wishes, Asks(s), jobs' = Now(s, "dialog"), UNCHANGED <<procs, Rest>>
  PROVE  DeskInv'
<1>1. s \in Slots /\ "dialog" \in Pcs[s] /\ s # "fresh" /\ s \notin Quits
  BY SlotFacts
<1>2. ProcsQuiet(procs') /\ Owned(procs', shell')
  BY AsksIs, StillThere
<1> QED BY <1>1, <1>2, AsksIs, RestKept, StepOn

LEMMA WishOverInv ==
  ASSUME DeskInv, NEW s \in Wishes, jobs' = Over(s), UNCHANGED <<shell, procs>>, config' \subseteq Wishes,
         UNCHANGED <<signer, agreed, told>>
  PROVE  DeskInv'
<1>1. s \in Slots /\ s \notin Quits
  BY SlotFacts
<1>2. shell' \in Shells /\ SameRest(shell, shell') /\ shell.asked <= shell'.asked /\ shell'.page = shell.page
      /\ ProcsQuiet(procs') /\ Owned(procs', shell')
  BY StillThere
<1> QED BY <1>1, <1>2, JobOver

LEMMA GrantsInv ==
  ASSUME DeskInv, NEW g \in Grants, GrantAsked(g) \/ \E yes \in BOOLEAN : GrantChosen(g, yes)
  PROVE  DeskInv'
<1>0. g \in Wishes /\ config \subseteq Wishes
  BY DeskNow DEF Wishes, DeskInv
<1>1. CASE GrantAsked(g)
  BY <1>0, <1>1, WishAskedInv DEF GrantAsked
<1>2. CASE \E yes \in BOOLEAN : GrantChosen(g, yes)
  <2>0. UNCHANGED <<shell, signer, agreed, told>>
    BY <1>2 DEF GrantChosen
  <2>1. CASE config' = config \cup {g} /\ StopsHost(g)
    <3>1. config' \subseteq Wishes
      BY <1>0, <2>1
    <3> QED BY <1>0, <2>0, <2>1, <3>1, StopsHostInv
  <2>2. CASE jobs' = Over(g) /\ UNCHANGED <<config, procs>>
    BY <1>0, <2>0, <2>2, WishOverInv
  <2> QED BY <1>2, <2>1, <2>2 DEF GrantChosen
<1> QED BY <1>1, <1>2

LEMMA CodexInv ==
  ASSUME DeskInv, CodexAsked \/ \E yes \in BOOLEAN : CodexChosen(yes) \/ CodexChecked(yes)
  PROVE  DeskInv'
<1>0. DeskShapes /\ "codex" \in Wishes /\ "codex" \in Slots /\ config \subseteq Wishes /\ jobs["codex"].read \subseteq Wishes
  BY DeskNow, SlotFacts DEF Wishes, DeskInv
<1>1. CASE CodexAsked
  BY <1>0, <1>1, WishAskedInv DEF CodexAsked
<1>2. CASE \E yes \in BOOLEAN : CodexChosen(yes)
  <2>0. UNCHANGED <<shell, procs>> /\ UNCHANGED Rest
    BY <1>2 DEF CodexChosen
  <2>1. CASE jobs' = [jobs EXCEPT !["codex"] = [@ EXCEPT !.pc = "checking", !.read = config]]
    <3>1. PICK j : j = [jobs["codex"] EXCEPT !.pc = "checking", !.read = config]
      OBVIOUS
    <3>2. jobs["codex"] \in Jobs /\ jobs["codex"] = [pc |-> jobs["codex"].pc, child |-> jobs["codex"].child,
                                                     left |-> jobs["codex"].left, read |-> jobs["codex"].read,
                                                     who |-> jobs["codex"].who, no |-> jobs["codex"].no,
                                                     reply |-> jobs["codex"].reply]
      BY <1>0, DeskNow, JobIs
    <3>3. j = [pc |-> "checking", child |-> jobs["codex"].child, left |-> jobs["codex"].left, read |-> config,
               who |-> jobs["codex"].who, no |-> jobs["codex"].no, reply |-> jobs["codex"].reply]
      BY <3>1, <3>2
    <3>4. j \in Jobs /\ j.pc \in Pcs["codex"] /\ j.read \subseteq Wishes
      <4>1. "checking" \in AllPcs /\ "checking" \in Pcs["codex"] /\ config \subseteq Pids \cup Wishes
        BY <1>0, SlotFacts DEF AllPcs
      <4> QED BY <1>0, <3>2, <3>3, <4>1, JobIs DEF Jobs
    <3>5. jobs' = [jobs EXCEPT !["codex"] = j]
      BY <1>0, <2>1, <3>1, DeskNow
    <3>6. shell' \in Shells /\ SameRest(shell, shell') /\ shell.asked <= shell'.asked /\ shell'.page = shell.page
          /\ ProcsQuiet(procs') /\ Owned(procs', shell')
      BY <2>0, StillThere
    <3>7. /\ "codex" # "fresh" /\ "codex" \notin Quits
          /\ shell'.exited = shell.exited /\ shell'.quitting = shell.quitting
          /\ shell'.boots = 0 => shell.boots = 0 /\ shell'.page = "none"
      BY <2>0 DEF Quits, DeskInv, UpInv
    <3> QED BY <1>0, <2>0, <3>4, <3>5, <3>6, <3>7, RestKept, DeskQuiet
  <2>2. CASE jobs' = Over("codex")
    BY <1>0, <2>0, <2>2, RestKept, WishOverInv
  <2> QED BY <1>2, <2>1, <2>2 DEF CodexChosen
<1>3. CASE \E ok \in BOOLEAN : CodexChecked(ok)
  <2>0. UNCHANGED <<shell, signer, agreed, told>>
    BY <1>3 DEF CodexChecked
  <2>1. CASE config' = jobs["codex"].read \cup {"codex"} /\ StopsHost("codex")
    <3>1. config' \subseteq Wishes
      BY <1>0, <2>1
    <3> QED BY <1>0, <2>0, <2>1, <3>1, StopsHostInv
  <2>2. CASE jobs' = Over("codex") /\ UNCHANGED <<config, procs>>
    BY <1>0, <2>0, <2>2, WishOverInv
  <2> QED BY <1>3, <2>1, <2>2 DEF CodexChecked
<1> QED BY <1>1, <1>2, <1>3

LEMMA HostRestartsInv ==
  ASSUME DeskInv, NEW s \in Slots, HostRestarts(s)
  PROVE  DeskInv'
<1>0. shell \in Shells /\ ~shell.exited /\ UNCHANGED Rest /\ s \in Wishes /\ s \notin Quits /\ shell.exited = FALSE
  BY DeskNow, ShellIs, SlotFacts DEF DeskInv, HostRestarts, At, Wishes
<1>1. /\ Lives(procs, shell.host) \/ Free(procs) # {}
      /\ shell' = Launched(shell, procs).sh /\ procs' = Launched(shell, procs).ps /\ jobs' = Over(s)
  BY DEF HostRestarts
<1>2. /\ shell' \in Shells /\ ProcsQuiet(procs') /\ Owned(procs', shell')
      /\ shell'.quitting = shell.quitting /\ shell'.exited = shell.exited /\ shell'.page = shell.page
      /\ shell'.boots = shell.boots /\ shell'.asked = shell.asked
  BY <1>0, <1>1, LaunchInv
<1>3. SameRest(shell, shell') /\ shell.asked <= shell'.asked
  BY <1>0, <1>2, ShellIs, DeskConstants DEF SameRest
<1> QED BY <1>0, <1>1, <1>2, <1>3, RestKept, JobOver

(* Closing the window, and quitting.  The order of a shutdown leaves none  *)
(* of the shell's processes out.                                           *)
LeftOf(sh) == IfAny(sh.host) \o IfAny(sh.hub) \o Order(Others(sh))
LEMMA LeftIs ==
  ASSUME NEW sh \in Shells, NEW line, line = LeftOf(sh)
  PROVE  /\ line \in Seq(Pids)
         /\ \A p \in sh.children : \E i \in 1 .. Len(line) : line[i] = p
<1> DEFINE host == IfAny(sh.host)
           hub == IfAny(sh.hub)
           rest == Order(Others(sh))
<1>1. Others(sh) \in SUBSET Pids /\ sh.host \in 0 .. MaxProcs /\ sh.hub \in 0 .. MaxProcs /\ sh.children \subseteq Pids
  BY ShellIs DEF Others
<1>2. \A n \in 0 .. MaxProcs : /\ IfAny(n) \in Seq(Pids) /\ Len(IfAny(n)) \in Nat
                               /\ n # 0 => Len(IfAny(n)) = 1 /\ IfAny(n)[1] = n
  <2> SUFFICES ASSUME NEW n \in 0 .. MaxProcs
               PROVE  IfAny(n) \in Seq(Pids) /\ Len(IfAny(n)) \in Nat /\ (n # 0 => Len(IfAny(n)) = 1 /\ IfAny(n)[1] = n)
    OBVIOUS
  <2>1. CASE n = 0
    BY <2>1 DEF IfAny
  <2>2. CASE n # 0
    <3>1. n \in Pids
      BY <2>2, DeskConstants DEF Pids
    <3> QED BY <2>2, <3>1 DEF IfAny
  <2> QED BY <2>1, <2>2
<1>3. /\ rest \in Seq(Pids) /\ \A p \in Others(sh) : \E i \in 1 .. Len(rest) : rest[i] = p
  BY <1>1, OrderIs
<1>4. /\ host \in Seq(Pids) /\ Len(host) \in Nat /\ (sh.host # 0 => Len(host) = 1 /\ host[1] = sh.host)
      /\ hub \in Seq(Pids) /\ Len(hub) \in Nat /\ (sh.hub # 0 => Len(hub) = 1 /\ hub[1] = sh.hub)
  BY <1>1, <1>2
<1>5. line = (host \o hub) \o rest
  BY DEF LeftOf
<1> HIDE DEF host, hub, rest
<1>6. /\ host \o hub \in Seq(Pids) /\ Len(host \o hub) = Len(host) + Len(hub)
      /\ \A i \in 1 .. Len(host) + Len(hub) : (host \o hub)[i] = IF i <= Len(host) THEN host[i] ELSE hub[i - Len(host)]
  BY <1>4, ConcatProperties
<1>7. PICK both : both = host \o hub
  OBVIOUS
<1>8. /\ line \in Seq(Pids) /\ Len(line) = Len(both) + Len(rest)
      /\ \A i \in 1 .. Len(both) + Len(rest) : line[i] = IF i <= Len(both) THEN both[i] ELSE rest[i - Len(both)]
  BY <1>3, <1>5, <1>6, <1>7, ConcatProperties
<1>9. Len(rest) \in Nat /\ Len(both) \in Nat
  BY <1>3, <1>6, <1>7, <1>4
<1>10. ASSUME NEW p \in sh.children PROVE \E i \in 1 .. Len(line) : line[i] = p
  <2>0. p # 0 /\ p \in Nat
    BY <1>1, PidsAreNat
  <2>1. CASE p = sh.host
    <3>1. Len(host) = 1 /\ host[1] = p
      BY <1>4, <2>0, <2>1
    <3>2. both[1] = p /\ 1 <= Len(both)
      BY <1>4, <1>6, <1>7, <3>1
    <3>3. 1 \in 1 .. Len(both) + Len(rest)
      BY <1>9, <3>2
    <3>4. line[1] = p /\ 1 \in 1 .. Len(line)
      BY <1>8, <3>2, <3>3
    <3> QED BY <3>4
  <2>2. CASE p = sh.hub
    <3>1. Len(hub) = 1 /\ hub[1] = p
      BY <1>4, <2>0, <2>2
    <3>2. PICK k : k = Len(host) + 1
      OBVIOUS
    <3>3. both[k] = p /\ k \in 1 .. Len(both)
      BY <1>4, <1>6, <1>7, <3>1, <3>2
    <3>4. line[k] = p /\ k \in 1 .. Len(line)
      BY <1>8, <1>9, <3>3
    <3> QED BY <3>4
  <2>3. CASE p \notin {sh.host, sh.hub}
    <3>1. p \in Others(sh)
      BY <2>3 DEF Others
    <3>2. PICK i \in 1 .. Len(rest) : rest[i] = p
      BY <1>3, <3>1
    <3>3. PICK k : k = Len(both) + i
      OBVIOUS
    <3>4. k \in 1 .. Len(both) + Len(rest) /\ ~(k <= Len(both)) /\ k - Len(both) = i
      BY <1>9, <3>3
    <3>5. line[k] = p /\ k \in 1 .. Len(line)
      BY <1>8, <3>2, <3>4
    <3> QED BY <3>5
  <2> QED BY <2>1, <2>2, <2>3
<1> QED BY <1>8, <1>10

LEMMA DownJob ==
  ASSUME NEW line \in Seq(Pids), NEW j, j = [pc |-> "down", child |-> 0, left |-> line, read |-> {},
                                             who |-> NoSigner, no |-> 0, reply |-> "none"]
  PROVE  j \in Jobs /\ j.pc = "down" /\ j.left = line
<1>1. "down" \in AllPcs /\ 0 \in 0 .. MaxProcs /\ NoSigner \in Signers /\ 0 \in 0 .. MaxAsked
  BY DeskConstants, NothingIs DEF AllPcs
<1> QED BY <1>1 DEF Jobs

(* One function moves; the question to the host does not.                  *)
LEMMA QuitShapes ==
  ASSUME DeskInv, NEW s \in Quits, NEW j \in Jobs, j.pc \in Pcs[s], jobs' = [jobs EXCEPT ![s] = j],
         shell' \in Shells, ProcsQuiet(procs'), shell.asked <= shell'.asked, UNCHANGED Rest
  PROVE  /\ DeskShapes' /\ PostInv' /\ OneInv' /\ SignerInv'
         /\ jobs'[s] = j /\ \A r \in Quits : r # s => jobs'[r] = jobs[r]
<1>0. DeskShapes /\ s \in Slots /\ "fresh" \in Slots /\ "codex" \in Slots /\ Quits \subseteq Slots /\ s # "fresh" /\ s # "codex"
  BY SlotFacts DEF DeskInv, Quits
<1>1. /\ jobs' \in [Slots -> Jobs] /\ (\A t \in Slots : jobs'[t].pc \in Pcs[t])
      /\ jobs'[s] = j /\ \A t \in Slots : t # s => jobs'[t] = jobs[t]
  BY <1>0, JobSet
<1>2. UNCHANGED <<config, signer, agreed, told>>
  BY DEF Rest
<1>3. DeskShapes'
  <2>1. jobs'["codex"].read \subseteq Wishes
    BY <1>0, <1>1 DEF DeskShapes
  <2> QED BY <1>0, <1>1, <1>2, <2>1 DEF DeskShapes, ProcsQuiet
<1>4. PostInv' /\ OneInv' /\ SignerInv'
  <2>1. Fresh' = Fresh
    BY <1>0, <1>1 DEF Fresh
  <2>2. shell'.asked \in Int
    BY ShellIs
  <2> QED BY <1>2, <2>1, <2>2, FreshQuiet
<1> QED BY <1>0, <1>1, <1>3, <1>4

LEMMA ShutsDownInv ==
  ASSUME DeskInv, NEW s \in Quits, NEW sh \in Shells, sh.children = shell.children, SameRest(shell, sh), shell.asked <= sh.asked,
         ~shell.quitting, ~shell.exited, shell.boots # 0, ShutsDown(sh, s), UNCHANGED Rest
  PROVE  DeskInv'
<1>0. DeskShapes /\ s \in Slots /\ "down" \in Pcs[s]
  BY SlotFacts DEF DeskInv
<1>1. PICK line : line = LeftOf(sh)
  OBVIOUS
<1>2. /\ line \in Seq(Pids)
      /\ \A p \in sh.children : \E i \in 1 .. Len(line) : line[i] = p
  BY <1>1, LeftIs
<1>3. /\ shell' = [sh EXCEPT !.quitting = TRUE, !.children = {}]
      /\ jobs' = [jobs EXCEPT ![s] = [NoJob EXCEPT !.pc = "down", !.left = line]]
      /\ procs' = ToldToStop(procs, IF line = <<>> THEN {} ELSE {Head(line)})
  BY <1>1 DEF ShutsDown, LeftOf
<1>4. shell' \in Shells /\ shell'.quitting /\ shell'.exited = sh.exited /\ shell'.asked = sh.asked /\ shell'.boots = sh.boots
  <2>0. PICK b \in BOOLEAN : b = TRUE
    OBVIOUS
  <2>1. sh = [host |-> sh.host, hub |-> sh.hub, children |-> sh.children, quitting |-> sh.quitting,
              exited |-> sh.exited, launch |-> sh.launch, booted |-> sh.booted, page |-> sh.page,
              tray |-> sh.tray, boots |-> sh.boots, asked |-> sh.asked]
    BY ShellIs
  <2>2. shell' = [host |-> sh.host, hub |-> sh.hub, children |-> {}, quitting |-> b, exited |-> sh.exited,
                  launch |-> sh.launch, booted |-> sh.booted, page |-> sh.page, tray |-> sh.tray,
                  boots |-> sh.boots, asked |-> sh.asked]
    BY <1>3, <2>0, <2>1
  <2>3. {} \subseteq Pids
    OBVIOUS
  <2>4. shell' \in Shells
    BY <2>2, <2>3, ShellIs DEF Shells
  <2> QED BY <2>0, <2>2, <2>4
<1>5. PICK j : j = [NoJob EXCEPT !.pc = "down", !.left = line]
  OBVIOUS
<1>6. j = [pc |-> "down", child |-> 0, left |-> line, read |-> {}, who |-> NoSigner, no |-> 0, reply |-> "none"]
  BY <1>5 DEF NoJob
<1>7. j \in Jobs /\ j.pc = "down" /\ j.left = line
  BY <1>2, <1>6, DownJob
<1>8. PICK Stopped : Stopped = IF line = <<>> THEN {} ELSE {Head(line)}
  OBVIOUS
<1>9. procs' = ToldToStop(procs, Stopped)
  BY <1>3, <1>8
<1>10. ProcsQuiet(procs')
  BY <1>0, <1>9, ToldIsQuiet
<1>11. /\ DeskShapes' /\ PostInv' /\ OneInv' /\ SignerInv'
       /\ jobs'[s] = j /\ \A r \in Quits : r # s => jobs'[r] = jobs[r]
  <2>1. jobs' = [jobs EXCEPT ![s] = j] /\ shell.asked <= shell'.asked /\ j.pc \in Pcs[s]
    BY <1>0, <1>3, <1>4, <1>5, <1>7
  <2> QED BY <1>4, <1>7, <1>10, <2>1, QuitShapes
<1>12. \A r \in Quits : jobs[r].pc # "down"
  BY DEF DeskInv, UpInv
<1>13. UpInv'
  <2>1. \A p \in Pids : procs'[p].pc = "up" =>
          ~shell'.exited /\ (p \in shell'.children \/ \E r \in Quits : jobs'[r].pc = "down" /\ p \in Later(r)')
    <3> SUFFICES ASSUME NEW p \in Pids, procs'[p].pc = "up"
                 PROVE  ~shell'.exited /\ \E r \in Quits : jobs'[r].pc = "down" /\ p \in Later(r)'
      OBVIOUS
    <3>1. procs[p].pc = "up" /\ p \notin Stopped
      BY <1>0, <1>9, ToldIs
    <3>2. p \in shell.children
      BY <1>12, <3>1 DEF DeskInv, UpInv
    <3>3. PICK i \in 1 .. Len(line) : line[i] = p
      BY <1>2, <3>2
    <3>4. i # 1
      <4>1. line # <<>> /\ Head(line) = line[1]
        BY <1>2, <3>3
      <4> QED BY <1>8, <3>1, <3>3, <4>1
    <3>5. i \in 2 .. Len(line)
      BY <1>2, <3>3, <3>4
    <3>6. Later(s)' = {line[k] : k \in 2 .. Len(line)}
      BY <1>7, <1>11 DEF Later
    <3>7. p \in Later(s)'
      BY <3>3, <3>5, <3>6
    <3>8. ~shell'.exited
      BY <1>4 DEF SameRest
    <3> QED BY <1>7, <1>11, <3>7, <3>8
  <2>2. \A r \in Quits : jobs'[r].pc = "down" => shell'.quitting /\ \A t \in Quits : jobs'[t].pc = "down" => t = r
    BY <1>4, <1>11, <1>12
  <2>3. shell'.exited => shell'.quitting
    BY <1>4
  <2>4. shell'.boots # 0
    BY <1>4 DEF SameRest
  <2> QED BY <2>1, <2>2, <2>3, <2>4 DEF UpInv
<1> QED BY <1>11, <1>13 DEF DeskInv

LEMMA QuitStep ==
  ASSUME DeskInv, NEW s \in Quits, NEW pc \in {"plan", "asked"}, jobs' = Now(s, pc), jobs[s].pc # "down",
         shell' \in Shells, SameRest(shell, shell'), shell.boots # 0, shell.asked <= shell'.asked,
         shell'.children = shell.children, UNCHANGED <<procs, Rest>>
  PROVE  DeskInv'
<1>0. DeskShapes /\ s \in Slots /\ pc \in Pcs[s] /\ s # "fresh" /\ s # "codex"
  BY SlotFacts DEF DeskInv, Quits
<1>1. PICK j \in Jobs : /\ Now(s, pc) = [jobs EXCEPT ![s] = j] /\ j.pc = pc
                        /\ j = [pc |-> pc, child |-> jobs[s].child, left |-> jobs[s].left,
                                read |-> jobs[s].read, who |-> jobs[s].who, no |-> jobs[s].no,
                                reply |-> jobs[s].reply]
  BY <1>0, NowIs
<1>2. jobs' = [jobs EXCEPT ![s] = j] /\ j.pc \in Pcs[s] /\ j.pc # "down"
  BY <1>0, <1>1
<1>3. ProcsQuiet(procs') /\ Owned(procs', shell')
  BY StillThere
<1>4. shell'.boots # 0 /\ shell'.exited = shell.exited /\ shell'.quitting = shell.quitting
  BY DEF SameRest
<1> QED BY <1>0, <1>2, <1>3, <1>4, RestKept, DeskQuiet

LEMMA QuitBeginsInv ==
  ASSUME DeskInv, NEW s \in Quits, NEW sh \in Shells, SameRest(shell, sh), sh.children = shell.children, shell.asked <= sh.asked,
         shell.boots # 0, QuitBegins(sh, s), UNCHANGED Rest
  PROVE  DeskInv'
<1>0. ~shell.quitting /\ ~shell.exited /\ sh.asked < MaxAsked /\ jobs[s].pc = "idle"
  BY DEF QuitBegins, SameRest, DeskInv, UpInv, Idle
<1>1. PICK s2 : s2 = [sh EXCEPT !.asked = sh.asked + 1]
  OBVIOUS
<1>2. /\ s2 \in Shells /\ SameRest(sh, s2) /\ s2.asked = sh.asked + 1 /\ sh.asked <= s2.asked
      /\ s2.children = sh.children
  BY <1>0, <1>1, AskedMore
<1>3. SameRest(shell, s2) /\ s2.children = shell.children
  BY <1>2 DEF SameRest
<1>4. shell.asked <= s2.asked
  <2>1. shell.asked \in Int /\ sh.asked \in Int /\ s2.asked \in Int
    BY <1>2, ShellIs, DeskNow DEF DeskInv
  <2> QED BY <1>2, <2>1
<1>5. CASE jobs' = Now(s, "plan") /\ shell' = s2 /\ UNCHANGED procs
  BY <1>0, <1>2, <1>3, <1>4, <1>5, QuitStep
<1>6. CASE ShutsDown(s2, s)
  BY <1>0, <1>2, <1>3, <1>4, <1>6, ShutsDownInv
<1>7. (jobs' = Now(s, "plan") /\ shell' = s2 /\ UNCHANGED procs) \/ ShutsDown(s2, s)
  BY <1>1 DEF QuitBegins
<1> QED BY <1>5, <1>6, <1>7

LEMMA QuitsInv ==
  ASSUME DeskInv, NEW s \in Quits, QuitAsked(s) \/ QuitPlanned(s) \/ \E yes \in BOOLEAN : QuitAnswered(s, yes)
  PROVE  DeskInv'
<1>0. shell \in Shells /\ SameRest(shell, shell) /\ shell.asked <= shell.asked /\ s \in Slots
  BY StillThere, SlotFacts
<1>1. CASE QuitAsked(s)
  <2>1. shell.boots # 0 /\ QuitBegins(shell, s) /\ UNCHANGED Rest
    BY <1>0, <1>1, ShellIs, DeskConstants DEF QuitAsked
  <2> QED BY <1>0, <2>1, QuitBeginsInv
<1>2. CASE QuitPlanned(s) \/ \E yes \in BOOLEAN : QuitAnswered(s, yes)
  <2>0. jobs[s].pc \in {"plan", "asked"} /\ ~shell.exited /\ UNCHANGED Rest
    BY <1>2 DEF QuitPlanned, QuitAnswered, At
  <2>1. shell.boots # 0 /\ jobs[s].pc # "down"
    BY <2>0 DEF DeskInv, UpInv
  <2>2. CASE jobs' = Now(s, "asked") /\ UNCHANGED <<shell, procs>>
    BY <1>0, <2>0, <2>1, <2>2, QuitStep
  <2>3. CASE jobs' = Over(s) /\ UNCHANGED <<shell, procs>>
    <3>1. shell' \in Shells /\ SameRest(shell, shell') /\ shell.asked <= shell'.asked /\ shell'.page = shell.page
          /\ ProcsQuiet(procs') /\ Owned(procs', shell')
      BY <2>3, StillThere
    <3> QED BY <1>0, <2>0, <2>1, <2>3, <3>1, RestKept, JobOver
  <2>4. CASE ~shell.quitting /\ ShutsDown(shell, s)
    BY <1>0, <2>0, <2>1, <2>4, ShutsDownInv
  <2> QED BY <1>2, <2>2, <2>3, <2>4 DEF QuitPlanned, QuitAnswered
<1> QED BY <1>1, <1>2

LEMMA WindowClosedInv == DeskInv /\ WindowClosed => DeskInv'
<1> SUFFICES ASSUME DeskInv, WindowClosed PROVE DeskInv'
  OBVIOUS
<1>0. shell \in Shells /\ shell.boots # 0 /\ UNCHANGED Rest /\ "quit" \in Quits
  BY DeskNow DEF DeskInv, UpInv, WindowClosed, Quits
<1>1. PICK s2 : s2 = [shell EXCEPT !.page = "none"]
  OBVIOUS
<1>2. /\ s2 \in Shells /\ SameRest(shell, s2) /\ shell.asked <= s2.asked /\ s2.children = shell.children
  BY <1>0, <1>1, OnlyPage
<1>3. QuitBegins(s2, "quit")
  BY <1>1 DEF WindowClosed
<1> QED BY <1>0, <1>2, <1>3, QuitBeginsInv

LEMMA ShutdownGoesOnInv ==
  ASSUME DeskInv, NEW s \in Quits, ShutdownGoesOn(s)
  PROVE  DeskInv'
<1>0. /\ DeskShapes /\ s \in Slots /\ "down" \in Pcs[s] /\ jobs[s].pc = "down" /\ ~shell.exited /\ UNCHANGED Rest
      /\ jobs[s] \in Jobs /\ jobs[s].left \in Seq(Pids) /\ shell \in Shells /\ jobs \in [Slots -> Jobs]
  BY DeskNow, JobIs, SlotFacts DEF DeskInv, ShutdownGoesOn, At
<1>1. PICK line : line = IF jobs[s].left = <<>> THEN <<>> ELSE Tail(jobs[s].left)
  OBVIOUS
<1>2. /\ line \in Seq(Pids)
      /\ \A i \in 2 .. Len(jobs[s].left) : i - 1 \in 1 .. Len(line) /\ line[i - 1] = jobs[s].left[i]
  <2>1. CASE jobs[s].left = <<>>
    BY <1>1, <2>1
  <2>2. CASE jobs[s].left # <<>>
    <3>1. /\ line \in Seq(Pids) /\ Len(line) = Len(jobs[s].left) - 1
          /\ \A i \in 1 .. Len(line) : line[i] = jobs[s].left[i + 1]
      BY <1>0, <1>1, <2>2, HeadTailProperties
    <3> SUFFICES ASSUME NEW i \in 2 .. Len(jobs[s].left)
                 PROVE  i - 1 \in 1 .. Len(line) /\ line[i - 1] = jobs[s].left[i]
      BY <3>1
    <3>2. Len(jobs[s].left) \in Nat
      BY <1>0
    <3>3. i - 1 \in 1 .. Len(line) /\ (i - 1) + 1 = i
      BY <3>1, <3>2
    <3> QED BY <3>1, <3>3
  <2> QED BY <2>1, <2>2
<1>3. \A p \in Pids : procs[p].pc = "up" => p \in shell.children \/ p \in Later(s)
  BY <1>0 DEF DeskInv, UpInv
<1>4. CASE line # <<>> /\ jobs' = [jobs EXCEPT ![s].left = line] /\ procs' = ToldToStop(procs, {Head(line)}) /\ UNCHANGED shell
  <2>1. PICK j : j = [jobs[s] EXCEPT !.left = line]
    OBVIOUS
  <2>2. jobs[s] = [pc |-> jobs[s].pc, child |-> jobs[s].child, left |-> jobs[s].left, read |-> jobs[s].read,
                   who |-> jobs[s].who, no |-> jobs[s].no, reply |-> jobs[s].reply]
    BY <1>0, JobIs
  <2>3. j = [pc |-> jobs[s].pc, child |-> jobs[s].child, left |-> line, read |-> jobs[s].read,
             who |-> jobs[s].who, no |-> jobs[s].no, reply |-> jobs[s].reply]
    BY <2>1, <2>2
  <2>4. j \in Jobs /\ j.pc = "down" /\ j.left = line
    BY <1>0, <1>2, <2>3, JobIs DEF Jobs
  <2>5. jobs' = [jobs EXCEPT ![s] = j]
    BY <1>0, <1>4, <2>1
  <2>6. ProcsQuiet(procs') /\ shell' \in Shells /\ shell.asked <= shell'.asked
    BY <1>0, <1>4, ToldIsQuiet, StillThere
  <2>7. /\ DeskShapes' /\ PostInv' /\ OneInv' /\ SignerInv'
        /\ jobs'[s] = j /\ \A r \in Quits : r # s => jobs'[r] = jobs[r]
    BY <1>0, <2>4, <2>5, <2>6, QuitShapes
  <2>8. \A p \in Pids : procs'[p].pc = "up" => procs[p].pc = "up" /\ p # Head(line)
    BY <1>0, <1>4, ToldIs
  <2>9. ASSUME NEW p \in Pids, procs'[p].pc = "up", p \in Later(s) PROVE p \in Later(s)'
    <3>1. PICK i \in 2 .. Len(jobs[s].left) : p = jobs[s].left[i]
      BY <2>9 DEF Later
    <3>2. i - 1 \in 1 .. Len(line) /\ line[i - 1] = p
      BY <1>2, <3>1
    <3>3. i - 1 # 1
      <4>1. Head(line) = line[1]
        BY <1>2, <1>4
      <4>2. p # Head(line)
        BY <2>8, <2>9
      <4> QED BY <3>2, <4>1, <4>2
    <3>4. PICK k : k = i - 1
      OBVIOUS
    <3>5. k \in 2 .. Len(line) /\ line[k] = p
      BY <3>2, <3>3, <3>4
    <3>6. Later(s)' = {line[x] : x \in 2 .. Len(line)}
      BY <2>4, <2>7 DEF Later
    <3> QED BY <3>5, <3>6
  <2>10. UpInv'
    <3>1. \A p \in Pids : procs'[p].pc = "up" =>
            ~shell'.exited /\ (p \in shell'.children \/ \E r \in Quits : jobs'[r].pc = "down" /\ p \in Later(r)')
      BY <1>0, <1>3, <1>4, <2>4, <2>7, <2>8, <2>9
    <3>2. \A r \in Quits : jobs'[r].pc = "down" <=> jobs[r].pc = "down"
      BY <1>0, <2>4, <2>7
    <3>3. \A r \in Quits : jobs'[r].pc = "down" => shell'.quitting /\ \A t \in Quits : jobs'[t].pc = "down" => t = r
      BY <1>4, <3>2 DEF DeskInv, UpInv
    <3>4. shell'.exited => shell'.quitting
      BY <1>0, <1>4
    <3>5. shell'.boots # 0
      BY <1>0, <1>4 DEF DeskInv, UpInv
    <3> QED BY <3>1, <3>3, <3>4, <3>5 DEF UpInv
  <2> QED BY <2>7, <2>10 DEF DeskInv
<1>5. CASE line = <<>> /\ AppExits /\ jobs' = [x \in Slots |-> NoJob]
  <2>1. shell' \in Shells /\ shell'.exited /\ shell'.quitting /\ shell'.boots = shell.boots /\ shell'.asked = shell.asked
    <3>0. PICK b \in BOOLEAN : b = TRUE
      OBVIOUS
    <3>1. shell = [host |-> shell.host, hub |-> shell.hub, children |-> shell.children,
                   quitting |-> shell.quitting, exited |-> shell.exited, launch |-> shell.launch,
                   booted |-> shell.booted, page |-> shell.page, tray |-> shell.tray, boots |-> shell.boots,
                   asked |-> shell.asked]
      BY <1>0, ShellIs
    <3>2. shell' = [host |-> shell.host, hub |-> shell.hub, children |-> shell.children,
                    quitting |-> shell.quitting, exited |-> b, launch |-> shell.launch,
                    booted |-> shell.booted, page |-> shell.page, tray |-> shell.tray, boots |-> shell.boots,
                    asked |-> shell.asked]
      BY <1>5, <3>0, <3>1 DEF AppExits
    <3>3. shell' \in Shells
      BY <1>0, <3>2, ShellIs DEF Shells
    <3>4. shell'.quitting
      BY <1>0, <3>2 DEF DeskInv, UpInv
    <3> QED BY <3>0, <3>2, <3>3, <3>4
  <2>2. Later(s) = {}
    <3>1. \A i \in 2 .. Len(jobs[s].left) : i - 1 \in 1 .. Len(line)
      BY <1>2
    <3>2. Len(line) = 0
      BY <1>5
    <3> QED BY <3>1, <3>2 DEF Later
  <2>3. procs' = ToldToStop(procs, shell.children)
    BY <1>5 DEF AppExits
  <2>4. ProcsQuiet(procs')
    BY <1>0, <2>3, ToldIsQuiet
  <2>5. \A p \in Pids : procs'[p].pc # "up"
    BY <1>0, <1>3, <2>2, <2>3, ToldIs
  <2>6. \A t \in Slots : jobs'[t] = NoJob
    BY <1>5
  <2>7. "fresh" \in Slots /\ "codex" \in Slots /\ Quits \subseteq Slots
    BY SlotFacts
  <2>8. UNCHANGED <<config, signer, agreed, told>>
    BY <1>0 DEF Rest
  <2>9. DeskShapes'
    <3>1. jobs' \in [Slots -> Jobs] /\ \A t \in Slots : jobs'[t].pc \in Pcs[t]
      BY <1>5, NothingIs, SlotFacts
    <3>2. jobs'["codex"].read \subseteq Wishes
      BY <2>6, <2>7, NothingIs
    <3> QED BY <1>0, <2>1, <2>4, <2>8, <3>1, <3>2 DEF DeskShapes, ProcsQuiet
  <2>10. UpInv'
    <3>1. \A t \in Quits : jobs'[t].pc = "idle"
      BY <2>6, <2>7, NothingIs
    <3>2. shell'.boots # 0
      BY <1>0, <2>1 DEF DeskInv, UpInv
    <3> QED BY <2>1, <2>5, <3>1, <3>2 DEF UpInv
  <2>11. PostInv' /\ OneInv' /\ SignerInv'
    <3>1. Fresh'.pc = "idle" /\ Fresh'.reply = "none"
      BY <2>6, <2>7, NothingIs DEF Fresh
    <3>2. shell'.asked \in Int /\ shell.asked <= shell'.asked
      BY <1>0, <2>1, ShellIs, DeskConstants
    <3> QED BY <2>4, <2>8, <3>1, <3>2, FreshQuiet
  <2> QED BY <2>9, <2>10, <2>11 DEF DeskInv
<1> QED BY <1>1, <1>4, <1>5 DEF ShutdownGoesOn

(* The question to the host: what leaves its processes alone.              *)
LEMMA FreshOverInv ==
  ASSUME DeskInv, FreshOver, UNCHANGED <<shell, procs, Rest>>
  PROVE  DeskInv'
<1>1. "fresh" \in Slots /\ "fresh" \notin Quits
  BY SlotFacts DEF Quits
<1>2. shell' \in Shells /\ SameRest(shell, shell') /\ shell.asked <= shell'.asked /\ shell'.page = shell.page
      /\ ProcsQuiet(procs') /\ Owned(procs', shell')
  BY StillThere
<1> QED BY <1>1, <1>2, RestKept, JobOver DEF FreshOver

(* The person said yes to one more.                                        *)
LEMMA AgreedInv ==
  ASSUME DeskInv, FreshOver, UNCHANGED <<shell, procs, config, signer, told>>,
         agreed \subseteq agreed', agreed' \subseteq Candidates
  PROVE  DeskInv'
<1>0. DeskShapes /\ "fresh" \in Slots /\ "codex" \in Slots /\ Quits \subseteq Slots \ {"fresh"}
  BY SlotFacts DEF DeskInv
<1>1. /\ jobs' \in [Slots -> Jobs] /\ (\A t \in Slots : jobs'[t].pc \in Pcs[t])
      /\ jobs'["fresh"] = NoJob /\ \A t \in Slots : t # "fresh" => jobs'[t] = jobs[t]
  BY <1>0, JobSet, OverJob DEF FreshOver
<1>2. DeskShapes'
  BY <1>0, <1>1 DEF DeskShapes
<1>3. UpInv'
  <2>1. \A s \in Quits : jobs'[s] = jobs[s] /\ Later(s)' = Later(s)
    BY <1>0, <1>1 DEF Later
  <2> QED BY <2>1 DEF DeskInv, UpInv
<1>4. PostInv'
  <2>1. \A p \in Pids : Len(procs[p].mail) <= 2 /\ procs[p].offer.prior \in agreed' \cup {NoSigner}
    BY DEF DeskInv, PostInv
  <2>2. \A p \in Pids : \A i \in 1 .. Len(procs[p].mail) :
         procs[p].mail[i].no <= shell.asked /\ (procs[p].mail[i].kind = "commit" => procs[p].mail[i].who \in agreed')
    BY DEF DeskInv, PostInv
  <2>3. \A p, q \in Pids : \A i \in 1 .. Len(procs[p].mail), j \in 1 .. Len(procs[q].mail) :
          procs[p].mail[i].kind = "prepare" /\ procs[q].mail[j].kind = "commit" => procs[p].mail[i].no # procs[q].mail[j].no
    BY DEF DeskInv, PostInv
  <2> QED BY <2>1, <2>2, <2>3 DEF PostInv
<1>5. Fresh'.pc = "idle" /\ Fresh'.reply = "none"
  BY <1>1, NothingIs DEF Fresh
<1>6. OneInv'
  BY <1>5 DEF OneInv
<1>7. SignerInv'
  BY <1>5 DEF SignerInv, DeskInv
<1> QED BY <1>2, <1>3, <1>4, <1>6, <1>7 DEF DeskInv

(* A stage of the question is reached: the processes are quiet, and the    *)
(* request's own part of the invariant is shown for the stage.             *)
LEMMA FreshJob ==
  ASSUME DeskShapes, NEW pc \in Pcs["fresh"], NEW child \in 0 .. MaxProcs, NEW reply \in {"none", "ok", "no"}
  PROVE  \E j \in Jobs : /\ j = [pc |-> pc, child |-> child, left |-> Fresh.left, read |-> Fresh.read,
                                 who |-> Fresh.who, no |-> Fresh.no, reply |-> reply]
                         /\ j.pc = pc /\ j.child = child /\ j.reply = reply /\ j.who = Fresh.who /\ j.no = Fresh.no
<1>1. Fresh \in Jobs /\ pc \in AllPcs
  BY DeskNow, SlotFacts DEF Fresh
<1>2. [pc |-> pc, child |-> child, left |-> Fresh.left, read |-> Fresh.read, who |-> Fresh.who,
       no |-> Fresh.no, reply |-> reply] \in Jobs
  BY <1>1, JobIs DEF Jobs
<1> QED BY <1>2

LEMMA FreshMoves ==
  ASSUME DeskInv, ProcsQuiet(procs'), Owned(procs', shell'), shell' \in Shells, SameRest(shell, shell'),
         shell.asked <= shell'.asked, shell'.page = shell.page, NEW j \in Jobs, j.pc \in Pcs["fresh"],
         jobs' = [jobs EXCEPT !["fresh"] = j], UNCHANGED Rest, OneInv', SignerInv'
  PROVE  DeskInv'
<1>0. DeskShapes /\ "fresh" \in Slots /\ "codex" \in Slots /\ Quits \subseteq Slots \ {"fresh"}
  BY SlotFacts DEF DeskInv
<1>1. /\ jobs' \in [Slots -> Jobs] /\ (\A t \in Slots : jobs'[t].pc \in Pcs[t])
      /\ \A t \in Slots : t # "fresh" => jobs'[t] = jobs[t]
  BY <1>0, JobSet
<1>2. UNCHANGED <<config, signer, agreed, told>>
  BY DEF Rest
<1>3. DeskShapes'
  <2>1. jobs'["codex"].read \subseteq Wishes
    BY <1>0, <1>1 DEF DeskShapes
  <2> QED BY <1>0, <1>1, <1>2, <2>1 DEF DeskShapes, ProcsQuiet
<1>4. UpInv'
  <2>1. \A s \in Quits : jobs'[s] = jobs[s]
    BY <1>0, <1>1
  <2>2. shell'.exited = shell.exited /\ shell'.quitting = shell.quitting
    BY DEF SameRest
  <2>3. shell'.boots = 0 => shell'.page = "none" /\ ~shell.quitting /\ \A s \in Quits : jobs'[s].pc = "idle"
    BY <2>1 DEF SameRest, DeskInv, UpInv
  <2> QED BY <2>1, <2>2, <2>3, UpQuiet
<1>5. PostInv'
  <2>1. shell'.asked \in Int
    BY ShellIs
  <2> QED BY <1>2, <2>1, PostQuiet
<1> QED BY <1>3, <1>4, <1>5 DEF DeskInv

(* No message bears the number of a request that was answered.             *)
LEMMA NoneLeft ==
  ASSUME DeskInv, Fresh.pc # "idle", Fresh.reply # "none" \/ Fresh.pc \notin {"prepare", "commit"},
         NEW p \in Pids, NEW i \in 1 .. Len(procs[p].mail)
  PROVE  procs[p].mail[i].no # Fresh.no
<1>1. procs[p].mail[i].kind \in {"prepare", "commit"}
  BY MailIs DEF DeskInv
<1> QED BY <1>1 DEF DeskInv, OneInv

LEMMA FreshRepliedInv ==
  ASSUME DeskInv, NEW late \in BOOLEAN, FreshReplied(late)
  PROVE  DeskInv'
<1>0. /\ DeskShapes /\ UNCHANGED shell /\ UNCHANGED Rest /\ jobs \in [Slots -> Jobs] /\ "fresh" \in Slots
      /\ Fresh.reply # "none" /\ Fresh.pc \in {"prepare", "commit"} /\ Fresh \in Jobs
      /\ shell \in Shells /\ SameRest(shell, shell) /\ shell.asked <= shell.asked
  BY DeskNow, SlotFacts, StillThere DEF DeskInv, OneInv, FreshReplied, Fresh
<1>1. CASE FreshOver /\ UNCHANGED procs
  BY <1>0, <1>1, FreshOverInv
<1>2. ASSUME NEW pc, /\ pc = "dialog" /\ Fresh.pc = "prepare" /\ UNCHANGED procs
                     \/ /\ pc = "stopping" /\ Fresh.pc = "commit" /\ Fresh.reply = "ok"
                        /\ procs' = ToldToStop(procs, {shell.host}),
             jobs' = [jobs EXCEPT !["fresh"].pc = pc, !["fresh"].reply = "none"]
      PROVE  DeskInv'
  <2>1. pc \in Pcs["fresh"] /\ Fresh.child \in 0 .. MaxProcs /\ pc \notin {"idle", "ready", "prepare", "commit"}
    BY <1>0, <1>2, JobIs, SlotFacts
  <2>2. PICK j \in Jobs : /\ j = [pc |-> pc, child |-> Fresh.child, left |-> Fresh.left, read |-> Fresh.read,
                                  who |-> Fresh.who, no |-> Fresh.no, reply |-> "none"]
                          /\ j.pc = pc /\ j.child = Fresh.child /\ j.reply = "none" /\ j.who = Fresh.who /\ j.no = Fresh.no
    BY <1>0, <2>1, FreshJob
  <2>3. jobs' = [jobs EXCEPT !["fresh"] = j]
    <3>1. jobs["fresh"] = [pc |-> jobs["fresh"].pc, child |-> jobs["fresh"].child, left |-> jobs["fresh"].left,
                           read |-> jobs["fresh"].read, who |-> jobs["fresh"].who, no |-> jobs["fresh"].no,
                           reply |-> jobs["fresh"].reply]
      BY <1>0, JobIs DEF Fresh
    <3>4. PICK k : k = [jobs["fresh"] EXCEPT !.pc = pc, !.reply = "none"]
      OBVIOUS
    <3>5. k = [pc |-> pc, child |-> jobs["fresh"].child, left |-> jobs["fresh"].left,
               read |-> jobs["fresh"].read, who |-> jobs["fresh"].who, no |-> jobs["fresh"].no,
               reply |-> "none"]
      BY <3>1, <3>4
    <3>2. k = j
      BY <2>2, <3>5 DEF Fresh
    <3>3. jobs' = [jobs EXCEPT !["fresh"] = k]
      BY <1>0, <1>2, <3>4
    <3> QED BY <3>2, <3>3
  <2>4. Fresh' = j
    BY <1>0, <2>3 DEF Fresh
  <2>5. /\ ProcsQuiet(procs') /\ Owned(procs', shell')
        /\ \A p \in Pids : procs'[p].mail = procs[p].mail /\ procs'[p].offer = procs[p].offer
        /\ \A p \in Pids : procs'[p].pc = "none" => procs[p].pc = "none"
    <3>1. CASE UNCHANGED procs
      BY <1>0, <3>1, StillThere
    <3>2. CASE procs' = ToldToStop(procs, {shell.host})
      BY <1>0, <3>2, ToldIsQuiet, ToldIs
    <3> QED BY <1>2, <3>1, <3>2
  <2>6. OneInv'
    <3>1. \A p \in Pids : \A i \in 1 .. Len(procs'[p].mail) : procs'[p].mail[i].no # j.no
      BY <1>0, <2>2, <2>5, NoneLeft
    <3>2. j.no \in 1 .. shell.asked /\ j.who \in Candidates
      BY <1>0, <2>2 DEF DeskInv, OneInv
    <3>3. \A p \in Pids : j.child = p => procs'[p].pc # "none"
      BY <1>0, <2>2, <2>5 DEF DeskInv, OneInv
    <3>4. \A p \in Pids : j.child = p /\ j.pc = "dialog" => procs'[p].mail = <<>>
      BY <1>0, <1>2, <2>2, <2>5 DEF DeskInv, OneInv
    <3>5. \A p \in Pids : \A i \in 1 .. Len(procs'[p].mail) :
            procs'[p].mail[i].kind = "commit" /\ procs'[p].mail[i].no # j.no
            /\ procs'[p].offer.no = procs'[p].mail[i].no => procs'[p].offer.prior # j.who
      BY <1>0, <2>2, <2>5 DEF DeskInv, OneInv
    <3> QED BY <1>0, <2>1, <2>2, <2>4, <3>1, <3>2, <3>3, <3>4, <3>5 DEF OneInv
  <2>7. SignerInv'
    <3>1. UNCHANGED <<signer, agreed, told>>
      BY <1>0 DEF Rest
    <3>2. pc = "stopping" => j.who \in agreed /\ signer = j.who
      BY <1>2, <2>2 DEF DeskInv, SignerInv
    <3> QED BY <1>2, <2>1, <2>2, <2>4, <3>1, <3>2 DEF DeskInv, SignerInv
  <2>8. shell' \in Shells /\ SameRest(shell, shell') /\ shell.asked <= shell'.asked /\ shell'.page = shell.page
    BY <1>0
  <2> QED BY <1>0, <2>1, <2>2, <2>3, <2>5, <2>6, <2>7, <2>8, FreshMoves
<1>3. CASE /\ jobs["fresh"].pc = "prepare" /\ UNCHANGED procs
           /\ IF late THEN FreshOver ELSE jobs' = [jobs EXCEPT !["fresh"].pc = "dialog", !["fresh"].reply = "none"]
  BY <1>1, <1>2, <1>3 DEF Fresh
<1>4. CASE /\ jobs["fresh"].reply = "ok" /\ jobs["fresh"].pc = "commit"
           /\ IF shell.quitting THEN FreshOver /\ UNCHANGED procs
              ELSE /\ jobs' = [jobs EXCEPT !["fresh"].pc = "stopping", !["fresh"].reply = "none"]
                   /\ procs' = ToldToStop(procs, {shell.host})
  BY <1>1, <1>2, <1>4 DEF Fresh
<1> QED BY <1>1, <1>3, <1>4 DEF FreshReplied

LEMMA FreshTimesOutInv == DeskInv /\ FreshTimesOut => DeskInv'
  BY FreshOverInv DEF FreshTimesOut

LEMMA FreshRestartsInv == DeskInv /\ FreshRestarts => DeskInv'
<1> SUFFICES ASSUME DeskInv, FreshRestarts PROVE DeskInv'
  OBVIOUS
<1>0. /\ DeskShapes /\ UNCHANGED Rest /\ jobs \in [Slots -> Jobs] /\ "fresh" \in Slots /\ procs \in [Pids -> Procs]
      /\ Fresh.pc = "stopping" /\ Fresh \in Jobs /\ ~shell.exited /\ shell.exited = FALSE /\ ~Lives(procs, Fresh.child)
      /\ shell \in Shells /\ SameRest(shell, shell) /\ shell.asked <= shell.asked
  BY DeskNow, SlotFacts, StillThere, ShellIs DEF DeskInv, FreshRestarts, At, Fresh
<1>1. CASE FreshOver /\ UNCHANGED <<shell, procs>>
  BY <1>0, <1>1, FreshOverInv
<1>2. CASE /\ shell.host = Fresh.child /\ Free(procs) # {}
           /\ shell' = Launched(shell, procs).sh /\ procs' = Launched(shell, procs).ps
           /\ jobs' = [jobs EXCEPT !["fresh"].pc = "ready", !["fresh"].child = Launched(shell, procs).sh.host]
  <2>1. PICK s2 \in Shells :
           /\ Launched(shell, procs).sh = s2
           /\ \/ s2 = shell /\ Launched(shell, procs).ps = procs /\ (~shell.launch \/ Lives(procs, shell.host))
              \/ \E p \in Pids : /\ procs[p].pc = "none" /\ Launched(shell, procs).ps = Started(procs, p, "host")
                                 /\ s2.children = shell.children \cup {p} /\ s2.host = p
           /\ shell.children \subseteq s2.children
           /\ s2.quitting = shell.quitting /\ s2.exited = shell.exited /\ s2.launch = shell.launch /\ s2.booted = shell.booted
           /\ s2.page = shell.page /\ s2.boots = shell.boots /\ s2.asked = shell.asked
    BY <1>0, <1>2, LaunchedIs
  <2>2. shell' = s2 /\ jobs' = [jobs EXCEPT !["fresh"].pc = "ready", !["fresh"].child = s2.host]
    BY <1>2, <2>1
  <2>3. ProcsQuiet(procs') /\ Owned(procs', shell')
    BY <1>0, <1>2, LaunchInv
  <2>4. "ready" \in Pcs["fresh"] /\ s2.host \in 0 .. MaxProcs
    BY <2>1, ShellIs, SlotFacts
  <2>50. Fresh.reply = "none"
    BY <1>0 DEF DeskInv, OneInv
  <2>5. PICK j \in Jobs : /\ j = [pc |-> "ready", child |-> s2.host, left |-> Fresh.left, read |-> Fresh.read,
                                  who |-> Fresh.who, no |-> Fresh.no, reply |-> "none"]
                          /\ j.pc = "ready" /\ j.child = s2.host /\ j.reply = "none" /\ j.who = Fresh.who /\ j.no = Fresh.no
    BY <1>0, <2>4, FreshJob
  <2>6. jobs' = [jobs EXCEPT !["fresh"] = j]
    <3>1. jobs["fresh"] = [pc |-> jobs["fresh"].pc, child |-> jobs["fresh"].child, left |-> jobs["fresh"].left,
                           read |-> jobs["fresh"].read, who |-> jobs["fresh"].who, no |-> jobs["fresh"].no,
                           reply |-> jobs["fresh"].reply]
      BY <1>0, JobIs DEF Fresh
    <3>4. PICK k : k = [jobs["fresh"] EXCEPT !.pc = "ready", !.child = s2.host]
      OBVIOUS
    <3>5. k = [pc |-> "ready", child |-> s2.host, left |-> jobs["fresh"].left, read |-> jobs["fresh"].read,
               who |-> jobs["fresh"].who, no |-> jobs["fresh"].no, reply |-> jobs["fresh"].reply]
      BY <3>1, <3>4
    <3>2. k = j
      BY <2>5, <2>50, <3>5 DEF Fresh
    <3>3. jobs' = [jobs EXCEPT !["fresh"] = k]
      BY <1>0, <2>2, <3>4
    <3> QED BY <3>2, <3>3
  <2>7. Fresh' = j
    BY <1>0, <2>6 DEF Fresh
  <2>8. \A p \in Pids : \A i \in 1 .. Len(procs'[p].mail) :
          procs'[p].mail = procs[p].mail /\ procs'[p].offer = procs[p].offer /\ i \in 1 .. Len(procs[p].mail)
    <3> SUFFICES ASSUME NEW p \in Pids, NEW i \in 1 .. Len(procs'[p].mail)
                 PROVE  procs'[p].mail = procs[p].mail /\ procs'[p].offer = procs[p].offer /\ i \in 1 .. Len(procs[p].mail)
      OBVIOUS
    <3>1. procs'[p].mail # <<>>
      OBVIOUS
    <3> QED BY <2>3, <3>1 DEF ProcsQuiet
  <2>9. \A p \in Pids : p = s2.host =>
          procs'[p].pc # "none" /\ (procs'[p].pc \in {"up", "stopping"} => procs'[p].signer = Fresh.who)
    <3>1. CASE s2 = shell /\ procs' = procs
      <4>1. \A p \in Pids : p = shell.host => procs[p].pc \notin {"none", "up", "stopping"}
        <5>1. \A p \in Pids : p = Fresh.child => procs[p].pc # "none" /\ p # 0
          BY <1>0, PidsAreNat DEF DeskInv, OneInv
        <5> QED BY <1>0, <1>2, <5>1 DEF Lives
      <4> QED BY <3>1, <4>1
    <3>2. CASE \E p \in Pids : procs[p].pc = "none" /\ procs' = Started(procs, p, "host") /\ s2.host = p
      <4>1. PICK p \in Pids : procs[p].pc = "none" /\ procs' = Started(procs, p, "host") /\ s2.host = p
        BY <3>2
      <4>2. procs'[p].pc = "up" /\ procs'[p].signer = signer
        BY <1>0, <4>1, StartedIs
      <4>3. signer = Fresh.who
        BY <1>0 DEF DeskInv, SignerInv
      <4> QED BY <4>1, <4>2, <4>3
    <3> QED BY <1>2, <2>1, <3>1, <3>2
  <2>10. OneInv'
    <3>1. \A p \in Pids : \A i \in 1 .. Len(procs'[p].mail) : procs'[p].mail[i].no # j.no
      BY <1>0, <2>5, <2>8, NoneLeft
    <3>2. j.no \in 1 .. shell'.asked /\ j.who \in Candidates
      BY <1>0, <2>1, <2>2, <2>5 DEF DeskInv, OneInv
    <3>3. \A p \in Pids : j.child = p => procs'[p].pc # "none"
      BY <2>5, <2>9
    <3>4. \A p \in Pids : \A i \in 1 .. Len(procs'[p].mail) :
            procs'[p].mail[i].kind = "commit" /\ procs'[p].mail[i].no # j.no
            /\ procs'[p].offer.no = procs'[p].mail[i].no => procs'[p].offer.prior # j.who
      BY <1>0, <2>5, <2>8 DEF DeskInv, OneInv
    <3> QED BY <2>5, <2>7, <3>1, <3>2, <3>3, <3>4 DEF OneInv
  <2>11. SignerInv'
    <3>1. UNCHANGED <<signer, agreed, told>>
      BY <1>0 DEF Rest
    <3>2. j.who \in agreed
      BY <1>0, <2>5 DEF DeskInv, SignerInv
    <3>3. \A p \in Pids : j.child = p /\ procs'[p].pc \in {"up", "stopping"} => procs'[p].signer = j.who
      BY <2>5, <2>9
    <3> QED BY <2>5, <2>7, <3>1, <3>2, <3>3 DEF DeskInv, SignerInv
  <2>12. shell' \in Shells /\ SameRest(shell, shell') /\ shell.asked <= shell'.asked /\ shell'.page = shell.page
    BY <1>0, <2>1, <2>2 DEF SameRest
  <2> QED BY <1>0, <2>3, <2>4, <2>5, <2>6, <2>10, <2>11, <2>12, FreshMoves
<1> QED BY <1>1, <1>2 DEF FreshRestarts, Fresh

LEMMA FreshReadyInv == DeskInv /\ FreshReady => DeskInv'
<1> SUFFICES ASSUME DeskInv, FreshReady PROVE DeskInv'
  OBVIOUS
<1>0. /\ DeskShapes /\ FreshOver /\ UNCHANGED <<shell, procs, config, signer, agreed>> /\ Fresh.pc = "ready"
      /\ "fresh" \in Slots /\ "codex" \in Slots /\ Quits \subseteq Slots \ {"fresh"}
  BY SlotFacts DEF FreshReady, At, Fresh, DeskInv
<1>1. \A t \in told' : t.who \in agreed /\ t.used = t.who
  <2>1. CASE told' = told
    BY <2>1 DEF DeskInv, SignerInv
  <2>2. CASE Current /\ told' = told \cup {[who |-> Fresh.who, used |-> procs[shell.host].signer]}
    <3>1. shell.host = Fresh.child /\ shell.host # 0 /\ procs[shell.host].pc \in {"up", "stopping"}
      BY <2>2 DEF Current, Lives, Fresh
    <3>2. shell.host \in Pids
      BY <1>0, <3>1, DeskNow, ShellIs, DeskConstants DEF Pids
    <3>3. procs[shell.host].signer = Fresh.who /\ Fresh.who \in agreed
      BY <1>0, <3>1, <3>2 DEF DeskInv, SignerInv
    <3> QED BY <2>2, <3>3 DEF DeskInv, SignerInv
  <2> QED BY <2>1, <2>2 DEF FreshReady, Fresh
<1>2. /\ jobs' \in [Slots -> Jobs] /\ (\A t \in Slots : jobs'[t].pc \in Pcs[t])
      /\ jobs'["fresh"] = NoJob /\ \A t \in Slots : t # "fresh" => jobs'[t] = jobs[t]
  BY <1>0, JobSet, OverJob DEF FreshOver
<1>3. DeskShapes'
  BY <1>0, <1>2 DEF DeskShapes
<1>4. UpInv'
  <2>1. \A s \in Quits : jobs'[s] = jobs[s] /\ Later(s)' = Later(s)
    BY <1>0, <1>2 DEF Later
  <2> QED BY <1>0, <2>1 DEF DeskInv, UpInv
<1>5. PostInv'
  BY <1>0 DEF DeskInv, PostInv
<1>6. Fresh'.pc = "idle" /\ Fresh'.reply = "none"
  BY <1>2, NothingIs DEF Fresh
<1>7. OneInv'
  BY <1>6 DEF OneInv
<1>8. SignerInv'
  BY <1>0, <1>1, <1>6 DEF SignerInv, DeskInv
<1> QED BY <1>3, <1>4, <1>5, <1>7, <1>8 DEF DeskInv

(* The host's mail moves, and nothing of what runs.                        *)
LEMMA MailMoves ==
  ASSUME DeskInv, procs' \in [Pids -> Procs], \A p \in Pids : procs'[p].pc = procs[p].pc,
         shell' \in Shells, SameRest(shell, shell'), shell'.page = shell.page, shell'.children = shell.children,
         NEW j \in Jobs, j.pc \in Pcs["fresh"], jobs' = [jobs EXCEPT !["fresh"] = j],
         UNCHANGED config, signer' \in Signers, agreed' \subseteq Candidates
  PROVE  DeskShapes' /\ UpInv' /\ Fresh' = j
<1>0. DeskShapes /\ "fresh" \in Slots /\ "codex" \in Slots /\ Quits \subseteq Slots \ {"fresh"}
  BY SlotFacts DEF DeskInv
<1>1. /\ jobs' \in [Slots -> Jobs] /\ (\A t \in Slots : jobs'[t].pc \in Pcs[t])
      /\ jobs'["fresh"] = j /\ \A t \in Slots : t # "fresh" => jobs'[t] = jobs[t]
  BY <1>0, JobSet
<1>2. DeskShapes'
  <2>1. jobs'["codex"].read \subseteq Wishes
    BY <1>0, <1>1 DEF DeskShapes
  <2> QED BY <1>0, <1>1, <2>1 DEF DeskShapes
<1>3. UpInv'
  <2>1. \A s \in Quits : jobs'[s] = jobs[s]
    BY <1>0, <1>1
  <2>2. shell'.exited = shell.exited /\ shell'.quitting = shell.quitting
    BY DEF SameRest
  <2>3. shell'.boots = 0 => shell'.page = "none" /\ ~shell.quitting /\ \A s \in Quits : jobs'[s].pc = "idle"
    BY <2>1 DEF SameRest, DeskInv, UpInv
  <2>4. Owned(procs', shell')
    BY DEF Owned
  <2> QED BY <2>1, <2>2, <2>3, <2>4, UpQuiet
<1> QED BY <1>1, <1>2, <1>3 DEF Fresh

LEMMA ToHostIs ==
  ASSUME DeskShapes, NEW kind \in {"prepare", "commit"}, NEW c \in Candidates, NEW no \in 1 .. MaxAsked, NEW p \in Pids,
         ToHost(kind, c, no, p)
  PROVE  /\ procs' \in [Pids -> Procs] /\ \A r \in Pids : r # p => procs'[r] = procs[r]
         /\ procs'[p].pc = procs[p].pc /\ procs'[p].offer = procs[p].offer /\ procs'[p].signer = procs[p].signer
         /\ Len(procs[p].mail) \in Nat /\ Len(procs'[p].mail) = Len(procs[p].mail) + 1
         /\ \A i \in 1 .. Len(procs'[p].mail) :
              \/ i \in 1 .. Len(procs[p].mail) /\ procs'[p].mail[i] = procs[p].mail[i]
              \/ /\ i = Len(procs'[p].mail)
                 /\ procs'[p].mail[i].kind = kind /\ procs'[p].mail[i].who = c /\ procs'[p].mail[i].no = no
<1> DEFINE m == [kind |-> kind, who |-> c, no |-> no]
<1>1. m \in Requests
  BY DEF Requests
<1>2. m.kind = kind /\ m.who = c /\ m.no = no
  OBVIOUS
<1>3. procs' = [procs EXCEPT ![p] = [procs[p] EXCEPT !.mail = Append(procs[p].mail, m)]]
  BY DEF ToHost
<1>4. procs[p] \in Procs /\ procs[p].mail \in Seq(Requests)
  BY DeskNow, ProcIs
<1> HIDE DEF m
<1>5. PICK asks : asks = Append(procs[p].mail, m)
  OBVIOUS
<1>6. /\ asks \in Seq(Requests) /\ Len(asks) = Len(procs[p].mail) + 1 /\ Len(procs[p].mail) \in Nat
      /\ \A i \in 1 .. Len(procs[p].mail) : asks[i] = procs[p].mail[i]
      /\ asks[Len(procs[p].mail) + 1] = m
  BY <1>1, <1>4, <1>5, AppendProperties
<1>7. PICK q : q = [procs[p] EXCEPT !.mail = asks]
  OBVIOUS
<1>8. procs[p] = [pc |-> procs[p].pc, kind |-> procs[p].kind, ready |-> procs[p].ready, busy |-> procs[p].busy,
                  signer |-> procs[p].signer, offer |-> procs[p].offer, mail |-> procs[p].mail]
  BY <1>4, ProcIs
<1>9. q = [pc |-> procs[p].pc, kind |-> procs[p].kind, ready |-> procs[p].ready, busy |-> procs[p].busy,
           signer |-> procs[p].signer, offer |-> procs[p].offer, mail |-> asks]
  BY <1>7, <1>8
<1>10. q \in Procs
  BY <1>4, <1>6, <1>9, ProcIs DEF Procs
<1>11. procs' = [procs EXCEPT ![p] = q]
  BY <1>3, <1>5, <1>7
<1>12. procs' \in [Pids -> Procs] /\ procs'[p] = q /\ \A r \in Pids : r # p => procs'[r] = procs[r]
  BY <1>10, <1>11, ProcSet
<1>13. \A i \in 1 .. Len(asks) : \/ i \in 1 .. Len(procs[p].mail) /\ asks[i] = procs[p].mail[i]
                                 \/ i = Len(asks) /\ asks[i].kind = kind /\ asks[i].who = c /\ asks[i].no = no
  BY <1>2, <1>6
<1> QED BY <1>6, <1>9, <1>12, <1>13

LEMMA FreshAskedInv ==
  ASSUME DeskInv, NEW c \in Candidates, FreshAsked(c)
  PROVE  DeskInv'
<1>0. /\ DeskShapes /\ "fresh" \in Slots /\ UNCHANGED Rest /\ shell \in Shells /\ c \notin agreed /\ Fresh.pc = "idle"
      /\ shell' \in Shells /\ SameRest(shell, shell') /\ shell'.page = shell.page /\ shell'.children = shell.children
      /\ shell'.asked = shell.asked + 1
  BY SlotFacts, DeskNow, AsksIs DEF DeskInv, FreshAsked, Fresh, Idle
<1>1. PICK n : n = shell.asked + 1
  OBVIOUS
<1>2. n \in 1 .. MaxAsked /\ shell.asked \in Int /\ shell.asked < n /\ n \in 1 .. n /\ shell'.asked = n
  BY <1>0, <1>1, ShellIs, DeskConstants
<1>3. PICK h : h = shell.host
  OBVIOUS
<1>4. h \in Pids /\ procs[h].pc \in {"up", "stopping"} /\ Len(procs[h].mail) < 2
  BY <1>0, <1>3, ShellIs, DeskConstants DEF FreshAsked, Lives, Pids
<1>5. ToHost("prepare", c, n, h)
  BY <1>1, <1>3 DEF FreshAsked
<1>6. /\ procs' \in [Pids -> Procs] /\ \A r \in Pids : r # h => procs'[r] = procs[r]
      /\ procs'[h].pc = procs[h].pc /\ procs'[h].offer = procs[h].offer /\ procs'[h].signer = procs[h].signer
      /\ Len(procs[h].mail) \in Nat /\ Len(procs'[h].mail) = Len(procs[h].mail) + 1
      /\ \A i \in 1 .. Len(procs'[h].mail) :
           \/ i \in 1 .. Len(procs[h].mail) /\ procs'[h].mail[i] = procs[h].mail[i]
           \/ /\ i = Len(procs'[h].mail)
              /\ procs'[h].mail[i].kind = "prepare" /\ procs'[h].mail[i].who = c /\ procs'[h].mail[i].no = n
  BY <1>0, <1>2, <1>4, <1>5, ToHostIs
<1>7. PICK j : j = [NoJob EXCEPT !.pc = "prepare", !.child = h, !.who = c, !.no = n]
  OBVIOUS
<1>8. j = [pc |-> "prepare", child |-> h, left |-> <<>>, read |-> {}, who |-> c, no |-> n, reply |-> "none"]
  BY <1>7 DEF NoJob
<1>9. j \in Jobs /\ j.pc = "prepare" /\ j.child = h /\ j.who = c /\ j.no = n /\ j.reply = "none" /\ j.pc \in Pcs["fresh"]
  <2>1. "prepare" \in AllPcs /\ "prepare" \in Pcs["fresh"] /\ h \in 0 .. MaxProcs /\ n \in 0 .. MaxAsked /\ c \in Signers
        /\ <<>> \in Seq(Pids)
    BY <1>0, <1>2, <1>3, ShellIs, SlotFacts, DeskConstants DEF AllPcs, Signers
  <2> QED BY <1>8, <2>1 DEF Jobs
<1>10. jobs' = [jobs EXCEPT !["fresh"] = j]
  BY <1>1, <1>3, <1>7 DEF FreshAsked
<1>11. UNCHANGED <<config, signer, agreed, told>>
  BY <1>0 DEF Rest
<1>12. DeskShapes' /\ UpInv' /\ Fresh' = j
  <2>1. signer' \in Signers /\ agreed' \subseteq Candidates /\ UNCHANGED config
    BY <1>0, <1>11, DeskNow
  <2>2. \A p \in Pids : procs'[p].pc = procs[p].pc
    BY <1>6
  <2> QED BY <1>0, <1>6, <1>9, <1>10, <2>1, <2>2, MailMoves
<1>13. \A p \in Pids : \A i \in 1 .. Len(procs'[p].mail) :
         \/ i \in 1 .. Len(procs[p].mail) /\ procs'[p].mail[i] = procs[p].mail[i] /\ procs[p].mail[i].no < n
         \/ p = h /\ i = Len(procs'[p].mail)
            /\ procs'[p].mail[i].kind = "prepare" /\ procs'[p].mail[i].who = c /\ procs'[p].mail[i].no = n
  <2>1. \A p \in Pids : \A i \in 1 .. Len(procs[p].mail) : procs[p].mail[i].no < n
    <3> SUFFICES ASSUME NEW p \in Pids, NEW i \in 1 .. Len(procs[p].mail) PROVE procs[p].mail[i].no < n
      OBVIOUS
    <3>1. procs[p].mail[i].no <= shell.asked
      BY DEF DeskInv, PostInv
    <3>2. procs[p].mail[i].no \in Nat
      BY <1>0, MailIs
    <3> QED BY <1>2, <3>1, <3>2
  <2> SUFFICES ASSUME NEW p \in Pids, NEW i \in 1 .. Len(procs'[p].mail)
               PROVE  \/ i \in 1 .. Len(procs[p].mail) /\ procs'[p].mail[i] = procs[p].mail[i] /\ procs[p].mail[i].no < n
                      \/ p = h /\ i = Len(procs'[p].mail)
                         /\ procs'[p].mail[i].kind = "prepare" /\ procs'[p].mail[i].who = c /\ procs'[p].mail[i].no = n
    OBVIOUS
  <2>2. CASE p = h
    BY <1>6, <2>1, <2>2
  <2>3. CASE p # h
    BY <1>6, <2>1, <2>3
  <2> QED BY <2>2, <2>3
<1>14. \A p \in Pids : procs'[p].offer = procs[p].offer /\ procs'[p].pc = procs[p].pc
  BY <1>6
<1>15. PostInv'
  <2>1. \A p \in Pids : Len(procs'[p].mail) <= 2 /\ procs'[p].offer.prior \in agreed \cup {NoSigner}
    <3> SUFFICES ASSUME NEW p \in Pids PROVE Len(procs'[p].mail) <= 2 /\ procs'[p].offer.prior \in agreed \cup {NoSigner}
      OBVIOUS
    <3>1. Len(procs[p].mail) <= 2 /\ procs[p].offer.prior \in agreed \cup {NoSigner}
      BY DEF DeskInv, PostInv
    <3>2. CASE p = h
      BY <1>4, <1>6, <3>1, <3>2
    <3>3. CASE p # h
      BY <1>6, <3>1, <3>3
    <3> QED BY <3>2, <3>3
  <2>2. \A p \in Pids : \A i \in 1 .. Len(procs'[p].mail) :
         procs'[p].mail[i].no <= shell'.asked /\ (procs'[p].mail[i].kind = "commit" => procs'[p].mail[i].who \in agreed)
    <3> SUFFICES ASSUME NEW p \in Pids, NEW i \in 1 .. Len(procs'[p].mail)
                 PROVE  procs'[p].mail[i].no <= n /\ (procs'[p].mail[i].kind = "commit" => procs'[p].mail[i].who \in agreed)
      BY <1>2
    <3>1. CASE i \in 1 .. Len(procs[p].mail) /\ procs'[p].mail[i] = procs[p].mail[i] /\ procs[p].mail[i].no < n
      <4>1. procs[p].mail[i].no \in Nat
        BY <1>0, <3>1, MailIs
      <4>2. procs[p].mail[i].no <= n
        BY <1>2, <3>1, <4>1
      <4> QED BY <3>1, <4>2 DEF DeskInv, PostInv
    <3>2. CASE procs'[p].mail[i].kind = "prepare" /\ procs'[p].mail[i].no = n
      BY <1>2, <3>2
    <3> QED BY <1>13, <3>1, <3>2
  <2>3. \A p, q \in Pids : \A i \in 1 .. Len(procs'[p].mail), k \in 1 .. Len(procs'[q].mail) :
          procs'[p].mail[i].kind = "prepare" /\ procs'[q].mail[k].kind = "commit" => procs'[p].mail[i].no # procs'[q].mail[k].no
    <3> SUFFICES ASSUME NEW p \in Pids, NEW q \in Pids, NEW i \in 1 .. Len(procs'[p].mail), NEW k \in 1 .. Len(procs'[q].mail),
                        procs'[p].mail[i].kind = "prepare", procs'[q].mail[k].kind = "commit"
                 PROVE  procs'[p].mail[i].no # procs'[q].mail[k].no
      OBVIOUS
    <3>1. k \in 1 .. Len(procs[q].mail) /\ procs'[q].mail[k] = procs[q].mail[k] /\ procs[q].mail[k].no < n
      BY <1>13
    <3>2. procs[q].mail[k].no \in Nat /\ procs[q].mail[k].no # n
      BY <1>0, <1>2, <3>1, MailIs
    <3>3. CASE i \in 1 .. Len(procs[p].mail) /\ procs'[p].mail[i] = procs[p].mail[i]
      BY <3>1, <3>3 DEF DeskInv, PostInv
    <3>4. CASE procs'[p].mail[i].no = n
      BY <3>1, <3>2, <3>4
    <3> QED BY <1>13, <3>3, <3>4
  <2> QED BY <1>11, <2>1, <2>2, <2>3 DEF PostInv
<1>16. OneInv'
  <2>1. j.no \in 1 .. shell'.asked /\ j.who \in Candidates
    BY <1>2, <1>9
  <2>2. \A p \in Pids : \A i \in 1 .. Len(procs'[p].mail) : procs'[p].mail[i].no = j.no =>
          /\ j.pc = procs'[p].mail[i].kind /\ j.reply = "none" /\ j.child = p /\ j.who = procs'[p].mail[i].who
          /\ i = Len(procs'[p].mail)
    <3> SUFFICES ASSUME NEW p \in Pids, NEW i \in 1 .. Len(procs'[p].mail), procs'[p].mail[i].no = n
                 PROVE  /\ "prepare" = procs'[p].mail[i].kind /\ h = p /\ c = procs'[p].mail[i].who
                        /\ i = Len(procs'[p].mail)
      BY <1>9
    <3>1. ~(i \in 1 .. Len(procs[p].mail) /\ procs'[p].mail[i] = procs[p].mail[i] /\ procs[p].mail[i].no < n)
      BY <1>2
    <3> QED BY <1>13, <3>1
  <2>3. \A p \in Pids : j.child = p => procs'[p].pc # "none"
    BY <1>4, <1>9, <1>14
  <2>4. \A p \in Pids : procs'[p].offer.prior # j.who
    <3>1. \A p \in Pids : procs[p].offer.prior \in agreed \cup {NoSigner}
      BY DEF DeskInv, PostInv
    <3>2. c \notin agreed \cup {NoSigner}
      BY <1>0, DeskConstants
    <3> QED BY <1>9, <1>14, <3>1, <3>2
  <2> QED BY <1>9, <1>12, <2>1, <2>2, <2>3, <2>4 DEF OneInv
<1>17. SignerInv'
  BY <1>9, <1>11, <1>12 DEF SignerInv, DeskInv
<1> QED BY <1>12, <1>15, <1>16, <1>17 DEF DeskInv

LEMMA FreshChosenInv ==
  ASSUME DeskInv, NEW yes \in BOOLEAN, NEW late \in BOOLEAN, FreshChosen(yes, late)
  PROVE  DeskInv'
<1>0. /\ DeskShapes /\ "fresh" \in Slots /\ UNCHANGED <<shell, config, signer, told>> /\ shell \in Shells /\ Fresh.pc = "dialog"
      /\ Fresh \in Jobs /\ Fresh.who \in Candidates /\ Fresh.no \in 1 .. shell.asked /\ Fresh.reply = "none"
      /\ SameRest(shell, shell)
  BY SlotFacts, DeskNow DEF DeskInv, OneInv, FreshChosen, Fresh, At, SameRest
<1>1. agreed \subseteq agreed' /\ agreed' \subseteq Candidates /\ (yes => agreed' = agreed \cup {Fresh.who})
  BY <1>0, DeskNow DEF FreshChosen, Fresh
<1>2. CASE FreshOver /\ UNCHANGED procs
  BY <1>0, <1>1, <1>2, AgreedInv
<1>3. CASE yes /\ Current /\ jobs' = Now("fresh", "commit") /\ ToHost("commit", Fresh.who, Fresh.no, shell.host)
  <2>1. PICK h : h = shell.host
    OBVIOUS
  <2>2. h \in Pids /\ procs[h].pc \in {"up", "stopping"} /\ h = Fresh.child /\ Fresh.no \in 1 .. MaxAsked
    BY <1>0, <1>3, <2>1, ShellIs, DeskConstants DEF Current, Lives, Pids, Fresh
  <2>3. procs[h].mail = <<>> /\ Len(procs[h].mail) = 0
    BY <1>0, <2>2 DEF DeskInv, OneInv
  <2>4. /\ procs' \in [Pids -> Procs] /\ \A r \in Pids : r # h => procs'[r] = procs[r]
        /\ procs'[h].pc = procs[h].pc /\ procs'[h].offer = procs[h].offer /\ procs'[h].signer = procs[h].signer
        /\ Len(procs'[h].mail) = Len(procs[h].mail) + 1
        /\ \A i \in 1 .. Len(procs'[h].mail) :
             \/ i \in 1 .. Len(procs[h].mail) /\ procs'[h].mail[i] = procs[h].mail[i]
             \/ /\ i = Len(procs'[h].mail)
                /\ procs'[h].mail[i].kind = "commit" /\ procs'[h].mail[i].who = Fresh.who /\ procs'[h].mail[i].no = Fresh.no
    <3>1. ToHost("commit", Fresh.who, Fresh.no, h) /\ Fresh.who \in Candidates /\ "commit" \in {"prepare", "commit"}
      BY <1>0, <1>3, <2>1
    <3>2. DeskShapes /\ h \in Pids /\ Fresh.no \in 1 .. MaxAsked
      BY <1>0, <2>2
    <3> QED BY <3>1, <3>2, ToHostIs
  <2>5. PICK j \in Jobs : /\ Now("fresh", "commit") = [jobs EXCEPT !["fresh"] = j] /\ j.pc = "commit"
                          /\ j = [pc |-> "commit", child |-> jobs["fresh"].child, left |-> jobs["fresh"].left,
                                  read |-> jobs["fresh"].read, who |-> jobs["fresh"].who,
                                  no |-> jobs["fresh"].no, reply |-> jobs["fresh"].reply]
    BY <1>0, SlotFacts, NowIs
  <2>6. jobs' = [jobs EXCEPT !["fresh"] = j] /\ j.child = h /\ j.who = Fresh.who /\ j.no = Fresh.no /\ j.reply = "none"
        /\ j.pc \in Pcs["fresh"]
    BY <1>0, <1>3, <2>2, <2>5, SlotFacts DEF Fresh
  <2>7. \A p \in Pids : procs'[p].offer = procs[p].offer /\ procs'[p].pc = procs[p].pc /\ procs'[p].signer = procs[p].signer
    BY <2>4
  <2>8. DeskShapes' /\ UpInv' /\ Fresh' = j
    <3>1. signer' \in Signers /\ UNCHANGED config
      BY <1>0, DeskNow
    <3>2. shell' \in Shells /\ SameRest(shell, shell') /\ shell'.page = shell.page /\ shell'.children = shell.children
      BY <1>0
    <3> QED BY <1>1, <2>4, <2>6, <2>7, <3>1, <3>2, MailMoves
  <2>9. \A p \in Pids : \A i \in 1 .. Len(procs'[p].mail) :
          \/ p # h /\ i \in 1 .. Len(procs[p].mail) /\ procs'[p].mail = procs[p].mail /\ procs[p].mail[i].no # Fresh.no
          \/ p = h /\ i = Len(procs'[p].mail)
             /\ procs'[p].mail[i].kind = "commit" /\ procs'[p].mail[i].who = Fresh.who /\ procs'[p].mail[i].no = Fresh.no
    <3> SUFFICES ASSUME NEW p \in Pids, NEW i \in 1 .. Len(procs'[p].mail)
                 PROVE  \/ p # h /\ i \in 1 .. Len(procs[p].mail) /\ procs'[p].mail = procs[p].mail /\ procs[p].mail[i].no # Fresh.no
                        \/ p = h /\ i = Len(procs'[p].mail)
                           /\ procs'[p].mail[i].kind = "commit" /\ procs'[p].mail[i].who = Fresh.who /\ procs'[p].mail[i].no = Fresh.no
      OBVIOUS
    <3>1. CASE p = h
      <4>1. Len(procs[h].mail) = 0
        BY <2>3
      <4>2. 1 .. Len(procs[h].mail) = {} /\ i \in 1 .. Len(procs'[h].mail)
        BY <3>1, <4>1
      <4> QED BY <2>4, <3>1, <4>2
    <3>2. CASE p # h
      <4>1. procs'[p].mail = procs[p].mail /\ i \in 1 .. Len(procs[p].mail)
        BY <2>4, <3>2
      <4>2. procs[p].mail[i].no # Fresh.no
        BY <1>0, <4>1, NoneLeft
      <4> QED BY <3>2, <4>1, <4>2
    <3> QED BY <3>1, <3>2
  <2>10. PostInv'
    <3>1. \A p \in Pids : Len(procs'[p].mail) <= 2 /\ procs'[p].offer.prior \in agreed' \cup {NoSigner}
      <4> SUFFICES ASSUME NEW p \in Pids PROVE Len(procs'[p].mail) <= 2 /\ procs'[p].offer.prior \in agreed' \cup {NoSigner}
        OBVIOUS
      <4>1. Len(procs[p].mail) <= 2 /\ procs'[p].offer.prior \in agreed' \cup {NoSigner}
        BY <1>1, <2>7 DEF DeskInv, PostInv
      <4>2. CASE p = h
        <5>1. Len(procs[h].mail) = 0 /\ Len(procs'[h].mail) = Len(procs[h].mail) + 1
          BY <2>3, <2>4
        <5>2. Len(procs'[h].mail) <= 2
          BY <5>1
        <5> QED BY <4>1, <4>2, <5>2
      <4>3. CASE p # h
        BY <2>4, <4>1, <4>3
      <4> QED BY <4>2, <4>3
    <3>2. \A p \in Pids : \A i \in 1 .. Len(procs'[p].mail) :
           procs'[p].mail[i].no <= shell'.asked /\ (procs'[p].mail[i].kind = "commit" => procs'[p].mail[i].who \in agreed')
      <4> SUFFICES ASSUME NEW p \in Pids, NEW i \in 1 .. Len(procs'[p].mail)
                   PROVE  procs'[p].mail[i].no <= shell.asked /\ (procs'[p].mail[i].kind = "commit" => procs'[p].mail[i].who \in agreed')
        BY <1>0
      <4>1. CASE i \in 1 .. Len(procs[p].mail) /\ procs'[p].mail = procs[p].mail
        BY <1>1, <4>1 DEF DeskInv, PostInv
      <4>2. CASE procs'[p].mail[i].who = Fresh.who /\ procs'[p].mail[i].no = Fresh.no
        <5>1. Fresh.no <= shell.asked
          BY <1>0, ShellIs, DeskConstants
        <5> QED BY <1>1, <1>3, <4>2, <5>1
      <4> QED BY <2>9, <4>1, <4>2
    <3>3. \A p, q \in Pids : \A i \in 1 .. Len(procs'[p].mail), k \in 1 .. Len(procs'[q].mail) :
            procs'[p].mail[i].kind = "prepare" /\ procs'[q].mail[k].kind = "commit" => procs'[p].mail[i].no # procs'[q].mail[k].no
      <4> SUFFICES ASSUME NEW p \in Pids, NEW q \in Pids, NEW i \in 1 .. Len(procs'[p].mail), NEW k \in 1 .. Len(procs'[q].mail),
                          procs'[p].mail[i].kind = "prepare", procs'[q].mail[k].kind = "commit"
                   PROVE  procs'[p].mail[i].no # procs'[q].mail[k].no
        OBVIOUS
      <4>1. i \in 1 .. Len(procs[p].mail) /\ procs'[p].mail = procs[p].mail /\ procs[p].mail[i].no # Fresh.no
        BY <2>9
      <4>2. CASE k \in 1 .. Len(procs[q].mail) /\ procs'[q].mail = procs[q].mail
        BY <4>1, <4>2 DEF DeskInv, PostInv
      <4>3. CASE procs'[q].mail[k].no = Fresh.no
        BY <4>1, <4>3
      <4> QED BY <2>9, <4>2, <4>3
    <3> QED BY <3>1, <3>2, <3>3 DEF PostInv
  <2>11. OneInv'
    <3>1. j.no \in 1 .. shell'.asked /\ j.who \in Candidates
      BY <1>0, <2>6
    <3>2. \A p \in Pids : \A i \in 1 .. Len(procs'[p].mail) : procs'[p].mail[i].no = j.no =>
            /\ j.pc = procs'[p].mail[i].kind /\ j.reply = "none" /\ j.child = p /\ j.who = procs'[p].mail[i].who
            /\ i = Len(procs'[p].mail)
      BY <2>5, <2>6, <2>9
    <3>3. \A p \in Pids : j.child = p => procs'[p].pc # "none"
      BY <2>2, <2>6, <2>7
    <3>4. \A p \in Pids : \A i \in 1 .. Len(procs'[p].mail) :
            procs'[p].mail[i].kind = "commit" /\ procs'[p].mail[i].no # j.no
            /\ procs'[p].offer.no = procs'[p].mail[i].no => procs'[p].offer.prior # j.who
      <4> SUFFICES ASSUME NEW p \in Pids, NEW i \in 1 .. Len(procs'[p].mail),
                          procs'[p].mail[i].kind = "commit", procs'[p].mail[i].no # Fresh.no,
                          procs'[p].offer.no = procs'[p].mail[i].no
                   PROVE  procs'[p].offer.prior # Fresh.who
        BY <2>6
      <4>1. i \in 1 .. Len(procs[p].mail) /\ procs'[p].mail = procs[p].mail
        BY <2>9
      <4> QED BY <1>0, <2>7, <4>1 DEF DeskInv, OneInv
    <3> QED BY <2>5, <2>6, <2>8, <3>1, <3>2, <3>3, <3>4 DEF OneInv
  <2>12. SignerInv'
    <3>1. j.who \in agreed'
      BY <1>1, <1>3, <2>6
    <3>2. signer' \in agreed' \cup {NoSigner} /\ \A t \in told' : t.who \in agreed' /\ t.used = t.who
      BY <1>0, <1>1 DEF DeskInv, SignerInv
    <3> QED BY <2>5, <2>6, <2>8, <3>1, <3>2 DEF SignerInv
  <2> QED BY <2>8, <2>10, <2>11, <2>12 DEF DeskInv
<1> QED BY <1>2, <1>3 DEF FreshChosen, Fresh

(* The host takes a message.                                               *)
TakenOffer(p, m) ==
  IF ~procs[p].busy /\ procs[p].ready /\ m.kind = "prepare" THEN [no |-> m.no, prior |-> signer]
  ELSE IF ~procs[p].busy /\ procs[p].ready /\ procs[p].offer.no = m.no THEN NoOffer ELSE procs[p].offer

LEMMA TakenIs ==
  ASSUME DeskInv, NEW p \in Pids, HostTakes(p), NEW m, m = Head(procs[p].mail)
  PROVE  /\ procs' \in [Pids -> Procs] /\ \A r \in Pids : r # p => procs'[r] = procs[r]
         /\ procs'[p].pc = procs[p].pc /\ procs'[p].signer = procs[p].signer /\ procs'[p].offer = TakenOffer(p, m)
         /\ m \in Requests /\ m = procs[p].mail[1] /\ 1 \in 1 .. Len(procs[p].mail)
         /\ Len(procs[p].mail) \in Nat /\ Len(procs'[p].mail) = Len(procs[p].mail) - 1
         /\ \A i \in 1 .. Len(procs'[p].mail) : i + 1 \in 1 .. Len(procs[p].mail) /\ procs'[p].mail[i] = procs[p].mail[i + 1]
<1>0. DeskShapes /\ procs[p] \in Procs /\ procs[p].mail \in Seq(Requests) /\ procs[p].mail # <<>> /\ procs \in [Pids -> Procs]
      /\ procs[p].offer \in Offers /\ signer \in Signers
  BY DeskNow, ProcIs DEF DeskInv, HostTakes
<1>1. PICK asks : asks = Tail(procs[p].mail)
  OBVIOUS
<1>2. /\ m \in Requests /\ asks \in Seq(Requests) /\ Len(asks) = Len(procs[p].mail) - 1
      /\ \A i \in 1 .. Len(asks) : asks[i] = procs[p].mail[i + 1]
  BY <1>0, <1>1, HeadTailProperties
<1>3. m = procs[p].mail[1] /\ Len(procs[p].mail) \in Nat /\ 1 \in 1 .. Len(procs[p].mail)
  BY <1>0
<1>4. \A i \in 1 .. Len(asks) : i + 1 \in 1 .. Len(procs[p].mail) /\ asks[i] = procs[p].mail[i + 1]
  BY <1>2, <1>3
<1>5. PICK offer : offer = TakenOffer(p, m)
  OBVIOUS
<1>6. offer \in Offers
  <2>1. m.no \in 0 .. MaxAsked
    BY <1>2, DeskConstants DEF Requests
  <2>2. [no |-> m.no, prior |-> signer] \in Offers /\ NoOffer \in Offers
    BY <1>0, <2>1, NothingIs DEF Offers
  <2> QED BY <1>0, <1>5, <2>2 DEF TakenOffer
<1>7. PICK q : q = [procs[p] EXCEPT !.mail = asks, !.offer = offer]
  OBVIOUS
<1>8. procs[p] = [pc |-> procs[p].pc, kind |-> procs[p].kind, ready |-> procs[p].ready, busy |-> procs[p].busy,
                  signer |-> procs[p].signer, offer |-> procs[p].offer, mail |-> procs[p].mail]
  BY <1>0, ProcIs
<1>9. q = [pc |-> procs[p].pc, kind |-> procs[p].kind, ready |-> procs[p].ready, busy |-> procs[p].busy,
           signer |-> procs[p].signer, offer |-> offer, mail |-> asks]
  BY <1>7, <1>8
<1>10. q \in Procs
  BY <1>0, <1>2, <1>6, <1>9, ProcIs DEF Procs
<1>11. procs' = [procs EXCEPT ![p] = q]
  <2>1. procs' = [procs EXCEPT ![p].mail = Tail(procs[p].mail), ![p].offer = TakenOffer(p, m)]
    BY DEF HostTakes, TakenOffer
  <2>2. procs' = [procs EXCEPT ![p].mail = asks, ![p].offer = offer]
    BY <1>1, <1>5, <2>1
  <2> QED BY <1>0, <1>7, <2>2
<1>12. procs' \in [Pids -> Procs] /\ procs'[p] = q /\ \A r \in Pids : r # p => procs'[r] = procs[r]
  BY <1>0, <1>10, <1>11, ProcSet
<1> QED BY <1>2, <1>3, <1>4, <1>5, <1>9, <1>12

LEMMA HostTakesInv ==
  ASSUME DeskInv, NEW p \in Pids, HostTakes(p)
  PROVE  DeskInv'
<1>0. /\ DeskShapes /\ "fresh" \in Slots /\ UNCHANGED <<shell, config, agreed, told>> /\ shell \in Shells /\ Fresh \in Jobs
      /\ jobs \in [Slots -> Jobs] /\ Fresh.pc \in Pcs["fresh"] /\ SameRest(shell, shell) /\ agreed \subseteq Candidates
      /\ signer \in Signers /\ signer \in agreed \cup {NoSigner}
  BY SlotFacts, DeskNow DEF DeskInv, SignerInv, HostTakes, Fresh, SameRest
<1>1. PICK m : m = Head(procs[p].mail)
  OBVIOUS
<1>2. /\ procs' \in [Pids -> Procs] /\ \A r \in Pids : r # p => procs'[r] = procs[r]
      /\ procs'[p].pc = procs[p].pc /\ procs'[p].signer = procs[p].signer /\ procs'[p].offer = TakenOffer(p, m)
      /\ m \in Requests /\ m = procs[p].mail[1] /\ 1 \in 1 .. Len(procs[p].mail)
      /\ Len(procs[p].mail) \in Nat /\ Len(procs'[p].mail) = Len(procs[p].mail) - 1
      /\ \A i \in 1 .. Len(procs'[p].mail) : i + 1 \in 1 .. Len(procs[p].mail) /\ procs'[p].mail[i] = procs[p].mail[i + 1]
  BY <1>1, TakenIs
<1>3. m.kind \in {"prepare", "commit"} /\ m.who \in Candidates /\ m.no \in 1 .. MaxAsked /\ m.no # 0 /\ m.no \in Nat
  BY <1>2, DeskConstants DEF Requests
<1>4. m.kind = "commit" => m.who \in agreed
  BY <1>2 DEF DeskInv, PostInv
<1>5. signer' = signer \/ (signer' = m.who /\ m.kind = "commit" /\ procs[p].offer = [no |-> m.no, prior |-> signer])
  BY <1>1 DEF HostTakes
<1>7. signer' \in Signers /\ signer' \in agreed \cup {NoSigner}
  BY <1>0, <1>3, <1>4, <1>5 DEF Signers
<1>8. \A q \in Pids : procs'[q].pc = procs[q].pc /\ procs'[q].signer = procs[q].signer
  BY <1>2
<1>9. \A q \in Pids : \A i \in 1 .. Len(procs'[q].mail) :
        \/ q # p /\ i \in 1 .. Len(procs[q].mail) /\ procs'[q].mail = procs[q].mail /\ procs'[q].offer = procs[q].offer
        \/ q = p /\ i + 1 \in 1 .. Len(procs[q].mail) /\ procs'[q].mail[i] = procs[q].mail[i + 1]
  BY <1>2
<1>10. \A q \in Pids : \A i \in 1 .. Len(procs'[q].mail) : \E k \in 1 .. Len(procs[q].mail) : procs'[q].mail[i] = procs[q].mail[k]
  <2> SUFFICES ASSUME NEW q \in Pids, NEW i \in 1 .. Len(procs'[q].mail)
               PROVE  \E k \in 1 .. Len(procs[q].mail) : procs'[q].mail[i] = procs[q].mail[k]
    OBVIOUS
  <2>1. CASE i \in 1 .. Len(procs[q].mail) /\ procs'[q].mail = procs[q].mail
    BY <2>1
  <2>2. CASE i + 1 \in 1 .. Len(procs[q].mail) /\ procs'[q].mail[i] = procs[q].mail[i + 1]
    BY <2>2
  <2> QED BY <1>9, <2>1, <2>2
<1>11. PostInv'
  <2>1. \A q \in Pids : Len(procs'[q].mail) <= 2 /\ procs'[q].offer.prior \in agreed \cup {NoSigner}
    <3> SUFFICES ASSUME NEW q \in Pids PROVE Len(procs'[q].mail) <= 2 /\ procs'[q].offer.prior \in agreed \cup {NoSigner}
      OBVIOUS
    <3>1. Len(procs[q].mail) <= 2 /\ procs[q].offer.prior \in agreed \cup {NoSigner}
      BY DEF DeskInv, PostInv
    <3>2. CASE q = p
      <4>1. TakenOffer(p, m).prior \in agreed \cup {NoSigner}
        BY <1>0, <3>1, <3>2, NothingIs DEF TakenOffer
      <4>2. Len(procs'[p].mail) <= 2
        BY <1>2, <3>1, <3>2
      <4> QED BY <1>2, <3>2, <4>1, <4>2
    <3>3. CASE q # p
      BY <1>2, <3>1, <3>3
    <3> QED BY <3>2, <3>3
  <2>2. \A q \in Pids : \A i \in 1 .. Len(procs'[q].mail) :
         procs'[q].mail[i].no <= shell.asked /\ (procs'[q].mail[i].kind = "commit" => procs'[q].mail[i].who \in agreed)
    <3> SUFFICES ASSUME NEW q \in Pids, NEW i \in 1 .. Len(procs'[q].mail)
                 PROVE  /\ procs'[q].mail[i].no <= shell.asked
                        /\ procs'[q].mail[i].kind = "commit" => procs'[q].mail[i].who \in agreed
      OBVIOUS
    <3>1. PICK k \in 1 .. Len(procs[q].mail) : procs'[q].mail[i] = procs[q].mail[k]
      BY <1>10
    <3> QED BY <3>1 DEF DeskInv, PostInv
  <2>3. \A q, r \in Pids : \A i \in 1 .. Len(procs'[q].mail), k \in 1 .. Len(procs'[r].mail) :
          procs'[q].mail[i].kind = "prepare" /\ procs'[r].mail[k].kind = "commit" => procs'[q].mail[i].no # procs'[r].mail[k].no
    <3> SUFFICES ASSUME NEW q \in Pids, NEW r \in Pids, NEW i \in 1 .. Len(procs'[q].mail), NEW k \in 1 .. Len(procs'[r].mail),
                        procs'[q].mail[i].kind = "prepare", procs'[r].mail[k].kind = "commit"
                 PROVE  procs'[q].mail[i].no # procs'[r].mail[k].no
      OBVIOUS
    <3>1. PICK x \in 1 .. Len(procs[q].mail) : procs'[q].mail[i] = procs[q].mail[x]
      BY <1>10
    <3>2. PICK y \in 1 .. Len(procs[r].mail) : procs'[r].mail[k] = procs[r].mail[y]
      BY <1>10
    <3> QED BY <3>1, <3>2 DEF DeskInv, PostInv
  <2> QED BY <1>0, <2>1, <2>2, <2>3 DEF PostInv
<1>12. shell' \in Shells /\ SameRest(shell, shell') /\ shell'.page = shell.page /\ shell'.children = shell.children
  BY <1>0
<1>13. CASE Fresh.pc = m.kind /\ Fresh.no = m.no
  <2>1. Fresh.pc # "idle" /\ Fresh.reply = "none" /\ Fresh.child = p /\ Fresh.who = m.who /\ 1 = Len(procs[p].mail)
    BY <1>2, <1>3, <1>13 DEF DeskInv, OneInv
  <2>2. Len(procs'[p].mail) = 0 /\ 1 .. Len(procs'[p].mail) = {}
    BY <1>2, <2>1
  <2>3. procs'[p].mail = <<>>
    <3>1. procs'[p].mail \in Seq(Requests)
      BY <1>2, ProcIs
    <3> QED BY <2>2, <3>1
  <2>4. PICK reply \in {"ok", "no"} : /\ jobs' = [jobs EXCEPT !["fresh"].reply = reply]
                                      /\ reply = "ok" /\ m.kind = "commit" => signer' = m.who
    BY <1>1, <1>13 DEF HostTakes, Fresh
  <2>5. PICK j \in Jobs : /\ j = [pc |-> Fresh.pc, child |-> Fresh.child, left |-> Fresh.left,
                                  read |-> Fresh.read, who |-> Fresh.who, no |-> Fresh.no, reply |-> reply]
                          /\ j.pc = Fresh.pc /\ j.child = Fresh.child /\ j.reply = reply /\ j.who = Fresh.who /\ j.no = Fresh.no
    BY <1>0, JobIs, FreshJob
  <2>6. jobs' = [jobs EXCEPT !["fresh"] = j]
    <3>1. jobs["fresh"] = [pc |-> jobs["fresh"].pc, child |-> jobs["fresh"].child, left |-> jobs["fresh"].left,
                           read |-> jobs["fresh"].read, who |-> jobs["fresh"].who, no |-> jobs["fresh"].no,
                           reply |-> jobs["fresh"].reply]
      BY <1>0, JobIs DEF Fresh
    <3>2. PICK k : k = [jobs["fresh"] EXCEPT !.reply = reply]
      OBVIOUS
    <3>3. k = [pc |-> jobs["fresh"].pc, child |-> jobs["fresh"].child, left |-> jobs["fresh"].left,
               read |-> jobs["fresh"].read, who |-> jobs["fresh"].who, no |-> jobs["fresh"].no, reply |-> reply]
      BY <3>1, <3>2
    <3>4. k = j
      BY <2>5, <3>3 DEF Fresh
    <3>5. jobs' = [jobs EXCEPT !["fresh"] = k]
      BY <1>0, <2>4, <3>2
    <3> QED BY <3>4, <3>5
  <2>7. DeskShapes' /\ UpInv' /\ Fresh' = j
    <3>1. j.pc \in Pcs["fresh"] /\ agreed' \subseteq Candidates /\ UNCHANGED config
      BY <1>0, <2>5
    <3> QED BY <1>2, <1>7, <1>8, <1>12, <2>6, <3>1, MailMoves
  <2>8. \A q \in Pids : \A i \in 1 .. Len(procs'[q].mail) :
          /\ q # p /\ i \in 1 .. Len(procs[q].mail) /\ procs'[q].mail = procs[q].mail /\ procs'[q].offer = procs[q].offer
          /\ procs[q].mail[i].no # Fresh.no
    <3> SUFFICES ASSUME NEW q \in Pids, NEW i \in 1 .. Len(procs'[q].mail)
                 PROVE  /\ q # p /\ i \in 1 .. Len(procs[q].mail) /\ procs'[q].mail = procs[q].mail
                        /\ procs'[q].offer = procs[q].offer /\ procs[q].mail[i].no # Fresh.no
      OBVIOUS
    <3>1. q # p
      BY <2>2
    <3>2. i \in 1 .. Len(procs[q].mail) /\ procs'[q].mail = procs[q].mail /\ procs'[q].offer = procs[q].offer
      BY <1>9, <3>1
    <3>3. procs[q].mail[i].no # Fresh.no
      BY <2>1, <3>1, <3>2 DEF DeskInv, OneInv
    <3> QED BY <3>1, <3>2, <3>3
  <2>9. OneInv'
    <3>1. j.no \in 1 .. shell'.asked /\ j.who \in Candidates /\ j.pc \in {"prepare", "commit"}
      BY <1>0, <1>3, <1>13, <2>1, <2>5 DEF DeskInv, OneInv
    <3>2. \A q \in Pids : \A i \in 1 .. Len(procs'[q].mail) : procs'[q].mail[i].no # j.no
      BY <2>5, <2>8
    <3>3. \A q \in Pids : j.child = q => procs'[q].pc # "none"
      BY <1>8, <2>1, <2>5 DEF DeskInv, OneInv
    <3>4. \A q \in Pids : j.child = q => procs'[q].mail = <<>>
      BY <2>1, <2>3, <2>5
    <3>5. \A q \in Pids : \A i \in 1 .. Len(procs'[q].mail) :
            procs'[q].mail[i].kind = "commit" /\ procs'[q].mail[i].no # j.no
            /\ procs'[q].offer.no = procs'[q].mail[i].no => procs'[q].offer.prior # j.who
      BY <2>1, <2>5, <2>8 DEF DeskInv, OneInv
    <3> QED BY <2>7, <3>1, <3>2, <3>3, <3>4, <3>5 DEF OneInv
  <2>10. SignerInv'
    <3>1. j.pc = "commit" => j.who \in agreed
      BY <1>4, <1>13, <2>1, <2>5
    <3>2. j.pc = "commit" /\ j.reply = "ok" => signer' = j.who
      BY <1>13, <2>1, <2>4, <2>5
    <3>3. j.pc \notin {"stopping", "ready"}
      BY <1>3, <1>13, <2>5
    <3>4. \A t \in told' : t.who \in agreed' /\ t.used = t.who
      BY <1>0 DEF DeskInv, SignerInv
    <3> QED BY <1>0, <1>7, <2>7, <3>1, <3>2, <3>3, <3>4 DEF SignerInv
  <2> QED BY <1>11, <2>7, <2>9, <2>10 DEF DeskInv
<1>14. CASE ~(Fresh.pc = m.kind /\ Fresh.no = m.no)
  <2>1. Fresh.pc # "idle" => m.no # Fresh.no
    BY <1>2, <1>14 DEF DeskInv, OneInv
  <2>2. UNCHANGED jobs
    BY <1>1, <1>14 DEF HostTakes, Fresh
  <2>3. PICK j : j = Fresh
    OBVIOUS
  <2>4. jobs' = [jobs EXCEPT !["fresh"] = j]
    BY <1>0, <2>2, <2>3 DEF Fresh
  <2>5. DeskShapes' /\ UpInv' /\ Fresh' = Fresh
    <3>1. j \in Jobs /\ j.pc \in Pcs["fresh"] /\ agreed' \subseteq Candidates /\ UNCHANGED config
      BY <1>0, <2>3
    <3> QED BY <1>2, <1>7, <1>8, <1>12, <2>3, <2>4, <3>1, MailMoves
  <2>6. OneInv'
    <3>1. \A q \in Pids : \A i \in 1 .. Len(procs'[q].mail) : Fresh.pc # "idle" /\ procs'[q].mail[i].no = Fresh.no =>
            /\ Fresh.pc = procs'[q].mail[i].kind /\ Fresh.reply = "none" /\ Fresh.child = q /\ Fresh.who = procs'[q].mail[i].who
            /\ i = Len(procs'[q].mail)
      <4> SUFFICES ASSUME NEW q \in Pids, NEW i \in 1 .. Len(procs'[q].mail), Fresh.pc # "idle", procs'[q].mail[i].no = Fresh.no
                   PROVE  /\ Fresh.pc = procs'[q].mail[i].kind /\ Fresh.reply = "none" /\ Fresh.child = q
                          /\ Fresh.who = procs'[q].mail[i].who /\ i = Len(procs'[q].mail)
        OBVIOUS
      <4>1. CASE q # p /\ i \in 1 .. Len(procs[q].mail) /\ procs'[q].mail = procs[q].mail
        BY <4>1 DEF DeskInv, OneInv
      <4>2. CASE q = p /\ i + 1 \in 1 .. Len(procs[q].mail) /\ procs'[q].mail[i] = procs[q].mail[i + 1]
        <5>1. PICK k \in 1 .. Len(procs[q].mail) : k = i + 1
          BY <4>2
        <5>2. /\ Fresh.pc = procs[q].mail[k].kind /\ Fresh.reply = "none" /\ Fresh.child = q /\ Fresh.who = procs[q].mail[k].who
              /\ k = Len(procs[q].mail)
          BY <4>2, <5>1 DEF DeskInv, OneInv
        <5>3. i = Len(procs'[q].mail)
          BY <1>2, <4>2, <5>1, <5>2
        <5> QED BY <4>2, <5>1, <5>2, <5>3
      <4> QED BY <1>9, <4>1, <4>2
    <3>2. \A q \in Pids : Fresh.child = q /\ (Fresh.pc = "dialog" \/ (Fresh.pc = "prepare" /\ Fresh.reply # "none")) => procs'[q].mail = <<>>
      <4> SUFFICES ASSUME NEW q \in Pids, Fresh.child = q, Fresh.pc = "dialog" \/ (Fresh.pc = "prepare" /\ Fresh.reply # "none")
                   PROVE  procs'[q].mail = <<>>
        OBVIOUS
      <4>1. procs[q].mail = <<>>
        BY DEF DeskInv, OneInv
      <4>2. q # p
        BY <1>2, <4>1
      <4> QED BY <1>2, <4>1, <4>2
    <3>3. \A q \in Pids : \A i \in 1 .. Len(procs'[q].mail) :
            Fresh.pc # "idle" /\ procs'[q].mail[i].kind = "commit" /\ procs'[q].mail[i].no # Fresh.no
            /\ procs'[q].offer.no = procs'[q].mail[i].no => procs'[q].offer.prior # Fresh.who
      <4> SUFFICES ASSUME NEW q \in Pids, NEW i \in 1 .. Len(procs'[q].mail),
                          Fresh.pc # "idle", procs'[q].mail[i].kind = "commit", procs'[q].mail[i].no # Fresh.no,
                          procs'[q].offer.no = procs'[q].mail[i].no
                   PROVE  procs'[q].offer.prior # Fresh.who
        OBVIOUS
      <4>1. CASE q # p /\ i \in 1 .. Len(procs[q].mail) /\ procs'[q].mail = procs[q].mail /\ procs'[q].offer = procs[q].offer
        BY <4>1 DEF DeskInv, OneInv
      <4>2. CASE q = p /\ i + 1 \in 1 .. Len(procs[q].mail) /\ procs'[q].mail[i] = procs[q].mail[i + 1]
        <5>1. PICK k \in 1 .. Len(procs[p].mail) : k = i + 1
          BY <4>2
        <5>2. /\ procs[p].mail[k].kind = "commit" /\ procs[p].mail[k].no # Fresh.no /\ TakenOffer(p, m).no = procs[p].mail[k].no
          BY <1>2, <4>2, <5>1
        <5>3. procs[p].mail[k].no \in 1 .. MaxAsked /\ procs[p].mail[k].no # 0
          BY <1>0, MailIs, DeskConstants
        <5>4. m.kind = "prepare" => m.no # procs[p].mail[k].no
          BY <1>2, <5>2 DEF DeskInv, PostInv
        <5>5. TakenOffer(p, m) = procs[p].offer
          BY <5>2, <5>3, <5>4, NothingIs DEF TakenOffer
        <5>6. procs[p].offer.prior # Fresh.who
          BY <5>2, <5>5 DEF DeskInv, OneInv
        <5> QED BY <1>2, <4>2, <5>5, <5>6
      <4> QED BY <1>9, <4>1, <4>2
    <3>4. \A q \in Pids : Fresh.pc # "idle" /\ Fresh.child = q => procs'[q].pc # "none"
      BY <1>8 DEF DeskInv, OneInv
    <3>5. /\ Fresh.pc # "idle" => Fresh.no \in 1 .. shell'.asked /\ Fresh.who \in Candidates
          /\ Fresh.reply # "none" => Fresh.pc \in {"prepare", "commit"}
      BY <1>0 DEF DeskInv, OneInv
    <3> QED BY <2>5, <3>1, <3>2, <3>3, <3>4, <3>5 DEF OneInv
  <2>7. SignerInv'
    <3>1. (Fresh.pc = "commit" /\ Fresh.reply = "ok") \/ Fresh.pc = "stopping" => signer' = Fresh.who
      <4> SUFFICES ASSUME (Fresh.pc = "commit" /\ Fresh.reply = "ok") \/ Fresh.pc = "stopping" PROVE signer' = Fresh.who
        OBVIOUS
      <4>1. signer = Fresh.who /\ Fresh.pc # "idle"
        BY DEF DeskInv, SignerInv
      <4>2. CASE signer' = signer
        BY <4>1, <4>2
      <4>3. CASE signer' = m.who /\ m.kind = "commit" /\ procs[p].offer = [no |-> m.no, prior |-> signer]
        <5>1. procs[p].offer.no = m.no /\ procs[p].offer.prior = signer
          BY <4>3
        <5>2. procs[p].offer.prior # Fresh.who
          BY <1>2, <2>1, <4>1, <4>3, <5>1 DEF DeskInv, OneInv
        <5> QED BY <4>1, <5>1, <5>2
      <4> QED BY <1>5, <4>2, <4>3
    <3>2. Fresh.pc \in {"commit", "stopping", "ready"} => Fresh.who \in agreed'
      BY <1>0 DEF DeskInv, SignerInv
    <3>3. \A q \in Pids : Fresh.pc = "ready" /\ Fresh.child = q /\ procs'[q].pc \in {"up", "stopping"} => procs'[q].signer = Fresh.who
      BY <1>8 DEF DeskInv, SignerInv
    <3>4. \A t \in told' : t.who \in agreed' /\ t.used = t.who
      BY <1>0 DEF DeskInv, SignerInv
    <3> QED BY <1>0, <1>7, <2>5, <3>1, <3>2, <3>3, <3>4 DEF SignerInv
  <2> QED BY <1>11, <2>5, <2>6, <2>7 DEF DeskInv
<1> QED BY <1>13, <1>14

(* The desktop's part of a step, whichever it is.                          *)
LEMMA DeskInvStep == DeskInv /\ [DeskNext]_deskVars => DeskInv'
<1> SUFFICES ASSUME DeskInv, [DeskNext]_deskVars PROVE DeskInv'
  OBVIOUS
<1>1. CASE UNCHANGED deskVars
  <2>1. UNCHANGED <<shell, jobs>> /\ UNCHANGED Rest /\ UNCHANGED procs
    BY <1>1 DEF deskVars, Rest
  <2>2. ProcsQuiet(procs') /\ Owned(procs', shell')
    BY <2>1, StillThere
  <2> QED BY <2>1, <2>2, ProcsMoveInv
<1>2. CASE DesktopStarts \/ RetryAsked \/ RetryStopped \/ WindowClosed \/ ShowWindow
  BY <1>2, DesktopStartsInv, RetryAskedInv, RetryStoppedInv, WindowClosedInv, ShowWindowInv
<1>3. CASE \E p \in 1 .. MaxProcs : ProcessEnds(p) \/ HostIsReady(p) \/ HostWorks(p) \/ HostTakes(p)
  BY <1>3, ProcStepsInv, HostTakesInv DEF Pids
<1>4. CASE \E s \in {"boot", "retry"} : HubAnswers(s) \/ HostRegisters(s)
  BY <1>4, HubAnswersInv, HostRegistersInv
<1>5. CASE \E s \in Quits : QuitAsked(s) \/ QuitPlanned(s) \/ ShutdownGoesOn(s) \/ \E yes \in BOOLEAN : QuitAnswered(s, yes)
  BY <1>5, QuitsInv, ShutdownGoesOnInv
<1>6. CASE \E g \in Grants : GrantAsked(g) \/ \E yes \in BOOLEAN : GrantChosen(g, yes)
  BY <1>6, GrantsInv
<1>7. CASE CodexAsked \/ \E yes \in BOOLEAN : CodexChosen(yes) \/ CodexChecked(yes)
  BY <1>7, CodexInv
<1>8. CASE \E s \in Slots : HostRestarts(s)
  BY <1>8, HostRestartsInv
<1>9. CASE \E c \in Candidates : FreshAsked(c)
  BY <1>9, FreshAskedInv
<1>10. CASE \E yes, late \in BOOLEAN : FreshChosen(yes, late)
  BY <1>10, FreshChosenInv
<1>11. CASE \E late \in BOOLEAN : FreshReplied(late)
  BY <1>11, FreshRepliedInv
<1>12. CASE FreshTimesOut \/ FreshRestarts \/ FreshReady
  BY <1>12, FreshTimesOutInv, FreshRestartsInv, FreshReadyInv
<1> QED BY <1>1, <1>2, <1>3, <1>4, <1>5, <1>6, <1>7, <1>8, <1>9, <1>10, <1>11, <1>12 DEF DeskNext

LEMMA DeskInvImplies == DeskInv => DeskTypeOK /\ HostIsOwned
<1> SUFFICES ASSUME DeskInv PROVE DeskTypeOK /\ HostIsOwned
  OBVIOUS
<1>0. DeskShapes /\ shell \in Shells /\ config \subseteq Wishes /\ signer \in Signers /\ agreed \subseteq Candidates
  BY DeskNow DEF DeskInv
<1>1. \A p \in Pids : procs[p].pc \in {"none", "up", "stopping", "dead"} /\ Len(procs[p].mail) <= 3
  <2> SUFFICES ASSUME NEW p \in Pids PROVE procs[p].pc \in {"none", "up", "stopping", "dead"} /\ Len(procs[p].mail) <= 3
    OBVIOUS
  <2>1. procs[p] \in Procs /\ procs[p].mail \in Seq(Requests) /\ Len(procs[p].mail) <= 2
    BY <1>0, DeskNow, ProcIs DEF DeskInv, PostInv
  <2>2. Len(procs[p].mail) \in Nat
    BY <2>1
  <2> QED BY <2>1, <2>2, ProcIs
<1>2. \A s \in Slots : jobs[s].pc \in AllPcs
  BY <1>0, DeskNow, JobIs
<1>3. DeskTypeOK
  BY <1>0, <1>1, <1>2, ShellIs DEF DeskTypeOK, Pids, AllPcs, Wishes, Signers
<1>4. HostIsOwned
  BY DEF DeskInv, UpInv, SignerInv, HostIsOwned, Pids
<1> QED BY <1>3, <1>4

-----------------------------------------------------------------------------
(* HostPairing: the team a host acts for.                                  *)

PairWord == [type : {"welcome", "paired", "unpaired"}, team : PairTeams \cup {NoTeam}]
Parked == [type |-> "welcome", team |-> NoTeam]
PairEnds == {"none", "open", "closing", "gone"}
PairConns == [far : PairEnds, near : PairEnds, cut : BOOLEAN, hello : Int, inbox : Seq(PairWord),
              team : PairTeams \cup {NoTeam}]
Machines == [up : BOOLEAN, given : BOOLEAN, code : Nat, team : PairTeams \cup {NoTeam},
             disk : PairTeams \cup {NoTeam}, link : 0 .. MaxLinks]

PairShapes ==
  /\ pairedTo \in PairTeams \cup {NoTeam} /\ serving \in 0 .. MaxLinks /\ links \in [LinkIds -> PairConns]
  /\ machine \in Machines /\ machine.code <= minted /\ minted \in Nat /\ starts \in Nat
  /\ \A w \in waiting : w = [code |-> w.code, link |-> w.link] /\ w.code \in 1 .. minted /\ w.link \in LinkIds
  /\ \A v, w \in waiting : v.code = w.code => v = w
  /\ \A l \in LinkIds : links[l].hello \in -1 .. minted
  /\ used \subseteq 1 .. minted /\ missed \in BOOLEAN /\ unheard \in BOOLEAN
  /\ machine.given => minted >= 1

(* One connection of the host is not over, and what it has not read is     *)
(* there.  A greeting comes first, and the end of a pairing last.          *)
Worded(q) ==
  \A i \in 1 .. Len(q) : /\ q[i].type = "welcome" => i = 1
                         /\ q[i].type = "unpaired" => i = Len(q) /\ q[i].team = NoTeam
Unended(q) == \A i \in 1 .. Len(q) : q[i].type # "unpaired"
LinkInv ==
  /\ \A l \in LinkIds :
       /\ links[l].near \in {"open", "closing"} <=> l = machine.link
       /\ links[l].cut \/ links[l].near # "open" \/ links[l].hello # -1 => links[l].inbox = <<>>
       /\ l = machine.link /\ (links[l].cut \/ links[l].near # "open" \/ links[l].far # "open") => links[l].hello = -1
       /\ Worded(links[l].inbox) /\ (l = serving => Unended(links[l].inbox))
  /\ machine.up => machine.team = machine.disk
  /\ ~machine.up => machine.link = 0 /\ machine.code = 0

(* The hub serves for the pairing, and parks nobody while it is paired.    *)
OnlyParked(q) == \A i \in 1 .. Len(q) : q[i] = Parked
ServeInv ==
  /\ serving # 0 => /\ pairedTo # NoTeam /\ links[serving].team = pairedTo
                    /\ links[serving].far = "open" /\ links[serving].hello = -1
  /\ waiting # {} => pairedTo = NoTeam
  /\ \A w \in waiting : links[w.link].far = "open" /\ links[w.link].hello = -1 /\ OnlyParked(links[w.link].inbox)

(* The last word on the pairing is on its way to the host or on its disk.  *)
Spoken(q) == q # <<>> /\ q[Len(q)].type # "welcome"
WordInv ==
  ~missed => IF machine.link # 0 /\ Spoken(links[machine.link].inbox)
             THEN links[machine.link].inbox[Len(links[machine.link].inbox)].team = pairedTo
             ELSE machine.disk = pairedTo

(* A code that paired the host is not presented any more, unless by a host *)
(* that has not read so yet.                                               *)
SaysPaired(q) == \E i \in 1 .. Len(q) : q[i].type = "paired"
CodeInv ==
  /\ \A l \in LinkIds : links[l].hello # -1 /\ l = machine.link => links[l].hello = machine.code
  /\ \A w \in waiting : w.link = machine.link => w.code = machine.code
  /\ ~machine.given =>
       /\ \A l \in LinkIds : links[l].hello > 0 /\ l # machine.link => links[l].hello # machine.code
       /\ ~unheard =>
            /\ again = {} /\ \A w \in waiting : w.code \notin used
            /\ \A l \in LinkIds : links[l].hello \notin used
            /\ machine.code \in used => machine.link # 0 /\ SaysPaired(links[machine.link].inbox)

ConnInv == PairShapes /\ LinkInv /\ ServeInv /\ WordInv /\ CodeInv

(* The store that is open is the last one opened, by a start, the host in  *)
(* use or one that is closing; a start waits for all that closed before.   *)
EncStarts == [pc : {"none", "waiting", "opening", "discarding"}, gen : Nat, after : Nat, id : Nat]
EncEnds == Seq([host : Nat, start : Nat])
EncHosts == [host : Nat, gen : Nat, start : EncStarts, starts : Nat, opened : Nat, closings : EncEnds, retired : Nat]
StoreOpening(e) == e.start.pc \in {"opening", "discarding"}
Closing(e, x) == \E i \in 1 .. Len(e.closings) : e.closings[i].host = x
Guarded(e, open, team) ==
  /\ e \in EncHosts /\ open \subseteq Nat \ {0} /\ open \subseteq {e.opened}
  /\ (StoreOpening(e) => e.opened \in open) /\ (e.host # 0 => e.host \in open)
  /\ \A x \in open : x = e.host \/ StoreOpening(e) \/ Closing(e, x)
  /\ e.host # 0 => /\ e.start.pc = "none" /\ team = Authority
                   /\ \A i \in 1 .. Len(e.closings) : e.closings[i].host = 0
  /\ e.start.pc # "none" => \A i \in 1 .. Len(e.closings) :
                              e.closings[i].host # 0 => e.retired - Len(e.closings) + i <= e.start.after
  /\ StoreOpening(e) => e.retired - Len(e.closings) >= e.start.after
StoreInv == Guarded(enc, stores, machine.team) /\ (~machine.up => enc = NoEnc /\ stores = {})

PairInv == ConnInv /\ StoreInv

LEMMA PairConstants == NoTeam \notin PairTeams /\ Authority \in PairTeams /\ MaxLinks \in Nat /\ MaxStarts \in Nat
  BY PairingAssumption

LEMMA PairInvInit == PairInit => PairInv
<1> SUFFICES ASSUME PairInit PROVE PairInv
  OBVIOUS
<1> USE PairConstants
<1>1. /\ NoConn \in PairConns /\ NoConn.hello = -1 /\ NoConn.near = "none" /\ NoConn.inbox = <<>>
  BY DEF NoConn, PairConns, PairEnds
<1>2. /\ machine \in Machines /\ machine.link = 0 /\ machine.code = 0 /\ machine.team = NoTeam /\ machine.disk = NoTeam
      /\ minted \in Nat /\ (machine.given => minted >= 1)
  BY DEF PairInit, Machines
<1>3. PairShapes
  <2>1. machine.code <= minted
    BY <1>2
  <2>5. -1 \in -1 .. minted
    BY <1>2
  <2>6. 0 \in 0 .. MaxLinks
    OBVIOUS
  <2>2. \A l \in LinkIds : links[l] = NoConn
    BY DEF PairInit
  <2>3. links \in [LinkIds -> PairConns] /\ \A l \in LinkIds : links[l].hello \in -1 .. minted
    BY <1>1, <2>5, <2>2 DEF PairInit
  <2>4. /\ pairedTo \in PairTeams \cup {NoTeam} /\ serving \in 0 .. MaxLinks /\ starts \in Nat
        /\ used = {} /\ waiting = {} /\ missed \in BOOLEAN /\ unheard \in BOOLEAN
    BY <2>6 DEF PairInit
  <2> QED BY <1>2, <2>1, <2>3, <2>4 DEF PairShapes
<1>4. LinkInv
  BY <1>1, <1>2 DEF PairInit, LinkInv, LinkIds, Worded, Unended
<1>5. ServeInv /\ WordInv
  BY <1>2 DEF PairInit, ServeInv, WordInv
<1>6. CodeInv
  BY <1>1, <1>2 DEF PairInit, CodeInv, LinkIds
<1>7. StoreInv
  <2>1. NoEnc \in EncHosts /\ NoEnc.host = 0 /\ NoEnc.start.pc = "none"
    BY DEF NoEnc, NoStart, EncHosts, EncStarts, EncEnds
  <2> QED BY <2>1 DEF PairInit, StoreInv, Guarded, StoreOpening
<1> QED BY <1>3, <1>4, <1>5, <1>6, <1>7 DEF PairInv, ConnInv

(* The encrypted host and its store.                                       *)
LEMMA GuardedNow ==
  ASSUME NEW e \in EncHosts
  PROVE  /\ e.host \in Nat /\ e.gen \in Nat /\ e.start \in EncStarts /\ e.starts \in Nat /\ e.opened \in Nat
         /\ e.closings \in EncEnds /\ e.retired \in Nat /\ e.start.after \in Nat /\ Len(e.closings) \in Nat
         /\ e = [host |-> e.host, gen |-> e.gen, start |-> e.start, starts |-> e.starts, opened |-> e.opened,
                 closings |-> e.closings, retired |-> e.retired]
  BY DEF EncHosts, EncStarts, EncEnds

LEMMA GuardedRetired ==
  ASSUME NEW e, NEW open, NEW team, Guarded(e, open, team), NEW t
  PROVE  Guarded(Retired(e), open, t) /\ Retired(e).host = 0
<1> DEFINE c == [host |-> e.host, start |-> e.start.id]
           d == Retired(e)
<1>1. e \in EncHosts
  BY DEF Guarded
<1>2. c \in [host : Nat, start : Nat] /\ c.host = e.host
  BY <1>1 DEF EncHosts, EncStarts
<1>3. d = [host |-> 0, gen |-> e.gen + 1, start |-> e.start, starts |-> e.starts, opened |-> e.opened,
           closings |-> Append(e.closings, c), retired |-> e.retired + 1]
  <2>1. d = [e EXCEPT !.gen = e.gen + 1, !.host = 0, !.retired = e.retired + 1, !.closings = Append(e.closings, c)]
    BY DEF Retired
  <2>2. e = [host |-> e.host, gen |-> e.gen, start |-> e.start, starts |-> e.starts, opened |-> e.opened,
             closings |-> e.closings, retired |-> e.retired]
    BY <1>1, GuardedNow
  <2> HIDE DEF c, d
  <2> QED BY <2>1, <2>2
<1>4. /\ Append(e.closings, c) \in EncEnds /\ Len(Append(e.closings, c)) = Len(e.closings) + 1
      /\ \A i \in 1 .. Len(e.closings) : Append(e.closings, c)[i] = e.closings[i]
      /\ Append(e.closings, c)[Len(e.closings) + 1] = c
  BY <1>1, <1>2, GuardedNow DEF EncEnds
<1> HIDE DEF c, d
<1>5. d \in EncHosts
  BY <1>1, <1>3, <1>4, GuardedNow DEF EncHosts
<1>6. /\ d.host = 0 /\ d.start = e.start /\ d.opened = e.opened /\ d.retired = e.retired + 1
      /\ Len(d.closings) = Len(e.closings) + 1 /\ d.closings[Len(e.closings) + 1].host = e.host
      /\ \A i \in 1 .. Len(e.closings) : d.closings[i] = e.closings[i]
  BY <1>2, <1>3, <1>4
<1>7. \A x \in open : StoreOpening(d) \/ Closing(d, x)
  <2>1. ASSUME NEW x \in open, x = e.host PROVE Closing(d, x)
    <3>1. Len(e.closings) + 1 \in 1 .. Len(d.closings)
      BY <1>1, <1>6, GuardedNow
    <3> QED BY <1>6, <2>1, <3>1 DEF Closing
  <2>2. ASSUME NEW x \in open, Closing(e, x) PROVE Closing(d, x)
    <3>1. PICK i \in 1 .. Len(e.closings) : e.closings[i].host = x
      BY <2>2 DEF Closing
    <3>2. i \in 1 .. Len(d.closings)
      BY <1>1, <1>6, GuardedNow
    <3> QED BY <1>6, <3>1, <3>2 DEF Closing
  <2> QED BY <1>6, <2>1, <2>2 DEF Guarded, StoreOpening
<1>8. d.start.pc # "none" => \A i \in 1 .. Len(d.closings) :
                               d.closings[i].host # 0 => d.retired - Len(d.closings) + i <= d.start.after
  <2>1. ASSUME d.start.pc # "none", NEW i \in 1 .. Len(d.closings), d.closings[i].host # 0
        PROVE  d.retired - Len(d.closings) + i <= d.start.after
    <3>1. e.host = 0
      BY <1>6, <2>1 DEF Guarded
    <3>2. i \in 1 .. Len(e.closings)
      BY <1>1, <1>6, <2>1, <3>1, GuardedNow
    <3>3. e.retired - Len(e.closings) + i <= e.start.after
      BY <1>6, <2>1, <3>2 DEF Guarded
    <3> QED BY <1>1, <1>6, <3>2, <3>3, GuardedNow
  <2> QED BY <2>1
<1>9. StoreOpening(d) => d.retired - Len(d.closings) >= d.start.after
  BY <1>1, <1>6, GuardedNow DEF Guarded, StoreOpening
<1>10. open \subseteq Nat \ {0} /\ open \subseteq {d.opened} /\ (StoreOpening(d) => d.opened \in open)
  BY <1>6 DEF Guarded, StoreOpening
<1> QED BY <1>5, <1>6, <1>7, <1>8, <1>9, <1>10 DEF Guarded, d

LEMMA GuardedFor ==
  ASSUME NEW e, NEW open, NEW team, Guarded(e, open, team), NEW t, e.host = 0 \/ t = Authority
  PROVE  Guarded(e, open, t)
  BY DEF Guarded

LEMMA GuardedEnsured ==
  ASSUME NEW e, NEW open, NEW team, Guarded(e, open, team), NEW t, e.host = 0 \/ t = Authority
  PROVE  Guarded(Ensured(e, t), open, t)
<1>1. CASE e.start.pc # "none" \/ e.host # 0 \/ t # Authority
  BY <1>1, GuardedFor DEF Ensured
<1>2. CASE ~(e.start.pc # "none" \/ e.host # 0 \/ t # Authority)
  <2> DEFINE s == [pc |-> "waiting", gen |-> e.gen, after |-> e.retired, id |-> e.starts + 1]
             d == Ensured(e, t)
  <2>1. e \in EncHosts
    BY DEF Guarded
  <2>2. s \in EncStarts
    BY <2>1, GuardedNow DEF EncStarts
  <2>3. d = [host |-> e.host, gen |-> e.gen, start |-> s, starts |-> e.starts + 1, opened |-> e.opened,
             closings |-> e.closings, retired |-> e.retired]
    <3>1. d = [e EXCEPT !.start = s, !.starts = e.starts + 1]
      BY <1>2 DEF Ensured
    <3>2. e = [host |-> e.host, gen |-> e.gen, start |-> e.start, starts |-> e.starts, opened |-> e.opened,
               closings |-> e.closings, retired |-> e.retired]
      BY <2>1, GuardedNow
    <3> HIDE DEF s, d
    <3> QED BY <3>1, <3>2
  <2>4. d.start.pc = "waiting" /\ d.start.after = e.retired
    BY <2>3
  <2> HIDE DEF s, d
  <2>5. d \in EncHosts
    BY <2>1, <2>2, <2>3, GuardedNow DEF EncHosts
  <2>6. \A i \in 1 .. Len(d.closings) : d.retired - Len(d.closings) + i <= d.start.after
    BY <2>1, <2>3, <2>4, GuardedNow
  <2>7. \A x \in open : Closing(d, x)
    BY <1>2, <2>3 DEF Guarded, StoreOpening, Closing
  <2>8. d.host = 0 /\ d.opened = e.opened /\ ~StoreOpening(d)
    BY <1>2, <2>3, <2>4 DEF StoreOpening
  <2> QED BY <2>4, <2>5, <2>6, <2>7, <2>8 DEF Guarded, d
<1> QED BY <1>1, <1>2

(* A start that is over, with the store not open on its account.           *)
LEMMA GuardedOver ==
  ASSUME NEW e, NEW open, NEW team, e \in EncHosts, open \subseteq Nat \ {0}, open \subseteq {e.opened}, e.host = 0,
         \A x \in open : Closing(e, x)
  PROVE  Guarded([e EXCEPT !.start = NoStart], open, team)
<1> DEFINE d == [e EXCEPT !.start = NoStart]
<1>1. d = [host |-> e.host, gen |-> e.gen, start |-> NoStart, starts |-> e.starts, opened |-> e.opened,
           closings |-> e.closings, retired |-> e.retired]
  BY GuardedNow
<1>2. NoStart \in EncStarts /\ NoStart.pc = "none"
  BY DEF NoStart, EncStarts
<1> HIDE DEF d
<1>3. d \in EncHosts
  BY <1>1, <1>2, GuardedNow DEF EncHosts
<1>4. d.host = 0 /\ d.opened = e.opened /\ d.start.pc = "none" /\ \A x \in open : Closing(d, x)
  BY <1>1, <1>2 DEF Closing
<1> QED BY <1>3, <1>4 DEF Guarded, StoreOpening, d

(* While a start opens the store, or a host has it open, nothing that      *)
(* closes has.                                                             *)
LEMMA OpeningAlone ==
  ASSUME NEW e, NEW open, NEW team, Guarded(e, open, team),
         e.start.pc # "none", e.retired - Len(e.closings) >= e.start.after
  PROVE  e.host = 0 /\ \A i \in 1 .. Len(e.closings) : e.closings[i].host = 0
<1>1. e.host = 0 /\ e \in EncHosts
  BY DEF Guarded
<1>2. ASSUME NEW i \in 1 .. Len(e.closings), e.closings[i].host # 0 PROVE FALSE
  <2>1. e.retired - Len(e.closings) + i <= e.start.after
    BY <1>2 DEF Guarded
  <2> QED BY <1>1, <2>1, GuardedNow
<1> QED BY <1>1, <1>2

LEMMA StartOverGuarded ==
  ASSUME NEW open, open \subseteq Nat \ {0}, open \subseteq {enc.opened}, enc \in EncHosts, enc.host = 0,
         \A x \in open : Closing(enc, x), NEW e, e = StartOver(enc)
  PROVE  Guarded(e, open, machine.team)
<1> DEFINE d == [enc EXCEPT !.start = NoStart]
<1>1. Guarded(d, open, machine.team) /\ d.host = 0
  BY GuardedOver, GuardedNow
<1>2. e = d \/ e = Ensured(d, machine.team)
  BY DEF StartOver
<1> HIDE DEF d
<1>3. Guarded(Ensured(d, machine.team), open, machine.team)
  BY <1>1, GuardedEnsured
<1> QED BY <1>1, <1>2, <1>3

LEMMA StoreStepsInv ==
  ASSUME StoreInv, StartProceeds \/ StartDiscarded \/ RetirementEnds \/ \E ok \in BOOLEAN : StartReady(ok)
  PROVE  StoreInv'
<1>0. /\ machine' = machine /\ enc \in EncHosts /\ Guarded(enc, stores, machine.team) /\ stores \subseteq Nat \ {0}
      /\ enc = [host |-> enc.host, gen |-> enc.gen, start |-> enc.start, starts |-> enc.starts, opened |-> enc.opened,
                closings |-> enc.closings, retired |-> enc.retired]
  <2>1. enc \in EncHosts /\ stores \subseteq Nat \ {0}
    BY DEF StoreInv, Guarded
  <2> QED BY <2>1, GuardedNow DEF StoreInv, StartProceeds, StartDiscarded, RetirementEnds, StartReady
<1>1. machine.up
  BY DEF StoreInv, NoEnc, NoStart, StartProceeds, StartDiscarded, RetirementEnds, StartReady
<1>2. CASE StartProceeds
  <2>1. enc.start.pc = "waiting" /\ enc.retired - Len(enc.closings) >= enc.start.after
    BY <1>2 DEF StartProceeds
  <2>2. enc.host = 0 /\ \A i \in 1 .. Len(enc.closings) : enc.closings[i].host = 0
    BY <1>0, <2>1, OpeningAlone
  <2>3. stores = {}
    BY <1>0, <2>1, <2>2 DEF Guarded, StoreOpening, Closing
  <2>4. CASE Unchallenged
    <3> DEFINE n == enc.opened + 1
               s == [enc.start EXCEPT !.pc = "opening"]
    <3>1. enc' = [enc EXCEPT !.start.pc = "opening", !.opened = @ + 1] /\ stores' = {n}
      BY <1>2, <2>3, <2>4 DEF StartProceeds
    <3>2. s \in EncStarts /\ s.pc = "opening" /\ s.after = enc.start.after /\ n \in Nat \ {0}
      BY <1>0, GuardedNow DEF EncStarts
    <3>3. enc' = [host |-> enc.host, gen |-> enc.gen, start |-> s, starts |-> enc.starts, opened |-> n,
                  closings |-> enc.closings, retired |-> enc.retired]
      <4>1. enc' = [enc EXCEPT !.start = s, !.opened = n]
        BY <3>1
      <4> HIDE DEF s, n
      <4> QED BY <1>0, <4>1
    <3> HIDE DEF s, n
    <3>4. enc' \in EncHosts
      BY <1>0, <3>2, <3>3, GuardedNow DEF EncHosts
    <3>5. /\ enc'.host = 0 /\ StoreOpening(enc') /\ enc'.opened = n /\ enc'.closings = enc.closings
          /\ enc'.retired = enc.retired /\ enc'.start.after = enc.start.after
      BY <2>2, <3>2, <3>3 DEF StoreOpening
    <3> QED BY <1>0, <1>1, <2>1, <2>2, <3>1, <3>2, <3>4, <3>5 DEF Guarded, StoreInv
  <2>5. CASE ~Unchallenged
    <3>1. enc' = StartOver(enc) /\ stores' = {}
      BY <1>2, <2>3, <2>5 DEF StartProceeds
    <3>2. Guarded(enc', {}, machine.team)
      BY <1>0, <2>2, <3>1, StartOverGuarded
    <3> QED BY <1>0, <1>1, <3>1, <3>2 DEF StoreInv
  <2> QED BY <2>4, <2>5
<1>3. CASE StartDiscarded
  <2>1. enc' = StartOver(enc) /\ stores' = stores \ {enc.opened} /\ enc.start.pc = "discarding"
    BY <1>3 DEF StartDiscarded
  <2>2. stores' = {} /\ enc.host = 0
    BY <1>0, <2>1 DEF Guarded
  <2>3. Guarded(enc', {}, machine.team)
    BY <1>0, <2>1, <2>2, StartOverGuarded
  <2> QED BY <1>0, <1>1, <2>2, <2>3 DEF StoreInv
<1>4. CASE RetirementEnds
  <2> DEFINE c == Head(enc.closings)
             q == Tail(enc.closings)
  <2>1. /\ enc.closings # <<>> /\ stores' = stores \ {c.host} /\ enc' = [enc EXCEPT !.closings = q]
    BY <1>4 DEF RetirementEnds
  <2>2. /\ q \in EncEnds /\ Len(q) = Len(enc.closings) - 1 /\ \A i \in 1 .. Len(q) : q[i] = enc.closings[i + 1] /\ i + 1 \in 1 .. Len(enc.closings)
        /\ c = enc.closings[1] /\ 1 \in 1 .. Len(enc.closings) /\ Len(enc.closings) \in Nat
    <3>1. enc.closings \in Seq([host : Nat, start : Nat])
      BY <1>0, GuardedNow DEF EncEnds
    <3> QED BY <2>1, <3>1 DEF EncEnds
  <2> HIDE DEF q, c
  <2>3. enc' = [host |-> enc.host, gen |-> enc.gen, start |-> enc.start, starts |-> enc.starts, opened |-> enc.opened,
                closings |-> q, retired |-> enc.retired]
    BY <1>0, <2>1
  <2>4. enc' \in EncHosts
    BY <1>0, <2>2, <2>3, GuardedNow DEF EncHosts
  <2>5. /\ enc'.host = enc.host /\ enc'.start = enc.start /\ enc'.opened = enc.opened /\ enc'.closings = q /\ enc'.retired = enc.retired
    BY <2>3
  <2>6. stores' \subseteq stores
    BY <2>1
  <2>7. (enc.host # 0 \/ StoreOpening(enc)) => stores' = stores
    <3>1. StoreOpening(enc) => enc.start.pc # "none" /\ enc.retired - Len(enc.closings) >= enc.start.after
      BY <1>0 DEF Guarded, StoreOpening
    <3>2. (enc.host # 0 \/ StoreOpening(enc)) => c.host = 0
      BY <1>0, <2>2, <3>1, OpeningAlone DEF Guarded
    <3> QED BY <1>0, <2>1, <3>2
  <2>8. \A x \in stores' : x = enc'.host \/ StoreOpening(enc') \/ Closing(enc', x)
    <3>1. ASSUME NEW x \in stores', Closing(enc, x) PROVE Closing(enc', x)
      <4>1. PICK i \in 1 .. Len(enc.closings) : enc.closings[i].host = x
        BY <3>1 DEF Closing
      <4>2. i # 1
        BY <2>1, <2>2, <4>1, <3>1
      <4>3. i - 1 \in 1 .. Len(q) /\ q[i - 1] = enc.closings[i]
        BY <2>2, <4>2
      <4> QED BY <2>5, <4>1, <4>3 DEF Closing
    <3> QED BY <1>0, <2>5, <2>6, <3>1 DEF Guarded, StoreOpening
  <2>9. enc'.start.pc # "none" => \A i \in 1 .. Len(enc'.closings) :
                        enc'.closings[i].host # 0 => enc'.retired - Len(enc'.closings) + i <= enc'.start.after
    <3>1. ASSUME enc.start.pc # "none", NEW i \in 1 .. Len(q), q[i].host # 0 PROVE enc.retired - Len(q) + i <= enc.start.after
      <4>1. enc.retired - Len(enc.closings) + (i + 1) <= enc.start.after
        BY <1>0, <2>2, <3>1 DEF Guarded
      <4>2. Len(q) = Len(enc.closings) - 1 /\ Len(enc.closings) \in Nat /\ i \in Int
        BY <2>2
      <4>3. enc.retired \in Nat /\ enc.start.after \in Nat
        BY <1>0, GuardedNow DEF Guarded
      <4> QED BY <4>1, <4>2, <4>3
    <3> QED BY <2>5, <3>1
  <2>10. StoreOpening(enc') => enc'.retired - Len(enc'.closings) >= enc'.start.after
    BY <1>0, <2>2, <2>5, GuardedNow DEF Guarded, StoreOpening
  <2>11. enc'.host # 0 => \A i \in 1 .. Len(enc'.closings) : enc'.closings[i].host = 0
    BY <1>0, <2>2, <2>5 DEF Guarded
  <2>12. Guarded(enc', stores', machine.team)
    <3>1. stores' \subseteq Nat \ {0} /\ stores' \subseteq {enc'.opened}
      BY <1>0, <2>5, <2>6 DEF Guarded
    <3>2. (StoreOpening(enc') => enc'.opened \in stores') /\ (enc'.host # 0 => enc'.host \in stores')
      BY <1>0, <2>5, <2>7 DEF Guarded, StoreOpening
    <3>3. enc'.host # 0 => enc'.start.pc = "none" /\ machine.team = Authority
      BY <1>0, <2>5 DEF Guarded
    <3> QED BY <2>4, <2>8, <2>9, <2>10, <2>11, <3>1, <3>2, <3>3 DEF Guarded
  <2> QED BY <1>0, <1>1, <2>12 DEF StoreInv
<1>5. ASSUME NEW ok \in BOOLEAN, StartReady(ok)
      PROVE  StoreInv'
  <2>1. enc.start.pc = "opening" /\ stores' = stores /\ enc.retired - Len(enc.closings) >= enc.start.after /\ enc.opened \in stores
    BY <1>0, <1>5 DEF StartReady, Guarded, StoreOpening
  <2>2. enc.host = 0 /\ \A i \in 1 .. Len(enc.closings) : enc.closings[i].host = 0
    BY <1>0, <2>1, OpeningAlone
  <2>3. CASE ok /\ Unchallenged
    <3>1. enc' = [enc EXCEPT !.host = enc.opened, !.start = NoStart] /\ machine.team = Authority
      BY <1>5, <2>3 DEF StartReady, Unchallenged
    <3>2. enc' = [host |-> enc.opened, gen |-> enc.gen, start |-> NoStart, starts |-> enc.starts, opened |-> enc.opened,
                  closings |-> enc.closings, retired |-> enc.retired]
      BY <1>0, <3>1
    <3>3. NoStart \in EncStarts /\ NoStart.pc = "none"
      BY DEF NoStart, EncStarts
    <3>4. enc' \in EncHosts
      BY <1>0, <3>2, <3>3, GuardedNow DEF EncHosts
    <3>5. enc'.host = enc.opened /\ enc'.start.pc = "none" /\ enc'.opened = enc.opened /\ enc'.closings = enc.closings
      BY <3>2, <3>3
    <3> QED BY <1>0, <1>1, <2>1, <2>2, <3>1, <3>4, <3>5 DEF Guarded, StoreOpening, StoreInv
  <2>4. CASE ~(ok /\ Unchallenged)
    <3> DEFINE s == [enc.start EXCEPT !.pc = "discarding"]
    <3>1. enc' = [enc EXCEPT !.start = s]
      BY <1>5, <2>4 DEF StartReady
    <3>2. s \in EncStarts /\ s.pc = "discarding" /\ s.after = enc.start.after
      BY <1>0, GuardedNow DEF EncStarts
    <3> HIDE DEF s
    <3>3. enc' = [host |-> enc.host, gen |-> enc.gen, start |-> s, starts |-> enc.starts, opened |-> enc.opened,
                  closings |-> enc.closings, retired |-> enc.retired]
      BY <1>0, <3>1
    <3>4. enc' \in EncHosts
      BY <1>0, <3>2, <3>3, GuardedNow DEF EncHosts
    <3>5. /\ enc'.host = 0 /\ StoreOpening(enc') /\ enc'.opened = enc.opened /\ enc'.closings = enc.closings
          /\ enc'.retired = enc.retired /\ enc'.start.after = enc.start.after
      BY <2>2, <3>2, <3>3 DEF StoreOpening
    <3> QED BY <1>0, <1>1, <2>1, <2>2, <3>4, <3>5 DEF Guarded, StoreInv
  <2> QED BY <2>3, <2>4
<1> QED BY <1>2, <1>3, <1>4, <1>5

(* What the host hears and how its process comes and goes.                 *)
LEMMA StoreMovesInv ==
  ASSUME ConnInv, StoreInv,
         \/ HostStops \/ HostStarts
         \/ \E l \in LinkIds : WelcomeHeard(l) \/ PairedHeard(l) \/ UnpairedHeard(l)
  PROVE  StoreInv'
<1>0. Guarded(enc, stores, machine.team)
  BY DEF StoreInv
<1>1. CASE HostStops
  <2>1. NoEnc \in EncHosts /\ NoEnc.host = 0 /\ NoEnc.start.pc = "none"
    BY DEF NoEnc, NoStart, EncHosts, EncStarts, EncEnds
  <2>2. enc' = NoEnc /\ stores' = {}
    BY <1>1 DEF HostStops
  <2> QED BY <2>1, <2>2 DEF StoreInv, Guarded, StoreOpening
<1>2. CASE HostStarts
  <2>1. enc' = enc /\ stores' = stores /\ enc.host = 0 /\ machine'.up
    BY <1>2 DEF HostStarts, StoreInv, NoEnc, ConnInv, PairShapes, Machines
  <2>2. Guarded(enc, stores, machine'.team)
    BY <1>0, <2>1, GuardedFor
  <2> QED BY <2>1, <2>2 DEF StoreInv
<1>3. ASSUME NEW l \in LinkIds, WelcomeHeard(l) \/ PairedHeard(l) \/ UnpairedHeard(l)
      PROVE  StoreInv'
  <2>1. machine.up /\ machine'.up = machine.up /\ stores' = stores
    <3>1. machine.link = l /\ l # 0
      <4>1. machine.link = l
        BY <1>3 DEF WelcomeHeard, PairedHeard, UnpairedHeard, Heard
      <4>2. l # 0
        BY PairConstants DEF LinkIds
      <4> QED BY <4>1, <4>2
    <3> QED BY <1>3, <3>1 DEF WelcomeHeard, PairedHeard, UnpairedHeard, ConnInv, LinkInv, PairShapes, Machines
  <2>2. CASE WelcomeHeard(l)
    <3>1. machine'.team = machine.team /\ enc' \in {enc, Ensured(enc, machine.team)}
      BY <2>2 DEF WelcomeHeard, ConnInv, PairShapes, Machines
    <3>2. enc.host = 0 \/ machine.team = Authority
      BY <1>0 DEF Guarded
    <3> QED BY <1>0, <2>1, <3>1, <3>2, GuardedEnsured DEF StoreInv
  <2>3. CASE PairedHeard(l)
    <3> DEFINE t == Head(links[l].inbox).team
    <3>1. machine'.team = t /\ enc' = Ensured(IF machine.team \notin {NoTeam, t} THEN Retired(enc) ELSE enc, t)
      BY <2>3 DEF PairedHeard, ConnInv, PairShapes, Machines
    <3> HIDE DEF t
    <3>2. CASE machine.team \notin {NoTeam, t}
      <4>1. Guarded(Retired(enc), stores, t) /\ Retired(enc).host = 0 /\ enc' = Ensured(Retired(enc), t)
        BY <1>0, <3>1, <3>2, GuardedRetired
      <4> QED BY <2>1, <3>1, <4>1, GuardedEnsured DEF StoreInv
    <3>3. CASE machine.team \in {NoTeam, t}
      <4>1. enc.host = 0 \/ t = Authority
        BY <1>0, <3>3, PairConstants DEF Guarded
      <4> QED BY <1>0, <2>1, <3>1, <3>3, <4>1, GuardedEnsured DEF StoreInv
    <3> QED BY <3>2, <3>3
  <2>4. CASE UnpairedHeard(l)
    <3>1. enc' = Retired(enc)
      BY <2>4 DEF UnpairedHeard
    <3> QED BY <1>0, <2>1, <3>1, GuardedRetired DEF StoreInv
  <2> QED BY <1>3, <2>2, <2>3, <2>4
<1> QED BY <1>1, <1>2, <1>3

(* A message on a connection.                                              *)
LEMMA CarriedIs ==
  ASSUME NEW ls \in [LinkIds -> PairConns], NEW l \in 0 .. MaxLinks, NEW m \in PairWord
  PROVE  /\ Carried(ls, l, m) \in [LinkIds -> PairConns]
         /\ \A k \in LinkIds : /\ Carried(ls, l, m)[k].far = ls[k].far /\ Carried(ls, l, m)[k].near = ls[k].near
                               /\ Carried(ls, l, m)[k].cut = ls[k].cut /\ Carried(ls, l, m)[k].hello = ls[k].hello
                               /\ Carried(ls, l, m)[k].team = ls[k].team
                               /\ Carried(ls, l, m)[k].inbox = IF k = l /\ Whole(ls, l) THEN Append(ls[k].inbox, m) ELSE ls[k].inbox
<1>1. CASE ~Whole(ls, l)
  BY <1>1 DEF Carried
<1>2. CASE Whole(ls, l)
  <2>1. l \in LinkIds
    BY <1>2, PairConstants DEF Whole, LinkIds
  <2> DEFINE q == Append(ls[l].inbox, m)
             c == [ls[l] EXCEPT !.inbox = q]
  <2>2. ls[l] \in PairConns /\ q \in Seq(PairWord)
    BY <2>1 DEF PairConns
  <2>3. Carried(ls, l, m) = [ls EXCEPT ![l] = c]
    BY <1>2 DEF Carried
  <2> HIDE DEF q
  <2>4. /\ c \in PairConns /\ c.far = ls[l].far /\ c.near = ls[l].near /\ c.cut = ls[l].cut /\ c.hello = ls[l].hello
        /\ c.team = ls[l].team /\ c.inbox = q
    BY <2>2 DEF PairConns
  <2> HIDE DEF c
  <2> QED BY <1>2, <2>1, <2>3, <2>4 DEF q
<1> QED BY <1>1, <1>2

LEMMA WordsAppend ==
  ASSUME NEW q \in Seq(PairWord), NEW m \in PairWord
  PROVE  /\ Append(q, m) # <<>> /\ Len(Append(q, m)) = Len(q) + 1 /\ Append(q, m)[Len(q) + 1] = m /\ Len(q) \in Nat
         /\ \A i \in 1 .. Len(q) : Append(q, m)[i] = q[i]
         /\ Spoken(Append(q, m)) <=> m.type # "welcome"
         /\ SaysPaired(q) => SaysPaired(Append(q, m))
         /\ m.type = "paired" => SaysPaired(Append(q, m))
<1>1. /\ Append(q, m) # <<>> /\ Len(Append(q, m)) = Len(q) + 1 /\ Append(q, m)[Len(q) + 1] = m /\ Len(q) \in Nat
      /\ \A i \in 1 .. Len(q) : Append(q, m)[i] = q[i]
  OBVIOUS
<1>2. Spoken(Append(q, m)) <=> m.type # "welcome"
  BY <1>1 DEF Spoken
<1>3. 1 .. Len(q) \subseteq 1 .. Len(Append(q, m)) /\ Len(q) + 1 \in 1 .. Len(Append(q, m))
  BY <1>1
<1>4. (SaysPaired(q) => SaysPaired(Append(q, m))) /\ (m.type = "paired" => SaysPaired(Append(q, m)))
  BY <1>1, <1>3 DEF SaysPaired
<1> QED BY <1>1, <1>2, <1>4

LEMMA WordsTail ==
  ASSUME NEW q \in Seq(PairWord), q # <<>>, Worded(q)
  PROVE  /\ Tail(q) \in Seq(PairWord) /\ Worded(Tail(q)) /\ (Unended(q) => Unended(Tail(q))) /\ Head(q) \in PairWord
         /\ OnlyParked(q) => OnlyParked(Tail(q)) /\ Head(q) = Parked
         /\ Spoken(Tail(q)) => Spoken(q) /\ Tail(q)[Len(Tail(q))] = q[Len(q)]
         /\ Spoken(q) /\ ~Spoken(Tail(q)) => Tail(q) = <<>> /\ q[Len(q)] = Head(q)
         /\ Head(q).type # "welcome" => Spoken(q)
         /\ SaysPaired(q) /\ Head(q).type # "paired" => SaysPaired(Tail(q))
         /\ Head(q).type = "unpaired" => Len(q) = 1 /\ q[Len(q)] = Head(q) /\ Head(q).team = NoTeam
<1> DEFINE r == Tail(q)
<1>1. /\ Len(q) \in Nat /\ Len(q) >= 1 /\ r \in Seq(PairWord) /\ Len(r) = Len(q) - 1 /\ Head(q) = q[1] /\ q[1] \in PairWord
      /\ \A i \in 1 .. Len(r) : r[i] = q[i + 1] /\ i + 1 \in 1 .. Len(q)
      /\ r # <<>> => Len(r) >= 1
      /\ Len(r) = 0 => r = <<>>
  OBVIOUS
<1> HIDE DEF r
<1>2. Worded(r)
  <2>1. ASSUME NEW i \in 1 .. Len(r)
        PROVE  (r[i].type = "welcome" => i = 1) /\ (r[i].type = "unpaired" => i = Len(r) /\ r[i].team = NoTeam)
    <3>1. r[i] = q[i + 1] /\ i + 1 \in 1 .. Len(q)
      BY <1>1
    <3>2. (q[i + 1].type = "welcome" => i + 1 = 1) /\ (q[i + 1].type = "unpaired" => i + 1 = Len(q) /\ q[i + 1].team = NoTeam)
      BY <3>1 DEF Worded
    <3> QED BY <1>1, <3>1, <3>2
  <2> QED BY <2>1 DEF Worded
<1>3. Unended(q) => Unended(r)
  BY <1>1 DEF Unended
<1>4. OnlyParked(q) => OnlyParked(r) /\ Head(q) = Parked
  BY <1>1 DEF OnlyParked
<1>5. \A i \in 2 .. Len(q) : q[i].type # "welcome" /\ q[i] = r[i - 1] /\ i - 1 \in 1 .. Len(r)
  BY <1>1 DEF Worded
<1>6. Spoken(r) => Spoken(q) /\ r[Len(r)] = q[Len(q)]
  BY <1>1, <1>5 DEF Spoken
<1>7. Spoken(q) /\ ~Spoken(r) => r = <<>> /\ q[Len(q)] = Head(q)
  <2>1. Len(r) >= 1 => r[Len(r)] = q[Len(q)]
    BY <1>1, <1>5
  <2>2. Spoken(q) /\ Len(r) >= 1 => Spoken(r)
    BY <1>1, <2>1 DEF Spoken
  <2>3. Len(r) = 0 => Len(q) = 1
    BY <1>1
  <2> QED BY <1>1, <2>2, <2>3
<1>8. Head(q).type # "welcome" => Spoken(q)
  <2>1. Len(q) = 1 => q[Len(q)] = Head(q)
    BY <1>1
  <2>2. Len(q) # 1 => q[Len(q)].type # "welcome"
    BY <1>1, <1>5
  <2> QED BY <2>1, <2>2 DEF Spoken
<1>9. SaysPaired(q) /\ Head(q).type # "paired" => SaysPaired(r)
  <2>1. ASSUME NEW i \in 1 .. Len(q), q[i].type = "paired", Head(q).type # "paired" PROVE SaysPaired(r)
    <3>1. i \in 2 .. Len(q)
      BY <1>1, <2>1
    <3> QED BY <1>5, <2>1, <3>1 DEF SaysPaired
  <2> QED BY <2>1 DEF SaysPaired
<1>10. Head(q).type = "unpaired" => Len(q) = 1 /\ q[Len(q)] = Head(q) /\ Head(q).team = NoTeam
  <2>1. 1 \in 1 .. Len(q)
    BY <1>1
  <2> QED BY <1>1, <2>1 DEF Worded
<1> QED BY <1>1, <1>2, <1>3, <1>4, <1>6, <1>7, <1>8, <1>9, <1>10 DEF r

LEMMA ConnNow ==
  ASSUME ConnInv
  PROVE  /\ MaxLinks \in Nat /\ 0 \notin LinkIds /\ \A l \in 0 .. MaxLinks : l # 0 => l \in LinkIds
         /\ \A l \in LinkIds : l \in 0 .. MaxLinks
         /\ \A l \in LinkIds : /\ links[l] \in PairConns /\ links[l].inbox \in Seq(PairWord) /\ links[l].hello \in Int
                               /\ links[l].hello >= -1 /\ links[l].hello <= minted
                               /\ links[l].far \in PairEnds /\ links[l].near \in PairEnds
         /\ DOMAIN links = LinkIds /\ minted \in Nat /\ machine \in Machines /\ machine.code \in Nat
         /\ machine.link \in 0 .. MaxLinks /\ pairedTo \in PairTeams \cup {NoTeam} /\ serving \in 0 .. MaxLinks
         /\ <<>> \in Seq(PairWord) /\ Worded(<<>>) /\ Unended(<<>>) /\ ~Spoken(<<>>) /\ OnlyParked(<<>>) /\ Parked \in PairWord
         /\ \A w \in waiting : w.link \in LinkIds /\ w.code \in Nat
<1>1. MaxLinks \in Nat /\ 0 \notin LinkIds /\ \A l \in 0 .. MaxLinks : l # 0 => l \in LinkIds
  BY PairConstants DEF LinkIds
<1>2. Worded(<<>>) /\ Unended(<<>>) /\ ~Spoken(<<>>) /\ OnlyParked(<<>>) /\ <<>> \in Seq(PairWord) /\ Parked \in PairWord
  BY DEF Worded, Unended, Spoken, OnlyParked, PairWord, Parked
<1>3. \A l \in LinkIds : l \in 0 .. MaxLinks
  BY PairConstants DEF LinkIds
<1>4. \A l \in LinkIds : /\ links[l] \in PairConns /\ links[l].inbox \in Seq(PairWord) /\ links[l].hello \in Int
                         /\ links[l].hello >= -1 /\ links[l].hello <= minted
                         /\ links[l].far \in PairEnds /\ links[l].near \in PairEnds
  BY DEF ConnInv, PairShapes, PairConns
<1>5. /\ DOMAIN links = LinkIds /\ minted \in Nat /\ machine \in Machines /\ machine.code \in Nat
      /\ machine.link \in 0 .. MaxLinks /\ pairedTo \in PairTeams \cup {NoTeam} /\ serving \in 0 .. MaxLinks
      /\ \A w \in waiting : w.link \in LinkIds /\ w.code \in Nat
  BY DEF ConnInv, PairShapes, Machines
<1> QED BY <1>1, <1>2, <1>3, <1>4, <1>5

LEMMA MachineIs ==
  ASSUME NEW m \in Machines
  PROVE  /\ m = [up |-> m.up, given |-> m.given, code |-> m.code, team |-> m.team, disk |-> m.disk, link |-> m.link]
         /\ m.up \in BOOLEAN /\ m.given \in BOOLEAN /\ m.code \in Nat /\ m.team \in PairTeams \cup {NoTeam}
         /\ m.disk \in PairTeams \cup {NoTeam} /\ m.link \in 0 .. MaxLinks
  BY DEF Machines
LEMMA ConnIs ==
  ASSUME NEW c \in PairConns
  PROVE  /\ c = [far |-> c.far, near |-> c.near, cut |-> c.cut, hello |-> c.hello, inbox |-> c.inbox, team |-> c.team]
         /\ c.far \in PairEnds /\ c.near \in PairEnds /\ c.cut \in BOOLEAN /\ c.hello \in Int /\ c.inbox \in Seq(PairWord)
         /\ c.team \in PairTeams \cup {NoTeam}
  BY DEF PairConns

LEMMA FreshConn ==
  ASSUME NEW n, NEW c, c = [NoConn EXCEPT !.far = "open", !.near = "open", !.hello = n]
  PROVE  c = [far |-> "open", near |-> "open", cut |-> FALSE, hello |-> n, inbox |-> <<>>, team |-> NoTeam]
  BY DEF NoConn

LEMMA FreshConnIs ==
  ASSUME NEW n, n \in Int, NEW c,
         c = [far |-> "open", near |-> "open", cut |-> FALSE, hello |-> n, inbox |-> <<>>, team |-> NoTeam]
  PROVE  c \in PairConns /\ c.far = "open" /\ c.near = "open" /\ ~c.cut /\ c.hello = n /\ c.inbox = <<>>
<1>1. c.far = "open" /\ c.near = "open" /\ ~c.cut /\ c.hello = n /\ c.inbox = <<>>
  OBVIOUS
<1>2. <<>> \in Seq(PairWord) /\ FALSE \in BOOLEAN /\ "open" \in PairEnds /\ NoTeam \in PairTeams \cup {NoTeam}
  BY DEF PairEnds
<1>3. c \in PairConns
  BY <1>2 DEF PairConns
<1> QED BY <1>1, <1>3

(* The process and its connection.                                         *)
LEMMA HostStopsInv ==
  ASSUME ConnInv, HostStops
  PROVE  ConnInv'
<1> DEFINE l == machine.link
<1>0. /\ UNCHANGED <<pairedTo, waiting, serving, minted, starts, used, again>>
      /\ machine' = [machine EXCEPT !.up = FALSE, !.code = 0, !.team = NoTeam, !.link = 0] /\ machine \in Machines
  BY ConnNow DEF HostStops
<1>1. /\ machine' \in Machines /\ ~machine'.up /\ machine'.code = 0 /\ machine'.link = 0
      /\ machine'.given = machine.given /\ machine'.disk = machine.disk
  <2>1. machine' = [up |-> FALSE, given |-> machine.given, code |-> 0, team |-> NoTeam, disk |-> machine.disk, link |-> 0]
    <3>1. machine = [up |-> machine.up, given |-> machine.given, code |-> machine.code, team |-> machine.team,
                     disk |-> machine.disk, link |-> machine.link]
      BY <1>0, MachineIs
    <3> QED BY <1>0, <3>1
  <2>3. /\ machine.given \in BOOLEAN /\ FALSE \in BOOLEAN /\ 0 \in Nat /\ NoTeam \in PairTeams \cup {NoTeam}
        /\ machine.disk \in PairTeams \cup {NoTeam} /\ 0 \in 0 .. MaxLinks
    BY <1>0, MachineIs, PairConstants
  <2>2. machine' \in Machines
    BY <2>1, <2>3 DEF Machines
  <2> QED BY <2>1, <2>2
<1>2. /\ links' \in [LinkIds -> PairConns]
      /\ \A k \in LinkIds : /\ k # l => links'[k] = links[k]
                            /\ links'[k].far = links[k].far /\ links'[k].hello = links[k].hello /\ links'[k].team = links[k].team
                            /\ k = l => links'[k].near = "gone" /\ links'[k].inbox = <<>>
      /\ missed' \in BOOLEAN /\ unheard' \in BOOLEAN /\ (~missed' => ~missed) /\ (~unheard' => ~unheard)
      /\ ~missed' => ~(l # 0 /\ Spoken(links[l].inbox))
  <2>0. links \in [LinkIds -> PairConns] /\ missed \in BOOLEAN /\ unheard \in BOOLEAN
    BY DEF ConnInv, PairShapes
  <2>1. CASE l = 0
    BY <2>0, <2>1, ConnNow DEF HostStops
  <2>2. CASE l # 0
    <3>1. /\ l \in LinkIds /\ Dropped(l)
          /\ links' = [links EXCEPT ![l] = [@ EXCEPT !.near = "gone", !.cut = TRUE, !.inbox = <<>>]]
      BY <2>2, ConnNow DEF HostStops
    <3>2. links[l] \in PairConns /\ links[l].inbox \in Seq(PairWord)
      BY <3>1, ConnNow
    <3> HIDE DEF l
    <3>3. /\ links'[l] = [links[l] EXCEPT !.near = "gone", !.cut = TRUE, !.inbox = <<>>]
          /\ \A k \in LinkIds : k # l => links'[k] = links[k]
      BY <2>0, <3>1
    <3>4. /\ links'[l] \in PairConns /\ links'[l].near = "gone" /\ links'[l].inbox = <<>>
          /\ links'[l].far = links[l].far /\ links'[l].hello = links[l].hello /\ links'[l].team = links[l].team
      <4>1. links'[l] = [far |-> links[l].far, near |-> "gone", cut |-> TRUE, hello |-> links[l].hello, inbox |-> <<>>,
                         team |-> links[l].team]
        BY <3>2, <3>3, ConnIs
      <4> QED BY <3>2, <4>1, ConnIs, ConnNow DEF PairConns, PairEnds
    <3>5. links' \in [LinkIds -> PairConns]
      BY <2>0, <3>1, <3>3, <3>4
    <3>6. ~missed' => Words(l) = {}
      BY <3>1 DEF Dropped
    <3>7. Spoken(links[l].inbox) => Words(l) # {}
      BY <3>2 DEF Spoken, Words
    <3> QED BY <2>0, <3>1, <3>3, <3>4, <3>5, <3>6, <3>7 DEF Dropped
  <2> QED BY <2>1, <2>2
<1> HIDE DEF l
<1>3. PairShapes'
  BY <1>0, <1>1, <1>2, ConnNow DEF ConnInv, PairShapes, LinkIds
<1>4. LinkInv'
  <2>1. ASSUME NEW k \in LinkIds
        PROVE  /\ ~(links'[k].near \in {"open", "closing"})
               /\ links'[k].cut \/ links'[k].near # "open" \/ links'[k].hello # -1 => links'[k].inbox = <<>>
               /\ Worded(links'[k].inbox) /\ (k = serving' => Unended(links'[k].inbox))
    <3>1. CASE k = l
      BY <1>2, <3>1, ConnNow
    <3>2. CASE k # l
      BY <1>0, <1>2, <3>2 DEF ConnInv, LinkInv, l
    <3> QED BY <3>1, <3>2
  <2> QED BY <1>1, <2>1, ConnNow DEF LinkInv, LinkIds
<1>5. ServeInv'
  <2>1. \A k \in LinkIds : OnlyParked(links[k].inbox) => OnlyParked(links'[k].inbox)
    BY <1>2, ConnNow
  <2> QED BY <1>0, <1>2, <2>1, ConnNow DEF ConnInv, ServeInv
<1>6. WordInv'
  BY <1>0, <1>1, <1>2 DEF ConnInv, WordInv, l
<1>7. CodeInv'
  <2>1. 0 \notin used
    BY ConnNow DEF ConnInv, PairShapes
  <2> QED BY <1>0, <1>1, <1>2, <2>1, ConnNow DEF ConnInv, CodeInv, LinkIds
<1> QED BY <1>3, <1>4, <1>5, <1>6, <1>7 DEF ConnInv

LEMMA HostStartsInv ==
  ASSUME ConnInv, HostStarts
  PROVE  ConnInv'
<1>0. /\ UNCHANGED <<pairedTo, waiting, serving, links, used, again, missed, unheard>> /\ ~machine.up
      /\ minted' = IF machine.given THEN minted ELSE minted + 1
      /\ machine' = [machine EXCEPT !.up = TRUE, !.team = machine.disk, !.code = IF machine.given THEN 1 ELSE minted + 1]
      /\ starts \in Nat /\ starts' = starts + 1
  BY DEF HostStarts, ConnInv, PairShapes
<1>1. /\ machine' \in Machines /\ machine'.up /\ machine'.link = machine.link /\ machine.link = 0 /\ machine'.team = machine'.disk
      /\ machine'.disk = machine.disk /\ machine'.given = machine.given
      /\ machine'.code = (IF machine.given THEN 1 ELSE minted + 1) /\ machine'.code <= minted'
      /\ minted' \in Nat /\ minted <= minted'
  <2>1. machine.link = 0 /\ (machine.given => minted >= 1)
    BY <1>0 DEF ConnInv, LinkInv, PairShapes
  <2> DEFINE n == IF machine.given THEN 1 ELSE minted + 1
  <2>2. machine' = [up |-> TRUE, given |-> machine.given, code |-> n, team |-> machine.disk, disk |-> machine.disk,
                    link |-> machine.link]
    <3>1. machine' = [machine EXCEPT !.up = TRUE, !.team = machine.disk, !.code = n] /\ machine \in Machines
      BY <1>0, ConnNow
    <3> HIDE DEF n
    <3>2. machine = [up |-> machine.up, given |-> machine.given, code |-> machine.code, team |-> machine.team,
                     disk |-> machine.disk, link |-> machine.link]
      BY <3>1, MachineIs
    <3> QED BY <3>1, <3>2
  <2>3. n \in Nat /\ n <= minted' /\ minted' \in Nat /\ minted <= minted'
    BY <1>0, <2>1, ConnNow
  <2>4. machine'.code = n
    BY <2>2
  <2>5. machine' \in Machines
    BY <2>2, <2>3, MachineIs, ConnNow DEF Machines
  <2> QED BY <2>1, <2>2, <2>3, <2>5
<1>2. PairShapes'
  <2>1. \A c \in 1 .. minted : c \in 1 .. minted'
    BY <1>1, ConnNow
  <2>2. \A l \in LinkIds : links'[l].hello \in -1 .. minted'
    BY <1>0, <1>1, ConnNow
  <2>3. machine'.given => minted' >= 1
    BY <1>0, <1>1 DEF ConnInv, PairShapes
  <2> QED BY <1>0, <1>1, <2>1, <2>2, <2>3, ConnNow DEF ConnInv, PairShapes, LinkIds
<1>3. LinkInv' /\ ServeInv' /\ WordInv'
  BY <1>0, <1>1 DEF ConnInv, LinkInv, ServeInv, WordInv, LinkIds
<1>4. CodeInv'
  <2>1. ~machine.given => machine'.code \notin used
    BY <1>0, <1>1, ConnNow DEF ConnInv, PairShapes
  <2>2. ~machine.given => \A l \in LinkIds : links[l].hello # machine'.code
    BY <1>1, ConnNow
  <2>3. \A w \in waiting : w.link # 0
    BY ConnNow
  <2>4. \A l \in LinkIds : l # 0
    BY ConnNow
  <2> QED BY <1>0, <1>1, <2>1, <2>2, <2>3, <2>4 DEF ConnInv, CodeInv, LinkIds
<1> QED BY <1>2, <1>3, <1>4 DEF ConnInv

LEMMA HostDialsInv ==
  ASSUME ConnInv, NEW l \in LinkIds, HostDials(l)
  PROVE  ConnInv'
<1> DEFINE c == [NoConn EXCEPT !.far = "open", !.near = "open", !.hello = machine.code]
<1>0. /\ UNCHANGED <<pairedTo, waiting, serving, minted, starts, used, again, missed, unheard>>
      /\ machine.up /\ machine.link = 0 /\ links[l].far = "none" /\ l # 0
      /\ links' = [links EXCEPT ![l] = c] /\ machine' = [machine EXCEPT !.link = l]
  BY ConnNow DEF HostDials, NoConn
<1>1. /\ c \in PairConns /\ c.far = "open" /\ c.near = "open" /\ ~c.cut /\ c.hello = machine.code /\ c.inbox = <<>>
  <2>1. machine.code \in Int
    BY ConnNow
  <2>3. c = [far |-> "open", near |-> "open", cut |-> FALSE, hello |-> machine.code, inbox |-> <<>>, team |-> NoTeam]
    BY FreshConn
  <2>2. c \in PairConns /\ c.far = "open" /\ c.near = "open" /\ ~c.cut /\ c.hello = machine.code /\ c.inbox = <<>>
    BY <2>1, <2>3, FreshConnIs
  <2> QED BY <2>2
<1> HIDE DEF c
<1>2. /\ links' \in [LinkIds -> PairConns] /\ links'[l] = c /\ \A k \in LinkIds : k # l => links'[k] = links[k]
      /\ machine' \in Machines /\ machine'.link = l /\ machine'.code = machine.code /\ machine'.disk = machine.disk
      /\ machine'.given = machine.given /\ machine'.team = machine.team /\ machine'.up
  <2>1. links \in [LinkIds -> PairConns]
    BY DEF ConnInv, PairShapes
  <2>2. machine' \in Machines /\ machine'.link = l /\ machine'.code = machine.code /\ machine'.disk = machine.disk
      /\ machine'.given = machine.given /\ machine'.team = machine.team /\ machine'.up
    BY <1>0, ConnNow DEF Machines
  <2> QED BY <1>0, <1>1, <2>1, <2>2
<1>3. PairShapes'
  <2>1. machine.code <= minted /\ (machine.given => minted >= 1)
    BY DEF ConnInv, PairShapes
  <2>2. \A k \in LinkIds : links'[k].hello \in -1 .. minted
    BY <1>1, <1>2, <2>1, ConnNow
  <2> QED BY <1>0, <1>2, <2>1, <2>2 DEF ConnInv, PairShapes, LinkIds
<1>4. LinkInv'
  <2>1. ASSUME NEW k \in LinkIds
        PROVE  /\ links'[k].near \in {"open", "closing"} <=> k = l
               /\ links'[k].cut \/ links'[k].near # "open" \/ links'[k].hello # -1 => links'[k].inbox = <<>>
               /\ k = l /\ (links'[k].cut \/ links'[k].near # "open" \/ links'[k].far # "open") => links'[k].hello = -1
               /\ Worded(links'[k].inbox) /\ (k = serving' => Unended(links'[k].inbox))
    <3>1. CASE k = l
      BY <1>1, <1>2, <3>1, ConnNow
    <3>2. CASE k # l
      BY <1>0, <1>2, <3>2, ConnNow DEF ConnInv, LinkInv
    <3> QED BY <3>1, <3>2
  <2> QED BY <1>0, <1>2, <2>1 DEF ConnInv, LinkInv, LinkIds
<1>5. ServeInv'
  <2>1. serving # l /\ \A w \in waiting : w.link # l
    BY <1>0 DEF ConnInv, ServeInv
  <2> QED BY <1>0, <1>2, <2>1, ConnNow DEF ConnInv, ServeInv
<1>6. WordInv'
  BY <1>0, <1>1, <1>2, ConnNow DEF ConnInv, WordInv
<1>7. CodeInv'
  <2>1. \A w \in waiting : w.link # l
    BY <1>0 DEF ConnInv, ServeInv
  <2>2. \A k \in LinkIds : k # 0
    BY ConnNow
  <2> QED BY <1>0, <1>1, <1>2, <2>1, <2>2 DEF ConnInv, CodeInv, LinkIds
<1> QED BY <1>3, <1>4, <1>5, <1>6, <1>7 DEF ConnInv

LEMMA HostSeesEndInv ==
  ASSUME ConnInv, NEW l \in LinkIds, HostSeesEnd(l)
  PROVE  ConnInv'
<1> DEFINE c == [far |-> links[l].far, near |-> "gone", cut |-> links[l].cut, hello |-> links[l].hello,
                 inbox |-> links[l].inbox, team |-> links[l].team]
<1>0. /\ UNCHANGED <<pairedTo, waiting, serving, minted, starts, used, again, missed, unheard>> /\ links[l].inbox = <<>>
      /\ links[l].near \in {"open", "closing"} /\ (links[l].cut \/ links[l].near = "closing" \/ links[l].far # "open")
      /\ l = machine.link
  BY DEF HostSeesEnd, ConnInv, LinkInv
<1>1. links' = [links EXCEPT ![l] = c]
  <2>1. links' = [links EXCEPT ![l] = [links[l] EXCEPT !.near = "gone"]]
    BY DEF HostSeesEnd
  <2>2. links[l] = [far |-> links[l].far, near |-> links[l].near, cut |-> links[l].cut, hello |-> links[l].hello,
                    inbox |-> links[l].inbox, team |-> links[l].team]
    BY ConnIs, ConnNow
  <2>3. [links[l] EXCEPT !.near = "gone"] = c
    BY <2>2
  <2> QED BY <2>1, <2>3
<1>2. /\ c.far = links[l].far /\ c.near = "gone" /\ c.cut = links[l].cut /\ c.hello = links[l].hello
      /\ c.inbox = links[l].inbox /\ c.team = links[l].team /\ c \in PairConns
  <2>1. /\ links[l].far \in PairEnds /\ "gone" \in PairEnds /\ links[l].cut \in BOOLEAN /\ links[l].hello \in Int
        /\ links[l].inbox \in Seq(PairWord) /\ links[l].team \in PairTeams \cup {NoTeam}
    BY ConnIs, ConnNow DEF PairEnds
  <2> QED BY <2>1 DEF PairConns
<1> HIDE DEF c
<1>3. /\ links' \in [LinkIds -> PairConns] /\ links'[l] = c /\ \A k \in LinkIds : k # l => links'[k] = links[k]
  BY <1>1, <1>2 DEF ConnInv, PairShapes
<1>4. /\ machine' \in Machines /\ machine'.link = 0 /\ machine'.code = machine.code /\ machine'.disk = machine.disk
      /\ machine'.given = machine.given /\ machine'.team = machine.team /\ machine'.up = machine.up
  <2>1. machine' = [machine EXCEPT !.link = 0]
    BY DEF HostSeesEnd
  <2>2. machine = [up |-> machine.up, given |-> machine.given, code |-> machine.code, team |-> machine.team,
                   disk |-> machine.disk, link |-> machine.link]
    BY MachineIs, ConnNow
  <2>3. machine' = [up |-> machine.up, given |-> machine.given, code |-> machine.code, team |-> machine.team,
                    disk |-> machine.disk, link |-> 0]
    BY <2>1, <2>2
  <2>4. 0 \in 0 .. MaxLinks
    BY PairConstants
  <2>5. machine' \in Machines
    BY <2>3, <2>4, MachineIs, ConnNow DEF Machines
  <2> QED BY <2>3, <2>5
<1>5. links[l].hello = -1
  BY <1>0 DEF ConnInv, LinkInv
<1>6. PairShapes'
  BY <1>0, <1>2, <1>3, <1>4 DEF ConnInv, PairShapes, LinkIds
<1>7. LinkInv'
  <2>1. ASSUME NEW k \in LinkIds
        PROVE  /\ ~(links'[k].near \in {"open", "closing"})
               /\ links'[k].cut \/ links'[k].near # "open" \/ links'[k].hello # -1 => links'[k].inbox = <<>>
               /\ Worded(links'[k].inbox) /\ (k = serving' => Unended(links'[k].inbox))
    <3>1. CASE k = l
      BY <1>0, <1>2, <1>3, <3>1, ConnNow
    <3>2. CASE k # l
      BY <1>0, <1>3, <3>2 DEF ConnInv, LinkInv
    <3> QED BY <3>1, <3>2
  <2> QED BY <1>4, <2>1, ConnNow DEF ConnInv, LinkInv, LinkIds
<1>8. ServeInv'
  <2>1. \A k \in LinkIds : /\ links'[k].far = links[k].far /\ links'[k].hello = links[k].hello
                           /\ links'[k].inbox = links[k].inbox /\ links'[k].team = links[k].team
    BY <1>2, <1>3
  <2> QED BY <1>0, <2>1, ConnNow DEF ConnInv, ServeInv
<1>9. WordInv'
  BY <1>0, <1>4, ConnNow DEF ConnInv, WordInv
<1>10. CodeInv'
  <2>1. \A k \in LinkIds : links'[k].hello = links[k].hello
    BY <1>2, <1>3
  <2>2. ~SaysPaired(links[l].inbox)
    BY <1>0 DEF SaysPaired
  <2>3. \A w \in waiting : w.link # 0
    BY ConnNow
  <2>4. \A k \in LinkIds : k # 0
    BY ConnNow
  <2>5. ~machine.given => \A k \in LinkIds : links[k].hello > 0 => links[k].hello # machine.code
    <3>1. \A k \in LinkIds : links[k].hello > 0 => k # machine.link
      BY <1>0, <1>5
    <3> QED BY <3>1 DEF ConnInv, CodeInv
  <2>6. ~machine.given /\ ~unheard => machine.code \notin used
    BY <1>0, <2>2 DEF ConnInv, CodeInv
  <2>7. ~machine.given /\ ~unheard => /\ again = {} /\ \A w \in waiting : w.code \notin used
                                      /\ \A k \in LinkIds : links[k].hello \notin used
    BY DEF ConnInv, CodeInv
  <2> QED BY <1>0, <1>4, <2>1, <2>3, <2>4, <2>5, <2>6, <2>7 DEF CodeInv, LinkIds
<1> QED BY <1>6, <1>7, <1>8, <1>9, <1>10 DEF ConnInv

LEMMA HubSeesEndInv ==
  ASSUME ConnInv, NEW l \in LinkIds, HubSeesEnd(l)
  PROVE  ConnInv'
<1> DEFINE c == [far |-> "gone", near |-> links[l].near, cut |-> links[l].cut, hello |-> links[l].hello,
                 inbox |-> links[l].inbox, team |-> links[l].team]
<1>0. /\ UNCHANGED <<pairedTo, machine, minted, starts, used, again, missed, unheard>>
      /\ links[l].cut \/ links[l].near # "open" \/ links[l].far = "closing"
      /\ waiting' = {w \in waiting : w.link # l} /\ serving' = IF serving = l THEN 0 ELSE serving
  BY DEF HubSeesEnd
<1>1. links' = [links EXCEPT ![l] = c]
  <2>1. links' = [links EXCEPT ![l] = [links[l] EXCEPT !.far = "gone"]]
    BY DEF HubSeesEnd
  <2>2. links[l] = [far |-> links[l].far, near |-> links[l].near, cut |-> links[l].cut, hello |-> links[l].hello,
                    inbox |-> links[l].inbox, team |-> links[l].team]
    BY ConnIs, ConnNow
  <2>3. [links[l] EXCEPT !.far = "gone"] = c
    BY <2>2
  <2> QED BY <2>1, <2>3
<1>2. /\ c.near = links[l].near /\ c.cut = links[l].cut /\ c.hello = links[l].hello
      /\ c.inbox = links[l].inbox /\ c.team = links[l].team /\ c \in PairConns
  <2>1. /\ links[l].near \in PairEnds /\ "gone" \in PairEnds /\ links[l].cut \in BOOLEAN /\ links[l].hello \in Int
        /\ links[l].inbox \in Seq(PairWord) /\ links[l].team \in PairTeams \cup {NoTeam}
    BY ConnIs, ConnNow DEF PairEnds
  <2> QED BY <2>1 DEF PairConns
<1> HIDE DEF c
<1>3. /\ links' \in [LinkIds -> PairConns] /\ links'[l] = c /\ \A k \in LinkIds : k # l => links'[k] = links[k]
      /\ \A k \in LinkIds : /\ links'[k].near = links[k].near /\ links'[k].cut = links[k].cut /\ links'[k].hello = links[k].hello
                            /\ links'[k].inbox = links[k].inbox /\ links'[k].team = links[k].team
  <2>1. links' \in [LinkIds -> PairConns] /\ links'[l] = c /\ \A k \in LinkIds : k # l => links'[k] = links[k]
    BY <1>1, <1>2 DEF ConnInv, PairShapes
  <2> QED BY <1>2, <2>1
<1>4. waiting' \subseteq waiting /\ serving' \in {0, serving} /\ serving' # l
  BY <1>0, ConnNow
<1>5. l = machine.link => links[l].hello = -1
  BY <1>0 DEF ConnInv, LinkInv
<1>6. PairShapes'
  BY <1>0, <1>3, <1>4, ConnNow DEF ConnInv, PairShapes, LinkIds
<1>7. LinkInv'
  <2>1. ASSUME NEW k \in LinkIds
        PROVE  /\ links'[k].near \in {"open", "closing"} <=> k = machine.link
               /\ links'[k].cut \/ links'[k].near # "open" \/ links'[k].hello # -1 => links'[k].inbox = <<>>
               /\ k = machine.link /\ (links'[k].cut \/ links'[k].near # "open" \/ links'[k].far # "open") => links'[k].hello = -1
               /\ Worded(links'[k].inbox) /\ (k = serving' => Unended(links'[k].inbox))
    <3>1. CASE k = l
      BY <1>3, <1>4, <1>5, <3>1 DEF ConnInv, LinkInv
    <3>2. CASE k # l
      BY <1>3, <1>4, <3>2, ConnNow DEF ConnInv, LinkInv
    <3> QED BY <3>1, <3>2
  <2> QED BY <1>0, <2>1 DEF ConnInv, LinkInv, LinkIds
<1>8. ServeInv'
  BY <1>0, <1>3, <1>4, ConnNow DEF ConnInv, ServeInv
<1>9. WordInv'
  BY <1>0, <1>3, ConnNow DEF ConnInv, WordInv
<1>10. CodeInv'
  BY <1>0, <1>3, <1>4, ConnNow DEF ConnInv, CodeInv, LinkIds
<1> QED BY <1>6, <1>7, <1>8, <1>9, <1>10 DEF ConnInv

LEMMA LinkBreaksInv ==
  ASSUME ConnInv, NEW l \in LinkIds, LinkBreaks(l)
  PROVE  ConnInv'
<1> DEFINE c == [far |-> links[l].far, near |-> links[l].near, cut |-> TRUE, hello |-> -1, inbox |-> <<>>, team |-> links[l].team]
<1>0. /\ UNCHANGED <<pairedTo, waiting, serving, machine, minted, starts, used, again>> /\ Dropped(l)
      /\ missed \in BOOLEAN /\ unheard \in BOOLEAN
  BY DEF LinkBreaks, ConnInv, PairShapes
<1>1. links' = [links EXCEPT ![l] = c]
  <2>1. links' = [links EXCEPT ![l] = [links[l] EXCEPT !.cut = TRUE, !.hello = -1, !.inbox = <<>>]]
    BY DEF LinkBreaks
  <2>2. links[l] = [far |-> links[l].far, near |-> links[l].near, cut |-> links[l].cut, hello |-> links[l].hello,
                    inbox |-> links[l].inbox, team |-> links[l].team]
    BY ConnIs, ConnNow
  <2>3. links \in [LinkIds -> PairConns]
    BY DEF ConnInv, PairShapes
  <2>4. links'[l] = [links[l] EXCEPT !.cut = TRUE, !.hello = -1, !.inbox = <<>>]
    BY <2>1, <2>3
  <2>5. links'[l] = c
    BY <2>2, <2>4
  <2> QED BY <2>1, <2>4, <2>5
<1>2. /\ c.far = links[l].far /\ c.near = links[l].near /\ c.cut = TRUE /\ c.hello = -1
      /\ c.inbox = <<>> /\ c.team = links[l].team /\ c \in PairConns
  <2>1. /\ links[l].far \in PairEnds /\ links[l].near \in PairEnds /\ TRUE \in BOOLEAN /\ -1 \in Int
        /\ <<>> \in Seq(PairWord) /\ links[l].team \in PairTeams \cup {NoTeam}
    BY ConnIs, ConnNow
  <2> QED BY <2>1 DEF PairConns
<1> HIDE DEF c
<1>3. /\ links' \in [LinkIds -> PairConns] /\ links'[l] = c /\ \A k \in LinkIds : k # l => links'[k] = links[k]
  BY <1>1, <1>2 DEF ConnInv, PairShapes
<1>4. /\ ~missed' => ~missed /\ ~Spoken(links[l].inbox)
      /\ ~unheard' => ~unheard /\ ~SaysPaired(links[l].inbox)
      /\ missed' \in BOOLEAN /\ unheard' \in BOOLEAN
  <2>1. links[l].inbox \in Seq(PairWord)
    BY ConnNow
  <2>2. Spoken(links[l].inbox) => Words(l) # {}
    BY <2>1 DEF Spoken, Words
  <2>3. SaysPaired(links[l].inbox) => Words(l) # {}
    BY DEF SaysPaired, Words
  <2> QED BY <1>0, <2>2, <2>3 DEF Dropped
<1>6. PairShapes'
  <2>1. \A k \in LinkIds : links'[k].hello \in -1 .. minted
    BY <1>2, <1>3, ConnNow
  <2> QED BY <1>0, <1>3, <1>4, <2>1 DEF ConnInv, PairShapes, LinkIds
<1>7. LinkInv'
  <2>1. ASSUME NEW k \in LinkIds
        PROVE  /\ links'[k].near \in {"open", "closing"} <=> k = machine.link
               /\ links'[k].cut \/ links'[k].near # "open" \/ links'[k].hello # -1 => links'[k].inbox = <<>>
               /\ k = machine.link /\ (links'[k].cut \/ links'[k].near # "open" \/ links'[k].far # "open") => links'[k].hello = -1
               /\ Worded(links'[k].inbox) /\ (k = serving => Unended(links'[k].inbox))
    <3>1. CASE k = l
      BY <1>2, <1>3, <3>1, ConnNow DEF ConnInv, LinkInv
    <3>2. CASE k # l
      BY <1>3, <3>2 DEF ConnInv, LinkInv
    <3> QED BY <3>1, <3>2
  <2> QED BY <1>0, <2>1 DEF ConnInv, LinkInv, LinkIds
<1>8. ServeInv'
  BY <1>0, <1>2, <1>3, ConnNow DEF ConnInv, ServeInv
<1>9. WordInv'
  BY <1>0, <1>2, <1>3, <1>4, ConnNow DEF ConnInv, WordInv
<1>10. CodeInv'
  <2>1. -1 \notin used
    BY DEF ConnInv, PairShapes
  <2>2. \A k \in LinkIds : links'[k].hello = -1 \/ links'[k].hello = links[k].hello
    BY <1>2, <1>3
  <2>3. ~machine.given => \A k \in LinkIds : links'[k].hello > 0 /\ k # machine.link => links'[k].hello # machine.code
    BY <2>2 DEF ConnInv, CodeInv
  <2>4. ~machine.given /\ ~unheard' => /\ again = {} /\ \A w \in waiting : w.code \notin used
                                       /\ \A k \in LinkIds : links'[k].hello \notin used
    BY <1>4, <2>1, <2>2 DEF ConnInv, CodeInv
  <2>5. ~machine.given /\ ~unheard' /\ machine.code \in used => machine.link # 0 /\ SaysPaired(links'[machine.link].inbox)
    BY <1>3, <1>4, ConnNow DEF ConnInv, CodeInv
  <2>6. \A k \in LinkIds : links'[k].hello # -1 /\ k = machine.link => links'[k].hello = machine.code
    BY <2>2 DEF ConnInv, CodeInv
  <2> QED BY <1>0, <2>3, <2>4, <2>5, <2>6 DEF ConnInv, CodeInv, LinkIds
<1> QED BY <1>6, <1>7, <1>8, <1>9, <1>10 DEF ConnInv

LEMMA TeamedConn ==
  ASSUME NEW old, NEW team,
         old = [far |-> old.far, near |-> old.near, cut |-> old.cut, hello |-> old.hello, inbox |-> old.inbox, team |-> old.team]
  PROVE  [old EXCEPT !.team = team, !.hello = -1] =
            [far |-> old.far, near |-> old.near, cut |-> old.cut, hello |-> -1, inbox |-> old.inbox, team |-> team]
<1>1. PICK new : new = [old EXCEPT !.team = team, !.hello = -1]
  OBVIOUS
<1>2. new = [far |-> old.far, near |-> old.near, cut |-> old.cut, hello |-> -1, inbox |-> old.inbox, team |-> team]
  BY <1>1
<1> QED BY <1>1, <1>2

(* The hub: a connection takes the host's place.                           *)
LEMMA RegisteredIs ==
  ASSUME ConnInv, NEW l \in LinkIds, NEW team \in PairTeams, NEW type \in {"welcome", "paired"}, Registered(l, team, type),
         links[l].far = "open", serving # l
  PROVE  /\ serving' = l /\ waiting' = {} /\ links' \in [LinkIds -> PairConns]
         /\ links'[l].far = "open" /\ links'[l].team = team /\ links'[l].hello = -1
         /\ links'[l].inbox = IF Reaches(l) THEN Append(links[l].inbox, [type |-> type, team |-> team]) ELSE links[l].inbox
         /\ \A k \in LinkIds : /\ links'[k].near = links[k].near /\ links'[k].cut = links[k].cut
                               /\ k # l => links'[k].hello = links[k].hello /\ links'[k].inbox = links[k].inbox
                               /\ k = machine.link /\ links'[k].far # "open" => links'[k].hello = -1
<1> DEFINE m == [type |-> type, team |-> team]
           c == [far |-> links[l].far, near |-> links[l].near, cut |-> links[l].cut, hello |-> -1,
                 inbox |-> links[l].inbox, team |-> team]
           ls == [links EXCEPT ![l].team = team, ![l].hello = -1]
<1>1. m \in PairWord /\ links \in [LinkIds -> PairConns]
  BY DEF PairWord, ConnInv, PairShapes
<1>2. /\ ls[l] = c /\ \A k \in LinkIds : k # l => ls[k] = links[k]
      /\ DOMAIN ls = LinkIds /\ ls = [k \in LinkIds |-> ls[k]]
  <2>1. links[l] = [far |-> links[l].far, near |-> links[l].near, cut |-> links[l].cut, hello |-> links[l].hello,
                    inbox |-> links[l].inbox, team |-> links[l].team]
    BY ConnIs, ConnNow
  <2>2. ls[l] = [links[l] EXCEPT !.team = team, !.hello = -1]
    BY <1>1
  <2>3. ls[l] = c
    <3>1. PICK old : old = links[l]
      OBVIOUS
    <3>2. old = [far |-> old.far, near |-> old.near, cut |-> old.cut, hello |-> old.hello, inbox |-> old.inbox, team |-> old.team]
      BY <2>1, <3>1
    <3>3. [old EXCEPT !.team = team, !.hello = -1] =
            [far |-> old.far, near |-> old.near, cut |-> old.cut, hello |-> -1, inbox |-> old.inbox, team |-> team]
      BY <3>2, TeamedConn
    <3> QED BY <2>2, <3>1, <3>3
  <2>4. \A k \in LinkIds : k # l => ls[k] = links[k]
    BY <1>1
  <2>5. DOMAIN ls = LinkIds /\ ls = [k \in LinkIds |-> ls[k]]
    BY <1>1
  <2> QED BY <2>3, <2>4, <2>5
<1>3. /\ c.far = "open" /\ c.near = links[l].near /\ c.cut = links[l].cut /\ c.hello = -1 /\ c.inbox = links[l].inbox /\ c.team = team
      /\ c \in PairConns
  <2>1. /\ links[l].far \in PairEnds /\ links[l].near \in PairEnds /\ links[l].cut \in BOOLEAN /\ -1 \in Int
        /\ links[l].inbox \in Seq(PairWord) /\ team \in PairTeams \cup {NoTeam}
    BY ConnIs, ConnNow
  <2> QED BY <2>1 DEF PairConns
<1> HIDE DEF c
<1>4. ls \in [LinkIds -> PairConns]
  <2>1. \A k \in LinkIds : ls[k] \in PairConns
    BY <1>1, <1>2, <1>3
  <2> HIDE DEF ls
  <2> QED BY <1>2, <2>1
<1> DEFINE closes == serving \notin {0, l} /\ links[serving].far = "open"
           es == IF closes THEN [ls EXCEPT ![serving].far = "closing"] ELSE ls
<1>5. serving' = l /\ waiting' = {} /\ links' = Carried(es, l, m)
  BY DEF Registered
<1>6. /\ es \in [LinkIds -> PairConns] /\ es[l] = c
      /\ \A k \in LinkIds : /\ es[k].near = ls[k].near /\ es[k].cut = ls[k].cut /\ es[k].hello = ls[k].hello
                            /\ es[k].inbox = ls[k].inbox /\ es[k].team = ls[k].team
                            /\ es[k].far # ls[k].far => k = serving
  <2>1. CASE ~closes
    BY <1>2, <1>4, <2>1
  <2>2. CASE closes
    <3> DEFINE s == serving
               d == [far |-> "closing", near |-> ls[s].near, cut |-> ls[s].cut, hello |-> ls[s].hello,
                     inbox |-> ls[s].inbox, team |-> ls[s].team]
    <3>1. s \in LinkIds /\ s # l
      BY <2>2, ConnNow
    <3> HIDE DEF ls, s
    <3>2. es = [ls EXCEPT ![s] = [ls[s] EXCEPT !.far = "closing"]]
      BY <2>2 DEF s
    <3> HIDE DEF es
    <3>3. /\ es[s] = [ls[s] EXCEPT !.far = "closing"] /\ \A k \in LinkIds : k # s => es[k] = ls[k]
          /\ es = [k \in LinkIds |-> es[k]]
      BY <1>4, <3>1, <3>2
    <3>4. ls[s] \in PairConns
      BY <1>4, <3>1
    <3>5. ls[s] = [far |-> ls[s].far, near |-> ls[s].near, cut |-> ls[s].cut, hello |-> ls[s].hello,
                   inbox |-> ls[s].inbox, team |-> ls[s].team]
      BY <3>4, ConnIs
    <3>6. es[s] = d
      BY <3>3, <3>5
    <3>7. /\ d.near = ls[s].near /\ d.cut = ls[s].cut /\ d.hello = ls[s].hello /\ d.inbox = ls[s].inbox /\ d.team = ls[s].team
          /\ d \in PairConns
      BY <3>4, ConnIs DEF PairConns, PairEnds
    <3> HIDE DEF d
    <3>8. \A k \in LinkIds : es[k] \in PairConns
      BY <1>4, <3>3, <3>6, <3>7
    <3>9. es \in [LinkIds -> PairConns]
      BY <3>3, <3>8
    <3> QED BY <1>2, <3>1, <3>3, <3>6, <3>7, <3>9 DEF s
  <2> QED BY <2>1, <2>2
<1>7. Whole(es, l) <=> Reaches(l)
  BY <1>3, <1>6, ConnNow DEF Whole, Reaches
<1> HIDE DEF es, ls
<1>8. l \in 0 .. MaxLinks
  BY ConnNow
<1>9. /\ links' \in [LinkIds -> PairConns]
      /\ \A k \in LinkIds : /\ links'[k].far = es[k].far /\ links'[k].near = es[k].near /\ links'[k].cut = es[k].cut
                            /\ links'[k].hello = es[k].hello /\ links'[k].team = es[k].team
                            /\ links'[k].inbox = IF k = l /\ Whole(es, l) THEN Append(es[k].inbox, m) ELSE es[k].inbox
  BY <1>1, <1>5, <1>6, <1>8, CarriedIs
<1>10. ASSUME NEW k \in LinkIds
       PROVE  /\ links'[k].near = links[k].near /\ links'[k].cut = links[k].cut
              /\ k # l => links'[k].hello = links[k].hello /\ links'[k].inbox = links[k].inbox
              /\ k = machine.link /\ links'[k].far # "open" => links'[k].hello = -1
  <2>1. CASE k = l
    BY <1>3, <1>6, <1>9, <2>1
  <2>2. CASE k # l
    <3>1. /\ links'[k].near = links[k].near /\ links'[k].cut = links[k].cut
          /\ links'[k].hello = links[k].hello /\ links'[k].inbox = links[k].inbox
          /\ links'[k].far # links[k].far => k = serving
      BY <1>2, <1>6, <1>9, <2>2
    <3>2. k = serving => links[k].hello = -1
      BY ConnNow DEF ConnInv, ServeInv
    <3>3. k = machine.link /\ links[k].far # "open" => links[k].hello = -1
      BY DEF ConnInv, LinkInv
    <3> QED BY <2>2, <3>1, <3>2, <3>3
  <2> QED BY <2>1, <2>2
<1>11. /\ links'[l].far = "open" /\ links'[l].team = team /\ links'[l].hello = -1
       /\ links'[l].inbox = IF Reaches(l) THEN Append(links[l].inbox, m) ELSE links[l].inbox
  BY <1>3, <1>6, <1>7, <1>9
<1> QED BY <1>5, <1>9, <1>10, <1>11

LEMMA RegisteredInv ==
  ASSUME ConnInv, NEW l \in LinkIds, NEW team \in PairTeams, NEW type \in {"welcome", "paired"}, Registered(l, team, type),
         links[l].far = "open", serving # l, pairedTo' = team, UNCHANGED machine,
         IF type = "welcome" THEN links[l].inbox = <<>> ELSE OnlyParked(links[l].inbox)
  PROVE  LinkInv' /\ ServeInv'
<1> DEFINE m == [type |-> type, team |-> team]
           q == links[l].inbox
<1>1. q \in Seq(PairWord) /\ m \in PairWord /\ m.type = type
  BY ConnNow DEF PairWord
<1>2. Worded(q) /\ Unended(q)
  BY <1>1, ConnNow DEF ConnInv, LinkInv, OnlyParked, Parked, Unended
<1>3. Worded(Append(q, m)) /\ Unended(Append(q, m))
  <2>1. /\ Len(Append(q, m)) = Len(q) + 1 /\ Append(q, m)[Len(q) + 1] = m /\ Len(q) \in Nat
        /\ \A i \in 1 .. Len(q) : Append(q, m)[i] = q[i]
    BY <1>1, WordsAppend
  <2>2. type = "welcome" => Len(q) = 0
    OBVIOUS
  <2>3. ASSUME NEW i \in 1 .. Len(q) + 1
        PROVE  (Append(q, m)[i].type = "welcome" => i = 1) /\ Append(q, m)[i].type # "unpaired"
    <3>1. CASE i = Len(q) + 1
      BY <1>1, <2>1, <2>2, <3>1
    <3>2. CASE i # Len(q) + 1
      BY <1>2, <2>1, <3>2 DEF Worded, Unended
    <3> QED BY <3>1, <3>2
  <2> QED BY <2>1, <2>3 DEF Worded, Unended
<1> HIDE DEF m, q
<1>4. /\ serving' = l /\ waiting' = {} /\ links'[l].far = "open" /\ links'[l].team = team /\ links'[l].hello = -1
      /\ links'[l].inbox = IF Reaches(l) THEN Append(q, m) ELSE q
      /\ \A k \in LinkIds : /\ links'[k].near = links[k].near /\ links'[k].cut = links[k].cut
                            /\ k # l => links'[k].hello = links[k].hello /\ links'[k].inbox = links[k].inbox
                            /\ k = machine.link /\ links'[k].far # "open" => links'[k].hello = -1
  BY RegisteredIs DEF m, q
<1>5. ASSUME NEW k \in LinkIds
      PROVE  /\ links'[k].near \in {"open", "closing"} <=> k = machine.link
             /\ links'[k].cut \/ links'[k].near # "open" \/ links'[k].hello # -1 => links'[k].inbox = <<>>
             /\ k = machine.link /\ (links'[k].cut \/ links'[k].near # "open" \/ links'[k].far # "open") => links'[k].hello = -1
             /\ Worded(links'[k].inbox) /\ (k = l => Unended(links'[k].inbox))
  <2>1. /\ links[k].near \in {"open", "closing"} <=> k = machine.link
        /\ links[k].cut \/ links[k].near # "open" \/ links[k].hello # -1 => links[k].inbox = <<>>
        /\ k = machine.link /\ (links[k].cut \/ links[k].near # "open" \/ links[k].far # "open") => links[k].hello = -1
        /\ Worded(links[k].inbox)
    BY DEF ConnInv, LinkInv
  <2>2. CASE k = l
    <3>1. Reaches(l) => ~links[l].cut /\ links[l].near = "open"
      BY DEF Reaches, Whole
    <3> QED BY <1>2, <1>3, <1>4, <2>1, <2>2, <3>1 DEF q
  <2>3. CASE k # l
    BY <1>4, <2>1, <2>3
  <2> QED BY <2>2, <2>3
<1>6. LinkInv'
  BY <1>4, <1>5 DEF ConnInv, LinkInv, LinkIds
<1>7. ServeInv'
  BY <1>4, PairConstants DEF ServeInv
<1> QED BY <1>6, <1>7

LEMMA HostGreetedInv ==
  ASSUME ConnInv, NEW l \in LinkIds, HostGreeted(l)
  PROVE  ConnInv'
<1> DEFINE code == links[l].hello
<1>0. /\ UNCHANGED <<pairedTo, machine, minted, starts, used, again, missed, unheard>> /\ links[l].far = "open" /\ code # -1
      /\ links[l].inbox = <<>> /\ links \in [LinkIds -> PairConns] /\ serving # l
  BY ConnNow DEF HostGreeted, ConnInv, LinkInv, PairShapes, ServeInv
<1>1. CASE pairedTo # NoTeam
  <2>1. pairedTo \in PairTeams /\ Registered(l, pairedTo, "welcome") /\ pairedTo' = pairedTo
    BY <1>0, <1>1, ConnNow DEF HostGreeted
  <2>2. /\ serving' = l /\ waiting' = {} /\ links' \in [LinkIds -> PairConns] /\ links'[l].hello = -1
        /\ links'[l].inbox = IF Reaches(l) THEN Append(links[l].inbox, [type |-> "welcome", team |-> pairedTo]) ELSE links[l].inbox
        /\ \A k \in LinkIds : k # l => links'[k].hello = links[k].hello /\ links'[k].inbox = links[k].inbox
    BY <1>0, <2>1, RegisteredIs
  <2>3. LinkInv' /\ ServeInv'
    BY <1>0, <2>1, RegisteredInv
  <2>4. ~Spoken(links'[l].inbox) /\ ~Spoken(links[l].inbox)
    <3> DEFINE m == [type |-> "welcome", team |-> pairedTo]
    <3>1. m \in PairWord /\ m.type = "welcome"
      BY <2>1 DEF PairWord
    <3> HIDE DEF m
    <3>2. ~Spoken(Append(links[l].inbox, m))
      BY <3>1, WordsAppend, ConnNow
    <3> QED BY <1>0, <2>2, <3>2, ConnNow DEF m
  <2>5. PairShapes'
    <3>1. \A k \in LinkIds : links'[k].hello \in -1 .. minted
      BY <2>2, ConnNow
    <3> QED BY <1>0, <2>2, <3>1, ConnNow DEF ConnInv, PairShapes, LinkIds
  <2>6. WordInv'
    <3>1. \A k \in LinkIds : k = l \/ links'[k].inbox = links[k].inbox
      BY <2>2
    <3> QED BY <1>0, <2>4, <3>1, ConnNow DEF ConnInv, WordInv
  <2>7. CodeInv'
    <3>1. -1 \notin used
      BY DEF ConnInv, PairShapes
    <3>2. \A k \in LinkIds : links'[k].hello = -1 \/ links'[k].hello = links[k].hello
      BY <2>2
    <3>3. ~SaysPaired(links[l].inbox)
      BY <1>0 DEF SaysPaired
    <3>4. \A k \in LinkIds : SaysPaired(links[k].inbox) => SaysPaired(links'[k].inbox)
      BY <2>2, <3>3
    <3>5. ~machine.given => \A k \in LinkIds : links'[k].hello > 0 /\ k # machine.link => links'[k].hello # machine.code
      BY <3>2 DEF ConnInv, CodeInv
    <3>6. ~machine.given /\ ~unheard => /\ again = {} /\ \A k \in LinkIds : links'[k].hello \notin used
      BY <3>1, <3>2 DEF ConnInv, CodeInv
    <3>7. ~machine.given /\ ~unheard /\ machine.code \in used => machine.link # 0 /\ SaysPaired(links'[machine.link].inbox)
      BY <3>4, ConnNow DEF ConnInv, CodeInv
    <3>8. \A k \in LinkIds : links'[k].hello # -1 /\ k = machine.link => links'[k].hello = machine.code
      BY <3>2 DEF ConnInv, CodeInv
    <3> QED BY <1>0, <2>2, <3>5, <3>6, <3>7, <3>8 DEF CodeInv, LinkIds
  <2> QED BY <2>3, <2>5, <2>6, <2>7 DEF ConnInv
<1>2. CASE pairedTo = NoTeam
  <2> DEFINE c == [far |-> links[l].far, near |-> links[l].near, cut |-> links[l].cut, hello |-> -1,
                   inbox |-> links[l].inbox, team |-> links[l].team]
             ls == [links EXCEPT ![l].hello = -1]
  <2>1. /\ ls[l] = c /\ \A k \in LinkIds : k # l => ls[k] = links[k]
        /\ DOMAIN ls = LinkIds /\ ls = [k \in LinkIds |-> ls[k]]
    <3>1. links[l] = [far |-> links[l].far, near |-> links[l].near, cut |-> links[l].cut, hello |-> links[l].hello,
                      inbox |-> links[l].inbox, team |-> links[l].team]
      BY ConnIs, ConnNow
    <3>2. ls[l] = [links[l] EXCEPT !.hello = -1] /\ \A k \in LinkIds : k # l => ls[k] = links[k]
      BY <1>0
    <3>3. ls[l] = c
      BY <3>1, <3>2
    <3>4. DOMAIN ls = LinkIds /\ ls = [k \in LinkIds |-> ls[k]]
      BY <1>0
    <3> QED BY <3>2, <3>3, <3>4
  <2>2. /\ c.far = "open" /\ c.near = links[l].near /\ c.cut = links[l].cut /\ c.hello = -1 /\ c.inbox = <<>> /\ c.team = links[l].team
        /\ c \in PairConns
    <3>1. /\ links[l].far \in PairEnds /\ links[l].near \in PairEnds /\ links[l].cut \in BOOLEAN /\ -1 \in Int
          /\ links[l].inbox \in Seq(PairWord) /\ links[l].team \in PairTeams \cup {NoTeam}
      BY ConnIs, ConnNow
    <3> QED BY <1>0, <3>1 DEF PairConns
  <2> HIDE DEF c, ls
  <2>3. ls \in [LinkIds -> PairConns]
    <3>1. \A k \in LinkIds : ls[k] \in PairConns
      BY <1>0, <2>1, <2>2
    <3> QED BY <2>1, <3>1
  <2>4. Append(<<>>, Parked) \in Seq(PairWord) /\ Len(Append(<<>>, Parked)) = 1 /\ Append(<<>>, Parked)[1] = Parked
    BY ConnNow
  <2>5. /\ serving' = serving /\ links' \in [LinkIds -> PairConns]
        /\ \A k \in LinkIds : /\ links'[k].far = links[k].far /\ links'[k].near = links[k].near /\ links'[k].cut = links[k].cut
                              /\ k # l => links'[k].inbox = links[k].inbox /\ links'[k].hello = links[k].hello
        /\ links'[l].hello = -1
        /\ links'[l].inbox = <<>> \/ (links'[l].inbox = Append(<<>>, Parked) /\ Reaches(l))
        /\ \/ waiting' = waiting
           \/ /\ code # 0 /\ \A w \in waiting : w.code # code
              /\ waiting' = waiting \cup {[code |-> code, link |-> l]}
    <3>1. CASE code = 0 \/ \E w \in waiting : w.code = code
      <4>1. links' = ls /\ UNCHANGED <<serving, waiting>>
        BY <1>2, <3>1 DEF HostGreeted, ls
      <4>2. ASSUME NEW k \in LinkIds
            PROVE  /\ ls[k].far = links[k].far /\ ls[k].near = links[k].near /\ ls[k].cut = links[k].cut
                   /\ k # l => ls[k].inbox = links[k].inbox /\ ls[k].hello = links[k].hello
        BY <1>0, <2>1, <2>2
      <4> QED BY <2>1, <2>2, <2>3, <4>1, <4>2
    <3>2. CASE ~(code = 0 \/ \E w \in waiting : w.code = code)
      <4>1. links' = Carried(ls, l, Parked) /\ UNCHANGED serving /\ waiting' = waiting \cup {[code |-> code, link |-> l]}
        BY <1>2, <3>2 DEF HostGreeted, ls, Parked
      <4>2. l \in 0 .. MaxLinks /\ Parked \in PairWord
        BY ConnNow
      <4>3. /\ links' \in [LinkIds -> PairConns]
            /\ \A k \in LinkIds : /\ links'[k].far = ls[k].far /\ links'[k].near = ls[k].near
                                  /\ links'[k].cut = ls[k].cut /\ links'[k].hello = ls[k].hello
                                  /\ links'[k].team = ls[k].team
                                  /\ links'[k].inbox = IF k = l /\ Whole(ls, l) THEN Append(ls[k].inbox, Parked) ELSE ls[k].inbox
        BY <2>3, <4>1, <4>2, CarriedIs
      <4>4. Whole(ls, l) => Reaches(l)
        BY <1>0, <2>1, <2>2 DEF Whole, Reaches
      <4>5. ASSUME NEW k \in LinkIds
            PROVE  /\ links'[k].far = links[k].far /\ links'[k].near = links[k].near /\ links'[k].cut = links[k].cut
                   /\ k # l => links'[k].inbox = links[k].inbox /\ links'[k].hello = links[k].hello
        BY <1>0, <2>1, <2>2, <4>3
      <4>6. links'[l].hello = -1 /\ (links'[l].inbox = <<>> \/ (links'[l].inbox = Append(<<>>, Parked) /\ Reaches(l)))
        BY <2>1, <2>2, <4>3, <4>4
      <4> QED BY <3>2, <4>1, <4>3, <4>5, <4>6
    <3> QED BY <3>1, <3>2
  <2>6. /\ Worded(links'[l].inbox) /\ Unended(links'[l].inbox) /\ OnlyParked(links'[l].inbox) /\ ~Spoken(links'[l].inbox)
    BY <2>4, <2>5, ConnNow DEF Worded, Unended, OnlyParked, Spoken, Parked
  <2>7. PairShapes'
    <3>1. \A k \in LinkIds : links'[k].hello \in -1 .. minted
      BY <2>5, ConnNow
    <3>2. code \in -1 .. minted
      BY ConnNow
    <3>3. \A w \in waiting' : w = [code |-> w.code, link |-> w.link] /\ w.code \in 1 .. minted /\ w.link \in LinkIds
      BY <1>0, <2>5, <3>2 DEF ConnInv, PairShapes
    <3>4. \A v, w \in waiting' : v.code = w.code => v = w
      BY <2>5 DEF ConnInv, PairShapes
    <3> HIDE DEF code
    <3> QED BY <1>0, <2>5, <3>1, <3>3, <3>4 DEF ConnInv, PairShapes, LinkIds
  <2>8. LinkInv'
    <3>1. ASSUME NEW k \in LinkIds
          PROVE  /\ links'[k].near \in {"open", "closing"} <=> k = machine.link
                 /\ links'[k].cut \/ links'[k].near # "open" \/ links'[k].hello # -1 => links'[k].inbox = <<>>
                 /\ k = machine.link /\ (links'[k].cut \/ links'[k].near # "open" \/ links'[k].far # "open") => links'[k].hello = -1
                 /\ Worded(links'[k].inbox) /\ (k = serving => Unended(links'[k].inbox))
      <4>1. CASE k = l
        <5>1. Reaches(l) => ~links[l].cut /\ links[l].near = "open"
          BY DEF Reaches, Whole
        <5> QED BY <2>5, <2>6, <4>1, <5>1 DEF ConnInv, LinkInv
      <4>2. CASE k # l
        BY <2>5, <4>2 DEF ConnInv, LinkInv
      <4> QED BY <4>1, <4>2
    <3> QED BY <1>0, <2>5, <3>1 DEF ConnInv, LinkInv, LinkIds
  <2>9. ServeInv'
    <3>1. serving = 0
      BY <1>2 DEF ConnInv, ServeInv
    <3>2. \A w \in waiting' : w \in waiting \/ w.link = l
      BY <2>5
    <3>3. ASSUME NEW w \in waiting'
          PROVE  links'[w.link].far = "open" /\ links'[w.link].hello = -1 /\ OnlyParked(links'[w.link].inbox)
      <4>1. CASE w.link = l
        BY <1>0, <2>5, <2>6, <4>1
      <4>2. CASE w.link # l
        BY <2>5, <3>2, <4>2, ConnNow DEF ConnInv, ServeInv
      <4> QED BY <4>1, <4>2
    <3> QED BY <1>0, <1>2, <2>5, <3>1, <3>3 DEF ServeInv
  <2>10. WordInv'
    <3>1. ~Spoken(links[l].inbox)
      BY <1>0, ConnNow
    <3> QED BY <1>0, <2>5, <2>6, <3>1, ConnNow DEF ConnInv, WordInv
  <2>11. CodeInv'
    <3>1. -1 \notin used
      BY DEF ConnInv, PairShapes
    <3>2. \A k \in LinkIds : links'[k].hello = -1 \/ links'[k].hello = links[k].hello
      BY <2>5
    <3>3. ~SaysPaired(links[l].inbox)
      BY <1>0 DEF SaysPaired
    <3>4. \A k \in LinkIds : SaysPaired(links[k].inbox) => SaysPaired(links'[k].inbox)
      BY <2>5, <3>3
    <3>5. ~machine.given => \A k \in LinkIds : links'[k].hello > 0 /\ k # machine.link => links'[k].hello # machine.code
      BY <3>2 DEF ConnInv, CodeInv
    <3>6. ~machine.given /\ ~unheard => /\ again = {} /\ (\A k \in LinkIds : links'[k].hello \notin used)
                                        /\ \A w \in waiting' : w.code \notin used
      BY <2>5, <3>1, <3>2 DEF ConnInv, CodeInv
    <3>7. ~machine.given /\ ~unheard /\ machine.code \in used => machine.link # 0 /\ SaysPaired(links'[machine.link].inbox)
      BY <3>4, ConnNow DEF ConnInv, CodeInv
    <3>8. \A k \in LinkIds : links'[k].hello # -1 /\ k = machine.link => links'[k].hello = machine.code
      BY <3>2 DEF ConnInv, CodeInv
    <3>9. \A w \in waiting' : w.link = machine.link => w.code = machine.code
      BY <1>0, <2>5 DEF ConnInv, CodeInv
    <3> QED BY <1>0, <3>5, <3>6, <3>7, <3>8, <3>9 DEF CodeInv, LinkIds
  <2> QED BY <2>7, <2>8, <2>9, <2>10, <2>11 DEF ConnInv
<1> QED BY <1>1, <1>2

LEMMA PairingRefusedInv ==
  ASSUME ConnInv, NEW w \in waiting, PairingRefused(w)
  PROVE  ConnInv'
<1>1. /\ UNCHANGED <<pairedTo, serving, links, machine, minted, starts, used, again, missed, unheard>> /\ waiting' \subseteq waiting
  BY DEF PairingRefused
<1>2. PairShapes'
  BY <1>1 DEF ConnInv, PairShapes, LinkIds
<1>3. LinkInv' /\ ServeInv' /\ WordInv'
  BY <1>1 DEF ConnInv, LinkInv, ServeInv, WordInv, LinkIds
<1>4. CodeInv'
  BY <1>1 DEF ConnInv, CodeInv, LinkIds
<1> QED BY <1>2, <1>3, <1>4 DEF ConnInv

LEMMA RuntimePairedInv ==
  ASSUME ConnInv, NEW w \in waiting, NEW t \in PairTeams, RuntimePaired(t, w)
  PROVE  ConnInv'
<1> DEFINE l == w.link
           m == [type |-> "paired", team |-> t]
<1>0. /\ links[l].far = "open" /\ pairedTo' = t /\ Registered(l, t, "paired") /\ UNCHANGED <<machine, minted, starts>>
      /\ used' = used \cup {w.code} /\ again' = IF w.code \in used THEN again \cup {w.code} ELSE again
      /\ missed' = ~Reaches(l) /\ unheard' = (unheard \/ ~Reaches(l))
  BY DEF RuntimePaired
<1>1. l \in LinkIds /\ w.code \in 1 .. minted /\ links[l].hello = -1 /\ OnlyParked(links[l].inbox) /\ pairedTo = NoTeam
      /\ links[l].inbox \in Seq(PairWord)
  BY ConnNow DEF ConnInv, PairShapes, ServeInv
<1>2. serving = 0 /\ serving # l
  BY <1>1, ConnNow DEF ConnInv, ServeInv
<1> HIDE DEF l
<1>3. /\ serving' = l /\ waiting' = {} /\ links' \in [LinkIds -> PairConns] /\ links'[l].hello = -1
      /\ links'[l].inbox = IF Reaches(l) THEN Append(links[l].inbox, m) ELSE links[l].inbox
      /\ \A k \in LinkIds : k # l => links'[k].hello = links[k].hello /\ links'[k].inbox = links[k].inbox
  BY <1>0, <1>1, <1>2, RegisteredIs
<1>4. LinkInv' /\ ServeInv'
  BY <1>0, <1>1, <1>2, RegisteredInv
<1>5. m \in PairWord /\ m.type = "paired" /\ m.team = t
  BY DEF PairWord
<1> HIDE DEF m
<1>6. /\ Spoken(Append(links[l].inbox, m)) /\ SaysPaired(Append(links[l].inbox, m))
      /\ Append(links[l].inbox, m)[Len(Append(links[l].inbox, m))] = m
  BY <1>1, <1>5, WordsAppend
<1>7. Reaches(l) => l = machine.link
  BY <1>1 DEF Reaches, Whole, ConnInv, LinkInv
<1>8. \A k \in LinkIds : links'[k].hello = -1 \/ (k # l /\ links'[k].hello = links[k].hello)
  BY <1>3
<1>9. PairShapes'
  <2>1. \A k \in LinkIds : links'[k].hello \in -1 .. minted
    BY <1>8, ConnNow
  <2>2. missed' \in BOOLEAN /\ unheard' \in BOOLEAN
    BY <1>0
  <2> QED BY <1>0, <1>1, <1>3, <2>1, <2>2, ConnNow DEF ConnInv, PairShapes, LinkIds
<1>10. WordInv'
  BY <1>0, <1>1, <1>3, <1>5, <1>6, <1>7, ConnNow DEF WordInv
<1>11. CodeInv'
  <2>1. ~machine.given => \A k \in LinkIds : links'[k].hello > 0 /\ k # machine.link => links'[k].hello # machine.code
    BY <1>8 DEF ConnInv, CodeInv
  <2>2. \A k \in LinkIds : links'[k].hello # -1 /\ k = machine.link => links'[k].hello = machine.code
    BY <1>8 DEF ConnInv, CodeInv
  <2>3. ASSUME ~machine.given, ~unheard'
        PROVE  /\ again' = {} /\ \A k \in LinkIds : links'[k].hello \notin used'
               /\ machine.link # 0 /\ SaysPaired(links'[machine.link].inbox)
    <3>1. l = machine.link /\ ~unheard /\ w.code = machine.code /\ Reaches(l)
      BY <1>0, <1>7, <2>3 DEF ConnInv, CodeInv, l
    <3>2. w.code \notin used
      BY <2>3, <3>1 DEF ConnInv, CodeInv
    <3>3. \A k \in LinkIds : links[k].hello \notin used
      BY <2>3, <3>1 DEF ConnInv, CodeInv
    <3>4. ASSUME NEW k \in LinkIds PROVE links'[k].hello \notin used' 
      <4>1. CASE links'[k].hello = -1
        <5>1. -1 \notin used'
          BY <1>9 DEF PairShapes
        <5> QED BY <4>1, <5>1
      <4>2. CASE links'[k].hello # -1
        <5>1. k # l /\ links'[k].hello = links[k].hello
          BY <1>8, <4>2
        <5>2. links[k].hello > 0 => links[k].hello # machine.code
          BY <2>3, <3>1, <5>1 DEF ConnInv, CodeInv
        <5>3. links[k].hello # w.code
          BY <1>1, <3>1, <5>2, ConnNow
        <5> QED BY <1>0, <3>3, <5>1, <5>3
      <4> QED BY <4>1, <4>2
    <3>5. machine.link # 0 /\ SaysPaired(links'[machine.link].inbox)
      BY <1>1, <1>3, <1>6, <3>1, ConnNow
    <3> QED BY <1>0, <2>3, <3>1, <3>2, <3>4, <3>5 DEF ConnInv, CodeInv
  <2> QED BY <1>0, <1>3, <2>1, <2>2, <2>3 DEF CodeInv, LinkIds
<1> QED BY <1>4, <1>9, <1>10, <1>11 DEF ConnInv

LEMMA RuntimeUnpairedInv ==
  ASSUME ConnInv, RuntimeUnpaired
  PROVE  ConnInv'
<1> DEFINE l == serving
           m == [type |-> "unpaired", team |-> NoTeam]
           ls == IF l = 0 THEN links ELSE [links EXCEPT ![l].team = NoTeam]
<1>0. /\ pairedTo' = NoTeam /\ waiting' = {} /\ serving' = 0 /\ UNCHANGED <<machine, minted, starts, used, again>>
      /\ links' = Carried(ls, l, m) /\ missed' = ~Reaches(l) /\ unheard' = (unheard \/ ~Reaches(l))
      /\ l \in 0 .. MaxLinks /\ (l # 0 => l \in LinkIds) /\ links \in [LinkIds -> PairConns]
  BY ConnNow DEF RuntimeUnpaired, ConnInv, PairShapes
<1> HIDE DEF l
<1>1. m \in PairWord /\ m.type = "unpaired" /\ m.team = NoTeam
  BY DEF PairWord
<1>2. /\ ls \in [LinkIds -> PairConns]
      /\ \A k \in LinkIds : /\ ls[k].far = links[k].far /\ ls[k].near = links[k].near /\ ls[k].cut = links[k].cut
                            /\ ls[k].hello = links[k].hello /\ ls[k].inbox = links[k].inbox
  <2>1. CASE l = 0
    BY <1>0, <2>1
  <2>2. CASE l # 0
    <3> DEFINE c == [far |-> links[l].far, near |-> links[l].near, cut |-> links[l].cut, hello |-> links[l].hello,
                     inbox |-> links[l].inbox, team |-> NoTeam]
    <3>1. ls = [links EXCEPT ![l] = [links[l] EXCEPT !.team = NoTeam]] /\ l \in LinkIds
      BY <1>0, <2>2
    <3> HIDE DEF ls
    <3>2. links[l] = [far |-> links[l].far, near |-> links[l].near, cut |-> links[l].cut, hello |-> links[l].hello,
                      inbox |-> links[l].inbox, team |-> links[l].team]
      BY <3>1, ConnIs, ConnNow
    <3>3. /\ ls[l] = [links[l] EXCEPT !.team = NoTeam] /\ \A k \in LinkIds : k # l => ls[k] = links[k]
          /\ ls = [k \in LinkIds |-> ls[k]]
      BY <1>0, <3>1
    <3>4. ls[l] = c
      BY <3>2, <3>3
    <3>5. /\ c.far = links[l].far /\ c.near = links[l].near /\ c.cut = links[l].cut /\ c.hello = links[l].hello
          /\ c.inbox = links[l].inbox /\ c \in PairConns
      <4>1. /\ links[l].far \in PairEnds /\ links[l].near \in PairEnds /\ links[l].cut \in BOOLEAN /\ links[l].hello \in Int
            /\ links[l].inbox \in Seq(PairWord)
        BY <3>1, ConnIs, ConnNow
      <4> QED BY <4>1 DEF PairConns
    <3> HIDE DEF c
    <3>6. \A k \in LinkIds : ls[k] \in PairConns
      BY <1>0, <3>3, <3>4, <3>5
    <3>7. ls \in [LinkIds -> PairConns]
      BY <3>3, <3>6
    <3> QED BY <3>3, <3>4, <3>5, <3>7
  <2> QED BY <2>1, <2>2
<1> HIDE DEF ls, m
<1>3. /\ links' \in [LinkIds -> PairConns]
      /\ \A k \in LinkIds : /\ links'[k].far = ls[k].far /\ links'[k].near = ls[k].near /\ links'[k].cut = ls[k].cut
                            /\ links'[k].hello = ls[k].hello /\ links'[k].team = ls[k].team
                            /\ links'[k].inbox = IF k = l /\ Whole(ls, l) THEN Append(ls[k].inbox, m) ELSE ls[k].inbox
  BY <1>0, <1>1, <1>2, CarriedIs
<1>4. Whole(ls, l) <=> Reaches(l)
  BY <1>0, <1>2 DEF Whole, Reaches
<1>5. /\ \A k \in LinkIds : /\ links'[k].far = links[k].far /\ links'[k].near = links[k].near /\ links'[k].cut = links[k].cut
                            /\ links'[k].hello = links[k].hello
                            /\ links'[k].inbox = IF k = l /\ Reaches(l) THEN Append(links[k].inbox, m) ELSE links[k].inbox
  <2> SUFFICES ASSUME NEW k \in LinkIds
               PROVE  /\ links'[k].far = links[k].far /\ links'[k].near = links[k].near /\ links'[k].cut = links[k].cut
                      /\ links'[k].hello = links[k].hello
                      /\ links'[k].inbox = IF k = l /\ Reaches(l) THEN Append(links[k].inbox, m) ELSE links[k].inbox
    OBVIOUS
  <2>1. ls[k].inbox = links[k].inbox
    BY <1>2
  <2> QED BY <1>2, <1>3, <1>4, <2>1
<1>6. Reaches(l) => l = machine.link /\ l # 0 /\ ~links[l].cut /\ links[l].near = "open" /\ l \in LinkIds /\ links[l].hello = -1
  BY <1>0 DEF Reaches, Whole, ConnInv, LinkInv, ServeInv, l
<1>7. PairShapes'
  <2>1. missed' \in BOOLEAN /\ unheard' \in BOOLEAN
    BY <1>0
  <2> QED BY <1>0, <1>3, <1>5, <2>1, PairConstants DEF ConnInv, PairShapes, LinkIds
<1>8. LinkInv'
  <2>1. ASSUME NEW k \in LinkIds
        PROVE  /\ links'[k].near \in {"open", "closing"} <=> k = machine.link
               /\ links'[k].cut \/ links'[k].near # "open" \/ links'[k].hello # -1 => links'[k].inbox = <<>>
               /\ k = machine.link /\ (links'[k].cut \/ links'[k].near # "open" \/ links'[k].far # "open") => links'[k].hello = -1
               /\ Worded(links'[k].inbox)
    <3>1. CASE k = l /\ Reaches(l)
      <4> DEFINE q == links[k].inbox
      <4>1. q \in Seq(PairWord) /\ Worded(q) /\ Unended(q)
        BY <3>1, ConnNow DEF ConnInv, LinkInv, l
      <4>2. links'[k].inbox = Append(q, m)
        BY <1>5, <3>1
      <4> HIDE DEF q
      <4>3. /\ Len(Append(q, m)) = Len(q) + 1 /\ Append(q, m)[Len(q) + 1] = m /\ Len(q) \in Nat
            /\ \A i \in 1 .. Len(q) : Append(q, m)[i] = q[i]
        BY <1>1, <4>1, WordsAppend
      <4>4. Worded(Append(q, m))
        BY <1>1, <4>1, <4>3 DEF Worded, Unended
      <4> QED BY <1>5, <1>6, <3>1, <4>2, <4>4
    <3>2. CASE ~(k = l /\ Reaches(l))
      BY <1>5, <3>2 DEF ConnInv, LinkInv
    <3> QED BY <3>1, <3>2
  <2> QED BY <1>0, <2>1, ConnNow DEF ConnInv, LinkInv, LinkIds
<1>9. ServeInv'
  BY <1>0 DEF ServeInv
<1>10. WordInv'
  <2>1. ASSUME Reaches(l)
        PROVE  /\ links'[l].inbox = Append(links[l].inbox, m) /\ Spoken(Append(links[l].inbox, m))
               /\ Append(links[l].inbox, m)[Len(Append(links[l].inbox, m))] = m
    <3>1. l \in LinkIds /\ links[l].inbox \in Seq(PairWord)
      BY <1>6, <2>1, ConnNow
    <3>2. /\ Spoken(Append(links[l].inbox, m))
          /\ Append(links[l].inbox, m)[Len(Append(links[l].inbox, m))] = m
      BY <1>1, <3>1, WordsAppend
    <3> QED BY <1>5, <2>1, <3>1, <3>2
  <2> QED BY <1>0, <1>1, <1>6, <2>1 DEF WordInv
<1>11. CodeInv'
  <2>1. \A k \in LinkIds : SaysPaired(links[k].inbox) => SaysPaired(links'[k].inbox)
    BY <1>1, <1>5, WordsAppend, ConnNow
  <2>2. ~machine.given /\ ~unheard' => /\ again = {} /\ (\A k \in LinkIds : links[k].hello \notin used)
    BY <1>0 DEF ConnInv, CodeInv
  <2>3. ~machine.given /\ ~unheard' /\ machine.code \in used => machine.link # 0 /\ SaysPaired(links'[machine.link].inbox)
    BY <1>0, <2>1, ConnNow DEF ConnInv, CodeInv
  <2> QED BY <1>0, <1>5, <2>2, <2>3 DEF ConnInv, CodeInv, LinkIds
<1> QED BY <1>7, <1>8, <1>9, <1>10, <1>11 DEF ConnInv

LEMMA HubRestartsInv ==
  ASSUME ConnInv, HubRestarts
  PROVE  ConnInv'
<1>0. /\ waiting' = {} /\ serving' = 0 /\ UNCHANGED <<pairedTo, machine, minted, starts, used, again>>
      /\ links' = [l \in LinkIds |-> IF links[l] = NoConn THEN NoConn
                                     ELSE [links[l] EXCEPT !.far = "gone", !.cut = TRUE, !.hello = -1, !.inbox = <<>>]]
      /\ missed \in BOOLEAN /\ unheard \in BOOLEAN
  BY DEF HubRestarts, ConnInv, PairShapes
<1>1. ASSUME NEW l \in LinkIds
      PROVE  /\ links'[l] \in PairConns /\ links'[l].near = links[l].near /\ links'[l].hello = -1 /\ links'[l].inbox = <<>>
  <2>1. CASE links[l] = NoConn
    <3>1. NoConn.near = "none" /\ NoConn.hello = -1 /\ NoConn.inbox = <<>>
      BY DEF NoConn
    <3> QED BY <1>0, <2>1, <3>1, ConnNow
  <2>2. CASE links[l] # NoConn
    <3>1. links'[l] = [links[l] EXCEPT !.far = "gone", !.cut = TRUE, !.hello = -1, !.inbox = <<>>]
      BY <1>0, <2>2
    <3>2. links[l] = [far |-> links[l].far, near |-> links[l].near, cut |-> links[l].cut, hello |-> links[l].hello,
                      inbox |-> links[l].inbox, team |-> links[l].team]
      BY ConnIs, ConnNow
    <3>3. links'[l] = [far |-> "gone", near |-> links[l].near, cut |-> TRUE, hello |-> -1, inbox |-> <<>>, team |-> links[l].team]
      BY <3>1, <3>2
    <3>4. /\ links[l].near \in PairEnds /\ "gone" \in PairEnds /\ <<>> \in Seq(PairWord) /\ links[l].team \in PairTeams \cup {NoTeam}
          /\ -1 \in Int /\ TRUE \in BOOLEAN
      BY ConnIs, ConnNow DEF PairEnds
    <3>5. links'[l] \in PairConns
      BY <3>3, <3>4 DEF PairConns
    <3> QED BY <3>3, <3>5
  <2> QED BY <2>1, <2>2
<1>2. links' \in [LinkIds -> PairConns]
  BY <1>0, <1>1
<1>3. /\ missed' \in BOOLEAN /\ unheard' \in BOOLEAN /\ (~missed' => ~missed) /\ (~unheard' => ~unheard)
      /\ machine.link # 0 /\ ~missed' => ~Spoken(links[machine.link].inbox)
      /\ machine.link # 0 /\ ~unheard' => ~SaysPaired(links[machine.link].inbox)
  <2>1. CASE machine.link = 0
    BY <1>0, <2>1 DEF HubRestarts
  <2>2. CASE machine.link # 0
    <3> DEFINE l == machine.link
    <3>1. Dropped(l) /\ l \in LinkIds /\ links[l].inbox \in Seq(PairWord)
      BY <2>2, ConnNow DEF HubRestarts
    <3> HIDE DEF l
    <3>2. Spoken(links[l].inbox) => Words(l) # {}
      BY <3>1 DEF Spoken, Words
    <3>3. SaysPaired(links[l].inbox) => Words(l) # {}
      BY DEF SaysPaired, Words
    <3> QED BY <1>0, <3>1, <3>2, <3>3 DEF Dropped, l
  <2> QED BY <2>1, <2>2
<1>4. PairShapes'
  <2>1. \A l \in LinkIds : links'[l].hello \in -1 .. minted
    BY <1>1, ConnNow
  <2>2. 0 \in 0 .. MaxLinks
    BY PairConstants
  <2>3. \A w \in waiting' : FALSE
    BY <1>0
  <2> QED BY <1>0, <1>2, <1>3, <2>1, <2>2, <2>3 DEF ConnInv, PairShapes, LinkIds
<1>5. LinkInv'
  BY <1>0, <1>1, ConnNow DEF ConnInv, LinkInv, LinkIds
<1>6. ServeInv'
  BY <1>0 DEF ServeInv
<1>7. WordInv'
  BY <1>0, <1>1, <1>3, ConnNow DEF ConnInv, WordInv
<1>8. CodeInv'
  <2>1. -1 \notin used
    BY DEF ConnInv, PairShapes
  <2>2. ~machine.given /\ ~unheard' => again = {} /\ machine.code \notin used
    BY <1>3 DEF ConnInv, CodeInv
  <2>3. \A l \in LinkIds : ~(links'[l].hello > 0) /\ ~(links'[l].hello # -1) /\ links'[l].hello \notin used
    BY <1>1, <2>1
  <2>4. \A w \in waiting' : FALSE
    BY <1>0
  <2> QED BY <1>0, <2>2, <2>3, <2>4 DEF CodeInv, LinkIds
<1> QED BY <1>4, <1>5, <1>6, <1>7, <1>8 DEF ConnInv

(* What the host hears.                                                    *)
LEMMA HeardIs ==
  ASSUME ConnInv, NEW l \in LinkIds, NEW type, Heard(l, type)
  PROVE  /\ l = machine.link /\ l # 0 /\ links[l].near = "open" /\ links[l].inbox # <<>> /\ links[l].hello = -1
         /\ ~links[l].cut /\ machine.up /\ machine.team = machine.disk
         /\ links[l].inbox \in Seq(PairWord) /\ Worded(links[l].inbox) /\ Head(links[l].inbox).type = type
         /\ links \in [LinkIds -> PairConns]
  BY ConnNow DEF Heard, ConnInv, LinkInv, PairShapes

LEMMA WordTaken ==
  ASSUME ConnInv, NEW l \in LinkIds, links[l].inbox # <<>>, links' = [links EXCEPT ![l].inbox = Tail(@)]
  PROVE  /\ links' \in [LinkIds -> PairConns]
         /\ \A k \in LinkIds : /\ links'[k].far = links[k].far /\ links'[k].near = links[k].near /\ links'[k].cut = links[k].cut
                               /\ links'[k].hello = links[k].hello /\ links'[k].team = links[k].team
                               /\ links'[k].inbox = IF k = l THEN Tail(links[k].inbox) ELSE links[k].inbox
<1> DEFINE q == Tail(links[l].inbox)
<1>1. q \in Seq(PairWord) /\ links \in [LinkIds -> PairConns]
  BY ConnNow DEF ConnInv, PairShapes
<1>2. links' = [links EXCEPT ![l] = [links[l] EXCEPT !.inbox = q]]
  OBVIOUS
<1> HIDE DEF q
<1>3. links'[l] = [links[l] EXCEPT !.inbox = q] /\ \A k \in LinkIds : k # l => links'[k] = links[k]
  BY <1>1, <1>2
<1>4. links[l] = [far |-> links[l].far, near |-> links[l].near, cut |-> links[l].cut, hello |-> links[l].hello,
                  inbox |-> links[l].inbox, team |-> links[l].team]
  BY ConnIs, ConnNow
<1>5. links'[l] = [far |-> links[l].far, near |-> links[l].near, cut |-> links[l].cut, hello |-> links[l].hello,
                   inbox |-> q, team |-> links[l].team]
  BY <1>3, <1>4
<1>6. /\ links[l].far \in PairEnds /\ links[l].near \in PairEnds /\ links[l].cut \in BOOLEAN /\ links[l].hello \in Int
      /\ links[l].team \in PairTeams \cup {NoTeam}
  BY ConnIs, ConnNow
<1>7. links'[l] \in PairConns
  BY <1>1, <1>5, <1>6 DEF PairConns
<1>8. links' \in [LinkIds -> PairConns]
  BY <1>1, <1>2, <1>7, <1>3
<1>9. ASSUME NEW k \in LinkIds
      PROVE  /\ links'[k].far = links[k].far /\ links'[k].near = links[k].near /\ links'[k].cut = links[k].cut
             /\ links'[k].hello = links[k].hello /\ links'[k].team = links[k].team
             /\ links'[k].inbox = IF k = l THEN q ELSE links[k].inbox
  <2>1. CASE k = l
    BY <1>5, <2>1
  <2>2. CASE k # l
    BY <1>3, <2>2
  <2> QED BY <2>1, <2>2
<1> QED BY <1>8, <1>9 DEF q

(* A welcome or a pairing is read, and the code with it.                   *)
LEMMA WordReadInv ==
  ASSUME ConnInv, NEW l \in LinkIds, Heard(l, "welcome") \/ Heard(l, "paired"),
         links' = [links EXCEPT ![l].inbox = Tail(@)], machine' \in Machines,
         UNCHANGED <<pairedTo, waiting, serving, minted, starts, used, again, missed, unheard>>,
         machine'.up = machine.up, machine'.given = machine.given, machine'.link = machine.link, machine'.team = machine'.disk,
         machine'.disk = IF Heard(l, "paired") THEN Head(links[l].inbox).team ELSE machine.disk,
         \/ machine'.code = 0 /\ Head(links[l].inbox) # Parked
         \/ machine'.code = machine.code /\ Heard(l, "welcome")
  PROVE  ConnInv'
<1> DEFINE q == links[l].inbox
<1>1. /\ l = machine.link /\ l # 0 /\ links[l].near = "open" /\ q # <<>> /\ links[l].hello = -1 /\ machine.up
      /\ q \in Seq(PairWord) /\ Worded(q) /\ ~links[l].cut
  BY HeardIs
<1>2. /\ links' \in [LinkIds -> PairConns]
      /\ \A k \in LinkIds : /\ links'[k].far = links[k].far /\ links'[k].near = links[k].near /\ links'[k].cut = links[k].cut
                            /\ links'[k].hello = links[k].hello /\ links'[k].team = links[k].team
                            /\ links'[k].inbox = IF k = l THEN Tail(links[k].inbox) ELSE links[k].inbox
  BY <1>1, WordTaken
<1>3. /\ Tail(q) \in Seq(PairWord) /\ Worded(Tail(q)) /\ (Unended(q) => Unended(Tail(q))) /\ Head(q) \in PairWord
      /\ OnlyParked(q) => OnlyParked(Tail(q)) /\ Head(q) = Parked
      /\ Spoken(Tail(q)) => Spoken(q) /\ Tail(q)[Len(Tail(q))] = q[Len(q)]
      /\ Spoken(q) /\ ~Spoken(Tail(q)) => Tail(q) = <<>> /\ q[Len(q)] = Head(q)
      /\ Head(q).type # "welcome" => Spoken(q)
      /\ SaysPaired(q) /\ Head(q).type # "paired" => SaysPaired(Tail(q))
  BY <1>1, WordsTail
<1>4. (Heard(l, "paired") <=> Head(q).type = "paired") /\ (Heard(l, "welcome") <=> Head(q).type = "welcome")
      /\ Head(q).type \in {"welcome", "paired"}
  BY DEF Heard
<1> HIDE DEF q
<1>5. machine'.code <= minted /\ machine'.code \in Nat
  BY ConnNow DEF ConnInv, PairShapes
<1>6. PairShapes'
  BY <1>2, <1>5, ConnNow DEF ConnInv, PairShapes, LinkIds
<1>7. links'[l].inbox = Tail(q) /\ \A k \in LinkIds : k # l => links'[k].inbox = links[k].inbox
  BY <1>2 DEF q
<1>8. LinkInv'
  <2>1. ASSUME NEW k \in LinkIds
        PROVE  /\ links'[k].near \in {"open", "closing"} <=> k = machine.link
               /\ links'[k].cut \/ links'[k].near # "open" \/ links'[k].hello # -1 => links'[k].inbox = <<>>
               /\ k = machine.link /\ (links'[k].cut \/ links'[k].near # "open" \/ links'[k].far # "open") => links'[k].hello = -1
               /\ Worded(links'[k].inbox) /\ (k = serving => Unended(links'[k].inbox))
    <3>1. CASE k = l
      <4>1. k = serving => Unended(q)
        BY <3>1 DEF ConnInv, LinkInv, q
      <4> QED BY <1>1, <1>2, <1>3, <1>7, <3>1, <4>1
    <3>2. CASE k # l
      BY <1>2, <1>7, <3>2 DEF ConnInv, LinkInv
    <3> QED BY <3>1, <3>2
  <2> QED BY <1>1, <2>1 DEF ConnInv, LinkInv, LinkIds
<1>9. ServeInv'
  <2>1. \A k \in LinkIds : OnlyParked(links[k].inbox) => OnlyParked(links'[k].inbox)
    BY <1>3, <1>7 DEF q
  <2> QED BY <1>2, <2>1, ConnNow DEF ConnInv, ServeInv
<1>10. WordInv'
  <2>1. ASSUME ~missed
        PROVE  IF Spoken(Tail(q)) THEN Tail(q)[Len(Tail(q))].team = pairedTo ELSE machine'.disk = pairedTo
    <3>1. IF Spoken(q) THEN q[Len(q)].team = pairedTo ELSE machine.disk = pairedTo
      BY <1>1, <2>1 DEF ConnInv, WordInv, q
    <3>2. CASE Spoken(Tail(q))
      BY <1>3, <3>1, <3>2
    <3>3. CASE ~Spoken(Tail(q)) /\ Spoken(q)
      <4>1. Tail(q) = <<>> /\ q[Len(q)] = Head(q) /\ q[Len(q)].type # "welcome"
        BY <1>3, <3>3 DEF Spoken
      <4> QED BY <1>4, <3>1, <3>3, <4>1 DEF q
    <3>4. CASE ~Spoken(q)
      BY <1>3, <1>4, <3>1, <3>4
    <3> QED BY <3>2, <3>3, <3>4
  <2> QED BY <1>1, <1>7, <2>1 DEF WordInv
<1>11. CodeInv'
  <2>1. \A w \in waiting : w.link = machine.link => w.code = machine.code /\ Head(q) = Parked
    BY <1>1, <1>3 DEF ConnInv, CodeInv, ServeInv, q
  <2>2. \A w \in waiting : w.link = machine.link => machine'.code = w.code
    BY <2>1 DEF q
  <2>3. ~machine.given => \A k \in LinkIds : links[k].hello > 0 /\ k # machine.link => links[k].hello # machine'.code
    BY <1>5, ConnNow DEF ConnInv, CodeInv
  <2>4. ~machine.given /\ ~unheard => /\ again = {} /\ (\A w \in waiting : w.code \notin used)
                                      /\ \A k \in LinkIds : links[k].hello \notin used
    BY DEF ConnInv, CodeInv
  <2>5. ASSUME ~machine.given, ~unheard, machine'.code \in used
        PROVE  SaysPaired(Tail(q))
    <3>1. 0 \notin used
      BY DEF ConnInv, PairShapes
    <3>2. machine'.code = machine.code /\ Head(q).type # "paired"
      BY <1>4, <2>5, <3>1
    <3>3. SaysPaired(q)
      BY <1>1, <2>5, <3>2 DEF ConnInv, CodeInv, q
    <3> QED BY <1>3, <3>2, <3>3
  <2>6. \A k \in LinkIds : links'[k].hello # -1 => k # machine.link
    BY <1>1, <1>2
  <2>7. \A k \in LinkIds : links'[k].hello = links[k].hello
    BY <1>2
  <2>8. ~machine'.given => \A k \in LinkIds : links'[k].hello > 0 /\ k # machine'.link => links'[k].hello # machine'.code
    BY <2>3, <2>7
  <2>9. ~machine'.given /\ ~unheard' /\ machine'.code \in used' => machine'.link # 0 /\ SaysPaired(links'[machine'.link].inbox)
    BY <1>1, <1>7, <2>5
  <2>10. ~machine'.given /\ ~unheard' => /\ again' = {} /\ (\A w \in waiting' : w.code \notin used')
                                       /\ \A k \in LinkIds : links'[k].hello \notin used'
    BY <2>4, <2>7
  <2>11. \A k \in LinkIds : links'[k].hello # -1 /\ k = machine'.link => links'[k].hello = machine'.code
    BY <2>6
  <2>12. \A w \in waiting' : w.link = machine'.link => w.code = machine'.code
    BY <2>2
  <2> QED BY <2>8, <2>9, <2>10, <2>11, <2>12 DEF CodeInv, LinkIds
<1> QED BY <1>6, <1>8, <1>9, <1>10, <1>11 DEF ConnInv

LEMMA WelcomeHeardInv ==
  ASSUME ConnInv, NEW l \in LinkIds, WelcomeHeard(l)
  PROVE  ConnInv'
<1> DEFINE q == links[l].inbox
<1>1. /\ Heard(l, "welcome") /\ links' = [links EXCEPT ![l].inbox = Tail(@)] /\ ~Heard(l, "paired")
      /\ UNCHANGED <<pairedTo, waiting, serving, minted, starts, used, again, missed, unheard>>
  BY DEF WelcomeHeard, Heard
<1>2. machine.team = machine.disk /\ machine \in Machines
  BY <1>1, HeardIs, ConnNow
<1>3. \/ machine' = machine
      \/ machine' = [machine EXCEPT !.code = 0] /\ Head(q) # Parked
  BY DEF WelcomeHeard, Parked
<1>4. CASE machine' = machine
  BY <1>1, <1>2, <1>4, WordReadInv
<1>5. CASE machine' = [machine EXCEPT !.code = 0] /\ Head(q) # Parked
  <2>1. machine = [up |-> machine.up, given |-> machine.given, code |-> machine.code, team |-> machine.team,
                   disk |-> machine.disk, link |-> machine.link]
    BY <1>2, MachineIs
  <2>2. machine' = [up |-> machine.up, given |-> machine.given, code |-> 0, team |-> machine.team,
                    disk |-> machine.disk, link |-> machine.link]
    BY <1>5, <2>1
  <2>3. machine' \in Machines
    BY <1>2, <2>2, MachineIs DEF Machines
  <2>4. /\ machine'.up = machine.up /\ machine'.given = machine.given /\ machine'.link = machine.link /\ machine'.team = machine'.disk
        /\ machine'.disk = machine.disk /\ machine'.code = 0
    BY <1>2, <2>2
  <2> QED BY <1>1, <1>5, <2>3, <2>4, WordReadInv
<1> QED BY <1>3, <1>4, <1>5

LEMMA PairedHeardInv ==
  ASSUME ConnInv, NEW l \in LinkIds, PairedHeard(l)
  PROVE  ConnInv'
<1> DEFINE t == Head(links[l].inbox).team
<1>1. /\ Heard(l, "paired") /\ links' = [links EXCEPT ![l].inbox = Tail(@)]
      /\ UNCHANGED <<pairedTo, waiting, serving, minted, starts, used, again, missed, unheard>>
      /\ machine' = [machine EXCEPT !.code = 0, !.team = t, !.disk = t]
  BY DEF PairedHeard
<1>2. Head(links[l].inbox) \in PairWord /\ Head(links[l].inbox) # Parked
  <2>1. /\ links[l].inbox \in Seq(PairWord) /\ links[l].inbox # <<>> /\ Head(links[l].inbox).type = "paired"
    BY <1>1, HeardIs
  <2> QED BY <2>1 DEF Parked
<1>3. t \in PairTeams \cup {NoTeam}
  BY <1>2 DEF PairWord
<1> HIDE DEF t
<1>4. machine = [up |-> machine.up, given |-> machine.given, code |-> machine.code, team |-> machine.team,
                 disk |-> machine.disk, link |-> machine.link]
  BY MachineIs, ConnNow
<1>5. machine' = [up |-> machine.up, given |-> machine.given, code |-> 0, team |-> t, disk |-> t, link |-> machine.link]
  BY <1>1, <1>4
<1>6. machine' \in Machines
  BY <1>3, <1>5, MachineIs, ConnNow DEF Machines
<1>7. /\ machine'.up = machine.up /\ machine'.given = machine.given /\ machine'.link = machine.link /\ machine'.team = machine'.disk
      /\ machine'.disk = t /\ machine'.code = 0
  BY <1>5
<1> QED BY <1>1, <1>2, <1>6, <1>7, WordReadInv DEF t

LEMMA UnpairedHeardInv ==
  ASSUME ConnInv, NEW l \in LinkIds, UnpairedHeard(l)
  PROVE  ConnInv'
<1> DEFINE q == links[l].inbox
           c == [far |-> links[l].far, near |-> "closing", cut |-> links[l].cut, hello |-> links[l].hello,
                 inbox |-> <<>>, team |-> links[l].team]
<1>1. /\ UNCHANGED <<pairedTo, waiting, serving, starts, used, again, missed, unheard>>
      /\ minted' = minted + 1 /\ machine' = [machine EXCEPT !.code = minted + 1, !.team = NoTeam, !.disk = NoTeam]
      /\ links' = [links EXCEPT ![l].inbox = <<>>, ![l].near = "closing"] /\ Heard(l, "unpaired")
  BY DEF UnpairedHeard
<1>2. /\ l = machine.link /\ l # 0 /\ q # <<>> /\ links[l].hello = -1 /\ machine.up /\ q \in Seq(PairWord) /\ Worded(q)
      /\ Head(q).type = "unpaired" /\ links \in [LinkIds -> PairConns]
  BY <1>1, HeardIs
<1>3. q[Len(q)] = Head(q) /\ Head(q).team = NoTeam /\ Spoken(q)
  BY <1>2, WordsTail
<1>4. links'[l] = c /\ (\A k \in LinkIds : k # l => links'[k] = links[k]) /\ links' = [k \in LinkIds |-> links'[k]]
  <2>1. links'[l] = [links[l] EXCEPT !.inbox = <<>>, !.near = "closing"]
    BY <1>1, <1>2
  <2>2. links[l] = [far |-> links[l].far, near |-> links[l].near, cut |-> links[l].cut, hello |-> links[l].hello,
                    inbox |-> links[l].inbox, team |-> links[l].team]
    BY ConnIs, ConnNow
  <2>3. links'[l] = c
    BY <2>1, <2>2
  <2>4. (\A k \in LinkIds : k # l => links'[k] = links[k]) /\ links' = [k \in LinkIds |-> links'[k]]
    BY <1>1, <1>2
  <2> QED BY <2>3, <2>4
<1>5. /\ c.far = links[l].far /\ c.near = "closing" /\ c.cut = links[l].cut /\ c.hello = -1 /\ c.inbox = <<>> /\ c.team = links[l].team
      /\ c \in PairConns
  <2>1. /\ links[l].far \in PairEnds /\ "closing" \in PairEnds /\ links[l].cut \in BOOLEAN /\ links[l].hello \in Int
        /\ <<>> \in Seq(PairWord) /\ links[l].team \in PairTeams \cup {NoTeam}
    BY ConnIs, ConnNow DEF PairEnds
  <2> QED BY <1>2, <2>1 DEF PairConns
<1> HIDE DEF c
<1>6. links' \in [LinkIds -> PairConns]
  <2>1. \A k \in LinkIds : links'[k] \in PairConns
    BY <1>2, <1>4, <1>5
  <2> QED BY <1>4, <2>1
<1>7. /\ machine' \in Machines /\ machine'.up = machine.up /\ machine'.given = machine.given /\ machine'.link = machine.link
      /\ machine'.team = NoTeam /\ machine'.disk = NoTeam /\ machine'.code = minted + 1 /\ minted \in Nat
  <2>1. machine = [up |-> machine.up, given |-> machine.given, code |-> machine.code, team |-> machine.team,
                   disk |-> machine.disk, link |-> machine.link]
    BY MachineIs, ConnNow
  <2>2. machine' = [up |-> machine.up, given |-> machine.given, code |-> minted + 1, team |-> NoTeam,
                    disk |-> NoTeam, link |-> machine.link]
    BY <1>1, <2>1
  <2>3. machine' \in Machines
    BY <2>2, MachineIs, ConnNow DEF Machines
  <2> QED BY <2>2, <2>3, ConnNow
<1>8. PairShapes'
  <2>1. \A k \in LinkIds : links'[k].hello \in -1 .. minted'
    <3>1. \A k \in LinkIds : links'[k].hello \in -1 .. minted
      BY <1>4, <1>5, <1>7, ConnNow
    <3>2. \A n \in -1 .. minted : n \in -1 .. (minted + 1)
      BY <1>7
    <3> QED BY <1>1, <3>1, <3>2
  <2>2. minted' \in Nat /\ minted' >= 1 /\ machine'.code <= minted' /\ \A i \in 1 .. minted : i \in 1 .. minted'
    BY <1>1, <1>7
  <2> QED BY <1>1, <1>6, <1>7, <2>1, <2>2 DEF ConnInv, PairShapes, LinkIds
<1>9. LinkInv'
  <2>1. ASSUME NEW k \in LinkIds
        PROVE  /\ links'[k].near \in {"open", "closing"} <=> k = machine.link
               /\ links'[k].cut \/ links'[k].near # "open" \/ links'[k].hello # -1 => links'[k].inbox = <<>>
               /\ k = machine.link /\ (links'[k].cut \/ links'[k].near # "open" \/ links'[k].far # "open") => links'[k].hello = -1
               /\ Worded(links'[k].inbox) /\ (k = serving => Unended(links'[k].inbox))
    <3>1. CASE k = l
      BY <1>2, <1>4, <1>5, <3>1, ConnNow
    <3>2. CASE k # l
      BY <1>4, <3>2 DEF ConnInv, LinkInv
    <3> QED BY <3>1, <3>2
  <2> QED BY <1>1, <1>2, <1>7, <2>1 DEF LinkInv, LinkIds
<1>10. ServeInv'
  <2>1. \A k \in LinkIds : /\ links'[k].far = links[k].far /\ links'[k].hello = links[k].hello /\ links'[k].team = links[k].team
                           /\ (OnlyParked(links[k].inbox) => OnlyParked(links'[k].inbox))
    BY <1>2, <1>4, <1>5, ConnNow
  <2> QED BY <1>1, <2>1, ConnNow DEF ConnInv, ServeInv
<1>11. WordInv'
  <2>1. ~missed => pairedTo = NoTeam
    BY <1>2, <1>3 DEF ConnInv, WordInv
  <2>2. ~Spoken(links'[l].inbox)
    BY <1>4, <1>5, ConnNow
  <2> QED BY <1>1, <1>2, <1>7, <2>1, <2>2 DEF WordInv
<1>12. CodeInv'
  <2>1. minted + 1 \notin used /\ \A k \in LinkIds : links'[k].hello = links[k].hello /\ links[k].hello # minted + 1
    <3>1. minted + 1 \notin used
      BY <1>7 DEF ConnInv, PairShapes
    <3>2. \A k \in LinkIds : links'[k].hello = links[k].hello
      BY <1>2, <1>4, <1>5
    <3> QED BY <1>7, <3>1, <3>2, ConnNow
  <2>2. \A w \in waiting : w.link # machine.link
    <3>1. Head(q) # Parked /\ 1 \in 1 .. Len(q) /\ q[1] = Head(q)
      BY <1>2 DEF Parked
    <3>2. ~OnlyParked(q)
      BY <3>1 DEF OnlyParked
    <3> QED BY <1>2, <3>2 DEF ConnInv, ServeInv
  <2>3. \A k \in LinkIds : k = machine.link => links'[k].hello = -1
    BY <1>2, <1>4, <1>5
  <2>4. ~machine.given /\ ~unheard => /\ again = {} /\ (\A w \in waiting : w.code \notin used)
                                      /\ \A k \in LinkIds : links[k].hello \notin used
    BY DEF ConnInv, CodeInv
  <2>5. \A k \in LinkIds : links'[k].hello # machine'.code /\ (k = machine'.link => links'[k].hello = -1)
    BY <1>7, <2>1, <2>3
  <2>6. machine'.code \notin used' /\ \A w \in waiting' : w.link # machine'.link
    BY <1>1, <1>7, <2>1, <2>2
  <2>7. ~machine'.given /\ ~unheard' => /\ again' = {} /\ (\A w \in waiting' : w.code \notin used')
                                       /\ \A k \in LinkIds : links'[k].hello \notin used'
    <3>1. \A k \in LinkIds : links'[k].hello = links[k].hello
      BY <2>1
    <3>2. (~machine.given <=> ~machine'.given) /\ unheard' = unheard /\ again' = again /\ used' = used /\ waiting' = waiting
      BY <1>1, <1>7
    <3> QED BY <2>4, <3>1, <3>2
  <2> QED BY <2>5, <2>6, <2>7 DEF CodeInv, LinkIds
<1> QED BY <1>8, <1>9, <1>10, <1>11, <1>12 DEF ConnInv

LEMMA PairInvStep == PairInv /\ [PairNext]_pairVars => PairInv'
<1> SUFFICES ASSUME PairInv, [PairNext]_pairVars PROVE PairInv'
  OBVIOUS
<1>0. ConnInv /\ StoreInv
  BY DEF PairInv
<1>1. ASSUME UNCHANGED <<pairedTo, waiting, serving, links, machine, minted, starts, used, again, missed, unheard>>
      PROVE  ConnInv'
  <2>1. PairShapes' /\ LinkInv'
    BY <1>0, <1>1 DEF ConnInv, PairShapes, LinkInv, LinkIds
  <2>2. ServeInv' /\ WordInv'
    BY <1>0, <1>1 DEF ConnInv, ServeInv, WordInv
  <2>3. CodeInv'
    BY <1>0, <1>1 DEF ConnInv, CodeInv, LinkIds
  <2> QED BY <2>1, <2>2, <2>3 DEF ConnInv
<1>2. ASSUME UNCHANGED <<enc, stores, machine>> \/ (enc' = enc /\ stores' = stores /\ machine'.team = machine.team /\ machine'.up = machine.up)
      PROVE  StoreInv'
  BY <1>0, <1>2 DEF StoreInv
<1>3. CASE UNCHANGED pairVars
  BY <1>1, <1>2, <1>3 DEF PairInv, pairVars
<1>4. CASE StartProceeds \/ StartDiscarded \/ RetirementEnds \/ \E ok \in BOOLEAN : StartReady(ok)
  <2>1. UNCHANGED <<pairedTo, waiting, serving, links, machine, minted, starts, used, again, missed, unheard>>
    BY <1>4 DEF StartProceeds, StartDiscarded, RetirementEnds, StartReady
  <2> QED BY <1>0, <1>1, <1>4, <2>1, StoreStepsInv DEF PairInv
<1>5. CASE HostStops \/ HostStarts
  BY <1>0, <1>5, HostStopsInv, HostStartsInv, StoreMovesInv DEF PairInv
<1>6. CASE RuntimeUnpaired \/ HubRestarts
  <2>1. UNCHANGED <<enc, stores, machine>>
    BY <1>6 DEF RuntimeUnpaired, HubRestarts
  <2> QED BY <1>0, <1>2, <1>6, <2>1, RuntimeUnpairedInv, HubRestartsInv DEF PairInv
<1>7. ASSUME NEW l \in LinkIds, HostDials(l) \/ LinkBreaks(l) \/ HostSeesEnd(l) \/ HubSeesEnd(l) \/ HostGreeted(l)
      PROVE  PairInv'
  <2>1. enc' = enc /\ stores' = stores /\ machine'.team = machine.team /\ machine'.up = machine.up
    <3>1. machine \in Machines
      BY <1>0, ConnNow
    <3> QED BY <1>7, <3>1 DEF HostDials, LinkBreaks, HostSeesEnd, HubSeesEnd, HostGreeted, Machines
  <2>2. ConnInv'
    BY <1>0, <1>7, HostDialsInv, LinkBreaksInv, HostSeesEndInv, HubSeesEndInv, HostGreetedInv
  <2> QED BY <1>2, <2>1, <2>2 DEF PairInv
<1>8. ASSUME NEW l \in LinkIds, WelcomeHeard(l) \/ PairedHeard(l) \/ UnpairedHeard(l)
      PROVE  PairInv'
  BY <1>0, <1>8, WelcomeHeardInv, PairedHeardInv, UnpairedHeardInv, StoreMovesInv DEF PairInv
<1>9. ASSUME NEW w \in waiting, PairingRefused(w) \/ \E t \in PairTeams : RuntimePaired(t, w)
      PROVE  PairInv'
  <2>1. UNCHANGED <<enc, stores, machine>>
    BY <1>9 DEF RuntimePaired, PairingRefused
  <2> QED BY <1>0, <1>2, <1>9, <2>1, RuntimePairedInv, PairingRefusedInv DEF PairInv
<1>10. CASE PairNext
  BY <1>4, <1>5, <1>6, <1>7, <1>8, <1>9, <1>10 DEF PairNext
<1> QED BY <1>3, <1>10

LEMMA PairInvImplies == PairInv => PairTypeOK /\ HostFollowsPairing /\ OneStoreOpen
<1> SUFFICES ASSUME PairInv PROVE PairTypeOK /\ HostFollowsPairing /\ OneStoreOpen
  OBVIOUS
<1>0. ConnInv /\ StoreInv
  BY DEF PairInv
<1>1. PairTypeOK
  <2>1. /\ machine.link \in 0 .. MaxLinks /\ machine.team \in PairTeams \cup {NoTeam} /\ machine.code \in Nat
    BY <1>0, ConnNow, MachineIs
  <2> QED BY <1>0, <2>1 DEF ConnInv, PairShapes, PairTypeOK
<1>2. HostFollowsPairing
  <2>1. serving # 0 => pairedTo # NoTeam /\ links[serving].team = pairedTo /\ \A w \in waiting : w.link # serving
    BY <1>0 DEF ConnInv, ServeInv
  <2>2. ASSUME machine.link # 0, links[machine.link].inbox = <<>>, ~missed
        PROVE  machine.team = pairedTo
    <3>1. machine.up => machine.team = machine.disk
      BY <1>0 DEF ConnInv, LinkInv
    <3>2. machine.up
      BY <1>0, <2>2 DEF ConnInv, LinkInv
    <3>3. machine.disk = pairedTo
      BY <1>0, <2>2, ConnNow DEF ConnInv, WordInv
    <3> QED BY <3>1, <3>2, <3>3
  <2>3. again # {} => unheard \/ machine.given
    BY <1>0 DEF ConnInv, CodeInv
  <2> QED BY <2>1, <2>2, <2>3 DEF HostFollowsPairing
<1>3. OneStoreOpen
  <2>1. stores \subseteq {enc.opened} /\ (enc.host # 0 => enc.host \in stores /\ machine.team = Authority)
    BY <1>0 DEF StoreInv, Guarded
  <2>2. stores = {} \/ stores = {enc.opened}
    BY <2>1
  <2>3. Cardinality(stores) <= 1
    <3>1. Cardinality({}) = 0 /\ Cardinality({enc.opened}) = 1
      BY FS_EmptySet, FS_Singleton
    <3> QED BY <2>2, <3>1
  <2> QED BY <2>1, <2>3 DEF OneStoreOpen
<1> QED BY <1>1, <1>2, <1>3

-----------------------------------------------------------------------------
(* ClientMailbox: what is made sure of a message, and where it may be.     *)

Mails == 1 .. Len(mail)
MailKinds == {"history", "receipt", "broken"}
MailSteps == {"idle", "reading", "draining", "drained", "listing", "opening", "saving", "applying", "importing"}
MailShapes ==
  /\ mail \in Seq([kind : MailKinds, epoch : 0 .. MaxMoves]) /\ Len(mail) <= MaxMail
  /\ ledger = [epoch |-> ledger.epoch, deleted |-> ledger.deleted] /\ ledger.epoch \in 0 .. MaxMoves
  /\ disk = [sealed |-> disk.sealed, journal |-> disk.journal, refused |-> disk.refused, admitted |-> disk.admitted]
  /\ work = [pc |-> work.pc, epoch |-> work.epoch, fresh |-> work.fresh, todo |-> work.todo, entries |-> work.entries,
             left |-> work.left, refused |-> work.refused, pinned |-> work.pinned, shown |-> work.shown]
  /\ work.pc \in MailSteps /\ work.epoch \in 0 .. MaxMoves /\ trouble \in 0 .. MaxTrouble
  /\ box \subseteq Mails /\ opened \subseteq Mails /\ excused \subseteq Mails
  /\ disk.sealed \subseteq Mails /\ disk.journal \subseteq Mails /\ disk.refused \subseteq Mails /\ disk.admitted \subseteq Mails
  /\ work.fresh \subseteq Mails /\ work.todo \subseteq Mails /\ work.entries \subseteq Mails
  /\ work.left \subseteq Mails /\ work.refused \subseteq Mails
  /\ held = NoJournal \/ held \subseteq Mails
  /\ effect \subseteq Mails \X (0 .. MaxMoves)

(* The journal that counts, and what is kept of an envelope.               *)
Journal == IF held = NoJournal THEN disk.journal ELSE held
Effective(n) == \E e \in 0 .. MaxMoves : <<n, e>> \in effect
SafeMail ==
  \A n \in Mails : mail[n].kind # "broken" =>
    n \in box \cup work.fresh \cup (disk.sealed \ opened) \cup excused \cup Journal \/ Effective(n)
TrueMail ==
  /\ \A x \in effect : mail[x[1]].epoch = x[2] /\ mail[x[1]].kind # "broken"
  /\ \A n \in disk.admitted : mail[n].kind = "history"
  /\ \A n \in disk.journal \cup work.entries : mail[n].kind # "broken"
  /\ held # NoJournal => \A n \in held : mail[n].kind # "broken"
  /\ disk.refused \subseteq opened /\ work.refused \subseteq opened

(* How far the delivery under way has come.                                *)
WorkInv ==
  /\ work.pc # "drained" => work.fresh = {}
  /\ work.pc = "reading" => work.entries = Journal
  /\ work.pc \in {"reading", "draining", "drained"} => work.left = {}
  /\ work.pc \in {"draining", "drained", "listing", "opening", "applying", "importing"} =>
       held = NoJournal /\ work.entries = disk.journal
  /\ work.pc = "saving" => held = work.entries /\ disk.journal \subseteq held
  /\ work.pc = "listing" => work.todo = disk.sealed /\ work.left = {}
  /\ work.pc \in {"opening", "saving"} => disk.sealed \subseteq opened \cup work.todo \cup work.left \cup work.entries
  /\ work.pc \in {"applying", "importing"} =>
       /\ \A n \in work.entries : n \in work.todo \cup work.left \cup excused \/ Effective(n)
       /\ work.todo \subseteq work.entries /\ work.left \subseteq work.entries
  /\ work.pc = "importing" => work.todo # {} /\ mail[First(work.todo)].kind = "history"
                              /\ mail[First(work.todo)].epoch = work.epoch

(* Nothing is opened before it is handed out and written down.             *)
FreshMail ==
  /\ box \cap (opened \cup disk.sealed \cup work.fresh) = {}
  /\ work.fresh \cap (opened \cup disk.sealed) = {}
  /\ work.pc \in {"opening", "saving"} => work.todo \subseteq disk.sealed /\ work.left \subseteq disk.sealed

MailInv == MailShapes /\ SafeMail /\ TrueMail /\ WorkInv /\ FreshMail

LEMMA MailConstants == MaxMail \in Nat /\ MaxMoves \in Nat /\ MaxTrouble \in Nat
  BY MailboxAssumption

LEMMA MailNow ==
  ASSUME MailShapes
  PROVE  /\ Mails \subseteq Nat /\ 0 \notin Mails /\ Len(mail) \in Nat /\ 0 \in NoJournal
         /\ \A n \in Mails : mail[n].kind \in MailKinds /\ mail[n].epoch \in 0 .. MaxMoves
         /\ \A S \in SUBSET Mails : S # NoJournal
         /\ Idle0 = [pc |-> "idle", epoch |-> 0, fresh |-> {}, todo |-> {}, entries |-> {}, left |-> {}, refused |-> {},
                     pinned |-> FALSE, shown |-> FALSE]
         /\ 0 \in 0 .. MaxMoves
<1>1. Len(mail) \in Nat /\ \A n \in 1 .. Len(mail) : mail[n] \in [kind : MailKinds, epoch : 0 .. MaxMoves]
  <2>1. mail \in Seq([kind : MailKinds, epoch : 0 .. MaxMoves])
    BY DEF MailShapes
  <2> HIDE DEF MailShapes
  <2>2. PICK K : K = [kind : MailKinds, epoch : 0 .. MaxMoves]
    OBVIOUS
  <2>3. mail \in Seq(K)
    BY <2>1, <2>2
  <2>4. Len(mail) \in Nat /\ \A n \in 1 .. Len(mail) : mail[n] \in K
    BY <2>3, LenProperties, ElementOfSeq
  <2> QED BY <2>2, <2>4
<1>2. 0 \notin Mails /\ Mails \subseteq Nat /\ 0 \in NoJournal
  BY <1>1 DEF Mails, NoJournal
<1>3. \A n \in Mails : mail[n].kind \in MailKinds /\ mail[n].epoch \in 0 .. MaxMoves
  BY <1>1 DEF Mails
<1> QED BY <1>1, <1>2, <1>3, MailConstants DEF Idle0

(* The oldest of some envelopes is one of them.                            *)
LEMMA FirstIs ==
  ASSUME NEW S, S \subseteq Nat, S # {}
  PROVE  First(S) \in S
<1>1. PICK m \in S : \A k \in S : m <= k
  BY Least
<1> QED BY <1>1 DEF First

LEMMA MailInvInit == MailboxInit => MailInv
<1> SUFFICES ASSUME MailboxInit PROVE MailInv
  OBVIOUS
<1> USE MailConstants DEF MailboxInit
<1>1. mail = <<>> /\ mail \in Seq([kind : MailKinds, epoch : 0 .. MaxMoves]) /\ Len(mail) = 0
  OBVIOUS
<1>2. MailShapes
  BY <1>1 DEF MailShapes, Idle0, MailSteps
<1>3. SafeMail
  BY <1>1 DEF SafeMail, Mails
<1>4. TrueMail
  BY DEF TrueMail, Idle0
<1>5. WorkInv
  BY DEF WorkInv, Idle0
<1>6. FreshMail
  BY DEF FreshMail, Idle0
<1> QED BY <1>2, <1>3, <1>4, <1>5, <1>6 DEF MailInv

(* One envelope more, at the hub.                                          *)
LEMMA DeliveredInv ==
  ASSUME MailInv, Len(mail) < MaxMail, NEW kind \in MailKinds, Delivered(kind, ledger.epoch),
         UNCHANGED <<ledger, disk, held, work, opened, trouble, effect, excused>>
  PROVE  MailInv'
<1> USE MailConstants
<1> DEFINE n == Len(mail) + 1
           w == [kind |-> kind, epoch |-> ledger.epoch]
<1>1. MailShapes /\ SafeMail /\ TrueMail /\ WorkInv /\ FreshMail
  BY DEF MailInv
<1>2. mail \in Seq([kind : MailKinds, epoch : 0 .. MaxMoves]) /\ Len(mail) \in Nat /\ w \in [kind : MailKinds, epoch : 0 .. MaxMoves]
  BY <1>1 DEF MailShapes
<1> HIDE DEF w
<1>3. mail' = Append(mail, w) /\ box' = box \cup {n}
  BY DEF Delivered, w
<1>4. /\ mail' \in Seq([kind : MailKinds, epoch : 0 .. MaxMoves]) /\ Len(mail') = Len(mail) + 1
      /\ \A i \in 1 .. Len(mail) : mail'[i] = mail[i]
  BY <1>2, <1>3, AppendProperties
<1>5. Mails' = Mails \cup {n} /\ \A i \in Mails : mail'[i] = mail[i]
  BY <1>2, <1>4 DEF Mails
<1>6. MailShapes'
  <2>1. mail' \in Seq([kind : MailKinds, epoch : 0 .. MaxMoves]) /\ Len(mail') <= MaxMail
    BY <1>2, <1>4
  <2>2. box' \subseteq Mails'
    BY <1>1, <1>3, <1>5 DEF MailShapes
  <2> HIDE DEF n
  <2> QED BY <1>1, <1>5, <2>1, <2>2 DEF MailShapes
<1>7. SafeMail'
  <2> HIDE DEF n
  <2> QED BY <1>1, <1>3, <1>5 DEF SafeMail, Journal, Effective
<1>8. TrueMail'
  <2> HIDE DEF n
  <2>1. \A x \in effect : x[1] \in Mails
    BY <1>1 DEF MailShapes
  <2>2. disk.admitted \subseteq Mails /\ disk.journal \subseteq Mails /\ work.entries \subseteq Mails
        /\ (held # NoJournal => held \subseteq Mails)
    BY <1>1 DEF MailShapes
  <2> QED BY <1>1, <1>5, <2>1, <2>2 DEF TrueMail
<1>9. WorkInv'
  <2> HIDE DEF n
  <2>1. work.todo # {} => First(work.todo) \in Mails
    BY <1>1, FirstIs, MailNow DEF MailShapes
  <2> QED BY <1>1, <1>5, <2>1 DEF WorkInv, Journal, Effective
<1>10. FreshMail'
  <2>1. n \notin Mails
    BY <1>2 DEF Mails
  <2> HIDE DEF n
  <2>2. opened \subseteq Mails /\ disk.sealed \subseteq Mails /\ work.fresh \subseteq Mails
    BY <1>1 DEF MailShapes
  <2> QED BY <1>1, <1>3, <2>1, <2>2 DEF FreshMail
<1> QED BY <1>6, <1>7, <1>8, <1>9, <1>10 DEF MailInv

LEMMA TroubleIs ==
  ASSUME MailShapes, Trouble \/ trouble' = trouble
  PROVE  trouble' \in 0 .. MaxTrouble
  BY MailConstants DEF MailShapes, Trouble

(* Nothing of the delivery moves.                                          *)
LEMMA MailQuiet ==
  ASSUME MailInv, UNCHANGED <<mail, box, held, work, opened, effect, excused>>,
         ledger' = [epoch |-> ledger'.epoch, deleted |-> ledger'.deleted], ledger'.epoch \in 0 .. MaxMoves,
         trouble' \in 0 .. MaxTrouble,
         disk' = [sealed |-> disk.sealed, journal |-> disk.journal, refused |-> disk.refused, admitted |-> disk'.admitted],
         disk'.admitted \subseteq disk.admitted
  PROVE  MailInv'
<1>1. MailShapes /\ SafeMail /\ TrueMail /\ WorkInv /\ FreshMail
  BY DEF MailInv
<1>2. Mails' = Mails
  BY DEF Mails
<1>3. disk'.sealed = disk.sealed /\ disk'.journal = disk.journal /\ disk'.refused = disk.refused
  OBVIOUS
<1>4. MailShapes'
  BY <1>1, <1>2, <1>3 DEF MailShapes
<1>5. SafeMail'
  BY <1>1, <1>2, <1>3 DEF SafeMail, Journal, Effective
<1>6. TrueMail'
  BY <1>1, <1>3 DEF TrueMail
<1>7. WorkInv' /\ FreshMail'
  BY <1>1, <1>3 DEF WorkInv, Journal, Effective, FreshMail
<1> QED BY <1>4, <1>5, <1>6, <1>7 DEF MailInv

LEMMA DeletionIs ==
  ASSUME NEW sealed, NEW journal, NEW refused, NEW admitted, NEW d,
         d = [sealed |-> sealed, journal |-> journal, refused |-> refused, admitted |-> admitted], DeletionSeen(d)
  PROVE  /\ disk' = [sealed |-> sealed, journal |-> journal, refused |-> refused, admitted |-> disk'.admitted]
         /\ disk'.admitted \subseteq admitted
<1>1. CASE ledger.deleted
  BY <1>1 DEF DeletionSeen
<1>2. CASE ~ledger.deleted
  BY <1>2 DEF DeletionSeen
<1> QED BY <1>1, <1>2

LEMMA OthersInv ==
  ASSUME MailInv,
         \/ \E kind \in MailKinds : HostSends(kind)
         \/ HostAnswers \/ ConfirmHost \/ ConfirmAuthority \/ CatchUp \/ ThrottleEnds
         \/ \E b \in BOOLEAN : LedgerMoves(b) \/ HistoryAsked(b)
  PROVE  MailInv'
<1> USE MailConstants
<1>1. MailShapes
  BY DEF MailInv
<1>2. /\ ledger = [epoch |-> ledger.epoch, deleted |-> ledger.deleted] /\ ledger.epoch \in 0 .. MaxMoves
      /\ trouble \in 0 .. MaxTrouble
      /\ disk = [sealed |-> disk.sealed, journal |-> disk.journal, refused |-> disk.refused, admitted |-> disk.admitted]
  BY <1>1 DEF MailShapes
<1>3. ASSUME NEW kind \in MailKinds, HostSends(kind) PROVE MailInv'
  BY <1>3, DeliveredInv DEF HostSends
<1>4. CASE HostAnswers
  <2> DEFINE kind == IF asking.epoch = ledger.epoch THEN "history" ELSE "receipt"
  <2>1. kind \in MailKinds
    BY DEF MailKinds
  <2>2. Len(mail) < MaxMail /\ Delivered(kind, ledger.epoch) /\ UNCHANGED <<ledger, disk, held, work, opened, trouble, effect, excused>>
    BY <1>4 DEF HostAnswers
  <2> HIDE DEF kind
  <2> QED BY <2>1, <2>2, DeliveredInv
<1>5. CASE ConfirmHost \/ ConfirmAuthority \/ CatchUp \/ ThrottleEnds
  <2>1. UNCHANGED <<mail, box, held, work, opened, effect, excused, ledger, trouble, disk>>
    BY <1>5 DEF ConfirmHost, ConfirmAuthority, CatchUp, ThrottleEnds
  <2> QED BY <1>2, <2>1, MailQuiet
<1>6. ASSUME NEW b \in BOOLEAN, LedgerMoves(b) PROVE MailInv'
  <2>1. UNCHANGED <<mail, box, held, work, opened, effect, excused, trouble, disk>>
    BY <1>6 DEF LedgerMoves
  <2>2. ledger' = [epoch |-> ledger'.epoch, deleted |-> ledger'.deleted] /\ ledger'.epoch \in 0 .. MaxMoves
    <3>1. CASE b
      <4>1. ledger' = [epoch |-> ledger.epoch, deleted |-> TRUE]
        BY <1>2, <1>6, <3>1 DEF LedgerMoves
      <4> QED BY <1>2, <4>1
    <3>2. CASE ~b
      <4>1. ledger' = [epoch |-> ledger.epoch + 1, deleted |-> ledger.deleted] /\ ledger.epoch < MaxMoves
        BY <1>2, <1>6, <3>2 DEF LedgerMoves
      <4> QED BY <1>2, <4>1
    <3> QED BY <3>1, <3>2
  <2> QED BY <1>2, <2>1, <2>2, MailQuiet
<1>7. ASSUME NEW b \in BOOLEAN, HistoryAsked(b) PROVE MailInv'
  <2>1. UNCHANGED <<mail, box, ledger, held, work, opened, effect, excused>>
    BY <1>7 DEF HistoryAsked
  <2>2. trouble' \in 0 .. MaxTrouble
    BY <1>1, <1>7, TroubleIs DEF HistoryAsked
  <2>3. /\ disk' = [sealed |-> disk.sealed, journal |-> disk.journal, refused |-> disk.refused, admitted |-> disk'.admitted]
        /\ disk'.admitted \subseteq disk.admitted
    <3>1. CASE b
      BY <1>2, <1>7, <3>1, DeletionIs DEF HistoryAsked
    <3>2. CASE ~b
      BY <1>2, <1>7, <3>2 DEF HistoryAsked
    <3> QED BY <3>1, <3>2
  <2> QED BY <1>2, <2>1, <2>2, <2>3, MailQuiet
<1> QED BY <1>3, <1>4, <1>5, <1>6, <1>7

(* A delivery is over: what the journal held and what was handed out is in *)
(* the journal, given up or in effect.                                     *)
LEMMA IdleInv ==
  ASSUME MailInv, work' = Idle0, UNCHANGED <<mail, box, ledger, opened, effect>>, trouble' \in 0 .. MaxTrouble,
         disk' = [sealed |-> disk.sealed, journal |-> disk'.journal, refused |-> disk.refused, admitted |-> disk'.admitted],
         disk'.admitted \subseteq disk.admitted, disk'.journal \subseteq disk.journal \cup work.entries,
         held' \in {NoJournal, held} \/ held' \subseteq work.entries, excused \subseteq excused', excused' \subseteq Mails,
         \A n \in Mails : mail[n].kind # "broken" /\ n \in work.fresh \cup Journal =>
           n \in excused' \cup Journal' \/ Effective(n)
  PROVE  MailInv'
<1> USE MailConstants
<1>1. MailShapes /\ SafeMail /\ TrueMail /\ WorkInv /\ FreshMail
  BY DEF MailInv
<1>2. Mails' = Mails
  BY DEF Mails
<1>3. /\ disk'.sealed = disk.sealed /\ disk'.refused = disk.refused
      /\ work' = [pc |-> "idle", epoch |-> 0, fresh |-> {}, todo |-> {}, entries |-> {}, left |-> {}, refused |-> {},
                  pinned |-> FALSE, shown |-> FALSE]
  BY <1>1, MailNow
<1>4. work'.pc = "idle" /\ work'.fresh = {} /\ work'.todo = {} /\ work'.entries = {} /\ work'.left = {} /\ work'.refused = {}
      /\ work'.epoch = 0
  BY <1>3
<1>5. MailShapes'
  <2>1. disk'.journal \subseteq Mails /\ disk'.admitted \subseteq Mails /\ (held' = NoJournal \/ held' \subseteq Mails)
    BY <1>1 DEF MailShapes
  <2>2. work'.pc \in MailSteps /\ work'.epoch \in 0 .. MaxMoves
    BY <1>4 DEF MailSteps
  <2> QED BY <1>1, <1>2, <1>3, <1>4, <2>1, <2>2 DEF MailShapes
<1>6. SafeMail'
  <2>1. \A n \in Mails : Effective(n)' <=> Effective(n)
    BY DEF Effective
  <2> QED BY <1>1, <1>2, <1>3, <1>4, <2>1 DEF SafeMail
<1>7. TrueMail'
  BY <1>1, <1>3, <1>4 DEF TrueMail
<1>8. WorkInv' /\ FreshMail'
  BY <1>1, <1>3, <1>4 DEF WorkInv, FreshMail
<1> QED BY <1>5, <1>6, <1>7, <1>8 DEF MailInv

(* The delivery moves on.                                                  *)
LEMMA WorkMoves ==
  ASSUME MailInv, UNCHANGED <<mail, ledger>>, trouble' \in 0 .. MaxTrouble,
         NEW pc \in MailSteps, NEW epoch \in 0 .. MaxMoves, NEW fresh \in SUBSET Mails, NEW todo \in SUBSET Mails,
         NEW entries \in SUBSET Mails, NEW kept \in SUBSET Mails, NEW refused \in SUBSET Mails, NEW pinned, NEW shown,
         work' = [pc |-> pc, epoch |-> epoch, fresh |-> fresh, todo |-> todo, entries |-> entries, left |-> kept,
                  refused |-> refused, pinned |-> pinned, shown |-> shown],
         disk' = [sealed |-> disk'.sealed, journal |-> disk'.journal, refused |-> disk'.refused, admitted |-> disk'.admitted],
         disk'.sealed \subseteq Mails, disk'.journal \subseteq Mails, disk'.refused \subseteq Mails, disk'.admitted \subseteq Mails,
         box' \subseteq Mails, opened' \subseteq Mails, excused' \subseteq Mails, held' = NoJournal \/ held' \subseteq Mails,
         effect' \subseteq Mails \X (0 .. MaxMoves),
         SafeMail', TrueMail', WorkInv', FreshMail'
  PROVE  MailInv'
<1>1. MailShapes
  BY DEF MailInv
<1>2. Mails' = Mails
  BY DEF Mails
<1>3. /\ work' = [pc |-> work'.pc, epoch |-> work'.epoch, fresh |-> work'.fresh, todo |-> work'.todo, entries |-> work'.entries,
                  left |-> work'.left, refused |-> work'.refused, pinned |-> work'.pinned, shown |-> work'.shown]
      /\ work'.pc \in MailSteps /\ work'.epoch \in 0 .. MaxMoves
      /\ work'.fresh \subseteq Mails /\ work'.todo \subseteq Mails /\ work'.entries \subseteq Mails
      /\ work'.left \subseteq Mails /\ work'.refused \subseteq Mails
  OBVIOUS
<1>4. MailShapes'
  BY <1>1, <1>2, <1>3 DEF MailShapes
<1> QED BY <1>4 DEF MailInv

LEMMA ReadingInv ==
  ASSUME MailInv, DispatchBegins \/ StateWaits \/ \E b \in BOOLEAN : StateRead(b)
  PROVE  MailInv'
<1> USE MailConstants
<1>1. MailShapes /\ SafeMail /\ TrueMail /\ WorkInv /\ FreshMail
  BY DEF MailInv
<1>2. /\ disk = [sealed |-> disk.sealed, journal |-> disk.journal, refused |-> disk.refused, admitted |-> disk.admitted]
      /\ work = [pc |-> work.pc, epoch |-> work.epoch, fresh |-> work.fresh, todo |-> work.todo, entries |-> work.entries,
                 left |-> work.left, refused |-> work.refused, pinned |-> work.pinned, shown |-> work.shown]
      /\ box \subseteq Mails /\ opened \subseteq Mails /\ excused \subseteq Mails /\ trouble \in 0 .. MaxTrouble
      /\ disk.sealed \subseteq Mails /\ disk.journal \subseteq Mails /\ disk.refused \subseteq Mails /\ disk.admitted \subseteq Mails
      /\ work.entries \subseteq Mails /\ (held = NoJournal \/ held \subseteq Mails) /\ effect \subseteq Mails \X (0 .. MaxMoves)
      /\ work.fresh \subseteq Mails /\ work.todo \subseteq Mails /\ work.left \subseteq Mails /\ work.refused \subseteq Mails
      /\ ledger.epoch \in 0 .. MaxMoves
  BY <1>1 DEF MailShapes
<1>3. Mails' = Mails /\ \A n : Effective(n)' <=> Effective(n)
  BY DEF Mails, Effective, DispatchBegins, StateWaits, StateRead
<1>4. CASE DispatchBegins
  <2>1. /\ UNCHANGED <<mail, box, ledger, disk, held, opened, trouble, effect, excused>> /\ work.pc = "idle"
        /\ work' = [Idle0 EXCEPT !.pc = "reading", !.entries = Journal]
    BY <1>4 DEF DispatchBegins, Journal
  <2> DEFINE j == Journal
  <2>2. work' = [pc |-> "reading", epoch |-> 0, fresh |-> {}, todo |-> {}, entries |-> j, left |-> {}, refused |-> {},
                 pinned |-> FALSE, shown |-> FALSE]
    BY <2>1 DEF Idle0
  <2>3. j \subseteq Mails /\ Journal' = j /\ \A n \in j : mail[n].kind # "broken"
    BY <1>1, <1>2, <2>1 DEF Journal, TrueMail
  <2>4. work.fresh = {}
    BY <1>1, <2>1 DEF WorkInv
  <2>5. SafeMail'
    BY <1>1, <1>3, <2>1, <2>2, <2>3, <2>4 DEF SafeMail
  <2> HIDE DEF j
  <2>6. work'.refused = {} /\ work'.entries = j /\ work'.fresh = {} /\ work'.pc = "reading"
    BY <2>2
  <2>7. TrueMail'
    BY <1>1, <2>1, <2>3, <2>6 DEF TrueMail
  <2>8. WorkInv' /\ FreshMail'
    <3>1. work'.left = {}
      BY <2>2
    <3> QED BY <1>1, <2>1, <2>3, <2>4, <2>6, <3>1 DEF WorkInv, FreshMail
  <2>9. "reading" \in MailSteps /\ 0 \in 0 .. MaxMoves /\ {} \in SUBSET Mails /\ j \in SUBSET Mails
    BY <2>3 DEF MailSteps
  <2>10. /\ UNCHANGED <<mail, ledger>> /\ trouble' \in 0 .. MaxTrouble
         /\ disk' = [sealed |-> disk'.sealed, journal |-> disk'.journal, refused |-> disk'.refused, admitted |-> disk'.admitted]
         /\ disk'.sealed \subseteq Mails /\ disk'.journal \subseteq Mails /\ disk'.refused \subseteq Mails /\ disk'.admitted \subseteq Mails
         /\ box' \subseteq Mails /\ opened' \subseteq Mails /\ excused' \subseteq Mails /\ (held' = NoJournal \/ held' \subseteq Mails)
         /\ effect' \subseteq Mails \X (0 .. MaxMoves)
    BY <1>2, <2>1
  <2> QED BY <2>2, <2>5, <2>7, <2>8, <2>9, <2>10, WorkMoves
<1>5. CASE StateWaits
  <2>1. /\ UNCHANGED <<mail, box, ledger, disk, held, opened, effect, excused>> /\ work.pc = "reading" /\ work' = Idle0
    BY <1>5 DEF StateWaits
  <2>2. trouble' \in 0 .. MaxTrouble
    BY <1>1, <1>5, TroubleIs DEF StateWaits
  <2>3. work.fresh = {} /\ Journal' = Journal
    BY <1>1, <2>1 DEF WorkInv, Journal
  <2> QED BY <1>2, <2>1, <2>2, <2>3, IdleInv
<1>6. ASSUME NEW b \in BOOLEAN, StateRead(b) PROVE MailInv'
  <2>1. UNCHANGED <<mail, box, ledger, opened, effect, excused>> /\ work.pc = "reading"
    BY <1>6 DEF StateRead
  <2>2. trouble' \in 0 .. MaxTrouble
    BY <1>1, <1>6, TroubleIs DEF StateRead
  <2>3. work.fresh = {} /\ work.entries = Journal /\ work.entries # NoJournal
    BY <1>1, <1>2, <2>1, MailNow DEF WorkInv
  <2>4. CASE b
    <3>1. held' = work.entries /\ work' = Idle0 /\ DeletionSeen(disk)
      BY <1>6, <2>4 DEF StateRead
    <3>2. /\ disk' = [sealed |-> disk.sealed, journal |-> disk.journal, refused |-> disk.refused, admitted |-> disk'.admitted]
          /\ disk'.admitted \subseteq disk.admitted
      BY <1>2, <3>1, DeletionIs
    <3>3. disk'.journal = disk.journal
      BY <3>2
    <3>4. Journal' = Journal
      BY <2>3, <3>1 DEF Journal
    <3> QED BY <1>2, <2>1, <2>2, <2>3, <3>1, <3>2, <3>3, <3>4, IdleInv
  <2>5. CASE ~b
    <3>1. /\ held' = NoJournal /\ work' = [work EXCEPT !.pc = "draining", !.epoch = ledger.epoch]
          /\ DeletionSeen([disk EXCEPT !.journal = work.entries])
      BY <1>6, <2>5 DEF StateRead
    <3>2. PICK d : d = [disk EXCEPT !.journal = work.entries]
      OBVIOUS
    <3>3. d = [sealed |-> disk.sealed, journal |-> work.entries, refused |-> disk.refused, admitted |-> disk.admitted]
      BY <1>2, <3>2
    <3>4. /\ disk' = [sealed |-> disk.sealed, journal |-> work.entries, refused |-> disk.refused, admitted |-> disk'.admitted]
          /\ disk'.admitted \subseteq disk.admitted
      <4>1. DeletionSeen(d)
        BY <3>1, <3>2
      <4> QED BY <3>3, <4>1, DeletionIs
    <3>5. disk'.sealed = disk.sealed /\ disk'.journal = work.entries /\ disk'.refused = disk.refused
      BY <3>4
    <3>6. work' = [pc |-> "draining", epoch |-> ledger.epoch, fresh |-> work.fresh, todo |-> work.todo, entries |-> work.entries,
                   left |-> work.left, refused |-> work.refused, pinned |-> work.pinned, shown |-> work.shown]
      BY <1>2, <3>1
    <3>7. /\ work'.pc = "draining" /\ work'.fresh = work.fresh /\ work'.entries = work.entries /\ work'.refused = work.refused
          /\ work'.left = work.left
      BY <3>6
    <3>8. Journal' = Journal
      BY <2>3, <3>1, <3>5 DEF Journal
    <3>9. SafeMail'
      BY <1>1, <1>3, <2>1, <3>5, <3>7, <3>8 DEF SafeMail
    <3>10. TrueMail'
      BY <1>1, <2>1, <3>1, <3>4, <3>5, <3>7 DEF TrueMail
    <3>11. WorkInv' /\ FreshMail'
      BY <1>1, <2>1, <2>3, <3>1, <3>5, <3>7 DEF WorkInv, FreshMail
    <3>12. "draining" \in MailSteps
      BY DEF MailSteps
    <3>13. disk' = [sealed |-> disk'.sealed, journal |-> disk'.journal, refused |-> disk'.refused, admitted |-> disk'.admitted]
      BY <3>4, <3>5
    <3> QED BY <1>2, <2>1, <2>2, <3>1, <3>4, <3>5, <3>6, <3>9, <3>10, <3>11, <3>12, <3>13, WorkMoves
  <2> QED BY <2>4, <2>5
<1> QED BY <1>4, <1>5, <1>6

LEMMA DrainInv ==
  ASSUME MailInv, DrainHandled \/ DrainLost \/ DrainReturns \/ \E ok, shown \in BOOLEAN : ListReturns(ok, shown)
  PROVE  MailInv'
<1> USE MailConstants
<1>1. MailShapes /\ SafeMail /\ TrueMail /\ WorkInv /\ FreshMail
  BY DEF MailInv
<1>2. /\ disk = [sealed |-> disk.sealed, journal |-> disk.journal, refused |-> disk.refused, admitted |-> disk.admitted]
      /\ work = [pc |-> work.pc, epoch |-> work.epoch, fresh |-> work.fresh, todo |-> work.todo, entries |-> work.entries,
                 left |-> work.left, refused |-> work.refused, pinned |-> work.pinned, shown |-> work.shown]
      /\ box \subseteq Mails /\ opened \subseteq Mails /\ excused \subseteq Mails /\ trouble \in 0 .. MaxTrouble
      /\ disk.sealed \subseteq Mails /\ disk.journal \subseteq Mails /\ disk.refused \subseteq Mails /\ disk.admitted \subseteq Mails
      /\ work.entries \subseteq Mails /\ (held = NoJournal \/ held \subseteq Mails) /\ effect \subseteq Mails \X (0 .. MaxMoves)
      /\ work.fresh \subseteq Mails /\ work.todo \subseteq Mails /\ work.left \subseteq Mails /\ work.refused \subseteq Mails
      /\ work.epoch \in 0 .. MaxMoves
  BY <1>1 DEF MailShapes
<1>3. Mails' = Mails /\ \A n : Effective(n)' <=> Effective(n)
  BY DEF Mails, Effective, DrainHandled, DrainLost, DrainReturns, ListReturns
<1>4. CASE DrainHandled
  <2>1. /\ UNCHANGED <<mail, ledger, disk, held, opened, trouble, effect, excused>> /\ work.pc = "draining" /\ box' = {}
        /\ work' = [pc |-> "drained", epoch |-> work.epoch, fresh |-> box, todo |-> work.todo, entries |-> work.entries,
                    left |-> work.left, refused |-> work.refused, pinned |-> work.pinned, shown |-> work.shown]
    BY <1>2, <1>4 DEF DrainHandled
  <2>2. /\ work'.pc = "drained" /\ work'.fresh = box /\ work'.entries = work.entries /\ work'.refused = work.refused
        /\ work'.left = work.left
    BY <2>1
  <2>3. work.fresh = {} /\ held = NoJournal /\ work.entries = disk.journal
    BY <1>1, <2>1 DEF WorkInv
  <2>4. SafeMail'
    BY <1>1, <1>3, <2>1, <2>2, <2>3 DEF SafeMail, Journal
  <2>5. TrueMail'
    BY <1>1, <2>1, <2>2 DEF TrueMail
  <2>6. WorkInv' /\ FreshMail'
    BY <1>1, <2>1, <2>2, <2>3 DEF WorkInv, FreshMail
  <2>7. "drained" \in MailSteps /\ {} \subseteq Mails
    BY DEF MailSteps
  <2> QED BY <1>2, <2>1, <2>4, <2>5, <2>6, <2>7, WorkMoves
<1>5. CASE DrainLost
  <2>1. /\ UNCHANGED <<mail, box, ledger, disk, held, opened, effect>> /\ work.pc = "drained" /\ work' = Idle0
        /\ excused' = excused \cup {n \in work.fresh : mail[n].kind # "broken"}
    BY <1>5 DEF DrainLost, Forgiven
  <2>2. trouble' \in 0 .. MaxTrouble
    BY <1>1, <1>5, TroubleIs DEF DrainLost
  <2>3. Journal' = Journal
    BY <2>1 DEF Journal
  <2>4. excused' \subseteq Mails
    BY <1>2, <2>1
  <2> QED BY <1>2, <2>1, <2>2, <2>3, <2>4, IdleInv
<1>6. CASE DrainReturns
  <2>1. /\ UNCHANGED <<mail, box, ledger, held, opened, trouble, effect, excused>> /\ work.pc = "drained"
        /\ disk' = [sealed |-> disk.sealed \cup work.fresh, journal |-> disk.journal, refused |-> disk.refused, admitted |-> disk.admitted]
        /\ work' = [pc |-> "listing", epoch |-> work.epoch, fresh |-> {}, todo |-> disk.sealed \cup work.fresh,
                    entries |-> work.entries, left |-> {}, refused |-> work.refused, pinned |-> work.pinned, shown |-> work.shown]
    <3>1. work.left = {}
      BY <1>1, <1>6 DEF DrainReturns, WorkInv
    <3> QED BY <1>2, <1>6, <3>1 DEF DrainReturns
  <2>2. PICK t : t = disk.sealed \cup work.fresh
    OBVIOUS
  <2>3. /\ disk' = [sealed |-> t, journal |-> disk.journal, refused |-> disk.refused, admitted |-> disk.admitted]
        /\ work' = [pc |-> "listing", epoch |-> work.epoch, fresh |-> {}, todo |-> t,
                    entries |-> work.entries, left |-> {}, refused |-> work.refused, pinned |-> work.pinned, shown |-> work.shown]
    BY <2>1, <2>2
  <2>4. /\ disk'.sealed = t /\ disk'.journal = disk.journal /\ disk'.refused = disk.refused /\ disk'.admitted = disk.admitted
        /\ work'.pc = "listing" /\ work'.fresh = {} /\ work'.todo = t /\ work'.entries = work.entries /\ work'.left = {}
        /\ work'.refused = work.refused
    BY <2>3
  <2>5. held = NoJournal /\ work.entries = disk.journal
    BY <1>1, <2>1 DEF WorkInv
  <2>6. SafeMail'
    <3>1. \A n \in Mails : mail[n].kind # "broken" =>
            n \in box \cup work.fresh \cup (disk.sealed \ opened) \cup excused \cup disk.journal \/ Effective(n)
      BY <1>1, <2>5 DEF SafeMail, Journal
    <3>2. \A n \in Mails : n \in work.fresh => n \notin opened
      BY <1>1 DEF FreshMail
    <3> QED BY <1>3, <2>1, <2>2, <2>4, <2>5, <3>1, <3>2 DEF SafeMail, Journal
  <2>7. TrueMail'
    BY <1>1, <2>1, <2>4 DEF TrueMail
  <2>8. WorkInv' /\ FreshMail'
    BY <1>1, <2>1, <2>2, <2>4, <2>5 DEF WorkInv, FreshMail
  <2>9. "listing" \in MailSteps /\ {} \in SUBSET Mails /\ t \in SUBSET Mails
    BY <1>2, <2>2 DEF MailSteps
  <2> QED BY <1>2, <2>1, <2>3, <2>4, <2>6, <2>7, <2>8, <2>9, WorkMoves
<1>7. ASSUME NEW ok \in BOOLEAN, NEW shown \in BOOLEAN, ListReturns(ok, shown) PROVE MailInv'
  <2>1. UNCHANGED <<mail, box, ledger, disk, held, opened, effect, excused>> /\ work.pc = "listing"
    BY <1>7 DEF ListReturns
  <2>2. trouble' \in 0 .. MaxTrouble
    BY <1>1, <1>7, TroubleIs DEF ListReturns
  <2>3. /\ work.fresh = {} /\ Journal' = Journal /\ held = NoJournal /\ work.entries = disk.journal
        /\ work.todo = disk.sealed /\ work.left = {}
    BY <1>1, <2>1 DEF WorkInv, Journal
  <2>4. CASE ok
    <3> DEFINE sh == shown /\ ~known.deleted
    <3>1. work' = [pc |-> "opening", epoch |-> work.epoch, fresh |-> work.fresh, todo |-> work.todo, entries |-> work.entries,
                   left |-> work.left, refused |-> disk.refused, pinned |-> known.host, shown |-> sh]
      BY <1>2, <1>7, <2>4 DEF ListReturns
    <3> HIDE DEF sh
    <3>2. /\ work'.pc = "opening" /\ work'.fresh = work.fresh /\ work'.todo = work.todo /\ work'.entries = work.entries
          /\ work'.left = work.left /\ work'.refused = disk.refused
      BY <3>1
    <3>3. SafeMail'
      BY <1>1, <1>3, <2>1, <2>3, <3>2 DEF SafeMail
    <3>4. TrueMail'
      BY <1>1, <2>1, <3>2 DEF TrueMail
    <3>5. WorkInv' /\ FreshMail'
      BY <1>1, <2>1, <2>3, <3>2 DEF WorkInv, FreshMail
    <3>6. "opening" \in MailSteps
      BY DEF MailSteps
    <3> QED BY <1>2, <2>1, <2>2, <3>1, <3>3, <3>4, <3>5, <3>6, WorkMoves
  <2>5. CASE ~ok
    <3>1. work' = Idle0
      BY <1>7, <2>5 DEF ListReturns
    <3> QED BY <1>2, <2>1, <2>2, <2>3, <3>1, IdleInv
  <2> QED BY <2>4, <2>5
<1> QED BY <1>4, <1>5, <1>6, <1>7

(* What an envelope of a delivery is, while the delivery opens them.       *)
LEMMA OpeningNow ==
  ASSUME MailInv
  PROVE  /\ MailShapes /\ SafeMail /\ TrueMail /\ WorkInv /\ FreshMail
         /\ disk = [sealed |-> disk.sealed, journal |-> disk.journal, refused |-> disk.refused, admitted |-> disk.admitted]
         /\ work = [pc |-> work.pc, epoch |-> work.epoch, fresh |-> work.fresh, todo |-> work.todo, entries |-> work.entries,
                    left |-> work.left, refused |-> work.refused, pinned |-> work.pinned, shown |-> work.shown]
         /\ box \subseteq Mails /\ opened \subseteq Mails /\ excused \subseteq Mails /\ trouble \in 0 .. MaxTrouble
         /\ disk.sealed \subseteq Mails /\ disk.journal \subseteq Mails /\ disk.refused \subseteq Mails /\ disk.admitted \subseteq Mails
         /\ work.entries \subseteq Mails /\ (held = NoJournal \/ held \subseteq Mails) /\ effect \subseteq Mails \X (0 .. MaxMoves)
         /\ work.fresh \subseteq Mails /\ work.todo \subseteq Mails /\ work.left \subseteq Mails /\ work.refused \subseteq Mails
         /\ work.epoch \in 0 .. MaxMoves
         /\ work.todo # {} => Next1 \in work.todo
<1>1. MailShapes /\ SafeMail /\ TrueMail /\ WorkInv /\ FreshMail
  BY DEF MailInv
<1>2. work.todo # {} => Next1 \in work.todo
  <2>1. work.todo \subseteq Nat
    BY <1>1, MailNow DEF MailShapes
  <2> QED BY <2>1, FirstIs DEF Next1
<1> QED BY <1>1, <1>2 DEF MailShapes

LEMMA PassedInv ==
  ASSUME MailInv, EnvelopeWaits \/ EnvelopeSkipped \/ EnvelopeThrows
  PROVE  MailInv'
<1> USE MailConstants
<1> DEFINE n == Next1
<1>1. /\ UNCHANGED <<mail, box, ledger, known, disk, held, opened, asking, effect, excused>>
      /\ work.pc = "opening" /\ work.todo # {}
  BY DEF EnvelopeWaits, EnvelopeSkipped, EnvelopeThrows, EnvelopePassed
<1>2. PICK kept : /\ kept = work.left \/ kept = work.left \cup {n}
                  /\ n \in kept \/ n \in work.refused \cup work.entries
                  /\ work' = [work EXCEPT !.todo = @ \ {n}, !.left = kept]
  <2>1. CASE EnvelopeWaits \/ EnvelopeThrows
    BY <2>1 DEF EnvelopeWaits, EnvelopeThrows, EnvelopePassed
  <2>2. CASE EnvelopeSkipped
    BY <2>2 DEF EnvelopeSkipped, EnvelopePassed, PastWork
  <2> QED BY <2>1, <2>2
<1>3. n \in work.todo
  BY <1>1, OpeningNow
<1>4. trouble' \in 0 .. MaxTrouble
  BY OpeningNow, TroubleIs DEF EnvelopeWaits, EnvelopeSkipped, EnvelopeThrows, EnvelopePassed
<1> HIDE DEF n
<1> DEFINE t == work.todo \ {n}
<1>5. work' = [pc |-> work.pc, epoch |-> work.epoch, fresh |-> work.fresh, todo |-> t, entries |-> work.entries,
               left |-> kept, refused |-> work.refused, pinned |-> work.pinned, shown |-> work.shown]
  BY <1>2, OpeningNow
<1>6. t \in SUBSET Mails /\ kept \in SUBSET Mails
  BY <1>2, <1>3, OpeningNow
<1>7. /\ work'.pc = "opening" /\ work'.fresh = work.fresh /\ work'.todo = t /\ work'.entries = work.entries
      /\ work'.left = kept /\ work'.refused = work.refused
  <2> HIDE DEF t
  <2> QED BY <1>1, <1>5
<1>8. /\ held = NoJournal /\ work.entries = disk.journal /\ work.fresh = {}
      /\ disk.sealed \subseteq opened \cup work.todo \cup work.left \cup work.entries
      /\ work.todo \subseteq disk.sealed /\ work.left \subseteq disk.sealed
  BY <1>1, OpeningNow DEF WorkInv, FreshMail
<1>9. SafeMail'
  <2>1. Mails' = Mails /\ Journal' = Journal /\ \A k : Effective(k)' <=> Effective(k)
    BY <1>1 DEF Mails, Journal, Effective
  <2> QED BY <1>1, <1>7, <2>1, OpeningNow DEF SafeMail
<1>10. TrueMail'
  BY <1>1, <1>7, OpeningNow DEF TrueMail
<1>11. disk.sealed \subseteq opened \cup t \cup kept \cup work.entries
  <2>1. n \in kept \/ n \in opened \cup work.entries
    BY <1>2, OpeningNow DEF TrueMail
  <2> QED BY <1>2, <1>8, <2>1
<1>12. t \subseteq disk.sealed /\ kept \subseteq disk.sealed
  BY <1>2, <1>3, <1>8
<1> HIDE DEF t
<1>13. WorkInv' /\ FreshMail'
  BY <1>1, <1>7, <1>8, <1>11, <1>12, OpeningNow DEF WorkInv, FreshMail
<1>14. "opening" \in MailSteps /\ work.fresh \in SUBSET Mails /\ work.entries \in SUBSET Mails /\ work.refused \in SUBSET Mails
  BY OpeningNow DEF MailSteps
<1> QED BY <1>1, <1>4, <1>5, <1>6, <1>9, <1>10, <1>13, <1>14, OpeningNow, WorkMoves

LEMMA EnvelopeOpensInv ==
  ASSUME MailInv, EnvelopeOpens
  PROVE  MailInv'
<1> USE MailConstants
<1> DEFINE n == Next1
           t == work.todo \ {n}
<1>1. /\ UNCHANGED <<mail, box, ledger, known, disk, asking, trouble, effect>>
      /\ work.pc = "opening" /\ work.todo # {} /\ ~PastWork(n) /\ opened' = opened \cup {n}
  BY DEF EnvelopeOpens
<1>2. n \in work.todo /\ n \in Mails
  BY <1>1, OpeningNow
<1>3. /\ held = NoJournal /\ work.entries = disk.journal /\ work.fresh = {}
      /\ disk.sealed \subseteq opened \cup work.todo \cup work.left \cup work.entries
      /\ work.todo \subseteq disk.sealed /\ work.left \subseteq disk.sealed
  BY <1>1, OpeningNow DEF WorkInv, FreshMail
<1>4. /\ Unreadable(n) => work' = [[work EXCEPT !.todo = @ \ {n}] EXCEPT !.refused = @ \cup {n}] /\ UNCHANGED <<held, excused>>
      /\ ~Unreadable(n) /\ (DeletedTask \/ ~OfEpoch(n)) => work' = [work EXCEPT !.todo = @ \ {n}] /\ Forgiven({n}) /\ UNCHANGED held
      /\ ~Unreadable(n) /\ ~(DeletedTask \/ ~OfEpoch(n)) =>
           /\ work' = [[work EXCEPT !.todo = @ \ {n}] EXCEPT !.pc = "saving", !.entries = @ \cup {n}]
           /\ held' = work.entries \cup {n} /\ UNCHANGED excused
  BY DEF EnvelopeOpens
<1> HIDE DEF n
<1>5. Mails' = Mails /\ \A k : Effective(k)' <=> Effective(k)
  BY <1>1 DEF Mails, Effective
<1>6. /\ t \in SUBSET Mails /\ opened' \subseteq Mails /\ "opening" \in MailSteps /\ "saving" \in MailSteps
      /\ work.entries \cup {n} \in SUBSET Mails /\ work.refused \cup {n} \in SUBSET Mails
      /\ work.entries \in SUBSET Mails /\ work.refused \in SUBSET Mails /\ work.left \in SUBSET Mails
      /\ work.fresh \in SUBSET Mails
  BY <1>1, <1>2, OpeningNow DEF MailSteps
<1>7. n \notin box /\ n \in disk.sealed
  BY <1>2, <1>3, OpeningNow DEF FreshMail
<1>8. t \subseteq disk.sealed /\ disk.sealed \subseteq opened' \cup t \cup work.left \cup work.entries
  BY <1>1, <1>3
<1>9. CASE Unreadable(n)
  <2>1. UNCHANGED <<held, excused>>
    BY <1>4, <1>9
  <2> DEFINE r == work.refused \cup {n}
  <2>2. work' = [pc |-> work.pc, epoch |-> work.epoch, fresh |-> work.fresh, todo |-> t, entries |-> work.entries,
                 left |-> work.left, refused |-> r, pinned |-> work.pinned, shown |-> work.shown]
    BY <1>4, <1>9, OpeningNow
  <2>3. r \subseteq opened' /\ r \in SUBSET Mails
    BY <1>1, <1>6, OpeningNow DEF TrueMail
  <2> HIDE DEF t, r
  <2>4. /\ work'.pc = "opening" /\ work'.fresh = work.fresh /\ work'.todo = t /\ work'.entries = work.entries
        /\ work'.left = work.left /\ work'.refused = r
    BY <1>1, <2>2
  <2>5. SafeMail'
    <3>1. Journal' = Journal
      BY <1>1, <2>1 DEF Journal
    <3>2. n \in opened \/ mail[n].kind = "broken"
      BY <1>9 DEF Unreadable
    <3> QED BY <1>1, <1>5, <2>1, <2>4, <3>1, <3>2, OpeningNow DEF SafeMail
  <2>6. TrueMail'
    BY <1>1, <2>1, <2>3, <2>4, OpeningNow DEF TrueMail
  <2>7. WorkInv' /\ FreshMail'
    BY <1>1, <1>3, <1>7, <1>8, <2>1, <2>4, OpeningNow DEF WorkInv, FreshMail
  <2> QED BY <1>1, <1>6, <2>1, <2>2, <2>3, <2>5, <2>6, <2>7, OpeningNow, WorkMoves
<1>10. CASE ~Unreadable(n) /\ (DeletedTask \/ ~OfEpoch(n))
  <2>1. UNCHANGED held /\ excused' = excused \cup {k \in {n} : mail[k].kind # "broken"}
    BY <1>4, <1>10 DEF Forgiven
  <2>2. work' = [pc |-> work.pc, epoch |-> work.epoch, fresh |-> work.fresh, todo |-> t, entries |-> work.entries,
                 left |-> work.left, refused |-> work.refused, pinned |-> work.pinned, shown |-> work.shown]
    BY <1>4, <1>10, OpeningNow
  <2> HIDE DEF t
  <2>3. /\ work'.pc = "opening" /\ work'.fresh = work.fresh /\ work'.todo = t /\ work'.entries = work.entries
        /\ work'.left = work.left /\ work'.refused = work.refused
    BY <1>1, <2>2
  <2>4. SafeMail'
    <3>1. Journal' = Journal
      BY <1>1, <2>1 DEF Journal
    <3> QED BY <1>1, <1>5, <2>1, <2>3, <3>1, OpeningNow DEF SafeMail
  <2>5. TrueMail'
    BY <1>1, <2>1, <2>3, OpeningNow DEF TrueMail
  <2>6. WorkInv' /\ FreshMail'
    BY <1>1, <1>3, <1>7, <1>8, <2>1, <2>3, OpeningNow DEF WorkInv, FreshMail
  <2>7. excused' \subseteq Mails
    BY <1>2, <2>1, OpeningNow
  <2> QED BY <1>1, <1>6, <2>1, <2>2, <2>4, <2>5, <2>6, <2>7, OpeningNow, WorkMoves
<1>11. CASE ~Unreadable(n) /\ ~(DeletedTask \/ ~OfEpoch(n))
  <2> DEFINE j == work.entries \cup {n}
  <2>1. UNCHANGED excused /\ held' = j
    BY <1>4, <1>11
  <2>2. work' = [pc |-> "saving", epoch |-> work.epoch, fresh |-> work.fresh, todo |-> t, entries |-> j,
                 left |-> work.left, refused |-> work.refused, pinned |-> work.pinned, shown |-> work.shown]
    BY <1>4, <1>11, OpeningNow
  <2>3. j \in SUBSET Mails /\ disk.journal \subseteq j /\ n \in j /\ j # NoJournal /\ work.entries \subseteq j
        /\ (\A k \in j : mail[k].kind # "broken")
    <3>1. j \in SUBSET Mails
      BY <1>6
    <3>2. \A k \in j : mail[k].kind # "broken"
      BY <1>11, OpeningNow DEF Unreadable, TrueMail
    <3> QED BY <1>3, <3>1, <3>2, OpeningNow, MailNow
  <2> HIDE DEF t, j
  <2>4. /\ work'.pc = "saving" /\ work'.fresh = work.fresh /\ work'.todo = t /\ work'.entries = j
        /\ work'.left = work.left /\ work'.refused = work.refused
    BY <2>2
  <2>5. SafeMail'
    <3>1. Journal' = j /\ Journal = disk.journal
      BY <1>1, <1>3, <2>1, <2>3 DEF Journal
    <3> QED BY <1>1, <1>5, <2>1, <2>3, <2>4, <3>1, OpeningNow DEF SafeMail
  <2>6. TrueMail'
    BY <1>1, <2>1, <2>3, <2>4, OpeningNow DEF TrueMail
  <2>7. WorkInv' /\ FreshMail'
    BY <1>1, <1>3, <1>7, <1>8, <2>1, <2>3, <2>4, OpeningNow DEF WorkInv, FreshMail
  <2> QED BY <1>1, <1>6, <2>1, <2>2, <2>3, <2>5, <2>6, <2>7, OpeningNow, WorkMoves
<1> QED BY <1>9, <1>10, <1>11

LEMMA SavedInv ==
  ASSUME MailInv, NEW b \in BOOLEAN, EntrySaved(b) \/ OpeningEnds(b)
  PROVE  MailInv'
<1> USE MailConstants
<1>1. UNCHANGED <<mail, box, ledger, opened, effect, excused>>
  BY DEF EntrySaved, OpeningEnds
<1>2. trouble' \in 0 .. MaxTrouble
  BY OpeningNow, TroubleIs DEF EntrySaved, OpeningEnds
<1>3. Mails' = Mails /\ \A k : Effective(k)' <=> Effective(k)
  BY <1>1 DEF Mails, Effective
<1>4. /\ work.entries \in SUBSET Mails /\ work.refused \in SUBSET Mails /\ work.left \in SUBSET Mails
      /\ work.fresh \in SUBSET Mails /\ work.todo \in SUBSET Mails /\ {} \in SUBSET Mails
      /\ "opening" \in MailSteps /\ "applying" \in MailSteps
  BY OpeningNow DEF MailSteps
<1>5. CASE b
  <2>1. UNCHANGED <<disk, held>> /\ work' = Idle0 /\ work.pc \in {"saving", "opening"}
    BY <1>5 DEF EntrySaved, OpeningEnds
  <2>2. work.fresh = {} /\ Journal' = Journal
    BY <2>1, OpeningNow DEF WorkInv, Journal
  <2> QED BY <1>1, <1>2, <2>1, <2>2, OpeningNow, IdleInv
<1>6. CASE ~b /\ EntrySaved(b)
  <2>1. /\ work.pc = "saving" /\ held' = NoJournal
        /\ work' = [work EXCEPT !.pc = "opening"] /\ disk' = [disk EXCEPT !.journal = work.entries]
    BY <1>6 DEF EntrySaved
  <2>2. work' = [pc |-> "opening", epoch |-> work.epoch, fresh |-> work.fresh, todo |-> work.todo, entries |-> work.entries,
                 left |-> work.left, refused |-> work.refused, pinned |-> work.pinned, shown |-> work.shown]
    BY <2>1, OpeningNow
  <2>3. disk' = [sealed |-> disk.sealed, journal |-> work.entries, refused |-> disk.refused, admitted |-> disk.admitted]
    BY <2>1, OpeningNow
  <2>4. /\ work'.pc = "opening" /\ work'.fresh = work.fresh /\ work'.todo = work.todo /\ work'.entries = work.entries
        /\ work'.left = work.left /\ work'.refused = work.refused
        /\ disk'.sealed = disk.sealed /\ disk'.journal = work.entries /\ disk'.refused = disk.refused /\ disk'.admitted = disk.admitted
    BY <2>2, <2>3
  <2>5. work.fresh = {} /\ held = work.entries /\ work.entries # NoJournal
    BY <2>1, OpeningNow, MailNow DEF WorkInv
  <2>6. Journal' = Journal
    BY <2>1, <2>4, <2>5 DEF Journal
  <2>7. SafeMail'
    BY <1>1, <1>3, <2>4, <2>6, OpeningNow DEF SafeMail
  <2>8. TrueMail'
    BY <1>1, <2>1, <2>4, OpeningNow DEF TrueMail
  <2>9. WorkInv' /\ FreshMail'
    BY <1>1, <2>1, <2>4, <2>5, OpeningNow DEF WorkInv, FreshMail
  <2> QED BY <1>1, <1>2, <1>4, <2>1, <2>2, <2>3, <2>4, <2>7, <2>8, <2>9, OpeningNow, WorkMoves
<1>7. CASE ~b /\ OpeningEnds(b)
  <2>1. /\ work.pc = "opening" /\ work.todo = {} /\ UNCHANGED held
        /\ work' = [work EXCEPT !.pc = "applying", !.todo = work.entries, !.left = {}]
        /\ disk' = [disk EXCEPT !.sealed = work.left, !.refused = work.refused]
    BY <1>7 DEF OpeningEnds
  <2>2. work' = [pc |-> "applying", epoch |-> work.epoch, fresh |-> work.fresh, todo |-> work.entries, entries |-> work.entries,
                 left |-> {}, refused |-> work.refused, pinned |-> work.pinned, shown |-> work.shown]
    BY <2>1, OpeningNow
  <2>3. disk' = [sealed |-> work.left, journal |-> disk.journal, refused |-> work.refused, admitted |-> disk.admitted]
    BY <2>1, OpeningNow
  <2>4. /\ work'.pc = "applying" /\ work'.fresh = work.fresh /\ work'.todo = work.entries /\ work'.entries = work.entries
        /\ work'.left = {} /\ work'.refused = work.refused
        /\ disk'.sealed = work.left /\ disk'.journal = disk.journal /\ disk'.refused = work.refused /\ disk'.admitted = disk.admitted
    BY <2>2, <2>3
  <2>5. /\ work.fresh = {} /\ held = NoJournal /\ work.entries = disk.journal
        /\ disk.sealed \subseteq opened \cup work.left \cup work.entries /\ work.left \subseteq disk.sealed
    BY <2>1, OpeningNow DEF WorkInv, FreshMail
  <2>6. Journal' = disk.journal /\ Journal = disk.journal
    BY <2>1, <2>4, <2>5 DEF Journal
  <2>7. SafeMail'
    BY <1>1, <1>3, <2>4, <2>5, <2>6, OpeningNow DEF SafeMail
  <2>8. TrueMail'
    BY <1>1, <2>1, <2>4, OpeningNow DEF TrueMail
  <2>9. WorkInv' /\ FreshMail'
    BY <1>1, <2>1, <2>4, <2>5, OpeningNow DEF WorkInv, FreshMail
  <2> QED BY <1>1, <1>2, <1>4, <2>1, <2>2, <2>3, <2>4, <2>7, <2>8, <2>9, OpeningNow, WorkMoves
<1> QED BY <1>5, <1>6, <1>7

(* One entry of the journal is dealt with: kept, given up or in effect.    *)
LEMMA EntryDone ==
  ASSUME MailInv, NEW kept \in SUBSET Mails, kept \subseteq work.left \cup {Next1}, work.pc \in {"applying", "importing"}, work.todo # {},
         UNCHANGED <<mail, box, ledger, held, opened>>, trouble' \in 0 .. MaxTrouble,
         work' = [pc |-> "applying", epoch |-> work.epoch, fresh |-> work.fresh, todo |-> work.todo \ {Next1},
                  entries |-> work.entries, left |-> kept, refused |-> work.refused, pinned |-> work.pinned,
                  shown |-> work.shown],
         work.left \subseteq kept, excused \subseteq excused', excused' \subseteq Mails,
         effect' = effect \/ (effect' = effect \cup {<<Next1, work.epoch>>} /\ OfEpoch(Next1)),
         Next1 \in kept \cup excused' \/ <<Next1, work.epoch>> \in effect',
         disk' = [sealed |-> disk.sealed, journal |-> disk.journal, refused |-> disk.refused, admitted |-> disk'.admitted],
         disk'.admitted \subseteq disk.admitted \cup {n \in Mails : mail[n].kind = "history"},
         Next1 \in work.todo => mail[Next1].kind # "broken"
  PROVE  MailInv'
<1> USE MailConstants
<1> DEFINE n == Next1
           t == work.todo \ {n}
<1>0. t \subseteq work.entries /\ kept \subseteq work.entries
  BY OpeningNow DEF WorkInv
<1>1. n \in work.todo /\ n \in Mails /\ mail[n].kind # "broken"
  BY OpeningNow
<1>2. /\ disk'.sealed = disk.sealed /\ disk'.journal = disk.journal /\ disk'.refused = disk.refused
      /\ disk' = [sealed |-> disk'.sealed, journal |-> disk'.journal, refused |-> disk'.refused, admitted |-> disk'.admitted]
      /\ disk'.admitted \subseteq Mails
  BY OpeningNow
<1>3. OfEpoch(n) <=> mail[n].epoch = work.epoch
  BY DEF OfEpoch
<1>4. effect' = effect \/ (effect' = effect \cup {<<n, work.epoch>>} /\ mail[n].epoch = work.epoch)
  BY <1>3
<1>5. t \in SUBSET Mails
  BY OpeningNow
<1>6. work' = [pc |-> "applying", epoch |-> work.epoch, fresh |-> work.fresh, todo |-> t, entries |-> work.entries,
               left |-> kept, refused |-> work.refused, pinned |-> work.pinned, shown |-> work.shown]
  OBVIOUS
<1>7. \A k \in work.entries : k = n \/ k \in t \cup work.left \cup excused \/ Effective(k)
  BY OpeningNow DEF WorkInv
<1>8. n \in kept \cup excused' \/ <<n, work.epoch>> \in effect'
  OBVIOUS
<1> HIDE DEF t, n
<1>9. /\ work'.pc = "applying" /\ work'.fresh = work.fresh /\ work'.todo = t /\ work'.entries = work.entries
      /\ work'.left = kept /\ work'.refused = work.refused
  BY <1>6
<1>10. Mails' = Mails /\ Journal' = Journal
  BY <1>2 DEF Mails, Journal
<1>11. \A k : Effective(k) => Effective(k)'
  BY <1>4 DEF Effective
<1>12. <<n, work.epoch>> \in effect' => \A k : k = n => Effective(k)'
  <2>1. work.epoch \in 0 .. MaxMoves
    BY OpeningNow
  <2> QED BY <2>1 DEF Effective
<1>13. SafeMail'
  BY <1>2, <1>9, <1>10, <1>11, OpeningNow DEF SafeMail
<1>14. TrueMail'
  <2>1. \A x \in effect' : mail[x[1]].epoch = x[2] /\ mail[x[1]].kind # "broken"
    BY <1>1, <1>4, OpeningNow DEF TrueMail
  <2> QED BY <1>2, <1>9, <2>1, OpeningNow DEF TrueMail
<1>15. work.fresh = {} /\ held = NoJournal /\ work.entries = disk.journal
  BY OpeningNow DEF WorkInv
<1>16. \A k \in work.entries : k \in t \cup kept \cup excused' \/ Effective(k)'
  <2>1. ASSUME NEW k \in work.entries PROVE k \in t \cup kept \cup excused' \/ Effective(k)'
    <3>1. CASE k = n
      BY <1>8, <1>12, <3>1
    <3>2. CASE Effective(k)
      BY <1>11, <3>2
    <3>3. CASE k \in t \cup work.left \cup excused
      BY <3>3
    <3> QED BY <1>7, <3>1, <3>2, <3>3
  <2> QED BY <2>1
<1>17. WorkInv' /\ FreshMail'
  BY <1>0, <1>2, <1>9, <1>15, <1>16, OpeningNow DEF WorkInv, FreshMail
<1>18. effect' \subseteq Mails \X (0 .. MaxMoves)
  BY <1>1, <1>4, OpeningNow
<1>19. /\ "applying" \in MailSteps /\ work.fresh \in SUBSET Mails /\ work.entries \in SUBSET Mails /\ work.refused \in SUBSET Mails
  BY OpeningNow DEF MailSteps
<1> QED BY <1>2, <1>5, <1>6, <1>13, <1>14, <1>17, <1>18, <1>19, OpeningNow, WorkMoves

LEMMA AppliedInv ==
  ASSUME MailInv, EntryApplied \/ \E ok \in BOOLEAN : HistoryImported(ok)
  PROVE  MailInv'
<1> USE MailConstants
<1> DEFINE n == Next1
<1>1. UNCHANGED <<mail, box, ledger, held, opened>>
  BY DEF EntryApplied, HistoryImported
<1>2. work.pc = "importing" => work.todo # {} /\ mail[n].kind = "history" /\ OfEpoch(n)
  BY OpeningNow DEF WorkInv, OfEpoch, Next1
<1>3. work.pc \in {"applying", "importing"} /\ work.todo # {}
  BY <1>2 DEF EntryApplied, HistoryImported
<1>4. n \in work.todo /\ n \in Mails
  BY <1>3, OpeningNow
<1> HIDE DEF n
<1>5. CASE EntryApplied
  <2>1. UNCHANGED <<disk, trouble>> /\ work.pc = "applying"
    BY <1>5 DEF EntryApplied
  <2> DEFINE rest == [work EXCEPT !.todo = @ \ {n}]
  <2>2. \/ work' = rest /\ Forgiven({n}) /\ UNCHANGED effect
        \/ work' = [rest EXCEPT !.left = @ \cup {n}] /\ UNCHANGED <<effect, excused>>
        \/ OfEpoch(n) /\ mail[n].kind = "history" /\ work' = [work EXCEPT !.pc = "importing"] /\ UNCHANGED <<effect, excused>>
        \/ OfEpoch(n) /\ work' = rest /\ effect' = effect \cup {<<n, work.epoch>>} /\ UNCHANGED excused
    BY <1>5 DEF EntryApplied, n
  <2>3. trouble' \in 0 .. MaxTrouble
    BY <2>1, OpeningNow
  <2>4. mail[n].kind # "broken"
    <3>1. CASE n \in work.entries
      BY <3>1, OpeningNow DEF TrueMail
    <3>2. CASE n \notin work.entries
      BY <1>4, <2>1, <3>2, OpeningNow DEF WorkInv, TrueMail
    <3> QED BY <3>1, <3>2
  <2>5. /\ disk' = [sealed |-> disk.sealed, journal |-> disk.journal, refused |-> disk.refused, admitted |-> disk'.admitted]
        /\ disk'.admitted = disk.admitted
    BY <2>1, OpeningNow
  <2>6. rest = [pc |-> "applying", epoch |-> work.epoch, fresh |-> work.fresh, todo |-> work.todo \ {n},
                entries |-> work.entries, left |-> work.left, refused |-> work.refused, pinned |-> work.pinned,
                shown |-> work.shown]
    BY <2>1, OpeningNow
  <2>7. CASE work' = rest /\ Forgiven({n}) /\ UNCHANGED effect
    <3>1. excused' = excused \cup {n}
      BY <2>4, <2>7 DEF Forgiven
    <3>2. excused' \subseteq Mails /\ excused \subseteq excused' /\ n \in excused' /\ work.left \in SUBSET Mails
      BY <1>4, <3>1, OpeningNow
    <3> HIDE DEF rest
    <3> QED BY <1>1, <1>3, <2>3, <2>4, <2>5, <2>6, <2>7, <3>2, EntryDone DEF n
  <2>8. CASE work' = [rest EXCEPT !.left = @ \cup {n}] /\ UNCHANGED <<effect, excused>>
    <3> DEFINE kept == work.left \cup {n}
    <3>1. work' = [pc |-> "applying", epoch |-> work.epoch, fresh |-> work.fresh, todo |-> work.todo \ {n},
                   entries |-> work.entries, left |-> kept, refused |-> work.refused, pinned |-> work.pinned,
                   shown |-> work.shown]
      BY <2>6, <2>8
    <3>2. kept \subseteq work.left \cup {n} /\ kept \in SUBSET Mails /\ n \in kept /\ work.left \subseteq kept /\ excused \subseteq Mails
      BY <1>4, OpeningNow
    <3> HIDE DEF rest, kept
    <3> QED BY <1>1, <1>3, <2>3, <2>4, <2>5, <2>8, <3>1, <3>2, EntryDone DEF n
  <2>9. CASE OfEpoch(n) /\ work' = rest /\ effect' = effect \cup {<<n, work.epoch>>} /\ UNCHANGED excused
    <3>1. <<n, work.epoch>> \in effect' /\ excused' \subseteq Mails /\ work.left \in SUBSET Mails
      BY <2>9, OpeningNow
    <3> HIDE DEF rest
    <3> QED BY <1>1, <1>3, <2>3, <2>4, <2>5, <2>6, <2>9, <3>1, EntryDone DEF n
  <2>10. CASE OfEpoch(n) /\ mail[n].kind = "history" /\ work' = [work EXCEPT !.pc = "importing"] /\ UNCHANGED <<effect, excused>>
    <3>1. work' = [pc |-> "importing", epoch |-> work.epoch, fresh |-> work.fresh, todo |-> work.todo, entries |-> work.entries,
                   left |-> work.left, refused |-> work.refused, pinned |-> work.pinned, shown |-> work.shown]
      BY <2>10, OpeningNow
    <3>2. /\ work'.pc = "importing" /\ work'.fresh = work.fresh /\ work'.todo = work.todo /\ work'.entries = work.entries
          /\ work'.left = work.left /\ work'.refused = work.refused /\ work'.epoch = work.epoch
      BY <3>1
    <3>3. Mails' = Mails /\ Journal' = Journal /\ \A k : Effective(k)' <=> Effective(k)
      BY <1>1, <2>1, <2>10 DEF Mails, Journal, Effective
    <3>4. SafeMail'
      BY <1>1, <2>1, <2>10, <3>2, <3>3, OpeningNow DEF SafeMail
    <3>5. TrueMail'
      BY <1>1, <2>1, <2>10, <3>2, OpeningNow DEF TrueMail
    <3>6. /\ work.fresh = {} /\ held = NoJournal /\ work.entries = disk.journal
          /\ \A k \in work.entries : k \in work.todo \cup work.left \cup excused \/ Effective(k)
      BY <2>1, OpeningNow DEF WorkInv
    <3>10. work.todo \subseteq work.entries /\ work.left \subseteq work.entries
      BY <2>1, OpeningNow DEF WorkInv
    <3>7. mail[First(work.todo)].kind = "history" /\ mail[First(work.todo)].epoch = work.epoch
      BY <2>10 DEF OfEpoch, Next1, n
    <3>8. WorkInv' /\ FreshMail'
      BY <1>1, <1>3, <2>1, <2>10, <3>2, <3>3, <3>6, <3>7, <3>10, OpeningNow DEF WorkInv, FreshMail
    <3>9. /\ "importing" \in MailSteps /\ work.fresh \in SUBSET Mails /\ work.entries \in SUBSET Mails
          /\ work.refused \in SUBSET Mails /\ work.todo \in SUBSET Mails /\ work.left \in SUBSET Mails
      BY OpeningNow DEF MailSteps
    <3> HIDE DEF rest
    <3> QED BY <1>1, <2>1, <2>3, <2>10, <3>1, <3>4, <3>5, <3>8, <3>9, OpeningNow, WorkMoves
  <2> HIDE DEF rest
  <2> QED BY <2>2, <2>7, <2>8, <2>9, <2>10
<1>6. ASSUME NEW ok \in BOOLEAN, HistoryImported(ok) PROVE MailInv'
  <2>1. UNCHANGED excused /\ work.pc = "importing"
    BY <1>6 DEF HistoryImported
  <2>2. trouble' \in 0 .. MaxTrouble
    BY <1>6, OpeningNow, TroubleIs DEF HistoryImported
  <2>3. CASE ok
    <3>1. work' = [work EXCEPT !.pc = "applying", !.todo = @ \ {n}] /\ disk' = [disk EXCEPT !.admitted = @ \cup {n}]
          /\ effect' = effect \cup {<<n, work.epoch>>}
      BY <1>6, <2>3 DEF HistoryImported, n
    <3>2. work' = [pc |-> "applying", epoch |-> work.epoch, fresh |-> work.fresh, todo |-> work.todo \ {n},
                   entries |-> work.entries, left |-> work.left, refused |-> work.refused, pinned |-> work.pinned,
                   shown |-> work.shown]
      BY <3>1, OpeningNow
    <3>3. disk' = [sealed |-> disk.sealed, journal |-> disk.journal, refused |-> disk.refused, admitted |-> disk.admitted \cup {n}]
      BY <3>1, OpeningNow
    <3>4. disk'.admitted = disk.admitted \cup {n}
      BY <3>3
    <3>5. disk'.admitted \subseteq disk.admitted \cup {k \in Mails : mail[k].kind = "history"}
      BY <1>2, <1>4, <2>1, <3>4
    <3>6. <<n, work.epoch>> \in effect' /\ excused' \subseteq Mails /\ work.left \in SUBSET Mails /\ mail[n].kind # "broken" /\ OfEpoch(n)
      BY <1>2, <2>1, <3>1, OpeningNow
    <3>7. disk' = [sealed |-> disk.sealed, journal |-> disk.journal, refused |-> disk.refused, admitted |-> disk'.admitted]
      BY <3>3, <3>4
    <3> QED BY <1>1, <1>3, <2>1, <2>2, <3>1, <3>2, <3>5, <3>6, <3>7, EntryDone DEF n
  <2>4. CASE ~ok
    <3> DEFINE kept == work.left \cup {n}
    <3>1. work' = [pc |-> "applying", epoch |-> work.epoch, fresh |-> work.fresh, todo |-> work.todo \ {n},
                   entries |-> work.entries, left |-> kept, refused |-> work.refused, pinned |-> work.pinned,
                   shown |-> work.shown]
      BY <1>6, <2>4, OpeningNow DEF HistoryImported, n
    <3>2. kept \subseteq work.left \cup {n} /\ kept \in SUBSET Mails /\ n \in kept /\ work.left \subseteq kept /\ excused \subseteq Mails /\ mail[n].kind # "broken"
      BY <1>2, <1>4, <2>1, OpeningNow
    <3>3. UNCHANGED <<disk, effect>>
      BY <1>6, <2>4 DEF HistoryImported
    <3> HIDE DEF kept
    <3> QED BY <1>1, <1>3, <2>1, <2>2, <3>1, <3>2, <3>3, EntryDone, OpeningNow DEF n
  <2> QED BY <2>3, <2>4
<1> QED BY <1>5, <1>6

LEMMA EndsInv ==
  ASSUME MailInv, Reload \/ \E b \in BOOLEAN : DispatchEnds(b)
  PROVE  MailInv'
<1> USE MailConstants
<1>1. UNCHANGED <<mail, box, ledger, opened, effect>> /\ work' = Idle0
  BY DEF Reload, DispatchEnds
<1>2. trouble' \in 0 .. MaxTrouble
  BY OpeningNow, TroubleIs DEF Reload, DispatchEnds
<1>3. CASE Reload
  <2>1. /\ UNCHANGED disk /\ held' = NoJournal
        /\ excused' = excused \cup {n \in work.fresh \cup ((held \ NoJournal) \ disk.journal) : mail[n].kind # "broken"}
    BY <1>3 DEF Reload, Forgiven
  <2>2. excused \subseteq excused' /\ excused' \subseteq Mails
    BY <2>1, OpeningNow
  <2>3. Journal' = disk.journal
    BY <2>1 DEF Journal
  <2>4. ASSUME NEW n \in Mails, mail[n].kind # "broken", n \in work.fresh \cup Journal PROVE n \in excused' \cup Journal'
    BY <2>1, <2>3, <2>4, OpeningNow, MailNow DEF Journal, NoJournal
  <2> QED BY <1>1, <1>2, <2>1, <2>2, <2>4, OpeningNow, IdleInv
<1>4. ASSUME NEW b \in BOOLEAN, DispatchEnds(b) PROVE MailInv'
  <2>1. UNCHANGED excused /\ work.pc = "applying" /\ work.todo = {}
    BY <1>4 DEF DispatchEnds
  <2>2. /\ work.fresh = {} /\ held = NoJournal /\ work.entries = disk.journal
        /\ \A n \in work.entries : n \in work.left \cup excused \/ Effective(n)
        /\ work.left \subseteq work.entries
    BY <2>1, OpeningNow DEF WorkInv
  <2>3. ASSUME Journal' = work.left
        PROVE  \A n \in Mails : mail[n].kind # "broken" /\ n \in work.fresh \cup Journal => n \in excused' \cup Journal' \/ Effective(n)
    BY <2>1, <2>2, <2>3 DEF Journal
  <2>4. CASE b
    <3>1. held' = work.left /\ UNCHANGED disk
      BY <1>4, <2>4 DEF DispatchEnds
    <3>2. Journal' = work.left
      BY <3>1, OpeningNow, MailNow DEF Journal
    <3> QED BY <1>1, <1>2, <2>1, <2>2, <2>3, <3>1, <3>2, OpeningNow, IdleInv
  <2>5. CASE ~b
    <3>1. held' = NoJournal /\ disk' = [disk EXCEPT !.journal = work.left]
      BY <1>4, <2>5 DEF DispatchEnds
    <3>2. disk' = [sealed |-> disk.sealed, journal |-> work.left, refused |-> disk.refused, admitted |-> disk.admitted]
      BY <3>1, OpeningNow
    <3>3. disk'.journal = work.left /\ disk'.admitted = disk.admitted
      BY <3>2
    <3>4. Journal' = work.left
      BY <3>1, <3>3 DEF Journal
    <3> QED BY <1>1, <1>2, <2>1, <2>2, <2>3, <3>1, <3>2, <3>3, <3>4, OpeningNow, IdleInv
  <2> QED BY <2>4, <2>5
<1> QED BY <1>3, <1>4

LEMMA MailInvStep == MailInv /\ [MailboxNext]_mailVars => MailInv'
<1> SUFFICES ASSUME MailInv, [MailboxNext]_mailVars PROVE MailInv'
  OBVIOUS
<1>1. CASE \E kind \in {"history", "receipt", "broken"} : HostSends(kind)
  BY <1>1, OthersInv DEF MailKinds
<1>2. CASE ConfirmHost \/ ConfirmAuthority \/ CatchUp \/ \E ok \in BOOLEAN : HistoryAsked(ok) \/ HostAnswers \/ ThrottleEnds
  BY <1>2, OthersInv
<1>3. ASSUME NEW b \in BOOLEAN, LedgerMoves(b) \/ StateRead(b) \/ EntrySaved(b) \/ OpeningEnds(b) \/ HistoryImported(b) \/ DispatchEnds(b)
      PROVE  MailInv'
  BY <1>3, OthersInv, ReadingInv, SavedInv, AppliedInv, EndsInv
<1>4. CASE DispatchBegins \/ StateWaits
  BY <1>4, ReadingInv
<1>5. CASE DrainHandled \/ DrainLost \/ DrainReturns \/ \E ok, shown \in BOOLEAN : ListReturns(ok, shown)
  BY <1>5, DrainInv
<1>6. CASE EnvelopeWaits \/ EnvelopeSkipped \/ EnvelopeThrows \/ EnvelopeOpens \/ EntryApplied \/ Reload
  BY <1>6, PassedInv, EnvelopeOpensInv, AppliedInv, EndsInv
<1>7. CASE UNCHANGED mailVars
  <2>1. UNCHANGED <<mail, box, ledger, disk, held, work, opened, trouble, effect, excused>>
    BY <1>7 DEF mailVars
  <2>2. /\ ledger = [epoch |-> ledger.epoch, deleted |-> ledger.deleted] /\ ledger.epoch \in 0 .. MaxMoves
    BY DEF MailInv, MailShapes
  <2> QED BY <2>1, <2>2, OpeningNow, MailQuiet
<1> QED BY <1>1, <1>2, <1>3, <1>4, <1>5, <1>6, <1>7 DEF MailboxNext

LEMMA MailInvImplies == MailInv => MailboxTypeOK /\ MailIsKept
<1> SUFFICES ASSUME MailInv PROVE MailboxTypeOK /\ MailIsKept
  OBVIOUS
<1>1. MailboxTypeOK
  <2>1. Len(mail) <= MaxMail /\ work.pc \in MailSteps
    BY OpeningNow DEF MailShapes
  <2> QED BY <2>1, OpeningNow, MailNow DEF MailboxTypeOK, Mails, MailKinds, MailSteps
<1>2. MailIsKept
  <2>1. \A n \in Mails : mail[n].kind # "broken" =>
          n \in box \cup work.fresh \cup (disk.sealed \ opened) \cup disk.journal \cup held \cup excused \/ Effective(n)
    BY OpeningNow DEF SafeMail, Journal
  <2> QED BY <2>1, OpeningNow DEF MailIsKept, TrueMail, Mails, Effective
<1> QED BY <1>1, <1>2

-----------------------------------------------------------------------------
(* OwnerRecovery: where a recovery stands, and what it still needs.        *)

RecChains == [seq : 1 .. MaxLog, gen : Nat, made : Nat, epoch : Nat, verified : SUBSET (0 .. MaxStores),
              mine : SUBSET (1 .. MaxLog), by : [Stores -> Nat]]
RecDrafts == [pc : {"none", "prepared", "put", "check"}, at : Nat, gen : 0 .. MaxLog, logged : BOOLEAN]
RecMarks == [state : {"none", "staged", "published"}, gen : Nat, floor : Nat]
RecSteps == [pc : {"none", "staging", "opened", "publishing", "epoch", "submit", "sent", "confirm", "trusting", "closing"},
             gen : Nat, at : Nat, store : 0 .. MaxStores, done : BOOLEAN]
RecStages == [store : 0 .. MaxStores, epoch : Nat]
RecShapes ==
  /\ chain \in RecChains /\ chain.gen <= chain.made /\ chain.epoch <= epochs
  /\ kits \in [1 .. MaxLog -> {"none", "mine", "theirs"}] /\ draft \in RecDrafts
  /\ marker \in [Stores -> RecMarks] /\ \A s \in Stores : marker[s].floor <= chain.seq
  /\ item \in RecStages /\ item.epoch <= epochs /\ active \in 0 .. MaxStores /\ stage \in 0 .. MaxStores
  /\ using \in -1 .. MaxStores /\ step \in RecSteps /\ step.at <= chain.seq
  /\ epochs \in Nat /\ fails \in 0 .. MaxFails /\ assured \subseteq 1 .. MaxLog

(* A kit is put at the hub before it is entered in the chain, and is sure  *)
(* to be in both before anybody is told.                                   *)
KitInv ==
  /\ draft.pc # "none" => draft.gen # 0
  /\ draft.logged => draft.gen \in chain.mine
  /\ draft.pc \in {"put", "check"} => kits[draft.gen] # "none"
  /\ draft.pc = "check" => draft.logged
  /\ \A g \in assured : g \in chain.mine /\ kits[g] # "none"

(* The store that is staged is the one to resume, and no older than the    *)
(* one in use; marks are made in order; the chain knows the stores it      *)
(* verified.                                                               *)
StageInv ==
  /\ stage # 0 => item.store = stage
  /\ item.store = 0 => item.epoch = 0
  /\ item.store # 0 => marker[item.store].state # "none" /\ item.store >= active
  /\ active # 0 => marker[active].state # "none"
  /\ \A r, s \in Stores : r < s /\ marker[s].state # "none" => marker[r].state # "none"
  /\ \A s \in Stores : s \in chain.verified => chain.by[s] # 0
ReachInv ==
  /\ \A s \in Stores : chain.by[s] # 0 => active >= s \/ item = [store |-> s, epoch |-> chain.by[s]]
  /\ active # 0 => chain.by[active] # 0 /\ (marker[active].state = "published" \/ item.store = active)

(* How far the ceremony under way has come.                                *)
StepInv ==
  /\ step.pc = "opened" => /\ step.store # 0 /\ marker[step.store].state # "none" /\ step.store >= active
                           /\ (item.store = 0 /\ step.store # active) \/ item.store = step.store
  /\ step.pc \in {"publishing", "epoch", "submit", "sent", "confirm", "trusting"} => stage # 0
  /\ step.pc \in {"epoch", "submit", "sent", "confirm", "trusting"} => marker[stage].state = "published"
  /\ step.pc \in {"submit", "sent", "confirm", "trusting"} => item.epoch # 0
  /\ step.pc = "trusting" => chain.by[stage] # 0
  /\ step.pc = "closing" => stage = 0 /\ active = item.store /\ active # 0 /\ marker[active].state = "published"

RecInv == RecShapes /\ KitInv /\ StageInv /\ ReachInv /\ StepInv

LEMMA RecConstants == MaxLog \in Nat /\ MaxLog >= 1 /\ MaxStores \in Nat /\ MaxFails \in Nat
  BY RecoveryAssumption

LEMMA RecNow ==
  ASSUME RecShapes
  PROVE  /\ chain = [seq |-> chain.seq, gen |-> chain.gen, made |-> chain.made, epoch |-> chain.epoch,
                     verified |-> chain.verified, mine |-> chain.mine, by |-> chain.by]
         /\ draft = [pc |-> draft.pc, at |-> draft.at, gen |-> draft.gen, logged |-> draft.logged]
         /\ item = [store |-> item.store, epoch |-> item.epoch]
         /\ step = [pc |-> step.pc, gen |-> step.gen, at |-> step.at, store |-> step.store, done |-> step.done]
         /\ chain.seq \in 1 .. MaxLog /\ chain.gen \in Nat /\ chain.made \in Nat /\ chain.epoch \in Nat
         /\ chain.verified \subseteq 0 .. MaxStores /\ chain.mine \subseteq 1 .. MaxLog /\ chain.by \in [Stores -> Nat]
         /\ draft.at \in Nat /\ draft.gen \in 0 .. MaxLog /\ draft.logged \in BOOLEAN
         /\ item.store \in 0 .. MaxStores /\ item.epoch \in Nat
         /\ step.gen \in Nat /\ step.at \in Nat /\ step.store \in 0 .. MaxStores /\ step.done \in BOOLEAN
         /\ \A s \in 0 .. MaxStores : s # 0 => s \in Stores
         /\ NoStep \in RecSteps /\ NoDraft \in RecDrafts /\ NoStage \in RecStages
         /\ NoStep.pc = "none" /\ NoDraft.pc = "none" /\ ~NoDraft.logged /\ NoStage.store = 0 /\ NoStage.epoch = 0
         /\ NoStep.at = 0
<1> USE RecConstants
<1>1. /\ chain \in RecChains /\ draft \in RecDrafts /\ item \in RecStages /\ step \in RecSteps
  BY DEF RecShapes
<1>2. /\ chain = [seq |-> chain.seq, gen |-> chain.gen, made |-> chain.made, epoch |-> chain.epoch,
                  verified |-> chain.verified, mine |-> chain.mine, by |-> chain.by]
      /\ chain.seq \in 1 .. MaxLog /\ chain.gen \in Nat /\ chain.made \in Nat /\ chain.epoch \in Nat
      /\ chain.verified \subseteq 0 .. MaxStores /\ chain.mine \subseteq 1 .. MaxLog /\ chain.by \in [Stores -> Nat]
  BY <1>1 DEF RecChains
<1>3. /\ draft = [pc |-> draft.pc, at |-> draft.at, gen |-> draft.gen, logged |-> draft.logged]
      /\ draft.at \in Nat /\ draft.gen \in 0 .. MaxLog /\ draft.logged \in BOOLEAN
  BY <1>1 DEF RecDrafts
<1>4. /\ item = [store |-> item.store, epoch |-> item.epoch]
      /\ item.store \in 0 .. MaxStores /\ item.epoch \in Nat
  BY <1>1 DEF RecStages
<1>5. /\ step = [pc |-> step.pc, gen |-> step.gen, at |-> step.at, store |-> step.store, done |-> step.done]
      /\ step.gen \in Nat /\ step.at \in Nat /\ step.store \in 0 .. MaxStores /\ step.done \in BOOLEAN
  BY <1>1 DEF RecSteps
<1>6. \A s \in 0 .. MaxStores : s # 0 => s \in Stores
  BY DEF Stores
<1>7. /\ NoStep \in RecSteps /\ NoDraft \in RecDrafts /\ NoStage \in RecStages
      /\ NoStep.pc = "none" /\ NoDraft.pc = "none" /\ ~NoDraft.logged /\ NoStage.store = 0 /\ NoStage.epoch = 0
      /\ NoStep.at = 0
  BY DEF NoStep, NoDraft, NoStage, RecSteps, RecDrafts, RecStages
<1> QED BY <1>1, <1>2, <1>3, <1>4, <1>5, <1>6, <1>7

LEMMA RecBounds ==
  ASSUME RecShapes
  PROVE  /\ chain.seq \in Nat /\ chain.epoch \in Nat /\ epochs \in Nat /\ item.epoch \in Nat /\ step.at \in Nat
         /\ step.at <= chain.seq /\ item.epoch <= epochs /\ chain.epoch <= epochs /\ stage \in 0 .. MaxStores
<1>1. step.at <= chain.seq /\ item.epoch <= epochs /\ chain.epoch <= epochs /\ epochs \in Nat /\ stage \in 0 .. MaxStores
  BY DEF RecShapes
<1>2. chain.seq \in Nat /\ chain.epoch \in Nat /\ item.epoch \in Nat /\ step.at \in Nat
  BY RecNow
<1> QED BY <1>1, <1>2

LEMMA RecInvInit == RecInit => RecInv
<1> SUFFICES ASSUME RecInit PROVE RecInv
  OBVIOUS
<1> USE RecConstants DEF RecInit
<1>1. RecShapes
  <2>1. chain \in RecChains /\ chain.gen = 0 /\ chain.made = 0 /\ chain.epoch = 0 /\ chain.seq = 1
    BY DEF RecChains, Stores
  <2>2. NoStep \in RecSteps /\ NoDraft \in RecDrafts /\ NoStage \in RecStages /\ NoStep.at = 0 /\ NoStage.epoch = 0
    BY DEF NoStep, NoDraft, NoStage, RecSteps, RecDrafts, RecStages
  <2>3. marker \in [Stores -> RecMarks] /\ \A s \in Stores : marker[s].floor = 0
    BY DEF RecMarks
  <2>4. kits \in [1 .. MaxLog -> {"none", "mine", "theirs"}]
    OBVIOUS
  <2> QED BY <2>1, <2>2, <2>3, <2>4 DEF RecShapes
<1>2. KitInv
  BY DEF KitInv, NoDraft
<1>3. StageInv /\ ReachInv
  BY DEF StageInv, ReachInv, Stores, NoStage
<1>4. StepInv
  BY DEF StepInv, NoStep
<1> QED BY <1>1, <1>2, <1>3, <1>4 DEF RecInv

(* A mark is written, of one store.                                        *)
LEMMA MarkIs ==
  ASSUME RecShapes, NEW s \in Stores, NEW state \in {"none", "staged", "published"}, NEW at \in Nat,
         at <= chain.seq, Marked(s, state, at)
  PROVE  /\ marker' \in [Stores -> RecMarks] /\ \A r \in Stores : marker'[r].floor <= chain.seq
         /\ marker'[s].state = state /\ \A r \in Stores : r # s => marker'[r] = marker[r]
<1> DEFINE m == [state |-> state, gen |-> marker[s].gen, floor |-> at]
<1>1. marker[s] \in RecMarks /\ marker[s] = [state |-> marker[s].state, gen |-> marker[s].gen, floor |-> marker[s].floor]
  BY DEF RecShapes, RecMarks
<1>2. m \in RecMarks /\ m.state = state /\ m.floor = at
  BY <1>1 DEF RecMarks
<1>3. marker'[s] = m
  BY <1>1 DEF RecShapes, Marked
<1> HIDE DEF m
<1>4. \A r \in Stores : r # s => marker'[r] = marker[r]
  BY DEF RecShapes, Marked
<1>5. marker' = [r \in Stores |-> marker'[r]]
  BY DEF RecShapes, Marked
<1>6. \A r \in Stores : marker'[r] \in RecMarks /\ marker'[r].floor <= chain.seq
  BY <1>2, <1>3, <1>4 DEF RecShapes
<1>7. marker' \in [Stores -> RecMarks]
  BY <1>5, <1>6
<1> QED BY <1>2, <1>3, <1>4, <1>6, <1>7

(* The chain has a record more.                                            *)
LEMMA ChainGrows ==
  ASSUME RecShapes, NEW c \in RecChains, chain.seq < MaxLog, c.seq = chain.seq, Recorded(c)
  PROVE  /\ chain' \in RecChains /\ chain'.seq = chain.seq + 1 /\ chain'.gen = c.gen /\ chain'.made = c.made
         /\ chain'.epoch = c.epoch /\ chain'.verified = c.verified /\ chain'.mine = c.mine /\ chain'.by = c.by
<1>1. /\ c = [seq |-> c.seq, gen |-> c.gen, made |-> c.made, epoch |-> c.epoch,
                  verified |-> c.verified, mine |-> c.mine, by |-> c.by]
      /\ c.seq \in 1 .. MaxLog /\ c.gen \in Nat /\ c.made \in Nat /\ c.epoch \in Nat
      /\ c.verified \in SUBSET (0 .. MaxStores) /\ c.mine \in SUBSET (1 .. MaxLog) /\ c.by \in [Stores -> Nat]
  BY DEF RecChains
<1>2. chain' = [seq |-> c.seq + 1, gen |-> c.gen, made |-> c.made, epoch |-> c.epoch,
                verified |-> c.verified, mine |-> c.mine, by |-> c.by]
  BY <1>1 DEF Recorded
<1>3. c.seq + 1 \in 1 .. MaxLog
  BY <1>1, RecConstants
<1>4. chain' \in RecChains
  BY <1>1, <1>2, <1>3 DEF RecChains
<1> QED BY <1>1, <1>2, <1>4

(* What each kind of record changes.                                       *)
LEMMA ConfigureIs ==
  ASSUME RecShapes, NEW c, c = Configure(chain)
  PROVE  c = [seq |-> chain.seq, gen |-> chain.made + 1, made |-> chain.made + 1, epoch |-> chain.epoch,
              verified |-> chain.verified, mine |-> chain.mine, by |-> chain.by]
  BY RecNow DEF Configure

LEMMA RecoverIs ==
  ASSUME RecShapes, NEW e, NEW who, NEW c, c = Recover(chain, e, who)
  PROVE  c = [seq |-> chain.seq, gen |-> chain.gen, made |-> chain.made, epoch |-> e,
              verified |-> who, mine |-> chain.mine, by |-> chain.by]
  BY RecNow DEF Recover

LEMMA RecordWith ==
  ASSUME NEW c, NEW seq, NEW gen, NEW made, NEW epoch, NEW verified, NEW mine, NEW by, NEW s, NEW e, NEW d,
         c = [seq |-> seq, gen |-> gen, made |-> made, epoch |-> epoch, verified |-> verified, mine |-> mine, by |-> by]
  PROVE  /\ d = [c EXCEPT !.by[s] = e] =>
              d = [seq |-> seq, gen |-> gen, made |-> made, epoch |-> epoch, verified |-> verified, mine |-> mine,
                   by |-> [by EXCEPT ![s] = e]]
         /\ d = [c EXCEPT !.mine = @ \cup {s}] =>
              d = [seq |-> seq, gen |-> gen, made |-> made, epoch |-> epoch, verified |-> verified,
                   mine |-> mine \cup {s}, by |-> by]
  OBVIOUS

(* Records of other devices.                                               *)
LEMMA OthersRecordInv ==
  ASSUME RecInv, NEW act, OthersRecord(act)
  PROVE  RecInv'
<1> USE RecConstants
<1>1. RecShapes /\ KitInv /\ StageInv /\ ReachInv /\ StepInv
  BY DEF RecInv
<1>2. /\ UNCHANGED <<kits, draft, marker, item, active, stage, using, step, fails, assured>> /\ chain.seq < MaxLog
  BY DEF OthersRecord
<1>3. /\ chain' \in RecChains /\ chain'.gen <= chain'.made /\ chain'.epoch <= epochs' /\ epochs' \in Nat /\ epochs <= epochs'
      /\ chain'.mine = chain.mine /\ chain'.by = chain.by /\ chain'.seq = chain.seq + 1
      /\ chain'.verified \subseteq chain.verified
  <2>1. chain \in RecChains /\ chain.gen <= chain.made /\ chain.epoch <= epochs /\ epochs \in Nat
    BY <1>1 DEF RecShapes
  <2> DEFINE C(gen, made, epoch, verified) ==
        [seq |-> chain.seq, gen |-> gen, made |-> made, epoch |-> epoch, verified |-> verified,
         mine |-> chain.mine, by |-> chain.by]
  <2>2. ASSUME NEW gen \in Nat, NEW made \in Nat, NEW epoch \in Nat, NEW verified \in SUBSET chain.verified
        PROVE  C(gen, made, epoch, verified) \in RecChains
    BY <1>1, RecNow DEF RecChains
  <2>3. CASE act = "configure" /\ Recorded(Configure(chain)) /\ UNCHANGED epochs
    <3>0. PICK c : c = Configure(chain)
      OBVIOUS
    <3>1. c = C(chain.made + 1, chain.made + 1, chain.epoch, chain.verified)
      BY <1>1, <3>0, ConfigureIs
    <3>2. chain.made + 1 \in Nat /\ chain.epoch \in Nat /\ chain.verified \in SUBSET chain.verified
      BY <1>1, RecNow
    <3>3. c \in RecChains
      BY <2>2, <3>1, <3>2
    <3>4. /\ c.seq = chain.seq /\ c.gen = chain.made + 1 /\ c.made = chain.made + 1 /\ c.epoch = chain.epoch
          /\ c.verified = chain.verified /\ c.mine = chain.mine /\ c.by = chain.by
      BY <3>1
    <3> QED BY <1>1, <1>2, <2>1, <2>3, <3>0, <3>1, <3>2, <3>3, <3>4, ChainGrows, RecNow
  <2>4. CASE act = "revoke" /\ Recorded([chain EXCEPT !.gen = 0]) /\ UNCHANGED epochs
    <3> DEFINE c == C(0, chain.made, chain.epoch, chain.verified)
    <3>1. [chain EXCEPT !.gen = 0] = c
      BY <1>1, RecNow
    <3>2. 0 \in Nat /\ chain.made \in Nat /\ chain.epoch \in Nat /\ chain.verified \in SUBSET chain.verified
      BY <1>1, RecNow
    <3>3. c \in RecChains
      BY <2>2, <3>2
    <3>4. /\ c.seq = chain.seq /\ c.gen = 0 /\ c.made = chain.made /\ c.epoch = chain.epoch
          /\ c.verified = chain.verified /\ c.mine = chain.mine /\ c.by = chain.by
      OBVIOUS
    <3> HIDE DEF c
    <3> QED BY <1>1, <1>2, <2>1, <2>4, <3>1, <3>2, <3>3, <3>4, ChainGrows
  <2>5. CASE act = "recover" /\ epochs' = epochs + 1 /\ Recorded(Recover(chain, epochs + 1, {}))
    <3>0. PICK c : c = Recover(chain, epochs + 1, {})
      OBVIOUS
    <3>1. c = C(chain.gen, chain.made, epochs + 1, {})
      BY <1>1, <3>0, RecoverIs
    <3>2. chain.gen \in Nat /\ chain.made \in Nat /\ epochs + 1 \in Nat /\ {} \in SUBSET chain.verified
      BY <1>1, <2>1, RecNow
    <3>3. c \in RecChains
      BY <2>2, <3>1, <3>2
    <3>4. /\ c.seq = chain.seq /\ c.gen = chain.gen /\ c.made = chain.made /\ c.epoch = epochs + 1
          /\ c.verified = {} /\ c.mine = chain.mine /\ c.by = chain.by
      BY <3>1
    <3> QED BY <1>1, <1>2, <2>1, <2>5, <3>0, <3>1, <3>2, <3>3, <3>4, ChainGrows
  <2>6. CASE act = "rest" /\ Recorded(chain) /\ UNCHANGED epochs
    BY <1>1, <1>2, <2>1, <2>6, ChainGrows
  <2> QED BY <2>3, <2>4, <2>5, <2>6 DEF OthersRecord
<1>4. RecShapes'
  <2>1. /\ \A s \in Stores : marker[s].floor <= chain'.seq
        /\ step.at <= chain'.seq /\ item.epoch <= epochs'
    <3>1. chain.seq \in Nat /\ epochs \in Nat /\ item.epoch \in Nat /\ step.at \in Nat /\ step.at <= chain.seq /\ item.epoch <= epochs
      BY <1>1, RecBounds
    <3>2. \A s \in Stores : marker[s].floor \in Nat /\ marker[s].floor <= chain.seq
      BY <1>1 DEF RecShapes, RecMarks
    <3> QED BY <1>3, <3>1, <3>2
  <2> QED BY <1>1, <1>2, <1>3, <2>1 DEF RecShapes, Stores
<1>5. KitInv'
  BY <1>1, <1>2, <1>3 DEF KitInv
<1>6. StageInv' /\ ReachInv'
  BY <1>1, <1>2, <1>3 DEF StageInv, ReachInv, Stores
<1>7. StepInv'
  BY <1>1, <1>2, <1>3 DEF StepInv
<1> QED BY <1>4, <1>5, <1>6, <1>7 DEF RecInv

(* Setting up, where only the kits and the draft move.                     *)
LEMMA KitsMove ==
  ASSUME RecInv, UNCHANGED <<chain, marker, item, active, stage, using, step, epochs>>,
         kits' \in [1 .. MaxLog -> {"none", "mine", "theirs"}], draft' \in RecDrafts,
         fails' \in 0 .. MaxFails, assured' \subseteq 1 .. MaxLog, KitInv'
  PROVE  RecInv'
<1>1. RecShapes /\ KitInv /\ StageInv /\ ReachInv /\ StepInv
  BY DEF RecInv
<1>2. RecShapes'
  BY <1>1 DEF RecShapes, Stores
<1>3. StageInv' /\ ReachInv' /\ StepInv'
  BY <1>1 DEF StageInv, ReachInv, StepInv, Stores
<1> QED BY <1>2, <1>3 DEF RecInv

LEMMA FaultIs ==
  ASSUME RecShapes, Fault \/ fails' = fails
  PROVE  fails' \in 0 .. MaxFails
  BY RecConstants DEF RecShapes, Fault

LEMMA DraftIs ==
  ASSUME RecShapes, NEW pc \in {"none", "prepared", "put", "check"}, NEW at \in Nat, NEW gen \in 0 .. MaxLog,
         NEW logged \in BOOLEAN, draft' = [pc |-> pc, at |-> at, gen |-> gen, logged |-> logged]
  PROVE  draft' \in RecDrafts /\ draft'.pc = pc /\ draft'.gen = gen /\ draft'.logged = logged
  BY DEF RecDrafts

LEMMA SetupInv ==
  ASSUME RecInv, OthersKit \/ SetupBegins \/ SetupEnds \/ SetupCancelled \/ \E b \in BOOLEAN : KitPut(b)
  PROVE  RecInv'
<1> USE RecConstants
<1>1. RecShapes /\ KitInv /\ StageInv /\ ReachInv /\ StepInv
  BY DEF RecInv
<1>2. /\ kits \in [1 .. MaxLog -> {"none", "mine", "theirs"}] /\ draft \in RecDrafts
      /\ fails \in 0 .. MaxFails /\ assured \subseteq 1 .. MaxLog
  BY <1>1 DEF RecShapes
<1>3. ASSUME OthersKit PROVE RecInv'
  <2>1. UNCHANGED <<chain, draft, marker, item, active, stage, using, step, epochs, fails, assured>>
    BY <1>3 DEF OthersKit
  <2>2. kits' \in [1 .. MaxLog -> {"none", "mine", "theirs"}] /\ \A g \in 1 .. MaxLog : kits[g] # "none" => kits'[g] # "none"
    BY <1>2, <1>3 DEF OthersKit, Put
  <2>3. KitInv'
    <3>1. assured' \subseteq 1 .. MaxLog /\ (draft.pc # "none" => draft.gen \in 1 .. MaxLog)
      BY <1>1, <1>2, <2>1, RecNow DEF KitInv
    <3> QED BY <1>1, <2>1, <2>2, <3>1 DEF KitInv
  <2> QED BY <1>2, <2>1, <2>2, <2>3, KitsMove
<1>4. ASSUME SetupBegins PROVE RecInv'
  <2>1. UNCHANGED <<chain, kits, marker, item, active, stage, using, step, epochs, fails, assured>>
    BY <1>4 DEF SetupBegins
  <2>2. draft' = [pc |-> "prepared", at |-> chain.seq, gen |-> chain.made + 1, logged |-> FALSE]
    BY <1>4 DEF SetupBegins, Prepared, NoDraft
  <2>3. chain.seq \in Nat /\ chain.made + 1 \in 0 .. MaxLog /\ chain.made + 1 # 0
    BY <1>1, <1>4, RecNow DEF SetupBegins
  <2>4. draft' \in RecDrafts /\ draft'.pc = "prepared" /\ draft'.gen # 0 /\ ~draft'.logged
    BY <1>1, <2>2, <2>3, DraftIs
  <2>5. KitInv'
    BY <1>1, <2>1, <2>4 DEF KitInv
  <2> QED BY <1>2, <2>1, <2>4, <2>5, KitsMove
<1>5. ASSUME SetupEnds PROVE RecInv'
  <2>1. UNCHANGED <<chain, kits, marker, item, active, stage, using, step, epochs, fails>> /\ draft.pc = "check"
    BY <1>5 DEF SetupEnds
  <2>2. CASE draft' = NoDraft /\ assured' = assured \cup {draft.gen}
    <3>1. draft.gen \in 1 .. MaxLog
      BY <1>1, <2>1, RecNow DEF KitInv
    <3>2. draft' \in RecDrafts /\ assured' \subseteq 1 .. MaxLog
      BY <1>1, <1>2, <2>2, <3>1, RecNow
    <3>3. draft.gen \in chain.mine /\ kits[draft.gen] # "none"
      BY <1>1, <2>1 DEF KitInv
    <3>4. KitInv'
      BY <1>1, <2>1, <2>2, <3>3, RecNow DEF KitInv
    <3> QED BY <1>2, <2>1, <3>2, <3>4, KitsMove
  <2>3. CASE draft' = [draft EXCEPT !.pc = "prepared"] /\ UNCHANGED assured
    <3>1. draft' = [pc |-> "prepared", at |-> draft.at, gen |-> draft.gen, logged |-> draft.logged]
      BY <1>1, <2>3, RecNow
    <3>2. draft' \in RecDrafts /\ draft'.pc = "prepared" /\ draft'.gen = draft.gen /\ draft'.logged = draft.logged
      BY <1>1, <3>1, RecNow, DraftIs
    <3>3. KitInv'
      BY <1>1, <2>1, <2>3, <3>2 DEF KitInv
    <3> QED BY <1>2, <2>1, <2>3, <3>2, <3>3, KitsMove
  <2> QED BY <1>5, <2>2, <2>3 DEF SetupEnds
<1>6. ASSUME SetupCancelled PROVE RecInv'
  <2>1. UNCHANGED <<chain, kits, marker, item, active, stage, using, step, epochs, fails, assured>> /\ draft' = NoDraft
    BY <1>6 DEF SetupCancelled
  <2>2. KitInv'
    BY <1>1, <2>1, RecNow DEF KitInv
  <2> QED BY <1>1, <1>2, <2>1, <2>2, KitsMove, RecNow
<1>7. ASSUME NEW b \in BOOLEAN, KitPut(b) PROVE RecInv'
  <2>1. UNCHANGED <<chain, marker, item, active, stage, using, step, epochs, assured>> /\ draft.pc = "prepared"
    BY <1>7 DEF KitPut
  <2>2. draft.gen \in 1 .. MaxLog
    BY <1>1, <2>1, RecNow DEF KitInv
  <2>3. /\ kits' \in [1 .. MaxLog -> {"none", "mine", "theirs"}] /\ kits'[draft.gen] = "mine"
        /\ \A g \in 1 .. MaxLog : kits[g] # "none" => kits'[g] # "none"
    BY <1>2, <1>7, <2>2 DEF KitPut, Put
  <2>4. fails' \in 0 .. MaxFails
    BY <1>1, <1>7, FaultIs DEF KitPut
  <2>5. CASE UNCHANGED draft
    <3>1. KitInv'
      BY <1>1, <1>2, <2>1, <2>3, <2>5 DEF KitInv
    <3> QED BY <1>2, <2>1, <2>3, <2>4, <2>5, <3>1, KitsMove
  <2>6. CASE draft' = [draft EXCEPT !.pc = "put"]
    <3>1. draft' = [pc |-> "put", at |-> draft.at, gen |-> draft.gen, logged |-> draft.logged]
      BY <1>1, <2>6, RecNow
    <3>2. draft' \in RecDrafts /\ draft'.pc = "put" /\ draft'.gen = draft.gen /\ draft'.logged = draft.logged
      BY <1>1, <3>1, RecNow, DraftIs
    <3>3. KitInv'
      BY <1>1, <1>2, <2>1, <2>2, <2>3, <3>2 DEF KitInv
    <3> QED BY <1>2, <2>1, <2>3, <2>4, <3>2, <3>3, KitsMove
  <2> QED BY <1>7, <2>5, <2>6 DEF KitPut
<1> QED BY <1>3, <1>4, <1>5, <1>6, <1>7

LEMMA SetupCommitsInv ==
  ASSUME RecInv, NEW b \in BOOLEAN, SetupCommits(b)
  PROVE  RecInv'
<1> USE RecConstants
<1>1. RecShapes /\ KitInv /\ StageInv /\ ReachInv /\ StepInv
  BY DEF RecInv
<1>2. UNCHANGED <<kits, marker, item, active, stage, using, step, epochs, assured>> /\ draft.pc = "put"
  BY DEF SetupCommits
<1>3. fails' \in 0 .. MaxFails
  BY <1>1, FaultIs DEF SetupCommits
<1>4. draft.gen \in 1 .. MaxLog
  BY <1>1, <1>2, RecNow DEF KitInv
<1> DEFINE fits == ~draft.logged /\ chain.seq = draft.at /\ chain.seq < MaxLog
<1>5. /\ chain' \in RecChains /\ chain'.gen <= chain'.made /\ chain'.epoch = chain.epoch /\ chain'.by = chain.by
      /\ chain'.verified = chain.verified /\ chain.seq <= chain'.seq
      /\ chain'.mine = chain.mine \cup (IF fits THEN {draft.gen} ELSE {})
  <2>1. chain \in RecChains /\ chain.gen <= chain.made
    BY <1>1 DEF RecShapes
  <2>2. CASE fits
    <3> DEFINE c == [seq |-> chain.seq, gen |-> chain.made + 1, made |-> chain.made + 1, epoch |-> chain.epoch,
                     verified |-> chain.verified, mine |-> chain.mine \cup {draft.gen}, by |-> chain.by]
    <3>1. Recorded([Configure(chain) EXCEPT !.mine = @ \cup {draft.gen}])
      BY <2>2 DEF SetupCommits
    <3>2. [Configure(chain) EXCEPT !.mine = @ \cup {draft.gen}] = c
      <4>1. PICK d : d = Configure(chain)
        OBVIOUS
      <4>2. PICK f : f = [d EXCEPT !.mine = @ \cup {draft.gen}]
        OBVIOUS
      <4>3. d = [seq |-> chain.seq, gen |-> chain.made + 1, made |-> chain.made + 1, epoch |-> chain.epoch,
                 verified |-> chain.verified, mine |-> chain.mine, by |-> chain.by]
        BY <1>1, <4>1, ConfigureIs
      <4>4. f = c
        BY <4>2, <4>3, RecordWith
      <4> HIDE DEF c
      <4> QED BY <4>1, <4>2, <4>4
    <3>3. chain.made + 1 \in Nat /\ chain.mine \cup {draft.gen} \in SUBSET (1 .. MaxLog)
      BY <1>1, <1>4, RecNow
    <3>4. c \in RecChains
      BY <1>1, <3>3, RecNow DEF RecChains
    <3>5. /\ c.seq = chain.seq /\ c.gen = chain.made + 1 /\ c.made = chain.made + 1 /\ c.epoch = chain.epoch
          /\ c.verified = chain.verified /\ c.mine = chain.mine \cup {draft.gen} /\ c.by = chain.by
      OBVIOUS
    <3> HIDE DEF c
    <3>6. chain.seq < MaxLog /\ chain.seq \in Nat /\ chain.made \in Nat
      BY <1>1, <2>2, RecNow
    <3>7. Recorded(c)
      BY <3>1, <3>2
    <3>8. /\ chain' \in RecChains /\ chain'.seq = chain.seq + 1 /\ chain'.gen = c.gen /\ chain'.made = c.made
          /\ chain'.epoch = c.epoch /\ chain'.verified = c.verified /\ chain'.mine = c.mine /\ chain'.by = c.by
      BY <1>1, <3>4, <3>5, <3>6, <3>7, ChainGrows
    <3> QED BY <2>2, <3>5, <3>6, <3>8
  <2>3. CASE ~fits
    <3>1. chain' = chain
      BY <2>3 DEF SetupCommits
    <3> QED BY <1>1, <2>1, <2>3, <3>1, RecNow
  <2> QED BY <2>2, <2>3
<1>6. /\ draft' \in RecDrafts /\ draft'.gen = draft.gen /\ draft'.logged = (draft.logged \/ fits)
      /\ draft'.pc \in {"prepared", "check"} /\ (draft'.pc = "check" => draft'.logged)
  <2>1. draft' = [pc |-> IF ~b /\ (draft.logged \/ fits) THEN "check" ELSE "prepared", at |-> draft.at, gen |-> draft.gen,
                  logged |-> draft.logged \/ fits]
    BY <1>1, RecNow DEF SetupCommits
  <2>2. (draft.logged \/ fits) \in BOOLEAN
    BY <1>1, RecNow
  <2>3. (IF ~b /\ (draft.logged \/ fits) THEN "check" ELSE "prepared") \in {"none", "prepared", "put", "check"}
    OBVIOUS
  <2> HIDE DEF fits
  <2>4. draft' \in RecDrafts
    BY <1>1, <2>1, <2>2, <2>3, RecNow DEF RecDrafts
  <2> QED BY <2>1, <2>4
<1> HIDE DEF fits
<1>7. RecShapes'
  <2>1. /\ \A s \in Stores : marker[s].floor <= chain'.seq
        /\ step.at <= chain'.seq
    <3>0. chain'.seq \in 1 .. MaxLog
      BY <1>5 DEF RecChains
    <3>1. chain.seq \in Nat /\ chain'.seq \in Nat /\ step.at \in Nat /\ step.at <= chain.seq
      <4>1. chain.seq \in Nat /\ step.at \in Nat
        BY <1>1, RecNow
      <4> QED BY <1>1, <3>0, <4>1 DEF RecShapes
    <3>2. \A s \in Stores : marker[s].floor \in Nat /\ marker[s].floor <= chain.seq
      BY <1>1 DEF RecShapes, RecMarks
    <3> QED BY <1>5, <3>1, <3>2
  <2> QED BY <1>1, <1>2, <1>3, <1>5, <1>6, <2>1 DEF RecShapes, Stores
<1>8. KitInv'
  BY <1>1, <1>2, <1>4, <1>5, <1>6 DEF KitInv
<1>9. StageInv' /\ ReachInv'
  BY <1>1, <1>2, <1>5 DEF StageInv, ReachInv, Stores
<1>10. StepInv'
  BY <1>1, <1>2, <1>5 DEF StepInv
<1> QED BY <1>7, <1>8, <1>9, <1>10 DEF RecInv

(* Everything but the chain, the kits and the draft may move.              *)
LEMMA StageMoves ==
  ASSUME RecInv, UNCHANGED <<chain, kits, draft, assured>>, fails' \in 0 .. MaxFails,
         marker' \in [Stores -> RecMarks], \A s \in Stores : marker'[s].floor <= chain.seq,
         item' \in RecStages, item'.epoch <= epochs', active' \in 0 .. MaxStores, stage' \in 0 .. MaxStores,
         using' \in -1 .. MaxStores, step' \in RecSteps, step'.at <= chain.seq, epochs' \in Nat, epochs <= epochs',
         StageInv', ReachInv', StepInv'
  PROVE  RecInv'
<1>1. RecShapes /\ KitInv
  BY DEF RecInv
<1>2. chain'.epoch <= epochs'
  BY <1>1, RecBounds
<1>3. RecShapes'
  BY <1>1, <1>2 DEF RecShapes, Stores
<1>4. KitInv'
  BY <1>1 DEF KitInv
<1> QED BY <1>3, <1>4 DEF RecInv

(* Only the ceremony moves on.                                             *)
LEMMA StepMoves ==
  ASSUME RecInv, UNCHANGED <<chain, kits, draft, marker, item, active, stage, using, epochs, fails, assured>>,
         step' \in RecSteps, step'.at <= chain.seq, StepInv'
  PROVE  RecInv'
<1>1. RecShapes /\ StageInv /\ ReachInv
  BY DEF RecInv
<1>2. StageInv' /\ ReachInv'
  BY <1>1 DEF StageInv, ReachInv, Stores
<1>3. /\ marker \in [Stores -> RecMarks] /\ \A s \in Stores : marker[s].floor <= chain.seq
      /\ item \in RecStages /\ item.epoch <= epochs /\ active \in 0 .. MaxStores /\ stage \in 0 .. MaxStores
      /\ using \in -1 .. MaxStores /\ epochs \in Nat /\ fails \in 0 .. MaxFails /\ epochs <= epochs
  BY <1>1 DEF RecShapes
<1> QED BY <1>2, <1>3, StageMoves

(* No ceremony is under way any more.                                      *)
LEMMA StepOver ==
  ASSUME RecInv, step' = NoStep
  PROVE  step' \in RecSteps /\ step'.at <= chain.seq /\ StepInv'
<1>1. RecShapes
  BY DEF RecInv
<1>2. step' \in RecSteps /\ step'.at <= chain.seq /\ step'.pc = "none"
  BY <1>1, RecNow
<1> QED BY <1>2 DEF StepInv

LEMMA StepIs ==
  ASSUME NEW pc \in {"none", "staging", "opened", "publishing", "epoch", "submit", "sent", "confirm", "trusting", "closing"},
         NEW gen \in Nat, NEW at \in Nat, NEW s \in 0 .. MaxStores, NEW done \in BOOLEAN,
         step' = [pc |-> pc, gen |-> gen, at |-> at, store |-> s, done |-> done]
  PROVE  step' \in RecSteps /\ step'.pc = pc /\ step'.at = at /\ step'.store = s
  BY DEF RecSteps

LEMMA StagingInv ==
  ASSUME RecInv, StoreResumed \/ PublishBegins \/ RecoveryConfirmed \/ \E g \in 1 .. MaxLog : StageBegins(g)
  PROVE  RecInv'
<1> USE RecConstants
<1>1. RecShapes /\ KitInv /\ StageInv /\ ReachInv /\ StepInv
  BY DEF RecInv
<1>2. step.at <= chain.seq /\ step.at \in Nat /\ chain.seq \in Nat /\ stage \in 0 .. MaxStores /\ chain.epoch \in Nat
  BY <1>1, RecBounds
<1>3. ASSUME NEW g \in 1 .. MaxLog, StageBegins(g) PROVE RecInv'
  <2>1. step' = [pc |-> "staging", gen |-> g, at |-> chain.seq, store |-> 0, done |-> FALSE]
    BY <1>3 DEF StageBegins, NoStep
  <2>0. g \in Nat /\ 0 \in 0 .. MaxStores
    OBVIOUS
  <2>2. step' \in RecSteps /\ step'.at = chain.seq /\ step'.pc = "staging"
    BY <1>2, <2>0, <2>1, StepIs
  <2>3. StepInv'
    BY <2>2 DEF StepInv
  <2>4. UNCHANGED <<chain, kits, draft, marker, item, active, stage, using, epochs, fails, assured>>
    BY <1>3 DEF StageBegins
  <2> QED BY <1>2, <2>2, <2>3, <2>4, StepMoves
<1>4. ASSUME StoreResumed PROVE RecInv'
  <2>1. UNCHANGED <<chain, kits, draft, marker, item, active, stage, using, epochs, fails, assured>>
    BY <1>4 DEF StoreResumed
  <2>2. CASE step' = [step EXCEPT !.pc = "opened", !.store = item.store]
    <3>1. step' = [pc |-> "opened", gen |-> step.gen, at |-> step.at, store |-> item.store, done |-> step.done]
      BY <1>1, <2>2, RecNow
    <3>2. step' \in RecSteps /\ step'.at = step.at /\ step'.pc = "opened" /\ step'.store = item.store
      BY <1>1, <3>1, StepIs, RecNow
    <3>3. StepInv'
      BY <1>1, <1>4, <2>1, <3>2 DEF StepInv, StageInv, StoreResumed
    <3> QED BY <1>2, <2>1, <3>2, <3>3, StepMoves
  <2>3. CASE step' = NoStep
    BY <2>1, <2>3, StepOver, StepMoves
  <2> QED BY <1>4, <2>2, <2>3 DEF StoreResumed
<1>5. ASSUME PublishBegins PROVE RecInv'
  <2>1. UNCHANGED <<chain, kits, draft, marker, item, active, stage, using, epochs, fails, assured>> /\ stage # 0
    BY <1>5 DEF PublishBegins
  <2>2. PICK done \in BOOLEAN : step' = [pc |-> "publishing", gen |-> 0, at |-> chain.seq, store |-> stage, done |-> done]
    BY <1>5 DEF PublishBegins, NoStep
  <2>3. step' \in RecSteps /\ step'.at = chain.seq /\ step'.pc = "publishing"
    BY <1>2, <2>2, StepIs
  <2>4. StepInv'
    BY <2>1, <2>3 DEF StepInv
  <2> QED BY <1>2, <2>1, <2>3, <2>4, StepMoves
<1>6. ASSUME RecoveryConfirmed PROVE RecInv'
  <2>1. UNCHANGED <<chain, kits, draft, marker, item, active, stage, using, epochs, fails, assured>> /\ step.pc = "confirm"
    BY <1>6 DEF RecoveryConfirmed
  <2>2. CASE step' = [step EXCEPT !.pc = "trusting"] /\ stage \in chain.verified
    <3>1. step' = [pc |-> "trusting", gen |-> step.gen, at |-> step.at, store |-> step.store, done |-> step.done]
      BY <1>1, <2>2, RecNow
    <3>2. step' \in RecSteps /\ step'.at = step.at /\ step'.pc = "trusting"
      BY <1>1, <3>1, StepIs, RecNow
    <3>3. stage # 0 /\ marker[stage].state = "published" /\ item.epoch # 0
      BY <1>1, <2>1 DEF StepInv
    <3>4. chain.by[stage] # 0
      BY <1>1, <1>2, <2>2, <3>3, RecNow DEF StageInv
    <3>5. StepInv'
      BY <2>1, <3>2, <3>3, <3>4 DEF StepInv
    <3> QED BY <1>2, <2>1, <3>2, <3>5, StepMoves
  <2>3. CASE step' = NoStep
    BY <2>1, <2>3, StepOver, StepMoves
  <2> QED BY <1>6, <2>2, <2>3 DEF RecoveryConfirmed
<1> QED BY <1>3, <1>4, <1>5, <1>6

(* A new store's mark: the first number no store has, so a later one than  *)
(* the store in use.                                                       *)
LEMMA StoreMarkedInv ==
  ASSUME RecInv, NEW s \in Stores, StoreMarked(s)
  PROVE  RecInv'
<1> USE RecConstants
<1>1. RecShapes /\ KitInv /\ StageInv /\ ReachInv /\ StepInv
  BY DEF RecInv
<1>2. /\ UNCHANGED <<chain, kits, draft, item, active, stage, using, epochs, fails, assured>>
      /\ item.store = 0 /\ marker[s].state = "none" /\ \A r \in Stores : r < s => marker[r].state # "none"
  BY DEF StoreMarked
<1>3. s \in 1 .. MaxStores /\ active \in 0 .. MaxStores /\ step.at <= chain.seq /\ step.gen \in Nat /\ step.at \in Nat
  BY <1>1, RecNow DEF RecShapes, Stores
<1>4. active < s
  <2>1. CASE active = 0
    BY <1>3, <2>1
  <2>2. CASE active # 0
    <3>1. active \in Stores /\ marker[active].state # "none"
      BY <1>1, <1>3, <2>2, RecNow DEF StageInv
    <3>2. ~(s < active)
      BY <1>1, <1>2, <3>1 DEF StageInv
    <3> QED BY <1>2, <1>3, <3>1, <3>2
  <2> QED BY <2>1, <2>2
<1> DEFINE m == [state |-> "staged", gen |-> step.gen, floor |-> step.at]
<1>5. m \in RecMarks /\ m.state = "staged" /\ m.floor = step.at
  BY <1>3 DEF RecMarks
<1>6. marker'[s] = m /\ \A r \in Stores : r # s => marker'[r] = marker[r]
  BY <1>1 DEF RecShapes, StoreMarked
<1> HIDE DEF m
<1>7. marker' = [r \in Stores |-> marker'[r]]
  BY <1>1 DEF RecShapes, StoreMarked
<1>8. \A r \in Stores : marker'[r] \in RecMarks /\ marker'[r].floor <= chain.seq
  BY <1>1, <1>3, <1>5, <1>6 DEF RecShapes
<1>9. marker' \in [Stores -> RecMarks]
  BY <1>7, <1>8
<1>10. step' = [pc |-> "opened", gen |-> step.gen, at |-> step.at, store |-> s, done |-> step.done]
  BY <1>1, RecNow DEF StoreMarked
<1>11. step' \in RecSteps /\ step'.at = step.at /\ step'.pc = "opened" /\ step'.store = s
  BY <1>1, <1>3, <1>10, StepIs, RecNow
<1>12. StageInv'
  <2>1. \A r, t \in Stores : r < t /\ marker'[t].state # "none" => marker'[r].state # "none"
    <3>1. ASSUME NEW r \in Stores, NEW t \in Stores, r < t, marker'[t].state # "none" PROVE marker'[r].state # "none"
      <4>1. CASE r = s
        BY <1>5, <1>6, <4>1
      <4>2. CASE r # s /\ t = s
        BY <1>2, <1>6, <3>1, <4>2
      <4>3. CASE r # s /\ t # s
        BY <1>1, <1>6, <3>1, <4>3 DEF StageInv
      <4> QED BY <4>1, <4>2, <4>3
    <3> QED BY <3>1
  <2>2. active # 0 => marker'[active].state # "none"
    BY <1>1, <1>3, <1>4, <1>6, RecNow DEF StageInv
  <2> QED BY <1>1, <1>2, <2>1, <2>2 DEF StageInv, Stores
<1>13. ReachInv'
  BY <1>1, <1>2, <1>3, <1>4, <1>6, RecNow DEF ReachInv, Stores
<1>14. StepInv'
  <2>1. s # 0 /\ s >= active /\ s # active /\ marker'[s].state # "none"
    BY <1>3, <1>4, <1>5, <1>6
  <2> QED BY <1>2, <1>11, <2>1 DEF StepInv
<1>15. /\ item \in RecStages /\ item.epoch <= epochs /\ stage \in 0 .. MaxStores /\ using \in -1 .. MaxStores
       /\ epochs \in Nat /\ fails \in 0 .. MaxFails /\ epochs <= epochs
  BY <1>1 DEF RecShapes
<1> QED BY <1>2, <1>3, <1>8, <1>9, <1>11, <1>12, <1>13, <1>14, <1>15, StageMoves

LEMMA StageSavedInv ==
  ASSUME RecInv, NEW b \in BOOLEAN, StageSaved(b)
  PROVE  RecInv'
<1> USE RecConstants
<1>1. RecShapes /\ KitInv /\ StageInv /\ ReachInv /\ StepInv
  BY DEF RecInv
<1> DEFINE s == step.store
<1>2. /\ UNCHANGED <<chain, kits, draft, active, using, epochs, assured>> /\ step' = NoStep
      /\ Marked(s, "staged", step.at)
  BY DEF StageSaved
<1>3. /\ s # 0 /\ marker[s].state # "none" /\ s >= active
      /\ (item.store = 0 /\ s # active) \/ item.store = s
  BY <1>1 DEF StepInv, StageSaved
<1>4. s \in Stores /\ s \in 0 .. MaxStores /\ step.at \in Nat /\ step.at <= chain.seq /\ active \in 0 .. MaxStores
  BY <1>1, <1>3, RecNow DEF RecShapes
<1> HIDE DEF s
<1>5. /\ marker' \in [Stores -> RecMarks] /\ \A r \in Stores : marker'[r].floor <= chain.seq
      /\ marker'[s].state = "staged" /\ \A r \in Stores : r # s => marker'[r] = marker[r]
  BY <1>1, <1>2, <1>4, MarkIs
<1>6. \A r \in Stores : marker[r].state # "none" => marker'[r].state # "none"
  BY <1>5
<1>7. fails' \in 0 .. MaxFails
  BY <1>1, FaultIs DEF StageSaved
<1>8. step' \in RecSteps /\ step'.at <= chain.seq /\ StepInv'
  BY <1>2, StepOver
<1>9. /\ epochs \in Nat /\ epochs <= epochs /\ using \in -1 .. MaxStores
      /\ item \in RecStages /\ item.epoch <= epochs /\ stage \in 0 .. MaxStores
  BY <1>1 DEF RecShapes
<1>10. \A r, t \in Stores : r < t /\ marker'[t].state # "none" => marker'[r].state # "none"
  BY <1>1, <1>3, <1>5 DEF StageInv
<1>11. active # 0 => active \in Stores /\ marker'[active].state # "none" /\ marker[active].state # "none"
  BY <1>1, <1>4, <1>6, RecNow DEF StageInv
<1>12. CASE UNCHANGED <<item, stage>>
  <2>1. StageInv'
    <3>1. item.store # 0 => item.store \in Stores /\ marker'[item.store].state # "none" /\ item.store >= active
      BY <1>1, <1>6, RecNow DEF StageInv
    <3> QED BY <1>1, <1>2, <1>10, <1>11, <1>12, <3>1 DEF StageInv, Stores
  <2>2. ReachInv'
    <3>1. active # 0 => chain.by[active] # 0 /\ (marker'[active].state = "published" \/ item.store = active)
      <4>1. CASE active # 0 /\ active = s
        BY <1>1, <1>3, <4>1 DEF ReachInv
      <4>2. CASE active # 0 /\ active # s
        BY <1>1, <1>5, <1>11, <4>2 DEF ReachInv
      <4> QED BY <4>1, <4>2
    <3> QED BY <1>1, <1>2, <1>12, <3>1 DEF ReachInv, Stores
  <2> QED BY <1>2, <1>4, <1>5, <1>7, <1>8, <1>9, <1>12, <2>1, <2>2, StageMoves
<1>13. CASE item' = [item EXCEPT !.store = s] /\ stage' = s
  <2>1. item' = [store |-> s, epoch |-> item.epoch]
    BY <1>1, <1>13, RecNow
  <2>2. item' \in RecStages /\ item'.store = s /\ item'.epoch = item.epoch /\ item'.epoch <= epochs
    BY <1>1, <1>4, <1>9, <2>1, RecNow DEF RecStages
  <2>3. StageInv'
    <3>1. marker'[s].state # "none" /\ s >= active /\ s # 0
      BY <1>3, <1>5
    <3> QED BY <1>1, <1>2, <1>10, <1>11, <1>13, <2>2, <3>1 DEF StageInv, Stores
  <2>4. ReachInv'
    <3>1. active # 0 => chain.by[active] # 0 /\ (marker'[active].state = "published" \/ s = active)
      <4>1. CASE active # 0 /\ active = s
        BY <1>1, <4>1 DEF ReachInv
      <4>2. CASE active # 0 /\ active # s
        <5>1. item.store # active \/ item.store = 0
          BY <1>3, <4>2
        <5>2. marker[active].state = "published" /\ chain.by[active] # 0
          BY <1>1, <4>2, <5>1 DEF ReachInv
        <5> QED BY <1>5, <1>11, <4>2, <5>2
      <4> QED BY <4>1, <4>2
    <3>2. ASSUME NEW r \in Stores, chain.by[r] # 0 PROVE active >= r \/ item' = [store |-> r, epoch |-> chain.by[r]]
      <4>1. CASE item = [store |-> r, epoch |-> chain.by[r]]
        <5>1. item.store = r /\ r # 0
          BY <4>1 DEF Stores
        <5> QED BY <1>3, <2>1, <4>1, <5>1
      <4> QED BY <1>1, <3>2, <4>1 DEF ReachInv
    <3> QED BY <1>2, <2>2, <3>1, <3>2 DEF ReachInv, Stores
  <2>5. epochs' \in Nat /\ epochs <= epochs' /\ item'.epoch <= epochs' /\ active' \in 0 .. MaxStores
        /\ using' \in -1 .. MaxStores /\ stage' \in 0 .. MaxStores
    BY <1>2, <1>4, <1>9, <1>13, <2>2
  <2> QED BY <1>2, <1>5, <1>7, <1>8, <2>2, <2>3, <2>4, <2>5, StageMoves
<1> QED BY <1>12, <1>13 DEF StageSaved, s

(* The stage's mark moves forward, and says published if it did.           *)
LEMMA StageMarked ==
  ASSUME RecInv, UNCHANGED <<chain, kits, draft, item, active, stage, using, epochs, assured>>,
         stage # 0, NEW state \in {"none", "staged", "published"}, NEW at \in Nat, at <= chain.seq,
         Marked(stage, state, at), state \in {marker[stage].state, "published"},
         fails' \in 0 .. MaxFails, step' \in RecSteps, step'.at <= chain.seq,
         marker'[stage].state = state => StepInv'
  PROVE  RecInv'
<1> USE RecConstants
<1>1. RecShapes /\ StageInv /\ ReachInv
  BY DEF RecInv
<1>2. stage \in Stores /\ stage \in 0 .. MaxStores /\ active \in 0 .. MaxStores
  BY <1>1, RecNow DEF RecShapes
<1>3. /\ marker' \in [Stores -> RecMarks] /\ \A r \in Stores : marker'[r].floor <= chain.seq
      /\ marker'[stage].state = state /\ \A r \in Stores : r # stage => marker'[r] = marker[r]
  BY <1>1, <1>2, MarkIs
<1>4. marker[stage].state # "none"
  BY <1>1 DEF StageInv
<1>5. \A r \in Stores : /\ marker'[r].state # "none" <=> marker[r].state # "none"
                        /\ marker[r].state = "published" => marker'[r].state = "published"
  BY <1>3, <1>4
<1>6. StageInv'
  <2>1. item.store # 0 => item.store \in Stores /\ marker'[item.store].state # "none" /\ item.store >= active
    BY <1>1, <1>5, RecNow DEF StageInv
  <2>2. active # 0 => marker'[active].state # "none"
    BY <1>1, <1>2, <1>5, RecNow DEF StageInv
  <2>3. \A r, t \in Stores : r < t /\ marker'[t].state # "none" => marker'[r].state # "none"
    BY <1>1, <1>5 DEF StageInv
  <2> QED BY <1>1, <2>1, <2>2, <2>3 DEF StageInv, Stores
<1>7. ReachInv'
  <2>1. active # 0 => active \in Stores
    BY <1>1, <1>2, RecNow
  <2> QED BY <1>1, <1>5, <2>1 DEF ReachInv, Stores
<1>8. /\ epochs \in Nat /\ epochs <= epochs /\ using \in -1 .. MaxStores
      /\ item \in RecStages /\ item.epoch <= epochs
  BY <1>1 DEF RecShapes
<1> QED BY <1>2, <1>3, <1>6, <1>7, <1>8, StageMoves

LEMMA PublishedInv ==
  ASSUME RecInv, RecoverySigned \/ \E b \in BOOLEAN : StorePublished(b)
  PROVE  RecInv'
<1>1. RecShapes /\ KitInv /\ StageInv /\ ReachInv /\ StepInv
  BY DEF RecInv
<1>2. step.at <= chain.seq /\ step.at \in Nat /\ chain.seq \in Nat
  BY <1>1, RecBounds
<1>3. ASSUME RecoverySigned PROVE RecInv'
  <2>1. /\ UNCHANGED <<chain, kits, draft, item, active, stage, using, epochs, fails, assured>> /\ step.pc = "submit"
        /\ Marked(stage, marker[stage].state, chain.seq)
    BY <1>3 DEF RecoverySigned
  <2>2. stage # 0 /\ marker[stage].state = "published" /\ item.epoch # 0
    BY <1>1, <2>1 DEF StepInv
  <2>3. fails' \in 0 .. MaxFails
    BY <1>1, <2>1 DEF RecShapes
  <2>4. /\ step' \in RecSteps /\ step'.at <= chain.seq
        /\ marker'[stage].state = "published" => StepInv'
    <3>1. CASE step' = [step EXCEPT !.pc = "sent", !.at = chain.seq]
      <4>1. step' = [pc |-> "sent", gen |-> step.gen, at |-> chain.seq, store |-> step.store, done |-> step.done]
        BY <1>1, <3>1, RecNow
      <4>2. step' \in RecSteps /\ step'.at = chain.seq /\ step'.pc = "sent"
        BY <1>1, <1>2, <4>1, StepIs, RecNow
      <4> QED BY <1>2, <2>1, <2>2, <4>2 DEF StepInv
    <3>2. CASE step' = NoStep
      BY <3>2, StepOver
    <3> QED BY <1>3, <3>1, <3>2 DEF RecoverySigned
  <2> QED BY <1>2, <2>1, <2>2, <2>3, <2>4, StageMarked
<1>4. ASSUME NEW b \in BOOLEAN, StorePublished(b) PROVE RecInv'
  <2> DEFINE state == IF b THEN "published" ELSE marker[stage].state
  <2>1. /\ UNCHANGED <<chain, kits, draft, item, active, stage, using, epochs, assured>> /\ step.pc = "publishing"
        /\ Marked(stage, state, step.at)
    BY <1>4 DEF StorePublished
  <2>2. stage # 0
    BY <1>1, <2>1 DEF StepInv
  <2>3. fails' \in 0 .. MaxFails
    BY <1>1, <1>4, FaultIs DEF StorePublished
  <2>4. marker[stage].state \in {"none", "staged", "published"}
    <3>1. stage \in Stores /\ marker \in [Stores -> RecMarks]
      BY <1>1, <2>2, RecNow DEF RecShapes
    <3> QED BY <3>1 DEF RecMarks
  <2>5. state \in {"none", "staged", "published"} /\ state \in {marker[stage].state, "published"}
    BY <2>4
  <2>6. /\ step' \in RecSteps /\ step'.at <= chain.seq
        /\ marker'[stage].state = state => StepInv'
    <3>1. CASE b
      <4>1. step' = [pc |-> "epoch", gen |-> step.gen, at |-> step.at, store |-> step.store, done |-> step.done]
        BY <1>1, <1>4, <3>1, RecNow DEF StorePublished
      <4>2. step' \in RecSteps /\ step'.at = step.at /\ step'.pc = "epoch"
        BY <1>1, <1>2, <4>1, StepIs, RecNow
      <4> QED BY <1>2, <2>1, <2>2, <3>1, <4>2 DEF StepInv
    <3>2. CASE ~b
      BY <1>4, <3>2, StepOver DEF StorePublished
    <3> QED BY <3>1, <3>2
  <2> HIDE DEF state
  <2> QED BY <1>2, <2>1, <2>2, <2>3, <2>5, <2>6, StageMarked
<1> QED BY <1>3, <1>4

(* The epoch is kept, the profile written, the stage removed.              *)
LEMMA EpochKeptInv ==
  ASSUME RecInv, EpochKept
  PROVE  RecInv'
<1> USE RecConstants
<1>1. RecShapes /\ KitInv /\ StageInv /\ ReachInv /\ StepInv
  BY DEF RecInv
<1>2. UNCHANGED <<chain, kits, draft, marker, active, stage, using, fails, assured>> /\ step.pc = "epoch"
  BY DEF EpochKept
<1>3. stage # 0 /\ marker[stage].state = "published" /\ item.store = stage
  BY <1>1, <1>2 DEF StepInv, StageInv
<1>4. step' = [pc |-> IF step.done THEN "confirm" ELSE "submit", gen |-> step.gen, at |-> step.at, store |-> step.store, done |-> step.done]
  BY <1>1, RecNow DEF EpochKept
<1>5. step' \in RecSteps /\ step'.at = step.at /\ step'.pc \in {"confirm", "submit"}
  BY <1>1, <1>4, StepIs, RecNow
<1>6. step.at <= chain.seq /\ epochs \in Nat /\ item.epoch <= epochs /\ item.epoch \in Nat
  BY <1>1, RecBounds
<1>7. /\ item' \in RecStages /\ item'.store = item.store /\ item'.epoch # 0 /\ item'.epoch <= epochs'
      /\ epochs' \in Nat /\ epochs <= epochs' /\ (item.epoch # 0 => item' = item)
  <2>1. CASE item.epoch = 0
    <3>1. epochs' = epochs + 1 /\ item' = [store |-> item.store, epoch |-> epochs + 1]
      BY <1>1, <2>1, RecNow DEF EpochKept
    <3> QED BY <1>1, <1>6, <2>1, <3>1, RecNow DEF RecStages
  <2>2. CASE item.epoch # 0
    BY <1>1, <1>6, <2>2 DEF EpochKept, RecShapes
  <2> QED BY <2>1, <2>2
<1>8. StageInv'
  BY <1>1, <1>2, <1>3, <1>7 DEF StageInv, Stores
<1>9. ReachInv'
  <2>1. ASSUME NEW s \in Stores, chain.by[s] # 0 PROVE active >= s \/ item' = [store |-> s, epoch |-> chain.by[s]]
    <3>1. CASE item = [store |-> s, epoch |-> chain.by[s]]
      <4>1. item.epoch # 0
        BY <2>1, <3>1
      <4> QED BY <1>7, <3>1, <4>1
    <3> QED BY <1>1, <2>1, <3>1 DEF ReachInv
  <2> QED BY <1>1, <1>2, <1>7, <2>1 DEF ReachInv, Stores
<1>10. StepInv'
  BY <1>2, <1>3, <1>5, <1>7 DEF StepInv
<1>11. /\ marker' \in [Stores -> RecMarks] /\ \A s \in Stores : marker'[s].floor <= chain.seq
       /\ active' \in 0 .. MaxStores /\ stage' \in 0 .. MaxStores /\ using' \in -1 .. MaxStores /\ fails' \in 0 .. MaxFails
  BY <1>1, <1>2 DEF RecShapes
<1> QED BY <1>2, <1>5, <1>6, <1>7, <1>8, <1>9, <1>10, <1>11, StageMoves

LEMMA ProfileWrittenInv ==
  ASSUME RecInv, NEW b \in BOOLEAN, ProfileWritten(b)
  PROVE  RecInv'
<1> USE RecConstants
<1>1. RecShapes /\ KitInv /\ StageInv /\ ReachInv /\ StepInv
  BY DEF RecInv
<1>2. UNCHANGED <<chain, kits, draft, marker, item, epochs, assured>> /\ step.pc = "trusting"
  BY DEF ProfileWritten
<1>3. stage # 0 /\ marker[stage].state = "published" /\ item.epoch # 0 /\ chain.by[stage] # 0 /\ item.store = stage
  BY <1>1, <1>2 DEF StepInv, StageInv
<1>4. fails' \in 0 .. MaxFails
  BY <1>1, FaultIs DEF ProfileWritten
<1>5. /\ marker' \in [Stores -> RecMarks] /\ \A s \in Stores : marker'[s].floor <= chain.seq
      /\ item' \in RecStages /\ item'.epoch <= epochs' /\ epochs' \in Nat /\ epochs <= epochs' /\ step.at <= chain.seq
      /\ active \in 0 .. MaxStores /\ stage \in 0 .. MaxStores /\ using \in -1 .. MaxStores
  BY <1>1, <1>2 DEF RecShapes
<1>6. CASE b
  <2>1. step' = NoStep /\ UNCHANGED <<active, using, stage>>
    BY <1>6 DEF ProfileWritten
  <2>2. StageInv' /\ ReachInv'
    BY <1>1, <1>2, <2>1 DEF StageInv, ReachInv, Stores
  <2>3. step' \in RecSteps /\ step'.at <= chain.seq /\ StepInv'
    BY <2>1, StepOver
  <2> QED BY <1>2, <1>4, <1>5, <2>1, <2>2, <2>3, StageMoves
<1>7. CASE ~b
  <2>1. active' = stage /\ using' = stage /\ stage' = 0
    BY <1>7 DEF ProfileWritten
  <2>2. step' = [pc |-> "closing", gen |-> step.gen, at |-> step.at, store |-> step.store, done |-> step.done]
    BY <1>1, <1>7, RecNow DEF ProfileWritten
  <2>3. step' \in RecSteps /\ step'.at = step.at /\ step'.pc = "closing"
    BY <1>1, <2>2, StepIs, RecNow
  <2>4. stage >= active
    BY <1>1, <1>3 DEF StageInv
  <2>5. StageInv'
    BY <1>1, <1>2, <1>3, <1>5, <2>1 DEF StageInv, Stores
  <2>6. ReachInv'
    <3>1. ASSUME NEW s \in Stores, chain.by[s] # 0 PROVE stage >= s
      <4>1. CASE active >= s
        BY <1>5, <2>4, <4>1 DEF Stores
      <4>2. CASE item = [store |-> s, epoch |-> chain.by[s]]
        BY <1>3, <1>5, <4>2
      <4> QED BY <1>1, <3>1, <4>1, <4>2 DEF ReachInv
    <3> QED BY <1>2, <1>3, <2>1, <3>1 DEF ReachInv, Stores
  <2>7. StepInv'
    BY <1>2, <1>3, <2>1, <2>3 DEF StepInv
  <2>8. active' \in 0 .. MaxStores /\ stage' \in 0 .. MaxStores /\ using' \in -1 .. MaxStores /\ step'.at <= chain.seq
    BY <1>5, <2>1, <2>3
  <2> QED BY <1>2, <1>4, <1>5, <2>3, <2>5, <2>6, <2>7, <2>8, StageMoves
<1> QED BY <1>6, <1>7

LEMMA StageRemovedInv ==
  ASSUME RecInv, StageRemoved
  PROVE  RecInv'
<1> USE RecConstants
<1>1. RecShapes /\ StageInv /\ ReachInv /\ StepInv
  BY DEF RecInv
<1>2. /\ UNCHANGED <<chain, kits, draft, marker, active, stage, using, epochs, fails, assured>>
      /\ step.pc = "closing" /\ item' = NoStage /\ step' = NoStep
  BY DEF StageRemoved
<1>3. stage = 0 /\ active = item.store /\ active # 0 /\ marker[active].state = "published"
  BY <1>1, <1>2 DEF StepInv
<1>4. item' \in RecStages /\ item'.store = 0 /\ item'.epoch = 0
  BY <1>1, <1>2, RecNow
<1>5. step' \in RecSteps /\ step'.at <= chain.seq /\ StepInv'
  BY <1>2, StepOver
<1>6. StageInv'
  BY <1>1, <1>2, <1>3, <1>4 DEF StageInv, Stores
<1>7. ReachInv'
  <2>1. ASSUME NEW s \in Stores, chain.by[s] # 0 PROVE active >= s
    <3>1. CASE item = [store |-> s, epoch |-> chain.by[s]]
      <4>1. active = s
        BY <1>3, <3>1
      <4> QED BY <4>1 DEF Stores
    <3> QED BY <1>1, <2>1, <3>1 DEF ReachInv
  <2> QED BY <1>1, <1>2, <1>3, <2>1 DEF ReachInv, Stores
<1>8. /\ marker' \in [Stores -> RecMarks] /\ \A s \in Stores : marker'[s].floor <= chain.seq
      /\ active' \in 0 .. MaxStores /\ stage' \in 0 .. MaxStores /\ using' \in -1 .. MaxStores /\ fails' \in 0 .. MaxFails
      /\ epochs' \in Nat /\ epochs <= epochs' /\ item'.epoch <= epochs'
  BY <1>1, <1>2, <1>4 DEF RecShapes
<1> QED BY <1>2, <1>4, <1>5, <1>6, <1>7, <1>8, StageMoves

LEMMA PageLoadsInv ==
  ASSUME RecInv, PageLoads
  PROVE  RecInv'
<1> USE RecConstants
<1>1. RecShapes /\ KitInv /\ StageInv /\ ReachInv /\ StepInv
  BY DEF RecInv
<1>2. /\ UNCHANGED <<chain, kits, marker, item, active, epochs, assured>>
      /\ draft' = NoDraft /\ stage' = 0 /\ step' = NoStep /\ using' \in {active, -1}
  BY DEF PageLoads
<1>3. fails' \in 0 .. MaxFails
  BY <1>1, FaultIs DEF PageLoads
<1>4. /\ step' \in RecSteps /\ step'.at <= chain.seq /\ StepInv' /\ draft' \in RecDrafts
      /\ draft'.pc = "none" /\ ~draft'.logged
  BY <1>1, <1>2, StepOver, RecNow
<1>5. using' \in -1 .. MaxStores
  BY <1>1, <1>2 DEF RecShapes
<1>6. RecShapes'
  <2>1. step'.at <= chain'.seq
    BY <1>2, <1>4
  <2> QED BY <1>1, <1>2, <1>3, <1>4, <1>5, <2>1 DEF RecShapes, Stores
<1>7. KitInv'
  BY <1>1, <1>2, <1>4 DEF KitInv
<1>8. StageInv' /\ ReachInv'
  BY <1>1, <1>2 DEF StageInv, ReachInv, Stores
<1> QED BY <1>4, <1>6, <1>7, <1>8 DEF RecInv

(* The chain takes this browser's own recovery.                            *)
LEMMA RecoveryHandledInv ==
  ASSUME RecInv, NEW b \in BOOLEAN, RecoveryHandled(b)
  PROVE  RecInv'
<1> USE RecConstants
<1>1. RecShapes /\ KitInv /\ StageInv /\ ReachInv /\ StepInv
  BY DEF RecInv
<1>2. UNCHANGED <<kits, draft, marker, item, active, stage, using, epochs, assured>> /\ step.pc = "sent"
  BY DEF RecoveryHandled
<1>3. stage # 0 /\ marker[stage].state = "published" /\ item.epoch # 0 /\ item.store = stage
  BY <1>1, <1>2 DEF StepInv, StageInv
<1>4. fails' \in 0 .. MaxFails
  BY <1>1, FaultIs DEF RecoveryHandled
<1>5. stage \in Stores /\ chain.by \in [Stores -> Nat] /\ item.epoch \in Nat /\ item.epoch <= epochs /\ stage \in 0 .. MaxStores
  BY <1>1, <1>3, RecNow DEF RecShapes
<1>6. /\ chain' \in RecChains /\ chain'.gen <= chain'.made /\ chain'.epoch <= epochs /\ chain'.mine = chain.mine
      /\ chain.seq <= chain'.seq /\ (chain' = chain \/ Accepts)
      /\ Accepts => chain'.by = [chain.by EXCEPT ![stage] = item.epoch] /\ chain'.verified = {stage}
  <2>1. chain \in RecChains /\ chain.gen <= chain.made /\ chain.epoch <= epochs
    BY <1>1 DEF RecShapes
  <2>2. CASE Accepts
    <3> DEFINE by == [chain.by EXCEPT ![stage] = item.epoch]
               c == [seq |-> chain.seq, gen |-> chain.gen, made |-> chain.made, epoch |-> item.epoch,
                     verified |-> {stage}, mine |-> chain.mine, by |-> by]
    <3>1. Recorded([Recover(chain, item.epoch, {stage}) EXCEPT !.by[stage] = item.epoch])
      BY <2>2 DEF RecoveryHandled
    <3>2. [Recover(chain, item.epoch, {stage}) EXCEPT !.by[stage] = item.epoch] = c
      <4>1. PICK d : d = Recover(chain, item.epoch, {stage})
        OBVIOUS
      <4>2. PICK f : f = [d EXCEPT !.by[stage] = item.epoch]
        OBVIOUS
      <4>3. d = [seq |-> chain.seq, gen |-> chain.gen, made |-> chain.made, epoch |-> item.epoch,
                 verified |-> {stage}, mine |-> chain.mine, by |-> chain.by]
        BY <1>1, <4>1, RecoverIs
      <4>4. f = c
        BY <4>2, <4>3, RecordWith
      <4> HIDE DEF c
      <4> QED BY <4>1, <4>2, <4>4
    <3>3. by \in [Stores -> Nat]
      BY <1>5
    <3> HIDE DEF by
    <3>4. c \in RecChains
      BY <1>1, <1>5, <3>3, RecNow DEF RecChains
    <3>5. /\ c.seq = chain.seq /\ c.gen = chain.gen /\ c.made = chain.made /\ c.epoch = item.epoch
          /\ c.verified = {stage} /\ c.mine = chain.mine /\ c.by = by
      OBVIOUS
    <3> HIDE DEF c
    <3>6. chain.seq < MaxLog /\ chain.seq \in Nat
      BY <1>1, <2>2, RecNow DEF Accepts
    <3>7. Recorded(c)
      BY <3>1, <3>2
    <3>8. /\ chain' \in RecChains /\ chain'.seq = chain.seq + 1 /\ chain'.gen = chain.gen /\ chain'.made = chain.made
          /\ chain'.epoch = item.epoch /\ chain'.verified = {stage} /\ chain'.mine = chain.mine /\ chain'.by = by
      BY <1>1, <3>4, <3>5, <3>6, <3>7, ChainGrows
    <3> QED BY <1>5, <2>1, <2>2, <3>6, <3>8 DEF by
  <2>3. CASE ~Accepts
    <3>1. chain' = chain
      BY <2>3 DEF RecoveryHandled
    <3> QED BY <1>1, <2>1, <2>3, <3>1, RecNow
  <2> QED BY <2>2, <2>3
<1>7. /\ \A s \in Stores : chain'.by[s] # 0 => (s = stage /\ chain'.by[s] = item.epoch) \/ chain'.by[s] = chain.by[s]
      /\ \A s \in Stores : chain.by[s] # 0 => chain'.by[s] = chain.by[s]
      /\ \A s \in Stores : s \in chain'.verified => chain'.by[s] # 0
  <2>1. CASE Accepts
    <3>1. /\ chain.by[stage] = 0 /\ chain'.by[stage] = item.epoch
          /\ \A s \in Stores : s # stage => chain'.by[s] = chain.by[s]
      BY <1>5, <1>6, <2>1 DEF Accepts
    <3> QED BY <1>3, <1>6, <2>1, <3>1
  <2>2. CASE chain' = chain
    BY <1>1, <2>2 DEF StageInv
  <2> QED BY <1>6, <2>1, <2>2
<1>9. step' \in RecSteps /\ step'.at <= chain.seq /\ (step'.pc = "none" \/ step'.pc = "confirm")
  <2>1. CASE Accepts /\ ~b
    <3>1. step' = [pc |-> "confirm", gen |-> step.gen, at |-> step.at, store |-> step.store, done |-> step.done]
      BY <1>1, <2>1, RecNow DEF RecoveryHandled
    <3>2. step' \in RecSteps /\ step'.at = step.at /\ step'.pc = "confirm"
      BY <1>1, <3>1, StepIs, RecNow
    <3> QED BY <1>1, <3>2 DEF RecShapes
  <2>2. CASE ~(Accepts /\ ~b)
    <3>1. step' = NoStep
      BY <2>2 DEF RecoveryHandled
    <3> QED BY <1>1, <3>1, RecNow
  <2> QED BY <2>1, <2>2
<1>10. RecShapes'
  <2>1. /\ \A s \in Stores : marker[s].floor <= chain'.seq
        /\ step'.at <= chain'.seq
    <3>0. chain'.seq \in 1 .. MaxLog /\ step'.at \in Nat
      BY <1>6, <1>9 DEF RecChains, RecSteps
    <3>1. chain.seq \in Nat
      BY <1>1, RecNow
    <3>2. \A s \in Stores : marker[s].floor \in Nat /\ marker[s].floor <= chain.seq
      BY <1>1 DEF RecShapes, RecMarks
    <3> QED BY <1>6, <1>9, <3>0, <3>1, <3>2
  <2> QED BY <1>1, <1>2, <1>4, <1>6, <1>9, <2>1 DEF RecShapes, Stores
<1>11. KitInv'
  BY <1>1, <1>2, <1>6 DEF KitInv
<1>12. StageInv'
  BY <1>1, <1>2, <1>7 DEF StageInv, Stores
<1>13. ReachInv'
  <2>1. ASSUME NEW s \in Stores, chain'.by[s] # 0 PROVE active >= s \/ item = [store |-> s, epoch |-> chain'.by[s]]
    <3>1. CASE s = stage /\ chain'.by[s] = item.epoch
      BY <1>1, <1>3, <3>1, RecNow
    <3>2. CASE chain'.by[s] = chain.by[s]
      BY <1>1, <2>1, <3>2 DEF ReachInv
    <3> QED BY <1>7, <2>1, <3>1, <3>2
  <2>2. active # 0 => chain'.by[active] # 0 /\ (marker[active].state = "published" \/ item.store = active)
    <3>1. active # 0 => active \in Stores
      BY <1>1, RecNow DEF RecShapes
    <3> QED BY <1>1, <1>7, <3>1 DEF ReachInv
  <2> QED BY <1>2, <2>1, <2>2 DEF ReachInv, Stores
<1>14. StepInv'
  BY <1>2, <1>3, <1>9 DEF StepInv
<1> QED BY <1>10, <1>11, <1>12, <1>13, <1>14 DEF RecInv

LEMMA RecInvStep == RecInv /\ [RecNext]_recVars => RecInv'
<1> SUFFICES ASSUME RecInv, [RecNext]_recVars PROVE RecInv'
  OBVIOUS
<1>1. CASE \E act \in {"configure", "revoke", "recover", "rest"} : OthersRecord(act)
  BY <1>1, OthersRecordInv
<1>2. CASE OthersKit \/ SetupBegins \/ SetupEnds \/ SetupCancelled
  BY <1>2, SetupInv
<1>3. ASSUME NEW b \in BOOLEAN,
             KitPut(b) \/ SetupCommits(b) \/ StageSaved(b) \/ StorePublished(b) \/ RecoveryHandled(b) \/ ProfileWritten(b)
      PROVE  RecInv'
  BY <1>3, SetupInv, SetupCommitsInv, StageSavedInv, PublishedInv, RecoveryHandledInv, ProfileWrittenInv
<1>4. CASE StoreResumed \/ PublishBegins \/ RecoveryConfirmed \/ \E g \in 1 .. MaxLog : StageBegins(g)
  BY <1>4, StagingInv
<1>5. CASE \E s \in Stores : StoreMarked(s)
  BY <1>5, StoreMarkedInv
<1>6. CASE EpochKept \/ RecoverySigned \/ StageRemoved \/ PageLoads
  BY <1>6, EpochKeptInv, PublishedInv, StageRemovedInv, PageLoadsInv
<1>7. CASE UNCHANGED recVars
  <2>1. UNCHANGED <<chain, kits, draft, marker, item, active, stage, using, step, epochs, fails, assured>>
    BY <1>7 DEF recVars
  <2>2. RecShapes' /\ KitInv'
    BY <2>1 DEF RecInv, RecShapes, KitInv, Stores
  <2>3. StageInv' /\ ReachInv' /\ StepInv'
    BY <2>1 DEF RecInv, StageInv, ReachInv, StepInv, Stores
  <2> QED BY <2>2, <2>3 DEF RecInv
<1> QED BY <1>1, <1>2, <1>3, <1>4, <1>5, <1>6, <1>7 DEF RecNext

LEMMA RecInvImplies == RecInv => RecTypeOK /\ RecoveryInReach
<1> SUFFICES ASSUME RecInv PROVE RecTypeOK /\ RecoveryInReach
  OBVIOUS
<1>1. RecShapes /\ KitInv /\ ReachInv
  BY DEF RecInv
<1>2. chain.gen \in 0 .. chain.made /\ chain.epoch \in 0 .. epochs /\ item.epoch \in 0 .. epochs
  BY <1>1, RecNow DEF RecShapes
<1>3. \A s \in Stores : marker[s].state \in {"none", "staged", "published"} /\ marker[s].floor \in 0 .. chain.seq
  <2>1. chain.seq \in Nat
    BY <1>1, RecNow
  <2> QED BY <1>1, <2>1 DEF RecShapes, RecMarks
<1>4. RecTypeOK
  BY <1>1, <1>2, <1>3, RecNow DEF RecShapes, RecTypeOK
<1>5. RecoveryInReach
  BY <1>1 DEF KitInv, ReachInv, RecoveryInReach
<1> QED BY <1>4, <1>5

-----------------------------------------------------------------------------
(* The client's two ceremonies as a whole.                                 *)

(* Neither ceremony of the encrypted client loses what it can still need,  *)
(* for any mail the hub holds, any number of stores, epochs and records of *)
(* the chain, and whatever fails or is done by another device meanwhile:   *)
(* what a host sealed is opened, journaled or still at the hub, and the    *)
(* owner's place in a recovery is on this device or published.             *)
THEOREM ClientKeepsHolds == Spec => []ClientKeeps
<1> DEFINE Inv == MailInv /\ RecInv
<1>1. Init => Inv
  BY MailInvInit, RecInvInit DEF Init
<1>2. Inv /\ [Next]_<<part, appVars, adapterVars, deskVars, loginVars, mailVars, recVars, pairVars>> => Inv'
  <2> SUFFICES ASSUME Inv, [Next]_<<part, appVars, adapterVars, deskVars, loginVars, mailVars, recVars, pairVars>>
               PROVE  Inv'
    OBVIOUS
  <2>1. [MailboxNext]_mailVars /\ [RecNext]_recVars
    BY DEF Next
  <2> QED BY <2>1, MailInvStep, RecInvStep
<1>3. Inv => ClientKeeps
  BY MailInvImplies, RecInvImplies DEF ClientKeeps
<1> QED BY <1>1, <1>2, <1>3, PTL DEF Spec

=============================================================================
