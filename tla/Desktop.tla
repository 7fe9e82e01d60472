------------------------------- MODULE Desktop -------------------------------
(***************************************************************************)
(* The desktop shell: the team service and the execution host it starts as *)
(* child processes, its window and tray, and the things a person agrees to *)
(* in a native dialog, each of which restarts the host                     *)
(* (apps/desktop/main.js, lifecycle.js, local-runtime-rpc.js).             *)
(*                                                                         *)
(* The shell is one thread, but most of what it does waits in the middle:  *)
(* for a dialog, for a process to end, for an answer.  A job is such a     *)
(* function in flight.  Logs, layout, the tray's words and window bounds   *)
(* are left out; so is the crypto broker.                                  *)
(***************************************************************************)
EXTENDS Integers, Sequences, FiniteSets

CONSTANTS
  Grants,      \* things agreed to that go to runtime.json and restart the host
  Candidates,  \* devices proposed as freshness signer, each once
  NoSigner,    \* the signer nobody chose here
  MaxProcs,    \* bound: processes started
  MaxBoots,    \* bound: boots
  MaxAsked     \* bound: things a person asks of the shell

ASSUME DesktopAssumption ==
  /\ NoSigner \notin Candidates /\ {MaxProcs, MaxBoots, MaxAsked} \subseteq Nat
  /\ Grants \cap {"boot", "retry", "codex", "fresh", "quit", "again"} = {} \* a function of its own each

VARIABLES
  shell,   \* the shell's variables
  procs,   \* processes started, by number
  jobs,    \* what waits, by the function it is
  config,  \* disk: what runtime.json says was agreed to
  signer,  \* disk: the host's freshness signer
  agreed,  \* history: candidates the person said yes to
  told     \* history: candidates reported confirmed, and the signer of the host then in use

deskVars == <<shell, procs, jobs, config, signer, agreed, told>>

Quits == {"quit", "again"}
Slots == {"boot", "retry", "codex", "fresh"} \cup Quits \cup Grants
NoJob == [pc |-> "idle", child |-> 0, left |-> <<>>, read |-> {}, who |-> NoSigner, no |-> 0, reply |-> "none"]
NoOffer == [no |-> 0, prior |-> NoSigner]
NoProc == [pc |-> "none", kind |-> "host", ready |-> FALSE, busy |-> FALSE, signer |-> NoSigner, offer |-> NoOffer, mail |-> <<>>]

DeskInit ==
  /\ \E tray \in BOOLEAN :
       shell = [host |-> 0, hub |-> 0, children |-> {}, quitting |-> FALSE, exited |-> FALSE, launch |-> FALSE, booted |-> FALSE,
                page |-> "none", tray |-> tray, boots |-> 0, asked |-> 0]
  /\ procs = [p \in 1..MaxProcs |-> NoProc] /\ jobs = [s \in Slots |-> NoJob]
  /\ config = {} /\ signer = NoSigner /\ agreed = {} /\ told = {}

Lives(ps, p) == p # 0 /\ ps[p].pc \in {"up", "stopping"}
Idle(s) == jobs[s].pc = "idle"
At(s, pc) == jobs[s].pc = pc /\ ~shell.exited
Now(s, pc) == [jobs EXCEPT ![s].pc = pc]
Over(s) == [jobs EXCEPT ![s] = NoJob]
Rest == <<config, signer, agreed, told>>

(* spawnService: one more child.                                           *)
Free(ps) == {p \in 1..MaxProcs : ps[p].pc = "none"}
NewPid(ps) == CHOOSE p \in Free(ps) : \A q \in Free(ps) : p <= q
Spawned(sh, ps, kind) ==
  LET p == NewPid(ps) IN
  [sh |-> [sh EXCEPT !.children = @ \cup {p}, !.host = IF kind = "host" THEN p ELSE @, !.hub = IF kind = "hub" THEN p ELSE @],
   ps |-> [ps EXCEPT ![p] = [NoProc EXCEPT !.pc = "up", !.kind = kind, !.signer = signer]]]

(* launchRuntime: a second host only when the first has ended.             *)
Launched(sh, ps) == IF ~sh.launch \/ Lives(ps, sh.host) THEN [sh |-> sh, ps |-> ps] ELSE Spawned(sh, ps, "host")

(* stopService, up to its first wait: the process is asked.                *)
ToldToStop(ps, S) == [p \in 1..MaxProcs |-> IF p \in S /\ ps[p].pc = "up" THEN [ps[p] EXCEPT !.pc = "stopping"] ELSE ps[p]]

(* A process ends: it crashed, it was asked, or it was killed when asking  *)
(* took too long.                                                          *)
ProcessEnds(p) ==
  /\ Lives(procs, p) /\ procs' = [procs EXCEPT ![p] = [NoProc EXCEPT !.pc = "dead", !.kind = procs[p].kind]]
  /\ UNCHANGED <<shell, jobs, Rest>>

HubIsUp == \E p \in 1..MaxProcs : procs[p].kind = "hub" /\ procs[p].pc = "up"
HostIsReady(p) ==
  /\ procs[p].pc = "up" /\ procs[p].kind = "host" /\ ~procs[p].ready /\ HubIsUp /\ ~shell.exited
  /\ procs' = [procs EXCEPT ![p].ready = TRUE] /\ UNCHANGED <<shell, jobs, Rest>>
HostWorks(p) ==
  /\ procs[p].pc = "up" /\ procs[p].ready /\ procs' = [procs EXCEPT ![p].busy = ~@] /\ UNCHANGED <<shell, jobs, Rest>>

-----------------------------------------------------------------------------
(* Starting, and trying again.                                             *)

BootsNow(sh, ps, s) ==
  /\ sh.boots < MaxBoots /\ Free(ps) # {}
  /\ LET r == Spawned([sh EXCEPT !.boots = @ + 1, !.page = "boot"], ps, "hub") IN shell' = r.sh /\ procs' = r.ps
  /\ jobs' = [jobs EXCEPT ![s] = [NoJob EXCEPT !.pc = "hub"]]

DesktopStarts == shell.boots = 0 /\ BootsNow(shell, procs, "boot") /\ UNCHANGED Rest

BootFails(s) == jobs' = Over(s) /\ shell' = [shell EXCEPT !.page = IF @ = "boot" THEN "failed" ELSE @]

(* waitForHub: any hub that answers will do; then the host is launched.    *)
HubAnswers(s) ==
  /\ At(s, "hub")
  /\ \/ /\ HubIsUp /\ (Lives(procs, shell.host) \/ Free(procs) # {})
        /\ LET r == Launched([shell EXCEPT !.launch = TRUE], procs) IN shell' = r.sh /\ procs' = r.ps
        /\ jobs' = Now(s, "host")
     \/ ~HubIsUp /\ BootFails(s) /\ UNCHANGED procs
  /\ UNCHANGED Rest

(* waitForRuntime looks at whichever host there is now; then the workspace *)
(* is opened, where there is a window.                                     *)
HostRegisters(s) ==
  LET ready == Lives(procs, shell.host) /\ procs[shell.host].ready IN
  /\ At(s, "host") /\ jobs' = Over(s) /\ UNCHANGED <<procs, Rest>>
  /\ IF ready /\ shell.page # "none" THEN shell' = [shell EXCEPT !.booted = TRUE, !.page = "app"]
     ELSE shell' = [shell EXCEPT !.booted = @ \/ ready, !.page = IF @ = "boot" THEN "failed" ELSE @]

(* retryBoot: everything is stopped, and only then forgotten.              *)
RetryAsked ==
  /\ shell.page = "failed" /\ Idle("retry") /\ ~shell.exited /\ shell.asked < MaxAsked
  /\ jobs' = [jobs EXCEPT !["retry"] = [NoJob EXCEPT !.pc = "stopping", !.read = shell.children]]
  /\ shell' = [shell EXCEPT !.children = {}, !.asked = @ + 1] /\ procs' = ToldToStop(procs, shell.children) /\ UNCHANGED Rest
RetryStopped ==
  /\ At("retry", "stopping") /\ \A p \in jobs["retry"].read : ~Lives(procs, p)
  /\ \/ shell.page # "none" /\ BootsNow([shell EXCEPT !.host = 0, !.hub = 0], procs, "retry")
     \/ shell.page = "none" /\ jobs' = Over("retry") /\ shell' = [shell EXCEPT !.host = 0, !.hub = 0] /\ UNCHANGED procs
  /\ UNCHANGED Rest

-----------------------------------------------------------------------------
(* Closing the window, and quitting.                                       *)

(* shutdown: the host first, then the hub, then the rest.                  *)
Others(sh) == sh.children \ {sh.host, sh.hub}
IfAny(p) == IF p = 0 THEN <<>> ELSE <<p>>
Order(S) == CHOOSE q \in [1..Cardinality(S) -> S] : \A i, j \in DOMAIN q : i < j => q[i] < q[j]
ShutsDown(sh, s) ==
  LET left == IfAny(sh.host) \o IfAny(sh.hub) \o Order(Others(sh)) IN
  /\ shell' = [sh EXCEPT !.quitting = TRUE, !.children = {}]
  /\ jobs' = [jobs EXCEPT ![s] = [NoJob EXCEPT !.pc = "down", !.left = left]]
  /\ procs' = ToldToStop(procs, IF left = <<>> THEN {} ELSE {Head(left)})

(* requestQuit: the host is asked what it runs, before the person is.      *)
QuitBegins(sh, s) ==
  /\ Idle(s) /\ ~sh.quitting /\ sh.asked < MaxAsked
  /\ LET sh1 == [sh EXCEPT !.asked = @ + 1] IN
       IF Lives(procs, sh.host) THEN jobs' = Now(s, "plan") /\ shell' = sh1 /\ UNCHANGED procs ELSE ShutsDown(sh1, s)
QuitAsked(s) == shell.boots > 0 /\ ~shell.exited /\ QuitBegins(shell, s) /\ UNCHANGED Rest
QuitPlanned(s) ==
  /\ At(s, "plan")
  /\ \/ Lives(procs, shell.host) /\ procs[shell.host].busy /\ jobs' = Now(s, "asked") /\ UNCHANGED <<shell, procs>>
     \/ shell.quitting /\ jobs' = Over(s) /\ UNCHANGED <<shell, procs>>
     \/ ~shell.quitting /\ ShutsDown(shell, s)
  /\ UNCHANGED Rest
QuitAnswered(s, yes) ==
  /\ At(s, "asked")
  /\ IF yes /\ ~shell.quitting THEN ShutsDown(shell, s) ELSE jobs' = Over(s) /\ UNCHANGED <<shell, procs>>
  /\ UNCHANGED Rest

(* Mutant: what was started during the shutdown is forgotten.              *)
AppExitsAlone == shell' = [shell EXCEPT !.exited = TRUE] /\ UNCHANGED procs

(* quit: whatever was started meanwhile is told to end, too.               *)
AppExits == shell' = [shell EXCEPT !.exited = TRUE] /\ procs' = ToldToStop(procs, shell.children)

(* The next one is asked once this one has ended; then the shell exits.    *)
ShutdownGoesOn(s) ==
  /\ At(s, "down") /\ (jobs[s].left # <<>> => ~Lives(procs, Head(jobs[s].left)))
  /\ LET left == IF jobs[s].left = <<>> THEN <<>> ELSE Tail(jobs[s].left) IN
       IF left # <<>> THEN jobs' = [jobs EXCEPT ![s].left = left] /\ procs' = ToldToStop(procs, {Head(left)}) /\ UNCHANGED shell
       ELSE AppExits /\ jobs' = [x \in Slots |-> NoJob]
  /\ UNCHANGED Rest

(* With a tray the window is only hidden.  Without one a closed window is  *)
(* the end, unless the person says to keep running.                        *)
WindowClosed ==
  /\ shell.page # "none" /\ ~shell.tray /\ UNCHANGED Rest
  /\ QuitBegins([shell EXCEPT !.page = "none"], "quit")

ShowWindow ==
  /\ shell.boots > 0 /\ ~shell.quitting /\ shell.page = "none" /\ UNCHANGED Rest
  /\ IF shell.booted /\ Lives(procs, shell.host) THEN shell' = [shell EXCEPT !.page = "app"] /\ UNCHANGED <<procs, jobs>>
     ELSE Idle("boot") /\ BootsNow(shell, procs, "boot")

-----------------------------------------------------------------------------
(* What a person agrees to.  Each is asked from the workspace's page.      *)

Asks(s) ==
  /\ shell.page = "app" /\ shell.launch /\ ~shell.exited /\ Idle(s) /\ shell.asked < MaxAsked
  /\ shell' = [shell EXCEPT !.asked = @ + 1]
StopsHost(s) ==
  /\ jobs' = [jobs EXCEPT ![s] = [NoJob EXCEPT !.pc = "stopping", !.child = shell.host]]
  /\ procs' = ToldToStop(procs, {shell.host})

(* pickAndAuthorizeProject, confirmEncryptionAuthority, and                *)
(* confirmApprovalAuthority: written at once, and the host restarted.      *)
GrantAsked(g) == g \notin config /\ Asks(g) /\ jobs' = Now(g, "dialog") /\ UNCHANGED <<procs, Rest>>
GrantChosen(g, yes) ==
  /\ At(g, "dialog") /\ UNCHANGED <<shell, signer, agreed, told>>
  /\ IF yes THEN config' = config \cup {g} /\ StopsHost(g) ELSE jobs' = Over(g) /\ UNCHANGED <<config, procs>>

(* configureCodex: the file is read, the provider is tried, the file is    *)
(* written from what was read.                                             *)
CodexAsked == Asks("codex") /\ "codex" \notin config /\ jobs' = Now("codex", "dialog") /\ UNCHANGED <<procs, Rest>>
CodexChosen(yes) ==
  /\ At("codex", "dialog") /\ UNCHANGED <<shell, procs, Rest>>
  /\ jobs' = IF yes THEN [jobs EXCEPT !["codex"] = [@ EXCEPT !.pc = "checking", !.read = config]] ELSE Over("codex")
CodexChecked(ok) ==
  /\ At("codex", "checking") /\ UNCHANGED <<shell, signer, agreed, told>>
  /\ IF ok THEN config' = jobs["codex"].read \cup {"codex"} /\ StopsHost("codex")
     ELSE jobs' = Over("codex") /\ UNCHANGED <<config, procs>>

HostRestarts(s) ==
  /\ At(s, "stopping") /\ s \in Grants \cup {"codex"} /\ ~Lives(procs, jobs[s].child)
  /\ Lives(procs, shell.host) \/ Free(procs) # {}
  /\ LET r == Launched(shell, procs) IN shell' = r.sh /\ procs' = r.ps
  /\ jobs' = Over(s) /\ UNCHANGED Rest

-----------------------------------------------------------------------------
(* confirmFreshnessAuthority: a question to the host, a question to the    *)
(* person, an order to the same host, and its restart.  The number is the  *)
(* request's and, once answered, the proposal's.                           *)

Current == shell.host = jobs["fresh"].child /\ Lives(procs, shell.host)
ToHost(kind, c, no, p) == procs' = [procs EXCEPT ![p].mail = Append(@, [kind |-> kind, who |-> c, no |-> no])]
FreshOver == jobs' = Over("fresh")

FreshAsked(c) ==
  /\ Asks("fresh") /\ Lives(procs, shell.host) /\ c \notin agreed /\ Len(procs[shell.host].mail) < 2
  /\ jobs' = [jobs EXCEPT !["fresh"] = [NoJob EXCEPT !.pc = "prepare", !.child = shell.host, !.who = c, !.no = shell.asked + 1]]
  /\ ToHost("prepare", c, shell.asked + 1, shell.host) /\ UNCHANGED Rest

(* The host takes a request of its parent, while it is not stopping.  It   *)
(* keeps one proposal, used up by its commit, which fails when the signer  *)
(* is no longer who it was at the proposal.  The answer counts only if the *)
(* request is still pending.                                               *)
HostTakes(p) ==
  LET m == Head(procs[p].mail)
      free == ~procs[p].busy /\ procs[p].ready
      ok == free /\ (m.kind = "commit" => procs[p].offer = [no |-> m.no, prior |-> signer])
      waits == jobs["fresh"].pc = m.kind /\ jobs["fresh"].no = m.no
  IN /\ procs[p].pc = "up" /\ procs[p].mail # <<>>
     /\ procs' = [procs EXCEPT ![p].mail = Tail(@),
                               ![p].offer = IF free /\ m.kind = "prepare" THEN [no |-> m.no, prior |-> signer]
                                            ELSE IF free /\ @.no = m.no THEN NoOffer ELSE @]
     /\ signer' = IF ok /\ m.kind = "commit" THEN m.who ELSE signer
     /\ jobs' = IF waits THEN [jobs EXCEPT !["fresh"].reply = IF ok THEN "ok" ELSE "no"] ELSE jobs
     /\ UNCHANGED <<shell, config, agreed, told>>

(* The answer, if the host is still the one that was asked and the         *)
(* proposal has not run out meanwhile.                                     *)
FreshReplied(late) ==
  /\ ~shell.exited /\ jobs["fresh"].reply # "none" /\ UNCHANGED <<shell, Rest>>
  /\ \/ (jobs["fresh"].reply = "no" \/ ~Current) /\ FreshOver /\ UNCHANGED procs
     \/ /\ jobs["fresh"].reply = "ok" /\ Current /\ jobs["fresh"].pc = "prepare" /\ UNCHANGED procs
        /\ IF late THEN FreshOver ELSE jobs' = [jobs EXCEPT !["fresh"].pc = "dialog", !["fresh"].reply = "none"]
     \/ /\ jobs["fresh"].reply = "ok" /\ Current /\ jobs["fresh"].pc = "commit"
        /\ IF shell.quitting THEN FreshOver /\ UNCHANGED procs
           ELSE /\ jobs' = [jobs EXCEPT !["fresh"].pc = "stopping", !["fresh"].reply = "none"]
                /\ procs' = ToldToStop(procs, {shell.host})

(* The host is gone, or ten seconds are.                                   *)
FreshTimesOut ==
  /\ ~shell.exited /\ jobs["fresh"].pc \in {"prepare", "commit"} /\ jobs["fresh"].reply = "none"
  /\ FreshOver /\ UNCHANGED <<shell, procs, Rest>>

FreshChosen(yes, late) ==
  /\ At("fresh", "dialog") /\ UNCHANGED <<shell, config, signer, told>>
  /\ agreed' = IF yes THEN agreed \cup {jobs["fresh"].who} ELSE agreed
  /\ IF yes /\ Current /\ ~late
     THEN jobs' = Now("fresh", "commit") /\ ToHost("commit", jobs["fresh"].who, jobs["fresh"].no, shell.host)
     ELSE FreshOver /\ UNCHANGED procs

FreshRestarts ==
  /\ At("fresh", "stopping") /\ ~Lives(procs, jobs["fresh"].child) /\ UNCHANGED Rest
  /\ IF shell.quitting \/ shell.host # jobs["fresh"].child THEN FreshOver /\ UNCHANGED <<shell, procs>>
     ELSE /\ Free(procs) # {}
          /\ LET r == Launched(shell, procs) IN
               shell' = r.sh /\ procs' = r.ps /\ jobs' = [jobs EXCEPT !["fresh"].pc = "ready", !["fresh"].child = r.sh.host]

FreshReady ==
  /\ At("fresh", "ready") /\ FreshOver /\ UNCHANGED <<shell, procs, config, signer, agreed>>
  /\ told' = IF Current /\ procs[shell.host].ready THEN told \cup {[who |-> jobs["fresh"].who, used |-> procs[shell.host].signer]} ELSE told

DeskNext ==
  \/ DesktopStarts \/ RetryAsked \/ RetryStopped \/ WindowClosed \/ ShowWindow
  \/ \E p \in 1..MaxProcs : ProcessEnds(p) \/ HostIsReady(p) \/ HostWorks(p) \/ HostTakes(p)
  \/ \E s \in {"boot", "retry"} : HubAnswers(s) \/ HostRegisters(s)
  \/ \E s \in Quits : QuitAsked(s) \/ QuitPlanned(s) \/ ShutdownGoesOn(s) \/ \E yes \in BOOLEAN : QuitAnswered(s, yes)
  \/ \E g \in Grants : GrantAsked(g) \/ \E yes \in BOOLEAN : GrantChosen(g, yes)
  \/ CodexAsked \/ \E yes \in BOOLEAN : CodexChosen(yes) \/ CodexChecked(yes)
  \/ \E s \in Slots : HostRestarts(s)
  \/ \E c \in Candidates : FreshAsked(c)
  \/ \E yes, late \in BOOLEAN : FreshChosen(yes, late)
  \/ \E late \in BOOLEAN : FreshReplied(late)
  \/ FreshTimesOut \/ FreshRestarts \/ FreshReady

DeskSpec == DeskInit /\ [][DeskNext]_deskVars

-----------------------------------------------------------------------------
(* Every variable has its shape.                                           *)
DeskTypeOK ==
  /\ shell.host \in 0..MaxProcs /\ shell.hub \in 0..MaxProcs /\ shell.children \subseteq 1..MaxProcs
  /\ shell.page \in {"none", "boot", "failed", "app"} /\ shell.boots \in 0..MaxBoots
  /\ \A p \in 1..MaxProcs : procs[p].pc \in {"none", "up", "stopping", "dead"} /\ Len(procs[p].mail) <= 3
  /\ \A s \in Slots : jobs[s].pc \in {"idle", "hub", "host", "stopping", "plan", "asked", "down", "dialog", "checking",
                                      "prepare", "commit", "ready"}
  /\ config \subseteq Grants \cup {"codex"} /\ signer \in Candidates \cup {NoSigner} /\ agreed \subseteq Candidates

(* The shell answers for its processes and for the person.  When it exits  *)
(* every process it ever started has ended or was told to, those too that  *)
(* a restart, a retry or a boot started while it was shutting down         *)
(* (main.js:260-273, 323-340, 625-640, 700); the host trusts a signer only *)
(* if the person said yes to that very one, and the person is told so only *)
(* when a host that trusts it is in use (local-runtime-rpc.js:101-143).    *)
HostIsOwned ==
  /\ shell.exited => \A p \in 1..MaxProcs : procs[p].pc # "up"
  /\ signer \in agreed \cup {NoSigner}
  /\ \A t \in told : t.who \in agreed /\ t.used = t.who

=============================================================================
