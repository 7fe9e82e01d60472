----------------------------- MODULE HostPairing -----------------------------
(***************************************************************************)
(* How a team gets an execution host and lets it go: the code the host     *)
(* shows on its own machine, the hub's pairing and registration            *)
(* (packages/hub/server.js, store.js), and what the host keeps of it       *)
(* (packages/runtime/index.js), with the encrypted host it starts for its  *)
(* team over a crypto store that two of them must never share.             *)
(*                                                                         *)
(* One host, which presents its own credential.  Connections deliver in    *)
(* order, break with what is on the way, and each end sees the close in    *)
(* its own time.  The credential's hash, descriptors and lists are left    *)
(* out; commands in flight are module CommandLedger.                       *)
(***************************************************************************)
EXTENDS Integers, Sequences, FiniteSets

CONSTANTS
  PairTeams,  \* teams whose owners may type a code they were told
  NoTeam,     \* no team
  Authority,  \* the team the host's encryption is set up for
  MaxLinks,   \* bound: connections
  MaxStarts   \* bound: starts of the host's process

ASSUME PairingAssumption ==
  /\ NoTeam \notin PairTeams /\ Authority \in PairTeams
  /\ MaxLinks \in Nat /\ MaxStarts \in Nat

VARIABLES
  pairedTo,   \* hub store: the pairing
  waiting,    \* hub: pendingPairings, codes and their connections
  serving,    \* hub: the connection in runtimes, 0 without one
  links,      \* connections, by number
  machine,    \* host: its process, code, team, connection
  enc,        \* host memory: the encrypted host and what starts and ends it
  stores,     \* encrypted hosts that have the crypto store open
  minted,     \* codes made so far
  starts,     \* starts so far
  used,       \* history: codes that paired the host
  again,      \* history: those that did so twice
  missed,     \* history: the last word on the pairing did not reach the host
  unheard     \* history: that ever happened

pairVars == <<pairedTo, waiting, serving, links, machine, enc, stores, minted, starts, used, again, missed, unheard>>

LinkIds == 1..MaxLinks
NoConn == [far |-> "none", near |-> "none", cut |-> FALSE, hello |-> -1, inbox |-> <<>>, team |-> NoTeam]
NoStart == [pc |-> "none", gen |-> 0, after |-> 0, id |-> 0]
NoEnc == [host |-> 0, gen |-> 0, start |-> NoStart, starts |-> 0, opened |-> 0, closings |-> <<>>, retired |-> 0]

(* The shell hands its host one code for as long as it runs, or none.      *)
PairInit ==
  /\ pairedTo = NoTeam /\ waiting = {} /\ serving = 0 /\ links = [l \in LinkIds |-> NoConn]
  /\ \E given \in BOOLEAN :
       /\ machine = [up |-> FALSE, given |-> given, code |-> 0, team |-> NoTeam, disk |-> NoTeam, link |-> 0]
       /\ minted = IF given THEN 1 ELSE 0
  /\ enc = NoEnc /\ stores = {} /\ starts = 0 /\ used = {} /\ again = {} /\ missed = FALSE /\ unheard = FALSE

-----------------------------------------------------------------------------
(* The encrypted host.                                                     *)

(* retireEncryptedHost: the old one closes once whatever still runs is     *)
(* over, a start under way included.                                       *)
Retired(e) ==
  [e EXCEPT !.gen = @ + 1, !.host = 0, !.retired = @ + 1,
            !.closings = Append(@, [host |-> e.host, start |-> e.start.id])]

(* ensureEncryptedHost: one start at a time, after what was retired by now.*)
Ensured(e, team) ==
  IF e.start.pc # "none" \/ e.host # 0 \/ team # Authority THEN e
  ELSE [e EXCEPT !.start = [pc |-> "waiting", gen |-> e.gen, after |-> e.retired, id |-> e.starts + 1], !.starts = @ + 1]

Unchallenged == enc.start.gen = enc.gen /\ machine.team = Authority
(* The start's finally: another one if this one was overtaken.             *)
StartOver(e) == LET done == [e EXCEPT !.start = NoStart] IN IF Unchallenged THEN done ELSE Ensured(done, machine.team)

(* Mutant: the store is opened without waiting for the old one.            *)
StartProceedsHasty ==
  /\ enc.start.pc = "waiting"
  /\ IF Unchallenged THEN enc' = [enc EXCEPT !.start.pc = "opening", !.opened = @ + 1] /\ stores' = stores \cup {enc.opened + 1}
                ELSE enc' = StartOver(enc) /\ UNCHANGED stores
  /\ UNCHANGED <<pairedTo, waiting, serving, links, machine, minted, starts, used, again, missed, unheard>>

StartProceeds ==
  /\ enc.start.pc = "waiting" /\ enc.retired - Len(enc.closings) >= enc.start.after
  /\ IF Unchallenged THEN enc' = [enc EXCEPT !.start.pc = "opening", !.opened = @ + 1] /\ stores' = stores \cup {enc.opened + 1}
                ELSE enc' = StartOver(enc) /\ UNCHANGED stores
  /\ UNCHANGED <<pairedTo, waiting, serving, links, machine, minted, starts, used, again, missed, unheard>>

StartReady(ok) ==
  /\ enc.start.pc = "opening"
  /\ enc' = IF ok /\ Unchallenged THEN [enc EXCEPT !.host = enc.opened, !.start = NoStart] ELSE [enc EXCEPT !.start.pc = "discarding"]
  /\ UNCHANGED <<pairedTo, waiting, serving, links, machine, stores, minted, starts, used, again, missed, unheard>>
StartDiscarded ==
  /\ enc.start.pc = "discarding" /\ stores' = stores \ {enc.opened} /\ enc' = StartOver(enc)
  /\ UNCHANGED <<pairedTo, waiting, serving, links, machine, minted, starts, used, again, missed, unheard>>

RetirementEnds ==
  /\ enc.closings # <<>>
  /\ LET c == Head(enc.closings) IN (c.start = 0 \/ enc.start.id # c.start) /\ stores' = stores \ {c.host}
  /\ enc' = [enc EXCEPT !.closings = Tail(@)]
  /\ UNCHANGED <<pairedTo, waiting, serving, links, machine, minted, starts, used, again, missed, unheard>>

-----------------------------------------------------------------------------
(* Connections.                                                            *)

Whole(ls, l) == l # 0 /\ ls[l].far = "open" /\ ~ls[l].cut /\ ls[l].near = "open"
Carried(ls, l, m) == IF Whole(ls, l) THEN [ls EXCEPT ![l].inbox = Append(@, m)] ELSE ls
Reaches(l) == Whole(links, l)
Words(l) == {i \in 1..Len(links[l].inbox) : links[l].inbox[i].type # "welcome"}
Dropped(l) == missed' = (missed \/ Words(l) # {}) /\ unheard' = (unheard \/ Words(l) # {})

(* The process ends, with whatever was on its way to it.                   *)
HostStops ==
  /\ machine.up /\ machine' = [machine EXCEPT !.up = FALSE, !.code = 0, !.team = NoTeam, !.link = 0] /\ enc' = NoEnc /\ stores' = {}
  /\ IF machine.link = 0 THEN UNCHANGED <<links, missed, unheard>>
     ELSE links' = [links EXCEPT ![machine.link] = [@ EXCEPT !.near = "gone", !.cut = TRUE, !.inbox = <<>>]] /\ Dropped(machine.link)
  /\ UNCHANGED <<pairedTo, waiting, serving, minted, starts, used, again>>
HostStarts ==
  /\ ~machine.up /\ starts < MaxStarts /\ starts' = starts + 1
  /\ minted' = IF machine.given THEN minted ELSE minted + 1
  /\ machine' = [machine EXCEPT !.up = TRUE, !.team = machine.disk, !.code = IF machine.given THEN 1 ELSE minted + 1]
  /\ UNCHANGED <<pairedTo, waiting, serving, links, enc, stores, used, again, missed, unheard>>

HostDials(l) ==
  /\ machine.up /\ machine.link = 0 /\ links[l] = NoConn /\ \A k \in 1..(l - 1) : links[k] # NoConn
  /\ links' = [links EXCEPT ![l] = [NoConn EXCEPT !.far = "open", !.near = "open", !.hello = machine.code]]
  /\ machine' = [machine EXCEPT !.link = l]
  /\ UNCHANGED <<pairedTo, waiting, serving, enc, stores, minted, starts, used, again, missed, unheard>>
LinkBreaks(l) ==
  /\ ~links[l].cut /\ "open" \in {links[l].far, links[l].near}
  /\ links' = [links EXCEPT ![l] = [@ EXCEPT !.cut = TRUE, !.hello = -1, !.inbox = <<>>]] /\ Dropped(l)
  /\ UNCHANGED <<pairedTo, waiting, serving, machine, enc, stores, minted, starts, used, again>>
HostSeesEnd(l) ==
  /\ links[l].near \in {"open", "closing"} /\ links[l].inbox = <<>>
  /\ links[l].cut \/ links[l].near = "closing" \/ links[l].far # "open"
  /\ links' = [links EXCEPT ![l].near = "gone"] /\ machine' = [machine EXCEPT !.link = 0]
  /\ UNCHANGED <<pairedTo, waiting, serving, enc, stores, minted, starts, used, again, missed, unheard>>

HubSeesEnd(l) ==
  /\ links[l].far \in {"open", "closing"} /\ (links[l].cut \/ links[l].near # "open" \/ links[l].far = "closing")
  /\ links' = [links EXCEPT ![l].far = "gone"]
  /\ waiting' = {w \in waiting : w.link # l} /\ serving' = IF serving = l THEN 0 ELSE serving
  /\ UNCHANGED <<pairedTo, machine, enc, stores, minted, starts, used, again, missed, unheard>>

-----------------------------------------------------------------------------
(* The hub.                                                                *)

(* A connection takes the host's place; the one before it is closed.       *)
Registered(l, team, type) ==
  LET ls == [links EXCEPT ![l].team = team, ![l].hello = -1] IN
  /\ serving' = l /\ waiting' = {}
  /\ links' = Carried(IF serving \notin {0, l} /\ links[serving].far = "open" THEN [ls EXCEPT ![serving].far = "closing"] ELSE ls,
                   l, [type |-> type, team |-> team])

(* onHello: a paired host is registered, another is parked under its code; *)
(* without one, or with one in use, it is refused and hears no more.       *)
HostGreeted(l) ==
  LET code == links[l].hello IN
  /\ links[l].far = "open" /\ code # -1
  /\ IF pairedTo # NoTeam THEN Registered(l, pairedTo, "welcome")
     ELSE /\ UNCHANGED serving
          /\ IF code = 0 \/ \E w \in waiting : w.code = code
             THEN links' = [links EXCEPT ![l].hello = -1] /\ UNCHANGED waiting
             ELSE /\ waiting' = waiting \cup {[code |-> code, link |-> l]}
                  /\ links' = Carried([links EXCEPT ![l].hello = -1], l, [type |-> "welcome", team |-> NoTeam])
  /\ UNCHANGED <<pairedTo, machine, enc, stores, minted, starts, used, again, missed, unheard>>

(* An owner types a code: it has run out, its connection is gone, or it is *)
(* good and every other code of this host goes with it.                    *)
PairingRefused(w) ==
  /\ w \in waiting /\ waiting' = waiting \ {w}
  /\ UNCHANGED <<pairedTo, serving, links, machine, enc, stores, minted, starts, used, again, missed, unheard>>
RuntimePaired(t, w) ==
  /\ w \in waiting /\ links[w.link].far = "open" /\ pairedTo' = t /\ Registered(w.link, t, "paired")
  /\ used' = used \cup {w.code} /\ again' = IF w.code \in used THEN again \cup {w.code} ELSE again
  /\ missed' = ~Reaches(w.link) /\ unheard' = (unheard \/ ~Reaches(w.link))
  /\ UNCHANGED <<machine, enc, stores, minted, starts>>

(* Mutant: an unpaired host stays registered.                              *)
RuntimeUnpairedStill ==
  /\ pairedTo # NoTeam /\ pairedTo' = NoTeam /\ waiting' = {} /\ UNCHANGED serving
  /\ links' = Carried(links, serving, [type |-> "unpaired", team |-> NoTeam])
  /\ missed' = ~Reaches(serving) /\ unheard' = (unheard \/ ~Reaches(serving))
  /\ UNCHANGED <<machine, enc, stores, minted, starts, used, again>>
RuntimeUnpaired ==
  /\ pairedTo # NoTeam /\ pairedTo' = NoTeam /\ waiting' = {} /\ serving' = 0
  /\ links' = Carried(IF serving = 0 THEN links ELSE [links EXCEPT ![serving].team = NoTeam], serving, [type |-> "unpaired", team |-> NoTeam])
  /\ missed' = ~Reaches(serving) /\ unheard' = (unheard \/ ~Reaches(serving))
  /\ UNCHANGED <<machine, enc, stores, minted, starts, used, again>>

HubRestarts ==
  /\ \E l \in LinkIds : links[l].far \in {"open", "closing"}
  /\ waiting' = {} /\ serving' = 0
  /\ links' = [l \in LinkIds |-> IF links[l] = NoConn THEN NoConn
                                 ELSE [links[l] EXCEPT !.far = "gone", !.cut = TRUE, !.hello = -1, !.inbox = <<>>]]
  /\ IF machine.link = 0 THEN UNCHANGED <<missed, unheard>> ELSE Dropped(machine.link)
  /\ UNCHANGED <<pairedTo, machine, enc, stores, minted, starts, used, again>>

-----------------------------------------------------------------------------
(* What the host hears.                                                    *)

Heard(l, type) == machine.link = l /\ links[l].near = "open" /\ links[l].inbox # <<>> /\ Head(links[l].inbox).type = type

(* welcome: a paired host's code is gone; its team is not in the message   *)
(* it reads.                                                               *)
WelcomeHeard(l) ==
  /\ Heard(l, "welcome") /\ links' = [links EXCEPT ![l].inbox = Tail(@)]
  /\ IF Head(links[l].inbox).team # NoTeam THEN machine' = [machine EXCEPT !.code = 0] /\ enc' = Ensured(enc, machine.team)
                                           ELSE UNCHANGED <<machine, enc>>
  /\ UNCHANGED <<pairedTo, waiting, serving, stores, minted, starts, used, again, missed, unheard>>
PairedHeard(l) ==
  LET t == Head(links[l].inbox).team IN
  /\ Heard(l, "paired") /\ links' = [links EXCEPT ![l].inbox = Tail(@)]
  /\ machine' = [machine EXCEPT !.code = 0, !.team = t, !.disk = t]
  /\ enc' = Ensured(IF machine.team \notin {NoTeam, t} THEN Retired(enc) ELSE enc, t)
  /\ UNCHANGED <<pairedTo, waiting, serving, stores, minted, starts, used, again, missed, unheard>>
(* unpaired: a new code, and a new connection that presents it.            *)
UnpairedHeard(l) ==
  /\ Heard(l, "unpaired") /\ links' = [links EXCEPT ![l].inbox = <<>>, ![l].near = "closing"]
  /\ minted' = minted + 1 /\ machine' = [machine EXCEPT !.code = minted + 1, !.team = NoTeam, !.disk = NoTeam]
  /\ enc' = Retired(enc)
  /\ UNCHANGED <<pairedTo, waiting, serving, stores, starts, used, again, missed, unheard>>

PairNext ==
  \/ StartProceeds \/ StartDiscarded \/ RetirementEnds \/ \E ok \in BOOLEAN : StartReady(ok)
  \/ HostStops \/ HostStarts \/ RuntimeUnpaired \/ HubRestarts
  \/ \E l \in LinkIds : \/ HostDials(l) \/ LinkBreaks(l) \/ HostSeesEnd(l) \/ HubSeesEnd(l) \/ HostGreeted(l)
                        \/ WelcomeHeard(l) \/ PairedHeard(l) \/ UnpairedHeard(l)
  \/ \E w \in waiting : PairingRefused(w) \/ \E t \in PairTeams : RuntimePaired(t, w)

PairSpec == PairInit /\ [][PairNext]_pairVars

-----------------------------------------------------------------------------
(* Every variable has its shape.                                           *)
PairTypeOK ==
  /\ pairedTo \in PairTeams \cup {NoTeam} /\ serving \in 0..MaxLinks /\ machine.link \in 0..MaxLinks
  /\ \A w \in waiting : w.code \in 1..minted /\ w.link \in LinkIds
  /\ \A v, w \in waiting : v.code = w.code => v = w
  /\ machine.team \in PairTeams \cup {NoTeam} /\ machine.code \in 0..minted /\ used \subseteq 1..minted

(* The hub serves a host for the team it is paired to, and over one        *)
(* connection that is not parked (server.js:345-351, 460-466, 515-521).    *)
(* A host whose connection is whole and which has heard everything acts    *)
(* for that team, unless the word of a pairing or of its end was lost      *)
(* (index.js:350-354, 368-371); and a code pairs it once, unless such a    *)
(* word was lost or the shell hands the code out again (index.js:116,      *)
(* 373-376).                                                               *)
HostFollowsPairing ==
  /\ serving # 0 => pairedTo # NoTeam /\ links[serving].team = pairedTo /\ \A w \in waiting : w.link # serving
  /\ LET l == machine.link IN
     l # 0 /\ Reaches(l) /\ links[l].hello = -1 /\ links[l].inbox = <<>> /\ ~missed => machine.team = pairedTo
  /\ again # {} => unheard \/ machine.given

(* The crypto store is open in one encrypted host at most, and the one in  *)
(* use is for the team the host acts for (index.js:250-258, 262-298).      *)
OneStoreOpen ==
  /\ Cardinality(stores) <= 1
  /\ enc.host # 0 => enc.host \in stores /\ machine.team = Authority

=============================================================================
