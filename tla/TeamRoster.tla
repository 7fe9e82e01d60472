----------------------------- MODULE TeamRoster -----------------------------
(***************************************************************************)
(* Who is in a team, who may look at its threads, and what they are shown. *)
(* The hub (packages/hub/server.js, store.js) keeps seats, invitations,    *)
(* approval grants and the subscriptions of each open connection; a tab of *)
(* the web client (apps/web/app.js) keeps the transcript it was sent.      *)
(*                                                                         *)
(* One team and one of its threads.  A handler of the hub is one action:   *)
(* it runs to the end and sends over connections that deliver in order.    *)
(* A tab reconnects once the hub has seen its old connection close.        *)
(***************************************************************************)
EXTENDS Integers, Sequences, FiniteSets, SequencesExt

CONSTANTS
  People,         \* accounts
  Founder,        \* the account that created the team
  Tabs,           \* browser tabs, each with at most one connection
  PersonOf,       \* the account a tab is signed in to
  Codes,          \* invitation codes
  MaxEvents,      \* bound: events ever appended to the thread's log
  MaxWire,        \* bound: messages in flight before a tab or the host acts
  MaxSeats,       \* bound: seats given by invitation
  MaxDrops        \* bound: connections lost

ASSUME RosterAssumption ==
  /\ Founder \in People /\ PersonOf \in [Tabs -> People]
  /\ {MaxEvents, MaxWire, MaxSeats, MaxDrops} \subseteq Nat

VARIABLES
  role,           \* hub store: memberships, "none" where there is no row
  approvers,      \* hub store: approvers
  invite,         \* hub store: invitations
  barred,         \* history: pending codes whose recipient was removed since
  thread,         \* hub store: the thread's row, "absent", "here" or "deleted"
  log,            \* hub store: events of the thread, by their order of creation
  made,           \* history: events created so far
  online,         \* hub: tabs with a connection that said hello
  subs,           \* hub: tabs whose ctx.subs holds the thread
  up, down,       \* messages in flight, per tab
  open,           \* tab: state.subscribedId is the thread
  shown,          \* tab: the events of the transcript on screen
  lastSeq,        \* tab: state.lastSeq
  viewers,        \* tab: state.viewers
  seats,          \* seats given so far
  drops,          \* connections lost so far
  orphaned        \* history: presence was due while the row was missing

hubVars == <<role, approvers, invite, barred, seats>>
threadVars == <<thread, log, made>>
tabVars == <<open, shown, lastSeq, viewers>>
vars == <<hubVars, threadVars, online, subs, up, down, tabVars, drops, orphaned>>

Roles == {"owner", "member"}
Member(p) == role[p] # "none"

(* An invitation that was accepted, revoked or is past its time is spent:  *)
(* the reason given differs, the refusal does not.                         *)
Unused == [status |-> "unused", for |-> Founder, role |-> "member"]
Spent == [Unused EXCEPT !.status = "spent"]

Init ==
  /\ role = [p \in People |-> IF p = Founder THEN "owner" ELSE "none"]
  /\ approvers = {} /\ barred = {} /\ seats = 0
  /\ invite = [c \in Codes |-> Unused]
  /\ thread = "absent" /\ log = <<>> /\ made = 0
  /\ online = {} /\ subs = {}
  /\ up = [t \in Tabs |-> <<>>] /\ down = [t \in Tabs |-> <<>>]
  /\ open = [t \in Tabs |-> FALSE] /\ shown = [t \in Tabs |-> <<>>]
  /\ lastSeq = [t \in Tabs |-> 0] /\ viewers = [t \in Tabs |-> {}]
  /\ drops = 0 /\ orphaned = FALSE

-----------------------------------------------------------------------------
(* What the hub sends.                                                     *)

Event(seq, e) == [type |-> "event", seq |-> seq, events |-> <<e>>, to |-> {}]
Presence(who) == [type |-> "presence", seq |-> 0, events |-> <<>>, to |-> who]
Snapshot(after, events) ==
  [type |-> "thread.snapshot", seq |-> after + Len(events), events |-> events, to |-> {}]
Notice(type) == [type |-> type, seq |-> 0, events |-> <<>>, to |-> {}]
Content == {"event", "presence", "thread.snapshot"}

(* viewers: the people behind the subscribed tabs who have a seat.         *)
Viewers == IF thread # "here" THEN {}
           ELSE {PersonOf[t] : t \in {u \in subs : Member(PersonOf[u])}}

Seated(ts) == {t \in ts : Member(PersonOf[t])}

Told(wire, ts, m) == [t \in Tabs |-> IF t \in ts THEN Append(wire[t], m) ELSE wire[t]]

(* broadcastPresence, with the seats and subscriptions the handler leaves: *)
(* nothing without a row; a subscriber without a seat is dropped.          *)
PresenceTo(wire, ts, members) ==
  LET kept == {t \in ts : PersonOf[t] \in members}
  IN  IF thread = "here" THEN Told(wire, kept, Presence({PersonOf[t] : t \in kept})) ELSE wire
KeptOf(ts, members) ==
  IF thread = "here" THEN {t \in ts : PersonOf[t] \in members} ELSE ts
Members == {p \in People : Member(p)}

(* Presence was due and the row that says whose thread it is was missing.  *)
Overlooked(due) == orphaned' = (orphaned \/ (due /\ thread # "here"))

Room == \A t \in Tabs : Len(down[t]) < MaxWire
Asks(t) == t \in online /\ Room

-----------------------------------------------------------------------------
(* Seats, invitations and approval authority.  An owner asks from a tab.   *)

OwnerAsks(t) == Asks(t) /\ role[PersonOf[t]] = "owner"

InviteCreated(t, p, r, c) ==
  /\ OwnerAsks(t) /\ ~Member(p) /\ invite[c].status = "unused"
  /\ invite' = [invite EXCEPT ![c] = [status |-> "pending", for |-> p, role |-> r]]
  /\ UNCHANGED <<role, approvers, barred, seats, threadVars, online, subs, up, down, tabVars, drops, orphaned>>

InviteExpires(c) ==
  /\ invite[c].status = "pending" /\ invite' = [invite EXCEPT ![c] = Spent]
  /\ UNCHANGED <<role, approvers, barred, seats, threadVars, online, subs, up, down, tabVars, drops, orphaned>>

InviteRevoked(t, c) ==
  /\ OwnerAsks(t) /\ invite[c].status = "pending"
  /\ invite' = [invite EXCEPT ![c] = Spent]
  /\ UNCHANGED <<role, approvers, barred, seats, threadVars, online, subs, up, down, tabVars, drops, orphaned>>

(* Mutant: the second look at the seat is left out.                        *)
RedeemableWithoutRecheck(c, p) ==
  invite[c].for = p /\ invite[c].status = "pending"

(* redeemInvitation: an invitation adds a seat, it never rewrites one.     *)
Redeemable(c, p) ==
  /\ invite[c].for = p /\ invite[c].status = "pending"
  /\ ~Member(p)

InviteAccepted(t, c) ==
  LET p == PersonOf[t]
  IN  /\ Asks(t) /\ Redeemable(c, p) /\ seats < MaxSeats
      /\ role' = [role EXCEPT ![p] = invite[c].role]
      /\ invite' = [invite EXCEPT ![c] = Spent]
      /\ seats' = seats + 1
      /\ down' = [down EXCEPT ![t] = Append(@, Notice("team"))]
      /\ Overlooked(t \in subs)
      /\ UNCHANGED <<approvers, barred, threadVars, online, subs, up, tabVars, drops>>

(* Mutant: invitations outlive the removal.                                *)
NotOutlived(codes) == {}
Outlived(codes) == codes

(* Mutant: approval authority outlives it.                                 *)
ApproversAll(p) == approvers
(* removeMember takes the seat, the approval authority and every pending   *)
(* invitation of the person, the ones past their time included.            *)
ApproversLeft(p) == approvers \ {p}

MemberRemoved(t, p) ==
  LET pending == {c \in Codes : invite[c].for = p /\ invite[c].status = "pending"}
      theirs == {u \in subs : PersonOf[u] = p}
      dropped == IF thread = "here" THEN theirs ELSE {}
      noticed == Told(down, {u \in online : PersonOf[u] = p}, Notice("removed"))
  IN  /\ OwnerAsks(t) /\ p # Founder /\ Member(p)
      /\ role' = [role EXCEPT ![p] = "none"]
      /\ approvers' = ApproversLeft(p)
      /\ invite' = [c \in Codes |-> IF c \in Outlived(pending) THEN Spent ELSE invite[c]]
      /\ barred' = {c \in barred \cup pending : invite'[c].status = "pending"}
      /\ subs' = IF dropped # {} THEN KeptOf(subs \ dropped, Members \ {p}) ELSE subs
      /\ down' = IF dropped # {} THEN PresenceTo(noticed, subs \ dropped, Members \ {p}) ELSE noticed
      /\ Overlooked(theirs # {})
      /\ UNCHANGED <<seats, threadVars, online, up, tabVars, drops>>

ApproverGranted(t, p) ==
  /\ OwnerAsks(t) /\ Member(p) /\ p \notin approvers
  /\ approvers' = approvers \cup {p}
  /\ UNCHANGED <<role, invite, barred, seats, threadVars, online, subs, up, down, tabVars, drops, orphaned>>

ApproverRevoked(t, p) ==
  /\ OwnerAsks(t) /\ p \in approvers
  /\ approvers' = approvers \ {p}
  /\ UNCHANGED <<role, invite, barred, seats, threadVars, online, subs, up, down, tabVars, drops, orphaned>>

-----------------------------------------------------------------------------
(* The host writes: onThreadUpsert, onAppend, and thread.delete.           *)

(* A row that was deleted comes back when the host writes it again.        *)
ThreadUpserted ==
  /\ Room /\ thread # "here"
  /\ thread' = "here"
  /\ UNCHANGED <<hubVars, log, made, online, subs, up, down, tabVars, drops, orphaned>>

(* Mutant: whoever is subscribed is told.                                  *)
AudienceWithoutRecheck == subs
Audience == Seated(subs)

Appended ==
  /\ Room /\ thread = "here" /\ made < MaxEvents
  /\ made' = made + 1 /\ log' = Append(log, made + 1)
  /\ subs' = Audience
  /\ down' = Told(down, Audience, Event(Len(log) + 1, made + 1))
  /\ UNCHANGED <<hubVars, thread, online, up, tabVars, drops, orphaned>>

(* deleteThread takes the log with it: a row that comes back starts anew.  *)
ThreadDeleted ==
  /\ Room /\ thread = "here"
  /\ thread' = "deleted" /\ log' = <<>>
  /\ down' = Told(down, Seated(online), Notice("thread.deleted"))
  /\ UNCHANGED <<hubVars, made, online, subs, up, tabVars, drops, orphaned>>

-----------------------------------------------------------------------------
(* Connections and subscriptions, at the hub.                              *)

Greeting(t) == IF Member(PersonOf[t]) THEN Notice("welcome") ELSE Notice("welcome.noteam")

TabConnects(t) ==
  /\ t \notin online /\ Room
  /\ online' = online \cup {t}
  /\ down' = [down EXCEPT ![t] = <<Greeting(t)>>]
  /\ UNCHANGED <<hubVars, threadVars, subs, up, tabVars, drops, orphaned>>

(* Mutant: presence is told before the connection has left.                *)
StillCounted(t) == subs
(* onClose: the connection leaves clients first, then presence is told.    *)
Remaining(t) == subs \ {t}

TabDrops(t) ==
  LET rest == Remaining(t)
      cut == [down EXCEPT ![t] = <<>>]
  IN  /\ t \in online /\ Room /\ drops < MaxDrops
      /\ drops' = drops + 1
      /\ online' = online \ {t}
      /\ subs' = IF t \in subs THEN KeptOf(rest, Members) ELSE subs
      /\ down' = IF t \in subs THEN PresenceTo(cut, rest, Members) ELSE cut
      /\ up' = [up EXCEPT ![t] = <<>>]
      /\ Overlooked(t \in subs)
      /\ UNCHANGED <<hubVars, threadVars, tabVars>>

(* subscribe: refused without a row or a seat; else the events after what  *)
(* the tab says it has, then presence to everybody who looks.              *)
HubSubscribes(t) ==
  LET after == Head(up[t]).after
      events == SubSeq(log, after + 1, Len(log))
      with == subs \cup {t}
      sent == [down EXCEPT ![t] = Append(@, Snapshot(after, events))]
  IN  /\ Room /\ up[t] # <<>> /\ Head(up[t]).type = "thread.subscribe"
      /\ up' = [up EXCEPT ![t] = Tail(@)]
      /\ IF thread = "here" /\ Member(PersonOf[t])
         THEN subs' = KeptOf(with, Members) /\ down' = PresenceTo(sent, with, Members)
         ELSE subs' = subs /\ down' = [down EXCEPT ![t] = Append(@, Notice("error"))]
      /\ UNCHANGED <<hubVars, threadVars, online, tabVars, drops, orphaned>>

(* Mutant: presence is told before the tab has left.                       *)
LeftAfterTelling(t) == subs
LeftBehind(t) == subs \ {t}

HubUnsubscribes(t) ==
  /\ Room /\ up[t] # <<>> /\ Head(up[t]).type = "thread.unsubscribe"
  /\ up' = [up EXCEPT ![t] = Tail(@)]
  /\ subs' = KeptOf(subs \ {t}, Members)
  /\ down' = PresenceTo(down, LeftBehind(t), Members)
  /\ Overlooked(t \in subs)
  /\ UNCHANGED <<hubVars, threadVars, online, tabVars, drops>>

-----------------------------------------------------------------------------
(* A tab.                                                                  *)

Subscribe(after) == [type |-> "thread.subscribe", after |-> after]
Unsubscribe == [type |-> "thread.unsubscribe", after |-> 0]
Sends(t, m) == IF t \in online THEN [up EXCEPT ![t] = Append(@, m)] ELSE up

(* selectThread, also of the thread that is already open.                  *)
TabSelects(t) ==
  /\ Len(up[t]) < MaxWire /\ Member(PersonOf[t])
  /\ open' = [open EXCEPT ![t] = TRUE]
  /\ shown' = [shown EXCEPT ![t] = <<>>]
  /\ lastSeq' = [lastSeq EXCEPT ![t] = 0]
  /\ up' = Sends(t, Subscribe(0))
  /\ UNCHANGED <<hubVars, threadVars, online, subs, down, viewers, drops, orphaned>>

(* showFleet: the screen still holds the transcript, nothing feeds it.     *)
Fleet(t) ==
  /\ open' = [open EXCEPT ![t] = FALSE]
  /\ shown' = [shown EXCEPT ![t] = <<>>]
  /\ viewers' = [viewers EXCEPT ![t] = {}]
  /\ UNCHANGED lastSeq
  /\ up' = IF open[t] THEN Sends(t, Unsubscribe) ELSE up

TabLeaves(t) ==
  /\ Len(up[t]) < MaxWire /\ open[t] /\ Fleet(t)
  /\ UNCHANGED <<hubVars, threadVars, online, subs, down, drops, orphaned>>

(* enterTeam resumes from the last event the tab has.                      *)
Resumes(t) == up' = IF open[t] THEN Sends(t, Subscribe(lastSeq[t])) ELSE up

(* Mutant: what a snapshot brings is put under what is there.              *)
AddedTo(t, m) == shown[t] \o m.events
(* clearMessages, then the events of the snapshot.                         *)
Replayed(t, m) == m.events

(* A snapshot without events sets lastSeq back to 0.                       *)
ShowsSnapshot(t, m) ==
  /\ shown' = [shown EXCEPT ![t] = Replayed(t, m)]
  /\ lastSeq' = [lastSeq EXCEPT ![t] = IF m.events = <<>> THEN 0 ELSE m.seq]
  /\ UNCHANGED <<up, open, viewers>>

ShowsEvent(t, m) ==
  /\ IF m.seq > lastSeq[t]
     THEN /\ shown' = [shown EXCEPT ![t] = @ \o m.events]
          /\ lastSeq' = [lastSeq EXCEPT ![t] = m.seq]
     ELSE UNCHANGED <<shown, lastSeq>>
  /\ UNCHANGED <<up, open, viewers>>

ShowsPresence(t, m) ==
  /\ viewers' = [viewers EXCEPT ![t] = m.to]
  /\ UNCHANGED <<up, open, shown, lastSeq>>

(* onMessage: what is about a thread that is not open is dropped.          *)
TabHears(t) ==
  LET m == Head(down[t])
  IN  /\ down[t] # <<>> /\ t \in online /\ Len(up[t]) <= MaxWire
      /\ down' = [down EXCEPT ![t] = Tail(@)]
      /\ \/ m.type = "thread.snapshot" /\ open[t] /\ ShowsSnapshot(t, m)
         \/ m.type = "event" /\ open[t] /\ ShowsEvent(t, m)
         \/ m.type = "presence" /\ open[t] /\ ShowsPresence(t, m)
         \/ m.type = "thread.deleted" /\ open[t] /\ Fleet(t)
         \/ m.type \in {"welcome", "team"} /\ Resumes(t) /\ UNCHANGED tabVars
         \/ m.type \in {"welcome.noteam", "removed", "error"} /\ UNCHANGED <<up, tabVars>>
         \/ m.type \in Content \cup {"thread.deleted"} /\ ~open[t] /\ UNCHANGED <<up, tabVars>>
      /\ UNCHANGED <<hubVars, threadVars, online, subs, drops, orphaned>>

Next ==
  \/ \E t \in Tabs, p \in People, r \in Roles, c \in Codes : InviteCreated(t, p, r, c)
  \/ \E c \in Codes : InviteExpires(c)
  \/ \E t \in Tabs, c \in Codes : InviteRevoked(t, c) \/ InviteAccepted(t, c)
  \/ \E t \in Tabs, p \in People :
       MemberRemoved(t, p) \/ ApproverGranted(t, p) \/ ApproverRevoked(t, p)
  \/ ThreadUpserted \/ Appended \/ ThreadDeleted
  \/ \E t \in Tabs : \/ TabConnects(t) \/ TabDrops(t)
                     \/ HubSubscribes(t) \/ HubUnsubscribes(t)
                     \/ TabSelects(t) \/ TabLeaves(t) \/ TabHears(t)

Spec == Init /\ [][Next]_vars

-----------------------------------------------------------------------------
(* Every variable stays among the values the code can give it.             *)
TypeOK ==
  /\ role \in [People -> Roles \cup {"none"}]
  /\ approvers \subseteq People /\ barred \subseteq Codes
  /\ invite \in [Codes -> [status : {"unused", "pending", "spent"},
                           for : People, role : Roles]]
  /\ thread \in {"absent", "here", "deleted"}
  /\ log \in Seq(1 .. MaxEvents) /\ made \in 0 .. MaxEvents
  /\ online \subseteq Tabs /\ subs \subseteq online
  /\ open \in [Tabs -> BOOLEAN] /\ lastSeq \in [Tabs -> 0 .. MaxEvents]
  /\ viewers \in [Tabs -> SUBSET People]
  /\ seats \in 0 .. MaxSeats /\ drops \in 0 .. MaxDrops /\ orphaned \in BOOLEAN

(* Approval authority never outlives the seat (server.js MEMBER_REMOVE):   *)
(* whoever may approve is in the team.                                     *)
ApproversAreMembers == approvers \subseteq Members

(* A seat appears only by an invitation that no removal came after, and    *)
(* the role on a seat is never rewritten (store.js redeemInvitation).      *)
SeatsAreGranted ==
  [][\A p \in People :
       /\ Member(p) => role'[p] \in {role[p], "none"}
       /\ ~Member(p) /\ role'[p] # "none" =>
            \E c \in Codes \ barred : /\ invite[c].status = "pending"
                                      /\ invite'[c].status = "spent"
                                      /\ invite[c].for = p]_vars

(* What a thread says and who looks at it is sent only to people with a    *)
(* seat, whatever subscriptions a connection still holds (onAppend,        *)
(* broadcastPresence, subscribe).                                          *)
OnlyMembersTold ==
  [][\A t \in Tabs : Len(down'[t]) > Len(down[t]) /\ Last(down'[t]).type \in Content
       => role'[PersonOf[t]] # "none"]_vars

(* The last presence sent to a subscribed tab names exactly the people who *)
(* look, as long as no change fell in a gap of the thread's row.           *)
LastPresenceIs(t, who) ==
  LET sent == {i \in DOMAIN down[t] : down[t][i].type = "presence"}
  IN  IF sent = {} THEN viewers[t] = who
      ELSE \E i \in sent : down[t][i].to = who /\ \A j \in sent : j <= i
PresenceCurrent ==
  thread = "here" /\ ~orphaned =>
    \A t \in Seated(subs) : open[t] /\ up[t] = <<>> => LastPresenceIs(t, Viewers)

(* The transcript on screen has no event twice and none out of order.      *)
TranscriptInOrder ==
  \A t \in Tabs : \A i \in 1 .. Len(shown[t]) - 1 : shown[t][i] < shown[t][i + 1]
=============================================================================
