-------------------------- MODULE TeamRosterProofs --------------------------
(***************************************************************************)
(* Proofs about TeamRoster for all accounts, tabs, codes and bounds.       *)
(***************************************************************************)
EXTENDS TeamRoster, TLAPS

LEMMA Bounds ==
  /\ Founder \in People /\ PersonOf \in [Tabs -> People]
  /\ MaxEvents \in Nat /\ MaxWire \in Nat /\ MaxSeats \in Nat /\ MaxDrops \in Nat
  BY RosterAssumption

USE Bounds

(* A sequence of event numbers.                                            *)
LEMMA Numbers ==
  ASSUME NEW s \in Seq(1 .. MaxEvents)
  PROVE  /\ Len(s) \in Nat
         /\ \A i \in 1 .. Len(s) : s[i] \in Nat /\ s[i] \in Int /\ s[i] <= MaxEvents
  OBVIOUS

-----------------------------------------------------------------------------
(* What is on the wire.                                                    *)
Requests == [type : {"thread.subscribe", "thread.unsubscribe"}, after : 0 .. MaxEvents]
Notices == {"team", "removed", "error", "welcome", "welcome.noteam", "thread.deleted"}
Messages == [type : Content \cup Notices, seq : Nat, events : Seq(1 .. MaxEvents),
             to : SUBSET People]

(* Events by number, in the order they were made.                          *)
Rising(s) == \A i, j \in 1 .. Len(s) : i < j => s[i] < s[j]
Upto(s, n) == \A i \in 1 .. Len(s) : s[i] <= n
Above(new, old) == \A i \in 1 .. Len(new), j \in 1 .. Len(old) : old[j] < new[i]

(* What is on its way to a tab that shows seen, when n events were made: a *)
(* new event is newer than what is shown and than what comes before it.    *)
Carries(m, n) ==
  /\ Rising(m.events) /\ Upto(m.events, n)
  /\ m.type = "event" \/ m.events # <<>> => m.seq <= MaxEvents
WireOK(w, seen, n) ==
  /\ \A i \in 1 .. Len(w) : Carries(w[i], n)
  /\ \A j \in 1 .. Len(w) : w[j].type = "event" =>
       /\ Above(w[j].events, seen)
       /\ \A i \in 1 .. j - 1 : Above(w[j].events, w[i].events)

(* The last presence in w, or else v, names who.                           *)
LastIs(w, v, who) ==
  LET sent == {i \in DOMAIN w : w[i].type = "presence"}
  IN  IF sent = {} THEN v = who ELSE \E i \in sent : w[i].to = who /\ \A j \in sent : j <= i

Plain(m) == m \in Messages /\ m.events = <<>> /\ m.type # "event"

LEMMA CarriesPlain ==
  ASSUME NEW m, Plain(m), NEW n
  PROVE  Carries(m, n)
  BY DEF Plain, Carries, Rising, Upto

LEMMA CarriesMore ==
  ASSUME NEW m \in Messages, NEW n \in Nat, NEW k \in Nat, n <= k, Carries(m, n)
  PROVE  Carries(m, k)
  BY DEF Messages, Carries, Upto

LEMMA AboveBetween ==
  ASSUME NEW a, NEW b, NEW n \in Nat,
         \A x \in 1 .. Len(a) : n < a[x] /\ a[x] \in Nat,
         \A y \in 1 .. Len(b) : b[y] <= n /\ b[y] \in Nat
  PROVE  Above(a, b)
<1>1. ASSUME NEW x \in 1 .. Len(a), NEW y \in 1 .. Len(b)
      PROVE  b[y] < a[x]
  <2>1. n < a[x] /\ a[x] \in Nat /\ b[y] <= n /\ b[y] \in Nat
    OBVIOUS
  <2> QED BY <2>1
<1> QED BY <1>1 DEF Above

LEMMA WireAppend ==
  ASSUME NEW w \in Seq(Messages), NEW seen \in Seq(1 .. MaxEvents), NEW n \in Nat, NEW k \in Nat,
         n <= k, WireOK(w, seen, n), Upto(seen, n), NEW m \in Messages, Carries(m, k),
         m.type = "event" => \A i \in 1 .. Len(m.events) : n < m.events[i]
  PROVE  WireOK(Append(w, m), seen, k)
<1> DEFINE v == Append(w, m)
<1>1. /\ v \in Seq(Messages) /\ Len(v) = Len(w) + 1 /\ v[Len(w) + 1] = m
      /\ \A i \in 1 .. Len(w) : v[i] = w[i]
  OBVIOUS
<1>2. \A i \in 1 .. Len(w) : w[i] \in Messages /\ Carries(w[i], n)
  BY DEF WireOK
<1>3. \A i \in 1 .. Len(w) : Carries(w[i], k)
  BY <1>2, CarriesMore
<1>4. \A i \in 1 .. Len(v) : Carries(v[i], k)
  BY <1>1, <1>3
<1>5. ASSUME NEW j \in 1 .. Len(v), v[j].type = "event"
      PROVE  Above(v[j].events, seen) /\ \A i \in 1 .. j - 1 : Above(v[j].events, v[i].events)
  <2>1. CASE j \in 1 .. Len(w)
    <3>1. Above(w[j].events, seen) /\ \A i \in 1 .. j - 1 : Above(w[j].events, w[i].events)
      BY <1>1, <1>5, <2>1 DEF WireOK
    <3> QED BY <1>1, <2>1, <3>1
  <2>2. CASE j = Len(w) + 1
    <3>1. v[j] = m /\ \A i \in 1 .. Len(m.events) : n < m.events[i] /\ m.events[i] \in Nat
      <4>1. m.events \in Seq(1 .. MaxEvents)
        BY DEF Messages
      <4> QED BY <1>1, <1>5, <2>2, <4>1
    <3>2. Above(m.events, seen)
      <4>1. \A i \in 1 .. Len(seen) : seen[i] \in Nat /\ seen[i] <= n
        BY Numbers DEF Upto
      <4> QED BY <3>1, <4>1, AboveBetween
    <3>3. ASSUME NEW i \in 1 .. Len(w) PROVE Above(m.events, v[i].events)
      <4>1. v[i] = w[i] /\ Upto(w[i].events, n) /\ w[i] \in Messages
        BY <1>1, <1>2 DEF Carries
      <4>3. w[i].events \in Seq(1 .. MaxEvents)
        BY <4>1 DEF Messages
      <4>2. \A x \in 1 .. Len(w[i].events) : w[i].events[x] <= n /\ w[i].events[x] \in Nat
        BY <4>1, <4>3, Numbers DEF Upto
      <4>4. Above(m.events, w[i].events)
        BY <3>1, <4>2, AboveBetween
      <4> HIDE DEF v
      <4> QED BY <4>1, <4>4
    <3> QED BY <2>2, <3>1, <3>2, <3>3
  <2> QED BY <1>1, <2>1, <2>2
<1> HIDE DEF v
<1>6. WireOK(v, seen, k)
  BY <1>4, <1>5 DEF WireOK
<1> QED BY <1>6 DEF v

LEMMA WirePlain ==
  ASSUME NEW w \in Seq(Messages), NEW seen \in Seq(1 .. MaxEvents), NEW n \in Nat,
         WireOK(w, seen, n), Upto(seen, n), NEW m, Plain(m)
  PROVE  WireOK(Append(w, m), seen, n)
  BY CarriesPlain, WireAppend DEF Plain

LEMMA WireTail ==
  ASSUME NEW w \in Seq(Messages), NEW seen \in Seq(1 .. MaxEvents), NEW n \in Nat,
         WireOK(w, seen, n), w # <<>>
  PROVE  WireOK(Tail(w), seen, n) /\ WireOK(Tail(w), Head(w).events, n) /\ WireOK(Tail(w), <<>>, n)
<1> DEFINE v == Tail(w)
<1>1. Len(v) = Len(w) - 1 /\ \A i \in 1 .. Len(v) : v[i] = w[i + 1] /\ i + 1 \in 1 .. Len(w)
  OBVIOUS
<1>2. Head(w) = w[1] /\ Len(w) \in Nat /\ Len(w) >= 1
  OBVIOUS
<1> HIDE DEF v
<1>3. \A i \in 1 .. Len(v) : Carries(v[i], n)
  BY <1>1 DEF WireOK
<1>4. ASSUME NEW j \in 1 .. Len(v), v[j].type = "event"
      PROVE  /\ Above(v[j].events, seen) /\ Above(v[j].events, Head(w).events)
             /\ Above(v[j].events, <<>>)
             /\ \A i \in 1 .. j - 1 : Above(v[j].events, v[i].events)
  <2>1. v[j] = w[j + 1] /\ j + 1 \in 1 .. Len(w)
    BY <1>1
  <2>2. Above(w[j + 1].events, seen) /\ \A i \in 1 .. j : Above(w[j + 1].events, w[i].events)
    BY <1>4, <2>1 DEF WireOK
  <2>3. \A i \in 1 .. j - 1 : v[i] = w[i + 1] /\ i + 1 \in 1 .. j
    <3>1. j \in Nat /\ j <= Len(v) /\ Len(v) \in Nat
      BY <1>1, <1>2
    <3>2. \A i \in 1 .. j - 1 : i \in 1 .. Len(v) /\ i + 1 \in 1 .. j
      BY <3>1
    <3> QED BY <1>1, <3>2
  <2>4. Above(v[j].events, <<>>)
    BY DEF Above
  <2>5. Above(v[j].events, w[1].events)
    BY <1>1, <1>2, <2>1, <2>2
  <2>6. \A i \in 1 .. j - 1 : Above(v[j].events, v[i].events)
    BY <2>1, <2>2, <2>3
  <2> QED BY <1>2, <2>1, <2>2, <2>4, <2>5, <2>6
<1>5. WireOK(v, seen, n) /\ WireOK(v, Head(w).events, n) /\ WireOK(v, <<>>, n)
  BY <1>3, <1>4 DEF WireOK
<1> QED BY <1>5 DEF v

(* A new event at the head is put under what is shown.                     *)
LEMMA WireShows ==
  ASSUME NEW w \in Seq(Messages), NEW seen \in Seq(1 .. MaxEvents), NEW n \in Nat,
         WireOK(w, seen, n), Rising(seen), Upto(seen, n), w # <<>>, Head(w).type = "event"
  PROVE  /\ Rising(seen \o Head(w).events) /\ Upto(seen \o Head(w).events, n)
         /\ WireOK(Tail(w), seen \o Head(w).events, n)
<1>1. /\ Head(w) = w[1] /\ Head(w) \in Messages /\ Carries(Head(w), n)
      /\ Above(Head(w).events, seen)
  BY DEF WireOK
<1> DEFINE new == Head(w).events
           s == seen \o new
<1>2. new \in Seq(1 .. MaxEvents) /\ Rising(new) /\ Upto(new, n) /\ Above(new, seen)
  BY <1>1 DEF Messages, Carries
<1> HIDE DEF new
<1>3. /\ s \in Seq(1 .. MaxEvents) /\ Len(s) = Len(seen) + Len(new)
      /\ Len(seen) \in Nat /\ Len(new) \in Nat
      /\ \A i \in 1 .. Len(seen) : s[i] = seen[i]
      /\ \A i \in 1 .. Len(s) : i > Len(seen) => s[i] = new[i - Len(seen)]
  BY <1>2
<1>4. /\ \A i \in 1 .. Len(seen) : seen[i] \in Nat
      /\ \A i \in 1 .. Len(new) : new[i] \in Nat
  BY <1>2, Numbers
<1> HIDE DEF s
<1>5. ASSUME NEW i \in 1 .. Len(s)
      PROVE  \/ i \in 1 .. Len(seen) /\ s[i] = seen[i]
             \/ i > Len(seen) /\ i - Len(seen) \in 1 .. Len(new) /\ s[i] = new[i - Len(seen)]
  BY <1>3
<1>6. Rising(s)
  <2>1. ASSUME NEW i \in 1 .. Len(s), NEW j \in 1 .. Len(s), i < j PROVE s[i] < s[j]
    <3>1. CASE j \in 1 .. Len(seen)
      <4>1. i \in 1 .. Len(seen)
        BY <1>3, <2>1, <3>1
      <4> QED BY <1>3, <2>1, <3>1, <4>1 DEF Rising
    <3>2. CASE /\ i \in 1 .. Len(seen) /\ s[i] = seen[i]
               /\ j - Len(seen) \in 1 .. Len(new) /\ s[j] = new[j - Len(seen)]
      BY <1>2, <3>2 DEF Above
    <3>3. CASE i > Len(seen)
      <4>1. /\ i - Len(seen) \in 1 .. Len(new) /\ s[i] = new[i - Len(seen)]
            /\ j - Len(seen) \in 1 .. Len(new) /\ s[j] = new[j - Len(seen)]
        <5>1. j > Len(seen)
          BY <1>3, <2>1, <3>3
        <5>2. i \notin 1 .. Len(seen) /\ j \notin 1 .. Len(seen)
          BY <1>3, <3>3, <5>1
        <5> QED BY <1>5, <2>1, <5>2
      <4>2. i - Len(seen) < j - Len(seen)
        BY <1>3, <2>1
      <4>3. new[i - Len(seen)] < new[j - Len(seen)]
        BY <1>2, <4>1, <4>2 DEF Rising
      <4> QED BY <4>1, <4>3
    <3> QED BY <1>3, <1>5, <2>1, <3>1, <3>2, <3>3
  <2> QED BY <2>1 DEF Rising
<1>7. Upto(s, n)
  <2>1. \A i \in 1 .. Len(seen) : seen[i] <= n
    BY DEF Upto
  <2>2. \A i \in 1 .. Len(new) : new[i] <= n
    BY <1>2 DEF Upto
  <2> QED BY <1>5, <2>1, <2>2 DEF Upto
<1>8. WireOK(Tail(w), seen, n) /\ WireOK(Tail(w), new, n)
  BY WireTail DEF new
<1>9. \A j \in 1 .. Len(Tail(w)) : Tail(w)[j].type = "event" => Above(Tail(w)[j].events, s)
  <2>1. ASSUME NEW e, Above(e, seen), Above(e, new) PROVE Above(e, s)
    <3>1. ASSUME NEW x \in 1 .. Len(e), NEW i \in 1 .. Len(s) PROVE s[i] < e[x]
      BY <1>5, <2>1 DEF Above
    <3> QED BY <3>1 DEF Above
  <2> QED BY <1>8, <2>1 DEF WireOK
<1>10. WireOK(Tail(w), s, n)
  BY <1>8, <1>9 DEF WireOK
<1> QED BY <1>6, <1>7, <1>10 DEF s, new

-----------------------------------------------------------------------------
(* Presence.                                                               *)
LEMMA LastOther ==
  ASSUME NEW w \in Seq(Messages), NEW m \in Messages, m.type # "presence", NEW v, NEW who,
         LastIs(w, v, who)
  PROVE  LastIs(Append(w, m), v, who)
<1>1. /\ Len(Append(w, m)) = Len(w) + 1 /\ Append(w, m)[Len(w) + 1] = m
      /\ \A i \in 1 .. Len(w) : Append(w, m)[i] = w[i]
      /\ DOMAIN Append(w, m) = 1 .. Len(w) + 1 /\ DOMAIN w = 1 .. Len(w) /\ Len(w) \in Nat
  OBVIOUS
<1>2. {i \in DOMAIN Append(w, m) : Append(w, m)[i].type = "presence"}
        = {i \in DOMAIN w : w[i].type = "presence"}
  BY <1>1
<1> QED BY <1>1, <1>2 DEF LastIs

LEMMA LastPresence ==
  ASSUME NEW w \in Seq(Messages), NEW m \in Messages, m.type = "presence", NEW v
  PROVE  LastIs(Append(w, m), v, m.to)
<1>1. /\ Append(w, m)[Len(w) + 1] = m
      /\ DOMAIN Append(w, m) = 1 .. Len(w) + 1 /\ Len(w) \in Nat
  OBVIOUS
<1>2. Len(w) + 1 \in {i \in DOMAIN Append(w, m) : Append(w, m)[i].type = "presence"}
  BY <1>1
<1> QED BY <1>1, <1>2 DEF LastIs

LEMMA LastTail ==
  ASSUME NEW w \in Seq(Messages), w # <<>>, NEW v, NEW who, LastIs(w, v, who)
  PROVE  LastIs(Tail(w), IF Head(w).type = "presence" THEN Head(w).to ELSE v, who)
<1> DEFINE sent == {i \in DOMAIN w : w[i].type = "presence"}
           left == {i \in DOMAIN Tail(w) : Tail(w)[i].type = "presence"}
<1>1. /\ Len(w) \in Nat /\ Len(w) >= 1 /\ DOMAIN w = 1 .. Len(w) /\ Head(w) = w[1]
      /\ DOMAIN Tail(w) = 1 .. Len(w) - 1 /\ \A i \in 1 .. Len(w) - 1 : Tail(w)[i] = w[i + 1]
  OBVIOUS
<1>2. \A i \in Nat : i \in left <=> i + 1 \in sent /\ i >= 1
  BY <1>1
<1>3. \A i \in sent : i = 1 \/ i - 1 \in left
  BY <1>1
<1>4. 1 \in sent <=> Head(w).type = "presence"
  BY <1>1
<1>5. sent \subseteq Nat /\ left \subseteq Nat
  BY <1>1
<1>6. CASE sent = {}
  BY <1>2, <1>4, <1>5, <1>6 DEF LastIs
<1>7. CASE sent # {}
  <2>1. PICK i \in sent : w[i].to = who /\ \A j \in sent : j <= i
    BY <1>7 DEF LastIs
  <2>2. CASE i = 1
    <3>1. left = {}
      BY <1>2, <1>5, <2>1, <2>2
    <3> QED BY <1>1, <1>4, <2>1, <2>2, <3>1 DEF LastIs
  <2>3. CASE i # 1
    <3>1. i - 1 \in left /\ Tail(w)[i - 1].to = who
      BY <1>1, <1>3, <1>5, <2>1, <2>3
    <3>2. \A j \in left : j <= i - 1
      BY <1>2, <1>5, <2>1
    <3> QED BY <3>1, <3>2 DEF LastIs
  <2> QED BY <2>2, <2>3
<1> QED BY <1>6, <1>7

-----------------------------------------------------------------------------
(* The inductive invariant.  The hub's records have their shapes, and an   *)
(* invitation never outlives the removal of the person it is for.          *)
StoreOK == TypeOK /\ barred = {} /\ ApproversAreMembers

(* A tab that asked last to see the thread has it open, one that asked     *)
(* last not to has not; a tab without a connection has asked nothing.      *)
RequestsOK ==
  /\ up \in [Tabs -> Seq(Requests)]
  /\ \A t \in Tabs : up[t] # <<>> =>
       t \in online /\ (open[t] <=> up[t][Len(up[t])].type = "thread.subscribe")

(* Events are numbered as they are made, through deletions of the log;     *)
(* nothing older than what a tab shows is on its way to it as new.         *)
SeenOK(seen, n) ==
  /\ seen \in [Tabs -> Seq(1 .. MaxEvents)]
  /\ \A t \in Tabs : Rising(seen[t]) /\ Upto(seen[t], n)
WiresOK(wire, seen, n) ==
  /\ wire \in [Tabs -> Seq(Messages)]
  /\ \A t \in Tabs : WireOK(wire[t], seen[t], n)
LogOK(l, n) == l \in Seq(1 .. MaxEvents) /\ Rising(l) /\ Upto(l, n) /\ Len(l) <= n
ScreensOK == LogOK(log, made) /\ SeenOK(shown, made) /\ WiresOK(down, shown, made)

(* Unless presence was due while the row was missing: who is subscribed    *)
(* has a seat, and unless it is about to leave has the thread open and     *)
(* knows, or is about to know, who looks at it.                            *)
Looking == {PersonOf[t] : t \in subs}
Leaves(t) == \E i \in 1 .. Len(up[t]) : up[t][i].type = "thread.unsubscribe"
Informed(t) == open[t] /\ LastIs(down[t], viewers[t], Looking)
PresenceOK ==
  ~orphaned => \A t \in subs : Member(PersonOf[t]) /\ (~Leaves(t) => Informed(t))

RosterInv == StoreOK /\ RequestsOK /\ ScreensOK /\ PresenceOK

-----------------------------------------------------------------------------
(* What the hub sends.                                                     *)
LEMMA NoticeIsPlain ==
  ASSUME NEW type \in Notices
  PROVE  Plain(Notice(type)) /\ Notice(type) \in Messages /\ Notice(type).type = type
         /\ type \notin Content
<1>1. <<>> \in Seq(1 .. MaxEvents) /\ {} \in SUBSET People /\ 0 \in Nat
  OBVIOUS
<1> QED BY <1>1 DEF Plain, Notice, Messages, Notices, Content

LEMMA PresenceIsPlain ==
  ASSUME NEW who \in SUBSET People
  PROVE  /\ Plain(Presence(who)) /\ Presence(who) \in Messages
         /\ Presence(who).type = "presence" /\ Presence(who).to = who
<1>1. <<>> \in Seq(1 .. MaxEvents) /\ 0 \in Nat
  OBVIOUS
<1> QED BY <1>1 DEF Plain, Presence, Messages, Content

LEMMA WiresPut ==
  ASSUME NEW wire, NEW seen, NEW n \in Nat, WiresOK(wire, seen, n),
         NEW t \in Tabs, NEW w \in Seq(Messages), WireOK(w, seen[t], n)
  PROVE  WiresOK([wire EXCEPT ![t] = w], seen, n)
  BY DEF WiresOK

LEMMA WiresTold ==
  ASSUME NEW wire, NEW seen, NEW n \in Nat, WiresOK(wire, seen, n), SeenOK(seen, n),
         NEW ts, NEW m, Plain(m)
  PROVE  WiresOK(Told(wire, ts, m), seen, n)
<1>1. m \in Messages
  BY DEF Plain
<1>2. Told(wire, ts, m) \in [Tabs -> Seq(Messages)]
  BY <1>1 DEF Told, WiresOK
<1>3. ASSUME NEW t \in Tabs PROVE WireOK(Told(wire, ts, m)[t], seen[t], n)
  <2>1. WireOK(wire[t], seen[t], n) /\ wire[t] \in Seq(Messages)
        /\ seen[t] \in Seq(1 .. MaxEvents) /\ Upto(seen[t], n)
    BY DEF WiresOK, SeenOK
  <2>2. WireOK(Append(wire[t], m), seen[t], n)
    BY <2>1, WirePlain
  <2> QED BY <2>1, <2>2 DEF Told
<1> QED BY <1>2, <1>3 DEF WiresOK

LEMMA WiresPresence ==
  ASSUME NEW wire, NEW seen, NEW n \in Nat, WiresOK(wire, seen, n), SeenOK(seen, n),
         NEW ts \in SUBSET Tabs, NEW members
  PROVE  WiresOK(PresenceTo(wire, ts, members), seen, n)
<1> DEFINE kept == {t \in ts : PersonOf[t] \in members}
           who == {PersonOf[t] : t \in kept}
<1>1. who \in SUBSET People
  OBVIOUS
<1>2. Plain(Presence(who))
  BY <1>1, PresenceIsPlain
<1> HIDE DEF who
<1>3. WiresOK(Told(wire, kept, Presence(who)), seen, n)
  BY <1>2, WiresTold
<1> QED BY <1>3 DEF PresenceTo, who

(* Whoever is told presence knows it; whoever is told something else knows *)
(* what they knew.                                                         *)
LEMMA ToldPresence ==
  ASSUME NEW wire \in [Tabs -> Seq(Messages)], NEW ts \in SUBSET Tabs, NEW members,
         thread = "here", NEW t \in KeptOf(ts, members), NEW v
  PROVE  LastIs(PresenceTo(wire, ts, members)[t], v, {PersonOf[u] : u \in KeptOf(ts, members)})
<1> DEFINE kept == {u \in ts : PersonOf[u] \in members}
           who == {PersonOf[u] : u \in kept}
<1>1. who \in SUBSET People /\ kept \subseteq Tabs /\ KeptOf(ts, members) = kept
  BY DEF KeptOf
<1>2. Presence(who) \in Messages /\ Presence(who).type = "presence" /\ Presence(who).to = who
  BY <1>1, PresenceIsPlain
<1> HIDE DEF who
<1>3. LastIs(Append(wire[t], Presence(who)), v, who)
  BY <1>1, <1>2, LastPresence
<1>4. PresenceTo(wire, ts, members)[t] = Append(wire[t], Presence(who))
  BY <1>1 DEF PresenceTo, Told, who
<1> QED BY <1>1, <1>3, <1>4 DEF who

LEMMA ToldNotice ==
  ASSUME NEW wire \in [Tabs -> Seq(Messages)], NEW ts, NEW type \in Notices,
         NEW t \in Tabs, NEW v, NEW who, LastIs(wire[t], v, who)
  PROVE  LastIs(Told(wire, ts, Notice(type))[t], v, who)
<1>1. Notice(type) \in Messages /\ Notice(type).type # "presence"
  BY NoticeIsPlain DEF Content
<1>2. LastIs(Append(wire[t], Notice(type)), v, who)
  BY <1>1, LastOther
<1> QED BY <1>2 DEF Told

-----------------------------------------------------------------------------
(* Invitations and approval authority: nothing else changes.               *)
LEMMA StoreInv ==
  ASSUME RosterInv,
         UNCHANGED <<role, barred, seats, threadVars, online, subs, up, down, tabVars, drops,
                     orphaned>>,
         invite' \in [Codes -> [status : {"unused", "pending", "spent"},
                                for : People, role : Roles]],
         approvers' \subseteq Members
  PROVE  RosterInv'
<1> USE DEF threadVars, tabVars
<1>1. StoreOK'
  BY DEF RosterInv, StoreOK, TypeOK, ApproversAreMembers, Members, Member
<1>2. RequestsOK'
  BY DEF RosterInv, RequestsOK
<1>3. ScreensOK'
  BY DEF RosterInv, ScreensOK
<1>4. PresenceOK'
  BY DEF RosterInv, PresenceOK, Member, Leaves, Informed, Looking
<1> QED BY <1>1, <1>2, <1>3, <1>4 DEF RosterInv

(* An invitation, approval authority: granted or taken back by an owner.   *)
LEMMA OwnerInv ==
  ASSUME RosterInv, NEW t \in Tabs, NEW p \in People, NEW r \in Roles, NEW c \in Codes,
         \/ InviteCreated(t, p, r, c) \/ InviteExpires(c) \/ InviteRevoked(t, c)
         \/ ApproverGranted(t, p) \/ ApproverRevoked(t, p)
  PROVE  RosterInv'
<1>1. /\ invite \in [Codes -> [status : {"unused", "pending", "spent"}, for : People, role : Roles]]
      /\ approvers \subseteq Members /\ Spent.status = "spent"
      /\ Spent \in [status : {"unused", "pending", "spent"}, for : People, role : Roles]
  BY DEF RosterInv, StoreOK, TypeOK, ApproversAreMembers, Spent, Unused, Roles
<1>2. UNCHANGED <<role, barred, seats, threadVars, online, subs, up, down, tabVars, drops,
                  orphaned>>
  BY DEF InviteCreated, InviteExpires, InviteRevoked, ApproverGranted, ApproverRevoked
<1>3. invite' \in [Codes -> [status : {"unused", "pending", "spent"}, for : People, role : Roles]]
  BY <1>1 DEF InviteCreated, InviteExpires, InviteRevoked, ApproverGranted, ApproverRevoked
<1>4. approvers' \subseteq Members
  BY <1>1 DEF InviteCreated, InviteExpires, InviteRevoked, ApproverGranted, ApproverRevoked,
     Members
<1> QED BY <1>2, <1>3, <1>4, StoreInv

(* The shapes a step leaves to the tabs and the thread.                    *)
LEMMA ScreensSame ==
  ASSUME RosterInv, UNCHANGED <<log, made, shown>>, WiresOK(down', shown, made)
  PROVE  ScreensOK'
  BY DEF RosterInv, ScreensOK

LEMMA WiresNow ==
  ASSUME RosterInv
  PROVE  /\ made \in Nat /\ LogOK(log, made) /\ SeenOK(shown, made) /\ WiresOK(down, shown, made)
         /\ down \in [Tabs -> Seq(Messages)] /\ up \in [Tabs -> Seq(Requests)]
         /\ subs \subseteq online /\ online \subseteq Tabs
  BY DEF RosterInv, StoreOK, TypeOK, ScreensOK, RequestsOK, WiresOK

LEMMA AcceptedInv ==
  ASSUME RosterInv, NEW t \in Tabs, NEW c \in Codes, InviteAccepted(t, c)
  PROVE  RosterInv'
<1> DEFINE p == PersonOf[t]
<1> USE DEF InviteAccepted, threadVars, tabVars
<1>1. /\ p \in People /\ ~Member(p) /\ role' = [role EXCEPT ![p] = invite[c].role]
      /\ role \in [People -> Roles \cup {"none"}] /\ invite[c].role \in Roles
      /\ seats' \in 0 .. MaxSeats
  BY DEF Redeemable, RosterInv, StoreOK, TypeOK
<1>2. Members \subseteq Members'
  BY <1>1 DEF Members, Member, Roles
<1>3. StoreOK'
  <2>1. invite' \in [Codes -> [status : {"unused", "pending", "spent"}, for : People, role : Roles]]
    BY DEF RosterInv, StoreOK, TypeOK, Spent, Unused, Roles
  <2>2. role' \in [People -> Roles \cup {"none"}]
    BY <1>1
  <2>3. orphaned' \in BOOLEAN
    BY DEF RosterInv, StoreOK, TypeOK, Overlooked
  <2>4. barred' = {} /\ ApproversAreMembers'
    BY <1>2 DEF RosterInv, StoreOK, ApproversAreMembers
  <2> QED BY <1>1, <2>1, <2>2, <2>3, <2>4 DEF RosterInv, StoreOK, TypeOK
<1>4. RequestsOK'
  BY DEF RosterInv, RequestsOK
<1>5. ScreensOK'
  <2>1. Plain(Notice("team"))
    BY NoticeIsPlain DEF Notices
  <2>2. WiresOK(Told(down, {t}, Notice("team")), shown, made)
    BY <2>1, WiresNow, WiresTold
  <2>3. down' = Told(down, {t}, Notice("team"))
    BY WiresNow DEF Told
  <2> QED BY <2>2, <2>3, ScreensSame
<1>6. PresenceOK'
  <2>1. SUFFICES ASSUME ~orphaned', NEW u \in subs'
                 PROVE  Member(PersonOf[u])' /\ (~Leaves(u)' => Informed(u)')
    BY DEF PresenceOK
  <2>2. ~orphaned /\ subs' = subs /\ u \in subs /\ u \in Tabs
    BY <2>1, WiresNow DEF Overlooked
  <2>3. Member(PersonOf[u]) /\ (~Leaves(u) => Informed(u))
    BY <2>2 DEF RosterInv, PresenceOK
  <2>4. Member(PersonOf[u])'
    BY <1>2, <2>2, <2>3 DEF Members, Member
  <2>5. Leaves(u)' <=> Leaves(u)
    BY DEF Leaves
  <2>6. ASSUME Informed(u) PROVE Informed(u)'
    <3>1. LastIs(Told(down, {t}, Notice("team"))[u], viewers[u], Looking)
      BY <2>2, <2>6, WiresNow, ToldNotice DEF Informed, Notices
    <3>2. down' = Told(down, {t}, Notice("team"))
      BY WiresNow DEF Told
    <3> QED BY <2>2, <2>6, <3>1, <3>2 DEF Informed, Looking
  <2> QED BY <2>3, <2>4, <2>5, <2>6
<1> QED BY <1>3, <1>4, <1>5, <1>6 DEF RosterInv

LEMMA RemovedInv ==
  ASSUME RosterInv, NEW t \in Tabs, NEW p \in People, MemberRemoved(t, p)
  PROVE  RosterInv'
<1> DEFINE pending == {c \in Codes : invite[c].for = p /\ invite[c].status = "pending"}
           theirs == {u \in subs : PersonOf[u] = p}
           dropped == IF thread = "here" THEN theirs ELSE {}
           noticed == Told(down, {u \in online : PersonOf[u] = p}, Notice("removed"))
           rest == subs \ dropped
           left == Members \ {p}
<1>1. /\ role' = [role EXCEPT ![p] = "none"] /\ approvers' = approvers \ {p}
      /\ invite' = [c \in Codes |-> IF c \in pending THEN Spent ELSE invite[c]]
      /\ barred' = {c \in barred \cup pending : invite'[c].status = "pending"}
      /\ subs' = IF dropped # {} THEN KeptOf(rest, left) ELSE subs
      /\ down' = IF dropped # {} THEN PresenceTo(noticed, rest, left) ELSE noticed
      /\ orphaned' = (orphaned \/ (theirs # {} /\ thread # "here"))
      /\ UNCHANGED <<seats, threadVars, online, up, tabVars, drops>>
  BY DEF MemberRemoved, ApproversLeft, Outlived, Overlooked
<1>2. UNCHANGED <<seats, thread, log, made, online, up, open, shown, lastSeq, viewers, drops>>
  BY <1>1 DEF threadVars, tabVars
<1>3. /\ role \in [People -> Roles \cup {"none"}] /\ barred = {} /\ approvers \subseteq Members
      /\ invite \in [Codes -> [status : {"unused", "pending", "spent"}, for : People, role : Roles]]
      /\ Spent \in [status : {"unused", "pending", "spent"}, for : People, role : Roles]
      /\ Spent.status = "spent" /\ orphaned \in BOOLEAN
      /\ subs \subseteq online /\ online \subseteq Tabs
  BY DEF RosterInv, StoreOK, TypeOK, ApproversAreMembers, Spent, Unused, Roles
<1>4. Members' = left
  BY <1>1, <1>3 DEF Members, Member
<1>5. /\ dropped \subseteq subs /\ rest \subseteq subs /\ KeptOf(rest, left) \subseteq rest
      /\ thread = "here" => KeptOf(rest, left) = {u \in rest : PersonOf[u] \in left}
  BY DEF KeptOf
<1> HIDE DEF rest, left, dropped
<1>6. StoreOK'
  <2>1. role' \in [People -> Roles \cup {"none"}] /\ subs' \subseteq online' /\ orphaned' \in BOOLEAN
    BY <1>1, <1>2, <1>3, <1>5
  <2>2. invite' \in [Codes -> [status : {"unused", "pending", "spent"}, for : People, role : Roles]]
    BY <1>1, <1>3
  <2>3. barred' = {}
    BY <1>1, <1>3
  <2>4. approvers' \subseteq Members' /\ approvers' \subseteq People
    BY <1>1, <1>3, <1>4 DEF left, Members
  <2> QED BY <1>2, <2>1, <2>2, <2>3, <2>4 DEF RosterInv, StoreOK, TypeOK, ApproversAreMembers
<1>7. RequestsOK'
  BY <1>2 DEF RosterInv, RequestsOK
<1>8. WiresOK(noticed, shown, made) /\ noticed \in [Tabs -> Seq(Messages)]
  <2>1. Plain(Notice("removed"))
    BY NoticeIsPlain DEF Notices
  <2> QED BY <2>1, WiresNow, WiresTold DEF WiresOK
<1> HIDE DEF noticed
<1>9. ScreensOK'
  <2>1. rest \in SUBSET Tabs
    BY <1>3, <1>5
  <2>2. WiresOK(PresenceTo(noticed, rest, left), shown, made)
    BY <1>8, <2>1, WiresNow, WiresPresence
  <2> QED BY <1>1, <1>2, <1>8, <2>2, ScreensSame
<1>10. PresenceOK'
  <2>1. SUFFICES ASSUME ~orphaned', NEW u \in subs'
                 PROVE  Member(PersonOf[u])' /\ (~Leaves(u)' => Informed(u)')
    BY DEF PresenceOK
  <2>2. ~orphaned /\ (theirs = {} \/ thread = "here") /\ u \in subs /\ u \in Tabs
    BY <1>1, <1>3, <1>5, <2>1
  <2>3. Member(PersonOf[u]) /\ (~Leaves(u) => open[u] /\ LastIs(down[u], viewers[u], Looking))
    BY <2>2 DEF RosterInv, PresenceOK, Informed
  <2>4. Leaves(u)' <=> Leaves(u)
    BY <1>2 DEF Leaves
  <2>5. CASE dropped # {}
    <3>1. thread = "here" /\ subs' = KeptOf(rest, left) /\ rest \in SUBSET Tabs
      BY <1>1, <1>3, <1>5, <2>5 DEF dropped
    <3>2. PersonOf[u] \in left
      BY <1>5, <2>1, <3>1
    <3>3. LastIs(PresenceTo(noticed, rest, left)[u], viewers[u], {PersonOf[w] : w \in subs'})
      BY <1>8, <2>1, <3>1, ToldPresence
    <3>4. Member(PersonOf[u])'
      BY <1>4, <3>2 DEF Members
    <3> QED BY <1>1, <1>2, <2>3, <2>4, <2>5, <3>3, <3>4 DEF Informed, Looking
  <2>6. CASE dropped = {}
    <3>1. subs' = subs /\ theirs = {} /\ down' = noticed
      BY <1>1, <2>2, <2>6 DEF dropped
    <3>2. PersonOf[u] # p
      BY <2>2, <3>1
    <3>3. Member(PersonOf[u])'
      BY <1>1, <1>3, <2>2, <2>3, <3>2 DEF Member
    <3>4. ~Leaves(u) => LastIs(noticed[u], viewers[u], Looking)
      <4>1. "removed" \in Notices
        BY DEF Notices
      <4> QED BY <2>2, <2>3, <4>1, WiresNow, ToldNotice DEF noticed
    <3> QED BY <1>2, <2>3, <2>4, <3>1, <3>3, <3>4 DEF Informed, Looking
  <2> QED BY <2>5, <2>6
<1> QED BY <1>6, <1>7, <1>9, <1>10 DEF RosterInv

-----------------------------------------------------------------------------
(* The host writes.                                                        *)
LEMMA UpsertedInv ==
  ASSUME RosterInv, ThreadUpserted
  PROVE  RosterInv'
<1> USE DEF ThreadUpserted, hubVars, tabVars
<1>1. StoreOK'
  BY DEF RosterInv, StoreOK, TypeOK, ApproversAreMembers, Members, Member
<1>2. RequestsOK'
  BY DEF RosterInv, RequestsOK
<1>3. ScreensOK'
  BY DEF RosterInv, ScreensOK
<1>4. PresenceOK'
  BY DEF RosterInv, PresenceOK, Member, Leaves, Informed, Looking
<1> QED BY <1>1, <1>2, <1>3, <1>4 DEF RosterInv

LEMMA DeletedInv ==
  ASSUME RosterInv, ThreadDeleted
  PROVE  RosterInv'
<1> USE DEF ThreadDeleted, hubVars, tabVars
<1>1. StoreOK'
  BY DEF RosterInv, StoreOK, TypeOK, ApproversAreMembers, Members, Member
<1>2. RequestsOK'
  BY DEF RosterInv, RequestsOK
<1>3. "thread.deleted" \in Notices
  BY DEF Notices
<1>4. ScreensOK'
  <2>1. Plain(Notice("thread.deleted"))
    BY <1>3, NoticeIsPlain
  <2>2. WiresOK(down', shown, made)
    BY <2>1, WiresNow, WiresTold
  <2>3. LogOK(<<>>, made)
    BY WiresNow DEF LogOK, Rising, Upto
  <2> QED BY <2>2, <2>3, WiresNow DEF ScreensOK
<1>5. PresenceOK'
  <2>1. SUFFICES ASSUME ~orphaned', NEW u \in subs'
                 PROVE  Member(PersonOf[u])' /\ (~Leaves(u)' => Informed(u)')
    BY DEF PresenceOK
  <2>2. ~orphaned /\ u \in subs /\ u \in Tabs
    BY <2>1, WiresNow
  <2>3. Member(PersonOf[u]) /\ (~Leaves(u) => open[u] /\ LastIs(down[u], viewers[u], Looking))
    BY <2>2 DEF RosterInv, PresenceOK, Informed
  <2>4. ~Leaves(u) => LastIs(down'[u], viewers[u], Looking)
    BY <1>3, <2>2, <2>3, WiresNow, ToldNotice
  <2> QED BY <2>3, <2>4 DEF Leaves, Informed, Looking, Member
<1> QED BY <1>1, <1>2, <1>4, <1>5 DEF RosterInv

LEMMA AppendedInv ==
  ASSUME RosterInv, Appended
  PROVE  RosterInv'
<1> DEFINE e == made + 1
           m == Event(Len(log) + 1, e)
<1> USE DEF Appended, hubVars, tabVars
<1>1. /\ e \in 1 .. MaxEvents /\ e \in Nat /\ made <= e /\ Len(log) \in Nat /\ Len(log) + 1 <= e
      /\ made' = e /\ log' = Append(log, e) /\ Audience \subseteq subs
  BY WiresNow DEF LogOK, Audience, Seated
<1>2. LogOK(log', e)
  <2>1. /\ log \in Seq(1 .. MaxEvents) /\ Rising(log) /\ Upto(log, made)
    BY WiresNow DEF LogOK
  <2>2. /\ log' \in Seq(1 .. MaxEvents) /\ Len(log') = Len(log) + 1 /\ log'[Len(log) + 1] = e
        /\ \A i \in 1 .. Len(log) : log'[i] = log[i]
    BY <1>1, <2>1
  <2>3. \A i \in 1 .. Len(log) : log[i] \in Nat /\ log[i] < e
    BY <1>1, <2>1, WiresNow, Numbers DEF Upto
  <2>4. Rising(log')
    <3>1. ASSUME NEW i \in 1 .. Len(log'), NEW j \in 1 .. Len(log'), i < j
          PROVE  log'[i] < log'[j]
      <4>1. i \in 1 .. Len(log) /\ (j \in 1 .. Len(log) \/ j = Len(log) + 1)
        BY <1>1, <2>2, <3>1
      <4>2. CASE j \in 1 .. Len(log)
        <5>1. log[i] < log[j]
          BY <2>1, <3>1, <4>1, <4>2 DEF Rising
        <5> QED BY <2>2, <4>1, <4>2, <5>1
      <4>3. CASE j = Len(log) + 1
        BY <2>2, <2>3, <4>1, <4>3
      <4> QED BY <4>1, <4>2, <4>3
    <3> QED BY <3>1 DEF Rising
  <2>5. Upto(log', e)
    BY <1>1, <2>2, <2>3 DEF Upto
  <2> QED BY <1>1, <2>2, <2>4, <2>5 DEF LogOK
<1>3. m \in Messages /\ m.type = "event" /\ m.events = <<e>> /\ m.seq <= MaxEvents
  <2>1. <<e>> \in Seq(1 .. MaxEvents) /\ Len(log) + 1 \in Nat
    BY <1>1
  <2> QED BY <1>1, <2>1 DEF Event, Messages, Content
<1>4. Carries(m, e)
  BY <1>1, <1>3 DEF Carries, Rising, Upto
<1> HIDE DEF m
<1>5. SeenOK(shown, e)
  <2>1. ASSUME NEW t \in Tabs PROVE Upto(shown[t], e)
    <3>1. shown[t] \in Seq(1 .. MaxEvents) /\ Upto(shown[t], made) /\ made \in Nat
      BY WiresNow DEF SeenOK
    <3> QED BY <1>1, <3>1, Numbers DEF Upto
  <2> QED BY <2>1, WiresNow DEF SeenOK
<1>6. WiresOK(down', shown, e)
  <2>1. ASSUME NEW t \in Tabs PROVE WireOK(down'[t], shown[t], e)
    <3>1. /\ down[t] \in Seq(Messages) /\ shown[t] \in Seq(1 .. MaxEvents) /\ made \in Nat
          /\ WireOK(down[t], shown[t], made) /\ Upto(shown[t], made)
      BY WiresNow DEF SeenOK, WiresOK
    <3>2. \A i \in 1 .. Len(m.events) : made < m.events[i]
      BY <1>1, <1>3, <3>1
    <3>3. WireOK(Append(down[t], m), shown[t], e)
      BY <1>1, <1>3, <1>4, <3>1, <3>2, WireAppend
    <3>4. WireOK(down[t], shown[t], e)
      <4>1. \A i \in 1 .. Len(down[t]) : down[t][i] \in Messages /\ Carries(down[t][i], made)
        BY <3>1 DEF WireOK
      <4>2. \A i \in 1 .. Len(down[t]) : Carries(down[t][i], e)
        BY <1>1, <3>1, <4>1, CarriesMore
      <4> QED BY <3>1, <4>2 DEF WireOK
    <3> QED BY <3>3, <3>4 DEF Told, m
  <2>2. down' \in [Tabs -> Seq(Messages)]
    BY <1>3, WiresNow DEF Told, m
  <2> QED BY <2>1, <2>2 DEF WiresOK
<1>7. ScreensOK'
  BY <1>1, <1>2, <1>5, <1>6 DEF ScreensOK
<1>8. StoreOK'
  <2>1. log' \in Seq(1 .. MaxEvents) /\ made' \in 0 .. MaxEvents /\ subs' \subseteq online'
    BY <1>1, <1>2, WiresNow DEF LogOK
  <2> QED BY <2>1 DEF RosterInv, StoreOK, TypeOK, ApproversAreMembers, Members, Member
<1>9. RequestsOK'
  BY DEF RosterInv, RequestsOK
<1>10. PresenceOK'
  <2>1. SUFFICES ASSUME ~orphaned', NEW u \in subs'
                 PROVE  Member(PersonOf[u])' /\ (~Leaves(u)' => Informed(u)')
    BY DEF PresenceOK
  <2>2. ~orphaned /\ u \in subs /\ u \in Tabs /\ subs' = subs
    <3>1. ~orphaned
      BY <2>1
    <3>2. subs' = subs
      BY <3>1, WiresNow DEF RosterInv, PresenceOK, Audience, Seated
    <3> QED BY <2>1, <3>1, <3>2, WiresNow
  <2>3. Member(PersonOf[u]) /\ (~Leaves(u) => open[u] /\ LastIs(down[u], viewers[u], Looking))
    BY <2>2 DEF RosterInv, PresenceOK, Informed
  <2>4. ~Leaves(u) => LastIs(down'[u], viewers[u], Looking)
    <3>1. down'[u] = Append(down[u], m) \/ down'[u] = down[u]
      BY <2>2 DEF Told, m
    <3>2. ~Leaves(u) => LastIs(Append(down[u], m), viewers[u], Looking)
      BY <1>3, <2>2, <2>3, WiresNow, LastOther
    <3> QED BY <2>3, <3>1, <3>2
  <2> QED BY <2>2, <2>3, <2>4 DEF Leaves, Informed, Looking, Member
<1> QED BY <1>7, <1>8, <1>9, <1>10 DEF RosterInv

-----------------------------------------------------------------------------
(* Connections and subscriptions, at the hub.                              *)

(* What the invariant says of one tab.                                     *)
LEMMA TabNow ==
  ASSUME RosterInv, NEW t \in Tabs
  PROVE  /\ down[t] \in Seq(Messages) /\ WireOK(down[t], shown[t], made) /\ made \in Nat
         /\ shown[t] \in Seq(1 .. MaxEvents) /\ Rising(shown[t]) /\ Upto(shown[t], made)
         /\ up[t] \in Seq(Requests) /\ open[t] \in BOOLEAN /\ lastSeq[t] \in 0 .. MaxEvents
         /\ viewers[t] \in SUBSET People /\ PersonOf[t] \in People
         /\ up[t] # <<>> =>
              t \in online /\ (open[t] <=> up[t][Len(up[t])].type = "thread.subscribe")
         /\ ~orphaned /\ t \in subs =>
              t \in online /\ Member(PersonOf[t]) /\ (~Leaves(t) => Informed(t))
<1>1. /\ open \in [Tabs -> BOOLEAN] /\ lastSeq \in [Tabs -> 0 .. MaxEvents]
      /\ viewers \in [Tabs -> SUBSET People]
  BY DEF RosterInv, StoreOK, TypeOK
<1>2. down[t] \in Seq(Messages) /\ up[t] \in Seq(Requests) /\ made \in Nat
  BY WiresNow
<1>3. /\ WireOK(down[t], shown[t], made)
      /\ shown[t] \in Seq(1 .. MaxEvents) /\ Rising(shown[t]) /\ Upto(shown[t], made)
  BY WiresNow DEF WiresOK, SeenOK
<1>4. up[t] # <<>> => t \in online /\ (open[t] <=> up[t][Len(up[t])].type = "thread.subscribe")
  BY DEF RosterInv, RequestsOK
<1>5. ~orphaned /\ t \in subs =>
        t \in online /\ Member(PersonOf[t]) /\ (~Leaves(t) => Informed(t))
  BY WiresNow DEF RosterInv, PresenceOK
<1> QED BY <1>1, <1>2, <1>3, <1>4, <1>5

LEMMA WireEmpty ==
  ASSUME NEW seen \in Seq(1 .. MaxEvents), NEW n \in Nat, Upto(seen, n)
  PROVE  <<>> \in Seq(Messages) /\ WireOK(<<>>, seen, n)
  BY DEF WireOK

LEMMA ConnectsInv ==
  ASSUME RosterInv, NEW t \in Tabs, TabConnects(t)
  PROVE  RosterInv'
<1> USE DEF TabConnects, hubVars, threadVars, tabVars
<1> DEFINE m == Greeting(t)
<1>1. Plain(m) /\ m \in Messages
  BY NoticeIsPlain DEF Greeting, Notices, Plain
<1> HIDE DEF m
<1>2. t \notin subs /\ up[t] = <<>>
  BY WiresNow, TabNow
<1>3. WireOK(<<m>>, shown[t], made) /\ <<m>> \in Seq(Messages)
  <2>1. WireOK(<<>>, shown[t], made) /\ <<>> \in Seq(Messages)
    BY TabNow, WireEmpty
  <2>2. WireOK(Append(<<>>, m), shown[t], made)
    BY <1>1, <2>1, TabNow, WirePlain
  <2>3. Append(<<>>, m) = <<m>>
    OBVIOUS
  <2> QED BY <1>1, <2>2, <2>3
<1>4. down' = [down EXCEPT ![t] = <<m>>]
  BY DEF m
<1>5. WiresOK(down', shown, made)
  <2>1. WiresOK([down EXCEPT ![t] = <<m>>], shown, made)
    BY <1>3, WiresNow, WiresPut
  <2> QED BY <1>4, <2>1
<1>6. ScreensOK'
  BY <1>5, ScreensSame
<1>7. StoreOK'
  BY DEF RosterInv, StoreOK, TypeOK, ApproversAreMembers, Members, Member
<1>8. RequestsOK'
  BY DEF RosterInv, RequestsOK
<1>9. PresenceOK'
  <2>1. SUFFICES ASSUME ~orphaned', NEW u \in subs'
                 PROVE  Member(PersonOf[u])' /\ (~Leaves(u)' => Informed(u)')
    BY DEF PresenceOK
  <2>2. ~orphaned /\ u \in subs /\ u \in Tabs /\ u # t
    BY <1>2, <2>1, WiresNow
  <2>3. Member(PersonOf[u]) /\ (~Leaves(u) => open[u] /\ LastIs(down[u], viewers[u], Looking))
    BY <2>2 DEF RosterInv, PresenceOK, Informed
  <2>4. down'[u] = down[u]
    BY <1>4, <2>2, WiresNow
  <2> QED BY <2>3, <2>4 DEF Leaves, Informed, Looking, Member
<1> QED BY <1>6, <1>7, <1>8, <1>9 DEF RosterInv

(* The subscriptions and the wires after presence was told: everybody who  *)
(* is left has a seat and knows who looks.                                 *)
LEMMA AfterPresence ==
  ASSUME RosterInv, NEW wire \in [Tabs -> Seq(Messages)], NEW ts \in SUBSET Tabs,
         thread = "here", UNCHANGED role,
         subs' = KeptOf(ts, Members), down' = PresenceTo(wire, ts, Members),
         NEW u \in subs'
  PROVE  u \in ts /\ Member(PersonOf[u])' /\ LastIs(down'[u], viewers'[u], Looking')
<1>1. u \in ts /\ PersonOf[u] \in Members
  BY DEF KeptOf
<1>2. Member(PersonOf[u])'
  BY <1>1 DEF Members, Member
<1>3. LastIs(PresenceTo(wire, ts, Members)[u], viewers'[u], {PersonOf[w] : w \in KeptOf(ts, Members)})
  BY ToldPresence
<1> QED BY <1>1, <1>2, <1>3 DEF Looking

LEMMA DropsInv ==
  ASSUME RosterInv, NEW t \in Tabs, TabDrops(t)
  PROVE  RosterInv'
<1> DEFINE rest == subs \ {t}
           cut == [down EXCEPT ![t] = <<>>]
<1>1. /\ subs' = IF t \in subs THEN KeptOf(rest, Members) ELSE subs
      /\ down' = IF t \in subs THEN PresenceTo(cut, rest, Members) ELSE cut
      /\ up' = [up EXCEPT ![t] = <<>>] /\ online' = online \ {t} /\ drops' \in 0 .. MaxDrops
      /\ orphaned' = (orphaned \/ (t \in subs /\ thread # "here"))
      /\ UNCHANGED <<hubVars, threadVars, tabVars>>
  BY DEF TabDrops, Remaining, Overlooked, RosterInv, StoreOK, TypeOK
<1>2. UNCHANGED <<role, approvers, invite, barred, seats, thread, log, made, open, shown,
                  lastSeq, viewers>>
  BY <1>1 DEF hubVars, threadVars, tabVars
<1>3. /\ rest \in SUBSET Tabs /\ rest \subseteq online' /\ KeptOf(rest, Members) \subseteq rest
      /\ subs \subseteq online /\ online \subseteq Tabs /\ orphaned' \in BOOLEAN
  BY <1>1, WiresNow DEF KeptOf, RosterInv, StoreOK, TypeOK
<1>4. WiresOK(cut, shown, made) /\ cut \in [Tabs -> Seq(Messages)]
  <2>1. WireOK(<<>>, shown[t], made) /\ <<>> \in Seq(Messages)
    BY TabNow, WireEmpty
  <2> QED BY <2>1, WiresNow, WiresPut DEF WiresOK
<1>5. \A u \in Tabs : u # t => cut[u] = down[u]
  BY WiresNow
<1> HIDE DEF cut, rest
<1>6. ScreensOK'
  <2>1. WiresOK(PresenceTo(cut, rest, Members), shown, made)
    BY <1>3, <1>4, WiresNow, WiresPresence
  <2> QED BY <1>1, <1>2, <1>4, <2>1, ScreensSame
<1>7. StoreOK'
  <2>1. subs' \subseteq online' /\ online' \subseteq Tabs
    BY <1>1, <1>3
  <2> QED BY <1>1, <1>2, <1>3, <2>1
     DEF RosterInv, StoreOK, TypeOK, ApproversAreMembers, Members, Member
<1>8. RequestsOK'
  <2>1. up' \in [Tabs -> Seq(Requests)]
    BY <1>1, WiresNow
  <2>2. ASSUME NEW u \in Tabs, up'[u] # <<>>
        PROVE  u \in online' /\ (open'[u] <=> up'[u][Len(up'[u])].type = "thread.subscribe")
    <3>1. u # t /\ up'[u] = up[u]
      BY <1>1, <2>2, WiresNow
    <3> QED BY <1>1, <1>2, <2>2, <3>1, TabNow
  <2> QED BY <2>1, <2>2 DEF RequestsOK
<1>9. PresenceOK'
  <2>1. SUFFICES ASSUME ~orphaned', NEW u \in subs'
                 PROVE  Member(PersonOf[u])' /\ (~Leaves(u)' => Informed(u)')
    BY DEF PresenceOK
  <2>2. ~orphaned /\ (t \in subs => thread = "here") /\ u \in subs /\ u \in Tabs /\ u # t
    BY <1>1, <1>3, <2>1 DEF rest
  <2>3. Member(PersonOf[u]) /\ (~Leaves(u) => open[u] /\ LastIs(down[u], viewers[u], Looking))
    BY <2>2 DEF RosterInv, PresenceOK, Informed
  <2>4. Leaves(u)' <=> Leaves(u)
    <3>1. up'[u] = up[u]
      BY <1>1, <2>2, WiresNow
    <3> QED BY <3>1 DEF Leaves
  <2>5. CASE t \in subs
    <3>1. Member(PersonOf[u])' /\ LastIs(down'[u], viewers'[u], Looking')
      BY <1>1, <1>2, <1>3, <1>4, <2>1, <2>2, <2>5, AfterPresence
    <3> QED BY <1>2, <2>3, <2>4, <3>1 DEF Informed
  <2>6. CASE t \notin subs
    <3>1. down'[u] = down[u] /\ subs' = subs
      BY <1>1, <1>5, <2>2, <2>6
    <3> QED BY <1>2, <2>3, <2>4, <3>1 DEF Informed, Looking, Member
  <2> QED BY <2>5, <2>6
<1> QED BY <1>6, <1>7, <1>8, <1>9 DEF RosterInv

(* The events a tab has not seen yet, as a snapshot.                       *)
LEMMA SnapshotIsPlain ==
  ASSUME NEW l, NEW n \in Nat, LogOK(l, n), n <= MaxEvents, NEW after \in 0 .. MaxEvents
  PROVE  LET m == Snapshot(after, SubSeq(l, after + 1, Len(l)))
         IN  m \in Messages /\ m.type = "thread.snapshot" /\ Carries(m, n)
<1> DEFINE events == SubSeq(l, after + 1, Len(l))
           m == Snapshot(after, events)
<1>1. l \in Seq(1 .. MaxEvents) /\ Len(l) \in Nat /\ Len(l) <= n /\ after \in Nat
  BY DEF LogOK
<1>2. /\ events \in Seq(1 .. MaxEvents) /\ Len(events) \in Nat
      /\ Len(events) = IF after + 1 <= Len(l) THEN Len(l) - after ELSE 0
      /\ \A i \in 1 .. Len(events) : events[i] = l[after + i] /\ after + i \in 1 .. Len(l)
  BY <1>1
<1> HIDE DEF events
<1>3. /\ m.events = events /\ m.seq = after + Len(events) /\ m.type = "thread.snapshot"
      /\ m \in Messages
  <2>1. after + Len(events) \in Nat /\ {} \in SUBSET People
    BY <1>1, <1>2
  <2> QED BY <1>2, <2>1 DEF Snapshot, Messages, Content
<1> HIDE DEF m
<1>4. Rising(events)
  <2>1. ASSUME NEW i \in 1 .. Len(events), NEW j \in 1 .. Len(events), i < j
        PROVE  events[i] < events[j]
    <3>1. after + i < after + j
      BY <1>1, <2>1
    <3>2. l[after + i] < l[after + j]
      BY <1>2, <3>1 DEF LogOK, Rising
    <3> QED BY <1>2, <3>2
  <2> QED BY <2>1 DEF Rising
<1>5. Upto(events, n)
  BY <1>2 DEF LogOK, Upto
<1>6. m.events # <<>> => m.seq <= MaxEvents
  <2>1. events # <<>> => Len(events) # 0
    BY <1>2
  <2> QED BY <1>1, <1>2, <1>3, <2>1
<1>7. Carries(m, n)
  BY <1>3, <1>4, <1>5, <1>6 DEF Carries
<1> QED BY <1>3, <1>7 DEF m, events

(* A request the hub has read: the requests that are left.                 *)
LEMMA RequestRead ==
  ASSUME RosterInv, NEW t \in Tabs, up[t] # <<>>, up' = [up EXCEPT ![t] = Tail(@)],
         UNCHANGED <<online, open>>
  PROVE  /\ RequestsOK' /\ t \in online
         /\ \A u \in Tabs : u # t => (Leaves(u)' <=> Leaves(u))
         /\ Head(up[t]).type = "thread.subscribe" =>
              (Leaves(t)' <=> Leaves(t)) /\ (~Leaves(t) => open[t])
<1>1. /\ up \in [Tabs -> Seq(Requests)] /\ up[t] \in Seq(Requests) /\ t \in online
      /\ open[t] <=> up[t][Len(up[t])].type = "thread.subscribe"
  BY WiresNow, TabNow
<1>2. /\ Len(up[t]) \in Nat /\ Len(up[t]) >= 1 /\ Head(up[t]) = up[t][1]
      /\ Tail(up[t]) \in Seq(Requests) /\ Len(Tail(up[t])) = Len(up[t]) - 1
      /\ \A i \in 1 .. Len(up[t]) - 1 : Tail(up[t])[i] = up[t][i + 1]
  BY <1>1
<1>3. up' \in [Tabs -> Seq(Requests)] /\ up'[t] = Tail(up[t])
  BY <1>1, <1>2
<1>4. \A u \in Tabs : u # t => up'[u] = up[u]
  BY <1>1
<1>5. RequestsOK'
  <2>1. ASSUME NEW u \in Tabs, up'[u] # <<>>
        PROVE  u \in online' /\ (open'[u] <=> up'[u][Len(up'[u])].type = "thread.subscribe")
    <3>1. CASE u # t
      BY <1>4, <2>1, <3>1, TabNow
    <3>2. CASE u = t
      <4>1. Len(Tail(up[t])) >= 1 /\ Len(up[t]) - 1 \in 1 .. Len(up[t]) - 1
        BY <1>2, <1>3, <2>1, <3>2
      <4>2. Tail(up[t])[Len(Tail(up[t]))] = up[t][Len(up[t])]
        BY <1>2, <4>1
      <4> QED BY <1>1, <1>3, <3>2, <4>2
    <3> QED BY <3>1, <3>2
  <2> QED BY <1>3, <2>1 DEF RequestsOK
<1>6. \A u \in Tabs : u # t => (Leaves(u)' <=> Leaves(u))
  BY <1>4 DEF Leaves
<1>7. ASSUME Head(up[t]).type = "thread.subscribe"
      PROVE  (Leaves(t)' <=> Leaves(t)) /\ (~Leaves(t) => open[t])
  <2>1. \A i \in 1 .. Len(up[t]) : i = 1 \/ i - 1 \in 1 .. Len(up[t]) - 1
    BY <1>2
  <2>2. Leaves(t) => Leaves(t)'
    <3>1. ASSUME NEW i \in 1 .. Len(up[t]), up[t][i].type = "thread.unsubscribe"
          PROVE  i - 1 \in 1 .. Len(Tail(up[t])) /\ Tail(up[t])[i - 1] = up[t][i]
      BY <1>2, <1>7, <2>1, <3>1
    <3> QED BY <1>3, <3>1 DEF Leaves
  <2>3. Leaves(t)' => Leaves(t)
    <3>1. ASSUME NEW i \in 1 .. Len(Tail(up[t]))
          PROVE  i + 1 \in 1 .. Len(up[t]) /\ Tail(up[t])[i] = up[t][i + 1]
      BY <1>2
    <3> QED BY <1>3, <3>1 DEF Leaves
  <2>4. ~Leaves(t) => open[t]
    <3>1. Len(up[t]) \in 1 .. Len(up[t]) /\ up[t][Len(up[t])] \in Requests
      BY <1>1, <1>2
    <3> QED BY <1>1, <3>1 DEF Leaves, Requests
  <2> QED BY <2>2, <2>3, <2>4
<1> QED BY <1>1, <1>5, <1>6, <1>7

LEMMA SubscribesInv ==
  ASSUME RosterInv, NEW t \in Tabs, HubSubscribes(t)
  PROVE  RosterInv'
<1> DEFINE after == Head(up[t]).after
           m == Snapshot(after, SubSeq(log, after + 1, Len(log)))
           with == subs \cup {t}
           sent == [down EXCEPT ![t] = Append(@, m)]
           refused == [down EXCEPT ![t] = Append(@, Notice("error"))]
<1>1. /\ up[t] # <<>> /\ Head(up[t]).type = "thread.subscribe"
      /\ up' = [up EXCEPT ![t] = Tail(@)]
      /\ \/ /\ thread = "here" /\ Member(PersonOf[t])
            /\ subs' = KeptOf(with, Members) /\ down' = PresenceTo(sent, with, Members)
         \/ subs' = subs /\ down' = refused
      /\ UNCHANGED <<hubVars, threadVars, online, tabVars, drops, orphaned>>
  BY DEF HubSubscribes
<1>2. UNCHANGED <<role, approvers, invite, barred, seats, thread, log, made, online, open, shown,
                  lastSeq, viewers, drops, orphaned>>
  BY <1>1 DEF hubVars, threadVars, tabVars
<1>3. /\ RequestsOK' /\ t \in online /\ (Leaves(t)' <=> Leaves(t)) /\ (~Leaves(t) => open[t])
      /\ \A u \in Tabs : u # t => (Leaves(u)' <=> Leaves(u))
  BY <1>1, <1>2, RequestRead
<1>4. m \in Messages /\ m.type = "thread.snapshot" /\ Carries(m, made)
  <2>1. up[t] \in Seq(Requests) /\ Head(up[t]) \in Requests
    BY <1>1, TabNow
  <2>2. after \in 0 .. MaxEvents /\ made <= MaxEvents /\ made \in Nat /\ LogOK(log, made)
    BY <2>1, WiresNow DEF Requests, RosterInv, StoreOK, TypeOK
  <2> QED BY <2>2, SnapshotIsPlain
<1> HIDE DEF m
<1>5. with \in SUBSET Tabs /\ with \subseteq online /\ KeptOf(with, Members) \subseteq with
  BY <1>3, WiresNow DEF KeptOf
<1>6. WiresOK(sent, shown, made) /\ sent \in [Tabs -> Seq(Messages)]
  <2>1. WireOK(Append(down[t], m), shown[t], made)
    BY <1>4, TabNow, WireAppend
  <2>2. Append(down[t], m) \in Seq(Messages)
    BY <1>4, TabNow
  <2>3. WiresOK([down EXCEPT ![t] = Append(down[t], m)], shown, made)
    BY <2>1, <2>2, WiresNow, WiresPut
  <2> QED BY <2>3 DEF WiresOK
<1>7. refused = Told(down, {t}, Notice("error"))
  BY WiresNow DEF Told
<1>8. "error" \in Notices /\ Plain(Notice("error"))
  BY NoticeIsPlain DEF Notices
<1> HIDE DEF sent, refused, with
<1>9. ScreensOK'
  <2>1. WiresOK(PresenceTo(sent, with, Members), shown, made)
    BY <1>5, <1>6, WiresNow, WiresPresence
  <2>2. WiresOK(refused, shown, made)
    BY <1>7, <1>8, WiresNow, WiresTold
  <2> QED BY <1>1, <1>2, <2>1, <2>2, ScreensSame
<1>10. StoreOK'
  <2>1. subs' \subseteq online'
    BY <1>1, <1>2, <1>5, WiresNow
  <2> QED BY <1>2, <2>1 DEF RosterInv, StoreOK, TypeOK, ApproversAreMembers, Members, Member
<1>11. PresenceOK'
  <2>1. SUFFICES ASSUME ~orphaned', NEW u \in subs'
                 PROVE  Member(PersonOf[u])' /\ (~Leaves(u)' => Informed(u)')
    BY DEF PresenceOK
  <2>2. CASE /\ thread = "here" /\ Member(PersonOf[t])
             /\ subs' = KeptOf(with, Members) /\ down' = PresenceTo(sent, with, Members)
    <3>1. u \in with /\ Member(PersonOf[u])' /\ LastIs(down'[u], viewers'[u], Looking')
      BY <1>2, <1>5, <1>6, <2>1, <2>2, AfterPresence
    <3>2. ~Leaves(u)' => open[u]
      <4>1. CASE u = t
        BY <1>3, <4>1
      <4>2. CASE u # t
        <5>1. u \in subs /\ u \in Tabs /\ ~orphaned
          BY <1>2, <2>1, <3>1, <4>2, WiresNow DEF with
        <5> QED BY <1>3, <4>2, <5>1 DEF RosterInv, PresenceOK, Informed
      <4> QED BY <4>1, <4>2
    <3> QED BY <1>2, <3>1, <3>2 DEF Informed
  <2>3. CASE subs' = subs /\ down' = refused
    <3>1. u \in subs /\ u \in Tabs /\ ~orphaned /\ (Leaves(u)' <=> Leaves(u))
      BY <1>2, <1>3, <2>1, <2>3, WiresNow
    <3>2. Member(PersonOf[u]) /\ (~Leaves(u) => open[u] /\ LastIs(down[u], viewers[u], Looking))
      BY <3>1 DEF RosterInv, PresenceOK, Informed
    <3>3. ~Leaves(u) => LastIs(refused[u], viewers[u], Looking)
      BY <1>7, <1>8, <3>1, <3>2, WiresNow, ToldNotice
    <3> QED BY <1>2, <2>3, <3>1, <3>2, <3>3 DEF Informed, Looking, Member
  <2> QED BY <1>1, <2>2, <2>3
<1> QED BY <1>3, <1>9, <1>10, <1>11 DEF RosterInv

LEMMA UnsubscribesInv ==
  ASSUME RosterInv, NEW t \in Tabs, HubUnsubscribes(t)
  PROVE  RosterInv'
<1> DEFINE rest == subs \ {t}
<1>1. /\ up[t] # <<>> /\ up' = [up EXCEPT ![t] = Tail(@)]
      /\ subs' = KeptOf(rest, Members) /\ down' = PresenceTo(down, rest, Members)
      /\ orphaned' = (orphaned \/ (t \in subs /\ thread # "here"))
      /\ UNCHANGED <<hubVars, threadVars, online, tabVars, drops>>
  BY DEF HubUnsubscribes, LeftBehind, Overlooked
<1>2. UNCHANGED <<role, approvers, invite, barred, seats, thread, log, made, online, open, shown,
                  lastSeq, viewers, drops>>
  BY <1>1 DEF hubVars, threadVars, tabVars
<1>3. RequestsOK' /\ \A u \in Tabs : u # t => (Leaves(u)' <=> Leaves(u))
  BY <1>1, <1>2, RequestRead
<1>4. /\ rest \in SUBSET Tabs /\ rest \subseteq online /\ KeptOf(rest, Members) \subseteq rest
      /\ orphaned' \in BOOLEAN
  BY <1>1, WiresNow DEF KeptOf, RosterInv, StoreOK, TypeOK
<1> HIDE DEF rest
<1>5. ScreensOK'
  <2>1. WiresOK(PresenceTo(down, rest, Members), shown, made)
    BY <1>4, WiresNow, WiresPresence
  <2> QED BY <1>1, <1>2, <2>1, ScreensSame
<1>6. StoreOK'
  <2>1. subs' \subseteq online'
    BY <1>1, <1>2, <1>4
  <2> QED BY <1>2, <1>4, <2>1 DEF RosterInv, StoreOK, TypeOK, ApproversAreMembers, Members, Member
<1>7. PresenceOK'
  <2>1. SUFFICES ASSUME ~orphaned', NEW u \in subs'
                 PROVE  Member(PersonOf[u])' /\ (~Leaves(u)' => Informed(u)')
    BY DEF PresenceOK
  <2>2. /\ ~orphaned /\ (t \in subs => thread = "here") /\ u \in subs /\ u \in Tabs /\ u # t
        /\ u \in rest
    BY <1>1, <1>4, <2>1 DEF rest
  <2>3. /\ Member(PersonOf[u]) /\ (~Leaves(u) => open[u] /\ LastIs(down[u], viewers[u], Looking))
        /\ (Leaves(u)' <=> Leaves(u))
    BY <1>3, <2>2 DEF RosterInv, PresenceOK, Informed
  <2>4. CASE thread = "here"
    <3>1. Member(PersonOf[u])' /\ LastIs(down'[u], viewers'[u], Looking')
      BY <1>1, <1>2, <1>4, <2>1, <2>4, WiresNow, AfterPresence
    <3> QED BY <1>2, <2>3, <3>1 DEF Informed
  <2>5. CASE thread # "here"
    <3>1. down' = down /\ subs' = subs
      BY <1>1, <2>2, <2>5 DEF rest, KeptOf, PresenceTo
    <3> QED BY <1>2, <2>3, <3>1 DEF Informed, Looking, Member
  <2> QED BY <2>4, <2>5
<1> QED BY <1>3, <1>5, <1>6, <1>7 DEF RosterInv

-----------------------------------------------------------------------------
(* A tab.                                                                  *)

(* One tab changes what it shows, sends and has heard; the hub is the same.*)
LEMMA TabInv ==
  ASSUME RosterInv, NEW t \in Tabs, NEW w \in Seq(Messages), NEW a \in Seq(Requests),
         NEW o \in BOOLEAN, NEW s \in Seq(1 .. MaxEvents), NEW q \in 0 .. MaxEvents,
         NEW v \in SUBSET People,
         UNCHANGED <<hubVars, threadVars, online, subs, drops, orphaned>>,
         down' = [down EXCEPT ![t] = w], up' = [up EXCEPT ![t] = a],
         open' = [open EXCEPT ![t] = o], shown' = [shown EXCEPT ![t] = s],
         lastSeq' = [lastSeq EXCEPT ![t] = q], viewers' = [viewers EXCEPT ![t] = v],
         Rising(s), Upto(s, made), WireOK(w, s, made),
         a # <<>> => t \in online /\ (o <=> a[Len(a)].type = "thread.subscribe"),
         \/ orphaned \/ t \notin subs
         \/ \E i \in 1 .. Len(a) : a[i].type = "thread.unsubscribe"
         \/ o /\ LastIs(w, v, Looking)
  PROVE  RosterInv'
<1>1. UNCHANGED <<role, approvers, invite, barred, seats, thread, log, made, online, subs, drops,
                  orphaned>>
  BY DEF hubVars, threadVars
<1>2. /\ open \in [Tabs -> BOOLEAN] /\ lastSeq \in [Tabs -> 0 .. MaxEvents]
      /\ viewers \in [Tabs -> SUBSET People] /\ shown \in [Tabs -> Seq(1 .. MaxEvents)]
      /\ down \in [Tabs -> Seq(Messages)] /\ up \in [Tabs -> Seq(Requests)]
  BY WiresNow DEF RosterInv, StoreOK, TypeOK, SeenOK
<1>3. /\ down'[t] = w /\ up'[t] = a /\ open'[t] = o /\ shown'[t] = s /\ viewers'[t] = v
      /\ \A u \in Tabs : u # t =>
           /\ down'[u] = down[u] /\ up'[u] = up[u] /\ open'[u] = open[u] /\ shown'[u] = shown[u]
           /\ viewers'[u] = viewers[u]
  BY <1>2
<1>4. /\ open' \in [Tabs -> BOOLEAN] /\ lastSeq' \in [Tabs -> 0 .. MaxEvents]
      /\ viewers' \in [Tabs -> SUBSET People]
  BY <1>2
<1>5. StoreOK'
  BY <1>1, <1>4 DEF RosterInv, StoreOK, TypeOK, ApproversAreMembers, Members, Member
<1>6. RequestsOK'
  <2>1. up' \in [Tabs -> Seq(Requests)]
    BY <1>2
  <2>2. ASSUME NEW u \in Tabs, up'[u] # <<>>
        PROVE  u \in online' /\ (open'[u] <=> up'[u][Len(up'[u])].type = "thread.subscribe")
    <3>1. CASE u = t
      BY <1>1, <1>3, <2>2, <3>1
    <3>2. CASE u # t
      BY <1>1, <1>3, <2>2, <3>2, TabNow
    <3> QED BY <3>1, <3>2
  <2> QED BY <2>1, <2>2 DEF RequestsOK
<1>7. ScreensOK'
  <2>1. SeenOK(shown', made)
    <3>1. shown' \in [Tabs -> Seq(1 .. MaxEvents)]
      BY <1>2
    <3>2. ASSUME NEW u \in Tabs PROVE Rising(shown'[u]) /\ Upto(shown'[u], made)
      <4>1. CASE u = t
        BY <1>3, <4>1
      <4>2. CASE u # t
        BY <1>3, <4>2, TabNow
      <4> QED BY <4>1, <4>2
    <3> QED BY <3>1, <3>2 DEF SeenOK
  <2>2. WiresOK(down', shown', made)
    <3>1. down' \in [Tabs -> Seq(Messages)]
      BY <1>2
    <3>2. ASSUME NEW u \in Tabs PROVE WireOK(down'[u], shown'[u], made)
      <4>1. CASE u = t
        BY <1>3, <4>1
      <4>2. CASE u # t
        BY <1>3, <4>2, TabNow
      <4> QED BY <4>1, <4>2
    <3> QED BY <3>1, <3>2 DEF WiresOK
  <2> QED BY <1>1, <2>1, <2>2, WiresNow DEF ScreensOK
<1>8. PresenceOK'
  <2>1. SUFFICES ASSUME ~orphaned', NEW u \in subs'
                 PROVE  Member(PersonOf[u])' /\ (~Leaves(u)' => Informed(u)')
    BY DEF PresenceOK
  <2>2. ~orphaned /\ u \in subs /\ u \in Tabs /\ Looking' = Looking
    BY <1>1, <2>1, WiresNow DEF Looking
  <2>3. Member(PersonOf[u])'
    BY <1>1, <2>2, TabNow DEF Member
  <2>4. ~Leaves(u)' => Informed(u)'
    <3>1. CASE u = t
      BY <1>3, <2>2, <3>1 DEF Leaves, Informed
    <3>2. CASE u # t
      <4>1. ~Leaves(u) => Informed(u)
        BY <2>2, TabNow
      <4>2. Leaves(u)' <=> Leaves(u)
        BY <1>3, <2>2, <3>2 DEF Leaves
      <4>3. Informed(u) => Informed(u)'
        BY <1>3, <2>2, <3>2 DEF Informed
      <4> QED BY <4>1, <4>2, <4>3
    <3> QED BY <3>1, <3>2
  <2> QED BY <2>3, <2>4
<1> QED BY <1>5, <1>6, <1>7, <1>8 DEF RosterInv

LEMMA Cleared ==
  ASSUME NEW w \in Seq(Messages), NEW seen, NEW n, WireOK(w, seen, n)
  PROVE  WireOK(w, <<>>, n) /\ Rising(<<>>) /\ Upto(<<>>, n) /\ <<>> \in Seq(1 .. MaxEvents)
<1>1. \A e : Above(e, <<>>)
  BY DEF Above
<1>2. WireOK(w, <<>>, n)
  BY <1>1 DEF WireOK
<1> QED BY <1>2 DEF Rising, Upto

(* What a tab sends is the last thing it asked for.                        *)
LEMMA Sent ==
  ASSUME RosterInv, NEW t \in Tabs, NEW m \in Requests
  PROVE  \E a \in Seq(Requests) :
           /\ Sends(t, m) = [up EXCEPT ![t] = a]
           /\ a # <<>> => t \in online /\ a[Len(a)] = m
           /\ t \in online => m = a[Len(a)] /\ Len(a) \in 1 .. Len(a)
           /\ Leaves(t) => \E i \in 1 .. Len(a) : a[i].type = "thread.unsubscribe"
<1>1. up \in [Tabs -> Seq(Requests)] /\ up[t] \in Seq(Requests)
  BY WiresNow
<1>2. CASE t \in online
  <2> DEFINE a == Append(up[t], m)
  <2>1. /\ a \in Seq(Requests) /\ Len(a) = Len(up[t]) + 1 /\ a[Len(a)] = m /\ Len(up[t]) \in Nat
        /\ \A i \in 1 .. Len(up[t]) : a[i] = up[t][i]
    BY <1>1
  <2>2. Leaves(t) => \E i \in 1 .. Len(a) : a[i].type = "thread.unsubscribe"
    BY <2>1 DEF Leaves
  <2>3. Sends(t, m) = [up EXCEPT ![t] = a]
    BY <1>2 DEF Sends
  <2>4. Len(a) \in 1 .. Len(a)
    BY <2>1
  <2> HIDE DEF a
  <2> QED BY <1>2, <2>1, <2>2, <2>3, <2>4
<1>3. CASE t \notin online
  <2>1. up[t] = <<>>
    BY <1>3, TabNow
  <2>2. Sends(t, m) = [up EXCEPT ![t] = up[t]] /\ ~Leaves(t)
    BY <1>1, <1>3, <2>1 DEF Sends, Leaves
  <2> QED BY <1>1, <1>3, <2>1, <2>2
<1> QED BY <1>2, <1>3

LEMMA SelectsInv ==
  ASSUME RosterInv, NEW t \in Tabs, TabSelects(t)
  PROVE  RosterInv'
<1>1. Subscribe(0) \in Requests /\ Subscribe(0).type = "thread.subscribe"
  BY DEF Subscribe, Requests
<1>2. PICK a \in Seq(Requests) :
        /\ Sends(t, Subscribe(0)) = [up EXCEPT ![t] = a]
        /\ a # <<>> => t \in online /\ a[Len(a)] = Subscribe(0)
        /\ t \in online => Subscribe(0) = a[Len(a)] /\ Len(a) \in 1 .. Len(a)
        /\ Leaves(t) => \E i \in 1 .. Len(a) : a[i].type = "thread.unsubscribe"
  BY <1>1, Sent
<1> PICK o \in BOOLEAN : o = TRUE
  OBVIOUS
<1>3. /\ down' = [down EXCEPT ![t] = down[t]] /\ viewers' = [viewers EXCEPT ![t] = viewers[t]]
      /\ up' = [up EXCEPT ![t] = a] /\ 0 \in 0 .. MaxEvents
      /\ open' = [open EXCEPT ![t] = o] /\ shown' = [shown EXCEPT ![t] = <<>>]
      /\ lastSeq' = [lastSeq EXCEPT ![t] = 0]
      /\ UNCHANGED <<hubVars, threadVars, online, subs, drops, orphaned>>
  BY <1>2, WiresNow DEF TabSelects, RosterInv, StoreOK, TypeOK
<1>4. /\ down[t] \in Seq(Messages) /\ viewers[t] \in SUBSET People
      /\ WireOK(down[t], <<>>, made) /\ Rising(<<>>) /\ Upto(<<>>, made)
      /\ <<>> \in Seq(1 .. MaxEvents)
  BY TabNow, Cleared
<1>5. \/ orphaned \/ t \notin subs
      \/ \E i \in 1 .. Len(a) : a[i].type = "thread.unsubscribe"
      \/ o /\ LastIs(down[t], viewers[t], Looking)
  BY <1>2, TabNow DEF Informed
<1>6. a # <<>> => t \in online /\ (o <=> a[Len(a)].type = "thread.subscribe")
  BY <1>1, <1>2
<1> QED BY <1>3, <1>4, <1>5, <1>6, TabInv

(* The fleet view, with the messages the tab has left to hear.             *)
LEMMA FleetInv ==
  ASSUME RosterInv, NEW t \in Tabs, open[t], Fleet(t),
         UNCHANGED <<hubVars, threadVars, online, subs, drops, orphaned>>,
         NEW w \in Seq(Messages), down' = [down EXCEPT ![t] = w], WireOK(w, <<>>, made)
  PROVE  RosterInv'
<1>1. Unsubscribe \in Requests /\ Unsubscribe.type = "thread.unsubscribe"
  BY DEF Unsubscribe, Requests
<1>2. PICK a \in Seq(Requests) :
        /\ Sends(t, Unsubscribe) = [up EXCEPT ![t] = a]
        /\ a # <<>> => t \in online /\ a[Len(a)] = Unsubscribe
        /\ t \in online => Unsubscribe = a[Len(a)] /\ Len(a) \in 1 .. Len(a)
  BY <1>1, Sent
<1>3. /\ viewers' = [viewers EXCEPT ![t] = {}] /\ up' = [up EXCEPT ![t] = a]
      /\ open' = [open EXCEPT ![t] = FALSE] /\ shown' = [shown EXCEPT ![t] = <<>>]
      /\ lastSeq' = [lastSeq EXCEPT ![t] = lastSeq[t]]
      /\ FALSE \in BOOLEAN /\ {} \in SUBSET People /\ lastSeq[t] \in 0 .. MaxEvents
  BY <1>2 DEF Fleet, RosterInv, StoreOK, TypeOK
<1>4. Rising(<<>>) /\ Upto(<<>>, made) /\ <<>> \in Seq(1 .. MaxEvents)
  BY Cleared
<1>5. t \notin subs \/ \E i \in 1 .. Len(a) : a[i].type = "thread.unsubscribe"
  BY <1>1, <1>2, WiresNow
<1>6. a # <<>> => t \in online /\ (FALSE <=> a[Len(a)].type = "thread.subscribe")
  BY <1>1, <1>2
<1> QED BY <1>3, <1>4, <1>5, <1>6, TabInv

LEMMA LeavesInv ==
  ASSUME RosterInv, NEW t \in Tabs, TabLeaves(t)
  PROVE  RosterInv'
<1>1. open[t] /\ Fleet(t) /\ UNCHANGED <<hubVars, threadVars, online, subs, drops, orphaned>>
  BY DEF TabLeaves
<1>2. down' = [down EXCEPT ![t] = down[t]]
  BY WiresNow DEF TabLeaves
<1>3. down[t] \in Seq(Messages) /\ WireOK(down[t], <<>>, made)
  BY TabNow, Cleared
<1> QED BY <1>1, <1>2, <1>3, FleetInv

(* A tab reads one message.                                                *)
LEMMA HearsInv ==
  ASSUME RosterInv, NEW t \in Tabs, TabHears(t)
  PROVE  RosterInv'
<1> DEFINE m == Head(down[t])
           w == Tail(down[t])
           heard == IF m.type = "presence" THEN m.to ELSE viewers[t]
<1>1. /\ down[t] # <<>> /\ t \in online /\ down' = [down EXCEPT ![t] = w]
      /\ UNCHANGED <<hubVars, threadVars, online, subs, drops, orphaned>>
  BY DEF TabHears
<1>2. m \in Messages /\ w \in Seq(Messages) /\ Carries(m, made) /\ m = down[t][1]
  BY <1>1, TabNow DEF WireOK
<1>3. WireOK(w, shown[t], made) /\ WireOK(w, m.events, made) /\ WireOK(w, <<>>, made)
  BY <1>1, TabNow, WireTail
<1>4. /\ up = [up EXCEPT ![t] = up[t]] /\ open = [open EXCEPT ![t] = open[t]]
      /\ shown = [shown EXCEPT ![t] = shown[t]] /\ lastSeq = [lastSeq EXCEPT ![t] = lastSeq[t]]
      /\ viewers = [viewers EXCEPT ![t] = viewers[t]]
  BY WiresNow DEF RosterInv, StoreOK, TypeOK, SeenOK
<1>5. ~orphaned /\ t \in subs /\ ~Leaves(t) => open[t] /\ LastIs(w, heard, Looking)
  BY <1>1, TabNow, LastTail DEF Informed
<1>6. /\ m.events \in Seq(1 .. MaxEvents) /\ m.to \in SUBSET People /\ m.seq \in Nat
      /\ Rising(m.events) /\ Upto(m.events, made)
      /\ m.type = "event" \/ m.events # <<>> => m.seq \in 0 .. MaxEvents
  BY <1>2 DEF Messages, Carries
<1>14. /\ up[t] \in Seq(Requests) /\ open[t] \in BOOLEAN /\ viewers[t] \in SUBSET People
       /\ shown[t] \in Seq(1 .. MaxEvents) /\ lastSeq[t] \in 0 .. MaxEvents
       /\ Rising(shown[t]) /\ Upto(shown[t], made)
       /\ up[t] # <<>> =>
            t \in online /\ (open[t] <=> up[t][Len(up[t])].type = "thread.subscribe")
  BY TabNow
<1> HIDE DEF m, w
<1>7. CASE /\ m.type = "thread.snapshot" /\ open[t] /\ ShowsSnapshot(t, m)
  <2> DEFINE q == IF m.events = <<>> THEN 0 ELSE m.seq
  <2>1. /\ shown' = [shown EXCEPT ![t] = m.events] /\ lastSeq' = [lastSeq EXCEPT ![t] = q]
        /\ up' = [up EXCEPT ![t] = up[t]] /\ open' = [open EXCEPT ![t] = open[t]]
        /\ viewers' = [viewers EXCEPT ![t] = viewers[t]]
    BY <1>4, <1>7 DEF ShowsSnapshot, Replayed
  <2>2. q \in 0 .. MaxEvents
    BY <1>6
  <2>3. \/ orphaned \/ t \notin subs
        \/ \E i \in 1 .. Len(up[t]) : up[t][i].type = "thread.unsubscribe"
        \/ open[t] /\ LastIs(w, viewers[t], Looking)
    BY <1>5, <1>7 DEF Leaves
  <2> HIDE DEF q
  <2> QED BY <1>1, <1>2, <1>3, <1>6, <2>1, <2>2, <2>3, <1>14, TabInv
<1>8. CASE m.type = "event" /\ open[t] /\ ShowsEvent(t, m)
  <2>1. /\ up' = [up EXCEPT ![t] = up[t]] /\ open' = [open EXCEPT ![t] = open[t]]
        /\ viewers' = [viewers EXCEPT ![t] = viewers[t]]
    BY <1>4, <1>8 DEF ShowsEvent
  <2>2. \/ orphaned \/ t \notin subs
        \/ \E i \in 1 .. Len(up[t]) : up[t][i].type = "thread.unsubscribe"
        \/ open[t] /\ LastIs(w, viewers[t], Looking)
    BY <1>5, <1>8 DEF Leaves
  <2>3. CASE m.seq > lastSeq[t]
    <3> DEFINE s == shown[t] \o m.events
    <3>1. Rising(s) /\ Upto(s, made) /\ WireOK(w, s, made)
      BY <1>1, <1>8, TabNow, WireShows DEF m, w
    <3>2. s \in Seq(1 .. MaxEvents) /\ m.seq \in 0 .. MaxEvents
      BY <1>6, <1>8, TabNow
    <3>3. shown' = [shown EXCEPT ![t] = s] /\ lastSeq' = [lastSeq EXCEPT ![t] = m.seq]
      BY <1>8, <2>3 DEF ShowsEvent
    <3> HIDE DEF s
    <3> QED BY <1>1, <1>2, <1>14, <2>1, <2>2, <3>1, <3>2, <3>3, TabInv
  <2>4. CASE ~(m.seq > lastSeq[t])
    <3>1. /\ shown' = [shown EXCEPT ![t] = shown[t]]
          /\ lastSeq' = [lastSeq EXCEPT ![t] = lastSeq[t]]
      BY <1>4, <1>8, <2>4 DEF ShowsEvent
    <3> QED BY <1>1, <1>2, <1>3, <2>1, <2>2, <3>1, <1>14, TabInv
  <2> QED BY <2>3, <2>4
<1>9. CASE m.type = "presence" /\ open[t] /\ ShowsPresence(t, m)
  <2>1. /\ up' = [up EXCEPT ![t] = up[t]] /\ open' = [open EXCEPT ![t] = open[t]]
        /\ shown' = [shown EXCEPT ![t] = shown[t]] /\ lastSeq' = [lastSeq EXCEPT ![t] = lastSeq[t]]
        /\ viewers' = [viewers EXCEPT ![t] = m.to]
    BY <1>4, <1>9 DEF ShowsPresence
  <2>2. \/ orphaned \/ t \notin subs
        \/ \E i \in 1 .. Len(up[t]) : up[t][i].type = "thread.unsubscribe"
        \/ open[t] /\ LastIs(w, m.to, Looking)
    BY <1>5, <1>9 DEF Leaves
  <2>3. /\ shown[t] \in Seq(1 .. MaxEvents) /\ Rising(shown[t]) /\ Upto(shown[t], made)
        /\ lastSeq[t] \in 0 .. MaxEvents
    BY TabNow
  <2> QED BY <1>1, <1>2, <1>3, <1>6, <1>14, <2>1, <2>2, <2>3, TabInv
<1>10. CASE m.type = "thread.deleted" /\ open[t] /\ Fleet(t)
  BY <1>1, <1>2, <1>3, <1>10, FleetInv
<1>11. CASE m.type \in {"welcome", "team"} /\ Resumes(t) /\ open[t] /\ UNCHANGED tabVars
  <2>1. Subscribe(lastSeq[t]) \in Requests /\ Subscribe(lastSeq[t]).type = "thread.subscribe"
    BY TabNow DEF Subscribe, Requests
  <2>2. PICK a \in Seq(Requests) :
          /\ Sends(t, Subscribe(lastSeq[t])) = [up EXCEPT ![t] = a]
          /\ a # <<>> => t \in online /\ a[Len(a)] = Subscribe(lastSeq[t])
          /\ t \in online => Subscribe(lastSeq[t]) = a[Len(a)] /\ Len(a) \in 1 .. Len(a)
          /\ Leaves(t) => \E i \in 1 .. Len(a) : a[i].type = "thread.unsubscribe"
    BY <2>1, Sent
  <2>3. /\ up' = [up EXCEPT ![t] = a] /\ open' = [open EXCEPT ![t] = open[t]]
        /\ shown' = [shown EXCEPT ![t] = shown[t]] /\ lastSeq' = [lastSeq EXCEPT ![t] = lastSeq[t]]
        /\ viewers' = [viewers EXCEPT ![t] = viewers[t]]
    BY <1>4, <1>11, <2>2 DEF Resumes, tabVars
  <2>4. \/ orphaned \/ t \notin subs
        \/ \E i \in 1 .. Len(a) : a[i].type = "thread.unsubscribe"
        \/ open[t] /\ LastIs(w, viewers[t], Looking)
    BY <1>5, <1>11, <2>2
  <2>5. a # <<>> => t \in online /\ (open[t] <=> a[Len(a)].type = "thread.subscribe")
    BY <1>11, <2>1, <2>2
  <2> QED BY <1>1, <1>2, <1>3, <2>3, <2>4, <2>5, <1>14, TabInv
<1>12. CASE UNCHANGED <<up, tabVars>> /\ (m.type # "presence" \/ ~open[t])
  <2>1. /\ up' = [up EXCEPT ![t] = up[t]] /\ open' = [open EXCEPT ![t] = open[t]]
        /\ shown' = [shown EXCEPT ![t] = shown[t]] /\ lastSeq' = [lastSeq EXCEPT ![t] = lastSeq[t]]
        /\ viewers' = [viewers EXCEPT ![t] = viewers[t]]
    BY <1>4, <1>12 DEF tabVars
  <2>2. \/ orphaned \/ t \notin subs
        \/ \E i \in 1 .. Len(up[t]) : up[t][i].type = "thread.unsubscribe"
        \/ open[t] /\ LastIs(w, viewers[t], Looking)
    BY <1>5, <1>12 DEF Leaves
  <2> QED BY <1>1, <1>2, <1>3, <2>1, <2>2, <1>14, TabInv
<1>13. \/ m.type = "thread.snapshot" /\ open[t] /\ ShowsSnapshot(t, m)
       \/ m.type = "event" /\ open[t] /\ ShowsEvent(t, m)
       \/ m.type = "presence" /\ open[t] /\ ShowsPresence(t, m)
       \/ m.type = "thread.deleted" /\ open[t] /\ Fleet(t)
       \/ m.type \in {"welcome", "team"} /\ Resumes(t) /\ open[t] /\ UNCHANGED tabVars
       \/ UNCHANGED <<up, tabVars>> /\ (m.type # "presence" \/ ~open[t])
  BY DEF TabHears, Resumes, m
<1> QED BY <1>7, <1>8, <1>9, <1>10, <1>11, <1>12, <1>13

-----------------------------------------------------------------------------
(* Every step keeps the invariant.                                         *)
LEMMA RosterInvStep == RosterInv /\ [Next]_vars => RosterInv'
<1> SUFFICES ASSUME RosterInv, [Next]_vars PROVE RosterInv'
  OBVIOUS
<1>1. ASSUME NEW t \in Tabs, NEW p \in People, NEW r \in Roles, NEW c \in Codes,
             InviteCreated(t, p, r, c)
      PROVE  RosterInv'
  BY <1>1, OwnerInv
<1>2. ASSUME NEW c \in Codes, InviteExpires(c) PROVE RosterInv'
  <2>1. invite' \in [Codes -> [status : {"unused", "pending", "spent"}, for : People, role : Roles]]
    BY <1>2 DEF InviteExpires, RosterInv, StoreOK, TypeOK, Spent, Unused, Roles
  <2>2. approvers' \subseteq Members
    BY <1>2 DEF InviteExpires, RosterInv, StoreOK, ApproversAreMembers
  <2> QED BY <1>2, <2>1, <2>2, StoreInv DEF InviteExpires
<1>3. ASSUME NEW t \in Tabs, NEW c \in Codes, InviteRevoked(t, c) PROVE RosterInv'
  <2>1. Founder \in People /\ "owner" \in Roles
    BY DEF Roles
  <2> QED BY <1>3, <2>1, OwnerInv
<1>4. ASSUME NEW t \in Tabs, NEW c \in Codes, InviteAccepted(t, c) PROVE RosterInv'
  BY <1>4, AcceptedInv
<1>5. ASSUME NEW t \in Tabs, NEW p \in People,
             MemberRemoved(t, p) \/ ApproverGranted(t, p) \/ ApproverRevoked(t, p)
      PROVE  RosterInv'
  <2>1. CASE MemberRemoved(t, p)
    BY <2>1, RemovedInv
  <2>2. CASE ApproverGranted(t, p) \/ ApproverRevoked(t, p)
    <3>1. approvers' \subseteq Members /\ UNCHANGED <<role, invite, barred, seats, threadVars,
            online, subs, up, down, tabVars, drops, orphaned>>
      BY <2>2 DEF ApproverGranted, ApproverRevoked, RosterInv, StoreOK, ApproversAreMembers, Members
    <3>2. invite' \in [Codes -> [status : {"unused", "pending", "spent"}, for : People, role : Roles]]
      BY <3>1 DEF RosterInv, StoreOK, TypeOK
    <3> QED BY <3>1, <3>2, StoreInv
  <2> QED BY <1>5, <2>1, <2>2
<1>6. CASE ThreadUpserted \/ Appended \/ ThreadDeleted
  BY <1>6, UpsertedInv, AppendedInv, DeletedInv
<1>7. ASSUME NEW t \in Tabs,
             \/ TabConnects(t) \/ TabDrops(t) \/ HubSubscribes(t) \/ HubUnsubscribes(t)
             \/ TabSelects(t) \/ TabLeaves(t) \/ TabHears(t)
      PROVE  RosterInv'
  BY <1>7, ConnectsInv, DropsInv, SubscribesInv, UnsubscribesInv, SelectsInv, LeavesInv, HearsInv
<1>8. CASE UNCHANGED vars
  <2>1. approvers' \subseteq Members
        /\ UNCHANGED <<role, invite, barred, seats, threadVars, online, subs, up, down, tabVars,
                       drops, orphaned>>
    BY <1>8 DEF vars, hubVars, RosterInv, StoreOK, ApproversAreMembers
  <2>2. invite' \in [Codes -> [status : {"unused", "pending", "spent"}, for : People, role : Roles]]
    BY <2>1 DEF RosterInv, StoreOK, TypeOK
  <2> QED BY <2>1, <2>2, StoreInv
<1> QED BY <1>1, <1>2, <1>3, <1>4, <1>5, <1>6, <1>7, <1>8 DEF Next

LEMMA RosterInvInit == Init => RosterInv
<1> SUFFICES ASSUME Init PROVE RosterInv
  OBVIOUS
<1> USE DEF Init
<1>1. StoreOK
  <2>1. /\ role \in [People -> Roles \cup {"none"}] /\ approvers \subseteq Members
        /\ invite \in [Codes -> [status : {"unused", "pending", "spent"}, for : People, role : Roles]]
    BY DEF Unused, Roles
  <2>2. /\ log \in Seq(1 .. MaxEvents) /\ made \in 0 .. MaxEvents
        /\ open \in [Tabs -> BOOLEAN] /\ lastSeq \in [Tabs -> 0 .. MaxEvents]
        /\ viewers \in [Tabs -> SUBSET People] /\ seats \in 0 .. MaxSeats
        /\ drops \in 0 .. MaxDrops /\ orphaned \in BOOLEAN
    <3>1. 0 \in 0 .. MaxEvents /\ 0 \in 0 .. MaxSeats /\ 0 \in 0 .. MaxDrops
      OBVIOUS
    <3>2. <<>> \in Seq(1 .. MaxEvents)
      OBVIOUS
    <3> QED BY <3>1, <3>2
  <2> QED BY <2>1, <2>2 DEF StoreOK, TypeOK, ApproversAreMembers
<1>2. RequestsOK
  BY DEF RequestsOK
<1>3. <<>> \in Seq(1 .. MaxEvents) /\ <<>> \in Seq(Messages) /\ Rising(<<>>) /\ Upto(<<>>, 0)
      /\ WireOK(<<>>, <<>>, 0)
  BY DEF Rising, Upto, WireOK
<1>4. ScreensOK
  BY <1>3 DEF ScreensOK, LogOK, SeenOK, WiresOK
<1>5. PresenceOK
  BY DEF PresenceOK
<1> QED BY <1>1, <1>2, <1>4, <1>5 DEF RosterInv

LEMMA RosterInvariant == Spec => []RosterInv
  BY RosterInvInit, RosterInvStep, PTL DEF Spec

-----------------------------------------------------------------------------
(* Every variable of the hub's store, of its connections and of each tab   *)
(* stays among the values the code can give it.                            *)
THEOREM TypeCorrect == Spec => []TypeOK
<1>1. RosterInv => TypeOK
  BY DEF RosterInv, StoreOK
<1> QED BY <1>1, RosterInvariant, PTL

(* Whoever may approve is in the team: removing a member takes the grant   *)
(* along (MEMBER_REMOVE), and a grant is given to members only.            *)
THEOREM ApproversAreMembersHolds == Spec => []ApproversAreMembers
<1>1. RosterInv => ApproversAreMembers
  BY DEF RosterInv, StoreOK
<1> QED BY <1>1, RosterInvariant, PTL

(* The transcript on screen has no event twice and none out of order,      *)
(* however often the tab reconnects, subscribes again or is sent what it   *)
(* has.                                                                    *)
THEOREM TranscriptInOrderHolds == Spec => []TranscriptInOrder
<1>1. RosterInv => TranscriptInOrder
  <2>1. ASSUME RosterInv, NEW t \in Tabs, NEW i \in 1 .. Len(shown[t]) - 1
        PROVE  shown[t][i] < shown[t][i + 1]
    <3>1. /\ shown[t] \in Seq(1 .. MaxEvents) /\ Rising(shown[t])
      BY <2>1, TabNow
    <3>2. i \in 1 .. Len(shown[t]) /\ i + 1 \in 1 .. Len(shown[t]) /\ i < i + 1
      BY <2>1, <3>1
    <3> QED BY <3>1, <3>2 DEF Rising
  <2> QED BY <2>1 DEF TranscriptInOrder
<1> QED BY <1>1, RosterInvariant, PTL

(* The last presence sent to a subscribed tab names exactly the people who *)
(* look (broadcastPresence), as long as no change fell in a gap of the     *)
(* thread's row.                                                           *)
THEOREM PresenceCurrentHolds == Spec => []PresenceCurrent
<1>1. RosterInv => PresenceCurrent
  <2>1. ASSUME RosterInv, thread = "here", ~orphaned, NEW t \in Seated(subs), open[t], up[t] = <<>>
        PROVE  LastPresenceIs(t, Viewers)
    <3>1. t \in subs /\ t \in Tabs /\ ~Leaves(t)
      BY <2>1, WiresNow DEF Seated, Leaves
    <3>2. LastIs(down[t], viewers[t], Looking)
      BY <2>1, <3>1, TabNow DEF Informed
    <3>3. Viewers = Looking
      BY <2>1 DEF RosterInv, PresenceOK, Viewers, Looking
    <3> QED BY <3>2, <3>3 DEF LastIs, LastPresenceIs
  <2> QED BY <2>1 DEF PresenceCurrent
<1> QED BY <1>1, RosterInvariant, PTL

-----------------------------------------------------------------------------
(* What a step may never do.                                               *)
Granted ==
  \A p \in People :
    /\ Member(p) => role'[p] \in {role[p], "none"}
    /\ ~Member(p) /\ role'[p] # "none" =>
         \E c \in Codes \ barred : /\ invite[c].status = "pending"
                                   /\ invite'[c].status = "spent"
                                   /\ invite[c].for = p

LEMMA GrantedStep == RosterInv /\ [Next]_vars => [Granted]_vars
<1> SUFFICES ASSUME RosterInv, Next PROVE Granted
  BY DEF Granted, Member, vars, hubVars
<1>1. /\ role \in [People -> Roles \cup {"none"}] /\ barred = {}
      /\ invite \in [Codes -> [status : {"unused", "pending", "spent"}, for : People, role : Roles]]
  BY DEF RosterInv, StoreOK, TypeOK
<1>2. CASE UNCHANGED role
  BY <1>2 DEF Granted, Member
<1>3. ASSUME NEW t \in Tabs, NEW c \in Codes, InviteAccepted(t, c) PROVE Granted
  <2>1. /\ role' = [role EXCEPT ![PersonOf[t]] = invite[c].role] /\ ~Member(PersonOf[t])
        /\ invite' = [invite EXCEPT ![c] = Spent] /\ Spent.status = "spent"
        /\ invite[c].for = PersonOf[t] /\ invite[c].status = "pending"
    BY <1>3 DEF InviteAccepted, Redeemable, Spent, Unused
  <2>2. c \in Codes \ barred /\ invite'[c].status = "spent"
    BY <1>1, <2>1
  <2>3. \A p \in People : p # PersonOf[t] => role'[p] = role[p]
    BY <1>1, <2>1
  <2> QED BY <2>1, <2>2, <2>3 DEF Granted, Member
<1>4. ASSUME NEW t \in Tabs, NEW p \in People, MemberRemoved(t, p) PROVE Granted
  <2>1. role' = [role EXCEPT ![p] = "none"]
    BY <1>4 DEF MemberRemoved
  <2> QED BY <1>1, <2>1 DEF Granted, Member
<1>5. \/ UNCHANGED role
      \/ \E t \in Tabs, c \in Codes : InviteAccepted(t, c)
      \/ \E t \in Tabs, p \in People : MemberRemoved(t, p)
  BY DEF Next, InviteCreated, InviteExpires, InviteRevoked, ApproverGranted, ApproverRevoked,
     ThreadUpserted, Appended, ThreadDeleted, TabConnects, TabDrops, HubSubscribes, HubUnsubscribes,
     TabSelects, TabLeaves, TabHears, hubVars
<1> QED BY <1>2, <1>3, <1>4, <1>5

(* What is put on a tab's wire is content only if the person has a seat.   *)
Proper(w, t) == Len(w) > Len(down[t]) /\ Last(w).type \in Content => role'[PersonOf[t]] # "none"

LEMMA ProperAppend ==
  ASSUME RosterInv, NEW t \in Tabs, NEW m \in Messages,
         m.type \in Content => role'[PersonOf[t]] # "none"
  PROVE  Proper(Append(down[t], m), t)
<1>1. Last(Append(down[t], m)) = m
  <2>1. down[t] \in Seq(Messages)
    BY TabNow
  <2> QED BY <2>1 DEF Last
<1> QED BY <1>1 DEF Proper

LEMMA ProperNotice ==
  ASSUME RosterInv, NEW t \in Tabs, NEW ts, NEW type \in Notices
  PROVE  Proper(Told(down, ts, Notice(type))[t], t)
<1>1. Notice(type) \in Messages /\ Notice(type).type \notin Content
  BY NoticeIsPlain
<1>2. Proper(Append(down[t], Notice(type)), t)
  BY <1>1, ProperAppend
<1>3. Proper(down[t], t)
  <2>1. Len(down[t]) \in Nat
    BY TabNow
  <2> QED BY <2>1 DEF Proper
<1> QED BY <1>2, <1>3 DEF Told

LEMMA ProperPresence ==
  ASSUME NEW t \in Tabs, NEW wire, NEW ts, NEW members, Proper(wire[t], t),
         \A p \in members : role'[p] # "none"
  PROVE  Proper(PresenceTo(wire, ts, members)[t], t)
<1>1. \/ PresenceTo(wire, ts, members)[t] = wire[t]
      \/ role'[PersonOf[t]] # "none"
  BY DEF PresenceTo, Told
<1> QED BY <1>1 DEF Proper

Tells == \A t \in Tabs : Proper(down'[t], t)

LEMMA TellsStep == RosterInv /\ [Next]_vars => [Tells]_vars
<1> SUFFICES ASSUME RosterInv, Next PROVE Tells
  OBVIOUS
<1>1. \A u \in Tabs : Proper(down[u], u)
  <2>1. \A u \in Tabs : Len(down[u]) \in Nat
    BY TabNow
  <2> QED BY <2>1 DEF Proper
<1>2. ASSUME UNCHANGED role PROVE \A p \in Members : role'[p] # "none"
  BY <1>2 DEF Members, Member
<1>3. CASE UNCHANGED down
  BY <1>1, <1>3 DEF Tells
<1>4. ASSUME NEW ts, NEW type \in Notices, down' = Told(down, ts, Notice(type)) PROVE Tells
  BY <1>4, ProperNotice DEF Tells
<1>5. ASSUME NEW t \in Tabs, NEW type \in Notices,
             down' = [down EXCEPT ![t] = Append(@, Notice(type))]
      PROVE  Tells
  <2>1. down' = Told(down, {t}, Notice(type))
    BY <1>5, WiresNow DEF Told
  <2> QED BY <1>4, <2>1
<1>6. ASSUME NEW t \in Tabs, NEW c \in Codes, InviteAccepted(t, c) PROVE Tells
  <2>1. "team" \in Notices /\ down' = [down EXCEPT ![t] = Append(@, Notice("team"))]
    BY <1>6 DEF InviteAccepted, Notices
  <2> QED BY <1>5, <2>1
<1>7. ASSUME NEW t \in Tabs, NEW p \in People, MemberRemoved(t, p) PROVE Tells
  <2> DEFINE ts == {u \in online : PersonOf[u] = p}
             noticed == Told(down, ts, Notice("removed"))
  <2>1. "removed" \in Notices
    BY DEF Notices
  <2>2. \E us : down' = PresenceTo(noticed, us, Members \ {p}) \/ down' = noticed
    BY <1>7 DEF MemberRemoved
  <2>3. \A q \in Members \ {p} : role'[q] # "none"
    <3>1. role' = [role EXCEPT ![p] = "none"] /\ role \in [People -> Roles \cup {"none"}]
      BY <1>7 DEF MemberRemoved, RosterInv, StoreOK, TypeOK
    <3> QED BY <3>1 DEF Members, Member
  <2>4. \A u \in Tabs : Proper(noticed[u], u)
    BY <2>1, ProperNotice
  <2> HIDE DEF noticed
  <2> QED BY <2>2, <2>3, <2>4, ProperPresence DEF Tells
<1>8. CASE Appended
  <2>1. /\ down' = Told(down, Audience, Event(Len(log) + 1, made + 1)) /\ UNCHANGED role
    BY <1>8 DEF Appended, hubVars
  <2>2. ASSUME NEW u \in Tabs PROVE Proper(down'[u], u)
    <3>1. CASE u \in Audience
      <4>1. Member(PersonOf[u]) /\ role'[PersonOf[u]] # "none"
        BY <2>1, <3>1 DEF Audience, Seated, Member
      <4> QED BY <4>1 DEF Proper
    <3>2. CASE u \notin Audience
      BY <1>1, <2>1, <3>2 DEF Told
    <3> QED BY <3>1, <3>2
  <2> QED BY <2>2 DEF Tells
<1>9. CASE ThreadDeleted
  <2>1. /\ "thread.deleted" \in Notices
        /\ \E ts : down' = Told(down, ts, Notice("thread.deleted"))
    BY <1>9 DEF ThreadDeleted, Notices
  <2> QED BY <1>4, <2>1
<1>10. ASSUME NEW t \in Tabs, TabConnects(t) PROVE Tells
  <2>1. down' = [down EXCEPT ![t] = <<Greeting(t)>>] /\ down \in [Tabs -> Seq(Messages)]
    BY <1>10, WiresNow DEF TabConnects
  <2>2. Greeting(t).type \notin Content
    BY NoticeIsPlain DEF Greeting, Notices
  <2>3. Last(<<Greeting(t)>>) = Greeting(t)
    BY DEF Last
  <2>4. \A u \in Tabs : Proper(down'[u], u)
    BY <1>1, <2>1, <2>2, <2>3 DEF Proper
  <2> QED BY <2>4 DEF Tells
<1>11. ASSUME NEW t \in Tabs, TabDrops(t) PROVE Tells
  <2> DEFINE cut == [down EXCEPT ![t] = <<>>]
  <2>1. /\ \E us : down' = PresenceTo(cut, us, Members) \/ down' = cut
        /\ UNCHANGED role
    BY <1>11 DEF TabDrops, Remaining, hubVars
  <2>2. ASSUME NEW u \in Tabs PROVE Proper(cut[u], u)
    <3>1. CASE u = t
      <4>1. cut[u] = <<>> /\ Len(down[u]) \in Nat /\ Len(<<>>) = 0
        BY <3>1, TabNow, WiresNow
      <4> HIDE DEF cut
      <4> QED BY <4>1 DEF Proper
    <3>2. CASE u # t
      BY <1>1, <3>2, WiresNow
    <3> QED BY <3>1, <3>2
  <2> HIDE DEF cut
  <2> QED BY <1>2, <2>1, <2>2, ProperPresence DEF Tells
<1>12. ASSUME NEW t \in Tabs, HubSubscribes(t) PROVE Tells
  <2> DEFINE m == Snapshot(Head(up[t]).after, SubSeq(log, Head(up[t]).after + 1, Len(log)))
             sent == [down EXCEPT ![t] = Append(@, m)]
  <2>1. UNCHANGED role
    BY <1>12 DEF HubSubscribes, hubVars
  <2>2. CASE down' = [down EXCEPT ![t] = Append(@, Notice("error"))]
    BY <1>5, <2>2 DEF Notices
  <2>3. CASE Member(PersonOf[t]) /\ \E us : down' = PresenceTo(sent, us, Members)
    <3>1. ASSUME NEW u \in Tabs PROVE Proper(sent[u], u)
      <4>1. CASE u = t
        BY <2>1, <2>3, <4>1 DEF Proper, Member
      <4>2. CASE u # t
        BY <1>1, <4>2, WiresNow
      <4> QED BY <4>1, <4>2
    <3> HIDE DEF sent
    <3> QED BY <1>2, <2>1, <2>3, <3>1, ProperPresence DEF Tells
  <2> QED BY <1>12, <2>2, <2>3 DEF HubSubscribes
<1>13. ASSUME NEW t \in Tabs, HubUnsubscribes(t) PROVE Tells
  <2>1. (\E us : down' = PresenceTo(down, us, Members)) /\ UNCHANGED role
    BY <1>13 DEF HubUnsubscribes, hubVars
  <2> QED BY <1>1, <1>2, <2>1, ProperPresence DEF Tells
<1>14. ASSUME NEW t \in Tabs, TabHears(t) PROVE Tells
  <2>1. down' = [down EXCEPT ![t] = Tail(@)] /\ down[t] # <<>> /\ down \in [Tabs -> Seq(Messages)]
    BY <1>14, WiresNow DEF TabHears
  <2>2. Len(Tail(down[t])) < Len(down[t]) /\ Len(down[t]) \in Nat /\ Len(Tail(down[t])) \in Nat
    BY <2>1
  <2>3. Proper(Tail(down[t]), t)
    BY <2>2 DEF Proper
  <2> QED BY <1>1, <2>1, <2>3 DEF Tells
<1>15. \/ UNCHANGED down
       \/ \E t \in Tabs, c \in Codes : InviteAccepted(t, c)
       \/ \E t \in Tabs, p \in People : MemberRemoved(t, p)
       \/ Appended \/ ThreadDeleted
       \/ \E t \in Tabs : \/ TabConnects(t) \/ TabDrops(t) \/ HubSubscribes(t)
                          \/ HubUnsubscribes(t) \/ TabHears(t)
  BY DEF Next, InviteCreated, InviteExpires, InviteRevoked, ApproverGranted, ApproverRevoked,
     ThreadUpserted, TabSelects, TabLeaves
<1> QED BY <1>3, <1>6, <1>7, <1>8, <1>9, <1>10, <1>11, <1>12, <1>13, <1>14, <1>15

(* A seat appears only by an invitation that no removal came after, and    *)
(* the role on a seat is never rewritten (redeemInvitation).               *)
THEOREM SeatsAreGrantedHolds == Spec => SeatsAreGranted
<1>1. Granted <=> \A p \in People :
       /\ Member(p) => role'[p] \in {role[p], "none"}
       /\ ~Member(p) /\ role'[p] # "none" =>
            \E c \in Codes \ barred : /\ invite[c].status = "pending"
                                      /\ invite'[c].status = "spent"
                                      /\ invite[c].for = p
  BY DEF Granted
<1> QED BY <1>1, GrantedStep, RosterInvariant, PTL DEF Spec, SeatsAreGranted

(* What a thread says and who looks at it is sent only to people with a    *)
(* seat, whatever subscriptions a connection still holds (onAppend,        *)
(* broadcastPresence, subscribe).                                          *)
THEOREM OnlyMembersToldHolds == Spec => OnlyMembersTold
<1>1. Tells <=> \A t \in Tabs : Len(down'[t]) > Len(down[t]) /\ Last(down'[t]).type \in Content
                  => role'[PersonOf[t]] # "none"
  BY DEF Tells, Proper
<1> QED BY <1>1, TellsStep, RosterInvariant, PTL DEF Spec, OnlyMembersTold

=============================================================================
