------------------------- MODULE SharedThreadProofs -------------------------
(***************************************************************************)
(* Proofs about SharedThread for all help requests and bounds.             *)
(***************************************************************************)
EXTENDS SharedThread, SequenceTheorems, TLAPS

LEMMA Bounds ==
  /\ MaxTurns \in Nat /\ MaxEvents \in Nat /\ MaxConns \in Nat
  /\ MaxCrashes \in Nat /\ MaxRestarts \in Nat
  BY BoundsAssumption

USE Bounds

-----------------------------------------------------------------------------
(* What a row becomes when the hub has read a sequence of messages.        *)
Rows == [status : {"idle", "active", "systemError", "unknown"},
         flag : {"none", "waitingOnApproval", "stopping"},
         turn : 0 .. MaxTurns, prompt : BOOLEAN]
Said == Messages \ {Hello}
Effect(r, m) == IF m.type = "upsert" THEN Announced(r, m) ELSE Patched(r, m)

(* The rows in between are named, not computed: rows[i] is what the hub    *)
(* holds before the i-th message.                                          *)
Unfolds(rows, r, s) ==
  /\ rows \in [1 .. Len(s) + 1 -> Rows] /\ rows[1] = r
  /\ \A i \in 1 .. Len(s) : rows[i + 1] = Effect(rows[i], s[i])
Becomes(r, s, q) == \E rows : Unfolds(rows, r, s) /\ rows[Len(s) + 1] = q

LEMMA MessageKinds ==
  /\ Hello.type = "hello"
  /\ \A c \in BOOLEAN : Upsert(c) \in Said /\ Upsert(c).type = "upsert" /\ Upsert(c).cleared = c
  /\ \A method \in Methods, n \in Nat, id \in 0 .. MaxTurns :
       /\ Event(method, n, id) \in Events /\ Event(method, n, id).type = "event"
       /\ Event(method, n, id).n = n
  /\ \A m \in Events : m \in Said /\ m.type = "event" /\ m.n \in Nat
  /\ \A m \in Said : (m.type = "upsert" /\ m.cleared \in BOOLEAN) \/ m \in Events
<1>1. Hello.type = "hello"
  BY DEF Hello
<1>2. ASSUME NEW c \in BOOLEAN
      PROVE  Upsert(c) \in Said /\ Upsert(c).type = "upsert" /\ Upsert(c).cleared = c
  <2>1. Upsert(c).type = "upsert" /\ Upsert(c).cleared = c
    BY DEF Upsert
  <2>2. Upsert(c) \in Messages
    BY DEF Messages
  <2>3. Upsert(c) # Hello
    BY <1>1, <2>1
  <2> QED BY <2>1, <2>2, <2>3 DEF Said
<1>3. ASSUME NEW method \in Methods, NEW n \in Nat, NEW id \in 0 .. MaxTurns
      PROVE  /\ Event(method, n, id) \in Events /\ Event(method, n, id).type = "event"
             /\ Event(method, n, id).n = n
  BY DEF Event, Events
<1>4. ASSUME NEW m \in Events PROVE m \in Said /\ m.type = "event" /\ m.n \in Nat
  <2>1. m.type = "event" /\ m.n \in Nat
    BY DEF Events
  <2> QED BY <1>1, <2>1 DEF Said, Messages
<1>5. ASSUME NEW m \in Said PROVE (m.type = "upsert" /\ m.cleared \in BOOLEAN) \/ m \in Events
  <2>1. CASE m \in Events
    BY <2>1
  <2>2. CASE m \notin Events
    <3>1. PICK c \in BOOLEAN : m = Upsert(c)
      BY <2>2 DEF Said, Messages
    <3> QED BY <1>2, <3>1
  <2> QED BY <2>1, <2>2
<1> QED BY <1>1, <1>2, <1>3, <1>4, <1>5

LEMMA EffectIsRow ==
  ASSUME NEW r \in Rows, NEW m \in Said
  PROVE  Effect(r, m) \in Rows
<1> DEFINE over(t) == [r EXCEPT !.status = "idle", !.flag = "none", !.turn = t]
<1>3. \A t \in 0 .. MaxTurns : over(t) \in Rows
  BY DEF Rows
<1>4. r.turn \in 0 .. MaxTurns /\ 0 \in 0 .. MaxTurns
  BY DEF Rows
<1>5. Announced(r, m) = over(0) \/ Announced(r, m) = over(r.turn)
  BY DEF Announced
<1> HIDE DEF over
<1>1. CASE m.type = "upsert"
  BY <1>1, <1>3, <1>4, <1>5 DEF Effect
<1>2. CASE m \in Events
  <2>1. m.type = "event" /\ m.method \in Methods /\ m.turn \in 0 .. MaxTurns
    BY <1>2 DEF Events
  <2>2. \A flag \in {"none", "waitingOnApproval", "stopping"} : Running(r, flag) \in Rows
    BY DEF Running, Rows
  <2>3. \A status \in {"idle", "systemError"} : Over(r, status) \in Rows
    BY <1>4 DEF Over, Rows
  <2>4. Patched(r, m) \in Rows
    BY <2>1, <2>2, <2>3 DEF Patched, Methods, Rows
  <2> QED BY <2>1, <2>4 DEF Effect
<1> QED BY <1>1, <1>2, MessageKinds

LEMMA BecomesNothing ==
  ASSUME NEW r \in Rows
  PROVE  Becomes(r, <<>>, r) /\ \A q : Becomes(r, <<>>, q) => q = r
<1>1. Unfolds([i \in 1 .. 1 |-> r], r, <<>>)
  BY DEF Unfolds
<1>2. Becomes(r, <<>>, r)
  BY <1>1 DEF Becomes
<1>3. \A q : Becomes(r, <<>>, q) => q = r
  BY DEF Becomes, Unfolds
<1> QED BY <1>2, <1>3

LEMMA BecomesMore ==
  ASSUME NEW s \in Seq(Said), NEW r \in Rows, NEW q \in Rows, Becomes(r, s, q), NEW m \in Said
  PROVE  Becomes(r, Append(s, m), Effect(q, m))
<1> DEFINE t == Append(s, m)
<1>1. PICK rows : Unfolds(rows, r, s) /\ rows[Len(s) + 1] = q
  BY DEF Becomes
<1>2. /\ Len(t) = Len(s) + 1 /\ Len(s) \in Nat /\ t[Len(s) + 1] = m
      /\ \A i \in 1 .. Len(s) : t[i] = s[i]
  OBVIOUS
<1> DEFINE all == [i \in 1 .. Len(s) + 2 |-> IF i = Len(s) + 2 THEN Effect(q, m) ELSE rows[i]]
<1>3. \A i \in 1 .. Len(s) + 1 : rows[i] \in Rows
  BY <1>1 DEF Unfolds
<1>4. Effect(q, m) \in Rows
  BY EffectIsRow
<1>5. /\ all \in [1 .. Len(s) + 2 -> Rows] /\ all[Len(s) + 2] = Effect(q, m)
      /\ \A i \in 1 .. Len(s) + 1 : all[i] = rows[i]
  BY <1>2, <1>3, <1>4
<1> HIDE DEF all, t
<1>6. all[1] = r
  BY <1>1, <1>2, <1>5 DEF Unfolds
<1>7. ASSUME NEW i \in 1 .. Len(t) PROVE all[i + 1] = Effect(all[i], t[i])
  <2>1. CASE i \in 1 .. Len(s)
    <3>1. i + 1 \in 1 .. Len(s) + 1 /\ i \in 1 .. Len(s) + 1
      BY <1>2, <2>1
    <3>2. rows[i + 1] = Effect(rows[i], s[i])
      BY <1>1, <2>1 DEF Unfolds
    <3> QED BY <1>2, <1>5, <2>1, <3>1, <3>2
  <2>2. CASE i = Len(s) + 1
    BY <1>1, <1>2, <1>5, <2>2
  <2> QED BY <1>2, <2>1, <2>2
<1>8. Unfolds(all, r, t) /\ all[Len(t) + 1] = Effect(q, m)
  BY <1>2, <1>5, <1>6, <1>7 DEF Unfolds
<1> QED BY <1>8 DEF Becomes, t

LEMMA BecomesRest ==
  ASSUME NEW s \in Seq(Said), NEW r \in Rows, NEW q, Becomes(r, s, q), s # <<>>
  PROVE  Becomes(Effect(r, Head(s)), Tail(s), q)
<1> DEFINE t == Tail(s)
<1>1. PICK rows : Unfolds(rows, r, s) /\ rows[Len(s) + 1] = q
  BY DEF Becomes
<1>2. /\ Len(t) = Len(s) - 1 /\ Len(s) \in Nat /\ Len(s) >= 1 /\ Head(s) = s[1]
      /\ \A i \in 1 .. Len(t) : t[i] = s[i + 1]
  OBVIOUS
<1> DEFINE rest == [i \in 1 .. Len(s) |-> rows[i + 1]]
<1> HIDE DEF t
<1>3. /\ rest \in [1 .. Len(t) + 1 -> Rows] /\ rest[Len(t) + 1] = q
      /\ \A i \in 1 .. Len(s) : rest[i] = rows[i + 1]
  BY <1>1, <1>2 DEF Unfolds
<1> HIDE DEF rest
<1>4. rest[1] = Effect(r, Head(s))
  BY <1>1, <1>2, <1>3 DEF Unfolds
<1>5. ASSUME NEW i \in 1 .. Len(t) PROVE rest[i + 1] = Effect(rest[i], t[i])
  <2>1. i \in 1 .. Len(s) /\ i + 1 \in 1 .. Len(s)
    BY <1>2
  <2> QED BY <1>1, <1>2, <1>3, <2>1 DEF Unfolds
<1>6. Unfolds(rest, Effect(r, Head(s)), t)
  BY <1>3, <1>4, <1>5 DEF Unfolds
<1> QED BY <1>3, <1>6 DEF Becomes, t

LEMMA BecomesBoth ==
  ASSUME NEW s \in Seq(Said), NEW t \in Seq(Said), NEW r \in Rows, NEW q \in Rows, NEW z,
         Becomes(r, s, q), Becomes(q, t, z)
  PROVE  Becomes(r, s \o t, z)
<1> DEFINE u == s \o t
<1>1. PICK one : Unfolds(one, r, s) /\ one[Len(s) + 1] = q
  BY DEF Becomes
<1>2. PICK two : Unfolds(two, q, t) /\ two[Len(t) + 1] = z
  BY DEF Becomes
<1>3. /\ Len(u) = Len(s) + Len(t) /\ Len(s) \in Nat /\ Len(t) \in Nat
      /\ \A i \in 1 .. Len(s) : u[i] = s[i]
      /\ \A i \in 1 .. Len(u) : i > Len(s) => u[i] = t[i - Len(s)]
  OBVIOUS
<1> DEFINE all == [i \in 1 .. Len(u) + 1 |-> IF i <= Len(s) THEN one[i] ELSE two[i - Len(s)]]
<1> HIDE DEF u
<1>4. /\ \A i \in 1 .. Len(s) : one[i] \in Rows /\ i \in 1 .. Len(s) + 1
      /\ \A i \in 1 .. Len(t) + 1 : two[i] \in Rows
  <2>1. one \in [1 .. Len(s) + 1 -> Rows] /\ two \in [1 .. Len(t) + 1 -> Rows]
    BY <1>1, <1>2 DEF Unfolds
  <2>2. \A i \in 1 .. Len(s) : i \in 1 .. Len(s) + 1
    BY <1>3
  <2> QED BY <2>1, <2>2
<1>5. \A i \in 1 .. Len(u) + 1 : i <= Len(s) \/ i - Len(s) \in 1 .. Len(t) + 1
  BY <1>3
<1>6. /\ all \in [1 .. Len(u) + 1 -> Rows]
      /\ \A i \in 1 .. Len(s) : all[i] = one[i]
      /\ \A i \in 1 .. Len(u) + 1 : i > Len(s) => all[i] = two[i - Len(s)]
  BY <1>3, <1>4, <1>5
<1> HIDE DEF all
<1>7. all[Len(u) + 1] = z /\ all[Len(s) + 1] = q /\ all[1] = r
  <2>1. all[Len(u) + 1] = z /\ all[Len(s) + 1] = q
    <3>1. /\ Len(s) + 1 \in 1 .. Len(u) + 1 /\ Len(u) + 1 \in 1 .. Len(u) + 1
          /\ (Len(s) + 1) - Len(s) = 1 /\ (Len(u) + 1) - Len(s) = Len(t) + 1
          /\ Len(s) + 1 > Len(s) /\ Len(u) + 1 > Len(s)
      BY <1>3
    <3>2. all[Len(s) + 1] = two[1] /\ all[Len(u) + 1] = two[Len(t) + 1]
      BY <1>6, <3>1
    <3> QED BY <1>2, <3>2 DEF Unfolds
  <2>2. CASE Len(s) = 0
    BY <1>1, <2>1, <2>2 DEF Unfolds
  <2>3. CASE Len(s) # 0
    <3>1. 1 \in 1 .. Len(s)
      BY <1>3, <2>3
    <3>2. one[1] = r
      BY <1>1 DEF Unfolds
    <3> QED BY <1>6, <2>1, <3>1, <3>2
  <2> QED BY <2>1, <2>2, <2>3
<1>8. ASSUME NEW i \in 1 .. Len(u) PROVE all[i + 1] = Effect(all[i], u[i])
  <2>1. CASE i < Len(s)
    <3>1. all[i] = one[i] /\ all[i + 1] = one[i + 1] /\ u[i] = s[i] /\ i \in 1 .. Len(s)
      <4>1. i \in 1 .. Len(s) /\ i + 1 \in 1 .. Len(s)
        BY <1>3, <2>1
      <4> QED BY <1>3, <1>6, <4>1
    <3> QED BY <1>1, <3>1 DEF Unfolds
  <2>2. CASE i = Len(s)
    <3>1. all[i] = one[i] /\ all[i + 1] = one[i + 1] /\ u[i] = s[i] /\ i \in 1 .. Len(s)
      BY <1>1, <1>3, <1>6, <1>7, <2>2
    <3> QED BY <1>1, <3>1 DEF Unfolds
  <2>3. CASE i > Len(s)
    <3>1. i - Len(s) \in 1 .. Len(t) /\ i + 1 - Len(s) = (i - Len(s)) + 1
      BY <1>3, <2>3
    <3>2. /\ all[i] = two[i - Len(s)] /\ all[i + 1] = two[(i - Len(s)) + 1]
          /\ u[i] = t[i - Len(s)]
      <4>1. /\ i \in 1 .. Len(u) + 1 /\ i + 1 \in 1 .. Len(u) + 1
            /\ i + 1 > Len(s) /\ i \in 1 .. Len(u)
        BY <1>3, <2>3
      <4>2. all[i] = two[i - Len(s)] /\ all[i + 1] = two[(i + 1) - Len(s)]
        BY <1>6, <2>3, <4>1
      <4>3. u[i] = t[i - Len(s)]
        BY <1>3, <2>3, <4>1
      <4> QED BY <3>1, <4>2, <4>3
    <3> QED BY <1>2, <3>1, <3>2 DEF Unfolds
  <2> QED BY <1>3, <2>1, <2>2, <2>3
<1>9. Unfolds(all, r, u)
  BY <1>6, <1>7, <1>8 DEF Unfolds
<1> QED BY <1>7, <1>9 DEF Becomes, u

LEMMA BecomesOne ==
  ASSUME NEW r \in Rows, NEW m \in Said
  PROVE  Becomes(r, <<m>>, Effect(r, m)) /\ Effect(r, m) \in Rows
<1>1. Becomes(r, <<>>, r) /\ <<>> \in Seq(Said)
  BY BecomesNothing
<1>2. Becomes(r, Append(<<>>, m), Effect(r, m))
  BY <1>1, BecomesMore
<1>3. Append(<<>>, m) = <<m>>
  OBVIOUS
<1> QED BY <1>2, <1>3, EffectIsRow

-----------------------------------------------------------------------------
(* The inductive invariant.                                                *)

Shapes == TypeOK /\ up \in [Conns -> Seq(Messages)] /\ queue \in Seq(Events)

(* A connection carries nothing but its hello until the hub has greeted    *)
(* it, no hello afterwards, and nothing until the host heard the welcome.  *)
LinkInv ==
  /\ hubConns \cup greeted \subseteq 1 .. opened /\ hostConn \in 0 .. opened
  /\ registered # 0 => registered \in hubConns \cap greeted
  /\ welcomed \in {0, hostConn} /\ (welcomed # 0 => welcomed \in greeted)
  /\ \A k \in hubConns \ greeted : up[k] = <<Hello>>
  /\ \A k \in greeted : up[k] \in Seq(Said)
  /\ hostConn \in greeted /\ welcomed # hostConn => up[hostConn] = <<>>

(* While the host has a welcome nothing is buffered; the thread's row has  *)
(* an open approval only with a turn that waits, or after a crash, until   *)
(* the next welcome.                                                       *)
HostInv ==
  /\ Ready => queue = <<>>
  /\ turn # 0 =>
       turnConn \in 1 .. opened /\ copy.open = pending /\ (turnConn = hostConn => Ready)
  /\ turn = 0 => ~pending /\ ~stopping /\ (disk.open => queue = <<>> /\ ~Ready)

(* Events are numbered as they are emitted, and what is buffered is newer  *)
(* than what was sent, and that than what the hub has applied.             *)
InOrder(s) ==
  \A i, j \in 1 .. Len(s) : i < j /\ s[i].type = "event" /\ s[j].type = "event" => s[i].n < s[j].n
Between(s, lo, hi) ==
  \A i \in 1 .. Len(s) : s[i].type = "event" => lo < s[i].n /\ s[i].n <= hi
Newer(t, s) ==
  \A i \in 1 .. Len(s), j \in 1 .. Len(t) :
    s[i].type = "event" /\ t[j].type = "event" => s[i].n < t[j].n
OrderInv ==
  /\ applied <= emitted /\ InOrder(queue) /\ Between(queue, applied, emitted)
  /\ \A k \in Conns : InOrder(up[k]) /\ Between(up[k], -1, emitted) /\ Newer(queue, up[k])
  /\ registered # 0 => Between(up[registered], applied, emitted)

(* What the row tells when the hub has read all the host had to say.       *)
Ended == {"idle", "systemError"}
Mirrors(r) ==
  /\ turn = 0 => r.status \in Ended
  /\ turn # 0 /\ turnConn = hostConn =>
       /\ r.status = "active" /\ r.turn = turn
       /\ r.prompt = pending /\ (r.flag = "waitingOnApproval") = pending
SeenInv ==
  /\ \A r \in Rows : \E q \in Rows :
       Becomes(r, queue, q) /\ (turn = 0 /\ queue # <<>> => q.status \in Ended)
  /\ Ready /\ registered = hostConn =>
       \E q \in Rows : Becomes(row, up[hostConn], q) /\ Mirrors(q)

ThreadInv ==
  Shapes /\ LinkInv /\ HostInv /\ OrderInv /\ AbsentHostRunsNothing /\ SeenInv

-----------------------------------------------------------------------------
(* Sequences of numbered messages.                                         *)
LEMMA Join ==
  ASSUME NEW s \in Seq(Messages), NEW t \in Seq(Messages), NEW lo \in Int, NEW mid \in Nat,
         NEW hi \in Nat, InOrder(s), InOrder(t), Between(s, lo, mid), Between(t, lo, hi),
         Newer(t, s), mid <= hi
  PROVE  s \o t \in Seq(Messages) /\ InOrder(s \o t) /\ Between(s \o t, lo, hi)
<1> DEFINE u == s \o t
<1>1. /\ u \in Seq(Messages) /\ Len(u) = Len(s) + Len(t) /\ Len(s) \in Nat /\ Len(t) \in Nat
      /\ \A i \in 1 .. Len(s) : u[i] = s[i]
      /\ \A i \in 1 .. Len(u) : i > Len(s) => u[i] = t[i - Len(s)] /\ i - Len(s) \in 1 .. Len(t)
  OBVIOUS
<1> HIDE DEF u
<1>2. \A m \in Messages : m.type = "event" => m.n \in Nat
  BY MessageKinds DEF Messages, Events
<1>3. Between(u, lo, hi)
  <2>1. ASSUME NEW i \in 1 .. Len(u), u[i].type = "event" PROVE lo < u[i].n /\ u[i].n <= hi
    <3>1. CASE i \in 1 .. Len(s)
      <4>1. u[i] = s[i] /\ s[i] \in Messages
        BY <1>1, <3>1
      <4>2. lo < s[i].n /\ s[i].n <= mid /\ s[i].n \in Nat
        BY <1>2, <2>1, <3>1, <4>1 DEF Between
      <4> QED BY <4>1, <4>2
    <3>2. CASE i > Len(s)
      BY <1>1, <2>1, <3>2 DEF Between
    <3> QED BY <1>1, <3>1, <3>2
  <2> QED BY <2>1 DEF Between
<1>4. InOrder(u)
  <2>1. ASSUME NEW i \in 1 .. Len(u), NEW j \in 1 .. Len(u), i < j,
               u[i].type = "event", u[j].type = "event"
        PROVE  u[i].n < u[j].n
    <3>1. CASE j <= Len(s)
      <4>1. i \in 1 .. Len(s) /\ j \in 1 .. Len(s)
        BY <1>1, <2>1, <3>1
      <4> QED BY <1>1, <2>1, <4>1 DEF InOrder
    <3>2. CASE i <= Len(s) /\ j > Len(s)
      <4>1. i \in 1 .. Len(s) /\ j - Len(s) \in 1 .. Len(t)
        BY <1>1, <3>2
      <4> QED BY <1>1, <2>1, <3>2, <4>1 DEF Newer
    <3>3. CASE i > Len(s)
      <4>1. /\ i - Len(s) \in 1 .. Len(t) /\ j - Len(s) \in 1 .. Len(t) /\ i - Len(s) < j - Len(s)
            /\ u[i] = t[i - Len(s)] /\ u[j] = t[j - Len(s)]
        BY <1>1, <2>1, <3>3
      <4> QED BY <2>1, <4>1 DEF InOrder
    <3> QED BY <1>1, <2>1, <3>1, <3>2, <3>3
  <2> QED BY <2>1 DEF InOrder
<1> QED BY <1>1, <1>3, <1>4 DEF u

LEMMA Rest ==
  ASSUME NEW s \in Seq(Messages), s # <<>>, NEW lo \in Int, NEW hi \in Nat, InOrder(s),
         Between(s, lo, hi)
  PROVE  /\ Tail(s) \in Seq(Messages) /\ InOrder(Tail(s)) /\ Between(Tail(s), lo, hi)
         /\ \A t : Newer(t, s) => Newer(t, Tail(s))
         /\ Head(s).type = "event" =>
              /\ lo < Head(s).n /\ Head(s).n <= hi /\ Between(Tail(s), Head(s).n, hi)
              /\ \A t : Newer(t, s) => \A j \in 1 .. Len(t) : t[j].type = "event" => Head(s).n < t[j].n
<1> DEFINE u == Tail(s)
<1>1. /\ u \in Seq(Messages) /\ Len(u) = Len(s) - 1 /\ Len(s) \in Nat /\ Len(s) >= 1
      /\ Head(s) = s[1] /\ \A i \in 1 .. Len(u) : u[i] = s[i + 1]
  OBVIOUS
<1> HIDE DEF u
<1>2. \A i \in 1 .. Len(u) : i + 1 \in 1 .. Len(s) /\ 1 < i + 1
  BY <1>1
<1>3. \A i, j \in 1 .. Len(u) : i < j => i + 1 < j + 1
  BY <1>1
<1>4. 1 \in 1 .. Len(s)
  BY <1>1
<1>5. InOrder(u)
  BY <1>1, <1>2, <1>3 DEF InOrder
<1>6. Between(u, lo, hi)
  BY <1>1, <1>2 DEF Between
<1>7. \A t : Newer(t, s) => Newer(t, u)
  BY <1>1, <1>2 DEF Newer
<1>8. ASSUME s[1].type = "event"
      PROVE  /\ lo < s[1].n /\ s[1].n <= hi /\ Between(u, s[1].n, hi)
             /\ \A t : Newer(t, s) => \A j \in 1 .. Len(t) : t[j].type = "event" => s[1].n < t[j].n
  <2>1. lo < s[1].n /\ s[1].n <= hi
    BY <1>4, <1>8 DEF Between
  <2>2. \A i \in 1 .. Len(u) : u[i].type = "event" => s[1].n < u[i].n
    BY <1>1, <1>2, <1>4, <1>8 DEF InOrder
  <2>3. Between(u, s[1].n, hi)
    BY <1>6, <2>2 DEF Between
  <2>4. \A t : Newer(t, s) => \A j \in 1 .. Len(t) : t[j].type = "event" => s[1].n < t[j].n
    BY <1>4, <1>8 DEF Newer
  <2> QED BY <2>1, <2>3, <2>4
<1> QED BY <1>1, <1>5, <1>6, <1>7, <1>8 DEF u

(* Later numbers leave what is older as it is.                             *)
LEMMA Wider ==
  ASSUME NEW s \in Seq(Messages), NEW lo \in Int, NEW mid \in Nat, NEW hi \in Nat, mid <= hi,
         Between(s, lo, mid)
  PROVE  Between(s, lo, hi)
<1>1. \A i \in 1 .. Len(s) : s[i].type = "event" => s[i].n \in Nat
  <2>1. \A m \in Messages : m.type = "event" => m.n \in Nat
    BY MessageKinds DEF Messages, Events
  <2> QED BY <2>1
<1> QED BY <1>1 DEF Between

LEMMA Later ==
  ASSUME NEW s \in Seq(Messages), NEW t \in Seq(Messages), NEW lo \in Int, NEW mid \in Nat,
         NEW hi \in Int, Between(s, lo, mid), Between(t, mid, hi)
  PROVE  Newer(t, s)
<1>1. \A m \in Messages : m.type = "event" => m.n \in Nat
  BY MessageKinds DEF Messages, Events
<1>2. ASSUME NEW i \in 1 .. Len(s), NEW j \in 1 .. Len(t), s[i].type = "event", t[j].type = "event"
      PROVE  s[i].n < t[j].n
  <2>1. s[i] \in Messages /\ t[j] \in Messages
    OBVIOUS
  <2>2. s[i].n \in Nat /\ t[j].n \in Nat
    BY <1>1, <1>2, <2>1
  <2>3. s[i].n <= mid /\ mid < t[j].n
    BY <1>2 DEF Between
  <2> QED BY <2>2, <2>3
<1> QED BY <1>2 DEF Newer

(* What Emit says.                                                         *)
Words(methods, n, id) == [i \in DOMAIN methods |-> Event(methods[i], n + i, id)]

LEMMA EmittedIs ==
  ASSUME NEW methods \in Seq(Methods), NEW n \in Nat, NEW id \in 0 .. MaxTurns
  PROVE  LET ms == Words(methods, n, id)
         IN  /\ ms \in Seq(Events) /\ Len(ms) = Len(methods) /\ n + Len(methods) \in Nat
             /\ InOrder(ms) /\ Between(ms, n, n + Len(methods))
             /\ \A i \in 1 .. Len(methods) : ms[i] = Event(methods[i], n + i, id)
<1> DEFINE ms == Words(methods, n, id)
<1>1. /\ DOMAIN methods = 1 .. Len(methods) /\ Len(methods) \in Nat
      /\ \A i \in 1 .. Len(methods) : methods[i] \in Methods
  OBVIOUS
<1>2. \A i \in 1 .. Len(methods) :
        /\ Event(methods[i], n + i, id) \in Events /\ Event(methods[i], n + i, id).n = n + i
  BY <1>1, MessageKinds
<1>3. ms \in [1 .. Len(methods) -> Events]
  BY <1>1, <1>2 DEF Words
<1>4. /\ ms \in Seq(Events) /\ Len(ms) = Len(methods)
      /\ \A i \in 1 .. Len(methods) : ms[i] = Event(methods[i], n + i, id)
  BY <1>1, <1>3 DEF Words
<1> HIDE DEF ms
<1>5. \A i \in 1 .. Len(ms) : ms[i].n = n + i /\ n < n + i /\ n + i <= n + Len(methods)
  BY <1>1, <1>2, <1>4
<1>6. InOrder(ms)
  BY <1>1, <1>4, <1>5 DEF InOrder
<1>7. Between(ms, n, n + Len(methods))
  BY <1>5 DEF Between
<1> QED BY <1>1, <1>4, <1>6, <1>7 DEF ms

-----------------------------------------------------------------------------
(* The host speaks.                                                        *)
LEMMA Now ==
  ASSUME ThreadInv
  PROVE  /\ up \in [Conns -> Seq(Messages)] /\ queue \in Seq(Events) /\ queue \in Seq(Said)
         /\ queue \in Seq(Messages) /\ row \in Rows /\ emitted \in Nat /\ applied \in Nat
         /\ opened \in 0 .. MaxConns /\ hostConn \in 0 .. opened /\ registered \in {0} \cup Conns
         /\ greeted \subseteq Conns /\ hubConns \subseteq Conns
         /\ \A k \in greeted : up[k] \in Seq(Said)
         /\ welcomed \in {0, hostConn} /\ (Ready => hostConn \in greeted /\ hostConn \in Conns)
         /\ (registered # 0 => registered \in hubConns /\ registered \in greeted)
<1>1. Events \subseteq Said /\ Said \subseteq Messages
  BY MessageKinds DEF Said
<1>2. queue \in Seq(Events)
  BY DEF ThreadInv, Shapes
<1>3. queue \in Seq(Said) /\ queue \in Seq(Messages)
  BY <1>1, <1>2
<1>4. /\ row \in Rows /\ emitted \in Nat /\ applied \in Nat /\ registered \in {0} \cup Conns
      /\ greeted \subseteq Conns /\ hubConns \subseteq Conns /\ opened \in 0 .. MaxConns
      /\ up \in [Conns -> Seq(Messages)]
  BY DEF ThreadInv, Shapes, TypeOK, Rows
<1>5. /\ hostConn \in 0 .. opened /\ welcomed \in {0, hostConn} /\ \A k \in greeted : up[k] \in Seq(Said)
      /\ (Ready => hostConn \in greeted)
      /\ (registered # 0 => registered \in hubConns /\ registered \in greeted)
  BY DEF ThreadInv, LinkInv, Ready
<1> QED BY <1>2, <1>3, <1>4, <1>5

LEMMA SpokenInv ==
  ASSUME ThreadInv, NEW ms \in Seq(Events), emitted' \in Nat, emitted <= emitted',
         InOrder(ms), Between(ms, emitted, emitted'),
         IF Ready THEN up' = Sent(ms) /\ UNCHANGED queue
         ELSE queue' = queue \o ms /\ UNCHANGED up,
         UNCHANGED <<hubVars, opened, hostConn, welcomed, countVars>>,
         \A r \in Rows : \E q \in Rows :
            /\ Becomes(r, ms, q) /\ (~Ready /\ turn' = 0 => q.status \in Ended)
            /\ (Mirrors(r) => Mirrors(q)')
  PROVE  /\ LinkInv' /\ OrderInv' /\ AbsentHostRunsNothing' /\ SeenInv'
         /\ up' \in [Conns -> Seq(Messages)] /\ queue' \in Seq(Events)
<1>1. UNCHANGED <<row, applied, registered, hubConns, greeted, opened, hostConn, welcomed, crashes,
                  restarts>>
  BY DEF hubVars, countVars
<1>2. ms \in Seq(Said) /\ ms \in Seq(Messages) /\ Events \subseteq Said /\ Said \subseteq Messages
  <2>1. Events \subseteq Said /\ Said \subseteq Messages
    BY MessageKinds DEF Said
  <2> QED BY <2>1
<1>3. /\ applied <= emitted /\ InOrder(queue) /\ Between(queue, applied, emitted)
      /\ \A k \in Conns : InOrder(up[k]) /\ Between(up[k], -1, emitted) /\ Newer(queue, up[k])
      /\ registered # 0 => Between(up[registered], applied, emitted)
  BY DEF ThreadInv, OrderInv
<1>4. Between(ms, applied, emitted')
  <2>1. \A i \in 1 .. Len(ms) : ms[i].type = "event" => ms[i].n \in Nat
    BY MessageKinds
  <2> QED BY <1>3, <2>1, Now DEF Between
<1>5. Between(ms, -1, emitted')
  <2>1. \A i \in 1 .. Len(ms) : ms[i].type = "event" => ms[i].n \in Nat
    BY MessageKinds
  <2> QED BY <1>4, <2>1, Now DEF Between
<1>6. \A k \in Conns : up[k] \in Seq(Messages) /\ Newer(ms, up[k]) /\ Between(up[k], -1, emitted')
  <2>1. ASSUME NEW k \in Conns
        PROVE  up[k] \in Seq(Messages) /\ Newer(ms, up[k]) /\ Between(up[k], -1, emitted')
    <3>1. up[k] \in Seq(Messages) /\ -1 \in Int /\ Between(up[k], -1, emitted) /\ emitted \in Nat
          /\ emitted' \in Int
      BY <1>3, Now
    <3>2. Newer(ms, up[k])
      BY <1>2, <3>1, Later
    <3>3. Between(up[k], -1, emitted')
      BY <3>1, Wider
    <3> QED BY <3>1, <3>2, <3>3
  <2> QED BY <2>1
<1>7. PICK z \in Rows :
        (Ready /\ registered = hostConn => Becomes(row, up[hostConn], z) /\ Mirrors(z))
  <2>1. CASE Ready /\ registered = hostConn
    BY <2>1 DEF ThreadInv, SeenInv
  <2> QED BY <2>1, Now
<1>8. CASE Ready
  <2>1. /\ up' = Sent(ms) /\ queue' = queue /\ queue = <<>> /\ hostConn \in Conns
        /\ hostConn \in greeted
    BY <1>8, Now DEF ThreadInv, HostInv
  <2>2. up[hostConn] \in Seq(Said) /\ up[hostConn] \in Seq(Messages)
    BY <2>1, Now
  <2>3. /\ up[hostConn] \o ms \in Seq(Messages) /\ InOrder(up[hostConn] \o ms)
        /\ Between(up[hostConn] \o ms, -1, emitted')
    <3>1. /\ InOrder(up[hostConn]) /\ Between(up[hostConn], -1, emitted) /\ Newer(ms, up[hostConn])
          /\ -1 \in Int /\ emitted \in Nat
      BY <1>3, <1>6, <2>1, Now
    <3> QED BY <1>2, <1>5, <2>2, <3>1, Join
  <2>4. up[hostConn] \o ms \in Seq(Said)
    BY <1>2, <2>2
  <2>5. CASE hostConn \in hubConns
    <3>1. up' = [up EXCEPT ![hostConn] = up[hostConn] \o ms]
      BY <2>1, <2>5 DEF Sent
    <3>2. up' \in [Conns -> Seq(Messages)]
      BY <2>3, <3>1, Now
    <3>3. up'[hostConn] = up[hostConn] \o ms /\ \A k \in Conns : k # hostConn => up'[k] = up[k]
      BY <2>1, <3>1, Now
    <3>4. LinkInv'
      <4>1. \A k \in hubConns \ greeted : up'[k] = up[k]
        BY <2>1, <3>3, Now
      <4>2. \A k \in greeted : up'[k] \in Seq(Said)
        BY <2>4, <3>3, Now
      <4>3. welcomed = hostConn
        BY <1>8 DEF Ready
      <4> QED BY <1>1, <4>1, <4>2, <4>3 DEF ThreadInv, LinkInv
    <3>5. OrderInv'
      <4>1. applied' <= emitted' /\ InOrder(queue') /\ Between(queue', applied', emitted')
        BY <1>1, <1>3, <2>1, Now DEF InOrder, Between
      <4>2. \A k \in Conns : InOrder(up'[k]) /\ Between(up'[k], -1, emitted') /\ Newer(queue', up'[k])
        <5>1. \A x : Newer(queue', x)
          BY <2>1 DEF Newer
        <5>2. ASSUME NEW k \in Conns PROVE InOrder(up'[k]) /\ Between(up'[k], -1, emitted')
          <6>1. CASE k = hostConn
            BY <2>3, <3>3, <6>1
          <6>2. CASE k # hostConn
            BY <1>3, <1>6, <3>3, <6>2
          <6> QED BY <6>1, <6>2
        <5> QED BY <5>1, <5>2
      <4>3. ASSUME registered # 0 PROVE Between(up'[registered], applied, emitted')
        <5>1. Between(up[registered], applied, emitted) /\ registered \in Conns
          BY <1>3, <4>3, Now
        <5>2. /\ up[registered] \in Seq(Messages) /\ applied \in Int /\ emitted \in Nat
              /\ InOrder(up[registered]) /\ Newer(ms, up[registered])
          BY <1>3, <1>6, <5>1, Now
        <5>3. Between(up[registered], applied, emitted')
          BY <5>1, <5>2, Wider
        <5>4. Between(up[registered] \o ms, applied, emitted')
          BY <1>2, <1>4, <5>1, <5>2, Join
        <5> QED BY <3>3, <5>1, <5>3, <5>4
      <4> QED BY <1>1, <4>1, <4>2, <4>3 DEF OrderInv
    <3>6. SeenInv'
      <4>1. \A r \in Rows : \E q \in Rows :
              Becomes(r, queue', q) /\ (turn' = 0 /\ queue' # <<>> => q.status \in Ended)
        BY <2>1, BecomesNothing
      <4>2. ASSUME registered = hostConn
            PROVE  \E q \in Rows : Becomes(row, up'[hostConn], q) /\ Mirrors(q)'
        <5>1. Becomes(row, up[hostConn], z) /\ Mirrors(z)
          BY <1>7, <1>8, <4>2
        <5>2. PICK q \in Rows : Becomes(z, ms, q) /\ (Mirrors(z) => Mirrors(q)')
          OBVIOUS
        <5>3. Becomes(row, up[hostConn] \o ms, q)
          BY <1>2, <2>2, <5>1, <5>2, Now, BecomesBoth
        <5> QED BY <3>3, <5>1, <5>2, <5>3
      <4> QED BY <1>1, <4>1, <4>2 DEF SeenInv, Ready
    <3>7. AbsentHostRunsNothing'
      BY <1>1 DEF ThreadInv, AbsentHostRunsNothing
    <3> QED BY <2>1, <3>2, <3>4, <3>5, <3>6, <3>7, Now
  <2>6. CASE hostConn \notin hubConns
    <3>1. up' = up /\ registered # hostConn
      BY <2>1, <2>6, Now DEF Sent, Conns
    <3>2. LinkInv'
      BY <1>1, <3>1 DEF ThreadInv, LinkInv
    <3>3. OrderInv'
      <4>1. applied' <= emitted' /\ InOrder(queue') /\ Between(queue', applied', emitted')
        BY <1>1, <1>3, <2>1, Now DEF InOrder, Between
      <4>2. \A k \in Conns : InOrder(up'[k]) /\ Between(up'[k], -1, emitted') /\ Newer(queue', up'[k])
        BY <1>3, <1>6, <2>1, <3>1 DEF Newer
      <4>3. ASSUME registered # 0 PROVE Between(up'[registered], applied, emitted')
        <5>1. Between(up[registered], applied, emitted) /\ registered \in Conns
          BY <1>3, <4>3, Now
        <5>2. up[registered] \in Seq(Messages) /\ applied \in Int /\ emitted \in Nat
          BY <5>1, Now
        <5> QED BY <3>1, <5>1, <5>2, Wider
      <4> QED BY <1>1, <4>1, <4>2, <4>3 DEF OrderInv
    <3>4. SeenInv'
      <4>1. \A r \in Rows : \E q \in Rows :
              Becomes(r, queue', q) /\ (turn' = 0 /\ queue' # <<>> => q.status \in Ended)
        BY <2>1, BecomesNothing
      <4> QED BY <1>1, <3>1, <4>1 DEF SeenInv, Ready
    <3>5. AbsentHostRunsNothing'
      BY <1>1 DEF ThreadInv, AbsentHostRunsNothing
    <3> QED BY <2>1, <3>1, <3>2, <3>3, <3>4, <3>5, Now
  <2> QED BY <2>5, <2>6
<1>9. CASE ~Ready
  <2>1. queue' = queue \o ms /\ up' = up
    BY <1>9
  <2>2. queue' \in Seq(Events)
    BY <2>1, Now
  <2>3. LinkInv'
    BY <1>1, <2>1 DEF ThreadInv, LinkInv
  <2>4. OrderInv'
    <3>1. Newer(ms, queue)
      <4>1. Between(queue, applied, emitted) /\ applied \in Int /\ emitted \in Nat /\ emitted' \in Int
            /\ queue \in Seq(Messages)
        BY <1>3, Now
      <4> QED BY <1>2, <4>1, Later
    <3>2. InOrder(queue') /\ Between(queue', applied, emitted')
      <4>1. /\ InOrder(queue) /\ Between(queue, applied, emitted) /\ applied \in Int
            /\ emitted \in Nat /\ queue \in Seq(Messages)
        BY <1>3, Now
      <4> QED BY <1>2, <1>4, <2>1, <3>1, <4>1, Join
    <3>3. \A k \in Conns : Newer(queue', up[k])
      <4>1. ASSUME NEW k \in Conns PROVE Newer(queue \o ms, up[k])
        <5>1. Newer(queue, up[k]) /\ Newer(ms, up[k])
          BY <1>3, <1>6
        <5>2. \A j \in 1 .. Len(queue \o ms) :
                \/ j \in 1 .. Len(queue) /\ (queue \o ms)[j] = queue[j]
                \/ j - Len(queue) \in 1 .. Len(ms) /\ (queue \o ms)[j] = ms[j - Len(queue)]
          BY <1>2, Now
        <5> QED BY <5>1, <5>2 DEF Newer
      <4> QED BY <2>1, <4>1
    <3>4. ASSUME registered # 0 PROVE Between(up[registered], applied, emitted')
      <4>1. Between(up[registered], applied, emitted) /\ registered \in Conns
        BY <1>3, <3>4, Now
      <4>2. up[registered] \in Seq(Messages) /\ applied \in Int /\ emitted \in Nat
        BY <4>1, Now
      <4> QED BY <4>1, <4>2, Wider
    <3>5. applied <= emitted'
      BY <1>3, Now
    <3>6. \A k \in Conns : InOrder(up[k]) /\ Between(up[k], -1, emitted')
      BY <1>3, <1>6
    <3> QED BY <1>1, <2>1, <3>2, <3>3, <3>4, <3>5, <3>6 DEF OrderInv
  <2>5. SeenInv'
    <3>1. ASSUME NEW r \in Rows
          PROVE  \E q \in Rows :
                   Becomes(r, queue', q) /\ (turn' = 0 /\ queue' # <<>> => q.status \in Ended)
      <4>1. PICK x \in Rows : Becomes(r, queue, x)
        BY DEF ThreadInv, SeenInv
      <4>2. PICK q \in Rows : Becomes(x, ms, q) /\ (turn' = 0 => q.status \in Ended)
        BY <1>9
      <4>3. Becomes(r, queue \o ms, q)
        BY <1>2, <4>1, <4>2, Now, BecomesBoth
      <4> QED BY <2>1, <4>2, <4>3
    <3> QED BY <1>1, <1>9, <3>1 DEF SeenInv, Ready
  <2>6. AbsentHostRunsNothing'
    BY <1>1 DEF ThreadInv, AbsentHostRunsNothing
  <2> QED BY <2>1, <2>2, <2>3, <2>4, <2>5, <2>6, Now
<1> QED BY <1>8, <1>9

(* One word, or two.                                                       *)
LEMMA WordsOne ==
  ASSUME NEW a \in Methods, NEW n \in Nat, NEW id \in 0 .. MaxTurns, NEW r \in Rows
  PROVE  /\ Becomes(r, Words(<<a>>, n, id), Patched(r, Event(a, n + 1, id)))
         /\ Patched(r, Event(a, n + 1, id)) \in Rows
<1> DEFINE m == Event(a, n + 1, id)
<1>1. m \in Said /\ m.type = "event"
  BY MessageKinds
<1>2. Words(<<a>>, n, id) = <<m>>
  BY DEF Words
<1> HIDE DEF m
<1>3. Effect(r, m) = Patched(r, m)
  BY <1>1 DEF Effect
<1>4. Becomes(r, <<m>>, Effect(r, m)) /\ Effect(r, m) \in Rows
  BY <1>1, BecomesOne
<1> QED BY <1>2, <1>3, <1>4 DEF m

LEMMA WordsTwo ==
  ASSUME NEW a \in Methods, NEW b \in Methods, NEW n \in Nat, NEW id \in 0 .. MaxTurns,
         NEW r \in Rows
  PROVE  LET q == Patched(r, Event(a, n + 1, id))
         IN  /\ q \in Rows /\ Patched(q, Event(b, n + 2, id)) \in Rows
             /\ Becomes(r, Words(<<a, b>>, n, id), Patched(q, Event(b, n + 2, id)))
<1> DEFINE m == Event(a, n + 1, id)
           w == Event(b, n + 2, id)
           q == Patched(r, m)
<1>1. m \in Said /\ m.type = "event" /\ w \in Said /\ w.type = "event"
  BY MessageKinds
<1>2. Words(<<a, b>>, n, id) = Append(<<m>>, w) /\ <<m>> \in Seq(Said)
  BY <1>1 DEF Words
<1> HIDE DEF m, w
<1>3. \A x : Effect(x, m) = Patched(x, m) /\ Effect(x, w) = Patched(x, w)
  BY <1>1 DEF Effect
<1>4. Becomes(r, <<m>>, Effect(r, m)) /\ Effect(r, m) \in Rows
  BY <1>1, BecomesOne
<1>5. Becomes(r, <<m>>, q) /\ q \in Rows
  BY <1>3, <1>4
<1> HIDE DEF q
<1>6. Becomes(r, Append(<<m>>, w), Effect(q, w))
  BY <1>1, <1>2, <1>5, BecomesMore
<1>7. Effect(q, w) \in Rows
  BY <1>1, <1>5, EffectIsRow
<1> QED BY <1>2, <1>3, <1>5, <1>6, <1>7 DEF m, w, q

(* What an action of the host owes the invariant, once its words are known.*)
LEMMA EmitInv ==
  ASSUME ThreadInv, NEW methods \in Seq(Methods), NEW id \in 0 .. MaxTurns,
         Emit(methods, id), Speaking, HostInv',
         /\ disk' \in HostRows /\ copy' \in HostRows /\ turn' \in 0 .. MaxTurns
         /\ turns' \in 0 .. MaxTurns /\ pending' \in BOOLEAN /\ stopping' \in BOOLEAN
         /\ turnConn' \in {0} \cup Conns /\ wanted' \subseteq Helps,
         \A r \in Rows : \E q \in Rows :
            /\ Becomes(r, Words(methods, emitted, id), q)
            /\ (~Ready /\ turn' = 0 => q.status \in Ended)
            /\ (Mirrors(r) => Mirrors(q)')
  PROVE  ThreadInv'
<1> DEFINE ms == Words(methods, emitted, id)
<1>1. /\ ms \in Seq(Events) /\ InOrder(ms) /\ Between(ms, emitted, emitted + Len(methods))
      /\ emitted + Len(methods) \in Nat /\ emitted <= emitted + Len(methods)
  <2>1. emitted \in Nat /\ Len(methods) \in Nat
    BY Now
  <2>2. emitted <= emitted + Len(methods)
    BY <2>1
  <2> QED BY <2>1, <2>2, EmittedIs
<1>2. /\ emitted' = emitted + Len(methods)
      /\ IF Ready THEN up' = Sent(ms) /\ UNCHANGED queue ELSE queue' = queue \o ms /\ UNCHANGED up
  BY DEF Emit, Words
<1> HIDE DEF ms
<1>3. UNCHANGED <<hubVars, opened, hostConn, welcomed, countVars>>
  BY DEF Speaking
<1>4. \A r \in Rows : \E q \in Rows :
            /\ Becomes(r, ms, q) /\ (~Ready /\ turn' = 0 => q.status \in Ended)
            /\ (Mirrors(r) => Mirrors(q)')
  BY DEF ms
<1>5. /\ LinkInv' /\ OrderInv' /\ AbsentHostRunsNothing' /\ SeenInv'
      /\ up' \in [Conns -> Seq(Messages)] /\ queue' \in Seq(Events)
  BY <1>1, <1>2, <1>3, <1>4, SpokenInv
<1>6. Shapes'
  <2>1. /\ \A n \in Conns : \A i \in DOMAIN up'[n] : up'[n][i] \in Messages
        /\ \A i \in DOMAIN queue' : queue'[i] \in Events
    BY <1>5
  <2>2. emitted' \in Nat
    BY <1>1, <1>2
  <2> QED BY <1>3, <1>5, <2>1, <2>2 DEF ThreadInv, Shapes, TypeOK, hubVars, countVars
<1> QED BY <1>5, <1>6 DEF ThreadInv

-----------------------------------------------------------------------------
(* The actions of the host.                                                *)
LEMMA HostNow ==
  ASSUME ThreadInv
  PROVE  /\ disk \in HostRows /\ copy \in HostRows /\ turn \in 0 .. MaxTurns
         /\ turns \in 0 .. MaxTurns /\ pending \in BOOLEAN /\ stopping \in BOOLEAN
         /\ turnConn \in {0} \cup Conns /\ wanted \subseteq Helps
         /\ (Ready => queue = <<>>)
         /\ (turn # 0 => turnConn \in 1 .. opened /\ copy.open = pending
                           /\ (turnConn = hostConn => Ready))
         /\ (turn = 0 => ~pending /\ ~stopping /\ (disk.open => queue = <<>> /\ ~Ready))
  BY DEF ThreadInv, Shapes, TypeOK, HostInv

LEMMA StartsInv ==
  ASSUME ThreadInv, TurnStarts
  PROVE  ThreadInv'
<1> USE DEF TurnStarts, Speaking
<1>1. /\ turn' = turns + 1 /\ turns + 1 \in 0 .. MaxTurns /\ turns + 1 # 0
      /\ pending' = pending /\ pending = FALSE /\ disk.open = FALSE /\ copy' = disk /\ turnConn' = hostConn
      /\ Ready /\ Ready' /\ queue' = <<>> /\ hostConn \in 1 .. opened /\ hostConn \in Conns
      /\ emitted \in Nat
  <2>1. disk.open \in BOOLEAN /\ turns \in 0 .. MaxTurns /\ pending \in BOOLEAN /\ Ready /\ turn = 0
    BY HostNow DEF HostRows
  <2>2. pending = FALSE /\ disk.open = FALSE /\ queue = <<>>
    BY <2>1, HostNow
  <2>3. Ready' /\ queue' = <<>>
    BY <2>1, <2>2 DEF Emit, Ready
  <2>4. hostConn \in 1 .. opened /\ hostConn \in Conns /\ emitted \in Nat
    BY <2>1, Now DEF Ready
  <2>5. turns + 1 \in 0 .. MaxTurns /\ turns + 1 # 0
    BY <2>1
  <2> QED BY <2>1, <2>2, <2>3, <2>4, <2>5
<1>2. HostInv'
  <2>1. turnConn' \in 1 .. opened' /\ copy'.open = pending' /\ turn' # 0
    BY <1>1
  <2> QED BY <1>1, <2>1 DEF HostInv
<1>3. ASSUME NEW r \in Rows
      PROVE  \E q \in Rows : /\ Becomes(r, Words(<<"turn/started">>, emitted, turns + 1), q)
                            /\ (~Ready /\ turn' = 0 => q.status \in Ended)
                            /\ (Mirrors(r) => Mirrors(q)')
  <2> DEFINE now == Patched(r, Event("turn/started", emitted + 1, turns + 1))
  <2>1. Becomes(r, Words(<<"turn/started">>, emitted, turns + 1), now) /\ now \in Rows
    BY <1>1, WordsOne DEF Methods
  <2>2. now.status = "active" /\ now.turn = turns + 1 /\ now.prompt = FALSE /\ now.flag = "none"
    BY DEF Patched, Event, Running, Rows
  <2> HIDE DEF now
  <2> PICK q \in Rows : q = now
    BY <2>1
  <2>3. Mirrors(q)'
    BY <1>1, <2>2 DEF Mirrors
  <2> QED BY <1>1, <2>1, <2>3
<1>4. <<"turn/started">> \in Seq(Methods)
  BY DEF Methods
<1> QED BY <1>1, <1>2, <1>3, <1>4, HostNow, EmitInv

LEMMA AsksInv ==
  ASSUME ThreadInv, TurnAsks
  PROVE  ThreadInv'
<1> USE DEF TurnAsks, Speaking
<1>1. /\ copy' \in HostRows /\ copy'.open = TRUE /\ disk' = copy' /\ pending' = TRUE
      /\ turn \in 0 .. MaxTurns /\ turn # 0 /\ turn' = turn /\ (Ready' <=> Ready) /\ emitted \in Nat
  BY HostNow, Now DEF HostRows, Ready
<1>2. HostInv'
  BY <1>1, HostNow DEF HostInv, Emit
<1>3. ASSUME NEW r \in Rows
      PROVE  \E q \in Rows : /\ Becomes(r, Words(<<"requestApproval">>, emitted, turn), q)
                            /\ (~Ready /\ turn' = 0 => q.status \in Ended)
                            /\ (Mirrors(r) => Mirrors(q)')
  <2> DEFINE now == Patched(r, Event("requestApproval", emitted + 1, turn))
  <2>1. Becomes(r, Words(<<"requestApproval">>, emitted, turn), now) /\ now \in Rows
    BY <1>1, WordsOne DEF Methods
  <2>2. now.status = "active" /\ now.turn = r.turn /\ now.prompt = TRUE /\ now.flag = "waitingOnApproval"
    BY DEF Patched, Event, Running, Rows
  <2> HIDE DEF now
  <2> PICK q \in Rows : q = now
    BY <2>1
  <2>3. Mirrors(r) => Mirrors(q)'
    BY <1>1, <2>2 DEF Mirrors
  <2> QED BY <1>1, <2>1, <2>3
<1>4. <<"requestApproval">> \in Seq(Methods)
  BY DEF Methods
<1> QED BY <1>1, <1>2, <1>3, <1>4, HostNow, EmitInv

LEMMA AnsweredInv ==
  ASSUME ThreadInv, TurnIsAnswered
  PROVE  ThreadInv'
<1> USE DEF TurnIsAnswered, Speaking
<1>1. /\ copy' \in HostRows /\ copy'.open = FALSE /\ disk' = copy' /\ pending' = FALSE
      /\ turn \in 0 .. MaxTurns /\ turn # 0 /\ turn' = turn /\ (Ready' <=> Ready) /\ emitted \in Nat
  BY HostNow, Now DEF HostRows, Ready
<1>2. HostInv'
  BY <1>1, HostNow DEF HostInv, Emit
<1>3. ASSUME NEW r \in Rows
      PROVE  \E q \in Rows : /\ Becomes(r, Words(<<"serverRequest/resolved">>, emitted, turn), q)
                            /\ (~Ready /\ turn' = 0 => q.status \in Ended)
                            /\ (Mirrors(r) => Mirrors(q)')
  <2> DEFINE now == Patched(r, Event("serverRequest/resolved", emitted + 1, turn))
  <2>1. Becomes(r, Words(<<"serverRequest/resolved">>, emitted, turn), now) /\ now \in Rows
    BY <1>1, WordsOne DEF Methods
  <2>2. now.status = "active" /\ now.turn = r.turn /\ now.prompt = FALSE /\ now.flag = "none"
    BY DEF Patched, Event, Running, Rows
  <2> HIDE DEF now
  <2> PICK q \in Rows : q = now
    BY <2>1
  <2>3. Mirrors(r) => Mirrors(q)'
    BY <1>1, <2>2 DEF Mirrors
  <2> QED BY <1>1, <2>1, <2>3
<1>4. <<"serverRequest/resolved">> \in Seq(Methods)
  BY DEF Methods
<1> QED BY <1>1, <1>2, <1>3, <1>4, HostNow, EmitInv

LEMMA Pair ==
  ASSUME NEW a, NEW b
  PROVE  <<a>> \o <<b>> = <<a, b>>
<1> DEFINE s == <<a>>
           t == <<b>>
           u == s \o t
           w == <<a, b>>
<1>1. s \in Seq({a, b}) /\ t \in Seq({a, b}) /\ w \in Seq({a, b})
  OBVIOUS
<1>2. /\ Len(s) = 1 /\ Len(t) = 1 /\ s[1] = a /\ t[1] = b
      /\ Len(w) = 2 /\ w[1] = a /\ w[2] = b
  OBVIOUS
<1> HIDE DEF s, t, w
<1>3. u \in Seq({a, b}) /\ Len(u) = 2 /\ u[1] = a /\ u[2] = b
  <2>1. /\ u \in Seq({a, b}) /\ Len(u) = Len(s) + Len(t)
        /\ \A i \in 1 .. Len(s) + Len(t) : u[i] = IF i <= Len(s) THEN s[i] ELSE t[i - Len(s)]
    BY <1>1, ConcatProperties
  <2> HIDE DEF u
  <2> QED BY <1>2, <2>1
<1> HIDE DEF u
<1>4. u = w
  <2>1. \A i \in 1 .. 2 : u[i] = w[i]
    BY <1>2, <1>3
  <2> QED BY <1>1, <1>2, <1>3, <2>1
<1> QED BY <1>4 DEF u, s, t, w

LEMMA StoppedInv ==
  ASSUME ThreadInv, TurnIsStopped
  PROVE  ThreadInv'
<1> USE DEF TurnIsStopped, Speaking
<1>1. /\ turn \in 0 .. MaxTurns /\ turn # 0 /\ turn' = turn /\ Ready /\ Ready' /\ emitted \in Nat
      /\ pending' = FALSE /\ stopping' = TRUE
  BY HostNow, Now DEF Ready
<1>2. CASE pending
  <2> DEFINE methods == <<"turn/interrupt/requested", "serverRequest/resolved">>
  <2>1. Emit(methods, turn) /\ copy' = [copy EXCEPT !.open = FALSE] /\ disk' = copy'
    <3>1. <<"turn/interrupt/requested">> \o <<"serverRequest/resolved">> = methods
      BY Pair
    <3> QED BY <1>2, <3>1
  <2>2. copy' \in HostRows /\ copy'.open = FALSE
    BY <2>1, HostNow DEF HostRows
  <2>3. HostInv'
    BY <1>1, <2>1, <2>2, HostNow DEF HostInv, Emit
  <2>4. ASSUME NEW r \in Rows
        PROVE  \E q \in Rows : /\ Becomes(r, Words(methods, emitted, turn), q)
                              /\ (~Ready /\ turn' = 0 => q.status \in Ended)
                              /\ (Mirrors(r) => Mirrors(q)')
    <3> DEFINE x == Patched(r, Event("turn/interrupt/requested", emitted + 1, turn))
               now == Patched(x, Event("serverRequest/resolved", emitted + 2, turn))
    <3>1. Becomes(r, Words(methods, emitted, turn), now) /\ now \in Rows /\ x \in Rows
      BY <1>1, WordsTwo DEF Methods
    <3>2. x.turn = r.turn
      BY DEF Patched, Event, Running, Rows
    <3> HIDE DEF x
    <3>3. now.status = "active" /\ now.turn = x.turn /\ now.prompt = FALSE /\ now.flag = "none"
      BY <3>1 DEF Patched, Event, Running, Rows
    <3> HIDE DEF now
    <3> PICK q \in Rows : q = now
      BY <3>1
    <3>4. Mirrors(r) => Mirrors(q)'
      BY <1>1, <3>2, <3>3 DEF Mirrors
    <3> QED BY <1>1, <3>1, <3>4
  <2>5. methods \in Seq(Methods)
    BY DEF Methods
  <2> HIDE DEF methods
  <2> QED BY <1>1, <2>1, <2>2, <2>3, <2>4, <2>5, HostNow, EmitInv
<1>3. CASE ~pending
  <2> DEFINE methods == <<"turn/interrupt/requested">>
  <2>1. Emit(methods, turn) /\ UNCHANGED <<copy, disk>>
    <3>1. <<"turn/interrupt/requested">> \o <<>> = methods
      OBVIOUS
    <3> QED BY <1>3, <3>1
  <2>2. HostInv'
    BY <1>1, <1>3, <2>1, HostNow DEF HostInv, Emit
  <2>3. ASSUME NEW r \in Rows
        PROVE  \E q \in Rows : /\ Becomes(r, Words(methods, emitted, turn), q)
                              /\ (~Ready /\ turn' = 0 => q.status \in Ended)
                              /\ (Mirrors(r) => Mirrors(q)')
    <3> DEFINE now == Patched(r, Event("turn/interrupt/requested", emitted + 1, turn))
    <3>1. Becomes(r, Words(methods, emitted, turn), now) /\ now \in Rows
      BY <1>1, WordsOne DEF Methods
    <3>2. now.status = "active" /\ now.turn = r.turn /\ now.prompt = r.prompt /\ now.flag = "stopping"
      BY DEF Patched, Event, Running, Rows
    <3> HIDE DEF now
    <3> PICK q \in Rows : q = now
      BY <3>1
    <3>3. Mirrors(r) => Mirrors(q)'
      BY <1>1, <1>3, <3>2 DEF Mirrors
    <3> QED BY <1>1, <3>1, <3>3
  <2>4. methods \in Seq(Methods)
    BY DEF Methods
  <2> HIDE DEF methods
  <2> QED BY <1>1, <2>1, <2>2, <2>3, <2>4, HostNow, EmitInv
<1> QED BY <1>2, <1>3, HostNow

LEMMA EndsInv ==
  ASSUME ThreadInv, TurnEnds
  PROVE  ThreadInv'
<1> USE DEF TurnEnds, Speaking
<1>1. /\ turn \in 0 .. MaxTurns /\ turn' = 0 /\ turnConn' = 0 /\ stopping' = FALSE /\ ~pending
      /\ pending' = pending /\ disk' = copy /\ ~copy.open /\ (Ready' <=> Ready) /\ emitted \in Nat
  BY HostNow, Now DEF Ready
<1>2. NewRow \in HostRows
  BY DEF NewRow, HostRows
<1>3. PICK how \in {"turn/completed", "turn/failed"} : Emit(<<how>>, turn)
  OBVIOUS
<1>4. HostInv'
  BY <1>1, <1>3, HostNow DEF HostInv, Emit
<1>5. ASSUME NEW r \in Rows
      PROVE  \E q \in Rows : /\ Becomes(r, Words(<<how>>, emitted, turn), q)
                            /\ (~Ready /\ turn' = 0 => q.status \in Ended)
                            /\ (Mirrors(r) => Mirrors(q)')
  <2> DEFINE now == Patched(r, Event(how, emitted + 1, turn))
  <2>1. Becomes(r, Words(<<how>>, emitted, turn), now) /\ now \in Rows
    BY <1>1, WordsOne DEF Methods
  <2>2. now.status \in Ended
    BY DEF Patched, Event, Over, Ended, Rows
  <2> HIDE DEF now
  <2> PICK q \in Rows : q = now
    BY <2>1
  <2>3. Mirrors(q)'
    BY <1>1, <2>2 DEF Mirrors
  <2> QED BY <2>1, <2>2, <2>3
<1>6. <<how>> \in Seq(Methods)
  BY DEF Methods
<1>7. /\ disk' \in HostRows /\ copy' \in HostRows /\ turn' \in 0 .. MaxTurns
      /\ turns' \in 0 .. MaxTurns /\ pending' \in BOOLEAN /\ stopping' \in BOOLEAN
      /\ turnConn' \in {0} \cup Conns /\ wanted' \subseteq Helps
  <2>1. UNCHANGED <<turns, pending, wanted>> /\ copy' = NewRow /\ disk' = copy
    OBVIOUS
  <2>2. disk' \in HostRows /\ copy' \in HostRows
    BY <1>2, <2>1, HostNow
  <2>3. turns' \in 0 .. MaxTurns /\ pending' \in BOOLEAN /\ wanted' \subseteq Helps
    BY <2>1, HostNow
  <2>4. turn' \in 0 .. MaxTurns /\ stopping' \in BOOLEAN /\ turnConn' \in {0} \cup Conns
    <3>1. 0 \in 0 .. MaxTurns
      OBVIOUS
    <3> QED BY <1>1, <3>1
  <2> QED BY <2>2, <2>3, <2>4
<1>8. turn \in 0 .. MaxTurns /\ Speaking
  BY <1>1
<1> QED BY <1>3, <1>4, <1>5, <1>6, <1>7, <1>8, EmitInv

LEMMA HelpInv ==
  ASSUME ThreadInv, NEW h \in Helps, HelpAsked(h) \/ HelpResolved(h)
  PROVE  ThreadInv'
<1>1. PICK a \in {"help/requested", "help/resolved"} : Emit(<<a>>, 0)
  BY DEF HelpAsked, HelpResolved
<1>2. /\ Ready /\ Speaking /\ disk' \in HostRows /\ disk'.open = disk.open /\ wanted' \subseteq Helps
      /\ UNCHANGED <<copy, turn, turns, pending, stopping, turnConn>>
  BY HostNow DEF HelpAsked, HelpResolved, HostRows, turnVars
<1>3. Ready' /\ emitted \in Nat /\ 0 \in 0 .. MaxTurns
  BY <1>2, Now DEF Ready, Speaking
<1>4. HostInv'
  BY <1>1, <1>2, <1>3, HostNow DEF HostInv, Emit, Speaking
<1>5. ASSUME NEW r \in Rows
      PROVE  \E q \in Rows : /\ Becomes(r, Words(<<a>>, emitted, 0), q)
                            /\ (~Ready /\ turn' = 0 => q.status \in Ended)
                            /\ (Mirrors(r) => Mirrors(q)')
  <2>1. Becomes(r, Words(<<a>>, emitted, 0), Patched(r, Event(a, emitted + 1, 0)))
    BY <1>3, WordsOne DEF Methods
  <2>2. Patched(r, Event(a, emitted + 1, 0)) = r
    BY DEF Patched, Event
  <2>3. Mirrors(r) => Mirrors(r)'
    BY <1>2 DEF Mirrors, Speaking
  <2> QED BY <1>2, <2>1, <2>2, <2>3
<1>6. <<a>> \in Seq(Methods)
  BY DEF Methods
<1> QED BY <1>1, <1>2, <1>3, <1>4, <1>5, <1>6, HostNow, EmitInv

LEMMA HostStepsInv ==
  ASSUME ThreadInv, HostSteps
  PROVE  ThreadInv'
  BY StartsInv, AsksInv, AnsweredInv, StoppedInv, EndsInv, HelpInv DEF HostSteps

-----------------------------------------------------------------------------
(* The connection.                                                         *)

(* What is not said by the host leaves the numbers as they are.            *)
LEMMA QuietOrder ==
  ASSUME ThreadInv, UNCHANGED <<applied, emitted>>, queue' = queue \/ queue' = <<>>,
         \A k \in Conns : up'[k] = up[k] \/ up'[k] = <<>> \/ up'[k] = <<Hello>>,
         registered' # 0 => registered' = registered \/ up'[registered'] = <<>>,
         registered' \in {0} \cup Conns
  PROVE  OrderInv'
<1>1. /\ applied <= emitted /\ InOrder(queue) /\ Between(queue, applied, emitted)
      /\ \A k \in Conns : InOrder(up[k]) /\ Between(up[k], -1, emitted) /\ Newer(queue, up[k])
      /\ registered # 0 => Between(up[registered], applied, emitted)
  BY DEF ThreadInv, OrderInv
<1>2. ASSUME NEW s, s = <<>> \/ s = <<Hello>>
      PROVE  /\ InOrder(s) /\ \A lo, hi : Between(s, lo, hi) /\ \A t : Newer(t, s)
  <2>1. \A i \in 1 .. Len(s) : s[i].type # "event"
    BY <1>2, MessageKinds
  <2> QED BY <2>1 DEF InOrder, Between, Newer
<1>3. \A s : Newer(<<>>, s)
  BY DEF Newer
<1>4. InOrder(queue') /\ Between(queue', applied, emitted)
  BY <1>1, <1>2
<1>5. \A k \in Conns : InOrder(up'[k]) /\ Between(up'[k], -1, emitted) /\ Newer(queue', up'[k])
  <2>1. ASSUME NEW k \in Conns
        PROVE  InOrder(up'[k]) /\ Between(up'[k], -1, emitted) /\ Newer(queue', up'[k])
    <3>1. Newer(queue, up'[k]) /\ InOrder(up'[k]) /\ Between(up'[k], -1, emitted)
      BY <1>1, <1>2
    <3> QED BY <1>3, <3>1
  <2> QED BY <2>1
<1>6. registered' # 0 => Between(up'[registered'], applied, emitted)
  <2>1. CASE registered' = registered
    BY <1>1, <1>2, <2>1
  <2>2. CASE registered' # 0 /\ up'[registered'] = <<>>
    BY <1>2, <2>2
  <2> QED BY <2>1, <2>2
<1> QED BY <1>1, <1>4, <1>5, <1>6 DEF OrderInv

LEMMA ConnectsInv ==
  ASSUME ThreadInv, HostConnects
  PROVE  ThreadInv'
<1> DEFINE n == opened + 1
<1>1. /\ hostConn = 0 /\ opened' = n /\ hostConn' = n /\ hubConns' = hubConns \cup {n}
      /\ up' = [up EXCEPT ![n] = <<Hello>>] /\ n \in Conns /\ n \in 1 .. MaxConns /\ opened \in Nat
      /\ UNCHANGED <<row, applied, registered, greeted, welcomed, queue, disk, turnVars, emitted,
                     wanted, countVars>>
  BY Now DEF HostConnects, Conns
<1>2. UNCHANGED <<copy, turn, turns, pending, stopping, turnConn, crashes, restarts>>
  BY <1>1 DEF turnVars, countVars
<1>3. n \notin hubConns \cup greeted /\ n # 0 /\ welcomed = 0 /\ hubConns \cup greeted \subseteq 1 .. opened
  BY <1>1, Now DEF ThreadInv, LinkInv
<1>4. up' \in [Conns -> Seq(Messages)] /\ up'[n] = <<Hello>> /\ \A k \in Conns : k # n => up'[k] = up[k]
  <2>1. <<Hello>> \in Seq(Messages)
    BY DEF Messages
  <2> QED BY <1>1, <2>1, Now
<1> HIDE DEF n
<1>5. Shapes'
  <2>1. \A k \in Conns : \A i \in DOMAIN up'[k] : up'[k][i] \in Messages
    BY <1>4
  <2>2. opened' \in 0 .. MaxConns /\ hostConn' \in {0} \cup Conns /\ hubConns' \subseteq Conns
    BY <1>1, Now
  <2> QED BY <1>1, <1>2, <1>4, <2>1, <2>2 DEF ThreadInv, Shapes, TypeOK
<1>6. LinkInv'
  <2>1. hubConns' \cup greeted' \subseteq 1 .. opened' /\ hostConn' \in 0 .. opened'
    BY <1>1, <1>3 DEF n
  <2>2. registered' # 0 => registered' \in hubConns' \cap greeted'
    BY <1>1, Now
  <2>3. welcomed' \in {0, hostConn'} /\ (welcomed' # 0 => welcomed' \in greeted')
    BY <1>1, <1>3
  <2>4. \A k \in hubConns' \ greeted' : up'[k] = <<Hello>>
    BY <1>1, <1>4, Now DEF ThreadInv, LinkInv
  <2>5. \A k \in greeted' : up'[k] \in Seq(Said)
    BY <1>1, <1>3, <1>4, Now
  <2>6. hostConn' \notin greeted'
    BY <1>1, <1>3
  <2> QED BY <2>1, <2>2, <2>3, <2>4, <2>5, <2>6 DEF LinkInv
<1>7. HostInv'
  <2>1. ~Ready' /\ ~Ready
    BY <1>1, <1>3 DEF Ready
  <2>2. turn # 0 => turnConn \in 1 .. opened' /\ turnConn # hostConn'
    BY <1>1, HostNow DEF n
  <2> QED BY <1>1, <1>2, <2>1, <2>2, HostNow DEF HostInv
<1>8. OrderInv'
  BY <1>1, <1>4, Now, QuietOrder
<1>9. AbsentHostRunsNothing'
  BY <1>1, <1>2 DEF ThreadInv, AbsentHostRunsNothing
<1>10. SeenInv'
  <2>1. ~Ready'
    BY <1>1, <1>3 DEF Ready
  <2> QED BY <1>1, <1>2, <2>1 DEF ThreadInv, SeenInv
<1> QED BY <1>5, <1>6, <1>7, <1>8, <1>9, <1>10 DEF ThreadInv

LEMMA HostDropsInv ==
  ASSUME ThreadInv, HostDrops, hostConn # 0
  PROVE  ThreadInv'
<1>1. /\ hostConn' = 0 /\ welcomed' = 0
      /\ UNCHANGED <<row, applied, registered, hubConns, greeted, up, opened, queue, disk, copy, turn,
                     turns, pending, stopping, turnConn, emitted, wanted, crashes, restarts>>
  BY DEF HostDrops, hubVars, turnVars, countVars
<1>2. ~Ready'
  BY <1>1 DEF Ready
<1>3. Shapes'
  BY <1>1 DEF ThreadInv, Shapes, TypeOK
<1>4. LinkInv'
  <2>1. hostConn' \notin greeted'
    BY <1>1, Now DEF Conns
  <2> QED BY <1>1, <2>1, Now DEF ThreadInv, LinkInv
<1>5. HostInv'
  <2>1. turn # 0 => turnConn # 0
    BY HostNow
  <2> QED BY <1>1, <1>2, <2>1, HostNow DEF HostInv
<1>6. OrderInv'
  BY <1>1 DEF ThreadInv, OrderInv
<1>7. AbsentHostRunsNothing'
  BY <1>1 DEF ThreadInv, AbsentHostRunsNothing
<1>8. SeenInv'
  BY <1>1, <1>2 DEF ThreadInv, SeenInv
<1> QED BY <1>3, <1>4, <1>5, <1>6, <1>7, <1>8 DEF ThreadInv

LEMMA HelloInv ==
  ASSUME ThreadInv, NEW n \in Conns, HubHello(n)
  PROVE  ThreadInv'
<1>1. /\ n \in hubConns /\ n \notin greeted /\ registered' = n /\ greeted' = greeted \cup {n}
      /\ up' = [up EXCEPT ![n] = Tail(@)]
      /\ UNCHANGED <<row, applied, hubConns, opened, hostConn, welcomed, queue, disk, copy, turn,
                     turns, pending, stopping, turnConn, emitted, wanted, crashes, restarts>>
  BY DEF HubHello, turnVars, countVars
<1>2. up[n] = <<Hello>>
  BY <1>1 DEF ThreadInv, LinkInv
<1>3. up' = [up EXCEPT ![n] = <<>>] /\ n # 0
  BY <1>1, <1>2 DEF Conns
<1>4. up' \in [Conns -> Seq(Messages)] /\ up'[n] = <<>> /\ \A k \in Conns : k # n => up'[k] = up[k]
  BY <1>3, Now
<1>5. Shapes'
  <2>1. \A k \in Conns : \A i \in DOMAIN up'[k] : up'[k][i] \in Messages
    BY <1>4
  <2> QED BY <1>1, <1>4, <2>1 DEF ThreadInv, Shapes, TypeOK
<1>6. Ready' <=> Ready
  BY <1>1 DEF Ready
<1>7. Ready => hostConn # n
  BY <1>1, Now
<1>8. LinkInv'
  <2>1. hubConns' \cup greeted' \subseteq 1 .. opened' /\ hostConn' \in 0 .. opened'
    BY <1>1 DEF ThreadInv, LinkInv
  <2>2. registered' # 0 => registered' \in hubConns' \cap greeted'
    BY <1>1
  <2>3. welcomed' \in {0, hostConn'} /\ (welcomed' # 0 => welcomed' \in greeted')
    BY <1>1 DEF ThreadInv, LinkInv
  <2>4. \A k \in hubConns' \ greeted' : up'[k] = <<Hello>>
    BY <1>1, <1>4, Now DEF ThreadInv, LinkInv
  <2>5. \A k \in greeted' : up'[k] \in Seq(Said)
    <3>1. <<>> \in Seq(Said)
      OBVIOUS
    <3>2. \A k \in greeted : k # n /\ k \in Conns /\ up[k] \in Seq(Said)
      BY <1>1, Now
    <3> QED BY <1>1, <1>4, <3>1, <3>2
  <2>6. hostConn' \in greeted' /\ welcomed' # hostConn' => up'[hostConn'] = <<>>
    BY <1>1, <1>4, Now DEF ThreadInv, LinkInv
  <2> QED BY <2>1, <2>2, <2>3, <2>4, <2>5, <2>6 DEF LinkInv
<1>9. HostInv'
  BY <1>1, <1>6, HostNow DEF HostInv
<1>10. OrderInv'
  BY <1>1, <1>4, QuietOrder
<1>11. AbsentHostRunsNothing'
  BY <1>1, <1>3 DEF AbsentHostRunsNothing
<1>12. SeenInv'
  BY <1>1, <1>6, <1>7 DEF ThreadInv, SeenInv
<1> QED BY <1>5, <1>8, <1>9, <1>10, <1>11, <1>12 DEF ThreadInv

LEMMA WelcomeInv ==
  ASSUME ThreadInv, HostWelcome
  PROVE  ThreadInv'
<1> DEFINE abandoned == turn = 0 /\ disk.open
           said == IF abandoned THEN <<Event("turn/abandoned", emitted + 1, 0)>> ELSE <<>>
           note == <<Upsert(disk'.cleared)>>
           all == said \o note \o queue
<1>1. /\ hostConn # 0 /\ hostConn \in greeted /\ welcomed # hostConn
      /\ welcomed' = hostConn /\ queue' = <<>>
      /\ disk' = IF abandoned THEN [disk EXCEPT !.open = FALSE, !.cleared = TRUE] ELSE disk
      /\ emitted' = emitted + Len(said) /\ up' = Sent(all)
      /\ UNCHANGED <<row, applied, registered, hubConns, greeted, opened, hostConn, copy, turn, turns,
                     pending, stopping, turnConn, wanted, crashes, restarts>>
  BY DEF HostWelcome, hubVars, turnVars, countVars
<1>2. /\ hostConn \in Conns /\ up[hostConn] = <<>> /\ ~Ready /\ Ready'
  BY <1>1, Now DEF ThreadInv, LinkInv, Ready
<1>3. disk' \in HostRows /\ disk'.cleared \in BOOLEAN /\ (turn = 0 => ~disk'.open)
  BY <1>1, HostNow DEF HostRows
<1>4. /\ said \in Seq(Said) /\ emitted' \in Nat /\ emitted <= emitted' /\ InOrder(said)
      /\ Between(said, emitted, emitted') /\ (said # <<>> => queue = <<>>)
  <2>1. CASE abandoned
    <3>1. said = Words(<<"turn/abandoned">>, emitted, 0)
      BY <2>1 DEF Words
    <3>2. <<"turn/abandoned">> \in Seq(Methods) /\ Len(<<"turn/abandoned">>) = 1 /\ 0 \in 0 .. MaxTurns
          /\ emitted \in Nat
      BY Now DEF Methods
    <3>3. said \in Seq(Events) /\ Len(said) = 1 /\ InOrder(said) /\ Between(said, emitted, emitted + 1)
      <4> DEFINE w == Words(<<"turn/abandoned">>, emitted, 0)
      <4>1. w \in Seq(Events) /\ Len(w) = 1 /\ InOrder(w) /\ Between(w, emitted, emitted + 1)
        BY <3>2, EmittedIs
      <4>2. said = w
        BY <3>1
      <4> HIDE DEF w, said
      <4> QED BY <4>1, <4>2
    <3>4. said \in Seq(Said)
      BY <3>3, MessageKinds
    <3> QED BY <1>1, <2>1, <3>2, <3>3, <3>4, HostNow
  <2>2. CASE ~abandoned
    <3>1. said = <<>> /\ Len(<<>>) = 0 /\ <<>> \in Seq(Said)
      BY <2>2
    <3> HIDE DEF said
    <3>2. emitted' = emitted /\ emitted \in Nat
      BY <1>1, <3>1, Now
    <3> QED BY <3>1, <3>2 DEF InOrder, Between
  <2> QED BY <2>1, <2>2
<1>5. /\ note \in Seq(Said) /\ InOrder(note) /\ \A lo, hi : Between(note, lo, hi)
      /\ \A t : Newer(t, note) /\ Newer(note, t)
  <2>1. Upsert(disk'.cleared) \in Said /\ Upsert(disk'.cleared).type = "upsert"
    BY <1>3, MessageKinds
  <2> QED BY <2>1 DEF InOrder, Between, Newer
<1>6. \E x \in Rows : Becomes(row, said, x)
  <2>1. CASE abandoned
    <3>1. Event("turn/abandoned", emitted + 1, 0) \in Said
      BY <1>4, Now, MessageKinds DEF Methods
    <3> QED BY <2>1, <3>1, BecomesOne, Now
  <2>2. CASE ~abandoned
    BY <2>2, BecomesNothing, Now
  <2> QED BY <2>1, <2>2
<1>7. PICK x \in Rows : Becomes(row, said, x)
  BY <1>6
<1>8. PICK y \in Rows : Becomes(x, note, y) /\ y.status = "idle"
  <2>1. Upsert(disk'.cleared) \in Said /\ Upsert(disk'.cleared).type = "upsert"
    BY <1>3, MessageKinds
  <2>2. Becomes(x, note, Effect(x, Upsert(disk'.cleared))) /\ Effect(x, Upsert(disk'.cleared)) \in Rows
    BY <2>1, BecomesOne
  <2>3. Effect(x, Upsert(disk'.cleared)).status = "idle"
    BY <2>1 DEF Effect, Announced, Rows
  <2> QED BY <2>2, <2>3
<1>9. PICK z \in Rows : Becomes(y, queue, z) /\ (turn = 0 => z.status \in Ended)
  <2>1. PICK z \in Rows : Becomes(y, queue, z) /\ (turn = 0 /\ queue # <<>> => z.status \in Ended)
    BY DEF ThreadInv, SeenInv
  <2>2. queue = <<>> => z = y
    BY <2>1, BecomesNothing
  <2> QED BY <1>8, <2>1, <2>2 DEF Ended
<1> HIDE DEF note, abandoned, said
<1>10. /\ all \in Seq(Said) /\ InOrder(all) /\ Between(all, applied, emitted')
       /\ Between(all, -1, emitted') /\ Becomes(row, all, z)
  <2>1. /\ applied <= emitted /\ InOrder(queue) /\ Between(queue, applied, emitted)
        /\ queue \in Seq(Said) /\ queue \in Seq(Messages) /\ applied \in Nat /\ emitted \in Nat
    BY Now DEF ThreadInv, OrderInv
  <2>2. said \in Seq(Messages) /\ note \in Seq(Messages) /\ Said \subseteq Messages
    BY <1>4, <1>5 DEF Said
  <2>3. Between(said, applied, emitted')
    <3>1. \A i \in 1 .. Len(said) : said[i].type = "event" => said[i].n \in Nat
      BY <1>4, MessageKinds
    <3> QED BY <1>4, <2>1, <3>1 DEF Between
  <2>4. /\ said \o note \in Seq(Messages) /\ InOrder(said \o note)
        /\ Between(said \o note, applied, emitted')
    <3>1. Between(note, applied, emitted') /\ Newer(note, said) /\ emitted' <= emitted'
      BY <1>4, <1>5
    <3> QED BY <1>4, <1>5, <2>1, <2>2, <2>3, <3>1, Join
  <2>5. Between(queue, applied, emitted')
    BY <1>4, <2>1, Wider
  <2>6. Newer(queue, said \o note)
    <3>1. CASE said # <<>>
      BY <1>4, <3>1 DEF Newer
    <3>2. CASE said = <<>>
      <4>1. said \o note = note
        BY <1>5, <3>2
      <4> QED BY <1>5, <4>1
    <3> QED BY <3>1, <3>2
  <2>7. InOrder(all) /\ Between(all, applied, emitted')
    <3> DEFINE first == said \o note
    <3>1. /\ first \in Seq(Messages) /\ InOrder(first) /\ Between(first, applied, emitted')
          /\ Newer(queue, first)
      BY <2>4, <2>6
    <3> HIDE DEF first
    <3>2. /\ queue \in Seq(Messages) /\ InOrder(queue) /\ Between(queue, applied, emitted')
          /\ applied \in Int /\ emitted' \in Nat /\ emitted' <= emitted'
      BY <1>4, <2>1, <2>5
    <3>3. InOrder(first \o queue) /\ Between(first \o queue, applied, emitted')
      BY <3>1, <3>2, Join
    <3> QED BY <3>3 DEF first
  <2>8. said \o note \in Seq(Said) /\ all \in Seq(Said)
    BY <1>4, <1>5, <2>1
  <2>9. Becomes(row, said \o note, y)
    BY <1>4, <1>5, <1>7, <1>8, Now, BecomesBoth
  <2>10. Becomes(row, all, z)
    BY <1>9, <2>1, <2>8, <2>9, Now, BecomesBoth
  <2>11. Between(all, -1, emitted')
    <3>1. \A i \in 1 .. Len(all) : all[i].type = "event" => all[i].n \in Nat
      BY <2>8, MessageKinds
    <3> QED BY <2>7, <3>1 DEF Between
  <2> QED BY <2>7, <2>8, <2>10, <2>11
<1> HIDE DEF all
<1>11. /\ up' = IF hostConn \in hubConns THEN [up EXCEPT ![hostConn] = all] ELSE up
       /\ all \in Seq(Messages)
  <2>1. <<>> \o all = all
    BY <1>10
  <2> QED BY <1>1, <1>2, <1>10, <2>1 DEF Sent, Said
<1>12. /\ up' \in [Conns -> Seq(Messages)]
       /\ \A k \in Conns : up'[k] = up[k] \/ (k = hostConn /\ up'[k] = all)
       /\ (hostConn \in hubConns => up'[hostConn] = all)
  BY <1>2, <1>11, Now
<1>13. Shapes'
  <2>1. \A k \in Conns : \A i \in DOMAIN up'[k] : up'[k][i] \in Messages
    BY <1>12
  <2>2. queue' \in Seq(Events) /\ \A i \in DOMAIN queue' : queue'[i] \in Events
    BY <1>1
  <2>3. welcomed' \in {0} \cup Conns
    BY <1>1, <1>2
  <2> QED BY <1>1, <1>3, <1>4, <1>12, <2>1, <2>2, <2>3 DEF ThreadInv, Shapes, TypeOK
<1>14. LinkInv'
  <2>1. \A k \in hubConns \ greeted : up'[k] = <<Hello>>
    BY <1>1, <1>12, Now DEF ThreadInv, LinkInv
  <2>2. \A k \in greeted : up'[k] \in Seq(Said)
    BY <1>10, <1>12, Now
  <2> QED BY <1>1, <2>1, <2>2 DEF ThreadInv, LinkInv
<1>15. HostInv'
  BY <1>1, <1>2, <1>3, HostNow DEF HostInv
<1>16. OrderInv'
  <2>1. /\ applied <= emitted /\ applied \in Nat /\ emitted \in Nat
        /\ \A k \in Conns : InOrder(up[k]) /\ Between(up[k], -1, emitted) /\ up[k] \in Seq(Messages)
        /\ registered # 0 => Between(up[registered], applied, emitted)
    BY Now DEF ThreadInv, OrderInv
  <2>2. applied <= emitted'
    BY <1>4, <2>1
  <2>3. InOrder(<<>>) /\ Between(<<>>, applied, emitted') /\ \A t : Newer(<<>>, t)
    BY DEF InOrder, Between, Newer
  <2>4. ASSUME NEW k \in Conns PROVE InOrder(up'[k]) /\ Between(up'[k], -1, emitted')
    <3>1. CASE up'[k] = all
      BY <1>10, <3>1
    <3>2. CASE up'[k] = up[k]
      <4>1. InOrder(up[k]) /\ Between(up[k], -1, emitted) /\ up[k] \in Seq(Messages) /\ -1 \in Int
        BY <2>1
      <4>2. Between(up[k], -1, emitted')
        BY <1>4, <2>1, <4>1, Wider
      <4> QED BY <3>2, <4>1, <4>2
    <3> QED BY <1>12, <3>1, <3>2
  <2>5. ASSUME registered # 0 PROVE Between(up'[registered], applied, emitted')
    <3>1. registered \in Conns
      BY <2>5, Now
    <3>2. CASE up'[registered] = all
      BY <1>10, <3>2
    <3>3. CASE up'[registered] = up[registered]
      <4>1. Between(up[registered], applied, emitted) /\ up[registered] \in Seq(Messages)
        BY <2>1, <2>5, <3>1
      <4>2. Between(up[registered], applied, emitted')
        BY <1>4, <2>1, <4>1, Wider
      <4> QED BY <3>3, <4>2
    <3> QED BY <1>12, <3>1, <3>2, <3>3
  <2> QED BY <1>1, <2>2, <2>3, <2>4, <2>5 DEF OrderInv
<1>17. AbsentHostRunsNothing'
  BY <1>1 DEF ThreadInv, AbsentHostRunsNothing
<1>18. SeenInv'
  <2>1. \A r \in Rows : \E q \in Rows :
          Becomes(r, queue', q) /\ (turn' = 0 /\ queue' # <<>> => q.status \in Ended)
    BY <1>1, BecomesNothing
  <2>2. Mirrors(z)'
    BY <1>1, <1>2, <1>9, HostNow DEF Mirrors
  <2>3. registered = hostConn => up'[hostConn] = all
    BY <1>2, <1>12, Now DEF Conns
  <2> QED BY <1>1, <1>10, <2>1, <2>2, <2>3 DEF SeenInv
<1> QED BY <1>13, <1>14, <1>15, <1>16, <1>17, <1>18 DEF ThreadInv

-----------------------------------------------------------------------------
(* The hub's row.                                                          *)
LEMMA ReceivesIs ==
  ASSUME ThreadInv, NEW n \in Conns, HubReceives(n)
  PROVE  LET m == Head(up[n])
         IN  /\ n \in hubConns /\ n \in greeted /\ up[n] # <<>> /\ up' = [up EXCEPT ![n] = Tail(@)]
             /\ up[n] \in Seq(Said) /\ up[n] \in Seq(Messages) /\ m \in Said
             /\ registered # n => row' = row /\ applied' = applied
             /\ registered = n =>
                  /\ row' = Effect(row, m)
                  /\ applied' = IF m.type = "event" THEN m.n ELSE applied
             /\ UNCHANGED <<registered, hubConns, greeted, opened, hostConn, welcomed, queue, disk, copy,
                            turn, turns, pending, stopping, turnConn, emitted, wanted, crashes,
                            restarts>>
<1> DEFINE m == Head(up[n])
<1>1. /\ n \in hubConns /\ n \in greeted /\ up[n] # <<>> /\ up' = [up EXCEPT ![n] = Tail(@)]
      /\ UNCHANGED <<registered, hubConns, greeted, opened, hostConn, welcomed, queue, disk, copy,
                     turn, turns, pending, stopping, turnConn, emitted, wanted, crashes, restarts>>
  BY DEF HubReceives, turnVars, countVars
<1>2. up[n] \in Seq(Said) /\ up[n] \in Seq(Messages)
  BY <1>1, Now
<1>3. m \in Said /\ (m.type = "upsert" \/ m.type = "event")
  <2>1. m \in Said
    BY <1>1, <1>2
  <2> HIDE DEF m
  <2> QED BY <2>1, MessageKinds
<1>5. registered # n => row' = row /\ applied' = applied
  BY DEF HubReceives
<1>6. registered = n => /\ row' = Effect(row, m)
                        /\ applied' = IF m.type = "event" THEN m.n ELSE applied
  <2>1. m.type = "upsert" /\ registered = n => row' = Announced(row, m) /\ applied' = applied
    BY DEF HubReceives
  <2>2. m.type = "event" /\ registered = n => row' = Patched(row, m) /\ applied' = m.n
    BY DEF HubReceives
  <2> HIDE DEF m
  <2> QED BY <1>3, <2>1, <2>2 DEF Effect
<1> QED BY <1>1, <1>2, <1>3, <1>5, <1>6 DEF m

LEMMA ReceivesInv ==
  ASSUME ThreadInv, NEW n \in Conns, HubReceives(n)
  PROVE  ThreadInv' /\ (applied' # applied => applied' > applied)
<1> DEFINE m == Head(up[n])
           w == Tail(up[n])
<1>1. /\ n \in hubConns /\ n \in greeted /\ up[n] # <<>> /\ up' = [up EXCEPT ![n] = w]
      /\ up[n] \in Seq(Said) /\ up[n] \in Seq(Messages) /\ m \in Said
      /\ registered # n => row' = row /\ applied' = applied
      /\ registered = n =>
           /\ row' = Effect(row, m)
           /\ applied' = IF m.type = "event" THEN m.n ELSE applied
      /\ UNCHANGED <<registered, hubConns, greeted, opened, hostConn, welcomed, queue, disk, copy,
                     turn, turns, pending, stopping, turnConn, emitted, wanted, crashes, restarts>>
  BY ReceivesIs
<1>2. /\ applied <= emitted /\ InOrder(queue) /\ Between(queue, applied, emitted)
      /\ \A k \in Conns : InOrder(up[k]) /\ Between(up[k], -1, emitted) /\ Newer(queue, up[k])
      /\ registered # 0 => Between(up[registered], applied, emitted)
      /\ applied \in Nat /\ emitted \in Nat
  BY Now DEF ThreadInv, OrderInv
<1>3. /\ w \in Seq(Messages) /\ InOrder(w) /\ Between(w, -1, emitted) /\ Newer(queue, w)
  <2>1. InOrder(up[n]) /\ Between(up[n], -1, emitted) /\ Newer(queue, up[n]) /\ -1 \in Int
    BY <1>2
  <2> QED BY <1>1, <1>2, <2>1, Rest
<1>4. ASSUME registered = n
      PROVE  /\ applied' \in Nat /\ applied <= applied' /\ applied' <= emitted
             /\ Between(w, applied', emitted) /\ Between(queue, applied', emitted)
  <2>1. Between(up[n], applied, emitted) /\ InOrder(up[n]) /\ Newer(queue, up[n])
    BY <1>2, <1>4 DEF Conns
  <2>2. /\ Between(w, applied, emitted)
        /\ m.type = "event" =>
              /\ applied < m.n /\ m.n <= emitted /\ Between(w, m.n, emitted)
              /\ \A j \in 1 .. Len(queue) : queue[j].type = "event" => m.n < queue[j].n
    <3>1. applied \in Int
      BY <1>2
    <3> QED BY <1>1, <1>2, <2>1, <3>1, Rest
  <2>3. CASE m.type = "event"
    <3>1. m.n \in Nat /\ applied' = m.n
      BY <1>1, <1>4, <2>3, MessageKinds
    <3>2. Between(queue, m.n, emitted)
      BY <1>2, <2>2, <2>3 DEF Between
    <3> QED BY <1>2, <2>2, <2>3, <3>1, <3>2
  <2>4. CASE m.type # "event"
    BY <1>1, <1>2, <1>4, <2>2, <2>4
  <2> QED BY <2>3, <2>4
<1>5. w \in Seq(Said)
  BY <1>1
<1>6. registered = n => row' \in Rows
  BY <1>1, Now, EffectIsRow
<1>7. registered = n /\ (\E q \in Rows : Becomes(row, up[n], q) /\ Mirrors(q)) =>
        \E q \in Rows : Becomes(row', w, q) /\ Mirrors(q)
  BY <1>1, Now, BecomesRest
<1> HIDE DEF m, w
<1>8. up' \in [Conns -> Seq(Messages)] /\ up'[n] = w /\ \A k \in Conns : k # n => up'[k] = up[k]
  BY <1>1, <1>3, Now
<1>9. applied' # applied => applied' > applied
  BY <1>1, <1>2, <1>4
<1>10. Shapes'
  <2>1. \A k \in Conns : \A i \in DOMAIN up'[k] : up'[k][i] \in Messages
    BY <1>8
  <2>2. row' \in Rows /\ applied' \in Nat
    BY <1>1, <1>2, <1>4, <1>6, Now
  <2> QED BY <1>1, <1>8, <2>1, <2>2 DEF ThreadInv, Shapes, TypeOK, Rows
<1>11. LinkInv'
  <2>1. \A k \in hubConns \ greeted : up'[k] = <<Hello>>
    BY <1>1, <1>8, Now DEF ThreadInv, LinkInv
  <2>2. \A k \in greeted : up'[k] \in Seq(Said)
    BY <1>5, <1>8, Now
  <2>3. hostConn \in greeted /\ welcomed # hostConn => up'[hostConn] = <<>>
    BY <1>1, <1>8, Now DEF ThreadInv, LinkInv
  <2> QED BY <1>1, <2>1, <2>2, <2>3 DEF ThreadInv, LinkInv
<1>12. Ready' <=> Ready
  BY <1>1 DEF Ready
<1>13. HostInv'
  BY <1>1, <1>12, HostNow DEF HostInv
<1>14. OrderInv'
  <2>1. \A k \in Conns : InOrder(up'[k]) /\ Between(up'[k], -1, emitted) /\ Newer(queue, up'[k])
    BY <1>2, <1>3, <1>8
  <2>2. CASE registered = n
    BY <1>1, <1>2, <1>4, <1>8, <2>1, <2>2 DEF OrderInv
  <2>3. CASE registered # n
    <3>1. registered # 0 => Between(up'[registered], applied, emitted)
      BY <1>2, <1>8, <2>3, Now
    <3> QED BY <1>1, <1>2, <2>1, <2>3, <3>1 DEF OrderInv
  <2> QED BY <2>2, <2>3
<1>15. AbsentHostRunsNothing'
  BY <1>1 DEF ThreadInv, AbsentHostRunsNothing, Conns
<1>16. SeenInv'
  <2>1. ASSUME Ready, registered = hostConn
        PROVE  \E q \in Rows : Becomes(row', up'[hostConn], q) /\ Mirrors(q)
    <3>1. \E q \in Rows : Becomes(row, up[hostConn], q) /\ Mirrors(q)
      BY <2>1 DEF ThreadInv, SeenInv
    <3>2. CASE hostConn = n
      BY <1>7, <1>8, <2>1, <3>1, <3>2
    <3>3. CASE hostConn # n
      BY <1>1, <1>8, <2>1, <3>1, <3>3, Now
    <3> QED BY <3>2, <3>3
  <2>2. \A q \in Rows : Mirrors(q) => Mirrors(q)'
    BY <1>1 DEF Mirrors
  <2>3. \A r \in Rows : \E q \in Rows :
          Becomes(r, queue, q) /\ (turn = 0 /\ queue # <<>> => q.status \in Ended)
    BY DEF ThreadInv, SeenInv
  <2> QED BY <1>1, <1>12, <2>1, <2>2, <2>3 DEF SeenInv
<1> QED BY <1>9, <1>10, <1>11, <1>13, <1>14, <1>15, <1>16 DEF ThreadInv

LEMMA ClosesInv ==
  ASSUME ThreadInv, NEW n \in Conns, HubCloses(n)
  PROVE  ThreadInv'
<1>1. /\ n \in hubConns /\ up' = [up EXCEPT ![n] = <<>>] /\ hubConns' = hubConns \ {n}
      /\ \/ registered = n /\ registered' = 0 /\ row' = Marked(row)
         \/ registered # n /\ registered' = registered /\ row' = row
      /\ UNCHANGED <<applied, greeted, opened, hostConn, welcomed, queue, disk, copy, turn, turns,
                     pending, stopping, turnConn, emitted, wanted, crashes, restarts>>
  BY DEF HubCloses, turnVars, countVars
<1>2. up' \in [Conns -> Seq(Messages)] /\ up'[n] = <<>> /\ \A k \in Conns : k # n => up'[k] = up[k]
  BY <1>1, Now
<1>3. row' \in Rows /\ Marked(row).status # "active"
  BY <1>1, Now DEF Marked, Rows
<1>4. Ready' <=> Ready
  BY <1>1 DEF Ready
<1>5. Shapes'
  <2>1. \A k \in Conns : \A i \in DOMAIN up'[k] : up'[k][i] \in Messages
    BY <1>2
  <2> QED BY <1>1, <1>2, <1>3, <2>1 DEF ThreadInv, Shapes, TypeOK, Rows
<1>6. LinkInv'
  <2>1. \A k \in hubConns' \ greeted : up'[k] = <<Hello>>
    BY <1>1, <1>2, Now DEF ThreadInv, LinkInv
  <2>2. \A k \in greeted : up'[k] \in Seq(Said)
    <3>1. <<>> \in Seq(Said)
      OBVIOUS
    <3> QED BY <1>2, <3>1, Now
  <2>3. hostConn \in greeted /\ welcomed # hostConn => up'[hostConn] = <<>>
    BY <1>1, <1>2, Now DEF ThreadInv, LinkInv
  <2>4. registered' # 0 => registered' \in hubConns' \cap greeted
    BY <1>1, Now
  <2> QED BY <1>1, <2>1, <2>2, <2>3, <2>4 DEF ThreadInv, LinkInv
<1>7. HostInv'
  BY <1>1, <1>4, HostNow DEF HostInv
<1>8. OrderInv'
  <2>1. registered' \in {0} \cup Conns /\ (registered' # 0 => registered' = registered)
    BY <1>1, Now
  <2> QED BY <1>1, <1>2, <2>1, QuietOrder
<1>9. AbsentHostRunsNothing'
  BY <1>1, <1>3 DEF ThreadInv, AbsentHostRunsNothing
<1>10. SeenInv'
  <2>1. ASSUME Ready, registered' = hostConn
        PROVE  row' = row /\ up'[hostConn] = up[hostConn] /\ registered = hostConn
    BY <1>1, <1>2, <2>1, Now DEF Conns
  <2> QED BY <1>1, <1>4, <2>1 DEF ThreadInv, SeenInv, Mirrors
<1> QED BY <1>5, <1>6, <1>7, <1>8, <1>9, <1>10 DEF ThreadInv

LEMMA RestartsInv ==
  ASSUME ThreadInv, HubRestarts
  PROVE  ThreadInv'
<1>1. /\ restarts' = restarts + 1 /\ restarts' \in 0 .. MaxRestarts /\ restarts' # 0
      /\ registered' = 0 /\ hubConns' = {} /\ up' = [n \in Conns |-> <<>>]
      /\ UNCHANGED <<row, applied, greeted, opened, hostConn, welcomed, queue, disk, copy, turn, turns,
                     pending, stopping, turnConn, emitted, wanted, crashes>>
  BY DEF HubRestarts, turnVars, ThreadInv, Shapes, TypeOK
<1>2. up' \in [Conns -> Seq(Messages)] /\ \A k \in Conns : up'[k] = <<>>
  BY <1>1
<1>3. Ready' <=> Ready
  BY <1>1 DEF Ready
<1>4. Shapes'
  <2>1. \A k \in Conns : \A i \in DOMAIN up'[k] : up'[k][i] \in Messages
    BY <1>2
  <2> QED BY <1>1, <1>2, <2>1 DEF ThreadInv, Shapes, TypeOK
<1>5. LinkInv'
  <2>1. \A k \in greeted : up'[k] \in Seq(Said)
    BY <1>2, Now
  <2>2. hostConn \in greeted /\ welcomed # hostConn => up'[hostConn] = <<>>
    BY <1>2, Now
  <2> QED BY <1>1, <2>1, <2>2 DEF ThreadInv, LinkInv
<1>6. HostInv'
  BY <1>1, <1>3, HostNow DEF HostInv
<1>7. OrderInv'
  BY <1>1, <1>2, QuietOrder
<1>8. AbsentHostRunsNothing'
  BY <1>1 DEF AbsentHostRunsNothing
<1>9. SeenInv'
  <2>1. ~(Ready' /\ registered' = hostConn')
    BY <1>1 DEF Ready
  <2> QED BY <1>1, <2>1 DEF ThreadInv, SeenInv
<1> QED BY <1>4, <1>5, <1>6, <1>7, <1>8, <1>9 DEF ThreadInv

LEMMA CrashesInv ==
  ASSUME ThreadInv, HostCrashes
  PROVE  ThreadInv'
<1>1. /\ crashes' = crashes + 1 /\ crashes' \in 0 .. MaxCrashes
      /\ hostConn' = 0 /\ welcomed' = 0 /\ queue' = <<>> /\ copy' = NewRow /\ turn' = 0
      /\ pending' = FALSE /\ stopping' = FALSE /\ turnConn' = 0
      /\ UNCHANGED <<row, applied, registered, hubConns, greeted, up, opened, disk, turns, emitted,
                     wanted, restarts>>
  BY DEF HostCrashes, hubVars, ThreadInv, Shapes, TypeOK
<1>2. ~Ready'
  BY <1>1 DEF Ready
<1>3. Shapes'
  <2>1. NewRow \in HostRows /\ 0 \in 0 .. MaxTurns
    BY DEF NewRow, HostRows
  <2>2. queue' \in Seq(Events) /\ \A i \in DOMAIN queue' : queue'[i] \in Events
    BY <1>1
  <2> QED BY <1>1, <2>1, <2>2 DEF ThreadInv, Shapes, TypeOK
<1>4. LinkInv'
  <2>1. hostConn' \notin greeted
    BY <1>1, Now DEF Conns
  <2> QED BY <1>1, <2>1, Now DEF ThreadInv, LinkInv
<1>5. HostInv'
  BY <1>1, <1>2 DEF HostInv
<1>6. OrderInv'
  BY <1>1, Now, QuietOrder
<1>7. AbsentHostRunsNothing'
  BY <1>1 DEF ThreadInv, AbsentHostRunsNothing
<1>8. SeenInv'
  BY <1>1, <1>2, BecomesNothing DEF SeenInv
<1> QED BY <1>3, <1>4, <1>5, <1>6, <1>7, <1>8 DEF ThreadInv

-----------------------------------------------------------------------------
(* Every step keeps the invariant, and applies what is newer.              *)
LEMMA ThreadInvStep ==
  ThreadInv /\ [Next]_vars => ThreadInv' /\ [applied' # applied => applied' > applied]_vars
<1> SUFFICES ASSUME ThreadInv, [Next]_vars
             PROVE  ThreadInv' /\ (applied' # applied => applied' > applied)
  OBVIOUS
<1>1. CASE HostSteps
  <2>1. applied' = applied
    BY <1>1 DEF HostSteps, TurnStarts, TurnAsks, TurnIsAnswered, TurnIsStopped, TurnEnds, HelpAsked,
       HelpResolved, Speaking, hubVars
  <2> QED BY <1>1, <2>1, HostStepsInv
<1>2. CASE HostConnects \/ HostLosesLink \/ HostSeesClose \/ HostWelcome \/ HubRestarts \/ HostCrashes
  <2>1. applied' = applied
    BY <1>2 DEF HostConnects, HostLosesLink, HostSeesClose, HostWelcome, HubRestarts, HostCrashes,
       HostDrops, hubVars
  <2>2. ThreadInv'
    BY <1>2, ConnectsInv, HostDropsInv, WelcomeInv, RestartsInv, CrashesInv
       DEF HostLosesLink, HostSeesClose
  <2> QED BY <2>1, <2>2
<1>3. ASSUME NEW n \in Conns, HubHello(n) \/ HubReceives(n) \/ HubCloses(n)
      PROVE  ThreadInv' /\ (applied' # applied => applied' > applied)
  <2>1. CASE HubHello(n)
    <3>1. applied' = applied
      BY <2>1 DEF HubHello
    <3> QED BY <2>1, <3>1, HelloInv
  <2>2. CASE HubReceives(n)
    BY <2>2, ReceivesInv
  <2>3. CASE HubCloses(n)
    <3>1. applied' = applied
      BY <2>3 DEF HubCloses
    <3> QED BY <2>3, <3>1, ClosesInv
  <2> QED BY <1>3, <2>1, <2>2, <2>3
<1>4. CASE UNCHANGED vars
  <2>1. UNCHANGED <<row, applied, registered, hubConns, greeted, up, opened, hostConn, welcomed, queue,
                    disk, copy, turn, turns, pending, stopping, turnConn, emitted, wanted, crashes,
                    restarts>>
    BY <1>4 DEF vars, hubVars, linkVars, turnVars, countVars
  <2>2. Shapes' /\ AbsentHostRunsNothing'
    BY <2>1 DEF ThreadInv, Shapes, TypeOK, AbsentHostRunsNothing
  <2>3. LinkInv'
    BY <2>1 DEF ThreadInv, LinkInv
  <2>4. HostInv'
    BY <2>1 DEF ThreadInv, HostInv, Ready
  <2>5. OrderInv'
    BY <2>1 DEF ThreadInv, OrderInv
  <2>6. SeenInv'
    BY <2>1 DEF ThreadInv, SeenInv, Ready, Mirrors
  <2> QED BY <2>1, <2>2, <2>3, <2>4, <2>5, <2>6 DEF ThreadInv
<1> QED BY <1>1, <1>2, <1>3, <1>4 DEF Next

LEMMA ThreadInvInit == Init => ThreadInv
<1> SUFFICES ASSUME Init PROVE ThreadInv
  OBVIOUS
<1> USE DEF Init
<1>1. Shapes
  <2>1. NewRow \in HostRows
    BY DEF NewRow, HostRows
  <2>2. /\ row \in [status : {"idle", "active", "systemError", "unknown"},
                    flag : {"none", "waitingOnApproval", "stopping"},
                    turn : 0 .. MaxTurns, prompt : BOOLEAN]
        /\ up \in [Conns -> Seq(Messages)] /\ queue \in Seq(Events)
        /\ \A n \in Conns : \A i \in DOMAIN up[n] : up[n][i] \in Messages
        /\ \A i \in DOMAIN queue : queue[i] \in Events
    OBVIOUS
  <2>3. 0 \in 0 .. MaxTurns /\ 0 \in 0 .. MaxConns /\ 0 \in 0 .. MaxCrashes /\ 0 \in 0 .. MaxRestarts
    OBVIOUS
  <2> QED BY <2>1, <2>2, <2>3 DEF Shapes, TypeOK
<1>2. LinkInv
  BY DEF LinkInv
<1>3. HostInv
  BY DEF HostInv, Ready, NewRow
<1>4. OrderInv
  BY DEF OrderInv, InOrder, Between, Newer
<1>5. SeenInv
  BY BecomesNothing DEF SeenInv, Ready
<1>6. AbsentHostRunsNothing
  BY DEF AbsentHostRunsNothing
<1> QED BY <1>1, <1>2, <1>3, <1>4, <1>5, <1>6 DEF ThreadInv

LEMMA ThreadInvariant == Spec => []ThreadInv
  BY ThreadInvInit, ThreadInvStep, PTL DEF Spec

-----------------------------------------------------------------------------
(* Every variable of the hub's row, the wires, the host's row and the      *)
(* running turn's copy keeps its shape, through crashes and restarts.      *)
THEOREM TypeCorrect == Spec => []TypeOK
<1>1. ThreadInv => TypeOK
  BY DEF ThreadInv, Shapes
<1> QED BY <1>1, ThreadInvariant, PTL

(* The hub applies no event of a thread after a later one, or twice,       *)
(* however connections overlap and whatever the host buffers while it has  *)
(* no welcome.                                                             *)
THEOREM EventsInOrderHolds == Spec => EventsInOrder
  BY ThreadInvariant, ThreadInvStep, PTL DEF Spec, EventsInOrder

(* A host that is not registered has nothing the team sees as running:     *)
(* markRunningThreadsUnknown leaves no active row behind, and nothing of   *)
(* an old connection brings one back.                                      *)
THEOREM AbsentHostRunsNothingHolds == Spec => []AbsentHostRunsNothing
<1>1. ThreadInv => AbsentHostRunsNothing
  BY DEF ThreadInv
<1> QED BY <1>1, ThreadInvariant, PTL

LEMMA SettledMirrors == ThreadInv /\ Settled => Mirrors(row)
<1> SUFFICES ASSUME ThreadInv, Settled PROVE Mirrors(row)
  OBVIOUS
<1>1. PICK q \in Rows : Becomes(row, up[hostConn], q) /\ Mirrors(q)
  BY DEF Settled, ThreadInv, SeenInv
<1>2. up[hostConn] = <<>> /\ row \in Rows
  BY Now DEF Settled
<1>3. q = row
  BY <1>1, <1>2, BecomesNothing
<1> QED BY <1>1, <1>3

(* Once host and hub have nothing left to tell each other and no turn      *)
(* runs, the team sees the thread as over: what the host says when it is   *)
(* welcomed makes up for every event and row that was lost.                *)
THEOREM SettledThreadIsOverHolds == Spec => []SettledThreadIsOver
<1>1. ThreadInv => SettledThreadIsOver
  BY SettledMirrors DEF SettledThreadIsOver, Mirrors, Ended
<1> QED BY <1>1, ThreadInvariant, PTL

(* A turn of the present connection is seen as it is, under its own id,    *)
(* waiting just while its host waits: onAppend and onThreadUpsert together *)
(* never lag behind what was delivered.                                    *)
THEOREM MirrorFollowsTurnHolds == Spec => []MirrorFollowsTurn
<1>1. ThreadInv => MirrorFollowsTurn
  BY SettledMirrors DEF MirrorFollowsTurn, Mirrors
<1> QED BY <1>1, ThreadInvariant, PTL

=============================================================================
