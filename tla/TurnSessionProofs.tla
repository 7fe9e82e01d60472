-------------------------- MODULE TurnSessionProofs --------------------------
(***************************************************************************)
(* Proofs about TurnSession for all people, presets and bounds.            *)
(***************************************************************************)
EXTENDS TurnSession, TLAPS

USE PeopleAssumption, PresetsAssumption, BoundsAssumption

-----------------------------------------------------------------------------
(* The inductive invariant.  A running turn has a living process behind    *)
(* it, which has not ended.                                                *)
LiveInv ==
  /\ live => up /\ turns >= 1 /\ ended = "none" /\ delivered <= accepted
  /\ live <=> stage # "idle"
  /\ cancelled => live

(* The request a turn waits on is its last one, and nobody has settled it, *)
(* in memory, on disk or before teammates.  A turn that was released with  *)
(* an acceptance has it on disk, and has yet to act on it.                 *)
WaitInv ==
  /\ pending # 0 =>
       /\ stage = "waiting" /\ pending = Len(asks) /\ ~cancelled
       /\ settled[pending] = "none" /\ diskSettled[pending] = "none"
       /\ announced[pending] = {}
       /\ pending \in open /\ pending \in diskOpen
  /\ due => pending # 0
  /\ stage \in {"waiting", "released"} =>
       /\ asks # <<>> /\ asks[Len(asks)].turn = turns
       /\ \A m \in mutations : m.req # Len(asks)
  /\ stage = "released" /\ released = "accept" =>
       /\ diskSettled[Len(asks)] = "accept"
       /\ \E w \in winners : w.by \in Approvers /\ w.req = Len(asks) /\ w.decision = "accept"

(* What the session remembers goes beyond the disk only by cancellations   *)
(* whose write failed; what is open on disk is open or settled in memory.  *)
MemoryInv ==
  live =>
    /\ \A r \in Requests :
         settled[r] # diskSettled[r] => settled[r] = "cancel" /\ diskSettled[r] = "none"
    /\ \A r \in diskOpen : r \in open \/ settled[r] # "none"

(* Nothing is known of a request that was not made.                        *)
FreshInv ==
  \A r \in Requests : r > Len(asks) =>
    settled[r] = "none" /\ diskSettled[r] = "none" /\ announced[r] = {}

TurnInv ==
  /\ TypeOK /\ LiveInv /\ WaitInv /\ MemoryInv /\ FreshInv
  /\ NothingUnapproved /\ OneAnswerSettles

AskType == [turn : 1 .. MaxTurns, action : Actions]

-----------------------------------------------------------------------------
(* Requests by number.                                                     *)
LEMMA AskedAre ==
  ASSUME TurnInv
  PROVE  /\ asks \in Seq(AskType) /\ Len(asks) \in 0 .. MaxRequests /\ Asked \subseteq Requests
         /\ \A r \in Requests : diskSettled[r] # "none" => r \in 1 .. Len(asks)
         /\ \A m \in mutations : m.req # 0 =>
              m.req \in 1 .. Len(asks) /\ m.req \in Requests /\ diskSettled[m.req] = "accept"
         /\ \A w \in winners : w.req \in 1 .. Len(asks)
<1>1. asks \in Seq(AskType) /\ Len(asks) \in 0 .. MaxRequests
  BY DEF TurnInv, TypeOK, AskType
<1>2. Asked \subseteq Requests
  BY <1>1 DEF Asked, Requests
<1>3. \A r \in Requests : diskSettled[r] # "none" => r \in 1 .. Len(asks)
  BY <1>1 DEF TurnInv, FreshInv, Requests
<1>4. \A m \in mutations : m.req # 0 => m.req \in Requests
  BY DEF TurnInv, TypeOK, Requests
<1>5. \A w \in winners : w.req \in Requests /\ w.decision # "none"
  BY DEF TurnInv, TypeOK, Decisions
<1>6. \A m \in mutations : m.req # 0 =>
        m.req \in 1 .. Len(asks) /\ m.req \in Requests /\ diskSettled[m.req] = "accept"
  <2>1. \A m \in mutations : m.req # 0 => diskSettled[m.req] = "accept"
    BY DEF TurnInv, NothingUnapproved
  <2> QED BY <1>3, <1>4, <2>1
<1>7. \A w \in winners : w.req \in 1 .. Len(asks)
  <2>1. \A w \in winners : diskSettled[w.req] = w.decision
    BY DEF TurnInv, OneAnswerSettles
  <2> QED BY <1>3, <1>5, <2>1
<1> QED BY <1>1, <1>2, <1>3, <1>6, <1>7

(* The turn is over, and the disk holds what the session remembered, or    *)
(* what it held before: every way a turn ends, a crash included.           *)
LEMMA OverInv ==
  ASSUME TurnInv, Forget, up' \in {up, FALSE},
         ended' \in {"none", "completed", "interrupted", "failed"},
         \/ asks' = asks
         \/ Len(asks) < MaxRequests /\ \E a \in AskType : asks' = Append(asks, a),
         diskSettled' = diskSettled \/ (live /\ diskSettled' = settled),
         diskOpen' \subseteq Requests, abandoned' \subseteq Requests,
         UNCHANGED historyVars, reply' = NoReply,
         faults' \in 0 .. MaxFaults, crashes' \in 0 .. MaxCrashes
  PROVE  TurnInv'
<1> USE DEF Forget
<1>1. /\ Len(asks') >= Len(asks) /\ asks' \in Seq(AskType) /\ Len(asks') <= MaxRequests
      /\ \A i \in 1 .. Len(asks) : asks'[i] = asks[i]
  BY AskedAre
<1>2. TypeOK'
  <2>1. asks' \in Seq([turn : 1 .. MaxTurns, action : Actions]) /\ Len(asks') <= MaxRequests
    BY <1>1 DEF AskType
  <2>2. /\ settled' \in [Requests -> Receipts \cup {"none"}] /\ open' \subseteq Requests
        /\ diskSettled' \in [Requests -> Receipts \cup {"none"}]
    BY DEF TurnInv, TypeOK, Unsettled
  <2>3. /\ mutations' \subseteq [turn : 1 .. MaxTurns, action : Actions, req : 0 .. MaxRequests]
        /\ winners' \subseteq [by : People, req : Requests, decision : Decisions]
        /\ announced' \in [Requests -> SUBSET Receipts]
    BY DEF TurnInv, TypeOK, historyVars
  <2>5. up \in BOOLEAN /\ turns \in 0 .. MaxTurns
    BY DEF TurnInv, TypeOK
  <2>6. up' \in BOOLEAN /\ turns' \in 0 .. MaxTurns
    BY <2>5
  <2>4. /\ live' \in BOOLEAN /\ cancelled' \in BOOLEAN /\ due' \in BOOLEAN
        /\ preset' \in Presets \cup {"none"}
        /\ stage' \in {"idle", "stream", "calls", "waiting", "released"}
        /\ released' \in Decisions \cup {"none"}
    OBVIOUS
  <2>7. /\ rounds' \in 0 .. MaxRounds
        /\ accepted' \in 0 .. MaxSteers /\ delivered' \in 0 .. MaxSteers
        /\ pending' \in 0 .. MaxRequests
    OBVIOUS
  <2> HIDE DEF Forget
  <2> QED BY <2>1, <2>2, <2>3, <2>4, <2>6, <2>7 DEF TypeOK
<1>3. LiveInv' /\ WaitInv' /\ MemoryInv'
  BY DEF LiveInv, WaitInv, MemoryInv
<1>4. \A r \in Requests : diskSettled[r] # "none" => diskSettled'[r] = diskSettled[r]
  BY DEF TurnInv, MemoryInv
<1>5. FreshInv'
  <2>1. diskSettled \in [Requests -> Receipts \cup {"none"}] /\ announced' = announced
    BY DEF TurnInv, TypeOK, historyVars
  <2> QED BY <1>1, <2>1, AskedAre DEF TurnInv, FreshInv, Unsettled, Requests
<1>6. NothingUnapproved'
  <2>1. ASSUME NEW m \in mutations, m.req # 0
        PROVE  m.req \in Requests /\ diskSettled'[m.req] = "accept" /\ asks'[m.req] = asks[m.req]
    BY <1>1, <1>4, <2>1, AskedAre DEF TurnInv, NothingUnapproved, Asked
  <2> QED BY <2>1 DEF TurnInv, NothingUnapproved, historyVars
<1>7. OneAnswerSettles'
  <2>1. ASSUME NEW w \in winners PROVE diskSettled'[w.req] = diskSettled[w.req]
    BY <1>4 DEF TurnInv, OneAnswerSettles, TypeOK, Decisions
  <2> QED BY <2>1 DEF TurnInv, OneAnswerSettles, historyVars
<1> QED BY <1>2, <1>3, <1>5, <1>6, <1>7 DEF TurnInv

(* run returns, or its last write fails and the process dies.              *)
LEMMA FinishesInv ==
  ASSUME TurnInv, live, NEW status \in {"completed", "interrupted", "failed"},
         Finishes(status, open), Quiet, UNCHANGED <<asks, historyVars, crashes>>
  PROVE  TurnInv'
<1>1. open \subseteq Requests /\ diskOpen \subseteq Requests /\ abandoned \subseteq Requests
      /\ faults \in 0 .. MaxFaults /\ crashes \in 0 .. MaxCrashes
  BY DEF TurnInv, TypeOK
<1>2. reply' = NoReply
  BY DEF Quiet
<1>3. CASE ended' = status /\ Forget /\ diskSettled' = settled /\ diskOpen' = open
           /\ UNCHANGED <<up, abandoned, faults>>
  BY <1>1, <1>2, <1>3, OverInv
<1>4. CASE Fault /\ Dies
  <2>1. faults' \in 0 .. MaxFaults
    BY <1>1, <1>4 DEF Fault
  <2> QED BY <1>1, <1>2, <1>4, <2>1, OverInv DEF Dies, diskVars
<1> QED BY <1>3, <1>4 DEF Finishes

(* The pending request is closed with a receipt: stored, or a cancellation *)
(* that could not be.  An acceptance is an approver's.                     *)
LEMMA ClosesInv ==
  ASSUME TurnInv, pending # 0, NEW receipt \in Receipts, Closes(receipt),
         \/ diskSettled' = settled' /\ diskOpen' = open'
         \/ receipt = "cancel" /\ UNCHANGED <<diskSettled, diskOpen, winners>>,
         \/ winners' = winners /\ receipt # "accept"
         \/ \E p \in Approvers :
              /\ receipt \in Decisions
              /\ winners' = winners \cup {[by |-> p, req |-> pending, decision |-> receipt]},
         UNCHANGED <<up, live, turns, preset, rounds, ended, accepted, delivered, mutations, crashes>>,
         cancelled' \in BOOLEAN, faults' \in 0 .. MaxFaults,
         reply' \in {NoReply} \cup [req : Requests, code : Fates]
  PROVE  TurnInv'
<1> USE DEF Closes
<1>1. /\ pending \in Requests /\ pending = Len(asks) /\ live /\ stage = "waiting" /\ asks # <<>>
      /\ settled[pending] = "none" /\ diskSettled[pending] = "none" /\ announced[pending] = {}
      /\ asks[Len(asks)].turn = turns
  BY AskedAre DEF TurnInv, WaitInv, LiveInv, TypeOK, Requests
<1>2. /\ settled \in [Requests -> Receipts \cup {"none"}]
      /\ diskSettled \in [Requests -> Receipts \cup {"none"}]
      /\ announced \in [Requests -> SUBSET Receipts]
      /\ winners \subseteq [by : People, req : Requests, decision : Decisions]
  BY DEF TurnInv, TypeOK
<1>3. /\ settled' = [settled EXCEPT ![pending] = receipt] /\ settled'[pending] = receipt
      /\ \A r \in Requests : r # pending => settled'[r] = settled[r] /\ announced'[r] = announced[r]
      /\ announced'[pending] = {receipt}
      /\ settled' \in [Requests -> Receipts \cup {"none"}]
      /\ announced' \in [Requests -> SUBSET Receipts]
  BY <1>1, <1>2
<1>4. \A r \in Requests : r # pending /\ diskSettled'[r] # diskSettled[r] =>
        diskSettled[r] = "none" /\ diskSettled'[r] = "cancel"
  BY <1>1, <1>3 DEF TurnInv, MemoryInv
<1>5. \A w \in winners' :
        \/ w \in winners
        \/ /\ w.req = pending /\ w.decision = receipt /\ w.by \in Approvers
           /\ diskSettled'[pending] = receipt
  BY <1>1, <1>3
<1>6. winners \subseteq winners'
  OBVIOUS
<1>7. TypeOK'
  <2>1. winners' \subseteq [by : People, req : Requests, decision : Decisions]
    BY <1>1, <1>2
  <2>2. /\ open' \subseteq Requests /\ diskOpen' \subseteq Requests
        /\ diskSettled' \in [Requests -> Receipts \cup {"none"}]
    BY <1>2, <1>3 DEF TurnInv, TypeOK
  <2>3. DecisionOf(receipt) \in Decisions
    BY DEF DecisionOf, Receipts, Decisions
  <2>4. /\ open' \subseteq Requests /\ announced' \in [Requests -> SUBSET Receipts]
        /\ pending' = 0 /\ due' = FALSE /\ stage' = "released" /\ released' \in Decisions
    BY <1>3, <2>2, <2>3
  <2>5. /\ UNCHANGED asks /\ asks \in Seq([turn : 1 .. MaxTurns, action : Actions])
        /\ Len(asks) <= MaxRequests
    BY DEF TurnInv, TypeOK
  <2>6. /\ UNCHANGED <<abandoned, mutations>> /\ abandoned \subseteq Requests
        /\ mutations \subseteq [turn : 1 .. MaxTurns, action : Actions, req : 0 .. MaxRequests]
    BY DEF TurnInv, TypeOK
  <2>7. /\ up' \in BOOLEAN /\ live' \in BOOLEAN
        /\ turns' \in 0 .. MaxTurns /\ preset' \in Presets \cup {"none"}
        /\ rounds' \in 0 .. MaxRounds
        /\ ended' \in {"none", "completed", "interrupted", "failed"}
        /\ accepted' \in 0 .. MaxSteers /\ delivered' \in 0 .. MaxSteers
        /\ crashes' \in 0 .. MaxCrashes
    BY DEF TurnInv, TypeOK
  <2> HIDE DEF Closes
  <2>8. /\ cancelled' \in BOOLEAN /\ faults' \in 0 .. MaxFaults
        /\ reply' \in {NoReply} \cup [req : Requests, code : Fates]
        /\ pending' \in 0 .. MaxRequests /\ released' \in Decisions \cup {"none"}
        /\ stage' \in {"idle", "stream", "calls", "waiting", "released"}
    BY <2>4
  <2>9. asks' \in Seq([turn : 1 .. MaxTurns, action : Actions]) /\ Len(asks') <= MaxRequests
    BY <2>5
  <2> QED BY <1>3, <2>1, <2>2, <2>4, <2>6, <2>7, <2>8, <2>9 DEF TypeOK
<1>8. LiveInv'
  BY <1>1 DEF TurnInv, LiveInv
<1>9. WaitInv'
  <2>1. \A m \in mutations : m.req # Len(asks)
    BY <1>1 DEF TurnInv, WaitInv
  <2>2. receipt = "accept" => /\ diskSettled'[pending] = "accept"
                              /\ \E w \in winners' :
                                   w.by \in Approvers /\ w.req = pending /\ w.decision = "accept"
    <3>1. SUFFICES ASSUME receipt = "accept"
          PROVE  /\ diskSettled'[pending] = "accept"
                 /\ \E w \in winners' : w.by \in Approvers /\ w.req = pending /\ w.decision = "accept"
      OBVIOUS
    <3>2. PICK p \in Approvers :
            winners' = winners \cup {[by |-> p, req |-> pending, decision |-> receipt]}
      BY <3>1
    <3>3. [by |-> p, req |-> pending, decision |-> receipt] \in winners'
      BY <3>2
    <3> QED BY <1>3, <3>1, <3>3
  <2>3. released' = "accept" => receipt = "accept"
    BY DEF DecisionOf
  <2> QED BY <1>1, <2>1, <2>2, <2>3 DEF WaitInv
<1>10. MemoryInv'
  <2>1. ASSUME NEW r \in Requests, settled'[r] # diskSettled'[r]
        PROVE  settled'[r] = "cancel" /\ diskSettled'[r] = "none"
    BY <1>1, <1>3, <2>1 DEF TurnInv, MemoryInv
  <2>2. ASSUME NEW r \in diskOpen' PROVE r \in open' \/ settled'[r] # "none"
    BY <1>1, <1>3, <2>2 DEF TurnInv, MemoryInv, Receipts, Decisions, TypeOK
  <2> QED BY <2>1, <2>2 DEF MemoryInv
<1>11. FreshInv'
  BY <1>1, <1>3 DEF TurnInv, FreshInv, Requests
<1>12. NothingUnapproved'
  <2>1. ASSUME NEW m \in mutations, m.req # 0
        PROVE  m.req \in Requests /\ diskSettled'[m.req] = "accept"
    <3>1. m.req \in Requests /\ diskSettled[m.req] = "accept"
      BY <2>1, AskedAre
    <3> QED BY <1>1, <1>4, <3>1
  <2> QED BY <1>6, <2>1 DEF TurnInv, NothingUnapproved
<1>13. OneAnswerSettles'
  <2>1. \A w \in winners : w.req \in Requests /\ w.req # pending /\ diskSettled'[w.req] = w.decision
                           /\ announced'[w.req] = {w.decision}
    BY <1>1, <1>2, <1>3, <1>4 DEF TurnInv, OneAnswerSettles, Decisions
  <2>2. \A w \in winners' \ winners : \A v \in winners' \ winners : w = v
    OBVIOUS
  <2> QED BY <1>3, <1>5, <2>1, <2>2 DEF TurnInv, OneAnswerSettles
<1> QED BY <1>7, <1>8, <1>9, <1>10, <1>11, <1>12, <1>13 DEF TurnInv

(* What is remembered of requests, in memory, on disk and in the history,  *)
(* is left alone.                                                          *)
LEMMA UntouchedInv ==
  ASSUME TurnInv, UNCHANGED <<asks, settled, open, diskVars, historyVars>>
  PROVE  /\ (live' => live) => MemoryInv'
         /\ FreshInv' /\ NothingUnapproved' /\ OneAnswerSettles'
  BY DEF TurnInv, MemoryInv, FreshInv, NothingUnapproved, OneAnswerSettles, diskVars, historyVars

(* The shapes of what such a step leaves alone.                            *)
LEMMA UntouchedTypes ==
  ASSUME TurnInv, UNCHANGED <<asks, settled, open, diskVars, historyVars>>
  PROVE  /\ asks' \in Seq([turn : 1 .. MaxTurns, action : Actions]) /\ Len(asks') <= MaxRequests
         /\ settled' \in [Requests -> Receipts \cup {"none"}] /\ open' \subseteq Requests
         /\ diskSettled' \in [Requests -> Receipts \cup {"none"}]
         /\ diskOpen' \subseteq Requests /\ abandoned' \subseteq Requests
         /\ mutations' \subseteq [turn : 1 .. MaxTurns, action : Actions, req : 0 .. MaxRequests]
         /\ winners' \subseteq [by : People, req : Requests, decision : Decisions]
         /\ announced' \in [Requests -> SUBSET Receipts]
  BY DEF TurnInv, TypeOK, diskVars, historyVars

(* turnStart.                                                              *)
LEMMA StartsInv ==
  ASSUME TurnInv, NEW p \in Presets, TurnStarts(p)
  PROVE  TurnInv'
<1> USE DEF TurnStarts, Quiet
<1>1. /\ diskSettled \in [Requests -> Receipts \cup {"none"}] /\ diskOpen \subseteq Requests
      /\ abandoned \subseteq Requests /\ turns \in 0 .. MaxTurns /\ turns < MaxTurns
  BY DEF TurnInv, TypeOK
<1>2. TypeOK'
  <2>1. /\ settled' \in [Requests -> Receipts \cup {"none"}] /\ open' \subseteq Requests
        /\ diskSettled' \in [Requests -> Receipts \cup {"none"}] /\ diskOpen' \subseteq Requests
        /\ abandoned' \subseteq Requests /\ turns' \in 0 .. MaxTurns
    BY <1>1 DEF diskVars
  <2>2. /\ rounds' \in 0 .. MaxRounds /\ accepted' \in 0 .. MaxSteers
        /\ delivered' \in 0 .. MaxSteers /\ pending' \in 0 .. MaxRequests
    OBVIOUS
  <2>3. /\ asks' \in Seq([turn : 1 .. MaxTurns, action : Actions]) /\ Len(asks') <= MaxRequests
        /\ up' \in BOOLEAN /\ faults' \in 0 .. MaxFaults /\ crashes' \in 0 .. MaxCrashes
    BY DEF TurnInv, TypeOK
  <2>4. /\ mutations' \subseteq [turn : 1 .. MaxTurns, action : Actions, req : 0 .. MaxRequests]
        /\ winners' \subseteq [by : People, req : Requests, decision : Decisions]
        /\ announced' \in [Requests -> SUBSET Receipts]
    BY DEF TurnInv, TypeOK, historyVars
  <2> QED BY <2>1, <2>2, <2>3, <2>4 DEF TypeOK
<1>3. LiveInv'
  BY <1>1 DEF TurnInv, LiveInv
<1>4. WaitInv'
  BY DEF TurnInv, WaitInv
<1>5. MemoryInv'
  BY DEF MemoryInv, diskVars
<1>6. FreshInv'
  BY DEF TurnInv, FreshInv, diskVars, historyVars
<1>7. NothingUnapproved' /\ OneAnswerSettles'
  BY DEF TurnInv, NothingUnapproved, OneAnswerSettles, diskVars, historyVars
<1> QED BY <1>2, <1>3, <1>4, <1>5, <1>6, <1>7 DEF TurnInv

(* The turn moves on without asking: to another round, to its calls, or to *)
(* one more accepted steer.                                                *)
LEMMA MovesInv ==
  ASSUME TurnInv, live, Quiet,
         stage' \in {"stream", "calls"} \/ UNCHANGED stage,
         stage \in {"stream", "calls"} \/ UNCHANGED stage,
         rounds' \in 0 .. MaxRounds, accepted' \in 0 .. MaxSteers,
         delivered' \in 0 .. MaxSteers, delivered' <= accepted',
         UNCHANGED <<up, live, turns, preset, cancelled, ended, requestVars, diskVars,
                     historyVars, faults, crashes>>
  PROVE  TurnInv'
<1> USE DEF Quiet, requestVars
<1>1. /\ stage' \in {"idle", "stream", "calls", "waiting", "released"}
      /\ stage \in {"stream", "calls"} => pending = 0
      /\ stage' \in {"waiting", "released"} => stage' = stage
      /\ stage' # "idle" /\ stage # "idle"
  BY DEF TurnInv, TypeOK, LiveInv, WaitInv
<1>2. TypeOK'
  <2>1. /\ up' \in BOOLEAN /\ live' \in BOOLEAN /\ cancelled' \in BOOLEAN /\ due' \in BOOLEAN
        /\ turns' \in 0 .. MaxTurns /\ preset' \in Presets \cup {"none"}
        /\ ended' \in {"none", "completed", "interrupted", "failed"}
        /\ pending' \in 0 .. MaxRequests /\ released' \in Decisions \cup {"none"}
        /\ faults' \in 0 .. MaxFaults /\ crashes' \in 0 .. MaxCrashes
    BY DEF TurnInv, TypeOK
  <2> QED BY <1>1, <2>1, UntouchedTypes DEF TypeOK
<1>3. LiveInv'
  BY <1>1 DEF TurnInv, LiveInv
<1>4. WaitInv'
  BY <1>1 DEF TurnInv, WaitInv, diskVars, historyVars
<1> QED BY <1>2, <1>3, <1>4, UntouchedInv DEF TurnInv

LEMMA NextRoundInv ==
  ASSUME TurnInv, live, Quiet, stage \in {"stream", "calls"}, rounds < MaxRounds, NextRound,
         UNCHANGED <<historyVars, asks, crashes>>
  PROVE  TurnInv'
<1>1. rounds' \in 0 .. MaxRounds /\ delivered' \in 0 .. MaxSteers /\ accepted' \in 0 .. MaxSteers
      /\ delivered' <= accepted'
  BY DEF TurnInv, TypeOK, NextRound
<1> QED BY <1>1, MovesInv DEF NextRound

(* The model loop: what happens in a round, and how a round ends.          *)
LEMMA LoopInv ==
  ASSUME TurnInv, ProviderFails \/ StreamEnds \/ StreamCalls \/ CallsDone \/ Steered
  PROVE  TurnInv'
<1>1. CASE ProviderFails
  BY <1>1, FinishesInv DEF ProviderFails, Outcome
<1>2. CASE StreamEnds
  <2>1. Outcome("completed") \in {"completed", "interrupted", "failed"}
    BY DEF Outcome
  <2> QED BY <1>2, <2>1, FinishesInv, NextRoundInv DEF StreamEnds
<1>3. CASE StreamCalls
  <2>1. rounds' \in 0 .. MaxRounds /\ delivered' \in 0 .. MaxSteers /\ accepted' \in 0 .. MaxSteers
        /\ delivered' <= accepted'
    BY <1>3 DEF TurnInv, TypeOK, LiveInv, StreamCalls
  <2> QED BY <1>3, <2>1, MovesInv DEF StreamCalls
<1>4. CASE CallsDone
  <2>1. Outcome("completed") \in {"completed", "interrupted", "failed"}
    BY DEF Outcome
  <2>2. rounds # MaxRounds => rounds < MaxRounds
    BY DEF TurnInv, TypeOK
  <2> QED BY <1>4, <2>1, <2>2, FinishesInv, NextRoundInv DEF CallsDone
<1>5. CASE Steered
  <2>1. rounds' \in 0 .. MaxRounds /\ delivered' \in 0 .. MaxSteers /\ accepted' \in 0 .. MaxSteers
        /\ delivered' <= accepted'
    BY <1>5 DEF TurnInv, TypeOK, LiveInv, Steered
  <2> QED BY <1>5, <2>1, MovesInv DEF Steered
<1> QED BY <1>1, <1>2, <1>3, <1>4, <1>5

(* removePath and writeFile without an approval.                           *)
LEMMA AllowedInv ==
  ASSUME TurnInv, NEW action \in Actions, NEW collision \in BOOLEAN,
         ToolAllowed(action, collision)
  PROVE  TurnInv'
<1> USE DEF ToolAllowed, Quiet
<1>1. /\ turns \in 1 .. MaxTurns /\ stage = "calls" /\ pending = 0
      /\ mutations \subseteq [turn : 1 .. MaxTurns, action : Actions, req : 0 .. MaxRequests]
  BY DEF TurnInv, TypeOK, LiveInv, WaitInv
<1>2. mutations' \subseteq [turn : 1 .. MaxTurns, action : Actions, req : 0 .. MaxRequests]
  BY <1>1
<1>3. TypeOK'
  <2>1. /\ up' \in BOOLEAN /\ live' \in BOOLEAN /\ cancelled' \in BOOLEAN /\ due' \in BOOLEAN
        /\ turns' \in 0 .. MaxTurns /\ preset' \in Presets \cup {"none"}
        /\ stage' \in {"idle", "stream", "calls", "waiting", "released"}
        /\ rounds' \in 0 .. MaxRounds
        /\ ended' \in {"none", "completed", "interrupted", "failed"}
        /\ accepted' \in 0 .. MaxSteers /\ delivered' \in 0 .. MaxSteers
    BY DEF TurnInv, TypeOK, turnVars, requestVars
  <2>2. /\ asks' \in Seq([turn : 1 .. MaxTurns, action : Actions]) /\ Len(asks') <= MaxRequests
        /\ pending' \in 0 .. MaxRequests /\ released' \in Decisions \cup {"none"}
        /\ settled' \in [Requests -> Receipts \cup {"none"}] /\ open' \subseteq Requests
    BY DEF TurnInv, TypeOK, requestVars
  <2>3. /\ diskSettled' \in [Requests -> Receipts \cup {"none"}]
        /\ diskOpen' \subseteq Requests /\ abandoned' \subseteq Requests
        /\ winners' \subseteq [by : People, req : Requests, decision : Decisions]
        /\ announced' \in [Requests -> SUBSET Receipts]
        /\ faults' \in 0 .. MaxFaults /\ crashes' \in 0 .. MaxCrashes
    BY DEF TurnInv, TypeOK, diskVars
  <2> QED BY <1>2, <2>1, <2>2, <2>3 DEF TypeOK, requestVars
<1>4. LiveInv' /\ MemoryInv' /\ FreshInv' /\ OneAnswerSettles'
  BY DEF TurnInv, LiveInv, MemoryInv, FreshInv, OneAnswerSettles, turnVars, requestVars, diskVars
<1>5. WaitInv'
  BY <1>1 DEF TurnInv, WaitInv, turnVars, requestVars
<1>6. NothingUnapproved'
  BY DEF TurnInv, NothingUnapproved, requestVars, diskVars
<1> QED BY <1>3, <1>4, <1>5, <1>6 DEF TurnInv

(* requestApproval: recorded and awaited.                                  *)
LEMMA AwaitedInv ==
  ASSUME TurnInv, live, stage = "calls", ~cancelled, Len(asks) < MaxRequests, Quiet,
         NEW action \in Actions,
         asks' = Append(asks, [turn |-> turns, action |-> action]),
         stage' = "waiting", pending' = Len(asks) + 1, due' = FALSE,
         open' = open \cup {Len(asks) + 1}, diskOpen' = open \cup {Len(asks) + 1},
         diskSettled' = settled,
         UNCHANGED <<up, live, turns, preset, rounds, cancelled, ended, accepted,
                     delivered, released, settled, abandoned, faults, historyVars, crashes>>
  PROVE  TurnInv'
<1> USE DEF Quiet
<1>1. /\ turns \in 1 .. MaxTurns /\ Len(asks) \in Nat /\ asks \in Seq(AskType)
      /\ Len(asks) + 1 \in Requests /\ Len(asks) + 1 # 0
  BY AskedAre DEF TurnInv, TypeOK, LiveInv, Requests
<1>2. /\ asks' \in Seq(AskType) /\ Len(asks') = Len(asks) + 1
      /\ asks'[Len(asks) + 1] = [turn |-> turns, action |-> action]
      /\ \A i \in 1 .. Len(asks) : asks'[i] = asks[i]
  BY <1>1 DEF AskType
<1>3. /\ settled[Len(asks) + 1] = "none" /\ diskSettled[Len(asks) + 1] = "none"
      /\ announced[Len(asks) + 1] = {}
  BY <1>1 DEF TurnInv, FreshInv
<1>4. \A r \in Requests : diskSettled[r] # "none" => diskSettled'[r] = diskSettled[r]
  BY DEF TurnInv, MemoryInv
<1>5. TypeOK'
  <2>1. asks' \in Seq([turn : 1 .. MaxTurns, action : Actions]) /\ Len(asks') <= MaxRequests
    BY <1>1, <1>2 DEF AskType
  <2>2. /\ settled' \in [Requests -> Receipts \cup {"none"}] /\ open' \subseteq Requests
        /\ diskSettled' \in [Requests -> Receipts \cup {"none"}]
        /\ diskOpen' \subseteq Requests /\ abandoned' \subseteq Requests
    BY <1>1 DEF TurnInv, TypeOK
  <2>3. /\ mutations' \subseteq [turn : 1 .. MaxTurns, action : Actions, req : 0 .. MaxRequests]
        /\ winners' \subseteq [by : People, req : Requests, decision : Decisions]
        /\ announced' \in [Requests -> SUBSET Receipts]
    BY DEF TurnInv, TypeOK, historyVars
  <2>4. pending' \in 0 .. MaxRequests
    BY <1>1 DEF Requests
  <2>5. /\ up' \in BOOLEAN /\ live' \in BOOLEAN /\ cancelled' \in BOOLEAN
        /\ turns' \in 0 .. MaxTurns /\ preset' \in Presets \cup {"none"}
        /\ rounds' \in 0 .. MaxRounds
        /\ ended' \in {"none", "completed", "interrupted", "failed"}
        /\ accepted' \in 0 .. MaxSteers /\ delivered' \in 0 .. MaxSteers
        /\ released' \in Decisions \cup {"none"}
        /\ faults' \in 0 .. MaxFaults /\ crashes' \in 0 .. MaxCrashes
    BY DEF TurnInv, TypeOK
  <2> QED BY <2>1, <2>2, <2>3, <2>4, <2>5 DEF TypeOK
<1>6. LiveInv'
  BY DEF TurnInv, LiveInv
<1>7. WaitInv'
  <2>1. \A m \in mutations' : m.req # Len(asks')
    BY <1>1, <1>2, AskedAre DEF historyVars
  <2>2. asks' # <<>> /\ asks'[Len(asks')].turn = turns'
    BY <1>1, <1>2
  <2>3. settled'[pending'] = "none" /\ diskSettled'[pending'] = "none" /\ announced'[pending'] = {}
    BY <1>3 DEF historyVars
  <2> QED BY <1>2, <2>1, <2>2, <2>3 DEF WaitInv
<1>8. MemoryInv'
  BY DEF MemoryInv
<1>9. FreshInv'
  BY <1>1, <1>2 DEF TurnInv, FreshInv, historyVars, Requests
<1>10. NothingUnapproved'
  <2>1. ASSUME NEW m \in mutations, m.req # 0
        PROVE  m.req \in Requests /\ diskSettled'[m.req] = "accept" /\ asks'[m.req] = asks[m.req]
    BY <1>2, <1>4, <2>1, AskedAre
  <2> QED BY <2>1 DEF TurnInv, NothingUnapproved, historyVars
<1>11. OneAnswerSettles'
  <2>1. ASSUME NEW w \in winners PROVE diskSettled'[w.req] = diskSettled[w.req]
    BY <1>4 DEF TurnInv, OneAnswerSettles, TypeOK, Decisions
  <2> QED BY <2>1 DEF TurnInv, OneAnswerSettles, historyVars
<1> QED BY <1>5, <1>6, <1>7, <1>8, <1>9, <1>10, <1>11 DEF TurnInv

(* requestApproval, whether or not the request could be recorded.          *)
LEMMA AsksInv ==
  ASSUME TurnInv, NEW action \in Actions, NEW collision \in BOOLEAN, ToolAsks(action, collision)
  PROVE  TurnInv'
<1>1. /\ live /\ stage = "calls" /\ ~cancelled /\ Len(asks) < MaxRequests /\ Quiet
      /\ asks' = Append(asks, [turn |-> turns, action |-> action])
      /\ UNCHANGED <<historyVars, crashes>> /\ reply' = NoReply
  BY DEF ToolAsks, Quiet
<1>2. /\ [turn |-> turns, action |-> action] \in AskType /\ open \subseteq Requests
      /\ Len(asks) + 1 \in Requests /\ diskOpen \subseteq Requests /\ abandoned \subseteq Requests
      /\ faults \in 0 .. MaxFaults /\ crashes \in 0 .. MaxCrashes
  BY <1>1, AskedAre DEF TurnInv, TypeOK, LiveInv, AskType, Requests
<1>3. CASE /\ stage' = "waiting" /\ pending' = Len(asks) + 1 /\ due' = FALSE
           /\ open' = open \cup {Len(asks) + 1} /\ diskOpen' = open \cup {Len(asks) + 1}
           /\ diskSettled' = settled
           /\ UNCHANGED <<up, live, turns, preset, rounds, cancelled, ended, accepted,
                          delivered, released, settled, abandoned, faults>>
  BY <1>1, <1>3, AwaitedInv
<1>4. CASE /\ Fault /\ ended' = "failed" /\ Forget
           /\ diskSettled' = settled /\ diskOpen' = open \cup {Len(asks) + 1}
           /\ UNCHANGED <<up, abandoned>>
  <2>1. faults' \in 0 .. MaxFaults /\ crashes' \in 0 .. MaxCrashes
    BY <1>1, <1>2, <1>4 DEF Fault
  <2>2. diskOpen' \subseteq Requests /\ abandoned' \subseteq Requests
    BY <1>2, <1>4
  <2>3. \E a \in AskType : asks' = Append(asks, a)
    BY <1>1, <1>2
  <2> QED BY <1>1, <1>4, <2>1, <2>2, <2>3, OverInv
<1>5. CASE faults + 2 <= MaxFaults /\ faults' = faults + 2 /\ Dies
  <2>1. faults' \in 0 .. MaxFaults /\ crashes' \in 0 .. MaxCrashes
    BY <1>1, <1>2, <1>5
  <2>2. diskOpen' \subseteq Requests /\ abandoned' \subseteq Requests /\ diskSettled' = diskSettled
    BY <1>2, <1>5 DEF Dies, diskVars
  <2>3. \E a \in AskType : asks' = Append(asks, a)
    BY <1>1, <1>2
  <2>4. Forget /\ ended' = "none" /\ up' = FALSE
    BY <1>5 DEF Dies
  <2> QED BY <1>1, <2>1, <2>2, <2>3, <2>4, OverInv
<1> QED BY <1>3, <1>4, <1>5 DEF ToolAsks

(* The awaited decision arrives.                                           *)
LEMMA ResumesInv ==
  ASSUME TurnInv, ToolResumes
  PROVE  TurnInv'
<1> USE DEF ToolResumes, Quiet
<1>1. /\ turns \in 1 .. MaxTurns /\ stage = "released" /\ pending = 0 /\ ~due /\ live
      /\ asks # <<>> /\ Len(asks) \in 1 .. MaxRequests /\ asks[Len(asks)] \in AskType
      /\ asks[Len(asks)] = [turn |-> turns, action |-> asks[Len(asks)].action]
      /\ mutations \subseteq [turn : 1 .. MaxTurns, action : Actions, req : 0 .. MaxRequests]
  <2>1. /\ turns \in 1 .. MaxTurns /\ stage = "released" /\ pending = 0 /\ ~due /\ live
        /\ asks # <<>> /\ asks[Len(asks)].turn = turns
        /\ mutations \subseteq [turn : 1 .. MaxTurns, action : Actions, req : 0 .. MaxRequests]
    BY DEF TurnInv, TypeOK, LiveInv, WaitInv
  <2>2. Len(asks) \in 1 .. MaxRequests /\ asks[Len(asks)] \in AskType
    BY <2>1, AskedAre
  <2> QED BY <2>1, <2>2 DEF AskType
<1>2. mutations' \subseteq [turn : 1 .. MaxTurns, action : Actions, req : 0 .. MaxRequests]
  BY <1>1 DEF AskType
<1>3. TypeOK'
  <2>1. /\ up' \in BOOLEAN /\ live' \in BOOLEAN /\ cancelled' \in BOOLEAN /\ due' \in BOOLEAN
        /\ turns' \in 0 .. MaxTurns /\ preset' \in Presets \cup {"none"}
        /\ rounds' \in 0 .. MaxRounds
        /\ ended' \in {"none", "completed", "interrupted", "failed"}
        /\ accepted' \in 0 .. MaxSteers /\ delivered' \in 0 .. MaxSteers
    BY DEF TurnInv, TypeOK
  <2>2. /\ asks' \in Seq([turn : 1 .. MaxTurns, action : Actions]) /\ Len(asks') <= MaxRequests
        /\ pending' \in 0 .. MaxRequests
        /\ settled' \in [Requests -> Receipts \cup {"none"}] /\ open' \subseteq Requests
    BY DEF TurnInv, TypeOK
  <2>3. /\ diskSettled' \in [Requests -> Receipts \cup {"none"}]
        /\ diskOpen' \subseteq Requests /\ abandoned' \subseteq Requests
        /\ winners' \subseteq [by : People, req : Requests, decision : Decisions]
        /\ announced' \in [Requests -> SUBSET Receipts]
        /\ faults' \in 0 .. MaxFaults /\ crashes' \in 0 .. MaxCrashes
    BY DEF TurnInv, TypeOK, diskVars
  <2> QED BY <1>2, <2>1, <2>2, <2>3 DEF TypeOK
<1>4. LiveInv' /\ MemoryInv' /\ FreshInv' /\ OneAnswerSettles'
  BY <1>1 DEF TurnInv, LiveInv, MemoryInv, FreshInv, OneAnswerSettles, diskVars
<1>5. WaitInv'
  BY <1>1 DEF TurnInv, WaitInv, diskVars
<1>6. NothingUnapproved'
  <2>1. ASSUME NEW m \in mutations, m.req # 0
        PROVE  /\ diskSettled'[m.req] = "accept"
               /\ asks'[m.req] = [turn |-> m.turn, action |-> m.action]
               /\ \E w \in winners' : w.by \in Approvers /\ w.req = m.req /\ w.decision = "accept"
    BY <2>1 DEF TurnInv, NothingUnapproved, diskVars
  <2>2. CASE released = "accept" /\ ~cancelled
    <3>1. /\ diskSettled'[Len(asks)] = "accept"
          /\ \E w \in winners' : w.by \in Approvers /\ w.req = Len(asks) /\ w.decision = "accept"
      BY <1>1, <2>2 DEF TurnInv, WaitInv, diskVars
    <3>2. \A m \in mutations' : m \in mutations
            \/ m = [turn |-> turns, action |-> asks[Len(asks)].action, req |-> Len(asks)]
      BY <2>2
    <3> QED BY <1>1, <2>1, <3>1, <3>2 DEF NothingUnapproved
  <2>3. CASE ~(released = "accept" /\ ~cancelled)
    BY <2>1, <2>3 DEF NothingUnapproved
  <2> QED BY <2>2, <2>3
<1> QED BY <1>3, <1>4, <1>5, <1>6 DEF TurnInv

(* Settling the pending request, for one of the three reasons there are: a *)
(* person answered, it expired, or the turn was stopped.                   *)
LEMMA StoredInv ==
  ASSUME TurnInv, pending # 0, NEW receipt \in Receipts, Closes(receipt),
         diskSettled' = settled', diskOpen' = open', UNCHANGED faults,
         \/ winners' = winners /\ receipt # "accept"
         \/ \E p \in Approvers :
              /\ receipt \in Decisions
              /\ winners' = winners \cup {[by |-> p, req |-> pending, decision |-> receipt]},
         UNCHANGED <<up, live, turns, preset, rounds, ended, accepted, delivered, mutations, crashes>>,
         cancelled' \in BOOLEAN, reply' \in {NoReply} \cup [req : Requests, code : Fates]
  PROVE  TurnInv'
<1>1. faults \in 0 .. MaxFaults
  BY DEF TurnInv, TypeOK
<1> QED BY <1>1, ClosesInv

LEMMA UnstoredInv ==
  ASSUME TurnInv, pending # 0, Fault, Closes("cancel"), UNCHANGED <<diskSettled, diskOpen>>,
         UNCHANGED <<up, live, turns, preset, rounds, ended, accepted, delivered, mutations,
                     winners, crashes>>,
         cancelled' \in BOOLEAN, reply' \in {NoReply} \cup [req : Requests, code : Fates]
  PROVE  TurnInv'
<1>1. faults' \in 0 .. MaxFaults /\ "cancel" \in Receipts
  BY DEF Fault, Receipts, Decisions, TurnInv, TypeOK
<1> QED BY <1>1, ClosesInv

(* The process dies: it crashes, or a rejected write is nobody's.          *)
LEMMA DiesInv ==
  ASSUME TurnInv, Dies, Quiet, UNCHANGED <<asks, historyVars>>,
         faults' \in 0 .. MaxFaults, crashes' \in 0 .. MaxCrashes
  PROVE  TurnInv'
<1>1. Forget /\ ended' = "none" /\ up' = FALSE /\ UNCHANGED diskVars
  BY DEF Dies
<1>2. diskSettled' = diskSettled /\ diskOpen' \subseteq Requests /\ abandoned' \subseteq Requests
  BY <1>1 DEF TurnInv, TypeOK, diskVars
<1>3. reply' = NoReply
  BY DEF Quiet
<1> QED BY <1>1, <1>2, <1>3, OverInv

(* What a request that changes nothing, a stop without a prompt and the    *)
(* passing of time leave alone.                                            *)
LEMMA StandsInv ==
  ASSUME TurnInv,
         UNCHANGED <<up, live, turns, preset, stage, rounds, ended, accepted, delivered,
                     asks, pending, released, settled, open, diskVars, historyVars,
                     faults, crashes>>,
         due' \in BOOLEAN, due' => pending # 0,
         cancelled' = cancelled \/ (live /\ pending = 0 /\ cancelled' = TRUE),
         reply' \in {NoReply} \cup [req : Requests, code : Fates]
  PROVE  TurnInv'
<1>1. TypeOK'
  <2>1. /\ up' \in BOOLEAN /\ live' \in BOOLEAN /\ cancelled' \in BOOLEAN
        /\ turns' \in 0 .. MaxTurns /\ preset' \in Presets \cup {"none"}
        /\ stage' \in {"idle", "stream", "calls", "waiting", "released"}
        /\ rounds' \in 0 .. MaxRounds
        /\ ended' \in {"none", "completed", "interrupted", "failed"}
        /\ accepted' \in 0 .. MaxSteers /\ delivered' \in 0 .. MaxSteers
        /\ pending' \in 0 .. MaxRequests /\ released' \in Decisions \cup {"none"}
        /\ faults' \in 0 .. MaxFaults /\ crashes' \in 0 .. MaxCrashes
    BY DEF TurnInv, TypeOK
  <2> QED BY <2>1, UntouchedTypes DEF TypeOK
<1>2. LiveInv'
  BY DEF TurnInv, LiveInv
<1>3. WaitInv'
  BY DEF TurnInv, WaitInv, diskVars, historyVars
<1> QED BY <1>1, <1>2, <1>3, UntouchedInv DEF TurnInv

(* The timer, a stop, and the passing of time.                             *)
LEMMA TimerInv ==
  ASSUME TurnInv, TimePasses \/ Expires \/ Interrupted
  PROVE  TurnInv'
<1>1. /\ faults \in 0 .. MaxFaults /\ crashes \in 0 .. MaxCrashes /\ cancelled \in BOOLEAN
      /\ "expired" \in Receipts /\ "cancel" \in Receipts /\ (due => pending # 0)
      /\ due \in BOOLEAN
  BY DEF TurnInv, TypeOK, WaitInv, Receipts, Decisions
<1>2. CASE TimePasses
  BY <1>1, <1>2, StandsInv DEF TimePasses, turnVars, Quiet
<1>3. CASE Expires
  <2>1. CASE /\ Settles("expired", TRUE)
             /\ UNCHANGED <<up, live, turns, preset, rounds, cancelled, ended, accepted, delivered>>
    <3>1. /\ UNCHANGED <<up, live, turns, preset, rounds, ended, accepted, delivered, mutations,
                          crashes>>
          /\ winners' = winners /\ cancelled' \in BOOLEAN /\ reply' = NoReply /\ pending # 0
      BY <1>1, <1>3, <2>1 DEF Expires, Quiet
    <3> QED BY <1>1, <2>1, <3>1, StoredInv DEF Settles
  <2>2. CASE Fault /\ Dies /\ UNCHANGED <<asks, announced>>
    <3>1. faults' \in 0 .. MaxFaults
      BY <1>1, <2>2 DEF Fault
    <3> QED BY <1>1, <1>3, <2>2, <3>1, DiesInv DEF Expires, historyVars
  <2> QED BY <1>3, <2>1, <2>2 DEF Expires
<1>4. CASE Interrupted
  <2>1. CASE pending # 0
    <3>1. Settles("cancel", TRUE) \/ Settles("cancel", FALSE)
      BY <1>4, <2>1 DEF Interrupted
    <3>2. /\ UNCHANGED <<up, live, turns, preset, rounds, ended, accepted, delivered, mutations,
                          winners, crashes>>
          /\ winners' = winners /\ cancelled' \in BOOLEAN /\ reply' = NoReply
      BY <1>4 DEF Interrupted, Quiet
    <3> QED BY <1>1, <2>1, <3>1, <3>2, StoredInv, UnstoredInv DEF Settles
  <2>2. CASE pending = 0
    <3>1. /\ UNCHANGED <<up, live, turns, preset, stage, rounds, ended, accepted, delivered,
                          asks, pending, released, settled, open, diskVars, historyVars,
                          faults, crashes>>
          /\ due' = due /\ live /\ cancelled' = TRUE /\ reply' = NoReply
      BY <1>4, <2>2 DEF Interrupted, Unsettling, Quiet, requestVars, historyVars
    <3> QED BY <1>1, <2>2, <3>1, StandsInv
  <2> QED BY <2>1, <2>2
<1> QED BY <1>2, <1>3, <1>4

(* Every answer: refused before it reaches the session, late, refused by   *)
(* the session, or accepted.                                               *)
LEMMA AnswersInv ==
  ASSUME TurnInv, Answers
  PROVE  TurnInv'
<1>1. PICK p \in People, r \in Requests :
        \/ AnswerWithoutSession(p, r)
        \/ \E d \in Decisions \cup {"acceptForSession"},
              t \in 0 .. MaxTurns, a \in Actions \cup {"none"} :
             AnswerLate(p, r, d, t, a) \/ AnswerRefused(p, r, d, t, a)
               \/ AnswerSettles(p, r, d, t, a)
  BY DEF Answers
<1>2. \A code : Refused(r, code) => reply' \in {NoReply} \cup [req : Requests, code : Fates]
  BY DEF Refused
<1>3. /\ cancelled \in BOOLEAN /\ due \in BOOLEAN /\ (due => pending # 0)
      /\ Decisions \subseteq Receipts /\ "expired" \in Receipts
  BY DEF TurnInv, TypeOK, WaitInv, Receipts
<1>4. CASE AnswerWithoutSession(p, r)
  <2>1. /\ UNCHANGED <<up, live, turns, preset, stage, rounds, ended, accepted, delivered,
                        asks, pending, released, settled, open, diskVars, historyVars,
                        faults, crashes>>
        /\ due' = due /\ cancelled' = cancelled
    BY <1>4 DEF AnswerWithoutSession, turnVars, requestVars
  <2>2. reply' \in {NoReply} \cup [req : Requests, code : Fates]
    BY <1>2, <1>4 DEF AnswerWithoutSession
  <2> QED BY <1>3, <2>1, <2>2, StandsInv
<1>5. ASSUME NEW d \in Decisions \cup {"acceptForSession"},
             NEW t \in 0 .. MaxTurns, NEW a \in Actions \cup {"none"}
      PROVE  /\ AnswerLate(p, r, d, t, a) => TurnInv'
             /\ AnswerRefused(p, r, d, t, a) => TurnInv'
             /\ AnswerSettles(p, r, d, t, a) => TurnInv'
  <2>1. CASE AnswerLate(p, r, d, t, a)
    <3>1. Settles("expired", TRUE) \/ Settles("expired", FALSE)
      BY <2>1 DEF AnswerLate
    <3>2. reply' \in {NoReply} \cup [req : Requests, code : Fates]
      BY <1>2, <2>1 DEF AnswerLate
    <3>3. /\ UNCHANGED <<up, live, turns, preset, rounds, ended, accepted, delivered, mutations,
                          winners, crashes>>
          /\ winners' = winners /\ cancelled' = cancelled /\ due
      BY <2>1 DEF AnswerLate
    <3>4. cancelled' \in BOOLEAN /\ pending # 0
      BY <1>3, <3>3
    <3> QED BY <1>3, <3>1, <3>2, <3>3, <3>4, StoredInv, UnstoredInv DEF Settles
  <2>2. CASE AnswerRefused(p, r, d, t, a)
    <3>1. reply' \in {NoReply} \cup [req : Requests, code : Fates]
      BY <1>2, <2>2 DEF AnswerRefused
    <3>2. /\ UNCHANGED <<up, live, turns, preset, stage, rounds, ended, accepted, delivered,
                          asks, pending, released, settled, open, diskVars, historyVars,
                          faults, crashes>>
          /\ due' = due /\ cancelled' = cancelled
      BY <2>2 DEF AnswerRefused, turnVars, requestVars
    <3> QED BY <1>3, <3>1, <3>2, StandsInv
  <2>3. CASE AnswerSettles(p, r, d, t, a)
    <3>1. r = pending /\ pending # 0 /\ d \in Decisions /\ p \in Approvers
      BY <2>3 DEF AnswerSettles, ReachesSession, SessionCode, Requests
    <3>4. /\ UNCHANGED <<up, live, turns, preset, rounds, ended, accepted, delivered, mutations,
                          crashes>>
          /\ cancelled' = cancelled
      BY <2>3 DEF AnswerSettles
    <3>5. cancelled' \in BOOLEAN
      BY <1>3, <3>4
    <3>2. CASE /\ Settles(d, TRUE) /\ reply' = NoReply
               /\ winners' = winners \cup {[by |-> p, req |-> r, decision |-> d]}
      <4>1. \E q \in Approvers :
              /\ d \in Decisions
              /\ winners' = winners \cup {[by |-> q, req |-> pending, decision |-> d]}
        BY <3>1, <3>2
      <4> QED BY <1>3, <3>1, <3>2, <3>4, <3>5, <4>1, StoredInv DEF Settles
    <3>3. CASE Settles(d, FALSE) /\ Refused(r, "failed") /\ UNCHANGED winners
      BY <1>2, <1>3, <3>1, <3>3, <3>4, <3>5, UnstoredInv DEF Settles
    <3> QED BY <2>3, <3>2, <3>3 DEF AnswerSettles
  <2> QED BY <2>1, <2>2, <2>3
<1> QED BY <1>1, <1>4, <1>5

(* The process stops and comes back.                                       *)
LEMMA ProcessInv ==
  ASSUME TurnInv, HostCrashes \/ Welcomed
  PROVE  TurnInv'
<1>1. CASE HostCrashes
  <2>1. faults' \in 0 .. MaxFaults /\ crashes' \in 0 .. MaxCrashes
    BY <1>1 DEF TurnInv, TypeOK, HostCrashes
  <2> QED BY <1>1, <2>1, DiesInv DEF HostCrashes
<1>2. CASE Welcomed
  <2> USE <1>2 DEF Welcomed, Quiet
  <2>1. ~live
    BY DEF TurnInv, LiveInv, WaitInv
  <2>2. ~live /\ pending = 0 /\ stage = "idle"
    BY <2>1 DEF TurnInv, LiveInv, WaitInv, TypeOK
  <2>3. TypeOK'
    <3>1. abandoned' \subseteq Requests /\ diskOpen' \subseteq Requests /\ up' \in BOOLEAN
      BY DEF TurnInv, TypeOK
    <3>2. /\ live' \in BOOLEAN /\ cancelled' \in BOOLEAN
          /\ turns' \in 0 .. MaxTurns /\ preset' \in Presets \cup {"none"}
          /\ stage' \in {"idle", "stream", "calls", "waiting", "released"}
          /\ rounds' \in 0 .. MaxRounds
          /\ ended' \in {"none", "completed", "interrupted", "failed"}
          /\ accepted' \in 0 .. MaxSteers /\ delivered' \in 0 .. MaxSteers
      BY DEF TurnInv, TypeOK, turnVars
    <3>3. /\ asks' \in Seq([turn : 1 .. MaxTurns, action : Actions]) /\ Len(asks') <= MaxRequests
          /\ due' \in BOOLEAN
          /\ pending' \in 0 .. MaxRequests /\ released' \in Decisions \cup {"none"}
          /\ settled' \in [Requests -> Receipts \cup {"none"}] /\ open' \subseteq Requests
      BY DEF TurnInv, TypeOK, requestVars
    <3>4. /\ diskSettled' \in [Requests -> Receipts \cup {"none"}]
          /\ mutations' \subseteq [turn : 1 .. MaxTurns, action : Actions, req : 0 .. MaxRequests]
          /\ winners' \subseteq [by : People, req : Requests, decision : Decisions]
          /\ announced' \in [Requests -> SUBSET Receipts]
          /\ faults' \in 0 .. MaxFaults /\ crashes' \in 0 .. MaxCrashes
      BY DEF TurnInv, TypeOK, historyVars
    <3> QED BY <3>1, <3>2, <3>3, <3>4 DEF TypeOK
  <2>4. LiveInv' /\ MemoryInv'
    BY <2>2 DEF TurnInv, LiveInv, MemoryInv, turnVars
  <2>5. WaitInv'
    BY <2>2 DEF TurnInv, WaitInv, turnVars, requestVars, historyVars
  <2>6. FreshInv' /\ NothingUnapproved' /\ OneAnswerSettles'
    BY DEF TurnInv, FreshInv, NothingUnapproved, OneAnswerSettles, requestVars, historyVars
  <2> QED BY <2>3, <2>4, <2>5, <2>6 DEF TurnInv
<1> QED BY <1>1, <1>2

-----------------------------------------------------------------------------
(* The invariant holds at first and every step keeps it.                   *)
LEMMA TurnInvStep == TurnInv /\ [Next]_vars => TurnInv'
<1>1. SUFFICES ASSUME TurnInv, [Next]_vars PROVE TurnInv'
  OBVIOUS
<1>2. CASE UNCHANGED vars
  BY <1>1, <1>2 DEF vars, turnVars, requestVars, diskVars, historyVars, TurnInv, TypeOK, LiveInv,
     WaitInv, MemoryInv, FreshInv, NothingUnapproved, OneAnswerSettles
<1>3. CASE \E p \in Presets : TurnStarts(p)
  BY <1>1, <1>3, StartsInv
<1>4. CASE \E action \in Actions, collision \in BOOLEAN :
             ToolAllowed(action, collision) \/ ToolAsks(action, collision)
  BY <1>1, <1>4, AllowedInv, AsksInv
<1>5. CASE Loop \/ Steered
  BY <1>1, <1>5, LoopInv, ResumesInv DEF Loop
<1>6. CASE TimePasses \/ Expires \/ Interrupted
  BY <1>1, <1>6, TimerInv
<1>7. CASE HostCrashes \/ Welcomed
  BY <1>1, <1>7, ProcessInv
<1>8. CASE Answers
  BY <1>1, <1>8, AnswersInv
<1> QED BY <1>1, <1>2, <1>3, <1>4, <1>5, <1>6, <1>7, <1>8 DEF Next, Others

LEMMA TurnInvariant == Spec => []TurnInv
<1>1. Init => TurnInv
  <2> SUFFICES ASSUME Init PROVE TurnInv
    OBVIOUS
  <2> USE DEF Init
  <2>1. TypeOK
    <3>1. /\ asks \in Seq([turn : 1 .. MaxTurns, action : Actions]) /\ Len(asks) = 0
      OBVIOUS
    <3>2. /\ settled \in [Requests -> Receipts \cup {"none"}]
          /\ diskSettled \in [Requests -> Receipts \cup {"none"}]
          /\ announced \in [Requests -> SUBSET Receipts]
      BY DEF Unsettled
    <3>3. /\ turns \in 0 .. MaxTurns /\ rounds \in 0 .. MaxRounds
          /\ accepted \in 0 .. MaxSteers /\ delivered \in 0 .. MaxSteers
          /\ pending \in 0 .. MaxRequests /\ Len(asks) <= MaxRequests
          /\ faults \in 0 .. MaxFaults /\ crashes \in 0 .. MaxCrashes
      BY <3>1
    <3> QED BY <3>1, <3>2, <3>3 DEF TypeOK
  <2>2. LiveInv /\ WaitInv /\ MemoryInv /\ FreshInv /\ NothingUnapproved /\ OneAnswerSettles
    BY DEF LiveInv, WaitInv, MemoryInv, FreshInv, NothingUnapproved, OneAnswerSettles, Unsettled
  <2> QED BY <2>1, <2>2 DEF TurnInv
<1> QED BY <1>1, TurnInvStep, PTL DEF Spec

-----------------------------------------------------------------------------
(* What the runs check of every turn, for all people, presets and bounds.  *)

(* Every variable of the session, the thread object and its row on disk    *)
(* keeps its shape.                                                        *)
THEOREM TypeCorrect == Spec => []TypeOK
  BY TurnInvariant, PTL DEF TurnInv

(* A change that needed an approval was accepted by an approver, for that  *)
(* action in that turn, and the receipt is on disk, whatever fails or      *)
(* stops in between.                                                       *)
THEOREM NothingUnapprovedHolds == Spec => []NothingUnapproved
  BY TurnInvariant, PTL DEF TurnInv

(* Two people answering at once: one answer settles a request              *)
(* (settleApproval), and it is what the disk has and what everybody else   *)
(* is told.                                                                *)
THEOREM OneAnswerSettlesHolds == Spec => []OneAnswerSettles
  BY TurnInvariant, PTL DEF TurnInv

(* A prompt that may be answered is the one the running turn waits on, and *)
(* it is on record as open.                                                *)
THEOREM OpenMeansWaitingHolds == Spec => []OpenMeansWaiting
<1>1. TurnInv => OpenMeansWaiting
  BY DEF TurnInv, TypeOK, LiveInv, WaitInv, OpenMeansWaiting
<1> QED BY <1>1, TurnInvariant, PTL

(* No step of a turn that was told to stop changes the workspace, the      *)
(* action of an accepted approval included.                                *)
THEOREM NoWorkAfterStopHolds == Spec => NoWorkAfterStop
<1>1. ASSUME cancelled, [Next]_vars PROVE mutations' = mutations
  <2>1. CASE \E p \in Presets : TurnStarts(p)
    BY <2>1 DEF TurnStarts, historyVars
  <2>2. CASE \E action \in Actions, collision \in BOOLEAN :
               ToolAllowed(action, collision) \/ ToolAsks(action, collision)
    BY <1>1, <2>2 DEF ToolAllowed, ToolAsks
  <2>3. CASE Loop
    BY <1>1, <2>3 DEF Loop, ProviderFails, StreamEnds, StreamCalls, CallsDone, ToolResumes, historyVars
  <2>4. CASE TimePasses \/ Expires \/ Interrupted \/ Steered \/ HostCrashes \/ Welcomed
    BY <2>4 DEF TimePasses, Expires, Interrupted, Steered, HostCrashes, Welcomed, historyVars
  <2>5. CASE Answers
    <3>1. PICK p \in People, r \in Requests :
            \/ AnswerWithoutSession(p, r)
            \/ \E d \in Decisions \cup {"acceptForSession"},
                  t \in 0 .. MaxTurns, a \in Actions \cup {"none"} :
                 AnswerLate(p, r, d, t, a) \/ AnswerRefused(p, r, d, t, a)
                   \/ AnswerSettles(p, r, d, t, a)
      BY <2>5 DEF Answers
    <3>2. AnswerWithoutSession(p, r) => mutations' = mutations
      BY DEF AnswerWithoutSession, historyVars
    <3>3. ASSUME NEW d, NEW t, NEW a
          PROVE  AnswerLate(p, r, d, t, a) \/ AnswerRefused(p, r, d, t, a)
                   \/ AnswerSettles(p, r, d, t, a)
                   => mutations' = mutations
      BY DEF AnswerLate, AnswerRefused, AnswerSettles, historyVars
    <3> QED BY <3>1, <3>2, <3>3
  <2>6. CASE UNCHANGED vars
    BY <2>6 DEF vars, historyVars
  <2> QED BY <1>1, <2>1, <2>2, <2>3, <2>4, <2>5, <2>6 DEF Next, Others
<1>2. [Next]_vars => [cancelled => mutations' = mutations]_vars
  BY <1>1
<1> QED BY <1>2, PTL DEF Spec, NoWorkAfterStop

-----------------------------------------------------------------------------
(* How a step treats the record of requests: the turn is over, a request   *)
(* is settled or recorded, abandoned requests are noted, or nothing.       *)
LEMMA RecordSteps ==
  ASSUME TurnInv, [Next]_vars
  PROVE  \/ diskSettled' = diskSettled /\ diskOpen \cup abandoned \subseteq diskOpen' \cup abandoned'
         \/ /\ live /\ diskSettled' = settled /\ abandoned' = abandoned
            /\ open \subseteq diskOpen'
         \/ /\ pending # 0 /\ live /\ abandoned' = abandoned
            /\ \E receipt \in Receipts : diskSettled' = [settled EXCEPT ![pending] = receipt]
            /\ diskOpen' = open \ {pending}
<1>1. CASE UNCHANGED vars
  BY <1>1 DEF vars, diskVars
<1>2. CASE \E p \in Presets : TurnStarts(p)
  BY <1>2 DEF TurnStarts, diskVars
<1>3. CASE \E action \in Actions, collision \in BOOLEAN : ToolAllowed(action, collision)
  BY <1>3 DEF ToolAllowed, diskVars
<1>4. CASE \E action \in Actions, collision \in BOOLEAN : ToolAsks(action, collision)
  BY <1>4 DEF ToolAsks, Dies, diskVars
<1>5. \A status : Finishes(status, open) /\ live =>
        \/ diskSettled' = diskSettled /\ diskOpen \cup abandoned \subseteq diskOpen' \cup abandoned'
        \/ /\ live /\ diskSettled' = settled /\ abandoned' = abandoned
           /\ open \subseteq diskOpen'
  BY DEF Finishes, Dies, diskVars
<1>6. CASE Loop \/ Steered
  BY <1>5, <1>6 DEF Loop, ProviderFails, StreamEnds, StreamCalls, CallsDone, ToolResumes, NextRound,
     Steered, diskVars
<1>7. \A receipt \in Receipts : pending # 0 /\ (Settles(receipt, TRUE) \/ Settles(receipt, FALSE)) =>
        \/ diskSettled' = diskSettled /\ diskOpen \cup abandoned \subseteq diskOpen' \cup abandoned'
        \/ /\ pending # 0 /\ live /\ abandoned' = abandoned
           /\ diskSettled' = [settled EXCEPT ![pending] = receipt]
           /\ diskOpen' = open \ {pending}
  BY DEF Settles, Closes, TurnInv, WaitInv, LiveInv
<1>8. Decisions \subseteq Receipts /\ "cancel" \in Receipts /\ "expired" \in Receipts
  BY DEF Receipts, Decisions
<1>9. CASE TimePasses \/ Expires \/ Interrupted
  BY <1>7, <1>8, <1>9 DEF TimePasses, Expires, Interrupted, Dies, Unsettling, diskVars
<1>10. CASE Answers
  <2>1. PICK p \in People, r \in Requests :
          \/ AnswerWithoutSession(p, r)
          \/ \E d \in Decisions \cup {"acceptForSession"},
                t \in 0 .. MaxTurns, a \in Actions \cup {"none"} :
               AnswerLate(p, r, d, t, a) \/ AnswerRefused(p, r, d, t, a)
                 \/ AnswerSettles(p, r, d, t, a)
    BY <1>10 DEF Answers
  <2>2. CASE AnswerWithoutSession(p, r)
    BY <2>2 DEF AnswerWithoutSession, diskVars
  <2>3. ASSUME NEW d \in Decisions \cup {"acceptForSession"},
               NEW t \in 0 .. MaxTurns, NEW a \in Actions \cup {"none"}
        PROVE  /\ AnswerLate(p, r, d, t, a) =>
                    pending # 0 /\ (Settles("expired", TRUE) \/ Settles("expired", FALSE))
               /\ AnswerRefused(p, r, d, t, a) => UNCHANGED diskVars
               /\ AnswerSettles(p, r, d, t, a) =>
                    d \in Decisions /\ pending # 0 /\ (Settles(d, TRUE) \/ Settles(d, FALSE))
    <3>1. AnswerLate(p, r, d, t, a) =>
            pending # 0 /\ (Settles("expired", TRUE) \/ Settles("expired", FALSE))
      BY DEF AnswerLate, TurnInv, WaitInv
    <3>2. AnswerRefused(p, r, d, t, a) => UNCHANGED diskVars
      BY DEF AnswerRefused
    <3>3. AnswerSettles(p, r, d, t, a) => Settles(d, TRUE) \/ Settles(d, FALSE)
      BY DEF AnswerSettles
    <3>4. AnswerSettles(p, r, d, t, a) => d \in Decisions /\ pending # 0
      BY DEF AnswerSettles, SessionCode, Requests
    <3> QED BY <3>1, <3>2, <3>3, <3>4
  <2> QED BY <1>7, <1>8, <2>1, <2>2, <2>3 DEF diskVars
<1>11. CASE HostCrashes \/ Welcomed
  BY <1>11 DEF HostCrashes, Dies, Welcomed, diskVars
<1> QED BY <1>1, <1>2, <1>3, <1>4, <1>6, <1>9, <1>10, <1>11 DEF Next, Others

(* What the disk has on record is not forgotten by a failing write, a      *)
(* crash or reconcileAfterRestart: a receipt stays the receipt, and what   *)
(* was open gets one or is known to be abandoned.                          *)
THEOREM NothingForgottenHolds == Spec => NothingForgotten
<1> DEFINE Kept == /\ OnRecord \subseteq OnRecord'
                   /\ \A r \in Requests : diskSettled[r] # "none" => diskSettled'[r] = diskSettled[r]
<1>1. ASSUME TurnInv, [Next]_vars PROVE Kept
  <2>1. CASE diskSettled' = diskSettled /\ diskOpen \cup abandoned \subseteq diskOpen' \cup abandoned'
    BY <2>1 DEF OnRecord
  <2>2. CASE live /\ diskSettled' = settled /\ abandoned' = abandoned /\ open \subseteq diskOpen'
    <3>1. \A r \in Requests : diskSettled[r] # "none" => diskSettled'[r] = diskSettled[r]
      BY <1>1, <2>2 DEF TurnInv, MemoryInv
    <3>2. \A r \in diskOpen : r \in Requests /\ (r \in diskOpen' \/ diskSettled'[r] # "none")
      BY <1>1, <2>2 DEF TurnInv, MemoryInv, TypeOK
    <3> QED BY <2>2, <3>1, <3>2 DEF OnRecord
  <2>3. ASSUME pending # 0, live, abandoned' = abandoned, diskOpen' = open \ {pending},
               NEW receipt \in Receipts, diskSettled' = [settled EXCEPT ![pending] = receipt]
        PROVE  Kept
    <3>1. /\ pending \in Requests /\ diskSettled[pending] = "none" /\ receipt # "none"
          /\ settled \in [Requests -> Receipts \cup {"none"}] /\ diskOpen \subseteq Requests
      BY <1>1, <2>3 DEF TurnInv, TypeOK, WaitInv, Requests, Receipts, Decisions
    <3>2. /\ diskSettled'[pending] = receipt
          /\ \A r \in Requests : r # pending => diskSettled'[r] = settled[r]
      BY <2>3, <3>1
    <3>3. \A r \in Requests : diskSettled[r] # "none" => diskSettled'[r] = diskSettled[r]
      BY <1>1, <2>3, <3>1, <3>2 DEF TurnInv, MemoryInv
    <3>4. \A r \in diskOpen : r \in Requests /\ (r \in diskOpen' \/ diskSettled'[r] # "none")
      BY <1>1, <2>3, <3>1, <3>2 DEF TurnInv, MemoryInv
    <3> QED BY <2>3, <3>3, <3>4 DEF OnRecord
  <2> QED BY <1>1, <2>1, <2>2, <2>3, RecordSteps
<1>2. TurnInv /\ [Next]_vars => [Kept]_vars
  BY <1>1
<1> QED BY <1>2, TurnInvariant, PTL DEF Spec, NothingForgotten

(* A turn is called completed only when everything the host accepted as a  *)
(* steer was handed to the model, or its model calls are used up.          *)
THEOREM CompletedMeansHeardHolds == Spec => CompletedMeansHeard
<1> DEFINE Heard == live /\ ended' = "completed" /\ rounds < MaxRounds => delivered = accepted
<1>1. ASSUME TurnInv, [Next]_vars, live, ended' = "completed", rounds < MaxRounds
      PROVE  delivered = accepted
  <2>1. ended = "none" /\ delivered <= accepted /\ delivered \in Nat /\ accepted \in Nat
        /\ rounds \in Nat
    BY <1>1 DEF TurnInv, LiveInv, TypeOK
  <2>2. ASSUME NEW status, Finishes(Outcome(status), open) PROVE ~cancelled /\ status = "completed"
    BY <1>1, <2>2 DEF Finishes, Outcome, Dies
  <2>3. ~NextRound
    BY <1>1, <2>1 DEF NextRound
  <2>4. CASE StreamEnds
    BY <1>1, <2>1, <2>2, <2>3, <2>4 DEF StreamEnds
  <2>5. CASE CallsDone
    BY <1>1, <2>1, <2>2, <2>3, <2>5 DEF CallsDone
  <2>6. CASE ProviderFails
    BY <2>2, <2>6 DEF ProviderFails
  <2>7. CASE UNCHANGED ended
    BY <1>1, <2>1, <2>7
  <2>8. CASE ended' \in {"none", "failed"}
    BY <1>1, <2>8
  <2>9. (\E p \in Presets : TurnStarts(p)) \/ HostCrashes \/ Expires
          => ended' = "none" \/ UNCHANGED ended
    BY DEF TurnStarts, HostCrashes, Expires, Dies
  <2>10. (\E action \in Actions, collision \in BOOLEAN :
            ToolAllowed(action, collision) \/ ToolAsks(action, collision))
          => ended' \in {"none", "failed"} \/ UNCHANGED ended
    BY DEF ToolAllowed, ToolAsks, Dies, turnVars
  <2>11. StreamCalls \/ ToolResumes \/ TimePasses \/ Interrupted \/ Steered \/ Welcomed
           \/ UNCHANGED vars => UNCHANGED ended
    BY DEF StreamCalls, ToolResumes, TimePasses, Interrupted, Steered, Welcomed, vars, turnVars
  <2>12. Answers => UNCHANGED ended
    <3>1. ASSUME NEW p, NEW r, NEW d, NEW t, NEW a
          PROVE  AnswerLate(p, r, d, t, a) \/ AnswerRefused(p, r, d, t, a)
                   \/ AnswerSettles(p, r, d, t, a)
                   \/ AnswerWithoutSession(p, r) => UNCHANGED ended
      BY DEF AnswerLate, AnswerRefused, AnswerSettles, AnswerWithoutSession, turnVars
    <3> QED BY <3>1 DEF Answers
  <2> QED
    BY <1>1, <2>4, <2>5, <2>6, <2>7, <2>8, <2>9, <2>10, <2>11, <2>12 DEF Next, Others, Loop
<1>2. TurnInv /\ [Next]_vars => [Heard]_vars
  BY <1>1
<1> QED BY <1>2, TurnInvariant, PTL DEF Spec, CompletedMeansHeard

-----------------------------------------------------------------------------
(* The refinement.  The phase of a request follows four facts about it.    *)
Worked(r) == \E m \in mutations : m.req = r
Cleared(r) == diskSettled[r] = "accept"

LEMMA PhaseIs ==
  ASSUME NEW r \in Requests
  PROVE  Phase(r) = IF r \notin 1 .. Len(asks) THEN "none"
                    ELSE IF Worked(r) THEN "done"
                    ELSE IF Cleared(r) THEN "accepted"
                    ELSE IF pending = r THEN "open" ELSE "refused"
  BY DEF Phase, Asked, Worked, Cleared

LEMMA PhaseIsNext ==
  ASSUME NEW r \in Requests
  PROVE  Phase(r)' = IF r \notin 1 .. Len(asks') THEN "none"
                     ELSE IF Worked(r)' THEN "done"
                     ELSE IF Cleared(r)' THEN "accepted"
                     ELSE IF pending' = r THEN "open" ELSE "refused"
  BY DEF Phase, Asked, Worked, Cleared

(* One request takes one step of the contract.                             *)
LEMMA BecomesAs ==
  ASSUME NEW r \in Requests, NEW from, NEW to, Phase(r) \in from, Phase(r)' = to,
         \A q \in Requests : q # r => Phase(q)' = Phase(q)
  PROVE  Contract!Becomes(r, from, to)
<1> DEFINE P == [q \in Requests |-> Phase(q)]
<1>1. P' = [P EXCEPT ![r] = to]
  OBVIOUS
<1>2. P[r] \in from
  OBVIOUS
<1> QED BY <1>1, <1>2 DEF Contract!Becomes

(* The pending request is open, and every other one keeps its phase as     *)
(* long as nothing else is asked, done or accepted.                        *)
LEMMA PendingIsOpen ==
  ASSUME TurnInv, pending # 0
  PROVE  /\ pending \in Requests /\ pending \in 1 .. Len(asks) /\ pending = Len(asks)
         /\ ~Worked(pending) /\ ~Cleared(pending) /\ Phase(pending) = "open"
         /\ live /\ stage = "waiting"
<1>1. /\ pending \in Requests /\ pending = Len(asks) /\ stage = "waiting" /\ live
      /\ diskSettled[pending] = "none" /\ \A m \in mutations : m.req # Len(asks)
  BY DEF TurnInv, TypeOK, WaitInv, LiveInv, Requests
<1>2. pending \in 1 .. Len(asks)
  BY <1>1, AskedAre DEF Requests
<1> QED BY <1>1, <1>2, PhaseIs DEF Worked, Cleared

LEMMA PendingCloses ==
  ASSUME TurnInv, UNCHANGED <<asks, mutations>>, pending' \in {0, pending},
         \A r \in Requests : r # pending => (Cleared(r)' <=> Cleared(r)),
         \/ pending = 0 \/ pending' = 0
         \/ Cleared(pending)' <=> Cleared(pending)
  PROVE  \/ \A r \in Requests : Phase(r)' = Phase(r)
         \/ pending # 0 /\ Contract!Accept(pending)
         \/ pending # 0 /\ Contract!Refuse(pending)
<1>1. \A r \in Requests : r # pending => Phase(r)' = Phase(r)
  BY PhaseIs, PhaseIsNext DEF Worked
<1>2. CASE pending = 0
  BY <1>1, <1>2 DEF Requests
<1>3. CASE pending # 0 /\ pending' = pending
  BY <1>1, <1>3, PendingIsOpen, PhaseIs, PhaseIsNext DEF Worked, Requests, TurnInv, TypeOK
<1>4. CASE pending # 0 /\ pending' = 0
  <2>1. PICK p \in Requests : p = pending
    BY <1>4, PendingIsOpen
  <2>2. Phase(p) = "open" /\ p \in 1 .. Len(asks) /\ ~Worked(p)
    BY <1>4, <2>1, PendingIsOpen
  <2>3. Phase(p)' = IF Cleared(p)' THEN "accepted" ELSE "refused"
    BY <1>4, <2>1, <2>2, PhaseIsNext DEF Worked, Requests
  <2>4. CASE Cleared(p)'
    BY <1>1, <1>4, <2>1, <2>2, <2>3, <2>4, BecomesAs DEF Contract!Accept
  <2>5. CASE ~Cleared(p)'
    BY <1>1, <1>4, <2>1, <2>2, <2>3, <2>5, BecomesAs DEF Contract!Refuse
  <2> QED BY <2>4, <2>5
<1> QED BY <1>2, <1>3, <1>4

(* A step that neither settles an open request nor asks, and changes no    *)
(* receipt, is no step of the contract.                                    *)
LEMMA OverKeepsPhase ==
  ASSUME TurnInv, live, UNCHANGED <<asks, mutations>>, pending' = 0,
         diskSettled' \in {diskSettled, settled}
  PROVE  [Contract!Next]_([r \in Requests |-> Phase(r)])
<1>1. \A r \in Requests : Cleared(r)' <=> Cleared(r)
  BY DEF Cleared, TurnInv, MemoryInv
<1>2. CASE \A r \in Requests : Phase(r)' = Phase(r)
  BY <1>2
<1>3. CASE pending # 0 /\ (Contract!Accept(pending) \/ Contract!Refuse(pending))
  BY <1>3, PendingIsOpen DEF Contract!Next
<1> QED BY <1>1, <1>2, <1>3, PendingCloses

(* A request is closed with a receipt, stored or not.                      *)
LEMMA ClosesPhase ==
  ASSUME TurnInv, pending # 0, NEW receipt \in Receipts, Closes(receipt), UNCHANGED mutations,
         diskSettled' \in {diskSettled, settled'}
  PROVE  [Contract!Next]_([r \in Requests |-> Phase(r)])
<1>1. settled \in [Requests -> Receipts \cup {"none"}]
  BY DEF TurnInv, TypeOK
<1>2. \A r \in Requests : r # pending => settled'[r] = settled[r]
  BY <1>1 DEF Closes
<1>3. \A r \in Requests : r # pending => (Cleared(r)' <=> Cleared(r))
  BY <1>2, PendingIsOpen DEF Cleared, TurnInv, MemoryInv
<1>4. UNCHANGED <<asks, mutations>> /\ pending' = 0
  BY DEF Closes
<1>5. CASE \A r \in Requests : Phase(r)' = Phase(r)
  BY <1>5
<1>6. CASE Contract!Accept(pending) \/ Contract!Refuse(pending)
  BY <1>6, PendingIsOpen DEF Contract!Next
<1> QED BY <1>3, <1>4, <1>5, <1>6, PendingCloses

(* A request is made: it waits, or is lost as it is asked.                 *)
LEMMA AsksPhase ==
  ASSUME TurnInv, NEW action \in Actions, NEW collision \in BOOLEAN,
         ToolAsks(action, collision)
  PROVE  [Contract!Next]_([r \in Requests |-> Phase(r)])
<1>1. /\ live /\ pending = 0 /\ Len(asks) < MaxRequests /\ Len(asks) \in Nat
      /\ asks' = Append(asks, [turn |-> turns, action |-> action]) /\ mutations' = mutations
      /\ asks \in Seq(AskType) /\ [turn |-> turns, action |-> action] \in AskType
  BY AskedAre DEF ToolAsks, TurnInv, TypeOK, LiveInv, WaitInv, historyVars, AskType
<1>2. Len(asks') = Len(asks) + 1 /\ Len(asks) + 1 \in Requests
  BY <1>1 DEF Requests
<1>3. \A r \in Requests : Cleared(r)' <=> Cleared(r)
  <2>1. diskSettled' = settled \/ diskSettled' = diskSettled
    BY DEF ToolAsks, Dies, diskVars
  <2> QED BY <1>1, <2>1 DEF Cleared, TurnInv, MemoryInv
<1>4. \A r \in Requests : Worked(r)' <=> Worked(r)
  BY <1>1 DEF Worked
<1>5. PICK n \in Requests : n = Len(asks) + 1
  BY <1>2
<1>6. pending' \in {0, n}
  BY <1>5 DEF ToolAsks, Dies, Forget
<1>7. \A r \in Requests : r # n => Phase(r)' = Phase(r)
  BY <1>1, <1>2, <1>3, <1>4, <1>5, <1>6, PhaseIs, PhaseIsNext DEF Requests
<1>8. ~Worked(n) /\ ~Cleared(n) /\ Phase(n) = "none"
  <2>1. n \notin 1 .. Len(asks)
    BY <1>1, <1>5
  <2> QED BY <1>5, <2>1, AskedAre, PhaseIs DEF Worked, Cleared, Requests
<1>9. Phase(n)' = IF pending' = n THEN "open" ELSE "refused"
  <2>1. n \in 1 .. Len(asks')
    BY <1>1, <1>2, <1>5
  <2> QED BY <1>3, <1>4, <1>8, <2>1, PhaseIsNext
<1>10. CASE pending' = n
  BY <1>7, <1>8, <1>9, <1>10, BecomesAs DEF Contract!Next, Contract!Ask
<1>11. CASE pending' # n
  BY <1>7, <1>8, <1>9, <1>11, BecomesAs DEF Contract!Next, Contract!Refuse
<1> QED BY <1>10, <1>11

(* The tool resumes with the answer: it does what it asked for, or not.    *)
LEMMA ResumesPhase ==
  ASSUME TurnInv, ToolResumes
  PROVE  [Contract!Next]_([r \in Requests |-> Phase(r)])
<1> USE DEF ToolResumes
<1>1. /\ UNCHANGED <<asks, pending, diskSettled>> /\ pending = 0 /\ asks # <<>>
      /\ \A m \in mutations : m.req # Len(asks)
  BY DEF TurnInv, WaitInv, diskVars
<1>2. \A r \in Requests : Cleared(r)' <=> Cleared(r)
  BY <1>1 DEF Cleared
<1>3. PICK n \in Requests : n = Len(asks) /\ n \in 1 .. Len(asks)
  BY <1>1, AskedAre DEF Requests
<1>4. CASE mutations' = mutations
  <2>1. \A r \in Requests : Phase(r)' = Phase(r)
    BY <1>1, <1>2, <1>4, PhaseIs, PhaseIsNext DEF Worked
  <2> QED BY <2>1
<1>5. CASE /\ released = "accept"
           /\ mutations' = mutations \cup {[turn |-> turns, action |-> asks[Len(asks)].action,
                                            req |-> Len(asks)]}
  <2>1. Cleared(n) /\ ~Worked(n) /\ Phase(n) = "accepted"
    BY <1>1, <1>3, <1>5, PhaseIs DEF TurnInv, WaitInv, Cleared, Worked
  <2>2. Worked(n)' /\ \A r \in Requests : r # n => (Worked(r)' <=> Worked(r))
    <3> DEFINE new == [turn |-> turns, action |-> asks[Len(asks)].action, req |-> Len(asks)]
    <3>1. new.req = n /\ mutations' = mutations \cup {new}
      BY <1>3, <1>5
    <3> HIDE DEF new
    <3>2. new \in mutations' /\ \A m \in mutations' : m \in mutations \/ m = new
      BY <3>1
    <3>3. \A r \in Requests : r # n => (Worked(r)' <=> Worked(r))
      BY <3>1, <3>2 DEF Worked
    <3> QED BY <3>1, <3>2, <3>3 DEF Worked
  <2>3. Phase(n)' = "done" /\ \A r \in Requests : r # n => Phase(r)' = Phase(r)
    BY <1>1, <1>2, <1>3, <2>2, PhaseIs, PhaseIsNext
  <2> QED BY <2>1, <2>3, BecomesAs DEF Contract!Next, Contract!Do
<1> QED BY <1>4, <1>5

(* Every step of a turn is one of the contract, or none.                   *)
LEMMA ContractStep ==
  ASSUME TurnInv, [Next]_vars
  PROVE  [Contract!Next]_([r \in Requests |-> Phase(r)])
<1>1. CASE UNCHANGED <<asks, pending, diskSettled>> /\ \A r \in Requests : Worked(r)' <=> Worked(r)
  <2>1. \A r \in Requests : Phase(r)' = Phase(r)
    BY <1>1, PhaseIs, PhaseIsNext DEF Cleared
  <2> QED BY <2>1
<1>2. CASE UNCHANGED <<asks, pending, diskSettled, mutations>>
  BY <1>1, <1>2 DEF Worked
<1>3. CASE UNCHANGED vars
  BY <1>2, <1>3 DEF vars, requestVars, diskVars, historyVars
<1>4. CASE \E p \in Presets : TurnStarts(p)
  <2>1. pending = 0
    BY <1>4 DEF TurnStarts, TurnInv, LiveInv, WaitInv
  <2> QED BY <1>2, <1>4, <2>1 DEF TurnStarts, diskVars, historyVars
<1>5. CASE \E action \in Actions, collision \in BOOLEAN : ToolAllowed(action, collision)
  <2>1. \A r \in Requests : Worked(r)' <=> Worked(r)
    BY <1>5 DEF ToolAllowed, Worked, Requests
  <2> QED BY <1>1, <1>5, <2>1 DEF ToolAllowed, requestVars, diskVars
<1>6. CASE \E action \in Actions, collision \in BOOLEAN : ToolAsks(action, collision)
  BY <1>6, AsksPhase
<1>7. ASSUME live, UNCHANGED <<asks, historyVars>>, NEW status, Finishes(status, open)
      PROVE  [Contract!Next]_([r \in Requests |-> Phase(r)])
  BY <1>7, OverKeepsPhase DEF Finishes, Dies, Forget, diskVars, historyVars
<1>8. CASE Loop \/ Steered
  <2>1. CASE ToolResumes
    BY <2>1, ResumesPhase
  <2>2. CASE StreamCalls \/ Steered \/ (NextRound /\ UNCHANGED historyVars)
    BY <1>2, <2>2 DEF StreamCalls, Steered, NextRound, requestVars, diskVars, historyVars
  <2>3. CASE ProviderFails \/ StreamEnds \/ CallsDone
    BY <1>7, <2>2, <2>3 DEF ProviderFails, StreamEnds, CallsDone
  <2> QED BY <1>8, <2>1, <2>2, <2>3 DEF Loop
<1>9. ASSUME pending # 0, NEW receipt \in Receipts, UNCHANGED mutations,
             Settles(receipt, TRUE) \/ Settles(receipt, FALSE)
      PROVE  [Contract!Next]_([r \in Requests |-> Phase(r)])
  <2>1. "cancel" \in Receipts
    BY DEF Receipts, Decisions
  <2> QED BY <1>9, <2>1, ClosesPhase DEF Settles
<1>10. CASE Dies /\ UNCHANGED <<asks, mutations>>
  <2>1. CASE live
    BY <1>10, <2>1, OverKeepsPhase DEF Dies, Forget, diskVars
  <2>2. CASE ~live
    <3>1. pending = 0
      BY <2>2 DEF TurnInv, LiveInv, WaitInv
    <3> QED BY <1>2, <1>10, <3>1 DEF Dies, Forget, diskVars
  <2> QED BY <2>1, <2>2
<1>11. Decisions \subseteq Receipts /\ "cancel" \in Receipts /\ "expired" \in Receipts
  BY DEF Receipts, Decisions
<1>12. CASE TimePasses \/ Expires \/ Interrupted
  <2>1. CASE TimePasses
    BY <1>2, <2>1 DEF TimePasses, diskVars, historyVars
  <2>2. CASE Expires
    BY <1>9, <1>10, <1>11, <2>2 DEF Expires
  <2>3. CASE Interrupted
    BY <1>2, <1>9, <1>11, <2>3 DEF Interrupted, Unsettling, requestVars, diskVars
  <2> QED BY <1>12, <2>1, <2>2, <2>3
<1>13. CASE Answers
  <2>1. PICK p \in People, r \in Requests :
          \/ AnswerWithoutSession(p, r)
          \/ \E d \in Decisions \cup {"acceptForSession"},
                t \in 0 .. MaxTurns, a \in Actions \cup {"none"} :
               AnswerLate(p, r, d, t, a) \/ AnswerRefused(p, r, d, t, a)
                 \/ AnswerSettles(p, r, d, t, a)
    BY <1>13 DEF Answers
  <2>2. CASE AnswerWithoutSession(p, r)
    BY <1>2, <2>2 DEF AnswerWithoutSession, requestVars, diskVars, historyVars
  <2>3. ASSUME NEW d \in Decisions \cup {"acceptForSession"},
               NEW t \in 0 .. MaxTurns, NEW a \in Actions \cup {"none"}
        PROVE  AnswerLate(p, r, d, t, a) \/ AnswerRefused(p, r, d, t, a)
                 \/ AnswerSettles(p, r, d, t, a)
                 => [Contract!Next]_([q \in Requests |-> Phase(q)])
    <3>1. CASE AnswerLate(p, r, d, t, a)
      <4>1. /\ pending # 0 /\ UNCHANGED mutations
            /\ Settles("expired", TRUE) \/ Settles("expired", FALSE)
        BY <3>1 DEF AnswerLate, TurnInv, WaitInv
      <4> QED BY <1>9, <1>11, <4>1
    <3>2. CASE AnswerRefused(p, r, d, t, a)
      BY <1>2, <3>2 DEF AnswerRefused, requestVars, diskVars, historyVars
    <3>3. CASE AnswerSettles(p, r, d, t, a)
      <4>1. UNCHANGED mutations /\ (Settles(d, TRUE) \/ Settles(d, FALSE))
        BY <3>3 DEF AnswerSettles
      <4>2. d \in Receipts /\ pending # 0
        BY <1>11, <3>3 DEF AnswerSettles, SessionCode, Requests
      <4> QED BY <1>9, <4>1, <4>2
    <3> QED BY <3>1, <3>2, <3>3
  <2> QED BY <2>1, <2>2, <2>3
<1>14. CASE HostCrashes
  BY <1>10, <1>14 DEF HostCrashes, historyVars
<1>15. CASE Welcomed
  BY <1>2, <1>15 DEF Welcomed, requestVars, historyVars
<1> QED
  BY <1>3, <1>4, <1>5, <1>6, <1>8, <1>12, <1>13, <1>14, <1>15 DEF Next, Others

(* Turns, receipts, failing writes and crashes together take only the      *)
(* steps ApprovalContract allows: a request is closed once, and its action *)
(* is carried out only after it was accepted.                              *)
THEOREM ContractKept == Spec => Contract!Spec
<1>1. Init => Contract!Init
  BY PhaseIs DEF Init, Contract!Init
<1>2. TurnInv /\ [Next]_vars => [Contract!Next]_([r \in Requests |-> Phase(r)])
  BY ContractStep
<1> QED BY <1>1, <1>2, TurnInvariant, PTL DEF Spec, Contract!Spec
=============================================================================
