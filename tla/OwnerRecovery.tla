---------------------------- MODULE OwnerRecovery ----------------------------
(***************************************************************************)
(* The owner's recovery kit in a browser (apps/web/encrypted.js with       *)
(* packages/e2ee/owner-recovery-kit.mjs and enrollment.mjs): a kit is made,*)
(* tried and announced in the signed chain; later a new key store is staged*)
(* from it, published, entered in the chain under a fresh epoch, and made  *)
(* the one this browser uses.                                              *)
(*                                                                         *)
(* Every request may go unanswered, every write may fail and the page may  *)
(* be loaded anew between any two steps, while other devices of the owner  *)
(* write to the chain.  The chain is its length, the kit it names and the  *)
(* last recovery.  Store 0 is the one the browser began with.              *)
(***************************************************************************)
EXTENDS Integers, FiniteSets

CONSTANTS
  MaxLog,    \* bound: records of the chain
  MaxStores, \* bound: stores staged
  MaxFails   \* bound: reloads, failed writes and lost answers together

ASSUME RecoveryAssumption == {MaxLog, MaxStores, MaxFails} \subseteq Nat /\ MaxLog # 0 \* a chain has its first record

VARIABLES
  chain,  \* hub: the signed chain
  kits,   \* hub: the sealed kit of each generation, and whose it is
  draft,  \* memory: a kit being set up
  marker, \* disk: the mark of each staged store, apart from the store
  item,   \* disk: the stage to resume, with its epoch
  active, \* disk: the store this browser opens
  stage,  \* memory: the staged store that is open
  using,  \* memory: the store in use; -1 when it cannot be opened
  step,   \* memory: the ceremony under way
  epochs, \* history: epochs made up so far
  fails,  \* history: faults so far
  assured    \* history: generations a person was assured are saved

recVars == <<chain, kits, draft, marker, item, active, stage, using, step, epochs, fails, assured>>

Stores == 1..MaxStores
NoDraft == [pc |-> "none", at |-> 0, gen |-> 0, logged |-> FALSE]
NoStage == [store |-> 0, epoch |-> 0]
NoStep == [pc |-> "none", gen |-> 0, at |-> 0, store |-> 0, done |-> FALSE]

RecInit ==
  /\ chain = [seq |-> 1, gen |-> 0, made |-> 0, epoch |-> 0, verified |-> {0}, mine |-> {}, by |-> [s \in Stores |-> 0]]
  /\ kits = [g \in 1..MaxLog |-> "none"] /\ draft = NoDraft
  /\ marker = [s \in Stores |-> [state |-> "none", gen |-> 0, floor |-> 0]]
  /\ item = NoStage /\ active = 0 /\ stage = 0 /\ using = 0 /\ step = NoStep
  /\ epochs = 0 /\ fails = 0 /\ assured = {}

Fault == fails < MaxFails /\ fails' = fails + 1
Recorded(c) == chain' = [c EXCEPT !.seq = @ + 1]
Configure(c) == [c EXCEPT !.gen = c.made + 1, !.made = @ + 1]
Recover(c, e, who) == [c EXCEPT !.epoch = e, !.verified = who]

(* Other devices of the owner: another kit, none any more, a recovery, or a*)
(* record of another kind.                                                 *)
OthersRecord(act) ==
  /\ chain.seq < MaxLog
  /\ \/ act = "configure" /\ Recorded(Configure(chain)) /\ UNCHANGED epochs
     \/ act = "revoke" /\ chain.gen # 0 /\ Recorded([chain EXCEPT !.gen = 0]) /\ UNCHANGED epochs
     \/ act = "recover" /\ chain.gen # 0 /\ epochs' = epochs + 1 /\ Recorded(Recover(chain, epochs + 1, {}))
     \/ act = "rest" /\ Recorded(chain) /\ UNCHANGED epochs
  /\ UNCHANGED <<kits, draft, marker, item, active, stage, using, step, fails, assured>>
Put(g, who) == kits' = [kits EXCEPT ![g] = who]
OthersKit == \* kept under the generation, whoever makes it
  /\ chain.made < MaxLog /\ kits[chain.made + 1] = "mine" /\ Put(chain.made + 1, "theirs")
  /\ UNCHANGED <<chain, draft, marker, item, active, stage, using, step, epochs, fails, assured>>

-----------------------------------------------------------------------------
(* Setting up.                                                             *)

Prepared == [NoDraft EXCEPT !.pc = "prepared", !.at = chain.seq, !.gen = chain.made + 1]
SetupBegins ==
  /\ draft.pc = "none" /\ using \in chain.verified /\ chain.made < MaxLog /\ draft' = Prepared
  /\ UNCHANGED <<chain, kits, marker, item, active, stage, using, step, epochs, fails, assured>>
(* What the person typed opens the kit; only then is it given away.        *)
KitPut(lost) ==
  /\ draft.pc = "prepared" /\ Put(draft.gen, "mine")
  /\ IF lost THEN Fault /\ UNCHANGED draft ELSE draft' = [draft EXCEPT !.pc = "put"] /\ UNCHANGED fails
  /\ UNCHANGED <<chain, marker, item, active, stage, using, step, epochs, assured>>
(* A record that is in the chain already is not sent again.                *)
SetupCommits(lost) ==
  /\ draft.pc = "put"
  /\ LET fits == ~draft.logged /\ chain.seq = draft.at /\ chain.seq < MaxLog IN
     /\ IF fits THEN Recorded([Configure(chain) EXCEPT !.mine = @ \cup {draft.gen}]) ELSE UNCHANGED chain
     /\ IF lost THEN Fault ELSE UNCHANGED fails
     /\ draft' = [draft EXCEPT !.logged = @ \/ fits, !.pc = IF ~lost /\ (draft.logged \/ fits) THEN "check" ELSE "prepared"]
  /\ UNCHANGED <<kits, marker, item, active, stage, using, step, epochs, assured>>
SetupEnds ==
  /\ draft.pc = "check"
  /\ IF chain.gen = draft.gen THEN draft' = NoDraft /\ assured' = assured \cup {draft.gen}
     ELSE draft' = [draft EXCEPT !.pc = "prepared"] /\ UNCHANGED assured
  /\ UNCHANGED <<chain, kits, marker, item, active, stage, using, step, epochs, fails>>
SetupCancelled ==
  /\ draft.pc = "prepared" /\ draft' = NoDraft
  /\ UNCHANGED <<chain, kits, marker, item, active, stage, using, step, epochs, fails, assured>>

-----------------------------------------------------------------------------
(* Staging: a store of its own, that may not be used yet.                  *)

Unseals(g) == g \in chain.mine /\ (g \in assured \/ kits[g] = "mine")
Authenticated(g) == chain.gen = g
StageBegins(g) ==
  /\ step.pc = "none" /\ using >= 0 /\ Unseals(g) /\ Authenticated(g)
  /\ step' = [NoStep EXCEPT !.pc = "staging", !.gen = g, !.at = chain.seq]
  /\ UNCHANGED <<chain, kits, draft, marker, item, active, stage, using, epochs, fails, assured>>
(* A mark is only ever moved forward along the chain.                      *)
Marked(s, state, at) == marker' = [marker EXCEPT ![s].state = state, ![s].floor = at]
(* The mark is written before the store is made.                           *)
StoreMarked(s) ==
  /\ step.pc = "staging" /\ item.store = 0 /\ marker[s].state = "none" /\ \A r \in Stores : r < s => marker[r].state # "none"
  /\ marker' = [marker EXCEPT ![s] = [state |-> "staged", gen |-> step.gen, floor |-> step.at]]
  /\ step' = [step EXCEPT !.pc = "opened", !.store = s]
  /\ UNCHANGED <<chain, kits, draft, item, active, stage, using, epochs, fails, assured>>
StoreResumed ==
  /\ step.pc = "staging" /\ item.store # 0
  /\ LET m == marker[item.store] IN
     step' = IF m.gen = step.gen /\ m.floor <= step.at THEN [step EXCEPT !.pc = "opened", !.store = item.store] ELSE NoStep
  /\ UNCHANGED <<chain, kits, draft, marker, item, active, stage, using, epochs, fails, assured>>
(* saveStage: the mark says staged, whatever it said.                      *)
StageSaved(full) ==
  /\ step.pc = "opened" /\ step' = NoStep
  /\ Marked(step.store, "staged", step.at)
  /\ IF full THEN Fault /\ UNCHANGED <<item, stage>>
     ELSE item' = [item EXCEPT !.store = step.store] /\ stage' = step.store /\ UNCHANGED fails
  /\ UNCHANGED <<chain, kits, draft, active, using, epochs, assured>>

-----------------------------------------------------------------------------
(* Publishing: the store, the epoch, the record, and what the browser uses.*)

PublishBegins ==
  /\ step.pc = "none" /\ stage # 0 /\ Authenticated(marker[stage].gen)
  /\ step' = [NoStep EXCEPT !.pc = "publishing", !.at = chain.seq, !.store = stage,
              !.done = item.epoch # 0 /\ chain.epoch = item.epoch /\ stage \in chain.verified]
  /\ UNCHANGED <<chain, kits, draft, marker, item, active, stage, using, epochs, fails, assured>>
StorePublished(ok) ==
  /\ step.pc = "publishing"
  /\ Marked(stage, IF ok THEN "published" ELSE marker[stage].state, step.at)
  /\ IF ok THEN step' = [step EXCEPT !.pc = "epoch"] /\ UNCHANGED fails ELSE Fault /\ step' = NoStep
  /\ UNCHANGED <<chain, kits, draft, item, active, stage, using, epochs, assured>>

(* Mutant: each attempt makes up an epoch of its own.                      *)
EpochKeptAnew ==
  /\ step.pc = "epoch" /\ step' = [step EXCEPT !.pc = IF step.done THEN "confirm" ELSE "submit"]
  /\ item' = [item EXCEPT !.epoch = epochs + 1] /\ epochs' = epochs + 1
  /\ UNCHANGED <<chain, kits, draft, marker, active, stage, using, fails, assured>>
(* The epoch is on disk before anyone else hears of it.                    *)
EpochKept ==
  /\ step.pc = "epoch" /\ step' = [step EXCEPT !.pc = IF step.done THEN "confirm" ELSE "submit"]
  /\ IF item.epoch = 0 THEN item' = [item EXCEPT !.epoch = epochs + 1] /\ epochs' = epochs + 1 ELSE UNCHANGED <<item, epochs>>
  /\ UNCHANGED <<chain, kits, draft, marker, active, stage, using, fails, assured>>

(* signRecovery: the floor moves even when the kit is not active any more. *)
RecoverySigned ==
  /\ step.pc = "submit" /\ Marked(stage, marker[stage].state, chain.seq)
  /\ step' = IF chain.gen = marker[stage].gen THEN [step EXCEPT !.pc = "sent", !.at = chain.seq] ELSE NoStep
  /\ UNCHANGED <<chain, kits, draft, item, active, stage, using, epochs, fails, assured>>
Accepts == chain.seq = step.at /\ chain.seq < MaxLog /\ chain.gen = marker[stage].gen /\ chain.by[stage] = 0
RecoveryHandled(lost) ==
  /\ step.pc = "sent"
  /\ IF Accepts THEN Recorded([Recover(chain, item.epoch, {stage}) EXCEPT !.by[stage] = item.epoch]) ELSE UNCHANGED chain
  /\ IF lost THEN Fault ELSE UNCHANGED fails
  /\ step' = IF Accepts /\ ~lost THEN [step EXCEPT !.pc = "confirm"] ELSE NoStep
  /\ UNCHANGED <<kits, draft, marker, item, active, stage, using, epochs, assured>>
RecoveryConfirmed ==
  /\ step.pc = "confirm"
  /\ step' = IF chain.epoch = item.epoch /\ stage \in chain.verified THEN [step EXCEPT !.pc = "trusting"] ELSE NoStep
  /\ UNCHANGED <<chain, kits, draft, marker, item, active, stage, using, epochs, fails, assured>>
(* Pins, history and profile, then the switch.                             *)
ProfileWritten(full) ==
  /\ step.pc = "trusting"
  /\ IF full THEN Fault /\ step' = NoStep /\ UNCHANGED <<active, using, stage>>
     ELSE active' = stage /\ using' = stage /\ stage' = 0 /\ step' = [step EXCEPT !.pc = "closing"] /\ UNCHANGED fails
  /\ UNCHANGED <<chain, kits, draft, marker, item, epochs, assured>>
StageRemoved ==
  /\ step.pc = "closing" /\ item' = NoStage /\ step' = NoStep
  /\ UNCHANGED <<chain, kits, draft, marker, active, stage, using, epochs, fails, assured>>

(* A store staged for recovery opens only when its mark says published.    *)
Opens(s) == s = 0 \/ marker[s].state = "published"
PageLoads ==
  /\ Fault /\ draft' = NoDraft /\ stage' = 0 /\ step' = NoStep
  /\ using' = IF Opens(active) THEN active ELSE -1
  /\ UNCHANGED <<chain, kits, marker, item, active, epochs, assured>>

RecNext ==
  \/ \E act \in {"configure", "revoke", "recover", "rest"} : OthersRecord(act)
  \/ OthersKit \/ SetupBegins \/ SetupEnds \/ SetupCancelled
  \/ \E b \in BOOLEAN : KitPut(b) \/ SetupCommits(b) \/ StageSaved(b) \/ StorePublished(b) \/ RecoveryHandled(b) \/ ProfileWritten(b)
  \/ \E g \in 1..MaxLog : StageBegins(g)
  \/ \E s \in Stores : StoreMarked(s)
  \/ StoreResumed \/ PublishBegins \/ EpochKept \/ RecoverySigned \/ RecoveryConfirmed \/ StageRemoved \/ PageLoads

RecSpec == RecInit /\ [][RecNext]_recVars

-----------------------------------------------------------------------------
(* Every variable has its shape.                                           *)
RecTypeOK ==
  /\ chain.seq \in 1..MaxLog /\ chain.gen \in 0..chain.made /\ chain.verified \subseteq 0..MaxStores /\ chain.epoch \in 0..epochs
  /\ \A g \in 1..MaxLog : kits[g] \in {"none", "mine", "theirs"}
  /\ \A s \in Stores : marker[s].state \in {"none", "staged", "published"} /\ marker[s].floor \in 0..chain.seq
  /\ item.store \in 0..MaxStores /\ item.epoch \in 0..epochs /\ active \in 0..MaxStores /\ stage \in 0..MaxStores
  /\ using \in -1..MaxStores /\ assured \subseteq 1..MaxLog /\ fails \in 0..MaxFails

(* A recovery the chain took is never out of this browser's reach: until it*)
(* uses that store, or a later one, it still has on disk the stage and the *)
(* very epoch by which it knows the record for its own.  It uses no store  *)
(* the chain did not take, and one marked as staged only while its stage is*)
(* left to resume.  A kit told to be saved is in the chain and at the hub  *)
(* (encrypted.js:755-777, 832-858, owner-recovery-kit.mjs:113-133).        *)
RecoveryInReach ==
  /\ \A s \in Stores : chain.by[s] # 0 => active >= s \/ item = [store |-> s, epoch |-> chain.by[s]]
  /\ active # 0 => chain.by[active] # 0 /\ (marker[active].state = "published" \/ item.store = active)
  /\ \A g \in assured : g \in chain.mine /\ kits[g] # "none"

=============================================================================
