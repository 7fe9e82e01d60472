---------------------------- MODULE ClientMailbox ----------------------------
(***************************************************************************)
(* How a browser takes delivery of what a host sealed for it: one task, one*)
(* host, one device (apps/web/encrypted.js with packages/e2ee).  The hub   *)
(* forgets an envelope when it hands it out and the key store opens one    *)
(* once only, so the browser keeps it twice: sealed, until it is opened,   *)
(* and in a journal of its own, until it has taken effect.                 *)
(*                                                                         *)
(* A delivery is a chain of steps with a reload possible between any two.  *)
(* Envelopes are numbered as the hub accepts them.  A "broken" one carries *)
(* the host's routing fields and does not open.                            *)
(***************************************************************************)
EXTENDS Integers, Sequences

CONSTANTS
  MaxMail,   \* bound: envelopes
  MaxMoves,  \* bound: owner recoveries, each starts an epoch
  MaxTrouble \* bound: reloads, full storage, lost answers and refusals together

ASSUME MailboxAssumption == {MaxMail, MaxMoves, MaxTrouble} \subseteq Nat

VARIABLES
  mail,    \* hub: every envelope accepted for this device, in order
  box,     \* hub: those not handed out
  ledger,  \* the signed chain: its epoch, whether it deletes the task
  known,   \* browser: it holds the authority, has seen the deletion, has confirmed the host
  disk,    \* browser: what it keeps on disk
  held,    \* browser: journal entries a failed save left in memory
  work,    \* browser: the delivery under way
  opened,  \* key store: envelopes it will not open again
  asking,  \* browser: the request for history under way, and its throttle
  trouble, \* history: faults so far
  effect,  \* history: what took effect, with the epoch the delivery read
  excused  \* history: what the code gives up

mailVars == <<mail, box, ledger, known, disk, held, work, opened, asking, trouble, effect, excused>>

Idle0 == [pc |-> "idle", epoch |-> 0, fresh |-> {}, todo |-> {}, entries |-> {}, left |-> {}, refused |-> {}, pinned |-> FALSE, shown |-> FALSE]
NoJournal == {0} \* nothing in memory: the journal on disk counts

MailboxInit ==
  /\ mail = <<>> /\ box = {} /\ ledger = [epoch |-> 0, deleted |-> FALSE]
  /\ known = [authority |-> FALSE, deleted |-> FALSE, host |-> FALSE]
  /\ disk = [sealed |-> {}, journal |-> {}, refused |-> {}, admitted |-> {}]
  /\ held = NoJournal /\ work = Idle0 /\ opened = {}
  /\ asking = [pc |-> "none", epoch |-> 0, soon |-> FALSE]
  /\ trouble = 0 /\ effect = {} /\ excused = {}

Trouble == trouble < MaxTrouble /\ trouble' = trouble + 1
First(S) == CHOOSE n \in S : \A k \in S : n <= k
Forgiven(S) == excused' = excused \cup {n \in S : mail[n].kind # "broken"}

-----------------------------------------------------------------------------
(* The others: the host sends, an owner recovers, a person confirms.       *)

Delivered(kind, e) == mail' = Append(mail, [kind |-> kind, epoch |-> e]) /\ box' = box \cup {Len(mail) + 1}
HostSends(kind) ==
  /\ Len(mail) < MaxMail /\ Delivered(kind, ledger.epoch)
  /\ UNCHANGED <<ledger, known, disk, held, work, opened, asking, trouble, effect, excused>>
LedgerMoves(delete) ==
  /\ IF delete THEN ~ledger.deleted /\ ledger' = [ledger EXCEPT !.deleted = TRUE]
     ELSE ledger.epoch < MaxMoves /\ ledger' = [ledger EXCEPT !.epoch = @ + 1]
  /\ UNCHANGED <<mail, box, known, disk, held, work, opened, asking, trouble, effect, excused>>
ConfirmHost ==
  /\ ~known.host /\ known' = [known EXCEPT !.host = TRUE]
  /\ UNCHANGED <<mail, box, ledger, disk, held, work, opened, asking, trouble, effect, excused>>
ConfirmAuthority ==
  /\ ~known.authority /\ known' = [known EXCEPT !.authority = TRUE]
  /\ UNCHANGED <<mail, box, ledger, disk, held, work, opened, asking, trouble, effect, excused>>

-----------------------------------------------------------------------------
(* A delivery.                                                             *)

(* receiveKeys: one at a time.                                             *)
DispatchBegins ==
  /\ work.pc = "idle" /\ work' = [Idle0 EXCEPT !.pc = "reading", !.entries = IF held = NoJournal THEN disk.journal ELSE held]
  /\ UNCHANGED <<mail, box, ledger, known, disk, held, opened, asking, trouble, effect, excused>>

(* enrolmentState: a deletion of the task drops what was admitted for it.  *)
DeletionSeen(d) ==
  /\ known' = [known EXCEPT !.deleted = @ \/ ledger.deleted]
  /\ disk' = IF ledger.deleted THEN [d EXCEPT !.admitted = {}] ELSE d

(* The journal is written back first, to see that it can be.               *)
StateRead(full) ==
  /\ work.pc = "reading" /\ known.authority
  /\ IF full THEN Trouble /\ DeletionSeen(disk) /\ held' = work.entries /\ work' = Idle0
     ELSE /\ DeletionSeen([disk EXCEPT !.journal = work.entries]) /\ held' = NoJournal
          /\ work' = [work EXCEPT !.pc = "draining", !.epoch = ledger.epoch] /\ UNCHANGED trouble
  /\ UNCHANGED <<mail, box, ledger, opened, asking, effect, excused>>
StateWaits == \* nobody to trust yet, or the read fails
  /\ work.pc = "reading" /\ IF known.authority THEN Trouble ELSE UNCHANGED trouble
  /\ work' = Idle0 /\ UNCHANGED <<mail, box, ledger, known, disk, held, opened, asking, effect, excused>>

DrainHandled ==
  /\ work.pc = "draining" /\ work' = [work EXCEPT !.pc = "drained", !.fresh = box] /\ box' = {}
  /\ UNCHANGED <<mail, ledger, known, disk, held, opened, asking, trouble, effect, excused>>
DrainLost == \* the answer, or what came with it for want of room
  /\ work.pc = "drained" /\ Trouble /\ Forgiven(work.fresh) /\ work' = Idle0
  /\ UNCHANGED <<mail, box, ledger, known, disk, held, opened, asking, effect>>

(* Mutant: what was handed out is not written before it is worked on.      *)
DrainReturnsUnsaved ==
  /\ work.pc = "drained" /\ work' = [work EXCEPT !.pc = "listing", !.todo = disk.sealed \cup work.fresh, !.fresh = {}]
  /\ UNCHANGED <<mail, box, ledger, known, disk, held, opened, asking, trouble, effect, excused>>
DrainReturns ==
  /\ work.pc = "drained" /\ work' = [work EXCEPT !.pc = "listing", !.todo = disk.sealed \cup work.fresh, !.fresh = {}]
  /\ disk' = [disk EXCEPT !.sealed = @ \cup work.fresh]
  /\ UNCHANGED <<mail, box, ledger, known, held, opened, asking, trouble, effect, excused>>
ListReturns(ok, shown) ==
  /\ work.pc = "listing"
  /\ IF ok THEN work' = [work EXCEPT !.pc = "opening", !.pinned = known.host, !.refused = disk.refused, !.shown = shown /\ ~known.deleted] /\ UNCHANGED trouble
     ELSE Trouble /\ work' = Idle0
  /\ UNCHANGED <<mail, box, ledger, known, disk, held, opened, asking, effect, excused>>

(* One envelope.  Opening uses it up, whatever is then found in it.        *)
DeletedTask == known.deleted
Unreadable(n) == n \in opened \/ mail[n].kind = "broken"
OfEpoch(n) == mail[n].epoch = work.epoch
Next1 == First(work.todo)
PastWork(n) == n \in work.refused \cup work.entries
EnvelopePassed(keep, t) == \* kept for later, or done with
  /\ work.pc = "opening" /\ work.todo # {}
  /\ work' = [work EXCEPT !.todo = @ \ {Next1}, !.left = IF keep THEN @ \cup {Next1} ELSE @]
  /\ IF t THEN Trouble ELSE UNCHANGED trouble
  /\ UNCHANGED <<mail, box, ledger, known, disk, held, opened, asking, effect, excused>>
EnvelopeWaits == ~work.pinned /\ EnvelopePassed(TRUE, FALSE)
EnvelopeSkipped == work.pinned /\ work.todo # {} /\ PastWork(Next1) /\ EnvelopePassed(FALSE, FALSE)
EnvelopeThrows == work.pinned /\ work.todo # {} /\ ~PastWork(Next1) /\ EnvelopePassed(TRUE, TRUE)

EnvelopeOpens ==
  /\ work.pc = "opening" /\ work.todo # {} /\ work.pinned /\ ~PastWork(Next1)
  /\ LET n == Next1
         rest == [work EXCEPT !.todo = @ \ {n}] IN
     /\ opened' = opened \cup {n}
     /\ IF Unreadable(n)
        THEN work' = [rest EXCEPT !.refused = @ \cup {n}] /\ UNCHANGED <<held, excused>>
        ELSE IF DeletedTask \/ ~OfEpoch(n)
        THEN work' = rest /\ Forgiven({n}) /\ UNCHANGED held
        ELSE /\ work' = [rest EXCEPT !.pc = "saving", !.entries = @ \cup {n}]
             /\ held' = work.entries \cup {n} /\ UNCHANGED excused
  /\ UNCHANGED <<mail, box, ledger, known, disk, asking, trouble, effect>>

(* The journal has it before the next is opened.                           *)
EntrySaved(full) ==
  /\ work.pc = "saving"
  /\ IF full THEN Trouble /\ work' = Idle0 /\ UNCHANGED <<disk, held>>
     ELSE /\ work' = [work EXCEPT !.pc = "opening"] /\ disk' = [disk EXCEPT !.journal = work.entries]
          /\ held' = NoJournal /\ UNCHANGED trouble
  /\ UNCHANGED <<mail, box, ledger, known, opened, asking, effect, excused>>
OpeningEnds(full) ==
  /\ work.pc = "opening" /\ work.todo = {}
  /\ IF full THEN Trouble /\ work' = Idle0 /\ UNCHANGED disk
     ELSE /\ disk' = [disk EXCEPT !.sealed = work.left, !.refused = work.refused] /\ UNCHANGED trouble
          /\ work' = [work EXCEPT !.pc = "applying", !.todo = work.entries, !.left = {}]
  /\ UNCHANGED <<mail, box, ledger, known, held, opened, asking, effect, excused>>

(* What the journal holds takes effect, in the epoch the delivery read.    *)
EntryApplied ==
  /\ work.pc = "applying" /\ work.todo # {}
  /\ LET n == Next1
         rest == [work EXCEPT !.todo = @ \ {n}] IN
     IF DeletedTask THEN work' = rest /\ Forgiven({n}) /\ UNCHANGED effect
     ELSE IF ~work.shown THEN work' = [rest EXCEPT !.left = @ \cup {n}] /\ UNCHANGED <<effect, excused>>
     ELSE IF ~OfEpoch(n) THEN work' = rest /\ Forgiven({n}) /\ UNCHANGED effect
     ELSE IF mail[n].kind = "history" THEN work' = [work EXCEPT !.pc = "importing"] /\ UNCHANGED <<effect, excused>>
     ELSE work' = rest /\ effect' = effect \cup {<<n, work.epoch>>} /\ UNCHANGED excused
  /\ UNCHANGED <<mail, box, ledger, known, disk, held, opened, asking, trouble>>
HistoryImported(ok) ==
  /\ work.pc = "importing"
  /\ LET rest == [work EXCEPT !.pc = "applying", !.todo = @ \ {Next1}] IN
     IF ok THEN /\ work' = rest /\ disk' = [disk EXCEPT !.admitted = @ \cup {Next1}]
                /\ effect' = effect \cup {<<Next1, work.epoch>>} /\ UNCHANGED trouble
     ELSE Trouble /\ work' = [rest EXCEPT !.left = @ \cup {Next1}] /\ UNCHANGED <<disk, effect>>
  /\ UNCHANGED <<mail, box, ledger, known, held, opened, asking, excused>>
DispatchEnds(full) ==
  /\ work.pc = "applying" /\ work.todo = {} /\ work' = Idle0
  /\ IF full THEN Trouble /\ held' = work.left /\ UNCHANGED disk
     ELSE held' = NoJournal /\ disk' = [disk EXCEPT !.journal = work.left] /\ UNCHANGED trouble
  /\ UNCHANGED <<mail, box, ledger, known, opened, asking, effect, excused>>

(* The page is loaded anew: what only memory had is gone.                  *)
Reload ==
  /\ Trouble /\ Forgiven(work.fresh \cup ((held \ NoJournal) \ disk.journal))
  /\ held' = NoJournal /\ work' = Idle0 /\ known' = [known EXCEPT !.deleted = FALSE]
  /\ asking' = IF asking.pc = "wanted" THEN [asking EXCEPT !.pc = "none"] ELSE asking
  /\ UNCHANGED <<mail, box, ledger, disk, opened, effect>>

-----------------------------------------------------------------------------
(* A replay that does not verify asks the host for the history again.      *)

Replays == disk.admitted # {}
Throttled == asking.soon
CatchUp ==
  /\ work.pc = "idle" /\ known.host /\ ~known.deleted /\ ~Replays /\ asking.pc = "none" /\ ~Throttled
  /\ asking' = [asking EXCEPT !.pc = "wanted", !.soon = TRUE]
  /\ UNCHANGED <<mail, box, ledger, known, disk, held, work, opened, trouble, effect, excused>>
HistoryAsked(ok) ==
  /\ asking.pc = "wanted"
  /\ IF ok THEN asking' = [asking EXCEPT !.pc = "sent", !.epoch = ledger.epoch] /\ DeletionSeen(disk) /\ UNCHANGED trouble
     ELSE Trouble /\ asking' = [asking EXCEPT !.pc = "none"] /\ UNCHANGED <<known, disk>>
  /\ UNCHANGED <<mail, box, ledger, held, work, opened, effect, excused>>
HostAnswers == \* a request of another epoch is refused
  /\ asking.pc = "sent" /\ Len(mail) < MaxMail /\ asking' = [asking EXCEPT !.pc = "none"]
  /\ Delivered(IF asking.epoch = ledger.epoch THEN "history" ELSE "receipt", ledger.epoch)
  /\ UNCHANGED <<ledger, known, disk, held, work, opened, trouble, effect, excused>>
ThrottleEnds ==
  /\ Throttled /\ asking.pc = "none" /\ asking' = [asking EXCEPT !.soon = FALSE]
  /\ UNCHANGED <<mail, box, ledger, known, disk, held, work, opened, trouble, effect, excused>>

MailboxNext ==
  \/ \E kind \in {"history", "receipt", "broken"} : HostSends(kind)
  \/ ConfirmHost \/ ConfirmAuthority
  \/ \E b \in BOOLEAN : LedgerMoves(b) \/ StateRead(b) \/ EntrySaved(b) \/ OpeningEnds(b) \/ HistoryImported(b) \/ DispatchEnds(b)
  \/ DispatchBegins \/ StateWaits \/ DrainHandled \/ DrainLost \/ DrainReturns
  \/ \E ok, shown \in BOOLEAN : ListReturns(ok, shown)
  \/ EnvelopeWaits \/ EnvelopeSkipped \/ EnvelopeThrows \/ EnvelopeOpens \/ EntryApplied \/ Reload
  \/ CatchUp \/ \E ok \in BOOLEAN : HistoryAsked(ok) \/ HostAnswers \/ ThrottleEnds

MailboxSpec == MailboxInit /\ [][MailboxNext]_mailVars

-----------------------------------------------------------------------------
(* Every variable has its shape.                                           *)
MailboxTypeOK ==
  /\ Len(mail) <= MaxMail /\ box \cup opened \cup excused \subseteq 1..Len(mail)
  /\ \A n \in 1..Len(mail) : mail[n].kind \in {"history", "receipt", "broken"} /\ mail[n].epoch \in 0..MaxMoves
  /\ held = NoJournal \/ held \subseteq 1..Len(mail)
  /\ disk.sealed \cup disk.journal \cup disk.refused \cup disk.admitted \subseteq 1..Len(mail)
  /\ work.pc \in {"idle", "reading", "draining", "drained", "listing", "opening", "saving", "applying", "importing"}
  /\ trouble \in 0..MaxTrouble

(* What the host sealed for this browser is at the hub, sealed and not yet *)
(* opened, in the journal, or has taken effect, whatever fails and wherever*)
(* the page is reloaded; the code gives up only what it lost between two   *)
(* writes, or what a deletion or a newer epoch made void.  Nothing takes   *)
(* effect in another epoch than its own, and nothing is admitted that is   *)
(* not history (encrypted.js:376-505, hub-key-transport.mjs:31).           *)
MailIsKept ==
  /\ \A n \in 1..Len(mail) : mail[n].kind # "broken" =>
       \/ n \in box \cup work.fresh \cup (disk.sealed \ opened) \cup disk.journal \cup held \cup excused
       \/ \E e \in 0..MaxMoves : <<n, e>> \in effect
  /\ \A x \in effect : mail[x[1]].epoch = x[2] /\ mail[x[1]].kind # "broken"
  /\ \A n \in disk.admitted : mail[n].kind = "history"

=============================================================================
