-------------------------- MODULE EncryptedTaskLog --------------------------
(***************************************************************************)
(* One encrypted task's history: the host that owns it seals and uploads   *)
(* records (EncryptedTaskWriter, packages/e2ee/task-log.mjs), the hub      *)
(* orders them unread (packages/hub/encrypted-tasks.js), a teammate's      *)
(* endpoint replays them (EncryptedTaskReader) and the owner may delete    *)
(* the task for good (packages/hub/retention.js) with the envelopes and    *)
(* recovery archives kept for it (packages/hub/key-exchange.js).           *)
(*                                                                         *)
(* Uploads time out, arrive late, again or never; the host crashes; the    *)
(* operator restores a content snapshot.  Sealing is random: env tells two *)
(* sealings of one event apart, and prev names the record before.          *)
(***************************************************************************)
EXTENDS Integers, Sequences, FiniteSets, SequencesExt

CONSTANTS
  EventIds,       \* stable event ids a caller may append, and retry
  None,           \* no record, no event
  PageSize,       \* records in a page of replay
  MaxSealed,      \* bound: records sealed
  MaxLosses       \* bound: times the task's content is lost or restored

Record == [seq : 1..MaxSealed, id : EventIds, env : 1..MaxSealed, prev : 0..MaxSealed]

ASSUME LogAssumption ==
  /\ None \notin EventIds /\ None \notin Record /\ PageSize \in Nat \ {0} /\ {MaxSealed, MaxLosses} \subseteq Nat

VARIABLES
  task,           \* hub: the row of encrypted_tasks is there
  events,         \* hub: encrypted_task_events
  tombstone,      \* hub: deletion_tombstones
  granted,        \* hub: the reader's account has a live project grant
  mailbox,        \* hub: an envelope for the reader tagged with the task waits
  archive,        \* hub: the reader's recovery archive that covers the task
  snapshot,       \* operator: a content snapshot, None without one
  uploads,        \* records sent, which may yet arrive
  saved,          \* host disk: the writer's checkpoint and pending record
  writer,         \* host: known records, and what the writer is doing
  reader,         \* endpoint: known records, its floor and the replay's head
  sealed,         \* records sealed so far
  losses          \* losses and restores so far

hubLogVars == <<task, events, tombstone, granted, mailbox, archive, snapshot>>
logVars == <<hubLogVars, uploads, saved, writer, reader, sealed, losses>>

Beginning == [seq |-> 0, env |-> 0]
CheckpointOf(known) == IF known = <<>> THEN Beginning ELSE [seq |-> Len(known), env |-> Last(known).env]
IdsOf(known) == {known[i].id : i \in DOMAIN known}
Idle == [phase |-> "idle", for |-> None, known |-> <<>>, floor |-> Beginning]

LogInit ==
  /\ task = FALSE /\ events = <<>> /\ tombstone = FALSE /\ granted = FALSE
  /\ mailbox = FALSE /\ archive = "none" /\ snapshot = None
  /\ uploads = {} /\ saved = [floor |-> Beginning, pending |-> None]
  /\ writer = Idle /\ reader = [known |-> <<>>, floor |-> Beginning, through |-> -1]
  /\ sealed = 0 /\ losses = 0

-----------------------------------------------------------------------------
(* The hub.                                                                *)

(* create: also after the row was lost; a deleted task is refused.         *)
TaskCreated ==
  /\ ~task /\ ~tombstone /\ task' = TRUE /\ granted' = TRUE
  /\ UNCHANGED <<events, tombstone, mailbox, archive, snapshot, uploads, saved, writer, reader, sealed, losses>>

(* append: a record is known by its event id, and taken only in order.     *)
Kept(r) == \E i \in DOMAIN events : events[i] = r
InTurn(r) == r.id \notin IdsOf(events) /\ r.seq = Len(events) + 1
Accepted(r) == task /\ ~tombstone /\ (Kept(r) \/ InTurn(r))

(* Mutant: the envelopes waiting for an endpoint are kept.                 *)
TaskDeletedButMail ==
  /\ task /\ task' = FALSE /\ events' = <<>> /\ tombstone' = TRUE
  /\ archive' = IF archive = "held" THEN "retired" ELSE archive
  /\ UNCHANGED <<granted, mailbox, snapshot, uploads, saved, writer, reader, sealed, losses>>

(* apply: the rows, the envelopes and the archives go with the tombstone.  *)
TaskDeleted ==
  /\ task /\ task' = FALSE /\ events' = <<>> /\ tombstone' = TRUE /\ mailbox' = FALSE
  /\ archive' = IF archive = "held" THEN "retired" ELSE archive
  /\ UNCHANGED <<granted, snapshot, uploads, saved, writer, reader, sealed, losses>>

GrantChanges ==
  /\ granted' = ~granted
  /\ UNCHANGED <<task, events, tombstone, mailbox, archive, snapshot, uploads, saved, writer, reader, sealed, losses>>

(* The host hands the reader keys; draining a box empties it.              *)
KeysDelivered ==
  /\ task /\ mailbox' = TRUE
  /\ UNCHANGED <<task, events, tombstone, granted, archive, snapshot, uploads, saved, writer, reader, sealed, losses>>
MailboxDrained ==
  /\ mailbox /\ mailbox' = FALSE
  /\ UNCHANGED <<task, events, tombstone, granted, archive, snapshot, uploads, saved, writer, reader, sealed, losses>>

(* putRecovery: a scope retired by a deletion is never stored again.       *)
ArchiveStored ==
  /\ archive = "none" /\ task /\ granted /\ archive' = "held"
  /\ UNCHANGED <<task, events, tombstone, granted, mailbox, snapshot, uploads, saved, writer, reader, sealed, losses>>

SnapshotTaken ==
  /\ task /\ snapshot = None /\ losses < MaxLosses /\ snapshot' = events
  /\ UNCHANGED <<task, events, tombstone, granted, mailbox, archive, uploads, saved, writer, reader, sealed, losses>>
SnapshotExpires ==
  /\ snapshot # None /\ snapshot' = None
  /\ UNCHANGED <<task, events, tombstone, granted, mailbox, archive, uploads, saved, writer, reader, sealed, losses>>

(* restore brings back what is missing, never what was deleted.            *)
SnapshotRestored ==
  /\ snapshot # None /\ ~task /\ ~tombstone /\ granted /\ losses < MaxLosses
  /\ task' = TRUE /\ events' = snapshot /\ losses' = losses + 1
  /\ UNCHANGED <<tombstone, granted, mailbox, archive, snapshot, uploads, saved, writer, reader, sealed>>

(* What restore is for: an operator loses the content tables.              *)
ContentLost ==
  /\ task /\ losses < MaxLosses /\ losses' = losses + 1
  /\ task' = FALSE /\ events' = <<>>
  /\ UNCHANGED <<tombstone, granted, mailbox, archive, snapshot, uploads, saved, writer, reader, sealed>>

-----------------------------------------------------------------------------
(* The writer.  An append first settles what an earlier one left pending.  *)

Stopped == [writer EXCEPT !.phase = "idle", !.for = None]

WriteBegins(e) ==
  /\ writer.phase = "idle"
  /\ IF saved.pending = None
     THEN writer' = [writer EXCEPT !.phase = "reading", !.for = e] /\ UNCHANGED uploads
     ELSE writer' = [writer EXCEPT !.phase = "resuming", !.for = e] /\ uploads' = uploads \cup {saved.pending}
  /\ UNCHANGED <<hubLogVars, saved, reader, sealed, losses>>

(* What the hub has must continue what the writer knows and checkpointed.  *)
Continues(known, floor) ==
  /\ IsPrefix(known, events)
  /\ floor.seq <= Len(events)
  /\ floor.seq > 0 => events[floor.seq].env = floor.env

Sealing(e) == [seq |-> Len(events) + 1, id |-> e, env |-> sealed + 1, prev |-> CheckpointOf(events).env]

(* Mutant: a record is sent before it is saved as pending.                 *)
SavedLater(r) == UNCHANGED saved

SavedPending(r) == saved' = [floor |-> CheckpointOf(events), pending |-> r]

(* reconnect, and then the event: a duplicate, or sealed, saved and sent.  *)
WriterReads ==
  /\ writer.phase = "reading" /\ UNCHANGED <<hubLogVars, reader, losses>>
  /\ \/ /\ ~(task /\ Continues(writer.known, writer.floor))
        /\ writer' = Stopped /\ UNCHANGED <<uploads, saved, sealed>>
     \/ /\ task /\ Continues(writer.known, writer.floor) /\ writer.for \in IdsOf(events)
        /\ writer' = [Stopped EXCEPT !.known = events]
        /\ saved' = IF saved.pending = None THEN saved ELSE [floor |-> CheckpointOf(events), pending |-> None]
        /\ UNCHANGED <<uploads, sealed>>
     \/ /\ task /\ Continues(writer.known, writer.floor) /\ writer.for \notin IdsOf(events)
        /\ sealed < MaxSealed /\ sealed' = sealed + 1
        /\ writer' = [writer EXCEPT !.phase = "writing", !.known = events]
        /\ uploads' = uploads \cup {Sealing(writer.for)} /\ SavedPending(Sealing(writer.for))

Waiting(r) ==
  \/ writer.phase = "resuming" /\ r = saved.pending
  \/ writer.phase = "writing" /\ r.env = sealed

(* An upload arrives: the hub keeps it or refuses it, and the writer, if   *)
(* it still waits and the answer gets through, goes on or stops.           *)
UploadArrives(r, heard) ==
  /\ r \in uploads
  /\ events' = IF Accepted(r) /\ ~Kept(r) THEN Append(events, r) ELSE events
  /\ IF ~(heard /\ Waiting(r)) THEN UNCHANGED <<writer, saved>>
     ELSE IF ~Accepted(r) THEN writer' = Stopped /\ UNCHANGED saved
     ELSE IF writer.phase = "resuming" THEN writer' = [writer EXCEPT !.phase = "reading"] /\ UNCHANGED saved
     ELSE /\ writer' = [Stopped EXCEPT !.known = Append(@, r)]
          /\ saved' = [floor |-> CheckpointOf(writer'.known), pending |-> None]
  /\ UNCHANGED <<task, tombstone, granted, mailbox, archive, snapshot, uploads, reader, sealed, losses>>

UploadLost(r) ==
  /\ r \in uploads /\ uploads' = uploads \ {r}
  /\ UNCHANGED <<hubLogVars, saved, writer, reader, sealed, losses>>

UploadTimesOut ==
  /\ writer.phase \in {"resuming", "writing"} /\ writer' = Stopped
  /\ UNCHANGED <<hubLogVars, uploads, saved, reader, sealed, losses>>

HostRestarts ==
  /\ writer' = [Idle EXCEPT !.floor = saved.floor] /\ writer' # writer
  /\ UNCHANGED <<hubLogVars, uploads, saved, reader, sealed, losses>>

-----------------------------------------------------------------------------
(* The reader replays, page by page, up to the head of its first page.     *)

Halted == [reader EXCEPT !.through = -1]

ReplayBegins ==
  /\ reader.through = -1
  /\ reader' = IF task /\ granted /\ Len(events) >= Len(reader.known) /\ Len(events) >= reader.floor.seq
               THEN [reader EXCEPT !.through = Len(events)] ELSE reader
  /\ reader' # reader
  /\ UNCHANGED <<hubLogVars, uploads, saved, writer, sealed, losses>>

(* accept, for each record of a page: it must follow the last one known.   *)
Page == SubSeq(events, Len(reader.known) + 1,
               IF Len(reader.known) + PageSize < reader.through THEN Len(reader.known) + PageSize ELSE reader.through)
Links(known) == \A i \in DOMAIN known :
  /\ known[i].prev = (IF i = 1 THEN 0 ELSE known[i - 1].env)
  /\ i = reader.floor.seq => known[i].env = reader.floor.env

PageRead ==
  /\ reader.through >= 0
  /\ LET known == reader.known \o Page
     IN  IF ~(task /\ granted /\ reader.through <= Len(events) /\ Links(known)) THEN reader' = Halted
         ELSE IF Len(known) < reader.through THEN reader' = [reader EXCEPT !.known = known]
         ELSE reader' = [known |-> known, floor |-> CheckpointOf(known), through |-> -1]
  /\ UNCHANGED <<hubLogVars, uploads, saved, writer, sealed, losses>>

ReaderRestarts ==
  /\ reader' = [Halted EXCEPT !.known = <<>>] /\ reader' # reader
  /\ UNCHANGED <<hubLogVars, uploads, saved, writer, sealed, losses>>

LogNext ==
  \/ TaskCreated \/ TaskDeleted \/ GrantChanges \/ KeysDelivered \/ MailboxDrained \/ ArchiveStored
  \/ SnapshotTaken \/ SnapshotExpires \/ SnapshotRestored \/ ContentLost
  \/ \E e \in EventIds : WriteBegins(e)
  \/ WriterReads \/ UploadTimesOut \/ HostRestarts
  \/ \E r \in uploads : UploadLost(r) \/ \E heard \in BOOLEAN : UploadArrives(r, heard)
  \/ ReplayBegins \/ PageRead \/ ReaderRestarts

LogSpec == LogInit /\ [][LogNext]_logVars

-----------------------------------------------------------------------------
Checkpoint == [seq : 0..MaxSealed, env : 0..MaxSealed]
History(s) == Len(s) <= MaxSealed /\ \A i \in DOMAIN s : s[i] \in Record

(* Every variable has its shape.                                           *)
LogTypeOK ==
  /\ task \in BOOLEAN /\ tombstone \in BOOLEAN /\ granted \in BOOLEAN /\ mailbox \in BOOLEAN
  /\ archive \in {"none", "held", "retired"}
  /\ History(events) /\ (snapshot # None => History(snapshot))
  /\ uploads \subseteq Record
  /\ saved.floor \in Checkpoint /\ saved.pending \in Record \cup {None}
  /\ writer.phase \in {"idle", "reading", "resuming", "writing"} /\ writer.for \in EventIds \cup {None}
  /\ History(writer.known) /\ writer.floor \in Checkpoint
  /\ History(reader.known) /\ reader.floor \in Checkpoint /\ reader.through \in -1..MaxSealed
  /\ sealed \in 0..MaxSealed /\ losses \in 0..MaxLosses

(* There is one history: what the hub keeps, what the host knows and what  *)
(* a reader was shown are beginnings of each other, and no upload, however *)
(* late, disagrees with the record the hub keeps in its place.  (Content   *)
(* an operator lost and restored is older than what was acknowledged: the  *)
(* writer and the readers that know more refuse to go on.)                 *)
Agree(s, t) == IsPrefix(s, t) \/ IsPrefix(t, s)
OneHistory ==
  losses = 0 =>
  /\ Agree(events, writer.known) /\ Agree(events, reader.known) /\ Agree(writer.known, reader.known)
  /\ \A r \in uploads : r.seq <= Len(events) => events[r.seq] = r

(* What was deleted stays deleted, whatever upload, delivery, archive or   *)
(* snapshot of it arrives afterwards.                                      *)
DeletedStaysDeleted ==
  tombstone => ~task /\ events = <<>> /\ ~mailbox /\ archive # "held"

=============================================================================
