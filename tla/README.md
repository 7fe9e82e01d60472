# A verification development for the multiplayer AI harness

The harness lets a team watch and steer coding agents that run on its members'
machines. A **hub** (`packages/hub`) holds teams, a mirror of every thread and
its event log, and relays commands. An **execution host** (`packages/runtime`)
is the one machine that acts: it claims commands, runs turns, asks for
approvals. **Clients** (`apps/web`, `apps/desktop`) are people's windows on
both. Hub and host speak over one WebSocket per host, which breaks and is
reopened; both are single-threaded Node processes with a SQLite store each, so
a handler up to its next `await` is atomic and everything between handlers,
processes, sockets, timers and crashes interleaves. The modules here take a
handler, or the stretch between two awaits, as an action.

## Inventory

| Part | State it keeps | Operations | What is hard |
|---|---|---|---|
| Command routing, hub (`server.js`) | `commandLog`, `pendingCommands`, `runtimes`, memberships | `onCommand`, `command.result`, `settleCommand`, `pruneCommandLog`, `onClose`, member removal | retries against answers, closes against results, eviction, reused ids |
| Hub link, host (`hub-client.js`) | socket, `welcome`, `queue` | connect, hello, welcome, buffer, flush, close | overlapping connections, late and reordered messages |
| Command execution, host (`index.js`, `store.js`) | durable `commands` table, `activeCommands` | `onCommand`, `dispatch` | a crash between claim, action and reply |
| Turns and approvals, host (`session.js`, `index.js`, `policy.js`) | `TurnSession`, the thread object, `openApprovals`, `settledApprovals`, `abandonedApprovals` | turn start, steer, interrupt, approval request, answer, expiry, restart | people, timers, stops and failing writes racing over one request |
| The shared thread (`index.js`, `server.js`) | the row on the host's disk, the running turn's copy, the hub's row and event log | events, `thread.upsert`, marking unknown, reconciliation | three copies, stale writes, a vanished host |
| Teams, grants, pairing (`hub/store.js`, `server.js`) | memberships, invitations, approvers, pairings, credentials | invite, accept, revoke, remove, grant, pair, unpair | one-time use, revocation against what is in flight |
| Subscriptions and presence (`server.js`) | `subs`, the activity map | subscribe, broadcast | revoked membership |
| Hosted accounts (`auth.js`) | accounts, sessions | sign in, expire, revoke | expiry, replay |
| Encrypted task log (`encrypted-tasks.js`) | per-task sequence | append, read | idempotent retries, sequence races |
| Encrypted execution (`encrypted-host.js`, `encrypted-execution.js`, `encrypted-run.js`, `freshness-authority.js`) | durable claims, epochs, cursor | replay, execute, publish | crash recovery, stale epochs, rollback |
| Enrollment and membership chain (`enrollment.js`, `membership.mjs`, recovery) | signed transitions, head, recovery kits | enroll, rotate, revoke, recover | compare-and-swap on the head, forks |
| Key exchange mailbox (`key-exchange.js`) | one-time keys, sealed envelopes, recovery kits | put, drain, put and get a kit | draining is destructive; a kit can be replaced |
| Clients' encrypted endpoint (`e2ee/*`, `apps/web/encrypted.js`) | key store, mailbox journal, replay position, stage of a recovery | take delivery, verify, catch up, recover | reloads between any two steps, answers lost after they took effect |
| Retention, pilot, measurement | tombstones, counters | delete, restore | deletion against what is in flight |
| Provider adapters (`codex-*.js`, `claude-code.js`) | the child process, calls in flight, the provider's turn | run, steer, stop, answer approvals and tools | messages before the reply they belong to, a provider that dies |
| Workspace and git | files | read, write | path checks |
| Desktop shell (`apps/desktop`) | child processes, boot health, agreed configuration, the host's signer | boot, restart, quit, agree | long operations that overlap, dialogs |
| Single-player application (`src/main`, `src/renderer`) | threads on disk, turns, the window's page | create, send, steer, approve, stop, delete | one window that shows one thread while others run |
| Scripts | none | release, backup | none |

What makes the parts correct, in a sentence each: a command acts at most once
and whoever waits is told how it ended; a risky action happens only after an
approver accepted that very action and the receipt is durable; what the team
sees of a thread is what the host last said, and is "unknown" rather than
"running" when nobody can say; only current members see, send and are answered;
an encrypted task has one order of events that no party can fork or roll
back, and nobody removed can read on; a client keeps what was sealed for it; a
window shows one thread's work as that thread's; what a person agreed to in a
dialog is what happens, and nothing more.

## Plan

1. `CommandLedger` with `CommandContract`, then `TurnSession` with
   `ApprovalContract`, then `SharedThread` (all done). Type correctness and
   at-most-once execution proved (done).
2. `TeamRoster` (done). The encrypted path: `MembershipChain`,
   `EncryptedTaskLog`, `EncryptedHost`, `EncryptedRun` (done). A person's own
   machine: `AgentApp`, `CodexAdapter`, `Desktop`, `HostedLogin`,
   `ClientMailbox`, `OwnerRecovery`, `HostPairing` (done).
3. Proofs of every invariant and action property that a run checks, with the
   steps of both refinements (done, see Theorems).
4. Open: one-time keys, several tasks on one encrypted host, unpairing while
   commands are in flight.

No module uses RECURSIVE operators, so each can be proved about.

## Modules

### CommandLedger

A command from a person's tab through the hub to the host, and its answer back.

| Model | Code |
|---|---|
| `log`, `pending` | `commandLog` by user and id; `pendingCommands` by id, whose `waiters` are sockets |
| `registered`, `hubConns` | `runtimes.get(id)`; host sockets whose close event has not run |
| `up`, `down`, `hostConn`, `welcomed`, `queue` | the wires, `HubClient.ws`, `.welcome`, `.queue` |
| `table`, `active` | the `commands` table and `activeCommands` |
| `AskConflicting` ... `AskOffline` | the ways `Hub.onCommand` ends |
| `HubResult`, `HubCloses`, `HubHello`, `HubRestarts` | `command.result`, `onClose`, `onHello`, a restart |
| `HostRecognises`, `HostClaims`, `HostRuns`, `HostFinishes`, `HostCrashes` | `HarnessRuntime.onCommand` around its `await dispatch` |
| `TabCloses`, `TabTimesOut`, `RemoveMember` | a closing tab, the client's 30 s timer, `MEMBER_REMOVE` |

The code evicts the oldest settled entry, the model any settled one. A command
is a record of person, id and input; fingerprints are equality of records.

`CommandContract` is the promise without maps and wires: an id is claimed by
one command, which acts once, whose outcome is decided once, and people are
told that outcome and no other. `KeepsContract` maps `phase` from the durable
table, the commands under way and what dispatch did.

### TurnSession

The turns of one thread: model loop, tool calls, approvals, steers, stops, the
expiry timer, failing disk writes, crashes, restart. The three memories of a
request are three variables: `pending` and `settled`/`open` (session and thread
object), `diskSettled`/`diskOpen`/`abandoned` (disk). `released` is a resolved
promise whose continuation has not run. `Settles` is `settleApproval` with its
two outcomes; `SessionCode` is the ladder of refusals of `resolveApproval`;
`AnswerWithoutSession` is the part of `dispatch` that comes before it;
`Welcomed` is `reconcileAfterRestart`. A crash of the model is also what the
code does when a rejected write is handled by nobody (`Dies`).

`ApprovalContract` is the promise: asked, closed once, carried out only after
it was accepted, never open for ever.

### SharedThread

One thread held by three parties: `disk` (the host's row), `copy` (the object a
running turn closes over and writes back), `row` (the hub's, derived from
`thread.upsert` and events). `Patched` is the table in `onAppend`, `Announced`
is `onThreadUpsert`, `Marked` is `markRunningThreadsUnknown`, `HostWelcome` the
welcome handler with its order: reconciliation, rows, buffer. The hub's
`openHelp`, which nothing reads, is left out of `row`; so are names, settings
and assignees, which travel the same way as help requests do on the host.

### TeamRoster

One team, one thread and its log, people with a tab each: who may look, what
they are sent, what they see.

| Model | Code |
|---|---|
| `role`, `approvers`, `invite` | memberships, approvers and invitations of `HubStore` |
| `thread`, `log` | the thread's row and events |
| `online`, `subs` | sockets that said hello, `ctx.subs` |
| `open`, `shown`, `lastSeq`, `viewers` | `state.subscribedId`, the messages on screen, `state.lastSeq`, the row of faces |
| `InviteCreated` ... `ApproverRevoked` | the team operations of `Hub.handleMessage` |
| `ThreadUpserted`, `Appended`, `ThreadDeleted` | `onThreadUpsert`, `onAppend`, the result of a deletion; a host's late write brings a deleted row back |
| `HubSubscribes`, `HubUnsubscribes`, `TabConnects`, `TabDrops` | `subscribe`, `thread.unsubscribe`, `onHello`, `onClose` |
| `TabSelects`, `TabLeaves`, `TabHears` | `selectThread`, `showFleet`, `onMessage` |

`barred` and `orphaned` are history. `orphaned` excuses presence that changed
while the row was missing: `broadcastPresence` finds no team then and tells
nobody, so what was shown stays stale after the row is back.

### The encrypted path: MembershipChain, EncryptedTaskLog, EncryptedHost, EncryptedRun

| Module | What it is | Its state in the code |
|---|---|---|
| `MembershipChain` | signed operations on a team's endpoints, grants and recovery kit; the hub's tables beside the log; challenges and their answers | the log of `enrollment.js`, replayed by `membership.mjs`; `endpoint_enrollments`, `project_grants`; `challenges` |
| `EncryptedTaskLog` | one task's sealed records, its writer at the host, a reader elsewhere, deletion and restoring | `encrypted-tasks.js`, `retention.js`, `EncryptedTaskWriter` and `EncryptedTaskReader` |
| `EncryptedHost` | how a host learns who may hold keys and what it does when somebody no longer may: the sweep with every request it makes | `EncryptedHost`, `FreshnessAuthority`, the sweep in `index.js`, `local-control.js` |
| `EncryptedRun` | the turns and commands of one task against its log and its disk, with restart | `EncryptedExecution`, `EncryptedTaskRun`, `EncryptedHost.apply` |

A hub handler that awaits a signature check is two actions: `checking` and
`answering` hold what passed its checks and is not yet written. A log is kept
as the state it replays to, and since the hub writes only one log its length
stands for its hash. Sealing is random, so a record carries a number of its own
sealing; the writer's saved record is compared with it on a retry. In
`EncryptedHost` the team's log is the sequence of what concerns this host.

The four take each other as given at one place each: the log of a task asks
only for the reader's grant, the host reads the chain as a sequence of
concerns, and a turn writes into the log through an append that succeeds, is
lost before the relay, or is lost after it. `MCEncrypted` therefore runs one of
them in each behaviour, chosen by `part`; the others keep their initial states.

### A person's own machine: AgentApp, CodexAdapter, Desktop, HostedLogin, ClientMailbox, OwnerRecovery, HostPairing

| Module | What it is | Its state in the code |
|---|---|---|
| `AgentApp` | threads, worktrees, turns, approvals, automations and the window of the single-player application | `Store`, `sessions` of `main.js`, `AgentSession`, `state` of `renderer/app.js` |
| `CodexAdapter` | one turn driven by a provider's process, in four kinds | `CodexAppServerBackend` and its two descendants, `CodexRpc`, `CodexExecBackend`, `ClaudeCodeBackend` |
| `Desktop` | the shell's child processes, boots, restarts, quitting and the things agreed to in a dialog | `main.js`, `lifecycle.js`, `local-runtime-rpc.js` |
| `HostedLogin` | browser and desktop sign-in, sessions, signing out | `HostedAuth`, `DesktopAccount` |
| `ClientMailbox` | delivery of sealed envelopes to a browser: drained, kept sealed, opened, journalled, applied | `EncryptedClient` and `MailboxJournal` of `apps/web/encrypted.js` |
| `OwnerRecovery` | making a kit, staging a store from it, publishing it, entering the recovery in the chain | the recovery functions of `EncryptedClient`, `owner-recovery-kit.mjs` |
| `HostPairing` | pairing a host by its code, registration, unpairing, restarts of host and hub, and the encrypted host started for the team | `pairings`, `pendingPairings` and `runtimes` of the hub; `teamId`, `pairingCode`, `encryptedHost` and what starts and retires it in `runtime/index.js` |

`AgentApp` keeps what main sends in `wire`, delivered in order; a window's call
is handled at once, because whatever main did before it arrives first anyway.
`CodexAdapter` lets promises run dry between two events (`Quiet`); the provider
prints into `pipe`, which is read later. In `Desktop` a `job` is a function of
the shell that waits. A request of `HostedLogin`'s desktop is handled in one
step and answered in another, or never. `ClientMailbox` numbers envelopes;
`excused` is what the code gives up knowingly (see below). In `OwnerRecovery`
the chain is its length, the kit it names and its last recovery; other devices
of the owner write to it too. In `HostPairing` a connection has two ends that see
its close in their own time; `missed` says that the last word on the pairing
did not arrive, `unheard` that this ever happened.

`MCMachine` runs one of the seven in each behaviour, again by `part`: they share
no state.

## Runs

| Run | Question | Bounds |
|---|---|---|
| `ledger` | Is nobody forgotten, nobody removed answered, the contract kept? | 2 people, 1 command each, a log of 1, 2 connections, 1 crash, 1 hub restart |
| `ledger_reuse` | Does an id act once and everybody get an answer when ids are reused? | 3 commands under one id, otherwise as above |
| `ledger_conflict` | Is a reused id always called a conflict? It is not. | as above |
| `turn` | Do approvals, stops, steers and receipts hold under races, failing writes and a crash? | 2 turns, 2 model calls, 2 requests, 1 steer, 2 faults, 1 crash; presets read-only and agent |
| `turn_unknown` | Does "unknown" mean never asked? It does not. | 1 request, 2 turns, 1 crash |
| `thread` | Do hub and host agree whenever nothing is under way? | 2 turns, 2 connections, 3 events before nothing new is asked, 1 crash, 1 hub restart |
| `thread_idle` | Does idle mean over? It does not. | 1 turn, 2 connections, 1 crash |
| `thread_help` | Is an accepted help request kept? It is not. | 1 turn |
| `team` | Do seats come from valid invitations, does authority end with the seat, does content reach members only, and do presence and transcript follow the hub? | 2 people, a tab each, 2 invitations, 2 events, 2 seats given, 1 lost connection, 1 message in flight per tab |
| `encrypted` | Do the hub's tables follow the signed log, are answers current, is there one history, does a deletion last, does a removed device stay out, is the task's history true to what happened? | 3 devices, 3 operations, 2 requests between check and write; 2 sealed records, 1 loss; 2 concerns, 2 starts; 2 turns, 2 commands, 2 faults |
| `machine` | Does the window tell the truth, are the adapters' reports true, is what was agreed to what happens, does the client keep what it needs? | 2 threads, 1 turn, 1 steer; 1 approval, 2 tools, 2 steers; 4 processes, 2 boots, 3 requests, 2 signers; 3 sessions, 2 polls; 2 envelopes, 1 recovery, 1 fault; 4 records, 2 stores, 1 fault; 2 teams, 2 connections, 2 starts |
| `app_delete` | Does deleting a thread leave the project's directory alone? It does not. | as `machine` |

The bounds let each hazard happen: a log of one entry is at its limit with the
second command; two connections overlap, and the first closes after the second
is registered; two faults are what it takes to lose both the record of a
request and the last write of its turn; a request of an earlier turn is
answered in a later one. Two of a kind are enough for every race here, as no
handler compares more than two commands, requests or connections.

In `machine`, a ceremony is continued from disk after a fault, and a second one
adds little: the mailbox and the recovery also hold with two faults each, which
the run leaves out for its time. Two connections are what it takes for one to
be registered while the close of the other is not yet seen. In `encrypted`, two
starts of a host, two concerns in either order and a recovery after a removal
are what the sweep has to tell apart. The state spaces of the parts of a run
add up and do not multiply, which is what lets them share it.

The runs that may come to rest say `CHECK_DEADLOCK FALSE`: nobody has to send a
command, and a host at its last connection may stay away.

## Fairness

Handlers of a live process run when they are due: messages on a live socket are
read, a lost socket's close event is delivered to both ends, continuations of
resolved promises run, timers go off. Model calls of a turn that was told to
stop end, because its abort signal ends the stream; nothing is assumed of other
streams, of people, of the network coming back, or of crashes. That a lost
connection is eventually noticed rests on TCP, as the code has no heartbeat of
its own.

## Theorems

Eight modules hold proofs: one for each of the first four, one for the encrypted
path, three for a person's own machine. Each proves what its run checks on a
small instance for every value of the constants, from the named assumptions of
its modules and nothing else, except where said below. Every proof follows one
plan: an inductive invariant with its parts named, `Init`, one lemma per
action, and the theorems at the end. Where a module has many actions that touch
little, a lemma (`RunMoves`, `MovesInv`, `ControlMoves`, `StepNow`) lists what
there is to show of any step, and the actions cite it.

| Module | Theorems | Inductive invariant |
|---|---|---|
| `CommandLedgerProofs` | `TypeCorrect`, `AtMostOnceHolds`, `LogMatchesPendingHolds`, `WaitersAreMembersHolds`, `NobodyForgottenHolds`, `ContractKept` | `ClaimInv`, `HubInv`, `OutcomeInv` |
| `TurnSessionProofs` | `TypeCorrect`, `NothingUnapprovedHolds`, `OneAnswerSettlesHolds`, `OpenMeansWaitingHolds`, `NoWorkAfterStopHolds`, `NothingForgottenHolds`, `CompletedMeansHeardHolds`, `ContractKept` | `TurnInv` |
| `SharedThreadProofs` | `TypeCorrect`, `EventsInOrderHolds`, `AbsentHostRunsNothingHolds`, `SettledThreadIsOverHolds`, `MirrorFollowsTurnHolds` | `ThreadInv` |
| `TeamRosterProofs` | `TypeCorrect`, `ApproversAreMembersHolds`, `TranscriptInOrderHolds`, `PresenceCurrentHolds`, `SeatsAreGrantedHolds`, `OnlyMembersToldHolds` | `RosterInv` |
| `EncryptedProofs` | `ChainTypeCorrect`, `HubFollowsChainHolds`, `ProofsAreCurrentHolds`; `LogTypeCorrect`, `OneHistoryHolds`, `DeletedStaysDeletedHolds`; `HostTypeCorrect`, `RemovedStaysOutHolds`; `RunTypeCorrect`, `TaskHistoryTrueHolds`; `EncryptedTypesCorrect` | `ChainInv`, `LogInv`, `HostInv`, `RunInv` |
| `MachineProofs` | `ClientKeepsHolds` | `DeskInv`, `PairInv`, `MailInv`, `RecInv` |
| `AgentProofs` | `ReportsAreTrueHolds`, `ConsentHoldsHolds` | `AdapterInv`, `LoginInv` |
| `AppProofs` | `WindowTellsTruthHolds`, `MachineTypesCorrect` | `AppInv`, stated in `AgentProofs` |

The arguments, and why the properties are not inductive by themselves:

- **Commands.** A step that runs a command must know that it has not run
  before. `ClaimInv` says that ids are unique in the durable table, that what
  runs or ran is in it as claimed, that a command under way that has not acted
  has count zero, and that a completed entry has nobody under way: the claim is
  written before dispatch, and a crash empties only `active`. `HubInv` keeps
  the hub's two maps together with `RoutedOverLive`: what is in flight was
  routed over a connection whose close is still to come, so a close leaves
  nobody behind.
- **The command contract.** `ContractKept` shows that every step is one of
  `CommandContract` under the refinement mapping, or none. `OutcomeInv` is what
  it needs: an answer on the wire, in the host's buffer or in the hub's log is
  the outcome of the command with that id. This takes `NoIdReused`, an id names
  one command, as a hypothesis of the theorem: the client draws every id at
  random (`apps/web/app.js:512`), and without it people can be told the outcome
  of another command, as `ledger_conflict` shows. The other theorems hold with
  reused ids too.
- **Turns.** `TurnInv` relates the three memories of a request. What a turn
  waits on is its last request, unsettled in memory, on disk and before
  teammates (`WaitInv`); memory goes beyond the disk only by cancellations
  whose write failed (`MemoryInv`); nothing is known of a request not yet made
  (`FreshInv`). `ContractKept` maps its steps to `ApprovalContract`'s.
- **The thread.** The hub's row is behind the host by what is on the wire, and
  by what is buffered. `SeenInv` says that reading all of it makes the row show
  the turn as it is, or as over. "What a row becomes" is recursive, and
  induction over data is out of the provers' reach; `Becomes` therefore names
  the rows in between by a function, and lemmas say how it grows at either end.
  `OrderInv` says that a connection carries events in order, that the
  registered one carries none that was applied, and that what is buffered is
  newer than both.
- **The team.** `ScreensOK` says that what is on its way to a tab is newer than
  what it shows and than what comes before it, `PresenceOK` that a subscribed
  tab will hear, or has heard, who looks. A tab has the thread open exactly if
  the last request it has under way asks to see it (`RequestsOK`).
- **The chain.** What was checked against the log is written only at the same
  length, so the check still holds (`ChecksInv`, `AnswersInv`); the tables
  follow the log entry by entry (`TablesInv`).
- **The task's log.** While nothing is lost the hub has every record that was
  sent, except the one the writer keeps as pending, and that one comes next
  (`PendingInv`). A record is numbered no later than it is sealed, which bounds
  everything that is kept anywhere (`SealedInv`).
- **The encrypted host.** What the room was rotated for is at or below the
  disk's floor, and what a sweep goes on with is at or above what the room was
  rotated for (`SweepInv`), so a device that a rotation left out gets no
  session again, whichever reply is late. The fence is on disk before a deleted
  task's turn is stopped (`FenceInv`).
- **A task's run.** What the relay has, what is pending and what a turn has
  still to send are treated alike: it is out, and what is out is true of the
  disk (`TruthInv`), because the record is saved before the entry is queued. A
  turn told to be lost has nothing more to say (`LostIsOver`); a pending
  request is one the record knows has failed (`PendingFits`), so a restart is
  told only when every request is answered.

- **The desktop shell.** A host uses the signer that was agreed to because an
  order to commit is only obeyed for the proposal it names and while the signer
  is still the one the proposal saw. `OneInv` says that the request under way is
  the last its host was sent, so a late order of an earlier one meets a proposal
  that remembers another signer; `SignerInv` follows what was set to what is in
  use. `UpInv` says who still owns a process while several functions shut down.
- **Pairing.** Unless a word was missed, the last word on the pairing is on its
  way to the host or on its disk (`WordInv`); a code that paired is presented by
  nobody who has read so (`CodeInv`). `StoreInv` says which start, host or
  closing holds the crypto store, and that a start waits for everything retired
  before it, so two are never open.
- **Sign-in.** Every session is traced back to the ticket or login that made
  it, which is used up by then (`TokenInv`), and a number in an answer, on disk
  or in a call is that of such a session (`CallInv`).
- **The mailbox.** An envelope that can be opened is at the hub, in the answer
  of a drain, sealed on disk and unopened, in the journal, applied, or excused
  (`SafeMail`); `WorkInv` says how far the delivery under way has come, step by
  step between its awaits.
- **The recovery.** A store the chain names is in use or staged, with the epoch
  the chain has for it (`ReachInv`), at every step of the ceremony (`StepInv`).
- **The adapters.** Steers are numbered as they are accepted: delivered, given
  to a process, waiting (`CountInv`). The provider is at most one steer ahead of
  the adapter, and only while its answer is in the pipe (`RpcInv`, `ExecInv`);
  nothing in the pipe or kept early says completed before the provider did
  (`EndInv`).
- **The window.** Every part of `AppInv` speaks of the page together with the
  messages still on their way to it: the last that marks a thread tells whether
  a turn has it (`MarksInv`), a request is open or its end follows (`AsksInv`),
  and a message that is told is on the row or about to be (`ToldInv`). While
  the person did not overtake an answer, the window waits for one thing at a
  time (`OneWait`), so what it shows and what is coming make up the row
  (`ShownInv`). `AppInvAt(w, p)` takes wire and page as arguments, because a
  step puts messages on the wire and the window reads one in the same action.

Assumptions worth a word: `None` names no event and is no record
(`EncryptedTaskLog`), a tab and a device belong to one person each, a chain has
its first record (`OwnerRecovery`), what is agreed to is none of the shell's own
functions (`Desktop`), `"none"` is no thread (`AgentApp`), and bounds are
naturals. The theorems rest on no fairness. Where an argument needs the least of
a set of numbers it takes it from the well-foundedness of the naturals, a
library theorem (`Least`).

TLC only: liveness (`EverybodyAnswered`, `StopEndsTurn`, `UnknownPasses`, and
the fairness half of `ApprovalContract`), as the provers do not reason about
`ENABLED`. The theorems of the two shared runs (`EncryptedTypesCorrect`,
`MachineTypesCorrect` and the four properties of `machine`) are stated of the
run's own specification, in which each behaviour takes one part's steps.

## Where the code and its words part

- A reused id can be answered with the outcome of another command
  (`ledger_conflict`): results are matched by id alone, and neither layer
  remembers every id.
- An approval request lost in a crash is answered `unknown_approval_request`
  once another turn runs (`turn_unknown`).
- The row reads idle for a turn nobody said ended (`thread_idle`): the host
  never stores "active", so reconnecting with a live turn, or after a crash
  with no approval open, announces idle.
- A help request accepted while a turn runs is overwritten by the turn's copy
  of the thread (`thread_help`). Name, settings and assignee are lost the same
  way.

- Deleting a single-player thread while its worktree is still being added
  deletes the project's directory (`app_delete`): the new row says `worktree`
  and has the project as its `workDir` until `git worktree add` returns.

The rest of this section is what the models show beside the runs, each
reachable within the bounds and named in the properties it had to be kept out
of, or left without a property because the code makes no promise about it.

Team. After a reconnect a tab subscribes from the last event it has
(`apps/web/app.js:303`) and then clears the transcript to show the snapshot
(`:592-600`), so only what came since is on screen; README.md:87-88 of the
repository promises replay "from seq N". Unpairing a host removes it from the
registry before its socket closes, so its threads are not marked unknown.

Pairing. The word of a pairing, or of its end, is sent once and may be lost. A
host that missed `paired` is welcomed as paired but does not take its team from
the welcome (`runtime/index.js:190-199`), so it refuses commands as
`runtime_unpaired` until it is unpaired and paired again. One that missed
`unpaired` presents no code, is told to pair again "from its local code"
(`server.js:531`), and makes one only when its process starts again. A code can
pair twice after such a loss, or when the shell, which makes one code per run
(`main.js:82`), starts its host again, although `index.js:373` says that "a code
authorizes one pairing cycle"; `HostFollowsPairing` excepts both. A host that
reconnects before the hub saw its old connection close is refused, its code
being "already in use" (`server.js:533`), until that socket breaks as well.

Encrypted path. The hub's grant table also holds the owner's own projects,
which the signed chain does not list (`encrypted-tasks.js:36`). The owner's
endpoints may revoke each other (only the first may not revoke itself) until
none is verified; without a kit nobody can then sign for the owner. A command whose append fails in transport is answered
`rejected` for good while its record is pending and sent with the next append
(`encrypted-host.js:629-642`). A request whose own append failed after the
host had settled it stays open in the log (`encrypted-execution.js:81-84,
159-160`), so `TaskHistoryTrue` claims closure only for turns lost in a
restart. After a restored snapshot content is older than what was acknowledged,
and `OneHistory` holds for `losses = 0` only. After a new freshness signer is
committed the host polls no more until it is started again.

Mailbox. A drain hands envelopes out for good: when its answer is lost, or
saving the batch fails, they are gone, and only history can be asked for again.
These, an epoch that has moved on, a deletion, and a reload between opening and
saving are `excused`; `MailIsKept` says that nothing else is. An envelope from
a host nobody confirmed stays sealed without bound. A handoff accepted across
`await importHistory` may write a task's admission back after the deletion was
seen.

Owner recovery. When the page stops between making the recovered store active
and removing the stage, the person is offered to resume it; resuming writes
`staged` over `published`, and the next load refuses the active store
(`owner_recovery_inactive`), with no way left to stage another.
`RecoveryInReach` therefore excepts a store whose stage is left. Two devices
that prepare the same generation put their kits in the same place; the later
put replaces the sealed kit of the one whose announcement wins. A stage is
removed by success only: once another device recovered, it can neither be
resumed nor replaced.

Single-player. A cancelled demo goes on running commands and writing. A first
message can go to a thread that was selected while its own was being created.
Requests made while another thread is shown have no card later. A new turn can
start on a thread while its worktree is being removed.

Adapters. The Claude adapter takes any end of the process for success, and
answers steers as queued that it never delivers. A steer that arrives after the
provider's turn is over fails a turn that was completed. The exec adapter takes
steers out of the queue before they are acknowledged; those beyond
`MAX_STEER_FOLLOWUPS` stay in it.

Desktop and sign-in. A retry overlapping a boot can start two hosts
(`main.js:614-628`), although `lifecycle.js:57-59` speaks of one. Configuration
is written from a copy read before a wait (`main.js:540-551`), so something
agreed to meanwhile is lost. A host that does not answer in time counts as idle
and quitting is silent. A signer may be in use although the person was told it
failed, never the other way round. Two people can both be told they approved
one sign-in (`auth.js:169-173`); the later one's session is given. A session
whose exchange answer was lost stays alive unknown to anyone.

## Not modelled

Cryptography is a library: sealing, opening and signing are what they promise,
a record opens for who holds its session and a signature names its signer. The
programs of providers, git and GitHub are external and do anything their
protocol allows. Path checks, file search, rendering, packaging and release
scripts are left out; `PROJECT.json` gives the reason for each. In
`CommandLedger` and `SharedThread` the pairing is fixed, as `HostPairing`
models it apart from commands and threads. One-time keys are not modelled, and
there is one thread, task, host and
mailbox per model (`AgentApp` has two threads): the 200-row limit of
`listThreads`, for one, needs a fleet. Steers still queued when a turn reaches
its limit of rounds are dropped in the model as in the code, and
`CompletedMeansHeard` excludes the case by name.
