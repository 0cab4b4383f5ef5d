# cxweb in TLA+

cxweb is a local gateway (Rust, `crates/` and `apps/`) that lets Codex clients use a
ChatGPT web session as a model. A request for an owned model is turned into one
temporary chat in a managed browser: the prompt is typed, **Send** is clicked, the
answer is read from the page and translated back. Everything else is forwarded to the
native service. The hard part is that clicking Send cannot be undone, cannot be asked
about afterwards, and costs the user a message; so the program records what it is about
to do in a durable ledger, never repeats a click whose fate it does not know, and puts
the user's configuration back before it lets go of the client.

This directory models the concurrency, the failure handling and the durable state of
that program, checks the models with TLC on small instances and proves the properties
that matter most with TLAPS for every value of the constants.

Paths below are relative to `src/`; `runtime/` stands for `crates/runtime/src/`.

## 1. The system

### Components

| component | source | state it keeps | module | how much |
|---|---|---|---|---|
| Turn state machine | `crates/domain/src/lib.rs` | none (a pure type) | `TurnStates` | all |
| Turn ledger | `runtime/ledger.rs` | SQLite rows: request, session and input digests, state | `Ledger` | all but diagnostics tables |
| Scheduler | `runtime/scheduler.rs` | two semaphores, the set of busy sessions | `Scheduler`, `TurnLease` | all |
| Browser owner thread | `runtime/managed_driver.rs` | command channel, leases, orphaned pages, per-lease submission latch | `ManagedDriver` | the turn commands; the others by their outcomes in `Disconnect` and `Setup` |
| Turn coordinator | `runtime/turn.rs`, `crates/browser-adapter/src/turn.rs` | in-flight turns with their trackers, the replay cache | `Coordinator`, `SubmissionOnce` | all |
| Gateway admission | `runtime/gateway.rs` | accepting, maintenance, active, active_turns, cleanup_failed | `Gateway` | `WebAdmission` whole; routing is I/O |
| Disconnect lifecycle | `runtime/lifecycle.rs`, `host.rs` | DisconnectState, the serial lock | `Disconnect` | all but the two files, which are in `ConfigJournal` |
| Web recovery | `runtime/web_recovery.rs` | the slot of the restored provider, its health | `Disconnect`, `EffortRoutes`, `Health` | every cancellation point and failure |
| Configuration journal | `runtime/config_journal.rs`, `crates/platform/src/atomic_file.rs`, `crates/codex-adapter/src/config.rs` | journal file, the user's configuration file, phase, startup task | `ConfigJournal`, `UndoLog` | all; texts are the keys that a patch reads and writes |
| Setup, generation handoff | `runtime/control.rs`, `generation_handoff.rs`, `setup_owner.rs`, `activation.rs` | the worker's browser, the handed-over session, the prepared installation | `Setup` | every command; one route stands for all |
| Control plane | `runtime/control_protocol.rs`, `control_pipe.rs`, `remote_control.rs`, `installed_control.rs` | receipts, the worker, the cached status | `ControlService` | operations and receipts; read-only commands left out |
| Uninstall, session deletion | `installed_control.rs`, `crates/platform/src/session_data.rs` | what the tool has seen of the installations | `Uninstall` | prepare_uninstall, clear_local_session |
| Browser adapter | `crates/browser-adapter/src/pipe.rs` and `dom/` | the calls on the pipe, what the page shows | `BrowserPage`, `ModelMenu`, `AccountMenu`, `BrowserTargets` | calls, menus, account, replacement; DevTools framing left out |
| Reasoning efforts | `managed_driver.rs` (Route, Binding), `web_recovery.rs` (Receipt) | binding in journal, driver and catalog | `EffortRoutes` | all; three names for five |
| Web provider, compaction | `runtime/web_provider.rs`, `staged_compaction.rs`, `compaction.rs`, `checkpoint.rs` | stage cache, sealed checkpoints | `Compaction` | one client call at a time; encryption is its promise |
| Client sockets | `runtime/native_ws.rs`, `web_ws.rs` | one connection's queues, published events | `ClientSocket` | all but tool rewriting (`web_tools.rs`) |
| Model lists | `runtime/catalog_proxy.rs`, `catalog_snapshot.rs` | tags, the merged list | `CatalogList` | delivery; encoding of an entry left out |
| Health | `runtime/health.rs`, `native_health.rs` | last observations, attempts by sequence number | `Health` | all but time stamps |
| Native route | `runtime/native_probe.rs`, `live_probe.rs`, `native_fixture.rs` | the qualification of a client and its report | `NativeProbe` | the qualification; forwarding is I/O |
| Quality journal | `runtime/quality_journal.rs`, `protocol_qualification.rs` | `attempts.json`, `report.json` | `QualityRun` | all; two cases |
| Runtime update | `runtime/runtime_update.rs`, `crates/platform/src/binary_update.rs` | programs, backups, locks | `RuntimeUpdate` | all |

Not modelled: *client presence* (an operating system query without state), the *protocol
adapters* (`crates/codex-adapter`: parsing and encoding of JSON, below what the properties
tell apart), the context budgets, and the operating system calls of `crates/platform`
that keep nothing. `PROJECT.json` ("components") has the details of what "partly" leaves out.

### How they interact

A client calls the gateway, which admits the call (`WebAdmission::acquire`) and spawns a
worker; the worker calls the provider (`Compaction`), and the provider calls
`Coordinator::execute`. That is one *turn*, and it crosses four boundaries, each with its
own failures:

1. **Scheduler** (shared memory): an admission permit, then the session set, then the
   FIFO wait for the single generation permit.
2. **Ledger** (SQLite, durable): every move of the row is one transaction and may fail.
3. **Browser owner thread** (a bounded channel of 32 commands, one reply channel per
   command): a call can be refused because the channel is full, can outlive the caller's
   timeout, and can be answered after the caller stopped listening.
4. **The provider's page**: an answer may stay silent, become ambiguous, fail explicitly,
   fail without attribution, or complete.

Cancellation (a dropped HTTP future, a disconnect) arrives through a token at any of
them, and the process may end anywhere.

Around the turns: the *desktop* and the installer talk to the running host through the
control pipe (`ControlService`), whose operations set the bridge up (`Setup`), restore or
extend the session (`Disconnect`, `EffortRoutes`) or take it away (`Disconnect`,
`Uninstall`). Each of them may run only when the gate of the gateway lets it (`Gateway`),
needs the browser profile for itself (`Setup`, `BrowserTargets`), and leaves its trace in
two files that no single write covers (`ConfigJournal`). The client sees all that only
through what it is sent: events (`ClientSocket`), lists of models (`CatalogList`), and the
health report (`Health`).

### What is hard

* *Unknown outcomes.* Submit times out while the owner thread may be before, in or after
  the click; a call over the browser's pipe that timed out runs later.
* *Copies of one state.* Ledger row, `TurnTracker` and the coordinator's own idea of the
  row; the binding in journal, driver, catalog and client; journal, configuration file and
  scheduled task.
* *Duplicates and retries* of client requests, of control operations, of turns after an
  explicit failure, of summaries after a failed stage.
* *Late and lost replies.* A `Prepared` that arrives as the caller gives up leases a page
  nobody will release, unless the owner thread takes it back.
* *Durability order.* "Submitting" must be on disk before the click; "Completed" before
  the delivery; how to undo an edit before the edit.
* *Shared resources freed one by one*: generation lease, profile lock, update locks.
* *The user*, who edits the file, closes windows, changes account, effort or workspace
  between any two observations of the program.

`PROJECT.json` ("hazards") has the whole list, each at its line, with the properties
that would catch it. One has a note instead (`web_recovery.rs:684`).

## 2. The modules

```
TurnStates --- Ledger ---.
   |                      \
   |   ManagedDriver ---- Coordinator --- TurnProperties          -> MCTurn
   |                     (SubmissionOnce, TurnLease: abstract)
   |                                      CoordinatorProofs
   |
   +- BrowserPage   ControlService   Compaction   CatalogList     -> MCEdges
                                      EdgesProofs, CompactionProofs

Gateway --- ClientSocket, Health, NativeProbe                     -> MCGateway
  |                                   ServiceProofs (ClientSocket, Health), ProbeProofs (NativeProbe)
  |
  +- Disconnect                                                   -> MCDisconnect
                                      DisconnectProofs (with Gateway)

Ledger, Scheduler (TurnLease: abstract), Setup, ModelMenu,
AccountMenu, BrowserTargets, EffortRoutes                         -> MCParts
                                      BrowserProofs (with Setup, Scheduler)

ConfigJournal (UndoLog: abstract), QualityRun, RuntimeUpdate,
Uninstall                                                         -> MCJournal
                                      DiskProofs
```

An arrow leads to the MC module that instantiates a group for TLC. Below a group stand the
modules with its theorems. `MCParts`, `MCEdges`,
`MCGateway` and `MCJournal` are *sums*: a variable `part`, fixed by the initial state, says
which of the components moves, and the others stay as they began. A sum is no
composition; it only lets one TLC run check several small machines, whose properties each
read the state of one. (`Ledger` and `Setup` are also composed, in `Coordinator` and by
contract in `Disconnect`.)

### Turn execution

**TurnStates** - `TurnState`, `Successors` (`TurnState::can_transition`) and
`TerminalStates` of `crates/domain/src/lib.rs`.

**Ledger** - `turns` is the table: a row or `NoRow` per request identity. `Admit`,
`Transition` and `Recover` are the three transactions; a refused call changes nothing
and is no step. Digests are model values; the diagnostics tables are left out since
nothing reads them.

**TurnLease** - the promise: at most `Active` holders, granted only when one is free,
returned only by its holder, lost with the process.

**Scheduler** - `Scheduler::acquire` and the drops of what it returns. The `phase` of a
call says which of the three resources it holds; every drop is an action, so that other
calls come in between. `waiters` is the FIFO queue of the tokio semaphore.

**ManagedDriver** - the owner thread. `queue` is the channel (its capacity is not a
bound here: any `try_send` may fail), `current` the command being executed, `page` the
fate of each page (`leased`, `orphaned`, `closed`, `lost` with the process), `send` the
latch of each lease (`fresh`, `latched`: attempt recorded but not clicked, `clicked`),
`reply` the one reply channel of a worker. A command in the queue has `open` false once
its caller has gone; `Take` skips those, except Stop and Release, as the `is_closed`
test of the loop does. `PressSend` is a step of its own, between the start of Submit
and its reply. A handle is a pair <<worker, attempt>>; the code draws random handles.

**Coordinator** - one worker is one call of `execute`. `pc` is where it is between two
awaits; every await (ledger transaction, browser call, back-off) is an action of its
own. A series of ledger writes is the sequence `plan`, written one transaction per step,
after which the worker continues at `after`; each write may fail (`WriteFails`), and `?`
then leads where the code's error path leads (`ErrorExit`: past the cleanup of the
page). `tracker` is the `TurnTracker`, `synced` the variable `state` of `run_prepared`.
`Track` is `TurnTracker::observe` as a function of the state and of what was seen;
`CatchUp` the intermediate rows written before a terminal one. `Cancel` fires at any
time and sets only the token; the actions that look at the token are those where the
code does. `Restart` ends the process: workers die, pages are lost, the replay cache is
emptied and the ledger stays *as it is*: `Ledger::recover` has no caller outside the
tests, so the row of a submission that was cut off says `Submitting` for ever (the comment
at `web_recovery.rs:254-255` expects "uncertain"; nothing is resent either way). The
client calls that arrive after the restart are those of the workers still idle.
`evidence` and `owner` are history variables: what has been read from each page, and
which call was admitted as new.

**SubmissionOnce** - the promise to the user about one request, without pages, queues
or timeouts: click, acknowledge, refuse, conclude.

**TurnProperties** - the properties of turn execution, the refinement
(`Promise == INSTANCE SubmissionOnce WITH ...`, `KeepsPromise`), and the use of the
scheduler (`Lease == INSTANCE TurnLease`, `UsesLease`; `Scheduler!ImplementsLease` shows
the other side, so the coordinator needs the scheduler only as `holder`).

**BrowserPage** - what a Submit of the owner thread does inside: the calls of one test
turn over the browser's pipe. A call waits 15 s; one that timed out is run later and its
reply read by a later call. One disturbance of the page per turn; the controls of an
answer without stop button count only when it is finished.

### The gateway and the web side

**Gateway** - `WebAdmission`. An actor holds one kind of lease; `work` says how far it
is, so that an error, its record and the drop of the lease are separate steps, as are
the two halves of dropping a maintenance lease. A panic is a path of its own. The drain
is a loop of three steps (`Arm`, `CheckDrained`, sleep) against which a drop's
`notify_waiters` races: `armed` is a notification that is enabled and not yet awaited,
`signalled` one that has fired already. Only the errors that the gateway records are
`WorkFails`; what else may go wrong inside the work is in `Disconnect`.
`spoilt` is a history variable.

**Disconnect** - the `DisconnectController` and the recovery of the web session, over the
leases of `Gateway`. `slot` is `PendingProvider.0` (what requests find: a provider, an
error, or nothing yet), `owner` says that `PendingProvider.1` knows a driver, and
`browser` who has the browser process and the profile lock. `step` follows the actor that
restores, signs in or qualifies from await to await; `Boot` is the recovery the host
starts with, `Op` the one control operation that the receipts of `control_protocol.rs`
admit beside a disconnect (only a qualification may be interrupted by one), `disc` the
disconnect, which holds the serial lock from its first step to its last. Stopping a
driver has three outcomes: confirmed, unconfirmed (the owner thread is gone either way), or
refused, because the thread had ended before or its queue is full. `lost` records during
what an exit was not confirmed, `reason` why the last disconnect failed: both are history.
`Stored` is `PendingProvider::finish`; `Failing` which error codes the gateway records.
The host polls its recovery before it reads the first request (`Serving`). Restoring the
configuration is one step that may fail; `ConfigJournal` has what is in it.

**ClientSocket** - one connection. The native service (external) answers in order and an
error event ends the head request. Heartbeats, pings, quota notices and the limit of 64
statuses change nothing here and are left out.

**CatalogList** - one request for the list at a time. The client keeps list and tag when it
changes accounts, the worst case; the service's tags name an account's list. While the
gate is shut for a maintenance the native list is served as it is (`gateway.rs:189` says so
on purpose), except that this also happens during the recovery of a sign-in (finding).

**Health** - a poll reads its sources one after the other while they change. The result of
the file and presence checks is arbitrary. Equal snapshots, time stamps and revisions are
left out; outcome classes are merged; a connected websocket counts as a success.
`ListsSpec` is the same machine without polls and without bound on the changes.

**NativeProbe** - the client (external) runs only calls it received and may ask again when
an answer was lost. A checkpoint that is retried makes the probe fail closed. What a client
still does after a failure is not explored, as nothing of it is reported. The 128
observations and 4096 messages, target identity and the standalone `serve` are left out.

**Compaction** - the provider around the coordinator, taken by its promise. One client call
at a time: concurrent calls of one identity are the coordinator's business. A failed or
uncertain stage is never run again (`E_REQUEST_ALREADY_ADMITTED`); after a restart completed
stages are `E_REPLAY_UNAVAILABLE`; a policy changed between two retries can give
`E_REQUEST_CONFLICT`: all fail closed.

### Setup, control and the page's menus

**Setup** - one profile passed between the worker, the sign-in window, the driver and the
installed host. `worker` is `ControlStatus` with the locals beside it, `generation` the
receipt of the handed-over session, `consumers` the holders of its lease, `owner` the
prepared and the active installation. After a failed `bind_generation` the generation keeps
the old installation id, so that a later activation is refused until the test is reset; a
failed apply cannot be retried in the process.

**ControlService** - operations, receipts and the two callers. The pipe is FIFO; an exchange
that times out may have been admitted or not. `earlier` counts the receipts of callers
that came before. Version and protocol errors and `OperationConflict` are left out.

**ModelMenu** - three layers of calls over a page whose slider moves later than the key.
A key whose result a call gave up waiting for is lost. Ranges start at 1; three efforts
instead of five, so the limit of four keys never bites.

**AccountMenu** - menu, switcher and settings read in turn; switching loads the page anew.
A menu may name a workspace and no account (no address or several). The settings, opened for the
account, then give one that nothing compares with the menu's, so a switch in between binds a pair
that no page showed: TLC finds it when `ScopeWasShown` is stated without its second disjunct.
No document excludes this, so it is no finding, but a maintainer should know.

**BrowserTargets** - replacing the browser of a profile. A tab opened between the last
inventory and `Browser.close`, or a draft typed after the probe, is lost: inherent.

**EffortRoutes** - receipt, driver binding, published catalog and what clients have read.

### Files

**UndoLog** - what preparing and undoing a change promises, without files or crashes.

**ConfigJournal** - `config` and `journal` are the two files, `task` the startup task, `mem`
what the process holds, `op` the file transaction under way. Between any two steps the user
may save and the process may end. Facts it shows that a maintainer should know: after a
journal write that reports an error but did replace the file the snapshot in memory is
stale, and explicit disconnects fail until the restart; a crash between the replacement of
the configuration and the phase write leaves phase Prepared with the route on disk (the
recovery finds it).

**QualityRun** - attempts and results of a frozen corpus; the clock may be set back (counts
as a failure); an answer whose result cannot be recorded counts as interrupted; edits of the
record by others between two runs are out of scope; `report.json` may lag.

**RuntimeUpdate** - two installers, two installations. All locks are taken before any
replacement and dropped one by one after it. An installation without a journal is passed over; one
that is disconnected keeps its journal and its task and is updated like any other; one whose
activation has no receipt of its task yet stops the installer. Restoring the old program is a look
at its place and then a rename that, on Windows, replaces a file that something else put there meanwhile, which is
kept nowhere; the comment at `binary_update.rs:131-133` ("never overwrite an unexpected file during
recovery") promises more. TLC finds it when `ProgramsAreKept` is stated without `Overwritten`; as it
stands it says that nothing else can be lost. A `ReplaceFile` that ends half-way together with the process leaves the
program only in its backup, and later updates fail.

**Uninstall** - one call per behaviour. Changes after the last look at a home are exempt (a
session may be deleted although an installation was activated after the listing, never
under a running driver). A removal that timed out goes on in the host.

Operators headed by a comment `Mutant:` are faults: the definition after them with one
plausible mistake. They are used by no specification; `PROJECT.json` ("mutants") says
which property catches which of them when it replaces the real definition.

## 3. The runs

| run | instance | what it shows |
|---|---|---|
| `Parts` | seven components apart: 2 requests; 4 calls in 3 sessions, `Active` 1, `Queued` 2; 2 accounts, 2 installations; 2 families, 3 efforts, 1 change of the page; 2 owners, 1 workspace, 2 switches; 2 tabs, 3 mishaps; the efforts | one call per session, no starvation, the lease is implemented; the session has one user and is the one that was tested; what was read of the menus was shown, and the two halves of a scope together unless the menu named no account; a profile has one browser; efforts are served as they were shown |
| `TurnDuplicate` | 2 calls of **one** request, 1 retry, 1 restart, fair workers | one sender, intent before click, the records agree, `SubmissionOnce` is implemented; no cancelled turn and no page hangs |
| `TurnPages` | 2 requests of one session, 2 retries, room for 2 pages | every leased page and every open row has someone to settle it |
| `Gateway` | four components apart: 3 holders of leases, 2 drains; a socket of 3 frames; a client and 2 native requests with 7 changes beside a poll; all 8 exercises with 2 faults | maintenance is alone, drains hold, no lost wake-up; nothing sent is revised or mixed; "ready" is earned; a report is true |
| `Disconnect` | 2 requests, the host's recovery, one operation, one disconnect, repeated | the configuration is restored only with the web side at rest; nothing is abandoned; every disconnect ends without its deadline |
| `Journal` | four components apart: 2 edits, 1 fault, 1 crash over two files; 2 cases, 2 failures; 2 installers and installations, 2 mishaps; 2 homes, 2 disturbances | `UndoLog` is implemented; no exposed key is forgotten, the user's text survives, the route goes away; first attempts count; an update loses no program of its own and leaves one version; an uninstall is clean |
| `Edges` | four components apart: 2 callers, 2 receipts, 1 restart; 1 turn of 13 calls; 2 tasks, 2 routes, 3 requests, 1 change; 2 accounts with 2 versions of their lists | an operation runs once or is refused; the status shows no lost test; the record of a test is true; a turn is taken once and for its own history; checkpoints open at home; lists are current |
| `DisconnectLost`, `DisconnectRefused`, `TurnReplay`, `HealthLists`, `CatalogRecovery` | small ones | findings (section 6) |

**Bounds.** Two calls are enough for what the properties of turns relate: pairs of calls of
one request, or two turns that meet in the session, the lease, the channel and the leases
of the owner thread. Four scheduler calls fill the generation permit and both queue places
and leave one to be refused, with two of them in one session. One retry exercises every path
of a retry, including the exhausted one (`MaxRetries` reached); `TurnPages` has two, the code
three. One restart may fall between any two steps; the calls after it meet every state
that a process can leave behind. `MaxLeases` is 2 rather than 8 so that the limit is
reachable. `ReplayLimit` is 1, so the cache evicts as soon as two deliveries meet.
`Oversized` (a delivery too large to be cached) is empty in the runs; it only makes the
cache forget earlier, which the eviction does as well. Three holders in `Gateway` give one
lease whose end wakes the drain, one that ends before it and one that tries to come in
between; two drains are two disconnects at once or one repeated. In `Disconnect` the number of
requests matters only through the leases they hold: two give a request that panics beside
one that works. Thirteen calls are one whole test turn; two tasks and routes are what a
checkpoint can be mixed up between; `Budget` and `StageItems` of 1 make every longer history
staged. The bounds called faults, mishaps, changes, edits and disturbances count what goes
wrong in one behaviour; the numbers are the largest that leave the runs at a few minutes,
and every mutant is caught within them. Units of `QualityRun`'s clock are chosen so that
`Spacing` is 1 and `RateBackoff` 2.

**Deadlock.** `CHECK_DEADLOCK FALSE` where a behaviour is a bounded number of calls, after
which nothing remains to do: the turn runs (each worker is one call; that turns do not
block each other is `NoTurnHangs`), `Edges`, `Journal` and the two list runs. `Parts`,
`Gateway` and `Disconnect` check deadlock.

**Fairness.** `PartsSpec` has, for the scheduler, weak fairness of what a call does without
anybody deciding: tokio polls woken tasks, drops run, its semaphore is FIFO. Whether a
running turn ends is not assumed but is the premise of `NoStarvation`. `FairTurns` is weak
fairness of each worker's own steps: every await in `turn.rs` except a page reading has
a timeout (preparing 90 s, submitting, verifying and releasing 60 s, stopping 2 s), whose firing is a step of
the worker, and a page reading is raced with the cancellation. Of the browser's owner thread
nothing is assumed, except that the part `PagesClose` of `NoTurnHangs` has its fairness as
a premise (its browser operations have transport timeouts). `FairSpec` of `Disconnect` is weak
fairness of each actor's steps, whose browser operations have deadlines of their own
(`web_recovery.rs`: 45 s and 90 s, the pipe's timeouts), of the disconnect's, and of requests
that were told to end; the user need not close the sign-in window and the disconnect's own
deadline is not counted on. `JournalFairness` (in `DiskSpec`) is weak fairness of a file
transaction under way, of reopening after a crash by the scheduled task, and of asking for
the disconnect again.

**Types.** Most modules have a type invariant. Those of the modules with proofs are theorems; all
of them hold on the instances of the runs. The runs do not repeat them: the properties
that they check fail, or cannot be evaluated, outside the types.

## 4. Reading the properties

* `RecordsAgree`: no interleaving of cancellation, failures and readings makes the
  coordinator ask for an illegal move (`E_TURN_TRANSITION`) or find a row it cannot
  resume (`E_TURN_STATE`); "Completed" is only recorded for an answer that was read complete,
  and a delivery is made or kept only for a completed row.
* `OneSenderPerRequest`: across duplicates and restarts all clicks for a request belong
  to one call.
* `IntentBeforeSend`: whenever Send may have been clicked, the durable row is past
  `ObservedBaseline`.
* `NoTurnLeftOpen` names its exceptions: `leaked` collects the pages that the code does leak
  until the process ends (a Release refused by a full channel, a page that could not be
  closed, a `Prepared` dropped with its receiver after it was sent).
* `NoTurnHangs`: a cancelled turn ends and gives its lease back; the page of a turn that is
  over is closed in the end, if the owner thread goes on and the page is not a leaked one.
* `RestoringIsQuiet`: what `run` relies on when it rewrites the user's configuration, from
  four parts of the system at once: the gate, the lease holders, the profile and the slot.
  Its exception (`"finish"`) is the finding `FailedCleanupBlocks`.
* `NothingIsAbandoned`: wherever cancellation, failure or a closed gate catches a recovery,
  it leaves no slot pending and no browser without an owner.
* `RunsOnceOrRefused`: also across lost exchanges and restarts of the service; a caller
  that is told an outcome is told the one the operation had.
* `RecordIsTrue`: on a pipe whose calls may run late, Send is clicked at most once and what
  the record says of the test is known.
* `NoKeyIsForgotten`, `UserTextSurvives`: what was exposed is on record before it is, is
  found again after a crash and goes with an uninstall; no text of the user's is lost or
  brought back, save one that falls between a commit's check and its replacement.
* `ReadyIsEarned`: each observation that makes a poll say "ready" held at some time while
  the poll lasted, and admission and native outcomes hold when it ends.
* `ListIsCurrent`: the tag decides what a client may keep, so it must tell apart accounts,
  versions, efforts and whether our models are in the list.

## 5. The theorems

All proofs are checked by TLAPS without unproved assumptions; the only facts assumed are
the `ASSUME`s on constants, which the runs' instances satisfy, all saying no more than
that identifiers are what they are called, that bounds are numbers, and that sets which are
finite in the program are finite and those that hold something are not empty.

| theorem | module | states | what it establishes |
|---|---|---|---|
| `LedgerTypeCorrect` | `CoordinatorProofs` | - | The ledger holds only whole rows, for any sets of requests, sessions and inputs. |
| `OutcomesAreFinal` | `CoordinatorProofs` | - | A recorded outcome is never revised, by transition or recovery. |
| `BindingsAreFixed` | `CoordinatorProofs` | - | A row keeps its session and input and is never deleted. |
| `SubmissionsAreNotForgotten` | `CoordinatorProofs` | `NeverTreatedAsUnsent` | A submission in flight is never recorded as cancelled or unsent. |
| `SchedulerTypeCorrect` | `BrowserProofs` | - | Type correctness of the scheduler for any workers, sessions and limits. |
| `SessionsHaveOneCall` | `BrowserProofs` | `OneCallPerSession` | Two calls of one session are never both past the session check, and the set of busy sessions is exactly that of the calls that entered one. |
| `SchedulerImplementsLease` | `BrowserProofs` | `ImplementsLease` | The generation permit refines the abstract lease. |
| `EventsStay` | `ServiceProofs` | `EventsAreNeverRevised` | What a client was sent of a response is always a beginning of it, however pages, progress and answer race, for any frames, statuses and length of the channel. |
| `SidesStayApart` | `ServiceProofs` | `SidesDoNotMix` | One response at a time is being shown, and a request builds only on a whole response of its own side that the client has, for any number of frames. |
| `ReadyHolds` | `ServiceProofs` | `ReadyIsEarned` | A poll that says ready does so only if, while it lasted, the page was verified and a client connected, and if nothing is in doubt and the newest native outcome is a success when it ends. |
| `ReportStaysTrue` | `ProbeProofs` | `ReportIsTrue` | A completed report means that exactly the calls of its exercise ran, in their order and with the results they should have, and that a checkpoint was answered from the checkpoint alone; calls that a report counts did run; and the patch never runs twice, nor before the test has failed where it repairs; for any number of faults, compactions and rounds of growing. |
| `CountersAreExact` | `DisconnectProofs` | - | The counters of the gate are those of the existing leases, for any number of holders and drains. |
| `MaintenanceExcludes` | `DisconnectProofs` | `MaintenanceIsAlone` | No lease is granted beside a maintenance operation. |
| `NoWakeupIsLost` | `DisconnectProofs` | `NoLostWakeup` | No drain sleeps when nothing is active. |
| `DrainsHold` | `DisconnectProofs` | `DrainHolds` | A successful drain is final, and succeeds only if all cleanup the gateway was told of is confirmed. |
| `IdleClosesCutNothing` | `DisconnectProofs` | `IdleCloseCutsNoTurn` | A disconnect when idle cancels no generation and no maintenance. |
| `TurnTypeCorrect` | `CoordinatorProofs` | - | Type correctness of turn execution for any number of workers, pages, retries and restarts. |
| `OneSender` | `CoordinatorProofs` | `OneSenderPerRequest` | At most one of the calls that present a request ever clicks Send, across duplicates, retries, timeouts and restarts. |
| `IntentPrecedesSend` | `CoordinatorProofs` | `IntentBeforeSend` | Whenever Send may have been clicked, the ledger row is durably past the baseline. |
| `TurnsUseLease` | `CoordinatorProofs` | - | Turns enter and leave one at a time, as the abstract lease allows. |
| `TurnRecordsAgree` | `CoordinatorProofs` | `RecordsAgree` | Ledger row, tracker, coordinator and replay cache of a turn never drift apart, so that no move is refused and no row is found in a state that cannot be resumed; completed and delivered mean what they say. |
| `NothingLeftOpen` | `CoordinatorProofs` | `NoTurnLeftOpen` | While the process lives every open row and every leased page has someone who will settle it, apart from the leaks and failed writes that are named. |
| `TurnKeepsPromise` | `CoordinatorProofs` | `KeepsPromise` | Turn execution implements SubmissionOnce: for each request at most one click of unknown fate, a bounded number of clicks, and an outcome recorded once that says only what is known. |
| `ControlTypeCorrect` | `EdgesProofs` | - | Type correctness of the control plane for any number of callers, receipts and restarts. |
| `OperationsRunOnce` | `EdgesProofs` | `RunsOnceOrRefused` | An operation starts at most once, never if its caller was refused or told that nobody knows it, and an outcome that a caller is told is the one it had, for any callers, losses and restarts. |
| `StatusIsNotStale` | `EdgesProofs` | `StatusShowsNoLostTest` | When nothing runs, the cached status does not show a test that no longer counts. |
| `RecordsAreTrue` | `EdgesProofs` | `RecordIsTrue` | However calls time out and replies lag behind, Send is clicked at most once, after its intent is on record, and what is recorded of a test turn is known, for any number of calls. |
| `ListsAreCurrent` | `EdgesProofs` | `ListIsCurrent` | A client ends with the list that it was told of, and loses our models during a recovery only beside a maintenance, for any accounts and versions. |
| `ProviderKeepsItsHistory` | `CompactionProofs` | - | The inductive invariant: there is a history for each task and window, and every row, cached summary and call was made of a beginning of it, for any tasks, routes, events, texts and bounds. |
| `OneTurn` | `CompactionProofs` | `OneTurnForItsHistory` | A turn is taken once for its own history: its prompt tells all that happened and shows the unanswered calls, and a call gets what was made of its own history, however often the history was summarised, cached, forgotten or presented again. |
| `OpensAtHome` | `CompactionProofs` | `CheckpointOpensAtHome` | A checkpoint opens in its own task and route, in every later window and process, and nowhere else. |
| `BrowsersAreReplaced` | `BrowserProofs` | `BrowserIsReplaced` | The profile never has two browsers, none runs outside its job or without an owner, and a replacement closes no tab and no draft that was there before, for any tabs and number of mishaps. |
| `ScopesWereShown` | `BrowserProofs` | `ScopeWasShown` | A session is bound to a context that one page showed, or, only when the menu named a workspace but no account, to an account and a workspace that were each shown while the scope was read: for any accounts and workspaces, however often the user switches meanwhile. |
| `EffortsHonoured` | `BrowserProofs` | `EffortsAreHonoured` | Every level that a client was ever offered is served by the one choice it was shown for, while journal, driver and list take a new set of efforts one after the other. |
| `MenusAreTrue` | `BrowserProofs` | `MenuIsTrue` | Every label that is listed, published or accepted was shown by the page for that very family, range and position; a discovery leaves the selection as it was or says so; all added efforts passed both tests, for any families, names and number of changes of the page. |
| `SetupTypeCorrect` | `BrowserProofs` | - | Type correctness of setup and handoff for any accounts and number of installations. |
| `ProfileIsExclusive` | `BrowserProofs` | - | At most one browser runs on the profile and its owner holds the lock. |
| `HandsOverWhatWasTested` | `BrowserProofs` | `SessionIsWhatWasTested` | A session handed over is signed in to the account that the accepted test ran under. |
| `ConsumersExclude` | `BrowserProofs` | - | A test, a host and a reset never use the session together, and a host serves its own installation's session. |
| `SessionIsExclusive` | `BrowserProofs` | `SessionHasOneUser` | Browser and lock have one owner and the session one consumer, for any accounts and number of installations. |
| `TestsAreNotCut` | `BrowserProofs` | - | A reset never takes the browser away from a test or its cleanup. |
| `DisconnectImplementsGateway` | `DisconnectProofs` | - | The disconnect, the recoveries and the control operations use the gate as Gateway describes it, so that what is proved of the gate holds of them. |
| `DisconnectTypeCorrect` | `DisconnectProofs` | - | Type correctness of the disconnect lifecycle and the recoveries for any requests and bounds. |
| `RestoresAtRest` | `DisconnectProofs` | `RestoringIsQuiet` | The user's configuration is restored only with the gate closed and empty, the browser gone and the recovery slot given up. |
| `RecoveriesAreSettled` | `DisconnectProofs` | `NothingIsAbandoned` | Every recovery settles its slot and its browser, wherever it is cancelled or fails. |
| `LateResultsAreDropped` | `DisconnectProofs` | - | A recovery that succeeds after the cancellation does not make the web available again. |
| `JournalTypeCorrect` | `DiskProofs` | - | Type correctness of the configuration journal through crashes, failed writes and user edits. |
| `UserTextIsKept` | `DiskProofs` | `UserTextSurvives` | What the user wrote in the configuration survives applying, disconnecting and reopening, for any original files and any number of crashes and failures. |
| `KeysAreNotForgotten` | `DiskProofs` | `NoKeyIsForgotten` | Our keys are never in the user's file without a record on disk that leads the next process and the uninstaller to them. |
| `ImplementsUndoLog` | `DiskProofs` | `KeepsUndoLog` | The configuration journal refines the abstract undo log, step by step. |
| `UninstallTypeCorrect` | `DiskProofs` | - | Type correctness of the uninstaller for any homes and disturbances. |
| `UninstallLeavesNothing` | `DiskProofs` | `UninstallIsClean` | A tool that succeeds leaves no key of ours and no journal that could put one back, cuts no turn, deletes no session under a driver and removes nothing before all were seen idle, for any homes. |
| `UpdateTypeCorrect` | `DiskProofs` | - | Type correctness of the update of the programs for any installations and installers. |
| `UpdatesAreSafe` | `DiskProofs` | `UpdateIsSafe` | The old program and every installed one is in place or backed up, a foreign one too unless it came between the last look and the rename of a restoring installer; no program is replaced before all were found in order; and installers that all succeed leave one version: for any installations and installers, wherever one fails. |
| `QualityTypeCorrect` | `DiskProofs` | - | Type correctness of the qualification run for a corpus of any size. |
| `EvidenceIsOfFirstAttempts` | `DiskProofs` | `FirstAttemptsCount` | No case of the corpus is sent twice, its first result stays, the report counts only what was answered and the pause is kept, through any crashes and clock changes. |

**Ledger, Scheduler.** A row's outcome is final because no terminal state has a successor
and `Recovered` leaves terminal rows alone. `OneCallPerSession` is inductive together with
the statement that the set `sessions` is exactly that of the calls past the session check; for
the lease one needs that the waiters in the queue are exactly those in phase `waiting`, each
once.

**ServiceProofs.** *Socket*: neither property is inductive. `SocketInv` says which
frames are still in the inbox (`FramesFit`: the last ones, in order), that a web turn is about
the last frame taken, with nothing native pending meanwhile (`ServingFits`), what the native
side still has to answer (`WaitingFits`: each once, none building on a web answer, only the
first one partly shown), and that what was shown is a prefix of the response (`ShownFits`,
`ResponsesFit`). The heart of it is `TurnFits`: the batches in the channel, cut one after the
other from where the published events end, make up the public summary (`Cut`, a function that
gives each batch its place), and the answer begins with that summary. `BaseFits`: a frame that
may be built on is the last one, and the client has all of it. *Health*: a poll puts its report
together from readings of different moments, so `HealthInv` says what a reading is still worth:
a provider read as verified was so since the poll began, a list that is found current belongs
to a list that was served to that client and still is the one offered (`PollFits`, `ListsFit`),
and the last native outcome is that of the newest request which has one, in whatever order they
end (`RequestsFit`). The proof showed that the order of the report's statements was written as
a `CASE` with overlapping guards, which TLC evaluates in order but the language does not; it
is now the chain of conditions that the code has.

**ProbeProofs.** The report says what ran; the program that writes it sees only deliveries,
notifications and files, so `ProbeInv` carries what ran through all of them. `DeliveriesFit`:
the fixture's deliveries are a beginning of its script, one for each request. `CallsFit`: whose
request it was, and that a turn has one at a time. `ToolsFit` holds a monotone map from the calls
that were seen in this phase to the deliveries of this phase (`Start` says where in the script it
began). `RanFits` ties the two histories: what was seen and not declined has run, and as long as
only the probe's own turn ran anything, what ran is what earlier phases ran (`Before`) followed
by what was seen. When a turn passes its check, the seen calls are the expected ones, the map
leaves no room for a further delivery, and so no other turn got a call either
(`ExerciseIsDone`). `PatchFits` needs the guard of the approval (`given`), and its second half
that a repair's test ran first. `RecallFits` follows the checkpoint: until the compaction no
request may have carried one, afterwards the counters of the transport tell which history the
client keeps. `FinalFits` says that after a success nothing is left to do, which a client that
is still running could otherwise spoil before the report is written.

**Gateway.** None of the properties is inductive alone. `GatewayInv` adds which stage of
work goes with which lease (`StagesFit`), that the flag `maintenance` is up while somebody
maintains, that nothing is accepted once any drain has closed admission (`StaysClosed`)
and that work which ended badly is recorded or still holds its lease (`Told`). The
counters tie `active = 0`, which is what the code tests, to the absence of leases, which
is what the properties say.

**Turn execution** (`CoordinatorProofs`) has four layers.

1. *Types.* `TypeOK` is not inductive: that a worker's `plan` is never empty when it writes,
   that `after` is a real place to continue, and that `retries` stays within `MaxRetries`
   depend on where the worker is. `TypeInv` adds `Control`.
2. *The sender.* `OneSenderPerRequest` and `IntentBeforeSend` rest on `SenderInv`. `Owned`: a
   worker that may ask for Send, has a Submit command in the queue or in execution, or has
   clicked, is the owner of its request. `Announced`: for each of those the row is durably
   past `ObservedBaseline`. The queue has to be in the invariant, because the click happens
   long after the worker asked for it, when that worker may have timed out, ended, or died.
   `UsesLease` follows from `HolderInv`: the workers inside a turn are exactly the holder.
3. *The records.* What ledger, tracker, coordinator, readings and owner thread know of one turn
   is kept in five places, and each place of the worker's program allows only some
   combinations. `TurnInv` says which: of its open command (`TalkOf`: at most one, of the kind
   it waits for, about the page of this attempt), its row (`RowOf`), its clicks (`SendOf`), its
   result (`ResultOf`) and its pages (`PagesOf`). The trick that keeps it small is that a worker
   with states to write is judged by the place it is going to (`Place`) and by the state its
   row will have there (`Heading`), and that its plan is a path of legal moves (`IsPath`). Two
   clauses are not about one worker's present: a Submit that nobody waits for any more may still
   be clicked, so `Unsent` are the clicks to come and `OutcomeFits` forbids them once an outcome
   that denies a click is recorded; and a page may outlive its worker (`Disposed`). `RowsBound`,
   `ClicksReported` and `CacheFits` tie the workers together. That a step of one worker leaves
   the others' part alone is proved once (`OwnStepKeepsTurn`, with `SenderInv` for the rows).
   `RecordsAgree` is read off `TurnInv`; `NoTurnLeftOpen` needs also that before the first
   restart no worker is dead (`Alive`).
4. *The promise.* `TurnKeepsPromise` maps the state to `SubmissionOnce` (`Outcome`, the clicks
   `SentFor` a request, the `Failures` among them, whether one is `Acked`). `AdmitNew` is Begin,
   `PressSend` is Click (all earlier clicks were failed, by `SendOf`, and there are at most
   `MaxRetries` of them since pages of one worker are numbered by its attempts), a reading is
   Acknowledge or Refuse, a `WriteTurn` of a terminal state is Conclude, and every other step of
   workers, owner thread and restarts leaves the promise alone.

**BrowserProofs, setup.** `WorkerFits` (what the worker's status says of the browser, the test
and the session it holds), `LockFits` (who has the profile's lock), `ConsumersFit` (which
consumers the handed-over session can have, and for which installation) and
`SessionIsExclusive`, proved command by command.

**CompactionProofs.** `ProviderInv` says: there are histories `H[t][w]`, one for each task and
context window, of which everything was made. They are no part of the state (the client forgets
the history of a window when it takes a checkpoint), so the invariant asks only that they exist;
a step of a client shows longer ones, every other step the same. In its window a history only
grows (`Longer`: so `Compaction` models the client), which is why what was made of the first n items that it showed stays made of
them (`MadeOf`, `GrowsKeeps`), and why a length says which history it was (`DrawnOnce`). So it
does no harm that different sources may get the same summary text: identities hold what the
program sees, in particular how much, and two requests with the same identity presented the same
history. `RowsFit` and `StagesFit` say of what the rows and the cached summaries were made,
`CallsFit` how far a call is (`Summarising` a beginning of its source, `Answering` with a prompt
that tells all, `Over`). `Tale` is what a history has for being told in full: opened, it
tells what it told closed, and shows no result before its call; appending an event
(`TaleGrows`) and replacing it by its checkpoint (`TokenTale`) keep it, and so does the prompt
of overflow compaction (`ContinuationTells`). The lemmas about the recursive functions
(`WithinSet`, `FlattenAppend`) need induction. The induction theorems of the library take an
operator and cannot be used, but that a set of numbers has a least one follows from the
well-foundedness of the strict subset ordering, and `Reaches`, `StepByStep` (a first value and a
step make a function) and `SameSteps` from that.

**DisconnectProofs.** After the gate itself, first that the lifecycle uses the gate as `Gateway` allows
(`DisconnectImplementsGateway`: every step maps to a step of `GatewaySpec` or a stutter), so
that `GatewayInv` holds of it. `DiscInv` then adds who owns the browser and the slot at every
await of a recovery, what the disconnect has shut, and which failures are remembered where. The
three theorems about it say that the configuration is restored at rest, that each recovery
settles what it took, and that a late success is not published.

**DiskProofs.** *Journal*: `JournalInv` relates, for each point of a file transaction, what is
on disk in the two files (`FileFits`), what the process believes (`ProcessFits`) and what a
crash would find (`PreflightFits`). The user's edits and crashes come between any two. The
refinement maps the two files to one step of `UndoLog`; edits are its `Edit`, everything up to
the replacement of the file is a stutter. *Uninstall*: `HomesFit`, `HostsFit`, `ListingFits`,
`CallFits` and `LockFits` say what the tool knows of each home and why it is still so.
*Update*: an installer that starts replacing has all locks (`ChecksFit`, `UpdateLocksFit`), so
nobody else works (`OneWorks`) before programs that nobody touched since they were validated
(`ProgramsFit`); the place that a restoring installer renames to was empty, or has a foreign file
that came after its look (`RestoresFit`), while its lock keeps other installers away. *Quality*: the record and the memory of a run agree case by case
(`EvidenceFits`, `MemoryFits`, `CaseFits`), also while it pauses (`PauseFits`).

**BrowserProofs.** *Replacement*: `TargetsInv` says from when on the launch holds job and owner
(`LaunchFits`), which probe of a draft is still good (`DraftFits`) and which tabs an
inventory must have seen (`TabsFit`). *Account*: `EvidenceFits`: a workspace and the account
that the menu named are of one showing of it (`NamedFits`); without a named account the two were
at least shown (`UnnamedFits`); settings are asked only for what the menu did not name; a row
of the plain switcher comes with its account. *Efforts*: `EffortInv`: the receipt extends what the
driver has, and every level ever published is honoured by the driver and canonical. *Menus*:
`MenuInv` follows three layers of calls (`CallsFit`) over a page that moves on its own. Every label
held anywhere is one that was shown (`LabelsFit`); on an untouched page at most one key is on its
way, and only while a pick waits for it (`KeysFit`); a discovery starts and ends at home
(`HomeFits`), keeps what it found by position (`FoundFits`) and tests each candidate
(`TestsFit`). That every name was found and no name twice is a pigeonhole argument
(`CompleteIsOneToOne`). Checking `MenuInv` with TLC before proving it showed a guard that the
model lacked: a set of efforts could be extended in the middle of its own scan, which the
code, where both are calls of one thread, cannot do.

**EdgesProofs.** *Control plane*: an exchange that was given up may still be admitted. The
invariant says that a live message is the last of its caller (the pipe is FIFO), that callers of
this instance without receipt never had an operation started, and that receipts, the worker and
the history of what was started agree. *Page*: in `PageInv` the call that is awaited is the last
one sent and belongs to this step (`PipeFits`); there is one click, in the pipe or done, and
only after the intent is on record, and a refusal is believed only if nothing was sent
(`ClickFits`); until the program stops it, a partial answer is still being generated
(`AnswerFits`); the record says no more than that (`RecordFits`). *Lists*: in `CatalogInv` a tag
of ours names the list that is held, and a request carries the client's tag or none (`TagsFit`);
a known client that asks during a recovery is sent on only beside a maintenance.

**Only model-checked.** `NoStarvation`, `NoTurnHangs`, the part `RouteGoesAway` of the
journal and the leads-to part of `DisconnectEnds` are liveness under fairness, which is out of
reach of the provers used here, as is ENABLED. Every invariant that a passing run checks has a theorem.
Induction over data is done where it is needed (`CompactionProofs`, by way of the least
counterexample); the models otherwise use functions and folds over small sequences.

## 6. Findings

`implementation/STATUS.md:2023-2025` says: "Recovery holds a gateway drain lease. Disconnect
cancels it and waits for its cleanup; a late successful result cannot republish after
cancellation. Failed browser cleanup prevents a successful disconnect result." The second
clause holds (`LateResultIsNotPublished`, part of `DisconnectEnds`); the others have a hole each:

* `FailedCleanupBlocks` (run `DisconnectLost`): the restore that ends a sign-in runs under
  `maintain_web`, which records `E_WEB_CLEANUP_UNCONFIRMED` only (`gateway.rs:226`), and
  reports `E_WEB_RECOVERY_CLEANUP` (`web_recovery.rs:281`). Nobody remembers the browser whose
  exit was not confirmed, and the disconnect succeeds.
* `CleanupFailuresAreReal` (run `DisconnectRefused`): a recovery cancelled after it has
  attached its driver stops that driver and leaves it in `PendingProvider.1`; the disconnect
  asks it to stop again, finds the channel closed and fails with `E_WEB_RECOVERY_CLEANUP`, as
  does every retry until the host restarts. Every exit was confirmed.

`implementation/STATUS.md:508` says: "Snapshot scope/generation changes invalidate earlier
catalog observations."

* `EarlierListsAreInvalid` (run `HealthLists`): the generation of a list is 1 whenever a
  session is activated or restored and 2 whenever its efforts were qualified. A list read
  before a qualification counts as current again after the next sign-in, and the client as
  healthy although it must be restarted.

`implementation/STATUS.md:1468-1471` says of requests for models during a recovery: "They no
longer return a successful native-only snapshot that can replace the client's merged catalog".

* `RecoveryHidesNoModels` (run `CatalogRecovery`): the recovery that ends a sign-in runs
  under `maintain_web`, which refuses every lease, so the request falls through to the native
  service and the client gets the native list alone, with status 200.

A comment in `runtime/web_recovery.rs:254-255` says: "Reuse the original scope and ledger
so completed deliveries replay and interrupted submissions remain uncertain instead of
resending."

* `CompletedDeliveriesReplay` (run `TurnReplay`): deliveries live in a queue in memory
  that starts empty; after a restart a repeated completed request is answered
  `E_REPLAY_UNAVAILABLE`.

## 7. What is left

* Client presence and the protocol adapters stay out: the first keeps no state, the second are
  conversions below what the properties tell apart.
