# ShellDesk in TLA+

ShellDesk is a desktop client for SSH hosts: a Rust backend (Tauri, Tokio,
russh) under a React frontend.  It keeps terminals and SFTP transfers on shared
SSH transports, keeps port forwards open, and synchronises its vault of hosts,
keys and settings with other devices through one document on a WebDAV server.
Several windows show and change the same vault and the same transfers.  This directory holds
models of the parts of it whose correctness depends on the order in which
things happen, the TLC runs that check them, and machine-checked proofs of what
matters most.  Every definition is translated from the source;
`PROJECT.json` maps each one to its file and lines.

Paths without a prefix are relative to `src-tauri/src/`; those beginning with
`src/` or `docs/` are relative to the repository.

## 1. Inventory

What the system consists of, the state each part keeps, and what makes it
correct.

| Component | State | Operations | Correct when |
| --- | --- | --- | --- |
| Connections (`connection.rs`, `state.rs`) | `connections`, `deferred_connection_closures`, temporary keys | connect, disconnect, close with the window, close after the last transfer | a close ends everything on the connection, and never something that should go on |
| Background transfers (`remote_fs/transfer_runtime.rs`, `transfer.rs`) | `active_transfers`, `transfer_cancellations`, permits per connection, history | enqueue a batch, run, report, end, cancel, retry | no two transfers write one target; what is active is what runs; the history settles |
| SSH transports (`ssh_transport_pool.rs`) | slots of a connection: session behind a lock, count of leases | reserve, connect, open a channel, give back, invalidate | one handshake for many clients, a bounded number of channels, nothing left after a close |
| Terminals (`terminal.rs`, `RemoteTerminal.tsx`) | `terminals`: a session and its task per id | start, replace, exit, close, restart | a terminal in the map has a shell, and a shell can be reached |
| Terminal output (`TerminalOutputFlow` in `terminal.rs`, `terminalOutputFlow.ts`) | pending and unacknowledged bytes, sequence numbers; a queue in the window | read, flush, acknowledge; enqueue, write, drop, hide, show | output is bounded and in order, and reading always resumes |
| Sync merge (`sync_backend/merge.rs`, `records.rs`) | none (functions of documents) | tombstones, merge of records and of the settings' credentials, shrink detection | no edit, deletion or credential is lost without a conflict |
| Sync protocol (`sync_backend.rs`, `webdav.rs`, `apply.rs`) | vault, baseline (`sync.json`), the server's document | sync, retry, refresh, ask the user, apply, commit | the baseline was once on the server; what one device wrote another never removes unseen |
| Sync schedule (`sync_backend.rs`) | a generation counter | reschedule, fire | only the newest schedule fires |
| Vault (`vault.rs`, `vault_storage.rs`, `config.rs`) | two JSON files and a cache behind locks | save collections, import, export | a save is whole or not at all |
| Host keys and prompts (`connection/host_keys.rs`, `ui_prompts.rs`) | known hosts, one-shot answers by request id | scan, classify, ask, answer, time out | every request ends, with one answer |
| Port forwards (`port_forward.rs`, `ssh_tunnel.rs`) | profiles on disk, runtimes with a generation | start, stop, fail, reconnect, save, delete | only the newest runtime of a profile reports; none outlives its connection |
| Transfer history (`transfer_history.rs`) | list of tasks, a writer's queue | record, prune, persist, load | the newest snapshot is written last; a restart ends what was running |
| SFTP (`remote_fs/sftp*.rs`) | partial files and resume metadata | upload, download, resume | a resumed file equals its source |
| Updater (`updater.rs`) | phase of the update | check, download, verify, install | nothing is installed unverified |
| Save queue (`src/features/vault/latestSaveQueue.ts`) | pending, running and newest save | enqueue, drain | what is reported as saved is stored; the newest value is saved last |
| Vault state of the windows (`src/App.tsx`, `src/tauriBridge.ts`) | collections, revision, persisted copy | load, edit, save, read again on an event | no window saves a copy without secrets; no old snapshot undoes an edit; all windows come to agree |
| Views of transfers (`useTransferQueue.ts`, `src/features/transfers/transferActivityStore.ts`) | tasks by id in a queue and in the transfer center | submit, pause, cancel, retry, remove; handle events and answers | when all is quiet a view shows what the history says |
| Tunnels and desktop proxies (`browser_proxy.rs`, `http_tunnel.rs`, `vnc.rs`, `rdp.rs`) | listeners by key | open, close | closed with their connection |
| Agent and plugins (`ai.rs`, `agent_sessions.rs`, `mcp_server.rs`, `plugin_security.rs`), databases (`database/`), monitoring, logs, local files | request and response | | conversions and I/O |
| Desktop shell (`app.rs`, `bootstrap.rs`, `ipc/`) | windows | dispatch a call, close a window | |

How they interact: the windows call the backend by IPC (`bootstrap.rs:10`), each
call an asynchronous command of its own, so calls are served concurrently and
may overtake one another; the backend sends events to the windows.  Backend
components share `AppState`, a record of maps each behind its own mutex.  Hardly
any operation holds two of them at once, so what was read in one lock section
may be out of date in the next: that is the source of most hazards.  Closing a
connection (`close_connection_by_id`) visits the maps of transfers, terminals,
transports, forwards, proxies and tunnels one after the other.  Vault and sync
are kept apart by `vault_operation_lock`, which key imports and configuration
imports do not take.

What is hard to test here: two threads between two lock sections; acknowledgements
and calls out of order; requests that fail or are answered late; a process that
stops between two writes; three devices with different pasts.  `PROJECT.json`
lists these hazards at their lines, each with the properties that watch it or
the reason why none does.

## 2. Plan

The order of work, the most important first, and what has become of it:

1. `TransferRuntime` — transfers against the close of their connection. *Done,
   proved.*
2. `SyncMerge`, then `WebDavSync` over it. *Done, proved but for what needs several
   devices' pasts.*
3. `TerminalOutput` — flow control between task and window. *Done, proved.*
4. `SshSessions` — transports, channels and terminals against the close. *Done,
   proved.*
5. `PortForwards` — runs by generation, reconnection, close. *Done, proved.*
6. `SaveQueue` and its abstract specification `LatestSave`; `VaultWindows` over
   it. *Done, proved; the queue implements `LatestSave`.* The two files of a
   save in the backend, and their crash, are left.
7. `TransferHistory` and `TransferViews` — lists, file and windows. *Done, and
   proved: the history and what the windows show.*
8. `Prompts` — request, answer, timeout, window closed; host key decisions.
9. `SftpResume` and the pipelined download; `Updater`; the sync schedule.
10. More abstract specifications: a lock table that `TransferRuntime` implements
    (a target is owned by one run from start to end), and last-writer-wins
    registers that `WebDavSync` implements while it asks nothing.

Theorems still worth proving: `NoSnapshotTakesBack` of `VaultWindows`,
`UnseenVersionsSurvive` and `NoResurrection` of `WebDavSync`.

## 3. The modules

| Module | What it is |
| --- | --- |
| `TransferRuntime` | state machine of transfers and closes |
| `TransferRuntimeProofs` | its theorems |
| `SyncMerge` | operators: tombstones, merge, credentials, shrink |
| `SyncMergeCases` | every case of one merge, as a state machine of three stages |
| `WebDavSync` | state machine of several devices and a server; extends `SyncMerge` |
| `SyncProofs` | theorems about every case of a merge and about the protocol over it |
| `TerminalOutput` | state machine of one terminal's output |
| `TerminalOutputProofs` | its theorems, and lemmas about joining and cutting chunks |
| `SshSessions` | state machine of the pool, its clients and a terminal |
| `SshSessionsProofs` | its theorems |
| `PortForwards` | state machine of forwards, calls on profiles and closes |
| `PortForwardsProofs` | its theorems |
| `LatestSave` | what a latest-wins queue promises: an abstract specification |
| `SaveQueue` | operators: the queue's record and what its functions do to it |
| `SaveQueueUse` | one queue among callers; implements `LatestSave` |
| `SaveQueueProofs` | its theorems, the refinement among them |
| `VaultWindows` | state machine of several windows, each with a `SaveQueue`, over one vault |
| `VaultWindowsProofs` | its theorems |
| `TransferHistory` | state of the history, the steps of jobs and of persisting |
| `TransferViews` | state machine of the history with two windows; extends `TransferHistory` |
| `TransferViewsProofs` | theorems about the history and the windows in that composition |
| `MC...` | definitions the configurations need |

Definitions marked "Mutant" in a comment are not part of a model: each is a
plausible bug in the definition after it, used to make sure that a property
would notice (section 6).

### 3.1 TransferRuntime

A *run* is one submitted job with the code it passes through:
`enqueue_sftp_transfers`, its spawned task, `TransferReporter` and the three
places that unregister it (`finish`, `drop`, the end of the job).  A *closer* is a
`disconnect` or the destruction of the SFTP window; a *canceler* is a call of
`cancel_transfer`.  One action is one lock section, so `pc` stands between two
sections and `arg` holds what a thread read in earlier ones.  `active`,
`cancellations`, `deferred`, `connections` and `history` are the maps of
`AppState`; `limiter` is the connection's semaphore.  The nested close at the end
of a run (`finish_deferred_connection_close`) is run by the same thread (`call`).

Left out: the transferred bytes, retries of single files, resume data.  The
result of a run is a choice.  `Rest` lets the system stay still when every
thread is done, so that a deadlock is a real one.

Two constants restrict the environment: `RetryWhileEnding` (an id is submitted
again while its last run winds down) and `SubmitWhileClosing` (a batch is
submitted while its connection closes).

| Run | Shows |
| --- | --- |
| `transfer_safe` | two runs with two ids and two targets, a closer and a canceler in every interleaving: targets are exclusive, a running transfer is registered, whatever looks active in the map or in the history has a run, a closed connection's transfers are told to stop; without a retry of an ending id |
| `transfer_deferred` | under fairness a deferred close behind a registered transfer happens; with no submission while the window closes |

Bounds: every hazard here is a race of at most three threads (two runs and a
closer or canceler) over one id, one target or one connection; with two ids and
two targets both the clash and its absence occur.

Fairness: a thread that has started goes on (the runtime polls every task) and a
transfer ends, since every SFTP request has a timeout.  Nobody has to submit,
cancel or close.

### 3.2 SyncMerge and SyncMergeCases

`merge_sync_documents` treats each id on its own, so the merge is stated for one
id: a record is its digest and its time, a tombstone likewise.  `LocalTombstone`
is `create_local_tombstones`; `MergeTombstone` and `MergeRecord` are the two loops
with their branches; `AdoptedKey` is `reconcile_settings_credentials`; the shrink
thresholds are constants.  Times are naturals: the code compares RFC 3339
strings of one format.

`SyncMergeCases` takes every combination of remote entry, local record, baseline
and the user's choice through a first and a second merge.

| Run | Shows |
| --- | --- |
| `merge_cases` | for three digests and three times: edits, deletions of others and credentials of either side are kept or reported, a second sync changes nothing |

Three digests and three times tell apart everything the code compares: equal or
different from the baseline, and the three orders of two times and the sync's.

`RemoteEditKept` is about records without a tombstone beside them.  With a
tombstone older than the record, a third device that still has the version
before the deletion removes the newer record (`merge.rs:164`); no property
states it yet.

### 3.3 WebDavSync

A device has a vault, a baseline and at most one sync in progress; `sync` holds
the local variables of `run_webdav_sync`, `pc` its place.  Each await and each
file write ends an action: `Inputs` and `Fetch` collect the two sides; one of
`AskEmpty`, `AskInitial`, `TakeInitial`, `AskMerge`, `MergeDocuments` is the
synchronous part between the GET and the PUT, with the questions it may return;
`Put`, `PutRefused`, `Verify` are the conditional write; `Recheck` compares the
footprint and starts again; `Apply` rewrites the vault and `Commit` saves the
baseline.  `Abort` ends a sync anywhere: a crash or a failed request.  Edits
happen only while no sync holds `vault_operation_lock`; imports of keys
(`ImportKey`) happen at any time.  Each edit is a new version with a time of its
own from a shared clock.

| Run | Shows |
| --- | --- |
| `sync_automatic` | two devices, a host and imported keys, one abort, three syncs that ask nothing: baselines are confirmed, no edit is overwritten unseen, no deletion is undone without a later edit |
| `sync_decisions` | conflict, empty-vault and shrink questions over two records, first syncs included, with the thresholds scaled to two records: who restores an empty vault loses nothing on the server, nothing is halved without a confirmation |

Bounds: `MaxSyncs`, `MaxAborts`, `MaxClock` are per run: enough for a sync of each
device, a retry after a precondition failure and one more sync that sees the
result.  All properties are safety properties.  The loss thresholds of the code
(10 and 3 records) are scaled in `SyncDecisions`.  `CHECK_DEADLOCK FALSE`: the bounds
stop the system.

Not modelled: clocks that differ, servers without ETags that lose updates, the
settings record (its merge is in `SyncMerge`), the import of a whole
configuration.

### 3.4 TerminalOutput

The task of `start_ssh_terminal_session` with its `TerminalOutputFlow`, the events
and acknowledgements on their way, and the controller of
`createTerminalOutputFlowController`.  `Read`, `Tick`, `Exit` are branches of the
task's loop; `ServeAck` is the IPC call; `Deliver`, `Write`, `Done`, `CtrlC`, `Hide`,
`Show` are the controller's handlers; `Restart` is a new shell under the same id.
A chunk is what the acknowledgement needs: session, first byte, sequence, length.

Three constants allow what leads to the findings: `CtrlCWhileWriting`,
`AcksOvertake`, `RestartUndrained`.

| Run | Shows |
| --- | --- |
| `terminal_flow` | with all three off, two starts of a shell: output bounded and in order, unacknowledged bytes are those on their way; under fairness everything printed is shown while the terminal is visible |
| `terminal_ctrl_c` | counterexample to `ReadingResumes`, with the first of them on and the ratios of the shipped sizes |

The passing run scales the sizes so that batches are joined, cut and flooded,
the high watermark is crossed and the queue overflows its item limit within nine
units; the counterexample uses the shipped ratios (unit 64 KiB).

Fairness: the shell prints while it is read, timers and callbacks fire, events
and calls arrive.  Nobody has to press a key, hide, show or restart.

### 3.5 SshSessions

One connection and the calls that want a channel on it: starts of one terminal
and SFTP sessions.  `at` is a client's place: `Look` (`get_connection`), `Check` (the
map of terminals), `Reserve` (`reserve_slot`), `Ask` (a place in the line for the
slot's lock), `Reuse`/`Connect`/`Connected`/`Refused` (`ensure_connected`),
`Open`/`NotOpened` (`open_session_channel`).  The lock is a Tokio mutex, which
is fair: `queue[s]` is its line, and what comes before and after a disconnect in
it decides what survives a close.  A start then launches a shell (`Launch`),
which is a task, and enters it into the map (`Enter`), dropping the session it
replaces; the task leaves its loop (`Leave`), reports the exit and removes the key
whoever owns it (`Remove`), unless it is aborted (`Abort`).  The close of the
connection is `CloseConnection`, `ListTerminals`, `CloseTerminals`, `Invalidate` and
one `Disconnect` per slot; the steps on other maps are left out.

A handshake, with its host key check and prompts, is one step that holds the
lock and succeeds or fails.  One terminal id is enough, as ids do not interact.
An id of a connection is not used again, so a connection is closed once.

`StaleLookup` allows the close between a client's lookup and its place in the
line (code without an await, so another worker thread must run the close in
that time); `ShellsExitEarly` lets a shell end before it was entered.

| Run | Shows |
| --- | --- |
| `sessions` | two starts and an SFTP session, two channels per transport, one lost transport: leases counted and below the limit, transports doomed after the close, shells reachable, entries alive; under fairness everything on a closed connection ends |

Bounds: `MaxLeases` is 8 in the code and 2 here, so that three clients need a second
transport.  Two starts are enough to replace one another.
`CHECK_DEADLOCK FALSE`: when all clients are done nothing is left to do.

Fairness: tasks are polled, handshakes and requests end (they have timeouts),
a task whose channel is gone leaves its loop.  The last assumes that it reads,
that is, that the window still acknowledges; a task told to close needs no
such assumption.  Shells and SFTP sessions may last for ever.

### 3.6 LatestSave, SaveQueue, SaveQueueUse

`createLatestWinsSingleFlightQueue` is one record: the pending and the running
value, the newest value and what became of it, and `run`, the stage of the
promise chain (`scheduled` until its first microtask, `saving`, `ended` until its
`finally` callback).  `SaveQueue` says what `enqueue`, the start of a save, its end
and the callback do to the record; both state machines that use a queue share
these operators.  In `SaveQueueUse` callers enqueue values and wait in `drain`,
whose loop is `DrainWork` and `DrainReturns`; a save succeeds or fails.

`LatestSave` forgets pending values, promises and callers: a value is wanted, owed
and saved.  `SavesTheLatest` is its specification under the mapping at the end of
`SaveQueueUse`, fairness included: a wanted value is eventually saved or fails.

| Run | Shows |
| --- | --- |
| `save_queue` | a drain that returns has seen its own value or a later one stored, drains end, and the queue implements `LatestSave` |

Bounds: three values (one saved, one waiting, one newer), two drains, four
requests, the same value more than once.  Fairness: microtasks run and a save
settles.  Keys of values are the values: what distinguishes equal keys with
different contents is left to the caller, which serialises the collections.

### 3.7 VaultWindows

Each window holds its copy of the collections (`doc`), the copy it believes
stored (`persisted`) and a queue.  `load` is where `loadSnapshot` is: first the
public copy, then the full one.  An edit bumps the revision, which makes the
requests under way stale (`fresh`); a newer request of the same kind makes an
older one stale (`latest`).  Rendering is a step of its own, since its effect
decides whether to save.  A save that is served changes `vault` and sends every
window an event; a reply and an event travel to a window in one line.

A document is the set of items it holds: what was there (`hosts`), the secrets
that the public copy lacks, and one item per edit, sync or trusted key.  Saving a
document without an item deletes it, as the code's saves of whole collections do.

| Run | Shows |
| --- | --- |
| `vault_windows` | one open window and one that loads, two edits, one sync and one trouble (a failed save, a trusted key): no save removes the secrets; a window that says it is saved is; no snapshot takes back an edit; under fairness all windows come to show the vault |

Bounds: every hazard here is between one window's request and one change, of its
own user or from elsewhere.  Two edits let a save run, another wait and an edit
be undone; the second window is both the stranger whose event arrives and the
one that loads late.  Fairness: a window handles its messages and renders, the
backend serves what was asked.  Nobody has to edit or sync.

`Overlap = {}` keeps the environment kind; section 4 says what else happens.
Properties about saved edits end with the first failed save, after which the
code promises nothing (it tries again at the next edit only).

Left out: the known hosts, which are saved by calls of their own, and the repairs
that loading may make to the document (`protectSettings`, missing host details).

### 3.8 TransferHistory and TransferViews

`TransferHistory` is the list in memory and the file.  A job records a state in
three steps: it changes the list (`Record`), writes the file (`Persist`), tells the
windows (`Emit`); pruning is part of the first.  `TransferViews` adds two windows.
The queue of an SFTP window has a task's status, its pause request, a frame with
progress to draw, and at most one call per task under way; the transfer center
has the tasks it shows and a list on its way.  Events reach a window in order;
answers of calls overtake them.  A restart of the program loses the list, the
jobs and the windows and keeps the file, whose unfinished transfers end.

| Run | Shows |
| --- | --- |
| `transfer_views` | the file says what the list says whenever nobody is about to write it; an end the windows were told of is on disk; once quiet, the center shows what the history says, and the queue shows nothing as active that has ended nor as completed that has not |

Bounds: a task takes part in every race with itself only, since handlers look up
the id they are about and nothing else; pruning alone relates tasks, and
`MaxFinished = 1` with the proofs (any set of tasks) cover it.  Three clicks let a
task be submitted, paused or cancelled, and retried or removed.  `MaxTurns = 1` is
one progress report, cancellation or restart besides the first report;
`MaxInTransit = 1` lets a task's end wait behind another event.

`Race = {}` excludes four orders of events; section 4 says what they do.

### 3.9 PortForwards

A *call* is a `start`, `stop`, `save` or `delete` of a window, or one profile's turn
in the autostart of a connection; calls are numbered.  A start spawns
`run_profile`, which lives on after the call, and the call's number serves as the
generation that the code draws from a counter.  `pc` stands between lock sections and awaits:
`Start`, `StartReplace` (stop the old run), `StartInsert`; `Stop`; `Save` and `StopChanged`;
`Delete` and `Erase`; the run's `Begin`, `Connect`, `Serve`, `Shutdown`, `HandleFailure`,
`Wait`.  `Lose` breaks a forward's SSH session.  A close removes the connection
(`CloseConnection`) and later its forwards (`CloseForwards`).

A run's update of its own entry is part of the step before it: it happens only
while its generation is in the map, and what could come between either does not
see the status or removes the entry.  Everything belongs to one host, as a start
for another host is refused before it changes anything.  Ports, the number and
the delay of attempts, and the polling of the window are left out: an attempt
may fail at any time.

| Run | Shows |
| --- | --- |
| `forwards` | two connections, one profile with two settings (with and without reconnection), three calls, one loss: runs that go on are in the map, the status is that of the run, forwards have their profile's settings; under fairness cancelled runs and those of a closed connection end |

Bounds: a race is between two calls on one profile and the run of a third, or a
close.  Profiles share only the limit `MAX_PROFILES`.  Fairness: tasks and calls
are polled, a close goes on to the forwards; no forward has to break.  The
liveness property has the form "from some time on", because calls and closes
are finitely many.

## 4. Disagreements between code and statement

The run `terminal_ctrl_c` (`expect: violation`) checks a statement of the
repository's documentation, quoted in `PROJECT.json` under `findings`, and TLC finds a behaviour of the code
that contradicts it: Ctrl+C drops and acknowledges the queue while a write is
under way, whose own acknowledgement is then taken for a duplicate, and the
shell's output stays paused.

Further behaviours of the code that the models show, without a run of their own;
each is seen by changing a configuration as said.  Several are narrow races; the
passing runs show that nothing else contradicts the property once the race is
excluded by its constant.

| Property | Configuration | What happens |
| --- | --- | --- |
| `ReadingResumes` | `TerminalCtrlC` with `CtrlCWhileWriting = FALSE`, `AcksOvertake = TRUE` | a later acknowledgement is served first, the earlier one is taken for a duplicate, its bytes stay outstanding |
| `ReadingResumes` | the same with `RestartUndrained = TRUE`, `MaxSessions = 2` instead | acknowledgements of the last shell's output meet the counters of the new one |
| `ExclusiveTargets` | `TransferSafe` with three runs, one target, `RetryWhileEnding = TRUE` | a retry loses its entry to the second unregister of its predecessor, and a third run gets the same target |
| `NoCloseLeftBehind` | `TransferDeferred` with this invariant | the last transfer ends between the two sections of `close_connection_after_transfers`, and the deferred close is left behind |
| `DeferredCloseSparesTransfers` | `TransferDeferred` with `SubmitWhileClosing = TRUE` | a batch registers between the question and the close of `finish_deferred_connection_close` |
| `DeleteModifyReported` | `MergeCases` with this invariant | deletions the program finds itself are stamped with the time of the sync, so the conflict that the test at `sync_backend/merge.rs:586` describes does not come up |
| `NoResurrection` | `SyncDecisions` with `Decisions <- KeepLocal`, `Hosts = {h1, h2}`, no known hosts or keys, `MaxClock = 2`, `MaxSyncs = 4` | a deletion the user confirms keeps its old time (`merge.rs:142`), and another device brings the record back |
| `ImportsSurvive` | `SyncAutomatic` with this property | a key imported between the comparison of footprints and the rewriting of the vault is dropped |
| `ChangedVaultIsMergedAgain` | the same | the repeated pass of a device's first sync asks about the document it has itself just uploaded |
| `RestoreKeepsRemote` | `SyncDecisions` with `Keys = {k1}`, `KnownHosts = {}`, `Shared = {h1}` | a key imported during a restore makes the repeated pass upload the empty vault's deletions |
| `NoTransportOutlivesClose` | `Sessions` with `StaleLookup = TRUE` and this invariant alone | a client found the connection before it was closed and connects a transport nobody will disconnect |
| `EntriesHaveShells` | `Sessions` with `ShellsExitEarly = TRUE` | a shell ends before it was entered, and its entry blocks later starts |
| `RunsAreListed` | `Forwards` with `Overlap = {"start while starting"}` | two starts enter their runs one over the other, and the first can no longer be stopped |
| `RunsMatchProfiles` | `Forwards` with `Overlap = {"change while starting"}` | a profile saved or deleted during its start has a forward with its old settings |
| `NoSnapshotTakesBack` | `VaultWindows` with `Overlap = {"sync while saving"}` | the event of a sync is handled while edits wait, and the reload takes one back (`src/App.tsx:1577`) |
| `VaultKeepsSecrets` | `VaultWindows` with `Overlap = {"edit while loading"}` or `{"event while loading"}` | what overtakes the full snapshot makes the window save its public copy (`src/App.tsx:1127`) |
| `WindowsAgree` | `VaultWindows` with `Overlap = {"trust while reading"}` | the request for known hosts makes the read of the vault stale, and the window is not told again |
| `ViewSettles` | `TransferViews` with `Race = {"late frame"}`, `{"late list"}` or `{"late listener"}` | a frame, or a list, older than a transfer's end sets it back to running (`useTransferQueue.ts:106`), or its end comes before the listener |
| `CenterSettles` | `TransferViews` with `Race = {"late listener"}` or `{"removal while reading"}` | an end that comes before the listener is missed (`src/tauriBridge.ts:631`); a removed record comes back with an older list |

These hold under the constants of the configuration named and are left out of it
because others say more; adding them to it is enough to check them: the type
invariant of each module; `OneHandshake` (`Sessions`), `MergedIsClean` (`MergeCases`),
`OwnUploadNeverConflicts` (`SyncAutomatic`), `DeferredCloseSparesTransfers`
(`TransferDeferred`), `SavedIsLatest` (`SaveQueue`), `HistoryIsBacked` and, under
fairness, `QueuedMovesOn` (`TransferViews`).  Of these the type invariants of
`TransferRuntime`, `WebDavSync`, `TerminalOutput`, `PortForwards`, `SaveQueueUse` and
`VaultWindows`, `MergedIsClean`, `OneHandshake` and `DeferredCloseSparesTransfers` are
proved (section 5).

Found while translating and excluded from the models by their shape: two windows
that edit at once (the whole document saved last drops the other's edit); a save
of known hosts that overtakes another; events and replies of one window out of
order.

## 5. Proofs

`TransferRuntimeProofs`, for any sets of threads, ids, targets and connections:

- `TypeCorrect`: the type invariant.
- `TargetsExclusive`, `RunsStayActive`: if an id is not submitted while its last
  run winds down, two transfers never write one target, and a run is in
  `active_transfers` until it ends.  `ExclusiveTargets` is not inductive: it holds
  because each run past registration owns the entry of its id and that entry has
  its key, entries have different keys, and no two live runs share an id.  The
  last needs the assumption, and section 4 shows that it cannot be dropped.
- `ActiveEntriesAreBacked`, under the same assumption: no entry is left
  behind by the run that made it, nor a transfer that the history shows as active.
- `ClosingStopsTransfers`, under the same assumption.  A transfer whose connection
  is gone is either in `transfer_cancellations`, or the close that removed the
  connection still has to read `active_transfers`, or holds the transfer's id among
  those it is about to cancel (`CutOffsAreTold`).  The step from the second case to
  the third needs `RunsStayActive`: a transfer that runs is found in the map.
- `DeferredClosesSpareTransfers`, if moreover no batch is submitted while its window
  closes: a deferral on record has a closer, from then on nobody enters a transfer
  on that connection (`NobodyEnters`), and a deferred close that goes on to
  disconnect has seen that none is left (`ClosesSpare`).  Section 4 shows what a
  batch does that is submitted then.

`SyncProofs` first treats a merge, for any digests, times, bodies and keys:
`MergesStayClean`, `LocalEditsAreKept`, `RemoteEditsAreKept`, `DeletionsAreKept`,
`CredentialsAreKept`, and `ResyncsAreQuiet`: what a merge has produced, it returns when it
is merged with itself.  The lemmas (`TombstoneMergeIsClean`, `RecordMergeIsClean`,
`OwnRecordOnly`, `LocalEditMerged`, ...) are about the merge operators alone;
`CasesInvariant` says that the state machine of cases computes them from well-typed
inputs.  Then the protocol, for any numbers of devices, records, syncs, imports and
aborts:

- `SyncTypeCorrect`, `DocumentsStayClean`: types, and that no document of the server or
  of a sync lists a record beside a deletion of it that is as late.  The second is
  proved from the merge's lemmas and is what the rest starts from (`SyncInv`).
- `BaselinesAreConfirmed`.  The property is about a stored ETag; the invariant
  (`EtagInv`) says the same of the ETag each sync holds: as long as it is the server's,
  what the sync has read before its upload, or sent after it, is the server's document.
- `NothingShrinksSilently`: from its decision to its commit a sync carries a document
  whose loss was compared with the baseline, or was confirmed (`ShrinkInv`).
- `LocalEditsSurviveSyncs`, if the user never decides for the server and there are no
  known hosts (`OwnSideOnly`).  `EditInv` follows one record of one device through its
  sync: the version in the vault is not older than the one in the baseline, what is
  about to be applied contains an unsynced edit, and a repeated pass that finds
  another edit merges it again.  Known hosts are excluded because their times are
  derived: after an abort another device may have stamped the same version again,
  and "not older" no longer says which of two versions is meant.  Decisions for the
  server put older versions into the vault.  TLC checks the property with both
  kinds of record on bounded instances.
- `RestoringKeepsTheServer`, if no key is imported meanwhile and the server has ETags
  (`UndisturbedRestore`; section 4 shows the import).  A vault that is being restored
  stays empty, so that the merge keeps every remote record (`RestoredDocument`), and
  the conditional upload replaces only the document it was merged with.

`TerminalOutputProofs`, for any sizes with Low < High and any length of the window's
queue:

- `OutputStaysBounded`, whatever the window does and in whatever order its
  acknowledgements come.  The invariant adds that the flag is set exactly between
  the two watermarks and that a read is only taken while it is clear; the lemmas
  say what each operation of `TerminalOutputFlow` does to the sum of pending and
  unacknowledged bytes.
- `TerminalTypeCorrect`, without condition: the window's count of queued bytes is the
  sum of its queue, however chunks are joined, cut and dropped.
- `OutputArrivesInOrder`, unless Ctrl+C is pressed during a write (which drops chunks
  behind the batch that is being written).  The events and the window's queue, read as
  one sequence, are in the order of sessions, sequence numbers and bytes.
- `InFlightIsTrue`, if moreover acknowledgements do not overtake one another and a
  new shell waits for the output of the old one, as long as one read fits under the high
  watermark (64 KiB and 512 KiB in the code; an acknowledgement of more than twice
  the watermark is refused, `terminal.rs`).  Sequence numbers rise along the whole
  way from the calls on their way back to the events on their way out and lie above
  the last acknowledged one, so none is taken for a duplicate, and the sum of the way's
  bytes is `inFlight`.  Section 4 shows the orders for which this is false.

The window joins and cuts chunks again and again.  `Rejoins(t, s)` says that t has
the bytes of s cut at some of its joints; joining neighbours, cutting a batch and the
queue's compaction are shown to be such steps (`DeliverRejoins`, `WriteRejoins`), and such
a step keeps order, numbers and sums (`RejoiningKeepsOrder`, `BytesAreSummed`).  The sums
need induction over a sequence.  As the library's induction theorems take an
operator, `SetInduction` states induction about a set of naturals instead, from
the least element of its complement; it serves here because the sum is written as
a recursive function.

`SshSessionsProofs`, for any numbers of clients and any limit:
`RunningShellsAreReachable`, without assumption on the environment, and
`EnteredTerminalsHaveShells` if no shell ends early.  The second needs that a
start is entered once, so that a session once replaced or removed does not come
back (`EnteredOnce`), and that a spawned shell runs (`SpawnedRuns`).
`LeaseCountsAreTrue`, without assumption: a slot's count is the number of clients
between their reservation and its return, and within the limit; each action
changes both alike.

`TransportsDieWithTheConnection`, if no client uses a connection it looked up before the
close (`~StaleLookup`).  The argument is about the order of the line at each slot: a
client that will connect stands in the line (`WaitersInLine`), a disconnect stands behind
all of them (`DisconnectsComeLast`), and once it was served nobody is left who could
connect again (`DisconnectedStayDown`).  `OneHandshakeAtATime` needs no assumption: who
connects is at the head of the line and has found the transport down, and an open
channel is on one that is up (`HandshakeInv`).

`SaveQueueProofs`, for any values, callers and number of requests:

- `QueueTypeCorrect`, `StatusIsTrue` and `DrainsAreTrue`.  The invariant
  `QueueInv` relates the record's fields: there is a pending value exactly when
  the outcome is pending, it is then the newest and not the one that is running,
  a run exists to take it, and an outcome "in flight" is about the value that
  runs.  A waiting drain is always served by a save of the newest value.
- `QueueImplementsLatestSave`: initial states and steps of the queue map to those
  of `LatestSave`.  Only the fairness part of the refinement stays with TLC
  (`SavesTheLatest`).  `AbstractReportsAreTrue` is about `LatestSave` itself.

`TransferViewsProofs`, for any set of tasks and any limit of the history, with
windows, calls and restarts as they come and whatever `Race` allows:
`ListedTransfersHaveJobs`, `FileFollowsList`, `ToldEndsAreOnDisk`.  They are proved
together: `JobInv` relates a job's place to what is recorded of its transfer and
to what it has still to persist and to tell; `EventInv` says that what an event in
a window's line tells is on disk.  Both rest on lemmas about pruning: it touches
only ended transfers, and a list from which records are dropped, by itself or by
a removal, needs no more of it.

What a window shows in the end needs an account of what it will still hear:

- `WordsI`: of the events about a listed transfer that are on their way to a
  window, the last one tells what is listed, unless its job has a later record to
  tell (`LastWordIsListed`); and a record that was ever told is older than what is
  listed or the same (`WasListed`), which is what a merge by time relies on.
- `CenterTellsTheHistory`, if the center listens before it asks for the list and
  removes nothing while it reads (`NoCenterRace`).  `CenterInv`: what the center shows of
  a transfer it will not hear of again is what is listed, or the list it is about to
  merge says so, or an event since has (`revised`).  It holds whatever the queue's frames
  and lists do.
- `QueueTellsTheHistory`, if progress is drawn before the event that ends it, and a
  page listens before it asks for the list and gets it before later events
  (`NoQueueRace`).  `ActiveInv`: what the queue shows, draws or restores as unfinished
  has its end ahead: its job has yet to tell it (`WillEnd`), the end is in line
  (`EndAhead`), or a submission is about to be refused (`Submitting`).  `CompletedInv`
  says the like of what it shows as completed.  Removals by the center do not matter.

Section 4 shows that none of the races named can be left in.

`PortForwardsProofs`, for any profiles, settings, connections and calls:

- `TypeCorrect` and `ShownStatusIsTrue`, whatever overlaps.  The invariant adds
  that a call past its beginning has read its profile and that only runs which
  have begun are cancelled.
- `LiveRunsAreListed`, if no two starts of a profile overlap (`InsertsAlone`: while a
  call is about to enter its run, its profile has no entry and no other call is
  about to enter one).
- `EntriesMatchProfiles`, if no profile is changed while it is being started
  (`StartsAreFresh`: what a start has read is still stored; `ErasedHaveNoRun`: between
  the two steps of a deletion the profile has no entry).

Section 4 shows that neither condition can be dropped.

`VaultWindowsProofs`, for any windows, edits and syncs:

- `VaultTypeCorrect` and `RestingWindowsHaveSaved`, whatever overlaps.  They need
  each other, because a reply is taken for whatever save is in flight:
  `RepliesInv` says that a reply is on its way only to a window that saves and
  whose call was served, and only one is; `SettledInv`, that a window whose
  effects have run shows what it saved last or has asked to save, or its last
  save failed.
- `SecretsAreKept`, if nothing overtakes a load (`LoadsUndisturbed`; section 4
  shows that it cannot be dropped).  `CopiesAreFull` extends the property to what
  hydrated windows show, queues hold and full reads return; `LoadingInv` says why a
  public copy gets no further: a window that is not hydrated has no work and no
  edited request, and a public request of one that is, is never the latest.

The proofs assume only the named assumptions on constants in the modules, and the
conditions named in the theorems.  Not proved, and left to TLC: liveness and the
fairness part of refinements; `UnseenVersionsSurvive` and `NoResurrection` of `WebDavSync`,
which relate the pasts of several devices; `LocalEditsSurvive` with known hosts and with
decisions for the server; that no snapshot takes back an edit in `VaultWindows`.

## 6. Mutants

For each property of each passing run `PROJECT.json` names a mutant, a plausible
bug in one definition, under which TLC finds that property violated: a target check that forgets the batch itself, a merge by
time alone, an acknowledgement without a refresh, a disconnect only for slots
that are connected, and so on.

## 7. Not modelled

The models cover the places where several actors share state.  Most of the
repository's TypeScript has none of that and is left out on purpose: message
catalogues, React views and styles, and the database, container and monitoring
tools, which send a request, parse the answer and draw it.  The protocol state
of the views (transfer queue, transfer center, save queue, vault copy, terminal
output controller) is modelled with the component it belongs to.  The backend is
Rust, so the modelled share of it does not show in a count of TypeScript lines.

- *Host keys and prompts, updater, the schedule of syncs*: small state machines
  with one actor each; planned, not started.  A prompt is part of the handshake
  that is one step in `SshSessions`.
- *SFTP files and resume*: what is in partial files, and what servers do with
  it.  A property would be about the bytes.
- *Vault files*: a save is one step here; the two files it writes are not.
- *Tunnels and desktop proxies*: their listeners close with the connection like
  forwards do, but the streams themselves are I/O.
- *Agent, AI, MCP, databases, monitoring, logs, local files*: requests to
  services and conversions.
- *Desktop shell and IPC*: only that calls are served concurrently.

Hazards no property covers, beside those in `PROJECT.json`:

- a cancellation recorded after its run was cleared cancels the next run with
  that id (`remote_fs/transfer_runtime.rs:364`);
- a third device that still has the version before a deletion removes a record
  edited after it (`sync_backend/merge.rs:164`);
- an imported configuration keeps old times, and a sync prefers the server's
  versions or overwrites the import (`config.rs:304`); a server without ETags loses
  updates (`sync_backend/webdav.rs:276`);
- a crash between the two files of a save (`vault_storage.rs:69`);
- while reads are paused a task notices neither the end of its shell nor the
  loss of its transport (`terminal.rs:347`); a terminal closed while its start
  connects is entered afterwards (`terminal.rs:997`);
- an answer to a prompt as its time runs out (`ui_prompts.rs:58`);
- a forward restarted on a fixed port before its predecessor released it
  (`port_forward.rs:282`), and lists of forwards answered out of order
  (`RemotePortForwarding.tsx:69`);
- saves of known hosts, ordered with nothing (`src/App.tsx:900`), and what a failed
  save leaves in its window (`src/App.tsx:1337`).

## 8. Running

    tlc -workers 2 -config Sessions.cfg MCSshSessions
    tlapm SshSessionsProofs.tla

Each run takes from a second to two minutes on two cores.
