# Cosmosh: a TLA+ model of its core

Cosmosh is an Electron SSH/SFTP client. Three processes share the work: the
renderer shows terminals and directories, the main process owns windows, the
operating system and the backend's life, and the backend (Hono over HTTP, plus
WebSockets) owns every SSH, SFTP and pty session. All three are single-threaded
event loops, so concurrency here means *interleaving at awaits, callbacks and
timers*, and that is what the modules model: an action is the code that runs
between two points where the event loop may run something else. On the hosts it
connects to, other programs, other sessions and a small Go installer act at the
same time; there every request is a step.

## 1. Inventory

### Modelled

| Component | State | Operations | Hard behaviour | What makes it correct |
|---|---|---|---|---|
| SFTP task scheduler (`backend/src/sftp/task-scheduler.ts`) | queue, active owners, per-task record (state, failure, abort reason, released), idle waiters | schedule, cancel, cancelAll, forgetTask, waitForIdle, deadlines, runner promise chain | a runner outlives the terminal state of its task; cancel and deadline race with admission, invocation and settlement | limits and path claims hold over live *and* late runners; no overtaking of conflicting older work; terminal states are final; every task is reported, every idle waiter answered |
| SFTP session service and operation guard (`sftp/session-service.ts`, `sftp/operation-guard.ts`) | session registry, client, scheduler map, public task records with retention, one guarded promise per request | create, start a task or legacy request, reply, idle and absolute timeout, transport loss, poisoning, close, closeAll, stop, eviction | a completion, two timers and an abort race for one promise; a close waits a bounded time for late runners | requests settle once; someone always ends the client; an interrupted mutation is reported unknown; nothing is left behind |
| Replacing one remote file (upload and text write in `sftp/session-service.ts`) | the target, a temporary sibling, the expected snapshot | stat, stream, posix-rename, rename, recheck, unlink and rename, exclusive creation, cleanup | another session or program writes between two requests; the server refuses any of them | only raced versions are lost; a version survives; temporaries are removed |
| SFTP archive service (`sftp/archive-service.ts`) | operation, exec channel, registered temporary paths, shared cleanup, conflict decision | start, command, staging, conflicts, commit, cleanup, cancel, deadline, transport loss, session close | cancellation before the channel exists; two parties share one cleanup; the tool ignores its signal | success is complete; leftovers are known; nothing is replaced unasked; every stop takes effect |
| Open-with (`renderer/src/pages/SFTP.tsx`, `useSftpConfirmationPrompts.ts`, `main/src/ipc/register-app-utility-ipc.ts`) | local copies, watchers, change dialog, upload tasks, conflict dialogs | open, save, watch and report, prompt, upload, conflict, reconnect, stop | reads of a signature overtake each other; dialogs queue and are reset | an answer reaches its own upload; saves are reported; uploads end |
| Port forwarding (`backend/src/port-forward/session-service.ts`, `http/routes/port-forward.ts`, server deletion in `http/routes/ssh.ts`) | runtime registry, startup guard, SSH client and its monitor, rule rows | start, stop, edit, delete, server delete, unexpected close, shutdown | every operation awaits between check and effect; client events arrive late; four owners may dispose one runtime | exclusive startup, nothing orphaned, one disposer, no dead runtime shown as running |
| Terminal session base, local terminals (`backend/src/terminal/base-session-service.ts`, `local-terminal/session-service.ts`) | session map, attached socket, attach timer, bounded pending output | create, attach and replace, message, output, socket close or error, API close, stop | a replaced socket still delivers events; output while detached; attach racing its timeout | output in order and lost only by overflow, no session without an owner |
| SSH sessions (`backend/src/ssh/session-service.ts`) | trust in the remote helper, pending frames of output and events, handshake and history timers | create, attach, shell output, events, handshake timeout, input, history read and deletion, disposal | the shell talks before the session is registered; events come before, during and after trust | events reach only clients told to trust them; trust and history settle |
| Remote shell events (`backend/src/ssh/remote-shell-events.ts`) | what is held back of the stream | one character at a time | the stream is cut anywhere; a sequence outgrows its cap at its terminator | what comes out is what the whole stream says |
| Remote bootstrap (`backend/src/remote-bootstrap/service.ts`, `ensureRemoteEnhancementsBeforeShell`, `remote-bootstrap/internal/install/install.go`) | per session: stage, transport; shared manifest cache and load; on the host: binary, helper, profile, version marker | ensure, manifest, probe, status, install, verify, timeout; write, sync, rename | the session gives up while its installer runs on; two installers and an editor meet in one profile; kills and power loss between writes | no transport or waiter is left behind; a torn install is repaired; installed means durable |
| Window close guard and shutdown (`main/src/window-close-guard.ts`, `renderer-close-confirmation.ts`, hooks in `index.ts`) | pending decision, pending confirmation, shutdown flags, window | window close, quit, signals, probe, preference, question, disconnect, shutdown | answers that are late, foreign or repeated; crashes of the renderer; a second close request | consent only for the question that was asked; every decision ends; no exit without approval |
| Backend process lifecycle (`main/src/index.ts`) | child process handle, port and token, startup and shutdown promises | start (on demand), health check, stop, restart, exit events | promises shared by callers, exit events of the wrong child, starts that overlap stops | one backend at a time, none lost, start and stop both end |

### Not modelled

| Component | State and operations | Why, and what is planned |
|---|---|---|
| SFTP listing, directory and batch operations, stream transfers (rest of `sftp/session-service.ts`) | requests in sequence, progress | each is a sequence of guarded requests as in `SftpSession`; partial results of batches are planned |
| SSH connection (`ssh/connect.ts`, `ssh/proxy.ts`) | one client per connection, its monitor | its outcomes are inputs of `PortForward` and `RemoteBootstrap`; the proxy protocols are I/O |
| Telemetry, completion, working directory, fingerprint trust (rest of `ssh/session-service.ts`) | intervals, caches | answers that change nothing the properties tell apart |
| Terminal completion | a parser over generated command tables | no concurrency worth a model |
| Bootstrap scripts, asset selection, uninstall (rest of `remote-bootstrap`) | shell text, digests | text generation and parsing |
| Audit log, database, settings, HTTP layer | rows, adapters, validation | I/O and stateless mapping; what the rules' rows need is in `PortForward` |
| Upload staging, temporary root, download authorizations (`main/src/ipc`) | private directories, one-time tokens | small registries; planned |
| Main IPC, database key | forwarding, operating-system key store | no state of their own |
| Renderer SFTP task queue | serial and concurrent lanes with a generation counter | planned: `RendererTaskQueue` |
| Renderer panes, tabs, settings, pages | connect attempts, layout | panes planned over `SshSession`; the rest is layout |
| api-contract, i18n, scripts | types, strings, tooling | nothing to check |

The hazards behind these tables, each at its line, are in `PROJECT.json`.

## 2. Modules

```
SftpTaskClaims          path claims: normalization, minimization, conflict
  SftpTaskScheduler     the scheduler; refines SftpTaskAdmission
    MCSftpTaskScheduler   task kinds for TLC
      MCAlgorithms        claims, dispatch loop and event parser against references
    SftpTaskSchedulerProofs
SftpTaskAdmission       what the scheduler promises: a table of claims
SftpSession             one SFTP session, its tasks, requests and records
  MCSftpSession
    SftpSessionProofs
RemoteReplace           writing one remote file
  MCRemoteReplace
ArchiveOperation        one archive operation and the close that meets it
  ArchiveOperationProofs
OpenWith                local copies, watchers, dialogs, uploads
  OpenWithProofs
PortForward             rules, runtimes, routes
  MCPortForward
  PortForwardProofs
TerminalSession         one terminal session and its clients
  SshSession            the base under its two services: local and SSH
    SshSessionProofs
RemoteShellEvents       the parser of the remote helper's events
RemoteBootstrap         the ensure before a shell, and the installer on the host
  MCRemoteBootstrap
AppClose                guard, broker, shutdown
BackendLifecycle        the backend process
RemoteHostProofs        RemoteReplace and RemoteBootstrap: what other programs share
MainProcessProofs       AppClose and BackendLifecycle: what the main process owns
```

The SFTP modules cut one service at its awaits: `SftpSession` admits tasks in any
order that respects the state of a queue, because `SftpTaskScheduler` settles which
orders there are; it waits once for archive work, because `ArchiveOperation` shows
that this wait ends; its `upload` is one mutation, because `RemoteReplace` opens
it up; `OpenWith` lets an upload check and replace in one step for the same reason.

**SftpTaskScheduler.** `queue`, `active` and `records` are the fields of the
class; `state`, `failure`, `abortReason` and `released` are per-task record
fields; `runner` is the next link of a task's promise chain: waiting for its
microtask, running, or settled and waiting for the `finally` that releases.
`spec` fixes in advance what the callers will ask for. `Schedule`, `AbortSignal`,
`CancelAll`, `ForgetTask`, `WaitForIdle`, the two deadlines, `InvokeRunner`,
`SettleRunner` and `ReleaseRecord` are the entry points; each ends with the
`dispatch()` the code ends with. `Dispatch` is one pass in queue order, while
the code scans, starts, and rescans: `LoopIsOnePass` proves, and `OnePassIsTheLoop`
checks on the array itself, that both start the same tasks. `ResolveIdleWaiters` is the drain check. Deadlines fire only when no
microtask is pending (`MicrotasksDrained`), as timers do.

**SftpTaskAdmission** is the abstract specification: demands arrive, are granted
when they conflict with no holder and no older waiting demand, withdraw or give
back. It knows nothing of deadlines, promises or failures.

**SftpSession.** `create`, `session`, `client`, `closing` and `stopping` say how
far `createSession`, the registry, the client, the one effective `closeSession`
and `stop` have come; `sched`, `remembered`, `recs` and `retaining` are the
scheduler map, its history, `publicTaskRecords` and their timers. `recs` is a set:
tasks are numbered as they are made, so the order of the map is that of the
numbers, and `EvictedFrom` drops the oldest of it. Every runner
has a `pc`, a position in the requests of its operation, the `answer` a caller is
given, and one guarded request `req`: whether it is open, which of its two timers
and its abort listener are armed, and whether the server may still call back.
`Settled` is the pair `settleSuccess`/`settleFailure`: only the first result counts.

**RemoteReplace.** `target` is what is under the file's name, `temp` each upload's
sibling, `pc` the request each uploader awaits. `server` fixes which renames the
server supports. A version stands for a size and a modification time, as the
snapshot comparison of the code sees it. That a file survives (`DataSurvives`) is
said of every moment between two requests, not only of the end. `since`, `touched`, `refused` and
`takenBack` are histories the properties read.

**ArchiveOperation.** The runner has a `pc`, a request on the wire, an exec
`channel` and the `tool` behind it; `registered`, `provisional` and `cleanup` are
`temporaryPaths`, `provisionalDirectories` and the shared cleanup promise;
`cancel`, `forced`, `closed`, `up` and `closer` are the ways it ends. A request
takes effect when it is sent and is answered later or, without a transport, never.

**OpenWith.** One number names an open task, its local copy and its watcher.
`inbox` holds the messages from main to renderer; `record` is what the renderer
keeps of an opened file, `prompt` its change dialog, `asking`, `resolver` and
`shown` the conflict dialogs and whom their answer goes to; `session` is the
generation that a reconnection increases. An accepted change goes to
`StartUpload`, which may start no task, as `runSftpOperation` may.

**PortForward.** `start`, `stop` and the close cleanup are coroutines whose
program counter moves from await to await; a runtime is in the registry, taken
by exactly one disposer, or gone. `disposal` says for each runtime and each caller of
`disposeRuntimeState` how far that call is: it will end the client, or it will throw
because the binding of a remote rule cannot be undone on a dead client. Clients have a connection state and events
still to be delivered. `Request` is what users send through the routes.

**TerminalSession.** One session of a `BaseTerminalSessionService`: `attached` is
`session.socket`, `pending` is `session.pendingOutput`, `timer` the attach timer.
Each client's `socket` is open, closing (either end said so; its messages still
arrive) or closed (its close event was handled), and `sent` is everything the
server sent it. Output is numbered in the order of the pty, so order and loss can
be stated; some chunks weigh two units so that the two caps of the buffer differ.

**SshSession** puts that base under its two services. `service` is chosen once; a
local session takes the steps of `TerminalSession`, an SSH session those of
`SshSessionService` around the same socket steps. Its frames are visible output
or events, and `HandleFrame`, a function on a record of what the handler changes,
is `handleShellOutput`; `Register` folds it over what the shell said before the
login audit was written. `gate` is `remoteEnhancementsRuntimeState`, `told` the
statuses each client was sent, `ignored` what the gate withheld. `syncTimer`,
`reading`, `again` are the history fields, and `asked` remembers that the history
may have changed since a read of it last began. What still runs on behalf of an
ended session finds no session and is forgotten.

**RemoteShellEvents** is the parser as a function of a state and a character:
`held` is the escape, prefix or payload it keeps back, `discarding` and
`sawEscape` the mode after an oversized sequence. The run feeds it every stream.

**RemoteBootstrap.** `phase` is where the ensure of a session waits, `want` the
manifest it was given, `transport` its own SSH client; `cache` and `loading` are
shared. `install` is where the installer it started is, `disk` the files and
`durable` what a loss of power leaves at least: a rename is durable once its
directory is synced. `saved`, `raced` and `clean` are histories. `isFish`
is chosen once. A profile is read (`ReadProfile`) and written with the lines read and
the hook (`WriteProfile`); fish has a file for the hook alone, which is written
without being read (`WriteFishProfile`). One profile stands for the two bash has;
markers in it are taken to be intact.

**AppClose.** `decision` is the guard's pending request and how far it got,
`confirmation` the broker's pending question, `dialogs` and `answers` what the
renderer shows and what is on its way back. `isMac` is chosen once: on macOS an
approved window close leaves the app running, elsewhere it quits.

**BackendLifecycle.** `current`, `port` and `startup` are the module variables
`backendProcess`, `backendPort` (with its token) and `backendStartupPromise`;
`stop` is `backendShutdownPromise` with the stage `stopBackendService` waits in
and whether a quit waits for it. `run` holds the start runs themselves, because
a stop forgets the promise of a run without ending the run. A `child` dies at one
moment and its exit event is handled at a later one, and `ExitEvent` clears the
fields whichever child they name, as the code does. `isWindows` is chosen once;
there the forced stop goes through `taskkill`.

## 3. Runs

| Run | What it shows | Bounds, and why they are enough |
|---|---|---|
| `algorithms` | claims, dispatch and the event parser agree with references | absolute paths of up to three segments over two names, `.` and `..`: a name, its removal and a sibling; two claims against one; five tasks, so four wait behind one owner; streams of seven characters with payloads of one, so a sequence of three, a payload, one character over the cap and a terminator of two fit |
| `scheduler` | owners, records, order, the refinement; every task is reported and every idle waiter answered | three tasks in four mixes of three kinds, total limit 2, heavy and mutation limits 1: one owner, one that waits for it, one that may or may not pass; one idle waiter |
| `sftp_session` | one session and its requests, records and ends | two tasks of three operations (a read; a read and a mutation; a mutation between two reads) and room for one record, so a second task must evict; evictions on every list of four records |
| `remote_replace` | what a write destroys, leaves and answers | two uploaders in sessions of their own and a foreign writer, every kind of server |
| `archive` | one operation against everything that ends it | two entries, one of which names the archive a compression writes, so a commit has a middle |
| `open_with` | saves, uploads and their dialogs | two opens of one file, two uploads, one save, one foreign change and one reconnection: the second of each meets the first |
| `port_forward` | safety of starts, stops and rows; guards are released and clients ended | one remote rule (the only kind whose binding must be undone at the server), two starts, a stop and an edit: enough for a stop or a late event of the first runtime to meet the second |
| `port_forward_stale_close` | expected violation, see below | two starts and a stop |
| `terminal_session` | output, control frames, trust, history and the end of a session, for both services | two clients, so that one replaces the other; three frames, the first of two units, into a buffer of two chunks or two units, so that one frame may evict another; one deletion at a time |
| `remote_bootstrap` | what a session finds, repairs and leaves on a host | two sessions, two versions, one line saved by the user, one loss of power; a login shell that is fish or is not; every earlier install that ended after any of its four writes; sessions and versions are interchangeable (symmetry) |
| `app_close` | consent, and that decisions and shutdowns end | two windows and two questions: one old, one current |
| `backend_lifecycle` | one backend, stops that wait for the right event, starts and quits that end | three start runs with a child each: one stopped, one that overlaps the stop, one after it; `MaxRun` also bounds the children |

A property that stands for several is their conjunction, each part with its own
name and comment in the module: `OwnersAreSafe`, `RecordsAreSafe`,
`SessionIsSafe`, `WritesAreSafe`, `ArchiveIsSafe`, `OpenWithIsSafe`,
`RegistryIsSafe`, `RulesSettle`, `CloseIsAgreed`, `CloseSettles`, `BackendIsSafe`,
`BackendSettles`, `SshSettles`.

Deadlock is not checked: every component may come to rest (all tasks released,
the session closed, the app exited).

### Where the code and its documents disagree

The run `port_forward_stale_close` is expected to fail.
`docs/developer/runtime/port-forwarding.md:70` promises that close events of an
explicitly stopped client do not re-enter the unexpected-close path; its listeners
stay attached and act on the rule, and so on the runtime of a later start.

For the following no run is kept. Each property is stated in its module, and TLC
finds it violated when it is added to the run of that module:

- `RunsAsConfigured` (`PortForward`): "Active rules cannot be edited"
  (`port-forwarding.md:87`), but the check and the write of an edit are separated by
  awaits, and a start fits between them.
- `ResourcesAreReleased` (`AppClose`): "always releases Main-owned resources"
  (`main/src/index.ts:1697`), but a second quit during the shutdown is let through at once.
- `QuitStopsTheBackend` (`BackendLifecycle`): a stop "resolves once backend is no longer
  running" (`main/src/index.ts:582`), but returns at once while a start is still
  preparing its child.
- `NoInterleavedWrites` (`TerminalSession`): one active client "to prevent interleaved
  writes" (`base-session-service.ts:114`), but messages of a replaced socket are still written.
- `TimedOutMutationIsUnknown` (`SftpSession`): timed-out mutations are
  reported with an unknown outcome (`sftp-file-system.md:170`), but an upload that times
  out on its closing stat is reported as that stat, a read, would be
  (`sftp/session-service.ts:1683`, and 1396 for a text write).
- `CancelledMeansClean` (`ArchiveOperation`): a cancelled operation has been cleaned up
  (`sftp-file-system.md:259`), but the cleanup a closing session began does not know of
  a staging directory registered since, and the runner joins it
  (`archive-service.ts:897`, `619`).
- `EveryPendingChangeIsAsked` (`OpenWith`, with two files and two saves): a prompt stays until its change is uploaded or
  ignored (`sftp-file-system.md:238`), but there is one dialog, and a change of a second
  file takes its place (`SFTP.tsx:385`).
- `LostSessionEnds` (`SshSession`; the run has the weaker `AbandonedSessionEnds`): "Session attach timeout: 30s"
  (`ssh-terminal.md:247`), but the timer is armed before the login audit is awaited and
  the session registered (`ssh/session-service.ts:575`, `690`): an audit slower than the
  timer leaves a session no timer ends.

Found while reading, outside the properties: a mutation cancelled in the microtask
between its admission and the call of its runner is reported as cancelled "after
remote work started" (`task-scheduler.ts:817`). Deleting a server deletes the rows
of its running rules (`http/routes/ssh.ts:1298`). A session opened after the
guard's probe answered "idle" is cut unasked (`window-close-guard.ts:113`), and one
still connecting when `closeAllSessions` looks is registered after it
(`sftp/session-service.ts:904`). A quit folded into a pending window close on macOS
ends with the window closed and the app running (`window-close-guard.ts:85`, against
`docs/developer/core/architecture.md:145`). A child that dies after answering its
health check has its port recorded as ready (`main/src/index.ts:1165`), and one
whose health check times out stays alive while the next start spawns another
(`1159`); `OneBackend` ends at a health timeout or a stop for that reason. A save
between the signature read and the start of the watch is not seen
(`register-app-utility-ipc.ts:756`). A file that appears between the conflict scan and
the commit of an extraction is overwritten unasked (`archive-service.ts:716`). In the
event parser an ESC right before a BEL hides that terminator of an oversized
sequence (`remote-shell-events.ts:252`), a payload of exactly 8 KiB ended by ESC `\`
is dropped (`233`), and an event that follows a broken ESC candidate is shown as text
(`186`); the reference in `MCAlgorithms` reads streams the same way. A stray start
marker in a profile makes the next install delete up to the end marker
(`install.go:296`). For fish the installer replaces `conf.d/cosmosh.fish` without
reading it (`install.go:265`, `288`), so whatever the user kept there is gone after the next
repair, raced or not (`install_test.go:613` writes such a line and asks only for the
hook); `OnlyRacedEditsAreLost` is therefore said of the other shells, and is
violated without its premise. A change whose upload the user accepts while the tab
cannot use file actions is neither uploaded nor asked about again: its
question and its pending change are cleared before `runSftpOperation` returns without
a task (`SFTP.tsx:2232`, `useSftpTaskQueue.ts:318`).

## 4. Fairness

Event-loop steps that Node or Electron perform by themselves are weakly fair:
microtasks, promise reactions and timers. The network and the user owe nothing,
unless said so here.

- Scheduler: `EventLoopFairness` gives fairness to microtasks, releases and deadlines, not
  to runners. `IdleIsReached` assumes in addition that runners settle, which the
  operation guard's absolute timer gives them.
- SFTP session: guarded requests time out, runners go on, the drain and retention
  timers fire. The server never needs to answer.
- Archive: the operation's own steps and its timers. A request may stay unanswered,
  but not beyond its transport or the deadline; the tool may ignore its signal.
- Open-with: timers fire, reads of the watched file and requests return, and the
  user answers an open conflict dialog; nobody needs to answer the change dialog.
- Port forwarding: `FairSpec` lets started coroutines go on, since every await in
  them is bounded (SSH timeouts, local database) and events are delivered.
- Terminal and SSH sessions: the attach, handshake and history timers fire, the
  login audit is written, a bounded remote command ends, and a closing socket
  reports its close. The history timer is re-armed by input, so its fairness says
  that the user pauses. The shell owes no output and no exit; clients owe no attachment.
- Remote replacement and remote bootstrap are checked for safety only.
- Close guard: probes and the backend's stop are bounded by their own timers, and
  the confirmation by its timeout.
- Backend: every await of a start and of a stop ends by a timer (30 or 60 s of health
  checks, 4 s of grace, 2 s after `taskkill`, which itself ends). Children owe
  nothing: they need not boot, obey a signal, or have their exit reported.

## 5. Proofs

Eight modules prove what the runs check on small instances for every value of the
constants. No theorem assumes more of them than the `ASSUME` of the module it is
about: limits are numbers, names are told apart, "none" is no member. Every
invariant and every action property the runs check about a component is a theorem.
Each section says which inductive invariant carries the proof and what the property
it is for lacks; every such invariant was checked by TLC as well.

| Module | Theorem | Property |
|---|---|---|
| `SftpTaskSchedulerProofs` | `OwnersAlwaysSafe` (with `CapacityAlwaysRespected`, `ClaimsAlwaysExclusive`, `ExclusiveAlwaysAlone`) | `OwnersAreSafe` |
| | `DispatchNeverMissed`, `NeverOvertakes` | `NoMissedDispatch`, `NoOvertaking` |
| | `RecordsAlwaysSafe`, `EndedTasksAlwaysStayEnded` | `RecordsAreSafe`, `EndedTasksStayEnded` |
| | `SchedulerImplementsAdmission` | `ImplementsAdmission` (the refinement) |
| | `DispatchIsDecided`, `LoopIsOnePass` | about `Dispatch`, see below |
| `SftpSessionProofs` | `SessionAlwaysSafe`, `KnownOutcomesAlwaysFinal` | `SessionIsSafe`, `KnownOutcomeIsFinal` |
| | `EvictionAlwaysSparesFailures` | `EvictionSparesFailures` |
| `RemoteHostProofs` | `WritesAlwaysSafe`, `LossesAlwaysRaced` | `WritesAreSafe`, `OnlyRacedVersionsAreLost` |
| | `EnsureAlwaysSafe`, `RepairAlwaysSucceeds`, `InstalledAlwaysDurable`, `OnlyRacedEditsAreEverLost` | all four of its run |
| `ArchiveOperationProofs` | `ArchiveAlwaysSafe`, `OnlyTheAgreedIsEverReplaced` | `ArchiveIsSafe`, `OnlyTheAgreedIsReplaced` |
| `PortForwardProofs` | `RegistryAlwaysSafe` | `RegistryIsSafe` |
| `OpenWithProofs` | `OpenWithAlwaysSafe`, `OverwritesAlwaysAgreed` | `OpenWithIsSafe`, `OverwritesAreAgreed` |
| `SshSessionProofs` | `StreamAlwaysSafe`, `FramesAlwaysInOrder`, `EventsAlwaysTrusted` | `StreamIsSafe`, `FramesAreInOrder`, `EventsAreTrusted` |
| `MainProcessProofs` | `CloseAlwaysAgreed` | `CloseIsAgreed` |
| | `BackendAlwaysSafe` | `BackendIsSafe` |

**Scheduler**, for all finite sets of tasks, all claims and all limits. Owners and
order follow from

    AdmissionInv == TypeOK /\ SafeOwners(active) /\ NoMissedDispatch

`SafeOwners` is capacity, exclusivity of claims and of the lifecycle tasks over
*one set* of owners. It is stated over a set because an action frees owners first
and dispatches after: the lemmas `DispatchKeeps...` say that a pass that starts
from a safe set ends in one, and that removing an owner keeps a set safe.
`NoMissedDispatch` is needed for the refinement and for `NoOvertaking`: only when
nothing runnable was left behind does a step that ends without `dispatch` (or
whose dispatch finds nothing) not skip an older task. The records need a second
invariant, `RecordInv`: for each task, which of `state`, `runner`, `active`,
`abortReason` and `released` go together. It too is an operator on the values of
those fields (`Record`), for a pass starts from a state no variable holds.

`Dispatch` is written as a condition on the set that is started, so the proofs also
show that it asks for something: there is exactly one such set (`DispatchIsDecided`:
the oldest task on which two sets differ would have met the same queue and owners).
`LoopIsOnePass` states the loop of the code as the sequence of its turns, each of
which rescans what is left and starts the oldest runnable task, and shows that it
starts that set. The argument is that a turn only takes capacity and claims, so the
loop never goes back (`LoopGoesOn`) and a later turn finds what the pass finds.

**SFTP session**, for any number of tasks, sets of operations and record limits.

    SessionInv == TypeOK /\ Stages /\ RecordInv /\ OutcomeInv

`Stages` says how far `createSession`, the client and `closeSession` are,
`RecordInv` what the records know of each task, `OutcomeInv` what each task has
sent and was answered. That records keep their scheduler needs the second: an open
session remembers every task it still works for, and retention only begins when a
runner has ended. That an answer is final when its outcome is called known
needs the third: while the server may still apply a request of a mutation, the
answer, if there is one, says unknown. Eviction is proved for every finite set of
record numbers, with the theorem of the library on well-ordered numbers: there is an
oldest record to drop.

**Remote file**, for any number of uploaders and every kind of server. `ReplaceInv`
says for each stage of an upload what may be under its temporary name, whether it
has touched the file, and which versions its next change may destroy
(`Progress`). Uploads meet only at the target, so a step of one is handled once
for all others (`Keeps`, `OthersKept`).

**Archive operation**, for any set of entries.

    ArchiveInv == ArchiveTypes /\ Steps /\ Books /\ Closing /\ Sent
                  /\ LeftoversAreKnown /\ Commits /\ Leaves

`Steps` says which verdicts, requests and channels go with a step of the runner,
`Books` when a path is registered and a cleanup goes on, `Closing` who may have
closed the session, `Sent` what an "ok" that is still on its way has done,
`Commits` what is in place after so many commits, and `Leaves` what an operation
nobody disturbs owes to the server when it is over. `LeftoversAreKnown` is
inductive only with `Sent` and `Books`; success is complete because of `Commits`.
The proof takes the actions in groups that touch the same variables, one lemma each.

**Open-with**, for any files and any numbers of openings, uploads, saves, foreign
changes and reconnections.

    OpenInv == types /\ Begun /\ Timed /\ Copied /\ Announced
               /\ Requested /\ QuestionHasARecord /\ Turns

`Turns` is the whole of the conflict dialogs: the task on show is the one whose
resolver is set, nobody queues behind nothing, twice, or while shown, and the queue
and the dialog hold exactly the uploads that ask. What `OpenWithIsSafe` says of the
dialog is not inductive without the queue, for closing one dialog shows the next of
it. `Begun` and `Announced` say that whatever is watched, or reported to the tab,
belongs to an opening whose file is known, which is why a prompt never names a file
without a record. `Copied` bounds what a check may read by what was written to a copy
and what still may be; `Timed` says that only a copy that was written has a check
waiting. `Requested` carries consent from the dialog to the write: an upload that
overwrites was agreed to (`OverwritesAreAgreed`).

**Terminal sessions**, for any clients, any output and caps, for both services.

    SshInv == SessionTypes /\ Links /\ Flow(Stream, 1..produced)
              /\ (service = "ssh" /\ ~creating => Trusted(Stream, 1..produced) /\ KnowsGate(Stream))

`Flow` says where each frame is: sent, waiting, evicted or withheld, never two of
these, and what waits is younger than what was sent or evicted. That is more than
`StreamIsSafe` and `FramesAreInOrder`, which follow from it; they are not inductive
because the next frame must be younger than all before it. `Trusted` says what the
gate owes the stream, of the frames that wait as well as of those sent, with every
status told so far: only so is an event still trusted when it is flushed to a client
that comes later. `Links` says what goes with what, above all that nothing waits while a
client can be reached. `Flow` and `Trusted` are operators on a record and a set of
frames, since `handleShellOutput` works on values that no variable holds while
`Register` replays what the shell said early: the replay is shown to keep them by
the least frame after which they would fail. The same argument, on numbers, carries
eviction to the caps and the flush of the waiting frames, so nothing recursive is
taken on trust and no induction theorem is needed.

**Port forwarding**, for any rules, servers, starts and stops.

    PortInv == TypeOK /\ Guards /\ Registry /\ Beginnings /\ Clients /\ Owners /\ Stops

That a registration overwrites none follows from `Guards`: a start under way holds
the guard of its rule alone. `Registry`, `Beginnings` and `Clients` say what is
known of a client at each stage of the start that made it, which is what makes a
rule that is shown as running one with a live client. `Owners` is why an ended
client is not ended again: apart from its own start, one caller disposes a runtime.

**Remote bootstrap**, for any sessions, versions and lines. After the types
(`TypeAlways`) it takes three inductive invariants:

- `EnsureInv` adds to `EnsureIsSafe` that no transport is opened before the probe: a
  manifest that fails ends a session without a `finally` that would close one.
- `LinesInv` adds to `OnlyRacedEditsAreLost`, still for shells other than fish, that
  the kept lines are also in the durable profile, which a loss of power may bring
  back, and in the copy of every installer that is about to write one.
- `InstallInv` says of a clean session which files have its version at each stage
  of its installer (`Written`), which of them survive (`Synced`), what its status has
  found so far (`Found`), and that nothing is installed before a status was read
  (`OrderInv`). The step of another session is handled once: `SparedStaysUndisturbed`
  needs only that it changes files to the same version and makes durable what is on
  the disk; whoever writes another version takes the session out of `clean`.

**Closing**, for any number of windows and questions. `CloseInv` adds to
`CloseIsAgreed` that a decision has no ground before it has earned one, that a
pending question names a real request and window, and that every positive answer
still on its way was given by a user.

**Backend**, for any number of start runs.

    BackendInv == TypeOK /\ Counted /\ StopInv /\ Alone

`Counted` bounds the children by the runs that spawn them, so a spawn has a fresh
number; `StopInv` ties a stop to the child it signalled; `Alone` says, as long as
nothing disturbs the sharing of starts, that a current child belongs to the run
under way or serves.

Only model-checked, and why:

- every liveness property: fairness and `ENABLED` are out of the prover's reach;
- `ClaimsAreExact` and `StreamIsFaithful`: they compare recursive definitions over
  paths and streams with references, for which one would need induction over data;
- `OnePassIsTheLoop`: `findNextRunnableIndex` over the array, with the `RECURSIVE` loop
  of the code. Its content is proved, of the loop as a sequence of turns
  (`LoopIsOnePass`); that scanning the array finds the oldest runnable task is checked.

## 6. Abstractions

- Database calls take effect when they are issued; failure is a possible result.
- What the model calls a row, a path, a version or a window is a number or a model value.
- A rule is created and its server chosen before the model starts; metadata
  columns, audit rows and error texts are left out.
- The results of port-forward calls are not told apart: a start or a stop has
  returned or has not. `unforwardIn` either returns or throws, as a connected or a
  dead client makes it.
- Terminal output is numbered chunks with a weight. Ping, resize, telemetry and
  completion neither reach the shell's order nor end the session and are left out;
  control messages to a detached client are lost, as in the code.
- An acceptable event payload is plain characters, another is any that holds a
  control character; base64 and JSON are not read.
- Equal sizes and times of different file contents are not modelled.
- An archive's directories are represented by their leaves.
- A directory the installer makes (`install.go:230`, `289`) is not synced into its parent; it
  is taken to survive with the files in it, as file systems that order metadata
  give it. `InstalledIsDurable` rests on that.
- The installer's check of what is installed is one step; its status command, which
  the session runs, reads the parts one by one.
- On macOS an approved close emits its event inside `close()`. A backend child that
  cannot be spawned at all emits no exit event; it is left out.

## 7. Plan

1. The forwarded connections and the 64-connection limit (`port-forward/session-service.ts:543`).
2. `RendererTaskQueue`; upload staging and download authorizations under it;
   batch operations with partial results over `SftpSession`.
3. The renderer's SSH panes as the clients of `SshSession`.
