# A TLA+ model of che-machine-exec

che-machine-exec runs next to the containers of a Che workspace. Its clients (an
editor in the browser) create *execs*, processes in those containers, over JSON-RPC,
attach to their terminals over websockets, and are notified when they end. The same
process stops the workspace when nobody uses it, and watches command line programs to tell
whether somebody does. This directory holds TLA+ modules of that program, the configurations
that check them with TLC, and proofs that TLAPS checks. Source paths below are relative to
the repository.

## 1. Inventory

| Component | State it keeps | Operations | Interacts with |
|---|---|---|---|
| **Websocket connection handler** `ws-conn/` | `wsConns`, `wsConnsLock`; per connection a reader and a pinger goroutine | `ReadConnection`, `removeConnection`, `WriteDataToWsConnections`, `CloseConnections`, `readDataFromConnection`, `sendPingMessage` | gorilla connections; `inputChan` of the exec |
| **Exec session** `exec/`, `api/websocket/attach.go` | per exec `Buffer`, `MsgChan`, `SizeChan`, `ExitChan`, `ErrorChan`, executor | `Attach`, `Resize`; `PtyHandlerImpl.Read/Write/Next`; `saveActivity`; `CleanUpOnExitOrError` | connection handler, output buffer, UTF-8 filter, Kubernetes stream, event bus |
| **Exec registry and creation** `exec/kubernetes_exec_manager.go` | `execMap`, `prevExecID` | `Create`, `doCreate`, `Check`, `Resize`, `Remove`, `ListAvailableContainers`, `Resolve` | container filter, command resolver, JSON-RPC |
| **JSON-RPC API and event bus** `api/jsonrpc/`, `api/events/`, `api/websocket/connect.go` with `che-go-jsonrpc` | tunnels, a request and its timer each, subscribers | create, check, resize, list; `Pub`, `SubAny` | exec manager, health watcher |
| **Command and shell resolution** `exec/command_resolver.go`, `shell/`, and **container filter** `filter/` | none | `ResolveCmd`, `DetectShell`; `GetContainerList`, `FindContainerInfo` | info exec, Kubernetes API |
| **Info exec** `exec-info/` | two output buffers | `Start` with a 3 s timeout | Kubernetes stream |
| **UTF-8 filter** `output/utf8stream/` | `rest`, the bytes of an unfinished character | `ProcessRaw`, `FlushBuffer` | `PtyHandlerImpl.Write`, the buffer of `io.Copy` |
| **Output buffer** `output/line-buffer/` | a ring of 1000 lines under a lock | `Write`, `GetContent` | `PtyHandlerImpl.Write`, `Attach` |
| **Idle managers** `timeout/inactivity.go`, `run.go`, `shutdown.go` | two timers, `activityC` | `Start`, `Tick`, `stopWorkspace` | HTTP handler of `/activity/tick`, CLI watcher, Kubernetes API, SIGTERM |
| **CLI watcher** `timeout/cli-watcher.go` | configuration, its path and modification time, ticker | `Start`, `Stop`, `loadConfig`, `applyDefaults`, `applyEnvCeilings` | idle manager (`Tick`), activity sources |
| **Activity sources** `timeout/activity_source*.go`, `codex_app_server_*.go`, `procutil.go` | per-process caches; connections to Codex servers | `Scan` | procfs, Codex servers |
| Others: `auth/`, `common/`, `api/validation/`, `api/rest/`, `kubeconfig/`, `client/`, `cfg/` | none beyond one request | | |

What makes each correct:

- *Connection handler*: a live connection keeps receiving output although every broadcast
  replaces the whole list; a connection that went away does not come back; a lock held
  while writes block is released in the end; one writer per connection (it is not so).
- *Exec session*: a client that attaches at any moment misses no output; the end of the
  process is notified, once, after the exec is removed, and truthfully; input and sizes
  get through; nothing that can happen to a connection keeps the end from being notified.
- *Registry and JSON-RPC*: one answer per request, in the end, whatever its handler waits for;
  an end is notified to everybody who subscribed; clients that come and go panic nobody.
- *UTF-8 filter and output buffer*: what is sent is valid text, with bytes replaced and
  none lost; what is replayed is the last lines of what was sent.
- *Idle managers*: no stop without the timeout it is for, a stop in the end, also through
  failures; SIGTERM ends them.
- *CLI watcher*: the settings follow the files, and never beyond what the administrator
  allows; a workspace in which a watched program is active is not stopped.
- *Activity sources*: a program in use, a thread at work, is seen; caches stay bounded;
  connections neither leak nor mix up answers.

What is hard: goroutines per connection, per stream, per exec and per request that meet on
unbuffered channels; a mutex held over blocking writes; state tested and assigned with no lock
(`Buffer`); replay against live output; retries against activity; files, processes and
servers that change between two looks at them. The full list, with source lines and the
properties that cover them, is `hazards` in `PROJECT.json`.

## 2. Modules

| Module | Models | Checked by | Proofs |
|---|---|---|---|
| `WsConnHandler` | `ConnectionHandlerImpl` and the goroutines of its connections, with gorilla's rule of one writer | `MCWsConnHandler` | `WsConnHandlerProofs` |
| `ExecLifecycle` | abstract: what a client is promised about one exec | as a refinement target | |
| `ExecSession` | one exec from creation to notification; instantiates `WsConnHandler` (as `H`) and implements `ExecLifecycle` (as `L`) | `MCExecSession` | `ExecSessionProofs` |
| `ContainerResolution` | which container an exec runs in, which shell and command it gets | with `ExecService` | |
| `ServiceContract` | abstract: what the clients of the JSON-RPC interface are promised | as a refinement target | |
| `ExecService` | the registry, the JSON-RPC tunnels and handlers, the event bus, over several execs; implements `ServiceContract` (as `Contract`) | `MCExecService` | `ExecServiceProofs` |
| `Utf8StreamFilter` | the filter of the output, over classes of bytes | with `OutputText` | `Utf8StreamFilterProofs` |
| `LineRingBuffer` | the replay buffer | with `OutputText` | with `OutputText` |
| `OutputText` | what becomes of the output of a terminal: the filter, then the buffer | `MCOutputText` | `OutputTextProofs` |
| `IdleManager` | both idle managers and their shared effect on the DevWorkspace | `MCIdleManager` | `IdleManagerProofs` |
| `WatcherConfig` | how the settings of the CLI watcher and its sources come about (operators) | with the two below | |
| `CliWatcher` | the watch loop, its files and its ticker | with `WatchedWorkspace` | |
| `WatchedWorkspace` | the CLI watcher with the inactivity manager it reports to (`IdleManager` as `M`) | `MCWatchedWorkspace` | `WatchedWorkspaceProofs` |
| `TtyActivity` | the tty source over a changing table of processes | with `ActivitySources` | with `ActivitySources` |
| `CodexSource` | the Codex source, its connections, and the servers | with `ActivitySources` | with `ActivitySources` |
| `ActivitySources` | the two sources, one of them enabled | `MCActivitySources` | `ActivitySourcesProofs` |

Operators whose comment begins with `Mutant:` are wrong versions of the definition that
follows them. No behaviour uses them; put in its place, each breaks the property named
in `mutants` of `PROJECT.json`, which shows that the property depends on the code.

### WsConnHandler

A connection (`Conns`) has a socket (`sock`), a reader (`reader`) and a pinger (`pinger`);
an output goroutine (`Writers`) broadcasts. One action is one step between two points
where a goroutine can block or another can interfere: a broadcast is
`WriteDataToWsConnections` (take the lock), `BroadcastBegin`/`BroadcastEnd` for every
connection in any order, `BroadcastDone` (replace the list, unlock).
`CloseConnections`, `ReadConnection` and `RemoveConnection` never block under the lock and
are one step each, enabled when it is free. `wsConns` is a set: its order cannot be
observed and `Attach` registers a connection once. `inflight` records who is inside
`WriteMessage`. A second writer is possible (pings and replays take no lock): then
the connection is `garbled`, and one of the two may panic, which ends the process unless
it is the HTTP goroutine (gin recovers that). A write to an open connection succeeds after
any delay (there is no write deadline); to a connection the client left it may do either.
`ReadDeadline` is the pong deadline, at any time.

### ExecSession

`Conns` are `/attach` requests with the connection and, for those that find no `Buffer`,
the stream each opens. `attach[c]` is the place in `Attach`:

    idle -upgrade-> upgraded -getByID-> found -ReadConnection-> registered
      registered -Buffer # nil-> restore -> restoring -> returned           (replay)
      registered -Buffer = nil-> first -Buffer := New-> streaming -Stream returns->
        stopping -stopActivitySaver-> closing -CloseConnections-> signalling
        -ExitChan/ErrorChan-> returned

The test of `Buffer` (`AttachFirst`) and its assignment (`AttachNewBuffer`) are two
actions because the code takes no lock: two streams are possible, and everything is modelled
for that case too. `Writers` are the goroutines that copy stdout and stderr of each stream
(stdout alone with a terminal); `PtyStore` ... `PtySent` are `PtyHandlerImpl.Write`. An
output chunk is what a call of `ProcessRaw` returns, the buffer a set of chunks.
`MsgChan` is a meeting of a reader (`Type`, then `InputTaken`) or a saver (`SaverTick`)
with a stdin goroutine (`TakeInput`, `TakeTick`), which then is in the write to the process
(`stdin[s] = "writing"`) and receives nothing until that returns (`InputWritten`) or fails
(`InputFails`), which nobody promises while the process runs. `senders` is the queue of
those who wait on the channel: Go serves the longest waiting first. `SizeChan` holds 0 or 1 sizes and
starts full, as `doCreate` leaves it. The watcher meets `Attach` in `AttachSignal`, then
removes, then publishes. `Stream` itself (client-go) is modelled as far as `Attach`
depends on it: it opens or fails, returns when the outputs are copied, does not wait for
its stdin and size goroutines.

The refinement to `ExecLifecycle` maps the phase from the watcher's place and `hasBuffer`,
the answer to each request from `attach`, and the result from what the watcher received.

### ExecService

The service as its JSON-RPC clients see it. A client has a tunnel of three goroutines.
`reader[c]` is the place of the read loop, which handles a request to its end before it reads
the next; `out[c]` is the message the write loop writes. A send on `jsonOut`, a channel
without a buffer, is over when an idle write loop has taken the message (`HandsOver`, also
for a client that reads nothing), and the sender goes on; the message arrives, or is lost
if the client has left, in a step of its own (`Writes`). `timer[c]` is the goroutine of a request
that answers after a minute. `once[c]` is the `sync.Once` of the answer, held by whoever waits for
the write loop. `CloseOnce` closes the channel; after that `trySend` recovers and `SendError` does not,
which `TakeTimeout` turns into `crashed`. `setup[c]` is the place in `HandleConnect`:
the loops run before the token is stored and before the client is subscribed, so `create` may
fail for want of a token, and an end may be published before `SubAny`.

`create` refuses a working directory with shell metacharacters and a request without a token,
lists the containers once (`CreateExec`, with any set of running pods), then tries
one after the other (`DoCreate`; a pod may have stopped in between) with the operators of
`ContainerResolution`, and starts a watcher (`CreateSucceeds`, `CreateFails`). Each
watcher (`Remove`, `Pub`, `Accept` for one consumer after the other) blocks in a client
that does not read. The life of an exec is that of `ExecSession`, seen from outside.

`ServiceContract` says the same without goroutines, channels, timers and the registry: a request is
waiting, then answered, that is, the answer is in the `mail` to its client, then the next is read;
mail is one message at a time and arrives in the order it was sent; an exec goes through the
phases of `ExecLifecycle`; who is `owed` an announcement is told once. The refinement maps a request
from the place of the read loop and `sync.Once` (`Call`), the phase from the registry, the life of
the exec and the place of its watcher (`Phase`), the mail from what the write loop writes, and
`owed` from the consumers that watcher has still to call. The contract says more than the
invariants: that nobody who had subscribed is left out, and that an answer or an end is missed only
by one who has left.

### Output: Utf8StreamFilter, LineRingBuffer, OutputText

A byte is its class: `char`, `nl`, `lead2` to `lead4`, `cont`, `bad`, and `leadFFFD` for the first
byte of U+FFFD, a valid character that the code cannot tell from an error. `Filtered` is what
`ProcessRaw` makes of its data: all of it if that is text, and `Filter` otherwise. `Filter` and
`HandleLastBytes` are the two loops, as recursive functions. `rest` is a slice of
the buffer of `io.Copy`, so `Kept(chunk)` is what is left of it when the next chunk has been
read into the same buffer, and `at` is where it begins. The ring holds lines as
sequences of fragments, which is how `scanLinesNoDropCR` delivers them; `Write` is one
action (it holds the lock throughout), `GetContent` an operator. A fragment that reaches the 64 KB
limit of `bufio.Scanner` ends the scan silently; the model lets that happen anywhere and
remembers what was `lost`. `PtyWrite` puts each chunk through the filter and what
comes out into the ring.

### IdleManager

Each manager is `looping` (coming round), `parked` in its select, `rearming` (in the
activity case), `stopping` (inside `stopWorkspace`) or has `returned`; `off` is the no-op
manager of a timeout <= 0. `Tick` is received only by a parked goroutine, as the send with
a default case demands. A failed stop may have been applied (the answer was lost). Time is
discrete; `left` is what remains on a timer, `quiet`, `silent` and `age` are ages that
saturate at the timeout they are compared with, so the state is finite and time
unbounded. The module follows Go 1.23 timers (the `go` line of `go.mod` is newer): `Stop`
leaves no stale value, so the drain at `inactivity.go:114` never blocks.

### WatcherConfig, CliWatcher, WatchedWorkspace

`WatcherConfig` has the settings as operators: `Resolve` is `applyDefaults`,
`ignoreExclusions` and `applyEnvCeilings`; `ConfigPath` is `getConfigPath`;
`ResolveSources` is `resolveActiveActivitySources`. Durations are integers of milliseconds, a
text that does not parse is a negative one.

`CliWatcher` is the goroutine of the watcher. `loadConfig` is as many actions as it takes looks at
the files: `LookUpward` for each directory from the project up, `LookHome`, then
`StatMissing`/`StatUnchanged`/`StatChanged`, and `ReadNew`/`ReadFails`; files are saved, moved in
with the time they had, and removed between any two of them. Of the search the run has the case
without `CLI_ACTIVITY_TRACKER_CONFIG`, which names one file. `newest` is the latest time of any file
that has counted or was about to be read, and `rewound` says that the file which counts now is no
later than that, be it that it came to count with an older time, or that another was found and
examined while it was saved: the code then does not read it. `FirstTicker`, `SkipScan` and `BeginScan` are the rest of a round: the ticker is
restarted when the period has changed, and a period below a second is `NewTicker(0)`, a panic.
`Scan` asks one source. The ticker keeps one tick for a receiver that is late.

`WatchedWorkspace` composes it with the inactivity manager of `IdleManager`: `Report` of the one
is `Tick` of the other. Time passes when both wait; a scan (up to `MaxScan` steps) and a
stop request may take time as well.

### TtyActivity, CodexSource, ActivitySources

`TtyActivity` has a table of processes that start, exit and reuse PIDs, and terminals. A scan
goes through the directory in two actions for each process, `Identify` (is it a user's, is it
ignored) and `Judge` (age, interactivity, terminal and CPU), between which everything may
change. The two caches are kept under the PID alone, as in the code; history fields say
whose sample it is. A cached terminal is fresh in the step of the clock it was cached in.

`CodexSource` has servers that start, hang, exit and are replaced under the same PID, and threads
known by what a scan makes of their `updatedAt` ("stale", "fresh" or "future"). A call is
`Request` and the frames that come: answers in the order of the requests, late ones included,
notifications, and requests of the server with an id of its own. `CallFails` is a deadline or a
dead connection.

## 3. Runs

| Run | Instance | What it shows |
|---|---|---|
| `connections` | 2 connections, 2 writers | `LiveConnRegistered`, `ForgottenStaysForgotten`; with fairness `LockIsReleased`, `DownIsForgotten` |
| `session_race` | 2 clients, terminal, 1 chunk, any number of streams, 1 Resize call | `NotificationTruthful`, `NoOutputLost`, `ImplementsLifecycle` |
| `session_end` | 2 clients racing, no output | `EndIsNotified` |
| `session_io` | 2 clients that type again and again, one or two streams, a saver that ticks, no output | with fairness `InputIsTaken` |
| `registry` | 2 clients, one of 2 requests that may stall and leave and one that waits; 1 exec, 2 containers in 2 pods | `NoPanic`, `AnsweredOnce`, `ImplementsContract`; with fairness `RequestIsAnswered`, `EndsAreNotified` |
| `output_text` | every stream of up to 5 bytes of 5 classes in chunks up to 4; a ring of 2 lines | `OutputIsText`, `OnlyReplaces`, `TextComesThrough`, `ReplayIsWhatWasSent` |
| `idle` | timeouts 3 and 5, retry 2 | `StoppedForItsReason` (with `TimersInv`), `IdleIsStopped`, `RunIsBounded`, `SigtermEndsManagers` |
| `watched` | idle timeout 80 s in steps of 10 s, a file in the project and one at home, 2 changes of them, 4 environments, slow scans | `ConfigFollowsSavedFile`, `UserOnlyTightens`, `CrashIsTheAdmins`, `BusyIsNotStopped` |
| `activity_sources` | tty: 2 PIDs, 3 kinds of process, 3 steps of the clock; Codex: 1 PID, 2 servers one after the other, 2 threads | `ActivityIsSeen`, `CpuCacheBounded`, `NoConnectionLeak`, `AnswersMatch`; with fairness `ActiveServerIsSeen` |

Each of them but `session_end` and `session_io`, whose modules others check, also has
the type invariant of its module. Three runs end in a violation, each of a statement found
in the repository (`findings` in `PROJECT.json`):

| Run | Statement | What happens |
|---|---|---|
| `find_concurrent_writes` | gorilla's `doc.go`: no two goroutines may call the write methods at once | a ping, or a replay, writes during a broadcast |
| `find_stale_config` | `CLI-WATCHER.md:309`: changes of `.noidle` take effect without restart | a file that comes to count with an older modification time is not read |
| `find_split_rune` | `utf8-stream-filter.go:23`: `rest` is for a rune split between two pieces | the next chunk is read over it |

**Bounds.** Two connections are what every property here speaks of at most: the one at
stake and one that another goroutine acts on. Two writers make broadcasts compete. One chunk
per output suffices for `NoOutputLost`, which is about one chunk and the moment a
client attaches. It is stated for the case that one request opened a stream, since with two the second
replaces the buffer of the first (see Divergences). `Typists`, `Ticking` and `Pinged` bound which clients type, which savers tick and which connections
live to see a ping; how often they do is not bounded. In `session_io` two typists, one of them with
a saver beside it, compete for one channel, and a second stream may take what the first cannot. For
the safety properties the theorems remove the bounds.

In `registry` one exec, with one client at work and one that only listens, has every pair of
steps that meet: a request against its timer and the leaving client, the publication
against subscription and leaving, `Resize` against an exec nobody attached to, and
a second request after all of these, read also while the answer to the first is still being
written. `Fickle` bounds which clients stall and leave: the one at work does; the listener waits
behind it. Two execs that publish at once take turns at one
consumer after the other. In `output_text` five bytes are a character of four and
one more, or U+FFFD and the beginning of another, in every cut, chunks of four reach the branch for
errors in the middle of a chunk, and a ring of two lines comes round. The idle timeouts
are larger than, and no multiple of, the retry period. In `watched` the idle timeout is eight
steps and the longest check period two; two changes are what a file needs to be replaced, or to
be broken and mended, to leave the place to the other one, and for both to be saved between two
looks of one load. Longer sequences are covered by `TheConfigFollows`. In `activity_sources`
window, grace and age (2, 1, 2) are such that a process is young, in its window, out of it
and too old within the bound, and 2 PIDs let one be used again while the other is scanned.

Deadlock is checked in `idle` alone: everywhere else everything may end (all clients gone,
the exec notified, the watcher stopped, a bound reached).

**Fairness.** Goroutines that can run do (weak fairness). A goroutine that waits for a mutex
or a channel, or has a ready case in a select, gets it if it is available again and again
(strong fairness): `sync.Mutex` hands itself to a starved waiter, channel queues are FIFO,
select picks at random. Assumptions on the environment, each named in its module: a client
drains its connection or is reported gone (`ClientsDrain`, and the same in `WriterRuns`), without
which the lock is not released;
`Stream` returns when the outputs have ended; the API server does not refuse every
attempt for ever (`ApiAnswers`, in the properties that need it; `SigtermEndsManagers` does
not). `InputIsTaken` needs no more than that a stdin goroutine receives when somebody waits; that no
write to the process stays blocked for ever is its premise. In `ExecService` the minute of a timer
comes to its end, a write ends if the client reads again and again, and the two properties have
`NobodyStaysStalled` as their premise: a client that never reads holds up its own answers
and, since `Pub` calls one consumer after the other, everybody behind it. In
`ActivitySources` the watcher scans again and again and a server that does not hang answers.
Nothing is assumed of processes ending, clients acting, ticks, or pods. Liveness of a session
holds "unless the server has died", of the panic a concurrent write may cause.

## 4. Proofs

All for arbitrary constants (any number of connections, writers, requests, clients, execs,
processes; any timeouts; any contents of files).

- `WsConnHandlerProofs`: `TypeCorrect`, `LiveConnStaysRegistered`, `ForgottenIsForgotten`,
  `AtMostThreeWritersMeet`. The properties are not inductive: that a broadcast replaces `wsConns` by `working`
  is harmless only because everything else that writes `wsConns` is shut out by the lock.
  `IInv` adds `BroadcastInv`, which says what `todo`, `working` and the write under way
  together hold during a broadcast, and the types. `BeginWriteEffect` summarises what a write
  may do to a connection, panics included. `AtMostThreeWritersMeet` says how far the finding
  of `find_concurrent_writes` goes: a broadcast, the pinger and the request of the connection
  may meet in `WriteMessage`, two broadcasts never do.
- `ExecSessionProofs`: `SessionDrivesHandler` shows that every step of a session is a step of
  `WsConnHandler` or leaves its variables alone; `SessionKeepsLiveConns`,
  `SessionForgetsConns` and `SessionWritersMeet` follow from the handler's theorems without being proved again.
  `SessionImplementsLifecycle` is the refinement: its invariant `LifeInv` ties the watcher's
  place to the buffer, the registration and the signal.
  `SessionTypeCorrect`, `NotificationIsTruthful`, `NoOutputIsLost`. On
  top of `Types`, `StreamInv` says which requests can have a stream, a saver and a process;
  `EndInv` keeps the signal tied to a stream that returned with it; `RestoringInv` says that a
  replay under way is a write under way, and `OutInv` that whatever was produced is in the buffer
  and, for every client that is up, in one of the places `Unsent` names or already seen.
  `OutInv` holds as long as one request opened a stream. These need the handler's
  `BroadcastInv`, taken from the theorems of `WsConnHandlerProofs`.
- `ExecServiceProofs`: `TypeCorrect`, `NoLateTimerPanics`, `RequestsAreAnsweredOnce`,
  `NoticesAreTruthful`, `ServiceKeepsContract`.
  `AnswerInv` says what `sync.Once` tells of the timer and the handler; its core is that a
  read loop at rest has been answered for, so that the channel is closed only when nobody will
  send. `MailInv` counts the answers: those received and the one that is being written are those to
  the requests that are done with, as long as the client is there. `BusInv` says that identifiers in use are below the counter and belong to one handler,
  that a client subscribes once, and who has been notified by which watcher. For the types,
  `SlotsInv` says that the identifiers given and those set aside for the requests that may
  still create an exec fit the registry. The refinement rests on all of these, on `PhaseInv` (an exec
  is registered exactly from its creation to its removal by the watcher, and the identifiers in
  use are those up to the counter) and on `OpenInv` (the tunnel of a client that has
  come and not left is open). One lemma for each kind of step shows it to be a step of the contract
  or none; `CallMoves` and `PhaseMoves` say that a step touches one request or one exec.
  `NoticesAreTruthful` is about one notice (`NoticeTruthful`, stated there, since the
  run checks the contract, from which it follows).
- `IdleManagerProofs`: `TypeCorrect`, `TimersAreLongEnough` (the inductive `TimersInv`: what
  remains on a timer and the age it is measured against never sum to less than the timeout)
  and `StopsOnlyForItsReason`.
- `WatchedWorkspaceProofs`: `TheUserOnlyTightens`, `NoFileCrashesTheWatcher`, `TheConfigFollows`.
  `SettingsInv`: the settings in force are `Resolve` of some file there may be, in the environment
  there is; the rest is arithmetic of ceilings and minimums (`CeilingBinds` and what follows it).
  `TheConfigFollows` is proved from `FollowInv`: `CountingInv` relates the time of the file that
  counts to the latest there was, `RememberedInv` bounds the one in the configuration by that,
  `ReadInv` says that a configuration with the latest time is of the file that counts, and
  `LookingInv` keeps what the load under way has looked at, found and examined in step with the
  files.
- `TheBusyAreNotStopped` (same module) proves `BusyIsNotStopped`, which relates two goroutines,
  a ticker and two clocks. `BusyInv` is its core: as long as no stop has failed, either the time
  for which the source has been active, or the time since the manager received a tick, is short
  enough even when the wait for the next report is added (`InTime`). `Wait` bounds that wait by
  what remains of the scan and the ticker, whichever the watcher is at. It rests on `PeriodInv`
  (the ticker goes at the check period in force, a quarter of the idle timeout at most),
  `ClockInv`, `IdleInv` and `QuietInv`, and on `TimersInv` of `IdleManagerProofs`, taken over
  through the instance `MP`. `TypeCorrect` adds `BoundsInv` and that the settings are among those
  files and environments can give.
- `ActivitySourcesProofs`, the Codex source: `NoConnectionLeaks`, `AnswersAreMatched`. `SocketInv` counts the connections the
  source knows of, `CachedInv` says that only the one being dialled is not initialized, and
  `FreshInv` that what is under way on the present connection, if it carries the id of the present
  call, is of that call; it is what a late answer on a connection used again would break.
- `ActivitySourcesProofs`, the tty source: `SamplesAreBounded`, `WorkIsNotMissed`. `NumbersInv` says that processes are
  numbered as they start, so that the next one under a PID is told from the last; `SampleInv`
  that a process either has used the CPU since its last sample or has not used it later than the
  sample says; `SubjectInv` that the process being judged has the name it was identified by;
  `BoundInv` that samples are of processes in the directory, so that a cleanup leaves at most
  one for each that is visible. `TypeCorrect` covers both sources; `TimesInv` adds that what a
  cache remembers lies in the past.
- `Utf8StreamFilterProofs` and `OutputTextProofs`: `MessagesAreText`, `BytesAreOnlyReplaced`,
  `ValidTextComesThrough`, `TypeCorrect`, `TheReplayIsWhatWasSent`, for every stream of bytes in
  every cut. The loops are recursive functions. What they compute is proved by unfolding
  one step at a time, with induction as a set of positions that is closed under the next one (or a
  least counterexample), so that no theorem with an operator parameter is needed. `FilterInv` says
  of the filter that each message, and all that was sent, is text without an end cut off; that
  bytes are replaced one for one; and that text which came as text is sent as it came, the rest
  being shorter than the character it begins, or beginning with a U+FFFD. `TextInv` adds the buffer: what was sent is its
  fragments in a row, each ending at a newline or at the end of a chunk (`PiecesAreCut`), and
  `Shows`: there is a cut of what was stored into lines such that the place `k` behind the
  latest holds the `k`-th line from the end, and the latest place is open if and only if the
  last line is. `LastLines` and `NewlinesCounted` turn lines into the counting of newlines that
  `ReplayIsWhatWasSent` speaks of, and `ContentShown` follows `GetContent` once round the ring.

The assumptions are those named in the modules: `FilterAssumption`, `RingAssumption`,
`OutputAssumption` (a ring for at least as many fragments as there are bytes, a bound of
the model), `WorkspaceAssumption` (the clock is fine enough to tell a check period, and a scan
takes less than three quarters of the idle timeout, an assumption on the environment: the calls to
Codex servers have deadlines, reading `/proc` has none), `WriterAssumption`, `SessionAssumption`
(finitely many requests, names of goroutines distinct, bounds natural numbers),
`TimeoutAssumption`, `WatcherAssumption` (durations are integers, the directories and the sources named a
sequence, the nil configuration none of the others), `ServiceAssumption`, `SourcesAssumption` (PIDs finitely
many natural numbers, threads and message kinds distinct).

Only model-checked: liveness, since liveness under fairness and `ENABLED` are out of the prover's
reach (`LockIsReleased`, `DownIsForgotten`, `EndIsNotified`, `InputIsTaken`, `RequestIsAnswered`,
`EndsAreNotified`, `IdleIsStopped`, `RunIsBounded`, `SigtermEndsManagers`,
`ActiveServerIsSeen`). Every other property of a passing run is a theorem.

## 5. Divergences

Found while modelling, besides the three that a run shows; each can be seen in the module named.

*Exec session.* Two requests may both find `Buffer == nil` (`exec/kubernetes_exec_manager.go:281`
and `:291`): two processes run for one exec, and the end of the first is published while the
second runs. A `Resize` before the first attach, or after the end, blocks the read loop of its
tunnel for ever, since `SizeChan` is full from the start; its client has the answer of the timer
alone. A reader whose stream has ended blocks on `inputChan` for ever
(`ws-conn/ws-connection-handler.go:117`). The empty message of `saveActivity`
(`exec/activity-connection-saver.go:25`, `:37`) does not reach the stream: it is read as 0 bytes,
of which `io.Copy` makes no write. A message longer than the buffer of `io.Copy` is cut off
(`exec/pty_handler.go:31`). A process that does not read its input blocks the readers of all
who type, those of clients that have left meanwhile included, and the saver.

*Service.* A request may be read, and handled, before the answer to the one before has been written
(`vendor/github.com/eclipse/che-go-jsonrpc/tunnel.go:287`, `:302`). The watcher of a failed `Create` waits for ever (`api/jsonrpc/handlers.go:73`).
`CheckExec` and `ListContainers` answer a request twice, and only `sync.Once` hides the second.
The token is stored after the read loop has started (`api/websocket/connect.go`), so a prompt
first request is refused. Consumers are never taken off the bus.

*Output.* A plain character behind an invalid byte at the end of a chunk is replaced as well
(`E2 41 42` becomes two placeholders and `42`). A valid U+FFFD is taken for an error
(`output/utf8stream/utf8-stream-filter.go:54`): near the end of a chunk that does not end with a
complete character it is kept in `rest`, with what follows it, although it is complete (`EF BF`, then
`BD D0`, keeps all four bytes), and it goes on so without limit as long as chunks are short and each
ends inside a character. So more than the three bytes its comment speaks of (lines 84-87) come to
`handleLastBytes`, which looks at three. `FlushBuffer` is never called, and does not clear
`rest`, as its comment says it does (`output/utf8stream/utf8-stream-filter.go:157`).

*Idle managers.* A tick that comes during a stop is dropped, while the comment at
`timeout/inactivity.go:90` says it will reset the timer: after a failed stop the next
attempt comes after the retry period all the same. `Start` has a value receiver
(`inactivity.go:125`), so `Stop` never finds the watcher.

*CLI watcher.* An environment value replaces the default even when it is the looser of the two,
while `CLI-WATCHER.md:501` calls it a ceiling for the resolved value. A check period of the
environment below one second is `NewTicker(0)`, a panic. `forceWatch` has no effect on the
always-ignored commands (`timeout/activity_source_tty.go:79` ignores them before the
configuration is asked; `CLI-WATCHER.md:409` says it overrides them). The places are looked at one
after the other (`cli-watcher.go:466`, `:438`), and the file found once more (`:496`). When another
that comes before it is saved meanwhile, and the one found still later, the file that does not count is
read and leaves its later time behind, so that the one that counts is not read until it is saved
again (`:528`; the history variable `rewound` sets these cases apart).

*Activity sources.* A CPU sample outlives its process and is taken for that of the next process
with the PID (`activity_source_tty.go:620-646`). Entries for processes without a terminal are put
into `ttyPathCache` without regard to its maximum (`:366-380`). A process that exits between the
reading of its name and that of its age counts as young, hence active. A thread of the
future hides a fresh one of the same server, although `CLI-WATCHER.md:245` has any loaded thread
count.

## 6. Not modelled

- `Resolve`, `CreateKubeConfig` and `kubeconfig/`: one info exec that writes one file; no state.
- `GetContainer` of the container filter, which serves only `Resolve`.
- `auth/`, `common/`, `api/validation/`, `api/rest/` and the origin check: functions of one request.
- `cfg/`, `client/` and `main.go`'s wiring: flags and construction of API clients.
- Requests without an id, which the library answers to nobody.
- Within the modelled parts: the size of reads (`PtyHandlerImpl.Read` cuts a message longer than
  32 KB); the text of messages; the parsing of `/proc` files and of `/etc/passwd`; the eviction
  of `ttyPathCache` at 1000 entries; the race of stdout and stderr on one filter and of the info
  exec's goroutine on its buffers after the timeout, which have no defined outcome; a search for the configuration that
  `CLI_ACTIVITY_TRACKER_CONFIG` cuts short; a user
  who starts the workspace again while the old pod still ends; bytes behind a lead byte that
  UTF-8 excludes although they are continuations.

## 7. Plan

1. *(done)* `WsConnHandler`, `ExecSession`, `ExecLifecycle`; `IdleManager`; `LineRingBuffer`.
2. *(done)* `CliWatcher` with `IdleManager`; the activity sources; the registry with JSON-RPC and
   the event bus; the filter and the buffer together.
3. *(done)* Proofs of the safety properties, `BusyIsNotStopped` and the output included.
4. *(done)* `ServiceContract`, and the proof that `ExecService` implements it.
5. To do: an exec of `ServiceContract` is announced by the phases `ExecLifecycle` gives a session,
   but only the names tie them. Proved would be that each exec of `ExecService`, seen alone, is a
   lifecycle; then the lemmas that need the longest leaves split further.
