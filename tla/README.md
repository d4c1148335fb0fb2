# A TLA+ verification of penguin

`penguin` is an endpoint agent: a daemon (`penguind`) that runs feature modules
(a DNS resolver manager, `squawk`, and a VPN, `tobogganing`), and clients (the
`penguin` command line and a tray application) that drive it over a Unix socket.
This directory holds TLA+ models of the parts of it whose correctness depends on
interleavings, failures and restarts, TLC configurations that check them on small
instances, and TLAPS proofs of the central safety properties for all instances.

## 1. Inventory

| Component | State | Operations | Talks to | What is hard | Module |
|---|---|---|---|---|---|
| Module supervisor, `internal/daemon/supervisor.go` | map of loaded modules with state, instance and restart count; enabled-set; lifetime context | `Load`, `Unload`, `StartEnabled`, `Shutdown`, `ReportFailure`, restart goroutines | modules, license client, broker, state file | goroutines that sleep and know their module only by name; a restart that drops the lock before it reports; shutdown beside them | `Supervisor` |
| State file, `internal/daemon/state.go` | enabled-set on disk | `LoadState`, `Save` | supervisor | crashes, failed writes, unreadable file | `Supervisor` |
| Event broker and `WatchEvents`, `internal/daemon/server.go` | subscriber channels | `Subscribe`, `Unsubscribe`, `Publish`, stream loop | modules, clients | overlapping publishers, full channels, departing clients, two brokers | `EventBroker` |
| Daemon process, `cmd/penguind`, `internal/daemon/lock_unix.go`, `internal/ipc/listen_unix.go` | lock file, socket file, calls in flight, what the modules changed | `initDaemon`, serve loop, `Stop` | service manager, clients | several processes, kill at any point, failed boots, a drain without deadline | `DaemonProcess` |
| squawk resolver (Linux), `internal/modules/squawk` | `/etc/resolv.conf`, its copy, the marker | `Init` with recovery, `Start`/`Apply`, `Stop`/`Restore` | file system, operator | death between any two file operations | `SquawkResolver` |
| tobogganing VPN, `internal/modules/tobogganing` | token in memory and in the secret store, tunnel, health, two mutexes held over requests | connect, refresh loop, monitor, commands, `Stop` | VPN manager, secret store | goroutines against `Stop`, mutexes across requests, tokens left for the next start | `Tobogganing` |
| License client, `internal/licensing` | cache in memory and on disk | `New`, refresh loop, `FeatureEnabled` | license server | restarts, changed keys, failed saves, withdrawn features | `LicenseClient` |
| RPC handlers, `internal/daemon/server.go`, `dispatch.go` | none of their own | `LoadModule`, `UnloadModule`, `ListModules`, `GetStatus`, `ListCommands`, `Dispatch` | supervisor, modules | several critical sections per call, commands on an instance that is being stopped, mutexes of modules inside the supervisor's | `ControlPlane` |
| Peer check, `internal/ipc/listen_unix.go` | none | interceptors | clients | identity by user and group data base | `ControlPlane` |
| Host services and configuration store, `internal/daemon/host.go`, `configstore.go` | the configuration each host was built with | `hostFactory`, `Module`, `ModuleRaw`, `NewHost` | files, modules | file read twice | `HostServices` |
| Secret store, `internal/secrets` | keyring items, master key file, cached password | `Open`, `Get`, `Set`, `Delete`, `EnsureMasterKey` | keyring library, modules, plugins | key and items written in place, deaths within the writes, a key that is looked for and made without a lock | `HostServices` |
| Updater, `internal/update` | none (not wired) | `Check`, `Apply`, `CompareVersions` | GitHub | version order, asset choice | no |
| External plugins, `internal/extplugin`, `pkg/sdk` | plugin directory, plugin processes, calls under way (not wired) | `Load`, `Discover`, `Verify`, the adapter and the server of a module | go-plugin, supervisor, installer | files replaced during verification, processes that die, calls given up, integers narrowed on the wire | `ExternalPlugin`, `HostServices` |
| CLI and tray, `cmd/penguin`, `cmd/penguin-tray`, `internal/cli`, `internal/tray` | none / a snapshot | one call per command; snapshot of three calls | daemon | time-outs against late success, a snapshot of several moments | `ControlPlane` |
| Telemetry, registry, service commands, Windows and macOS variants, generated messages | - | - | - | configuration, platform calls, generated | no |

Interaction: clients call the server, the server calls the supervisor, the
supervisor calls module code (`Init`, `Start`, `Stop`) while it holds its one
mutex, and publishes state changes to the broker inside the same critical
sections. Modules run goroutines of their own and reach the daemon only through
`HostServices`. The process owns all of them and decides the order of boot and
shutdown.

What makes each component correct, in short: the supervisor never has two
instances of a module at work, never loses a degraded module or one the operator
enabled, and stops all of them at shutdown; the broker never sends on a closed
channel, keeps a module's events in order and never blocks a publisher; one daemon
runs per state directory, is reachable, and leaves the system as it found it; the
operator's DNS configuration survives whatever happens to the daemon; `Stop` of
the VPN module returns and leaves neither a tunnel nor, of its own doing, a token that
looks good and is revoked; the license client never grants what the server did not; a module finds
the secrets it stored last, and nobody else's; a plugin process runs what was verified, and what the daemon believes of it is so; and
what a client is told was true at some moment of its call,
and no set of calls can lock the daemon up.

## 2. Modules

| Module | Contents |
|---|---|
| `Supervisor` | the supervisor and the state file; one action per critical section |
| `ModuleLifecycle` | abstract specification: the life of a module as `List()` shows it |
| `Supervisor_proofs` | TLAPS proofs, refinement of `ModuleLifecycle` included |
| `EventBroker`, `EventBroker_proofs` | broker and `WatchEvents` streams; one action per lock acquisition, channel operation or stream step |
| `DaemonProcess`, `DaemonProcess_proofs` | processes of `penguind` over lock, socket, calls and system changes; the proofs about the license client, which the process owns, are in the same proof module |
| `SquawkResolver`, `SquawkResolver_proofs` | one action per file operation |
| `Tobogganing`, `Tobogganing_proofs` | goroutines, mutexes, requests, and the tokens in the secret store |
| `LicenseClient` | the license cache over restarts; its specification is `LicenseSpec` |
| `ControlPlane` | RPC handlers, peer check, command line and tray; one action per critical section |
| `AtomicCalls` | abstract specification: every call takes effect in one step between call and answer |
| `ControlPlane_proofs` | TLAPS proofs, refinement of `AtomicCalls` included |
| `HostServices`, `HostServices_proofs` | secret store, configuration store and hosts, for built-in modules and plugins; one action per read of a file and per step of a call |
| `ExternalPlugin`, `ExternalPlugin_proofs` | a plugin directory, its verification, the processes and the calls to them; one action per look at a file and per step of a call |
| `MC*` | instances for TLC (`.cfg` files of the same prefix) |

How state corresponds to code:

* `Supervisor`: `loaded` is `Supervisor.loaded`; an entry has the `moduleState`
  fields `state` and `restartAttempt` (`attempt`) and the instance reduced to
  `live` or `stopped`. `timer` holds the `scheduleRestart` goroutines: asleep, or
  between the critical section of a failed restart and the `ReportFailure` that
  follows it. `enabled` is `persisted`, `disk` the state file. `phase` is the
  process: `StartEnabled` runs in `booting`, `lifeStop` leads to `draining`,
  `Shutdown` to `stopped`. An instance counts as `running` until `Stop` is called on it:
  an error of `Stop` is only logged (`supervisor.go:262`, `:409`), so that what the
  ghost cannot say is whether the module's code has really ended. `running`, `unsynced`, `published`, `mishaps` and
  `intent` are ghosts: instances at work, whether memory and file may differ, the
  last event per module, which kinds of failure have happened so far, and the last
  command that was answered with success. Errors of the
  environment (license refused, `Init`, `Start` or `Save` failing, unreadable
  file, crash) are choices that the constant `Faults` allows.
* `EventBroker`: `chan` and `open` are the subscriber map; `visiting[p]` is the
  part of the map a publisher in `Publish` has still to visit, and is also the
  read lock. A select with two ready cases is a choice. `SharedBroker` says
  whether modules and streams use one broker; `initDaemon` gives `FALSE`.
* `DaemonProcess`: `pc` follows `initDaemon` line by line; a failing step releases
  what was taken. `flock` and `file` are the lock and the socket path. A handler may
  never return (`hung`), and neither may a module's `Stop` (position `hanging`); a
  module that is told to stop may fail to restore the system, which `Shutdown` and
  `Stop` only log (`failed`, a ghost). `lost` is a ghost: the processes whose lock file
  the garbage collector closed.
* `SquawkResolver`: a file is who wrote it and the servers it lists. `pc` is the
  next file operation of the operation `op`. `died` is a history variable: the
  steps at which the daemon died so far.
* `Tobogganing`: `pc[a]` is the next step of each goroutine or command, `amu` and
  `vmu` the holders of `AuthManager.mu` and `VPNManager.mu`. `token` and `cached` are
  the token in memory and in the secret store; `valid` is what the manager accepts,
  `expired` what the module can see has run out. Numbers of tokens that are nowhere
  in use are given again, so that there is no bound on how many are issued. `lost` is
  a ghost: the goroutines and commands one of whose requests failed, or whose `Delete`
  of the stored token did; `"earlier"` is in it when the module starts with a stored
  token that is revoked and has not run out. `Set` of a token may fail as well, and all
  these errors are dropped as `auth.go` drops them.
* `LicenseClient`: `cached` and `cacheFile` are the two caches, `loop` the refresh loop; `given` is a ghost: what
  the server ever held for each key.

* `ControlPlane`: `entry` is `Supervisor.loaded` reduced to the instance, `writer` and
  `readers` are `Supervisor.mu`, `modMu` is the mutex of each instance. `call[c]` is
  a call with the handler's position `pc` and what it has read so far; a rendering
  of the tray is one call that walks through `ListModules`, `GetStatus` and
  `ListCommands`. What happens inside `Load` and `Unload` is the subject of
  `Supervisor` and is one step here; restarts are left out because nothing in the
  daemon reports a failure. Commands are squawk's: `query` without a mutex,
  `forward start` and `forward stop` under the instance's. `past` is a history
  variable: the names that were loaded, and that were not, since the call began.
  Instance identities are recycled when nothing refers to them.
  Seen as `AtomicCalls`, `entry` is the set of loaded names and `call` the jobs
  (`JobOf`): a job is decided when the handler has found or loaded its module
  (`Decided`), an unload and a call that finds nothing when it is answered; a rendering
  is no job.

* `HostServices`: `masterKey` and `items` are the files, `password` is what the open
  keyring has cached; a key is a number, an item remembers the key it was sealed with.
  The keyring library is external. `host` follows `hostFactory` through its two reads
  of `file`, each of which may fail. `call[m]` is handed over, carried out and answered,
  for a plugin over the connection; a call that found no key file is `making` one, and
  `twice` is a ghost: two calls were at that together. `known` is a ghost: what a
  module may find under its key given what it was told. A request that is being carried
  out when its plugin dies is taken to end before the plugin is loaded again.
* `ExternalPlugin`: `dir` gives the release each file comes from, `loader` is
  `LoadWithVerifier` or `Discover` between two looks at the files. `view` is how far
  the supervisor is with the instance, `wrapper` the process behind it. `life` is the
  one call of `Info`, `Start` or `Stop`, made under the supervisor's lock, `ask` a call
  of a client beside it, `late` a `Stop` whose caller gave up. The license check is
  part of `InfoReturns` because `Info` decides what is asked of it. Every call may fail
  on its way while the process lives. `blind` is a ghost: the processes whose `Info`
  failed so, and that were let through the license check for it.

`PROJECT.json` maps each definition to the lines it models.

## 3. Runs

Passing runs:

| Run | Configuration | Shows |
|---|---|---|
| `supervisor` | one module and a name that the registry lost, three restart goroutines, `MaxRestarts` 3, every fault | `Accounted` (`AtMostOneInstance` and `NothingOutlivesShutdown`), `Supervised` (`RunningIsBacked` and `DegradedHasRestart`), `EventsAgreeWithList`, `CommandsAreKept`; `ImplementsLifecycle`; liveness: `DegradedIsResolved`, `PhasesComplete` |
| `broker` | two publishers, two clients (one with a filter), channels of one place | `NoSendOnClosed`, `OrderedPerModule`, `NothingVanishes`; liveness: `NobodyIsStuck`, `EventsReachWatchers` |
| `process` | a terminal session and a service on one state directory, a loading and a watching client | `SingleDaemon`, `SocketReachable`, `ExitRestores`; liveness: `StopCompletes` |
| `resolver` | three deaths, two failed or cut-short writes, two edits by the operator | `ServersRestored`, `OriginalKept`, `Recoverable` |
| `tobogganing` | initial connect, refresh, monitor, one command, one mishap (a failed request, `Set` or `Delete` among them), no token of an earlier run or one that is good, has run out or is revoked | `StoredTokenWorks`; liveness: `StopReturns`, `TunnelComesUp`, `HealthFollows` |
| `license` | two keys, two licence changes, three boots, one fault | `NothingInvented`, `RestartKeeps`; liveness: `LicenceFollows` |
| `control_plane` | two modules; an operator who loads and unloads, a user with status, load and commands, a second user who starts the forwarder, the tray | `AnswersAreTrue`, `QuietSnapshotIsExact`, `CommandReachesItsModule`, `SomeCallProceeds`; `CallsLookAtomic`: the handlers implement `AtomicCalls` |
| `host` | a built-in module with a schema and a plugin, a secret of the same name in each, two values, two keys, two mishaps (an edit, a failed operation, a death) | `KeyFitsItems`, `SecretsKept` |
| `plugin` | a trusted and an untrusted release, two changes to the directory, two processes | `LoadedIsRelease`, `GateHolds`, `RunningIsStarted`, `OneStarted`, `ToldIsSaid` |

Runs that find a disagreement between the code and what the repository says of it:

| Run | Property | Counterexample |
|---|---|---|
| `broker_wiring` | `EventsReachWatchers` | `initDaemon` creates a broker for the modules, `NewServer` another for the streams: no module event reaches a client |
| `process_lock` | `SingleInstance` | the only reference to the lock file is dropped at the end of `initDaemon`; a collection closes it and a second daemon starts |
| `tobogganing_late` | `TunnelDownAfterStop` | `Stop` between the check of `running` and `Connect`: the tunnel is up afterwards |

### Bounds

* Three goroutines with `MaxRestarts` 3 let one module have a goroutine asleep, one
  between its two critical sections and one just created, and let it be parked.
  `AttemptBound` stops reports by modules after the count that parks it.
  The second name, one that an upgrade removed from the registry, fails to load at
  every boot and shares the enabled-set with the first; that is all that the
  critical sections of different modules share.
* Channels of one place fill with the first event that is not read, and two
  publishers are enough for every overlap of reads; the first publisher has two
  events so that order can go wrong.
* Two processes are the fewest that can compete for the lock; a process may be
  started again after any end, so there is no bound on restarts.
* Three deaths allow one within an operation, one within the recovery and one in
  the recovery after that. Two faults allow a failed write and a failed repair.
* One mishap (`MaxTurns`) is a failed request, a failed `Set` or `Delete` of the secret
  store, an expired token or a round of the refresh loop that asks for a token; with `Stop`, the initial connect and one command
  beside it, that is a request to revoke with two others that may store a token
  around it (282,206 states).
* Three boots with two keys: a key, another key, and back.
* Three calls at a time (`MaxCalls`, a rendering counts twice) are the fewest that
  can close a circle: a command that holds the module's mutex, a status reader that
  waits for it inside the supervisor's lock, and an unload behind both. A caller may
  call again without end. The deadlines of one user and of the tray (`Hasty`) may
  pass at any step. Two levels of health are enough for a worst one to exist
  (694,938 states).
* Two mishaps let the daemon die while it makes the key and again at the first use of
  it, or a plugin die with a request before the daemon does. Two keys are
  enough for a second one to be wrong, and two modules for two first uses to overlap
  (692,485 states; the secrets are symmetric).
* Two changes to a plugin directory are the fewest that leave it consistent but
  different; an upgrade that is half way is one. Two processes are the old and the new
  one. `Limit` 4 with the value 8 is the smallest width at which a value wraps around
  to 0. Files change, and directories are listed, only while no client's call is under
  way: the two have nothing in common (1,452,505 states).

Runs with `CHECK_DEADLOCK FALSE` have a bounded environment that ends (no boots,
events, deaths or commands left). `supervisor`, `process`, `control_plane` and
`plugin` are checked for deadlock: a daemon can always go on, be started or be called.

### Fairness

Weak fairness is given to what the Go scheduler, a timer or a bounded request will
do by itself: the restart goroutines, `Shutdown` once begun, the boot sequence, the
loops, publishers. An operator, a client or the service manager never has to do
anything.

Strong fairness appears in `EventBroker` alone, where code competes for a mutex or is
one of several ready cases of a `select`: a `select` picks among ready cases at random,
so that a cancelled stream notices (`ContextDone`), and a writer that waits for an
`RWMutex` blocks new readers, which is why `Unsubscribe` gets through although
publishers overlap.

What the code does not guarantee has a name of its own: `ClientReads(c)` (a client
that goes on reading its stream) and the strong fairness of `ServerAnswers` in
`LicenceFollows` (the license server answers again and again) are antecedents of the
properties that need them; `FetchesEnd` (the VPN manager answers or refuses every
configuration request, which has no time-out) is a conjunct of the `FairSpec` of
`Tobogganing`, apart from `Fairness`, because all its liveness needs it.

In `DaemonProcess` a handler and a module's `Stop` are fair only in that they return or
hang, so that `StopCompletes` says what is left: with no watcher's stream open, a stop
request ends the process unless something the code waits for without a deadline hangs.
What the property rules out is that the daemon itself keeps its drain from ending, by
letting new calls in or by waiting for itself.

## 4. Proofs

Checked by TLAPS for every value of the constants that satisfies the `ASSUME`s.

`Supervisor_proofs` (assumption: `SupervisorAssumption`)

| Theorem | Statement |
|---|---|
| `TypeCorrect` | `Spec => []TypeOK` |
| `OneInstance` | `Spec => []AtMostOneInstance` |
| `ShutdownIsFinal` | `Spec => []NothingOutlivesShutdown` |
| `RunningBacked` | `Spec => []RunningIsBacked` |
| `DegradedNotForgotten` | `Spec => []DegradedHasRestart` |
| `EventsAgree` | `Spec => []EventsAgreeWithList` |
| `Remembered` | `Spec => []LoadedIsRemembered` |
| `LoadIsDurable` | `Spec => []LoadSurvivesRestart` |
| `UnloadIsDurable` | `Spec => []UnloadForgets` |
| `Durable` | `Spec => []CommandsAreKept`, the conjunction of these three |
| `Refinement` | `Spec => ImplementsLifecycle` |

The properties are not inductive by themselves. `IInv` adds that the ghost count
`running` is what the entries hold (`RunningCounts`), that nothing is loaded and no
goroutine is left outside the phases that allow it (`QuietPhases`), and that a
degraded module has restarts left and a parked one has none (`RestartBudget`).
`DegradedHasRestart` needs `RunningIsBacked` beside it: a restart that fails leaves
its own goroutine as the witness of both. The two durability theorems rest on
further invariants stated in the proof module (memory and file agree; a forgotten
module has no entry and no name in either set), which, like the two properties,
are conditional on the history `mishaps`: once a file operation or a load has failed
the code does lose commands (section 5).

`DaemonProcess_proofs` (assumption: `ProcessAssumption`)

| Theorem | Statement |
|---|---|
| `TypeCorrect` | `Spec => []TypeOK` |
| `OneDaemon` | `Spec => []SingleDaemon`, from `LockHeld` |
| `SocketStays` | `PathsGuarded` gives `Spec => []SocketReachable`, from `SocketOwned` |
| `ExitIsClean` | `Spec => []ExitRestores`, from `Restored`: of a daemon whose modules did not fail to restore |

`PathsGuarded` says that two daemons that may touch one socket path share a state
directory. It is needed: the lock guards the state directory and not the path.

About `LicenseClient`, in the same module (assumptions: `KeyAssumption`,
`TierAssumption`, `LicenseBoundAssumption`):

| Theorem | Statement |
|---|---|
| `LicenceTypeCorrect` | `LicenseSpec => []LicenseTypeOK` |
| `CacheIsTrue` | `LicenseSpec => []NothingInvented` |
| `CacheOutlivesRestart` | `LicenseSpec => []RestartKeeps` |

A licence travels from the answer to the memory, from the memory to the file, and at
the next boot back; the inductive invariant `LicenceInv` says of each of the three
places that the server gave what it holds, and that the request in flight belongs to a
key.

`EventBroker_proofs` (assumptions: `EventBrokerAssumption`, `FilterAssumption`)

| Theorem | Statement |
|---|---|
| `TypeCorrect` | `Spec => []TypeOK`; a channel never holds more than its capacity |
| `ClosedIsNotSentTo` | `Spec => []NoSendOnClosed` |
| `InOrder` | `Spec => []OrderedPerModule` |
| `NothingIsLostSilently` | `Spec => []NothingVanishes` |

`NoSendOnClosed` is inductive beside the types: the lock that `Unsubscribe` needs is
free only when nobody visits the subscribers. The types need to know that a publisher
that visits has numbered its event and a stream that handles one has it.

The other two are about a client's pipeline: what it received, what its stream has in
hand and what waits in its channel, one after the other. Receiving and sending move an
event within it (`PipeReceive`, `PipeSend`), and only a publisher's turn adds one, at
the end (`PipePublish`). Order needs `CountInv`: a publisher that has still to visit a
client has sent it older events only, so that what is appended is the newest of its
module. Completeness needs that a stream without an event in hand has none to lose
(`HandInv`), that a subscription belongs to a running stream (`OpenInv`), and that what
is promised passes the client's filter (`PromisedInv`). The sequence lemmas say when an
element is in an appended, concatenated or shortened sequence, and that order survives;
none needs induction. The assumption `"idle" \notin Clients` only keeps the mark of a
publisher outside `Publish` apart from a set of clients.

`SquawkResolver_proofs` (assumption: `BoundAssumption`)

| Theorem | Statement |
|---|---|
| `TypeCorrect` | `Spec => []TypeOK` |
| `CopyIsKept` | `Spec => CopyOutlivesRestore`, an action property |
| `OperatorsFileIsKept` | `Spec => []OriginalKept`, from `FileInv` |
| `ServersAreRestored` | `Spec => []ServersRestored`, from `ServersInv` |
| `OneFaultIsRecoverable` | `Spec => []Recoverable`, from `OneFaultInv` |

Both inductive invariants list the situations the files can be in (in place, copied,
replaced by a generated file with copy and marker, put back with copy or marker left)
with the steps at which each may occur. `ServersInv` also holds over deaths within a
restore or a recovery, where only the servers and not the file survive. `OneFaultInv`
is about a daemon that does not die and the one file operation that failed: where the
servers can be found from then on (still in force, in the copy or the instance's memory
while `Apply` goes on, in the marker, or in a restore that nothing can stop any more),
with the one way out that `Recoverable` excepts, a `resolv.conf` that was cut short and
is taken for the operator's. `MemoryInv` ties what the running instance remembers to
the files.

`Tobogganing_proofs` (assumption: `TobogganingAssumption`)

| Theorem | Statement |
|---|---|
| `TypeCorrect` | `Spec => []TypeOK`; there is always a number for a new token |
| `StoredTokensWork` | `Spec => []StoredTokenWorks`, from `StoreInv` |
| `NoMutexCircle` | `Spec => []MutexesFormNoCircle`, from `LockInv` |
| `OnlyLateConnects` | `Spec => [](DownForGood => []~connected)` |

`StoreInv` says what the stored token is while `Stop` runs: good or run out, unless
`Stop` has had it revoked and is about to delete it. A token that is stored in
between is a new one, so that deleting nothing more than what is there is enough. The
theorem does not depend on a secret store that works: a failed `Set` leaves nothing or
the former token. It excuses the failures of `Stop` itself, a revocation whose answer is
lost and a failed `Delete`, after which a revoked token does stay (section 5), and
starts that found such a token.

`LockInv` says who holds the two mutexes: whoever asks for a token, and whoever is
between taking the tunnel's mutex and the end of its fetch; `Stop` is at none of these
steps. `MutexesFormNoCircle` follows: the holder of the token's mutex waits for a
request only, the holder of the tunnel's for the token's at most, so that while anybody
is blocked a holder goes on. That is the part of `StopReturns` about the locks; that the
request ends is fairness. `OnlyLateConnects` is what is left of `TunnelDownAfterStop`,
which `tobogganing_late` refutes: with `Stop` begun, the tunnel down and no connect past
the check of `running` (`DownForGood`), the tunnel stays down, since the check lets
nobody in any more. The counterexample of that run is the only kind there is.

`HostServices_proofs` (assumptions: `HostAssumption`, `HostBoundAssumption`)

| Theorem | Statement |
|---|---|
| `TypeCorrect` | `Spec => []TypeOK` |
| `KeysFit` | `Spec => []KeyFitsItems`, with `KeyInv` and `MakerInv`: unless two first uses overlapped, a cached password is the key in the file, and whoever makes the key is alone and finds none |
| `SecretsAreKept` | `Spec => []SecretsKept`, from `SecretInv` |

`SecretInv` says of each module that what lies under its key is among what it may
find, what the request under way may leave included, that after a success it is exactly
what was stored, and that an answer on its way was read from there. `CarryEffect` is the lemma about one request: it touches no other
module's item and answers what it did.

`ExternalPlugin_proofs` (assumption: `PluginAssumption`)

| Theorem | Statement |
|---|---|
| `TypeCorrect` | `Spec => []TypeOK` |
| `ReleasesAreWhole` | `Spec => []LoadedIsRelease`, from `LoaderInv` |
| `GateIsKept` | `Spec => []GateHolds`, from `GateInv` |
| `RunningMeansStarted` | `Spec => []RunningIsStarted`, from `StartInv` |
| `OneAtWork` | `Spec => []OneStarted`, from `OneInv` |
| `AnswersAreTheModules` | `Spec => []ToldIsSaid`, from `AskInv` |

`InstanceInv` carries them all: which call may be under way in which state of the
supervisor, and to which process. `OneInv` says that only the supervisor's instance is
at work, from the success of its `Start` to the success of its `Stop`; `GateInv` that a
live process which `Start` may reach has passed the license check or is in `blind`: the
theorem says that a lost `Info` is the only way round the check.

`ControlPlane_proofs` (assumption: `ConstantsAssumption`)

| Theorem | Statement |
|---|---|
| `TypeCorrect` | `Spec => []TypeOK` |
| `AnswersTrue` | `Spec => []AnswersAreTrue` |
| `SnapshotExact` | `Spec => []QuietSnapshotIsExact` |
| `CommandsReach` | `Spec => []CommandReachesItsModule` |
| `LocksFormNoCircle` | `Spec => []NoCircle` |
| `LookAtomic` | `Spec => CallsLookAtomic`, the refinement of `AtomicCalls` |

All rest on one inductive invariant, `Inv`. Of each call it says `Good(k, p, e)`, a
predicate of the call's record, its history and the table of loaded modules: where a
handler can be for what was asked (`Shape`), that the history knows what is loaded now
(`Current`), what the handler has seen on its way (`Told`), that an answer is true
(`TrueAnswer`), that a command for a quiet module holds the loaded instance
(`Reaches`), and what a rendering has of each quiet module (`Faithful`: in the list,
one row once its place is passed and none before, state and health of the loaded
instance). Because a change turns a loaded module into one that is not, or the other
way round, and every call notes it, a module that changes under a call is not quiet any
more: lemma `Bystander` deals with all the other calls at every step at once. Beside
the calls, `EntryInv` says that what is loaded runs under its own name, and `MutexInv`
and `LockInv` that the holder of a lock is at a step that gives it back.

Types need a counting argument: a load picks an instance that nothing refers to, and
lemma `Fresh` shows that there is one, since a module that is not loaded is referred to
at most twice by each caller. `SnapshotExact` needs `List` to name every module once,
which `ConstantsAssumption` states and a Go map gives. `NoCircle` is
`SomeCallProceeds` with the guards of the steps written out (`Unblocked`) instead of
`ENABLED`: a command that runs waits for nothing, the holders of the supervisor's mutex
wait for such a command at most, and everybody else for those.

`LookAtomic` goes through the actions one by one. The steps that take a mutex, and all
of a rendering, leave jobs and table as they are (`MovesOn`, `Unseen`). A load is decided
in its critical section and looks again in `Status`, which is where it may end with an
internal error; a status is decided in `Status` if the module is missing and in `Module`
if it is there, a command in `Module`; an unload is decided and answered in one step. Of
`Inv` the argument needs where a handler can be for what was asked (`Shape`), that an
answer to a caller that gave up stays `deadline` (`Code`), and `Fresh`: without a new
instance a load would leave the table unchanged. It says more than `AnswersAreTrue`: what
is told was not only true at some moment, but is what the call did to the table at that
moment, once and never twice, given up or not. `AtomicCalls` speaks of which modules are
loaded and not of their instances: the two halves of a status row may be of two
instances (section 5), which no single moment explains.

Only model-checked, because the prover does not reach it: all liveness (fairness; for
`DegradedIsResolved` and `StopReturns` the theorems `DegradedNotForgotten` and
`NoMutexCircle` are the safety half) and `SomeCallProceeds` (`ENABLED`;
`LocksFormNoCircle` is the part of it about the locks).
Every other safety property of the passing runs is a theorem.

## 5. Observations

Behaviour met while modelling that disagrees with a comment or document, or that a
reader would not expect, and that has no run of its own.

Supervisor
* `scheduleRestart` restarts whatever entry it finds (`supervisor.go:399`): a goroutine
  still asleep revives a module that a later report has parked, although
  `supervisor.go:356` says that it "parks in failed state", and stops and replaces
  an instance that is healthy again (`supervisor.go:408`).
* `restartAttempt` "counts consecutive restart attempts" (`supervisor.go:100`) but is
  never reset after a success.
* `ReportFailure` has no caller outside the supervisor and the tests.
* `Unload` of a module that is enabled and not loaded, because its load failed at
  boot, answers success and forgets nothing (`supervisor.go:237`). `UnloadForgets`
  therefore speaks of histories without a failed load.
* A state file that cannot be read at boot is logged, and overwritten by the next
  `Save` with a set that lacks its modules (`service.go:260`).

Process
* `Stop` removes the configured socket path also when `-socket` named another
  (`service.go:88`).
* A failed accept loop ends a terminal session without `Stop` (`main.go:112`), and
  under a service manager leaves a process that answers nobody (state `zombie`).
* `GracefulStop` has no deadline and waits for the tray's event stream, and for a
  handler that hangs (`service.go:69`); a module's `Stop` may hang as well, in a request
  without time-out (`vpn.go:241`).
* A module that fails to restore the system when it is told to stop (squawk,
  `module.go:245`) has its error logged (`supervisor.go:262`, `service.go:80`), and the
  daemon exits all the same: `ExitRestores` excepts it (`failed`).

squawk
* `Restore` removes the copy before the marker (`sysresolver_linux.go:127`): a death in
  between makes the next recovery write a generated file with the right servers and
  without the operator's other lines.
* A marker with no servers is not recovered from (`sysresolver.go:169`).
* `Apply` replaces `resolv.conf` before it writes the marker (`sysresolver.go:86`): a
  death in between leaves the managed servers with nothing to recover from, and the
  next `Apply` copies the managed file over the operator's. `docs/APP_STANDARDS.md:56-57`
  promises that "a crash-recovery marker restores on next start". `ServersRestored`
  excepts deaths within `Apply` for this reason.
* Every `Init` calls `MustRegister` on a registry that outlives the instance
  (`module.go:828`): load, unload, load panics (`Register`, state `panicked`).

tobogganing
* A failed initial connect is never retried: the monitor only updates the health
  probe (`module.go:604`), although "the monitor loop retries on failure"
  (`module.go:226-227`) and failures are "left to the monitor loop to retry"
  (`module.go:234`). `TunnelComesUp` excepts the connect whose own request failed for
  this reason. Before its first round health is the zero value, which means healthy.
* When the answer to a revocation is lost, or the `Delete` after it fails
  (`auth.go:141` drops the error), the token stays in the secret store; if the
  manager did revoke it, the next start takes it for good until it runs out, and its
  tunnel stays down (`lost` in `StoredTokenWorks` and `TunnelComesUp`).
* Errors of `Set` are dropped as well (`auth.go:198`, `:250`): the next start then uses
  the former token, or none.
* A token issued while the revoke request is under way is forgotten and not revoked
  (`auth.go:135`).
* The configuration request has no time-out and runs under the mutex that `Stop`
  needs (`vpn.go:241`); its context is cancelled only after `Stop`.

License client
* `docs/APP_STANDARDS.md:49` promises an "offline cache with grace TTL"; `cachedAt` is
  written and never read, so a cached entitlement never ends while the server does
  not answer. The field `valid` of an answer is not looked at.
* The cache file does not name its key: after a change of key the licence of the
  former one is in force until the first answer.

Server and clients
* `penguin <module> <command>` exits with 0 whenever `Recv` ends in an error
  (`builder.go:165`): the module was unloaded after the command line had built the
  command, `Dispatch` failed, or 30 seconds passed. `pkg/sdk/command.go:48` says that
  the result's code is what the command line exits with, "0 = success".
* `squawk forward start` does not look whether the module still runs
  (`module.go:627`): a command that took its instance before an unload starts the
  forwarder of an instance that nothing can stop any more.
* A client that gives up after five seconds reports a failure; the load goes on, and
  is saved.
* A row of `GetStatus` may have the state of one instance and the health of the next,
  and a module that is unloaded during a rendering is shown as loaded with unknown
  health.
* `LoadModule` reports every failure other than an unknown name as a license denial
  (`server.go:169`), failed starts included, and answers with an internal
  error when the module is unloaded between `Load` and `Status`. A failed save is no
  failure to the client at all: it is only logged (`supervisor.go:223-225`).
* A plugin's `Status` may fail, and `Supervisor.Status` passes that on
  (`supervisor.go:320-322`); `ControlPlane` leaves the path out, because the modules of
  the daemon never return an error and nothing loads plugins.
* The exit code of a command is cut to 8 bits by `os.Exit` (`builder.go:178`) after it
  was narrowed to 32 on the wire: 256 is a success to the shell.

Host services and plugins
* `ModuleRaw` validates one read of the file and returns another
  (`configstore.go:129`), so that a file replaced in between reaches the module
  unchecked, although `configstore.go:116` says that "a module never parses an
  unvalidated file itself". A failed second read gives the module its defaults.
* A module with an empty schema is handed any YAML file (`configstore.go:105`), where
  `pkg/sdk/module.go:53-54` says that it "takes no configuration".
* `EnsureMasterKey` is a check and a write without a mutex (`store.go:172-189`), and the
  keyring holds none: two first uses that overlap make two keys, and the item that was
  sealed with the one that lost can never be opened again (`twice`). Today one module
  writes secrets.
* A master key file of the wrong size, which a death or a failed write leaves
  (`store.go:189`), makes every later `Set` and every `Get` of an item fail; nothing
  repairs it.
* `SecretsGet` of the plugin's host service compares with `==` (`extplugin/host.go:56`)
  an error that the store always wraps: a plugin cannot tell "not found" from a
  failure, although `pkg/sdk/module.go:113-114` demands an error that matches
  `ErrSecretNotFound`. `SecretsKept` allows a plugin that error for a missing secret.
* `Info` of the adapter turns every failed call into an empty answer (`client.go:145`),
  which asks for no license feature: a call that fails while the process lives starts
  the module without a license check (`blind` in `GateHolds`).
* `docs/APP_STANDARDS.md:27-31` promises "SecureConfig + AutoMTLS" for the handshake;
  `client.go:51-63` sets only the second, so nothing compares the binary's digest
  at the start itself.
* `Init` of the adapter does nothing (`client.go:157`), and the comment's `GRPCClient`
  never runs in the plugin process: `Init` of a module in a plugin is not called,
  although `module.go:27-28` of the SDK promises it, and its host services are never
  connected. The calls of a plugin in `HostServices` are therefore more than today's
  code makes.
* `moduleWrapper` never kills its process: each load leaves one behind, also one whose
  `Start` or license check failed, and one whose `Client()` failed.
* The owner of plugin files is never compared, because `Sys()` has no method `Uid`
  (`verify.go:124`); the mode is.
* An error whose text is empty arrives as a success; the context a module's `Start` is
  given ends when the call returns.
* Nothing calls `Load` or `Discover`.
* `Check` of the updater never compares versions and takes the platform to be
  linux/amd64.

## 6. Not modelled, and what is left

* The updater: not wired to the daemon, without state of its own; `Check` and `Apply`
  are one request and one call of a library each.
* Telemetry, service installation, the Windows and macOS variants: calls of libraries
  behind interfaces that are modelled for Linux.
* Generated messages and descriptors. The stubs and handlers of the plugin's services
  are the steps that send and deliver a call in `ExternalPlugin` and `HostServices`.
* squawk's DNS queries and its forwarder beyond start and stop: requests without
  effect on the daemon's state.

A refinement of `ModuleLifecycle` by `ExternalPlugin` would say little: the supervisor
already implements it whatever a module's code does, and a plugin is module code. What
would add most next is liveness by hand: the measures that decrease behind `StopReturns`
and `PublishReturns`, for a prover that knows fairness.
