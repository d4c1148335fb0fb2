---------------------------- MODULE Supervisor ----------------------------
(***************************************************************************)
(* The module supervisor of penguind (internal/daemon/supervisor.go) and   *)
(* the enabled-set it keeps on disk (internal/daemon/state.go).            *)
(*                                                                         *)
(* Everything the supervisor does to a module happens under Supervisor.mu, *)
(* so every critical section is one step here.  What interleaves is:       *)
(*                                                                         *)
(*   - operator RPCs (Load, Unload) and failure reports (ReportFailure);   *)
(*   - the restart goroutines (scheduleRestart), each of which sleeps      *)
(*     outside the lock, then takes it, and - when the restart fails -     *)
(*     drops it again before it calls ReportFailure;                       *)
(*   - shutdown, which cancels lifeCtx before it takes the lock;           *)
(*   - the death of the process at any point, and its next boot.           *)
(*                                                                         *)
(* A crash in the middle of a critical section is a crash before it or     *)
(* after it: the only durable effect of one is the rename that ends Save.  *)
(*                                                                         *)
(* Abstracted: module instances are only "live" (started, not stopped) or  *)
(* "stopped"; the backoff delay is "some time"; an error is a choice among *)
(* the failures that the constant Faults allows.                           *)
(***************************************************************************)
EXTENDS Naturals, FiniteSets

CONSTANTS
    Names,         \* module names that may be asked for or found on disk
    Registered,    \* the names that the registry has a factory for
    Licensed,      \* the registered modules whose LicenseFeature is not ""
    Timers,        \* identities for the restart goroutines (bounds how many)
    MaxRestarts,   \* Config.MaxRestarts
    AttemptBound,  \* model bound: no external failure report beyond this count
    Faults         \* which failures the environment may inject

FaultKinds == {"denied", "initFail", "startFail", "saveFail", "unreadable",
               "crash"}

ASSUME SupervisorAssumption ==
    /\ Registered \subseteq Names
    /\ Licensed \subseteq Registered
    /\ MaxRestarts \in Nat \ {0}
    /\ AttemptBound \in Nat
    /\ Faults \subseteq FaultKinds

VARIABLES
    phase,      \* life of the process: see Phases
    boot,       \* names StartEnabled still has to load
    loaded,     \* Supervisor.loaded: name -> moduleState, or NotLoaded
    running,    \* ghost: instances of each module started and not told to stop
    timer,      \* the restart goroutines
    enabled,    \* Supervisor.persisted: the enabled-set in memory
    disk,       \* the enabled-set in the state file
    unsynced,   \* ghost: memory and state file may differ
    published,  \* ghost: the last state-changed event sent for each module
    mishaps,    \* ghost: has a load, has a file operation failed so far?
    intent      \* ghost: the last Load or Unload that told the operator "ok"

vars == <<phase, boot, loaded, running, timer, enabled, disk, unsynced,
          published, mishaps, intent>>

-----------------------------------------------------------------------------
(* State space.                                                            *)

\* "booting" is StartEnabled inside initDaemon; "serving" answers RPCs;
\* "draining" is Shutdown between lifeStop and the lock; "stopped" follows it.
Phases == {"down", "booting", "serving", "draining", "stopped"}

\* The values moduleState.state takes while the entry is in the map.
EntryStates == {"running", "degraded", "failed"}

\* The states an event can announce; "none" before the first event.
EventStates == EntryStates \cup {"none", "initializing", "stopped"}

NotLoaded == [inst |-> "none", state |-> "disabled", attempt |-> 0]

Entries == [inst : {"live", "stopped"}, state : EntryStates, attempt : Nat]

IdleTimer == [pc |-> "idle", mod |-> "none"]

\* "waiting" sleeps in select; "reporting" has failed to restart the module and
\* is between unlocking and ReportFailure.  A goroutine knows its module only
\* by name: it is not tied to the entry that was there when it was spawned.
BusyTimers == [pc : {"waiting", "reporting"}, mod : Names]

IsLoaded(m) == loaded[m] # NotLoaded

\* List(): the state an operator is shown for a registered module.
ListState(m) == loaded[m].state

BusyFor(t, m) == timer[t].pc # "idle" /\ timer[t].mod = m

ReportingFor(t, m) == timer[t].pc = "reporting" /\ timer[t].mod = m

TypeOK ==
    /\ phase \in Phases
    /\ boot \in SUBSET Names
    /\ loaded \in [Names -> Entries \cup {NotLoaded}]
    /\ running \in [Names -> Nat]
    /\ timer \in [Timers -> BusyTimers \cup {IdleTimer}]
    /\ enabled \in SUBSET Names
    /\ disk \in SUBSET Names
    /\ unsynced \in BOOLEAN
    /\ published \in [Names -> EventStates]
    /\ mishaps \in SUBSET {"load", "file"}
    /\ intent \in [Names -> {"none", "on", "off"}]

-----------------------------------------------------------------------------
(* The state file.                                                         *)

\* PersistedState.Save: all or nothing, and a failure is only logged.
Save(set) ==
    \/ disk' = set /\ unsynced' = FALSE /\ UNCHANGED mishaps
    \/ /\ "saveFail" \in Faults
       /\ disk' = disk
       /\ unsynced' = TRUE
       /\ mishaps' = mishaps \cup {"file"}

addToEnabled(m) == enabled' = enabled \cup {m} /\ Save(enabled \cup {m})

removeFromEnabled(m) == enabled' = enabled \ {m} /\ Save(enabled \ {m})

persistedUnchanged == UNCHANGED <<enabled, disk, unsynced, mishaps>>

-----------------------------------------------------------------------------
(* Load, Unload.                                                           *)

publishState(m, s) == published' = [published EXCEPT ![m] = s]

\* Stop is called on the instance of an entry, and it counts as running no
\* more; an error of Stop is logged and has no other consequence.
StopInstance(m) == IF loaded[m].inst = "live" THEN running[m] - 1 ELSE running[m]

\* Load up to the point where it gives up; the name stays where it was.
LoadGivesUp(m) ==
    /\ ~IsLoaded(m)
    /\ \/ m \notin Registered /\ UNCHANGED <<published, mishaps>>
       \/ /\ m \in Registered
          /\ \/ m \in Licensed /\ "denied" \in Faults /\ UNCHANGED published
             \/ "initFail" \in Faults /\ publishState(m, "initializing")
             \/ "startFail" \in Faults /\ publishState(m, "failed")
          /\ mishaps' = mishaps \cup {"load"}
    /\ UNCHANGED <<loaded, running, enabled, disk, unsynced>>

LoadSucceeds(m) ==
    /\ ~IsLoaded(m)
    /\ m \in Registered
    /\ loaded' = [loaded EXCEPT ![m] =
                    [inst |-> "live", state |-> "running", attempt |-> 0]]
    /\ running' = [running EXCEPT ![m] = @ + 1]
    /\ publishState(m, "running")
    /\ addToEnabled(m)

\* An operator's Load.  A repeated Load of a loaded module changes nothing but
\* still answers "ok".
Load(m) ==
    /\ phase = "serving"
    /\ \/ /\ IsLoaded(m)
          /\ intent' = [intent EXCEPT ![m] = "on"]
          /\ UNCHANGED <<loaded, running, published>>
          /\ persistedUnchanged
       \/ LoadGivesUp(m) /\ UNCHANGED intent
       \/ LoadSucceeds(m) /\ intent' = [intent EXCEPT ![m] = "on"]
    /\ UNCHANGED <<phase, boot, timer>>

\* stopLocked: the entry goes; the enabled-set and the goroutines that sleep
\* for the module are not touched.
stopLocked(m) ==
    /\ running' = [running EXCEPT ![m] = StopInstance(m)]
    /\ loaded' = [loaded EXCEPT ![m] = NotLoaded]
    /\ publishState(m, "stopped")
    /\ UNCHANGED timer

\* An operator's Unload.  It answers "ok" for a module that is not loaded too,
\* without looking at the enabled-set.
Unload(m) ==
    /\ phase = "serving"
    /\ intent' = [intent EXCEPT ![m] = "off"]
    /\ \/ /\ ~IsLoaded(m)
          /\ UNCHANGED <<loaded, running, published, timer>>
          /\ persistedUnchanged
       \/ /\ IsLoaded(m)
          /\ stopLocked(m)
          /\ removeFromEnabled(m)
    /\ UNCHANGED <<phase, boot>>

-----------------------------------------------------------------------------
(* Failure reports and restarts.                                           *)

\* Slip: one restart too many before the module is parked.
ReportLockedOffByOne(m, t) ==
    /\ IsLoaded(m)
    /\ LET n == loaded[m].attempt + 1
           s == IF n > MaxRestarts THEN "failed" ELSE "degraded"
       IN /\ loaded' = [loaded EXCEPT ![m] =
                          [inst |-> @.inst, state |-> s, attempt |-> n]]
          /\ publishState(m, s)
          /\ timer' = [timer EXCEPT ![t] =
                         IF s = "failed" THEN IdleTimer
                         ELSE [pc |-> "waiting", mod |-> m]]
    /\ UNCHANGED running

\* ReportFailure's critical section; t is the goroutine it may spawn.  The
\* module is parked when the count reaches the limit, else a restart is due.
ReportLocked(m, t) ==
    /\ IsLoaded(m)
    /\ LET n == loaded[m].attempt + 1 IN
         \/ /\ n >= MaxRestarts
            /\ loaded' = [loaded EXCEPT ![m] =
                           [inst |-> @.inst, state |-> "failed", attempt |-> n]]
            /\ publishState(m, "failed")
            /\ timer' = [timer EXCEPT ![t] = IdleTimer]
         \/ /\ n < MaxRestarts
            /\ loaded' = [loaded EXCEPT ![m] =
                           [inst |-> @.inst, state |-> "degraded", attempt |-> n]]
            /\ publishState(m, "degraded")
            /\ timer' = [timer EXCEPT ![t] = [pc |-> "waiting", mod |-> m]]
    /\ UNCHANGED running

\* A failure report from outside the supervisor.
ReportFailure(m, t) ==
    /\ phase = "serving"
    /\ timer[t].pc = "idle"
    /\ loaded[m].attempt < AttemptBound
    /\ ReportLocked(m, t)
    /\ UNCHANGED <<phase, boot, intent>>
    /\ persistedUnchanged

\* The report a restart goroutine makes of its own failure, in a second
\* critical section.
ReportRestartFailure(t) ==
    LET m == timer[t].mod IN
    /\ timer[t].pc = "reporting"
    /\ \/ ReportLocked(m, t)
       \/ /\ ~IsLoaded(m)
          /\ timer' = [timer EXCEPT ![t] = IdleTimer]
          /\ UNCHANGED <<loaded, running, published>>
    /\ UNCHANGED <<phase, boot, intent>>
    /\ persistedUnchanged

\* Slip: the old instance is not stopped.
RestartWithoutStop(m, t) ==
    /\ running' = [running EXCEPT ![m] = @ + 1]
    /\ loaded' = [loaded EXCEPT ![m] =
                    [inst |-> "live", state |-> "running", attempt |-> @.attempt]]
    /\ publishState(m, "running")
    /\ timer' = [timer EXCEPT ![t] = IdleTimer]

\* Slip: the entry's state is not set back.
RestartKeepsState(m, t) ==
    /\ running' = [running EXCEPT ![m] = StopInstance(m) + 1]
    /\ loaded' = [loaded EXCEPT ![m] =
                    [inst |-> "live", state |-> @.state, attempt |-> @.attempt]]
    /\ publishState(m, "running")
    /\ timer' = [timer EXCEPT ![t] = IdleTimer]

\* The restart itself replaces whatever instance the entry holds by then.
RestartSucceeds(m, t) ==
    /\ running' = [running EXCEPT ![m] = StopInstance(m) + 1]
    /\ loaded' = [loaded EXCEPT ![m] =
                    [inst |-> "live", state |-> "running", attempt |-> @.attempt]]
    /\ publishState(m, "running")
    /\ timer' = [timer EXCEPT ![t] = IdleTimer]

\* Slip: a failed restart returns without reporting itself.
RestartFailsSilently(m, t) ==
    /\ running' = [running EXCEPT ![m] = StopInstance(m)]
    /\ loaded' = [loaded EXCEPT ![m] =
                    [inst |-> "stopped", state |-> @.state, attempt |-> @.attempt]]
    /\ \/ "initFail" \in Faults /\ publishState(m, "initializing")
       \/ "startFail" \in Faults /\ publishState(m, "running")
    /\ timer' = [timer EXCEPT ![t] = IdleTimer]

\* The old instance is stopped by then, and stays in the entry; the state is
\* only corrected by the report.  "running" is announced before Start.
RestartFails(m, t) ==
    /\ running' = [running EXCEPT ![m] = StopInstance(m)]
    /\ loaded' = [loaded EXCEPT ![m] =
                    [inst |-> "stopped", state |-> @.state, attempt |-> @.attempt]]
    /\ \/ "initFail" \in Faults /\ publishState(m, "initializing")
       \/ "startFail" \in Faults /\ publishState(m, "running")
    /\ timer' = [timer EXCEPT ![t] = [pc |-> "reporting", mod |-> m]]

\* The backoff has passed: scheduleRestart's critical section.
scheduleRestart(t) ==
    LET m == timer[t].mod IN
    /\ timer[t].pc = "waiting"
    /\ \/ /\ ~IsLoaded(m)
          /\ timer' = [timer EXCEPT ![t] = IdleTimer]
          /\ UNCHANGED <<loaded, running, published>>
       \/ IsLoaded(m) /\ RestartSucceeds(m, t)
       \/ IsLoaded(m) /\ RestartFails(m, t)
    /\ UNCHANGED <<phase, boot, intent>>
    /\ persistedUnchanged

\* Slip: the goroutine waits on the reporting caller's context, which may end
\* at any time.
AbandonWithCaller(t) ==
    /\ timer[t].pc = "waiting"
    /\ timer' = [timer EXCEPT ![t] = IdleTimer]
    /\ UNCHANGED <<phase, boot, loaded, running, published, intent>>
    /\ persistedUnchanged

\* lifeCtx is cancelled: a sleeping goroutine gives up.  When the timer is due
\* as well, select picks either branch.
AbandonRestart(t) ==
    /\ timer[t].pc = "waiting"
    /\ phase \in {"draining", "stopped"}
    /\ timer' = [timer EXCEPT ![t] = IdleTimer]
    /\ UNCHANGED <<phase, boot, loaded, running, published, intent>>
    /\ persistedUnchanged

-----------------------------------------------------------------------------
(* Boot, shutdown, crash.                                                  *)

NothingLoaded == [m \in Names |-> NotLoaded]
NothingRuns == [m \in Names |-> 0]
NoTimers == [t \in Timers |-> IdleTimer]
NothingPublished == [m \in Names |-> "none"]

\* New, then StartEnabled reads the state file; a file that cannot be read is
\* logged and the daemon goes on with an empty enabled-set.
StartEnabled ==
    /\ phase = "down"
    /\ \/ /\ phase' = "booting"
          /\ boot' = disk
          /\ enabled' = disk
          /\ unsynced' = FALSE
          /\ UNCHANGED mishaps
       \/ /\ "unreadable" \in Faults
          /\ phase' = "serving"
          /\ boot' = {}
          /\ enabled' = {}
          /\ unsynced' = TRUE
          /\ mishaps' = mishaps \cup {"file"}
    /\ UNCHANGED <<loaded, running, timer, disk, published, intent>>

\* Slip: a name that fails to load is taken off the enabled-set.
StartEnabledLoadDrops(m) ==
    /\ phase = "booting"
    /\ m \in boot
    /\ boot' = boot \ {m}
    /\ \/ LoadSucceeds(m)
       \/ /\ m \notin Registered
          /\ removeFromEnabled(m)
          /\ UNCHANGED <<loaded, running, published>>
    /\ UNCHANGED <<phase, timer, intent>>

\* One turn of StartEnabled's loop; a failure is logged, the name is kept.
StartEnabledLoad(m) ==
    /\ phase = "booting"
    /\ m \in boot
    /\ boot' = boot \ {m}
    /\ LoadGivesUp(m) \/ LoadSucceeds(m)
    /\ UNCHANGED <<phase, timer, intent>>

\* initDaemon returns and the server starts to accept.
Serve ==
    /\ phase = "booting"
    /\ boot = {}
    /\ phase' = "serving"
    /\ UNCHANGED <<boot, loaded, running, timer, published, intent>>
    /\ persistedUnchanged

\* Shutdown before the lock: GracefulStop has drained the RPCs.
lifeStop ==
    /\ phase = "serving"
    /\ phase' = "draining"
    /\ UNCHANGED <<boot, loaded, running, timer, published, intent>>
    /\ persistedUnchanged

\* Slip: the first module whose Stop fails (it is stopped already) ends it.
ShutdownAtFirstError ==
    /\ phase = "draining"
    /\ \A m \in Names : IsLoaded(m) => loaded[m].inst = "live"
    /\ phase' = "stopped"
    /\ running' = NothingRuns
    /\ loaded' = NothingLoaded
    /\ published' = [m \in Names |-> IF IsLoaded(m) THEN "stopped" ELSE published[m]]
    /\ UNCHANGED <<boot, timer, intent>>
    /\ persistedUnchanged

\* Shutdown under the lock: stopLocked for every loaded module; the names are
\* visited in an order no other goroutine can observe.
Shutdown ==
    /\ phase = "draining"
    /\ phase' = "stopped"
    /\ running' = [m \in Names |-> StopInstance(m)]
    /\ loaded' = NothingLoaded
    /\ published' = [m \in Names |-> IF IsLoaded(m) THEN "stopped" ELSE published[m]]
    /\ UNCHANGED <<boot, timer, intent>>
    /\ persistedUnchanged

\* The process ends, after Stop or at any other moment; only the file is left.
ProcessEnds ==
    /\ \/ phase = "stopped"
       \/ phase # "down" /\ "crash" \in Faults
    /\ phase' = "down"
    /\ boot' = {}
    /\ loaded' = NothingLoaded
    /\ running' = NothingRuns
    /\ timer' = NoTimers
    /\ enabled' = {}
    /\ unsynced' = TRUE
    /\ published' = NothingPublished
    /\ UNCHANGED <<disk, mishaps, intent>>

-----------------------------------------------------------------------------
Init ==
    /\ phase = "down"
    /\ boot = {}
    /\ loaded = NothingLoaded
    /\ running = NothingRuns
    /\ timer = NoTimers
    /\ enabled = {}
    /\ disk \in {{}, Names \ Registered}
    /\ unsynced = TRUE
    /\ published = NothingPublished
    /\ mishaps = {}
    /\ intent = [m \in Names |-> IF m \in disk THEN "on" ELSE "none"]

Next ==
    \/ \E m \in Names : Load(m) \/ Unload(m) \/ StartEnabledLoad(m)
    \/ \E m \in Names, t \in Timers : ReportFailure(m, t)
    \/ \E t \in Timers :
          ReportRestartFailure(t) \/ scheduleRestart(t) \/ AbandonRestart(t)
    \/ StartEnabled \/ Serve \/ lifeStop \/ Shutdown \/ ProcessEnds

\* Goroutines that are ready are eventually scheduled, and timers eventually
\* fire; nothing obliges an operator to do anything.
Fairness ==
    /\ \A t \in Timers : /\ WF_vars(ReportRestartFailure(t))
                         /\ WF_vars(scheduleRestart(t))
    /\ WF_vars(Shutdown)
    /\ WF_vars(\E m \in Names : StartEnabledLoad(m))
    /\ WF_vars(Serve)

Spec == Init /\ [][Next]_vars

FairSpec == Spec /\ Fairness
-----------------------------------------------------------------------------
(* Safety.                                                                 *)

\* Two instances of one module never work at the same time, and none works
\* without an entry that can stop it: neither a restart racing an Unload, a
\* Load or another restart, nor a restart that fails half way, leaks one.
AtMostOneInstance ==
    \A m \in Names : running[m] <= 1 /\ (running[m] = 1 => IsLoaded(m))

\* Shutdown's promise: once it has released the lock nothing works any more,
\* whichever restart goroutines were asleep or between their two critical
\* sections when lifeStop was called.
NothingOutlivesShutdown ==
    phase \in {"stopped", "down"} => \A m \in Names : running[m] = 0

\* Every working instance is accounted for, by the entry of its module, and
\* Shutdown stops them all.
Accounted == AtMostOneInstance /\ NothingOutlivesShutdown

\* A module listed as running has a live instance, except while the goroutine
\* whose restart just failed has yet to take the lock again and report it.
RunningIsBacked ==
    \A m \in Names :
        loaded[m].state = "running" =>
            loaded[m].inst = "live" \/ \E t \in Timers : ReportingFor(t, m)

\* A module listed as degraded has a restart on the way: no order of reports,
\* restarts, Unloads and Loads loses the last goroutine that would bring it
\* back (scheduleRestart always reports its own failure).
DegradedHasRestart ==
    phase = "serving" =>
        \A m \in Names :
            loaded[m].state = "degraded" => \E t \in Timers : BusyFor(t, m)

\* What List() shows is being looked after, a failed restart included.
Supervised == RunningIsBacked /\ DegradedHasRestart

\* Watchers are not misled: but for the window of a failed restart, the last
\* state announced for a loaded module is the state List() shows for it.
EventsAgreeWithList ==
    \A m \in Names :
        IsLoaded(m) /\ ~(\E t \in Timers : ReportingFor(t, m)) =>
            published[m] = ListState(m)

\* A loaded module is in the enabled-set, and the state file holds that set
\* unless a Save or the read at boot has failed: a restart of the daemon, at
\* any moment, brings back what is loaded now.
LoadedIsRemembered ==
    /\ \A m \in Names : IsLoaded(m) => m \in enabled
    /\ ~unsynced => disk = enabled

\* A module whose last accepted command was Load is in the state file, through
\* any number of crashes and boots, also when a boot fails to load it, as long
\* as the file could be written and read.
LoadSurvivesRestart ==
    "file" \notin mishaps => \A m \in Names : intent[m] = "on" => m \in disk

\* "Unload is an operator decision: forget the module across restarts."
\* As long as no load and no file operation failed, a module whose last
\* accepted command was Unload does not work again.
UnloadForgets ==
    mishaps = {} => \A m \in Names : intent[m] = "off" => running[m] = 0

\* What the operator was told is so, and stays so over crashes, boots and
\* restarts: loaded modules are saved, a Load is not lost, an Unload is final.
CommandsAreKept == LoadedIsRemembered /\ LoadSurvivesRestart /\ UnloadForgets

-----------------------------------------------------------------------------
(* The parts of the inductive invariant that no property above states.      *)

\* What counts as running is what the entries hold.
RunningCounts ==
    \A m \in Names : running[m] = IF loaded[m].inst = "live" THEN 1 ELSE 0

\* Nothing is loaded outside the life of a process, nor after Shutdown, and
\* nothing has failed yet while StartEnabled runs.
QuietPhases ==
    /\ phase \in {"down", "booting"} => \A t \in Timers : timer[t].pc = "idle"
    /\ phase \in {"down", "stopped"} => \A m \in Names : ~IsLoaded(m)
    /\ phase = "booting" => \A m \in Names : loaded[m].state # "degraded"

\* A degraded module has restarts left, a parked one has none.
RestartBudget ==
    \A m \in Names :
        /\ loaded[m].state = "degraded" => loaded[m].attempt < MaxRestarts
        /\ loaded[m].state = "failed" => loaded[m].attempt >= MaxRestarts

IInv ==
    /\ TypeOK
    /\ RunningCounts
    /\ QuietPhases
    /\ RestartBudget
    /\ RunningIsBacked
    /\ DegradedHasRestart
    /\ EventsAgreeWithList
    /\ LoadedIsRemembered

-----------------------------------------------------------------------------
(* What a step may do.                                                     *)

ViewOf == [m \in Names |-> ListState(m)]
WorkingOf == {m \in Names : running[m] > 0}
ExhaustedOf == {m \in Names : loaded[m].attempt >= MaxRestarts}

Lifecycle == INSTANCE ModuleLifecycle WITH
    view <- ViewOf, working <- WorkingOf, exhausted <- ExhaustedOf

\* What List() shows, which modules work and which have no restart left, over
\* time: every critical section of the supervisor, whichever goroutine runs
\* it, is one step of the life ModuleLifecycle describes.
ImplementsLifecycle == Lifecycle!Spec

-----------------------------------------------------------------------------
(* Liveness, under FairSpec.                                               *)

\* A degraded module does not stay so: its restarts end in a running module
\* or a parked one, unless it is unloaded or the daemon goes down first.
DegradedIsResolved ==
    \A m \in Names :
        (phase = "serving" /\ loaded[m].state = "degraded")
            ~> (phase # "serving" \/ loaded[m].state # "degraded")

\* A shutdown that has begun ends with every module stopped.
ShutdownCompletes == phase = "draining" ~> phase \in {"stopped", "down"}

\* A boot serves in the end, whatever modules fail to load.
BootCompletes == phase = "booting" ~> phase \in {"serving", "down"}

\* The daemon hangs neither on its way up nor on its way down.
PhasesComplete == BootCompletes /\ ShutdownCompletes
=============================================================================
