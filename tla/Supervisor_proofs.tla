------------------------- MODULE Supervisor_proofs -------------------------
(***************************************************************************)
(* Proofs about Supervisor, for every set of names, modules, goroutines    *)
(* and faults and every restart limit.                                     *)
(***************************************************************************)
EXTENDS Supervisor, TLAPS

(***************************************************************************)
(* Type correctness, together with the instance count: StopInstance        *)
(* subtracts, so the count is a natural number only because it agrees with *)
(* the entries.  The variables fall into three groups that the parts of an *)
(* action change independently.                                            *)
(***************************************************************************)

ModulesTyped ==
    /\ loaded \in [Names -> Entries \cup {NotLoaded}]
    /\ running \in [Names -> Nat]
    /\ published \in [Names -> EventStates]
    /\ RunningCounts

StoreTyped ==
    /\ enabled \in SUBSET Names
    /\ disk \in SUBSET Names
    /\ unsynced \in BOOLEAN
    /\ mishaps \in SUBSET {"load", "file"}

TimersTyped == timer \in [Timers -> BusyTimers \cup {IdleTimer}]

ControlTyped ==
    /\ phase \in Phases
    /\ boot \in SUBSET Names
    /\ intent \in [Names -> {"none", "on", "off"}]

TypedInv == ModulesTyped /\ StoreTyped /\ TimersTyped /\ ControlTyped

LEMMA TypedInvIsTypeOK == TypedInv <=> TypeOK /\ RunningCounts
BY DEF TypedInv, ModulesTyped, StoreTyped, TimersTyped, ControlTyped, TypeOK

LEMMA EntryShape ==
    ASSUME ModulesTyped, NEW m \in Names
    PROVE  /\ IsLoaded(m) => loaded[m] \in Entries
           /\ ~IsLoaded(m) => loaded[m] = NotLoaded
           /\ running[m] = IF loaded[m].inst = "live" THEN 1 ELSE 0
           /\ loaded[m].attempt \in Nat
           /\ StopInstance(m) = 0
BY DEF ModulesTyped, RunningCounts, IsLoaded, StopInstance, Entries, NotLoaded

LEMMA SaveTyped ==
    ASSUME StoreTyped, NEW set \in SUBSET Names, Save(set), enabled' = set
    PROVE  StoreTyped'
BY DEF StoreTyped, Save

LEMMA LoadGivesUpTyped ==
    ASSUME ModulesTyped, StoreTyped, NEW m \in Names, LoadGivesUp(m)
    PROVE  ModulesTyped' /\ StoreTyped'
<1>1. published' \in [Names -> EventStates]
  BY DEF LoadGivesUp, publishState, ModulesTyped, EventStates, EntryStates
<1>2. loaded' = loaded /\ running' = running
  BY DEF LoadGivesUp
<1>3. ModulesTyped'
  BY <1>1, <1>2 DEF ModulesTyped, RunningCounts
<1>4. StoreTyped'
  BY DEF LoadGivesUp, persistedUnchanged, StoreTyped
<1> QED
  BY <1>3, <1>4

LEMMA LoadSucceedsTyped ==
    ASSUME ModulesTyped, StoreTyped, NEW m \in Names, LoadSucceeds(m)
    PROVE  ModulesTyped' /\ StoreTyped'
<1>1. loaded' \in [Names -> Entries \cup {NotLoaded}]
  BY DEF LoadSucceeds, ModulesTyped, Entries, EntryStates
<1>2. running' \in [Names -> Nat]
  BY DEF LoadSucceeds, ModulesTyped
<1>3. published' \in [Names -> EventStates]
  BY DEF LoadSucceeds, ModulesTyped, publishState, EventStates, EntryStates
<1>4. running[m] = 0
  BY EntryShape DEF LoadSucceeds, NotLoaded
<1>5. RunningCounts'
  BY <1>4 DEF LoadSucceeds, ModulesTyped, RunningCounts
<1>6. StoreTyped'
  BY SaveTyped DEF LoadSucceeds, addToEnabled, StoreTyped
<1> QED
  BY <1>1, <1>2, <1>3, <1>5, <1>6 DEF ModulesTyped

LEMMA StopLockedTyped ==
    ASSUME ModulesTyped, TimersTyped, NEW m \in Names, stopLocked(m)
    PROVE  ModulesTyped' /\ TimersTyped'
<1>1. loaded' \in [Names -> Entries \cup {NotLoaded}]
  BY DEF stopLocked, ModulesTyped
<1>2. running' = [running EXCEPT ![m] = 0]
  BY EntryShape DEF stopLocked
<1>3. published' \in [Names -> EventStates]
  BY DEF stopLocked, ModulesTyped, publishState, EventStates
<1>4. RunningCounts'
  BY <1>2 DEF stopLocked, ModulesTyped, RunningCounts, NotLoaded
<1>5. TimersTyped'
  BY DEF stopLocked, TimersTyped
<1> QED
  BY <1>1, <1>2, <1>3, <1>4, <1>5 DEF ModulesTyped

LEMMA ReportLockedTyped ==
    ASSUME ModulesTyped, TimersTyped, NEW m \in Names, NEW t \in Timers,
           ReportLocked(m, t)
    PROVE  ModulesTyped' /\ TimersTyped'
<1> DEFINE n == loaded[m].attempt + 1
<1>1. n \in Nat /\ loaded[m] \in Entries
  BY EntryShape DEF ReportLocked
<1>2. PICK s \in {"failed", "degraded"} :
         /\ loaded' = [loaded EXCEPT ![m] = [inst |-> @.inst, state |-> s, attempt |-> n]]
         /\ published' = [published EXCEPT ![m] = s]
  BY DEF ReportLocked, publishState
<1>4. loaded' \in [Names -> Entries \cup {NotLoaded}]
  BY <1>1, <1>2 DEF ModulesTyped, Entries, EntryStates
<1>5. published' \in [Names -> EventStates]
  BY <1>2 DEF ModulesTyped, EventStates, EntryStates
<1>6. RunningCounts' /\ running' \in [Names -> Nat]
  BY <1>1, <1>2 DEF ReportLocked, ModulesTyped, RunningCounts
<1>7. \/ timer' = [timer EXCEPT ![t] = IdleTimer]
      \/ timer' = [timer EXCEPT ![t] = [pc |-> "waiting", mod |-> m]]
  BY DEF ReportLocked
<1>8. [pc |-> "waiting", mod |-> m] \in BusyTimers
  BY DEF BusyTimers
<1>9. TimersTyped'
  BY <1>7, <1>8 DEF TimersTyped
<1> QED
  BY <1>4, <1>5, <1>6, <1>9 DEF ModulesTyped

LEMMA RestartTyped ==
    ASSUME ModulesTyped, TimersTyped, NEW m \in Names, NEW t \in Timers,
           IsLoaded(m), timer[t].pc = "waiting",
           RestartSucceeds(m, t) \/ RestartFails(m, t)
    PROVE  ModulesTyped' /\ TimersTyped'
<1>1. loaded[m] \in Entries /\ StopInstance(m) = 0
  BY EntryShape
<1>2. CASE RestartSucceeds(m, t)
  <2>1. /\ loaded' = [loaded EXCEPT ![m] = [inst |-> "live", state |-> "running",
                                            attempt |-> loaded[m].attempt]]
        /\ running' = [running EXCEPT ![m] = 1]
    BY <1>1, <1>2 DEF RestartSucceeds, ModulesTyped, Entries
  <2>2. loaded' \in [Names -> Entries \cup {NotLoaded}]
    BY <1>1, <2>1 DEF ModulesTyped, Entries, EntryStates
  <2>3. published' \in [Names -> EventStates]
    BY <1>2 DEF RestartSucceeds, publishState, ModulesTyped, EventStates, EntryStates
  <2>4. RunningCounts' /\ running' \in [Names -> Nat]
    BY <2>1 DEF ModulesTyped, RunningCounts
  <2>5. TimersTyped'
    BY <1>2 DEF RestartSucceeds, TimersTyped
  <2> QED
    BY <2>2, <2>3, <2>4, <2>5 DEF ModulesTyped
<1>3. CASE RestartFails(m, t)
  <2>1. /\ loaded' = [loaded EXCEPT ![m] = [inst |-> "stopped", state |-> loaded[m].state,
                                            attempt |-> loaded[m].attempt]]
        /\ running' = [running EXCEPT ![m] = 0]
    BY <1>1, <1>3 DEF RestartFails, ModulesTyped, Entries
  <2>2. loaded' \in [Names -> Entries \cup {NotLoaded}]
    BY <1>1, <2>1 DEF ModulesTyped, Entries, EntryStates
  <2>3. published' \in [Names -> EventStates]
    BY <1>3 DEF RestartFails, publishState, ModulesTyped, EventStates, EntryStates
  <2>4. RunningCounts' /\ running' \in [Names -> Nat]
    BY <2>1 DEF ModulesTyped, RunningCounts
  <2>5. TimersTyped'
    BY <1>3 DEF RestartFails, TimersTyped, BusyTimers, IdleTimer
  <2> QED
    BY <2>2, <2>3, <2>4, <2>5 DEF ModulesTyped
<1> QED
  BY <1>2, <1>3
\* The module a busy goroutine works for is a name.
LEMMA TimerShape ==
    ASSUME TimersTyped, NEW t \in Timers, timer[t].pc # "idle"
    PROVE  timer[t] \in BusyTimers /\ timer[t].mod \in Names
BY DEF TimersTyped, IdleTimer, BusyTimers

LEMMA TypedStep == TypedInv /\ [Next]_vars => TypedInv'
<1> SUFFICES ASSUME TypedInv, [Next]_vars PROVE TypedInv'
  OBVIOUS
<1> USE DEF TypedInv
<1>1. ASSUME NEW m \in Names, Load(m) PROVE TypedInv'
  <2>1. ControlTyped' /\ TimersTyped'
    BY <1>1 DEF Load, ControlTyped, TimersTyped
  <2>2. ModulesTyped' /\ StoreTyped'
    <3>1. CASE LoadGivesUp(m)
      BY <3>1, LoadGivesUpTyped
    <3>2. CASE LoadSucceeds(m)
      BY <3>2, LoadSucceedsTyped
    <3>3. CASE UNCHANGED <<loaded, running, published>> /\ persistedUnchanged
      BY <3>3 DEF persistedUnchanged, ModulesTyped, StoreTyped, RunningCounts
    <3> QED
      BY <1>1, <3>1, <3>2, <3>3 DEF Load
  <2> QED
    BY <2>1, <2>2
<1>2. ASSUME NEW m \in Names, Unload(m) PROVE TypedInv'
  <2>1. ControlTyped'
    BY <1>2 DEF Unload, ControlTyped
  <2>2. CASE stopLocked(m) /\ removeFromEnabled(m)
    <3>1. StoreTyped'
      BY <2>2, SaveTyped DEF removeFromEnabled, StoreTyped
    <3> QED
      BY <2>1, <2>2, <3>1, StopLockedTyped
  <2>3. CASE UNCHANGED <<loaded, running, published, timer>> /\ persistedUnchanged
    BY <2>1, <2>3
    DEF persistedUnchanged, ModulesTyped, StoreTyped, TimersTyped, RunningCounts
  <2> QED
    BY <1>2, <2>2, <2>3 DEF Unload
<1>3. ASSUME NEW m \in Names, StartEnabledLoad(m) PROVE TypedInv'
  <2>1. ControlTyped' /\ TimersTyped'
    BY <1>3 DEF StartEnabledLoad, ControlTyped, TimersTyped
  <2> QED
    BY <1>3, <2>1, LoadGivesUpTyped, LoadSucceedsTyped DEF StartEnabledLoad
<1>4. ASSUME NEW m \in Names, NEW t \in Timers, ReportFailure(m, t) PROVE TypedInv'
  <2>1. ControlTyped' /\ StoreTyped'
    BY <1>4 DEF ReportFailure, ControlTyped, persistedUnchanged, StoreTyped
  <2> QED
    BY <1>4, <2>1, ReportLockedTyped DEF ReportFailure
<1>5. ASSUME NEW t \in Timers, ReportRestartFailure(t) PROVE TypedInv'
  <2>1. ControlTyped' /\ StoreTyped'
    BY <1>5 DEF ReportRestartFailure, ControlTyped, persistedUnchanged, StoreTyped
  <2>2. timer[t].mod \in Names
    BY <1>5, TimerShape DEF ReportRestartFailure
  <2>3. CASE ReportLocked(timer[t].mod, t)
    BY <2>1, <2>2, <2>3, ReportLockedTyped
  <2>4. CASE timer' = [timer EXCEPT ![t] = IdleTimer] /\ UNCHANGED <<loaded, running, published>>
    BY <2>1, <2>4 DEF ModulesTyped, TimersTyped, RunningCounts
  <2> QED
    BY <1>5, <2>3, <2>4 DEF ReportRestartFailure
<1>6. ASSUME NEW t \in Timers, scheduleRestart(t) PROVE TypedInv'
  <2>1. ControlTyped' /\ StoreTyped'
    BY <1>6 DEF scheduleRestart, ControlTyped, persistedUnchanged, StoreTyped
  <2>2. timer[t].mod \in Names /\ timer[t].pc = "waiting"
    BY <1>6, TimerShape DEF scheduleRestart
  <2>3. CASE /\ IsLoaded(timer[t].mod)
             /\ RestartSucceeds(timer[t].mod, t) \/ RestartFails(timer[t].mod, t)
    BY <2>1, <2>2, <2>3, RestartTyped
  <2>4. CASE timer' = [timer EXCEPT ![t] = IdleTimer] /\ UNCHANGED <<loaded, running, published>>
    BY <2>1, <2>4 DEF ModulesTyped, TimersTyped, RunningCounts
  <2> QED
    BY <1>6, <2>3, <2>4 DEF scheduleRestart
<1>7. ASSUME NEW t \in Timers, AbandonRestart(t) PROVE TypedInv'
  BY <1>7 DEF AbandonRestart, ControlTyped, persistedUnchanged, StoreTyped,
     ModulesTyped, TimersTyped, RunningCounts
<1>8. CASE StartEnabled
  BY <1>8 DEF StartEnabled, ControlTyped, StoreTyped, ModulesTyped, TimersTyped,
     RunningCounts, Phases
<1>9. CASE Serve \/ lifeStop
  BY <1>9 DEF Serve, lifeStop, ControlTyped, persistedUnchanged, StoreTyped,
     ModulesTyped, TimersTyped, RunningCounts, Phases
<1>10. CASE Shutdown
  <2>1. ControlTyped' /\ StoreTyped'
    BY <1>10 DEF Shutdown, ControlTyped, persistedUnchanged, StoreTyped, Phases
  <2>2. running' = [m \in Names |-> 0] /\ loaded' = [m \in Names |-> NotLoaded]
    BY <1>10, EntryShape DEF Shutdown, NothingLoaded
  <2>3. published' \in [Names -> EventStates]
    BY <1>10 DEF Shutdown, ModulesTyped, EventStates
  <2>4. ModulesTyped'
    BY <2>2, <2>3 DEF ModulesTyped, RunningCounts, NotLoaded
  <2>5. TimersTyped'
    BY <1>10 DEF Shutdown, TimersTyped
  <2> QED
    BY <2>1, <2>4, <2>5
<1>11. CASE ProcessEnds
  BY <1>11 DEF ProcessEnds, ControlTyped, StoreTyped, ModulesTyped, TimersTyped,
     RunningCounts, Phases, NothingLoaded, NothingRuns, NoTimers,
     NothingPublished, EventStates, NotLoaded
<1>12. CASE UNCHANGED vars
  BY <1>12 DEF vars, ControlTyped, StoreTyped, ModulesTyped, TimersTyped, RunningCounts
<1> QED
  BY <1>1, <1>2, <1>3, <1>4, <1>5, <1>6, <1>7, <1>8, <1>9, <1>10, <1>11, <1>12 DEF Next

LEMMA TypedHolds == Spec => []TypedInv
<1>1. Init => TypedInv
  BY DEF Init, TypedInv, ControlTyped, StoreTyped, ModulesTyped, TimersTyped,
     RunningCounts, Phases, NothingLoaded, NothingRuns, NoTimers,
     NothingPublished, EventStates, NotLoaded
<1> QED
  BY <1>1, TypedStep, PTL DEF Spec

\* Every variable keeps its type in every behaviour: in particular an entry of
\* Supervisor.loaded is absent or a full moduleState, and no sequence of stops
\* and restarts counts an instance below zero.
THEOREM TypeCorrect == Spec => []TypeOK
BY TypedHolds, TypedInvIsTypeOK, PTL

\* No interleaving of operator commands, restart goroutines and shutdown has
\* two instances of one module at work, or one that no entry can stop.
THEOREM OneInstance == Spec => []AtMostOneInstance
<1>1. TypedInv => AtMostOneInstance
  BY EntryShape DEF TypedInv, AtMostOneInstance, NotLoaded
<1> QED
  BY <1>1, TypedHolds, PTL

(***************************************************************************)
(* The inductive invariant.  Each part has its own lemma; under it, one    *)
(* step per action that writes what the part is about.                     *)
(***************************************************************************)

LEMMA QuietStep ==
    ASSUME TypedInv, QuietPhases, [Next]_vars
    PROVE  QuietPhases'
<1> USE DEF QuietPhases, IsLoaded
<1>1. ASSUME NEW m \in Names, Load(m) PROVE QuietPhases'
  BY <1>1 DEF Load
<1>2. ASSUME NEW m \in Names, Unload(m) PROVE QuietPhases'
  BY <1>2 DEF Unload
<1>3. ASSUME NEW m \in Names, StartEnabledLoad(m) PROVE QuietPhases'
  BY <1>3 DEF StartEnabledLoad, LoadGivesUp, LoadSucceeds, TypedInv, ModulesTyped
<1>4. ASSUME NEW m \in Names, NEW t \in Timers, ReportFailure(m, t) PROVE QuietPhases'
  BY <1>4 DEF ReportFailure
<1>5. ASSUME NEW t \in Timers, ReportRestartFailure(t) \/ scheduleRestart(t) \/ AbandonRestart(t)
      PROVE  QuietPhases'
  <2>1. timer[t].pc # "idle" /\ timer[t].mod \in Names
    BY <1>5, TimerShape DEF TypedInv, ReportRestartFailure, scheduleRestart, AbandonRestart
  <2>2. phase' = phase /\ phase \notin {"down", "booting"}
    BY <1>5, <2>1 DEF ReportRestartFailure, scheduleRestart, AbandonRestart
  <2>3. ~IsLoaded(timer[t].mod) => loaded' = loaded
    BY <1>5 DEF ReportRestartFailure, ReportLocked, scheduleRestart, AbandonRestart
  <2> QED
    BY <2>1, <2>2, <2>3
<1>6. CASE StartEnabled
  BY <1>6 DEF StartEnabled, NotLoaded
<1>7. CASE Serve \/ lifeStop
  BY <1>7 DEF Serve, lifeStop
<1>8. CASE Shutdown \/ ProcessEnds
  BY <1>8 DEF Shutdown, ProcessEnds, NothingLoaded, NoTimers, IdleTimer, NotLoaded
<1>9. CASE UNCHANGED vars
  BY <1>9 DEF vars
<1> QED
  BY <1>1, <1>2, <1>3, <1>4, <1>5, <1>6, <1>7, <1>8, <1>9 DEF Next

LEMMA BudgetStep ==
    ASSUME TypedInv, RestartBudget, [Next]_vars
    PROVE  RestartBudget'
<1> USE SupervisorAssumption DEF RestartBudget, TypedInv, ModulesTyped
<1>1. ASSUME NEW m \in Names, Load(m) PROVE RestartBudget'
  BY <1>1 DEF Load, LoadGivesUp, LoadSucceeds
<1>2. ASSUME NEW m \in Names, Unload(m) PROVE RestartBudget'
  BY <1>2 DEF Unload, stopLocked, NotLoaded
<1>3. ASSUME NEW m \in Names, StartEnabledLoad(m) PROVE RestartBudget'
  BY <1>3 DEF StartEnabledLoad, LoadGivesUp, LoadSucceeds
<1>4. ASSUME NEW m \in Names, NEW t \in Timers, ReportLocked(m, t) PROVE RestartBudget'
  <2>1. loaded[m].attempt + 1 \in Nat
    BY EntryShape
  <2> QED
    BY <1>4, <2>1 DEF ReportLocked
<1>5. ASSUME NEW t \in Timers, ReportRestartFailure(t) PROVE RestartBudget'
  BY <1>4, <1>5, TimerShape DEF ReportRestartFailure
<1>6. ASSUME NEW t \in Timers, scheduleRestart(t) PROVE RestartBudget'
  <2>1. timer[t].mod \in Names
    BY <1>6, TimerShape DEF scheduleRestart
  <2> QED
    BY <1>6, <2>1 DEF scheduleRestart, RestartSucceeds, RestartFails
<1>7. ASSUME NEW t \in Timers, AbandonRestart(t) PROVE RestartBudget'
  BY <1>7 DEF AbandonRestart
<1>8. CASE StartEnabled \/ Serve \/ lifeStop
  BY <1>8 DEF StartEnabled, Serve, lifeStop
<1>9. CASE Shutdown \/ ProcessEnds
  BY <1>9 DEF Shutdown, ProcessEnds, NothingLoaded, NotLoaded
<1>10. CASE UNCHANGED vars
  BY <1>10 DEF vars
<1> QED
  BY <1>1, <1>2, <1>3, <1>4, <1>5, <1>6, <1>7, <1>8, <1>9, <1>10 DEF Next, ReportFailure

\* The goroutine that leaves an entry "running" without an instance is on its
\* way to ReportFailure, and only the report itself takes it off that way.
LEMMA BackedStep ==
    ASSUME TypedInv, RunningIsBacked, [Next]_vars
    PROVE  RunningIsBacked'
<1> USE DEF RunningIsBacked, ReportingFor, TypedInv, ModulesTyped
<1>1. ASSUME NEW m \in Names, Load(m) PROVE RunningIsBacked'
  BY <1>1 DEF Load, LoadGivesUp, LoadSucceeds
<1>2. ASSUME NEW m \in Names, Unload(m) PROVE RunningIsBacked'
  BY <1>2 DEF Unload, stopLocked, NotLoaded
<1>3. ASSUME NEW m \in Names, StartEnabledLoad(m) PROVE RunningIsBacked'
  BY <1>3 DEF StartEnabledLoad, LoadGivesUp, LoadSucceeds
<1>4. ASSUME NEW m \in Names, NEW t \in Timers, ReportLocked(m, t),
             timer[t].pc # "reporting" \/ timer[t].mod = m
      PROVE  RunningIsBacked'
  BY <1>4 DEF ReportLocked, TimersTyped
<1>5. ASSUME NEW t \in Timers, ReportRestartFailure(t) PROVE RunningIsBacked'
  <2>1. timer[t].mod \in Names
    BY <1>5, TimerShape DEF ReportRestartFailure
  <2>2. CASE ~IsLoaded(timer[t].mod)
    BY <1>5, <2>1, <2>2 DEF ReportRestartFailure, ReportLocked, IsLoaded, NotLoaded, TimersTyped
  <2> QED
    BY <1>4, <1>5, <2>1, <2>2 DEF ReportRestartFailure
<1>6. ASSUME NEW t \in Timers, scheduleRestart(t) PROVE RunningIsBacked'
  <2>1. timer[t].mod \in Names
    BY <1>6, TimerShape DEF scheduleRestart
  <2> QED
    BY <1>6, <2>1 DEF scheduleRestart, RestartSucceeds, RestartFails, TimersTyped
<1>7. ASSUME NEW t \in Timers, AbandonRestart(t) PROVE RunningIsBacked'
  BY <1>7 DEF AbandonRestart, TimersTyped
<1>8. CASE StartEnabled \/ Serve \/ lifeStop
  BY <1>8 DEF StartEnabled, Serve, lifeStop
<1>9. CASE Shutdown \/ ProcessEnds
  BY <1>9 DEF Shutdown, ProcessEnds, NothingLoaded, NotLoaded
<1>10. CASE UNCHANGED vars
  BY <1>10 DEF vars
<1> QED
  BY <1>1, <1>2, <1>3, <1>4, <1>5, <1>6, <1>7, <1>8, <1>9, <1>10 DEF Next, ReportFailure

\* A goroutine stops being busy for a module only in a step that takes the
\* module out of "degraded", or after lifeStop.
LEMMA DegradedStep ==
    ASSUME TypedInv, QuietPhases, DegradedHasRestart, [Next]_vars
    PROVE  DegradedHasRestart'
<1> USE DEF DegradedHasRestart, BusyFor, TypedInv, ModulesTyped, TimersTyped
<1>1. ASSUME NEW m \in Names, Load(m) PROVE DegradedHasRestart'
  BY <1>1 DEF Load, LoadGivesUp, LoadSucceeds
<1>2. ASSUME NEW m \in Names, Unload(m) PROVE DegradedHasRestart'
  BY <1>2 DEF Unload, stopLocked, NotLoaded
<1>3. ASSUME NEW m \in Names, StartEnabledLoad(m) PROVE DegradedHasRestart'
  BY <1>3 DEF StartEnabledLoad
<1>4. ASSUME NEW m \in Names, NEW t \in Timers, ReportLocked(m, t), phase' = phase,
             timer[t].pc = "idle" \/ timer[t].mod = m
      PROVE  DegradedHasRestart'
  BY <1>4 DEF ReportLocked
<1>5. ASSUME NEW t \in Timers, ReportRestartFailure(t) PROVE DegradedHasRestart'
  <2>1. timer[t].mod \in Names
    BY <1>5, TimerShape DEF ReportRestartFailure
  <2>2. CASE ~IsLoaded(timer[t].mod)
    BY <1>5, <2>1, <2>2 DEF ReportRestartFailure, ReportLocked, IsLoaded, NotLoaded
  <2> QED
    BY <1>4, <1>5, <2>1, <2>2 DEF ReportRestartFailure
<1>6. ASSUME NEW t \in Timers, scheduleRestart(t) PROVE DegradedHasRestart'
  <2>1. timer[t].mod \in Names
    BY <1>6, TimerShape DEF scheduleRestart
  <2> QED
    BY <1>6, <2>1 DEF scheduleRestart, RestartSucceeds, RestartFails, IsLoaded, NotLoaded
<1>7. ASSUME NEW t \in Timers, AbandonRestart(t) PROVE DegradedHasRestart'
  BY <1>7 DEF AbandonRestart
<1>8. CASE StartEnabled \/ Serve \/ lifeStop
  BY <1>8 DEF StartEnabled, Serve, lifeStop, QuietPhases, IsLoaded, NotLoaded
<1>9. CASE Shutdown \/ ProcessEnds
  BY <1>9 DEF Shutdown, ProcessEnds
<1>10. CASE UNCHANGED vars
  BY <1>10 DEF vars
<1> QED
  BY <1>1, <1>2, <1>3, <1>4, <1>5, <1>6, <1>7, <1>8, <1>9, <1>10 DEF Next, ReportFailure

LEMMA EventsStep ==
    ASSUME TypedInv, EventsAgreeWithList, [Next]_vars
    PROVE  EventsAgreeWithList'
<1> USE DEF EventsAgreeWithList, ListState, ReportingFor, IsLoaded, TypedInv,
        ModulesTyped, TimersTyped, publishState
<1>1. ASSUME NEW m \in Names, Load(m) PROVE EventsAgreeWithList'
  BY <1>1 DEF Load, LoadGivesUp, LoadSucceeds
<1>2. ASSUME NEW m \in Names, Unload(m) PROVE EventsAgreeWithList'
  BY <1>2 DEF Unload, stopLocked, NotLoaded
<1>3. ASSUME NEW m \in Names, StartEnabledLoad(m) PROVE EventsAgreeWithList'
  BY <1>3 DEF StartEnabledLoad, LoadGivesUp, LoadSucceeds
<1>4. ASSUME NEW m \in Names, NEW t \in Timers, ReportLocked(m, t),
             timer[t].pc # "reporting" \/ timer[t].mod = m
      PROVE  EventsAgreeWithList'
  BY <1>4 DEF ReportLocked
<1>5. ASSUME NEW t \in Timers, ReportRestartFailure(t) PROVE EventsAgreeWithList'
  <2>1. timer[t].mod \in Names
    BY <1>5, TimerShape DEF ReportRestartFailure
  <2>2. CASE ~IsLoaded(timer[t].mod)
    BY <1>5, <2>1, <2>2 DEF ReportRestartFailure, ReportLocked
  <2> QED
    BY <1>4, <1>5, <2>1, <2>2 DEF ReportRestartFailure
<1>6. ASSUME NEW t \in Timers, scheduleRestart(t) PROVE EventsAgreeWithList'
  <2>1. timer[t].mod \in Names
    BY <1>6, TimerShape DEF scheduleRestart
  <2> QED
    BY <1>6, <2>1 DEF scheduleRestart, RestartSucceeds, RestartFails
<1>7. ASSUME NEW t \in Timers, AbandonRestart(t) PROVE EventsAgreeWithList'
  BY <1>7 DEF AbandonRestart
<1>8. CASE StartEnabled \/ Serve \/ lifeStop
  BY <1>8 DEF StartEnabled, Serve, lifeStop
<1>9. CASE Shutdown \/ ProcessEnds
  BY <1>9 DEF Shutdown, ProcessEnds, NothingLoaded
<1>10. CASE UNCHANGED vars
  BY <1>10 DEF vars
<1> QED
  BY <1>1, <1>2, <1>3, <1>4, <1>5, <1>6, <1>7, <1>8, <1>9, <1>10 DEF Next, ReportFailure

LEMMA RememberedStep ==
    ASSUME TypedInv, QuietPhases, LoadedIsRemembered, [Next]_vars
    PROVE  LoadedIsRemembered'
<1> USE DEF LoadedIsRemembered, IsLoaded, TypedInv, ModulesTyped, persistedUnchanged
<1>1. ASSUME NEW m \in Names, Load(m) PROVE LoadedIsRemembered'
  BY <1>1 DEF Load, LoadGivesUp, LoadSucceeds, addToEnabled, Save
<1>2. ASSUME NEW m \in Names, Unload(m) PROVE LoadedIsRemembered'
  BY <1>2 DEF Unload, stopLocked, removeFromEnabled, Save
<1>3. ASSUME NEW m \in Names, StartEnabledLoad(m) PROVE LoadedIsRemembered'
  BY <1>3 DEF StartEnabledLoad, LoadGivesUp, LoadSucceeds, addToEnabled, Save
<1>4. ASSUME NEW m \in Names, NEW t \in Timers, ReportFailure(m, t) PROVE LoadedIsRemembered'
  BY <1>4 DEF ReportFailure, ReportLocked
<1>5. ASSUME NEW t \in Timers, ReportRestartFailure(t) PROVE LoadedIsRemembered'
  BY <1>5, TimerShape DEF ReportRestartFailure, ReportLocked
<1>6. ASSUME NEW t \in Timers, scheduleRestart(t) PROVE LoadedIsRemembered'
  BY <1>6, TimerShape DEF scheduleRestart, RestartSucceeds, RestartFails
<1>7. ASSUME NEW t \in Timers, AbandonRestart(t) PROVE LoadedIsRemembered'
  BY <1>7 DEF AbandonRestart
<1>8. CASE StartEnabled \/ Serve \/ lifeStop
  BY <1>8 DEF StartEnabled, Serve, lifeStop, QuietPhases
<1>9. CASE Shutdown \/ ProcessEnds
  BY <1>9 DEF Shutdown, ProcessEnds, NothingLoaded
<1>10. CASE UNCHANGED vars
  BY <1>10 DEF vars
<1> QED
  BY <1>1, <1>2, <1>3, <1>4, <1>5, <1>6, <1>7, <1>8, <1>9, <1>10 DEF Next

\* The inductive invariant holds in every reachable state.
THEOREM Inductive == Spec => []IInv
<1>1. Init => IInv
  <2> SUFFICES ASSUME Init PROVE IInv
    OBVIOUS
  <2>1. TypeOK /\ RunningCounts
    BY DEF Init, TypeOK, RunningCounts, Phases, NothingLoaded, NothingRuns,
       NoTimers, NothingPublished, EventStates, NotLoaded
  <2>2. QuietPhases /\ RestartBudget /\ LoadedIsRemembered
    BY DEF Init, QuietPhases, RestartBudget, LoadedIsRemembered, IsLoaded,
       NothingLoaded, NoTimers, IdleTimer, NotLoaded
  <2>3. RunningIsBacked /\ DegradedHasRestart /\ EventsAgreeWithList
    BY DEF Init, RunningIsBacked, DegradedHasRestart, EventsAgreeWithList,
       IsLoaded, NothingLoaded, NotLoaded
  <2> QED
    BY <2>1, <2>2, <2>3 DEF IInv
<1>2. IInv /\ [Next]_vars => IInv'
  BY TypedInvIsTypeOK, TypedStep, QuietStep, BudgetStep, BackedStep, DegradedStep,
     EventsStep, RememberedStep
  DEF IInv, TypedInv, ModulesTyped, StoreTyped, TimersTyped, ControlTyped, TypeOK
<1> QED
  BY <1>1, <1>2, PTL DEF Spec

\* Once Shutdown has released the lock nothing works any more, whatever the
\* restart goroutines were doing when lifeStop cancelled their context.
THEOREM ShutdownIsFinal == Spec => []NothingOutlivesShutdown
<1>1. IInv => NothingOutlivesShutdown
  BY DEF IInv, QuietPhases, RunningCounts, NothingOutlivesShutdown, IsLoaded, NotLoaded
<1> QED
  BY <1>1, Inductive, PTL

\* Both together: no working instance escapes its entry or Shutdown.
THEOREM AllAccounted == Spec => []Accounted
<1>1. AtMostOneInstance /\ NothingOutlivesShutdown => Accounted
  BY DEF Accounted
<1> QED
  BY <1>1, OneInstance, ShutdownIsFinal, PTL

\* A module listed as running has a live instance or a failure report on the
\* way to correct the list.
THEOREM RunningBacked == Spec => []RunningIsBacked
<1>1. IInv => RunningIsBacked
  BY DEF IInv
<1> QED
  BY <1>1, Inductive, PTL

\* While the daemon serves, a degraded module always has a restart goroutine.
THEOREM DegradedNotForgotten == Spec => []DegradedHasRestart
<1>1. IInv => DegradedHasRestart
  BY DEF IInv
<1> QED
  BY <1>1, Inductive, PTL

\* Both together: what List() shows as running or degraded is looked after.
THEOREM AllSupervised == Spec => []Supervised
<1>1. RunningIsBacked /\ DegradedHasRestart => Supervised
  BY DEF Supervised
<1> QED
  BY <1>1, RunningBacked, DegradedNotForgotten, PTL

\* The events sent for a module agree with List() outside the window in which
\* a failed restart has not been reported yet.
THEOREM EventsAgree == Spec => []EventsAgreeWithList
<1>1. IInv => EventsAgreeWithList
  BY DEF IInv
<1> QED
  BY <1>1, Inductive, PTL

\* What is loaded is in the enabled-set, and in the state file unless a Save
\* or the read at boot failed.
THEOREM Remembered == Spec => []LoadedIsRemembered
<1>1. IInv => LoadedIsRemembered
  BY DEF IInv
<1> QED
  BY <1>1, Inductive, PTL

(***************************************************************************)
(* The operator's commands and the state file.                             *)
(***************************************************************************)

\* Without file errors, memory and file agree for the whole life of a process.
Synced == phase # "down" /\ "file" \notin mishaps => ~unsynced

LEMMA SyncedStep ==
    ASSUME Synced, [Next]_vars
    PROVE  Synced'
<1> USE DEF Synced, persistedUnchanged, addToEnabled, removeFromEnabled, Save
<1>1. ASSUME NEW m \in Names, Load(m) PROVE Synced'
  BY <1>1 DEF Load, LoadGivesUp, LoadSucceeds
<1>2. ASSUME NEW m \in Names, Unload(m) PROVE Synced'
  BY <1>2 DEF Unload
<1>3. ASSUME NEW m \in Names, StartEnabledLoad(m) PROVE Synced'
  BY <1>3 DEF StartEnabledLoad, LoadGivesUp, LoadSucceeds
<1>4. ASSUME NEW m \in Names, NEW t \in Timers, ReportFailure(m, t) PROVE Synced'
  BY <1>4 DEF ReportFailure
<1>5. ASSUME NEW t \in Timers, ReportRestartFailure(t) \/ scheduleRestart(t) \/ AbandonRestart(t)
      PROVE  Synced'
  BY <1>5 DEF ReportRestartFailure, scheduleRestart, AbandonRestart
<1>6. CASE StartEnabled \/ Serve \/ lifeStop \/ Shutdown \/ ProcessEnds
  BY <1>6 DEF StartEnabled, Serve, lifeStop, Shutdown, ProcessEnds
<1>7. CASE UNCHANGED vars
  BY <1>7 DEF vars
<1> QED
  BY <1>1, <1>2, <1>3, <1>4, <1>5, <1>6, <1>7 DEF Next

\* As long as the state file could be written and read, a module whose last
\* accepted command was Load is in it: crashes at any point, and boots that
\* fail to load the module, never lose it.
THEOREM LoadIsDurable == Spec => []LoadSurvivesRestart
<1>1. Init => Synced /\ LoadSurvivesRestart
  BY DEF Init, Synced, LoadSurvivesRestart
<1>2. ASSUME IInv, Synced, LoadSurvivesRestart, [Next]_vars
      PROVE  Synced' /\ LoadSurvivesRestart'
  <2>1. Synced'
    BY <1>2, SyncedStep
  <2>2. intent \in [Names -> {"none", "on", "off"}]
    BY <1>2 DEF IInv, TypeOK
  <2>3. phase = "down" \/ "file" \in mishaps \/ disk = enabled
    BY <1>2 DEF IInv, LoadedIsRemembered, Synced
  <2> USE <1>2, <2>2, <2>3 DEF LoadSurvivesRestart, persistedUnchanged, Save
  <2>4. ASSUME NEW m \in Names, Load(m) PROVE LoadSurvivesRestart'
    <3>1. IsLoaded(m) => m \in enabled
      BY DEF IInv, LoadedIsRemembered
    <3> QED
      BY <2>4, <3>1 DEF Load, LoadGivesUp, LoadSucceeds, addToEnabled
  <2>5. ASSUME NEW m \in Names, Unload(m) PROVE LoadSurvivesRestart'
    BY <2>5 DEF Unload, removeFromEnabled
  <2>6. ASSUME NEW m \in Names, StartEnabledLoad(m) PROVE LoadSurvivesRestart'
    BY <2>6 DEF StartEnabledLoad, LoadGivesUp, LoadSucceeds, addToEnabled
  <2>7. ASSUME NEW m \in Names, NEW t \in Timers, ReportFailure(m, t) PROVE LoadSurvivesRestart'
    BY <2>7 DEF ReportFailure
  <2>8. ASSUME NEW t \in Timers, ReportRestartFailure(t) \/ scheduleRestart(t) \/ AbandonRestart(t)
        PROVE  LoadSurvivesRestart'
    BY <2>8 DEF ReportRestartFailure, scheduleRestart, AbandonRestart
  <2>9. CASE StartEnabled \/ Serve \/ lifeStop \/ Shutdown \/ ProcessEnds
    BY <2>1, <2>9 DEF StartEnabled, Serve, lifeStop, Shutdown, ProcessEnds
  <2>10. CASE UNCHANGED vars
    BY <2>1, <2>10 DEF vars
  <2> QED
    BY <2>1, <2>4, <2>5, <2>6, <2>7, <2>8, <2>9, <2>10 DEF Next
<1> QED
  BY <1>1, <1>2, Inductive, PTL DEF Spec

\* As long as no load failed, every registered name in the enabled-set is
\* loaded or about to be, so an Unload always finds the entry it has to forget.
ForgetInv ==
    /\ Synced
    /\ phase = "serving" => boot = {}
    /\ \A m \in Names \ Registered : ~IsLoaded(m)
    /\ mishaps = {} => \A m \in Registered :
          /\ phase = "booting" /\ m \in boot => m \in disk
          /\ phase \in {"booting", "serving"} /\ m \in enabled => IsLoaded(m) \/ m \in boot
          /\ intent[m] = "off" => m \notin disk /\ ~IsLoaded(m)

\* As long as neither the state file nor a load failed, a module whose last
\* accepted command was Unload never works again, through any crashes, boots
\* and restarts.  (It may when a boot failed to load it: Unload then finds no
\* entry and leaves the name in the file.)
THEOREM UnloadIsDurable == Spec => []UnloadForgets
<1>1. Init => ForgetInv
  BY SupervisorAssumption DEF Init, ForgetInv, Synced, IsLoaded, NothingLoaded
<1>2. ASSUME IInv, ForgetInv, [Next]_vars
      PROVE  ForgetInv'
  <2>1. Synced'
    BY <1>2, SyncedStep DEF ForgetInv
  <2>2. TypedInv
    BY <1>2, TypedInvIsTypeOK DEF IInv
  <2>3. phase = "down" \/ mishaps # {} \/ disk = enabled
    BY <1>2 DEF IInv, LoadedIsRemembered, ForgetInv, Synced
  <2> USE <1>2, <2>1, <2>2, <2>3, SupervisorAssumption
      DEF ForgetInv, persistedUnchanged, Save, IsLoaded, TypedInv, ModulesTyped, ControlTyped
  <2>4. ASSUME NEW m \in Names, Load(m) PROVE ForgetInv'
    <3>1. CASE loaded[m] # NotLoaded
      BY <2>4, <3>1 DEF Load, LoadGivesUp, LoadSucceeds
    <3>2. CASE loaded[m] = NotLoaded /\ m \notin Registered
      BY <2>4, <3>2 DEF Load, LoadGivesUp, LoadSucceeds
    <3>3. CASE LoadSucceeds(m) /\ intent' = [intent EXCEPT ![m] = "on"]
      BY <2>4, <3>3 DEF Load, LoadSucceeds, addToEnabled, NotLoaded
    <3> QED
      BY <2>4, <3>1, <3>2, <3>3 DEF Load, LoadGivesUp
  <2>5. ASSUME NEW m \in Names, Unload(m) PROVE ForgetInv'
    BY <2>5 DEF Unload, removeFromEnabled, stopLocked
  <2>6. ASSUME NEW m \in Names, StartEnabledLoad(m) PROVE ForgetInv'
    <3>1. CASE m \notin Registered
      BY <2>6, <3>1 DEF StartEnabledLoad, LoadGivesUp, LoadSucceeds
    <3>2. CASE LoadSucceeds(m)
      BY <2>6, <3>2 DEF StartEnabledLoad, LoadSucceeds, addToEnabled, NotLoaded
    <3> QED
      BY <2>6, <3>1, <3>2 DEF StartEnabledLoad, LoadGivesUp
  <2>7. ASSUME NEW m \in Names, NEW t \in Timers, ReportFailure(m, t) PROVE ForgetInv'
    BY <2>7 DEF ReportFailure, ReportLocked, NotLoaded
  <2>8. ASSUME NEW t \in Timers, ReportRestartFailure(t) \/ scheduleRestart(t) \/ AbandonRestart(t)
        PROVE  ForgetInv'
    <3>1. timer[t].mod \in Names
      BY <2>8, TimerShape DEF ReportRestartFailure, scheduleRestart, AbandonRestart
    <3> QED
      BY <2>8, <3>1 DEF ReportRestartFailure, ReportLocked, scheduleRestart, AbandonRestart,
         RestartSucceeds, RestartFails, NotLoaded
  <2>9. CASE StartEnabled
    BY <2>9 DEF StartEnabled
  <2>10. CASE Serve \/ lifeStop
    BY <2>10 DEF Serve, lifeStop
  <2>11. CASE Shutdown \/ ProcessEnds
    BY <2>11 DEF Shutdown, ProcessEnds, NothingLoaded
  <2>12. CASE UNCHANGED vars
    BY <2>12 DEF vars, Synced
  <2> QED
    BY <2>4, <2>5, <2>6, <2>7, <2>8, <2>9, <2>10, <2>11, <2>12 DEF Next
<1>3. IInv /\ ForgetInv => UnloadForgets
  BY DEF IInv, ForgetInv, RunningCounts, UnloadForgets, IsLoaded, NotLoaded
<1> QED
  BY <1>1, <1>2, <1>3, Inductive, PTL DEF Spec

\* The operator's accepted commands are kept in memory, in the state file and
\* over restarts.
THEOREM Durable == Spec => []CommandsAreKept
BY Remembered, LoadIsDurable, UnloadIsDurable, PTL DEF CommandsAreKept

(***************************************************************************)
(* The supervisor implements ModuleLifecycle.                              *)
(***************************************************************************)

\* What a step does to one entry, seen through the refinement mapping.
OnlyEntry(m, state) ==
    \A k \in Names : loaded'[k].state = IF k = m THEN state ELSE loaded[k].state

SameAttempts == \A k \in Names : loaded'[k].attempt = loaded[k].attempt

LEMMA ViewChange ==
    ASSUME NEW m \in Names, NEW state, OnlyEntry(m, state)
    PROVE  ViewOf' = [ViewOf EXCEPT ![m] = state]
<1>1. ViewOf' = [k \in Names |-> IF k = m THEN state ELSE loaded[k].state]
  BY DEF OnlyEntry, ViewOf, ListState
<1> QED
  BY <1>1 DEF ViewOf, ListState

LEMMA ExhaustedSame == ASSUME SameAttempts PROVE ExhaustedOf' = ExhaustedOf
BY DEF SameAttempts, ExhaustedOf

LEMMA WorkingGains ==
    ASSUME ModulesTyped, NEW m \in Names, running' = [running EXCEPT ![m] = 1]
    PROVE  WorkingOf' = WorkingOf \cup {m}
BY DEF ModulesTyped, WorkingOf

LEMMA WorkingLoses ==
    ASSUME ModulesTyped, NEW m \in Names, running' = [running EXCEPT ![m] = 0]
    PROVE  WorkingOf' = WorkingOf \ {m}
BY DEF ModulesTyped, WorkingOf

\* The list, the modules at work and the spent restarts of the supervisor
\* behave as ModuleLifecycle says: every critical section is one step of it.
THEOREM Refinement == Spec => ImplementsLifecycle
<1> USE SupervisorAssumption
<1>1. Init => Lifecycle!Init
  BY DEF Init, Lifecycle!Init, NothingLoaded, NothingRuns, NotLoaded, ListState,
     ViewOf, WorkingOf, ExhaustedOf
<1>2. ASSUME IInv, [Next]_vars
      PROVE  [Lifecycle!Next]_Lifecycle!lifecycleVars
  <2> DEFINE Step == [Lifecycle!Next]_Lifecycle!lifecycleVars
  <2>1. TypedInv /\ ModulesTyped
    BY <1>2, TypedInvIsTypeOK DEF IInv, TypedInv
  <2>2. \A m \in Names : IsLoaded(m) => loaded[m].state # "disabled"
    BY <2>1, EntryShape DEF Entries, EntryStates
  <2>3. CASE UNCHANGED <<loaded, running>>
    BY <2>3 DEF Lifecycle!lifecycleVars, ViewOf, WorkingOf, ExhaustedOf, ListState
  <2>4. ASSUME NEW m \in Names, LoadSucceeds(m) PROVE Step
    <3>1. running[m] = 0 /\ loaded[m] = NotLoaded
      BY <2>1, <2>4, EntryShape DEF LoadSucceeds, NotLoaded
    <3>2. /\ ViewOf' = [ViewOf EXCEPT ![m] = "running"]
          /\ ExhaustedOf' = ExhaustedOf
      <4>1. OnlyEntry(m, "running") /\ SameAttempts
        BY <2>1, <2>4, <3>1 DEF OnlyEntry, SameAttempts, LoadSucceeds, NotLoaded, ModulesTyped
      <4> QED
        BY <4>1, ViewChange, ExhaustedSame
    <3>3. running' = [running EXCEPT ![m] = 1]
      BY <2>4, <3>1 DEF LoadSucceeds
    <3>4. WorkingOf' = WorkingOf \cup {m}
      BY <2>1, <3>3, WorkingGains
    <3>5. Lifecycle!Enable(m)
      BY <3>1, <3>2, <3>4 DEF Lifecycle!Enable, NotLoaded, ViewOf, ListState
    <3> QED
      BY <3>5 DEF Lifecycle!Next
  <2>5. ASSUME NEW m \in Names, stopLocked(m) PROVE Step
    <3>1. ViewOf' = [ViewOf EXCEPT ![m] = "disabled"]
      <4>1. OnlyEntry(m, "disabled")
        BY <2>1, <2>5 DEF OnlyEntry, stopLocked, NotLoaded, ModulesTyped
      <4> QED
        BY <4>1, ViewChange
    <3>2. WorkingOf' = WorkingOf \ {m}
      <4>1. running' = [running EXCEPT ![m] = 0]
        BY <2>1, <2>5, EntryShape DEF stopLocked
      <4> QED
        BY <2>1, <4>1, WorkingLoses
    <3>3. ExhaustedOf' = ExhaustedOf \ {m}
      BY <2>1, <2>5 DEF stopLocked, ModulesTyped, ExhaustedOf, NotLoaded
    <3>4. Lifecycle!Disable(m)
      BY <3>1, <3>2, <3>3 DEF Lifecycle!Disable
    <3> QED
      BY <3>4 DEF Lifecycle!Next
  <2>6. ASSUME NEW m \in Names, NEW t \in Timers, ReportLocked(m, t) PROVE Step
    <3> DEFINE n == loaded[m].attempt + 1
    <3>1. n \in Nat /\ loaded[m].attempt \in Nat /\ loaded[m].state # "disabled"
      BY <2>1, <2>2, <2>6, EntryShape DEF ReportLocked
    <3>2. WorkingOf' = WorkingOf
      BY <2>6 DEF ReportLocked, WorkingOf
    <3>3. CASE n >= MaxRestarts
      <4>1. loaded' = [loaded EXCEPT ![m] = [inst |-> @.inst, state |-> "failed", attempt |-> n]]
        BY <2>6, <3>1, <3>3 DEF ReportLocked
      <4>2. ViewOf' = [ViewOf EXCEPT ![m] = "failed"]
        <5>1. OnlyEntry(m, "failed")
          BY <2>1, <4>1 DEF OnlyEntry, ModulesTyped
        <5> QED
          BY <5>1, ViewChange
      <4>3. ExhaustedOf' = ExhaustedOf \cup {m}
        BY <2>1, <3>3, <4>1 DEF ModulesTyped, ExhaustedOf
      <4>4. Lifecycle!Park(m)
        BY <3>1, <3>2, <4>2, <4>3 DEF Lifecycle!Park, ViewOf, ListState
      <4> QED
        BY <4>4 DEF Lifecycle!Next
    <3>4. CASE n < MaxRestarts
      <4>1. loaded' = [loaded EXCEPT ![m] = [inst |-> @.inst, state |-> "degraded", attempt |-> n]]
        BY <2>6, <3>1, <3>4 DEF ReportLocked
      <4>2. ViewOf' = [ViewOf EXCEPT ![m] = "degraded"]
        <5>1. OnlyEntry(m, "degraded")
          BY <2>1, <4>1 DEF OnlyEntry, ModulesTyped
        <5> QED
          BY <5>1, ViewChange
      <4>3. m \notin ExhaustedOf /\ ExhaustedOf' = ExhaustedOf
        BY <2>1, <3>1, <3>4, <4>1 DEF ModulesTyped, ExhaustedOf
      <4>4. Lifecycle!Degrade(m)
        BY <3>1, <3>2, <4>2, <4>3 DEF Lifecycle!Degrade, ViewOf, ListState
      <4> QED
        BY <4>4 DEF Lifecycle!Next
    <3> QED
      BY <3>1, <3>3, <3>4
  <2>7. ASSUME NEW m \in Names, NEW t \in Timers, IsLoaded(m), RestartSucceeds(m, t) PROVE Step
    <3>1. ViewOf' = [ViewOf EXCEPT ![m] = "running"] /\ ExhaustedOf' = ExhaustedOf
      <4>1. OnlyEntry(m, "running") /\ SameAttempts
        BY <2>1, <2>7 DEF OnlyEntry, SameAttempts, RestartSucceeds, ModulesTyped
      <4> QED
        BY <4>1, ViewChange, ExhaustedSame
    <3>2. WorkingOf' = WorkingOf \cup {m}
      <4>1. running' = [running EXCEPT ![m] = 1]
        <5>1. StopInstance(m) + 1 = 1
          BY <2>1, EntryShape
        <5> QED
          BY <2>7, <5>1 DEF RestartSucceeds
      <4> QED
        BY <2>1, <4>1, WorkingGains
    <3>3. Lifecycle!Recover(m)
      BY <2>2, <2>7, <3>1, <3>2 DEF Lifecycle!Recover, ViewOf, ListState
    <3> QED
      BY <3>3 DEF Lifecycle!Next
  <2>8. ASSUME NEW m \in Names, NEW t \in Timers, IsLoaded(m), RestartFails(m, t) PROVE Step
    <3>1. ViewOf' = [ViewOf EXCEPT ![m] = loaded[m].state] /\ ExhaustedOf' = ExhaustedOf
      <4>1. OnlyEntry(m, loaded[m].state) /\ SameAttempts
        BY <2>1, <2>8 DEF OnlyEntry, SameAttempts, RestartFails, ModulesTyped
      <4> QED
        BY <4>1, ViewChange, ExhaustedSame
    <3>2. ViewOf' = ViewOf
      BY <3>1 DEF ViewOf, ListState
    <3>3. WorkingOf' = WorkingOf \ {m}
      <4>1. running' = [running EXCEPT ![m] = 0]
        BY <2>1, <2>8, EntryShape DEF RestartFails
      <4> QED
        BY <2>1, <4>1, WorkingLoses
    <3>4. Lifecycle!RecoverFails(m)
      BY <2>2, <2>8, <3>1, <3>2, <3>3 DEF Lifecycle!RecoverFails, ViewOf, ListState
    <3> QED
      BY <3>4 DEF Lifecycle!Next
  <2>9. CASE Shutdown \/ ProcessEnds
    <3>1. loaded' = NothingLoaded /\ running' = NothingRuns
      BY <2>1, <2>9, EntryShape DEF Shutdown, ProcessEnds, NothingRuns
    <3>2. Lifecycle!DisableAll
      BY <3>1 DEF Lifecycle!DisableAll, NothingLoaded, NothingRuns, NotLoaded,
         ViewOf, WorkingOf, ExhaustedOf, ListState
    <3> QED
      BY <3>2 DEF Lifecycle!Next
  <2>10. ASSUME NEW m \in Names, Load(m) \/ Unload(m) \/ StartEnabledLoad(m) PROVE Step
    BY <2>3, <2>4, <2>5, <2>10 DEF Load, LoadGivesUp, Unload, StartEnabledLoad
  <2>11. ASSUME NEW t \in Timers, ReportRestartFailure(t) \/ scheduleRestart(t) PROVE Step
    <3>1. timer[t].mod \in Names
      BY <2>1, <2>11, TimerShape DEF TypedInv, ReportRestartFailure, scheduleRestart
    <3> QED
      BY <2>3, <2>6, <2>7, <2>8, <2>11, <3>1 DEF ReportRestartFailure, scheduleRestart
  <2>12. CASE StartEnabled \/ Serve \/ lifeStop \/ UNCHANGED vars
    BY <2>3, <2>12 DEF StartEnabled, Serve, lifeStop, vars
  <2> QED
    BY <1>2, <2>3, <2>6, <2>9, <2>10, <2>11, <2>12 DEF Next, ReportFailure, AbandonRestart
<1> QED
  BY <1>1, <1>2, Inductive, PTL DEF Spec, ImplementsLifecycle, Lifecycle!Spec
=============================================================================
