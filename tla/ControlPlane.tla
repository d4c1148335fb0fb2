---------------------------- MODULE ControlPlane ----------------------------
(***************************************************************************)
(* The daemon's RPC handlers (internal/daemon/server.go, dispatch.go), the *)
(* peer check before them (internal/ipc/listen_unix.go), and the callers:  *)
(* the command line (cmd/penguin, internal/cli) and the tray               *)
(* (cmd/penguin-tray, internal/tray).                                      *)
(*                                                                         *)
(* A handler is a sequence of critical sections of the supervisor's mutex  *)
(* s.mu with nothing held in between; a command runs on an instance with   *)
(* no lock of the supervisor at all.  Here s.mu, the mutex of each module  *)
(* instance and the callers' deadlines are explicit, and what goes on      *)
(* inside Load and Unload (module Supervisor) is one step under the lock.  *)
(***************************************************************************)
EXTENDS Naturals, FiniteSets, Sequences

CONSTANTS
  Sorted,     \* the registered modules in the order of List()
  Stranger,   \* a name that is not registered
  Users,      \* slots for invocations of the command line
  Tray,       \* the tray application
  Requests,   \* the <<caller, operation, name>> that may be asked
  MaxCalls,   \* bound: calls in progress at a time, a rendering counting twice
  Levels,     \* the levels of health that occur
  Hasty,      \* the callers whose deadline may pass
  Gens,       \* to tell a module's instances apart, recycled once unreferenced
  None        \* no instance, no caller

Registered == {Sorted[i] : i \in DOMAIN Sorted}
Callers == Users \cup {Tray}
Inst == [module : Registered, gen : Gens]
Commands == {"query", "start", "stop"}
Asks == {"load", "unload", "status"} \cup Commands

\* The registry is a map: List names every module once.
ASSUME ConstantsAssumption ==
  /\ Sorted \in Seq(Registered) /\ Len(Sorted) > 0
  /\ \A i, j \in DOMAIN Sorted : Sorted[i] = Sorted[j] => i = j
  /\ Stranger \notin Registered
  /\ Tray \notin Users
  /\ Requests \subseteq Users \X Asks \X (Registered \cup {Stranger})
  /\ MaxCalls \in Nat
  /\ "healthy" \in Levels /\ Levels \subseteq {"healthy", "degraded", "unhealthy"}
  /\ None \notin Inst \cup Callers
  /\ IsFiniteSet(Gens) /\ IsFiniteSet(Users)
  /\ Cardinality(Gens) > 2 * Cardinality(Callers)
  /\ Hasty \subseteq Callers

VARIABLES
  entry,      \* s.loaded: the instance loaded under each name, or None
  running,    \* the instances between Start and Stop
  writer,     \* holder of s.mu.Lock, or None
  readers,    \* holders of s.mu.RLock
  modMu,      \* holder of an instance's own mutex, or None
  call,       \* what each caller's call is doing
  past        \* history: what each call's modules have been since it began

vars == <<entry, running, writer, readers, modMu, call, past>>
daemon == <<entry, running>>
locks == <<writer, readers, modMu>>

\* What a caller is told; "refused" is the peer check's PermissionDenied and
\* "denied" that of LoadModule.
Codes == {"ok", "failed", "not_found", "denied", "refused", "internal", "deadline",
          "no_command"}

(* A call: what was asked, where the handler is, the row of the loop it is *)
(* at, the instance it holds, the state and the rows it has read, the list *)
(* it started from, the code it ended with, and whether the caller has     *)
(* already given up.                                                       *)
Idle == [op |-> "none", name |-> Stranger, pc |-> "idle", row |-> 1, inst |-> None,
         from |-> None, rows |-> {}, list |-> {}, code |-> "ok", gone |-> FALSE]

\* A row of GetStatus: is the health that of the instance whose state it has?
Rows == [name : Registered, sameInstance : BOOLEAN, health : Levels]

\* History: the names that were loaded, and that were not, at some moment since
\* the call began.
NoPast == [present |-> {}, absent |-> {}]

PCs == {"idle", "commands", "load", "loading", "unload", "unloading",
        "list", "status", "reading", "module", "health", "offers", "run",
        "executing", "done"}

(* The types of the variables. *)
TypeOK ==
  /\ entry \in [Registered -> Inst \cup {None}]
  /\ running \subseteq Inst
  /\ writer \in Callers \cup {None} /\ readers \subseteq Callers
  /\ modMu \in [Inst -> Callers \cup {None}]
  /\ call \in [Callers ->
       [op : Asks \cup {"render", "none"}, name : Registered \cup {Stranger}, pc : PCs,
        row : DOMAIN Sorted, inst : Inst \cup {None}, from : Inst \cup {None},
        rows : SUBSET Rows, list : SUBSET Registered, code : Codes, gone : BOOLEAN]]
  /\ past \in [Callers -> [present : SUBSET Registered, absent : SUBSET Registered]]

Init ==
  /\ entry = [n \in Registered |-> None]
  /\ running = {}
  /\ writer = None /\ readers = {}
  /\ modMu = [i \in Inst |-> None]
  /\ call = [c \in Callers |-> Idle]
  /\ past = [c \in Callers |-> NoPast]

-----------------------------------------------------------------------------
(* Helpers. *)

At(c, pc) == call[c].pc = pc
Goto(c, pc) == call' = [call EXCEPT ![c].pc = pc]

\* The instance loaded under a name; the map has nothing for a stranger.
Loaded(n) == IF n \in Registered THEN entry[n] ELSE None

\* The handler returns: the answer reaches a caller that still waits.
Answered(c, code) ==
  [call[c] EXCEPT !.pc = "done", !.code = IF call[c].gone THEN @ ELSE code,
                  !.inst = None, !.from = None]
Answer(c, code) == call' = [call EXCEPT ![c] = Answered(c, code)]

\* The modules whose past matters to a call.
Concerns(k) == IF k.op = "render" THEN Registered ELSE {k.name} \cap Registered

\* History: every call in progress notes what is there after a change.
Note ==
  past' = [c \in Callers |->
    LET ns == IF call'[c].pc = "idle" \/ call'[c].gone THEN {} ELSE Concerns(call'[c])
        in == {n \in ns : entry'[n] # None}
    IN [present |-> past[c].present \cup in,
        absent |-> past[c].absent \cup (ns \ in)]]

\* Instances something can still reach.
Referenced ==
  {entry[n] : n \in Registered} \cup {call[c].inst : c \in Callers}
    \cup {call[c].from : c \in Callers}

-----------------------------------------------------------------------------
(* The callers. *)

\* Bound on what goes on at the same time.
Busy == {c \in Callers : ~At(c, "idle")}
Room(c) == Cardinality(Busy \cup {c}) + Cardinality((Busy \cup {c}) \cap {Tray}) <= MaxCalls

\* Which handler a command reaches first: run adds the modules' commands to its
\* own after ListCommands.
FirstStep(op) ==
  CASE op = "load" -> "load"
    [] op = "unload" -> "unload"
    [] op = "status" -> "status"
    [] op = "render" -> "list"
    [] op \in Commands -> "commands"

\* The interceptor checks the peer before every handler; without ListCommands
\* the command line does not know any module's commands.
PeerCheck(op, allowed) ==
  IF allowed THEN [pc |-> FirstStep(op), code |-> "ok"]
  ELSE [pc |-> "done", code |-> IF op \in Commands THEN "no_command" ELSE "refused"]

\* The user runs a command: one call, and a deadline.
Call(c, op, n, allowed) ==
  /\ At(c, "idle") /\ Room(c)
  /\ LET checked == PeerCheck(op, allowed) IN
     call' = [call EXCEPT ![c] = [Idle EXCEPT !.op = op, !.name = n, !.pc = checked.pc,
                                              !.code = checked.code]]
  /\ UNCHANGED <<daemon, locks>>
  /\ Note

\* The tray renders: when it starts, at an event, every 15 s without a stream,
\* or at a click on Refresh.
Render == \E allowed \in BOOLEAN : Call(Tray, "render", Stranger, allowed)

\* BuildRoot: the command exists only if ListCommands named the module within
\* its 300 ms.
BuildRoot(c) ==
  /\ At(c, "commands")
  /\ \/ writer = None /\ Loaded(call[c].name) # None /\ Goto(c, "module")
     \/ Answer(c, "no_command")
  /\ UNCHANGED <<daemon, locks, past>>

\* The caller's deadline passes: it reports and is gone, the handler goes on
\* (what it reads from then on is for nobody, and is not kept; a snapshot's
\* later calls, which are then not made, would only read).
GiveUp(c) ==
  /\ c \in Hasty /\ call[c].pc \notin {"idle", "commands", "done"} /\ ~call[c].gone
  /\ call' = [call EXCEPT ![c].gone = TRUE, ![c].code = "deadline",
                          ![c].rows = {}, ![c].list = {}]
  /\ past' = [past EXCEPT ![c] = NoPast]
  /\ UNCHANGED <<daemon, locks>>

\* What the process exits with.  dispatch leaves its loop at any error of
\* Recv with the exit code of the last final chunk, 0 if there was none.
ExitsZero(c) ==
  IF call[c].op \in Commands
  THEN call[c].code \notin {"failed", "no_command"}
  ELSE call[c].code = "ok"

Return(c) ==
  /\ At(c, "done")
  /\ call' = [call EXCEPT ![c] = Idle]
  /\ past' = [past EXCEPT ![c] = NoPast]
  /\ UNCHANGED <<daemon, locks>>

-----------------------------------------------------------------------------
(* The server. *)

\* Load and Unload take the lock for writing and keep it while the module
\* initialises, starts or stops.
Lock(c) ==
  /\ call[c].pc \in {"load", "unload"}
  /\ writer = None /\ readers = {}
  /\ writer' = c
  /\ Goto(c, IF At(c, "load") THEN "loading" ELSE "unloading")
  /\ UNCHANGED <<daemon, readers, modMu, past>>

\* Slip: a second load replaces the instance.
LoadAgain(c) ==
  /\ At(c, "loading")
  /\ writer' = None
  /\ LET n == call[c].name IN
     \/ /\ Loaded(n) # None
        /\ Goto(c, "status")
        /\ UNCHANGED <<daemon, past>>
     \/ /\ n \notin Registered
        /\ Answer(c, "not_found")
        /\ UNCHANGED <<daemon, past>>
     \/ /\ n \in Registered /\ Loaded(n) = None
        /\ Answer(c, "denied")
        /\ UNCHANGED <<daemon, past>>
     \/ /\ n \in Registered
        /\ LET i == CHOOSE j \in Inst : j.module = n /\ j \notin Referenced IN
           /\ entry' = [entry EXCEPT ![n] = i]
           /\ running' = running \cup {i}
        /\ Goto(c, "status")
        /\ Note
  /\ UNCHANGED <<readers, modMu>>

\* Slip: the entry is made before Start, and stays when Start fails.
LoadLeavesEntry(c) ==
  /\ At(c, "loading")
  /\ writer' = None
  /\ LET n == call[c].name IN
     \/ /\ Loaded(n) # None
        /\ Goto(c, "status")
        /\ UNCHANGED <<daemon, past>>
     \/ /\ n \notin Registered
        /\ Answer(c, "not_found")
        /\ UNCHANGED <<daemon, past>>
     \/ /\ n \in Registered /\ Loaded(n) = None
        /\ LET i == CHOOSE j \in Inst : j.module = n /\ j \notin Referenced IN
           /\ entry' = [entry EXCEPT ![n] = i]
           /\ \/ running' = running \cup {i} /\ Goto(c, "status")
              \/ running' = running /\ Answer(c, "denied")
        /\ Note
  /\ UNCHANGED <<readers, modMu>>

\* LoadModule, the part under the lock: already loaded, unknown, refused by
\* the licence or failed in Init or Start, or started.
Load(c) ==
  /\ At(c, "loading")
  /\ writer' = None
  /\ LET n == call[c].name IN
     \/ /\ Loaded(n) # None
        /\ Goto(c, "status")
        /\ UNCHANGED <<daemon, past>>
     \/ /\ n \notin Registered
        /\ Answer(c, "not_found")
        /\ UNCHANGED <<daemon, past>>
     \/ /\ n \in Registered /\ Loaded(n) = None
        /\ Answer(c, "denied")
        /\ UNCHANGED <<daemon, past>>
     \/ /\ n \in Registered /\ Loaded(n) = None
        /\ LET i == CHOOSE j \in Inst : j.module = n /\ j \notin Referenced IN
           /\ entry' = [entry EXCEPT ![n] = i]
           /\ running' = running \cup {i}
        /\ Goto(c, "status")
        /\ Note
  /\ UNCHANGED <<readers, modMu>>

\* UnloadModule: nothing to do, or Stop, which waits for the instance's mutex.
Unload(c) ==
  /\ At(c, "unloading")
  /\ writer' = None
  /\ Answer(c, "ok")
  /\ LET i == Loaded(call[c].name) IN
     \/ /\ i = None
        /\ UNCHANGED <<daemon, past>>
     \/ /\ i # None /\ modMu[i] = None
        /\ entry' = [entry EXCEPT ![call[c].name] = None]
        /\ running' = running \ {i}
        /\ Note
  /\ UNCHANGED <<readers, modMu>>

\* ListModules: every registered module with the supervisor's state; the
\* ModuleInfo of each is a constant.
List(c) ==
  /\ At(c, "list") /\ writer = None
  /\ call' = [call EXCEPT ![c].pc = "status",
                          ![c].list = {n \in Registered : entry[n] # None}]
  /\ UNCHANGED <<daemon, locks, past>>

\* The module that GetStatus or ListCommands looks at now.
Subject(c) == IF call[c].op = "render" THEN Sorted[call[c].row] ELSE call[c].name

\* To the next module of the list, at its end to the next call of Snapshot or
\* to the answer.
Advance(c, k) ==
  IF k.row < Len(Sorted) THEN [k EXCEPT !.row = @ + 1,
                                        !.pc = IF @ = "offers" THEN @ ELSE "status"]
  ELSE IF k.pc # "offers" THEN [k EXCEPT !.row = 1, !.pc = "offers"]
  ELSE [Answered(c, "ok") EXCEPT !.rows = k.rows]

\* Slip: the report ends at the first module that is not loaded.
AbsentEnds(c) ==
  CASE call[c].op = "render" -> Advance(c, [call[c] EXCEPT !.from = None, !.row = Len(Sorted)])
    [] call[c].op = "load" -> Answered(c, "internal")
    [] OTHER -> Answered(c, "not_found")

\* Slip: a load passes the error of its second look on as it is.
AbsentPassedOn(c) ==
  IF call[c].op = "render" THEN Advance(c, [call[c] EXCEPT !.from = None])
  ELSE Answered(c, "not_found")

\* A module that is not loaded is skipped in the report of all modules; the
\* handlers that were asked for one answer with an error.
Absent(c) ==
  CASE call[c].op = "render" -> Advance(c, [call[c] EXCEPT !.from = None])
    [] call[c].op = "load" -> Answered(c, "internal")
    [] OTHER -> Answered(c, "not_found")

\* Status() holds s.mu for reading while the instance answers.
StatusLock(c) ==
  /\ At(c, "status") /\ writer = None
  /\ readers' = readers \cup {c}
  /\ Goto(c, "reading")
  /\ UNCHANGED <<daemon, writer, modMu, past>>

\* The Status of the modules of the daemon never fails; that of a plugin can,
\* and nothing loads plugins.
Status(c) ==
  /\ At(c, "reading")
  /\ LET i == Loaded(Subject(c)) IN
     \/ /\ i = None
        /\ call' = [call EXCEPT ![c] = Absent(c)]
     \/ /\ i # None /\ modMu[i] = None
        /\ IF call[c].op = "load" THEN Answer(c, "ok")
           ELSE call' = [call EXCEPT ![c].from = i, ![c].pc = "module"]
  /\ readers' = readers \ {c}
  /\ UNCHANGED <<daemon, writer, modMu, past>>

\* Module(): the instance leaves the lock with the handler.
Module(c) ==
  /\ At(c, "module") /\ writer = None
  /\ LET i == Loaded(Subject(c)) IN
     \/ i = None /\ call' = [call EXCEPT ![c] = Absent(c)]
     \/ i # None /\ call' = [call EXCEPT ![c].inst = i,
                     ![c].pc = IF call[c].op \in Commands THEN "run" ELSE "health"]
  /\ UNCHANGED <<daemon, locks, past>>

\* Health() of that instance, which may have been stopped meanwhile: a probe of
\* the outside world or the result of the last one.
Health(c) ==
  /\ At(c, "health")
  /\ \E l \in Levels :
       LET k == [call[c] EXCEPT !.from = None, !.inst = None,
                   !.rows = IF call[c].gone THEN {} ELSE @ \cup
                      {[name |-> Subject(c), health |-> l, sameInstance |-> call[c].from = call[c].inst]}]
       IN call' = [call EXCEPT ![c] =
            IF k.op = "render" THEN Advance(c, k)
            ELSE [Answered(c, "ok") EXCEPT !.rows = k.rows]]
  /\ UNCHANGED <<daemon, locks, past>>

\* ListCommands: Module() of each name in turn; Commands() is a constant.
ListCommands(c) ==
  /\ At(c, "offers") /\ writer = None
  /\ call' = [call EXCEPT ![c] = Advance(c, call[c])]
  /\ UNCHANGED <<daemon, locks, past>>

\* Dispatch: squawk's forward commands take the instance's mutex, a query
\* takes none.
Run(c) ==
  /\ At(c, "run")
  /\ \/ /\ call[c].op = "query"
        /\ UNCHANGED modMu
     \/ /\ call[c].op # "query" /\ modMu[call[c].inst] = None
        /\ modMu' = [modMu EXCEPT ![call[c].inst] = c]
  /\ Goto(c, "executing")
  /\ UNCHANGED <<daemon, writer, readers, past>>

\* Slip: the command calls back into the supervisor.
ExecuteCallsBack(c) ==
  /\ At(c, "executing") /\ writer = None
  /\ modMu' = [modMu EXCEPT ![call[c].inst] = IF @ = c THEN None ELSE @]
  /\ \/ Answer(c, "ok")
     \/ Answer(c, "failed")
     \/ call[c].op = "query" /\ Answer(c, "internal")
  /\ UNCHANGED <<daemon, writer, readers, past>>

\* The command ends with exit code 0, with another exit code or with an error,
\* on whatever instance it was given: no command looks whether it still runs.
Execute(c) ==
  /\ At(c, "executing")
  /\ modMu' = [modMu EXCEPT ![call[c].inst] = IF @ = c THEN None ELSE @]
  /\ \/ Answer(c, "ok")
     \/ Answer(c, "failed")
     \/ call[c].op = "query" /\ Answer(c, "internal")
  /\ UNCHANGED <<daemon, writer, readers, past>>

-----------------------------------------------------------------------------
Handler(c) ==
  \/ Load(c) \/ Unload(c) \/ List(c) \/ Status(c) \/ Module(c)
  \/ Health(c) \/ ListCommands(c) \/ Execute(c)

Acquire(c) == Lock(c) \/ StatusLock(c) \/ Run(c)

Next ==
  \/ \E q \in Requests, allowed \in BOOLEAN : Call(q[1], q[2], q[3], allowed)
  \/ Render
  \/ \E c \in Callers :
       \/ BuildRoot(c) \/ GiveUp(c) \/ Return(c)
       \/ Handler(c) \/ Acquire(c)

Spec == Init /\ [][Next]_vars

-----------------------------------------------------------------------------
(* What the tray shows: Snapshot, parseHealth and worstHealth. *)

Rank == [healthy |-> 0, unknown |-> 1, degraded |-> 2, unhealthy |-> 3]

\* A module in the list without a row in the status report is unknown.
ItemHealth(k, n) ==
  IF \E r \in k.rows : r.name = n
  THEN (CHOOSE r \in k.rows : r.name = n).health
  ELSE "unknown"

\* The worst health of the modules shown as loaded.
Overall(k) ==
  CHOOSE h \in DOMAIN Rank :
    /\ h = "healthy" \/ \E n \in k.list : ItemHealth(k, n) = h
    /\ \A n \in k.list : Rank[ItemHealth(k, n)] <= Rank[h]

-----------------------------------------------------------------------------
(* Properties. *)

\* Neither loaded nor unloaded by anyone since the call began.
Untouched(c) == Registered \ (past[c].present \cap past[c].absent)

(* Every answer of LoadModule, UnloadModule, GetStatus and Dispatch is true of *)
(* some moment between the call and the answer, though each handler lets go of *)
(* the supervisor's lock between its steps: loaded means it was loaded, an     *)
(* internal error of a load means that somebody unloaded the module meanwhile, *)
(* a command that does not find its module lost it after the command line had  *)
(* built the command.                                                          *)
AnswersAreTrue ==
  \A c \in Callers : At(c, "done") =>
    LET n == call[c].name
        op == call[c].op
        code == call[c].code
        present == n \in past[c].present
        absent == n \in past[c].absent \/ n = Stranger
    IN /\ op \in {"load", "status"} /\ ExitsZero(c) => present
       /\ op = "load" /\ code = "internal" => present /\ absent
       /\ op = "load" /\ code = "not_found" => n = Stranger
       /\ op = "load" /\ code = "denied" => absent /\ n # Stranger
       /\ op = "unload" /\ ExitsZero(c) => absent
       /\ op = "status" /\ code = "not_found" => absent
       /\ op \in Commands /\ code \in {"ok", "failed", "internal"} => present
       /\ op \in Commands /\ ~ExitsZero(c) => code = "no_command" \/ present
       /\ op \in Commands /\ code = "not_found" => present /\ absent

(* The snapshot that the tray puts together from ListModules, GetStatus and    *)
(* ListCommands is exact for every module that nobody loaded or unloaded while *)
(* it was built: listed as loaded and with one row, whose state and health are *)
(* of the same instance, exactly if it was loaded.  The tray says that the     *)
(* agent is healthy only if it has probed all of these and found them so.      *)
QuietSnapshotIsExact ==
  \A c \in Callers : At(c, "done") /\ call[c].op = "render" /\ call[c].code = "ok" =>
    \A n \in Untouched(c) :
      LET rows == {r \in call[c].rows : r.name = n}
          loaded == n \in past[c].present
      IN /\ loaded = (n \in call[c].list)
         /\ Cardinality(rows) = IF loaded THEN 1 ELSE 0
         /\ \A r \in rows : r.sameInstance
         /\ loaded /\ Overall(call[c]) = "healthy" => \A r \in rows : r.health = "healthy"

(* Dispatch keeps the instance after it has let go of the lock; a command for  *)
(* a module that nobody loads or unloads runs on the instance that is loaded   *)
(* and started.                                                                *)
CommandReachesItsModule ==
  \A c \in Callers :
    call[c].pc \in {"run", "executing"} /\ ~call[c].gone /\ call[c].name \in Untouched(c) =>
      call[c].inst = entry[call[c].name] /\ call[c].inst \in running

(* The daemon never stops answering: while calls are in progress, one of them  *)
(* can go on.  Unloads that wait for a command within s.mu, status readers     *)
(* that wait for the module while they hold s.mu, and the loads behind them    *)
(* never end up waiting for each other.                                        *)
SomeCallProceeds ==
  (\E c \in Callers : call[c].pc \notin {"idle", "done"}) =>
    \E c \in Callers : ENABLED (BuildRoot(c) \/ Handler(c) \/ Acquire(c))
-----------------------------------------------------------------------------
(* What the callers see, as AtomicCalls states it. *)

\* The handler has found its module, or loaded it, and has not answered yet.
Decided(k) ==
  \/ k.pc \in {"health", "run", "executing"}
  \/ k.op = "load" /\ k.pc \in {"status", "reading"}

\* A call as a job; a rendering only reads and is none.
JobOf(k) ==
  IF k.op \in Asks
  THEN [op |-> IF k.op \in Commands THEN "command" ELSE k.op, name |-> k.name,
        state |-> IF k.pc = "done" THEN k.code ELSE IF Decided(k) THEN "present" ELSE "asked",
        gone |-> k.gone]
  ELSE [op |-> "none", name |-> Stranger, state |-> "none", gone |-> FALSE]

LoadedNames == {n \in Registered : entry[n] # None}
Jobs == [c \in Callers |-> JobOf(call[c])]

Atomic == INSTANCE AtomicCalls WITH loaded <- LoadedNames, job <- Jobs

(* Load, unload, status and a module's commands look as if each took effect at *)
(* one moment between the call and the answer, and nothing else changed what   *)
(* is loaded: a load that is denied leaves nothing behind, one that is told of *)
(* an internal error had lost its module, an unload that answers has removed   *)
(* it, and a caller that gave up does not undo or repeat what its call does.   *)
(* The handlers let go of the supervisor's mutex between their steps, and wait *)
(* for each other and for the modules' mutexes within them.                    *)
CallsLookAtomic == Atomic!Spec
=============================================================================
