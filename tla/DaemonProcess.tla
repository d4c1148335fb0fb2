--------------------------- MODULE DaemonProcess ---------------------------
(***************************************************************************)
(* The penguind process from exec to exit: initDaemon (lock, secrets,      *)
(* listener, enabled modules), the serve loop, Stop, and death without     *)
(* Stop.  Several processes may be started on one machine; two of them     *)
(* share a state directory (and so the lock file) or a socket path when    *)
(* their command lines and configuration say so.                           *)
(*                                                                         *)
(* The modules are reduced to one fact: whether a process has changed the  *)
(* system (resolver, tunnel) and not restored it.  A client is one RPC at  *)
(* a time: a loader's call returns by itself or hangs, a watcher's ends    *)
(* only when the client hangs up.  A module's Stop may fail, which is only *)
(* logged, or hang, for it waits for requests that have no deadline.       *)
(***************************************************************************)
EXTENDS Naturals, FiniteSets

CONSTANTS
  Processes,    \* incarnations of penguind that may be started
  Loaders,      \* clients that call LoadModule
  Watchers,     \* clients that hold a WatchEvents stream
  StateDir,     \* [Processes -> state directories]: where the lock lives
  Path,         \* [Processes -> Paths]: the socket bound (-socket or config)
  ConfigPath,   \* [Processes -> Paths]: the socket path of the config file
  Terminals,    \* the processes run from a terminal; a service manager runs
                \* the others
  NoOne

Clients == Loaders \cup Watchers
Paths == {Path[p] : p \in Processes} \cup {ConfigPath[p] : p \in Processes}
Dirs == {StateDir[p] : p \in Processes}

ASSUME ProcessAssumption == NoOne \notin Processes

VARIABLES
  pc,       \* where each process is
  flock,    \* the process whose descriptor holds the lock file of a directory
  file,     \* the process whose listener a socket path leads to
  calls,    \* the clients with an RPC in flight at a process
  changed,  \* the processes whose modules changed the system and did not
            \* restore it (in the current or last incarnation)
  hung,     \* the clients whose call never returns
  failed,   \* ghost: processes one of whose modules failed to restore the
            \* system when it was stopped (current or last incarnation)
  lost      \* ghost: processes whose lock file was closed under them

vars == <<pc, flock, file, calls, changed, hung, failed, lost>>

(***************************************************************************)
(* "off" is a process not started or ended by Stop, "exited" one that      *)
(* could not boot, "aborted" one whose serve loop failed in a terminal,    *)
(* "dead" one that was killed, "zombie" one that is alive although its     *)
(* serve loop ended, "hanging" one that waits for a module's Stop for ever.*)
(***************************************************************************)
Ended == {"off", "exited", "aborted", "dead"}
Booting == {"locked", "opened", "listening", "booted"}
Up == {"serving", "zombie", "draining", "drained", "hanging", "stopped"}
Running == Booting \cup Up

TypeOK ==
  /\ pc \in [Processes -> Ended \cup Running]
  /\ flock \in [Dirs -> Processes \cup {NoOne}]
  /\ file \in [Paths -> Processes \cup {NoOne}]
  /\ calls \in [Processes -> SUBSET Clients]
  /\ hung \in SUBSET Loaders
  /\ changed \in SUBSET Processes
  /\ failed \in SUBSET Processes /\ lost \in SUBSET Processes

Init ==
  /\ pc = [p \in Processes |-> "off"]
  /\ flock = [d \in Dirs |-> NoOne]
  /\ file = [f \in Paths |-> NoOne]
  /\ calls = [p \in Processes |-> {}]
  /\ changed = {} /\ hung = {} /\ failed = {} /\ lost = {}

Go(p, to) == pc' = [pc EXCEPT ![p] = to]

Released(p) == [flock EXCEPT ![StateDir[p]] = IF @ = p THEN NoOne ELSE @]

(***************************************************************************)
(* initDaemon.  A failed step releases what the earlier ones took and the  *)
(* process ends with an error.  A process that finds the lock held ends at *)
(* once, which changes nothing, so it is not a step.                       *)
(***************************************************************************)
\* Mutant: the flock is blocking-free but its error is ignored.
AcquireLockUnchecked(p) ==
  /\ pc[p] \in Ended
  /\ flock' = [flock EXCEPT ![StateDir[p]] = p]
  /\ Go(p, "locked")
  /\ changed' = changed \ {p} /\ failed' = failed \ {p}
  /\ UNCHANGED <<file, calls, hung, lost>>

AcquireLock(p) ==
  /\ pc[p] \in Ended
  /\ flock[StateDir[p]] = NoOne
  /\ flock' = [flock EXCEPT ![StateDir[p]] = p]
  /\ Go(p, "locked")
  /\ changed' = changed \ {p} /\ failed' = failed \ {p}
  /\ UNCHANGED <<file, calls, hung, lost>>

OpenSecrets(p) ==
  /\ pc[p] = "locked"
  /\ \/ Go(p, "opened") /\ UNCHANGED flock
     \/ Go(p, "exited") /\ flock' = Released(p)
  /\ UNCHANGED <<file, calls, changed, hung, failed, lost>>

\* The stale socket at the path is removed, whoever owns it, before the bind;
\* a failure after the removal leaves the path empty.
Listen(p) ==
  /\ pc[p] = "opened"
  /\ \/ /\ Go(p, "listening")
        /\ file' = [file EXCEPT ![Path[p]] = p]
        /\ UNCHANGED flock
     \/ /\ Go(p, "exited")
        /\ file' \in {file, [file EXCEPT ![Path[p]] = NoOne]}
        /\ flock' = Released(p)
  /\ UNCHANGED <<calls, changed, hung, failed, lost>>

\* No module or several may be enabled, and their failures are only logged.
StartEnabled(p) ==
  /\ pc[p] = "listening"
  /\ Go(p, "booted")
  /\ changed' \in {changed, changed \cup {p}}
  /\ UNCHANGED <<flock, file, calls, hung, failed, lost>>

Serve(p) ==
  /\ pc[p] = "booted"
  /\ Go(p, "serving")
  /\ UNCHANGED <<flock, file, calls, changed, hung, failed, lost>>

(***************************************************************************)
(* The release function, and with it the open lock file, is unreachable    *)
(* once the listener exists: its finaliser closes the descriptor, which    *)
(* gives the lock up.                                                      *)
(***************************************************************************)
Collect(p) ==
  /\ pc[p] \in {"listening", "booted"} \cup Up
  /\ flock[StateDir[p]] = p
  /\ flock' = Released(p)
  /\ lost' = lost \cup {p}
  /\ UNCHANGED <<pc, file, calls, changed, hung, failed>>

(***************************************************************************)
(* Clients.  A handler may have changed the system when it returns, and    *)
(* also when it hangs.                                                     *)
(***************************************************************************)
\* Mutant: calls are still taken in on open connections during the drain.
ConnectWhileDraining(c, p) ==
  /\ pc[p] \in {"serving", "draining"}
  /\ \A q \in Processes : c \notin calls[q]
  /\ calls' = [calls EXCEPT ![p] = @ \cup {c}]
  /\ UNCHANGED <<pc, flock, file, changed, hung, failed, lost>>

Connect(c, p) ==
  /\ pc[p] = "serving"
  /\ file[Path[p]] = p
  /\ \A q \in Processes : c \notin calls[q]
  /\ calls' = [calls EXCEPT ![p] = @ \cup {c}]
  /\ UNCHANGED <<pc, flock, file, changed, hung, failed, lost>>

CallReturns(c, p) ==
  /\ c \in (calls[p] \cap Loaders) \ hung
  /\ calls' = [calls EXCEPT ![p] = @ \ {c}]
  /\ changed' \in {changed, changed \cup {p}}
  /\ UNCHANGED <<pc, flock, file, hung, failed, lost>>

CallHangs(c, p) ==
  /\ c \in (calls[p] \cap Loaders) \ hung
  /\ hung' = hung \cup {c}
  /\ changed' \in {changed, changed \cup {p}}
  /\ UNCHANGED <<pc, flock, file, calls, failed, lost>>

HangUp(c, p) ==
  /\ c \in calls[p] \cap Watchers
  /\ calls' = [calls EXCEPT ![p] = @ \ {c}]
  /\ UNCHANGED <<pc, flock, file, changed, hung, failed, lost>>

\* The end of a process ends its calls, those that hang included.
CallsEnd(p) ==
  /\ calls' = [calls EXCEPT ![p] = {}]
  /\ hung' = hung \ calls[p]

(***************************************************************************)
(* The accept loop fails.  A terminal session returns from main without    *)
(* Stop; a service only logs it and stays.                                 *)
(***************************************************************************)
ServeFails(p) ==
  /\ pc[p] = "serving"
  /\ file' = [file EXCEPT ![Path[p]] = NoOne]
  /\ \/ /\ p \in Terminals
        /\ Go(p, "aborted")
        /\ flock' = Released(p)
        /\ CallsEnd(p)
     \/ /\ p \notin Terminals
        /\ Go(p, "zombie")
        /\ UNCHANGED <<flock, calls, hung>>
  /\ UNCHANGED <<changed, failed, lost>>

(***************************************************************************)
(* Stop.  GracefulStop closes the listener, which unlinks the bound path,  *)
(* and waits for the calls in flight; then the modules are stopped, and    *)
(* last the socket path of the configuration is removed and the process    *)
(* ends, which releases its lock.                                          *)
(***************************************************************************)
Signal(p) ==
  /\ pc[p] \in {"serving", "zombie"}
  /\ Go(p, "draining")
  /\ file' = [file EXCEPT ![Path[p]] = NoOne]
  /\ UNCHANGED <<flock, calls, changed, hung, failed, lost>>

\* Mutant: Stop does not wait for the calls in flight.
DrainedAtOnce(p) ==
  /\ pc[p] = "draining"
  /\ Go(p, "drained")
  /\ UNCHANGED <<flock, file, calls, changed, hung, failed, lost>>

Drained(p) ==
  /\ pc[p] = "draining"
  /\ calls[p] = {}
  /\ Go(p, "drained")
  /\ UNCHANGED <<flock, file, calls, changed, hung, failed, lost>>

\* Shutdown asks every module to stop and Stop goes on whatever they answer: a
\* module that could not put the resolver back leaves the system changed.
ModulesStopped(p) ==
  /\ pc[p] = "drained"
  /\ Go(p, "stopped")
  /\ \/ changed' = changed \ {p} /\ UNCHANGED failed
     \/ p \in changed /\ failed' = failed \cup {p} /\ UNCHANGED changed

\* Mutant: the lock is released before the socket is removed.
StopModulesUnlocks(p) ==
  /\ ModulesStopped(p)
  /\ flock' = Released(p)
  /\ UNCHANGED <<file, calls, hung, lost>>

StopModules(p) ==
  /\ ModulesStopped(p)
  /\ UNCHANGED <<flock, file, calls, hung, lost>>

\* A module's Stop waits for a request or a goroutine that never ends.
StopHangs(p) ==
  /\ pc[p] = "drained"
  /\ Go(p, "hanging")
  /\ UNCHANGED <<flock, file, calls, changed, hung, failed, lost>>

RemoveSocket(p) ==
  /\ pc[p] = "stopped"
  /\ Go(p, "off")
  /\ file' = [file EXCEPT ![ConfigPath[p]] = NoOne]
  /\ flock' = Released(p)
  /\ CallsEnd(p)
  /\ UNCHANGED <<changed, failed, lost>>

(***************************************************************************)
(* SIGKILL, a panic, or a signal before main has installed its handler,    *)
(* which is after the enabled modules were started.                        *)
(***************************************************************************)
Kill(p) ==
  /\ pc[p] \in Running
  /\ Go(p, "dead")
  /\ flock' = Released(p)
  /\ CallsEnd(p)
  /\ UNCHANGED <<file, changed, failed, lost>>

Step(p) ==
  \/ AcquireLock(p) \/ OpenSecrets(p) \/ Listen(p) \/ StartEnabled(p)
  \/ Serve(p) \/ Collect(p) \/ ServeFails(p) \/ Signal(p) \/ Drained(p)
  \/ StopModules(p) \/ StopHangs(p) \/ RemoveSocket(p) \/ Kill(p)

Next ==
  \/ \E p \in Processes : Step(p)
  \/ \E p \in Processes, c \in Clients :
       Connect(c, p) \/ CallReturns(c, p) \/ CallHangs(c, p) \/ HangUp(c, p)

Spec == Init /\ [][Next]_vars

(***************************************************************************)
(* Fairness.  The main goroutine goes on through boot and Stop.  A handler *)
(* and a module's Stop return or hang, whichever: that either happens is   *)
(* all that is assumed.  Nobody has to start, signal or kill a process, a  *)
(* client need not call, and a watcher need not hang up.                   *)
(***************************************************************************)
Fairness ==
  /\ \A p \in Processes :
       /\ WF_vars(OpenSecrets(p)) /\ WF_vars(Listen(p))
       /\ WF_vars(StartEnabled(p)) /\ WF_vars(Serve(p))
       /\ WF_vars(Drained(p)) /\ WF_vars(StopModules(p) \/ StopHangs(p))
       /\ WF_vars(RemoveSocket(p))
  /\ \A p \in Processes, c \in Loaders :
       WF_vars(CallReturns(c, p) \/ CallHangs(c, p))

FairSpec == Spec /\ Fairness
-----------------------------------------------------------------------------
(***************************************************************************)
(* Properties.                                                             *)
(***************************************************************************)

\* Two processes whose lock files stay open never run on one state directory
\* at the same time, whichever of them dies, fails to boot or is restarted.
SingleDaemon ==
  \A p, q \in Processes \ lost :
    pc[p] \in Running /\ pc[q] \in Running /\ StateDir[p] = StateDir[q] => p = q

\* "Single-instance guard": no two processes run on one state directory.
SingleInstance ==
  \A p, q \in Processes :
    pc[p] \in Running /\ pc[q] \in Running /\ StateDir[p] = StateDir[q] => p = q

\* As long as the locks work, the socket a serving daemon is configured with
\* leads to it: no other daemon's Listen or Stop takes the path away.
SocketReachable ==
  lost = {} => \A p \in Processes : pc[p] = "serving" => file[Path[p]] = p

\* "Resolver/tunnel changes must restore on module Stop AND daemon shutdown":
\* a daemon that was stopped or failed to boot leaves nothing changed, also
\* when calls were still loading modules as the signal came, unless a module
\* that was told to stop failed to restore: that error is only logged.
ExitRestores ==
  \A p \in Processes \ failed : pc[p] \in {"off", "exited"} => p \notin changed

\* A stop request is carried out once no watcher's stream is left: the calls
\* in flight end, no new one is let in, and the daemon is gone, unless a
\* handler or a module's Stop hangs, which GracefulStop and Stop wait for
\* without a deadline.
StopCompletes ==
  \A p \in Processes :
    pc[p] = "draining" /\ calls[p] \cap Watchers = {} ~>
      pc[p] \in Ended \cup {"hanging"} \/ calls[p] \cap hung # {}

(***************************************************************************)
(* The inductive invariants behind the safety properties.                  *)
(***************************************************************************)

\* A running process holds the lock of its state directory, unless its
\* descriptor was collected.
LockHeld ==
  \A p \in Processes \ lost : pc[p] \in Running => flock[StateDir[p]] = p

\* From its bind until it is told to stop, a process owns its socket path.
SocketOwned ==
  lost = {} => \A p \in Processes :
    pc[p] \in {"listening", "booted", "serving"} => file[Path[p]] = p

\* No call is in flight outside the serving phases, and nothing is changed
\* before the modules start or after they were stopped without a failure.
Restored ==
  \A p \in Processes :
    /\ pc[p] \notin {"serving", "zombie", "draining"} => calls[p] = {}
    /\ pc[p] \in {"off", "exited", "locked", "opened", "listening", "stopped"}
         => p \notin changed \/ p \in failed

\* Daemons that may touch one socket path share the state directory.
PathsGuarded ==
  \A p, q \in Processes :
    Path[p] = Path[q] \/ Path[p] = ConfigPath[q] => StateDir[p] = StateDir[q]
=============================================================================
