--------------------------- MODULE ExternalPlugin ---------------------------
(***************************************************************************)
(* A module in a process of its own: how internal/extplugin verifies and   *)
(* starts the files of a plugin directory while an installer may replace   *)
(* them one by one, and how the adapter of client.go carries the           *)
(* supervisor's calls to the server of pkg/sdk/serve.go while the process  *)
(* may die, a caller may give up, and the daemon may die.                  *)
(*                                                                         *)
(* A release is a manifest, a binary and a signature that belong together. *)
(* The go-plugin library, minisign and the module itself are external.  An *)
(* error is whether there is one: no module returns one with an empty      *)
(* text, which the wire would turn into a success.                         *)
(***************************************************************************)
EXTENDS Integers

CONSTANTS
  Releases,    \* numbers of releases; 0 is a missing or half-written file
  Trusted,     \* the releases signed with a key the verifier knows
  Values,      \* exit codes, health levels: integers of the module's width
  Limit,       \* integers on the wire are below it (2^31 in the code)
  MaxWrites,   \* bound: changes to the plugin directory
  MaxProcs     \* bound: plugin processes that are started

ASSUME PluginAssumption ==
  /\ Releases \subseteq Nat \ {0} /\ Trusted \subseteq Releases
  /\ 1 \in Releases
  /\ Values \subseteq Int /\ 0 \in Values
  /\ Limit \in Nat \ {0, 1, 2}
  /\ MaxWrites \in Nat /\ MaxProcs \in Nat

VARIABLES
  dir,       \* the release each file of the plugin directory comes from
  open,      \* what is world-writable: the directory, the binary
  loader,    \* LoadWithVerifier or Discover, as far as it has come
  proc,      \* the plugin processes
  view,      \* how far the supervisor is with its instance
  wrapper,   \* the process behind that instance
  passed,    \* ghost: the processes whose feature the license client had enabled
  blind,     \* ghost: the live processes whose Info failed
  life,      \* the call of Info, Start or Stop under way
  ask,       \* the call of Health, Status, Dispatch or Commands under way
  late,      \* a Stop whose caller gave up before it was served
  cut,       \* ghost: a live process was dropped by a Start or a Stop that failed,
             \* or by a Stop that was given up, or the daemon died
  writes

files == <<dir, open, writes>>
rpc == <<life, ask, late>>
gate == <<passed, blind>>
sup == <<view, wrapper, gate, cut>>
vars == <<files, loader, proc, sup, rpc>>

Procs == 1..MaxProcs
Versions == Releases \cup {0}

NoLoad == [pc |-> "idle", goal |-> "none", manifest |-> 0, signature |-> 0, quiet |-> TRUE]
Begun(goal) ==
  [pc |-> "manifest", goal |-> goal, manifest |-> 0, signature |-> 0, quiet |-> TRUE]

\* manifest and quiet are ghosts: what the loader had read, and whether the
\* directory stayed as it was from the first read to the start.
Unborn == [at |-> "unborn", release |-> 0, started |-> FALSE, manifest |-> 0, quiet |-> TRUE]
Gone == [at |-> "gone", release |-> 0, started |-> FALSE, manifest |-> 0, quiet |-> TRUE]

\* What a method of the module returns, and what an adapter method gives.
\* A Dispatch may return neither an error nor a result.
Ok(v) == [err |-> FALSE, value |-> v]
Err == [err |-> TRUE, value |-> 0]
NoResult == [err |-> FALSE, value |-> 0, result |-> "nil"]
Outcomes == [err : BOOLEAN, value : Int] \cup {NoResult}
Unhealthy == 2

\* said is what the module returned, heard what the caller is given.
NoCall == [op |-> "none", to |-> 0, pc |-> "idle", said |-> Err, heard |-> Err]
Now(call, pc, said, heard) ==
  [op |-> call.op, to |-> call.to, pc |-> pc, said |-> said, heard |-> heard]
LifeOps == {"info", "start", "stop"}
AskOps == {"health", "status", "dispatch", "commands"}

CallType(ops) ==
  [op : ops \cup {"none"}, to : Procs \cup {0},
   pc : {"idle", "sent", "served", "returned", "failed"}, said : Outcomes, heard : Outcomes]

TypeOK ==
  /\ dir \in [manifest : Versions, binary : Versions, signature : Versions]
  /\ open \in SUBSET {"dir", "binary"}
  /\ loader \in [pc : {"idle", "manifest", "dir", "file", "sha256", "signature",
                       "verify", "listed", "exec", "dispense"},
                 goal : {"none", "load", "list"},
                 manifest : Versions, signature : Versions, quiet : BOOLEAN]
  /\ proc \in [Procs -> [at : {"unborn", "alive", "gone"}, release : Versions,
                         started : BOOLEAN, manifest : Versions, quiet : BOOLEAN]]
  /\ view \in {"none", "loading", "loaded", "gated", "starting", "running", "stopping"}
  /\ wrapper \in Procs \cup {0}
  /\ passed \in SUBSET Procs /\ blind \in SUBSET Procs
  /\ life \in CallType(LifeOps)
  /\ ask \in CallType(AskOps)
  /\ late \in Procs \cup {0}
  /\ cut \in BOOLEAN
  /\ writes \in 0..MaxWrites

Init ==
  /\ dir = [manifest |-> 1, binary |-> 1, signature |-> 1]
  /\ open = {}
  /\ loader = NoLoad
  /\ proc = [p \in Procs |-> Unborn]
  /\ view = "none" /\ wrapper = 0
  /\ passed = {} /\ blind = {}
  /\ life = NoCall /\ ask = NoCall
  /\ late = 0 /\ cut = FALSE /\ writes = 0
-----------------------------------------------------------------------------
(***************************************************************************)
(* The plugin directory.                                                   *)
(***************************************************************************)
Touched == loader' = [loader EXCEPT !.quiet = loader.quiet /\ loader.pc = "idle"]

\* Only a loader reads the files: bounding changes to the time in which no
\* module is loaded and no question is under way leaves none of its reads out.
MayChange == writes < MaxWrites /\ view \in {"none", "loading"} /\ ask = NoCall

\* An installer or an upgrade replaces one file, or is in the middle of it.
Replace(v) ==
  /\ MayChange
  /\ writes' = writes + 1
  /\ \/ dir' = [dir EXCEPT !.manifest = v]
     \/ dir' = [dir EXCEPT !.binary = v]
     \/ dir' = [dir EXCEPT !.signature = v]
  /\ dir' # dir
  /\ Touched
  /\ UNCHANGED <<open, proc, sup, rpc>>

Chmod(part) ==
  /\ MayChange
  /\ writes' = writes + 1
  /\ open' = IF part \in open THEN open \ {part} ELSE open \cup {part}
  /\ Touched
  /\ UNCHANGED <<dir, proc, sup, rpc>>
-----------------------------------------------------------------------------
(***************************************************************************)
(* LoadWithVerifier and Discover: the manifest, then the four checks of    *)
(* Verify, each of which looks at the files anew.                          *)
(***************************************************************************)
\* The loader goes on to pc, with what it has read in this step.
To(pc, manifest, signature) ==
  [pc |-> pc, goal |-> loader.goal, manifest |-> manifest, signature |-> signature,
   quiet |-> loader.quiet]
On(pc) == To(pc, loader.manifest, loader.signature)

\* A step of the loader: on if the check holds, else the load fails, or the
\* entry is left out of the list.  The supervisor drops what it began.
Checked(holds, next) ==
  /\ loader' = IF holds THEN next ELSE NoLoad
  /\ view' = IF ~holds /\ loader.goal = "load" THEN "none" ELSE view
  /\ UNCHANGED <<files, proc, wrapper, gate, cut, rpc>>

\* The supervisor's factory: the module is not loaded.
Load ==
  /\ loader.pc = "idle" /\ view = "none"
  /\ loader' = Begun("load")
  /\ view' = "loading"
  /\ UNCHANGED <<files, proc, wrapper, gate, cut, rpc>>

\* Discover leaves out a world-writable directory before it reads anything.
\* It shares nothing with a loaded module, so it is only run without one and
\* without a question under way.
Discover ==
  /\ loader.pc = "idle" /\ view = "none" /\ ask = NoCall
  /\ "dir" \notin open
  /\ loader' = Begun("list")
  /\ UNCHANGED <<files, proc, sup, rpc>>

LoadManifest ==
  /\ loader.pc = "manifest"
  /\ Checked(dir.manifest # 0, To("dir", dir.manifest, 0))

\* Both ownership checks come down to the mode: the type of Sys() has no
\* method Uid on Unix, so the owner is never compared.
verifyDirOwnership ==
  /\ loader.pc = "dir"
  /\ Checked("dir" \notin open, On("file"))

verifyFileOwnership ==
  /\ loader.pc = "file"
  /\ Checked(dir.binary # 0 /\ "binary" \notin open, On("sha256"))

\* Mutant: the hash is not compared.
verifySHA256Unchecked ==
  /\ loader.pc = "sha256"
  /\ Checked(dir.binary # 0, On("signature"))

verifySHA256 ==
  /\ loader.pc = "sha256"
  /\ Checked(dir.binary = loader.manifest, On("signature"))

\* verifySignature reads the signature, then the binary again.
ReadSignature ==
  /\ loader.pc = "signature"
  /\ Checked(dir.signature # 0, To("verify", loader.manifest, dir.signature))

verifySignature ==
  /\ loader.pc = "verify"
  /\ LET holds == dir.binary # 0 /\ loader.signature = dir.binary /\ dir.binary \in Trusted IN
     Checked(holds, On(IF loader.goal = "list" THEN "listed" ELSE "exec"))

DiscoverReturns ==
  /\ loader.pc = "listed"
  /\ loader' = NoLoad
  /\ UNCHANGED <<files, proc, sup, rpc>>
-----------------------------------------------------------------------------
(***************************************************************************)
(* The process: plugin.NewClient, Client and Dispense.                     *)
(***************************************************************************)
NextProc == {p \in Procs : proc[p].at = "unborn" /\ \A q \in 1..(p - 1) : proc[q].at # "unborn"}

Started ==
  [at |-> "alive", release |-> dir.binary, started |-> FALSE,
   manifest |-> loader.manifest, quiet |-> loader.quiet]

\* Client starts what the path holds now and completes the handshake.
Connect(p) ==
  /\ loader.pc = "exec" /\ dir.binary # 0 /\ p \in NextProc
  /\ proc' = [proc EXCEPT ![p] = Started]
  /\ wrapper' = p
  /\ loader' = On("dispense")
  /\ UNCHANGED <<files, view, gate, cut, rpc>>

\* An error of Client is returned without a Kill: what was started may live.
ConnectFails(p, lives) ==
  /\ loader.pc = "exec" /\ p \in NextProc
  /\ proc' = IF dir.binary = 0 THEN proc
             ELSE [proc EXCEPT ![p] = IF lives THEN Started ELSE Gone]
  /\ loader' = NoLoad
  /\ view' = "none"
  /\ UNCHANGED <<files, wrapper, gate, cut, rpc>>

\* GRPCClient serves the host services to the process and returns the adapter.
Dispense ==
  /\ loader.pc = "dispense"
  /\ loader' = NoLoad
  /\ view' = "loaded"
  /\ UNCHANGED <<files, proc, wrapper, gate, cut, rpc>>

DispenseFails ==
  /\ loader.pc = "dispense"
  /\ loader' = NoLoad
  /\ proc' = [proc EXCEPT ![wrapper] = Gone]
  /\ view' = "none" /\ wrapper' = 0
  /\ UNCHANGED <<files, gate, cut, rpc>>
-----------------------------------------------------------------------------
(***************************************************************************)
(* The server in the plugin process.                                       *)
(***************************************************************************)
\* Mutant: the conversion wraps around.
clampInt32Wraps(v) ==
  ((v + Limit) % (2 * Limit)) - Limit

clampInt32(v) ==
  IF v > Limit - 1 THEN Limit - 1 ELSE IF v < -Limit THEN -Limit ELSE v

\* ModuleServiceImpl, for a call with a result: the response has the error's
\* text and the result, and the adapter drops the result when there is one.
\* Without a result the exit code of the response stays 0.
Response(said) == IF said.err THEN Err ELSE Ok(clampInt32(said.value))

Alive(p) == p # 0 /\ proc[p].at = "alive"

\* What the module may return: Info, Health and Commands return no error.
Sayings == {Err, NoResult} \cup {Ok(v) : v \in Values}
MaySay(op, said) ==
  /\ said = NoResult => op = "dispatch"
  /\ op \in {"info", "health", "commands"} => ~said.err
  /\ op \in {"info", "start", "stop", "status"} => said.value = 0

\* Start and Stop of the module; one that fails changes nothing.
Runs(p, op, said) ==
  IF op \in {"start", "stop"} /\ ~said.err
  THEN [proc EXCEPT ![p].started = (op = "start")] ELSE proc

ServeLife(said) ==
  /\ life.pc = "sent" /\ Alive(life.to) /\ MaySay(life.op, said)
  /\ life' = Now(life, "served", said, Err)
  /\ proc' = Runs(life.to, life.op, said)
  /\ UNCHANGED <<files, loader, sup, ask, late>>

ServeAsk(said) ==
  /\ ask.pc = "sent" /\ Alive(ask.to) /\ MaySay(ask.op, said)
  /\ ask' = Now(ask, "served", said, Err)
  /\ UNCHANGED <<files, loader, proc, sup, life, late>>

\* A request whose caller gave up may be served all the same.
ServeLate ==
  /\ late # 0 /\ Alive(late)
  /\ late' = 0
  /\ proc' = [proc EXCEPT ![late].started = FALSE]
  /\ UNCHANGED <<files, loader, sup, life, ask>>
-----------------------------------------------------------------------------
(***************************************************************************)
(* The adapter, as the supervisor uses a module: Info and the license      *)
(* check, Init, Start, later Stop.  Init of the adapter does nothing.  An  *)
(* instance that is dropped is not killed (moduleWrapper).                 *)
(***************************************************************************)
Send(op) == [op |-> op, to |-> wrapper, pc |-> "sent", said |-> Err, heard |-> Err]

Call(op, from, to) ==
  /\ view = from /\ life = NoCall
  /\ life' = Send(op)
  /\ view' = to
  /\ UNCHANGED <<files, loader, proc, wrapper, gate, cut, ask, late>>

Info == Call("info", "loaded", "loaded")

InitAndStart == Call("start", "gated", "starting")

\* Mutant: the instance is dropped and the process is not told.
StopUnsent ==
  /\ view = "running" /\ life = NoCall
  /\ view' = "none" /\ wrapper' = 0
  /\ UNCHANGED <<files, loader, proc, gate, cut, rpc>>

Stop == Call("stop", "running", "stopping")

\* The call returned; the supervisor keeps the instance or drops it.
Over(keep, next) ==
  /\ life' = NoCall
  /\ view' = IF keep THEN next ELSE "none"
  /\ wrapper' = IF keep THEN wrapper ELSE 0
  /\ UNCHANGED <<files, loader, proc, ask>>

\* Mutant: the answer of the license client is not looked at.
InfoReturnsAnyway(licensed) ==
  /\ life.op = "info" /\ life.pc = "served" /\ Alive(life.to)
  /\ Over(TRUE, "gated")
  /\ passed' = IF licensed THEN passed \cup {wrapper} ELSE passed
  /\ UNCHANGED <<blind, late, cut>>

\* licensed: whether the license client enables the module's feature.
InfoReturns(licensed) ==
  /\ life.op = "info" /\ life.pc = "served" /\ Alive(life.to)
  /\ Over(licensed, "gated")
  /\ passed' = IF licensed THEN passed \cup {wrapper} ELSE passed
  /\ UNCHANGED <<blind, late, cut>>

\* Any error of the call, whether or not the process is gone, gives an empty
\* ModuleInfo, which asks for no license feature.
InfoFails ==
  /\ life.op = "info"
  /\ Over(TRUE, "gated")
  /\ blind' = IF Alive(life.to) THEN blind \cup {wrapper} ELSE blind
  /\ UNCHANGED <<passed, late, cut>>

\* Mutant: the error in the response is not looked at.
StartReturnsUnchecked ==
  /\ life.op = "start" /\ life.pc = "served" /\ Alive(life.to)
  /\ Over(TRUE, "running")
  /\ UNCHANGED <<gate, late, cut>>

StartReturns ==
  /\ life.op = "start" /\ life.pc = "served" /\ Alive(life.to)
  /\ Over(~Response(life.said).err, "running")
  /\ UNCHANGED <<gate, late, cut>>

\* The call fails with its process or, although that lives, on the way: the
\* module may have started, and is dropped.  A request that is served after its
\* call has failed makes no difference to a process nobody asks any more.
StartFails ==
  /\ life.op = "start"
  /\ Over(FALSE, "none")
  /\ cut' = (cut \/ Alive(life.to))
  /\ UNCHANGED <<gate, late>>

\* An error of Stop is logged; the instance is dropped in any case.
StopReturns ==
  /\ life.op = "stop" /\ life.pc = "served" /\ Alive(life.to)
  /\ Over(FALSE, "none")
  /\ cut' = (cut \/ Response(life.said).err)
  /\ UNCHANGED <<gate, late>>

StopFails ==
  /\ life.op = "stop" /\ ~Alive(life.to)
  /\ Over(FALSE, "none")
  /\ UNCHANGED <<gate, late, cut>>

\* The client that asked for the unload gave up, or the call failed on the way
\* although the process lives.
StopGivenUp ==
  /\ life.op = "stop" /\ late = 0
  /\ Over(FALSE, "none")
  /\ late' = IF life.pc = "sent" THEN life.to ELSE late
  /\ cut' = TRUE
  /\ UNCHANGED gate
-----------------------------------------------------------------------------
(***************************************************************************)
(* Questions and commands of clients, beside those calls.                  *)
(***************************************************************************)
Question(op) ==
  /\ view = "running" /\ ask = NoCall
  /\ ask' = Send(op)
  /\ UNCHANGED <<files, loader, proc, sup, life, late>>

\* What the adapter makes of a call that failed.
Failure(op) ==
  IF op \in {"status", "dispatch"} THEN Err
  ELSE IF op = "health" THEN Ok(Unhealthy) ELSE Ok(0)

AskReturns ==
  /\ ask.pc = "served" /\ Alive(ask.to)
  /\ ask' = Now(ask, "returned", ask.said, Response(ask.said))
  /\ UNCHANGED <<files, loader, proc, sup, life, late>>

\* The process is gone, the caller gave up, or the call failed on the way.
AskFails ==
  /\ ask.pc \in {"sent", "served"}
  /\ ask' = Now(ask, "failed", Err, Failure(ask.op))
  /\ UNCHANGED <<files, loader, proc, sup, life, late>>

AskOver ==
  /\ ask.pc \in {"returned", "failed"}
  /\ ask' = NoCall
  /\ UNCHANGED <<files, loader, proc, sup, life, late>>
-----------------------------------------------------------------------------
(***************************************************************************)
(* The environment.                                                        *)
(***************************************************************************)
ProcessDies(p) ==
  /\ proc[p].at = "alive"
  /\ proc' = [proc EXCEPT ![p] = Gone]
  /\ late' = IF late = p THEN 0 ELSE late
  /\ passed' = passed \ {p} /\ blind' = blind \ {p}
  /\ UNCHANGED <<files, loader, view, wrapper, cut, life, ask>>

\* Plugin processes may outlive the daemon.
DaemonDies ==
  /\ view # "none" \/ loader.pc # "idle"
  /\ loader' = NoLoad
  /\ view' = "none" /\ wrapper' = 0
  /\ life' = NoCall /\ ask' = NoCall
  /\ cut' = TRUE
  /\ UNCHANGED <<files, proc, gate, late>>

Next ==
  \/ \E v \in Versions : Replace(v)
  \/ \E part \in {"dir", "binary"} : Chmod(part)
  \/ Load \/ Discover \/ LoadManifest
  \/ verifyDirOwnership \/ verifyFileOwnership \/ verifySHA256
  \/ ReadSignature \/ verifySignature \/ DiscoverReturns
  \/ \E p \in Procs : Connect(p) \/ ConnectFails(p, TRUE) \/ ConnectFails(p, FALSE)
  \/ Dispense \/ DispenseFails
  \/ \E said \in Sayings : ServeLife(said) \/ ServeAsk(said)
  \/ ServeLate
  \/ Info \/ InfoFails \/ \E licensed \in BOOLEAN : InfoReturns(licensed)
  \/ InitAndStart \/ StartReturns \/ StartFails
  \/ Stop \/ StopReturns \/ StopFails \/ StopGivenUp
  \/ \E op \in AskOps : Question(op)
  \/ AskReturns \/ AskFails \/ AskOver
  \/ \E p \in Procs : ProcessDies(p)
  \/ DaemonDies

Spec == Init /\ [][Next]_vars
-----------------------------------------------------------------------------
(***************************************************************************)
(* Properties.                                                             *)
(***************************************************************************)

\* Unless the directory changed while it was being looked at, a process runs
\* the release its manifest describes, signed with a known key, and Discover
\* lists no other: a directory that an installer left half way is refused.
LoadedIsRelease ==
  /\ \A p \in Procs : Alive(p) /\ proc[p].quiet
                      => proc[p].release = proc[p].manifest /\ proc[p].release \in Trusted
  /\ loader.pc = "listed" /\ loader.quiet => loader.manifest \in Trusted

\* No module runs without its license feature although Info turns every failure
\* into "needs none", as long as Info fails only with its process: Start fails
\* then too, and no other process takes its place.  An Info that fails while
\* the process lives is the one way round the license check.
GateHolds ==
  \A p \in Procs \ blind : proc[p].started => p \in passed

\* While the supervisor lists the module as running and its process lives,
\* the module in it has been started, and no Stop that was given up earlier
\* reaches it.
RunningIsStarted ==
  view = "running" /\ Alive(wrapper) => proc[wrapper].started

\* Loading, unloading and loading again never leaves two processes at work,
\* although none is ever ended: only a Start or Stop that failed with its
\* process alive, a Stop that was given up, or the death of the daemon, can.
OneStarted ==
  ~cut => \A p, q \in Procs :
            Alive(p) /\ Alive(q) /\ proc[p].started /\ proc[q].started => p = q

\* A client hears of success, exit code 0 or health, only if the module said
\* so, or gave neither a result nor an error: not from a process that is gone, not from a call that was given up,
\* and not because a large number lost its upper bits on the wire.
ToldIsSaid ==
  ask.op \in {"dispatch", "health", "status"} /\ ask.pc \in {"returned", "failed"}
  => (ask.heard = Ok(0) <=> ask.pc = "returned" /\ ask.said \in {Ok(0), NoResult})
=============================================================================
