----------------------- MODULE ExternalPlugin_proofs -----------------------
(***************************************************************************)
(* Proofs about a module in a process of its own, for any releases, any    *)
(* number of changes to the directory and any number of processes.         *)
(***************************************************************************)
EXTENDS ExternalPlugin, TLAPS

Loaders ==
  [pc : {"idle", "manifest", "dir", "file", "sha256", "signature",
         "verify", "listed", "exec", "dispense"},
   goal : {"none", "load", "list"},
   manifest : Versions, signature : Versions, quiet : BOOLEAN]
Processes ==
  [at : {"unborn", "alive", "gone"}, release : Versions,
   started : BOOLEAN, manifest : Versions, quiet : BOOLEAN]
Views == {"none", "loading", "loaded", "gated", "starting", "running", "stopping"}

LEMMA Constructors ==
  /\ NoLoad \in Loaders
  /\ Begun("load") \in Loaders /\ Begun("list") \in Loaders
  /\ Unborn \in Processes /\ Gone \in Processes
  /\ NoCall \in CallType(LifeOps) /\ NoCall \in CallType(AskOps)
  /\ Err \in Outcomes /\ NoResult \in Outcomes
  BY DEF NoLoad, Begun, Loaders, Unborn, Gone, Processes, Versions, NoCall, CallType,
         LifeOps, AskOps, Err, Outcomes

LEMMA ToTyped ==
  ASSUME TypeOK, NEW pc \in {"dir", "file", "sha256", "signature", "verify", "listed",
                             "exec", "dispense"},
         NEW v \in Versions, NEW w \in Versions
  PROVE  To(pc, v, w) \in Loaders /\ On(pc) \in Loaders
  BY DEF TypeOK, To, On, Loaders

LEMMA NowTyped ==
  ASSUME NEW ops, NEW c \in CallType(ops), NEW pc \in {"served", "returned", "failed"},
         NEW s \in Outcomes, NEW h \in Outcomes
  PROVE  Now(c, pc, s, h) \in CallType(ops)
  BY DEF Now, CallType

LEMMA SayingsTyped ==
  ASSUME NEW said \in Sayings
  PROVE  said \in Outcomes
<1>1. \A v \in Values : Ok(v) \in Outcomes
  BY PluginAssumption DEF Outcomes, Ok
<1> QED BY <1>1, Constructors DEF Sayings

LEMMA ResponseTyped ==
  ASSUME NEW s \in Outcomes
  PROVE  Response(s) \in Outcomes
<1>1. s.err \/ (~s.err /\ s.value \in Int)
  BY DEF Outcomes, NoResult
<1> QED BY <1>1, PluginAssumption DEF Response, Outcomes, Ok, Err, clampInt32

LEMMA FailureTyped ==
  ASSUME NEW op
  PROVE  Failure(op) \in Outcomes
  BY DEF Failure, Outcomes, Ok, Err, Unhealthy

LEMMA RunsTyped ==
  ASSUME TypeOK, NEW p \in Procs, NEW op, NEW s \in Outcomes
  PROVE  Runs(p, op, s) \in [Procs -> Processes]
<1>1. proc \in [Procs -> Processes]
  BY DEF TypeOK, Processes
<1>2. [proc[p] EXCEPT !.started = (op = "start")] \in Processes
  BY <1>1 DEF Processes
<1> QED BY <1>1, <1>2 DEF Runs

LEMMA StartedTyped ==
  ASSUME TypeOK
  PROVE  Started \in Processes
  BY DEF TypeOK, Started, Processes

\* Where the supervisor is with its instance, and which process is behind it.
InstanceInv ==
  /\ view \in {"none", "loading", "gated", "running"} => life = NoCall
  /\ view = "loaded" => life.op \in {"none", "info"}
  /\ view = "starting" => life.op = "start"
  /\ view = "stopping" => life.op = "stop"
  /\ life.op # "none" => life.to = wrapper
  /\ life.op = "none" => life = NoCall
  /\ view = "none" => wrapper = 0
  /\ view = "loading" => loader.goal = "load" /\ (loader.pc # "dispense" => wrapper = 0)
  /\ loader.goal = "load" => view = "loading"
  /\ loader.pc \in {"exec", "dispense"} => loader.goal = "load"
  /\ loader.pc = "listed" => loader.goal = "list"
  /\ loader.pc = "idle" <=> loader.goal = "none"
  /\ wrapper # 0 => proc[wrapper].at # "unborn"
  /\ late # 0 => late # wrapper /\ proc[late].at # "unborn"

\* A process that is asked to start has passed the license check, unless its
\* Info failed.
GateInv ==
  /\ \A p \in Procs : proc[p].started => proc[p].at = "alive" /\ p \in passed \cup blind
  /\ view = "gated" /\ Alive(wrapper) => wrapper \in passed \cup blind
  /\ view = "starting" /\ Alive(wrapper) => wrapper \in passed \cup blind

StartInv ==
  /\ view = "starting" /\ life.pc = "served" /\ ~life.said.err /\ Alive(wrapper)
     => proc[wrapper].started
  /\ view = "running" /\ Alive(wrapper) => proc[wrapper].started

\* Nothing but the supervisor's instance is at work, and that only from the
\* success of its Start to the success of its Stop.
OneInv ==
  ~cut => \A p \in Procs : proc[p].started =>
            /\ p = wrapper
            /\ \/ view = "starting" /\ life.pc = "served" /\ ~life.said.err
               \/ view = "running"
               \/ view = "stopping" /\ ~(life.pc = "served" /\ ~life.said.err)

\* What the loader has established holds until the directory is touched.
LoaderInv ==
  /\ loader.quiet /\ loader.pc \in {"signature", "verify", "exec", "listed"}
     => dir.binary = loader.manifest
  /\ loader.quiet /\ loader.pc \in {"exec", "listed"} => dir.binary \in Trusted
  /\ \A p \in Procs : proc[p].at = "alive" /\ proc[p].quiet
                      => proc[p].release = proc[p].manifest /\ proc[p].release \in Trusted

AskInv ==
  /\ ask.pc = "returned" => ask.heard = Response(ask.said)
  /\ ask.pc = "failed" => ask.heard = Failure(ask.op) /\ ask.said = Err

Inv == TypeOK /\ InstanceInv /\ GateInv /\ StartInv /\ OneInv /\ LoaderInv /\ AskInv

LEMMA TypeInitial == Init => TypeOK
<1> USE Constructors, PluginAssumption DEF Init
<1> SUFFICES ASSUME Init PROVE TypeOK
  OBVIOUS
<1>1. dir \in [manifest : Versions, binary : Versions, signature : Versions]
  BY DEF Versions
<1>2. open \in SUBSET {"dir", "binary"} /\ writes \in 0..MaxWrites
  OBVIOUS
<1>3. proc \in [Procs -> Processes] /\ loader \in Loaders
  OBVIOUS
<1> QED BY <1>1, <1>2, <1>3 DEF TypeOK, Loaders, Processes

LEMMA TypePreserved == TypeOK /\ InstanceInv /\ [Next]_vars => TypeOK'
<1> SUFFICES ASSUME TypeOK, InstanceInv, [Next]_vars
             PROVE  TypeOK'
  OBVIOUS
<1> USE Constructors, PluginAssumption
<1>a. /\ dir \in [manifest : Versions, binary : Versions, signature : Versions]
      /\ loader \in Loaders /\ proc \in [Procs -> Processes]
  BY DEF TypeOK, Loaders, Processes
<1>1. ASSUME NEW v \in Versions, Replace(v)
      PROVE TypeOK'
  <2>1. dir' \in [manifest : Versions, binary : Versions, signature : Versions]
    BY <1>1, <1>a DEF Replace
  <2>2. loader' \in Loaders
    BY <1>1, <1>a DEF Replace, Touched, Loaders
  <2> QED BY <2>1, <2>2, <1>1 DEF TypeOK, Replace, MayChange, sup, gate, rpc, Loaders
<1>2. ASSUME NEW part \in {"dir", "binary"}, Chmod(part)
      PROVE TypeOK'
  <2>1. loader' \in Loaders
    BY <1>2, <1>a DEF Chmod, Touched, Loaders
  <2>2. open' \in SUBSET {"dir", "binary"}
    BY <1>2 DEF Chmod, TypeOK
  <2> QED BY <2>1, <2>2, <1>2 DEF TypeOK, Chmod, MayChange, sup, gate, rpc, Loaders
<1>3. ASSUME NEW holds \in BOOLEAN, NEW next \in Loaders, Checked(holds, next)
      PROVE TypeOK'
  <2>1. loader' \in Loaders
    BY <1>3 DEF Checked
  <2> QED BY <2>1, <1>3 DEF TypeOK, Checked, files, gate, rpc, Loaders
<1>4. CASE Load
  BY <1>4 DEF TypeOK, Load, files, gate, rpc, Loaders
<1>5. CASE Discover
  BY <1>5 DEF TypeOK, Discover, files, sup, gate, rpc, Loaders
<1>6. CASE LoadManifest
  BY <1>6, <1>3, <1>a, ToTyped DEF LoadManifest, Versions
<1>7. CASE verifyDirOwnership
  BY <1>7, <1>3, <1>a, ToTyped DEF verifyDirOwnership, Versions
<1>8. CASE verifyFileOwnership
  BY <1>8, <1>3, <1>a, ToTyped DEF verifyFileOwnership, Versions
<1>9. CASE verifySHA256
  BY <1>9, <1>3, <1>a, ToTyped DEF verifySHA256, Versions
<1>10. CASE ReadSignature
  <2>1. To("verify", loader.manifest, dir.signature) \in Loaders
    BY <1>a, ToTyped DEF Loaders
  <2> QED BY <1>10, <1>3, <2>1 DEF ReadSignature
<1>11. CASE verifySignature
  BY <1>11, <1>3, <1>a, ToTyped DEF verifySignature, Versions
<1>12. CASE DiscoverReturns
  BY <1>12 DEF TypeOK, DiscoverReturns, files, sup, gate, rpc, Loaders
<1>13. ASSUME NEW p \in Procs, Connect(p)
       PROVE TypeOK'
  <2>1. loader' \in Loaders
    BY <1>13, <1>a, ToTyped DEF Connect, Versions
  <2>2. proc' \in [Procs -> Processes]
    BY <1>13, <1>a, StartedTyped DEF Connect
  <2> QED BY <2>1, <2>2, <1>13 DEF TypeOK, Connect, files, gate, rpc, Loaders, Processes
<1>14. ASSUME NEW p \in Procs, NEW lives \in BOOLEAN, ConnectFails(p, lives)
       PROVE TypeOK'
  <2>2. proc' \in [Procs -> Processes]
    BY <1>14, <1>a, StartedTyped DEF ConnectFails
  <2> QED BY <2>2, <1>14 DEF TypeOK, ConnectFails, files, gate, rpc, Loaders, Processes
<1>15. CASE Dispense
  BY <1>15 DEF TypeOK, Dispense, files, gate, rpc, Loaders
<1>16. CASE DispenseFails
  <2>2. proc' \in [Procs -> Processes]
    BY <1>16, <1>a DEF DispenseFails
  <2> QED BY <2>2, <1>16 DEF TypeOK, DispenseFails, files, gate, rpc, Loaders, Processes
<1>17. ASSUME NEW said \in Sayings, ServeLife(said)
       PROVE TypeOK'
  <2>1. said \in Outcomes
    BY SayingsTyped
  <2>2. life' \in CallType(LifeOps)
    BY <1>17, <2>1, NowTyped DEF ServeLife, TypeOK
  <2>3. life.to \in Procs
    BY <1>17 DEF ServeLife, TypeOK, CallType, Alive
  <2>4. proc' \in [Procs -> Processes]
    BY <1>17, <2>1, <2>3, RunsTyped DEF ServeLife
  <2> QED BY <2>2, <2>4, <1>17 DEF TypeOK, ServeLife, files, sup, gate, Processes
<1>18. ASSUME NEW said \in Sayings, ServeAsk(said)
       PROVE TypeOK'
  <2>1. said \in Outcomes
    BY SayingsTyped
  <2>2. ask' \in CallType(AskOps)
    BY <1>18, <2>1, NowTyped DEF ServeAsk, TypeOK
  <2> QED BY <2>2, <1>18 DEF TypeOK, ServeAsk, files, sup, gate
<1>19. CASE ServeLate
  <2>1. proc' \in [Procs -> Processes]
    BY <1>19, <1>a DEF ServeLate, Processes
  <2> QED BY <2>1, <1>19 DEF TypeOK, ServeLate, files, sup, gate, Processes
<1>20. ASSUME NEW op \in LifeOps, NEW from, NEW to \in Views, Call(op, from, to)
       PROVE TypeOK'
  <2>1. life' \in CallType(LifeOps)
    BY <1>20 DEF Call, Send, CallType, TypeOK
  <2> QED BY <2>1, <1>20 DEF TypeOK, Call, files, gate, Views
<1>21. CASE Info \/ InitAndStart \/ Stop
  BY <1>20, <1>21 DEF Info, InitAndStart, Stop, LifeOps, Views
<1>22. ASSUME NEW keep \in BOOLEAN, NEW next \in Views, Over(keep, next),
              passed' \in SUBSET Procs, blind' \in SUBSET Procs,
              late' \in Procs \cup {0}, cut' \in BOOLEAN
       PROVE TypeOK'
  BY <1>22 DEF TypeOK, Over, files, Views
<1>23. CASE \E licensed \in BOOLEAN : InfoReturns(licensed)
  <2> PICK licensed \in BOOLEAN : InfoReturns(licensed)
    BY <1>23
  <2>1. life.to \in Procs /\ life.to = wrapper
    BY DEF InfoReturns, InstanceInv, TypeOK, CallType, Alive
  <2>2. passed' \in SUBSET Procs
    BY <2>1 DEF InfoReturns, TypeOK
  <2> QED BY <1>22, <2>2 DEF InfoReturns, TypeOK, Views
<1>24. CASE StartFails \/ StopFails
  BY <1>24, <1>22 DEF StartFails, StopFails, TypeOK, Views, gate
<1>24a. CASE InfoFails
  <2>1. Alive(life.to) => life.to \in Procs /\ life.to = wrapper
    BY <1>24a DEF InfoFails, InstanceInv, TypeOK, CallType, Alive
  <2>2. blind' \in SUBSET Procs
    BY <1>24a, <2>1 DEF InfoFails, TypeOK
  <2> QED BY <1>22, <1>24a, <2>2 DEF InfoFails, TypeOK, Views
<1>25. CASE StartReturns
  BY <1>25, <1>22 DEF StartReturns, TypeOK, Views, gate
<1>26. CASE StopReturns
  BY <1>26, <1>22 DEF StopReturns, TypeOK, Views, gate
<1>27. CASE StopGivenUp
  <2>1. late' \in Procs \cup {0}
    BY <1>27 DEF StopGivenUp, TypeOK, CallType
  <2> QED BY <2>1, <1>27, <1>22 DEF StopGivenUp, TypeOK, Views, gate
<1>28. ASSUME NEW op \in AskOps, Question(op)
       PROVE TypeOK'
  <2>1. ask' \in CallType(AskOps)
    BY <1>28 DEF Question, Send, CallType, TypeOK
  <2> QED BY <2>1, <1>28 DEF TypeOK, Question, files, sup, gate
<1>29. CASE AskReturns
  <2>1. ask' \in CallType(AskOps)
    BY <1>29, NowTyped, ResponseTyped DEF AskReturns, TypeOK, CallType
  <2> QED BY <2>1, <1>29 DEF TypeOK, AskReturns, files, sup, gate
<1>30. CASE AskFails
  <2>1. ask' \in CallType(AskOps)
    BY <1>30, NowTyped, FailureTyped DEF AskFails, TypeOK
  <2> QED BY <2>1, <1>30 DEF TypeOK, AskFails, files, sup, gate
<1>31. CASE AskOver
  BY <1>31 DEF TypeOK, AskOver, files, sup, gate
<1>32. ASSUME NEW p \in Procs, ProcessDies(p)
       PROVE TypeOK'
  <2>1. proc' \in [Procs -> Processes]
    BY <1>32, <1>a DEF ProcessDies
  <2> QED BY <2>1, <1>32 DEF TypeOK, ProcessDies, files, sup, gate, Processes
<1>33. CASE DaemonDies
  BY <1>33 DEF TypeOK, DaemonDies, files, gate, Loaders
<1>34. CASE UNCHANGED vars
  BY <1>34 DEF TypeOK, vars, files, sup, gate, rpc
<1> QED
  BY <1>1, <1>2, <1>4, <1>5, <1>6, <1>7, <1>8, <1>9, <1>10, <1>11, <1>12, <1>13, <1>14,
     <1>15, <1>16, <1>17, <1>18, <1>19, <1>21, <1>23, <1>24, <1>24a, <1>25, <1>26, <1>27, <1>28,
     <1>29, <1>30, <1>31, <1>32, <1>33, <1>34 DEF Next

(***************************************************************************)
(* The invariant is inductive.                                             *)
(***************************************************************************)
LEMMA Initial == Init => Inv
<1> SUFFICES ASSUME Init PROVE Inv
  OBVIOUS
<1>1. \A p \in Procs : proc[p] = Unborn
  BY DEF Init
<1> QED BY <1>1, TypeInitial
  DEF Init, Inv, InstanceInv, GateInv, StartInv, OneInv, LoaderInv, AskInv,
      NoLoad, NoCall, Unborn, Alive

\* Serving a Start or a Stop changes one process, and only whether it is at work.
LEMMA RunsShape ==
  ASSUME TypeOK, NEW p \in Procs, NEW op, NEW said \in Outcomes, NEW q \in Procs
  PROVE  /\ Runs(p, op, said)[q].at = proc[q].at
         /\ Runs(p, op, said)[q].quiet = proc[q].quiet
         /\ Runs(p, op, said)[q].release = proc[q].release
         /\ Runs(p, op, said)[q].manifest = proc[q].manifest
         /\ Runs(p, op, said)[q].started =
              IF q = p /\ op \in {"start", "stop"} /\ ~said.err THEN op = "start"
              ELSE proc[q].started
<1>1. proc \in [Procs -> Processes]
  BY DEF TypeOK, Processes
<1>2. CASE op \in {"start", "stop"} /\ ~said.err
  <2>1. Runs(p, op, said)[q] =
          IF q = p THEN [proc[q] EXCEPT !.started = (op = "start")] ELSE proc[q]
    BY <1>1, <1>2 DEF Runs
  <2> QED BY <1>1, <1>2, <2>1 DEF Processes
<1>3. CASE ~(op \in {"start", "stop"} /\ ~said.err)
  BY <1>1, <1>3 DEF Runs
<1> QED BY <1>2, <1>3

LEMMA Preserved == Inv /\ [Next]_vars => Inv'
<1> SUFFICES ASSUME Inv, [Next]_vars
             PROVE  Inv'
  OBVIOUS
<1>t. TypeOK'
  BY TypePreserved DEF Inv
<1> USE PluginAssumption DEF Inv, TypeOK, CallType, LifeOps, NoCall, Alive
<1> USE DEF InstanceInv, GateInv, StartInv, OneInv, LoaderInv, AskInv, gate
<1>1. ASSUME NEW v \in Versions, Replace(v)
      PROVE  Inv'
  BY <1>1, <1>t DEF Touched, MayChange, Replace, sup, gate, rpc
<1>2. ASSUME NEW part \in {"dir", "binary"}, Chmod(part)
      PROVE  Inv'
  BY <1>2, <1>t DEF Chmod, Touched, MayChange, sup, gate, rpc
<1>3. CASE LoadManifest
  BY <1>3, <1>t DEF LoadManifest, Checked, On, To, NoLoad, files, gate, rpc
<1>4. CASE verifyDirOwnership
  BY <1>4, <1>t DEF verifyDirOwnership, Checked, On, To, NoLoad, files, gate, rpc
<1>5. CASE verifyFileOwnership
  BY <1>5, <1>t DEF verifyFileOwnership, Checked, On, To, NoLoad, files, gate, rpc
<1>6. CASE verifySHA256
  BY <1>6, <1>t DEF verifySHA256, Checked, On, To, NoLoad, files, gate, rpc
<1>7. CASE ReadSignature
  BY <1>7, <1>t DEF ReadSignature, Checked, On, To, NoLoad, files, gate, rpc
<1>8. CASE verifySignature
  BY <1>8, <1>t DEF verifySignature, Checked, On, To, NoLoad, files, gate, rpc
<1>9. CASE Load
  BY <1>9, <1>t DEF Load, Begun, files, gate, rpc
<1>10. CASE Discover
  BY <1>10, <1>t DEF Discover, Begun, files, sup, gate, rpc
<1>11. CASE DiscoverReturns
  BY <1>11, <1>t DEF DiscoverReturns, NoLoad, files, sup, gate, rpc
<1>12. ASSUME NEW p \in Procs, Connect(p)
      PROVE  Inv'
  BY <1>12, <1>t DEF Connect, NextProc, Started, On, To, files, gate, rpc
<1>13. ASSUME NEW p \in Procs, NEW lives \in BOOLEAN, ConnectFails(p, lives)
      PROVE  Inv'
  BY <1>13, <1>t DEF ConnectFails, NextProc, Started, Gone, NoLoad, files, gate, rpc
<1>14. CASE Dispense
  BY <1>14, <1>t DEF Dispense, NoLoad, files, gate, rpc
<1>15. CASE DispenseFails
  BY <1>15, <1>t DEF DispenseFails, NoLoad, Gone, files, gate, rpc
<1>16. ASSUME NEW said \in Sayings, ServeLife(said)
      PROVE  Inv'
  <2>1. InstanceInv' /\ AskInv'
    BY <1>16 DEF ServeLife, Now, Runs, files, sup, gate
  <2>2. said \in Outcomes /\ life.to \in Procs /\ life.to = wrapper
    BY <1>16, SayingsTyped DEF ServeLife, MaySay
  <2>3. life'.pc = "served" /\ life'.said = said /\ life'.op = life.op
    BY <1>16 DEF ServeLife, Now
  <2>4. proc' = Runs(life.to, life.op, said) /\ UNCHANGED <<files, loader, sup, ask, late>>
    BY <1>16 DEF ServeLife
  <2>5. \A q \in Procs :
          /\ proc'[q].at = proc[q].at
          /\ proc'[q].started = IF q = wrapper /\ life.op \in {"start", "stop"} /\ ~said.err
                                 THEN life.op = "start" ELSE proc[q].started
    BY <2>2, <2>4, RunsShape
  <2>6. GateInv' /\ LoaderInv'
    BY <1>16 DEF ServeLife, Now, Runs, files, sup, gate
  <2>7. view' = view /\ wrapper' = wrapper /\ cut' = cut
    BY <2>4 DEF sup
  <2>8. StartInv'
    <3>1. life.op = "start" /\ ~said.err => proc'[wrapper].started
      BY <2>2, <2>5
    <3>2. view # "running"
      BY <1>16 DEF ServeLife
    <3> QED BY <2>3, <2>7, <3>1, <3>2
  <2>9. OneInv'
    BY <1>16, <2>2, <2>3, <2>5, <2>7 DEF ServeLife
  <2> QED BY <2>1, <2>6, <2>8, <2>9, <1>t
<1>17. ASSUME NEW said \in Sayings, ServeAsk(said)
      PROVE  Inv'
  BY <1>17, <1>t DEF ServeAsk, Now, files, sup, gate
<1>18. CASE ServeLate
  BY <1>18, <1>t DEF ServeLate, files, sup, gate
<1>19. CASE Info
  BY <1>19, <1>t DEF Info, Call, Send, files
<1>20. CASE InitAndStart
  BY <1>20, <1>t DEF InitAndStart, Call, Send, files
<1>21. CASE Stop
  BY <1>21, <1>t DEF Stop, Call, Send, files
<1>22. ASSUME NEW licensed \in BOOLEAN, InfoReturns(licensed)
      PROVE  Inv'
  BY <1>22, <1>t DEF InfoReturns, Over, files
<1>23. CASE InfoFails
  BY <1>23, <1>t DEF InfoFails, Over, files
<1>24. CASE StartReturns
  BY <1>24, <1>t DEF StartReturns, Over, files, Response, Err, Ok
<1>25. CASE StartFails
  <2>1. InstanceInv' /\ GateInv' /\ StartInv' /\ LoaderInv' /\ AskInv'
    BY <1>25 DEF StartFails, Over, files
  <2>2. ~Alive(wrapper) => \A p \in Procs : proc[p].started => p # wrapper
    BY <1>25 DEF StartFails, Procs
  <2>3. OneInv'
    BY <1>25, <2>2 DEF StartFails, Over, files
  <2> QED BY <2>1, <2>3, <1>t
<1>26. CASE StopReturns
  BY <1>26, <1>t DEF StopReturns, Over, files, Response, Err, Ok
<1>27. CASE StopFails
  <2>1. InstanceInv' /\ GateInv' /\ StartInv' /\ LoaderInv' /\ AskInv'
    BY <1>27 DEF StopFails, Over, files
  <2>2. \A p \in Procs : proc[p].started => p # wrapper
    BY <1>27 DEF StopFails, Procs
  <2>3. OneInv'
    BY <1>27, <2>2 DEF StopFails, Over, files
  <2> QED BY <2>1, <2>3, <1>t
<1>28. CASE StopGivenUp
  BY <1>28, <1>t DEF StopGivenUp, Over, files
<1>29. ASSUME NEW op \in AskOps, Question(op)
      PROVE  Inv'
  BY <1>29, <1>t DEF Question, Send, files, sup, gate
<1>30. CASE AskReturns
  BY <1>30, <1>t DEF AskReturns, Now, files, sup, gate
<1>31. CASE AskFails
  BY <1>31, <1>t DEF AskFails, Now, files, sup, gate
<1>32. CASE AskOver
  BY <1>32, <1>t DEF AskOver, Now, files, sup, gate
<1>33. ASSUME NEW p \in Procs, ProcessDies(p)
      PROVE  Inv'
  BY <1>33, <1>t DEF ProcessDies, Gone, files, sup, gate
<1>34. CASE DaemonDies
  BY <1>34, <1>t DEF DaemonDies, NoLoad, files
<1>35. CASE UNCHANGED vars
  BY <1>35, <1>t DEF vars, files, sup, gate, rpc
<1> HIDE DEF Inv, TypeOK, CallType, LifeOps, NoCall, Alive
<1> HIDE DEF InstanceInv, GateInv, StartInv, OneInv, LoaderInv, AskInv
<1> QED
  BY <1>1, <1>2, <1>3, <1>4, <1>5, <1>6, <1>7, <1>8, <1>9, <1>10, <1>11, <1>12, <1>13,
     <1>14, <1>15, <1>16, <1>17, <1>18, <1>19, <1>20, <1>21, <1>22, <1>23, <1>24, <1>25,
     <1>26, <1>27, <1>28, <1>29, <1>30, <1>31, <1>32, <1>33, <1>34, <1>35 DEF Next

LEMMA Invariance == Spec => []Inv
  BY Initial, Preserved, PTL DEF Spec

(***************************************************************************)
(* Theorems.                                                               *)
(***************************************************************************)

\* The state has its types: what To, Now and Runs put together is a loader, a
\* call and a process again.
THEOREM TypeCorrect == Spec => []TypeOK
<1>1. Inv => TypeOK
  BY DEF Inv
<1> QED BY <1>1, Invariance, PTL

\* A process runs, and Discover lists, the release its manifest describes,
\* signed with a known key, unless the directory changed during the load.
THEOREM ReleasesAreWhole == Spec => []LoadedIsRelease
<1>1. Inv => LoadedIsRelease
  BY DEF Inv, LoaderInv, LoadedIsRelease, Alive
<1> QED BY <1>1, Invariance, PTL

\* No module is at work whose license feature was not enabled and whose Info did
\* not fail while its process lived, although Info of client.go turns every
\* failed call into a module that needs none.
THEOREM GateIsKept == Spec => []GateHolds
<1>1. Inv => GateHolds
  BY DEF Inv, GateInv, GateHolds
<1> QED BY <1>1, Invariance, PTL

\* A module the supervisor has as running is at work in its process.
THEOREM RunningMeansStarted == Spec => []RunningIsStarted
<1>1. Inv => RunningIsStarted
  BY DEF Inv, StartInv, RunningIsStarted
<1> QED BY <1>1, Invariance, PTL

\* At most one process is at work, unless a Start or Stop failed with its
\* process alive, a Stop was given up or the daemon died.
THEOREM OneAtWork == Spec => []OneStarted
<1>1. Inv => OneStarted
  BY DEF Inv, OneInv, OneStarted
<1> QED BY <1>1, Invariance, PTL

\* clampInt32 gives 0 for nothing but 0.
LEMMA ClampKeepsZero ==
  ASSUME NEW v \in Int
  PROVE  clampInt32(v) = 0 <=> v = 0
  BY PluginAssumption DEF clampInt32

LEMMA ResponseIsOkZero ==
  ASSUME NEW said \in Outcomes
  PROVE  Response(said) = Ok(0) <=> said \in {Ok(0), NoResult}
<1>0. CASE said = NoResult
  <2>1. NoResult.err = FALSE /\ NoResult.value = 0
    BY DEF NoResult
  <2>2. Response(NoResult) = Ok(clampInt32(0)) /\ clampInt32(0) = 0
    BY <2>1, ClampKeepsZero DEF Response
  <2> QED BY <1>0, <2>2
<1>1. CASE said.err
  BY <1>1 DEF Response, Ok, Err, Outcomes, NoResult
<1>2. CASE ~said.err /\ said # NoResult
  <2>1. said.value \in Int /\ said = [err |-> FALSE, value |-> said.value]
    BY <1>2 DEF Outcomes
  <2>2. Response(said) = [err |-> FALSE, value |-> clampInt32(said.value)]
    BY <1>2 DEF Response, Ok
  <2>3. Response(said).value = clampInt32(said.value) /\ Ok(0).value = 0
    BY <2>2 DEF Ok
  <2>4. Response(said) = Ok(0) => said.value = 0
    BY <2>1, <2>3, ClampKeepsZero
  <2>5. said = Ok(0) => said.value = 0
    BY DEF Ok
  <2>6. said.value = 0 => said = Ok(0) /\ Response(said) = Ok(0)
    BY <2>1, <2>2, ClampKeepsZero DEF Ok
  <2> QED BY <1>2, <2>4, <2>5, <2>6
<1> QED BY <1>0, <1>1, <1>2

\* A client hears success, exit code 0 or healthy exactly when the module
\* said so, or gave neither result nor error, and its answer arrived, whatever
\* the width of its integers.
THEOREM AnswersAreTheModules == Spec => []ToldIsSaid
<1>1. Inv => ToldIsSaid
  <2> SUFFICES ASSUME Inv, ask.op \in {"dispatch", "health", "status"},
                      ask.pc \in {"returned", "failed"}
               PROVE  ask.heard = Ok(0) <=> ask.pc = "returned" /\ ask.said \in {Ok(0), NoResult}
    BY DEF ToldIsSaid
  <2>1. ask.said \in Outcomes
    BY DEF Inv, TypeOK, CallType
  <2>2. CASE ask.pc = "returned"
    BY <2>1, <2>2, ResponseIsOkZero DEF Inv, AskInv
  <2>3. CASE ask.pc = "failed"
    <3>1. ask.heard = Err \/ ask.heard = Ok(Unhealthy)
      BY <2>3 DEF Inv, AskInv, Failure
    <3>2. Err # Ok(0) /\ Ok(Unhealthy) # Ok(0)
      BY DEF Err, Ok, Unhealthy
    <3> QED BY <2>3, <3>1, <3>2
  <2> QED BY <2>2, <2>3
<1> QED BY <1>1, Invariance, PTL
=============================================================================
