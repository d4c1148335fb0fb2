----------------------- MODULE SquawkResolver_proofs -----------------------
(***************************************************************************)
(* Proofs about the management of the system resolver, for any servers and *)
(* any number of deaths, failures and edits.                               *)
(***************************************************************************)
EXTENDS SquawkResolver, TLAPS

LEMMA ConfsTyped ==
  /\ Torn \in Confs /\ Absent \in Confs /\ Torn # Absent
  /\ \A d \in Servers : Generated(d) \in Confs
  /\ \A d \in OperatorDns : Conf("operator", d) \in Confs
  /\ \A c \in Confs : c.dns \in Servers
  BY DEF Confs, Conf, Torn, Absent, Generated, Servers

LEMMA PlainServers ==
  {"google", "cloudflare", "none"} \subseteq Servers
  BY DEF Servers

\* What GiveUp makes of the operation under way is a state of it.
LEMMA GiveUpTyped ==
  ASSUME TypeOK, GiveUp
  PROVE  /\ mod' \in {"fresh", "inited", "running", "stopped"}
         /\ pc' \in Steps \cup {"idle", "down", "panicked"}
  BY DEF TypeOK, GiveUp, Steps

LEMMA FaultsTyped ==
  ASSUME TypeOK, Succeeds \/ Fails
  PROVE  faults' \in 0..MaxFaults
  BY BoundAssumption DEF TypeOK, Succeeds, Fails

LEMMA TypeInitial == Init => TypeOK
<1> SUFFICES ASSUME Init PROVE TypeOK
  OBVIOUS
<1>1. operator \in Confs /\ resolv \in Confs /\ copy \in Confs
  BY ConfsTyped DEF Init
<1>2. died \subseteq Steps \cup {"idle"}
  BY DEF Init
<1>3. crashes \in 0..MaxCrashes /\ faults \in 0..MaxFaults /\ edits \in 0..MaxEdits
  BY BoundAssumption DEF Init
<1> QED BY <1>1, <1>2, <1>3, PlainServers DEF Init, TypeOK, Steps

LEMMA TypePreserved == TypeOK /\ [Next]_vars => TypeOK'
<1> SUFFICES ASSUME TypeOK, [Next]_vars
             PROVE  TypeOK'
  OBVIOUS
<1> USE ConfsTyped, PlainServers, BoundAssumption DEF TypeOK
<1>1. CASE Load
  BY <1>1 DEF Load, files, env, Steps
<1>2. CASE Register
  BY <1>2 DEF Register, files, locals, env, Steps
<1>3. CASE Start
  BY <1>3 DEF Start, files, locals, env, Steps
<1>4. CASE CopyConf
  BY <1>4, FaultsTyped DEF CopyConf, Spoiled, locals, Steps
<1>5. CASE WriteConf
  BY <1>5, FaultsTyped, GiveUpTyped DEF WriteConf, Spoiled, locals, Steps
<1>6. CASE WriteMarker
  BY <1>6, FaultsTyped DEF WriteMarker, Spoiled, locals, Steps
<1>7. CASE Stop
  BY <1>7 DEF Stop, Previous, files, locals, env, Steps
<1>8. CASE RestoreConf
  BY <1>8, FaultsTyped, GiveUpTyped DEF RestoreConf, Spoiled, locals, Steps
<1>9. CASE RemoveCopy
  BY <1>9, FaultsTyped DEF RemoveCopy, locals, Steps
<1>10. CASE DeleteBackup
  BY <1>10, FaultsTyped DEF DeleteBackup, locals, Steps
<1>11. CASE Crash
  <2>1. died' \subseteq Steps \cup {"idle"}
    BY <1>11 DEF Crash
  <2>2. copy' \in Confs /\ resolv' \in Confs /\ marker' \in Servers \cup {"absent", "torn"}
    BY <1>11 DEF Crash
  <2>3. crashes' \in 0..MaxCrashes
    BY <1>11 DEF Crash
  <2> QED BY <1>11, <2>1, <2>2, <2>3 DEF Crash, locals
<1>12. CASE Boot
  BY <1>12 DEF Boot, files, locals, env, Steps
<1>13. CASE OperatorEdits
  BY <1>13 DEF OperatorEdits, locals, Steps
<1>14. CASE UNCHANGED vars
  BY <1>14 DEF vars, files, locals, env
<1> QED
  BY <1>1, <1>2, <1>3, <1>4, <1>5, <1>6, <1>7, <1>8, <1>9, <1>10, <1>11, <1>12, <1>13,
     <1>14 DEF Next

\* What the steps of Init, Start and Stop leave in the files and in memory has
\* its type, whatever fails and wherever the daemon dies.
THEOREM TypeCorrect == Spec => []TypeOK
  BY TypeInitial, TypePreserved, PTL DEF Spec

(***************************************************************************)
(* The copy.                                                               *)
(***************************************************************************)
\* Between writing the copy back and removing it nothing else happens.
WrittenBack == pc = "rmcopy" => resolv = copy

LEMMA WrittenBackInvariant == Spec => []WrittenBack
<1>1. Init => WrittenBack
  BY DEF Init, WrittenBack
<1>2. WrittenBack /\ [Next]_vars => WrittenBack'
  <2> SUFFICES ASSUME WrittenBack, [Next]_vars
               PROVE  WrittenBack'
    OBVIOUS
  <2>1. CASE RestoreConf
    BY <2>1 DEF RestoreConf, GiveUp, WrittenBack
  <2>2. CASE WriteConf
    BY <2>2 DEF WriteConf, GiveUp, WrittenBack
  <2>3. CASE Load \/ Register \/ Start \/ CopyConf \/ WriteMarker \/ Stop
    BY <2>3 DEF Load, Register, Start, CopyConf, WriteMarker, Stop, WrittenBack, files, locals
  <2>4. CASE RemoveCopy \/ DeleteBackup \/ Crash \/ Boot \/ OperatorEdits
    BY <2>4 DEF RemoveCopy, DeleteBackup, Crash, Boot, OperatorEdits, WrittenBack
  <2>5. CASE UNCHANGED vars
    BY <2>5 DEF vars, files, WrittenBack
  <2> QED BY <2>1, <2>2, <2>3, <2>4, <2>5 DEF Next
<1> QED BY <1>1, <1>2, PTL DEF Spec

LEMMA CopyStep ==
  ASSUME WrittenBack, [Next]_vars, copy # Absent, copy' = Absent
  PROVE  resolv = copy
<1>1. CASE RemoveCopy
  BY <1>1 DEF RemoveCopy, WrittenBack
<1>2. CASE CopyConf
  BY <1>2, ConfsTyped DEF CopyConf, Spoiled
<1>3. CASE Crash
  BY <1>3, ConfsTyped DEF Crash
<1>4. CASE Load \/ Register \/ Start \/ WriteConf \/ WriteMarker \/ Stop
  BY <1>4 DEF Load, Register, Start, WriteConf, WriteMarker, Stop, files
<1>5. CASE RestoreConf \/ DeleteBackup \/ Boot \/ OperatorEdits
  BY <1>5 DEF RestoreConf, DeleteBackup, Boot, OperatorEdits, files
<1>6. CASE UNCHANGED vars
  BY <1>6 DEF vars, files
<1> QED BY <1>1, <1>2, <1>3, <1>4, <1>5, <1>6 DEF Next

\* The copy of the operator's file is given up only after its content was
\* written back, whatever fails and wherever the daemon dies.
THEOREM CopyIsKept == Spec => CopyOutlivesRestore
<1>1. WrittenBack /\ [Next]_vars => [copy # Absent /\ copy' = Absent => resolv = copy]_vars
  BY CopyStep
<1> QED BY <1>1, WrittenBackInvariant, PTL DEF Spec, CopyOutlivesRestore

(***************************************************************************)
(* The operator's file, while no file operation fails and the daemon dies  *)
(* only between operations.                                                *)
(***************************************************************************)
Calm == faults = 0 /\ died \subseteq {"idle"}

Resting == pc \in {"idle", "down", "register", "panicked"} /\ mod # "running"

\* The file is in place, and nothing else is known of it.
InPlace ==
  /\ resolv = operator /\ copy = Absent /\ marker = "absent"
  /\ Resting \/ (pc = "copy" /\ op = "start" /\ cur = operator.dns)

\* Apply has taken the copy and not written the marker.
Copied ==
  /\ copy = operator /\ marker = "absent"
  /\ op = "start" /\ cur = operator.dns
  /\ pc = "write" \/ (pc = "mark" /\ resolv.by = "penguin")

\* The file is in the copy and the marker has its servers.
Managed ==
  /\ copy = operator /\ marker = operator.dns
  /\ \/ pc = "restore" /\ op \in {"recover", "stop"}
     \/ /\ resolv.by = "penguin"
        /\ \/ pc \in {"idle", "down"} /\ mod = "fresh"
           \/ pc = "idle" /\ mod = "running" /\ memory = operator.dns

\* Restore or RecoverFromCrash has written the copy back.
PutBack ==
  /\ resolv = operator /\ marker = operator.dns /\ op \in {"recover", "stop"}
  /\ (pc = "rmcopy" /\ copy = operator) \/ (pc = "unmark" /\ copy = Absent)

\* A file that lists no server is not restored after a death (RecoverFromCrash
\* does nothing about an empty list), and the next Apply replaces its copy.
Forgotten ==
  /\ operator.dns = "none" /\ resolv.by = "penguin"
  /\ \/ copy = Absent \/ copy.by = "penguin"
     \/ marker = "absent" /\ (Resting \/ pc = "copy")
     \/ pc = "unmark" /\ op = "recover"

FileInv ==
  /\ operator.by = "operator" /\ operator.dns \in OperatorDns
  /\ Calm => InPlace \/ Copied \/ Managed \/ PutBack \/ Forgotten

\* RecoverFromCrash runs in an instance that is not at work.
RecoverInv ==
  /\ pc = "register" => op = "recover"
  /\ op = "recover" /\ pc \notin {"idle", "down", "panicked"} => mod # "running"

LEMMA RecoverInvariance == Spec => []RecoverInv
<1>1. Init => RecoverInv
  BY DEF Init, RecoverInv
<1>2. RecoverInv /\ [Next]_vars => RecoverInv'
  <2> SUFFICES ASSUME RecoverInv, [Next]_vars
               PROVE  RecoverInv'
    OBVIOUS
  <2> USE DEF RecoverInv, locals
  <2>1. CASE Load \/ Register \/ Start \/ CopyConf \/ WriteConf \/ WriteMarker
    BY <2>1 DEF Load, Register, Start, CopyConf, WriteConf, WriteMarker, GiveUp
  <2>2. CASE Stop \/ RestoreConf \/ RemoveCopy \/ DeleteBackup
    BY <2>2 DEF Stop, RestoreConf, RemoveCopy, DeleteBackup, GiveUp
  <2>3. CASE Crash \/ Boot \/ OperatorEdits
    BY <2>3 DEF Crash, Boot, OperatorEdits
  <2>4. CASE UNCHANGED vars
    BY <2>4 DEF vars
  <2> QED BY <2>1, <2>2, <2>3, <2>4 DEF Next
<1> QED BY <1>1, <1>2, PTL DEF Spec

\* No server's name is a mark of the marker's.
LEMMA OtherServers == "absent" \notin Servers /\ "torn" \notin Servers
  BY BoundAssumption DEF Servers

LEMMA Fields ==
  /\ Absent.by = "absent" /\ Absent.dns = "none"
  /\ \A d : Generated(d).by = "penguin" /\ Generated(d).dns = d
  /\ \A d : Conf("operator", d).by = "operator" /\ Conf("operator", d).dns = d
  BY DEF Absent, Generated, Conf

LEMMA FailsCounts == TypeOK /\ Fails => faults' # 0
  BY BoundAssumption DEF TypeOK, Fails

LEMMA OperatorsFile ==
  ASSUME operator.by = "operator"
  PROVE  operator # Absent /\ operator # Torn /\ \A d : operator # Generated(d)
  BY DEF Absent, Torn, Generated, Conf

LEMMA FilePreserved == TypeOK /\ RecoverInv /\ FileInv /\ [Next]_vars => FileInv'
<1> SUFFICES ASSUME TypeOK, RecoverInv, FileInv, [Next]_vars
             PROVE  FileInv'
  OBVIOUS
<1> USE ConfsTyped, OtherServers, OperatorsFile, BoundAssumption DEF TypeOK, RecoverInv, FileInv, Calm, InPlace, Copied, Managed, PutBack, Forgotten, Resting
<1>1. CASE Load
  BY <1>1 DEF Load, files, env
<1>2. CASE Register
  BY <1>2 DEF Register, files, locals, env
<1>3. CASE Start
  BY <1>3 DEF Start, files, locals, env
<1>4. CASE CopyConf
  <2>1. CASE Fails
    BY <1>4, <2>1, FailsCounts DEF CopyConf
  <2>2. CASE ~Fails
    BY <1>4, <2>2, Fields DEF CopyConf, Succeeds, locals
  <2> QED BY <2>1, <2>2
<1>5. CASE WriteConf
  <2>1. CASE Fails
    BY <1>5, <2>1, FailsCounts DEF WriteConf
  <2>2. CASE ~Fails
    BY <1>5, <2>2, Fields DEF WriteConf, Succeeds, locals
  <2> QED BY <2>1, <2>2
<1>6. CASE WriteMarker
  BY <1>6 DEF WriteMarker, Spoiled, Succeeds, Fails, locals
<1>7. CASE Stop
  BY <1>7 DEF Stop, Previous, files, locals, env
<1>8. CASE RestoreConf
  <2>1. CASE Fails
    BY <1>8, <2>1, FailsCounts DEF RestoreConf
  <2>2. CASE ~Fails
    BY <1>8, <2>2, Fields DEF RestoreConf, Succeeds, locals
  <2> QED BY <2>1, <2>2
<1>9. CASE RemoveCopy
  <2>1. CASE Fails
    BY <1>9, <2>1, FailsCounts DEF RemoveCopy
  <2>2. CASE ~Fails
    BY <1>9, <2>2, Fields DEF RemoveCopy, Succeeds, locals
  <2> QED BY <2>1, <2>2
<1>10. CASE DeleteBackup
  <2>1. CASE Fails
    BY <1>10, <2>1, FailsCounts DEF DeleteBackup
  <2>2. CASE ~Fails
    BY <1>10, <2>2, Fields DEF DeleteBackup, Succeeds, locals
  <2> QED BY <2>1, <2>2
<1>11. CASE Crash
  BY <1>11 DEF Crash, locals
<1>12. CASE Boot
  BY <1>12 DEF Boot, files, locals, env
<1>13. CASE OperatorEdits
  <2>1. operator'.by = "operator" /\ operator'.dns \in OperatorDns
    BY <1>13, Fields DEF OperatorEdits
  <2> QED BY <1>13, <2>1 DEF OperatorEdits, locals
<1>14. CASE UNCHANGED vars
  BY <1>14 DEF vars, files, locals, env
<1> HIDE DEF TypeOK, RecoverInv, FileInv
<1> QED
  BY <1>1, <1>2, <1>3, <1>4, <1>5, <1>6, <1>7,
     <1>8, <1>9, <1>10, <1>11, <1>12, <1>13, <1>14 DEF Next

LEMMA FileInitial == Init => FileInv
  BY DEF Init, FileInv, Calm, InPlace, Resting, Conf

LEMMA FileInvariance == Spec => []FileInv
  BY FileInitial, FilePreserved, TypeCorrect, RecoverInvariance, PTL DEF Spec

\* The operator's own file survives every sequence of starts, stops, edits and
\* deaths between operations, for any number of them.
THEOREM OperatorsFileIsKept == Spec => []OriginalKept
<1>1. FileInv => OriginalKept
  BY DEF FileInv, OriginalKept, Calm, InPlace, Copied, Managed, PutBack, Forgotten
<1> QED BY <1>1, FileInvariance, PTL

(***************************************************************************)
(* The operator's servers, while no file operation fails, the operator     *)
(* edits nothing and the daemon does not die within Apply.                 *)
(***************************************************************************)
Gentle ==
  faults = 0 /\ edits = 0 /\ died \cap Applying = {} /\ operator.dns # "none"

CopyHasServers == copy.dns = operator.dns
ResolvHasServers == resolv.dns = operator.dns

\* resolv.conf has them, and the marker is gone.
ServersInPlace ==
  /\ ResolvHasServers /\ marker = "absent"
  /\ Resting \/ (pc = "copy" /\ op = "start" /\ cur = operator.dns)

ServersCopied ==
  /\ CopyHasServers /\ op = "start" /\ cur = operator.dns
  /\ pc \in {"write", "mark"}

\* The marker has them, and one of the files.
ServersManaged ==
  /\ marker = operator.dns
  /\ CopyHasServers \/ (ResolvHasServers /\ copy = Absent)
  /\ \/ pc = "restore" /\ op \in {"recover", "stop"} /\ target = operator.dns
     \/ pc \in {"idle", "down"} /\ mod = "fresh"
     \/ pc = "idle" /\ mod = "running" /\ memory = operator.dns

\* A restore is past the point where resolv.conf has them, or writes them
\* there itself.
ServersPutBack ==
  /\ marker = operator.dns /\ op \in {"recover", "stop"}
  /\ \/ pc = "rmcopy" /\ ResolvHasServers /\ CopyHasServers
     \/ pc = "unmark" /\ ResolvHasServers /\ (copy = Absent \/ CopyHasServers)
     \/ pc = "copy" /\ ResolvHasServers /\ target = operator.dns /\ copy = Absent
     \/ pc = "write" /\ CopyHasServers /\ target = operator.dns

ServersInv ==
  Gentle => ServersInPlace \/ ServersCopied \/ ServersManaged \/ ServersPutBack

LEMMA ServersPreserved == TypeOK /\ RecoverInv /\ ServersInv /\ [Next]_vars => ServersInv'
<1> SUFFICES ASSUME TypeOK, RecoverInv, ServersInv, [Next]_vars
             PROVE  ServersInv'
  OBVIOUS
<1> USE ConfsTyped, OtherServers, BoundAssumption DEF TypeOK, RecoverInv, ServersInv, Gentle, Applying, ServersInPlace, ServersCopied, ServersManaged,
        ServersPutBack, CopyHasServers, ResolvHasServers, Resting
<1>1. CASE Load
  BY <1>1 DEF Load, files, env
<1>2. CASE Register
  BY <1>2 DEF Register, files, locals, env
<1>3. CASE Start
  BY <1>3 DEF Start, files, locals, env
<1>4. CASE CopyConf
  <2>1. CASE Fails
    BY <1>4, <2>1, FailsCounts DEF CopyConf
  <2>2. CASE ~Fails
    BY <1>4, <2>2, Fields DEF CopyConf, Succeeds, locals
  <2> QED BY <2>1, <2>2
<1>5. CASE WriteConf
  <2>1. CASE Fails
    BY <1>5, <2>1, FailsCounts DEF WriteConf
  <2>2. CASE ~Fails
    BY <1>5, <2>2, Fields DEF WriteConf, Succeeds, locals
  <2> QED BY <2>1, <2>2
<1>6. CASE WriteMarker
  BY <1>6 DEF WriteMarker, Spoiled, Succeeds, Fails, locals
<1>7. CASE Stop
  BY <1>7 DEF Stop, Previous, files, locals, env
<1>8. CASE RestoreConf
  <2>1. CASE Fails
    BY <1>8, <2>1, FailsCounts DEF RestoreConf
  <2>2. CASE ~Fails
    BY <1>8, <2>2, Fields DEF RestoreConf, Succeeds, locals
  <2> QED BY <2>1, <2>2
<1>9. CASE RemoveCopy
  <2>1. CASE Fails
    BY <1>9, <2>1, FailsCounts DEF RemoveCopy
  <2>2. CASE ~Fails
    BY <1>9, <2>2, Fields DEF RemoveCopy, Succeeds, locals
  <2> QED BY <2>1, <2>2
<1>10. CASE DeleteBackup
  <2>1. CASE Fails
    BY <1>10, <2>1, FailsCounts DEF DeleteBackup
  <2>2. CASE ~Fails
    BY <1>10, <2>2, Fields DEF DeleteBackup, Succeeds, locals
  <2> QED BY <2>1, <2>2
<1>11. CASE Crash
  BY <1>11 DEF Crash, locals
<1>12. CASE Boot
  BY <1>12 DEF Boot, files, locals, env
<1>13. CASE OperatorEdits
  BY <1>13 DEF OperatorEdits, locals
<1>14. CASE UNCHANGED vars
  BY <1>14 DEF vars, files, locals, env
<1> HIDE DEF TypeOK, RecoverInv, ServersInv
<1> QED
  BY <1>1, <1>2, <1>3, <1>4, <1>5, <1>6, <1>7,
     <1>8, <1>9, <1>10, <1>11, <1>12, <1>13, <1>14 DEF Next

LEMMA ServersInitial == Init => ServersInv
  BY DEF Init, ServersInv, Gentle, ServersInPlace, ResolvHasServers, Resting

LEMMA ServersInvariance == Spec => []ServersInv
  BY ServersInitial, ServersPreserved, TypeCorrect, RecoverInvariance, PTL DEF Spec

\* After Init or Stop the operator's servers are in force again, wherever
\* outside Apply the daemon died before and however often.
THEOREM ServersAreRestored == Spec => []ServersRestored
<1>1. FileInv /\ ServersInv /\ TypeOK => ServersRestored
  <2> SUFFICES ASSUME FileInv, ServersInv, TypeOK, AtRest, faults = 0, died \cap Applying = {},
                      operator.dns # "none", edits > 0 => died \subseteq {"idle"}
               PROVE  resolv.dns = operator.dns
    BY DEF ServersRestored
  <2>1. CASE edits = 0
    BY <2>1 DEF ServersInv, Gentle, ServersInPlace, ServersCopied, ServersManaged,
                ServersPutBack, ResolvHasServers, AtRest
  <2>2. CASE edits > 0
    BY <2>2 DEF FileInv, Calm, InPlace, Copied, Managed, PutBack, Forgotten, AtRest
  <2> QED BY <2>1, <2>2, BoundAssumption DEF TypeOK
<1> QED BY <1>1, FileInvariance, ServersInvariance, TypeCorrect, PTL

(***************************************************************************)
(* One failed file operation, in a daemon that does not die.               *)
(***************************************************************************)
Tame == died = {} /\ edits = 0 /\ operator.dns # "none"

\* Nothing has failed yet: as in FileInv, and Init has nothing to recover.
Unharmed ==
  \/ InPlace
  \/ Copied /\ (pc = "write" => resolv = operator)
  \/ /\ Managed
     /\ mod = "running"
     /\ pc = "restore" => op = "stop" /\ target = operator.dns
  \/ PutBack /\ op = "stop"

\* resolv.conf lists the servers and the marker is gone, also after an Apply
\* that failed before it replaced the file.
InForce ==
  /\ ResolvHasServers /\ marker = "absent"
  /\ \/ Resting
     \/ pc = "copy" /\ op = "start" /\ cur = operator.dns
     \/ pc = "idle" /\ mod = "running" /\ memory = "absent"

\* What the copy may be once taking it has failed.
CopyTried == CopyHasServers \/ copy \in {Absent, Torn}

\* Apply goes on, and the instance remembers the servers.
Remembered ==
  /\ CopyTried
  /\ \/ pc \in {"write", "mark"} /\ op = "start" /\ cur = operator.dns /\ marker = "absent"
     \/ pc = "idle" /\ mod = "running" /\ memory = operator.dns
     \/ pc = "restore" /\ op = "stop" /\ target = operator.dns

\* A restore failed and left the marker, or the marker could not be removed.
Marked ==
  /\ marker = operator.dns
  /\ CopyHasServers \/ copy = Absent
  /\ \/ pc = "idle" /\ mod = "stopped"
     \/ pc = "restore" /\ op = "recover" /\ target = operator.dns /\ mod = "stopped"

\* A restore that nothing can stop any more.
Restoring ==
  /\ op \in {"recover", "stop"}
  /\ \/ pc \in {"rmcopy", "unmark"} /\ ResolvHasServers
     \/ pc \in {"copy", "write"} /\ target = operator.dns

\* resolv.conf was cut short; Apply and Restore keep that content for the
\* operator's.
CutShort ==
  \/ /\ resolv = Torn /\ marker = "absent"
     /\ \/ Resting
        \/ pc = "copy" /\ op = "start" /\ cur = "none"
        \/ pc = "idle" /\ mod = "running" /\ memory = "absent"
  \/ /\ copy = Torn
     /\ \/ pc \in {"write", "mark"} /\ op = "start" /\ cur = "none"
        \/ pc = "idle" /\ mod = "running" /\ memory = "none"
        \/ pc = "restore" /\ op = "stop"
  \/ resolv = Torn /\ op = "stop" /\ pc \in {"rmcopy", "unmark"}

OneFaultInv ==
  Tame =>
    /\ faults = 0 => Unharmed
    /\ faults = 1 => InForce \/ Remembered \/ Marked \/ Restoring \/ CutShort

\* A recovering instance remembers nothing, and so does one that applies.
MemoryInv ==
  /\ pc \in {"restore", "rmcopy", "unmark"} => op \in {"recover", "stop"}
  /\ op = "recover" /\ pc \notin {"idle", "down", "panicked"} => memory = "absent"
  /\ pc \in {"copy", "write"} => op \in {"recover", "start", "stop"}
  /\ op = "start" /\ pc \in Applying => mod = "inited"
  /\ mod = "inited" => memory = "absent"

LEMMA MemoryInvariance == Spec => []MemoryInv
<1>1. Init => MemoryInv
  BY DEF Init, MemoryInv
<1>2. RecoverInv /\ MemoryInv /\ [Next]_vars => MemoryInv'
  <2> SUFFICES ASSUME RecoverInv, MemoryInv, [Next]_vars
               PROVE  MemoryInv'
    OBVIOUS
  <2> USE DEF MemoryInv, RecoverInv, Applying, locals
  <2>1. CASE Load \/ Register \/ Start
    BY <2>1 DEF Load, Register, Start
  <2>2. CASE CopyConf \/ WriteConf \/ WriteMarker
    BY <2>2 DEF CopyConf, WriteConf, WriteMarker, GiveUp
  <2>3. CASE Stop \/ RestoreConf \/ RemoveCopy \/ DeleteBackup
    BY <2>3 DEF Stop, RestoreConf, RemoveCopy, DeleteBackup, GiveUp
  <2>4. CASE Crash \/ Boot \/ OperatorEdits
    BY <2>4 DEF Crash, Boot, OperatorEdits
  <2>5. CASE UNCHANGED vars
    BY <2>5 DEF vars
  <2> QED BY <2>1, <2>2, <2>3, <2>4, <2>5 DEF Next
<1> QED BY <1>1, <1>2, RecoverInvariance, PTL DEF Spec

LEMMA OneFaultPreserved ==
  TypeOK /\ RecoverInv /\ MemoryInv /\ FileInv /\ OneFaultInv /\ [Next]_vars => OneFaultInv'
<1> SUFFICES ASSUME TypeOK, RecoverInv, MemoryInv, FileInv, OneFaultInv, [Next]_vars
             PROVE  OneFaultInv'
  OBVIOUS
<1>f. operator.by = "operator" /\ operator.dns \in OperatorDns
  BY DEF FileInv
<1>t. Torn.dns = "none" /\ Absent.dns = "none"
  BY DEF Torn, Absent, Conf
<1> USE <1>f, <1>t, ConfsTyped, OtherServers, OperatorsFile, Fields, BoundAssumption
    DEF TypeOK, RecoverInv, OneFaultInv, Tame, Unharmed, InPlace, Copied, Managed, PutBack,
        InForce, CopyTried, Remembered, Marked, Restoring, CutShort, CopyHasServers,
        ResolvHasServers, Resting
<1>1. CASE Load
  BY <1>1 DEF Load, files, env
<1>2. CASE Register
  BY <1>2 DEF Register, files, locals, env
<1>3. CASE Start
  BY <1>3 DEF Start, files, locals, env
<1>4. CASE CopyConf
  <2>1. CASE Fails
    BY <1>4, <2>1 DEF CopyConf, Fails, Spoiled, locals
  <2>2. CASE ~Fails
    BY <1>4, <2>2 DEF CopyConf, Succeeds, locals
  <2> QED BY <2>1, <2>2
<1>5. CASE WriteConf
  <2>1. CASE Fails
    BY <1>5, <2>1 DEF WriteConf, Fails, Spoiled, GiveUp, MemoryInv, Applying, locals
  <2>2. CASE ~Fails
    BY <1>5, <2>2 DEF WriteConf, Succeeds, locals
  <2> QED BY <2>1, <2>2
<1>6. CASE WriteMarker
  BY <1>6 DEF WriteMarker, Spoiled, Succeeds, Fails, locals
<1>7. CASE Stop
  BY <1>7 DEF Stop, Previous, files, locals, env
<1>8. CASE RestoreConf
  <2>1. CASE Fails
    BY <1>8, <2>1 DEF RestoreConf, Fails, Spoiled, GiveUp, locals
  <2>2. CASE ~Fails
    BY <1>8, <2>2 DEF RestoreConf, Succeeds, locals
  <2> QED BY <2>1, <2>2
<1>9. CASE RemoveCopy
  BY <1>9 DEF RemoveCopy, Succeeds, Fails, locals
<1>10. CASE DeleteBackup
  BY <1>10 DEF DeleteBackup, Succeeds, Fails, locals
<1>11. CASE Crash
  BY <1>11 DEF Crash, locals
<1>12. CASE Boot
  BY <1>12 DEF Boot, files, locals, env
<1>13. CASE OperatorEdits
  BY <1>13 DEF OperatorEdits, locals
<1>14. CASE UNCHANGED vars
  BY <1>14 DEF vars, files, locals, env
<1> HIDE DEF TypeOK, RecoverInv, OneFaultInv
<1> QED
  BY <1>1, <1>2, <1>3, <1>4, <1>5, <1>6, <1>7,
     <1>8, <1>9, <1>10, <1>11, <1>12, <1>13, <1>14 DEF Next

LEMMA OneFaultInitial == Init => OneFaultInv
  BY DEF Init, OneFaultInv, Tame, Unharmed, InPlace, Resting

LEMMA OneFaultInvariance == Spec => []OneFaultInv
  BY OneFaultInitial, OneFaultPreserved, TypeCorrect, RecoverInvariance, MemoryInvariance,
     FileInvariance, PTL DEF Spec

\* After one failed file operation, wherever in Apply, Restore or recovery it
\* falls and however many starts and stops follow, the operator's servers are
\* in force or the marker names them, unless resolv.conf was cut short.
THEOREM OneFaultIsRecoverable == Spec => []Recoverable
<1>1. OneFaultInv /\ TypeOK => Recoverable
  <2> SUFFICES ASSUME OneFaultInv, TypeOK, AtRest, died = {}, faults <= 1, edits = 0,
                      resolv # Torn, operator.dns # "none"
               PROVE  operator.dns \in {resolv.dns, marker}
    BY DEF Recoverable
  <2>1. faults = 0 \/ faults = 1
    BY BoundAssumption DEF TypeOK
  <2> QED
    BY <2>1 DEF OneFaultInv, Tame, Unharmed, InPlace, Copied, Managed, PutBack, InForce,
                Remembered, Marked, Restoring, CutShort, ResolvHasServers, AtRest
<1> QED BY <1>1, OneFaultInvariance, TypeCorrect, PTL
=============================================================================
