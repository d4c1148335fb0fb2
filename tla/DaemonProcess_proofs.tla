------------------------ MODULE DaemonProcess_proofs ------------------------
(***************************************************************************)
(* Proofs about the life of the penguind process, for any number of        *)
(* processes, clients, state directories and socket paths; and about the   *)
(* licence client that it starts.                                          *)
(***************************************************************************)
EXTENDS DaemonProcess, LicenseClient, TLAPS

USE DEF Ended, Booting, Up, Running, Go, Released, CallsEnd, ModulesStopped,
        Clients, Dirs, Paths

\* Every variable keeps its type.
THEOREM TypeCorrect == Spec => []TypeOK
<1>1. Init => TypeOK
  BY DEF Init, TypeOK
<1>2. TypeOK /\ [Next]_vars => TypeOK'
  <2> SUFFICES ASSUME TypeOK, [Next]_vars PROVE TypeOK'
    OBVIOUS
  <2> USE DEF TypeOK
  <2>1. ASSUME NEW p \in Processes, AcquireLock(p) PROVE TypeOK'
    BY <2>1 DEF AcquireLock
  <2>2. ASSUME NEW p \in Processes, OpenSecrets(p) PROVE TypeOK'
    BY <2>2 DEF OpenSecrets
  <2>3. ASSUME NEW p \in Processes, Listen(p) PROVE TypeOK'
    BY <2>3 DEF Listen
  <2>4. ASSUME NEW p \in Processes, StartEnabled(p) PROVE TypeOK'
    BY <2>4 DEF StartEnabled
  <2>5. ASSUME NEW p \in Processes, Serve(p) \/ Collect(p) PROVE TypeOK'
    BY <2>5 DEF Serve, Collect
  <2>6. ASSUME NEW p \in Processes, ServeFails(p) PROVE TypeOK'
    BY <2>6 DEF ServeFails
  <2>7. ASSUME NEW p \in Processes, Signal(p) \/ Drained(p) \/ StopModules(p) \/ StopHangs(p)
        PROVE TypeOK'
    BY <2>7 DEF Signal, Drained, StopModules, StopHangs
  <2>8. ASSUME NEW p \in Processes, RemoveSocket(p) \/ Kill(p) PROVE TypeOK'
    BY <2>8 DEF RemoveSocket, Kill
  <2>9. ASSUME NEW p \in Processes, NEW c \in Clients,
               Connect(c, p) \/ CallReturns(c, p) \/ CallHangs(c, p) \/ HangUp(c, p)
        PROVE TypeOK'
    BY <2>9 DEF Connect, CallReturns, CallHangs, HangUp
  <2>10. CASE UNCHANGED vars
    BY <2>10 DEF vars
  <2> QED
    BY <2>1, <2>2, <2>3, <2>4, <2>5, <2>6, <2>7, <2>8, <2>9, <2>10
    DEF Next, Step
<1> QED BY <1>1, <1>2, PTL DEF Spec

\* A running process whose lock file was not closed holds the lock of its
\* state directory.
THEOREM LockIsHeld == Spec => []LockHeld
<1>1. Init => LockHeld
  BY DEF Init, LockHeld
<1>2. TypeOK /\ LockHeld /\ [Next]_vars => LockHeld'
  <2> SUFFICES ASSUME TypeOK, LockHeld, [Next]_vars PROVE LockHeld'
    OBVIOUS
  <2> USE ProcessAssumption DEF TypeOK, LockHeld
  <2>1. ASSUME NEW p \in Processes, AcquireLock(p) PROVE LockHeld'
    BY <2>1 DEF AcquireLock
  <2>2. ASSUME NEW p \in Processes, OpenSecrets(p) \/ Listen(p) PROVE LockHeld'
    BY <2>2 DEF OpenSecrets, Listen
  <2>3. ASSUME NEW p \in Processes, StartEnabled(p) \/ Serve(p) PROVE LockHeld'
    BY <2>3 DEF StartEnabled, Serve
  <2>4. ASSUME NEW p \in Processes, Collect(p) PROVE LockHeld'
    BY <2>4 DEF Collect
  <2>5. ASSUME NEW p \in Processes, ServeFails(p) PROVE LockHeld'
    BY <2>5 DEF ServeFails
  <2>6. ASSUME NEW p \in Processes, Signal(p) \/ Drained(p) \/ StopModules(p) \/ StopHangs(p)
        PROVE LockHeld'
    BY <2>6 DEF Signal, Drained, StopModules, StopHangs
  <2>7. ASSUME NEW p \in Processes, RemoveSocket(p) \/ Kill(p) PROVE LockHeld'
    BY <2>7 DEF RemoveSocket, Kill
  <2>8. ASSUME NEW p \in Processes, NEW c \in Clients,
               Connect(c, p) \/ CallReturns(c, p) \/ CallHangs(c, p) \/ HangUp(c, p)
        PROVE LockHeld'
    BY <2>8 DEF Connect, CallReturns, CallHangs, HangUp
  <2>9. CASE UNCHANGED vars
    BY <2>9 DEF vars
  <2> QED
    BY <2>1, <2>2, <2>3, <2>4, <2>5, <2>6, <2>7, <2>8, <2>9 DEF Next, Step
<1> QED BY <1>1, <1>2, TypeCorrect, PTL DEF Spec

\* The single-instance guard: at most one process whose lock file is open
\* runs on a state directory.
THEOREM OneDaemon == Spec => []SingleDaemon
<1>1. LockHeld => SingleDaemon
  BY DEF LockHeld, SingleDaemon
<1> QED BY <1>1, LockIsHeld, PTL

\* If daemons that may touch one socket path are guarded by one lock, a
\* serving daemon's socket always leads to it.
THEOREM SocketStays ==
  ASSUME PathsGuarded PROVE Spec => []SocketReachable
<1>1. Init => SocketOwned
  BY DEF Init, SocketOwned
<1>2. TypeOK /\ LockHeld /\ SocketOwned /\ [Next]_vars => SocketOwned'
  <2> SUFFICES ASSUME TypeOK, LockHeld, SocketOwned, [Next]_vars
               PROVE SocketOwned'
    OBVIOUS
  <2> USE ProcessAssumption DEF TypeOK, SocketOwned
  <2>1. ASSUME NEW p \in Processes, NEW q \in Processes, p # q,
               pc[p] \in Running, pc[q] \in Running, lost = {}
        PROVE Path[p] # Path[q] /\ Path[q] # ConfigPath[p]
    BY <2>1 DEF LockHeld, PathsGuarded
  <2>2. ASSUME NEW p \in Processes, AcquireLock(p) \/ OpenSecrets(p)
        PROVE SocketOwned'
    BY <2>2 DEF AcquireLock, OpenSecrets
  <2>3. ASSUME NEW p \in Processes, Listen(p) PROVE SocketOwned'
    BY <2>1, <2>3 DEF Listen
  <2>4. ASSUME NEW p \in Processes, StartEnabled(p) \/ Serve(p) \/ Collect(p)
        PROVE SocketOwned'
    BY <2>4 DEF StartEnabled, Serve, Collect
  <2>5. ASSUME NEW p \in Processes, ServeFails(p) \/ Signal(p)
        PROVE SocketOwned'
    BY <2>1, <2>5 DEF ServeFails, Signal
  <2>6. ASSUME NEW p \in Processes, Drained(p) \/ StopModules(p) \/ StopHangs(p) \/ Kill(p)
        PROVE SocketOwned'
    BY <2>6 DEF Drained, StopModules, StopHangs, Kill
  <2>7. ASSUME NEW p \in Processes, RemoveSocket(p) PROVE SocketOwned'
    BY <2>1, <2>7 DEF RemoveSocket
  <2>8. ASSUME NEW p \in Processes, NEW c \in Clients,
               Connect(c, p) \/ CallReturns(c, p) \/ CallHangs(c, p) \/ HangUp(c, p)
        PROVE SocketOwned'
    BY <2>8 DEF Connect, CallReturns, CallHangs, HangUp
  <2>9. CASE UNCHANGED vars
    BY <2>9 DEF vars
  <2> QED
    BY <2>2, <2>3, <2>4, <2>5, <2>6, <2>7, <2>8, <2>9 DEF Next, Step
<1>3. SocketOwned => SocketReachable
  BY DEF SocketOwned, SocketReachable
<1> QED BY <1>1, <1>2, <1>3, TypeCorrect, LockIsHeld, PTL DEF Spec

\* A daemon that was stopped, or failed to boot, has restored the system when
\* it is gone, unless one of its modules reported that it could not
\* (daemonProgram.Stop, Supervisor.Shutdown).
THEOREM ExitIsClean == Spec => []ExitRestores
<1>1. Init => Restored
  BY DEF Init, Restored
<1>2. TypeOK /\ Restored /\ [Next]_vars => Restored'
  <2> SUFFICES ASSUME TypeOK, Restored, [Next]_vars PROVE Restored'
    OBVIOUS
  <2> USE DEF TypeOK, Restored
  <2>1. ASSUME NEW p \in Processes, AcquireLock(p) \/ OpenSecrets(p)
        PROVE Restored'
    BY <2>1 DEF AcquireLock, OpenSecrets
  <2>2. ASSUME NEW p \in Processes, Listen(p) PROVE Restored'
    BY <2>2 DEF Listen
  <2>3. ASSUME NEW p \in Processes, StartEnabled(p) \/ Serve(p) \/ Collect(p)
        PROVE Restored'
    BY <2>3 DEF StartEnabled, Serve, Collect
  <2>4. ASSUME NEW p \in Processes, ServeFails(p) \/ Signal(p) PROVE Restored'
    BY <2>4 DEF ServeFails, Signal
  <2>5. ASSUME NEW p \in Processes, Drained(p) \/ StopModules(p) \/ StopHangs(p)
        PROVE Restored'
    BY <2>5 DEF Drained, StopModules, StopHangs
  <2>6. ASSUME NEW p \in Processes, RemoveSocket(p) \/ Kill(p) PROVE Restored'
    BY <2>6 DEF RemoveSocket, Kill
  <2>7. ASSUME NEW p \in Processes, NEW c \in Clients,
               Connect(c, p) \/ CallReturns(c, p) \/ CallHangs(c, p) \/ HangUp(c, p)
        PROVE Restored'
    BY <2>7 DEF Connect, CallReturns, CallHangs, HangUp
  <2>8. CASE UNCHANGED vars
    BY <2>8 DEF vars
  <2> QED
    BY <2>1, <2>2, <2>3, <2>4, <2>5, <2>6, <2>7, <2>8 DEF Next, Step
<1>3. Restored => ExitRestores
  BY DEF Restored, ExitRestores
<1> QED BY <1>1, <1>2, <1>3, TypeCorrect, PTL DEF Spec

-----------------------------------------------------------------------------
(***************************************************************************)
(* The licence client, for any keys, tiers and features and any number of  *)
(* boots, faults and changes.                                              *)
(*                                                                         *)
(* What the memory says is copied from the answer, what the file says from *)
(* the memory, and what the memory says after a boot from the file: the    *)
(* invariant says of each of the three that the server gave it.            *)
(***************************************************************************)
\* Every licence the server gave for any key.
Said == UNION {given[k] : k \in Keys}

\* The request, the response and the save belong to one key that exists.
LicenceInFlight ==
  /\ loop \in {"asking", "answered", "saving"} => key \in Keys
  /\ loop \in {"answered", "saving"} => answer \in given[key]
  /\ loop = "saving" => cached = answer /\ validated
  /\ validated => key \in Keys

LicenceInv ==
  /\ LicenseTypeOK
  /\ \A k \in Keys : granted[k] \in given[k]
  /\ LicenceInFlight
  /\ cacheFile \in {NoFile} \cup Said
  /\ NothingInvented

\* No licence looks like a missing cache file.
LEMMA NoFileIsNoLicence == NoFile \notin Licences
  BY TierAssumption DEF NoFile, Licences

LEMMA LicenceInitial == LicenseInit => LicenceInv
<1> SUFFICES ASSUME LicenseInit PROVE LicenceInv
  OBVIOUS
<1>1. LicenseTypeOK
  <2>1. given \in [Keys -> SUBSET Licences]
    <3>1. \A k \in Keys : {granted[k]} \in SUBSET Licences
      BY DEF LicenseInit
    <3> QED BY <3>1 DEF LicenseInit
  <2>2. validated \in BOOLEAN
    BY DEF LicenseInit
  <2> QED BY <2>1, <2>2, LicenseBoundAssumption DEF LicenseInit, LicenseTypeOK
<1>2. (\A k \in Keys : granted[k] \in given[k]) /\ LicenceInFlight
  BY DEF LicenseInit, LicenceInFlight
<1>3. cacheFile \in {NoFile} \cup Said /\ NothingInvented
  BY DEF LicenseInit, NothingInvented
<1> QED BY <1>1, <1>2, <1>3 DEF LicenceInv

LEMMA LicencePreserved == LicenceInv /\ [LicenseNext]_licenseVars => LicenceInv'
<1> SUFFICES ASSUME LicenceInv, [LicenseNext]_licenseVars PROVE LicenceInv'
  OBVIOUS
<1> USE LicenseBoundAssumption, KeyAssumption DEF LicenceInv, LicenseTypeOK, LicenceInFlight, NothingInvented, Said
<1>1. ASSUME NEW k \in Keys \cup {NoKey}, Boot(k) PROVE LicenceInv'
  <2>1. boots' \in 0..MaxBoots
    BY <1>1 DEF Boot
  <2>2. cached' \in {Cold} \cup Said /\ cached' \in Licences \cup {Cold}
    BY <1>1 DEF Boot
  <2>3. loop' = "idle" /\ validated' = FALSE /\ key' = k
    BY <1>1 DEF Boot
  <2>4. UNCHANGED <<granted, given, changes, answer, cacheFile, faults>>
    BY <1>1 DEF Boot, server
  <2>5. LicenseTypeOK'
    BY <2>1, <2>2, <2>3, <2>4
  <2>6. LicenceInFlight'
    BY <2>3
  <2>7. NothingInvented'
    BY <2>2, <2>3, <2>4
  <2> QED BY <2>4, <2>5, <2>6, <2>7
<1>2. CASE Down
  BY <1>2 DEF Down, server
<1>3. CASE ValidateWithoutKey
  BY <1>3 DEF ValidateWithoutKey, server
<1>4. CASE Fetch \/ FetchFails
  BY <1>4 DEF Fetch, FetchFails, server
<1>5. CASE ServerAnswers
  BY <1>5 DEF ServerAnswers, server
<1>6. CASE UpdateCache
  BY <1>6 DEF UpdateCache, server
<1>7. CASE PersistCache
  <2>1. cached \in Licences
    BY <1>7 DEF PersistCache
  <2> QED BY <1>7, <2>1 DEF PersistCache, server
<1>8. ASSUME NEW k \in Keys, NEW l \in Licences, ServerChanges(k, l)
      PROVE LicenceInv'
  <2>1. LicenseTypeOK'
    BY <1>8 DEF ServerChanges
  <2>2. \A j \in Keys : given[j] \subseteq given'[j] /\ granted'[j] \in given'[j]
    BY <1>8 DEF ServerChanges
  <2>3. LicenceInFlight' /\ (cacheFile \in {NoFile} \cup Said)' /\ NothingInvented'
    BY <1>8, <2>2 DEF ServerChanges
  <2> QED BY <2>1, <2>2, <2>3
<1>9. CASE FileLost
  BY <1>9 DEF FileLost, server
<1>10. CASE UNCHANGED licenseVars
  BY <1>10 DEF licenseVars, server
<1> QED
  BY <1>1, <1>2, <1>3, <1>4, <1>5, <1>6, <1>7, <1>8, <1>9, <1>10 DEF LicenseNext

LEMMA LicenceInvariance == LicenseSpec => []LicenceInv
  BY LicenceInitial, LicencePreserved, PTL DEF LicenseSpec

\* Every variable keeps its type: neither a file that could not be read nor an
\* answer that did not come is ever taken for a licence (loadCache, Validate).
THEOREM LicenceTypeCorrect == LicenseSpec => []LicenseTypeOK
<1>1. LicenceInv => LicenseTypeOK
  BY DEF LicenceInv
<1> QED BY LicenceInvariance, <1>1, PTL

\* The cache only says what the server said, to this key once it has answered
\* (updateCache, persistCache, loadCache over any number of restarts).
THEOREM CacheIsTrue == LicenseSpec => []NothingInvented
<1>1. LicenceInv => NothingInvented
  BY DEF LicenceInv
<1> QED BY LicenceInvariance, <1>1, PTL

\* A restart restores the entitlements in use, unless a save failed or the
\* file was lost (persistCache, loadCache).
THEOREM CacheOutlivesRestart == LicenseSpec => []RestartKeeps
<1>1. LicenseInit => RestartKeeps
  BY DEF LicenseInit, RestartKeeps
<1>2. LicenceInv /\ RestartKeeps /\ [LicenseNext]_licenseVars => RestartKeeps'
  <2> SUFFICES ASSUME LicenceInv, RestartKeeps, [LicenseNext]_licenseVars PROVE RestartKeeps'
    OBVIOUS
  <2> USE DEF RestartKeeps
  <2>1. ASSUME NEW k \in Keys \cup {NoKey}, Boot(k) PROVE RestartKeeps'
    BY <2>1 DEF Boot
  <2>2. CASE Down \/ ValidateWithoutKey
    BY <2>2 DEF Down, ValidateWithoutKey
  <2>3. CASE Fetch \/ FetchFails \/ ServerAnswers \/ UpdateCache
    BY <2>3 DEF Fetch, FetchFails, ServerAnswers, UpdateCache
  <2>4. CASE PersistCache
    <3>1. cached # NoFile
      BY <2>4, NoFileIsNoLicence DEF PersistCache, LicenceInv, LicenseTypeOK, LicenceInFlight
    <3>2. faults' = faults \/ faults' > 0
      BY <2>4 DEF PersistCache, LicenceInv, LicenseTypeOK
    <3> QED BY <2>4, <3>1, <3>2, SMT DEF PersistCache, LicenceInv, LicenseTypeOK
  <2>5. ASSUME NEW k \in Keys, NEW l \in Licences, ServerChanges(k, l)
        PROVE RestartKeeps'
    BY <2>5 DEF ServerChanges
  <2>6. CASE FileLost
    BY <2>6 DEF FileLost, LicenceInv, LicenseTypeOK
  <2>7. CASE UNCHANGED licenseVars
    BY <2>7 DEF licenseVars
  <2> QED BY <2>1, <2>2, <2>3, <2>4, <2>5, <2>6, <2>7 DEF LicenseNext
<1> QED BY LicenceInvariance, <1>1, <1>2, PTL DEF LicenseSpec
=============================================================================
