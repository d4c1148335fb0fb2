--------------------------- MODULE SquawkResolver ---------------------------
(***************************************************************************)
(* The squawk module's management of the system resolver on Linux: Init    *)
(* with its crash recovery, Start with Apply, Stop with Restore, one step  *)
(* per file operation so that the daemon may die between any two of them.  *)
(* The supervisor's lock serialises Init, Start and Stop.                  *)
(*                                                                         *)
(* Three files matter: /etc/resolv.conf, the copy of it in the data        *)
(* directory (resolv.conf.backup), and the marker (dns-applied.json) that  *)
(* records the previous servers.  A file's content is abstracted to who    *)
(* wrote it and the name servers it lists; what the operator's file holds  *)
(* besides (search domains, options) is lost when by changes.              *)
(***************************************************************************)
EXTENDS Naturals

CONSTANTS
  OperatorDns,   \* name servers the operator's files may list
  MaxCrashes, MaxFaults, MaxEdits   \* bounds on what the environment does

Servers == OperatorDns \cup {"google", "cloudflare", "none"}

ASSUME BoundAssumption ==
  /\ MaxCrashes \in Nat /\ MaxFaults \in Nat /\ MaxEdits \in Nat
  /\ {"absent", "torn"} \cap OperatorDns = {}   \* what marker says of itself

Conf(by, dns) == [by |-> by, dns |-> dns]

\* What applyViaResolvConf writes; a file cut short; no file at all.
Generated(dns) == Conf("penguin", dns)
Torn == Conf("torn", "none")
Absent == Conf("absent", "none")

Confs == [by : {"operator", "penguin", "torn", "absent"}, dns : Servers]

VARIABLES
  resolv,      \* /etc/resolv.conf
  copy,        \* resolv.conf.backup
  marker,      \* dns-applied.json: previous servers, "torn" or "absent"
  memory,      \* resolver.backup of the live instance, or "absent"
  mod,         \* "fresh" (no Init since the daemon started), "inited",
               \* "running" or "stopped" (instance dropped)
  pc,          \* the next step of the operation under way
  op,          \* which operation that is
  cur,         \* Apply: the servers read from resolv.conf
  target,      \* the servers applyViaResolvConf is to write
  registered,  \* the module's metrics are in this process's registry
  operator,    \* the operator's own resolv.conf
  died,        \* the steps at which the daemon has died so far
  crashes, faults, edits

files == <<resolv, copy, marker>>
locals == <<op, cur, target>>
env == <<operator, died, crashes, faults, edits>>
vars == <<files, memory, mod, pc, locals, registered, env>>

Steps == {"copy", "write", "mark", "restore", "rmcopy", "unmark", "register"}

TypeOK ==
  /\ resolv \in Confs /\ copy \in Confs /\ operator \in Confs
  /\ marker \in Servers \cup {"absent", "torn"}
  /\ memory \in Servers \cup {"absent"}
  /\ mod \in {"fresh", "inited", "running", "stopped"}
  /\ pc \in Steps \cup {"idle", "down", "panicked"}
  /\ op \in {"none", "recover", "start", "stop"}
  /\ cur \in Servers /\ target \in Servers
  /\ registered \in BOOLEAN
  /\ died \subseteq Steps \cup {"idle"}
  /\ crashes \in 0..MaxCrashes /\ faults \in 0..MaxFaults
  /\ edits \in 0..MaxEdits

Init ==
  /\ operator \in {Conf("operator", d) : d \in OperatorDns}
  /\ resolv = operator
  /\ copy = Absent /\ marker = "absent" /\ memory = "absent"
  /\ mod = "fresh" /\ pc = "idle" /\ op = "none"
  /\ cur = "none" /\ target = "none"
  /\ registered = FALSE
  /\ died = {} /\ crashes = 0 /\ faults = 0 /\ edits = 0

(***************************************************************************)
(* A write of a file: it succeeds, or fails with the file as it was or cut *)
(* short (os.WriteFile truncates before it writes).                        *)
(***************************************************************************)
Spoiled(old, torn) == {old, torn}

Succeeds == UNCHANGED faults

Fails == faults < MaxFaults /\ faults' = faults + 1

(***************************************************************************)
(* Init: a new resolver, RecoverFromCrash, the rest of Init.               *)
(***************************************************************************)
\* Mutant: Init forgets RecoverFromCrash.
LoadIgnoresMarker ==
  /\ pc = "idle"
  /\ mod \in {"fresh", "stopped"}
  /\ memory' = "absent"
  /\ op' = "recover"
  /\ \/ /\ TRUE
        /\ pc' = "register"
        /\ UNCHANGED target
     \/ /\ FALSE
        /\ pc' = "unmark"
        /\ UNCHANGED target
     \/ /\ FALSE
        /\ pc' = "restore"
        /\ target' = marker
  /\ UNCHANGED <<files, mod, cur, registered, env>>

Load ==
  /\ pc = "idle"
  /\ mod \in {"fresh", "stopped"}
  /\ memory' = "absent"
  /\ op' = "recover"
  /\ \/ /\ marker \in {"absent", "torn"}
        /\ pc' = "register"
        /\ UNCHANGED target
     \/ /\ marker = "none"
        /\ pc' = "unmark"
        /\ UNCHANGED target
     \/ /\ marker \notin {"absent", "torn", "none"}
        /\ pc' = "restore"
        /\ target' = marker
  /\ UNCHANGED <<files, mod, cur, registered, env>>

\* MustRegister panics when the registry holds the metrics of an earlier
\* instance.
Register ==
  /\ pc = "register"
  /\ \/ /\ registered
        /\ pc' = "panicked"
        /\ mod' = "fresh"
        /\ registered' = FALSE
     \/ /\ ~registered
        /\ pc' = "idle"
        /\ mod' = "inited"
        /\ registered' = TRUE
  /\ UNCHANGED <<files, memory, locals, env>>

(***************************************************************************)
(* Start: the forwarder first, then Apply.  An Apply that fails is only    *)
(* logged.                                                                 *)
(***************************************************************************)
Start ==
  /\ pc = "idle"
  /\ mod = "inited"
  /\ \/ /\ mod' = "stopped"     \* the forwarder does not start
        /\ UNCHANGED <<pc, locals>>
     \/ /\ pc' = "copy"
        /\ op' = "start"
        /\ cur' = resolv.dns
        /\ target' = "google"
        /\ UNCHANGED mod
  /\ UNCHANGED <<files, memory, registered, env>>

(***************************************************************************)
(* applyViaResolvConf, also the fallback of a restore without a copy.      *)
(***************************************************************************)
\* Mutant: the copy is taken of the file to come, not of the one in place.
CopyConfAfter ==
  /\ pc = "copy"
  /\ pc' = "write"
  /\ \/ resolv = Absent /\ UNCHANGED copy /\ Succeeds
     \/ resolv # Absent /\ copy' = Generated(target) /\ Succeeds
     \/ resolv # Absent /\ copy' \in Spoiled(copy, Torn) /\ Fails
  /\ UNCHANGED <<resolv, marker, memory, mod, locals, registered, operator, died, crashes, edits>>

CopyConf ==
  /\ pc = "copy"
  /\ pc' = "write"
  /\ \/ resolv = Absent /\ UNCHANGED copy /\ Succeeds
     \/ resolv # Absent /\ copy' = resolv /\ Succeeds
     \/ resolv # Absent /\ copy' \in Spoiled(copy, Torn) /\ Fails
  /\ UNCHANGED <<resolv, marker, memory, mod, locals, registered, operator, died, crashes, edits>>

\* How an operation goes on after restorePlatform (or Apply) failed.
GiveUp ==
  \/ op = "start" /\ pc' = "idle" /\ mod' = "running"
  \/ op = "stop" /\ pc' = "idle" /\ mod' = "stopped"
  \/ op = "recover" /\ pc' = "register" /\ UNCHANGED mod

WriteConf ==
  /\ pc = "write"
  /\ \/ /\ resolv' = Generated(target)
        /\ pc' = IF op = "start" THEN "mark" ELSE "unmark"
        /\ Succeeds
        /\ UNCHANGED mod
     \/ /\ resolv' \in Spoiled(resolv, Torn)
        /\ Fails
        /\ GiveUp
  /\ UNCHANGED <<copy, marker, memory, locals, registered, operator, died, crashes, edits>>

\* The marker comes last; a failure to write it is only logged.
WriteMarker ==
  /\ pc = "mark"
  /\ \/ marker' = cur /\ Succeeds
     \/ marker' \in Spoiled(marker, "torn") /\ Fails
  /\ memory' = cur
  /\ mod' = "running"
  /\ pc' = "idle"
  /\ UNCHANGED <<resolv, copy, locals, registered, operator, died, crashes, edits>>

(***************************************************************************)
(* Stop and Restore.                                                       *)
(***************************************************************************)
Previous == IF memory # "absent" THEN memory ELSE marker

\* Mutant: Restore deletes the marker before it restores.
StopDropsMarker ==
  /\ pc = "idle"
  /\ mod = "running"
  /\ \/ /\ Previous \in {"absent", "torn"}
        /\ mod' = "stopped"
        /\ UNCHANGED <<memory, pc, locals>>
     \/ /\ Previous \notin {"absent", "torn"}
        /\ memory' = Previous
        /\ target' = IF Previous = "none" THEN "cloudflare" ELSE Previous
        /\ op' = "stop"
        /\ pc' = "restore"
        /\ UNCHANGED <<mod, cur>>
  /\ marker' = "absent"
  /\ UNCHANGED <<resolv, copy, registered, env>>

Stop ==
  /\ pc = "idle"
  /\ mod = "running"
  /\ \/ /\ Previous \in {"absent", "torn"}
        /\ mod' = "stopped"
        /\ UNCHANGED <<memory, pc, locals>>
     \/ /\ Previous \notin {"absent", "torn"}
        /\ memory' = Previous
        /\ target' = IF Previous = "none" THEN "cloudflare" ELSE Previous
        /\ op' = "stop"
        /\ pc' = "restore"
        /\ UNCHANGED <<mod, cur>>
  /\ UNCHANGED <<files, registered, env>>

\* restoreViaResolvConf: the copy is written back; without one the previous
\* servers are applied.
RestoreConf ==
  /\ pc = "restore"
  /\ \/ /\ copy = Absent
        /\ pc' = "copy"
        /\ UNCHANGED <<resolv, mod, faults>>
     \/ /\ copy # Absent
        /\ resolv' = copy
        /\ pc' = "rmcopy"
        /\ Succeeds
        /\ UNCHANGED mod
     \/ /\ copy # Absent
        /\ resolv' \in Spoiled(resolv, Torn)
        /\ Fails
        /\ GiveUp
  /\ UNCHANGED <<copy, marker, memory, locals, registered, operator, died, crashes, edits>>

RemoveCopy ==
  /\ pc = "rmcopy"
  /\ pc' = "unmark"
  /\ \/ copy' = Absent /\ Succeeds
     \/ UNCHANGED copy /\ Fails
  /\ UNCHANGED <<resolv, marker, memory, mod, locals, registered, operator, died, crashes, edits>>

DeleteBackup ==
  /\ pc = "unmark"
  /\ \/ marker' = "absent" /\ Succeeds
     \/ UNCHANGED marker /\ Fails
  /\ \/ /\ op = "recover"
        /\ pc' = "register"
        /\ UNCHANGED <<memory, mod>>
     \/ /\ op = "stop"
        /\ pc' = "idle"
        /\ memory' = "absent"
        /\ mod' = "stopped"
  /\ UNCHANGED <<resolv, copy, locals, registered, operator, died, crashes, edits>>

(***************************************************************************)
(* The environment: the daemon dies, possibly within a write; it is booted *)
(* again; the operator edits an unmanaged file while squawk is not at work.*)
(***************************************************************************)
Crash ==
  /\ pc \notin {"down", "panicked"}
  /\ crashes < MaxCrashes
  /\ crashes' = crashes + 1
  /\ died' = died \cup {pc}
  /\ copy' \in {copy} \cup IF pc = "copy" THEN {Torn} ELSE {}
  /\ resolv' \in {resolv} \cup
       IF pc = "write" \/ (pc = "restore" /\ copy # Absent) THEN {Torn} ELSE {}
  /\ marker' \in {marker} \cup IF pc = "mark" THEN {"torn"} ELSE {}
  /\ pc' = "down"
  /\ mod' = "fresh"
  /\ memory' = "absent"
  /\ registered' = FALSE
  /\ UNCHANGED <<locals, operator, faults, edits>>

Boot ==
  /\ pc \in {"down", "panicked"}
  /\ pc' = "idle"
  /\ UNCHANGED <<files, memory, mod, locals, registered, env>>

OperatorEdits ==
  /\ pc = "idle"
  /\ mod # "running"
  /\ resolv = operator
  /\ edits < MaxEdits
  /\ edits' = edits + 1
  /\ operator' \in {Conf("operator", d) : d \in OperatorDns}
  /\ resolv' = operator'
  /\ UNCHANGED <<copy, marker, memory, mod, pc, locals, registered, died, crashes, faults>>

Next ==
  \/ Load \/ Register \/ Start \/ CopyConf \/ WriteConf \/ WriteMarker
  \/ Stop \/ RestoreConf \/ RemoveCopy \/ DeleteBackup
  \/ Crash \/ Boot \/ OperatorEdits

Spec == Init /\ [][Next]_vars
-----------------------------------------------------------------------------
(***************************************************************************)
(* Properties.                                                             *)
(***************************************************************************)

\* Init has recovered, or Stop or a failed Start is over.
AtRest == pc = "idle" /\ mod \in {"inited", "stopped"}

\* The steps of Apply: resolv.conf is replaced before the marker is written.
Applying == {"copy", "write", "mark"}

\* When squawk is not at work the system uses the operator's name servers
\* again, however often the daemon died before: between operations, within
\* Stop or within the recovery itself.  Needed: no file operation failed, no
\* death within Apply, a file that lists a server, and, once the operator
\* has edited the file, no death within a restore.
ServersRestored ==
  /\ AtRest /\ faults = 0
  /\ died \cap Applying = {}
  /\ operator.dns # "none"
  /\ edits > 0 => died \subseteq {"idle"}
  => resolv.dns = operator.dns

\* The operator's own file, edits included, is in place or in the copy: no
\* sequence of starts, stops and deaths between them replaces it by a
\* generated one for good.
OriginalKept ==
  faults = 0 /\ died \subseteq {"idle"} /\ operator.dns # "none"
  => operator \in {resolv, copy}

\* When one file operation failed and no file was left cut short, the next
\* Init finds what it needs: the operator's servers are in force or the
\* marker names them.
Recoverable ==
  /\ AtRest /\ died = {} /\ faults <= 1 /\ edits = 0
  /\ resolv # Torn /\ operator.dns # "none"
  => operator.dns \in {resolv.dns, marker}

\* Whatever fails and whenever the daemon dies, the copy is removed only after
\* its content was written back to resolv.conf.
CopyOutlivesRestore ==
  [][copy # Absent /\ copy' = Absent => resolv = copy]_vars
=============================================================================
