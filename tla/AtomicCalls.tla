---------------------------- MODULE AtomicCalls ----------------------------
(***************************************************************************)
(* What the daemon promises whoever calls it: load, unload, status and a   *)
(* module's command each take effect in one step between the call and the  *)
(* answer, although several clients call at a time and some give up        *)
(* waiting.  No locks, no instances: a set of loaded modules, and per      *)
(* client a job that is asked for, decided and answered.                   *)
(*                                                                         *)
(* Only the jobs change the set, each at most once and as its answer says. *)
(* A load looks a second time before it answers, and fails if the module   *)
(* it loaded, or found loaded, is gone by then.                            *)
(***************************************************************************)
CONSTANTS
    Callers,      \* the clients
    Registered,   \* the modules there are
    Stranger      \* a name that is no module's

VARIABLES
    loaded,       \* the loaded modules
    job           \* what each client waits for

atomicVars == <<loaded, job>>

Operations == {"load", "unload", "status", "command"}

\* Nothing asked.
NoJob == [op |-> "none", name |-> Stranger, state |-> "none", gone |-> FALSE]

\* The answer, which a client that gave up no longer hears.
Told(c, answer) == IF job[c].gone THEN "deadline" ELSE answer

Becomes(c, state) == job' = [job EXCEPT ![c].state = state]
Answer(c, answer) == Becomes(c, Told(c, answer))

Init ==
    /\ loaded = {}
    /\ job = [c \in Callers |-> NoJob]

\* A call is let in or turned away at the door.
Ask(c) ==
    /\ job[c] = NoJob
    /\ job'[c] \in [op : Operations, name : Registered \cup {Stranger},
                    state : {"asked", "refused", "no_command"}, gone : {FALSE}]
    /\ job' = [job EXCEPT ![c] = job'[c]]
    /\ UNCHANGED loaded

\* The client does not know the command: the call is never made.
Unknown(c) ==
    /\ job[c].op = "command" /\ job[c].state = "asked"
    /\ Answer(c, "no_command")
    /\ UNCHANGED loaded

\* A load finds the module loaded, knows no such module, fails and leaves
\* nothing behind, or loads it.
DecideLoad(c) ==
    /\ job[c].op = "load" /\ job[c].state = "asked"
    /\ LET n == job[c].name IN
       \/ n \in loaded /\ Becomes(c, "present") /\ UNCHANGED loaded
       \/ n \notin Registered /\ Answer(c, "not_found") /\ UNCHANGED loaded
       \/ n \in Registered \ loaded /\ Answer(c, "denied") /\ UNCHANGED loaded
       \/ n \in Registered \ loaded /\ Becomes(c, "present") /\ loaded' = loaded \cup {n}

\* The second look of a load.
FinishLoad(c) ==
    /\ job[c].op = "load" /\ job[c].state = "present"
    /\ \/ job[c].name \in loaded /\ Answer(c, "ok")
       \/ job[c].name \notin loaded /\ Answer(c, "internal")
    /\ UNCHANGED loaded

Unload(c) ==
    /\ job[c].op = "unload" /\ job[c].state = "asked"
    /\ loaded' = loaded \ {job[c].name}
    /\ Answer(c, "ok")

\* A status or a command finds its module or does not.
Look(c) ==
    /\ job[c].op \in {"status", "command"} /\ job[c].state = "asked"
    /\ \/ job[c].name \in loaded /\ Becomes(c, "present")
       \/ job[c].name \notin loaded /\ Answer(c, "not_found")
    /\ UNCHANGED loaded

\* Only what was found is reported on or run; a command may fail.
Finish(c) ==
    /\ job[c].state = "present"
    /\ \/ job[c].op = "status" /\ Answer(c, "ok")
       \/ job[c].op = "command" /\ \E answer \in {"ok", "failed", "internal"} : Answer(c, answer)
    /\ UNCHANGED loaded

\* The client stops waiting; the job goes on.
GiveUp(c) ==
    /\ job[c].state \in {"asked", "present"} /\ ~job[c].gone
    /\ job' = [job EXCEPT ![c].gone = TRUE]
    /\ UNCHANGED loaded

Return(c) ==
    /\ job[c].state \notin {"none", "asked", "present"}
    /\ job' = [job EXCEPT ![c] = NoJob]
    /\ UNCHANGED loaded

Next ==
    \E c \in Callers :
      \/ Ask(c) \/ Unknown(c) \/ DecideLoad(c) \/ FinishLoad(c) \/ Unload(c)
      \/ Look(c) \/ Finish(c) \/ GiveUp(c) \/ Return(c)

Spec == Init /\ [][Next]_atomicVars
=============================================================================
