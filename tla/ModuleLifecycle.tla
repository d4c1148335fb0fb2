-------------------------- MODULE ModuleLifecycle --------------------------
(***************************************************************************)
(* What the supervisor promises an operator about its modules: the life a  *)
(* module leads in the output of `penguin modules`, and when it may do     *)
(* work.  No goroutines, no lock, no file: every operation is one step.    *)
(*                                                                         *)
(* A module works only between a start and the next halt; a failure costs  *)
(* it one of its restarts, and one that has used them all up is shown as   *)
(* failed at every further failure - never as degraded - until it is       *)
(* enabled afresh.                                                         *)
(***************************************************************************)
EXTENDS Naturals

CONSTANT Names

VARIABLES
    view,       \* the state shown for each module
    working,    \* the modules with an instance at work
    exhausted   \* the modules that have used up their restarts

lifecycleVars == <<view, working, exhausted>>

Views == {"disabled", "running", "degraded", "failed"}

Init ==
    /\ view = [m \in Names |-> "disabled"]
    /\ working = {}
    /\ exhausted = {}

Enable(m) ==
    /\ view[m] = "disabled"
    /\ view' = [view EXCEPT ![m] = "running"]
    /\ working' = working \cup {m}
    /\ UNCHANGED exhausted

Disable(m) ==
    /\ view' = [view EXCEPT ![m] = "disabled"]
    /\ working' = working \ {m}
    /\ exhausted' = exhausted \ {m}

DisableAll ==
    /\ view' = [m \in Names |-> "disabled"]
    /\ working' = {}
    /\ exhausted' = {}

\* A failure with a restart left.
Degrade(m) ==
    /\ view[m] # "disabled"
    /\ m \notin exhausted
    /\ view' = [view EXCEPT ![m] = "degraded"]
    /\ UNCHANGED <<working, exhausted>>

\* A failure with no restart left.
Park(m) ==
    /\ view[m] # "disabled"
    /\ view' = [view EXCEPT ![m] = "failed"]
    /\ exhausted' = exhausted \cup {m}
    /\ UNCHANGED working

\* A restart replaces the instance; one that fails leaves none.
Recover(m) ==
    /\ view[m] # "disabled"
    /\ view' = [view EXCEPT ![m] = "running"]
    /\ working' = working \cup {m}
    /\ UNCHANGED exhausted

RecoverFails(m) ==
    /\ view[m] # "disabled"
    /\ working' = working \ {m}
    /\ UNCHANGED <<view, exhausted>>

Next ==
    \/ \E m \in Names :
          \/ Enable(m) \/ Disable(m) \/ Degrade(m)
          \/ Park(m) \/ Recover(m) \/ RecoverFails(m)
    \/ DisableAll

Spec == Init /\ [][Next]_lifecycleVars
=============================================================================
