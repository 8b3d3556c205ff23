----------------------------- MODULE PauseGate ------------------------------
(***************************************************************************)
(* What PauseController promises to its user, without threads, pools,      *)
(* futures or memory (docstring of run_lifting.py, lines 125-131, read     *)
(* with the comment at lines 438-441): jobs start while the gate is open;  *)
(* a pause closes it for good, except for the few jobs that were already   *)
(* through the last check at that moment; jobs that have started finish;   *)
(* jobs are declined only because of a pause; every job is reported once,  *)
(* as what happened to it.                                                 *)
(***************************************************************************)
EXTENDS Integers, FiniteSets

CONSTANTS
    Jobs,
    MaxGrace       \* how many jobs can be past the last check at once

VARIABLES
    phase,         \* what has become of each job
    paused,        \* the gate is closed
    grace          \* the jobs the closing gate still lets through

gateVars == <<phase, paused, grace>>

Phases == {"waiting", "started", "over", "declined", "ran", "not_started"}

GateInit ==
    /\ phase = [j \in Jobs |-> "waiting"]
    /\ paused = FALSE
    /\ grace = {}

Move(j, from, to) ==
    /\ phase[j] = from
    /\ phase' = [phase EXCEPT ![j] = to]
    /\ UNCHANGED <<paused, grace>>

Pause ==
    /\ ~ paused
    /\ paused' = TRUE
    /\ grace' \in SUBSET {j \in Jobs : phase[j] = "waiting"}
    /\ Cardinality(grace') <= MaxGrace
    /\ UNCHANGED phase

Start(j) ==
    /\ paused => j \in grace
    /\ Move(j, "waiting", "started")

Decline(j) ==
    /\ paused /\ j \notin grace
    /\ Move(j, "waiting", "declined")

GateNext ==
    \/ Pause
    \/ \E j \in Jobs :
          \/ Start(j)
          \/ Decline(j)
          \/ Move(j, "started", "over")
          \/ Move(j, "over", "ran")
          \/ Move(j, "declined", "not_started")

GateSpec == GateInit /\ [][GateNext]_gateVars
=============================================================================
