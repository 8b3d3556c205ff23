--------------------------- MODULE BackendPromise ---------------------------
(***************************************************************************)
(* What the session (LiftSession: Launch, NotLaunched, Lift, Dies,         *)
(* LosesChild, LiftEnds) takes one attempt of one backend at one binary to *)
(* be, without the worker's threads, the child process, its tool and the   *)
(* functions it lifts: an attempt empties and fills summary.json and then  *)
(* lift_records.json, may be over early at any point, and is ok only if it *)
(* returned after a summary without fatal_error.  A backend that was lost  *)
(* sight of is a failed attempt that still writes.                         *)
(***************************************************************************)
VARIABLES
    stage,      \* how far the attempt is
    verdict,    \* its fatal_error, once in the summary
    summary,    \* summary.json; missing and torn are one
    records,    \* whether lift_records.json is whole
    outcome     \* what is known of the attempt outside

promiseVars == <<stage, verdict, summary, records, outcome>>

PromiseInit ==
    /\ stage = "none" /\ verdict = "none" /\ outcome = "never"
    /\ summary = "unreadable" /\ records = FALSE

Start ==
    /\ stage = "none" /\ stage' = "lifting" /\ outcome' = "running"
    /\ UNCHANGED <<verdict, summary, records>>

Summarise ==
    /\ \/ stage = "lifting" /\ stage' = "summary"
          /\ summary' = "unreadable" /\ UNCHANGED verdict
       \/ stage = "summary" /\ stage' = "summarised"
          /\ verdict' \in {"clean", "fatal"} /\ summary' = verdict'
    /\ UNCHANGED <<records, outcome>>

Record ==
    /\ \/ stage = "summarised" /\ stage' = "records" /\ records' = FALSE
       \/ stage = "records" /\ stage' = "returns" /\ records' = TRUE
    /\ UNCHANGED <<verdict, summary, outcome>>

Over ==
    /\ stage # "none" /\ stage' = "none" /\ verdict' = "none"
    /\ UNCHANGED <<summary, records>>

Return ==
    /\ stage = "returns" /\ outcome = "running" /\ Over
    /\ outcome' = IF verdict = "clean" THEN "ok" ELSE "failed"

Die == Over /\ outcome' = "failed"

(* The exception leaves run_one before there is a backend.                 *)
Raise == stage = "lifting" /\ outcome = "running" /\ Over /\ outcome' = "raised"

LoseSight ==
    /\ stage # "none" /\ outcome = "running" /\ outcome' = "failed"
    /\ UNCHANGED <<stage, verdict, summary, records>>

PromiseNext == Start \/ Summarise \/ Record \/ Return \/ Die \/ Raise \/ LoseSight

PromiseSpec == PromiseInit /\ [][PromiseNext]_promiseVars
=============================================================================
