------------------------------ MODULE Reaping ------------------------------
(***************************************************************************)
(* How run_lifting.py runs one backend and learns how it ended: run_one in *)
(* a pool's worker thread, the child process it starts, and the daemon     *)
(* thread that waits for the child with os.wait4 to get its memory usage.  *)
(* The child is anything that may exit, die of a signal or hang.           *)
(*                                                                         *)
(* subprocess.Popen.kill is the standard library's: it first polls with    *)
(* waitpid(WNOHANG), which reaps a child that has already ended, and only  *)
(* a child still running then is sent SIGKILL.                             *)
(***************************************************************************)
EXTENDS Naturals

CONSTANT MaxAttempts   \* bound: how often run_one is called for the pair

ASSUME ReapingAssumption == MaxAttempts \in Nat

VARIABLES
    attempt,   \* the call of run_one, by number; 0 before the first
    worker,    \* where run_one is
    late,      \* timed_out
    child,     \* the process, as the kernel knows it
    code,      \* how it ended: exit(0), another exit code, or a signal
    reaper,    \* the thread of reap()
    reaped,    \* reaped["result"]
    status     \* record["status"]

reapVars == <<attempt, worker, late, child, code, reaper, reaped, status>>

ReapInit ==
    /\ attempt = 0 /\ worker = "idle" /\ late = FALSE
    /\ child = "none" /\ code = "none"
    /\ reaper = "none" /\ reaped = "none" /\ status = "none"

(***************************************************************************)
(* The worker                                                              *)
(***************************************************************************)
(* The log files of the attempt are emptied with the start.  An attempt    *)
(* waits for a child that nobody waits for to be over (a bound: that the   *)
(* two may write the same directory at once is LiftSession's matter).      *)
Begin ==
    /\ worker = "idle" /\ attempt < MaxAttempts /\ child # "running"
    /\ attempt' = attempt + 1 /\ worker' = "starting"
    /\ late' = FALSE /\ child' = "none" /\ code' = "none"
    /\ reaper' = "none" /\ reaped' = "none" /\ status' = "none"

(* ensure_dir raises outside the try, open() and Popen inside it.          *)
NotStarted ==
    /\ worker = "starting"
    /\ \/ status' = "raised" /\ worker' = "idle"
       \/ status' = "crashed" /\ worker' = "reading"
    /\ UNCHANGED <<attempt, late, child, code, reaper, reaped>>

Popen ==
    /\ worker = "starting" /\ worker' = "launched" /\ child' = "running"
    /\ UNCHANGED <<attempt, late, code, reaper, reaped, status>>

StartReaper ==
    /\ worker = "launched" /\ worker' = "joining" /\ reaper' = "waiting"
    /\ UNCHANGED <<attempt, late, child, code, reaped, status>>

(* reaper.start() raises ("can't start new thread"): the child goes on,    *)
(* and nobody waits for it, times it out or kills it.                      *)
ReaperNotStarted ==
    /\ worker = "launched" /\ worker' = "reading" /\ status' = "crashed"
    /\ UNCHANGED <<attempt, late, child, code, reaper, reaped>>

JoinByPoll ==
    /\ worker = "joining"
    /\ late' = (reaper # "ended" /\ child = "running")
    /\ child' = IF child = "zombie" THEN "gone" ELSE child
    /\ worker' = IF late' THEN "killing" ELSE "rejoining"
    /\ UNCHANGED <<attempt, code, reaper, reaped, status>>

(* reaper.join(timeout_s) and is_alive(): the answer counts, not the time. *)
Join ==
    /\ worker = "joining"
    /\ late' = (reaper # "ended")
    /\ worker' = IF late' THEN "killing" ELSE "collecting"
    /\ UNCHANGED <<attempt, child, code, reaper, reaped, status>>

(* kill(), its poll: a child that has ended by now is reaped here, its     *)
(* result dropped, and no signal is sent.                                  *)
KillPolls ==
    /\ worker = "killing"
    /\ worker' = IF child = "running" THEN "signalling" ELSE "rejoining"
    /\ child' = IF child = "zombie" THEN "gone" ELSE child
    /\ UNCHANGED <<attempt, late, code, reaper, reaped, status>>

KillTerminates ==
    /\ worker = "signalling" /\ worker' = "rejoining"
    /\ \/ child = "running" /\ child' = "zombie" /\ code' = "signal"
       \/ UNCHANGED <<child, code>>
    /\ UNCHANGED <<attempt, late, reaper, reaped, status>>

(* kill(), its signal; the child may have ended since the poll.            *)
KillSignals ==
    /\ worker = "signalling" /\ worker' = "rejoining"
    /\ IF child = "running" THEN child' = "zombie" /\ code' = "signal"
                            ELSE UNCHANGED <<child, code>>
    /\ UNCHANGED <<attempt, late, reaper, reaped, status>>

RejoinNot ==
    /\ worker = "rejoining" /\ worker' = "collecting"
    /\ UNCHANGED <<attempt, late, child, code, reaper, reaped, status>>

Rejoin ==
    /\ worker = "rejoining" /\ reaper = "ended" /\ worker' = "collecting"
    /\ UNCHANGED <<attempt, late, child, code, reaper, reaped, status>>

OutcomeOfPopen ==
    IF reaped \in {"nonzero", "signal"}
    THEN IF late THEN "timeout" ELSE "failed"
    ELSE "ok"

(* reaped["result"] is a KeyError when wait4 failed.                       *)
Outcome ==
    IF reaped = "none" THEN "crashed"
    ELSE IF late THEN "timeout"
    ELSE IF reaped = "zero" THEN "ok" ELSE "failed"

Collect ==
    /\ worker = "collecting" /\ status' = Outcome
    /\ worker' = IF Outcome = "ok" THEN "unlinking" ELSE "reading"
    /\ UNCHANGED <<attempt, late, child, code, reaper, reaped>>

(* The logs of a success are removed inside the try: an OSError there      *)
(* makes a crash of it, and takes its measurements back.                   *)
Unlink ==
    /\ worker = "unlinking" /\ worker' = "reading"
    /\ status' \in {"ok", "crashed"}
    /\ UNCHANGED <<attempt, late, child, code, reaper, reaped>>

(* summary.json goes into the record whatever the status is.               *)
ReadSummary ==
    /\ worker = "reading" /\ worker' = "idle"
    /\ UNCHANGED <<attempt, late, child, code, reaper, reaped, status>>

(***************************************************************************)
(* The reaper and the child                                                *)
(***************************************************************************)
(* wait4 returns the child's status once; after that there is no child.    *)
Wait4 ==
    /\ reaper = "waiting"
    /\ \/ child = "zombie" /\ child' = "gone" /\ reaped' = code /\ reaper' = "stored"
       \/ child = "gone" /\ reaper' = "failed" /\ UNCHANGED <<child, reaped>>
    /\ UNCHANGED <<attempt, worker, late, code, status>>

(* The thread is alive for a while after its last statement.               *)
ReaperEnds ==
    /\ reaper \in {"stored", "failed"} /\ reaper' = "ended"
    /\ UNCHANGED <<attempt, worker, late, child, code, reaped, status>>

ChildEnds(c) ==
    /\ child = "running" /\ child' = "zombie" /\ code' = c
    /\ UNCHANGED <<attempt, worker, late, reaper, reaped, status>>

Worker == NotStarted \/ Popen \/ StartReaper \/ ReaperNotStarted \/ Join
          \/ KillPolls \/ KillSignals \/ Rejoin \/ Collect \/ Unlink \/ ReadSummary

Reaper == Wait4 \/ ReaperEnds

ReapNext ==
    \/ Begin \/ Worker \/ Reaper
    \/ \E c \in {"zero", "nonzero", "signal"} : ChildEnds(c)

ReapSpec == ReapInit /\ [][ReapNext]_reapVars

-----------------------------------------------------------------------------
ReapTypeOK ==
    /\ attempt \in 0..MaxAttempts
    /\ worker \in {"idle", "starting", "launched", "joining", "killing",
                   "signalling", "rejoining", "collecting", "unlinking", "reading"}
    /\ late \in BOOLEAN
    /\ child \in {"none", "running", "zombie", "gone"}
    /\ code \in {"none", "zero", "nonzero", "signal"}
    /\ reaper \in {"none", "waiting", "stored", "failed", "ended"}
    /\ reaped \in {"none", "zero", "nonzero", "signal"}
    /\ status \in {"none", "raised", "crashed", "ok", "failed", "timeout"}

(* However exit, timeout, poll, signal and wait4 fall in with one another  *)
(* (lines 196-203), a worker that has its record leaves no process running *)
(* or unreaped and no thread waiting: the next job takes the place of one  *)
(* that is really over.  Only if the reaper could not be started (line     *)
(* 193) is there a child that nobody looks after, and it is recorded as    *)
(* crashed.                                                                *)
Unattended == reaper = "none" /\ child # "none"

NothingLeftBehind ==
    worker \in {"idle", "starting", "unlinking", "reading"} =>
        /\ reaper \in {"none", "ended"}
        /\ IF Unattended THEN status = "crashed" ELSE child \in {"none", "gone"}

(* "ok" is said only of a child that exited with 0 by itself, that nobody  *)
(* signalled and whose usage was measured (lines 202-232): not of one that *)
(* was polled away, whose return code Popen would give as 0 as well.       *)
OkMeansExitedByItself ==
    status = "ok" => code = "zero" /\ reaped = "zero" /\ ~ late

(* A child that ran and is recorded as crashed, without its time and       *)
(* memory, was polled away by kill() after its timeout (line 199), or had  *)
(* no reaper (line 193), or was a success whose logs could not be removed  *)
(* (lines 231-232).  So the record of a child that wait4 reported as late, *)
(* failed or killed keeps its measurements.                                *)
PolledAway == late /\ child = "gone" /\ reaper = "ended" /\ reaped = "none"

LogsKept == ~ late /\ code = "zero" /\ reaped = "zero"

CrashedHidesOnly ==
    status = "crashed" /\ child # "none" =>
        Unattended \/ PolledAway \/ LogsKept
=============================================================================
