--------------------------- MODULE ReapingProofs ----------------------------
(***************************************************************************)
(* Proofs about Reaping: whatever the order of exit, timeout, poll, signal *)
(* and wait4, for any number of attempts.                                  *)
(***************************************************************************)
EXTENDS Reaping, TLAPS

(***************************************************************************)
(* The three properties speak of the moment an attempt is over; what makes *)
(* them true is said of every moment before it.  The core is the account   *)
(* of the one status a process leaves: wait4 and the poll compete for it,  *)
(* and the poll gets it only after a timeout.  A child without a reaper    *)
(* keeps its status to itself.                                             *)
(***************************************************************************)
Busy == {"launched", "joining", "killing", "signalling", "rejoining", "collecting"}

OneStatus ==
    /\ child \in {"zombie", "gone"} <=> code # "none"
    /\ child = "none" => reaper = "none"
    /\ child = "gone" => reaper # "none"
    /\ Unattended =>
          \/ worker = "launched"
          \/ worker \in {"reading", "idle"} /\ status = "crashed"
    /\ reaper \in {"stored", "failed", "ended"} => child = "gone"
    /\ reaped # "none" => reaped = code /\ reaper \in {"stored", "ended"}
    /\ reaper = "stored" => reaped # "none"
    /\ child = "gone" /\ reaped = "none" => late = TRUE

WorkerKnows ==
    /\ worker \in Busy => status = "none"
    /\ worker = "starting" =>
          child = "none" /\ reaped = "none" /\ status = "none" /\ ~ late
    /\ worker = "launched" =>
          reaper = "none" /\ child # "none" /\ reaped = "none" /\ ~ late
    /\ worker = "joining" => ~ late
    /\ worker \in {"killing", "signalling", "rejoining"} => late = TRUE
    /\ worker \in Busy \ {"launched"} => reaper # "none"
    /\ worker \in {"collecting", "unlinking"} => reaper = "ended"
    /\ worker = "unlinking" => status = "ok"
    /\ status = "raised" => worker = "idle"
    /\ worker \notin Busy => reaper \in {"none", "ended"}

RecordTrue ==
    /\ status = "ok" => reaped = "zero" /\ ~ late
    /\ status = "crashed" => reaped = "none" \/ LogsKept

ReapInv == ReapTypeOK /\ OneStatus /\ WorkerKnows /\ RecordTrue

LEMMA ReapInvHolds == ReapSpec => []ReapInv
<1> USE ReapingAssumption
<1>1. ReapInit => ReapInv
  <2> SUFFICES ASSUME ReapInit
               PROVE  ReapInv
    OBVIOUS
  <2>1. ReapTypeOK
    <3>1. 0 \in 0..MaxAttempts
      OBVIOUS
    <3> QED
      BY <3>1 DEF ReapInit, ReapTypeOK
  <2>2. OneStatus
    BY DEF ReapInit, OneStatus, Unattended
  <2>3. WorkerKnows
    BY DEF ReapInit, WorkerKnows, Busy
  <2>4. RecordTrue
    BY DEF ReapInit, RecordTrue
  <2> QED
    BY <2>1, <2>2, <2>3, <2>4 DEF ReapInv
<1>2. ReapInv /\ [ReapNext]_reapVars => ReapInv'
  <2> SUFFICES ASSUME ReapInv, [ReapNext]_reapVars
               PROVE  ReapInv'
    OBVIOUS
  <2> USE DEF ReapInv, ReapTypeOK, OneStatus, WorkerKnows, RecordTrue, Busy,
               Unattended, LogsKept
  <2>1. CASE Begin
    <3>1. attempt' \in 0..MaxAttempts
      BY <2>1 DEF Begin
    <3> QED
      BY <2>1, <3>1 DEF Begin
  <2>2. CASE NotStarted
    BY <2>2 DEF NotStarted
  <2>3. CASE Popen \/ StartReaper \/ ReaperNotStarted
    BY <2>3 DEF Popen, StartReaper, ReaperNotStarted
  <2>4. CASE Join
    BY <2>4 DEF Join
  <2>5. CASE KillPolls
    BY <2>5 DEF KillPolls
  <2>6. CASE KillSignals
    BY <2>6 DEF KillSignals
  <2>7. CASE Rejoin
    BY <2>7 DEF Rejoin
  <2>8. CASE Collect
    BY <2>8 DEF Collect, Outcome
  <2>14. CASE Unlink
    BY <2>14 DEF Unlink
  <2>9. CASE ReadSummary
    BY <2>9 DEF ReadSummary
  <2>10. CASE Wait4
    BY <2>10 DEF Wait4
  <2>11. CASE ReaperEnds
    BY <2>11 DEF ReaperEnds
  <2>12. ASSUME NEW c \in {"zero", "nonzero", "signal"}, ChildEnds(c)
         PROVE  ReapInv'
    BY <2>12 DEF ChildEnds
  <2>13. CASE UNCHANGED reapVars
    BY <2>13 DEF reapVars
  <2> QED
    BY <2>1, <2>2, <2>3, <2>4, <2>5, <2>6, <2>7, <2>8, <2>9, <2>10, <2>11,
       <2>12, <2>13, <2>14 DEF ReapNext, Worker, Reaper
<1> QED
  BY <1>1, <1>2, PTL DEF ReapSpec

(* The variables of the worker, the reaper and the child stay what they    *)
(* are meant to be.                                                        *)
THEOREM ReapTypeCorrect == ReapSpec => []ReapTypeOK
<1>1. ReapInv => ReapTypeOK
  BY DEF ReapInv
<1> QED
  BY <1>1, ReapInvHolds, PTL

(* When run_one has its record, the child is reaped and the reaper over,   *)
(* or the reaper could not be started and the record says crashed.         *)
THEOREM NothingIsLeftBehind == ReapSpec => []NothingLeftBehind
<1>1. ReapInv => NothingLeftBehind
  BY DEF ReapInv, ReapTypeOK, OneStatus, WorkerKnows, Busy, Unattended,
         NothingLeftBehind
<1> QED
  BY <1>1, ReapInvHolds, PTL

(* A record says ok only of a child that exited with 0 before its timeout  *)
(* and whose status wait4 got.                                             *)
THEOREM OkExitedByItself == ReapSpec => []OkMeansExitedByItself
<1>1. ReapInv => OkMeansExitedByItself
  BY DEF ReapInv, OneStatus, RecordTrue, OkMeansExitedByItself
<1> QED
  BY <1>1, ReapInvHolds, PTL

(* A record says crashed of a child that ran only if the poll of kill()    *)
(* took its result, if it had no reaper, or if the logs of its success     *)
(* stayed.                                                                 *)
THEOREM CrashedHidesNothingElse == ReapSpec => []CrashedHidesOnly
<1>1. ReapInv => CrashedHidesOnly
  BY DEF ReapInv, ReapTypeOK, OneStatus, WorkerKnows, RecordTrue, Busy,
         Unattended, PolledAway, LogsKept, CrashedHidesOnly
<1> QED
  BY <1>1, ReapInvHolds, PTL
=============================================================================
