---------------------------- MODULE MemoryBudget ----------------------------
(***************************************************************************)
(* The weighted semaphore of pipeline/run_lifting.py (class MemoryBudget,  *)
(* lines 83-105): worker threads take the estimated RSS of a job out of a  *)
(* common budget before they launch it and give it back afterwards.        *)
(*                                                                         *)
(* Both methods run with the lock of one threading.Condition held, so the  *)
(* code between two waits is one atomic action here:                       *)
(*   acquire  = Acquire, then Recheck after every wake-up;                 *)
(*   release  = Release.                                                   *)
(* used_mb is a float in the code.  It only ever holds sums of the integer *)
(* estimates of BACKEND_MEM_ESTIMATE_MB, which floats represent exactly,   *)
(* so it is an integer here, and TotalMB stands for the floor of total_mb: *)
(* an integer exceeds a number exactly when it exceeds its floor.          *)
(* --max-mem-mb is not validated, so TotalMB may be zero or negative.      *)
(***************************************************************************)
EXTENDS Integers

CONSTANTS
    NumWorkers,    \* threads that call acquire and release
    Amounts,       \* the estimates they ask for (BACKEND_MEM_ESTIMATE_MB)
    TotalMB        \* the budget (total_mb, rounded down)

ASSUME BudgetAssumption ==
    /\ NumWorkers \in Nat \ {0}
    /\ Amounts \subseteq Nat \ {0}
    /\ TotalMB \in Int

Workers == 1..NumWorkers

VARIABLES
    used_mb,       \* self.used_mb
    call,          \* where each thread stands with its current acquire
    amount         \* its amount_mb, 0 between two calls

budgetVars == <<used_mb, call, amount>>

(* "asleep" is a thread inside cv.wait(); "notified" is one that was woken *)
(* and has yet to run the loop test again.                                 *)
CallStates == {"none", "asleep", "notified", "holding"}

(***************************************************************************)
(* SumUpTo(h)[i] is h[1] + ... + h[i].                                     *)
(***************************************************************************)
SumUpTo(h) ==
    LET sum[i \in 0..NumWorkers] == IF i = 0 THEN 0 ELSE sum[i - 1] + h[i]
    IN  sum

SumOver(h) == SumUpTo(h)[NumWorkers]

(* What every thread has taken and not given back.                         *)
Held == [w \in Workers |-> IF call[w] = "holding" THEN amount[w] ELSE 0]

Holders == {w \in Workers : call[w] = "holding"}

-----------------------------------------------------------------------------

BudgetInit ==
    /\ used_mb = 0
    /\ call = [w \in Workers |-> "none"]
    /\ amount = [w \in Workers |-> 0]

(* Plausible slips in the loop test, each the mutant of a property below.  *)
FitsIgnoringAmount(a) == ~ (used_mb > 0 /\ used_mb > TotalMB)
FitsNoIdleCase(a) == ~ (used_mb + a > TotalMB)

(* The negation of the while test of acquire.                              *)
Fits(a) == ~ (used_mb > 0 /\ used_mb + a > TotalMB)

TakeOrSleepUncounted(w, a) ==
    IF Fits(a)
    THEN /\ used_mb' = IF call[w] = "none" THEN used_mb + a ELSE used_mb
         /\ call' = [call EXCEPT ![w] = "holding"]
    ELSE /\ call' = [call EXCEPT ![w] = "asleep"]
         /\ UNCHANGED used_mb

(* One evaluation of that test: leave the loop and take a, or wait().      *)
TakeOrSleep(w, a) ==
    IF Fits(a)
    THEN /\ used_mb' = used_mb + a
         /\ call' = [call EXCEPT ![w] = "holding"]
    ELSE /\ call' = [call EXCEPT ![w] = "asleep"]
         /\ UNCHANGED used_mb

(* acquire(a) from its first line to its return or its first wait().       *)
Acquire(w, a) ==
    /\ call[w] = "none"
    /\ amount' = [amount EXCEPT ![w] = a]
    /\ TakeOrSleep(w, a)

(* A woken thread has the lock again and runs the loop test.               *)
Recheck(w) ==
    /\ call[w] = "notified"
    /\ TakeOrSleep(w, amount[w])
    /\ UNCHANGED amount

(* notify() instead of notify_all(): only one sleeper is woken.            *)
ReleaseNotifyOne(w) ==
    /\ call[w] = "holding"
    /\ used_mb' = used_mb - amount[w]
    /\ amount' = [amount EXCEPT ![w] = 0]
    /\ \E v \in Workers :
          /\ call[v] = "asleep" \/ \A u \in Workers : call[u] # "asleep"
          /\ call' = [u \in Workers |->
                        IF u = w THEN "none"
                        ELSE IF u = v /\ call[u] = "asleep" THEN "notified"
                        ELSE call[u]]

(* acquire moved inside the try whose finally releases: a thread that      *)
(* leaves while it still waits gives back what it never took.              *)
ReleaseUntaken(w) ==
    /\ call[w] # "none"
    /\ used_mb' = used_mb - amount[w]
    /\ amount' = [amount EXCEPT ![w] = 0]
    /\ call' = [u \in Workers |->
                  IF u = w THEN "none"
                  ELSE IF call[u] = "asleep" THEN "notified"
                  ELSE call[u]]

(* release(amount): give back and notify_all().                            *)
Release(w) ==
    /\ call[w] = "holding"
    /\ used_mb' = used_mb - amount[w]
    /\ amount' = [amount EXCEPT ![w] = 0]
    /\ call' = [u \in Workers |->
                  IF u = w THEN "none"
                  ELSE IF call[u] = "asleep" THEN "notified"
                  ELSE call[u]]

BudgetNext ==
    \E w \in Workers :
        \/ \E a \in Amounts : Acquire(w, a)
        \/ Recheck(w)
        \/ Release(w)

BudgetSpec == BudgetInit /\ [][BudgetNext]_budgetVars

(***************************************************************************)
(* A woken thread gets the lock eventually, and a job's subprocess is      *)
(* killed at its timeout, so what is held is given back.  Nothing makes a  *)
(* thread call acquire.                                                    *)
(***************************************************************************)
FairBudgetSpec ==
    /\ BudgetSpec
    /\ \A w \in Workers : WF_budgetVars(Recheck(w)) /\ WF_budgetVars(Release(w))

-----------------------------------------------------------------------------
(* Type correctness; used_mb never goes below zero.                        *)
BudgetTypeOK ==
    /\ used_mb \in Nat
    /\ call \in [Workers -> CallStates]
    /\ amount \in [Workers -> Amounts \cup {0}]

(* The ledger is exact: used_mb is the sum of what the threads that came   *)
(* out of acquire and not yet into release asked for, however their calls  *)
(* interleave (lines 96-105).                                              *)
LedgerExact == used_mb = SumOver(Held)

(* "A job whose own estimate exceeds the whole budget is still allowed to  *)
(* run (just never alongside anything else)" (lines 86-88): whenever more  *)
(* than the budget is taken, one single thread has taken it.               *)
BudgetRespected ==
    used_mb > TotalMB => \A v, w \in Holders : v = w

(* No wake-up is lost: a thread sleeps in cv.wait() only while the loop    *)
(* test of line 98 still holds for it, so at every moment somebody else    *)
(* holds memory and will notify it.                                        *)
NoLostWakeup ==
    \A w \in Workers : call[w] = "asleep" => ~ Fits(amount[w])

(* "A single oversized job can't deadlock the scheduler" (lines 86-88):    *)
(* every sleeper gets to look at the budget again, whatever its amount.    *)
SleepersWoken ==
    \A w \in Workers : (call[w] = "asleep") ~> (call[w] # "asleep")
=============================================================================
