------------------------ MODULE LiftSchedulerProofs -------------------------
(***************************************************************************)
(* Theorems about LiftScheduler for every list of jobs, every assignment   *)
(* of estimates, every --max-parallel and every memory budget.             *)
(*                                                                         *)
(* The argument: type correctness; the places of run_job at which a worker *)
(* is inside acquire or holds memory (WorkerBudgetLink), from which every  *)
(* step of the scheduler is a step of MemoryBudget or none; then what      *)
(* MemoryBudgetProofs shows of MemoryBudget carries over.                  *)
(***************************************************************************)
EXTENDS LiftScheduler, TLAPS, FiniteSetTheorems

BP == INSTANCE MemoryBudgetProofs
        WITH NumWorkers <- MaxParallel + binja_workers,
             Amounts <- {Estimate[j] : j \in Jobs}

LEMMA InstanceAssumption == BP!BudgetAssumption
BY SchedulerAssumption
DEF binja_workers, BINJA_POOL_WORKERS, BP!BudgetAssumption

LEMMA ConstantFacts ==
    /\ MaxParallel \in Nat \ {0}
    /\ binja_workers \in Nat \ {0}
    /\ Workers = BP!Workers
    /\ \A j \in Jobs : /\ Estimate[j] \in Nat \ {0}
                       /\ Estimate[j] \in {Estimate[i] : i \in Jobs}
                       /\ JobPool(j) \in Pools
                       /\ j # NoJob
    /\ \A w \in Workers : WorkerPool(w) \in Pools
BY SchedulerAssumption
DEF binja_workers, BINJA_POOL_WORKERS, Workers, BP!Workers, JobPool, Pools,
    WorkerPool

(* MemoryBudget has one meaning whether LiftScheduler or the proofs of     *)
(* MemoryBudget instantiate it.                                            *)
LEMMA SameBudget ==
    /\ Budget!BudgetTypeOK <=> BP!BudgetTypeOK
    /\ Budget!BudgetInit <=> BP!BudgetInit
    /\ \A w, a : Budget!Acquire(w, a) <=> BP!Acquire(w, a)
    /\ \A w : Budget!Recheck(w) <=> BP!Recheck(w)
    /\ \A w : Budget!Release(w) <=> BP!Release(w)
    /\ \A h : Budget!SumOver(h) = BP!SumOver(h)
BY DEF Budget!BudgetTypeOK, BP!BudgetTypeOK, Budget!BudgetInit, BP!BudgetInit,
       Budget!Acquire, BP!Acquire, Budget!Recheck, BP!Recheck,
       Budget!Release, BP!Release, Budget!TakeOrSleep, BP!TakeOrSleep,
       Budget!Fits, BP!Fits, Budget!Workers, BP!Workers,
       Budget!CallStates, BP!CallStates, Budget!SumOver, BP!SumOver,
       Budget!SumUpTo, BP!SumUpTo

-----------------------------------------------------------------------------
(* Type correctness.  UnchangedX lemmas are not needed: each step below    *)
(* shows the conjuncts that its action touches.                            *)

MainTypeOK ==
    /\ main \in MainStates /\ exitCode \in {"none", "0", "3", "raised"}
    /\ results \in [Jobs -> {"none", "not_started", "ran"}]

JobTypeOK ==
    /\ fut \in [Jobs -> FutureStates]
    /\ queue \in [Pools -> Seq(Jobs)]
    /\ wpc \in [Workers -> WorkerStates]
    /\ wjob \in [Workers -> Jobs \cup {NoJob}]
    /\ \A w \in Workers : wpc[w] = "idle" <=> wjob[w] = NoJob
    /\ outcome \in [Jobs -> {"none", "not_started", "ran", "raised"}]

PauseTypeOK ==
    /\ event \in BOOLEAN /\ attached \in BOOLEAN
    /\ lock \in Callers \cup {Nobody}
    /\ rpc \in [Callers -> CallerStates] /\ first \in [Callers -> BOOLEAN]
    /\ stateFile \in {"running", "torn", "paused"}

LEMMA TypeOKParts ==
    TypeOK <=> /\ MainTypeOK /\ JobTypeOK /\ PauseTypeOK
               /\ BP!BudgetTypeOK /\ cleared \subseteq Jobs
BY SameBudget DEF TypeOK, MainTypeOK, JobTypeOK, PauseTypeOK

LEMMA InitTypes == Init => MainTypeOK /\ JobTypeOK /\ PauseTypeOK /\ cleared = {}
<1>1. SUFFICES ASSUME Init
               PROVE  MainTypeOK /\ JobTypeOK /\ PauseTypeOK /\ cleared = {}
  OBVIOUS
<1>2. MainTypeOK
  BY <1>1 DEF Init, MainTypeOK, MainStates
<1>3. queue \in [Pools -> Seq(Jobs)]
  <2>1. << >> \in Seq(Jobs)
    OBVIOUS
  <2>. QED
    BY <1>1, <2>1 DEF Init
<1>4. JobTypeOK
  BY <1>1, <1>3 DEF Init, JobTypeOK, FutureStates, WorkerStates
<1>5. PauseTypeOK
  BY <1>1 DEF Init, PauseTypeOK, CallerStates
<1>. QED
  BY <1>1, <1>2, <1>4, <1>5 DEF Init

(* Each of the three groups keeps its type under every action.             *)
LEMMA WorkerTypes ==
    ASSUME JobTypeOK, NEW w \in Workers, Worker(w)
    PROVE  JobTypeOK'
<1>. USE DEF JobTypeOK, FutureStates, WorkerStates
<1>1. CASE Take(w)
  <2>. DEFINE p == WorkerPool(w)
              j == Head(queue[p])
  <2>1. p \in Pools /\ queue[p] \in Seq(Jobs) /\ queue[p] # << >>
    BY <1>1, ConstantFacts DEF Take
  <2>2. j \in Jobs /\ Tail(queue[p]) \in Seq(Jobs) /\ j # NoJob
    BY <2>1, ConstantFacts
  <2>. HIDE DEF p, j
  <2>3. queue' \in [Pools -> Seq(Jobs)]
    BY <1>1, <2>1, <2>2 DEF Take, p, j
  <2>4. fut' \in [Jobs -> FutureStates] /\ outcome' = outcome
    BY <1>1, <2>2 DEF Take, p, j
  <2>5. /\ wpc' \in [Workers -> WorkerStates]
        /\ wjob' \in [Workers -> Jobs \cup {NoJob}]
        /\ \A x \in Workers : wpc'[x] = "idle" <=> wjob'[x] = NoJob
    <3>1. CASE /\ wjob' = [wjob EXCEPT ![w] = j]
               /\ Goto(w, "check")
      BY <2>2, <3>1 DEF Goto
    <3>2. CASE UNCHANGED <<wpc, wjob>>
      BY <3>2
    <3>. QED
      BY <1>1, <3>1, <3>2 DEF Take, p, j
  <2>. QED
    BY <2>3, <2>4, <2>5
<1>2. CASE Check(w)
  <2>1. CASE event
    <3>1. /\ wpc' = [wpc EXCEPT ![w] = "idle"]
          /\ wjob' = [wjob EXCEPT ![w] = NoJob]
          /\ UNCHANGED queue
      BY <1>2, <2>1 DEF Check, Resolve, Goto
    <3>2. /\ fut' \in [Jobs -> FutureStates]
          /\ outcome' \in [Jobs -> {"none", "not_started", "ran", "raised"}]
      BY <1>2, <2>1 DEF Check, Returns, Resolve
    <3>. QED
      BY <3>1, <3>2
  <2>2. CASE ~ event
    BY <1>2, <2>2 DEF Check, Goto
  <2>. QED
    BY <2>1, <2>2
<1>3. CASE AcquireMemory(w)
  BY <1>3 DEF AcquireMemory, Goto
<1>4. CASE RecheckEvent(w)
  BY <1>4 DEF RecheckEvent, Returns, Goto
<1>5. CASE Launch(w)
  BY <1>5 DEF Launch, Returns, Goto
<1>6. CASE LiftEnds(w)
  BY <1>6 DEF LiftEnds, Returns, Goto
<1>7. CASE ReleaseMemory(w)
  BY <1>7 DEF ReleaseMemory, Resolve, Goto
<1>. QED
  BY <1>1, <1>2, <1>3, <1>4, <1>5, <1>6, <1>7 DEF Worker

LEMMA CallerTypes ==
    ASSUME PauseTypeOK, JobTypeOK, cleared \subseteq Jobs,
           \/ ListenerReads \/ SignalArrives
           \/ \E r \in Callers : RequestPause(r)
    PROVE  PauseTypeOK' /\ JobTypeOK' /\ cleared' \subseteq Jobs
<1>. USE DEF PauseTypeOK, CallerStates, Step
<1>0. /\ Listener \in Callers
      /\ \A k \in Frames : k \in Callers
  BY SchedulerAssumption DEF Listener, Callers, Frames
<1>1. CASE ListenerReads
  BY <1>0, <1>1 DEF ListenerReads, JobTypeOK, jobVars
<1>2. CASE SignalArrives
  BY <1>0, <1>2 DEF SignalArrives, JobTypeOK, jobVars
<1>3. ASSUME NEW r \in Callers, TakeLock(r)
      PROVE  PauseTypeOK' /\ JobTypeOK' /\ cleared' \subseteq Jobs
  BY <1>3 DEF TakeLock, JobTypeOK, jobVars
<1>4. ASSUME NEW r \in Callers, SetEvent(r)
      PROVE  PauseTypeOK' /\ JobTypeOK' /\ cleared' \subseteq Jobs
  <2>1. \A w \in Workers : wpc[w] = "launch" => wjob[w] \in Jobs
    BY DEF JobTypeOK
  <2>2. cleared' \subseteq Jobs
    BY <1>4, <2>1 DEF SetEvent
  <2>. QED
    BY <1>4, <2>2 DEF SetEvent, JobTypeOK, jobVars
<1>5. ASSUME NEW r \in Callers, Snapshot(r)
      PROVE  PauseTypeOK' /\ JobTypeOK' /\ cleared' \subseteq Jobs
  BY <1>5 DEF Snapshot, AfterCancel, JobTypeOK, jobVars
<1>6. ASSUME NEW r \in Callers, CancelLoop(r)
      PROVE  PauseTypeOK' /\ JobTypeOK' /\ cleared' \subseteq Jobs
  BY <1>6 DEF CancelLoop, CancelNext, AfterCancel, JobTypeOK, FutureStates
<1>7. ASSUME NEW r \in Callers, WriteState(r)
      PROVE  PauseTypeOK' /\ JobTypeOK' /\ cleared' \subseteq Jobs
  BY <1>7 DEF WriteState, JobTypeOK, jobVars
<1>. QED
  BY <1>1, <1>2, <1>3, <1>4, <1>5, <1>6, <1>7 DEF RequestPause

LEMMA MainTypes ==
    ASSUME MainTypeOK, JobTypeOK, PauseTypeOK, Main
    PROVE  MainTypeOK' /\ JobTypeOK' /\ PauseTypeOK'
<1>. USE DEF MainTypeOK, MainGoes, MainStates
<1>1. CASE Submit
  <2>1. PICK j \in FirstOf(Unsubmitted) :
          /\ fut' = [fut EXCEPT ![j] = "pending"]
          /\ queue' = [queue EXCEPT ![JobPool(j)] = Append(@, j)]
    BY <1>1 DEF Submit
  <2>2. j \in Jobs
    BY DEF FirstOf, Unsubmitted
  <2>3. JobPool(j) \in Pools /\ queue[JobPool(j)] \in Seq(Jobs)
    BY <2>2, ConstantFacts DEF JobTypeOK
  <2>4. Append(queue[JobPool(j)], j) \in Seq(Jobs)
    BY <2>2, <2>3
  <2>5. queue' \in [Pools -> Seq(Jobs)] /\ fut' \in [Jobs -> FutureStates]
    BY <2>1, <2>2, <2>4 DEF JobTypeOK, FutureStates
  <2>. QED
    BY <1>1, <2>5 DEF Submit, JobTypeOK, PauseTypeOK, pauseVars
<1>2. CASE AllSubmitted
  BY <1>2 DEF AllSubmitted, JobTypeOK, jobVars, PauseTypeOK, pauseVars
<1>3. CASE Attach
  BY <1>3 DEF Attach, JobTypeOK, jobVars, PauseTypeOK
<1>4. CASE AttachCheck
  BY <1>4 DEF AttachCheck, JobTypeOK, jobVars, PauseTypeOK, pauseVars
<1>5. CASE AttachCancel
  BY <1>5 DEF AttachCancel, CancelNext, JobTypeOK, PauseTypeOK, pauseVars,
              FutureStates
<1>6. ASSUME NEW j \in Jobs, Collect(j)
      PROVE  MainTypeOK' /\ JobTypeOK' /\ PauseTypeOK'
  <2>1. outcome[j] \in {"none", "not_started", "ran", "raised"}
    BY DEF JobTypeOK
  <2>2. MainTypeOK'
    BY <1>6, <2>1 DEF Collect
  <2>. QED
    BY <1>6, <2>2 DEF Collect, JobTypeOK, jobVars, PauseTypeOK, pauseVars
<1>7. CASE AllCollected \/ Finish \/ Exit
  BY <1>7 DEF AllCollected, Finish, Exit, JobTypeOK, jobVars, PauseTypeOK,
              pauseVars
<1>8. CASE Join
  BY <1>8 DEF Join, JobTypeOK, jobVars, PauseTypeOK, pauseVars
<1>. QED
  BY <1>1, <1>2, <1>3, <1>4, <1>5, <1>6, <1>7, <1>8 DEF Main

-----------------------------------------------------------------------------
(* Where a worker stands in run_job and in the memory budget.              *)

HoldingPlaces == {"recheck", "launch", "lifting", "release"}

WorkerBudgetLink ==
    \A w \in Workers :
        /\ call[w] = "holding" <=> wpc[w] \in HoldingPlaces
        /\ call[w] \in {"asleep", "notified"} => wpc[w] = "acquire"
        /\ call[w] # "none" =>
              wjob[w] \in Jobs /\ amount[w] = Estimate[wjob[w]]

LEMMA LinkWhileBudgetUnchanged ==
    ASSUME JobTypeOK, BP!BudgetTypeOK, WorkerBudgetLink,
           NEW w \in Workers,
           \/ Take(w) \/ Check(w) \/ RecheckEvent(w) \/ Launch(w) \/ LiftEnds(w)
    PROVE  WorkerBudgetLink' /\ UNCHANGED BP!budgetVars
<1>. USE DEF budgetVars, BP!budgetVars, Goto, HoldingPlaces
<1>1. call \in [Workers -> {"none", "asleep", "notified", "holding"}]
  BY ConstantFacts DEF BP!BudgetTypeOK, BP!CallStates
<1>2. CASE Take(w)
  <2>1. wpc[w] = "idle" /\ call[w] = "none"
    BY <1>1, <1>2 DEF Take, WorkerBudgetLink
  <2>2. \/ wpc' = [wpc EXCEPT ![w] = "check"]
           /\ \E j : wjob' = [wjob EXCEPT ![w] = j]
        \/ UNCHANGED <<wpc, wjob>>
    BY <1>2 DEF Take
  <2>3. UNCHANGED <<used_mb, call, amount>>
    BY <1>2 DEF Take
  <2>. QED
    BY <2>1, <2>2, <2>3 DEF WorkerBudgetLink, JobTypeOK
<1>3. CASE Check(w)
  <2>1. wpc[w] = "check" /\ call[w] = "none"
    BY <1>1, <1>3 DEF Check, WorkerBudgetLink
  <2>2. \E x \in {"idle", "acquire"} : wpc' = [wpc EXCEPT ![w] = x]
    BY <1>3 DEF Check, Resolve
  <2>3. wjob' = wjob \/ wjob' = [wjob EXCEPT ![w] = NoJob]
    BY <1>3 DEF Check, Resolve
  <2>4. UNCHANGED <<used_mb, call, amount>>
    BY <1>3 DEF Check
  <2>. QED
    BY <2>1, <2>2, <2>3, <2>4 DEF WorkerBudgetLink, JobTypeOK
<1>4. CASE RecheckEvent(w) \/ Launch(w) \/ LiftEnds(w)
  <2>1. wpc[w] \in HoldingPlaces
    BY <1>4 DEF RecheckEvent, Launch, LiftEnds
  <2>2. \E x \in HoldingPlaces : wpc' = [wpc EXCEPT ![w] = x]
    BY <1>4 DEF RecheckEvent, Launch, LiftEnds
  <2>3. UNCHANGED <<wjob, used_mb, call, amount>>
    BY <1>4 DEF RecheckEvent, Launch, LiftEnds
  <2>. QED
    BY <2>1, <2>2, <2>3 DEF WorkerBudgetLink, JobTypeOK
<1>. QED
  BY <1>2, <1>3, <1>4

LEMMA LinkThroughAcquire ==
    ASSUME JobTypeOK, BP!BudgetTypeOK, WorkerBudgetLink,
           NEW w \in Workers, AcquireMemory(w)
    PROVE  WorkerBudgetLink' /\ BP!BudgetNext
<1>. USE DEF HoldingPlaces
<1>1. /\ wpc[w] = "acquire" /\ UNCHANGED wjob
      /\ \/ BP!Acquire(w, Estimate[wjob[w]])
         \/ BP!Recheck(w)
      /\ wpc' = IF call'[w] = "holding" THEN [wpc EXCEPT ![w] = "recheck"]
                ELSE wpc
  BY SameBudget DEF AcquireMemory, Goto
<1>2. /\ call \in [Workers -> {"none", "asleep", "notified", "holding"}]
      /\ amount \in [Workers -> {Estimate[i] : i \in Jobs} \cup {0}]
  BY ConstantFacts DEF BP!BudgetTypeOK, BP!CallStates
<1>3. wjob[w] \in Jobs
  BY <1>1 DEF JobTypeOK
<1>4. \E x \in {"holding", "asleep"} : call' = [call EXCEPT ![w] = x]
  BY <1>1 DEF BP!Acquire, BP!Recheck, BP!TakeOrSleep
<1>5. amount' = [amount EXCEPT ![w] = Estimate[wjob[w]]]
  <2>1. CASE BP!Acquire(w, Estimate[wjob[w]])
    BY <2>1 DEF BP!Acquire
  <2>2. CASE BP!Recheck(w)
    <3>1. amount' = amount /\ amount[w] = Estimate[wjob[w]]
      BY <2>2 DEF BP!Recheck, WorkerBudgetLink
    <3>. QED
      BY <1>2, <3>1
  <2>. QED
    BY <1>1, <2>1, <2>2
<1>6. WorkerBudgetLink'
  <2>1. ASSUME NEW v \in Workers, v # w
        PROVE  call'[v] = call[v] /\ amount'[v] = amount[v] /\ wpc'[v] = wpc[v]
    BY <1>1, <1>2, <1>4, <1>5, <2>1 DEF JobTypeOK
  <2>2. call'[w] \in {"holding", "asleep"} /\ amount'[w] = Estimate[wjob[w]]
    BY <1>2, <1>4, <1>5
  <2>3. wpc'[w] = IF call'[w] = "holding" THEN "recheck" ELSE "acquire"
    BY <1>1 DEF JobTypeOK
  <2>. QED
    BY <1>1, <1>3, <2>1, <2>2, <2>3 DEF WorkerBudgetLink
<1>7. BP!BudgetNext
  BY <1>1, <1>3, ConstantFacts DEF BP!BudgetNext
<1>. QED
  BY <1>6, <1>7

LEMMA LinkThroughRelease ==
    ASSUME JobTypeOK, BP!BudgetTypeOK, WorkerBudgetLink,
           NEW w \in Workers, ReleaseMemory(w)
    PROVE  WorkerBudgetLink' /\ BP!BudgetNext
<1>. USE DEF HoldingPlaces
<1>1. /\ BP!Release(w)
      /\ wpc' = [wpc EXCEPT ![w] = "idle"]
      /\ wjob' = [wjob EXCEPT ![w] = NoJob]
  BY SameBudget DEF ReleaseMemory, Resolve, Goto
<1>2. /\ call \in [Workers -> {"none", "asleep", "notified", "holding"}]
      /\ amount \in [Workers -> {Estimate[i] : i \in Jobs} \cup {0}]
  BY ConstantFacts DEF BP!BudgetTypeOK, BP!CallStates
<1>3. ASSUME NEW v \in Workers, v # w
      PROVE  /\ call'[v] = IF call[v] = "asleep" THEN "notified" ELSE call[v]
             /\ amount'[v] = amount[v]
             /\ wpc'[v] = wpc[v] /\ wjob'[v] = wjob[v]
  BY <1>1, <1>2, <1>3, ConstantFacts DEF BP!Release, JobTypeOK
<1>4. call'[w] = "none" /\ wpc'[w] = "idle"
  BY <1>1, ConstantFacts DEF BP!Release, JobTypeOK
<1>5. WorkerBudgetLink'
  BY <1>3, <1>4 DEF WorkerBudgetLink
<1>6. BP!BudgetNext
  BY <1>1, ConstantFacts DEF BP!BudgetNext
<1>. QED
  BY <1>5, <1>6

(***************************************************************************)
(* The invariant of the scheduler, and its steps as steps of MemoryBudget. *)
(***************************************************************************)
SchedInv ==
    /\ MainTypeOK /\ JobTypeOK /\ PauseTypeOK /\ cleared \subseteq Jobs
    /\ BP!BudgetInv
    /\ WorkerBudgetLink

LEMMA StepSimulates ==
    ASSUME SchedInv, [Next]_vars
    PROVE  /\ MainTypeOK' /\ JobTypeOK' /\ PauseTypeOK' /\ cleared' \subseteq Jobs
           /\ WorkerBudgetLink'
           /\ [BP!BudgetNext]_(BP!budgetVars)
<1>0. BP!BudgetTypeOK
  BY DEF SchedInv, BP!BudgetInv
<1>. USE DEF SchedInv
<1>1. ASSUME NEW w \in Workers, Worker(w)
      PROVE  WorkerBudgetLink' /\ [BP!BudgetNext]_(BP!budgetVars)
  BY <1>0, <1>1, LinkWhileBudgetUnchanged, LinkThroughAcquire,
     LinkThroughRelease DEF Worker
<1>2. ASSUME NEW w \in Workers, Worker(w)
      PROVE  MainTypeOK' /\ JobTypeOK' /\ PauseTypeOK' /\ cleared' \subseteq Jobs
  <2>1. UNCHANGED <<mainVars, pauseVars, cleared>>
    BY <1>2 DEF Worker, Take, Check, AcquireMemory, RecheckEvent, Launch,
                LiftEnds, ReleaseMemory
  <2>. QED
    BY <1>2, <2>1, WorkerTypes DEF mainVars, pauseVars, MainTypeOK, PauseTypeOK
<1>3. CASE ListenerReads \/ SignalArrives \/ \E r \in Callers : RequestPause(r)
  <2>1. UNCHANGED <<mainVars, wpc, wjob, budgetVars>>
    BY <1>3 DEF ListenerReads, SignalArrives, RequestPause, TakeLock, SetEvent,
                Snapshot, CancelLoop, WriteState, jobVars
  <2>. QED
    BY <1>3, <2>1, CallerTypes
    DEF mainVars, budgetVars, BP!budgetVars, MainTypeOK, WorkerBudgetLink
<1>4. CASE Main
  <2>1. UNCHANGED <<wpc, wjob, budgetVars, cleared>>
    BY <1>4 DEF Main, Submit, AllSubmitted, Attach, AttachCheck, AttachCancel,
                Collect, AllCollected, Join, Finish, Exit, jobVars
  <2>. QED
    BY <1>4, <2>1, MainTypes DEF budgetVars, BP!budgetVars, WorkerBudgetLink
<1>5. CASE UNCHANGED vars
  BY <1>5 DEF vars, mainVars, jobVars, pauseVars, budgetVars, BP!budgetVars,
              MainTypeOK, JobTypeOK, PauseTypeOK, WorkerBudgetLink
<1>. QED
  BY <1>1, <1>2, <1>3, <1>4, <1>5 DEF Next, Terminated

LEMMA SchedInvInit == Init => SchedInv
<1>1. SUFFICES ASSUME Init
               PROVE  SchedInv
  OBVIOUS
<1>2. BP!BudgetInit
  BY <1>1, SameBudget DEF Init
<1>3. BP!BudgetInv
  BY <1>2, BP!InitHasInv, InstanceAssumption
<1>4. WorkerBudgetLink
  BY <1>1, <1>2, ConstantFacts
  DEF Init, BP!BudgetInit, WorkerBudgetLink, HoldingPlaces
<1>. QED
  BY <1>1, <1>3, <1>4, InitTypes DEF SchedInv

LEMMA SchedInvStep == SchedInv /\ [Next]_vars => SchedInv'
<1>1. SUFFICES ASSUME SchedInv, [Next]_vars
               PROVE  SchedInv'
  OBVIOUS
<1>2. BP!BudgetInv'
  BY <1>1, StepSimulates, BP!StepKeepsInv, InstanceAssumption DEF SchedInv
<1>. QED
  BY <1>1, <1>2, StepSimulates DEF SchedInv

THEOREM SchedInvariant == Spec => []SchedInv
BY SchedInvInit, SchedInvStep, PTL DEF Spec

(* Every variable keeps its type; used_mb never drops below zero.          *)
THEOREM TypeCorrect == Spec => []TypeOK
<1>1. SchedInv => TypeOK
  BY TypeOKParts DEF SchedInv, BP!BudgetInv
<1>. QED
  BY <1>1, SchedInvariant, PTL

(* The scheduler uses the memory budget as MemoryBudget describes it.      *)
THEOREM SchedulerRefinesBudget == Spec => BP!BudgetSpec
<1>1. Init => BP!BudgetInit
  BY SameBudget DEF Init
<1>2. SchedInv /\ [Next]_vars => [BP!BudgetNext]_(BP!budgetVars)
  BY StepSimulates
<1>. QED
  BY <1>1, <1>2, SchedInvariant, PTL DEF Spec, BP!BudgetSpec

-----------------------------------------------------------------------------
(* Memory.                                                                 *)

LEMMA LiftingFits == SchedInv => RunningFitsBudget
<1>1. SUFFICES ASSUME SchedInv, BP!SumOver(LiftingMB) > TotalMB,
                      NEW v \in Lifting, NEW w \in Lifting
               PROVE  v = w
  BY SameBudget DEF RunningFitsBudget
<1>2. BP!BudgetTypeOK /\ BP!LedgerExact /\ BP!BudgetRespected
  BY <1>1 DEF SchedInv, BP!BudgetInv
<1>3. \A x \in Lifting : /\ x \in Workers /\ call[x] = "holding"
                         /\ amount[x] = Estimate[wjob[x]]
                         /\ Estimate[wjob[x]] \in Nat
  BY <1>1, ConstantFacts
  DEF SchedInv, WorkerBudgetLink, HoldingPlaces, Lifting
<1>4. /\ BP!Held \in [BP!Workers -> Nat]
      /\ \A x \in BP!Workers :
            BP!Held[x] = IF call[x] = "holding" THEN amount[x] ELSE 0
  BY <1>2, BP!HeldFacts, InstanceAssumption
<1>5. /\ LiftingMB \in [BP!Workers -> Nat]
      /\ \A x \in BP!Workers : LiftingMB[x] <= BP!Held[x]
  BY <1>3, <1>4, ConstantFacts DEF LiftingMB
<1>6. /\ BP!SumOver(LiftingMB) \in Nat
      /\ BP!SumOver(LiftingMB) <= used_mb
      /\ used_mb \in Nat
  BY <1>2, <1>4, <1>5, BP!SumOverMonotone, BP!SumOverBounds,
     InstanceAssumption
  DEF BP!LedgerExact, BP!BudgetTypeOK
<1>7. used_mb > TotalMB
  BY <1>1, <1>6, SchedulerAssumption
<1>8. v \in BP!Holders /\ w \in BP!Holders
  BY <1>3, ConstantFacts DEF BP!Holders
<1>. QED
  BY <1>2, <1>7, <1>8 DEF BP!BudgetRespected

(* The backends that run at one time fit into the budget, or one runs      *)
(* alone.                                                                  *)
THEOREM MemorySafe == Spec => []RunningFitsBudget
BY LiftingFits, SchedInvariant, PTL

LEMMA NothingKept == SchedInv => MemoryReturned
<1>1. SUFFICES ASSUME SchedInv
               PROVE  MemoryReturned
  OBVIOUS
<1>2. ASSUME PoolsDrained
      PROVE  used_mb = 0
  <2>1. BP!Holders = {}
    BY <1>1, <1>2, ConstantFacts
    DEF PoolsDrained, BP!Holders, SchedInv, WorkerBudgetLink, HoldingPlaces
  <2>2. ~ used_mb > 0
    BY <1>1, <2>1, BP!IdleExactlyWhenZero, InstanceAssumption
    DEF SchedInv, BP!BudgetInv
  <2>. QED
    BY <1>1, <2>2 DEF SchedInv, BP!BudgetInv, BP!BudgetTypeOK
<1>3. \A w \in Workers : call[w] = "holding" <=>
          wpc[w] \in {"recheck", "launch", "lifting", "release"}
  BY <1>1 DEF SchedInv, WorkerBudgetLink, HoldingPlaces
<1>. QED
  BY <1>2, <1>3 DEF MemoryReturned

(* No way out of run_job keeps memory: when the pools have drained the     *)
(* ledger is back at zero.                                                 *)
THEOREM MemoryNotLeaked == Spec => []MemoryReturned
BY NothingKept, SchedInvariant, PTL

-----------------------------------------------------------------------------
(* The license ceiling: a job of a pool stays with the workers of it.      *)

Routed ==
    /\ \A p \in Pools : \A i \in 1..Len(queue[p]) : JobPool(queue[p][i]) = p
    /\ \A w \in Workers : wjob[w] # NoJob => JobPool(wjob[w]) = WorkerPool(w)

LEMMA RoutedInit == Init => Routed
BY DEF Init, Routed

LEMMA RoutedStep ==
    ASSUME SchedInv, Routed, [Next]_vars
    PROVE  Routed'
<1>. USE DEF SchedInv, JobTypeOK
<1>1. ASSUME NEW w \in Workers, Take(w)
      PROVE  Routed'
  <2>. DEFINE p == WorkerPool(w)
              j == Head(queue[p])
  <2>1. p \in Pools /\ queue[p] \in Seq(Jobs) /\ queue[p] # << >>
    BY <1>1, ConstantFacts DEF Take
  <2>2. JobPool(j) = p
    BY <2>1 DEF Routed
  <2>3. /\ Len(Tail(queue[p])) = Len(queue[p]) - 1
        /\ \A i \in 1..Len(Tail(queue[p])) : Tail(queue[p])[i] = queue[p][i + 1]
    BY <2>1
  <2>4. queue' = [queue EXCEPT ![p] = Tail(queue[p])]
    BY <1>1 DEF Take
  <2>5. wjob' = [wjob EXCEPT ![w] = j] \/ wjob' = wjob
    BY <1>1 DEF Take
  <2>. HIDE DEF p, j
  <2>6. ASSUME NEW q \in Pools, NEW i \in 1..Len(queue'[q])
        PROVE  JobPool(queue'[q][i]) = q
    <3>1. CASE q = p
      <4>1. queue'[q] = Tail(queue[p])
        BY <2>1, <2>4, <3>1
      <4>2. i + 1 \in 1..Len(queue[p]) /\ queue'[q][i] = queue[p][i + 1]
        BY <2>1, <2>3, <4>1
      <4>. QED
        BY <2>1, <3>1, <4>2 DEF Routed
    <3>2. CASE q # p
      <4>1. queue'[q] = queue[q]
        BY <2>1, <2>4, <3>2
      <4>. QED
        BY <4>1 DEF Routed
    <3>. QED
      BY <3>1, <3>2
  <2>7. ASSUME NEW x \in Workers, wjob'[x] # NoJob
        PROVE  JobPool(wjob'[x]) = WorkerPool(x)
    BY <2>2, <2>5, <2>7 DEF Routed, p
  <2>. QED
    BY <2>6, <2>7 DEF Routed
<1>2. ASSUME NEW w \in Workers,
             \/ Check(w) \/ AcquireMemory(w) \/ RecheckEvent(w) \/ Launch(w)
             \/ LiftEnds(w) \/ ReleaseMemory(w)
      PROVE  Routed'
  <2>1. /\ queue' = queue
        /\ wjob' = wjob \/ wjob' = [wjob EXCEPT ![w] = NoJob]
    BY <1>2 DEF Check, AcquireMemory, RecheckEvent, Launch, LiftEnds,
                ReleaseMemory, Resolve
  <2>. QED
    BY <2>1 DEF Routed
<1>3. CASE ListenerReads \/ SignalArrives \/ \E r \in Callers : RequestPause(r)
  <2>1. UNCHANGED <<queue, wjob>>
    BY <1>3 DEF ListenerReads, SignalArrives, RequestPause, TakeLock, SetEvent,
                Snapshot, CancelLoop, WriteState, jobVars
  <2>. QED
    BY <2>1 DEF Routed
<1>4. CASE Submit
  <2>1. PICK j \in Jobs : queue' = [queue EXCEPT ![JobPool(j)] = Append(@, j)]
    BY <1>4 DEF Submit, FirstOf, Unsubmitted
  <2>2. JobPool(j) \in Pools /\ queue[JobPool(j)] \in Seq(Jobs)
    BY ConstantFacts
  <2>3. ASSUME NEW q \in Pools, NEW i \in 1..Len(queue'[q])
        PROVE  JobPool(queue'[q][i]) = q
    <3>1. CASE q = JobPool(j)
      <4>1. queue'[q] = Append(queue[q], j)
        BY <2>1, <2>2, <3>1
      <4>2. \/ i \in 1..Len(queue[q]) /\ queue'[q][i] = queue[q][i]
            \/ queue'[q][i] = j
        BY <2>2, <3>1, <4>1
      <4>. QED
        BY <3>1, <4>2 DEF Routed
    <3>2. CASE q # JobPool(j)
      <4>1. queue'[q] = queue[q]
        BY <2>1, <2>2, <3>2
      <4>. QED
        BY <4>1 DEF Routed
    <3>. QED
      BY <3>1, <3>2
  <2>4. wjob' = wjob
    BY <1>4 DEF Submit
  <2>. QED
    BY <2>3, <2>4 DEF Routed
<1>5. CASE \/ AllSubmitted \/ Attach \/ AttachCheck \/ AttachCancel
           \/ (\E j \in Jobs : Collect(j)) \/ AllCollected \/ Join \/ Finish
           \/ Exit \/ UNCHANGED vars
  <2>1. UNCHANGED <<queue, wjob>>
    BY <1>5 DEF AllSubmitted, Attach, AttachCheck, AttachCancel, Collect,
                AllCollected, Join, Finish, Exit, jobVars, vars
  <2>. QED
    BY <2>1 DEF Routed
<1>. QED
  BY <1>1, <1>2, <1>3, <1>4, <1>5 DEF Next, Main, Worker, Terminated

LEMMA RoutedCapsLicense == SchedInv /\ Routed => LicenseCap
<1>1. SUFFICES ASSUME SchedInv, Routed
               PROVE  LicenseCap
  OBVIOUS
<1>. DEFINE Busy == {w \in Lifting : wjob[w] \in Licensed}
            Own == (MaxParallel + 1)..(MaxParallel + binja_workers)
<1>2. \A w \in Workers : wjob[w] \in Licensed => WorkerPool(w) = "binja"
  BY <1>1, ConstantFacts, SchedulerAssumption DEF Routed, JobPool
<1>3. Busy \subseteq Own
  BY <1>2, ConstantFacts DEF Lifting, WorkerPool, Workers
<1>4. IsFiniteSet(Own) /\ Cardinality(Own) = binja_workers
  BY FS_Interval, ConstantFacts
<1>5. Cardinality(Busy) <= binja_workers
  BY <1>3, <1>4, FS_Subset, FS_CardinalityType, ConstantFacts
<1>. QED
  BY <1>2, <1>5 DEF LicenseCap

(* Never more than binja_workers licensed backends run at one time.        *)
THEOREM LicenseSafe == Spec => []LicenseCap
<1>1. Spec => []Routed
  BY RoutedInit, RoutedStep, SchedInvariant, PTL DEF Spec
<1>. QED
  BY <1>1, RoutedCapsLicense, SchedInvariant, PTL

-----------------------------------------------------------------------------
(* Pausing.                                                                *)

(* The callers that have found themselves first and are not done.          *)
Chosen(r) ==
    first[r] /\ rpc[r] \in {"set", "snapshot", "cancel", "open", "dump"}

OneIsFirst ==
    /\ \A r \in Callers : rpc[r] = "set" => lock = r
    /\ \A q, r \in Callers : Chosen(q) /\ Chosen(r) => q = r
    /\ \A r \in Callers : Chosen(r) /\ rpc[r] # "set" => event
    /\ \A r \in Callers : rpc[r] \in {"open", "dump"} => first[r]

Canceller ==
    \/ main \in {"check", "cancel"}
    \/ \E r \in Callers : rpc[r] \in {"snapshot", "cancel"}

PendingIsBeingCancelled ==
    /\ attached <=> main \notin {"submit", "attach"}
    /\ event /\ attached /\ Pending # {} => Canceller

PauseInv == OneIsFirst /\ PendingIsBeingCancelled

LEMMA PauseInvInit == Init => PauseInv
BY DEF Init, PauseInv, OneIsFirst, Chosen, PendingIsBeingCancelled

LEMMA OneIsFirstStep ==
    ASSUME PauseTypeOK, OneIsFirst, NEW r \in Callers, RequestPause(r)
    PROVE  OneIsFirst'
<1>. USE DEF PauseTypeOK, Step
<1>0. Nobody \notin Callers
  BY SchedulerAssumption DEF Nobody, Callers
<1>1. CASE TakeLock(r)
  <2>1. /\ rpc[r] = "lock" /\ rpc' = [rpc EXCEPT ![r] = "set"]
        /\ lock = Nobody /\ lock' = r /\ event' = event
        /\ first' = [first EXCEPT ![r] = ~ event]
    BY <1>1 DEF TakeLock
  <2>2. \A q \in Callers : rpc[q] # "set"
    BY <1>0, <2>1 DEF OneIsFirst
  <2>3. \A q \in Callers : q # r => first'[q] = first[q] /\ rpc'[q] = rpc[q]
    BY <2>1
  <2>4. first'[r] = ~ event /\ rpc'[r] = "set"
    BY <2>1
  <2>5. \A q \in Callers : q # r /\ Chosen(q) => event
    BY <2>2 DEF OneIsFirst
  <2>6. \A q \in Callers : q # r => (Chosen(q)' <=> Chosen(q))
    BY <2>3 DEF Chosen
  <2>7. Chosen(r)' <=> ~ event
    BY <2>4 DEF Chosen
  <2>. QED
    BY <2>1, <2>2, <2>3, <2>4, <2>5, <2>6, <2>7 DEF OneIsFirst
<1>2. CASE SetEvent(r)
  <2>1. /\ rpc[r] = "set" /\ rpc' = [rpc EXCEPT ![r] = "snapshot"]
        /\ event' = TRUE /\ first' = first
    BY <1>2 DEF SetEvent
  <2>2. \A q \in Callers : rpc'[q] # "set"
    BY <2>1 DEF OneIsFirst
  <2>3. \A q \in Callers : Chosen(q)' <=> Chosen(q)
    BY <2>1 DEF Chosen
  <2>. QED
    BY <2>1, <2>2, <2>3 DEF OneIsFirst
<1>3. CASE Snapshot(r) \/ CancelLoop(r) \/ WriteState(r)
  <2>1. /\ UNCHANGED <<lock, first, event>>
        /\ \/ rpc' = rpc
           \/ /\ rpc[r] \in {"snapshot", "cancel", "open", "dump"}
              /\ \E x \in {"cancel", "idle", "dump", "open"} :
                    /\ rpc' = [rpc EXCEPT ![r] = x]
                    /\ x = "open" => first[r]
                    /\ x = "dump" => rpc[r] = "open"
    BY <1>3 DEF Snapshot, CancelLoop, WriteState, AfterCancel
  <2>2. \A q \in Callers : Chosen(q)' => Chosen(q)
    BY <2>1 DEF Chosen
  <2>3. \A q \in Callers : rpc'[q] = "set" => rpc[q] = "set"
    BY <2>1
  <2>4. \A q \in Callers : Chosen(q) /\ rpc[q] = "set" => rpc'[q] = "set"
    BY <2>1
  <2>5. \A q \in Callers : rpc'[q] \in {"open", "dump"} => first'[q]
    BY <2>1 DEF OneIsFirst
  <2>. QED
    BY <2>1, <2>2, <2>3, <2>4, <2>5 DEF OneIsFirst
<1>. QED
  BY <1>1, <1>2, <1>3 DEF RequestPause

LEMMA PendingStep ==
    ASSUME JobTypeOK, PauseTypeOK, PendingIsBeingCancelled,
           NEW r \in Callers, RequestPause(r)
    PROVE  PendingIsBeingCancelled'
<1>. USE DEF PauseTypeOK, Step
<1>1. main' = main /\ attached' = attached
  BY DEF RequestPause, TakeLock, SetEvent, Snapshot, CancelLoop, WriteState,
         mainVars
<1>2. Pending' \subseteq Pending
  BY DEF RequestPause, TakeLock, SetEvent, Snapshot, CancelLoop, WriteState,
         CancelNext, jobVars, Pending, JobTypeOK
<1>3. CASE TakeLock(r) \/ WriteState(r)
  <2>1. /\ rpc[r] \in {"lock", "open", "dump"} /\ event' = event
        /\ \E x : rpc' = [rpc EXCEPT ![r] = x]
    BY <1>3 DEF TakeLock, WriteState
  <2>2. Canceller => Canceller'
    BY <1>1, <2>1 DEF Canceller
  <2>. QED
    BY <1>1, <1>2, <2>1, <2>2 DEF PendingIsBeingCancelled
<1>4. CASE SetEvent(r)
  <2>1. rpc'[r] = "snapshot"
    BY <1>4 DEF SetEvent
  <2>. QED
    BY <1>1, <2>1 DEF PendingIsBeingCancelled, Canceller
<1>5. CASE Snapshot(r)
  <2>1. attached => rpc'[r] = "cancel"
    BY <1>5 DEF Snapshot
  <2>. QED
    BY <1>1, <2>1 DEF PendingIsBeingCancelled, Canceller
<1>6. CASE CancelLoop(r)
  <2>1. event' = event /\ (rpc' = rpc \/ (Pending = {} /\ fut' = fut))
    BY <1>6 DEF CancelLoop
  <2>. QED
    BY <1>1, <1>2, <2>1 DEF PendingIsBeingCancelled, Canceller
<1>. QED
  BY <1>3, <1>4, <1>5, <1>6 DEF RequestPause

LEMMA PauseInvStep == SchedInv /\ PauseInv /\ [Next]_vars => PauseInv'
<1>1. SUFFICES ASSUME SchedInv, PauseInv, [Next]_vars
               PROVE  PauseInv'
  OBVIOUS
<1>. USE <1>1 DEF PauseInv, SchedInv
<1>2. ASSUME NEW r \in Callers, RequestPause(r)
      PROVE  PauseInv'
  BY <1>2, OneIsFirstStep, PendingStep
<1>3. CASE ListenerReads \/ SignalArrives
  <2>1. /\ UNCHANGED <<event, attached, lock, first, main, fut>>
        /\ \E r \in Callers : /\ rpc[r] = "idle"
                              /\ rpc' = [rpc EXCEPT ![r] = "lock"]
    BY <1>3, SchedulerAssumption
    DEF ListenerReads, SignalArrives, Step, Listener, Callers, Frames,
        mainVars, jobVars
  <2>2. \A q \in Callers : \A x \in CallerStates \ {"idle", "lock"} :
            rpc'[q] = x <=> rpc[q] = x
    BY <2>1 DEF PauseTypeOK
  <2>3. OneIsFirst'
    BY <2>1, <2>2 DEF OneIsFirst, Chosen, CallerStates
  <2>4. Pending' = Pending /\ (Canceller => Canceller')
    BY <2>1, <2>2 DEF Pending, Canceller, CallerStates
  <2>. QED
    BY <2>1, <2>3, <2>4 DEF PendingIsBeingCancelled
<1>4. ASSUME NEW w \in Workers, Worker(w)
      PROVE  PauseInv'
  <2>1. UNCHANGED <<mainVars, pauseVars>>
    BY <1>4 DEF Worker, Take, Check, AcquireMemory, RecheckEvent, Launch,
                LiftEnds, ReleaseMemory
  <2>2. Pending' \subseteq Pending
    BY <1>4 DEF Worker, Take, Check, AcquireMemory, RecheckEvent, Launch,
                LiftEnds, ReleaseMemory, Resolve, Pending, JobTypeOK
  <2>. QED
    BY <2>1, <2>2 DEF mainVars, pauseVars, OneIsFirst, Chosen,
                      PendingIsBeingCancelled, Canceller
<1>5. CASE Main
  <2>1. UNCHANGED <<event, lock, rpc, first>>
    BY <1>5 DEF Main, Submit, AllSubmitted, Attach, AttachCheck, AttachCancel,
                Collect, AllCollected, Join, Finish, Exit, pauseVars
  <2>2. OneIsFirst'
    BY <2>1 DEF OneIsFirst, Chosen
  <2>3. ASSUME \/ Submit \/ AllSubmitted \/ Attach
        PROVE  PauseInv'
    <3>1. main' \in {"submit", "attach", "check"} /\ event' = event
      BY <2>1, <2>3 DEF Submit, AllSubmitted, Attach, MainGoes
    <3>2. attached' <=> main' = "check"
      BY <2>3 DEF Submit, AllSubmitted, Attach, MainGoes, pauseVars,
                  PendingIsBeingCancelled
    <3>. QED
      BY <2>2, <3>1, <3>2 DEF PendingIsBeingCancelled, Canceller
  <2>4. CASE AttachCheck
    <3>1. /\ attached' = attached /\ Pending' = Pending
          /\ main = "check" /\ main' = IF event THEN "cancel" ELSE "collect"
      BY <2>4 DEF AttachCheck, MainGoes, pauseVars, jobVars, Pending
    <3>. QED
      BY <2>1, <2>2, <3>1 DEF PendingIsBeingCancelled, Canceller
  <2>5. CASE AttachCancel
    <3>1. /\ attached' = attached /\ main = "cancel"
          /\ main' = "cancel" \/ (main' = "collect" /\ Pending' = {})
      BY <2>5 DEF AttachCancel, MainGoes, pauseVars, Pending
    <3>. QED
      BY <2>1, <2>2, <3>1 DEF PendingIsBeingCancelled, Canceller
  <2>6. CASE \/ (\E j \in Jobs : Collect(j)) \/ AllCollected \/ Join \/ Finish
             \/ Exit
    <3>1. /\ UNCHANGED <<attached, fut>>
          /\ main \notin {"submit", "attach", "check", "cancel"}
          /\ main' \notin {"submit", "attach", "check", "cancel"}
      BY <2>6 DEF Collect, AllCollected, Join, Finish, Exit, MainGoes, jobVars,
                  pauseVars
    <3>2. PendingIsBeingCancelled'
      BY <2>1, <3>1 DEF PendingIsBeingCancelled, Canceller, Pending
    <3>. QED
      BY <2>2, <3>2
  <2>. QED
    BY <1>5, <2>3, <2>4, <2>5, <2>6 DEF Main
<1>6. CASE UNCHANGED vars
  BY <1>6 DEF vars, mainVars, jobVars, pauseVars, OneIsFirst, Chosen,
              PendingIsBeingCancelled, Canceller, Pending
<1>. QED
  BY <1>1, <1>2, <1>3, <1>4, <1>5, <1>6 DEF Next, Terminated

THEOREM PauseInvariant == Spec => []PauseInv
BY PauseInvInit, PauseInvStep, SchedInvariant, PTL DEF Spec

(* However many requests arrive, one of them writes pause_state.json.      *)
THEOREM StateFileHasOneWriter == Spec => []SingleWriter
<1>1. PauseInv => SingleWriter
  BY DEF PauseInv, OneIsFirst, Chosen, SingleWriter
<1>. QED
  BY <1>1, PauseInvariant, PTL

(* After a pause no future is left in the queues for a worker to start,    *)
(* at whatever point of the submission it came.                            *)
THEOREM PauseReachesAllFutures == Spec => []NothingLeftPending
<1>1. PauseInv => NothingLeftPending
  BY DEF PauseInv, PendingIsBeingCancelled, Canceller, NothingLeftPending
<1>. QED
  BY <1>1, PauseInvariant, PTL
=============================================================================
