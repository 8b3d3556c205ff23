---------------------------- MODULE LiftScheduler ---------------------------
(***************************************************************************)
(* The scheduler of pipeline/run_lifting.py: main() from the creation of   *)
(* the memory budget to its return (lines 431-531), run_job, run_one as    *)
(* far as the scheduler sees it, PauseController, and the threads they run *)
(* in: the main thread, the workers of the two ThreadPoolExecutors, the    *)
(* daemon thread that reads stdin, and the SIGUSR1 handler, which runs in  *)
(* the main thread and holds it up.                                        *)
(*                                                                         *)
(* MemoryBudget is the module of that name.  ThreadPoolExecutor, Future    *)
(* and as_completed are the standard library's, modelled from how they are *)
(* used: a FIFO queue per pool; a future that cancel() can only stop while *)
(* it is pending, and that as_completed yields once it has a result, or    *)
(* once a worker has taken it from the queue and found it cancelled.       *)
(***************************************************************************)
EXTENDS Integers, Sequences, FiniteSets

CONSTANTS
    JobList,       \* jobs_to_run, in order, without repetition
    Licensed,      \* those whose backend is in BACKEND_LICENSE_GROUP
    Estimate,      \* BACKEND_MEM_ESTIMATE_MB of each job's backend
    MaxParallel,   \* --max-parallel
    TotalMB,       \* the memory budget
    MaxSignals,    \* bound: SIGUSR1 deliveries
    MaxLines,      \* bound: "p" lines typed
    NoJob          \* a worker without a job

Jobs == {JobList[i] : i \in 1..Len(JobList)}

ASSUME SchedulerAssumption ==
    /\ JobList \in Seq(Jobs)
    /\ Licensed \subseteq Jobs
    /\ Estimate \in [Jobs -> Nat \ {0}]
    /\ MaxParallel \in Nat \ {0}
    /\ TotalMB \in Int
    /\ MaxSignals \in Nat /\ MaxLines \in Nat
    /\ NoJob \notin Jobs

BINJA_POOL_WORKERS == 3

binja_workers ==
    IF MaxParallel < BINJA_POOL_WORKERS THEN MaxParallel ELSE BINJA_POOL_WORKERS

Workers == 1..(MaxParallel + binja_workers)

Pools == {"main", "binja"}

WorkerPool(w) == IF w <= MaxParallel THEN "main" ELSE "binja"

JobPoolUnrouted(j) == "main"

(* binja_jobs and other_jobs.                                              *)
JobPool(j) == IF j \in Licensed THEN "binja" ELSE "main"

(* The order in which the futures are created: the main pool's first.      *)
Precedes(i, j) ==
    LET p == <<JobPool(i), JobPool(j)>>
    IN  \/ p = <<"main", "binja">>
        \/ p[1] = p[2] /\ \E k, m \in 1..Len(JobList) :
                             k <= m /\ JobList[k] = i /\ JobList[m] = j

FirstOf(S) == {i \in S : \A j \in S : Precedes(i, j)}

(* Callers of request_pause: the stdin listener, and the SIGUSR1 handler,  *)
(* whose frame k runs on top of frame k - 1 in the main thread.            *)
Listener == 0
Frames == 1..MaxSignals
Callers == 0..MaxSignals
Nobody == -1

VARIABLES
    main,          \* where main() is
    exitCode,      \* what it returns, "raised" when an exception ends it
    fut,           \* the state of each job's future
    queue,         \* each pool's work queue
    wpc, wjob,     \* where each worker is in run_job, and its job
    outcome,       \* what run_job returned: the future's result
    results,       \* results_by_job, "none" for a job not in it
    event,         \* controller.event
    attached,      \* controller.futures is the dict of all futures
    lock,          \* who holds controller._lock
    rpc, first,    \* each caller's place in request_pause; its local first
    stateFile,     \* pause_state.json
    signals, lines,
    used_mb, call, amount,
    cleared        \* history: the jobs past line 447 when the event was set

jobVars == <<fut, queue, wpc, wjob, outcome>>
pauseVars == <<event, attached, lock, rpc, first, stateFile, signals, lines>>
budgetVars == <<used_mb, call, amount>>
mainVars == <<main, exitCode, results>>
vars == <<mainVars, jobVars, pauseVars, budgetVars, cleared>>

Budget == INSTANCE MemoryBudget
            WITH NumWorkers <- MaxParallel + binja_workers,
                 Amounts <- {Estimate[j] : j \in Jobs}

MainStates == {"submit", "attach", "check", "cancel", "collect", "join",
               "unwind", "finish", "exiting", "exited"}
FutureStates ==
    {"none", "pending", "running", "cancelled", "notified", "finished"}
WorkerStates ==
    {"idle", "check", "acquire", "recheck", "launch", "lifting", "release"}
CallerStates == {"idle", "lock", "set", "snapshot", "cancel", "open", "dump"}

Init ==
    /\ main = "submit" /\ exitCode = "none"
    /\ results = [j \in Jobs |-> "none"]
    /\ fut = [j \in Jobs |-> "none"]
    /\ queue = [p \in Pools |-> << >>]
    /\ wpc = [w \in Workers |-> "idle"]
    /\ wjob = [w \in Workers |-> NoJob]
    /\ outcome = [j \in Jobs |-> "none"]
    /\ event = FALSE /\ attached = FALSE /\ lock = Nobody
    /\ rpc = [r \in Callers |-> "idle"]
    /\ first = [r \in Callers |-> FALSE]
    /\ stateFile = "running"
    /\ signals = 0 /\ lines = 0
    /\ Budget!BudgetInit
    /\ cleared = {}

-----------------------------------------------------------------------------
(* The handler interrupts main() between any two bytecodes and main() goes *)
(* on when it returns; the daemon thread dies with the process.            *)
Alive == main # "exited"
NotInterrupted == Alive /\ \A k \in Frames : rpc[k] = "idle"
OnTop(r) ==
    /\ Alive
    /\ r \in Frames => \A k \in Frames : k > r => rpc[k] = "idle"

Pending == {j \in Jobs : fut[j] = "pending"}

(* One turn of _cancel_pending that has an effect.  The loop walks over    *)
(* all futures in order; a future behind it is no longer pending and will  *)
(* not be again, so what it stops at next is the first pending one.        *)
CancelNext ==
    \E j \in FirstOf(Pending) : fut' = [fut EXCEPT ![j] = "cancelled"]

(***************************************************************************)
(* run_job, by worker w of a pool                                          *)
(***************************************************************************)
Goto(w, place) == wpc' = [wpc EXCEPT ![w] = place]

Returns(w, o) == outcome' = [outcome EXCEPT ![wjob[w]] = o]

(* The pool's side: take the next work item; a cancelled one is dropped.   *)
Take(w) ==
    LET p == WorkerPool(w)
        j == Head(queue[p])
    IN  /\ wpc[w] = "idle" /\ queue[p] # << >>
        /\ queue' = [queue EXCEPT ![p] = Tail(queue[p])]
        /\ \/ /\ fut[j] = "pending"
              /\ fut' = [fut EXCEPT ![j] = "running"]
              /\ wjob' = [wjob EXCEPT ![w] = j]
              /\ Goto(w, "check")
           \/ /\ fut[j] = "cancelled"
              /\ fut' = [fut EXCEPT ![j] = "notified"]
              /\ UNCHANGED <<wpc, wjob>>
        /\ UNCHANGED <<outcome, mainVars, pauseVars, budgetVars, cleared>>

(* The pool's side: run_job is over, its future finishes.                  *)
Resolve(w) ==
    /\ fut' = [fut EXCEPT ![wjob[w]] = "finished"]
    /\ wjob' = [wjob EXCEPT ![w] = NoJob]
    /\ Goto(w, "idle")

(* Lines 442-443.                                                          *)
Check(w) ==
    /\ wpc[w] = "check"
    /\ \/ event /\ Returns(w, "not_started") /\ Resolve(w)
       \/ ~ event /\ Goto(w, "acquire") /\ UNCHANGED <<fut, wjob, outcome>>
    /\ UNCHANGED <<queue, mainVars, pauseVars, budgetVars, cleared>>

(* Line 445: the call of acquire, and each time it is woken in it.         *)
AcquireMemory(w) ==
    /\ wpc[w] = "acquire"
    /\ \/ Budget!Acquire(w, Estimate[wjob[w]])
       \/ Budget!Recheck(w)
    /\ IF call'[w] = "holding" THEN Goto(w, "recheck") ELSE UNCHANGED wpc
    /\ UNCHANGED <<fut, queue, wjob, outcome, mainVars, pauseVars, cleared>>

RecheckDropped(w) ==
    /\ wpc[w] = "recheck"
    /\ Goto(w, "launch")
    /\ UNCHANGED <<fut, queue, wjob, outcome, mainVars, pauseVars, budgetVars, cleared>>

RecheckLeaks(w) ==
    /\ wpc[w] = "recheck"
    /\ \/ event /\ Returns(w, "not_started") /\ Resolve(w)
       \/ ~ event /\ Goto(w, "launch") /\ UNCHANGED <<fut, wjob, outcome>>
    /\ UNCHANGED <<queue, mainVars, pauseVars, budgetVars, cleared>>

(* Lines 447-448; the return goes through the finally.                     *)
RecheckEvent(w) ==
    /\ wpc[w] = "recheck"
    /\ \/ event /\ Returns(w, "not_started") /\ Goto(w, "release")
       \/ ~ event /\ Goto(w, "launch") /\ UNCHANGED outcome
    /\ UNCHANGED <<fut, queue, wjob, mainVars, pauseVars, budgetVars, cleared>>

(* The entry of run_one: the backend's process is started, or ensure_dir,  *)
(* which stands outside its try, raises.                                   *)
Launch(w) ==
    /\ wpc[w] = "launch"
    /\ \/ Goto(w, "lifting") /\ UNCHANGED outcome
       \/ Returns(w, "raised") /\ Goto(w, "release")
    /\ UNCHANGED <<fut, queue, wjob, mainVars, pauseVars, budgetVars, cleared>>

(* run_one returns a record: "ran" stands for its statuses ok, failed,     *)
(* timeout and crashed.  The timeout makes sure that it returns.           *)
LiftEnds(w) ==
    /\ wpc[w] = "lifting"
    /\ Returns(w, "ran") /\ Goto(w, "release")
    /\ UNCHANGED <<fut, queue, wjob, mainVars, pauseVars, budgetVars, cleared>>

(* The finally of run_job (lines 451-452); after it nothing of run_job is  *)
(* left to do.                                                             *)
ReleaseMemory(w) ==
    /\ wpc[w] = "release"
    /\ Budget!Release(w)
    /\ Resolve(w)
    /\ UNCHANGED <<queue, outcome, mainVars, pauseVars, cleared>>

Worker(w) ==
    \/ Take(w) \/ Check(w) \/ AcquireMemory(w) \/ RecheckEvent(w)
    \/ Launch(w) \/ LiftEnds(w) \/ ReleaseMemory(w)

(***************************************************************************)
(* request_pause, by caller r                                              *)
(***************************************************************************)
Step(r, from, to) == rpc[r] = from /\ rpc' = [rpc EXCEPT ![r] = to]

(* A "p" line, or SIGUSR1: the next free frame if the handler is running.  *)
ListenerReads ==
    /\ Alive /\ lines < MaxLines
    /\ Step(Listener, "idle", "lock")
    /\ lines' = lines + 1
    /\ UNCHANGED <<event, attached, lock, first, stateFile, signals>>
    /\ UNCHANGED <<mainVars, jobVars, budgetVars, cleared>>

SignalArrives ==
    /\ Alive /\ signals < MaxSignals
    /\ \E k \in Frames :
          /\ \A m \in Frames : m < k <=> rpc[m] # "idle"
          /\ Step(k, "idle", "lock")
    /\ signals' = signals + 1
    /\ UNCHANGED <<event, attached, lock, first, stateFile, lines>>
    /\ UNCHANGED <<mainVars, jobVars, budgetVars, cleared>>

TakeLockUnguarded(r) ==
    /\ OnTop(r)
    /\ Step(r, "lock", "set")
    /\ lock' = r
    /\ first' = [first EXCEPT ![r] = ~ event]
    /\ UNCHANGED <<event, attached, stateFile, signals, lines>>
    /\ UNCHANGED <<mainVars, jobVars, budgetVars, cleared>>

(* Lines 149-150: threading.Lock, not reentrant.                           *)
TakeLock(r) ==
    /\ OnTop(r)
    /\ Step(r, "lock", "set")
    /\ lock = Nobody /\ lock' = r
    /\ first' = [first EXCEPT ![r] = ~ event]
    /\ UNCHANGED <<event, attached, stateFile, signals, lines>>
    /\ UNCHANGED <<mainVars, jobVars, budgetVars, cleared>>

(* Line 151 and the end of the with block.                                 *)
SetEvent(r) ==
    /\ OnTop(r)
    /\ Step(r, "set", "snapshot")
    /\ event' = TRUE
    /\ lock' = Nobody
    /\ cleared' = IF event THEN cleared
                  ELSE {wjob[w] : w \in {x \in Workers : wpc[x] = "launch"}}
    /\ UNCHANGED <<attached, first, stateFile, signals, lines>>
    /\ UNCHANGED <<mainVars, jobVars, budgetVars>>

AfterCancel(r) == IF first[r] THEN "open" ELSE "idle"

(* list(self.futures): before attach there is nothing to cancel.           *)
Snapshot(r) ==
    /\ OnTop(r)
    /\ Step(r, "snapshot", IF attached THEN "cancel" ELSE AfterCancel(r))
    /\ UNCHANGED <<event, attached, lock, first, stateFile, signals, lines>>
    /\ UNCHANGED <<mainVars, jobVars, budgetVars, cleared>>

CancelLoop(r) ==
    /\ OnTop(r)
    /\ \/ /\ rpc[r] = "cancel" /\ CancelNext
          /\ UNCHANGED rpc
       \/ /\ Pending = {} /\ UNCHANGED fut
          /\ Step(r, "cancel", AfterCancel(r))
    /\ UNCHANGED <<event, attached, lock, first, stateFile, signals, lines>>
    /\ UNCHANGED <<queue, wpc, wjob, outcome, mainVars, budgetVars, cleared>>

(* write_json: open(path, "w") empties the file before dump fills it.      *)
WriteState(r) ==
    /\ OnTop(r)
    /\ \/ Step(r, "open", "dump") /\ stateFile' = "torn"
       \/ Step(r, "dump", "idle") /\ stateFile' = "paused"
    /\ UNCHANGED <<event, attached, lock, first, signals, lines>>
    /\ UNCHANGED <<mainVars, jobVars, budgetVars, cleared>>

RequestPause(r) ==
    \/ TakeLock(r) \/ SetEvent(r) \/ Snapshot(r)
    \/ CancelLoop(r) \/ WriteState(r)

(***************************************************************************)
(* main()                                                                  *)
(***************************************************************************)
MainGoes(from, to) == NotInterrupted /\ main = from /\ main' = to

Unsubmitted == {j \in Jobs : fut[j] = "none"}

(* One submit (lines 474-475).                                             *)
Submit ==
    /\ MainGoes("submit", "submit")
    /\ \E j \in FirstOf(Unsubmitted) :
          /\ fut' = [fut EXCEPT ![j] = "pending"]
          /\ queue' = [queue EXCEPT ![JobPool(j)] = Append(@, j)]
    /\ UNCHANGED <<exitCode, results, wpc, wjob, outcome>>
    /\ UNCHANGED <<pauseVars, budgetVars, cleared>>

AllSubmitted ==
    /\ MainGoes("submit", "attach")
    /\ Unsubmitted = {}
    /\ UNCHANGED <<exitCode, results, jobVars, pauseVars, budgetVars, cleared>>

Attach ==
    /\ MainGoes("attach", "check")
    /\ attached' = TRUE
    /\ UNCHANGED <<event, lock, rpc, first, stateFile, signals, lines>>
    /\ UNCHANGED <<exitCode, results, jobVars, budgetVars, cleared>>

AttachCheckDropped ==
    /\ MainGoes("check", "collect")
    /\ UNCHANGED <<exitCode, results, jobVars, pauseVars, budgetVars, cleared>>

AttachCheck ==
    /\ MainGoes("check", IF event THEN "cancel" ELSE "collect")
    /\ UNCHANGED <<exitCode, results, jobVars, pauseVars, budgetVars, cleared>>

AttachCancel ==
    /\ \/ MainGoes("cancel", "cancel") /\ CancelNext
       \/ MainGoes("cancel", "collect") /\ Pending = {} /\ UNCHANGED fut
    /\ UNCHANGED <<exitCode, results, queue, wpc, wjob, outcome>>
    /\ UNCHANGED <<pauseVars, budgetVars, cleared>>

CollectUnchecked(j) ==
    /\ results[j] = "none" /\ fut[j] \in {"notified", "finished"}
    /\ MainGoes("collect", "collect")
    /\ results' = [results EXCEPT ![j] = IF fut[j] = "notified"
                                         THEN "not_started" ELSE outcome[j]]
    /\ UNCHANGED <<exitCode, jobVars, pauseVars, budgetVars, cleared>>

(* The body of the as_completed loop (lines 478-484).  An exception that   *)
(* run_job raised is raised again by future.result().                      *)
Collect(j) ==
    /\ results[j] = "none"
    /\ \/ /\ fut[j] = "notified"
          /\ MainGoes("collect", "collect")
          /\ results' = [results EXCEPT ![j] = "not_started"]
       \/ /\ fut[j] = "finished" /\ outcome[j] # "raised"
          /\ MainGoes("collect", "collect")
          /\ results' = [results EXCEPT ![j] = outcome[j]]
       \/ /\ fut[j] = "finished" /\ outcome[j] = "raised"
          /\ MainGoes("collect", "unwind")
          /\ UNCHANGED results
    /\ UNCHANGED <<exitCode, jobVars, pauseVars, budgetVars, cleared>>

AllCollected ==
    /\ MainGoes("collect", "join")
    /\ \A j \in Jobs : results[j] # "none"
    /\ UNCHANGED <<exitCode, results, jobVars, pauseVars, budgetVars, cleared>>

PoolsDrained ==
    /\ \A p \in Pools : queue[p] = << >>
    /\ \A w \in Workers : wpc[w] = "idle"

(* The end of the with block: shutdown(wait=True) of both pools.           *)
Join ==
    /\ PoolsDrained
    /\ \/ MainGoes("join", "finish") /\ UNCHANGED exitCode
       \/ MainGoes("unwind", "exited") /\ exitCode' = "raised"
    /\ UNCHANGED <<results, jobVars, pauseVars, budgetVars, cleared>>

FinishReadsFile ==
    /\ MainGoes("finish", "exiting")
    /\ exitCode' = IF stateFile = "paused" THEN "3" ELSE "0"
    /\ UNCHANGED <<results, jobVars, pauseVars, budgetVars, cleared>>

(* paused = controller.event.is_set() (line 489) decides both the          *)
(* manifest's "complete" and the exit code.                                *)
Finish ==
    /\ MainGoes("finish", "exiting")
    /\ exitCode' = IF event THEN "3" ELSE "0"
    /\ UNCHANGED <<results, jobVars, pauseVars, budgetVars, cleared>>

Exit ==
    /\ MainGoes("exiting", "exited")
    /\ UNCHANGED <<exitCode, results, jobVars, pauseVars, budgetVars, cleared>>

Main ==
    \/ Submit \/ AllSubmitted \/ Attach \/ AttachCheck \/ AttachCancel
    \/ (\E j \in Jobs : Collect(j))
    \/ AllCollected \/ Join \/ Finish \/ Exit

Terminated == ~ Alive /\ UNCHANGED vars

Next ==
    \/ Main
    \/ \E w \in Workers : Worker(w)
    \/ \E r \in Callers : RequestPause(r)
    \/ ListenerReads \/ SignalArrives
    \/ Terminated

Spec == Init /\ [][Next]_vars

(***************************************************************************)
(* The operating system runs every thread; nothing makes a user pause.     *)
(***************************************************************************)
FairSpec ==
    /\ Spec
    /\ WF_vars(Main)
    /\ \A w \in Workers : WF_vars(Worker(w))
    /\ \A r \in Callers : WF_vars(RequestPause(r))

-----------------------------------------------------------------------------
TypeOK ==
    /\ main \in MainStates /\ exitCode \in {"none", "0", "3", "raised"}
    /\ fut \in [Jobs -> FutureStates]
    /\ queue \in [Pools -> Seq(Jobs)]
    /\ wpc \in [Workers -> WorkerStates]
    /\ wjob \in [Workers -> Jobs \cup {NoJob}]
    /\ \A w \in Workers : wpc[w] = "idle" <=> wjob[w] = NoJob
    /\ outcome \in [Jobs -> {"none", "not_started", "ran", "raised"}]
    /\ results \in [Jobs -> {"none", "not_started", "ran"}]
    /\ event \in BOOLEAN /\ attached \in BOOLEAN
    /\ lock \in Callers \cup {Nobody}
    /\ rpc \in [Callers -> CallerStates] /\ first \in [Callers -> BOOLEAN]
    /\ stateFile \in {"running", "torn", "paused"}
    /\ Budget!BudgetTypeOK
    /\ cleared \subseteq Jobs

Lifting == {w \in Workers : wpc[w] = "lifting"}

LiftingMB ==
    [w \in Workers |-> IF w \in Lifting THEN Estimate[wjob[w]] ELSE 0]

(* The point of the budget (lines 83-89): the estimates of all backends    *)
(* that run at one time add up to more than the budget only when a single  *)
(* oversized one runs alone, across both pools and whatever a pause, a     *)
(* cancelled future or a failing job does in between.                      *)
RunningFitsBudget ==
    Budget!SumOver(LiftingMB) > TotalMB => \A v, w \in Lifting : v = w

(* Every way out of run_job gives back what it took and only that: early   *)
(* returns, a pause seen after the wait, an exception (lines 442-452).     *)
MemoryReturned ==
    /\ \A w \in Workers :
          call[w] = "holding" <=>
              wpc[w] \in {"recheck", "launch", "lifting", "release"}
    /\ PoolsDrained => used_mb = 0

(* attach and request_pause race (lines 140-152): one publishes the        *)
(* futures, then reads the event; the other sets the event, then reads the *)
(* futures.  Once both are through, no future was left for a worker.       *)
NothingLeftPending ==
    event /\ main \notin {"submit", "attach", "check", "cancel"}
          /\ (\A r \in Callers : rpc[r] \notin {"snapshot", "cancel"})
        => Pending = {}

(* "Binja capped to binja_workers concurrent instances" (lines 383-392):   *)
(* a license-safety ceiling that --max-parallel lowers but never raises.   *)
LicenseCap ==
    /\ Cardinality({w \in Lifting : wjob[w] \in Licensed}) <= binja_workers
    /\ \A w \in Workers : wjob[w] \in Licensed => WorkerPool(w) = "binja"

(* Of all concurrent requests one writes pause_state.json (lines 149-156): *)
(* no two threads are ever inside its write_json.                          *)
SingleWriter ==
    \A q, r \in Callers :
        rpc[q] \in {"open", "dump"} /\ rpc[r] \in {"open", "dump"} => q = r

(* The exit code and "complete" agree with the records (lines 488-531):    *)
(* 0 only when every job has run; on both returns every job has a record,  *)
(* and it is "not_started" exactly when run_one was never called for it.   *)
ExitTellsTruth ==
    /\ exitCode = "0" => \A j \in Jobs : results[j] = "ran"
    /\ exitCode \in {"0", "3"} =>
          \A j \in Jobs : results[j] = IF outcome[j] = "ran" THEN "ran"
                                       ELSE "not_started"

(* main() comes to an end: no job starves in the budget or the queues, and *)
(* a pause at any moment leaves nobody waiting for anybody.                *)
Terminates == <>(main = "exited")

(* PauseController keeps PauseGate's promise.                              *)
Declined(j) == fut[j] \in {"cancelled", "notified"} \/ outcome[j] = "not_started"
Started(j) == outcome[j] = "raised" \/ \E w \in Lifting : wjob[w] = j

Gate == INSTANCE PauseGate
          WITH MaxGrace <- MaxParallel + binja_workers,
               paused <- event,
               grace <- cleared,
               phase <- [j \in Jobs |->
                           IF results[j] # "none" THEN results[j]
                           ELSE IF Declined(j) THEN "declined"
                           ELSE IF outcome[j] = "ran" THEN "over"
                           ELSE IF Started(j) THEN "started"
                           ELSE "waiting"]

(* A job that waits for a worker or for memory when the user pauses is not *)
(* started any more; only jobs past line 447 are (lines 125-131, 438-448). *)
KeepsGatePromise == Gate!GateSpec

(* --max-parallel: "Max concurrent (binary, backend) subprocesses ... Use  *)
(* 1 to restore the old fully-sequential behavior" (lines 291-293).        *)
MaxParallelHonoured == Cardinality(Lifting) <= MaxParallel

(* "The state file records the pause so a fresh process comes back up      *)
(* still paused" (lines 129-131): a run that ends with the exit code of a  *)
(* paused run has left the pause in the file.                              *)
PausedExitRecorded ==
    main = "exited" /\ exitCode = "3" => stateFile = "paused"
=============================================================================
