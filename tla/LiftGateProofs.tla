--------------------------- MODULE LiftGateProofs ---------------------------
(***************************************************************************)
(* What becomes of each job: theorems about LiftScheduler that follow one  *)
(* job from its submission to its record.  The exit code and the records   *)
(* agree (ExitTellsTruth), and the scheduler implements PauseGate          *)
(* (KeepsGatePromise).                                                     *)
(*                                                                         *)
(* Both need JobInv: a job belongs to one worker at most, a result exists  *)
(* once run_job has returned and not before, jobs are declined only after  *)
(* a pause, and the jobs that a pause lets through stand behind line 447.  *)
(***************************************************************************)
EXTENDS LiftSchedulerProofs

(* A job in the hands of a worker is running, in nobody else's hands, and  *)
(* has its result just before the finally of run_job.                      *)
WorkerOwnsJob ==
    /\ \A v, w \in Workers : wjob[v] # NoJob /\ wjob[v] = wjob[w] => v = w
    /\ \A w \in Workers :
          wjob[w] # NoJob =>
              /\ fut[wjob[w]] = "running"
              /\ outcome[wjob[w]] = "none" <=> wpc[w] # "release"

(* A finished future has a result, one that never ran has none, and a      *)
(* record in results_by_job repeats what became of the future.             *)
OutcomeWhenDone ==
    \A j \in Jobs :
        /\ fut[j] = "finished" => outcome[j] # "none"
        /\ fut[j] \notin {"running", "finished"} => outcome[j] = "none"
        /\ results[j] # "none" =>
              \/ fut[j] = "notified" /\ results[j] = "not_started"
              \/ fut[j] = "finished" /\ results[j] = outcome[j]

(* Futures are cancelled, and jobs turned away, only once event is set.    *)
DeclinedByPause ==
    /\ main = "cancel" => event
    /\ \A r \in Callers : rpc[r] \in {"snapshot", "cancel"} => event
    /\ \A j \in Jobs : Declined(j) => event

(* main() leaves the as_completed loop with a record for every job.        *)
AllRecordedAtExit ==
    /\ main \in {"join", "finish"} \/ exitCode \in {"0", "3"} =>
          \A j \in Jobs : results[j] # "none"
    /\ exitCode = "0" => \A j \in Jobs : results[j] = "ran"

(* The jobs that were between line 448 and run_one when event was set are  *)
(* the only ones that still get there, and none of them is turned away.    *)
ClearedAreThrough ==
    /\ ~ event => cleared = {}
    /\ event => \A w \in Workers : wpc[w] = "launch" => wjob[w] \in cleared
    /\ \A w \in Workers :
          wpc[w] \in {"check", "acquire", "recheck"} => wjob[w] \notin cleared
    /\ \A j \in cleared : fut[j] \in {"running", "finished"} /\ ~ Declined(j)

JobInv ==
    /\ WorkerOwnsJob /\ OutcomeWhenDone /\ DeclinedByPause
    /\ AllRecordedAtExit /\ ClearedAreThrough

LEMMA JobInvInit == Init => JobInv
<1>1. SUFFICES ASSUME Init
               PROVE  JobInv
  OBVIOUS
<1>2. WorkerOwnsJob /\ OutcomeWhenDone
  BY <1>1 DEF Init, WorkerOwnsJob, OutcomeWhenDone
<1>3. DeclinedByPause /\ AllRecordedAtExit
  BY <1>1 DEF Init, DeclinedByPause, AllRecordedAtExit, Declined
<1>4. ClearedAreThrough
  BY <1>1 DEF Init, ClearedAreThrough
<1>. QED
  BY <1>2, <1>3, <1>4 DEF JobInv

-----------------------------------------------------------------------------
(* The steps of a worker.  What one changes is about itself and its job.   *)

LEMMA WorkerLeavesRest ==
    ASSUME NEW w \in Workers, Worker(w)
    PROVE  UNCHANGED <<main, exitCode, results, event, attached, lock, rpc,
                       first, cleared>>
BY DEF Worker, Take, Check, AcquireMemory, RecheckEvent, Launch, LiftEnds,
       ReleaseMemory, mainVars, pauseVars

LEMMA TakeKeepsJobs ==
    ASSUME SchedInv, JobInv, NEW w \in Workers, Take(w)
    PROVE  JobInv'
<1>. DEFINE j == Head(queue[WorkerPool(w)])
<1>1. /\ wpc[w] = "idle" /\ wjob[w] = NoJob
      /\ j \in Jobs /\ j # NoJob
  BY ConstantFacts DEF Take, SchedInv, JobTypeOK
<1>2. UNCHANGED <<main, exitCode, results, event, rpc, cleared, outcome>>
  BY DEF Take, mainVars, pauseVars
<1>3. \/ /\ fut[j] = "pending" /\ fut' = [fut EXCEPT ![j] = "running"]
         /\ wjob' = [wjob EXCEPT ![w] = j]
         /\ wpc' = [wpc EXCEPT ![w] = "check"]
      \/ /\ fut[j] = "cancelled" /\ fut' = [fut EXCEPT ![j] = "notified"]
         /\ UNCHANGED <<wpc, wjob>>
  BY DEF Take, Goto
<1>. HIDE DEF j
<1>. USE DEF SchedInv, JobTypeOK
<1>4. WorkerOwnsJob'
  <2>1. \A v \in Workers : wjob[v] # j
    BY <1>1, <1>3 DEF JobInv, WorkerOwnsJob
  <2>2. outcome[j] = "none"
    BY <1>1, <1>3 DEF JobInv, OutcomeWhenDone
  <2>. QED
    BY <1>1, <1>2, <1>3, <2>1, <2>2 DEF JobInv, WorkerOwnsJob
<1>5. OutcomeWhenDone'
  BY <1>1, <1>2, <1>3 DEF JobInv, OutcomeWhenDone
<1>6. DeclinedByPause' /\ AllRecordedAtExit'
  BY <1>1, <1>2, <1>3
  DEF JobInv, DeclinedByPause, AllRecordedAtExit, Declined
<1>7. ClearedAreThrough'
  <2>1. j \notin cleared
    BY <1>3 DEF JobInv, ClearedAreThrough
  <2>2. \A i \in cleared : fut'[i] = fut[i] /\ outcome'[i] = outcome[i]
    BY <1>2, <1>3, <2>1
  <2>3. \A i \in cleared' :
            fut'[i] \in {"running", "finished"} /\ ~ Declined(i)'
    BY <1>2, <2>2 DEF JobInv, ClearedAreThrough, Declined
  <2>. QED
    BY <1>1, <1>2, <1>3, <2>1, <2>3 DEF JobInv, ClearedAreThrough
<1>. QED
  BY <1>4, <1>5, <1>6, <1>7 DEF JobInv

(* run_job returns "not_started" from one of its two tests of the event.   *)
LEMMA CheckKeepsJobs ==
    ASSUME SchedInv, JobInv, NEW w \in Workers, Check(w) \/ RecheckEvent(w)
    PROVE  JobInv'
<1>. DEFINE j == wjob[w]
<1>1. /\ wpc[w] \in {"check", "recheck"}
      /\ j \in Jobs /\ j # NoJob
  BY DEF Check, RecheckEvent, SchedInv, JobTypeOK
<1>2. UNCHANGED <<main, exitCode, results, event, rpc, cleared>>
  BY DEF Check, RecheckEvent, mainVars, pauseVars
<1>3. \/ /\ event /\ outcome' = [outcome EXCEPT ![j] = "not_started"]
         /\ wpc' = [wpc EXCEPT ![w] = "idle"]
         /\ fut' = [fut EXCEPT ![j] = "finished"]
         /\ wjob' = [wjob EXCEPT ![w] = NoJob]
      \/ /\ event /\ outcome' = [outcome EXCEPT ![j] = "not_started"]
         /\ wpc' = [wpc EXCEPT ![w] = "release"]
         /\ UNCHANGED <<fut, wjob>>
      \/ /\ ~ event
         /\ \E x \in {"acquire", "launch"} : wpc' = [wpc EXCEPT ![w] = x]
         /\ UNCHANGED <<fut, wjob, outcome>>
  BY DEF Check, RecheckEvent, Resolve, Returns, Goto
<1>4. fut[j] = "running" /\ outcome[j] = "none" /\ j \notin cleared
  BY <1>1 DEF JobInv, WorkerOwnsJob, ClearedAreThrough
<1>5. results[j] = "none"
  BY <1>1, <1>4 DEF JobInv, OutcomeWhenDone
<1>6. \A v \in Workers : v # w => wjob[v] # j
  BY <1>1 DEF JobInv, WorkerOwnsJob
<1>. HIDE DEF j
<1>. USE DEF SchedInv, JobTypeOK
<1>7. WorkerOwnsJob'
  BY <1>1, <1>2, <1>3, <1>4, <1>6 DEF JobInv, WorkerOwnsJob, j
<1>8. OutcomeWhenDone'
  BY <1>1, <1>2, <1>3, <1>4, <1>5 DEF JobInv, OutcomeWhenDone
<1>9. DeclinedByPause' /\ AllRecordedAtExit'
  BY <1>1, <1>2, <1>3, <1>4
  DEF JobInv, DeclinedByPause, AllRecordedAtExit, Declined
<1>10. ClearedAreThrough'
  <2>1. \A i \in cleared : fut'[i] = fut[i] /\ outcome'[i] = outcome[i]
    BY <1>2, <1>3, <1>4
  <2>2. \A i \in cleared' :
            fut'[i] \in {"running", "finished"} /\ ~ Declined(i)'
    BY <1>2, <2>1 DEF JobInv, ClearedAreThrough, Declined
  <2>3. event /\ event' => \A v \in Workers :
            wpc'[v] = "launch" => wpc[v] = "launch" /\ wjob'[v] = wjob[v]
    BY <1>1, <1>3
  <2>4. \A v \in Workers :
            wpc'[v] \in {"check", "acquire", "recheck"} =>
                wjob'[v] \notin cleared'
    <3>1. ASSUME NEW v \in Workers, v # w
          PROVE  wpc'[v] = wpc[v] /\ wjob'[v] = wjob[v]
      BY <1>3, <3>1
    <3>2. wpc'[w] \in {"check", "acquire", "recheck"} => wjob'[w] = j
      BY <1>1, <1>3 DEF j
    <3>. QED
      BY <1>2, <1>4, <3>1, <3>2 DEF JobInv, ClearedAreThrough
  <2>. QED
    BY <1>2, <2>2, <2>3, <2>4 DEF JobInv, ClearedAreThrough
<1>. QED
  BY <1>7, <1>8, <1>9, <1>10 DEF JobInv

LEMMA AcquireKeepsJobs ==
    ASSUME SchedInv, JobInv, NEW w \in Workers, AcquireMemory(w)
    PROVE  JobInv'
<1>1. /\ wpc[w] = "acquire"
      /\ wpc' = wpc \/ wpc' = [wpc EXCEPT ![w] = "recheck"]
      /\ UNCHANGED <<main, exitCode, results, event, rpc, cleared, fut, wjob,
                     outcome>>
  BY DEF AcquireMemory, Goto, mainVars, pauseVars
<1>. USE DEF SchedInv, JobTypeOK
<1>2. WorkerOwnsJob' /\ OutcomeWhenDone'
  BY <1>1 DEF JobInv, WorkerOwnsJob, OutcomeWhenDone
<1>3. DeclinedByPause' /\ AllRecordedAtExit'
  BY <1>1 DEF JobInv, DeclinedByPause, AllRecordedAtExit, Declined
<1>4. ClearedAreThrough'
  BY <1>1 DEF JobInv, ClearedAreThrough, Declined
<1>. QED
  BY <1>2, <1>3, <1>4 DEF JobInv

(* run_one starts the backend, raises, or returns its record.              *)
LEMMA RunKeepsJobs ==
    ASSUME SchedInv, JobInv, NEW w \in Workers, Launch(w) \/ LiftEnds(w)
    PROVE  JobInv'
<1>. DEFINE j == wjob[w]
<1>1. /\ wpc[w] \in {"launch", "lifting"}
      /\ j \in Jobs /\ j # NoJob
  BY DEF Launch, LiftEnds, SchedInv, JobTypeOK
<1>2. UNCHANGED <<main, exitCode, results, event, rpc, cleared, fut, wjob>>
  BY DEF Launch, LiftEnds, mainVars, pauseVars
<1>3. \/ wpc' = [wpc EXCEPT ![w] = "lifting"] /\ outcome' = outcome
      \/ /\ wpc' = [wpc EXCEPT ![w] = "release"]
         /\ \E o \in {"raised", "ran"} : outcome' = [outcome EXCEPT ![j] = o]
  BY DEF Launch, LiftEnds, Goto, Returns
<1>4. fut[j] = "running" /\ outcome[j] = "none"
  BY <1>1 DEF JobInv, WorkerOwnsJob
<1>5. results[j] = "none"
  BY <1>1, <1>4 DEF JobInv, OutcomeWhenDone
<1>6. \A v \in Workers : v # w => wjob[v] # j
  BY <1>1 DEF JobInv, WorkerOwnsJob
<1>. HIDE DEF j
<1>. USE DEF SchedInv, JobTypeOK
<1>7. WorkerOwnsJob'
  BY <1>1, <1>2, <1>3, <1>4, <1>6 DEF JobInv, WorkerOwnsJob, j
<1>8. OutcomeWhenDone'
  BY <1>1, <1>2, <1>3, <1>4, <1>5 DEF JobInv, OutcomeWhenDone
<1>9. \A i \in Jobs : Declined(i)' <=> Declined(i)
  BY <1>1, <1>2, <1>3, <1>4 DEF Declined
<1>10. DeclinedByPause' /\ AllRecordedAtExit'
  BY <1>2, <1>9 DEF JobInv, DeclinedByPause, AllRecordedAtExit
<1>11. ClearedAreThrough'
  BY <1>1, <1>2, <1>3, <1>9 DEF JobInv, ClearedAreThrough
<1>. QED
  BY <1>7, <1>8, <1>10, <1>11 DEF JobInv

LEMMA ReleaseKeepsJobs ==
    ASSUME SchedInv, JobInv, NEW w \in Workers, ReleaseMemory(w)
    PROVE  JobInv'
<1>. DEFINE j == wjob[w]
<1>1. /\ wpc[w] = "release" /\ j \in Jobs /\ j # NoJob
      /\ UNCHANGED <<main, exitCode, results, event, rpc, cleared, outcome>>
      /\ fut' = [fut EXCEPT ![j] = "finished"]
      /\ wjob' = [wjob EXCEPT ![w] = NoJob]
      /\ wpc' = [wpc EXCEPT ![w] = "idle"]
  BY DEF ReleaseMemory, Resolve, Goto, mainVars, pauseVars, SchedInv,
         JobTypeOK
<1>2. fut[j] = "running" /\ outcome[j] # "none"
  BY <1>1 DEF JobInv, WorkerOwnsJob
<1>3. results[j] = "none"
  BY <1>1, <1>2 DEF JobInv, OutcomeWhenDone
<1>4. \A v \in Workers : v # w => wjob[v] # j
  BY <1>1 DEF JobInv, WorkerOwnsJob
<1>. HIDE DEF j
<1>. USE DEF SchedInv, JobTypeOK
<1>5. WorkerOwnsJob'
  BY <1>1, <1>2, <1>4 DEF JobInv, WorkerOwnsJob
<1>6. OutcomeWhenDone'
  BY <1>1, <1>2, <1>3 DEF JobInv, OutcomeWhenDone
<1>7. \A i \in Jobs : Declined(i)' <=> Declined(i)
  BY <1>1, <1>2 DEF Declined
<1>8. DeclinedByPause' /\ AllRecordedAtExit'
  BY <1>1, <1>7 DEF JobInv, DeclinedByPause, AllRecordedAtExit
<1>9. ClearedAreThrough'
  BY <1>1, <1>7 DEF JobInv, ClearedAreThrough
<1>. QED
  BY <1>5, <1>6, <1>8, <1>9 DEF JobInv

LEMMA WorkerKeepsJobs ==
    ASSUME SchedInv, JobInv, NEW w \in Workers, Worker(w)
    PROVE  JobInv'
BY TakeKeepsJobs, CheckKeepsJobs, AcquireKeepsJobs, RunKeepsJobs,
   ReleaseKeepsJobs DEF Worker

-----------------------------------------------------------------------------
(* The steps of request_pause.                                             *)

(* One turn of _cancel_pending, in a caller's thread or in attach.         *)
LEMMA CancelKeepsJobs ==
    ASSUME SchedInv, JobInv, CancelNext, event,
           UNCHANGED <<exitCode, results, event, cleared, wpc, wjob, outcome>>,
           main' = main, rpc' = rpc
    PROVE  JobInv'
<1>1. PICK j \in Jobs : fut[j] = "pending" /\ fut' = [fut EXCEPT ![j] = "cancelled"]
  BY DEF CancelNext, FirstOf, Pending
<1>2. outcome[j] = "none" /\ j \notin cleared /\ \A v \in Workers : wjob[v] # j
  BY <1>1, ConstantFacts
  DEF JobInv, OutcomeWhenDone, ClearedAreThrough, WorkerOwnsJob
<1>. USE DEF SchedInv, JobTypeOK
<1>3. WorkerOwnsJob'
  BY <1>1, <1>2 DEF JobInv, WorkerOwnsJob
<1>4. OutcomeWhenDone'
  BY <1>1, <1>2 DEF JobInv, OutcomeWhenDone
<1>5. DeclinedByPause' /\ AllRecordedAtExit'
  BY DEF JobInv, DeclinedByPause, AllRecordedAtExit
<1>6. ClearedAreThrough'
  BY <1>1, <1>2 DEF JobInv, ClearedAreThrough, Declined
<1>. QED
  BY <1>3, <1>4, <1>5, <1>6 DEF JobInv

(* The moment the event is set: the jobs of the workers at the entry of    *)
(* run_one are cleared, all others will meet one of the two tests.         *)
LEMMA SetEventKeepsJobs ==
    ASSUME SchedInv, JobInv, NEW r \in Callers, SetEvent(r)
    PROVE  JobInv'
<1>. USE DEF SchedInv, JobTypeOK, PauseTypeOK
<1>1. /\ UNCHANGED <<main, exitCode, results, wpc, wjob, outcome, fut>>
      /\ event' = TRUE /\ rpc' = [rpc EXCEPT ![r] = "snapshot"]
      /\ cleared' = IF event THEN cleared
                    ELSE {wjob[w] : w \in {x \in Workers : wpc[x] = "launch"}}
  BY DEF SetEvent, Step, mainVars, jobVars
<1>2. WorkerOwnsJob' /\ OutcomeWhenDone'
  BY <1>1 DEF JobInv, WorkerOwnsJob, OutcomeWhenDone
<1>3. DeclinedByPause' /\ AllRecordedAtExit'
  BY <1>1 DEF JobInv, DeclinedByPause, AllRecordedAtExit, Declined
<1>4. ClearedAreThrough'
  <2>1. CASE event
    BY <1>1, <2>1 DEF JobInv, ClearedAreThrough, Declined
  <2>2. CASE ~ event
    <3>1. \A w \in Workers : wpc[w] = "launch" => wjob[w] \in cleared'
      BY <1>1, <2>2
    <3>2. ASSUME NEW j \in cleared'
          PROVE  \E w \in Workers : wpc[w] = "launch" /\ wjob[w] = j /\ j # NoJob
      BY <1>1, <2>2, <3>2
    <3>3. \A j \in cleared' : fut[j] = "running" /\ outcome[j] = "none"
      BY <3>2 DEF JobInv, WorkerOwnsJob
    <3>4. ASSUME NEW w \in Workers, wpc[w] \in {"check", "acquire", "recheck"}
          PROVE  wjob[w] \notin cleared'
      BY <3>2, <3>4 DEF JobInv, WorkerOwnsJob
    <3>. QED
      BY <1>1, <3>1, <3>3, <3>4 DEF ClearedAreThrough, Declined
  <2>. QED
    BY <2>1, <2>2
<1>. QED
  BY <1>2, <1>3, <1>4 DEF JobInv

LEMMA CallerKeepsJobs ==
    ASSUME SchedInv, JobInv,
           \/ ListenerReads \/ SignalArrives
           \/ \E r \in Callers : RequestPause(r)
    PROVE  JobInv'
<1>. USE DEF SchedInv, PauseTypeOK
<1>1. ASSUME NEW r \in Callers, NEW x \in CallerStates,
             rpc' = [rpc EXCEPT ![r] = x],
             x \in {"snapshot", "cancel"} => event,
             UNCHANGED <<main, exitCode, results, event, cleared, jobVars>>
      PROVE  JobInv'
  <2>1. WorkerOwnsJob' /\ OutcomeWhenDone'
    BY <1>1 DEF JobInv, WorkerOwnsJob, OutcomeWhenDone, jobVars
  <2>2. DeclinedByPause' /\ AllRecordedAtExit'
    BY <1>1 DEF JobInv, DeclinedByPause, AllRecordedAtExit, Declined, jobVars
  <2>3. ClearedAreThrough'
    BY <1>1 DEF JobInv, ClearedAreThrough, Declined, jobVars
  <2>. QED
    BY <2>1, <2>2, <2>3 DEF JobInv
<1>2. CASE ListenerReads \/ SignalArrives
  <2>1. /\ UNCHANGED <<main, exitCode, results, event, cleared, jobVars>>
        /\ \E r \in Callers : rpc' = [rpc EXCEPT ![r] = "lock"]
    BY <1>2, SchedulerAssumption
    DEF ListenerReads, SignalArrives, Step, Listener, Callers, Frames, mainVars
  <2>. QED
    BY <1>1, <2>1 DEF CallerStates
<1>3. ASSUME NEW r \in Callers, TakeLock(r) \/ Snapshot(r) \/ WriteState(r)
      PROVE  JobInv'
  <2>1. /\ UNCHANGED <<main, exitCode, results, event, cleared, jobVars>>
        /\ \E x \in CallerStates : /\ rpc' = [rpc EXCEPT ![r] = x]
                                   /\ x = "cancel" => rpc[r] = "snapshot"
                                   /\ x # "snapshot"
    BY <1>3 DEF TakeLock, Snapshot, WriteState, Step, AfterCancel,
                CallerStates, mainVars
  <2>. QED
    BY <1>1, <2>1 DEF JobInv, DeclinedByPause
<1>4. ASSUME NEW r \in Callers, CancelLoop(r)
      PROVE  JobInv'
  <2>1. UNCHANGED <<main, exitCode, results, event, cleared, queue, wpc, wjob,
                    outcome>>
    BY <1>4 DEF CancelLoop, mainVars
  <2>2. CASE rpc[r] = "cancel" /\ CancelNext /\ rpc' = rpc
    <3>1. event
      BY <2>2 DEF JobInv, DeclinedByPause
    <3>. QED
      BY <2>1, <2>2, <3>1, CancelKeepsJobs
  <2>3. CASE fut' = fut /\ Step(r, "cancel", AfterCancel(r))
    <3>1. \E x \in {"open", "idle"} : rpc' = [rpc EXCEPT ![r] = x]
      BY <2>3 DEF Step, AfterCancel
    <3>. QED
      BY <1>1, <2>1, <2>3, <3>1 DEF CallerStates, jobVars
  <2>. QED
    BY <1>4, <2>2, <2>3 DEF CancelLoop
<1>. QED
  BY <1>2, <1>3, <1>4, SetEventKeepsJobs DEF RequestPause

-----------------------------------------------------------------------------
(* The steps of main().                                                    *)

LEMMA CollectKeepsJobs ==
    ASSUME SchedInv, JobInv, NEW j \in Jobs, Collect(j)
    PROVE  JobInv'
<1>1. /\ UNCHANGED <<exitCode, event, rpc, cleared, jobVars>>
      /\ results[j] = "none"
      /\ main = "collect" /\ main' \in {"collect", "unwind"}
  BY DEF Collect, MainGoes, pauseVars
<1>2. \/ fut[j] = "notified" /\ results' = [results EXCEPT ![j] = "not_started"]
      \/ fut[j] = "finished" /\ results' = [results EXCEPT ![j] = outcome[j]]
      \/ results' = results
  BY DEF Collect
<1>. USE DEF SchedInv, MainTypeOK, JobTypeOK
<1>3. WorkerOwnsJob'
  BY <1>1 DEF JobInv, WorkerOwnsJob, jobVars
<1>4. OutcomeWhenDone'
  BY <1>1, <1>2 DEF JobInv, OutcomeWhenDone, jobVars
<1>5. exitCode \notin {"0", "3"}
  BY <1>1 DEF JobInv, AllRecordedAtExit
<1>6. DeclinedByPause' /\ AllRecordedAtExit'
  BY <1>1, <1>5
  DEF JobInv, DeclinedByPause, AllRecordedAtExit, Declined, jobVars
<1>7. ClearedAreThrough'
  BY <1>1 DEF JobInv, ClearedAreThrough, Declined, jobVars
<1>. QED
  BY <1>3, <1>4, <1>6, <1>7 DEF JobInv

(* The exit code is 0 only if the event was never set, and then nothing    *)
(* can have been turned away.                                              *)
LEMMA FinishKeepsJobs ==
    ASSUME SchedInv, JobInv, Finish
    PROVE  JobInv'
<1>1. /\ UNCHANGED <<results, event, rpc, cleared, jobVars>>
      /\ main = "finish" /\ main' = "exiting"
      /\ exitCode' = IF event THEN "3" ELSE "0"
  BY DEF Finish, MainGoes, pauseVars
<1>2. \A j \in Jobs : results[j] # "none"
  BY <1>1 DEF JobInv, AllRecordedAtExit
<1>3. ASSUME ~ event, NEW j \in Jobs
      PROVE  results[j] = "ran"
  <2>1. ~ Declined(j)
    BY <1>3 DEF JobInv, DeclinedByPause
  <2>2. results[j] \in {"not_started", "ran"}
    BY <1>2 DEF SchedInv, MainTypeOK
  <2>. QED
    BY <1>2, <2>1, <2>2 DEF JobInv, OutcomeWhenDone, Declined
<1>4. WorkerOwnsJob' /\ OutcomeWhenDone'
  BY <1>1 DEF JobInv, WorkerOwnsJob, OutcomeWhenDone, jobVars
<1>5. DeclinedByPause' /\ AllRecordedAtExit'
  BY <1>1, <1>2, <1>3
  DEF JobInv, DeclinedByPause, AllRecordedAtExit, Declined, jobVars
<1>6. ClearedAreThrough'
  BY <1>1 DEF JobInv, ClearedAreThrough, Declined, jobVars
<1>. QED
  BY <1>4, <1>5, <1>6 DEF JobInv

LEMMA SubmitKeepsJobs ==
    ASSUME SchedInv, JobInv, Submit
    PROVE  JobInv'
<1>1. PICK j \in Jobs : fut[j] = "none" /\ fut' = [fut EXCEPT ![j] = "pending"]
  BY DEF Submit, FirstOf, Unsubmitted
<1>2. UNCHANGED <<main, exitCode, results, event, rpc, cleared, wpc, wjob,
                  outcome>>
  BY DEF Submit, MainGoes, pauseVars
<1>3. outcome[j] = "none" /\ j \notin cleared /\ \A v \in Workers : wjob[v] # j
  BY <1>1, ConstantFacts
  DEF JobInv, OutcomeWhenDone, ClearedAreThrough, WorkerOwnsJob
<1>. USE DEF SchedInv, JobTypeOK
<1>4. WorkerOwnsJob'
  BY <1>1, <1>2, <1>3 DEF JobInv, WorkerOwnsJob
<1>5. OutcomeWhenDone'
  BY <1>1, <1>2, <1>3 DEF JobInv, OutcomeWhenDone
<1>6. DeclinedByPause' /\ AllRecordedAtExit'
  BY <1>1, <1>2 DEF JobInv, DeclinedByPause, AllRecordedAtExit, Declined
<1>7. ClearedAreThrough'
  BY <1>1, <1>2, <1>3 DEF JobInv, ClearedAreThrough, Declined
<1>. QED
  BY <1>4, <1>5, <1>6, <1>7 DEF JobInv

LEMMA MainKeepsJobs ==
    ASSUME SchedInv, JobInv, Main
    PROVE  JobInv'
<1>1. CASE AttachCancel
  <2>1. /\ main = "cancel"
        /\ UNCHANGED <<exitCode, results, event, rpc, cleared, queue, wpc,
                       wjob, outcome>>
        /\ \/ main' = main /\ CancelNext
           \/ main' = "collect" /\ fut' = fut
    BY <1>1 DEF AttachCancel, MainGoes, pauseVars
  <2>2. event
    BY <2>1 DEF JobInv, DeclinedByPause
  <2>3. CASE main' = "collect" /\ fut' = fut
    <3>1. WorkerOwnsJob' /\ OutcomeWhenDone'
      BY <2>1, <2>3 DEF JobInv, WorkerOwnsJob, OutcomeWhenDone
    <3>2. DeclinedByPause' /\ AllRecordedAtExit' /\ ClearedAreThrough'
      BY <2>1, <2>3
      DEF JobInv, DeclinedByPause, AllRecordedAtExit, ClearedAreThrough, Declined
    <3>. QED
      BY <3>1, <3>2 DEF JobInv
  <2>. QED
    BY <2>1, <2>2, <2>3, CancelKeepsJobs
<1>2. CASE \/ AllSubmitted \/ Attach \/ AttachCheck \/ AllCollected \/ Join
           \/ Exit
  <2>1. UNCHANGED <<results, event, rpc, cleared, fut, wpc, wjob, outcome>>
    BY <1>2 DEF AllSubmitted, Attach, AttachCheck, AllCollected, Join, Exit,
                pauseVars, jobVars
  <2>2. /\ main' = "cancel" => event
        /\ exitCode' = exitCode \/ exitCode' = "raised"
        /\ main' \in {"join", "finish"} =>
              \/ main \in {"join", "finish"}
              \/ \A j \in Jobs : results[j] # "none"
    BY <1>2 DEF AllSubmitted, Attach, AttachCheck, AllCollected, Join, Exit,
                MainGoes
  <2>3. WorkerOwnsJob' /\ OutcomeWhenDone'
    BY <2>1 DEF JobInv, WorkerOwnsJob, OutcomeWhenDone
  <2>4. DeclinedByPause' /\ AllRecordedAtExit'
    BY <2>1, <2>2 DEF JobInv, DeclinedByPause, AllRecordedAtExit, Declined
  <2>5. ClearedAreThrough'
    BY <2>1 DEF JobInv, ClearedAreThrough, Declined
  <2>. QED
    BY <2>3, <2>4, <2>5 DEF JobInv
<1>. QED
  BY <1>1, <1>2, SubmitKeepsJobs, CollectKeepsJobs, FinishKeepsJobs DEF Main

LEMMA JobInvStep == SchedInv /\ JobInv /\ [Next]_vars => JobInv'
<1>1. SUFFICES ASSUME SchedInv, JobInv, [Next]_vars
               PROVE  JobInv'
  OBVIOUS
<1>2. CASE UNCHANGED vars
  <2>1. UNCHANGED <<main, exitCode, results, event, rpc, cleared, fut, wpc,
                    wjob, outcome>>
    BY <1>2 DEF vars, mainVars, jobVars, pauseVars
  <2>2. WorkerOwnsJob' /\ OutcomeWhenDone'
    BY <1>1, <2>1 DEF JobInv, WorkerOwnsJob, OutcomeWhenDone
  <2>3. DeclinedByPause' /\ AllRecordedAtExit' /\ ClearedAreThrough'
    BY <1>1, <2>1
    DEF JobInv, DeclinedByPause, AllRecordedAtExit, ClearedAreThrough, Declined
  <2>. QED
    BY <2>2, <2>3 DEF JobInv
<1>. QED
  BY <1>1, <1>2, MainKeepsJobs, WorkerKeepsJobs, CallerKeepsJobs
  DEF Next, Terminated

(* A job has one worker and one outcome, and only a pause declines it.     *)
THEOREM JobInvariant == Spec => []JobInv
BY JobInvInit, JobInvStep, SchedInvariant, PTL DEF Spec

(* Exit code 0 means that every job ran; on both ordinary exits every job  *)
(* has a record, "not_started" exactly when run_one did not run for it.    *)
THEOREM ExitIsTruthful == Spec => []ExitTellsTruth
<1>1. SchedInv /\ JobInv => ExitTellsTruth
  BY DEF SchedInv, MainTypeOK, JobTypeOK, JobInv, AllRecordedAtExit,
         OutcomeWhenDone, ExitTellsTruth
<1>. QED
  BY <1>1, SchedInvariant, JobInvariant, PTL

-----------------------------------------------------------------------------
(* The scheduler implements PauseGate: phase of Gate is Phase of each job. *)

Phase(j) ==
    IF results[j] # "none" THEN results[j]
    ELSE IF Declined(j) THEN "declined"
    ELSE IF outcome[j] = "ran" THEN "over"
    ELSE IF Started(j) THEN "started"
    ELSE "waiting"

LEMMA GateMove ==
    ASSUME NEW j \in Jobs, NEW to,
           Phase(j)' = to,
           \A i \in Jobs : i # j => Phase(i)' = Phase(i),
           UNCHANGED <<event, cleared>>
    PROVE  Gate!Move(j, Phase(j), to)
<1>. DEFINE phase == [i \in Jobs |-> Phase(i)]
<1>1. phase' = [phase EXCEPT ![j] = to]
  OBVIOUS
<1>. QED
  BY <1>1 DEF Gate!Move, Phase

LEMMA GateStutter ==
    ASSUME \A i \in Jobs : Phase(i)' = Phase(i), UNCHANGED <<event, cleared>>
    PROVE  UNCHANGED Gate!gateVars
BY DEF Gate!gateVars, Phase

(* A job that no worker has started lifting and that has no outcome waits. *)
LEMMA WaitingJobs ==
    ASSUME SchedInv, JobInv, NEW j \in Jobs,
           fut[j] \notin {"cancelled", "notified"}, outcome[j] = "none",
           \A w \in Lifting : wjob[w] # j
    PROVE  Phase(j) = "waiting"
BY DEF Phase, JobInv, OutcomeWhenDone, Declined, Started

(* A worker's job waits until the worker is inside run_one.                *)
LEMMA WorkerJobPhase ==
    ASSUME SchedInv, JobInv, NEW w \in Workers, wpc[w] # "idle"
    PROVE  /\ wjob[w] \in Jobs /\ results[wjob[w]] = "none"
           /\ \A v \in Workers : v # w => wjob[v] # wjob[w]
           /\ wpc[w] \in {"check", "acquire", "recheck", "launch"} =>
                 Phase(wjob[w]) = "waiting"
           /\ wpc[w] = "lifting" => Phase(wjob[w]) = "started"
<1>1. /\ wjob[w] \in Jobs /\ wjob[w] # NoJob
      /\ wpc[w] \in WorkerStates
  BY ConstantFacts DEF SchedInv, JobTypeOK
<1>2. /\ fut[wjob[w]] = "running"
      /\ outcome[wjob[w]] = "none" <=> wpc[w] # "release"
      /\ \A v \in Workers : v # w => wjob[v] # wjob[w]
  BY <1>1 DEF JobInv, WorkerOwnsJob
<1>3. results[wjob[w]] = "none"
  BY <1>1, <1>2 DEF JobInv, OutcomeWhenDone
<1>4. wpc[w] \in {"check", "acquire", "recheck", "launch"} =>
          \A v \in Lifting : wjob[v] # wjob[w]
  BY <1>2 DEF Lifting
<1>. QED
  BY <1>1, <1>2, <1>3, <1>4 DEF Phase, Declined, Started, Lifting

LEMMA WorkerSimulates ==
    ASSUME SchedInv, JobInv, NEW w \in Workers, Worker(w)
    PROVE  [Gate!GateNext]_(Gate!gateVars)
<1>. USE DEF SchedInv, JobTypeOK
<1>0. UNCHANGED <<results, event, cleared>>
  BY WorkerLeavesRest
<1>1. CASE Take(w)
  <2>1. PICK k \in Jobs :
          /\ outcome' = outcome
          /\ \/ /\ fut[k] = "pending" /\ fut' = [fut EXCEPT ![k] = "running"]
                /\ wjob' = [wjob EXCEPT ![w] = k]
                /\ wpc' = [wpc EXCEPT ![w] = "check"]
             \/ /\ fut[k] = "cancelled" /\ fut' = [fut EXCEPT ![k] = "notified"]
                /\ UNCHANGED <<wpc, wjob>>
    <3>1. Head(queue[WorkerPool(w)]) \in Jobs
      BY <1>1, ConstantFacts DEF Take
    <3>. QED
      BY <1>1, <3>1 DEF Take, Goto
  <2>2. wpc[w] = "idle"
    BY <1>1 DEF Take
  <2>3. Lifting' = Lifting /\ \A v \in Lifting : wjob'[v] = wjob[v]
    BY <2>1, <2>2 DEF Lifting
  <2>4. \A i \in Jobs : Phase(i)' = Phase(i)
    BY <1>0, <2>1, <2>3 DEF Phase, Declined, Started
  <2>. QED
    BY <1>0, <2>4, GateStutter
<1>2. CASE Check(w) \/ RecheckEvent(w)
  <2>1. wpc[w] \in {"check", "recheck"}
    BY <1>2 DEF Check, RecheckEvent
  <2>2. PICK j \in Jobs :
          /\ j = wjob[w] /\ results[j] = "none" /\ Phase(j) = "waiting"
          /\ \A v \in Workers : v # w => wjob[v] # j
    BY <2>1, WorkerJobPhase
  <2>3. \/ /\ event /\ outcome' = [outcome EXCEPT ![j] = "not_started"]
           /\ \E x \in {"idle", "release"} : wpc' = [wpc EXCEPT ![w] = x]
           /\ fut' = fut \/ fut' = [fut EXCEPT ![j] = "finished"]
           /\ wjob' = wjob \/ wjob' = [wjob EXCEPT ![w] = NoJob]
        \/ /\ \E x \in {"acquire", "launch"} : wpc' = [wpc EXCEPT ![w] = x]
           /\ UNCHANGED <<fut, wjob, outcome>>
    BY <1>2, <2>2 DEF Check, RecheckEvent, Resolve, Returns, Goto
  <2>4. Lifting' = Lifting /\ \A v \in Lifting : wjob'[v] = wjob[v]
    BY <2>1, <2>3 DEF Lifting
  <2>5. \A i \in Jobs : i # j => Phase(i)' = Phase(i)
    BY <1>0, <2>2, <2>3, <2>4 DEF Phase, Declined, Started
  <2>6. CASE event /\ outcome' = [outcome EXCEPT ![j] = "not_started"]
    <3>1. Phase(j)' = "declined"
      BY <1>0, <2>2, <2>6 DEF Phase, Declined
    <3>2. Gate!Move(j, "waiting", "declined")
      BY <1>0, <2>2, <2>5, <3>1, GateMove
    <3>3. j \notin cleared
      BY <2>1, <2>2 DEF JobInv, ClearedAreThrough
    <3>. QED
      BY <2>2, <2>6, <3>2, <3>3 DEF Gate!GateNext, Gate!Decline
  <2>7. CASE UNCHANGED <<fut, wjob, outcome>>
    <3>1. \A i \in Jobs : Phase(i)' = Phase(i)
      BY <1>0, <2>4, <2>7 DEF Phase, Declined, Started
    <3>. QED
      BY <1>0, <3>1, GateStutter
  <2>. QED
    BY <2>3, <2>6, <2>7
<1>3. CASE AcquireMemory(w)
  <2>1. /\ UNCHANGED <<fut, wjob, outcome>> /\ wpc[w] = "acquire"
        /\ wpc' = wpc \/ wpc' = [wpc EXCEPT ![w] = "recheck"]
    BY <1>3 DEF AcquireMemory, Goto
  <2>2. Lifting' = Lifting
    BY <2>1 DEF Lifting
  <2>3. \A i \in Jobs : Phase(i)' = Phase(i)
    BY <1>0, <2>1, <2>2 DEF Phase, Declined, Started
  <2>. QED
    BY <1>0, <2>3, GateStutter
<1>4. CASE Launch(w)
  <2>1. wpc[w] = "launch" /\ UNCHANGED <<fut, wjob>>
    BY <1>4 DEF Launch
  <2>2. PICK j \in Jobs :
          /\ j = wjob[w] /\ results[j] = "none" /\ Phase(j) = "waiting"
          /\ \A v \in Workers : v # w => wjob[v] # j
    BY <2>1, WorkerJobPhase
  <2>3. ~ Declined(j) /\ outcome[j] = "none"
    BY <2>1, <2>2, ConstantFacts
    DEF Declined, JobInv, WorkerOwnsJob
  <2>4. \/ wpc' = [wpc EXCEPT ![w] = "lifting"] /\ outcome' = outcome
        \/ /\ wpc' = [wpc EXCEPT ![w] = "release"]
           /\ outcome' = [outcome EXCEPT ![j] = "raised"]
    BY <1>4, <2>2 DEF Launch, Goto, Returns
  <2>5. Phase(j)' = "started"
    <3>1. ~ Declined(j)' /\ outcome'[j] # "ran" /\ results'[j] = "none"
      BY <1>0, <2>1, <2>2, <2>3, <2>4 DEF Declined
    <3>2. Started(j)'
      BY <2>1, <2>2, <2>4 DEF Started, Lifting
    <3>. QED
      BY <3>1, <3>2 DEF Phase
  <2>6. \A i \in Jobs : i # j => Phase(i)' = Phase(i)
    <3>1. \A v \in Workers : v # w => (v \in Lifting' <=> v \in Lifting)
      BY <2>4 DEF Lifting
    <3>2. ASSUME NEW i \in Jobs, i # j
          PROVE  Started(i)' <=> Started(i)
      BY <2>1, <2>2, <2>4, <3>1, <3>2 DEF Started, Lifting
    <3>. QED
      BY <1>0, <2>1, <2>2, <2>4, <3>2 DEF Phase, Declined
  <2>7. Gate!Move(j, "waiting", "started")
    BY <1>0, <2>2, <2>5, <2>6, GateMove
  <2>8. event => j \in cleared
    BY <2>1, <2>2 DEF JobInv, ClearedAreThrough
  <2>. QED
    BY <2>2, <2>7, <2>8 DEF Gate!GateNext, Gate!Start
<1>5. CASE LiftEnds(w)
  <2>1. /\ wpc[w] = "lifting" /\ UNCHANGED <<fut, wjob>>
        /\ wpc' = [wpc EXCEPT ![w] = "release"]
        /\ outcome' = [outcome EXCEPT ![wjob[w]] = "ran"]
    BY <1>5 DEF LiftEnds, Returns, Goto
  <2>2. PICK j \in Jobs :
          /\ j = wjob[w] /\ results[j] = "none" /\ Phase(j) = "started"
          /\ \A v \in Workers : v # w => wjob[v] # j
    BY <2>1, WorkerJobPhase
  <2>3. ~ Declined(j)
    BY <2>2 DEF Phase
  <2>4. Phase(j)' = "over"
    BY <1>0, <2>1, <2>2, <2>3 DEF Phase, Declined
  <2>5. \A i \in Jobs : i # j => Phase(i)' = Phase(i)
    <3>1. \A v \in Workers : v # w => (v \in Lifting' <=> v \in Lifting)
      BY <2>1 DEF Lifting
    <3>2. ASSUME NEW i \in Jobs, i # j
          PROVE  Started(i)' <=> Started(i)
      BY <2>1, <2>2, <3>1, <3>2 DEF Started, Lifting
    <3>. QED
      BY <1>0, <2>1, <2>2, <3>2 DEF Phase, Declined
  <2>6. Gate!Move(j, "started", "over")
    BY <1>0, <2>2, <2>4, <2>5, GateMove
  <2>. QED
    BY <2>2, <2>6 DEF Gate!GateNext
<1>6. CASE ReleaseMemory(w)
  <2>1. /\ wpc[w] = "release" /\ outcome' = outcome
        /\ fut' = [fut EXCEPT ![wjob[w]] = "finished"]
        /\ wjob' = [wjob EXCEPT ![w] = NoJob]
        /\ wpc' = [wpc EXCEPT ![w] = "idle"]
    BY <1>6 DEF ReleaseMemory, Resolve, Goto
  <2>2. wjob[w] \in Jobs /\ fut[wjob[w]] = "running"
    BY <2>1, ConstantFacts DEF JobInv, WorkerOwnsJob
  <2>3. Lifting' = Lifting /\ \A v \in Lifting : wjob'[v] = wjob[v]
    BY <2>1 DEF Lifting
  <2>4. \A i \in Jobs : Phase(i)' = Phase(i)
    BY <1>0, <2>1, <2>2, <2>3 DEF Phase, Declined, Started
  <2>. QED
    BY <1>0, <2>4, GateStutter
<1>. QED
  BY <1>1, <1>2, <1>3, <1>4, <1>5, <1>6 DEF Worker

LEMMA CancelSimulates ==
    ASSUME SchedInv, JobInv, CancelNext, event,
           UNCHANGED <<results, event, cleared, wpc, wjob, outcome>>
    PROVE  [Gate!GateNext]_(Gate!gateVars)
<1>1. PICK j \in Jobs : fut[j] = "pending" /\ fut' = [fut EXCEPT ![j] = "cancelled"]
  BY DEF CancelNext, FirstOf, Pending
<1>. USE DEF SchedInv, JobTypeOK
<1>2. outcome[j] = "none" /\ j \notin cleared /\ \A v \in Workers : wjob[v] # j
  BY <1>1, ConstantFacts
  DEF JobInv, OutcomeWhenDone, ClearedAreThrough, WorkerOwnsJob
<1>3. Phase(j) = "waiting" /\ results[j] = "none"
  BY <1>1, <1>2, WaitingJobs DEF Lifting, JobInv, OutcomeWhenDone
<1>4. Phase(j)' = "declined"
  BY <1>1, <1>3 DEF Phase, Declined
<1>5. \A i \in Jobs : i # j => Phase(i)' = Phase(i)
  BY <1>1 DEF Phase, Declined, Started, Lifting
<1>6. Gate!Move(j, "waiting", "declined")
  BY <1>3, <1>4, <1>5, GateMove
<1>. QED
  BY <1>2, <1>6 DEF Gate!GateNext, Gate!Decline

(* The event is set once; what is cleared has no more jobs than there are  *)
(* workers.                                                                *)
LEMMA SetEventSimulates ==
    ASSUME SchedInv, JobInv, NEW r \in Callers, SetEvent(r)
    PROVE  [Gate!GateNext]_(Gate!gateVars)
<1>. DEFINE Launching == {x \in Workers : wpc[x] = "launch"}
            phase == [i \in Jobs |-> Phase(i)]
<1>1. /\ UNCHANGED <<results, wpc, wjob, outcome, fut>>
      /\ event' = TRUE
      /\ cleared' = IF event THEN cleared ELSE {wjob[w] : w \in Launching}
  BY DEF SetEvent, mainVars, jobVars
<1>2. \A i \in Jobs : Phase(i)' = Phase(i)
  BY <1>1 DEF Phase, Declined, Started, Lifting
<1>3. CASE event
  BY <1>1, <1>2, <1>3, GateStutter DEF SchedInv, PauseTypeOK
<1>4. CASE ~ event
  <2>1. cleared' \in SUBSET {j \in Jobs : Phase(j) = "waiting"}
    BY <1>1, <1>4, WorkerJobPhase
  <2>2. IsFiniteSet(Workers) /\ Cardinality(Workers) = MaxParallel + binja_workers
    BY FS_Interval, ConstantFacts DEF Workers
  <2>3. /\ IsFiniteSet(Launching)
        /\ Cardinality(Launching) <= MaxParallel + binja_workers
    BY <2>2, FS_Subset
  <2>4. [w \in Launching |-> wjob[w]] \in Surjection(Launching, cleared')
    BY <1>1, <1>4 DEF Surjection
  <2>5. /\ Cardinality(cleared') <= Cardinality(Launching)
        /\ IsFiniteSet(cleared')
    BY <2>3, <2>4, FS_Surjection
  <2>6. Cardinality(cleared') <= MaxParallel + binja_workers
    BY <2>3, <2>5, FS_CardinalityType, ConstantFacts
  <2>7. Gate!Cardinality(cleared') = Cardinality(cleared')
    BY DEF Gate!Cardinality, Cardinality
  <2>8. phase' = phase /\ \A j \in Jobs : phase[j] = Phase(j)
    BY <1>2
  <2>9. Gate!Pause
    BY <1>1, <1>4, <2>1, <2>6, <2>7, <2>8 DEF Gate!Pause, Phase
  <2>. QED
    BY <2>9 DEF Gate!GateNext
<1>. QED
  BY <1>3, <1>4

LEMMA CollectSimulates ==
    ASSUME SchedInv, JobInv, NEW j \in Jobs, Collect(j)
    PROVE  [Gate!GateNext]_(Gate!gateVars)
<1>. USE DEF SchedInv, MainTypeOK, JobTypeOK
<1>1. UNCHANGED <<event, cleared, jobVars>> /\ results[j] = "none"
  BY DEF Collect, pauseVars
<1>2. \A i \in Jobs : /\ Declined(i)' <=> Declined(i)
                      /\ Started(i)' <=> Started(i)
                      /\ outcome'[i] = outcome[i]
  BY <1>1 DEF jobVars, Declined, Started, Lifting
<1>3. CASE results' = results
  <2>1. \A i \in Jobs : Phase(i)' = Phase(i)
    BY <1>2, <1>3 DEF Phase
  <2>. QED
    BY <1>1, <2>1, GateStutter
<1>4. ASSUME NEW to \in {"not_started", "ran"},
             results' = [results EXCEPT ![j] = to],
             Phase(j) = (IF to = "ran" THEN "over" ELSE "declined")
      PROVE  Gate!GateNext
  <2>1. Phase(j)' = to /\ \A i \in Jobs : i # j => Phase(i)' = Phase(i)
    BY <1>2, <1>4 DEF Phase
  <2>2. Gate!Move(j, Phase(j), to)
    BY <1>1, <2>1, GateMove
  <2>. QED
    BY <1>4, <2>2 DEF Gate!GateNext
<1>5. CASE fut[j] = "notified" /\ results' = [results EXCEPT ![j] = "not_started"]
  BY <1>1, <1>4, <1>5 DEF Phase, Declined
<1>6. CASE /\ fut[j] = "finished" /\ outcome[j] # "raised"
           /\ results' = [results EXCEPT ![j] = outcome[j]]
  <2>1. outcome[j] \in {"not_started", "ran"}
    BY <1>6 DEF JobInv, OutcomeWhenDone
  <2>2. Phase(j) = IF outcome[j] = "ran" THEN "over" ELSE "declined"
    BY <1>1, <1>6, <2>1 DEF Phase, Declined
  <2>. QED
    BY <1>4, <1>6, <2>1, <2>2
<1>. QED
  BY <1>3, <1>5, <1>6 DEF Collect

LEMMA OthersSimulate ==
    ASSUME SchedInv, UNCHANGED <<results, event, cleared, wpc, wjob, outcome>>,
           \/ fut' = fut
           \/ \E j \in Jobs :
                 fut[j] = "none" /\ fut' = [fut EXCEPT ![j] = "pending"]
    PROVE  [Gate!GateNext]_(Gate!gateVars)
<1>1. \A i \in Jobs : Phase(i)' = Phase(i)
  BY DEF SchedInv, JobTypeOK, Phase, Declined, Started, Lifting
<1>. QED
  BY <1>1, GateStutter

LEMMA StepOpensNoGate ==
    SchedInv /\ JobInv /\ [Next]_vars => [Gate!GateNext]_(Gate!gateVars)
<1>1. SUFFICES ASSUME SchedInv, JobInv, [Next]_vars
               PROVE  [Gate!GateNext]_(Gate!gateVars)
  OBVIOUS
<1>2. ASSUME NEW r \in Callers, RequestPause(r)
      PROVE  [Gate!GateNext]_(Gate!gateVars)
  <2>1. CASE TakeLock(r) \/ Snapshot(r) \/ WriteState(r)
    BY <1>1, <2>1, OthersSimulate
    DEF TakeLock, Snapshot, WriteState, mainVars, jobVars
  <2>2. CASE CancelLoop(r)
    <3>1. UNCHANGED <<results, event, cleared, wpc, wjob, outcome>>
      BY <2>2 DEF CancelLoop, mainVars
    <3>2. fut' = fut \/ (CancelNext /\ event)
      BY <1>1, <2>2 DEF CancelLoop, JobInv, DeclinedByPause
    <3>. QED
      BY <1>1, <3>1, <3>2, OthersSimulate, CancelSimulates
  <2>. QED
    BY <1>1, <1>2, <2>1, <2>2, SetEventSimulates DEF RequestPause
<1>3. CASE ListenerReads \/ SignalArrives \/ UNCHANGED vars
  BY <1>1, <1>3, OthersSimulate
  DEF ListenerReads, SignalArrives, vars, mainVars, jobVars, pauseVars
<1>4. CASE AttachCancel
  <2>1. UNCHANGED <<results, event, cleared, wpc, wjob, outcome>>
    BY <1>4 DEF AttachCancel, pauseVars
  <2>2. fut' = fut \/ (CancelNext /\ event)
    BY <1>1, <1>4 DEF AttachCancel, MainGoes, JobInv, DeclinedByPause
  <2>. QED
    BY <1>1, <2>1, <2>2, OthersSimulate, CancelSimulates
<1>5. CASE Submit
  <2>1. \E j \in Jobs :
            fut[j] = "none" /\ fut' = [fut EXCEPT ![j] = "pending"]
    BY <1>5 DEF Submit, FirstOf, Unsubmitted
  <2>2. UNCHANGED <<results, event, cleared, wpc, wjob, outcome>>
    BY <1>5 DEF Submit, pauseVars
  <2>. QED
    BY <1>1, <2>1, <2>2, OthersSimulate
<1>6. CASE \/ AllSubmitted \/ Attach \/ AttachCheck \/ AllCollected \/ Join
           \/ Finish \/ Exit
  <2>1. UNCHANGED <<results, event, cleared, fut, wpc, wjob, outcome>>
    BY <1>6 DEF AllSubmitted, Attach, AttachCheck, AllCollected, Join, Finish,
                Exit, pauseVars, jobVars
  <2>. QED
    BY <1>1, <2>1, OthersSimulate
<1>. QED
  BY <1>1, <1>2, <1>3, <1>4, <1>5, <1>6, WorkerSimulates, CollectSimulates
  DEF Next, Main, Terminated

LEMMA InitOpensGate == Init => Gate!GateInit
<1>1. SUFFICES ASSUME Init
               PROVE  Gate!GateInit
  OBVIOUS
<1>2. \A j \in Jobs : Phase(j) = "waiting"
  BY <1>1 DEF Init, Phase, Declined, Started, Lifting
<1>. QED
  BY <1>1, <1>2 DEF Init, Gate!GateInit, Phase

(* PauseController and run_job keep the promise of the pause: whatever the *)
(* threads do, jobs start, are declined and are reported as in PauseGate.  *)
THEOREM SchedulerKeepsGate == Spec => KeepsGatePromise
BY InitOpensGate, StepOpensNoGate, SchedInvariant, JobInvariant, PTL
DEF Spec, KeepsGatePromise, Gate!GateSpec
=============================================================================
