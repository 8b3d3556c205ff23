------------------------- MODULE LiftSessionProofs --------------------------
(***************************************************************************)
(* Theorems about LiftSession for every set of jobs, every collection of   *)
(* command lines, and any number of failures, pauses, kills and reboots.   *)
(*                                                                         *)
(* The argument: what main() has established at each of its places about   *)
(* the state file and the jobs (StageInv); type correctness, which needs   *)
(* it; what the traces of an attempt on the disk say about its having been *)
(* made (AttemptInv); what the manifest keeps (ManifestInv).               *)
(***************************************************************************)
EXTENDS LiftSession, TLAPS

Early == {"down", "load", "open state", "dump state", "scan"}
Late == {"run", "open", "dump", "exit"}

StageInv ==
    /\ main \in Early => ~ event /\ \A j \in Jobs : job[j] = "out"
    /\ main \in Late => \A j \in args.scope : job[j] # "out"
    /\ main \in Late \ {"run"} => \A j \in Jobs : Settled(j)
    /\ main = "open state" /\ stateFile = "paused" => args.resume
    /\ main = "dump state" => stateFile = "unreadable"
    /\ main = "scan" \/ (main \in Late /\ ~ event) => stateFile = "running"
    /\ ~ event => writer = "idle"

TypeInv == TypeOK /\ StageInv

LEMMA ProcFacts ==
    /\ \A j \in Jobs : /\ Child(j) \in Procs /\ Orphan(j) \in Procs
                       /\ Child(j)[1] = j /\ Orphan(j)[1] = j
                       /\ Child(j) # Orphan(j)
    /\ \A p \in Procs : p[1] \in Jobs /\ (p = Child(p[1]) \/ p = Orphan(p[1]))
    /\ \A i, j \in Jobs : Child(i) = Child(j) => i = j
BY DEF Procs, Child, Orphan

LEMMA UnreadableType == Unreadable \in Manifests
BY DEF Unreadable, NoRuns, Manifests, RunStates

LEMMA TypeInit == Init => TypeInv
<1>1. SUFFICES ASSUME Init
               PROVE  TypeInv
  OBVIOUS
<1>2. \A j \in Jobs : lift[Child(j)] = "none" /\ job[j] = "out"
  BY <1>1, ProcFacts DEF Init
<1>3. /\ recorded \in [Jobs -> {"none", "some", "measured"}]
      /\ job \in [Jobs -> JobStates]
      /\ args \in [scope : SUBSET Jobs, resume : BOOLEAN, skip : BOOLEAN]
      /\ told \in [Jobs -> {"nobody", "backend", "record", "manifest"}]
  BY <1>1 DEF Init, NoRuns, JobStates, NotAsked
<1>4. TypeOK
  BY <1>1, <1>2, <1>3, UnreadableType DEF Init, TypeOK
<1>5. StageInv
  BY <1>1, <1>2 DEF Init, StageInv, Early, Late, Settled
<1>. QED
  BY <1>4, <1>5 DEF TypeInv

-----------------------------------------------------------------------------
LEMMA DownTypes ==
    ASSUME TypeOK, Down,
           \A j \in Jobs : lift'[Child(j)] = "none",
           stateFile' = stateFile
    PROVE  /\ StageInv'
           /\ main' = "down" /\ merged' \in Manifests /\ event' \in BOOLEAN
           /\ args' \in [scope : SUBSET Jobs, resume : BOOLEAN, skip : BOOLEAN]
           /\ writer' = "idle" /\ job' \in [Jobs -> JobStates]
           /\ \A j \in Jobs : lift'[Child(j)] # "none" <=> job'[j] = "live"
           /\ told' \in [Jobs -> {"nobody", "backend", "record", "manifest"}]
BY UnreadableType DEF Down, StageInv, Early, Late, NotAsked, JobStates, TypeOK

LEMMA MainTypes == ASSUME TypeInv, SessionAssumption, Main PROVE TypeInv'
<1>. USE DEF TypeInv
<1>1. CASE Load /\ Down
  <2>1. UNCHANGED <<diskVars, liftVars, recorded>>
    BY <1>1 DEF Load
  <2>2. \A j \in Jobs : lift[Child(j)] = "none"
    <3>1. main \in Early
      BY <1>1 DEF Load, Early, Down
    <3>. QED
      BY <3>1 DEF StageInv, TypeOK
  <2>. QED
    BY <1>1, <2>1, <2>2, DownTypes DEF TypeOK, diskVars, liftVars
<1>2. CASE Load /\ ~ Down
  <2>1. /\ main = "load" /\ (stateFile = "paused" => args.resume)
        /\ main' = IF stateFile = "running" THEN "scan" ELSE "open state"
        /\ UNCHANGED <<args, event, writer, job, merged>>
        /\ UNCHANGED <<diskVars, liftVars, recorded, told>>
    BY <1>2 DEF Load
  <2>2. main' \in {"scan", "open state"}
    BY <2>1
  <2>3. TypeOK'
    BY <2>1, <2>2 DEF TypeOK, diskVars, liftVars
  <2>4. StageInv'
    BY <2>1, <2>2 DEF StageInv, Early, Late, diskVars
  <2>. QED
    BY <2>3, <2>4
<1>3. CASE WriteState
  BY <1>3 DEF WriteState, TypeOK, StageInv, Early, Late, liftVars
<1>4. CASE Scan
  <2>1. job' \in [Jobs -> JobStates] /\ \A j \in Jobs : job'[j] # "live"
    BY <1>4 DEF Scan, JobStates
  <2>2. \A j \in Jobs : lift[Child(j)] = "none"
    BY <1>4 DEF Scan, StageInv, Early, TypeOK
  <2>3. \A j \in args.scope : job'[j] # "out"
    BY <1>4 DEF Scan, TypeOK
  <2>4. told' \in [Jobs -> {"nobody", "backend", "record", "manifest"}]
    BY <1>4 DEF Scan, TypeOK
  <2>. QED
    BY <1>4, <2>1, <2>2, <2>3, <2>4
    DEF Scan, TypeOK, StageInv, Early, Late, diskVars, liftVars
<1>5. CASE Merge
  <2>1. MergedRuns \in [Jobs -> RunStates]
    <3>1. \A j \in args.scope : job[j] \in RunStates
      BY <1>5 DEF Merge, StageInv, Late, Settled, RunStates, TypeOK
    <3>. QED
      BY <3>1 DEF MergedRuns, TypeOK, Manifests
  <2>2. merged' \in Manifests
    BY <1>5, <2>1 DEF Merge, Manifests, Complete, TypeOK
  <2>. QED
    BY <1>5, <2>2
    DEF Merge, TypeOK, StageInv, Early, Late, Settled, diskVars, liftVars
<1>6. CASE WriteManifest
  <2>1. manifest' \in Manifests /\ merged' \in Manifests
    BY <1>6, UnreadableType DEF WriteManifest, TypeOK
  <2>2. recorded' \in [Jobs -> {"none", "some", "measured"}]
    <3>1. recorded \in [Jobs -> {"none", "some", "measured"}]
      BY DEF TypeOK
    <3>2. \A run, best : BestRecord(run, best) \in {"some", "measured", best}
      BY DEF BestRecord
    <3>. QED
      BY <1>6, <3>1, <3>2 DEF WriteManifest
  <2>3. told' \in [Jobs -> {"nobody", "backend", "record", "manifest"}]
    <3>1. told \in [Jobs -> {"nobody", "backend", "record", "manifest"}]
      BY DEF TypeOK
    <3>. QED
      BY <1>6, <3>1 DEF WriteManifest
  <2>. QED
    BY <1>6, <2>1, <2>2, <2>3 DEF WriteManifest, TypeOK, StageInv, Early, Late,
                           Settled, liftVars
<1>7. CASE Unwind \/ Exit
  <2>1. Down /\ UNCHANGED <<diskVars, liftVars, recorded>>
    BY <1>7 DEF Unwind, Exit
  <2>2. \A j \in Jobs : lift[Child(j)] = "none"
    BY <1>7 DEF Unwind, Exit, StageInv, Late, Settled, TypeOK
  <2>. QED
    BY <2>1, <2>2, DownTypes DEF TypeOK, diskVars, liftVars
<1>. QED
  BY <1>1, <1>2, <1>3, <1>4, <1>5, <1>6, <1>7 DEF Main

(* The functions that the jobs and their backends update.                  *)
LiftStates == {"none", "lifting", "summary", "summarised", "records", "returns"}

LEMMA Functions ==
    ASSUME TypeOK
    PROVE  /\ job \in [Jobs -> JobStates]
           /\ lift \in [Procs -> LiftStates]
           /\ verdict \in [Procs -> {"none", "clean", "fatal"}]
           /\ summary \in [Jobs -> {"unreadable", "clean", "fatal"}]
           /\ records \in [Jobs -> BOOLEAN]
           /\ lastEnd \in [Jobs -> {"never", "running", "failed", "ok"}]
           /\ told \in [Jobs -> {"nobody", "backend", "record", "manifest"}]
           /\ \A j \in Jobs : lift[Child(j)] # "none" <=> job[j] = "live"
BY DEF TypeOK, LiftStates

(* TypeOK for a step that leaves main() where it is.                       *)
LEMMA JobStepTypes ==
    ASSUME TypeOK,
           UNCHANGED <<stateFile, manifest, main, args, event, writer, merged, recorded>>,
           job' \in [Jobs -> JobStates],
           lift' \in [Procs -> LiftStates],
           verdict' \in [Procs -> {"none", "clean", "fatal"}],
           summary' \in [Jobs -> {"unreadable", "clean", "fatal"}],
           records' \in [Jobs -> BOOLEAN],
           lastEnd' \in [Jobs -> {"never", "running", "failed", "ok"}],
           cutShort' \subseteq Jobs,
           told' \in [Jobs -> {"nobody", "backend", "record", "manifest"}],
           \A j \in Jobs : lift'[Child(j)] # "none" <=> job'[j] = "live"
    PROVE  TypeOK'
BY DEF TypeOK, LiftStates

(* StageInv for such a step, taken while the jobs run.                     *)
LEMMA JobStepStage ==
    ASSUME TypeInv, main = "run",
           UNCHANGED <<stateFile, main, args, event, writer>>,
           \A j \in Jobs : job'[j] = "out" => job[j] = "out"
    PROVE  StageInv'
BY DEF TypeInv, TypeOK, StageInv, Early, Late

LEMMA JobTypes ==
    ASSUME TypeInv, NEW j \in Jobs, PassCheck(j) \/ Launch(j) \/ NotLaunched(j)
    PROVE  TypeInv'
<1>1. main = "run"
  BY DEF PassCheck, Launch, NotLaunched, JobGoes, StageInv, TypeInv, TypeOK, Early,
         Late, Settled
<1>2. PICK to \in {"not_started", "cleared", "live", "raised"} :
          /\ job[j] \in {"todo", "cleared"}
          /\ job' = [job EXCEPT ![j] = to]
          /\ \/ /\ to # "live"
                /\ UNCHANGED <<lift, lastEnd>>
             \/ /\ to = "live" /\ job[j] = "cleared"
                /\ lift' = [lift EXCEPT ![Child(j)] = "lifting"]
                /\ lastEnd' = [lastEnd EXCEPT ![j] = "running"]
  BY DEF PassCheck, Launch, NotLaunched, JobGoes, liftVars
<1>3. /\ UNCHANGED <<stateFile, manifest, main, args, event, writer, merged, recorded>>
      /\ UNCHANGED <<verdict, summary, records, cutShort>>
      /\ told' = told \/ \E by \in {"backend", "nobody"} : told' = [told EXCEPT ![j] = by]
  BY DEF PassCheck, Launch, NotLaunched, liftVars, diskVars
<1>4. /\ job' \in [Jobs -> JobStates] /\ job'[j] = to
      /\ \A i \in Jobs : i # j => job'[i] = job[i]
  BY <1>2, Functions DEF TypeInv, JobStates
<1>5. /\ lift' \in [Procs -> LiftStates]
      /\ lastEnd' \in [Jobs -> {"never", "running", "failed", "ok"}]
  BY <1>2, Functions DEF TypeInv, LiftStates
<1>6. /\ told' \in [Jobs -> {"nobody", "backend", "record", "manifest"}]
      /\ cutShort' \subseteq Jobs
  <2>1. cutShort' \subseteq Jobs
    BY <1>3 DEF TypeInv, TypeOK
  <2>. QED
    BY <1>3, <2>1, Functions DEF TypeInv
<1>7. \A i \in Jobs : lift'[Child(i)] # "none" <=> job'[i] = "live"
  <2>1. CASE to # "live"
    BY <1>2, <1>4, <2>1, Functions DEF TypeInv
  <2>2. CASE to = "live"
    <3>1. lift'[Child(j)] = "lifting"
      BY <1>2, <2>2, Functions, ProcFacts DEF TypeInv
    <3>2. \A i \in Jobs : i # j => lift'[Child(i)] = lift[Child(i)]
      BY <1>2, <2>2, Functions, ProcFacts DEF TypeInv
    <3>. QED
      BY <1>4, <2>2, <3>1, <3>2, Functions DEF TypeInv
  <2>. QED
    BY <2>1, <2>2
<1>8. TypeOK'
  BY <1>3, <1>4, <1>5, <1>6, <1>7, JobStepTypes, Functions DEF TypeInv
<1>9. StageInv'
  BY <1>1, <1>2, <1>3, <1>4, JobStepStage
<1>. QED
  BY <1>8, <1>9 DEF TypeInv

LEMMA LosesTypes ==
    ASSUME TypeInv, NEW j \in Jobs, LosesChild(j)
    PROVE  TypeInv'
<1>1. /\ job[j] = "live" /\ main = "run"
      /\ Child(j) \in Procs /\ Orphan(j) \in Procs /\ Child(j) # Orphan(j)
  BY Functions, ProcFacts DEF LosesChild, TypeInv, TypeOK, StageInv, Early, Late,
                              Settled
<1>2. /\ job' \in [Jobs -> JobStates] /\ job'[j] = "failed"
      /\ \A i \in Jobs : i # j => job'[i] = job[i]
      /\ lastEnd' \in [Jobs -> {"never", "running", "failed", "ok"}]
      /\ told' \in [Jobs -> {"nobody", "backend", "record", "manifest"}]
  BY Functions DEF LosesChild, TypeInv, JobStates
<1>3. /\ lift' \in [Procs -> LiftStates] /\ lift'[Child(j)] = "none"
      /\ verdict' \in [Procs -> {"none", "clean", "fatal"}]
  BY <1>1, Functions DEF LosesChild, TypeInv, LiftStates
<1>4. \A i \in Jobs : i # j => lift'[Child(i)] = lift[Child(i)]
  BY <1>1, Functions, ProcFacts DEF LosesChild, TypeInv, Child, Orphan
<1>5. \A i \in Jobs : lift'[Child(i)] # "none" <=> job'[i] = "live"
  BY <1>2, <1>3, <1>4, Functions DEF TypeInv
<1>6. /\ UNCHANGED <<stateFile, manifest, main, args, event, writer, merged, recorded>>
      /\ UNCHANGED <<summary, records, cutShort>>
  BY DEF LosesChild, diskVars
<1>7. cutShort' \subseteq Jobs
  BY <1>6 DEF TypeInv, TypeOK
<1>8. TypeOK'
  BY <1>2, <1>3, <1>5, <1>6, <1>7, JobStepTypes, Functions DEF TypeInv
<1>9. StageInv'
  BY <1>1, <1>2, <1>6, JobStepStage
<1>. QED
  BY <1>8, <1>9 DEF TypeInv

LEMMA BackendTypes == ASSUME TypeInv, NEW p \in Procs, Backend(p) PROVE TypeInv'
<1>. DEFINE j == p[1]
<1>0. /\ j \in Jobs
      /\ \A i \in Jobs : Child(i) = p => i = j
      /\ \A i \in Jobs : Child(i) \in Procs
  BY ProcFacts
<1>1. UNCHANGED <<stateFile, manifest, main, args, event, writer, merged, recorded>>
  BY DEF Backend
<1>2. lift[p] # "none"
  BY DEF Backend, Lift, Dies, WriteSummary, WriteRecords
<1>9. /\ told' \in [Jobs -> {"nobody", "backend", "record", "manifest"}]
      /\ cutShort' \subseteq Jobs
  BY <1>0, Functions DEF TypeInv, TypeOK, Backend, Lift, Dies, WriteRecords
<1>3. p = Child(j) => job[j] = "live"
  BY <1>0, <1>2, Functions DEF TypeInv
<1>4. p = Child(j) => main = "run"
  BY <1>0, <1>3 DEF TypeInv, TypeOK, StageInv, Early, Late, Settled
<1>5. ASSUME UNCHANGED <<job, lastEnd>>,
             NEW to \in LiftStates \ {"none"}, lift' = [lift EXCEPT ![p] = to],
             verdict' \in [Procs -> {"none", "clean", "fatal"}],
             summary' \in [Jobs -> {"unreadable", "clean", "fatal"}],
             records' \in [Jobs -> BOOLEAN]
      PROVE  TypeInv'
  <2>1. /\ lift' \in [Procs -> LiftStates]
        /\ \A q \in Procs : lift'[q] # "none" <=> lift[q] # "none"
    BY <1>2, <1>5, Functions DEF TypeInv
  <2>2. TypeOK'
    BY <1>0, <1>1, <1>5, <1>9, <2>1, JobStepTypes, Functions DEF TypeInv
  <2>3. StageInv'
    BY <1>1, <1>5 DEF TypeInv, StageInv, Settled
  <2>. QED
    BY <2>2, <2>3 DEF TypeInv
<1>6. CASE WriteSummary(p) /\ UNCHANGED <<job, lastEnd, records>>
  <2>1. \E to \in LiftStates \ {"none"} : lift' = [lift EXCEPT ![p] = to]
    BY <1>6 DEF WriteSummary, LiftStates
  <2>2. /\ verdict' \in [Procs -> {"none", "clean", "fatal"}]
        /\ summary' \in [Jobs -> {"unreadable", "clean", "fatal"}]
    BY <1>0, <1>6, Functions DEF WriteSummary, TypeInv
  <2>. QED
    BY <1>5, <1>6, <2>1, <2>2, Functions DEF TypeInv
<1>7. CASE WriteRecords(p) /\ UNCHANGED <<job, lastEnd, summary, verdict>>
  <2>1. \E to \in LiftStates \ {"none"} : lift' = [lift EXCEPT ![p] = to]
    BY <1>7 DEF WriteRecords, LiftStates
  <2>2. records' \in [Jobs -> BOOLEAN]
    BY <1>0, <1>7, Functions DEF WriteRecords, TypeInv
  <2>. QED
    BY <1>5, <1>7, <2>1, <2>2, Functions DEF TypeInv
<1>8. ASSUME NEW status \in {"ok", "failed"}, LiftEnds(p, status),
             UNCHANGED <<summary, records>>
      PROVE  TypeInv'
  <2>1. /\ lift' \in [Procs -> LiftStates] /\ lift'[p] = "none"
        /\ \A q \in Procs : q # p => lift'[q] = lift[q]
        /\ verdict' \in [Procs -> {"none", "clean", "fatal"}]
    BY <1>8, Functions DEF LiftEnds, TypeInv, LiftStates
  <2>2. CASE p = Child(j)
    <3>1. /\ job' = [job EXCEPT ![j] = status]
          /\ lastEnd' = [lastEnd EXCEPT ![j] = status]
      BY <1>8, <2>2 DEF LiftEnds
    <3>2. /\ job' \in [Jobs -> JobStates] /\ job'[j] = status
          /\ \A i \in Jobs : i # j => job'[i] = job[i]
          /\ lastEnd' \in [Jobs -> {"never", "running", "failed", "ok"}]
      BY <1>0, <3>1, Functions DEF TypeInv, JobStates
    <3>3. \A i \in Jobs : lift'[Child(i)] # "none" <=> job'[i] = "live"
      BY <1>0, <2>1, <2>2, <3>2, Functions DEF TypeInv
    <3>4. TypeOK'
      BY <1>1, <1>8, <2>1, <3>2, <3>3, <1>9, JobStepTypes, Functions DEF TypeInv
    <3>5. StageInv'
      BY <1>1, <1>4, <2>2, <3>2, JobStepStage
    <3>. QED
      BY <3>4, <3>5 DEF TypeInv
  <2>3. CASE p # Child(j)
    <3>1. UNCHANGED <<job, lastEnd>>
      BY <1>8, <2>3 DEF LiftEnds
    <3>2. \A i \in Jobs : lift'[Child(i)] = lift[Child(i)]
      BY <1>0, <2>1, <2>3
    <3>3. TypeOK'
      BY <1>1, <1>8, <2>1, <3>1, <3>2, <1>9, JobStepTypes, Functions DEF TypeInv
    <3>4. StageInv'
      BY <1>1, <3>1 DEF TypeInv, StageInv, Settled
    <3>. QED
      BY <3>3, <3>4 DEF TypeInv
  <2>. QED
    BY <2>2, <2>3
<1>. QED
  BY <1>6, <1>7, <1>8 DEF Backend, Lift, Dies, ExitStatus

LEMMA PauseTypes == ASSUME TypeInv, Pause \/ RecordPause PROVE TypeInv'
<1>1. CASE Pause
  BY <1>1 DEF Pause, TypeInv, TypeOK, StageInv, Early, Late, Settled, diskVars,
              liftVars
<1>2. CASE RecordPause
  <2>1. event /\ main \notin Early
    BY <1>2 DEF RecordPause, TypeInv, StageInv, TypeOK
  <2>. QED
    BY <1>2, <2>1 DEF RecordPause, TypeInv, TypeOK, StageInv, Early, Late,
                      Settled, liftVars
<1>. QED
  BY <1>1, <1>2

LEMMA InterruptTypes == ASSUME TypeInv, Kill \/ Reboot PROVE TypeInv'
<1>. USE ProcFacts DEF TypeInv
<1>1. Interrupted
  BY DEF Kill, Reboot
<1>2. /\ lift' \in [Procs -> {"none", "lifting", "summary", "summarised",
                             "records", "returns"}]
      /\ verdict' \in [Procs -> {"none", "clean", "fatal"}]
      /\ \A j \in Jobs : lift'[Child(j)] = "none"
      /\ cutShort' \subseteq Jobs
  <2>1. CASE Kill
    BY <2>1 DEF Kill, Outlived, TypeOK
  <2>2. CASE Reboot
    <3>1. cutShort \subseteq Jobs /\ BetweenFiles \subseteq Procs
      BY DEF TypeOK, BetweenFiles
    <3>. QED
      BY <2>2, <3>1 DEF Reboot
  <2>. QED
    BY <2>1, <2>2
<1>3. /\ lastEnd' \in [Jobs -> {"never", "running", "failed", "ok"}]
      /\ recorded' \in [Jobs -> {"none", "some", "measured"}]
      /\ UNCHANGED diskVars /\ Down
  BY <1>1 DEF Interrupted, NoRuns, TypeOK
<1>. QED
  BY <1>2, <1>3, DownTypes DEF TypeOK, diskVars

LEMMA TypeStep == TypeInv /\ [Next]_vars => TypeInv'
<1>1. SUFFICES ASSUME TypeInv, [Next]_vars
               PROVE  TypeInv'
  OBVIOUS
<1>2. ASSUME NEW scope \in Scopes, NEW resume \in BOOLEAN, NEW skip \in BOOLEAN,
             Invoke(scope, resume, skip)
      PROVE  TypeInv'
  <2>1. args' \in [scope : SUBSET Jobs, resume : BOOLEAN, skip : BOOLEAN]
    BY <1>2, SessionAssumption DEF Invoke
  <2>. QED
    BY <1>1, <1>2, <2>1 DEF Invoke, TypeInv, TypeOK, StageInv, Early, Late,
                            diskVars, liftVars
<1>3. CASE UNCHANGED vars
  <2>1. TypeOK'
    BY <1>1, <1>3 DEF vars, diskVars, mainVars, liftVars, TypeInv, TypeOK
  <2>2. StageInv'
    BY <1>1, <1>3 DEF vars, diskVars, mainVars, TypeInv, StageInv, Settled
  <2>. QED
    BY <2>1, <2>2 DEF TypeInv
<1>. QED
  BY <1>1, <1>2, <1>3, SessionAssumption, MainTypes, JobTypes, BackendTypes,
     LosesTypes, PauseTypes, InterruptTypes DEF Next

THEOREM SessionTypes == Spec => []TypeInv
BY TypeInit, TypeStep, PTL DEF Spec

(* Every variable of the sessions, on the disk and in memory, keeps its    *)
(* type, and a job has a backend of this invocation exactly while          *)
(* run_subprocess_with_rusage waits for it (lines 184-200).                *)
THEOREM SessionTypeCorrect == Spec => []TypeOK
BY SessionTypes, PTL DEF TypeInv

-----------------------------------------------------------------------------
(* A pause outlives its process.                                           *)
LEMMA PauseStep ==
    ASSUME TypeInv, [Next]_vars, stateFile = "paused", ~ event
    PROVE  /\ stateFile' = "paused" \/ args.resume
           /\ \A j \in Jobs : job'[j] = "live" => job[j] = "live"
<1>1. main \in {"down", "load", "open state"} /\ writer = "idle"
  BY DEF TypeInv, TypeOK, StageInv, Early, Late
<1>2. \A j \in Jobs : job[j] = "out"
  BY <1>1 DEF TypeInv, StageInv, Early
<1>3. \A p \in Procs : Backend(p) =>
          /\ stateFile' = stateFile
          /\ \A j \in Jobs : job'[j] = "live" => job[j] = "live"
  <2>. SUFFICES ASSUME NEW p \in Procs, Backend(p)
                PROVE  /\ stateFile' = stateFile
                       /\ \A j \in Jobs : job'[j] = "live" => job[j] = "live"
    OBVIOUS
  <2>1. \/ job' = job
        \/ \E s \in {"ok", "failed"} : job' = [job EXCEPT ![p[1]] = s]
    BY DEF Backend, Lift, Dies, LiftEnds, ExitStatus
  <2>. QED
    BY <2>1, Functions DEF Backend, TypeInv
<1>4. CASE Main
  <2>1. CASE Load \/ WriteState
    BY <1>1, <1>2, <2>1 DEF Load, WriteState, Down, diskVars, TypeInv, StageInv
  <2>. QED
    BY <1>1, <1>4, <2>1 DEF Main, Scan, Merge, Unwind, WriteManifest, Exit
<1>5. CASE Kill \/ Reboot
  BY <1>5 DEF Kill, Reboot, Interrupted, Down, diskVars
<1>6. CASE \/ \E scope \in Scopes, resume, skip \in BOOLEAN :
                 Invoke(scope, resume, skip)
           \/ Pause \/ RecordPause \/ UNCHANGED vars
  BY <1>1, <1>6 DEF Invoke, Pause, RecordPause, vars, diskVars, mainVars
<1>7. CASE \E j \in Jobs : \/ PassCheck(j) \/ Launch(j) \/ NotLaunched(j)
                           \/ LosesChild(j)
  <2>1. \A j \in Jobs : job[j] \notin {"todo", "cleared", "live"}
    BY <1>2
  <2>. QED
    BY <1>7, <2>1, Functions DEF PassCheck, Launch, NotLaunched, LosesChild, JobGoes,
                                 TypeInv
<1>. QED
  BY <1>3, <1>4, <1>5, <1>6, <1>7 DEF Next

(* Once pause_state.json holds a pause no crash, reboot or plain rerun     *)
(* starts a backend or loses it (lines 353-369): only --resume ends it.    *)
THEOREM PauseSurvives == Spec => PauseOutlivesProcess
<1>1. TypeInv /\ [Next]_vars =>
          [stateFile = "paused" /\ ~ event =>
              /\ stateFile' = "paused" \/ args.resume
              /\ \A j \in Jobs : job'[j] = "live" => job[j] = "live"]_vars
  BY PauseStep
<1>. QED
  BY <1>1, SessionTypes, PTL DEF Spec, PauseOutlivesProcess

-----------------------------------------------------------------------------
(* The manifest.                                                           *)

(* An attempt is made before anything on the disk or in memory says so.    *)
Attempted(runs) ==
    \A j \in Jobs : runs[j] \notin {"none", "not_started"} => lastEnd[j] # "never"

AttemptInv ==
    /\ \A p \in Procs : lift[p] # "none" => lastEnd[p[1]] # "never"
    /\ \A j \in Jobs : summary[j] # "unreadable" => lastEnd[j] # "never"
    /\ \A j \in Jobs : job[j] \in {"live", "skipped", "failed", "ok"} =>
                           lastEnd[j] # "never"
    /\ Attempted(manifest.runs) /\ Attempted(merged.runs)

CompleteInv ==
    \A m \in {manifest, merged} :
        m.complete => \A j \in Jobs : m.runs[j] # "not_started"

Covers(runs) == \A j \in Jobs : recorded[j] # "none" => runs[j] # "none"

ManifestInv ==
    /\ main # "dump" => Covers(manifest.runs)
    /\ main \in {"open", "dump"} => Covers(merged.runs)
    /\ main = "dump" => ~ manifest.whole

RecordInv == AttemptInv /\ CompleteInv /\ ManifestInv

LEMMA RecordInit == Init => RecordInv
BY DEF Init, RecordInv, AttemptInv, CompleteInv, ManifestInv, Attempted, Covers,
       Unreadable, NoRuns

(* Steps that leave the manifest, its copy in memory and the history of    *)
(* both alone.                                                             *)
LEMMA ManifestAlone ==
    ASSUME RecordInv, UNCHANGED <<manifest, merged, recorded>>,
           main' = main \/ {main, main'} \cap {"open", "dump"} = {},
           \A j \in Jobs : lastEnd[j] # "never" => lastEnd'[j] # "never"
    PROVE  CompleteInv' /\ ManifestInv' /\ Attempted(manifest.runs)'
           /\ Attempted(merged.runs)'
BY DEF RecordInv, AttemptInv, CompleteInv, ManifestInv, Attempted, Covers

LEMMA RecordJob ==
    ASSUME TypeInv, RecordInv, NEW j \in Jobs,
           PassCheck(j) \/ Launch(j) \/ NotLaunched(j)
    PROVE  RecordInv'
<1>1. /\ UNCHANGED <<main, manifest, merged, recorded, summary>>
      /\ \/ /\ UNCHANGED <<lift, lastEnd>>
            /\ \E to \in {"not_started", "cleared", "raised"} : job' = [job EXCEPT ![j] = to]
         \/ /\ lift' = [lift EXCEPT ![Child(j)] = "lifting"]
            /\ lastEnd' = [lastEnd EXCEPT ![j] = "running"]
            /\ job' = [job EXCEPT ![j] = "live"]
  BY DEF PassCheck, Launch, NotLaunched, JobGoes, liftVars, diskVars
<1>2. \A i \in Jobs : lastEnd[i] # "never" => lastEnd'[i] # "never"
  BY <1>1, Functions DEF TypeInv
<1>3. \A i \in Jobs : job'[i] \in {"live", "skipped", "failed", "ok"} =>
                          lastEnd'[i] # "never"
  BY <1>1, <1>2, Functions DEF TypeInv, RecordInv, AttemptInv
<1>4. \A p \in Procs : lift'[p] # "none" => lastEnd'[p[1]] # "never"
  <2>1. Child(j)[1] = j /\ \A p \in Procs : p[1] \in Jobs
    BY ProcFacts
  <2>. QED
    BY <1>1, <1>2, <2>1, Functions DEF TypeInv, RecordInv, AttemptInv
<1>. QED
  BY <1>1, <1>2, <1>3, <1>4, ManifestAlone DEF RecordInv, AttemptInv

LEMMA RecordLoses ==
    ASSUME TypeInv, RecordInv, NEW j \in Jobs, LosesChild(j)
    PROVE  RecordInv'
<1>1. /\ UNCHANGED <<main, manifest, merged, recorded, summary>>
      /\ lift[Child(j)] # "none"
      /\ lift' = [lift EXCEPT ![Orphan(j)] = lift[Child(j)], ![Child(j)] = "none"]
      /\ lastEnd' = [lastEnd EXCEPT ![j] = "failed"]
      /\ job' = [job EXCEPT ![j] = "failed"]
  BY DEF LosesChild, diskVars
<1>2. \A i \in Jobs : /\ lastEnd[i] # "never" => lastEnd'[i] # "never"
                      /\ job'[i] \in {"live", "skipped", "failed", "ok"} =>
                             lastEnd'[i] # "never"
  BY <1>1, Functions DEF TypeInv, RecordInv, AttemptInv
<1>3. lastEnd'[j] # "never"
  BY <1>1, Functions DEF TypeInv
<1>4. \A p \in Procs : p[1] \in Jobs /\ (lift'[p] # "none" => lift[p] # "none" \/ p[1] = j)
  BY <1>1, ProcFacts, Functions DEF TypeInv
<1>5. \A p \in Procs : lift'[p] # "none" => lastEnd'[p[1]] # "never"
  BY <1>2, <1>3, <1>4 DEF RecordInv, AttemptInv
<1>. QED
  BY <1>1, <1>2, <1>5, ManifestAlone DEF RecordInv, AttemptInv

LEMMA RecordBackend ==
    ASSUME TypeInv, RecordInv, NEW p \in Procs, Backend(p)
    PROVE  RecordInv'
<1>. DEFINE j == p[1]
<1>0. \A q \in Procs : q[1] \in Jobs
  BY ProcFacts
<1>1. lift[p] # "none"
  BY DEF Backend, Lift, Dies, WriteSummary, WriteRecords
<1>2. lastEnd[j] # "never"
  BY <1>1 DEF RecordInv, AttemptInv
<1>3. /\ UNCHANGED <<main, manifest, merged, recorded>>
      /\ \E to \in LiftStates : lift' = [lift EXCEPT ![p] = to]
      /\ \/ summary' = summary
         \/ \E v \in {"unreadable", "clean", "fatal"} :
                summary' = [summary EXCEPT ![j] = v]
      /\ \/ UNCHANGED <<job, lastEnd>>
         \/ \E s \in {"ok", "failed"} : /\ job' = [job EXCEPT ![j] = s]
                                        /\ lastEnd' = [lastEnd EXCEPT ![j] = s]
  BY DEF Backend, Lift, Dies, WriteSummary, WriteRecords, LiftEnds, ExitStatus,
         LiftStates
<1>4. \A i \in Jobs : lastEnd[i] # "never" => lastEnd'[i] # "never"
  BY <1>0, <1>3, Functions DEF TypeInv
<1>5. \A q \in Procs : lift'[q] # "none" => lastEnd'[q[1]] # "never"
  BY <1>0, <1>1, <1>3, <1>4, Functions DEF TypeInv, RecordInv, AttemptInv
<1>6. \A i \in Jobs : /\ summary'[i] # "unreadable" => lastEnd'[i] # "never"
                      /\ job'[i] \in {"live", "skipped", "failed", "ok"} =>
                             lastEnd'[i] # "never"
  BY <1>0, <1>2, <1>3, <1>4, Functions DEF TypeInv, RecordInv, AttemptInv
<1>. QED
  BY <1>3, <1>4, <1>5, <1>6, ManifestAlone DEF RecordInv, AttemptInv

LEMMA RecordInterrupt ==
    ASSUME TypeInv, RecordInv, Kill \/ Reboot
    PROVE  RecordInv'
<1>1. Interrupted
  BY DEF Kill, Reboot
<1>2. /\ UNCHANGED <<summary, manifest>> /\ main' = "down"
      /\ merged' = Unreadable /\ job' = [j \in Jobs |-> "out"]
      /\ recorded' = IF main = "dump" THEN NoRuns ELSE recorded
  BY <1>1 DEF Interrupted, Down, diskVars
<1>3. \A j \in Jobs : lastEnd[j] # "never" => lastEnd'[j] # "never"
  BY <1>1 DEF Interrupted
<1>4. \A p \in Procs : lift'[p] # "none" => lastEnd'[p[1]] # "never"
  <2>1. \A p \in Procs : /\ p[1] \in Jobs /\ Child(p[1]) \in Procs
                         /\ Child(p[1])[1] = p[1]
    BY ProcFacts
  <2>2. \A p \in Procs : lift'[p] # "none" =>
                             lift[p] # "none" \/ lift[Child(p[1])] # "none"
    BY DEF Kill, Reboot, Outlived
  <2>3. \A p \in Procs : lift[p] # "none" \/ lift[Child(p[1])] # "none" =>
                             lastEnd[p[1]] # "never"
    BY <2>1 DEF RecordInv, AttemptInv
  <2>. QED
    BY <1>3, <2>1, <2>2, <2>3
<1>5. Attempted(manifest.runs)' /\ Attempted(merged.runs)'
  BY <1>2, <1>3 DEF RecordInv, AttemptInv, Attempted, Unreadable, NoRuns
<1>6. CompleteInv'
  BY <1>2 DEF RecordInv, CompleteInv, Unreadable, NoRuns
<1>7. ManifestInv'
  BY <1>2 DEF RecordInv, ManifestInv, Covers, NoRuns
<1>. QED
  BY <1>2, <1>3, <1>4, <1>5, <1>6, <1>7 DEF RecordInv, AttemptInv

LEMMA RecordMain == ASSUME TypeInv, RecordInv, Main PROVE RecordInv'
<1>1. UNCHANGED <<lift, lastEnd, summary>>
  BY DEF Main, Load, WriteState, Scan, Merge, Unwind, WriteManifest, Exit,
         liftVars, diskVars
<1>2. CASE Load \/ WriteState \/ Scan
  <2>1. /\ UNCHANGED <<manifest, recorded>>
        /\ merged' = merged \/ merged' = Unreadable
        /\ {main, main'} \cap {"open", "dump"} = {}
        /\ \A j \in Jobs : job'[j] = "skipped" => job[j] = "skipped" \/ Done(j)
        /\ \A j \in Jobs : job'[j] \in {"live", "failed", "ok"} => job'[j] = job[j]
    BY <1>2 DEF Load, WriteState, Scan, Down, diskVars
  <2>2. CompleteInv' /\ ManifestInv'
    <3>1. Unreadable.complete = FALSE
      BY DEF Unreadable
    <3>2. CompleteInv'
      BY <2>1, <3>1 DEF RecordInv, CompleteInv
    <3>3. main \notin {"open", "dump"} /\ main' \notin {"open", "dump"}
      BY <2>1
    <3>4. ManifestInv'
      BY <2>1, <3>3 DEF RecordInv, ManifestInv, Covers
    <3>. QED
      BY <3>2, <3>4
  <2>3. Attempted(manifest.runs)' /\ Attempted(merged.runs)'
    BY <1>1, <2>1 DEF RecordInv, AttemptInv, Attempted, Unreadable, NoRuns
  <2>4. \A j \in Jobs : job'[j] \in {"live", "skipped", "failed", "ok"} =>
                            lastEnd'[j] # "never"
    BY <1>1, <2>1 DEF RecordInv, AttemptInv, Done
  <2>. QED
    BY <1>1, <2>2, <2>3, <2>4 DEF RecordInv, AttemptInv
<1>3. CASE Merge
  <2>1. /\ UNCHANGED <<job, manifest, recorded>>
        /\ main = "run" /\ main' = "open"
        /\ merged'.runs = MergedRuns /\ merged'.complete = Complete(MergedRuns)
    BY <1>3 DEF Merge, diskVars
  <2>2. \A j \in args.scope \cap Jobs : job[j] \in {"skipped", "not_started", "failed", "ok"}
    BY <1>3 DEF Merge, Settled, TypeInv, StageInv, Late
  <2>3. \A j \in Jobs : MergedRuns[j] = IF j \in args.scope THEN job[j]
                                        ELSE manifest.runs[j]
    BY DEF MergedRuns
  <2>4. Attempted(MergedRuns) /\ Covers(MergedRuns)
    BY <2>1, <2>2, <2>3
    DEF RecordInv, AttemptInv, ManifestInv, Attempted, Covers
  <2>5. CompleteInv'
    BY <2>1, <2>3 DEF RecordInv, CompleteInv, Complete
  <2>. QED
    BY <1>1, <2>1, <2>4, <2>5
    DEF RecordInv, AttemptInv, ManifestInv, Attempted, Covers
<1>4. CASE WriteManifest
  <2>1. CASE main = "open"
    BY <1>1, <1>4, <2>1
    DEF WriteManifest, RecordInv, AttemptInv, CompleteInv, ManifestInv,
        Attempted, Covers, Unreadable, NoRuns
  <2>2. CASE main = "dump"
    <3>1. /\ UNCHANGED <<job, merged>> /\ manifest' = merged /\ main' = "exit"
          /\ recorded' = [j \in Jobs |-> BestRecord(merged.runs[j], recorded[j])]
      BY <1>4, <2>2 DEF WriteManifest
    <3>2. \A j \in Jobs : recorded'[j] # "none" => merged.runs[j] # "none"
      BY <2>2, <3>1 DEF BestRecord, RecordInv, ManifestInv, Covers
    <3>. QED
      BY <1>1, <3>1, <3>2
      DEF RecordInv, AttemptInv, CompleteInv, ManifestInv, Attempted, Covers
  <2>. QED
    BY <1>4, <2>1, <2>2 DEF WriteManifest
<1>5. CASE Unwind \/ Exit
  <2>1. /\ UNCHANGED <<manifest, recorded>> /\ main \in {"run", "exit"}
        /\ main' = "down"
        /\ merged' = Unreadable /\ job' = [j \in Jobs |-> "out"]
    BY <1>5 DEF Unwind, Exit, Down, diskVars
  <2>. QED
    BY <1>1, <2>1
    DEF RecordInv, AttemptInv, CompleteInv, ManifestInv, Attempted, Covers,
        Unreadable, NoRuns
<1>. QED
  BY <1>2, <1>3, <1>4, <1>5 DEF Main

LEMMA RecordStep == TypeInv /\ RecordInv /\ [Next]_vars => RecordInv'
<1>1. SUFFICES ASSUME TypeInv, RecordInv, [Next]_vars
               PROVE  RecordInv'
  OBVIOUS
<1>2. CASE \/ \E scope \in Scopes, resume, skip \in BOOLEAN :
                 Invoke(scope, resume, skip)
           \/ Pause \/ RecordPause \/ UNCHANGED vars
  <2>1. /\ UNCHANGED <<manifest, merged, recorded, job, lift, lastEnd, summary>>
        /\ main' = main \/ {main, main'} \cap {"open", "dump"} = {}
    BY <1>2 DEF Invoke, Pause, RecordPause, vars, diskVars, mainVars, liftVars
  <2>. QED
    BY <1>1, <2>1, ManifestAlone DEF RecordInv, AttemptInv
<1>. QED
  BY <1>1, <1>2, RecordMain, RecordJob, RecordLoses, RecordBackend, RecordInterrupt
  DEF Next

THEOREM SessionRecords == Spec => []RecordInv
BY RecordInit, RecordStep, SessionTypes, PTL DEF Spec

(* The merge at lines 491-504 keeps a record of every job that ever had    *)
(* one, over any number of invocations and whatever their scopes.          *)
THEOREM ManifestKeepsAll == Spec => []NothingForgotten
<1>1. RecordInv => NothingForgotten
  BY DEF RecordInv, ManifestInv, Covers, NothingForgotten
<1>. QED
  BY <1>1, SessionRecords, PTL

(* A manifest that says "complete" (line 510) has no job on record that    *)
(* nobody ever tried.                                                      *)
THEOREM CompleteIsTrue == Spec => []CompleteMeansAllRan
<1>1. RecordInv => CompleteMeansAllRan
  BY DEF RecordInv, AttemptInv, CompleteInv, Attempted, CompleteMeansAllRan
<1>. QED
  BY <1>1, SessionRecords, PTL

-----------------------------------------------------------------------------
(* The manifest and the disk.                                              *)

(* The property speaks of the moments after a manifest was written.  Until *)
(* then what is in a job's directory is told by the place of the backend   *)
(* that writes there, if it is alone; then by the job's record; then, from *)
(* the merge on, by main()'s copy of the manifest; and at last by the file.*)
(* Whoever else writes there, and a process that ends before it has handed *)
(* on what it knows, leaves nobody who can tell.                           *)
Matches(run, j) ==
    /\ run = "ok" => summary[j] = "clean" /\ records[j]
    /\ run = "skipped" => summary[j] = "clean"

Wrote(p) ==
    /\ lift[p] \in {"summarised", "records", "returns"} => summary[p[1]] = verdict[p]
    /\ lift[p] = "returns" => records[p[1]]

Tells(j) ==
    /\ told[j] = "backend" => lift[Child(j)] # "none" /\ Wrote(Child(j))
    /\ told[j] \in {"record", "manifest"} =>
           /\ Matches(job[j], j)
           /\ main \in {"open", "dump"} => Matches(merged.runs[j], j)
    /\ told[j] = "manifest" => Matches(manifest.runs[j], j)
    /\ told[j] = "record" => main \in Late /\ j \in args.scope

ScopeInv == main \in Late => \A j \in Jobs : j \notin args.scope => job[j] = "out"

DiskInv == ScopeInv /\ \A j \in Jobs : Tells(j)

LEMMA DiskInit == Init => DiskInv
<1>1. SUFFICES ASSUME Init
               PROVE  DiskInv
  OBVIOUS
<1>2. \A j \in Jobs : told[j] = "nobody"
  BY <1>1 DEF Init
<1>. QED
  BY <1>1, <1>2 DEF Init, DiskInv, ScopeInv, Tells, Late

(* A job whose directory, backend and place nothing changes, while main()  *)
(* stays where it is.                                                      *)
LEMMA TellsStill ==
    ASSUME NEW j \in Jobs, Tells(j),
           UNCHANGED <<main, args, manifest, merged>>,
           UNCHANGED <<summary[j], records[j], told[j], job[j]>>,
           UNCHANGED <<lift[Child(j)], verdict[Child(j)]>>
    PROVE  Tells(j)'
<1>1. Child(j)[1] = j
  BY ProcFacts
<1>. QED
  BY <1>1 DEF Tells, Matches, Wrote

LEMMA DiskJob ==
    ASSUME TypeInv, DiskInv, NEW j \in Jobs,
           PassCheck(j) \/ Launch(j) \/ NotLaunched(j)
    PROVE  DiskInv'
<1>1. /\ UNCHANGED <<main, args, manifest, merged, summary, records, verdict>>
      /\ job[j] \in {"todo", "cleared"}
      /\ \E to \in {"not_started", "cleared", "live", "raised"} :
            job' = [job EXCEPT ![j] = to]
      /\ \/ UNCHANGED <<lift, told>>
         \/ /\ lift' = [lift EXCEPT ![Child(j)] = "lifting"]
            /\ \E by \in {"backend", "nobody"} : told' = [told EXCEPT ![j] = by]
  BY DEF PassCheck, Launch, NotLaunched, JobGoes, liftVars, diskVars
<1>2. main = "run"
  BY <1>1 DEF TypeInv, TypeOK, StageInv, Early, Late, Settled
<1>3. /\ job'[j] \in {"not_started", "cleared", "live", "raised"}
      /\ \A i \in Jobs : i # j => job'[i] = job[i]
      /\ \/ UNCHANGED <<lift, told>>
         \/ told'[j] = "nobody"
         \/ told'[j] = "backend" /\ lift'[Child(j)] = "lifting"
  BY <1>1, ProcFacts, Functions DEF TypeInv
<1>4. \A i \in Jobs : i # j =>
          /\ UNCHANGED <<told[i], lift[Child(i)], verdict[Child(i)]>>
          /\ UNCHANGED <<summary[i], records[i], job[i]>>
  BY <1>1, <1>3, ProcFacts, Functions DEF TypeInv
<1>5. \A i \in Jobs : i # j => Tells(i)'
  BY <1>1, <1>4, TellsStill DEF DiskInv
<1>6. Tells(j)'
  <2>0. Tells(j)
    BY DEF DiskInv
  <2>1. CASE UNCHANGED <<lift, told>>
    BY <1>1, <1>2, <1>3, <2>0, <2>1 DEF Tells, Matches, Wrote
  <2>2. CASE told'[j] = "nobody"
    BY <2>2 DEF Tells
  <2>3. CASE told'[j] = "backend" /\ lift'[Child(j)] = "lifting"
    BY <2>3 DEF Tells, Wrote
  <2>. QED
    BY <1>3, <2>1, <2>2, <2>3
<1>7. ScopeInv'
  <2>1. j \in args.scope
    BY <1>1, <1>2 DEF DiskInv, ScopeInv, Late
  <2>. QED
    BY <1>1, <1>3, <2>1 DEF DiskInv, ScopeInv
<1>. QED
  BY <1>5, <1>6, <1>7 DEF DiskInv

LEMMA DiskLoses ==
    ASSUME TypeInv, DiskInv, NEW j \in Jobs, LosesChild(j)
    PROVE  DiskInv'
<1>1. /\ UNCHANGED <<main, args, manifest, merged, summary, records>>
      /\ job[j] = "live" /\ lift[Child(j)] # "none"
      /\ job' = [job EXCEPT ![j] = "failed"]
      /\ told' = [told EXCEPT ![j] = "nobody"]
  BY Functions DEF TypeInv, LosesChild, diskVars
<1>2. \A i \in Jobs : i # j =>
          /\ UNCHANGED <<told[i], lift[Child(i)], verdict[Child(i)]>>
          /\ UNCHANGED <<summary[i], records[i], job[i]>>
  <2>1. \A i \in Jobs : i # j => /\ Child(i) \in Procs
                                 /\ Child(i) # Child(j) /\ Child(i) # Orphan(j)
    BY ProcFacts DEF Child, Orphan
  <2>2. /\ lift' = [lift EXCEPT ![Orphan(j)] = lift[Child(j)], ![Child(j)] = "none"]
        /\ verdict' = [verdict EXCEPT ![Orphan(j)] = verdict[Child(j)],
                                      ![Child(j)] = "none"]
    BY DEF LosesChild
  <2>. QED
    BY <1>1, <2>1, <2>2, Functions DEF TypeInv
<1>3. \A i \in Jobs : i # j => Tells(i)'
  BY <1>1, <1>2, TellsStill DEF DiskInv
<1>4. told'[j] = "nobody"
  BY <1>1, Functions DEF TypeInv
<1>5. Tells(j)'
  BY <1>4 DEF Tells
<1>6. ScopeInv'
  BY <1>1, Functions DEF TypeInv, DiskInv, ScopeInv
<1>. QED
  BY <1>3, <1>5, <1>6 DEF DiskInv

LEMMA DiskBackend ==
    ASSUME TypeInv, DiskInv, NEW p \in Procs, Backend(p)
    PROVE  DiskInv'
<1>1. PICK j \in Jobs : p[1] = j /\ lift[p] # "none"
  <2>1. lift[p] # "none"
    BY DEF Backend, Lift, Dies, WriteSummary, WriteRecords
  <2>. QED
    BY <2>1, ProcFacts
<1>2. UNCHANGED <<main, args, manifest, merged>>
  BY DEF Backend
<1>3. \A i \in Jobs : i # j =>
          /\ UNCHANGED <<told[i], lift[Child(i)], verdict[Child(i)]>>
          /\ UNCHANGED <<summary[i], records[i], job[i]>>
  <2>1. \A i \in Jobs : i # j => Child(i) \in Procs /\ Child(i) # p
    BY <1>1, ProcFacts
  <2>. QED
    BY <1>1, <2>1, Functions
    DEF TypeInv, Backend, Lift, Dies, WriteSummary, WriteRecords, LiftEnds
<1>4. \A i \in Jobs : i # j => Tells(i)'
  BY <1>2, <1>3, TellsStill DEF DiskInv
<1>5. job'[j] = job[j] \/ (p = Child(j) /\ job[j] = "live")
  BY <1>1, Functions
  DEF TypeInv, Backend, Lift, Dies, WriteSummary, WriteRecords, LiftEnds
<1>6. job[j] = "live" => main = "run" /\ job[j] # "out" /\ j \in args.scope
  BY DEF TypeInv, TypeOK, StageInv, Early, Late, Settled, DiskInv, ScopeInv
<1>7. ScopeInv'
  BY <1>2, <1>3, <1>5, <1>6 DEF DiskInv, ScopeInv
<1>8. told'[j] = IF p = Child(j) /\ told[j] = "backend"
                 THEN IF lift'[p] = "none" THEN "record" ELSE "backend"
                 ELSE "nobody"
  BY <1>1, Functions DEF TypeInv, Backend
<1>9. Tells(j)'
  <2>1. CASE ~ (p = Child(j) /\ told[j] = "backend")
    <3>1. told'[j] = "nobody"
      BY <1>8, <2>1
    <3>. QED
      BY <3>1 DEF Tells
  <2>2. CASE p = Child(j) /\ told[j] = "backend"
    <3>1. /\ job[j] = "live" /\ main = "run" /\ j \in args.scope
          /\ Wrote(p) /\ p[1] = j
      BY <1>1, <1>6, <2>2, Functions DEF TypeInv, DiskInv, Tells
    <3>2. CASE lift'[p] # "none" /\ Wrote(p)'
      <4>1. told'[j] = "backend"
        BY <1>8, <2>2, <3>2
      <4>. QED
        BY <2>2, <3>2, <4>1 DEF Tells
    <3>3. CASE lift'[p] = "none" /\ Matches(job[j], j)'
      <4>1. told'[j] = "record" /\ main' = "run" /\ args' = args
        BY <1>2, <1>8, <2>2, <3>1, <3>3
      <4>. QED
        BY <3>1, <3>3, <4>1 DEF Tells, Late
    <3>4. CASE WriteSummary(p) /\ UNCHANGED <<job, records>>
      <4>1. \/ lift' = [lift EXCEPT ![p] = "summary"]
            \/ \E v \in {"clean", "fatal"} :
                  /\ lift' = [lift EXCEPT ![p] = "summarised"]
                  /\ verdict' = [verdict EXCEPT ![p] = v]
                  /\ summary' = [summary EXCEPT ![j] = v]
        BY <3>1, <3>4 DEF WriteSummary
      <4>2. \/ lift'[p] = "summary"
            \/ lift'[p] = "summarised" /\ summary'[j] = verdict'[p]
        BY <4>1, Functions DEF TypeInv
      <4>. QED
        BY <3>1, <3>2, <4>2 DEF Wrote
    <3>5. CASE WriteRecords(p) /\ UNCHANGED <<job, summary, verdict>>
      <4>1. /\ lift[p] \in {"summarised", "records"}
            /\ \/ lift' = [lift EXCEPT ![p] = "records"]
               \/ /\ lift' = [lift EXCEPT ![p] = "returns"]
                  /\ records' = [records EXCEPT ![j] = TRUE]
        BY <3>1, <3>5 DEF WriteRecords
      <4>2. lift'[p] = "records" \/ (lift'[p] = "returns" /\ records'[j])
        BY <4>1, Functions DEF TypeInv
      <4>. QED
        BY <3>1, <3>2, <3>5, <4>1, <4>2 DEF Wrote
    <3>6. CASE lift[p] = "returns" /\ LiftEnds(p, ExitStatus(p))
               /\ UNCHANGED <<summary, records>>
      <4>1. /\ lift'[p] = "none"
            /\ job'[j] = IF verdict[p] = "clean" THEN "ok" ELSE "failed"
        BY <2>2, <3>1, <3>6, Functions DEF TypeInv, LiftEnds, ExitStatus
      <4>2. Matches(job[j], j)'
        BY <3>1, <3>6, <4>1 DEF Wrote, Matches
      <4>. QED
        BY <3>3, <4>1, <4>2
    <3>7. CASE LiftEnds(p, "failed") /\ UNCHANGED <<summary, records>>
      <4>1. lift'[p] = "none" /\ job'[j] = "failed"
        BY <2>2, <3>1, <3>7, Functions DEF TypeInv, LiftEnds
      <4>2. Matches(job[j], j)'
        BY <4>1 DEF Matches
      <4>. QED
        BY <3>3, <4>1, <4>2
    <3>. QED
      BY <3>4, <3>5, <3>6, <3>7 DEF Backend, Lift, Dies
  <2>. QED
    BY <2>1, <2>2
<1>. QED
  BY <1>4, <1>7, <1>9 DEF DiskInv

(* A process that ends: only the file goes on telling.                     *)
LEMMA DiskDown ==
    ASSUME DiskInv, Down, UNCHANGED <<manifest, summary, records>>
    PROVE  DiskInv'
<1>1. /\ main' = "down"
      /\ \A j \in Jobs : /\ job'[j] = "out"
                         /\ told'[j] \in {"nobody", "manifest"}
                         /\ told'[j] = "manifest" => told[j] = "manifest"
  BY DEF Down
<1>2. \A j \in Jobs : Tells(j)'
  BY <1>1 DEF DiskInv, Tells, Matches
<1>. QED
  BY <1>1, <1>2 DEF DiskInv, ScopeInv, Late

LEMMA DiskMain == ASSUME TypeInv, DiskInv, Main PROVE DiskInv'
<1>1. /\ UNCHANGED <<lift, verdict, summary, records>>
      /\ \A j \in Jobs : Wrote(Child(j))' <=> Wrote(Child(j))
  BY DEF Main, Load, WriteState, Scan, Merge, Unwind, WriteManifest, Exit, liftVars,
         diskVars, Wrote
<1>2. CASE Down
  <2>1. UNCHANGED manifest
    BY <1>2 DEF Main, Load, WriteState, Scan, Merge, Unwind, WriteManifest, Exit,
                diskVars, Down
  <2>. QED
    BY <1>1, <1>2, <2>1, DiskDown
<1>3. CASE (Load \/ WriteState) /\ ~ Down
  <2>1. /\ UNCHANGED <<manifest, job, told>>
        /\ main \in Early /\ main' \in Early
    BY <1>3 DEF Load, WriteState, diskVars, Early
  <2>. QED
    BY <1>1, <2>1 DEF DiskInv, ScopeInv, Tells, Matches, Early, Late
<1>4. CASE Scan
  <2>1. /\ UNCHANGED <<manifest, args>> /\ main = "scan" /\ main' = "run"
        /\ \A j \in Jobs :
              /\ job'[j] = "out" <=> j \notin args.scope
              /\ job'[j] = "skipped" => Done(j)
              /\ job'[j] # "ok"
              /\ told'[j] = IF job'[j] = "skipped" /\ told[j] = "nobody"
                            THEN "record" ELSE told[j]
    BY <1>4 DEF Scan, diskVars, TypeInv
  <2>2. ScopeInv'
    BY <2>1 DEF ScopeInv
  <2>3. ASSUME NEW j \in Jobs
        PROVE  Tells(j)'
    <3>1. Matches(job[j], j)'
      BY <1>1, <2>1 DEF Matches, Done
    <3>2. Tells(j)
      BY DEF DiskInv
    <3>3. told'[j] = told[j] \/ (told'[j] = "record" /\ j \in args.scope)
      BY <2>1
    <3>. QED
      BY <1>1, <2>1, <3>1, <3>2, <3>3 DEF Tells, Matches, Late
  <2>. QED
    BY <2>2, <2>3 DEF DiskInv
<1>5. CASE Merge
  <2>1. /\ UNCHANGED <<manifest, args, job, told>> /\ main = "run" /\ main' = "open"
        /\ \A j \in Jobs : merged'.runs[j] = IF j \in args.scope THEN job[j]
                                             ELSE manifest.runs[j]
    BY <1>5 DEF Merge, MergedRuns, diskVars
  <2>2. \A j \in Jobs : Tells(j)'
    BY <1>1, <2>1 DEF DiskInv, Tells, Matches, Late
  <2>. QED
    BY <2>1, <2>2 DEF DiskInv, ScopeInv, Late
<1>6. CASE WriteManifest
  <2>1. UNCHANGED <<job, merged, args>>
    BY <1>6 DEF WriteManifest
  <2>2. CASE main = "open"
    <3>1. /\ UNCHANGED told /\ main' = "dump"
          /\ \A j \in Jobs : manifest'.runs[j] = "none"
      BY <1>6, <2>2 DEF WriteManifest, Unreadable, NoRuns
    <3>2. \A j \in Jobs : Tells(j)'
      BY <1>1, <2>1, <2>2, <3>1 DEF DiskInv, Tells, Matches, Late
    <3>. QED
      BY <2>1, <2>2, <3>1, <3>2 DEF DiskInv, ScopeInv, Late
  <2>3. CASE main = "dump"
    <3>1. /\ manifest' = merged /\ main' = "exit"
          /\ \A j \in Jobs : told'[j] = IF told[j] = "record" THEN "manifest" ELSE told[j]
      BY <1>6, <2>3 DEF WriteManifest
    <3>2. \A j \in Jobs : Tells(j)'
      BY <1>1, <2>1, <2>3, <3>1 DEF DiskInv, Tells, Matches, Late
    <3>. QED
      BY <2>1, <2>3, <3>1, <3>2 DEF DiskInv, ScopeInv, Late
  <2>. QED
    BY <1>6, <2>2, <2>3 DEF WriteManifest
<1>. QED
  BY <1>2, <1>3, <1>4, <1>5, <1>6 DEF Main, Unwind, Exit

LEMMA DiskStep == TypeInv /\ DiskInv /\ [Next]_vars => DiskInv'
<1>1. SUFFICES ASSUME TypeInv, DiskInv, [Next]_vars
               PROVE  DiskInv'
  OBVIOUS
<1>2. CASE Kill \/ Reboot
  <2>1. Down /\ UNCHANGED <<manifest, summary, records>>
    BY <1>2 DEF Kill, Reboot, Interrupted, diskVars
  <2>. QED
    BY <1>1, <2>1, DiskDown
<1>3. CASE \/ \E scope \in Scopes, resume, skip \in BOOLEAN :
                 Invoke(scope, resume, skip)
           \/ Pause \/ RecordPause \/ UNCHANGED vars
  <2>1. /\ UNCHANGED <<manifest, merged, job, lift, verdict, summary, records, told>>
        /\ \/ UNCHANGED <<main, args>>
           \/ {main, main'} \subseteq Early
    BY <1>3 DEF Invoke, Pause, RecordPause, vars, diskVars, mainVars, liftVars, Early
  <2>. QED
    BY <1>1, <2>1 DEF DiskInv, ScopeInv, Tells, Wrote, Matches, Early, Late
<1>. QED
  BY <1>1, <1>2, <1>3, DiskMain, DiskJob, DiskLoses, DiskBackend DEF Next

(* Whoever reads the manifest, at any time and after any number of         *)
(* failures, exceptions, kills and reboots, finds the outputs of every job *)
(* it calls ok and a clean summary of every job it calls skipped, unless a *)
(* backend was started, or was still at work, in that job's directory      *)
(* after the record was made (run_one, what --skip-existing reads and the  *)
(* merge, lines 409-423, 484 and 491-511; what run_metrics.py builds on).  *)
THEOREM ManifestIsOfDisk == Spec => []ManifestMatchesDisk
<1>1. Spec => []DiskInv
  BY DiskInit, DiskStep, SessionTypes, PTL DEF Spec
<1>2. DiskInv => ManifestMatchesDisk
  BY DEF DiskInv, Tells, Matches, ManifestMatchesDisk
<1>. QED
  BY <1>1, <1>2, PTL
=============================================================================
