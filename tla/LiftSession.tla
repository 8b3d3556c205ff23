---------------------------- MODULE LiftSession ----------------------------
(***************************************************************************)
(* What pipeline/run_lifting.py leaves on the disk from one invocation to  *)
(* the next: pause_state.json, manifest.json and, in the directory of each *)
(* job, the summary.json and lift_records.json its backend writes.  One    *)
(* invocation runs at a time on a results directory; it may be killed or   *)
(* lose its machine between any two steps, or end by an exception without  *)
(* a manifest.  A killed one leaves its backends running with nobody to    *)
(* stop them, and so does a worker whose reaper thread does not start.     *)
(*                                                                         *)
(* The threads, pools and memory of an invocation are LiftScheduler's; here*)
(* its jobs pass the last check in any order until a pause stops them.     *)
(* open(path, "w") empties a file and json.dump fills it later (write_json *)
(* of pipeline/common.py).  A file that is missing and one that is torn    *)
(* read alike in run_lifting.py, so they are one value, "unreadable".      *)
(***************************************************************************)
EXTENDS Integers

CONSTANTS
    Jobs,          \* the (binary, backend) pairs of the corpus
    Scopes,        \* the sets of jobs that command lines ask for
    MaxBad,        \* bound: attempts that do not end well
    MaxPauses,     \* bound: pauses
    MaxKills,      \* bound: backends left without their orchestrator
    MaxReboots     \* bound: machines lost

ASSUME SessionAssumption ==
    /\ Scopes \subseteq SUBSET Jobs
    /\ {MaxBad, MaxPauses, MaxKills, MaxReboots} \subseteq Nat

VARIABLES
    stateFile,     \* pause_state.json
    summary,       \* each job's summary.json, by its fatal_error
    records,       \* whether each job's lift_records.json is readable
    manifest,      \* manifest.json
    main, args,    \* where main() is; its command line
    event,         \* controller.event
    writer,        \* request_pause in write_json
    job,           \* results_by_job, and the jobs on their way into it
    merged,        \* the local manifest, from its making to its writing
    lift, verdict, \* each backend process; its fatal_error
    bad, pauses, kills, reboots,
    lastEnd,       \* history: how the last attempt at each job ended
    recorded,      \* history: each job's best record in manifest.json since
                   \* the file was last torn for good
    cutShort,      \* history: the jobs a backend of which was ended between
                   \* its two files, and no other finished the second since
    told           \* history: who can tell what is in a job's directory now

diskVars == <<stateFile, summary, records, manifest>>
mainVars == <<main, args, event, writer, job, merged>>
liftVars == <<lift, verdict, bad, lastEnd, cutShort>>
vars == <<diskVars, mainVars, liftVars, pauses, kills, reboots, recorded, told>>

(* A job's backend: the one this invocation started and waits for, or one  *)
(* that outlived a killed invocation or has nobody waiting for it.         *)
Procs == Jobs \X {"child", "orphan"}
Child(j) == <<j, "child">>
Orphan(j) == <<j, "orphan">>

NotAsked == [scope |-> {}, resume |-> FALSE, skip |-> FALSE]
NoRuns == [j \in Jobs |-> "none"]
Unreadable == [whole |-> FALSE, runs |-> NoRuns, complete |-> FALSE]

Init ==
    /\ stateFile = "unreadable"
    /\ summary = [j \in Jobs |-> "unreadable"]
    /\ records = [j \in Jobs |-> FALSE]
    /\ manifest = Unreadable
    /\ main = "down" /\ args = NotAsked /\ event = FALSE /\ writer = "idle"
    /\ job = [j \in Jobs |-> "out"] /\ merged = Unreadable
    /\ lift = [p \in Procs |-> "none"] /\ verdict = [p \in Procs |-> "none"]
    /\ bad = 0 /\ pauses = 0 /\ kills = 0 /\ reboots = 0
    /\ lastEnd = [j \in Jobs |-> "never"]
    /\ recorded = NoRuns /\ cutShort = {}
    /\ told = [j \in Jobs |-> "nobody"]

(***************************************************************************)
(* main(), up to the jobs                                                  *)
(***************************************************************************)
Invoke(scope, resume, skip) ==
    /\ main = "down" /\ main' = "load"
    /\ args' = [scope |-> scope, resume |-> resume, skip |-> skip \/ resume]
    /\ UNCHANGED <<event, writer, job, merged>>
    /\ UNCHANGED <<diskVars, liftVars, pauses, kills, reboots, recorded, told>>

(* The process ends: its memory and its daemon threads are gone.           *)
Down ==
    /\ main' = "down" /\ args' = NotAsked /\ event' = FALSE
    /\ writer' = "idle" /\ merged' = Unreadable
    /\ job' = [j \in Jobs |-> "out"]
    /\ told' = [j \in Jobs |-> IF told[j] = "manifest" THEN "manifest" ELSE "nobody"]

LoadIgnoresPause ==
    /\ main = "load"
    /\ main' = IF stateFile = "running" THEN "scan" ELSE "open state"
    /\ UNCHANGED <<args, event, writer, job, merged>>
    /\ UNCHANGED <<diskVars, liftVars, pauses, kills, reboots, recorded, told>>

(* load_pause_state, and the ways that lead from it: a fresh state to be   *)
(* written, a pause to be cleared, a pause to be obeyed, or nothing.       *)
Load ==
    /\ main = "load"
    /\ \/ stateFile = "paused" /\ ~ args.resume /\ Down
       \/ /\ stateFile = "paused" => args.resume
          /\ main' = IF stateFile = "running" THEN "scan" ELSE "open state"
          /\ UNCHANGED <<args, event, writer, job, merged, told>>
    /\ UNCHANGED <<diskVars, liftVars, pauses, kills, reboots, recorded>>

(* Both write "paused": False.                                             *)
WriteState ==
    /\ \/ main = "open state" /\ main' = "dump state" /\ stateFile' = "unreadable"
       \/ main = "dump state" /\ main' = "scan" /\ stateFile' = "running"
    /\ UNCHANGED <<summary, records, manifest, args, event, writer, job, merged>>
    /\ UNCHANGED <<liftVars, pauses, kills, reboots, recorded, told>>

DoneIfReadable(j) == summary[j] # "unreadable"

(* Lines 409-416: what --skip-existing takes for done.                     *)
Done(j) == summary[j] = "clean"

Scan ==
    /\ main = "scan" /\ main' = "run"
    /\ job' = [j \in Jobs |-> IF j \notin args.scope THEN "out"
                              ELSE IF args.skip /\ Done(j) THEN "skipped"
                              ELSE "todo"]
    /\ told' = [j \in Jobs |-> IF job'[j] = "skipped" /\ told[j] = "nobody"
                               THEN "record" ELSE told[j]]
    /\ UNCHANGED <<args, event, writer, merged>>
    /\ UNCHANGED <<diskVars, liftVars, pauses, kills, reboots, recorded>>

(***************************************************************************)
(* The jobs                                                                *)
(***************************************************************************)
JobGoes(j, from, to) == job[j] = from /\ job' = [job EXCEPT ![j] = to]

(* The last check of controller.event in run_job, and the records of jobs  *)
(* that a pause keeps from starting.                                       *)
PassCheck(j) ==
    /\ JobGoes(j, "todo", IF event THEN "not_started" ELSE "cleared")
    /\ UNCHANGED <<main, args, event, writer, merged>>
    /\ UNCHANGED <<diskVars, liftVars, pauses, kills, reboots, recorded, told>>

Launch(j) ==
    /\ JobGoes(j, "cleared", "live")
    /\ lift' = [lift EXCEPT ![Child(j)] = "lifting"]
    /\ lastEnd' = [lastEnd EXCEPT ![j] = "running"]
    /\ told' = [told EXCEPT ![j] = IF lift[Orphan(j)] = "none" THEN "backend" ELSE "nobody"]
    /\ UNCHANGED <<main, args, event, writer, merged, verdict, bad, cutShort>>
    /\ UNCHANGED <<diskVars, pauses, kills, reboots, recorded>>

(* ensure_dir raises, outside run_one's try: there is no backend and no    *)
(* record, and future.result() will raise in main().                       *)
NotLaunched(j) ==
    /\ JobGoes(j, "cleared", "raised") /\ bad < MaxBad /\ bad' = bad + 1
    /\ UNCHANGED <<main, args, event, writer, merged, lift, verdict, lastEnd, cutShort>>
    /\ UNCHANGED <<diskVars, pauses, kills, reboots, recorded, told>>

(* The end of a backend: run_one makes its record if it is its child.      *)
LiftEnds(p, status) ==
    /\ lift' = [lift EXCEPT ![p] = "none"]
    /\ verdict' = [verdict EXCEPT ![p] = "none"]
    /\ IF p = Child(p[1])
       THEN /\ job' = [job EXCEPT ![p[1]] = status]
            /\ lastEnd' = [lastEnd EXCEPT ![p[1]] = status]
       ELSE UNCHANGED <<job, lastEnd>>

WriteSummary(p) ==
    \/ /\ lift[p] = "lifting" /\ lift' = [lift EXCEPT ![p] = "summary"]
       /\ summary' = [summary EXCEPT ![p[1]] = "unreadable"]
       /\ UNCHANGED <<verdict, bad>>
    \/ /\ lift[p] = "summary" /\ lift' = [lift EXCEPT ![p] = "summarised"]
       /\ \E v \in {"clean", "fatal"} :
             /\ verdict' = [verdict EXCEPT ![p] = v]
             /\ summary' = [summary EXCEPT ![p[1]] = v]
             /\ bad' = IF v = "fatal" THEN bad + 1 ELSE bad
       /\ bad' <= MaxBad

WriteRecords(p) ==
    \/ /\ lift[p] = "summarised" /\ lift' = [lift EXCEPT ![p] = "records"]
       /\ records' = [records EXCEPT ![p[1]] = FALSE] /\ UNCHANGED cutShort
    \/ /\ lift[p] = "records" /\ lift' = [lift EXCEPT ![p] = "returns"]
       /\ records' = [records EXCEPT ![p[1]] = TRUE]
       /\ cutShort' = cutShort \ {p[1]}

ExitStatusOk(p) == "ok"

(* return 0 if fatal_error is None else 1, as run_one reads it.            *)
ExitStatus(p) == IF verdict[p] = "clean" THEN "ok" ELSE "failed"

(* The tail of a backend's run(): summary.json, then lift_records.json,    *)
(* then the exit; or its death on the way, by itself or, for a child, by   *)
(* the timeout.  A backend whose Popen raises is one that dies at once; one*)
(* that was a success until its logs could not be removed is one that dies *)
(* after its files.                                                        *)
Lift(p) ==
    \/ /\ WriteSummary(p)
       /\ UNCHANGED <<job, lastEnd, records, cutShort>>
    \/ /\ WriteRecords(p)
       /\ UNCHANGED <<job, lastEnd, summary, verdict, bad>>
    \/ /\ lift[p] = "returns" /\ LiftEnds(p, ExitStatus(p))
       /\ UNCHANGED <<summary, records, bad, cutShort>>

BetweenFiles == {p \in Procs : lift[p] \in {"summarised", "records"}}

Dies(p) ==
    /\ lift[p] # "none" /\ bad < MaxBad /\ bad' = bad + 1
    /\ LiftEnds(p, "failed")
    /\ cutShort' = IF p \in BetweenFiles THEN cutShort \cup {p[1]} ELSE cutShort
    /\ UNCHANGED <<summary, records>>

(* A directory that one backend alone has written since it was started is  *)
(* as that backend's record tells.                                         *)
Backend(p) ==
    /\ Lift(p) \/ Dies(p)
    /\ told' = [told EXCEPT ![p[1]] =
                   IF p = Child(p[1]) /\ @ = "backend"
                   THEN IF lift'[p] = "none" THEN "record" ELSE "backend"
                   ELSE "nobody"]
    /\ UNCHANGED <<stateFile, manifest, main, args, event, writer, merged>>
    /\ UNCHANGED <<pauses, kills, reboots, recorded>>

(* The reaper thread does not start: run_one records a crash and nobody    *)
(* waits for the backend (a bound: no other of this job is left over).     *)
LosesChild(j) ==
    /\ lift[Child(j)] # "none" /\ lift[Orphan(j)] = "none"
    /\ kills < MaxKills /\ kills' = kills + 1
    /\ lift' = [lift EXCEPT ![Orphan(j)] = lift[Child(j)], ![Child(j)] = "none"]
    /\ verdict' = [verdict EXCEPT ![Orphan(j)] = verdict[Child(j)], ![Child(j)] = "none"]
    /\ job' = [job EXCEPT ![j] = "failed"]
    /\ lastEnd' = [lastEnd EXCEPT ![j] = "failed"]
    /\ told' = [told EXCEPT ![j] = "nobody"]
    /\ UNCHANGED <<main, args, event, writer, merged, bad, cutShort>>
    /\ UNCHANGED <<diskVars, pauses, reboots, recorded>>

(***************************************************************************)
(* request_pause, from the start of the listener to the end of the process *)
(***************************************************************************)
Pause ==
    /\ main \in {"run", "open", "dump", "exit"}
    /\ ~ event /\ event' = TRUE /\ writer' = "open"
    /\ pauses < MaxPauses /\ pauses' = pauses + 1
    /\ UNCHANGED <<main, args, job, merged>>
    /\ UNCHANGED <<diskVars, liftVars, kills, reboots, recorded, told>>

RecordPause ==
    /\ \/ writer = "open" /\ writer' = "dump" /\ stateFile' = "unreadable"
       \/ writer = "dump" /\ writer' = "idle" /\ stateFile' = "paused"
    /\ UNCHANGED <<summary, records, manifest, main, args, event, job, merged>>
    /\ UNCHANGED <<liftVars, pauses, kills, reboots, recorded, told>>

(***************************************************************************)
(* The rest of main()                                                      *)
(***************************************************************************)
SettledWhenStarted(j) == job[j] \notin {"todo", "cleared"}

Settled(j) ==
    job[j] \in {"out", "skipped", "not_started", "failed", "ok", "raised"}

MergedRunsOverwritten ==
    [j \in Jobs |-> IF j \in args.scope THEN job[j] ELSE "none"]

(* merged_by_job: this invocation's records over those on the disk.        *)
MergedRuns ==
    [j \in Jobs |-> IF j \in args.scope THEN job[j] ELSE manifest.runs[j]]

CompleteUnlessPaused(runs) == ~ event

Complete(runs) == ~ event /\ \A j \in Jobs : runs[j] # "not_started"

Merge ==
    /\ main = "run" /\ main' = "open"
    /\ \A j \in Jobs : Settled(j) /\ job[j] # "raised"
    /\ merged' = [whole |-> TRUE, runs |-> MergedRuns,
                  complete |-> Complete(MergedRuns)]
    /\ UNCHANGED <<args, event, writer, job>>
    /\ UNCHANGED <<diskVars, liftVars, pauses, kills, reboots, recorded, told>>

(* The exception of a job comes out of future.result(): the pools finish   *)
(* what they have, and the process ends without a manifest.                *)
Unwind ==
    /\ main = "run" /\ \A j \in Jobs : Settled(j)
    /\ \E j \in Jobs : job[j] = "raised"
    /\ Down
    /\ UNCHANGED <<diskVars, liftVars, pauses, kills, reboots, recorded>>

BestRecord(run, best) ==
    IF run = "ok" THEN "measured"
    ELSE IF run = "none" \/ (run = "skipped" /\ best # "none") THEN best
    ELSE "some"

WriteManifest ==
    /\ \/ /\ main = "open" /\ main' = "dump"
          /\ manifest' = Unreadable /\ UNCHANGED <<recorded, told>>
       \/ /\ main = "dump" /\ main' = "exit"
          /\ manifest' = merged
          /\ recorded' = [j \in Jobs |-> BestRecord(merged.runs[j], recorded[j])]
          /\ told' = [j \in Jobs |-> IF told[j] = "record" THEN "manifest" ELSE told[j]]
    /\ UNCHANGED <<stateFile, summary, records, args, event, writer, job, merged>>
    /\ UNCHANGED <<liftVars, pauses, kills, reboots>>

Exit ==
    /\ main = "exit" /\ Down
    /\ UNCHANGED <<diskVars, liftVars, pauses, kills, reboots, recorded>>

Main == Load \/ WriteState \/ Scan \/ Merge \/ Unwind \/ WriteManifest \/ Exit

(***************************************************************************)
(* What can happen to the process from outside                             *)
(***************************************************************************)
Interrupted ==
    /\ main # "down" /\ Down
    /\ lastEnd' = [j \in Jobs |-> IF job[j] = "live" THEN "failed" ELSE lastEnd[j]]
    /\ recorded' = IF main = "dump" THEN NoRuns ELSE recorded
    /\ UNCHANGED <<diskVars, pauses, bad>>

(* A job's backend outlives the orchestrator (at most one does: a bound).  *)
Outlived(f) ==
    [p \in Procs |-> IF p = Child(p[1]) THEN "none"
                     ELSE IF f[Child(p[1])] # "none" THEN f[Child(p[1])]
                     ELSE f[p]]

Kill ==
    /\ kills < MaxKills /\ kills' = kills + 1
    /\ \A j \in Jobs : "none" \in {lift[Child(j)], lift[Orphan(j)]}
    /\ Interrupted
    /\ lift' = Outlived(lift) /\ verdict' = Outlived(verdict)
    /\ UNCHANGED <<reboots, cutShort>>

Reboot ==
    /\ reboots < MaxReboots /\ reboots' = reboots + 1
    /\ Interrupted
    /\ lift' = [p \in Procs |-> "none"] /\ verdict' = [p \in Procs |-> "none"]
    /\ cutShort' = cutShort \cup {p[1] : p \in BetweenFiles}
    /\ UNCHANGED kills

Next ==
    \/ \E scope \in Scopes, resume, skip \in BOOLEAN : Invoke(scope, resume, skip)
    \/ Main
    \/ \E j \in Jobs : PassCheck(j) \/ Launch(j) \/ NotLaunched(j) \/ LosesChild(j)
    \/ \E p \in Procs : Backend(p)
    \/ Pause \/ RecordPause
    \/ Kill \/ Reboot

Spec == Init /\ [][Next]_vars

(***************************************************************************)
(* The machine runs what there is to run.  The user, whatever else he asks *)
(* for in between, does not stop asking for the whole corpus with --resume.*)
(***************************************************************************)
FairSpec ==
    /\ Spec
    /\ WF_vars(Main) /\ WF_vars(RecordPause)
    /\ \A j \in Jobs : WF_vars(PassCheck(j) \/ Launch(j))
    /\ \A p \in Procs : WF_vars(Backend(p))
    /\ SF_vars(Invoke(Jobs, TRUE, TRUE))

-----------------------------------------------------------------------------
JobStates == {"out", "skipped", "todo", "cleared", "live", "not_started",
              "failed", "ok", "raised"}

RunStates == {"none", "skipped", "not_started", "failed", "ok"}

Manifests == [whole : BOOLEAN, runs : [Jobs -> RunStates], complete : BOOLEAN]

TypeOK ==
    /\ stateFile \in {"unreadable", "running", "paused"}
    /\ summary \in [Jobs -> {"unreadable", "clean", "fatal"}]
    /\ records \in [Jobs -> BOOLEAN]
    /\ manifest \in Manifests /\ merged \in Manifests
    /\ main \in {"down", "load", "open state", "dump state", "scan", "run",
                 "open", "dump", "exit"}
    /\ args \in [scope : SUBSET Jobs, resume : BOOLEAN, skip : BOOLEAN]
    /\ event \in BOOLEAN /\ writer \in {"idle", "open", "dump"}
    /\ job \in [Jobs -> JobStates]
    /\ lift \in [Procs -> {"none", "lifting", "summary", "summarised",
                           "records", "returns"}]
    /\ \A j \in Jobs : lift[Child(j)] # "none" <=> job[j] = "live"
    /\ verdict \in [Procs -> {"none", "clean", "fatal"}]
    /\ lastEnd \in [Jobs -> {"never", "running", "failed", "ok"}]
    /\ recorded \in [Jobs -> {"none", "some", "measured"}]
    /\ cutShort \subseteq Jobs
    /\ told \in [Jobs -> {"nobody", "backend", "record", "manifest"}]

(* "a fresh process comes back up still paused until the user passes       *)
(* --resume" (lines 130-131): a pause that is in the file stays there, and *)
(* no backend is started, until an invocation with --resume clears it; the *)
(* backends of the pausing process itself are PauseGate's matter.          *)
PauseOutlivesProcess ==
    [][stateFile = "paused" /\ ~ event =>
          /\ stateFile' = "paused" \/ args.resume
          /\ \A j \in Jobs : job'[j] = "live" => job[j] = "live"]_vars

(* "Merge into any manifest.json already on disk instead of overwriting    *)
(* it" (lines 491-493): over invocations of different scopes, with pauses  *)
(* and failures, a job that once had a record has one in every later       *)
(* manifest, unless the file was torn for good in between.                 *)
NothingForgotten ==
    manifest.whole =>
        \A j \in Jobs : recorded[j] # "none" => manifest.runs[j] # "none"

(* "complete" (lines 507-511) speaks of all jobs on record, not of this    *)
(* invocation's: a backend was started for each of them at some time.      *)
CompleteMeansAllRan ==
    manifest.whole /\ manifest.complete =>
        \A j \in Jobs : manifest.runs[j] # "none" => lastEnd[j] # "never"

(* What metrics read (run_metrics.py and its blocks): the outputs of every *)
(* job the manifest calls ok, and a clean summary of a skipped one, are in *)
(* its directory for as long as no backend was started there after the     *)
(* record was made (lines 409-423, 484 and 491-511).  Invocations that end *)
(* without a manifest, by an exception, a kill or a reboot, and backends   *)
(* that nobody waits for spoil only the jobs they touch.                   *)
ManifestMatchesDisk ==
    \A j \in Jobs : told[j] = "manifest" =>
        /\ manifest.runs[j] = "ok" => summary[j] = "clean" /\ records[j]
        /\ manifest.runs[j] = "skipped" => summary[j] = "clean"

(* What --resume is for (lines 125-131, 301-310): whatever failures,       *)
(* pauses, kills, exceptions and torn files come first, resuming again and *)
(* again ends with a complete manifest and, for every job, a clean summary,*)
(* which is what --resume takes for done (lines 409-416).  The job's       *)
(* lift_records.json is there as well, unless one of its backends was      *)
(* ended between the two files: such a job is skipped and not repaired.    *)
CorpusDone ==
    /\ manifest.whole /\ manifest.complete
    /\ \A j \in Jobs : /\ manifest.runs[j] \in {"ok", "skipped"}
                       /\ summary[j] = "clean"
                       /\ records[j] \/ j \in cutShort

ResumeCompletes == <>CorpusDone

(* "errors/timeouts are NOT considered done and will be retried"           *)
(* (lines 304-305).                                                        *)
OnlySuccessIsSkipped ==
    \A j \in Jobs : job[j] = "skipped" => lastEnd[j] = "ok"

(* "All three are already produced by run_lifting.py for every run (in     *)
(* manifest.json)" (metrics/blocks/cost.py, lines 13-14): a job's measured *)
(* time and memory stay in the manifest until another attempt replaces     *)
(* them.                                                                   *)
MeasurementsKept ==
    manifest.whole =>
        \A j \in Jobs : recorded[j] = "measured" => manifest.runs[j] = "ok"
=============================================================================
