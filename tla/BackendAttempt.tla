--------------------------- MODULE BackendAttempt ---------------------------
(***************************************************************************)
(* One (binary, backend) pair over several calls of run_one: the worker,   *)
(* the reaper and the timeout of Reaping around a driver of BackendDrivers,*)
(* with the tool the driver starts, if any, and the directory they all     *)
(* write, which later attempts find as the earlier ones left it.           *)
(*                                                                         *)
(* radare2 and retdec-decompiler are processes of their own: SIGKILL to    *)
(* the driver does not reach them.  An orphaned retdec-decompiler goes on  *)
(* to its .dsm and .ll, unless it dies of a closed pipe first.             *)
(***************************************************************************)
EXTENDS Reaping, BackendDrivers, SequencesExt

CONSTANTS
    Backends,   \* the backends asked for, of Kinds
    Found,      \* the binary's functions, in the order a full analysis lists
    External,   \* those without code of their own
    Symbols,    \* what the symbol table alone lists, without an analysis
    Limits      \* the values of --limit

ASSUME AttemptAssumption ==
    /\ Backends \subseteq Kinds
    /\ Found \in Seq(Range(Found)) /\ IsInjective(Found)
    /\ Symbols \in Seq(Range(Found)) /\ Len(Symbols) <= Len(Found)
    /\ External \subseteq Range(Found) /\ Limits \subseteq Nat

VARIABLES
    kind, limit,      \* the backend; --limit (Len(Found): not given)
    driver,           \* the memory of run(), see NotRunning
    helper,           \* the tool each attempt started
    outputs,          \* retdec's .dsm and .ll
    savedBy,          \* the attempt that saved the program; 0: none
    disk,             \* the files of the directory
    seen              \* record["summary"]

given == <<kind, limit>>
dirVars == <<outputs, savedBy, disk>>
vars == <<reapVars, given, driver, helper, dirVars, seen>>

Attempts == 1..MaxAttempts
Files == DOMAIN Opening
Empty == [functions |-> <<>>, dump |-> {}, summary |-> FALSE, records |-> <<>>]

(* at is the next step; listed, lifted and defined are run()'s functions,  *)
(* lifted_records and the keys of its ll_functions; analyzed says whether  *)
(* the program in Ghidra's memory has been analysed.                       *)
NotRunning ==
    [at |-> 1, fatal |-> FALSE, listed |-> <<>>, lifted |-> <<>>,
     defined |-> {}, analyzed |-> FALSE]

NothingSeen == [by |-> 0, fatal |-> FALSE]

Init ==
    /\ ReapInit
    /\ kind \in Backends /\ limit \in Limits \cup {Len(Found)}
    /\ driver = NotRunning
    /\ helper = [a \in Attempts |-> "none"]
    /\ outputs = [by |-> 0, whole |-> FALSE] /\ savedBy = 0
    /\ disk = [f \in Files |-> [by |-> 0, whole |-> FALSE, data |-> Empty[f]]]
    /\ seen = NothingSeen

-----------------------------------------------------------------------------
(***************************************************************************)
(* The driver                                                              *)
(***************************************************************************)
Step == StepAt(kind, driver.at)

(* The driver takes step s and goes on to the next one.                    *)
Does(s) == child = "running" /\ Step = s /\ UNCHANGED <<reapVars, given, seen>>

Goes == driver' = [driver EXCEPT !.at = @ + 1]

Passes ==
    /\ \E s \in {"start", "load", "close"} : Does(s)
    /\ Goes /\ UNCHANGED <<helper, dirVars>>

(* program_context finds the program, or raises FileNotFoundError.         *)
Import ==
    /\ Does("import")
    /\ driver' = [driver EXCEPT !.at = IF savedBy = 0 THEN @ + 1 ELSE @ + 3]
    /\ UNCHANGED <<helper, dirVars>>

Save ==
    /\ Does("save") /\ Goes
    /\ savedBy' = attempt
    /\ UNCHANGED <<helper, outputs, disk>>

Analyze ==
    /\ Does("analyze")
    /\ driver' = [driver EXCEPT !.at = @ + 1, !.analyzed = TRUE]
    /\ UNCHANGED <<helper, dirVars>>

(* list_functions; retdec's reads the .dsm, which may be torn.             *)
Listings ==
    IF kind = "pyghidra" /\ ~ driver.analyzed
    THEN {Symbols}
    ELSE IF kind = "retdec" /\ ~ outputs.whole
    THEN {SubSeq(Found, 1, n) : n \in 0..Len(Found)}
    ELSE {Found}

List ==
    /\ Does("list")
    /\ \E fs \in Listings :
          driver' = [driver EXCEPT !.at = @ + 1, !.listed = fs]
    /\ UNCHANGED <<helper, dirVars>>

(* split_ll_by_function: some functions have a definition in the .ll.      *)
Split ==
    /\ Does("split")
    /\ \E fs \in SUBSET (Range(Found) \ External) :
          driver' = [driver EXCEPT !.at = @ + 1, !.defined = fs]
    /\ UNCHANGED <<helper, dirVars>>

Targets == Limited(driver.listed, limit)

ResultsExternal(f) ==
    IF Driver[kind].skips /\ f \in External THEN {"external"} ELSE {"ok", "error"}

(* How one function's record can come out.                                 *)
Results(f) ==
    IF Driver[kind].skips /\ f \in External THEN {"skipped"}
    ELSE IF kind = "retdec" THEN {IF f \in driver.defined THEN "ok" ELSE "error"}
    ELSE {"ok", "error"}

Lift ==
    /\ Does("lift")
    /\ LET n == Len(driver.lifted) + 1
       IN  IF n > Len(Targets) THEN Goes
           ELSE \E r \in Results(Targets[n]) :
                   driver' = [driver EXCEPT !.lifted = Append(@, <<Targets[n], r>>)]
    /\ UNCHANGED <<helper, dirVars>>

LiftedOk(recs) == {r[1] : r \in {q \in Range(recs) : q[2] = "ok"}}

ContentsOfAll ==
    [functions |-> driver.listed, dump |-> {r[1] : r \in Range(driver.lifted)},
     summary |-> driver.fatal, records |-> driver.lifted]

Contents ==
    [functions |-> driver.listed,
     dump |-> IF kind = "retdec" THEN driver.defined ELSE LiftedOk(driver.lifted),
     summary |-> driver.fatal,
     records |-> driver.lifted]

OpenFile(f) ==
    /\ Does(Opening[f]) /\ Goes
    /\ disk' = [disk EXCEPT ![f] = [by |-> attempt, whole |-> FALSE, data |-> Empty[f]]]
    /\ UNCHANGED <<helper, outputs, savedBy>>

(* A copy is no better than its original (shutil.copyfile of the .ll).     *)
FillFile(f) ==
    /\ Does(Filling[f]) /\ Goes
    /\ disk' = [disk EXCEPT ![f] =
                  [by |-> attempt, data |-> Contents[f],
                   whole |-> (kind = "retdec" /\ f = "dump") => outputs.whole]]
    /\ UNCHANGED <<helper, outputs, savedBy>>

UseToolNoQuit ==
    /\ \/ Does("spawn") /\ helper' = [helper EXCEPT ![attempt] = "working"]
       \/ Does("wait") /\ helper[attempt] = "wrote"
          /\ helper' = [helper EXCEPT ![attempt] = "none"]
       \/ Does("quit") /\ UNCHANGED helper
    /\ Goes /\ UNCHANGED dirVars

(* subprocess.run returns when retdec-decompiler has written and exited.   *)
UseTool ==
    /\ \/ Does("spawn") /\ helper' = [helper EXCEPT ![attempt] = "working"]
       \/ Does("wait") /\ helper[attempt] = "wrote"
          /\ helper' = [helper EXCEPT ![attempt] = "none"]
       \/ Does("quit") /\ helper' = [helper EXCEPT ![attempt] = "none"]
    /\ Goes /\ UNCHANGED dirVars

InTry == 1 < driver.at /\ driver.at < ClosingAt(kind)
Closing == ClosingAt(kind) <= driver.at /\ driver.at < TailAt(kind)

RaisesUnnoticed ==
    /\ child = "running" /\ InTry
    /\ driver' = [driver EXCEPT !.at = TailAt(kind)]
    /\ UNCHANGED <<reapVars, given, helper, dirVars, seen>>

(* An exception inside the try is the fatal_error; the finally comes first *)
(* if it is owed.  subprocess.run kills and reaps its tool before it       *)
(* raises.                                                                 *)
Raises ==
    /\ child = "running"
    /\ InTry \/ (Closing /\ Driver[kind].caught)
    /\ driver' = [driver EXCEPT !.fatal = TRUE,
                    !.at = IF InTry /\ @ > Driver[kind].opened
                           THEN ClosingAt(kind) ELSE TailAt(kind)]
    /\ helper' = IF kind = "retdec" THEN [helper EXCEPT ![attempt] = "none"] ELSE helper
    /\ UNCHANGED <<reapVars, given, dirVars, seen>>

EndCodesZero == IF Step = "return" THEN {"zero"} ELSE {}

(* How the driver can end by itself at this point: with the status of its  *)
(* return, or of an exception that nothing catches.                        *)
EndCodes ==
    IF Step = "return" THEN {IF driver.fatal THEN "nonzero" ELSE "zero"}
    ELSE IF InTry \/ (Closing /\ Driver[kind].caught) THEN {}
    ELSE {"nonzero"}

(* The memory of a process goes with it; how far it was in its last writes *)
(* is remembered for Stage.                                                *)
MemoryGone ==
    driver' = IF driver.at <= TailAt(kind) THEN NotRunning
              ELSE [NotRunning EXCEPT !.at = driver.at, !.fatal = driver.fatal]

(* Death by a signal that is not run_lifting.py's (the OOM killer, a crash *)
(* in native code) can come at any time.                                   *)
Ends ==
    /\ child = "running"
    /\ \E c \in EndCodes \cup {"signal"} : ChildEnds(c)
    /\ MemoryGone
    /\ UNCHANGED <<given, helper, dirVars, seen>>

DriverStep ==
    \/ Passes \/ Import \/ Save \/ Analyze \/ List \/ Split \/ Lift
    \/ \E f \in Files : OpenFile(f) \/ FillFile(f)
    \/ UseTool \/ Raises

(***************************************************************************)
(* The tools                                                               *)
(***************************************************************************)
Orphaned(a) == ~ (a = attempt /\ child = "running")

ToolWrites(a) ==
    /\ kind = "retdec" /\ helper[a] \in {"working", "writing"}
    /\ helper' = [helper EXCEPT ![a] = IF @ = "working" THEN "writing" ELSE "wrote"]
    /\ outputs' = [by |-> a, whole |-> helper[a] = "writing"]
    /\ UNCHANGED <<reapVars, given, driver, savedBy, disk, seen>>

(* End of file on its input, a closed pipe, or the end of its work.        *)
OrphanEnds(a) ==
    /\ helper[a] # "none" /\ Orphaned(a)
    /\ helper' = [helper EXCEPT ![a] = "none"]
    /\ UNCHANGED <<reapVars, given, driver, dirVars, seen>>

(***************************************************************************)
(* run_one                                                                 *)
(***************************************************************************)
RunOne ==
    \/ /\ Begin
       /\ driver' = NotRunning /\ seen' = NothingSeen
       /\ UNCHANGED <<given, helper, dirVars>>
    \/ /\ ReadSummary
       /\ seen' = IF disk.summary.whole
                  THEN [by |-> disk.summary.by, fatal |-> disk.summary.data]
                  ELSE NothingSeen
       /\ UNCHANGED <<given, driver, helper, dirVars>>
    \/ /\ KillSignals
       /\ IF child = "running" THEN MemoryGone ELSE UNCHANGED driver
       /\ UNCHANGED <<given, helper, dirVars, seen>>
    \/ /\ NotStarted \/ Popen \/ StartReaper \/ ReaperNotStarted \/ Join
          \/ KillPolls \/ Rejoin \/ Collect \/ Unlink \/ Wait4 \/ ReaperEnds
       /\ UNCHANGED <<given, driver, helper, dirVars, seen>>

Next ==
    \/ RunOne \/ DriverStep \/ Ends
    \/ \E a \in Attempts : ToolWrites(a) \/ OrphanEnds(a)

Spec == Init /\ [][Next]_vars

(* The two threads of run_lifting.py run; its timeout makes sure of the    *)
(* rest.  Nothing is assumed of the driver and its tool: they may hang.    *)
FairSpec ==
    /\ Spec
    /\ WF_vars(RunOne /\ Worker) /\ WF_vars(RunOne /\ Reaper)

-----------------------------------------------------------------------------
Record == [by : 0..MaxAttempts, whole : BOOLEAN]

FunctionLists == UNION {[1..n -> Range(Found)] : n \in 0..Len(Found)}

RecordLists ==
    UNION {[1..n -> Range(Found) \X {"ok", "error", "skipped"}] : n \in 0..Len(Found)}

AttemptTypeOK ==
    /\ ReapTypeOK
    /\ kind \in Backends /\ limit \in Limits \cup {Len(Found)}
    /\ driver \in [at : 1..ReturnAt(kind), fatal : BOOLEAN,
                   listed : FunctionLists, lifted : RecordLists,
                   defined : SUBSET Range(Found), analyzed : BOOLEAN]
    /\ helper \in [Attempts -> {"none", "working", "writing", "wrote"}]
    /\ outputs \in Record /\ savedBy \in 0..MaxAttempts
    /\ seen \in [by : 0..MaxAttempts, fatal : BOOLEAN]
    /\ DOMAIN disk = Files
    /\ \A f \in Files : [by |-> disk[f].by, whole |-> disk[f].whole] \in Record
    /\ disk.functions.data \in FunctionLists
    /\ disk.dump.data \in SUBSET Range(Found)
    /\ disk.summary.data \in BOOLEAN
    /\ disk.records.data \in RecordLists

RecordsCover(recs, functions) ==
    /\ Len(recs) = Len(functions)
    /\ \A i \in 1..Len(recs) : recs[i][1] = functions[i]

EndedOk == worker = "idle" /\ status = "ok"

(* What a record with status ok stands for, whatever earlier attempts left *)
(* in the directory and whoever outlived them (run_one, lines 219-257, and *)
(* the end of each run()): every file is of this attempt, summary.json has *)
(* no fatal_error and is the one in the record, and lift_records.json has  *)
(* one record for each of the first --limit functions of functions.json.   *)
OkMeansLifted ==
    EndedOk =>
        /\ \A f \in Files : disk[f].by = attempt
        /\ \A f \in Files \ {"dump"} : disk[f].whole
        /\ disk.summary.data = FALSE
        /\ seen = [by |-> attempt, fatal |-> FALSE]
        /\ RecordsCover(disk.records.data, Limited(disk.functions.data, limit))

(* Metrics join a function's record with its text in whole_binary.* and    *)
(* its entry in functions.json: an ok attempt's dump is of the functions   *)
(* its records call ok (retdec's has the others' too), and it is torn only *)
(* if the tool of an earlier attempt that did not end well still writes.   *)
DumpMatchesRecords ==
    EndedOk =>
        /\ LET ok == LiftedOk(disk.records.data)
           IN  IF kind = "retdec" THEN ok \subseteq disk.dump.data
                                  ELSE ok = disk.dump.data
        /\ disk.dump.whole \/ (kind = "retdec" /\ outputs.by < attempt)

(* A clean summary.json is what --skip-existing takes for done: a driver   *)
(* writes one only after every target has its record, even if it is killed *)
(* before those are on the disk, and one with a fatal_error goes with the  *)
(* records made until then, in the order of the listing.                   *)
SummaryTellsHowFar ==
    child = "running" /\ disk.summary.whole /\ disk.summary.by = attempt =>
        IF disk.summary.data = FALSE
        THEN RecordsCover(driver.lifted, Targets)
        ELSE RecordsCover(driver.lifted, SubSeq(Targets, 1, Len(driver.lifted)))

(* Only the driver is killed at the timeout (line 199): its tool may live  *)
(* on, but not after an attempt that is recorded ok.                       *)
OkLeavesNoTool ==
    EndedOk => helper[attempt] = "none"

(* An ok attempt lists every function a full analysis finds, except where  *)
(* something of an earlier attempt is in its way: pyghidra finds a program *)
(* saved before its analysis (pyghidra_lift.py, lines 262-281), retdec a   *)
(* .dsm that an orphan is writing.                                         *)
ShortListingOnlyOnRetry ==
    EndedOk /\ disk.functions.data # Found =>
        \/ kind = "pyghidra" /\ savedBy \in 1..(attempt - 1)
        \/ kind = "retdec" /\ attempt > 1

(* Every attempt comes to its record, although nothing makes a backend end *)
(* by itself: the timeout, the signal and the two threads see to it (lines *)
(* 192-203).                                                               *)
AttemptEnds == worker # "idle" ~> worker = "idle"

(* The attempt as LiftSession sees it.                                     *)
Stage ==
    IF worker = "idle" /\ child # "running" THEN "none"
    ELSE IF Step = "fill_summary" THEN "summary"
    ELSE IF Step = "open_records" THEN "summarised"
    ELSE IF Step = "fill_records" THEN "records"
    ELSE IF Step = "return" THEN "returns"
    ELSE "lifting"

Verdict(fatal) == IF fatal THEN "fatal" ELSE "clean"

Promise ==
    INSTANCE BackendPromise WITH
        stage <- Stage,
        verdict <- IF Stage \in {"summarised", "records", "returns"}
                   THEN Verdict(driver.fatal) ELSE "none",
        summary <- IF disk.summary.whole THEN Verdict(disk.summary.data)
                   ELSE "unreadable",
        records <- disk.records.whole,
        outcome <- IF worker # "idle" THEN "running"
                   ELSE IF attempt = 0 THEN "never"
                   ELSE IF status \in {"ok", "raised"} THEN status ELSE "failed"

(* With all its threads, races, tools and remains of earlier attempts, an  *)
(* attempt is no more to the session than LiftSession assumes: the two     *)
(* files in that order, ok only after both and a clean fatal_error, and    *)
(* files still written after its record only if that says failed.          *)
KeepsPromise == Promise!PromiseSpec
=============================================================================
