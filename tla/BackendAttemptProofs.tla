------------------------ MODULE BackendAttemptProofs ------------------------
(***************************************************************************)
(* BackendAttempt implements Reaping: whatever the driver, its tool and    *)
(* the directory do, the worker, the reaper and the child take steps of    *)
(* ReapSpec or none; so the theorems of ReapingProofs hold of every        *)
(* backend, every set of functions and every number of attempts.           *)
(***************************************************************************)
EXTENDS BackendAttempt, ReapingProofs

LEMMA DriverLeavesReaping == DriverStep => UNCHANGED reapVars
<1> SUFFICES ASSUME DriverStep
             PROVE  UNCHANGED reapVars
  OBVIOUS
<1>1. ASSUME NEW s, Does(s)
      PROVE  UNCHANGED reapVars
  BY <1>1 DEF Does
<1>2. CASE Raises
  BY <1>2 DEF Raises
<1>3. CASE Passes
  BY <1>1, <1>3 DEF Passes
<1>4. CASE Import \/ Save \/ Analyze \/ List \/ Split \/ Lift
  BY <1>1, <1>4 DEF Import, Save, Analyze, List, Split, Lift
<1>5. ASSUME NEW f \in Files, OpenFile(f) \/ FillFile(f)
      PROVE  UNCHANGED reapVars
  BY <1>1, <1>5 DEF OpenFile, FillFile
<1>6. CASE UseTool
  BY <1>1, <1>6 DEF UseTool
<1> QED
  BY <1>2, <1>3, <1>4, <1>5, <1>6 DEF DriverStep

LEMMA EndsAreReapings == Ends => ReapNext
<1>1. EndCodes \subseteq {"zero", "nonzero"}
  BY DEF EndCodes
<1> QED
  BY <1>1 DEF Ends, ReapNext

(* The composed specification takes no step that Reaping does not allow.   *)
THEOREM ImplementsReaping == Spec => ReapSpec
<1>1. Init => ReapInit
  BY DEF Init
<1>2. [Next]_vars => [ReapNext]_reapVars
  <2> SUFFICES ASSUME [Next]_vars
               PROVE  [ReapNext]_reapVars
    OBVIOUS
  <2>1. CASE RunOne
    BY <2>1 DEF RunOne, ReapNext, Worker, Reaper
  <2>2. CASE DriverStep
    BY <2>2, DriverLeavesReaping
  <2>3. CASE Ends
    BY <2>3, EndsAreReapings
  <2>4. ASSUME NEW a \in Attempts, ToolWrites(a) \/ OrphanEnds(a)
        PROVE  UNCHANGED reapVars
    BY <2>4 DEF ToolWrites, OrphanEnds
  <2>5. CASE UNCHANGED vars
    BY <2>5 DEF vars
  <2> QED
    BY <2>1, <2>2, <2>3, <2>4, <2>5 DEF Next
<1> QED
  BY <1>1, <1>2, PTL DEF Spec, ReapSpec

(* No attempt of any backend leaves its process running or unreaped.       *)
THEOREM AttemptLeavesNothing == Spec => []NothingLeftBehind
BY ImplementsReaping, NothingIsLeftBehind, PTL

(* Of any backend, ok is said only if it exited with 0 by itself, in time. *)
THEOREM AttemptOkExited == Spec => []OkMeansExitedByItself
BY ImplementsReaping, OkExitedByItself, PTL

(* Of any backend, a crashed record stands for the poll after a timeout,   *)
(* a reaper that did not start or logs that stayed, and for nothing else.  *)
THEOREM AttemptCrashedHides == Spec => []CrashedHidesOnly
BY ImplementsReaping, CrashedHidesNothingElse, PTL
-----------------------------------------------------------------------------
(***************************************************************************)
(* Where the steps stand in each run()                                     *)
(***************************************************************************)
ListAt(k) == Driver[k].opened + 1
LiftAt(k) == ListAt(k) + (IF k = "retdec" THEN 6 ELSE 3)

LEMMA KindNames ==
    Kinds = {"angr", "ida", "pyghidra", "r2", "retdec", "binja_hlil",
             "binja_mlil", "binja_llil"}
BY DEF Kinds, Driver

(* What the proofs use of a run(): the places of its parts.                *)
LEMMA Lengths ==
    ASSUME NEW k \in Kinds
    PROVE  /\ k = "retdec" =>
                /\ ListAt(k) = 5 /\ LiftAt(k) = 11 /\ ClosingAt(k) = 12
                /\ TailAt(k) = 12 /\ ReturnAt(k) = 16
           /\ k = "pyghidra" =>
                /\ ListAt(k) = 6 /\ LiftAt(k) = 9 /\ ClosingAt(k) = 12
                /\ TailAt(k) = 13 /\ ReturnAt(k) = 17
           /\ k = "angr" =>
                /\ ListAt(k) = 3 /\ LiftAt(k) = 6 /\ ClosingAt(k) = 9
                /\ TailAt(k) = 9 /\ ReturnAt(k) = 13
           /\ k \notin {"retdec", "pyghidra", "angr"} =>
                /\ ListAt(k) = 3 /\ LiftAt(k) = 6 /\ ClosingAt(k) = 9
                /\ TailAt(k) = 10 /\ ReturnAt(k) = 14
<1> DEFINE D == Driver[k]
<1>1. CASE k = "retdec"
  <2>1. D.opened = 4 /\ Len(D.body) = 11 /\ Len(D.closing) = 0
    BY <1>1 DEF Driver, RetdecRun
  <2> QED
    BY <1>1, <2>1 DEF ListAt, LiftAt, ClosingAt, TailAt, ReturnAt
<1>2. CASE k = "pyghidra"
  <2>1. D.opened = 5 /\ Len(D.body) = 11 /\ Len(D.closing) = 1
    BY <1>2 DEF Driver, PyghidraRun
  <2> QED
    BY <1>2, <2>1 DEF ListAt, LiftAt, ClosingAt, TailAt, ReturnAt
<1>3. CASE k = "angr"
  <2>1. D.opened = 2 /\ Len(D.body) = 8 /\ Len(D.closing) = 0
    BY <1>3 DEF Driver, AngrRun
  <2> QED
    BY <1>3, <2>1 DEF ListAt, LiftAt, ClosingAt, TailAt, ReturnAt
<1>4. CASE k \notin {"retdec", "pyghidra", "angr"}
  <2>1. D.opened = 2 /\ Len(D.body) = 8 /\ Len(D.closing) = 1
    <3>1. CASE k = "ida"
      BY <3>1 DEF Driver, IdaRun
    <3>2. CASE k = "r2"
      BY <3>2 DEF Driver, R2Run
    <3>3. CASE k = "binja_hlil" \/ k = "binja_mlil" \/ k = "binja_llil"
      BY <3>3 DEF Driver, BinjaHlilRun, BinjaMlilRun, BinjaLlilRun
    <3> QED
      BY <1>4, <3>1, <3>2, <3>3, KindNames
  <2> QED
    BY <1>4, <2>1 DEF ListAt, LiftAt, ClosingAt, TailAt, ReturnAt
<1> QED
  BY <1>1, <1>2, <1>3, <1>4

(* Which step stands where.                                                *)
Places(k, i) ==
    LET s == StepAt(k, i)
    IN  /\ s = "start" <=> i = 1
        /\ s = "load" => i = 2
        /\ s = "spawn" <=> (k = "r2" /\ i = 2) \/ (k = "retdec" /\ i = 3)
        /\ s = "wait" <=> k = "retdec" /\ i = 4
        /\ s = "import" <=> k = "pyghidra" /\ i = 3
        /\ s = "save" <=> k = "pyghidra" /\ i = 4
        /\ s = "analyze" <=> k = "pyghidra" /\ i = 5
        /\ s = "split" <=> k = "retdec" /\ i = 8
        /\ s = "list" <=> i = ListAt(k)
        /\ s = "open_functions" <=> i = ListAt(k) + 1
        /\ s = "fill_functions" <=> i = ListAt(k) + 2
        /\ s = "lift" <=> i = LiftAt(k)
        /\ s = "open_dump" <=> i = ListAt(k) + 4
        /\ s = "fill_dump" <=> i = ListAt(k) + 5
        /\ s = "quit" <=> k = "r2" /\ i = ClosingAt(k)
        /\ s = "close" => i = ClosingAt(k) /\ i < TailAt(k)
        /\ s = "open_summary" <=> i = TailAt(k)
        /\ s = "fill_summary" <=> i = TailAt(k) + 1
        /\ s = "open_records" <=> i = TailAt(k) + 2
        /\ s = "fill_records" <=> i = TailAt(k) + 3
        /\ s = "return" <=> i = ReturnAt(k)

LEMMA StepsStand ==
    ASSUME NEW k \in Kinds, NEW i \in 1..ReturnAt(k)
    PROVE  Places(k, i)
<1> DEFINE D == Driver[k]
<1>1. CASE i >= TailAt(k)
  <2>1. ClosingAt(k) \in Nat /\ TailAt(k) \in Nat /\ ClosingAt(k) <= TailAt(k)
        /\ ReturnAt(k) = TailAt(k) + 4
    BY Lengths, KindNames
  <2>2. StepAt(k, i) = Ending[i - TailAt(k) + 1]
    BY <1>1, <2>1 DEF StepAt
  <2>3. i - TailAt(k) \in {0, 1, 2, 3, 4}
    BY <1>1, <2>1
  <2>4. /\ Ending[1] = "open_summary" /\ Ending[2] = "fill_summary"
        /\ Ending[3] = "open_records" /\ Ending[4] = "fill_records"
        /\ Ending[5] = "return"
    BY DEF Ending
  <2>5. StepAt(k, i) = IF i = TailAt(k) THEN "open_summary"
                       ELSE IF i = TailAt(k) + 1 THEN "fill_summary"
                       ELSE IF i = TailAt(k) + 2 THEN "open_records"
                       ELSE IF i = TailAt(k) + 3 THEN "fill_records" ELSE "return"
    <3>1. CASE i = TailAt(k)
      BY <2>1, <2>2, <2>4, <3>1
    <3>2. CASE i = TailAt(k) + 1
      BY <2>1, <2>2, <2>4, <3>2
    <3>3. CASE i = TailAt(k) + 2
      BY <2>1, <2>2, <2>4, <3>3
    <3>4. CASE i = TailAt(k) + 3
      BY <2>1, <2>2, <2>4, <3>4
    <3>5. CASE i = TailAt(k) + 4
      BY <2>1, <2>2, <2>4, <3>5
    <3> QED
      BY <2>1, <2>3, <3>1, <3>2, <3>3, <3>4, <3>5
  <2> QED
    BY <1>1, <2>1, <2>5, Lengths, KindNames DEF Places
<1>2. CASE i < TailAt(k) /\ k = "retdec"
  <2>1. D.body = <<"start", "load", "spawn", "wait", "list", "open_functions",
                   "fill_functions", "split", "open_dump", "fill_dump", "lift">>
    BY <1>2 DEF Driver, RetdecRun
  <2>2. i \in {1, 2, 3, 4, 5, 6, 7, 8, 9, 10, 11}
    BY <1>2, Lengths
  <2>3. StepAt(k, i) = D.body[i]
    BY <1>2, Lengths DEF StepAt
  <2> QED
    BY <1>2, <2>1, <2>2, <2>3, Lengths DEF Places
<1>3. CASE i < TailAt(k) /\ k = "pyghidra"
  <2>1. D.body = <<"start", "load", "import", "save", "analyze", "list",
                   "open_functions", "fill_functions", "lift", "open_dump",
                   "fill_dump">>
        /\ D.closing[1] = "close"
    BY <1>3 DEF Driver, PyghidraRun
  <2>2. i \in {1, 2, 3, 4, 5, 6, 7, 8, 9, 10, 11} \/ i = 12
    BY <1>3, Lengths
  <2>3. StepAt(k, i) = IF i = 12 THEN "close" ELSE D.body[i]
    BY <1>3, <2>1, Lengths DEF StepAt
  <2> QED
    BY <1>3, <2>1, <2>2, <2>3, Lengths DEF Places
<1>4. CASE i < TailAt(k) /\ k = "r2"
  <2>1. D.body = <<"start", "spawn", "list", "open_functions",
                   "fill_functions", "lift", "open_dump", "fill_dump">>
        /\ D.closing[1] = "quit"
    BY <1>4 DEF Driver, R2Run
  <2>2. i \in {1, 2, 3, 4, 5, 6, 7, 8} \/ i = 9
    BY <1>4, Lengths
  <2>3. StepAt(k, i) = IF i = 9 THEN "quit" ELSE D.body[i]
    BY <1>4, <2>1, Lengths DEF StepAt
  <2> QED
    BY <1>4, <2>1, <2>2, <2>3, Lengths DEF Places
<1>5. CASE i < TailAt(k) /\ k \notin {"retdec", "pyghidra", "r2"}
  <2>1. D.body = <<"start", "load", "list", "open_functions",
                   "fill_functions", "lift", "open_dump", "fill_dump">>
        /\ (k # "angr" => D.closing[1] = "close")
    <3>1. CASE k = "angr"
      BY <3>1 DEF Driver, AngrRun
    <3>2. CASE k = "ida"
      BY <3>2 DEF Driver, IdaRun
    <3>3. CASE k = "binja_hlil" \/ k = "binja_mlil" \/ k = "binja_llil"
      BY <3>3 DEF Driver, BinjaHlilRun, BinjaMlilRun, BinjaLlilRun
    <3> QED
      BY <1>5, <3>1, <3>2, <3>3, KindNames
  <2>2. i \in {1, 2, 3, 4, 5, 6, 7, 8} \/ (i = 9 /\ k # "angr")
    BY <1>5, Lengths
  <2>3. StepAt(k, i) = IF i = 9 THEN "close" ELSE D.body[i]
    BY <1>5, <2>1, <2>2, Lengths DEF StepAt
  <2> QED
    BY <1>5, <2>1, <2>2, <2>3, Lengths DEF Places
<1> QED
  BY <1>1, <1>2, <1>3, <1>4, <1>5, Lengths, KindNames

-----------------------------------------------------------------------------
(***************************************************************************)
(* Lists of functions and of records                                       *)
(***************************************************************************)
Verdicts == {"ok", "error", "skipped"}

LEMMA FoundIsList ==
    Found \in Seq(Range(Found)) /\ Len(Found) \in Nat
BY AttemptAssumption

LEMMA FunctionListsAre ==
    FunctionLists = {s \in Seq(Range(Found)) : Len(s) <= Len(Found)}
<1>1. ASSUME NEW s \in FunctionLists
      PROVE  s \in Seq(Range(Found)) /\ Len(s) <= Len(Found)
  <2>1. PICK n \in 0..Len(Found) : s \in [1..n -> Range(Found)]
    BY <1>1 DEF FunctionLists
  <2> QED
    BY <2>1, FoundIsList
<1>2. ASSUME NEW s \in Seq(Range(Found)), Len(s) <= Len(Found)
      PROVE  s \in FunctionLists
  <2>1. Len(s) \in 0..Len(Found) /\ s \in [1..Len(s) -> Range(Found)]
    BY <1>2, FoundIsList
  <2> QED
    BY <2>1 DEF FunctionLists
<1> QED
  BY <1>1, <1>2

LEMMA RecordListsAre ==
    RecordLists = {s \in Seq(Range(Found) \X Verdicts) : Len(s) <= Len(Found)}
<1> DEFINE R == Range(Found) \X Verdicts
<1>0. RecordLists = UNION {[1..n -> R] : n \in 0..Len(Found)}
  BY DEF RecordLists, Verdicts
<1> HIDE DEF R
<1>1. ASSUME NEW s \in RecordLists
      PROVE  s \in Seq(R) /\ Len(s) <= Len(Found)
  <2>1. PICK n \in 0..Len(Found) : s \in [1..n -> R]
    BY <1>0, <1>1
  <2> QED
    BY <2>1, FoundIsList
<1>2. ASSUME NEW s \in Seq(R), Len(s) <= Len(Found)
      PROVE  s \in RecordLists
  <2>1. Len(s) \in 0..Len(Found) /\ s \in [1..Len(s) -> R]
    BY <1>2, FoundIsList
  <2> QED
    BY <1>0, <2>1
<1> QED
  BY <1>1, <1>2 DEF R

LEMMA LimitedIsPrefix ==
    ASSUME NEW S, NEW s \in Seq(S), NEW n \in Nat
    PROVE  /\ Limited(s, n) \in Seq(S)
           /\ Len(Limited(s, n)) <= Len(s)
           /\ \A i \in 1..Len(Limited(s, n)) : Limited(s, n)[i] = s[i]
<1> DEFINE m == IF n < Len(s) THEN n ELSE Len(s)
<1>1. m \in 0..Len(s)
  OBVIOUS
<1>2. Limited(s, n) = SubSeq(s, 1, m)
  BY DEF Limited
<1> HIDE DEF m
<1> QED
  BY <1>1, <1>2

LEMMA EmptyLists == <<>> \in FunctionLists /\ <<>> \in RecordLists
<1>1. 0 <= Len(Found)
  BY FoundIsList
<1> QED
  BY <1>1, FunctionListsAre, RecordListsAre

LEMMA PrefixIsList ==
    ASSUME NEW n \in 0..Len(Found)
    PROVE  SubSeq(Found, 1, n) \in FunctionLists
<1>1. SubSeq(Found, 1, n) \in Seq(Range(Found)) /\ Len(SubSeq(Found, 1, n)) = n
  BY FoundIsList
<1> QED
  BY <1>1, FunctionListsAre

(* The functions recorded ok grow by the one that is recorded ok.          *)
LEMMA OkOfAppend ==
    ASSUME NEW S, NEW s \in Seq(S), NEW e \in S
    PROVE  /\ e[2] = "ok" => LiftedOk(Append(s, e)) = LiftedOk(s) \cup {e[1]}
           /\ e[2] # "ok" => LiftedOk(Append(s, e)) = LiftedOk(s)
<1>1. Range(Append(s, e)) = Range(s) \cup {e}
  <2>1. ASSUME NEW x \in Range(Append(s, e))
        PROVE  x \in Range(s) \cup {e}
    <3>1. PICK i \in 1..(Len(s) + 1) : x = Append(s, e)[i]
      BY <2>1 DEF Range
    <3> QED
      BY <3>1 DEF Range
  <2>2. ASSUME NEW x \in Range(s)
        PROVE  x \in Range(Append(s, e))
    <3>1. PICK i \in 1..Len(s) : x = s[i]
      BY <2>2 DEF Range
    <3>2. i \in DOMAIN Append(s, e) /\ x = Append(s, e)[i]
      BY <3>1
    <3> QED
      BY <3>2 DEF Range
  <2>3. e \in Range(Append(s, e))
    <3>1. Len(s) + 1 \in DOMAIN Append(s, e) /\ e = Append(s, e)[Len(s) + 1]
      OBVIOUS
    <3> QED
      BY <3>1 DEF Range
  <2> QED
    BY <2>1, <2>2, <2>3
<1>2. CASE e[2] = "ok"
  BY <1>1, <1>2, Zenon DEF LiftedOk
<1>3. CASE e[2] # "ok"
  BY <1>1, <1>3, Zenon DEF LiftedOk
<1> QED
  BY <1>2, <1>3

LEMMA OkOfNone == LiftedOk(<<>>) = {}
<1>1. Range(<<>>) = {}
  BY DEF Range
<1> QED
  BY <1>1 DEF LiftedOk

LEMMA OkAreFound ==
    ASSUME NEW s \in RecordLists
    PROVE  LiftedOk(s) \subseteq Range(Found)
<1> SUFFICES ASSUME NEW x \in LiftedOk(s)
             PROVE  x \in Range(Found)
  OBVIOUS
<1>1. PICK q \in Range(s) : x = q[1]
  BY DEF LiftedOk
<1>2. PICK i \in 1..Len(s) : q = s[i]
  BY <1>1, RecordListsAre DEF Range
<1>3. s[i] \in Range(Found) \X Verdicts
  BY <1>2, RecordListsAre
<1> QED
  BY <1>1, <1>2, <1>3

-----------------------------------------------------------------------------
(***************************************************************************)
(* The invariant.  What an ok record says is said when the attempt is over *)
(* and the memory of the driver gone; before that it is said of every step *)
(* of the run, of the memory (MemoryInv), of the lists and what is left of *)
(* earlier attempts (ListingInv), of the tools (ToolInv) and of each file  *)
(* (FileInv, DumpInv).  Sound is a run that has not raised: of one that    *)
(* has, only the summary and the records still mean something.             *)
(***************************************************************************)
Running == child = "running"
Sound == Running /\ ~ driver.fatal
Earlier == 1..(attempt - 1)

(* Where f has been filled.                                                *)
FilledAt(k, f) ==
    IF f = "functions" THEN ListAt(k) + 2
    ELSE IF f = "dump" THEN ListAt(k) + 5
    ELSE IF f = "summary" THEN TailAt(k) + 1
    ELSE TailAt(k) + 3

RecordsPrefix ==
    /\ Len(driver.lifted) <= Len(Targets)
    /\ \A i \in 1..Len(driver.lifted) : driver.lifted[i][1] = Targets[i]

WhereInv ==
    /\ worker # "idle" \/ Running => attempt \in Attempts
    /\ worker = "starting" => driver = NotRunning

MemoryInv ==
    /\ Running =>
         /\ driver.lifted # <<>> => driver.at >= LiftAt(kind)
         /\ RecordsPrefix
         /\ kind = "retdec" => LiftedOk(driver.lifted) \subseteq driver.defined
    /\ Sound /\ driver.at > LiftAt(kind) => Len(driver.lifted) = Len(Targets)

ShortReason ==
    \/ kind = "pyghidra" /\ savedBy \in Earlier
    \/ kind = "retdec" /\ attempt > 1

ListingInv ==
    /\ savedBy <= attempt
    /\ worker = "starting" \/ (Running /\ driver.at <= 4) => savedBy < attempt
    /\ Sound /\ kind = "pyghidra" /\ driver.at > 5 =>
         driver.analyzed \/ savedBy \in Earlier
    /\ Sound /\ kind = "retdec" /\ driver.at > 4 =>
         outputs.whole \/ outputs.by \in Earlier
    /\ Sound /\ driver.at > ListAt(kind) /\ driver.listed # Found => ShortReason

ToolInv ==
    /\ \A a \in Attempts :
         helper[a] # "none" => a <= attempt /\ kind \in {"r2", "retdec"}
    /\ worker = "starting" => helper[attempt] = "none"
    /\ Sound /\ helper[attempt] # "none" =>
         IF kind = "r2" THEN 2 < driver.at /\ driver.at <= ClosingAt(kind)
                        ELSE driver.at = 4
    /\ attempt \in Attempts /\ kind = "retdec" /\ helper[attempt] = "wrote" =>
         outputs.whole \/ outputs.by \in Earlier

FileInv(f) ==
    /\ disk[f].by <= attempt
    /\ worker = "starting" \/ (Running /\ driver.at < FilledAt(kind, f)) =>
         disk[f].by < attempt
    /\ Running /\ driver.at = FilledAt(kind, f) => ~ disk[f].whole
    /\ /\ driver.at > FilledAt(kind, f)
       /\ IF f \in {"functions", "dump"} THEN Sound ELSE Running
       => /\ disk[f].by = attempt /\ disk[f].data = Contents[f]
          /\ f # "dump" => disk[f].whole

DumpInv ==
    Sound /\ driver.at > FilledAt(kind, "dump") =>
        disk.dump.whole \/ (kind = "retdec" /\ outputs.by < attempt)

(* What the files, the tool and the lists are once the driver has returned *)
(* its 0, whatever is still to come in run_one.                            *)
AllIsWell ==
    /\ \A f \in Files : disk[f].by = attempt
    /\ \A f \in Files \ {"dump"} : disk[f].whole
    /\ disk.summary.data = FALSE
    /\ RecordsCover(disk.records.data, Limited(disk.functions.data, limit))
    /\ LET ok == LiftedOk(disk.records.data)
       IN  IF kind = "retdec" THEN ok \subseteq disk.dump.data ELSE ok = disk.dump.data
    /\ disk.dump.whole \/ (kind = "retdec" /\ outputs.by < attempt)
    /\ helper[attempt] = "none"
    /\ disk.functions.data # Found => ShortReason

ReturnInv ==
    /\ code = "zero" =>
         /\ AllIsWell
         /\ worker # "idle" => driver.at = ReturnAt(kind) /\ ~ driver.fatal
    /\ EndedOk => seen = [by |-> attempt, fatal |-> FALSE]

AttemptInv ==
    /\ AttemptTypeOK /\ ReapInv /\ WhereInv
    /\ MemoryInv /\ ListingInv /\ ToolInv
    /\ \A f \in Files : FileInv(f)
    /\ DumpInv /\ ReturnInv

-----------------------------------------------------------------------------
(***************************************************************************)
(* Types                                                                   *)
(***************************************************************************)
DriverType(k) ==
    [at : 1..ReturnAt(k), fatal : BOOLEAN, listed : FunctionLists,
     lifted : RecordLists, defined : SUBSET Range(Found), analyzed : BOOLEAN]

DiskType ==
    /\ DOMAIN disk = Files
    /\ \A f \in Files : disk[f].by \in 0..MaxAttempts /\ disk[f].whole \in BOOLEAN
    /\ disk["functions"].data \in FunctionLists
    /\ disk["dump"].data \in SUBSET Range(Found)
    /\ disk["summary"].data \in BOOLEAN
    /\ disk["records"].data \in RecordLists

Typed ==
    /\ ReapTypeOK
    /\ kind \in Backends /\ limit \in Limits \cup {Len(Found)}
    /\ driver \in DriverType(kind)
    /\ helper \in [Attempts -> {"none", "working", "writing", "wrote"}]
    /\ outputs \in Record /\ savedBy \in 0..MaxAttempts
    /\ seen \in [by : 0..MaxAttempts, fatal : BOOLEAN]
    /\ DiskType

LEMMA TypeParts == AttemptTypeOK <=> Typed
<1>1. ASSUME NEW f \in Files
      PROVE  [by |-> disk[f].by, whole |-> disk[f].whole] \in Record
             <=> disk[f].by \in 0..MaxAttempts /\ disk[f].whole \in BOOLEAN
  BY DEF Record
<1> QED
  BY <1>1, Zenon DEF AttemptTypeOK, Typed, DriverType, DiskType

LEMMA FileNames == Files = {"functions", "dump", "summary", "records"}
BY DEF Files, Opening

LEMMA Here ==
    ASSUME AttemptTypeOK
    PROVE  /\ kind \in Kinds /\ limit \in Nat
           /\ driver.at \in 1..ReturnAt(kind)
           /\ Places(kind, driver.at)
<1>1. kind \in Kinds /\ limit \in Nat
  BY AttemptAssumption, FoundIsList DEF AttemptTypeOK
<1>2. driver.at \in 1..ReturnAt(kind)
  BY TypeParts DEF Typed, DriverType
<1> QED
  BY <1>1, <1>2, StepsStand

(* The places as numbers, for arithmetic.                                  *)
LEMMA Numbers ==
    ASSUME NEW k \in Kinds
    PROVE  /\ ListAt(k) \in 3..6 /\ LiftAt(k) \in 6..11
           /\ ClosingAt(k) \in 9..12 /\ TailAt(k) \in 9..13
           /\ ReturnAt(k) = TailAt(k) + 4
           /\ ListAt(k) < LiftAt(k) /\ LiftAt(k) < ClosingAt(k)
           /\ ListAt(k) + 5 < ClosingAt(k) /\ ClosingAt(k) <= TailAt(k)
           /\ k # "retdec" => LiftAt(k) = ListAt(k) + 3
BY Lengths, KindNames

LEMMA TargetsAre ==
    ASSUME AttemptTypeOK
    PROVE  /\ Targets \in Seq(Range(Found))
           /\ Len(Targets) <= Len(driver.listed) /\ Len(Targets) <= Len(Found)
           /\ Len(Targets) \in Nat
           /\ \A i \in 1..Len(Targets) : Targets[i] = driver.listed[i]
<1>1. driver.listed \in Seq(Range(Found)) /\ Len(driver.listed) <= Len(Found)
  BY TypeParts, FunctionListsAre DEF Typed, DriverType
<1> QED
  BY <1>1, Here, LimitedIsPrefix, FoundIsList DEF Targets

LEMMA ContentsHaveTypes ==
    ASSUME AttemptTypeOK
    PROVE  /\ Contents["functions"] \in FunctionLists
           /\ Contents["dump"] \in SUBSET Range(Found)
           /\ Contents["summary"] \in BOOLEAN
           /\ Contents["records"] \in RecordLists
<1>1. driver \in DriverType(kind)
  BY TypeParts DEF Typed
<1>2. LiftedOk(driver.lifted) \subseteq Range(Found)
  BY <1>1, OkAreFound DEF DriverType
<1> QED
  BY <1>1, <1>2 DEF DriverType, Contents

LEMMA DiskTypeKept ==
    ASSUME AttemptTypeOK, NEW f \in Files, NEW r,
           r.by \in 0..MaxAttempts, r.whole \in BOOLEAN,
           r.data = Contents[f] \/ r.data = Empty[f],
           disk' = [disk EXCEPT ![f] = r]
    PROVE  DiskType'
<1>1. DiskType
  BY TypeParts DEF Typed
<1>2. /\ f = "functions" => r.data \in FunctionLists
      /\ f = "dump" => r.data \in SUBSET Range(Found)
      /\ f = "summary" => r.data \in BOOLEAN
      /\ f = "records" => r.data \in RecordLists
  <2>1. /\ Empty["functions"] = <<>> /\ Empty["dump"] = {}
        /\ Empty["summary"] = FALSE /\ Empty["records"] = <<>>
    BY DEF Empty
  <2>2. CASE r.data = Contents[f]
    BY <2>2, ContentsHaveTypes
  <2>3. CASE r.data = Empty[f]
    BY <2>1, <2>3, EmptyLists
  <2> QED
    BY <2>2, <2>3
<1>3. \A g \in Files : disk'[g] = IF g = f THEN r ELSE disk[g]
  BY <1>1 DEF DiskType
<1>4. DOMAIN disk' = Files
  BY <1>1 DEF DiskType
<1> QED
  BY <1>1, <1>2, <1>3, <1>4, FileNames DEF DiskType

(* Any further step but the last leaves driver in its type.                *)
LEMMA GoesOn ==
    ASSUME AttemptTypeOK, StepAt(kind, driver.at) # "return"
    PROVE  driver.at + 1 \in 1..ReturnAt(kind)
BY Here, Numbers DEF Places

LEMMA MemoryGoneTyped ==
    ASSUME AttemptTypeOK, MemoryGone
    PROVE  driver' \in DriverType(kind)
<1>1. driver \in DriverType(kind) /\ 1 \in 1..ReturnAt(kind)
  BY TypeParts, Here, Numbers DEF Typed
<1> QED
  BY <1>1, EmptyLists DEF MemoryGone, NotRunning, DriverType

LEMMA NotRunningTyped == ASSUME AttemptTypeOK PROVE NotRunning \in DriverType(kind)
<1>1. 1 \in 1..ReturnAt(kind)
  BY Here, Numbers
<1> QED
  BY <1>1, EmptyLists DEF NotRunning, DriverType

LEMMA DriverTyped ==
    ASSUME AttemptTypeOK, DriverStep
    PROVE  driver' \in DriverType(kind)
<1>0. driver \in DriverType(kind) /\ Places(kind, driver.at) /\ kind \in Kinds
  BY TypeParts, Here DEF Typed
<1>1. ASSUME NEW s, Does(s), s # "return", Goes
      PROVE  driver' \in DriverType(kind)
  <2>1. driver.at + 1 \in 1..ReturnAt(kind)
    BY <1>1, GoesOn DEF Does, Step
  <2> QED
    BY <1>0, <1>1, <2>1 DEF Goes, DriverType
<1>2. CASE Passes
  BY <1>1, <1>2 DEF Passes
<1>3. CASE Import
  <2>1. kind = "pyghidra" /\ driver.at = 3
    BY <1>0, <1>3 DEF Import, Does, Step, Places
  <2>2. driver.at + 1 \in 1..ReturnAt(kind) /\ driver.at + 3 \in 1..ReturnAt(kind)
    BY <1>0, <2>1, Lengths
  <2> QED
    BY <1>0, <1>3, <2>2 DEF Import, DriverType
<1>4. CASE Save
  BY <1>1, <1>4 DEF Save
<1>5. CASE Analyze
  <2>1. driver.at + 1 \in 1..ReturnAt(kind)
    BY <1>5, GoesOn DEF Analyze, Does, Step
  <2> QED
    BY <1>0, <1>5, <2>1 DEF Analyze, DriverType
<1>6. CASE List
  <2>1. driver.at + 1 \in 1..ReturnAt(kind)
    BY <1>6, GoesOn DEF List, Does, Step
  <2>2. PICK fs \in Listings :
           driver' = [driver EXCEPT !.at = @ + 1, !.listed = fs]
    BY <1>6 DEF List
  <2>3. fs \in FunctionLists
    <3>1. Symbols \in FunctionLists /\ Found \in FunctionLists
      BY AttemptAssumption, FoundIsList, FunctionListsAre
    <3> QED
      BY <2>2, <3>1, PrefixIsList DEF Listings
  <2> QED
    BY <1>0, <2>1, <2>2, <2>3 DEF DriverType
<1>7. CASE Split
  <2>1. driver.at + 1 \in 1..ReturnAt(kind)
    BY <1>7, GoesOn DEF Split, Does, Step
  <2> QED
    BY <1>0, <1>7, <2>1 DEF Split, DriverType
<1>8. CASE Lift
  <2> DEFINE n == Len(driver.lifted) + 1
  <2>1. CASE n > Len(Targets)
    BY <1>1, <1>8, <2>1 DEF Lift
  <2>2. CASE ~ (n > Len(Targets))
    <3>1. PICK r \in Results(Targets[n]) :
             driver' = [driver EXCEPT !.lifted = Append(@, <<Targets[n], r>>)]
      BY <1>8, <2>2 DEF Lift
    <3>2. r \in Verdicts
      BY <3>1 DEF Results, Verdicts
    <3>3. driver.lifted \in Seq(Range(Found) \X Verdicts) /\ n \in 1..Len(Targets)
      BY <1>0, <2>2, RecordListsAre, TargetsAre DEF DriverType
    <3>4. <<Targets[n], r>> \in Range(Found) \X Verdicts
      BY <3>2, <3>3, TargetsAre
    <3> DEFINE R == Range(Found) \X Verdicts
               e == <<Targets[n], r>>
    <3>5. Append(driver.lifted, e) \in Seq(R) /\ Len(Append(driver.lifted, e)) = n
      <4> HIDE DEF R, e
      <4> QED
        BY <3>3, <3>4 DEF R, e
    <3>6. Append(driver.lifted, e) \in RecordLists
      BY <3>3, <3>5, TargetsAre, RecordListsAre, FoundIsList
    <3> HIDE DEF e
    <3> QED
      BY <1>0, <3>1, <3>6 DEF DriverType, e
  <2> QED
    BY <2>1, <2>2
<1>9. ASSUME NEW f \in Files, OpenFile(f) \/ FillFile(f)
      PROVE  driver' \in DriverType(kind)
  <2>1. Opening[f] # "return" /\ Filling[f] # "return"
    BY FileNames DEF Opening, Filling
  <2> QED
    BY <1>1, <1>9, <2>1 DEF OpenFile, FillFile
<1>10. CASE UseTool
  BY <1>1, <1>10 DEF UseTool
<1>11. CASE Raises
  <2>1. ClosingAt(kind) \in 1..ReturnAt(kind) /\ TailAt(kind) \in 1..ReturnAt(kind)
    BY <1>0, Numbers
  <2> QED
    BY <1>0, <1>11, <2>1 DEF Raises, DriverType
<1> QED
  BY <1>2, <1>3, <1>4, <1>5, <1>6, <1>7, <1>8, <1>9, <1>10, <1>11 DEF DriverStep

LEMMA DiskTyped ==
    ASSUME AttemptTypeOK, DriverStep
    PROVE  DiskType'
<1>1. DiskType /\ ReapTypeOK /\ outputs \in Record
  BY TypeParts DEF Typed
<1>2. CASE UNCHANGED disk
  BY <1>1, <1>2 DEF DiskType
<1>3. ASSUME NEW f \in Files, OpenFile(f)
      PROVE  DiskType'
  <2> DEFINE r == [by |-> attempt, whole |-> FALSE, data |-> Empty[f]]
  <2>1. r.by \in 0..MaxAttempts /\ r.whole \in BOOLEAN /\ r.data = Empty[f]
    BY <1>1 DEF ReapTypeOK
  <2>2. disk' = [disk EXCEPT ![f] = r]
    BY <1>3 DEF OpenFile
  <2> HIDE DEF r
  <2> QED
    BY <2>1, <2>2, DiskTypeKept
<1>4. ASSUME NEW f \in Files, FillFile(f)
      PROVE  DiskType'
  <2> DEFINE w == (kind = "retdec" /\ f = "dump") => outputs.whole
             r == [by |-> attempt, data |-> Contents[f], whole |-> w]
  <2>0. w \in BOOLEAN
    OBVIOUS
  <2> HIDE DEF w
  <2>1. r.by \in 0..MaxAttempts /\ r.whole \in BOOLEAN /\ r.data = Contents[f]
    BY <1>1, <2>0 DEF ReapTypeOK
  <2>2. disk' = [disk EXCEPT ![f] = r]
    BY <1>4 DEF FillFile, w
  <2> HIDE DEF r
  <2> QED
    BY <2>1, <2>2, DiskTypeKept
<1> QED
  BY <1>2, <1>3, <1>4
  DEF DriverStep, Passes, Import, Save, Analyze, List, Split, Lift, UseTool,
      Raises, dirVars

(* Everything an attempt keeps stays of its type.                          *)
LEMMA TypeStep ==
    ASSUME AttemptTypeOK, ReapTypeOK', [Next]_vars
    PROVE  AttemptTypeOK'
<1> DEFINE Helpers == [Attempts -> {"none", "working", "writing", "wrote"}]
           SeenType == [by : 0..MaxAttempts, fatal : BOOLEAN]
           Rest == /\ kind' = kind /\ limit' = limit
                   /\ driver' \in DriverType(kind)
                   /\ helper' \in Helpers
                   /\ outputs' \in Record /\ savedBy' \in 0..MaxAttempts
                   /\ seen' \in SeenType
                   /\ DiskType'
<1>1. /\ driver \in DriverType(kind) /\ helper \in Helpers /\ outputs \in Record
      /\ savedBy \in 0..MaxAttempts /\ seen \in SeenType /\ DiskType
      /\ kind \in Backends /\ limit \in Limits \cup {Len(Found)}
      /\ attempt \in 0..MaxAttempts /\ ReapTypeOK
  BY TypeParts DEF Typed, ReapTypeOK
<1>2. ASSUME UNCHANGED disk
      PROVE  DiskType'
  BY <1>1, <1>2 DEF DiskType
<1>3. SUFFICES Rest
  <2>1. DriverType(kind)' = DriverType(kind')
    BY DEF DriverType
  <2>2. Typed' => AttemptTypeOK'
    BY TypeParts, PTL
  <2> QED
    BY <1>1, <2>1, <2>2 DEF Typed
<1>4. CASE DriverStep
  <2>1. helper' \in Helpers
    BY <1>1, <1>4 DEF DriverStep, Passes, Import, Save, Analyze, List, Split, Lift,
                      OpenFile, FillFile, UseTool, Raises
  <2>2. outputs' = outputs /\ savedBy' \in 0..MaxAttempts
    BY <1>1, <1>4 DEF DriverStep, Passes, Import, Save, Analyze, List, Split, Lift,
                      OpenFile, FillFile, UseTool, Raises, dirVars
  <2>3. kind' = kind /\ limit' = limit /\ seen' = seen
    BY <1>4 DEF DriverStep, Passes, Import, Save, Analyze, List, Split, Lift,
                OpenFile, FillFile, UseTool, Raises, Does, given
  <2> QED
    BY <1>1, <1>4, <2>1, <2>2, <2>3, DriverTyped, DiskTyped
<1>5. CASE Ends
  BY <1>1, <1>2, <1>5, MemoryGoneTyped DEF Ends, given, dirVars
<1>6. ASSUME NEW a \in Attempts, ToolWrites(a)
      PROVE  Rest
  <2>1. outputs' \in Record
    <3>1. a \in 0..MaxAttempts /\ (helper[a] = "writing") \in BOOLEAN
      BY <1>6, ReapingAssumption DEF Attempts
    <3> QED
      BY <1>6, <3>1 DEF ToolWrites, Record
  <2>2. helper' \in Helpers
    BY <1>1, <1>6 DEF ToolWrites
  <2> QED
    BY <1>1, <1>2, <1>6, <2>1, <2>2 DEF ToolWrites, given
<1>7. ASSUME NEW a \in Attempts, OrphanEnds(a)
      PROVE  Rest
  <2>1. helper' \in Helpers
    BY <1>1, <1>7 DEF OrphanEnds
  <2> QED
    BY <1>1, <1>2, <1>7, <2>1 DEF OrphanEnds, given, dirVars
<1>8. CASE UNCHANGED vars
  BY <1>1, <1>2, <1>8 DEF vars, given, dirVars
<1>9. CASE RunOne
  <2>1. /\ UNCHANGED <<given, helper, dirVars>>
        /\ driver' = driver \/ driver' = NotRunning \/ MemoryGone
        /\ \/ seen' = seen \/ seen' = NothingSeen
           \/ disk.summary.whole
              /\ seen' = [by |-> disk.summary.by, fatal |-> disk.summary.data]
    BY <1>9 DEF RunOne
  <2>2. driver' \in DriverType(kind)
    BY <1>1, <2>1, MemoryGoneTyped, NotRunningTyped
  <2>3. seen' \in SeenType
    <3>1. disk.summary.by \in 0..MaxAttempts /\ disk.summary.data \in BOOLEAN
      BY <1>1, FileNames DEF DiskType
    <3>2. 0 \in 0..MaxAttempts
      BY ReapingAssumption
    <3>3. [by |-> disk.summary.by, fatal |-> disk.summary.data] \in SeenType
          /\ NothingSeen \in SeenType
      BY <3>1, <3>2 DEF NothingSeen
    <3> QED
      BY <1>1, <2>1, <3>3
  <2> QED
    BY <1>1, <1>2, <2>1, <2>2, <2>3 DEF given, dirVars
<1> QED
  BY <1>4, <1>5, <1>6, <1>7, <1>8, <1>9 DEF Next

LEMMA TypeStart == Init => AttemptTypeOK
<1> SUFFICES ASSUME Init
             PROVE  AttemptTypeOK
  OBVIOUS
<1>0. 0 \in 0..MaxAttempts
  BY ReapingAssumption
<1>1. ReapTypeOK
  BY <1>0 DEF Init, ReapInit, ReapTypeOK
<1>2. kind \in Kinds
  BY AttemptAssumption DEF Init
<1>3. driver \in DriverType(kind)
  <2>1. 1 \in 1..ReturnAt(kind)
    BY <1>2, Numbers
  <2> QED
    BY <2>1, EmptyLists DEF Init, NotRunning, DriverType
<1>4. DiskType
  <2>1. /\ Empty["functions"] = <<>> /\ Empty["dump"] = {}
        /\ Empty["summary"] = FALSE /\ Empty["records"] = <<>>
    BY DEF Empty
  <2> QED
    BY <1>0, <2>1, EmptyLists, FileNames DEF Init, DiskType
<1> QED
  BY <1>0, <1>1, <1>3, <1>4, TypeParts DEF Typed, Init, NothingSeen, Record

(* Everything an attempt keeps, in memory, in the directory and in the     *)
(* record, is of its type, for any backends, functions and attempts.       *)
THEOREM AttemptTypeCorrect == Spec => []AttemptTypeOK
<1>1. ReapInv => ReapTypeOK
  BY DEF ReapInv
<1>2. AttemptTypeOK /\ ReapTypeOK' /\ [Next]_vars => AttemptTypeOK'
  BY TypeStep
<1> QED
  BY <1>1, <1>2, TypeStart, ImplementsReaping, ReapInvHolds, PTL DEF Spec

-----------------------------------------------------------------------------
(***************************************************************************)
(* What a step can be, for the invariant                                   *)
(***************************************************************************)
(* run_one and the reaper, while the driver runs on or is not running.     *)
Waits ==
    /\ UNCHANGED <<attempt, code, given, driver, helper, dirVars>>
    /\ worker' = "starting" => worker = "starting"
    /\ worker' # "idle" => worker # "idle"
    /\ child' = "running" => child = "running" \/ worker = "starting"
    /\ worker = "idle" => worker' = "idle" /\ status' = status
    /\ worker' = "idle" => (child' = "running" <=> child = "running")
    /\ worker # "idle" /\ worker' = "idle" /\ status' = "raised" =>
         worker = "starting"
    /\ worker' = "idle" /\ status' = "ok" =>
         /\ status = "ok"
         /\ \/ worker = "idle" /\ seen' = seen
            \/ disk.summary.whole
               /\ seen' = [by |-> disk.summary.by, fatal |-> disk.summary.data]
            \/ ~ disk.summary.whole

(* The end of the driver, by itself or by a signal.                        *)
Stops ==
    /\ child = "running" /\ child' = "zombie"
    /\ worker' # "starting" /\ (worker' = "idle" <=> worker = "idle")
    /\ worker = "idle" => status' = status
    /\ code' = "zero" => Step = "return" /\ ~ driver.fatal
    /\ MemoryGone
    /\ UNCHANGED <<attempt, given, helper, dirVars>>

Restarts ==
    /\ Begin
    /\ driver' = NotRunning /\ seen' = NothingSeen
    /\ UNCHANGED <<given, helper, dirVars>>

Tools == \E a \in Attempts : ToolWrites(a) \/ OrphanEnds(a)

LEMMA RunningIs ==
    ASSUME ReapInv
    PROVE  /\ Running => worker # "starting" /\ code = "none" /\ status # "ok"
           /\ Running /\ worker \in {"idle", "reading"} => status = "crashed"
           /\ worker = "starting" => child = "none" /\ code = "none"
           /\ status = "ok" => code = "zero"
BY DEF ReapInv, ReapTypeOK, OneStatus, WorkerKnows, RecordTrue, Running, Busy,
       Unattended

LEMMA StepKinds ==
    ASSUME ReapInv, [Next]_vars
    PROVE  Waits \/ Stops \/ Restarts \/ DriverStep \/ Tools
<1>1. CASE UNCHANGED vars
  BY <1>1 DEF vars, reapVars, Waits, given, dirVars
<1>2. CASE Ends
  <2>1. PICK c \in EndCodes \cup {"signal"} : ChildEnds(c)
    BY <1>2 DEF Ends
  <2>2. c = "zero" => Step = "return" /\ ~ driver.fatal
    BY DEF EndCodes
  <2> QED
    BY <1>2, <2>1, <2>2, RunningIs DEF Ends, ChildEnds, Stops, Running
<1>3. CASE RunOne
  <2>1. CASE KillSignals /\ child = "running"
    BY <1>3, <2>1, RunningIs DEF RunOne, KillSignals, Stops, Running, Begin,
       ReadSummary, NotStarted, Popen, StartReaper, ReaperNotStarted, Join,
       KillPolls, Rejoin, Collect, Unlink, Wait4, ReaperEnds
  <2>2. CASE NotStarted \/ Popen \/ StartReaper \/ ReaperNotStarted \/ Join
             \/ KillPolls \/ Rejoin \/ Collect \/ Unlink \/ Wait4 \/ ReaperEnds
             \/ (KillSignals /\ child # "running")
    BY <1>3, <2>2 DEF RunOne, KillSignals, Waits, Begin, ReadSummary, NotStarted,
       Popen, StartReaper, ReaperNotStarted, Join, KillPolls, Rejoin, Collect,
       Unlink, Wait4, ReaperEnds
  <2>3. CASE ReadSummary
    <3>1. status # "raised"
      BY <2>3 DEF ReadSummary, ReapInv, WorkerKnows
    <3> QED
      BY <1>3, <2>3, <3>1 DEF RunOne, KillSignals, Waits, Begin, ReadSummary,
         NotStarted, Popen, StartReaper, ReaperNotStarted, Join, KillPolls, Rejoin,
         Collect, Unlink, Wait4, ReaperEnds
  <2> QED
    BY <1>3, <2>1, <2>2, <2>3 DEF RunOne, Restarts
<1> QED
  BY <1>1, <1>2, <1>3 DEF Next, Tools

(* A step of the driver that makes no list, no record and no exception.    *)
Moves ==
    /\ \/ driver'.at = driver.at + 1
       \/ kind = "pyghidra" /\ driver.at = 3 /\ driver'.at = 6 /\ savedBy # 0
    /\ driver.at # LiftAt(kind) /\ driver.at # ListAt(kind)
    /\ driver'.fatal = driver.fatal /\ driver'.listed = driver.listed
    /\ driver'.lifted = driver.lifted /\ driver'.defined = driver.defined
    /\ driver.analyzed => driver'.analyzed

Plain == Passes \/ Import \/ Save \/ Analyze \/ UseTool
Writes == \E f \in Files : OpenFile(f) \/ FillFile(f)

LEMMA DriverAlone ==
    ASSUME DriverStep
    PROVE  Running /\ UNCHANGED <<attempt, worker, child, code, status, given, seen, outputs>>
BY DEF DriverStep, Passes, Import, Save, Analyze, List, Split, Lift, OpenFile,
       FillFile, UseTool, Raises, Does, Running, reapVars, dirVars

LEMMA PlainMoves ==
    ASSUME AttemptTypeOK, Plain \/ Writes
    PROVE  Moves
<1>0. driver \in DriverType(kind) /\ Places(kind, driver.at) /\ kind \in Kinds
      /\ savedBy \in 0..MaxAttempts
  BY TypeParts, Here DEF Typed
<1>1. ASSUME NEW s, Does(s), Goes, s # "lift", s # "list"
      PROVE  Moves
  BY <1>0, <1>1 DEF Does, Goes, Step, Moves, DriverType, Places
<1>2. CASE Passes
  BY <1>1, <1>2 DEF Passes
<1>3. CASE Import
  <2>1. kind = "pyghidra" /\ driver.at = 3
    BY <1>0, <1>3 DEF Import, Does, Step, Places
  <2>2. driver.at # LiftAt(kind) /\ driver.at # ListAt(kind)
    BY <1>0, <2>1, Lengths
  <2> QED
    BY <1>0, <1>3, <2>1, <2>2 DEF Import, Moves, DriverType
<1>4. CASE Save
  BY <1>1, <1>4 DEF Save
<1>5. CASE Analyze
  BY <1>0, <1>5 DEF Analyze, Does, Step, Moves, DriverType, Places
<1>6. CASE UseTool
  BY <1>1, <1>6 DEF UseTool
<1>7. ASSUME NEW f \in Files, OpenFile(f) \/ FillFile(f)
      PROVE  Moves
  <2>1. Opening[f] \notin {"lift", "list"} /\ Filling[f] \notin {"lift", "list"}
    BY FileNames DEF Opening, Filling
  <2> QED
    BY <1>1, <1>7, <2>1 DEF OpenFile, FillFile
<1> QED
  BY <1>2, <1>3, <1>4, <1>5, <1>6, <1>7 DEF Plain, Writes

LEMMA DriverKinds ==
    ASSUME DriverStep
    PROVE  Plain \/ Writes \/ List \/ Split \/ Lift \/ Raises
BY DEF DriverStep, Plain, Writes

(* Raises as the invariant sees it.                                        *)
LEMMA RaisesGoes ==
    ASSUME AttemptTypeOK, Raises
    PROVE  /\ driver'.fatal = TRUE /\ driver.at < TailAt(kind)
           /\ driver'.at \in ClosingAt(kind)..TailAt(kind)
           /\ driver'.listed = driver.listed /\ driver'.lifted = driver.lifted
           /\ driver'.defined = driver.defined
           /\ UNCHANGED <<savedBy, disk>>
<1>0. driver \in DriverType(kind) /\ kind \in Kinds /\ driver.at \in Nat
  BY TypeParts, Here, Numbers DEF Typed
<1> QED
  BY <1>0, Numbers DEF Raises, InTry, Closing, DriverType, dirVars

-----------------------------------------------------------------------------
(***************************************************************************)
(* Each part of the invariant is kept                                      *)
(***************************************************************************)
(* What a record of a started, a stopped or a typed driver says by itself. *)
LEMMA FreshDriver ==
    /\ NotRunning.at = 1 /\ NotRunning.fatal = FALSE
    /\ NotRunning.listed = <<>> /\ NotRunning.lifted = <<>>
    /\ NotRunning.defined = {} /\ NotRunning.analyzed = FALSE
BY DEF NotRunning

LEMMA WhereKept ==
    ASSUME AttemptInv, [Next]_vars
    PROVE  WhereInv'
<1>0. WhereInv /\ ReapInv /\ AttemptTypeOK
  BY DEF AttemptInv
<1>1. CASE Waits
  BY <1>0, <1>1 DEF Waits, WhereInv, Running, Attempts
<1>2. CASE Stops
  BY <1>0, <1>2, RunningIs DEF Stops, WhereInv, Running, Attempts
<1>3. CASE Restarts
  BY <1>0, <1>3, ReapingAssumption
  DEF Restarts, Begin, WhereInv, Running, Attempts, AttemptTypeOK, ReapTypeOK
<1>4. CASE DriverStep
  BY <1>0, <1>4, DriverAlone, RunningIs DEF WhereInv, Running, Attempts
<1>5. CASE Tools
  BY <1>0, <1>5 DEF Tools, ToolWrites, OrphanEnds, WhereInv, Running, reapVars, Attempts
<1> QED
  BY <1>0, <1>1, <1>2, <1>3, <1>4, <1>5, StepKinds

LEMMA TargetsKept ==
    ASSUME limit' = limit, driver'.listed = driver.listed
    PROVE  Targets' = Targets
BY DEF Targets, Limited

LEMMA TargetsCount == AttemptTypeOK => Len(Targets) \in Nat
BY TargetsAre

LEMMA MemoryKept ==
    ASSUME AttemptInv, AttemptTypeOK', [Next]_vars
    PROVE  MemoryInv'
<1>0. /\ WhereInv /\ ReapInv /\ AttemptTypeOK /\ MemoryInv
      /\ driver \in DriverType(kind) /\ kind \in Kinds /\ Places(kind, driver.at)
  BY TypeParts, Here DEF AttemptInv, Typed
<1>n. /\ driver.at \in Nat /\ ListAt(kind) \in Nat /\ LiftAt(kind) \in Nat
      /\ ListAt(kind) < LiftAt(kind) /\ LiftAt(kind) < ClosingAt(kind)
      /\ ClosingAt(kind) \in Nat /\ TailAt(kind) \in Nat
  BY <1>0, Here, Numbers
<1> USE DEF MemoryInv, RecordsPrefix, Running, Sound
<1>1. CASE Waits
  <2>1. kind' = kind /\ limit' = limit /\ driver' = driver
    BY <1>1 DEF Waits, given
  <2>2. Targets' = Targets
    BY <2>1, TargetsKept
  <2>3. CASE child = "running"
    BY <1>0, <1>1, <2>1, <2>2, <2>3
  <2>4. CASE worker = "starting"
    <3>1. driver.lifted = <<>> /\ driver.at = 1
      BY <1>0, <2>4, FreshDriver DEF WhereInv
    <3>2. LiftedOk(driver.lifted) = {}
      BY <3>1, OkOfNone
    <3>3. Len(driver.lifted) = 0 /\ Len(Targets) >= 0
      BY <1>0, <3>1, TargetsAre
    <3> QED
      BY <1>0, <1>n, Numbers, <2>1, <2>2, <3>1, <3>2, <3>3
  <2> QED
    BY <1>1, <2>3, <2>4 DEF Waits
<1>2. CASE Stops
  BY <1>2 DEF Stops
<1>3. CASE Restarts
  BY <1>3 DEF Restarts, Begin
<1>4. CASE DriverStep
  <2>0. kind' = kind /\ limit' = limit /\ child = "running"
    BY <1>4, DriverAlone DEF given
  <2>1. CASE Plain \/ Writes
    <3>1. Moves
      BY <1>0, <2>1, PlainMoves
    <3>2. Targets' = Targets
      BY <2>0, <3>1, TargetsKept DEF Moves
    <3>3. driver'.at > driver.at
          /\ driver'.at \in Nat
          /\ (driver.at < LiftAt(kind) => driver'.at <= LiftAt(kind))
      BY <1>0, <1>n, <3>1, Lengths DEF Moves
    <3> QED
      BY <1>0, <1>n, <2>0, <3>1, <3>2, <3>3 DEF Moves
  <2>2. CASE List
    <3>1. driver.at = ListAt(kind) /\ driver'.at = driver.at + 1
          /\ driver'.lifted = driver.lifted /\ driver'.fatal = driver.fatal
      BY <1>0, <2>2 DEF List, Does, Step, Places, DriverType
    <3>2. driver.lifted = <<>>
      BY <1>0, <1>n, <2>0, <3>1
    <3>3. LiftedOk(driver'.lifted) = {} /\ Len(driver'.lifted) = 0
      BY <3>1, <3>2, OkOfNone
    <3>4. (Len(Targets) \in Nat)'
      BY TargetsCount, PTL
    <3>5. driver'.at \in Nat /\ driver'.at <= LiftAt(kind)
      BY <1>n, <3>1
    <3> QED
      BY <1>0, <1>n, <2>0, <3>1, <3>2, <3>3, <3>4, <3>5
  <2>3. CASE Split
    <3>1. kind = "retdec" /\ driver.at = 8 /\ driver'.at = 9
          /\ driver'.lifted = driver.lifted /\ driver'.fatal = driver.fatal
          /\ driver'.listed = driver.listed
      BY <1>0, <2>3 DEF Split, Does, Step, Places, DriverType
    <3>2. driver.lifted = <<>> /\ LiftAt(kind) = 11
      BY <1>0, <1>n, <2>0, <3>1, Lengths
    <3>3. LiftedOk(driver'.lifted) = {}
      BY <3>1, <3>2, OkOfNone
    <3>4. Targets' = Targets
      BY <2>0, <3>1, TargetsKept
    <3> QED
      BY <1>0, <1>n, <2>0, <3>1, <3>2, <3>3, <3>4
  <2>4. CASE Lift
    <3> DEFINE n == Len(driver.lifted) + 1
    <3>0. driver.at = LiftAt(kind)
      BY <1>0, <2>4 DEF Lift, Does, Step, Places
    <3>1. CASE n > Len(Targets)
      <4>1. driver' = [driver EXCEPT !.at = @ + 1]
        BY <2>4, <3>1 DEF Lift, Goes
      <4>2. driver'.at = LiftAt(kind) + 1 /\ driver'.lifted = driver.lifted
            /\ driver'.fatal = driver.fatal /\ driver'.listed = driver.listed
            /\ driver'.defined = driver.defined
        BY <1>0, <3>0, <4>1 DEF DriverType
      <4>3. Targets' = Targets
        BY <2>0, <4>2, TargetsKept
      <4>4. Len(driver.lifted) = Len(Targets)
        <5>1. Len(driver.lifted) \in Nat /\ Len(Targets) \in Nat
          BY <1>0, RecordListsAre, TargetsAre DEF DriverType
        <5> QED
          BY <1>0, <2>0, <3>1, <5>1
      <4> QED
        BY <1>0, <1>n, <2>0, <4>2, <4>3, <4>4
    <3>2. CASE ~ (n > Len(Targets))
      <4>1. PICK r \in Results(Targets[n]) :
               driver' = [driver EXCEPT !.lifted = Append(@, <<Targets[n], r>>)]
        BY <2>4, <3>2 DEF Lift
      <4> DEFINE e == <<Targets[n], r>>
                 R == Range(Found) \X Verdicts
      <4>2. driver'.at = driver.at /\ driver'.lifted = Append(driver.lifted, e)
            /\ driver'.fatal = driver.fatal /\ driver'.listed = driver.listed
            /\ driver'.defined = driver.defined
        BY <1>0, <4>1 DEF DriverType
      <4>3. Targets' = Targets
        BY <2>0, <4>2, TargetsKept
      <4>4. driver.lifted \in Seq(R) /\ n \in 1..Len(Targets) /\ Len(Targets) \in Nat
        BY <1>0, <3>2, RecordListsAre, TargetsAre DEF DriverType
      <4>5. e \in R /\ e[1] = Targets[n] /\ e[2] = r
        <5>1. r \in Verdicts
          BY <4>1 DEF Results, Verdicts
        <5>2. Targets[n] \in Range(Found)
          BY <1>0, <4>4, TargetsAre
        <5> QED
          BY <5>1, <5>2
      <4>6. kind = "retdec" => LiftedOk(driver'.lifted) \subseteq driver'.defined
        <5>1. CASE kind = "retdec" /\ r = "ok"
          <6>1. Targets[n] \in driver.defined
            <7>1. Driver["retdec"].skips = FALSE
              BY DEF Driver, RetdecRun
            <7> QED
              BY <4>1, <5>1, <7>1 DEF Results
          <6>2. LiftedOk(driver'.lifted) = LiftedOk(driver.lifted) \cup {Targets[n]}
            <7> HIDE DEF e, R
            <7> QED
              BY <4>2, <4>4, <4>5, <5>1, OkOfAppend
          <6> QED
            BY <1>0, <2>0, <4>2, <6>1, <6>2
        <5>2. CASE kind = "retdec" /\ r # "ok"
          <6>1. LiftedOk(driver'.lifted) = LiftedOk(driver.lifted)
            <7> HIDE DEF e, R
            <7> QED
              BY <4>2, <4>4, <4>5, <5>2, OkOfAppend
          <6> QED
            BY <1>0, <2>0, <4>2, <6>1
        <5> QED
          BY <5>1, <5>2
      <4>7. RecordsPrefix'
        <5> HIDE DEF e, R
        <5>1. Len(driver'.lifted) = n
          BY <4>2, <4>4, <4>5
        <5>2. ASSUME NEW i \in 1..n
              PROVE  driver'.lifted[i][1] = Targets[i]
          <6>1. CASE i = n
            BY <4>2, <4>4, <4>5, <6>1
          <6>2. CASE i # n
            <7>1. i \in 1..Len(driver.lifted)
              BY <4>4, <6>2
            <7> QED
              BY <1>0, <2>0, <4>2, <4>4, <7>1
          <6> QED
            BY <6>1, <6>2
        <5> QED
          BY <4>3, <4>4, <5>1, <5>2
      <4> QED
        BY <1>0, <1>n, <2>0, <3>0, <4>2, <4>6, <4>7
    <3> QED
      BY <3>1, <3>2
  <2>5. CASE Raises
    <3>1. Targets' = Targets
      BY <1>0, <2>0, <2>5, RaisesGoes, TargetsKept
    <3>2. driver'.at \in Nat /\ driver'.at > LiftAt(kind)
      BY <1>0, <1>n, <2>5, RaisesGoes
    <3>3. driver'.lifted = driver.lifted /\ driver'.defined = driver.defined
          /\ driver'.fatal = TRUE
      BY <1>0, <2>5, RaisesGoes
    <3> QED
      BY <1>0, <1>n, <2>0, <3>1, <3>2, <3>3
  <2> QED
    BY <1>4, DriverKinds, <2>1, <2>2, <2>3, <2>4, <2>5
<1>5. CASE Tools
  <2>1. kind' = kind /\ limit' = limit /\ driver' = driver /\ child' = child
    BY <1>5 DEF Tools, ToolWrites, OrphanEnds, given, reapVars
  <2>2. Targets' = Targets
    BY <2>1, TargetsKept
  <2> QED
    BY <1>0, <2>1, <2>2
<1> QED
  BY <1>0, <1>1, <1>2, <1>3, <1>4, <1>5, StepKinds

(* What the other parts use of the driver's place and of the types.        *)
LEMMA Situation ==
    ASSUME AttemptInv
    PROVE  /\ driver \in DriverType(kind) /\ kind \in Kinds
           /\ Places(kind, driver.at)
           /\ driver.at \in Nat /\ attempt \in Nat /\ savedBy \in Nat
           /\ ListAt(kind) \in Nat /\ LiftAt(kind) \in Nat
           /\ ClosingAt(kind) \in Nat /\ TailAt(kind) \in Nat
           /\ Running => attempt \in Attempts /\ worker # "starting"
           /\ outputs.by \in Nat
           /\ helper \in [Attempts -> {"none", "working", "writing", "wrote"}]
<1>1. AttemptTypeOK /\ WhereInv /\ ReapInv
  BY DEF AttemptInv
<1>2. attempt \in Nat /\ savedBy \in Nat /\ outputs.by \in Nat
  BY <1>1, TypeParts, ReapingAssumption DEF Typed, ReapTypeOK, Record
<1>3. Running => attempt \in Attempts /\ worker # "starting"
  BY <1>1, RunningIs DEF WhereInv
<1> QED
  BY <1>1, <1>2, <1>3, TypeParts, Here, Numbers DEF Typed

(* A wait for retdec-decompiler is over when its .ll is there.             *)
LEMMA WaitedFor ==
    ASSUME AttemptInv, Plain \/ Writes, kind = "retdec", driver.at = 4
    PROVE  helper[attempt] = "wrote" /\ helper' = [helper EXCEPT ![attempt] = "none"]
<1>1. StepAt(kind, driver.at) = "wait"
  BY Situation DEF Places
<1>2. ASSUME NEW f \in Files
      PROVE  Opening[f] # "wait" /\ Filling[f] # "wait"
  BY FileNames DEF Opening, Filling
<1> QED
  BY <1>1, <1>2 DEF Plain, Writes, Passes, Import, Save, Analyze, UseTool,
     OpenFile, FillFile, Does, Step

LEMMA ListingKept ==
    ASSUME AttemptInv, [Next]_vars
    PROVE  ListingInv'
<1>0. WhereInv /\ ReapInv /\ AttemptTypeOK /\ ListingInv /\ ToolInv
  BY DEF AttemptInv
<1> USE Situation DEF Running, Sound, Earlier, ShortReason
<1>1. CASE Waits
  <2>1. /\ kind' = kind /\ driver' = driver /\ attempt' = attempt
        /\ savedBy' = savedBy /\ outputs' = outputs
    BY <1>1 DEF Waits, given, dirVars
  <2>2. CASE worker = "starting"
    <3>1. driver.at = 1
      BY <1>0, <2>2, FreshDriver DEF WhereInv
    <3> QED
      BY <1>0, <1>1, <2>1, <2>2, <3>1, Numbers DEF ListingInv
  <2>3. CASE worker # "starting"
    BY <1>0, <1>1, <2>1, <2>3 DEF ListingInv, Waits
  <2> QED
    BY <2>2, <2>3
<1>2. CASE Stops
  BY <1>0, <1>2 DEF Stops, ListingInv, dirVars
<1>3. CASE Restarts
  BY <1>0, <1>3 DEF Restarts, Begin, ListingInv, dirVars
<1>4. CASE DriverStep
  <2>0. /\ kind' = kind /\ child = "running" /\ child' = "running"
        /\ attempt' = attempt /\ worker' = worker /\ outputs' = outputs
        /\ attempt \in Attempts /\ worker # "starting"
    BY <1>4, DriverAlone DEF given
  <2>1. CASE Save
    <3>1. kind = "pyghidra" /\ driver.at = 4 /\ driver'.at = 5 /\ savedBy' = attempt
      BY <2>1 DEF Save, Goes, Does, Step, Places, DriverType
    <3> QED
      BY <1>0, <2>0, <3>1, Lengths DEF ListingInv
  <2>2. CASE (Plain \/ Writes) /\ ~ Save
    <3>1. Moves
      BY <1>0, <2>2, PlainMoves
    <3>2. savedBy' = savedBy
      BY <2>2 DEF Plain, Writes, Passes, Import, Analyze, UseTool, OpenFile,
                  FillFile, dirVars
    <3>3. kind = "retdec" /\ driver.at = 4 => outputs.whole \/ outputs.by \in Earlier
      BY <1>0, <2>0, <2>2, WaitedFor DEF ToolInv
    <3>4. kind = "pyghidra" /\ driver.at = 5 => driver'.analyzed
      <4>1. ASSUME NEW f \in Files
            PROVE  Opening[f] # "analyze" /\ Filling[f] # "analyze"
        BY FileNames DEF Opening, Filling
      <4> QED
        BY <2>2, <4>1 DEF Plain, Writes, Passes, Import, Analyze, UseTool,
           OpenFile, FillFile, Does, Step, Places, DriverType
    <3>5. kind = "pyghidra" /\ driver.at = 3 /\ driver'.at = 6 => savedBy \in Earlier
      BY <1>0, <2>0, <3>1 DEF ListingInv, Moves
    <3>6. savedBy <= attempt /\ (driver'.at <= 4 => savedBy' < attempt)
      BY <1>0, <2>0, <3>1, <3>2 DEF ListingInv, Moves
    <3>7. Sound /\ kind = "pyghidra" /\ driver'.at > 5 =>
            driver'.analyzed \/ savedBy \in Earlier
      BY <1>0, <2>0, <3>1, <3>4, <3>5 DEF ListingInv, Moves
    <3>8. Sound /\ kind = "retdec" /\ driver'.at > 4 =>
            outputs.whole \/ outputs.by \in Earlier
      BY <1>0, <2>0, <3>1, <3>3 DEF ListingInv, Moves
    <3>9. driver'.at > ListAt(kind) => driver.at > ListAt(kind)
      BY <3>1, Lengths DEF Moves
    <3> QED
      BY <1>0, <2>0, <3>1, <3>2, <3>6, <3>7, <3>8, <3>9 DEF ListingInv, Moves
  <2>3. CASE List
    <3>1. PICK fs \in Listings :
             driver' = [driver EXCEPT !.at = @ + 1, !.listed = fs]
      BY <2>3 DEF List
    <3>2. /\ driver.at = ListAt(kind) /\ driver'.at = driver.at + 1
          /\ driver'.listed = fs /\ driver'.fatal = driver.fatal
          /\ driver'.analyzed = driver.analyzed /\ savedBy' = savedBy
      BY <2>3, <3>1 DEF List, Does, Step, Places, DriverType, dirVars
    <3>3. fs # Found => \/ kind = "pyghidra" /\ ~ driver.analyzed
                        \/ kind = "retdec" /\ ~ outputs.whole
      BY DEF Listings
    <3>4. Sound /\ fs # Found => ShortReason
      BY <1>0, <2>0, <3>2, <3>3, Lengths DEF ListingInv
    <3> QED
      BY <1>0, <2>0, <3>2, <3>4, Lengths DEF ListingInv
  <2>4. CASE Split \/ Lift
    <3>1. /\ driver.at > ListAt(kind) /\ driver.at > 5
          /\ driver'.at \in {driver.at, driver.at + 1}
          /\ driver'.listed = driver.listed /\ driver'.fatal = driver.fatal
          /\ driver'.analyzed = driver.analyzed /\ savedBy' = savedBy
      <4>0. savedBy' = savedBy
            /\ (driver.at = LiftAt(kind) \/ (kind = "retdec" /\ driver.at = 8))
        BY <2>4 DEF Split, Lift, Does, Step, Places, dirVars
      <4>1. driver.at > ListAt(kind) /\ driver.at > 5 /\ savedBy' = savedBy
        BY <4>0, Lengths, Numbers
      <4>2. CASE Split
        BY <4>1, <4>2 DEF Split, DriverType
      <4>3. CASE Lift
        BY <4>1, <4>3 DEF Lift, Goes, DriverType
      <4> QED
        BY <2>4, <4>2, <4>3
    <3> QED
      BY <1>0, <2>0, <3>1 DEF ListingInv
  <2>5. CASE Raises
    <3>1. ClosingAt(kind) > 4 /\ ClosingAt(kind) \in Nat /\ TailAt(kind) \in Nat
      BY Numbers
    <3>2. driver'.fatal = TRUE /\ driver'.at \in ClosingAt(kind)..TailAt(kind)
          /\ savedBy' = savedBy
      BY <1>0, <2>5, RaisesGoes, Zenon
    <3>3. driver'.at > 4 /\ driver'.at \in Nat
      BY <3>1, <3>2
    <3> QED
      BY <1>0, <2>0, <3>2, <3>3 DEF ListingInv
  <2> QED
    BY <1>4, DriverKinds, <2>1, <2>2, <2>3, <2>4, <2>5
<1>5. CASE Tools
  <2>1. /\ kind' = kind /\ driver' = driver /\ child' = child /\ worker' = worker
        /\ attempt' = attempt /\ savedBy' = savedBy
    BY <1>5 DEF Tools, ToolWrites, OrphanEnds, given, reapVars, dirVars
  <2>2. Sound /\ kind = "retdec" /\ driver.at > 4 =>
          outputs'.whole \/ outputs'.by \in Earlier
    <3>1. CASE outputs' = outputs
      BY <1>0, <3>1 DEF ListingInv
    <3>2. ASSUME NEW a \in Attempts, ToolWrites(a), Sound, kind = "retdec",
                 driver.at > 4
          PROVE  outputs'.by \in Earlier
      <4>1. outputs'.by = a /\ helper[a] # "none"
        BY <3>2 DEF ToolWrites
      <4>2. a <= attempt /\ a # attempt /\ a \in Nat /\ a >= 1
        BY <1>0, <3>2, <4>1 DEF ToolInv, Attempts
      <4> QED
        BY <4>1, <4>2
    <3> QED
      BY <1>5, <3>1, <3>2 DEF Tools, OrphanEnds, dirVars
  <2> QED
    BY <1>0, <2>1, <2>2 DEF ListingInv
<1> QED
  BY <1>0, <1>1, <1>2, <1>3, <1>4, <1>5, StepKinds

(* spawn, wait and quit are UseTool's alone.                               *)
LEMMA ToolSteps ==
    ASSUME AttemptInv, (Plain \/ Writes) /\ ~ UseTool
    PROVE  helper' = helper /\ Step \notin {"spawn", "wait", "quit"}
<1>1. ASSUME NEW f \in Files
      PROVE  Opening[f] \notin {"spawn", "wait", "quit"}
             /\ Filling[f] \notin {"spawn", "wait", "quit"}
  BY FileNames DEF Opening, Filling
<1> QED
  BY <1>1 DEF Plain, Writes, Passes, Import, Save, Analyze, OpenFile, FillFile, Does

LEMMA ToolKept ==
    ASSUME AttemptInv, [Next]_vars
    PROVE  ToolInv'
<1>0. WhereInv /\ ReapInv /\ AttemptTypeOK /\ ListingInv /\ ToolInv
  BY DEF AttemptInv
<1> USE DEF Running, Sound, Earlier
<1>n. /\ helper \in [Attempts -> {"none", "working", "writing", "wrote"}]
      /\ driver.at \in Nat /\ attempt \in Nat /\ kind \in Kinds
      /\ ListAt(kind) \in Nat /\ LiftAt(kind) \in Nat /\ ClosingAt(kind) \in Nat
      /\ ListAt(kind) < LiftAt(kind) /\ LiftAt(kind) < ClosingAt(kind)
      /\ 2 < ListAt(kind)
      /\ Places(kind, driver.at) /\ driver \in DriverType(kind)
  BY Situation, Numbers
<1>1. CASE Waits
  <2>1. /\ kind' = kind /\ driver' = driver /\ attempt' = attempt
        /\ helper' = helper /\ outputs' = outputs
    BY <1>1 DEF Waits, given, dirVars
  <2> QED
    BY <1>0, <1>1, <2>1 DEF ToolInv, Waits
<1>2. CASE Stops
  BY <1>0, <1>2 DEF Stops, ToolInv, dirVars, given
<1>3. CASE Restarts
  <2>1. /\ attempt' = attempt + 1 /\ attempt' \in Attempts /\ child' = "none"
        /\ helper' = helper /\ kind' = kind
    BY <1>0, <1>n, <1>3, ReapingAssumption DEF Restarts, Begin, Attempts, given
  <2>2. helper[attempt + 1] = "none"
    BY <1>0, <1>n, <2>1 DEF ToolInv
  <2> QED
    BY <1>0, <1>n, <2>1, <2>2 DEF ToolInv, Attempts
<1>4. CASE DriverStep
  <2>0. /\ kind' = kind /\ child = "running" /\ child' = "running"
        /\ attempt' = attempt /\ worker' = worker /\ outputs' = outputs
        /\ attempt \in Attempts /\ worker' # "starting"
    BY <1>4, DriverAlone, Situation DEF given
  <2>1. ASSUME Does("spawn") /\ helper' = [helper EXCEPT ![attempt] = "working"],
               Goes
        PROVE  ToolInv'
    <3>1. /\ (kind = "r2" /\ driver.at = 2) \/ (kind = "retdec" /\ driver.at = 3)
          /\ driver'.at = driver.at + 1
      BY <1>n, <2>1 DEF Does, Step, Goes, Places, DriverType
    <3>2. \A a \in Attempts : helper'[a] = IF a = attempt THEN "working" ELSE helper[a]
      BY <1>n, <2>1
    <3> QED
      BY <1>0, <1>n, <2>0, <3>1, <3>2, Lengths DEF ToolInv
  <2>2. ASSUME helper' = [helper EXCEPT ![attempt] = "none"]
        PROVE  ToolInv'
    <3>1. \A a \in Attempts : helper'[a] = IF a = attempt THEN "none" ELSE helper[a]
      BY <1>n, <2>2
    <3> QED
      BY <1>0, <1>n, <2>0, <3>1 DEF ToolInv
  <2>3. CASE UseTool
    BY <2>1, <2>2, <2>3 DEF UseTool
  <2>4. CASE (Plain \/ Writes) /\ ~ UseTool
    <3>1. helper' = helper /\ Step \notin {"spawn", "wait", "quit"}
      BY <2>4, ToolSteps
    <3>2. /\ \/ driver'.at = driver.at + 1
             \/ kind = "pyghidra" /\ driver.at = 3
          /\ driver'.fatal = driver.fatal
      BY <1>0, <2>4, PlainMoves DEF Moves
    <3>3. ~ (kind = "retdec" /\ driver.at = 4)
          /\ ~ (kind = "r2" /\ driver.at = ClosingAt(kind))
      BY <1>n, <3>1 DEF Step, Places
    <3>4. helper[attempt] # "none" => kind \in {"r2", "retdec"}
      BY <1>0, <2>0 DEF ToolInv
    <3>5. Sound /\ helper[attempt] # "none" =>
            kind = "r2" /\ 2 < driver'.at /\ driver'.at <= ClosingAt(kind)
      BY <1>0, <1>n, <2>0, <3>2, <3>3, <3>4 DEF ToolInv
    <3> QED
      BY <1>0, <1>n, <2>0, <3>1, <3>2, <3>5 DEF ToolInv
  <2>5. CASE List \/ Split \/ Lift
    <3>1. /\ helper' = helper
          /\ driver.at = ListAt(kind) \/ driver.at = LiftAt(kind)
             \/ (kind = "retdec" /\ driver.at = 8)
      BY <1>n, <2>5 DEF List, Split, Lift, Does, Step, Places
    <3>2. driver'.at \in {driver.at, driver.at + 1} /\ driver'.fatal = driver.fatal
      <4>1. CASE List
        BY <1>n, <4>1 DEF List, DriverType
      <4>2. CASE Split
        BY <1>n, <4>2 DEF Split, DriverType
      <4>3. CASE Lift
        BY <1>n, <4>3 DEF Lift, Goes, DriverType
      <4> QED
        BY <2>5, <4>1, <4>2, <4>3
    <3>3. kind = "retdec" => driver.at > 4
      BY <1>n, <3>1, Lengths
    <3>4. 2 < driver'.at /\ (kind = "r2" => driver'.at <= ClosingAt(kind))
      BY <1>n, <3>1, <3>2
    <3> QED
      BY <1>0, <1>n, <2>0, <3>1, <3>2, <3>3, <3>4 DEF ToolInv
  <2>6. CASE Raises
    <3>1. driver'.fatal = TRUE
      BY <1>0, <2>6, RaisesGoes
    <3>2. helper' = IF kind = "retdec" THEN [helper EXCEPT ![attempt] = "none"]
                    ELSE helper
      BY <2>6 DEF Raises
    <3> QED
      BY <1>0, <1>n, <2>0, <2>2, <3>1, <3>2 DEF ToolInv
  <2> QED
    BY <1>4, DriverKinds, <2>3, <2>4, <2>5, <2>6
<1>5. CASE Tools
  <2>0. /\ kind' = kind /\ driver' = driver /\ child' = child /\ worker' = worker
        /\ attempt' = attempt
    BY <1>5 DEF Tools, ToolWrites, OrphanEnds, given, reapVars
  <2>1. ASSUME NEW a \in Attempts, ToolWrites(a)
        PROVE  ToolInv'
    <3>1. /\ helper[a] # "none" /\ kind = "retdec"
          /\ outputs' = [by |-> a, whole |-> helper[a] = "writing"]
          /\ \A b \in Attempts : helper'[b] =
               IF b # a THEN helper[b]
               ELSE IF helper[a] = "working" THEN "writing" ELSE "wrote"
      BY <1>n, <2>1 DEF ToolWrites
    <3>2. helper[a] \in {"working", "writing"}
      BY <2>1 DEF ToolWrites
    <3>3. a <= attempt /\ a \in Nat /\ a >= 1
      BY <1>0, <3>1 DEF ToolInv, Attempts
    <3>4. attempt \in Attempts /\ helper'[attempt] = "wrote" =>
            outputs'.whole \/ outputs'.by \in Earlier
      <4>1. CASE a = attempt
        <5>1. outputs'.whole = (helper[a] = "writing")
          BY <3>1
        <5>2. helper'[attempt] = "wrote" => helper[a] = "writing"
          BY <3>1, <3>2, <4>1
        <5> QED
          BY <5>1, <5>2
      <4>2. CASE a # attempt
        <5>1. outputs'.by = a
          BY <3>1
        <5> QED
          BY <1>n, <3>3, <4>2, <5>1
      <4> QED
        BY <4>1, <4>2
    <3>5. worker # "starting" \/ a # attempt
      BY <1>0, <3>1 DEF ToolInv
    <3>6. worker = "starting" => attempt \in Attempts
      BY <1>0 DEF WhereInv
    <3> QED
      BY <1>0, <1>n, <2>0, <3>1, <3>3, <3>4, <3>5, <3>6, Situation DEF ToolInv
  <2>2. ASSUME NEW a \in Attempts, OrphanEnds(a)
        PROVE  ToolInv'
    <3>1. /\ outputs' = outputs
          /\ \A b \in Attempts : helper'[b] = IF b # a THEN helper[b] ELSE "none"
      BY <1>n, <2>2 DEF OrphanEnds, dirVars
    <3>2. worker = "starting" \/ Running => attempt \in Attempts
      BY <1>0, Situation DEF WhereInv
    <3> QED
      BY <1>0, <2>0, <3>1, <3>2 DEF ToolInv
  <2> QED
    BY <1>5, <2>1, <2>2 DEF Tools
<1> QED
  BY <1>0, <1>1, <1>2, <1>3, <1>4, <1>5, StepKinds

(* The places of the files, in the order of the writes; each is opened one *)
(* step before it is filled.                                               *)
LEMMA FillPlaces ==
    ASSUME NEW k \in Kinds
    PROVE  /\ FilledAt(k, "functions") = ListAt(k) + 2
           /\ FilledAt(k, "dump") = ListAt(k) + 5
           /\ FilledAt(k, "summary") = TailAt(k) + 1
           /\ FilledAt(k, "records") = TailAt(k) + 3
           /\ \A f \in Files : FilledAt(k, f) \in 5..16
BY Numbers, FileNames DEF FilledAt

LEMMA WritePlaces ==
    ASSUME AttemptInv, NEW f \in Files
    PROVE  /\ Step = Opening[f] <=> driver.at + 1 = FilledAt(kind, f)
           /\ Step = Filling[f] <=> driver.at = FilledAt(kind, f)
<1>1. Places(kind, driver.at) /\ kind \in Kinds
      /\ driver.at \in Nat /\ ListAt(kind) \in Nat /\ TailAt(kind) \in Nat
  BY Situation
<1>2. /\ Opening["functions"] = "open_functions" /\ Opening["dump"] = "open_dump"
      /\ Opening["summary"] = "open_summary" /\ Opening["records"] = "open_records"
      /\ Filling["functions"] = "fill_functions" /\ Filling["dump"] = "fill_dump"
      /\ Filling["summary"] = "fill_summary" /\ Filling["records"] = "fill_records"
  BY DEF Opening, Filling
<1> QED
  BY <1>1, <1>2, FileNames DEF Places, Step, FilledAt

LEMMA ContentsAre ==
    /\ Contents["functions"] = driver.listed
    /\ Contents["dump"] = IF kind = "retdec" THEN driver.defined
                                             ELSE LiftedOk(driver.lifted)
    /\ Contents["summary"] = driver.fatal
    /\ Contents["records"] = driver.lifted
BY DEF Contents

LEMMA SameContents ==
    ASSUME kind' = kind, driver'.listed = driver.listed,
           driver'.defined = driver.defined, driver'.fatal = driver.fatal,
           driver'.lifted = driver.lifted
    PROVE  \A f \in Files : Contents'[f] = Contents[f]
BY ContentsAre, FileNames DEF Contents

(* A file no statement touches.                                            *)
LEMMA FileStays ==
    ASSUME NEW f \in Files, FileInv(f), kind' = kind,
           attempt' = attempt, disk'[f] = disk[f],
           worker' = "starting" => worker = "starting",
           child' = "running" => child = "running",
           driver'.fatal = driver.fatal,
           Running => driver.at # FilledAt(kind, f),
           driver.at < FilledAt(kind, f) => driver'.at < FilledAt(kind, f),
           driver.at \in Nat, driver'.at \in Nat, FilledAt(kind, f) \in Nat,
           driver.at > FilledAt(kind, f) =>
              driver'.at > FilledAt(kind, f) /\ Contents'[f] = Contents[f]
    PROVE  FileInv(f)'
<1>1. FilledAt(kind, f)' = FilledAt(kind, f)
  BY DEF FilledAt
<1> QED
  BY <1>1 DEF FileInv, Running, Sound

LEMMA FilesKept ==
    ASSUME AttemptInv, [Next]_vars, NEW f \in Files
    PROVE  FileInv(f)'
<1> DEFINE F == FilledAt(kind, f)
<1>0. WhereInv /\ ReapInv /\ AttemptTypeOK /\ FileInv(f) /\ DiskType
  BY TypeParts DEF AttemptInv, Typed
<1>n. /\ driver.at \in Nat /\ attempt \in Nat /\ kind \in Kinds /\ F \in Nat /\ 4 < F
      /\ ListAt(kind) \in Nat /\ LiftAt(kind) \in Nat /\ TailAt(kind) \in Nat
      /\ driver \in DriverType(kind)
      /\ disk[f].by \in Nat
  BY <1>0, Situation, FillPlaces, ReapingAssumption DEF DiskType
<1>f. kind' = kind => FilledAt(kind, f)' = F
  BY DEF FilledAt
<1> HIDE DEF F
<1>1. CASE Waits
  <2>1. /\ kind' = kind /\ driver' = driver /\ attempt' = attempt /\ disk' = disk
    BY <1>1 DEF Waits, given, dirVars
  <2>2. Contents' = Contents
    BY <2>1 DEF Contents
  <2>3. worker = "starting" => driver.at = 1
    BY <1>0, FreshDriver DEF WhereInv
  <2> QED
    BY <1>0, <1>n, <1>f, <1>1, <2>1, <2>2, <2>3
    DEF FileInv, Waits, Running, Sound, F
<1>2. CASE Stops
  <2>1. /\ child' # "running" /\ worker' # "starting"
        /\ attempt' = attempt /\ disk' = disk
    BY <1>2 DEF Stops, dirVars
  <2> QED
    BY <1>0, <2>1 DEF FileInv, Running, Sound
<1>3. CASE Restarts
  <2>1. child' # "running" /\ attempt' = attempt + 1 /\ disk' = disk
    BY <1>3 DEF Restarts, Begin, dirVars
  <2> QED
    BY <1>0, <1>n, <2>1 DEF FileInv, Running, Sound
<1>4. CASE DriverStep
  <2>0. /\ kind' = kind /\ child = "running" /\ child' = "running"
        /\ attempt' = attempt /\ worker' = worker /\ worker # "starting"
    BY <1>4, DriverAlone, Situation DEF given, Running
  <2>1. ASSUME disk'[f] = disk[f], Moves, driver.at + 1 # F, driver.at # F
        PROVE  FileInv(f)'
    <3>1. \A g \in Files : Contents'[g] = Contents[g]
      BY <2>0, <2>1, SameContents DEF Moves
    <3>2. kind = "pyghidra" => F >= 8
      BY <1>n, FillPlaces, FileNames, Lengths DEF F
    <3>3. driver'.at \in Nat /\ (driver.at < F => driver'.at < F)
          /\ (driver.at > F => driver'.at > F)
      BY <1>n, <2>1, <3>2 DEF Moves
    <3> QED
      BY <1>0, <1>n, <2>0, <2>1, <3>1, <3>3, FileStays DEF F, Moves
  <2>2. CASE Plain
    <3>1. Moves
      BY <1>0, <2>2, PlainMoves
    <3>2. Step \notin {Opening[f], Filling[f]}
      BY <2>2, FileNames DEF Plain, Passes, Import, Save, Analyze, UseTool, Does,
         Opening, Filling
    <3>3. disk' = disk
      BY <2>2 DEF Plain, Passes, Import, Save, Analyze, UseTool, dirVars
    <3> QED
      BY <2>1, <3>1, <3>2, <3>3, WritePlaces DEF F
  <2>3. ASSUME NEW g \in Files, OpenFile(g) \/ FillFile(g), g # f
        PROVE  FileInv(f)'
    <3>1. Moves
      BY <1>0, <2>3, PlainMoves DEF Writes
    <3>2. disk'[f] = disk[f]
      BY <1>0, <2>3 DEF OpenFile, FillFile, DiskType
    <3>3. Step = Opening[g] \/ Step = Filling[g]
      BY <2>3 DEF OpenFile, FillFile, Does
    <3>4. Step \notin {Opening[f], Filling[f]}
      BY <2>3, <3>3, FileNames DEF Opening, Filling
    <3> QED
      BY <2>1, <3>1, <3>2, <3>4, WritePlaces DEF F
  <2>4. CASE OpenFile(f)
    <3>1. driver.at + 1 = F /\ driver'.at = F
      BY <1>n, <2>4, WritePlaces DEF OpenFile, Does, Goes, DriverType, F
    <3>2. disk'[f].by = attempt /\ disk'[f].whole = FALSE
      BY <1>0, <2>4 DEF OpenFile, DiskType
    <3> QED
      BY <1>n, <1>f, <2>0, <3>1, <3>2 DEF FileInv, Running, Sound
  <2>5. CASE FillFile(f)
    <3>1. driver.at = F /\ driver'.at = F + 1 /\ driver' = [driver EXCEPT !.at = @ + 1]
      BY <1>n, <2>5, WritePlaces DEF FillFile, Does, Goes, DriverType, F
    <3>2. /\ disk'[f].by = attempt /\ disk'[f].data = Contents[f]
          /\ f # "dump" => disk'[f].whole = TRUE
      BY <1>0, <2>5 DEF FillFile, DiskType
    <3>3. Contents'[f] = Contents[f]
      BY <1>n, <2>0, <3>1, SameContents DEF DriverType
    <3> QED
      BY <1>n, <1>f, <2>0, <3>1, <3>2, <3>3 DEF FileInv, Running, Sound
  <2>6. CASE List \/ Split \/ Lift
    <3>1. disk' = disk
      BY <2>6 DEF List, Split, Lift, dirVars
    <3>2. driver'.at \in {driver.at, driver.at + 1} /\ driver'.fatal = driver.fatal
      BY <1>n, <2>6 DEF List, Split, Lift, Goes, DriverType
    <3>3. Step \in {"list", "split", "lift"}
      BY <2>6 DEF List, Split, Lift, Does
    <3>4. driver.at + 1 # F /\ driver.at # F
      <4>1. Step \notin {Opening[f], Filling[f]}
        BY <3>3, FileNames DEF Opening, Filling
      <4> QED
        BY <4>1, WritePlaces DEF F
    <3>5. driver.at > F => Contents'[f] = Contents[f]
      <4>1. CASE List
        <5>1. driver.at = ListAt(kind)
          BY <4>1, Situation DEF List, Does, Step, Places
        <5>2. F > ListAt(kind)
          BY <1>n, FillPlaces, FileNames, Numbers DEF F
        <5> QED
          BY <1>n, <5>1, <5>2
      <4>2. CASE Split
        <5>1. kind = "retdec" /\ driver.at = 8
          BY <4>2, Situation DEF Split, Does, Step, Places
        <5>2. F > 8 \/ f = "functions"
          BY <5>1, <1>n, FillPlaces, FileNames, Lengths DEF F
        <5>3. driver'.listed = driver.listed
          BY <1>n, <4>2 DEF Split, DriverType
        <5> QED
          BY <1>n, <5>1, <5>2, <5>3 DEF Contents
      <4>3. CASE Lift
        <5>1. driver.at = LiftAt(kind)
          BY <4>3, Situation DEF Lift, Does, Step, Places
        <5>2. F > LiftAt(kind) \/ f = "functions" \/ (f = "dump" /\ kind = "retdec")
          BY <1>n, FillPlaces, FileNames, Numbers DEF F
        <5>3. driver'.listed = driver.listed /\ driver'.defined = driver.defined
          BY <1>n, <4>3 DEF Lift, Goes, DriverType
        <5> QED
          BY <1>n, <2>0, <5>1, <5>2, <5>3 DEF Contents
      <4> QED
        BY <2>6, <4>1, <4>2, <4>3
    <3>6. driver'.at \in Nat /\ (driver.at < F => driver'.at < F)
          /\ (driver.at > F => driver'.at > F)
      BY <1>n, <3>2, <3>4
    <3> QED
      BY <1>0, <1>n, <2>0, <3>1, <3>2, <3>4, <3>5, <3>6, FileStays DEF F
  <2>7. CASE Raises
    <3>1. /\ driver'.fatal = TRUE /\ disk' = disk /\ driver.at < TailAt(kind)
          /\ driver'.at \in ClosingAt(kind)..TailAt(kind)
      BY <1>0, <2>7, RaisesGoes
    <3>2. CASE f \in {"functions", "dump"}
      <4>1. driver'.at > F
        BY <1>n, <3>1, <3>2, FillPlaces, Numbers DEF F
      <4> QED
        BY <1>0, <1>n, <1>f, <2>0, <3>1, <3>2, <4>1 DEF FileInv, Running, Sound
    <3>3. CASE f \notin {"functions", "dump"}
      <4>1. F > TailAt(kind)
        BY <1>n, <3>3, FillPlaces, FileNames DEF F
      <4>2. driver.at < F /\ driver'.at < F /\ driver'.at \in Nat
        BY <1>n, <3>1, <4>1, Numbers
      <4> QED
        BY <1>0, <1>n, <1>f, <2>0, <3>1, <4>2 DEF FileInv, Running, Sound, F
    <3> QED
      BY <3>2, <3>3
  <2> QED
    BY <1>4, DriverKinds, <2>2, <2>3, <2>4, <2>5, <2>6, <2>7 DEF Writes
<1>5. CASE Tools
  <2>1. /\ kind' = kind /\ driver' = driver /\ attempt' = attempt /\ disk' = disk
        /\ child' = child /\ worker' = worker
    BY <1>5 DEF Tools, ToolWrites, OrphanEnds, given, reapVars, dirVars
  <2>2. Contents' = Contents
    BY <2>1 DEF Contents
  <2> QED
    BY <1>0, <1>f, <2>1, <2>2 DEF FileInv, Running, Sound, F
<1> QED
  BY <1>0, <1>1, <1>2, <1>3, <1>4, <1>5, StepKinds

LEMMA DumpKept ==
    ASSUME AttemptInv, [Next]_vars
    PROVE  DumpInv'
<1> DEFINE F == FilledAt(kind, "dump")
<1>0. /\ WhereInv /\ ReapInv /\ AttemptTypeOK /\ DumpInv /\ ListingInv /\ ToolInv
      /\ DiskType
  BY TypeParts DEF AttemptInv, Typed
<1>n. /\ driver.at \in Nat /\ attempt \in Nat /\ kind \in Kinds /\ F \in Nat
      /\ 4 < F /\ F = ListAt(kind) + 5 /\ ListAt(kind) \in Nat
      /\ driver \in DriverType(kind)
  BY Situation, FillPlaces, FileNames
<1>f. kind' = kind => FilledAt(kind, "dump")' = F
  BY DEF FilledAt
<1> HIDE DEF F
<1> USE DEF Running, Sound, Earlier
<1>1. CASE Waits
  <2>1. /\ kind' = kind /\ driver' = driver /\ attempt' = attempt /\ disk' = disk
        /\ outputs' = outputs
    BY <1>1 DEF Waits, given, dirVars
  <2>2. worker = "starting" => driver.at = 1
    BY <1>0, FreshDriver DEF WhereInv
  <2> QED
    BY <1>0, <1>n, <1>f, <1>1, <2>1, <2>2 DEF DumpInv, Waits, F
<1>2. CASE Stops
  BY <1>2 DEF Stops, DumpInv
<1>3. CASE Restarts
  BY <1>3 DEF Restarts, Begin, DumpInv
<1>4. CASE DriverStep
  <2>0. /\ kind' = kind /\ child = "running" /\ child' = "running"
        /\ attempt' = attempt /\ outputs' = outputs
    BY <1>4, DriverAlone DEF given
  <2>1. ASSUME disk'["dump"] = disk["dump"], driver'.fatal = driver.fatal,
               driver'.at > F => driver.at > F
        PROVE  DumpInv'
    BY <1>0, <1>n, <1>f, <2>0, <2>1 DEF DumpInv, F
  <2>2. ASSUME disk'["dump"] = disk["dump"], Moves, driver.at # F
        PROVE  DumpInv'
    <3>1. driver'.at > F => driver.at > F
      BY <1>n, <2>2, Lengths DEF Moves
    <3> QED
      BY <2>1, <2>2, <3>1 DEF Moves
  <2>3. CASE Plain
    <3>1. Step # "fill_dump"
      BY <2>3 DEF Plain, Passes, Import, Save, Analyze, UseTool, Does
    <3>2. disk' = disk
      BY <2>3 DEF Plain, Passes, Import, Save, Analyze, UseTool, dirVars
    <3>3. driver.at # F
      BY <3>1, WritePlaces, FileNames DEF Filling, F
    <3> QED
      BY <1>0, <2>2, <2>3, <3>2, <3>3, PlainMoves
  <2>4. ASSUME NEW g \in Files, OpenFile(g) \/ FillFile(g), g # "dump"
        PROVE  DumpInv'
    <3>1. disk'["dump"] = disk["dump"]
      BY <1>0, <2>4, FileNames DEF OpenFile, FillFile, DiskType
    <3>2. Step # "fill_dump"
      BY <2>4, FileNames DEF OpenFile, FillFile, Does, Opening, Filling
    <3>3. driver.at # F
      BY <3>2, WritePlaces, FileNames DEF Filling, F
    <3> QED
      BY <1>0, <2>2, <2>4, <3>1, <3>3, PlainMoves DEF Writes
  <2>5. CASE OpenFile("dump")
    <3>1. driver.at + 1 = F /\ driver'.at = F
      BY <1>n, <2>5, FileNames, WritePlaces DEF OpenFile, Does, Goes, DriverType, F
    <3> QED
      BY <1>n, <1>f, <2>0, <3>1 DEF DumpInv
  <2>6. CASE FillFile("dump")
    <3>1. driver.at = F /\ driver'.fatal = driver.fatal
      BY <1>n, <2>6, FileNames, WritePlaces DEF FillFile, Does, Goes, DriverType, F
    <3>2. disk'["dump"].whole = (kind = "retdec" => outputs.whole)
      BY <1>0, <2>6, FileNames DEF FillFile, DiskType
    <3>3. Sound /\ kind = "retdec" => outputs.whole \/ outputs.by < attempt
      BY <1>0, <1>n, <3>1 DEF ListingInv
    <3> QED
      BY <1>n, <1>f, <2>0, <3>1, <3>2, <3>3 DEF DumpInv
  <2>7. CASE List \/ Split \/ Lift
    <3>1. disk' = disk
      BY <2>7 DEF List, Split, Lift, dirVars
    <3>2. driver'.at \in {driver.at, driver.at + 1} /\ driver'.fatal = driver.fatal
      BY <1>n, <2>7 DEF List, Split, Lift, Goes, DriverType
    <3>3. Step # "fill_dump"
      BY <2>7 DEF List, Split, Lift, Does
    <3>4. driver.at # F
      BY <3>3, WritePlaces, FileNames DEF Filling, F
    <3> QED
      BY <1>n, <2>1, <3>1, <3>2, <3>4
  <2>8. CASE Raises
    <3>1. driver'.fatal = TRUE
      BY <1>0, <2>8, RaisesGoes
    <3> QED
      BY <3>1 DEF DumpInv
  <2> QED
    BY <1>4, DriverKinds, <2>3, <2>4, <2>5, <2>6, <2>7, <2>8 DEF Writes
<1>5. CASE Tools
  <2>1. /\ kind' = kind /\ driver' = driver /\ child' = child
        /\ attempt' = attempt /\ disk' = disk
    BY <1>5 DEF Tools, ToolWrites, OrphanEnds, given, reapVars, dirVars
  <2>2. CASE outputs' = outputs
    BY <1>0, <1>f, <2>1, <2>2 DEF DumpInv, F
  <2>3. ASSUME NEW a \in Attempts, ToolWrites(a), Sound, driver.at > F
        PROVE  kind = "retdec" /\ outputs'.by < attempt
    <3>1. outputs'.by = a /\ helper[a] # "none" /\ kind = "retdec"
      BY <2>3 DEF ToolWrites
    <3>2. a <= attempt /\ a # attempt /\ a \in Nat
      BY <1>0, <1>n, <2>3, <3>1 DEF ToolInv, Attempts
    <3> QED
      BY <1>n, <3>1, <3>2
  <2> QED
    BY <1>f, <1>5, <2>1, <2>2, <2>3 DEF Tools, OrphanEnds, dirVars, DumpInv
<1> QED
  BY <1>0, <1>1, <1>2, <1>3, <1>4, <1>5, StepKinds

(* The driver's 0: everything it did is done and of this attempt.          *)
LEMMA ReturnsWell ==
    ASSUME AttemptInv, Running, Step = "return", driver.fatal = FALSE
    PROVE  AllIsWell /\ driver.at = ReturnAt(kind)
<1>0. /\ AttemptTypeOK /\ MemoryInv /\ ListingInv /\ ToolInv /\ DumpInv
      /\ \A f \in Files : FileInv(f)
  BY DEF AttemptInv
<1>1. /\ driver.at = ReturnAt(kind) /\ kind \in Kinds /\ attempt \in Attempts
      /\ ReturnAt(kind) = TailAt(kind) + 4
      /\ ListAt(kind) \in Nat /\ TailAt(kind) \in Nat
      /\ ListAt(kind) + 5 < TailAt(kind) /\ LiftAt(kind) < TailAt(kind)
      /\ LiftAt(kind) \in Nat /\ ClosingAt(kind) \in Nat
      /\ ClosingAt(kind) <= TailAt(kind) /\ 3 <= ListAt(kind)
  BY Situation, Numbers DEF Step, Places
<1>2. ASSUME NEW f \in Files
      PROVE  /\ disk[f].by = attempt /\ disk[f].data = Contents[f]
             /\ f # "dump" => disk[f].whole
  <2>1. driver.at > FilledAt(kind, f)
    BY <1>1, FillPlaces, FileNames
  <2> QED
    BY <1>0, <2>1 DEF FileInv, Sound
<1>3. /\ disk.functions.data = driver.listed /\ disk.records.data = driver.lifted
      /\ disk.summary.data = FALSE
      /\ disk.dump.data = IF kind = "retdec" THEN driver.defined
                          ELSE LiftedOk(driver.lifted)
  BY <1>2, FileNames, ContentsAre
<1>4. RecordsCover(driver.lifted, Targets)
  <2>1. Len(driver.lifted) = Len(Targets)
    BY <1>0, <1>1 DEF MemoryInv, Sound
  <2> QED
    BY <1>0, <2>1 DEF MemoryInv, RecordsPrefix, RecordsCover
<1>5. kind = "retdec" => LiftedOk(driver.lifted) \subseteq driver.defined
  BY <1>0 DEF MemoryInv
<1>6. disk.dump.whole \/ (kind = "retdec" /\ outputs.by < attempt)
  BY <1>0, <1>1, FillPlaces DEF DumpInv, Sound
<1>7. helper[attempt] = "none"
  BY <1>0, <1>1 DEF ToolInv, Sound
<1>8. driver.listed # Found => ShortReason
  BY <1>0, <1>1 DEF ListingInv, Sound
<1> QED
  BY <1>1, <1>2, <1>3, <1>4, <1>5, <1>6, <1>7, <1>8 DEF AllIsWell, Targets

LEMMA ReturnKept ==
    ASSUME AttemptInv, [Next]_vars
    PROVE  ReturnInv'
<1>0. /\ WhereInv /\ ReapInv /\ AttemptTypeOK /\ ToolInv /\ ReturnInv
      /\ attempt \in Nat /\ kind \in Kinds /\ driver.fatal \in BOOLEAN
  BY Situation DEF AttemptInv, DriverType
<1>1. CASE Waits
  <2>1. /\ kind' = kind /\ limit' = limit /\ driver' = driver /\ attempt' = attempt
        /\ disk' = disk /\ outputs' = outputs /\ savedBy' = savedBy
        /\ helper' = helper /\ code' = code
    BY <1>1 DEF Waits, given, dirVars
  <2>2. AllIsWell => AllIsWell'
    BY <2>1 DEF AllIsWell, ShortReason, Earlier
  <2>3. EndedOk' => seen' = [by |-> attempt, fatal |-> FALSE]
    <3> SUFFICES ASSUME EndedOk'
                 PROVE  seen' = [by |-> attempt, fatal |-> FALSE]
      OBVIOUS
    <3>1. status = "ok" /\ code = "zero"
      BY <1>0, <1>1, RunningIs DEF EndedOk, Waits
    <3>2. disk.summary.by = attempt /\ disk.summary.whole /\ disk.summary.data = FALSE
      BY <1>0, <3>1, FileNames DEF ReturnInv, AllIsWell
    <3> QED
      BY <1>0, <1>1, <3>1, <3>2 DEF Waits, EndedOk, ReturnInv
  <2> QED
    BY <1>0, <1>1, <2>1, <2>2, <2>3 DEF ReturnInv, Waits
<1>2. CASE Stops
  <2>1. code' = "zero" => /\ AllIsWell /\ driver.at = ReturnAt(kind)
                          /\ driver.fatal = FALSE
    BY <1>0, <1>2, ReturnsWell DEF Stops, Running
  <2>2. /\ kind' = kind /\ limit' = limit /\ attempt' = attempt
        /\ disk' = disk /\ outputs' = outputs /\ savedBy' = savedBy
        /\ helper' = helper /\ ~ EndedOk'
    BY <1>0, <1>2, RunningIs DEF Stops, given, dirVars, Running, EndedOk
  <2>3. AllIsWell => AllIsWell'
    BY <2>2 DEF AllIsWell, ShortReason, Earlier
  <2>4. driver.at = ReturnAt(kind) => driver'.at = driver.at /\ driver'.fatal = driver.fatal
    <3>1. driver.at = ReturnAt(kind) => ~ (driver.at <= TailAt(kind))
      BY <1>0, Situation, Numbers
    <3> QED
      BY <1>2, <3>1 DEF Stops, MemoryGone, NotRunning
  <2> QED
    BY <2>1, <2>2, <2>3, <2>4 DEF ReturnInv
<1>3. CASE Restarts
  BY <1>3 DEF Restarts, Begin, ReturnInv, EndedOk
<1>4. CASE DriverStep
  <2>1. code' = "none" /\ status' # "ok"
    BY <1>0, <1>4, DriverAlone, RunningIs
  <2> QED
    BY <2>1 DEF ReturnInv, EndedOk
<1>5. CASE Tools
  <2>1. /\ kind' = kind /\ limit' = limit /\ driver' = driver /\ attempt' = attempt
        /\ disk' = disk /\ savedBy' = savedBy /\ code' = code /\ worker' = worker
        /\ status' = status /\ seen' = seen
    BY <1>5 DEF Tools, ToolWrites, OrphanEnds, given, reapVars, dirVars
  <2>2. AllIsWell => AllIsWell'
    <3> SUFFICES ASSUME AllIsWell
                 PROVE  AllIsWell'
      OBVIOUS
    <3>1. helper[attempt] = "none"
      BY DEF AllIsWell
    <3>2. /\ helper'[attempt] = "none"
          /\ outputs' = outputs \/ (kind = "retdec" /\ outputs'.by < attempt)
      <4>1. ASSUME NEW a \in Attempts, ToolWrites(a)
            PROVE  helper'[attempt] = "none" /\ kind = "retdec" /\ outputs'.by < attempt
        <5>1. outputs'.by = a /\ helper[a] # "none" /\ kind = "retdec"
          BY <4>1 DEF ToolWrites
        <5>2. a <= attempt /\ a # attempt /\ a \in Nat
          BY <1>0, <3>1, <5>1 DEF ToolInv, Attempts
        <5>3. helper'[attempt] = helper[attempt]
          BY <4>1, <5>2 DEF ToolWrites
        <5> QED
          BY <1>0, <3>1, <5>1, <5>2, <5>3
      <4>2. ASSUME NEW a \in Attempts, OrphanEnds(a)
            PROVE  helper'[attempt] = "none" /\ outputs' = outputs
        <5>1. a # attempt
          BY <3>1, <4>2 DEF OrphanEnds
        <5> QED
          BY <3>1, <4>2, <5>1 DEF OrphanEnds, dirVars
      <4> QED
        BY <1>5, <4>1, <4>2 DEF Tools
    <3> QED
      BY <2>1, <3>2 DEF AllIsWell, ShortReason, Earlier
  <2> QED
    BY <1>0, <2>1, <2>2 DEF ReturnInv, EndedOk
<1> QED
  BY <1>0, <1>1, <1>2, <1>3, <1>4, <1>5, StepKinds

LEMMA InvStart ==
    ASSUME Init, AttemptTypeOK, ReapInv
    PROVE  AttemptInv
<1>1. /\ attempt = 0 /\ worker = "idle" /\ child = "none" /\ code = "none"
      /\ status = "none" /\ savedBy = 0 /\ driver = NotRunning
      /\ \A a \in Attempts : helper[a] = "none"
      /\ \A f \in Files : disk[f].by = 0
  BY DEF Init, ReapInit
<1>2. attempt \notin Attempts
  BY <1>1 DEF Attempts
<1>3. WhereInv /\ MemoryInv /\ DumpInv /\ ReturnInv
  BY <1>1 DEF WhereInv, MemoryInv, DumpInv, ReturnInv, EndedOk, Running, Sound
<1>4. ListingInv /\ ToolInv
  BY <1>1, <1>2 DEF ListingInv, ToolInv, Running, Sound
<1>5. \A f \in Files : FileInv(f)
  BY <1>1 DEF FileInv, Running, Sound
<1> QED
  BY <1>3, <1>4, <1>5 DEF AttemptInv

(* The inductive invariant of an attempt, through every driver, tool,      *)
(* death, timeout and retry.                                               *)
THEOREM AttemptInvariant == Spec => []AttemptInv
<1>1. Init /\ AttemptTypeOK /\ ReapInv => AttemptInv
  BY InvStart
<1>2. AttemptInv /\ AttemptTypeOK' /\ ReapInv' /\ [Next]_vars => AttemptInv'
  <2> SUFFICES ASSUME AttemptInv, AttemptTypeOK', ReapInv', [Next]_vars
               PROVE  AttemptInv'
    OBVIOUS
  <2>1. \A f \in Files : FileInv(f)'
    BY FilesKept
  <2> QED
    BY <2>1, WhereKept, MemoryKept, ListingKept, ToolKept, DumpKept, ReturnKept
    DEF AttemptInv
<1> QED
  BY <1>1, <1>2, AttemptTypeCorrect, ImplementsReaping, ReapInvHolds, PTL DEF Spec

LEMMA EndedWell ==
    ASSUME AttemptInv, EndedOk
    PROVE  AllIsWell /\ seen = [by |-> attempt, fatal |-> FALSE]
<1>1. code = "zero"
  BY RunningIs DEF AttemptInv, EndedOk
<1> QED
  BY <1>1 DEF AttemptInv, ReturnInv

(* A record with status ok stands for files that are all of this attempt,  *)
(* a clean summary and a record for every function asked for (run_one,     *)
(* lines 219-257, and the end of each run()).                              *)
THEOREM OkIsLifted == Spec => []OkMeansLifted
<1>1. AttemptInv => OkMeansLifted
  BY EndedWell DEF OkMeansLifted, AllIsWell
<1> QED
  BY <1>1, AttemptInvariant, PTL

(* The whole-binary dump of an ok attempt is of the functions its records  *)
(* call ok, and torn only by the orphan of an earlier attempt.             *)
THEOREM DumpIsOfRecords == Spec => []DumpMatchesRecords
<1>1. AttemptInv => DumpMatchesRecords
  BY EndedWell DEF DumpMatchesRecords, AllIsWell
<1> QED
  BY <1>1, AttemptInvariant, PTL

(* radare2 and retdec-decompiler are gone when their attempt is ok, though *)
(* the timeout kills only the driver (line 199).                           *)
THEOREM OkLeftNoTool == Spec => []OkLeavesNoTool
<1>1. AttemptInv => OkLeavesNoTool
  BY EndedWell DEF OkLeavesNoTool, AllIsWell
<1> QED
  BY <1>1, AttemptInvariant, PTL

(* An ok attempt that lists less than the analysis finds was misled by the *)
(* saved program or the .dsm of an earlier attempt.                        *)
THEOREM ShortListingIsRetry == Spec => []ShortListingOnlyOnRetry
<1>1. AttemptInv => ShortListingOnlyOnRetry
  BY EndedWell DEF ShortListingOnlyOnRetry, AllIsWell, ShortReason, Earlier
<1> QED
  BY <1>1, AttemptInvariant, PTL

LEMMA SummaryHonest == ASSUME AttemptInv PROVE SummaryTellsHowFar
<1> SUFFICES ASSUME child = "running", disk.summary.whole, disk.summary.by = attempt
             PROVE  IF disk.summary.data = FALSE
                    THEN RecordsCover(driver.lifted, Targets)
                    ELSE RecordsCover(driver.lifted,
                                      SubSeq(Targets, 1, Len(driver.lifted)))
  BY DEF SummaryTellsHowFar
<1>0. /\ AttemptTypeOK /\ MemoryInv /\ FileInv("summary")
      /\ driver \in DriverType(kind)
  BY FileNames, Situation DEF AttemptInv
<1>1. /\ driver.at \in Nat /\ attempt \in Nat /\ kind \in Kinds
      /\ TailAt(kind) \in Nat /\ LiftAt(kind) \in Nat
      /\ LiftAt(kind) < TailAt(kind)
      /\ FilledAt(kind, "summary") = TailAt(kind) + 1
  BY Situation, Numbers, FillPlaces
<1>2. driver.at > TailAt(kind) + 1
  <2>1. ~ (driver.at < TailAt(kind) + 1) /\ driver.at # TailAt(kind) + 1
    BY <1>0, <1>1 DEF FileInv, Running
  <2> QED
    BY <1>1, <2>1
<1>3. disk.summary.data = driver.fatal
  BY <1>0, <1>1, <1>2, ContentsAre DEF FileInv, Running
<1>4. Len(driver.lifted) <= Len(Targets)
      /\ \A i \in 1..Len(driver.lifted) : driver.lifted[i][1] = Targets[i]
  BY <1>0 DEF MemoryInv, RecordsPrefix, Running
<1>5. Len(driver.lifted) \in Nat /\ Targets \in Seq(Range(Found))
  BY <1>0, RecordListsAre, TargetsAre DEF DriverType
<1>6. CASE driver.fatal = FALSE
  <2>1. Len(driver.lifted) = Len(Targets)
    BY <1>0, <1>1, <1>2, <1>6 DEF MemoryInv, Running, Sound
  <2> QED
    BY <1>3, <1>4, <1>6, <2>1 DEF RecordsCover
<1>7. CASE driver.fatal # FALSE
  <2> DEFINE n == Len(driver.lifted)
             t == SubSeq(Targets, 1, n)
  <2>1. Len(t) = n /\ \A i \in 1..n : t[i] = Targets[i]
    BY <1>4, <1>5
  <2> HIDE DEF t
  <2>2. RecordsCover(driver.lifted, t)
    BY <1>4, <2>1 DEF RecordsCover
  <2> QED
    BY <1>3, <1>7, <2>2 DEF t
<1> QED
  BY <1>6, <1>7

(* The driver that has written a summary.json has a record for every       *)
(* target, or says fatal_error and has those it came to.                   *)
THEOREM SummaryIsHonest == Spec => []SummaryTellsHowFar
<1>1. AttemptInv => SummaryTellsHowFar
  BY SummaryHonest
<1> QED
  BY <1>1, AttemptInvariant, PTL

-----------------------------------------------------------------------------
(***************************************************************************)
(* The attempt as the session sees it                                      *)
(***************************************************************************)
StageOf(w, c, k, i) ==
    IF w = "idle" /\ c # "running" THEN "none"
    ELSE IF i = TailAt(k) + 1 THEN "summary"
    ELSE IF i = TailAt(k) + 2 THEN "summarised"
    ELSE IF i = TailAt(k) + 3 THEN "records"
    ELSE IF i = TailAt(k) + 4 THEN "returns"
    ELSE "lifting"

LEMMA StageIs == AttemptTypeOK => Stage = StageOf(worker, child, kind, driver.at)
<1> SUFFICES ASSUME AttemptTypeOK
             PROVE  Stage = StageOf(worker, child, kind, driver.at)
  OBVIOUS
<1>1. Places(kind, driver.at) /\ driver.at \in Nat
      /\ kind \in Kinds /\ TailAt(kind) \in Nat /\ ReturnAt(kind) = TailAt(kind) + 4
  BY Here, Numbers
<1> QED
  BY <1>1 DEF Stage, StageOf, Step, Places

LEMMA NextStageIs ==
    ASSUME AttemptTypeOK'
    PROVE  Stage' = StageOf(worker', child', kind', driver'.at)
<1>1. (Stage = StageOf(worker, child, kind, driver.at))'
  BY StageIs, PTL
<1> QED
  BY <1>1 DEF StageOf, TailAt, ClosingAt

(* Nothing the session sees changes.                                       *)
LEMMA Unseen ==
    ASSUME Stage' = Stage, driver'.fatal = driver.fatal \/ Stage \in {"none", "lifting"},
           worker # "idle" \/ (attempt' = attempt /\ status' = status),
           worker = "idle" <=> worker' = "idle",
           disk'["summary"] = disk["summary"], disk'["records"] = disk["records"]
    PROVE  UNCHANGED Promise!promiseVars
BY DEF Promise!promiseVars, Verdict

LEMMA EndsAsPromised ==
    ASSUME AttemptInv, AttemptTypeOK', Waits,
           worker # "idle", worker' = "idle"
    PROVE  Promise!PromiseNext
<1>0. /\ AttemptTypeOK /\ WhereInv /\ ReapInv /\ ReturnInv
      /\ attempt \in Attempts /\ attempt # 0
      /\ driver.fatal \in BOOLEAN
  BY Situation DEF AttemptInv, WhereInv, Attempts, DriverType
<1>1. /\ kind' = kind /\ driver' = driver /\ attempt' = attempt /\ disk' = disk
  BY DEF Waits, given, dirVars
<1>2. /\ Stage = StageOf(worker, child, kind, driver.at) /\ Stage # "none"
      /\ Stage' = StageOf(worker', child', kind', driver'.at)
  BY <1>0, StageIs, NextStageIs DEF StageOf
<1>r. status' = "ok" => status = "ok"
  BY DEF Waits
<1>3. CASE child' = "running"
  <2>1. child = "running"
    BY <1>3 DEF Waits
  <2>2. status' \notin {"ok", "raised"}
    BY <1>0, <1>r, <2>1, RunningIs DEF Waits, Running
  <2>3. Stage' = Stage
    BY <1>1, <1>2, <1>3 DEF StageOf
  <2>4. Promise!LoseSight
    BY <1>0, <1>1, <1>2, <2>2, <2>3 DEF Promise!LoseSight, Verdict
  <2> QED
    BY <2>4 DEF Promise!PromiseNext
<1>4. CASE child' # "running" /\ status' = "ok"
  <2>1. code = "zero"
    BY <1>0, <1>4, <1>r, RunningIs
  <2>2. driver.at = ReturnAt(kind) /\ driver.fatal = FALSE
    BY <1>0, <2>1 DEF ReturnInv
  <2>3. Stage = "returns" /\ Stage' = "none"
    BY <1>2, <1>4, <2>2, Situation, Numbers DEF StageOf
  <2>4. Promise!Return
    BY <1>0, <1>1, <1>4, <2>2, <2>3 DEF Promise!Return, Promise!Over, Verdict
  <2> QED
    BY <2>4 DEF Promise!PromiseNext
<1>5. CASE child' # "running" /\ status' # "ok"
  <2>1. Stage' = "none"
    BY <1>2, <1>5 DEF StageOf
  <2>2. CASE status' = "raised"
    <3>1. driver.at = 1 /\ kind \in Kinds
      BY <1>0, <2>2, FreshDriver, Situation DEF Waits, WhereInv
    <3>2. Stage = "lifting"
      BY <1>2, <3>1, Numbers DEF StageOf
    <3>3. Promise!Raise
      BY <1>0, <1>1, <2>1, <2>2, <3>2 DEF Promise!Raise, Promise!Over
    <3> QED
      BY <3>3 DEF Promise!PromiseNext
  <2>3. CASE status' # "raised"
    <3>1. Promise!Die
      BY <1>0, <1>1, <1>2, <1>5, <2>1, <2>3 DEF Promise!Die, Promise!Over
    <3> QED
      BY <3>1 DEF Promise!PromiseNext
  <2> QED
    BY <2>2, <2>3
<1> QED
  BY <1>3, <1>4, <1>5

LEMMA StartsAsPromised ==
    ASSUME AttemptInv, AttemptTypeOK', Restarts
    PROVE  Promise!PromiseNext
<1>0. AttemptTypeOK /\ kind \in Kinds
  BY Situation DEF AttemptInv
<1>1. /\ worker = "idle" /\ worker' = "starting" /\ driver'.at = 1 /\ kind' = kind
      /\ child # "running"
      /\ disk' = disk
  BY FreshDriver DEF Restarts, Begin, given, dirVars
<1>2. Stage = "none"
  BY <1>0, <1>1, StageIs DEF StageOf
<1>3. Stage' = "lifting"
  BY <1>0, <1>1, NextStageIs, Numbers DEF StageOf
<1>4. Promise!Start
  BY <1>1, <1>2, <1>3 DEF Promise!Start
<1> QED
  BY <1>4 DEF Promise!PromiseNext

(* Between the listing and the first write after the try, the session sees *)
(* nothing of the driver; then it sees each step.                          *)
LEMMA DriverAsPromised ==
    ASSUME AttemptInv, AttemptTypeOK', DriverStep
    PROVE  [Promise!PromiseNext]_(Promise!promiseVars)
<1> DEFINE T == TailAt(kind)
<1>0. /\ AttemptTypeOK /\ kind \in Kinds /\ driver \in DriverType(kind)
      /\ driver.at \in Nat /\ T \in Nat /\ T >= 9 /\ DiskType
      /\ driver.fatal \in BOOLEAN
      /\ ListAt(kind) \in Nat /\ ListAt(kind) + 5 < T
      /\ LiftAt(kind) \in Nat /\ LiftAt(kind) < T /\ ListAt(kind) < T
  BY Situation, Numbers, TypeParts DEF AttemptInv, Typed, DriverType
<1>1. /\ kind' = kind /\ attempt' = attempt /\ worker' = worker /\ status' = status
      /\ child = "running" /\ child' = child
  BY DriverAlone DEF given, Running
<1> HIDE DEF T
<1>2. Stage = StageOf(worker, child, kind, driver.at)
      /\ Stage' = StageOf(worker, child, kind, driver'.at)
  BY <1>0, <1>1, StageIs, NextStageIs
<1>3. ASSUME driver.at < T, driver'.at \in Nat, driver'.at <= T,
             disk'["summary"] = disk["summary"], disk'["records"] = disk["records"]
      PROVE  UNCHANGED Promise!promiseVars
  <2>1. Stage = "lifting" /\ Stage' = "lifting"
    BY <1>0, <1>1, <1>2, <1>3 DEF StageOf, T
  <2> QED
    BY <1>1, <1>3, <2>1, Unseen
<1>4. CASE Plain
  <2>1. Moves /\ disk' = disk
    BY <1>0, <1>4, PlainMoves
    DEF Plain, Passes, Import, Save, Analyze, UseTool, dirVars
  <2>2. Step \in {"start", "load", "close", "import", "save", "analyze", "spawn",
                  "wait", "quit"}
    BY <1>4 DEF Plain, Passes, Import, Save, Analyze, UseTool, Does
  <2>3. driver.at < T
    <3>1. driver.at <= T + 4
      BY <1>0, Here, Numbers DEF T
    <3>2. driver.at \notin {T, T + 1, T + 2, T + 3, T + 4}
      BY <2>2, <1>0, Situation, Numbers DEF Step, Places, T
    <3> QED
      BY <1>0, <3>1, <3>2
  <2>4. driver'.at \in Nat /\ driver'.at <= T
    BY <1>0, <2>1, <2>3 DEF Moves
  <2> QED
    BY <1>3, <2>1, <2>3, <2>4
<1>5. CASE List \/ Split \/ Lift
  <2>1. disk' = disk
    BY <1>5 DEF List, Split, Lift, dirVars
  <2>2. driver'.at \in {driver.at, driver.at + 1}
    BY <1>0, <1>5 DEF List, Split, Lift, Goes, DriverType
  <2>3. driver.at \in {ListAt(kind), LiftAt(kind), 8}
    BY <1>5, Situation DEF List, Split, Lift, Does, Step, Places
  <2>4. driver.at < T
    BY <1>0, <2>3
  <2> QED
    BY <1>0, <1>3, <2>1, <2>2, <2>4
<1>6. CASE Raises
  <2>1. /\ disk' = disk /\ driver.at < T
        /\ driver'.at \in ClosingAt(kind)..T
    BY <1>0, <1>6, RaisesGoes DEF T
  <2>2. driver'.at \in Nat /\ driver'.at <= T
    BY <1>0, <2>1, Numbers
  <2> QED
    BY <1>3, <2>1, <2>2
<1>7. ASSUME NEW f \in {"functions", "dump"}, OpenFile(f) \/ FillFile(f)
      PROVE  UNCHANGED Promise!promiseVars
  <2>1. /\ disk'["summary"] = disk["summary"] /\ disk'["records"] = disk["records"]
        /\ driver'.at = driver.at + 1
    BY <1>0, <1>7, FileNames DEF OpenFile, FillFile, Goes, DriverType, DiskType
  <2>2. driver.at < T
    <3>1. Step \in {Opening[f], Filling[f]}
      BY <1>7 DEF OpenFile, FillFile, Does
    <3>2. driver.at <= FilledAt(kind, f)
      BY <1>0, <3>1, WritePlaces, FillPlaces, FileNames
    <3>3. FilledAt(kind, f) <= ListAt(kind) + 5 /\ FilledAt(kind, f) \in Nat
      BY <1>0, <1>7, FillPlaces
    <3> QED
      BY <1>0, <3>2, <3>3
  <2> QED
    BY <1>0, <1>3, <2>1, <2>2
<1>8. ASSUME NEW f \in {"summary", "records"}, OpenFile(f) \/ FillFile(f)
      PROVE  Promise!PromiseNext
  <2>1. driver'.at = driver.at + 1 /\ driver'.fatal = driver.fatal
    BY <1>0, <1>8 DEF OpenFile, FillFile, Goes, DriverType
  <2>2. CASE OpenFile("summary")
    <3>1. driver.at = T
      BY <1>0, <2>2, WritePlaces, FillPlaces, FileNames DEF OpenFile, Does, T
    <3>2. Stage = "lifting" /\ Stage' = "summary"
      BY <1>0, <1>1, <1>2, <2>1, <3>1 DEF StageOf, T
    <3>3. disk'["summary"].whole = FALSE /\ disk'["records"] = disk["records"]
      BY <1>0, <2>2, FileNames DEF OpenFile, DiskType
    <3>4. Promise!Summarise
      BY <1>1, <3>2, <3>3 DEF Promise!Summarise
    <3> QED
      BY <3>4 DEF Promise!PromiseNext
  <2>3. CASE FillFile("summary")
    <3>1. driver.at = T + 1
      BY <1>0, <2>3, WritePlaces, FillPlaces, FileNames DEF FillFile, Does, T
    <3>2. Stage = "summary" /\ Stage' = "summarised"
      BY <1>0, <1>1, <1>2, <2>1, <3>1 DEF StageOf, T
    <3>3. /\ disk'["summary"].whole = TRUE /\ disk'["records"] = disk["records"]
          /\ disk'["summary"].data = driver.fatal
      BY <1>0, <2>3, FileNames, ContentsAre DEF FillFile, DiskType
    <3>4. Promise!Summarise
      BY <1>0, <1>1, <2>1, <3>2, <3>3 DEF Promise!Summarise, Verdict
    <3> QED
      BY <3>4 DEF Promise!PromiseNext
  <2>4. CASE OpenFile("records")
    <3>1. driver.at = T + 2
      BY <1>0, <2>4, WritePlaces, FillPlaces, FileNames DEF OpenFile, Does, T
    <3>2. Stage = "summarised" /\ Stage' = "records"
      BY <1>0, <1>1, <1>2, <2>1, <3>1 DEF StageOf, T
    <3>3. disk'["records"].whole = FALSE /\ disk'["summary"] = disk["summary"]
      BY <1>0, <2>4, FileNames DEF OpenFile, DiskType
    <3>4. Promise!Record
      BY <1>1, <2>1, <3>2, <3>3 DEF Promise!Record
    <3> QED
      BY <3>4 DEF Promise!PromiseNext
  <2>5. CASE FillFile("records")
    <3>1. driver.at = T + 3
      BY <1>0, <2>5, WritePlaces, FillPlaces, FileNames DEF FillFile, Does, T
    <3>2. Stage = "records" /\ Stage' = "returns"
      BY <1>0, <1>1, <1>2, <2>1, <3>1 DEF StageOf, T
    <3>3. disk'["records"].whole = TRUE /\ disk'["summary"] = disk["summary"]
      BY <1>0, <2>5, FileNames DEF FillFile, DiskType
    <3>4. Promise!Record
      BY <1>1, <2>1, <3>2, <3>3 DEF Promise!Record
    <3> QED
      BY <3>4 DEF Promise!PromiseNext
  <2> QED
    BY <1>8, <2>2, <2>3, <2>4, <2>5
<1> QED
  BY DriverKinds, FileNames, <1>4, <1>5, <1>6, <1>7, <1>8 DEF Writes

LEMMA StepsAsPromised ==
    AttemptInv /\ AttemptTypeOK' /\ [Next]_vars =>
        [Promise!PromiseNext]_(Promise!promiseVars)
<1> SUFFICES ASSUME AttemptInv, AttemptTypeOK', [Next]_vars
             PROVE  [Promise!PromiseNext]_(Promise!promiseVars)
  OBVIOUS
<1>0. /\ AttemptTypeOK /\ ReapInv /\ kind \in Kinds /\ driver.at \in Nat
      /\ TailAt(kind) \in Nat /\ TailAt(kind) >= 9
  BY Situation, Numbers DEF AttemptInv
<1>s. /\ Stage = StageOf(worker, child, kind, driver.at)
      /\ Stage' = StageOf(worker', child', kind', driver'.at)
  BY <1>0, StageIs, NextStageIs
<1>1. CASE Waits /\ worker # "idle" /\ worker' = "idle"
  BY <1>1, EndsAsPromised
<1>2. CASE Waits /\ ~ (worker # "idle" /\ worker' = "idle")
  <2>1. /\ kind' = kind /\ driver' = driver /\ attempt' = attempt /\ disk' = disk
        /\ worker = "idle" <=> worker' = "idle"
        /\ worker = "idle" => status' = status
        /\ worker = "idle" => (child' = "running" <=> child = "running")
    BY <1>2 DEF Waits, given, dirVars
  <2>2. Stage' = Stage
    BY <1>s, <2>1 DEF StageOf
  <2> QED
    BY <2>1, <2>2, Unseen
<1>3. CASE Stops
  <2>1. /\ kind' = kind /\ attempt' = attempt /\ disk' = disk
        /\ child = "running" /\ child' # "running"
        /\ worker = "idle" <=> worker' = "idle"
    BY <1>3 DEF Stops, given, dirVars
  <2>4. CASE worker = "idle"
    <3>1. Stage # "none" /\ Stage' = "none"
      BY <1>s, <2>1, <2>4 DEF StageOf
    <3>2. status = "crashed" /\ status' = "crashed" /\ attempt \in Attempts
      BY <1>0, <1>3, <2>1, <2>4, RunningIs DEF Stops, Running, AttemptInv, WhereInv
    <3>3. attempt # 0
      BY <3>2 DEF Attempts
    <3>4. Promise!Die
      BY <2>1, <2>4, <3>1, <3>2, <3>3 DEF Promise!Die, Promise!Over
    <3> QED
      BY <3>4 DEF Promise!PromiseNext
  <2>2. CASE worker # "idle" /\ driver.at <= TailAt(kind)
    <3>1. driver'.at = 1
      BY <1>3, <2>2, FreshDriver DEF Stops, MemoryGone
    <3>2. Stage = "lifting" /\ Stage' = "lifting"
      BY <1>0, <1>s, <2>1, <2>2, <3>1 DEF StageOf
    <3> QED
      BY <2>1, <2>2, <3>2, Unseen
  <2>3. CASE worker # "idle" /\ ~ (driver.at <= TailAt(kind))
    <3>1. driver'.at = driver.at /\ driver'.fatal = driver.fatal
      BY <1>3, <2>3 DEF Stops, MemoryGone, NotRunning
    <3>2. Stage' = Stage
      BY <1>s, <2>1, <2>3, <3>1 DEF StageOf
    <3> QED
      BY <2>1, <2>3, <3>1, <3>2, Unseen
  <2> QED
    BY <2>2, <2>3, <2>4
<1>4. CASE Restarts
  BY <1>4, StartsAsPromised
<1>5. CASE DriverStep
  BY <1>5, DriverAsPromised
<1>6. CASE Tools
  <2>1. /\ kind' = kind /\ driver' = driver /\ attempt' = attempt /\ disk' = disk
        /\ worker' = worker /\ status' = status /\ child' = child
    BY <1>6 DEF Tools, ToolWrites, OrphanEnds, given, reapVars, dirVars
  <2>2. Stage' = Stage
    BY <1>s, <2>1 DEF StageOf
  <2> QED
    BY <2>1, <2>2, Unseen
<1> QED
  BY <1>0, <1>1, <1>2, <1>3, <1>4, <1>5, <1>6, StepKinds

LEMMA StartsPromised == Init => Promise!PromiseInit
<1> SUFFICES ASSUME Init
             PROVE  Promise!PromiseInit
  OBVIOUS
<1>1. /\ worker = "idle" /\ attempt = 0 /\ child = "none"
      /\ disk["summary"].whole = FALSE /\ disk["records"].whole = FALSE
  BY FileNames DEF Init, ReapInit
<1>2. Stage = "none"
  BY <1>1 DEF Stage
<1> QED
  BY <1>1, <1>2 DEF Promise!PromiseInit

(* With its threads, races, tools and the remains of earlier attempts, an  *)
(* attempt is no more to the session than LiftSession takes it to be: the  *)
(* detailed specification implements BackendPromise.                       *)
THEOREM AttemptKeepsPromise == Spec => KeepsPromise
BY StartsPromised, StepsAsPromised, AttemptInvariant, AttemptTypeCorrect, PTL
DEF Spec, KeepsPromise, Promise!PromiseSpec

=============================================================================
