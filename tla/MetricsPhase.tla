---------------------------- MODULE MetricsPhase ----------------------------
(***************************************************************************)
(* pipeline/metrics/run_metrics.py over a results directory that           *)
(* run_lifting may be writing at the same time: nothing locks it.  An      *)
(* invocation loads manifest.json once, and then, block after block, reads *)
(* every run's output directory again, writes <block>.json and, when the   *)
(* block has rows, <block>.csv.  It may end between any two steps (Ctrl-C, *)
(* kill, an exception of a block or of a write).                           *)
(*                                                                         *)
(* The two sides:                                                          *)
(*   lifting   manifest, dir (the output directories, as the list of runs  *)
(*             has them), lifter (the attempt that is being repeated)      *)
(*   metrics   phase, todo (the blocks still to do), runs, seen (the       *)
(*             directories the current block has read), result, and its    *)
(*             outputs json and csv                                        *)
(* number counts the invocations; steady and complete only observe: nobody *)
(* lifted since the manifest was loaded; the last invocation that wrote    *)
(* all of a block's output.                                                *)
(***************************************************************************)
EXTENDS MetricBlocks, SequencesExt

CONSTANTS Manifests,       \* the lists of runs manifest.json may have
          Found(_),        \* what tools may find in the binary of such a run
          Requests,        \* --blocks
          MaxInvocations,  \* bound: invocations of run_metrics
          MaxLifts         \* bound: attempts repeated meanwhile

\* a run as the manifest has it, or as an attempt that is repeated leaves it
Attempted(run) == {run} \cup {[run EXCEPT !.status = s] : s \in {"ok", "timeout"}}

RunFields == {"status", "backend", "image", "wall", "duration", "rss"}

\* a backend that the metrics know, code that has an end, and measurements that
\* are numbers
Usual(run) ==
    /\ run.backend \in IR_SIZE_FIELDS
    /\ \A a \in DOMAIN run.image : Listed(run.image[a])
    /\ {run.wall, run.duration, run.rss} \subseteq Int \cup {None}

\* a tool finds finitely many functions, and presents each the way the code
\* relies on; no status run_one writes is "error"
\* (that is a status of records); nobody asks for nothing, or for one block twice
ASSUME MetricsAssumption ==
    /\ \A m \in Manifests :
          /\ m \in Seq(Range(m))
          /\ \A i \in DOMAIN m :
                /\ RunFields \subseteq DOMAIN m[i] /\ m[i].status # "error"
                /\ Usual(m[i])
                /\ \A run \in Attempted(m[i]) : \A units \in Found(run) :
                      PresentedAll(run.backend, units)
    /\ \A q \in Requests : q \in Seq(Range(q)) /\ q # <<>> /\ IsInjective(q)
    /\ MaxInvocations \in Nat /\ MaxLifts \in Nat

VARIABLES manifest, dir, lifter, lifts,
          command, phase, todo, runs, seen, result, json, csv,
          number, steady, complete

lifting == <<manifest, dir, lifter, lifts>>
outputs == <<json, csv, complete>>
vars == <<lifting, command, phase, todo, runs, seen, result, outputs, number, steady>>

NoLifter == [run |-> 0]

Init ==
    /\ manifest \in [state : {"whole", "missing"}, runs : Manifests]
    /\ dir \in {[i \in DOMAIN manifest.runs |-> Outputs(manifest.runs[i], pick[i])] :
                  pick \in {f \in [DOMAIN manifest.runs ->
                                    UNION {Found(manifest.runs[i]) :
                                             i \in DOMAIN manifest.runs}] :
                              \A i \in DOMAIN manifest.runs :
                                 f[i] \in Found(manifest.runs[i])}}
    /\ lifter = NoLifter /\ lifts = 0
    /\ command \in Requests
    /\ phase = "idle" /\ todo = <<>> /\ runs = <<>> /\ seen = <<>>
    /\ result = None
    /\ json = [b \in BLOCKS |-> [number |-> 0, whole |-> FALSE, summary |-> None]]
    /\ csv = [b \in BLOCKS |-> [number |-> 0, lines |-> 0]]
    /\ number = 0 /\ steady = FALSE /\ complete = [b \in BLOCKS |-> 0]

----------------------------------------------------------------------------
(* run_lifting repeats an attempt: functions.json and the tool's own files
   first, lift_records.json last, the manifest after that. *)

Metrics == <<command, phase, todo, runs, seen, result, outputs, number>>

LiftLists(i) ==
    /\ lifter = NoLifter /\ manifest.state = "whole" /\ lifts < MaxLifts
    /\ \E units \in Found(manifest.runs[i]) :
         LET new == Outputs(manifest.runs[i], units)
         IN  /\ lifter' = [run |-> i, records |-> new.records, stage |-> "listed"]
             /\ dir' = [dir EXCEPT ![i].sizes = new.sizes, ![i].ll = new.ll,
                                   ![i].dsm = new.dsm]
    /\ lifts' = lifts + 1 /\ steady' = FALSE
    /\ UNCHANGED <<manifest, Metrics>>

\* write_json truncates the file, and then fills it
LiftTruncates ==
    /\ lifter # NoLifter /\ lifter.stage = "listed"
    /\ lifter' = [lifter EXCEPT !.stage = "torn"]
    /\ dir' = [dir EXCEPT ![lifter.run].torn = TRUE]
    /\ UNCHANGED <<manifest, lifts, steady, Metrics>>

LiftFills ==
    /\ lifter # NoLifter /\ lifter.stage = "torn"
    /\ lifter' = [lifter EXCEPT !.stage = "filled"]
    /\ dir' = [dir EXCEPT ![lifter.run].torn = FALSE,
                          ![lifter.run].records = lifter.records]
    /\ UNCHANGED <<manifest, lifts, steady, Metrics>>

\* the attempt is over, wherever it ended; "timeout" stands for every status
\* but "ok"
SaveTruncates ==
    /\ lifter # NoLifter /\ manifest.state = "whole"
    /\ manifest' = [manifest EXCEPT !.state = "torn"]
    /\ UNCHANGED <<dir, lifter, lifts, steady, Metrics>>

SaveFills ==
    /\ lifter # NoLifter /\ manifest.state = "torn"
    /\ \E status \in {"timeout"} \cup (IF lifter.stage = "filled" THEN {"ok"} ELSE {}) :
         manifest' = [manifest EXCEPT !.state = "whole",
                                      !.runs[lifter.run].status = status]
    /\ lifter' = NoLifter
    /\ UNCHANGED <<dir, lifts, steady, Metrics>>

----------------------------------------------------------------------------
(* run_metrics *)

Block == Head(todo)

\* unknown names in --blocks are refused
Invoke ==
    /\ phase = "idle" /\ number < MaxInvocations
    /\ Range(command) \subseteq BLOCKS
    /\ todo' = command /\ phase' = "load" /\ number' = number + 1
    /\ UNCHANGED <<lifting, command, runs, seen, result, outputs, steady>>

\* no manifest, or one that does not parse, ends the program
load_runs ==
    /\ phase = "load"
    /\ IF manifest.state = "whole"
       THEN /\ phase' = "read" /\ runs' = manifest.runs
            /\ steady' = (lifter = NoLifter) /\ UNCHANGED todo
       ELSE phase' = "idle" /\ todo' = <<>> /\ UNCHANGED <<runs, steady>>
    /\ UNCHANGED <<lifting, command, seen, result, outputs, number>>

ReadRun ==
    /\ phase = "read" /\ Len(seen) < Len(runs)
    /\ seen' = Append(seen, dir[Len(seen) + 1])
    /\ UNCHANGED <<lifting, command, phase, todo, runs, result, outputs, number, steady>>

Compute ==
    /\ phase = "read" /\ Len(seen) = Len(runs)
    /\ result' = compute(Block, runs, seen)
    /\ phase' = "json"
    /\ UNCHANGED <<lifting, command, todo, runs, seen, outputs, number, steady>>

\* A slip: a block without rows is not written at all
OpenJsonOfRows ==
    /\ phase = "json"
    /\ IF result.rows = {} THEN phase' = "next" /\ UNCHANGED json
       ELSE /\ json' = [json EXCEPT ![Block] =
                           [number |-> number, whole |-> FALSE, summary |-> None]]
            /\ phase' = "fill"
    /\ UNCHANGED <<lifting, command, todo, runs, seen, result, csv, complete, number,
                   steady>>

OpenJson ==
    /\ phase = "json"
    /\ json' = [json EXCEPT ![Block] =
                    [number |-> number, whole |-> FALSE, summary |-> None]]
    /\ phase' = "fill"
    /\ UNCHANGED <<lifting, command, todo, runs, seen, result, csv, complete, number, steady>>

\* without rows the block has no CSV, and an older one stays where it is
FillJson ==
    /\ phase = "fill"
    /\ json' = [json EXCEPT ![Block].whole = TRUE, ![Block].summary = result.summary]
    /\ phase' = IF result.rows = {} THEN "next" ELSE "csv"
    /\ UNCHANGED <<lifting, command, todo, runs, seen, result, csv, complete, number, steady>>

\* A slip: the file is opened for appending
OpenCsvAppend ==
    /\ phase = "csv"
    /\ csv' = [csv EXCEPT ![Block].number = number]
    /\ phase' = "rows"
    /\ UNCHANGED <<lifting, command, todo, runs, seen, result, json, complete, number,
                   steady>>

OpenCsv ==
    /\ phase = "csv"
    /\ csv' = [csv EXCEPT ![Block] = [number |-> number, lines |-> 0]]
    /\ phase' = "rows"
    /\ UNCHANGED <<lifting, command, todo, runs, seen, result, json, complete, number, steady>>

\* one row at a time, each flushed
WriteRow ==
    /\ phase = "rows"
    /\ IF csv[Block].lines < result.summary.evaluated
       THEN csv' = [csv EXCEPT ![Block].lines = @ + 1] /\ UNCHANGED phase
       ELSE phase' = "next" /\ UNCHANGED csv
    /\ UNCHANGED <<lifting, command, todo, runs, seen, result, json, complete, number, steady>>

NextBlock ==
    /\ phase = "next"
    /\ complete' = [complete EXCEPT ![Block] = number]
    /\ todo' = Tail(todo) /\ seen' = <<>> /\ result' = None
    /\ IF Tail(todo) = <<>> THEN phase' = "idle" /\ runs' = <<>>
       ELSE phase' = "read" /\ UNCHANGED runs
    /\ UNCHANGED <<lifting, command, json, csv, number, steady>>

Cut ==
    /\ phase # "idle"
    /\ phase' = "idle" /\ result' = None
    /\ runs' = <<>> /\ seen' = <<>> /\ todo' = <<>>
    /\ UNCHANGED <<lifting, command, outputs, number, steady>>

Next ==
    \/ \E i \in DOMAIN manifest.runs : LiftLists(i)
    \/ LiftTruncates \/ LiftFills \/ SaveTruncates \/ SaveFills
    \/ Invoke \/ load_runs \/ ReadRun \/ Compute
    \/ OpenJson \/ FillJson \/ OpenCsv \/ WriteRow \/ NextBlock \/ Cut

Spec == Init /\ [][Next]_vars

----------------------------------------------------------------------------
(* Properties. *)

Writing == phase \in {"json", "fill", "csv", "rows"}

\* In every record of every output directory the numbers agree with each other
\* (see RecordAgrees), whichever attempt left it there: sizes, flat and nested
\* counts, histogram, depths, escapes and control flow come from different
\* walks over the function (lift_function of every backend).
AccountsAgree ==
    \A i \in DOMAIN dir : \A j \in OkRecords(dir[i]) :
        RecordAgrees(manifest.runs[i].backend, dir[i].records[j])

\* A block speaks of nothing but functions that were lifted, in runs that
\* ended well, and says it once: a row of a comparison is about one function
\* that two builds of one binary have, under two different labels, and no two
\* rows are about the same pair of labels and function (the status filters,
\* the grouping and setdefault of blocks/*.py).
OnlyWhatWasLifted ==
    Writing =>
        IF Block \in PairBlocks
        THEN /\ \A r \in result.rows :
                    LET a == runs[r.pair[1]]
                        b == runs[r.pair[2]]
                    IN  /\ a.status = "ok" /\ b.status = "ok"
                        /\ a.backend = b.backend /\ a.group = b.group
                        /\ Label(a) # Label(b)
             /\ \A r, q \in result.rows :
                    /\ r.function = q.function
                    /\ SameGroup(runs[r.pair[1]], runs[q.pair[1]])
                    /\ {Label(runs[r.pair[1]]), Label(runs[r.pair[2]])}
                         = {Label(runs[q.pair[1]]), Label(runs[q.pair[2]])}
                    => r = q
        ELSE \A r \in result.rows :
                /\ runs[r.run].status = "ok"
                /\ r.at > 0 => /\ ~seen[r.run].torn
                               /\ seen[r.run].records[r.at].status = "ok"

\* The manifest's order is the order in which attempts happened to end: as
\* long as no two of its runs claim one label of one group, no block's
\* summary depends on it (itertools.combinations and _arch_pair_label sort).
OrderIrrelevant ==
    /\ phase = "json"
    /\ \A i, j \in DOMAIN runs :
          SameGroup(runs[i], runs[j]) /\ Label(runs[i]) = Label(runs[j]) => i = j
    => compute(Block, Reverse(runs), Reverse(seen)).summary = result.summary

\* The four comparison blocks gather their functions in three different ways.
\* In a results directory nobody was writing they compare the same groups and
\* report the same match rate; RetDec is left out, because ir_size_cv takes its names
\* from the records and the others from the .ll.  The two similarities also
\* cover the same functions (function_match_rate of agnosticism.py).
MatchRatesAgree ==
    LET fresh == {b \in PairBlocks : complete[b] = number /\ number > 0}
    IN  phase = "idle" /\ steady =>
            /\ \A b, c \in fresh :
                  /\ json[b].summary.groups = json[c].summary.groups
                  /\ (\A i \in DOMAIN manifest.runs : manifest.runs[i].backend # "retdec")
                        => json[b].summary.match = json[c].summary.match
            /\ {"weighted_jaccard", "jsd_similarity"} \subseteq fresh =>
                  json["weighted_jaccard"].summary.evaluated
                    = json["jsd_similarity"].summary.evaluated

\* No data is not zero.  If nobody was lifting, an expansion ratio of zero is
\* written only for a function whose record says it has no IR, and every
\* lifted function with machine code has its row (the two files that
\* expansion_ratio.py joins for RetDec are those of one attempt).
ZerosAreMeasured ==
    phase = "json" /\ steady /\ Block = "expansion_ratio" =>
        /\ \A r \in result.rows :
              LET v == r.values[<<"ops", "all">>]
                  rec == seen[r.run].records[r.at]
              IN  v # None /\ v[1] = 0 =>
                    rec.ir_size = 0 /\ runs[r.run].backend # "retdec"
        /\ \A i \in DOMAIN runs : runs[i].status = "ok" =>
              \A j \in OkRecords(seen[i]) :
                 NativeTotal(runs[i], seen[i], seen[i].records[j]) > 0
                   => \E r \in result.rows : r.run = i /\ r.at = j

\* What a statistic says is in order, down to the single value and the pair
\* (minimum, quartiles, maximum), and what is called a rate or a similarity
\* lies between 0 and 1 (formulas.py).
InOrder(stats) ==
    stats # None =>
        /\ AtMost(stats.min, stats.q1) /\ AtMost(stats.q1, stats.median)
        /\ AtMost(stats.median, stats.q3) /\ AtMost(stats.q3, stats.max)

Rate(stats) == stats # None /\ stats.n > 0 => IsRate(stats.min) /\ IsRate(stats.max)

StatsInOrder ==
    phase = "json" =>
        LET sum == result.summary
        IN  IF Block \in PairBlocks
            THEN /\ \A t \in PairType : \A b \in DOMAIN sum.by_pair_type[t] :
                        InOrder(sum.by_pair_type[t][b])
                 /\ Rate(sum.match)
                 /\ Block \in {"weighted_jaccard", "jsd_similarity"} => Rate(sum.metric)
            ELSE /\ \A ba \in DOMAIN sum.by_arch : \A k \in Keys(Block) :
                        InOrder(sum.by_arch[ba][k])
                 /\ Block \in {"escape_fraction", "error_rate_by_category"} =>
                        \A k \in Keys(Block) : Rate(sum.metrics[k])
                 /\ \A e \in sum.errors : e[3] <= e[2]

\* A CSV never runs ahead of its JSON.  It is of the same invocation as the
\* JSON or of an earlier one; once it is of the same one the JSON is whole and
\* announces at least the lines the CSV has, and exactly those when the
\* invocation got past the block and there were any (write_block_output).
CsvBelongsToJson ==
    \A b \in BLOCKS :
        /\ csv[b].number <= json[b].number
        /\ csv[b].number = json[b].number /\ csv[b].number > 0 =>
              json[b].whole /\ csv[b].lines <= json[b].summary.evaluated
        /\ complete[b] = json[b].number /\ complete[b] > 0 =>
              \/ json[b].summary.evaluated = 0
              \/ /\ csv[b].number = json[b].number
                 /\ csv[b].lines = json[b].summary.evaluated

\* An invocation that nobody lifted under leaves, for every block it got past,
\* the summary of the results directory as it is, whatever earlier ones and
\* earlier blocks left behind (main).
OutputsAreCurrent ==
    phase = "idle" /\ steady =>
        \A b \in BLOCKS :
            complete[b] = number /\ number > 0 =>
                /\ json[b].whole
                /\ json[b].summary = compute(b, manifest.runs, dir).summary
=============================================================================
