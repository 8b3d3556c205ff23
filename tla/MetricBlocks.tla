---------------------------- MODULE MetricBlocks ----------------------------
(***************************************************************************)
(* pipeline/metrics/blocks/*.py: what each block computes.  runs is the    *)
(* manifest's list as load_runs returns it; a run is a record              *)
(*   backend, status, arch, bits, group (the rest of the binary's          *)
(*   metadata), image (the instructions the ELF has at an address),        *)
(*   wall, duration, rss (its measurements);                               *)
(* what metadata.json does not say is None.  seen[i] is the output         *)
(* directory of runs[i] as the block found it: sizes, records, torn (the   *)
(* records do not parse), ll and dsm (see IRAccounting!Outputs).           *)
(* A block's rows are the lines of its CSV; its summary is its JSON.       *)
(***************************************************************************)
EXTENDS IRAccounting

IR_SIZE_FIELDS == Nesting \cup {"pyghidra", "retdec", "r2"}

FunctionBlocks ==
    {"expansion_ratio", "temporaries", "nesting_depth", "ssa_operations",
     "escape_fraction"}

RunBlocks == {"cost", "error_rate_by_category"}

PairBlocks ==
    {"weighted_jaccard", "jsd_similarity", "ir_size_cv",
     "cyclomatic_complexity_delta"}

BLOCKS == FunctionBlocks \cup RunBlocks \cup PairBlocks

\* a missing or unreadable file counts as no records
load_lift_records(d) == IF d.torn THEN <<>> ELSE d.records

OkRecords(d) ==
    {j \in DOMAIN load_lift_records(d) : load_lift_records(d)[j].status = "ok"}

\* the runs a block looks at.  run_lifting never writes the status "error".
Completed(block, run) ==
    CASE block = "error_rate_by_category" -> run.status \in {"ok", "error"}
      [] block \in {"expansion_ratio", "ir_size_cv"} ->
            run.status = "ok" /\ run.backend \in IR_SIZE_FIELDS
      [] block = "nesting_depth"   -> run.status = "ok" /\ run.backend \in Nesting
      [] block = "ssa_operations"  ->
            run.status = "ok" /\ run.backend \in Bnil \cup {"angr"}
      [] block = "escape_fraction" -> run.status = "ok" /\ run.backend # "retdec"
      [] OTHER                     -> run.status = "ok"

HasArch(run) == run.arch # None /\ run.bits # None

----------------------------------------------------------------------------
(* One value, or several, for each lifted function or each run. *)

RATIO_CATEGORIES == {"arithmetic", "control", "memory"}

\* RetDec's numbers are parsed now, from the .ll and .dsm of the directory; a
\* function they lack counts zero
LlCounts(d, name) ==
    IF name \in DOMAIN d.ll THEN retdec_ir_counts(d.ll[name]) ELSE NoCounts

DsmCounts(run, d, name) ==
    IF HasArch(run) /\ name \in DOMAIN d.dsm
    THEN EachDecoded(d.dsm[name], run.arch, run.bits) ELSE NoCounts

NativeCounts(run, d, rec) ==
    IF run.backend = "retdec" THEN DsmCounts(run, d, rec.function) ELSE rec.native

NativeTotal(run, d, rec) ==
    IF run.backend = "retdec" THEN Total(DsmCounts(run, d, rec.function))
    ELSE rec.num_native

IrCounts(run, d, rec, gran) ==
    IF run.backend = "retdec" THEN LlCounts(d, rec.function)
    ELSE IF gran = "ast" /\ rec.ast # None THEN rec.ast
    ELSE rec.ops

ExpansionValues(run, d, rec) ==
    [key \in {"ops", "ast"} \X ({"all"} \cup RATIO_CATEGORIES) |->
        LET counts == IrCounts(run, d, rec, key[1])
        IN  IF key[2] = "all"
            THEN expansion_ratio(Total(counts), NativeTotal(run, d, rec))
            ELSE expansion_ratio(counts[key[2]], NativeCounts(run, d, rec)[key[2]])]

TempVars(run, d, rec) ==
    IF run.backend # "retdec" THEN rec.temps
    ELSE IF rec.function \in DOMAIN d.ll THEN retdec_temps(d.ll[rec.function])
    ELSE 0

FunctionValues(block, run, d, rec) ==
    CASE block = "expansion_ratio" -> ExpansionValues(run, d, rec)
      [] block = "temporaries" ->
            [per_instr |-> expansion_ratio(TempVars(run, d, rec),
                                           NativeTotal(run, d, rec))]
      [] block = "nesting_depth" ->
            [mean |-> expansion_ratio(rec.sum_depth, rec.ir_size),
             deepest |-> Whole(rec.max_depth)]
      [] block = "ssa_operations" ->
            [ratio |-> expansion_ratio(rec.ssa, rec.ir_size),
             number |-> Whole(rec.ssa)]
      [] block = "escape_fraction" ->
            [fraction |-> IF run.backend = "r2"
                          THEN expansion_ratio(rec.uncovered, rec.num_native)
                          ELSE expansion_ratio(rec.escapes, rec.ir_size)]

\* the machine instructions of the run's functions with this record status,
\* read from the ELF at the addresses of functions.json
AttemptedCounts(run, d, status) ==
    LET recs  == load_lift_records(d)
        tried == {j \in DOMAIN recs : /\ recs[j].status = status
                                      /\ recs[j].address \in DOMAIN d.sizes}
        code(j) == ElfRead(run.image, recs[j].address, d.sizes[recs[j].address])
        counts  == [j \in tried |-> classify_bytes(code(j),
                                        arch_family(run.arch, run.bits))]
    IN  IF HasArch(run) /\ make_disassembler(run.arch, run.bits)
        THEN [c \in CATEGORIES |-> Total([j \in tried |-> counts[j][c]])]
        ELSE NoCounts

RunValues(block, run, d) ==
    IF block = "cost"
    THEN [lifting_time_s |-> Whole(run.wall),
          internal_lifting_time_s |-> Whole(run.duration),
          max_rss_kb |-> Whole(run.rss)]
    ELSE LET good == AttemptedCounts(run, d, "ok")
             bad  == AttemptedCounts(run, d, "error")
         IN  [c \in CATEGORIES |-> expansion_ratio(bad[c], good[c] + bad[c])]

HasValue(values) == \E k \in DOMAIN values : values[k] # None

\* a row without a value is left out, never written as zero; cost has a row of
\* every ok run
Kept(block, values) ==
    CASE block = "cost"           -> TRUE
      [] block = "nesting_depth"  -> values["mean"] # None
      [] block = "ssa_operations" -> values["ratio"] # None
      [] OTHER                    -> HasValue(values)

RowsOf(block, run, d, i) ==
    IF block \in RunBlocks
    THEN {[run |-> i, at |-> 0, values |-> RunValues(block, run, d)]}
    ELSE {[run |-> i, at |-> j,
           values |-> FunctionValues(block, run, d, load_lift_records(d)[j])] :
              j \in OkRecords(d)}

Rows(block, runs, seen) ==
    {r \in UNION {RowsOf(block, runs[i], seen[i], i) :
                    i \in {i \in DOMAIN runs : Completed(block, runs[i])}} :
        Kept(block, r.values)}

Values(rows, k) == [r \in rows |-> r.values[k]]

Keys(block) ==
    CASE block = "expansion_ratio" ->
            {"ops", "ast"} \X ({"all"} \cup RATIO_CATEGORIES)
      [] block = "temporaries"     -> {"per_instr"}
      [] block = "nesting_depth"   -> {"mean", "deepest"}
      [] block = "ssa_operations"  -> {"ratio", "number"}
      [] block = "escape_fraction" -> {"fraction"}
      [] block = "cost"            ->
            {"lifting_time_s", "internal_lifting_time_s", "max_rss_kb"}
      [] OTHER                     -> CATEGORIES

BackendArch(run) == <<run.backend, run.arch, run.bits>>

\* error_rate_by_category counts every attempted run of a backend that has a
\* rate, whether or not the run itself has one
ArchRuns(block, runs, rows) ==
    {i \in DOMAIN runs :
        /\ HasArch(runs[i])
        /\ IF block = "error_rate_by_category"
           THEN /\ Completed(block, runs[i])
                /\ \E r \in rows : runs[r.run].backend = runs[i].backend
           ELSE \E r \in rows : r.run = i /\ HasValue(r.values)}

\* evaluated is num_functions_evaluated, or cost's num_runs_ok; a backend and
\* an architecture come with their first value
RowSummary(block, runs, seen, rows) ==
    LET of(b)  == {r \in rows : runs[r.run].backend = b}
        at(ba) == {r \in rows : BackendArch(runs[r.run]) = ba}
        with   == ArchRuns(block, runs, rows)
        failed(i) == Total(AttemptedCounts(runs[i], seen[i], "error")) > 0
    IN  [evaluated |-> Cardinality(rows),
         considered |-> Cardinality({i \in DOMAIN runs : Completed(block, runs[i])}),
         metrics |-> [k \in Keys(block) |->
                        OrNothing(aggregate_stats(Values(rows, k)))],
         by_backend |-> [b \in {runs[r.run].backend :
                                 r \in {r \in rows : HasValue(r.values)}} |->
                            [k \in Keys(block) |->
                                aggregate_stats(Values(of(b), k))]],
         by_arch |-> [ba \in {BackendArch(runs[i]) : i \in with} |->
                        [k \in Keys(block) |->
                            aggregate_stats_with_iqr(Values(at(ba), k))]],
         errors |-> IF block # "error_rate_by_category" THEN {}
                    ELSE {<<ba, Cardinality({i \in with : BackendArch(runs[i]) = ba}),
                            Cardinality({i \in with : BackendArch(runs[i]) = ba
                                                        /\ failed(i)})>> :
                            ba \in {BackendArch(runs[i]) : i \in with}}]

----------------------------------------------------------------------------
(* One value for each function that two architecture builds share. *)

SameGroup(r, s) == r.group = s.group /\ r.backend = s.backend

Label(run) == <<run.arch, run.bits>>

Comparable(block, runs) ==
    {i \in DOMAIN runs : Completed(block, runs[i]) /\ HasArch(runs[i])}

\* A slip: every run of the group
ChosenAll(block, runs) == Comparable(block, runs)

\* groups[key].setdefault(label, run): the first run of a label stands for it
Chosen(block, runs) ==
    {i \in Comparable(block, runs) :
        \A j \in Comparable(block, runs) :
            SameGroup(runs[i], runs[j]) /\ Label(runs[i]) = Label(runs[j]) => i <= j}

Pairs(block, runs) ==
    {p \in Chosen(block, runs) \X Chosen(block, runs) :
        p[1] < p[2] /\ SameGroup(runs[p[1]], runs[p[2]])}

\* the two labels in sorted order, which is a set
arch_pair_label(a, b) == {a, b}

classify_arch_pair(pair) ==
    IF Cardinality({l[2] : l \in pair}) = 1 THEN "pure_arch"
    ELSE IF Cardinality({l[1] : l \in pair}) = 1 THEN "pure_bits"
    ELSE "confounded"

PairType == {"pure_arch", "pure_bits", "confounded"}

\* RetDec's histograms and graphs come from the .ll, its sizes from the records
FromLl(block, run) == run.backend = "retdec" /\ block # "ir_size_cv"

\* A slip: a size of zero taken for no size
NamesOkTruthy(block, run, d) ==
    IF FromLl(block, run) THEN DOMAIN d.ll
    ELSE {load_lift_records(d)[j].function : j \in
            {j \in OkRecords(d) :
                block = "ir_size_cv" => load_lift_records(d)[j].ir_size > 0}}

NamesOk(block, run, d) ==
    IF FromLl(block, run) THEN DOMAIN d.ll
    ELSE {load_lift_records(d)[j].function : j \in OkRecords(d)}

LastRecord(d, name) ==
    load_lift_records(d)[Max({j \in OkRecords(d) :
                                load_lift_records(d)[j].function = name})]

Datum(block, run, d, name) ==
    IF FromLl(block, run)
    THEN IF block = "cyclomatic_complexity_delta"
         THEN cyclomatic_complexity(retdec_cfg_blocks(d.ll[name]),
                                    retdec_cfg_edges(d.ll[name]))
         ELSE retdec_op_histogram(d.ll[name])
    ELSE LET rec == LastRecord(d, name)
         IN  CASE block = "ir_size_cv" -> rec.ir_size
               [] block = "cyclomatic_complexity_delta" ->
                    cyclomatic_complexity(rec.blocks, rec.edges)
               [] OTHER -> rec.histogram

Distance(m, n) == IF m < n THEN n - m ELSE m - n

Comparison(block, x, y) ==
    IF x = None \/ y = None THEN None
    ELSE CASE block = "weighted_jaccard" -> weighted_jaccard(x, y)
           [] block = "jsd_similarity"   -> jensen_shannon_similarity(x, y)
           [] block = "ir_size_cv"       -> coefficient_of_variation(<<x, y>>)
           [] OTHER                      -> Whole(Distance(x, y))

NamesAt(block, runs, seen, i) == NamesOk(block, runs[i], seen[i])

Matched(block, runs, seen, p) ==
    NamesAt(block, runs, seen, p[1]) \cap NamesAt(block, runs, seen, p[2])

\* A slip: over the functions of the first build
match_rateOfFirst(block, runs, seen, p) ==
    expansion_ratio(Cardinality(Matched(block, runs, seen, p)),
                    Cardinality(NamesAt(block, runs, seen, p[1])))

match_rate(block, runs, seen, p) ==
    expansion_ratio(Cardinality(Matched(block, runs, seen, p)),
                    Cardinality(NamesAt(block, runs, seen, p[1])
                                  \cup NamesAt(block, runs, seen, p[2])))

PairRows(block, runs, seen) ==
    LET at(i, n) == Datum(block, runs[i], seen[i], n)
        row(p, n) == [pair |-> p, function |-> n,
                      value |-> Comparison(block, at(p[1], n), at(p[2], n))]
    IN  {r \in UNION {{row(p, n) : n \in Matched(block, runs, seen, p)} :
                        p \in Pairs(block, runs)} : r.value # None}

PairSummary(block, runs, seen, rows) ==
    LET label(p) == arch_pair_label(Label(runs[p[1]]), Label(runs[p[2]]))
        stats(some) == aggregate_stats([r \in some |-> r.value])
        rates(some) == aggregate_stats([p \in some |->
                                            match_rate(block, runs, seen, p)])
        pairs == Pairs(block, runs)
        backend(r) == runs[r.pair[1]].backend
        typed(t) == {r \in rows : classify_arch_pair(label(r.pair)) = t}
    IN  [groups |-> Cardinality({<<runs[p[1]].group, runs[p[1]].backend>> : p \in pairs}),
         evaluated |-> Cardinality(rows),
         metric |-> OrNothing(stats(rows)),
         match |-> OrNothing(rates(pairs)),
         by_backend |-> [b \in {backend(r) : r \in rows} |->
                            stats({r \in rows : backend(r) = b})],
         by_arch_pair |-> [l \in {label(r.pair) : r \in rows} |->
                            <<stats({r \in rows : label(r.pair) = l}),
                              rates({p \in pairs : label(p) = l})>>],
         by_pair_type |-> [t \in PairType |->
                            [b \in {backend(r) : r \in typed(t)} |->
                                aggregate_stats_with_iqr(
                                    [r \in {r \in typed(t) : backend(r) = b} |-> r.value])]]]

----------------------------------------------------------------------------
\* BLOCKS[block](runs, results_dir)
compute(block, runs, seen) ==
    IF block \in PairBlocks
    THEN LET rows == PairRows(block, runs, seen)
         IN  [rows |-> rows, summary |-> PairSummary(block, runs, seen, rows)]
    ELSE LET rows == Rows(block, runs, seen)
         IN  [rows |-> rows, summary |-> RowSummary(block, runs, seen, rows)]
=============================================================================
