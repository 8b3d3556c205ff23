--------------------------- MODULE BackendDrivers ---------------------------
(***************************************************************************)
(* The run() of each backend driver under pipeline/backends/, as the steps *)
(* it takes in order.  A step is a name; BackendAttempt says what it does. *)
(*                                                                         *)
(*   body     the steps inside try, the first of them "start": imports,    *)
(*            arguments and directories, which run before the try          *)
(*   opened   how many of them must be over before closing is owed         *)
(*   closing  the finally that closes the tool                             *)
(*   caught   whether what closing raises is caught as a fatal_error       *)
(*   skips    whether external functions are skipped instead of lifted     *)
(***************************************************************************)
EXTENDS Naturals, Sequences

(* functions.json and whole_binary.* are emptied by open() and filled      *)
(* later.                                                                  *)
Opening == [functions |-> "open_functions", dump |-> "open_dump",
            summary |-> "open_summary", records |-> "open_records"]
Filling == [functions |-> "fill_functions", dump |-> "fill_dump",
            summary |-> "fill_summary", records |-> "fill_records"]

AngrRun ==
    [body |-> <<"start", "load", "list", "open_functions", "fill_functions",
                "lift", "open_dump", "fill_dump">>,
     opened |-> 2, closing |-> <<>>, caught |-> TRUE, skips |-> TRUE]

(* close_database stands in the finally of the try that has the except.    *)
IdaRun ==
    [body |-> <<"start", "load", "list", "open_functions", "fill_functions",
                "lift", "open_dump", "fill_dump">>,
     opened |-> 2, closing |-> <<"close">>, caught |-> FALSE, skips |-> TRUE]

PyghidraRunUnanalyzed ==
    [body |-> <<"start", "load", "import", "save", "list", "open_functions",
                "fill_functions", "lift", "open_dump", "fill_dump">>,
     opened |-> 4, closing |-> <<"close">>, caught |-> TRUE, skips |-> TRUE]

(* The Ghidra project stays on the disk; the program is saved in it when   *)
(* it is imported, before it is analysed, and never again.                 *)
PyghidraRun ==
    [body |-> <<"start", "load", "import", "save", "analyze", "list",
                "open_functions", "fill_functions", "lift", "open_dump",
                "fill_dump">>,
     opened |-> 5, closing |-> <<"close">>, caught |-> TRUE, skips |-> TRUE]

R2Run ==
    [body |-> <<"start", "spawn", "list", "open_functions", "fill_functions",
                "lift", "open_dump", "fill_dump">>,
     opened |-> 2, closing |-> <<"quit">>, caught |-> TRUE, skips |-> FALSE]

(* The .ll is copied to whole_binary.ll before the records are made.       *)
RetdecRun ==
    [body |-> <<"start", "load", "spawn", "wait", "list", "open_functions",
                "fill_functions", "split", "open_dump", "fill_dump", "lift">>,
     opened |-> 4, closing |-> <<>>, caught |-> TRUE, skips |-> FALSE]

BinjaHlilRun ==
    [body |-> <<"start", "load", "list", "open_functions", "fill_functions",
                "lift", "open_dump", "fill_dump">>,
     opened |-> 2, closing |-> <<"close">>, caught |-> TRUE, skips |-> FALSE]

BinjaMlilRun == BinjaHlilRun

BinjaLlilRun == BinjaHlilRun

Driver ==
    [angr |-> AngrRun, ida |-> IdaRun, pyghidra |-> PyghidraRun, r2 |-> R2Run,
     retdec |-> RetdecRun, binja_hlil |-> BinjaHlilRun,
     binja_mlil |-> BinjaMlilRun, binja_llil |-> BinjaLlilRun]

Kinds == DOMAIN Driver

EndingSwapped ==
    <<"open_records", "fill_records", "open_summary", "fill_summary", "return">>

(* Common to all, after the try:  write_summary, lift_records.json and    *)
(* the exit status.                                                        *)
Ending ==
    <<"open_summary", "fill_summary", "open_records", "fill_records", "return">>

ClosingAt(k) == Len(Driver[k].body) + 1

TailAt(k) == ClosingAt(k) + Len(Driver[k].closing)

ReturnAt(k) == TailAt(k) + 4

(* The i-th step of k's run().                                             *)
StepAt(k, i) ==
    IF i < ClosingAt(k) THEN Driver[k].body[i]
    ELSE IF i < TailAt(k) THEN Driver[k].closing[i - ClosingAt(k) + 1]
    ELSE Ending[i - TailAt(k) + 1]

(* The first N functions, or all of them.                                  *)
Limited(functions, limit) ==
    SubSeq(functions, 1, IF limit < Len(functions) THEN limit ELSE Len(functions))
=============================================================================
