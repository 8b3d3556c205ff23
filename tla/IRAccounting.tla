---------------------------- MODULE IRAccounting ----------------------------
(***************************************************************************)
(* What the backends' lift_function counts in one lifted function, as it   *)
(* lands in lift_records.json, and what the metrics later count in a       *)
(* RetDec .ll.  A function, as its tool presents it, is a record u:        *)
(*   name, address, size, external (not to be lifted), broken (the lift    *)
(*           raises), insns (its machine instructions),                    *)
(*   temps, ssa  counts the tool itself hands out (None: no SSA form),     *)
(*   cfg     its IL blocks, each with its numbers of edges out and in,     *)
(*   instrs  its IL instructions.  An expression tree is the sequence of   *)
(*           its nodes in preorder, each with its operation and level      *)
(*           (the root has level 1); value: the place of the expression    *)
(*           that an assignment assigns; helper: an operand is a mop_h,    *)
(*   exits   angr: each block's jumpkind and the operations below its      *)
(*           target expression,                                            *)
(*   esil    radare2: per machine instruction its ESIL tokens, and whether *)
(*           its type is a valid one,                                      *)
(*   lines   RetDec: the .ll lines of its define block.                    *)
(* The operation tables are cut down to one member per kind of entry.      *)
(***************************************************************************)
EXTENDS MetricFormulas, NativeClassify

\* Python's None is no number, no fraction and no dict of counts
ASSUME NoneAssumption == None \notin Int \cup (Int \X Int) \cup [CATEGORIES -> Nat]

Bnil == {"binja_llil", "binja_mlil", "binja_hlil"}

\* backends whose IR nests expressions; Ghidra's P-code is one flat operation
Nesting == Bnil \cup {"angr", "ida"}

OneOf(control, memory, arithmetic, op) ==
    IF op \in control THEN "control"
    ELSE IF op \in memory THEN "memory"
    ELSE IF op \in arithmetic THEN "arithmetic"
    ELSE "other"

classify_il_operation(op) ==
    OneOf({"CALL", "IF", "RET"}, {"LOAD", "STORE"}, {"ADD", "CMP_E"}, op)

classify_mcode(op) ==
    OneOf({"m_call", "m_jcnd"}, {"m_ldx", "m_stx"}, {"m_add", "m_setz"}, op)

classify_pcode_op(op) ==
    OneOf({"CALL", "CALLOTHER", "RETURN"}, {"LOAD", "STORE"}, {"INT_ADD"}, op)

classify_vex_expr(op) == OneOf({}, {"Iex_Load"}, {"Iop_Add32"}, op)

classify_vex_statement_tag(tag) ==
    OneOf({"Ist_Exit"}, {"Ist_Store", "Ist_LoadG"}, {}, tag)

\* an assignment takes the label of what it assigns
ASSIGN == {"SET_REG", "SET_VAR", "ASSIGN"}

Labelled(instr) ==
    IF instr.nodes[1].op \in ASSIGN THEN instr.nodes[instr.value].op
    ELSE instr.nodes[1].op

classify_vex_statement_ops(stmt) ==
    IF stmt.nodes[1].op \in {"Ist_WrTmp", "Ist_Put"}
    THEN classify_vex_expr(stmt.nodes[stmt.value].op)
    ELSE classify_vex_statement_tag(stmt.nodes[1].op)

\* the label of an instruction as a whole
OpsLabel(backend, instr) ==
    IF backend = "angr" THEN classify_vex_statement_ops(instr)
    ELSE IF backend \in Bnil THEN classify_il_operation(Labelled(instr))
    ELSE IF backend = "ida" THEN classify_mcode(instr.nodes[1].op)
    ELSE classify_pcode_op(instr.nodes[1].op)

\* the label of the k-th node of its tree
AstLabel(backend, instr, k) ==
    LET op == instr.nodes[k].op
    IN  IF backend = "angr"
        THEN IF k = 1 THEN classify_vex_statement_tag(op) ELSE classify_vex_expr(op)
        ELSE IF backend \in Bnil THEN classify_il_operation(op)
        ELSE classify_mcode(op)

\* the instruction is what the IR falls back on when it has no operation
IsEscape(backend, instr) ==
    IF backend = "angr" THEN instr.nodes[1].op = "Ist_Dirty"
    ELSE IF backend \in Bnil THEN Labelled(instr) = "INTRINSIC"
    ELSE IF backend = "ida" THEN instr.helper
    ELSE instr.nodes[1].op = "CALLOTHER"

instruction_depth(instr) == Max({instr.nodes[k].level : k \in DOMAIN instr.nodes})

----------------------------------------------------------------------------
(* Sums over a function. *)

Total(counts) == MapThenSumSet(LAMBDA c : counts[c], DOMAIN counts)

TreeNodes(u) == UNION {{i} \X DOMAIN u.instrs[i].nodes : i \in DOMAIN u.instrs}

ExitNodes(u) == UNION {{i} \X DOMAIN u.exits[i].target : i \in DOMAIN u.exits}

ExitOp(u, p) == u.exits[p[1]].target[p[2]]

\* VEX keeps a block's terminator apart from its statements: it is added by
\* hand, as one control operation
Terminators(backend, u, c) ==
    IF backend = "angr" /\ c = "control" THEN Len(u.exits) ELSE 0

ir_ops(backend, u) ==
    [c \in CATEGORIES |->
        Cardinality({i \in DOMAIN u.instrs : OpsLabel(backend, u.instrs[i]) = c})
          + Terminators(backend, u, c)]

ir_ast(backend, u) ==
    [c \in CATEGORIES |->
        Cardinality({p \in TreeNodes(u) : AstLabel(backend, u.instrs[p[1]], p[2]) = c})
          + Terminators(backend, u, c)
          + (IF backend = "angr"
             THEN Cardinality({p \in ExitNodes(u) :
                                 classify_vex_expr(ExitOp(u, p)) = c})
             ELSE 0)]

NodeOp(u, p) == u.instrs[p[1]].nodes[p[2]].op

\* raw operation names; an angr block ends in its jumpkind
op_histogram(backend, u) ==
    LET angr  == backend = "angr"
        exits == IF angr THEN DOMAIN u.exits ELSE {}
        below == IF angr THEN ExitNodes(u) ELSE {}
        names == {NodeOp(u, p) : p \in TreeNodes(u)}
                   \cup {u.exits[i].kind : i \in exits}
                   \cup {ExitOp(u, p) : p \in below}
    IN  [o \in names |-> Cardinality({p \in TreeNodes(u) : NodeOp(u, p) = o})
                           + Cardinality({i \in exits : u.exits[i].kind = o})
                           + Cardinality({p \in below : ExitOp(u, p) = o})]

\* Hex-Rays leaves an exit stub nothing reaches after a call that does not
\* return; it is not a block of the function
LiveBlocks(backend, u) ==
    IF backend = "ida"
    THEN {i \in DOMAIN u.cfg : u.cfg[i].out > 0 \/ u.cfg[i].into > 0}
    ELSE DOMAIN u.cfg

num_cfg_blocks(backend, u) == Cardinality(LiveBlocks(backend, u))

num_cfg_edges(backend, u) == Total([i \in LiveBlocks(backend, u) |-> u.cfg[i].out])

----------------------------------------------------------------------------
(* What the code takes for granted of what a tool presents. *)

Listed(s) == s \in Seq(Range(s))

\* in preorder a node is at most one level below the node before it
Preorder(nodes) ==
    /\ Listed(nodes) /\ nodes # <<>>
    /\ \A k \in DOMAIN nodes : nodes[k].level \in 1..k

Assignments == ASSIGN \cup {"Ist_WrTmp", "Ist_Put"}

\* every block but the first is reached (M = E - N + 2 is for a single connected
\* component with one entry point), the exit stubs of Hex-Rays excepted
OneEntry(backend, u) ==
    /\ \A i \in DOMAIN u.cfg : u.cfg[i].out \in Nat /\ u.cfg[i].into \in Nat
    /\ Total([i \in DOMAIN u.cfg |-> u.cfg[i].out])
         = Total([i \in DOMAIN u.cfg |-> u.cfg[i].into])
    /\ \A i \in LiveBlocks(backend, u) \ {1} : u.cfg[i].into > 0

Presented(backend, u) ==
    /\ Listed(u.insns) /\ Listed(u.instrs) /\ Listed(u.exits)
    /\ Listed(u.cfg) /\ Listed(u.esil) /\ Listed(u.lines)
    /\ \A i \in DOMAIN u.instrs :
          LET instr == u.instrs[i]
          IN  /\ Preorder(instr.nodes)
              /\ backend = "pyghidra" => Len(instr.nodes) = 1
              /\ instr.nodes[1].op \in Assignments =>
                    instr.value \in DOMAIN instr.nodes \ {1}
    /\ \A i \in DOMAIN u.exits : Listed(u.exits[i].target)
    /\ Len(u.esil) = Len(u.insns) /\ \A i \in DOMAIN u.esil : Listed(u.esil[i].tokens)
    /\ u.lines # <<>> => u.lines[1].kind = "define"
    /\ \A i \in DOMAIN u.lines : u.lines[i].targets \in Nat
    /\ u.temps \in Nat /\ u.ssa \in Nat \cup {None} /\ u.size \in Nat
    /\ OneEntry(backend, u)

\* what RetDec's .ll has of a function is looked up by its name
PresentedAll(backend, units) ==
    /\ Listed(units) /\ \A k \in DOMAIN units : Presented(backend, units[k])
    /\ backend = "retdec" =>
          \A k, l \in DOMAIN units :
             units[k].name = units[l].name => units[k].lines = units[l].lines

----------------------------------------------------------------------------
(* radare2: the operators among the tokens of an ESIL expression. *)

FORCE_CONTROL == {"SETJT", "SETD"}

EsilOperators == {"+", "?{", "=", "[4]", "=[4]", "+=[4]"}

load_esil_operators(tok) == OneOf({"?{"}, {"[4]", "=[4]"}, {"+", "+=[4]"}, tok)

IsEsilOperator(tok) == tok \in EsilOperators \cup FORCE_CONTROL

\* a plain assignment to the program counter is a branch
EsilLabel(esil, i) ==
    IF esil[i] \in FORCE_CONTROL \/ (esil[i] = "=" /\ i > 1 /\ esil[i - 1] = "pc")
    THEN "control"
    ELSE load_esil_operators(esil[i])

EsilTokens(u) ==
    {p \in UNION {{i} \X DOMAIN u.esil[i].tokens : i \in DOMAIN u.esil} :
        IsEsilOperator(u.esil[p[1]].tokens[p[2]])}

classify_esil(u) ==
    [c \in CATEGORIES |->
        Cardinality({p \in EsilTokens(u) : EsilLabel(u.esil[p[1]].tokens, p[2]) = c})]

\* A slip: only the operators of ESIL_OPERATORS
esil_op_histogramOfTable(u) ==
    LET tok(p) == u.esil[p[1]].tokens[p[2]]
        known  == {p \in EsilTokens(u) : tok(p) \in EsilOperators}
    IN  [o \in {tok(p) : p \in known} |-> Cardinality({p \in known : tok(p) = o})]

esil_op_histogram(u) ==
    LET tok(p) == u.esil[p[1]].tokens[p[2]]
    IN  [o \in {tok(p) : p \in EsilTokens(u)} |->
            Cardinality({p \in EsilTokens(u) : tok(p) = o})]

num_uncovered(u) ==
    Cardinality({i \in DOMAIN u.esil : u.esil[i].tokens = <<>> \/ ~u.esil[i].valid})

----------------------------------------------------------------------------
(* RetDec: a line of LLVM text is the header, a label, an instruction (with
   its opcode, the labels it names and whether it defines a %<number>), the
   continuation of one, a use-list directive or the closing brace. *)

classify_ll_line(line) ==
    IF line.kind = "insn"
    THEN OneOf({"br", "ret", "call"}, {"load", "store"}, {"add", "icmp"}, line.op)
    ELSE "other"

split_ll_by_function(lines) ==
    Cardinality({i \in DOMAIN lines : lines[i].kind # "uselistorder"})

retdec_ir_counts(lines) ==
    [c \in CATEGORIES |->
        Cardinality({i \in DOMAIN lines : classify_ll_line(lines[i]) = c})]

\* without the header and the closing brace
LlBody(lines) == 2..(Len(lines) - 1)

retdec_op_histogram(lines) ==
    LET known == {i \in LlBody(lines) : lines[i].kind = "insn"}
    IN  [o \in {lines[i].op : i \in known} |->
            Cardinality({i \in known : lines[i].op = o})]

retdec_cfg_blocks(lines) ==
    Cardinality({i \in LlBody(lines) : lines[i].kind = "label"})

retdec_cfg_edges(lines) ==
    Total([i \in {i \in LlBody(lines) : lines[i].kind # "uselistorder"} |->
              lines[i].targets])

retdec_temps(lines) == Cardinality({i \in DOMAIN lines : lines[i].temp})

----------------------------------------------------------------------------
(* The records.  A field the backend does not write is None, as .get()
   returns it. *)

Unlifted(u, status) ==
    [function |-> u.name, address |-> u.address, status |-> status]

OkFields(u) ==
    [function |-> u.name, address |-> u.address, status |-> "ok", ir_size |-> None, ops |-> None,
     ast |-> None, native |-> None, num_native |-> None, temps |-> None,
     escapes |-> None, uncovered |-> None, sum_depth |-> None,
     max_depth |-> None, ssa |-> None, histogram |-> None, blocks |-> None,
     edges |-> None]

num_escapes(backend, u) ==
    Cardinality({i \in DOMAIN u.instrs : IsEscape(backend, u.instrs[i])})

NestingRecord(run, u) ==
    LET b == run.backend
        depths == [i \in DOMAIN u.instrs |-> instruction_depth(u.instrs[i])]
    IN  [OkFields(u) EXCEPT
            !.ir_size = Len(u.instrs), !.ops = ir_ops(b, u), !.ast = ir_ast(b, u),
            !.native = EachDecoded(u.insns, run.arch, run.bits),
            !.num_native = Len(u.insns), !.temps = u.temps,
            !.escapes = num_escapes(b, u),
            !.sum_depth = Total(depths),
            !.max_depth = Max({depths[i] : i \in DOMAIN depths} \cup {0}),
            !.ssa = IF b = "angr" THEN u.temps
                    ELSE IF b = "ida" THEN None ELSE u.ssa,
            !.histogram = op_histogram(b, u),
            !.blocks = num_cfg_blocks(b, u), !.edges = num_cfg_edges(b, u)]

PcodeRecord(run, u) ==
    [OkFields(u) EXCEPT
        !.ir_size = Len(u.instrs), !.ops = ir_ops("pyghidra", u),
        !.native = EachDecoded(u.insns, run.arch, run.bits),
        !.num_native = Len(u.insns), !.temps = u.temps,
        !.escapes = num_escapes("pyghidra", u),
        !.histogram = op_histogram("pyghidra", u),
        !.blocks = num_cfg_blocks("pyghidra", u),
        !.edges = num_cfg_edges("pyghidra", u)]

EsilRecord(run, u) ==
    [OkFields(u) EXCEPT
        !.ir_size = Total(classify_esil(u)), !.ops = classify_esil(u),
        !.native = EachDecoded(u.insns, run.arch, run.bits),
        !.num_native = Len(u.esil), !.temps = 0,
        !.uncovered = num_uncovered(u), !.histogram = esil_op_histogram(u),
        !.blocks = num_cfg_blocks("r2", u), !.edges = num_cfg_edges("r2", u)]

\* A slip: a function without a define block has size 0
RetdecRecordOfNone(u) ==
    [OkFields(u) EXCEPT !.ir_size = split_ll_by_function(u.lines)]

\* no define block in the .ll: an error
RetdecRecord(u) ==
    IF u.lines = <<>> THEN Unlifted(u, "error")
    ELSE [OkFields(u) EXCEPT !.ir_size = split_ll_by_function(u.lines)]

Lifted(run, u) ==
    IF run.backend = "retdec" THEN RetdecRecord(u)
    ELSE IF u.external THEN Unlifted(u, "skipped")
    ELSE IF u.broken THEN Unlifted(u, "error")
    ELSE IF run.backend \in Nesting THEN NestingRecord(run, u)
    ELSE IF run.backend = "r2" THEN EsilRecord(run, u)
    ELSE PcodeRecord(run, u)

\* The numbers of one record agree with each other, whichever of the four
\* walks over the function produced them: the flat labels add up to the size
\* field (angr adds a terminator per block), the tree walk finds at least as
\* much of every category, the histogram has as many operations as the walk
\* it mirrors, an escape is one of the operations counted, every operation
\* has a level, no more machine instructions are classified than counted, and
\* the graph is a connected one (lift_function of every backend).
RecordAgrees(backend, rec) ==
    LET walked == IF rec.ast = None THEN rec.ops ELSE rec.ast
    IN  IF rec.ops = None
        THEN rec.ir_size > 0
        ELSE /\ IF backend = "angr" THEN rec.ir_size <= Total(rec.ops)
                ELSE rec.ir_size = Total(rec.ops)
             /\ \A c \in CATEGORIES : rec.ops[c] <= walked[c]
             /\ HistTotal(rec.histogram) = Total(walked)
             /\ rec.escapes # None => rec.escapes <= rec.ir_size
             /\ rec.uncovered # None => rec.uncovered <= rec.num_native
             /\ Total(rec.native) <= rec.num_native
             /\ rec.sum_depth # None =>
                    /\ rec.ir_size <= rec.sum_depth
                    /\ rec.sum_depth <= rec.ir_size * rec.max_depth
                    /\ rec.max_depth <= Total(walked)
             /\ rec.blocks > 0 => cyclomatic_complexity(rec.blocks, rec.edges) > 0

\* two static functions may share a name: the last one wins
LastNamed(units, n) ==
    units[Max({i \in DOMAIN units : units[i].name = n})]

\* what a finished attempt leaves in the run's output directory: functions.json
\* (address to size), lift_records.json (torn: it does not parse), and RetDec's
\* .ll and .dsm
Outputs(run, units) ==
    [torn    |-> FALSE,
     sizes   |-> [a \in {units[i].address : i \in DOMAIN units} |->
                    (CHOOSE u \in {units[i] : i \in DOMAIN units} :
                        u.address = a).size],
     records |-> [i \in DOMAIN units |-> Lifted(run, units[i])],
     ll      |-> [n \in {units[i].name : i \in {i \in DOMAIN units :
                                                units[i].lines # <<>>}} |->
                    LastNamed(units, n).lines],
     dsm     |-> [n \in {units[i].name : i \in DOMAIN units} |->
                    LastNamed(units, n).insns]]
=============================================================================
