------------------------------ MODULE MCMetrics ------------------------------
(* A small results directory for MetricsPhase: two functions per binary, the
   builds of one binary for a few architectures, and every backend. *)
EXTENDS MetricsPhase

\* machine instructions, one for each way through classify_insn
Insn(m, jumps, pc, memory) ==
    [mnemonic |-> m, jumps |-> jumps, pc |-> pc, memory |-> memory, decodes |-> TRUE]

Junk == [Insn("mov", FALSE, FALSE, FALSE) EXCEPT !.decodes = FALSE]

Image(arch) ==
    CASE arch = "x86" ->
            (1 :> <<Insn("cmp", FALSE, FALSE, TRUE), Insn("lea", FALSE, FALSE, TRUE),
                    Insn("call", TRUE, FALSE, FALSE)>>)
              @@ (2 :> <<Insn("push", FALSE, FALSE, FALSE), Insn("ret", TRUE, FALSE, FALSE)>>)
      [] arch = "arm" ->
            (1 :> <<Insn("add", FALSE, TRUE, FALSE), Junk, Insn("ldm", FALSE, FALSE, FALSE)>>)
              @@ (2 :> <<Insn("cmp", FALSE, FALSE, FALSE), Insn("ldm", FALSE, TRUE, FALSE)>>)
      [] OTHER ->
            (1 :> <<Insn("jal", FALSE, FALSE, FALSE), Insn("daddiu", FALSE, FALSE, FALSE),
                    Insn("lw", FALSE, FALSE, TRUE)>>)
              @@ (2 :> <<Insn("break", FALSE, FALSE, FALSE), Insn("slt", FALSE, FALSE, FALSE)>>)

\* expression trees
Tree(ops) == [nodes |-> [k \in DOMAIN ops |-> [op |-> ops[k], level |-> k]],
              value |-> 2, helper |-> FALSE]

Assign(b) == CASE b = "angr" -> Tree(<<"Ist_WrTmp", "Iop_Add32", "Iex_Const">>)
               [] b = "binja_hlil" ->
                    [Tree(<<"ASSIGN", "VAR", "ADD", "CONST">>) EXCEPT !.value = 3]
               [] b \in Bnil -> Tree(<<"SET_REG", "ADD", "CONST">>)
               [] b = "ida"  -> Tree(<<"m_mov", "m_add">>)
               [] OTHER      -> Tree(<<"INT_ADD">>)
Store(b) == CASE b = "angr" -> Tree(<<"Ist_Store", "Iex_RdTmp">>)
              [] b \in Bnil -> Tree(<<"STORE", "ADD">>)
              [] b = "ida"  -> Tree(<<"m_stx", "m_add">>)
              [] OTHER      -> Tree(<<"STORE">>)
Jump(b) == CASE b = "angr" -> Tree(<<"Ist_Exit">>)
             [] b \in Bnil -> Tree(<<"IF">>)
             [] b = "ida"  -> Tree(<<"m_jcnd">>)
             [] OTHER      -> Tree(<<"RETURN">>)
Opaque(b) == CASE b = "angr" -> Tree(<<"Ist_Dirty", "Iex_RdTmp">>)
               [] b \in Bnil -> Tree(<<"SET_REG", "INTRINSIC", "CONST">>)
               [] b = "ida"  -> [Tree(<<"m_call", "m_mov">>) EXCEPT !.helper = TRUE]
               [] OTHER      -> Tree(<<"CALLOTHER">>)

Edge(out, into) == [out |-> out, into |-> into]

Esil(tokens) == [tokens |-> tokens, valid |-> tokens # <<>>]

Line(kind, op, targets, temp) ==
    [kind |-> kind, op |-> op, targets |-> targets, temp |-> temp]
Plain(kind) == Line(kind, "", 0, FALSE)

\* A function of two blocks, one of one block with an operation the IR has no
\* name for, and one the tool finds nothing in.
Large(run, name, at) ==
    [name |-> name, address |-> at, size |-> 3, external |-> FALSE, broken |-> FALSE,
     insns |-> run.image[at], temps |-> 2, ssa |-> 4,
     instrs |-> <<Assign(run.backend), Store(run.backend), Jump(run.backend)>>,
     exits |-> <<[kind |-> "Ijk_Boring", target |-> <<>>],
                 [kind |-> "Ijk_Call", target |-> <<"Iex_Const">>]>>,
     cfg |-> <<Edge(1, 0), Edge(0, 1)>>
               \o (IF run.backend = "ida" THEN <<Edge(0, 0)>> ELSE <<>>),
     esil |-> [i \in DOMAIN run.image[at] |->
                 Esil(<<<<"r0", "1", "+", "r1", "=">>, <<"8", "pc", "=">>,
                        <<"r0", "+=[4]">>>>[i])],
     lines |-> <<Plain("define"), Plain("label"), Line("insn", "add", 0, TRUE),
                 Line("insn", "switch", 1, FALSE), Line("more", "", 1, FALSE),
                 Plain("label"), Line("insn", "ret", 0, FALSE),
                 Line("uselistorder", "", 1, FALSE), Plain("close")>>]

Small(run, name, at) ==
    [Large(run, name, at) EXCEPT
        !.temps = 0, !.ssa = None, !.size = 2,
        !.instrs = <<Opaque(run.backend), Jump(run.backend)>>,
        !.exits = <<[kind |-> "Ijk_Ret", target |-> <<>>]>>, !.cfg = <<Edge(0, 0)>>,
        !.esil = [i \in DOMAIN run.image[at] |-> Esil(<<<<>>, <<"1", "SETJT">>, <<>>>>[i])],
        !.lines = <<Plain("define"), Plain("label"), Line("insn", "ret", 0, FALSE),
                    Plain("close")>>]

Blank(run, name, at) ==
    [Small(run, name, at) EXCEPT
        !.instrs = <<>>, !.exits = <<>>, !.insns = <<>>, !.size = 0, !.cfg = <<>>,
        !.esil = <<>>]

Broken(run, name, at) ==
    [Small(run, name, at) EXCEPT !.broken = TRUE, !.lines = <<>>]

MCFound(run) ==
    IF run.bits = 64 THEN {<<Large(run, "init", 1), Small(run, "init", 2)>>}
    ELSE IF run.arch = "x86"
    THEN {<<Large(run, "main", 1), Small(run, "init", 2)>>,
          <<Small(run, "main", 1), Broken(run, "init", 2)>>}
    ELSE {<<Blank(run, "main", 1), Large(run, "init", 2)>>}

Run(backend, arch, bits, status) ==
    [backend |-> backend, arch |-> arch, bits |-> bits, status |-> status,
     group |-> "ls", image |-> Image(arch), wall |-> bits, duration |-> 3,
     rss |-> IF status = "ok" /\ bits = 64 THEN None ELSE 7]

\* two or three builds each: another architecture, another width, both; a run
\* that failed, one without metadata, one label twice
MCManifests ==
    {<<Run("binja_hlil", "x86", 32, "ok"), Run("binja_hlil", "arm", 64, "ok")>>,
     <<Run("retdec", "x86", 32, "ok"), Run("retdec", "mips", 32, "ok")>>,
     <<Run("ida", "x86", 32, "ok"), Run("ida", "x86", 64, "timeout")>>,
     <<Run("r2", "arm", 32, "ok"), Run("r2", "x86", 64, "ok")>>,
     <<Run("pyghidra", "mipseb", 32, "ok"), Run("pyghidra", "mipseb", 32, "ok"),
       Run("pyghidra", "x86", 32, "ok")>>,
     <<Run("angr", "x86", 64, "ok"), Run("angr", None, None, "ok")>>}

MCRequests ==
    {<<b>> : b \in FunctionBlocks \cup RunBlocks}
      \cup {<<"weighted_jaccard", "jsd_similarity">>,
            <<"ir_size_cv", "cyclomatic_complexity_delta">>, <<"cost", "halstead">>}
=============================================================================
