--------------------------- MODULE NativeClassify ---------------------------
(***************************************************************************)
(* pipeline/native_classify.py and elf_bytes.py: the category every        *)
(* backend and every metrics block gives to a machine instruction.  An     *)
(* instruction is what capstone reports of it and the rule looks at:       *)
(*   mnemonic, jumps (some group is a control group), pc (some operand is  *)
(*   the program counter), memory (some operand is a memory reference),    *)
(*   decodes (FALSE: bytes capstone cannot decode).                        *)
(* The mnemonic tables are cut down to one member for every kind of entry  *)
(* they have.                                                              *)
(***************************************************************************)
EXTENDS Naturals, Sequences, FiniteSets

CATEGORIES == {"arithmetic", "control", "memory", "other"}

NoCounts == [c \in CATEGORIES |-> 0]

Supported == {"x86", "arm", "mips", "mipseb"} \X {32, 64}

\* make_disassembler(arch, bits) is not None
make_disassembler(arch, bits) == <<arch, bits>> \in Supported

arch_family(arch, bits) ==
    IF arch = "arm" /\ bits = 64 THEN "arm64"
    ELSE IF arch \in {"mips", "mipseb"} THEN "mips"
    ELSE arch

ARITH_PREFIXES ==
    [x86 |-> {"add", "cmp"}, arm |-> {"add", "rsb", "cmp"},
     arm64 |-> {"add", "madd", "cmp"}, mips |-> {"addu", "daddiu", "slt"}]

MEM_MNEMONICS == {"push", "pop", "ldm", "stm"}

\* only 32-bit ARM (CS_ARCH_ARM, not CS_ARCH_ARM64) names pc as an operand;
\* any pc operand counts, a source as well as a destination
writes_pc(insn, family) == family = "arm" /\ insn.pc

IsControl(insn, family) ==
    \/ insn.jumps
    \/ family = "mips" /\ insn.mnemonic \in {"jal", "break"}
    \/ writes_pc(insn, family)

IsMemory(insn) ==
    \/ insn.mnemonic \in MEM_MNEMONICS
    \/ insn.mnemonic # "lea" /\ insn.memory

\* control first, then arithmetic (an x86 ALU instruction may take a memory
\* operand), then memory
classify_insn(insn, family) ==
    IF IsControl(insn, family) THEN "control"
    ELSE IF insn.mnemonic \in ARITH_PREFIXES[family] THEN "arithmetic"
    ELSE IF IsMemory(insn) THEN "memory"
    ELSE "other"

\* how many of the instructions at these positions fall into each category
CountsAt(insns, at, family) ==
    [c \in CATEGORIES |->
        Cardinality({i \in at : classify_insn(insns[i], family) = c})]

\* one instruction at a time, as angr, Binary Ninja, IDA, Ghidra, radare2 and
\* the .dsm reader do: what does not decode is left out
EachDecoded(insns, arch, bits) ==
    IF make_disassembler(arch, bits)
    THEN CountsAt(insns, {i \in DOMAIN insns : insns[i].decodes},
                  arch_family(arch, bits))
    ELSE NoCounts

\* a function's bytes in one piece: capstone stops where it cannot decode
classify_bytes(insns, family) ==
    CountsAt(insns, {i \in DOMAIN insns : \A j \in 1..i : insns[j].decodes},
             family)

\* ElfByteReader.read: the bytes of a function at its address.  None of them
\* when no loadable section with file content covers it, and a section's end
\* cuts them short.  image[name] has the instructions the file holds there.
ElfRead(image, name, size) ==
    IF name \in DOMAIN image
    THEN SubSeq(image[name], 1, IF size <= Len(image[name])
                                THEN size ELSE Len(image[name]))
    ELSE <<>>
=============================================================================
