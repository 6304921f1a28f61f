--------------------------- MODULE ScalarProperties ---------------------------
(***************************************************************************)
(* What the in-order CPU keeps true, and for which programs it keeps its   *)
(* promise.                                                                *)
(***************************************************************************)
EXTENDS ScalarPipeline

(***************************************************************************)
(* The type invariant.                                                     *)
(***************************************************************************)
Latch == [empty : BOOLEAN, pc : Word]

Holds(unit) == ~unit.empty => InProgram(unit.pc)

\* Every variable stays in its type; from decode on, an address is one of the
\* program's, and PC never counts past its end unless it is set there.
TypeOK ==
    /\ program \in Programs
    /\ memory \in [Address -> Word]
    /\ registers \in [Reg -> Word]
    /\ valid \in [Reg -> BOOLEAN]
    /\ fetchUnit \in Latch
    /\ decodeUnit \in Latch
    /\ executeUnit \in [empty : BOOLEAN, pc : Word, rs1Value : Word, rs2Value : Word]
    /\ memoryAccessUnit \in [empty : BOOLEAN, pc : Word, address : Word, value : Word]
    /\ writebackUnit \in [empty : BOOLEAN, pc : Word, value : Word]
    /\ ~fetchUnit.empty => fetchUnit.pc < Len(program)
    /\ Holds(decodeUnit) /\ Holds(executeUnit)
    /\ Holds(memoryAccessUnit) /\ Holds(writebackUnit)
    /\ triggerFlush \in BOOLEAN
    /\ running \in BOOLEAN
    /\ stage \in {"writeback", "memory", "execute", "decode", "fetch", "refill",
                  "stopped", "fault"}

\* A unit that has had its turn has passed its instruction on, and a cycle
\* begins with nothing left over from the last one.
TurnsTaken ==
    /\ stage = "memory" => writebackUnit.empty
    /\ stage = "execute" => memoryAccessUnit.empty
    /\ stage = "decode" => executeUnit.empty
    /\ stage = "writeback" => running /\ ~triggerFlush

(***************************************************************************)
(* Order.  What follows an instruction is in the next occupied unit, or is *)
(* the next to be fetched.                                                 *)
(***************************************************************************)
BehindFetch     == registers["PC"]
BehindDecode    == IF fetchUnit.empty THEN BehindFetch ELSE fetchUnit.pc
BehindExecute   == IF decodeUnit.empty THEN BehindDecode ELSE decodeUnit.pc
BehindAccess    == IF executeUnit.empty THEN BehindExecute ELSE executeUnit.pc
BehindWriteback == IF memoryAccessUnit.empty THEN BehindAccess ELSE memoryAccessUnit.pc

\* The pipeline holds a stretch of the program, in order and without gaps: no
\* stall loses or repeats an instruction, and no jump leaves one behind.
InOrder ==
    ~triggerFlush =>
        /\ ~fetchUnit.empty => BehindFetch = fetchUnit.pc + 1
        /\ ~decodeUnit.empty => BehindDecode = decodeUnit.pc + 1
        /\ ~executeUnit.empty => BehindExecute = executeUnit.pc + 1
        /\ ~memoryAccessUnit.empty => BehindAccess = memoryAccessUnit.pc + 1
        /\ ~writebackUnit.empty => BehindWriteback = writebackUnit.pc + 1

(***************************************************************************)
(* The scoreboard.                                                         *)
(***************************************************************************)
Writes(i, r) == RequiresWriteBack(i) /\ i.rd = r
Reads(i, r) == i.rs1 = r \/ i.rs2 = r

WillWrite(unit, r) == ~unit.empty /\ Writes(InstructionAt(unit.pc), r)

InFlightWriter(r) ==
    WillWrite(executeUnit, r) \/ WillWrite(memoryAccessUnit, r) \/ WillWrite(writebackUnit, r)

\* A register is never left invalid with nobody on the way to make it valid:
\* a reader that stalls on it is waiting for something.  (PC is: a branch
\* that is not taken never releases it.)
LocksAreHeld == \A r \in Reg \ {"PC"} : ~valid[r] => InFlightWriter(r)

\* Two writers of a register overlap if the second is decoded while the first
\* is in flight, that is if neither it nor the instruction between them, which
\* it would be delayed by, waits for the first.
Overlap(p, i, d) ==
    /\ \E r \in Reg \ {"PC"} : Writes(p[i], r) /\ Writes(p[i + d], r)
    /\ \A k \in 1 .. d : ~Reads(p[i + k], p[i].rd)

NoOverlap(p) == \A i \in DOMAIN p, d \in {1, 2} : i + d \in DOMAIN p => ~Overlap(p, i, d)

\* One bit stands for all the writers of a register, and the first to write
\* back sets it.  A register that is going to be written is invalid at least
\* in programs without overlapping writers: there, decode reads no old value.
WritersAreGuarded ==
    NoOverlap(program) /\ ~triggerFlush =>
        \A r \in Reg \ {"PC"} : InFlightWriter(r) => ~valid[r]

\* What the above rests on: no two writers of a register are in flight, and
\* an instruction that has its operands has nobody in front of it that would
\* still change them.
WillRead(unit, r) == ~unit.empty /\ Reads(InstructionAt(unit.pc), r)

OneWriter ==
    NoOverlap(program) /\ ~triggerFlush =>
        \A r \in Reg \ {"PC"} :
            /\ WillWrite(executeUnit, r) =>
                  ~WillWrite(memoryAccessUnit, r) /\ ~WillWrite(writebackUnit, r)
            /\ WillWrite(memoryAccessUnit, r) => ~WillWrite(writebackUnit, r)

SourcesSettled ==
    NoOverlap(program) /\ ~triggerFlush =>
        \A r \in Reg \ {"PC"} :
            /\ WillRead(executeUnit, r) =>
                  ~WillWrite(memoryAccessUnit, r) /\ ~WillWrite(writebackUnit, r)
            /\ WillRead(memoryAccessUnit, r) => ~WillWrite(writebackUnit, r)

(***************************************************************************)
(* The promise to the program, and the programs it is kept for.            *)
(***************************************************************************)
\* A store commits in memory access, everything else in write-back; after a
\* jump the next instruction is the target.
ToRetire == ~writebackUnit.empty /\ Retiring.op # "SW"

ArchitecturalPC ==
    IF triggerFlush THEN registers["PC"]
    ELSE IF ToRetire THEN writebackUnit.pc ELSE BehindWriteback

Sequential ==
    INSTANCE SequentialISA WITH
        regs   <- [r \in GPR \cup {"ZERO"} |-> registers[r]],
        mem    <- memory,
        pc     <- IF running THEN ArchitecturalPC ELSE 0,
        halted <- ~running

OnlyBranchesJump(p) == \A i \in DOMAIN p : Writes(p[i], "PC") => p[i].op \in BranchOps
ReadsNoPC(p) == \A i \in DOMAIN p : ~Reads(p[i], "PC")
KeepsZero(p) == \A i \in DOMAIN p : ~Writes(p[i], "ZERO")
BaselessLoads(p) == \A i \in DOMAIN p : p[i].op = "LW" => p[i].rs1 = p[i].rs2
NoShadowedStore(p) ==
    \A i \in DOMAIN p :
        p[i].op \in BranchOps \cup {"HLT"} /\ i + 1 \in DOMAIN p => p[i + 1].op # "SW"

Suitable(p) ==
    /\ OnlyBranchesJump(p)
    /\ ReadsNoPC(p)
    /\ KeepsZero(p)
    /\ BaselessLoads(p)
    /\ NoShadowedStore(p)
    /\ NoOverlap(p)

\* What the instruction at pc computes from the registers and memory as they
\* are now.
Outcomes(pc) ==
    LET i == InstructionAt(pc)
        result == PerformALUOperation(i.op, pc, registers[i.rs1], registers[i.rs2], i.imm)
    IN  CASE i.op # "LW" -> {result}
          [] i.op = "LW" /\ result \in Address -> {memory[result]}
          [] i.op = "LW" /\ result \notin Address -> Word

\* The values an instruction took along when it was decoded, and what has been
\* computed from them since, are those of the moment it retires: nobody in
\* front of it still changes one of its registers or its word of memory.
ValuesAreCurrent ==
    Suitable(program) /\ ~triggerFlush =>
        /\ ~executeUnit.empty =>
              /\ executeUnit.rs1Value = registers[InstructionAt(executeUnit.pc).rs1]
              /\ executeUnit.rs2Value = registers[InstructionAt(executeUnit.pc).rs2]
        /\ ~memoryAccessUnit.empty =>
              /\ memoryAccessUnit.value = registers[Accessing.rs1]
              /\ memoryAccessUnit.address =
                    PerformALUOperation(Accessing.op, memoryAccessUnit.pc,
                        registers[Accessing.rs1], registers[Accessing.rs2], Accessing.imm)
        /\ ToRetire => writebackUnit.value \in Outcomes(writebackUnit.pc)

\* Memory access still runs after write-back has jumped or halted.  With no
\* store right behind a jump or HLT it has none to perform then.
Unshadowed(p) == OnlyBranchesJump(p) /\ NoShadowedStore(p)

ShadowIsHarmless ==
    Unshadowed(program) /\ stage = "memory" /\ (triggerFlush \/ ~running) =>
        memoryAccessUnit.empty \/ Accessing.op # "SW"

\* The pipeline executes a suitable program one instruction at a time, if it
\* starts at all: stalls and flushes are invisible, and no operand is read
\* before its writer has retired.  Each of the conditions is needed.
ImplementsSequential ==
    /\ running => Sequential!Init
    /\ [][Suitable(program) => [Sequential!Next]_(Sequential!vars)]_vars

\* It never waits for ever: write-back is reached again and again until the
\* run ends, in programs that stay inside themselves and do not read PC.
KeepsRetiring ==
    WellFormed(program) /\ ReadsNoPC(program) =>
        []<>(~writebackUnit.empty \/ stage \in {"stopped", "fault"})

(***************************************************************************)
(* Promises of comments and documents.                                     *)
(***************************************************************************)
\* "Should not happen" (relativeBranchTest.prog:13), of what a taken branch
\* skips: only the next instruction in program order changes memory.
SkippedStoresHaveNoEffect ==
    [][memory' # memory => memoryAccessUnit.pc = ArchitecturalPC]_vars

\* "Load in first element slot with the value at the current pointer"
\* (bubbleSort.asm:27): a load is relative to its base register.
LoadsAreRelativeToBase ==
    ~memoryAccessUnit.empty /\ Accessing.op = "LW" /\ ~triggerFlush =>
        memoryAccessUnit.address =
            EffectiveAddress("LW", registers[Accessing.rs1], registers[Accessing.rs2],
                             Accessing.imm)
==============================================================================
