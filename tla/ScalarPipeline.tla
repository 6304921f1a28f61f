---------------------------- MODULE ScalarPipeline ----------------------------
(***************************************************************************)
(* The in-order CPU of cpu/: five stages, one instruction in each, and a   *)
(* scoreboard with one valid bit per register.                             *)
(*                                                                         *)
(* ScalarPipeline::Advance runs the units from write-back to fetch, then   *)
(* moves what they hold in the same order, then flushes if a branch was    *)
(* taken, then accepts the next address.  No unit looks at the latch of    *)
(* another, so an action here is one unit's onCycle with the move out of   *)
(* it; "stage" is the unit whose turn it is.                               *)
(*                                                                         *)
(* A latch holds the address of its instruction and the values computed    *)
(* for it; what AcceptData copies from the instruction is read from the    *)
(* program.  What an empty latch last held is never read and is left out.  *)
(***************************************************************************)
EXTENDS ISA, Sequences

CONSTANTS
    MemSize,             \* -m
    Programs, Memories,  \* what a run may start with
    Garbage,             \* what a load outside memory may return
    RunningAtStart       \* "running", which the constructor does not set

VARIABLES
    program,             \* the program, fixed
    memory,              \* data memory, indexed from 0
    registers,           \* all registers; PC is the next address to fetch
    valid,               \* the scoreboard
    fetchUnit, decodeUnit, executeUnit, memoryAccessUnit, writebackUnit,
    triggerFlush,        \* a branch has been taken in this cycle
    running,             \* cleared by HLT
    stage                \* position in the cycle

units == <<fetchUnit, decodeUnit, executeUnit, memoryAccessUnit, writebackUnit>>
vars == <<program, memory, registers, valid, units, triggerFlush, running, stage>>

Address == 0 .. (MemSize - 1)

ASSUME ConfigAssumption ==
    /\ MemSize \in Nat
    /\ Garbage \subseteq Word
    /\ RunningAtStart \subseteq BOOLEAN

ASSUME InputAssumption ==
    /\ \A p \in Programs : p \in Seq(Instruction) /\ Len(p) \in 1 .. (HalfRange - 1)
    /\ Memories \subseteq [Address -> Word]

(***************************************************************************)
(* Latches.                                                                *)
(***************************************************************************)
NoFetch     == [empty |-> TRUE, pc |-> 0]
NoDecode    == [empty |-> TRUE, pc |-> 0]
NoExecute   == [empty |-> TRUE, pc |-> 0, rs1Value |-> 0, rs2Value |-> 0]
NoAccess    == [empty |-> TRUE, pc |-> 0, address |-> 0, value |-> 0]
NoWriteback == [empty |-> TRUE, pc |-> 0, value |-> 0]

InstructionAt(pc) == program[pc + 1]

\* The flags that the constructors of isa/instruction.cpp set.  A NOP leaves
\* them to chance, but what it may write lies behind the 33 registers and
\* bits, in the padding of their allocations.
RequiresWriteBack(i) == i.op \notin {"SW", "HLT", "NOP"}
RequiresMemoryAccess(i) == i.op \in MemOps

Init ==
    /\ program \in Programs
    /\ memory \in Memories
    /\ registers = [r \in Reg |-> 0]
    /\ valid = [r \in Reg |-> TRUE]
    /\ fetchUnit = NoFetch
    /\ decodeUnit = NoDecode
    /\ executeUnit = NoExecute
    /\ memoryAccessUnit = NoAccess
    /\ writebackUnit = NoWriteback
    /\ triggerFlush = FALSE
    /\ running \in RunningAtStart
    /\ stage = IF running THEN "writeback" ELSE "stopped"

(***************************************************************************)
(* WriteBackUnit::onCycle.                                                 *)
(***************************************************************************)
Retiring == InstructionAt(writebackUnit.pc)

\* Every case of write-back ends with an empty unit.
Retire ==
    /\ stage = "writeback"
    /\ stage' = "memory"
    /\ writebackUnit' = NoWriteback
    /\ UNCHANGED <<program, memory, fetchUnit, decodeUnit, executeUnit, memoryAccessUnit>>

WriteBackIdle ==
    /\ writebackUnit.empty
    /\ Retire
    /\ UNCHANGED <<registers, valid, triggerFlush, running>>

\* A store or a NOP has nothing to write back; HLT ends the main loop.
WriteBackNothing ==
    /\ ~writebackUnit.empty
    /\ ~RequiresWriteBack(Retiring)
    /\ Retire
    /\ running' = (running /\ Retiring.op # "HLT")
    /\ UNCHANGED <<registers, valid, triggerFlush>>

\* Slips, here and below: the register is not released, or a jump is not
\* followed by a flush.
WriteRegisterOnly ==
    /\ registers' = [registers EXCEPT ![Retiring.rd] = writebackUnit.value]
    /\ UNCHANGED valid

WriteRegister ==
    /\ registers' = [registers EXCEPT ![Retiring.rd] = writebackUnit.value]
    /\ valid' = [valid EXCEPT ![Retiring.rd] = TRUE]

WriteBackResult ==
    /\ ~writebackUnit.empty
    /\ RequiresWriteBack(Retiring)
    /\ Retiring.rd # "PC"
    /\ Retire
    /\ WriteRegister
    /\ UNCHANGED <<triggerFlush, running>>

WriteBackJumpUnflushed ==
    /\ ~writebackUnit.empty
    /\ RequiresWriteBack(Retiring)
    /\ Retiring.rd = "PC" /\ writebackUnit.value # writebackUnit.pc + 1
    /\ Retire
    /\ WriteRegister
    /\ UNCHANGED <<triggerFlush, running>>

WriteBackJump ==
    /\ ~writebackUnit.empty
    /\ RequiresWriteBack(Retiring)
    /\ Retiring.rd = "PC" /\ writebackUnit.value # writebackUnit.pc + 1
    /\ Retire
    /\ WriteRegister
    /\ triggerFlush' = TRUE
    /\ UNCHANGED running

\* A branch that is not taken leaves PC alone, and its scoreboard bit cleared.
WriteBackNotTaken ==
    /\ ~writebackUnit.empty
    /\ RequiresWriteBack(Retiring)
    /\ Retiring.rd = "PC" /\ writebackUnit.value = writebackUnit.pc + 1
    /\ Retire
    /\ UNCHANGED <<registers, valid, triggerFlush, running>>

(***************************************************************************)
(* MemoryAccessUnit::onCycle and the move to write-back.                   *)
(***************************************************************************)
Accessing == InstructionAt(memoryAccessUnit.pc)

MoveToWriteback(v) ==
    /\ writebackUnit' = [empty |-> FALSE, pc |-> memoryAccessUnit.pc, value |-> v]
    /\ memoryAccessUnit' = NoAccess

AccessMemory ==
    /\ stage = "memory"
    /\ stage' = "execute"
    /\ UNCHANGED <<program, registers, valid, fetchUnit, decodeUnit, executeUnit,
                   triggerFlush, running>>

MemoryIdle ==
    /\ memoryAccessUnit.empty
    /\ AccessMemory
    /\ UNCHANGED <<memory, memoryAccessUnit, writebackUnit>>

MemoryNotRequired ==
    /\ ~memoryAccessUnit.empty
    /\ ~RequiresMemoryAccess(Accessing)
    /\ AccessMemory
    /\ MoveToWriteback(memoryAccessUnit.address)
    /\ UNCHANGED memory

Loaded(a) == IF a \in Address THEN {memory[a]} ELSE Garbage

MemoryLoad ==
    /\ ~memoryAccessUnit.empty
    /\ Accessing.op = "LW"
    /\ AccessMemory
    /\ \E v \in Loaded(memoryAccessUnit.address) : MoveToWriteback(v)
    /\ UNCHANGED memory

MemoryStore ==
    /\ ~memoryAccessUnit.empty
    /\ Accessing.op = "SW"
    /\ memoryAccessUnit.address \in Address
    /\ AccessMemory
    /\ memory' = [memory EXCEPT ![memoryAccessUnit.address] = memoryAccessUnit.value]
    /\ MoveToWriteback(memoryAccessUnit.value)

\* Outside the array a store is undefined behaviour, where the model stops,
\* and a load may end the simulator.
MemoryFault ==
    /\ stage = "memory"
    /\ ~memoryAccessUnit.empty
    /\ RequiresMemoryAccess(Accessing)
    /\ memoryAccessUnit.address \notin Address
    /\ stage' = "fault"
    /\ UNCHANGED <<program, memory, registers, valid, units, triggerFlush, running>>

(***************************************************************************)
(* ExecuteUnit::onCycle and the move to memory access.                     *)
(***************************************************************************)
\* Loads and stores share an address computation that uses rs2.
PerformALUOperation(op, pc, val1, val2, imm) ==
    IF op \in MemOps THEN Wrap(val2 + imm) ELSE ALU(op, pc, val1, val2, imm)

Result ==
    LET i == InstructionAt(executeUnit.pc)
    IN  PerformALUOperation(i.op, executeUnit.pc, executeUnit.rs1Value,
                            executeUnit.rs2Value, i.imm)

Execute ==
    /\ stage = "execute"
    /\ stage' = "decode"
    /\ IF executeUnit.empty
         THEN UNCHANGED <<executeUnit, memoryAccessUnit>>
         ELSE /\ memoryAccessUnit' = [empty |-> FALSE, pc |-> executeUnit.pc,
                                      address |-> Result, value |-> executeUnit.rs1Value]
              /\ executeUnit' = NoExecute
    /\ UNCHANGED <<program, memory, registers, valid, fetchUnit, decodeUnit, writebackUnit,
                   triggerFlush, running>>

(***************************************************************************)
(* DecodeUnit::onCycle and the move to execution.                          *)
(***************************************************************************)
Decoded == InstructionAt(decodeUnit.pc)

\* A slip: the second operand is not looked up.
FirstOperandValid == valid[Decoded.rs1]
OperandsValid == valid[Decoded.rs1] /\ valid[Decoded.rs2]

DecodeOperands ==
    /\ stage = "decode"
    /\ ~decodeUnit.empty
    /\ OperandsValid
    /\ stage' = "fetch"
    /\ executeUnit' = [empty |-> FALSE, pc |-> decodeUnit.pc,
                       rs1Value |-> registers[Decoded.rs1],
                       rs2Value |-> registers[Decoded.rs2]]
    /\ valid' = IF RequiresWriteBack(Decoded) THEN [valid EXCEPT ![Decoded.rd] = FALSE]
                                              ELSE valid
    /\ decodeUnit' = NoDecode
    /\ UNCHANGED <<program, memory, registers, fetchUnit, memoryAccessUnit, writebackUnit,
                   triggerFlush, running>>

\* An operand is awaited, or there is nothing to decode.
DecodeStall ==
    /\ stage = "decode"
    /\ decodeUnit.empty \/ ~OperandsValid
    /\ stage' = "fetch"
    /\ UNCHANGED <<program, memory, registers, valid, units, triggerFlush, running>>

(***************************************************************************)
(* FetchUnit::onCycle and the move to decode.                              *)
(***************************************************************************)
InProgram(pc) == pc + 1 \in DOMAIN program

\* A slip: the decode unit is taken for free.
DecodeFree == TRUE
DecodeHasSpace == decodeUnit.empty

Fetch ==
    /\ stage = "fetch"
    /\ fetchUnit.empty \/ InProgram(fetchUnit.pc)
    /\ stage' = "refill"
    /\ IF ~fetchUnit.empty /\ DecodeHasSpace
         THEN /\ decodeUnit' = [empty |-> FALSE, pc |-> fetchUnit.pc]
              /\ fetchUnit' = NoFetch
         ELSE UNCHANGED <<decodeUnit, fetchUnit>>
    /\ UNCHANGED <<program, memory, registers, valid, executeUnit, memoryAccessUnit,
                   writebackUnit, triggerFlush, running>>

\* program->at throws for a negative address, and the exception ends the
\* simulator; one past the end is never accepted.
FetchFault ==
    /\ stage = "fetch"
    /\ ~fetchUnit.empty
    /\ ~InProgram(fetchUnit.pc)
    /\ stage' = "fault"
    /\ UNCHANGED <<program, memory, registers, valid, units, triggerFlush, running>>

(***************************************************************************)
(* The end of Advance, the increment of CPU::Cycle and the test of the     *)
(* main loop.                                                              *)
(***************************************************************************)
\* A slip: the end of the program is not looked at.
AcceptAnywhere(unit) ==
    IF unit.empty
      THEN /\ fetchUnit' = [empty |-> FALSE, pc |-> registers["PC"]]
           /\ registers' = [registers EXCEPT !["PC"] = @ + 1]
      ELSE /\ fetchUnit' = unit
           /\ UNCHANGED registers

Accept(unit) ==
    IF unit.empty /\ registers["PC"] < Len(program)
      THEN /\ fetchUnit' = [empty |-> FALSE, pc |-> registers["PC"]]
           /\ registers' = [registers EXCEPT !["PC"] = @ + 1]
      ELSE /\ fetchUnit' = unit
           /\ UNCHANGED registers

NextCycle ==
    /\ stage = "refill"
    /\ stage' = IF running THEN "writeback" ELSE "stopped"
    /\ UNCHANGED <<program, memory, running>>

Refill ==
    /\ ~triggerFlush
    /\ NextCycle
    /\ Accept(fetchUnit)
    /\ UNCHANGED <<valid, decodeUnit, executeUnit, memoryAccessUnit, writebackUnit,
                   triggerFlush>>

\* A slip: a flush leaves the scoreboard alone.
ScoreboardKept == valid
FlushedScoreboard == [r \in Reg |-> TRUE]

Flush ==
    /\ triggerFlush
    /\ NextCycle
    /\ Accept(NoFetch)
    /\ decodeUnit' = NoDecode
    /\ executeUnit' = NoExecute
    /\ memoryAccessUnit' = NoAccess
    /\ writebackUnit' = NoWriteback
    /\ valid' = FlushedScoreboard
    /\ triggerFlush' = FALSE

\* The main loop has ended, or the process has.
Stopped ==
    /\ stage \in {"stopped", "fault"}
    /\ UNCHANGED vars

WriteBack == WriteBackIdle \/ WriteBackNothing \/ WriteBackResult \/ WriteBackJump
                \/ WriteBackNotTaken
MemoryAccess == MemoryIdle \/ MemoryNotRequired \/ MemoryLoad \/ MemoryStore \/ MemoryFault
Decode == DecodeOperands \/ DecodeStall

Step == WriteBack \/ MemoryAccess \/ Execute \/ Decode \/ Fetch \/ FetchFault
          \/ Refill \/ Flush
Next == Step \/ Stopped

Spec == Init /\ [][Next]_vars

\* The main loop calls Cycle while "running" is set: it never rests.
FairSpec == Spec /\ WF_vars(Step)
==============================================================================
