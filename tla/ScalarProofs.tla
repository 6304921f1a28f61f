----------------------------- MODULE ScalarProofs -----------------------------
(***************************************************************************)
(* The in-order CPU, for every program, memory and word size: types, the   *)
(* order of instructions in the pipeline, the locks of the scoreboard, and *)
(* that suitable programs are executed one instruction at a time.          *)
(***************************************************************************)
EXTENDS ScalarProperties, ISAProofs

(***************************************************************************)
(* Programs.                                                               *)
(***************************************************************************)
\* Every address inside a program holds an instruction, and so do its
\* successor's neighbours: indices are words.
LEMMA ProgramFacts ==
  ASSUME program \in Programs
  PROVE  /\ program \in Seq(Instruction)
         /\ Len(program) \in 1 .. (HalfRange - 1)
         /\ \A pc \in Int : InProgram(pc) <=> pc \in 0 .. (Len(program) - 1)
         /\ \A pc \in Int : InProgram(pc) =>
               /\ pc \in Word /\ pc + 1 \in Word
               /\ InstructionAt(pc) \in Instruction
<1>1. program \in Seq(Instruction) /\ Len(program) \in 1 .. (HalfRange - 1)
  BY InputAssumption
<1>2. DOMAIN program = 1 .. Len(program)
  BY <1>1
<1>3. \A pc \in Int : InProgram(pc) <=> pc \in 0 .. (Len(program) - 1)
  BY <1>1, <1>2 DEF InProgram
<1>4. ASSUME NEW pc \in Int, InProgram(pc)
      PROVE  pc \in Word /\ pc + 1 \in Word /\ InstructionAt(pc) \in Instruction
  <2>1. pc \in 0 .. (Len(program) - 1)
    BY <1>3, <1>4
  <2>2. pc \in Word /\ pc + 1 \in Word
    BY <1>1, <2>1, WordAssumption DEF Word
  <2>3. program[pc + 1] \in Instruction
    BY <1>1, <1>2, <1>4 DEF InProgram
  <2> QED
    BY <2>2, <2>3 DEF InstructionAt
<1> QED
  BY <1>1, <1>3, <1>4

LEMMA InstructionTypes ==
  ASSUME NEW i \in Instruction
  PROVE  /\ i.op \in Opcode /\ i.rd \in Reg /\ i.rs1 \in Reg /\ i.rs2 \in Reg
         /\ i.imm \in Word
         /\ i.op \in BranchOps => i.rd = "PC"
BY DEF Instruction

LEMMA PipelineALUIsWord ==
  ASSUME NEW op, NEW pc \in Word, NEW v1 \in Word, NEW v2 \in Word, NEW imm \in Word
  PROVE  PerformALUOperation(op, pc, v1, v2, imm) \in Word
<1>1. v2 + imm \in Int
  BY SmallWords
<1> QED
  BY <1>1, WrapIsWord, ALUIsWord DEF PerformALUOperation

\* The general form of a latch type, for leaves that need its fields only.
LEMMA LatchTypes ==
  ASSUME TypeOK
  PROVE  /\ fetchUnit.pc \in Word /\ decodeUnit.pc \in Word /\ executeUnit.pc \in Word
         /\ memoryAccessUnit.pc \in Word /\ writebackUnit.pc \in Word
         /\ executeUnit.rs1Value \in Word /\ executeUnit.rs2Value \in Word
         /\ memoryAccessUnit.address \in Word /\ memoryAccessUnit.value \in Word
         /\ writebackUnit.value \in Word
         /\ registers["PC"] \in Word
BY DEF TypeOK, Latch, Reg

(***************************************************************************)
(* Type correctness.                                                       *)
(***************************************************************************)
LEMMA EmptyLatchTypes ==
  /\ NoFetch \in Latch /\ NoFetch.empty
  /\ NoDecode \in Latch /\ NoDecode.empty
  /\ NoExecute \in [empty : BOOLEAN, pc : Word, rs1Value : Word, rs2Value : Word]
  /\ NoExecute.empty
  /\ NoAccess \in [empty : BOOLEAN, pc : Word, address : Word, value : Word]
  /\ NoAccess.empty
  /\ NoWriteback \in [empty : BOOLEAN, pc : Word, value : Word] /\ NoWriteback.empty
BY SmallWords DEF NoFetch, NoDecode, NoExecute, NoAccess, NoWriteback, Latch

LEMMA TypeInit == Init => TypeOK
<1> SUFFICES ASSUME Init PROVE TypeOK
  OBVIOUS
<1>1. 0 \in Word
  BY SmallWords
<1>2. memory \in [Address -> Word]
  BY InputAssumption DEF Init
<1>3. registers \in [Reg -> Word] /\ valid \in [Reg -> BOOLEAN]
  BY <1>1 DEF Init
<1>4. running \in BOOLEAN
  BY ConfigAssumption DEF Init
<1> QED
  BY <1>2, <1>3, <1>4, EmptyLatchTypes DEF Init, TypeOK, Holds

\* What the end of a cycle accepts is inside the program or before it.
LEMMA AcceptTypes ==
  ASSUME TypeOK, NEW unit \in Latch, ~unit.empty => unit.pc < Len(program), Accept(unit)
  PROVE  /\ fetchUnit' \in Latch /\ registers' \in [Reg -> Word]
         /\ ~fetchUnit'.empty => fetchUnit'.pc < Len(program)
<1>1. CASE unit.empty /\ registers["PC"] < Len(program)
  <2>1. registers["PC"] \in Word /\ Len(program) \in 1 .. (HalfRange - 1)
    BY LatchTypes, ProgramFacts DEF TypeOK
  <2>2. registers["PC"] + 1 \in Word
    BY <1>1, <2>1, WordAssumption DEF Word
  <2>3. registers' = [registers EXCEPT !["PC"] = @ + 1]
    BY <1>1 DEF Accept
  <2>4. fetchUnit' = [empty |-> FALSE, pc |-> registers["PC"]]
    BY <1>1 DEF Accept
  <2> QED
    BY <1>1, <2>1, <2>2, <2>3, <2>4 DEF TypeOK, Latch
<1>2. CASE ~(unit.empty /\ registers["PC"] < Len(program))
  <2>1. registers' = registers /\ fetchUnit' = unit
    BY <1>2 DEF Accept
  <2> QED
    BY <2>1 DEF TypeOK
<1> QED
  BY <1>1, <1>2

LEMMA TypeStep == ASSUME TypeOK, [Next]_vars PROVE TypeOK'
<1> USE EmptyLatchTypes
<1>0. /\ program \in Programs
      /\ \A pc \in Word : InProgram(pc) => InstructionAt(pc) \in Instruction
  BY ProgramFacts, SmallWords DEF TypeOK
<1>1. CASE WriteBackIdle
  BY <1>1 DEF TypeOK, Holds, InProgram, WriteBackIdle, Retire
<1>2. CASE WriteBackNothing
  BY <1>2 DEF TypeOK, Holds, InProgram, WriteBackNothing, Retire
<1>3. CASE WriteBackResult \/ WriteBackJump
  <2>1. Retiring \in Instruction
    BY <1>0, <1>3, LatchTypes DEF Retiring, TypeOK, Holds, WriteBackResult, WriteBackJump
  <2>2. Retiring.rd \in Reg /\ writebackUnit.value \in Word
    BY <2>1, InstructionTypes, LatchTypes
  <2>3. registers' \in [Reg -> Word] /\ valid' \in [Reg -> BOOLEAN]
    BY <1>3, <2>2 DEF TypeOK, WriteBackResult, WriteBackJump, WriteRegister
  <2>4. triggerFlush' \in BOOLEAN
    BY <1>3 DEF TypeOK, WriteBackResult, WriteBackJump
  <2> QED
    BY <1>3, <2>3, <2>4
       DEF TypeOK, Holds, InProgram, WriteBackResult, WriteBackJump, Retire
<1>4. CASE WriteBackNotTaken
  BY <1>4 DEF TypeOK, Holds, InProgram, WriteBackNotTaken, Retire
<1>5. CASE MemoryIdle
  BY <1>5 DEF TypeOK, Holds, InProgram, MemoryIdle, AccessMemory
<1>6. ASSUME NEW v \in Word, ~memoryAccessUnit.empty, MoveToWriteback(v), AccessMemory,
             memory' \in [Address -> Word]
      PROVE  TypeOK'
  BY <1>6, LatchTypes DEF TypeOK, Holds, InProgram, MoveToWriteback, AccessMemory
<1>7. CASE MemoryNotRequired
  BY <1>6, <1>7, LatchTypes DEF MemoryNotRequired, TypeOK
<1>8. CASE MemoryLoad
  <2>1. Loaded(memoryAccessUnit.address) \subseteq Word
    BY ConfigAssumption DEF Loaded, TypeOK
  <2> QED
    BY <1>6, <1>8, <2>1 DEF MemoryLoad, TypeOK
<1>9. CASE MemoryStore
  <2>1. memory' \in [Address -> Word]
    BY <1>9, LatchTypes DEF MemoryStore, TypeOK
  <2> QED
    BY <1>6, <1>9, <2>1, LatchTypes DEF MemoryStore
<1>10. CASE MemoryFault \/ DecodeStall \/ FetchFault
  BY <1>10 DEF TypeOK, Holds, InProgram, MemoryFault, DecodeStall, FetchFault, units
<1>11. CASE Execute
  <2>1. CASE executeUnit.empty
    BY <1>11, <2>1 DEF TypeOK, Holds, InProgram, Execute
  <2>2. CASE ~executeUnit.empty
    <3>1. InstructionAt(executeUnit.pc).imm \in Word
      BY <1>0, <2>2, LatchTypes, InstructionTypes DEF TypeOK, Holds
    <3>2. Result \in Word
      BY <3>1, LatchTypes, PipelineALUIsWord DEF Result
    <3>3. /\ memoryAccessUnit' = [empty |-> FALSE, pc |-> executeUnit.pc,
                                  address |-> Result, value |-> executeUnit.rs1Value]
          /\ executeUnit' = NoExecute
      BY <1>11, <2>2 DEF Execute
    <3> QED
      BY <1>11, <2>2, <3>2, <3>3, LatchTypes DEF TypeOK, Holds, InProgram, Execute
  <2> QED
    BY <2>1, <2>2
<1>12. CASE DecodeOperands
  <2>1. /\ Decoded.rs1 \in Reg /\ Decoded.rs2 \in Reg /\ Decoded.rd \in Reg
    BY <1>0, <1>12, LatchTypes, InstructionTypes DEF DecodeOperands, Decoded, TypeOK, Holds
  <2>2. registers[Decoded.rs1] \in Word /\ registers[Decoded.rs2] \in Word
    BY <2>1 DEF TypeOK
  <2>3. valid' \in [Reg -> BOOLEAN]
    BY <1>12, <2>1 DEF DecodeOperands, TypeOK
  <2>4. executeUnit' = [empty |-> FALSE, pc |-> decodeUnit.pc,
                        rs1Value |-> registers[Decoded.rs1],
                        rs2Value |-> registers[Decoded.rs2]]
    BY <1>12 DEF DecodeOperands
  <2> QED
    BY <1>12, <2>2, <2>3, <2>4, LatchTypes DEF TypeOK, Holds, InProgram, DecodeOperands
<1>13. CASE Fetch
  <2>1. CASE ~fetchUnit.empty /\ DecodeHasSpace
    <3>1. /\ decodeUnit' = [empty |-> FALSE, pc |-> fetchUnit.pc]
          /\ fetchUnit' = NoFetch
          /\ InProgram(fetchUnit.pc)
      BY <1>13, <2>1 DEF Fetch
    <3> QED
      BY <1>13, <3>1, LatchTypes DEF TypeOK, Holds, InProgram, Fetch, Latch
  <2>2. CASE ~(~fetchUnit.empty /\ DecodeHasSpace)
    BY <1>13, <2>2 DEF TypeOK, Holds, InProgram, Fetch
  <2> QED
    BY <2>1, <2>2
<1>14. CASE Refill
  <2>1. /\ fetchUnit' \in Latch /\ registers' \in [Reg -> Word]
        /\ ~fetchUnit'.empty => fetchUnit'.pc < Len(program)
    BY <1>14, AcceptTypes DEF Refill, TypeOK
  <2> QED
    BY <1>14, <2>1 DEF TypeOK, Holds, InProgram, Refill, NextCycle
<1>15. CASE Flush
  <2>1. /\ fetchUnit' \in Latch /\ registers' \in [Reg -> Word]
        /\ ~fetchUnit'.empty => fetchUnit'.pc < Len(program)
    BY <1>15, AcceptTypes DEF Flush
  <2>2. valid' \in [Reg -> BOOLEAN]
    BY <1>15 DEF Flush, FlushedScoreboard
  <2> QED
    BY <1>15, <2>1, <2>2 DEF TypeOK, Holds, InProgram, Flush, NextCycle
<1>16. CASE UNCHANGED vars
  BY <1>16 DEF TypeOK, Holds, InProgram, vars, units
<1> QED
  BY <1>1, <1>2, <1>3, <1>4, <1>5, <1>7, <1>8, <1>9, <1>10, <1>11, <1>12, <1>13, <1>14,
     <1>15, <1>16
     DEF Next, Step, Stopped, WriteBack, MemoryAccess, Decode

\* Every value stays a word and every address in flight inside the program.
THEOREM TypeCorrectness == Spec => []TypeOK
<1>1. Init => TypeOK
  BY TypeInit
<1>2. TypeOK /\ [Next]_vars => TypeOK'
  BY TypeStep
<1> QED
  BY <1>1, <1>2, PTL DEF Spec

(***************************************************************************)
(* Order.                                                                  *)
(***************************************************************************)
LEMMA EmptyLatches ==
  /\ NoFetch.empty /\ NoDecode.empty /\ NoExecute.empty
  /\ NoAccess.empty /\ NoWriteback.empty
BY DEF NoFetch, NoDecode, NoExecute, NoAccess, NoWriteback

LEMMA TurnsInit == Init => TurnsTaken
BY EmptyLatches DEF Init, TurnsTaken

LEMMA TurnsStep == ASSUME TurnsTaken, [Next]_vars PROVE TurnsTaken'
<1> USE EmptyLatches
<1>1. CASE WriteBack
  BY <1>1 DEF TurnsTaken, WriteBack, WriteBackIdle, WriteBackNothing, WriteBackResult,
     WriteBackJump, WriteBackNotTaken, Retire
<1>2. CASE MemoryAccess
  <2>1. CASE MemoryFault
    BY <2>1 DEF TurnsTaken, MemoryFault
  <2>2. CASE ~MemoryFault
    <3>1. AccessMemory /\ memoryAccessUnit'.empty
      BY <1>2, <2>2 DEF MemoryAccess, MemoryIdle, MemoryNotRequired, MemoryLoad, MemoryStore,
         MoveToWriteback
    <3> QED
      BY <3>1 DEF TurnsTaken, AccessMemory
  <2> QED
    BY <2>1, <2>2
<1>3. CASE Execute
  BY <1>3 DEF TurnsTaken, Execute
<1>4. CASE Decode \/ Fetch \/ FetchFault
  BY <1>4 DEF TurnsTaken, Decode, DecodeOperands, DecodeStall, Fetch, FetchFault
<1>5. CASE Refill \/ Flush
  BY <1>5 DEF TurnsTaken, Refill, Flush, NextCycle
<1>6. CASE UNCHANGED vars
  BY <1>6 DEF TurnsTaken, vars, units
<1> QED
  BY <1>1, <1>2, <1>3, <1>4, <1>5, <1>6 DEF Next, Step, Stopped

LEMMA OrderInit == Init => InOrder
BY EmptyLatches DEF Init, InOrder

\* Each unit hands over to an empty one, so the chain is moved along and not
\* broken; only a jump sets PC, and then the flush is on its way.
LEMMA OrderStep == ASSUME TypeOK, TurnsTaken, InOrder, [Next]_vars PROVE InOrder'
<1> USE EmptyLatches
    DEF BehindFetch, BehindDecode, BehindExecute, BehindAccess, BehindWriteback
<1>0. /\ fetchUnit.pc \in Int /\ decodeUnit.pc \in Int /\ executeUnit.pc \in Int
      /\ memoryAccessUnit.pc \in Int /\ writebackUnit.pc \in Int /\ registers["PC"] \in Int
  BY LatchTypes, SmallWords
<1>1. CASE WriteBackIdle \/ WriteBackNothing \/ WriteBackNotTaken
  BY <1>1 DEF InOrder, WriteBackIdle, WriteBackNothing, WriteBackNotTaken, Retire
<1>2. CASE WriteBackResult
  <2>1. registers'["PC"] = registers["PC"]
    BY <1>2 DEF WriteBackResult, WriteRegister, TypeOK, Reg
  <2> QED
    BY <1>2, <2>1 DEF InOrder, WriteBackResult, Retire
<1>3. CASE WriteBackJump
  BY <1>3 DEF InOrder, WriteBackJump
<1>4. CASE MemoryIdle
  BY <1>4 DEF InOrder, MemoryIdle, AccessMemory
<1>5. ASSUME NEW v, ~memoryAccessUnit.empty, MoveToWriteback(v), AccessMemory PROVE InOrder'
  BY <1>0, <1>5 DEF InOrder, MoveToWriteback, AccessMemory
<1>6. CASE MemoryNotRequired \/ MemoryLoad \/ MemoryStore
  BY <1>5, <1>6 DEF MemoryNotRequired, MemoryLoad, MemoryStore
<1>7. CASE MemoryFault \/ DecodeStall \/ FetchFault
  BY <1>7 DEF InOrder, MemoryFault, DecodeStall, FetchFault, units
<1>8. CASE Execute
  BY <1>0, <1>8 DEF InOrder, TurnsTaken, Execute
<1>9. CASE DecodeOperands
  BY <1>0, <1>9 DEF InOrder, TurnsTaken, DecodeOperands
<1>10. CASE Fetch
  BY <1>0, <1>10 DEF InOrder, Fetch, DecodeHasSpace
<1>11. CASE Refill
  <2>1. CASE fetchUnit.empty /\ registers["PC"] < Len(program)
    <3>1. registers'["PC"] = registers["PC"] + 1
      BY <1>11, <2>1 DEF Refill, Accept, TypeOK, Reg
    <3>2. fetchUnit'.pc = registers["PC"] /\ ~fetchUnit'.empty
      BY <1>11, <2>1 DEF Refill, Accept
    <3> QED
      BY <1>0, <1>11, <2>1, <3>1, <3>2 DEF InOrder, Refill
  <2>2. CASE ~(fetchUnit.empty /\ registers["PC"] < Len(program))
    BY <1>11, <2>2 DEF InOrder, Refill, Accept
  <2> QED
    BY <2>1, <2>2
<1>12. CASE Flush
  <2>1. ~fetchUnit'.empty => registers'["PC"] = fetchUnit'.pc + 1
    BY <1>0, <1>12 DEF Flush, Accept, TypeOK, Reg
  <2> QED
    BY <1>12, <2>1 DEF InOrder, Flush
<1>13. CASE UNCHANGED vars
  BY <1>13 DEF InOrder, vars, units
<1> QED
  BY <1>1, <1>2, <1>3, <1>4, <1>6, <1>7, <1>8, <1>9, <1>10, <1>11, <1>12, <1>13
     DEF Next, Step, Stopped, WriteBack, MemoryAccess, Decode

\* The pipeline always holds a gapless stretch of the program.
THEOREM ProgramOrder == Spec => []InOrder
<1>1. Init => TurnsTaken /\ InOrder
  BY TurnsInit, OrderInit
<1>2. TypeOK /\ TurnsTaken /\ InOrder /\ [Next]_vars => (TurnsTaken /\ InOrder)'
  BY TurnsStep, OrderStep
<1> QED
  BY <1>1, <1>2, TypeCorrectness, PTL DEF Spec

(***************************************************************************)
(* Locks.                                                                  *)
(***************************************************************************)
LEMMA LocksInit == Init => LocksAreHeld
BY DEF Init, LocksAreHeld

\* A writer moves along with its lock; it unlocks its own register, the only
\* one it writes, when it leaves.
LEMMA LocksStep == ASSUME TypeOK, TurnsTaken, LocksAreHeld, [Next]_vars PROVE LocksAreHeld'
<1> USE EmptyLatches DEF InFlightWriter, WillWrite, InstructionAt
<1> SUFFICES ASSUME NEW r \in Reg \ {"PC"}, ~valid'[r] PROVE InFlightWriter(r)'
  BY DEF LocksAreHeld
<1>0. ~valid[r] => InFlightWriter(r)
  BY DEF LocksAreHeld
<1>1. CASE WriteBackIdle
  BY <1>0, <1>1 DEF WriteBackIdle, Retire
<1>2. CASE WriteBackNothing
  BY <1>0, <1>2 DEF WriteBackNothing, Retire, Retiring, Writes
<1>3. CASE WriteBackResult \/ WriteBackJump
  <2>1. ~valid[r] /\ Retiring.rd # r
    BY <1>3 DEF WriteBackResult, WriteBackJump, WriteRegister, TypeOK
  <2> QED
    BY <1>0, <1>3, <2>1 DEF WriteBackResult, WriteBackJump, Retire, Retiring, Writes
<1>4. CASE WriteBackNotTaken
  BY <1>0, <1>4 DEF WriteBackNotTaken, Retire, Retiring, Writes
<1>5. CASE MemoryIdle
  BY <1>0, <1>5 DEF MemoryIdle, AccessMemory
<1>6. CASE MemoryNotRequired \/ MemoryLoad \/ MemoryStore
  <2>1. AccessMemory /\ ~memoryAccessUnit.empty /\ \E v : MoveToWriteback(v)
    BY <1>6 DEF MemoryNotRequired, MemoryLoad, MemoryStore
  <2> QED
    BY <1>0, <2>1 DEF AccessMemory, MoveToWriteback, TurnsTaken
<1>7. CASE MemoryFault \/ DecodeStall \/ FetchFault
  BY <1>0, <1>7 DEF MemoryFault, DecodeStall, FetchFault, units
<1>8. CASE Execute
  BY <1>0, <1>8 DEF Execute, TurnsTaken
<1>9. CASE DecodeOperands
  <2>1. CASE Writes(Decoded, r)
    BY <1>9, <2>1 DEF DecodeOperands, Decoded
  <2>2. CASE ~Writes(Decoded, r)
    <3>1. ~valid[r]
      BY <1>9, <2>2 DEF DecodeOperands, Writes, TypeOK
    <3> QED
      BY <1>0, <1>9, <3>1 DEF DecodeOperands, TurnsTaken
  <2> QED
    BY <2>1, <2>2
<1>10. CASE Fetch
  BY <1>0, <1>10 DEF Fetch
<1>11. CASE Refill
  BY <1>0, <1>11 DEF Refill, NextCycle
<1>12. CASE Flush
  BY <1>12 DEF Flush, FlushedScoreboard
<1>13. CASE UNCHANGED vars
  BY <1>0, <1>13 DEF vars, units
<1> QED
  BY <1>1, <1>2, <1>3, <1>4, <1>5, <1>6, <1>7, <1>8, <1>9, <1>10, <1>11, <1>12, <1>13
     DEF Next, Step, Stopped, WriteBack, MemoryAccess, Decode

\* No register other than PC stays locked without a writer in flight.
THEOREM LocksHaveHolders == Spec => []LocksAreHeld
<1>1. Init => TurnsTaken /\ LocksAreHeld
  BY TurnsInit, LocksInit
<1>2. TypeOK /\ TurnsTaken /\ LocksAreHeld /\ [Next]_vars => (TurnsTaken /\ LocksAreHeld)'
  BY TurnsStep, LocksStep
<1> QED
  BY <1>1, <1>2, TypeCorrectness, PTL DEF Spec

(***************************************************************************)
(* Guarded writers.                                                        *)
(***************************************************************************)
\* Two writers of a register one or two instructions apart: one of the
\* instructions behind the first waits for it.
LEMMA CloseWriters ==
  ASSUME NoOverlap(program), NEW pc \in Int, NEW d \in {1, 2},
         InProgram(pc), InProgram(pc + d),
         NEW r \in Reg \ {"PC"},
         Writes(InstructionAt(pc), r), Writes(InstructionAt(pc + d), r)
  PROVE  \E k \in 1 .. d : Reads(InstructionAt(pc + k), r)
<1>1. /\ pc + 1 \in DOMAIN program /\ (pc + 1) + d \in DOMAIN program
      /\ program[pc + 1] = InstructionAt(pc)
      /\ \A k \in 1 .. 2 : program[(pc + 1) + k] = InstructionAt(pc + k)
  <2>1. \A k \in 1 .. 2 : (pc + 1) + k = (pc + k) + 1
    OBVIOUS
  <2> QED
    BY <2>1 DEF InProgram, InstructionAt
<1>2. ~Overlap(program, pc + 1, d)
  BY <1>1 DEF NoOverlap
<1>3. program[pc + 1].rd = r
  BY <1>1 DEF Writes
<1>4. PICK k \in 1 .. d : Reads(program[(pc + 1) + k], r)
  BY <1>1, <1>2, <1>3 DEF Overlap
<1> QED
  BY <1>1, <1>4

Guarded == WritersAreGuarded /\ OneWriter /\ SourcesSettled

LEMMA GuardedInit == Init => Guarded
BY EmptyLatches
   DEF Init, Guarded, WritersAreGuarded, OneWriter, SourcesSettled, InFlightWriter,
       WillWrite, WillRead

\* What is decoded finds none of its registers awaited, and no writer of its
\* destination in front of it.
LEMMA DecodedAlone ==
  ASSUME TypeOK, TurnsTaken, InOrder, Guarded, NoOverlap(program), ~triggerFlush,
         DecodeOperands, NEW r \in Reg \ {"PC"}, Reads(Decoded, r) \/ Writes(Decoded, r)
  PROVE  ~WillWrite(memoryAccessUnit, r) /\ ~WillWrite(writebackUnit, r)
<1>1. /\ InProgram(decodeUnit.pc) /\ ~decodeUnit.empty /\ executeUnit.empty
      /\ ~memoryAccessUnit.empty => InProgram(memoryAccessUnit.pc)
      /\ ~writebackUnit.empty => InProgram(writebackUnit.pc)
  BY DEF TypeOK, Holds, TurnsTaken, DecodeOperands
<1>2. /\ decodeUnit.pc \in Int /\ memoryAccessUnit.pc \in Int /\ writebackUnit.pc \in Int
  BY LatchTypes, SmallWords
<1>3. /\ ~memoryAccessUnit.empty => decodeUnit.pc = memoryAccessUnit.pc + 1
      /\ ~writebackUnit.empty /\ memoryAccessUnit.empty
            => decodeUnit.pc = writebackUnit.pc + 1
      /\ ~writebackUnit.empty /\ ~memoryAccessUnit.empty
            => /\ memoryAccessUnit.pc = writebackUnit.pc + 1
               /\ decodeUnit.pc = writebackUnit.pc + 2
  BY <1>1, <1>2 DEF InOrder, BehindAccess, BehindExecute, BehindWriteback
<1>4. Reads(Decoded, r) => ~InFlightWriter(r)
  BY DEF Guarded, WritersAreGuarded, DecodeOperands, OperandsValid, Reads
<1>5. ASSUME Writes(Decoded, r), ~Reads(Decoded, r)
      PROVE  ~WillWrite(memoryAccessUnit, r) /\ ~WillWrite(writebackUnit, r)
  <2>1. ASSUME NEW x \in Int, InProgram(x), decodeUnit.pc = x + 1
        PROVE  ~Writes(InstructionAt(x), r)
    <3>1. SUFFICES ASSUME Writes(InstructionAt(x), r) PROVE FALSE
      OBVIOUS
    <3>2. Decoded = InstructionAt(x + 1) /\ InProgram(x + 1)
      BY <1>1, <2>1 DEF Decoded
    <3>3. \E k \in 1 .. 1 : Reads(InstructionAt(x + k), r)
      BY <1>5, <2>1, <3>1, <3>2, CloseWriters
    <3> QED
      BY <1>5, <3>2, <3>3
  <2>2. ~WillWrite(memoryAccessUnit, r)
    BY <1>1, <1>2, <1>3, <2>1 DEF WillWrite
  <2>3. CASE ~memoryAccessUnit.empty /\ WillWrite(writebackUnit, r)
    <3> DEFINE x == writebackUnit.pc
    <3>1. x \in Int /\ InProgram(x) /\ Writes(InstructionAt(x), r)
      BY <1>1, <1>2, <2>3 DEF WillWrite
    <3>2. /\ InProgram(x + 2) /\ Decoded = InstructionAt(x + 2)
          /\ InstructionAt(memoryAccessUnit.pc) = InstructionAt(x + 1)
      BY <1>1, <1>3, <2>3 DEF WillWrite, Decoded
    <3> HIDE DEF x
    <3>3. \E k \in 1 .. 2 : Reads(InstructionAt(x + k), r)
      BY <1>5, <3>1, <3>2, CloseWriters
    <3>4. Reads(InstructionAt(x + 1), r)
      BY <1>5, <3>2, <3>3
    <3>5. WillRead(memoryAccessUnit, r)
      BY <2>3, <3>2, <3>4 DEF WillRead
    <3> QED
      BY <2>3, <3>5 DEF Guarded, SourcesSettled
  <2> QED
    BY <1>1, <1>2, <1>3, <2>1, <2>2, <2>3 DEF WillWrite
<1> QED
  BY <1>4, <1>5 DEF InFlightWriter

LEMMA GuardedStep ==
  ASSUME TypeOK, TurnsTaken, InOrder, Guarded, [Next]_vars
  PROVE  Guarded'
<1> USE EmptyLatches DEF InFlightWriter, WillWrite, WillRead, InstructionAt
<1> DEFINE G(r) ==
      /\ InFlightWriter(r) => ~valid[r]
      /\ WillWrite(executeUnit, r) \/ WillRead(executeUnit, r) =>
            ~WillWrite(memoryAccessUnit, r) /\ ~WillWrite(writebackUnit, r)
      /\ WillWrite(memoryAccessUnit, r) \/ WillRead(memoryAccessUnit, r) =>
            ~WillWrite(writebackUnit, r)
<1>0. Guarded <=> (NoOverlap(program) /\ ~triggerFlush => \A r \in Reg \ {"PC"} : G(r))
  BY DEF Guarded, WritersAreGuarded, OneWriter, SourcesSettled
<1>a. Guarded' <=> (NoOverlap(program)' /\ ~triggerFlush' => \A r \in Reg \ {"PC"} : G(r)')
  BY DEF Guarded, WritersAreGuarded, OneWriter, SourcesSettled
<1>b. program' = program
  BY DEF Next, Step, Stopped, WriteBack, WriteBackIdle, WriteBackNothing, WriteBackResult,
     WriteBackJump, WriteBackNotTaken, Retire, MemoryAccess, MemoryIdle, MemoryNotRequired,
     MemoryLoad, MemoryStore, MemoryFault, AccessMemory, Execute, Decode, DecodeOperands,
     DecodeStall, Fetch, FetchFault, Refill, Flush, NextCycle, vars
<1> SUFFICES ASSUME NoOverlap(program), ~triggerFlush', NEW r \in Reg \ {"PC"} PROVE G(r)'
  BY <1>a, <1>b DEF NoOverlap
<1>1. CASE Flush
  BY <1>1 DEF Flush
<1>2. CASE WriteBackJump
  BY <1>2 DEF WriteBackJump
<1>3. ASSUME ~triggerFlush PROVE G(r)'
  <2>0. G(r)
    BY <1>0, <1>3
  <2>1. CASE WriteBackIdle
    BY <2>0, <2>1 DEF WriteBackIdle, Retire
  <2>2. CASE WriteBackNothing
    BY <2>0, <2>2 DEF WriteBackNothing, Retire
  <2>3. CASE WriteBackResult
    <3>1. CASE Retiring.rd = r
      <4>1. WillWrite(writebackUnit, r)
        BY <2>3, <3>1 DEF WriteBackResult, Retiring, Writes
      <4>2. ~WillWrite(executeUnit, r) /\ ~WillWrite(memoryAccessUnit, r)
        BY <2>0, <4>1
      <4> QED
        BY <2>0, <2>3, <4>2 DEF WriteBackResult, Retire
    <3>2. CASE Retiring.rd # r
      <4>1. valid'[r] = valid[r]
        BY <2>3, <3>2 DEF WriteBackResult, WriteRegister, TypeOK
      <4> QED
        BY <2>0, <2>3, <4>1 DEF WriteBackResult, Retire
    <3> QED
      BY <3>1, <3>2
  <2>4. CASE WriteBackNotTaken
    BY <2>0, <2>4 DEF WriteBackNotTaken, Retire
  <2>5. CASE MemoryIdle
    BY <2>0, <2>5 DEF MemoryIdle, AccessMemory
  <2>6. CASE MemoryNotRequired \/ MemoryLoad \/ MemoryStore
    <3>1. AccessMemory /\ ~memoryAccessUnit.empty /\ \E v : MoveToWriteback(v)
      BY <2>6 DEF MemoryNotRequired, MemoryLoad, MemoryStore
    <3> QED
      BY <2>0, <3>1 DEF AccessMemory, MoveToWriteback, TurnsTaken
  <2>7. CASE MemoryFault \/ DecodeStall \/ FetchFault
    BY <2>0, <2>7 DEF MemoryFault, DecodeStall, FetchFault, units
  <2>8. CASE Execute
    BY <2>0, <2>8 DEF Execute, TurnsTaken
  <2>9. CASE DecodeOperands
    <3>1. Reads(Decoded, r) \/ Writes(Decoded, r) =>
             ~WillWrite(memoryAccessUnit, r) /\ ~WillWrite(writebackUnit, r)
      BY <1>3, <2>9, DecodedAlone
    <3>2. executeUnit.empty
      BY <2>9 DEF DecodeOperands, TurnsTaken
    <3>3. /\ UNCHANGED <<memoryAccessUnit, writebackUnit>>
          /\ executeUnit'.pc = decodeUnit.pc
      BY <2>9 DEF DecodeOperands
    <3>4. valid'[r] = IF Writes(Decoded, r) THEN FALSE ELSE valid[r]
      BY <2>9 DEF DecodeOperands, Writes, TypeOK
    <3> QED
      BY <1>b, <2>0, <3>1, <3>2, <3>3, <3>4 DEF Decoded
  <2>10. CASE Fetch
    BY <2>0, <2>10 DEF Fetch
  <2>11. CASE Refill
    BY <2>0, <2>11 DEF Refill, NextCycle
  <2>12. CASE UNCHANGED vars
    BY <2>0, <2>12 DEF vars, units
  <2> QED
    BY <1>1, <1>2, <2>1, <2>2, <2>3, <2>4, <2>5, <2>6, <2>7, <2>8, <2>9, <2>10, <2>11, <2>12
       DEF Next, Step, Stopped, WriteBack, MemoryAccess, Decode
<1>4. ASSUME triggerFlush PROVE Flush \/ WriteBackJump
  BY <1>4 DEF Next, Step, Stopped, WriteBack, WriteBackIdle, WriteBackNothing,
     WriteBackResult, WriteBackNotTaken, Retire, MemoryAccess, MemoryIdle,
     MemoryNotRequired, MemoryLoad, MemoryStore, MemoryFault, AccessMemory, Execute, Decode,
     DecodeOperands, DecodeStall, Fetch, FetchFault, Refill, NextCycle, vars
<1> QED
  BY <1>1, <1>2, <1>3, <1>4

\* In programs without overlapping writers the scoreboard's one bit per
\* register is enough: whatever is going to be written is locked.
THEOREM GuardedWriters == Spec => []WritersAreGuarded
<1>1. Init => TurnsTaken /\ InOrder /\ Guarded
  BY TurnsInit, OrderInit, GuardedInit
<1>2. TypeOK /\ TurnsTaken /\ InOrder /\ Guarded /\ [Next]_vars
        => (TurnsTaken /\ InOrder /\ Guarded)'
  BY TurnsStep, OrderStep, GuardedStep
<1>3. Guarded => WritersAreGuarded
  BY DEF Guarded
<1> QED
  BY <1>1, <1>2, <1>3, TypeCorrectness, PTL DEF Spec

(***************************************************************************)
(* Values.                                                                 *)
(***************************************************************************)
LEMMA SuitableFacts ==
  ASSUME TypeOK, Suitable(program), NEW pc \in Int, InProgram(pc)
  PROVE  LET i == InstructionAt(pc)
         IN  /\ i \in Instruction
             /\ i.rs1 \in Reg \ {"PC"} /\ i.rs2 \in Reg \ {"PC"}
             /\ Reads(i, i.rs1) /\ Reads(i, i.rs2)
             /\ Writes(i, "PC") <=> i.op \in BranchOps
             /\ RequiresWriteBack(i) => i.rd \in Reg \ {"ZERO"}
             /\ i.op = "LW" => i.rs1 = i.rs2
<1> DEFINE i == InstructionAt(pc)
<1>1. i \in Instruction
  BY ProgramFacts DEF TypeOK
<1>2. i.rs1 \in Reg /\ i.rs2 \in Reg /\ i.rd \in Reg
  BY <1>1, InstructionTypes
<1>3. pc + 1 \in DOMAIN program /\ program[pc + 1] = i
  BY DEF InProgram, InstructionAt
<1>4. /\ ~Reads(i, "PC") /\ ~Writes(i, "ZERO")
      /\ Writes(i, "PC") => i.op \in BranchOps
      /\ i.op = "LW" => i.rs1 = i.rs2
  BY <1>3 DEF Suitable, ReadsNoPC, KeepsZero, OnlyBranchesJump, BaselessLoads
<1>5. i.op \in BranchOps => Writes(i, "PC")
  BY <1>1, InstructionTypes DEF Writes, RequiresWriteBack, BranchOps
<1> QED
  BY <1>1, <1>2, <1>4, <1>5 DEF Reads, Writes

LEMMA ValuesInit == Init => ValuesAreCurrent
BY EmptyLatches DEF Init, ValuesAreCurrent, ToRetire

\* Retiring writes one register, which no instruction behind it has read; the
\* rest of a cycle writes PC, which none reads, or memory, when nothing that
\* has been loaded is waiting to retire.
LEMMA ValuesStep ==
  ASSUME TypeOK, TurnsTaken, InOrder, Guarded, ValuesAreCurrent, [Next]_vars
  PROVE  ValuesAreCurrent'
<1> USE EmptyLatches DEF ToRetire, Retiring, Accessing
<1>b. program' = program
  BY DEF Next, Step, Stopped, WriteBack, WriteBackIdle, WriteBackNothing, WriteBackResult,
     WriteBackJump, WriteBackNotTaken, Retire, MemoryAccess, MemoryIdle, MemoryNotRequired,
     MemoryLoad, MemoryStore, MemoryFault, AccessMemory, Execute, Decode, DecodeOperands,
     DecodeStall, Fetch, FetchFault, Refill, Flush, NextCycle, vars
<1>c. Suitable(program') => Suitable(program)
  BY <1>b
<1>d. \A pc : InstructionAt(pc)' = program[pc' + 1]
  BY <1>b DEF InstructionAt
<1> SUFFICES ASSUME Suitable(program), ~triggerFlush'
    PROVE  /\ ~executeUnit'.empty =>
                 /\ executeUnit'.rs1Value = registers'[InstructionAt(executeUnit.pc)'.rs1]
                 /\ executeUnit'.rs2Value = registers'[InstructionAt(executeUnit.pc)'.rs2]
           /\ ~memoryAccessUnit'.empty =>
                 /\ memoryAccessUnit'.value = registers'[Accessing'.rs1]
                 /\ memoryAccessUnit'.address =
                       PerformALUOperation(Accessing'.op, memoryAccessUnit'.pc,
                           registers'[Accessing'.rs1], registers'[Accessing'.rs2],
                           Accessing'.imm)
           /\ ToRetire' => writebackUnit'.value \in Outcomes(writebackUnit.pc)'
  BY <1>c DEF ValuesAreCurrent
<1> USE DEF InstructionAt
<1>0. /\ ~executeUnit.empty => InProgram(executeUnit.pc)
      /\ ~memoryAccessUnit.empty => InProgram(memoryAccessUnit.pc)
      /\ ~writebackUnit.empty => InProgram(writebackUnit.pc)
      /\ executeUnit.pc \in Int /\ memoryAccessUnit.pc \in Int /\ writebackUnit.pc \in Int
  BY LatchTypes, SmallWords DEF TypeOK, Holds
<1>1. CASE Flush
  BY <1>1 DEF Flush
<1>2. CASE WriteBackJump
  BY <1>2 DEF WriteBackJump
<1>3. ASSUME triggerFlush PROVE Flush \/ WriteBackJump
  BY <1>3 DEF Next, Step, Stopped, WriteBack, WriteBackIdle, WriteBackNothing,
     WriteBackResult, WriteBackNotTaken, Retire, MemoryAccess, MemoryIdle,
     MemoryNotRequired, MemoryLoad, MemoryStore, MemoryFault, AccessMemory, Execute, Decode,
     DecodeOperands, DecodeStall, Fetch, FetchFault, Refill, NextCycle, vars
<1>4. CASE ~triggerFlush
  <2>0. /\ ~executeUnit.empty =>
              /\ executeUnit.rs1Value = registers[InstructionAt(executeUnit.pc).rs1]
              /\ executeUnit.rs2Value = registers[InstructionAt(executeUnit.pc).rs2]
        /\ ~memoryAccessUnit.empty =>
              /\ memoryAccessUnit.value = registers[Accessing.rs1]
              /\ memoryAccessUnit.address =
                    PerformALUOperation(Accessing.op, memoryAccessUnit.pc,
                        registers[Accessing.rs1], registers[Accessing.rs2], Accessing.imm)
        /\ ToRetire => writebackUnit.value \in Outcomes(writebackUnit.pc)
    BY <1>4 DEF ValuesAreCurrent
  <2>a. /\ ~executeUnit.empty =>
              /\ InstructionAt(executeUnit.pc).rs1 \in Reg \ {"PC"}
              /\ InstructionAt(executeUnit.pc).rs2 \in Reg \ {"PC"}
        /\ ~memoryAccessUnit.empty =>
              Accessing.rs1 \in Reg \ {"PC"} /\ Accessing.rs2 \in Reg \ {"PC"}
        /\ ~writebackUnit.empty =>
              Retiring.rs1 \in Reg \ {"PC"} /\ Retiring.rs2 \in Reg \ {"PC"}
    BY <1>0, SuitableFacts
  <2>1. CASE WriteBackIdle \/ WriteBackNothing \/ WriteBackNotTaken
    BY <1>b, <2>0, <2>1 DEF WriteBackIdle, WriteBackNothing, WriteBackNotTaken, Retire
  <2>2. CASE WriteBackResult
    <3>1. Retiring.rd \in Reg \ {"PC"}
      BY <1>0, <2>2, SuitableFacts, InstructionTypes DEF WriteBackResult
    <3>2. WillWrite(writebackUnit, Retiring.rd)
      BY <2>2 DEF WriteBackResult, WillWrite, Writes
    <3>3. /\ ~WillRead(executeUnit, Retiring.rd)
          /\ ~WillRead(memoryAccessUnit, Retiring.rd)
      BY <1>4, <3>1, <3>2 DEF Guarded, SourcesSettled, Suitable
    <3>4. \A r \in Reg : r # Retiring.rd => registers'[r] = registers[r]
      BY <2>2 DEF WriteBackResult, WriteRegister, TypeOK
    <3>5. /\ ~executeUnit.empty =>
                /\ registers'[InstructionAt(executeUnit.pc).rs1]
                       = registers[InstructionAt(executeUnit.pc).rs1]
                /\ registers'[InstructionAt(executeUnit.pc).rs2]
                       = registers[InstructionAt(executeUnit.pc).rs2]
          /\ ~memoryAccessUnit.empty =>
                /\ registers'[Accessing.rs1] = registers[Accessing.rs1]
                /\ registers'[Accessing.rs2] = registers[Accessing.rs2]
      BY <2>a, <3>3, <3>4 DEF WillRead, Reads
    <3> QED
      BY <1>b, <2>0, <2>2, <3>5 DEF WriteBackResult, Retire
  <2>3. CASE MemoryIdle
    BY <1>b, <2>0, <2>3 DEF MemoryIdle, AccessMemory, Outcomes
  <2>4. ASSUME NEW v, ~memoryAccessUnit.empty, MoveToWriteback(v), AccessMemory,
               Accessing.op # "SW" => v \in Outcomes(memoryAccessUnit.pc) /\ memory' = memory
        PROVE  /\ ~executeUnit'.empty =>
                     /\ executeUnit'.rs1Value = registers'[InstructionAt(executeUnit.pc)'.rs1]
                     /\ executeUnit'.rs2Value = registers'[InstructionAt(executeUnit.pc)'.rs2]
               /\ memoryAccessUnit'.empty
               /\ ToRetire' => writebackUnit'.value \in Outcomes(writebackUnit.pc)'
    <3>1. /\ registers' = registers /\ executeUnit' = executeUnit
          /\ memoryAccessUnit'.empty
          /\ writebackUnit'.pc = memoryAccessUnit.pc /\ writebackUnit'.value = v
      BY <2>4 DEF MoveToWriteback, AccessMemory
    <3>2. ToRetire' => Outcomes(writebackUnit.pc)' = Outcomes(memoryAccessUnit.pc)
      BY <1>b, <2>4, <3>1 DEF Outcomes
    <3> QED
      BY <1>b, <2>0, <2>4, <3>1, <3>2
  <2>5. CASE MemoryNotRequired
    <3>1. memoryAccessUnit.address \in Outcomes(memoryAccessUnit.pc)
      BY <2>0, <2>5 DEF MemoryNotRequired, RequiresMemoryAccess, MemOps, Outcomes
    <3> QED
      BY <2>4, <2>5, <3>1 DEF MemoryNotRequired
  <2>6. CASE MemoryLoad
    <3>1. Loaded(memoryAccessUnit.address) \subseteq Outcomes(memoryAccessUnit.pc)
      BY <2>0, <2>6, ConfigAssumption DEF MemoryLoad, Loaded, Outcomes
    <3> QED
      BY <2>4, <2>6, <3>1 DEF MemoryLoad
  <2>7. CASE MemoryStore
    BY <2>4, <2>7 DEF MemoryStore
  <2>8. CASE MemoryFault \/ DecodeStall \/ FetchFault
    BY <1>b, <2>0, <2>8 DEF MemoryFault, DecodeStall, FetchFault, units, Outcomes
  <2>9. CASE Execute
    <3>1. CASE executeUnit.empty
      BY <1>b, <2>0, <2>9, <3>1 DEF Execute, Outcomes
    <3>2. CASE ~executeUnit.empty
      <4>1. Result = PerformALUOperation(InstructionAt(executeUnit.pc).op, executeUnit.pc,
                        registers[InstructionAt(executeUnit.pc).rs1],
                        registers[InstructionAt(executeUnit.pc).rs2],
                        InstructionAt(executeUnit.pc).imm)
        BY <2>0, <3>2 DEF Result
      <4>2. /\ memoryAccessUnit' = [empty |-> FALSE, pc |-> executeUnit.pc,
                                    address |-> Result, value |-> executeUnit.rs1Value]
            /\ executeUnit'.empty
            /\ registers' = registers /\ memory' = memory /\ writebackUnit' = writebackUnit
        BY <2>9, <3>2 DEF Execute
      <4>3. /\ memoryAccessUnit'.pc = executeUnit.pc
            /\ memoryAccessUnit'.address = Result
            /\ memoryAccessUnit'.value = registers[InstructionAt(executeUnit.pc).rs1]
        BY <2>0, <3>2, <4>2
      <4>4. Accessing' = InstructionAt(executeUnit.pc)
        BY <1>b, <4>3
      <4>5. ToRetire' => writebackUnit'.value \in Outcomes(writebackUnit.pc)'
        BY <1>b, <2>0, <4>2 DEF Outcomes
      <4> QED
        BY <4>1, <4>2, <4>3, <4>4, <4>5
    <3> QED
      BY <3>1, <3>2
  <2>10. CASE DecodeOperands
    <3>1. /\ executeUnit'.pc = decodeUnit.pc
          /\ executeUnit'.rs1Value = registers[Decoded.rs1]
          /\ executeUnit'.rs2Value = registers[Decoded.rs2]
          /\ UNCHANGED <<registers, memory, memoryAccessUnit, writebackUnit>>
      BY <2>10 DEF DecodeOperands
    <3> QED
      BY <1>b, <2>0, <3>1 DEF Decoded, Outcomes
  <2>11. CASE Fetch
    BY <1>b, <2>0, <2>11 DEF Fetch, Outcomes
  <2>12. CASE Refill
    <3>1. \A r \in Reg \ {"PC"} : registers'[r] = registers[r]
      BY <2>12 DEF Refill, Accept, TypeOK
    <3>2. UNCHANGED <<memory, executeUnit, memoryAccessUnit, writebackUnit>>
      BY <2>12 DEF Refill, NextCycle
    <3>3. /\ ~executeUnit.empty =>
                /\ registers'[InstructionAt(executeUnit.pc).rs1]
                       = registers[InstructionAt(executeUnit.pc).rs1]
                /\ registers'[InstructionAt(executeUnit.pc).rs2]
                       = registers[InstructionAt(executeUnit.pc).rs2]
          /\ ~memoryAccessUnit.empty =>
                /\ registers'[Accessing.rs1] = registers[Accessing.rs1]
                /\ registers'[Accessing.rs2] = registers[Accessing.rs2]
          /\ ~writebackUnit.empty =>
                /\ registers'[Retiring.rs1] = registers[Retiring.rs1]
                /\ registers'[Retiring.rs2] = registers[Retiring.rs2]
      BY <2>a, <3>1
    <3>4. ToRetire => Outcomes(writebackUnit.pc)' = Outcomes(writebackUnit.pc)
      BY <1>b, <3>2, <3>3 DEF Outcomes
    <3> QED
      BY <1>b, <2>0, <3>2, <3>3, <3>4
  <2>13. CASE UNCHANGED vars
    BY <1>b, <2>0, <2>13 DEF vars, units, Outcomes
  <2> QED
    BY <1>1, <1>2, <2>1, <2>2, <2>3, <2>5, <2>6, <2>7, <2>8, <2>9, <2>10, <2>11, <2>12, <2>13
       DEF Next, Step, Stopped, WriteBack, MemoryAccess, Decode
<1> QED
  BY <1>1, <1>2, <1>3, <1>4

(***************************************************************************)
(* The unit that still runs after a jump or HLT.                           *)
(***************************************************************************)
LEMMA ShadowInit == Init => ShadowIsHarmless
BY DEF Init, ShadowIsHarmless

LEMMA ShadowStep ==
  ASSUME TypeOK, TurnsTaken, InOrder, ShadowIsHarmless, [Next]_vars
  PROVE  ShadowIsHarmless'
<1>b. program' = program
  BY DEF Next, Step, Stopped, WriteBack, WriteBackIdle, WriteBackNothing, WriteBackResult,
     WriteBackJump, WriteBackNotTaken, Retire, MemoryAccess, MemoryIdle, MemoryNotRequired,
     MemoryLoad, MemoryStore, MemoryFault, AccessMemory, Execute, Decode, DecodeOperands,
     DecodeStall, Fetch, FetchFault, Refill, Flush, NextCycle, vars
<1>1. CASE UNCHANGED vars
  BY <1>1 DEF vars, units, ShadowIsHarmless, Accessing, InstructionAt
<1>2. CASE WriteBack
  <2>1. SUFFICES ASSUME Unshadowed(program), triggerFlush' \/ ~running', ~memoryAccessUnit.empty
                 PROVE  Accessing.op # "SW"
    <3>1. memoryAccessUnit' = memoryAccessUnit
      BY <1>2 DEF WriteBack, WriteBackIdle, WriteBackNothing, WriteBackResult,
         WriteBackJump, WriteBackNotTaken, Retire
    <3>2. Accessing' = Accessing
      BY <1>b, <3>1 DEF Accessing, InstructionAt
    <3> QED
      BY <1>b, <2>1, <3>1, <3>2 DEF ShadowIsHarmless
  <2>2. running /\ ~triggerFlush /\ stage = "writeback"
    BY <1>2 DEF TurnsTaken, WriteBack, WriteBackIdle, WriteBackNothing, WriteBackResult,
       WriteBackJump, WriteBackNotTaken, Retire
  <2>3. ~writebackUnit.empty /\ (WriteBackJump \/ Retiring.op = "HLT")
    BY <1>2, <2>1, <2>2 DEF WriteBack, WriteBackIdle, WriteBackNothing, WriteBackResult,
       WriteBackJump, WriteBackNotTaken
  <2>4. /\ writebackUnit.pc \in Int /\ memoryAccessUnit.pc \in Int
        /\ InProgram(writebackUnit.pc) /\ InProgram(memoryAccessUnit.pc)
    BY <2>1, <2>3, LatchTypes, SmallWords DEF TypeOK, Holds
  <2>5. memoryAccessUnit.pc = writebackUnit.pc + 1
    BY <2>1, <2>2, <2>3 DEF InOrder, BehindWriteback
  <2>6. Retiring.op \in BranchOps \cup {"HLT"}
    BY <2>1, <2>3, <2>4
       DEF Unshadowed, OnlyBranchesJump, WriteBackJump, Writes, Retiring, InstructionAt,
           InProgram
  <2> DEFINE n == writebackUnit.pc + 1
  <2>7. /\ n \in DOMAIN program /\ n + 1 \in DOMAIN program
        /\ program[n] = Retiring /\ program[n + 1] = Accessing
    BY <2>4, <2>5 DEF InProgram, Retiring, Accessing, InstructionAt
  <2> HIDE DEF n
  <2> QED
    BY <2>1, <2>6, <2>7 DEF Unshadowed, NoShadowedStore
<1>3. CASE ~WriteBack /\ ~UNCHANGED vars
  <2>1. stage' # "memory"
    BY <1>3 DEF Next, Step, Stopped, MemoryAccess, MemoryIdle, MemoryNotRequired,
       MemoryLoad, MemoryStore, MemoryFault, AccessMemory, Execute, Decode, DecodeOperands,
       DecodeStall, Fetch, FetchFault, Refill, Flush, NextCycle
  <2> QED
    BY <2>1 DEF ShadowIsHarmless
<1> QED
  BY <1>1, <1>2, <1>3

\* "Should not happen" (relativeBranchTest.prog:13), of what a taken branch
\* skips, holds of memory for every program that keeps its stores out of the
\* place behind a jump or HLT, whatever else the program does.
THEOREM SkippedStoresNeedAShadow ==
  ASSUME \A p \in Programs : Unshadowed(p)
  PROVE  Spec => SkippedStoresHaveNoEffect
<1> DEFINE Inv == TurnsTaken /\ InOrder /\ ShadowIsHarmless
           Kept == memory' # memory => memoryAccessUnit.pc = ArchitecturalPC
<1>1. Init => Inv
  BY TurnsInit, OrderInit, ShadowInit
<1>2. TypeOK /\ Inv /\ [Next]_vars => Inv'
  BY TurnsStep, OrderStep, ShadowStep
<1>3. TypeOK /\ Inv /\ [Next]_vars => [Kept]_vars
  <2> SUFFICES ASSUME TypeOK, Inv, [Next]_vars, memory' # memory
               PROVE  memoryAccessUnit.pc = ArchitecturalPC
    OBVIOUS
  <2>1. MemoryStore
    BY DEF Next, Step, Stopped, WriteBack, WriteBackIdle, WriteBackNothing, WriteBackResult,
       WriteBackJump, WriteBackNotTaken, Retire, MemoryAccess, MemoryIdle, MemoryNotRequired,
       MemoryLoad, MemoryFault, AccessMemory, Execute, Decode, DecodeOperands, DecodeStall,
       Fetch, FetchFault, Refill, Flush, NextCycle, vars
  <2>2. /\ stage = "memory" /\ ~memoryAccessUnit.empty /\ Accessing.op = "SW"
        /\ writebackUnit.empty
    BY <2>1 DEF MemoryStore, AccessMemory, TurnsTaken
  <2>3. Unshadowed(program)
    BY DEF TypeOK
  <2>4. ~triggerFlush
    BY <2>2, <2>3 DEF ShadowIsHarmless
  <2> QED
    BY <2>2, <2>4 DEF ArchitecturalPC, ToRetire, BehindWriteback
<1> QED
  BY <1>1, <1>2, <1>3, TypeCorrectness, PTL DEF Spec, SkippedStoresHaveNoEffect

(***************************************************************************)
(* Refinement.                                                             *)
(***************************************************************************)
\* What an instruction took along and has computed is of the moment it
\* retires: the pipeline has no bypass, and yet reads no stale value.
THEOREM ValuesStayCurrent == Spec => []ValuesAreCurrent
<1> DEFINE Inv == TurnsTaken /\ InOrder /\ Guarded /\ ValuesAreCurrent
<1>1. Init => Inv
  BY TurnsInit, OrderInit, GuardedInit, ValuesInit
<1>2. TypeOK /\ Inv /\ [Next]_vars => Inv'
  BY TurnsStep, OrderStep, GuardedStep, ValuesStep
<1>3. Inv => ValuesAreCurrent
  OBVIOUS
<1> QED
  BY <1>1, <1>2, <1>3, TypeCorrectness, PTL DEF Spec

\* The instruction in write-back is the one at the architectural pc.
LEMMA RetiringIsNext ==
  ASSUME TypeOK, TurnsTaken, stage = "writeback", ToRetire
  PROVE  /\ running /\ ~triggerFlush /\ ArchitecturalPC = writebackUnit.pc
         /\ InProgram(writebackUnit.pc) /\ writebackUnit.pc \in Int
         /\ Sequential!Running /\ Sequential!Current = Retiring
<1>1. running /\ ~triggerFlush /\ ArchitecturalPC = writebackUnit.pc
  BY DEF TurnsTaken, ArchitecturalPC
<1>2. InProgram(writebackUnit.pc) /\ writebackUnit.pc \in Int
  BY LatchTypes, SmallWords DEF TypeOK, Holds, ToRetire
<1> QED
  BY <1>1, <1>2 DEF Sequential!Running, Sequential!Current, Retiring, InstructionAt, InProgram

\* A step that leaves program, memory, registers and "running" alone, and
\* moves no further, is a stutter.
LEMMA Stutter ==
  ASSUME UNCHANGED <<program, memory, running>>,
         \A r \in Reg \ {"PC"} : registers'[r] = registers[r],
         running => ArchitecturalPC' = ArchitecturalPC
  PROVE  UNCHANGED Sequential!vars
BY RegAssumption DEF Sequential!vars, Reg

\* The registers write-back leaves behind are those of the instruction set.
LEMMA WrittenRegisters ==
  ASSUME TypeOK, WriteRegister, Retiring.rd \in GPR
  PROVE  [r \in GPR \cup {"ZERO"} |-> registers'[r]]
            = Sequential!Write(Retiring.rd, writebackUnit.value)
<1>1. registers' = [registers EXCEPT ![Retiring.rd] = writebackUnit.value]
  BY DEF WriteRegister
<1>2. Retiring.rd # "ZERO" /\ GPR \cup {"ZERO"} \subseteq Reg
  BY RegAssumption DEF Reg
<1>3. registers \in [Reg -> Word]
  BY DEF TypeOK
<1> QED
  BY <1>1, <1>2, <1>3 DEF Sequential!Write

\* The two sides share their arithmetic.
LEMMA SameArithmetic ==
  ASSUME NEW op, NEW pc, NEW v1, NEW v2, NEW imm
  PROVE  /\ Sequential!ALU(op, pc, v1, v2, imm) = ALU(op, pc, v1, v2, imm)
         /\ Sequential!EffectiveAddress(op, v1, v2, imm) = EffectiveAddress(op, v1, v2, imm)
BY DEF ALU, Sequential!ALU, BranchTaken, Sequential!BranchTaken, Wrap, Sequential!Wrap,
   EffectiveAddress, Sequential!EffectiveAddress, BitOps, Sequential!BitOps, BranchOps,
   Sequential!BranchOps

LEMMA RetiringRefines ==
  ASSUME TypeOK, TurnsTaken, InOrder, ValuesAreCurrent, Suitable(program), WriteBack, ToRetire
  PROVE  [Sequential!Next]_(Sequential!vars)
<1> USE SameArithmetic
<1> DEFINE W == writebackUnit
<1>1. Retire /\ stage = "writeback" /\ UNCHANGED <<program, memory>> /\ W'.empty
  BY EmptyLatches DEF WriteBack, WriteBackIdle, WriteBackNothing, WriteBackResult,
     WriteBackJump, WriteBackNotTaken, Retire
<1>2. /\ running /\ ~triggerFlush /\ ArchitecturalPC = W.pc
      /\ InProgram(W.pc) /\ W.pc \in Int
      /\ Sequential!Running /\ Sequential!Current = Retiring
  BY <1>1, RetiringIsNext
<1>3. /\ Retiring \in Instruction
      /\ Retiring.rs1 \in Reg \ {"PC"} /\ Retiring.rs2 \in Reg \ {"PC"}
      /\ Writes(Retiring, "PC") <=> Retiring.op \in BranchOps
      /\ RequiresWriteBack(Retiring) => Retiring.rd \in Reg \ {"ZERO"}
      /\ Retiring.op = "LW" => Retiring.rs1 = Retiring.rs2
  BY <1>2, SuitableFacts DEF Retiring
<1>4. W.value \in Outcomes(W.pc)
  BY <1>2 DEF ValuesAreCurrent
<1>5. /\ Sequential!vars = <<program, [r \in GPR \cup {"ZERO"} |-> registers[r]], memory,
                             W.pc, FALSE>>
      /\ running' /\ ~triggerFlush' =>
            Sequential!vars' = <<program, [r \in GPR \cup {"ZERO"} |-> registers'[r]], memory,
                                 W.pc + 1, FALSE>>
  <2>1. BehindWriteback = W.pc + 1
    BY <1>2 DEF InOrder, ToRetire
  <2>2. registers' = registers \/ (WriteRegister /\ Retiring.rd # "PC") \/ triggerFlush'
    BY DEF WriteBack, WriteBackIdle, WriteBackNothing, WriteBackResult, WriteBackJump,
       WriteBackNotTaken
  <2>3. registers'["PC"] = registers["PC"] \/ triggerFlush'
    BY <2>2 DEF WriteRegister, TypeOK, Reg
  <2>4. ~triggerFlush' => ArchitecturalPC' = BehindWriteback
    BY <1>1, <2>3 DEF ArchitecturalPC, ToRetire, Retire, BehindWriteback, BehindAccess,
       BehindExecute, BehindDecode, BehindFetch
  <2> QED
    BY <1>1, <1>2, <2>1, <2>4 DEF Sequential!vars
<1>6. /\ [r \in GPR \cup {"ZERO"} |-> registers[r]][Retiring.rs1] = registers[Retiring.rs1]
      /\ [r \in GPR \cup {"ZERO"} |-> registers[r]][Retiring.rs2] = registers[Retiring.rs2]
  BY <1>3 DEF Reg
<1>7. CASE WriteBackIdle
  BY <1>7 DEF WriteBackIdle, ToRetire
<1>8. CASE WriteBackNothing
  <2>1. /\ registers' = registers /\ ~triggerFlush'
        /\ running' <=> Retiring.op # "HLT"
        /\ Retiring.op \in {"HLT", "NOP"}
    BY <1>2, <1>8 DEF WriteBackNothing, RequiresWriteBack, ToRetire
  <2>2. CASE Retiring.op = "NOP"
    <3>1. Sequential!Skip
      BY <1>2, <1>5, <2>1, <2>2 DEF Sequential!Skip, Sequential!vars
    <3> QED
      BY <3>1 DEF Sequential!Next
  <2>3. CASE Retiring.op = "HLT"
    <3>1. Sequential!Halt
      BY <1>1, <1>2, <2>1, <2>3 DEF Sequential!Halt
    <3> QED
      BY <3>1 DEF Sequential!Next
  <2> QED
    BY <2>1, <2>2, <2>3
<1>9. CASE WriteBackResult
  <2>1. /\ WriteRegister /\ Retiring.rd \in GPR /\ Retiring.op \notin BranchOps
        /\ running' /\ ~triggerFlush'
    BY <1>2, <1>3, <1>9 DEF WriteBackResult, Reg, Writes
  <2>2. [r \in GPR \cup {"ZERO"} |-> registers'[r]]
           = Sequential!Write(Retiring.rd, W.value)
    BY <2>1, WrittenRegisters
  <2>3. Retiring.op \in RegOps \cup ImmOps \cup {"LW"}
    BY <1>3, <1>9, <2>1, InstructionTypes
       DEF WriteBackResult, RequiresWriteBack, Opcode, MemOps
  <2>4. CASE Retiring.op = "LW"
    <3>1. Sequential!CurrentAddress
             = PerformALUOperation(Retiring.op, W.pc, registers[Retiring.rs1],
                                   registers[Retiring.rs2], Retiring.imm)
      <4>1. Sequential!CurrentAddress
               = Sequential!EffectiveAddress("LW", registers[Retiring.rs1],
                                             registers[Retiring.rs2], Retiring.imm)
        BY <1>2, <1>6, <2>4 DEF Sequential!CurrentAddress
      <4>2. registers[Retiring.rs1] = registers[Retiring.rs2]
        BY <1>3, <2>4
      <4> QED
        BY <2>4, <4>1, <4>2 DEF EffectiveAddress, PerformALUOperation, MemOps
    <3>2. W.value \in Sequential!Loaded(Sequential!CurrentAddress)
      BY <1>4, <2>4, <3>1 DEF Outcomes, Retiring, Sequential!Loaded, Address,
         Sequential!Address, Word, Sequential!Word
    <3>3. Sequential!Load
      BY <1>2, <1>5, <2>1, <2>2, <2>4, <3>2 DEF Sequential!Load, Sequential!vars
    <3> QED
      BY <3>3 DEF Sequential!Next
  <2>5. CASE Retiring.op \in RegOps \cup ImmOps
    <3>1. W.value = ALU(Retiring.op, W.pc, registers[Retiring.rs1],
                        registers[Retiring.rs2], Retiring.imm)
      BY <1>4, <2>5 DEF Outcomes, Retiring, PerformALUOperation, MemOps, RegOps, ImmOps, BitOps
    <3>2. Sequential!Compute
      BY <1>2, <1>5, <1>6, <2>1, <2>2, <2>5, <3>1
         DEF Sequential!Compute, Sequential!vars, RegOps, Sequential!RegOps, ImmOps,
             Sequential!ImmOps, BitOps, Sequential!BitOps
    <3> QED
      BY <3>2 DEF Sequential!Next
  <2> QED
    BY <2>3, <2>4, <2>5
<1>10. CASE WriteBackJump \/ WriteBackNotTaken
  <2>1. /\ Retiring.op \in BranchOps /\ Retiring.rd = "PC" /\ running'
        /\ \A r \in Reg \ {"PC"} : registers'[r] = registers[r]
    BY <1>2, <1>3, <1>10 DEF WriteBackJump, WriteBackNotTaken, Writes, WriteRegister, TypeOK
  <2>2. W.value = ALU(Retiring.op, W.pc, registers[Retiring.rs1],
                      registers[Retiring.rs2], Retiring.imm)
    BY <1>4, <2>1 DEF Outcomes, Retiring, PerformALUOperation, MemOps, BranchOps
  <2>3. ArchitecturalPC' = W.value
    <3>1. CASE WriteBackJump
      BY <2>1, <3>1 DEF WriteBackJump, WriteRegister, ArchitecturalPC, TypeOK, Reg
    <3>2. CASE WriteBackNotTaken
      <4>1. running' /\ ~triggerFlush' /\ W.value = W.pc + 1
        BY <1>2, <3>2 DEF WriteBackNotTaken
      <4> QED
        BY <1>5, <4>1 DEF Sequential!vars
    <3> QED
      BY <1>10, <3>1, <3>2
  <2>4. [r \in GPR \cup {"ZERO"} |-> registers'[r]] = [r \in GPR \cup {"ZERO"} |-> registers[r]]
    BY <2>1, RegAssumption DEF Reg
  <2>5. Sequential!Branch
    BY <1>1, <1>2, <1>6, <2>1, <2>2, <2>3, <2>4
       DEF Sequential!Branch, BranchOps, Sequential!BranchOps
  <2> QED
    BY <2>5 DEF Sequential!Next
<1> QED
  BY <1>7, <1>8, <1>9, <1>10 DEF WriteBack

LEMMA StoringRefines ==
  ASSUME TypeOK, TurnsTaken, InOrder, ValuesAreCurrent, ShadowIsHarmless, Suitable(program),
         MemoryStore
  PROVE  [Sequential!Next]_(Sequential!vars)
<1> USE SameArithmetic
<1> DEFINE M == memoryAccessUnit
<1>1. /\ stage = "memory" /\ ~M.empty /\ Accessing.op = "SW" /\ M.address \in Address
      /\ running /\ ~triggerFlush /\ writebackUnit.empty
      /\ memory' = [memory EXCEPT ![M.address] = M.value]
      /\ UNCHANGED <<program, registers, fetchUnit, decodeUnit, executeUnit, triggerFlush,
                     running>>
      /\ memoryAccessUnit'.empty /\ ~writebackUnit'.empty /\ writebackUnit'.pc = M.pc
  BY EmptyLatches DEF MemoryStore, AccessMemory, MoveToWriteback, ShadowIsHarmless, TurnsTaken,
     Suitable, Unshadowed
<1>2. InProgram(M.pc) /\ M.pc \in Int
  BY <1>1, LatchTypes, SmallWords DEF TypeOK, Holds
<1>3. ArchitecturalPC = M.pc
  BY <1>1 DEF ArchitecturalPC, ToRetire, BehindWriteback
<1>4. ArchitecturalPC' = M.pc + 1
  <2>1. ~ToRetire'
    BY <1>1 DEF ToRetire, Retiring, Accessing, InstructionAt
  <2> QED
    BY <1>1, <2>1 DEF InOrder, ArchitecturalPC, BehindWriteback, BehindAccess, BehindExecute,
       BehindDecode, BehindFetch
<1>5. Sequential!Running /\ Sequential!Current = Accessing
  BY <1>1, <1>2, <1>3
     DEF Sequential!Running, Sequential!Current, Accessing, InstructionAt, InProgram
<1>6. Accessing.rs1 \in GPR \cup {"ZERO"} /\ Accessing.rs2 \in GPR \cup {"ZERO"}
  BY <1>2, SuitableFacts DEF Accessing, Reg
<1>7. M.value = registers[Accessing.rs1] /\ M.address = Sequential!CurrentAddress
  <2>1. M.value = registers[Accessing.rs1]
        /\ M.address = Wrap(registers[Accessing.rs2] + Accessing.imm)
    BY <1>1 DEF ValuesAreCurrent, PerformALUOperation, MemOps
  <2>2. Sequential!CurrentAddress
           = Sequential!EffectiveAddress("SW", registers[Accessing.rs1],
                                         registers[Accessing.rs2], Accessing.imm)
    BY <1>1, <1>5, <1>6 DEF Sequential!CurrentAddress
  <2>3. Sequential!CurrentAddress
           = EffectiveAddress("SW", registers[Accessing.rs1], registers[Accessing.rs2],
                              Accessing.imm)
    BY <2>2
  <2> QED
    BY <2>1, <2>3 DEF EffectiveAddress
<1>8. Sequential!Store
  BY <1>1, <1>3, <1>4, <1>5, <1>6, <1>7 DEF Sequential!Store, Address, Sequential!Address
<1> QED
  BY <1>8 DEF Sequential!Next

\* Everything else moves instructions along.
LEMMA MovingStutters ==
  ASSUME TypeOK, TurnsTaken, [Next]_vars, ~(WriteBack /\ ToRetire), ~MemoryStore
  PROVE  UNCHANGED Sequential!vars
<1> USE EmptyLatches
    DEF ArchitecturalPC, ToRetire, Retiring, Accessing, InstructionAt, BehindWriteback,
        BehindAccess, BehindExecute, BehindDecode, BehindFetch
<1>1. CASE WriteBack
  <2>1. writebackUnit.empty \/ Retiring.op = "SW"
    BY <1>1
  <2>2. WriteBackIdle \/ (WriteBackNothing /\ ~writebackUnit.empty /\ Retiring.op = "SW")
    BY <1>1, <2>1 DEF WriteBack, WriteBackNothing, WriteBackResult, WriteBackJump,
       WriteBackNotTaken, RequiresWriteBack
  <2>3. /\ UNCHANGED <<program, memory, registers, triggerFlush, fetchUnit, decodeUnit,
                       executeUnit, memoryAccessUnit>>
        /\ writebackUnit'.empty /\ ~ToRetire
    BY <2>1, <2>2 DEF WriteBackIdle, WriteBackNothing, Retire
  <2>4. running' = running
    BY <2>2 DEF WriteBackIdle, WriteBackNothing, TypeOK
  <2>5. ArchitecturalPC' = ArchitecturalPC
    BY <2>3
  <2> QED
    BY <2>3, <2>4, <2>5, Stutter
<1>2. CASE MemoryIdle \/ MemoryFault \/ DecodeStall \/ FetchFault \/ UNCHANGED vars
  <2>1. UNCHANGED <<program, memory, registers, triggerFlush, running, units>>
    BY <1>2 DEF MemoryIdle, MemoryFault, AccessMemory, DecodeStall, FetchFault, vars, units
  <2>2. ArchitecturalPC' = ArchitecturalPC
    BY <2>1 DEF units
  <2> QED
    BY <2>1, <2>2, Stutter
<1>3. CASE MemoryNotRequired \/ MemoryLoad
  <2>1. /\ UNCHANGED <<program, memory, registers, triggerFlush, running>>
        /\ writebackUnit.empty /\ ~memoryAccessUnit.empty /\ Accessing.op # "SW"
        /\ ~writebackUnit'.empty /\ writebackUnit'.pc = memoryAccessUnit.pc
    BY <1>3 DEF MemoryNotRequired, MemoryLoad, AccessMemory, MoveToWriteback, TurnsTaken,
       RequiresMemoryAccess, MemOps
  <2>2. ArchitecturalPC' = ArchitecturalPC
    BY <2>1
  <2> QED
    BY <2>1, <2>2, Stutter
<1>4. CASE Execute \/ DecodeOperands \/ Fetch
  <2>1. UNCHANGED <<program, memory, registers, triggerFlush, running, writebackUnit>>
    BY <1>4 DEF Execute, DecodeOperands, Fetch
  <2>2. BehindWriteback' = BehindWriteback
    <3>1. CASE Execute
      BY <3>1 DEF Execute, TurnsTaken
    <3>2. CASE DecodeOperands
      BY <3>2 DEF DecodeOperands, TurnsTaken
    <3>3. CASE Fetch
      BY <3>3 DEF Fetch, DecodeHasSpace
    <3> QED
      BY <1>4, <3>1, <3>2, <3>3
  <2>3. ArchitecturalPC' = ArchitecturalPC
    BY <2>1, <2>2
  <2> QED
    BY <2>1, <2>3, Stutter
<1>5. CASE Refill
  <2>1. /\ UNCHANGED <<program, memory, triggerFlush, running, decodeUnit, executeUnit,
                       memoryAccessUnit, writebackUnit>>
        /\ ~triggerFlush /\ Accept(fetchUnit)
    BY <1>5 DEF Refill, NextCycle
  <2>2. \A r \in Reg \ {"PC"} : registers'[r] = registers[r]
    BY <2>1 DEF Accept, TypeOK
  <2>3. BehindDecode' = BehindDecode
    BY <2>1 DEF Accept
  <2>4. ArchitecturalPC' = ArchitecturalPC
    BY <2>1, <2>3
  <2> QED
    BY <2>1, <2>2, <2>4, Stutter
<1>6. CASE Flush
  <2>1. /\ UNCHANGED <<program, memory, running>>
        /\ triggerFlush /\ ~triggerFlush' /\ Accept(NoFetch)
        /\ decodeUnit'.empty /\ executeUnit'.empty /\ memoryAccessUnit'.empty
        /\ writebackUnit'.empty
    BY <1>6 DEF Flush, NextCycle
  <2>2. \A r \in Reg \ {"PC"} : registers'[r] = registers[r]
    BY <2>1 DEF Accept, TypeOK
  <2>3. BehindDecode' = registers["PC"]
    BY <2>1 DEF Accept
  <2>4. ArchitecturalPC' = ArchitecturalPC
    BY <2>1, <2>3
  <2> QED
    BY <2>1, <2>2, <2>4, Stutter
<1> QED
  BY <1>1, <1>2, <1>3, <1>4, <1>5, <1>6 DEF Next, Step, Stopped, MemoryAccess, Decode

LEMMA RefinementInit == Init /\ running => Sequential!Init
BY EmptyLatches, RegAssumption
   DEF Init, Sequential!Init, ArchitecturalPC, ToRetire, BehindWriteback, BehindAccess,
       BehindExecute, BehindDecode, BehindFetch, Reg, Sequential!ArchReg

\* The pipeline executes a suitable program one instruction at a time, for
\* every memory size, word size, program and host: stalls and flushes cannot
\* be told from the outside.
THEOREM PipelineImplementsSequential == Spec => ImplementsSequential
<1> DEFINE Inv == TurnsTaken /\ InOrder /\ Guarded /\ ValuesAreCurrent /\ ShadowIsHarmless
<1>1. Init => Inv
  BY TurnsInit, OrderInit, GuardedInit, ValuesInit, ShadowInit
<1>2. TypeOK /\ Inv /\ [Next]_vars => Inv'
  BY TurnsStep, OrderStep, GuardedStep, ValuesStep, ShadowStep
<1>3. TypeOK /\ Inv /\ [Next]_vars
        => [Suitable(program) => [Sequential!Next]_(Sequential!vars)]_vars
  BY RetiringRefines, StoringRefines, MovingStutters
<1> QED
  BY <1>1, <1>2, <1>3, RefinementInit, TypeCorrectness, PTL DEF Spec, ImplementsSequential
==============================================================================
