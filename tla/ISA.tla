--------------------------------- MODULE ISA ---------------------------------
(***************************************************************************)
(* The instruction set both CPU models execute: opcodes and registers      *)
(* (isa/isa.h), the instruction constructors (isa/instruction.cpp) and     *)
(* the arithmetic unit (tomasulos/functionalUnit.cpp).  No state.          *)
(*                                                                         *)
(* A machine word is a signed integer of range -HalfRange..HalfRange-1;    *)
(* the C++ type is int32_t, so HalfRange is 2^31 there.                    *)
(***************************************************************************)
EXTENDS Integers, Sequences

CONSTANTS
    HalfRange,        \* half the number of words
    GPR,              \* the general purpose registers, X1..X31 in the code
    BitOp(_, _, _)    \* the host's shifts and bitwise operators, by opcode

Word == -HalfRange .. (HalfRange - 1)

(***************************************************************************)
(* Opcodes, by the unit behaviour they select.                             *)
(***************************************************************************)
BitOps    == {"SLL", "SRL", "AND", "OR", "XOR"}
RegOps    == {"ADD", "SUB"} \cup BitOps
ImmOps    == {"ADDI", "ORI"}
MemOps    == {"LW", "SW"}
BranchOps == {"BEQ", "BNE", "BLT", "BGE"}
Opcode    == RegOps \cup ImmOps \cup MemOps \cup BranchOps \cup {"NOP", "HLT"}

(***************************************************************************)
(* PC is a register like any other in REGISTER_ABI_NAME: an instruction    *)
(* may name it as a source, and it is the destination of every branch.     *)
(***************************************************************************)
Reg == GPR \cup {"ZERO", "PC"}

ASSUME WordAssumption  == HalfRange \in Nat \ {0}
ASSUME RegAssumption   == "ZERO" \notin GPR /\ "PC" \notin GPR
ASSUME BitOpAssumption ==
    \A op \in BitOps, x, y \in Word : BitOp(op, x, y) \in Word

\* Two's complement wrap-around of a sum, difference or address.
Wrap(x) == ((x + HalfRange) % (2 * HalfRange)) - HalfRange

(***************************************************************************)
(* Instruction constructors.                                               *)
(***************************************************************************)
\* What they share: a store has no destination, a branch has PC.
Instruction ==
    {i \in [op : Opcode, rd : Reg, rs1 : Reg, rs2 : Reg, imm : Word] :
        /\ i.op = "SW" => i.rd = "ZERO"
        /\ i.op \in BranchOps => i.rd = "PC"}

InstructionR(op, rd, rs1, rs2) ==
    [op |-> op, rd |-> rd, rs1 |-> rs1, rs2 |-> rs2, imm |-> 0]
InstructionI(op, rd, rs1, imm) ==
    [op |-> op, rd |-> rd, rs1 |-> rs1, rs2 |-> "ZERO", imm |-> imm]
InstructionS(op, rs1, rs2, imm) ==
    [op |-> op, rd |-> "ZERO", rs1 |-> rs1, rs2 |-> rs2, imm |-> imm]
InstructionB(op, rs1, rs2, imm) ==
    [op |-> op, rd |-> "PC", rs1 |-> rs1, rs2 |-> rs2, imm |-> imm]
InstructionHalt == InstructionR("HLT", "ZERO", "ZERO", "ZERO")
InstructionNop  == InstructionR("NOP", "ZERO", "ZERO", "ZERO")

\* A program as a correct source file gives it: it ends in HLT, only branches
\* write PC, and every branch leads into the program.
WellFormed(p) ==
    /\ p[Len(p)].op = "HLT"
    /\ \A i \in DOMAIN p :
        /\ p[i].rd = "PC" <=> p[i].op \in BranchOps
        /\ p[i].op \in BranchOps => i + p[i].imm \in DOMAIN p

(***************************************************************************)
(* Execution.  A branch evaluates to the index of its successor.           *)
(***************************************************************************)
BranchTaken(op, v1, v2) ==
    \/ op = "BEQ" /\ v1 = v2
    \/ op = "BNE" /\ v1 # v2
    \/ op = "BLT" /\ v1 < v2
    \/ op = "BGE" /\ v1 >= v2

ALU(op, pc, v1, v2, imm) ==
    CASE op = "ADD"  -> Wrap(v1 + v2)
      [] op = "SUB"  -> Wrap(v1 - v2)
      [] op = "ADDI" -> Wrap(v1 + imm)
      [] op = "ORI"  -> BitOp("OR", v1, imm)
      [] op \in BitOps -> BitOp(op, v1, v2)
      [] op \in BranchOps -> IF BranchTaken(op, v1, v2) THEN Wrap(pc + imm)
                                                        ELSE Wrap(pc + 1)
      [] OTHER -> 0

\* A load is relative to rs1, a store to rs2 (its rs1 is the datum).
EffectiveAddress(op, v1, v2, imm) ==
    IF op = "LW" THEN Wrap(v1 + imm) ELSE Wrap(v2 + imm)
==============================================================================
