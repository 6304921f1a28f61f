------------------------------ MODULE MCPrograms ------------------------------
(***************************************************************************)
(* What the instances of both CPUs share: four-bit words, two registers    *)
(* and the instructions that programs are made of.                         *)
(***************************************************************************)
EXTENDS ISA, SequencesExt, Bitwise

(***************************************************************************)
(* The host's operators on words of WordBits bits.  Shift counts are taken *)
(* modulo the width, as x86 does.                                          *)
(***************************************************************************)
WordBits == 4
MCHalfRange == 8
MCGPR == {"T0", "T1"}

Unsigned(x) == x % 16

MCBitOp(op, x, y) ==
    CASE op = "AND" -> Wrap(Unsigned(x) & Unsigned(y))
      [] op = "OR"  -> Wrap(Unsigned(x) | Unsigned(y))
      [] op = "XOR" -> Wrap(Unsigned(x) ^^ Unsigned(y))
      [] op = "SLL" -> Wrap(x * 2 ^ (y % WordBits))
      [] op = "SRL" -> x \div (2 ^ (y % WordBits))

(***************************************************************************)
(* Instructions.                                                           *)
(***************************************************************************)
inc       == InstructionI("ADDI", "T0", "T0", 1)
set       == InstructionI("ADDI", "T1", "ZERO", 1)
double    == InstructionR("ADD", "T1", "T0", "T0")
sub       == InstructionR("SUB", "T0", "T1", "T0")
toZero    == InstructionI("ADDI", "ZERO", "T0", 1)
jump      == InstructionR("ADD", "PC", "T0", "T0")
readPC    == InstructionR("ADD", "T0", "PC", "T0")
load      == InstructionI("LW", "T0", "ZERO", 0)
loadT1    == InstructionI("LW", "T1", "ZERO", 0)
loadAt    == InstructionI("LW", "T0", "T1", 0)
loadFar   == InstructionI("LW", "T0", "ZERO", 3)
loadBack  == InstructionI("LW", "T1", "ZERO", 1)
store     == InstructionS("SW", "T0", "ZERO", 1)
storeT1   == InstructionS("SW", "T1", "ZERO", 1)
storeAt   == InstructionS("SW", "T0", "T1", 1)
skipIf    == InstructionB("BNE", "T0", "ZERO", 2)
skipLess  == InstructionB("BLT", "T0", "T1", 2)
repeatIf  == InstructionB("BEQ", "T0", "T1", -1)

(***************************************************************************)
(* Every sequence of n instructions of an alphabet, and the same ended by  *)
(* HLT and well formed.                                                    *)
(***************************************************************************)
Sequences(n, alphabet) == [1 .. n -> alphabet]

Halting(n, alphabet) ==
    {p \in {Append(body, InstructionHalt) : body \in Sequences(n, alphabet)} : WellFormed(p)}
==============================================================================
