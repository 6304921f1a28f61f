------------------------------ MODULE MCTomasulo ------------------------------
(***************************************************************************)
(* Instances of the out-of-order CPU for TLC: families of short programs.  *)
(***************************************************************************)
EXTENDS TomasuloProperties, MCPrograms

\* Anything the constructors build: also programs with no HLT, with a NOP,
\* with a branch that leaves the program or loops for ever, with x0 as a
\* destination, PC as a source, and stores and loads of one address.
AnyProgram ==
    Sequences(3, {inc, double, load, loadAt, storeAt, skipIf, repeatIf, toZero, readPC,
                  InstructionNop, InstructionHalt})

\* Loads and stores of different addresses, and forward branches.
AliasFree == Halting(4, {inc, double, loadT1, store, skipIf, skipLess})

\* Stores and loads of the same address.
Aliasing == Halting(4, {inc, double, load, loadBack, store, storeT1, skipIf})

\* An instruction whose destination is x0, and a branch that is mispredicted.
WritingZero == Halting(3, {inc, toZero, skipIf})

\* A NOP in the way to HLT.
WithNop == Halting(2, {inc, InstructionNop})

\* Counted loops, with another instruction, or another branch, before and
\* after the increment and a jump back over one or both of them.
Looping ==
    {<<InstructionI("ADDI", "T1", "ZERO", limit), before, inc, after,
       InstructionB("BLT", "T0", "T1", back), InstructionHalt>> :
        limit \in 1 .. 3,
        before \in {store, InstructionB("BEQ", "T0", "T1", 3), InstructionB("BNE", "T0", "T1", 1)},
        after \in {store, InstructionB("BLT", "T0", "T1", -1), InstructionB("BEQ", "T0", "T1", 1)},
        back \in {-3, -2}}

\* Forward branches of several kinds that share a slot.
Skipping == Halting(3, {inc, double, loadT1, skipIf, skipLess})

Speculating == Looping \cup Skipping \cup AliasFree

ASSUME SpeculatingIsOrderly == \A p \in Speculating : Orderly(p)

ASSUME AliasingIsRegular == \A p \in Aliasing : Regular(p)

OneMemory == {[a \in Address |-> a + 2]}
==============================================================================
