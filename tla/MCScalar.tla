------------------------------- MODULE MCScalar -------------------------------
(***************************************************************************)
(* Instances of the in-order CPU for TLC.                                  *)
(***************************************************************************)
EXTENDS ScalarProperties, MCPrograms

\* Anything the constructors build: also programs with no HLT, with a branch
\* that leaves the program or loops for ever, with x0 or PC as a destination
\* or PC as a source, and with stores behind branches.
AnyProgram ==
    Sequences(3, {inc, set, double, load, loadFar, storeAt, skipIf, repeatIf, toZero, readPC,
                  jump, loadAt, InstructionNop, InstructionHalt})

\* Longer ones: dependencies and overlaps at every distance in the pipeline,
\* around forward branches, taken or not.
Straight == Halting(4, {inc, sub, double, loadT1, store, skipIf, InstructionNop})

\* A counted loop around a load, a store or an early exit.
Loop ==
    {<<InstructionI("ADDI", "T1", "ZERO", limit), first, inc, last,
       InstructionB("BLT", "T0", "T1", -3), behind, InstructionHalt>> :
        limit \in 1 .. 3, first \in {load, store, InstructionNop},
        last \in {store, skipIf, InstructionNop}, behind \in {set, store}}

PipelinePrograms == AnyProgram \cup Straight \cup Loop

\* A store behind a branch.
Shadowed == Halting(3, {inc, skipIf, store})

\* A load whose base is not x0.
Based == Halting(2, {set, loadAt})

OneMemory == {[a \in Address |-> a + 2]}
==============================================================================
