---------------------------- MODULE SequentialISA ----------------------------
(***************************************************************************)
(* What a CPU of this repository promises: the program's effect is that of *)
(* executing one whole instruction at a time.  The out-of-order CPU and    *)
(* the pipeline are compared with it (Sequential in TomasuloProperties and *)
(* in ScalarProperties).                                                   *)
(***************************************************************************)
EXTENDS ISA, Sequences

CONSTANTS
    MemSize,     \* words of memory
    Programs,    \* the programs a behaviour may start with
    Memories     \* the initial contents of memory

VARIABLES
    program,     \* a sequence of instructions; program[pc + 1] is the next
    regs,        \* the architectural registers
    mem,         \* memory, indexed from 0
    pc,          \* index of the next instruction, from 0
    halted       \* HLT has been reached

vars == <<program, regs, mem, pc, halted>>

ArchReg == GPR \cup {"ZERO"}
Address == 0 .. (MemSize - 1)

Init ==
    /\ program \in Programs
    /\ mem \in Memories
    /\ regs = [r \in ArchReg |-> 0]
    /\ pc = 0
    /\ halted = FALSE

Current == program[pc + 1]
Running == ~halted /\ pc + 1 \in DOMAIN program

\* x0 is hardwired: a result directed at it is discarded.
Write(rd, v) == IF rd = "ZERO" THEN regs ELSE [regs EXCEPT ![rd] = v]

Compute ==
    /\ Running
    /\ Current.op \in RegOps \cup ImmOps
    /\ regs' = Write(Current.rd, ALU(Current.op, pc, regs[Current.rs1],
                                     regs[Current.rs2], Current.imm))
    /\ pc' = pc + 1
    /\ UNCHANGED <<program, mem, halted>>

CurrentAddress ==
    EffectiveAddress(Current.op, regs[Current.rs1], regs[Current.rs2], Current.imm)

\* What a load outside memory returns is not promised.
Loaded(a) == IF a \in Address THEN {mem[a]} ELSE Word

Load ==
    /\ Running
    /\ Current.op = "LW"
    /\ \E v \in Loaded(CurrentAddress) : regs' = Write(Current.rd, v)
    /\ pc' = pc + 1
    /\ UNCHANGED <<program, mem, halted>>

Store ==
    /\ Running
    /\ Current.op = "SW"
    /\ CurrentAddress \in Address
    /\ mem' = [mem EXCEPT ![CurrentAddress] = regs[Current.rs1]]
    /\ pc' = pc + 1
    /\ UNCHANGED <<program, regs, halted>>

Branch ==
    /\ Running
    /\ Current.op \in BranchOps
    /\ pc' = ALU(Current.op, pc, regs[Current.rs1], regs[Current.rs2], Current.imm)
    /\ UNCHANGED <<program, regs, mem, halted>>

Skip ==
    /\ Running
    /\ Current.op = "NOP"
    /\ pc' = pc + 1
    /\ UNCHANGED <<program, regs, mem, halted>>

\* Where pc is left means nothing any more.
Halt ==
    /\ Running
    /\ Current.op = "HLT"
    /\ halted' = TRUE
    /\ pc' \in Int
    /\ UNCHANGED <<program, regs, mem>>

Next == Compute \/ Load \/ Store \/ Branch \/ Skip \/ Halt

Spec == Init /\ [][Next]_vars
==============================================================================
