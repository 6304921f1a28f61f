-------------------------- MODULE TomasuloProperties --------------------------
(***************************************************************************)
(* What the out-of-order CPU must keep true.                               *)
(***************************************************************************)
EXTENDS Tomasulo

(***************************************************************************)
(* The type invariant.                                                     *)
(***************************************************************************)
TagOrNone == Tag \cup {NoTag}

RegisterStatusEntry == [tag : TagOrNone, valid : BOOLEAN, value : Word]

ReservationStation ==
    [empty : BOOLEAN, valid : BOOLEAN, busy : BOOLEAN, op : Opcode,
     source1 : TagOrNone, source2 : TagOrNone, val1 : Word, val2 : Word,
     imm : Word, pcValue : Word, insertionCycle : Int]

ReorderBufferEntry ==
    [op : Opcode, tag : Tag, rd : Reg, val : Word, addr : Word, data : Word,
     pc : Word, valid : BOOLEAN]

LoadStoreUnit ==
    [phase : {"ADDR_CALC", "MEMORY_OPERATION"}, tag : TagOrNone, op : Opcode,
     addr : Word, data : Word]

\* How many turns a stage has in a cycle.
Turns(s) ==
    CASE s = "adder" -> NumAdders
      [] s = "loadstore" -> NumLoadStores
      [] s = "decode" -> NumDecoders
      [] OTHER -> 1

\* Every variable stays in its type, the turn of each stage within its units,
\* and the reorder buffer within the capacity the constructor gives it.
TypeOK ==
    /\ program \in Programs
    /\ memory \in [Address -> Word]
    /\ physicalRegisters \in [Reg -> Word]
    /\ rst \in [Reg -> RegisterStatusEntry]
    /\ rs \in [Tag -> ReservationStation]
    /\ rob \in Seq(ReorderBufferEntry)
    /\ Len(rob) <= MaxEntries
    /\ lsu \in [Index(NumLoadStores) -> LoadStoreUnit]
    /\ btb \in [mode : BpModes, targets : [Slots -> Word], bits : [Slots -> Int]]
    /\ stage \in {"rob", "adder", "loadstore", "decode", "end", "halted", "fault"}
    /\ unit \in Index(Turns(stage))
    /\ decodeStalled \in BOOLEAN
    /\ decodes \in Nat

(***************************************************************************)
(* Tags.                                                                   *)
(***************************************************************************)
\* "Dont have copies of tags in the system" (tomasulo.hpp:36): the filled
\* stations are exactly the tags of the reorder buffer, each of them once.
\* Tags are reclaimed by the broadcast of a commit and by a flush.
TagDiscipline ==
    /\ \A i, j \in DOMAIN rob : rob[i].tag = rob[j].tag => i = j
    /\ {t \in Tag : ~rs[t].empty} = {rob[i].tag : i \in DOMAIN rob}

(***************************************************************************)
(* Data flow.  Register r, read at position i of the reorder buffer, is    *)
(* either committed, when no older entry writes it, or awaited from the    *)
(* youngest older entry that does.                                         *)
(***************************************************************************)
Committed(entries, i, r) == \A j \in 1 .. (i - 1) : entries[j].rd # r

AwaitedFrom(entries, i, r, t) ==
    \E j \in 1 .. (i - 1) :
        /\ entries[j].tag = t
        /\ entries[j].rd = r
        /\ \A k \in (j + 1) .. (i - 1) : entries[k].rd # r

Bound(entries, registers, i, r, tag, value) ==
    \/ tag = NoTag /\ Committed(entries, i, r) /\ value = registers[r]
    \/ tag # NoTag /\ AwaitedFrom(entries, i, r, tag)

\* The decoder's view: the status table renames each register to its
\* youngest writer in flight, and holds the committed value when there is
\* none, through every commit, rename and flush.
RenameTable ==
    \A r \in GPR :
        /\ rst[r].valid <=> rst[r].tag = NoTag
        /\ Bound(rob, physicalRegisters, Len(rob) + 1, r, rst[r].tag, rst[r].value)

InstructionAt(pc) == program[pc + 1]

\* x0 and PC are never renamed, so nothing waits for them.
OperandBound(entries, registers, i, r, tag, value) ==
    IF r \in GPR THEN Bound(entries, registers, i, r, tag, value) ELSE tag = NoTag

\* The stations' view: an operand that is still awaited comes from the
\* youngest older writer of its register; one that has arrived is the value
\* the register has when the instruction commits.
OperandFlow ==
    \A i \in DOMAIN rob :
        LET s == rs[rob[i].tag]
            ins == InstructionAt(rob[i].pc)
        IN  /\ OperandBound(rob, physicalRegisters, i, ins.rs1, s.source1, s.val1)
            /\ OperandBound(rob, physicalRegisters, i, ins.rs2, s.source2, s.val2)

\* The selection assertions of reservationStation.cpp:167,187, and what
\* they are for: an instruction never executes with an operand missing.
ReadyHasOperands ==
    \A t \in Tag : Ready(t) => rs[t].source1 = NoTag /\ rs[t].source2 = NoTag

(***************************************************************************)
(* Execution.                                                              *)
(***************************************************************************)
\* updateField's assertion (reorderBuffer.cpp:312) and its converse.  A unit
\* in its memory phase works for an unfinished entry in flight; an
\* instruction taken from its station is finished or still held by its unit,
\* so none is executed twice and none is lost.
ExecutionOwnership ==
    /\ \A u \in Index(NumLoadStores) :
         lsu[u].phase = "MEMORY_OPERATION" =>
            \E i \in DOMAIN rob :
                /\ rob[i].tag = lsu[u].tag
                /\ rob[i].op = lsu[u].op
                /\ ~rob[i].valid
                /\ rs[rob[i].tag].busy
                /\ rob[i].tag.kind = "LOAD_STORE" /\ rob[i].tag.unit = u
    /\ \A i \in DOMAIN rob :
         rs[rob[i].tag].busy =>
            \/ rob[i].valid
            \/ /\ rob[i].tag.kind = "LOAD_STORE"
               /\ lsu[rob[i].tag.unit].phase = "MEMORY_OPERATION"
               /\ lsu[rob[i].tag.unit].tag = rob[i].tag
    /\ \A i \in DOMAIN rob : rob[i].valid => rs[rob[i].tag].busy

\* The decode counter orders stations as the program does, also across
\* flushes: getOldestReady returns the oldest of its unit.
AgeOrder ==
    \A i, j \in DOMAIN rob :
        i < j => rs[rob[i].tag].insertionCycle < rs[rob[j].tag].insertionCycle

\* The oldest entry is never stuck: it is finished, a unit has it between its
\* two cycles, or its station is ready to be taken.  Commit, and with it the
\* whole machine, waits for nothing else.
OldestProceeds ==
    rob # << >> =>
        \/ Head(rob).valid
        \/ Ready(Head(rob).tag)
        \/ \E u \in Index(NumLoadStores) :
             lsu[u].phase = "MEMORY_OPERATION" /\ lsu[u].tag = Head(rob).tag

SameEntry(e, f) == e.tag = f.tag /\ e.pc = f.pc

\* Once an entry is valid nothing changes it until it leaves the buffer: a
\* unit's late answer never lands on a finished entry, nor on a new one that
\* has taken over its tag.
ResultsAreFinal ==
    [][ \A i \in DOMAIN rob, j \in DOMAIN rob' :
            rob[i].valid /\ SameEntry(rob[i], rob'[j]) => rob'[j] = rob[i] ]_vars

RobQueue == INSTANCE EntryQueue WITH Capacity <- MaxEntries, queue <- rob

\* The CPU uses its reorder buffer as the queue that the circular array
\* implements (ReorderBuffer): entries join unfinished and only while there
\* is room, each answer of a unit finishes the entries of one tag in flight,
\* and entries leave in order, finished.
RobIsQueue == RobQueue!Spec

(***************************************************************************)
(* What the properties above rest on, and with them an inductive           *)
(* invariant: entries and stations carry the instruction they were made    *)
(* from, and x0 and PC are never renamed.                                  *)
(***************************************************************************)
CarriesInstruction ==
    \A i \in DOMAIN rob :
        LET s == rs[rob[i].tag]
            ins == InstructionAt(rob[i].pc)
        IN  /\ InProgram(rob[i].pc)
            /\ rob[i].op = ins.op /\ rob[i].rd = ins.rd
            /\ s.op = ins.op /\ s.imm = ins.imm /\ s.pcValue = rob[i].pc

NeverRenamed ==
    \A r \in {"ZERO", "PC"} : rst[r].valid /\ rst[r].tag = NoTag

ValidHasOperands ==
    \A t \in Tag : rs[t].valid /\ ~rs[t].empty
                      => rs[t].source1 = NoTag /\ rs[t].source2 = NoTag

DataflowInvariant ==
    /\ TypeOK
    /\ CarriesInstruction
    /\ NeverRenamed
    /\ TagDiscipline
    /\ RenameTable
    /\ OperandFlow
    /\ ValidHasOperands
    /\ ExecutionOwnership

(***************************************************************************)
(* Speculation.                                                            *)
(***************************************************************************)
\* The successor the reorder buffer will accept for an entry.
AcceptedPC(e) ==
    CASE e.rd # "PC" -> e.pc + 1
      [] e.rd = "PC" /\ btb.mode = 0 -> btb.targets[Slot(e.pc)]
      [] e.rd = "PC" /\ btb.mode = 1 -> Wrap(e.pc + InstructionAt(e.pc).imm)
      [] e.rd = "PC" /\ btb.mode = 2 -> e.pc + 1

PathAfter(i) == IF i < Len(rob) THEN rob[i + 1].pc ELSE FetchPC

\* What follows an entry, in the buffer or at the decoder, is what commit
\* will compare the branch against.  The comparison is made long after the
\* prediction, with whatever the shared target entry then holds.
SpeculationPath ==
    WellFormed(program) => \A i \in DOMAIN rob : PathAfter(i) = AcceptedPC(rob[i])

\* Speculation never fetches outside a well-formed program: not through a
\* stale or aliased target, and not after a flush.
FetchInBounds == WellFormed(program) => InProgram(FetchPC)

(***************************************************************************)
(* The promise to the program.                                             *)
(***************************************************************************)
ArchitecturalPC == IF rob = << >> THEN FetchPC ELSE Head(rob).pc

Sequential ==
    INSTANCE SequentialISA WITH
        regs   <- [r \in GPR \cup {"ZERO"} |-> physicalRegisters[r]],
        mem    <- memory,
        pc     <- ArchitecturalPC,
        halted <- stage = "halted"

\* Commits have the effect of the program's instructions one at a time:
\* renaming, out-of-order execution, speculation and flushes are invisible.
SequentialSpec == Sequential!Spec

\* The programs that this holds for with a reorder buffer of at most two
\* entries: NOP ends a run, commit writes x0, and PC is not renamed.
Regular(p) ==
    /\ WellFormed(p)
    /\ \A i \in DOMAIN p :
        /\ p[i].op # "NOP"
        /\ p[i].rd = "ZERO" => p[i].op \in {"SW", "HLT"}
        /\ p[i].rs1 # "PC" /\ p[i].rs2 # "PC"

\* A longer buffer needs more.  Loads do not wait for older stores, so their
\* addresses must be known to differ.
Separate(p) ==
    \A i, j \in DOMAIN p :
        p[i].op = "LW" /\ p[j].op = "SW" =>
            p[i].rs1 = "ZERO" /\ p[j].rs2 = "ZERO" /\ p[i].imm # p[j].imm

Orderly(p) == Regular(p) /\ Separate(p)

\* Why two entries suffice: a load behind a store in the buffer is not
\* finished, and its unit takes it only when the store is.  Nothing compares
\* addresses or makes a load wait; it is the choice of a station and the order
\* in which one unit takes its stations that keep the two apart.
LoadsFollowStores ==
    \A i, j \in DOMAIN rob :
        i < j /\ rob[i].op = "SW" /\ rob[j].op = "LW" =>
            /\ ~rob[j].valid
            /\ rs[rob[j].tag].busy => rob[i].valid

\* The simulation of a program that terminates ends, at its HLT.
EventuallyHalts == <>(stage = "halted" /\ Fetched.op = "HLT")

(***************************************************************************)
(* Promises of comments and documents.                                     *)
(***************************************************************************)
\* "Just stall a load until all previous stores have committed"
\* (functionalUnit.hpp:47-50), "so these dependencies cant cause problems"
\* (reorderBuffer.cpp:258-262): a load that commits has read what memory holds
\* after all the older stores.
LoadsReadCommittedStores ==
    OldestIsDone /\ Head(rob).op = "LW" =>
        LET s == rs[Head(rob).tag]
            a == EffectiveAddress("LW", s.val1, s.val2, s.imm)
        IN  a \in Address => Head(rob).val = memory[a]

\* "x0 should never change" (decoder.cpp:175): what the decoder reads for x0
\* stays zero, whatever instructions name it as their destination.
ZeroNeverChanges == rst["ZERO"].value = 0

\* "dont try and put a NOP instruction in a reservation station, just do
\* nothing" (decoder.cpp:49): a NOP does not end the program, only HLT does.
HaltsOnlyAtHalt == stage = "halted" => Fetched.op = "HLT"
==============================================================================
