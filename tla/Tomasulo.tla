------------------------------ MODULE Tomasulo ------------------------------
(***************************************************************************)
(* The out-of-order CPU of tomasulos/: Tomasulo's algorithm with           *)
(* distributed reservation stations, a register status (rename) table, a   *)
(* reorder buffer that commits in order, and a branch target buffer.       *)
(*                                                                         *)
(* TomasulosCPU::Cycle calls its parts in a fixed order.  "stage" is the   *)
(* part whose turn it is and "unit" the index of its loop; each action is  *)
(* one call, or one iteration of the reorder buffer's commit loop.         *)
(***************************************************************************)
EXTENDS ISA, Sequences, FiniteSets

CONSTANTS
    NumDecoders, NumAdders, NumLoadStores,   \* -d, -a, -l
    StationsPerUnit,    \* RESERVATION_STATION_BUFFER_SIZE
    RobSize,            \* -r
    BpModes,            \* --bp: 0 is 2BIT, 1 is AT, 2 is NT
    BtbSize,            \* 0xFF: the mask, and one less than the slots it selects
    MemSize,            \* -m
    Programs, Memories, \* what a run may start with
    BtbOverrun,         \* what the word past the end of the BTB arrays may hold
    Garbage,            \* what a load outside memory may return
    MaxDecodes          \* bound on the decode counter (not in the code)

VARIABLES
    program,            \* the program, fixed
    memory,             \* data memory, indexed from 0
    physicalRegisters,  \* committed values; PC is the fetch address
    rst,                \* register status table: tag, valid bit and value
    rs,                 \* every reservation station, by tag
    rob,                \* reorder buffer, oldest entry first
    lsu,                \* the latches of each load/store unit
    btb,                \* branch target buffer: targets and prediction bits
    stage, unit,        \* position in the cycle
    decodeStalled,      \* a decoder stalled in this cycle
    decodes             \* number of decodes, the age of a station

vars == <<program, memory, physicalRegisters, rst, rs, rob, lsu, btb,
          stage, unit, decodeStalled, decodes>>

ASSUME ConfigAssumption ==
    /\ NumDecoders \in Nat \ {0}
    /\ NumAdders \in Nat \ {0}
    /\ NumLoadStores \in Nat \ {0}
    /\ StationsPerUnit \in 1 .. 10
    /\ RobSize \in Nat \ {0}
    /\ BpModes \subseteq 0 .. 2
    /\ BtbSize \in Nat
    /\ MemSize \in Nat
    /\ MaxDecodes \in Nat
    /\ BtbOverrun \subseteq Word
    /\ Garbage \subseteq Word

Address == 0 .. (MemSize - 1)

ASSUME InputAssumption ==
    /\ \A p \in Programs : p \in Seq(Instruction) /\ Len(p) \in 1 .. (HalfRange - 1)
    /\ Memories \subseteq [Address -> Word]

(***************************************************************************)
(* A station's tag names its unit and its slot ("ADDER0" ++ "2").  A slot  *)
(* is one digit, so that different stations have different strings.        *)
(***************************************************************************)
Tag ==
    [kind : {"ADDER"}, unit : 0 .. (NumAdders - 1), slot : 0 .. (StationsPerUnit - 1)]
    \cup
    [kind : {"LOAD_STORE"}, unit : 0 .. (NumLoadStores - 1), slot : 0 .. (StationsPerUnit - 1)]

NoTag == [kind |-> "NONE", unit |-> 0, slot |-> 0]

MaxEntries == RobSize - 1     \* ReorderBuffer::max

Index(n) == 0 .. (n - 1)      \* of a C++ array or vector of n elements
Slot(pc) == pc % (BtbSize + 1)   \* pc & btb->size, for a size of 2^k - 1
Slots == 0 .. BtbSize

(***************************************************************************)
(* Initial state.                                                          *)
(***************************************************************************)
FreshStation ==
    [empty |-> TRUE, valid |-> FALSE, busy |-> FALSE, op |-> "NOP",
     source1 |-> NoTag, source2 |-> NoTag, val1 |-> 0, val2 |-> 0, imm |-> 0,
     pcValue |-> -1, insertionCycle |-> -1]

IdleUnit == [phase |-> "ADDR_CALC", tag |-> NoTag, op |-> "NOP", addr |-> 0, data |-> 0]

DefaultBits(mode) == CASE mode = 0 -> 2 [] mode = 1 -> 3 [] mode = 2 -> 0

Init ==
    /\ program \in Programs
    /\ memory \in Memories
    /\ physicalRegisters = [r \in Reg |-> 0]
    /\ rst = [r \in Reg |-> [tag |-> NoTag, valid |-> TRUE, value |-> 0]]
    /\ rs = [t \in Tag |-> FreshStation]
    /\ rob = << >>
    /\ lsu = [u \in Index(NumLoadStores) |-> IdleUnit]
    /\ \E mode \in BpModes, target, bits \in BtbOverrun :
         btb = [mode    |-> mode,
                targets |-> [k \in Slots |-> IF k < BtbSize THEN -1 ELSE target],
                bits    |-> [k \in Slots |-> IF k < BtbSize THEN DefaultBits(mode) ELSE bits]]
    /\ stage = "rob" /\ unit = 0
    /\ decodeStalled = FALSE
    /\ decodes = 0

(***************************************************************************)
(* Units of one kind take their turns in index order.                      *)
(***************************************************************************)
NextUnit(n, following) ==
    IF unit + 1 < n THEN unit' = unit + 1 /\ stage' = stage
                    ELSE unit' = 0 /\ stage' = following

(***************************************************************************)
(* The common data bus.  A broadcast reaches every station, empty ones     *)
(* included, and the station that owns the tag is cleared by it.           *)
(***************************************************************************)
Cleared(s) ==
    [s EXCEPT !.empty = TRUE, !.valid = FALSE, !.busy = FALSE, !.op = "NOP",
              !.source1 = NoTag, !.source2 = NoTag,
              !.val1 = 0, !.val2 = 0, !.imm = 0]

\* A slip: the second operand is looked at only if the first did not match.
SnoopedOnce(s, t, v) ==
    LET first == s.source1 = t
        second == ~first /\ s.source2 = t
        s1 == IF first THEN NoTag ELSE s.source1
        s2 == IF second THEN NoTag ELSE s.source2
    IN  [s EXCEPT !.source1 = s1, !.val1 = IF first THEN v ELSE @,
                  !.source2 = s2, !.val2 = IF second THEN v ELSE @,
                  !.valid = @ \/ (s1 = NoTag /\ s2 = NoTag)]

\* A slip: readiness is tested before the operands are taken.
SnoopedLate(s, t, v) ==
    LET s1 == IF s.source1 = t THEN NoTag ELSE s.source1
        s2 == IF s.source2 = t THEN NoTag ELSE s.source2
    IN  [s EXCEPT !.source1 = s1, !.val1 = IF s.source1 = t THEN v ELSE @,
                  !.source2 = s2, !.val2 = IF s.source2 = t THEN v ELSE @,
                  !.valid = @ \/ (s.source1 = NoTag /\ s.source2 = NoTag)]

Snooped(s, t, v) ==
    LET s1 == IF s.source1 = t THEN NoTag ELSE s.source1
        s2 == IF s.source2 = t THEN NoTag ELSE s.source2
    IN  [s EXCEPT !.source1 = s1, !.val1 = IF s.source1 = t THEN v ELSE @,
                  !.source2 = s2, !.val2 = IF s.source2 = t THEN v ELSE @,
                  !.valid = @ \/ (s1 = NoTag /\ s2 = NoTag)]

BroadcastToStations(table, t, v) ==
    [u \in Tag |-> IF u = t THEN Cleared(Snooped(table[u], t, v))
                            ELSE Snooped(table[u], t, v)]

BroadcastToRegisters(table, t, v) ==
    [r \in Reg |-> IF table[r].tag = t
                     THEN [tag |-> NoTag, valid |-> TRUE, value |-> v]
                     ELSE table[r]]

(***************************************************************************)
(* TomasulosCPU::flush, called by the reorder buffer.                      *)
(***************************************************************************)
\* Three slips: a flush forgets the stations, the tags of the status table,
\* or the units' phases.
StationsKept == rs
TagsKept == [r \in Reg |-> [rst[r] EXCEPT !.value = physicalRegisters[r]]]
UnitsKept == lsu

FlushedStations == [t \in Tag |-> Cleared(rs[t])]

FlushedRegisters ==
    [r \in Reg |-> [tag |-> NoTag, valid |-> TRUE, value |-> physicalRegisters[r]]]

FlushedUnits ==
    [u \in Index(NumLoadStores) |->
        [lsu[u] EXCEPT !.phase = "ADDR_CALC", !.op = "NOP", !.addr = 0, !.data = 0]]

(***************************************************************************)
(* ReorderBuffer::Cycle: commit the oldest entry while it is valid.        *)
(***************************************************************************)
\* A slip: the test looks at whether the branch was taken, the wrong way round.
MispredictedSwapped(e) ==
    /\ e.rd = "PC"
    /\ \/ btb.mode = 0 /\ e.val # btb.targets[Slot(e.pc)] /\ e.val # e.pc + 1
       \/ btb.mode = 1 /\ e.val # e.pc + 1
       \/ btb.mode = 2 /\ e.val = e.pc + 1

Mispredicted(e) ==
    /\ e.rd = "PC"
    /\ \/ btb.mode = 0 /\ e.val # btb.targets[Slot(e.pc)]
       \/ btb.mode = 1 /\ e.val = e.pc + 1
       \/ btb.mode = 2 /\ e.val # e.pc + 1

Trained(bits, e) ==
    IF e.val # e.pc + 1 THEN (IF bits < 3 THEN bits + 1 ELSE bits)
                        ELSE (IF bits > 0 THEN bits - 1 ELSE bits)

TrainedBtb(e) ==
    IF btb.mode = 0
      THEN [btb EXCEPT !.targets[Slot(e.pc)] = e.val,
                       !.bits[Slot(e.pc)] = Trained(@, e)]
      ELSE btb

OldestIsDone == stage = "rob" /\ rob # << >> /\ Head(rob).valid

\* Every commit ends with the broadcast of the result and the pop.
BroadcastAndPop(e) ==
    /\ rs' = BroadcastToStations(rs, e.tag, e.val)
    /\ rst' = BroadcastToRegisters(rst, e.tag, e.val)
    /\ rob' = Tail(rob)
    /\ UNCHANGED <<program, lsu, btb, stage, unit, decodeStalled, decodes>>

CommitResult ==
    /\ OldestIsDone
    /\ Head(rob).op # "SW"
    /\ Head(rob).rd # "PC"
    /\ physicalRegisters' = [physicalRegisters EXCEPT ![Head(rob).rd] = Head(rob).val]
    /\ BroadcastAndPop(Head(rob))
    /\ UNCHANGED memory

CommitBranch ==
    /\ OldestIsDone
    /\ Head(rob).op # "SW"
    /\ Head(rob).rd = "PC"
    /\ ~Mispredicted(Head(rob))
    /\ BroadcastAndPop(Head(rob))
    /\ UNCHANGED <<memory, physicalRegisters>>

CommitStore ==
    /\ OldestIsDone
    /\ Head(rob).op = "SW"
    /\ Head(rob).addr \in Address
    /\ memory' = [memory EXCEPT ![Head(rob).addr] = Head(rob).data]
    /\ BroadcastAndPop(Head(rob))
    /\ UNCHANGED physicalRegisters

\* A store outside the array is undefined behaviour: the model stops here.
CommitStoreOutside ==
    /\ OldestIsDone
    /\ Head(rob).op = "SW"
    /\ Head(rob).addr \notin Address
    /\ stage' = "fault" /\ unit' = 0
    /\ UNCHANGED <<program, memory, physicalRegisters, rst, rs, rob, lsu, btb,
                   decodeStalled, decodes>>

\* The status table copies the physical registers before PC is corrected,
\* and the broadcast comes after everything has been flushed.
CommitMispredicted ==
    /\ OldestIsDone
    /\ Head(rob).op # "SW"
    /\ Mispredicted(Head(rob))
    /\ physicalRegisters' = [physicalRegisters EXCEPT !["PC"] = Head(rob).val]
    /\ rs' = BroadcastToStations(FlushedStations, Head(rob).tag, Head(rob).val)
    /\ rst' = BroadcastToRegisters(FlushedRegisters, Head(rob).tag, Head(rob).val)
    /\ lsu' = FlushedUnits
    /\ rob' = << >>
    /\ btb' = TrainedBtb(Head(rob))
    /\ UNCHANGED <<program, memory, stage, unit, decodeStalled, decodes>>

CommitDone ==
    /\ stage = "rob"
    /\ rob # << >> => ~Head(rob).valid
    /\ stage' = "adder" /\ unit' = 0
    /\ UNCHANGED <<program, memory, physicalRegisters, rst, rs, rob, lsu, btb,
                   decodeStalled, decodes>>

(***************************************************************************)
(* ReorderBuffer::updateField: the entries of a tag are completed.         *)
(***************************************************************************)
\* A slip: tags are compared by their last digit.
WithResultBySlot(t, v) ==
    [i \in DOMAIN rob |->
        IF rob[i].tag.slot = t.slot
          THEN [rob[i] EXCEPT !.val = v, !.valid = TRUE] ELSE rob[i]]

WithResult(t, v) ==
    [i \in DOMAIN rob |->
        IF rob[i].tag = t THEN [rob[i] EXCEPT !.val = v, !.valid = TRUE] ELSE rob[i]]

WithStore(t, a, d) ==
    [i \in DOMAIN rob |->
        IF rob[i].tag = t THEN [rob[i] EXCEPT !.addr = a, !.data = d, !.valid = TRUE]
                          ELSE rob[i]]

(***************************************************************************)
(* Selection of a station by a functional unit.                            *)
(***************************************************************************)
Stations(kind, u) == {t \in Tag : t.kind = kind /\ t.unit = u}

Ready(t) == rs[t].valid /\ ~rs[t].empty /\ ~rs[t].busy

ReadyStations(kind, u) == {t \in Stations(kind, u) : Ready(t)}

\* getNextReady: the lowest ready slot.
NextReady(u) ==
    {t \in ReadyStations("ADDER", u) :
        \A s \in ReadyStations("ADDER", u) : t.slot <= s.slot}

\* getOldestReady: the ready slot that was filled first.
OldestReady(u) ==
    {t \in ReadyStations("LOAD_STORE", u) :
        \A s \in ReadyStations("LOAD_STORE", u) :
            \/ rs[t].insertionCycle < rs[s].insertionCycle
            \/ rs[t].insertionCycle = rs[s].insertionCycle /\ t.slot <= s.slot}

(***************************************************************************)
(* AdderUnit::Cycle.                                                       *)
(***************************************************************************)
AdderIdle ==
    /\ stage = "adder"
    /\ ReadyStations("ADDER", unit) = {}
    /\ NextUnit(NumAdders, "loadstore")
    /\ UNCHANGED <<program, memory, physicalRegisters, rst, rs, rob, lsu, btb,
                   decodeStalled, decodes>>

AdderExecute ==
    /\ stage = "adder"
    /\ \E t \in NextReady(unit) :
         /\ rs' = [rs EXCEPT ![t].busy = TRUE]
         /\ rob' = WithResult(t, ALU(rs[t].op, rs[t].pcValue, rs[t].val1,
                                     rs[t].val2, rs[t].imm))
    /\ NextUnit(NumAdders, "loadstore")
    /\ UNCHANGED <<program, memory, physicalRegisters, rst, lsu, btb,
                   decodeStalled, decodes>>

(***************************************************************************)
(* LoadStoreUnit::Cycle: one cycle computes the address, the next one      *)
(* accesses memory.                                                        *)
(***************************************************************************)
LoadStoreIdle ==
    /\ stage = "loadstore"
    /\ lsu[unit].phase = "ADDR_CALC"
    /\ ReadyStations("LOAD_STORE", unit) = {}
    /\ NextUnit(NumLoadStores, "decode")
    /\ UNCHANGED <<program, memory, physicalRegisters, rst, rs, rob, lsu, btb,
                   decodeStalled, decodes>>

AddressCalculation ==
    /\ stage = "loadstore"
    /\ lsu[unit].phase = "ADDR_CALC"
    /\ \E t \in OldestReady(unit) :
         /\ rs' = [rs EXCEPT ![t].busy = TRUE]
         /\ lsu' = [lsu EXCEPT ![unit] =
                [phase |-> "MEMORY_OPERATION", tag |-> t, op |-> rs[t].op,
                 addr |-> EffectiveAddress(rs[t].op, rs[t].val1, rs[t].val2, rs[t].imm),
                 data |-> rs[t].val1]]
    /\ NextUnit(NumLoadStores, "decode")
    /\ UNCHANGED <<program, memory, physicalRegisters, rst, rob, btb,
                   decodeStalled, decodes>>

MemoryStore ==
    /\ stage = "loadstore"
    /\ lsu[unit].phase = "MEMORY_OPERATION"
    /\ lsu[unit].op = "SW"
    /\ rob' = WithStore(lsu[unit].tag, lsu[unit].addr, lsu[unit].data)
    /\ lsu' = [lsu EXCEPT ![unit].phase = "ADDR_CALC"]
    /\ NextUnit(NumLoadStores, "decode")
    /\ UNCHANGED <<program, memory, physicalRegisters, rst, rs, btb,
                   decodeStalled, decodes>>

\* Memory is read as it is now; earlier stores write it when they commit.
Loaded(a) == IF a \in Address THEN {memory[a]} ELSE Garbage

MemoryLoad ==
    /\ stage = "loadstore"
    /\ lsu[unit].phase = "MEMORY_OPERATION"
    /\ lsu[unit].op = "LW"
    /\ \E v \in Loaded(lsu[unit].addr) : rob' = WithResult(lsu[unit].tag, v)
    /\ lsu' = [lsu EXCEPT ![unit].phase = "ADDR_CALC"]
    /\ NextUnit(NumLoadStores, "decode")
    /\ UNCHANGED <<program, memory, physicalRegisters, rst, rs, btb,
                   decodeStalled, decodes>>

\* A load far enough outside the array ends the simulator instead.
MemoryLoadFault ==
    /\ stage = "loadstore"
    /\ lsu[unit].phase = "MEMORY_OPERATION"
    /\ lsu[unit].op = "LW"
    /\ lsu[unit].addr \notin Address
    /\ stage' = "fault" /\ unit' = 0
    /\ UNCHANGED <<program, memory, physicalRegisters, rst, rs, rob, lsu, btb,
                   decodeStalled, decodes>>

(***************************************************************************)
(* TomasulosDecoder::Cycle and the part of TomasulosCPU::Cycle around it.  *)
(***************************************************************************)
FetchPC == physicalRegisters["PC"]
InProgram(pc) == pc + 1 \in DOMAIN program
Fetched == program[FetchPC + 1]

RequiredType(op) == IF op \in MemOps THEN "LOAD_STORE" ELSE "ADDER"

FreeStations(kind) == {t \in Tag : t.kind = kind /\ rs[t].empty}

\* A slip: the maximum is kept over the groups, which balances the units.
StationInEmptiest(kind) ==
    LET free == FreeStations(kind)
        spaces(t) == Cardinality({s \in free : s.unit = t.unit})
    IN  {t \in free : \A s \in free :
            \/ spaces(s) < spaces(t)
            \/ /\ spaces(s) = spaces(t)
               /\ t.unit < s.unit \/ (t.unit = s.unit /\ t.slot <= s.slot)}

\* maxFreeSpaces starts at 0 for every group, so that the last group with a
\* free station is chosen; in it, the lowest empty slot.
StationToUse(kind) ==
    {t \in FreeStations(kind) :
        \A s \in FreeStations(kind) :
            s.unit < t.unit \/ (s.unit = t.unit /\ t.slot <= s.slot)}

\* A slip: the test for a full buffer is late by one.
RobOverfull == Len(rob) > MaxEntries
RobFull == Len(rob) >= MaxEntries

CanIssue ==
    /\ Fetched.op \notin {"NOP", "HLT"}
    /\ FreeStations(RequiredType(Fetched.op)) # {}
    /\ ~RobFull

Decoding == stage = "decode" /\ decodes < MaxDecodes

\* program->at throws and the exception ends the simulator.
FetchFault ==
    /\ Decoding
    /\ ~InProgram(FetchPC)
    /\ stage' = "fault" /\ unit' = 0
    /\ UNCHANGED <<program, memory, physicalRegisters, rst, rs, rob, lsu, btb,
                   decodeStalled, decodes>>

\* NOP, HLT, no free station or a full reorder buffer.  The decoders after
\* this one are skipped.
DecodeStall ==
    /\ Decoding
    /\ InProgram(FetchPC)
    /\ ~CanIssue
    /\ decodeStalled' = TRUE
    /\ stage' = "end" /\ unit' = 0
    /\ decodes' = decodes + 1
    /\ UNCHANGED <<program, memory, physicalRegisters, rst, rs, rob, lsu, btb>>

OperandTag(r) == IF rst[r].valid THEN NoTag ELSE rst[r].tag
OperandValue(r) == IF rst[r].valid THEN rst[r].value ELSE 0

\* A slip: readiness looks at the first operand only.
FilledStationEarly(i, pc) ==
    [empty |-> FALSE, busy |-> FALSE, valid |-> rst[i.rs1].valid,
     op |-> i.op, imm |-> i.imm, pcValue |-> pc, insertionCycle |-> decodes,
     source1 |-> OperandTag(i.rs1), val1 |-> OperandValue(i.rs1),
     source2 |-> OperandTag(i.rs2), val2 |-> OperandValue(i.rs2)]

FilledStation(i, pc) ==
    [empty |-> FALSE, busy |-> FALSE, valid |-> rst[i.rs1].valid /\ rst[i.rs2].valid,
     op |-> i.op, imm |-> i.imm, pcValue |-> pc, insertionCycle |-> decodes,
     source1 |-> OperandTag(i.rs1), val1 |-> OperandValue(i.rs1),
     source2 |-> OperandTag(i.rs2), val2 |-> OperandValue(i.rs2)]

NewEntry(i, t, pc) ==
    [op |-> i.op, tag |-> t, rd |-> i.rd, val |-> -1, addr |-> -1, data |-> -1,
     pc |-> pc, valid |-> FALSE]

Renamed(table, rd, t) ==
    IF rd \in GPR THEN [table EXCEPT ![rd].tag = t, ![rd].valid = FALSE] ELSE table

\* A slip: ages count cycles, which several decoders share.
IssueByCycle(t) ==
    /\ rs' = [rs EXCEPT ![t] = FilledStation(Fetched, FetchPC)]
    /\ rob' = Append(rob, NewEntry(Fetched, t, FetchPC))
    /\ decodes' = IF unit = 0 THEN decodes + 1 ELSE decodes
    /\ decodeStalled' = FALSE
    /\ NextUnit(NumDecoders, "end")
    /\ UNCHANGED <<program, memory, lsu>>

\* The part common to branches and other instructions.
Issue(t) ==
    /\ rs' = [rs EXCEPT ![t] = FilledStation(Fetched, FetchPC)]
    /\ rob' = Append(rob, NewEntry(Fetched, t, FetchPC))
    /\ decodes' = decodes + 1
    /\ decodeStalled' = FALSE
    /\ NextUnit(NumDecoders, "end")
    /\ UNCHANGED <<program, memory, lsu>>

\* The last instruction is not followed by an increment of PC.
FollowingPC == IF FetchPC < Len(program) - 1 THEN FetchPC + 1 ELSE FetchPC

DecodeIssue ==
    /\ Decoding
    /\ InProgram(FetchPC)
    /\ CanIssue
    /\ Fetched.op \notin BranchOps
    /\ \E t \in StationToUse(RequiredType(Fetched.op)) :
         /\ Issue(t)
         /\ rst' = [Renamed(rst, Fetched.rd, t) EXCEPT !["PC"].value =
                        IF FollowingPC = FetchPC THEN @ ELSE FollowingPC]
    /\ physicalRegisters' = [physicalRegisters EXCEPT !["PC"] = FollowingPC]
    /\ UNCHANGED btb

\* A slip: targets are taken relative to the next instruction.
PredictedFromNext ==
    CASE btb.mode = 1 -> Wrap(FetchPC + 1 + Fetched.imm)
      [] btb.mode = 2 -> FetchPC + 1
      [] btb.mode = 0 /\ btb.targets[Slot(FetchPC)] # -1 -> btb.targets[Slot(FetchPC)]
      [] btb.mode = 0 /\ btb.targets[Slot(FetchPC)] = -1 ->
            IF btb.bits[Slot(FetchPC)] <= 1 THEN FetchPC + 1
                                            ELSE Wrap(FetchPC + 1 + Fetched.imm)

\* In mode 0 the stored target wins; the bits only choose the first target.
PredictedPC ==
    CASE btb.mode = 1 -> Wrap(FetchPC + Fetched.imm)
      [] btb.mode = 2 -> FetchPC + 1
      [] btb.mode = 0 /\ btb.targets[Slot(FetchPC)] # -1 -> btb.targets[Slot(FetchPC)]
      [] btb.mode = 0 /\ btb.targets[Slot(FetchPC)] = -1 ->
            IF btb.bits[Slot(FetchPC)] <= 1 THEN FetchPC + 1
                                            ELSE Wrap(FetchPC + Fetched.imm)

\* A slip: the prediction is not recorded.
RecordedNothing == btb

RecordedBtb ==
    IF btb.mode = 0 THEN [btb EXCEPT !.targets[Slot(FetchPC)] = PredictedPC] ELSE btb

DecodeBranch ==
    /\ Decoding
    /\ InProgram(FetchPC)
    /\ CanIssue
    /\ Fetched.op \in BranchOps
    /\ \E t \in StationToUse("ADDER") :
         /\ Issue(t)
         /\ rst' = Renamed(rst, Fetched.rd, t)
    /\ physicalRegisters' = [physicalRegisters EXCEPT !["PC"] = PredictedPC]
    /\ btb' = RecordedBtb

(***************************************************************************)
(* The end of TomasulosCPU::Cycle, and the loop of TomasulosCPU::Run.      *)
(***************************************************************************)
Drained == decodeStalled /\ rob = << >> /\ \A t \in Tag : rs[t].empty

EndCycle ==
    /\ stage = "end"
    /\ ~Drained
    /\ stage' = "rob"
    /\ decodeStalled' = FALSE
    /\ UNCHANGED <<program, memory, physicalRegisters, rst, rs, rob, lsu, btb,
                   unit, decodes>>

EndRun ==
    /\ stage = "end"
    /\ Drained
    /\ stage' = "halted"
    /\ UNCHANGED <<program, memory, physicalRegisters, rst, rs, rob, lsu, btb,
                   unit, decodeStalled, decodes>>

\* Run has returned, the process has died, or the bound is reached.
Stopped ==
    /\ stage = "decode" => decodes = MaxDecodes
    /\ stage \in {"halted", "fault", "decode"}
    /\ UNCHANGED vars

Commit == CommitResult \/ CommitBranch \/ CommitStore \/ CommitStoreOutside
             \/ CommitMispredicted \/ CommitDone
Adder == AdderIdle \/ AdderExecute
LoadStore == LoadStoreIdle \/ AddressCalculation \/ MemoryStore \/ MemoryLoad
                \/ MemoryLoadFault
Decode == FetchFault \/ DecodeStall \/ DecodeIssue \/ DecodeBranch

Step == Commit \/ Adder \/ LoadStore \/ Decode \/ EndCycle \/ EndRun
Next == Step \/ Stopped

Spec == Init /\ [][Next]_vars

\* Run calls Cycle until it returns true: the loop never rests.
FairSpec == Spec /\ WF_vars(Step)
==============================================================================
