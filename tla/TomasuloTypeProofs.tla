------------------------- MODULE TomasuloTypeProofs -------------------------
(***************************************************************************)
(* Type correctness of the out-of-order CPU for every configuration,       *)
(* program and word size, and the lemmas on stations and the reorder       *)
(* buffer that its other proofs share.                                     *)
(***************************************************************************)
EXTENDS TomasuloProperties, ISAProofs, SequenceTheorems

(***************************************************************************)
(* Type correctness.                                                       *)
(***************************************************************************)
LEMMA TagsDiffer == NoTag \notin Tag
BY DEF NoTag, Tag

\* The bus keeps a station a station.
LEMMA StationTypes ==
  ASSUME NEW s \in ReservationStation, NEW t \in Tag, NEW v \in Word
  PROVE  /\ Cleared(s) \in ReservationStation
         /\ Snooped(s, t, v) \in ReservationStation
         /\ Cleared(Snooped(s, t, v)) \in ReservationStation
<1>1. \A x \in ReservationStation : Cleared(x) \in ReservationStation
  BY SmallWords DEF Cleared, ReservationStation, TagOrNone, Opcode
<1>2. Snooped(s, t, v) \in ReservationStation
  BY SmallWords DEF Snooped, ReservationStation, TagOrNone
<1> QED
  BY <1>1, <1>2

LEMMA BroadcastTypes ==
  ASSUME NEW table \in [Tag -> ReservationStation],
         NEW regs \in [Reg -> RegisterStatusEntry],
         NEW t \in Tag, NEW v \in Word
  PROVE  /\ BroadcastToStations(table, t, v) \in [Tag -> ReservationStation]
         /\ BroadcastToRegisters(regs, t, v) \in [Reg -> RegisterStatusEntry]
<1>1. \A u \in Tag : /\ Snooped(table[u], t, v) \in ReservationStation
                     /\ Cleared(Snooped(table[u], t, v)) \in ReservationStation
  BY StationTypes
<1>2. BroadcastToStations(table, t, v) \in [Tag -> ReservationStation]
  BY <1>1 DEF BroadcastToStations
<1>3. BroadcastToRegisters(regs, t, v) \in [Reg -> RegisterStatusEntry]
  BY DEF BroadcastToRegisters, RegisterStatusEntry, TagOrNone
<1> QED
  BY <1>2, <1>3

\* The constructor of an instruction bounds its fields.
LEMMA ProgramTypes ==
  ASSUME NEW p \in Programs
  PROVE  /\ p \in Seq(Instruction)
         /\ Len(p) \in 1 .. (HalfRange - 1)
         /\ DOMAIN p = 1 .. Len(p)
         /\ \A i \in DOMAIN p :
              /\ p[i].op \in Opcode /\ p[i].rd \in Reg /\ p[i].rs1 \in Reg
              /\ p[i].rs2 \in Reg /\ p[i].imm \in Word
              /\ p[i].op = "SW" => p[i].rd = "ZERO"
              /\ p[i].op \in BranchOps => p[i].rd = "PC"
<1>1. p \in Seq(Instruction) /\ Len(p) \in 1 .. (HalfRange - 1)
  BY InputAssumption
<1>2. DOMAIN p = 1 .. Len(p)
  BY <1>1
<1>3. \A i \in DOMAIN p : p[i] \in Instruction
  BY <1>1
<1> QED
  BY <1>1, <1>2, <1>3 DEF Instruction

LEMMA InitTypeOK == Init => TypeOK
<1> SUFFICES ASSUME Init PROVE TypeOK
  OBVIOUS
<1>1. program \in Programs /\ memory \in [Address -> Word]
  BY InputAssumption DEF Init
<1>2. physicalRegisters \in [Reg -> Word]
  BY SmallWords DEF Init
<1>3. rst \in [Reg -> RegisterStatusEntry]
  BY SmallWords DEF Init, RegisterStatusEntry, TagOrNone
<1>4. rs \in [Tag -> ReservationStation]
  BY SmallWords DEF Init, FreshStation, ReservationStation, TagOrNone, Opcode
<1>5. rob \in Seq(ReorderBufferEntry) /\ Len(rob) <= MaxEntries
  BY ConfigAssumption DEF Init, MaxEntries
<1>6. lsu \in [Index(NumLoadStores) -> LoadStoreUnit]
  BY SmallWords DEF Init, IdleUnit, LoadStoreUnit, TagOrNone, Opcode
<1>7. btb \in [mode : BpModes, targets : [Slots -> Word], bits : [Slots -> Int]]
  <2>1. \A mode \in BpModes : DefaultBits(mode) \in Int
    BY ConfigAssumption DEF DefaultBits
  <2>2. PICK mode \in BpModes, target \in BtbOverrun, bits \in BtbOverrun :
          btb = [mode    |-> mode,
                 targets |-> [k \in Slots |-> IF k < BtbSize THEN -1 ELSE target],
                 bits    |-> [k \in Slots |-> IF k < BtbSize THEN DefaultBits(mode)
                                                            ELSE bits]]
    BY DEF Init
  <2>3. \A w \in BtbOverrun : w \in Word /\ w \in Int
    BY ConfigAssumption, SmallWords
  <2> QED
    BY <2>1, <2>2, <2>3, SmallWords
<1>8. unit \in Index(Turns(stage))
  BY DEF Init, Index, Turns
<1> QED
  BY <1>1, <1>2, <1>3, <1>4, <1>5, <1>6, <1>7, <1>8 DEF Init, TypeOK

(***************************************************************************)
(* The reorder buffer as a sequence.                                       *)
(***************************************************************************)
\* Committing takes the first entry and moves the others up by one.
LEMMA OldestEntry ==
  ASSUME rob \in Seq(ReorderBufferEntry), rob # << >>
  PROVE  /\ Len(rob) \in Nat \ {0} /\ DOMAIN rob = 1 .. Len(rob)
         /\ Head(rob) = rob[1] /\ Head(rob) \in ReorderBufferEntry
         /\ Tail(rob) \in Seq(ReorderBufferEntry)
         /\ Len(Tail(rob)) = Len(rob) - 1
         /\ DOMAIN Tail(rob) = 1 .. (Len(rob) - 1)
         /\ \A i \in 1 .. (Len(rob) - 1) : Tail(rob)[i] = rob[i + 1]
BY HeadTailProperties

\* Sequence r is the reorder buffer with the entries of tag t completed.
Completes(r, t) ==
    /\ r \in Seq(ReorderBufferEntry)
    /\ Len(r) = Len(rob) /\ DOMAIN r = DOMAIN rob
    /\ \A i \in DOMAIN rob :
         /\ r[i].op = rob[i].op /\ r[i].tag = rob[i].tag
         /\ r[i].rd = rob[i].rd /\ r[i].pc = rob[i].pc
         /\ r[i].valid = (rob[i].valid \/ rob[i].tag = t)
         /\ rob[i].tag # t => r[i] = rob[i]

\* updateField changes neither the order nor the identity of entries.
LEMMA CompletedResult ==
  ASSUME rob \in Seq(ReorderBufferEntry), NEW t, NEW v \in Word
  PROVE  Completes(WithResult(t, v), t)
<1> DEFINE r == WithResult(t, v)
<1>1. /\ DOMAIN rob = 1 .. Len(rob) /\ Len(rob) \in Nat
      /\ \A i \in DOMAIN rob : rob[i] \in ReorderBufferEntry
  OBVIOUS
<1>2. ASSUME NEW i \in DOMAIN rob
      PROVE  LET x == [rob[i] EXCEPT !.val = v, !.valid = TRUE]
             IN  /\ x \in ReorderBufferEntry /\ rob[i] \in ReorderBufferEntry
                 /\ x.op = rob[i].op /\ x.tag = rob[i].tag /\ x.rd = rob[i].rd
                 /\ x.pc = rob[i].pc /\ x.valid = TRUE /\ rob[i].valid \in BOOLEAN
  BY <1>1 DEF ReorderBufferEntry
<1>3. /\ DOMAIN r = DOMAIN rob
      /\ r \in [1 .. Len(rob) -> ReorderBufferEntry]
      /\ \A i \in DOMAIN rob :
           /\ r[i].op = rob[i].op /\ r[i].tag = rob[i].tag
           /\ r[i].rd = rob[i].rd /\ r[i].pc = rob[i].pc
           /\ r[i].valid = (rob[i].valid \/ rob[i].tag = t)
           /\ rob[i].tag # t => r[i] = rob[i]
  BY <1>1, <1>2 DEF WithResult
<1> HIDE DEF r
<1>4. r \in Seq(ReorderBufferEntry) /\ Len(r) = Len(rob)
  BY <1>1, <1>3
<1>5. Completes(r, t)
  BY <1>3, <1>4 DEF Completes
<1> QED
  BY <1>5 DEF r

LEMMA CompletedStore ==
  ASSUME rob \in Seq(ReorderBufferEntry), NEW t, NEW a \in Word, NEW d \in Word
  PROVE  Completes(WithStore(t, a, d), t)
<1> DEFINE r == WithStore(t, a, d)
<1>1. /\ DOMAIN rob = 1 .. Len(rob) /\ Len(rob) \in Nat
      /\ \A i \in DOMAIN rob : rob[i] \in ReorderBufferEntry
  OBVIOUS
<1>2. ASSUME NEW i \in DOMAIN rob
      PROVE  LET x == [rob[i] EXCEPT !.addr = a, !.data = d, !.valid = TRUE]
             IN  /\ x \in ReorderBufferEntry /\ rob[i] \in ReorderBufferEntry
                 /\ x.op = rob[i].op /\ x.tag = rob[i].tag /\ x.rd = rob[i].rd
                 /\ x.pc = rob[i].pc /\ x.valid = TRUE /\ rob[i].valid \in BOOLEAN
  BY <1>1 DEF ReorderBufferEntry
<1>3. /\ DOMAIN r = DOMAIN rob
      /\ r \in [1 .. Len(rob) -> ReorderBufferEntry]
      /\ \A i \in DOMAIN rob :
           /\ r[i].op = rob[i].op /\ r[i].tag = rob[i].tag
           /\ r[i].rd = rob[i].rd /\ r[i].pc = rob[i].pc
           /\ r[i].valid = (rob[i].valid \/ rob[i].tag = t)
           /\ rob[i].tag # t => r[i] = rob[i]
  BY <1>1, <1>2 DEF WithStore
<1> HIDE DEF r
<1>4. r \in Seq(ReorderBufferEntry) /\ Len(r) = Len(rob)
  BY <1>1, <1>3
<1>5. Completes(r, t)
  BY <1>3, <1>4 DEF Completes
<1> QED
  BY <1>5 DEF r

(***************************************************************************)
(* The turn moves on within its bounds.                                    *)
(***************************************************************************)
LEMMA TurnTypes ==
  ASSUME TypeOK
  PROVE  /\ stage = "adder" /\ NextUnit(NumAdders, "loadstore")
              => stage' \in {"adder", "loadstore"} /\ unit' \in Index(Turns(stage'))
         /\ stage = "loadstore" /\ NextUnit(NumLoadStores, "decode")
              => stage' \in {"loadstore", "decode"} /\ unit' \in Index(Turns(stage'))
         /\ stage = "decode" /\ NextUnit(NumDecoders, "end")
              => stage' \in {"decode", "end"} /\ unit' \in Index(Turns(stage'))
         /\ \A s \in {"rob", "adder", "loadstore", "decode", "end", "halted", "fault"} :
              0 \in Index(Turns(s))
<1>1. /\ Turns("adder") = NumAdders /\ Turns("loadstore") = NumLoadStores
      /\ Turns("decode") = NumDecoders
      /\ \A s \in {"rob", "end", "halted", "fault"} : Turns(s) = 1
  BY DEF Turns
<1>2. unit \in Index(Turns(stage))
  BY DEF TypeOK
<1> QED
  BY <1>1, <1>2, ConfigAssumption DEF NextUnit, Index

\* Instructions are fetched at a word, and so are their successors.
LEMMA FetchTypes ==
  ASSUME TypeOK, InProgram(FetchPC)
  PROVE  /\ FetchPC \in Word /\ FetchPC \in Int
         /\ FetchPC + 1 \in Word
         /\ FollowingPC \in Word
         /\ Fetched \in Instruction
         /\ Fetched.op \in Opcode /\ Fetched.rd \in Reg /\ Fetched.rs1 \in Reg
         /\ Fetched.rs2 \in Reg /\ Fetched.imm \in Word
         /\ Fetched.op = "SW" => Fetched.rd = "ZERO"
         /\ Fetched.op \in BranchOps => Fetched.rd = "PC"
<1>1. FetchPC \in Word /\ program \in Programs
  BY DEF TypeOK, FetchPC, Reg
<1>2. FetchPC + 1 \in 1 .. Len(program) /\ Len(program) \in 1 .. (HalfRange - 1)
  BY <1>1, ProgramTypes DEF InProgram
<1>3. FetchPC \in Int /\ FetchPC + 1 \in Word
  BY <1>1, <1>2, WordAssumption DEF Word
<1>4. program[FetchPC + 1] \in Instruction
  BY <1>1, <1>2, ProgramTypes
<1> QED
  BY <1>1, <1>3, <1>4 DEF FollowingPC, Fetched, Instruction

LEMMA PredictedIsWord ==
  ASSUME TypeOK, InProgram(FetchPC)
  PROVE  PredictedPC \in Word
<1>1. /\ FetchPC + 1 \in Word
      /\ Wrap(FetchPC + Fetched.imm) \in Word
  <2>1. FetchPC \in Int /\ Fetched.imm \in Int
    BY FetchTypes, SmallWords
  <2>2. FetchPC + Fetched.imm \in Int
    BY <2>1
  <2> QED
    BY <2>2, FetchTypes, WrapIsWord
<1>2. Slot(FetchPC) \in Slots
  <2>1. BtbSize + 1 \in Nat \ {0} /\ FetchPC \in Int
    BY ConfigAssumption, FetchTypes
  <2>2. \A a \in Int, n \in Nat \ {0} : a % n \in 0 .. (n - 1)
    BY SMT
  <2> QED
    BY <2>1, <2>2, ConfigAssumption DEF Slot, Slots
<1>3. btb.targets[Slot(FetchPC)] \in Word
  BY <1>2 DEF TypeOK
<1>4. btb.mode \in 0 .. 2
  BY ConfigAssumption DEF TypeOK
<1> QED
  BY <1>1, <1>3, <1>4 DEF PredictedPC

LEMMA CommitTypes == ASSUME TypeOK, Commit PROVE TypeOK'
<1> USE DEF TypeOK
<1>0. ASSUME OldestIsDone
      PROVE  /\ Head(rob) \in ReorderBufferEntry
             /\ Head(rob).tag \in Tag /\ Head(rob).val \in Word
             /\ Head(rob).rd \in Reg /\ Head(rob).data \in Word
             /\ Head(rob).addr \in Word /\ Head(rob).pc \in Word
             /\ Tail(rob) \in Seq(ReorderBufferEntry) /\ Len(Tail(rob)) <= MaxEntries
  <2>1. Head(rob) \in ReorderBufferEntry /\ Tail(rob) \in Seq(ReorderBufferEntry)
        /\ Len(Tail(rob)) = Len(rob) - 1 /\ Len(rob) \in Nat
    BY <1>0, OldestEntry DEF OldestIsDone
  <2> QED
    BY <2>1, ConfigAssumption DEF ReorderBufferEntry, MaxEntries
<1>1. ASSUME OldestIsDone, BroadcastAndPop(Head(rob)),
             memory' \in [Address -> Word], physicalRegisters' \in [Reg -> Word]
      PROVE  TypeOK'
  <2>1. rs' \in [Tag -> ReservationStation] /\ rst' \in [Reg -> RegisterStatusEntry]
    BY <1>0, <1>1, BroadcastTypes DEF BroadcastAndPop
  <2> QED
    BY <1>0, <1>1, <2>1 DEF BroadcastAndPop
<1>2. CASE CommitResult
  BY <1>0, <1>1, <1>2 DEF CommitResult
<1>3. CASE CommitBranch
  BY <1>0, <1>1, <1>3 DEF CommitBranch
<1>4. CASE CommitStore
  BY <1>0, <1>1, <1>4 DEF CommitStore
<1>5. CASE CommitStoreOutside
  BY <1>5, TurnTypes DEF CommitStoreOutside
<1>6. CASE CommitMispredicted
  <2> DEFINE e == Head(rob)
  <2>1. e.tag \in Tag /\ e.val \in Word /\ e.pc \in Int
    BY <1>0, <1>6, SmallWords DEF CommitMispredicted
  <2>2. physicalRegisters' \in [Reg -> Word]
    BY <1>6, <2>1 DEF CommitMispredicted, Reg
  <2>3. FlushedStations \in [Tag -> ReservationStation]
    BY StationTypes, <2>1 DEF FlushedStations
  <2>4. FlushedRegisters \in [Reg -> RegisterStatusEntry]
    BY DEF FlushedRegisters, RegisterStatusEntry, TagOrNone
  <2>5. rs' \in [Tag -> ReservationStation] /\ rst' \in [Reg -> RegisterStatusEntry]
    BY <1>6, <2>1, <2>3, <2>4, BroadcastTypes DEF CommitMispredicted
  <2>6. lsu' \in [Index(NumLoadStores) -> LoadStoreUnit]
    <3>1. lsu' = FlushedUnits
      BY <1>6 DEF CommitMispredicted
    <3>2. ASSUME NEW u \in Index(NumLoadStores)
          PROVE  [lsu[u] EXCEPT !.phase = "ADDR_CALC", !.op = "NOP", !.addr = 0, !.data = 0]
                    \in LoadStoreUnit
      <4>1. lsu[u] \in LoadStoreUnit
        OBVIOUS
      <4>2. "NOP" \in Opcode /\ 0 \in Word
        BY SmallWords DEF Opcode
      <4> QED
        BY ONLY <4>1, <4>2 DEF LoadStoreUnit
    <3> QED
      BY <3>1, <3>2 DEF FlushedUnits
  <2>7. btb' \in [mode : BpModes, targets : [Slots -> Word], bits : [Slots -> Int]]
    <3>1. \A b \in Int : Trained(b, e) \in Int
      BY DEF Trained
    <3>2. /\ btb.targets \in [Slots -> Word] /\ btb.bits \in [Slots -> Int]
          /\ btb.mode \in BpModes
          /\ btb = [mode |-> btb.mode, targets |-> btb.targets, bits |-> btb.bits]
      OBVIOUS
    <3>3. [btb.targets EXCEPT ![Slot(e.pc)] = e.val] \in [Slots -> Word]
      BY <2>1, <3>2
    <3>4. [btb.bits EXCEPT ![Slot(e.pc)] = Trained(btb.bits[Slot(e.pc)], e)]
             \in [Slots -> Int]
      BY <3>1, <3>2
    <3>5. TrainedBtb(e) \in [mode : BpModes, targets : [Slots -> Word],
                             bits : [Slots -> Int]]
      BY <3>2, <3>3, <3>4 DEF TrainedBtb
    <3> QED
      BY <1>6, <3>5 DEF CommitMispredicted
  <2>8. rob' \in Seq(ReorderBufferEntry) /\ Len(rob') <= MaxEntries
    BY <1>6, ConfigAssumption DEF CommitMispredicted, MaxEntries
  <2> QED
    BY <1>6, <2>2, <2>5, <2>6, <2>7, <2>8 DEF CommitMispredicted
<1>7. CASE CommitDone
  BY <1>7, TurnTypes DEF CommitDone
<1> QED
  BY <1>2, <1>3, <1>4, <1>5, <1>6, <1>7 DEF Commit

LEMMA AdderTypes == ASSUME TypeOK, Adder PROVE TypeOK'
<1> USE DEF TypeOK
<1>1. CASE AdderIdle
  BY <1>1, TurnTypes DEF AdderIdle
<1>2. CASE AdderExecute
  <2> DEFINE result(t) == ALU(rs[t].op, rs[t].pcValue, rs[t].val1, rs[t].val2, rs[t].imm)
  <2>1. PICK t \in NextReady(unit) : /\ rs' = [rs EXCEPT ![t].busy = TRUE]
                                     /\ rob' = WithResult(t, result(t))
    BY <1>2 DEF AdderExecute
  <2>2. t \in Tag /\ rs[t] \in ReservationStation
    BY DEF NextReady, ReadyStations, Stations
  <2>3. result(t) \in Word
    BY <2>2, ALUIsWord DEF ReservationStation
  <2>4. rob' \in Seq(ReorderBufferEntry) /\ Len(rob') = Len(rob)
    BY <2>1, <2>3, CompletedResult DEF Completes
  <2>5. rs' \in [Tag -> ReservationStation]
    BY <2>1, <2>2 DEF ReservationStation
  <2> QED
    BY <1>2, <2>4, <2>5, TurnTypes DEF AdderExecute
<1> QED
  BY <1>1, <1>2 DEF Adder

LEMMA LoadStoreTypes == ASSUME TypeOK, LoadStore PROVE TypeOK'
<1> USE DEF TypeOK
<1>0. stage = "loadstore" => unit \in Index(NumLoadStores) /\ lsu[unit] \in LoadStoreUnit
  BY DEF Turns
<1>1. CASE LoadStoreIdle
  BY <1>1, TurnTypes DEF LoadStoreIdle
<1>2. CASE AddressCalculation
  <2> DEFINE held(t) ==
        [phase |-> "MEMORY_OPERATION", tag |-> t, op |-> rs[t].op,
         addr |-> EffectiveAddress(rs[t].op, rs[t].val1, rs[t].val2, rs[t].imm),
         data |-> rs[t].val1]
  <2>1. PICK t \in OldestReady(unit) : /\ rs' = [rs EXCEPT ![t].busy = TRUE]
                                       /\ lsu' = [lsu EXCEPT ![unit] = held(t)]
    BY <1>2 DEF AddressCalculation
  <2>2. t \in Tag /\ rs[t] \in ReservationStation
    BY DEF OldestReady, ReadyStations, Stations
  <2>3. held(t) \in LoadStoreUnit
    BY <2>2, EffectiveAddressIsWord DEF ReservationStation, LoadStoreUnit, TagOrNone
  <2>4. rs' \in [Tag -> ReservationStation]
    BY <2>1, <2>2 DEF ReservationStation
  <2>5. lsu' \in [Index(NumLoadStores) -> LoadStoreUnit]
    BY <2>1, <2>3
  <2> QED
    BY <1>2, <2>4, <2>5, TurnTypes DEF AddressCalculation
<1>3. CASE MemoryStore
  <2>1. lsu[unit].addr \in Word /\ lsu[unit].data \in Word
    BY <1>0, <1>3 DEF MemoryStore, LoadStoreUnit
  <2>2. rob' \in Seq(ReorderBufferEntry) /\ Len(rob') = Len(rob)
    <3>1. rob' = WithStore(lsu[unit].tag, lsu[unit].addr, lsu[unit].data)
      BY <1>3 DEF MemoryStore
    <3>2. Completes(WithStore(lsu[unit].tag, lsu[unit].addr, lsu[unit].data), lsu[unit].tag)
      BY <2>1, CompletedStore
    <3> QED
      BY <3>1, <3>2 DEF Completes
  <2>3. lsu' \in [Index(NumLoadStores) -> LoadStoreUnit]
    BY <1>0, <1>3 DEF MemoryStore, LoadStoreUnit
  <2> QED
    BY <1>3, <2>2, <2>3, TurnTypes DEF MemoryStore
<1>4. CASE MemoryLoad
  <2>1. PICK v \in Loaded(lsu[unit].addr) : rob' = WithResult(lsu[unit].tag, v)
    BY <1>4 DEF MemoryLoad
  <2>2. v \in Word
    BY ConfigAssumption DEF Loaded
  <2>3. rob' \in Seq(ReorderBufferEntry) /\ Len(rob') = Len(rob)
    BY <2>1, <2>2, CompletedResult DEF Completes
  <2>4. lsu' \in [Index(NumLoadStores) -> LoadStoreUnit]
    BY <1>0, <1>4 DEF MemoryLoad, LoadStoreUnit
  <2> QED
    BY <1>4, <2>3, <2>4, TurnTypes DEF MemoryLoad
<1>5. CASE MemoryLoadFault
  BY <1>5, TurnTypes DEF MemoryLoadFault
<1> QED
  BY <1>1, <1>2, <1>3, <1>4, <1>5 DEF LoadStore

LEMMA IssueTypes ==
  ASSUME TypeOK, stage = "decode", InProgram(FetchPC), CanIssue, NEW t \in Tag, Issue(t)
  PROVE  /\ rs' \in [Tag -> ReservationStation]
         /\ rob' \in Seq(ReorderBufferEntry) /\ Len(rob') <= MaxEntries
         /\ Renamed(rst, Fetched.rd, t) \in [Reg -> RegisterStatusEntry]
         /\ stage' \in {"decode", "end"} /\ unit' \in Index(Turns(stage'))
         /\ decodeStalled' \in BOOLEAN /\ decodes' \in Nat
         /\ program' = program /\ memory' = memory /\ lsu' = lsu
<1> USE DEF TypeOK
<1>1. \A r \in Reg : OperandTag(r) \in TagOrNone /\ OperandValue(r) \in Word
  BY SmallWords DEF OperandTag, OperandValue, RegisterStatusEntry, TagOrNone
<1>2. FilledStation(Fetched, FetchPC) \in ReservationStation
  BY <1>1, FetchTypes DEF FilledStation, ReservationStation, RegisterStatusEntry
<1>3. NewEntry(Fetched, t, FetchPC) \in ReorderBufferEntry
  BY FetchTypes, SmallWords DEF NewEntry, ReorderBufferEntry
<1>4. rob' \in Seq(ReorderBufferEntry) /\ Len(rob') = Len(rob) + 1
  BY <1>3 DEF Issue
<1>5. Len(rob) < MaxEntries /\ Len(rob) \in Nat /\ MaxEntries \in Int
  BY ConfigAssumption DEF CanIssue, RobFull, MaxEntries
<1>6. Renamed(rst, Fetched.rd, t) \in [Reg -> RegisterStatusEntry]
  <2> DEFINE entry(r) == [[rst[r] EXCEPT !.tag = t] EXCEPT !.valid = FALSE]
  <2>1. \A r \in Reg : entry(r) \in RegisterStatusEntry
    BY DEF RegisterStatusEntry, TagOrNone
  <2>2. CASE Fetched.rd \in GPR
    <3>1. Renamed(rst, Fetched.rd, t) = [rst EXCEPT ![Fetched.rd] = entry(Fetched.rd)]
      BY <2>2 DEF Renamed, Reg
    <3>2. entry(Fetched.rd) \in RegisterStatusEntry
      BY <2>1, <2>2 DEF Reg
    <3> HIDE DEF entry
    <3> QED
      BY <3>1, <3>2
  <2>3. CASE Fetched.rd \notin GPR
    BY <2>3 DEF Renamed
  <2> QED
    BY <2>2, <2>3
<1>7. rs' \in [Tag -> ReservationStation]
  BY <1>2 DEF Issue
<1>8. stage' \in {"decode", "end"} /\ unit' \in Index(Turns(stage'))
  <2>1. NextUnit(NumDecoders, "end")
    BY DEF Issue
  <2> HIDE DEF TypeOK
  <2> QED
    BY <2>1, TurnTypes
<1>9. decodeStalled' = FALSE /\ decodes' = decodes + 1 /\ decodes \in Nat
  BY DEF Issue
<1>10. program' = program /\ memory' = memory /\ lsu' = lsu
  BY DEF Issue
<1>11. Len(rob') <= MaxEntries
  BY <1>4, <1>5
<1>12. decodeStalled' \in BOOLEAN
  BY <1>9, Zenon
<1>13. decodes' \in Nat
  BY <1>9
<1> QED
  BY <1>4, <1>6, <1>7, <1>8, <1>10, <1>11, <1>12, <1>13

LEMMA DecodeTypes == ASSUME TypeOK, Decode PROVE TypeOK'
<1> USE DEF TypeOK
<1>1. CASE FetchFault
  BY <1>1, TurnTypes DEF FetchFault
<1>2. CASE DecodeStall
  BY <1>2, TurnTypes DEF DecodeStall
<1>3. CASE DecodeIssue
  <2>1. PICK t \in StationToUse(RequiredType(Fetched.op)) :
          /\ Issue(t)
          /\ rst' = [Renamed(rst, Fetched.rd, t) EXCEPT !["PC"].value =
                         IF FollowingPC = FetchPC THEN @ ELSE FollowingPC]
    BY <1>3 DEF DecodeIssue
  <2>2. t \in Tag
    BY DEF StationToUse, FreeStations
  <2>3. InProgram(FetchPC) /\ CanIssue /\ stage = "decode"
    BY <1>3 DEF DecodeIssue, Decoding
  <2>4. Renamed(rst, Fetched.rd, t) \in [Reg -> RegisterStatusEntry]
    BY <2>1, <2>2, <2>3, IssueTypes
  <2>5. FollowingPC \in Word
    BY <2>3, FetchTypes
  <2>6. rst' \in [Reg -> RegisterStatusEntry]
    <3> DEFINE table == Renamed(rst, Fetched.rd, t)
    <3>1. /\ table \in [Reg -> RegisterStatusEntry]
          /\ rst' = [table EXCEPT !["PC"].value =
                         IF FollowingPC = FetchPC THEN @ ELSE FollowingPC]
      BY <2>1, <2>4
    <3>2. "PC" \in Reg
      BY DEF Reg
    <3> HIDE DEF table
    <3>3. [table["PC"] EXCEPT !.value =
              IF FollowingPC = FetchPC THEN @ ELSE FollowingPC] \in RegisterStatusEntry
      BY <2>5, <3>1, <3>2 DEF RegisterStatusEntry
    <3> QED
      BY ONLY <3>1, <3>2, <3>3
  <2>7. physicalRegisters' \in [Reg -> Word]
    BY <1>3, <2>5 DEF DecodeIssue, Reg
  <2> QED
    BY <1>3, <2>1, <2>2, <2>3, <2>6, <2>7, IssueTypes DEF DecodeIssue
<1>4. CASE DecodeBranch
  <2>1. PICK t \in StationToUse("ADDER") :
          Issue(t) /\ rst' = Renamed(rst, Fetched.rd, t)
    BY <1>4 DEF DecodeBranch
  <2>2. t \in Tag
    BY DEF StationToUse, FreeStations
  <2>3. InProgram(FetchPC) /\ CanIssue /\ stage = "decode"
    BY <1>4 DEF DecodeBranch, Decoding
  <2>4. PredictedPC \in Word
    BY <2>3, PredictedIsWord
  <2>5. physicalRegisters' \in [Reg -> Word]
    BY <1>4, <2>4 DEF DecodeBranch, Reg
  <2>6. btb' \in [mode : BpModes, targets : [Slots -> Word], bits : [Slots -> Int]]
    BY <1>4, <2>4 DEF DecodeBranch, RecordedBtb
  <2> QED
    BY <1>4, <2>1, <2>2, <2>3, <2>5, <2>6, IssueTypes DEF DecodeBranch
<1> QED
  BY <1>1, <1>2, <1>3, <1>4 DEF Decode

LEMMA StepTypes == TypeOK /\ [Next]_vars => TypeOK'
<1> SUFFICES ASSUME TypeOK, [Next]_vars PROVE TypeOK'
  OBVIOUS
<1>1. CASE Commit
  BY <1>1, CommitTypes
<1>2. CASE Adder
  BY <1>2, AdderTypes
<1>3. CASE LoadStore
  BY <1>3, LoadStoreTypes
<1>4. CASE Decode
  BY <1>4, DecodeTypes
<1>5. CASE EndCycle
  BY <1>5, TurnTypes DEF EndCycle, TypeOK, Turns
<1>6. CASE EndRun
  BY <1>6, TurnTypes DEF EndRun, TypeOK, Turns
<1>7. CASE Stopped \/ UNCHANGED vars
  BY <1>7 DEF Stopped, vars, TypeOK, Turns
<1> QED
  BY <1>1, <1>2, <1>3, <1>4, <1>5, <1>6, <1>7 DEF Next, Step

\* Every value stays a word of its width, the reorder buffer never holds more
\* than its constructor allocates, and no unit is addressed that is not there.
THEOREM TypeCorrectness == Spec => []TypeOK
<1>1. Init => TypeOK
  BY InitTypeOK
<1>2. TypeOK /\ [Next]_vars => TypeOK'
  BY StepTypes
<1> QED
  BY <1>1, <1>2, PTL DEF Spec
==============================================================================
