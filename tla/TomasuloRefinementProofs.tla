----------------------- MODULE TomasuloRefinementProofs -----------------------
(***************************************************************************)
(* The out-of-order CPU executes regular programs one instruction at a     *)
(* time, whatever its configuration, if their loads and stores are         *)
(* separate or its buffer has two entries: what is in flight is the path   *)
(* that commit will accept, it stays inside the program, and what commits  *)
(* is what the instruction computes from the committed state.              *)
(***************************************************************************)
EXTENDS TomasuloOrderProofs

(***************************************************************************)
(* Speculation.  What is in flight is the path the target buffer predicts, *)
(* and in mode 0 each branch in flight has claimed its slot.               *)
(***************************************************************************)
\* The successor of e that target buffer b will have commit accept.
Successor(b, e) ==
    IF e.rd # "PC" \/ b.mode = 2 THEN e.pc + 1
    ELSE IF b.mode = 0 THEN b.targets[Slot(e.pc)]
    ELSE Wrap(e.pc + InstructionAt(e.pc).imm)

Follower(entries, pc, i) == IF i < Len(entries) THEN entries[i + 1].pc ELSE pc

OnPath(b, entries, pc) ==
    \A i \in DOMAIN entries :
        /\ Follower(entries, pc, i) = Successor(b, entries[i])
        /\ entries[i].rd = "PC" /\ b.mode = 0 => b.targets[Slot(entries[i].pc)] # -1

PathInvariant == WellFormed(program) => OnPath(btb, rob, FetchPC)

LEMMA PathIsAccepted == ASSUME TypeOK, PathInvariant PROVE SpeculationPath
<1>1. btb.mode \in 0 .. 2
  BY ConfigAssumption DEF TypeOK
<1>2. btb.mode = 0 \/ btb.mode = 1 \/ btb.mode = 2
  BY <1>1
<1> QED
  BY <1>2 DEF PathInvariant, OnPath, Follower, Successor, SpeculationPath, PathAfter, AcceptedPC

LEMMA WrapKeepsWords == ASSUME NEW x \in Word PROVE Wrap(x) = x
<1> DEFINE a == x + HalfRange
           n == 2 * HalfRange
<1>1. a \in Nat /\ n \in Nat /\ a < n /\ x \in Int
  BY WordAssumption DEF Word
<1> HIDE DEF a, n
<1>2. a % n = a
  BY <1>1, SMT
<1> QED
  BY <1>1, <1>2, WordAssumption DEF Wrap, a, n

LEMMA SlotInRange == ASSUME NEW pc \in Int PROVE Slot(pc) \in Slots
<1>1. BtbSize + 1 \in Nat \ {0}
  BY ConfigAssumption
<1>2. \A a \in Int, n \in Nat \ {0} : a % n \in 0 .. (n - 1)
  BY SMT
<1> QED
  BY <1>1, <1>2, ConfigAssumption DEF Slot, Slots

\* In a well-formed program what follows an instruction that is not HLT, and
\* what a branch may lead to, is in the program.
LEMMA WellFormedFetch ==
  ASSUME TypeOK, WellFormed(program), NEW pc \in Int, InProgram(pc),
         InstructionAt(pc).op # "HLT"
  PROVE  /\ InProgram(pc + 1)
         /\ InstructionAt(pc).rd = "PC" <=> InstructionAt(pc).op \in BranchOps
         /\ InstructionAt(pc).op \in BranchOps =>
               /\ InProgram(pc + InstructionAt(pc).imm)
               /\ Wrap(pc + InstructionAt(pc).imm) = pc + InstructionAt(pc).imm
               /\ pc + InstructionAt(pc).imm # -1
         /\ Wrap(pc + 1) = pc + 1
<1> DEFINE i == InstructionAt(pc)
<1>1. /\ program \in Programs /\ DOMAIN program = 1 .. Len(program)
      /\ Len(program) \in 1 .. (HalfRange - 1)
      /\ pc + 1 \in DOMAIN program /\ i.imm \in Int
  BY ProgramTypes, SmallWords DEF TypeOK, InProgram, InstructionAt
<1>2. pc + 1 # Len(program)
  BY <1>1 DEF WellFormed, InstructionAt
<1>3. InProgram(pc + 1) /\ pc + 1 \in Word
  <2>1. pc + 1 \in 1 .. Len(program) /\ Len(program) \in Nat /\ Len(program) < HalfRange
    BY <1>1, WordAssumption
  <2>2. (pc + 1) + 1 \in 1 .. Len(program) /\ pc + 1 \in Word
    BY <1>2, <2>1, WordAssumption DEF Word
  <2> QED
    BY <1>1, <2>2 DEF InProgram
<1>4. i.rd = "PC" <=> i.op \in BranchOps
  BY <1>1 DEF WellFormed, InstructionAt
<1>5. ASSUME i.op \in BranchOps
      PROVE  /\ InProgram(pc + i.imm) /\ pc + i.imm \in Word
             /\ pc + i.imm # -1
  <2>1. (pc + 1) + i.imm \in DOMAIN program
    BY <1>1, <1>5 DEF WellFormed, InstructionAt
  <2> QED
    BY <1>1, <2>1, WordAssumption DEF InProgram, Word
<1> QED
  BY <1>3, <1>4, <1>5, WrapKeepsWords

(***************************************************************************)
(* What each kind of step does to the path.                                *)
(***************************************************************************)
\* A step that leaves the buffers' order, the targets and PC alone.
LEMMA PathKept ==
  ASSUME PathInvariant,
         UNCHANGED <<program, btb, FetchPC>>,
         DOMAIN rob' = DOMAIN rob, Len(rob') = Len(rob), Len(rob) \in Nat,
         DOMAIN rob = 1 .. Len(rob),
         \A i \in DOMAIN rob : rob'[i].rd = rob[i].rd /\ rob'[i].pc = rob[i].pc
  PROVE  PathInvariant'
<1>1. SUFFICES ASSUME WellFormed(program), NEW i \in DOMAIN rob
               PROVE  /\ Follower(rob', FetchPC, i) = Successor(btb, rob[i])
                      /\ rob[i].rd = "PC" /\ btb.mode = 0 => btb.targets[Slot(rob[i].pc)] # -1
  BY DEF PathInvariant, OnPath, Successor, InstructionAt
<1>2. Follower(rob', FetchPC, i) = Follower(rob, FetchPC, i)
  <2>1. CASE i < Len(rob)
    <3>1. i + 1 \in DOMAIN rob
      BY <2>1
    <3> QED
      BY <2>1, <3>1 DEF Follower
  <2>2. CASE ~(i < Len(rob))
    BY <2>2 DEF Follower
  <2> QED
    BY <2>1, <2>2
<1> QED
  BY <1>1, <1>2 DEF PathInvariant, OnPath

\* The oldest instruction leaves.
LEMMA PathPopped ==
  ASSUME TypeOK, PathInvariant, OldestIsDone, rob' = Tail(rob),
         UNCHANGED <<program, btb, FetchPC>>
  PROVE  PathInvariant'
<1>1. /\ Len(rob) \in Nat /\ DOMAIN rob = 1 .. Len(rob)
      /\ Len(rob') = Len(rob) - 1
      /\ DOMAIN rob' = 1 .. (Len(rob) - 1)
      /\ \A i \in 1 .. (Len(rob) - 1) : rob'[i] = rob[i + 1]
  BY OldestEntry DEF TypeOK, OldestIsDone
<1>2. SUFFICES ASSUME WellFormed(program), NEW i \in DOMAIN rob'
               PROVE  /\ Follower(rob', FetchPC, i) = Successor(btb, rob'[i])
                      /\ rob'[i].rd = "PC" /\ btb.mode = 0 => btb.targets[Slot(rob'[i].pc)] # -1
  BY DEF PathInvariant, OnPath, Successor, InstructionAt
<1>3. i + 1 \in DOMAIN rob /\ rob'[i] = rob[i + 1]
  BY <1>1
<1>4. Follower(rob', FetchPC, i) = Follower(rob, FetchPC, i + 1)
  <2>1. CASE i < Len(rob')
    <3>1. /\ i + 1 \in 1 .. (Len(rob) - 1) /\ i + 1 < Len(rob)
      BY <1>1, <2>1
    <3>2. rob'[i + 1] = rob[(i + 1) + 1]
      BY <1>1, <3>1
    <3> QED
      BY <2>1, <3>1, <3>2 DEF Follower
  <2>2. CASE ~(i < Len(rob'))
    BY <1>1, <2>2 DEF Follower
  <2> QED
    BY <2>1, <2>2
<1> QED
  BY <1>2, <1>3, <1>4 DEF PathInvariant, OnPath

\* An instruction is decoded at the end of the path.  If it is a branch whose
\* slot is shared with one in flight, that one's target stays.
LEMMA PathExtended ==
  ASSUME TypeOK, PathInvariant, NEW t,
         rob' = Append(rob, NewEntry(Fetched, t, FetchPC)),
         NewEntry(Fetched, t, FetchPC) \in ReorderBufferEntry,
         program' = program, btb'.mode = btb.mode,
         \A i \in DOMAIN rob :
            rob[i].rd = "PC" /\ btb.mode = 0 /\ btb.targets[Slot(rob[i].pc)] # -1
               => btb'.targets[Slot(rob[i].pc)] = btb.targets[Slot(rob[i].pc)],
         WellFormed(program) =>
            /\ FetchPC' = Successor(btb', NewEntry(Fetched, t, FetchPC))
            /\ Fetched.rd = "PC" /\ btb.mode = 0 => btb'.targets[Slot(FetchPC)] # -1
  PROVE  PathInvariant'
<1> DEFINE e == NewEntry(Fetched, t, FetchPC)
<1>1. e.pc = FetchPC /\ e.rd = Fetched.rd
  BY DEF NewEntry
<1> HIDE DEF e
<1>2. /\ rob \in Seq(ReorderBufferEntry) /\ Len(rob) \in Nat /\ DOMAIN rob = 1 .. Len(rob)
      /\ e \in ReorderBufferEntry /\ rob' = Append(rob, e)
  BY EntryTypes DEF TypeOK, e
<1>3. /\ DOMAIN rob' = 1 .. (Len(rob) + 1) /\ Len(rob') = Len(rob) + 1
      /\ \A k \in DOMAIN rob : rob'[k] = rob[k]
      /\ rob'[Len(rob) + 1] = e
  BY <1>2, AppendProperties
<1>4. SUFFICES ASSUME WellFormed(program), NEW i \in DOMAIN rob'
               PROVE  /\ Follower(rob', FetchPC', i) = Successor(btb', rob'[i])
                      /\ rob'[i].rd = "PC" /\ btb.mode = 0
                            => btb'.targets[Slot(rob'[i].pc)] # -1
  BY DEF PathInvariant, OnPath, Successor, InstructionAt
<1>5. CASE i = Len(rob) + 1
  <2>1. Follower(rob', FetchPC', i) = FetchPC'
    BY <1>2, <1>3, <1>5 DEF Follower
  <2> QED
    BY <1>1, <1>3, <1>4, <1>5, <2>1 DEF e
<1>6. CASE i \in DOMAIN rob
  <2>1. /\ Follower(rob, FetchPC, i) = Successor(btb, rob[i])
        /\ rob[i].rd = "PC" /\ btb.mode = 0 => btb.targets[Slot(rob[i].pc)] # -1
    BY <1>4, <1>6 DEF PathInvariant, OnPath
  <2>2. Follower(rob', FetchPC', i) = Follower(rob, FetchPC, i)
    <3>1. CASE i < Len(rob)
      <4>1. i + 1 \in DOMAIN rob
        BY <1>2, <1>6, <3>1
      <4> QED
        BY <1>2, <1>3, <1>6, <3>1, <4>1 DEF Follower
    <3>2. CASE i = Len(rob)
      BY <1>1, <1>2, <1>3, <3>2 DEF Follower
    <3> QED
      BY <1>2, <1>6, <3>1, <3>2
  <2>3. Successor(btb', rob[i]) = Successor(btb, rob[i])
    BY <1>6, <2>1 DEF Successor, InstructionAt
  <2> QED
    BY <1>3, <1>6, <2>1, <2>2, <2>3
<1> QED
  BY <1>2, <1>3, <1>5, <1>6

(***************************************************************************)
(* Every step keeps the path.                                              *)
(***************************************************************************)
LEMMA UnchangedPath ==
  ASSUME TypeOK, PathInvariant, UNCHANGED <<program, btb, FetchPC, rob>>
  PROVE  PathInvariant'
BY PathKept, EntryTypes

LEMMA CompletedPath ==
  ASSUME TypeOK, PathInvariant, NEW t, Completes(rob', t),
         UNCHANGED <<program, btb, FetchPC>>
  PROVE  PathInvariant'
BY PathKept, EntryTypes DEF Completes

LEMMA CommitKeepsPath == ASSUME TypeOK, PathInvariant, Commit PROVE PathInvariant'
<1>1. CASE CommitResult
  <2>1. "PC" \in Reg
    BY DEF Reg
  <2>2. FetchPC' = FetchPC
    BY <1>1, <2>1 DEF CommitResult, FetchPC, TypeOK
  <2> QED
    BY <1>1, <2>2, PathPopped DEF CommitResult, BroadcastAndPop
<1>2. CASE CommitBranch
  BY <1>2, PathPopped DEF CommitBranch, BroadcastAndPop, FetchPC
<1>3. CASE CommitStore
  BY <1>3, PathPopped DEF CommitStore, BroadcastAndPop, FetchPC
<1>4. CASE CommitStoreOutside
  BY <1>4, UnchangedPath DEF CommitStoreOutside, FetchPC
<1>5. CASE CommitMispredicted
  BY <1>5 DEF CommitMispredicted, PathInvariant, OnPath
<1>6. CASE CommitDone
  BY <1>6, UnchangedPath DEF CommitDone, FetchPC
<1> QED
  BY <1>1, <1>2, <1>3, <1>4, <1>5, <1>6 DEF Commit

LEMMA UnitsKeepPath == ASSUME TypeOK, PathInvariant, Adder \/ LoadStore PROVE PathInvariant'
<1>1. CASE AdderIdle \/ LoadStoreIdle \/ AddressCalculation \/ MemoryLoadFault
  BY <1>1, UnchangedPath
     DEF AdderIdle, LoadStoreIdle, AddressCalculation, MemoryLoadFault, FetchPC
<1>2. CASE AdderExecute
  <2> DEFINE result(t) == ALU(rs[t].op, rs[t].pcValue, rs[t].val1, rs[t].val2, rs[t].imm)
  <2>1. PICK t \in NextReady(unit) : rob' = WithResult(t, result(t))
    BY <1>2 DEF AdderExecute
  <2>2. t \in Tag
    BY DEF NextReady, ReadyStations, Stations
  <2>3. rs[t] \in ReservationStation
    BY <2>2 DEF TypeOK
  <2>4. result(t) \in Word
    BY <2>3, ALUIsWord DEF ReservationStation
  <2> HIDE DEF result
  <2>5. Completes(rob', t)
    BY <2>1, <2>4, CompletedResult DEF TypeOK
  <2> QED
    BY <1>2, <2>5, CompletedPath DEF AdderExecute, FetchPC
<1>3. CASE MemoryStore
  <2>1. unit \in Index(NumLoadStores)
    BY <1>3 DEF MemoryStore, TypeOK, Turns
  <2>2. lsu[unit].addr \in Word /\ lsu[unit].data \in Word
    BY <2>1 DEF TypeOK, LoadStoreUnit
  <2>3. Completes(rob', lsu[unit].tag)
    BY <1>3, <2>2, CompletedStore DEF MemoryStore, TypeOK
  <2> QED
    BY <1>3, <2>3, CompletedPath DEF MemoryStore, FetchPC
<1>4. CASE MemoryLoad
  <2>1. PICK v \in Loaded(lsu[unit].addr) : rob' = WithResult(lsu[unit].tag, v)
    BY <1>4 DEF MemoryLoad
  <2>2. v \in Word
    BY ConfigAssumption DEF Loaded, TypeOK
  <2>3. Completes(rob', lsu[unit].tag)
    BY <2>1, <2>2, CompletedResult DEF TypeOK
  <2> QED
    BY <1>4, <2>3, CompletedPath DEF MemoryLoad, FetchPC
<1> QED
  BY <1>1, <1>2, <1>3, <1>4 DEF Adder, LoadStore

\* What a decoder can rely on in a well-formed program.
LEMMA FetchedInside ==
  ASSUME TypeOK, InProgram(FetchPC), CanIssue, WellFormed(program)
  PROVE  /\ FetchPC \in Int /\ FetchPC + 1 # -1
         /\ InProgram(FetchPC + 1)
         /\ Fetched.rd = "PC" <=> Fetched.op \in BranchOps
         /\ Fetched.op \in BranchOps =>
               /\ InProgram(FetchPC + Fetched.imm)
               /\ Wrap(FetchPC + Fetched.imm) = FetchPC + Fetched.imm
               /\ FetchPC + Fetched.imm # -1
<1>1. FetchPC \in Int /\ Fetched = InstructionAt(FetchPC) /\ Fetched.op # "HLT"
  BY FetchTypes DEF Fetched, InstructionAt, CanIssue
<1>2. FetchPC + 1 # -1
  BY <1>1, ProgramTypes DEF InProgram, TypeOK
<1> HIDE DEF InProgram
<1> QED
  BY <1>1, <1>2, WellFormedFetch

LEMMA DecodeIssueKeepsPath == ASSUME TypeOK, PathInvariant, DecodeIssue PROVE PathInvariant'
<1>1. InProgram(FetchPC) /\ CanIssue /\ Fetched.op \notin BranchOps /\ btb' = btb
  BY DEF DecodeIssue
<1>2. PICK t \in StationToUse(RequiredType(Fetched.op)) : Issue(t)
  BY DEF DecodeIssue
<1>3. t \in Tag
  BY DEF StationToUse, FreeStations
<1> DEFINE e == NewEntry(Fetched, t, FetchPC)
<1>4. e \in ReorderBufferEntry /\ e.pc = FetchPC /\ e.rd = Fetched.rd
  BY <1>1, <1>3, FetchTypes, SmallWords DEF NewEntry, ReorderBufferEntry
<1>5. rob' = Append(rob, e) /\ program' = program
  BY <1>2 DEF Issue
<1>6. FetchPC' = FollowingPC
  BY DEF DecodeIssue, TypeOK, FetchPC, Reg
<1>7. ASSUME WellFormed(program)
      PROVE  FetchPC' = Successor(btb', e) /\ Fetched.rd # "PC"
  <2>1. Fetched.rd # "PC" /\ InProgram(FetchPC + 1) /\ FetchPC \in Int
    BY <1>1, <1>7, FetchedInside
  <2>2. DOMAIN program = 1 .. Len(program) /\ Len(program) \in Int
    BY ProgramTypes DEF TypeOK
  <2>3. FetchPC < Len(program) - 1
    BY <2>1, <2>2 DEF InProgram
  <2> QED
    BY <1>4, <1>6, <2>1, <2>3 DEF FollowingPC, Successor
<1> HIDE DEF e
<1> QED
  BY <1>1, <1>4, <1>5, <1>7, PathExtended DEF e

LEMMA DecodeBranchKeepsPath == ASSUME TypeOK, PathInvariant, DecodeBranch PROVE PathInvariant'
<1>1. InProgram(FetchPC) /\ CanIssue /\ Fetched.op \in BranchOps /\ btb' = RecordedBtb
  BY DEF DecodeBranch
<1>2. PICK t \in StationToUse("ADDER") : Issue(t)
  BY DEF DecodeBranch
<1>3. t \in Tag
  BY DEF StationToUse, FreeStations
<1> DEFINE e == NewEntry(Fetched, t, FetchPC)
<1>4. /\ e \in ReorderBufferEntry /\ e.pc = FetchPC /\ e.rd = Fetched.rd /\ Fetched.rd = "PC"
      /\ FetchPC \in Int
  BY <1>1, <1>3, FetchTypes, SmallWords DEF NewEntry, ReorderBufferEntry
<1>5. rob' = Append(rob, e) /\ program' = program
  BY <1>2 DEF Issue
<1>6. FetchPC' = PredictedPC
  BY DEF DecodeBranch, TypeOK, FetchPC, Reg
<1>7. /\ btb.mode \in 0 .. 2 /\ btb.targets \in [Slots -> Word]
      /\ Slot(FetchPC) \in Slots
      /\ btb = [mode |-> btb.mode, targets |-> btb.targets, bits |-> btb.bits]
  BY <1>4, SlotInRange, ConfigAssumption DEF TypeOK
<1>8. /\ btb'.mode = btb.mode
      /\ btb.mode = 0 => btb'.targets = [btb.targets EXCEPT ![Slot(FetchPC)] = PredictedPC]
  BY <1>1, <1>7 DEF RecordedBtb
<1>9. btb.mode = 0 /\ btb.targets[Slot(FetchPC)] # -1
        => PredictedPC = btb.targets[Slot(FetchPC)]
  BY DEF PredictedPC
<1>10. ASSUME NEW i \in DOMAIN rob, btb.mode = 0, btb.targets[Slot(rob[i].pc)] # -1
       PROVE  btb'.targets[Slot(rob[i].pc)] = btb.targets[Slot(rob[i].pc)]
  <2>1. Slot(rob[i].pc) \in Slots
    BY EntryTypes, SmallWords, SlotInRange
  <2> QED
    BY <1>7, <1>8, <1>9, <1>10, <2>1
<1>11. ASSUME WellFormed(program)
       PROVE  /\ FetchPC' = Successor(btb', e)
              /\ btb.mode = 0 => btb'.targets[Slot(FetchPC)] # -1
  <2>1. /\ FetchPC + 1 # -1 /\ Wrap(FetchPC + Fetched.imm) # -1
    BY <1>1, <1>11, FetchedInside
  <2>2. CASE btb.mode = 0
    <3>1. btb'.targets[Slot(FetchPC)] = PredictedPC
      BY <1>7, <1>8, <2>2
    <3>2. PredictedPC # -1
      BY <2>1, <2>2 DEF PredictedPC
    <3> QED
      BY <1>4, <1>6, <1>8, <2>2, <3>1, <3>2 DEF Successor
  <2>3. CASE btb.mode = 1
    BY <1>4, <1>6, <1>8, <2>3 DEF Successor, PredictedPC, Fetched, InstructionAt
  <2>4. CASE btb.mode = 2
    BY <1>4, <1>6, <1>8, <2>4 DEF Successor, PredictedPC
  <2> QED
    BY <1>7, <2>2, <2>3, <2>4
<1> HIDE DEF e
<1> QED
  BY <1>4, <1>5, <1>8, <1>10, <1>11, PathExtended DEF e

LEMMA PathStep == ASSUME TypeOK, PathInvariant, [Next]_vars PROVE PathInvariant'
<1>1. CASE Commit
  BY <1>1, CommitKeepsPath
<1>2. CASE Adder \/ LoadStore
  BY <1>2, UnitsKeepPath
<1>3. CASE DecodeIssue
  BY <1>3, DecodeIssueKeepsPath
<1>4. CASE DecodeBranch
  BY <1>4, DecodeBranchKeepsPath
<1>5. CASE FetchFault \/ DecodeStall
  BY <1>5, UnchangedPath DEF FetchFault, DecodeStall, FetchPC
<1>6. CASE EndCycle \/ EndRun \/ Stopped \/ UNCHANGED vars
  BY <1>6, UnchangedPath DEF EndCycle, EndRun, Stopped, vars, FetchPC
<1> QED
  BY <1>1, <1>2, <1>3, <1>4, <1>5, <1>6 DEF Next, Step, Decode

\* What is in flight behind a branch is what commit will compare it with,
\* whichever branches share its slot and however late it is resolved.
THEOREM PathIsWhatCommitAccepts == Spec => []SpeculationPath
<1>1. Init => PathInvariant
  BY DEF Init, PathInvariant, OnPath
<1>2. TypeOK /\ PathInvariant /\ [Next]_vars => PathInvariant'
  BY PathStep
<1>3. TypeOK /\ PathInvariant => SpeculationPath
  BY PathIsAccepted
<1> QED
  BY <1>1, <1>2, <1>3, TypeCorrectness, PTL DEF Spec

(***************************************************************************)
(* Fetching.  What fetch may be sent to is in the program: the targets     *)
(* that are stored, and the results of finished branches.                  *)
(***************************************************************************)
BranchesInside(entries) ==
    \A i \in DOMAIN entries :
        entries[i].rd = "PC" /\ entries[i].valid => InProgram(entries[i].val)

BoundsInvariant ==
    WellFormed(program) =>
        /\ InProgram(FetchPC)
        /\ btb.mode = 0 => \A k \in Slots : btb.targets[k] = -1 \/ InProgram(btb.targets[k])
        /\ BranchesInside(rob)

\* The words of the target arrays that the constructor does not reach hold
\* no target, or one in the program, as a block of zeroes does.
OverrunInside == \A w \in BtbOverrun, p \in Programs : w = -1 \/ w + 1 \in DOMAIN p

LEMMA InitBounds == ASSUME OverrunInside, Init PROVE BoundsInvariant
<1>1. FetchPC = 0
  BY DEF Init, FetchPC, Reg
<1>2. InProgram(FetchPC)
  BY <1>1, ProgramTypes DEF Init, InProgram
<1>3. \A k \in Slots : btb.targets[k] = -1 \/ InProgram(btb.targets[k])
  <2>1. PICK mode \in BpModes, target \in BtbOverrun, bits \in BtbOverrun :
          btb = [mode    |-> mode,
                 targets |-> [k \in Slots |-> IF k < BtbSize THEN -1 ELSE target],
                 bits    |-> [k \in Slots |-> IF k < BtbSize THEN DefaultBits(mode)
                                                            ELSE bits]]
    BY DEF Init
  <2>2. target = -1 \/ InProgram(target)
    BY DEF Init, OverrunInside, InProgram
  <2> QED
    BY <2>1, <2>2
<1> QED
  BY <1>2, <1>3 DEF BoundsInvariant, BranchesInside, Init

LEMMA UnchangedBounds ==
  ASSUME BoundsInvariant, UNCHANGED <<program, btb, FetchPC, rob>>
  PROVE  BoundsInvariant'
BY DEF BoundsInvariant, BranchesInside, InProgram

\* An answer to a branch must be in the program.
LEMMA CompletedBounds ==
  ASSUME BoundsInvariant, NEW t, Completes(rob', t),
         UNCHANGED <<program, btb, FetchPC>>,
         WellFormed(program) =>
            \A i \in DOMAIN rob :
                rob[i].tag = t /\ rob[i].rd = "PC" => InProgram(rob'[i].val)
  PROVE  BoundsInvariant'
BY DEF BoundsInvariant, BranchesInside, InProgram, Completes

LEMMA PoppedBounds ==
  ASSUME TypeOK, BoundsInvariant, OldestIsDone, rob' = Tail(rob),
         UNCHANGED <<program, btb, FetchPC>>
  PROVE  BoundsInvariant'
<1>1. /\ Len(rob) \in Nat /\ DOMAIN rob = 1 .. Len(rob)
      /\ DOMAIN rob' = 1 .. (Len(rob) - 1)
      /\ \A i \in 1 .. (Len(rob) - 1) : rob'[i] = rob[i + 1]
  BY OldestEntry DEF TypeOK, OldestIsDone
<1>2. \A i \in DOMAIN rob' : i + 1 \in DOMAIN rob /\ rob'[i] = rob[i + 1]
  BY <1>1
<1> QED
  BY <1>2 DEF BoundsInvariant, BranchesInside, InProgram

\* A branch that was mispredicted sends fetch, and its slot, to its result.
LEMMA FlushedBounds ==
  ASSUME TypeOK, BoundsInvariant, CommitMispredicted
  PROVE  BoundsInvariant'
<1> DEFINE e == Head(rob)
<1>1. e = rob[1] /\ 1 \in DOMAIN rob /\ e.rd = "PC" /\ e.valid
  BY OldestEntry DEF CommitMispredicted, OldestIsDone, Mispredicted, TypeOK
<1>2. FetchPC' = e.val /\ btb' = TrainedBtb(e) /\ rob' = << >> /\ program' = program
  BY DEF CommitMispredicted, FetchPC, TypeOK, Reg
<1> HIDE DEF e
<1>3. ASSUME WellFormed(program)
      PROVE  InProgram(e.val)
  BY <1>1, <1>3 DEF BoundsInvariant, BranchesInside
<1>4. /\ btb.targets \in [Slots -> Word]
      /\ btb = [mode |-> btb.mode, targets |-> btb.targets, bits |-> btb.bits]
  BY DEF TypeOK
<1>5. /\ btb'.mode = btb.mode
      /\ btb.mode = 0 => btb'.targets = [btb.targets EXCEPT ![Slot(e.pc)] = e.val]
  BY <1>2, <1>4 DEF TrainedBtb
<1>6. ASSUME WellFormed(program), btb.mode = 0, NEW k \in Slots
      PROVE  btb'.targets[k] = -1 \/ InProgram(btb'.targets[k])
  BY <1>3, <1>4, <1>5, <1>6 DEF BoundsInvariant
<1>7. BranchesInside(rob)'
  BY <1>2 DEF BranchesInside
<1> QED
  BY <1>2, <1>3, <1>5, <1>6, <1>7 DEF BoundsInvariant, InProgram

LEMMA CommitKeepsBounds == ASSUME TypeOK, BoundsInvariant, Commit PROVE BoundsInvariant'
<1>1. CASE CommitResult
  <2>1. FetchPC' = FetchPC
    BY <1>1 DEF CommitResult, FetchPC, TypeOK, Reg
  <2> QED
    BY <1>1, <2>1, PoppedBounds DEF CommitResult, BroadcastAndPop
<1>2. CASE CommitBranch
  BY <1>2, PoppedBounds DEF CommitBranch, BroadcastAndPop, FetchPC
<1>3. CASE CommitStore
  BY <1>3, PoppedBounds DEF CommitStore, BroadcastAndPop, FetchPC
<1>4. CASE CommitStoreOutside
  BY <1>4, UnchangedBounds DEF CommitStoreOutside, FetchPC
<1>5. CASE CommitMispredicted
  BY <1>5, FlushedBounds
<1>6. CASE CommitDone
  BY <1>6, UnchangedBounds DEF CommitDone, FetchPC
<1> QED
  BY <1>1, <1>2, <1>3, <1>4, <1>5, <1>6 DEF Commit

\* A branch in flight evaluates to its target or to what follows it.
LEMMA BranchResult ==
  ASSUME DataflowInvariant, WellFormed(program), NEW i \in DOMAIN rob, rob[i].rd = "PC"
  PROVE  LET s == rs[rob[i].tag]
         IN  InProgram(ALU(s.op, s.pcValue, s.val1, s.val2, s.imm))
<1> DEFINE s == rs[rob[i].tag]
           ins == InstructionAt(rob[i].pc)
<1>1. /\ InProgram(rob[i].pc) /\ ins.rd = "PC" /\ s.op = ins.op
      /\ s.imm = ins.imm /\ s.pcValue = rob[i].pc
  BY DEF DataflowInvariant, CarriesInstruction
<1>2. TypeOK /\ rob[i].pc \in Int
  BY EntryTypes, SmallWords DEF DataflowInvariant
<1>3. ins.op \in BranchOps
  BY <1>1 DEF WellFormed, InstructionAt, InProgram
<1>4. /\ InProgram(rob[i].pc + 1) /\ Wrap(rob[i].pc + 1) = rob[i].pc + 1
      /\ InProgram(rob[i].pc + ins.imm) /\ Wrap(rob[i].pc + ins.imm) = rob[i].pc + ins.imm
  <2>1. ins.op # "HLT"
    BY <1>3 DEF BranchOps
  <2> HIDE DEF InProgram
  <2> QED
    BY <1>1, <1>2, <1>3, <2>1, WellFormedFetch
<1> HIDE DEF ins, s
<1>5. ALU(s.op, s.pcValue, s.val1, s.val2, s.imm) \in {Wrap(rob[i].pc + 1), Wrap(rob[i].pc + ins.imm)}
  BY <1>1, <1>3 DEF ALU, BranchOps, BitOps
<1> QED
  BY <1>4, <1>5 DEF s

LEMMA AdderKeepsBounds ==
  ASSUME DataflowInvariant, BoundsInvariant, Adder
  PROVE  BoundsInvariant'
<1>1. CASE AdderIdle
  BY <1>1, UnchangedBounds DEF AdderIdle, FetchPC
<1>2. CASE AdderExecute
  <2> DEFINE result(t) == ALU(rs[t].op, rs[t].pcValue, rs[t].val1, rs[t].val2, rs[t].imm)
  <2>1. PICK t \in NextReady(unit) : rob' = WithResult(t, result(t))
    BY <1>2 DEF AdderExecute
  <2>2. t \in Tag /\ TypeOK
    BY DEF NextReady, ReadyStations, Stations, DataflowInvariant
  <2>3. rs[t] \in ReservationStation
    BY <2>2 DEF TypeOK
  <2>4. result(t) \in Word
    BY <2>3, ALUIsWord DEF ReservationStation
  <2>5. Completes(rob', t)
    BY <2>1, <2>2, <2>4, CompletedResult DEF TypeOK
  <2>6. ASSUME WellFormed(program), NEW i \in DOMAIN rob, rob[i].tag = t, rob[i].rd = "PC"
        PROVE  InProgram(rob'[i].val)
    <3>1. InProgram(result(t))
      BY <2>6, BranchResult
    <3> HIDE DEF result
    <3>2. rob[i] \in ReorderBufferEntry
      BY <2>2, EntryTypes
    <3>3. rob'[i].val = result(t)
      BY <2>1, <2>6, <3>2 DEF WithResult, ReorderBufferEntry
    <3> QED
      BY <3>1, <3>3
  <2> QED
    BY <1>2, <2>5, <2>6, CompletedBounds DEF AdderExecute, FetchPC
<1> QED
  BY <1>1, <1>2 DEF Adder

\* A load/store unit never answers for a branch.
LEMMA AnsweredIsNoBranch ==
  ASSUME DataflowInvariant, WellFormed(program), stage = "loadstore",
         lsu[unit].phase = "MEMORY_OPERATION", lsu[unit].op \in MemOps,
         NEW i \in DOMAIN rob, rob[i].tag = lsu[unit].tag
  PROVE  rob[i].rd # "PC"
<1>1. unit \in Index(NumLoadStores)
  BY DEF DataflowInvariant, TypeOK, Turns
<1>2. PICK k \in DOMAIN rob : rob[k].tag = lsu[unit].tag /\ rob[k].op = lsu[unit].op
  BY <1>1 DEF DataflowInvariant, ExecutionOwnership
<1>3. k = i
  BY <1>2 DEF DataflowInvariant, TagDiscipline
<1>4. rob[i].op \notin BranchOps
  BY <1>2, <1>3 DEF MemOps, BranchOps
<1>5. /\ rob[i].pc + 1 \in DOMAIN program
      /\ rob[i].op = program[rob[i].pc + 1].op /\ rob[i].rd = program[rob[i].pc + 1].rd
  BY DEF DataflowInvariant, CarriesInstruction, InstructionAt, InProgram
<1> QED
  BY <1>4, <1>5 DEF WellFormed

LEMMA LoadStoreKeepsBounds ==
  ASSUME DataflowInvariant, BoundsInvariant, LoadStore
  PROVE  BoundsInvariant'
<1>0. TypeOK
  BY DEF DataflowInvariant
<1>1. CASE LoadStoreIdle \/ AddressCalculation \/ MemoryLoadFault
  BY <1>1, UnchangedBounds DEF LoadStoreIdle, AddressCalculation, MemoryLoadFault, FetchPC
<1>2. CASE MemoryStore
  <2>1. unit \in Index(NumLoadStores)
    BY <1>0, <1>2 DEF MemoryStore, TypeOK, Turns
  <2>2. lsu[unit].addr \in Word /\ lsu[unit].data \in Word
    BY <1>0, <2>1 DEF TypeOK, LoadStoreUnit
  <2>3. Completes(rob', lsu[unit].tag)
    BY <1>0, <1>2, <2>2, CompletedStore DEF MemoryStore, TypeOK
  <2>4. WellFormed(program) => \A i \in DOMAIN rob :
           rob[i].tag = lsu[unit].tag => rob[i].rd # "PC"
    BY <1>2, AnsweredIsNoBranch DEF MemoryStore, MemOps
  <2> QED
    BY <1>2, <2>3, <2>4, CompletedBounds DEF MemoryStore, FetchPC
<1>3. CASE MemoryLoad
  <2>1. PICK v \in Loaded(lsu[unit].addr) : rob' = WithResult(lsu[unit].tag, v)
    BY <1>3 DEF MemoryLoad
  <2>2. v \in Word
    BY <1>0, ConfigAssumption DEF Loaded, TypeOK
  <2>3. Completes(rob', lsu[unit].tag)
    BY <1>0, <2>1, <2>2, CompletedResult DEF TypeOK
  <2>4. WellFormed(program) => \A i \in DOMAIN rob :
           rob[i].tag = lsu[unit].tag => rob[i].rd # "PC"
    BY <1>3, AnsweredIsNoBranch DEF MemoryLoad, MemOps
  <2> QED
    BY <1>3, <2>3, <2>4, CompletedBounds DEF MemoryLoad, FetchPC
<1> QED
  BY <1>1, <1>2, <1>3 DEF LoadStore

\* A new entry is not finished.
LEMMA ExtendedBranches ==
  ASSUME TypeOK, InProgram(FetchPC), BranchesInside(rob), program' = program,
         NEW t \in Tag, Issue(t)
  PROVE  BranchesInside(rob)'
<1> DEFINE e == NewEntry(Fetched, t, FetchPC)
<1>1. e \in ReorderBufferEntry /\ ~e.valid
  BY FetchTypes, SmallWords DEF NewEntry, ReorderBufferEntry
<1>2. rob' = Append(rob, e) /\ rob \in Seq(ReorderBufferEntry)
  BY DEF Issue, TypeOK
<1> HIDE DEF e
<1>3. /\ Len(rob) \in Nat /\ DOMAIN rob = 1 .. Len(rob)
      /\ DOMAIN rob' = 1 .. (Len(rob) + 1)
      /\ \A k \in DOMAIN rob : rob'[k] = rob[k]
      /\ rob'[Len(rob) + 1] = e
  BY <1>1, <1>2, AppendProperties
<1>4. \A i \in DOMAIN rob' : i \in DOMAIN rob \/ rob'[i] = e
  BY <1>3
<1> QED
  BY <1>1, <1>3, <1>4 DEF BranchesInside, InProgram

LEMMA DecodeKeepsBounds ==
  ASSUME TypeOK, BoundsInvariant, Decode
  PROVE  BoundsInvariant'
<1>1. CASE FetchFault \/ DecodeStall
  BY <1>1, UnchangedBounds DEF FetchFault, DecodeStall, FetchPC
<1>2. CASE DecodeIssue
  <2>1. InProgram(FetchPC) /\ CanIssue /\ Fetched.op \notin BranchOps /\ btb' = btb
    BY <1>2 DEF DecodeIssue
  <2>2. PICK t \in Tag : Issue(t)
    BY <1>2 DEF DecodeIssue, StationToUse, FreeStations
  <2>3. program' = program /\ FetchPC' = FollowingPC
    BY <1>2, <2>2 DEF Issue, DecodeIssue, TypeOK, FetchPC, Reg
  <2>4. ASSUME WellFormed(program)
        PROVE  InProgram(FollowingPC) /\ BranchesInside(rob)'
    BY <2>1, <2>2, <2>3, <2>4, FetchedInside, ExtendedBranches
       DEF FollowingPC, BoundsInvariant
  <2> QED
    BY <2>1, <2>3, <2>4 DEF BoundsInvariant, InProgram
<1>3. CASE DecodeBranch
  <2>1. InProgram(FetchPC) /\ CanIssue /\ Fetched.op \in BranchOps /\ btb' = RecordedBtb
    BY <1>3 DEF DecodeBranch
  <2>2. PICK t \in Tag : Issue(t)
    BY <1>3 DEF DecodeBranch, StationToUse, FreeStations
  <2>3. program' = program /\ FetchPC' = PredictedPC
    BY <1>3, <2>2 DEF Issue, DecodeBranch, TypeOK, FetchPC, Reg
  <2>4. /\ btb.mode \in 0 .. 2 /\ btb.targets \in [Slots -> Word]
        /\ Slot(FetchPC) \in Slots
        /\ btb = [mode |-> btb.mode, targets |-> btb.targets, bits |-> btb.bits]
    BY <2>1, FetchTypes, SlotInRange, ConfigAssumption DEF TypeOK
  <2>5. /\ btb'.mode = btb.mode
        /\ btb.mode = 0 => btb'.targets = [btb.targets EXCEPT ![Slot(FetchPC)] = PredictedPC]
    BY <2>1, <2>4 DEF RecordedBtb
  <2>6. ASSUME WellFormed(program)
        PROVE  InProgram(PredictedPC) /\ BranchesInside(rob)'
    <3>1. /\ InProgram(FetchPC + 1) /\ InProgram(FetchPC + Fetched.imm)
          /\ Wrap(FetchPC + Fetched.imm) = FetchPC + Fetched.imm
      BY <2>1, <2>6, FetchedInside
    <3>2. btb.mode = 0 /\ btb.targets[Slot(FetchPC)] # -1
            => InProgram(btb.targets[Slot(FetchPC)])
      BY <2>4, <2>6 DEF BoundsInvariant
    <3>3. btb.mode = 0 \/ btb.mode = 1 \/ btb.mode = 2
      BY <2>4
    <3>4. InProgram(PredictedPC)
      BY <3>1, <3>2, <3>3 DEF PredictedPC
    <3>5. BranchesInside(rob)'
      BY <2>1, <2>2, <2>3, <2>6, ExtendedBranches DEF BoundsInvariant
    <3> QED
      BY <3>4, <3>5
  <2> QED
    BY <2>3, <2>4, <2>5, <2>6 DEF BoundsInvariant, InProgram
<1> QED
  BY <1>1, <1>2, <1>3 DEF Decode

LEMMA BoundsStep ==
  ASSUME DataflowInvariant, BoundsInvariant, [Next]_vars
  PROVE  BoundsInvariant'
<1>0. TypeOK
  BY DEF DataflowInvariant
<1>1. CASE Commit
  BY <1>0, <1>1, CommitKeepsBounds
<1>2. CASE Adder
  BY <1>2, AdderKeepsBounds
<1>3. CASE LoadStore
  BY <1>3, LoadStoreKeepsBounds
<1>4. CASE Decode
  BY <1>0, <1>4, DecodeKeepsBounds
<1>5. CASE EndCycle \/ EndRun \/ Stopped \/ UNCHANGED vars
  BY <1>5, UnchangedBounds DEF EndCycle, EndRun, Stopped, vars, FetchPC
<1> QED
  BY <1>1, <1>2, <1>3, <1>4, <1>5 DEF Next, Step

\* No stored target, stale or of another branch, no result and no flush sends
\* fetch out of a well-formed program, unless the word behind the arrays does.
THEOREM FetchStaysInside == ASSUME OverrunInside PROVE Spec => []FetchInBounds
<1>1. Init => BoundsInvariant
  BY InitBounds
<1>2. DataflowInvariant /\ BoundsInvariant /\ [Next]_vars => BoundsInvariant'
  BY BoundsStep
<1>3. BoundsInvariant => FetchInBounds
  BY DEF BoundsInvariant, FetchInBounds
<1> QED
  BY <1>1, <1>2, <1>3, Dataflow, PTL DEF Spec

(***************************************************************************)
(* Values.  What a finished entry holds is what its instruction computes   *)
(* from the operands in its station, which no broadcast changes any more,  *)
(* and what a load has read is what memory still holds.                    *)
(***************************************************************************)
RegularPrograms == \A p \in Programs : Regular(p)

SeparatePrograms == \A p \in Programs : Separate(p)

AddressOf(s) == EffectiveAddress(s.op, s.val1, s.val2, s.imm)

ReadFrom(mem, a) == IF a \in Address THEN {mem[a]} ELSE Garbage

Computed(mem, e, s) ==
    CASE e.op = "SW" -> e.addr = AddressOf(s) /\ e.data = s.val1
      [] e.op = "LW" -> e.val \in ReadFrom(mem, AddressOf(s))
      [] OTHER -> e.val = ALU(s.op, s.pcValue, s.val1, s.val2, s.imm)

\* A step leaves the words that finished loads in flight have read.
LoadsKept ==
    \A i \in DOMAIN rob :
        rob[i].op = "LW" /\ rob[i].valid =>
            ReadFrom(memory', AddressOf(rs[rob[i].tag]))
               = ReadFrom(memory, AddressOf(rs[rob[i].tag]))

ResultsAreComputed ==
    \A i \in DOMAIN rob : rob[i].valid => Computed(memory, rob[i], rs[rob[i].tag])

UnitsHoldOperands ==
    \A u \in Index(NumLoadStores) :
        lsu[u].phase = "MEMORY_OPERATION" =>
            LET s == rs[lsu[u].tag]
            IN  lsu[u].op = s.op /\ lsu[u].addr = AddressOf(s) /\ lsu[u].data = s.val1

BusyHasOperands ==
    \A t \in Tag : rs[t].busy => rs[t].source1 = NoTag /\ rs[t].source2 = NoTag

ReadsZero(ins, s) ==
    /\ ins.rs1 = "ZERO" => s.val1 = 0
    /\ ins.rs2 = "ZERO" => s.val2 = 0

ZeroIsZero ==
    /\ physicalRegisters["ZERO"] = 0 /\ rst["ZERO"].value = 0
    /\ \A i \in DOMAIN rob : ReadsZero(InstructionAt(rob[i].pc), rs[rob[i].tag])

EntryKinds ==
    \A i \in DOMAIN rob :
        /\ rob[i].tag.kind = RequiredType(rob[i].op)
        /\ rob[i].op \notin {"NOP", "HLT"}

ValueInvariant ==
    /\ ResultsAreComputed
    /\ UnitsHoldOperands
    /\ BusyHasOperands
    /\ ZeroIsZero
    /\ EntryKinds

LEMMA InitValues == Init => ValueInvariant
<1> SUFFICES ASSUME Init PROVE ValueInvariant
  OBVIOUS
<1>1. rob = << >> /\ physicalRegisters["ZERO"] = 0 /\ rst["ZERO"].value = 0
  BY DEF Init, Reg
<1>2. \A t \in Tag : ~rs[t].busy
  BY DEF Init, FreshStation
<1>3. \A u \in Index(NumLoadStores) : lsu[u].phase = "ADDR_CALC"
  BY DEF Init, IdleUnit
<1> QED
  BY <1>1, <1>2, <1>3 DEF ValueInvariant, ResultsAreComputed, UnitsHoldOperands,
     BusyHasOperands, ZeroIsZero, EntryKinds

(***************************************************************************)
(* Stations.                                                               *)
(***************************************************************************)
\* Station n is s, with no operand changed that has arrived.
Keeping(s, n) ==
    /\ n.op = s.op /\ n.imm = s.imm /\ n.pcValue = s.pcValue
    /\ s.source1 = NoTag => n.source1 = NoTag /\ n.val1 = s.val1
    /\ s.source2 = NoTag => n.source2 = NoTag /\ n.val2 = s.val2

\* A broadcast leaves every station but the owner's what it is, and busy.
LEMMA BroadcastIsKeeping ==
  ASSUME NEW table \in [Tag -> ReservationStation], NEW t \in Tag, NEW v \in Word,
         NEW u \in Tag
  PROVE  LET n == BroadcastToStations(table, t, v)[u]
         IN  /\ u # t => Keeping(table[u], n) /\ n.busy = table[u].busy
             /\ u = t => ~n.busy
<1>1. /\ table[u] \in ReservationStation
      /\ Snooped(table[u], t, v) \in ReservationStation
  BY StationTypes
<1>2. Cleared(Snooped(table[u], t, v)).busy = FALSE
  BY <1>1, ClearedFields
<1>3. CASE u = t
  BY <1>2, <1>3 DEF BroadcastToStations
<1>4. CASE u # t
  <2>1. BroadcastToStations(table, t, v)[u] = Snooped(table[u], t, v)
    BY <1>4 DEF BroadcastToStations
  <2>2. NoTag # t
    BY TagsDiffer
  <2> QED
    BY <1>1, <1>4, <2>1, <2>2, SnoopedFields DEF Keeping
<1> QED
  BY <1>3, <1>4

\* A result stays what is computed while its station and its word are kept.
LEMMA KeepingComputed ==
  ASSUME NEW m1, NEW m2, NEW e, NEW s, NEW n, Keeping(s, n),
         s.source1 = NoTag, s.source2 = NoTag,
         e.op = "LW" => ReadFrom(m2, AddressOf(s)) = ReadFrom(m1, AddressOf(s)),
         Computed(m1, e, s)
  PROVE  Computed(m2, e, n)
<1>1. /\ n.op = s.op /\ n.imm = s.imm /\ n.pcValue = s.pcValue
      /\ n.val1 = s.val1 /\ n.val2 = s.val2
  BY DEF Keeping
<1>2. AddressOf(n) = AddressOf(s)
  BY <1>1 DEF AddressOf
<1> HIDE DEF AddressOf
<1> QED
  BY <1>1, <1>2 DEF Computed

\* An entry e that stays, with its station kept as n, keeps its values, if
\* memory m has the word it loads.
LEMMA EntryKept ==
  ASSUME DataflowInvariant, ValueInvariant, NEW i \in DOMAIN rob, NEW e, NEW n, NEW m,
         e.op = rob[i].op, e.tag = rob[i].tag, e.pc = rob[i].pc,
         Keeping(rs[rob[i].tag], n)
  PROVE  /\ ReadsZero(InstructionAt(e.pc), n)
         /\ e.tag.kind = RequiredType(e.op) /\ e.op \notin {"NOP", "HLT"}
         /\ /\ rob[i].valid /\ e = rob[i]
            /\ e.op = "LW" => ReadFrom(m, AddressOf(rs[rob[i].tag]))
                                 = ReadFrom(memory, AddressOf(rs[rob[i].tag]))
            => Computed(m, e, n)
<1> DEFINE s == rs[rob[i].tag]
           ins == InstructionAt(rob[i].pc)
<1>1. ReadsZero(ins, s) /\ rob[i].tag.kind = RequiredType(rob[i].op)
      /\ rob[i].op \notin {"NOP", "HLT"}
  BY DEF ValueInvariant, ZeroIsZero, EntryKinds
<1>2. /\ ins.rs1 = "ZERO" => s.source1 = NoTag
      /\ ins.rs2 = "ZERO" => s.source2 = NoTag
  BY RegAssumption DEF DataflowInvariant, OperandFlow, OperandBound
<1>3. ReadsZero(ins, n)
  BY <1>1, <1>2 DEF ReadsZero, Keeping
<1>4. ASSUME rob[i].valid, e = rob[i],
             e.op = "LW" => ReadFrom(m, AddressOf(s)) = ReadFrom(memory, AddressOf(s))
      PROVE  Computed(m, e, n)
  <2>1. s.busy /\ rob[i].tag \in Tag
    BY <1>4, EntryTypes DEF DataflowInvariant, ExecutionOwnership
  <2>2. s.source1 = NoTag /\ s.source2 = NoTag
    BY <2>1 DEF ValueInvariant, BusyHasOperands
  <2>3. Computed(memory, rob[i], s)
    BY <1>4 DEF ValueInvariant, ResultsAreComputed
  <2> HIDE DEF s
  <2> QED
    BY <1>4, <2>2, <2>3, KeepingComputed DEF s
<1> QED
  BY <1>1, <1>3, <1>4

\* So does what a unit holds between its two cycles.
UnitHolds(unitLatch, s) ==
    unitLatch.op = s.op /\ unitLatch.addr = AddressOf(s) /\ unitLatch.data = s.val1

LEMMA UnitKept ==
  ASSUME DataflowInvariant, ValueInvariant, NEW u \in Index(NumLoadStores),
         lsu[u].phase = "MEMORY_OPERATION", NEW n, Keeping(rs[lsu[u].tag], n)
  PROVE  UnitHolds(lsu[u], n)
<1> DEFINE s == rs[lsu[u].tag]
<1>1. PICK i \in DOMAIN rob : rob[i].tag = lsu[u].tag /\ s.busy
  BY DEF DataflowInvariant, ExecutionOwnership
<1>2. rob[i].tag \in Tag
  BY EntryTypes DEF DataflowInvariant
<1>3. s.source1 = NoTag /\ s.source2 = NoTag /\ Keeping(s, n)
  BY <1>1, <1>2 DEF ValueInvariant, BusyHasOperands
<1>4. lsu[u].op = s.op /\ lsu[u].addr = AddressOf(s) /\ lsu[u].data = s.val1
  BY DEF ValueInvariant, UnitsHoldOperands
<1> HIDE DEF s
<1> QED
  BY <1>3, <1>4 DEF Keeping, AddressOf, UnitHolds

\* The invariant of the next state, entry by entry and unit by unit.
LEMMA NextValues ==
  ASSUME program' = program,
         \A j \in DOMAIN rob' :
            /\ ReadsZero(InstructionAt(rob'[j].pc), rs'[rob'[j].tag])
            /\ rob'[j].tag.kind = RequiredType(rob'[j].op)
            /\ rob'[j].op \notin {"NOP", "HLT"}
            /\ rob'[j].valid => Computed(memory', rob'[j], rs'[rob'[j].tag]),
         \A u \in Index(NumLoadStores) :
            lsu'[u].phase = "MEMORY_OPERATION" => UnitHolds(lsu'[u], rs'[lsu'[u].tag]),
         \A t \in Tag : rs'[t].busy => rs'[t].source1 = NoTag /\ rs'[t].source2 = NoTag,
         physicalRegisters'["ZERO"] = 0, rst'["ZERO"].value = 0
  PROVE  ValueInvariant'
<1>1. ResultsAreComputed'
  BY DEF ResultsAreComputed, Computed, ReadFrom
<1>2. UnitsHoldOperands'
  BY DEF UnitsHoldOperands, UnitHolds
<1>3. BusyHasOperands'
  BY DEF BusyHasOperands
<1>4. ZeroIsZero'
  BY DEF ZeroIsZero, ReadsZero, InstructionAt
<1>5. EntryKinds'
  BY DEF EntryKinds
<1> QED
  BY <1>1, <1>2, <1>3, <1>4, <1>5 DEF ValueInvariant

(***************************************************************************)
(* What each kind of step does to the values.                              *)
(***************************************************************************)
\* The oldest entry leaves and broadcasts.  A store may change memory, but no
\* word that a finished load has read.
LEMMA PopValues ==
  ASSUME DataflowInvariant, ValueInvariant, OldestIsDone, BroadcastAndPop(Head(rob)),
         LoadsKept, physicalRegisters'["ZERO"] = 0
  PROVE  ValueInvariant'
<1> DEFINE t == rob[1].tag
           v == rob[1].val
<1>1. /\ Len(rob) \in Nat /\ DOMAIN rob = 1 .. Len(rob) /\ 1 \in DOMAIN rob
      /\ Head(rob) = rob[1] /\ rob' = Tail(rob) /\ rob[1].valid
      /\ DOMAIN rob' = 1 .. (Len(rob) - 1)
      /\ \A i \in 1 .. (Len(rob) - 1) : rob'[i] = rob[i + 1]
  BY OldestEntry DEF DataflowInvariant, TypeOK, OldestIsDone, BroadcastAndPop
<1>2. /\ t \in Tag /\ t # NoTag /\ v \in Word
      /\ rs \in [Tag -> ReservationStation]
  BY <1>1, EntryTypes DEF DataflowInvariant, TypeOK
<1>3. /\ rs' = BroadcastToStations(rs, t, v)
      /\ rst' = BroadcastToRegisters(rst, t, v)
      /\ program' = program /\ lsu' = lsu
  BY <1>1 DEF BroadcastAndPop
<1> HIDE DEF t, v
<1>4. \A u \in Tag : /\ u # t => Keeping(rs[u], rs'[u]) /\ rs'[u].busy = rs[u].busy
                     /\ u = t => ~rs'[u].busy
  BY <1>2, <1>3, BroadcastIsKeeping
<1>5. ASSUME NEW j \in DOMAIN rob'
      PROVE  /\ ReadsZero(InstructionAt(rob'[j].pc), rs'[rob'[j].tag])
             /\ rob'[j].tag.kind = RequiredType(rob'[j].op)
             /\ rob'[j].op \notin {"NOP", "HLT"}
             /\ rob'[j].valid => Computed(memory', rob'[j], rs'[rob'[j].tag])
  <2>1. /\ j + 1 \in DOMAIN rob /\ j + 1 # 1 /\ rob'[j] = rob[j + 1]
    BY <1>1
  <2> DEFINE k == j + 1
  <2>2. k \in DOMAIN rob /\ k # 1 /\ rob'[j] = rob[k]
    BY <2>1
  <2> HIDE DEF k
  <2>3. rob[k].tag # t /\ rob[k].tag \in Tag
    BY <1>1, <2>2, EntryTypes DEF DataflowInvariant, TagDiscipline, t
  <2>4. Keeping(rs[rob[k].tag], rs'[rob[k].tag])
    BY <1>4, <2>3
  <2>5. rob[k].op = "LW" /\ rob[k].valid =>
          ReadFrom(memory', AddressOf(rs[rob[k].tag]))
             = ReadFrom(memory, AddressOf(rs[rob[k].tag]))
    BY <2>2 DEF LoadsKept
  <2> QED
    BY <2>2, <2>4, <2>5, EntryKept
<1>6. ASSUME NEW u \in Index(NumLoadStores), lsu[u].phase = "MEMORY_OPERATION"
      PROVE  UnitHolds(lsu[u], rs'[lsu[u].tag])
  <2>1. PICK i \in DOMAIN rob : rob[i].tag = lsu[u].tag /\ ~rob[i].valid
    BY <1>6 DEF DataflowInvariant, ExecutionOwnership
  <2>2. lsu[u].tag # t /\ lsu[u].tag \in Tag
    BY <1>1, <2>1, EntryTypes DEF DataflowInvariant, TagDiscipline, t
  <2>3. Keeping(rs[lsu[u].tag], rs'[lsu[u].tag])
    BY <1>4, <2>2
  <2> QED
    BY <1>6, <2>3, UnitKept
<1>7. \A u \in Tag : rs'[u].busy => rs'[u].source1 = NoTag /\ rs'[u].source2 = NoTag
  BY <1>4 DEF ValueInvariant, BusyHasOperands, Keeping
<1>8. rst'["ZERO"].value = 0
  BY <1>2, <1>3 DEF BroadcastToRegisters, Reg, DataflowInvariant, NeverRenamed,
     ValueInvariant, ZeroIsZero
<1> QED
  BY <1>3, <1>5, <1>6, <1>7, <1>8, NextValues

\* A flush leaves nothing in flight, and no unit at work.
LEMMA FlushValues ==
  ASSUME DataflowInvariant, ValueInvariant, CommitMispredicted
  PROVE  ValueInvariant'
<1> DEFINE t == Head(rob).tag
           v == Head(rob).val
<1>1. t \in Tag /\ v \in Word /\ t # NoTag
  <2>1. Head(rob) \in ReorderBufferEntry
    BY OldestEntry DEF DataflowInvariant, TypeOK, CommitMispredicted, OldestIsDone
  <2> QED
    BY <2>1, TagsDiffer DEF ReorderBufferEntry
<1>2. /\ rs' = BroadcastToStations(FlushedStations, t, v)
      /\ rst' = BroadcastToRegisters(FlushedRegisters, t, v)
      /\ lsu' = FlushedUnits /\ rob' = << >> /\ program' = program
      /\ physicalRegisters' = [physicalRegisters EXCEPT !["PC"] = v]
  BY DEF CommitMispredicted
<1> HIDE DEF t, v
<1>3. FlushedStations \in [Tag -> ReservationStation]
      /\ \A u \in Tag : ~FlushedStations[u].busy
  <2>1. \A u \in Tag : Cleared(rs[u]) \in ReservationStation /\ Cleared(rs[u]).busy = FALSE
    BY <1>1, StationTypes, ClearedFields DEF DataflowInvariant, TypeOK
  <2> QED
    BY <2>1 DEF FlushedStations
<1>4. \A u \in Tag : ~rs'[u].busy
  BY <1>1, <1>2, <1>3, BroadcastIsKeeping
<1>5. \A u \in Index(NumLoadStores) : lsu'[u].phase = "ADDR_CALC"
  BY <1>2 DEF FlushedUnits, DataflowInvariant, TypeOK, LoadStoreUnit
<1>6. physicalRegisters["ZERO"] = 0 /\ physicalRegisters'["ZERO"] = 0
  BY <1>2 DEF ValueInvariant, ZeroIsZero
<1>7. rst'["ZERO"].value = 0
  BY <1>1, <1>2, <1>6 DEF BroadcastToRegisters, FlushedRegisters, Reg
<1> QED
  BY <1>2, <1>4, <1>5, <1>6, <1>7, NextValues

\* A unit takes a station, answers for an entry, or both: operands stay.
LEMMA WorkValues ==
  ASSUME DataflowInvariant, ValueInvariant,
         UNCHANGED <<program, memory, physicalRegisters, rst>>,
         DOMAIN rob' = DOMAIN rob,
         \A i \in DOMAIN rob :
            /\ rob'[i].op = rob[i].op /\ rob'[i].tag = rob[i].tag /\ rob'[i].pc = rob[i].pc
            /\ rob'[i] = rob[i] \/ Computed(memory, rob'[i], rs[rob[i].tag]),
         \A t \in Tag :
            /\ rs'[t].op = rs[t].op /\ rs'[t].imm = rs[t].imm
            /\ rs'[t].pcValue = rs[t].pcValue
            /\ rs'[t].source1 = rs[t].source1 /\ rs'[t].val1 = rs[t].val1
            /\ rs'[t].source2 = rs[t].source2 /\ rs'[t].val2 = rs[t].val2
            /\ rs'[t].busy => \/ rs[t].busy
                              \/ rs[t].source1 = NoTag /\ rs[t].source2 = NoTag,
         \A u \in Index(NumLoadStores) :
            lsu'[u].phase = "MEMORY_OPERATION" =>
               /\ lsu'[u].tag \in Tag
               /\ UnitHolds(lsu'[u], rs[lsu'[u].tag])
  PROVE  ValueInvariant'
<1>1. \A t \in Tag : AddressOf(rs'[t]) = AddressOf(rs[t])
  BY DEF AddressOf
<1> HIDE DEF AddressOf
<1>2. ASSUME NEW i \in DOMAIN rob'
      PROVE  /\ ReadsZero(InstructionAt(rob'[i].pc), rs'[rob'[i].tag])
             /\ rob'[i].tag.kind = RequiredType(rob'[i].op)
             /\ rob'[i].op \notin {"NOP", "HLT"}
             /\ rob'[i].valid => Computed(memory', rob'[i], rs'[rob'[i].tag])
  <2>1. rob[i].tag \in Tag /\ i \in DOMAIN rob
    BY EntryTypes DEF DataflowInvariant
  <2>2. /\ ReadsZero(InstructionAt(rob[i].pc), rs[rob[i].tag])
        /\ rob[i].tag.kind = RequiredType(rob[i].op)
        /\ rob[i].op \notin {"NOP", "HLT"}
        /\ rob[i].valid => Computed(memory, rob[i], rs[rob[i].tag])
    BY <2>1 DEF ValueInvariant, ZeroIsZero, EntryKinds, ResultsAreComputed
  <2>3. rob'[i].valid => Computed(memory, rob'[i], rs[rob[i].tag])
    BY <2>1, <2>2
  <2>4. ReadsZero(InstructionAt(rob'[i].pc), rs'[rob'[i].tag])
    BY <2>1, <2>2 DEF ReadsZero
  <2>5. Computed(memory, rob'[i], rs[rob[i].tag]) => Computed(memory, rob'[i], rs'[rob[i].tag])
    BY <1>1, <2>1 DEF Computed
  <2> QED
    BY <2>1, <2>2, <2>3, <2>4, <2>5
<1>3. ASSUME NEW u \in Index(NumLoadStores), lsu'[u].phase = "MEMORY_OPERATION"
      PROVE  UnitHolds(lsu'[u], rs'[lsu'[u].tag])
  BY <1>1, <1>3 DEF UnitHolds
<1>4. \A t \in Tag : rs'[t].busy => rs'[t].source1 = NoTag /\ rs'[t].source2 = NoTag
  BY DEF ValueInvariant, BusyHasOperands
<1>5. physicalRegisters'["ZERO"] = 0 /\ rst'["ZERO"].value = 0
  BY DEF ValueInvariant, ZeroIsZero
<1> QED
  BY <1>2, <1>3, <1>4, <1>5, NextValues

\* What a unit holds is in a station of an entry in flight.
LEMMA HeldStation ==
  ASSUME DataflowInvariant, ValueInvariant, NEW u \in Index(NumLoadStores),
         lsu[u].phase = "MEMORY_OPERATION"
  PROVE  /\ lsu[u].tag \in Tag
         /\ UnitHolds(lsu[u], rs[lsu[u].tag])
         /\ \A i \in DOMAIN rob : rob[i].tag = lsu[u].tag => rob[i].op = lsu[u].op
<1>1. PICK k \in DOMAIN rob : rob[k].tag = lsu[u].tag /\ rob[k].op = lsu[u].op
  BY DEF DataflowInvariant, ExecutionOwnership
<1>2. lsu[u].tag \in Tag
  BY <1>1, EntryTypes DEF DataflowInvariant
<1>3. \A i \in DOMAIN rob : rob[i].tag = lsu[u].tag => i = k
  BY <1>1 DEF DataflowInvariant, TagDiscipline
<1>4. UnitHolds(lsu[u], rs[lsu[u].tag])
  BY DEF ValueInvariant, UnitsHoldOperands, UnitHolds
<1> QED
  BY <1>1, <1>2, <1>3, <1>4

LEMMA AdderValues ==
  ASSUME DataflowInvariant, ValueInvariant, AdderExecute
  PROVE  ValueInvariant'
<1> DEFINE result(t) == ALU(rs[t].op, rs[t].pcValue, rs[t].val1, rs[t].val2, rs[t].imm)
<1>1. PICK t \in NextReady(unit) : /\ rs' = [rs EXCEPT ![t].busy = TRUE]
                                   /\ rob' = WithResult(t, result(t))
  BY DEF AdderExecute
<1>2. t \in Tag /\ t.kind = "ADDER" /\ Ready(t) /\ TypeOK
  BY DEF NextReady, ReadyStations, Stations, DataflowInvariant
<1>3. rs \in [Tag -> ReservationStation] /\ rob \in Seq(ReorderBufferEntry)
  BY <1>2 DEF TypeOK
<1>4. result(t) \in Word
  BY <1>2, <1>3, ALUIsWord DEF ReservationStation
<1>5. rs[t].source1 = NoTag /\ rs[t].source2 = NoTag
  BY <1>2 DEF Ready, DataflowInvariant, ValidHasOperands
<1>6. Completes(rob', t)
  BY <1>1, <1>3, <1>4, CompletedResult
<1>7. ASSUME NEW i \in DOMAIN rob
      PROVE  rob'[i] = rob[i] \/ Computed(memory, rob'[i], rs[rob[i].tag])
  <2>1. CASE rob[i].tag # t
    BY <1>1, <2>1 DEF WithResult
  <2>2. CASE rob[i].tag = t
    <3>1. rob[i].op \notin MemOps
      BY <1>2, <2>2 DEF ValueInvariant, EntryKinds, RequiredType
    <3>2. rob[i] \in ReorderBufferEntry
      BY <1>2, EntryTypes
    <3>3. rob'[i].op = rob[i].op /\ rob'[i].val = result(t)
      BY <1>1, <2>2, <3>2 DEF WithResult, ReorderBufferEntry
    <3> QED
      BY <2>2, <3>1, <3>3 DEF Computed, MemOps
  <2> QED
    BY <2>1, <2>2
<1> HIDE DEF result
<1>8. \A u \in Tag :
         /\ rs'[u].op = rs[u].op /\ rs'[u].imm = rs[u].imm
         /\ rs'[u].pcValue = rs[u].pcValue
         /\ rs'[u].source1 = rs[u].source1 /\ rs'[u].val1 = rs[u].val1
         /\ rs'[u].source2 = rs[u].source2 /\ rs'[u].val2 = rs[u].val2
         /\ rs'[u].busy => \/ rs[u].busy
                           \/ rs[u].source1 = NoTag /\ rs[u].source2 = NoTag
  BY <1>1, <1>2, <1>3, <1>5, BusyFields
<1>9. UNCHANGED <<program, memory, physicalRegisters, rst, lsu>>
  BY DEF AdderExecute
<1>10. \A u \in Index(NumLoadStores) :
         lsu'[u].phase = "MEMORY_OPERATION" =>
            lsu'[u].tag \in Tag /\ UnitHolds(lsu'[u], rs[lsu'[u].tag])
  BY <1>9, HeldStation
<1> QED
  BY <1>6, <1>7, <1>8, <1>9, <1>10, WorkValues DEF Completes

LEMMA AddressValues ==
  ASSUME DataflowInvariant, ValueInvariant, AddressCalculation
  PROVE  ValueInvariant'
<1>1. PICK t \in OldestReady(unit) :
        /\ rs' = [rs EXCEPT ![t].busy = TRUE]
        /\ lsu' = [lsu EXCEPT ![unit] =
             [phase |-> "MEMORY_OPERATION", tag |-> t, op |-> rs[t].op,
              addr |-> EffectiveAddress(rs[t].op, rs[t].val1, rs[t].val2, rs[t].imm),
              data |-> rs[t].val1]]
  BY DEF AddressCalculation
<1>2. t \in Tag /\ Ready(t) /\ TypeOK
  BY DEF OldestReady, ReadyStations, Stations, DataflowInvariant
<1>3. rs \in [Tag -> ReservationStation] /\ lsu \in [Index(NumLoadStores) -> LoadStoreUnit]
      /\ unit \in Index(NumLoadStores)
  BY <1>2 DEF AddressCalculation, TypeOK, Turns
<1>4. rs[t].source1 = NoTag /\ rs[t].source2 = NoTag
  BY <1>2 DEF Ready, DataflowInvariant, ValidHasOperands
<1>5. \A u \in Tag :
         /\ rs'[u].op = rs[u].op /\ rs'[u].imm = rs[u].imm
         /\ rs'[u].pcValue = rs[u].pcValue
         /\ rs'[u].source1 = rs[u].source1 /\ rs'[u].val1 = rs[u].val1
         /\ rs'[u].source2 = rs[u].source2 /\ rs'[u].val2 = rs[u].val2
         /\ rs'[u].busy => \/ rs[u].busy
                           \/ rs[u].source1 = NoTag /\ rs[u].source2 = NoTag
  BY <1>1, <1>2, <1>3, <1>4, BusyFields
<1>6. lsu'[unit].tag = t /\ UnitHolds(lsu'[unit], rs[t])
      /\ \A u \in Index(NumLoadStores) : u # unit => lsu'[u] = lsu[u]
  BY <1>1, <1>3 DEF UnitHolds, AddressOf
<1>7. \A u \in Index(NumLoadStores) :
         lsu'[u].phase = "MEMORY_OPERATION" =>
            lsu'[u].tag \in Tag /\ UnitHolds(lsu'[u], rs[lsu'[u].tag])
  BY <1>2, <1>6, HeldStation
<1>8. UNCHANGED <<program, memory, physicalRegisters, rst, rob>>
  BY DEF AddressCalculation
<1> QED
  BY <1>5, <1>7, <1>8, WorkValues

\* A unit that answers becomes free.
LEMMA AnswerValues ==
  ASSUME DataflowInvariant, ValueInvariant, stage = "loadstore",
         lsu[unit].phase = "MEMORY_OPERATION",
         Completes(rob', lsu[unit].tag),
         \A i \in DOMAIN rob :
            \/ rob'[i] = rob[i]
            \/ rob[i].tag = lsu[unit].tag /\ Computed(memory, rob'[i], rs[rob[i].tag]),
         lsu' = [lsu EXCEPT ![unit].phase = "ADDR_CALC"],
         UNCHANGED <<program, memory, physicalRegisters, rst, rs>>
  PROVE  ValueInvariant'
<1>1. /\ unit \in Index(NumLoadStores)
      /\ lsu'[unit].phase = "ADDR_CALC"
      /\ \A u \in Index(NumLoadStores) : u # unit => lsu'[u] = lsu[u]
  BY DEF DataflowInvariant, TypeOK, Turns, LoadStoreUnit
<1>2. \A u \in Index(NumLoadStores) :
         lsu'[u].phase = "MEMORY_OPERATION" =>
            lsu'[u].tag \in Tag /\ UnitHolds(lsu'[u], rs[lsu'[u].tag])
  BY <1>1, HeldStation
<1> QED
  BY <1>2, WorkValues DEF Completes

LEMMA StoreValues ==
  ASSUME DataflowInvariant, ValueInvariant, MemoryStore
  PROVE  ValueInvariant'
<1>1. TypeOK /\ unit \in Index(NumLoadStores) /\ lsu[unit].phase = "MEMORY_OPERATION"
      /\ lsu[unit].op = "SW"
      /\ rob' = WithStore(lsu[unit].tag, lsu[unit].addr, lsu[unit].data)
  BY DEF MemoryStore, DataflowInvariant, TypeOK, Turns
<1>2. lsu[unit].addr \in Word /\ lsu[unit].data \in Word
  BY <1>1 DEF TypeOK, LoadStoreUnit
<1>3. Completes(rob', lsu[unit].tag)
  BY <1>1, <1>2, CompletedStore DEF TypeOK
<1>4. ASSUME NEW i \in DOMAIN rob, rob[i].tag = lsu[unit].tag
      PROVE  Computed(memory, rob'[i], rs[rob[i].tag])
  <2>1. rob[i].op = "SW" /\ UnitHolds(lsu[unit], rs[rob[i].tag])
    BY <1>1, <1>4, HeldStation
  <2>2. rob[i] \in ReorderBufferEntry
    BY <1>1, EntryTypes
  <2>3. rob'[i].op = rob[i].op /\ rob'[i].addr = lsu[unit].addr /\ rob'[i].data = lsu[unit].data
    BY <1>1, <1>4, <2>2 DEF WithStore, ReorderBufferEntry
  <2> QED
    BY <2>1, <2>3 DEF Computed, UnitHolds
<1>5. \A i \in DOMAIN rob :
         \/ rob'[i] = rob[i]
         \/ rob[i].tag = lsu[unit].tag /\ Computed(memory, rob'[i], rs[rob[i].tag])
  BY <1>1, <1>4 DEF WithStore
<1> QED
  BY <1>1, <1>3, <1>5, AnswerValues DEF MemoryStore

LEMMA LoadValues ==
  ASSUME DataflowInvariant, ValueInvariant, MemoryLoad
  PROVE  ValueInvariant'
<1>1. TypeOK /\ unit \in Index(NumLoadStores) /\ lsu[unit].phase = "MEMORY_OPERATION"
      /\ lsu[unit].op = "LW"
  BY DEF MemoryLoad, DataflowInvariant, TypeOK, Turns
<1>2. PICK v \in Loaded(lsu[unit].addr) : rob' = WithResult(lsu[unit].tag, v)
  BY DEF MemoryLoad
<1>3. v \in Word /\ v \in ReadFrom(memory, lsu[unit].addr)
  BY <1>1, ConfigAssumption DEF Loaded, ReadFrom, TypeOK
<1>4. Completes(rob', lsu[unit].tag)
  BY <1>1, <1>2, <1>3, CompletedResult DEF TypeOK
<1>5. ASSUME NEW i \in DOMAIN rob, rob[i].tag = lsu[unit].tag
      PROVE  Computed(memory, rob'[i], rs[rob[i].tag])
  <2>1. rob[i].op = "LW" /\ UnitHolds(lsu[unit], rs[rob[i].tag])
    BY <1>1, <1>5, HeldStation
  <2>2. rob[i] \in ReorderBufferEntry
    BY <1>1, EntryTypes
  <2>3. rob'[i].op = rob[i].op /\ rob'[i].val = v
    BY <1>2, <1>5, <2>2 DEF WithResult, ReorderBufferEntry
  <2> QED
    BY <1>3, <2>1, <2>3 DEF Computed, UnitHolds
<1>6. \A i \in DOMAIN rob :
         \/ rob'[i] = rob[i]
         \/ rob[i].tag = lsu[unit].tag /\ Computed(memory, rob'[i], rs[rob[i].tag])
  BY <1>2, <1>5 DEF WithResult
<1> QED
  BY <1>1, <1>4, <1>6, AnswerValues DEF MemoryLoad

\* A new entry is unfinished, and reads zero from x0.
LEMMA IssueValues ==
  ASSUME DataflowInvariant, ValueInvariant, InProgram(FetchPC), CanIssue,
         NEW t \in Tag, rs[t].empty, t.kind = RequiredType(Fetched.op), Issue(t),
         physicalRegisters'["ZERO"] = physicalRegisters["ZERO"],
         rst'["ZERO"].value = rst["ZERO"].value
  PROVE  ValueInvariant'
<1> DEFINE n == Len(rob)
           new == rob'[n + 1]
<1>1. TypeOK /\ n \in Nat /\ DOMAIN rob = 1 .. n /\ \A i \in 1 .. n : rob[i].tag \in Tag
  BY EntryTypes DEF DataflowInvariant
<1>2. /\ DOMAIN rob' = 1 .. (n + 1)
      /\ \A i \in 1 .. n : rob'[i] = rob[i]
      /\ new = NewEntry(Fetched, t, FetchPC)
  <2>1. rob \in Seq(ReorderBufferEntry) /\ rob' = Append(rob, NewEntry(Fetched, t, FetchPC))
    BY <1>1 DEF Issue, TypeOK
  <2> QED
    BY <2>1, AppendProperties
<1>3. /\ new.op = Fetched.op /\ new.tag = t /\ new.pc = FetchPC /\ new.valid = FALSE
  BY <1>2 DEF NewEntry
<1>4. /\ rs'[t] = FilledStation(Fetched, FetchPC)
      /\ \A u \in Tag : u # t => rs'[u] = rs[u]
      /\ program' = program /\ lsu' = lsu /\ memory' = memory
  BY <1>1 DEF Issue, TypeOK
<1>5. /\ rs'[t].busy = FALSE
      /\ rs'[t].val1 = OperandValue(Fetched.rs1) /\ rs'[t].val2 = OperandValue(Fetched.rs2)
  BY <1>4 DEF FilledStation
<1>6. \A i \in 1 .. n : rob[i].tag # t /\ rs'[rob[i].tag] = rs[rob[i].tag]
  <2>1. \A i \in DOMAIN rob : ~rs[rob[i].tag].empty
    BY <1>1 DEF DataflowInvariant, TagDiscipline
  <2> QED
    BY <1>1, <1>4, <2>1
<1>7. OperandValue("ZERO") = 0
  BY DEF OperandValue, DataflowInvariant, NeverRenamed, ValueInvariant, ZeroIsZero
<1>8. InstructionAt(FetchPC) = Fetched /\ Fetched.op \notin {"NOP", "HLT"}
  BY DEF InstructionAt, Fetched, CanIssue
<1> HIDE DEF n, new
<1>9. ASSUME NEW i \in DOMAIN rob'
      PROVE  /\ ReadsZero(InstructionAt(rob'[i].pc), rs'[rob'[i].tag])
             /\ rob'[i].tag.kind = RequiredType(rob'[i].op)
             /\ rob'[i].op \notin {"NOP", "HLT"}
             /\ rob'[i].valid => Computed(memory', rob'[i], rs'[rob'[i].tag])
  <2>1. CASE i \in 1 .. n
    <3>1. i \in DOMAIN rob /\ rob'[i] = rob[i] /\ rs'[rob[i].tag] = rs[rob[i].tag]
      BY <1>1, <1>2, <1>6, <2>1
    <3>2. /\ ReadsZero(InstructionAt(rob[i].pc), rs[rob[i].tag])
          /\ rob[i].tag.kind = RequiredType(rob[i].op)
          /\ rob[i].op \notin {"NOP", "HLT"}
          /\ rob[i].valid => Computed(memory, rob[i], rs[rob[i].tag])
      BY <3>1 DEF ValueInvariant, ZeroIsZero, EntryKinds, ResultsAreComputed
    <3> QED
      BY <1>4, <3>1, <3>2
  <2>2. CASE i = n + 1
    <3>1. rob'[i] = new
      BY <2>2 DEF new
    <3>2. ReadsZero(Fetched, rs'[t])
      BY <1>5, <1>7 DEF ReadsZero
    <3> QED
      BY <1>3, <1>8, <3>1, <3>2
  <2> QED
    BY <1>1, <1>2, <1>9, <2>1, <2>2
<1>10. ASSUME NEW u \in Index(NumLoadStores), lsu'[u].phase = "MEMORY_OPERATION"
       PROVE  UnitHolds(lsu'[u], rs'[lsu'[u].tag])
  <2>1. lsu[u].phase = "MEMORY_OPERATION" /\ lsu'[u] = lsu[u]
    BY <1>4, <1>10
  <2>2. PICK i \in DOMAIN rob : rob[i].tag = lsu[u].tag
    BY <2>1 DEF DataflowInvariant, ExecutionOwnership
  <2>3. rs'[lsu[u].tag] = rs[lsu[u].tag]
    BY <1>1, <1>6, <2>2
  <2> QED
    BY <2>1, <2>3, HeldStation
<1>11. \A u \in Tag : rs'[u].busy => rs'[u].source1 = NoTag /\ rs'[u].source2 = NoTag
  BY <1>4, <1>5 DEF ValueInvariant, BusyHasOperands
<1>12. physicalRegisters'["ZERO"] = 0 /\ rst'["ZERO"].value = 0
  BY DEF ValueInvariant, ZeroIsZero
<1> QED
  BY <1>4, <1>9, <1>10, <1>11, <1>12, NextValues

LEMMA DecodeValues ==
  ASSUME DataflowInvariant, ValueInvariant, DecodeIssue \/ DecodeBranch
  PROVE  ValueInvariant'
<1>1. /\ TypeOK /\ InProgram(FetchPC) /\ CanIssue /\ "ZERO" # "PC" /\ "ZERO" \in Reg
      /\ physicalRegisters \in [Reg -> Word] /\ stage = "decode"
  BY DEF DecodeIssue, DecodeBranch, DataflowInvariant, TypeOK, Reg, Decoding
<1>2. \A t, kind : t \in StationToUse(kind) => t \in Tag /\ t.kind = kind /\ rs[t].empty
  BY DEF StationToUse, FreeStations
<1>3. \A t \in Tag : Renamed(rst, Fetched.rd, t)["ZERO"] = rst["ZERO"]
  BY <1>1, RegAssumption DEF Renamed, TypeOK
<1>4. CASE DecodeIssue
  <2>1. PICK t \in StationToUse(RequiredType(Fetched.op)) :
          /\ Issue(t)
          /\ rst' = [Renamed(rst, Fetched.rd, t) EXCEPT !["PC"].value =
                         IF FollowingPC = FetchPC THEN @ ELSE FollowingPC]
    BY <1>4 DEF DecodeIssue
  <2>2. t \in Tag /\ t.kind = RequiredType(Fetched.op) /\ rs[t].empty
    BY <1>2
  <2>3. Renamed(rst, Fetched.rd, t) \in [Reg -> RegisterStatusEntry]
    BY <1>1, <2>1, <2>2, IssueTypes
  <2>4. rst'["ZERO"] = rst["ZERO"]
    BY <1>1, <1>3, <2>1, <2>2, <2>3
  <2>5. physicalRegisters'["ZERO"] = physicalRegisters["ZERO"]
    BY <1>1, <1>4 DEF DecodeIssue
  <2> QED
    BY <1>1, <2>1, <2>2, <2>4, <2>5, IssueValues
<1>5. CASE DecodeBranch
  <2>1. PICK t \in StationToUse("ADDER") : Issue(t) /\ rst' = Renamed(rst, Fetched.rd, t)
    BY <1>5 DEF DecodeBranch
  <2>2. t \in Tag /\ t.kind = "ADDER" /\ rs[t].empty
    BY <1>2
  <2>3. RequiredType(Fetched.op) = "ADDER"
    BY <1>5 DEF DecodeBranch, RequiredType, BranchOps, MemOps
  <2>4. physicalRegisters'["ZERO"] = physicalRegisters["ZERO"]
    BY <1>1, <1>5 DEF DecodeBranch
  <2> QED
    BY <1>1, <1>3, <2>1, <2>2, <2>3, <2>4, IssueValues
<1> QED
  BY <1>4, <1>5

\* What a regular program says of an entry.
LEMMA RegularEntry ==
  ASSUME DataflowInvariant, RegularPrograms, NEW i \in DOMAIN rob
  PROVE  LET ins == InstructionAt(rob[i].pc)
         IN  /\ ins.op = rob[i].op /\ ins.rd = rob[i].rd /\ rob[i].pc + 1 \in DOMAIN program
             /\ rob[i].rd = "ZERO" => rob[i].op \in {"SW", "HLT"}
             /\ ins.rs1 \in GPR \cup {"ZERO"} /\ ins.rs2 \in GPR \cup {"ZERO"}
             /\ ins.imm \in Word
             /\ rob[i].rd = "PC" <=> rob[i].op \in BranchOps
             /\ rob[i].op = "SW" => rob[i].rd = "ZERO"
<1>1. program \in Programs
  BY DEF DataflowInvariant, TypeOK
<1>2. /\ rob[i].pc + 1 \in DOMAIN program
      /\ rob[i].op = program[rob[i].pc + 1].op /\ rob[i].rd = program[rob[i].pc + 1].rd
  BY DEF DataflowInvariant, CarriesInstruction, InProgram, InstructionAt
<1>3. Regular(program)
  BY <1>1 DEF RegularPrograms
<1> QED
  BY <1>1, <1>2, <1>3, ProgramTypes DEF Regular, WellFormed, InstructionAt, Reg

\* A store is committed to a word that no load of the program reads.
LEMMA StoreAvoidsLoads ==
  ASSUME DataflowInvariant, ValueInvariant, RegularPrograms, SeparatePrograms,
         CommitStore, NEW i \in DOMAIN rob, rob[i].op = "LW"
  PROVE  ReadFrom(memory', AddressOf(rs[rob[i].tag]))
           = ReadFrom(memory, AddressOf(rs[rob[i].tag]))
<1> DEFINE load == InstructionAt(rob[i].pc)
           store == InstructionAt(rob[1].pc)
<1>1. /\ 1 \in DOMAIN rob /\ Head(rob) = rob[1] /\ rob[1].op = "SW" /\ rob[1].valid
      /\ memory' = [memory EXCEPT ![rob[1].addr] = rob[1].data]
      /\ memory \in [Address -> Word]
  <2>1. TypeOK /\ OldestIsDone
    BY DEF CommitStore, DataflowInvariant
  <2>2. 1 \in DOMAIN rob /\ Head(rob) = rob[1]
    BY <2>1, OldestEntry DEF TypeOK, OldestIsDone
  <2> QED
    BY <2>1, <2>2 DEF CommitStore, OldestIsDone, TypeOK
<1>2. /\ load.op = "LW" /\ store.op = "SW" /\ load.imm \in Word /\ store.imm \in Word
      /\ rob[i].pc + 1 \in DOMAIN program /\ rob[1].pc + 1 \in DOMAIN program
  BY <1>1, RegularEntry
<1>3. load.rs1 = "ZERO" /\ store.rs2 = "ZERO" /\ load.imm # store.imm
  <2>1. Separate(program)
    BY DEF SeparatePrograms, DataflowInvariant, TypeOK
  <2> QED
    BY <1>2, <2>1 DEF Separate, InstructionAt
<1>4. rs[rob[i].tag].val1 = 0 /\ rs[rob[1].tag].val2 = 0
  BY <1>1, <1>3 DEF ValueInvariant, ZeroIsZero, ReadsZero
<1>5. /\ rs[rob[i].tag].op = "LW" /\ rs[rob[i].tag].imm = load.imm
      /\ rs[rob[1].tag].op = "SW" /\ rs[rob[1].tag].imm = store.imm
  BY <1>1, <1>2 DEF DataflowInvariant, CarriesInstruction
<1> HIDE DEF load, store
<1>6. AddressOf(rs[rob[i].tag]) = load.imm /\ AddressOf(rs[rob[1].tag]) = store.imm
  <2>1. \A x \in Word : 0 + x = x
    BY WordAssumption DEF Word
  <2> QED
    BY <1>2, <1>4, <1>5, <2>1, WrapKeepsWords DEF AddressOf, EffectiveAddress
<1>7. rob[1].addr = AddressOf(rs[rob[1].tag])
  BY <1>1 DEF ValueInvariant, ResultsAreComputed, Computed
<1> QED
  BY <1>1, <1>3, <1>6, <1>7 DEF ReadFrom

\* With two entries, no load behind the store is finished.
LEMMA StorePrecedesLoads ==
  ASSUME DataflowInvariant, LoadsFollowStores, CommitStore PROVE LoadsKept
<1>1. /\ TypeOK /\ rob # << >> /\ DOMAIN rob = 1 .. Len(rob) /\ Len(rob) \in Nat
      /\ Head(rob) = rob[1] /\ 1 \in DOMAIN rob /\ rob[1].op = "SW"
  BY OldestEntry DEF DataflowInvariant, TypeOK, CommitStore, OldestIsDone
<1>2. ASSUME NEW i \in DOMAIN rob, rob[i].op = "LW" PROVE ~rob[i].valid
  <2>1. i # 1 /\ 1 < i
    BY <1>1, <1>2
  <2> QED
    BY <1>1, <1>2, <2>1 DEF LoadsFollowStores
<1> QED
  BY <1>2 DEF LoadsKept

LEMMA CommitValues ==
  ASSUME DataflowInvariant, ValueInvariant, RegularPrograms,
         CommitResult \/ CommitBranch \/ CommitStore, CommitStore => LoadsKept
  PROVE  ValueInvariant'
<1>1. /\ OldestIsDone /\ BroadcastAndPop(Head(rob)) /\ 1 \in DOMAIN rob /\ Head(rob) = rob[1]
      /\ physicalRegisters \in [Reg -> Word]
  BY OldestEntry
     DEF CommitResult, CommitBranch, CommitStore, OldestIsDone, DataflowInvariant, TypeOK
<1>2. physicalRegisters["ZERO"] = 0
  BY DEF ValueInvariant, ZeroIsZero
<1>3. CASE CommitResult
  <2>1. rob[1].rd # "ZERO"
    BY <1>1, <1>3, RegularEntry DEF CommitResult, ValueInvariant, EntryKinds
  <2>2. physicalRegisters'["ZERO"] = 0
    BY <1>1, <1>2, <1>3, <2>1 DEF CommitResult
  <2>3. memory' = memory
    BY <1>3 DEF CommitResult
  <2> QED
    BY <1>1, <2>2, <2>3, PopValues DEF LoadsKept
<1>4. CASE CommitBranch
  BY <1>1, <1>2, <1>4, PopValues DEF CommitBranch, LoadsKept
<1>5. CASE CommitStore
  BY <1>1, <1>2, <1>5, PopValues DEF CommitStore
<1> QED
  BY <1>3, <1>4, <1>5

LEMMA ValueStep ==
  ASSUME DataflowInvariant, ValueInvariant, RegularPrograms, [Next]_vars,
         CommitStore => LoadsKept
  PROVE  ValueInvariant'
<1>1. ASSUME UNCHANGED <<program, memory, physicalRegisters, rst, rs, rob, lsu>>
      PROVE  ValueInvariant'
  BY <1>1 DEF ValueInvariant, ResultsAreComputed, Computed, ReadFrom, UnitsHoldOperands,
     BusyHasOperands, ZeroIsZero, ReadsZero, InstructionAt, EntryKinds
<1>2. CASE Commit
  <2>1. CASE CommitStoreOutside \/ CommitDone
    BY <1>1, <2>1 DEF CommitStoreOutside, CommitDone
  <2> QED
    BY <1>2, <2>1, CommitValues, FlushValues DEF Commit
<1>3. CASE Adder
  BY <1>1, <1>3, AdderValues DEF Adder, AdderIdle
<1>4. CASE LoadStore
  <2>1. CASE LoadStoreIdle \/ MemoryLoadFault
    BY <1>1, <2>1 DEF LoadStoreIdle, MemoryLoadFault
  <2> QED
    BY <1>4, <2>1, AddressValues, StoreValues, LoadValues DEF LoadStore
<1>5. CASE Decode
  <2>1. CASE FetchFault \/ DecodeStall
    BY <1>1, <2>1 DEF FetchFault, DecodeStall
  <2> QED
    BY <1>5, <2>1, DecodeValues DEF Decode
<1>6. CASE EndCycle \/ EndRun \/ Stopped \/ UNCHANGED vars
  BY <1>1, <1>6 DEF EndCycle, EndRun, Stopped, vars
<1> QED
  BY <1>2, <1>3, <1>4, <1>5, <1>6 DEF Next, Step

(***************************************************************************)
(* A run ends where the decoder stands.                                    *)
(***************************************************************************)
StallInvariant == stage = "end" /\ decodeStalled => InProgram(FetchPC) /\ ~CanIssue

LEMMA StallStep == ASSUME TypeOK, StallInvariant, [Next]_vars PROVE StallInvariant'
<1>1. CASE stage' # "end" \/ ~decodeStalled'
  BY <1>1 DEF StallInvariant
<1>2. CASE DecodeStall
  <2>1. InProgram(FetchPC) /\ ~CanIssue /\ UNCHANGED <<program, physicalRegisters, rs, rob>>
    BY <1>2 DEF DecodeStall
  <2> QED
    BY <2>1 DEF StallInvariant, FetchPC, InProgram, CanIssue, Fetched, FreeStations, RobFull
<1>3. CASE Stopped \/ UNCHANGED vars
  BY <1>3 DEF Stopped, vars, StallInvariant, FetchPC, InProgram, CanIssue, Fetched,
     FreeStations, RobFull
<1>4. CASE Commit
  <2>1. stage' # "end"
    BY <1>4 DEF Commit, CommitResult, CommitBranch, CommitStore, CommitStoreOutside,
       CommitMispredicted, CommitDone, BroadcastAndPop, OldestIsDone
  <2> QED
    BY <1>1, <2>1
<1>5. CASE Adder \/ LoadStore
  <2>1. stage' # "end"
    BY <1>5 DEF Adder, AdderIdle, AdderExecute, LoadStore, LoadStoreIdle,
       AddressCalculation, MemoryStore, MemoryLoad, MemoryLoadFault, NextUnit
  <2> QED
    BY <1>1, <2>1
<1>6. CASE FetchFault \/ DecodeIssue \/ DecodeBranch \/ EndCycle \/ EndRun
  <2>1. stage' # "end" \/ ~decodeStalled'
    BY <1>6 DEF FetchFault, DecodeIssue, DecodeBranch, Issue, EndCycle, EndRun
  <2> QED
    BY <1>1, <2>1
<1> QED
  BY <1>2, <1>3, <1>4, <1>5, <1>6 DEF Next, Step, Decode

WithoutNop == \A p \in Programs : \A i \in DOMAIN p : p[i].op # "NOP"

\* With everything empty and room for an entry, only HLT stalls the decoder.
LEMMA DrainedAtHalt ==
  ASSUME TypeOK, StallInvariant, WithoutNop, RobSize > 1, EndRun
  PROVE  InProgram(FetchPC) /\ Fetched.op = "HLT"
<1>1. InProgram(FetchPC) /\ ~CanIssue /\ rob = << >> /\ \A t \in Tag : rs[t].empty
  BY DEF EndRun, Drained, StallInvariant
<1>2. ~RobFull
  <2>1. Len(rob) = 0
    BY <1>1
  <2> QED
    BY <2>1, ConfigAssumption DEF RobFull, MaxEntries
<1>3. ASSUME NEW kind \in {"ADDER", "LOAD_STORE"}
      PROVE  FreeStations(kind) # {}
  <2> DEFINE t == [kind |-> kind, unit |-> 0, slot |-> 0]
  <2>1. t \in Tag
    BY ConfigAssumption DEF Tag
  <2> QED
    BY <1>1, <2>1 DEF FreeStations
<1>4. Fetched.op \in {"NOP", "HLT"}
  BY <1>1, <1>2, <1>3 DEF CanIssue, RequiredType
<1>5. Fetched.op # "NOP"
  BY <1>1 DEF WithoutNop, TypeOK, Fetched, InProgram
<1> QED
  BY <1>1, <1>4, <1>5

(***************************************************************************)
(* The refinement.  The commit of an entry is the step of its instruction; *)
(* everything else is invisible.                                           *)
(***************************************************************************)
SequentialInvariant ==
    /\ DataflowInvariant
    /\ PathInvariant
    /\ ValueInvariant
    /\ StallInvariant

\* The abstract module computes with its own copy of the instruction set.
LEMMA SameArithmetic ==
  ASSUME NEW op, NEW pc, NEW v1, NEW v2, NEW imm
  PROVE  /\ Sequential!ALU(op, pc, v1, v2, imm) = ALU(op, pc, v1, v2, imm)
         /\ Sequential!EffectiveAddress(op, v1, v2, imm) = EffectiveAddress(op, v1, v2, imm)
BY DEF ALU, Sequential!ALU, BranchTaken, Sequential!BranchTaken, Wrap, Sequential!Wrap,
   EffectiveAddress, Sequential!EffectiveAddress, BitOps, Sequential!BitOps, BranchOps,
   Sequential!BranchOps

\* The oldest entry is the next instruction, with its operands committed.
LEMMA OldestIsNext ==
  ASSUME DataflowInvariant, ValueInvariant, RegularPrograms, OldestIsDone
  PROVE  LET e == rob[1]
             ins == InstructionAt(e.pc)
         IN  /\ Head(rob) = e /\ ArchitecturalPC = e.pc /\ e.pc \in Int
             /\ stage = "rob" /\ stage # "halted"
             /\ e.pc + 1 \in DOMAIN program
             /\ ins = program[e.pc + 1] /\ ins.op = e.op /\ ins.rd = e.rd
             /\ ins.rs1 \in GPR \cup {"ZERO"} /\ ins.rs2 \in GPR \cup {"ZERO"}
             /\ e.op = "SW" =>
                  /\ e.addr = EffectiveAddress("SW", physicalRegisters[ins.rs1],
                                               physicalRegisters[ins.rs2], ins.imm)
                  /\ e.data = physicalRegisters[ins.rs1]
             /\ e.op = "LW" =>
                  e.val \in ReadFrom(memory,
                                     EffectiveAddress("LW", physicalRegisters[ins.rs1],
                                                      physicalRegisters[ins.rs2], ins.imm))
             /\ e.op \notin MemOps =>
                  e.val = ALU(e.op, e.pc, physicalRegisters[ins.rs1],
                              physicalRegisters[ins.rs2], ins.imm)
             /\ e.op \notin {"NOP", "HLT"} /\ e.op \in Opcode
<1> DEFINE e == rob[1]
           ins == InstructionAt(rob[1].pc)
           s == rs[rob[1].tag]
<1>1. /\ TypeOK /\ 1 \in DOMAIN rob /\ Head(rob) = e /\ rob # << >> /\ e.valid
      /\ stage = "rob"
  <2>1. TypeOK
    BY DEF DataflowInvariant
  <2> QED
    BY <2>1, OldestEntry DEF OldestIsDone, TypeOK
<1>2. e.pc \in Int /\ e \in ReorderBufferEntry /\ e.op \in Opcode
  BY <1>1, EntryTypes, SmallWords DEF ReorderBufferEntry
<1>3. /\ ins.op = e.op /\ ins.rd = e.rd /\ e.pc + 1 \in DOMAIN program
      /\ ins.rs1 \in GPR \cup {"ZERO"} /\ ins.rs2 \in GPR \cup {"ZERO"}
      /\ ins = program[e.pc + 1]
  BY <1>1, RegularEntry DEF InstructionAt
<1>4. s.op = ins.op /\ s.imm = ins.imm /\ s.pcValue = e.pc
  BY <1>1 DEF DataflowInvariant, CarriesInstruction
<1>5. \A r \in GPR : \A tag, value :
         Bound(rob, physicalRegisters, 1, r, tag, value) => value = physicalRegisters[r]
  BY DEF Bound, AwaitedFrom
<1>6. /\ OperandBound(rob, physicalRegisters, 1, ins.rs1, s.source1, s.val1)
      /\ OperandBound(rob, physicalRegisters, 1, ins.rs2, s.source2, s.val2)
  BY <1>1 DEF DataflowInvariant, OperandFlow
<1>7. physicalRegisters["ZERO"] = 0 /\ ReadsZero(ins, s)
  BY <1>1 DEF ValueInvariant, ZeroIsZero
<1>8. Computed(memory, e, s) /\ e.op \notin {"NOP", "HLT"}
  BY <1>1 DEF ValueInvariant, ResultsAreComputed, EntryKinds
<1> HIDE DEF e, ins, s
<1>9. s.val1 = physicalRegisters[ins.rs1] /\ s.val2 = physicalRegisters[ins.rs2]
  BY <1>3, <1>5, <1>6, <1>7 DEF OperandBound, ReadsZero
<1>10. ArchitecturalPC = e.pc
  BY <1>1 DEF ArchitecturalPC, e
<1>11. /\ e.op = "SW" =>
            /\ e.addr = EffectiveAddress("SW", physicalRegisters[ins.rs1],
                                         physicalRegisters[ins.rs2], ins.imm)
            /\ e.data = physicalRegisters[ins.rs1]
       /\ e.op = "LW" =>
            e.val \in ReadFrom(memory,
                               EffectiveAddress("LW", physicalRegisters[ins.rs1],
                                                physicalRegisters[ins.rs2], ins.imm))
       /\ e.op \notin MemOps =>
            e.val = ALU(e.op, e.pc, physicalRegisters[ins.rs1],
                        physicalRegisters[ins.rs2], ins.imm)
  BY <1>3, <1>4, <1>8, <1>9 DEF Computed, AddressOf, MemOps
<1> QED
  BY <1>1, <1>2, <1>3, <1>8, <1>10, <1>11 DEF e, ins

LEMMA SequentialNext ==
  ASSUME SequentialInvariant, RegularPrograms, OldestIsDone
  PROVE  /\ Sequential!Running /\ Sequential!Current = InstructionAt(rob[1].pc)
         /\ ArchitecturalPC = rob[1].pc
<1>1. /\ ArchitecturalPC = rob[1].pc /\ stage # "halted" /\ rob[1].pc + 1 \in DOMAIN program
      /\ InstructionAt(rob[1].pc) = program[rob[1].pc + 1]
  BY OldestIsNext DEF SequentialInvariant
<1> QED
  BY <1>1 DEF Sequential!Running, Sequential!Current

\* When the oldest entry leaves, the next one is where its instruction leads.
LEMMA NextAfterPop ==
  ASSUME SequentialInvariant, RegularPrograms, OldestIsDone, rob' = Tail(rob),
         FetchPC' = FetchPC
  PROVE  ArchitecturalPC' = Successor(btb, rob[1])
<1>1. WellFormed(program)
  BY DEF SequentialInvariant, DataflowInvariant, TypeOK, RegularPrograms, Regular
<1>2. /\ Len(rob) \in Nat \ {0} /\ 1 \in DOMAIN rob
      /\ rob' = Tail(rob) /\ Len(rob') = Len(rob) - 1
      /\ \A i \in 1 .. (Len(rob) - 1) : rob'[i] = rob[i + 1]
  BY OldestEntry DEF SequentialInvariant, DataflowInvariant, TypeOK, OldestIsDone
<1>3. Follower(rob, FetchPC, 1) = Successor(btb, rob[1])
  BY <1>1, <1>2 DEF SequentialInvariant, PathInvariant, OnPath
<1>4. CASE Len(rob) = 1
  <2>1. rob' = << >>
    BY <1>2, <1>4 DEF SequentialInvariant, DataflowInvariant, TypeOK
  <2> QED
    BY <1>3, <1>4, <2>1 DEF ArchitecturalPC, Follower
<1>5. CASE Len(rob) > 1
  <2>1. rob'[1] = rob[2]
    <3>1. 1 \in 1 .. (Len(rob) - 1) /\ 1 + 1 = 2
      BY <1>2, <1>5
    <3> QED
      BY <1>2, <3>1
  <2>2. rob' # << >>
    <3>1. Len(rob') # 0
      BY <1>2, <1>5
    <3>2. Len(<< >>) = 0
      OBVIOUS
    <3> QED
      BY <3>1, <3>2
  <2>3. Head(rob') = rob[2]
    BY <2>1, <2>2
  <2> QED
    BY <1>3, <1>5, <2>2, <2>3 DEF ArchitecturalPC, Follower
<1> QED
  BY <1>2, <1>4, <1>5

\* The registers a commit leaves behind are those of the instruction set.
LEMMA CommittedRegisters ==
  ASSUME physicalRegisters \in [Reg -> Word], NEW rd \in GPR, NEW v,
         physicalRegisters' = [physicalRegisters EXCEPT ![rd] = v]
  PROVE  [r \in GPR \cup {"ZERO"} |-> physicalRegisters'[r]] = Sequential!Write(rd, v)
<1>1. rd # "ZERO" /\ GPR \cup {"ZERO"} \subseteq Reg
  BY RegAssumption DEF Reg
<1> QED
  BY <1>1 DEF Sequential!Write

LEMMA ResultRefines ==
  ASSUME SequentialInvariant, RegularPrograms, CommitResult
  PROVE  Sequential!Next
<1> USE SameArithmetic
<1> DEFINE e == rob[1]
           ins == InstructionAt(rob[1].pc)
<1>1. /\ DataflowInvariant /\ ValueInvariant /\ TypeOK /\ OldestIsDone
      /\ physicalRegisters \in [Reg -> Word] /\ 1 \in DOMAIN rob
  <2>1. DataflowInvariant /\ ValueInvariant /\ TypeOK /\ OldestIsDone
    BY DEF SequentialInvariant, DataflowInvariant, CommitResult
  <2> QED
    BY <2>1, OldestEntry DEF TypeOK, OldestIsDone
<1>2. /\ Head(rob) = e /\ ArchitecturalPC = e.pc /\ stage # "halted" /\ stage = "rob"
      /\ ins.op = e.op /\ ins.rd = e.rd
      /\ ins.rs1 \in GPR \cup {"ZERO"} /\ ins.rs2 \in GPR \cup {"ZERO"}
      /\ e.op = "LW" =>
           e.val \in ReadFrom(memory,
                              EffectiveAddress("LW", physicalRegisters[ins.rs1],
                                               physicalRegisters[ins.rs2], ins.imm))
      /\ e.op \notin MemOps =>
           e.val = ALU(e.op, e.pc, physicalRegisters[ins.rs1],
                       physicalRegisters[ins.rs2], ins.imm)
      /\ e.op \notin {"NOP", "HLT"} /\ e.op \in Opcode
  BY <1>1, OldestIsNext
<1>3. e.op \notin {"SW"} \cup BranchOps /\ e.rd \in GPR
  <2>1. e.rd \in Reg
    BY <1>1, EntryTypes
  <2>2. e.rd # "ZERO" /\ e.op \notin BranchOps /\ e.rd # "PC" /\ e.op # "SW"
    BY <1>1, <1>2, RegularEntry DEF CommitResult
  <2> QED
    BY <2>1, <2>2 DEF Reg
<1>4. Sequential!Running /\ Sequential!Current = ins
  BY <1>1, SequentialNext
<1>5. /\ physicalRegisters' = [physicalRegisters EXCEPT ![e.rd] = e.val]
      /\ rob' = Tail(rob) /\ UNCHANGED <<program, memory, stage, btb>>
  BY <1>2 DEF CommitResult, BroadcastAndPop
<1>6. ArchitecturalPC' = e.pc + 1
  <2>1. FetchPC' = FetchPC
    BY <1>1, <1>3, <1>5, RegAssumption DEF FetchPC, Reg
  <2>2. e.rd # "PC"
    BY <1>3, RegAssumption
  <2> QED
    BY <1>1, <1>5, <2>1, <2>2, NextAfterPop DEF Successor
<1>7. [r \in GPR \cup {"ZERO"} |-> physicalRegisters'[r]] = Sequential!Write(e.rd, e.val)
  BY <1>1, <1>3, <1>5, CommittedRegisters
<1> HIDE DEF e, ins
<1>8. CASE e.op = "LW"
  <2> DEFINE a == EffectiveAddress("LW", physicalRegisters[ins.rs1],
                                   physicalRegisters[ins.rs2], ins.imm)
  <2>1. Sequential!CurrentAddress = a
    BY <1>2, <1>4, <1>8 DEF Sequential!CurrentAddress
  <2>2. e.val \in ReadFrom(memory, a)
    BY <1>2, <1>8
  <2> HIDE DEF a
  <2>3. e.val \in Sequential!Loaded(Sequential!CurrentAddress)
    BY <2>1, <2>2, ConfigAssumption DEF ReadFrom, Sequential!Loaded, Address,
       Sequential!Address, Word, Sequential!Word
  <2>4. Sequential!Load
    BY <1>2, <1>4, <1>5, <1>6, <1>7, <1>8, <2>3 DEF Sequential!Load
  <2> QED
    BY <2>4 DEF Sequential!Next
<1>9. CASE e.op \in RegOps \cup ImmOps
  <2>1. e.val = ALU(e.op, e.pc, physicalRegisters[ins.rs1], physicalRegisters[ins.rs2], ins.imm)
    BY <1>2, <1>9 DEF RegOps, ImmOps, BitOps, MemOps
  <2>2. ins.op \in Sequential!RegOps \cup Sequential!ImmOps
    BY <1>2, <1>9 DEF RegOps, ImmOps, BitOps, Sequential!RegOps, Sequential!ImmOps,
       Sequential!BitOps
  <2>3. Sequential!Compute
    BY <1>2, <1>4, <1>5, <1>6, <1>7, <2>1, <2>2 DEF Sequential!Compute
  <2> QED
    BY <2>3 DEF Sequential!Next
<1>10. e.op \in RegOps \cup ImmOps \cup {"LW"}
  BY <1>2, <1>3 DEF Opcode, MemOps
<1> QED
  BY <1>8, <1>9, <1>10

LEMMA StoreRefines ==
  ASSUME SequentialInvariant, RegularPrograms, CommitStore
  PROVE  Sequential!Next
<1> USE SameArithmetic
<1> DEFINE e == rob[1]
           ins == InstructionAt(rob[1].pc)
<1>1. DataflowInvariant /\ ValueInvariant /\ OldestIsDone
      /\ 1 \in DOMAIN rob
  <2>1. DataflowInvariant /\ ValueInvariant /\ TypeOK /\ OldestIsDone
    BY DEF SequentialInvariant, DataflowInvariant, CommitStore
  <2> QED
    BY <2>1, OldestEntry DEF TypeOK, OldestIsDone
<1>2. /\ Head(rob) = e /\ ArchitecturalPC = e.pc /\ stage # "halted" /\ stage = "rob"
      /\ ins.op = e.op
      /\ ins.rs1 \in GPR \cup {"ZERO"} /\ ins.rs2 \in GPR \cup {"ZERO"}
      /\ e.op = "SW" =>
           /\ e.addr = EffectiveAddress("SW", physicalRegisters[ins.rs1],
                                        physicalRegisters[ins.rs2], ins.imm)
           /\ e.data = physicalRegisters[ins.rs1]
  BY <1>1, OldestIsNext
<1>3. Sequential!Running /\ Sequential!Current = ins
  BY <1>1, SequentialNext
<1>4. /\ e.op = "SW" /\ e.addr \in Address /\ memory' = [memory EXCEPT ![e.addr] = e.data]
      /\ rob' = Tail(rob) /\ UNCHANGED <<program, physicalRegisters, stage, btb>>
  BY <1>2 DEF CommitStore, BroadcastAndPop
<1>5. ArchitecturalPC' = e.pc + 1
  <2>1. e.rd # "PC"
    BY <1>1, <1>4, RegularEntry
  <2> QED
    BY <1>1, <1>4, <2>1, NextAfterPop DEF Successor, FetchPC
<1> HIDE DEF e, ins
<1>6. Sequential!CurrentAddress = e.addr
  BY <1>2, <1>3, <1>4 DEF Sequential!CurrentAddress
<1>7. Sequential!Store
  BY <1>2, <1>3, <1>4, <1>5, <1>6 DEF Sequential!Store, Address, Sequential!Address
<1> QED
  BY <1>7 DEF Sequential!Next

\* A branch is committed with the successor that the path took, or flushes
\* the path and takes its own.
LEMMA BranchRefines ==
  ASSUME SequentialInvariant, RegularPrograms, CommitBranch \/ CommitMispredicted
  PROVE  Sequential!Next
<1> USE SameArithmetic
<1> DEFINE e == rob[1]
           ins == InstructionAt(rob[1].pc)
<1>1. /\ DataflowInvariant /\ ValueInvariant /\ TypeOK /\ OldestIsDone
      /\ physicalRegisters \in [Reg -> Word] /\ 1 \in DOMAIN rob
  <2>1. DataflowInvariant /\ ValueInvariant /\ TypeOK /\ OldestIsDone
    BY DEF SequentialInvariant, DataflowInvariant, CommitBranch, CommitMispredicted
  <2> QED
    BY <2>1, OldestEntry DEF TypeOK, OldestIsDone
<1>2. /\ Head(rob) = e /\ ArchitecturalPC = e.pc /\ stage # "halted" /\ stage = "rob"
      /\ ins.op = e.op /\ e.pc \in Int
      /\ ins.rs1 \in GPR \cup {"ZERO"} /\ ins.rs2 \in GPR \cup {"ZERO"}
      /\ e.op \notin MemOps =>
           e.val = ALU(e.op, e.pc, physicalRegisters[ins.rs1],
                       physicalRegisters[ins.rs2], ins.imm)
      /\ InProgram(e.pc)
  BY <1>1, OldestIsNext DEF InProgram
<1>3. e.rd = "PC" /\ e.op \in BranchOps
  <2>1. e.rd = "PC"
    BY <1>2 DEF CommitBranch, CommitMispredicted, Mispredicted
  <2> QED
    BY <1>1, <2>1, RegularEntry
<1>4. Sequential!Running /\ Sequential!Current = ins
  BY <1>1, SequentialNext
<1>5. e.val = ALU(e.op, e.pc, physicalRegisters[ins.rs1], physicalRegisters[ins.rs2], ins.imm)
  BY <1>2, <1>3 DEF BranchOps, MemOps
<1>6. Wrap(e.pc + 1) = e.pc + 1
  <2>1. WellFormed(program)
    BY <1>1 DEF TypeOK, RegularPrograms, Regular
  <2> HIDE DEF e, InProgram
  <2>2. InstructionAt(e.pc).op # "HLT"
    BY <1>2, <1>3 DEF BranchOps, e
  <2> QED
    BY <1>1, <1>2, <2>1, <2>2, WellFormedFetch
<1>7. e.val \in {Wrap(e.pc + ins.imm), e.pc + 1}
  <2> HIDE DEF e, ins
  <2> QED
    BY <1>3, <1>5, <1>6 DEF ALU, BranchOps, BitOps
<1>8. UNCHANGED <<program, memory, stage>>
  BY DEF CommitBranch, CommitMispredicted, BroadcastAndPop
<1>9. [r \in GPR \cup {"ZERO"} |-> physicalRegisters'[r]]
        = [r \in GPR \cup {"ZERO"} |-> physicalRegisters[r]]
  BY <1>1, RegAssumption DEF CommitBranch, CommitMispredicted, Reg
<1>10. ArchitecturalPC' = e.val
  <2>1. CASE CommitBranch
    <3>1. ArchitecturalPC' = Successor(btb, e)
      BY <1>1, <2>1, NextAfterPop DEF CommitBranch, BroadcastAndPop, FetchPC
    <3>2. btb.mode = 0 \/ btb.mode = 1 \/ btb.mode = 2
      <4>1. btb.mode \in 0 .. 2
        BY <1>1, ConfigAssumption DEF TypeOK
      <4> QED
        BY <4>1
    <3>3. ~Mispredicted(e)
      BY <1>2, <2>1 DEF CommitBranch
    <3> HIDE DEF e
    <3>4. e.val = Successor(btb, e)
      BY <1>3, <1>7, <3>2, <3>3 DEF Successor, Mispredicted, ins, e
    <3> QED
      BY <3>1, <3>4
  <2>2. CASE CommitMispredicted
    BY <1>1, <1>2, <2>2 DEF CommitMispredicted, ArchitecturalPC, FetchPC, Reg
  <2> QED
    BY <2>1, <2>2
<1> HIDE DEF e, ins
<1>11. Sequential!Branch
  BY <1>2, <1>3, <1>4, <1>5, <1>8, <1>9, <1>10
     DEF Sequential!Branch, BranchOps, Sequential!BranchOps
<1> QED
  BY <1>11 DEF Sequential!Next

LEMMA EndRefines ==
  ASSUME SequentialInvariant, RegularPrograms, RobSize > 1, EndRun
  PROVE  Sequential!Next
<1>1. TypeOK /\ rob = << >> /\ stage = "end" /\ stage' = "halted"
      /\ UNCHANGED <<program, memory, physicalRegisters, rob>>
  BY DEF SequentialInvariant, DataflowInvariant, EndRun, Drained
<1>2. InProgram(FetchPC) /\ Fetched.op = "HLT"
  BY <1>1, DrainedAtHalt DEF SequentialInvariant, RegularPrograms, Regular, WithoutNop
<1>3. ArchitecturalPC = FetchPC /\ ArchitecturalPC' = FetchPC
  BY <1>1 DEF ArchitecturalPC, FetchPC
<1>4. FetchPC \in Int
  BY <1>1, <1>2, FetchTypes
<1>5. Sequential!Halt
  BY <1>1, <1>2, <1>3, <1>4
     DEF Sequential!Halt, Sequential!Running, Sequential!Current, InProgram, Fetched
<1> QED
  BY <1>5 DEF Sequential!Next

\* Everything else is invisible: what leads the path stays where it is.
LEMMA OthersStutter ==
  ASSUME SequentialInvariant,
         \/ CommitStoreOutside \/ CommitDone \/ Adder \/ LoadStore \/ Decode
         \/ EndCycle \/ Stopped \/ UNCHANGED vars
  PROVE  UNCHANGED Sequential!vars
<1>0. TypeOK /\ DataflowInvariant
  BY DEF SequentialInvariant, DataflowInvariant
<1>1. ASSUME UNCHANGED <<program, memory>>, stage # "halted", stage' # "halted",
             \A r \in Reg \ {"PC"} : physicalRegisters'[r] = physicalRegisters[r],
             ArchitecturalPC' = ArchitecturalPC
      PROVE  UNCHANGED Sequential!vars
  BY <1>1, RegAssumption DEF Sequential!vars, Reg
<1>2. CASE Stopped \/ UNCHANGED vars
  BY <1>2 DEF Stopped, vars, Sequential!vars, ArchitecturalPC, FetchPC
<1>3. CASE CommitStoreOutside \/ CommitDone \/ AdderIdle \/ LoadStoreIdle
             \/ AddressCalculation \/ MemoryLoadFault \/ FetchFault \/ DecodeStall \/ EndCycle
  <2>1. /\ UNCHANGED <<program, memory, physicalRegisters, rob>>
        /\ stage # "halted" /\ stage' # "halted"
    BY <1>3 DEF CommitStoreOutside, OldestIsDone, CommitDone, AdderIdle, LoadStoreIdle,
       AddressCalculation, MemoryLoadFault, FetchFault, DecodeStall, Decoding, EndCycle,
       NextUnit
  <2>2. ArchitecturalPC' = ArchitecturalPC
    BY <2>1 DEF ArchitecturalPC, FetchPC
  <2> QED
    BY <1>1, <2>1, <2>2
<1>4. ASSUME UNCHANGED <<program, memory, physicalRegisters>>,
             stage # "halted", stage' # "halted", NEW t, Completes(rob', t)
      PROVE  UNCHANGED Sequential!vars
  <2>1. /\ rob \in Seq(ReorderBufferEntry) /\ rob' \in Seq(ReorderBufferEntry)
        /\ Len(rob') = Len(rob)
        /\ \A i \in DOMAIN rob : rob'[i].pc = rob[i].pc
    BY <1>0, <1>4 DEF TypeOK, Completes
  <2>2. CASE rob = << >>
    BY <1>1, <1>4, <2>1, <2>2 DEF ArchitecturalPC, FetchPC
  <2>3. CASE rob # << >>
    <3>1. 1 \in DOMAIN rob /\ Head(rob) = rob[1] /\ rob' # << >> /\ Head(rob') = rob'[1]
      BY <2>1, <2>3
    <3> QED
      BY <1>1, <1>4, <2>1, <2>3, <3>1 DEF ArchitecturalPC
  <2> QED
    BY <2>2, <2>3
<1>5. CASE AdderExecute
  <2> DEFINE result(t) == ALU(rs[t].op, rs[t].pcValue, rs[t].val1, rs[t].val2, rs[t].imm)
  <2>1. PICK t \in NextReady(unit) : rob' = WithResult(t, result(t))
    BY <1>5 DEF AdderExecute
  <2>2. t \in Tag
    BY DEF NextReady, ReadyStations, Stations
  <2>3. rs[t] \in ReservationStation
    BY <1>0, <2>2 DEF TypeOK
  <2>4. result(t) \in Word
    BY <2>3, ALUIsWord DEF ReservationStation
  <2> HIDE DEF result
  <2>5. Completes(rob', t)
    BY <1>0, <2>1, <2>4, CompletedResult DEF TypeOK
  <2> QED
    BY <1>4, <1>5, <2>5 DEF AdderExecute, NextUnit
<1>6. CASE MemoryStore
  <2>1. unit \in Index(NumLoadStores)
    BY <1>0, <1>6 DEF MemoryStore, TypeOK, Turns
  <2>2. lsu[unit].addr \in Word /\ lsu[unit].data \in Word
    BY <1>0, <2>1 DEF TypeOK, LoadStoreUnit
  <2>3. Completes(rob', lsu[unit].tag)
    BY <1>0, <1>6, <2>2, CompletedStore DEF MemoryStore, TypeOK
  <2> QED
    BY <1>4, <1>6, <2>3 DEF MemoryStore, NextUnit
<1>7. CASE MemoryLoad
  <2>1. PICK v \in Loaded(lsu[unit].addr) : rob' = WithResult(lsu[unit].tag, v)
    BY <1>7 DEF MemoryLoad
  <2>2. v \in Word
    BY <1>0, ConfigAssumption DEF Loaded, TypeOK
  <2>3. Completes(rob', lsu[unit].tag)
    BY <1>0, <2>1, <2>2, CompletedResult DEF TypeOK
  <2> QED
    BY <1>4, <1>7, <2>3 DEF MemoryLoad, NextUnit
<1>8. CASE DecodeIssue \/ DecodeBranch
  <2>1. PICK t \in Tag : Issue(t)
    BY <1>8 DEF DecodeIssue, DecodeBranch, StationToUse, FreeStations
  <2> DEFINE e == NewEntry(Fetched, t, FetchPC)
  <2>2. /\ e.pc = FetchPC /\ InProgram(FetchPC)
        /\ stage # "halted" /\ stage' # "halted" /\ UNCHANGED <<program, memory>>
    BY <1>8, <2>1 DEF NewEntry, DecodeIssue, DecodeBranch, Decoding, Issue, NextUnit
  <2>3. e \in ReorderBufferEntry
    BY <1>0, <2>2, FetchTypes, SmallWords DEF NewEntry, ReorderBufferEntry
  <2> HIDE DEF e
  <2>4. rob' = Append(rob, e) /\ rob \in Seq(ReorderBufferEntry)
    BY <1>0, <2>1 DEF Issue, TypeOK, e
  <2>5. /\ Len(rob) \in Nat /\ Len(rob') = Len(rob) + 1 /\ rob' \in Seq(ReorderBufferEntry)
        /\ \A k \in DOMAIN rob : rob'[k] = rob[k]
        /\ rob'[Len(rob) + 1] = e
    BY <2>3, <2>4, AppendProperties
  <2>6. rob' # << >> /\ Head(rob') = rob'[1]
    BY <2>5
  <2>7. ArchitecturalPC' = ArchitecturalPC
    <3>1. CASE rob = << >>
      BY <2>2, <2>5, <2>6, <3>1 DEF ArchitecturalPC
    <3>2. CASE rob # << >>
      <4>1. 1 \in DOMAIN rob /\ Head(rob) = rob[1]
        BY <2>4, <3>2
      <4> QED
        BY <2>5, <2>6, <3>2, <4>1 DEF ArchitecturalPC
    <3> QED
      BY <3>1, <3>2
  <2>8. \A r \in Reg \ {"PC"} : physicalRegisters'[r] = physicalRegisters[r]
    BY <1>0, <1>8 DEF DecodeIssue, DecodeBranch, TypeOK
  <2> QED
    BY <1>1, <2>2, <2>7, <2>8
<1> QED
  BY <1>2, <1>3, <1>5, <1>6, <1>7, <1>8 DEF Adder, LoadStore, Decode

LEMMA StepRefines ==
  ASSUME SequentialInvariant, RegularPrograms, RobSize > 1, [Next]_vars
  PROVE  [Sequential!Next]_(Sequential!vars)
BY ResultRefines, StoreRefines, BranchRefines, EndRefines, OthersStutter
   DEF Next, Step, Commit

LEMMA InitRefines == Init => Sequential!Init
BY RegAssumption DEF Init, Sequential!Init, ArchitecturalPC, FetchPC, Reg, Sequential!ArchReg

\* Values stay what they are in both cases in which no store is committed to a
\* word that a finished load has read.
LEMMA ValuesStay ==
  ASSUME RegularPrograms, SeparatePrograms \/ TwoEntries PROVE Spec => []ValueInvariant
<1>1. CASE SeparatePrograms
  <2>1. DataflowInvariant /\ ValueInvariant /\ CommitStore => LoadsKept
    BY <1>1, StoreAvoidsLoads DEF LoadsKept
  <2>2. DataflowInvariant /\ ValueInvariant /\ [Next]_vars => ValueInvariant'
    BY <2>1, ValueStep
  <2> QED
    BY <2>2, InitValues, Dataflow, PTL DEF Spec
<1>2. CASE TwoEntries
  <2>1. DataflowInvariant /\ LoadsFollowStores /\ CommitStore => LoadsKept
    BY StorePrecedesLoads
  <2>2. DataflowInvariant /\ LoadsFollowStores /\ ValueInvariant /\ [Next]_vars
          => ValueInvariant'
    BY <2>1, ValueStep
  <2>3. Spec => []LoadsFollowStores
    BY <1>2, LoadsWaitForStores
  <2> QED
    BY <2>2, <2>3, InitValues, Dataflow, PTL DEF Spec
<1> QED
  BY <1>1, <1>2

\* The CPU then runs the program one instruction at a time.
LEMMA RefinesSequentialISA ==
  ASSUME RobSize > 1, RegularPrograms, SeparatePrograms \/ TwoEntries
  PROVE  Spec => SequentialSpec
<1>1. Init => PathInvariant /\ StallInvariant
  <2>1. Init => PathInvariant
    BY DEF Init, PathInvariant, OnPath
  <2>2. Init => StallInvariant
    BY DEF Init, StallInvariant
  <2> QED
    BY <2>1, <2>2
<1>2. DataflowInvariant /\ PathInvariant /\ StallInvariant /\ [Next]_vars
        => PathInvariant' /\ StallInvariant'
  BY PathStep, StallStep DEF DataflowInvariant
<1>3. DataflowInvariant /\ PathInvariant /\ ValueInvariant /\ StallInvariant /\ [Next]_vars
        => [Sequential!Next]_(Sequential!vars)
  BY StepRefines DEF SequentialInvariant
<1>4. Spec => []ValueInvariant
  BY ValuesStay
<1> QED
  BY <1>1, <1>2, <1>3, <1>4, InitRefines, Dataflow, PTL
     DEF Spec, SequentialSpec, Sequential!Spec

\* The CPU runs every orderly program one instruction at a time, with any
\* number of decoders, units, stations and entries, any predictor and any
\* memory, and stops only at HLT.
THEOREM ImplementsSequentialISA ==
  ASSUME RobSize > 1, RegularPrograms, SeparatePrograms PROVE Spec => SequentialSpec
BY RefinesSequentialISA

\* With at most two entries in flight it does so whatever the loads and stores
\* address, if one unit has a station for each entry.
THEOREM TwoEntriesSuffice ==
  ASSUME TwoEntries, RegularPrograms PROVE Spec => SequentialSpec
<1>1. RobSize > 1
  BY DEF TwoEntries
<1> QED
  BY <1>1, RefinesSequentialISA

(***************************************************************************)
(* What the documents promise of every program, and the CPU does not keep  *)
(* for some, with the condition under which it does.                       *)
(***************************************************************************)
\* What the comments at functionalUnit.hpp:47 and reorderBuffer.cpp:261 promise
\* of every load holds in these two cases: a load that commits has read what
\* memory holds after all older stores.
THEOREM LoadsAreCurrent ==
  ASSUME RegularPrograms, SeparatePrograms \/ TwoEntries
  PROVE  Spec => []LoadsReadCommittedStores
<1>1. ASSUME DataflowInvariant, ValueInvariant PROVE LoadsReadCommittedStores
  <2> DEFINE s == rs[Head(rob).tag]
             a == EffectiveAddress("LW", s.val1, s.val2, s.imm)
  <2> SUFFICES ASSUME OldestIsDone, Head(rob).op = "LW", a \in Address
               PROVE  Head(rob).val = memory[a]
    BY DEF LoadsReadCommittedStores
  <2>1. 1 \in DOMAIN rob /\ Head(rob) = rob[1] /\ rob[1].valid
    BY <1>1, OldestEntry DEF DataflowInvariant, TypeOK, OldestIsDone
  <2>2. s.op = "LW"
    BY <1>1, <2>1 DEF DataflowInvariant, CarriesInstruction
  <2>3. rob[1].val \in ReadFrom(memory, AddressOf(s))
    BY <1>1, <2>1 DEF ValueInvariant, ResultsAreComputed, Computed
  <2> QED
    BY <2>1, <2>2, <2>3 DEF AddressOf, ReadFrom
<1>2. Spec => []ValueInvariant
  BY ValuesStay
<1> QED
  BY <1>1, <1>2, Dataflow, PTL

\* "dont try and put a NOP instruction in a reservation station, just do
\* nothing" (decoder.cpp:49) would let HLT alone end a run.  It is so for every
\* program without a NOP, also one that is not well formed, if the buffer has
\* an entry: whatever else stalls the decoder, something is still in flight.
THEOREM OnlyHaltEndsARun ==
  ASSUME RobSize > 1, WithoutNop PROVE Spec => []HaltsOnlyAtHalt
<1>1. Init => StallInvariant /\ HaltsOnlyAtHalt
  BY DEF Init, StallInvariant, HaltsOnlyAtHalt
<1>2. TypeOK /\ StallInvariant /\ HaltsOnlyAtHalt /\ [Next]_vars
        => StallInvariant' /\ HaltsOnlyAtHalt'
  <2> SUFFICES ASSUME TypeOK, StallInvariant, HaltsOnlyAtHalt, [Next]_vars
               PROVE  HaltsOnlyAtHalt'
    BY StallStep
  <2>1. CASE EndRun
    <3>1. Fetched.op = "HLT"
      BY <2>1, DrainedAtHalt
    <3> QED
      BY <2>1, <3>1 DEF EndRun, HaltsOnlyAtHalt, Fetched, FetchPC
  <2>2. CASE Stopped \/ UNCHANGED vars
    BY <2>2 DEF Stopped, vars, HaltsOnlyAtHalt, Fetched, FetchPC
  <2>3. CASE Commit
    BY <2>3 DEF Commit, CommitResult, CommitBranch, CommitStore, CommitStoreOutside,
       CommitMispredicted, CommitDone, BroadcastAndPop, OldestIsDone, HaltsOnlyAtHalt
  <2>4. CASE Adder \/ LoadStore
    BY <2>4 DEF Adder, AdderIdle, AdderExecute, LoadStore, LoadStoreIdle,
       AddressCalculation, MemoryStore, MemoryLoad, MemoryLoadFault, NextUnit,
       HaltsOnlyAtHalt
  <2>5. CASE Decode \/ EndCycle
    <3>1. ASSUME DecodeIssue \/ DecodeBranch PROVE stage' # "halted"
      <4>1. stage = "decode" /\ NextUnit(NumDecoders, "end")
        BY <3>1 DEF DecodeIssue, DecodeBranch, Decoding, Issue
      <4> QED
        BY <4>1 DEF NextUnit
    <3>2. ASSUME FetchFault \/ DecodeStall \/ EndCycle PROVE stage' # "halted"
      BY <3>2 DEF FetchFault, DecodeStall, EndCycle
    <3> QED
      BY <2>5, <3>1, <3>2 DEF Decode, HaltsOnlyAtHalt
  <2> QED
    BY <2>1, <2>2, <2>3, <2>4, <2>5 DEF Next, Step
<1> QED
  BY <1>1, <1>2, TypeCorrectness, PTL DEF Spec

\* No instruction that writes a register names x0 as its destination.
ZeroIsNoDestination ==
    \A p \in Programs : \A i \in DOMAIN p :
        p[i].rd = "ZERO" => p[i].op \in {"SW", "HLT", "NOP"}

\* The decoder reads x0 from the table, and a flush fills the table from the
\* registers.  NOP and HLT name x0 too, but are not issued.
ZeroInvariant ==
    /\ physicalRegisters["ZERO"] = 0 /\ rst["ZERO"].value = 0
    /\ \A i \in DOMAIN rob : rob[i].op \notin {"NOP", "HLT"}

LEMMA AnswersKeepOpcodes ==
  ASSUME rob \in Seq(ReorderBufferEntry), NEW t, NEW v, NEW a, NEW d,
         rob' = WithResult(t, v) \/ rob' = WithStore(t, a, d)
  PROVE  DOMAIN rob' = DOMAIN rob /\ \A i \in DOMAIN rob : rob'[i].op = rob[i].op
<1>1. \A i \in DOMAIN rob : rob[i] \in ReorderBufferEntry
  OBVIOUS
<1> QED
  BY <1>1 DEF WithResult, WithStore, ReorderBufferEntry

LEMMA CommitKeepsZero ==
  ASSUME ZeroIsNoDestination, DataflowInvariant, ZeroInvariant, Commit
  PROVE  ZeroInvariant'
<1> DEFINE e == Head(rob)
<1>1. CASE CommitDone \/ CommitStoreOutside
  BY <1>1 DEF CommitDone, CommitStoreOutside, ZeroInvariant
<1>2. CASE OldestIsDone
  <2>1. rob \in Seq(ReorderBufferEntry) /\ rob # << >>
    BY <1>2 DEF DataflowInvariant, TypeOK, OldestIsDone
  <2>2. /\ e \in ReorderBufferEntry /\ 1 \in DOMAIN rob /\ e = rob[1]
        /\ Len(rob) \in Nat /\ DOMAIN rob = 1 .. Len(rob)
        /\ DOMAIN Tail(rob) = 1 .. (Len(rob) - 1)
    BY <2>1, OldestEntry
  <2>3. \A i \in DOMAIN Tail(rob) : i + 1 \in DOMAIN rob /\ Tail(rob)[i] = rob[i + 1]
    BY <2>1, <2>2
  <2>4. \A i \in DOMAIN Tail(rob) : Tail(rob)[i].op \notin {"NOP", "HLT"}
    BY <2>3 DEF ZeroInvariant
  <2>5. e.tag # NoTag
    BY <2>2, TagsDiffer DEF ReorderBufferEntry
  <2>6. e.op # "SW" => e.rd # "ZERO"
    <3>1. /\ e.pc + 1 \in DOMAIN program /\ e.op \notin {"NOP", "HLT"}
          /\ e.op = program[e.pc + 1].op /\ e.rd = program[e.pc + 1].rd
      BY <2>2 DEF DataflowInvariant, CarriesInstruction, InstructionAt, InProgram,
         ZeroInvariant
    <3>2. program \in Programs
      BY DEF DataflowInvariant, TypeOK
    <3> QED
      BY <3>1, <3>2 DEF ZeroIsNoDestination
  <2>7. rst["ZERO"].tag = NoTag /\ "ZERO" \in Reg
    BY DEF DataflowInvariant, NeverRenamed, Reg
  <2> HIDE DEF e
  <2>8. CASE CommitResult \/ CommitBranch \/ CommitStore
    <3>1. rst' = BroadcastToRegisters(rst, e.tag, e.val) /\ rob' = Tail(rob)
      BY <2>8 DEF CommitResult, CommitBranch, CommitStore, BroadcastAndPop, e
    <3>2. physicalRegisters'["ZERO"] = physicalRegisters["ZERO"]
      <4>1. CASE CommitResult
        <5>1. /\ e.rd # "ZERO"
              /\ physicalRegisters' = [physicalRegisters EXCEPT ![e.rd] = e.val]
          BY <2>6, <4>1 DEF CommitResult, e
        <5> QED
          BY <5>1
      <4>2. CASE CommitBranch \/ CommitStore
        BY <4>2 DEF CommitBranch, CommitStore
      <4> QED
        BY <2>8, <4>1, <4>2
    <3> QED
      BY <2>4, <2>5, <2>7, <3>1, <3>2 DEF BroadcastToRegisters, ZeroInvariant
  <2>9. CASE CommitMispredicted
    <3>1. /\ rst' = BroadcastToRegisters(FlushedRegisters, e.tag, e.val)
          /\ rob' = << >> /\ physicalRegisters'["ZERO"] = physicalRegisters["ZERO"]
      BY <2>9 DEF CommitMispredicted, e
    <3> QED
      BY <2>5, <2>7, <3>1 DEF BroadcastToRegisters, FlushedRegisters, ZeroInvariant
  <2> QED
    BY <1>1, <2>8, <2>9 DEF Commit
<1> QED
  BY <1>1, <1>2 DEF Commit, CommitResult, CommitBranch, CommitStore, CommitMispredicted

LEMMA DecodeKeepsZero ==
  ASSUME DataflowInvariant, ZeroInvariant, DecodeIssue \/ DecodeBranch
  PROVE  ZeroInvariant'
<1>1. /\ rob \in Seq(ReorderBufferEntry) /\ rst \in [Reg -> RegisterStatusEntry]
      /\ physicalRegisters \in [Reg -> Word]
  BY DEF DataflowInvariant, TypeOK
<1>2. "ZERO" \in Reg /\ "PC" \in Reg /\ "ZERO" \notin GPR /\ GPR \subseteq Reg
  BY RegAssumption DEF Reg
<1>3. PICK t : rob' = Append(rob, NewEntry(Fetched, t, FetchPC))
  BY DEF DecodeIssue, DecodeBranch, Issue
<1>4. physicalRegisters'["ZERO"] = 0
  BY <1>1, <1>2 DEF DecodeIssue, DecodeBranch, ZeroInvariant
<1>5. ASSUME NEW u
      PROVE  /\ Renamed(rst, Fetched.rd, u)["ZERO"] = rst["ZERO"]
             /\ DOMAIN Renamed(rst, Fetched.rd, u) = Reg
  BY <1>1, <1>2 DEF Renamed
<1>6. rst'["ZERO"].value = 0
  <2>1. rst'["ZERO"] = rst["ZERO"]
    BY <1>2, <1>5 DEF DecodeIssue, DecodeBranch
  <2> QED
    BY <2>1 DEF ZeroInvariant
<1>7. ASSUME NEW i \in DOMAIN rob'
      PROVE  rob'[i].op \notin {"NOP", "HLT"}
  <2>1. Fetched.op \notin {"NOP", "HLT"}
    BY DEF DecodeIssue, DecodeBranch, CanIssue
  <2>2. NewEntry(Fetched, t, FetchPC).op = Fetched.op
    BY DEF NewEntry
  <2> DEFINE e == NewEntry(Fetched, t, FetchPC)
  <2> HIDE DEF e
  <2>3. Len(rob) \in Nat /\ DOMAIN rob = 1 .. Len(rob) /\ DOMAIN rob' = 1 .. (Len(rob) + 1)
        /\ rob'[i] = IF i = Len(rob) + 1 THEN e ELSE rob[i]
    BY <1>1, <1>3 DEF e
  <2>4. CASE i = Len(rob) + 1
    BY <2>1, <2>2, <2>3, <2>4 DEF e
  <2>5. CASE i # Len(rob) + 1
    <3>1. i \in DOMAIN rob
      BY <2>3, <2>5
    <3> QED
      BY <2>3, <2>5, <3>1 DEF ZeroInvariant
  <2> QED
    BY <2>4, <2>5
<1> QED
  BY <1>4, <1>6, <1>7 DEF ZeroInvariant

LEMMA ZeroStep ==
  ASSUME ZeroIsNoDestination, DataflowInvariant, ZeroInvariant, [Next]_vars
  PROVE  ZeroInvariant'
<1>1. CASE Commit
  BY <1>1, CommitKeepsZero
<1>2. CASE DecodeIssue \/ DecodeBranch
  BY <1>2, DecodeKeepsZero
<1>3. CASE Adder \/ LoadStore
  <2>1. UNCHANGED <<physicalRegisters, rst>>
    BY <1>3 DEF Adder, AdderIdle, AdderExecute, LoadStore, LoadStoreIdle,
       AddressCalculation, MemoryStore, MemoryLoad, MemoryLoadFault
  <2>2. \/ rob' = rob
        \/ \E t, v : rob' = WithResult(t, v)
        \/ \E t, a, d : rob' = WithStore(t, a, d)
    BY <1>3 DEF Adder, AdderIdle, AdderExecute, LoadStore, LoadStoreIdle,
       AddressCalculation, MemoryStore, MemoryLoad, MemoryLoadFault
  <2>3. DOMAIN rob' = DOMAIN rob /\ \A i \in DOMAIN rob : rob'[i].op = rob[i].op
    BY <2>2, AnswersKeepOpcodes DEF DataflowInvariant, TypeOK
  <2> QED
    BY <2>1, <2>3 DEF ZeroInvariant
<1>4. CASE UNCHANGED <<physicalRegisters, rst, rob>>
  BY <1>4 DEF ZeroInvariant
<1> QED
  BY <1>1, <1>2, <1>3, <1>4 DEF Next, Step, Decode, FetchFault, DecodeStall, EndCycle,
     EndRun, Stopped, vars

\* "x0 should never change" (decoder.cpp:175) is so for every program that
\* never names it as a destination, also one that is not well formed: neither
\* the bus, nor a flush, nor a store's result reaches it.
THEOREM ZeroStaysZero ==
  ASSUME ZeroIsNoDestination PROVE Spec => []ZeroNeverChanges
<1>1. Init => ZeroInvariant
  BY DEF Init, ZeroInvariant, Reg
<1>2. DataflowInvariant /\ ZeroInvariant /\ [Next]_vars => ZeroInvariant'
  BY ZeroStep
<1>3. ZeroInvariant => ZeroNeverChanges
  BY DEF ZeroInvariant, ZeroNeverChanges
<1> QED
  BY <1>1, <1>2, <1>3, Dataflow, PTL DEF Spec
===============================================================================
