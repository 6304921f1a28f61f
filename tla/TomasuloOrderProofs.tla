-------------------------- MODULE TomasuloOrderProofs --------------------------
(***************************************************************************)
(* The order of the out-of-order CPU, proved for every configuration and   *)
(* program: the reorder buffer is used as a queue, the stations' ages      *)
(* follow it, a finished entry is final, the oldest entry is never stuck,  *)
(* and with two entries a load waits for the store before it.              *)
(***************************************************************************)
EXTENDS TomasuloDataflowProofs

(***************************************************************************)
(* All that a step can do to the reorder buffer, with the ages of the      *)
(* stations.                                                               *)
(***************************************************************************)
AgesKept ==
    /\ \A u \in Tag : rs'[u].insertionCycle = rs[u].insertionCycle
    /\ decodes' \in Nat /\ decodes' >= decodes

Keeps == rob' = rob /\ AgesKept

Pops == OldestIsDone /\ rob' = Tail(rob) /\ AgesKept

Flushes == OldestIsDone /\ rob' = << >>

Answers ==
    /\ \E k \in DOMAIN rob : ~rob[k].valid /\ Completes(rob', rob[k].tag)
    /\ AgesKept

Issues ==
    \E e \in ReorderBufferEntry :
        /\ Len(rob) < MaxEntries
        /\ rob' = Append(rob, e)
        /\ ~e.valid /\ rs[e.tag].empty
        /\ rs'[e.tag].insertionCycle = decodes
        /\ \A u \in Tag : u # e.tag => rs'[u] = rs[u]
        /\ decodes' = decodes + 1

QueueStep == Keeps \/ Pops \/ Flushes \/ Answers \/ Issues

(***************************************************************************)
(* A broadcast and an execution leave the ages.                            *)
(***************************************************************************)
LEMMA BroadcastKeepsAges ==
  ASSUME NEW table \in [Tag -> ReservationStation], NEW t \in Tag, NEW v \in Word,
         NEW u \in Tag
  PROVE  BroadcastToStations(table, t, v)[u].insertionCycle = table[u].insertionCycle
<1> DEFINE s == Snooped(table[u], t, v)
<1>1. table[u] \in ReservationStation
  OBVIOUS
<1>2. s.insertionCycle = table[u].insertionCycle
  BY <1>1 DEF Snooped, ReservationStation
<1>3. s \in ReservationStation
  BY <1>1, StationTypes
<1> HIDE DEF s
<1>4. Cleared(s).insertionCycle = s.insertionCycle
  BY <1>3 DEF Cleared, ReservationStation
<1>5. BroadcastToStations(table, t, v)[u] = IF u = t THEN Cleared(s) ELSE s
  BY DEF BroadcastToStations, s
<1> QED
  BY <1>2, <1>4, <1>5

LEMMA BusyKeepsAges ==
  ASSUME rs \in [Tag -> ReservationStation], NEW t \in Tag,
         rs' = [rs EXCEPT ![t].busy = TRUE], NEW u \in Tag
  PROVE  rs'[u].insertionCycle = rs[u].insertionCycle
<1>1. CASE u = t
  BY <1>1 DEF ReservationStation
<1>2. CASE u # t
  BY <1>2
<1> QED
  BY <1>1, <1>2

LEMMA UnchangedKeeps == ASSUME TypeOK, UNCHANGED <<rob, rs>>, decodes' \in {decodes, decodes + 1}
                        PROVE  QueueStep
BY DEF QueueStep, Keeps, AgesKept, TypeOK

(***************************************************************************)
(* Every step is one of these.                                             *)
(***************************************************************************)
LEMMA PopIsQueueStep ==
  ASSUME TypeOK, OldestIsDone, BroadcastAndPop(Head(rob))
  PROVE  QueueStep
<1>1. Head(rob).tag \in Tag /\ Head(rob).val \in Word
  <2>1. Head(rob) \in ReorderBufferEntry
    BY OldestEntry DEF TypeOK, OldestIsDone
  <2> QED
    BY <2>1 DEF ReorderBufferEntry
<1>2. rs \in [Tag -> ReservationStation] /\ decodes \in Nat
  BY DEF TypeOK
<1>3. /\ rs' = BroadcastToStations(rs, Head(rob).tag, Head(rob).val)
      /\ rob' = Tail(rob) /\ decodes' = decodes
  BY DEF BroadcastAndPop
<1>4. \A u \in Tag : rs'[u].insertionCycle = rs[u].insertionCycle
  BY <1>1, <1>2, <1>3, BroadcastKeepsAges
<1> QED
  BY <1>2, <1>3, <1>4 DEF QueueStep, Pops, AgesKept

LEMMA CommitIsQueueStep == ASSUME TypeOK, Commit PROVE QueueStep
<1>1. CASE CommitResult
  BY <1>1, PopIsQueueStep DEF CommitResult
<1>2. CASE CommitBranch
  BY <1>2, PopIsQueueStep DEF CommitBranch
<1>3. CASE CommitStore
  BY <1>3, PopIsQueueStep DEF CommitStore
<1>4. CASE CommitStoreOutside
  BY <1>4, UnchangedKeeps DEF CommitStoreOutside
<1>5. CASE CommitMispredicted
  BY <1>5 DEF CommitMispredicted, QueueStep, Flushes
<1>6. CASE CommitDone
  BY <1>6, UnchangedKeeps DEF CommitDone
<1> QED
  BY <1>1, <1>2, <1>3, <1>4, <1>5, <1>6 DEF Commit

LEMMA AdderIsQueueStep == ASSUME DataflowInvariant, Adder PROVE QueueStep
<1>0. TypeOK
  BY DEF DataflowInvariant
<1>1. CASE AdderIdle
  BY <1>0, <1>1, UnchangedKeeps DEF AdderIdle
<1>2. CASE AdderExecute
  <2> DEFINE result(t) == ALU(rs[t].op, rs[t].pcValue, rs[t].val1, rs[t].val2, rs[t].imm)
  <2>1. PICK t \in NextReady(unit) : /\ rs' = [rs EXCEPT ![t].busy = TRUE]
                                     /\ rob' = WithResult(t, result(t))
    BY <1>2 DEF AdderExecute
  <2>2. t \in Tag /\ Ready(t)
    BY DEF NextReady, ReadyStations, Stations
  <2>3. result(t) \in Word
    <3>1. rs[t] \in ReservationStation
      BY <1>0, <2>2 DEF TypeOK
    <3> QED
      BY <3>1, ALUIsWord DEF ReservationStation
  <2> HIDE DEF result
  <2>4. Completes(rob', t)
    BY <1>0, <2>1, <2>3, CompletedResult DEF TypeOK
  <2>5. \E k \in DOMAIN rob : ~rob[k].valid /\ Completes(rob', rob[k].tag)
    BY <2>2, <2>4, ReadyEntry
  <2>6. \A u \in Tag : rs'[u].insertionCycle = rs[u].insertionCycle
    BY <1>0, <2>1, <2>2, BusyKeepsAges DEF TypeOK
  <2>7. decodes' = decodes /\ decodes \in Nat
    BY <1>0, <1>2 DEF AdderExecute, TypeOK
  <2> QED
    BY <2>5, <2>6, <2>7 DEF QueueStep, Answers, AgesKept
<1> QED
  BY <1>1, <1>2 DEF Adder

LEMMA AnswerIsQueueStep ==
  ASSUME DataflowInvariant, stage = "loadstore",
         lsu[unit].phase = "MEMORY_OPERATION",
         Completes(rob', lsu[unit].tag),
         UNCHANGED <<rs, decodes>>
  PROVE  QueueStep
<1>1. TypeOK
  BY DEF DataflowInvariant
<1>2. unit \in Index(NumLoadStores)
  BY <1>1 DEF TypeOK, Turns
<1>3. PICK k \in DOMAIN rob : rob[k].tag = lsu[unit].tag /\ ~rob[k].valid
  BY <1>2 DEF DataflowInvariant, ExecutionOwnership
<1>4. AgesKept
  BY <1>1 DEF AgesKept, TypeOK
<1> QED
  BY <1>3, <1>4 DEF QueueStep, Answers

LEMMA LoadStoreIsQueueStep == ASSUME DataflowInvariant, LoadStore PROVE QueueStep
<1>0. TypeOK
  BY DEF DataflowInvariant
<1>1. CASE LoadStoreIdle
  BY <1>0, <1>1, UnchangedKeeps DEF LoadStoreIdle
<1>2. CASE AddressCalculation
  <2>1. PICK t \in OldestReady(unit) : rs' = [rs EXCEPT ![t].busy = TRUE]
    BY <1>2 DEF AddressCalculation
  <2>2. t \in Tag
    BY DEF OldestReady, ReadyStations, Stations
  <2>3. \A u \in Tag : rs'[u].insertionCycle = rs[u].insertionCycle
    BY <1>0, <2>1, <2>2, BusyKeepsAges DEF TypeOK
  <2>4. decodes' = decodes /\ decodes \in Nat /\ rob' = rob
    BY <1>0, <1>2 DEF AddressCalculation, TypeOK
  <2> QED
    BY <2>3, <2>4 DEF QueueStep, Keeps, AgesKept
<1>3. CASE MemoryStore
  <2>1. unit \in Index(NumLoadStores)
    BY <1>0, <1>3 DEF MemoryStore, TypeOK, Turns
  <2>2. lsu[unit].addr \in Word /\ lsu[unit].data \in Word
    BY <1>0, <2>1 DEF TypeOK, LoadStoreUnit
  <2>3. Completes(rob', lsu[unit].tag)
    BY <1>0, <1>3, <2>2, CompletedStore DEF MemoryStore, TypeOK
  <2> QED
    BY <1>3, <2>3, AnswerIsQueueStep DEF MemoryStore
<1>4. CASE MemoryLoad
  <2>1. PICK v \in Loaded(lsu[unit].addr) : rob' = WithResult(lsu[unit].tag, v)
    BY <1>4 DEF MemoryLoad
  <2>2. v \in Word
    BY <1>0, ConfigAssumption DEF Loaded, TypeOK
  <2>3. Completes(rob', lsu[unit].tag)
    BY <1>0, <2>1, <2>2, CompletedResult DEF TypeOK
  <2> QED
    BY <1>4, <2>3, AnswerIsQueueStep DEF MemoryLoad
<1>5. CASE MemoryLoadFault
  BY <1>0, <1>5, UnchangedKeeps DEF MemoryLoadFault
<1> QED
  BY <1>1, <1>2, <1>3, <1>4, <1>5 DEF LoadStore

LEMMA IssueIsQueueStep ==
  ASSUME TypeOK, InProgram(FetchPC), CanIssue, NEW t \in Tag, rs[t].empty, Issue(t)
  PROVE  QueueStep
<1> DEFINE e == NewEntry(Fetched, t, FetchPC)
<1>1. e \in ReorderBufferEntry /\ e.tag = t /\ ~e.valid
  BY FetchTypes, SmallWords DEF NewEntry, ReorderBufferEntry
<1>2. Len(rob) < MaxEntries
  <2>1. Len(rob) \in Nat /\ MaxEntries \in Int
    BY ConfigAssumption DEF MaxEntries, TypeOK
  <2> QED
    BY <2>1 DEF CanIssue, RobFull
<1>3. rob' = Append(rob, e) /\ decodes' = decodes + 1
  BY DEF Issue
<1>4. rs'[t].insertionCycle = decodes /\ \A u \in Tag : u # t => rs'[u] = rs[u]
  BY DEF Issue, FilledStation, TypeOK
<1> HIDE DEF e
<1> QED
  BY <1>1, <1>2, <1>3, <1>4 DEF QueueStep, Issues

LEMMA DecodeIsQueueStep == ASSUME TypeOK, Decode PROVE QueueStep
<1>1. CASE FetchFault
  BY <1>1, UnchangedKeeps DEF FetchFault
<1>2. CASE DecodeStall
  BY <1>2, UnchangedKeeps DEF DecodeStall
<1>3. CASE DecodeIssue
  <2>1. PICK t \in StationToUse(RequiredType(Fetched.op)) : Issue(t)
    BY <1>3 DEF DecodeIssue
  <2>2. t \in Tag /\ rs[t].empty
    BY DEF StationToUse, FreeStations
  <2> QED
    BY <1>3, <2>1, <2>2, IssueIsQueueStep DEF DecodeIssue
<1>4. CASE DecodeBranch
  <2>1. PICK t \in StationToUse("ADDER") : Issue(t)
    BY <1>4 DEF DecodeBranch
  <2>2. t \in Tag /\ rs[t].empty
    BY DEF StationToUse, FreeStations
  <2> QED
    BY <1>4, <2>1, <2>2, IssueIsQueueStep DEF DecodeBranch
<1> QED
  BY <1>1, <1>2, <1>3, <1>4 DEF Decode

LEMMA NextIsQueueStep == ASSUME DataflowInvariant, [Next]_vars PROVE QueueStep
<1>0. TypeOK
  BY DEF DataflowInvariant
<1>1. CASE Commit
  BY <1>0, <1>1, CommitIsQueueStep
<1>2. CASE Adder
  BY <1>2, AdderIsQueueStep
<1>3. CASE LoadStore
  BY <1>3, LoadStoreIsQueueStep
<1>4. CASE Decode
  BY <1>0, <1>4, DecodeIsQueueStep
<1>5. CASE EndCycle \/ EndRun
  BY <1>0, <1>5, UnchangedKeeps DEF EndCycle, EndRun
<1>6. CASE Stopped \/ UNCHANGED vars
  BY <1>0, <1>6, UnchangedKeeps DEF Stopped, vars
<1> QED
  BY <1>1, <1>2, <1>3, <1>4, <1>5, <1>6 DEF Next, Step

(***************************************************************************)
(* The reorder buffer is a bounded queue.                                  *)
(***************************************************************************)
LEMMA StepRefinesQueue ==
  ASSUME DataflowInvariant, [Next]_vars
  PROVE  [RobQueue!Next]_rob
<1>1. rob \in Seq(ReorderBufferEntry)
  BY DEF DataflowInvariant, TypeOK
<1>2. OldestIsDone => RobQueue!OldestIsValid
  BY DEF OldestIsDone, RobQueue!OldestIsValid
<1>3. CASE Keeps
  BY <1>3 DEF Keeps
<1>4. CASE Pops
  BY <1>2, <1>4 DEF Pops, RobQueue!Commit, RobQueue!Next
<1>5. CASE Flushes
  BY <1>2, <1>5 DEF Flushes, RobQueue!Flush, RobQueue!Next
<1>6. CASE Answers
  <2>1. PICK k \in DOMAIN rob : Completes(rob', rob[k].tag)
    BY <1>6 DEF Answers
  <2>2. \A i \in DOMAIN rob :
          IF rob[i].tag = rob[k].tag
            THEN rob'[i].tag = rob[i].tag /\ rob'[i].valid
            ELSE rob'[i] = rob[i]
    BY <2>1 DEF Completes
  <2>3. Len(rob') = Len(rob)
    BY <2>1 DEF Completes
  <2> QED
    BY <2>2, <2>3 DEF RobQueue!Complete, RobQueue!Next
<1>7. CASE Issues
  <2>1. PICK e \in ReorderBufferEntry :
          Len(rob) < MaxEntries /\ rob' = Append(rob, e) /\ ~e.valid
    BY <1>7 DEF Issues
  <2>2. /\ Len(rob') = Len(rob) + 1
        /\ \A i \in DOMAIN rob : rob'[i] = rob[i]
        /\ rob'[Len(rob')] = e
    BY <1>1, <2>1, AppendProperties
  <2> QED
    BY <2>1, <2>2 DEF RobQueue!Push, RobQueue!Next
<1>8. QueueStep
  BY NextIsQueueStep
<1> QED
  BY <1>3, <1>4, <1>5, <1>6, <1>7, <1>8 DEF QueueStep

\* Whatever the units, decoders and flushes do, the CPU uses its reorder
\* buffer as the bounded queue that the circular array implements.
THEOREM UsesQueue == Spec => RobIsQueue
<1>1. Init => RobQueue!Init
  BY DEF Init, RobQueue!Init
<1>2. DataflowInvariant /\ [Next]_vars => [RobQueue!Next]_rob
  BY StepRefinesQueue
<1> QED
  BY <1>1, <1>2, Dataflow, PTL DEF Spec, RobIsQueue, RobQueue!Spec

(***************************************************************************)
(* A finished entry is final.                                              *)
(***************************************************************************)
FinalStep ==
    \A i \in DOMAIN rob, j \in DOMAIN rob' :
        rob[i].valid /\ SameEntry(rob[i], rob'[j]) => rob'[j] = rob[i]

LEMMA StepKeepsResults == ASSUME DataflowInvariant, [Next]_vars PROVE FinalStep
<1> SUFFICES ASSUME NEW i \in DOMAIN rob, NEW j \in DOMAIN rob',
                    rob[i].valid, rob[i].tag = rob'[j].tag
             PROVE  rob'[j] = rob[i]
  BY DEF FinalStep, SameEntry
<1>1. /\ rob \in Seq(ReorderBufferEntry) /\ Len(rob) \in Nat
      /\ DOMAIN rob = 1 .. Len(rob)
      /\ \A k \in DOMAIN rob : rob[k].tag \in Tag
  BY EntryTypes DEF DataflowInvariant, TypeOK
<1>2. ASSUME NEW k \in DOMAIN rob, rob[k].tag = rob[i].tag
      PROVE  k = i
  BY <1>2 DEF DataflowInvariant, TagDiscipline
<1>3. CASE Keeps
  BY <1>2, <1>3 DEF Keeps
<1>4. CASE Pops
  <2>1. rob' = Tail(rob) /\ rob # << >>
    BY <1>4 DEF Pops, OldestIsDone
  <2>2. /\ DOMAIN rob' = 1 .. (Len(rob) - 1)
        /\ \A k \in 1 .. (Len(rob) - 1) : rob'[k] = rob[k + 1]
    BY <1>1, <2>1, OldestEntry
  <2>3. rob'[j] = rob[j + 1] /\ j + 1 \in DOMAIN rob
    BY <1>1, <2>2
  <2> QED
    BY <1>2, <2>3
<1>5. CASE Flushes
  BY <1>5 DEF Flushes
<1>6. CASE Answers
  <2>1. PICK k \in DOMAIN rob : ~rob[k].valid /\ Completes(rob', rob[k].tag)
    BY <1>6 DEF Answers
  <2>2. j \in DOMAIN rob /\ rob'[j].tag = rob[j].tag
    BY <2>1 DEF Completes
  <2>3. j = i
    BY <1>2, <2>2
  <2>4. rob[i].tag # rob[k].tag
    BY <1>2, <2>1
  <2> QED
    BY <2>1, <2>3, <2>4 DEF Completes
<1>7. CASE Issues
  <2>1. PICK e \in ReorderBufferEntry : rob' = Append(rob, e) /\ rs[e.tag].empty
    BY <1>7 DEF Issues
  <2>2. /\ DOMAIN rob' = 1 .. (Len(rob) + 1)
        /\ \A k \in DOMAIN rob : rob'[k] = rob[k]
        /\ rob'[Len(rob) + 1] = e
    BY <1>1, <2>1, AppendProperties
  <2>3. ~rs[rob[i].tag].empty
    BY DEF DataflowInvariant, TagDiscipline
  <2>4. j # Len(rob) + 1
    BY <2>1, <2>2, <2>3
  <2>5. j \in DOMAIN rob
    BY <1>1, <2>2, <2>4
  <2> QED
    BY <1>2, <2>2, <2>5
<1>8. QueueStep
  BY NextIsQueueStep
<1> QED
  BY <1>3, <1>4, <1>5, <1>6, <1>7, <1>8 DEF QueueStep

\* No answer of a unit, however late, and no reuse of a tag after a flush
\* changes an entry that is finished.
THEOREM FinishedIsFinal == Spec => ResultsAreFinal
<1>1. DataflowInvariant /\ [Next]_vars => [FinalStep]_vars
  BY StepKeepsResults
<1> QED
  BY <1>1, Dataflow, PTL DEF Spec, ResultsAreFinal, FinalStep

(***************************************************************************)
(* Ages.                                                                   *)
(***************************************************************************)
AgeIn(stations, entries, i) == stations[entries[i].tag].insertionCycle

Age(i) == AgeIn(rs, rob, i)

AgeInvariant ==
    /\ AgeOrder
    /\ \A i \in DOMAIN rob : Age(i) < decodes

LEMMA StepKeepsAges ==
  ASSUME DataflowInvariant, AgeInvariant, [Next]_vars
  PROVE  AgeInvariant'
<1>1. /\ rob \in Seq(ReorderBufferEntry) /\ Len(rob) \in Nat
      /\ DOMAIN rob = 1 .. Len(rob)
      /\ \A k \in DOMAIN rob : rob[k].tag \in Tag
      /\ decodes \in Nat
  BY EntryTypes DEF DataflowInvariant, TypeOK
<1>2. \A k \in DOMAIN rob : Age(k) \in Int
  BY <1>1 DEF DataflowInvariant, TypeOK, ReservationStation, Age, AgeIn
<1>3. /\ \A i, j \in DOMAIN rob : i < j => Age(i) < Age(j)
      /\ \A i \in DOMAIN rob : Age(i) < decodes
  BY DEF AgeInvariant, AgeOrder, Age, AgeIn
<1>4. SUFFICES /\ \A i, j \in DOMAIN rob' : i < j => Age(i)' < Age(j)'
               /\ \A i \in DOMAIN rob' : Age(i)' < decodes'
  BY DEF AgeInvariant, AgeOrder, Age, AgeIn
<1>5. ASSUME AgesKept, DOMAIN rob' = DOMAIN rob,
             \A k \in DOMAIN rob : rob'[k].tag = rob[k].tag
      PROVE  /\ \A i, j \in DOMAIN rob' : i < j => Age(i)' < Age(j)'
             /\ \A i \in DOMAIN rob' : Age(i)' < decodes'
  <2>1. \A k \in DOMAIN rob : Age(k)' = Age(k)
    BY <1>1, <1>5 DEF AgesKept, Age, AgeIn
  <2>2. decodes' \in Nat /\ decodes' >= decodes
    BY <1>5 DEF AgesKept
  <2> HIDE DEF Age
  <2> QED
    BY <1>1, <1>2, <1>3, <1>5, <2>1, <2>2
<1>6. CASE Keeps
  BY <1>5, <1>6 DEF Keeps
<1>7. CASE Pops
  <2>1. rob' = Tail(rob) /\ rob # << >>
    BY <1>7 DEF Pops, OldestIsDone
  <2>2. /\ DOMAIN rob' = 1 .. (Len(rob) - 1)
        /\ \A k \in 1 .. (Len(rob) - 1) : rob'[k] = rob[k + 1]
    BY <1>1, <2>1, OldestEntry
  <2>3. \A k \in DOMAIN rob' : k \in Int /\ k + 1 \in DOMAIN rob /\ rob'[k] = rob[k + 1]
    BY <1>1, <2>2
  <2>4. \A k \in DOMAIN rob' : Age(k)' = Age(k + 1)
    BY <1>1, <1>7, <2>3 DEF Pops, AgesKept, Age, AgeIn
  <2>5. decodes' \in Nat /\ decodes' >= decodes
    BY <1>7 DEF Pops, AgesKept
  <2>6. ASSUME NEW i \in DOMAIN rob', NEW j \in DOMAIN rob', i < j
        PROVE  Age(i + 1) < Age(j + 1)
    <3>1. i + 1 < j + 1
      BY <2>3, <2>6
    <3> QED
      BY <1>3, <2>3, <3>1
  <2>7. ASSUME NEW i \in DOMAIN rob'
        PROVE  Age(i + 1) < decodes'
    <3>1. Age(i + 1) < decodes /\ Age(i + 1) \in Int
      BY <1>2, <1>3, <2>3
    <3> QED
      BY <1>1, <2>5, <3>1
  <2> QED
    BY <2>4, <2>6, <2>7
<1>8. CASE Flushes
  BY <1>8 DEF Flushes
<1>9. CASE Answers
  BY <1>5, <1>9 DEF Answers, Completes
<1>10. CASE Issues
  <2>1. PICK e \in ReorderBufferEntry :
          /\ rob' = Append(rob, e) /\ rs[e.tag].empty
          /\ rs'[e.tag].insertionCycle = decodes
          /\ \A u \in Tag : u # e.tag => rs'[u] = rs[u]
          /\ decodes' = decodes + 1
    BY <1>10 DEF Issues
  <2>2. /\ DOMAIN rob' = 1 .. (Len(rob) + 1)
        /\ \A k \in DOMAIN rob : rob'[k] = rob[k]
        /\ rob'[Len(rob) + 1] = e
    BY <1>1, <2>1, AppendProperties
  <2>3. \A k \in DOMAIN rob : rob[k].tag # e.tag
    BY <2>1 DEF DataflowInvariant, TagDiscipline
  <2>4. \A k \in DOMAIN rob : Age(k)' = Age(k)
    BY <1>1, <2>1, <2>2, <2>3 DEF Age, AgeIn
  <2>5. AgeIn(rs', rob', Len(rob) + 1) = decodes
    BY <2>1, <2>2 DEF Age, AgeIn
  <2>6. \A k \in DOMAIN rob' : k \in DOMAIN rob \/ k = Len(rob) + 1
    BY <1>1, <2>2
  <2> DEFINE old(k) == Age(k)
             new(k) == AgeIn(rs', rob', k)
             n == Len(rob)
  <2>7. /\ \A k \in 1 .. n : new(k) = old(k) /\ old(k) \in Int /\ old(k) < decodes
        /\ new(n + 1) = decodes /\ decodes' = decodes + 1
        /\ n \in Nat /\ decodes \in Nat
        /\ \A i, j \in 1 .. n : i < j => old(i) < old(j)
        /\ DOMAIN rob' = 1 .. (n + 1)
    BY <1>1, <1>2, <1>3, <2>1, <2>2, <2>4, <2>5 DEF Age
  <2> HIDE DEF old, new, n
  <2>8. /\ \A i, j \in 1 .. (n + 1) : i < j => new(i) < new(j)
        /\ \A i \in 1 .. (n + 1) : new(i) < decodes'
    <3>1. \A k \in 1 .. (n + 1) : k \in 1 .. n \/ k = n + 1
      BY <2>7
    <3>2. \A i \in 1 .. (n + 1) : new(i) < decodes'
      BY <2>7, <3>1
    <3>3. ASSUME NEW i \in 1 .. (n + 1), NEW j \in 1 .. (n + 1), i < j
          PROVE  new(i) < new(j)
      <4>1. i \in 1 .. n
        BY <2>7, <3>3
      <4>2. CASE j = n + 1
        BY <2>7, <4>1, <4>2
      <4>3. CASE j \in 1 .. n
        BY <2>7, <3>3, <4>1, <4>3
      <4> QED
        BY <3>1, <4>2, <4>3
    <3> QED
      BY <3>2, <3>3
  <2> QED
    BY <2>7, <2>8 DEF new, Age, AgeIn
<1>11. QueueStep
  BY NextIsQueueStep
<1> QED
  BY <1>6, <1>7, <1>8, <1>9, <1>10, <1>11 DEF QueueStep

\* A station filled later is never older, whatever the number of decoders and
\* whatever was flushed in between: the oldest that getOldestReady returns is
\* the oldest of the program.
THEOREM AgesFollowTheProgram == Spec => []AgeOrder
<1>1. Init => AgeInvariant
  BY DEF Init, AgeInvariant, AgeOrder
<1>2. DataflowInvariant /\ AgeInvariant /\ [Next]_vars => AgeInvariant'
  BY StepKeepsAges
<1>3. AgeInvariant => AgeOrder
  BY DEF AgeInvariant
<1> QED
  BY <1>1, <1>2, <1>3, Dataflow, PTL DEF Spec
(***************************************************************************)
(* Progress.  A station is valid as soon as it has both operands, and the  *)
(* oldest entry has them: nothing in flight is older.                      *)
(***************************************************************************)
CompleteIsValid ==
    \A t \in Tag :
        ~rs[t].empty /\ rs[t].source1 = NoTag /\ rs[t].source2 = NoTag => rs[t].valid

LEMMA BroadcastCompletes ==
  ASSUME NEW table \in [Tag -> ReservationStation], NEW t \in Tag, NEW v \in Word,
         rs' = BroadcastToStations(table, t, v)
  PROVE  CompleteIsValid'
<1> SUFFICES ASSUME NEW u \in Tag, ~rs'[u].empty,
                    rs'[u].source1 = NoTag, rs'[u].source2 = NoTag
             PROVE  rs'[u].valid
  BY DEF CompleteIsValid
<1>1. rs'[u] = Snooped(table[u], t, v) /\ table[u] \in ReservationStation
  BY BroadcastFields
<1> QED
  BY <1>1, SnoopedFields

LEMMA CommitCompletes ==
  ASSUME TypeOK, CompleteIsValid, Commit PROVE CompleteIsValid'
<1>1. ASSUME OldestIsDone PROVE Head(rob).tag \in Tag /\ Head(rob).val \in Word
  <2>1. Head(rob) \in ReorderBufferEntry
    BY <1>1, OldestEntry DEF OldestIsDone, TypeOK
  <2> QED
    BY <2>1 DEF ReorderBufferEntry
<1>2. rs \in [Tag -> ReservationStation]
  BY DEF TypeOK
<1>3. ASSUME OldestIsDone, BroadcastAndPop(Head(rob)) PROVE CompleteIsValid'
  BY <1>1, <1>2, <1>3, BroadcastCompletes DEF BroadcastAndPop
<1>4. CASE CommitResult \/ CommitBranch \/ CommitStore
  BY <1>3, <1>4 DEF CommitResult, CommitBranch, CommitStore
<1>5. CASE CommitMispredicted
  <2>1. FlushedStations \in [Tag -> ReservationStation]
    <3>1. \A u \in Tag : rs[u] \in ReservationStation
      BY <1>2
    <3>2. \A s \in ReservationStation : Cleared(s) \in ReservationStation
      BY <1>1, <1>5, StationTypes DEF CommitMispredicted
    <3> QED
      BY <3>1, <3>2 DEF FlushedStations
  <2> QED
    BY <1>1, <1>5, <2>1, BroadcastCompletes DEF CommitMispredicted
<1>6. CASE CommitStoreOutside \/ CommitDone
  BY <1>6 DEF CommitStoreOutside, CommitDone, CompleteIsValid
<1> QED
  BY <1>4, <1>5, <1>6 DEF Commit

LEMMA UnitsKeepComplete ==
  ASSUME TypeOK, CompleteIsValid, Adder \/ LoadStore PROVE CompleteIsValid'
<1>1. ASSUME NEW t \in Tag, rs' = [rs EXCEPT ![t].busy = TRUE]
      PROVE  CompleteIsValid'
  <2>1. \A u \in Tag :
          /\ rs'[u].empty = rs[u].empty /\ rs'[u].valid = rs[u].valid
          /\ rs'[u].source1 = rs[u].source1 /\ rs'[u].source2 = rs[u].source2
    BY <1>1, BusyFields DEF TypeOK
  <2> QED
    BY <2>1 DEF CompleteIsValid
<1>2. CASE AdderExecute
  <2>1. PICK t \in NextReady(unit) : rs' = [rs EXCEPT ![t].busy = TRUE]
    BY <1>2 DEF AdderExecute
  <2> QED
    BY <1>1, <2>1 DEF NextReady, ReadyStations, Stations
<1>3. CASE AddressCalculation
  <2>1. PICK t \in OldestReady(unit) : rs' = [rs EXCEPT ![t].busy = TRUE]
    BY <1>3 DEF AddressCalculation
  <2> QED
    BY <1>1, <2>1 DEF OldestReady, ReadyStations, Stations
<1>4. CASE rs' = rs
  BY <1>4 DEF CompleteIsValid
<1> QED
  BY <1>2, <1>3, <1>4 DEF Adder, AdderIdle, LoadStore, LoadStoreIdle, MemoryStore, MemoryLoad,
     MemoryLoadFault

\* What the decoder reads for an operand is awaited whenever it is not valid.
LEMMA AwaitedWhenInvalid ==
  ASSUME DataflowInvariant, NEW r \in Reg, OperandTag(r) = NoTag PROVE rst[r].valid
<1>1. CASE r \in GPR
  BY <1>1 DEF OperandTag, DataflowInvariant, RenameTable
<1>2. CASE r \notin GPR
  BY <1>2 DEF Reg, DataflowInvariant, NeverRenamed
<1> QED
  BY <1>1, <1>2

LEMMA IssueCompletes ==
  ASSUME DataflowInvariant, CompleteIsValid, InProgram(FetchPC), NEW t \in Tag, Issue(t)
  PROVE  CompleteIsValid'
<1>1. TypeOK /\ rs \in [Tag -> ReservationStation]
  BY DEF DataflowInvariant, TypeOK
<1>2. /\ rs'[t] = FilledStation(Fetched, FetchPC)
      /\ \A u \in Tag : u # t => rs'[u] = rs[u]
  BY <1>1 DEF Issue
<1>3. /\ rs'[t].valid = (rst[Fetched.rs1].valid /\ rst[Fetched.rs2].valid)
      /\ rs'[t].source1 = OperandTag(Fetched.rs1)
      /\ rs'[t].source2 = OperandTag(Fetched.rs2)
  BY <1>2 DEF FilledStation
<1>4. Fetched.rs1 \in Reg /\ Fetched.rs2 \in Reg
  BY <1>1, FetchTypes
<1>5. rs'[t].source1 = NoTag /\ rs'[t].source2 = NoTag => rs'[t].valid
  BY <1>3, <1>4, AwaitedWhenInvalid
<1> QED
  BY <1>2, <1>5 DEF CompleteIsValid

LEMMA CompleteStep ==
  ASSUME DataflowInvariant, CompleteIsValid, [Next]_vars PROVE CompleteIsValid'
<1>1. TypeOK
  BY DEF DataflowInvariant
<1>2. CASE Commit \/ Adder \/ LoadStore
  BY <1>1, <1>2, CommitCompletes, UnitsKeepComplete
<1>3. CASE DecodeIssue
  BY <1>3, IssueCompletes DEF DecodeIssue, StationToUse, FreeStations
<1>4. CASE DecodeBranch
  BY <1>4, IssueCompletes DEF DecodeBranch, StationToUse, FreeStations
<1>5. CASE rs' = rs
  BY <1>5 DEF CompleteIsValid
<1> QED
  BY <1>2, <1>3, <1>4, <1>5
     DEF Next, Step, Decode, FetchFault, DecodeStall, EndCycle, EndRun, Stopped, vars

\* A broadcast that completes a station's operands also makes it valid, and so
\* does the decoder: no station waits for a broadcast that will not come.
THEOREM CompleteStationsAreValid == Spec => []CompleteIsValid
<1>1. Init => CompleteIsValid
  BY DEF Init, FreshStation, CompleteIsValid
<1>2. DataflowInvariant /\ CompleteIsValid /\ [Next]_vars => CompleteIsValid'
  BY CompleteStep
<1> QED
  BY <1>1, <1>2, Dataflow, PTL DEF Spec

\* The oldest entry waits for nothing: a unit may take it whenever it is free.
LEMMA OldestIsReady ==
  ASSUME DataflowInvariant, CompleteIsValid, 1 \in DOMAIN rob, ~rob[1].valid,
         \/ rob[1].tag.kind # "LOAD_STORE"
         \/ lsu[rob[1].tag.unit].phase # "MEMORY_OPERATION"
         \/ lsu[rob[1].tag.unit].tag # rob[1].tag
  PROVE  Ready(rob[1].tag)
<1> DEFINE t == rob[1].tag
           ins == InstructionAt(rob[1].pc)
<1>1. t \in Tag
  BY EntryTypes DEF DataflowInvariant
<1>2. ~rs[t].empty
  BY DEF DataflowInvariant, TagDiscipline
<1>3. ~rs[t].busy
  BY DEF DataflowInvariant, ExecutionOwnership
<1>4. \A r, tag : ~AwaitedFrom(rob, 1, r, tag)
  BY DEF AwaitedFrom
<1>5. /\ OperandBound(rob, physicalRegisters, 1, ins.rs1, rs[t].source1, rs[t].val1)
      /\ OperandBound(rob, physicalRegisters, 1, ins.rs2, rs[t].source2, rs[t].val2)
  BY DEF DataflowInvariant, OperandFlow
<1>6. rs[t].source1 = NoTag /\ rs[t].source2 = NoTag
  BY <1>4, <1>5 DEF OperandBound, Bound
<1>7. rs[t].valid
  BY <1>1, <1>2, <1>6 DEF CompleteIsValid
<1> QED
  BY <1>2, <1>3, <1>7 DEF Ready

\* The oldest instruction in flight is never stuck, in any configuration and
\* whatever has been flushed or overtaken: it is finished, a unit has it, or a
\* unit can take it.
THEOREM OldestIsNeverStuck == Spec => []OldestProceeds
<1>1. ASSUME DataflowInvariant, CompleteIsValid PROVE OldestProceeds
  <2> SUFFICES ASSUME rob # << >>, ~Head(rob).valid, ~Ready(Head(rob).tag)
               PROVE  \E u \in Index(NumLoadStores) :
                        lsu[u].phase = "MEMORY_OPERATION" /\ lsu[u].tag = Head(rob).tag
    BY DEF OldestProceeds
  <2>1. 1 \in DOMAIN rob /\ Head(rob) = rob[1] /\ rob[1].tag \in Tag
    BY <1>1, OldestEntry, EntryTypes DEF DataflowInvariant, TypeOK
  <2>2. /\ rob[1].tag.kind = "LOAD_STORE"
        /\ lsu[rob[1].tag.unit].phase = "MEMORY_OPERATION"
        /\ lsu[rob[1].tag.unit].tag = rob[1].tag
    BY <1>1, <2>1, OldestIsReady
  <2>3. rob[1].tag.unit \in Index(NumLoadStores)
    BY <2>1, <2>2 DEF Tag, Index
  <2> QED
    BY <2>1, <2>2, <2>3
<1> QED
  BY <1>1, Dataflow, CompleteStationsAreValid, PTL

(***************************************************************************)
(* Loads and stores.  A reorder buffer of at most two entries leaves each  *)
(* instruction one older one.  Both find a station at the last load/store  *)
(* unit, which is then the only one at work, and it takes the older one    *)
(* first: by then a store has its operands, and it commits before the unit *)
(* reads memory for the load.                                              *)
(***************************************************************************)
TwoEntries == RobSize \in 2 .. 3 /\ StationsPerUnit >= RobSize - 1

KindsMatch == \A i \in DOMAIN rob : rob[i].tag.kind = RequiredType(rob[i].op)

OnLastUnit ==
    \A i \in DOMAIN rob :
        rob[i].tag.kind = "LOAD_STORE" => rob[i].tag.unit = NumLoadStores - 1

\* A store is finished by the last turn before the decoders, and committed by
\* the first one after them.
StoreIsUnfinished ==
    stage \in {"adder", "loadstore"} /\ rob # << >> /\ rob[1].op = "SW" => ~rob[1].valid

AccessInvariant ==
    /\ KindsMatch
    /\ OnLastUnit
    /\ StoreIsUnfinished
    /\ LoadsFollowStores

\* The buffer and the stations stay, and the cycle goes on.
LEMMA UnchangedAccess ==
  ASSUME AccessInvariant, UNCHANGED <<rob, rs>>,
         stage' \in {"adder", "loadstore"} =>
            stage \in {"adder", "loadstore"} \/ (rob # << >> => ~rob[1].valid)
  PROVE  AccessInvariant'
BY DEF AccessInvariant, KindsMatch, OnLastUnit, StoreIsUnfinished, LoadsFollowStores

\* One entry at most has none behind it.
LEMMA FewEntries ==
  ASSUME TypeOK, TwoEntries
  PROVE  /\ Len(rob) \in 0 .. 2 /\ DOMAIN rob = 1 .. Len(rob)
         /\ Len(rob) < MaxEntries => Len(rob) < StationsPerUnit
<1>1. Len(rob) \in Nat /\ DOMAIN rob = 1 .. Len(rob)
  BY EntryTypes
<1>2. RobSize \in 2 .. 3 /\ StationsPerUnit \in Int /\ StationsPerUnit >= RobSize - 1
  BY ConfigAssumption DEF TwoEntries
<1>3. Len(rob) <= RobSize - 1
  BY DEF TypeOK, MaxEntries
<1> QED
  BY <1>1, <1>2, <1>3 DEF MaxEntries

LEMMA PopAccess ==
  ASSUME TwoEntries, DataflowInvariant, AccessInvariant, OldestIsDone,
         BroadcastAndPop(Head(rob))
  PROVE  AccessInvariant'
<1>1. TypeOK /\ rob # << >> /\ stage = "rob" /\ stage' = "rob" /\ rob' = Tail(rob)
  BY DEF DataflowInvariant, OldestIsDone, BroadcastAndPop
<1>2. /\ DOMAIN rob' = 1 .. (Len(rob) - 1) /\ Len(rob) \in 0 .. 2
      /\ \A i \in DOMAIN rob' : i + 1 \in DOMAIN rob /\ rob'[i] = rob[i + 1]
  BY <1>1, OldestEntry, FewEntries DEF TypeOK
<1>3. KindsMatch' /\ OnLastUnit'
  BY <1>2 DEF AccessInvariant, KindsMatch, OnLastUnit
<1>4. StoreIsUnfinished'
  BY <1>1 DEF StoreIsUnfinished
<1>5. \A i, j \in DOMAIN rob' : ~(i < j)
  BY <1>2
<1>6. LoadsFollowStores'
  BY <1>5 DEF LoadsFollowStores
<1> QED
  BY <1>3, <1>4, <1>6 DEF AccessInvariant

LEMMA FlushAccess ==
  ASSUME CommitMispredicted PROVE AccessInvariant'
BY DEF CommitMispredicted, OldestIsDone, AccessInvariant, KindsMatch, OnLastUnit,
   StoreIsUnfinished, LoadsFollowStores

\* A unit that takes a station or answers moves no instruction.
LEMMA WorkAccess ==
  ASSUME AccessInvariant, DOMAIN rob' = DOMAIN rob,
         \A i \in DOMAIN rob : rob'[i].op = rob[i].op /\ rob'[i].tag = rob[i].tag,
         StoreIsUnfinished', LoadsFollowStores'
  PROVE  AccessInvariant'
<1>1. KindsMatch' /\ OnLastUnit'
  BY DEF AccessInvariant, KindsMatch, OnLastUnit
<1> QED
  BY <1>1 DEF AccessInvariant

\* The adders finish and take neither loads nor stores.
LEMMA AdderAccess ==
  ASSUME DataflowInvariant, AccessInvariant, AdderExecute
  PROVE  AccessInvariant'
<1> DEFINE result(t) == ALU(rs[t].op, rs[t].pcValue, rs[t].val1, rs[t].val2, rs[t].imm)
<1>1. PICK t \in NextReady(unit) : /\ rs' = [rs EXCEPT ![t].busy = TRUE]
                                   /\ rob' = WithResult(t, result(t))
  BY DEF AdderExecute
<1>2. t \in Tag /\ t.kind = "ADDER" /\ TypeOK
  BY DEF NextReady, ReadyStations, Stations, DataflowInvariant
<1>3. result(t) \in Word
  <2>1. rs[t] \in ReservationStation
    BY <1>2 DEF TypeOK
  <2> QED
    BY <2>1, ALUIsWord DEF ReservationStation
<1> HIDE DEF result
<1>4. Completes(rob', t)
  BY <1>1, <1>2, <1>3, CompletedResult DEF TypeOK
<1>5. \A u \in Tag : u # t => rs'[u].busy = rs[u].busy
  BY <1>1, <1>2, BusyFields DEF TypeOK
<1>6. /\ DOMAIN rob' = DOMAIN rob
      /\ rob' # << >> => rob # << >>
      /\ DOMAIN rob = 1 .. Len(rob) /\ Len(rob) \in Nat
      /\ \A i \in DOMAIN rob :
           /\ rob'[i].op = rob[i].op /\ rob'[i].tag = rob[i].tag /\ rob[i].tag \in Tag
           /\ rob[i].op \in MemOps => rob'[i] = rob[i] /\ rob[i].tag # t
  <2>1. \A i \in DOMAIN rob : rob[i].op \in MemOps => rob[i].tag # t
    BY <1>2 DEF AccessInvariant, KindsMatch, RequiredType
  <2>2. rob' # << >> => rob # << >>
    BY <1>4 DEF Completes
  <2> QED
    BY <1>2, <1>4, <2>1, <2>2, EntryTypes DEF Completes
<1>7. rob # << >> => 1 \in DOMAIN rob
  BY <1>2, OldestEntry DEF TypeOK
<1>8. stage = "adder"
  BY DEF AdderExecute
<1>9. StoreIsUnfinished'
  BY <1>6, <1>7, <1>8 DEF AccessInvariant, StoreIsUnfinished, MemOps
<1>10. LoadsFollowStores'
  <2> SUFFICES ASSUME NEW i \in DOMAIN rob, NEW j \in DOMAIN rob, i < j,
                      rob[i].op = "SW", rob[j].op = "LW"
               PROVE  ~rob'[j].valid /\ (rs'[rob[j].tag].busy => rob'[i].valid)
    BY <1>6 DEF LoadsFollowStores
  <2>1. ~rob[j].valid /\ (rs[rob[j].tag].busy => rob[i].valid)
    BY DEF AccessInvariant, LoadsFollowStores
  <2> QED
    BY <1>5, <1>6, <2>1 DEF MemOps
<1> QED
  BY <1>6, <1>9, <1>10, WorkAccess


\* Of a store and a load behind it the unit takes the store.
LEMMA AddressAccess ==
  ASSUME TwoEntries, DataflowInvariant, AccessInvariant, AgeOrder, CompleteIsValid,
         AddressCalculation
  PROVE  AccessInvariant'
<1>1. PICK t \in OldestReady(unit) : rs' = [rs EXCEPT ![t].busy = TRUE]
  BY DEF AddressCalculation
<1>2. t \in Tag /\ t.kind = "LOAD_STORE" /\ t.unit = unit /\ TypeOK
  BY DEF OldestReady, ReadyStations, Stations, DataflowInvariant
<1>3. \A u \in Tag : u # t => rs'[u].busy = rs[u].busy
  BY <1>1, <1>2, BusyFields DEF TypeOK
<1>4. rob' = rob /\ stage = "loadstore" /\ lsu[unit].phase = "ADDR_CALC"
  BY DEF AddressCalculation
<1>5. StoreIsUnfinished'
  BY <1>4 DEF AccessInvariant, StoreIsUnfinished
<1>6. ASSUME NEW i \in DOMAIN rob, NEW j \in DOMAIN rob, i < j,
             rob[i].op = "SW", rob[j].op = "LW"
      PROVE  ~rob[j].valid /\ (rs'[rob[j].tag].busy => rob[i].valid)
  <2>1. i = 1 /\ rob[i].tag \in Tag /\ rob[j].tag \in Tag
    BY <1>2, <1>6, FewEntries, EntryTypes
  <2>2. ~rob[j].valid /\ (rs[rob[j].tag].busy => rob[i].valid)
    BY <1>6 DEF AccessInvariant, LoadsFollowStores
  <2>3. CASE rob[j].tag # t
    BY <1>3, <2>1, <2>2, <2>3
  <2>4. ASSUME rob[j].tag = t, ~rob[i].valid
        PROVE  FALSE
    <3>1. rob[1].tag.kind = "LOAD_STORE"
      BY <1>6, <2>1 DEF AccessInvariant, KindsMatch, RequiredType, MemOps
    <3>2. rob[1].tag.unit = unit
      BY <1>2, <2>1, <2>4, <3>1 DEF AccessInvariant, OnLastUnit
    <3>3. rob[1].tag \in ReadyStations("LOAD_STORE", unit)
      <4>1. Ready(rob[1].tag)
        BY <1>4, <2>1, <2>4, <3>1, <3>2, OldestIsReady
      <4> QED
        BY <2>1, <3>1, <3>2, <4>1 DEF ReadyStations, Stations
    <3>4. rs[t].insertionCycle <= rs[rob[1].tag].insertionCycle
      <4>1. rs[t].insertionCycle \in Int /\ rs[rob[1].tag].insertionCycle \in Int
        BY <1>2, <2>1 DEF TypeOK, ReservationStation
      <4> QED
        BY <3>3, <4>1 DEF OldestReady
    <3>5. rs[rob[1].tag].insertionCycle < rs[t].insertionCycle
      BY <1>6, <2>1, <2>4 DEF AgeOrder
    <3>6. rs[t].insertionCycle \in Int /\ rs[rob[1].tag].insertionCycle \in Int
      BY <1>2, <2>1 DEF TypeOK, ReservationStation
    <3> QED
      BY <3>4, <3>5, <3>6
  <2> QED
    BY <2>2, <2>3, <2>4
<1>7. LoadsFollowStores'
  BY <1>4, <1>6 DEF LoadsFollowStores
<1> QED
  BY <1>4, <1>5, <1>7, WorkAccess

\* The unit that answers is the last of the cycle, and works for no load with a
\* store before it: that store would have been committed in this cycle.
LEMMA AnswerAccess ==
  ASSUME TwoEntries, DataflowInvariant, AccessInvariant, stage = "loadstore",
         lsu[unit].phase = "MEMORY_OPERATION", Completes(rob', lsu[unit].tag),
         NextUnit(NumLoadStores, "decode"), rs' = rs
  PROVE  AccessInvariant'
<1>1. TypeOK /\ unit \in Index(NumLoadStores)
  BY DEF DataflowInvariant, TypeOK, Turns
<1>2. PICK k \in DOMAIN rob :
        /\ rob[k].tag = lsu[unit].tag /\ rs[rob[k].tag].busy
        /\ rob[k].tag.kind = "LOAD_STORE" /\ rob[k].tag.unit = unit
  BY <1>1 DEF DataflowInvariant, ExecutionOwnership
<1>3. unit = NumLoadStores - 1
  BY <1>2 DEF AccessInvariant, OnLastUnit
<1>4. stage' = "decode"
  BY <1>3, ConfigAssumption DEF NextUnit
<1>5. StoreIsUnfinished'
  BY <1>4 DEF StoreIsUnfinished
<1>6. ASSUME NEW i \in DOMAIN rob, NEW j \in DOMAIN rob, i < j,
             rob[i].op = "SW", rob[j].op = "LW"
      PROVE  ~rob'[j].valid /\ (rs[rob[j].tag].busy => rob'[i].valid)
  <2>1. i = 1 /\ rob # << >>
    BY <1>1, <1>6, FewEntries
  <2>2. ~rob[j].valid /\ (rs[rob[j].tag].busy => rob[i].valid)
    BY <1>6 DEF AccessInvariant, LoadsFollowStores
  <2>3. ~rob[i].valid
    BY <1>6, <2>1 DEF AccessInvariant, StoreIsUnfinished
  <2>4. rob[j].tag # lsu[unit].tag
    BY <1>2, <2>2, <2>3
  <2> QED
    BY <2>2, <2>4 DEF Completes
<1>7. LoadsFollowStores'
  <2>1. /\ DOMAIN rob' = DOMAIN rob
        /\ \A i \in DOMAIN rob : rob'[i].op = rob[i].op /\ rob'[i].tag = rob[i].tag
    BY DEF Completes
  <2> QED
    BY <1>6, <2>1 DEF LoadsFollowStores
<1> QED
  BY <1>5, <1>7, WorkAccess DEF Completes

LEMMA LoadStoreAccess ==
  ASSUME TwoEntries, DataflowInvariant, AccessInvariant, AgeOrder, CompleteIsValid,
         LoadStore
  PROVE  AccessInvariant'
<1>0. TypeOK
  BY DEF DataflowInvariant
<1>1. CASE LoadStoreIdle \/ MemoryLoadFault
  BY <1>1, UnchangedAccess DEF LoadStoreIdle, MemoryLoadFault
<1>2. CASE AddressCalculation
  BY <1>2, AddressAccess
<1>3. CASE MemoryStore
  <2>1. unit \in Index(NumLoadStores)
    BY <1>0, <1>3 DEF MemoryStore, TypeOK, Turns
  <2>2. lsu[unit].addr \in Word /\ lsu[unit].data \in Word
    BY <1>0, <2>1 DEF TypeOK, LoadStoreUnit
  <2>3. Completes(rob', lsu[unit].tag)
    BY <1>0, <1>3, <2>2, CompletedStore DEF MemoryStore, TypeOK
  <2> QED
    BY <1>3, <2>3, AnswerAccess DEF MemoryStore
<1>4. CASE MemoryLoad
  <2>1. PICK v \in Loaded(lsu[unit].addr) : rob' = WithResult(lsu[unit].tag, v)
    BY <1>4 DEF MemoryLoad
  <2>2. v \in Word
    BY <1>0, ConfigAssumption DEF Loaded, TypeOK
  <2>3. Completes(rob', lsu[unit].tag)
    BY <1>0, <2>1, <2>2, CompletedResult DEF TypeOK
  <2> QED
    BY <1>4, <2>3, AnswerAccess DEF MemoryLoad
<1> QED
  BY <1>1, <1>2, <1>3, <1>4 DEF LoadStore

\* While the buffer has room the last load/store unit has a free station, and
\* the choice among the units falls on it.
LEMMA LastUnitIsUsed ==
  ASSUME TwoEntries, DataflowInvariant, CanIssue,
         NEW t \in StationToUse("LOAD_STORE")
  PROVE  t.unit = NumLoadStores - 1
<1> DEFINE last(k) == [kind |-> "LOAD_STORE", unit |-> NumLoadStores - 1, slot |-> k]
<1>1. /\ TypeOK /\ Len(rob) \in 0 .. 2 /\ DOMAIN rob = 1 .. Len(rob)
      /\ StationsPerUnit \in Nat /\ NumLoadStores \in Nat \ {0}
  BY FewEntries, ConfigAssumption DEF DataflowInvariant
<1>2. Len(rob) < StationsPerUnit
  <2>1. Len(rob) < MaxEntries
    BY <1>1, ConfigAssumption DEF CanIssue, RobFull, MaxEntries
  <2> QED
    BY <1>1, <2>1, FewEntries
<1>3. ASSUME NEW k \in 0 .. (StationsPerUnit - 1)
      PROVE  last(k) \in Tag
  BY <1>1 DEF Tag
<1>4. last(0) # last(1)
  <2>1. last(0).slot = 0 /\ last(1).slot = 1
    OBVIOUS
  <2> QED
    BY <2>1
<1>5. \E k \in 0 .. (StationsPerUnit - 1) : rs[last(k)].empty
  <2>1. \A u \in Tag : ~rs[u].empty => \E i \in DOMAIN rob : rob[i].tag = u
    BY DEF DataflowInvariant, TagDiscipline
  <2> HIDE DEF last
  <2>2. \A u \in Tag : rs[u].empty \in BOOLEAN
    BY <1>1 DEF TypeOK, ReservationStation
  <2>3. CASE Len(rob) = 0
    <3>1. last(0) \in Tag /\ 0 \in 0 .. (StationsPerUnit - 1)
      BY <1>1, <1>2, <1>3, <2>3
    <3> QED
      BY <1>1, <2>1, <2>2, <2>3, <3>1
  <2>4. CASE Len(rob) = 1
    <3>1. /\ 0 \in 0 .. (StationsPerUnit - 1) /\ 1 \in 0 .. (StationsPerUnit - 1)
          /\ DOMAIN rob = {1}
      BY <1>1, <1>2, <2>4
    <3>2. last(0) \in Tag /\ last(1) \in Tag
      BY <1>3, <3>1
    <3>3. \/ rob[1].tag # last(0)
          \/ rob[1].tag # last(1)
      BY <1>4
    <3> QED
      BY <2>1, <2>2, <3>1, <3>2, <3>3
  <2>5. Len(rob) # 2
    <3>1. Len(rob) < MaxEntries /\ MaxEntries <= 2 /\ MaxEntries \in Int
      BY <1>1, ConfigAssumption DEF CanIssue, RobFull, MaxEntries, TwoEntries
    <3> QED
      BY <1>1, <3>1
  <2> QED
    BY <1>1, <2>3, <2>4, <2>5
<1>6. PICK k \in 0 .. (StationsPerUnit - 1) : rs[last(k)].empty
  BY <1>5
<1>7. last(k) \in FreeStations("LOAD_STORE") /\ last(k).unit = NumLoadStores - 1
  BY <1>3, <1>6 DEF FreeStations
<1> HIDE DEF last
<1>8. t.unit >= NumLoadStores - 1
  <2>1. t \in Tag /\ t.kind = "LOAD_STORE"
    BY DEF StationToUse, FreeStations
  <2>2. t.unit \in 0 .. (NumLoadStores - 1)
    BY <2>1 DEF Tag
  <2>3. last(k).unit < t.unit \/ last(k).unit = t.unit
    BY <1>7 DEF StationToUse
  <2> QED
    BY <1>1, <1>7, <2>2, <2>3
<1>9. t.unit \in 0 .. (NumLoadStores - 1)
  <2>1. t \in Tag /\ t.kind = "LOAD_STORE"
    BY DEF StationToUse, FreeStations
  <2> QED
    BY <2>1 DEF Tag
<1> QED
  BY <1>1, <1>8, <1>9

LEMMA IssueAccess ==
  ASSUME TwoEntries, DataflowInvariant, AccessInvariant, InProgram(FetchPC), CanIssue,
         stage = "decode", NEW t \in StationToUse(RequiredType(Fetched.op)), Issue(t)
  PROVE  AccessInvariant'
<1> DEFINE n == Len(rob)
           new == rob'[n + 1]
<1>1. /\ TypeOK /\ n \in Nat /\ DOMAIN rob = 1 .. n
      /\ \A i \in 1 .. n : rob[i].tag \in Tag
  BY EntryTypes DEF DataflowInvariant
<1>2. t \in Tag /\ t.kind = RequiredType(Fetched.op) /\ rs[t].empty
  BY DEF StationToUse, FreeStations
<1>3. /\ DOMAIN rob' = 1 .. (n + 1)
      /\ \A i \in 1 .. n : rob'[i] = rob[i]
      /\ new = NewEntry(Fetched, t, FetchPC)
  <2>1. rob \in Seq(ReorderBufferEntry) /\ rob' = Append(rob, NewEntry(Fetched, t, FetchPC))
    BY <1>1 DEF Issue, TypeOK
  <2> QED
    BY <2>1, AppendProperties
<1>4. /\ new.op = Fetched.op /\ new.tag = t /\ new.valid = FALSE
  BY <1>3 DEF NewEntry
<1>5. /\ rs'[t] = FilledStation(Fetched, FetchPC)
      /\ \A u \in Tag : u # t => rs'[u] = rs[u]
  BY <1>1, <1>2 DEF Issue, TypeOK
<1>6. rs'[t].busy = FALSE
  BY <1>5 DEF FilledStation
<1>7. \A i \in 1 .. n : rob[i].tag # t /\ rs'[rob[i].tag] = rs[rob[i].tag]
  <2>1. \A i \in DOMAIN rob : ~rs[rob[i].tag].empty
    BY <1>1 DEF DataflowInvariant, TagDiscipline
  <2> QED
    BY <1>1, <1>2, <1>5, <2>1
<1>8. stage' \in {"decode", "end"}
  BY DEF Issue, NextUnit
<1> HIDE DEF n, new
<1>9. \A i \in DOMAIN rob' : i \in 1 .. n \/ (i = n + 1 /\ rob'[i] = new)
  BY <1>1, <1>3 DEF new
<1>10. KindsMatch'
  <2>1. \A i \in 1 .. n : rob[i].tag.kind = RequiredType(rob[i].op)
    BY <1>1 DEF AccessInvariant, KindsMatch
  <2> QED
    BY <1>2, <1>3, <1>4, <1>9, <2>1 DEF KindsMatch
<1>11. OnLastUnit'
  <2>1. \A i \in 1 .. n : rob[i].tag.kind = "LOAD_STORE" => rob[i].tag.unit = NumLoadStores - 1
    BY <1>1 DEF AccessInvariant, OnLastUnit
  <2>2. t.kind = "LOAD_STORE" => t.unit = NumLoadStores - 1
    BY <1>2, LastUnitIsUsed
  <2> QED
    BY <1>3, <1>4, <1>9, <2>1, <2>2 DEF OnLastUnit
<1>12. StoreIsUnfinished'
  BY <1>8 DEF StoreIsUnfinished
<1>13. LoadsFollowStores'
  <2> SUFFICES ASSUME NEW i \in DOMAIN rob', NEW j \in DOMAIN rob', i < j,
                      rob'[i].op = "SW", rob'[j].op = "LW"
               PROVE  ~rob'[j].valid /\ (rs'[rob'[j].tag].busy => rob'[i].valid)
    BY DEF LoadsFollowStores
  <2>1. i \in 1 .. n
    BY <1>1, <1>3
  <2>2. CASE j = n + 1
    <3>1. rob'[j] = new
      BY <2>2 DEF new
    <3> QED
      BY <1>4, <1>6, <3>1
  <2>3. CASE j \in 1 .. n
    <3>1. ~rob[j].valid /\ (rs[rob[j].tag].busy => rob[i].valid)
      BY <1>1, <1>3, <2>1, <2>3 DEF AccessInvariant, LoadsFollowStores
    <3> QED
      BY <1>3, <1>7, <2>1, <2>3, <3>1
  <2> QED
    BY <1>9, <2>2, <2>3
<1> QED
  BY <1>10, <1>11, <1>12, <1>13 DEF AccessInvariant

LEMMA AccessStep ==
  ASSUME TwoEntries, DataflowInvariant, AccessInvariant, AgeOrder, CompleteIsValid,
         [Next]_vars
  PROVE  AccessInvariant'
<1>0. TypeOK
  BY DEF DataflowInvariant
<1>1. CASE Commit
  <2>1. CASE CommitResult \/ CommitBranch \/ CommitStore
    BY <2>1, PopAccess DEF CommitResult, CommitBranch, CommitStore
  <2>2. CASE CommitMispredicted
    BY <2>2, FlushAccess
  <2>3. CASE CommitStoreOutside
    BY <2>3, UnchangedAccess DEF CommitStoreOutside
  <2>4. CASE CommitDone
    <3>1. rob # << >> => ~rob[1].valid
      BY <1>0, <2>4, OldestEntry DEF CommitDone, TypeOK
    <3> QED
      BY <2>4, <3>1, UnchangedAccess DEF CommitDone
  <2> QED
    BY <1>1, <2>1, <2>2, <2>3, <2>4 DEF Commit
<1>2. CASE Adder
  BY <1>2, AdderAccess, UnchangedAccess DEF Adder, AdderIdle
<1>3. CASE LoadStore
  BY <1>3, LoadStoreAccess
<1>4. CASE Decode
  <2>1. CASE FetchFault \/ DecodeStall
    BY <2>1, UnchangedAccess DEF FetchFault, DecodeStall
  <2>2. CASE DecodeIssue
    BY <2>2, IssueAccess DEF DecodeIssue, Decoding
  <2>3. CASE DecodeBranch
    <3>1. RequiredType(Fetched.op) = "ADDER"
      BY <2>3 DEF DecodeBranch, RequiredType, BranchOps, MemOps
    <3> QED
      BY <2>3, <3>1, IssueAccess DEF DecodeBranch, Decoding
  <2> QED
    BY <1>4, <2>1, <2>2, <2>3 DEF Decode
<1>5. CASE EndCycle \/ EndRun
  BY <1>5, UnchangedAccess DEF EndCycle, EndRun
<1>6. CASE Stopped \/ UNCHANGED vars
  BY <1>6, UnchangedAccess DEF Stopped, vars
<1> QED
  BY <1>1, <1>2, <1>3, <1>4, <1>5, <1>6 DEF Next, Step

LEMMA InitAccess == Init => AccessInvariant
BY DEF Init, AccessInvariant, KindsMatch, OnLastUnit, StoreIsUnfinished,
   LoadsFollowStores

\* With at most two entries in flight a load behind a store is read after the
\* store has been committed, for every program, address and number of units,
\* as long as one unit has a station for each entry.
THEOREM LoadsWaitForStores ==
  ASSUME TwoEntries PROVE Spec => []LoadsFollowStores
<1>1. Init => AccessInvariant
  BY InitAccess
<1>2. DataflowInvariant /\ AgeOrder /\ CompleteIsValid /\ AccessInvariant /\ [Next]_vars
        => AccessInvariant'
  BY AccessStep
<1>3. AccessInvariant => LoadsFollowStores
  BY DEF AccessInvariant
<1> QED
  BY <1>1, <1>2, <1>3, Dataflow, AgesFollowTheProgram, CompleteStationsAreValid, PTL DEF Spec
================================================================================
