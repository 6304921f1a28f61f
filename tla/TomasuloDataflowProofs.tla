------------------------ MODULE TomasuloDataflowProofs ------------------------
(***************************************************************************)
(* The data flow of the out-of-order CPU, proved for every configuration   *)
(* and program: tags are never duplicated or lost, every operand is bound  *)
(* to the right producer, and every execution has its owner.               *)
(***************************************************************************)
EXTENDS TomasuloTypeProofs

\* The parts of DataflowInvariant that are not types.
DataFlow ==
    /\ CarriesInstruction /\ NeverRenamed /\ TagDiscipline /\ RenameTable
    /\ OperandFlow /\ ValidHasOperands /\ ExecutionOwnership

(***************************************************************************)
(* How a binding moves with the reorder buffer.                            *)
(***************************************************************************)
\* A binding looks at the tags and destinations of older entries only, and
\* at the committed value of its own register.
LEMMA BoundDependsOn ==
  ASSUME NEW e1, NEW e2, NEW regs1, NEW regs2, NEW i \in Int, NEW r,
         NEW tag, NEW value,
         \A j \in 1 .. (i - 1) : e2[j].tag = e1[j].tag /\ e2[j].rd = e1[j].rd,
         regs2[r] = regs1[r],
         Bound(e1, regs1, i, r, tag, value)
  PROVE  Bound(e2, regs2, i, r, tag, value)
<1>1. CASE tag = NoTag
  BY <1>1 DEF Bound, Committed
<1>2. CASE tag # NoTag
  <2>1. PICK j \in 1 .. (i - 1) :
          /\ e1[j].tag = tag /\ e1[j].rd = r
          /\ \A k \in (j + 1) .. (i - 1) : e1[k].rd # r
    BY <1>2 DEF Bound, AwaitedFrom
  <2>2. \A k \in (j + 1) .. (i - 1) : k \in 1 .. (i - 1)
    OBVIOUS
  <2>3. AwaitedFrom(e2, i, r, tag)
    BY <2>1, <2>2 DEF AwaitedFrom
  <2> QED
    BY <1>2, <2>3 DEF Bound
<1> QED
  BY <1>1, <1>2

\* Committing the oldest entry delivers its value to whatever awaited it and
\* moves every other binding up by one.
LEMMA BoundAfterPop ==
  ASSUME NEW entries, NEW rest, NEW regs1, NEW regs2,
         NEW i \in Int, i >= 2, NEW r, NEW tag, NEW value,
         \A j \in 1 .. (i - 2) : rest[j] = entries[j + 1],
         \A j \in 2 .. (i - 1) : entries[j].tag # entries[1].tag,
         entries[1].tag # NoTag,
         entries[1].rd = r => regs2[r] = entries[1].val,
         entries[1].rd # r => regs2[r] = regs1[r],
         Bound(entries, regs1, i, r, tag, value)
  PROVE  Bound(rest, regs2, i - 1, r,
               IF tag = entries[1].tag THEN NoTag ELSE tag,
               IF tag = entries[1].tag THEN entries[1].val ELSE value)
<1>0. \A j \in 1 .. (i - 2) : j + 1 \in 2 .. (i - 1) /\ rest[j] = entries[j + 1]
  OBVIOUS
<1>1. CASE tag = NoTag
  <2>1. /\ \A j \in 1 .. (i - 1) : entries[j].rd # r
        /\ value = regs1[r] /\ tag # entries[1].tag
    BY <1>1 DEF Bound, Committed
  <2>2. entries[1].rd # r
    BY <2>1
  <2>3. \A j \in 1 .. ((i - 1) - 1) : rest[j].rd # r
    BY <1>0, <2>1
  <2>4. Committed(rest, i - 1, r)
    BY <2>3 DEF Committed
  <2> QED
    BY <1>1, <2>1, <2>2, <2>4 DEF Bound
<1>2. CASE tag # NoTag
  <2>1. PICK j \in 1 .. (i - 1) :
          /\ entries[j].tag = tag /\ entries[j].rd = r
          /\ \A k \in (j + 1) .. (i - 1) : entries[k].rd # r
    BY <1>2 DEF Bound, AwaitedFrom
  <2>2. CASE j = 1
    <3>1. tag = entries[1].tag /\ regs2[r] = entries[1].val
      BY <2>1, <2>2
    <3>2. \A k \in 1 .. ((i - 1) - 1) : rest[k].rd # r
      BY <1>0, <2>1, <2>2
    <3>3. Committed(rest, i - 1, r)
      BY <3>2 DEF Committed
    <3> QED
      BY <3>1, <3>3 DEF Bound
  <2>3. CASE j # 1
    <3>1. j \in 2 .. (i - 1) /\ tag # entries[1].tag
      BY <2>1, <2>3
    <3>2. j - 1 \in 1 .. ((i - 1) - 1) /\ rest[j - 1] = entries[j]
      BY <1>0, <3>1
    <3>3. \A k \in ((j - 1) + 1) .. ((i - 1) - 1) : rest[k].rd # r
      BY <1>0, <2>1, <3>1
    <3>4. AwaitedFrom(rest, i - 1, r, tag)
      BY <2>1, <3>2, <3>3 DEF AwaitedFrom
    <3> QED
      BY <1>2, <3>1, <3>4 DEF Bound
  <2> QED
    BY <2>2, <2>3
<1> QED
  BY <1>1, <1>2

(***************************************************************************)
(* What a broadcast does to a station.                                     *)
(***************************************************************************)
LEMMA SnoopedFields ==
  ASSUME NEW s \in ReservationStation, NEW t \in Tag, NEW v
  PROVE  LET n == Snooped(s, t, v)
         IN  /\ n.source1 = (IF s.source1 = t THEN NoTag ELSE s.source1)
             /\ n.val1 = (IF s.source1 = t THEN v ELSE s.val1)
             /\ n.source2 = (IF s.source2 = t THEN NoTag ELSE s.source2)
             /\ n.val2 = (IF s.source2 = t THEN v ELSE s.val2)
             /\ n.empty = s.empty /\ n.busy = s.busy /\ n.op = s.op
             /\ n.imm = s.imm /\ n.pcValue = s.pcValue
             /\ n.valid <=> (s.valid \/ (n.source1 = NoTag /\ n.source2 = NoTag))
BY DEF Snooped, ReservationStation

LEMMA ClearedFields ==
  ASSUME NEW s \in ReservationStation
  PROVE  /\ Cleared(s).empty = TRUE /\ Cleared(s).busy = FALSE
BY DEF Cleared, ReservationStation

LEMMA BroadcastFields ==
  ASSUME NEW table \in [Tag -> ReservationStation], NEW t \in Tag, NEW v \in Word,
         NEW u \in Tag
  PROVE  /\ u # t => BroadcastToStations(table, t, v)[u] = Snooped(table[u], t, v)
         /\ u = t => BroadcastToStations(table, t, v)[u].empty = TRUE
         /\ u # t => BroadcastToStations(table, t, v)[u].empty = table[u].empty
<1>1. Snooped(table[u], t, v) \in ReservationStation
  BY StationTypes
<1>2. BroadcastToStations(table, t, v)[u]
        = IF u = t THEN Cleared(Snooped(table[u], t, v)) ELSE Snooped(table[u], t, v)
  BY DEF BroadcastToStations
<1>3. Cleared(Snooped(table[u], t, v)).empty = TRUE
  BY <1>1, ClearedFields
<1>4. Snooped(table[u], t, v).empty = table[u].empty
  BY SnoopedFields
<1> QED
  BY <1>2, <1>3, <1>4

(***************************************************************************)
(* Entries of the reorder buffer.                                          *)
(***************************************************************************)
LEMMA EntryTypes ==
  ASSUME TypeOK
  PROVE  /\ Len(rob) \in Nat /\ DOMAIN rob = 1 .. Len(rob)
         /\ \A i \in DOMAIN rob :
              /\ rob[i] \in ReorderBufferEntry
              /\ rob[i].tag \in Tag /\ rob[i].val \in Word /\ rob[i].rd \in Reg
              /\ rob[i].pc \in Word /\ rob[i].valid \in BOOLEAN
              /\ rob[i].tag # NoTag
              /\ rs[rob[i].tag] \in ReservationStation
<1>1. /\ Len(rob) \in Nat /\ DOMAIN rob = 1 .. Len(rob)
      /\ \A i \in DOMAIN rob : rob[i] \in ReorderBufferEntry
  BY DEF TypeOK
<1> QED
  BY <1>1, TagsDiffer DEF TypeOK, ReorderBufferEntry

(***************************************************************************)
(* A commit without a flush.                                               *)
(***************************************************************************)
LEMMA PopPreserves ==
  ASSUME DataflowInvariant, OldestIsDone, BroadcastAndPop(Head(rob)),
         \A r \in GPR : Head(rob).rd = r => physicalRegisters'[r] = Head(rob).val,
         \A r \in GPR : Head(rob).rd # r => physicalRegisters'[r] = physicalRegisters[r]
  PROVE  DataFlow'
<1> DEFINE e == rob[1]
           n == Len(rob)
<1>0. TypeOK
  BY DEF DataflowInvariant
<1>1. /\ n \in Nat \ {0} /\ DOMAIN rob = 1 .. n /\ Head(rob) = e
      /\ Len(rob') = n - 1 /\ DOMAIN rob' = 1 .. (n - 1)
      /\ \A i \in 1 .. (n - 1) : rob'[i] = rob[i + 1] /\ i + 1 \in 2 .. n
      /\ program' = program /\ lsu' = lsu
  BY <1>0, OldestEntry DEF TypeOK, OldestIsDone, BroadcastAndPop
<1>2. /\ e.tag \in Tag /\ e.val \in Word /\ e.tag # NoTag /\ 1 \in DOMAIN rob
      /\ \A i \in 1 .. n : rob[i].tag \in Tag /\ rob[i].tag # NoTag
                             /\ rs[rob[i].tag] \in ReservationStation
  BY <1>0, <1>1, EntryTypes
<1>3. e.valid
  BY <1>1 DEF OldestIsDone
<1>4. \A i \in 2 .. n : rob[i].tag # e.tag /\ i \in DOMAIN rob
  BY <1>1, <1>2 DEF DataflowInvariant, TagDiscipline
<1>5. rs' = BroadcastToStations(rs, e.tag, e.val)
      /\ rst' = BroadcastToRegisters(rst, e.tag, e.val)
  BY <1>1 DEF BroadcastAndPop
<1>6. \A u \in Tag : /\ u # e.tag => rs'[u] = Snooped(rs[u], e.tag, e.val)
                     /\ u = e.tag => rs'[u].empty = TRUE
                     /\ u # e.tag => rs'[u].empty = rs[u].empty
                     /\ rs[u] \in ReservationStation
  <2> SUFFICES ASSUME NEW u \in Tag
               PROVE  /\ u # e.tag => rs'[u] = Snooped(rs[u], e.tag, e.val)
                      /\ u = e.tag => rs'[u].empty = TRUE
                      /\ u # e.tag => rs'[u].empty = rs[u].empty
                      /\ rs[u] \in ReservationStation
    OBVIOUS
  <2>1. rs \in [Tag -> ReservationStation]
    BY <1>0 DEF TypeOK
  <2> HIDE DEF e
  <2>2. rs'[u] = BroadcastToStations(rs, e.tag, e.val)[u]
    BY <1>5
  <2>3. rs[u] \in ReservationStation
    BY <2>1
  <2>4. /\ u # e.tag => BroadcastToStations(rs, e.tag, e.val)[u] = Snooped(rs[u], e.tag, e.val)
        /\ u = e.tag => BroadcastToStations(rs, e.tag, e.val)[u].empty = TRUE
        /\ u # e.tag => BroadcastToStations(rs, e.tag, e.val)[u].empty = rs[u].empty
    BY <1>2, <2>1, BroadcastFields
  <2> QED
    BY <2>2, <2>3, <2>4
<1>7. \A i \in 1 .. (n - 1) :
        /\ rob'[i].tag = rob[i + 1].tag
        /\ rs'[rob'[i].tag] = Snooped(rs[rob[i + 1].tag], e.tag, e.val)
        /\ rs[rob[i + 1].tag] \in ReservationStation
  BY <1>1, <1>2, <1>4, <1>6
<1>8. \A r \in GPR, i \in 2 .. (n + 1) : \A tag, value :
        Bound(rob, physicalRegisters, i, r, tag, value) =>
          Bound(rob', physicalRegisters', i - 1, r,
                IF tag = e.tag THEN NoTag ELSE tag,
                IF tag = e.tag THEN e.val ELSE value)
  <2> SUFFICES ASSUME NEW r \in GPR, NEW i \in 2 .. (n + 1), NEW tag, NEW value,
                      Bound(rob, physicalRegisters, i, r, tag, value)
               PROVE  Bound(rob', physicalRegisters', i - 1, r,
                            IF tag = e.tag THEN NoTag ELSE tag,
                            IF tag = e.tag THEN e.val ELSE value)
    OBVIOUS
  <2>1. \A j \in 1 .. (i - 2) : rob'[j] = rob[j + 1]
    BY <1>1
  <2>2. \A j \in 2 .. (i - 1) : rob[j].tag # rob[1].tag
    BY <1>1, <1>4
  <2>3. /\ rob[1].rd = r => physicalRegisters'[r] = rob[1].val
        /\ rob[1].rd # r => physicalRegisters'[r] = physicalRegisters[r]
    BY <1>1
  <2>4. i \in Int /\ i >= 2
    BY <1>1
  <2> QED
    BY <1>2, <2>1, <2>2, <2>3, <2>4, BoundAfterPop
<1> HIDE DEF e, n
<1>9. CarriesInstruction'
  <2> SUFFICES ASSUME NEW i \in 1 .. (n - 1)
               PROVE  LET s == rs'[rob'[i].tag]
                          ins == program[rob'[i].pc + 1]
                      IN  /\ rob'[i].pc + 1 \in DOMAIN program
                          /\ rob'[i].op = ins.op /\ rob'[i].rd = ins.rd
                          /\ s.op = ins.op /\ s.imm = ins.imm /\ s.pcValue = rob'[i].pc
    BY <1>1 DEF CarriesInstruction, InProgram, InstructionAt
  <2>1. rob'[i] = rob[i + 1] /\ i + 1 \in DOMAIN rob
    BY <1>1, <1>4
  <2>2. LET s == rs[rob[i + 1].tag]
            ins == program[rob[i + 1].pc + 1]
        IN  /\ rob[i + 1].pc + 1 \in DOMAIN program
            /\ rob[i + 1].op = ins.op /\ rob[i + 1].rd = ins.rd
            /\ s.op = ins.op /\ s.imm = ins.imm /\ s.pcValue = rob[i + 1].pc
    BY <2>1 DEF DataflowInvariant, CarriesInstruction, InProgram, InstructionAt
  <2> QED
    BY <1>2, <1>7, <2>1, <2>2, SnoopedFields
<1>10. NeverRenamed'
  BY <1>2, <1>5 DEF BroadcastToRegisters, DataflowInvariant, NeverRenamed, Reg
<1>11. TagDiscipline'
  <2>1. \A i, j \in DOMAIN rob' : rob'[i].tag = rob'[j].tag => i = j
    <3> SUFFICES ASSUME NEW i \in DOMAIN rob', NEW j \in DOMAIN rob',
                        rob'[i].tag = rob'[j].tag
                 PROVE  i = j
      OBVIOUS
    <3>1. rob[i + 1].tag = rob[j + 1].tag /\ i + 1 \in DOMAIN rob /\ j + 1 \in DOMAIN rob
      BY <1>1, <1>4, <1>7
    <3>2. i + 1 = j + 1 /\ i \in Int /\ j \in Int
      BY <1>1, <3>1 DEF DataflowInvariant, TagDiscipline
    <3> QED
      BY <3>2
  <2>2. {t \in Tag : ~rs'[t].empty} = {rob'[i].tag : i \in DOMAIN rob'}
    <3>1. ASSUME NEW t \in Tag, ~rs'[t].empty
          PROVE  \E i \in DOMAIN rob' : t = rob'[i].tag
      <4>1. t # e.tag /\ ~rs[t].empty
        BY <1>6, <3>1
      <4>2. PICK k \in DOMAIN rob : t = rob[k].tag
        BY <4>1 DEF DataflowInvariant, TagDiscipline
      <4>3. k \in 2 .. n /\ k - 1 \in 1 .. (n - 1)
        BY <1>1, <4>1, <4>2 DEF e
      <4>4. rob'[k - 1] = rob[k]
        BY <1>1, <4>3
      <4> QED
        BY <1>1, <4>2, <4>3, <4>4
    <3>2. ASSUME NEW i \in DOMAIN rob'
          PROVE  rob'[i].tag \in Tag /\ ~rs'[rob'[i].tag].empty
      <4>1. i \in 1 .. (n - 1) /\ i + 1 \in 2 .. n /\ rob'[i] = rob[i + 1]
        BY <1>1, <3>2
      <4>2. rob[i + 1].tag \in Tag /\ rob[i + 1].tag # e.tag /\ i + 1 \in DOMAIN rob
        BY <1>1, <1>2, <1>4, <4>1
      <4>3. ~rs[rob[i + 1].tag].empty
        BY <4>2 DEF DataflowInvariant, TagDiscipline
      <4> QED
        BY <1>6, <4>1, <4>2, <4>3
    <3> QED
      BY <3>1, <3>2
  <2> QED
    BY <2>1, <2>2 DEF TagDiscipline
<1>12. RenameTable'
  <2> SUFFICES ASSUME NEW r \in GPR
               PROVE  /\ rst'[r].valid <=> rst'[r].tag = NoTag
                      /\ Bound(rob', physicalRegisters', Len(rob') + 1, r,
                               rst'[r].tag, rst'[r].value)
    BY DEF RenameTable
  <2>1. /\ rst[r].valid <=> rst[r].tag = NoTag
        /\ Bound(rob, physicalRegisters, n + 1, r, rst[r].tag, rst[r].value)
    BY DEF DataflowInvariant, RenameTable, n
  <2>2. Bound(rob', physicalRegisters', (n + 1) - 1, r,
              IF rst[r].tag = e.tag THEN NoTag ELSE rst[r].tag,
              IF rst[r].tag = e.tag THEN e.val ELSE rst[r].value)
    BY <1>1, <1>8, <2>1
  <2>3. /\ rst'[r].tag = IF rst[r].tag = e.tag THEN NoTag ELSE rst[r].tag
        /\ rst'[r].value = IF rst[r].tag = e.tag THEN e.val ELSE rst[r].value
        /\ rst'[r].valid = IF rst[r].tag = e.tag THEN TRUE ELSE rst[r].valid
    BY <1>5 DEF BroadcastToRegisters, Reg
  <2>4. Len(rob') + 1 = (n + 1) - 1
    BY <1>1
  <2> QED
    BY <2>1, <2>2, <2>3, <2>4
<1>13. OperandFlow'
  <2> SUFFICES ASSUME NEW i \in 1 .. (n - 1)
               PROVE  LET s == rs'[rob'[i].tag]
                          ins == program[rob'[i].pc + 1]
                      IN  /\ OperandBound(rob', physicalRegisters', i, ins.rs1, s.source1, s.val1)
                          /\ OperandBound(rob', physicalRegisters', i, ins.rs2, s.source2, s.val2)
    BY <1>1 DEF OperandFlow, InstructionAt
  <2> DEFINE s == rs[rob[i + 1].tag]
             ins == program[rob[i + 1].pc + 1]
             new == Snooped(s, e.tag, e.val)
  <2>1. /\ rob'[i] = rob[i + 1] /\ i + 1 \in DOMAIN rob /\ i + 1 \in 2 .. (n + 1)
        /\ (i + 1) - 1 = i
        /\ rs'[rob'[i].tag] = new /\ s \in ReservationStation
    <3>1. rob'[i] = rob[i + 1] /\ i + 1 \in 2 .. n /\ (i + 1) - 1 = i
      BY <1>1
    <3>2. i + 1 \in DOMAIN rob /\ i + 1 \in 2 .. (n + 1)
      BY <1>1, <1>4, <3>1
    <3> QED
      BY <1>7, <3>1, <3>2
  <2>2. /\ OperandBound(rob, physicalRegisters, i + 1, ins.rs1, s.source1, s.val1)
        /\ OperandBound(rob, physicalRegisters, i + 1, ins.rs2, s.source2, s.val2)
    BY <2>1 DEF DataflowInvariant, OperandFlow, InstructionAt
  <2>3. /\ new.source1 = (IF s.source1 = e.tag THEN NoTag ELSE s.source1)
        /\ new.val1 = (IF s.source1 = e.tag THEN e.val ELSE s.val1)
        /\ new.source2 = (IF s.source2 = e.tag THEN NoTag ELSE s.source2)
        /\ new.val2 = (IF s.source2 = e.tag THEN e.val ELSE s.val2)
    BY <1>2, <2>1, SnoopedFields
  <2> HIDE DEF s, ins, new
  <2>4. OperandBound(rob', physicalRegisters', i, ins.rs1, new.source1, new.val1)
    BY <1>2, <1>8, <2>1, <2>2, <2>3 DEF OperandBound
  <2>5. OperandBound(rob', physicalRegisters', i, ins.rs2, new.source2, new.val2)
    BY <1>2, <1>8, <2>1, <2>2, <2>3 DEF OperandBound
  <2> QED
    BY <2>1, <2>4, <2>5 DEF ins
<1>14. ValidHasOperands'
  <2> SUFFICES ASSUME NEW t \in Tag, rs'[t].valid, ~rs'[t].empty
               PROVE  rs'[t].source1 = NoTag /\ rs'[t].source2 = NoTag
    BY DEF ValidHasOperands
  <2>1. t # e.tag /\ ~rs[t].empty /\ rs'[t] = Snooped(rs[t], e.tag, e.val)
        /\ rs[t] \in ReservationStation
    BY <1>6
  <2>2. rs[t].valid => rs[t].source1 = NoTag /\ rs[t].source2 = NoTag
    BY <2>1 DEF DataflowInvariant, ValidHasOperands
  <2> QED
    BY <1>2, <2>1, <2>2, SnoopedFields
<1>15. ExecutionOwnership'
  <2>0. \A i \in 1 .. (n - 1) :
          /\ rob'[i] = rob[i + 1] /\ i + 1 \in DOMAIN rob
          /\ rs'[rob'[i].tag].busy = rs[rob[i + 1].tag].busy
    BY <1>1, <1>2, <1>4, <1>7, SnoopedFields
  <2>1. ASSUME NEW u \in Index(NumLoadStores), lsu[u].phase = "MEMORY_OPERATION"
        PROVE  \E i \in DOMAIN rob' :
                 /\ rob'[i].tag = lsu[u].tag /\ rob'[i].op = lsu[u].op
                 /\ ~rob'[i].valid /\ rs'[rob'[i].tag].busy
                 /\ rob'[i].tag.kind = "LOAD_STORE" /\ rob'[i].tag.unit = u
    <3>1. PICK k \in DOMAIN rob :
            /\ rob[k].tag = lsu[u].tag /\ rob[k].op = lsu[u].op
            /\ ~rob[k].valid /\ rs[rob[k].tag].busy
            /\ rob[k].tag.kind = "LOAD_STORE" /\ rob[k].tag.unit = u
      BY <2>1 DEF DataflowInvariant, ExecutionOwnership
    <3>2. k # 1
      BY <1>3, <3>1 DEF e
    <3>3. k - 1 \in 1 .. (n - 1) /\ (k - 1) + 1 = k
      BY <1>1, <3>2
    <3>4. rob'[k - 1] = rob[k] /\ rs'[rob'[k - 1].tag].busy = rs[rob[k].tag].busy
      BY <2>0, <3>3
    <3>5. /\ rob'[k - 1].tag = lsu[u].tag /\ rob'[k - 1].op = lsu[u].op
          /\ ~rob'[k - 1].valid /\ rs'[rob'[k - 1].tag].busy
          /\ rob'[k - 1].tag.kind = "LOAD_STORE" /\ rob'[k - 1].tag.unit = u
      BY <3>1, <3>4
    <3>6. k - 1 \in DOMAIN rob'
      BY <1>1, <3>3
    <3> QED
      BY <3>5, <3>6
  <2>2. ASSUME NEW i \in DOMAIN rob'
        PROVE  /\ rs'[rob'[i].tag].busy =>
                    \/ rob'[i].valid
                    \/ /\ rob'[i].tag.kind = "LOAD_STORE"
                       /\ lsu[rob'[i].tag.unit].phase = "MEMORY_OPERATION"
                       /\ lsu[rob'[i].tag.unit].tag = rob'[i].tag
               /\ rob'[i].valid => rs'[rob'[i].tag].busy
    <3>1. /\ rob'[i] = rob[i + 1] /\ i + 1 \in DOMAIN rob
          /\ rs'[rob'[i].tag].busy = rs[rob[i + 1].tag].busy
      BY <1>1, <2>0
    <3>2. /\ rs[rob[i + 1].tag].busy =>
               \/ rob[i + 1].valid
               \/ /\ rob[i + 1].tag.kind = "LOAD_STORE"
                  /\ lsu[rob[i + 1].tag.unit].phase = "MEMORY_OPERATION"
                  /\ lsu[rob[i + 1].tag.unit].tag = rob[i + 1].tag
          /\ rob[i + 1].valid => rs[rob[i + 1].tag].busy
      BY <3>1 DEF DataflowInvariant, ExecutionOwnership
    <3> QED
      BY <3>1, <3>2
  <2> QED
    BY <1>1, <2>1, <2>2 DEF ExecutionOwnership
<1> QED
  BY <1>9, <1>10, <1>11, <1>12, <1>13, <1>14, <1>15 DEF DataFlow


(***************************************************************************)
(* Steps that leave the contents of the reorder buffer, the stations and   *)
(* the status table alone, up to valid results and busy stations.          *)
(***************************************************************************)
\* All of the data flow but the ownership of executions survives them.
LEMMA SameContents ==
  ASSUME DataflowInvariant, program' = program, rst' = rst,
         \A r \in GPR : physicalRegisters'[r] = physicalRegisters[r],
         Len(rob') = Len(rob), DOMAIN rob' = DOMAIN rob,
         \A i \in DOMAIN rob :
            /\ rob'[i].op = rob[i].op /\ rob'[i].tag = rob[i].tag
            /\ rob'[i].rd = rob[i].rd /\ rob'[i].pc = rob[i].pc,
         \A t \in Tag :
            /\ rs'[t].op = rs[t].op /\ rs'[t].imm = rs[t].imm
            /\ rs'[t].pcValue = rs[t].pcValue
            /\ rs'[t].source1 = rs[t].source1 /\ rs'[t].val1 = rs[t].val1
            /\ rs'[t].source2 = rs[t].source2 /\ rs'[t].val2 = rs[t].val2
            /\ rs'[t].empty = rs[t].empty /\ rs'[t].valid = rs[t].valid
  PROVE  /\ CarriesInstruction' /\ NeverRenamed' /\ TagDiscipline'
         /\ RenameTable' /\ OperandFlow' /\ ValidHasOperands'
<1>0. TypeOK
  BY DEF DataflowInvariant
<1>1. /\ Len(rob) \in Nat /\ DOMAIN rob = 1 .. Len(rob)
      /\ \A i \in DOMAIN rob : rob[i].tag \in Tag
  BY <1>0, EntryTypes
<1>2. ASSUME NEW i \in 1 .. (Len(rob) + 1), NEW r \in GPR, NEW tag, NEW value,
             Bound(rob, physicalRegisters, i, r, tag, value)
      PROVE  Bound(rob', physicalRegisters', i, r, tag, value)
  <2>1. \A j \in 1 .. (i - 1) : rob'[j].tag = rob[j].tag /\ rob'[j].rd = rob[j].rd
    BY <1>1
  <2>2. i \in Int /\ physicalRegisters'[r] = physicalRegisters[r]
    OBVIOUS
  <2>3. Bound(rob, physicalRegisters, i, r, tag, value)
    BY <1>2
  <2> QED
    BY <2>1, <2>2, <2>3, BoundDependsOn
<1>3. CarriesInstruction'
  BY <1>1 DEF DataflowInvariant, CarriesInstruction, InProgram, InstructionAt
<1>4. NeverRenamed'
  BY DEF DataflowInvariant, NeverRenamed
<1>5. TagDiscipline'
  <2>1. {rob'[i].tag : i \in DOMAIN rob'} = {rob[i].tag : i \in DOMAIN rob}
    OBVIOUS
  <2>2. {t \in Tag : ~rs'[t].empty} = {t \in Tag : ~rs[t].empty}
    OBVIOUS
  <2> QED
    BY <2>1, <2>2 DEF DataflowInvariant, TagDiscipline
<1>6. RenameTable'
  <2>1. Len(rob') + 1 = Len(rob) + 1 /\ Len(rob) + 1 \in 1 .. (Len(rob) + 1)
    BY <1>1
  <2>2. \A r \in GPR :
          /\ rst[r].valid <=> rst[r].tag = NoTag
          /\ Bound(rob, physicalRegisters, Len(rob) + 1, r, rst[r].tag, rst[r].value)
    BY DEF DataflowInvariant, RenameTable
  <2>3. \A r \in GPR :
          Bound(rob', physicalRegisters', Len(rob) + 1, r, rst[r].tag, rst[r].value)
    BY <1>2, <2>1, <2>2
  <2> QED
    BY <2>1, <2>2, <2>3 DEF RenameTable
<1>7. OperandFlow'
  <2> SUFFICES ASSUME NEW i \in DOMAIN rob
               PROVE  LET s == rs'[rob'[i].tag]
                          ins == program[rob'[i].pc + 1]
                      IN  /\ OperandBound(rob', physicalRegisters', i, ins.rs1, s.source1, s.val1)
                          /\ OperandBound(rob', physicalRegisters', i, ins.rs2, s.source2, s.val2)
    BY DEF OperandFlow, InstructionAt
  <2> DEFINE s == rs[rob[i].tag]
             ins == program[rob[i].pc + 1]
  <2>1. /\ OperandBound(rob, physicalRegisters, i, ins.rs1, s.source1, s.val1)
        /\ OperandBound(rob, physicalRegisters, i, ins.rs2, s.source2, s.val2)
    BY DEF DataflowInvariant, OperandFlow, InstructionAt
  <2>2. i \in 1 .. (Len(rob) + 1)
    BY <1>1
  <2> HIDE DEF ins, s
  <2>3. /\ OperandBound(rob', physicalRegisters', i, ins.rs1, s.source1, s.val1)
        /\ OperandBound(rob', physicalRegisters', i, ins.rs2, s.source2, s.val2)
    BY <1>2, <2>1, <2>2 DEF OperandBound
  <2>4. ins = program[rob'[i].pc + 1]
    BY DEF ins
  <2>5. /\ rs'[rob'[i].tag].source1 = s.source1 /\ rs'[rob'[i].tag].val1 = s.val1
        /\ rs'[rob'[i].tag].source2 = s.source2 /\ rs'[rob'[i].tag].val2 = s.val2
    BY <1>1 DEF s
  <2> QED
    BY <2>3, <2>4, <2>5
<1>8. ValidHasOperands'
  BY DEF DataflowInvariant, ValidHasOperands
<1> QED
  BY <1>3, <1>4, <1>5, <1>6, <1>7, <1>8

LEMMA SameEverything ==
  ASSUME DataflowInvariant, UNCHANGED <<program, physicalRegisters, rst, rs, rob, lsu>>
  PROVE  DataFlow'
<1>1. ExecutionOwnership'
  BY DEF DataflowInvariant, ExecutionOwnership
<1>2. /\ CarriesInstruction' /\ NeverRenamed' /\ TagDiscipline'
      /\ RenameTable' /\ OperandFlow' /\ ValidHasOperands'
  BY SameContents
<1> QED
  BY <1>1, <1>2 DEF DataFlow

(***************************************************************************)
(* The commit stage.                                                       *)
(***************************************************************************)
\* A flush empties everything and reads the status table from the registers.
LEMMA FlushPreserves ==
  ASSUME DataflowInvariant, CommitMispredicted
  PROVE  DataFlow'
<1> DEFINE e == Head(rob)
<1>0. TypeOK
  BY DEF DataflowInvariant
<1>1. e.tag \in Tag /\ e.val \in Word /\ e.tag # NoTag
  <2>1. e = rob[1] /\ 1 \in DOMAIN rob
    BY <1>0, OldestEntry DEF CommitMispredicted, OldestIsDone, TypeOK
  <2> QED
    BY <1>0, <2>1, EntryTypes
<1>2. FlushedStations \in [Tag -> ReservationStation]
      /\ \A t \in Tag : FlushedStations[t].empty = TRUE
  <2>1. rs \in [Tag -> ReservationStation]
    BY <1>0 DEF TypeOK
  <2>2. \A t \in Tag : Cleared(rs[t]) \in ReservationStation /\ Cleared(rs[t]).empty = TRUE
    BY <1>1, <2>1, StationTypes, ClearedFields
  <2> QED
    BY <2>2 DEF FlushedStations
<1>3. /\ rs' = BroadcastToStations(FlushedStations, e.tag, e.val)
      /\ rst' = BroadcastToRegisters(FlushedRegisters, e.tag, e.val)
      /\ rob' = << >> /\ lsu' = FlushedUnits /\ program' = program
      /\ physicalRegisters' = [physicalRegisters EXCEPT !["PC"] = e.val]
  BY DEF CommitMispredicted
<1> HIDE DEF e
<1>4. DOMAIN rob' = {} /\ Len(rob') = 0
  BY <1>3
<1>5. ASSUME NEW t \in Tag PROVE rs'[t].empty = TRUE
  <2>1. /\ t # e.tag => BroadcastToStations(FlushedStations, e.tag, e.val)[t].empty
                          = FlushedStations[t].empty
        /\ t = e.tag => BroadcastToStations(FlushedStations, e.tag, e.val)[t].empty = TRUE
    BY <1>1, <1>2, BroadcastFields
  <2> QED
    BY <1>2, <1>3, <2>1
<1>6. \A r \in Reg : /\ rst'[r].tag = NoTag /\ rst'[r].valid = TRUE
                     /\ rst'[r].value = physicalRegisters[r]
  BY <1>1, <1>3 DEF BroadcastToRegisters, FlushedRegisters
<1>7. CarriesInstruction' /\ OperandFlow'
  BY <1>4 DEF CarriesInstruction, OperandFlow
<1>8. NeverRenamed'
  BY <1>6 DEF NeverRenamed, Reg
<1>9. TagDiscipline'
  BY <1>4, <1>5 DEF TagDiscipline
<1>10. RenameTable'
  <2> SUFFICES ASSUME NEW r \in GPR
               PROVE  /\ rst'[r].valid <=> rst'[r].tag = NoTag
                      /\ Bound(rob', physicalRegisters', Len(rob') + 1, r,
                               rst'[r].tag, rst'[r].value)
    BY DEF RenameTable
  <2>1. rst'[r].tag = NoTag /\ rst'[r].valid = TRUE /\ rst'[r].value = physicalRegisters[r]
    BY <1>6 DEF Reg
  <2>2. physicalRegisters'[r] = physicalRegisters[r]
    BY <1>0, <1>3, RegAssumption DEF TypeOK, Reg
  <2>3. Committed(rob', Len(rob') + 1, r)
    BY <1>4 DEF Committed
  <2> QED
    BY <2>1, <2>2, <2>3 DEF Bound
<1>11. ValidHasOperands'
  BY <1>5 DEF ValidHasOperands
<1>12. ExecutionOwnership'
  <2>1. \A u \in Index(NumLoadStores) : lsu'[u].phase = "ADDR_CALC"
    BY <1>0, <1>3 DEF FlushedUnits, TypeOK, LoadStoreUnit
  <2> QED
    BY <1>4, <2>1 DEF ExecutionOwnership
<1> QED
  BY <1>7, <1>8, <1>9, <1>10, <1>11, <1>12 DEF DataFlow

LEMMA CommitPreserves == ASSUME DataflowInvariant, Commit PROVE DataFlow'
<1>0. TypeOK
  BY DEF DataflowInvariant
<1>1. ASSUME OldestIsDone
      PROVE  /\ Head(rob) = rob[1] /\ 1 \in DOMAIN rob
             /\ Head(rob).op = "SW" => Head(rob).rd = "ZERO"
  <2>1. Head(rob) = rob[1] /\ 1 \in DOMAIN rob
    BY <1>0, <1>1, OldestEntry DEF OldestIsDone, TypeOK
  <2>2. LET ins == program[rob[1].pc + 1]
        IN  /\ rob[1].pc + 1 \in DOMAIN program
            /\ rob[1].op = ins.op /\ rob[1].rd = ins.rd
    BY <2>1 DEF DataflowInvariant, CarriesInstruction, InProgram, InstructionAt
  <2>3. program \in Programs
    BY <1>0 DEF TypeOK
  <2> QED
    BY <2>1, <2>2, <2>3, ProgramTypes
<1>2. physicalRegisters \in [Reg -> Word]
  BY <1>0 DEF TypeOK
<1>3. CASE CommitResult
  <2>1. \A r \in GPR : /\ Head(rob).rd = r => physicalRegisters'[r] = Head(rob).val
                       /\ Head(rob).rd # r => physicalRegisters'[r] = physicalRegisters[r]
    BY <1>2, <1>3 DEF CommitResult, Reg
  <2> QED
    BY <1>3, <2>1, PopPreserves DEF CommitResult
<1>4. CASE CommitBranch
  <2>1. \A r \in GPR : /\ Head(rob).rd = r => physicalRegisters'[r] = Head(rob).val
                       /\ Head(rob).rd # r => physicalRegisters'[r] = physicalRegisters[r]
    BY <1>4, RegAssumption DEF CommitBranch
  <2> QED
    BY <1>4, <2>1, PopPreserves DEF CommitBranch
<1>5. CASE CommitStore
  <2>1. \A r \in GPR : /\ Head(rob).rd = r => physicalRegisters'[r] = Head(rob).val
                       /\ Head(rob).rd # r => physicalRegisters'[r] = physicalRegisters[r]
    BY <1>1, <1>5, RegAssumption DEF CommitStore
  <2> QED
    BY <1>5, <2>1, PopPreserves DEF CommitStore
<1>6. CASE CommitStoreOutside
  BY <1>6, SameEverything DEF CommitStoreOutside
<1>7. CASE CommitMispredicted
  BY <1>7, FlushPreserves
<1>8. CASE CommitDone
  BY <1>8, SameEverything DEF CommitDone
<1> QED
  BY <1>3, <1>4, <1>5, <1>6, <1>7, <1>8 DEF Commit

(***************************************************************************)
(* The functional units.                                                   *)
(***************************************************************************)
\* A station a unit may take belongs to an unfinished entry.
LEMMA ReadyEntry ==
  ASSUME DataflowInvariant, NEW t \in Tag, Ready(t)
  PROVE  \E k \in DOMAIN rob :
            rob[k].tag = t /\ ~rob[k].valid /\ rob[k].op = rs[t].op
<1>1. ~rs[t].empty /\ ~rs[t].busy
  BY DEF Ready
<1>2. PICK k \in DOMAIN rob : rob[k].tag = t
  BY <1>1 DEF DataflowInvariant, TagDiscipline
<1>3. ~rob[k].valid
  BY <1>1, <1>2 DEF DataflowInvariant, ExecutionOwnership
<1>4. rob[k].op = rs[t].op
  BY <1>2 DEF DataflowInvariant, CarriesInstruction
<1> QED
  BY <1>2, <1>3, <1>4

\* Marking a station busy leaves its contents.
LEMMA BusyFields ==
  ASSUME rs \in [Tag -> ReservationStation], NEW t \in Tag,
         rs' = [rs EXCEPT ![t].busy = TRUE]
  PROVE  \A u \in Tag :
           /\ rs'[u].op = rs[u].op /\ rs'[u].imm = rs[u].imm
           /\ rs'[u].pcValue = rs[u].pcValue
           /\ rs'[u].source1 = rs[u].source1 /\ rs'[u].val1 = rs[u].val1
           /\ rs'[u].source2 = rs[u].source2 /\ rs'[u].val2 = rs[u].val2
           /\ rs'[u].empty = rs[u].empty /\ rs'[u].valid = rs[u].valid
           /\ u = t => rs'[u].busy = TRUE
           /\ u # t => rs'[u].busy = rs[u].busy
<1> SUFFICES ASSUME NEW u \in Tag
    PROVE  /\ rs'[u].op = rs[u].op /\ rs'[u].imm = rs[u].imm
           /\ rs'[u].pcValue = rs[u].pcValue
           /\ rs'[u].source1 = rs[u].source1 /\ rs'[u].val1 = rs[u].val1
           /\ rs'[u].source2 = rs[u].source2 /\ rs'[u].val2 = rs[u].val2
           /\ rs'[u].empty = rs[u].empty /\ rs'[u].valid = rs[u].valid
           /\ u = t => rs'[u].busy = TRUE
           /\ u # t => rs'[u].busy = rs[u].busy
  OBVIOUS
<1>1. CASE u = t
  BY <1>1 DEF ReservationStation
<1>2. CASE u # t
  BY <1>2
<1> QED
  BY <1>1, <1>2

LEMMA AdderPreserves == ASSUME DataflowInvariant, Adder PROVE DataFlow'
<1>0. TypeOK
  BY DEF DataflowInvariant
<1>1. CASE AdderIdle
  BY <1>1, SameEverything DEF AdderIdle
<1>2. CASE AdderExecute
  <2> DEFINE result(t) == ALU(rs[t].op, rs[t].pcValue, rs[t].val1, rs[t].val2, rs[t].imm)
  <2>1. PICK t \in NextReady(unit) : /\ rs' = [rs EXCEPT ![t].busy = TRUE]
                                     /\ rob' = WithResult(t, result(t))
    BY <1>2 DEF AdderExecute
  <2>2. t \in Tag /\ t.kind = "ADDER" /\ Ready(t)
    BY DEF NextReady, ReadyStations, Stations
  <2>3. result(t) \in Word
    <3>1. rs[t] \in ReservationStation
      BY <1>0, <2>2 DEF TypeOK
    <3> QED
      BY <3>1, ALUIsWord DEF ReservationStation
  <2> HIDE DEF result
  <2>4. Completes(rob', t)
    BY <1>0, <2>1, <2>3, CompletedResult DEF TypeOK
  <2>5. \A u \in Tag :
           /\ rs'[u].op = rs[u].op /\ rs'[u].imm = rs[u].imm
           /\ rs'[u].pcValue = rs[u].pcValue
           /\ rs'[u].source1 = rs[u].source1 /\ rs'[u].val1 = rs[u].val1
           /\ rs'[u].source2 = rs[u].source2 /\ rs'[u].val2 = rs[u].val2
           /\ rs'[u].empty = rs[u].empty /\ rs'[u].valid = rs[u].valid
           /\ u = t => rs'[u].busy = TRUE
           /\ u # t => rs'[u].busy = rs[u].busy
    BY <1>0, <2>1, <2>2, BusyFields DEF TypeOK
  <2>6. UNCHANGED <<program, physicalRegisters, rst, lsu>>
    BY <1>2 DEF AdderExecute
  <2>7. /\ CarriesInstruction' /\ NeverRenamed' /\ TagDiscipline'
        /\ RenameTable' /\ OperandFlow' /\ ValidHasOperands'
    BY <2>4, <2>5, <2>6, SameContents DEF Completes
  <2>8. ExecutionOwnership'
    <3>1. DOMAIN rob' = DOMAIN rob
          /\ \A i \in DOMAIN rob :
               /\ rob[i].tag \in Tag
               /\ rob'[i].tag = rob[i].tag /\ rob'[i].op = rob[i].op
               /\ rob'[i].valid = (rob[i].valid \/ rob[i].tag = t)
      BY <1>0, <2>4, EntryTypes DEF Completes
    <3>2. ~rs[t].busy
      BY <2>2 DEF Ready
    <3>3. ASSUME NEW u \in Index(NumLoadStores), lsu'[u].phase = "MEMORY_OPERATION"
          PROVE  \E i \in DOMAIN rob' :
                   /\ rob'[i].tag = lsu'[u].tag /\ rob'[i].op = lsu'[u].op
                   /\ ~rob'[i].valid /\ rs'[rob'[i].tag].busy
                   /\ rob'[i].tag.kind = "LOAD_STORE" /\ rob'[i].tag.unit = u
      <4>1. PICK i \in DOMAIN rob :
              /\ rob[i].tag = lsu[u].tag /\ rob[i].op = lsu[u].op
              /\ ~rob[i].valid /\ rs[rob[i].tag].busy
              /\ rob[i].tag.kind = "LOAD_STORE" /\ rob[i].tag.unit = u
        BY <2>6, <3>3 DEF DataflowInvariant, ExecutionOwnership
      <4>2. rob[i].tag # t
        BY <3>2, <4>1
      <4>3. ~rob'[i].valid /\ rs'[rob'[i].tag].busy
        BY <2>5, <3>1, <4>1, <4>2
      <4> QED
        BY <2>6, <3>1, <4>1, <4>3
    <3>4. ASSUME NEW i \in DOMAIN rob
          PROVE  /\ rs'[rob'[i].tag].busy =>
                      \/ rob'[i].valid
                      \/ /\ rob'[i].tag.kind = "LOAD_STORE"
                         /\ lsu'[rob'[i].tag.unit].phase = "MEMORY_OPERATION"
                         /\ lsu'[rob'[i].tag.unit].tag = rob'[i].tag
                 /\ rob'[i].valid => rs'[rob'[i].tag].busy
      <4>1. /\ rs[rob[i].tag].busy =>
                 \/ rob[i].valid
                 \/ /\ rob[i].tag.kind = "LOAD_STORE"
                    /\ lsu[rob[i].tag.unit].phase = "MEMORY_OPERATION"
                    /\ lsu[rob[i].tag.unit].tag = rob[i].tag
            /\ rob[i].valid => rs[rob[i].tag].busy
        BY DEF DataflowInvariant, ExecutionOwnership
      <4>2. CASE rob[i].tag = t
        BY <2>5, <3>1, <4>2
      <4>3. CASE rob[i].tag # t
        <5>1. rob'[i].valid <=> rob[i].valid
          BY <3>1, <4>3
        <5>2. rob'[i].tag = rob[i].tag /\ rs'[rob[i].tag].busy = rs[rob[i].tag].busy
          BY <2>5, <3>1, <4>3
        <5> QED
          BY <2>6, <4>1, <5>1, <5>2
      <4> QED
        BY <4>2, <4>3
    <3> QED
      BY <3>1, <3>3, <3>4 DEF ExecutionOwnership
  <2> QED
    BY <2>7, <2>8 DEF DataFlow
<1> QED
  BY <1>1, <1>2 DEF Adder

\* The first cycle of a load or store: its unit holds it.
LEMMA AddressCalculationPreserves ==
  ASSUME DataflowInvariant, AddressCalculation
  PROVE  DataFlow'
<1>0. TypeOK
  BY DEF DataflowInvariant
<1>1. PICK t \in OldestReady(unit) :
        /\ rs' = [rs EXCEPT ![t].busy = TRUE]
        /\ lsu' = [lsu EXCEPT ![unit] =
             [phase |-> "MEMORY_OPERATION", tag |-> t, op |-> rs[t].op,
              addr |-> EffectiveAddress(rs[t].op, rs[t].val1, rs[t].val2, rs[t].imm),
              data |-> rs[t].val1]]
  BY DEF AddressCalculation
<1>2. t \in Tag /\ t.kind = "LOAD_STORE" /\ t.unit = unit /\ Ready(t)
  BY DEF OldestReady, ReadyStations, Stations
<1>3. /\ unit \in Index(NumLoadStores) /\ lsu[unit].phase = "ADDR_CALC"
      /\ UNCHANGED <<program, physicalRegisters, rst, rob>>
      /\ lsu \in [Index(NumLoadStores) -> LoadStoreUnit]
  BY <1>0 DEF AddressCalculation, TypeOK, Turns
<1>4. \A u \in Tag :
         /\ rs'[u].op = rs[u].op /\ rs'[u].imm = rs[u].imm
         /\ rs'[u].pcValue = rs[u].pcValue
         /\ rs'[u].source1 = rs[u].source1 /\ rs'[u].val1 = rs[u].val1
         /\ rs'[u].source2 = rs[u].source2 /\ rs'[u].val2 = rs[u].val2
         /\ rs'[u].empty = rs[u].empty /\ rs'[u].valid = rs[u].valid
         /\ u = t => rs'[u].busy = TRUE
         /\ u # t => rs'[u].busy = rs[u].busy
  BY <1>0, <1>1, <1>2, BusyFields DEF TypeOK
<1>5. /\ CarriesInstruction' /\ NeverRenamed' /\ TagDiscipline'
      /\ RenameTable' /\ OperandFlow' /\ ValidHasOperands'
  BY <1>3, <1>4, SameContents
<1>6. /\ lsu'[unit].phase = "MEMORY_OPERATION" /\ lsu'[unit].tag = t
      /\ lsu'[unit].op = rs[t].op
      /\ \A u \in Index(NumLoadStores) : u # unit => lsu'[u] = lsu[u]
  BY <1>1, <1>3
<1>7. \A i \in DOMAIN rob : rob[i].tag \in Tag
  BY <1>0, EntryTypes
<1>8. ExecutionOwnership'
  <2>1. ASSUME NEW u \in Index(NumLoadStores), lsu'[u].phase = "MEMORY_OPERATION"
        PROVE  \E i \in DOMAIN rob :
                 /\ rob[i].tag = lsu'[u].tag /\ rob[i].op = lsu'[u].op
                 /\ ~rob[i].valid /\ rs'[rob[i].tag].busy
                 /\ rob[i].tag.kind = "LOAD_STORE" /\ rob[i].tag.unit = u
    <3>1. CASE u = unit
      <4>1. PICK k \in DOMAIN rob :
              rob[k].tag = t /\ ~rob[k].valid /\ rob[k].op = rs[t].op
        BY <1>2, ReadyEntry
      <4> QED
        BY <1>2, <1>4, <1>6, <3>1, <4>1
    <3>2. CASE u # unit
      <4>1. PICK i \in DOMAIN rob :
              /\ rob[i].tag = lsu[u].tag /\ rob[i].op = lsu[u].op
              /\ ~rob[i].valid /\ rs[rob[i].tag].busy
              /\ rob[i].tag.kind = "LOAD_STORE" /\ rob[i].tag.unit = u
        BY <1>6, <2>1, <3>2 DEF DataflowInvariant, ExecutionOwnership
      <4>2. rs'[rob[i].tag].busy
        BY <1>4, <1>7, <4>1
      <4> QED
        BY <1>6, <3>2, <4>1, <4>2
    <3> QED
      BY <3>1, <3>2
  <2>2. ASSUME NEW i \in DOMAIN rob
        PROVE  /\ rs'[rob[i].tag].busy =>
                    \/ rob[i].valid
                    \/ /\ rob[i].tag.kind = "LOAD_STORE"
                       /\ lsu'[rob[i].tag.unit].phase = "MEMORY_OPERATION"
                       /\ lsu'[rob[i].tag.unit].tag = rob[i].tag
               /\ rob[i].valid => rs'[rob[i].tag].busy
    <3>1. /\ rs[rob[i].tag].busy =>
               \/ rob[i].valid
               \/ /\ rob[i].tag.kind = "LOAD_STORE"
                  /\ lsu[rob[i].tag.unit].phase = "MEMORY_OPERATION"
                  /\ lsu[rob[i].tag.unit].tag = rob[i].tag
          /\ rob[i].valid => rs[rob[i].tag].busy
      BY DEF DataflowInvariant, ExecutionOwnership
    <3>2. rob[i].tag.kind = "LOAD_STORE" => rob[i].tag.unit \in Index(NumLoadStores)
      BY <1>7 DEF Tag, Index
    <3> QED
      BY <1>2, <1>3, <1>4, <1>6, <1>7, <3>1, <3>2
  <2> QED
    BY <1>3, <2>1, <2>2 DEF ExecutionOwnership
<1> QED
  BY <1>5, <1>8 DEF DataFlow

\* The second cycle: the unit answers for the entry it holds, and is free.
LEMMA AnswerPreserves ==
  ASSUME DataflowInvariant, stage = "loadstore",
         lsu[unit].phase = "MEMORY_OPERATION",
         Completes(rob', lsu[unit].tag),
         lsu' = [lsu EXCEPT ![unit].phase = "ADDR_CALC"],
         UNCHANGED <<program, physicalRegisters, rst, rs>>
  PROVE  DataFlow'
<1>0. TypeOK
  BY DEF DataflowInvariant
<1>1. /\ CarriesInstruction' /\ NeverRenamed' /\ TagDiscipline'
      /\ RenameTable' /\ OperandFlow' /\ ValidHasOperands'
  BY SameContents DEF Completes
<1>2. /\ unit \in Index(NumLoadStores)
      /\ lsu'[unit].phase = "ADDR_CALC"
      /\ \A u \in Index(NumLoadStores) : u # unit => lsu'[u] = lsu[u]
  BY <1>0 DEF TypeOK, Turns, LoadStoreUnit
<1>3. /\ DOMAIN rob' = DOMAIN rob
      /\ \A i \in DOMAIN rob :
           /\ rob[i].tag \in Tag
           /\ rob'[i].tag = rob[i].tag /\ rob'[i].op = rob[i].op
           /\ rob'[i].valid = (rob[i].valid \/ rob[i].tag = lsu[unit].tag)
  BY <1>0, EntryTypes DEF Completes
<1>4. PICK k \in DOMAIN rob :
        /\ rob[k].tag = lsu[unit].tag /\ rs[rob[k].tag].busy
        /\ rob[k].tag.kind = "LOAD_STORE" /\ rob[k].tag.unit = unit
  BY <1>2 DEF DataflowInvariant, ExecutionOwnership
<1>5. ExecutionOwnership'
  <2>1. ASSUME NEW u \in Index(NumLoadStores), lsu'[u].phase = "MEMORY_OPERATION"
        PROVE  \E i \in DOMAIN rob' :
                 /\ rob'[i].tag = lsu'[u].tag /\ rob'[i].op = lsu'[u].op
                 /\ ~rob'[i].valid /\ rs'[rob'[i].tag].busy
                 /\ rob'[i].tag.kind = "LOAD_STORE" /\ rob'[i].tag.unit = u
    <3>1. u # unit /\ lsu'[u] = lsu[u]
      BY <1>2, <2>1
    <3>2. PICK i \in DOMAIN rob :
            /\ rob[i].tag = lsu[u].tag /\ rob[i].op = lsu[u].op
            /\ ~rob[i].valid /\ rs[rob[i].tag].busy
            /\ rob[i].tag.kind = "LOAD_STORE" /\ rob[i].tag.unit = u
      BY <2>1, <3>1 DEF DataflowInvariant, ExecutionOwnership
    <3>3. rob[i].tag # lsu[unit].tag
      BY <1>4, <3>1, <3>2
    <3>4. rob'[i].valid = (rob[i].valid \/ rob[i].tag = lsu[unit].tag)
      BY <1>3
    <3>5. ~rob'[i].valid
      BY ONLY <3>2, <3>3, <3>4
    <3> QED
      BY <1>3, <3>1, <3>2, <3>5
  <2>2. ASSUME NEW i \in DOMAIN rob
        PROVE  /\ rs'[rob'[i].tag].busy =>
                    \/ rob'[i].valid
                    \/ /\ rob'[i].tag.kind = "LOAD_STORE"
                       /\ lsu'[rob'[i].tag.unit].phase = "MEMORY_OPERATION"
                       /\ lsu'[rob'[i].tag.unit].tag = rob'[i].tag
               /\ rob'[i].valid => rs'[rob'[i].tag].busy
    <3>1. /\ rs[rob[i].tag].busy =>
               \/ rob[i].valid
               \/ /\ rob[i].tag.kind = "LOAD_STORE"
                  /\ lsu[rob[i].tag.unit].phase = "MEMORY_OPERATION"
                  /\ lsu[rob[i].tag.unit].tag = rob[i].tag
          /\ rob[i].valid => rs[rob[i].tag].busy
      BY DEF DataflowInvariant, ExecutionOwnership
    <3>2. rob[i].tag.kind = "LOAD_STORE" => rob[i].tag.unit \in Index(NumLoadStores)
      BY <1>3 DEF Tag, Index
    <3>3. CASE rob[i].tag = lsu[unit].tag
      BY <1>3, <1>4, <3>3
    <3>4. CASE rob[i].tag # lsu[unit].tag
      <4>1. rob'[i].tag = rob[i].tag /\ (rob'[i].valid <=> rob[i].valid)
        BY <1>3, <3>4
      <4>2. rob[i].tag.kind = "LOAD_STORE" /\ lsu[rob[i].tag.unit].tag = rob[i].tag
               => lsu'[rob[i].tag.unit] = lsu[rob[i].tag.unit]
        BY <1>2, <3>2, <3>4
      <4> QED
        BY <3>1, <4>1, <4>2
    <3> QED
      BY <3>3, <3>4
  <2> QED
    BY <1>3, <2>1, <2>2 DEF ExecutionOwnership
<1> QED
  BY <1>1, <1>5 DEF DataFlow

LEMMA LoadStorePreserves == ASSUME DataflowInvariant, LoadStore PROVE DataFlow'
<1>0. TypeOK
  BY DEF DataflowInvariant
<1>1. CASE LoadStoreIdle
  BY <1>1, SameEverything DEF LoadStoreIdle
<1>2. CASE AddressCalculation
  BY <1>2, AddressCalculationPreserves
<1>3. CASE MemoryStore
  <2>1. unit \in Index(NumLoadStores)
    BY <1>0, <1>3 DEF MemoryStore, TypeOK, Turns
  <2>2. lsu[unit].addr \in Word /\ lsu[unit].data \in Word
    BY <1>0, <2>1 DEF TypeOK, LoadStoreUnit
  <2>3. Completes(rob', lsu[unit].tag)
    BY <1>0, <1>3, <2>2, CompletedStore DEF MemoryStore, TypeOK
  <2> QED
    BY <1>3, <2>3, AnswerPreserves DEF MemoryStore
<1>4. CASE MemoryLoad
  <2>1. PICK v \in Loaded(lsu[unit].addr) : rob' = WithResult(lsu[unit].tag, v)
    BY <1>4 DEF MemoryLoad
  <2>2. v \in Word
    BY <1>0, ConfigAssumption DEF Loaded, TypeOK
  <2>3. Completes(rob', lsu[unit].tag)
    BY <1>0, <2>1, <2>2, CompletedResult DEF TypeOK
  <2> QED
    BY <1>4, <2>3, AnswerPreserves DEF MemoryLoad
<1>5. CASE MemoryLoadFault
  BY <1>5, SameEverything DEF MemoryLoadFault
<1> QED
  BY <1>1, <1>2, <1>3, <1>4, <1>5 DEF LoadStore

(***************************************************************************)
(* The decoder.                                                            *)
(***************************************************************************)
\* A younger entry that does not write r leaves the binding of r.
LEMMA BoundExtends ==
  ASSUME NEW e1, NEW e2, NEW regs1, NEW regs2, NEW i \in Nat, NEW r,
         NEW tag, NEW value,
         \A j \in 1 .. (i - 1) : e2[j].tag = e1[j].tag /\ e2[j].rd = e1[j].rd,
         e2[i].rd # r, regs2[r] = regs1[r],
         Bound(e1, regs1, i, r, tag, value)
  PROVE  Bound(e2, regs2, i + 1, r, tag, value)
<1>1. CASE tag = NoTag
  <2>1. value = regs1[r] /\ \A j \in 1 .. (i - 1) : e1[j].rd # r
    BY <1>1 DEF Bound, Committed
  <2>2. \A j \in 1 .. ((i + 1) - 1) : j \in 1 .. (i - 1) \/ j = i
    OBVIOUS
  <2>3. Committed(e2, i + 1, r)
    BY <2>1, <2>2 DEF Committed
  <2> QED
    BY <1>1, <2>1, <2>3 DEF Bound
<1>2. CASE tag # NoTag
  <2>1. PICK j \in 1 .. (i - 1) :
          /\ e1[j].tag = tag /\ e1[j].rd = r
          /\ \A k \in (j + 1) .. (i - 1) : e1[k].rd # r
    BY <1>2 DEF Bound, AwaitedFrom
  <2>2. /\ j \in 1 .. ((i + 1) - 1)
        /\ \A k \in (j + 1) .. ((i + 1) - 1) :
              (k \in 1 .. (i - 1) /\ k \in (j + 1) .. (i - 1)) \/ k = i
    BY <2>1
  <2>3. \A k \in (j + 1) .. ((i + 1) - 1) : e2[k].rd # r
    BY <2>1, <2>2
  <2>4. AwaitedFrom(e2, i + 1, r, tag)
    BY <2>1, <2>2, <2>3 DEF AwaitedFrom
  <2> QED
    BY <1>2, <2>4 DEF Bound
<1> QED
  BY <1>1, <1>2

\* What the decoder reads for an operand is a binding at the next position.
LEMMA OperandRead ==
  ASSUME DataflowInvariant, NEW r \in Reg
  PROVE  /\ OperandBound(rob, physicalRegisters, Len(rob) + 1, r,
                         OperandTag(r), OperandValue(r))
         /\ rst[r].valid => OperandTag(r) = NoTag
<1>1. CASE r \in GPR
  <2>1. /\ rst[r].valid <=> rst[r].tag = NoTag
        /\ Bound(rob, physicalRegisters, Len(rob) + 1, r, rst[r].tag, rst[r].value)
    BY <1>1 DEF DataflowInvariant, RenameTable
  <2>2. CASE rst[r].valid
    <3>1. OperandTag(r) = rst[r].tag /\ OperandValue(r) = rst[r].value
          /\ OperandTag(r) = NoTag
      BY <2>1, <2>2 DEF OperandTag, OperandValue
    <3> QED
      BY <1>1, <2>1, <3>1 DEF OperandBound
  <2>3. CASE ~rst[r].valid
    <3>1. OperandTag(r) = rst[r].tag /\ OperandTag(r) # NoTag
      BY <2>1, <2>3 DEF OperandTag
    <3>2. Bound(rob, physicalRegisters, Len(rob) + 1, r, OperandTag(r), OperandValue(r))
      BY <2>1, <3>1 DEF Bound
    <3> QED
      BY <1>1, <2>3, <3>2 DEF OperandBound
  <2> QED
    BY <2>2, <2>3
<1>2. CASE r \notin GPR
  <2>1. rst[r].valid
    BY <1>2 DEF DataflowInvariant, NeverRenamed, Reg
  <2> QED
    BY <1>2, <2>1 DEF OperandTag, OperandBound
<1> QED
  BY <1>1, <1>2

LEMMA IssuePreserves ==
  ASSUME DataflowInvariant, stage = "decode", InProgram(FetchPC), CanIssue,
         NEW t \in Tag, rs[t].empty, Issue(t),
         \A r \in GPR : physicalRegisters'[r] = physicalRegisters[r],
         \A r \in Reg : /\ rst'[r].tag = (IF r \in GPR /\ r = Fetched.rd THEN t ELSE rst[r].tag)
                        /\ rst'[r].valid = (IF r \in GPR /\ r = Fetched.rd THEN FALSE
                                                                     ELSE rst[r].valid),
         \A r \in GPR : rst'[r].value = rst[r].value
  PROVE  DataFlow'
<1> DEFINE n == Len(rob)
           new == rob'[n + 1]
<1>0. TypeOK
  BY DEF DataflowInvariant
<1>1. /\ n \in Nat /\ DOMAIN rob = 1 .. n
      /\ \A i \in 1 .. n : rob[i].tag \in Tag
  BY <1>0, EntryTypes
<1>2. /\ Len(rob') = n + 1 /\ DOMAIN rob' = 1 .. (n + 1)
      /\ \A i \in 1 .. n : rob'[i] = rob[i]
      /\ new = NewEntry(Fetched, t, FetchPC)
  <2>1. rob \in Seq(ReorderBufferEntry) /\ rob' = Append(rob, NewEntry(Fetched, t, FetchPC))
    BY <1>0 DEF Issue, TypeOK
  <2> QED
    BY <2>1, AppendProperties
<1>3. /\ new.op = Fetched.op /\ new.tag = t /\ new.rd = Fetched.rd
      /\ new.pc = FetchPC /\ new.valid = FALSE
  BY <1>2 DEF NewEntry
<1>4. /\ rs'[t] = FilledStation(Fetched, FetchPC)
      /\ \A u \in Tag : u # t => rs'[u] = rs[u]
      /\ program' = program /\ lsu' = lsu
  BY <1>0 DEF Issue, TypeOK
<1>5. /\ rs'[t].empty = FALSE /\ rs'[t].busy = FALSE
      /\ rs'[t].valid = (rst[Fetched.rs1].valid /\ rst[Fetched.rs2].valid)
      /\ rs'[t].op = Fetched.op /\ rs'[t].imm = Fetched.imm /\ rs'[t].pcValue = FetchPC
      /\ rs'[t].source1 = OperandTag(Fetched.rs1) /\ rs'[t].val1 = OperandValue(Fetched.rs1)
      /\ rs'[t].source2 = OperandTag(Fetched.rs2) /\ rs'[t].val2 = OperandValue(Fetched.rs2)
  BY <1>4 DEF FilledStation
<1>6. \A i \in 1 .. n : rob[i].tag # t /\ rs'[rob[i].tag] = rs[rob[i].tag]
  <2>1. \A i \in DOMAIN rob : ~rs[rob[i].tag].empty
    BY <1>1 DEF DataflowInvariant, TagDiscipline
  <2> QED
    BY <1>1, <1>4, <2>1
<1>7. Fetched.rs1 \in Reg /\ Fetched.rs2 \in Reg /\ Fetched = program[FetchPC + 1]
  BY <1>0, FetchTypes DEF Fetched
<1> HIDE DEF n, new
<1>8. \A i \in 1 .. (n + 1) : i \in 1 .. n \/ i = n + 1
  BY <1>1
<1>9. ASSUME NEW i \in 1 .. (n + 1), NEW r \in GPR, NEW tag, NEW value,
             Bound(rob, physicalRegisters, i, r, tag, value)
      PROVE  Bound(rob', physicalRegisters', i, r, tag, value)
  <2>1. \A j \in 1 .. (i - 1) : rob'[j].tag = rob[j].tag /\ rob'[j].rd = rob[j].rd
    BY <1>1, <1>2
  <2>2. i \in Int /\ physicalRegisters'[r] = physicalRegisters[r]
    BY <1>1
  <2>3. Bound(rob, physicalRegisters, i, r, tag, value)
    BY <1>9
  <2> QED
    BY <2>1, <2>2, <2>3, BoundDependsOn
<1>10. CarriesInstruction'
  <2>1. ASSUME NEW i \in 1 .. n
        PROVE  LET s == rs'[rob'[i].tag]
                   ins == program[rob'[i].pc + 1]
               IN  /\ rob'[i].pc + 1 \in DOMAIN program
                   /\ rob'[i].op = ins.op /\ rob'[i].rd = ins.rd
                   /\ s.op = ins.op /\ s.imm = ins.imm /\ s.pcValue = rob'[i].pc
    BY <1>1, <1>2, <1>6 DEF DataflowInvariant, CarriesInstruction, InProgram, InstructionAt
  <2>2. LET s == rs'[new.tag]
            ins == program[new.pc + 1]
        IN  /\ new.pc + 1 \in DOMAIN program
            /\ new.op = ins.op /\ new.rd = ins.rd
            /\ s.op = ins.op /\ s.imm = ins.imm /\ s.pcValue = new.pc
    BY <1>3, <1>5, <1>7 DEF InProgram
  <2> QED
    BY <1>2, <1>4, <1>8, <2>1, <2>2 DEF CarriesInstruction, InProgram, InstructionAt, new
<1>11. NeverRenamed'
  BY RegAssumption DEF DataflowInvariant, NeverRenamed, Reg
<1>12. TagDiscipline'
  <2>1. ASSUME NEW i \in DOMAIN rob', NEW j \in DOMAIN rob', rob'[i].tag = rob'[j].tag
        PROVE  i = j
    <3>1. (i \in 1 .. n /\ j \in 1 .. n) \/ (i = n + 1 /\ j = n + 1)
      BY <1>2, <1>3, <1>6, <1>8, <2>1 DEF new
    <3> QED
      BY <1>1, <1>2, <2>1, <3>1 DEF DataflowInvariant, TagDiscipline
  <2>2. ASSUME NEW u \in Tag, ~rs'[u].empty
        PROVE  \E i \in DOMAIN rob' : u = rob'[i].tag
    <3>1. CASE u = t
      <4>1. n + 1 \in DOMAIN rob' /\ rob'[n + 1].tag = t
        BY <1>1, <1>2, <1>3 DEF new
      <4> QED
        BY <3>1, <4>1
    <3>2. CASE u # t
      <4>1. PICK i \in DOMAIN rob : u = rob[i].tag
        BY <1>4, <2>2, <3>2 DEF DataflowInvariant, TagDiscipline
      <4>2. i \in DOMAIN rob' /\ rob'[i] = rob[i]
        BY <1>1, <1>2
      <4> QED
        BY <4>1, <4>2
    <3> QED
      BY <3>1, <3>2
  <2>3. ASSUME NEW i \in DOMAIN rob'
        PROVE  rob'[i].tag \in Tag /\ ~rs'[rob'[i].tag].empty
    <3>1. CASE i \in 1 .. n
      <4>1. ~rs[rob[i].tag].empty
        BY <1>1, <3>1 DEF DataflowInvariant, TagDiscipline
      <4> QED
        BY <1>1, <1>2, <1>6, <3>1, <4>1
    <3>2. CASE i = n + 1
      BY <1>3, <1>5, <3>2 DEF new
    <3> QED
      BY <1>2, <1>8, <2>3, <3>1, <3>2
  <2> QED
    BY <2>1, <2>2, <2>3 DEF TagDiscipline
<1>13. RenameTable'
  <2> SUFFICES ASSUME NEW r \in GPR
               PROVE  /\ rst'[r].valid <=> rst'[r].tag = NoTag
                      /\ Bound(rob', physicalRegisters', Len(rob') + 1, r,
                               rst'[r].tag, rst'[r].value)
    BY DEF RenameTable
  <2>0. r \in Reg /\ Len(rob') + 1 = (n + 1) + 1
    BY <1>2 DEF Reg
  <2>1. CASE r = Fetched.rd
    <3>1. rst'[r].tag = t /\ rst'[r].valid = FALSE /\ t # NoTag
      BY <2>0, <2>1, TagsDiffer
    <3>2. AwaitedFrom(rob', (n + 1) + 1, r, t)
      <4>1. n + 1 \in 1 .. (((n + 1) + 1) - 1) /\ rob'[n + 1].tag = t /\ rob'[n + 1].rd = r
        BY <1>1, <1>3, <2>1 DEF new
      <4>2. \A k \in ((n + 1) + 1) .. (((n + 1) + 1) - 1) : rob'[k].rd # r
        BY <1>1
      <4> QED
        BY <4>1, <4>2 DEF AwaitedFrom
    <3> QED
      BY <2>0, <3>1, <3>2 DEF Bound
  <2>2. CASE r # Fetched.rd
    <3>1. rst'[r].tag = rst[r].tag /\ rst'[r].valid = rst[r].valid
          /\ rst'[r].value = rst[r].value
      BY <2>0, <2>2
    <3>2. /\ rst[r].valid <=> rst[r].tag = NoTag
          /\ Bound(rob, physicalRegisters, n + 1, r, rst[r].tag, rst[r].value)
      BY DEF DataflowInvariant, RenameTable, n
    <3>3. \A j \in 1 .. ((n + 1) - 1) : rob'[j].tag = rob[j].tag /\ rob'[j].rd = rob[j].rd
      BY <1>1, <1>2
    <3>4. rob'[n + 1].rd # r /\ n + 1 \in Nat
          /\ physicalRegisters'[r] = physicalRegisters[r]
      BY <1>1, <1>3, <2>2 DEF new
    <3>5. Bound(rob', physicalRegisters', (n + 1) + 1, r, rst[r].tag, rst[r].value)
      BY <3>2, <3>3, <3>4, BoundExtends
    <3> QED
      BY <2>0, <3>1, <3>2, <3>5
  <2> QED
    BY <2>1, <2>2
<1>14. OperandFlow'
  <2> SUFFICES ASSUME NEW i \in 1 .. (n + 1)
               PROVE  LET s == rs'[rob'[i].tag]
                          ins == program[rob'[i].pc + 1]
                      IN  /\ OperandBound(rob', physicalRegisters', i, ins.rs1, s.source1, s.val1)
                          /\ OperandBound(rob', physicalRegisters', i, ins.rs2, s.source2, s.val2)
    BY <1>2, <1>4 DEF OperandFlow, InstructionAt
  <2> DEFINE s == rs'[rob'[i].tag]
             ins == program[rob'[i].pc + 1]
  <2>1. /\ OperandBound(rob, physicalRegisters, i, ins.rs1, s.source1, s.val1)
        /\ OperandBound(rob, physicalRegisters, i, ins.rs2, s.source2, s.val2)
    <3>1. CASE i \in 1 .. n
      <4>1. i \in DOMAIN rob /\ rob'[i] = rob[i] /\ rs'[rob'[i].tag] = rs[rob[i].tag]
        BY <1>1, <1>2, <1>6, <3>1
      <4> QED
        BY <4>1 DEF DataflowInvariant, OperandFlow, InstructionAt
    <3>2. CASE i = n + 1
      <4>1. rob'[i].tag = t /\ rob'[i].pc = FetchPC
        BY <1>3, <3>2 DEF new
      <4>2. ins = Fetched /\ s = rs'[t]
        BY <1>7, <4>1
      <4> HIDE DEF ins, s
      <4>3. \A q \in Reg : OperandBound(rob, physicalRegisters, i, q,
                                        OperandTag(q), OperandValue(q))
        BY <3>2, OperandRead DEF n
      <4> QED
        BY <1>5, <1>7, <4>2, <4>3
    <3> QED
      BY <1>8, <3>1, <3>2
  <2> HIDE DEF ins, s
  <2>2. /\ OperandBound(rob', physicalRegisters', i, ins.rs1, s.source1, s.val1)
        /\ OperandBound(rob', physicalRegisters', i, ins.rs2, s.source2, s.val2)
    BY <1>9, <2>1 DEF OperandBound
  <2> QED
    BY <2>2 DEF ins, s
<1>15. ValidHasOperands'
  <2> SUFFICES ASSUME NEW u \in Tag, rs'[u].valid, ~rs'[u].empty
               PROVE  rs'[u].source1 = NoTag /\ rs'[u].source2 = NoTag
    BY DEF ValidHasOperands
  <2>1. CASE u = t
    BY <1>5, <1>7, <2>1, OperandRead
  <2>2. CASE u # t
    BY <1>4, <2>2 DEF DataflowInvariant, ValidHasOperands
  <2> QED
    BY <2>1, <2>2
<1>16. ExecutionOwnership'
  <2>1. ASSUME NEW u \in Index(NumLoadStores), lsu[u].phase = "MEMORY_OPERATION"
        PROVE  \E i \in DOMAIN rob' :
                 /\ rob'[i].tag = lsu[u].tag /\ rob'[i].op = lsu[u].op
                 /\ ~rob'[i].valid /\ rs'[rob'[i].tag].busy
                 /\ rob'[i].tag.kind = "LOAD_STORE" /\ rob'[i].tag.unit = u
    <3>1. PICK i \in DOMAIN rob :
            /\ rob[i].tag = lsu[u].tag /\ rob[i].op = lsu[u].op
            /\ ~rob[i].valid /\ rs[rob[i].tag].busy
            /\ rob[i].tag.kind = "LOAD_STORE" /\ rob[i].tag.unit = u
      BY <2>1 DEF DataflowInvariant, ExecutionOwnership
    <3>2. i \in DOMAIN rob' /\ rob'[i] = rob[i] /\ rs'[rob[i].tag] = rs[rob[i].tag]
      BY <1>1, <1>2, <1>6
    <3> QED
      BY <3>1, <3>2
  <2>2. ASSUME NEW i \in DOMAIN rob'
        PROVE  /\ rs'[rob'[i].tag].busy =>
                    \/ rob'[i].valid
                    \/ /\ rob'[i].tag.kind = "LOAD_STORE"
                       /\ lsu[rob'[i].tag.unit].phase = "MEMORY_OPERATION"
                       /\ lsu[rob'[i].tag.unit].tag = rob'[i].tag
               /\ rob'[i].valid => rs'[rob'[i].tag].busy
    <3>1. CASE i \in 1 .. n
      <4>1. i \in DOMAIN rob /\ rob'[i] = rob[i] /\ rs'[rob[i].tag] = rs[rob[i].tag]
        BY <1>1, <1>2, <1>6, <3>1
      <4> QED
        BY <4>1 DEF DataflowInvariant, ExecutionOwnership
    <3>2. CASE i = n + 1
      BY <1>3, <1>5, <3>2 DEF new
    <3> QED
      BY <1>2, <1>8, <2>2, <3>1, <3>2
  <2> QED
    BY <1>4, <2>1, <2>2 DEF ExecutionOwnership
<1> QED
  BY <1>10, <1>11, <1>12, <1>13, <1>14, <1>15, <1>16 DEF DataFlow

LEMMA DecodePreserves == ASSUME DataflowInvariant, Decode PROVE DataFlow'
<1>0. TypeOK
  BY DEF DataflowInvariant
<1>1. CASE FetchFault
  BY <1>1, SameEverything DEF FetchFault
<1>2. CASE DecodeStall
  BY <1>2, SameEverything DEF DecodeStall
<1>3. ASSUME NEW t \in Tag, NEW r \in Reg
      PROVE  /\ Renamed(rst, Fetched.rd, t)[r].tag
                  = (IF r \in GPR /\ r = Fetched.rd THEN t ELSE rst[r].tag)
             /\ Renamed(rst, Fetched.rd, t)[r].valid
                  = (IF r \in GPR /\ r = Fetched.rd THEN FALSE ELSE rst[r].valid)
             /\ Renamed(rst, Fetched.rd, t)[r].value = rst[r].value
  <2> DEFINE entry(q) == [[rst[q] EXCEPT !.tag = t] EXCEPT !.valid = FALSE]
  <2>1. rst \in [Reg -> RegisterStatusEntry]
    BY <1>0 DEF TypeOK
  <2>2. \A q \in Reg : /\ entry(q).tag = t /\ entry(q).valid = FALSE
                       /\ entry(q).value = rst[q].value
    BY <2>1 DEF RegisterStatusEntry
  <2>3. CASE Fetched.rd \in GPR
    <3>1. Renamed(rst, Fetched.rd, t) = [rst EXCEPT ![Fetched.rd] = entry(Fetched.rd)]
      BY <2>1, <2>3 DEF Renamed, Reg
    <3> HIDE DEF entry
    <3> QED
      BY <2>1, <2>2, <2>3, <3>1
  <2>4. CASE Fetched.rd \notin GPR
    BY <2>4 DEF Renamed
  <2> QED
    BY <2>3, <2>4
<1>4. \A t : t \in StationToUse("ADDER") \/ t \in StationToUse(RequiredType(Fetched.op))
                => t \in Tag /\ rs[t].empty
  BY DEF StationToUse, FreeStations
<1>5. CASE DecodeIssue
  <2>1. PICK t \in StationToUse(RequiredType(Fetched.op)) :
          /\ Issue(t)
          /\ rst' = [Renamed(rst, Fetched.rd, t) EXCEPT !["PC"].value =
                         IF FollowingPC = FetchPC THEN @ ELSE FollowingPC]
    BY <1>5 DEF DecodeIssue
  <2>2. t \in Tag /\ rs[t].empty
    BY <1>4
  <2>3. InProgram(FetchPC) /\ CanIssue /\ stage = "decode"
    BY <1>5 DEF DecodeIssue, Decoding
  <2>4. Renamed(rst, Fetched.rd, t) \in [Reg -> RegisterStatusEntry]
    BY <1>0, <2>1, <2>2, <2>3, IssueTypes
  <2>5. \A r \in Reg : /\ rst'[r].tag = Renamed(rst, Fetched.rd, t)[r].tag
                       /\ rst'[r].valid = Renamed(rst, Fetched.rd, t)[r].valid
                       /\ r \in GPR => rst'[r] = Renamed(rst, Fetched.rd, t)[r]
    <3> DEFINE table == Renamed(rst, Fetched.rd, t)
    <3>1. rst' = [table EXCEPT !["PC"].value =
                     IF FollowingPC = FetchPC THEN @ ELSE FollowingPC]
      BY <2>1
    <3>2. table \in [Reg -> RegisterStatusEntry]
      BY <2>4
    <3> HIDE DEF table
    <3>3. \A r \in Reg : /\ rst'[r].tag = table[r].tag
                         /\ rst'[r].valid = table[r].valid
                         /\ r \in GPR => rst'[r] = table[r]
      BY <3>1, <3>2, RegAssumption DEF RegisterStatusEntry, Reg
    <3> QED
      BY <3>3 DEF table
  <2>6. \A r \in GPR : physicalRegisters'[r] = physicalRegisters[r]
    BY <1>0, <1>5, RegAssumption DEF DecodeIssue, TypeOK, Reg
  <2>7. \A r \in Reg :
           /\ rst'[r].tag = (IF r \in GPR /\ r = Fetched.rd THEN t ELSE rst[r].tag)
           /\ rst'[r].valid = (IF r \in GPR /\ r = Fetched.rd THEN FALSE ELSE rst[r].valid)
    <3> TAKE r \in Reg
    <3>1. /\ rst'[r].tag = Renamed(rst, Fetched.rd, t)[r].tag
          /\ rst'[r].valid = Renamed(rst, Fetched.rd, t)[r].valid
      BY <2>5
    <3>2. /\ Renamed(rst, Fetched.rd, t)[r].tag
               = (IF r \in GPR /\ r = Fetched.rd THEN t ELSE rst[r].tag)
          /\ Renamed(rst, Fetched.rd, t)[r].valid
               = (IF r \in GPR /\ r = Fetched.rd THEN FALSE ELSE rst[r].valid)
      BY <1>3, <2>2
    <3> QED
      BY ONLY <3>1, <3>2
  <2>8. \A r \in GPR : rst'[r].value = rst[r].value
    <3>1. \A r \in GPR : r \in Reg
      BY DEF Reg
    <3>2. \A r \in Reg : Renamed(rst, Fetched.rd, t)[r].value = rst[r].value
      BY <1>3, <2>2
    <3> QED
      BY <2>5, <3>1, <3>2
  <2> QED
    BY <2>1, <2>2, <2>3, <2>6, <2>7, <2>8, IssuePreserves
<1>6. CASE DecodeBranch
  <2>1. PICK t \in StationToUse("ADDER") :
          Issue(t) /\ rst' = Renamed(rst, Fetched.rd, t)
    BY <1>6 DEF DecodeBranch
  <2>2. t \in Tag /\ rs[t].empty
    BY <1>4
  <2>3. InProgram(FetchPC) /\ CanIssue /\ stage = "decode"
    BY <1>6 DEF DecodeBranch, Decoding
  <2>4. \A r \in GPR : physicalRegisters'[r] = physicalRegisters[r]
    BY <1>0, <1>6, RegAssumption DEF DecodeBranch, TypeOK, Reg
  <2>5. \A r \in Reg :
           /\ rst'[r].tag = (IF r \in GPR /\ r = Fetched.rd THEN t ELSE rst[r].tag)
           /\ rst'[r].valid = (IF r \in GPR /\ r = Fetched.rd THEN FALSE ELSE rst[r].valid)
    BY <1>3, <2>1, <2>2
  <2>6. \A r \in GPR : rst'[r].value = rst[r].value
    <3> TAKE r \in GPR
    <3>1. r \in Reg
      BY DEF Reg
    <3>2. Renamed(rst, Fetched.rd, t)[r].value = rst[r].value
      BY <1>3, <2>2, <3>1
    <3> QED
      BY <2>1, <3>2
  <2> QED
    BY <2>1, <2>2, <2>3, <2>4, <2>5, <2>6, IssuePreserves
<1> QED
  BY <1>1, <1>2, <1>5, <1>6 DEF Decode

(***************************************************************************)
(* The inductive invariant and what it implies.                            *)
(***************************************************************************)
LEMMA InitDataFlow == Init => DataFlow
<1> SUFFICES ASSUME Init PROVE DataFlow
  OBVIOUS
<1>1. /\ DOMAIN rob = {} /\ Len(rob) = 0
      /\ \A t \in Tag : rs[t].empty = TRUE
      /\ \A r \in Reg : /\ rst[r].tag = NoTag /\ rst[r].valid = TRUE /\ rst[r].value = 0
                        /\ physicalRegisters[r] = 0
      /\ \A u \in Index(NumLoadStores) : lsu[u].phase = "ADDR_CALC"
  BY DEF Init, FreshStation, IdleUnit
<1>2. RenameTable
  BY <1>1 DEF RenameTable, Bound, Committed, Reg
<1>3. TagDiscipline /\ CarriesInstruction /\ OperandFlow /\ ExecutionOwnership
  BY <1>1 DEF TagDiscipline, CarriesInstruction, OperandFlow, ExecutionOwnership
<1>4. NeverRenamed /\ ValidHasOperands
  BY <1>1 DEF NeverRenamed, ValidHasOperands, Reg
<1> QED
  BY <1>2, <1>3, <1>4 DEF DataFlow

LEMMA StepDataflow == DataflowInvariant /\ [Next]_vars => DataflowInvariant'
<1> SUFFICES ASSUME DataflowInvariant, [Next]_vars PROVE DataflowInvariant'
  OBVIOUS
<1>1. TypeOK'
  <2>1. TypeOK
    BY DEF DataflowInvariant
  <2> QED
    BY <2>1, StepTypes
<1>2. DataFlow'
  <2>1. CASE Commit
    BY <2>1, CommitPreserves
  <2>2. CASE Adder
    BY <2>2, AdderPreserves
  <2>3. CASE LoadStore
    BY <2>3, LoadStorePreserves
  <2>4. CASE Decode
    BY <2>4, DecodePreserves
  <2>5. CASE EndCycle
    BY <2>5, SameEverything DEF EndCycle
  <2>6. CASE EndRun
    BY <2>6, SameEverything DEF EndRun
  <2>7. CASE Stopped \/ UNCHANGED vars
    BY <2>7, SameEverything DEF Stopped, vars
  <2> QED
    BY <2>1, <2>2, <2>3, <2>4, <2>5, <2>6, <2>7 DEF Next, Step
<1> QED
  BY <1>1, <1>2 DEF DataFlow, DataflowInvariant

\* Every reachable state satisfies the inductive invariant, for every
\* configuration, program and memory.
THEOREM Dataflow == Spec => []DataflowInvariant
<1>1. Init => DataflowInvariant
  BY InitTypeOK, InitDataFlow DEF DataFlow, DataflowInvariant
<1>2. DataflowInvariant /\ [Next]_vars => DataflowInvariant'
  BY StepDataflow
<1> QED
  BY <1>1, <1>2, PTL DEF Spec

\* No tag is ever given out twice, and none is lost to a commit or a flush.
THEOREM TagsAreUnique == Spec => []TagDiscipline
<1>1. DataflowInvariant => TagDiscipline
  BY DEF DataflowInvariant
<1> QED
  BY <1>1, Dataflow, PTL

\* The decoder always renames a register to its youngest writer in flight,
\* or reads its committed value.
THEOREM RenamingIsCorrect == Spec => []RenameTable
<1>1. DataflowInvariant => RenameTable
  BY DEF DataflowInvariant
<1> QED
  BY <1>1, Dataflow, PTL

\* A station gets the value its register has when the instruction commits:
\* no broadcast is missed, and none meant for another instruction is taken.
THEOREM OperandsAreCorrect == Spec => []OperandFlow
<1>1. DataflowInvariant => OperandFlow
  BY DEF DataflowInvariant
<1> QED
  BY <1>1, Dataflow, PTL

\* The assertions of getNextReady and getOldestReady never fail.
THEOREM ReadyIsComplete == Spec => []ReadyHasOperands
<1>1. DataflowInvariant => ReadyHasOperands
  BY DEF DataflowInvariant, ValidHasOperands, ReadyHasOperands, Ready
<1> QED
  BY <1>1, Dataflow, PTL

\* The assertion of updateField never fails, and no instruction is executed
\* twice or forgotten by its unit.
THEOREM ExecutionsAreOwned == Spec => []ExecutionOwnership
<1>1. DataflowInvariant => ExecutionOwnership
  BY DEF DataflowInvariant
<1> QED
  BY <1>1, Dataflow, PTL
==============================================================================
