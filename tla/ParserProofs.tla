----------------------------- MODULE ParserProofs -----------------------------
(***************************************************************************)
(* The assembler, for every set of files: types, what the passes over the  *)
(* program rely on, and the meaning that files are given.                  *)
(***************************************************************************)
EXTENDS ParserProperties, ISAProofs, SequenceTheorems, FiniteSetTheorems

(***************************************************************************)
(* Words, lines and tables.                                                *)
(***************************************************************************)
LEMMA TextFacts ==
  /\ \A t \in Text :
        /\ t.is = "number" => t \in Item /\ t.value \in Int
        /\ t.is = "label" => t \in Operand /\ t.name \in LabelName
        /\ t.is = "variable" => t \in Item /\ t.name \in VariableName
        /\ t.is = "unset" => t = Unset
        /\ t = Unset => t.is = "unset"
  /\ Operand \subseteq Text /\ Item \subseteq Text
  /\ Register \in Text \ {Unset} /\ Empty \in Text \ {Unset} /\ Unset \in Text
  /\ \A t \in Operand : t.is \in {"number", "label", "variable"}
  /\ \A t \in Item : t.is = "number" => t.value \in Word
  /\ Zero \in Item
<1>1. /\ \A n \in Word : Number(n).is = "number" /\ Number(n).value = n
      /\ \A n \in LabelName : Label(n).is = "label" /\ Label(n).name = n
      /\ \A v \in VariableName : Variable(v).is = "variable" /\ Variable(v).name = v
      /\ Register.is = "register" /\ Empty.is = "empty" /\ Unset.is = "unset"
  BY DEF Number, Label, Variable, Register, Empty, Unset
<1> HIDE DEF Number, Label, Variable, Register, Empty, Unset
<1>2. \A t \in Text : \/ \E n \in Word : t = Number(n)
                      \/ \E n \in LabelName : t = Label(n)
                      \/ \E v \in VariableName : t = Variable(v)
                      \/ t \in {Register, Empty, Unset}
  BY DEF Text, Operand
<1>3. Operand \subseteq Text /\ Item \subseteq Operand
  BY DEF Text, Operand, Item
<1>4. \A t \in Operand : t.is \in {"number", "label", "variable"}
  BY <1>1 DEF Operand
<1>5. \A t \in Item : t.is = "number" => t.value \in Word
  BY <1>1 DEF Item
<1>6. Zero \in Item
  BY SmallWords DEF Zero, Item
<1>7. Register \in Text \ {Unset} /\ Empty \in Text \ {Unset} /\ Unset \in Text
  BY <1>1 DEF Text
<1>8. \A t \in Text :
         /\ t.is = "number" => t \in Item /\ t.value \in Int
         /\ t.is = "label" => t \in Operand /\ t.name \in LabelName
         /\ t.is = "variable" => t \in Item /\ t.name \in VariableName
         /\ t.is = "unset" => t = Unset
         /\ t = Unset => t.is = "unset"
  <2> TAKE t \in Text
  <2>1. CASE \E n \in Word : t = Number(n)
    BY <1>1, <2>1, SmallWords DEF Item
  <2>2. CASE \E n \in LabelName : t = Label(n)
    BY <1>1, <2>2 DEF Operand
  <2>3. CASE \E v \in VariableName : t = Variable(v)
    BY <1>1, <2>3 DEF Item
  <2>4. CASE t \in {Register, Empty, Unset}
    BY <1>1, <2>4
  <2> QED
    BY <1>2, <2>1, <2>2, <2>3, <2>4
<1>9. Operand \subseteq Text /\ Item \subseteq Text
  BY <1>3
<1> QED
  BY <1>4, <1>5, <1>6, <1>7, <1>8, <1>9

LEMMA LineFacts ==
  ASSUME NEW l \in InstructionLine
  PROVE  /\ l.kind = "instruction" /\ l.instruction \in Instruction
         /\ l.operand \in Text \ {Unset}
         /\ HasOperand(l.instruction.op) <=> l.operand \in Operand
         /\ l.instruction.op \in BranchOps => ~l.offset
<1>1. /\ l \in [kind : {"instruction"}, instruction : Instruction,
                operand : Operand \cup {Register, Empty}, offset : BOOLEAN]
      /\ l.operand \in Operand <=> HasOperand(l.instruction.op)
      /\ l.offset => l.instruction.op \in MemOps \cup ImmOps
  BY DEF InstructionLine
<1>2. l.operand \in Text /\ l.operand # Unset
  <2>1. l.operand \in Operand \cup {Register, Empty}
    BY <1>1
  <2>2. Unset.is = "unset"
    BY DEF Unset
  <2> QED
    BY <2>1, <2>2, TextFacts
<1>3. l.kind = "instruction" /\ l.instruction \in Instruction
  BY <1>1
<1>4. l.instruction.op \in BranchOps => ~l.offset
  BY <1>1 DEF BranchOps, MemOps, ImmOps
<1> QED
  BY <1>1, <1>2, <1>3, <1>4

LEMMA NextLineTypes ==
  ASSUME TypeOK, next \in DOMAIN File
  PROVE  /\ NextLine \in Line /\ next + 1 \in 1 .. (Len(File) + 1)
         /\ NextLine.kind = "instruction" => NextLine \in InstructionLine
         /\ NextLine.kind = "label" => /\ NextLine \in [kind : {"label"}, name : LabelName]
                                       /\ NextLine.name \in LabelName
         /\ NextLine.kind = "items" => NextLine.items \in Seq(Item)
<1>1. File \in Seq(Line) /\ next \in 1 .. Len(File)
  BY DEF TypeOK, File
<1>2. NextLine \in Line
  BY <1>1 DEF NextLine
<1> QED
  BY <1>1, <1>2 DEF Line, InstructionLine

LEMMA FourthWordType ==
  ASSUME TypeOK, NEW l \in InstructionLine
  PROVE  FourthWord(l) \in Text /\ LabelToReplace(l) \in Text
BY LineFacts, TextFacts DEF FourthWord, LabelToReplace, TypeOK

LEMMA ImmediateType ==
  ASSUME TypeOK, NEW o \in Operand
  PROVE  Immediate(o) \in Int
<1>1. o.is = "number" => o.value \in Int
  BY TextFacts
<1>2. IsKnownLabel(o) => labelTable[o.name] \in Int
  BY DEF IsKnownLabel, TypeOK, IsTable
<1>3. instructionNumber \in Int
  BY DEF TypeOK
<1> QED
  BY <1>1, <1>2, <1>3 DEF Immediate

(***************************************************************************)
(* The invariant.                                                          *)
(***************************************************************************)
\* What is left in the fourth word was entered when it was read, too.
LeftOverIsKnown ==
    words.fourth.is = "variable" => words.fourth.name \in DOMAIN variableTable

Inv == TypeOK /\ UnresolvedHoldPlace /\ VariablesAreKnown /\ LeftOverIsKnown

LEMMA InvInit == Init => Inv
<1> SUFFICES ASSUME Init PROVE Inv
  OBVIOUS
<1>1. files \in Seq(Seq(Line)) /\ files # << >> /\ inData \in BOOLEAN
  BY SessionAssumption DEF Init
<1>2. 1 \in DOMAIN files
  BY <1>1
<1>3. files[1] \in Seq(Line)
  BY <1>1, <1>2
<1>4. IsTable(<< >>, LabelName) /\ IsTable(<< >>, VariableName) /\ Len(<< >>) = 0
  BY DEF IsTable
<1>5. /\ NoWords.fourth = Unset
      /\ NoWords \in [line : InstructionLine \cup [kind : {"label"}, name : LabelName]
                              \cup {NoLine},
                    fourth : Text]
  BY TextFacts DEF NoWords
<1>6. TypeOK
  BY <1>1, <1>2, <1>3, <1>4, <1>5, TextFacts DEF Init, TypeOK, File
<1>7. prog = << >> /\ words.fourth.is # "variable"
  <2>1. Unset.is = "unset"
    BY DEF Unset
  <2>2. words.fourth = Unset /\ prog = << >>
    BY <1>5 DEF Init
  <2> QED
    BY <2>1, <2>2
<1> QED
  BY <1>6, <1>7 DEF Inv, UnresolvedHoldPlace, VariablesAreKnown, LeftOverIsKnown

\* An instruction is made, of this line or of the last one.
LEMMA PushStep ==
  ASSUME Inv, next \in DOMAIN File, phase = "read", NEW l \in InstructionLine, Push(l)
  PROVE  Inv'
<1>1. TypeOK /\ UnresolvedHoldPlace /\ VariablesAreKnown /\ LeftOverIsKnown
  BY DEF Inv
<1>2. /\ l.instruction \in Instruction /\ l.operand \in Text
      /\ HasOperand(l.instruction.op) <=> l.operand \in Operand
      /\ l.instruction.op \in BranchOps => ~l.offset
  BY LineFacts
<1>3. /\ NextLine \in Line /\ next' \in 1 .. (Len(File') + 1)
      /\ UNCHANGED <<files, current, phase, labelTable, data, inData, items>>
      /\ words' = [line |-> l, fourth |-> FourthWord(l)]
      /\ instructionNumber' = instructionNumber + 1
  BY <1>1, NextLineTypes DEF Push, File
<1>4. FourthWord(l) \in Text /\ LabelToReplace(l) \in Text \ {Unset}
  BY <1>1, FourthWordType DEF Push
<1>5. /\ IsTable(variableTable', VariableName)
      /\ DOMAIN variableTable \subseteq DOMAIN variableTable'
      /\ l.operand.is = "variable" => l.operand.name \in DOMAIN variableTable'
  <2>1. instructionNumber \in Nat /\ IsTable(variableTable, VariableName)
    BY <1>1 DEF TypeOK
  <2>2. variableTable' = VariablesUsed(l.operand)
    BY DEF Push
  <2>3. CASE l.operand.is = "variable"
    <3>1. l.operand.name \in VariableName
      BY <1>2, <2>3, TextFacts
    <3>2. variableTable' = Insert(variableTable, l.operand.name, instructionNumber)
      BY <2>2, <2>3 DEF VariablesUsed
    <3>3. /\ IsTable(variableTable', VariableName)
          /\ DOMAIN variableTable' = DOMAIN variableTable \cup {l.operand.name}
      BY <2>1, <3>1, <3>2 DEF IsTable, Insert
    <3> QED
      BY <3>3
  <2>4. CASE l.operand.is # "variable"
    BY <2>1, <2>2, <2>4 DEF VariablesUsed
  <2> QED
    BY <2>3, <2>4
<1>6. FourthWord(l).is = "variable" => FourthWord(l).name \in DOMAIN variableTable'
  BY <1>1, <1>5 DEF FourthWord, LeftOverIsKnown
<1> DEFINE e == [instruction    |-> IF HasOperand(l.instruction.op)
                                      THEN [l.instruction EXCEPT !.imm = Immediate(l.operand)]
                                      ELSE l.instruction,
                 labelToReplace |-> LabelToReplace(l),
                 rawText        |-> NextLine]
<1>7. prog' = Append(prog, e)
  BY DEF Push
<1>8. e \in Entry
  <2>1. l.instruction \in [op : Opcode, rd : Reg, rs1 : Reg, rs2 : Reg, imm : Int]
    BY <1>2, SmallWords DEF Instruction
  <2>2. HasOperand(l.instruction.op) => Immediate(l.operand) \in Int
    BY <1>1, <1>2, ImmediateType
  <2> QED
    BY <1>3, <1>4, <2>1, <2>2 DEF Entry
<1>9. /\ e.instruction.op = l.instruction.op /\ e.labelToReplace = LabelToReplace(l)
      /\ HasOperand(l.instruction.op) => e.instruction.imm = Immediate(l.operand)
  BY <1>2 DEF Instruction
<1>10. e.labelToReplace.is = "variable" => e.labelToReplace.name \in DOMAIN variableTable'
  <2>1. Empty.is = "empty"
    BY DEF Empty
  <2> QED
    BY <1>6, <1>9, <2>1 DEF LabelToReplace
<1>11. IsBranch(e) /\ e.labelToReplace.is = "label" => e.instruction.imm = instructionNumber
  <2>1. SUFFICES ASSUME IsBranch(e), e.labelToReplace.is = "label"
                 PROVE  e.instruction.imm = instructionNumber
    OBVIOUS
  <2>2. /\ l.instruction.op \in BranchOps /\ HasOperand(l.instruction.op)
        /\ l.operand \in Operand /\ ~l.offset
    BY <1>2, <1>9, <2>1 DEF IsBranch, HasOperand
  <2>3. Empty.is = "empty"
    BY DEF Empty
  <2>4. LabelToReplace(l) = l.operand /\ ~IsKnownLabel(l.operand)
    BY <1>9, <2>1, <2>2, <2>3, TextFacts DEF LabelToReplace, FourthWord
  <2>5. Immediate(l.operand) = instructionNumber
    BY <1>9, <2>1, <2>4 DEF Immediate
  <2> QED
    BY <1>9, <2>2, <2>5
<1> HIDE DEF e
<1>12. /\ prog' \in Seq(Entry) /\ Len(prog') = Len(prog) + 1
       /\ DOMAIN prog' = 1 .. (Len(prog) + 1)
       /\ prog'[Len(prog) + 1] = e /\ \A k \in DOMAIN prog : prog'[k] = prog[k]
       /\ DOMAIN prog = 1 .. Len(prog)
  BY <1>1, <1>7, <1>8, AppendProperties DEF TypeOK
<1>13. TypeOK'
  BY <1>1, <1>3, <1>4, <1>5, <1>12 DEF TypeOK, File
<1>14. UnresolvedHoldPlace'
  <2>1. SUFFICES ASSUME NEW k \in DOMAIN prog', IsBranch(prog'[k]),
                        prog'[k].labelToReplace.is = "label"
                 PROVE  prog'[k].instruction.imm = k - 1
    BY DEF UnresolvedHoldPlace, IsBranch
  <2>2. CASE k = Len(prog) + 1
    BY <1>1, <1>11, <1>12, <2>1, <2>2 DEF TypeOK
  <2>3. CASE k \in DOMAIN prog
    BY <1>1, <1>12, <2>1, <2>3 DEF UnresolvedHoldPlace
  <2> QED
    BY <1>1, <1>12, <2>2, <2>3 DEF TypeOK
<1>15. VariablesAreKnown'
  <2>1. SUFFICES ASSUME NEW k \in DOMAIN prog', prog'[k].labelToReplace.is = "variable"
                 PROVE  prog'[k].labelToReplace.name \in DOMAIN variableTable'
    BY DEF VariablesAreKnown
  <2>2. CASE k = Len(prog) + 1
    BY <1>10, <1>12, <2>1, <2>2
  <2>3. CASE k \in DOMAIN prog
    BY <1>1, <1>5, <1>12, <2>1, <2>3 DEF VariablesAreKnown
  <2> QED
    BY <1>1, <1>12, <2>2, <2>3 DEF TypeOK
<1>16. LeftOverIsKnown'
  BY <1>3, <1>6 DEF LeftOverIsKnown
<1> QED
  BY <1>13, <1>14, <1>15, <1>16 DEF Inv

\* Both passes replace nothing but immediate values.
LEMMA SetImmType ==
  ASSUME NEW e \in Entry, NEW imm \in Int
  PROVE  /\ SetImm(e, imm) \in Entry
         /\ SetImm(e, imm).labelToReplace = e.labelToReplace
BY DEF SetImm, Entry

LEMMA LabelsStep == ASSUME Inv, UpdateLabels PROVE Inv'
<1>1. TypeOK /\ VariablesAreKnown /\ LeftOverIsKnown
  BY DEF Inv
<1>2. /\ phase' = "variables"
      /\ prog' = [k \in DOMAIN prog |-> ResolveLabel(prog[k])]
      /\ UNCHANGED <<files, current, next, labelTable, variableTable, data,
                     instructionNumber, inData, items, words>>
  BY DEF UpdateLabels, tables
<1>3. ASSUME NEW k \in DOMAIN prog
      PROVE  /\ ResolveLabel(prog[k]) \in Entry
             /\ ResolveLabel(prog[k]).labelToReplace = prog[k].labelToReplace
  <2>1. prog[k] \in Entry
    BY <1>1 DEF TypeOK
  <2>2. CASE prog[k].instruction.op \in BranchOps /\ IsKnownLabel(prog[k].labelToReplace)
    <3>1. labelTable[prog[k].labelToReplace.name] - prog[k].instruction.imm \in Int
      BY <1>1, <2>1, <2>2 DEF IsKnownLabel, TypeOK, IsTable, Entry
    <3> QED
      BY <2>1, <2>2, <3>1, SetImmType DEF ResolveLabel
  <2> QED
    BY <2>1, <2>2 DEF ResolveLabel
<1>4. prog' \in Seq(Entry) /\ Len(prog') = Len(prog) /\ DOMAIN prog' = DOMAIN prog
  <2>1. Len(prog) \in Nat /\ DOMAIN prog = 1 .. Len(prog)
    BY <1>1 DEF TypeOK
  <2>2. prog' \in [1 .. Len(prog) -> Entry]
    BY <1>2, <1>3, <2>1
  <2> QED
    BY <2>1, <2>2
<1>5. TypeOK'
  BY <1>1, <1>2, <1>4 DEF TypeOK, File
<1>6. VariablesAreKnown'
  BY <1>1, <1>2, <1>3 DEF VariablesAreKnown
<1> QED
  BY <1>1, <1>2, <1>5, <1>6 DEF Inv, UnresolvedHoldPlace, LeftOverIsKnown

LEMMA VariablesStep == ASSUME Inv, UpdateVariables PROVE Inv'
<1>1. TypeOK /\ VariablesAreKnown /\ LeftOverIsKnown
  BY DEF Inv
<1>2. /\ phase' = "done"
      /\ prog' = [k \in DOMAIN prog |-> ResolveVariable(prog[k])]
      /\ UNCHANGED <<files, current, next, labelTable, variableTable, data,
                     instructionNumber, inData, items, words>>
  BY DEF UpdateVariables, tables
<1>3. ASSUME NEW k \in DOMAIN prog
      PROVE  /\ ResolveVariable(prog[k]) \in Entry
             /\ ResolveVariable(prog[k]).labelToReplace = prog[k].labelToReplace
  <2>1. prog[k] \in Entry
    BY <1>1 DEF TypeOK
  <2>2. CASE prog[k].labelToReplace.is = "variable"
    <3>1. variableTable[prog[k].labelToReplace.name] \in Int
      BY <1>1, <2>2 DEF VariablesAreKnown, TypeOK, IsTable
    <3> QED
      BY <2>1, <2>2, <3>1, SetImmType DEF ResolveVariable
  <2> QED
    BY <2>1, <2>2 DEF ResolveVariable
<1>4. prog' \in Seq(Entry) /\ Len(prog') = Len(prog) /\ DOMAIN prog' = DOMAIN prog
  <2>1. Len(prog) \in Nat /\ DOMAIN prog = 1 .. Len(prog)
    BY <1>1 DEF TypeOK
  <2>2. prog' \in [1 .. Len(prog) -> Entry]
    BY <1>2, <1>3, <2>1
  <2> QED
    BY <2>1, <2>2
<1>5. TypeOK'
  BY <1>1, <1>2, <1>4 DEF TypeOK, File
<1>6. VariablesAreKnown'
  BY <1>1, <1>2, <1>3 DEF VariablesAreKnown
<1> QED
  BY <1>1, <1>2, <1>5, <1>6 DEF Inv, UnresolvedHoldPlace, LeftOverIsKnown

LEMMA AsItemsType ==
  ASSUME TypeOK, next \in DOMAIN File,
         NextLine.kind \in {"items", "label", "unknown", "instruction"}
  PROVE  AsItems(NextLine) \in Seq(Item)
<1>1. Zero \in Item
  BY TextFacts
<1>2. CASE NextLine.kind = "items"
  BY <1>2, NextLineTypes DEF AsItems
<1>3. CASE NextLine.kind \in {"label", "unknown"}
  BY <1>1, <1>3 DEF AsItems
<1>4. CASE NextLine.kind = "instruction"
  <2> DEFINE last == IF NextLine.operand.is \in {"number", "variable"} THEN NextLine.operand
                                                                     ELSE Zero
  <2>1. NextLine.operand \in Text
    BY <1>4, NextLineTypes, LineFacts
  <2>3. last \in Item
    BY <1>1, <2>1, TextFacts
  <2>4. AsItems(NextLine) \in {<<Zero>>, <<Zero, Zero, last>>, <<Zero, Zero, Zero, last>>}
    BY <1>4 DEF AsItems
  <2> HIDE DEF last
  <2>5. /\ <<Zero>> \in Seq(Item) /\ <<Zero, Zero, last>> \in Seq(Item)
        /\ <<Zero, Zero, Zero, last>> \in Seq(Item)
    BY <1>1, <2>3
  <2> QED
    BY <2>4, <2>5
<1> QED
  BY <1>2, <1>3, <1>4

LEMMA InvStep == ASSUME Inv, [Next]_vars PROVE Inv'
<1>1. TypeOK /\ UnresolvedHoldPlace /\ VariablesAreKnown /\ LeftOverIsKnown
  BY DEF Inv
<1>2. ASSUME UNCHANGED <<files, current, tables, prog, data, instructionNumber, inData>>,
             next' \in 1 .. (Len(File) + 1), items' \in Seq(Item), words' = words,
             phase' \in {"read", "labels", "variables", "done", "failed", "crashed"},
             phase' \in {"read", "labels"} => phase \in {"open", "read", "labels"}
      PROVE  Inv'
  <2>1. TypeOK'
    BY <1>1, <1>2 DEF TypeOK, File, tables
  <2> QED
    BY <1>1, <1>2, <2>1
       DEF Inv, UnresolvedHoldPlace, VariablesAreKnown, LeftOverIsKnown, tables
<1>3. CASE Open \/ DataFault \/ EndOfFile \/ ReadUnknown \/ ReadOutOfRange
  <2>1. /\ UNCHANGED <<files, current, next, tables, prog, data, instructionNumber, inData,
                       items, words>>
        /\ phase' \in {"read", "labels", "failed", "crashed"}
        /\ phase \in {"open", "read"}
    BY <1>3 DEF Open, DataFault, EndOfFile, ReadUnknown, ReadOutOfRange, End, Reading
  <2> QED
    BY <1>1, <1>2, <2>1 DEF TypeOK
<1>4. CASE ReadNothing \/ RepeatLabel \/ ReadItems
  <2>1. /\ UNCHANGED <<files, current, tables, prog, data, instructionNumber, inData, words>>
        /\ phase = "read" /\ phase' = "read" /\ next \in DOMAIN File /\ next' = next + 1
        /\ items' = items \/ ReadItems
    BY <1>4 DEF ReadNothing, RepeatLabel, ReadItems, Reading
  <2>2. ReadItems => items' \in Seq(Item)
    BY <1>1, <2>1, AsItemsType DEF ReadItems
  <2>3. items' \in Seq(Item) /\ next' \in 1 .. (Len(File) + 1)
    BY <1>1, <2>1, <2>2, NextLineTypes DEF TypeOK
  <2> QED
    BY <1>2, <2>1, <2>3
<1>5. CASE ReadDataMark
  <2>1. /\ UNCHANGED <<files, current, phase, tables, prog, data, instructionNumber, items,
                       words>>
        /\ inData' = TRUE /\ next' \in 1 .. (Len(File) + 1)
    BY <1>1, <1>5, NextLineTypes DEF ReadDataMark
  <2>2. TypeOK'
    BY <1>1, <2>1 DEF TypeOK, File, tables
  <2> QED
    BY <1>1, <2>1, <2>2
       DEF Inv, UnresolvedHoldPlace, VariablesAreKnown, LeftOverIsKnown, tables
<1>6. CASE ReadLabel
  <2>1. /\ UNCHANGED <<files, current, phase, variableTable, prog, data, instructionNumber,
                       inData, items>>
        /\ next' \in 1 .. (Len(File) + 1)
        /\ NextLine \in [kind : {"label"}, name : LabelName] /\ NextLine.name \in LabelName
        /\ words' = [words EXCEPT !.line = NextLine]
        /\ labelTable' = Insert(labelTable, NextLine.name, instructionNumber)
    BY <1>1, <1>6, NextLineTypes DEF ReadLabel, Reading
  <2>2. IsTable(labelTable', LabelName)
    BY <1>1, <2>1 DEF TypeOK, IsTable, Insert
  <2>3. /\ words' \in [line : InstructionLine \cup [kind : {"label"}, name : LabelName]
                                 \cup {NoLine},
                       fourth : Text]
        /\ words'.fourth = words.fourth
    BY <1>1, <2>1 DEF TypeOK
  <2>4. TypeOK'
    BY <1>1, <2>1, <2>2, <2>3 DEF TypeOK, File
  <2> QED
    BY <1>1, <2>1, <2>3, <2>4
       DEF Inv, UnresolvedHoldPlace, VariablesAreKnown, LeftOverIsKnown
<1>7. CASE ReadInstruction
  BY <1>1, <1>7, NextLineTypes, PushStep DEF ReadInstruction, Reading
<1>8. CASE RepeatInstruction
  <2>1. words.line \in InstructionLine
    BY <1>1, <1>8 DEF RepeatInstruction, TypeOK, NoLine
  <2> QED
    BY <1>8, <2>1, PushStep DEF RepeatInstruction, Reading
<1>9. CASE PushNumber
  <2>1. /\ UNCHANGED <<files, current, next, phase, tables, prog, instructionNumber, inData,
                       words>>
        /\ Head(items) \in Item /\ Head(items).is = "number"
        /\ data' = Append(data, Head(items).value) /\ items' \in Seq(Item)
    BY <1>1, <1>9 DEF PushNumber, TypeOK
  <2>2. data' \in Seq(Word)
    <3>1. Head(items).value \in Word
      BY <2>1, TextFacts
    <3>2. data \in Seq(Word)
      BY <1>1 DEF TypeOK
    <3> QED
      BY <2>1, <3>1, <3>2, AppendProperties
  <2>3. TypeOK'
    BY <1>1, <2>1, <2>2 DEF TypeOK, File, tables
  <2> QED
    BY <1>1, <2>1, <2>3
       DEF Inv, UnresolvedHoldPlace, VariablesAreKnown, LeftOverIsKnown, tables
<1>10. CASE PlaceVariable
  <2>1. /\ UNCHANGED <<files, current, next, phase, labelTable, prog, data,
                       instructionNumber, inData, words>>
        /\ variableTable' = [variableTable EXCEPT ![Head(items).name] = Len(data)]
        /\ items' \in Seq(Item) /\ Len(data) \in Nat
    BY <1>1, <1>10 DEF PlaceVariable, TypeOK
  <2>2. IsTable(variableTable', VariableName) /\ DOMAIN variableTable' = DOMAIN variableTable
    BY <1>1, <2>1 DEF TypeOK, IsTable
  <2>3. TypeOK'
    BY <1>1, <2>1, <2>2 DEF TypeOK, File
  <2> QED
    BY <1>1, <2>1, <2>2, <2>3
       DEF Inv, UnresolvedHoldPlace, VariablesAreKnown, LeftOverIsKnown
<1>11. CASE NextFile
  <2>1. /\ current' \in DOMAIN files /\ files' = files /\ files \in Seq(Seq(Line))
        /\ next' = 1 /\ phase' = "open" /\ prog' = << >> /\ data' = << >>
        /\ instructionNumber' = 0 /\ inData' \in BOOLEAN /\ words' = NoWords
        /\ UNCHANGED <<labelTable, variableTable, items>>
    BY <1>1, <1>11, SessionAssumption DEF NextFile, tables, TypeOK
  <2>2. File' \in Seq(Line)
    BY <2>1 DEF File
  <2>3. /\ words' \in [line : InstructionLine \cup [kind : {"label"}, name : LabelName]
                                 \cup {NoLine},
                       fourth : Text]
        /\ words'.fourth = Unset /\ Unset.is = "unset"
    <3>1. Unset.is = "unset"
      BY DEF Unset
    <3> QED
      BY <2>1, <3>1, TextFacts DEF NoWords
  <2>4. TypeOK'
    BY <1>1, <2>1, <2>2, <2>3 DEF TypeOK
  <2> QED
    BY <2>1, <2>3, <2>4 DEF Inv, UnresolvedHoldPlace, VariablesAreKnown, LeftOverIsKnown
<1>12. CASE UNCHANGED vars
  BY <1>1, <1>12
     DEF vars, tables, Inv, TypeOK, File, UnresolvedHoldPlace, VariablesAreKnown,
         LeftOverIsKnown
<1> QED
  BY <1>3, <1>4, <1>5, <1>6, <1>7, <1>8, <1>9, <1>10, <1>11, <1>12, LabelsStep, VariablesStep
     DEF Next, ReadText, ReadData, Stopped

LEMMA Invariance == Spec => []Inv
BY InvInit, InvStep, PTL DEF Spec

\* For every set of sessions the assembler's variables stay in their types;
\* in particular it makes nothing but instructions.
THEOREM TypeCorrectness == Spec => []TypeOK
BY Invariance, PTL DEF Inv

\* A branch that waits for its label holds its own place, so that the offset
\* patched in is relative to the branch.
THEOREM PlacesAreHeld == Spec => []UnresolvedHoldPlace
BY Invariance, PTL DEF Inv

\* The pass over the variables looks none up in vain.
THEOREM LookupsSucceed == Spec => []VariablesAreKnown
BY Invariance, PTL DEF Inv

(***************************************************************************)
(* What a file means.  The rest of this module is about the meaning that a *)
(* tidy file is given.  The invariant says of the lines before line n what *)
(* ParserProperties says of the whole file; its parts are about a file f   *)
(* and what has been made of it so far, so that the lemmas about one more  *)
(* line need no state.                                                     *)
(***************************************************************************)
Proper == Tidy(File) /\ LabelsAreNew

\* The file is taken as text, followed by data if it has any.
Taken == ~inData \/ prog # << >>

\* Labels: the first of a name counts.
IsLabelLine(f, n, i) == i \in TextLines(f) /\ i < n /\ f[i].kind = "label"

LabelsPlaced(f, n, table) ==
    \A i \in TextLines(f) :
        IsLabelLine(f, n, i) => /\ f[i].name \in DOMAIN table
                                /\ table[f[i].name] = LabelPlace(f, f[i].name)

\* Every instruction has its place.
PlacesFilled(f, n, entries) ==
    /\ Len(entries) = Place(f, n)
    /\ \A k \in DOMAIN entries : \E i \in Instructions(f) : i < n /\ k = Place(f, i) + 1

\* The entry of the instruction on line i, in each phase.
IsEntryOf(f, ph, i, e) ==
    LET l == f[i]
        o == l.operand
        distance == LabelPlace(f, o.name) - Place(f, i)
    IN  /\ e.instruction = IF HasOperand(l.instruction.op)
                             THEN [l.instruction EXCEPT !.imm = e.instruction.imm]
                             ELSE l.instruction
        /\ o.is = "number" => e.instruction.imm = o.value
        /\ o.is = "label" =>
              \/ e.labelToReplace = Empty /\ e.instruction.imm = distance
              \/ /\ e.labelToReplace = o
                 /\ e.instruction.imm = IF ph \in {"variables", "done"} THEN distance
                                                                       ELSE Place(f, i)
        /\ o.is = "variable" =>
              /\ e.labelToReplace = o
              /\ ph = "done" => e.instruction.imm = VariablePlace(f, o.name)
        /\ o.is # "variable" => e.labelToReplace.is # "variable"
        /\ o.is # "label" /\ IsBranch(e) => e.labelToReplace.is # "label"

InstructionsRead(f, n, ph, entries) ==
    \A i \in Instructions(f) :
        i < n => /\ Place(f, i) + 1 \in DOMAIN entries
                 /\ IsEntryOf(f, ph, i, entries[Place(f, i) + 1])

\* A variable left over is that of the last line that had a fourth word.
LeftOverIsOld(f, n, word) ==
    word.is = "variable" =>
        \E i \in Instructions(f) :
            /\ i < n /\ f[i].operand.is = "variable"
            /\ \A k \in Instructions(f) :
                  i < k /\ k < n => f[k].offset \/ f[k].operand.is = "empty"

\* The items of data that have been dealt with: those before line n, but for
\* the ones that are left of the line before it.
Passed(f, n, left) ==
    {p \in DataItems(f) :
        /\ p[1] < n
        /\ p[1] = n - 1 => p[2] <= Len(f[p[1]].items) - Len(left)}

IsRest(f, n, left) ==
    left # << >> =>
        LET line == f[n - 1].items
        IN  /\ n - 1 \in DOMAIN f /\ f[n - 1].kind = "items"
            /\ Len(left) <= Len(line)
            /\ \A k \in DOMAIN left : left[k] = line[Len(line) - Len(left) + k]

NumbersRead(f, passed, numbers) ==
    /\ IsFiniteSet(Numbers(f) \cap passed)
    /\ Len(numbers) = Cardinality(Numbers(f) \cap passed)
    /\ \A p \in Numbers(f) \cap passed :
          /\ DataPlace(f, p) + 1 \in DOMAIN numbers
          /\ numbers[DataPlace(f, p) + 1] = ItemAt(f, p).value

\* Variables: the last place counts.
VariablesPlaced(f, passed, table) ==
    \A v \in VariableName :
        Places(f, v) \cap passed # {} =>
            \E p \in Places(f, v) \cap passed :
                /\ \A q \in Places(f, v) \cap passed : q = p \/ Before(q, p)
                /\ v \in DOMAIN table /\ table[v] = DataPlace(f, p)

DataRead(f, n, left, numbers, table) ==
    /\ IsRest(f, n, left)
    /\ NumbersRead(f, Passed(f, n, left), numbers)
    /\ VariablesPlaced(f, Passed(f, n, left), table)

TidyRead ==
    /\ LabelsPlaced(File, next, labelTable)
    /\ PlacesFilled(File, next, prog)
    /\ InstructionsRead(File, next, phase, prog)
    /\ ~inData => LeftOverIsOld(File, next, words.fourth)
    /\ DataRead(File, next, items, data, variableTable)

\* Where parse is in the file, and where its labels come from.
PhaseShape ==
    /\ phase = "open" => next = 1 /\ prog = << >> /\ data = << >> /\ words = NoWords
    /\ phase # "read" => items = << >>
    /\ phase \in {"labels", "variables", "done"} => next = Len(File) + 1

SectionShape ==
    /\ ~inData => /\ data = << >> /\ items = << >>
                  /\ \A j \in 1 .. (next - 1) : File[j].kind \notin {".data", "items"}
    /\ inData /\ prog # << >> => \E d \in 1 .. (next - 1) : File[d].kind = ".data"

LabelOrigin ==
    \A n \in DOMAIN labelTable :
        \/ \E c \in 1 .. (current - 1) : n \in Labels(files[c])
        \/ \E i \in TextLines(File) : IsLabelLine(File, next, i) /\ File[i].name = n

Shape == PhaseShape /\ SectionShape /\ LabelOrigin

Stops == phase \in {"failed", "crashed"}

ReadInv == Stops \/ (Shape /\ (Taken /\ Proper => TidyRead))

(***************************************************************************)
(* Places.                                                                 *)
(***************************************************************************)
LEMMA FileFacts ==
  ASSUME NEW f \in Seq(Line)
  PROVE  /\ Len(f) \in Nat /\ DOMAIN f = 1 .. Len(f)
         /\ TextLines(f) \subseteq DOMAIN f /\ Instructions(f) \subseteq TextLines(f)
         /\ \A i \in DOMAIN f : i \in Nat /\ f[i] \in Line
         /\ \A i \in Instructions(f) : f[i] \in InstructionLine
         /\ \A i \in DOMAIN f : f[i].kind = "instruction" => f[i] \in InstructionLine
         /\ \A i \in DOMAIN f : f[i].kind = "items" => f[i].items \in Seq(Item)
<1>1. Len(f) \in Nat /\ DOMAIN f = 1 .. Len(f)
  OBVIOUS
<1>2. \A i \in DOMAIN f : i \in Nat /\ f[i] \in Line
  BY <1>1
<1>3. \A l \in Line : /\ l.kind = "instruction" => l \in InstructionLine
                      /\ l.kind = "items" => l.items \in Seq(Item)
  BY DEF Line, InstructionLine
<1>4. TextLines(f) \subseteq DOMAIN f /\ Instructions(f) \subseteq TextLines(f)
  BY DEF TextLines, Instructions
<1>5. \A i \in Instructions(f) : f[i].kind = "instruction"
  BY DEF Instructions
<1> QED
  BY <1>1, <1>2, <1>3, <1>4, <1>5

LEMMA PlaceFacts ==
  ASSUME NEW f \in Seq(Line), NEW i \in 1 .. (Len(f) + 1)
  PROVE  /\ Place(f, i) \in Nat
         /\ i \in Instructions(f) => Place(f, i + 1) = Place(f, i) + 1
         /\ i \notin Instructions(f) => Place(f, i + 1) = Place(f, i)
         /\ i = 1 => Place(f, i) = 0
         /\ i = Len(f) + 1 => Place(f, i) = Cardinality(Instructions(f))
<1> DEFINE S(j) == {k \in Instructions(f) : k < j}
<1>1. Instructions(f) \subseteq 1 .. Len(f) /\ Len(f) \in Nat
  BY FileFacts
<1>2. \A j : S(j) \subseteq 1 .. Len(f)
  BY <1>1
<1>3. IsFiniteSet(1 .. Len(f))
  BY <1>1, FS_Interval
<1>4. \A j : IsFiniteSet(S(j)) /\ Cardinality(S(j)) \in Nat
  BY <1>2, <1>3, FS_Subset, FS_CardinalityType
<1>5. i \in Instructions(f) => S(i + 1) = S(i) \cup {i} /\ i \notin S(i)
  BY <1>1
<1>6. i \notin Instructions(f) => S(i + 1) = S(i)
  BY <1>1
<1>7. i = 1 => S(i) = {}
  BY <1>1
<1>8. i = Len(f) + 1 => S(i) = Instructions(f)
  BY <1>1
<1>9. \A j : Place(f, j) = Cardinality(S(j))
  BY DEF Place
<1> HIDE DEF S
<1> QED
  BY <1>4, <1>5, <1>6, <1>7, <1>8, <1>9, FS_AddElement, FS_EmptySet

LEMMA PlacesIncrease ==
  ASSUME NEW f \in Seq(Line), NEW i \in Instructions(f), NEW j \in 1 .. (Len(f) + 1), i < j
  PROVE  Place(f, i) + 1 <= Place(f, j)
<1> DEFINE S(m) == {k \in Instructions(f) : k < m}
<1>1. Instructions(f) \subseteq 1 .. Len(f) /\ Len(f) \in Nat
  BY FileFacts
<1>2. IsFiniteSet(1 .. Len(f))
  BY <1>1, FS_Interval
<1>3. \A m : S(m) \subseteq 1 .. Len(f)
  BY <1>1
<1>4. \A m : IsFiniteSet(S(m)) /\ Cardinality(S(m)) \in Nat
  BY <1>2, <1>3, FS_Subset, FS_CardinalityType
<1>5. S(i) \cup {i} \subseteq S(j) /\ i \notin S(i)
  BY <1>1
<1>6. Place(f, i) = Cardinality(S(i)) /\ Place(f, j) = Cardinality(S(j))
  BY DEF Place
<1> HIDE DEF S
<1>7. Cardinality(S(i) \cup {i}) = Cardinality(S(i)) + 1
  BY <1>4, <1>5, FS_AddElement
<1>8. Cardinality(S(i) \cup {i}) <= Cardinality(S(j))
  BY <1>4, <1>5, FS_Subset
<1> QED
  BY <1>6, <1>7, <1>8

(***************************************************************************)
(* One more line.                                                          *)
(***************************************************************************)
LEMMA SkipLine ==
  ASSUME NEW f \in Seq(Line), NEW n \in DOMAIN f, n \notin Instructions(f)
  PROVE  /\ \A entries : PlacesFilled(f, n, entries) => PlacesFilled(f, n + 1, entries)
         /\ \A ph, entries :
               InstructionsRead(f, n, ph, entries) => InstructionsRead(f, n + 1, ph, entries)
         /\ \A word : LeftOverIsOld(f, n, word) => LeftOverIsOld(f, n + 1, word)
         /\ f[n].kind # "label" =>
               \A table : LabelsPlaced(f, n, table) => LabelsPlaced(f, n + 1, table)
<1>1. /\ n \in Nat /\ n \in 1 .. (Len(f) + 1) /\ TextLines(f) \subseteq Nat
      /\ Instructions(f) \subseteq Nat
  BY FileFacts
<1>2. \A i \in Instructions(f) : i < n + 1 <=> i < n
  BY <1>1
<1>3. Place(f, n + 1) = Place(f, n)
  BY <1>1, PlaceFacts
<1>4. f[n].kind # "label" => \A i \in TextLines(f) : IsLabelLine(f, n + 1, i) => IsLabelLine(f, n, i)
  BY <1>1 DEF IsLabelLine
<1> QED
  BY <1>2, <1>3, <1>4 DEF PlacesFilled, InstructionsRead, LeftOverIsOld, LabelsPlaced

LEMMA PushEntry ==
  ASSUME NEW f \in Seq(Line), NEW n \in Instructions(f), NEW S, NEW entries \in Seq(S),
         NEW e \in S, PlacesFilled(f, n, entries)
  PROVE  /\ PlacesFilled(f, n + 1, Append(entries, e))
         /\ \A ph : InstructionsRead(f, n, ph, entries) /\ IsEntryOf(f, ph, n, e)
                      => InstructionsRead(f, n + 1, ph, Append(entries, e))
<1>1. /\ n \in Nat /\ n \in 1 .. (Len(f) + 1) /\ n \in DOMAIN f
      /\ Instructions(f) \subseteq Nat
  BY FileFacts
<1>2. Place(f, n) = Len(entries) /\ Place(f, n + 1) = Place(f, n) + 1
  BY <1>1, PlaceFacts DEF PlacesFilled
<1> DEFINE longer == Append(entries, e)
<1>3. /\ Len(longer) = Len(entries) + 1 /\ Len(entries) \in Nat
      /\ DOMAIN longer = 1 .. (Len(entries) + 1) /\ DOMAIN entries = 1 .. Len(entries)
      /\ longer[Len(entries) + 1] = e /\ \A k \in DOMAIN entries : longer[k] = entries[k]
  BY AppendProperties
<1> HIDE DEF longer
<1>4. PlacesFilled(f, n + 1, longer)
  <2>1. SUFFICES ASSUME NEW k \in DOMAIN longer
                 PROVE  \E i \in Instructions(f) : i < n + 1 /\ k = Place(f, i) + 1
    BY <1>2, <1>3 DEF PlacesFilled
  <2>2. CASE k \in DOMAIN entries
    BY <1>1, <2>2 DEF PlacesFilled
  <2>3. CASE k = Len(entries) + 1
    BY <1>1, <1>2, <2>3
  <2> QED
    BY <1>3, <2>2, <2>3
<1>5. ASSUME NEW ph, InstructionsRead(f, n, ph, entries), IsEntryOf(f, ph, n, e),
             NEW i \in Instructions(f), i < n + 1
      PROVE  Place(f, i) + 1 \in DOMAIN longer /\ IsEntryOf(f, ph, i, longer[Place(f, i) + 1])
  <2>1. CASE i < n
    BY <1>3, <1>5, <2>1 DEF InstructionsRead
  <2>2. CASE i = n
    BY <1>2, <1>3, <1>5, <2>2
  <2> QED
    BY <1>1, <1>5, <2>1, <2>2
<1> QED
  BY <1>4, <1>5 DEF InstructionsRead, longer

\* The first line of a label enters it; another finds it entered.
LEMMA EnterLabel ==
  ASSUME NEW f \in Seq(Line), NEW n \in TextLines(f), f[n].kind = "label", NEW table,
         LabelsPlaced(f, n, table),
         f[n].name \in DOMAIN table =>
            \E i \in TextLines(f) : IsLabelLine(f, n, i) /\ f[i].name = f[n].name
  PROVE  LabelsPlaced(f, n + 1, Insert(table, f[n].name, Place(f, n)))
<1> DEFINE name == f[n].name
           more == Insert(table, name, Place(f, n))
<1>1. n \in Nat /\ TextLines(f) \subseteq Nat
  BY FileFacts
<1>2. /\ DOMAIN more = DOMAIN table \cup {name}
      /\ \A m \in DOMAIN table : more[m] = table[m]
      /\ name \notin DOMAIN table => more[name] = Place(f, n)
  BY DEF Insert
<1>3. name \notin DOMAIN table => LabelPlace(f, name) = Place(f, n)
  <2> DEFINE L == {i \in TextLines(f) : f[i].kind = "label" /\ f[i].name = name}
  <2>1. SUFFICES ASSUME name \notin DOMAIN table PROVE LabelPlace(f, name) = Place(f, n)
    OBVIOUS
  <2>2. \A i \in L : n <= i
    BY <1>1, <2>1 DEF LabelsPlaced, IsLabelLine
  <2>3. n \in L /\ L \subseteq Nat
    BY <1>1
  <2>4. \A x \in L : (\A y \in L : x <= y) => x = n
    BY <2>2, <2>3
  <2>5. Min(L) = n
    BY <2>2, <2>3, <2>4 DEF Min
  <2> QED
    BY <2>5 DEF LabelPlace
<1>4. ASSUME NEW i \in TextLines(f), IsLabelLine(f, n + 1, i)
      PROVE  f[i].name \in DOMAIN more /\ more[f[i].name] = LabelPlace(f, f[i].name)
  <2>1. CASE i < n
    <3>1. f[i].name \in DOMAIN table /\ table[f[i].name] = LabelPlace(f, f[i].name)
      BY <1>4, <2>1 DEF LabelsPlaced, IsLabelLine
    <3> QED
      BY <1>2, <3>1
  <2>2. CASE i = n /\ name \notin DOMAIN table
    BY <1>2, <1>3, <2>2
  <2>3. CASE i = n /\ name \in DOMAIN table
    BY <1>2, <2>3 DEF LabelsPlaced
  <2> QED
    BY <1>1, <1>4, <2>1, <2>2, <2>3 DEF IsLabelLine
<1> QED
  BY <1>4 DEF LabelsPlaced

\* What Push makes of line l.
MadeOf(l) ==
    [instruction    |-> IF HasOperand(l.instruction.op)
                          THEN [l.instruction EXCEPT !.imm = Immediate(l.operand)]
                          ELSE l.instruction,
     labelToReplace |-> LabelToReplace(l),
     rawText        |-> NextLine]

LEMMA MadeOfItsLine ==
  ASSUME TypeOK, LabelOrigin, Proper, next \in Instructions(File),
         LabelsPlaced(File, next, labelTable), Len(prog) = Place(File, next),
         LeftOverIsOld(File, next, words.fourth)
  PROVE  /\ IsEntryOf(File, "read", next, MadeOf(NextLine))
         /\ LeftOverIsOld(File, next + 1, FourthWord(NextLine))
<1> DEFINE l == NextLine
           o == l.operand
           e == MadeOf(l)
<1>1. /\ File \in Seq(Line) /\ next \in Nat /\ l \in InstructionLine /\ l = File[next]
      /\ instructionNumber = Place(File, next) /\ Instructions(File) \subseteq Nat
  <2>1. File \in Seq(Line) /\ instructionNumber = Len(prog)
    BY DEF TypeOK, File
  <2> QED
    BY <2>1, FileFacts DEF NextLine
<1>2. /\ l.instruction \in Instruction /\ o \in Text \ {Unset}
      /\ HasOperand(l.instruction.op) <=> o \in Operand
      /\ l.instruction.op \in BranchOps => ~l.offset
  BY <1>1, LineFacts
<1>3. /\ e.labelToReplace = LabelToReplace(l)
      /\ HasOperand(l.instruction.op) =>
            /\ e.instruction = [l.instruction EXCEPT !.imm = Immediate(o)]
            /\ e.instruction.imm = Immediate(o)
      /\ ~HasOperand(l.instruction.op) => e.instruction = l.instruction
      /\ e.instruction.op = l.instruction.op
  BY <1>2 DEF MadeOf, Instruction
<1>4. Empty.is = "empty"
  BY DEF Empty
<1>5. /\ o.is = "label" => /\ l.instruction.op \in BranchOps /\ o.name \in Labels(File)
                           /\ HasOperand(l.instruction.op) /\ o \in Operand /\ ~l.offset
      /\ o.is = "variable" => ~l.offset /\ o \in Operand
      /\ o.is = "number" => o \in Operand
  <2>1. o.is \in {"label", "variable", "number"} => o \in Operand
    BY <1>2, TextFacts DEF Item, Operand
  <2>2. OperandsDefined(File)
    BY DEF Proper, Tidy
  <2> QED
    BY <1>1, <1>2, <2>1, <2>2 DEF OperandsDefined
\* The offsets a line is made of are not those of a variable read before.
<1>6. o.is # "variable" /\ HasOperand(l.instruction.op) => FourthWord(l).is # "variable"
  <2>1. SUFFICES ASSUME o.is # "variable", HasOperand(l.instruction.op), l.offset,
                        words.fourth.is = "variable"
                 PROVE  FALSE
    BY <1>2, <1>4, TextFacts DEF FourthWord
  <2>2. PICK i \in Instructions(File) :
           /\ i < next /\ File[i].operand.is = "variable"
           /\ \A k \in Instructions(File) :
                 i < k /\ k < next => File[k].offset \/ File[k].operand.is = "empty"
    BY <2>1 DEF LeftOverIsOld
  <2>3. \E k \in Instructions(File) :
           i < k /\ k < next /\ ~File[k].offset /\ File[k].operand.is # "empty"
    BY <1>1, <2>1, <2>2 DEF Proper, Tidy, OffsetsApart
  <2> QED
    BY <2>2, <2>3
<1>7. CASE o.is = "label"
  <2>1. o # Empty /\ FourthWord(l) = o
    BY <1>4, <1>5, <1>7 DEF FourthWord
  <2>2. ASSUME IsKnownLabel(o) PROVE IsEntryOf(File, "read", next, e)
    <3>1. \E i \in TextLines(File) : IsLabelLine(File, next, i) /\ File[i].name = o.name
      <4>1. o.name \in DOMAIN labelTable
        BY <2>2 DEF IsKnownLabel
      <4>2. \A c \in 1 .. (current - 1) : o.name \notin Labels(files[c])
        BY <1>5, <1>7 DEF Proper, LabelsAreNew
      <4> QED
        BY <4>1, <4>2 DEF LabelOrigin
    <3>2. labelTable[o.name] = LabelPlace(File, o.name)
      BY <3>1 DEF LabelsPlaced
    <3>3. Immediate(o) = LabelPlace(File, o.name) - Place(File, next)
      BY <1>1, <1>7, <2>2, <3>2 DEF Immediate
    <3>4. e.labelToReplace = Empty
      BY <1>3, <2>2 DEF LabelToReplace
    <3> QED
      BY <1>1, <1>3, <1>4, <1>5, <1>7, <3>3, <3>4 DEF IsEntryOf
  <2>3. ASSUME ~IsKnownLabel(o) PROVE IsEntryOf(File, "read", next, e)
    <3>1. Immediate(o) = Place(File, next)
      BY <1>1, <1>7, <2>3 DEF Immediate
    <3>2. e.labelToReplace = o
      BY <1>3, <1>5, <1>7, <2>1, <2>3 DEF LabelToReplace
    <3> QED
      BY <1>1, <1>3, <1>5, <1>7, <3>1, <3>2 DEF IsEntryOf
  <2>4. IsEntryOf(File, "read", next, e)
    BY <2>2, <2>3
  <2>5. LeftOverIsOld(File, next + 1, FourthWord(l))
    BY <1>7, <2>1 DEF LeftOverIsOld
  <2> QED
    BY <2>4, <2>5
<1>8. CASE o.is # "label"
  <2>1. ~IsKnownLabel(o)
    BY <1>8 DEF IsKnownLabel
  <2>2. LabelToReplace(l) = IF HasOperand(l.instruction.op) THEN FourthWord(l) ELSE Empty
    BY <2>1 DEF LabelToReplace
  <2>3. o.is = "number" => HasOperand(l.instruction.op) /\ e.instruction.imm = o.value
    BY <1>2, <1>3, <1>5, <2>1 DEF Immediate
  <2>4. o.is = "variable" => HasOperand(l.instruction.op) /\ e.labelToReplace = o
    <3>1. SUFFICES ASSUME o.is = "variable" PROVE FourthWord(l) = o /\ o \in Operand
      BY <1>2, <1>3, <2>2
    <3> QED
      BY <1>4, <1>5, <3>1 DEF FourthWord
  <2>5. o.is # "variable" => e.labelToReplace.is # "variable"
    BY <1>3, <1>4, <1>6, <2>2
  <2>6. IsBranch(e) => e.labelToReplace.is # "label"
    <3>1. SUFFICES ASSUME l.instruction.op \in BranchOps PROVE LabelToReplace(l).is # "label"
      BY <1>3 DEF IsBranch
    <3>2. HasOperand(l.instruction.op) /\ o \in Operand /\ ~l.offset
      BY <1>2, <3>1 DEF HasOperand
    <3>3. o # Empty
      BY <1>4, <3>2, TextFacts
    <3> QED
      BY <1>8, <2>2, <3>2, <3>3 DEF FourthWord
  <2>7. IsEntryOf(File, "read", next, e)
    BY <1>1, <1>3, <1>8, <2>3, <2>4, <2>5, <2>6 DEF IsEntryOf
  <2>8. LeftOverIsOld(File, next + 1, FourthWord(l))
    <3>1. SUFFICES ASSUME FourthWord(l).is = "variable"
                   PROVE  \E i \in Instructions(File) :
                             /\ i < next + 1 /\ File[i].operand.is = "variable"
                             /\ \A k \in Instructions(File) :
                                   i < k /\ k < next + 1 =>
                                      File[k].offset \/ File[k].operand.is = "empty"
      BY DEF LeftOverIsOld
    <3>2. CASE l.offset \/ o = Empty
      <4>1. words.fourth.is = "variable"
        BY <3>1, <3>2 DEF FourthWord
      <4>2. PICK i \in Instructions(File) :
               /\ i < next /\ File[i].operand.is = "variable"
               /\ \A k \in Instructions(File) :
                     i < k /\ k < next => File[k].offset \/ File[k].operand.is = "empty"
        BY <4>1 DEF LeftOverIsOld
      <4>3. \A k \in Instructions(File) : k < next + 1 => k < next \/ k = next
        BY <1>1
      <4> QED
        BY <1>1, <1>4, <3>2, <4>2, <4>3
    <3>3. CASE ~(l.offset \/ o = Empty)
      <4>1. o.is = "variable"
        BY <3>1, <3>3 DEF FourthWord
      <4>2. \A k \in Instructions(File) : ~(next < k /\ k < next + 1)
        BY <1>1
      <4> QED
        BY <1>1, <4>1, <4>2
    <3> QED
      BY <3>2, <3>3
  <2> QED
    BY <2>7, <2>8
<1> QED
  BY <1>7, <1>8

(***************************************************************************)
(* One more item of data.                                                  *)
(***************************************************************************)
LEMMA DataItemFacts ==
  ASSUME NEW f \in Seq(Line)
  PROVE  /\ \A p \in DataItems(f) :
               /\ p = <<p[1], p[2]>> /\ p[1] \in DOMAIN f /\ f[p[1]].kind = "items"
               /\ p[2] \in DOMAIN f[p[1]].items /\ p[1] \in Nat /\ p[2] \in Nat
               /\ f[p[1]].items \in Seq(Item) /\ p[2] <= Len(f[p[1]].items)
         /\ \A i \in DOMAIN f, j \in Nat :
               f[i].kind = "items" /\ j \in DOMAIN f[i].items => <<i, j>> \in DataItems(f)
<1>1. ASSUME NEW p \in DataItems(f)
      PROVE  \E i \in DOMAIN f : /\ f[i].kind = "items"
                                 /\ \E j \in DOMAIN f[i].items : p = <<i, j>>
  BY DEF DataItems
<1>2. \A i \in DOMAIN f : f[i].kind = "items" => /\ i \in Nat /\ f[i].items \in Seq(Item)
                                                 /\ DOMAIN f[i].items = 1 .. Len(f[i].items)
                                                 /\ Len(f[i].items) \in Nat
  BY FileFacts
<1>3. \A i, j : <<i, j>>[1] = i /\ <<i, j>>[2] = j
  OBVIOUS
<1>4. ASSUME NEW p \in DataItems(f)
      PROVE  /\ p = <<p[1], p[2]>> /\ p[1] \in DOMAIN f /\ f[p[1]].kind = "items"
             /\ p[2] \in DOMAIN f[p[1]].items /\ p[1] \in Nat /\ p[2] \in Nat
             /\ f[p[1]].items \in Seq(Item) /\ p[2] <= Len(f[p[1]].items)
  <2>1. PICK i \in DOMAIN f : /\ f[i].kind = "items"
                              /\ \E j \in DOMAIN f[i].items : p = <<i, j>>
    BY <1>1
  <2>2. PICK j \in DOMAIN f[i].items : p = <<i, j>>
    BY <2>1
  <2> QED
    BY <1>2, <1>3, <2>1, <2>2
<1>5. ASSUME NEW i \in DOMAIN f, NEW j \in Nat, f[i].kind = "items",
             j \in DOMAIN f[i].items
      PROVE  <<i, j>> \in DataItems(f)
  BY <1>5 DEF DataItems
<1> QED
  BY <1>4, <1>5

LEMMA PassedFacts ==
  ASSUME NEW f \in Seq(Line), NEW n \in Nat
  PROVE  /\ Passed(f, n, << >>) = {p \in DataItems(f) : p[1] < n}
         /\ n \in DOMAIN f /\ f[n].kind # "items" =>
               Passed(f, n + 1, << >>) = Passed(f, n, << >>)
         /\ n \in DOMAIN f /\ f[n].kind = "items" =>
               Passed(f, n + 1, f[n].items) = Passed(f, n, << >>)
         /\ n = 1 => Passed(f, n, << >>) = {}
         /\ n = Len(f) + 1 => Passed(f, n, << >>) = DataItems(f)
<1>1. Len(<< >>) = 0
  OBVIOUS
<1>2. \A m \in Nat : Passed(f, m, << >>) = {p \in DataItems(f) : p[1] < m}
  BY <1>1, DataItemFacts DEF Passed
<1>3. \A p \in DataItems(f) : /\ p[1] \in Nat /\ p[2] \in Nat /\ p[2] > 0
                              /\ p[1] = n => f[n].kind = "items"
  <2>1. ASSUME NEW p \in DataItems(f)
        PROVE  p[1] \in Nat /\ p[2] \in Nat /\ p[2] > 0 /\ f[p[1]].kind = "items"
    BY DataItemFacts
  <2> QED
    BY <2>1
<1>4. ASSUME n \in DOMAIN f, f[n].kind # "items"
      PROVE  Passed(f, n + 1, << >>) = Passed(f, n, << >>)
  <2>1. \A p \in DataItems(f) : p[1] < n + 1 <=> p[1] < n
    BY <1>3, <1>4
  <2>2. n + 1 \in Nat
    OBVIOUS
  <2>3. /\ Passed(f, n, << >>) = {p \in DataItems(f) : p[1] < n}
        /\ Passed(f, n + 1, << >>) = {p \in DataItems(f) : p[1] < n + 1}
    BY <1>2, <2>2
  <2> QED
    BY <2>1, <2>3
<1>7. ASSUME n \in DOMAIN f, f[n].kind = "items"
      PROVE  Passed(f, n + 1, f[n].items) = Passed(f, n, << >>)
  <2>1. Len(f[n].items) - Len(f[n].items) = 0 /\ n + 1 - 1 = n
    <3>1. f[n].items \in Seq(Item)
      BY <1>7, FileFacts
    <3> QED
      BY <3>1
  <2>2. ASSUME NEW p \in DataItems(f)
        PROVE  p \in Passed(f, n + 1, f[n].items) <=> p[1] < n
    <3> DEFINE left == f[n].items
               m == n + 1
    <3>1. m - 1 = n /\ m \in Nat
      OBVIOUS
    <3>2. \A i \in Nat : i < m <=> i < n \/ i = n
      OBVIOUS
    <3> HIDE DEF left, m
    <3>3. p \in Passed(f, m, left) <=>
             p[1] < m /\ (p[1] = m - 1 => p[2] <= Len(f[p[1]].items) - Len(left))
      BY DEF Passed
    <3>4. p[1] = n => Len(f[p[1]].items) - Len(left) = 0 /\ ~(p[2] <= 0)
      BY <1>3, <2>1 DEF left
    <3>5. p \in Passed(f, m, left) <=> p[1] < n
      BY <1>3, <3>1, <3>2, <3>3, <3>4
    <3> QED
      BY <3>5 DEF left, m
  <2>3. Passed(f, n + 1, f[n].items) \subseteq DataItems(f)
    BY DEF Passed
  <2> QED
    BY <1>2, <2>2, <2>3
<1>5. n = 1 => {p \in DataItems(f) : p[1] < n} = {}
  BY DataItemFacts
<1>6. n = Len(f) + 1 => {p \in DataItems(f) : p[1] < n} = DataItems(f)
  BY DataItemFacts, FileFacts
<1> QED
  BY <1>2, <1>4, <1>5, <1>6, <1>7

\* The first of the items left is the next in the file.
LEMMA NextItem ==
  ASSUME NEW f \in Seq(Line), NEW n \in Nat, NEW left \in Seq(Item), left # << >>,
         IsRest(f, n, left)
  PROVE  \E q \in DataItems(f) :
            /\ ItemAt(f, q) = Head(left)
            /\ q \notin Passed(f, n, left)
            /\ Passed(f, n, Tail(left)) = Passed(f, n, left) \cup {q}
            /\ \A p \in DataItems(f) : Before(p, q) <=> p \in Passed(f, n, left)
            /\ ~Before(q, q)
            /\ IsRest(f, n, Tail(left))
<1> DEFINE line == f[n - 1].items
           q == <<n - 1, Len(line) - Len(left) + 1>>
<1>1. /\ n - 1 \in DOMAIN f /\ f[n - 1].kind = "items" /\ line \in Seq(Item)
      /\ Len(left) <= Len(line) /\ Len(left) \in Nat /\ Len(line) \in Nat /\ Len(left) > 0
      /\ DOMAIN left = 1 .. Len(left) /\ DOMAIN line = 1 .. Len(line)
      /\ \A k \in DOMAIN left : left[k] = line[Len(line) - Len(left) + k]
  BY FileFacts DEF IsRest
<1>2. /\ Head(left) = left[1] /\ Tail(left) \in Seq(Item) /\ Len(Tail(left)) = Len(left) - 1
      /\ DOMAIN Tail(left) = 1 .. (Len(left) - 1)
      /\ \A k \in 1 .. (Len(left) - 1) : Tail(left)[k] = left[k + 1]
  BY <1>1, HeadTailProperties
<1>3. /\ q \in DataItems(f) /\ q[1] = n - 1 /\ q[2] = Len(line) - Len(left) + 1
      /\ ItemAt(f, q) = Head(left) /\ q[1] \in Int /\ q[2] \in Int
  <2>1. q[1] = n - 1 /\ q[2] = Len(line) - Len(left) + 1
    OBVIOUS
  <2>2. q[2] \in DOMAIN line /\ q[2] \in Nat
    BY <1>1, <2>1
  <2>3. q \in DataItems(f)
    BY <1>1, <2>1, <2>2, DataItemFacts
  <2>4. ItemAt(f, q) = line[Len(line) - Len(left) + 1]
    BY <2>1 DEF ItemAt
  <2>5. n - 1 \in Int /\ Len(line) - Len(left) + 1 \in Int
    BY <1>1
  <2> HIDE DEF q
  <2> QED
    BY <1>1, <1>2, <2>1, <2>3, <2>4, <2>5
<1>4. \A p \in DataItems(f) :
         p \in Passed(f, n, left) <=>
            p[1] < n /\ (p[1] = n - 1 => p[2] <= Len(line) - Len(left))
  BY DEF Passed
<1>5. \A p \in DataItems(f) :
         p \in Passed(f, n, Tail(left)) <=>
            p[1] < n /\ (p[1] = n - 1 => p[2] <= Len(line) - Len(left) + 1)
  <2> DEFINE rest == Tail(left)
  <2>1. Len(line) - Len(rest) = Len(line) - Len(left) + 1
    BY <1>1, <1>2
  <2> HIDE DEF rest
  <2>2. \A p \in DataItems(f) :
           p \in Passed(f, n, rest) <=>
              p[1] < n /\ (p[1] = n - 1 => p[2] <= Len(line) - Len(rest))
    BY DEF Passed
  <2>3. \A p \in DataItems(f) :
           p \in Passed(f, n, rest) <=>
              p[1] < n /\ (p[1] = n - 1 => p[2] <= Len(line) - Len(left) + 1)
    BY <2>1, <2>2
  <2> QED
    BY <2>3 DEF rest
<1>6. \A p \in DataItems(f) : /\ p[1] \in Nat /\ p[2] \in Nat
                              /\ p[1] = q[1] /\ p[2] = q[2] => p = q
  BY <1>3, DataItemFacts
<1> HIDE DEF q
<1>7. q \notin Passed(f, n, left) /\ ~Before(q, q)
  BY <1>1, <1>3, <1>4 DEF Before
<1>8. \A p \in DataItems(f) : Before(p, q) <=> p \in Passed(f, n, left)
  <2>1. \A p \in DataItems(f) :
           Before(p, q) <=> p[1] < n - 1 \/ (p[1] = n - 1 /\ p[2] < Len(line) - Len(left) + 1)
    BY <1>3 DEF Before
  <2> DEFINE k == Len(line) - Len(left)
  <2>2. k \in Int
    BY <1>1
  <2> HIDE DEF k
  <2>3. ASSUME NEW p \in DataItems(f)
        PROVE  Before(p, q) <=> p \in Passed(f, n, left)
    <3>1. p[1] \in Nat /\ p[2] \in Nat
      BY <1>6
    <3>2. Before(p, q) <=> p[1] < n - 1 \/ (p[1] = n - 1 /\ p[2] < k + 1)
      BY <2>1 DEF k
    <3>3. p \in Passed(f, n, left) <=> p[1] < n /\ (p[1] = n - 1 => p[2] <= k)
      BY <1>4 DEF k
    <3> QED
      BY <2>2, <3>1, <3>2, <3>3
  <2> QED
    BY <2>3
<1>9. Passed(f, n, Tail(left)) = Passed(f, n, left) \cup {q}
  <2>1. \A p \in DataItems(f) :
           p \in Passed(f, n, Tail(left)) <=> p \in Passed(f, n, left) \/ p = q
    BY <1>1, <1>3, <1>4, <1>5, <1>6
  <2>2. \A rest : Passed(f, n, rest) \subseteq DataItems(f)
    BY DEF Passed
  <2> QED
    BY <1>3, <2>1, <2>2
<1>10. IsRest(f, n, Tail(left))
  <2>1. ASSUME NEW k \in DOMAIN Tail(left)
        PROVE  Tail(left)[k] = line[Len(line) - Len(Tail(left)) + k]
    <3>1. Tail(left)[k] = left[k + 1] /\ k + 1 \in DOMAIN left
      BY <1>1, <1>2
    <3>2. left[k + 1] = line[Len(line) - Len(left) + (k + 1)]
      BY <1>1, <3>1
    <3>3. Len(line) - Len(left) + (k + 1) = Len(line) - Len(Tail(left)) + k
      <4> DEFINE a == Len(line)
                 b == Len(left)
                 c == Len(Tail(left))
      <4>1. a \in Int /\ b \in Int /\ c = b - 1 /\ k \in Int
        BY <1>1, <1>2
      <4> HIDE DEF a, b, c
      <4>2. a - b + (k + 1) = a - c + k
        BY <4>1
      <4> QED
        BY <4>2 DEF a, b, c
    <3> QED
      BY <3>1, <3>2, <3>3
  <2> QED
    BY <1>1, <1>2, <2>1 DEF IsRest
<1> QED
  BY <1>3, <1>7, <1>8, <1>9, <1>10

\* Lines that are not data, and the beginning of one that is.
LEMMA DataStep ==
  ASSUME NEW f \in Seq(Line), NEW n \in DOMAIN f, NEW numbers, NEW table,
         DataRead(f, n, << >>, numbers, table)
  PROVE  /\ f[n].kind # "items" => DataRead(f, n + 1, << >>, numbers, table)
         /\ f[n].kind = "items" => DataRead(f, n + 1, f[n].items, numbers, table)
<1>1. n \in Nat
  BY FileFacts
<1>2. ASSUME f[n].kind = "items" PROVE IsRest(f, n + 1, f[n].items)
  <2> DEFINE line == f[n].items
             m == n + 1
  <2>1. line \in Seq(Item) /\ m - 1 = n
    BY <1>1, <1>2, FileFacts
  <2> HIDE DEF m
  <2>2. f[m - 1].items = line /\ f[m - 1].kind = "items" /\ m - 1 \in DOMAIN f
    BY <1>2, <2>1
  <2> HIDE DEF line
  <2>3. Len(line) <= Len(line)
        /\ \A k \in DOMAIN line : Len(line) - Len(line) + k = k
    BY <2>1
  <2>4. IsRest(f, m, line)
    BY <2>2, <2>3 DEF IsRest
  <2> QED
    BY <2>4 DEF m, line
<1>3. IsRest(f, n + 1, << >>)
  BY DEF IsRest
<1> QED
  BY <1>1, <1>2, <1>3, PassedFacts DEF DataRead

LEMMA VariableNames ==
  /\ \A t \in Item : /\ t.is = "variable" => t.name \in VariableName /\ t = Variable(t.name)
                     /\ t.is \in {"number", "variable"}
  /\ \A v, w : Variable(v) = Variable(w) => v = w
  /\ \A v : Variable(v).is # "number"
<1>1. /\ \A n : Number(n).is = "number"
      /\ \A v : Variable(v).is = "variable" /\ Variable(v).name = v
  BY DEF Number, Variable
<1> HIDE DEF Number, Variable
<1>2. \A t \in Item : (\E n \in Word : t = Number(n)) \/ (\E v \in VariableName : t = Variable(v))
  BY DEF Item
<1> QED
  BY <1>1, <1>2

LEMMA NumberStep ==
  ASSUME NEW f \in Seq(Line), NEW n \in Nat, NEW left \in Seq(Item), left # << >>,
         NEW numbers \in Seq(Word), NEW table, DataRead(f, n, left, numbers, table),
         Head(left).is = "number"
  PROVE  DataRead(f, n, Tail(left), Append(numbers, Head(left).value), table)
<1>1. PICK q \in DataItems(f) :
         /\ ItemAt(f, q) = Head(left)
         /\ q \notin Passed(f, n, left)
         /\ Passed(f, n, Tail(left)) = Passed(f, n, left) \cup {q}
         /\ \A p \in DataItems(f) : Before(p, q) <=> p \in Passed(f, n, left)
         /\ ~Before(q, q)
         /\ IsRest(f, n, Tail(left))
  BY NextItem DEF DataRead
<1> DEFINE seen == Numbers(f) \cap Passed(f, n, left)
           more == Append(numbers, Head(left).value)
<1>2. /\ IsFiniteSet(seen) /\ Len(numbers) = Cardinality(seen)
      /\ \A p \in seen : /\ DataPlace(f, p) + 1 \in DOMAIN numbers
                         /\ numbers[DataPlace(f, p) + 1] = ItemAt(f, p).value
  BY DEF DataRead, NumbersRead
<1>3. q \in Numbers(f) /\ Numbers(f) \cap Passed(f, n, Tail(left)) = seen \cup {q} /\ q \notin seen
  BY <1>1 DEF Numbers
<1>4. DataPlace(f, q) = Len(numbers)
  <2>1. {r \in Numbers(f) : Before(r, q)} = seen
    BY <1>1 DEF Numbers
  <2> QED
    BY <1>2, <2>1 DEF DataPlace
<1>5. Head(left).value \in Word
  BY TextFacts
<1>6. /\ Len(more) = Len(numbers) + 1 /\ Len(numbers) \in Nat
      /\ DOMAIN more = 1 .. (Len(numbers) + 1) /\ DOMAIN numbers = 1 .. Len(numbers)
      /\ more[Len(numbers) + 1] = Head(left).value
      /\ \A k \in DOMAIN numbers : more[k] = numbers[k]
  BY <1>5, AppendProperties
<1> HIDE DEF seen, more
<1>7. IsFiniteSet(seen \cup {q}) /\ Cardinality(seen \cup {q}) = Len(more)
  BY <1>2, <1>3, <1>6, FS_AddElement
<1>8. ASSUME NEW p \in seen \cup {q}
      PROVE  /\ DataPlace(f, p) + 1 \in DOMAIN more
             /\ more[DataPlace(f, p) + 1] = ItemAt(f, p).value
  <2>1. CASE p \in seen
    BY <1>2, <1>6, <2>1
  <2>2. CASE p = q
    BY <1>1, <1>4, <1>6, <2>2
  <2> QED
    BY <2>1, <2>2
<1>9. NumbersRead(f, Passed(f, n, Tail(left)), more)
  BY <1>3, <1>7, <1>8 DEF NumbersRead
<1>10. \A v : Places(f, v) \cap Passed(f, n, Tail(left)) = Places(f, v) \cap Passed(f, n, left)
  BY <1>1, VariableNames DEF Places
<1>11. VariablesPlaced(f, Passed(f, n, Tail(left)), table)
  BY <1>10 DEF VariablesPlaced, DataRead
<1> QED
  BY <1>1, <1>9, <1>11 DEF DataRead, more

LEMMA VariableStep ==
  ASSUME NEW f \in Seq(Line), NEW n \in Nat, NEW left \in Seq(Item), left # << >>,
         NEW numbers \in Seq(Word), NEW table, DataRead(f, n, left, numbers, table),
         Head(left).is = "variable", Head(left).name \in DOMAIN table
  PROVE  DataRead(f, n, Tail(left), numbers,
                  [table EXCEPT ![Head(left).name] = Len(numbers)])
<1>1. PICK q \in DataItems(f) :
         /\ ItemAt(f, q) = Head(left)
         /\ q \notin Passed(f, n, left)
         /\ Passed(f, n, Tail(left)) = Passed(f, n, left) \cup {q}
         /\ \A p \in DataItems(f) : Before(p, q) <=> p \in Passed(f, n, left)
         /\ ~Before(q, q)
         /\ IsRest(f, n, Tail(left))
  BY NextItem DEF DataRead
<1> DEFINE seen == Passed(f, n, left)
           name == Head(left).name
           newer == [table EXCEPT ![name] = Len(numbers)]
<1>2. /\ IsFiniteSet(Numbers(f) \cap seen) /\ Len(numbers) = Cardinality(Numbers(f) \cap seen)
      /\ NumbersRead(f, seen, numbers) /\ VariablesPlaced(f, seen, table)
  BY DEF DataRead, NumbersRead
<1>3. Numbers(f) \cap Passed(f, n, Tail(left)) = Numbers(f) \cap seen
  BY <1>1 DEF Numbers
<1>4. DataPlace(f, q) = Len(numbers)
  <2>1. {r \in Numbers(f) : Before(r, q)} = Numbers(f) \cap seen
    BY <1>1 DEF Numbers
  <2> QED
    BY <1>2, <2>1 DEF DataPlace
<1>5. ItemAt(f, q) = Variable(name)
  <2>1. Head(left) \in Item
    OBVIOUS
  <2> QED
    BY <1>1, <2>1, VariableNames
<1>6. /\ q \in Places(f, name)
      /\ \A v : v # name => Places(f, v) \cap Passed(f, n, Tail(left)) = Places(f, v) \cap seen
  BY <1>1, <1>5, VariableNames DEF Places
<1>7. DOMAIN newer = DOMAIN table /\ newer[name] = Len(numbers)
      /\ \A v \in DOMAIN table : v # name => newer[v] = table[v]
  OBVIOUS
<1> HIDE DEF seen, name, newer
<1>8. ASSUME NEW v \in VariableName, Places(f, v) \cap Passed(f, n, Tail(left)) # {}
      PROVE  \E p \in Places(f, v) \cap Passed(f, n, Tail(left)) :
                /\ \A r \in Places(f, v) \cap Passed(f, n, Tail(left)) : r = p \/ Before(r, p)
                /\ v \in DOMAIN newer /\ newer[v] = DataPlace(f, p)
  <2>1. CASE v = name
    <3>1. q \in Places(f, v) \cap Passed(f, n, Tail(left))
      BY <1>1, <1>6, <2>1
    <3>2. \A r \in Places(f, v) \cap Passed(f, n, Tail(left)) : r = q \/ Before(r, q)
      BY <1>1 DEF Places, seen
    <3>3. v \in DOMAIN newer /\ newer[v] = DataPlace(f, q)
      BY <1>4, <1>7, <2>1 DEF name
    <3> QED
      BY <3>1, <3>2, <3>3
  <2>2. CASE v # name
    <3>1. Places(f, v) \cap Passed(f, n, Tail(left)) = Places(f, v) \cap seen
      BY <1>6, <2>2
    <3>2. PICK p \in Places(f, v) \cap seen :
             /\ \A r \in Places(f, v) \cap seen : r = p \/ Before(r, p)
             /\ v \in DOMAIN table /\ table[v] = DataPlace(f, p)
      BY <1>2, <1>8, <3>1 DEF VariablesPlaced
    <3> QED
      BY <1>7, <2>2, <3>1, <3>2
  <2> QED
    BY <2>1, <2>2
<1>9. VariablesPlaced(f, Passed(f, n, Tail(left)), newer)
  BY <1>8 DEF VariablesPlaced
<1>10. NumbersRead(f, Passed(f, n, Tail(left)), numbers)
  BY <1>2, <1>3 DEF NumbersRead
<1> QED
  BY <1>1, <1>9, <1>10 DEF DataRead, newer, name

\* Entering a variable moves none that has its place.
LEMMA EnterVariable ==
  ASSUME NEW f, NEW n, NEW left, NEW numbers, NEW table, NEW name, NEW value,
         DataRead(f, n, left, numbers, table)
  PROVE  DataRead(f, n, left, numbers, Insert(table, name, value))
<1>1. \A v \in DOMAIN table : /\ v \in DOMAIN Insert(table, name, value)
                              /\ Insert(table, name, value)[v] = table[v]
  BY DEF Insert
<1> HIDE DEF Insert
<1> QED
  BY <1>1 DEF DataRead, VariablesPlaced

LEMMA AllData ==
  ASSUME NEW f \in Seq(Line), NEW numbers, NEW table,
         DataRead(f, Len(f) + 1, << >>, numbers, table)
  PROVE  /\ IsFiniteSet(Numbers(f)) /\ Len(numbers) = Cardinality(Numbers(f))
         /\ \A p \in Numbers(f) : /\ DataPlace(f, p) + 1 \in DOMAIN numbers
                                  /\ numbers[DataPlace(f, p) + 1] = ItemAt(f, p).value
         /\ \A v \in VariableName :
               Places(f, v) # {} => v \in DOMAIN table /\ table[v] = VariablePlace(f, v)
<1>1. /\ Passed(f, Len(f) + 1, << >>) = DataItems(f)
      /\ NumbersRead(f, DataItems(f), numbers) /\ VariablesPlaced(f, DataItems(f), table)
  <2>1. Len(f) + 1 \in Nat
    BY FileFacts
  <2> QED
    BY <2>1, PassedFacts DEF DataRead
<1>2. Numbers(f) \cap DataItems(f) = Numbers(f)
      /\ \A v : Places(f, v) \cap DataItems(f) = Places(f, v)
  BY DEF Numbers, Places
<1>3. ASSUME NEW v \in VariableName, Places(f, v) # {}
      PROVE  v \in DOMAIN table /\ table[v] = VariablePlace(f, v)
  <2>1. PICK p \in Places(f, v) :
           /\ \A q \in Places(f, v) : q = p \/ Before(q, p)
           /\ v \in DOMAIN table /\ table[v] = DataPlace(f, p)
    BY <1>1, <1>2, <1>3 DEF VariablesPlaced
  <2>2. \A q, r \in Places(f, v) : Before(q, r) => ~Before(r, q) /\ q # r
    <3>1. \A q \in Places(f, v) : q[1] \in Nat /\ q[2] \in Nat
      BY DataItemFacts DEF Places
    <3> QED
      BY <3>1 DEF Before
  <2>3. LastPlace(f, v) = p
    <3>1. \A q \in Places(f, v) : (\A r \in Places(f, v) : ~Before(q, r)) <=> q = p
      BY <2>1, <2>2
    <3> QED
      BY <3>1 DEF LastPlace
  <2> QED
    BY <2>1, <2>3 DEF VariablePlace
<1> QED
  BY <1>1, <1>2, <1>3 DEF NumbersRead

(***************************************************************************)
(* The two passes.                                                         *)
(***************************************************************************)
LEMMA ImmediateOnly ==
  ASSUME NEW e \in Entry, NEW imm \in Int, NEW l \in InstructionLine,
         HasOperand(l.instruction.op),
         e.instruction = [l.instruction EXCEPT !.imm = e.instruction.imm]
  PROVE  /\ SetImm(e, imm).instruction = [l.instruction EXCEPT !.imm = imm]
         /\ SetImm(e, imm).instruction.imm = imm
         /\ SetImm(e, imm).instruction.op = e.instruction.op
         /\ SetImm(e, imm).labelToReplace = e.labelToReplace
<1>1. /\ e.instruction \in [op : Opcode, rd : Reg, rs1 : Reg, rs2 : Reg, imm : Int]
      /\ SetImm(e, imm).instruction = [e.instruction EXCEPT !.imm = imm]
      /\ SetImm(e, imm).labelToReplace = e.labelToReplace
  BY DEF Entry, SetImm
<1>2. l.instruction \in [op : Opcode, rd : Reg, rs1 : Reg, rs2 : Reg, imm : Word]
  BY LineFacts DEF Instruction
<1> QED
  BY <1>1, <1>2

LEMMA ResolveLabelOfItsLine ==
  ASSUME TypeOK, Tidy(File), next = Len(File) + 1, LabelsPlaced(File, next, labelTable),
         NEW i \in Instructions(File), NEW e \in Entry, IsEntryOf(File, "labels", i, e)
  PROVE  IsEntryOf(File, "variables", i, ResolveLabel(e))
<1> DEFINE l == File[i]
           o == l.operand
           r == ResolveLabel(e)
           distance == LabelPlace(File, o.name) - Place(File, i)
<1>1. /\ File \in Seq(Line) /\ l \in InstructionLine /\ i \in 1 .. (Len(File) + 1)
      /\ Place(File, i) \in Nat
  <2>1. File \in Seq(Line)
    BY DEF TypeOK, File
  <2>2. l \in InstructionLine /\ i \in 1 .. (Len(File) + 1)
    BY <2>1, FileFacts
  <2> QED
    BY <2>1, <2>2, PlaceFacts
<1>2. Empty.is = "empty"
  BY DEF Empty
<1>3. CASE ~(e.instruction.op \in BranchOps /\ IsKnownLabel(e.labelToReplace))
  <2>1. r = e
    BY <1>3 DEF ResolveLabel
  <2>2. o.is = "label" => e.labelToReplace = Empty
    <3>1. SUFFICES ASSUME o.is = "label", e.labelToReplace = o PROVE FALSE
      BY DEF IsEntryOf
    <3>2. l.instruction.op \in BranchOps /\ o.name \in Labels(File)
      BY <3>1 DEF Tidy, OperandsDefined
    <3>3. e.instruction.op = l.instruction.op
      BY <1>1, LineFacts DEF IsEntryOf, Instruction
    <3>4. o.name \in DOMAIN labelTable
      <4>1. PICK j \in TextLines(File) : File[j].kind = "label" /\ File[j].name = o.name
        BY <3>2 DEF Labels
      <4>2. j < next
        BY <1>1, FileFacts
      <4> QED
        BY <4>1, <4>2 DEF LabelsPlaced, IsLabelLine
    <3> QED
      BY <1>3, <3>1, <3>2, <3>3, <3>4 DEF IsKnownLabel
  <2> HIDE DEF r
  <2>3. o # Empty /\ o.is = "label" => e.instruction.imm = distance
    <3>1. o.is = "label" => o # Empty
      BY <1>2
    <3> QED
      BY <2>2, <3>1 DEF IsEntryOf
  <2> QED
    BY <1>2, <2>1, <2>2, <2>3 DEF IsEntryOf, r
<1>4. CASE e.instruction.op \in BranchOps /\ IsKnownLabel(e.labelToReplace)
  <2>1. o.is = "label" /\ e.labelToReplace = o /\ e.instruction.imm = Place(File, i)
    BY <1>2, <1>4 DEF IsEntryOf, IsKnownLabel, IsBranch
  <2>2. l.instruction.op \in BranchOps /\ o.name \in Labels(File) /\ HasOperand(l.instruction.op)
    BY <2>1 DEF Tidy, OperandsDefined, HasOperand
  <2>3. labelTable[o.name] = LabelPlace(File, o.name) /\ labelTable[o.name] \in Nat
    <3>1. PICK j \in TextLines(File) : File[j].kind = "label" /\ File[j].name = o.name
      BY <2>2 DEF Labels
    <3>2. j < next
      BY <1>1, FileFacts
    <3>3. labelTable[o.name] = LabelPlace(File, o.name)
      BY <3>1, <3>2 DEF LabelsPlaced, IsLabelLine
    <3> QED
      BY <1>4, <2>1, <3>3 DEF IsKnownLabel, TypeOK, IsTable
  <2>4. r = SetImm(e, distance) /\ distance \in Int
    BY <1>1, <1>4, <2>1, <2>3 DEF ResolveLabel
  <2>5. e.instruction = [l.instruction EXCEPT !.imm = e.instruction.imm]
    BY <2>2 DEF IsEntryOf
  <2> HIDE DEF distance, r
  <2>6. /\ r.instruction = [l.instruction EXCEPT !.imm = distance]
        /\ r.instruction.imm = distance /\ r.labelToReplace = o
    BY <1>1, <2>1, <2>2, <2>4, <2>5, ImmediateOnly
  <2> QED
    BY <2>1, <2>2, <2>6 DEF IsEntryOf, distance, r
<1> QED
  BY <1>3, <1>4

LEMMA ResolveVariableOfItsLine ==
  ASSUME TypeOK, Tidy(File), next = Len(File) + 1, items = << >>,
         DataRead(File, next, items, data, variableTable),
         NEW i \in Instructions(File), NEW e \in Entry, IsEntryOf(File, "variables", i, e)
  PROVE  IsEntryOf(File, "done", i, ResolveVariable(e))
<1> DEFINE l == File[i]
           o == l.operand
           r == ResolveVariable(e)
<1>1. File \in Seq(Line) /\ l \in InstructionLine
  <2>1. File \in Seq(Line)
    BY DEF TypeOK, File
  <2> QED
    BY <2>1, FileFacts
<1>2. CASE e.labelToReplace.is # "variable"
  <2>1. r = e /\ o.is # "variable"
    BY <1>2 DEF ResolveVariable, IsEntryOf
  <2> HIDE DEF r
  <2> QED
    BY <2>1 DEF IsEntryOf, r
<1>3. CASE e.labelToReplace.is = "variable"
  <2>1. o.is = "variable" /\ e.labelToReplace = o
    BY <1>3 DEF IsEntryOf
  <2>2. o \in Operand /\ o.name \in VariableName /\ HasOperand(l.instruction.op)
    <3>1. o \in Item /\ o.name \in VariableName
      BY <1>1, <2>1, LineFacts, TextFacts
    <3> QED
      BY <1>1, <3>1, LineFacts DEF Item, Operand
  <2>3. Places(File, o.name) # {}
    BY <2>1 DEF Tidy, OperandsDefined
  <2>4. o.name \in DOMAIN variableTable /\ variableTable[o.name] = VariablePlace(File, o.name)
    <3>1. DataRead(File, Len(File) + 1, << >>, data, variableTable)
      OBVIOUS
    <3> QED
      <4>1. \A v \in VariableName :
               Places(File, v) # {} =>
                  v \in DOMAIN variableTable /\ variableTable[v] = VariablePlace(File, v)
        <5> HIDE DEF l, o, r
        <5> QED
          BY <1>1, <3>1, AllData
      <4> QED
        BY <2>2, <2>3, <4>1
  <2>5. VariablePlace(File, o.name) \in Int
    BY <2>4 DEF TypeOK, IsTable
  <2>6. r = SetImm(e, VariablePlace(File, o.name))
    BY <1>3, <2>1, <2>4 DEF ResolveVariable
  <2>7. e.instruction = [l.instruction EXCEPT !.imm = e.instruction.imm]
    BY <2>2 DEF IsEntryOf
  <2> HIDE DEF r
  <2>8. /\ r.instruction = [l.instruction EXCEPT !.imm = VariablePlace(File, o.name)]
        /\ r.instruction.imm = VariablePlace(File, o.name) /\ r.labelToReplace = o
    BY <1>1, <2>1, <2>2, <2>5, <2>6, <2>7, ImmediateOnly
  <2> QED
    BY <2>1, <2>2, <2>8 DEF IsEntryOf, r
<1> QED
  BY <1>2, <1>3

\* A pass keeps every entry at its place.
LEMMA PassOverEntries ==
  ASSUME NEW f, NEW n, NEW old, NEW new, NEW ph, NEW ph2, DOMAIN new = DOMAIN old,
         Len(new) = Len(old), PlacesFilled(f, n, old), InstructionsRead(f, n, ph, old),
         \A i \in Instructions(f) :
            Place(f, i) + 1 \in DOMAIN old /\ IsEntryOf(f, ph, i, old[Place(f, i) + 1])
               => IsEntryOf(f, ph2, i, new[Place(f, i) + 1])
  PROVE  PlacesFilled(f, n, new) /\ InstructionsRead(f, n, ph2, new)
BY DEF PlacesFilled, InstructionsRead

(***************************************************************************)
(* Where parse is.                                                         *)
(***************************************************************************)
\* A line outside the data section is one of text.
LEMMA TextIsRead ==
  ASSUME TypeOK, SectionShape, next \in DOMAIN File, ~inData, NextLine.kind # ".data"
  PROVE  /\ next \in TextLines(File)
         /\ NextLine.kind = "instruction" <=> next \in Instructions(File)
<1>1. next \in Nat /\ \A j \in 1 .. next : j \in 1 .. (next - 1) \/ j = next
  BY DEF TypeOK
<1>2. \A j \in 1 .. next : File[j].kind # ".data"
  BY <1>1 DEF SectionShape, NextLine
<1> QED
  BY <1>2 DEF TextLines, Instructions, NextLine

LEMMA ShapeStep == ASSUME TypeOK, TypeOK', ~Stops, Shape, Next PROVE Stops' \/ Shape'
<1>1. /\ files \in Seq(Seq(Line)) /\ current \in 1 .. Len(files) /\ current \in Nat
      /\ Len(files) \in Nat
      /\ File \in Seq(Line) /\ next \in Nat /\ next \in 1 .. (Len(File) + 1)
      /\ Len(File) \in Nat /\ DOMAIN File = 1 .. Len(File)
      /\ inData \in BOOLEAN /\ TextLines(File) \subseteq Nat
  <2>1. /\ files \in Seq(Seq(Line)) /\ current \in DOMAIN files
        /\ next \in 1 .. (Len(File) + 1) /\ inData \in BOOLEAN
    BY DEF TypeOK
  <2>2. File \in Seq(Line)
    BY <2>1 DEF File
  <2>3. /\ Len(files) \in Nat /\ current \in 1 .. Len(files) /\ current \in Nat
    <3> DEFINE S == Seq(Line)
    <3> HIDE DEF S
    <3>1. files \in Seq(S)
      BY <2>1 DEF S
    <3> QED
      BY <2>1, <3>1
  <2>4. Len(File) \in Nat /\ DOMAIN File = 1 .. Len(File) /\ TextLines(File) \subseteq Nat
    BY <2>2, FileFacts
  <2>5. next \in Nat
    BY <2>1, <2>4
  <2> QED
    BY <2>1, <2>2, <2>3, <2>4, <2>5
<1>2. ASSUME UNCHANGED <<files, current>>
      PROVE  File' = File
  BY <1>2 DEF File
<1>3. ASSUME UNCHANGED <<files, current, labelTable>>, next' \in {next, next + 1}
      PROVE  LabelOrigin'
  <2>1. \A i \in TextLines(File) : IsLabelLine(File, next, i) => IsLabelLine(File, next', i)
    BY <1>1, <1>3 DEF IsLabelLine
  <2>2. File' = File
    BY <1>2, <1>3
  <2> QED
    BY <1>3, <2>1, <2>2 DEF Shape, LabelOrigin
<1>4. CASE Open \/ DataFault \/ EndOfFile \/ ReadUnknown \/ ReadOutOfRange
  <2>1. /\ UNCHANGED <<files, current, next, labelTable, prog, data, inData, items>>
        /\ Stops' \/ (phase = "open" /\ phase' = "read")
                  \/ (phase = "read" /\ phase' = "labels" /\ next \notin DOMAIN File
                                     /\ items = << >>)
    BY <1>4 DEF Open, DataFault, EndOfFile, ReadUnknown, ReadOutOfRange, End, tables, Stops
  <2>2. Stops' \/ PhaseShape'
    BY <1>1, <1>2, <2>1 DEF PhaseShape, Shape
  <2>3. SectionShape'
    BY <1>2, <2>1 DEF SectionShape, Shape
  <2> QED
    BY <1>3, <2>1, <2>2, <2>3 DEF Shape
<1>5. CASE ReadNothing \/ RepeatLabel \/ ReadDataMark \/ ReadLabel \/ ReadItems
             \/ ReadInstruction \/ RepeatInstruction
  <2>1. /\ UNCHANGED <<files, current, phase, data>>
        /\ phase = "read" /\ next \in DOMAIN File /\ next' = next + 1 /\ items = << >>
    BY <1>5 DEF ReadNothing, RepeatLabel, ReadDataMark, ReadLabel, ReadItems, ReadInstruction,
                RepeatInstruction, Reading, Push
  <2>2. PhaseShape'
    BY <2>1 DEF PhaseShape, Shape
  <2>3. \A j \in 1 .. (next' - 1) : j \in 1 .. (next - 1) \/ j = next
    BY <1>1, <2>1
  <2>4. \A j \in 1 .. (next - 1) : j \in 1 .. (next' - 1)
    BY <1>1, <2>1
  <2>5. LabelOrigin'
    <3>1. CASE ~ReadLabel
      <4>1. labelTable' = labelTable
        BY <1>5, <3>1 DEF ReadNothing, RepeatLabel, ReadDataMark, ReadItems, ReadInstruction,
                          RepeatInstruction, Push, tables
      <4> QED
        BY <1>3, <2>1, <4>1
    <3>2. CASE ReadLabel
      <4>1. /\ ~inData /\ NextLine.kind = "label"
            /\ labelTable' = Insert(labelTable, NextLine.name, instructionNumber)
        BY <3>2 DEF ReadLabel, Reading
      <4>2. next \in TextLines(File)
        BY <2>1, <4>1, TextIsRead DEF Shape
      <4>3. IsLabelLine(File, next', next) /\ File[next].name = NextLine.name
        BY <1>1, <2>1, <4>1, <4>2 DEF IsLabelLine, NextLine
      <4>4. \A i \in TextLines(File) : IsLabelLine(File, next, i) => IsLabelLine(File, next', i)
        BY <1>1, <2>1 DEF IsLabelLine
      <4>5. DOMAIN labelTable' = DOMAIN labelTable \cup {NextLine.name}
        BY <4>1 DEF Insert
      <4>6. File' = File
        BY <1>2, <2>1
      <4>7. ASSUME NEW n \in DOMAIN labelTable'
            PROVE  \/ \E c \in 1 .. (current - 1) : n \in Labels(files[c])
                   \/ \E i \in TextLines(File) :
                         IsLabelLine(File, next', i) /\ File[i].name = n
        BY <4>2, <4>3, <4>4, <4>5 DEF Shape, LabelOrigin
      <4> QED
        BY <2>1, <4>6, <4>7 DEF LabelOrigin
    <3> QED
      BY <3>1, <3>2
  <2>6. SectionShape'
    <3>1. CASE ReadNothing \/ RepeatLabel \/ ReadLabel
      <4>1. /\ UNCHANGED <<prog, inData, items>>
            /\ NextLine.kind \in {"comment", "spaces", "label"}
        BY <3>1 DEF ReadNothing, RepeatLabel, ReadLabel, Reading
      <4> QED
        BY <1>2, <2>1, <2>3, <2>4, <4>1 DEF SectionShape, Shape, NextLine
    <3>2. CASE ReadDataMark
      <4>1. inData' = TRUE /\ NextLine.kind = ".data"
        BY <3>2 DEF ReadDataMark
      <4>2. next \in 1 .. (next' - 1)
        BY <1>1, <2>1
      <4> QED
        BY <1>2, <2>1, <4>1, <4>2 DEF SectionShape, NextLine
    <3>3. CASE ReadItems
      <4>1. UNCHANGED <<prog, inData>> /\ inData
        BY <3>3 DEF ReadItems, Reading
      <4> QED
        BY <1>2, <2>1, <2>4, <4>1 DEF SectionShape, Shape
    <3>4. CASE ReadInstruction \/ RepeatInstruction
      <4>1. /\ ~inData /\ UNCHANGED <<inData, items>>
            /\ NextLine.kind \in {"instruction", "spaces"}
        BY <3>4 DEF ReadInstruction, RepeatInstruction, Reading, Push
      <4> QED
        BY <1>2, <2>1, <2>3, <4>1 DEF SectionShape, Shape, NextLine
    <3> QED
      BY <1>5, <3>1, <3>2, <3>3, <3>4
  <2> QED
    BY <2>2, <2>5, <2>6 DEF Shape
<1>6. CASE PushNumber \/ PlaceVariable
  <2>1. /\ UNCHANGED <<files, current, next, phase, labelTable, prog, inData>>
        /\ phase = "read" /\ items # << >>
    BY <1>6 DEF PushNumber, PlaceVariable, tables
  <2>2. PhaseShape' /\ SectionShape'
    BY <1>2, <2>1 DEF PhaseShape, SectionShape, Shape
  <2> QED
    BY <1>3, <2>1, <2>2 DEF Shape
<1>7. CASE UpdateLabels \/ UpdateVariables
  <2>1. /\ UNCHANGED <<files, current, next, labelTable, data, inData, items>>
        /\ phase \in {"labels", "variables"} /\ phase' \in {"variables", "done"}
        /\ DOMAIN prog' = DOMAIN prog
    BY <1>7 DEF UpdateLabels, UpdateVariables, tables
  <2>2. PhaseShape'
    BY <1>2, <2>1 DEF PhaseShape, Shape
  <2>3. prog = << >> => prog' = << >>
    BY <2>1 DEF TypeOK
  <2>4. SectionShape'
    BY <1>2, <2>1, <2>3 DEF SectionShape, Shape
  <2> QED
    BY <1>3, <2>1, <2>2, <2>4 DEF Shape
<1>8. CASE NextFile
  <2>1. /\ current' = current + 1 /\ files' = files /\ next' = 1 /\ phase' = "open"
        /\ phase = "done"
        /\ prog' = << >> /\ data' = << >> /\ words' = NoWords
        /\ UNCHANGED <<labelTable, items>>
    BY <1>8 DEF NextFile, tables
  <2>2. words' = NoWords /\ NoWords' = NoWords
    BY <2>1 DEF NoWords, NoLine, Unset
  <2>3. PhaseShape'
    BY <2>1, <2>2 DEF PhaseShape, Shape
  <2>4. SectionShape'
    BY <2>1 DEF SectionShape, PhaseShape, Shape
  <2>5. ASSUME NEW n \in DOMAIN labelTable
        PROVE  \E c \in 1 .. (current' - 1) : n \in Labels(files[c])
    <3>1. CASE \E c \in 1 .. (current - 1) : n \in Labels(files[c])
      BY <1>1, <2>1, <3>1
    <3>2. CASE \E i \in TextLines(File) : IsLabelLine(File, next, i) /\ File[i].name = n
      <4>1. n \in Labels(files[current])
        BY <3>2 DEF Labels, IsLabelLine, File
      <4> QED
        BY <1>1, <2>1, <4>1
    <3> QED
      BY <3>1, <3>2 DEF Shape, LabelOrigin
  <2>6. LabelOrigin'
    BY <2>1, <2>5 DEF LabelOrigin
  <2> QED
    BY <2>3, <2>4, <2>6 DEF Shape
<1>9. CASE Stopped
  <2>1. UNCHANGED vars
    BY <1>9 DEF Stopped
  <2>2. UNCHANGED <<files, current, next, phase, labelTable, prog, data, inData, items, words>>
    BY <2>1 DEF vars, tables
  <2>3. PhaseShape' /\ SectionShape'
    BY <1>2, <2>2 DEF PhaseShape, SectionShape, Shape
  <2> QED
    BY <1>3, <2>2, <2>3 DEF Shape
<1> QED
  BY <1>4, <1>5, <1>6, <1>7, <1>8, <1>9 DEF Next, ReadText, ReadData

(***************************************************************************)
(* What has been read.                                                     *)
(***************************************************************************)
LEMMA TakenSoFar ==
  ASSUME TypeOK, Next, ~NextFile, Taken', Proper'
  PROVE  Taken /\ Proper
<1>1. CASE ReadInstruction \/ RepeatInstruction
  <2>1. UNCHANGED <<files, current>> /\ ~inData
    BY <1>1 DEF ReadInstruction, RepeatInstruction, Reading, Push
  <2> QED
    BY <2>1 DEF Taken, Proper, LabelsAreNew, File
<1>2. CASE UpdateLabels \/ UpdateVariables
  <2>1. UNCHANGED <<files, current, inData>> /\ DOMAIN prog' = DOMAIN prog
    BY <1>2 DEF UpdateLabels, UpdateVariables
  <2>2. prog = << >> => prog' = << >>
    BY <1>2 DEF UpdateLabels, UpdateVariables
  <2> QED
    BY <2>1, <2>2 DEF Taken, Proper, LabelsAreNew, File
<1>3. CASE ReadDataMark
  <2>1. UNCHANGED <<files, current, prog>> /\ inData' = TRUE
    BY <1>3 DEF ReadDataMark
  <2> QED
    BY <2>1 DEF Taken, Proper, LabelsAreNew, File
<1>4. CASE Open \/ ReadNothing \/ ReadLabel \/ RepeatLabel \/ ReadUnknown \/ ReadOutOfRange
             \/ ReadData \/ EndOfFile \/ Stopped
  <2>1. UNCHANGED <<files, current, prog, inData>>
    BY <1>4 DEF Open, ReadNothing, ReadLabel, RepeatLabel, ReadUnknown, ReadOutOfRange, ReadData,
                ReadItems, PushNumber, PlaceVariable, DataFault, EndOfFile, Stopped, End, vars
  <2> QED
    BY <2>1 DEF Taken, Proper, LabelsAreNew, File
<1> QED
  BY <1>1, <1>2, <1>3, <1>4 DEF Next, ReadText

LEMMA StartOfFile ==
  ASSUME NEW f \in Seq(Line), NEW labels, NEW variables
  PROVE  /\ LabelsPlaced(f, 1, labels) /\ PlacesFilled(f, 1, << >>)
         /\ \A ph : InstructionsRead(f, 1, ph, << >>)
         /\ LeftOverIsOld(f, 1, Unset)
         /\ DataRead(f, 1, << >>, << >>, variables)
<1>1. /\ TextLines(f) \subseteq Nat \ {0} /\ Instructions(f) \subseteq Nat \ {0}
      /\ 1 \in 1 .. (Len(f) + 1)
  BY FileFacts
<1>2. /\ \A i \in TextLines(f) : ~IsLabelLine(f, 1, i)
      /\ \A i \in Instructions(f) : ~(i < 1)
  BY <1>1 DEF IsLabelLine
<1>3. Place(f, 1) = 0
  BY <1>1, PlaceFacts
<1>4. Unset.is # "variable"
  BY DEF Unset
<1>5. Len(<< >>) = 0 /\ DOMAIN << >> = {}
  OBVIOUS
<1>6. Passed(f, 1, << >>) = {}
  BY PassedFacts
<1>7. \A S : S \cap {} = {}
  OBVIOUS
<1>8. DataRead(f, 1, << >>, << >>, variables)
  BY <1>5, <1>6, <1>7, FS_EmptySet DEF DataRead, IsRest, NumbersRead, VariablesPlaced
<1> QED
  BY <1>2, <1>3, <1>4, <1>5, <1>8 DEF LabelsPlaced, PlacesFilled, InstructionsRead, LeftOverIsOld

LEMMA InstructionRead ==
  ASSUME TypeOK, TypeOK', Shape, Taken, Proper, TidyRead, ReadInstruction
  PROVE  TidyRead'
<1>1. /\ File \in Seq(Line) /\ prog \in Seq(Entry) /\ next \in DOMAIN File
      /\ phase = "read" /\ items = << >> /\ ~inData /\ NextLine.kind = "instruction"
      /\ NextLine = File[next] /\ Push(NextLine)
  BY DEF TypeOK, File, ReadInstruction, Reading, NextLine
<1>2. /\ UNCHANGED <<files, current, phase, labelTable, data, inData, items>>
      /\ next' = next + 1 /\ words'.fourth = FourthWord(NextLine)
      /\ prog' = Append(prog, MadeOf(NextLine))
      /\ variableTable' = VariablesUsed(NextLine.operand)
  BY <1>1 DEF Push, MadeOf
<1>3. File' = File
  BY <1>2 DEF File
<1>4. next \in Instructions(File)
  BY <1>1, TextIsRead DEF Shape
<1>5. /\ LabelsPlaced(File, next, labelTable) /\ PlacesFilled(File, next, prog)
      /\ InstructionsRead(File, next, "read", prog) /\ LeftOverIsOld(File, next, words.fourth)
      /\ DataRead(File, next, << >>, data, variableTable)
  BY <1>1 DEF TidyRead
<1>6. /\ IsEntryOf(File, "read", next, MadeOf(NextLine))
      /\ LeftOverIsOld(File, next + 1, FourthWord(NextLine))
  BY <1>4, <1>5, MadeOfItsLine DEF Shape, PlacesFilled
<1>7. PlacesFilled(File, next', prog') /\ InstructionsRead(File, next', "read", prog')
  <2>1. /\ prog \in Seq(Entry \cup {MadeOf(NextLine)})
        /\ MadeOf(NextLine) \in Entry \cup {MadeOf(NextLine)}
    BY <1>1
  <2> HIDE DEF MadeOf
  <2> QED
    BY <1>1, <1>2, <1>4, <1>5, <1>6, <2>1, PushEntry
<1>8. LabelsPlaced(File, next', labelTable')
  <2>1. next \in Nat /\ TextLines(File) \subseteq Nat
    BY <1>1, FileFacts
  <2>2. \A i \in TextLines(File) : IsLabelLine(File, next + 1, i) => IsLabelLine(File, next, i)
    BY <1>1, <2>1 DEF IsLabelLine
  <2> QED
    BY <1>2, <1>5, <2>2 DEF LabelsPlaced
<1>9. DataRead(File, next', << >>, data', variableTable')
  <2>1. DataRead(File, next', << >>, data, variableTable)
    BY <1>1, <1>2, <1>5, DataStep
  <2>2. variableTable' = variableTable
        \/ variableTable' = Insert(variableTable, NextLine.operand.name, instructionNumber)
    BY <1>2 DEF VariablesUsed
  <2> QED
    BY <1>2, <2>1, <2>2, EnterVariable
<1> QED
  BY <1>1, <1>2, <1>3, <1>6, <1>7, <1>8, <1>9 DEF TidyRead

LEMMA ReadStep ==
  ASSUME TypeOK, TypeOK', Shape, Taken /\ Proper => TidyRead, Next, ~Stops', Taken', Proper'
  PROVE  TidyRead'
<1>1. /\ File \in Seq(Line) /\ next \in Nat /\ next \in 1 .. (Len(File) + 1)
      /\ prog \in Seq(Entry) /\ data \in Seq(Word) /\ items \in Seq(Item)
      /\ instructionNumber = Len(prog)
      /\ File' \in Seq(Line) /\ inData \in BOOLEAN /\ NextLine = File[next]
  BY DEF TypeOK, File, NextLine
<1>2. CASE NextFile
  <2>1. /\ next' = 1 /\ prog' = << >> /\ data' = << >> /\ items' = items
        /\ words' = NoWords /\ phase = "done"
    BY <1>2 DEF NextFile
  <2>2. items' = << >> /\ words'.fourth = Unset
    BY <2>1 DEF Shape, PhaseShape, NoWords
  <2> QED
    BY <1>1, <2>1, <2>2, StartOfFile DEF TidyRead
<1>3. CASE ~NextFile
  <2>1. Taken /\ Proper /\ TidyRead
    BY <1>3, TakenSoFar
  <2>2. /\ LabelsPlaced(File, next, labelTable) /\ PlacesFilled(File, next, prog)
        /\ InstructionsRead(File, next, phase, prog)
        /\ ~inData => LeftOverIsOld(File, next, words.fourth)
        /\ DataRead(File, next, items, data, variableTable)
    BY <2>1 DEF TidyRead
\* Below ".data" there is nothing but data.
  <2>3. next \in DOMAIN File /\ inData => /\ NextLine.kind \in {"items", ".data", "comment"}
                                          /\ next \notin Instructions(File)
    <3>1. SUFFICES ASSUME next \in DOMAIN File, inData
                   PROVE  /\ NextLine.kind \in {"items", ".data", "comment"}
                          /\ next \notin Instructions(File)
      OBVIOUS
    <3>2. PICK d \in 1 .. (next - 1) : File[d].kind = ".data"
      BY <2>1, <3>1 DEF Taken, Shape, SectionShape
    <3>3. d \in 1 .. next
      BY <1>1
    <3>4. next \notin TextLines(File)
      BY <3>2, <3>3 DEF TextLines
    <3> QED
      BY <1>1, <2>1, <3>1, <3>4 DEF Proper, Tidy, OnlyItems, Instructions
  <2>4. CASE Open \/ EndOfFile
    <3>1. /\ UNCHANGED <<files, current, next, labelTable, variableTable, prog, data, inData,
                         items, words>>
          /\ phase \notin {"variables", "done"} /\ phase' \notin {"variables", "done"}
      BY <2>4 DEF Open, EndOfFile, End, tables
    <3>2. InstructionsRead(File, next, phase', prog)
      BY <2>2, <3>1 DEF InstructionsRead, IsEntryOf
    <3>3. File' = File
      BY <3>1 DEF File
    <3> QED
      BY <2>2, <3>1, <3>2, <3>3 DEF TidyRead
  <2>5. CASE ReadNothing \/ ReadDataMark
    <3>1. /\ UNCHANGED <<files, current, phase, labelTable, variableTable, prog, data, items,
                         words>>
          /\ items = << >> /\ next \in DOMAIN File /\ next' = next + 1
          /\ NextLine.kind \in {"comment", ".data"} /\ (~inData' => ~inData)
      BY <2>5 DEF ReadNothing, ReadDataMark, tables
    <3>2. next \notin Instructions(File)
      BY <1>1, <3>1 DEF Instructions
    <3>3. File' = File
      BY <3>1 DEF File
    <3>4. DataRead(File, next + 1, << >>, data, variableTable)
      BY <1>1, <2>2, <3>1, DataStep
    <3> QED
      BY <1>1, <2>2, <3>1, <3>2, <3>3, <3>4, SkipLine DEF TidyRead
  <2>6. CASE ReadLabel
    <3>1. /\ UNCHANGED <<files, current, phase, variableTable, prog, data, inData, items>>
          /\ items = << >> /\ next \in DOMAIN File /\ next' = next + 1 /\ ~inData
          /\ NextLine.kind = "label" /\ words'.fourth = words.fourth
          /\ labelTable' = Insert(labelTable, NextLine.name, instructionNumber)
      BY <2>6 DEF ReadLabel, Reading, TypeOK
    <3>2. next \in TextLines(File) /\ next \notin Instructions(File)
      BY <3>1, TextIsRead DEF Shape
    <3>3. File' = File
      BY <3>1 DEF File
    <3>4. LabelsPlaced(File, next + 1, labelTable')
      <4>1. instructionNumber = Place(File, next)
        BY <1>1, <2>2 DEF PlacesFilled
      <4>2. ASSUME NextLine.name \in DOMAIN labelTable
            PROVE  \E i \in TextLines(File) :
                      IsLabelLine(File, next, i) /\ File[i].name = NextLine.name
        <5>1. NextLine.name \in Labels(File)
          BY <1>1, <3>1, <3>2 DEF Labels
        <5>2. \A c \in 1 .. (current - 1) : NextLine.name \notin Labels(files[c])
          BY <2>1, <5>1 DEF Proper, LabelsAreNew
        <5> QED
          BY <4>2, <5>2 DEF Shape, LabelOrigin
      <4> QED
        BY <1>1, <2>2, <3>1, <3>2, <4>1, <4>2, EnterLabel
    <3>5. DataRead(File, next + 1, << >>, data, variableTable)
      BY <1>1, <2>2, <3>1, DataStep
    <3> QED
      BY <1>1, <2>2, <3>1, <3>2, <3>3, <3>4, <3>5, SkipLine DEF TidyRead
  <2>7. CASE ReadInstruction
    BY <2>1, <2>7, InstructionRead
  <2>8. CASE RepeatLabel \/ RepeatInstruction
    <3>1. next \in DOMAIN File /\ ~inData /\ NextLine.kind = "spaces"
      BY <2>8 DEF RepeatLabel, RepeatInstruction, Reading
    <3>2. next \in TextLines(File)
      BY <3>1, TextIsRead DEF Shape
    <3> QED
      BY <1>1, <2>1, <3>1, <3>2 DEF Proper, Tidy, NoSpaces
  <2>9. CASE ReadItems
    <3>1. /\ UNCHANGED <<files, current, phase, labelTable, variableTable, prog, data, inData,
                         words>>
          /\ items = << >> /\ next \in DOMAIN File /\ next' = next + 1 /\ inData
          /\ NextLine.kind \in {"items", "label", "unknown", "instruction"}
          /\ items' = AsItems(NextLine)
      BY <2>9 DEF ReadItems, Reading, tables
    <3>2. NextLine.kind = "items" /\ next \notin Instructions(File)
      BY <2>3, <3>1
    <3>3. items' = File[next].items /\ File[next].kind = "items"
      BY <1>1, <3>1, <3>2 DEF AsItems
    <3>4. File' = File
      BY <3>1 DEF File
    <3>5. DataRead(File, next + 1, items', data, variableTable)
      BY <1>1, <2>2, <3>1, <3>3, DataStep
    <3> QED
      BY <1>1, <2>2, <3>1, <3>2, <3>3, <3>4, <3>5, SkipLine DEF TidyRead
  <2>10. CASE PushNumber
    <3>1. /\ UNCHANGED <<files, current, next, phase, labelTable, variableTable, prog, inData,
                         words>>
          /\ items # << >> /\ Head(items).is = "number"
          /\ data' = Append(data, Head(items).value) /\ items' = Tail(items)
      BY <2>10 DEF PushNumber, tables
    <3>2. File' = File
      BY <3>1 DEF File
    <3>3. DataRead(File, next, items', data', variableTable)
      BY <1>1, <2>2, <3>1, NumberStep
    <3> QED
      BY <2>2, <3>1, <3>2, <3>3 DEF TidyRead
  <2>11. CASE PlaceVariable
    <3>1. /\ UNCHANGED <<files, current, next, phase, labelTable, prog, data, inData, words>>
          /\ items # << >> /\ Head(items).is = "variable"
          /\ Head(items).name \in DOMAIN variableTable
          /\ variableTable' = [variableTable EXCEPT ![Head(items).name] = Len(data)]
          /\ items' = Tail(items)
      BY <2>11 DEF PlaceVariable
    <3>2. File' = File
      BY <3>1 DEF File
    <3>3. DataRead(File, next, items', data, variableTable')
      BY <1>1, <2>2, <3>1, VariableStep
    <3> QED
      BY <2>2, <3>1, <3>2, <3>3 DEF TidyRead
  <2>12. CASE UpdateLabels
    <3>1. /\ UNCHANGED <<files, current, next, labelTable, variableTable, data, inData, items,
                         words>>
          /\ phase = "labels" /\ phase' = "variables" /\ next = Len(File) + 1
          /\ prog' = [k \in DOMAIN prog |-> ResolveLabel(prog[k])]
      BY <2>12 DEF UpdateLabels, tables, Shape, PhaseShape
    <3>2. File' = File
      BY <3>1 DEF File
    <3>3. \A i \in Instructions(File) :
             /\ Place(File, i) + 1 \in DOMAIN prog
             /\ IsEntryOf(File, "labels", i, prog[Place(File, i) + 1])
             => IsEntryOf(File, "variables", i, prog'[Place(File, i) + 1])
      <4>1. \A k \in DOMAIN prog : prog[k] \in Entry /\ prog'[k] = ResolveLabel(prog[k])
        BY <1>1, <3>1
      <4> QED
        BY <2>1, <2>2, <3>1, <4>1, ResolveLabelOfItsLine DEF Proper
    <3>4. DOMAIN prog' = DOMAIN prog /\ Len(prog') = Len(prog)
      <4>1. Len(prog) \in Nat /\ DOMAIN prog = 1 .. Len(prog)
        BY <1>1
      <4> QED
        BY <3>1, <4>1
    <3>5. PlacesFilled(File, next, prog') /\ InstructionsRead(File, next, "variables", prog')
      BY <2>2, <3>1, <3>3, <3>4, PassOverEntries
    <3> QED
      BY <2>2, <3>1, <3>2, <3>5 DEF TidyRead
  <2>13. CASE UpdateVariables
    <3>1. /\ UNCHANGED <<files, current, next, labelTable, variableTable, data, inData, items,
                         words>>
          /\ phase = "variables" /\ phase' = "done" /\ next = Len(File) + 1 /\ items = << >>
          /\ prog' = [k \in DOMAIN prog |-> ResolveVariable(prog[k])]
      BY <2>13 DEF UpdateVariables, tables, Shape, PhaseShape
    <3>2. File' = File
      BY <3>1 DEF File
    <3>3. \A i \in Instructions(File) :
             /\ Place(File, i) + 1 \in DOMAIN prog
             /\ IsEntryOf(File, "variables", i, prog[Place(File, i) + 1])
             => IsEntryOf(File, "done", i, prog'[Place(File, i) + 1])
      <4>1. \A k \in DOMAIN prog : prog[k] \in Entry /\ prog'[k] = ResolveVariable(prog[k])
        BY <1>1, <3>1
      <4> QED
        BY <2>1, <2>2, <3>1, <4>1, ResolveVariableOfItsLine DEF Proper
    <3>4. DOMAIN prog' = DOMAIN prog /\ Len(prog') = Len(prog)
      <4>1. Len(prog) \in Nat /\ DOMAIN prog = 1 .. Len(prog)
        BY <1>1
      <4> QED
        BY <3>1, <4>1
    <3>5. PlacesFilled(File, next, prog') /\ InstructionsRead(File, next, "done", prog')
      BY <2>2, <3>1, <3>3, <3>4, PassOverEntries
    <3> QED
      BY <2>2, <3>1, <3>2, <3>5 DEF TidyRead
  <2>14. CASE ReadUnknown \/ ReadOutOfRange \/ DataFault
    BY <2>14 DEF ReadUnknown, ReadOutOfRange, DataFault, End, Stops
  <2>15. CASE Stopped
    <3>1. UNCHANGED <<files, current, next, phase, labelTable, variableTable, prog, data, inData,
                      items, words>>
      BY <2>15 DEF Stopped, vars, tables
    <3>2. File' = File
      BY <3>1 DEF File
    <3> QED
      BY <2>2, <3>1, <3>2 DEF TidyRead
  <2> QED
    BY <1>3, <2>4, <2>5, <2>6, <2>7, <2>8, <2>9, <2>10, <2>11, <2>12, <2>13, <2>14, <2>15
       DEF Next, ReadText, ReadData
<1> QED
  BY <1>2, <1>3

LEMMA ReadInit == Init => ReadInv
<1> SUFFICES ASSUME Init PROVE ReadInv
  OBVIOUS
<1>1. /\ current = 1 /\ next = 1 /\ phase = "open" /\ labelTable = << >> /\ prog = << >>
      /\ data = << >> /\ items = << >> /\ words = NoWords /\ words.fourth = Unset
  BY DEF Init, NoWords
<1>2. File \in Seq(Line)
  <2>1. TypeOK
    BY InvInit DEF Inv
  <2> QED
    BY <2>1 DEF TypeOK, File
<1>3. Shape
  BY <1>1 DEF Shape, PhaseShape, SectionShape, LabelOrigin
<1>4. TidyRead
  BY <1>1, <1>2, StartOfFile DEF TidyRead
<1> QED
  BY <1>3, <1>4 DEF ReadInv

LEMMA ReadInvStep == ASSUME TypeOK, TypeOK', ReadInv, [Next]_vars PROVE ReadInv'
<1>1. CASE Stops
  <2>1. phase' = phase
    BY <1>1 DEF Stops, Next, Open, ReadNothing, ReadDataMark, ReadText, ReadLabel,
       ReadInstruction, RepeatLabel, RepeatInstruction, ReadUnknown, ReadOutOfRange, Reading,
       ReadData, ReadItems, PushNumber, PlaceVariable, DataFault, EndOfFile, UpdateLabels,
       UpdateVariables, NextFile, Stopped, vars
  <2> QED
    BY <1>1, <2>1 DEF Stops, ReadInv
<1>2. CASE ~Stops /\ Next
  <2>1. Shape /\ (Taken /\ Proper => TidyRead)
    BY <1>2 DEF ReadInv
  <2>2. Stops' \/ Shape'
    BY <1>2, <2>1, ShapeStep
  <2>3. ~Stops' /\ Taken' /\ Proper' => TidyRead'
    BY <1>2, <2>1, ReadStep
  <2> QED
    BY <2>2, <2>3 DEF ReadInv
<1>3. CASE UNCHANGED vars
  <2>1. UNCHANGED <<files, current, next, phase, labelTable, variableTable, prog, data, inData,
                    items, words>>
    BY <1>3 DEF vars, tables
  <2>2. File' = File /\ (LabelsAreNew' <=> LabelsAreNew)
    BY <2>1 DEF File, LabelsAreNew
  <2>3. (Stops' <=> Stops) /\ (Taken' <=> Taken) /\ (Proper' <=> Proper)
    BY <2>1, <2>2 DEF Stops, Taken, Proper
  <2>4. Shape => Shape'
    <3>1. PhaseShape => PhaseShape'
      BY <2>1, <2>2 DEF PhaseShape, NoWords
    <3>2. SectionShape => SectionShape'
      BY <2>1, <2>2 DEF SectionShape
    <3>3. LabelOrigin => LabelOrigin'
      BY <2>1, <2>2 DEF LabelOrigin
    <3> QED
      BY <3>1, <3>2, <3>3 DEF Shape
  <2>5. TidyRead => TidyRead'
    BY <2>1, <2>2 DEF TidyRead
  <2> QED
    BY <2>3, <2>4, <2>5 DEF ReadInv
<1> QED
  BY <1>1, <1>2, <1>3

LEMMA ReadInvariance == Spec => [](TypeOK /\ ReadInv)
<1>1. Init => TypeOK /\ ReadInv
  BY InvInit, ReadInit DEF Inv
<1>2. TypeOK /\ TypeOK' /\ ReadInv /\ [Next]_vars => ReadInv'
  BY ReadInvStep
<1>3. Spec => []TypeOK
  BY TypeCorrectness
<1> QED
  BY <1>1, <1>2, <1>3, PTL DEF Spec

\* What the parser has made of a tidy file when it is done.
LEMMA WhatIsRead ==
  ASSUME TypeOK, ReadInv, phase = "done", Tidy(File), LabelsAreNew, TakenAsText
  PROVE  /\ Len(prog) = Cardinality(Instructions(File))
         /\ \A k \in DOMAIN prog : \E i \in Instructions(File) : k = Place(File, i) + 1
         /\ \A i \in Instructions(File) :
               /\ Place(File, i) + 1 \in DOMAIN prog
               /\ prog[Place(File, i) + 1].instruction = Meaning(File, i)
         /\ \A n \in Labels(File) : LabelPlace(File, n) \in Nat
         /\ DataRead(File, Len(File) + 1, << >>, data, variableTable)
<1>1. /\ File \in Seq(Line) /\ next = Len(File) + 1 /\ items = << >> /\ TidyRead
      /\ Len(File) + 1 \in 1 .. (Len(File) + 1)
  <2>1. File \in Seq(Line)
    BY DEF TypeOK, File
  <2>2. Shape /\ TidyRead
    BY DEF ReadInv, Stops, Taken, TakenAsText, Proper
  <2> QED
    BY <2>1, <2>2, FileFacts DEF Shape, PhaseShape
<1>2. \A i \in TextLines(File) : i < next
  BY <1>1, FileFacts
<1>3. \A i \in Instructions(File) : i < next
  BY <1>1, <1>2, FileFacts
<1>4. PlacesFilled(File, next, prog) /\ InstructionsRead(File, next, "done", prog)
  BY <1>1 DEF TidyRead
<1>5. Len(prog) = Cardinality(Instructions(File))
  BY <1>1, <1>4, PlaceFacts DEF PlacesFilled
<1>6. ASSUME NEW i \in Instructions(File)
      PROVE  /\ Place(File, i) + 1 \in DOMAIN prog
             /\ prog[Place(File, i) + 1].instruction = Meaning(File, i)
  <2> DEFINE l == File[i]
             o == l.operand
             e == prog[Place(File, i) + 1]
  <2>1. Place(File, i) + 1 \in DOMAIN prog /\ IsEntryOf(File, "done", i, e)
    BY <1>3, <1>4 DEF InstructionsRead
  <2>2. /\ l \in InstructionLine /\ o \in Text
        /\ HasOperand(l.instruction.op) <=> o \in Operand
    BY <1>1, FileFacts, LineFacts
  <2>3. o \in Operand <=> o.is \in {"number", "label", "variable"}
    BY <2>2, TextFacts DEF Item, Operand
  <2>4. CASE o \in Operand
    <3>1. e.instruction = [l.instruction EXCEPT !.imm = e.instruction.imm]
      BY <2>1, <2>2, <2>4 DEF IsEntryOf
    <3>2. /\ o.is = "number" => e.instruction.imm = o.value
          /\ o.is = "label" => e.instruction.imm = LabelPlace(File, o.name) - Place(File, i)
          /\ o.is = "variable" => e.instruction.imm = VariablePlace(File, o.name)
      BY <2>1 DEF IsEntryOf
    <3> HIDE DEF e
    <3> QED
      BY <2>1, <2>3, <2>4, <3>1, <3>2 DEF Meaning, e
  <2>5. CASE o \notin Operand
    <3>1. e.instruction = l.instruction
      BY <2>1, <2>2, <2>5 DEF IsEntryOf
    <3> HIDE DEF e
    <3> QED
      BY <2>1, <2>3, <2>5, <3>1 DEF Meaning, e
  <2> QED
    BY <2>4, <2>5
<1>7. ASSUME NEW n \in Labels(File)
      PROVE  LabelPlace(File, n) \in Nat
  <2>1. PICK i \in TextLines(File) : File[i].kind = "label" /\ File[i].name = n
    BY DEF Labels
  <2>2. n \in DOMAIN labelTable /\ labelTable[n] = LabelPlace(File, n)
    BY <1>1, <1>2, <2>1 DEF TidyRead, LabelsPlaced, IsLabelLine
  <2> QED
    BY <2>2 DEF TypeOK, IsTable
<1>8. DataRead(File, Len(File) + 1, << >>, data, variableTable)
  BY <1>1 DEF TidyRead
<1>9. \A k \in DOMAIN prog : \E i \in Instructions(File) : k = Place(File, i) + 1
  BY <1>4 DEF PlacesFilled
<1> QED
  BY <1>5, <1>6, <1>7, <1>8, <1>9

\* parse gives every tidy file its meaning: its instructions in their order,
\* with the offsets of labels that come before or after them and the places
\* of their variables, and its data.
THEOREM FilesKeepTheirMeaning == Spec => []AssembledAsWritten
<1>1. ASSUME TypeOK, ReadInv PROVE AssembledAsWritten
  <2>1. SUFFICES ASSUME phase = "done", Tidy(File), LabelsAreNew, TakenAsText
                 PROVE  /\ Len(prog) = Cardinality(Instructions(File))
                        /\ \A i \in Instructions(File) :
                              prog[Place(File, i) + 1].instruction = Meaning(File, i)
                        /\ Len(data) = Cardinality(Numbers(File))
                        /\ \A p \in Numbers(File) :
                              data[DataPlace(File, p) + 1] = ItemAt(File, p).value
    BY DEF AssembledAsWritten
  <2>2. File \in Seq(Line)
    BY <1>1 DEF TypeOK, File
  <2> QED
    BY <1>1, <2>1, <2>2, WhatIsRead, AllData
<1> QED
  BY <1>1, ReadInvariance, PTL

\* The instruction on every line of a sound file is one of the CPU's.
LEMMA MeaningType ==
  ASSUME TypeOK, ReadInv, phase = "done", Tidy(File), LabelsAreNew, TakenAsText, Sound(File),
         NEW i \in Instructions(File)
  PROVE  /\ Meaning(File, i) \in Instruction
         /\ Meaning(File, i).op = File[i].instruction.op
         /\ Meaning(File, i).rd = File[i].instruction.rd
         /\ Meaning(File, i).op \in BranchOps =>
               /\ Meaning(File, i).imm = LabelPlace(File, File[i].operand.name) - Place(File, i)
               /\ LabelPlace(File, File[i].operand.name) \in Nat
               /\ LabelPlace(File, File[i].operand.name) < Cardinality(Instructions(File))
<1> DEFINE l == File[i]
           o == l.operand
           m == Cardinality(Instructions(File))
<1>1. /\ File \in Seq(Line) /\ l \in InstructionLine /\ i \in 1 .. (Len(File) + 1)
      /\ Place(File, i) \in Nat /\ m \in Nat /\ Place(File, i) < m
  <2>1. File \in Seq(Line)
    BY DEF TypeOK, File
  <2>2. /\ l \in InstructionLine /\ i \in 1 .. (Len(File) + 1)
        /\ Len(File) + 1 \in 1 .. (Len(File) + 1) /\ i < Len(File) + 1
    BY <2>1, FileFacts
  <2>3. Place(File, i) \in Nat /\ Place(File, Len(File) + 1) = m /\ m \in Nat
    BY <2>1, <2>2, PlaceFacts
  <2>4. Place(File, i) + 1 <= m
    BY <2>1, <2>2, <2>3, PlacesIncrease
  <2> QED
    BY <2>1, <2>2, <2>3, <2>4
<1>2. /\ l.instruction \in Instruction /\ o \in Text \ {Unset}
      /\ HasOperand(l.instruction.op) <=> o \in Operand
  BY <1>1, LineFacts
<1>3. o \in Operand <=> o.is \in {"number", "label", "variable"}
  BY <1>2, TextFacts DEF Item, Operand
<1>4. HalfRange \in Nat \ {0} /\ m < HalfRange
  BY WordAssumption DEF Sound
<1>5. \A imm \in Word : /\ [l.instruction EXCEPT !.imm = imm] \in Instruction
                        /\ [l.instruction EXCEPT !.imm = imm].op = l.instruction.op
                        /\ [l.instruction EXCEPT !.imm = imm].rd = l.instruction.rd
                        /\ [l.instruction EXCEPT !.imm = imm].imm = imm
  BY <1>2 DEF Instruction
<1>6. CASE o.is = "number"
  <2>1. o.value \in Word
    BY <1>6, <1>2, TextFacts
  <2>2. l.instruction.op \notin BranchOps
    BY <1>6 DEF Sound
  <2>3. Meaning(File, i) = [l.instruction EXCEPT !.imm = o.value]
    BY <1>6 DEF Meaning
  <2> QED
    BY <1>5, <2>1, <2>2, <2>3
<1>7. CASE o.is = "label"
  <2> DEFINE place == LabelPlace(File, o.name)
  <2>1. l.instruction.op \in BranchOps /\ o.name \in Labels(File)
    BY <1>7 DEF Tidy, OperandsDefined
  <2>2. place \in Nat /\ place < m
    BY <2>1, WhatIsRead DEF Sound
  <2>3. Meaning(File, i) = [l.instruction EXCEPT !.imm = place - Place(File, i)]
    BY <1>7 DEF Meaning
  <2> HIDE DEF place, m
  <2>4. place - Place(File, i) \in Word
    BY <1>1, <1>4, <2>2 DEF Word
  <2>5. /\ Meaning(File, i) \in Instruction /\ Meaning(File, i).op = l.instruction.op
        /\ Meaning(File, i).rd = l.instruction.rd
        /\ Meaning(File, i).imm = place - Place(File, i)
    BY <1>5, <2>3, <2>4
  <2> QED
    BY <2>2, <2>5 DEF place, m
<1>8. CASE o.is = "variable"
  <2> DEFINE place == VariablePlace(File, o.name)
  <2>1. o.name \in VariableName /\ Places(File, o.name) # {}
    BY <1>2, <1>8, TextFacts DEF Tidy, OperandsDefined
  <2>2. IsFiniteSet(Numbers(File))
    BY <1>1, WhatIsRead, AllData
  <2>3. place \in Nat /\ place <= Cardinality(Numbers(File)) /\ Cardinality(Numbers(File)) \in Nat
    BY <2>2, FS_Subset, FS_CardinalityType DEF VariablePlace, DataPlace
  <2>4. Cardinality(Numbers(File)) < HalfRange
    BY DEF Sound
  <2>5. Meaning(File, i) = [l.instruction EXCEPT !.imm = place]
    BY <1>8 DEF Meaning
  <2>6. l.instruction.op \notin BranchOps
    BY <1>8 DEF Sound
  <2> HIDE DEF place
  <2>7. place \in Word
    BY <1>4, <2>3, <2>4 DEF Word
  <2> QED
    BY <1>5, <2>5, <2>6, <2>7
<1>9. CASE o \notin Operand
  <2>1. Meaning(File, i) = l.instruction
    BY <1>3, <1>9 DEF Meaning
  <2>2. l.instruction.op \notin BranchOps
    BY <1>2, <1>9 DEF HasOperand
  <2> QED
    BY <1>2, <2>1, <2>2
<1> QED
  BY <1>3, <1>6, <1>7, <1>8, <1>9

\* A sound file becomes a well-formed program: it ends in HLT, writes PC only
\* in branches, and every branch leads into it.  The theorems about the CPUs
\* are about such programs.
THEOREM FilesFeedTheCPU == Spec => []FeedsTheCPU
<1>1. ASSUME TypeOK, ReadInv PROVE FeedsTheCPU
  <2>1. SUFFICES ASSUME phase = "done", Tidy(File), Sound(File), LabelsAreNew, TakenAsText
                 PROVE  Program \in Seq(Instruction) /\ WellFormed(Program)
    BY DEF FeedsTheCPU
  <2> DEFINE m == Cardinality(Instructions(File))
  <2>2. /\ File \in Seq(Line) /\ prog \in Seq(Entry) /\ Len(prog) = m /\ m \in Nat
        /\ DOMAIN prog = 1 .. m
        /\ \A k \in DOMAIN prog : \E i \in Instructions(File) : k = Place(File, i) + 1
        /\ \A i \in Instructions(File) :
              /\ Place(File, i) + 1 \in DOMAIN prog
              /\ prog[Place(File, i) + 1].instruction = Meaning(File, i)
    <3>1. File \in Seq(Line) /\ prog \in Seq(Entry)
      BY <1>1 DEF TypeOK, File
    <3>2. Len(prog) = m
      BY <1>1, <2>1, WhatIsRead
    <3>3. Len(prog) \in Nat /\ DOMAIN prog = 1 .. Len(prog)
      BY <3>1
    <3> QED
      BY <1>1, <2>1, <3>1, <3>2, <3>3, WhatIsRead
  <2>3. /\ DOMAIN Program = 1 .. m /\ \A k \in 1 .. m : Program[k] = prog[k].instruction
    BY <2>2 DEF Program
  <2> HIDE DEF m
  <2>4. \A k \in 1 .. m : \E i \in Instructions(File) :
                             k = Place(File, i) + 1 /\ Program[k] = Meaning(File, i)
    <3>1. SUFFICES ASSUME NEW k \in 1 .. m
                   PROVE  \E i \in Instructions(File) :
                             k = Place(File, i) + 1 /\ Program[k] = Meaning(File, i)
      OBVIOUS
    <3>2. PICK i \in Instructions(File) : k = Place(File, i) + 1
      BY <2>2
    <3>3. prog[k].instruction = Meaning(File, i)
      BY <2>2, <3>2
    <3> QED
      BY <2>3, <3>2, <3>3
  <2>5. Program \in Seq(Instruction) /\ Len(Program) = m
    <3>1. \A k \in 1 .. m : Program[k] \in Instruction
      BY <1>1, <2>1, <2>4, MeaningType
    <3>2. Program = [k \in 1 .. m |-> Program[k]]
      BY <2>2 DEF Program
    <3>3. Program \in [1 .. m -> Instruction]
      BY <3>1, <3>2
    <3> QED
      BY <2>2, <3>3
  <2>6. Program[m].op = "HLT"
    <3>1. /\ Instructions(File) # {} /\ Instructions(File) \subseteq 1 .. Len(File)
          /\ Len(File) \in Nat
      BY <2>1, <2>2, FileFacts DEF Sound
    <3>2. m > 0
      BY <2>2, <3>1
    <3>3. PICK i \in Instructions(File) : m = Place(File, i) + 1 /\ Program[m] = Meaning(File, i)
      BY <2>2, <2>4, <3>2
    <3>4. ASSUME NEW j \in Instructions(File) PROVE i >= j
      <4>1. SUFFICES ASSUME i < j PROVE FALSE
        BY <3>1
      <4>2. j \in 1 .. (Len(File) + 1) /\ Len(File) + 1 \in 1 .. (Len(File) + 1)
            /\ j < Len(File) + 1 /\ i \in 1 .. (Len(File) + 1)
        BY <3>1
      <4>3. Place(File, i) + 1 <= Place(File, j)
        BY <2>2, <4>1, <4>2, PlacesIncrease
      <4>4. Place(File, j) + 1 <= m
        BY <2>2, <4>2, PlacesIncrease, PlaceFacts DEF m
      <4>5. Place(File, i) \in Nat /\ Place(File, j) \in Nat
        BY <2>2, <4>2, PlaceFacts
      <4> QED
        BY <2>2, <3>3, <4>3, <4>4, <4>5
    <3>5. Max(Instructions(File)) = i
      <4>1. \A x \in Instructions(File) :
               (\A y \in Instructions(File) : x >= y) <=> x = i
        BY <3>1, <3>4
      <4> QED
        BY <3>4, <4>1 DEF Max
    <3>6. File[i].instruction.op = "HLT"
      BY <2>1, <3>5 DEF Sound
    <3> QED
      BY <1>1, <2>1, <3>3, <3>6, MeaningType
  <2>7. ASSUME NEW k \in 1 .. m
        PROVE  /\ Program[k].rd = "PC" <=> Program[k].op \in BranchOps
               /\ Program[k].op \in BranchOps => k + Program[k].imm \in 1 .. m
    <3>1. PICK i \in Instructions(File) : k = Place(File, i) + 1 /\ Program[k] = Meaning(File, i)
      BY <2>4
    <3>2. /\ Program[k] \in Instruction /\ Program[k].op = File[i].instruction.op
          /\ Program[k].rd = File[i].instruction.rd
          /\ Program[k].op \in BranchOps =>
                /\ Program[k].imm = LabelPlace(File, File[i].operand.name) - Place(File, i)
                /\ LabelPlace(File, File[i].operand.name) \in Nat
                /\ LabelPlace(File, File[i].operand.name) < m
      BY <1>1, <2>1, <3>1, MeaningType DEF m
    <3>3. Program[k].op \notin BranchOps => Program[k].rd # "PC"
      BY <2>1, <3>2 DEF Sound
    <3>4. Program[k].op \in BranchOps => Program[k].rd = "PC"
      BY <3>2 DEF Instruction
    <3>5. Place(File, i) \in Int
      <4>1. i \in 1 .. (Len(File) + 1)
        BY <2>2, FileFacts
      <4> QED
        BY <2>2, <4>1, PlaceFacts
    <3> QED
      BY <2>2, <3>1, <3>2, <3>3, <3>4, <3>5
  <2> QED
    BY <2>3, <2>5, <2>6, <2>7 DEF WellFormed
<1> QED
  BY <1>1, ReadInvariance, PTL
==============================================================================
