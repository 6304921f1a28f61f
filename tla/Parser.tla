-------------------------------- MODULE Parser --------------------------------
(***************************************************************************)
(* The assembler of parser/parser.cpp.  It reads a file line by line,      *)
(* makes an instruction of each, and patches in labels and variables that  *)
(* were not known then in two passes over the program.  The tables of      *)
(* labels and variables are globals: a process that parses several files,  *)
(* as the tests do, keeps what it has read.                                *)
(*                                                                         *)
(* A line is what its words say: a label, an instruction with its operand, *)
(* items of data, or something else.  A label, a variable or a register    *)
(* name is a text; Unset is memory no word has been stored in.             *)
(***************************************************************************)
EXTENDS ISA

CONSTANTS
    LabelName, VariableName,
    Sessions,            \* the sequences of files a process may parse
    InDataAtStart        \* IN_DATA_SECTION, which parse does not initialize

(***************************************************************************)
(* Words and lines.                                                        *)
(***************************************************************************)
Number(n)   == [is |-> "number", name |-> "", value |-> n]
Label(n)    == [is |-> "label", name |-> n, value |-> 0]
Variable(v) == [is |-> "variable", name |-> v, value |-> 0]
Register    == [is |-> "register", name |-> "", value |-> 0]
Empty       == [is |-> "empty", name |-> "", value |-> 0]
Unset       == [is |-> "unset", name |-> "", value |-> 0]

Operand == {Number(n) : n \in Word} \cup {Label(n) : n \in LabelName}
              \cup {Variable(v) : v \in VariableName}
Item    == {Number(n) : n \in Word} \cup {Variable(v) : v \in VariableName}
Text    == Operand \cup {Register, Empty, Unset}

\* Formats I, S and B of instructionMap have an immediate value.
HasOperand(op) == op \in ImmOps \cup MemOps \cup BranchOps

\* An instruction without its immediate value, the operand that gives it, and
\* whether it is written offset(register).
InstructionLine ==
    {l \in [kind : {"instruction"}, instruction : Instruction,
            operand : Operand \cup {Register, Empty}, offset : BOOLEAN] :
        /\ l.operand \in Operand <=> HasOperand(l.instruction.op)
        /\ l.operand = Register <=> l.instruction.op \in RegOps
        /\ l.offset => l.instruction.op \in MemOps \cup ImmOps}

\* "comment" is also an empty line, "spaces" one of blanks only, and
\* "unknown" one whose opcode or register does not exist.
Line ==
    InstructionLine
      \cup [kind : {"label"}, name : LabelName]
      \cup [kind : {"items"}, items : Seq(Item)]
      \cup [kind : {"comment", "spaces", "unknown", ".data"}]

NoLine == [kind |-> "none"]

ASSUME SessionAssumption ==
    /\ Sessions \subseteq Seq(Seq(Line)) \ {<< >>}
    /\ InDataAtStart \subseteq BOOLEAN

VARIABLES
    files,               \* the files of this process, fixed
    current, next,       \* the file being parsed, and its next line
    phase,               \* what parse is doing
    labelTable, variableTable,
    prog, data,          \* the results
    instructionNumber,
    inData,              \* IN_DATA_SECTION
    items,               \* what is left of a line of data
    words                \* what "words" last held: its line, its fourth word

tables == <<labelTable, variableTable>>
vars == <<files, current, next, phase, tables, prog, data, instructionNumber, inData,
          items, words>>

File == files[current]
NextLine == File[next]

NoWords == [line |-> NoLine, fourth |-> Unset]

Init ==
    /\ files \in Sessions
    /\ current = 1 /\ next = 1
    /\ phase = "open"
    /\ labelTable = << >> /\ variableTable = << >>
    /\ prog = << >> /\ data = << >>
    /\ instructionNumber = 0
    /\ inData \in InDataAtStart
    /\ items = << >>
    /\ words = NoWords

(***************************************************************************)
(* std::map.                                                               *)
(***************************************************************************)
\* A slip: a key that is there gets the new value.
InsertLast(table, key, value) ==
    [k \in DOMAIN table \cup {key} |-> IF k = key THEN value ELSE table[k]]

\* insert does nothing if the key is there.
Insert(table, key, value) ==
    [k \in DOMAIN table \cup {key} |-> IF k \in DOMAIN table THEN table[k] ELSE value]

(***************************************************************************)
(* Opening the file.                                                       *)
(***************************************************************************)
Open ==
    /\ phase = "open"
    /\ phase' \in {"read", "failed"}
    /\ UNCHANGED <<files, current, next, tables, prog, data, instructionNumber, inData,
                   items, words>>

(***************************************************************************)
(* A line outside the data section.                                        *)
(***************************************************************************)
Reading(inDataSection) ==
    /\ phase = "read"
    /\ items = << >>
    /\ next \in DOMAIN File
    /\ inData = inDataSection

ReadNothing ==
    /\ phase = "read" /\ items = << >>
    /\ next \in DOMAIN File
    /\ NextLine.kind = "comment"
    /\ next' = next + 1
    /\ UNCHANGED <<files, current, phase, tables, prog, data, instructionNumber, inData,
                   items, words>>

ReadDataMark ==
    /\ phase = "read" /\ items = << >>
    /\ next \in DOMAIN File
    /\ NextLine.kind = ".data"
    /\ next' = next + 1
    /\ inData' = TRUE
    /\ UNCHANGED <<files, current, phase, tables, prog, data, instructionNumber, items, words>>

ReadLabel ==
    /\ Reading(FALSE)
    /\ NextLine.kind = "label"
    /\ next' = next + 1
    /\ labelTable' = Insert(labelTable, NextLine.name, instructionNumber)
    /\ words' = [words EXCEPT !.line = NextLine]
    /\ UNCHANGED <<files, current, phase, variableTable, prog, data, instructionNumber,
                   inData, items>>

(***************************************************************************)
(* parseImmediateValue.                                                    *)
(***************************************************************************)
IsKnownLabel(o) == o.is = "label" /\ o.name \in DOMAIN labelTable

\* Slips: an address relative to the next instruction, or none to resolve.
ImmediateFromNext(o) ==
    CASE o.is = "number" -> o.value
      [] IsKnownLabel(o) -> labelTable[o.name] - (instructionNumber + 1)
      [] OTHER           -> instructionNumber
ImmediateForgotten(o) ==
    CASE o.is = "number" -> o.value
      [] IsKnownLabel(o) -> labelTable[o.name] - instructionNumber
      [] OTHER           -> 0

\* What is not known yet keeps the place of the instruction.
Immediate(o) ==
    CASE o.is = "number" -> o.value
      [] IsKnownLabel(o) -> labelTable[o.name] - instructionNumber
      [] OTHER           -> instructionNumber

\* A slip: a variable is not entered when it is used.
VariablesKept(o) == variableTable

VariablesUsed(o) ==
    IF o.is = "variable" THEN Insert(variableTable, o.name, instructionNumber)
                         ELSE variableTable

\* The fourth word of an instruction, or what is there if it has only three.
FourthWord(l) ==
    IF l.operand = Empty \/ l.offset THEN words.fourth ELSE l.operand

\* The text that the passes at the end replace.
LabelToReplace(l) ==
    IF ~HasOperand(l.instruction.op) \/ IsKnownLabel(l.operand) THEN Empty ELSE FourthWord(l)

\* An instruction is made of line l, while the file is at NextLine.
Push(l) ==
    /\ LabelToReplace(l) # Unset
    /\ next' = next + 1
    /\ prog' = Append(prog,
          [instruction    |-> IF HasOperand(l.instruction.op)
                                THEN [l.instruction EXCEPT !.imm = Immediate(l.operand)]
                                ELSE l.instruction,
           labelToReplace |-> LabelToReplace(l),
           rawText        |-> NextLine])
    /\ instructionNumber' = instructionNumber + 1
    /\ variableTable' = VariablesUsed(l.operand)
    /\ words' = [line |-> l, fourth |-> FourthWord(l)]
    /\ UNCHANGED <<files, current, phase, labelTable, data, inData, items>>

ReadInstruction ==
    /\ Reading(FALSE)
    /\ NextLine.kind = "instruction"
    /\ Push(NextLine)

\* A line of blanks gives no words, but words[0] and those behind it are read
\* all the same: what they last held is still there, so that the last label
\* or instruction is taken again.
RepeatLabel ==
    /\ Reading(FALSE)
    /\ NextLine.kind = "spaces" /\ words.line.kind = "label"
    /\ next' = next + 1
    /\ UNCHANGED <<files, current, phase, tables, prog, data, instructionNumber, inData,
                   items, words>>

RepeatInstruction ==
    /\ Reading(FALSE)
    /\ NextLine.kind = "spaces" /\ words.line.kind = "instruction"
    /\ ~words.line.offset
    /\ Push(words.line)

End(outcome) ==
    /\ phase' = outcome
    /\ UNCHANGED <<files, current, next, tables, prog, data, instructionNumber, inData,
                   items, words>>

\* at() throws for an unknown opcode or register, which is caught; with no
\* words, "offset(register)" is taken for a register.
ReadUnknown ==
    /\ Reading(FALSE)
    /\ \/ NextLine.kind \in {"unknown", "items"}
       \/ NextLine.kind = "spaces" /\ words.line.kind = "instruction" /\ words.line.offset
    /\ End("failed")

\* Memory is read that no word was ever stored in.
ReadOutOfRange ==
    /\ Reading(FALSE)
    /\ \/ NextLine.kind = "spaces" /\ words.line = NoLine
       \/ NextLine.kind = "instruction" /\ LabelToReplace(NextLine) = Unset
    /\ End("crashed")

(***************************************************************************)
(* A line of the data section.                                             *)
(***************************************************************************)
Zero == Number(0)

\* A variable and a register in one item are the name of no variable.
IsMisnamed(l) == l.kind = "instruction" /\ l.offset /\ l.operand.is = "variable"

\* What stands where data is expected is taken for numbers, or a variable.
AsItems(l) ==
    CASE l.kind = "items" -> l.items
      [] l.kind \in {"label", "unknown"} -> <<Zero>>
      [] l.kind = "instruction" ->
            IF l.instruction.op \in {"NOP", "HLT"} THEN <<Zero>>
            ELSE LET last == IF l.operand.is \in {"number", "variable"} THEN l.operand
                                                                       ELSE Zero
                 IN  IF l.offset THEN <<Zero, Zero, last>> ELSE <<Zero, Zero, Zero, last>>

ReadItems ==
    /\ Reading(TRUE)
    /\ NextLine.kind \in {"items", "label", "unknown", "instruction"}
    /\ ~IsMisnamed(NextLine)
    /\ next' = next + 1
    /\ items' = AsItems(NextLine)
    /\ UNCHANGED <<files, current, phase, tables, prog, data, instructionNumber, inData, words>>

PushNumber ==
    /\ phase = "read"
    /\ items # << >> /\ Head(items).is = "number"
    /\ data' = Append(data, Head(items).value)
    /\ items' = Tail(items)
    /\ UNCHANGED <<files, current, next, phase, tables, prog, instructionNumber, inData, words>>

\* A slip: the place of the number before it.
PlaceAtLast ==
    /\ phase = "read"
    /\ items # << >> /\ Head(items).is = "variable"
    /\ Head(items).name \in DOMAIN variableTable
    /\ variableTable' = [variableTable EXCEPT ![Head(items).name] = Len(data) - 1]
    /\ items' = Tail(items)
    /\ UNCHANGED <<files, current, next, phase, labelTable, prog, data, instructionNumber,
                   inData, words>>

PlaceVariable ==
    /\ phase = "read"
    /\ items # << >> /\ Head(items).is = "variable"
    /\ Head(items).name \in DOMAIN variableTable
    /\ variableTable' = [variableTable EXCEPT ![Head(items).name] = Len(data)]
    /\ items' = Tail(items)
    /\ UNCHANGED <<files, current, next, phase, labelTable, prog, data, instructionNumber,
                   inData, words>>

\* An item of no characters, as blanks at the start of a line give, throws
\* where nothing catches; a variable no instruction uses is looked up in vain
\* and written to.
DataFault ==
    /\ \/ /\ Reading(TRUE)
          /\ NextLine.kind \in {"spaces", "items", "label", "unknown", "instruction"}
       \/ /\ phase = "read"
          /\ items # << >> /\ Head(items).is = "variable"
          /\ Head(items).name \notin DOMAIN variableTable
    /\ End("crashed")

EndOfFile ==
    /\ phase = "read"
    /\ items = << >>
    /\ next \notin DOMAIN File
    /\ End("labels")

(***************************************************************************)
(* The two passes over the program.                                        *)
(***************************************************************************)
SetImm(e, imm) == [e EXCEPT !.instruction.imm = imm]

\* Of the instructions only branches are looked at; imm is their place.
ResolveLabel(e) ==
    IF e.instruction.op \in BranchOps /\ IsKnownLabel(e.labelToReplace)
      THEN SetImm(e, labelTable[e.labelToReplace.name] - e.instruction.imm)
      ELSE e

ResolveVariable(e) ==
    IF e.labelToReplace.is = "variable"
      THEN SetImm(e, variableTable[e.labelToReplace.name])
      ELSE e

UpdateLabels ==
    /\ phase = "labels"
    /\ phase' = "variables"
    /\ prog' = [k \in DOMAIN prog |-> ResolveLabel(prog[k])]
    /\ UNCHANGED <<files, current, next, tables, data, instructionNumber, inData, items, words>>

UpdateVariables ==
    /\ phase = "variables"
    /\ phase' = "done"
    /\ prog' = [k \in DOMAIN prog |-> ResolveVariable(prog[k])]
    /\ UNCHANGED <<files, current, next, tables, data, instructionNumber, inData, items, words>>

(***************************************************************************)
(* The next call of parse.  After a failure the callers exit.              *)
(***************************************************************************)
NextFile ==
    /\ phase = "done"
    /\ current < Len(files)
    /\ current' = current + 1
    /\ next' = 1
    /\ phase' = "open"
    /\ prog' = << >> /\ data' = << >>
    /\ instructionNumber' = 0
    /\ inData' \in InDataAtStart
    /\ words' = NoWords
    /\ UNCHANGED <<files, tables, items>>

Stopped ==
    /\ \/ phase \in {"failed", "crashed"}
       \/ phase = "done" /\ current = Len(files)
    /\ UNCHANGED vars

ReadText == ReadLabel \/ ReadInstruction \/ RepeatLabel \/ RepeatInstruction \/ ReadUnknown
              \/ ReadOutOfRange
ReadData == ReadItems \/ PushNumber \/ PlaceVariable \/ DataFault

Next == Open \/ ReadNothing \/ ReadDataMark \/ ReadText \/ ReadData \/ EndOfFile
          \/ UpdateLabels \/ UpdateVariables \/ NextFile \/ Stopped

Spec == Init /\ [][Next]_vars
==============================================================================
