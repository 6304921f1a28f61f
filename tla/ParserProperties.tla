--------------------------- MODULE ParserProperties ---------------------------
(***************************************************************************)
(* What the assembler keeps true, and what it makes of a file.             *)
(***************************************************************************)
EXTENDS Parser, FiniteSetsExt

(***************************************************************************)
(* The type invariant.                                                     *)
(***************************************************************************)
Entry == [instruction    : [op : Opcode, rd : Reg, rs1 : Reg, rs2 : Reg, imm : Int],
          labelToReplace : Text \ {Unset},
          rawText        : Line]

IsTable(table, names) ==
    /\ DOMAIN table \subseteq names
    /\ \A n \in DOMAIN table : table[n] \in Nat

\* Every variable stays in its type, and the counters within their ranges.
TypeOK ==
    /\ files \in Seq(Seq(Line))
    /\ current \in DOMAIN files
    /\ next \in 1 .. (Len(File) + 1)
    /\ phase \in {"open", "read", "labels", "variables", "done", "failed", "crashed"}
    /\ IsTable(labelTable, LabelName)
    /\ IsTable(variableTable, VariableName)
    /\ prog \in Seq(Entry)
    /\ data \in Seq(Word)
    /\ instructionNumber = Len(prog)
    /\ inData \in BOOLEAN
    /\ items \in Seq(Item)
    /\ words \in [line : InstructionLine \cup [kind : {"label"}, name : LabelName]
                            \cup {NoLine},
                  fourth : Text]

(***************************************************************************)
(* What the two passes rely on.                                            *)
(***************************************************************************)
IsBranch(e) == e.instruction.op \in BranchOps

\* A branch whose label is still to be looked up holds its own place where
\* its offset will be: the pass subtracts it, and has no other source for it.
UnresolvedHoldPlace ==
    phase \in {"open", "read", "labels"} =>
        \A k \in DOMAIN prog :
            IsBranch(prog[k]) /\ prog[k].labelToReplace.is = "label" =>
                prog[k].instruction.imm = k - 1

\* The second pass never dereferences end(): whatever text it finds on an
\* instruction, a left-over one included, was entered when it was first read.
VariablesAreKnown ==
    \A k \in DOMAIN prog :
        prog[k].labelToReplace.is = "variable" =>
            prog[k].labelToReplace.name \in DOMAIN variableTable

(***************************************************************************)
(* What a file means: the instructions above ".data" in their order, with  *)
(* branches relative to themselves and variables replaced by the place of  *)
(* their data below it.                                                    *)
(***************************************************************************)
TextLines(f) == {i \in DOMAIN f : \A j \in 1 .. i : f[j].kind # ".data"}
Instructions(f) == {i \in TextLines(f) : f[i].kind = "instruction"}
Labels(f) == {f[i].name : i \in {j \in TextLines(f) : f[j].kind = "label"}}

Place(f, i) == Cardinality({j \in Instructions(f) : j < i})

LabelPlace(f, n) ==
    Place(f, Min({i \in TextLines(f) : f[i].kind = "label" /\ f[i].name = n}))

\* The items of data, by line and position in the line.
DataItems(f) ==
    UNION {{<<i, j>> : j \in DOMAIN f[i].items} : i \in {k \in DOMAIN f : f[k].kind = "items"}}

ItemAt(f, p) == f[p[1]].items[p[2]]

Before(p, q) == p[1] < q[1] \/ (p[1] = q[1] /\ p[2] < q[2])

Numbers(f) == {p \in DataItems(f) : ItemAt(f, p).is = "number"}
Places(f, v) == {p \in DataItems(f) : ItemAt(f, p) = Variable(v)}

DataPlace(f, p) == Cardinality({q \in Numbers(f) : Before(q, p)})

LastPlace(f, v) == CHOOSE p \in Places(f, v) : \A q \in Places(f, v) : ~Before(p, q)

VariablePlace(f, v) == DataPlace(f, LastPlace(f, v))

\* The instruction on line i.
Meaning(f, i) ==
    LET l == f[i]
        o == l.operand
    IN  CASE o.is = "number"   -> [l.instruction EXCEPT !.imm = o.value]
          [] o.is = "label"    -> [l.instruction EXCEPT !.imm = LabelPlace(f, o.name) - Place(f, i)]
          [] o.is = "variable" -> [l.instruction EXCEPT !.imm = VariablePlace(f, o.name)]
          [] OTHER             -> l.instruction

(***************************************************************************)
(* The files that are given their meaning.  Each condition is needed.      *)
(***************************************************************************)
NoSpaces(f) == \A i \in TextLines(f) : f[i].kind # "spaces"

\* Only branches are given labels, and every label and variable is defined.
OperandsDefined(f) ==
    \A i \in Instructions(f) :
        LET o == f[i].operand
        IN  /\ o.is = "label" => f[i].instruction.op \in BranchOps /\ o.name \in Labels(f)
            /\ o.is = "variable" => ~f[i].offset /\ Places(f, o.name) # {}

\* The four-word line that is last read before one with offset(register) does
\* not name a variable.
OffsetsApart(f) ==
    \A i, j \in Instructions(f) :
        i < j /\ f[i].operand.is = "variable" /\ f[j].offset =>
            \E k \in Instructions(f) :
                i < k /\ k < j /\ ~f[k].offset /\ f[k].operand.is # "empty"

\* What is below ".data" is data.
OnlyItems(f) == \A i \in DOMAIN f \ TextLines(f) : f[i].kind \in {"items", ".data", "comment"}

Tidy(f) == NoSpaces(f) /\ OperandsDefined(f) /\ OffsetsApart(f) /\ OnlyItems(f)

\* None of this file's labels is left in the table from an earlier file.
LabelsAreNew == \A c \in 1 .. (current - 1) : Labels(files[c]) \cap Labels(File) = {}

\* Nothing is said of a file that gives no instructions: IN_DATA_SECTION may
\* have been set when it was opened.
TakenAsText == prog # << >>

\* parse gives a tidy file its meaning: branches backward and forward, labels
\* defined twice, variables used before, after or without others, and data.
AssembledAsWritten ==
    phase = "done" /\ Tidy(File) /\ LabelsAreNew /\ TakenAsText =>
        /\ Len(prog) = Cardinality(Instructions(File))
        /\ \A i \in Instructions(File) :
              prog[Place(File, i) + 1].instruction = Meaning(File, i)
        /\ Len(data) = Cardinality(Numbers(File))
        /\ \A p \in Numbers(File) : data[DataPlace(File, p) + 1] = ItemAt(File, p).value

\* A file that ends in HLT, writes PC only in branches and gives every branch
\* a label in front of an instruction is a program as the CPUs need it, if
\* its addresses are words.
Sound(f) ==
    /\ Instructions(f) # {}
    /\ Cardinality(Instructions(f)) < HalfRange /\ Cardinality(Numbers(f)) < HalfRange
    /\ f[Max(Instructions(f))].instruction.op = "HLT"
    /\ \A i \in Instructions(f) :
          LET l == f[i]
          IN  IF l.instruction.op \in BranchOps
                THEN l.operand.is = "label" /\ LabelPlace(f, l.operand.name)
                                                  < Cardinality(Instructions(f))
                ELSE l.instruction.rd # "PC"

Program == [k \in DOMAIN prog |-> prog[k].instruction]

FeedsTheCPU ==
    phase = "done" /\ Tidy(File) /\ Sound(File) /\ LabelsAreNew /\ TakenAsText =>
        /\ Program \in Seq(Instruction)
        /\ WellFormed(Program)

(***************************************************************************)
(* Promises of comments.                                                   *)
(***************************************************************************)
\* "If line is an insruction parse it here" (parser.cpp:176): no other line
\* makes an instruction.
LinesAreParsedOnce == \A k \in DOMAIN prog : prog[k].rawText.kind = "instruction"
==============================================================================
