------------------------------- MODULE MCParser -------------------------------
(***************************************************************************)
(* Instances of the assembler for TLC.                                     *)
(***************************************************************************)
EXTENDS ParserProperties, MCPrograms

MCLabels == {"here", "there"}
MCVariables == {".x", ".y"}

(***************************************************************************)
(* Lines.                                                                  *)
(***************************************************************************)
Words(i, o)    == [kind |-> "instruction", instruction |-> i, operand |-> o, offset |-> FALSE]
AtOffset(i, o) == [kind |-> "instruction", instruction |-> i, operand |-> o, offset |-> TRUE]
LabelLine(n)   == [kind |-> "label", name |-> n]
Other(kind)    == [kind |-> kind]
ItemLine(seq)  == [kind |-> "items", items |-> seq]

branch == InstructionB("BEQ", "T0", "T1", 0)
addi   == InstructionI("ADDI", "T0", "ZERO", 0)
lw     == InstructionI("LW", "T1", "T0", 0)
sw     == InstructionS("SW", "T1", "T0", 0)

Common ==
    {LabelLine("here"), LabelLine("there"),
     Words(branch, Label("here")), Words(branch, Label("there")),
     Words(addi, Variable(".x")), AtOffset(lw, Number(3)),
     Words(double, Register), Words(InstructionHalt, Empty)}

Rare ==
    {Other("spaces"), Other("comment"), Other("unknown"), Words(InstructionNop, Empty),
     Words(branch, Number(2)), Words(addi, Label("here")), Words(sw, Variable(".y")),
     AtOffset(sw, Variable(".x")), AtOffset(lw, Label("here"))}

x == Variable(".x")
y == Variable(".y")
DataMark == Other(".data")

NoData == << >>
OneItem == <<DataMark, ItemLine(<<x, Number(1)>>)>>
Tails ==
    {NoData,
     OneItem,
     <<DataMark, ItemLine(<<Number(1), Number(2)>>), Other("comment"), ItemLine(<<x>>)>>,
     <<DataMark, ItemLine(<<y, Number(1)>>), DataMark, ItemLine(<<x, y>>)>>,
     <<DataMark, LabelLine("here"), ItemLine(<<x, Number(1)>>)>>,
     <<DataMark, Words(addi, x), Other("spaces")>>}

Files(n, lines, tails) == {text \o tail : text \in Sequences(n, lines), tail \in tails}

(***************************************************************************)
(* Sessions: one file with anything in it, and two that share a label and  *)
(* a variable.                                                             *)
(***************************************************************************)
Shared ==
    Files(2, {LabelLine("here"), Words(branch, Label("here")), Words(addi, x),
              Words(InstructionHalt, Empty)}, {NoData, OneItem})

ParserSessions ==
    {<<f>> : f \in Files(4, Common, {NoData, OneItem}) \cup Files(3, Common \cup Rare, Tails)}
      \cup {<<f, g>> : f, g \in Shared}

\* Lines of blanks anywhere.
SpacesSessions == {<<f>> : f \in Files(3, {Words(double, Register), Other("spaces")}, {NoData})}
==============================================================================
