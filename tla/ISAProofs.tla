------------------------------ MODULE ISAProofs ------------------------------
(***************************************************************************)
(* Results of the instruction set are machine words, for every word size   *)
(* and every choice of the host's shifts and bitwise operators.            *)
(***************************************************************************)
EXTENDS ISA, TLAPS

(***************************************************************************)
(* Words.                                                                  *)
(***************************************************************************)
\* Wrapping any integer gives a word: results never leave int32_t.
LEMMA WrapIsWord == ASSUME NEW x \in Int PROVE Wrap(x) \in Word
<1>1. 2 * HalfRange \in Nat \ {0} /\ HalfRange \in Nat \ {0}
  BY WordAssumption
<1>2. \A a \in Int, n \in Nat \ {0} : a % n \in 0 .. (n - 1)
  BY SMT
<1>3. (x + HalfRange) % (2 * HalfRange) \in 0 .. (2 * HalfRange - 1)
  BY <1>1, <1>2
<1> QED
  BY <1>1, <1>3 DEF Wrap, Word

\* The arithmetic unit returns a word for every opcode.
LEMMA ALUIsWord ==
  ASSUME NEW op, NEW pc \in Word, NEW v1 \in Word, NEW v2 \in Word, NEW imm \in Word
  PROVE  ALU(op, pc, v1, v2, imm) \in Word
<1>1. Word \subseteq Int /\ 0 \in Word
  BY WordAssumption DEF Word
<1>2. \A x \in Int : Wrap(x) \in Word
  BY WrapIsWord
<1>3. \A o \in BitOps : BitOp(o, v1, v2) \in Word
  BY BitOpAssumption
<1>4. BitOp("OR", v1, imm) \in Word
  BY BitOpAssumption DEF BitOps
<1>5. /\ v1 + v2 \in Int /\ v1 - v2 \in Int /\ v1 + imm \in Int
      /\ pc + imm \in Int /\ pc + 1 \in Int
  BY <1>1
<1> QED
  BY <1>1, <1>2, <1>3, <1>4, <1>5 DEF ALU

LEMMA EffectiveAddressIsWord ==
  ASSUME NEW op, NEW v1 \in Word, NEW v2 \in Word, NEW imm \in Word
  PROVE  EffectiveAddress(op, v1, v2, imm) \in Word
<1>1. v1 + imm \in Int /\ v2 + imm \in Int
  BY WordAssumption DEF Word
<1> QED
  BY <1>1, WrapIsWord DEF EffectiveAddress

LEMMA SmallWords == {-1, 0} \subseteq Word /\ Word \subseteq Int
BY WordAssumption DEF Word
==============================================================================
