------------------------------ MODULE CoreWords ------------------------------
(***************************************************************************)
(* What the instructions of merry_core.c compute: words of Bits bits, the  *)
(* masks and sign extensions of merry_core.h as C reads them, and the host *)
(* CPU's flags that arithmetic.S copies after a comparison.                *)
(*                                                                         *)
(* The code's 64-, 32-, 24- and 8-bit quantities keep their order and are  *)
(* scaled down: Words stands for 2^64, ImmWords for 2^32, SxWords for the  *)
(* 2^24 of the masks 0xFFFFFF and NarrowWords for 2^8 and 2^16.            *)
(***************************************************************************)
EXTENDS Integers

CONSTANTS Bits, Words, ImmWords, SxWords, NarrowWords

ASSUME WordsAssumption ==
    /\ Bits \in Nat \ {0}
    /\ Words = 2^Bits
    /\ {ImmWords, SxWords, NarrowWords} \subseteq {2^b : b \in 1..Bits}
    /\ NarrowWords <= SxWords /\ SxWords <= ImmWords /\ SxWords < Words

Values == 0..(Words - 1)
Imms == 0..(ImmWords - 1)

Word(x) == x % Words

\* A word as the set of its bits.
BitsOf(x) == {i \in 0..(Bits - 1) : (x \div 2^i) % 2 = 1}
OfBits(S) == CHOOSE x \in Values : BitsOf(x) = S

Logic(op, x, y) ==
    LET a == BitsOf(x)
        b == BitsOf(y)
    IN  OfBits(CASE op = "and" -> a \cap b
                 [] op = "or"  -> a \cup b
                 [] op = "xor" -> (a \cup b) \ (a \cap b))

LogicNot(x) == Words - 1 - x

\* Unsigned and, on mqword_t registers, "signed" arithmetic alike: the sum,
\* difference and product do not depend on the sign, and idiv and imod divide
\* the registers without the casts that iadd, isub and imul have.
Combine(op, x, y) ==
    CASE op = "add" -> Word(x + y)
      [] op = "sub" -> Word(x - y)
      [] op = "mul" -> Word(x * y)
      [] op = "div" -> x \div y
      [] op = "mod" -> x % y

\* _sign_extend32_: sets every bit from the 24th up, whatever the sign.
SignExtend32(x) == (x % SxWords) + (Words - SxWords)

\* The frame of iadd, isub and imul with an immediate: the macros have no
\* parentheses, so the operation comes before the mask and the extension.
CombineSignedImm(op, x, imm) ==
    IF op \in {"div", "mod"}
    THEN Combine(op, x, SignExtend32(imm))
    ELSE SignExtend32(Combine(op, x, imm))

\* merry_execute_movesx_*: 8 and 16 bits are extended from their top bit; of 32
\* bits 24 are kept, whose 31st is never set.
MoveSx(width, x) ==
    IF width = "32" THEN x % SxWords
    ELSE LET low == x % NarrowWords
         IN  IF low >= NarrowWords \div 2 THEN low + (Words - NarrowWords) ELSE low

\* MOV8, MOV16, MOV32 and the narrow exchanges: an "and" with the other's low bits.
AndLow(x, y, m) == Logic("and", x, (Words - m) + (y % m))

-----------------------------------------------------------------------------

Negative(x) == x >= Words \div 2
SignedValue(x) == IF Negative(x) THEN x - Words ELSE x

FlagNames == {"carry", "zero", "negative", "overflow"}

FlagOf(b) == IF b THEN "set" ELSE "clear"

\* Mutant: the second operand is compared with the first.
MutCompareFlagsSwapped(x, y) ==
    LET d == Word(y - x)
    IN  [carry    |-> FlagOf(y < x),
         zero     |-> FlagOf(y = x),
         negative |-> FlagOf(Negative(d)),
         overflow |-> FlagOf(Negative(y) # Negative(x) /\ Negative(d) # Negative(y))]

\* _cmp_inst_: the host's cmp.
CompareFlags(x, y) ==
    LET d == Word(x - y)
    IN  [carry    |-> FlagOf(x < y),
         zero     |-> FlagOf(x = y),
         negative |-> FlagOf(Negative(d)),
         overflow |-> FlagOf(Negative(x) # Negative(y) /\ Negative(d) # Negative(x))]

Order(x, y) == IF x < y THEN "less" ELSE IF x = y THEN "equal" ELSE "greater"

=============================================================================
