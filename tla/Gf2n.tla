-------------------------------- MODULE Gf2n --------------------------------
(***************************************************************************)
(* The binary field of LSC-1 (sim/lsc1_transaction.py, field_xtime,        *)
(* field_mul, field_encode).  The program fixes GF(2^128) with the         *)
(* reduction word 0x87; here the degree, the reduction polynomial and the  *)
(* index width are parameters.                                             *)
(*                                                                         *)
(* A field word is the set of the exponents whose coefficient is 1, so the *)
(* integer XOR of the code is symmetric difference and bit i of a word is  *)
(* "i \in word".                                                           *)
(***************************************************************************)
EXTENDS Integers

CONSTANTS FieldBits,      \* 128 in the code (MASK128)
          ReductionLow,   \* exponents of REDUCTION_LOW = 0x87
          IndexBits       \* INDEX_BITS, 16 in the code

ASSUME FieldAssumption ==
    /\ FieldBits \in Nat \ {0}
    /\ ReductionLow \subseteq 0..(FieldBits - 1)
    /\ IndexBits \in Nat \ {0}

Word == SUBSET (0..(FieldBits - 1))

Zero == {}
One  == {0}

INDEX_LIMIT == 2^IndexBits

Xor(left, right) == (left \ right) \cup (right \ left)

\* Multiply by the generator g = x.
field_xtime(value) ==
    LET doubled == {i + 1 : i \in value \ {FieldBits - 1}}
    IN  IF FieldBits - 1 \in value THEN Xor(doubled, ReductionLow) ELSE doubled

\* left * x^bit, the loop variable "term" of field_mul.
MulTerm(left) ==
    LET term[bit \in 0..FieldBits] ==
          IF bit = 0 THEN left ELSE field_xtime(term[bit - 1])
    IN  term

\* Shift-and-add product: the accumulator after the bits below "bit".
field_mul(left, right) ==
    LET term == MulTerm(left)
        accumulator[bit \in 0..FieldBits] ==
          IF bit = 0 THEN Zero
          ELSE IF bit - 1 \in right THEN Xor(accumulator[bit - 1], term[bit - 1])
          ELSE accumulator[bit - 1]
    IN  accumulator[FieldBits]

\* g^index by square-and-multiply from the top bit, for index < INDEX_LIMIT.
\* (The code raises INDEX_RANGE outside that range; callers carry that guard.)
field_encode(index) ==
    LET result[n \in 0..IndexBits] ==
          IF n = 0 THEN One
          ELSE LET square == field_mul(result[n - 1], result[n - 1])
               IN  IF (index \div 2^(IndexBits - n)) % 2 = 1
                   THEN field_xtime(square) ELSE square
    IN  result[IndexBits]
=============================================================================
