------------------------- MODULE ConformanceProofs --------------------------
(***************************************************************************)
(* The endpoint's arithmetic is the scalar oracle's, and what the host     *)
(* prepares, the endpoint decides and the host applies is the oracle's     *)
(* step, for every field, index width, memory and slot.                    *)
(***************************************************************************)
EXTENDS Conformance, Lsc1TransitionProofs

-----------------------------------------------------------------------------
(* The endpoint's encoding *)

\* Exponents add.
LEMMA PowersAdd ==
  ASSUME NEW j \in Nat, NEW k \in Nat
  PROVE  encode(j + k) = field_mul(encode(j), encode(k))
<1> DEFINE T == {i \in 0..j : encode(i + k) = field_mul(encode(i), encode(k))}
<1>0. encode(k) \in Word
  BY EncodePowers
<1>1. 0 \in T
  <2>1. 0 + k = k /\ encode(0) = One
    BY EncodePowers
  <2> QED
    BY <1>0, <2>1, MulOne
<1>2. ASSUME NEW i \in 1..j, i - 1 \in T PROVE i \in T
  <2>1. /\ i - 1 \in Nat /\ (i - 1) + 1 = i /\ i \in 0..j
        /\ (i - 1) + k \in Nat /\ ((i - 1) + k) + 1 = i + k
    OBVIOUS
  <2>2. encode(i - 1) \in Word /\ encode(i) = field_xtime(encode(i - 1))
    BY <2>1, EncodePowers
  <2>3. encode(i + k) = field_xtime(encode((i - 1) + k))
    BY <2>1, EncodePowers
  <2>4. field_mul(encode(i), encode(k)) = field_xtime(field_mul(encode(i - 1), encode(k)))
    BY <1>0, <2>2, XtimeMul
  <2> QED
    BY <1>2, <2>1, <2>3, <2>4
<1>3. 0..j \subseteq T
  <2> HIDE DEF T
  <2> QED
    BY <1>1, <1>2, IntervalInduction
<1> QED
  BY <1>3

\* The square-and-multiply loop of field_encode.
Squares(g, index) ==
    /\ g[0] = One
    /\ \A i \in 1..IndexBits :
          g[i] = IF (index \div 2^(IndexBits - i)) % 2 = 1
                 THEN field_xtime(field_mul(g[i - 1], g[i - 1]))
                 ELSE field_mul(g[i - 1], g[i - 1])
    /\ \A i \in 0..IndexBits : g[i] \in Word

\* The loop of field_encode().
LEMMA FieldEncodeLoop ==
  ASSUME NEW index
  PROVE  \E g : Squares(g, index) /\ field_encode(index) = g[IndexBits]
<1> DEFINE n == IndexBits
           Step(x, k) == IF (index \div 2^(IndexBits - k)) % 2 = 1
                         THEN field_xtime(field_mul(x, x)) ELSE field_mul(x, x)
           Eq(g) == g = [i \in 0..n |-> IF i = 0 THEN One
                      ELSE IF (index \div 2^(IndexBits - i)) % 2 = 1
                      THEN field_xtime(field_mul(g[i - 1], g[i - 1]))
                      ELSE field_mul(g[i - 1], g[i - 1])]
           F == [p \in Word \X (1..n) |-> Step(p[1], p[2])]
           result == CHOOSE g : Eq(g)
<1>0. n \in Nat /\ One \in Word
  BY FieldAssumption DEF One, Word
<1>1. ASSUME NEW x \in Word, NEW i \in 1..n PROVE Step(x, i) \in Word
  <2>1. field_mul(x, x) \in Word
    BY MulType
  <2>2. field_xtime(field_mul(x, x)) \in Word
    BY <2>1, XtimeType
  <2> QED
    BY <2>1, <2>2, Zenon
<1>2. F \in [Word \X (1..n) -> Word]
  <2> HIDE DEF Step, n
  <2> QED
    BY <1>1
<1>3. \E g : Eq(g)
  <2>1. PICK g \in [0..n -> Word] : Iterates(g, One, n, F)
    <3> HIDE DEF n, F
    <3> QED
      BY <1>0, <1>2, IterationExists
  <2>2. \A i \in 1..n : g[i - 1] \in Word /\ F[<<g[i - 1], i>>] = Step(g[i - 1], i)
    <3> HIDE DEF n, Step
    <3> QED
      BY <1>0
  <2>3. g = [i \in 0..n |-> IF i = 0 THEN One ELSE Step(g[i - 1], i)]
    <3> HIDE DEF n, F, Step
    <3> QED
      BY <2>1, <2>2 DEF Iterates
  <2> QED
    BY <2>3, Zenon
<1>4. result = [i \in 0..n |-> IF i = 0 THEN One ELSE Step(result[i - 1], i)]
  <2>1. Eq(result)
    <3> HIDE DEF Eq
    <3> QED
      BY <1>3, Zenon
  <2> QED
    BY <2>1, Zenon
<1>5. result[0] = One /\ \A i \in 1..n : result[i] = Step(result[i - 1], i)
  <2> HIDE DEF n, result, Step
  <2> QED
    BY <1>0, <1>4
<1>6. \A i \in 0..n : result[i] \in Word
  <2> HIDE DEF n, result, Step
  <2>1. \A i \in 1..n : result[i - 1] \in Word => result[i] \in Word
    BY <1>1, <1>5, Zenon
  <2> QED
    BY <1>0, <1>5, <2>1, IterationType, Zenon
<1>7. field_encode(index) = result[n]
  BY Zenon DEF field_encode
<1>8. Squares(result, index)
  <2> HIDE DEF result
  <2> QED
    BY <1>5, <1>6, Zenon DEF Squares
<1> QED
  BY <1>7, <1>8, Zenon

\* The binary digits of an index, from the top.
LEMMA Digits ==
  ASSUME NEW index \in Nat, NEW d \in Nat \ {0}
  PROVE  /\ index \div d \in Nat /\ index \div (2 * d) \in Nat
         /\ (index \div d) % 2 \in {0, 1}
         /\ index \div d = 2 * (index \div (2 * d)) + ((index \div d) % 2)
<1>1. index \div d = 2 * (index \div (2 * d)) + ((index \div d) % 2)
  OBVIOUS
<1> QED
  BY <1>1

\* Square-and-multiply computes the power (lsc1_transaction.py field_encode against
\* scalar_step_oracle.py encode).
LEMMA FieldEncodeIsEncode ==
  ASSUME NEW index \in 0..(INDEX_LIMIT - 1)
  PROVE  field_encode(index) = encode(index)
<1>0. /\ IndexBits \in Nat /\ index \in Nat
      /\ index < 2^IndexBits
  BY FieldAssumption, U32Assumption DEF INDEX_LIMIT
<1>1. PICK g : Squares(g, index) /\ field_encode(index) = g[IndexBits]
  BY FieldEncodeLoop
<1> DEFINE d(i) == 2^(IndexBits - i)
           q(i) == index \div d(i)
           T == {i \in 0..IndexBits : q(i) \in Nat /\ g[i] = encode(q(i))}
<1>2. 0 \in T
  <2>1. IndexBits - 0 = IndexBits
    BY <1>0
  <2>2. d(0) = INDEX_LIMIT
    BY <2>1, Zenon DEF INDEX_LIMIT
  <2>3. index \div INDEX_LIMIT = 0
    BY <1>0, U32Assumption
  <2>4. q(0) = 0
    BY <2>2, <2>3, Zenon
  <2>5. g[0] = encode(0)
    BY <1>1, EncodePowers DEF Squares
  <2>6. 0 \in 0..IndexBits /\ 0 \in Nat
    BY <1>0
  <2> HIDE DEF q
  <2> QED
    BY <2>4, <2>5, <2>6
<1>3. ASSUME NEW i \in 1..IndexBits, i - 1 \in T PROVE i \in T
  <2>1. /\ i \in 0..IndexBits /\ IndexBits - i \in 0..(IndexBits - 1)
        /\ (IndexBits - i) + 1 = IndexBits - (i - 1)
    BY <1>0
  <2>2. d(i) \in Nat \ {0} /\ d(i - 1) = 2 * d(i)
    <3>1. /\ 2^(IndexBits - i) \in Nat \ {0}
          /\ 2^((IndexBits - i) + 1) = 2 * 2^(IndexBits - i)
      BY <2>1, PowersOfTwo, Zenon
    <3> QED
      BY <2>1, <3>1, Zenon
  <2>3. /\ q(i) \in Nat /\ q(i - 1) \in Nat /\ q(i) % 2 \in {0, 1}
        /\ q(i) = 2 * q(i - 1) + (q(i) % 2)
    <3> HIDE DEF d
    <3> QED
      BY <1>0, <2>2, Digits, Zenon
  <2>4. g[i - 1] = encode(q(i - 1))
    <3> HIDE DEF q
    <3> QED
      BY <1>3
  <2>5. g[i] = IF q(i) % 2 = 1 THEN field_xtime(field_mul(g[i - 1], g[i - 1]))
               ELSE field_mul(g[i - 1], g[i - 1])
    BY <1>1, Zenon DEF Squares
  <2> HIDE DEF q, d
  <2>6. field_mul(g[i - 1], g[i - 1]) = encode(2 * q(i - 1))
    <3>1. q(i - 1) + q(i - 1) = 2 * q(i - 1)
      BY <2>3
    <3> QED
      BY <2>3, <2>4, <3>1, PowersAdd
  <2>7. 2 * q(i - 1) \in Nat
    BY <2>3
  <2>8. g[i] = encode(q(i))
    <3>1. CASE q(i) % 2 = 1
      <4>1. q(i) = 2 * q(i - 1) + 1
        BY <2>3, <3>1
      <4>2. encode(q(i)) = field_xtime(encode(2 * q(i - 1)))
        BY <2>7, <4>1, EncodePowers
      <4> QED
        BY <2>5, <2>6, <3>1, <4>2
    <3>2. CASE q(i) % 2 = 0
      <4>1. q(i) = 2 * q(i - 1)
        BY <2>3, <3>2
      <4> QED
        BY <2>5, <2>6, <3>2, <4>1
    <3> QED
      BY <2>3, <3>1, <3>2
  <2> QED
    BY <2>1, <2>3, <2>8
<1>4. 0..IndexBits \subseteq T
  <2> HIDE DEF T
  <2> QED
    BY <1>0, <1>2, <1>3, IntervalInduction
<1>5. q(IndexBits) = index
  <2>1. IndexBits - IndexBits = 0 /\ 2^0 = 1
    BY <1>0
  <2>2. d(IndexBits) = 1
    BY <2>1, Zenon
  <2>3. index \div 1 = index
    BY <1>0
  <2> QED
    BY <2>2, <2>3, Zenon
<1>6. IndexBits \in 0..IndexBits
  BY <1>0
<1>7. g[IndexBits] = encode(q(IndexBits))
  <2> HIDE DEF q
  <2> QED
    BY <1>4, <1>6
<1> QED
  BY <1>1, <1>5, <1>7, Zenon

\* The host's table holds the powers.
ForwardSteps(g) ==
    /\ g[0] = One
    /\ \A i \in 1..(INDEX_LIMIT - 1) : g[i] = field_xtime(g[i - 1])
    /\ \A i \in 0..(INDEX_LIMIT - 1) : g[i] \in Word

\* The loop that fills it.
LEMMA ForwardLoop ==
  ASSUME TRUE
  PROVE  \E g : ForwardSteps(g) /\ forward = g
<1> DEFINE n == (INDEX_LIMIT - 1)
           Step(x, k) == field_xtime(x)
           Eq(g) == g = [i \in 0..n |-> IF i = 0 THEN One ELSE field_xtime(g[i - 1])]
           F == [p \in Word \X (1..n) |-> Step(p[1], p[2])]
           result == CHOOSE g : Eq(g)
<1>0. n \in Nat /\ One \in Word
  BY U32Assumption, FieldAssumption DEF One, Word
<1>1. ASSUME NEW x \in Word, NEW i \in 1..n PROVE Step(x, i) \in Word
  BY XtimeType
<1>2. F \in [Word \X (1..n) -> Word]
  <2> HIDE DEF Step, n
  <2> QED
    BY <1>1
<1>3. \E g : Eq(g)
  <2>1. PICK g \in [0..n -> Word] : Iterates(g, One, n, F)
    <3> HIDE DEF n, F
    <3> QED
      BY <1>0, <1>2, IterationExists
  <2>2. \A i \in 1..n : g[i - 1] \in Word /\ F[<<g[i - 1], i>>] = Step(g[i - 1], i)
    <3> HIDE DEF n, Step
    <3> QED
      BY <1>0
  <2>3. g = [i \in 0..n |-> IF i = 0 THEN One ELSE Step(g[i - 1], i)]
    <3> HIDE DEF n, F, Step
    <3> QED
      BY <2>1, <2>2 DEF Iterates
  <2> QED
    BY <2>3, Zenon
<1>4. result = [i \in 0..n |-> IF i = 0 THEN One ELSE Step(result[i - 1], i)]
  <2>1. Eq(result)
    <3> HIDE DEF Eq
    <3> QED
      BY <1>3, Zenon
  <2> QED
    BY <2>1, Zenon
<1>5. result[0] = One /\ \A i \in 1..n : result[i] = Step(result[i - 1], i)
  <2> HIDE DEF n, result, Step
  <2> QED
    BY <1>0, <1>4
<1>6. \A i \in 0..n : result[i] \in Word
  <2> HIDE DEF n, result, Step
  <2>1. \A i \in 1..n : result[i - 1] \in Word => result[i] \in Word
    BY <1>1, <1>5, Zenon
  <2> QED
    BY <1>0, <1>5, <2>1, IterationType, Zenon
<1>7. forward = result
  BY Zenon DEF forward
<1>8. ForwardSteps(result)
  <2> HIDE DEF result
  <2> QED
    BY <1>5, <1>6, Zenon DEF ForwardSteps
<1> QED
  BY <1>7, <1>8, Zenon

LEMMA ForwardIsEncode ==
  \A index \in 0..(INDEX_LIMIT - 1) : forward[index] = encode(index)
<1>0. INDEX_LIMIT - 1 \in Nat
  BY U32Assumption
<1>1. ForwardSteps(forward)
  BY ForwardLoop, Zenon
<1>2. Powers(forward, INDEX_LIMIT - 1)
  <2>1. ASSUME NEW i \in 1..(INDEX_LIMIT - 1) PROVE forward[i] = xtime(forward[i - 1])
    <3>1. i - 1 \in 0..(INDEX_LIMIT - 1)
      BY <1>0
    <3> QED
      BY <1>1, <3>1, XtimeAgrees, Zenon DEF ForwardSteps
  <2> QED
    BY <1>1, <2>1, Zenon DEF ForwardSteps, Powers
<1> QED
  BY <1>0, <1>2, EncodePrefix

-----------------------------------------------------------------------------
(* Inverses *)

\* The two loops of field_inverse and the two of the oracle's inverse, one by one.
SquareTable(value) ==
    LET square[bit \in 0..FieldBits] ==
          IF bit = 0 THEN value ELSE field_mul(square[bit - 1], square[bit - 1])
    IN  square

InverseTable(square) ==
    LET result[bit \in 0..FieldBits] ==
          IF bit <= 1 THEN One ELSE field_mul(result[bit - 1], square[bit - 1])
    IN  result

BaseTable(value) ==
    LET base[bit \in 0..FieldBits] ==
          IF bit = 0 THEN value ELSE multiply(base[bit - 1], base[bit - 1])
    IN  base

PowerTable(base) ==
    LET result[bit \in 0..FieldBits] ==
          IF bit <= 1 THEN One ELSE multiply(result[bit - 1], base[bit - 1])
    IN  result

LEMMA InverseLoops ==
  ASSUME NEW value
  PROVE  /\ field_inverse(value) = InverseTable(SquareTable(value))[FieldBits]
         /\ value # Zero => inverse(value) = PowerTable(BaseTable(value))[FieldBits]
<1>1. field_inverse(value) = InverseTable(SquareTable(value))[FieldBits]
  BY Zenon DEF field_inverse, InverseTable, SquareTable
<1>2. value # Zero => inverse(value) = PowerTable(BaseTable(value))[FieldBits]
  BY Zenon DEF inverse, PowerTable, BaseTable
<1> QED
  BY <1>1, <1>2

\* g holds the squares of squares of value.
SquareSteps(g, value) ==
    /\ g[0] = value
    /\ \A i \in 1..FieldBits : g[i] = field_mul(g[i - 1], g[i - 1])
    /\ \A i \in 0..FieldBits : g[i] \in Word

\* g multiplies by every square but the first.
InverseSteps(g, square) ==
    /\ g[0] = One
    /\ \A i \in 1..FieldBits :
          g[i] = IF i <= 1 THEN One ELSE field_mul(g[i - 1], square[i - 1])
    /\ \A i \in 0..FieldBits : g[i] \in Word

\* The squares of field_inverse().
LEMMA SquareLoop ==
  ASSUME NEW value \in Word
  PROVE  \E g : SquareSteps(g, value) /\ SquareTable(value) = g
<1> DEFINE n == FieldBits
           Step(x, k) == field_mul(x, x)
           Eq(g) == g = [i \in 0..n |-> IF i = 0 THEN value ELSE field_mul(g[i - 1], g[i - 1])]
           F == [p \in Word \X (1..n) |-> Step(p[1], p[2])]
           result == CHOOSE g : Eq(g)
<1>0. n \in Nat /\ value \in Word
  BY FieldAssumption
<1>1. ASSUME NEW x \in Word, NEW i \in 1..n PROVE Step(x, i) \in Word
  BY MulType
<1>2. F \in [Word \X (1..n) -> Word]
  <2> HIDE DEF Step, n
  <2> QED
    BY <1>1
<1>3. \E g : Eq(g)
  <2>1. PICK g \in [0..n -> Word] : Iterates(g, value, n, F)
    <3> HIDE DEF n, F
    <3> QED
      BY <1>0, <1>2, IterationExists
  <2>2. \A i \in 1..n : g[i - 1] \in Word /\ F[<<g[i - 1], i>>] = Step(g[i - 1], i)
    <3> HIDE DEF n, Step
    <3> QED
      BY <1>0
  <2>3. g = [i \in 0..n |-> IF i = 0 THEN value ELSE Step(g[i - 1], i)]
    <3> HIDE DEF n, F, Step
    <3> QED
      BY <2>1, <2>2 DEF Iterates
  <2> QED
    BY <2>3, Zenon
<1>4. result = [i \in 0..n |-> IF i = 0 THEN value ELSE Step(result[i - 1], i)]
  <2>1. Eq(result)
    <3> HIDE DEF Eq
    <3> QED
      BY <1>3, Zenon
  <2> QED
    BY <2>1, Zenon
<1>5. result[0] = value /\ \A i \in 1..n : result[i] = Step(result[i - 1], i)
  <2> HIDE DEF n, result, Step
  <2> QED
    BY <1>0, <1>4
<1>6. \A i \in 0..n : result[i] \in Word
  <2> HIDE DEF n, result, Step
  <2>1. \A i \in 1..n : result[i - 1] \in Word => result[i] \in Word
    BY <1>1, <1>5, Zenon
  <2> QED
    BY <1>0, <1>5, <2>1, IterationType, Zenon
<1>7. SquareTable(value) = result
  BY Zenon DEF SquareTable
<1>8. SquareSteps(result, value)
  <2> HIDE DEF result
  <2> QED
    BY <1>5, <1>6, Zenon DEF SquareSteps
<1> QED
  BY <1>7, <1>8, Zenon

\* The squares of the oracle's inverse().
LEMMA BaseLoop ==
  ASSUME NEW value \in Word
  PROVE  \E g : SquareSteps(g, value) /\ BaseTable(value) = g
<1> DEFINE n == FieldBits
           Step(x, k) == multiply(x, x)
           Eq(g) == g = [i \in 0..n |-> IF i = 0 THEN value ELSE multiply(g[i - 1], g[i - 1])]
           F == [p \in Word \X (1..n) |-> Step(p[1], p[2])]
           result == CHOOSE g : Eq(g)
<1>0. n \in Nat /\ value \in Word
  BY FieldAssumption
<1>1. ASSUME NEW x \in Word, NEW i \in 1..n PROVE Step(x, i) \in Word
  BY OracleMultipliesAlike, MulType
<1>2. F \in [Word \X (1..n) -> Word]
  <2> HIDE DEF Step, n
  <2> QED
    BY <1>1
<1>3. \E g : Eq(g)
  <2>1. PICK g \in [0..n -> Word] : Iterates(g, value, n, F)
    <3> HIDE DEF n, F
    <3> QED
      BY <1>0, <1>2, IterationExists
  <2>2. \A i \in 1..n : g[i - 1] \in Word /\ F[<<g[i - 1], i>>] = Step(g[i - 1], i)
    <3> HIDE DEF n, Step
    <3> QED
      BY <1>0
  <2>3. g = [i \in 0..n |-> IF i = 0 THEN value ELSE Step(g[i - 1], i)]
    <3> HIDE DEF n, F, Step
    <3> QED
      BY <2>1, <2>2 DEF Iterates
  <2> QED
    BY <2>3, Zenon
<1>4. result = [i \in 0..n |-> IF i = 0 THEN value ELSE Step(result[i - 1], i)]
  <2>1. Eq(result)
    <3> HIDE DEF Eq
    <3> QED
      BY <1>3, Zenon
  <2> QED
    BY <2>1, Zenon
<1>5. result[0] = value /\ \A i \in 1..n : result[i] = Step(result[i - 1], i)
  <2> HIDE DEF n, result, Step
  <2> QED
    BY <1>0, <1>4
<1>6. \A i \in 0..n : result[i] \in Word
  <2> HIDE DEF n, result, Step
  <2>1. \A i \in 1..n : result[i - 1] \in Word => result[i] \in Word
    BY <1>1, <1>5, Zenon
  <2> QED
    BY <1>0, <1>5, <2>1, IterationType, Zenon
<1>7. BaseTable(value) = result
  BY Zenon DEF BaseTable
<1>8. \A i \in 1..n : result[i] = field_mul(result[i - 1], result[i - 1])
  <2>1. ASSUME NEW i \in 1..n PROVE i - 1 \in 0..n
    <3> HIDE DEF result
    <3> QED
      BY <1>0
  <2> HIDE DEF result
  <2> QED
    BY <1>5, <1>6, <2>1, OracleMultipliesAlike, Zenon
<1>9. SquareSteps(result, value)
  <2> HIDE DEF result
  <2> QED
    BY <1>5, <1>6, <1>8, Zenon DEF SquareSteps
<1> QED
  BY <1>7, <1>9, Zenon

\* The product of field_inverse().
LEMMA ResultLoop ==
  ASSUME NEW base, \A i \in 0..FieldBits : base[i] \in Word
  PROVE  \E g : InverseSteps(g, base) /\ InverseTable(base) = g
<1> DEFINE n == FieldBits
           Step(x, k) == IF k <= 1 THEN One ELSE field_mul(x, base[k - 1])
           Eq(g) == g = [i \in 0..n |-> IF i <= 1 THEN One ELSE field_mul(g[i - 1], base[i - 1])]
           F == [p \in Word \X (1..n) |-> Step(p[1], p[2])]
           result == CHOOSE g : Eq(g)
<1>0. n \in Nat /\ One \in Word
  BY FieldAssumption DEF One, Word
<1>1. ASSUME NEW x \in Word, NEW i \in 1..n PROVE Step(x, i) \in Word
  <2>1. One \in Word /\ base[i - 1] \in Word
    BY <1>0
  <2> QED
    BY <2>1, MulType
<1>2. F \in [Word \X (1..n) -> Word]
  <2> HIDE DEF Step, n
  <2> QED
    BY <1>1
<1>3. \E g : Eq(g)
  <2>1. PICK g \in [0..n -> Word] : Iterates(g, One, n, F)
    <3> HIDE DEF n, F
    <3> QED
      BY <1>0, <1>2, IterationExists
  <2>2. \A i \in 1..n : g[i - 1] \in Word /\ F[<<g[i - 1], i>>] = Step(g[i - 1], i)
    <3> HIDE DEF n, Step
    <3> QED
      BY <1>0
  <2>3. g = [i \in 0..n |-> IF i = 0 THEN One ELSE Step(g[i - 1], i)]
    <3> HIDE DEF n, F, Step
    <3> QED
      BY <2>1, <2>2 DEF Iterates
  <2> QED
    BY <1>0, <2>3, SMT
<1>4. result = [i \in 0..n |-> IF i = 0 THEN One ELSE Step(result[i - 1], i)]
  <2>1. Eq(result)
    <3> HIDE DEF Eq
    <3> QED
      BY <1>3, Zenon
  <2> QED
    <3>1. result = [i \in 0..n |-> IF i <= 1 THEN One ELSE field_mul(result[i - 1], base[i - 1])]
      BY <2>1, Zenon
    <3>2. ASSUME NEW i \in 0..n
          PROVE  (IF i <= 1 THEN One ELSE field_mul(result[i - 1], base[i - 1]))
                   = IF i = 0 THEN One ELSE Step(result[i - 1], i)
      <4> HIDE DEF result
      <4> QED
        BY <1>0
    <3> HIDE DEF result, Step, n
    <3> QED
      BY <3>1, <3>2
<1>5. result[0] = One /\ \A i \in 1..n : result[i] = Step(result[i - 1], i)
  <2> HIDE DEF n, result, Step
  <2> QED
    BY <1>0, <1>4
<1>6. \A i \in 0..n : result[i] \in Word
  <2> HIDE DEF n, result, Step
  <2>1. \A i \in 1..n : result[i - 1] \in Word => result[i] \in Word
    BY <1>1, <1>5, Zenon
  <2> QED
    BY <1>0, <1>5, <2>1, IterationType, Zenon
<1>7. InverseTable(base) = result
  BY Zenon DEF InverseTable
<1>8. InverseSteps(result, base)
  <2> HIDE DEF result
  <2> QED
    BY <1>5, <1>6, Zenon DEF InverseSteps
<1> QED
  BY <1>7, <1>8, Zenon

\* The product of the oracle's inverse().
LEMMA OracleResultLoop ==
  ASSUME NEW base, \A i \in 0..FieldBits : base[i] \in Word
  PROVE  \E g : InverseSteps(g, base) /\ PowerTable(base) = g
<1> DEFINE n == FieldBits
           Step(x, k) == IF k <= 1 THEN One ELSE multiply(x, base[k - 1])
           Eq(g) == g = [i \in 0..n |-> IF i <= 1 THEN One ELSE multiply(g[i - 1], base[i - 1])]
           F == [p \in Word \X (1..n) |-> Step(p[1], p[2])]
           result == CHOOSE g : Eq(g)
<1>0. n \in Nat /\ One \in Word
  BY FieldAssumption DEF One, Word
<1>1. ASSUME NEW x \in Word, NEW i \in 1..n PROVE Step(x, i) \in Word
  <2>1. One \in Word /\ base[i - 1] \in Word
    BY <1>0
  <2> QED
    BY <2>1, MulType, OracleMultipliesAlike
<1>2. F \in [Word \X (1..n) -> Word]
  <2> HIDE DEF Step, n
  <2> QED
    BY <1>1
<1>3. \E g : Eq(g)
  <2>1. PICK g \in [0..n -> Word] : Iterates(g, One, n, F)
    <3> HIDE DEF n, F
    <3> QED
      BY <1>0, <1>2, IterationExists
  <2>2. \A i \in 1..n : g[i - 1] \in Word /\ F[<<g[i - 1], i>>] = Step(g[i - 1], i)
    <3> HIDE DEF n, Step
    <3> QED
      BY <1>0
  <2>3. g = [i \in 0..n |-> IF i = 0 THEN One ELSE Step(g[i - 1], i)]
    <3> HIDE DEF n, F, Step
    <3> QED
      BY <2>1, <2>2 DEF Iterates
  <2> QED
    BY <1>0, <2>3, SMT
<1>4. result = [i \in 0..n |-> IF i = 0 THEN One ELSE Step(result[i - 1], i)]
  <2>1. Eq(result)
    <3> HIDE DEF Eq
    <3> QED
      BY <1>3, Zenon
  <2> QED
    <3>1. result = [i \in 0..n |-> IF i <= 1 THEN One ELSE multiply(result[i - 1], base[i - 1])]
      BY <2>1, Zenon
    <3>2. ASSUME NEW i \in 0..n
          PROVE  (IF i <= 1 THEN One ELSE multiply(result[i - 1], base[i - 1]))
                   = IF i = 0 THEN One ELSE Step(result[i - 1], i)
      <4> HIDE DEF result
      <4> QED
        BY <1>0
    <3> HIDE DEF result, Step, n
    <3> QED
      BY <3>1, <3>2
<1>5. result[0] = One /\ \A i \in 1..n : result[i] = Step(result[i - 1], i)
  <2> HIDE DEF n, result, Step
  <2> QED
    BY <1>0, <1>4
<1>6. \A i \in 0..n : result[i] \in Word
  <2> HIDE DEF n, result, Step
  <2>1. \A i \in 1..n : result[i - 1] \in Word => result[i] \in Word
    BY <1>1, <1>5, Zenon
  <2> QED
    BY <1>0, <1>5, <2>1, IterationType, Zenon
<1>7. PowerTable(base) = result
  BY Zenon DEF PowerTable
<1>8. \A i \in 1..n : result[i] = IF i <= 1 THEN One
                                 ELSE field_mul(result[i - 1], base[i - 1])
  <2>1. ASSUME NEW i \in 1..n PROVE i - 1 \in 0..n
    <3> HIDE DEF result
    <3> QED
      BY <1>0
  <2> HIDE DEF result
  <2> QED
    BY <1>5, <1>6, <2>1, OracleMultipliesAlike, Zenon
<1>9. InverseSteps(result, base)
  <2> HIDE DEF result
  <2> QED
    BY <1>5, <1>6, <1>8, Zenon DEF InverseSteps
<1> QED
  BY <1>7, <1>9, Zenon

\* The host and the oracle compute the same power.
LEMMA InversesAgree ==
  ASSUME NEW value \in Word, value # Zero
  PROVE  inverse(value) = field_inverse(value) /\ field_inverse(value) \in Word
<1>0. FieldBits \in Nat /\ FieldBits \in 0..FieldBits
  BY FieldAssumption
<1>1. PICK f : SquareSteps(f, value) /\ SquareTable(value) = f
  BY SquareLoop
<1>2. PICK g : SquareSteps(g, value) /\ BaseTable(value) = g
  BY BaseLoop
<1>3. \A i \in 0..FieldBits : f[i] \in Word /\ g[i] \in Word
  BY <1>1, <1>2 DEF SquareSteps
<1>4. PICK h : InverseSteps(h, f) /\ InverseTable(f) = h
  BY <1>3, ResultLoop, Zenon
<1>5. PICK k : InverseSteps(k, g) /\ PowerTable(g) = k
  BY <1>3, OracleResultLoop, Zenon
<1> DEFINE T == {i \in 0..FieldBits : f[i] = g[i] /\ h[i] = k[i]}
<1>6. 0 \in T
  <2>1. 0 \in 0..FieldBits
    BY <1>0
  <2> QED
    BY <1>1, <1>2, <1>4, <1>5, <2>1 DEF SquareSteps, InverseSteps
<1>7. ASSUME NEW i \in 1..FieldBits, i - 1 \in T PROVE i \in T
  <2>1. i \in 0..FieldBits /\ f[i - 1] = g[i - 1] /\ h[i - 1] = k[i - 1]
    BY <1>0, <1>7
  <2>2. f[i] = field_mul(f[i - 1], f[i - 1]) /\ g[i] = field_mul(g[i - 1], g[i - 1])
    BY <1>1, <1>2, Zenon DEF SquareSteps
  <2>3. /\ h[i] = IF i <= 1 THEN One ELSE field_mul(h[i - 1], f[i - 1])
        /\ k[i] = IF i <= 1 THEN One ELSE field_mul(k[i - 1], g[i - 1])
    BY <1>4, <1>5, Zenon DEF InverseSteps
  <2> QED
    BY <2>1, <2>2, <2>3
<1>8. 0..FieldBits \subseteq T
  <2> HIDE DEF T
  <2> QED
    BY <1>0, <1>6, <1>7, IntervalInduction
<1>9. h[FieldBits] = k[FieldBits] /\ h[FieldBits] \in Word
  BY <1>0, <1>4, <1>8 DEF InverseSteps
<1> QED
  BY <1>1, <1>2, <1>4, <1>5, <1>9, InverseLoops

\* The proposed witness inverts.
LEMMA InverseInverts ==
  ASSUME NEW value \in Word, value # Zero
  PROVE  field_mul(value, field_inverse(value)) = One
  BY FieldIsAField

-----------------------------------------------------------------------------
(* Pointers *)

\* No power of x is zero.
LEMMA PowersAreNotZero ==
  \A i \in Nat : encode(i) # Zero
<1>0. One # Zero /\ Zero \in Word /\ FieldBits \in Nat \ {0}
  BY FieldAssumption DEF One, Zero, Word
<1>1. ASSUME NEW value \in Word, value # Zero PROVE field_xtime(value) # Zero
  <2> DEFINE doubled == {i + 1 : i \in value \ {FieldBits - 1}}
  <2>1. CASE FieldBits - 1 \in value
    <3>1. 0 \notin doubled
      BY <1>0 DEF Word
    <3>2. field_xtime(value) = Xor(doubled, ReductionLow)
      BY <2>1, Zenon DEF field_xtime
    <3> HIDE DEF doubled
    <3>3. 0 \in Xor(doubled, ReductionLow)
      BY <3>1, FieldIsAField DEF Xor
    <3> QED
      BY <3>2, <3>3 DEF Zero
  <2>2. CASE FieldBits - 1 \notin value
    <3>1. field_xtime(value) = doubled
      BY <2>2, Zenon DEF field_xtime
    <3>2. PICK i \in value : TRUE
      BY <1>1 DEF Zero
    <3>3. i + 1 \in doubled
      BY <2>2, <3>2
    <3> HIDE DEF doubled
    <3> QED
      BY <3>1, <3>3 DEF Zero
  <2> QED
    BY <2>1, <2>2
<1> SUFFICES ASSUME NEW n \in Nat PROVE encode(n) # Zero
  OBVIOUS
<1> DEFINE T == {i \in 0..n : encode(i) # Zero}
<1>2. 0 \in T
  BY <1>0, EncodePowers
<1>3. ASSUME NEW i \in 1..n, i - 1 \in T PROVE i \in T
  <2>1. i - 1 \in Nat /\ (i - 1) + 1 = i /\ i \in 0..n
    OBVIOUS
  <2>2. encode(i - 1) \in Word /\ encode(i) = field_xtime(encode(i - 1))
    BY <2>1, EncodePowers
  <2> QED
    BY <1>1, <1>3, <2>1, <2>2
<1>4. 0..n \subseteq T
  <2> HIDE DEF T
  <2> QED
    BY <1>2, <1>3, IntervalInduction
<1> QED
  BY <1>4

\* The host's reverse table (host/memory.py, PointerMap) and the oracle's linear search
\* (invalid_g_power, reverse) know the same pointers and name the same index for each,
\* the endpoint's square and multiply (field_encode) leads back from it, and an absent
\* cell, which reads as zero, is no pointer.
THEOREM PointersAgree ==
  ASSUME NEW value
  PROVE  /\ IsPointer(value) <=> Preimages(value) # {}
         /\ IsPointer(value) =>
              /\ value # Zero
              /\ index_of(value) = reverse(value)
              /\ index_of(value) \in 0..(INDEX_LIMIT - 1)
              /\ encode(index_of(value)) = value
              /\ field_encode(index_of(value)) = value
<1>0. INDEX_LIMIT - 1 \in Nat
  BY U32Assumption
<1>1. IsPointer(value) <=> Preimages(value) # {}
  BY ForwardIsEncode DEF IsPointer, Preimages
<1>2. ASSUME IsPointer(value)
      PROVE  /\ value # Zero
             /\ index_of(value) = reverse(value)
             /\ index_of(value) \in 0..(INDEX_LIMIT - 1)
             /\ encode(index_of(value)) = value
             /\ field_encode(index_of(value)) = value
  <2> DEFINE P == Preimages(value)
             First(i) == /\ i \in 0..(INDEX_LIMIT - 1)
                         /\ forward[i] = value
                         /\ \A lower \in 0..(i - 1) : forward[lower] # value
             Least(i) == i \in P /\ \A j \in P : i <= j
  <2>1. \A i : i \in P <=> i \in 0..(INDEX_LIMIT - 1) /\ forward[i] = value
    BY ForwardIsEncode DEF Preimages
  <2>2. P \in SUBSET Nat /\ P # {}
    BY <1>0, <1>1, <1>2 DEF Preimages
  <2>3. PICK m \in P : \A j \in P : m <= j
    <3> HIDE DEF P
    <3> QED
      BY <2>2, LeastNatural
  <2> HIDE DEF P
  <2>4. \A i : First(i) <=> i = m
    <3>1. m \in 0..(INDEX_LIMIT - 1) /\ forward[m] = value
      BY <2>1, <2>3
    <3>2. ASSUME NEW lower \in 0..(m - 1), forward[lower] = value PROVE FALSE
      <4>1. lower \in 0..(INDEX_LIMIT - 1) /\ lower < m
        BY <1>0, <3>1
      <4> QED
        BY <2>1, <2>3, <3>2, <4>1
    <3>3. ASSUME NEW i, First(i) PROVE i = m
      <4>1. i \in P /\ i \in Nat /\ m <= i
        BY <1>0, <2>1, <2>3, <3>3
      <4>2. m \notin 0..(i - 1)
        BY <3>1, <3>3
      <4> QED
        BY <1>0, <3>1, <4>1, <4>2
    <3> QED
      BY <3>1, <3>2, <3>3
  <2>5. \A i : Least(i) <=> i = m
    <3>1. ASSUME NEW i, Least(i) PROVE i = m
      <4>1. i <= m /\ m <= i /\ i \in Nat /\ m \in Nat
        BY <2>2, <2>3, <3>1
      <4> QED
        BY <4>1
    <3> QED
      BY <2>3, <3>1
  <2>6. index_of(value) = m
    <3>1. index_of(value) = CHOOSE i \in 0..(INDEX_LIMIT - 1) :
             forward[i] = value /\ \A lower \in 0..(i - 1) : forward[lower] # value
      BY Zenon DEF index_of
    <3>2. m \in 0..(INDEX_LIMIT - 1) /\ forward[m] = value
          /\ \A lower \in 0..(m - 1) : forward[lower] # value
      BY <2>4
    <3>3. First(index_of(value))
      BY <3>1, <3>2, Zenon
    <3> QED
      BY <2>4, <3>3, Zenon
  <2>7. reverse(value) = m
    <3>1. reverse(value) = CHOOSE i \in P : \A j \in P : i <= j
      BY Zenon DEF reverse, P
    <3>2. Least(reverse(value))
      BY <2>3, <3>1, Zenon
    <3> QED
      BY <2>5, <3>2, Zenon
  <2>8. m \in 0..(INDEX_LIMIT - 1) /\ m \in Nat /\ forward[m] = value
    BY <1>0, <2>1, <2>3
  <2>9. encode(m) = value /\ field_encode(m) = value
    BY <2>8, ForwardIsEncode, FieldEncodeIsEncode
  <2> QED
    BY <2>6, <2>7, <2>8, <2>9, PowersAreNotZero
<1> QED
  BY <1>1, <1>2

-----------------------------------------------------------------------------
(* Cells and writes *)

\* A transition given the cells of the memory sees the memory.
LEMMA PackedFrame ==
  ASSUME NEW mem, NEW addresses
  PROVE  /\ ~AliasInconsistent(addresses, CellsAt(mem, addresses))
         /\ \A i \in DOMAIN addresses :
               /\ CellsAt(mem, addresses)[i] = mem[addresses[i]]
               /\ Frame(addresses, CellsAt(mem, addresses))[addresses[i]] = mem[addresses[i]]
<1> DEFINE cells == CellsAt(mem, addresses)
           at(address) == CHOOSE i \in DOMAIN addresses : addresses[i] = address
<1>1. \A i \in DOMAIN addresses : cells[i] = mem[addresses[i]]
  BY Zenon DEF CellsAt
<1> HIDE DEF cells
<1>2. ASSUME NEW i \in DOMAIN addresses
      PROVE  at(addresses[i]) \in DOMAIN addresses /\ addresses[at(addresses[i])] = addresses[i]
  BY Zenon
<1>3. ASSUME NEW i \in DOMAIN addresses
      PROVE  Frame(addresses, cells)[addresses[i]] = cells[at(addresses[i])]
  BY Zenon DEF Frame
<1>5. ~AliasInconsistent(addresses, cells)
  BY <1>1, Zenon DEF AliasInconsistent
<1> HIDE DEF at
<1>6. ASSUME NEW i \in DOMAIN addresses
      PROVE  Frame(addresses, cells)[addresses[i]] = mem[addresses[i]]
  <2>1. PICK k \in DOMAIN addresses : k = at(addresses[i])
    BY <1>2, Zenon
  <2>2. cells[k] = mem[addresses[k]] /\ addresses[k] = addresses[i]
    BY <1>1, <1>2, <2>1, Zenon
  <2> QED
    BY <1>3, <2>1, <2>2, Zenon
<1> QED
  BY <1>1, <1>5, <1>6, Zenon DEF cells

LEMMA FrameDomain ==
  ASSUME NEW cells, NEW addresses, NEW i \in DOMAIN addresses
  PROVE  addresses[i] \in DOMAIN Frame(addresses, cells)
  BY Zenon DEF Frame

LEMMA FrameAt ==
  ASSUME NEW mem, NEW addresses, NEW i \in DOMAIN addresses
  PROVE  /\ CellsAt(mem, addresses)[i] = mem[addresses[i]]
         /\ Frame(addresses, CellsAt(mem, addresses))[addresses[i]] = mem[addresses[i]]
<1>1. \A k \in DOMAIN addresses :
         /\ CellsAt(mem, addresses)[k] = mem[addresses[k]]
         /\ Frame(addresses, CellsAt(mem, addresses))[addresses[k]] = mem[addresses[k]]
  BY PackedFrame
<1> QED
  BY <1>1, Zenon

\* Reading a cell of a transition is reading the word.
LEMMA ReadsTheWord ==
  ASSUME NEW frame, NEW address, frame[address] \in Cell
  PROVE  Read(frame, address) = frame[address].value
<1>1. ~frame[address].present => frame[address].value = Zero
  BY CellType DEF ABSENT
<1> QED
  BY <1>1, Zenon DEF Read

\* One write of apply_writes.
Applying(before, write) ==
    IF before.ok /\ MayWrite(before.cells, write.address, write.value)
    THEN [before EXCEPT !.cells[write.address] = Present(write.value)]
    ELSE [before EXCEPT !.ok = FALSE]

\* Every write so far was accepted.
Accepted(cells) == [ok |-> TRUE, cells |-> cells]

ApplySteps(g, cells, writes) ==
    /\ g[0] = Accepted(cells)
    /\ \A i \in 1..Len(writes) : g[i] = Applying(g[i - 1], writes[i])

AnApplied == [ok : BOOLEAN, cells : Memory]

\* The loop of apply_write() over a batch.
LEMMA ApplyLoop ==
  ASSUME NEW cells \in Memory, NEW writes \in Seq(Write)
  PROVE  \E g : ApplySteps(g, cells, writes) /\ apply_writes(cells, writes) = g[Len(writes)]
<1> DEFINE n == Len(writes)
           Step(x, k) == IF x.ok /\ MayWrite(x.cells, writes[k].address, writes[k].value)
                         THEN [x EXCEPT !.cells[writes[k].address] = Present(writes[k].value)]
                         ELSE [x EXCEPT !.ok = FALSE]
           Eq(g) == g = [i \in 0..n |-> IF i = 0 THEN Accepted(cells)
                      ELSE IF g[i - 1].ok /\ MayWrite(g[i - 1].cells, writes[i].address, writes[i].value)
                      THEN [g[i - 1] EXCEPT !.cells[writes[i].address] = Present(writes[i].value)]
                      ELSE [g[i - 1] EXCEPT !.ok = FALSE]]
           F == [p \in AnApplied \X (1..n) |-> Step(p[1], p[2])]
           result == CHOOSE g : Eq(g)
<1>0. n \in Nat /\ Accepted(cells) \in AnApplied
  BY DEF AnApplied, Accepted
<1>1. ASSUME NEW x \in AnApplied, NEW i \in 1..n PROVE Step(x, i) \in AnApplied
  <2>1. writes[i] \in Write
    OBVIOUS
  <2>2. writes[i].address \in Address /\ Present(writes[i].value) \in Cell
    BY <2>1, PresentType DEF Write
  <2>3. [x.cells EXCEPT ![writes[i].address] = Present(writes[i].value)] \in Memory
    BY <2>2 DEF AnApplied, Memory
  <2>4. [x EXCEPT !.cells[writes[i].address] = Present(writes[i].value)] \in AnApplied
    BY <2>3 DEF AnApplied
  <2>5. [x EXCEPT !.ok = FALSE] \in AnApplied
    BY DEF AnApplied
  <2> QED
    BY <2>4, <2>5, Zenon
<1>2. F \in [AnApplied \X (1..n) -> AnApplied]
  <2> HIDE DEF Step, n
  <2> QED
    BY <1>1
<1>3. \E g : Eq(g)
  <2>1. PICK g \in [0..n -> AnApplied] : Iterates(g, Accepted(cells), n, F)
    <3> HIDE DEF n, F
    <3> QED
      BY <1>0, <1>2, IterationExists
  <2>2. \A i \in 1..n : g[i - 1] \in AnApplied /\ F[<<g[i - 1], i>>] = Step(g[i - 1], i)
    <3> HIDE DEF n, Step
    <3> QED
      BY <1>0
  <2>3. g = [i \in 0..n |-> IF i = 0 THEN Accepted(cells) ELSE Step(g[i - 1], i)]
    <3> HIDE DEF n, F, Step
    <3> QED
      BY <2>1, <2>2 DEF Iterates
  <2> QED
    BY <2>3, Zenon
<1>4. result = [i \in 0..n |-> IF i = 0 THEN Accepted(cells) ELSE Step(result[i - 1], i)]
  <2>1. Eq(result)
    <3> HIDE DEF Eq
    <3> QED
      BY <1>3, Zenon
  <2> QED
    BY <2>1, Zenon
<1>5. result[0] = Accepted(cells) /\ \A i \in 1..n : result[i] = Step(result[i - 1], i)
  <2> HIDE DEF n, result, Step
  <2> QED
    BY <1>0, <1>4
<1>6. \A i \in 0..n : result[i] \in AnApplied
  <2> HIDE DEF n, result, Step
  <2>1. \A i \in 1..n : result[i - 1] \in AnApplied => result[i] \in AnApplied
    BY <1>1, <1>5, Zenon
  <2> QED
    BY <1>0, <1>5, <2>1, IterationType, Zenon
<1>7. apply_writes(cells, writes) = result[n]
  BY Zenon DEF apply_writes, Accepted
<1>8. ApplySteps(result, cells, writes)
  <2> HIDE DEF result
  <2> QED
    BY <1>5, <1>6, Zenon DEF ApplySteps, Applying
<1> QED
  BY <1>7, <1>8, Zenon

\* Nothing written changes nothing.
LEMMA ApplyNone ==
  ASSUME NEW cells \in Memory
  PROVE  apply_writes(cells, <<>>) = Accepted(cells)
<1>1. <<>> \in Seq(Write) /\ Len(<<>>) = 0
  OBVIOUS
<1>2. PICK g : ApplySteps(g, cells, <<>>) /\ apply_writes(cells, <<>>) = g[Len(<<>>)]
  BY <1>1, ApplyLoop, Zenon
<1> QED
  BY <1>1, <1>2, Zenon DEF ApplySteps

\* One write to an absent cell, or of the value it holds.
LEMMA ApplyOne ==
  ASSUME NEW cells \in Memory, NEW address \in Address, NEW value \in Word,
         MayWrite(cells, address, value)
  PROVE  apply_writes(cells, <<[address |-> address, value |-> value]>>)
            = Accepted([cells EXCEPT ![address] = Present(value)])
<1> DEFINE write == [address |-> address, value |-> value]
           start == Accepted(cells)
           stored == [cells EXCEPT ![address] = Present(value)]
<1>1. /\ <<write>> \in Seq(Write) /\ Len(<<write>>) = 1 /\ <<write>>[1] = write
      /\ 1 \in 1..1 /\ 1 - 1 = 0
  BY DEF Write
<1>2. write.address = address /\ write.value = value /\ start.ok = TRUE /\ start.cells = cells
  BY Zenon DEF Accepted
<1> HIDE DEF write
<1>3. PICK g : ApplySteps(g, cells, <<write>>) /\ apply_writes(cells, <<write>>) = g[Len(<<write>>)]
  BY <1>1, ApplyLoop, Zenon
<1>4. g[1] = Applying(start, write)
  BY <1>1, <1>3, Zenon DEF ApplySteps
<1>5. Applying(start, write) = [start EXCEPT !.cells[address] = Present(value)]
  BY <1>2, Zenon DEF Applying
<1>6. [start EXCEPT !.cells[address] = Present(value)] = Accepted(stored)
  <2>1. [start EXCEPT !.cells[address] = Present(value)]
          = [start EXCEPT !.cells = [start.cells EXCEPT ![address] = Present(value)]]
    BY Zenon
  <2>2. [start EXCEPT !.cells[address] = Present(value)] = [start EXCEPT !.cells = stored]
    BY <1>2, <2>1, Zenon
  <2> HIDE DEF stored
  <2>3. [start EXCEPT !.cells = stored] = Accepted(stored)
    <3>1. \A ok : [[ok |-> ok, cells |-> cells] EXCEPT !.cells = stored]
                     = [ok |-> ok, cells |-> stored]
      OBVIOUS
    <3> QED
      BY <3>1, Zenon DEF Accepted
  <2> QED
    BY <2>2, <2>3, Zenon
<1>7. apply_writes(cells, <<write>>) = g[1]
  BY <1>1, <1>3, Zenon
<1> QED
  BY <1>4, <1>5, <1>6, <1>7, Zenon DEF write

\* What write_once appends, the host stores as the oracle does; and the two find
\* the same conflicts.
LEMMA StoresAlike ==
  ASSUME NEW mem \in Memory, NEW address \in Address, NEW value \in Word,
         NEW frame, frame[address] = mem[address]
  PROVE  /\ WriteConflicts(frame, address, value) <=> ~CanWrite(mem, address, value)
         /\ ~WriteConflicts(frame, address, value) =>
              /\ apply_writes(mem, NewWrites(frame, address, value))
                   = Accepted(write_once(mem, address, value))
              /\ write_once(mem, address, value) \in Memory
         /\ \A i \in DOMAIN NewWrites(frame, address, value) :
               NewWrites(frame, address, value)[i].address = address
<1>0. mem[address] \in Cell
  BY DEF Memory
<1>1. WriteConflicts(frame, address, value) <=> ~CanWrite(mem, address, value)
  BY Zenon DEF WriteConflicts, CanWrite
<1>2. write_once(mem, address, value) = [mem EXCEPT ![address] = Present(value)]
  BY Zenon DEF write_once, Written, Present
<1>3. Present(value) \in Cell
  BY PresentType
<1>4. [mem EXCEPT ![address] = Present(value)] \in Memory
  BY <1>3 DEF Memory
<1>5. CASE mem[address].present
  <2>1. NewWrites(frame, address, value) = <<>>
    BY <1>5, Zenon DEF NewWrites
  <2>2. ASSUME ~WriteConflicts(frame, address, value)
        PROVE  write_once(mem, address, value) = mem
    <3>1. mem[address] = Present(value)
      BY <1>0, <1>5, <2>2, CellType, Zenon DEF WriteConflicts
    <3> QED
      BY <1>2, <3>1 DEF Memory
  <2>3. \A i \in DOMAIN <<>> : FALSE
    OBVIOUS
  <2> QED
    BY <1>1, <2>1, <2>2, <2>3, ApplyNone, Zenon
<1>6. CASE ~mem[address].present
  <2>1. NewWrites(frame, address, value) = <<[address |-> address, value |-> value]>>
    BY <1>6, Zenon DEF NewWrites
  <2>2. MayWrite(mem, address, value)
    BY <1>6, Zenon DEF MayWrite
  <2>3. apply_writes(mem, <<[address |-> address, value |-> value]>>)
          = Accepted(write_once(mem, address, value))
    BY <1>2, <2>2, ApplyOne, Zenon
  <2>4. \A i \in DOMAIN <<[address |-> address, value |-> value]>> :
           <<[address |-> address, value |-> value]>>[i].address = address
    OBVIOUS
  <2> QED
    BY <1>1, <1>2, <1>4, <2>1, <2>3, <2>4, Zenon
<1> QED
  BY <1>5, <1>6

-----------------------------------------------------------------------------
(* One transaction *)

\* The machine's memory holds words, and its registers stay in the index space,
\* pc up to one past it.
MachineType ==
    /\ memory \in Memory
    /\ pc \in 0..INDEX_LIMIT
    /\ fp \in 0..(INDEX_LIMIT - 1)

\* The operation's part of HostAndEndpointFit.
Fits(op) ==
    LET prepared == prepare(op, Here, memory)
        outcome  == execute(prepared.request)
        packed   == {prepared.addresses[i] : i \in DOMAIN prepared.addresses}
    IN  /\ (prepared.refused = "no" /\ outcome.status = "OK") =>
              /\ apply_writes(memory, outcome.writes).ok
              /\ \A i \in DOMAIN outcome.writes : outcome.writes[i].address \in packed
        /\ prepared.refused = "no" =>
              outcome.status \notin
                {"U32_OVERFLOW", "ALIAS_INCONSISTENT", "BAD_POINTER",
                 "BAD_INVERSE", "BAD_BRANCH_PROPOSAL"}

\* The machine the operation leaves is one again.
Moves(op) ==
    transact(op).ok =>
        /\ transact(op).memory \in Memory
        /\ transact(op).pc \in 0..INDEX_LIMIT
        /\ transact(op).fp \in 0..(INDEX_LIMIT - 1)

Works(op) == Fits(op) /\ Moves(op)

LEMMA FaultedWorks ==
  ASSUME NEW op, transact(op) = Faulted
  PROVE  Moves(op)
<1>1. Faulted.ok = FALSE
  BY DEF Faulted
<1> QED
  BY <1>1, Zenon DEF Moves

\* The host refused.
LEMMA RefusedWorks ==
  ASSUME NEW op, NEW status, status # "no", prepare(op, Here, memory) = Refused(status)
  PROVE  Works(op) /\ transact(op) = Faulted
<1>1. prepare(op, Here, memory).refused # "no"
  BY PreparationEnds, Zenon
<1>2. transact(op) = Faulted
  BY <1>1, Zenon DEF transact
<1>3. Fits(op)
  BY <1>1, Zenon DEF Fits
<1> QED
  BY <1>2, <1>3, FaultedWorks, Zenon DEF Works

\* The endpoint refused, or asks for a service.
LEMMA StoppedWorks ==
  ASSUME NEW op, NEW request, NEW addresses,
         prepare(op, Here, memory) = Prepared(request, addresses),
         NEW status, execute(request).status = status,
         status \notin {"OK", "U32_OVERFLOW", "ALIAS_INCONSISTENT", "BAD_POINTER",
                        "BAD_INVERSE", "BAD_BRANCH_PROPOSAL"}
  PROVE  Works(op) /\ transact(op) = Faulted
<1>1. prepare(op, Here, memory).request = request
  BY DEF Prepared
<1>2. status # "OK"
  OBVIOUS
<1>3. transact(op) = Faulted
  BY <1>1, <1>2, Zenon DEF transact
<1>4. Fits(op)
  <2>1. status \notin {"U32_OVERFLOW", "ALIAS_INCONSISTENT", "BAD_POINTER",
                       "BAD_INVERSE", "BAD_BRANCH_PROPOSAL"}
    OBVIOUS
  <2> QED
    BY <1>1, <1>2, <2>1, Zenon DEF Fits
<1> QED
  BY <1>3, <1>4, FaultedWorks, Zenon DEF Works

\* The endpoint decided, and the host applied.
LEMMA DecidedWorks ==
  ASSUME MachineType,
         NEW op, NEW request, NEW addresses,
         prepare(op, Here, memory) = Prepared(request, addresses),
         NEW next_pc, NEW next_fp, NEW writes, NEW deferred, NEW accesses,
         execute(request) = Decided(next_pc, next_fp, writes, deferred, accesses),
         NEW after \in Memory,
         apply_writes(memory, writes) = Accepted(after),
         \A i \in DOMAIN writes :
            writes[i].address \in {addresses[j] : j \in DOMAIN addresses},
         pc < INDEX_LIMIT => next_pc \in 0..INDEX_LIMIT,
         next_fp \in 0..(INDEX_LIMIT - 1)
  PROVE  /\ Works(op)
         /\ pc < INDEX_LIMIT => transact(op) = Stepped(after, next_pc, next_fp)
<1> DEFINE outcome == execute(request)
           applied == apply_writes(memory, writes)
<1>1. /\ prepare(op, Here, memory).request = request
      /\ prepare(op, Here, memory).refused = "no"
      /\ prepare(op, Here, memory).addresses = addresses
  BY DEF Prepared
<1>2. /\ outcome.status = "OK" /\ outcome.next_pc = next_pc
      /\ outcome.next_fp = next_fp /\ outcome.writes = writes
  BY DEF Decided
<1>3. applied.ok = TRUE /\ applied.cells = after
  <2>1. Accepted(after).ok = TRUE /\ Accepted(after).cells = after
    BY Zenon DEF Accepted
  <2> QED
    BY <2>1, Zenon
<1> HIDE DEF outcome, applied
<1>4. ASSUME pc < INDEX_LIMIT
      PROVE  transact(op) = Stepped(after, next_pc, next_fp)
  <2>1. ~(pc >= INDEX_LIMIT) /\ ~(fp >= INDEX_LIMIT)
    BY <1>4, U32Assumption DEF MachineType
  <2> QED
    BY <1>1, <1>2, <1>3, <2>1, Zenon DEF transact, outcome, applied
<1>5. ASSUME ~(pc < INDEX_LIMIT) PROVE transact(op) = Faulted
  <2>1. pc >= INDEX_LIMIT
    BY <1>5, U32Assumption DEF MachineType
  <2> QED
    BY <1>1, <2>1, Zenon DEF transact
<1>6. Moves(op)
  <2>1. CASE pc < INDEX_LIMIT
    <3>1. /\ Stepped(after, next_pc, next_fp).memory = after
          /\ Stepped(after, next_pc, next_fp).pc = next_pc
          /\ Stepped(after, next_pc, next_fp).fp = next_fp
      BY DEF Stepped
    <3> QED
      BY <1>4, <2>1, <3>1, Zenon DEF Moves
  <2>2. CASE ~(pc < INDEX_LIMIT)
    BY <1>5, <2>2, FaultedWorks
  <2> QED
    BY <2>1, <2>2
<1>7. Fits(op)
  <2>1. "OK" \notin {"U32_OVERFLOW", "ALIAS_INCONSISTENT", "BAD_POINTER",
                     "BAD_INVERSE", "BAD_BRANCH_PROPOSAL"}
    OBVIOUS
  <2> QED
    BY <1>1, <1>2, <1>3, <2>1, Zenon DEF Fits, outcome, applied
<1> QED
  BY <1>4, <1>6, <1>7, Zenon DEF Works

-----------------------------------------------------------------------------
(* One slot, kind by kind *)

\* What the host reads of the machine.
LEMMA HereFields ==
  Here.pc = pc /\ Here.fp = fp /\ Here.profile = INTERPRETER_COMPAT /\ Here.txn_id = 1
  BY DEF Here

\* Natural registers below the address width.
LEMMA MachineNaturals ==
  ASSUME MachineType
  PROVE  /\ fp \in Nat /\ pc \in Nat /\ INDEX_LIMIT \in Nat /\ U32_MAX \in Nat
         /\ memory \in Memory /\ fp < INDEX_LIMIT /\ fp \in 0..(INDEX_LIMIT - 1)
         /\ pc < INDEX_LIMIT => pc + 1 \in 0..INDEX_LIMIT
  BY U32Assumption DEF MachineType

\* The opcode of every kind.
LEMMA Opcodes ==
  ASSUME NEW op
  PROVE  /\ op.kind = "Set" => OpcodeOf(op) = "SET_CONSTANT"
         /\ op.kind = "Xor" => OpcodeOf(op) = "XOR"
         /\ op.kind = "Mul" => OpcodeOf(op) = "MUL_NATIVE"
         /\ op.kind = "Jump" => OpcodeOf(op) = "JUMP"
         /\ op.kind = "Blake3" => OpcodeOf(op) = "BLAKE3_REQUEST"
         /\ op.kind = "Deref" =>
              OpcodeOf(op) = IF op.mode = "Cell" THEN "DEREF_CELL"
                             ELSE IF op.mode = "Pc" THEN "DEREF_PC" ELSE "DEREF_FP"
  BY DEF OpcodeOf

\* The addresses of a slot's offsets, for the host and for the oracle.
LEMMA OffsetAddresses ==
  ASSUME MachineType, NEW op, IsSlot(op), op.kind # "Blake3"
  PROVE  /\ DOMAIN Addresses(fp, op.offsets) = DOMAIN op.offsets
         /\ \A i \in DOMAIN op.offsets :
               /\ Addresses(fp, op.offsets)[i] = fp + op.offsets[i]
               /\ op.offsets[i] \in Nat
         /\ Overflows(Addresses(fp, op.offsets))
              <=> \E i \in DOMAIN op.offsets : fp + op.offsets[i] > AddressMax
         /\ ~Overflows(Addresses(fp, op.offsets)) =>
               \A i \in DOMAIN op.offsets : Addresses(fp, op.offsets)[i] \in Address
<1>1. \A i \in DOMAIN op.offsets : op.offsets[i] \in Nat
  BY DEF IsSlot
<1>2. /\ DOMAIN Addresses(fp, op.offsets) = DOMAIN op.offsets
      /\ \A i \in DOMAIN op.offsets : Addresses(fp, op.offsets)[i] = fp + op.offsets[i]
  BY Zenon DEF Addresses
<1>3. Overflows(Addresses(fp, op.offsets))
        <=> \E i \in DOMAIN op.offsets : fp + op.offsets[i] > AddressMax
  BY <1>2, SameAddresses, Zenon DEF Overflows
<1>4. ASSUME ~Overflows(Addresses(fp, op.offsets)), NEW i \in DOMAIN op.offsets
      PROVE  Addresses(fp, op.offsets)[i] \in Address
  <2>1. ~(fp + op.offsets[i] > AddressMax) /\ op.offsets[i] \in Nat
    BY <1>1, <1>3, <1>4, Zenon
  <2> QED
    BY <1>2, <2>1, MachineNaturals, SameAddresses DEF Address
<1> QED
  BY <1>1, <1>2, <1>3, <1>4, Zenon

\* SET_CONSTANT.
LEMMA SetWorks ==
  ASSUME MachineType, NEW op, IsSlot(op), op.kind = "Set"
  PROVE  Works(op) /\ (pc < INDEX_LIMIT => transact(op) = step(op, memory, pc, fp))
<1> DEFINE a         == fp + op.offsets[1]
           addresses == Addresses(fp, op.offsets)
           cells     == CellsAt(memory, addresses)
           request   == Packed(op, Here, cells)
           frame     == Frame(addresses, cells)
           value     == op.constant
<1>1. DOMAIN op.offsets = {1} /\ value \in Word
  <2>1. 1..1 = {1}
    OBVIOUS
  <2> QED
    BY <2>1, Zenon DEF IsSlot
<1>2. /\ DOMAIN addresses = {1} /\ addresses[1] = a
      /\ Overflows(addresses) <=> a > AddressMax
      /\ ~Overflows(addresses) => a \in Address
  <2>1. op.kind # "Blake3"
    OBVIOUS
  <2> QED
    BY <1>1, <2>1, OffsetAddresses
<1>3. addresses = <<a>>
  <2>1. addresses = [i \in {1} |-> a]
    BY <1>1, <1>2 DEF Addresses
  <2> HIDE DEF a, addresses
  <2> QED
    BY <2>1
<1>4. prepare(op, Here, memory) = IF Overflows(addresses) THEN Refused("U32_OVERFLOW")
                                  ELSE Prepared(request, addresses)
  BY HereFields, Zenon DEF prepare, PrepareSet
<1>5. step(op, memory, pc, fp) = IF a > AddressMax THEN Faulted
                                 ELSE StoreAndAdvance(memory, pc, fp, a, value)
  <2>1. LocalOperands(op) = {1}
    BY <1>1 DEF LocalOperands
  <2>2. (\E i \in LocalOperands(op) : fp + op.offsets[i] > AddressMax) <=> a > AddressMax
    BY <2>1, Zenon
  <2> HIDE DEF a
  <2> QED
    BY <2>2, Zenon DEF step, a
<1>6. CASE Overflows(addresses)
  <2>1. "U32_OVERFLOW" # "no"
    OBVIOUS
  <2> QED
    BY <1>2, <1>4, <1>5, <1>6, <2>1, RefusedWorks, Zenon
<1>7. CASE ~Overflows(addresses)
  <2>1. prepare(op, Here, memory) = Prepared(request, addresses)
    BY <1>4, <1>7, Zenon
  <2>2. /\ request.opcode = "SET_CONSTANT" /\ request.fp = fp /\ request.pc = pc
        /\ request.cells = cells /\ request.offsets = op.offsets /\ request.constant = value
    <3>1. Carries(request, op, Here, cells)
      BY PackedCarries
    <3>2. OpcodeOf(op) = "SET_CONSTANT"
      BY Opcodes
    <3> QED
      BY <3>1, <3>2, HereFields, Zenon DEF Carries
  <2>3. execute(request) = execute_set(request)
    <3>1. "SET_CONSTANT" \notin {"XOR", "MUL_NATIVE"}
      OBVIOUS
    <3> QED
      BY <2>2, <3>1, Zenon DEF execute
  <2>4. frame[a] = memory[a]
    <3>1. 1 \in DOMAIN addresses
      BY <1>2
    <3>2. frame[addresses[1]] = memory[addresses[1]]
      BY <3>1, FrameAt
    <3> QED
      BY <1>2, <3>2, Zenon
  <2>5. a \in Address /\ ~(a > AddressMax)
    BY <1>2, <1>7, Zenon
  <2>6. ~(a > U32_MAX)
    BY <2>5, SameAddresses
  <2> HIDE DEF request
  <2>7. execute_set(request)
          = IF WriteConflicts(frame, a, value) THEN Fault("WRITE_CONFLICT")
            ELSE Decided(pc + 1, fp, NewWrites(frame, a, value), <<>>, <<a>>)
    BY <1>3, <2>2, <2>6, Zenon DEF execute_set
  <2> HIDE DEF frame, a, cells, addresses
  <2>8. /\ WriteConflicts(frame, a, value) <=> ~CanWrite(memory, a, value)
        /\ ~WriteConflicts(frame, a, value) =>
             /\ apply_writes(memory, NewWrites(frame, a, value))
                  = Accepted(write_once(memory, a, value))
             /\ write_once(memory, a, value) \in Memory
        /\ \A i \in DOMAIN NewWrites(frame, a, value) :
              NewWrites(frame, a, value)[i].address = a
    BY <1>1, <2>4, <2>5, MachineNaturals, StoresAlike
  <2>9. CASE WriteConflicts(frame, a, value)
    <3>1. execute(request).status = "WRITE_CONFLICT"
      <4>1. execute(request) = Fault("WRITE_CONFLICT")
        BY <2>3, <2>7, <2>9, Zenon
      <4> QED
        BY <4>1 DEF Fault
    <3>2. "WRITE_CONFLICT" \notin {"OK", "U32_OVERFLOW", "ALIAS_INCONSISTENT",
                                   "BAD_POINTER", "BAD_INVERSE", "BAD_BRANCH_PROPOSAL"}
      OBVIOUS
    <3>3. Works(op) /\ transact(op) = Faulted
      BY <2>1, <3>1, <3>2, StoppedWorks, Zenon
    <3> QED
      BY <1>5, <2>5, <2>8, <2>9, <3>3, Zenon DEF StoreAndAdvance
  <2>10. CASE ~WriteConflicts(frame, a, value)
    <3>1. execute(request) = Decided(pc + 1, fp, NewWrites(frame, a, value), <<>>, <<a>>)
      BY <2>3, <2>7, <2>10, Zenon
    <3>2. a \in {addresses[j] : j \in DOMAIN addresses}
      BY <1>2
    <3>3. \A i \in DOMAIN NewWrites(frame, a, value) :
             NewWrites(frame, a, value)[i].address \in {addresses[j] : j \in DOMAIN addresses}
      BY <2>8, <3>2, Zenon
    <3>4. /\ Works(op)
          /\ pc < INDEX_LIMIT =>
               transact(op) = Stepped(write_once(memory, a, value), pc + 1, fp)
      BY <2>1, <2>8, <2>10, <3>1, <3>3, MachineNaturals, DecidedWorks
    <3> QED
      BY <1>5, <2>5, <2>8, <2>10, <3>4, Zenon DEF StoreAndAdvance
  <2> QED
    BY <2>9, <2>10
<1> QED
  BY <1>6, <1>7

\* Storing again what a cell holds.
LEMMA StoreAgain ==
  ASSUME NEW mem \in Memory, NEW address \in Address, NEW value \in Word,
         mem[address].present, CanWrite(mem, address, value)
  PROVE  write_once(mem, address, value) = mem
<1>1. mem[address] \in Cell
  BY DEF Memory
<1>2. mem[address] = Present(value)
  BY <1>1, CellType, Zenon DEF CanWrite
<1>3. write_once(mem, address, value) = [mem EXCEPT ![address] = Present(value)]
  BY Zenon DEF write_once, Written, Present
<1> QED
  BY <1>2, <1>3 DEF Memory

\* The operand that the binary rule knows when it back-solves the other.
Known(frame, a, b) == Read(frame, IF ~frame[a].present THEN b ELSE a)

LEMMA BinaryShape ==
  ASSUME NEW request, NEW addresses, addresses = Addresses(request.fp, request.offsets),
         NEW frame, frame = Frame(addresses, request.cells),
         NEW a, a = addresses[1], NEW b, b = addresses[2], NEW c, c = addresses[3],
         NEW missing, missing = (IF ~frame[a].present THEN a ELSE b),
         NEW known, known = Known(frame, a, b),
         NEW solved, solved = BackSolved(request, Read(frame, c), known),
         NEW filled, filled = WriteOnce(frame, missing, solved),
         request.profile = INTERPRETER_COMPAT,
         ~Overflows(addresses), ~AliasInconsistent(addresses, request.cells)
  PROVE  /\ ~BackSolves(frame, a, b, c) =>
              LET result == Combine(request.opcode, Read(frame, a), Read(frame, b))
              IN  execute_binary(request) =
                    IF WriteConflicts(frame, c, result) THEN Fault("WRITE_CONFLICT")
                    ELSE Decided(request.pc + 1, request.fp,
                                 <<>> \o NewWrites(frame, c, result), <<>>, addresses)
         /\ (BackSolves(frame, a, b, c) /\ request.opcode = "MUL_NATIVE" /\ known = Zero) =>
              execute_binary(request) = Fault("MUL_BACKSOLVE_ZERO")
         /\ (/\ BackSolves(frame, a, b, c)
             /\ request.opcode = "MUL_NATIVE" =>
                  /\ known # Zero
                  /\ request.proposed_inverse.present
                  /\ field_mul(known, request.proposed_inverse.value) = One) =>
              LET result == Combine(request.opcode, Read(filled, a), Read(filled, b))
              IN  execute_binary(request) =
                    IF WriteConflicts(filled, c, result) THEN Fault("WRITE_CONFLICT")
                    ELSE Decided(request.pc + 1, request.fp,
                                 NewWrites(frame, missing, solved)
                                   \o NewWrites(filled, c, result), <<>>, addresses)
<1>1. request.profile # FORWARD_ONLY
  BY DEF FORWARD_ONLY, INTERPRETER_COMPAT
<1>2. ASSUME ~BackSolves(frame, a, b, c)
      PROVE  LET result == Combine(request.opcode, Read(frame, a), Read(frame, b))
             IN  execute_binary(request) =
                   IF WriteConflicts(frame, c, result) THEN Fault("WRITE_CONFLICT")
                   ELSE Decided(request.pc + 1, request.fp,
                                <<>> \o NewWrites(frame, c, result), <<>>, addresses)
  BY <1>1, <1>2, ZenonT(60) DEF execute_binary, BackSolves
<1>3. ASSUME BackSolves(frame, a, b, c), request.opcode = "MUL_NATIVE", known = Zero
      PROVE  execute_binary(request) = Fault("MUL_BACKSOLVE_ZERO")
  BY <1>1, <1>3, ZenonT(60) DEF execute_binary, BackSolves, Known
<1>4. ASSUME BackSolves(frame, a, b, c),
             request.opcode = "MUL_NATIVE" =>
               /\ known # Zero
               /\ request.proposed_inverse.present
               /\ field_mul(known, request.proposed_inverse.value) = One
      PROVE  LET result == Combine(request.opcode, Read(filled, a), Read(filled, b))
             IN  execute_binary(request) =
                   IF WriteConflicts(filled, c, result) THEN Fault("WRITE_CONFLICT")
                   ELSE Decided(request.pc + 1, request.fp,
                                NewWrites(frame, missing, solved)
                                  \o NewWrites(filled, c, result), <<>>, addresses)
  BY <1>1, <1>4, ZenonT(60) DEF execute_binary, BackSolves, Known
<1> QED
  BY <1>2, <1>3, <1>4, Zenon

\* What a binary slot computes, in both readings.
LEMMA CombinesAlike ==
  ASSUME NEW op, op.kind \in {"Xor", "Mul"}, NEW left \in Word, NEW right \in Word
  PROVE  /\ Combine(OpcodeOf(op), left, right)
              = IF op.kind = "Mul" THEN multiply(left, right) ELSE Xor(left, right)
         /\ Combine(OpcodeOf(op), left, right) \in Word
<1>1. Xor(left, right) \in Word /\ field_mul(left, right) \in Word
  BY XorType, MulType
<1>2. multiply(left, right) = field_mul(left, right)
  BY OracleMultipliesAlike
<1>3. CASE op.kind = "Xor"
  <2>1. OpcodeOf(op) = "XOR" /\ op.kind # "Mul"
    BY <1>3, Opcodes
  <2> QED
    BY <1>1, <2>1, Zenon DEF Combine
<1>4. CASE op.kind = "Mul"
  <2>1. OpcodeOf(op) = "MUL_NATIVE" /\ "MUL_NATIVE" # "XOR"
    BY <1>4, Opcodes
  <2> QED
    BY <1>1, <1>2, <1>4, <2>1, Zenon DEF Combine
<1> QED
  BY <1>3, <1>4

\* XOR and MUL_NATIVE.
LEMMA BinaryWorks ==
  ASSUME MachineType, NEW op, IsSlot(op), op.kind \in {"Xor", "Mul"}
  PROVE  Works(op) /\ (pc < INDEX_LIMIT => transact(op) = step(op, memory, pc, fp))
<1> DEFINE addresses == Addresses(fp, op.offsets)
           cells     == CellsAt(memory, addresses)
           witness   == inverse_witness(op, cells, INTERPRETER_COMPAT)
           request   == [Packed(op, Here, cells) EXCEPT !.proposed_inverse = witness]
           frame     == Frame(addresses, cells)
           a         == addresses[1]
           b         == addresses[2]
           c         == addresses[3]
<1>0. op.kind # "Blake3" /\ op.kind # "Set" /\ op.kind # "Deref" /\ op.kind # "Jump"
  OBVIOUS
<1>1. /\ DOMAIN op.offsets = 1..3 /\ DOMAIN addresses = 1..3
      /\ 1 \in 1..3 /\ 2 \in 1..3 /\ 3 \in 1..3
      /\ a = fp + op.offsets[1] /\ b = fp + op.offsets[2] /\ c = fp + op.offsets[3]
  <2>1. DOMAIN op.offsets = 1..3 /\ 1 \in 1..3 /\ 2 \in 1..3 /\ 3 \in 1..3
    BY DEF IsSlot
  <2> HIDE DEF addresses
  <2>2. /\ DOMAIN addresses = DOMAIN op.offsets
        /\ \A i \in DOMAIN op.offsets : addresses[i] = fp + op.offsets[i]
    BY <1>0, OffsetAddresses DEF addresses
  <2> QED
    BY <2>1, <2>2, Zenon
<1>2. prepare(op, Here, memory) = IF Overflows(addresses) THEN Refused("U32_OVERFLOW")
                                  ELSE Prepared(request, addresses)
  BY <1>0, HereFields, Zenon DEF prepare, PrepareBinary
<1>3. step(op, memory, pc, fp) = IF Overflows(addresses) THEN Faulted
                                 ELSE OracleBinary(memory, pc, fp, a, b, c, op.kind)
  <2>1. (\E i \in LocalOperands(op) : fp + op.offsets[i] > AddressMax) <=> Overflows(addresses)
    BY <1>0, OffsetAddresses, Zenon DEF LocalOperands
  <2> HIDE DEF addresses
  <2> QED
    BY <1>0, <1>1, <2>1, Zenon DEF step, OracleBinary
<1>4. CASE Overflows(addresses)
  <2>1. "U32_OVERFLOW" # "no"
    OBVIOUS
  <2> QED
    BY <1>2, <1>3, <1>4, <2>1, RefusedWorks, Zenon
<1>5. CASE ~Overflows(addresses)
  <2>1. prepare(op, Here, memory) = Prepared(request, addresses)
    BY <1>2, <1>5, Zenon
  <2>2. /\ request.opcode = OpcodeOf(op) /\ request.fp = fp /\ request.pc = pc
        /\ request.cells = cells /\ request.offsets = op.offsets
        /\ request.profile = INTERPRETER_COMPAT
    <3>1. Carries(request, op, Here, cells)
      BY PackedCarries, Zenon
    <3> QED
      BY <3>1, HereFields, Zenon DEF Carries
  <2>3. request.proposed_inverse = witness
    <3> HIDE DEF witness, cells
    <3> QED
      BY DEF Packed
  <2>4. /\ request.opcode \in {"XOR", "MUL_NATIVE"}
        /\ (request.opcode = "MUL_NATIVE") <=> (op.kind = "Mul")
    <3> HIDE DEF request
    <3> QED
      BY <2>2, Opcodes
  <2>5. execute(request) = execute_binary(request)
    BY <2>4, Zenon DEF execute
  <2> HIDE DEF request
  <2>6. /\ ~AliasInconsistent(addresses, cells)
        /\ frame[a] = memory[a] /\ frame[b] = memory[b] /\ frame[c] = memory[c]
        /\ cells[1] = memory[a] /\ cells[2] = memory[b] /\ cells[3] = memory[c]
        /\ a \in DOMAIN frame /\ b \in DOMAIN frame
    <3>1. ~AliasInconsistent(addresses, cells)
      BY PackedFrame
    <3>2. ASSUME NEW i \in 1..3
          PROVE  /\ frame[addresses[i]] = memory[addresses[i]]
                 /\ cells[i] = memory[addresses[i]]
                 /\ addresses[i] \in DOMAIN frame
      <4>1. i \in DOMAIN addresses
        BY <1>1
      <4> HIDE DEF addresses
      <4> QED
        BY <4>1, FrameAt, FrameDomain
    <3> QED
      BY <1>1, <3>1, <3>2, Zenon
  <2>7. /\ a \in Address /\ b \in Address /\ c \in Address
        /\ memory[a] \in Cell /\ memory[b] \in Cell /\ memory[c] \in Cell
    <3>1. a \in Address /\ b \in Address /\ c \in Address
      BY <1>0, <1>1, <1>5, OffsetAddresses, Zenon
    <3> HIDE DEF a, b, c
    <3> QED
      BY <3>1, MachineNaturals DEF Memory
  <2>8. /\ memory[a].value \in Word /\ memory[b].value \in Word /\ memory[c].value \in Word
        /\ memory[a].present \in BOOLEAN /\ memory[b].present \in BOOLEAN
        /\ Read(frame, a) = memory[a].value /\ Read(frame, b) = memory[b].value
        /\ Read(frame, c) = memory[c].value
    <3>1. frame[a] \in Cell /\ frame[b] \in Cell /\ frame[c] \in Cell
      BY <2>6, <2>7, Zenon
    <3> HIDE DEF frame, a, b, c
    <3>2. /\ Read(frame, a) = frame[a].value /\ Read(frame, b) = frame[b].value
          /\ Read(frame, c) = frame[c].value
      BY <3>1, ReadsTheWord
    <3> QED
      BY <2>6, <2>7, <3>2, CellType, Zenon
  <2>9. a \in {addresses[j] : j \in DOMAIN addresses}
        /\ b \in {addresses[j] : j \in DOMAIN addresses}
        /\ c \in {addresses[j] : j \in DOMAIN addresses}
    BY <1>1, Zenon
  <2> DEFINE missing  == IF ~frame[a].present THEN a ELSE b
             known    == Known(frame, a, b)
             solved   == BackSolved(request, Read(frame, c), known)
             filled   == WriteOnce(frame, missing, solved)
  <2>10. addresses = Addresses(request.fp, request.offsets) /\ frame = Frame(addresses, request.cells)
    BY <2>2, Zenon
  <2>11. /\ BackSolves(frame, a, b, c) <=> BackSolves(memory, a, b, c)
         /\ missing = (IF ~memory[a].present THEN a ELSE b)
         /\ known = memory[IF ~memory[a].present THEN b ELSE a].value
    <3> HIDE DEF frame, a, b, c
    <3>1. BackSolves(frame, a, b, c) <=> BackSolves(memory, a, b, c)
      BY <2>6, Zenon DEF BackSolves
    <3>2. missing = (IF ~memory[a].present THEN a ELSE b)
      BY <2>6, Zenon
    <3>3. known = memory[IF ~memory[a].present THEN b ELSE a].value
      BY <2>6, <2>8, Zenon DEF Known
    <3> QED
      BY <3>1, <3>2, <3>3
  <2> HIDE DEF addresses, cells, frame, witness, a, b, c
  <2>12. CASE ~BackSolves(frame, a, b, c)
    <3> DEFINE result == Combine(OpcodeOf(op), memory[a].value, memory[b].value)
    <3>1. /\ result \in Word
          /\ result = IF op.kind = "Mul" THEN multiply(memory[a].value, memory[b].value)
                      ELSE Xor(memory[a].value, memory[b].value)
      BY <2>8, CombinesAlike
    <3>2. execute(request) =
            IF WriteConflicts(frame, c, result) THEN Fault("WRITE_CONFLICT")
            ELSE Decided(pc + 1, fp, <<>> \o NewWrites(frame, c, result), <<>>, addresses)
      <4>1. execute_binary(request) =
              IF WriteConflicts(frame, c, Combine(request.opcode, Read(frame, a), Read(frame, b)))
              THEN Fault("WRITE_CONFLICT")
              ELSE Decided(request.pc + 1, request.fp,
                     <<>> \o NewWrites(frame, c, Combine(request.opcode, Read(frame, a), Read(frame, b))),
                     <<>>, addresses)
        BY <1>5, <2>2, <2>6, <2>10, <2>12, BinaryShape DEF a, b, c
      <4> QED
        BY <2>2, <2>5, <2>8, <4>1, Zenon
    <3>3. step(op, memory, pc, fp) = StoreAndAdvance(memory, pc, fp, c, result)
      <4>1. OracleBinary(memory, pc, fp, a, b, c, op.kind)
              = StoreAndAdvance(memory, pc, fp, c,
                    IF op.kind = "Mul" THEN multiply(memory[a].value, memory[b].value)
                    ELSE Xor(memory[a].value, memory[b].value))
        <5> HIDE DEF missing, known, result
        <5> QED
          BY <2>11, <2>12, OracleBinaryShape
      <4> HIDE DEF result
      <4> QED
        BY <1>3, <1>5, <3>1, <4>1, Zenon
    <3> HIDE DEF result
    <3>4. /\ WriteConflicts(frame, c, result) <=> ~CanWrite(memory, c, result)
          /\ ~WriteConflicts(frame, c, result) =>
               /\ apply_writes(memory, NewWrites(frame, c, result))
                    = Accepted(write_once(memory, c, result))
               /\ write_once(memory, c, result) \in Memory
          /\ \A i \in DOMAIN NewWrites(frame, c, result) :
                NewWrites(frame, c, result)[i].address = c
      BY <2>6, <2>7, <3>1, MachineNaturals, StoresAlike
    <3>5. <<>> \o NewWrites(frame, c, result) = NewWrites(frame, c, result)
      BY DEF NewWrites
    <3>6. CASE WriteConflicts(frame, c, result)
      <4>1. execute(request).status = "WRITE_CONFLICT"
        <5>1. execute(request) = Fault("WRITE_CONFLICT")
          BY <3>2, <3>6, Zenon
        <5> QED
          BY <5>1 DEF Fault
      <4>2. "WRITE_CONFLICT" \notin {"OK", "U32_OVERFLOW", "ALIAS_INCONSISTENT",
                                     "BAD_POINTER", "BAD_INVERSE", "BAD_BRANCH_PROPOSAL"}
        OBVIOUS
      <4>3. Works(op) /\ transact(op) = Faulted
        BY <2>1, <4>1, <4>2, StoppedWorks, Zenon
      <4> QED
        BY <3>3, <3>4, <3>6, <4>3, Zenon DEF StoreAndAdvance
    <3>7. CASE ~WriteConflicts(frame, c, result)
      <4>1. execute(request) = Decided(pc + 1, fp, NewWrites(frame, c, result), <<>>, addresses)
        BY <3>2, <3>5, <3>7, Zenon
      <4>2. \A i \in DOMAIN NewWrites(frame, c, result) :
               NewWrites(frame, c, result)[i].address \in {addresses[j] : j \in DOMAIN addresses}
        BY <2>9, <3>4, Zenon
      <4>3. /\ Works(op)
            /\ pc < INDEX_LIMIT =>
                 transact(op) = Stepped(write_once(memory, c, result), pc + 1, fp)
        BY <2>1, <3>4, <3>7, <4>1, <4>2, MachineNaturals, DecidedWorks
      <4> QED
        BY <3>3, <3>4, <3>7, <4>3, Zenon DEF StoreAndAdvance
    <3> QED
      BY <3>6, <3>7
  <2>13. CASE BackSolves(frame, a, b, c) /\ op.kind = "Mul" /\ known = Zero
    <3>1. execute(request) = Fault("MUL_BACKSOLVE_ZERO")
      <4>1. execute_binary(request) = Fault("MUL_BACKSOLVE_ZERO")
        BY <1>5, <2>2, <2>4, <2>6, <2>10, <2>13, BinaryShape DEF a, b, c
      <4> QED
        BY <2>5, <4>1, Zenon
    <3>2. step(op, memory, pc, fp) = Faulted
      <4>1. OracleBinary(memory, pc, fp, a, b, c, op.kind) = Faulted
        <5>1. /\ BackSolves(memory, a, b, c) /\ op.kind = "Mul"
              /\ memory[IF ~memory[a].present THEN b ELSE a].value = Zero
          BY <2>11, <2>13, Zenon
        <5> QED
          BY <5>1, OracleBinaryShape
      <4> QED
        BY <1>3, <1>5, <4>1, Zenon
    <3>3. /\ Fault("MUL_BACKSOLVE_ZERO").status = "MUL_BACKSOLVE_ZERO"
          /\ "MUL_BACKSOLVE_ZERO" \notin {"OK", "U32_OVERFLOW", "ALIAS_INCONSISTENT",
                                   "BAD_POINTER", "BAD_INVERSE", "BAD_BRANCH_PROPOSAL"}
      BY DEF Fault
    <3>4. Works(op) /\ transact(op) = Faulted
      BY <2>1, <3>1, <3>3, StoppedWorks, Zenon
    <3> QED
      BY <3>2, <3>4, Zenon
  <2>14. CASE BackSolves(frame, a, b, c) /\ (op.kind = "Mul" => known # Zero)
    <3> DEFINE filler == IF op.kind = "Mul" THEN multiply(memory[c].value, inverse(known))
                         ELSE Xor(memory[c].value, known)
               after  == write_once(memory, missing, filler)
               result == Combine(OpcodeOf(op), after[a].value, after[b].value)
    <3>1. /\ memory[c].present
          /\ ~memory[missing].present
          /\ missing = a \/ missing = b
          /\ missing \in Address /\ missing # c /\ missing \in DOMAIN frame
          /\ known \in Word
          /\ missing \in {addresses[j] : j \in DOMAIN addresses}
      <4>1. memory[c].present /\ (~memory[a].present) # (~memory[b].present)
        BY <2>6, <2>14, Zenon DEF BackSolves
      <4>2. missing = a \/ missing = b
        BY Zenon
      <4>3. ~memory[missing].present
        <5>1. CASE ~memory[a].present
          BY <2>11, <5>1, Zenon
        <5>2. CASE memory[a].present
          BY <2>8, <2>11, <4>1, <5>2, Zenon
        <5> QED
          BY <5>1, <5>2
      <4>4. known \in Word
        BY <2>8, <2>11, Zenon
      <4> HIDE DEF missing, known
      <4> QED
        BY <2>6, <2>7, <2>9, <4>1, <4>2, <4>3, <4>4, Zenon
    <3>2. op.kind = "Mul" => /\ request.proposed_inverse.present
                             /\ request.proposed_inverse.value = field_inverse(known)
                             /\ field_mul(known, request.proposed_inverse.value) = One
      <4> SUFFICES ASSUME op.kind = "Mul"
                   PROVE  /\ request.proposed_inverse.present
                          /\ request.proposed_inverse.value = field_inverse(known)
                          /\ field_mul(known, request.proposed_inverse.value) = One
        BY Zenon
      <4>1. known # Zero
        BY <2>14, Zenon
      <4>2. memory[c].present /\ memory[a].present # memory[b].present
        BY <2>6, <2>8, <2>14, Zenon DEF BackSolves
      <4>3. (IF cells[1].present THEN cells[1] ELSE cells[2]).value = known
        BY <2>6, <2>11, Zenon
      <4>4. witness = Present(field_inverse(known))
        <5> HIDE DEF known
        <5> QED
          BY <2>6, <4>1, <4>2, <4>3, Zenon DEF witness, inverse_witness
      <4>5. Present(field_inverse(known)).present = TRUE
            /\ Present(field_inverse(known)).value = field_inverse(known)
        BY Zenon DEF Present
      <4>6. field_mul(known, field_inverse(known)) = One
        <5> HIDE DEF known
        <5> QED
          BY <3>1, <4>1, InverseInverts
      <4> HIDE DEF known
      <4> QED
        BY <2>3, <4>4, <4>5, <4>6, Zenon
    <3>3. solved = filler /\ filler \in Word
      <4>0. known \in Word /\ memory[c].value \in Word
        BY <2>8, <3>1, Zenon
      <4>1. CASE op.kind = "Mul"
        <5>1. known # Zero
          BY <2>14, <4>1, Zenon
        <5> HIDE DEF known
        <5>2. inverse(known) = field_inverse(known) /\ field_inverse(known) \in Word
          BY <4>0, <5>1, InversesAgree
        <5>3. multiply(memory[c].value, inverse(known))
                = field_mul(memory[c].value, field_inverse(known))
          BY <4>0, <5>2, OracleMultipliesAlike
        <5>4. request.opcode # "XOR"
          BY <2>4, <4>1
        <5>5. solved = field_mul(memory[c].value, field_inverse(known))
          BY <2>8, <3>2, <4>1, <5>4, Zenon DEF BackSolved
        <5>6. field_mul(memory[c].value, field_inverse(known)) \in Word
          BY <4>0, MulType
        <5> QED
          BY <4>1, <5>3, <5>5, <5>6, Zenon
      <4>2. CASE op.kind # "Mul"
        <5>1. request.opcode = "XOR"
          BY <2>4, <4>2
        <5> HIDE DEF known
        <5>2. solved = Xor(memory[c].value, known)
          BY <2>8, <5>1, Zenon DEF BackSolved
        <5>3. Xor(memory[c].value, known) \in Word
          BY <4>0, XorType
        <5> QED
          BY <4>2, <5>2, <5>3, Zenon
      <4> QED
        BY <4>1, <4>2
    <3>4. /\ after = [memory EXCEPT ![missing] = Present(filler)]
          /\ Present(filler) \in Cell /\ Present(filler).present
      <4>1. Present(filler) \in Cell
        <5> HIDE DEF filler
        <5> QED
          BY <3>3, PresentType
      <4> HIDE DEF filler, missing
      <4> QED
        BY <4>1, Zenon DEF write_once, Written, Present
    <3>5. filled = [frame EXCEPT ![missing] = Present(filler)]
      <4>1. ~frame[missing].present
        <5> HIDE DEF missing
        <5> QED
          BY <2>6, <3>1, Zenon
      <4> HIDE DEF missing, solved, filler
      <4> QED
        BY <3>3, <4>1, Zenon DEF WriteOnce
    <3> HIDE DEF missing, known, filler, solved, filled, after
    <3>6. /\ after \in Memory
          /\ after[c].present
          /\ filled[a] = after[a] /\ filled[b] = after[b] /\ filled[c] = after[c]
      <4>1. after \in Memory
        BY <3>1, <3>4, MachineNaturals DEF Memory
      <4>2. after[c] = memory[c]
        BY <2>7, <3>1, <3>4, MachineNaturals DEF Memory
      <4>3. filled[c] = frame[c]
        <5>1. c \in DOMAIN frame
          BY <1>1, FrameDomain, Zenon DEF c, frame
        <5> QED
          BY <3>1, <3>5, <5>1
      <4>4. ASSUME NEW x \in {a, b} PROVE filled[x] = after[x]
        <5>1. /\ x \in Address /\ x \in DOMAIN frame /\ frame[x] = memory[x]
          BY <2>6, <2>7
        <5>2. after[x] = IF x = missing THEN Present(filler) ELSE memory[x]
          BY <3>1, <3>4, <5>1, MachineNaturals DEF Memory
        <5>3. filled[x] = IF x = missing THEN Present(filler) ELSE frame[x]
          BY <3>1, <3>5, <5>1
        <5> QED
          BY <5>1, <5>2, <5>3
      <4> QED
        BY <2>6, <3>1, <4>1, <4>2, <4>3, <4>4
    <3>7. /\ after[a].value \in Word /\ after[b].value \in Word
          /\ Read(filled, a) = after[a].value /\ Read(filled, b) = after[b].value
      <4>1. after[a] \in Cell /\ after[b] \in Cell
        BY <2>7, <3>6 DEF Memory
      <4>2. filled[a] \in Cell /\ filled[b] \in Cell
        BY <3>6, <4>1, Zenon
      <4>3. Read(filled, a) = filled[a].value /\ Read(filled, b) = filled[b].value
        BY <4>2, ReadsTheWord
      <4> QED
        BY <3>6, <4>1, <4>3, CellType, Zenon
    <3>8. /\ result \in Word
          /\ result = IF op.kind = "Mul" THEN multiply(after[a].value, after[b].value)
                      ELSE Xor(after[a].value, after[b].value)
      BY <3>7, CombinesAlike
    <3>9. execute(request) =
            IF WriteConflicts(filled, c, result) THEN Fault("WRITE_CONFLICT")
            ELSE Decided(pc + 1, fp,
                         NewWrites(frame, missing, filler) \o NewWrites(filled, c, result),
                         <<>>, addresses)
      <4>1. execute_binary(request) =
              IF WriteConflicts(filled, c, Combine(request.opcode, Read(filled, a), Read(filled, b)))
              THEN Fault("WRITE_CONFLICT")
              ELSE Decided(request.pc + 1, request.fp,
                     NewWrites(frame, missing, solved)
                       \o NewWrites(filled, c, Combine(request.opcode, Read(filled, a), Read(filled, b))),
                     <<>>, addresses)
        <5>1. /\ BackSolves(frame, a, b, c)
              /\ request.opcode = "MUL_NATIVE" =>
                   /\ known # Zero
                   /\ request.proposed_inverse.present
                   /\ field_mul(known, request.proposed_inverse.value) = One
          BY <2>4, <2>14, <3>2, Zenon
        <5> QED
          BY <1>5, <2>2, <2>6, <2>10, <5>1, BinaryShape
             DEF a, b, c, missing, known, solved, filled
      <4> QED
        BY <2>2, <2>5, <3>3, <3>7, <4>1, Zenon
    <3>10. step(op, memory, pc, fp) = StoreAndAdvance(after, pc, fp, c, result)
      <4>1. OracleBinary(memory, pc, fp, a, b, c, op.kind)
              = StoreAndAdvance(after, pc, fp, c,
                    IF op.kind = "Mul" THEN multiply(after[a].value, after[b].value)
                    ELSE Xor(after[a].value, after[b].value))
        BY <2>11, <2>14, OracleBinaryShape DEF filler, after
      <4> QED
        BY <1>3, <1>5, <3>8, <4>1, Zenon
    <3> HIDE DEF result
    <3>11. WriteConflicts(filled, c, result) <=> ~CanWrite(after, c, result)
      BY <2>7, <3>6, <3>8, StoresAlike
    <3>12. CASE WriteConflicts(filled, c, result)
      <4>1. execute(request).status = "WRITE_CONFLICT"
        <5>1. execute(request) = Fault("WRITE_CONFLICT")
          BY <3>9, <3>12, Zenon
        <5> QED
          BY <5>1 DEF Fault
      <4>2. "WRITE_CONFLICT" \notin {"OK", "U32_OVERFLOW", "ALIAS_INCONSISTENT",
                                     "BAD_POINTER", "BAD_INVERSE", "BAD_BRANCH_PROPOSAL"}
        OBVIOUS
      <4>3. Works(op) /\ transact(op) = Faulted
        BY <2>1, <4>1, <4>2, StoppedWorks, Zenon
      <4> QED
        BY <3>10, <3>11, <3>12, <4>3, Zenon DEF StoreAndAdvance
    <3>13. CASE ~WriteConflicts(filled, c, result)
      <4> DEFINE writes == <<[address |-> missing, value |-> filler]>>
      <4>1. NewWrites(frame, missing, filler) = writes /\ NewWrites(filled, c, result) = <<>>
        <5>1. ~frame[missing].present /\ filled[c].present
          BY <2>6, <3>1, <3>6, Zenon
        <5> QED
          BY <5>1, Zenon DEF NewWrites
      <4>2. writes \o <<>> = writes
        OBVIOUS
      <4> HIDE DEF writes
      <4>3. execute(request) = Decided(pc + 1, fp, writes, <<>>, addresses)
        BY <3>9, <3>13, <4>1, <4>2, Zenon
      <4>4. apply_writes(memory, writes) = Accepted(after)
        <5>1. MayWrite(memory, missing, filler)
          BY <3>1, Zenon DEF MayWrite
        <5>2. memory \in Memory
          BY MachineNaturals
        <5> QED
          BY <3>1, <3>3, <3>4, <5>1, <5>2, ApplyOne, Zenon DEF writes
      <4>5. \A i \in DOMAIN writes :
               writes[i].address \in {addresses[j] : j \in DOMAIN addresses}
        <5>1. \A i \in DOMAIN writes : writes[i].address = missing
          BY DEF writes
        <5> QED
          BY <3>1, <5>1, Zenon
      <4>6. /\ Works(op)
            /\ pc < INDEX_LIMIT => transact(op) = Stepped(after, pc + 1, fp)
        BY <2>1, <3>6, <4>3, <4>4, <4>5, MachineNaturals, DecidedWorks
      <4>7. CanWrite(after, c, result) /\ write_once(after, c, result) = after
        BY <2>7, <3>6, <3>8, <3>11, <3>13, StoreAgain
      <4> QED
        BY <3>10, <4>6, <4>7, Zenon DEF StoreAndAdvance
    <3> QED
      BY <3>12, <3>13
  <2> QED
    BY <2>12, <2>13, <2>14, Zenon
<1> QED
  BY <1>4, <1>5

\* The branch rule, not taken and taken.
LEMMA JumpShape ==
  ASSUME NEW request, NEW addresses, addresses = Addresses(request.fp, request.offsets),
         NEW frame, frame = Frame(addresses, request.cells),
         NEW condition, condition = Read(frame, addresses[1]),
         NEW destination, destination = Read(frame, addresses[2]),
         NEW new_frame, new_frame = Read(frame, addresses[3]),
         ~Overflows(addresses), ~AliasInconsistent(addresses, request.cells)
  PROVE  /\ (/\ condition = Zero /\ request.taken = FALSE
             /\ ~request.proposed_inverse.present
             /\ request.dest_pc = 0 /\ request.dest_fp = 0) =>
              execute_jump(request)
                = Decided(request.pc + 1, request.fp, <<>>, <<>>, addresses)
         /\ (/\ condition # Zero /\ request.taken = TRUE
             /\ request.proposed_inverse.present
             /\ field_mul(condition, request.proposed_inverse.value) = One
             /\ TargetFault(request, destination, new_frame) = "OK") =>
              execute_jump(request)
                = Decided(request.dest_pc, request.dest_fp, <<>>, <<>>, addresses)
<1>1. ASSUME condition = Zero, request.taken = FALSE,
             ~request.proposed_inverse.present,
             request.dest_pc = 0, request.dest_fp = 0
      PROVE  execute_jump(request)
                = Decided(request.pc + 1, request.fp, <<>>, <<>>, addresses)
  BY <1>1, ZenonT(60) DEF execute_jump
<1>2. ASSUME condition # Zero, request.taken = TRUE,
             request.proposed_inverse.present,
             field_mul(condition, request.proposed_inverse.value) = One,
             TargetFault(request, destination, new_frame) = "OK"
      PROVE  execute_jump(request)
                = Decided(request.dest_pc, request.dest_fp, <<>>, <<>>, addresses)
  BY <1>2, ZenonT(60) DEF execute_jump
<1> QED
  BY <1>1, <1>2, Zenon

\* JUMP.
LEMMA JumpWorks ==
  ASSUME MachineType, NEW op, IsSlot(op), op.kind = "Jump"
  PROVE  Works(op) /\ (pc < INDEX_LIMIT => transact(op) = step(op, memory, pc, fp))
<1> DEFINE addresses == Addresses(fp, op.offsets)
           cells     == CellsAt(memory, addresses)
           packed    == Packed(op, Here, cells)
           frame     == Frame(addresses, cells)
           a         == addresses[1]
           b         == addresses[2]
           c         == addresses[3]
           taken     == cells[1].present /\ cells[1].value # Zero
           jump      == [packed EXCEPT
                           !.taken   = TRUE,
                           !.dest_pc = index_of(cells[2].value),
                           !.dest_fp = index_of(cells[3].value),
                           !.proposed_inverse = Present(field_inverse(cells[1].value))]
           bad       == \E i \in {2, 3} : ~cells[i].present \/ ~IsPointer(cells[i].value)
<1>0. op.kind # "Blake3" /\ op.kind # "Set" /\ op.kind # "Deref"
      /\ op.kind # "Xor" /\ op.kind # "Mul"
  OBVIOUS
<1>1. /\ DOMAIN op.offsets = 1..3 /\ DOMAIN addresses = 1..3
      /\ 1 \in 1..3 /\ 2 \in 1..3 /\ 3 \in 1..3
      /\ a = fp + op.offsets[1] /\ b = fp + op.offsets[2] /\ c = fp + op.offsets[3]
  <2>1. DOMAIN op.offsets = 1..3 /\ 1 \in 1..3 /\ 2 \in 1..3 /\ 3 \in 1..3
    BY DEF IsSlot
  <2> HIDE DEF addresses
  <2>2. /\ DOMAIN addresses = DOMAIN op.offsets
        /\ \A i \in DOMAIN op.offsets : addresses[i] = fp + op.offsets[i]
    BY <1>0, OffsetAddresses DEF addresses
  <2> QED
    BY <2>1, <2>2, Zenon
<1>2. prepare(op, Here, memory) =
        IF Overflows(addresses) THEN Refused("U32_OVERFLOW")
        ELSE IF ~taken THEN Prepared(packed, addresses)
        ELSE IF bad THEN Refused("BAD_POINTER")
        ELSE Prepared(jump, addresses)
  BY <1>0, HereFields, Zenon DEF prepare, PrepareJump
<1>3. step(op, memory, pc, fp) = IF Overflows(addresses) THEN Faulted
                                 ELSE StepJump(memory, pc, fp, a, b, c)
  <2>1. (\E i \in LocalOperands(op) : fp + op.offsets[i] > AddressMax) <=> Overflows(addresses)
    BY <1>0, OffsetAddresses, Zenon DEF LocalOperands
  <2>2. op.kind \notin {"Xor", "Mul"}
    BY <1>0
  <2> HIDE DEF addresses
  <2> QED
    BY <1>0, <1>1, <2>1, <2>2, Zenon DEF step
<1>4. CASE Overflows(addresses)
  <2>1. "U32_OVERFLOW" # "no"
    OBVIOUS
  <2> QED
    BY <1>2, <1>3, <1>4, <2>1, RefusedWorks, Zenon
<1>5. CASE ~Overflows(addresses)
  <2>1. /\ ~AliasInconsistent(addresses, cells)
        /\ frame[a] = memory[a] /\ frame[b] = memory[b] /\ frame[c] = memory[c]
        /\ cells[1] = memory[a] /\ cells[2] = memory[b] /\ cells[3] = memory[c]
    <3>1. ~AliasInconsistent(addresses, cells)
      BY PackedFrame
    <3>2. ASSUME NEW i \in 1..3
          PROVE  frame[addresses[i]] = memory[addresses[i]] /\ cells[i] = memory[addresses[i]]
      <4>1. i \in DOMAIN addresses
        BY <1>1
      <4> HIDE DEF addresses
      <4> QED
        BY <4>1, FrameAt
    <3> QED
      BY <1>1, <3>1, <3>2, Zenon
  <2>2. memory[a] \in Cell /\ memory[b] \in Cell /\ memory[c] \in Cell
    <3>1. a \in Address /\ b \in Address /\ c \in Address
      BY <1>0, <1>1, <1>5, OffsetAddresses, Zenon
    <3> HIDE DEF a, b, c
    <3> QED
      BY <3>1, MachineNaturals DEF Memory
  <2> DEFINE condition == memory[a].value
             destination == memory[b].value
             new_frame == memory[c].value
  <2>3. /\ Read(frame, a) = condition
        /\ Read(frame, b) = destination
        /\ Read(frame, c) = new_frame
    <3>1. frame[a] \in Cell /\ frame[b] \in Cell /\ frame[c] \in Cell
      BY <2>1, <2>2, Zenon
    <3> HIDE DEF frame, a, b, c
    <3>2. /\ Read(frame, a) = frame[a].value /\ Read(frame, b) = frame[b].value
          /\ Read(frame, c) = frame[c].value
      BY <3>1, ReadsTheWord
    <3> QED
      BY <2>1, <3>2, Zenon
  <2>4. /\ condition \in Word
        /\ ~memory[a].present => condition = Zero
        /\ ~memory[b].present => destination = Zero
        /\ ~memory[c].present => new_frame = Zero
    <3>1. ABSENT.value = Zero
      BY DEF ABSENT
    <3> QED
      BY <2>2, <3>1, CellType, Zenon
  <2>5. taken <=> condition # Zero
    BY <2>1, <2>4, Zenon
  <2>6. step(op, memory, pc, fp) =
          IF condition = Zero THEN Stepped(memory, pc + 1, fp)
          ELSE IF Preimages(destination) = {} \/ Preimages(new_frame) = {} THEN Faulted
          ELSE Stepped(memory, reverse(destination), reverse(new_frame))
    BY <1>3, <1>5, Zenon DEF StepJump, read
  <2>7. memory \in Memory /\ apply_writes(memory, <<>>) = Accepted(memory)
    BY MachineNaturals, ApplyNone
  <2>8. ASSUME NEW set PROVE \A i \in DOMAIN <<>> : <<>>[i].address \in set
    OBVIOUS
  <2> HIDE DEF taken, addresses, cells, frame, a, b, c
  <2>9. CASE condition = Zero
    <3>1. prepare(op, Here, memory) = Prepared(packed, addresses)
      BY <1>2, <1>5, <2>5, <2>9, Zenon
    <3>2. /\ packed.opcode = "JUMP" /\ packed.fp = fp /\ packed.pc = pc
          /\ packed.cells = cells /\ packed.offsets = op.offsets
          /\ packed.taken = FALSE /\ packed.dest_pc = 0 /\ packed.dest_fp = 0
          /\ packed.proposed_inverse = ABSENT
      <4>1. OpcodeOf(op) = "JUMP"
        BY Opcodes
      <4> QED
        BY <4>1, HereFields, Zenon DEF Packed
    <3> HIDE DEF packed
    <3>3. execute(packed) = execute_jump(packed)
      <4>1. /\ "JUMP" \notin {"XOR", "MUL_NATIVE"} /\ "JUMP" # "SET_CONSTANT"
            /\ "JUMP" \notin {"DEREF_CELL", "DEREF_PC", "DEREF_FP"}
        OBVIOUS
      <4> QED
        BY <3>2, <4>1, Zenon DEF execute
    <3>4. ABSENT.present = FALSE
      BY DEF ABSENT
    <3>5. ~packed.proposed_inverse.present
      BY <3>2, <3>4, Zenon
    <3>6. addresses = Addresses(packed.fp, packed.offsets) /\ frame = Frame(addresses, packed.cells)
      BY <3>2, Zenon DEF addresses, frame
    <3>7. execute_jump(packed) = Decided(packed.pc + 1, packed.fp, <<>>, <<>>, addresses)
      <4>1. Read(frame, addresses[1]) = Zero
        BY <2>3, <2>9, Zenon DEF a
      <4> HIDE DEF condition
      <4> QED
        BY <1>5, <2>1, <3>2, <3>5, <3>6, <4>1, JumpShape
    <3>8. execute(packed) = Decided(pc + 1, fp, <<>>, <<>>, addresses)
      BY <3>2, <3>3, <3>7, Zenon
    <3>9. Works(op) /\ (pc < INDEX_LIMIT => transact(op) = Stepped(memory, pc + 1, fp))
      BY <2>7, <2>8, <3>1, <3>8, MachineNaturals, DecidedWorks
    <3> QED
      BY <2>6, <2>9, <3>9, Zenon
  <2>10. CASE condition # Zero /\ bad
    <3>1. prepare(op, Here, memory) = Refused("BAD_POINTER") /\ "BAD_POINTER" # "no"
      <4>1. "BAD_POINTER" # "no"
        OBVIOUS
      <4> QED
        BY <1>2, <1>5, <2>5, <2>10, <4>1, Zenon
    <3>2. Works(op) /\ transact(op) = Faulted
      BY <3>1, RefusedWorks, Zenon
    <3>3. Preimages(destination) = {} \/ Preimages(new_frame) = {}
      <4>1. \/ ~memory[b].present \/ ~IsPointer(destination)
            \/ ~memory[c].present \/ ~IsPointer(new_frame)
        <5> HIDE DEF destination, new_frame
        <5>1. PICK i \in {2, 3} : ~cells[i].present \/ ~IsPointer(cells[i].value)
          BY <2>10, Zenon
        <5> QED
          BY <2>1, <5>1 DEF destination, new_frame
      <4>2. ~IsPointer(destination) \/ ~IsPointer(new_frame)
        BY <2>4, <4>1, PointersAgree, Zenon
      <4> QED
        BY <4>2, PointersAgree, Zenon
    <3> QED
      BY <2>6, <2>10, <3>2, <3>3, Zenon
  <2>11. CASE condition # Zero /\ ~bad
    <3>1. prepare(op, Here, memory) = Prepared(jump, addresses)
      BY <1>2, <1>5, <2>5, <2>11, Zenon
    <3>2. IsPointer(destination) /\ IsPointer(new_frame)
      <4>1. 2 \in {2, 3} /\ 3 \in {2, 3}
        OBVIOUS
      <4>2. IsPointer(cells[2].value) /\ IsPointer(cells[3].value)
        BY <2>11, <4>1, Zenon
      <4> QED
        BY <2>1, <4>2, Zenon
    <3>3. /\ jump.opcode = "JUMP" /\ jump.fp = fp /\ jump.pc = pc
          /\ jump.cells = cells /\ jump.offsets = op.offsets
          /\ jump.taken = TRUE /\ jump.dest_pc = index_of(destination)
          /\ jump.dest_fp = index_of(new_frame)
          /\ jump.proposed_inverse = Present(field_inverse(condition))
      <4>1. OpcodeOf(op) = "JUMP"
        BY Opcodes
      <4>2. /\ jump.opcode = OpcodeOf(op) /\ jump.fp = Here.fp /\ jump.pc = Here.pc
            /\ jump.cells = cells /\ jump.offsets = op.offsets
            /\ jump.dest_pc = index_of(cells[2].value)
            /\ jump.dest_fp = index_of(cells[3].value)
            /\ jump.proposed_inverse = Present(field_inverse(cells[1].value))
        BY DEF Packed
      <4>3. jump.taken = TRUE
        BY Zenon DEF Packed
      <4> HIDE DEF jump
      <4> QED
        BY <2>1, <4>1, <4>2, <4>3, HereFields, Zenon
    <3> HIDE DEF jump
    <3>4. execute(jump) = execute_jump(jump)
      <4>1. /\ "JUMP" \notin {"XOR", "MUL_NATIVE"} /\ "JUMP" # "SET_CONSTANT"
            /\ "JUMP" \notin {"DEREF_CELL", "DEREF_PC", "DEREF_FP"}
        OBVIOUS
      <4> QED
        BY <3>3, <4>1, Zenon DEF execute
    <3>5. /\ jump.proposed_inverse.present
          /\ field_mul(condition, jump.proposed_inverse.value) = One
      <4>1. Present(field_inverse(condition)).present = TRUE
            /\ Present(field_inverse(condition)).value = field_inverse(condition)
        BY Zenon DEF Present
      <4>2. field_mul(condition, field_inverse(condition)) = One
        <5> HIDE DEF condition
        <5> QED
          BY <2>4, <2>11, InverseInverts
      <4> QED
        BY <3>3, <4>1, <4>2, Zenon
    <3> DEFINE next_pc == index_of(destination)
               next_fp == index_of(new_frame)
    <3>6. /\ next_pc = reverse(destination) /\ next_fp = reverse(new_frame)
          /\ next_pc \in 0..(INDEX_LIMIT - 1) /\ next_fp \in 0..(INDEX_LIMIT - 1)
          /\ field_encode(next_pc) = destination /\ field_encode(next_fp) = new_frame
          /\ Preimages(destination) # {} /\ Preimages(new_frame) # {}
      BY <3>2, PointersAgree, Zenon
    <3> HIDE DEF next_pc, next_fp
    <3>7. TargetFault(jump, destination, new_frame) = "OK"
      <4>1. ~(next_pc >= INDEX_LIMIT) /\ ~(next_fp >= INDEX_LIMIT)
        BY <3>6, MachineNaturals
      <4> QED
        BY <3>3, <3>6, <4>1, Zenon DEF TargetFault, next_pc, next_fp
    <3>8. addresses = Addresses(jump.fp, jump.offsets) /\ frame = Frame(addresses, jump.cells)
      BY <3>3, Zenon DEF addresses, frame
    <3>9. execute_jump(jump) = Decided(jump.dest_pc, jump.dest_fp, <<>>, <<>>, addresses)
      <4>1. /\ condition = Read(frame, addresses[1])
            /\ destination = Read(frame, addresses[2])
            /\ new_frame = Read(frame, addresses[3])
        BY <2>3, Zenon DEF a, b, c
      <4>2. /\ Read(frame, addresses[1]) # Zero
            /\ field_mul(Read(frame, addresses[1]), jump.proposed_inverse.value) = One
            /\ TargetFault(jump, Read(frame, addresses[2]), Read(frame, addresses[3])) = "OK"
        BY <2>11, <3>5, <3>7, <4>1, Zenon
      <4>3. /\ ~Overflows(addresses) /\ ~AliasInconsistent(addresses, jump.cells)
            /\ jump.taken = TRUE /\ jump.proposed_inverse.present
        BY <1>5, <2>1, <3>3, <3>5, Zenon
      <4> HIDE DEF condition, destination, new_frame
      <4> QED
        BY <3>8, <4>2, <4>3, JumpShape
    <3>10. execute(jump) = Decided(next_pc, next_fp, <<>>, <<>>, addresses)
      BY <3>3, <3>4, <3>9, Zenon DEF next_pc, next_fp
    <3>11. next_pc \in 0..INDEX_LIMIT
      BY <3>6, MachineNaturals
    <3>12. Works(op) /\ (pc < INDEX_LIMIT => transact(op) = Stepped(memory, next_pc, next_fp))
      BY <2>7, <2>8, <3>1, <3>6, <3>10, <3>11, DecidedWorks
    <3> QED
      BY <2>6, <2>11, <3>6, <3>12, Zenon
  <2> QED
    BY <2>9, <2>10, <2>11, Zenon
<1> QED
  BY <1>4, <1>5

\* The dereference rule once its pointer is proved.
LEMMA DerefShape ==
  ASSUME NEW request,
         NEW pointer, pointer = request.fp + request.offsets[1],
         NEW local, local = request.fp + request.offsets[3],
         NEW target, target = request.base + request.offsets[2],
         NEW addresses, addresses = <<pointer, target, local>>,
         NEW frame, frame = Frame(addresses, request.cells),
         ~(pointer > U32_MAX), ~(local > U32_MAX), ~(target > U32_MAX),
         ~(request.base >= INDEX_LIMIT),
         field_encode(request.base) = request.cells[1].value,
         ~AliasInconsistent(addresses, request.cells)
  PROVE  /\ request.opcode = "DEREF_CELL" =>
              execute_deref(request)
                = DerefCell(request, frame, target, local, addresses)
         /\ request.opcode # "DEREF_CELL" =>
              execute_deref(request) =
                IF DerefIndex(request) >= INDEX_LIMIT THEN Fault("INDEX_RANGE")
                ELSE IF WriteConflicts(frame, target, field_encode(DerefIndex(request)))
                THEN Fault("WRITE_CONFLICT")
                ELSE Decided(request.pc + 1, request.fp,
                             NewWrites(frame, target, field_encode(DerefIndex(request))),
                             <<>>, addresses)
<1>1. ASSUME request.opcode = "DEREF_CELL"
      PROVE  execute_deref(request)
               = DerefCell(request, frame, target, local, addresses)
  BY <1>1, ZenonT(60) DEF execute_deref
<1>2. ASSUME request.opcode # "DEREF_CELL"
      PROVE  execute_deref(request) =
                IF DerefIndex(request) >= INDEX_LIMIT THEN Fault("INDEX_RANGE")
                ELSE IF WriteConflicts(frame, target, field_encode(DerefIndex(request)))
                THEN Fault("WRITE_CONFLICT")
                ELSE Decided(request.pc + 1, request.fp,
                             NewWrites(frame, target, field_encode(DerefIndex(request))),
                             <<>>, addresses)
  BY <1>2, ZenonT(60) DEF execute_deref
<1> QED
  BY <1>1, <1>2, Zenon

\* DEREF_CELL writes the one of the two cells that is absent, or nothing.
LEMMA DerefCellShape ==
  ASSUME NEW request, request.profile = INTERPRETER_COMPAT, NEW frame,
         NEW target, NEW local, NEW addresses,
         NEW outcome, outcome = DerefCell(request, frame, target, local, addresses)
  PROVE  \/ outcome = Fault("DEREF_MISMATCH")
         \/ /\ frame[local].present => Read(frame, target) = Read(frame, local)
            /\ frame[target].present
            /\ outcome = Decided(request.pc + 1, request.fp,
                           NewWrites(frame, local, Read(frame, target)), <<>>, addresses)
         \/ /\ ~frame[target].present
            /\ outcome = Decided(request.pc + 1, request.fp,
                           NewWrites(frame, target, Read(frame, local)), <<>>, addresses)
         \/ outcome = Decided(request.pc + 1, request.fp, <<>>,
                        <<[target |-> target, local |-> local]>>, addresses)
<1>1. request.profile # FORWARD_ONLY
  BY DEF FORWARD_ONLY, INTERPRETER_COMPAT
<1> QED
  BY <1>1, ZenonT(60) DEF DerefCell

\* A decided store advances the machine.
LEMMA StoreWorks ==
  ASSUME MachineType,
         NEW op, NEW request, NEW addresses,
         prepare(op, Here, memory) = Prepared(request, addresses),
         NEW address \in Address, NEW value \in Word,
         address \in {addresses[j] : j \in DOMAIN addresses},
         NEW frame, frame[address] = memory[address],
         ~WriteConflicts(frame, address, value),
         NEW deferred, NEW accesses,
         execute(request) = Decided(pc + 1, fp, NewWrites(frame, address, value),
                                    deferred, accesses)
  PROVE  /\ Works(op)
         /\ pc < INDEX_LIMIT =>
              transact(op) = Stepped(write_once(memory, address, value), pc + 1, fp)
<1>1. /\ apply_writes(memory, NewWrites(frame, address, value))
           = Accepted(write_once(memory, address, value))
      /\ write_once(memory, address, value) \in Memory
      /\ \A i \in DOMAIN NewWrites(frame, address, value) :
            NewWrites(frame, address, value)[i].address = address
  BY MachineNaturals, StoresAlike
<1>2. \A i \in DOMAIN NewWrites(frame, address, value) :
         NewWrites(frame, address, value)[i].address \in {addresses[j] : j \in DOMAIN addresses}
  BY <1>1, Zenon
<1> QED
  BY <1>1, <1>2, MachineNaturals, DecidedWorks

\* A DEREF that the machine's limits do not refuse: the endpoint's part.
LEMMA DerefDecides ==
  ASSUME MachineType, NEW op, IsSlot(op), op.kind = "Deref",
         NEW base, base \in 0..(INDEX_LIMIT - 1),
         NEW pointer, pointer = fp + op.offsets[1],
         NEW target, target = base + op.offsets[2],
         NEW local, local = fp + op.offsets[3],
         pointer \in Address, target \in Address, local \in Address,
         field_encode(base) = memory[pointer].value,
         NEW addresses, addresses = <<pointer, target, local>>,
         NEW request, Carries(request, op, Here, CellsAt(memory, addresses)),
         request.base = base,
         prepare(op, Here, memory) = Prepared(request, addresses),
         NEW index, index = (IF op.mode = "Pc" THEN pc + 2 ELSE fp)
  PROVE  /\ Works(op)
         /\ op.mode # "Cell" =>
              /\ index >= INDEX_LIMIT => transact(op) = Faulted
              /\ (pc < INDEX_LIMIT /\ ~(index >= INDEX_LIMIT)) =>
                   transact(op) = StoreAndAdvance(memory, pc, fp, target, encode(index))
<1> DEFINE cells == CellsAt(memory, addresses)
           frame == Frame(addresses, cells)
<1>1. /\ request.opcode = OpcodeOf(op) /\ request.fp = fp /\ request.pc = pc
      /\ request.cells = cells /\ request.offsets = op.offsets
      /\ request.profile = INTERPRETER_COMPAT
  BY HereFields, Zenon DEF Carries
<1>2. request.base = base
  OBVIOUS
<1>3. /\ op.mode \in {"Cell", "Pc", "Fp"}
      /\ request.opcode = IF op.mode = "Cell" THEN "DEREF_CELL"
                          ELSE IF op.mode = "Pc" THEN "DEREF_PC" ELSE "DEREF_FP"
  <2>1. op.mode \in {"Cell", "Pc", "Fp"}
    BY DEF IsSlot
  <2>2. OpcodeOf(op) = IF op.mode = "Cell" THEN "DEREF_CELL"
                       ELSE IF op.mode = "Pc" THEN "DEREF_PC" ELSE "DEREF_FP"
    BY Opcodes
  <2> QED
    BY <1>1, <2>1, <2>2, Zenon
<1>4. execute(request) = execute_deref(request)
  <2>1. /\ request.opcode \in {"DEREF_CELL", "DEREF_PC", "DEREF_FP"}
        /\ request.opcode \notin {"XOR", "MUL_NATIVE"} /\ request.opcode # "SET_CONSTANT"
    BY <1>3
  <2> QED
    BY <2>1, Zenon DEF execute
<1>5. /\ ~AliasInconsistent(addresses, cells)
      /\ frame[target] = memory[target] /\ frame[local] = memory[local]
      /\ cells[1] = memory[pointer]
      /\ target \in {addresses[j] : j \in DOMAIN addresses}
      /\ local \in {addresses[j] : j \in DOMAIN addresses}
  <2>1. /\ DOMAIN addresses = 1..3 /\ 1 \in 1..3 /\ 2 \in 1..3 /\ 3 \in 1..3
        /\ addresses[1] = pointer /\ addresses[2] = target /\ addresses[3] = local
    OBVIOUS
  <2>2. ~AliasInconsistent(addresses, cells)
    BY PackedFrame
  <2>3. ASSUME NEW i \in 1..3
        PROVE  frame[addresses[i]] = memory[addresses[i]] /\ cells[i] = memory[addresses[i]]
    <3>1. i \in DOMAIN addresses
      BY <2>1
    <3> QED
      BY <3>1, FrameAt
  <2> QED
    BY <2>1, <2>2, <2>3, Zenon
<1>6. /\ memory \in Memory /\ memory[target] \in Cell /\ memory[local] \in Cell
      /\ frame[target] \in Cell /\ frame[local] \in Cell
  <2>1. memory[target] \in Cell /\ memory[local] \in Cell
    BY MachineNaturals DEF Memory
  <2> QED
    BY <1>5, <2>1, MachineNaturals, Zenon
<1>7. /\ ~(pointer > U32_MAX) /\ ~(target > U32_MAX) /\ ~(local > U32_MAX)
      /\ ~(request.base >= INDEX_LIMIT)
  BY <1>2, MachineNaturals DEF Address
<1>8. /\ pointer = request.fp + request.offsets[1]
      /\ local = request.fp + request.offsets[3]
      /\ target = request.base + request.offsets[2]
      /\ field_encode(request.base) = request.cells[1].value
      /\ ~AliasInconsistent(addresses, request.cells)
      /\ frame = Frame(addresses, request.cells)
  BY <1>1, <1>2, <1>5, Zenon
<1> HIDE DEF frame, cells
<1>9. CASE op.mode = "Cell"
  <2>1. request.opcode = "DEREF_CELL"
    BY <1>3, <1>9
  <2>2. execute(request) = DerefCell(request, frame, target, local, addresses)
    BY <1>4, <1>7, <1>8, <2>1, DerefShape
  <2> DEFINE Done(writes, deferred) == Decided(pc + 1, fp, writes, deferred, addresses)
  <2>3. \/ execute(request) = Fault("DEREF_MISMATCH")
        \/ /\ frame[local].present => Read(frame, target) = Read(frame, local)
           /\ frame[target].present
           /\ execute(request) = Done(NewWrites(frame, local, Read(frame, target)), <<>>)
        \/ /\ ~frame[target].present
           /\ execute(request) = Done(NewWrites(frame, target, Read(frame, local)), <<>>)
        \/ execute(request) = Done(<<>>, <<[target |-> target, local |-> local]>>)
    BY <1>1, <2>2, DerefCellShape
  <2>4. /\ Read(frame, target) \in Word /\ Read(frame, local) \in Word
        /\ frame[local].value = Read(frame, local)
    BY <1>6, ReadType, ReadsTheWord
  <2>5. CASE execute(request) = Fault("DEREF_MISMATCH")
    <3>1. /\ execute(request).status = "DEREF_MISMATCH"
          /\ "DEREF_MISMATCH" \notin {"OK", "U32_OVERFLOW", "ALIAS_INCONSISTENT",
                                      "BAD_POINTER", "BAD_INVERSE", "BAD_BRANCH_PROPOSAL"}
      BY <2>5 DEF Fault
    <3> QED
      BY <1>9, <3>1, StoppedWorks, Zenon
  <2>6. ASSUME NEW address \in {target, local}, NEW value \in Word, NEW deferred,
               ~WriteConflicts(frame, address, value),
               execute(request) = Done(NewWrites(frame, address, value), deferred)
        PROVE  Works(op)
    <3>1. /\ address \in Address /\ frame[address] = memory[address]
          /\ address \in {addresses[j] : j \in DOMAIN addresses}
      BY <1>5
    <3>2. execute(request) = Decided(pc + 1, fp, NewWrites(frame, address, value),
                                     deferred, addresses)
      BY <2>6, Zenon
    <3> QED
      BY <2>6, <3>1, <3>2, StoreWorks
  <2>7. CASE /\ frame[local].present => Read(frame, target) = Read(frame, local)
             /\ frame[target].present
             /\ execute(request) = Done(NewWrites(frame, local, Read(frame, target)), <<>>)
    <3>1. ~WriteConflicts(frame, local, Read(frame, target))
      BY <2>4, <2>7, Zenon DEF WriteConflicts
    <3>2. local \in {target, local}
      OBVIOUS
    <3> HIDE DEF Done
    <3> QED
      BY <1>9, <2>4, <2>6, <2>7, <3>1, <3>2, Zenon
  <2>8. CASE /\ ~frame[target].present
             /\ execute(request) = Done(NewWrites(frame, target, Read(frame, local)), <<>>)
    <3>1. ~WriteConflicts(frame, target, Read(frame, local))
      BY <2>8, Zenon DEF WriteConflicts
    <3>2. target \in {target, local}
      OBVIOUS
    <3> HIDE DEF Done
    <3> QED
      BY <1>9, <2>4, <2>6, <2>8, <3>1, <3>2, Zenon
  <2>9. CASE execute(request) = Done(<<>>, <<[target |-> target, local |-> local]>>)
    <3>1. apply_writes(memory, <<>>) = Accepted(memory)
      BY <1>6, ApplyNone
    <3>2. \A i \in DOMAIN <<>> :
             <<>>[i].address \in {addresses[j] : j \in DOMAIN addresses}
      OBVIOUS
    <3>3. \E deferred : execute(request) = Decided(pc + 1, fp, <<>>, deferred, addresses)
      BY <2>9, Zenon
    <3> QED
      BY <1>6, <1>9, <3>1, <3>2, <3>3, MachineNaturals, DecidedWorks
  <2> QED
    BY <2>3, <2>5, <2>7, <2>8, <2>9, Zenon
<1>10. CASE op.mode # "Cell"
  <2> DEFINE value == encode(index)
  <2>1. request.opcode # "DEREF_CELL" /\ DerefIndex(request) = index
    <3>1. /\ request.opcode # "DEREF_CELL"
          /\ request.opcode = "DEREF_PC" <=> op.mode = "Pc"
      BY <1>3, <1>10
    <3>2. CASE op.mode = "Pc"
      BY <1>1, <3>1, <3>2, Zenon DEF DerefIndex
    <3>3. CASE op.mode # "Pc"
      BY <1>1, <3>1, <3>3, Zenon DEF DerefIndex
    <3> QED
      BY <3>1, <3>2, <3>3, Zenon
  <2>2. execute(request) =
          IF index >= INDEX_LIMIT THEN Fault("INDEX_RANGE")
          ELSE IF WriteConflicts(frame, target, field_encode(index)) THEN Fault("WRITE_CONFLICT")
          ELSE Decided(pc + 1, fp, NewWrites(frame, target, field_encode(index)), <<>>, addresses)
    <3>1. execute_deref(request) =
            IF DerefIndex(request) >= INDEX_LIMIT THEN Fault("INDEX_RANGE")
            ELSE IF WriteConflicts(frame, target, field_encode(DerefIndex(request)))
            THEN Fault("WRITE_CONFLICT")
            ELSE Decided(request.pc + 1, request.fp,
                         NewWrites(frame, target, field_encode(DerefIndex(request))),
                         <<>>, addresses)
      BY <1>7, <1>8, <2>1, DerefShape
    <3> QED
      BY <1>1, <1>4, <2>1, <3>1, Zenon
  <2>3. CASE index >= INDEX_LIMIT
    <3>1. /\ execute(request).status = "INDEX_RANGE"
          /\ "INDEX_RANGE" \notin {"OK", "U32_OVERFLOW", "ALIAS_INCONSISTENT",
                                   "BAD_POINTER", "BAD_INVERSE", "BAD_BRANCH_PROPOSAL"}
      <4>1. execute(request) = Fault("INDEX_RANGE")
        BY <2>2, <2>3, Zenon
      <4> QED
        BY <4>1 DEF Fault
    <3> QED
      BY <2>3, <3>1, StoppedWorks, Zenon
  <2>4. CASE ~(index >= INDEX_LIMIT)
    <3>1. index \in 0..(INDEX_LIMIT - 1) /\ index \in Nat
      BY <2>4, MachineNaturals
    <3>2. field_encode(index) = value /\ value \in Word
      BY <3>1, FieldEncodeIsEncode, EncodePowers
    <3> HIDE DEF value
    <3>3. WriteConflicts(frame, target, value) <=> ~CanWrite(memory, target, value)
      BY <1>5, <1>6, <3>2, StoresAlike
    <3>4. CASE WriteConflicts(frame, target, value)
      <4>1. /\ execute(request).status = "WRITE_CONFLICT"
            /\ "WRITE_CONFLICT" \notin {"OK", "U32_OVERFLOW", "ALIAS_INCONSISTENT",
                                     "BAD_POINTER", "BAD_INVERSE", "BAD_BRANCH_PROPOSAL"}
        <5>1. execute(request) = Fault("WRITE_CONFLICT")
          BY <2>2, <2>4, <3>2, <3>4, Zenon
        <5> QED
          BY <5>1 DEF Fault
      <4>2. Works(op) /\ transact(op) = Faulted
        BY <4>1, StoppedWorks, Zenon
      <4> QED
        BY <2>4, <3>3, <3>4, <4>2, Zenon DEF StoreAndAdvance, value
    <3>5. CASE ~WriteConflicts(frame, target, value)
      <4>1. execute(request) = Decided(pc + 1, fp, NewWrites(frame, target, value), <<>>, addresses)
        BY <2>2, <2>4, <3>2, <3>5, Zenon
      <4>2. /\ Works(op)
            /\ pc < INDEX_LIMIT =>
                 transact(op) = Stepped(write_once(memory, target, value), pc + 1, fp)
        <5>1. /\ value \in Word /\ frame[target] = memory[target]
              /\ target \in {addresses[j] : j \in DOMAIN addresses}
          BY <1>5, <3>2, Zenon
        <5>2. ASSUME NEW stored \in Word, NEW left,
                     ~WriteConflicts(left, target, stored),
                     left[target] = memory[target],
                     target \in {addresses[j] : j \in DOMAIN addresses},
                     execute(request) = Decided(pc + 1, fp, NewWrites(left, target, stored),
                                                <<>>, addresses)
              PROVE  /\ Works(op)
                     /\ pc < INDEX_LIMIT =>
                          transact(op) = Stepped(write_once(memory, target, stored), pc + 1, fp)
          BY ONLY MachineType, prepare(op, Here, memory) = Prepared(request, addresses),
                  target \in Address, <5>2, StoreWorks
        <5> QED
          BY <3>5, <4>1, <5>1, <5>2, Zenon
      <4> QED
        BY <2>4, <3>3, <3>5, <4>2, Zenon DEF StoreAndAdvance, value
    <3> QED
      BY <3>4, <3>5
  <2> QED
    BY <2>3, <2>4
<1> QED
  BY <1>9, <1>10

\* DEREF: every refusal of the host is one of the oracle's or one that LSC-1 v1 adds.
LEMMA DerefWorks ==
  ASSUME MachineType, NEW op, IsSlot(op), op.kind = "Deref"
  PROVE  /\ Works(op)
         /\ (pc < INDEX_LIMIT /\ op.mode # "Cell") =>
              IF OutsideV1(op) THEN transact(op) = Faulted
              ELSE transact(op) = step(op, memory, pc, fp)
<1> DEFINE pointer   == fp + op.offsets[1]
           word      == memory[pointer].value
           base      == index_of(word)
           target    == base + op.offsets[2]
           local     == fp + op.offsets[3]
           addresses == <<pointer, target, local>>
           cells     == CellsAt(memory, addresses)
           request   == [Packed(op, Here, cells) EXCEPT !.base = base]
           index     == IF op.mode = "Pc" THEN pc + 2 ELSE fp
           found     == memory[pointer].present /\ IsPointer(word)
<1>0. op.kind # "Blake3" /\ op.kind # "Set" /\ op.kind # "Jump"
      /\ op.kind # "Xor" /\ op.kind # "Mul" /\ op.kind = "Deref"
  OBVIOUS
<1>1. /\ op.offsets[1] \in Nat /\ op.offsets[2] \in Nat /\ op.offsets[3] \in Nat
      /\ pointer \in Nat /\ local \in Nat
      /\ ~(pointer > U32_MAX) => pointer \in Address
      /\ ~(local > U32_MAX) => local \in Address
  <2>1. DOMAIN op.offsets = 1..3 /\ \A i \in DOMAIN op.offsets : op.offsets[i] \in Nat
    BY <1>0, Zenon DEF IsSlot
  <2>2. 1 \in 1..3 /\ 2 \in 1..3 /\ 3 \in 1..3
    OBVIOUS
  <2>3. op.offsets[1] \in Nat /\ op.offsets[2] \in Nat /\ op.offsets[3] \in Nat
    BY <2>1, <2>2, Zenon
  <2> QED
    BY <2>3, MachineNaturals DEF Address
<1>2. prepare(op, Here, memory) =
        IF pointer > U32_MAX THEN Refused("U32_OVERFLOW")
        ELSE IF ~found THEN Refused("BAD_POINTER")
        ELSE IF target > U32_MAX \/ local > U32_MAX THEN Refused("U32_OVERFLOW")
        ELSE Prepared(request, addresses)
  BY <1>0, HereFields, Zenon DEF prepare, PrepareDeref
<1>3. step(op, memory, pc, fp) =
        IF pointer > U32_MAX THEN Faulted
        ELSE IF Preimages(word) = {} THEN Faulted
        ELSE IF reverse(word) + op.offsets[2] > U32_MAX THEN Faulted
        ELSE StoreAndAdvance(memory, pc, fp, reverse(word) + op.offsets[2], encode(index))
  <2>1. (\E i \in LocalOperands(op) : fp + op.offsets[i] > AddressMax) <=> pointer > U32_MAX
    BY <1>0, SameAddresses DEF LocalOperands
  <2>2. op.kind \notin {"Xor", "Mul"}
    BY <1>0
  <2>3. step(op, memory, pc, fp) = IF pointer > U32_MAX THEN Faulted
                                   ELSE StepDeref(memory, pc, fp, pointer, op.offsets[2], index)
    BY <1>0, <2>1, <2>2, Zenon DEF step
  <2>4. StepDeref(memory, pc, fp, pointer, op.offsets[2], index) =
          IF Preimages(word) = {} THEN Faulted
          ELSE IF reverse(word) + op.offsets[2] > U32_MAX THEN Faulted
          ELSE StoreAndAdvance(memory, pc, fp, reverse(word) + op.offsets[2], encode(index))
    BY SameAddresses, Zenon DEF StepDeref, read
  <2> QED
    BY <2>3, <2>4, Zenon
<1>4. "U32_OVERFLOW" # "no" /\ "BAD_POINTER" # "no"
  OBVIOUS
<1>5. CASE pointer > U32_MAX
  <2>1. Works(op) /\ transact(op) = Faulted
    BY <1>2, <1>4, <1>5, RefusedWorks, Zenon
  <2> QED
    BY <1>3, <1>5, <2>1, Zenon
<1>6. CASE ~(pointer > U32_MAX) /\ ~found
  <2>1. Works(op) /\ transact(op) = Faulted
    BY <1>2, <1>4, <1>6, RefusedWorks, Zenon
  <2>2. Preimages(word) = {}
    <3>1. memory[pointer] \in Cell
      BY <1>1, <1>6, MachineNaturals DEF Memory
    <3>2. ~memory[pointer].present => word = Zero
      <4>1. ABSENT.value = Zero
        BY DEF ABSENT
      <4> QED
        BY <3>1, <4>1, CellType, Zenon
    <3> HIDE DEF word
    <3>3. (IsPointer(word) => word # Zero) /\ (IsPointer(word) <=> Preimages(word) # {})
      BY PointersAgree
    <3> QED
      BY <1>6, <3>2, <3>3, Zenon
  <2> QED
    BY <1>3, <1>6, <2>1, <2>2, Zenon
<1>7. CASE ~(pointer > U32_MAX) /\ found
  <2>1. /\ Preimages(word) # {} /\ base = reverse(word)
        /\ base \in 0..(INDEX_LIMIT - 1) /\ field_encode(base) = word
    <3>1. IsPointer(word)
      BY <1>7, Zenon
    <3> HIDE DEF word
    <3> QED
      BY <3>1, PointersAgree
  <2>2. step(op, memory, pc, fp) =
          IF target > U32_MAX THEN Faulted
          ELSE StoreAndAdvance(memory, pc, fp, target, encode(index))
    BY <1>3, <1>7, <2>1, Zenon
  <2>3. base \in Nat /\ target \in Nat /\ (~(target > U32_MAX) => target \in Address)
    <3> HIDE DEF base
    <3> QED
      BY <1>1, <2>1, MachineNaturals DEF Address
  <2>4. CASE target > U32_MAX \/ local > U32_MAX
    <3>1. Works(op) /\ transact(op) = Faulted
      BY <1>2, <1>4, <1>7, <2>4, RefusedWorks, Zenon
    <3>2. local > U32_MAX => OutsideV1(op)
      BY <1>0, Zenon DEF OutsideV1
    <3> QED
      BY <2>2, <2>4, <3>1, <3>2, Zenon
  <2>5. CASE ~(target > U32_MAX) /\ ~(local > U32_MAX)
    <3>1. prepare(op, Here, memory) = Prepared(request, addresses)
      BY <1>2, <1>7, <2>5, Zenon
    <3>2. pointer \in Address /\ target \in Address /\ local \in Address
      BY <1>1, <1>7, <2>3, <2>5, Zenon
    <3>3. Carries(request, op, Here, cells) /\ request.base = base
      <4> HIDE DEF cells, base
      <4>1. Carries(request, op, Here, cells)
        BY <2>3, PackedCarries
      <4>2. request.base = base
        BY DEF Packed
      <4> QED
        BY <4>1, <4>2
    <3>4. field_encode(base) = memory[pointer].value
      BY <2>1, Zenon
    <3>5. /\ Works(op)
          /\ op.mode # "Cell" =>
               /\ index >= INDEX_LIMIT => transact(op) = Faulted
               /\ (pc < INDEX_LIMIT /\ ~(index >= INDEX_LIMIT)) =>
                    transact(op) = StoreAndAdvance(memory, pc, fp, target, encode(index))
      <4>1. CellsAt(memory, addresses) = cells
        OBVIOUS
      <4> HIDE DEF request, cells, base
      <4> QED
        BY <2>1, <3>1, <3>2, <3>3, <3>4, <4>1, DerefDecides
    <3>6. ASSUME pc < INDEX_LIMIT, op.mode # "Cell"
          PROVE  OutsideV1(op) <=> index >= INDEX_LIMIT
      <4>1. ~(pc >= INDEX_LIMIT) /\ ~(fp >= INDEX_LIMIT)
        BY <3>6, MachineNaturals
      <4>2. OutsideV1(op) <=> op.mode = "Pc" /\ pc + 2 >= INDEX_LIMIT
        BY <1>0, <2>5, <4>1, Zenon DEF OutsideV1
      <4> QED
        BY <4>1, <4>2, Zenon
    <3> QED
      BY <2>2, <2>5, <3>5, <3>6, Zenon
  <2> QED
    BY <2>4, <2>5, Zenon
<1> QED
  BY <1>5, <1>6, <1>7, Zenon

\* BLAKE3: the machine stops at the service, whose answer the transition waits for.
LEMMA Blake3Works ==
  ASSUME MachineType, NEW op, IsSlot(op), op.kind = "Blake3"
  PROVE  Works(op)
<1> DEFINE addresses == blake3_addresses(Packed(op, Here, <<>>))
           cells     == CellsAt(memory, addresses)
           request   == Packed(op, Here, cells)
<1>0. op.kind # "Set" /\ op.kind # "Jump" /\ op.kind # "Deref"
  OBVIOUS
<1>1. prepare(op, Here, memory) =
        IF ~op.metadata_valid THEN Refused("BAD_SERVICE")
        ELSE IF Overflows(addresses) THEN Refused("U32_OVERFLOW")
        ELSE Prepared(request, addresses)
  BY <1>0, Zenon DEF prepare, PrepareBlake3
<1>2. "BAD_SERVICE" # "no" /\ "U32_OVERFLOW" # "no"
  OBVIOUS
<1>3. CASE ~op.metadata_valid \/ Overflows(addresses)
  BY <1>1, <1>2, <1>3, RefusedWorks, Zenon
<1>4. CASE op.metadata_valid /\ ~Overflows(addresses)
  <2>1. prepare(op, Here, memory) = Prepared(request, addresses)
    BY <1>1, <1>4, Zenon
  <2>2. ~AliasInconsistent(addresses, cells)
    <3> HIDE DEF addresses
    <3> QED
      BY PackedFrame
  <2> HIDE DEF cells
  <2>3. /\ request.cells = cells /\ request.metadata_valid = op.metadata_valid
        /\ blake3_addresses(request) = addresses
        /\ request.opcode = "BLAKE3_REQUEST"
    <3>1. OpcodeOf(op) = "BLAKE3_REQUEST"
      BY Opcodes
    <3>2. request.opcode = OpcodeOf(op) /\ request.cells = cells
          /\ request.metadata_valid = op.metadata_valid
          /\ request.fp = fp /\ request.message_offsets = op.message_offsets
          /\ request.cv_offset = op.cv_offset /\ request.out_offset = op.out_offset
      BY HereFields, Zenon DEF Packed
    <3>3. LET empty == Packed(op, Here, <<>>)
          IN  /\ empty.fp = fp /\ empty.message_offsets = op.message_offsets
              /\ empty.cv_offset = op.cv_offset /\ empty.out_offset = op.out_offset
      BY HereFields, Zenon DEF Packed
    <3> QED
      BY <3>1, <3>2, <3>3, Zenon DEF blake3_addresses
  <2>4. execute(request) = execute_blake3(request)
    <3>1. /\ "BLAKE3_REQUEST" \notin {"XOR", "MUL_NATIVE"}
          /\ "BLAKE3_REQUEST" # "SET_CONSTANT" /\ "BLAKE3_REQUEST" # "JUMP"
          /\ "BLAKE3_REQUEST" \notin {"DEREF_CELL", "DEREF_PC", "DEREF_FP"}
      OBVIOUS
    <3> QED
      BY <2>3, <3>1, Zenon DEF execute
  <2> HIDE DEF request, addresses
  <2>5. execute_blake3(request).status = "INDEX_RANGE"
        \/ execute_blake3(request).status = "SERVICE_REQUIRED"
    <3>1. CASE request.pc = INDEX_LIMIT - 1
      <4>1. execute_blake3(request) = Fault("INDEX_RANGE")
        BY <1>4, <2>2, <2>3, <3>1, Zenon DEF execute_blake3
      <4> QED
        BY <4>1 DEF Fault
    <3>2. CASE request.pc # INDEX_LIMIT - 1
      <4> DEFINE frame == Frame(addresses, cells)
                 suspended ==
                   [status |-> "SERVICE_REQUIRED", next_pc |-> request.pc + 1,
                    next_fp |-> request.fp, accesses |-> addresses, frame |-> frame,
                    operands |-> [i \in 1..(Len(addresses) - 2) |->
                                    Read(frame, addresses[i])]]
      <4>1. execute_blake3(request) = suspended
        BY <1>4, <2>2, <2>3, <3>2, Zenon DEF execute_blake3
      <4>2. suspended.status = "SERVICE_REQUIRED"
        OBVIOUS
      <4> QED
        BY <4>1, <4>2, Zenon
    <3> QED
      BY <3>1, <3>2
  <2>6. ASSUME NEW status \in {"INDEX_RANGE", "SERVICE_REQUIRED"}
        PROVE  status \notin {"OK", "U32_OVERFLOW", "ALIAS_INCONSISTENT", "BAD_POINTER",
                              "BAD_INVERSE", "BAD_BRANCH_PROPOSAL"}
    OBVIOUS
  <2>7. execute(request).status \in {"INDEX_RANGE", "SERVICE_REQUIRED"}
    BY <2>4, <2>5
  <2>8. execute(request).status
          \notin {"OK", "U32_OVERFLOW", "ALIAS_INCONSISTENT", "BAD_POINTER",
                  "BAD_INVERSE", "BAD_BRANCH_PROPOSAL"}
    BY <2>6, <2>7, Zenon
  <2> QED
    BY <2>1, <2>8, StoppedWorks, Zenon
<1> QED
  BY <1>3, <1>4, Zenon

\* Every slot fits and leaves a machine.
LEMMA SlotWorks ==
  ASSUME MachineType, NEW op, IsSlot(op)
  PROVE  Works(op)
<1>1. op.kind \in {"Set", "Xor", "Mul", "Deref", "Jump", "Blake3"}
  BY Zenon DEF IsSlot
<1>2. CASE op.kind = "Set"
  BY <1>2, SetWorks
<1>3. CASE op.kind \in {"Xor", "Mul"}
  BY <1>3, BinaryWorks
<1>4. CASE op.kind = "Deref"
  BY <1>4, DerefWorks
<1>5. CASE op.kind = "Jump"
  BY <1>5, JumpWorks
<1>6. CASE op.kind = "Blake3"
  BY <1>6, Blake3Works
<1> QED
  BY <1>1, <1>2, <1>3, <1>4, <1>5, <1>6

\* Every slot of the oracle's subset steps as the oracle's step does.
LEMMA SlotAgrees ==
  ASSUME MachineType, NEW op, IsSlot(op), InOracle(op)
  PROVE  IF OutsideV1(op) THEN ~transact(op).ok
         ELSE transact(op) = step(op, memory, pc, fp)
<1>1. /\ op.kind \in {"Set", "Xor", "Mul", "Deref", "Jump"}
      /\ op.kind = "Deref" => op.mode # "Cell"
  BY DEF IsSlot, InOracle
<1>2. Faulted.ok = FALSE
  BY DEF Faulted
<1>3. CASE ~(pc < INDEX_LIMIT)
  <2>1. pc >= INDEX_LIMIT
    BY <1>3, MachineNaturals
  <2>2. transact(op) = Faulted
    BY <2>1, Zenon DEF transact
  <2> QED
    BY <1>2, <2>1, <2>2, Zenon DEF OutsideV1
<1>4. CASE pc < INDEX_LIMIT /\ op.kind # "Deref"
  <2>1. ~OutsideV1(op)
    <3>1. ~(pc >= INDEX_LIMIT)
      BY <1>4, MachineNaturals
    <3> QED
      BY <1>4, <3>1, Zenon DEF OutsideV1
  <2>2. transact(op) = step(op, memory, pc, fp)
    <3>1. CASE op.kind = "Set"
      BY <1>4, <3>1, SetWorks
    <3>2. CASE op.kind \in {"Xor", "Mul"}
      BY <1>4, <3>2, BinaryWorks
    <3>3. CASE op.kind = "Jump"
      BY <1>4, <3>3, JumpWorks
    <3> QED
      BY <1>1, <1>4, <3>1, <3>2, <3>3
  <2> QED
    BY <2>1, <2>2, Zenon
<1>5. CASE pc < INDEX_LIMIT /\ op.kind = "Deref"
  <2>1. IF OutsideV1(op) THEN transact(op) = Faulted
        ELSE transact(op) = step(op, memory, pc, fp)
    BY <1>1, <1>5, DerefWorks
  <2> QED
    BY <1>2, <2>1, Zenon
<1> QED
  BY <1>3, <1>4, <1>5, Zenon

-----------------------------------------------------------------------------
(* Every reachable machine *)

\* The memory, pc and fp that slots are prepared from are always ones the host can
\* hold: a memory of words over the whole address space, fp an index and pc at most one
\* past the last one (host/memory.py, host/runtime.py).
THEOREM MachineStaysTyped == Spec => []MachineType
<1>1. Init => MachineType
  <2> SUFFICES ASSUME Init PROVE MachineType
    OBVIOUS
  <2>1. memory \in Memory
    BY ConformanceAssumption DEF Init, Memory
  <2>2. pc \in 0..INDEX_LIMIT /\ fp \in 0..(INDEX_LIMIT - 1)
    BY U32Assumption DEF Init
  <2> QED
    BY <2>1, <2>2 DEF MachineType
<1>2. MachineType /\ [Next]_machine => MachineType'
  <2> SUFFICES ASSUME MachineType, [Next]_machine PROVE MachineType'
    OBVIOUS
  <2>1. CASE Next
    <3>1. PICK op \in Operations : Transact(op)
      BY <2>1 DEF Next
    <3>2. Works(op)
      BY <3>1, ConformanceAssumption, SlotWorks
    <3>3. /\ memory' \in Memory
          /\ pc' \in 0..INDEX_LIMIT
          /\ fp' \in 0..(INDEX_LIMIT - 1)
      BY <3>1, <3>2, Zenon DEF Works, Moves, Transact
    <3> QED
      BY <3>3 DEF MachineType
  <2>2. CASE UNCHANGED machine
    BY <2>2 DEF machine, MachineType
  <2> QED
    BY <2>1, <2>2
<1> QED
  BY <1>1, <1>2, PTL DEF Spec

\* The host's preparation with the endpoint's rule and the host's write-back do, in every
\* machine the host can reach and for every slot of the oracle's subset, what the scalar
\* oracle's step does: the same memory, pc and fp, the same refusals, and a refusal where
\* LSC-1 v1 is narrower (tools/host_upstream_comparison.py samples this).
THEOREM HostAgreesWithOracle == Spec => []AgreesWithOracle
<1>1. MachineType => AgreesWithOracle
  <2> SUFFICES ASSUME MachineType, NEW op \in Operations, InOracle(op)
               PROVE  IF OutsideV1(op) THEN ~transact(op).ok
                      ELSE transact(op) = step(op, memory, pc, fp)
    BY DEF AgreesWithOracle
  <2>1. IsSlot(op)
    BY ConformanceAssumption
  <2> QED
    BY <2>1, SlotAgrees
<1> QED
  BY <1>1, MachineStaysTyped, PTL

\* The endpoint finds nothing malformed in a request the host packed, and the host never
\* refuses what the endpoint decided of it: the write-back neither conflicts nor leaves
\* the packed addresses (_decode_and_prevalidate_result of host/runtime.py).
THEOREM HostFitsEndpoint == Spec => []HostAndEndpointFit
<1>1. MachineType => HostAndEndpointFit
  <2> SUFFICES ASSUME MachineType PROVE HostAndEndpointFit
    OBVIOUS
  <2>1. ASSUME NEW op \in Operations PROVE Fits(op)
    BY ConformanceAssumption, SlotWorks, Zenon DEF Works
  <2>2. DecidedIsApplicable
    BY <2>1, Zenon DEF DecidedIsApplicable, Fits
  <2>3. PackedIsWellFormed
    BY <2>1, Zenon DEF PackedIsWellFormed, Fits
  <2> QED
    BY <2>2, <2>3 DEF HostAndEndpointFit
<1> QED
  BY <1>1, MachineStaysTyped, PTL
=============================================================================
