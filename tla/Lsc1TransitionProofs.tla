------------------------ MODULE Lsc1TransitionProofs ------------------------
(***************************************************************************)
(* What the pure functions of Gf2n, Lsc1Transition and HostPrepare return, *)
(* for every field, index width and address width.                         *)
(*                                                                         *)
(* The functions are defined by recursion over a counter.  They are        *)
(* reasoned about with IntervalInduction, an induction principle stated    *)
(* with a set in place of a predicate, which follows from the existence of *)
(* least elements.                                                         *)
(***************************************************************************)
EXTENDS HostPrepare, ScalarOracle, WellFoundedInduction, TLAPS

-----------------------------------------------------------------------------
(* Induction over an interval, and functions defined by recursion over one *)

\* A nonempty set of naturals has a least element.
LEMMA LeastNatural ==
  ASSUME NEW T \in SUBSET Nat, T # {}
  PROVE  \E m \in T : \A k \in T : m <= k
<1> DEFINE R == OpToRel(<, Nat)
<1>1. IsWellFoundedOn(R, Nat)
  BY NatLessThanWellFounded
<1>2. PICK m \in T : \A k \in T : ~(<<k, m>> \in R)
  <2> HIDE DEF R
  <2> QED
    BY <1>1, WFMin
<1>3. \A k \in T : k < m => <<k, m>> \in R
  BY DEF OpToRel
<1> HIDE DEF R
<1>4. T \subseteq Nat
  OBVIOUS
<1>5. ASSUME NEW k \in T PROVE m <= k
  <2>1. k \in Nat /\ m \in Nat /\ ~(k < m)
    BY <1>2, <1>3, <1>4, Zenon
  <2> QED
    BY <2>1
<1> QED
  BY <1>5

\* Induction from 0 to n.
LEMMA IntervalInduction ==
  ASSUME NEW n \in Nat, NEW T, 0 \in T,
         \A i \in 1..n : i - 1 \in T => i \in T
  PROVE  0..n \subseteq T
<1> SUFFICES ASSUME (0..n) \ T # {} PROVE FALSE
  OBVIOUS
<1>1. PICK m \in (0..n) \ T : \A k \in (0..n) \ T : m <= k
  <2>1. (0..n) \ T \in SUBSET Nat
    OBVIOUS
  <2> QED
    BY <2>1, LeastNatural
<1>2. m # 0 /\ m \in 1..n /\ m - 1 \in 0..n
  BY <1>1
<1>3. m - 1 \in T
  BY <1>1, <1>2
<1> QED
  BY <1>1, <1>2, <1>3

\* g starts at c and takes n steps of F.
Iterates(g, c, n, F) ==
    g = [i \in 0..n |-> IF i = 0 THEN c ELSE F[<<g[i - 1], i>>]]

\* A function defined by recursion over 0..n exists.
LEMMA IterationExists ==
  ASSUME NEW S, NEW c \in S, NEW n \in Nat, NEW F \in [S \X (1..n) -> S]
  PROVE  \E g \in [0..n -> S] : Iterates(g, c, n, F)
<1> DEFINE Reach(m) == \E g \in [0..n -> S] :
                         g[0] = c /\ \A i \in 1..m : g[i] = F[<<g[i - 1], i>>]
           T == {m \in 0..n : Reach(m)}
<1>1. 0 \in T
  <2>1. [i \in 0..n |-> c] \in [0..n -> S]
    OBVIOUS
  <2>2. [i \in 0..n |-> c][0] = c /\ 1..0 = {}
    OBVIOUS
  <2>3. Reach(0)
    BY <2>1, <2>2
  <2> QED
    BY <2>3
<1>2. \A i \in 1..n : i - 1 \in T => i \in T
  <2> SUFFICES ASSUME NEW i \in 1..n, Reach(i - 1) PROVE Reach(i)
    <3> HIDE DEF Reach
    <3> QED
      OBVIOUS
  <2>1. PICK g \in [0..n -> S] :
          g[0] = c /\ \A j \in 1..(i - 1) : g[j] = F[<<g[j - 1], j>>]
    BY Zenon
  <2> DEFINE h == [g EXCEPT ![i] = F[<<g[i - 1], i>>]]
  <2>2. h \in [0..n -> S]
    OBVIOUS
  <2>3. h[0] = c /\ \A j \in 1..i : h[j] = F[<<h[j - 1], j>>]
    <3>1. \A j \in 1..i : j - 1 \in 0..n /\ j - 1 # i /\ j \in 0..n
      OBVIOUS
    <3>2. ASSUME NEW j \in 1..i PROVE h[j - 1] = g[j - 1]
      BY <3>1
    <3>3. ASSUME NEW j \in 1..i PROVE h[j] = F[<<h[j - 1], j>>]
      <4>1. CASE j = i
        BY <4>1, <3>1, <3>2
      <4>2. CASE j # i
        <5>1. j \in 1..(i - 1)
          BY <4>2
        <5>2. h[j] = g[j]
          BY <4>2, <3>1
        <5> QED
          BY <5>1, <5>2, <2>1, <3>2
      <4> QED
        BY <4>1, <4>2
    <3> QED
      BY <2>1, <3>3
  <2> QED
    BY <2>2, <2>3
<1>3. n \in T
  <2> HIDE DEF T
  <2> QED
    BY <1>1, <1>2, IntervalInduction
<1>4. PICK g \in [0..n -> S] : g[0] = c /\ \A i \in 1..n : g[i] = F[<<g[i - 1], i>>]
  BY <1>3
<1>5. g = [i \in 0..n |-> IF i = 0 THEN c ELSE F[<<g[i - 1], i>>]]
  BY <1>4
<1> QED
  BY <1>5 DEF Iterates

\* A function that follows F on S keeps to S.
LEMMA IterationType ==
  ASSUME NEW S, NEW n \in Nat, NEW g, g[0] \in S,
         \A i \in 1..n : g[i - 1] \in S => g[i] \in S
  PROVE  \A i \in 0..n : g[i] \in S
<1> DEFINE T == {i \in 0..n : g[i] \in S}
<1>1. 0 \in T /\ \A i \in 1..n : i - 1 \in T => i \in T
  OBVIOUS
<1>2. 0..n \subseteq T
  <2> HIDE DEF T
  <2> QED
    BY <1>1, IntervalInduction
<1> QED
  BY <1>2

-----------------------------------------------------------------------------
(* The field                                                               *)

\* XOR of words is a word.
LEMMA XorType ==
  ASSUME NEW left \in Word, NEW right \in Word
  PROVE  Xor(left, right) \in Word
  BY DEF Xor, Word

\* x * g is a word.
LEMMA XtimeType ==
  ASSUME NEW value \in Word
  PROVE  field_xtime(value) \in Word
<1> DEFINE doubled == {i + 1 : i \in value \ {FieldBits - 1}}
<1>1. doubled \in Word
  BY FieldAssumption DEF Word
<1>2. ReductionLow \in Word
  BY FieldAssumption DEF Word
<1> HIDE DEF doubled
<1>3. Xor(doubled, ReductionLow) \in Word
  BY <1>1, <1>2, XorType
<1> QED
  BY <1>1, <1>3 DEF field_xtime, doubled

\* The terms of the shift-and-add loop, one by one.
LEMMA MulTermDef ==
  ASSUME NEW left \in Word
  PROVE  /\ MulTerm(left)[0] = left
         /\ \A i \in 1..FieldBits : MulTerm(left)[i] = field_xtime(MulTerm(left)[i - 1])
         /\ \A i \in 0..FieldBits : MulTerm(left)[i] \in Word
<1> DEFINE n == FieldBits
           Eq(g) == g = [i \in 0..n |-> IF i = 0 THEN left ELSE field_xtime(g[i - 1])]
           F == [p \in Word \X (1..n) |-> field_xtime(p[1])]
           term == CHOOSE g : Eq(g)
<1>0. n \in Nat
  BY FieldAssumption
<1>1. F \in [Word \X (1..n) -> Word]
  BY XtimeType
<1>2. \E g : Eq(g)
  <2>1. PICK g \in [0..n -> Word] : Iterates(g, left, n, F)
    <3> HIDE DEF n, F
    <3> QED
      BY <1>0, <1>1, IterationExists
  <2>2. \A i \in 1..n : g[i - 1] \in Word /\ F[<<g[i - 1], i>>] = field_xtime(g[i - 1])
    <3> HIDE DEF n
    <3> QED
      BY <1>0
  <2>3. Eq(g)
    <3> HIDE DEF n, F
    <3> QED
      BY <2>1, <2>2 DEF Iterates
  <2> QED
    BY <2>3
<1>3. Eq(term)
  <2> HIDE DEF Eq
  <2> QED
    BY <1>2, Zenon
<1>4. term[0] = left /\ \A i \in 1..n : term[i] = field_xtime(term[i - 1])
  <2> HIDE DEF n, term
  <2> QED
    BY <1>0, <1>3
<1>5. \A i \in 0..n : term[i] \in Word
  <2> HIDE DEF n, term
  <2>1. \A i \in 1..n : term[i - 1] \in Word => term[i] \in Word
    BY <1>4, XtimeType, Zenon
  <2> QED
    BY <1>0, <1>4, <2>1, IterationType
<1>6. MulTerm(left) = term
  BY DEF MulTerm
<1> QED
  BY <1>4, <1>5, <1>6

\* The accumulator of the shift-and-add loop.
Accumulates(sum, left, right) ==
    /\ sum[0] = Zero
    /\ \A i \in 1..FieldBits :
          sum[i] = IF i - 1 \in right THEN Xor(sum[i - 1], MulTerm(left)[i - 1])
                   ELSE sum[i - 1]
    /\ \A i \in 0..FieldBits : sum[i] \in Word

\* A product is where its accumulator ends.
LEMMA MulDef ==
  ASSUME NEW left \in Word, NEW right
  PROVE  \E sum : Accumulates(sum, left, right) /\ field_mul(left, right) = sum[FieldBits]
<1> DEFINE n == FieldBits
           term == MulTerm(left)
           Step(sum, i) == IF i - 1 \in right THEN Xor(sum, term[i - 1]) ELSE sum
           Eq(g) == g = [i \in 0..n |-> IF i = 0 THEN Zero
                                        ELSE IF i - 1 \in right THEN Xor(g[i - 1], term[i - 1])
                                        ELSE g[i - 1]]
           F == [p \in Word \X (1..n) |-> Step(p[1], p[2])]
           accumulator == CHOOSE g : Eq(g)
<1>0. n \in Nat /\ Zero \in Word
  BY FieldAssumption DEF Zero, Word
<1>1. ASSUME NEW sum \in Word, NEW i \in 1..n PROVE Step(sum, i) \in Word
  <2>1. term[i - 1] \in Word
    BY <1>0, MulTermDef
  <2> HIDE DEF term
  <2> QED
    BY <2>1, XorType
<1>2. F \in [Word \X (1..n) -> Word]
  <2> HIDE DEF Step, n
  <2> QED
    BY <1>1
<1>3. \E g : Eq(g)
  <2>1. PICK g \in [0..n -> Word] : Iterates(g, Zero, n, F)
    <3> HIDE DEF n, F
    <3> QED
      BY <1>0, <1>2, IterationExists
  <2>2. \A i \in 1..n : g[i - 1] \in Word /\ F[<<g[i - 1], i>>] = Step(g[i - 1], i)
    <3> HIDE DEF n, Step
    <3> QED
      BY <1>0
  <2>3. g = [i \in 0..n |-> IF i = 0 THEN Zero ELSE Step(g[i - 1], i)]
    <3> HIDE DEF n, F, Step
    <3> QED
      BY <2>1, <2>2 DEF Iterates
  <2> QED
    BY <2>3
<1>4. Eq(accumulator)
  <2> HIDE DEF Eq
  <2> QED
    BY <1>3, Zenon
<1>5. /\ accumulator[0] = Zero
      /\ \A i \in 1..n : accumulator[i] = Step(accumulator[i - 1], i)
  <2>1. accumulator = [i \in 0..n |-> IF i = 0 THEN Zero ELSE Step(accumulator[i - 1], i)]
    BY <1>4, Zenon
  <2> HIDE DEF n, accumulator, Step
  <2> QED
    BY <1>0, <2>1
<1>6. \A i \in 0..n : accumulator[i] \in Word
  <2> HIDE DEF n, accumulator, Step
  <2>1. \A i \in 1..n : accumulator[i - 1] \in Word => accumulator[i] \in Word
    BY <1>1, <1>5, Zenon
  <2> QED
    BY <1>0, <1>5, <2>1, IterationType, Zenon
<1>7. field_mul(left, right) = accumulator[n]
  BY DEF field_mul
<1> HIDE DEF accumulator
<1>8. Accumulates(accumulator, left, right)
  BY <1>5, <1>6, Zenon DEF Accumulates
<1> QED
  BY <1>7, <1>8

\* A product is a word.
LEMMA MulType ==
  ASSUME NEW left \in Word, NEW right
  PROVE  field_mul(left, right) \in Word
<1>1. PICK sum : Accumulates(sum, left, right) /\ field_mul(left, right) = sum[FieldBits]
  BY MulDef
<1>2. FieldBits \in 0..FieldBits
  BY FieldAssumption
<1> QED
  BY <1>1, <1>2 DEF Accumulates

\* The encoding of an index is a word.
LEMMA EncodeType ==
  ASSUME NEW index
  PROVE  field_encode(index) \in Word
<1> DEFINE n == IndexBits
           Step(power, i) ==
               IF (index \div 2^(IndexBits - i)) % 2 = 1
               THEN field_xtime(field_mul(power, power)) ELSE field_mul(power, power)
           Eq(g) == g = [i \in 0..n |->
                          IF i = 0 THEN One
                          ELSE IF (index \div 2^(IndexBits - i)) % 2 = 1
                               THEN field_xtime(field_mul(g[i - 1], g[i - 1]))
                               ELSE field_mul(g[i - 1], g[i - 1])]
           F == [p \in Word \X (1..n) |-> Step(p[1], p[2])]
           result == CHOOSE g : Eq(g)
<1>0. n \in Nat /\ One \in Word
  BY FieldAssumption DEF One, Word
<1>1. ASSUME NEW power \in Word, NEW i \in 1..n PROVE Step(power, i) \in Word
  <2>1. field_mul(power, power) \in Word
    BY MulType
  <2>2. field_xtime(field_mul(power, power)) \in Word
    BY <2>1, XtimeType
  <2> QED
    BY <2>1, <2>2, Zenon
<1>2. F \in [Word \X (1..n) -> Word]
  <2> HIDE DEF Step, n
  <2> QED
    BY <1>1
<1>3. \E g : Eq(g)
  <2>1. PICK g \in [0..n -> Word] : Iterates(g, One, n, F)
    <3> HIDE DEF n, F
    <3> QED
      BY <1>0, <1>2, IterationExists
  <2>2. \A i \in 1..n : g[i - 1] \in Word /\ F[<<g[i - 1], i>>] = Step(g[i - 1], i)
    <3> HIDE DEF n, Step
    <3> QED
      BY <1>0
  <2>3. g = [i \in 0..n |-> IF i = 0 THEN One ELSE Step(g[i - 1], i)]
    <3> HIDE DEF n, F, Step
    <3> QED
      BY <2>1, <2>2 DEF Iterates
  <2> QED
    BY <2>3, Zenon
<1>4. Eq(result)
  <2> HIDE DEF Eq
  <2> QED
    BY <1>3, Zenon
<1>5. result[n] \in Word
  <2>1. result = [i \in 0..n |-> IF i = 0 THEN One ELSE Step(result[i - 1], i)]
    BY <1>4, Zenon
  <2> HIDE DEF n, result, Step
  <2>2. /\ result[0] \in Word
        /\ \A i \in 1..n : result[i - 1] \in Word => result[i] \in Word
    BY <1>0, <1>1, <2>1
  <2> QED
    BY <1>0, <2>2, IterationType
<1>6. field_encode(index) = result[n]
  BY Zenon DEF field_encode
<1> QED
  BY <1>5, <1>6

-----------------------------------------------------------------------------
(* Multiplication commutes                                                 *)

\* XOR is the addition of a field of characteristic two.
LEMMA XorAlgebra ==
  ASSUME NEW a, NEW b, NEW c
  PROVE  /\ Xor(a, b) = Xor(b, a)
         /\ Xor(Xor(a, b), c) = Xor(a, Xor(b, c))
         /\ Xor(a, a) = Zero
         /\ Xor(a, Zero) = a
  BY DEF Xor, Zero

\* Sums of two pairs.
LEMMA XorSwap ==
  ASSUME NEW a, NEW b, NEW c, NEW d
  PROVE  Xor(Xor(a, b), Xor(c, d)) = Xor(Xor(a, c), Xor(b, d))
  BY DEF Xor

\* Words are sums of powers of x.
LEMMA WordInduction ==
  ASSUME NEW S, Zero \in S,
         \A value \in S \cap Word, k \in 0..(FieldBits - 1) : Xor(value, {k}) \in S
  PROVE  Word \subseteq S
<1> SUFFICES ASSUME NEW word \in Word PROVE word \in S
  OBVIOUS
<1> DEFINE low(k) == word \cap (0..(k - 1))
           T == {k \in 0..FieldBits : low(k) \in S}
<1>0. FieldBits \in Nat
  BY FieldAssumption
<1>1. 0 \in T
  <2>1. low(0) = Zero
    BY DEF Zero
  <2> QED
    BY <1>0, <2>1
<1>2. ASSUME NEW k \in 1..FieldBits, k - 1 \in T PROVE k \in T
  <2>1. low(k - 1) \in S /\ k - 1 \in 0..(FieldBits - 1)
    BY <1>0, <1>2
  <2>2. low(k - 1) \in Word
    BY DEF Word
  <2>3. CASE k - 1 \in word
    <3>1. low(k) = Xor(low(k - 1), {k - 1})
      BY <2>3, <1>0 DEF Xor, Word
    <3> HIDE DEF low
    <3> QED
      BY <2>1, <2>2, <3>1, <1>0
  <2>4. CASE k - 1 \notin word
    <3>1. low(k) = low(k - 1)
      BY <2>4, <1>0 DEF Word
    <3> HIDE DEF low
    <3> QED
      BY <2>1, <3>1, <1>0
  <2> QED
    BY <2>3, <2>4
<1>3. FieldBits \in T
  <2> HIDE DEF T
  <2>1. 0..FieldBits \subseteq T
    BY <1>0, <1>1, <1>2, IntervalInduction
  <2> QED
    BY <1>0, <2>1
<1>4. low(FieldBits) = word
  BY DEF Word
<1> QED
  BY <1>3, <1>4

\* Multiplication by x is linear.
LEMMA XtimeLinear ==
  ASSUME NEW a \in Word, NEW b \in Word
  PROVE  field_xtime(Xor(a, b)) = Xor(field_xtime(a), field_xtime(b))
<1> DEFINE top == FieldBits - 1
           doubled(value) == {i + 1 : i \in value \ {top}}
           carry(value) == IF top \in value THEN ReductionLow ELSE Zero
<1>1. ASSUME NEW value \in Word
      PROVE  field_xtime(value) = Xor(doubled(value), carry(value))
  BY XorAlgebra DEF field_xtime
<1>2. doubled(Xor(a, b)) = Xor(doubled(a), doubled(b))
  <2>1. \A i \in a \cup b : i \in Int
    BY FieldAssumption DEF Word
  <2>2. ASSUME NEW value, value \subseteq a \cup b, NEW j
        PROVE  (j \in doubled(value)) = (j \in Int /\ j - 1 \in value /\ j - 1 # top)
    BY <2>1, <2>2
  <2>3. Xor(a, b) \subseteq a \cup b
    BY DEF Xor
  <2> HIDE DEF doubled, top
  <2>4. ASSUME NEW j PROVE (j \in doubled(Xor(a, b))) = (j \in Xor(doubled(a), doubled(b)))
    <3>1. (j \in doubled(a)) = (j \in Int /\ j - 1 \in a /\ j - 1 # top)
      BY <2>2
    <3>2. (j \in doubled(b)) = (j \in Int /\ j - 1 \in b /\ j - 1 # top)
      BY <2>2
    <3>3. (j \in doubled(Xor(a, b))) = (j \in Int /\ j - 1 \in Xor(a, b) /\ j - 1 # top)
      BY <2>2, <2>3
    <3> QED
      BY <3>1, <3>2, <3>3 DEF Xor
  <2> QED
    BY <2>4
<1>3. carry(Xor(a, b)) = Xor(carry(a), carry(b))
  <2> HIDE DEF top
  <2> QED
    BY DEF Xor, Zero
<1>4. Xor(a, b) \in Word
  BY XorType
<1> HIDE DEF doubled, carry
<1> QED
  BY <1>1, <1>2, <1>3, <1>4, XorSwap

\* Every term is linear in the factor.
LEMMA MulTermLinear ==
  ASSUME NEW a \in Word, NEW b \in Word
  PROVE  \A i \in 0..FieldBits :
            MulTerm(Xor(a, b))[i] = Xor(MulTerm(a)[i], MulTerm(b)[i])
<1> DEFINE T == {i \in 0..FieldBits :
                   MulTerm(Xor(a, b))[i] = Xor(MulTerm(a)[i], MulTerm(b)[i])}
<1>0. FieldBits \in Nat /\ Xor(a, b) \in Word
  BY FieldAssumption, XorType
<1>1. 0 \in T
  BY <1>0, MulTermDef
<1>2. ASSUME NEW i \in 1..FieldBits, i - 1 \in T PROVE i \in T
  <2>1. i - 1 \in 0..FieldBits /\ i \in 0..FieldBits
    BY <1>0
  <2>2. /\ MulTerm(a)[i] = field_xtime(MulTerm(a)[i - 1])
        /\ MulTerm(b)[i] = field_xtime(MulTerm(b)[i - 1])
        /\ MulTerm(Xor(a, b))[i] = field_xtime(MulTerm(Xor(a, b))[i - 1])
        /\ MulTerm(a)[i - 1] \in Word /\ MulTerm(b)[i - 1] \in Word
    BY <1>0, <2>1, MulTermDef, Zenon
  <2>3. MulTerm(Xor(a, b))[i - 1] = Xor(MulTerm(a)[i - 1], MulTerm(b)[i - 1])
    BY <1>2
  <2> QED
    BY <2>1, <2>2, <2>3, XtimeLinear
<1>3. 0..FieldBits \subseteq T
  <2> HIDE DEF T
  <2> QED
    BY <1>0, <1>1, <1>2, IntervalInduction
<1> QED
  BY <1>3

\* Multiplication is linear in its left factor.
LEMMA MulLeftLinear ==
  ASSUME NEW a \in Word, NEW b \in Word, NEW right
  PROVE  field_mul(Xor(a, b), right) = Xor(field_mul(a, right), field_mul(b, right))
<1>0. FieldBits \in Nat /\ Xor(a, b) \in Word
  BY FieldAssumption, XorType
<1>1. PICK f : Accumulates(f, a, right) /\ field_mul(a, right) = f[FieldBits]
  BY MulDef
<1>2. PICK g : Accumulates(g, b, right) /\ field_mul(b, right) = g[FieldBits]
  BY MulDef
<1>3. PICK h : Accumulates(h, Xor(a, b), right)
               /\ field_mul(Xor(a, b), right) = h[FieldBits]
  BY <1>0, MulDef
<1> DEFINE T == {i \in 0..FieldBits : h[i] = Xor(f[i], g[i])}
<1>4. 0 \in T
  BY <1>0, <1>1, <1>2, <1>3, XorAlgebra DEF Accumulates
<1>5. ASSUME NEW i \in 1..FieldBits, i - 1 \in T PROVE i \in T
  <2>1. i - 1 \in 0..FieldBits /\ i \in 0..FieldBits
    BY <1>0
  <2>2. h[i - 1] = Xor(f[i - 1], g[i - 1])
    BY <1>5
  <2>3. MulTerm(Xor(a, b))[i - 1] = Xor(MulTerm(a)[i - 1], MulTerm(b)[i - 1])
    BY <2>1, MulTermLinear
  <2>4. CASE i - 1 \in right
    <3>1. /\ h[i] = Xor(h[i - 1], MulTerm(Xor(a, b))[i - 1])
          /\ f[i] = Xor(f[i - 1], MulTerm(a)[i - 1])
          /\ g[i] = Xor(g[i - 1], MulTerm(b)[i - 1])
      BY <2>4, <1>1, <1>2, <1>3, Zenon DEF Accumulates
    <3> QED
      BY <2>1, <2>2, <2>3, <3>1, XorSwap
  <2>5. CASE i - 1 \notin right
    <3>1. h[i] = h[i - 1] /\ f[i] = f[i - 1] /\ g[i] = g[i - 1]
      BY <2>5, <1>1, <1>2, <1>3, Zenon DEF Accumulates
    <3> QED
      BY <2>1, <2>2, <3>1
  <2> QED
    BY <2>4, <2>5
<1>6. 0..FieldBits \subseteq T
  <2> HIDE DEF T
  <2> QED
    BY <1>0, <1>4, <1>5, IntervalInduction
<1> QED
  BY <1>0, <1>1, <1>2, <1>3, <1>6

\* Multiplication is linear in its right factor.
LEMMA MulRightLinear ==
  ASSUME NEW left \in Word, NEW a, NEW b
  PROVE  field_mul(left, Xor(a, b)) = Xor(field_mul(left, a), field_mul(left, b))
<1>0. FieldBits \in Nat
  BY FieldAssumption
<1>1. PICK f : Accumulates(f, left, a) /\ field_mul(left, a) = f[FieldBits]
  BY MulDef
<1>2. PICK g : Accumulates(g, left, b) /\ field_mul(left, b) = g[FieldBits]
  BY MulDef
<1>3. PICK h : Accumulates(h, left, Xor(a, b))
               /\ field_mul(left, Xor(a, b)) = h[FieldBits]
  BY MulDef
<1> DEFINE T == {i \in 0..FieldBits : h[i] = Xor(f[i], g[i])}
<1>4. 0 \in T
  BY <1>0, <1>1, <1>2, <1>3, XorAlgebra DEF Accumulates
<1>5. ASSUME NEW i \in 1..FieldBits, i - 1 \in T PROVE i \in T
  <2> DEFINE term == MulTerm(left)[i - 1]
  <2>1. i - 1 \in 0..FieldBits /\ i \in 0..FieldBits
    BY <1>0
  <2>2. h[i - 1] = Xor(f[i - 1], g[i - 1])
    BY <1>5
  <2>3. /\ h[i] = IF i - 1 \in Xor(a, b) THEN Xor(h[i - 1], term) ELSE h[i - 1]
        /\ f[i] = IF i - 1 \in a THEN Xor(f[i - 1], term) ELSE f[i - 1]
        /\ g[i] = IF i - 1 \in b THEN Xor(g[i - 1], term) ELSE g[i - 1]
    BY <1>1, <1>2, <1>3, Zenon DEF Accumulates
  <2>4. i - 1 \in Xor(a, b) <=> ~(i - 1 \in a <=> i - 1 \in b)
    BY DEF Xor
  <2> HIDE DEF term
  <2>5. h[i] = Xor(f[i], g[i])
    <3>1. CASE i - 1 \in a /\ i - 1 \in b
      <4>1. h[i] = h[i - 1] /\ f[i] = Xor(f[i - 1], term) /\ g[i] = Xor(g[i - 1], term)
        BY <2>3, <2>4, <3>1, Zenon
      <4>2. Xor(Xor(f[i - 1], term), Xor(g[i - 1], term))
              = Xor(Xor(f[i - 1], g[i - 1]), Xor(term, term))
        BY XorSwap
      <4> QED
        BY <2>2, <4>1, <4>2, XorAlgebra
    <3>2. CASE i - 1 \in a /\ i - 1 \notin b
      <4>1. h[i] = Xor(h[i - 1], term) /\ f[i] = Xor(f[i - 1], term) /\ g[i] = g[i - 1]
        BY <2>3, <2>4, <3>2, Zenon
      <4>2. Xor(Xor(f[i - 1], g[i - 1]), term) = Xor(Xor(f[i - 1], term), g[i - 1])
        BY DEF Xor
      <4> QED
        BY <2>2, <4>1, <4>2
    <3>3. CASE i - 1 \notin a /\ i - 1 \in b
      <4>1. h[i] = Xor(h[i - 1], term) /\ f[i] = f[i - 1] /\ g[i] = Xor(g[i - 1], term)
        BY <2>3, <2>4, <3>3, Zenon
      <4> QED
        BY <2>2, <4>1, XorAlgebra
    <3>4. CASE i - 1 \notin a /\ i - 1 \notin b
      BY <2>2, <2>3, <2>4, <3>4, Zenon
    <3> QED
      BY <3>1, <3>2, <3>3, <3>4
  <2> QED
    BY <2>1, <2>5
<1>6. 0..FieldBits \subseteq T
  <2> HIDE DEF T
  <2> QED
    BY <1>0, <1>4, <1>5, IntervalInduction
<1> QED
  BY <1>0, <1>1, <1>2, <1>3, <1>6

\* Zero annihilates.
LEMMA MulZero ==
  ASSUME NEW word \in Word
  PROVE  field_mul(word, Zero) = Zero /\ field_mul(Zero, word) = Zero
<1>1. Zero \in Word /\ Xor(Zero, Zero) = Zero
  BY XorAlgebra DEF Zero, Word
<1>2. field_mul(word, Zero) = Xor(field_mul(word, Zero), field_mul(word, Zero))
  BY <1>1, MulRightLinear
<1>3. field_mul(Zero, word) = Xor(field_mul(Zero, word), field_mul(Zero, word))
  BY <1>1, MulLeftLinear
<1> QED
  BY <1>2, <1>3, XorAlgebra

\* x^j * x^i takes i steps from x^j.
LEMMA MulPower ==
  ASSUME NEW left \in Word, NEW k \in 0..(FieldBits - 1)
  PROVE  field_mul(left, {k}) = MulTerm(left)[k]
<1>0. FieldBits \in Nat /\ k \in 0..FieldBits /\ k + 1 \in 0..FieldBits
  BY FieldAssumption
<1>1. PICK f : Accumulates(f, left, {k}) /\ field_mul(left, {k}) = f[FieldBits]
  BY MulDef
<1> DEFINE term == MulTerm(left)[k]
           T == {i \in 0..FieldBits : f[i] = IF i <= k THEN Zero ELSE term}
<1>2. 0 \in T
  BY <1>0, <1>1 DEF Accumulates
<1>3. ASSUME NEW i \in 1..FieldBits, i - 1 \in T PROVE i \in T
  <2>1. f[i - 1] = IF i - 1 <= k THEN Zero ELSE term
    BY <1>3
  <2>2. f[i] = IF i - 1 = k THEN Xor(f[i - 1], MulTerm(left)[i - 1]) ELSE f[i - 1]
    BY <1>1, Zenon DEF Accumulates
  <2>3. CASE i - 1 = k
    <3>1. f[i] = Xor(Zero, term)
      BY <2>1, <2>2, <2>3
    <3>2. f[i] = term
      BY <3>1, XorAlgebra
    <3> HIDE DEF term
    <3> QED
      BY <2>3, <3>2, <1>0
  <2>4. CASE i - 1 # k
    <3> HIDE DEF term
    <3> QED
      BY <2>1, <2>2, <2>4, <1>0
  <2> QED
    BY <2>3, <2>4
<1>4. 0..FieldBits \subseteq T
  <2> HIDE DEF T
  <2> QED
    BY <1>0, <1>2, <1>3, IntervalInduction
<1> HIDE DEF term
<1>5. f[FieldBits] = term
  BY <1>0, <1>4
<1> QED
  BY <1>1, <1>5 DEF term

\* Powers of x commute: both products are x^(j+k).
LEMMA PowersCommute ==
  ASSUME NEW j \in 0..(FieldBits - 1), NEW k \in 0..(FieldBits - 1)
  PROVE  field_mul({j}, {k}) = field_mul({k}, {j})
<1> DEFINE n == FieldBits
           F == [p \in Word \X (1..(2 * n)) |-> field_xtime(p[1])]
<1>0. n \in Nat \ {0} /\ 2 * n \in Nat /\ One \in Word
  BY FieldAssumption DEF One, Word
<1>1. F \in [Word \X (1..(2 * n)) -> Word]
  BY XtimeType
<1>2. PICK power \in [0..(2 * n) -> Word] : Iterates(power, One, 2 * n, F)
  <2> HIDE DEF n, F
  <2> QED
    BY <1>0, <1>1, IterationExists
<1>3. power[0] = One /\ \A i \in 1..(2 * n) : power[i] = field_xtime(power[i - 1])
  <2>1. \A i \in 1..(2 * n) : i - 1 \in 0..(2 * n) /\ i \in 0..(2 * n) /\ i # 0
    <3> HIDE DEF n
    <3> QED
      BY <1>0
  <2>2. \A i \in 1..(2 * n) : power[i - 1] \in Word
    BY <2>1
  <2>3. \A i \in 1..(2 * n) : F[<<power[i - 1], i>>] = field_xtime(power[i - 1])
    BY <2>2
  <2> HIDE DEF F, n
  <2> QED
    BY <1>0, <1>2, <2>1, <2>3 DEF Iterates
<1> HIDE DEF F
<1>4. \A i \in 0..(n - 1) : power[i] = {i}
  <2> DEFINE T == {i \in 0..(n - 1) : power[i] = {i}}
  <2>1. 0 \in T
    BY <1>0, <1>3 DEF One
  <2>2. ASSUME NEW i \in 1..(n - 1), i - 1 \in T PROVE i \in T
    <3>1. power[i - 1] = {i - 1} /\ i \in 1..(2 * n)
      BY <1>0, <2>2
    <3>2. power[i] = field_xtime({i - 1})
      BY <1>3, <3>1
    <3>3. field_xtime({i - 1}) = {i}
      <4>1. i - 1 # FieldBits - 1 /\ (i - 1) + 1 = i
        BY <1>0
      <4>2. FieldBits - 1 \notin {i - 1} /\ {i - 1} \ {FieldBits - 1} = {i - 1}
        BY <4>1
      <4>3. {l + 1 : l \in {i - 1}} = {i}
        BY <4>1
      <4> QED
        BY <4>2, <4>3, Zenon DEF field_xtime
    <3>4. i \in 0..(n - 1)
      BY <1>0
    <3> HIDE DEF n
    <3> QED
      BY <3>2, <3>3, <3>4
  <2>3. n - 1 \in Nat
    BY <1>0
  <2> HIDE DEF T
  <2>4. 0..(n - 1) \subseteq T
    BY <2>1, <2>2, <2>3, IntervalInduction
  <2> QED
    BY <2>4 DEF T
<1>5. ASSUME NEW m \in 0..(n - 1)
      PROVE  \A i \in 0..(n - 1) : MulTerm({m})[i] = power[m + i]
  <2> DEFINE T == {i \in 0..(n - 1) : MulTerm({m})[i] = power[m + i]}
  <2>0. {m} \in Word
    BY DEF Word
  <2>1. 0 \in T
    <3>1. MulTerm({m})[0] = {m}
      BY <2>0, MulTermDef
    <3>2. power[m] = {m} /\ m + 0 = m /\ 0 \in 0..(n - 1)
      BY <1>0, <1>4
    <3> QED
      BY <3>1, <3>2
  <2>2. ASSUME NEW i \in 1..(n - 1), i - 1 \in T PROVE i \in T
    <3>1. MulTerm({m})[i - 1] = power[m + (i - 1)]
      BY <2>2
    <3>2. MulTerm({m})[i] = field_xtime(MulTerm({m})[i - 1])
      BY <1>0, <2>0, MulTermDef
    <3>3. power[m + i] = field_xtime(power[m + (i - 1)])
      <4>1. m + i \in 1..(2 * n) /\ (m + i) - 1 = m + (i - 1)
        BY <1>0
      <4> QED
        BY <1>3, <4>1
    <3> HIDE DEF n
    <3> QED
      BY <1>0, <3>1, <3>2, <3>3
  <2>3. n - 1 \in Nat
    BY <1>0
  <2> HIDE DEF T
  <2>4. 0..(n - 1) \subseteq T
    BY <2>1, <2>2, <2>3, IntervalInduction
  <2> QED
    BY <2>4 DEF T
<1>6. j + k = k + j
  BY <1>0
<1>7. {j} \in Word /\ {k} \in Word
  BY DEF Word
<1>8. field_mul({j}, {k}) = power[j + k] /\ field_mul({k}, {j}) = power[k + j]
  BY <1>5, <1>7, MulPower
<1> QED
  BY <1>6, <1>8

\* The product does not depend on the order of its factors.
THEOREM MultiplicationCommutes ==
  \A left, right \in Word : field_mul(left, right) = field_mul(right, left)
<1>0. Zero \in Word /\ \A k \in 0..(FieldBits - 1) : {k} \in Word
  BY DEF Zero, Word
<1>1. ASSUME NEW k \in 0..(FieldBits - 1), NEW right \in Word
      PROVE  field_mul({k}, right) = field_mul(right, {k})
  <2> DEFINE S == {value \in Word : field_mul({k}, value) = field_mul(value, {k})}
  <2>1. Zero \in S
    BY <1>0, MulZero
  <2>2. ASSUME NEW value \in S \cap Word, NEW j \in 0..(FieldBits - 1)
        PROVE  Xor(value, {j}) \in S
    <3>1. field_mul({k}, Xor(value, {j})) = Xor(field_mul({k}, value), field_mul({k}, {j}))
      <4>1. {k} \in Word
        BY <1>0
      <4> QED
        BY ONLY <4>1, MulRightLinear
    <3>2. field_mul(Xor(value, {j}), {k}) = Xor(field_mul(value, {k}), field_mul({j}, {k}))
      BY <1>0, MulLeftLinear
    <3>3. field_mul({k}, {j}) = field_mul({j}, {k})
      BY PowersCommute
    <3>4. Xor(value, {j}) \in Word
      BY <1>0, XorType
    <3> QED
      BY <3>1, <3>2, <3>3, <3>4
  <2> HIDE DEF S
  <2>3. Word \subseteq S
    BY <2>1, <2>2, WordInduction
  <2> QED
    BY <2>3 DEF S
<1> DEFINE S == {left \in Word :
                   \A right \in Word : field_mul(left, right) = field_mul(right, left)}
<1>2. Zero \in S
  BY <1>0, MulZero
<1>3. ASSUME NEW left \in S \cap Word, NEW k \in 0..(FieldBits - 1)
      PROVE  Xor(left, {k}) \in S
  <2>1. Xor(left, {k}) \in Word
    BY <1>0, XorType
  <2>2. ASSUME NEW right \in Word
        PROVE  field_mul(Xor(left, {k}), right) = field_mul(right, Xor(left, {k}))
    <3>1. field_mul(Xor(left, {k}), right) = Xor(field_mul(left, right), field_mul({k}, right))
      BY <1>0, MulLeftLinear
    <3>2. field_mul(right, Xor(left, {k})) = Xor(field_mul(right, left), field_mul(right, {k}))
      BY MulRightLinear
    <3> QED
      BY <1>1, <3>1, <3>2
  <2> QED
    BY <2>1, <2>2
<1> HIDE DEF S
<1>4. Word \subseteq S
  BY <1>2, <1>3, WordInduction
<1> QED
  BY <1>4 DEF S

-----------------------------------------------------------------------------
(* Powers of the generator *)

\* Doubling by the oracle is doubling by the endpoint.
LEMMA XtimeAgrees ==
  ASSUME NEW value \in Word
  PROVE  xtime(value) = field_xtime(value)
<1>1. \A i \in value : i \in Int
  BY DEF Word
<1>2. {i + 1 : i \in value} \ {FieldBits} = {i + 1 : i \in value \ {FieldBits - 1}}
  BY <1>1, FieldAssumption
<1> QED
  BY <1>2, Zenon DEF xtime, field_xtime

\* g holds the powers of x up to n.
Powers(g, n) ==
    /\ g[0] = One
    /\ \A i \in 1..n : g[i] = xtime(g[i - 1])
    /\ \A i \in 0..n : g[i] \in Word

\* The loop of encode().
LEMMA EncodeLoop ==
  ASSUME NEW index \in Nat
  PROVE  \E g : Powers(g, index) /\ encode(index) = g[index]
<1> DEFINE n == index
           Step(x, k) == xtime(x)
           Eq(g) == g = [i \in 0..n |-> IF i = 0 THEN One ELSE xtime(g[i - 1])]
           F == [p \in Word \X (1..n) |-> Step(p[1], p[2])]
           result == CHOOSE g : Eq(g)
<1>0. n \in Nat /\ One \in Word
  BY FieldAssumption DEF One, Word
<1>1. ASSUME NEW x \in Word, NEW i \in 1..n PROVE Step(x, i) \in Word
  BY XtimeAgrees, XtimeType
<1>2. F \in [Word \X (1..n) -> Word]
  <2> HIDE DEF Step, n
  <2> QED
    BY <1>1
<1>3. \E g : Eq(g)
  <2>1. PICK g \in [0..n -> Word] : Iterates(g, One, n, F)
    <3> HIDE DEF n, F
    <3> QED
      BY <1>0, <1>2, IterationExists
  <2>2. \A i \in 1..n : g[i - 1] \in Word /\ F[<<g[i - 1], i>>] = Step(g[i - 1], i)
    <3> HIDE DEF n, Step
    <3> QED
      BY <1>0
  <2>3. g = [i \in 0..n |-> IF i = 0 THEN One ELSE Step(g[i - 1], i)]
    <3> HIDE DEF n, F, Step
    <3> QED
      BY <2>1, <2>2 DEF Iterates
  <2> QED
    BY <2>3, Zenon
<1>4. result = [i \in 0..n |-> IF i = 0 THEN One ELSE Step(result[i - 1], i)]
  <2>1. Eq(result)
    <3> HIDE DEF Eq
    <3> QED
      BY <1>3, Zenon
  <2> QED
    BY <2>1, Zenon
<1>5. result[0] = One /\ \A i \in 1..n : result[i] = Step(result[i - 1], i)
  <2> HIDE DEF n, result, Step
  <2> QED
    BY <1>0, <1>4
<1>6. \A i \in 0..n : result[i] \in Word
  <2> HIDE DEF n, result, Step
  <2>1. \A i \in 1..n : result[i - 1] \in Word => result[i] \in Word
    BY <1>1, <1>5, Zenon
  <2> QED
    BY <1>0, <1>5, <2>1, IterationType, Zenon
<1>7. encode(index) = result[n]
  BY Zenon DEF encode
<1>8. Powers(result, n)
  <2> HIDE DEF result
  <2> QED
    BY <1>5, <1>6, Zenon DEF Powers
<1> QED
  BY <1>7, <1>8, Zenon

\* Two sequences of powers are one.
LEMMA EncodePrefix ==
  ASSUME NEW m \in Nat, NEW g, Powers(g, m)
  PROVE  \A i \in 0..m : g[i] = encode(i)
<1> SUFFICES ASSUME NEW n \in 0..m PROVE g[n] = encode(n)
  OBVIOUS
<1>1. PICK h : Powers(h, n) /\ encode(n) = h[n]
  BY EncodeLoop
<1> DEFINE T == {i \in 0..n : g[i] = h[i]}
<1>2. 0 \in T
  BY <1>1 DEF Powers
<1>3. ASSUME NEW i \in 1..n, i - 1 \in T PROVE i \in T
  <2>1. i \in 1..m /\ i \in 0..n /\ g[i - 1] = h[i - 1]
    BY <1>3
  <2>2. g[i] = xtime(g[i - 1]) /\ h[i] = xtime(h[i - 1])
    BY <1>1, <2>1, Zenon DEF Powers
  <2> QED
    BY <2>1, <2>2, Zenon
<1>4. 0..n \subseteq T
  <2> HIDE DEF T
  <2> QED
    BY <1>2, <1>3, IntervalInduction
<1> QED
  BY <1>1, <1>4

\* encode(index) is g^index.
LEMMA EncodePowers ==
  /\ encode(0) = One
  /\ \A i \in Nat : encode(i) \in Word /\ encode(i + 1) = field_xtime(encode(i))
<1>1. encode(0) = One
  BY EncodeLoop DEF Powers
<1>2. ASSUME NEW i \in Nat PROVE encode(i) \in Word /\ encode(i + 1) = field_xtime(encode(i))
  <2>1. PICK g : Powers(g, i + 1) /\ encode(i + 1) = g[i + 1]
    BY EncodeLoop
  <2>2. \A j \in 0..(i + 1) : g[j] = encode(j)
    BY <2>1, EncodePrefix
  <2>3. i \in 0..(i + 1) /\ i + 1 \in 1..(i + 1) /\ (i + 1) - 1 = i
    OBVIOUS
  <2>4. g[i] = encode(i) /\ g[i] \in Word /\ g[i + 1] = xtime(g[i])
    BY <2>1, <2>2, <2>3 DEF Powers
  <2> QED
    BY <2>1, <2>4, XtimeAgrees, Zenon
<1> QED
  BY <1>1, <1>2, Zenon

\* The sum of any terms over the elements of a set below n.
Totals(sum, n, term, word) ==
    /\ sum[0] = Zero
    /\ \A i \in 1..n : sum[i] = IF i - 1 \in word THEN Xor(sum[i - 1], term[i - 1])
                                ELSE sum[i - 1]

\* A sum over a sum is the sum of both.
LEMMA TotalsLinear ==
  ASSUME NEW n \in Nat, NEW term, NEW a, NEW b, NEW f, NEW g, NEW h,
         Totals(f, n, term, a), Totals(g, n, term, b), Totals(h, n, term, Xor(a, b))
  PROVE  h[n] = Xor(f[n], g[n])
<1> DEFINE T == {i \in 0..n : h[i] = Xor(f[i], g[i])}
<1>1. 0 \in T
  BY XorAlgebra DEF Totals
<1>2. ASSUME NEW i \in 1..n, i - 1 \in T PROVE i \in T
  <2> DEFINE t == term[i - 1]
  <2>1. i \in 0..n /\ h[i - 1] = Xor(f[i - 1], g[i - 1])
    BY <1>2
  <2>2. /\ h[i] = IF i - 1 \in Xor(a, b) THEN Xor(h[i - 1], t) ELSE h[i - 1]
        /\ f[i] = IF i - 1 \in a THEN Xor(f[i - 1], t) ELSE f[i - 1]
        /\ g[i] = IF i - 1 \in b THEN Xor(g[i - 1], t) ELSE g[i - 1]
    BY Zenon DEF Totals
  <2>3. i - 1 \in Xor(a, b) <=> ~(i - 1 \in a <=> i - 1 \in b)
    BY DEF Xor
  <2>4. /\ Xor(Xor(f[i - 1], t), Xor(g[i - 1], t)) = Xor(f[i - 1], g[i - 1])
        /\ Xor(Xor(f[i - 1], g[i - 1]), t) = Xor(Xor(f[i - 1], t), g[i - 1])
        /\ Xor(Xor(f[i - 1], g[i - 1]), t) = Xor(f[i - 1], Xor(g[i - 1], t))
    BY DEF Xor
  <2> HIDE DEF t
  <2>5. h[i] = Xor(f[i], g[i])
    BY <2>1, <2>2, <2>3, <2>4, Zenon
  <2> QED
    BY <2>1, <2>5
<1>3. 0..n \subseteq T
  <2> HIDE DEF T
  <2> QED
    BY <1>1, <1>2, IntervalInduction
<1> QED
  BY <1>3

\* A sum over one element is its term.
LEMMA TotalsSingle ==
  ASSUME NEW n \in Nat, NEW term, NEW k \in 0..(n - 1), NEW f, Totals(f, n, term, {k})
  PROVE  f[n] = term[k]
<1> DEFINE T == {i \in 0..n : f[i] = IF i <= k THEN Zero ELSE term[k]}
<1>1. 0 \in T
  BY DEF Totals
<1>2. ASSUME NEW i \in 1..n, i - 1 \in T PROVE i \in T
  <2>1. f[i] = IF i - 1 = k THEN Xor(f[i - 1], term[i - 1]) ELSE f[i - 1]
    BY Zenon DEF Totals
  <2>2. Xor(Zero, term[k]) = term[k]
    BY DEF Xor, Zero
  <2> QED
    BY <1>2, <2>1, <2>2
<1>3. 0..n \subseteq T
  <2> HIDE DEF T
  <2> QED
    BY <1>1, <1>2, IntervalInduction
<1> QED
  BY <1>3

-----------------------------------------------------------------------------
(* Remainders *)

\* The remainder of a polynomial of degree below twice that of the field: the sum
\* of the remainders g^k of its powers.
Residue(word) ==
    LET sum[i \in 0..(2 * FieldBits)] ==
          IF i = 0 THEN Zero
          ELSE IF i - 1 \in word THEN Xor(sum[i - 1], encode(i - 1)) ELSE sum[i - 1]
    IN  sum[2 * FieldBits]

GeneratorPowers == [i \in 0..(2 * FieldBits - 1) |-> encode(i)]

\* The loop of Residue.
LEMMA ResidueLoop ==
  ASSUME NEW word
  PROVE  \E g : Totals(g, 2 * FieldBits, GeneratorPowers, word) /\ Residue(word) = g[2 * FieldBits] /\ g[2 * FieldBits] \in Word
<1> DEFINE n == 2 * FieldBits
           Step(x, k) == IF k - 1 \in word THEN Xor(x, encode(k - 1)) ELSE x
           Eq(g) == g = [i \in 0..n |-> IF i = 0 THEN Zero
                      ELSE IF i - 1 \in word THEN Xor(g[i - 1], encode(i - 1)) ELSE g[i - 1]]
           F == [p \in Word \X (1..n) |-> Step(p[1], p[2])]
           result == CHOOSE g : Eq(g)
<1>0. n \in Nat /\ Zero \in Word
  BY FieldAssumption DEF Zero, Word
<1>1. ASSUME NEW x \in Word, NEW i \in 1..n PROVE Step(x, i) \in Word
  <2>1. i - 1 \in Nat
    BY <1>0
  <2>2. encode(i - 1) \in Word
    BY <2>1, EncodePowers, Zenon
  <2> QED
    BY <2>2, XorType
<1>2. F \in [Word \X (1..n) -> Word]
  <2> HIDE DEF Step, n
  <2> QED
    BY <1>1
<1>3. \E g : Eq(g)
  <2>1. PICK g \in [0..n -> Word] : Iterates(g, Zero, n, F)
    <3> HIDE DEF n, F
    <3> QED
      BY <1>0, <1>2, IterationExists
  <2>2. \A i \in 1..n : g[i - 1] \in Word /\ F[<<g[i - 1], i>>] = Step(g[i - 1], i)
    <3> HIDE DEF n, Step
    <3> QED
      BY <1>0
  <2>3. g = [i \in 0..n |-> IF i = 0 THEN Zero ELSE Step(g[i - 1], i)]
    <3> HIDE DEF n, F, Step
    <3> QED
      BY <2>1, <2>2 DEF Iterates
  <2> QED
    BY <2>3, Zenon
<1>4. result = [i \in 0..n |-> IF i = 0 THEN Zero ELSE Step(result[i - 1], i)]
  <2>1. Eq(result)
    <3> HIDE DEF Eq
    <3> QED
      BY <1>3, Zenon
  <2> QED
    BY <2>1, Zenon
<1>5. result[0] = Zero /\ \A i \in 1..n : result[i] = Step(result[i - 1], i)
  <2> HIDE DEF n, result, Step
  <2> QED
    BY <1>0, <1>4
<1>6. \A i \in 0..n : result[i] \in Word
  <2> HIDE DEF n, result, Step
  <2>1. \A i \in 1..n : result[i - 1] \in Word => result[i] \in Word
    BY <1>1, <1>5, Zenon
  <2> QED
    BY <1>0, <1>5, <2>1, IterationType, Zenon
<1>7. Residue(word) = result[n]
  BY Zenon DEF Residue
<1> HIDE DEF result
<1>8. n \in 0..n
  BY <1>0
<1>9. \A i \in 1..n : GeneratorPowers[i - 1] = encode(i - 1)
  BY <1>0 DEF GeneratorPowers
<1>10. Totals(result, n, GeneratorPowers, word)
  <2> HIDE DEF n
  <2> QED
    BY <1>5, <1>9, Zenon DEF Totals
<1> QED
  BY <1>6, <1>7, <1>8, <1>10

\* Remainders are words and add up; that of x^k is g^k.
LEMMA ResidueLinear ==
  /\ \A a : Residue(a) \in Word
  /\ \A a, b : Residue(Xor(a, b)) = Xor(Residue(a), Residue(b))
  /\ \A k \in 0..(2 * FieldBits - 1) : Residue({k}) = encode(k)
<1>0. 2 * FieldBits \in Nat
  BY FieldAssumption
<1>1. ASSUME NEW a PROVE Residue(a) \in Word
  BY ResidueLoop, Zenon
<1>2. ASSUME NEW a, NEW b PROVE Residue(Xor(a, b)) = Xor(Residue(a), Residue(b))
  <2>1. PICK f : Totals(f, 2 * FieldBits, GeneratorPowers, a) /\ Residue(a) = f[2 * FieldBits]
    BY ResidueLoop, Zenon
  <2>2. PICK g : Totals(g, 2 * FieldBits, GeneratorPowers, b) /\ Residue(b) = g[2 * FieldBits]
    BY ResidueLoop, Zenon
  <2>3. PICK h : /\ Totals(h, 2 * FieldBits, GeneratorPowers, Xor(a, b))
                 /\ Residue(Xor(a, b)) = h[2 * FieldBits]
    BY ResidueLoop, Zenon
  <2>4. h[2 * FieldBits] = Xor(f[2 * FieldBits], g[2 * FieldBits])
    BY ONLY <1>0, <2>1, <2>2, <2>3, TotalsLinear
  <2> QED
    BY <2>1, <2>2, <2>3, <2>4, Zenon
<1>3. ASSUME NEW k \in 0..(2 * FieldBits - 1) PROVE Residue({k}) = encode(k)
  <2>1. PICK f : Totals(f, 2 * FieldBits, GeneratorPowers, {k}) /\ Residue({k}) = f[2 * FieldBits]
    BY ResidueLoop, Zenon
  <2>2. f[2 * FieldBits] = GeneratorPowers[k]
    <3> DEFINE n == 2 * FieldBits
    <3>1. n \in Nat /\ k \in 0..(n - 1) /\ Totals(f, n, GeneratorPowers, {k})
      BY <1>0, <2>1
    <3> HIDE DEF n
    <3> QED
      BY ONLY <3>1, TotalsSingle DEF n
  <2> QED
    BY <2>1, <2>2 DEF GeneratorPowers
<1> QED
  BY <1>1, <1>2, <1>3, Zenon

\* Below the degree of the field g^k is x^k.
LEMMA SmallPowers ==
  \A k \in 0..(FieldBits - 1) : encode(k) = {k}
<1> DEFINE T == {i \in 0..(FieldBits - 1) : encode(i) = {i}}
<1>0. FieldBits \in Nat \ {0} /\ FieldBits - 1 \in Nat
  BY FieldAssumption
<1>1. 0 \in T
  BY <1>0, EncodePowers DEF One
<1>2. ASSUME NEW i \in 1..(FieldBits - 1), i - 1 \in T PROVE i \in T
  <2>1. encode(i - 1) = {i - 1} /\ i - 1 \in Nat /\ i \in 0..(FieldBits - 1) /\ (i - 1) + 1 = i
    BY <1>0, <1>2
  <2>2. encode(i) = field_xtime({i - 1})
    BY <2>1, EncodePowers
  <2>3. field_xtime({i - 1}) = {i}
    <3>1. i - 1 # FieldBits - 1
      BY <1>0
    <3>2. FieldBits - 1 \notin {i - 1} /\ {i - 1} \ {FieldBits - 1} = {i - 1}
      BY <3>1
    <3>3. {l + 1 : l \in {i - 1}} = {i}
      BY <2>1
    <3> QED
      BY <3>2, <3>3, Zenon DEF field_xtime
  <2> QED
    BY <2>1, <2>2, <2>3
<1>3. 0..(FieldBits - 1) \subseteq T
  <2> HIDE DEF T
  <2> QED
    BY <1>0, <1>1, <1>2, IntervalInduction
<1> QED
  BY <1>3

\* A word is its own remainder.
LEMMA ResidueOfWord ==
  \A word \in Word : Residue(word) = word
<1> DEFINE S == {word \in Word : Residue(word) = word}
<1>0. /\ FieldBits \in Nat \ {0} /\ Zero \in Word
      /\ \A k \in 0..(FieldBits - 1) : {k} \in Word
  BY FieldAssumption DEF Zero, Word
<1>1. Zero \in S
  <2>1. Zero = Xor(Zero, Zero)
    BY XorAlgebra
  <2>2. Residue(Zero) = Xor(Residue(Zero), Residue(Zero))
    BY <2>1, ResidueLinear
  <2>3. Residue(Zero) = Zero
    BY <2>2, XorAlgebra
  <2> QED
    BY <1>0, <2>3
<1>2. ASSUME NEW value \in S \cap Word, NEW k \in 0..(FieldBits - 1) PROVE Xor(value, {k}) \in S
  <2>1. k \in 0..(2 * FieldBits - 1)
    BY <1>0
  <2>2. Residue({k}) = {k}
    BY <2>1, ResidueLinear, SmallPowers
  <2>3. Residue(Xor(value, {k})) = Xor(Residue(value), Residue({k}))
    BY ResidueLinear
  <2>4. Xor(value, {k}) \in Word
    BY <1>0, XorType
  <2> QED
    BY <2>2, <2>3, <2>4
<1>3. Word \subseteq S
  <2> HIDE DEF S
  <2> QED
    BY <1>1, <1>2, WordInduction
<1> QED
  BY <1>3

\* Powers from any power on are the terms of a product.
LEMMA PowerSteps ==
  ASSUME NEW m \in Nat
  PROVE  \A s \in 0..FieldBits : encode(m + s) = MulTerm(encode(m))[s]
<1> DEFINE T == {s \in 0..FieldBits : encode(m + s) = MulTerm(encode(m))[s]}
<1>0. FieldBits \in Nat /\ encode(m) \in Word
  BY FieldAssumption, EncodePowers
<1>1. 0 \in T
  <2>1. m + 0 = m
    OBVIOUS
  <2> QED
    BY <1>0, <2>1, MulTermDef
<1>2. ASSUME NEW s \in 1..FieldBits, s - 1 \in T PROVE s \in T
  <2>1. m + (s - 1) \in Nat /\ (m + (s - 1)) + 1 = m + s /\ s \in 0..FieldBits
    BY <1>0
  <2>2. encode(m + s) = field_xtime(encode(m + (s - 1)))
    BY <2>1, EncodePowers
  <2>3. MulTerm(encode(m))[s] = field_xtime(MulTerm(encode(m))[s - 1])
    BY <1>0, MulTermDef
  <2> QED
    BY <1>2, <2>1, <2>2, <2>3
<1>3. 0..FieldBits \subseteq T
  <2> HIDE DEF T
  <2> QED
    BY <1>0, <1>1, <1>2, IntervalInduction
<1> QED
  BY <1>3

\* A word times x^s.
Shifted(word, s) == {i + s : i \in word}

\* The remainder of a shifted word is a term of its product.
LEMMA ResidueOfShifted ==
  ASSUME NEW s \in 0..FieldBits
  PROVE  \A word \in Word : Residue(Shifted(word, s)) = MulTerm(word)[s]
<1> DEFINE S == {word \in Word : Residue(Shifted(word, s)) = MulTerm(word)[s]}
<1>0. /\ FieldBits \in Nat \ {0} /\ Zero \in Word
      /\ \A k \in 0..(FieldBits - 1) : {k} \in Word
  BY FieldAssumption DEF Zero, Word
<1>1. Zero \in S
  <2>1. Shifted(Zero, s) = Zero
    BY DEF Shifted, Zero
  <2>2. Residue(Zero) = Zero
    BY <1>0, ResidueOfWord
  <2>3. MulTerm(Zero)[s] = Zero
    <3>1. Xor(Zero, Zero) = Zero
      BY XorAlgebra
    <3>2. MulTerm(Zero)[s] = Xor(MulTerm(Zero)[s], MulTerm(Zero)[s])
      BY <1>0, <3>1, MulTermLinear
    <3> QED
      BY <3>2, XorAlgebra
  <2> QED
    BY <1>0, <2>1, <2>2, <2>3
<1>2. ASSUME NEW value \in S \cap Word, NEW k \in 0..(FieldBits - 1) PROVE Xor(value, {k}) \in S
  <2>1. k \in Nat /\ k + s \in 0..(2 * FieldBits - 1)
    BY <1>0
  <2>2. encode(k + s) = MulTerm({k})[s]
    BY <2>1, PowerSteps, SmallPowers
  <2>3. Shifted(Xor(value, {k}), s) = Xor(Shifted(value, s), {k + s})
    <3>1. \A i \in value : i \in Int
      BY DEF Word
    <3>2. ASSUME NEW w, \A i \in w : i \in Int, NEW e
          PROVE  (e \in Shifted(w, s)) = (e \in Int /\ e - s \in w)
      BY <1>0, <3>2 DEF Shifted
    <3>3. \A i \in Xor(value, {k}) : i \in Int
      BY <2>1, <3>1 DEF Xor
    <3>4. ASSUME NEW e
          PROVE  (e \in Shifted(Xor(value, {k}), s)) = (e \in Xor(Shifted(value, s), {k + s}))
      <4>1. (e \in Shifted(value, s)) = (e \in Int /\ e - s \in value)
        BY <3>1, <3>2
      <4>2. (e \in Shifted(Xor(value, {k}), s)) = (e \in Int /\ e - s \in Xor(value, {k}))
        BY <3>2, <3>3
      <4>3. (e = k + s) = (e \in Int /\ e - s = k)
        BY <1>0, <2>1
      <4> QED
        BY <4>1, <4>2, <4>3 DEF Xor
    <3> QED
      BY <3>4
  <2>4. Residue(Xor(Shifted(value, s), {k + s})) = Xor(Residue(Shifted(value, s)), encode(k + s))
    BY <2>1, ResidueLinear
  <2>5. MulTerm(Xor(value, {k}))[s] = Xor(MulTerm(value)[s], MulTerm({k})[s])
    BY <1>0, MulTermLinear
  <2>6. Xor(value, {k}) \in Word
    BY <1>0, XorType
  <2> QED
    BY <2>2, <2>3, <2>4, <2>5, <2>6
<1>3. Word \subseteq S
  <2> HIDE DEF S
  <2> QED
    BY <1>1, <1>2, WordInduction
<1> QED
  BY <1>3

\* The modulus and its multiples have no remainder.
LEMMA ResidueOfModulus ==
  ASSUME NEW s \in 0..(FieldBits - 1)
  PROVE  Residue(Shifted(ReductionLow \cup {FieldBits}, s)) = Zero
<1>0. /\ FieldBits \in Nat \ {0} /\ FieldBits - 1 \in Nat /\ (FieldBits - 1) + 1 = FieldBits
      /\ ReductionLow \in Word /\ s \in 0..FieldBits /\ FieldBits + s \in 0..(2 * FieldBits - 1)
  BY FieldAssumption DEF Word
<1>1. encode(FieldBits) = ReductionLow
  <2>1. encode(FieldBits - 1) = {FieldBits - 1}
    BY <1>0, SmallPowers
  <2>2. encode(FieldBits) = field_xtime({FieldBits - 1})
    BY <1>0, <2>1, EncodePowers
  <2>3. {i + 1 : i \in {FieldBits - 1} \ {FieldBits - 1}} = Zero
    BY DEF Zero
  <2>4. field_xtime({FieldBits - 1}) = Xor(Zero, ReductionLow)
    BY <2>3, Zenon DEF field_xtime
  <2> QED
    BY <2>2, <2>4, XorAlgebra
<1>2. encode(FieldBits + s) = MulTerm(ReductionLow)[s]
  BY <1>0, <1>1, PowerSteps
<1>3. Residue(Shifted(ReductionLow, s)) = MulTerm(ReductionLow)[s]
  BY <1>0, ResidueOfShifted
<1>4. Shifted(ReductionLow \cup {FieldBits}, s) = Xor(Shifted(ReductionLow, s), {FieldBits + s})
  <2>1. \A i \in ReductionLow : i \in Int /\ i # FieldBits
    BY FieldAssumption
  <2> QED
    BY <1>0, <2>1 DEF Shifted, Xor
<1>5. Residue(Shifted(ReductionLow \cup {FieldBits}, s))
        = Xor(Residue(Shifted(ReductionLow, s)), encode(FieldBits + s))
  BY <1>0, <1>4, ResidueLinear
<1> QED
  BY <1>2, <1>3, <1>5, XorAlgebra

-----------------------------------------------------------------------------
(* The oracle's product *)

\* multiply() in its two loops: the carry-less product and the long division.
Carryless(left, right) ==
    LET product[bit \in 0..FieldBits] ==
          IF bit = 0 THEN Zero
          ELSE IF bit - 1 \in right
               THEN Xor(product[bit - 1], {i + bit - 1 : i \in left})
               ELSE product[bit - 1]
    IN  product[FieldBits]

Multiple(i) ==
    {e + (2 * FieldBits - 1 - i - FieldBits) : e \in ReductionLow \cup {FieldBits}}

Reduced(word) ==
    LET reduced[n \in 0..(FieldBits - 1)] ==
          IF n = 0 THEN word
          ELSE IF 2 * FieldBits - 1 - n \in reduced[n - 1]
               THEN Xor(reduced[n - 1], Multiple(n))
               ELSE reduced[n - 1]
    IN  reduced[FieldBits - 1]

Polynomial == SUBSET (0..(2 * FieldBits - 2))

\* The steps of the two loops.
CarrylessSteps(g, left, right) ==
    /\ g[0] = Zero
    /\ \A i \in 1..FieldBits :
          g[i] = IF i - 1 \in right THEN Xor(g[i - 1], {e + i - 1 : e \in left}) ELSE g[i - 1]
    /\ \A i \in 0..FieldBits : g[i] \in Polynomial

ReducedSteps(g, word) ==
    /\ g[0] = word
    /\ \A i \in 1..(FieldBits - 1) :
          g[i] = IF 2 * FieldBits - 1 - i \in g[i - 1]
                 THEN Xor(g[i - 1], Multiple(i)) ELSE g[i - 1]
    /\ \A i \in 0..(FieldBits - 1) : g[i] \in Polynomial

\* multiply() is one after the other.
LEMMA MultiplyLoops ==
  ASSUME NEW left, NEW right
  PROVE  multiply(left, right) = Reduced(Carryless(left, right))
  BY Zenon DEF multiply, Carryless, Reduced, Multiple

\* The loop of the carry-less product.
LEMMA CarrylessLoop ==
  ASSUME NEW left \in Word, NEW right
  PROVE  \E g : CarrylessSteps(g, left, right) /\ Carryless(left, right) = g[FieldBits]
<1> DEFINE n == FieldBits
           Step(x, k) == IF k - 1 \in right THEN Xor(x, {e + k - 1 : e \in left}) ELSE x
           Eq(g) == g = [i \in 0..n |-> IF i = 0 THEN Zero
                      ELSE IF i - 1 \in right THEN Xor(g[i - 1], {e + i - 1 : e \in left})
                      ELSE g[i - 1]]
           F == [p \in Polynomial \X (1..n) |-> Step(p[1], p[2])]
           result == CHOOSE g : Eq(g)
<1>0. n \in Nat /\ Zero \in Polynomial
  BY FieldAssumption DEF Zero, Polynomial
<1>1. ASSUME NEW x \in Polynomial, NEW i \in 1..n PROVE Step(x, i) \in Polynomial
  <2>1. {e + i - 1 : e \in left} \in Polynomial
    BY <1>0 DEF Word, Polynomial
  <2> DEFINE t == {e + i - 1 : e \in left}
  <2>2. Xor(x, t) \in Polynomial
    <3> HIDE DEF t
    <3>1. t \in Polynomial
      BY <2>1 DEF t
    <3> QED
      BY <3>1 DEF Polynomial, Xor
  <2> QED
    BY <2>2, Zenon
<1>2. F \in [Polynomial \X (1..n) -> Polynomial]
  <2> HIDE DEF Step, n
  <2> QED
    BY <1>1
<1>3. \E g : Eq(g)
  <2>1. PICK g \in [0..n -> Polynomial] : Iterates(g, Zero, n, F)
    <3> HIDE DEF n, F
    <3> QED
      BY <1>0, <1>2, IterationExists
  <2>2. \A i \in 1..n : g[i - 1] \in Polynomial /\ F[<<g[i - 1], i>>] = Step(g[i - 1], i)
    <3> HIDE DEF n, Step
    <3> QED
      BY <1>0
  <2>3. g = [i \in 0..n |-> IF i = 0 THEN Zero ELSE Step(g[i - 1], i)]
    <3> HIDE DEF n, F, Step
    <3> QED
      BY <2>1, <2>2 DEF Iterates
  <2> QED
    BY <2>3, Zenon
<1>4. result = [i \in 0..n |-> IF i = 0 THEN Zero ELSE Step(result[i - 1], i)]
  <2>1. Eq(result)
    <3> HIDE DEF Eq
    <3> QED
      BY <1>3, Zenon
  <2> QED
    BY <2>1, Zenon
<1>5. result[0] = Zero /\ \A i \in 1..n : result[i] = Step(result[i - 1], i)
  <2> HIDE DEF n, result, Step
  <2> QED
    BY <1>0, <1>4
<1>6. \A i \in 0..n : result[i] \in Polynomial
  <2> HIDE DEF n, result, Step
  <2>1. \A i \in 1..n : result[i - 1] \in Polynomial => result[i] \in Polynomial
    BY <1>1, <1>5, Zenon
  <2> QED
    BY <1>0, <1>5, <2>1, IterationType, Zenon
<1>7. Carryless(left, right) = result[n]
  BY Zenon DEF Carryless
<1>8. CarrylessSteps(result, left, right)
  <2> HIDE DEF result
  <2> QED
    BY <1>5, <1>6, Zenon DEF CarrylessSteps
<1> QED
  BY <1>7, <1>8, Zenon

\* The loop of the long division.
LEMMA ReducedLoop ==
  ASSUME NEW word \in Polynomial
  PROVE  \E g : ReducedSteps(g, word) /\ Reduced(word) = g[FieldBits - 1]
<1> DEFINE n == (FieldBits - 1)
           Step(x, k) == IF 2 * FieldBits - 1 - k \in x THEN Xor(x, Multiple(k)) ELSE x
           Eq(g) == g = [i \in 0..n |-> IF i = 0 THEN word
                      ELSE IF 2 * FieldBits - 1 - i \in g[i - 1]
                      THEN Xor(g[i - 1], Multiple(i))
                      ELSE g[i - 1]]
           F == [p \in Polynomial \X (1..n) |-> Step(p[1], p[2])]
           result == CHOOSE g : Eq(g)
<1>0. n \in Nat /\ word \in Polynomial
  BY FieldAssumption
<1>1. ASSUME NEW x \in Polynomial, NEW i \in 1..n PROVE Step(x, i) \in Polynomial
  <2> DEFINE t == Multiple(i)
  <2>1. t \in Polynomial
    <3>1. \A e \in ReductionLow \cup {FieldBits} :
             e + (2 * FieldBits - 1 - i - FieldBits) \in 0..(2 * FieldBits - 2)
      BY <1>0, FieldAssumption
    <3> QED
      BY <3>1 DEF Polynomial, Multiple
  <2>2. Xor(x, t) \in Polynomial
    <3> HIDE DEF t
    <3> QED
      BY <2>1 DEF Polynomial, Xor
  <2> QED
    BY <2>2, Zenon
<1>2. F \in [Polynomial \X (1..n) -> Polynomial]
  <2> HIDE DEF Step, n
  <2> QED
    BY <1>1
<1>3. \E g : Eq(g)
  <2>1. PICK g \in [0..n -> Polynomial] : Iterates(g, word, n, F)
    <3> HIDE DEF n, F
    <3> QED
      BY <1>0, <1>2, IterationExists
  <2>2. \A i \in 1..n : g[i - 1] \in Polynomial /\ F[<<g[i - 1], i>>] = Step(g[i - 1], i)
    <3> HIDE DEF n, Step
    <3> QED
      BY <1>0
  <2>3. g = [i \in 0..n |-> IF i = 0 THEN word ELSE Step(g[i - 1], i)]
    <3> HIDE DEF n, F, Step
    <3> QED
      BY <2>1, <2>2 DEF Iterates
  <2> QED
    BY <2>3, Zenon
<1>4. result = [i \in 0..n |-> IF i = 0 THEN word ELSE Step(result[i - 1], i)]
  <2>1. Eq(result)
    <3> HIDE DEF Eq
    <3> QED
      BY <1>3, Zenon
  <2> QED
    BY <2>1, Zenon
<1>5. result[0] = word /\ \A i \in 1..n : result[i] = Step(result[i - 1], i)
  <2> HIDE DEF n, result, Step
  <2> QED
    BY <1>0, <1>4
<1>6. \A i \in 0..n : result[i] \in Polynomial
  <2> HIDE DEF n, result, Step
  <2>1. \A i \in 1..n : result[i - 1] \in Polynomial => result[i] \in Polynomial
    BY <1>1, <1>5, Zenon
  <2> QED
    BY <1>0, <1>5, <2>1, IterationType, Zenon
<1>7. Reduced(word) = result[n]
  BY Zenon DEF Reduced
<1>8. ReducedSteps(result, word)
  <2> HIDE DEF result
  <2> QED
    BY <1>5, <1>6, Zenon DEF ReducedSteps
<1> QED
  BY <1>7, <1>8, Zenon

\* The carry-less product leaves the remainder of the endpoint's product.
LEMMA ResidueOfCarryless ==
  ASSUME NEW left \in Word, NEW right
  PROVE  /\ Carryless(left, right) \in Polynomial
         /\ Residue(Carryless(left, right)) = field_mul(left, right)
<1>0. FieldBits \in Nat \ {0}
  BY FieldAssumption
<1>1. PICK g : CarrylessSteps(g, left, right) /\ Carryless(left, right) = g[FieldBits]
  BY CarrylessLoop
<1>2. PICK sum : Accumulates(sum, left, right) /\ field_mul(left, right) = sum[FieldBits]
  BY MulDef
<1> DEFINE T == {i \in 0..FieldBits : Residue(g[i]) = sum[i]}
<1>3. 0 \in T
  <2>1. Zero \in Word
    BY DEF Zero, Word
  <2>2. Residue(Zero) = Zero
    BY <2>1, ResidueOfWord
  <2> QED
    BY <1>0, <1>1, <1>2, <2>2 DEF Accumulates, CarrylessSteps
<1>4. ASSUME NEW i \in 1..FieldBits, i - 1 \in T PROVE i \in T
  <2>1. Residue(g[i - 1]) = sum[i - 1] /\ i \in 0..FieldBits
    BY <1>4
  <2>2. CASE i - 1 \in right
    <3>1. {e + i - 1 : e \in left} = Shifted(left, i - 1)
      <4>1. \A e \in left : e + i - 1 = e + (i - 1)
        BY DEF Word
      <4> QED
        BY <4>1, Zenon DEF Shifted
    <3>2. g[i] = Xor(g[i - 1], Shifted(left, i - 1))
      BY <1>1, <2>2, <3>1, Zenon DEF CarrylessSteps
    <3>3. sum[i] = Xor(sum[i - 1], MulTerm(left)[i - 1])
      BY <1>2, <2>2, Zenon DEF Accumulates
    <3>4. Residue(Shifted(left, i - 1)) = MulTerm(left)[i - 1]
      <4>1. i - 1 \in 0..FieldBits
        BY <1>0
      <4> QED
        BY <4>1, ResidueOfShifted
    <3>5. Residue(g[i]) = sum[i]
      <4>1. Residue(Xor(g[i - 1], Shifted(left, i - 1)))
              = Xor(Residue(g[i - 1]), Residue(Shifted(left, i - 1)))
        BY ResidueLinear, Zenon
      <4> QED
        BY <2>1, <3>2, <3>3, <3>4, <4>1
    <3> QED
      BY <2>1, <3>5
  <2>3. CASE i - 1 \notin right
    <3>1. g[i] = g[i - 1] /\ sum[i] = sum[i - 1]
      BY <1>1, <1>2, <2>3, Zenon DEF Accumulates, CarrylessSteps
    <3> QED
      BY <2>1, <3>1
  <2> QED
    BY <2>2, <2>3
<1>5. 0..FieldBits \subseteq T
  <2> HIDE DEF T
  <2> QED
    BY <1>0, <1>3, <1>4, IntervalInduction
<1>6. FieldBits \in 0..FieldBits
  BY <1>0
<1>7. Residue(g[FieldBits]) = sum[FieldBits]
  BY <1>5, <1>6
<1> QED
  BY <1>1, <1>2, <1>6, <1>7, Zenon DEF CarrylessSteps

\* The long division ends with the remainder.
LEMMA ReducedIsResidue ==
  ASSUME NEW word \in Polynomial
  PROVE  Reduced(word) = Residue(word)
<1>0. FieldBits \in Nat \ {0} /\ FieldBits - 1 \in Nat /\ FieldBits - 1 \in 0..(FieldBits - 1)
  BY FieldAssumption
<1>1. PICK g : ReducedSteps(g, word) /\ Reduced(word) = g[FieldBits - 1]
  BY ReducedLoop
<1> DEFINE T == {i \in 0..(FieldBits - 1) : /\ Residue(g[i]) = Residue(word)
                                            /\ \A k \in g[i] : k <= 2 * FieldBits - 2 - i}
<1>2. 0 \in T
  BY <1>0, <1>1 DEF Polynomial, ReducedSteps
<1>3. ASSUME NEW i \in 1..(FieldBits - 1), i - 1 \in T PROVE i \in T
  <2> DEFINE top == 2 * FieldBits - 1 - i
  <2>1. /\ Residue(g[i - 1]) = Residue(word) /\ i \in 0..(FieldBits - 1)
        /\ \A k \in g[i - 1] : k \in Int /\ k <= top
    BY <1>0, <1>1, <1>3 DEF Polynomial, ReducedSteps
  <2>2. CASE top \in g[i - 1]
    <3>1. g[i] = Xor(g[i - 1], Multiple(i))
      BY <1>1, <2>2, Zenon DEF ReducedSteps
    <3>2. Residue(Multiple(i)) = Zero
      <4>1. top - FieldBits \in 0..(FieldBits - 1)
        BY <1>0
      <4>2. Multiple(i) = Shifted(ReductionLow \cup {FieldBits}, top - FieldBits)
        BY Zenon DEF Shifted, Multiple
      <4> QED
        BY <4>1, <4>2, ResidueOfModulus
    <3>3. Residue(g[i]) = Residue(word)
      <4>1. Residue(g[i]) = Xor(Residue(word), Zero)
        BY <2>1, <3>1, <3>2, ResidueLinear, Zenon
      <4> QED
        BY <4>1, XorAlgebra
    <3>4. top \in Multiple(i) /\ \A k \in Multiple(i) : k \in Int /\ k <= top
      BY <1>0, FieldAssumption DEF Multiple
    <3>5. \A k \in g[i] : k <= 2 * FieldBits - 2 - i
      <4>1. \A k \in g[i] : k \in Int /\ k <= top /\ k # top
        BY <2>1, <2>2, <3>1, <3>4 DEF Xor
      <4> QED
        BY <1>0, <4>1
    <3> QED
      BY <2>1, <3>3, <3>5
  <2>3. CASE top \notin g[i - 1]
    <3>1. g[i] = g[i - 1]
      BY <1>1, <2>3, Zenon DEF ReducedSteps
    <3>2. \A k \in g[i] : k <= 2 * FieldBits - 2 - i
      BY <1>0, <2>1, <2>3, <3>1
    <3> QED
      BY <2>1, <3>1, <3>2
  <2> QED
    BY <2>2, <2>3
<1>4. 0..(FieldBits - 1) \subseteq T
  <2> HIDE DEF T
  <2> QED
    BY <1>0, <1>2, <1>3, IntervalInduction
<1>5. /\ Residue(g[FieldBits - 1]) = Residue(word)
      /\ \A k \in g[FieldBits - 1] : k <= 2 * FieldBits - 2 - (FieldBits - 1)
  BY <1>0, <1>4
<1>6. g[FieldBits - 1] \in Word
  BY <1>0, <1>1, <1>5 DEF Polynomial, Word, ReducedSteps
<1> QED
  BY <1>1, <1>5, <1>6, ResidueOfWord

\* The oracle multiplies as the endpoint does: the carry-less product reduced by
\* long division (scalar_step_oracle.py) is the shift-and-add product with a
\* reduction at each doubling (field_mul), for every degree and modulus.
THEOREM OracleMultipliesAlike ==
  \A left, right \in Word : multiply(left, right) = field_mul(left, right)
  BY MultiplyLoops, ResidueOfCarryless, ReducedIsResidue

-----------------------------------------------------------------------------
(* Products                                                                *)

\* x commutes with any product.
LEMMA XtimeMul ==
  ASSUME NEW a \in Word
  PROVE  \A w \in Word : field_mul(field_xtime(a), w) = field_xtime(field_mul(a, w))
<1> DEFINE S == {w \in Word : field_mul(field_xtime(a), w) = field_xtime(field_mul(a, w))}
           T == {k \in 0..FieldBits : MulTerm(field_xtime(a))[k] = field_xtime(MulTerm(a)[k])}
<1>0. /\ FieldBits \in Nat \ {0} /\ Zero \in Word /\ field_xtime(a) \in Word
      /\ \A k \in 0..(FieldBits - 1) : {k} \in Word
  BY FieldAssumption, XtimeType DEF Zero, Word
<1>1. \A k \in 0..FieldBits : MulTerm(field_xtime(a))[k] = field_xtime(MulTerm(a)[k])
  <2>1. 0 \in T
    BY <1>0, MulTermDef
  <2>2. ASSUME NEW k \in 1..FieldBits, k - 1 \in T PROVE k \in T
    <3>1. k \in 0..FieldBits /\ MulTerm(field_xtime(a))[k - 1] = field_xtime(MulTerm(a)[k - 1])
      BY <2>2
    <3>2. /\ MulTerm(field_xtime(a))[k] = field_xtime(MulTerm(field_xtime(a))[k - 1])
          /\ MulTerm(a)[k] = field_xtime(MulTerm(a)[k - 1])
      BY <1>0, MulTermDef
    <3> QED
      BY <3>1, <3>2
  <2>3. 0..FieldBits \subseteq T
    <3> HIDE DEF T
    <3> QED
      BY <1>0, <2>1, <2>2, IntervalInduction
  <2> QED
    BY <2>3
<1>2. Zero \in S
  <2>1. field_xtime(Zero) = Zero
    <3>1. Zero = Xor(Zero, Zero)
      BY XorAlgebra
    <3>2. field_xtime(Zero) = Xor(field_xtime(Zero), field_xtime(Zero))
      BY <1>0, <3>1, XtimeLinear
    <3> QED
      BY <3>2, XorAlgebra
  <2> QED
    BY <1>0, <2>1, MulZero
<1>3. ASSUME NEW w \in S \cap Word, NEW k \in 0..(FieldBits - 1) PROVE Xor(w, {k}) \in S
  <2>1. k \in 0..FieldBits /\ {k} \in Word /\ Xor(w, {k}) \in Word
    BY <1>0, XorType
  <2>2. field_mul(field_xtime(a), {k}) = field_xtime(field_mul(a, {k}))
    BY <1>0, <1>1, <2>1, MulPower
  <2>3. field_mul(field_xtime(a), Xor(w, {k}))
          = Xor(field_mul(field_xtime(a), w), field_mul(field_xtime(a), {k}))
    BY <1>0, MulRightLinear
  <2>4. field_mul(a, Xor(w, {k})) = Xor(field_mul(a, w), field_mul(a, {k}))
    BY MulRightLinear
  <2>5. field_mul(a, w) \in Word /\ field_mul(a, {k}) \in Word
    BY MulType
  <2> QED
    BY <2>1, <2>2, <2>3, <2>4, <2>5, XtimeLinear
<1>4. Word \subseteq S
  <2> HIDE DEF S
  <2> QED
    BY <1>2, <1>3, WordInduction
<1> QED
  BY <1>4

\* One is neutral.
LEMMA MulOne ==
  ASSUME NEW w \in Word
  PROVE  field_mul(One, w) = w
<1>1. 0 \in 0..(FieldBits - 1) /\ One \in Word /\ One = {0}
  BY FieldAssumption DEF One, Word
<1>2. field_mul(w, One) = w
  BY <1>1, MulPower, MulTermDef
<1> QED
  BY <1>1, <1>2, MultiplicationCommutes

\* Products associate.
LEMMA MulAssociates ==
  ASSUME NEW a \in Word, NEW b \in Word
  PROVE  \A w \in Word : field_mul(field_mul(a, b), w) = field_mul(a, field_mul(b, w))
<1> DEFINE S == {w \in Word : field_mul(field_mul(a, b), w) = field_mul(a, field_mul(b, w))}
           T == {k \in 0..FieldBits : MulTerm(field_mul(a, b))[k] = field_mul(a, MulTerm(b)[k])}
<1>0. /\ FieldBits \in Nat \ {0} /\ Zero \in Word /\ field_mul(a, b) \in Word
      /\ \A k \in 0..(FieldBits - 1) : {k} \in Word
  BY FieldAssumption, MulType DEF Zero, Word
<1>1. \A k \in 0..FieldBits : MulTerm(field_mul(a, b))[k] = field_mul(a, MulTerm(b)[k])
  <2>1. 0 \in T
    BY <1>0, MulTermDef
  <2>2. ASSUME NEW k \in 1..FieldBits, k - 1 \in T PROVE k \in T
    <3>1. k \in 0..FieldBits /\ MulTerm(field_mul(a, b))[k - 1] = field_mul(a, MulTerm(b)[k - 1])
      BY <2>2
    <3>2. /\ MulTerm(field_mul(a, b))[k] = field_xtime(MulTerm(field_mul(a, b))[k - 1])
          /\ MulTerm(b)[k] = field_xtime(MulTerm(b)[k - 1])
          /\ MulTerm(b)[k - 1] \in Word /\ k - 1 \in 0..FieldBits
      BY <1>0, MulTermDef
    <3>3. ASSUME NEW y \in Word PROVE field_mul(a, field_xtime(y)) = field_xtime(field_mul(a, y))
      <4>1. field_xtime(y) \in Word
        BY XtimeType
      <4> QED
        BY <4>1, XtimeMul, MultiplicationCommutes
    <3> QED
      BY <3>1, <3>2, <3>3
  <2>3. 0..FieldBits \subseteq T
    <3> HIDE DEF T
    <3> QED
      BY <1>0, <2>1, <2>2, IntervalInduction
  <2> QED
    BY <2>3
<1>2. Zero \in S
  BY <1>0, MulZero
<1>3. ASSUME NEW w \in S \cap Word, NEW k \in 0..(FieldBits - 1) PROVE Xor(w, {k}) \in S
  <2>1. k \in 0..FieldBits /\ {k} \in Word /\ Xor(w, {k}) \in Word
    BY <1>0, XorType
  <2>2. field_mul(field_mul(a, b), {k}) = field_mul(a, field_mul(b, {k}))
    BY <1>0, <1>1, <2>1, MulPower
  <2>3. field_mul(field_mul(a, b), Xor(w, {k}))
          = Xor(field_mul(field_mul(a, b), w), field_mul(field_mul(a, b), {k}))
    BY <1>0, <2>1, MulRightLinear
  <2>4. field_mul(b, Xor(w, {k})) = Xor(field_mul(b, w), field_mul(b, {k}))
    BY <2>1, MulRightLinear
  <2>5. field_mul(b, w) \in Word /\ field_mul(b, {k}) \in Word
    BY <2>1, MulType
  <2>6. field_mul(a, Xor(field_mul(b, w), field_mul(b, {k})))
          = Xor(field_mul(a, field_mul(b, w)), field_mul(a, field_mul(b, {k})))
    BY <2>5, MulRightLinear
  <2> QED
    BY <2>1, <2>2, <2>3, <2>4, <2>6
<1>4. Word \subseteq S
  <2> HIDE DEF S
  <2> QED
    BY <1>2, <1>3, WordInduction
<1> QED
  BY <1>4

-----------------------------------------------------------------------------
(* The oracle's binary rule                                                *)

BackSolves(mem, a, b, c) ==
    mem[c].present /\ ((~mem[a].present) # (~mem[b].present))

\* The oracle's binary rule, by what it back-solves.
OracleBinary(mem, p, f, a, b, c, kind) == StepBinary(mem, p, f, a, b, c, kind = "Mul")

\* Without a back-solve it stores the result; with one it refuses a zero known factor, or
\* fills the missing operand in and stores what the two then give.
LEMMA OracleBinaryShape ==
  ASSUME NEW mem, NEW p, NEW f, NEW a, NEW b, NEW c, NEW kind,
         NEW missing, missing = (IF ~mem[a].present THEN a ELSE b),
         NEW known, known = mem[IF ~mem[a].present THEN b ELSE a].value,
         NEW filler, filler = (IF kind = "Mul" THEN multiply(mem[c].value, inverse(known))
                               ELSE Xor(mem[c].value, known)),
         NEW filled, filled = write_once(mem, missing, filler)
  PROVE  /\ ~BackSolves(mem, a, b, c) =>
              OracleBinary(mem, p, f, a, b, c, kind)
                = StoreAndAdvance(mem, p, f, c,
                    IF kind = "Mul" THEN multiply(mem[a].value, mem[b].value)
                    ELSE Xor(mem[a].value, mem[b].value))
         /\ (BackSolves(mem, a, b, c) /\ kind = "Mul" /\ known = Zero) =>
              OracleBinary(mem, p, f, a, b, c, kind) = Faulted
         /\ (BackSolves(mem, a, b, c) /\ (kind = "Mul" => known # Zero)) =>
              OracleBinary(mem, p, f, a, b, c, kind)
                = StoreAndAdvance(filled, p, f, c,
                    IF kind = "Mul" THEN multiply(filled[a].value, filled[b].value)
                    ELSE Xor(filled[a].value, filled[b].value))
<1>1. ASSUME ~BackSolves(mem, a, b, c)
      PROVE  OracleBinary(mem, p, f, a, b, c, kind)
                = StoreAndAdvance(mem, p, f, c,
                    IF kind = "Mul" THEN multiply(mem[a].value, mem[b].value)
                    ELSE Xor(mem[a].value, mem[b].value))
  BY <1>1, ZenonT(60) DEF OracleBinary, StepBinary, read, BackSolves
<1>2. ASSUME BackSolves(mem, a, b, c), kind = "Mul", known = Zero
      PROVE  OracleBinary(mem, p, f, a, b, c, kind) = Faulted
  BY <1>2, ZenonT(60) DEF OracleBinary, StepBinary, read, BackSolves
<1>3. ASSUME BackSolves(mem, a, b, c), kind = "Mul" => known # Zero
      PROVE  OracleBinary(mem, p, f, a, b, c, kind)
                = StoreAndAdvance(filled, p, f, c,
                    IF kind = "Mul" THEN multiply(filled[a].value, filled[b].value)
                    ELSE Xor(filled[a].value, filled[b].value))
  BY <1>3, ZenonT(60) DEF OracleBinary, StepBinary, read, BackSolves
<1> QED
  BY <1>1, <1>2, <1>3, Zenon

-----------------------------------------------------------------------------
(* Cells and transitions                                                   *)

\* The host's memory, and what a decision may ask to write or to equate in it.
Memory   == [Address -> Cell]
Write    == [address : Address, value : Word]
Equality == [target : Address, local : Address]

\* A cell is a record; a present one holds a word.
LEMMA CellType ==
  ASSUME NEW cell \in Cell
  PROVE  /\ cell.present \in BOOLEAN
         /\ cell.value \in Word
         /\ cell.present => cell = Present(cell.value)
         /\ ~cell.present => cell = ABSENT
<1>1. Zero \in Word
  BY DEF Zero, Word
<1>2. CASE cell = ABSENT
  <2>1. ABSENT.present = FALSE /\ ABSENT.value = Zero
    BY DEF ABSENT
  <2> QED
    BY <1>1, <1>2, <2>1, Zenon
<1>3. CASE \E value \in Word : cell = Present(value)
  <2>1. PICK value \in Word : cell = Present(value)
    BY <1>3
  <2>2. Present(value).present = TRUE /\ Present(value).value = value
    BY DEF Present
  <2> QED
    BY <2>1, <2>2, Zenon
<1> QED
  BY <1>2, <1>3, Zenon DEF Cell

\* Present makes a cell of a word.
LEMMA PresentType ==
  ASSUME NEW value \in Word
  PROVE  Present(value) \in Cell
  BY DEF Cell

\* What a transition sees of an address it was given is a cell.
LEMMA FrameType ==
  ASSUME NEW addresses, NEW cells,
         \A i \in DOMAIN addresses : cells[i] \in Cell
  PROVE  /\ DOMAIN Frame(addresses, cells) = {addresses[i] : i \in DOMAIN addresses}
         /\ \A i \in DOMAIN addresses : Frame(addresses, cells)[addresses[i]] \in Cell
<1> DEFINE at(address) == CHOOSE i \in DOMAIN addresses : addresses[i] = address
<1>1. ASSUME NEW i \in DOMAIN addresses
      PROVE  at(addresses[i]) \in DOMAIN addresses
  BY Zenon
<1>2. ASSUME NEW i \in DOMAIN addresses
      PROVE  Frame(addresses, cells)[addresses[i]] = cells[at(addresses[i])]
  BY Zenon DEF Frame
<1>3. DOMAIN Frame(addresses, cells) = {addresses[i] : i \in DOMAIN addresses}
  BY Zenon DEF Frame
<1> HIDE DEF at
<1> QED
  BY <1>1, <1>2, <1>3, Zenon

\* A read is a word.
LEMMA ReadType ==
  ASSUME NEW frame, NEW address, frame[address] \in Cell
  PROVE  Read(frame, address) \in Word
<1>1. Zero \in Word
  BY DEF Zero, Word
<1> QED
  BY <1>1, CellType DEF Read

\* write_once appends well-formed writes only.
LEMMA NewWritesType ==
  ASSUME NEW frame, NEW address \in Address, NEW value \in Word
  PROVE  NewWrites(frame, address, value) \in Seq(Write)
<1>1. <<[address |-> address, value |-> value]>> \in Seq(Write)
  BY DEF Write
<1>2. <<>> \in Seq(Write)
  OBVIOUS
<1> QED
  BY <1>1, <1>2, Zenon DEF NewWrites

\* write_once leaves every cell a cell.
LEMMA WriteOnceType ==
  ASSUME NEW frame, NEW address, NEW value \in Word, NEW other,
         other \in DOMAIN frame, frame[other] \in Cell
  PROVE  WriteOnce(frame, address, value)[other] \in Cell
  BY PresentType DEF WriteOnce

\* The request a handler sees: natural operands, and a cell for every address
\* the opcode touches (decode_request_payload).
IsOperands(request) ==
    /\ request.opcode \in INSTRUCTION_OPCODES
    /\ request.fp \in Nat
    /\ request.constant \in Word
    /\ request.base \in Nat
    /\ request.message_offsets \in Seq(Nat)
    /\ request.cv_offset \in Nat
    /\ request.out_offset \in Nat
    /\ \A i \in DOMAIN request.offsets : request.offsets[i] \in Nat
    /\ request.opcode = "SET_CONSTANT" => DOMAIN request.offsets = 1..1
    /\ request.opcode \in ScalarOpcodes \ {"SET_CONSTANT"} =>
          DOMAIN request.offsets = 1..3
    /\ request.opcode \in ScalarOpcodes =>
          \A i \in DOMAIN request.offsets : request.cells[i] \in Cell
    /\ request.opcode = "BLAKE3_REQUEST" =>
          \A i \in DOMAIN blake3_addresses(request) : request.cells[i] \in Cell

\* A decided transition is well formed, and a suspended one names addresses,
\* at least the two of its outputs.
Effects(outcome) ==
    /\ outcome.status = "OK" =>
          /\ outcome.writes \in Seq(Write)
          /\ outcome.deferred \in Seq(Equality)
          /\ outcome.accesses \in Seq(Address)
    /\ outcome.status = "SERVICE_REQUIRED" =>
          outcome.accesses \in Seq(Address) /\ Len(outcome.accesses) >= 2

\* The statuses the rules answer have no effects.
LEMMA FaultEffects ==
  \A status \in {"U32_OVERFLOW", "ALIAS_INCONSISTENT", "UNSUPPORTED_IN_PROFILE",
                 "MUL_BACKSOLVE_ZERO", "BAD_INVERSE", "WRITE_CONFLICT",
                 "DEREF_MISMATCH", "INDEX_RANGE", "BAD_POINTER",
                 "BAD_BRANCH_PROPOSAL", "BAD_SERVICE"} : Effects(Fault(status))
  BY DEF Effects, Fault

\* Decided carries its effects.
LEMMA DecidedEffects ==
  ASSUME NEW pc, NEW fp, NEW writes \in Seq(Write),
         NEW deferred \in Seq(Equality), NEW accesses \in Seq(Address)
  PROVE  Effects(Decided(pc, fp, writes, deferred, accesses))
  BY DEF Effects, Decided

\* Addresses that do not overflow are addresses.
LEMMA AddressesType ==
  ASSUME NEW fp \in Nat, NEW n \in Nat, NEW offsets, DOMAIN offsets = 1..n,
         \A i \in 1..n : offsets[i] \in Nat, ~Overflows(Addresses(fp, offsets))
  PROVE  /\ Addresses(fp, offsets) \in Seq(Address)
         /\ \A i \in 1..n : Addresses(fp, offsets)[i] \in Address
<1> DEFINE addresses == Addresses(fp, offsets)
<1>1. DOMAIN addresses = 1..n /\ \A i \in 1..n : addresses[i] = fp + offsets[i]
  BY Zenon DEF Addresses
<1>2. \A i \in 1..n : ~(addresses[i] > U32_MAX)
  BY <1>1, Zenon DEF Overflows
<1>3. \A i \in 1..n : addresses[i] \in Address
  BY <1>1, <1>2, U32Assumption DEF Address
<1>4. addresses = [i \in 1..n |-> addresses[i]]
  BY <1>1, Zenon DEF Addresses
<1> HIDE DEF addresses
<1>5. addresses \in [1..n -> Address]
  BY <1>3, <1>4
<1>6. addresses \in Seq(Address)
  BY <1>5
<1> QED
  BY <1>3, <1>6 DEF addresses

\* XOR and MUL_NATIVE, back-solves included (_execute_binary).
LEMMA BinaryEffects ==
  ASSUME NEW request, IsOperands(request), request.opcode \in {"XOR", "MUL_NATIVE"}
  PROVE  Effects(execute_binary(request))
<1> DEFINE addresses == Addresses(request.fp, request.offsets)
           frame     == Frame(addresses, request.cells)
           a == addresses[1]
           b == addresses[2]
           c == addresses[3]
           absentA == ~frame[a].present
           absentB == ~frame[b].present
           backSolve == /\ request.profile = INTERPRETER_COMPAT
                        /\ frame[c].present
                        /\ absentA # absentB
           missing == IF absentA THEN a ELSE b
           known   == Read(frame, IF absentA THEN b ELSE a)
           solved  == BackSolved(request, Read(frame, c), known)
           filled  == IF backSolve THEN WriteOnce(frame, missing, solved) ELSE frame
           solving == IF backSolve THEN NewWrites(frame, missing, solved) ELSE <<>>
           result  == Combine(request.opcode, Read(filled, a), Read(filled, b))
<1>1. CASE Overflows(addresses)
  <2>1. execute_binary(request) = Fault("U32_OVERFLOW")
    BY <1>1, Zenon DEF execute_binary
  <2> QED
    BY <2>1, FaultEffects, Zenon
<1>2. CASE ~Overflows(addresses)
  <2>1. /\ DOMAIN request.offsets = 1..3
        /\ \A i \in 1..3 : request.offsets[i] \in Nat
        /\ \A i \in 1..3 : request.cells[i] \in Cell
        /\ request.fp \in Nat
    BY DEF IsOperands, ScalarOpcodes
  <2>2. addresses \in Seq(Address) /\ a \in Address /\ b \in Address /\ c \in Address
    <3>1. 3 \in Nat
      OBVIOUS
    <3>2. addresses \in Seq(Address) /\ \A i \in 1..3 : addresses[i] \in Address
      BY <1>2, <2>1, <3>1, AddressesType, Zenon
    <3> QED
      BY <3>2
  <2>3. DOMAIN addresses = 1..3
    BY <2>1 DEF Addresses
  <2>4. /\ frame[a] \in Cell /\ frame[b] \in Cell /\ frame[c] \in Cell
        /\ a \in DOMAIN frame /\ b \in DOMAIN frame /\ c \in DOMAIN frame
    <3> HIDE DEF addresses
    <3>1. 1 \in DOMAIN addresses /\ 2 \in DOMAIN addresses /\ 3 \in DOMAIN addresses
      BY <2>3
    <3>2. \A i \in DOMAIN addresses : request.cells[i] \in Cell
      BY <2>1, <2>3
    <3> QED
      BY <3>1, <3>2, FrameType
  <2> HIDE DEF addresses, a, b, c, frame
  <2>5. known \in Word /\ Read(frame, c) \in Word
    BY <2>4, ReadType, Zenon
  <2>6. solved \in Word
    BY <2>5, XorType, MulType, Zenon DEF BackSolved
  <2>7. missing \in Address
    BY <2>2, Zenon
  <2> HIDE DEF known, solved, missing, absentA, absentB
  <2>8. solving \in Seq(Write)
    <3>1. <<>> \in Seq(Write)
      OBVIOUS
    <3> QED
      BY <3>1, <2>6, <2>7, NewWritesType, Zenon
  <2>9. filled[a] \in Cell /\ filled[b] \in Cell
    BY <2>4, <2>6, WriteOnceType, Zenon
  <2> HIDE DEF filled, solving
  <2>10. result \in Word
    <3>1. Read(filled, a) \in Word /\ Read(filled, b) \in Word
      BY <2>9, ReadType, Zenon
    <3> QED
      BY <3>1, XorType, MulType, Zenon DEF Combine
  <2> HIDE DEF result
  <2>11. solving \o NewWrites(filled, c, result) \in Seq(Write)
    <3>1. NewWrites(filled, c, result) \in Seq(Write)
      BY <2>2, <2>10, NewWritesType, Zenon
    <3> HIDE DEF Write
    <3> QED
      BY <3>1, <2>8
  <2>12. <<>> \in Seq(Equality)
    OBVIOUS
  <2>13. Effects(Decided(request.pc + 1, request.fp,
                         solving \o NewWrites(filled, c, result), <<>>, addresses))
    BY <2>2, <2>11, <2>12, DecidedEffects, Zenon
  <2> QED
    BY <2>13, FaultEffects, Zenon
    DEF execute_binary, addresses, frame, a, b, c, absentA, absentB, missing, known,
        solved, filled, solving, result
<1> QED
  BY <1>1, <1>2

\* SET_CONSTANT (_execute_set).
LEMMA SetEffects ==
  ASSUME NEW request, IsOperands(request), request.opcode = "SET_CONSTANT"
  PROVE  Effects(execute_set(request))
<1> DEFINE address == request.fp + request.offsets[1]
           frame   == Frame(<<address>>, request.cells)
           writes  == NewWrites(frame, address, request.constant)
<1>1. CASE address > U32_MAX
  <2>1. execute_set(request) = Fault("U32_OVERFLOW")
    BY <1>1, Zenon DEF execute_set
  <2> QED
    BY <2>1, FaultEffects, Zenon
<1>2. CASE ~(address > U32_MAX)
  <2>1. request.fp \in Nat /\ request.offsets[1] \in Nat /\ request.constant \in Word
    BY DEF IsOperands
  <2>2. address \in Address
    BY <1>2, <2>1, U32Assumption DEF Address
  <2> HIDE DEF address
  <2>3. <<address>> \in Seq(Address) /\ <<>> \in Seq(Equality)
    BY <2>2
  <2>4. writes \in Seq(Write)
    BY <2>1, <2>2, NewWritesType, Zenon
  <2> HIDE DEF writes
  <2>5. Effects(Decided(request.pc + 1, request.fp, writes, <<>>, <<address>>))
    BY <2>3, <2>4, DecidedEffects, Zenon
  <2> QED
    BY <2>5, FaultEffects, Zenon DEF execute_set, address, writes
<1> QED
  BY <1>1, <1>2

\* DEREF_CELL, DEREF_PC and DEREF_FP (_execute_deref).
LEMMA DerefEffects ==
  ASSUME NEW request, IsOperands(request),
         request.opcode \in {"DEREF_CELL", "DEREF_PC", "DEREF_FP"}
  PROVE  Effects(execute_deref(request))
<1> DEFINE pointer   == request.fp + request.offsets[1]
           local     == request.fp + request.offsets[3]
           target    == request.base + request.offsets[2]
           addresses == <<pointer, target, local>>
           frame     == Frame(addresses, request.cells)
           value     == field_encode(DerefIndex(request))
           Done(writes, deferred) ==
               Decided(request.pc + 1, request.fp, writes, deferred, addresses)
<1>1. CASE pointer > U32_MAX \/ local > U32_MAX \/ target > U32_MAX
  <2>1. execute_deref(request) \in {Fault("U32_OVERFLOW"), Fault("INDEX_RANGE"),
                                    Fault("BAD_POINTER")}
    BY <1>1, Zenon DEF execute_deref
  <2> QED
    BY <2>1, FaultEffects, Zenon
<1>2. CASE ~(pointer > U32_MAX) /\ ~(local > U32_MAX) /\ ~(target > U32_MAX)
  <2>1. /\ request.fp \in Nat /\ request.base \in Nat
        /\ \A i \in 1..3 : request.offsets[i] \in Nat
        /\ \A i \in 1..3 : request.cells[i] \in Cell
    BY DEF IsOperands, ScalarOpcodes
  <2>2. pointer \in Address /\ local \in Address /\ target \in Address
    BY <1>2, <2>1, U32Assumption DEF Address
  <2> HIDE DEF pointer, local, target
  <2>3. addresses \in Seq(Address) /\ DOMAIN addresses = 1..3
    BY <2>2
  <2>4. frame[target] \in Cell /\ frame[local] \in Cell
    <3>1. addresses[2] = target /\ addresses[3] = local
      OBVIOUS
    <3>2. 2 \in DOMAIN addresses /\ 3 \in DOMAIN addresses
      BY <2>3
    <3>3. \A i \in DOMAIN addresses : request.cells[i] \in Cell
      BY <2>1, <2>3
    <3> HIDE DEF addresses
    <3> QED
      BY <3>1, <3>2, <3>3, FrameType
  <2>5. value \in Word
    BY EncodeType, Zenon
  <2> HIDE DEF addresses, frame, value
  <2>6. Read(frame, target) \in Word /\ Read(frame, local) \in Word
    BY <2>4, ReadType, Zenon
  <2>7. /\ <<>> \in Seq(Write) /\ <<>> \in Seq(Equality)
        /\ <<[target |-> target, local |-> local]>> \in Seq(Equality)
    BY <2>2 DEF Equality
  <2>8. ASSUME NEW writes \in Seq(Write), NEW deferred \in Seq(Equality)
        PROVE  Effects(Done(writes, deferred))
    BY <2>3, DecidedEffects, Zenon
  <2>9. /\ Effects(Done(NewWrites(frame, local, Read(frame, target)), <<>>))
        /\ Effects(Done(NewWrites(frame, target, Read(frame, local)), <<>>))
        /\ Effects(Done(NewWrites(frame, target, value), <<>>))
        /\ Effects(Done(<<>>, <<[target |-> target, local |-> local]>>))
    BY <2>2, <2>5, <2>6, <2>7, <2>8, NewWritesType, Zenon
  <2>10. Effects(DerefCell(request, frame, target, local, addresses))
    BY <2>9, FaultEffects, Zenon DEF DerefCell
  <2> QED
    BY <2>9, <2>10, FaultEffects, Zenon
    DEF execute_deref, pointer, local, target, addresses, frame, value
<1> QED
  BY <1>1, <1>2

\* JUMP writes nothing (_execute_jump).
LEMMA JumpEffects ==
  ASSUME NEW request, IsOperands(request), request.opcode = "JUMP"
  PROVE  Effects(execute_jump(request))
<1> DEFINE addresses == Addresses(request.fp, request.offsets)
<1>1. CASE Overflows(addresses)
  <2>1. execute_jump(request) = Fault("U32_OVERFLOW")
    BY <1>1, Zenon DEF execute_jump
  <2> QED
    BY <2>1, FaultEffects, Zenon
<1>2. CASE ~Overflows(addresses)
  <2>1. /\ DOMAIN request.offsets = 1..3
        /\ \A i \in 1..3 : request.offsets[i] \in Nat
        /\ request.fp \in Nat
    BY DEF IsOperands, ScalarOpcodes
  <2>2. addresses \in Seq(Address)
    <3>1. 3 \in Nat
      OBVIOUS
    <3> QED
      BY <1>2, <2>1, <3>1, AddressesType, Zenon
  <2>3. <<>> \in Seq(Write) /\ <<>> \in Seq(Equality)
    OBVIOUS
  <2>4. \A pc, fp : Effects(Decided(pc, fp, <<>>, <<>>, addresses))
    BY <2>2, <2>3, DecidedEffects, Zenon
  <2>5. \A d, f : \/ TargetFault(request, d, f) = "OK"
                  \/ TargetFault(request, d, f) \in {"INDEX_RANGE", "BAD_POINTER"}
    BY Zenon DEF TargetFault
  <2>6. \A d, f : \/ TargetFault(request, d, f) = "OK"
                  \/ Effects(Fault(TargetFault(request, d, f)))
    BY <2>5, FaultEffects, Zenon
  <2> HIDE DEF addresses
  <2> QED
    BY <2>4, <2>6, FaultEffects, Zenon DEF execute_jump, addresses
<1> QED
  BY <1>1, <1>2

\* A function on 1..n is a sequence of length n.
LEMMA SeqOfFunction ==
  ASSUME NEW S, NEW n \in Nat, NEW s \in [1..n -> S]
  PROVE  s \in Seq(S) /\ Len(s) = n
  OBVIOUS

\* Concatenation keeps the element type and adds the lengths.
LEMMA ConcatType ==
  ASSUME NEW S, NEW left \in Seq(S), NEW right \in Seq(S)
  PROVE  left \o right \in Seq(S) /\ Len(left \o right) = Len(left) + Len(right)
  OBVIOUS

\* The addresses of a BLAKE3 request end in the two outputs.
LEMMA Blake3AddressesType ==
  ASSUME NEW request, request.fp \in Nat, request.message_offsets \in Seq(Nat),
         request.cv_offset \in Nat, request.out_offset \in Nat,
         ~Overflows(blake3_addresses(request))
  PROVE  /\ blake3_addresses(request) \in Seq(Address)
         /\ Len(blake3_addresses(request)) >= 4
<1> DEFINE n    == Len(request.message_offsets)
           head == Addresses(request.fp, request.message_offsets)
           cv   == request.fp + request.cv_offset
           out  == request.fp + request.out_offset
           tail == <<cv, cv + 1, out, out + 1>>
           all  == blake3_addresses(request)
<1>1. /\ n \in Nat /\ DOMAIN request.message_offsets = 1..n
      /\ \A i \in 1..n : request.message_offsets[i] \in Nat
  OBVIOUS
<1>2. head = [i \in 1..n |-> request.fp + request.message_offsets[i]]
  BY <1>1, Zenon DEF Addresses
<1>3. head \in [1..n -> Nat]
  BY <1>1, <1>2
<1> HIDE DEF head, n
<1>4. head \in Seq(Nat) /\ Len(head) = n
  BY <1>1, <1>3, SeqOfFunction
<1>5. tail \in Seq(Nat) /\ Len(tail) = 4
  <2>1. cv \in Nat /\ out \in Nat
    <3>1. \A m, k \in Nat : m + k \in Nat
      OBVIOUS
    <3> QED
      BY <3>1, Zenon
  <2> HIDE DEF cv, out
  <2> QED
    BY <2>1
<1>6. all = head \o tail
  BY DEF blake3_addresses, head
<1> HIDE DEF tail, all
<1>7. all \in Seq(Nat) /\ Len(all) >= 4
  <2>1. all \in Seq(Nat) /\ Len(all) = Len(head) + Len(tail)
    BY <1>4, <1>5, <1>6, ConcatType
  <2> QED
    BY <1>1, <1>4, <1>5, <2>1
<1>8. ASSUME NEW i \in 1..Len(all) PROVE all[i] \in Address
  <2>1. ~(all[i] > U32_MAX)
    <3>1. DOMAIN all = 1..Len(all)
      BY <1>7
    <3> QED
      BY <3>1, Zenon DEF Overflows, all
  <2> QED
    BY <1>7, <2>1, U32Assumption DEF Address
<1>9. all \in [1..Len(all) -> Address]
  BY <1>7, <1>8
<1>10. all \in Seq(Address)
  <2>1. Len(all) \in Nat
    BY <1>7
  <2> QED
    BY <1>9, <2>1, SeqOfFunction
<1> QED
  BY <1>7, <1>10, Zenon DEF all

\* A suspended BLAKE3 request (_execute_blake3).
LEMMA Blake3Effects ==
  ASSUME NEW request, IsOperands(request)
  PROVE  Effects(execute_blake3(request))
<1> DEFINE addresses == blake3_addresses(request)
<1>1. CASE Overflows(addresses)
  <2>1. execute_blake3(request) \in {Fault("U32_OVERFLOW"), Fault("BAD_SERVICE")}
    BY <1>1, Zenon DEF execute_blake3
  <2> QED
    BY <2>1, FaultEffects, Zenon
<1>2. CASE ~Overflows(addresses)
  <2>1. addresses \in Seq(Address) /\ Len(addresses) >= 4
    BY <1>2, Blake3AddressesType DEF IsOperands
  <2> HIDE DEF addresses
  <2>2. ASSUME NEW pc, NEW fp, NEW frame, NEW operands
        PROVE  Effects([status |-> "SERVICE_REQUIRED", next_pc |-> pc, next_fp |-> fp,
                        accesses |-> addresses, frame |-> frame,
                        operands |-> operands])
    BY <2>1 DEF Effects
  <2> QED
    BY <2>2, FaultEffects, Zenon DEF execute_blake3, addresses
<1> QED
  BY <1>1, <1>2

\* Every transition rule decides a well-formed transition: addresses inside
\* u32 and words of the field, for every operand and every supplied cell.
THEOREM ExecuteEffects ==
  ASSUME NEW request, IsOperands(request)
  PROVE  Effects(execute(request))
<1>1. request.opcode \in INSTRUCTION_OPCODES
  BY DEF IsOperands
<1>2. CASE request.opcode \in {"XOR", "MUL_NATIVE"}
  BY <1>2, BinaryEffects DEF execute
<1>3. CASE request.opcode = "SET_CONSTANT"
  BY <1>3, SetEffects DEF execute
<1>4. CASE request.opcode \in {"DEREF_CELL", "DEREF_PC", "DEREF_FP"}
  BY <1>4, DerefEffects DEF execute
<1>5. CASE request.opcode = "JUMP"
  BY <1>5, JumpEffects DEF execute
<1>6. CASE request.opcode = "BLAKE3_REQUEST"
  BY <1>6, Blake3Effects DEF execute
<1> QED
  BY <1>1, <1>2, <1>3, <1>4, <1>5, <1>6 DEF INSTRUCTION_OPCODES, ScalarOpcodes

\* Two digest words make well-formed writes (_resume_blake3).
LEMMA ResumeType ==
  ASSUME NEW frame, NEW accesses \in Seq(Address), Len(accesses) >= 2,
         NEW digest, digest[1] \in Word, digest[2] \in Word,
         resume_blake3(frame, accesses, digest).status = "OK"
  PROVE  resume_blake3(frame, accesses, digest).writes \in Seq(Write)
<1> DEFINE out0   == accesses[Len(accesses) - 1]
           out1   == accesses[Len(accesses)]
           first  == WriteOnce(frame, out0, digest[1])
           writes == NewWrites(frame, out0, digest[1]) \o NewWrites(first, out1, digest[2])
<1>1. out0 \in Address /\ out1 \in Address
  OBVIOUS
<1> HIDE DEF out0, out1, first
<1>2. writes \in Seq(Write)
  <2>1. /\ NewWrites(frame, out0, digest[1]) \in Seq(Write)
        /\ NewWrites(first, out1, digest[2]) \in Seq(Write)
    BY <1>1, NewWritesType, Zenon
  <2> HIDE DEF Write
  <2> QED
    BY <2>1
<1> HIDE DEF writes
<1>3. \/ resume_blake3(frame, accesses, digest) = Fault("WRITE_CONFLICT")
      \/ resume_blake3(frame, accesses, digest) = [status |-> "OK", writes |-> writes]
  BY Zenon DEF resume_blake3, out0, out1, first, writes
<1>4. Fault("WRITE_CONFLICT").status # "OK"
  BY DEF Fault
<1>5. [status |-> "OK", writes |-> writes].writes = writes
  OBVIOUS
<1> QED
  BY <1>2, <1>3, <1>4, <1>5, Zenon

-----------------------------------------------------------------------------
(* The host's memory                                                       *)

\* Memory is write-once: a cell that holds a value keeps it.
Keeps(before, after) ==
    \A address \in Address : before[address].present => after[address] = before[address]

\* What applying writes may make of a memory.
Applied(cells) ==
    {applied \in [ok : BOOLEAN, cells : Memory] : Keeps(cells, applied.cells)}

\* Keeping is transitive.
LEMMA KeepsOn ==
  ASSUME NEW first, NEW second, NEW third, Keeps(first, second), Keeps(second, third)
  PROVE  Keeps(first, third)
  BY DEF Keeps

\* Applying a batch of writes leaves a memory that keeps what it held, also
\* when one of them is refused (apply_write).
LEMMA ApplyWritesType ==
  ASSUME NEW cells \in Memory, NEW writes \in Seq(Write)
  PROVE  apply_writes(cells, writes) \in Applied(cells)
<1> DEFINE S == Applied(cells)
           n == Len(writes)
           c == [ok |-> TRUE, cells |-> cells]
           Step(before, write) ==
               IF before.ok /\ MayWrite(before.cells, write.address, write.value)
               THEN [before EXCEPT !.cells[write.address] = Present(write.value)]
               ELSE [before EXCEPT !.ok = FALSE]
           Eq(g) == g = [i \in 0..n |-> IF i = 0 THEN c ELSE Step(g[i - 1], writes[i])]
           F == [p \in S \X (1..n) |-> Step(p[1], writes[p[2]])]
           after == CHOOSE g : Eq(g)
<1>0. n \in Nat
  OBVIOUS
<1>1. c \in S
  BY DEF Applied, Keeps
<1>2. ASSUME NEW before \in S, NEW i \in 1..n PROVE Step(before, writes[i]) \in S
  <2>1. writes[i].address \in Address /\ writes[i].value \in Word
    <3>1. writes[i] \in Write
      OBVIOUS
    <3> QED
      BY <3>1 DEF Write
  <2>2. Present(writes[i].value) \in Cell
    BY <2>1, PresentType
  <2> DEFINE address == writes[i].address
             value == writes[i].value
             stored == [before.cells EXCEPT ![address] = Present(value)]
  <2>3. /\ before.cells \in Memory /\ Keeps(cells, before.cells)
        /\ before \in [ok : BOOLEAN, cells : Memory]
    BY DEF Applied
  <2>4. [before EXCEPT !.ok = FALSE] \in S
    BY <2>3 DEF Applied
  <2>5. ASSUME MayWrite(before.cells, address, value)
        PROVE  [before EXCEPT !.cells[address] = Present(value)] \in S
    <3> HIDE DEF address, value
    <3>1. before.cells[address].present => before.cells[address] = Present(value)
      <4>1. before.cells[address] \in Cell
        BY <2>1, <2>3 DEF Memory, address
      <4> QED
        BY <2>5, <4>1, CellType DEF MayWrite
    <3>2. stored \in Memory
      BY <2>1, <2>2, <2>3 DEF Memory, address, value
    <3>3. Keeps(cells, stored)
      BY <2>1, <2>3, <3>1 DEF Keeps, Memory, address
    <3> HIDE DEF stored
    <3>4. [before EXCEPT !.cells = stored] \in S
      BY <2>3, <3>2, <3>3 DEF Applied
    <3>5. [before EXCEPT !.cells[address] = Present(value)] =
             [before EXCEPT !.cells = stored]
      BY Zenon DEF stored
    <3> QED
      BY <3>4, <3>5, Zenon
  <2> HIDE DEF S
  <2> QED
    BY <2>4, <2>5, Zenon
<1>3. F \in [S \X (1..n) -> S]
  <2> HIDE DEF Step, n, S
  <2> QED
    BY <1>2
<1>4. \E g : Eq(g)
  <2>1. PICK g \in [0..n -> S] : Iterates(g, c, n, F)
    <3> HIDE DEF S, n, c, F
    <3> QED
      BY <1>0, <1>1, <1>3, IterationExists
  <2>2. \A i \in 1..n : g[i - 1] \in S /\ F[<<g[i - 1], i>>] = Step(g[i - 1], writes[i])
    <3> HIDE DEF S, n, Step
    <3> QED
      BY <1>0
  <2>3. Eq(g)
    <3> HIDE DEF S, n, c, Step, F
    <3> QED
      BY <2>1, <2>2 DEF Iterates
  <2> QED
    BY <2>3
<1>5. Eq(after)
  <2> HIDE DEF Eq
  <2> QED
    BY <1>4, Zenon
<1>6. after[n] \in S
  <2> HIDE DEF after, S, n, c, Step
  <2>1. after[0] \in S /\ \A i \in 1..n : after[i - 1] \in S => after[i] \in S
    BY <1>0, <1>1, <1>2, <1>5
  <2>2. \A i \in 0..n : after[i] \in S
    BY <1>0, <2>1, IterationType, Zenon
  <2> QED
    BY <1>0, <2>2
<1>7. apply_writes(cells, writes) = after[n]
  BY DEF apply_writes
<1> QED
  BY <1>6, <1>7

\* What a pass over the open equalities leaves.
Resolved == [ok : BOOLEAN, cells : Memory, still_open : Seq(Equality)]

\* An equality that holds, of two cells that hold values.
Holds(cells, pair) ==
    cells[pair.target].present /\ cells[pair.target] = cells[pair.local]

\* An equality that is still to be resolved.
IsOpen(still_open, pair) == \E i \in DOMAIN still_open : still_open[i] = pair

\* What resolving equalities over a memory leaves: it keeps what was there.
Resolving(cells) == {resolved \in Resolved : Keeps(cells, resolved.cells)}

\* No equality is lost: it holds, or it is still open.
Accounts(pending, resolved) ==
    resolved.ok =>
        \A i \in DOMAIN pending :
            Holds(resolved.cells, pending[i]) \/ IsOpen(resolved.still_open, pending[i])

\* An equality that holds goes on holding in a memory that keeps its cells.
LEMMA HoldsOn ==
  ASSUME NEW before \in Memory, NEW after, Keeps(before, after), NEW pair \in Equality,
         Holds(before, pair)
  PROVE  Holds(after, pair)
<1>1. pair.target \in Address /\ pair.local \in Address
  BY DEF Equality
<1> QED
  BY <1>1 DEF Holds, Keeps

\* What the loop body of a pass makes of one pair.
Resolve(before, pair) ==
    LET left  == before.cells[pair.target]
        right == before.cells[pair.local]
    IN  IF ~left.present /\ ~right.present
        THEN [before EXCEPT !.still_open = Append(@, pair)]
        ELSE IF ~left.present
        THEN [before EXCEPT !.cells[pair.target] = right]
        ELSE IF ~right.present
        THEN [before EXCEPT !.cells[pair.local] = left]
        ELSE [before EXCEPT !.ok = @ /\ left = right]

\* Storing a cell where there was none leaves a memory that keeps the rest.
LEMMA StoreKeeps ==
  ASSUME NEW before \in Resolved, NEW address \in Address, NEW cell \in Cell,
         ~before.cells[address].present,
         NEW after, after = [before EXCEPT !.cells[address] = cell]
  PROVE  /\ after \in Resolved
         /\ Keeps(before.cells, after.cells)
         /\ after.still_open = before.still_open
         /\ after.cells[address] = cell
         /\ \A other \in Address \ {address} : after.cells[other] = before.cells[other]
<1> DEFINE stored == [before.cells EXCEPT ![address] = cell]
<1>1. before.cells \in Memory
  BY DEF Resolved
<1>2. /\ stored \in Memory /\ stored[address] = cell
      /\ \A other \in Address \ {address} : stored[other] = before.cells[other]
  BY <1>1 DEF Memory
<1>3. Keeps(before.cells, stored)
  BY <1>2 DEF Keeps
<1> HIDE DEF stored
<1>4. after = [before EXCEPT !.cells = stored]
  BY Zenon DEF stored
<1>5. after.cells = stored /\ after \in Resolved /\ after.still_open = before.still_open
  BY <1>2, <1>4 DEF Resolved
<1> QED
  BY <1>2, <1>3, <1>5

\* The loop body keeps memory and every open equality, and its own pair holds
\* afterwards, is open, or has failed the pass.
LEMMA ResolveStep ==
  ASSUME NEW before \in Resolved, NEW pair \in Equality,
         NEW after, after = Resolve(before, pair)
  PROVE  /\ after \in Resolved
         /\ Keeps(before.cells, after.cells)
         /\ \A e : IsOpen(before.still_open, e) => IsOpen(after.still_open, e)
         /\ after.ok => before.ok
         /\ after.ok => Holds(after.cells, pair) \/ IsOpen(after.still_open, pair)
<1> DEFINE left  == before.cells[pair.target]
           right == before.cells[pair.local]
<1>1. pair.target \in Address /\ pair.local \in Address
  BY DEF Equality
<1>2. left \in Cell /\ right \in Cell /\ before.still_open \in Seq(Equality)
  BY <1>1 DEF Resolved, Memory
<1>3. \A cells : Keeps(cells, cells)
  BY DEF Keeps
<1>4. CASE ~left.present /\ ~right.present
  <2> DEFINE longer == Append(before.still_open, pair)
  <2>1. after = [before EXCEPT !.still_open = Append(@, pair)]
    BY <1>4, Zenon DEF Resolve
  <2>2. /\ longer \in Seq(Equality) /\ Len(longer) = Len(before.still_open) + 1
        /\ longer[Len(before.still_open) + 1] = pair
        /\ \A i \in 1..Len(before.still_open) : longer[i] = before.still_open[i]
    BY <1>2
  <2>3. IsOpen(longer, pair) /\ \A e : IsOpen(before.still_open, e) => IsOpen(longer, e)
    <3> HIDE DEF longer
    <3>1. /\ DOMAIN longer = 1..(Len(before.still_open) + 1)
          /\ DOMAIN before.still_open = 1..Len(before.still_open)
          /\ Len(before.still_open) \in Nat
      BY <1>2, <2>2
    <3>2. IsOpen(longer, pair)
      BY <2>2, <3>1 DEF IsOpen
    <3>3. ASSUME NEW e, IsOpen(before.still_open, e) PROVE IsOpen(longer, e)
      <4>1. PICK i \in 1..Len(before.still_open) : before.still_open[i] = e
        BY <3>1, <3>3 DEF IsOpen
      <4>2. i \in DOMAIN longer /\ longer[i] = e
        BY <2>2, <3>1, <4>1
      <4> QED
        BY <4>2 DEF IsOpen
    <3> QED
      BY <3>2, <3>3
  <2> HIDE DEF longer
  <2>4. after = [before EXCEPT !.still_open = longer]
    BY <2>1, Zenon DEF longer
  <2>5. /\ after \in Resolved /\ after.cells = before.cells /\ after.ok = before.ok
        /\ after.still_open = longer
    BY <2>2, <2>4 DEF Resolved
  <2> QED
    BY <1>3, <2>3, <2>5
<1>5. CASE ~left.present /\ right.present
  <2>1. after = [before EXCEPT !.cells[pair.target] = right]
    BY <1>5, Zenon DEF Resolve
  <2>2. after.ok = before.ok
    BY <2>1 DEF Resolved
  <2>3. pair.target # pair.local
    BY <1>5
  <2>4. /\ after \in Resolved /\ Keeps(before.cells, after.cells)
        /\ after.still_open = before.still_open
        /\ after.cells[pair.target] = right /\ after.cells[pair.local] = right
    BY <1>1, <1>2, <1>5, <2>1, <2>3, StoreKeeps
  <2> QED
    BY <1>5, <2>2, <2>4 DEF Holds
<1>6. CASE left.present /\ ~right.present
  <2>1. after = [before EXCEPT !.cells[pair.local] = left]
    BY <1>6, Zenon DEF Resolve
  <2>2. after.ok = before.ok
    BY <2>1 DEF Resolved
  <2>3. pair.target # pair.local
    BY <1>6
  <2>4. /\ after \in Resolved /\ Keeps(before.cells, after.cells)
        /\ after.still_open = before.still_open
        /\ after.cells[pair.target] = left /\ after.cells[pair.local] = left
    BY <1>1, <1>2, <1>6, <2>1, <2>3, StoreKeeps
  <2> QED
    BY <1>6, <2>2, <2>4 DEF Holds
<1>7. CASE left.present /\ right.present
  <2> DEFINE both == before.ok /\ left = right
  <2>1. after = [before EXCEPT !.ok = both]
    BY <1>7, Zenon DEF Resolve
  <2>2. both \in BOOLEAN /\ (both => before.ok /\ left = right)
    BY Zenon
  <2> HIDE DEF both
  <2>3. /\ after \in Resolved /\ after.cells = before.cells /\ after.ok = both
        /\ after.still_open = before.still_open
    BY <2>1, <2>2 DEF Resolved
  <2> QED
    BY <1>3, <1>7, <2>2, <2>3 DEF Holds
<1> QED
  BY <1>4, <1>5, <1>6, <1>7

\* One pass leaves a memory that keeps what it held, and loses no equality.
LEMMA ResolvePassType ==
  ASSUME NEW cells \in Memory, NEW pending \in Seq(Equality)
  PROVE  /\ ResolvePass(cells, pending) \in Resolving(cells)
         /\ Accounts(pending, ResolvePass(cells, pending))
<1> DEFINE S == Resolving(cells)
           n == Len(pending)
           c == [ok |-> TRUE, cells |-> cells, still_open |-> <<>>]
           Eq(g) == g = [i \in 0..n |-> IF i = 0 THEN c ELSE Resolve(g[i - 1], pending[i])]
           F == [p \in S \X (1..n) |-> Resolve(p[1], pending[p[2]])]
           after == CHOOSE g : Eq(g)
<1>0. n \in Nat /\ \A i \in 1..n : pending[i] \in Equality
  OBVIOUS
<1>1. c \in S
  BY DEF Resolving, Resolved, Keeps
<1>2. ASSUME NEW before \in S, NEW i \in 1..n PROVE Resolve(before, pending[i]) \in S
  <2>1. before \in Resolved /\ Keeps(cells, before.cells) /\ pending[i] \in Equality
    BY <1>0 DEF Resolving
  <2>2. /\ Resolve(before, pending[i]) \in Resolved
        /\ Keeps(before.cells, Resolve(before, pending[i]).cells)
    BY <2>1, ResolveStep
  <2> QED
    BY <2>1, <2>2, KeepsOn DEF Resolving
<1>3. F \in [S \X (1..n) -> S]
  <2> HIDE DEF n, S
  <2> QED
    BY <1>2
<1>4. \E g : Eq(g)
  <2>1. PICK g \in [0..n -> S] : Iterates(g, c, n, F)
    <3> HIDE DEF S, n, c, F
    <3> QED
      BY <1>0, <1>1, <1>3, IterationExists
  <2>2. \A i \in 1..n : /\ g[i - 1] \in S
                        /\ F[<<g[i - 1], i>>] = Resolve(g[i - 1], pending[i])
    <3> HIDE DEF S, n
    <3> QED
      BY <1>0
  <2>3. Eq(g)
    <3> HIDE DEF S, n, c, F
    <3> QED
      BY <2>1, <2>2 DEF Iterates
  <2> HIDE DEF Eq
  <2> QED
    BY <2>3
<1>5. Eq(after)
  <2> HIDE DEF Eq
  <2> QED
    BY <1>4, Zenon
<1>6. \A i \in 0..n : after[i] \in S
  <2> HIDE DEF after, S, n, c
  <2>1. after[0] \in S /\ \A i \in 1..n : after[i - 1] \in S => after[i] \in S
    BY <1>0, <1>1, <1>2, <1>5
  <2> QED
    BY <1>0, <2>1, IterationType, Zenon
<1>7. ResolvePass(cells, pending) = after[n]
  BY Zenon DEF ResolvePass, Resolve
<1> DEFINE Settles(i) ==
             after[i].ok =>
                 \A j \in 1..i : \/ Holds(after[i].cells, pending[j])
                                 \/ IsOpen(after[i].still_open, pending[j])
           T == {i \in 0..n : Settles(i)}
<1>8. 0..n \subseteq T
  <2>1. 0 \in T
    BY <1>0
  <2>2. ASSUME NEW i \in 1..n, i - 1 \in T PROVE i \in T
    <3> DEFINE before == after[i - 1]
               now == after[i]
    <3>1. i - 1 \in 0..n /\ i \in 0..n /\ i \in Nat
      BY <1>0, <2>2
    <3>2. now = Resolve(before, pending[i])
      <4> HIDE DEF after, n, c
      <4> QED
        BY <1>0, <1>5, <3>1
    <3>3. before \in Resolved
      <4>1. before \in S
        BY <1>6, <3>1
      <4> QED
        BY <4>1 DEF Resolving
    <3>4. Settles(i - 1)
      BY <2>2
    <3> HIDE DEF after
    <3>5. /\ Keeps(before.cells, now.cells)
          /\ \A e : IsOpen(before.still_open, e) => IsOpen(now.still_open, e)
          /\ now.ok => before.ok
          /\ now.ok => Holds(now.cells, pending[i]) \/ IsOpen(now.still_open, pending[i])
      BY <1>0, <3>2, <3>3, ResolveStep
    <3>6. ASSUME now.ok, NEW j \in 1..i
          PROVE  Holds(now.cells, pending[j]) \/ IsOpen(now.still_open, pending[j])
      <4>1. CASE j = i
        BY <3>5, <3>6, <4>1
      <4>2. CASE j # i
        <5>1. j \in 1..(i - 1) /\ j \in 1..n
          BY <3>1, <4>2
        <5>2. Holds(before.cells, pending[j]) \/ IsOpen(before.still_open, pending[j])
          BY <3>4, <3>5, <3>6, <5>1
        <5>3. before.cells \in Memory /\ pending[j] \in Equality
          BY <1>0, <3>3, <5>1 DEF Resolved
        <5> QED
          BY <3>5, <5>2, <5>3, HoldsOn
      <4> QED
        BY <4>1, <4>2
    <3> QED
      BY <3>1, <3>6
  <2> HIDE DEF T, n
  <2> QED
    BY <1>0, <2>1, <2>2, IntervalInduction
<1>9. after[n] \in S /\ Settles(n)
  <2>1. n \in T
    <3> HIDE DEF T, n
    <3> QED
      BY <1>0, <1>8
  <2> QED
    BY <1>0, <1>6, <2>1
<1>10. Accounts(pending, after[n])
  <2>1. DOMAIN pending = 1..n
    OBVIOUS
  <2> HIDE DEF n, after
  <2> QED
    BY <1>9, <2>1 DEF Accounts
<1> QED
  BY <1>7, <1>9, <1>10

\* Resolving to the fixpoint leaves a memory that keeps what it held, and loses
\* no equality (resolve_deferred).
LEMMA ResolveDeferredType ==
  ASSUME NEW cells \in Memory, NEW deferred \in Seq(Equality)
  PROVE  /\ resolve_deferred(cells, deferred) \in Resolving(cells)
         /\ Accounts(deferred, resolve_deferred(cells, deferred))
<1> DEFINE S == {r \in Resolving(cells) : Accounts(deferred, r)}
           n == Len(deferred) + 1
           c == [ok |-> TRUE, cells |-> cells, still_open |-> deferred]
           Step(before) ==
             LET next == ResolvePass(before.cells, before.still_open)
             IN  [next EXCEPT !.ok = @ /\ before.ok]
           Eq(g) == g = [i \in 0..n |-> IF i = 0 THEN c ELSE Step(g[i - 1])]
           F == [p \in S \X (1..n) |-> Step(p[1])]
           pass == CHOOSE g : Eq(g)
<1>0. n \in Nat /\ \A i \in DOMAIN deferred : deferred[i] \in Equality
  OBVIOUS
<1>1. c \in S
  BY DEF Resolving, Resolved, Keeps, Accounts, IsOpen
<1>2. ASSUME NEW before \in S PROVE Step(before) \in S
  <2> DEFINE next == ResolvePass(before.cells, before.still_open)
             both == next.ok /\ before.ok
             after == [next EXCEPT !.ok = both]
  <2>1. /\ before.cells \in Memory /\ before.still_open \in Seq(Equality)
        /\ Keeps(cells, before.cells) /\ Accounts(deferred, before)
    BY DEF Resolving, Resolved
  <2>2. /\ next \in Resolved /\ Keeps(before.cells, next.cells)
        /\ Accounts(before.still_open, next)
    BY <2>1, ResolvePassType DEF Resolving
  <2>3. both \in BOOLEAN /\ (both => next.ok /\ before.ok)
    BY Zenon
  <2>4. Step(before) = after
    BY Zenon
  <2> HIDE DEF next, both, Step
  <2>5. /\ after \in Resolved /\ after.cells = next.cells /\ after.ok = both
        /\ after.still_open = next.still_open
    BY <2>2, <2>3 DEF Resolved
  <2> HIDE DEF after
  <2>6. Keeps(cells, after.cells)
    BY <2>1, <2>2, <2>5, KeepsOn
  <2>7. ASSUME after.ok, NEW i \in DOMAIN deferred
        PROVE  Holds(after.cells, deferred[i]) \/ IsOpen(after.still_open, deferred[i])
    <3>1. next.ok /\ before.ok /\ deferred[i] \in Equality
      BY <1>0, <2>3, <2>5, <2>7
    <3>2. CASE Holds(before.cells, deferred[i])
      BY <2>1, <2>2, <2>5, <3>1, <3>2, HoldsOn
    <3>3. CASE IsOpen(before.still_open, deferred[i])
      <4>1. PICK j \in DOMAIN before.still_open : before.still_open[j] = deferred[i]
        BY <3>3 DEF IsOpen
      <4> QED
        BY <2>2, <2>5, <3>1, <4>1 DEF Accounts
    <3> QED
      BY <2>1, <3>1, <3>2, <3>3 DEF Accounts
  <2>8. Accounts(deferred, after)
    BY <2>7 DEF Accounts
  <2> QED
    BY <2>4, <2>5, <2>6, <2>8 DEF Resolving
<1>3. F \in [S \X (1..n) -> S]
  <2> HIDE DEF Step, n, S
  <2> QED
    BY <1>2
<1>4. \E g : Eq(g)
  <2>1. PICK g \in [0..n -> S] : Iterates(g, c, n, F)
    <3> HIDE DEF S, n, c, F
    <3> QED
      BY <1>0, <1>1, <1>3, IterationExists
  <2>2. \A i \in 1..n : g[i - 1] \in S /\ F[<<g[i - 1], i>>] = Step(g[i - 1])
    <3> HIDE DEF S, n, Step
    <3> QED
      BY <1>0
  <2>3. Eq(g)
    <3> HIDE DEF S, n, c, Step, F
    <3> QED
      BY <2>1, <2>2 DEF Iterates
  <2> HIDE DEF Eq
  <2> QED
    BY <2>3
<1>5. Eq(pass)
  <2> HIDE DEF Eq
  <2> QED
    BY <1>4, Zenon
<1>6. pass[n] \in S
  <2> HIDE DEF pass, S, n, c, Step
  <2>1. pass[0] \in S /\ \A i \in 1..n : pass[i - 1] \in S => pass[i] \in S
    BY <1>0, <1>1, <1>2, <1>5
  <2>2. \A i \in 0..n : pass[i] \in S
    BY <1>0, <2>1, IterationType, Zenon
  <2> QED
    BY <1>0, <2>2
<1>7. resolve_deferred(cells, deferred) = pass[n]
  BY Zenon DEF resolve_deferred
<1> QED
  BY <1>6, <1>7

-----------------------------------------------------------------------------
(* The host's preparation                                                  *)

\* A pointer's index is an index.
LEMMA IndexOfType ==
  ASSUME NEW value, IsPointer(value)
  PROVE  index_of(value) \in 0..(INDEX_LIMIT - 1)
<1> DEFINE T == {index \in 0..(INDEX_LIMIT - 1) : forward[index] = value}
<1>0. INDEX_LIMIT \in Nat
  BY U32Assumption
<1>1. T # {} /\ T \in SUBSET Nat
  BY <1>0 DEF IsPointer
<1>2. PICK m \in T : \A k \in T : m <= k
  <2> HIDE DEF T
  <2> QED
    BY <1>1, LeastNatural
<1>3. /\ m \in 0..(INDEX_LIMIT - 1) /\ forward[m] = value
      /\ \A lower \in 0..(m - 1) : forward[lower] # value
  BY <1>0, <1>2
<1>4. \E index \in 0..(INDEX_LIMIT - 1) :
        /\ forward[index] = value
        /\ \A lower \in 0..(index - 1) : forward[lower] # value
  BY <1>3
<1> QED
  BY <1>4, Zenon DEF index_of

\* What the host sends for a slot, and what it remembers of it.
IsPrepared(prepared, op, at) ==
    /\ IsOperands(prepared.request)
    /\ prepared.request.txn_id = at.txn_id
    /\ prepared.request.pc = at.pc
    /\ prepared.request.fp = at.fp
    /\ prepared.request.profile = at.profile
    /\ prepared.request.dest_pc \in Nat
    /\ prepared.request.dest_fp \in Nat
    /\ prepared.request.opcode = "BLAKE3_REQUEST" <=> op.kind = "Blake3"
    /\ prepared.addresses \in Seq(Address)

\* A slot has the opcode of its kind.
LEMMA OpcodeType ==
  ASSUME NEW op, IsSlot(op)
  PROVE  /\ OpcodeOf(op) \in INSTRUCTION_OPCODES
         /\ op.kind = "Set" <=> OpcodeOf(op) = "SET_CONSTANT"
         /\ op.kind = "Blake3" <=> OpcodeOf(op) = "BLAKE3_REQUEST"
  BY DEF IsSlot, OpcodeOf, INSTRUCTION_OPCODES, ScalarOpcodes

\* A request that carries a slot's operands and the host's registers.
Carries(request, op, at, cells) ==
    /\ request.opcode = OpcodeOf(op)
    /\ request.txn_id = at.txn_id
    /\ request.pc = at.pc
    /\ request.fp = at.fp
    /\ request.profile = at.profile
    /\ request.cells = cells
    /\ request.offsets = op.offsets
    /\ request.constant = op.constant
    /\ request.message_offsets = op.message_offsets
    /\ request.cv_offset = op.cv_offset
    /\ request.out_offset = op.out_offset
    /\ request.base \in Nat
    /\ request.dest_pc \in Nat
    /\ request.dest_fp \in Nat

\* Packed does, whatever witnesses are added to it.
LEMMA PackedCarries ==
  ASSUME NEW op, NEW at, NEW cells
  PROVE  /\ Carries(Packed(op, at, cells), op, at, cells)
         /\ \A witness :
               Carries([Packed(op, at, cells) EXCEPT !.proposed_inverse = witness],
                       op, at, cells)
         /\ \A base \in Nat :
               Carries([Packed(op, at, cells) EXCEPT !.base = base], op, at, cells)
         /\ \A witness : \A dest_pc, dest_fp \in Nat :
               Carries([Packed(op, at, cells) EXCEPT
                          !.taken = TRUE, !.dest_pc = dest_pc, !.dest_fp = dest_fp,
                          !.proposed_inverse = witness],
                       op, at, cells)
<1> DEFINE packed == Packed(op, at, cells)
<1>1. Carries(packed, op, at, cells)
  BY DEF Carries, Packed
<1>2. ASSUME NEW witness
      PROVE  Carries([packed EXCEPT !.proposed_inverse = witness], op, at, cells)
  BY DEF Carries, Packed
<1>3. ASSUME NEW base \in Nat
      PROVE  Carries([packed EXCEPT !.base = base], op, at, cells)
  BY DEF Carries, Packed
<1>4. ASSUME NEW witness, NEW dest_pc \in Nat, NEW dest_fp \in Nat
      PROVE  Carries([packed EXCEPT !.taken = TRUE, !.dest_pc = dest_pc,
                                    !.dest_fp = dest_fp, !.proposed_inverse = witness],
                     op, at, cells)
  BY DEF Carries, Packed
<1> QED
  BY <1>1, <1>2, <1>3, <1>4

\* A request with a memory cell for every address it needs is well formed.
LEMMA CarriesIsPrepared ==
  ASSUME NEW op, IsSlot(op), NEW at, at.fp \in Nat, NEW memory \in Memory,
         NEW request, NEW addresses \in Seq(Address),
         Carries(request, op, at, CellsAt(memory, addresses)),
         op.kind = "Blake3" => DOMAIN addresses = DOMAIN blake3_addresses(request),
         op.kind # "Blake3" => DOMAIN addresses = DOMAIN op.offsets
  PROVE  IsPrepared(Prepared(request, addresses), op, at)
<1>1. \A i \in DOMAIN addresses : CellsAt(memory, addresses)[i] \in Cell
  <2>1. \A i \in DOMAIN addresses : addresses[i] \in Address
    OBVIOUS
  <2> QED
    BY <2>1 DEF CellsAt, Memory
<1>2. /\ request.opcode = "SET_CONSTANT" => op.kind = "Set"
      /\ request.opcode = "BLAKE3_REQUEST" <=> op.kind = "Blake3"
      /\ request.opcode \in INSTRUCTION_OPCODES
      /\ request.opcode \in ScalarOpcodes => op.kind # "Blake3"
      /\ request.opcode \in ScalarOpcodes \ {"SET_CONSTANT"} =>
            op.kind \in {"Xor", "Mul", "Deref", "Jump"}
  BY OpcodeType DEF Carries, IsSlot, ScalarOpcodes
<1>3. IsOperands(request)
  <2>1. \A i \in DOMAIN addresses : request.cells[i] \in Cell
    BY <1>1 DEF Carries
  <2>2. /\ request.opcode \in ScalarOpcodes =>
              \A i \in DOMAIN request.offsets : request.cells[i] \in Cell
        /\ request.opcode = "BLAKE3_REQUEST" =>
              \A i \in DOMAIN blake3_addresses(request) : request.cells[i] \in Cell
    BY <1>2, <2>1, Zenon DEF Carries
  <2> QED
    BY <1>2, <2>2, Zenon DEF IsOperands, IsSlot, Carries
<1>4. /\ Prepared(request, addresses).request = request
      /\ Prepared(request, addresses).addresses = addresses
  BY DEF Prepared
<1> QED
  BY <1>2, <1>3, <1>4, Zenon DEF IsPrepared, Carries

\* The two ways preparation ends.
LEMMA PreparationEnds ==
  /\ \A status : Refused(status).refused = status
  /\ \A request, addresses : Prepared(request, addresses).refused = "no"
  BY DEF Refused, Prepared

\* The addresses of an unrefused slot with offsets.
LEMMA OffsetsType ==
  ASSUME NEW op, IsSlot(op), op.kind # "Blake3", NEW fp \in Nat,
         ~Overflows(Addresses(fp, op.offsets))
  PROVE  /\ Addresses(fp, op.offsets) \in Seq(Address)
         /\ DOMAIN Addresses(fp, op.offsets) = DOMAIN op.offsets
<1>1. /\ \/ DOMAIN op.offsets = 1..1
         \/ DOMAIN op.offsets = 1..3
      /\ \A i \in DOMAIN op.offsets : op.offsets[i] \in Nat
  BY DEF IsSlot
<1>2. DOMAIN Addresses(fp, op.offsets) = DOMAIN op.offsets
  BY Zenon DEF Addresses
<1>3. 1 \in Nat /\ 3 \in Nat
  OBVIOUS
<1>4. Addresses(fp, op.offsets) \in Seq(Address)
  BY <1>1, <1>3, AddressesType, Zenon
<1> QED
  BY <1>2, <1>4

\* A pointer cell and its offset.
LEMMA PrepareDerefType ==
  ASSUME NEW op, IsSlot(op), op.kind = "Deref", NEW at, at.fp \in Nat,
         NEW memory \in Memory, PrepareDeref(op, at, memory).refused = "no"
  PROVE  IsPrepared(PrepareDeref(op, at, memory), op, at)
<1> DEFINE pointer   == at.fp + op.offsets[1]
           base      == index_of(memory[pointer].value)
           target    == base + op.offsets[2]
           local     == at.fp + op.offsets[3]
           addresses == <<pointer, target, local>>
           request   == [Packed(op, at, CellsAt(memory, addresses)) EXCEPT !.base = base]
<1>1. /\ ~(pointer > U32_MAX) /\ ~(target > U32_MAX) /\ ~(local > U32_MAX)
      /\ IsPointer(memory[pointer].value)
      /\ PrepareDeref(op, at, memory) = Prepared(request, addresses)
  BY PreparationEnds, Zenon DEF PrepareDeref
<1>2. base \in Nat
  <2>1. base \in 0..(INDEX_LIMIT - 1)
    BY <1>1, IndexOfType
  <2> QED
    BY <2>1, U32Assumption
<1> HIDE DEF base
<1>3. pointer \in Address /\ target \in Address /\ local \in Address
  <2>1. /\ op.offsets[1] \in Nat /\ op.offsets[2] \in Nat /\ op.offsets[3] \in Nat
        /\ DOMAIN op.offsets = 1..3
    BY DEF IsSlot
  <2> QED
    BY <1>1, <1>2, <2>1, U32Assumption DEF Address
<1> HIDE DEF pointer, target, local
<1>4. addresses \in Seq(Address) /\ DOMAIN addresses = 1..3
  BY <1>3
<1> HIDE DEF addresses
<1>5. Carries(request, op, at, CellsAt(memory, addresses))
  BY <1>2, PackedCarries
<1> HIDE DEF request
<1>6. DOMAIN op.offsets = 1..3 /\ op.kind # "Blake3"
  BY DEF IsSlot
<1>7. IsPrepared(Prepared(request, addresses), op, at)
  BY <1>4, <1>5, <1>6, CarriesIsPrepared, Zenon
<1> QED
  BY <1>1, <1>7, Zenon

\* A branch and its decoded targets.
LEMMA PrepareJumpType ==
  ASSUME NEW op, IsSlot(op), op.kind = "Jump", NEW at, at.fp \in Nat,
         NEW memory \in Memory, PrepareJump(op, at, memory).refused = "no"
  PROVE  IsPrepared(PrepareJump(op, at, memory), op, at)
<1> DEFINE addresses == Addresses(at.fp, op.offsets)
           cells     == CellsAt(memory, addresses)
           packed    == Packed(op, at, cells)
           jump      == [packed EXCEPT
                           !.taken   = TRUE,
                           !.dest_pc = index_of(cells[2].value),
                           !.dest_fp = index_of(cells[3].value),
                           !.proposed_inverse = Present(field_inverse(cells[1].value))]
<1>0. "U32_OVERFLOW" # "no" /\ "BAD_POINTER" # "no"
  OBVIOUS
<1>1. ~Overflows(addresses)
  BY <1>0, PreparationEnds, Zenon DEF PrepareJump
<1>2. \/ PrepareJump(op, at, memory) = Prepared(packed, addresses)
      \/ /\ PrepareJump(op, at, memory) = Prepared(jump, addresses)
         /\ IsPointer(cells[2].value) /\ IsPointer(cells[3].value)
  BY <1>0, PreparationEnds, Zenon DEF PrepareJump
<1>3. addresses \in Seq(Address) /\ DOMAIN addresses = DOMAIN op.offsets
  BY <1>1, OffsetsType
<1> HIDE DEF addresses
<1>4. CASE PrepareJump(op, at, memory) = Prepared(packed, addresses)
  <2>1. Carries(packed, op, at, CellsAt(memory, addresses))
    BY PackedCarries
  <2> HIDE DEF packed
  <2>2. IsPrepared(Prepared(packed, addresses), op, at)
    BY <1>3, <2>1, CarriesIsPrepared
  <2> QED
    BY <1>4, <2>2, Zenon
<1>5. CASE /\ PrepareJump(op, at, memory) = Prepared(jump, addresses)
           /\ IsPointer(cells[2].value) /\ IsPointer(cells[3].value)
  <2>1. index_of(cells[2].value) \in Nat /\ index_of(cells[3].value) \in Nat
    <3>1. /\ index_of(cells[2].value) \in 0..(INDEX_LIMIT - 1)
          /\ index_of(cells[3].value) \in 0..(INDEX_LIMIT - 1)
      BY <1>5, IndexOfType, Zenon
    <3> QED
      BY <3>1, U32Assumption
  <2>2. Carries(jump, op, at, cells)
    BY <2>1, PackedCarries, Zenon
  <2> HIDE DEF jump
  <2>3. IsPrepared(Prepared(jump, addresses), op, at)
    BY <1>3, <2>2, CarriesIsPrepared
  <2> QED
    BY <1>5, <2>3, Zenon
<1> QED
  BY <1>2, <1>4, <1>5, Zenon

\* The request preparation sends is well formed, for the slot and the state it
\* was prepared from, and every address it packs is in the memory (_prepare).
THEOREM PreparedIsWellFormed ==
  ASSUME NEW op, IsSlot(op), NEW at, at.fp \in Nat, NEW memory \in Memory,
         prepare(op, at, memory).refused = "no"
  PROVE  IsPrepared(prepare(op, at, memory), op, at)
<1> DEFINE addresses == Addresses(at.fp, op.offsets)
           cells     == CellsAt(memory, addresses)
<1>0. "U32_OVERFLOW" # "no" /\ "BAD_SERVICE" # "no"
  OBVIOUS
<1>1. CASE op.kind = "Set"
  <2>1. prepare(op, at, memory) = PrepareSet(op, at, memory)
    BY <1>1, Zenon DEF prepare
  <2>2. /\ ~Overflows(addresses)
        /\ PrepareSet(op, at, memory) = Prepared(Packed(op, at, cells), addresses)
    BY <1>0, <2>1, PreparationEnds, Zenon DEF PrepareSet
  <2>3. addresses \in Seq(Address) /\ DOMAIN addresses = DOMAIN op.offsets
    BY <1>1, <2>2, OffsetsType
  <2> HIDE DEF addresses
  <2>4. Carries(Packed(op, at, cells), op, at, cells)
    BY PackedCarries
  <2>5. IsPrepared(Prepared(Packed(op, at, cells), addresses), op, at)
    BY <1>1, <2>3, <2>4, CarriesIsPrepared
  <2> QED
    BY <2>1, <2>2, <2>5, Zenon
<1>2. CASE op.kind \in {"Xor", "Mul"}
  <2>0. op.kind # "Set" /\ op.kind # "Deref" /\ op.kind # "Jump" /\ op.kind # "Blake3"
    BY <1>2
  <2>1. prepare(op, at, memory) = PrepareBinary(op, at, memory)
    BY <2>0, Zenon DEF prepare
  <2> DEFINE witness == inverse_witness(op, cells, at.profile)
             request == [Packed(op, at, cells) EXCEPT !.proposed_inverse = witness]
  <2>2. /\ ~Overflows(addresses)
        /\ PrepareBinary(op, at, memory) = Prepared(request, addresses)
    BY <1>0, <2>1, PreparationEnds, Zenon DEF PrepareBinary
  <2>3. addresses \in Seq(Address) /\ DOMAIN addresses = DOMAIN op.offsets
    BY <2>0, <2>2, OffsetsType
  <2> HIDE DEF addresses, witness
  <2>4. Carries(request, op, at, cells)
    BY PackedCarries, Zenon
  <2> HIDE DEF request
  <2>5. IsPrepared(Prepared(request, addresses), op, at)
    BY <2>0, <2>3, <2>4, CarriesIsPrepared
  <2> QED
    BY <2>1, <2>2, <2>5, Zenon
<1>3. CASE op.kind = "Deref"
  <2>1. prepare(op, at, memory) = PrepareDeref(op, at, memory)
    BY <1>3 DEF prepare
  <2> QED
    BY <1>3, <2>1, PrepareDerefType
<1>4. CASE op.kind = "Jump"
  <2>1. prepare(op, at, memory) = PrepareJump(op, at, memory)
    BY <1>4 DEF prepare
  <2> QED
    BY <1>4, <2>1, PrepareJumpType
<1>5. CASE op.kind = "Blake3"
  <2>1. prepare(op, at, memory) = PrepareBlake3(op, at, memory)
    BY <1>5 DEF prepare
  <2> DEFINE blank   == Packed(op, at, <<>>)
             touched == blake3_addresses(blank)
             request == Packed(op, at, CellsAt(memory, touched))
  <2>2. /\ ~Overflows(touched)
        /\ PrepareBlake3(op, at, memory) = Prepared(request, touched)
    BY <1>0, <2>1, PreparationEnds, Zenon DEF PrepareBlake3
  <2>3. Carries(blank, op, at, <<>>)
    BY PackedCarries
  <2>4. /\ blank.fp \in Nat /\ blank.message_offsets \in Seq(Nat)
        /\ blank.cv_offset \in Nat /\ blank.out_offset \in Nat
    BY <2>3, Zenon DEF Carries, IsSlot
  <2>5. touched \in Seq(Address)
    <3> HIDE DEF blank
    <3> QED
      BY <2>2, <2>4, Blake3AddressesType
  <2>6. Carries(request, op, at, CellsAt(memory, touched))
    BY PackedCarries
  <2>7. blake3_addresses(request) = touched
    <3> HIDE DEF blank, request
    <3> QED
      BY <2>3, <2>6, Zenon DEF blake3_addresses, Carries
  <2> HIDE DEF touched, request
  <2>8. IsPrepared(Prepared(request, touched), op, at)
    BY <1>5, <2>5, <2>6, <2>7, CarriesIsPrepared
  <2> QED
    BY <2>1, <2>2, <2>8, Zenon
<1> QED
  BY <1>1, <1>2, <1>3, <1>4, <1>5 DEF IsSlot

\* Whether a slot is refused depends on the frame pointer and the memory only:
\* retrying a prepared step under a new transaction id is prepared again.
LEMMA RefusalIsStable ==
  ASSUME NEW op, NEW at, NEW other, NEW memory, at.fp = other.fp
  PROVE  prepare(op, at, memory).refused = prepare(op, other, memory).refused
<1>1. PrepareSet(op, at, memory).refused = PrepareSet(op, other, memory).refused
  BY PreparationEnds, Zenon DEF PrepareSet
<1>2. PrepareBinary(op, at, memory).refused = PrepareBinary(op, other, memory).refused
  BY PreparationEnds, Zenon DEF PrepareBinary
<1>3. PrepareDeref(op, at, memory).refused = PrepareDeref(op, other, memory).refused
  BY PreparationEnds, Zenon DEF PrepareDeref
<1>4. PrepareJump(op, at, memory).refused = PrepareJump(op, other, memory).refused
  BY PreparationEnds, Zenon DEF PrepareJump
<1>5. PrepareBlake3(op, at, memory).refused = PrepareBlake3(op, other, memory).refused
  <2>1. blake3_addresses(Packed(op, at, <<>>)) = blake3_addresses(Packed(op, other, <<>>))
    <3>1. /\ Carries(Packed(op, at, <<>>), op, at, <<>>)
          /\ Carries(Packed(op, other, <<>>), op, other, <<>>)
      BY PackedCarries, Zenon
    <3> QED
      BY <3>1, Zenon DEF Carries, blake3_addresses
  <2> QED
    BY <2>1, PreparationEnds, Zenon DEF PrepareBlake3
<1> QED
  BY <1>1, <1>2, <1>3, <1>4, <1>5, Zenon DEF prepare
=============================================================================
