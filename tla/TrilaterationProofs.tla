------------------------ MODULE TrilaterationProofs ------------------------
(***************************************************************************)
(* What is right about the trilateration, for any satellites, positions    *)
(* and ranges: where it stays inside its memory, what its rows say, which  *)
(* matrix it inverts, and when that inverse is a null pointer.             *)
(***************************************************************************)
EXTENDS Trilateration, FiniteSetTheorems, WellFoundedInduction, TLAPS

(* The inputs of the call, and what the loop has still to do.              *)
InputsOK ==
  /\ pc \in {"call", "fill", "transpose", "normal", "invert", "pseudo", "vector", "return",
             "done", "crashed"}
  /\ place \in Places
  /\ DOMAIN finalSatPos \subseteq Ids
  /\ \A id \in DOMAIN finalSatPos : finalSatPos[id] \in Positions
  /\ DOMAIN finalSatRanges \subseteq DOMAIN finalSatPos
  /\ \A id \in DOMAIN finalSatRanges :
       finalSatRanges[id] = SquareDistance(finalSatPos[id], place)
  /\ todo \subseteq DOMAIN finalSatPos /\ i \in Nat
  /\ i + Cardinality(todo) = nSat
  /\ pc \notin {"call", "fill", "crashed"} => todo = {}
  /\ pc = "call" => i = 0 /\ faults = {}

(* The matrices have the shapes that were allocated, whatever is in them.  *)
Shaped(m, rows) == m.rows = rows /\ m.cols = Dim
ShapesOK ==
  /\ pc # "call" => Shaped(matrixA, nSat) /\ DOMAIN matrixA.at = Cells(nSat, Dim)
  /\ pc = "normal" => matrixATransposed = transpose2DimMatrix(matrixA, nSat, Dim)
  /\ pc \in {"invert", "pseudo"} =>
       matrixATransposed.rows = Dim /\ matrixATransposed.cols = nSat
  /\ pc = "pseudo" =>
       /\ det \in ToInt(clacDeterminant(matrixATransposedA, Dim), One, IntMax)
       /\ matrixATransposedAInverse = calcInverse(matrixATransposedA, nSat, det)
  /\ pc = "vector" => Shaped(matrixATransposedAAdd, nSat)

(* The rows filled so far are the equations of their satellites.           *)
RowsFilled ==
  AllRangesKnown /\ pc # "call" =>
    \A row \in 0 .. i - 1 : row < Dim =>
      SumOverIndices(LAMBDA j : At(matrixA, row, j) * place[j + 1]) = -vectorB[row]

(* What the determinant is computed from is a number.                      *)
EntriesOK ==
  /\ pc # "call" => \A cell \in DOMAIN matrixA.at : matrixA.at[cell] \in Int
  /\ pc \in {"invert", "pseudo", "vector", "return", "done"} =>
       clacDeterminant(matrixATransposedA, Dim) \in Int

(* A null pointer that is read ends the call.                              *)
Small(d) == -One < d /\ d < One
Fits(d)  == -(IntMax + 2) * One < d /\ d < (IntMax + 1) * One
NullEnds ==
  LET d == clacDeterminant(matrixATransposedA, Dim)
  IN  /\ "null" \in faults => pc = "crashed" /\ (Small(d) \/ ~Fits(d))
      /\ After("pseudo") /\ nSat > 0 => ~Small(d)

Inv == InputsOK /\ ShapesOK /\ EntriesOK /\ ThreeStayInside /\ RowsFilled /\ NormalEquations
       /\ NullEnds

-----------------------------------------------------------------------------
(* What the steps are built from                                           *)

(* A sum over the indices is the sum of its three terms: the fold is the   *)
(* function on the subsets of Indices that adds up what is in a subset.    *)
LEMMA SumOfThree ==
  ASSUME NEW f, DOMAIN f = Indices, \A k \in Indices : f[k] \in Int
  PROVE  SumFunction(f) = f[0] + f[1] + f[2]
<1> DEFINE pick(s) == CHOOSE x \in s : TRUE
           Step(s, g) == IF s = {} THEN 0 ELSE f[pick(s)] + g[s \ {pick(s)}]
           Def(g) == g = [s \in SUBSET Indices |-> Step(s, g)]
           term(s, k) == IF k \in s THEN f[k] ELSE 0
           w == [s \in SUBSET Indices |-> term(s, 0) + term(s, 1) + term(s, 2)]
<1>1. SumFunction(f) = (CHOOSE g : Def(g))[Indices]
  BY DEF SumFunction, SumFunctionOnSet, FoldFunctionOnSet, MapThenFoldSet
<1>2. \A s \in SUBSET Indices : s # {} => pick(s) \in s
  OBVIOUS
<1> HIDE DEF pick
<1>3. ASSUME NEW s \in SUBSET Indices PROVE w[s] = Step(s, w)
  <2>1. CASE s = {}
    BY <2>1
  <2>2. CASE s # {}
    <3> DEFINE r == s \ {pick(s)}
    <3>1. pick(s) \in s /\ r \in SUBSET Indices
      BY <2>2, <1>2
    <3>2. pick(s) \in {0, 1, 2}
      <4>1. pick(s) \in Indices
        BY <3>1
      <4> QED BY <4>1 DEF Indices, Dim
    <3>3. w[s] = f[pick(s)] + w[r]
      <4>1. CASE pick(s) = 0
        BY <4>1, <3>1 DEF Indices, Dim
      <4>2. CASE pick(s) = 1
        BY <4>2, <3>1 DEF Indices, Dim
      <4>3. CASE pick(s) = 2
        BY <4>3, <3>1 DEF Indices, Dim
      <4> QED BY <3>2, <4>1, <4>2, <4>3
    <3> QED BY <3>3, <2>2
  <2> QED BY <2>1, <2>2
<1>4. Def(w)
  BY <1>3
<1>5. PICK g : g = (CHOOSE h : Def(h)) /\ Def(g)
  <2> HIDE DEF Def, w
  <2>1. Def(CHOOSE h : Def(h))
    BY <1>4, Zenon
  <2> QED BY <2>1
<1>6. \A s \in SUBSET Indices : g[s] = Step(s, g)
  BY <1>5
<1>7. g[Indices] = f[0] + f[1] + f[2]
  <2>1. g[{}] = 0
    BY <1>6
  <2>2. \A k \in Indices : g[{k}] = f[k]
    <3> TAKE k \in Indices
    <3>1. pick({k}) = k
      BY <1>2
    <3>2. {k} \ {k} = {} /\ {k} # {} /\ {k} \in SUBSET Indices
      OBVIOUS
    <3>3. g[{k}] = f[k] + g[{}]
      BY <3>1, <3>2, <1>6
    <3> QED BY <3>3, <2>1
  <2>3. \A k, l \in Indices : k # l => g[{k, l}] = f[k] + f[l]
    <3> SUFFICES ASSUME NEW k \in Indices, NEW l \in Indices, k # l PROVE g[{k, l}] = f[k] + f[l]
      OBVIOUS
    <3>1. pick({k, l}) \in {k, l}
      BY <1>2
    <3>2. CASE pick({k, l}) = k
      <4>1. {k, l} \ {k} = {l}
        OBVIOUS
      <4>2. g[{k, l}] = f[k] + g[{l}]
        BY <1>6, <3>2, <4>1
      <4> QED BY <4>2, <2>2
    <3>3. CASE pick({k, l}) = l
      <4>1. {k, l} \ {l} = {k}
        OBVIOUS
      <4>2. g[{k, l}] = f[l] + g[{k}]
        BY <1>6, <3>3, <4>1
      <4> QED BY <4>2, <2>2
    <3> QED BY <3>1, <3>2, <3>3
  <2>4. Indices \ {0} = {1, 2} /\ Indices \ {1} = {0, 2} /\ Indices \ {2} = {0, 1}
    BY DEF Indices, Dim
  <2>5. pick(Indices) \in {0, 1, 2} /\ {0, 1, 2} = Indices
    BY <1>2 DEF Indices, Dim
  <2>6. g[Indices] = f[pick(Indices)] + g[Indices \ {pick(Indices)}]
    BY <1>6, <2>5
  <2>7. CASE pick(Indices) = 0
    BY <2>3, <2>4, <2>5, <2>6, <2>7
  <2>8. CASE pick(Indices) = 1
    BY <2>3, <2>4, <2>5, <2>6, <2>8
  <2>9. CASE pick(Indices) = 2
    BY <2>3, <2>4, <2>5, <2>6, <2>9
  <2> QED BY <2>5, <2>7, <2>8, <2>9
<1> QED BY <1>1, <1>5, <1>7

(* The same for the first two of them.                                     *)
LEMMA SumOfTwo ==
  ASSUME NEW f, DOMAIN f = {0, 1}, f[0] \in Int, f[1] \in Int
  PROVE  SumFunction(f) = f[0] + f[1]
<1> DEFINE S == {0, 1}
           pick(s) == CHOOSE x \in s : TRUE
           Step(s, g) == IF s = {} THEN 0 ELSE f[pick(s)] + g[s \ {pick(s)}]
           Def(g) == g = [s \in SUBSET S |-> Step(s, g)]
           term(s, k) == IF k \in s THEN f[k] ELSE 0
           w == [s \in SUBSET S |-> term(s, 0) + term(s, 1)]
<1>1. SumFunction(f) = (CHOOSE g : Def(g))[S]
  BY DEF SumFunction, SumFunctionOnSet, FoldFunctionOnSet, MapThenFoldSet
<1>2. \A s \in SUBSET S : s # {} => pick(s) \in s
  OBVIOUS
<1> HIDE DEF pick
<1>3. ASSUME NEW s \in SUBSET S PROVE w[s] = Step(s, w)
  <2>1. CASE s = {}
    BY <2>1
  <2>2. CASE s # {}
    <3>1. pick(s) \in s /\ s \ {pick(s)} \in SUBSET S /\ pick(s) \in {0, 1}
      BY <2>2, <1>2
    <3>2. CASE pick(s) = 0
      BY <2>2, <3>1, <3>2
    <3>3. CASE pick(s) = 1
      BY <2>2, <3>1, <3>3
    <3> QED BY <3>1, <3>2, <3>3
  <2> QED BY <2>1, <2>2
<1>4. Def(w)
  BY <1>3
<1>5. PICK g : g = (CHOOSE h : Def(h)) /\ Def(g)
  <2> HIDE DEF Def, w
  <2>1. Def(CHOOSE h : Def(h))
    BY <1>4, Zenon
  <2> QED BY <2>1
<1>6. \A s \in SUBSET S : g[s] = Step(s, g)
  BY <1>5
<1>7. g[S] = f[0] + f[1]
  <2>1. g[{}] = 0
    BY <1>6
  <2>2. ASSUME NEW k \in S PROVE g[{k}] = f[k]
    <3>1. pick({k}) = k /\ {k} \ {k} = {} /\ {k} # {} /\ {k} \in SUBSET S /\ f[k] \in Int
      BY <1>2
    <3>2. g[{k}] = f[k] + g[{}]
      BY <3>1, <1>6
    <3> QED BY <3>1, <3>2, <2>1
  <2>3. S \ {0} = {1} /\ S \ {1} = {0} /\ pick(S) \in {0, 1}
    BY <1>2
  <2>4. g[S] = f[pick(S)] + g[S \ {pick(S)}]
    BY <1>6
  <2>5. CASE pick(S) = 0
    BY <2>2, <2>3, <2>4, <2>5
  <2>6. CASE pick(S) = 1
    <3>1. g[{0}] = f[0] /\ f[0] \in Int /\ f[1] \in Int
      BY <2>2
    <3>2. g[S] = f[1] + g[{0}]
      BY <2>3, <2>4, <2>6
    <3> QED BY <3>1, <3>2
  <2> QED BY <2>3, <2>5, <2>6
<1> QED BY <1>1, <1>5, <1>7

(* A determinant is a number if its first row holds numbers.               *)
LEMMA DeterminantIsInt ==
  ASSUME NEW m, \A j \in Indices : At(m, 0, j) \in Int
  PROVE  clacDeterminant(m, Dim) \in Int
<1> DEFINE Row(n, d) == SumFunction([f \in 0 .. n - 1 |-> Sign(f) * At(m, 0, f) * d])
           Step(n, g) == IF n = 1 THEN At(m, 0, 0) ELSE Row(n, g[n - 1])
           Def(g) == g = [n \in 1 .. Dim |-> Step(n, g)]
           d1 == At(m, 0, 0)
           d2 == Row(2, d1)
           d3 == Row(3, d2)
           w == [n \in 1 .. Dim |-> IF n = 1 THEN d1 ELSE IF n = 2 THEN d2 ELSE d3]
<1>1. clacDeterminant(m, Dim) = (CHOOSE g : Def(g))[Dim]
  BY DEF clacDeterminant
<1> HIDE DEF Row
<1>2. Def(w)
  <2>1. \A n \in 1 .. Dim : n \in {1, 2, 3}
    BY DEF Dim
  <2>2. 1 \in 1 .. Dim /\ 2 \in 1 .. Dim /\ 2 - 1 = 1 /\ 3 - 1 = 2
    BY DEF Dim
  <2>3. w[1] = Step(1, w) /\ w[2] = Step(2, w) /\ w[3] = Step(3, w)
    BY <2>2 DEF Dim
  <2>4. \A n \in 1 .. Dim : w[n] = Step(n, w)
    BY <2>1, <2>3
  <2> HIDE DEF Step
  <2> QED BY <2>4
<1>3. PICK g : g = (CHOOSE h : Def(h)) /\ Def(g)
  <2> HIDE DEF Def, w
  <2>1. Def(CHOOSE h : Def(h))
    BY <1>2, Zenon
  <2> QED BY <2>1
<1>4. g[1] = d1 /\ g[2] = Row(2, g[1]) /\ g[3] = Row(3, g[2])
  <2>1. 1 \in 1 .. Dim /\ 2 \in 1 .. Dim /\ 3 \in 1 .. Dim /\ 2 - 1 = 1 /\ 3 - 1 = 2
    BY DEF Dim
  <2>2. \A n \in 1 .. Dim : g[n] = Step(n, g)
    BY <1>3
  <2> QED BY <2>1, <2>2
<1>5. \A k \in Indices : Sign(k) \in Int /\ At(m, 0, k) \in Int
  BY DEF Sign
<1>6. ASSUME NEW d \in Int PROVE Row(2, d) \in Int /\ Row(3, d) \in Int
  <2>1. \A k \in Indices : Sign(k) * At(m, 0, k) * d \in Int
    BY <1>5
  <2>2. 0 .. 2 - 1 = {0, 1} /\ 0 .. 3 - 1 = Indices /\ {0, 1} \subseteq Indices
    BY DEF Indices, Dim
  <2> DEFINE f == [k \in {0, 1} |-> Sign(k) * At(m, 0, k) * d]
             h == [k \in Indices |-> Sign(k) * At(m, 0, k) * d]
  <2>3. Row(2, d) = SumFunction(f) /\ Row(3, d) = SumFunction(h)
    BY <2>2 DEF Row
  <2>4. f[0] \in Int /\ f[1] \in Int /\ DOMAIN f = {0, 1}
    BY <2>1, <2>2
  <2>5. DOMAIN h = Indices /\ \A k \in Indices : h[k] \in Int
    BY <2>1
  <2> HIDE DEF f, h
  <2>6. 0 \in Indices /\ 1 \in Indices /\ 2 \in Indices
    BY DEF Indices, Dim
  <2>7. SumFunction(f) = f[0] + f[1]
    BY <2>4, SumOfTwo
  <2>8. SumFunction(h) = h[0] + h[1] + h[2]
    BY <2>5, SumOfThree
  <2> QED BY <2>3, <2>4, <2>5, <2>6, <2>7, <2>8
<1>7. d1 \in Int
  BY <1>5 DEF Indices, Dim
<1>8. g[3] \in Int
  BY <1>4, <1>6, <1>7
<1> QED BY <1>1, <1>3, <1>8 DEF Dim

(* What is not 0 stays so under multiplication.                            *)
LEMMA UnitsMultiply ==
  /\ \A a, b \in Nat \ {0} : a * b \in Nat \ {0}
  /\ One \in Nat \ {0}
<1>1. \A a, b \in Nat \ {0} : a * b \in Nat \ {0}
  OBVIOUS
<1>2. Unit \in Nat \ {0}
  BY TrilaterationConstants
<1>3. Unit * Unit \in Nat \ {0}
  BY <1>1, <1>2
<1>4. Unit * Unit * Unit \in Nat \ {0}
  BY <1>1, <1>2, <1>3
<1>5. Unit * Unit * Unit * Unit \in Nat \ {0}
  BY <1>1, <1>2, <1>4
<1>6. Unit * Unit * Unit * Unit * Unit \in Nat \ {0}
  BY <1>1, <1>2, <1>5
<1>7. Unit * Unit * Unit * Unit * Unit * Unit \in Nat \ {0}
  BY <1>1, <1>2, <1>6
<1> QED BY <1>1, <1>7 DEF One

(* Multiplication by a natural number keeps the order.                     *)
LEMMA TimesGrows ==
  ASSUME NEW c \in Nat, NEW a \in Nat, NEW b \in Nat, a <= b
  PROVE  c * a <= c * b
<1>1. PICK k \in Nat : b = a + k
  OBVIOUS
<1>2. c * b = c * a + c * k /\ c * k \in Nat /\ c * a \in Nat
  BY <1>1
<1> QED BY <1>2

(* Cutting a double to an int loses what is less than 1, and only what is  *)
(* beyond the ends of the int does not fit it.                             *)
LEMMA CutIsExact ==
  ASSUME NEW d \in Int
  PROVE  /\ CutTo(d, One) = 0 <=> Small(d)
         /\ CutTo(d, One) \in Ints(IntMax) <=> Fits(d)
<1>1. One \in Nat /\ One > 0 /\ IntMax \in Nat
  BY TrilaterationConstants, UnitsMultiply
<1>2. PICK one \in Nat \ {0}, max \in Nat : one = One /\ max = IntMax
  BY <1>1
<1>3. ASSUME NEW a \in Nat
      PROVE  /\ a \div one \in Nat
             /\ \A n \in Nat : a \div one <= n <=> a < (n + 1) * one
  <2>1. PICK q \in Nat, e \in Nat : q = a \div one /\ e = a % one /\ a = one * q + e /\ e < one
    OBVIOUS
  <2>2. ASSUME NEW n \in Nat PROVE q <= n <=> a < (n + 1) * one
    <3>1. CASE q <= n
      <4>1. one * q <= one * n
        BY <3>1, TimesGrows
      <4>2. (n + 1) * one = one * n + one
        OBVIOUS
      <4> QED BY <2>1, <3>1, <4>1, <4>2
    <3>2. CASE ~(q <= n)
      <4>1. n + 1 <= q
        BY <3>2
      <4>2. one * (n + 1) <= one * q
        BY <4>1, TimesGrows
      <4>3. (n + 1) * one = one * (n + 1)
        OBVIOUS
      <4> QED BY <2>1, <3>2, <4>2, <4>3
    <3> QED BY <3>1, <3>2
  <2> QED BY <2>1, <2>2
<1>4. CASE d >= 0
  <2>1. d \in Nat /\ CutTo(d, One) = d \div one
    BY <1>2, <1>4 DEF CutTo
  <2>2. d \div one \in Nat /\ (d \div one <= 0 <=> d < (0 + 1) * one)
        /\ (d \div one <= max <=> d < (max + 1) * one)
    BY <1>3, <2>1
  <2>3. (0 + 1) * one = one /\ -((max + 2) * one) < d /\ -(max + 2) * one = -((max + 2) * one)
    <3>1. (max + 2) * one \in Nat /\ (max + 2) * one # 0
      BY UnitsMultiply
    <3> QED BY <1>4, <3>1
  <2>4. CutTo(d, One) = 0 <=> Small(d)
    BY <1>2, <1>4, <2>1, <2>2, <2>3 DEF Small
  <2>5. CutTo(d, One) \in Ints(IntMax) <=> Fits(d)
    <3> HIDE DEF Fits
    <3>1. Fits(d) <=> -(max + 2) * one < d /\ d < (max + 1) * one
      BY <1>2 DEF Fits
    <3>2. CutTo(d, One) \in Ints(IntMax) <=> d \div one <= max
      BY <1>2, <2>1, <2>2 DEF Ints
    <3> QED BY <2>2, <2>3, <3>1, <3>2
  <2> QED BY <2>4, <2>5
<1>5. CASE d < 0
  <2> DEFINE a == -d
  <2>1. a \in Nat /\ CutTo(d, One) = -(a \div one)
    BY <1>2, <1>5 DEF CutTo
  <2>2. a \div one \in Nat /\ (a \div one <= 0 <=> a < (0 + 1) * one)
        /\ (a \div one <= max + 1 <=> a < (max + 1 + 1) * one)
    BY <1>3, <2>1
  <2>3. /\ (0 + 1) * one = one /\ max + 1 + 1 = max + 2
        /\ d < (max + 1) * one /\ -(max + 2) * one = -((max + 2) * one)
    <3>1. (max + 1) * one \in Nat /\ (max + 2) * one \in Nat
      OBVIOUS
    <3> QED BY <1>5, <3>1
  <2>4. CutTo(d, One) = 0 <=> Small(d)
    BY <1>2, <1>5, <2>1, <2>2, <2>3 DEF Small
  <2>5. CutTo(d, One) \in Ints(IntMax) <=> Fits(d)
    <3>1. Fits(d) <=> -((max + 2) * one) < d
      BY <1>2, <2>3 DEF Fits
    <3>2. CutTo(d, One) \in Ints(IntMax) <=> a \div one <= max + 1
      BY <1>2, <2>1, <2>2 DEF Ints
    <3>3. (max + 2) * one \in Nat
      OBVIOUS
    <3> QED BY <2>1, <2>2, <2>3, <3>1, <3>2, <3>3
  <2> QED BY <2>4, <2>5
<1> QED BY <1>4, <1>5

Less == {ss \in Nat \X Nat : ss[1] < ss[2]}

(* A set of natural numbers that is not empty has a smallest one.          *)
LEMMA SmallestExists ==
  ASSUME NEW S \in SUBSET Nat, S # {}
  PROVE  \E x \in S : \A y \in S : x <= y
<1>1. IsWellFoundedOn(Less, Nat)
  BY NatLessThanWellFounded DEF OpToRel, Less
<1>2. PICK x \in S : \A y \in S : ~(<<y, x>> \in Less)
  BY <1>1, WFMin
<1>3. ASSUME NEW y \in S PROVE x <= y
  <2>1. <<y, x>> \in Nat \X Nat /\ <<y, x>>[1] = y /\ <<y, x>>[2] = x
    OBVIOUS
  <2>2. ~(y < x)
    BY <2>1, <1>2 DEF Less
  <2> QED BY <2>2
<1> QED BY <1>3

(* The satellites of a call are finitely many, so the map's iterator is at *)
(* one of them, and one is less to do when it has moved on.                *)
LEMMA Counts ==
  ASSUME InputsOK
  PROVE  /\ IsFiniteSet(todo) /\ Cardinality(todo) \in Nat /\ nSat \in Nat
         /\ todo # {} => /\ MapIterator \in todo /\ Cardinality(todo) > 0
                         /\ Cardinality(todo \ {MapIterator}) = Cardinality(todo) - 1
         /\ todo = {} => Cardinality(todo) = 0
<1>1. IsFiniteSet(DOMAIN finalSatPos) /\ IsFiniteSet(todo)
  BY TrilaterationConstants, FS_Subset DEF InputsOK
<1>2. Cardinality(todo) \in Nat /\ nSat \in Nat
  BY <1>1, FS_CardinalityType DEF nSat
<1>3. ASSUME todo # {} PROVE MapIterator \in todo
  <2>1. todo \in SUBSET Nat
    BY TrilaterationConstants DEF InputsOK
  <2>2. \E id \in todo : \A other \in todo : id <= other
    BY <1>3, <2>1, SmallestExists
  <2> QED BY <2>2 DEF MapIterator
<1>4. todo # {} => Cardinality(todo) # 0
  BY <1>1, FS_EmptySet
<1>5. ASSUME todo # {}
      PROVE  Cardinality(todo \ {MapIterator}) = Cardinality(todo) - 1
  BY <1>1, <1>3, <1>5, FS_RemoveElement
<1>6. todo = {} => Cardinality(todo) = 0
  BY FS_EmptySet
<1> QED BY <1>1, <1>2, <1>3, <1>4, <1>5, <1>6

(* The invariant holds before the call.                                    *)
LEMMA InitInv == Init => Inv
<1> SUFFICES ASSUME Init PROVE Inv
  OBVIOUS
<1>1. DOMAIN finalSatPos = {} /\ DOMAIN finalSatRanges = {} /\ todo = {} /\ nSat = 0
  BY FS_EmptySet DEF Init, nSat
<1>2. InputsOK
  BY <1>1, FS_EmptySet DEF Init, InputsOK
<1>3. ShapesOK /\ EntriesOK /\ ThreeStayInside /\ RowsFilled
  BY DEF Init, ShapesOK, EntriesOK, ThreeStayInside, RowsFilled
<1>4. NullEnds
  BY <1>1 DEF Init, NullEnds
<1>5. NormalEquations
  BY <1>1 DEF NormalEquations
<1> QED BY <1>2, <1>3, <1>4, <1>5 DEF Inv

-----------------------------------------------------------------------------
(* Every step preserves it                                                 *)

(* The steps after the loop leave the inputs alone.                        *)
Solving == Transpose \/ MultiplyNormal \/ CalcInverse \/ MultiplyPseudo \/ MultiplyVector
           \/ ReadResult

(* Each round of the loop takes one satellite off the list.                *)
LEMMA InputsStep == InputsOK /\ [Next]_vars => InputsOK'
<1> SUFFICES ASSUME InputsOK, [Next]_vars PROVE InputsOK'
  OBVIOUS
<1>1. ASSUME Call PROVE InputsOK'
  <2>1. PICK ids \in SUBSET Ids :
          /\ finalSatPos' \in [ids -> Positions]
          /\ \E missing \in {{}} \cup {{id} : id \in ids} :
               finalSatRanges' = [id \in ids \ missing |->
                                    SquareDistance(finalSatPos'[id], place)]
          /\ todo' = ids
    BY <1>1 DEF Call
  <2>2. PICK missing : finalSatRanges' = [id \in ids \ missing |->
                                            SquareDistance(finalSatPos'[id], place)]
    BY <2>1
  <2>3. DOMAIN finalSatPos' = ids /\ (nSat)' = Cardinality(ids)
    BY <2>1 DEF nSat
  <2>4. i = 0 /\ i' = i /\ place' = place /\ pc' = "fill"
    BY <1>1 DEF Call, InputsOK
  <2>5. Cardinality(ids) \in Nat
    BY TrilaterationConstants, FS_Subset, FS_CardinalityType
  <2> QED BY <2>1, <2>2, <2>3, <2>4, <2>5 DEF InputsOK
<1>2. ASSUME FillRow PROVE InputsOK'
  <2>1. todo # {} /\ todo' = todo \ {MapIterator} /\ i' = i + 1 /\ UNCHANGED inputs
    BY <1>2 DEF FillRow, Filling
  <2>2. pc' \in {"fill", "transpose"} /\ (pc' = "transpose" => todo' = {})
    BY <1>2 DEF FillRow
  <2>3. (nSat)' = nSat
    BY <2>1 DEF inputs, nSat
  <2> QED BY <2>1, <2>2, <2>3, Counts DEF InputsOK, inputs
<1>3. ASSUME NoRows \/ Solving \/ Crash \/ UNCHANGED vars PROVE InputsOK'
  <2>1. UNCHANGED <<inputs, todo, i>> /\ (nSat)' = nSat
    BY <1>3 DEF NoRows, Solving, Transpose, MultiplyNormal, CalcInverse, MultiplyPseudo,
                MultiplyVector, ReadResult, Crash, vars, inputs, nSat
  <2>2. /\ pc' \in {"transpose", "normal", "invert", "pseudo", "vector", "return", "done",
                    "crashed", pc}
        /\ pc' # pc /\ pc' # "crashed" => todo = {}
        /\ pc' = "call" => pc = "call" /\ faults' = faults
    BY <1>3 DEF NoRows, Solving, Transpose, MultiplyNormal, CalcInverse, MultiplyPseudo,
                MultiplyVector, ReadResult, Crash, vars, InputsOK
  <2> QED BY <2>1, <2>2 DEF InputsOK, inputs
<1> QED BY <1>1, <1>2, <1>3 DEF Next, Solving

(* The functions return the shapes the loops expect of each other.         *)
LEMMA ShapesStep == InputsOK /\ ShapesOK /\ [Next]_vars => ShapesOK'
<1> SUFFICES ASSUME InputsOK, ShapesOK, [Next]_vars PROVE ShapesOK'
  OBVIOUS
<1>1. ASSUME Call PROVE ShapesOK'
  <2>1. PICK ids \in SUBSET Ids : /\ finalSatPos' \in [ids -> Positions]
                                 /\ matrixA' = allocate2Ddouble(Cardinality(ids), Dim)
    BY <1>1 DEF Call
  <2>2. (nSat)' = Cardinality(ids) /\ pc' = "fill"
    BY <1>1, <2>1 DEF nSat, Call
  <2> QED BY <2>1, <2>2 DEF ShapesOK, Shaped, allocate2Ddouble
<1>2. ASSUME FillRow PROVE ShapesOK'
  <2>1. (nSat)' = nSat /\ pc = "fill" /\ pc' \in {"fill", "transpose"}
    BY <1>2 DEF FillRow, Filling, inputs, nSat
  <2>2. /\ matrixA'.rows = matrixA.rows /\ matrixA'.cols = matrixA.cols
        /\ DOMAIN matrixA'.at = DOMAIN matrixA.at
    BY <1>2 DEF FillRow
  <2> QED BY <2>1, <2>2 DEF ShapesOK, Shaped
<1>3. ASSUME Transpose PROVE ShapesOK'
  <2>1. (nSat)' = nSat /\ pc = "transpose" /\ pc' = "normal" /\ matrixA' = matrixA
    BY <1>3 DEF Transpose, inputs, nSat
  <2> QED BY <1>3, <2>1 DEF ShapesOK, Shaped, Transpose
<1>4. ASSUME MultiplyNormal PROVE ShapesOK'
  <2>1. /\ (nSat)' = nSat /\ pc = "normal" /\ pc' = "invert" /\ matrixA' = matrixA
        /\ matrixATransposed' = matrixATransposed
    BY <1>4 DEF MultiplyNormal, inputs, nSat
  <2> QED BY <2>1 DEF ShapesOK, Shaped, transpose2DimMatrix
<1>5. ASSUME CalcInverse PROVE ShapesOK'
  <2>1. /\ (nSat)' = nSat /\ pc = "invert" /\ pc' = "pseudo"
        /\ UNCHANGED <<matrixA, matrixATransposed, matrixATransposedA>>
    BY <1>5 DEF CalcInverse, inputs, normal, nSat
  <2>2. /\ det' \in ToInt(clacDeterminant(matrixATransposedA, Dim), One, IntMax)
        /\ matrixATransposedAInverse' = calcInverse(matrixATransposedA, nSat, det')
    BY <1>5 DEF CalcInverse
  <2> QED BY <2>1, <2>2 DEF ShapesOK, Shaped
<1>6. ASSUME MultiplyPseudo PROVE ShapesOK'
  <2>1. (nSat)' = nSat /\ pc = "pseudo" /\ pc' = "vector" /\ matrixA' = matrixA
    BY <1>6 DEF MultiplyPseudo, inputs, normal, nSat
  <2>2. Shaped(matrixATransposedAAdd, nSat)'
    BY <1>6, <2>1 DEF MultiplyPseudo, multiplyMatrices, Shaped
  <2> QED BY <2>1, <2>2 DEF ShapesOK, Shaped
<1>7. ASSUME NoRows \/ MultiplyVector \/ ReadResult \/ Crash PROVE ShapesOK'
  <2>1. (nSat)' = nSat /\ matrixA' = matrixA
    BY <1>7 DEF NoRows, MultiplyVector, ReadResult, Crash, inputs, normal, nSat
  <2>2. pc # "call" /\ pc' \in {"transpose", "return", "done", "crashed"}
    BY <1>7 DEF NoRows, MultiplyVector, ReadResult, Crash, Faults, Fault, Filling
  <2> QED BY <2>1, <2>2 DEF ShapesOK, Shaped
<1>8. CASE UNCHANGED vars
  <2>1. (nSat)' = nSat
    BY <1>8 DEF vars, inputs, nSat
  <2> QED BY <1>8, <2>1 DEF ShapesOK, Shaped, vars, normal, solved
<1> QED BY <1>1, <1>2, <1>3, <1>4, <1>5, <1>6, <1>7, <1>8 DEF Next

(* Three rows of three, three columns of three: no index of a loop leaves  *)
(* its block, nor vectorB.                                                 *)
LEMMA InsideThree ==
  ASSUME NEW a, NEW b, NEW rows, rows \in {Dim, nSat}, nSat = 3,
         Shaped(a, 3), Shaped(b, 3)
  PROVE  MultiplyStaysInside(a, b, rows) /\ VectorStaysInside(a)
<1>1. \A j, k \in 0 .. 2 : j * 3 + k < 9
  OBVIOUS
<1>2. \A j, k \in 0 .. 2 : Inside(a, j, k) /\ Inside(b, j, k)
  BY <1>1 DEF Inside, Shaped, Dim
<1> QED BY <1>2 DEF MultiplyStaysInside, VectorStaysInside, Inner, Indices, Dim

LEMMA FaultsOfThree ==
  ASSUME InputsOK, ShapesOK, nSat = 3
  PROVE  "row" \notin Faults /\ "vectorB" \notin Faults
<1>1. ASSUME Filling PROVE i < Dim
  BY <1>1, Counts DEF Filling, InputsOK, Dim
<1>2. pc = "normal" => MultiplyStaysInside(matrixATransposed, matrixA, Dim)
  BY InsideThree DEF ShapesOK, Shaped, transpose2DimMatrix, Dim
<1>3. pc = "pseudo" /\ matrixATransposedAInverse # NullMatrix =>
        MultiplyStaysInside(matrixATransposedAInverse, matrixATransposed, nSat)
  BY InsideThree DEF ShapesOK, Shaped, calcInverse, calcAdjoint, Dim
<1>4. pc = "vector" => VectorStaysInside(matrixATransposedAAdd)
  BY InsideThree DEF ShapesOK, Shaped, Dim
<1> QED BY <1>1, <1>2, <1>3, <1>4 DEF Faults, Fault, InputsOK, Dim

LEMMA ThreeStep == InputsOK /\ ShapesOK /\ ThreeStayInside /\ [Next]_vars => ThreeStayInside'
<1> SUFFICES ASSUME InputsOK, ShapesOK, ThreeStayInside, [Next]_vars PROVE ThreeStayInside'
  OBVIOUS
<1>1. CASE Call
  BY <1>1 DEF Call, InputsOK, ThreeStayInside
<1>2. ASSUME ~Call PROVE ThreeStayInside'
  <2>1. (nSat)' = nSat
    BY <1>2 DEF Next, FillRow, NoRows, Transpose, MultiplyNormal, CalcInverse, MultiplyPseudo,
                MultiplyVector, ReadResult, Crash, vars, inputs, nSat
  <2>2. faults' = faults \/ faults' = faults \cup Faults
    BY <1>2 DEF Next, FillRow, NoRows, Transpose, MultiplyNormal, CalcInverse, MultiplyPseudo,
                MultiplyVector, ReadResult, Crash, vars, Record
  <2> QED BY <2>1, <2>2, FaultsOfThree DEF ThreeStayInside
<1> QED BY <1>1, <1>2

(* With an exact range, the coefficients and the constant of a satellite   *)
(* are the equation of the point opposite the user.                        *)
LEMMA Antipode ==
  ASSUME NEW p \in Positions, NEW q \in Places
  PROVE  /\ \A k \in 1 .. 3 : p[k] \in Int /\ q[k] \in Int
         /\ Coefficient(p[1]) * q[1] + Coefficient(p[2]) * q[2] + Coefficient(p[3]) * q[3]
              = -Constant(p, SquareDistance(p, q))
<1>1. p \in Int \X Int \X Int /\ q \in Int \X Int \X Int /\ Square(q) = Radius * Radius
  BY TrilaterationConstants
<1>2. PICK a \in Int, b \in Int, c \in Int : p[1] = a /\ p[2] = b /\ p[3] = c
  BY <1>1
<1>3. PICK x \in Int, y \in Int, z \in Int : q[1] = x /\ q[2] = y /\ q[3] = z
  BY <1>1
<1>4. x * x + y * y + z * z = Radius * Radius
  BY <1>1, <1>3 DEF Square
<1>5. SquareDistance(p, q) = (a - x) * (a - x) + (b - y) * (b - y) + (c - z) * (c - z)
  BY <1>2, <1>3 DEF SquareDistance, Square
<1>6. \A u, v \in Int : (u - v) * (u - v) = u * u - 2 * (u * v) + v * v
  OBVIOUS
<1>7. SquareDistance(p, q) = (a * a + b * b + c * c) + Radius * Radius
                               - 2 * (a * x) - 2 * (b * y) - 2 * (c * z)
  <2> DEFINE aa == a * a  bb == b * b  cc == c * c  xx == x * x  yy == y * y  zz == z * z
             ax == a * x  by == b * y  cz == c * z  rr == Radius * Radius
  <2>1. /\ aa \in Int /\ bb \in Int /\ cc \in Int /\ xx \in Int /\ yy \in Int /\ zz \in Int
        /\ ax \in Int /\ by \in Int /\ cz \in Int
    OBVIOUS
  <2>2. SquareDistance(p, q) = (aa - 2 * ax + xx) + (bb - 2 * by + yy) + (cc - 2 * cz + zz)
    BY <1>5, <1>6
  <2>3. xx + yy + zz = rr
    BY <1>4
  <2> HIDE DEF aa, bb, cc, xx, yy, zz, ax, by, cz, rr
  <2>4. SquareDistance(p, q) = (aa + bb + cc) + rr - 2 * ax - 2 * by - 2 * cz
    BY <2>1, <2>2, <2>3
  <2> QED BY <2>4 DEF aa, bb, cc, ax, by, cz, rr
<1>8. Constant(p, SquareDistance(p, q)) = 2 * (a * x) + 2 * (b * y) + 2 * (c * z)
  <2>1. Square(p) = a * a + b * b + c * c
    BY <1>2 DEF Square
  <2>2. Constant(p, SquareDistance(p, q)) = Radius * Radius + Square(p) - SquareDistance(p, q)
    BY DEF Constant
  <2> QED BY <1>7, <2>1, <2>2, TrilaterationConstants
<1>9. Coefficient(a) * x = -(2 * (a * x)) /\ Coefficient(b) * y = -(2 * (b * y))
      /\ Coefficient(c) * z = -(2 * (c * z))
  BY DEF Coefficient
<1> QED BY <1>2, <1>3, <1>8, <1>9

(* An index inside a row of three columns stays in that row.               *)
LEMMA Entry ==
  ASSUME NEW row \in Nat, NEW j \in Indices
  PROVE  row + j \div Dim = row /\ j % Dim = j
<1>1. j \in {0, 1, 2}
  BY DEF Indices, Dim
<1> QED BY <1>1 DEF Dim

(* What a row of the transposed matrix yields, or what lies beyond it, is  *)
(* a number.                                                               *)
LEMMA ReadsTransposed ==
  ASSUME NEW m, NEW n \in Nat, NEW junk \in Int, NEW k \in Indices, m.cols = Dim,
         \A cell \in Cells(n, Dim) : m.at[cell] \in Int
  PROVE  Read(transpose2DimMatrix(m, n, Dim), 0, k, junk) \in Int
<1> DEFINE t == transpose2DimMatrix(m, n, Dim)
<1>1. CASE Inside(t, 0, k)
  <2>1. t.cols = n /\ t.rows = Dim
        /\ t.at = [cell \in Cells(Dim, n) |-> At(m, cell[2], cell[1])]
    BY DEF transpose2DimMatrix
  <2> HIDE DEF t
  <2>2. n > 0 /\ k \in 0 .. 2
    BY <1>1, <2>1 DEF Inside, Indices, Dim
  <2>3. PICK a, b : a = k \div n /\ b = k % n
    OBVIOUS
  <2>4. a \in 0 .. 2 /\ b \in 0 .. n - 1
    BY <2>2, <2>3
  <2>5. At(t, 0, k) = t.at[<<a, b>>]
    BY <2>1, <2>3, <2>4 DEF At
  <2>6. t.at[<<a, b>>] = At(m, b, a)
    <3>1. <<a, b>> \in Cells(Dim, n) /\ <<a, b>>[1] = a /\ <<a, b>>[2] = b
      BY <2>4 DEF Cells, Dim
    <3> QED BY <2>1, <3>1
  <2>7. At(m, b, a) = m.at[<<b, a>>]
    <3>1. a \in Indices /\ b \in Nat
      BY <2>2, <2>4 DEF Indices, Dim
    <3> QED BY <3>1, Entry DEF At
  <2>8. <<b, a>> \in Cells(n, Dim)
    BY <2>2, <2>4 DEF Cells, Dim
  <2> QED BY <1>1, <2>5, <2>6, <2>7, <2>8 DEF Read, t
<1>2. CASE ~Inside(t, 0, k)
  BY <1>2 DEF Read
<1> QED BY <1>1, <1>2

(* The row that is filled gets its satellite's equation, and no other row  *)
(* changes.                                                                *)
LEMMA RowsStep == InputsOK /\ ShapesOK /\ RowsFilled /\ [Next]_vars => RowsFilled'
<1> SUFFICES ASSUME InputsOK, ShapesOK, RowsFilled, [Next]_vars PROVE RowsFilled'
  OBVIOUS
<1>1. ASSUME Call PROVE RowsFilled'
  <2>1. i' = 0
    BY <1>1 DEF Call, InputsOK
  <2> QED BY <2>1 DEF RowsFilled, SumOverIndices
<1>2. ASSUME FillRow PROVE RowsFilled'
  <2>1. PICK junk \in Junk :
          LET id == MapIterator
              p == finalSatPos[id]
              range2 == IF id \in DOMAIN finalSatRanges THEN finalSatRanges[id]
                        ELSE junk * junk
          IN  /\ matrixA' = [matrixA EXCEPT !.at =
                               [cell \in DOMAIN @ |->
                                  IF cell[1] = i THEN Coefficient(p[cell[2] + 1]) ELSE @[cell]]]
              /\ vectorB' = [k \in Indices |-> IF k = i THEN Constant(p, range2)
                                               ELSE vectorB[k]]
    BY <1>2 DEF FillRow
  <2> DEFINE id == MapIterator
             p == finalSatPos[id]
  <2>2. SUFFICES ASSUME AllRangesKnown', NEW row \in 0 .. i' - 1, row < Dim
                 PROVE  SumOverIndices(LAMBDA j : At(matrixA', row, j) * place'[j + 1])
                          = -vectorB'[row]
    BY DEF RowsFilled, SumOverIndices
  <2>3. /\ id \in todo /\ id \in DOMAIN finalSatRanges /\ i' = i + 1 /\ i \in Nat
        /\ place' = place /\ AllRangesKnown /\ pc = "fill" /\ i < nSat /\ nSat \in Nat
    BY <1>2, <2>2, Counts DEF FillRow, Filling, InputsOK, AllRangesKnown, inputs
  <2>4. p \in Positions /\ place \in Places
        /\ finalSatRanges[id] = SquareDistance(p, place)
    BY <2>3 DEF InputsOK
  <2>5. /\ matrixA'.cols = Dim /\ matrixA.cols = Dim
        /\ \A j \in Indices : <<row, j>> \in DOMAIN matrixA.at
        /\ matrixA'.at = [cell \in DOMAIN matrixA.at |->
                            IF cell[1] = i THEN Coefficient(p[cell[2] + 1]) ELSE matrixA.at[cell]]
    BY <2>1, <2>3 DEF ShapesOK, Shaped, Cells, Indices, Dim
  <2>6. row \in Nat /\ row \in Indices
    BY <2>2, <2>3 DEF Indices, Dim
  <2>7. \A j \in Indices : /\ At(matrixA', row, j) = matrixA'.at[<<row, j>>]
                          /\ At(matrixA, row, j) = matrixA.at[<<row, j>>]
    BY <2>5, <2>6, Entry DEF At
  <2>8. CASE row = i
    <3>1. \A j \in Indices : At(matrixA', row, j) = Coefficient(p[j + 1])
      BY <2>5, <2>6, <2>8, <2>7
    <3> DEFINE f == [j \in Indices |-> At(matrixA', row, j) * place'[j + 1]]
    <3>2. /\ f[0] = Coefficient(p[1]) * place[1] /\ f[1] = Coefficient(p[2]) * place[2]
          /\ f[2] = Coefficient(p[3]) * place[3]
      BY <3>1, <2>3 DEF Indices, Dim
    <3>3. \A k \in 1 .. 3 : p[k] \in Int /\ place[k] \in Int
      BY <2>4, Antipode
    <3>4. \A k \in 1 .. 3 : Coefficient(p[k]) * place[k] \in Int
      BY <3>3 DEF Coefficient
    <3>5. \A k \in Indices : f[k] \in Int
      BY <3>1, <3>4, <2>3 DEF Indices, Dim
    <3>6. SumFunction(f) = f[0] + f[1] + f[2]
      <4> HIDE DEF f
      <4>1. DOMAIN f = Indices
        BY DEF f
      <4> QED BY <4>1, <3>5, SumOfThree
    <3>7. vectorB'[row] = Constant(p, SquareDistance(p, place))
      BY <2>1, <2>3, <2>4, <2>6, <2>8
    <3>8. SumFunction(f) = -vectorB'[row]
      BY <3>2, <3>6, <3>7, <2>4, Antipode
    <3> QED BY <3>8 DEF SumOverIndices
  <2>9. CASE row # i
    <3>1. row \in 0 .. i - 1
      BY <2>2, <2>3, <2>9
    <3>2. \A j \in Indices : At(matrixA', row, j) = At(matrixA, row, j)
      BY <2>5, <2>6, <2>9, <2>7
    <3>3. vectorB'[row] = vectorB[row]
      BY <2>1, <2>6, <2>9
    <3>4. SumOverIndices(LAMBDA j : At(matrixA, row, j) * place[j + 1]) = -vectorB[row]
      BY <2>2, <2>3, <3>1 DEF RowsFilled, SumOverIndices
    <3>5. [j \in Indices |-> At(matrixA', row, j) * place'[j + 1]]
            = [j \in Indices |-> At(matrixA, row, j) * place[j + 1]]
      BY <3>2, <2>3
    <3> QED BY <3>3, <3>4, <3>5 DEF SumOverIndices
  <2> QED BY <2>8, <2>9
<1>3. ASSUME NoRows \/ Solving \/ Crash \/ UNCHANGED vars PROVE RowsFilled'
  <2>1. UNCHANGED <<finalSatRanges, finalSatPos, place, i, matrixA, vectorB>>
    BY <1>3 DEF NoRows, Solving, Transpose, MultiplyNormal, CalcInverse, MultiplyPseudo,
                MultiplyVector, ReadResult, Crash, vars, inputs, normal
  <2>2. pc' # "call" => pc # "call"
    BY <1>3 DEF NoRows, Solving, Transpose, MultiplyNormal, CalcInverse, MultiplyPseudo,
                MultiplyVector, ReadResult, Crash, vars, Faults, Fault, Filling
  <2> QED BY <2>1, <2>2 DEF RowsFilled, AllRangesKnown, SumOverIndices
<1> QED BY <1>1, <1>2, <1>3 DEF Next, Solving

(* The transposed matrix times the matrix: with three rows the inner loop  *)
(* runs over exactly the satellites.                                       *)
LEMMA NormalStep ==
  InputsOK /\ ShapesOK /\ NormalEquations /\ [Next]_vars => NormalEquations'
<1> SUFFICES ASSUME InputsOK, ShapesOK, NormalEquations, [Next]_vars, After("normal")',
                    (nSat)' = 3
             PROVE  matrixATransposedA'.at = Gram(matrixA')
  BY DEF NormalEquations
<1>1. ASSUME MultiplyNormal PROVE matrixATransposedA'.at = Gram(matrixA')
  <2>1. PICK junk \in Junk :
          matrixATransposedA' = multiplyMatrices(matrixATransposed, matrixA, Dim, junk)
    BY <1>1 DEF MultiplyNormal
  <2>2. nSat = 3 /\ pc = "normal" /\ matrixA' = matrixA
    BY <1>1 DEF MultiplyNormal, inputs, nSat
  <2>3. /\ Shaped(matrixA, 3) /\ Shaped(matrixATransposed, 3)
        /\ matrixATransposed.at = [cell \in Cells(Dim, 3) |-> At(matrixA, cell[2], cell[1])]
    BY <2>2 DEF ShapesOK, Shaped, transpose2DimMatrix, Dim
  <2>4. ASSUME NEW cell \in Cells(Dim, Dim), NEW k \in Indices
        PROVE  Read(matrixATransposed, cell[1], k, junk) * Read(matrixA, k, cell[2], junk)
                 = At(matrixA, k, cell[1]) * At(matrixA, k, cell[2])
    <3>1. cell[1] \in Indices /\ cell[2] \in Indices /\ cell[1] \in Nat
      BY DEF Cells, Indices, Dim
    <3>2. <<cell[1], k>> \in Cells(Dim, 3)
      BY <3>1 DEF Cells, Indices, Dim
    <3>3. Inside(matrixATransposed, cell[1], k) /\ Inside(matrixA, k, cell[2])
      <4>1. \A u, v \in 0 .. 2 : u * 3 + v < 9
        OBVIOUS
      <4> QED BY <2>3, <3>1, <4>1 DEF Inside, Shaped, Indices, Dim
    <3>4. At(matrixATransposed, cell[1], k) = matrixATransposed.at[<<cell[1], k>>]
      BY <2>3, <3>1, Entry DEF At, Shaped
    <3>5. matrixATransposed.at[<<cell[1], k>>] = At(matrixA, k, cell[1])
      BY <2>3, <3>2
    <3> QED BY <3>3, <3>4, <3>5 DEF Read
  <2>5. ASSUME NEW cell \in Cells(Dim, Dim)
        PROVE  [k \in Inner |-> Read(matrixATransposed, cell[1], k, junk)
                                 * Read(matrixA, k, cell[2], junk)]
                 = [k \in Indices |-> At(matrixA, k, cell[1]) * At(matrixA, k, cell[2])]
    BY <2>4 DEF Inner
  <2>6. matrixATransposedA'.at = [cell \in Cells(Dim, Dim) |->
          SumFunction([k \in Inner |-> Read(matrixATransposed, cell[1], k, junk)
                                        * Read(matrixA, k, cell[2], junk)])]
    BY <2>1 DEF multiplyMatrices
  <2>7. Gram(matrixA') = [cell \in Cells(Dim, Dim) |->
          SumFunction([k \in Indices |-> At(matrixA, k, cell[1]) * At(matrixA, k, cell[2])])]
    BY <2>2 DEF Gram, SumOverIndices
  <2> QED BY <2>5, <2>6, <2>7
<1>2. ASSUME ~MultiplyNormal PROVE matrixATransposedA'.at = Gram(matrixA')
  <2>1. ~Call /\ ~FillRow /\ ~NoRows /\ ~Transpose /\ ~Crash
    BY DEF After, Call, FillRow, NoRows, Transpose, Crash
  <2>2. /\ UNCHANGED <<finalSatPos, matrixA, matrixATransposedA>> /\ (nSat)' = nSat
        /\ CalcInverse \/ MultiplyPseudo \/ MultiplyVector \/ ReadResult \/ pc' = pc
    BY <1>2, <2>1 DEF Next, CalcInverse, MultiplyPseudo, MultiplyVector, ReadResult, vars,
                      inputs, normal, nSat
  <2>3. After("normal")
    BY <2>2 DEF After, CalcInverse, MultiplyPseudo, MultiplyVector, ReadResult
  <2> QED BY <2>2, <2>3 DEF NormalEquations
<1> QED BY <1>1, <1>2

(* The entries of A stay numbers, and so is what becomes of them, with     *)
(* whatever is read outside the matrices.                                  *)
LEMMA EntriesStep == InputsOK /\ ShapesOK /\ EntriesOK /\ [Next]_vars => EntriesOK'
<1> SUFFICES ASSUME InputsOK, ShapesOK, EntriesOK, [Next]_vars PROVE EntriesOK'
  OBVIOUS
<1>1. CASE Call
  <2>1. pc' = "fill" /\ \E n : matrixA' = allocate2Ddouble(n, Dim)
    BY <1>1 DEF Call
  <2> QED BY <2>1 DEF EntriesOK, allocate2Ddouble
<1>2. CASE FillRow
  <2> DEFINE p == finalSatPos[MapIterator]
  <2>1. /\ DOMAIN matrixA'.at = DOMAIN matrixA.at /\ pc = "fill" /\ pc' \in {"fill", "transpose"}
        /\ \A cell \in DOMAIN matrixA.at :
             matrixA'.at[cell] \in {Coefficient(p[cell[2] + 1]), matrixA.at[cell]}
    BY <1>2 DEF FillRow, Filling
  <2>2. p \in Int \X Int \X Int
    <3>1. MapIterator \in DOMAIN finalSatPos
      BY <1>2, Counts DEF FillRow, Filling, InputsOK
    <3> QED BY <3>1, TrilaterationConstants DEF InputsOK
  <2>3. \A cell \in DOMAIN matrixA.at : cell[2] \in 0 .. 2
    BY <2>1 DEF ShapesOK, Cells, Dim
  <2>4. \A j \in 0 .. 2 : p[j + 1] \in Int
    BY <2>2
  <2> HIDE DEF p
  <2>5. \A j \in 0 .. 2 : Coefficient(p[j + 1]) \in Int
    BY <2>4 DEF Coefficient
  <2> QED BY <2>1, <2>3, <2>5 DEF EntriesOK
<1>3. CASE MultiplyNormal
  <2>1. PICK junk \in Junk :
          matrixATransposedA' = multiplyMatrices(matrixATransposed, matrixA, Dim, junk)
    BY <1>3 DEF MultiplyNormal
  <2>2. /\ pc = "normal" /\ pc' = "invert" /\ matrixA' = matrixA
        /\ junk \in Int /\ nSat \in Nat
    BY <1>3, TrilaterationConstants, Counts DEF MultiplyNormal
  <2>3. /\ matrixA.rows = nSat /\ matrixA.cols = Dim /\ DOMAIN matrixA.at = Cells(nSat, Dim)
        /\ matrixATransposed = transpose2DimMatrix(matrixA, nSat, Dim)
        /\ \A cell \in Cells(nSat, Dim) : matrixA.at[cell] \in Int
    BY <2>2 DEF ShapesOK, Shaped, EntriesOK
  <2>4. ASSUME NEW k \in Indices PROVE Read(matrixATransposed, 0, k, junk) \in Int
    BY <2>2, <2>3, ReadsTransposed
  <2>5. ASSUME NEW k \in Indices, NEW j \in Indices PROVE Read(matrixA, k, j, junk) \in Int
    <3>1. CASE Inside(matrixA, k, j)
      <4>1. k \in Nat /\ k < nSat
        BY <2>3, <3>1 DEF Inside, Indices, Dim
      <4>2. At(matrixA, k, j) = matrixA.at[<<k, j>>]
        BY <2>3, <4>1, Entry DEF At
      <4>3. <<k, j>> \in Cells(nSat, Dim)
        BY <2>2, <4>1 DEF Cells, Indices, Dim
      <4> QED BY <2>3, <3>1, <4>2, <4>3 DEF Read
    <3>2. CASE ~Inside(matrixA, k, j)
      BY <2>2, <3>2 DEF Read
    <3> QED BY <3>1, <3>2
  <2>6. ASSUME NEW j \in Indices PROVE At(matrixATransposedA', 0, j) \in Int
    <3> DEFINE f == [k \in Indices |-> Read(matrixATransposed, 0, k, junk)
                                        * Read(matrixA, k, j, junk)]
    <3>1. At(matrixATransposedA', 0, j) = matrixATransposedA'.at[<<0, j>>]
      BY <2>1, Entry DEF At, multiplyMatrices
    <3>2. <<0, j>> \in Cells(Dim, Dim) /\ <<0, j>>[1] = 0 /\ <<0, j>>[2] = j
      BY DEF Cells, Indices, Dim
    <3>3. matrixATransposedA'.at[<<0, j>>] = SumFunction(f)
      BY <2>1, <3>2 DEF multiplyMatrices, Inner
    <3>4. DOMAIN f = Indices /\ \A k \in Indices : f[k] \in Int
      BY <2>4, <2>5
    <3> HIDE DEF f
    <3>5. SumFunction(f) = f[0] + f[1] + f[2]
      BY <3>4, SumOfThree
    <3> QED BY <3>1, <3>3, <3>4, <3>5 DEF Indices, Dim
  <2>7. clacDeterminant(matrixATransposedA', Dim) \in Int
    BY <2>6, DeterminantIsInt
  <2> QED BY <2>2, <2>7 DEF EntriesOK
<1>4. ASSUME NoRows \/ Transpose \/ CalcInverse \/ MultiplyPseudo \/ MultiplyVector
             \/ ReadResult \/ Crash \/ UNCHANGED vars
      PROVE  EntriesOK'
  <2>1. UNCHANGED <<matrixA, matrixATransposedA>>
    BY <1>4 DEF NoRows, Transpose, CalcInverse, MultiplyPseudo, MultiplyVector, ReadResult,
                Crash, vars, normal
  <2>2. /\ pc' # "call" => pc # "call"
        /\ pc' \in {"invert", "pseudo", "vector", "return", "done"} =>
             pc \in {"invert", "pseudo", "vector", "return", "done"}
    BY <1>4 DEF NoRows, Transpose, CalcInverse, MultiplyPseudo, MultiplyVector, ReadResult,
                Crash, vars, Faults, Fault, Filling
  <2> QED BY <2>1, <2>2 DEF EntriesOK
<1> QED BY <1>1, <1>2, <1>3, <1>4 DEF Next

(* What is read as null is the inverse of a matrix whose determinant is    *)
(* lost in an int, or does not fit it; any other has an inverse.           *)
LEMMA NullStep == InputsOK /\ ShapesOK /\ EntriesOK /\ NullEnds /\ [Next]_vars => NullEnds'
<1> SUFFICES ASSUME InputsOK, ShapesOK, EntriesOK, NullEnds, [Next]_vars PROVE NullEnds'
  OBVIOUS
<1> DEFINE d == clacDeterminant(matrixATransposedA, Dim)
<1>1. ASSUME pc = "pseudo", nSat > 0
      PROVE  IF matrixATransposedAInverse = NullMatrix THEN Small(d) \/ ~Fits(d) ELSE ~Small(d)
  <2>1. /\ det \in ToInt(d, One, IntMax) /\ d \in Int
        /\ matrixATransposedAInverse = calcInverse(matrixATransposedA, nSat, det)
    BY <1>1 DEF ShapesOK, EntriesOK
  <2> HIDE DEF d
  <2>2. nSat # 0
    BY <1>1, Counts
  <2>3. matrixATransposedAInverse = NullMatrix <=> det = 0
    BY <2>1, <2>2 DEF calcInverse, calcAdjoint, NullMatrix
  <2>4. CutTo(d, One) = 0 => CutTo(d, One) \in Ints(IntMax)
    BY TrilaterationConstants DEF Ints
  <2>5. /\ CutTo(d, One) \in Ints(IntMax) => det = CutTo(d, One)
    BY <2>1 DEF ToInt
  <2> QED BY <2>1, <2>3, <2>4, <2>5, CutIsExact
<1>2. "null" \in Faults => pc = "pseudo" /\ matrixATransposedAInverse = NullMatrix /\ nSat > 0
  BY DEF Faults, Fault
<1>3. ASSUME "null" \in faults'
      PROVE  pc' = "crashed" /\ (Small(d') \/ ~Fits(d'))
  <2>1. CASE "null" \in faults
    <3>1. pc = "crashed" /\ (Small(d) \/ ~Fits(d))
      BY <2>1 DEF NullEnds
    <3>2. UNCHANGED vars
      BY <3>1 DEF Next, Call, FillRow, Filling, NoRows, Transpose, MultiplyNormal, CalcInverse,
                  MultiplyPseudo, MultiplyVector, ReadResult, Crash, Faults, Fault
    <3> QED BY <3>1, <3>2 DEF vars, normal
  <2>2. CASE "null" \notin faults
    <3>1. "null" \in Faults
      BY <1>3, <2>2 DEF Next, Call, FillRow, NoRows, Transpose, MultiplyNormal, CalcInverse,
                  MultiplyPseudo, MultiplyVector, ReadResult, Crash, Record, vars
    <3>2. Crash
      BY <1>2, <1>3, <2>2, <3>1 DEF Next, Call, FillRow, Filling, NoRows, Transpose,
                  MultiplyNormal, CalcInverse, MultiplyPseudo, MultiplyVector, ReadResult, vars
    <3> QED BY <1>1, <1>2, <3>1, <3>2 DEF Crash, normal
  <2> QED BY <2>1, <2>2
<1>4. ASSUME After("pseudo")', (nSat)' > 0 PROVE ~Small(d')
  <2>1. pc' \in {"vector", "return", "done"}
    BY <1>4 DEF After
  <2>2. /\ (nSat)' = nSat /\ matrixATransposedA' = matrixATransposedA
        /\ (pc = "pseudo" /\ "null" \notin Faults) \/ pc \in {"vector", "return", "done"}
    BY <2>1 DEF Next, Call, FillRow, NoRows, Transpose, MultiplyNormal, CalcInverse,
                MultiplyPseudo, MultiplyVector, ReadResult, Crash, vars, inputs, normal, nSat
  <2>3. CASE pc = "pseudo" /\ "null" \notin Faults
    <3>1. matrixATransposedAInverse # NullMatrix
      BY <1>4, <2>2, <2>3 DEF Faults, Fault, Kinds
    <3> QED BY <1>1, <1>4, <2>2, <2>3, <3>1
  <2>4. CASE pc \in {"vector", "return", "done"}
    <3>1. After("pseudo")
      BY <2>4 DEF After
    <3> QED BY <1>4, <2>2, <3>1 DEF NullEnds
  <2> QED BY <2>2, <2>3, <2>4
<1> QED BY <1>3, <1>4 DEF NullEnds

(* The invariant of the call.                                              *)
THEOREM Invariance == Spec => []Inv
<1>1. Inv /\ [Next]_vars => Inv'
  BY InputsStep, ShapesStep, EntriesStep, ThreeStep, RowsStep, NormalStep, NullStep DEF Inv
<1> QED BY InitInv, <1>1, PTL DEF Spec

-----------------------------------------------------------------------------
(* What follows from it                                                    *)

(* With exactly three satellites no loop leaves a matrix or vectorB,       *)
(* wherever the satellites are and whatever the ranges.                    *)
THEOREM ThreeStayInsideCorrect == Spec => []ThreeStayInside
<1>1. Inv => ThreeStayInside
  BY DEF Inv
<1> QED BY Invariance, <1>1, PTL

(* With exact ranges each row is satisfied by the point opposite the user, *)
(* for any satellites, any user on the sphere and any order of ids.        *)
THEOREM RowsCorrect == Spec => []RowsDescribeAntipode
<1>1. Inv => RowsDescribeAntipode
  <2> SUFFICES ASSUME Inv, After("fill"), AllRangesKnown, NEW row \in 0 .. nSat - 1, row < Dim
               PROVE  SumOverIndices(LAMBDA j : At(matrixA, row, j) * place[j + 1])
                        = -vectorB[row]
    BY DEF RowsDescribeAntipode, SumOverIndices
  <2>1. pc \notin {"call", "fill", "crashed"}
    BY DEF After
  <2>2. i = nSat
    BY <2>1, Counts DEF Inv, InputsOK
  <2> QED BY <2>1, <2>2 DEF Inv, RowsFilled, SumOverIndices
<1> QED BY Invariance, <1>1, PTL

(* The matrix that is inverted for three satellites is that of the normal  *)
(* equations, whatever was read on the way.                                *)
THEOREM NormalCorrect == Spec => []NormalEquations
<1>1. Inv => NormalEquations
  BY DEF Inv
<1> QED BY Invariance, <1>1, PTL

(* The null pointer that is read is the inverse of a matrix whose          *)
(* determinant is less than 1 either way, or does not fit an int; a matrix *)
(* with a smaller determinant never gets any further.                      *)
THEOREM NullCorrect == Spec => []SmallIsSingular
<1>1. Inv => SmallIsSingular
  BY DEF Inv, NullEnds, SmallIsSingular, Small, Fits
<1> QED BY Invariance, <1>1, PTL
=============================================================================
