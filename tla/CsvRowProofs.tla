---------------------------- MODULE CsvRowProofs ----------------------------
(***************************************************************************)
(* What read_row() makes of a line, whatever its texts: what was written   *)
(* in a column is what is read in it, a number is the one that is written  *)
(* or what the overflow policy says, and a column that does not convert    *)
(* leaves the ones before it read and the ones behind it untouched.        *)
(* Proved for every value of the constants.                                *)
(***************************************************************************)
EXTENDS CsvRow, SequenceTheorems, FiniteSetTheorems, WellFoundedInduction, TLAPS

-----------------------------------------------------------------------------
(* Numbers and sequences                                                   *)

Less == {ss \in Nat \X Nat : ss[1] < ss[2]}

(* A set of natural numbers that is not empty has a smallest one.          *)
LEMMA SmallestExists ==
  ASSUME NEW S \in SUBSET Nat, S # {}
  PROVE  \E a \in S : \A y \in S : a <= y
<1>1. IsWellFoundedOn(Less, Nat)
  BY NatLessThanWellFounded DEF OpToRel, Less
<1>2. PICK a \in S : \A y \in S : ~(<<y, a>> \in Less)
  BY <1>1, WFMin
<1>3. ASSUME NEW y \in S PROVE a <= y
  <2>1. <<y, a>> \in Nat \X Nat /\ <<y, a>>[1] = y /\ <<y, a>>[2] = a
    OBVIOUS
  <2>2. ~(y < a)
    BY <2>1, <1>2 DEF Less
  <2> QED BY <2>2
<1> QED BY <1>3

LEMMA Least ==
  ASSUME NEW S \in SUBSET Nat, S # {}
  PROVE  Min(S) \in S /\ \A y \in S : Min(S) <= y
  BY SmallestExists DEF Min

(* The largest number of a set that has a bound.                           *)
LEMMA Largest ==
  ASSUME NEW S \in SUBSET Nat, NEW m \in Nat, \A y \in S : y <= m, S # {}
  PROVE  Max(S) \in S /\ \A y \in S : y <= Max(S)
<1> DEFINE T == {k \in 0 .. m : m - k \in S}
<1>1. T \in SUBSET Nat
  OBVIOUS
<1>2. T # {}
  <2>1. PICK y \in S : TRUE
    OBVIOUS
  <2>2. m - (m - y) = y /\ m - y \in 0 .. m
    OBVIOUS
  <2> QED BY <2>1, <2>2
<1>3. PICK t \in T : \A u \in T : t <= u
  BY <1>1, <1>2, SmallestExists
<1>4. ASSUME NEW y \in S PROVE y <= m - t
  <2>1. m - (m - y) = y /\ m - y \in 0 .. m
    OBVIOUS
  <2>2. t <= m - y
    BY <2>1, <1>3
  <2> QED BY <2>2, <1>3
<1>5. m - t \in S
  BY <1>3
<1> QED BY <1>4, <1>5 DEF Max

(* What is defined from one number to the next is defined up to any.       *)
Steps(S, first, n, step, f) ==
  f \in [0 .. n -> S] /\ f[0] = first /\ \A k \in 1 .. n : f[k] = step[k][f[k - 1]]

LEMMA StepsExist ==
  ASSUME NEW S, NEW first \in S, NEW n \in Nat, NEW step \in [1 .. n -> [S -> S]]
  PROVE  \E f : Steps(S, first, n, step, f)
<1> DEFINE Upto(m) == \E f \in [0 .. m -> S] :
                        f[0] = first /\ \A k \in 1 .. m : f[k] = step[k][f[k - 1]]
           None    == {m \in 0 .. n : ~Upto(m)}
<1>1. Upto(0)
  <2> DEFINE f0 == [k \in 0 .. 0 |-> first]
  <2>1. f0 \in [0 .. 0 -> S] /\ f0[0] = first /\ \A k \in 1 .. 0 : FALSE
    OBVIOUS
  <2> HIDE DEF f0
  <2> QED BY <2>1
<1>2. ASSUME NEW m \in 0 .. n, m + 1 <= n, Upto(m)
      PROVE  Upto(m + 1)
  <2>1. PICK f \in [0 .. m -> S] :
               f[0] = first /\ \A k \in 1 .. m : f[k] = step[k][f[k - 1]]
    BY <1>2
  <2> DEFINE g == [k \in 0 .. m + 1 |-> IF k = m + 1 THEN step[m + 1][f[m]] ELSE f[k]]
  <2>2. m + 1 \in 1 .. n /\ f[m] \in S
    BY <1>2
  <2>3. g \in [0 .. m + 1 -> S] /\ g[0] = first
    BY <2>1, <2>2
  <2>4. ASSUME NEW k \in 1 .. m + 1 PROVE g[k] = step[k][g[k - 1]]
    BY <2>1, <2>2
  <2> QED BY <2>3, <2>4
<1> HIDE DEF Upto
<1>3. None = {}
  <2> SUFFICES ASSUME None # {} PROVE FALSE
    OBVIOUS
  <2>1. None \in SUBSET Nat
    OBVIOUS
  <2>2. PICK m \in None : \A y \in None : m <= y
    BY <2>1, SmallestExists
  <2>3. m # 0 /\ m \in 0 .. n
    BY <1>1, <2>2
  <2>4. m - 1 \in 0 .. n /\ m - 1 \notin None
    BY <2>2, <2>3
  <2>5. Upto(m - 1)
    BY <2>4
  <2>6. Upto((m - 1) + 1)
    BY <1>2, <2>3, <2>4, <2>5
  <2> QED BY <2>2, <2>3, <2>6
<1>4. Upto(n)
  BY <1>3
<1> QED BY <1>4 DEF Upto, Steps

LEMMA SameSequence ==
  ASSUME NEW T, NEW s \in Seq(T), NEW t \in Seq(T), Len(s) = Len(t),
         \A k \in 1 .. Len(s) : s[k] = t[k]
  PROVE  s = t
<1>1. s = [k \in 1 .. Len(s) |-> s[k]] /\ t = [k \in 1 .. Len(t) |-> t[k]]
  OBVIOUS
<1> QED BY <1>1

LEMMA SubSeqIs ==
  ASSUME NEW T, NEW s \in Seq(T), NEW n \in 0 .. Len(s), NEW m \in 1 .. n + 1
  PROVE  /\ SubSeq(s, m, n) \in Seq(T) /\ Len(SubSeq(s, m, n)) = n - m + 1
         /\ \A j \in 1 .. n - m + 1 : SubSeq(s, m, n)[j] = s[m - 1 + j]
  OBVIOUS

(* The end of a text.                                                      *)
Rest(s, k) == SubSeq(s, k + 1, Len(s))

LEMMA RestIs ==
  ASSUME NEW T, NEW s \in Seq(T), NEW k \in 0 .. Len(s)
  PROVE  /\ Rest(s, k) \in Seq(T) /\ Len(Rest(s, k)) = Len(s) - k
         /\ (Rest(s, k) = <<>>) <=> (k = Len(s))
         /\ k < Len(s) => /\ Head(Rest(s, k)) = s[k + 1]
                          /\ Tail(Rest(s, k)) = Rest(s, k + 1)
         /\ Rest(s, 0) = s
<1>1. Rest(s, k) \in Seq(T) /\ Len(Rest(s, k)) = Len(s) - k
      /\ \A m \in 1 .. Len(s) - k : Rest(s, k)[m] = s[k + m]
  BY DEF Rest
<1>2. (Rest(s, k) = <<>>) <=> (k = Len(s))
  BY <1>1
<1>3. ASSUME k < Len(s)
      PROVE  Head(Rest(s, k)) = s[k + 1] /\ Tail(Rest(s, k)) = Rest(s, k + 1)
  <2>1. Head(Rest(s, k)) = s[k + 1]
    BY <1>1, <1>3
  <2>2. Len(Tail(Rest(s, k))) = Len(s) - k - 1 /\ Tail(Rest(s, k)) \in Seq(T)
        /\ \A m \in 1 .. Len(s) - k - 1 : Tail(Rest(s, k))[m] = s[k + 1 + m]
    BY <1>1, <1>3
  <2>3. Rest(s, k + 1) \in Seq(T) /\ Len(Rest(s, k + 1)) = Len(s) - k - 1
        /\ \A m \in 1 .. Len(s) - k - 1 : Rest(s, k + 1)[m] = s[k + 1 + m]
    BY <1>3 DEF Rest
  <2>4. Tail(Rest(s, k)) = Rest(s, k + 1)
    BY <2>2, <2>3, SameSequence
  <2> QED BY <2>1, <2>4
<1>4. Rest(s, 0) = s
  BY DEF Rest
<1> QED BY <1>1, <1>2, <1>3, <1>4

(* Sequences put together are a sequence of the same things.               *)
LEMMA FlattenIs ==
  ASSUME NEW T, NEW ss \in Seq(Seq(T))
  PROVE  \E f \in [0 .. Len(ss) -> Seq(T)] :
           /\ f[0] = <<>> /\ FlattenSeq(ss) = f[Len(ss)]
           /\ \A k \in 1 .. Len(ss) : f[k] = f[k - 1] \o ss[k]
<1> DEFINE n == Len(ss)
<1>1. n \in Nat /\ \A k \in 1 .. n : ss[k] \in Seq(T)
  OBVIOUS
<1> HIDE DEF n
<1>2. PICK f \in [0 .. n -> Seq(T)] :
             f[0] = <<>> /\ \A k \in 1 .. n : f[k] = f[k - 1] \o ss[k]
  <2> DEFINE S    == Seq(T)
             none == <<>>
             step == [k \in 1 .. n |-> [s \in S |-> s \o ss[k]]]
  <2>1. step \in [1 .. n -> [S -> S]]
    BY <1>1
  <2>2. none \in S /\ n \in Nat
    BY <1>1
  <2> HIDE DEF step, S, none
  <2>3. PICK f : Steps(S, none, n, step, f)
    BY <2>1, <2>2, StepsExist
  <2>4. ASSUME NEW k \in 1 .. n PROVE f[k] = f[k - 1] \o ss[k]
    <3>1. k - 1 \in 0 .. n /\ f[k] = step[k][f[k - 1]]
      BY <1>1, <2>3 DEF Steps
    <3>2. f[k - 1] \in S
      BY <3>1, <2>3 DEF Steps
    <3> QED BY <3>1, <3>2 DEF step
  <2> QED BY <2>3, <2>4 DEF S, none, Steps
<1>3. CASE n = 0
  <2>1. ss = <<>>
    BY <1>3 DEF n
  <2> QED BY <1>2, <1>3, <2>1 DEF FlattenSeq, n
<1>4. CASE n > 0
  <2> DEFINE Is(h) == h = [k \in 1 .. n |-> IF k = 1 THEN ss[k] ELSE h[k - 1] \o ss[k]]
             g     == CHOOSE h : Is(h)
             h0    == [k \in 1 .. n |-> f[k]]
  <2>1. /\ f[1] = ss[1] /\ 1 \in 1 .. n /\ n \in 1 .. n
        /\ \A k \in 1 .. n : k # 1 => k - 1 \in 1 .. n
    <3>1. 1 \in 1 .. n /\ n \in 1 .. n /\ \A k \in 1 .. n : k # 1 => k - 1 \in 1 .. n
      BY <1>1, <1>4
    <3>2. ss[1] \in Seq(T) /\ f[1] = f[1 - 1] \o ss[1]
      BY <3>1, <1>1, <1>2
    <3>3. <<>> \o ss[1] = ss[1] /\ f[1 - 1] = <<>>
      BY <3>2, <1>2
    <3> QED BY <3>1, <3>2, <3>3
  <2>2. Is(h0)
    <3>1. ASSUME NEW k \in 1 .. n
          PROVE  h0[k] = IF k = 1 THEN ss[k] ELSE h0[k - 1] \o ss[k]
      BY <2>1, <1>2
    <3> QED BY <3>1
  <2>3. Is(g)
    BY <2>2
  <2>4. ASSUME NEW k \in 1 .. n PROVE g[k] = IF k = 1 THEN ss[k] ELSE g[k - 1] \o ss[k]
    BY <2>3
  <2>5. FlattenSeq(ss) = g[n]
    BY <1>4 DEF FlattenSeq, n
  <2> HIDE DEF g
  <2>6. ASSUME {k \in 1 .. n : g[k] # f[k]} # {} PROVE FALSE
    <3> DEFINE Off == {k \in 1 .. n : g[k] # f[k]}
    <3>1. Off \in SUBSET Nat /\ Off # {}
      BY <1>1, <2>6
    <3>2. PICK k \in Off : \A j \in Off : k <= j
      BY <3>1, SmallestExists
    <3>3. g[k] # f[k] /\ k \in 1 .. n
      BY <3>2
    <3>4. k # 1 => k - 1 \in 1 .. n /\ ~(k <= k - 1)
      BY <3>3, <2>1, <1>1
    <3>5. k # 1 => g[k - 1] = f[k - 1]
      BY <3>2, <3>4
    <3> HIDE DEF Off, Is, h0
    <3>6. k = 1 => g[k] = ss[1] /\ f[k] = ss[1]
      BY <3>3, <2>1, <2>4
    <3>7. k # 1 => g[k] = g[k - 1] \o ss[k] /\ f[k] = f[k - 1] \o ss[k]
      BY <3>3, <2>4, <1>2
    <3> QED BY <3>3, <3>5, <3>6, <3>7
  <2>7. g[n] = f[n]
    BY <2>6, <2>1
  <2> QED BY <1>2, <2>5, <2>7 DEF n
<1>5. n = 0 \/ n > 0
  BY <1>1
<1> QED BY <1>3, <1>4, <1>5

-----------------------------------------------------------------------------
(* The value of digits                                                     *)

LEMMA DigitIs ==
  ASSUME NEW c \in Digits
  PROVE  DigitOf[c] \in 0 .. 9
  BY DEF Digits, DigitOf

LEMMA MarksAreNoDigits ==
  /\ \A c \in Digits : c \notin Points /\ c \notin {"-", "+", "e", "E", "NUL"}
  /\ \A c \in Points : c \notin {"-", "+", "e", "E", "NUL"}
  BY Zenon DEF Digits, DigitOf, Points

(* The values of the beginnings of a text of n digits, one from the other. *)
IsValues(s, n, f) ==
  /\ f \in [0 .. n -> Nat] /\ f[0] = 0
  /\ \A k \in 1 .. n : f[k] = 10 * f[k - 1] + DigitOf[s[k]]

LEMMA ValuesExist ==
  ASSUME NEW s, NEW n \in Nat, \A k \in 1 .. n : s[k] \in Digits
  PROVE  \E f : IsValues(s, n, f)
<1> DEFINE step == [k \in 1 .. n |-> [v \in Nat |-> 10 * v + DigitOf[s[k]]]]
<1>1. step \in [1 .. n -> [Nat -> Nat]]
  <2>1. ASSUME NEW k \in 1 .. n, NEW v \in Nat PROVE 10 * v + DigitOf[s[k]] \in Nat
    BY DigitIs
  <2> QED BY <2>1
<1> HIDE DEF step
<1>2. PICK f : Steps(Nat, 0, n, step, f)
  BY <1>1, StepsExist
<1>3. ASSUME NEW k \in 1 .. n PROVE f[k] = 10 * f[k - 1] + DigitOf[s[k]]
  <2>1. f[k] = step[k][f[k - 1]] /\ f[k - 1] \in Nat
    BY <1>2 DEF Steps
  <2> QED BY <2>1 DEF step
<1> QED BY <1>2, <1>3 DEF Steps, IsValues

(* Two such rows of values are the same where both go.                     *)
BeginAlike(s, t, m) == \A k \in 1 .. m : s[k] = t[k]

LEMMA ValuesAgree ==
  ASSUME NEW s, NEW t, NEW m \in Nat, NEW n \in Nat, m <= n, BeginAlike(s, t, m),
         NEW f, IsValues(s, m, f), NEW g, IsValues(t, n, g)
  PROVE  f[m] = g[m]
<1> DEFINE Off == {k \in 0 .. m : f[k] # g[k]}
<1>1. ASSUME Off # {} PROVE FALSE
  <2>1. Off \in SUBSET Nat
    OBVIOUS
  <2>2. PICK k \in Off : \A j \in Off : k <= j
    BY <1>1, <2>1, SmallestExists
  <2>3. k \in 0 .. m /\ f[k] # g[k] /\ k # 0
    BY <2>2 DEF IsValues
  <2>4. k - 1 \in 0 .. m /\ k - 1 \notin Off /\ k \in 1 .. m /\ k \in 1 .. n
    BY <2>2, <2>3
  <2>5. f[k - 1] = g[k - 1]
    BY <2>4
  <2> QED BY <2>3, <2>4, <2>5 DEF IsValues, BeginAlike
<1> QED BY <1>1

LEMMA ValueOf ==
  ASSUME NEW s, Len(s) \in Nat, NEW f, IsValues(s, Len(s), f)
  PROVE  Value(s) = f[Len(s)]
<1> DEFINE n     == Len(s)
           Is(h) == h = [k \in 0 .. n |-> IF k = 0 THEN 0 ELSE 10 * h[k - 1] + DigitOf[s[k]]]
           to    == CHOOSE h : Is(h)
<1>1. Is(f)
  BY DEF IsValues
<1>2. Is(to)
  BY <1>1
<1>3. Value(s) = to[n]
  BY DEF Value
<1> HIDE DEF to
<1>4. to[0] = 0 /\ \A k \in 1 .. n : to[k] = 10 * to[k - 1] + DigitOf[s[k]]
  BY <1>2
<1> DEFINE Off == {k \in 0 .. n : to[k] # f[k]}
<1>5. ASSUME Off # {} PROVE FALSE
  <2>1. Off \in SUBSET Nat
    OBVIOUS
  <2>2. PICK k \in Off : \A j \in Off : k <= j
    BY <1>5, <2>1, SmallestExists
  <2>3. k \in 0 .. n /\ to[k] # f[k] /\ k # 0
    BY <2>2, <1>4 DEF IsValues
  <2>4. k - 1 \in 0 .. n /\ k - 1 \notin Off /\ k \in 1 .. n
    BY <2>2, <2>3
  <2>5. to[k - 1] = f[k - 1]
    BY <2>4
  <2> QED BY <2>3, <2>4, <2>5, <1>4 DEF IsValues
<1> QED BY <1>3, <1>5

(* The value of the first n digits of a text.                              *)
LEMMA ValueIs ==
  ASSUME NEW T, NEW s \in Seq(T), NEW n \in 0 .. Len(s), \A k \in 1 .. n : s[k] \in Digits
  PROVE  /\ Value(SubSeq(s, 1, n)) \in Nat
         /\ n = 0 => Value(SubSeq(s, 1, n)) = 0
         /\ n > 0 => /\ Value(SubSeq(s, 1, n - 1)) \in Nat
                     /\ Value(SubSeq(s, 1, n)) =
                          10 * Value(SubSeq(s, 1, n - 1)) + DigitOf[s[n]]
<1>1. n \in Nat
  OBVIOUS
<1>2. PICK g : IsValues(s, n, g)
  BY <1>1, ValuesExist
<1>3. ASSUME NEW m \in 0 .. n PROVE Value(SubSeq(s, 1, m)) = g[m] /\ g[m] \in Nat
  <2> DEFINE t == SubSeq(s, 1, m)
  <2>1. Len(t) = m /\ m \in Nat /\ \A k \in 1 .. m : t[k] = s[k] /\ t[k] \in Digits
    OBVIOUS
  <2> HIDE DEF t
  <2>2. PICK f : IsValues(t, m, f)
    BY <2>1, ValuesExist
  <2>3. f[m] = g[m]
    <3>1. m \in Nat /\ n \in Nat /\ m <= n /\ BeginAlike(t, s, m)
      BY <1>1, <2>1 DEF BeginAlike
    <3> QED BY ONLY <3>1, <1>2, <2>2, ValuesAgree
  <2>4. Value(t) = f[m]
    BY <2>1, <2>2, ValueOf
  <2>5. g[m] \in Nat
    BY <1>2 DEF IsValues
  <2> QED BY <2>3, <2>4, <2>5 DEF t
<1>4. n > 0 => n - 1 \in 0 .. n /\ n \in 1 .. n
  BY <1>1
<1> QED BY <1>1, <1>2, <1>3, <1>4 DEF IsValues

(* More digits are not less.                                               *)
LEMMA ValueGrows ==
  ASSUME NEW T, NEW s \in Seq(T), NEW m \in Nat, NEW n \in Nat, m <= n, n <= Len(s),
         \A k \in 1 .. n : s[k] \in Digits
  PROVE  /\ Value(SubSeq(s, 1, m)) <= Value(SubSeq(s, 1, n))
         /\ Value(SubSeq(s, 1, m)) \in Nat /\ Value(SubSeq(s, 1, n)) \in Nat
<1> DEFINE v(k) == Value(SubSeq(s, 1, k))
           Off  == {k \in m .. n : ~(v(m) <= v(k))}
<1>1. ASSUME NEW k \in 0 .. n
      PROVE  v(k) \in Nat /\ (k > 0 => v(k - 1) \in Nat /\ v(k) >= v(k - 1))
  <2>1. k \in 0 .. Len(s) /\ \A j \in 1 .. k : s[j] \in Digits
    OBVIOUS
  <2>2. k > 0 => DigitOf[s[k]] \in 0 .. 9
    BY <2>1, DigitIs
  <2> DEFINE a == v(k - 1)
             b == v(k)
             d == DigitOf[s[k]]
  <2>3. b \in Nat /\ (k > 0 => a \in Nat /\ b = 10 * a + d)
    BY <2>1, ValueIs
  <2>4. k > 0 => d \in 0 .. 9
    BY <2>2
  <2> HIDE DEF a, b, d
  <2>5. b \in Nat /\ (k > 0 => a \in Nat /\ b >= a)
    <3>1. ASSUME k > 0 PROVE a \in Nat /\ b >= a
      <4>1. a \in Nat /\ d \in 0 .. 9 /\ b = 10 * a + d
        BY <2>3, <2>4, <3>1
      <4> QED BY <4>1
    <3> QED BY <2>3, <3>1
  <2> QED BY <2>5 DEF a, b
<1> HIDE DEF v
<1>2. ASSUME Off # {} PROVE FALSE
  <2>1. Off \in SUBSET Nat
    OBVIOUS
  <2>2. PICK k \in Off : \A j \in Off : k <= j
    BY <1>2, <2>1, SmallestExists
  <2>3. k \in m .. n /\ ~(v(m) <= v(k))
    BY <2>2
  <2>4. k # m
    BY <2>3, <1>1
  <2>5. k - 1 \in m .. n /\ k - 1 \notin Off /\ k \in 0 .. n /\ k > 0
    BY <2>2, <2>3, <2>4
  <2>6. v(m) <= v(k - 1)
    BY <2>5
  <2> QED BY <2>3, <2>5, <2>6, <1>1
<1>3. v(m) <= v(n)
  BY <1>2
<1> QED BY <1>1, <1>3 DEF v

(* The digits of a number from its first that is not 0.                    *)
LEMMA NoSize ==
  ASSUME NEW T, NEW s \in Seq(T)
  PROVE  Size(SubSeq(s, 1, 0)) = 0
<1>1. DOMAIN SubSeq(s, 1, 0) = {}
  OBVIOUS
<1>2. {k \in DOMAIN SubSeq(s, 1, 0) : Value(SubSeq(SubSeq(s, 1, 0), 1, k)) > 0} = {}
  BY <1>1
<1> QED BY <1>2, FS_EmptySet DEF Size

LEMMA SizeAppend ==
  ASSUME NEW T, NEW t \in Seq(T), NEW u \in Seq(T), NEW n \in Nat, Len(t) = n, Len(u) = n + 1,
         \A j \in 1 .. n : u[j] = t[j], Value(u) \in Nat
  PROVE  Size(t) \in Nat /\ Size(u) = IF Value(u) = 0 THEN Size(t) ELSE Size(t) + 1
<1> DEFINE S(v) == {k \in DOMAIN v : Value(SubSeq(v, 1, k)) > 0}
<1>1. DOMAIN t = 1 .. n /\ DOMAIN u = 1 .. n + 1
  OBVIOUS
<1>2. SubSeq(u, 1, n + 1) = u
  OBVIOUS
<1>3. ASSUME NEW k \in 1 .. n PROVE SubSeq(u, 1, k) = SubSeq(t, 1, k)
  <2>1. /\ SubSeq(u, 1, k) \in Seq(T) /\ Len(SubSeq(u, 1, k)) = k
        /\ \A j \in 1 .. k : SubSeq(u, 1, k)[j] = u[j]
    OBVIOUS
  <2>2. /\ SubSeq(t, 1, k) \in Seq(T) /\ Len(SubSeq(t, 1, k)) = k
        /\ \A j \in 1 .. k : SubSeq(t, 1, k)[j] = t[j]
    OBVIOUS
  <2> QED BY <2>1, <2>2, SameSequence
<1>4. S(u) = IF Value(u) = 0 THEN S(t) ELSE S(t) \cup {n + 1}
  <2>1. ASSUME NEW k \in 1 .. n PROVE k \in S(u) <=> k \in S(t)
    <3>1. k \in 1 .. n + 1
      OBVIOUS
    <3>2. /\ k \in S(u) <=> Value(SubSeq(u, 1, k)) > 0
          /\ k \in S(t) <=> Value(SubSeq(t, 1, k)) > 0
      BY <1>1, <3>1, Zenon
    <3> QED BY <1>3, <3>2, Zenon
  <2>2. n + 1 \in S(u) <=> Value(u) # 0
    <3>1. n + 1 \in 1 .. n + 1 /\ (Value(u) > 0 <=> Value(u) # 0)
      OBVIOUS
    <3>2. n + 1 \in S(u) <=> Value(SubSeq(u, 1, n + 1)) > 0
      BY <1>1, <3>1, Zenon
    <3> QED BY <1>2, <3>1, <3>2, Zenon
  <2>3. n + 1 \notin S(t) /\ S(t) \subseteq 1 .. n /\ S(u) \subseteq 1 .. n + 1
    BY <1>1
  <2>4. \A k \in 1 .. n + 1 : k \in 1 .. n \/ k = n + 1
    OBVIOUS
  <2> HIDE DEF S
  <2>5. S(u) \subseteq S(t) \cup {n + 1} /\ S(t) \subseteq S(u)
    BY <2>1, <2>3, <2>4
  <2>6. CASE Value(u) = 0
    <3>1. n + 1 \notin S(u)
      BY <2>2, <2>6, Zenon
    <3>2. S(u) = S(t)
      BY <2>5, <3>1, Zenon
    <3> QED BY <2>6, <3>2, Zenon
  <2>7. CASE Value(u) # 0
    BY <2>2, <2>5, <2>7
  <2> QED BY <2>6, <2>7
<1>5. IsFiniteSet(S(t)) /\ n + 1 \notin S(t)
  <2>1. S(t) \in SUBSET (1 .. n) /\ IsFiniteSet(1 .. n)
    BY <1>1, FS_Interval
  <2>2. IsFiniteSet(S(t))
    <3> HIDE DEF S
    <3> QED BY <2>1, FS_Subset
  <2> QED BY <1>1, <2>2
<1> HIDE DEF S
<1>6. Cardinality(S(t)) \in Nat
  BY <1>5, FS_CardinalityType
<1>7. Cardinality(S(t) \cup {n + 1}) = Cardinality(S(t)) + 1
  BY <1>5, FS_AddElement
<1>8. Size(t) = Cardinality(S(t)) /\ Size(u) = Cardinality(S(u))
  BY DEF Size, S
<1> QED BY <1>4, <1>6, <1>7, <1>8

-----------------------------------------------------------------------------
(* Types                                                                   *)

Text == Seq(Letters)
Field == [text : Text, quoted : BOOLEAN, padded : BOOLEAN]

InputsOK ==
  /\ fields \in Seq(Field) /\ fields # <<>> /\ escape \in BOOLEAN
  /\ overflow \in {"throw", "ignore", "max"} /\ types \in Seq(Types)
  /\ col_order \in Seq(DOMAIN types \cup {-1})
  /\ \A j, k \in DOMAIN col_order : col_order[j] = col_order[k] /\ col_order[j] # -1 => j = k

TypesOK ==
  /\ InputsOK
  /\ pc \in {"cut", "next", "digits", "assign", "whole", "fraction", "power", "raise", "thrown"}
  /\ line \in Text \cup {Null} /\ i \in Nat \ {0} /\ row \in [DOMAIN types -> Text \cup {Null}]
  /\ r \in 1 .. Len(types) + 1 /\ col \in Text /\ DOMAIN cols = DOMAIN types

LEMMA CharTexts ==
  /\ <<>> \in Text
  /\ \A c \in Letters : <<c>> \in Text /\ <<c, c>> \in Text
  /\ Quote \in Letters /\ Blank \in Letters /\ Sep \in Letters
<1>1. Quote \in Letters /\ Blank \in Letters /\ Sep \in Letters
  BY RowConstants
<1>2. ASSUME NEW c \in Letters PROVE <<c>> \in Text /\ <<c, c>> \in Text
  BY DEF Text
<1> QED BY <1>1, <1>2 DEF Text

LEMMA NullIsNoText == Null \notin Text
<1> SUFFICES ASSUME Null \in Text PROVE FALSE
  OBVIOUS
<1>1. Null[1] \in Letters
  BY DEF Null, Text
<1> QED BY <1>1, RowConstants DEF Null

LEMMA JoinTexts ==
  ASSUME NEW s \in Text, NEW t \in Text
  PROVE  /\ s \o t \in Text /\ Len(s \o t) = Len(s) + Len(t) /\ Len(s) \in Nat /\ Len(t) \in Nat
         /\ \A n \in 1 .. Len(s) : (s \o t)[n] = s[n]
         /\ \A n \in Len(s) + 1 .. Len(s) + Len(t) : (s \o t)[n] = t[n - Len(s)]
  BY DEF Text

LEMMA TrimIs ==
  ASSUME NEW s \in Text
  PROVE  Trim(s) \in Text
<1> DEFINE kept == {n \in DOMAIN s : s[n] # Blank}
<1>1. kept \in SUBSET Nat /\ Len(s) \in Nat /\ kept \subseteq 1 .. Len(s)
  BY DEF Text
<1>2. CASE kept = {}
  BY <1>2 DEF Trim, Text
<1>3. CASE kept # {}
  <2>1. Min(kept) \in 1 .. Len(s) /\ Max(kept) \in 1 .. Len(s)
    <3>1. Min(kept) \in kept
      BY <1>1, <1>3, Least
    <3>2. Max(kept) \in kept
      <4>1. \A n \in kept : n <= Len(s)
        BY <1>1
      <4> HIDE DEF kept
      <4> QED BY <4>1, <1>1, <1>3, Largest
    <3> QED BY <3>1, <3>2, <1>1
  <2>2. Trim(s) = SubSeq(s, Min(kept), Max(kept))
    BY <1>3 DEF Trim
  <2> HIDE DEF kept
  <2> QED BY <2>1, <2>2 DEF Text
<1> QED BY <1>2, <1>3

LEMMA FlattenType ==
  ASSUME NEW T, NEW ss \in Seq(Seq(T))
  PROVE  FlattenSeq(ss) \in Seq(T)
<1>1. PICK f \in [0 .. Len(ss) -> Seq(T)] : FlattenSeq(ss) = f[Len(ss)]
  BY FlattenIs
<1>2. Len(ss) \in 0 .. Len(ss)
  OBVIOUS
<1> QED BY <1>1, <1>2

LEMMA UnescapeType ==
  ASSUME NEW s \in Text
  PROVE  Unescape(s) \in Text
<1> DEFINE inner   == SubSeq(s, 2, Len(s) - 1)
           from(n) == Min({k \in 1 .. n : \A j \in k .. n : inner[j] = Quote})
           kept    == {n \in DOMAIN inner : inner[n] = Quote => (n - from(n)) % 2 = 0}
           parts   == [n \in DOMAIN inner |-> IF n \in kept THEN <<inner[n]>> ELSE <<>>]
<1>1. CASE escape /\ Len(s) >= 2 /\ s[1] = Quote /\ s[Len(s)] = Quote
  <2>1. inner \in Text
    BY <1>1 DEF Text
  <2>2. Unescape(s) = FlattenSeq(parts)
    BY <1>1 DEF Unescape
  <2> HIDE DEF inner, kept
  <2>3. parts \in Seq(Text)
    <3>1. Len(inner) \in Nat /\ DOMAIN inner = 1 .. Len(inner)
          /\ \A n \in DOMAIN inner : <<inner[n]>> \in Text /\ <<>> \in Text
      BY <2>1 DEF Text
    <3>2. parts \in [1 .. Len(inner) -> Text]
      BY <3>1
    <3> HIDE DEF parts
    <3> QED BY <3>1, <3>2
  <2> HIDE DEF parts
  <2> QED BY <2>2, <2>3, FlattenType DEF Text
<1>2. CASE ~(escape /\ Len(s) >= 2 /\ s[1] = Quote /\ s[Len(s)] = Quote)
  BY <1>2 DEF Unescape
<1> QED BY <1>1, <1>2

LEMMA WrittenType ==
  ASSUME NEW f \in Field
  PROVE  Written(f) \in Text
<1> DEFINE parts == [n \in DOMAIN f.text |->
                       IF f.text[n] = Quote THEN <<Quote, Quote>> ELSE <<f.text[n]>>]
<1>1. f.text \in Text /\ <<Quote>> \in Text /\ <<Quote, Quote>> \in Text /\ <<Blank>> \in Text
      /\ <<Blank, Blank>> \in Text
  BY CharTexts DEF Field
<1>2. parts \in Seq(Text)
  <2>1. Len(f.text) \in Nat /\ DOMAIN f.text = 1 .. Len(f.text)
        /\ \A n \in DOMAIN f.text : <<f.text[n]>> \in Text
    BY <1>1 DEF Text
  <2>2. parts \in [1 .. Len(f.text) -> Text]
    BY <1>1, <2>1
  <2> HIDE DEF parts
  <2> QED BY <2>1, <2>2
<1>3. FlattenSeq(parts) \in Text
  BY <1>2, FlattenType DEF Text
<1> DEFINE text == IF f.quoted THEN <<Quote>> \o FlattenSeq(parts) \o <<Quote>> ELSE f.text
<1>4. Written(f) = IF f.padded THEN <<Blank>> \o text \o <<Blank, Blank>> ELSE text
  BY DEF Written
<1> HIDE DEF parts
<1>5. text \in Text
  <2>1. <<Quote>> \o FlattenSeq(parts) \in Text
    BY <1>1, <1>3, JoinTexts
  <2>2. <<Quote>> \o FlattenSeq(parts) \o <<Quote>> \in Text
    BY <1>1, <2>1, JoinTexts
  <2> QED BY <1>1, <2>2
<1> HIDE DEF text
<1>6. <<Blank>> \o text \in Text
  BY <1>1, <1>5, JoinTexts
<1>7. <<Blank>> \o text \o <<Blank, Blank>> \in Text
  BY <1>1, <1>6, JoinTexts
<1> QED BY <1>4, <1>5, <1>7

LEMMA WrittenLineType ==
  ASSUME NEW fs \in Seq(Field)
  PROVE  WrittenLine(fs) \in Text
<1> DEFINE parts == [n \in DOMAIN fs |->
                       IF n = 1 THEN Written(fs[n]) ELSE <<Sep>> \o Written(fs[n])]
<1>1. Len(fs) \in Nat /\ DOMAIN fs = 1 .. Len(fs)
  OBVIOUS
<1>2. ASSUME NEW n \in DOMAIN fs
      PROVE  Written(fs[n]) \in Text /\ <<Sep>> \o Written(fs[n]) \in Text
  <2>1. Written(fs[n]) \in Text
    BY WrittenType
  <2>2. <<Sep>> \in Text
    BY CharTexts
  <2> QED BY <2>1, <2>2, JoinTexts
<1>3. parts \in Seq(Text)
  <2>1. parts \in [1 .. Len(fs) -> Text]
    BY <1>1, <1>2
  <2> HIDE DEF parts
  <2> QED BY <1>1, <2>1
<1>4. WrittenLine(fs) = FlattenSeq(parts)
  BY DEF WrittenLine
<1> HIDE DEF parts
<1> QED BY <1>3, <1>4, FlattenType DEF Text

LEMMA NextColumnEndIs ==
  ASSUME NEW s \in Text
  PROVE  /\ NextColumnEnd(s) \in 1 .. Len(s) + 1 /\ Len(s) \in Nat
         /\ NextColumnEnd(s) <= Len(s) =>
              s[NextColumnEnd(s)] = Sep /\ ~Inside(s, NextColumnEnd(s))
         /\ \A n \in 1 .. Len(s) : s[n] = Sep /\ ~Inside(s, n) => NextColumnEnd(s) <= n
<1> DEFINE S == {n \in 1 .. Len(s) + 1 : n = Len(s) + 1 \/ (s[n] = Sep /\ ~Inside(s, n))}
<1>1. Len(s) \in Nat /\ S \in SUBSET Nat /\ Len(s) + 1 \in S
  BY DEF Text
<1>2. NextColumnEnd(s) \in S /\ \A n \in S : NextColumnEnd(s) <= n
  BY <1>1, Least DEF NextColumnEnd
<1> QED BY <1>1, <1>2

-----------------------------------------------------------------------------
(* Where the code is, and which columns it has written                     *)

Converting == {"digits", "assign", "whole", "fraction", "power", "raise"}
CuttingErrors == {"too_few_columns", "too_many_columns", "escaped_string_not_closed"}

ControlOK ==
  /\ pc # "thrown" => error = "none"
  /\ pc = "cut" \/ error \in CuttingErrors => r = 1
  /\ pc \in Converting => r \in DOMAIN types /\ row[r] # Null
  /\ pc = "digits" => \/ then = "assign" /\ types[r] \in {"signed", "unsigned"}
                      \/ then = "power" /\ types[r] = "float"
  /\ pc = "assign" => types[r] \in {"signed", "unsigned"}
  /\ pc \in {"whole", "fraction", "power", "raise"} => types[r] = "float"
  /\ pc = "thrown" => \/ error \in CuttingErrors
                      \/ error \in ConversionErrors /\ r \in DOMAIN types /\ row[r] # Null

ColsOK ==
  /\ error \notin ConversionErrors =>
       \A n \in DOMAIN types : (cols[n] # Untouched) <=> (n < r /\ row[n] # Null)
  /\ error \in ConversionErrors => ColumnsBefore

StateOK == TypesOK /\ ControlOK /\ ColsOK

LEMMA InitState == Init => StateOK
<1> SUFFICES ASSUME Init PROVE StateOK
  OBVIOUS
<1>1. PICK job \in Jobs :
        /\ fields = job.fields /\ escape = job.escape /\ overflow = job.overflow
        /\ col_order = job.order /\ types = job.types
  BY DEF Init
<1>2. InputsOK
  BY <1>1, RowConstants DEF InputsOK, Field, Text
<1>3. Len(types) \in Nat /\ DOMAIN types = 1 .. Len(types)
  BY <1>2 DEF InputsOK
<1>4. line \in Text
  BY <1>2, WrittenLineType DEF Init, InputsOK
<1>5. TypesOK
  BY <1>2, <1>3, <1>4, CharTexts DEF Init, TypesOK
<1>6. ControlOK
  BY DEF Init, ControlOK, Converting, CuttingErrors
<1>7. ColsOK
  BY <1>3 DEF Init, ColsOK, ConversionErrors
<1> QED BY <1>5, <1>6, <1>7 DEF StateOK

(* Cutting a line leaves the conversion where it was.                      *)
LEMMA CutState ==
  ASSUME StateOK, CutColumn \/ CutDone
  PROVE  StateOK'
<1>1. UNCHANGED <<inputs, r, col, cols>> /\ pc = "cut" /\ r = 1 /\ error = "none"
  BY DEF CutColumn, CutDone, StateOK, ControlOK
<1>2. InputsOK' /\ InputsOK /\ DOMAIN types = 1 .. Len(types) /\ Len(types) \in Nat
  BY <1>1 DEF StateOK, TypesOK, InputsOK, inputs
<1>3. /\ line' \in Text \cup {Null} /\ i' \in Nat \ {0}
      /\ row' \in [DOMAIN types -> Text \cup {Null}]
  <2>1. CASE UNCHANGED cut
    BY <2>1 DEF cut, StateOK, TypesOK
  <2>2. CASE ~UNCHANGED cut
    <3> DEFINE end  == NextColumnEnd(line)
               text == Unescape(Trim(SubSeq(line, 1, end - 1)))
    <3>1. /\ line # Null /\ i <= Len(col_order) /\ i' = i + 1
          /\ line' = IF end > Len(line) THEN Null ELSE SubSeq(line, end + 1, Len(line))
          /\ row' = IF col_order[i] = -1 THEN row ELSE [row EXCEPT ![col_order[i]] = text]
      BY <2>2 DEF CutColumn, CutDone
    <3>2. line \in Text
      BY <3>1 DEF StateOK, TypesOK
    <3>3. end \in 1 .. Len(line) + 1 /\ Len(line) \in Nat
      BY <3>2, NextColumnEndIs
    <3> HIDE DEF end
    <3>4. SubSeq(line, 1, end - 1) \in Text /\ (end <= Len(line) => SubSeq(line, end + 1, Len(line)) \in Text)
      BY <3>2, <3>3 DEF Text
    <3>5. text \in Text
      BY <3>4, TrimIs, UnescapeType
    <3> HIDE DEF text
    <3>6. line' \in Text \cup {Null}
      BY <3>1, <3>3, <3>4
    <3>7. row' \in [DOMAIN types -> Text \cup {Null}]
      BY <3>1, <3>5 DEF StateOK, TypesOK
    <3> QED BY <3>1, <3>6, <3>7 DEF StateOK, TypesOK
  <2> QED BY <2>1, <2>2
<1>4. \/ pc' = "thrown" /\ error' \in CuttingErrors
      \/ pc' \in {"cut", "next"} /\ error' = "none"
  BY <1>1 DEF CutColumn, CutDone, Throw, CuttingErrors
<1>5. TypesOK'
  BY <1>1, <1>2, <1>3, <1>4 DEF StateOK, TypesOK, inputs
<1>6. ControlOK'
  BY <1>1, <1>4 DEF ControlOK, Converting
<1>7. ColsOK'
  <2>1. \A n \in DOMAIN types' : cols'[n] = Untouched /\ ~(n < r')
    BY <1>1, <1>2 DEF StateOK, ColsOK, inputs, ConversionErrors
  <2>2. error' \notin ConversionErrors
    BY <1>4 DEF CuttingErrors, ConversionErrors
  <2> QED BY <1>4, <2>1, <2>2 DEF ColsOK
<1> QED BY <1>5, <1>6, <1>7 DEF StateOK

(* The three ways a round of a conversion ends: the column goes on, is     *)
(* assigned, or is abandoned.                                              *)
Converts == UNCHANGED <<inputs, cut>> /\ pc \in Converting \cup {"next"} /\ r \in DOMAIN types
            /\ row[r] # Null

LEMMA GoesOn ==
  ASSUME StateOK, Converts, UNCHANGED <<r, cols, error>>, col' \in Text,
         pc' \in Converting, ControlOK'
  PROVE  StateOK'
<1>1. error \notin ConversionErrors
  BY DEF StateOK, ControlOK, Converts, Converting, ConversionErrors
<1>2. TypesOK'
  BY DEF StateOK, TypesOK, InputsOK, Converts, inputs, cut, Converting
<1>3. ColsOK'
  BY <1>1 DEF StateOK, ColsOK, Converts, inputs, cut
<1> QED BY <1>2, <1>3 DEF StateOK

LEMMA Written1 ==
  ASSUME StateOK, r \in DOMAIN types, NEW value
  PROVE  LET now == [cols EXCEPT ![r] = <<value>>]
         IN  /\ DOMAIN now = DOMAIN types /\ now[r] = <<value>> /\ now[r] # Untouched
             /\ \A n \in DOMAIN types : n # r => now[n] = cols[n]
<1>1. <<value>> # <<>>
  OBVIOUS
<1> QED BY <1>1 DEF StateOK, TypesOK, Untouched

LEMMA Assigns ==
  ASSUME StateOK, Converts, NEW value, Assign(value), UNCHANGED error, col' \in Text
  PROVE  StateOK'
<1>1. /\ DOMAIN cols' = DOMAIN types /\ cols'[r] # Untouched /\ r' = r + 1 /\ pc' = "next"
      /\ \A n \in DOMAIN types : n # r => cols'[n] = cols[n]
  BY Written1 DEF Assign, Converts
<1>2. DOMAIN types = 1 .. Len(types) /\ Len(types) \in Nat /\ r \in 1 .. Len(types)
  BY DEF StateOK, TypesOK, InputsOK, Converts
<1>3. error' = "none" /\ error \notin ConversionErrors /\ error' \notin ConversionErrors
  BY DEF StateOK, ControlOK, Converts, Converting, ConversionErrors
<1>4. TypesOK'
  BY <1>1, <1>2 DEF StateOK, TypesOK, InputsOK, Converts, inputs, cut
<1>5. ControlOK'
  BY <1>1, <1>3 DEF ControlOK, Converting, CuttingErrors
<1>6. ColsOK'
  <2>1. ASSUME NEW n \in DOMAIN types
        PROVE  (cols'[n] # Untouched) <=> (n < r + 1 /\ row[n] # Null)
    <3>1. (cols[n] # Untouched) <=> (n < r /\ row[n] # Null)
      BY <1>3 DEF StateOK, ColsOK
    <3>2. row[r] # Null
      BY DEF Converts
    <3> QED BY <3>1, <3>2, <1>1, <1>2
  <2> QED BY <2>1, <1>1, <1>3 DEF ColsOK, Converts, inputs, cut
<1> QED BY <1>4, <1>5, <1>6 DEF StateOK

LEMMA Abandons ==
  ASSUME StateOK, Converts, NEW kind \in ConversionErrors, NEW value, Abandon(kind, value),
         ~(types[r] = "char" /\ row[r] = <<>>), UNCHANGED col
  PROVE  StateOK'
<1>1. error \notin ConversionErrors
  BY DEF StateOK, ControlOK, Converts, Converting, ConversionErrors
<1>2. /\ DOMAIN cols' = DOMAIN types /\ cols'[r] # Untouched /\ r' = r /\ pc' = "thrown"
      /\ error' = kind /\ \A n \in DOMAIN types : n # r => cols'[n] = cols[n]
  BY Written1 DEF Abandon, Throw, Converts
<1>3. DOMAIN types = 1 .. Len(types) /\ Len(types) \in Nat /\ r \in 1 .. Len(types)
  BY DEF StateOK, TypesOK, InputsOK, Converts
<1>4. TypesOK'
  BY <1>2, <1>3 DEF StateOK, TypesOK, InputsOK, Converts, inputs, cut
<1>5. ControlOK'
  BY <1>2 DEF ControlOK, Converting, Converts, inputs, cut, CuttingErrors, ConversionErrors
<1>6. ColumnsBefore'
  <2>1. ASSUME NEW n \in DOMAIN types
        PROVE  (cols'[n] # Untouched) <=>
                 (n <= r /\ row[n] # Null /\ ~(n = r /\ types[n] = "char" /\ row[n] = <<>>))
    <3>1. (cols[n] # Untouched) <=> (n < r /\ row[n] # Null)
      BY <1>1 DEF StateOK, ColsOK
    <3>2. row[r] # Null
      BY DEF Converts
    <3> QED BY <3>1, <3>2, <1>2, <1>3
  <2> QED BY <2>1, <1>2 DEF ColumnsBefore, Converts, inputs, cut
<1> QED BY <1>2, <1>4, <1>5, <1>6 DEF StateOK, ColsOK

Conversion ==
  \/ SkipColumn \/ TakeText \/ StartNumber \/ Digit \/ Overflow \/ EndDigits
  \/ AssignInteger \/ FloatDigit \/ FloatMark \/ StartPower \/ RaisePower \/ EndPower

LEMMA TextTail ==
  ASSUME NEW s \in Text, s # <<>>
  PROVE  /\ Tail(s) \in Text /\ SubSeq(s, 3, Len(s)) \in Text /\ Len(s) \in Nat \ {0}
         /\ Len(Tail(s)) = Len(s) - 1 /\ Head(s) = s[1] /\ s[1] \in Letters
<1>1. Len(s) # 0 /\ Len(s) \in Nat
  BY DEF Text
<1> QED BY <1>1 DEF Text

LEMMA ConversionState ==
  ASSUME StateOK, Conversion
  PROVE  StateOK'
<1> USE DEF Conversion
<1>1. /\ DOMAIN types = 1 .. Len(types) /\ Len(types) \in Nat /\ r \in 1 .. Len(types) + 1
      /\ col \in Text /\ row \in [DOMAIN types -> Text \cup {Null}] /\ Null \notin Text
      /\ <<>> \in Text /\ \A n \in DOMAIN types : types[n] \in Types
  BY NullIsNoText, CharTexts DEF StateOK, TypesOK, InputsOK
<1>2. CASE SkipColumn
  <2>1. /\ UNCHANGED <<inputs, pc, cut, col, cols, error>> /\ r' = r + 1 /\ pc = "next"
        /\ r \in DOMAIN types /\ row[r] = Null /\ error = "none"
    BY <1>1, <1>2 DEF SkipColumn, StateOK, ControlOK
  <2>2. TypesOK'
    BY <1>1, <2>1 DEF StateOK, TypesOK, InputsOK, inputs, cut
  <2>3. ControlOK'
    BY <2>1 DEF ControlOK, Converting, CuttingErrors
  <2>4. ColsOK'
    <3>1. ASSUME NEW n \in DOMAIN types
          PROVE  (cols[n] # Untouched) <=> (n < r + 1 /\ row[n] # Null)
      <4>1. (cols[n] # Untouched) <=> (n < r /\ row[n] # Null)
        BY <2>1 DEF StateOK, ColsOK, ConversionErrors
      <4> QED BY <4>1, <2>1, <1>1
    <3> QED BY <2>1, <3>1 DEF ColsOK, ConversionErrors, inputs, cut
  <2> QED BY <2>2, <2>3, <2>4 DEF StateOK
<1>3. CASE ~SkipColumn
  <2>1. Converts
    <3>1. CASE TakeText \/ StartNumber
      <4>1. UNCHANGED <<inputs, cut>> /\ pc = "next" /\ r <= Len(types) /\ row[r] # Null
        BY <3>1 DEF TakeText, StartNumber
      <4> QED BY <1>1, <4>1 DEF Converts
    <3>2. CASE ~(TakeText \/ StartNumber)
      <4>1. UNCHANGED <<inputs, cut>>
        BY <1>3, <3>2 DEF Digit, Overflow, EndDigits, AssignInteger, FloatDigit, FloatMark,
           StartPower, RaisePower, EndPower
      <4>2. pc \in Converting
        BY <1>3, <3>2 DEF Digit, Overflow, EndDigits, AssignInteger, FloatDigit, FloatMark,
           StartPower, RaisePower, EndPower, Converting
      <4> QED BY <4>1, <4>2 DEF Converts, StateOK, ControlOK
    <3> QED BY <3>1, <3>2
  <2>2. row[r] \in Text /\ types[r] \in Types
    BY <1>1, <2>1 DEF Converts
  <2>3. CASE TakeText
    <3>1. UNCHANGED col /\ pc = "next"
      BY <2>3 DEF TakeText
    <3>2. ASSUME NEW value, Assign(value), UNCHANGED error PROVE StateOK'
      BY <1>1, <2>1, <3>1, <3>2, Assigns
    <3>3. ASSUME NEW value, Abandon("invalid_single_character", value), row[r] # <<>>
          PROVE  StateOK'
      BY <1>1, <2>1, <3>1, <3>3, Abandons DEF ConversionErrors
    <3>4. ASSUME Throw("invalid_single_character"), UNCHANGED <<cols, r>>, row[r] = <<>>,
                 types[r] = "char"
          PROVE  StateOK'
      <4>1. TypesOK'
        BY <2>1, <3>1, <3>4 DEF StateOK, TypesOK, InputsOK, Converts, inputs, cut, Throw
      <4>2. ControlOK'
        BY <2>1, <3>4 DEF ControlOK, Converting, Converts, inputs, cut, CuttingErrors,
           ConversionErrors, Throw
      <4>3. ASSUME NEW n \in DOMAIN types
            PROVE  (cols[n] # Untouched) <=>
                     (n <= r /\ row[n] # Null /\ ~(n = r /\ types[n] = "char" /\ row[n] = <<>>))
        <5>1. (cols[n] # Untouched) <=> (n < r /\ row[n] # Null)
          BY <3>1 DEF StateOK, ColsOK, ControlOK, ConversionErrors
        <5> QED BY <5>1, <1>1, <3>4
      <4>4. DOMAIN cols = DOMAIN types
        BY DEF StateOK, TypesOK
      <4>5. ColsOK'
        BY <2>1, <3>4, <4>3, <4>4 DEF ColsOK, ColumnsBefore, Throw, ConversionErrors,
           Converts, inputs, cut
      <4> QED BY <4>1, <4>2, <4>5 DEF StateOK
    <3>5. \/ \E value : Assign(value) /\ UNCHANGED error
          \/ \E value : Abandon("invalid_single_character", value) /\ row[r] # <<>>
          \/ Throw("invalid_single_character") /\ UNCHANGED <<cols, r>> /\ row[r] = <<>>
             /\ types[r] = "char"
      BY <2>3 DEF TakeText
    <3> QED BY <3>2, <3>3, <3>4, <3>5
  <2>4. CASE StartNumber
    <3>1. UNCHANGED <<r, cols, error>> /\ error = "none"
          /\ (types[r] = "float" => pc' = "whole")
          /\ (types[r] # "float" => pc' = "digits" /\ then' = "assign"
                                   /\ types[r] \in {"signed", "unsigned"})
      BY <2>4 DEF StartNumber, StateOK, ControlOK
    <3>2. col' \in Text
      BY <2>2, <2>4, TextTail DEF StartNumber
    <3>3. ControlOK'
      BY <2>1, <3>1 DEF ControlOK, Converting, Converts, inputs, cut, CuttingErrors
    <3> QED BY <2>1, <3>1, <3>2, <3>3, GoesOn DEF Converting
  <2>5. CASE Digit \/ FloatDigit
    <3>1. UNCHANGED <<pc, r, cols, error, then>> /\ pc \in {"digits", "whole", "fraction"}
          /\ col # <<>> /\ col' = Tail(col)
      BY <2>5 DEF Digit, FloatDigit, int
    <3>2. ControlOK'
      BY <2>1, <3>1 DEF StateOK, ControlOK, Converting, Converts, inputs, cut
    <3> QED BY <1>1, <2>1, <3>1, <3>2, TextTail, GoesOn DEF Converting
  <2>6. CASE Overflow
    <3>1. CASE pc' = then
      <4>1. UNCHANGED <<r, cols, error, col, then>> /\ pc = "digits"
        BY <2>1, <2>6, <3>1 DEF Overflow, Abandon, Throw, StateOK, ControlOK
      <4>2. ControlOK'
        BY <2>1, <3>1, <4>1 DEF StateOK, ControlOK, Converting, Converts, inputs, cut
      <4> QED BY <1>1, <2>1, <3>1, <4>1, <4>2, GoesOn DEF Converting, StateOK, ControlOK
    <3>2. CASE pc' # then
      <4>1. UNCHANGED col /\ pc = "digits" /\ types[r] # "char"
            /\ \E kind \in ConversionErrors : Abandon(kind, x)
        BY <2>6, <3>2 DEF Overflow, ConversionErrors, StateOK, ControlOK
      <4> QED BY <2>1, <4>1, Abandons
    <3> QED BY <3>1, <3>2
  <2>7. CASE EndDigits
    <3>1. CASE col = <<>>
      <4>1. UNCHANGED <<r, cols, error, col, then>> /\ pc = "digits" /\ pc' = then
        BY <2>7, <3>1 DEF EndDigits, int
      <4>2. ControlOK'
        BY <2>1, <3>1, <4>1 DEF StateOK, ControlOK, Converting, Converts, inputs, cut
      <4> QED BY <1>1, <2>1, <3>1, <4>1, <4>2, GoesOn DEF Converting, StateOK, ControlOK
    <3>2. CASE col # <<>>
      <4>1. UNCHANGED col /\ pc = "digits" /\ types[r] # "char"
            /\ \E kind \in ConversionErrors, value \in {Float(form, mantissa, scale), x} : Abandon(kind, value)
        BY <2>7, <3>2 DEF EndDigits, ConversionErrors, StateOK, ControlOK
      <4> QED BY <2>1, <4>1, Abandons
    <3> QED BY <3>1, <3>2
  <2>8. CASE AssignInteger \/ EndPower
    <3>1. UNCHANGED <<col, error>> /\ \E value : Assign(value)
      BY <2>8 DEF AssignInteger, EndPower
    <3> QED BY <1>1, <2>1, <3>1, Assigns
  <2>9. CASE FloatMark
    <3>1. types[r] = "float" /\ pc \in {"whole", "fraction"} /\ error = "none"
      BY <2>9 DEF FloatMark, StateOK, ControlOK
    <3>2. CASE pc' \in {"fraction", "digits"}
      <4>1. /\ UNCHANGED <<r, cols, error>> /\ (pc' = "digits" => then' = "power")
            /\ col' \in {Tail(col), SubSeq(col, 3, Len(col))} /\ col # <<>>
        <5>1. At(<<>>, 1) = "NUL" /\ "NUL" \notin Points
          BY MarksAreNoDigits DEF At
        <5> QED BY <2>9, <3>2, <5>1 DEF FloatMark, Assign, Abandon, Throw
      <4>2. ControlOK'
        BY <2>1, <3>1, <3>2, <4>1 DEF ControlOK, Converting, Converts, inputs, cut, CuttingErrors
      <4> QED BY <1>1, <2>1, <3>2, <4>1, <4>2, TextTail, GoesOn DEF Converting
    <3>3. CASE pc' \notin {"fraction", "digits"}
      <4>1. UNCHANGED col /\ \/ UNCHANGED error /\ \E value : Assign(value)
                             \/ \E value : Abandon("no_digit", value)
        BY <2>9, <3>3 DEF FloatMark
      <4> QED BY <1>1, <2>1, <3>1, <4>1, Assigns, Abandons DEF ConversionErrors
    <3> QED BY <3>2, <3>3
  <2>10. CASE StartPower
    <3>1. CASE x = 0
      BY <1>1, <2>1, <2>10, <3>1, Assigns DEF StartPower
    <3>2. CASE x # 0
      <4>1. UNCHANGED <<r, cols, error, col>> /\ pc = "power" /\ pc' = "raise"
        BY <2>10, <3>2 DEF StartPower
      <4>2. ControlOK'
        BY <2>1, <4>1 DEF StateOK, ControlOK, Converting, Converts, inputs, cut
      <4> QED BY <1>1, <2>1, <4>1, <4>2, GoesOn DEF Converting
    <3> QED BY <3>1, <3>2
  <2>11. CASE RaisePower
    <3>1. UNCHANGED <<pc, r, cols, error, col>> /\ pc = "raise"
      BY <2>11 DEF RaisePower
    <3>2. ControlOK'
      BY <2>1, <3>1 DEF StateOK, ControlOK, Converting, Converts, inputs, cut
    <3> QED BY <1>1, <2>1, <3>1, <3>2, GoesOn DEF Converting
  <2> QED BY <1>3, <2>3, <2>4, <2>5, <2>6, <2>7, <2>8, <2>9, <2>10, <2>11
<1> QED BY <1>2, <1>3

-----------------------------------------------------------------------------
(* What has been read of a number                                          *)

(* A number without its sign, where the type has one.                      *)
Body(s, type) == IF type = "unsigned" THEN s ELSE Unsigned(s)
Negative(s, type) == type # "unsigned" /\ s # <<>> /\ Head(s) = "-"
SoFar(s, type, k) ==
  LET v == Value(SubSeq(Body(s, type), 1, k)) IN IF Negative(s, type) THEN -v ELSE v
DigitsTo(s, k) == \A j \in 1 .. k : s[j] \in Digits

(* The integer that is read: the column, or the exponent of a float.       *)
Integer == IF then = "power" THEN Power(Unsigned(row[r])) ELSE row[r]

IsRead(k) ==
  LET body == Body(Integer, types[r])
  IN  /\ col = Rest(body, k) /\ DigitsTo(body, k)
      /\ neg = Negative(Integer, types[r])
      /\ x = SoFar(Integer, types[r], k) /\ x \in Values(types[r])

DigitsOK == pc = "digits" => \E k \in 0 .. Len(Body(Integer, types[r])) : IsRead(k)

AssignOK ==
  pc = "assign" /\ AreDigits(Body(row[r], types[r])) => x = IntegerOf(row[r], types[r])

IntegerThrown ==
  LET exact == WithSign(row[r], Value(Unsigned(row[r])))
  IN  types[r] \in {"signed", "unsigned"} /\ AreDigits(Body(row[r], types[r])) =>
        /\ exact \notin Values(types[r]) /\ overflow = "throw"
        /\ error = IF exact < 0 THEN "integer_underflow" ELSE "integer_overflow"

ThrownOK == error \in ConversionErrors => CutOff /\ IntegerThrown

(* A float whose exponent is not cut, with no more decimals than it tells  *)
(* from 0: its power of ten, its digits, and what they are worth.          *)
Ten(s) == LET power == Power(Unsigned(s)) IN WithSign(power, Value(Unsigned(power)))
Places(s) == Len(Part(Unsigned(s)))
Kept(s) ==
  AreDigits(Unsigned(Power(Unsigned(s)))) /\ Ten(s) \in -127 .. 127 /\ Places(s) <= MaxPower
AllDigits(s) == Whole(Unsigned(s)) \o Part(Unsigned(s))

(* x is finite as long as its first digit stands within a float.           *)
FormIs ==
  /\ mantissa \in Nat /\ size \in Nat /\ scale \in Int /\ (mantissa # 0 => size > 0)
  /\ form = IF mantissa # 0 /\ size - 1 + scale > MaxPower THEN "inf" ELSE "finite"
DecimalIs(digits, p) == mantissa = Value(digits) /\ size = Size(digits) /\ scale = p

WholeOK ==
  LET b == Unsigned(row[r])
  IN  pc = "whole" => FormIs /\ \E k \in 0 .. Len(b) :
        col = Rest(b, k) /\ DigitsTo(b, k) /\ DecimalIs(SubSeq(b, 1, k), 0)

FractionOK ==
  LET b == Unsigned(row[r])
  IN  pc = "fraction" => FormIs /\ \E k, m \in 0 .. Len(b) :
        /\ k < m /\ DigitsTo(b, k) /\ b[k + 1] \in Points
        /\ \A j \in k + 2 .. m : b[j] \in Digits
        /\ col = Rest(b, m)
        /\ m - k - 1 <= MaxPower =>
             DecimalIs(SubSeq(b, 1, k) \o SubSeq(b, k + 2, m), k + 1 - m)

MarkedOK ==
  /\ pc = "power" \/ (pc = "digits" /\ then = "power") =>
       /\ FormIs
       /\ Places(row[r]) <= MaxPower => DecimalIs(AllDigits(row[r]), -Places(row[r]))
  /\ pc = "power" /\ Kept(row[r]) => x = Ten(row[r])

(* x is the decimal of s after the exponent n.                             *)
After(s, n, f, m, p, z) ==
  /\ f = FormAfter(Unsigned(s), n)
  /\ f = "finite" => /\ m = MantissaAfter(Unsigned(s), n)
                     /\ m # 0 => z = Size(AllDigits(s)) /\ p = n - Places(s)

Measured(s) ==
  /\ Value(AllDigits(s)) \in Nat /\ Size(AllDigits(s)) \in Nat /\ Places(s) \in Nat
  /\ Value(AllDigits(s)) # 0 => Size(AllDigits(s)) > 0

(* Of the exponent, done is in x, and e times b is still to come.          *)
RaiseOK ==
  pc = "raise" /\ Kept(row[r]) =>
    /\ Measured(row[r])
    /\ \E b \in Squares, done \in 0 .. 127, up \in {-1, 1} :
         /\ e \in 1 .. 127 /\ b * e + done = up * Ten(row[r])
         /\ done < b \/ (e % 2 = 0 /\ done < 2 * b)
         /\ base = Clamp(up * b)
         /\ After(row[r], up * done, form, mantissa, scale, size)

(* What a float is read as.                                                *)
FloatOf(s) ==
  LET b     == Unsigned(s)
      value == Float(FormAfter(b, Ten(s)), MantissaAfter(b, Ten(s)), Ten(s) - Places(s))
  IN  <<value[1], WithSign(s, value[2]), value[3]>>

(* The columns before this one are what is written there.                  *)
IntegerIs(n) ==
  types[n] \in {"signed", "unsigned"} /\ AreDigits(Body(row[n], types[n])) =>
    cols[n] = <<IntegerOf(row[n], types[n])>>
FloatIs(n) ==
  types[n] = "float" /\ Kept(row[n]) =>
    cols[n] = <<FloatOf(row[n])>>
ReadOK == \A n \in DOMAIN types : n < r /\ row[n] # Null => IntegerIs(n) /\ FloatIs(n)

NumbersOK ==
  /\ ReadOK /\ DigitsOK /\ AssignOK /\ ThrownOK
  /\ WholeOK /\ FractionOK /\ MarkedOK /\ RaiseOK
Inv == StateOK /\ NumbersOK

LEMMA BodyIs ==
  ASSUME NEW s \in Text, NEW type
  PROVE  Unsigned(s) \in Text /\ Body(s, type) \in Text /\ Len(Body(s, type)) \in Nat
<1>1. s # <<>> => Tail(s) \in Text
  BY DEF Text
<1>2. Unsigned(s) \in Text
  BY <1>1 DEF Unsigned, HasSign
<1>3. Body(s, type) \in Text
  BY <1>2 DEF Body
<1> QED BY <1>2, <1>3 DEF Text

LEMMA ValuesAre ==
  /\ \A type : Values(type) = IF type = "unsigned" THEN 0 .. 255 ELSE -128 .. 127
  /\ TypeMin = Lowest(types[r]) /\ TypeMax = Highest(types[r])
  BY DEF Values, Lowest, Highest, TypeMin, TypeMax

(* The nearest number within two bounds.                                   *)
LEMMA NearestIs ==
  ASSUME NEW a \in Int, NEW b \in Int, a <= b, NEW v \in Int
  PROVE  Max({a, Min({b, v})}) = IF v < a THEN a ELSE IF v > b THEN b ELSE v
<1>1. Min({b, v}) = IF v > b THEN b ELSE v
  BY DEF Min
<1>2. \A w \in Int : Max({a, w}) = IF w < a THEN a ELSE w
  BY DEF Max
<1> QED BY <1>1, <1>2

(* What has been read, from one digit to the next, never comes back.       *)
LEMMA SoFarIs ==
  ASSUME NEW s \in Text, NEW type, NEW n \in 0 .. Len(Body(s, type)),
         DigitsTo(Body(s, type), n)
  PROVE  /\ SoFar(s, type, n) \in Int
         /\ n = 0 => SoFar(s, type, n) = 0
         /\ IF Negative(s, type) THEN SoFar(s, type, n) <= 0 ELSE SoFar(s, type, n) >= 0
         /\ n > 0 =>
              LET y == DigitOf[Body(s, type)[n]]
                  w == SoFar(s, type, n - 1)
              IN  w \in Int /\ SoFar(s, type, n) = IF Negative(s, type) THEN 10 * w - y ELSE 10 * w + y
         /\ \A m \in 0 .. n :
              /\ SoFar(s, type, m) \in Int
              /\ IF Negative(s, type) THEN SoFar(s, type, n) <= SoFar(s, type, m)
                                      ELSE SoFar(s, type, n) >= SoFar(s, type, m)
<1> DEFINE body == Body(s, type)
           v(k) == Value(SubSeq(body, 1, k))
<1>1. body \in Seq(Letters) /\ n \in Nat /\ n <= Len(body) /\ \A k \in 1 .. n : body[k] \in Digits
  <2>1. Body(s, type) \in Text /\ Len(Body(s, type)) \in Nat
    BY BodyIs
  <2>2. n \in Nat /\ n <= Len(body)
    BY <2>1
  <2> QED BY <2>1, <2>2 DEF Text, DigitsTo
<1>2. n > 0 => DigitOf[body[n]] \in 0 .. 9
  BY <1>1, DigitIs
<1>3. /\ v(n) \in Nat /\ (n = 0 => v(n) = 0)
      /\ n > 0 => v(n - 1) \in Nat /\ v(n) = 10 * v(n - 1) + DigitOf[body[n]]
  <2> HIDE DEF body
  <2> QED BY <1>1, ValueIs
<1>4. ASSUME NEW m \in 0 .. n PROVE v(m) \in Nat /\ v(m) <= v(n)
  <2>1. m \in Nat /\ m <= n
    OBVIOUS
  <2> HIDE DEF body
  <2> QED BY <2>1, <1>1, ValueGrows
<1>5. \A k : SoFar(s, type, k) = IF Negative(s, type) THEN -v(k) ELSE v(k)
  BY DEF SoFar
<1> HIDE DEF v, body
<1>6. \A m \in 0 .. n : /\ SoFar(s, type, m) \in Int
                       /\ IF Negative(s, type) THEN SoFar(s, type, n) <= SoFar(s, type, m)
                                               ELSE SoFar(s, type, n) >= SoFar(s, type, m)
  <2> TAKE m \in 0 .. n
  <2>1. v(m) \in Nat /\ v(n) \in Nat /\ v(m) <= v(n)
    BY <1>3, <1>4
  <2>2. CASE Negative(s, type)
    <3>1. SoFar(s, type, m) = -v(m) /\ SoFar(s, type, n) = -v(n)
      BY <1>5, <2>2
    <3> QED BY <2>1, <2>2, <3>1
  <2>3. CASE ~Negative(s, type)
    <3>1. SoFar(s, type, m) = v(m) /\ SoFar(s, type, n) = v(n)
      BY <1>5, <2>3
    <3> QED BY <2>1, <2>3, <3>1
  <2> QED BY <2>2, <2>3
<1>7. n > 0 => LET y == DigitOf[body[n]]
                   w == SoFar(s, type, n - 1)
               IN  w \in Int /\ SoFar(s, type, n) = IF Negative(s, type) THEN 10 * w - y ELSE 10 * w + y
  <2> SUFFICES ASSUME n > 0 PROVE LET y == DigitOf[body[n]]
                                      w == SoFar(s, type, n - 1)
                                  IN  w \in Int /\ SoFar(s, type, n) = IF Negative(s, type) THEN 10 * w - y ELSE 10 * w + y
    OBVIOUS
  <2> DEFINE y == DigitOf[body[n]]
             a == v(n - 1)
             b == v(n)
             w == SoFar(s, type, n - 1)
             z == SoFar(s, type, n)
             t == Negative(s, type)
  <2>1. y \in 0 .. 9 /\ a \in Nat /\ b = 10 * a + y /\ w = (IF t THEN -a ELSE a)
        /\ z = (IF t THEN -b ELSE b)
    BY <1>2, <1>3, <1>5
  <2> HIDE DEF y, a, b, w, z, t
  <2>2. w \in Int /\ z = IF t THEN 10 * w - y ELSE 10 * w + y
    BY <2>1
  <2> QED BY <2>2 DEF y, w, z, t
<1>8. /\ SoFar(s, type, n) \in Int /\ (n = 0 => SoFar(s, type, n) = 0)
      /\ IF Negative(s, type) THEN SoFar(s, type, n) <= 0 ELSE SoFar(s, type, n) >= 0
  BY <1>3, <1>5
<1> QED BY <1>6, <1>7, <1>8 DEF body

(* The test for an overflow is exact.                                      *)
LEMMA OverflowsIs ==
  ASSUME NEW y \in 0 .. 9, x \in Values(types[r]), neg \in BOOLEAN,
         IF neg THEN x <= 0 /\ types[r] # "unsigned" ELSE x >= 0
  PROVE  LET z == IF neg THEN 10 * x - y ELSE 10 * x + y
         IN  Overflows(y) <=> z \notin Values(types[r])
<1>1. CASE neg
  <2>1. TypeMin = -128 /\ Values(types[r]) = -128 .. 127
    BY <1>1, ValuesAre DEF TypeMin
  <2>2. Overflows(y) <=> x < -((128 - y) \div 10)
    <3>1. -(-128 + y) = 128 - y
      OBVIOUS
    <3> QED BY <1>1, <2>1, <3>1 DEF Overflows
  <2>3. x \in -128 .. 0
    BY <1>1, <2>1
  <2>4. (x < -((128 - y) \div 10)) <=> (10 * x - y < -128)
    BY <2>3
  <2> QED BY <1>1, <2>1, <2>2, <2>3, <2>4
<1>2. CASE ~neg
  <2> DEFINE top == TypeMax
  <2>1. top \in {127, 255} /\ \A k \in Int : k >= 0 => (k \in Values(types[r]) <=> k <= top)
    BY ValuesAre DEF TypeMax
  <2>2. Overflows(y) <=> x > (top - y) \div 10
    BY <1>2 DEF Overflows
  <2>3. x \in Int /\ x >= 0
    BY <1>2, ValuesAre
  <2> HIDE DEF top
  <2>4. (x > (top - y) \div 10) <=> (10 * x + y > top)
    BY <2>1, <2>3
  <2>5. 10 * x + y \in Int /\ 10 * x + y >= 0
    BY <2>3
  <2>6. (10 * x + y \in Values(types[r])) <=> (10 * x + y <= top)
    BY <2>1, <2>5
  <2> QED BY <1>2, <2>1, <2>2, <2>3, <2>4, <2>5, <2>6
<1> QED BY <1>1, <1>2

LEMMA MarkIs ==
  ASSUME NEW s \in Text, NEW set
  PROVE  /\ Mark(s, set) \in 1 .. Len(s) + 1 /\ Len(s) \in Nat
         /\ Mark(s, set) <= Len(s) => s[Mark(s, set)] \in set \cup {"NUL"}
         /\ \A k \in 1 .. Len(s) : s[k] \in set => Mark(s, set) <= k
         /\ \A k \in 1 .. Len(s) : k < Mark(s, set) => s[k] \notin set \cup {"NUL"}
<1> DEFINE S == {k \in 1 .. Len(s) + 1 : At(s, k) \in set \cup {"NUL"}}
<1>1. Len(s) \in Nat /\ S \in SUBSET Nat /\ DOMAIN s = 1 .. Len(s)
  BY DEF Text
<1>2. Len(s) + 1 \in S
  BY <1>1 DEF At
<1>3. Mark(s, set) \in S /\ \A k \in S : Mark(s, set) <= k
  BY <1>1, <1>2, Least DEF Mark
<1> QED BY <1>1, <1>3 DEF At

LEMMA PowerType ==
  ASSUME NEW s \in Text
  PROVE  Power(s) \in Text
<1>1. Mark(s, {"e", "E"}) \in 1 .. Len(s) + 1 /\ Len(s) \in Nat
  BY MarkIs
<1> QED BY <1>1 DEF Power, Text

(* Where the digits of an integer are read, some have been read.           *)
Reading(k) ==
  LET b == Body(Integer, types[r])
  IN  /\ Integer \in Text /\ b \in Text /\ Len(b) \in Nat /\ k \in 0 .. Len(b)
      /\ IsRead(k) /\ neg \in BOOLEAN
      /\ IF neg THEN x <= 0 /\ types[r] # "unsigned" ELSE x >= 0
      /\ (col = <<>>) <=> (k = Len(b))
      /\ k < Len(b) => Head(col) = b[k + 1] /\ Tail(col) = Rest(b, k + 1)
      /\ Len(col) = Len(b) - k

LEMMA ReadingIs ==
  ASSUME StateOK, DigitsOK, pc = "digits"
  PROVE  \E k : Reading(k)
<1> DEFINE b == Body(Integer, types[r])
<1>1. row[r] \in Text
  BY DEF StateOK, TypesOK, ControlOK, Converting
<1>2. Integer \in Text
  BY <1>1, BodyIs, PowerType DEF Integer
<1>3. b \in Text /\ Len(b) \in Nat
  BY <1>2, BodyIs
<1>4. PICK k \in 0 .. Len(b) : IsRead(k)
  BY DEF DigitsOK
<1>5. col = Rest(b, k) /\ DigitsTo(b, k) /\ neg = Negative(Integer, types[r])
      /\ x = SoFar(Integer, types[r], k)
  BY <1>4 DEF IsRead
<1>6. neg \in BOOLEAN /\ IF neg THEN x <= 0 /\ types[r] # "unsigned" ELSE x >= 0
  BY <1>2, <1>5, SoFarIs DEF Negative
<1>7. /\ (col = <<>>) <=> (k = Len(b))
      /\ Len(col) = Len(b) - k
      /\ k < Len(b) => Head(col) = b[k + 1] /\ Tail(col) = Rest(b, k + 1)
  <2> HIDE DEF b
  <2> QED BY <1>3, <1>5, RestIs DEF Text
<1>8. Reading(k)
  BY <1>2, <1>3, <1>4, <1>6, <1>7 DEF Reading
<1> QED BY <1>8

(* A column of digits has no sign left.                                    *)
LEMMA PlainIs ==
  ASSUME NEW s \in Text, NEW type, AreDigits(Body(s, type))
  PROVE  /\ Body(s, type) = Unsigned(s)
         /\ \A v : WithSign(s, v) = IF Negative(s, type) THEN -v ELSE v
         /\ DigitsTo(Body(s, type), Len(Body(s, type)))
         /\ SoFar(s, type, Len(Body(s, type))) = WithSign(s, Value(Unsigned(s)))
<1>1. "-" \notin Digits /\ "+" \notin Digits
  BY MarksAreNoDigits
<1>2. Body(s, type) \in Text /\ Len(Body(s, type)) \in Nat
  BY BodyIs
<1>3. \A k \in 1 .. Len(Body(s, type)) : Body(s, type)[k] \in Digits
  BY <1>2 DEF AreDigits, ToSet, Text
<1>4. type = "unsigned" => ~HasSign(s)
  <2> SUFFICES ASSUME type = "unsigned", HasSign(s) PROVE FALSE
    OBVIOUS
  <2>1. Head(s) = s[1] /\ 1 \in 1 .. Len(s)
    BY TextTail DEF HasSign
  <2> QED BY <2>1, <1>1, <1>3 DEF HasSign, Body
<1>5. Body(s, type) = Unsigned(s)
  BY <1>4 DEF Body, Unsigned
<1>6. \A v : WithSign(s, v) = IF Negative(s, type) THEN -v ELSE v
  BY <1>4 DEF WithSign, Negative, HasSign
<1>7. SubSeq(Body(s, type), 1, Len(Body(s, type))) = Body(s, type)
  BY <1>2 DEF Text
<1>8. SoFar(s, type, Len(Body(s, type))) = WithSign(s, Value(Unsigned(s)))
  BY <1>5, <1>6, <1>7 DEF SoFar
<1> QED BY <1>3, <1>5, <1>6, <1>8 DEF DigitsTo

(* The beginning of a column that has been read is a number of its own.    *)
LEMMA ReadBack ==
  ASSUME NEW s \in Text, NEW type \in {"signed", "unsigned"},
         NEW k \in 0 .. Len(Body(s, type)), DigitsTo(Body(s, type), k)
  PROVE  LET read == SubSeq(s, 1, Len(s) - (Len(Body(s, type)) - k))
         IN  WithSign(read, Value(Unsigned(read))) = SoFar(s, type, k)
<1> DEFINE b    == Body(s, type)
           read == SubSeq(s, 1, Len(s) - (Len(b) - k))
<1>1. "-" \notin Digits /\ "+" \notin Digits /\ b \in Text /\ Len(b) \in Nat /\ Len(s) \in Nat
  <2>1. b \in Text /\ Len(b) \in Nat
    BY BodyIs
  <2>2. Len(s) \in Nat
    BY DEF Text
  <2>3. "-" \notin Digits /\ "+" \notin Digits
    BY MarksAreNoDigits
  <2> HIDE DEF b
  <2> QED BY <2>1, <2>2, <2>3
<1>2. CASE type # "unsigned" /\ HasSign(s)
  <2>1. /\ b = Tail(s) /\ s # <<>> /\ Len(b) = Len(s) - 1 /\ Head(s) = s[1] /\ Len(s) > 0
        /\ \A j \in 1 .. Len(b) : b[j] = s[j + 1]
    BY <1>2 DEF Body, Unsigned, HasSign, Text
  <2>2. Len(s) - (Len(b) - k) = k + 1
    BY <1>1, <2>1
  <2>3. read \in Text /\ Len(read) = k + 1 /\ \A j \in 1 .. k + 1 : read[j] = s[j]
    BY <1>1, <2>1, <2>2 DEF Text
  <2>4. SubSeq(b, 1, k) \in Text /\ Len(SubSeq(b, 1, k)) = k /\ \A j \in 1 .. k : SubSeq(b, 1, k)[j] = b[j]
    BY <1>1 DEF Text
  <2> HIDE DEF read, b
  <2>5. read # <<>> /\ Head(read) = s[1] /\ Tail(read) \in Text /\ Len(Tail(read)) = k
        /\ \A j \in 1 .. k : Tail(read)[j] = read[j + 1]
    BY <2>3 DEF Text
  <2>6. Tail(read) = SubSeq(b, 1, k)
    <3>1. ASSUME NEW j \in 1 .. k PROVE Tail(read)[j] = SubSeq(b, 1, k)[j]
      <4>1. Tail(read)[j] = read[j + 1] /\ j + 1 \in 1 .. k + 1 /\ read[j + 1] = s[j + 1]
        BY <2>3, <2>5
      <4>2. SubSeq(b, 1, k)[j] = b[j] /\ j \in 1 .. Len(b) /\ b[j] = s[j + 1]
        BY <1>1, <2>1, <2>4 DEF b
      <4> QED BY <4>1, <4>2
    <3> QED BY <3>1, <2>4, <2>5, SameSequence DEF Text
  <2>7. Unsigned(read) = SubSeq(b, 1, k)
    BY <1>2, <2>1, <2>5, <2>6 DEF Unsigned, HasSign
  <2>8. \A v : WithSign(read, v) = IF Negative(s, type) THEN -v ELSE v
    BY <1>2, <2>1, <2>5 DEF WithSign, Negative
  <2> QED BY <2>7, <2>8 DEF SoFar, read, b
<1>3. CASE ~(type # "unsigned" /\ HasSign(s))
  <2>1. b = s
    BY <1>3 DEF Body, Unsigned
  <2>2. read = SubSeq(s, 1, k) /\ k \in Nat /\ k <= Len(s)
    BY <1>1, <2>1
  <2>3. read \in Text /\ Len(read) = k /\ \A j \in 1 .. k : read[j] = s[j]
    BY <2>2 DEF Text
  <2> HIDE DEF read, b
  <2>4. ~HasSign(read)
    <3> SUFFICES ASSUME HasSign(read) PROVE FALSE
      OBVIOUS
    <3>1. read # <<>> /\ Head(read) = read[1] /\ 1 \in 1 .. k
      BY <2>3, TextTail DEF HasSign
    <3>2. Head(read) = s[1] /\ s[1] \in Digits
      BY <3>1, <2>1, <2>3 DEF DigitsTo, b
    <3> QED BY <3>2, <1>1 DEF HasSign
  <2>5. Unsigned(read) = read /\ WithSign(read, Value(read)) = Value(read)
    BY <2>4 DEF Unsigned, WithSign, HasSign
  <2>6. CASE ~Negative(s, type)
    BY <2>1, <2>2, <2>5, <2>6 DEF SoFar, read, b
  <2>7. CASE Negative(s, type)
    BY <1>3, <2>7 DEF Negative, HasSign
  <2> QED BY <2>6, <2>7
<1> QED BY <1>2, <1>3

(* The longest beginning that the type can hold is where the test fails.   *)
LEMMA HeldIs ==
  ASSUME NEW s \in Text, NEW type \in {"signed", "unsigned"}, AreDigits(Body(s, type)),
         NEW k \in 0 .. Len(Body(s, type)), k < Len(Body(s, type)),
         SoFar(s, type, k) \in Values(type), SoFar(s, type, k + 1) \notin Values(type)
  PROVE  Held(s, type) = SoFar(s, type, k)
<1> DEFINE b    == Body(s, type)
           held == {n \in 0 .. Len(b) : SoFar(s, type, n) \in Values(type)}
<1>1. b = Unsigned(s) /\ Len(b) \in Nat /\ DigitsTo(b, Len(b))
      /\ \A v : WithSign(s, v) = IF Negative(s, type) THEN -v ELSE v
  BY PlainIs, BodyIs
<1>2. \A n : SoFar(s, type, n) = WithSign(s, Value(SubSeq(b, 1, n)))
  BY <1>1 DEF SoFar
<1>3. Held(s, type) = SoFar(s, type, Max(held))
  <2>1. held = {n \in 0 .. Len(Unsigned(s)) :
                  WithSign(s, Value(SubSeq(Unsigned(s), 1, n))) \in Values(type)}
    BY <1>1, <1>2
  <2> HIDE DEF held
  <2> QED BY <1>1, <1>2, <2>1 DEF Held
<1>4. ASSUME NEW n \in held PROVE n <= k
  <2> SUFFICES ASSUME ~(n <= k) PROVE FALSE
    OBVIOUS
  <2>1. n \in 0 .. Len(b) /\ k + 1 \in 0 .. n /\ k \in 0 .. Len(b) /\ SoFar(s, type, n) \in Values(type)
    BY <1>1
  <2>2. DigitsTo(b, n)
    BY <1>1, <2>1 DEF DigitsTo
  <2> DEFINE v == SoFar(s, type, n)
             w == SoFar(s, type, k + 1)
             t == Negative(s, type)
  <2>3. DigitsTo(b, k + 1) /\ k + 1 \in 0 .. Len(b)
    BY <2>1, <2>2 DEF DigitsTo
  <2>4. v \in Int /\ w \in Int /\ IF t THEN v <= w ELSE v >= w
    BY <2>1, <2>2, SoFarIs
  <2>5. IF t THEN w <= 0 ELSE w >= 0
    BY <2>3, SoFarIs
  <2>6. t => type # "unsigned"
    BY DEF Negative
  <2>7. v \in Values(type) /\ w \notin Values(type)
    BY <2>1
  <2> HIDE DEF v, w, t
  <2>8. Values(type) = IF type = "unsigned" THEN 0 .. 255 ELSE -128 .. 127
    BY ValuesAre
  <2>9. CASE t
    <3>1. v \in Int /\ w \in Int /\ v <= w /\ w <= 0
      BY <2>4, <2>5, <2>9
    <3>2. Values(type) = -128 .. 127
      BY <2>6, <2>8, <2>9
    <3>3. v \in -128 .. 127 /\ w \notin -128 .. 127
      BY <2>7, <3>2
    <3> QED BY <3>1, <3>3
  <2>10. CASE ~t
    <3>1. v \in Int /\ w \in Int /\ v >= w /\ w >= 0
      BY <2>4, <2>5, <2>10
    <3>2. \/ v \in 0 .. 255 /\ w \notin 0 .. 255
          \/ v \in -128 .. 127 /\ w \notin -128 .. 127
      BY <2>7, <2>8
    <3> QED BY <3>1, <3>2
  <2> QED BY <2>9, <2>10
<1>5. Max(held) = k
  <2>1. k \in held /\ held \in SUBSET Nat /\ k \in Nat
    BY <1>1
  <2>2. Max(held) \in held /\ k <= Max(held)
    <3> HIDE DEF held
    <3> QED BY <2>1, <1>4, Largest
  <2>3. Max(held) <= k
    <3> HIDE DEF held
    <3> QED BY <2>2, <1>4
  <2> QED BY <2>1, <2>2, <2>3
<1> QED BY <1>3, <1>5

(* Nothing of the columns before this one changes, ...                     *)
LEMMA ReadStays ==
  ASSUME StateOK, ReadOK, UNCHANGED <<inputs, cut, r>>,
         \A n \in DOMAIN types : n # r => cols'[n] = cols[n]
  PROVE  ReadOK'
<1>1. ASSUME NEW n \in DOMAIN types, n < r, row[n] # Null
      PROVE  IntegerIs(n)' /\ FloatIs(n)'
  <2>1. n # r
    BY <1>1 DEF StateOK, TypesOK, InputsOK
  <2>2. IntegerIs(n) /\ FloatIs(n) /\ cols'[n] = cols[n] /\ overflow' = overflow
        /\ types' = types /\ row' = row
    BY <1>1, <2>1 DEF ReadOK, inputs, cut
  <2>3. IntegerOf(row[n], types[n])' = IntegerOf(row[n], types[n])
    BY <2>2 DEF IntegerOf
  <2> QED BY <2>2, <2>3 DEF IntegerIs, FloatIs
<1> QED BY <1>1 DEF ReadOK, inputs, cut

(* ... and it joins them when what it is given is what is written there.   *)
Fits(value) ==
  /\ types[r] \in {"signed", "unsigned"} /\ AreDigits(Body(row[r], types[r])) =>
       value = IntegerOf(row[r], types[r])
  /\ types[r] = "float" /\ Kept(row[r]) =>
       value = FloatOf(row[r])

LEMMA ReadGrows ==
  ASSUME StateOK, ReadOK, Converts, NEW value, Assign(value), Fits(value)
  PROVE  ReadOK'
<1>1. DOMAIN types = 1 .. Len(types) /\ Len(types) \in Nat /\ r \in 1 .. Len(types)
      /\ UNCHANGED <<types, row, overflow>> /\ r' = r + 1
  <2>1. DOMAIN types = 1 .. Len(types) /\ Len(types) \in Nat /\ r \in DOMAIN types
    BY DEF StateOK, TypesOK, InputsOK, Converts
  <2> QED BY <2>1 DEF Converts, inputs, cut, Assign
<1>2. cols'[r] = <<value>> /\ \A n \in DOMAIN types : n # r => cols'[n] = cols[n]
  BY Written1 DEF Assign, Converts
<1>3. ASSUME NEW n \in DOMAIN types, n < r + 1, row[n] # Null
      PROVE  IntegerIs(n)' /\ FloatIs(n)'
  <2>1. IntegerOf(row[n], types[n])' = IntegerOf(row[n], types[n])
    BY <1>1 DEF IntegerOf
  <2>2. CASE n = r
    BY <1>1, <1>2, <2>1, <2>2 DEF Fits, IntegerIs, FloatIs
  <2>3. CASE n # r
    <3>1. IntegerIs(n) /\ FloatIs(n) /\ cols'[n] = cols[n]
      BY <1>1, <1>2, <1>3, <2>3 DEF ReadOK
    <3> QED BY <1>1, <2>1, <3>1 DEF IntegerIs, FloatIs
  <2> QED BY <2>2, <2>3
<1> QED BY <1>1, <1>3 DEF ReadOK

LEMMA DigitNumbers ==
  ASSUME Inv, Digit
  PROVE  NumbersOK'
<1> DEFINE b == Body(Integer, types[r])
<1>1. PICK k : Reading(k)
  BY ReadingIs DEF Inv, NumbersOK, Digit
<1>2. /\ UNCHANGED <<inputs, pc, cut, r, neg, then, float, cols, error>> /\ col # <<>> /\ pc = "digits"
      /\ Head(col) \in Digits /\ ~Overflows(DigitOf[Head(col)]) /\ col' = Tail(col)
      /\ x' = IF neg THEN 10 * x - DigitOf[Head(col)] ELSE 10 * x + DigitOf[Head(col)]
  BY DEF Digit
<1>3. /\ Integer \in Text /\ b \in Text /\ Len(b) \in Nat /\ k \in 0 .. Len(b) /\ k < Len(b)
      /\ Head(col) = b[k + 1] /\ Tail(col) = Rest(b, k + 1) /\ IsRead(k)
      /\ neg \in BOOLEAN /\ IF neg THEN x <= 0 /\ types[r] # "unsigned" ELSE x >= 0
  BY <1>1, <1>2 DEF Reading
<1>4. x = SoFar(Integer, types[r], k) /\ x \in Values(types[r]) /\ DigitsTo(b, k)
      /\ neg = Negative(Integer, types[r])
  BY <1>3 DEF IsRead
<1>5. k + 1 \in 0 .. Len(b) /\ k + 1 - 1 = k /\ k + 1 > 0 /\ DigitsTo(b, k + 1)
  BY <1>2, <1>3, <1>4 DEF DigitsTo
<1>6. x' = SoFar(Integer, types[r], k + 1)
  <2>1. SoFar(Integer, types[r], k + 1) =
          IF Negative(Integer, types[r]) THEN 10 * SoFar(Integer, types[r], k) - DigitOf[b[k + 1]]
                                         ELSE 10 * SoFar(Integer, types[r], k) + DigitOf[b[k + 1]]
    BY <1>3, <1>5, SoFarIs
  <2> HIDE DEF b
  <2> QED BY <1>2, <1>3, <1>4, <2>1
<1>7. x' \in Values(types[r])
  <2>1. DigitOf[Head(col)] \in 0 .. 9
    BY <1>2, DigitIs
  <2> QED BY <1>2, <1>3, <1>4, <2>1, OverflowsIs
<1>8. Integer' = Integer /\ types' = types /\ row' = row
  BY <1>2 DEF Integer, inputs, cut
<1>9. IsRead(k + 1)'
  BY <1>2, <1>3, <1>4, <1>5, <1>6, <1>7, <1>8 DEF IsRead
<1>10. DigitsOK'
  BY <1>2, <1>5, <1>8, <1>9 DEF DigitsOK
<1>11. ReadOK'
  BY <1>2, ReadStays DEF Inv, NumbersOK
<1>12. ThrownOK'
  BY <1>2 DEF ThrownOK, Inv, StateOK, ControlOK, ConversionErrors
<1> QED BY <1>2, <1>8, <1>10, <1>11, <1>12
    DEF Inv, NumbersOK, AssignOK, WholeOK, FractionOK, MarkedOK, RaiseOK, FormIs, DecimalIs, float, decimal

(* Where the test fails, the number as a whole is one the type cannot hold. *)
LEMMA BeyondIs ==
  ASSUME NEW k, Reading(k), col # <<>>, Head(col) \in Digits, Overflows(DigitOf[Head(col)])
  PROVE  LET b     == Body(Integer, types[r])
             exact == SoFar(Integer, types[r], Len(b))
         IN  /\ k < Len(b) /\ SoFar(Integer, types[r], k + 1) \notin Values(types[r])
             /\ DigitsTo(b, Len(b)) =>
                  /\ exact \in Int /\ exact \notin Values(types[r])
                  /\ neg => exact < Lowest(types[r]) /\ exact < 0
                  /\ ~neg => exact > Highest(types[r]) /\ exact >= 0
<1> DEFINE b     == Body(Integer, types[r])
           exact == SoFar(Integer, types[r], Len(b))
           z     == SoFar(Integer, types[r], k + 1)
           y     == DigitOf[Head(col)]
<1>1. /\ Integer \in Text /\ b \in Text /\ Len(b) \in Nat /\ k \in 0 .. Len(b) /\ k < Len(b)
      /\ Head(col) = b[k + 1] /\ IsRead(k)
      /\ neg \in BOOLEAN /\ IF neg THEN x <= 0 /\ types[r] # "unsigned" ELSE x >= 0
  BY DEF Reading
<1>2. /\ x = SoFar(Integer, types[r], k) /\ x \in Values(types[r]) /\ DigitsTo(b, k)
      /\ neg = Negative(Integer, types[r])
  BY <1>1 DEF IsRead
<1>3. k + 1 \in 0 .. Len(b) /\ k + 1 - 1 = k /\ k + 1 > 0 /\ DigitsTo(b, k + 1)
  BY <1>1, <1>2 DEF DigitsTo
<1>4. y \in 0 .. 9
  BY DigitIs
<1>5. z = IF neg THEN 10 * x - y ELSE 10 * x + y
  BY <1>1, <1>2, <1>3, SoFarIs
<1>6. z \notin Values(types[r])
  BY <1>1, <1>2, <1>4, <1>5, OverflowsIs
<1>7. z \in Int /\ (neg => z <= 0) /\ (~neg => z >= 0)
  BY <1>1, <1>2, <1>3, SoFarIs
<1>8. ASSUME DigitsTo(b, Len(b))
      PROVE  exact \in Int /\ (neg => exact <= z) /\ (~neg => exact >= z)
  <2>1. Len(b) \in 0 .. Len(b) /\ k + 1 \in 0 .. Len(b)
    BY <1>1
  <2> QED BY <1>1, <1>2, <1>8, <2>1, SoFarIs
<1>9. /\ Values(types[r]) = IF types[r] = "unsigned" THEN 0 .. 255 ELSE -128 .. 127
      /\ Lowest(types[r]) = IF types[r] = "unsigned" THEN 0 ELSE -128
      /\ Highest(types[r]) = IF types[r] = "unsigned" THEN 255 ELSE 127
  BY ValuesAre DEF Lowest, Highest
<1>10. ASSUME DigitsTo(b, Len(b)), neg
       PROVE  exact < Lowest(types[r]) /\ exact < 0 /\ exact \notin Values(types[r])
  <2>1. types[r] # "unsigned"
    BY <1>1, <1>10
  <2>2. z \notin -128 .. 127 /\ z <= 0 /\ z \in Int /\ exact \in Int /\ exact <= z
    BY <1>6, <1>7, <1>8, <1>9, <1>10, <2>1
  <2> HIDE DEF z, exact
  <2>3. exact < -128
    BY <2>2
  <2> QED BY <1>9, <2>1, <2>2, <2>3
<1>11. ASSUME DigitsTo(b, Len(b)), ~neg
       PROVE  exact > Highest(types[r]) /\ exact >= 0 /\ exact \notin Values(types[r])
  <2>1. z >= 0 /\ z \in Int /\ exact \in Int /\ exact >= z
    BY <1>7, <1>8, <1>11
  <2>2. CASE types[r] = "unsigned"
    <3>1. z \notin 0 .. 255
      BY <1>6, <1>9, <2>2
    <3> HIDE DEF z, exact
    <3>2. exact > 255
      BY <2>1, <3>1
    <3> QED BY <1>9, <2>1, <2>2, <3>2
  <2>3. CASE types[r] # "unsigned"
    <3>1. z \notin -128 .. 127
      BY <1>6, <1>9, <2>3
    <3> HIDE DEF z, exact
    <3>2. exact > 127
      BY <2>1, <3>1
    <3> QED BY <1>9, <2>1, <2>3, <3>2
  <2> QED BY <2>2, <2>3
<1> QED BY <1>1, <1>6, <1>8, <1>10, <1>11

(* The integer of a column, where it was read to its end and where not.    *)
LEMMA IntegerOfIs ==
  ASSUME NEW s \in Text, NEW type \in {"signed", "unsigned"}, AreDigits(Body(s, type))
  PROVE  LET exact == SoFar(s, type, Len(Body(s, type)))
         IN  IntegerOf(s, type) =
               IF exact \in Values(type) THEN exact
               ELSE IF overflow = "ignore" THEN Held(s, type)
               ELSE IF exact < Lowest(type) THEN Lowest(type) ELSE Highest(type)
<1> DEFINE exact == SoFar(s, type, Len(Body(s, type)))
<1>1. exact = WithSign(s, Value(Unsigned(s)))
  BY PlainIs
<1>2. exact \in Int
  <2>1. Len(Body(s, type)) \in 0 .. Len(Body(s, type)) /\ DigitsTo(Body(s, type), Len(Body(s, type)))
    BY BodyIs, PlainIs
  <2> QED BY <2>1, SoFarIs
<1>3. IntegerOf(s, type) = IF exact \in Values(type) THEN exact
                           ELSE IF overflow = "ignore" THEN Held(s, type) ELSE Nearest(exact, type)
  BY <1>1 DEF IntegerOf
<1> HIDE DEF exact
<1>4. Nearest(exact, type) = IF exact < Lowest(type) THEN Lowest(type)
                             ELSE IF exact > Highest(type) THEN Highest(type) ELSE exact
  <2>1. Lowest(type) \in Int /\ Highest(type) \in Int /\ Lowest(type) <= Highest(type)
    BY DEF Lowest, Highest
  <2> QED BY <1>2, <2>1, NearestIs DEF Nearest
<1>5. exact \notin Values(type) => exact < Lowest(type) \/ exact > Highest(type)
  BY <1>2 DEF Values, Lowest, Highest
<1>6. ~(exact < Lowest(type) /\ exact > Highest(type))
  BY <1>2 DEF Lowest, Highest
<1>7. IntegerOf(s, type) =
        IF exact \in Values(type) THEN exact
        ELSE IF overflow = "ignore" THEN Held(s, type)
        ELSE IF exact < Lowest(type) THEN Lowest(type) ELSE Highest(type)
  BY <1>3, <1>4, <1>5, <1>6
<1> QED BY <1>7 DEF exact

LEMMA CutBack ==
  ASSUME StateOK, Converts, pc = "digits", NEW k, Reading(k), NEW kind, Abandon(kind, x),
         then = "assign", UNCHANGED col
  PROVE  CutOff'
<1> DEFINE b == Body(row[r], types[r])
<1>1. /\ types[r] \in {"signed", "unsigned"} /\ Integer = row[r] /\ r' = r
      /\ row' = row /\ types' = types /\ cols'[r] = <<x>>
  BY Written1 DEF StateOK, ControlOK, Integer, Abandon, Converts, inputs, cut
<1>2. row[r] \in Text /\ k \in 0 .. Len(b) /\ IsRead(k) /\ Len(col) = Len(b) - k
  BY <1>1 DEF Reading
<1>3. DigitsTo(b, k) /\ x = SoFar(row[r], types[r], k)
  BY <1>1, <1>2 DEF IsRead
<1> DEFINE read == SubSeq(row[r], 1, Len(row[r]) - Len(col))
<1>4. WithSign(read, Value(Unsigned(read))) = x
  BY <1>1, <1>2, <1>3, ReadBack
<1> QED BY <1>1, <1>4 DEF CutOff

LEMMA OverflowNumbers ==
  ASSUME Inv, Overflow
  PROVE  NumbersOK'
<1> DEFINE b     == Body(Integer, types[r])
           exact == SoFar(Integer, types[r], Len(b))
<1>1. PICK k : Reading(k)
  BY ReadingIs DEF Inv, NumbersOK, Overflow
<1>2. /\ UNCHANGED <<inputs, cut, col, neg, then, float>> /\ pc = "digits" /\ col # <<>>
      /\ Head(col) \in Digits /\ Overflows(DigitOf[Head(col)])
  BY DEF Overflow
<1>3. StateOK /\ Converts /\ error = "none"
  BY <1>2 DEF Inv, StateOK, ControlOK, Converts, Converting
<1>4. /\ Integer \in Text /\ Len(b) \in Nat /\ k \in 0 .. Len(b) /\ k < Len(b) /\ IsRead(k)
      /\ SoFar(Integer, types[r], k + 1) \notin Values(types[r])
  BY <1>1, <1>2, BeyondIs DEF Reading
<1>5. /\ x = SoFar(Integer, types[r], k) /\ x \in Values(types[r])
      /\ DigitsTo(b, Len(b)) =>
           /\ exact \in Int /\ exact \notin Values(types[r])
           /\ neg => exact < Lowest(types[r]) /\ exact < 0
           /\ ~neg => exact > Highest(types[r]) /\ exact >= 0
  BY <1>1, <1>2, <1>4, BeyondIs DEF IsRead
<1>6. TypeMin = Lowest(types[r]) /\ TypeMax = Highest(types[r])
  BY ValuesAre
<1>7. CASE then = "power"
  <2>1. /\ pc' = "power" /\ UNCHANGED <<r, cols, error>> /\ types[r] = "float"
        /\ types' = types /\ row' = row
    BY <1>2, <1>7 DEF Overflow, Inv, StateOK, ControlOK, inputs, cut
  <2>2. ReadOK'
    BY <1>2, <1>3, <2>1, ReadStays DEF Inv, NumbersOK
  <2>3. ~Kept(row[r])
    <3> SUFFICES ASSUME Kept(row[r]) PROVE FALSE
      OBVIOUS
    <3>1. Integer = Power(Unsigned(row[r])) /\ b = Unsigned(Integer)
      BY <1>7, <2>1 DEF Integer, Body
    <3>2. AreDigits(b) /\ Ten(row[r]) = WithSign(Integer, Value(b)) /\ Ten(row[r]) \in -127 .. 127
      BY <3>1 DEF Kept, Ten
    <3>3. DigitsTo(b, Len(b)) /\ exact = Ten(row[r])
      BY <1>4, <3>1, <3>2, PlainIs
    <3>4. exact \notin -128 .. 127
      BY <1>5, <2>1, <3>3, ValuesAre
    <3> QED BY <3>2, <3>3, <3>4
  <2>4. MarkedOK'
    BY <1>2, <1>7, <2>1, <2>3 DEF Inv, NumbersOK, MarkedOK, FormIs, DecimalIs, float, decimal
  <2> QED BY <1>3, <2>1, <2>2, <2>4
      DEF NumbersOK, DigitsOK, AssignOK, ThrownOK, WholeOK, FractionOK, RaiseOK, ConversionErrors
<1>8. CASE then # "power"
  <2>1. /\ then = "assign" /\ types[r] \in {"signed", "unsigned"} /\ types' = types /\ row' = row
        /\ overflow' = overflow /\ Integer = row[r]
    BY <1>2, <1>8 DEF Inv, StateOK, ControlOK, inputs, cut, Integer
  <2>2. AreDigits(b) => DigitsTo(b, Len(b)) /\ exact = WithSign(row[r], Value(Unsigned(row[r])))
    BY <1>4, <2>1, PlainIs
  <2>3. CASE overflow = "throw"
    <3>1. /\ Abandon(IF neg THEN "integer_underflow" ELSE "integer_overflow", x)
          /\ r' = r /\ pc' = "thrown"
          /\ error' = IF neg THEN "integer_underflow" ELSE "integer_overflow"
      BY <1>8, <2>3 DEF Overflow, Abandon, Throw
    <3>2. CutOff'
      BY <1>1, <1>2, <1>3, <2>1, <3>1, CutBack
    <3>3. \A n \in DOMAIN types : n # r => cols'[n] = cols[n]
      BY <1>3, <3>1, Written1 DEF Abandon, Converts
    <3>4. ReadOK'
      BY <1>2, <1>3, <3>1, <3>3, ReadStays DEF Inv, NumbersOK
    <3>5. neg \in BOOLEAN
      BY <1>1 DEF Reading
    <3>6. IntegerThrown'
      <4>1. ASSUME AreDigits(b)
            PROVE  /\ exact \notin Values(types[r]) /\ overflow = "throw"
                   /\ error' = IF exact < 0 THEN "integer_underflow" ELSE "integer_overflow"
        BY <1>5, <2>2, <2>3, <3>1, <3>5, <4>1
      <4> QED BY <2>1, <2>2, <3>1, <4>1 DEF IntegerThrown
    <3> QED BY <2>1, <3>1, <3>2, <3>4, <3>6
        DEF NumbersOK, DigitsOK, AssignOK, ThrownOK, WholeOK, FractionOK, MarkedOK, RaiseOK
  <2>4. CASE overflow # "throw"
    <3>1. /\ pc' = "assign" /\ UNCHANGED <<r, cols, error>>
          /\ x' = IF overflow = "ignore" THEN x ELSE IF neg THEN TypeMin ELSE TypeMax
      BY <1>2, <1>8, <2>1, <2>4 DEF Overflow
    <3>2. ReadOK'
      BY <1>2, <1>3, <3>1, ReadStays DEF Inv, NumbersOK
    <3>3. ASSUME AreDigits(b) PROVE x' = IntegerOf(row[r], types[r])
      <4>1. IntegerOf(row[r], types[r]) =
              IF exact \in Values(types[r]) THEN exact
              ELSE IF overflow = "ignore" THEN Held(row[r], types[r])
              ELSE IF exact < Lowest(types[r]) THEN Lowest(types[r]) ELSE Highest(types[r])
        BY <1>4, <2>1, <3>3, IntegerOfIs
      <4>2. Held(row[r], types[r]) = x
        BY <1>4, <1>5, <2>1, <3>3, HeldIs
      <4>3. neg \in BOOLEAN /\ Lowest(types[r]) <= Highest(types[r])
            /\ Lowest(types[r]) \in Int /\ Highest(types[r]) \in Int
        BY <1>1 DEF Reading, Lowest, Highest
      <4>4. exact \notin Values(types[r]) /\ exact \in Int /\ (neg => exact < Lowest(types[r]))
            /\ (~neg => exact > Highest(types[r]))
        BY <1>5, <2>2, <3>3
      <4> HIDE DEF exact
      <4>5. neg <=> exact < Lowest(types[r])
        BY <4>3, <4>4
      <4> QED BY <1>6, <3>1, <4>1, <4>2, <4>4, <4>5
    <3>4. IntegerOf(row[r], types[r])' = IntegerOf(row[r], types[r])
      BY <2>1, <3>1 DEF IntegerOf
    <3>5. AssignOK'
      BY <2>1, <3>1, <3>3, <3>4 DEF AssignOK
    <3> QED BY <1>3, <2>1, <3>1, <3>2, <3>5
        DEF NumbersOK, DigitsOK, ThrownOK, WholeOK, FractionOK, MarkedOK, RaiseOK, ConversionErrors
  <2> QED BY <2>3, <2>4
<1> QED BY <1>7, <1>8

LEMMA EndDigitsNumbers ==
  ASSUME Inv, EndDigits
  PROVE  NumbersOK'
<1> DEFINE b     == Body(Integer, types[r])
           exact == SoFar(Integer, types[r], Len(b))
<1>1. PICK k : Reading(k)
  BY ReadingIs DEF Inv, NumbersOK, EndDigits
<1>2. UNCHANGED <<inputs, cut, col, x, neg, then, float>> /\ pc = "digits"
  BY DEF EndDigits, int
<1>3. StateOK /\ Converts /\ error = "none" /\ types' = types /\ row' = row /\ overflow' = overflow
  BY <1>2 DEF Inv, StateOK, ControlOK, Converts, Converting, inputs, cut
<1>4. /\ Integer \in Text /\ b \in Text /\ Len(b) \in Nat /\ k \in 0 .. Len(b) /\ IsRead(k)
      /\ (col = <<>>) <=> (k = Len(b))
      /\ k < Len(b) => Head(col) = b[k + 1]
  BY <1>1 DEF Reading
<1>5. x = SoFar(Integer, types[r], k) /\ x \in Values(types[r])
  BY <1>4 DEF IsRead
<1>6. CASE col = <<>>
  <2>1. pc' = then /\ UNCHANGED <<r, cols, error>> /\ x = exact
    BY <1>4, <1>5, <1>6 DEF EndDigits
  <2>2. ReadOK'
    BY <1>2, <1>3, <2>1, ReadStays DEF Inv, NumbersOK
  <2>3. CASE then = "power"
    <3>1. types[r] = "float" /\ Integer = Power(Unsigned(row[r])) /\ b = Unsigned(Integer)
      BY <1>2, <2>3 DEF Inv, StateOK, ControlOK, Integer, Body
    <3>2. ASSUME Kept(row[r]) PROVE x = Ten(row[r])
      <4>1. AreDigits(b) /\ Ten(row[r]) = WithSign(Integer, Value(b))
        BY <3>1, <3>2 DEF Kept, Ten
      <4>2. exact = WithSign(Integer, Value(b))
        BY <1>4, <3>1, <4>1, PlainIs
      <4> QED BY <2>1, <4>1, <4>2
    <3>3. MarkedOK'
      BY <1>2, <1>3, <2>1, <2>3, <3>2 DEF Inv, NumbersOK, MarkedOK, FormIs, DecimalIs, float,
         decimal
    <3> QED BY <1>3, <2>1, <2>2, <2>3, <3>3
        DEF NumbersOK, DigitsOK, AssignOK, ThrownOK, WholeOK, FractionOK, RaiseOK, ConversionErrors
  <2>4. CASE then # "power"
    <3>1. then = "assign" /\ types[r] \in {"signed", "unsigned"} /\ Integer = row[r]
      BY <1>2, <2>4 DEF Inv, StateOK, ControlOK, Integer
    <3>2. ASSUME AreDigits(b) PROVE x = IntegerOf(row[r], types[r])
      BY <1>4, <1>5, <2>1, <3>1, <3>2, IntegerOfIs
    <3>3. IntegerOf(row[r], types[r])' = IntegerOf(row[r], types[r])
      BY <1>3, <2>1 DEF IntegerOf
    <3>4. AssignOK'
      BY <1>2, <1>3, <2>1, <3>1, <3>2, <3>3 DEF AssignOK
    <3> QED BY <1>3, <2>1, <2>2, <3>1, <3>4
        DEF NumbersOK, DigitsOK, ThrownOK, WholeOK, FractionOK, MarkedOK, RaiseOK, ConversionErrors
  <2> QED BY <2>3, <2>4
<1>7. CASE col # <<>>
  <2>1. /\ Head(col) \notin Digits /\ r' = r /\ pc' = "thrown"
        /\ Abandon("no_digit", IF then = "power" THEN Float(form, mantissa, scale) ELSE x)
    BY <1>7 DEF EndDigits, Abandon, Throw
  <2>2. \A n \in DOMAIN types : n # r => cols'[n] = cols[n]
    BY <1>3, <2>1, Written1 DEF Abandon, Converts
  <2>3. ReadOK'
    BY <1>2, <1>3, <2>1, <2>2, ReadStays DEF Inv, NumbersOK
  <2>4. ~AreDigits(b)
    <3>1. b[k + 1] \notin Digits /\ k + 1 \in 1 .. Len(b)
      BY <1>4, <1>7, <2>1
    <3> QED BY <1>4, <3>1 DEF AreDigits, ToSet, Text
  <2>5. CutOff' /\ IntegerThrown'
    <3>1. CASE then = "power"
      <4>1. types[r] = "float"
        BY <1>2, <3>1 DEF Inv, StateOK, ControlOK
      <4> QED BY <1>3, <2>1, <4>1 DEF CutOff, IntegerThrown
    <3>2. CASE then # "power"
      <4>1. then = "assign" /\ Integer = row[r]
        BY <1>2, <3>2 DEF Inv, StateOK, ControlOK, Integer
      <4>2. CutOff'
        BY <1>1, <1>2, <1>3, <2>1, <3>2, <4>1, CutBack
      <4> QED BY <1>3, <2>1, <2>4, <4>1, <4>2 DEF IntegerThrown
    <3> QED BY <3>1, <3>2
  <2> QED BY <2>1, <2>3, <2>5
      DEF NumbersOK, DigitsOK, AssignOK, ThrownOK, WholeOK, FractionOK, MarkedOK, RaiseOK
<1> QED BY <1>6, <1>7

(* Steps after which nothing of a number is left open.                     *)
LEMMA BetweenNumbers ==
  ASSUME Inv, ReadOK', pc' \in {"cut", "next", "thrown"}, error' \notin ConversionErrors
  PROVE  NumbersOK'
  BY DEF NumbersOK, DigitsOK, AssignOK, ThrownOK, WholeOK, FractionOK, MarkedOK, RaiseOK

LEMMA AssignsNumbers ==
  ASSUME Inv, Converts, NEW value, Assign(value), Fits(value), UNCHANGED error
  PROVE  NumbersOK'
<1>1. error' \notin ConversionErrors /\ pc' = "next"
  BY DEF Inv, StateOK, ControlOK, Converts, Converting, ConversionErrors, Assign
<1>2. ReadOK'
  BY ReadGrows DEF Inv, NumbersOK
<1> QED BY <1>1, <1>2, BetweenNumbers

LEMMA OtherNumbers ==
  ASSUME Inv, CutColumn \/ CutDone \/ SkipColumn \/ TakeText \/ StartNumber \/ AssignInteger
  PROVE  NumbersOK'
<1>1. CASE CutColumn \/ CutDone
  <2>1. /\ UNCHANGED <<inputs, r, cols>> /\ r = 1 /\ pc' \in {"cut", "next", "thrown"}
        /\ error' \notin ConversionErrors
    BY <1>1 DEF CutColumn, CutDone, Throw, Inv, StateOK, ControlOK, ConversionErrors
  <2>2. ReadOK'
    <3>1. \A n \in DOMAIN types : ~(n < r)
      BY <2>1 DEF Inv, StateOK, TypesOK, InputsOK
    <3> QED BY <2>1, <3>1 DEF ReadOK, inputs
  <2> QED BY <2>1, <2>2, BetweenNumbers
<1>2. CASE SkipColumn
  <2>1. /\ UNCHANGED <<inputs, pc, cut, cols, error>> /\ r' = r + 1 /\ pc = "next" /\ row[r] = Null
        /\ error' \notin ConversionErrors
    BY <1>2 DEF SkipColumn, Inv, StateOK, ControlOK, ConversionErrors
  <2>2. ReadOK'
    <3>1. DOMAIN types = 1 .. Len(types) /\ r \in Nat
      BY DEF Inv, StateOK, TypesOK, InputsOK
    <3>2. \A n \in DOMAIN types : n < r + 1 /\ row[n] # Null => n < r
      BY <2>1, <3>1
    <3>3. ASSUME NEW n \in DOMAIN types, n < r + 1, row[n] # Null PROVE IntegerIs(n)' /\ FloatIs(n)'
      <4>1. IntegerIs(n) /\ FloatIs(n)
        BY <3>2, <3>3 DEF Inv, NumbersOK, ReadOK
      <4>2. IntegerOf(row[n], types[n])' = IntegerOf(row[n], types[n])
        BY <2>1 DEF IntegerOf, inputs, cut
      <4> QED BY <2>1, <4>1, <4>2 DEF IntegerIs, FloatIs, inputs, cut
    <3> QED BY <2>1, <3>3 DEF ReadOK, inputs, cut
  <2> QED BY <2>1, <2>2, BetweenNumbers
<1>3. CASE TakeText
  <2>1. /\ UNCHANGED <<inputs, cut>> /\ pc = "next" /\ r <= Len(types) /\ row[r] # Null
        /\ types[r] \in {"text", "char"} /\ types' = types /\ row' = row
    BY <1>3 DEF TakeText, inputs, cut
  <2>2. Converts /\ StateOK
    BY <2>1 DEF Converts, Inv, StateOK, TypesOK, InputsOK
  <2>3. ASSUME NEW value, Assign(value), UNCHANGED error PROVE NumbersOK'
    BY <2>1, <2>2, <2>3, AssignsNumbers DEF Fits
  <2>4. ASSUME Throw("invalid_single_character"), r' = r,
               \A n \in DOMAIN types : n # r => cols'[n] = cols[n]
        PROVE  NumbersOK'
    <3>1. ReadOK'
      BY <2>1, <2>2, <2>4, ReadStays DEF Inv, NumbersOK
    <3>2. CutOff' /\ IntegerThrown'
      BY <2>1, <2>4 DEF CutOff, IntegerThrown
    <3> QED BY <2>4, <3>1, <3>2
        DEF NumbersOK, DigitsOK, AssignOK, ThrownOK, WholeOK, FractionOK, MarkedOK, RaiseOK, Throw
  <2>5. ASSUME NEW value, Abandon("invalid_single_character", value) PROVE NumbersOK'
    <3>1. \A n \in DOMAIN types : n # r => cols'[n] = cols[n]
      BY <2>2, <2>5, Written1 DEF Abandon, Converts
    <3> QED BY <2>4, <2>5, <3>1 DEF Abandon
  <2> QED BY <1>3, <2>3, <2>4, <2>5 DEF TakeText
<1>4. CASE StartNumber
  <2> DEFINE s    == row[r]
             sign == types[r] # "unsigned" /\ s # <<>> /\ Head(s) \in {"-", "+"}
  <2>1. /\ UNCHANGED <<inputs, cut, r, cols, error>> /\ r \in DOMAIN types /\ error = "none"
        /\ s \in Text /\ types' = types /\ row' = row
        /\ col' = (IF sign THEN Tail(s) ELSE s) /\ neg' = (sign /\ Head(s) = "-")
        /\ x' = 0 /\ then' = "assign"
        /\ form' = "finite" /\ mantissa' = 0 /\ scale' = 0 /\ size' = 0
        /\ pc' = IF types[r] = "float" THEN "whole" ELSE "digits"
    BY <1>4 DEF StartNumber, Inv, StateOK, TypesOK, InputsOK, ControlOK, inputs, cut
  <2>2. ReadOK'
    BY <2>1, ReadStays DEF Inv, NumbersOK
  <2> DEFINE b == Body(s, types[r])
  <2>3. /\ col' = b /\ neg' = Negative(s, types[r]) /\ b \in Text /\ Len(b) \in Nat
        /\ b = Rest(b, 0) /\ 0 \in 0 .. Len(b) /\ DigitsTo(b, 0)
    <3>1. col' = b
      BY <2>1 DEF Body, Unsigned, HasSign
    <3>2. neg' = Negative(s, types[r])
      BY <2>1 DEF Negative
    <3>3. b \in Text /\ Len(b) \in Nat
      BY <2>1, BodyIs
    <3>4. b = Rest(b, 0)
      <4> HIDE DEF b
      <4> QED BY <3>3, RestIs DEF Text
    <3> QED BY <3>1, <3>2, <3>3, <3>4 DEF DigitsTo
  <2>4. SoFar(s, types[r], 0) = 0
    BY <2>1, <2>3, SoFarIs
  <2>5. DigitsOK'
    <3>1. Integer' = s
      BY <2>1 DEF Integer
    <3>2. 0 \in Values(types[r])
      BY ValuesAre
    <3>3. IsRead(0)'
      BY <2>1, <2>3, <2>4, <3>1, <3>2 DEF IsRead
    <3> QED BY <2>1, <2>3, <3>1, <3>3 DEF DigitsOK
  <2>6. WholeOK'
    <3> SUFFICES ASSUME pc' = "whole" PROVE WholeOK'
      BY DEF WholeOK
    <3>1. types[r] = "float" /\ b = Unsigned(s)
      BY <2>1 DEF Body
    <3>2. Value(SubSeq(b, 1, 0)) = 0 /\ Size(SubSeq(b, 1, 0)) = 0
      BY <2>3, ValueIs, NoSize DEF Text, DigitsTo
    <3>3. FormIs'
      BY <2>1 DEF FormIs
    <3> QED BY <2>1, <2>3, <3>1, <3>2, <3>3 DEF WholeOK, DecimalIs
  <2> QED BY <2>1, <2>2, <2>5, <2>6
      DEF NumbersOK, AssignOK, ThrownOK, FractionOK, MarkedOK, RaiseOK, ConversionErrors
<1>5. CASE AssignInteger
  <2>1. /\ UNCHANGED <<inputs, cut, error>> /\ pc = "assign" /\ Assign(x)
    BY <1>5 DEF AssignInteger
  <2>2. Converts /\ types[r] \in {"signed", "unsigned"}
    BY <2>1 DEF Converts, Converting, Inv, StateOK, ControlOK
  <2>3. Fits(x)
    BY <2>1, <2>2 DEF Fits, Inv, NumbersOK, AssignOK
  <2> QED BY <2>1, <2>2, <2>3, AssignsNumbers
<1> QED BY <1>1, <1>2, <1>3, <1>4, <1>5

-----------------------------------------------------------------------------
(* The parts of a float                                                    *)

LEMMA ValueAppend ==
  ASSUME NEW t \in Text, NEW u \in Text, NEW n \in Nat, Len(t) = n, Len(u) = n + 1,
         \A j \in 1 .. n : u[j] = t[j], \A j \in 1 .. n + 1 : u[j] \in Digits
  PROVE  Value(u) = 10 * Value(t) + DigitOf[u[n + 1]]
<1>1. SubSeq(u, 1, n + 1) = u
  BY DEF Text
<1>2. SubSeq(u, 1, n) = t
  <2>1. SubSeq(u, 1, n) \in Text /\ Len(SubSeq(u, 1, n)) = n /\ \A j \in 1 .. n : SubSeq(u, 1, n)[j] = u[j]
    BY DEF Text
  <2> QED BY <2>1, SameSequence DEF Text
<1>3. n + 1 \in 0 .. Len(u) /\ n + 1 > 0 /\ n + 1 - 1 = n /\ u \in Seq(Letters)
  BY DEF Text
<1>4. Value(SubSeq(u, 1, n + 1)) = 10 * Value(SubSeq(u, 1, n + 1 - 1)) + DigitOf[u[n + 1]]
  BY <1>3, ValueIs
<1> QED BY <1>1, <1>2, <1>3, <1>4

(* The digits before a place, and those behind the point between them.     *)
Shape(s, k, m) ==
  /\ k \in 0 .. Len(s) /\ m \in 0 .. Len(s) /\ DigitsTo(s, k)
  /\ m # k => k < m /\ s[k + 1] \in Points /\ \A j \in k + 2 .. m : s[j] \in Digits

LEMMA PartsAre ==
  ASSUME NEW s \in Text, NEW k \in Nat, NEW m \in Nat, Shape(s, k, m), m < Len(s) => s[m + 1] \in {"e", "E"}
  PROVE  /\ Whole(s) = SubSeq(s, 1, k) /\ Part(s) = SubSeq(s, k + 2, m)
         /\ Power(s) = SubSeq(s, m + 2, Len(s))
         /\ Len(Part(s)) = IF m = k THEN 0 ELSE m - k - 1
<1> DEFINE ends   == Mark(s, {"e", "E"})
           points == Mark(s, Points)
<1>1. Len(s) \in Nat /\ k \in 0 .. m /\ m \in 0 .. Len(s)
  <2>1. Len(s) \in Nat
    BY DEF Text
  <2> QED BY <2>1 DEF Shape
<1>2. \A j \in 1 .. m : s[j] \notin {"e", "E", "NUL"}
  <2>1. ASSUME NEW j \in 1 .. m PROVE s[j] \notin {"e", "E", "NUL"}
    <3>1. s[j] \in Digits \/ s[j] \in Points
      <4>1. j \in 1 .. k \/ (m # k /\ j = k + 1) \/ (m # k /\ j \in k + 2 .. m)
        BY <1>1
      <4> QED BY <4>1 DEF Shape, DigitsTo
    <3> QED BY <3>1, MarksAreNoDigits
  <2> QED BY <2>1
<1>3. \A j \in 1 .. k : s[j] \notin Points \cup {"NUL"}
  BY <1>1, MarksAreNoDigits DEF Shape, DigitsTo
<1>4. /\ ends \in 1 .. Len(s) + 1 /\ (ends <= Len(s) => s[ends] \in {"e", "E", "NUL"})
      /\ \A j \in 1 .. Len(s) : s[j] \in {"e", "E"} => ends <= j
  <2>1. /\ ends \in 1 .. Len(s) + 1 /\ (ends <= Len(s) => s[ends] \in {"e", "E"} \cup {"NUL"})
        /\ \A j \in 1 .. Len(s) : s[j] \in {"e", "E"} => ends <= j
    BY MarkIs
  <2> HIDE DEF ends
  <2> QED BY <2>1
<1>5. ends = m + 1
  <2> HIDE DEF ends
  <2>1. ~(ends <= m)
    BY <1>1, <1>2, <1>4
  <2>2. ends <= m + 1
    <3>1. m + 1 \in 1 .. Len(s) + 1
      BY <1>1
    <3> QED BY <1>1, <1>4, <3>1
  <2> QED BY <1>1, <1>4, <2>1, <2>2
<1>6. /\ points \in 1 .. Len(s) + 1 /\ (points <= Len(s) => s[points] \in Points \cup {"NUL"})
      /\ \A j \in 1 .. Len(s) : s[j] \in Points => points <= j
  <2>1. /\ points \in 1 .. Len(s) + 1 /\ (points <= Len(s) => s[points] \in Points \cup {"NUL"})
        /\ \A j \in 1 .. Len(s) : s[j] \in Points => points <= j
    BY MarkIs
  <2> HIDE DEF points
  <2> QED BY <2>1
<1>7. Point(s) = k + 1
  <2>1. Point(s) = Min({points, ends})
    BY DEF Point
  <2> HIDE DEF points, ends
  <2>2. ~(points <= k)
    BY <1>1, <1>3, <1>6
  <2>3. m # k => k + 1 \in 1 .. Len(s) /\ s[k + 1] \in Points
    BY <1>1 DEF Shape
  <2>4. m # k => points = k + 1
    BY <1>1, <1>6, <2>2, <2>3
  <2>5. Min({points, ends}) = IF points <= ends THEN points ELSE ends
    <3>1. points \in Int /\ ends \in Int
      BY <1>1, <1>4, <1>6
    <3> QED BY <3>1 DEF Min
  <2> QED BY <1>1, <1>4, <1>5, <1>6, <2>1, <2>2, <2>4, <2>5
<1>8. /\ Whole(s) = SubSeq(s, 1, k + 1 - 1) /\ Part(s) = SubSeq(s, k + 1 + 1, m + 1 - 1)
      /\ Power(s) = SubSeq(s, m + 1 + 1, Len(s))
  <2>1. Whole(s) = SubSeq(s, 1, Point(s) - 1) /\ Part(s) = SubSeq(s, Point(s) + 1, ends - 1)
        /\ Power(s) = SubSeq(s, ends + 1, Len(s))
    BY DEF Whole, Part, Power
  <2> HIDE DEF ends
  <2> QED BY <1>5, <1>7, <2>1
<1>9. k + 1 - 1 = k /\ k + 1 + 1 = k + 2 /\ m + 1 - 1 = m /\ m + 1 + 1 = m + 2
  BY <1>1
<1>10. Len(SubSeq(s, k + 2, m)) = IF m = k THEN 0 ELSE m - k - 1
  BY <1>1 DEF Text
<1> QED BY <1>8, <1>9, <1>10

(* What has been read of a float: k digits before its point, m characters. *)
FloatRead(k, m) ==
  LET b == Unsigned(row[r])
  IN  /\ Shape(b, k, m) /\ col = Rest(b, m) /\ k <= m
      /\ FormIs
      /\ (IF m = k THEN 0 ELSE m - k - 1) <= MaxPower =>
           DecimalIs(SubSeq(b, 1, k) \o SubSeq(b, k + 2, m), IF m = k THEN 0 ELSE k + 1 - m)
      /\ (pc = "whole") <=> (m = k)

LEMMA FloatReading ==
  ASSUME Inv, pc \in {"whole", "fraction"}
  PROVE  LET b == Unsigned(row[r])
         IN  /\ row[r] \in Text /\ b \in Text /\ Len(b) \in Nat
             /\ \E k, m \in 0 .. Len(b) : FloatRead(k, m)
<1> DEFINE b == Unsigned(row[r])
<1>1. row[r] \in Text /\ b \in Text /\ Len(b) \in Nat
  <2>1. row[r] \in Text
    BY DEF Inv, StateOK, TypesOK, ControlOK, Converting
  <2> QED BY <2>1, BodyIs DEF Text
<1>2. \E k, m \in 0 .. Len(b) : FloatRead(k, m)
  <2>1. CASE pc = "whole"
    <3>1. PICK k \in 0 .. Len(b) : col = Rest(b, k) /\ DigitsTo(b, k)
                                  /\ DecimalIs(SubSeq(b, 1, k), 0) /\ FormIs
      BY <2>1 DEF Inv, NumbersOK, WholeOK
    <3>2. SubSeq(b, 1, k) \o SubSeq(b, k + 2, k) = SubSeq(b, 1, k)
      <4> HIDE DEF b
      <4>1. SubSeq(b, k + 2, k) = <<>> /\ SubSeq(b, 1, k) \in Seq(Letters)
        BY <1>1 DEF Text
      <4> QED BY <4>1
    <3>3. FloatRead(k, k)
      <4>1. k \in Nat /\ k <= k
        BY <1>1
      <4> QED BY <1>1, <2>1, <3>1, <3>2, <4>1 DEF Shape, FloatRead
    <3> QED BY <3>3
  <2>2. CASE pc = "fraction"
    <3>1. PICK k \in 0 .. Len(b), m \in 0 .. Len(b) :
            /\ k < m /\ DigitsTo(b, k) /\ b[k + 1] \in Points
            /\ \A j \in k + 2 .. m : b[j] \in Digits
            /\ col = Rest(b, m) /\ FormIs
            /\ m - k - 1 <= MaxPower =>
                 DecimalIs(SubSeq(b, 1, k) \o SubSeq(b, k + 2, m), k + 1 - m)
      BY <2>2 DEF Inv, NumbersOK, FractionOK
    <3>2. FloatRead(k, m)
      <4>1. k \in Nat /\ m \in Nat /\ k <= m /\ m # k
        BY <1>1, <3>1
      <4> QED BY <1>1, <2>2, <3>1, <4>1 DEF Shape, FloatRead
    <3> QED BY <3>2
  <2> QED BY <2>1, <2>2
<1> QED BY <1>1, <1>2

(* The character at which it is.                                           *)
LEMMA FloatAt ==
  ASSUME NEW b \in Text, NEW m \in 0 .. Len(b), col = Rest(b, m)
  PROVE  /\ (col = <<>>) <=> (m = Len(b))
         /\ m < Len(b) => /\ Head(col) = b[m + 1] /\ Tail(col) = Rest(b, m + 1)
                          /\ At(col, 1) = b[m + 1] /\ At(col, 1) \in Letters
         /\ m = Len(b) => At(col, 1) = "NUL"
         /\ col \in Text /\ Len(col) = Len(b) - m
<1>1. /\ col \in Text /\ Len(col) = Len(b) - m /\ Len(b) \in Nat
      /\ (col = <<>>) <=> (m = Len(b))
      /\ m < Len(b) => Head(col) = b[m + 1] /\ Tail(col) = Rest(b, m + 1)
  BY RestIs DEF Text
<1>2. m < Len(b) => Head(col) = col[1] /\ 1 \in DOMAIN col
  BY <1>1 DEF Text
<1>3. m = Len(b) => 1 \notin DOMAIN col
  BY <1>1
<1>4. m < Len(b) => b[m + 1] \in Letters
  BY <1>1 DEF Text
<1> QED BY <1>1, <1>2, <1>3, <1>4 DEF At

LEMMA FloatDigitForm ==
  ASSUME FormIs, FloatDigit
  PROVE  FormIs'
<1>1. CASE pc = "fraction" /\ scale = -MaxPower
  BY <1>1 DEF FloatDigit, FormIs, decimal
<1>2. CASE ~(pc = "fraction" /\ scale = -MaxPower)
  <2> DEFINE y == DigitOf[Head(col)]
  <2>1. y \in 0 .. 9
    BY DigitIs DEF FloatDigit
  <2>2. /\ mantissa' = 10 * mantissa + y
        /\ scale' = IF pc = "fraction" THEN scale - 1 ELSE scale
        /\ size' = IF mantissa' = 0 THEN size ELSE size + 1
        /\ form' = IF mantissa' # 0 /\ size' - 1 + scale' > MaxPower THEN "inf" ELSE form
    BY <1>2 DEF FloatDigit
  <2> HIDE DEF y
  <2>3. /\ mantissa \in Nat /\ size \in Nat /\ scale \in Int /\ MaxPower \in Nat
        /\ form = IF mantissa # 0 /\ size - 1 + scale > MaxPower THEN "inf" ELSE "finite"
    BY RowConstants DEF FormIs
  <2>4. mantissa' \in Nat /\ (mantissa # 0 => mantissa' # 0)
    BY <2>1, <2>2, <2>3
  <2>5. size' \in Nat /\ scale' \in Int /\ (mantissa' # 0 => size' > 0)
    BY <2>2, <2>3, <2>4
  <2>6. mantissa # 0 /\ size - 1 + scale > MaxPower =>
          mantissa' # 0 /\ size' - 1 + scale' > MaxPower
    BY <2>2, <2>3, <2>4, <2>5
  <2>7. form' = IF mantissa' # 0 /\ size' - 1 + scale' > MaxPower THEN "inf" ELSE "finite"
    <3>1. CASE mantissa # 0 /\ size - 1 + scale > MaxPower
      BY <2>2, <2>3, <2>6, <3>1
    <3>2. CASE ~(mantissa # 0 /\ size - 1 + scale > MaxPower)
      <4>1. form = "finite"
        BY <2>3, <3>2
      <4> QED BY <2>2, <4>1
    <3> QED BY <3>1, <3>2
  <2>8. (MaxPower)' = MaxPower
    OBVIOUS
  <2> QED BY <2>4, <2>5, <2>7, <2>8 DEF FormIs
<1> QED BY <1>1, <1>2

LEMMA FloatDigitNumbers ==
  ASSUME Inv, FloatDigit
  PROVE  NumbersOK'
<1> DEFINE b == Unsigned(row[r])
<1>1. /\ UNCHANGED <<inputs, pc, cut, r, int, raised, cols, error>>
      /\ pc \in {"whole", "fraction"} /\ col # <<>> /\ Head(col) \in Digits /\ col' = Tail(col)
      /\ ~(pc = "fraction" /\ scale = -MaxPower) =>
           /\ mantissa' = 10 * mantissa + DigitOf[Head(col)]
           /\ scale' = IF pc = "fraction" THEN scale - 1 ELSE scale
           /\ size' = IF mantissa' = 0 THEN size ELSE size + 1
  BY DEF FloatDigit
<1>2. b \in Text /\ Len(b) \in Nat /\ row' = row /\ types' = types /\ error = "none"
  BY <1>1, FloatReading DEF cut, inputs, Inv, StateOK, ControlOK
<1>3. PICK k \in 0 .. Len(b), m \in 0 .. Len(b) : FloatRead(k, m)
  BY <1>1, FloatReading
<1>4. /\ Shape(b, k, m) /\ col = Rest(b, m) /\ k <= m
      /\ (IF m = k THEN 0 ELSE m - k - 1) <= MaxPower =>
           DecimalIs(SubSeq(b, 1, k) \o SubSeq(b, k + 2, m), IF m = k THEN 0 ELSE k + 1 - m)
      /\ (pc = "whole") <=> (m = k)
      /\ m < Len(b) /\ Head(col) = b[m + 1] /\ Tail(col) = Rest(b, m + 1)
  <2>1. FloatRead(k, m) /\ col = Rest(b, m)
    BY <1>3 DEF FloatRead
  <2>2. m < Len(b) /\ Head(col) = b[m + 1] /\ Tail(col) = Rest(b, m + 1)
    <3> HIDE DEF b
    <3> QED BY <1>1, <1>2, <2>1, FloatAt
  <2> QED BY <2>1, <2>2 DEF FloatRead
<1>5. ReadOK' /\ FormIs' /\ MaxPower \in Nat
  <2>1. FormIs
    BY <1>3 DEF FloatRead
  <2> QED BY <1>1, <2>1, ReadStays, FloatDigitForm, RowConstants DEF Inv, NumbersOK
<1>6. DigitsTo(b, k) /\ b[m + 1] \in Digits
      /\ (m # k => k < m /\ b[k + 1] \in Points /\ \A j \in k + 2 .. m : b[j] \in Digits)
  BY <1>1, <1>4 DEF Shape
<1> HIDE DEF b
<1>7. CASE pc = "whole"
  <2>1. /\ m = k /\ k + 1 \in 0 .. Len(b) /\ col' = Rest(b, k + 1)
        /\ DecimalIs(SubSeq(b, 1, k) \o SubSeq(b, k + 2, k), 0) /\ scale' = scale
        /\ mantissa' = 10 * mantissa + DigitOf[b[k + 1]]
        /\ size' = IF mantissa' = 0 THEN size ELSE size + 1
    BY <1>1, <1>2, <1>4, <1>5, <1>7
  <2>2. DigitsTo(b, k + 1)
    BY <1>2, <1>6, <2>1 DEF DigitsTo
  <2>3. SubSeq(b, 1, k) \o SubSeq(b, k + 2, k) = SubSeq(b, 1, k)
    <3>1. SubSeq(b, k + 2, k) = <<>> /\ SubSeq(b, 1, k) \in Seq(Letters)
      BY <1>2 DEF Text
    <3> QED BY <3>1
  <2>4. Value(SubSeq(b, 1, k + 1)) = 10 * Value(SubSeq(b, 1, k)) + DigitOf[b[k + 1]]
    <3>1. k + 1 > 0 /\ k + 1 - 1 = k
      BY <1>2
    <3> QED BY <1>2, <2>1, <2>2, <3>1, ValueIs DEF Text, DigitsTo
  <2>5. mantissa' = Value(SubSeq(b, 1, k + 1)) /\ scale' = 0
    BY <2>1, <2>3, <2>4 DEF DecimalIs
  <2>6. size' = Size(SubSeq(b, 1, k + 1))
    <3> DEFINE t == SubSeq(b, 1, k)
               u == SubSeq(b, 1, k + 1)
    <3>1. /\ t \in Seq(Letters) /\ Len(t) = k /\ u \in Seq(Letters) /\ Len(u) = k + 1 /\ k \in Nat
          /\ \A j \in 1 .. k : u[j] = t[j]
      BY <1>2, <2>1 DEF Text
    <3>2. Value(u) = mantissa' /\ Value(u) \in Nat /\ size = Size(t)
      BY <1>5, <2>1, <2>3, <2>5 DEF FormIs, DecimalIs
    <3> HIDE DEF t, u
    <3>3. Size(u) = IF Value(u) = 0 THEN Size(t) ELSE Size(t) + 1
      BY <3>1, <3>2, SizeAppend
    <3> QED BY <2>1, <3>2, <3>3 DEF u
  <2>7. WholeOK'
    BY <1>2, <1>1, <1>5, <2>1, <2>2, <2>5, <2>6 DEF WholeOK, b, DecimalIs
  <2> QED BY <1>1, <1>2, <1>5, <1>7, <2>7
      DEF NumbersOK, DigitsOK, AssignOK, ThrownOK, FractionOK, MarkedOK, RaiseOK, ConversionErrors
<1>8. CASE pc = "fraction"
  <2>1. m # k /\ k < m /\ m + 1 \in 0 .. Len(b) /\ col' = Rest(b, m + 1)
    BY <1>1, <1>2, <1>4, <1>6, <1>8
  <2>2. ASSUME (m + 1) - k - 1 <= MaxPower
        PROVE  /\ DecimalIs(SubSeq(b, 1, k) \o SubSeq(b, k + 2, m), k + 1 - m)
               /\ scale' = k + 1 - (m + 1)
               /\ mantissa' = 10 * mantissa + DigitOf[b[m + 1]]
               /\ size' = IF mantissa' = 0 THEN size ELSE size + 1
    <3>1. m - k - 1 <= MaxPower /\ k + 1 - m # -MaxPower /\ k + 1 - m - 1 = k + 1 - (m + 1)
      BY <1>2, <1>5, <2>1, <2>2
    <3>2. DecimalIs(SubSeq(b, 1, k) \o SubSeq(b, k + 2, m), k + 1 - m)
      BY <1>4, <2>1, <3>1
    <3>3. scale = k + 1 - m
      BY <3>2 DEF DecimalIs
    <3> QED BY <1>1, <1>4, <1>8, <3>1, <3>2, <3>3
  <2>3. \A j \in k + 2 .. m + 1 : b[j] \in Digits
    BY <1>2, <1>6, <2>1
  <2> DEFINE t == SubSeq(b, 1, k) \o SubSeq(b, k + 2, m)
             u == SubSeq(b, 1, k) \o SubSeq(b, k + 2, m + 1)
  <2>4. /\ SubSeq(b, 1, k) \in Text /\ Len(SubSeq(b, 1, k)) = k
        /\ SubSeq(b, k + 2, m) \in Text /\ Len(SubSeq(b, k + 2, m)) = m - k - 1
        /\ SubSeq(b, k + 2, m + 1) \in Text /\ Len(SubSeq(b, k + 2, m + 1)) = m - k
        /\ \A j \in 1 .. k : SubSeq(b, 1, k)[j] = b[j]
        /\ \A j \in 1 .. m - k - 1 : SubSeq(b, k + 2, m)[j] = b[k + 1 + j]
        /\ \A j \in 1 .. m - k : SubSeq(b, k + 2, m + 1)[j] = b[k + 1 + j]
    <3>1. SubSeq(b, 1, k) \in Text /\ Len(SubSeq(b, 1, k)) = k - 1 + 1
          /\ \A j \in 1 .. k - 1 + 1 : SubSeq(b, 1, k)[j] = b[1 - 1 + j]
      BY <1>2, SubSeqIs DEF Text
    <3>2. k + 2 \in 1 .. m + 1 /\ m \in 0 .. Len(b) /\ k + 2 \in 1 .. m + 1 + 1 /\ m + 1 \in 0 .. Len(b)
      BY <1>2, <2>1
    <3>3. /\ SubSeq(b, k + 2, m) \in Text /\ Len(SubSeq(b, k + 2, m)) = m - (k + 2) + 1
          /\ \A j \in 1 .. m - (k + 2) + 1 : SubSeq(b, k + 2, m)[j] = b[k + 2 - 1 + j]
      BY <1>2, <3>2, SubSeqIs DEF Text
    <3>4. /\ SubSeq(b, k + 2, m + 1) \in Text /\ Len(SubSeq(b, k + 2, m + 1)) = m + 1 - (k + 2) + 1
          /\ \A j \in 1 .. m + 1 - (k + 2) + 1 : SubSeq(b, k + 2, m + 1)[j] = b[k + 2 - 1 + j]
      BY <1>2, <3>2, SubSeqIs DEF Text
    <3>5. /\ k - 1 + 1 = k /\ m - (k + 2) + 1 = m - k - 1 /\ m + 1 - (k + 2) + 1 = m - k
          /\ \A j \in Nat : 1 - 1 + j = j /\ k + 2 - 1 + j = k + 1 + j
      BY <1>2
    <3>6. \A j \in 1 .. k : SubSeq(b, 1, k)[j] = b[j]
      BY <3>1, <3>5
    <3>7. \A j \in 1 .. m - k - 1 : SubSeq(b, k + 2, m)[j] = b[k + 1 + j]
      BY <3>3, <3>5
    <3>8. \A j \in 1 .. m - k : SubSeq(b, k + 2, m + 1)[j] = b[k + 1 + j]
      BY <3>4, <3>5
    <3> QED BY <3>1, <3>3, <3>4, <3>5, <3>6, <3>7, <3>8
  <2>5. /\ t \in Text /\ Len(t) = m - 1 /\ u \in Text /\ Len(u) = m - 1 + 1 /\ m - 1 \in Nat
        /\ \A j \in 1 .. m - 1 : t[j] = IF j <= k THEN b[j] ELSE b[j + 1]
        /\ \A j \in 1 .. m - 1 + 1 : u[j] = IF j <= k THEN b[j] ELSE b[j + 1]
    BY <1>2, <2>1, <2>4 DEF Text
  <2>6. /\ \A j \in 1 .. m - 1 : u[j] = t[j]
        /\ \A j \in 1 .. m - 1 + 1 : u[j] \in Digits
        /\ u[m - 1 + 1] = b[m + 1]
    <3> HIDE DEF t, u
    <3>1. m - 1 + 1 = m /\ m \in 1 .. m /\ ~(m <= k)
      BY <1>2, <2>1
    <3>2. u[m - 1 + 1] = b[m + 1]
      BY <2>5, <3>1
    <3>3. ASSUME NEW j \in 1 .. m - 1 + 1 PROVE u[j] \in Digits
      <4>1. CASE j <= k
        <5>1. j \in 1 .. k
          BY <1>2, <4>1
        <5> QED BY <1>6, <2>5, <4>1, <5>1 DEF DigitsTo
      <4>2. CASE ~(j <= k)
        <5>1. j + 1 \in k + 2 .. m + 1
          BY <1>2, <2>1, <4>2
        <5> QED BY <2>3, <2>5, <4>2, <5>1
      <4> QED BY <4>1, <4>2
    <3>4. ASSUME NEW j \in 1 .. m - 1 PROVE u[j] = t[j]
      <4>1. j \in 1 .. m - 1 + 1
        BY <1>2, <2>1
      <4> QED BY <2>5, <4>1
    <3> QED BY <3>2, <3>3, <3>4
  <2>7. Value(u) = 10 * Value(t) + DigitOf[b[m + 1]]
    <3> HIDE DEF t, u
    <3>1. Value(u) = 10 * Value(t) + DigitOf[u[m - 1 + 1]]
      BY <2>5, <2>6, ValueAppend
    <3> QED BY <2>6, <3>1
  <2>8. ASSUME (m + 1) - k - 1 <= MaxPower 
        PROVE  mantissa' = Value(u) /\ size' = Size(u) /\ scale' = k + 1 - (m + 1)
    <3>1. mantissa' = Value(u) /\ scale' = k + 1 - (m + 1)
      BY <2>2, <2>7, <2>8 DEF DecimalIs
    <3>2. size' = Size(u)
      <4>1. Value(u) \in Nat /\ size = Size(t) /\ size' = IF Value(u) = 0 THEN size ELSE size + 1
        BY <1>5, <2>2, <2>8, <3>1 DEF FormIs, DecimalIs
      <4>2. /\ t \in Seq(Letters) /\ u \in Seq(Letters) /\ m - 1 \in Nat /\ Len(t) = m - 1
            /\ Len(u) = m - 1 + 1 /\ \A j \in 1 .. m - 1 : u[j] = t[j]
        BY <2>5, <2>6 DEF Text
      <4> HIDE DEF t, u
      <4>3. Size(u) = IF Value(u) = 0 THEN Size(t) ELSE Size(t) + 1
        BY <4>1, <4>2, SizeAppend
      <4> QED BY <4>1, <4>3
    <3> QED BY <3>1, <3>2
  <2> HIDE DEF t
  <2>9. FractionOK'
    <3>1. k \in 0 .. Len(b) /\ k < m + 1 /\ DigitsTo(b, k) /\ b[k + 1] \in Points
      BY <1>2, <1>6, <2>1
    <3>2. \E h, n \in 0 .. Len(b) :
             /\ h < n /\ DigitsTo(b, h) /\ b[h + 1] \in Points
             /\ \A j \in h + 2 .. n : b[j] \in Digits
             /\ col' = Rest(b, n)
             /\ n - h - 1 <= MaxPower =>
                  /\ mantissa' = Value(SubSeq(b, 1, h) \o SubSeq(b, h + 2, n))
                  /\ size' = Size(SubSeq(b, 1, h) \o SubSeq(b, h + 2, n))
                  /\ scale' = h + 1 - n
      BY <2>1, <2>3, <2>8, <3>1
    <3>3. Unsigned(row[r])' = Unsigned(row[r])
      BY <1>1, <1>2
    <3> QED BY <1>5, <3>2, <3>3 DEF FractionOK, DecimalIs, b
  <2> HIDE DEF u
  <2> QED BY <1>1, <1>2, <1>5, <1>8, <2>9
      DEF NumbersOK, DigitsOK, AssignOK, ThrownOK, WholeOK, MarkedOK, RaiseOK, ConversionErrors
<1> QED BY <1>1, <1>7, <1>8

LEMMA ClampIs ==
  ASSUME NEW v \in Int
  PROVE  /\ MaxPower \in Nat
         /\ Clamp(v) = IF v < -(MaxPower + 1) THEN -(MaxPower + 1)
                       ELSE IF v > MaxPower + 1 THEN MaxPower + 1 ELSE v
<1>1. MaxPower \in Nat /\ MaxPower + 1 \in Int /\ -(MaxPower + 1) \in Int
      /\ -(MaxPower + 1) <= MaxPower + 1
  BY RowConstants
<1> QED BY <1>1, NearestIs DEF Clamp

(* The decimal as it stands before its exponent.                           *)
LEMMA AfterNothing ==
  ASSUME NEW s, FormIs, DecimalIs(AllDigits(s), -Places(s)), Places(s) \in Nat, Places(s) <= MaxPower
  PROVE  After(s, 0, form, mantissa, scale, size) /\ Measured(s)
<1> DEFINE places == Places(s)
           M      == Value(AllDigits(s))
           Z      == Size(AllDigits(s))
<1>1. /\ mantissa = M /\ size = Z /\ scale = -places /\ M \in Nat /\ Z \in Nat /\ (M # 0 => Z > 0)
      /\ form = IF M # 0 /\ Z - 1 + (-places) > MaxPower THEN "inf" ELSE "finite"
  BY DEF FormIs, DecimalIs
<1>2. places \in Nat /\ places <= MaxPower /\ MaxPower \in Nat
  BY RowConstants
<1>3. ~TooFar(0)
  BY RowConstants DEF TooFar, Squares
<1>4. /\ Whole(Unsigned(s)) \o Part(Unsigned(s)) = AllDigits(s) /\ Len(Part(Unsigned(s))) = places
  BY DEF AllDigits, Places
<1>5. /\ FormAfter(Unsigned(s), 0) =
           IF (M # 0 /\ Z - 1 - places > MaxPower) \/ (M # 0 /\ Z - 1 - places + 0 > MaxPower)
             THEN "inf" ELSE "finite"
      /\ MantissaAfter(Unsigned(s), 0) = IF Z - 1 - places + 0 < -MaxPower THEN 0 ELSE M
  BY <1>3, <1>4 DEF FormAfter, MantissaAfter
<1>6. Measured(s)
  BY <1>1, <1>2 DEF Measured
<1> HIDE DEF M, Z, places
<1>7. form = FormAfter(Unsigned(s), 0) /\ mantissa = MantissaAfter(Unsigned(s), 0)
      /\ scale = 0 - places
  BY <1>1, <1>2, <1>5
<1> QED BY <1>1, <1>6, <1>7 DEF After, places, M, Z

(* What is read of it.                                                     *)
LEMMA AfterAll ==
  ASSUME NEW f, NEW m, NEW p, NEW z, After(row[r], Ten(row[r]), f, m, p, z)
  PROVE  Signed(Float(f, m, p)) = FloatOf(row[r])
<1> DEFINE b == Unsigned(row[r])
           n == Ten(row[r])
           v == Float(FormAfter(b, n), MantissaAfter(b, n), n - Places(row[r]))
<1>1. Float(f, m, p) = v
  <2>1. f = FormAfter(b, n) /\ f \in {"nan", "inf", "finite"}
    BY DEF After, FormAfter
  <2>2. f = "finite" => m = MantissaAfter(b, n) /\ (m # 0 => p = n - Places(row[r]))
    BY DEF After
  <2> HIDE DEF b, n
  <2> QED BY <2>1, <2>2 DEF Float, v
<1>2. v = <<v[1], v[2], v[3]>>
  <2> HIDE DEF b, n
  <2> QED BY DEF Float, v, NaN, Inf, Zero
<1>3. FloatOf(row[r]) = <<v[1], WithSign(row[r], v[2]), v[3]>>
  BY DEF FloatOf
<1> HIDE DEF v
<1> QED BY <1>1, <1>2, <1>3 DEF Signed, WithSign

(* A float that has no exponent, or an exponent of 0.                      *)
LEMMA PlainFloatFits ==
  ASSUME row[r] \in Text, types[r] = "float", FormIs, Places(row[r]) \in Nat,
         Places(row[r]) <= MaxPower => DecimalIs(AllDigits(row[r]), -Places(row[r])),
         Kept(row[r]) => Ten(row[r]) = 0
  PROVE  Fits(Signed(Float(form, mantissa, scale)))
<1>1. ASSUME Kept(row[r]) PROVE Signed(Float(form, mantissa, scale)) = FloatOf(row[r])
  <2>1. Places(row[r]) <= MaxPower /\ Ten(row[r]) = 0
    BY <1>1 DEF Kept
  <2>2. After(row[r], Ten(row[r]), form, mantissa, scale, size)
    BY <2>1, AfterNothing
  <2> QED BY <2>2, AfterAll
<1> QED BY <1>1 DEF Fits

(* The character after the digits: a point, an exponent, or the end.       *)
LEMMA FloatMarkNumbers ==
  ASSUME Inv, FloatMark
  PROVE  NumbersOK'
<1> DEFINE s == row[r]
           b == Unsigned(s)
           c == At(col, 1)
           d == At(col, 2)
<1>1. /\ UNCHANGED <<inputs, cut, float>> /\ pc \in {"whole", "fraction"} /\ c \notin Digits
      /\ row' = row /\ types' = types
  BY DEF FloatMark, cut, inputs
<1>2. StateOK /\ Converts /\ error = "none" /\ types[r] = "float"
  BY <1>1 DEF Inv, StateOK, ControlOK, Converts, Converting
<1>3. s \in Text /\ b \in Text /\ Len(b) \in Nat
  BY <1>1, FloatReading
<1>4. PICK k \in 0 .. Len(b), m \in 0 .. Len(b) : FloatRead(k, m)
  BY <1>1, FloatReading
<1>5. /\ Shape(b, k, m) /\ col = Rest(b, m) /\ k <= m
      /\ FormIs
      /\ (IF m = k THEN 0 ELSE m - k - 1) <= MaxPower =>
           DecimalIs(SubSeq(b, 1, k) \o SubSeq(b, k + 2, m), IF m = k THEN 0 ELSE k + 1 - m)
      /\ (pc = "whole") <=> (m = k)
  BY <1>4 DEF FloatRead
<1>6. /\ (col = <<>>) <=> (m = Len(b))
      /\ m < Len(b) => Head(col) = b[m + 1] /\ Tail(col) = Rest(b, m + 1) /\ c = b[m + 1] /\ c # "NUL"
      /\ m = Len(b) => c = "NUL"
      /\ col \in Text /\ Len(col) = Len(b) - m
  <2>1. "NUL" \notin Letters
    BY RowConstants
  <2> HIDE DEF b
  <2> QED BY <1>3, <1>5, <2>1, FloatAt
<1>7. k \in Nat /\ m \in Nat /\ (m < Len(b) \/ m = Len(b))
  BY <1>3
(* Where the float ends or its exponent starts, its parts are read.        *)
<1>8. ASSUME c \in {"e", "E", "NUL"}
      PROVE  /\ Places(s) <= MaxPower => DecimalIs(AllDigits(s), -Places(s))
             /\ Places(s) \in Nat
             /\ Power(b) = SubSeq(b, m + 2, Len(b))
  <2>1. m < Len(b) => b[m + 1] \in {"e", "E"}
    BY <1>6, <1>8
  <2>2. /\ Whole(b) = SubSeq(b, 1, k) /\ Part(b) = SubSeq(b, k + 2, m)
        /\ Power(b) = SubSeq(b, m + 2, Len(b))
        /\ Len(Part(b)) = IF m = k THEN 0 ELSE m - k - 1
    <3> HIDE DEF b
    <3> QED BY <1>3, <1>5, <1>7, <2>1, PartsAre
  <2>3. /\ Places(s) = IF m = k THEN 0 ELSE m - k - 1
        /\ AllDigits(s) = SubSeq(b, 1, k) \o SubSeq(b, k + 2, m)
    BY <2>2 DEF Places, AllDigits
  <2> HIDE DEF b
  <2>4. Places(s) \in Nat /\ -Places(s) = IF m = k THEN 0 ELSE k + 1 - m
    BY <1>5, <1>7, <2>3
  <2> QED BY <1>5, <2>2, <2>3, <2>4
<1>9. CASE pc = "whole" /\ c \in Points
  <2>1. pc' = "fraction" /\ col' = Tail(col) /\ UNCHANGED <<int, cols, r, error>>
    BY <1>9, MarksAreNoDigits DEF FloatMark
  <2>2. ReadOK'
    BY <1>1, <1>2, <2>1, ReadStays DEF Inv, NumbersOK
  <2>3. m = k /\ m < Len(b) /\ k + 1 \in 0 .. Len(b) /\ k < k + 1 /\ DigitsTo(b, k) /\ b[k + 1] \in Points
    <3>1. c # "NUL"
      BY <1>9, MarksAreNoDigits
    <3> QED BY <1>3, <1>5, <1>6, <1>7, <1>9, <3>1 DEF Shape
  <2>4. SubSeq(b, 1, k) \o SubSeq(b, k + 2, k) = SubSeq(b, 1, k) \o SubSeq(b, k + 2, k + 1)
    <3> HIDE DEF b
    <3>1. SubSeq(b, k + 2, k) = <<>> /\ SubSeq(b, k + 2, k + 1) = <<>>
      BY <1>3, <1>7, <2>3 DEF Text
    <3> QED BY <3>1
  <2>5. DecimalIs(SubSeq(b, 1, k) \o SubSeq(b, k + 2, k + 1), k + 1 - (k + 1))
        /\ col' = Rest(b, k + 1) /\ \A j \in k + 2 .. k + 1 : b[j] \in Digits
    <3>1. DecimalIs(SubSeq(b, 1, k) \o SubSeq(b, k + 2, k + 1), k + 1 - (k + 1))
      <4>1. 0 <= MaxPower /\ k + 1 - (k + 1) = 0
        BY <1>7, RowConstants
      <4>2. DecimalIs(SubSeq(b, 1, k) \o SubSeq(b, k + 2, k), 0)
        BY <1>5, <2>3, <4>1
      <4> QED BY <2>4, <4>1, <4>2
    <3>2. \A j \in k + 2 .. k + 1 : FALSE
      BY <1>7
    <3> QED BY <1>6, <2>1, <2>3, <3>1, <3>2
  <2>6. FractionOK'
    <3>1. b' = b /\ UNCHANGED <<form, mantissa, scale, size>>
      BY <1>1, <2>1 DEF float, decimal
    <3> HIDE DEF b
    <3>2. \E j, n \in 0 .. Len(b) :
             /\ j < n /\ DigitsTo(b, j) /\ b[j + 1] \in Points
             /\ \A h \in j + 2 .. n : b[h] \in Digits
             /\ col' = Rest(b, n)
             /\ n - j - 1 <= MaxPower =>
                  DecimalIs(SubSeq(b, 1, j) \o SubSeq(b, j + 2, n), j + 1 - n)
      BY <2>3, <2>5
    <3>3. FormIs'
      BY <1>5, <3>1 DEF FormIs
    <3> QED BY <3>1, <3>2, <3>3 DEF FractionOK, DecimalIs, b
  <2> QED BY <1>2, <2>1, <2>2, <2>6
      DEF NumbersOK, DigitsOK, AssignOK, ThrownOK, WholeOK, MarkedOK, RaiseOK, ConversionErrors
<1>10. CASE c \in {"e", "E"}
  <2> DEFINE q == Power(b)
  <2>1. /\ pc' = "digits" /\ then' = "power" /\ x' = 0 /\ neg' = (d = "-")
        /\ col' = (IF d \in {"-", "+"} THEN SubSeq(col, 3, Len(col)) ELSE Tail(col))
        /\ UNCHANGED <<cols, r, error>>
    <3>1. ~(c \in Points)
      BY <1>10, MarksAreNoDigits
    <3> QED BY <1>10, <3>1 DEF FloatMark
  <2>2. ReadOK'
    BY <1>1, <1>2, <2>1, ReadStays DEF Inv, NumbersOK
  <2>3. /\ m < Len(b) /\ Tail(col) = Rest(b, m + 1) /\ q = SubSeq(b, m + 2, Len(b))
        /\ Places(s) <= MaxPower => DecimalIs(AllDigits(s), -Places(s))
    BY <1>6, <1>7, <1>8, <1>10
  <2>4. q = Tail(col) /\ col # <<>> /\ q \in Text
    <3>1. m + 1 + 1 = m + 2
      BY <1>7
    <3>2. q = Tail(col)
      BY <2>3, <3>1 DEF Rest
    <3> QED BY <1>6, <2>3, <3>2, TextTail
  <2> HIDE DEF q
  <2>5. /\ (d = "-") <=> Negative(q, "float")
        /\ (d \in {"-", "+"}) <=> HasSign(q)
        /\ HasSign(q) => Tail(q) = SubSeq(col, 3, Len(col))
    <3>1. Len(col) \in Nat /\ Len(col) > 0 /\ Len(q) = Len(col) - 1 /\ \A j \in 1 .. Len(q) : q[j] = col[j + 1]
      BY <1>6, <2>4 DEF Text
    <3>2. CASE q = <<>>
      <4>1. 2 \notin DOMAIN col
        BY <3>1, <3>2
      <4>2. d = "NUL"
        BY <4>1 DEF At
      <4> QED BY <3>2, <4>2 DEF Negative, HasSign
    <3>3. CASE q # <<>>
      <4>1. 2 \in DOMAIN col /\ Head(q) = col[2] /\ 1 \in 1 .. Len(q)
        BY <2>4, <3>1, <3>3 DEF Text
      <4>2. d = Head(q)
        BY <4>1 DEF At
      <4>3. Tail(q) = SubSeq(col, 3, Len(col))
        <5>1. /\ Tail(q) \in Text /\ Len(Tail(q)) = Len(col) - 2
              /\ \A j \in 1 .. Len(col) - 2 : Tail(q)[j] = q[j + 1]
          BY <2>4, <3>1, <3>3 DEF Text
        <5>2. /\ SubSeq(col, 3, Len(col)) \in Text /\ Len(SubSeq(col, 3, Len(col))) = Len(col) - 2
              /\ \A j \in 1 .. Len(col) - 2 : SubSeq(col, 3, Len(col))[j] = col[j + 2]
          <6>1. Len(col) \in 0 .. Len(col) /\ 3 \in 1 .. Len(col) + 1
            BY <3>1, <4>1
          <6>2. /\ SubSeq(col, 3, Len(col)) \in Text /\ Len(SubSeq(col, 3, Len(col))) = Len(col) - 3 + 1
                /\ \A j \in 1 .. Len(col) - 3 + 1 : SubSeq(col, 3, Len(col))[j] = col[3 - 1 + j]
            BY <1>6, <6>1, SubSeqIs DEF Text
          <6>3. Len(col) - 3 + 1 = Len(col) - 2 /\ \A j \in Nat : 3 - 1 + j = j + 2
            BY <3>1
          <6> QED BY <6>2, <6>3
        <5>3. ASSUME NEW j \in 1 .. Len(col) - 2
              PROVE  Tail(q)[j] = SubSeq(col, 3, Len(col))[j]
          <6>1. j + 1 \in 1 .. Len(q) /\ j + 1 + 1 = j + 2
            BY <3>1
          <6> QED BY <3>1, <5>1, <5>2, <6>1
        <5> QED BY <5>1, <5>2, <5>3, SameSequence DEF Text
      <4> QED BY <3>3, <4>2, <4>3 DEF Negative, HasSign
    <3> QED BY <3>2, <3>3
  <2> DEFINE h == Body(q, "float")
  <2>6. col' = h /\ neg' = Negative(q, "float") /\ h \in Text /\ Len(h) \in Nat
    <3>1. h = IF HasSign(q) THEN Tail(q) ELSE q
      BY DEF Body, Unsigned
    <3>2. h \in Text /\ Len(h) \in Nat
      BY <2>4, BodyIs
    <3>3. col' = h
      BY <2>1, <2>4, <2>5, <3>1
    <3>4. neg' = Negative(q, "float")
      BY <2>1, <2>5 DEF Negative
    <3> QED BY <3>2, <3>3, <3>4
  <2>7. DigitsOK'
    <3>1. Integer' = q
      BY <1>1, <2>1 DEF Integer, q
    <3>2. DigitsTo(h, 0) /\ 0 \in 0 .. Len(h)
      BY <2>6 DEF DigitsTo
    <3>3. SoFar(q, "float", 0) = 0
      BY <2>4, <3>2, SoFarIs
    <3>4. h = Rest(h, 0)
      <4> HIDE DEF h
      <4> QED BY <2>6, <3>2, RestIs DEF Text
    <3>5. 0 \in Values("float")
      BY ValuesAre
    <3>6. IsRead(0)'
      BY <1>1, <1>2, <2>1, <2>6, <3>1, <3>2, <3>3, <3>4, <3>5 DEF IsRead
    <3> QED BY <1>1, <1>2, <2>1, <3>1, <3>2, <3>6 DEF DigitsOK
  <2>8. MarkedOK'
    <3>1. UNCHANGED <<form, mantissa, scale, size>>
      BY <1>1 DEF float, decimal
    <3>2. FormIs'
      BY <1>5, <3>1 DEF FormIs
    <3> QED BY <1>1, <2>1, <2>3, <3>1, <3>2 DEF MarkedOK, DecimalIs
  <2> QED BY <1>2, <2>1, <2>2, <2>7, <2>8
      DEF NumbersOK, AssignOK, ThrownOK, WholeOK, FractionOK, RaiseOK, ConversionErrors
<1>11. CASE c \notin {"e", "E"} /\ ~(pc = "whole" /\ c \in Points)
  <2>1. UNCHANGED <<int, col>> /\ IF c = "NUL" THEN Assign(Signed(Float(form, mantissa, scale)))
                                                   /\ UNCHANGED error
                                  ELSE Abandon("no_digit", Float(form, mantissa, scale))
    BY <1>11 DEF FloatMark
  <2>2. CASE c = "NUL"
    <3>1. /\ Places(s) <= MaxPower => DecimalIs(AllDigits(s), -Places(s))
          /\ Places(s) \in Nat /\ Power(b) = SubSeq(b, m + 2, Len(b)) /\ m = Len(b)
      BY <1>6, <1>7, <1>8, <2>2
    <3>2. Power(b) = <<>>
      <4> HIDE DEF b
      <4> QED BY <1>3, <3>1 DEF Text
    <3>3. Ten(s) = 0
      <4>1. Unsigned(<<>>) = <<>> /\ \A v : WithSign(<<>>, v) = v
        BY DEF Unsigned, HasSign, WithSign
      <4>2. Value(<<>>) = 0
        <5> DEFINE none == <<>>
        <5>1. none \in Seq(Letters) /\ SubSeq(none, 1, 0) = none /\ 0 \in 0 .. Len(none)
              /\ \A j \in 1 .. 0 : none[j] \in Digits
          OBVIOUS
        <5> HIDE DEF none
        <5>2. Value(SubSeq(none, 1, 0)) = 0
          BY <5>1, ValueIs
        <5> QED BY <5>1, <5>2 DEF none
      <4> QED BY <3>2, <4>1, <4>2 DEF Ten
    <3>4. Fits(Signed(Float(form, mantissa, scale)))
      BY <1>2, <1>3, <1>5, <3>1, <3>3, PlainFloatFits
    <3> QED BY <1>2, <2>1, <2>2, <3>4, AssignsNumbers
  <2>3. CASE c # "NUL"
    <3>1. Abandon("no_digit", Float(form, mantissa, scale)) /\ r' = r /\ pc' = "thrown"
      BY <2>1, <2>3 DEF Abandon, Throw
    <3>2. \A n \in DOMAIN types : n # r => cols'[n] = cols[n]
      BY <1>2, <3>1, Written1 DEF Abandon, Converts
    <3>3. ReadOK'
      BY <1>1, <1>2, <3>1, <3>2, ReadStays DEF Inv, NumbersOK
    <3>4. CutOff' /\ IntegerThrown'
      BY <1>1, <1>2, <3>1 DEF CutOff, IntegerThrown
    <3> QED BY <3>1, <3>3, <3>4
        DEF NumbersOK, DigitsOK, AssignOK, ThrownOK, WholeOK, FractionOK, MarkedOK, RaiseOK
  <2> QED BY <2>2, <2>3
<1> QED BY <1>9, <1>10, <1>11

LEMMA PartType ==
  ASSUME NEW s \in Text
  PROVE  Len(Part(s)) \in Nat
<1> DEFINE ends   == Mark(s, {"e", "E"})
           points == Mark(s, Points)
<1>1. ends \in 1 .. Len(s) + 1 /\ points \in 1 .. Len(s) + 1 /\ Len(s) \in Nat
  BY MarkIs
<1>2. Point(s) = Min({points, ends}) /\ Part(s) = SubSeq(s, Point(s) + 1, ends - 1)
  BY DEF Point, Part
<1> HIDE DEF ends, points
<1>3. Point(s) \in 1 .. Len(s) + 1
  <2>1. points \in Int /\ ends \in Int
    BY <1>1
  <2>2. Min({points, ends}) \in {points, ends}
    BY <2>1 DEF Min
  <2> QED BY <1>1, <1>2, <2>2
<1> QED BY <1>1, <1>2, <1>3 DEF Text

(* Raising ten to the exponent by its bits: what has been taken of it is   *)
(* less than the power that is next, so that a power too far for a float   *)
(* is one of the exponent's.                                               *)
LEMMA SquaresAre ==
  /\ Squares \subseteq 1 .. 64 /\ 1 \in Squares
  /\ \A b \in Squares : 2 * b <= 127 => 2 * b \in Squares
  /\ \A b, c \in Squares : c < 2 * b => c <= b
  BY DEF Squares

LEMMA ClampSquare ==
  ASSUME NEW b \in Nat
  PROVE  /\ MaxPower \in Nat
         /\ Clamp(1 * b) = IF b > MaxPower THEN MaxPower + 1 ELSE b
         /\ Clamp((-1) * b) = IF b > MaxPower THEN -(MaxPower + 1) ELSE -b
<1>1. 1 * b \in Int /\ (-1) * b \in Int /\ 1 * b = b /\ (-1) * b = -b
  OBVIOUS
<1>2. MaxPower \in Nat
  BY RowConstants
<1>3. Clamp(1 * b) = IF b < -(MaxPower + 1) THEN -(MaxPower + 1)
                     ELSE IF b > MaxPower + 1 THEN MaxPower + 1 ELSE b
  BY <1>1, ClampIs
<1>4. Clamp((-1) * b) = IF -b < -(MaxPower + 1) THEN -(MaxPower + 1)
                        ELSE IF -b > MaxPower + 1 THEN MaxPower + 1 ELSE -b
  BY <1>1, ClampIs
<1> QED BY <1>2, <1>3, <1>4

LEMMA ClampDoubles ==
  ASSUME NEW b \in Nat \ {0}, NEW up \in {-1, 1}
  PROVE  Clamp(2 * Clamp(up * b)) = Clamp(up * (2 * b))
<1>1. 2 * b \in Nat /\ MaxPower \in Nat
  BY RowConstants
<1>2. /\ Clamp(1 * b) = IF b > MaxPower THEN MaxPower + 1 ELSE b
      /\ Clamp((-1) * b) = IF b > MaxPower THEN -(MaxPower + 1) ELSE -b
      /\ Clamp(1 * (2 * b)) = IF 2 * b > MaxPower THEN MaxPower + 1 ELSE 2 * b
      /\ Clamp((-1) * (2 * b)) = IF 2 * b > MaxPower THEN -(MaxPower + 1) ELSE -(2 * b)
  BY <1>1, ClampSquare
<1>3. CASE up = 1
  <2>1. 2 * Clamp(1 * b) \in Int
    BY <1>1, <1>2
  <2>2. Clamp(2 * Clamp(1 * b)) =
          IF 2 * Clamp(1 * b) < -(MaxPower + 1) THEN -(MaxPower + 1)
          ELSE IF 2 * Clamp(1 * b) > MaxPower + 1 THEN MaxPower + 1 ELSE 2 * Clamp(1 * b)
    BY <2>1, ClampIs
  <2> DEFINE c == Clamp(1 * b)
             d == Clamp(1 * (2 * b))
             w == Clamp(2 * c)
  <2>3. w = IF 2 * c < -(MaxPower + 1) THEN -(MaxPower + 1)
            ELSE IF 2 * c > MaxPower + 1 THEN MaxPower + 1 ELSE 2 * c
    BY <2>2
  <2>4. /\ c = IF b > MaxPower THEN MaxPower + 1 ELSE b
        /\ d = IF 2 * b > MaxPower THEN MaxPower + 1 ELSE 2 * b
    BY <1>2
  <2> HIDE DEF c, d, w
  <2>5. w = d
    BY <1>1, <2>3, <2>4
  <2> QED BY <1>3, <2>5 DEF c, d, w
<1>4. CASE up = -1
  <2>1. 2 * Clamp((-1) * b) \in Int
    BY <1>1, <1>2
  <2>2. Clamp(2 * Clamp((-1) * b)) =
          IF 2 * Clamp((-1) * b) < -(MaxPower + 1) THEN -(MaxPower + 1)
          ELSE IF 2 * Clamp((-1) * b) > MaxPower + 1 THEN MaxPower + 1 ELSE 2 * Clamp((-1) * b)
    BY <2>1, ClampIs
  <2> DEFINE c == Clamp((-1) * b)
             d == Clamp((-1) * (2 * b))
             w == Clamp(2 * c)
  <2>3. w = IF 2 * c < -(MaxPower + 1) THEN -(MaxPower + 1)
            ELSE IF 2 * c > MaxPower + 1 THEN MaxPower + 1 ELSE 2 * c
    BY <2>2
  <2>4. /\ c = IF b > MaxPower THEN -(MaxPower + 1) ELSE -b
        /\ d = IF 2 * b > MaxPower THEN -(MaxPower + 1) ELSE -(2 * b)
    BY <1>2
  <2> HIDE DEF c, d, w
  <2>5. w = d
    BY <1>1, <2>3, <2>4
  <2> QED BY <1>4, <2>5 DEF c, d, w
<1> QED BY <1>3, <1>4

(* The exponents that are too far, as x is multiplied.                     *)
LEMMA FarGrows ==
  ASSUME NEW b \in Squares, NEW done \in 0 .. 127, done < b, NEW up \in {-1, 1}
  PROVE  /\ TooFar(up * (done + b)) <=> b > MaxPower
         /\ TooFar(up * done) => b > MaxPower
<1>1. /\ b \in 1 .. 64 /\ MaxPower \in Nat /\ \A c \in Squares : c \in 1 .. 64 /\ (c < 2 * b => c <= b)
  BY SquaresAre, RowConstants
<1>2. ASSUME NEW n \in Nat
      PROVE  TooFar(up * n) <=> \E c \in Squares : c > MaxPower /\ c <= n
  <2>1. CASE up = 1
    <3>1. 1 * n = n
      OBVIOUS
    <3>2. \A c \in Squares : (c <= n \/ c <= -n) <=> c <= n
      BY <1>1
    <3> QED BY <2>1, <3>1, <3>2 DEF TooFar
  <2>2. CASE up = -1
    <3>1. (-1) * n = -n /\ -(-n) = n
      OBVIOUS
    <3>2. \A c \in Squares : (c <= -n \/ c <= n) <=> c <= n
      BY <1>1
    <3> QED BY <2>2, <3>1, <3>2 DEF TooFar
  <2> QED BY <2>1, <2>2
<1>3. TooFar(up * (done + b)) <=> \E c \in Squares : c > MaxPower /\ c <= done + b
  <2>1. done + b \in Nat
    BY <1>1
  <2> QED BY <2>1, <1>2
<1>4. TooFar(up * done) <=> \E c \in Squares : c > MaxPower /\ c <= done
  <2>1. done \in Nat
    OBVIOUS
  <2> QED BY <2>1, <1>2
<1>5. ASSUME b > MaxPower PROVE TooFar(up * (done + b))
  <2>1. b <= done + b
    BY <1>1
  <2> QED BY <1>3, <1>5, <2>1
<1>6. ASSUME NEW c \in Squares, c > MaxPower, c <= done + b PROVE b > MaxPower
  <2>1. c < 2 * b
    BY <1>1, <1>6
  <2>2. c <= b /\ c \in 1 .. 64
    BY <1>1, <2>1
  <2> QED BY <1>1, <1>6, <2>2
<1>7. ASSUME NEW c \in Squares, c > MaxPower, c <= done PROVE b > MaxPower
  <2>1. c <= done + b
    BY <1>1, <1>7
  <2> QED BY <1>6, <1>7, <2>1
<1> QED BY <1>3, <1>4, <1>5, <1>6, <1>7

(* Multiplying by the next power takes it off the exponent.                *)
LEMMA AfterTimes ==
  ASSUME NEW s, Measured(s), Places(s) <= MaxPower, NEW b \in Squares, NEW done \in 0 .. 127, done < b,
         NEW up \in {-1, 1}, base = Clamp(up * b), MultiplyByBase,
         After(s, up * done, form, mantissa, scale, size)
  PROVE  After(s, up * (done + b), form', mantissa', scale', size')
<1> DEFINE places == Places(s)
           M      == Value(AllDigits(s))
           Z      == Size(AllDigits(s))
           top    == Z - 1 - places
           t      == up * done
           u      == up * (done + b)
           far    == TooFar(t)
           next   == TooFar(u)
           large  == M # 0 /\ top > MaxPower
<1>1. /\ Whole(Unsigned(s)) \o Part(Unsigned(s)) = AllDigits(s) /\ Len(Part(Unsigned(s))) = places
  BY DEF AllDigits, Places
<1>2. /\ FormAfter(Unsigned(s), t) =
           IF far /\ ((M = 0 /\ t > 0) \/ (large /\ t < 0)) THEN "nan"
           ELSE IF large \/ (far /\ t > 0) \/ (M # 0 /\ top + t > MaxPower) THEN "inf" ELSE "finite"
      /\ MantissaAfter(Unsigned(s), t) = IF far \/ top + t < -MaxPower THEN 0 ELSE M
  BY <1>1 DEF FormAfter, MantissaAfter
<1>3. /\ FormAfter(Unsigned(s), u) =
           IF next /\ ((M = 0 /\ u > 0) \/ (large /\ u < 0)) THEN "nan"
           ELSE IF large \/ (next /\ u > 0) \/ (M # 0 /\ top + u > MaxPower) THEN "inf" ELSE "finite"
      /\ MantissaAfter(Unsigned(s), u) = IF next \/ top + u < -MaxPower THEN 0 ELSE M
  BY <1>1 DEF FormAfter, MantissaAfter
<1>4. (next <=> b > MaxPower) /\ (far => b > MaxPower)
  BY FarGrows
<1>5. /\ M \in Nat /\ Z \in Nat /\ places \in Nat /\ (M # 0 => Z > 0) /\ places <= MaxPower
      /\ MaxPower \in Nat /\ b \in 1 .. 64 /\ done \in 0 .. 127 /\ done < b
  BY SquaresAre, RowConstants DEF Measured
<1>6. base = IF up = 1 THEN (IF b > MaxPower THEN MaxPower + 1 ELSE b)
             ELSE (IF b > MaxPower THEN -(MaxPower + 1) ELSE -b)
  BY <1>5, ClampSquare
<1>7. /\ t = IF up = 1 THEN done ELSE -done
      /\ u = IF up = 1 THEN done + b ELSE -(done + b)
  BY <1>5
<1>8. /\ form = FormAfter(Unsigned(s), t)
      /\ form = "finite" => /\ mantissa = MantissaAfter(Unsigned(s), t)
                            /\ mantissa # 0 => size = Z /\ scale = t - places
  BY DEF After
<1>9. /\ form' = IF \/ form = "nan"
                    \/ form = "finite" /\ mantissa = 0 /\ base > MaxPower
                    \/ form = "inf" /\ base < -MaxPower THEN "nan"
                 ELSE IF \/ form = "inf" \/ base > MaxPower
                         \/ ~(form = "finite" /\ mantissa = 0) /\ size - 1 + scale + base > MaxPower
                   THEN "inf" ELSE "finite"
      /\ mantissa' = IF base < -MaxPower \/ size - 1 + scale + base < -MaxPower THEN 0 ELSE mantissa
      /\ scale' = IF mantissa' = 0 THEN scale ELSE scale + base
      /\ size' = size
  BY DEF MultiplyByBase
<1>10. SUFFICES /\ form' = FormAfter(Unsigned(s), u)
                /\ form' = "finite" => /\ mantissa' = MantissaAfter(Unsigned(s), u)
                                       /\ mantissa' # 0 => size' = Z /\ scale' = u - places
  BY DEF After
<1>11. far => t # 0
  <2>1. \A c \in Squares : c \in Nat \ {0}
    BY SquaresAre
  <2>2. t \in Int
    BY <1>5
  <2> HIDE DEF t
  <2> QED BY <2>1, <2>2 DEF TooFar
<1> HIDE DEF places, M, Z, t, u, far, next
<1>12. CASE form = "nan"
  <2>1. far /\ ((M = 0 /\ t > 0) \/ (large /\ t < 0))
    BY <1>2, <1>8, <1>12
  <2>2. next /\ (t > 0 => u > 0) /\ (t < 0 => u < 0)
    BY <1>4, <1>5, <1>7, <2>1
  <2>3. FormAfter(Unsigned(s), u) = "nan"
    BY <1>3, <2>1, <2>2
  <2>4. form' = "nan"
    BY <1>9, <1>12
  <2> QED BY <2>3, <2>4
<1>13. CASE form = "inf"
  <2>1. M # 0 /\ (large \/ (far /\ t > 0) \/ top + t > MaxPower)
    BY <1>2, <1>8, <1>13
  <2>2. form' = IF base < -MaxPower THEN "nan" ELSE "inf"
    BY <1>9, <1>13
  <2>3. CASE up = 1
    <3>1. base >= -MaxPower /\ u > 0 /\ (top + t > MaxPower => top + u > MaxPower)
      BY <1>5, <1>6, <1>7, <2>3
    <3>2. ~(next /\ ((M = 0 /\ u > 0) \/ (large /\ u < 0)))
      BY <1>5, <1>7, <2>1, <2>3
    <3>3. FormAfter(Unsigned(s), u) = "inf"
      BY <1>3, <1>4, <2>1, <3>1, <3>2
    <3>4. form' = "inf"
      BY <1>5, <1>6, <2>2, <3>1, <2>3
    <3> QED BY <3>3, <3>4
  <2>4. CASE up = -1
    <3>1. large /\ u < 0
      BY <1>5, <1>7, <2>1, <2>4
    <3>2. base < -MaxPower <=> next
      BY <1>4, <1>5, <1>6, <2>4
    <3> QED BY <1>3, <2>2, <3>1, <3>2
  <2> QED BY <2>3, <2>4
<1>14. CASE form = "finite" /\ M = 0
  BY <1>2, <1>3, <1>4, <1>5, <1>6, <1>7, <1>8, <1>9, <1>14
<1>15. CASE form = "finite" /\ M # 0
  <2>1. ~large /\ ~(far /\ t > 0) /\ ~(top + t > MaxPower)
    BY <1>2, <1>8, <1>15
  <2>2. CASE far \/ top + t < -MaxPower
    <3>1. mantissa = 0
      BY <1>2, <1>8, <1>15, <2>2
    <3>2. up = -1
      <4>1. SUFFICES ASSUME up = 1 PROVE FALSE
        OBVIOUS
      <4>2. t >= 0 /\ top >= -MaxPower
        BY <1>5, <1>7, <1>15, <4>1
      <4>3. ~far
        BY <1>7, <1>11, <2>1, <4>2
      <4> QED BY <1>5, <1>7, <2>2, <4>1, <4>2, <4>3
    <3>3. base < 0 /\ u < 0 /\ top + u < top + t
      BY <1>5, <1>6, <1>7, <3>2
    <3>4. base <= MaxPower /\ top + u <= MaxPower /\ (next \/ top + u < -MaxPower)
      BY <1>4, <1>5, <1>6, <1>7, <2>1, <2>2, <3>2, <3>3
    <3>5. form' = "finite" /\ mantissa' = 0
      BY <1>5, <1>6, <1>9, <1>15, <3>1, <3>2, <3>4
    <3>6. FormAfter(Unsigned(s), u) = "finite" /\ MantissaAfter(Unsigned(s), u) = 0
      BY <1>3, <1>5, <1>7, <1>15, <2>1, <3>2, <3>3, <3>4
    <3> QED BY <3>5, <3>6
  <2>3. CASE ~(far \/ top + t < -MaxPower)
    <3>1. mantissa = M /\ size = Z /\ scale = t - places
      BY <1>2, <1>8, <1>15, <2>3
    <3>2. size - 1 + scale + base = top + t + base /\ (b <= MaxPower => t + base = u)
      BY <1>5, <1>6, <1>7, <3>1
    <3> QED BY <1>3, <1>4, <1>5, <1>6, <1>7, <1>9, <1>15, <2>1, <2>3, <3>1, <3>2
  <2> QED BY <2>2, <2>3
<1>16. form \in {"nan", "inf", "finite"}
  BY <1>2, <1>8
<1> QED BY <1>12, <1>13, <1>14, <1>15, <1>16

LEMMA StartPowerNumbers ==
  ASSUME Inv, StartPower
  PROVE  NumbersOK'
<1>1. /\ UNCHANGED <<inputs, cut, col, int, decimal, error>> /\ pc = "power"
      /\ row' = row /\ types' = types /\ UNCHANGED <<form, mantissa, scale, size>>
  BY DEF StartPower, inputs, cut, decimal
<1>2. StateOK /\ Converts /\ error = "none" /\ types[r] = "float"
  BY <1>1 DEF Inv, StateOK, ControlOK, Converts, Converting
<1>3. row[r] \in Text /\ Places(row[r]) \in Nat
  <2>1. row[r] \in Text
    BY <1>2 DEF StateOK, TypesOK, Converts
  <2> QED BY <2>1, BodyIs, PartType DEF Places
<1>4. /\ FormIs /\ (Places(row[r]) <= MaxPower => DecimalIs(AllDigits(row[r]), -Places(row[r])))
      /\ Kept(row[r]) => x = Ten(row[r]) /\ x \in -127 .. 127 /\ Places(row[r]) <= MaxPower
  BY <1>1 DEF Inv, NumbersOK, MarkedOK, Kept
<1>5. CASE x = 0
  <2>1. Fits(Signed(Float(form, mantissa, scale)))
    BY <1>2, <1>3, <1>4, <1>5, PlainFloatFits
  <2> QED BY <1>1, <1>2, <1>5, <2>1, AssignsNumbers DEF StartPower
<1>6. CASE x # 0
  <2>1. /\ pc' = "raise" /\ UNCHANGED <<cols, r>>
        /\ base' = (IF x < 0 THEN -1 ELSE 1) /\ e' = IF x < 0 THEN Negated(x) ELSE x
    BY <1>6 DEF StartPower
  <2>2. ReadOK'
    BY <1>1, <1>2, <2>1, ReadStays DEF Inv, NumbersOK
  <2>3. ASSUME Kept(row[r])
        PROVE  /\ Measured(row[r])
               /\ \E b \in Squares, done \in 0 .. 127, up \in {-1, 1} :
                    /\ e' \in 1 .. 127 /\ b * e' + done = up * Ten(row[r])
                    /\ done < b \/ (e' % 2 = 0 /\ done < 2 * b)
                    /\ base' = Clamp(up * b)
                    /\ After(row[r], up * done, form, mantissa, scale, size)
    <3> DEFINE up == IF x < 0 THEN -1 ELSE 1
    <3>1. x \in -127 .. 127 /\ x = Ten(row[r]) /\ MaxPower \in Nat
      BY <1>4, <2>3, RowConstants
    <3>2. e' \in 1 .. 127 /\ e' = up * Ten(row[r]) /\ up \in {-1, 1} /\ base' = up
      BY <1>6, <2>1, <3>1 DEF Negated
    <3> HIDE DEF up
    <3>3. After(row[r], 0, form, mantissa, scale, size) /\ Measured(row[r])
      BY <1>3, <1>4, <2>3, AfterNothing
    <3>4. up * 0 = 0 /\ 1 * e' + 0 = up * Ten(row[r])
      BY <3>2
    <3>5. base' = Clamp(up * 1)
      <4>1. Clamp(1 * 1) = 1 /\ Clamp((-1) * 1) = -1
        <5>1. /\ Clamp(1 * 1) = IF 1 > MaxPower THEN MaxPower + 1 ELSE 1
              /\ Clamp((-1) * 1) = IF 1 > MaxPower THEN -(MaxPower + 1) ELSE -1
          BY ClampSquare
        <5> QED BY <3>1, <5>1
      <4> QED BY <3>2, <4>1
    <3>6. 1 \in Squares /\ 0 \in 0 .. 127 /\ 0 < 1
      BY SquaresAre
    <3> QED BY <3>2, <3>3, <3>4, <3>5, <3>6
  <2>4. RaiseOK'
    <3> SUFFICES ASSUME Kept(row[r]) PROVE RaiseOK'
      BY <1>1, <2>1 DEF RaiseOK
    <3> QED BY <1>1, <2>1, <2>3 DEF RaiseOK
  <2> QED BY <1>1, <1>2, <2>1, <2>2, <2>4
      DEF NumbersOK, DigitsOK, AssignOK, ThrownOK, WholeOK, FractionOK, MarkedOK, ConversionErrors
<1> QED BY <1>5, <1>6

LEMMA RaiseNumbers ==
  ASSUME Inv, RaisePower
  PROVE  NumbersOK'
<1>1. /\ UNCHANGED <<inputs, pc, cut, r, col, int, exponent, cols, error>> /\ pc = "raise"
      /\ row' = row /\ types' = types /\ e # 1
      /\ IF e % 2 = 0 THEN base' = Clamp(2 * base) /\ e' = e \div 2
                           /\ UNCHANGED <<form, mantissa, scale, size>>
                      ELSE MultiplyByBase /\ e' = e - 1 /\ UNCHANGED base
  BY DEF RaisePower, inputs, cut, Half, decimal
<1>2. StateOK /\ error = "none" /\ types[r] = "float"
  BY <1>1 DEF Inv, StateOK, ControlOK
<1>3. ReadOK'
  BY <1>1, <1>2, ReadStays DEF Inv, NumbersOK
<1>4. ASSUME Kept(row[r])
      PROVE  /\ Measured(row[r])
             /\ \E b \in Squares, done \in 0 .. 127, up \in {-1, 1} :
                  /\ e' \in 1 .. 127 /\ b * e' + done = up * Ten(row[r])
                  /\ done < b \/ (e' % 2 = 0 /\ done < 2 * b)
                  /\ base' = Clamp(up * b)
                  /\ After(row[r], up * done, form', mantissa', scale', size')
  <2>1. PICK b \in Squares, done \in 0 .. 127, up \in {-1, 1} :
          /\ e \in 1 .. 127 /\ b * e + done = up * Ten(row[r])
          /\ done < b \/ (e % 2 = 0 /\ done < 2 * b)
          /\ base = Clamp(up * b)
          /\ After(row[r], up * done, form, mantissa, scale, size)
    BY <1>1, <1>4 DEF Inv, NumbersOK, RaiseOK
  <2>2. Measured(row[r])
    BY <1>1, <1>4 DEF Inv, NumbersOK, RaiseOK
  <2> DEFINE total == up * Ten(row[r])
  <2>3. total \in -127 .. 127 /\ b * e + done = total /\ Places(row[r]) <= MaxPower
    <3>1. Ten(row[r]) \in -127 .. 127 /\ Places(row[r]) <= MaxPower
      BY <1>4 DEF Kept
    <3> QED BY <2>1, <3>1
  <2> HIDE DEF total
  <2>4. e \in 2 .. 127 /\ b \in 1 .. 64 /\ done \in Nat
    BY <1>1, <2>1, SquaresAre
  <2>5. CASE e % 2 = 0
    <3> DEFINE h == e \div 2
    <3>1. h \in 1 .. 63 /\ e = 2 * h
      BY <2>4, <2>5
    <3>2. e' = h /\ base' = Clamp(2 * base) /\ UNCHANGED <<form, mantissa, scale, size>>
      BY <1>1, <2>5
    <3> HIDE DEF h
    <3>3. b * e = (2 * b) * h /\ b * e >= 2 * b
      <4>1. b * e = (2 * b) * h
        BY <2>4, <3>1
      <4>2. (2 * b) * h = 2 * b + (2 * b) * (h - 1) /\ (2 * b) * (h - 1) >= 0
        <5>1. 2 * b \in Nat /\ h - 1 \in Nat /\ h \in Nat
          BY <2>4, <3>1
        <5> DEFINE c == 2 * b
                   g == h - 1
        <5>2. c \in Nat /\ g \in Nat /\ h = g + 1
          BY <5>1
        <5> HIDE DEF c, g
        <5>3. c * h = c + c * g /\ c * g >= 0
          BY <5>2
        <5> QED BY <5>3 DEF c, g
      <4> HIDE DEF total
      <4>3. (2 * b) * (h - 1) \in Int
        BY <2>4, <3>1
      <4> QED BY <2>4, <4>1, <4>2, <4>3
    <3>4. (2 * b) * h + done = total /\ 2 * b <= 127
      <4> DEFINE w == b * e
      <4>1. w \in Int /\ w = (2 * b) * h /\ w >= 2 * b /\ w + done = total
        BY <2>3, <2>4, <3>3
      <4> HIDE DEF w
      <4> QED BY <2>3, <2>4, <4>1
    <3>5. 2 * b \in Squares
      BY <3>4, SquaresAre
    <3>6. done < 2 * b
      BY <2>1, <2>4
    <3>7. base' = Clamp(up * (2 * b))
      BY <2>1, <2>4, <3>2, ClampDoubles
    <3>8. e' \in 1 .. 127 /\ (2 * b) * e' + done = up * Ten(row[r])
      BY <3>1, <3>2, <3>4 DEF total
    <3> QED BY <2>1, <2>2, <3>2, <3>5, <3>6, <3>7, <3>8
  <2>6. CASE e % 2 # 0
    <3>1. e' = e - 1 /\ MultiplyByBase /\ base' = base
      BY <1>1, <2>6
    <3>2. done < b
      BY <2>1, <2>6
    <3>3. e' \in 1 .. 127 /\ e' % 2 = 0
      BY <2>4, <2>6, <3>1
    <3>4. b * (e - 1) + (done + b) = total /\ done + b \in 0 .. 127 /\ done + b < 2 * b
      <4>1. b * (e - 1) = b * e - b /\ b * e \in Int
        BY <2>4
      <4> DEFINE w == b * e
      <4> HIDE DEF w
      <4>2. w \in Int /\ w - b + (done + b) = total
        BY <2>3, <2>4, <4>1 DEF w
      <4>3. b * (e - 1) + (done + b) = total
        BY <4>1, <4>2 DEF w
      <4>4. done + b \in 0 .. 127 /\ done + b < 2 * b
        BY <2>4, <3>2
      <4> QED BY <4>3, <4>4
    <3>5. After(row[r], up * (done + b), form', mantissa', scale', size')
      BY <2>1, <2>2, <2>3, <3>1, <3>2, AfterTimes
    <3> QED BY <2>1, <2>2, <3>1, <3>3, <3>4, <3>5 DEF total
  <2> QED BY <2>5, <2>6
<1>5. RaiseOK'
  <2> SUFFICES ASSUME Kept(row[r]) PROVE RaiseOK'
    BY <1>1 DEF RaiseOK
  <2> QED BY <1>1, <1>4 DEF RaiseOK
<1> QED BY <1>1, <1>2, <1>3, <1>5
    DEF NumbersOK, DigitsOK, AssignOK, ThrownOK, WholeOK, FractionOK, MarkedOK, ConversionErrors

LEMMA EndPowerNumbers ==
  ASSUME Inv, EndPower
  PROVE  NumbersOK'
<1>1. /\ UNCHANGED <<inputs, cut, col, int, raised, error>> /\ pc = "raise" /\ e = 1
      /\ MultiplyByBase /\ Assign(Signed(Float(form', mantissa', scale')))
  BY DEF EndPower
<1>2. Converts /\ types[r] = "float"
  BY <1>1 DEF Inv, StateOK, ControlOK, Converts, Converting
<1>3. ASSUME Kept(row[r]) PROVE Signed(Float(form', mantissa', scale')) = FloatOf(row[r])
  <2>1. PICK b \in Squares, done \in 0 .. 127, up \in {-1, 1} :
          /\ e \in 1 .. 127 /\ b * e + done = up * Ten(row[r])
          /\ done < b \/ (e % 2 = 0 /\ done < 2 * b)
          /\ base = Clamp(up * b)
          /\ After(row[r], up * done, form, mantissa, scale, size)
    BY <1>1, <1>3 DEF Inv, NumbersOK, RaiseOK
  <2>2. Measured(row[r]) /\ Places(row[r]) <= MaxPower /\ Ten(row[r]) \in Int
    BY <1>1, <1>3 DEF Inv, NumbersOK, RaiseOK, Kept
  <2>3. done < b /\ b \in 1 .. 64
    BY <1>1, <2>1, SquaresAre
  <2>4. After(row[r], up * (done + b), form', mantissa', scale', size')
    BY <1>1, <2>1, <2>2, <2>3, AfterTimes
  <2>5. up * (done + b) = Ten(row[r])
    BY <1>1, <2>1, <2>2, <2>3
  <2>6. After(row[r], Ten(row[r]), form', mantissa', scale', size')
    BY <2>4, <2>5
  <2> QED BY <2>6, AfterAll
<1>4. Fits(Signed(Float(form', mantissa', scale')))
  BY <1>2, <1>3 DEF Fits
<1> QED BY <1>1, <1>2, <1>4, AssignsNumbers

-----------------------------------------------------------------------------
(* The invariant and what follows from it                                  *)

LEMMA InvInit == Init => Inv
<1> SUFFICES ASSUME Init PROVE Inv
  OBVIOUS
<1>1. StateOK
  BY InitState
<1>2. \A n \in DOMAIN types : ~(n < r)
  BY <1>1 DEF Init, StateOK, TypesOK, InputsOK
<1>3. NumbersOK
  BY <1>2 DEF Init, NumbersOK, ReadOK, DigitsOK, AssignOK, ThrownOK, WholeOK, FractionOK, MarkedOK,
     RaiseOK, ConversionErrors
<1> QED BY <1>1, <1>3 DEF Inv

LEMMA InvStays ==
  ASSUME Inv, UNCHANGED vars
  PROVE  Inv'
<1>1. UNCHANGED <<inputs, pc, cut, r, col, int, float, cols, error>>
  BY DEF vars
<1>2. InputsOK'
  BY <1>1 DEF Inv, StateOK, TypesOK, InputsOK, inputs
<1>3. TypesOK'
  BY <1>1, <1>2 DEF Inv, StateOK, TypesOK, inputs, cut
<1>4. ControlOK'
  BY <1>1 DEF Inv, StateOK, ControlOK, inputs, cut, int
<1>5. ColsOK'
  BY <1>1 DEF Inv, StateOK, ColsOK, ColumnsBefore, inputs, cut
<1>6. /\ UNCHANGED <<types, row, overflow, r, col, pc, cols, error>>
      /\ UNCHANGED <<then, neg, x, form, mantissa, scale, size, e, base>>
  BY <1>1 DEF inputs, cut, int, float, decimal, raised
<1>7. ReadOK'
  BY <1>1, <1>6, ReadStays DEF Inv, NumbersOK
<1>8. DigitsOK'
  BY <1>6 DEF Inv, NumbersOK, DigitsOK, IsRead, Integer
<1>9. AssignOK' /\ ThrownOK'
  BY <1>6 DEF Inv, NumbersOK, AssignOK, IntegerOf, ThrownOK, CutOff, IntegerThrown
<1>10. WholeOK' /\ FractionOK'
  BY <1>6 DEF Inv, NumbersOK, WholeOK, FractionOK, FormIs, DecimalIs
<1>11. MarkedOK'
  BY <1>6 DEF Inv, NumbersOK, MarkedOK, FormIs, DecimalIs
<1>12. RaiseOK'
  <2>1. RaiseOK /\ row[r]' = row[r] /\ UNCHANGED <<pc, e, base, form, mantissa, scale, size>>
    BY <1>6 DEF Inv, NumbersOK
  <2>2. /\ Kept(row[r])' <=> Kept(row[r])
        /\ Measured(row[r])' <=> Measured(row[r])
        /\ Ten(row[r])' = Ten(row[r])
    BY <2>1
  <2>3. \A n \in Int : After(row[r], n, form, mantissa, scale, size)'
                     <=> After(row[r], n, form, mantissa, scale, size)
    BY <2>1
  <2> QED BY <2>1, <2>2, <2>3 DEF RaiseOK
<1> QED BY <1>3, <1>4, <1>5, <1>7, <1>8, <1>9, <1>10, <1>11, <1>12 DEF Inv, StateOK, NumbersOK

(* The state of a conversion always says how far into its text it is and   *)
(* what that much of the text is worth.                                    *)
THEOREM Invariance == Spec => []Inv
<1>1. Init => Inv
  BY InvInit
<1>2. Inv /\ [Next]_vars => Inv'
  <2> SUFFICES ASSUME Inv, [Next]_vars PROVE Inv'
    OBVIOUS
  <2>1. CASE UNCHANGED vars
    BY <2>1, InvStays
  <2>2. ASSUME Next PROVE StateOK'
    BY <2>2, CutState, ConversionState DEF Next, Conversion, Inv
  <2>3. ASSUME Next PROVE NumbersOK'
    BY <2>3, OtherNumbers, DigitNumbers, OverflowNumbers, EndDigitsNumbers, FloatDigitNumbers,
       FloatMarkNumbers, StartPowerNumbers, RaiseNumbers, EndPowerNumbers DEF Next
  <2> QED BY <2>1, <2>2, <2>3 DEF Inv
<1> QED BY <1>1, <1>2, PTL DEF Spec

(* When a column does not convert, the caller has the columns before it    *)
(* from this row, a number cut off where it went wrong, and the others as  *)
(* they were.                                                              *)
THEOREM BadColumnCorrect == Spec => []BadColumnSplitsTheRow
<1>1. Inv => BadColumnSplitsTheRow
  BY DEF Inv, StateOK, ColsOK, NumbersOK, ThrownOK, BadColumnSplitsTheRow
<1> QED BY <1>1, Invariance, PTL

(* The columns of a row that are written are those before the one it is at. *)
LEMMA WrittenIs ==
  ASSUME Inv, NEW n \in DOMAIN types, row[n] # Null, cols[n] # Untouched, ~BadAt(n)
  PROVE  IntegerIs(n) /\ FloatIs(n)
<1>1. DOMAIN types = 1 .. Len(types) /\ r \in Nat /\ DOMAIN cols = DOMAIN types
  BY DEF Inv, StateOK, TypesOK, InputsOK
<1>2. n < r
  <2>1. CASE error \in ConversionErrors
    <3>1. n <= r /\ pc = "thrown"
      BY <1>1, <2>1 DEF Inv, StateOK, ColsOK, ColumnsBefore, ControlOK, ConversionErrors
    <3> QED BY <1>1, <3>1 DEF BadAt
  <2>2. CASE error \notin ConversionErrors
    BY <2>2 DEF Inv, StateOK, ColsOK
  <2> QED BY <2>1, <2>2
<1> QED BY <1>2 DEF Inv, NumbersOK, ReadOK

(* An integer that is read is the one its column spells, or what the       *)
(* policy makes of one that the type cannot hold; a float is the decimal   *)
(* its column spells, or the inf, 0 or nan that its powers of ten end in,  *)
(* whatever the largest power of ten of a float is.                        *)
THEOREM NumbersCorrect == Spec => []NumbersAreExact
<1>1. ASSUME Inv PROVE IntegersAreExact
  <2>1. ASSUME NEW n \in DOMAIN types, types[n] \in {"signed", "unsigned"}, row[n] # Null,
               AreDigits(IF types[n] = "signed" THEN Unsigned(row[n]) ELSE row[n])
        PROVE  /\ cols[n] # Untouched /\ ~BadAt(n) => cols[n] = <<IntegerOf(row[n], types[n])>>
               /\ r = n /\ error \in ConversionErrors =>
                    LET exact == WithSign(row[n], Value(Unsigned(row[n])))
                    IN  /\ exact \notin Values(types[n]) /\ overflow = "throw"
                        /\ error = IF exact < 0 THEN "integer_underflow" ELSE "integer_overflow"
    <3>1. AreDigits(Body(row[n], types[n]))
      BY <2>1 DEF Body
    <3>2. ASSUME cols[n] # Untouched, ~BadAt(n) PROVE cols[n] = <<IntegerOf(row[n], types[n])>>
      BY <1>1, <2>1, <3>1, <3>2, WrittenIs DEF IntegerIs
    <3>3. ASSUME r = n, error \in ConversionErrors PROVE IntegerThrown
      BY <1>1, <3>3 DEF Inv, NumbersOK, ThrownOK
    <3> QED BY <2>1, <3>1, <3>2, <3>3 DEF IntegerThrown
  <2> QED BY <2>1 DEF IntegersAreExact
<1>2. ASSUME Inv PROVE FloatsAreExact
  <2>1. ASSUME NEW n \in DOMAIN types, types[n] = "float", row[n] # Null, cols[n] # Untouched, ~BadAt(n),
               Kept(row[n])
        PROVE  cols[n] = <<FloatOf(row[n])>>
    BY <1>2, <2>1, WrittenIs DEF FloatIs
  <2> QED BY <2>1 DEF FloatsAreExact, Kept, Ten, Places, FloatOf
<1> QED BY <1>1, <1>2, Invariance, PTL DEF NumbersAreExact

-----------------------------------------------------------------------------
(* Quotes and separators                                                   *)

LEMMA MarksDiffer == Sep # Quote /\ Sep # Blank /\ Quote # Blank
  BY Zenon DEF Sep, Quote, Blank

QuotesBefore(s, n) == {k \in 1 .. n - 1 : s[k] = Quote}

LEMMA InsideIs ==
  ASSUME NEW s \in Text
  PROVE  /\ Inside(s, 1) = FALSE
         /\ \A n \in 1 .. Len(s) :
              Inside(s, n + 1) <=> IF escape /\ s[n] = Quote THEN ~Inside(s, n) ELSE Inside(s, n)
<1>1. Len(s) \in Nat
  BY DEF Text
<1>2. \A n : Inside(s, n) <=> escape /\ Cardinality(QuotesBefore(s, n)) % 2 = 1
  BY DEF Inside, QuotesBefore
<1>3. QuotesBefore(s, 1) = {} /\ Cardinality({}) = 0
  BY FS_EmptySet DEF QuotesBefore
<1>4. ASSUME NEW n \in 1 .. Len(s)
      PROVE  Inside(s, n + 1) <=> IF escape /\ s[n] = Quote THEN ~Inside(s, n) ELSE Inside(s, n)
  <2>1. IsFiniteSet(QuotesBefore(s, n)) /\ n \notin QuotesBefore(s, n)
    <3>1. IsFiniteSet(1 .. n - 1)
      BY FS_Interval
    <3> QED BY <3>1, FS_Subset DEF QuotesBefore
  <2>2. Cardinality(QuotesBefore(s, n)) \in Nat
    BY <2>1, FS_CardinalityType
  <2>3. CASE s[n] = Quote
    <3>1. QuotesBefore(s, n + 1) = QuotesBefore(s, n) \cup {n}
      BY <2>3 DEF QuotesBefore
    <3>2. Cardinality(QuotesBefore(s, n + 1)) = Cardinality(QuotesBefore(s, n)) + 1
      BY <2>1, <3>1, FS_AddElement
    <3> QED BY <1>2, <2>2, <2>3, <3>2
  <2>4. CASE s[n] # Quote
    <3>1. QuotesBefore(s, n + 1) = QuotesBefore(s, n)
      BY <2>4 DEF QuotesBefore
    <3> QED BY <1>2, <2>4, <3>1
  <2> QED BY <2>3, <2>4
<1>5. Inside(s, 1) = FALSE
  BY <1>2, <1>3
<1> QED BY <1>4, <1>5

(* A text behind another is inside quotes where one of the two is.         *)
LEMMA InsideJoins ==
  ASSUME NEW s \in Text, NEW t \in Text
  PROVE  /\ \A n \in 1 .. Len(s) + 1 : Inside(s \o t, n) <=> Inside(s, n)
         /\ \A n \in 1 .. Len(t) + 1 :
              Inside(s \o t, Len(s) + n) <=> ~(Inside(s, Len(s) + 1) <=> Inside(t, n))
<1> DEFINE w == s \o t
<1>1. /\ w \in Text /\ Len(w) = Len(s) + Len(t) /\ Len(s) \in Nat /\ Len(t) \in Nat
      /\ \A n \in 1 .. Len(s) : w[n] = s[n]
      /\ \A n \in 1 .. Len(t) : w[Len(s) + n] = t[n]
  <2>1. \A n \in 1 .. Len(t) : Len(s) + n \in Len(s) + 1 .. Len(s) + Len(t) /\ (Len(s) + n) - Len(s) = n
    BY JoinTexts
  <2> QED BY <2>1, JoinTexts
<1> HIDE DEF w
<1>2. ASSUME NEW n \in 1 .. Len(s) + 1 PROVE Inside(w, n) <=> Inside(s, n)
  <2>1. \A k \in 1 .. n - 1 : w[k] = s[k]
    BY <1>1
  <2>2. QuotesBefore(w, n) = QuotesBefore(s, n)
    BY <2>1, Zenon DEF QuotesBefore
  <2> QED BY <2>2 DEF Inside, QuotesBefore
<1> DEFINE Joined(n) == Inside(w, Len(s) + n) <=> ~(Inside(s, Len(s) + 1) <=> Inside(t, n))
           Off == {n \in 1 .. Len(t) + 1 : ~Joined(n)}
<1>3. Joined(1)
  <2>1. Len(s) + 1 \in 1 .. Len(s) + 1
    BY <1>1
  <2>2. Inside(w, Len(s) + 1) <=> Inside(s, Len(s) + 1)
    BY <2>1, <1>2, Zenon
  <2>3. ~Inside(t, 1)
    BY InsideIs
  <2> QED BY <2>2, <2>3
<1>4. ASSUME NEW n \in 1 .. Len(t), Joined(n) PROVE Joined(n + 1)
  <2>1. Len(s) + n \in 1 .. Len(w) /\ w[Len(s) + n] = t[n] /\ Len(s) + n + 1 = Len(s) + (n + 1)
    BY <1>1
  <2>2. Inside(w, Len(s) + (n + 1)) <=>
          IF escape /\ t[n] = Quote THEN ~Inside(w, Len(s) + n) ELSE Inside(w, Len(s) + n)
    <3>1. \A k \in 1 .. Len(w) :
            Inside(w, k + 1) <=> IF escape /\ w[k] = Quote THEN ~Inside(w, k) ELSE Inside(w, k)
      BY <1>1, InsideIs
    <3>2. Inside(w, (Len(s) + n) + 1) <=>
            IF escape /\ w[Len(s) + n] = Quote THEN ~Inside(w, Len(s) + n) ELSE Inside(w, Len(s) + n)
      BY <2>1, <3>1, Zenon
    <3> QED BY <2>1, <3>2
  <2>3. Inside(t, n + 1) <=> IF escape /\ t[n] = Quote THEN ~Inside(t, n) ELSE Inside(t, n)
    BY InsideIs
  <2> QED BY <1>4, <2>2, <2>3
<1>5. ASSUME Off # {} PROVE FALSE
  <2> HIDE DEF Joined
  <2>1. Off \in SUBSET Nat
    OBVIOUS
  <2>2. PICK n \in Off : \A k \in Off : n <= k
    BY <1>5, <2>1, SmallestExists
  <2>3. n # 1 /\ n \in 1 .. Len(t) + 1
    BY <1>3, <2>2
  <2>4. n - 1 \in 1 .. Len(t) /\ n - 1 \notin Off /\ (n - 1) + 1 = n
    BY <1>1, <2>2, <2>3
  <2> QED BY <1>1, <1>4, <2>2, <2>4
<1> QED BY <1>2, <1>5 DEF w

(* A text that a reader at the head of a column takes for one column, and  *)
(* one that it does not take for several when it stands between quotes.    *)
OneColumn(s)     == /\ \A n \in 1 .. Len(s) : s[n] = Sep => Inside(s, n)
                    /\ ~Inside(s, Len(s) + 1)
BetweenQuotes(s) == /\ \A n \in 1 .. Len(s) : s[n] = Sep => ~Inside(s, n)
                    /\ ~Inside(s, Len(s) + 1)

LEMMA OneColumnJoins ==
  ASSUME NEW s \in Text, NEW t \in Text
  PROVE  /\ OneColumn(s) /\ OneColumn(t) => OneColumn(s \o t)
         /\ BetweenQuotes(s) /\ BetweenQuotes(t) => BetweenQuotes(s \o t)
<1> DEFINE w == s \o t
<1>1. /\ w \in Text /\ Len(w) = Len(s) + Len(t) /\ Len(s) \in Nat /\ Len(t) \in Nat
      /\ \A n \in 1 .. Len(s) : w[n] = s[n]
      /\ \A n \in Len(s) + 1 .. Len(w) : w[n] = t[n - Len(s)]
  BY JoinTexts
<1>2. /\ \A n \in 1 .. Len(s) + 1 : Inside(w, n) <=> Inside(s, n)
      /\ \A n \in 1 .. Len(t) + 1 :
              Inside(w, Len(s) + n) <=> ~(Inside(s, Len(s) + 1) <=> Inside(t, n))
  BY InsideJoins
<1> HIDE DEF w
<1>3. ASSUME ~Inside(s, Len(s) + 1)
      PROVE  \A n \in Len(s) + 1 .. Len(w) + 1 : Inside(w, n) <=> Inside(t, n - Len(s))
  <2>1. ASSUME NEW n \in Len(s) + 1 .. Len(w) + 1 PROVE Inside(w, n) <=> Inside(t, n - Len(s))
    <3>1. n - Len(s) \in 1 .. Len(t) + 1 /\ Len(s) + (n - Len(s)) = n
      BY <1>1
    <3> QED BY <3>1, <1>2, <1>3
  <2> QED BY <2>1
<1>4. Len(w) + 1 \in Len(s) + 1 .. Len(w) + 1 /\ (Len(w) + 1) - Len(s) = Len(t) + 1
  BY <1>1
<1>5. ASSUME NEW n \in 1 .. Len(w) PROVE n \in 1 .. Len(s) \/ (n \in Len(s) + 1 .. Len(w) /\ n - Len(s) \in 1 .. Len(t))
  BY <1>1
<1>6. ASSUME OneColumn(s), OneColumn(t) PROVE OneColumn(w)
  <2>1. ~Inside(w, Len(w) + 1)
    BY <1>3, <1>4, <1>6 DEF OneColumn
  <2>2. ASSUME NEW n \in 1 .. Len(w), w[n] = Sep PROVE Inside(w, n)
    <3>1. CASE n \in 1 .. Len(s)
      BY <3>1, <2>2, <1>1, <1>2, <1>6 DEF OneColumn
    <3>2. CASE n \in Len(s) + 1 .. Len(w) /\ n - Len(s) \in 1 .. Len(t)
      BY <3>2, <2>2, <1>1, <1>3, <1>6 DEF OneColumn
    <3> QED BY <3>1, <3>2, <1>5
  <2> QED BY <2>1, <2>2 DEF OneColumn
<1>7. ASSUME BetweenQuotes(s), BetweenQuotes(t) PROVE BetweenQuotes(w)
  <2>1. ~Inside(w, Len(w) + 1)
    BY <1>3, <1>4, <1>7 DEF BetweenQuotes
  <2>2. ASSUME NEW n \in 1 .. Len(w), w[n] = Sep PROVE ~Inside(w, n)
    <3>1. CASE n \in 1 .. Len(s)
      BY <3>1, <2>2, <1>1, <1>2, <1>7 DEF BetweenQuotes
    <3>2. CASE n \in Len(s) + 1 .. Len(w) /\ n - Len(s) \in 1 .. Len(t)
      BY <3>2, <2>2, <1>1, <1>3, <1>7 DEF BetweenQuotes
    <3> QED BY <3>1, <3>2, <1>5
  <2> QED BY <2>1, <2>2 DEF BetweenQuotes
<1> QED BY <1>6, <1>7 DEF w

(* A text with neither separator nor quote is one column; where there is   *)
(* no escape, so is any without separator.                                 *)
LEMMA PlainColumn ==
  ASSUME NEW s \in Text, \A n \in 1 .. Len(s) : s[n] # Sep /\ (escape => s[n] # Quote)
  PROVE  OneColumn(s) /\ BetweenQuotes(s)
<1>1. Len(s) \in Nat
  BY DEF Text
<1>2. QuotesBefore(s, Len(s) + 1) = {} \/ ~escape
  BY <1>1 DEF QuotesBefore
<1>3. ~Inside(s, Len(s) + 1)
  <2>1. Cardinality({}) = 0
    BY FS_EmptySet
  <2>2. 0 % 2 # 1
    OBVIOUS
  <2> QED BY Zenon, <1>2, <2>1, <2>2 DEF Inside, QuotesBefore
<1> QED BY <1>3 DEF OneColumn, BetweenQuotes

Doubled(s) ==
  [n \in DOMAIN s |-> IF s[n] = Quote THEN <<Quote, Quote>> ELSE <<s[n]>>]

LEMMA DoubledType ==
  ASSUME NEW s \in Text
  PROVE  Doubled(s) \in Seq(Text) /\ Len(Doubled(s)) = Len(s) /\ Len(s) \in Nat
         /\ \A n \in 1 .. Len(s) :
              /\ s[n] \in Letters
              /\ Doubled(s)[n] = IF s[n] = Quote THEN <<Quote, Quote>> ELSE <<s[n]>>
<1>1. Len(s) \in Nat /\ DOMAIN s = 1 .. Len(s) /\ \A n \in DOMAIN s : s[n] \in Letters
  BY DEF Text
<1>2. Doubled(s) \in [1 .. Len(s) -> Text]
  BY <1>1, CharTexts DEF Doubled
<1> QED BY <1>1, <1>2 DEF Doubled

LEMMA QuotePair ==
  ASSUME escape
  PROVE  BetweenQuotes(<<Quote, Quote>>) /\ Inside(<<Quote>>, 2) /\ ~Inside(<<Quote>>, 1)
         /\ <<Quote, Quote>> \in Text /\ <<Quote>> \in Text
<1> DEFINE s == <<Quote, Quote>>  t == <<Quote>>
<1>1. s \in Text /\ t \in Text /\ Len(s) = 2 /\ Len(t) = 1 /\ s[1] = Quote /\ s[2] = Quote /\ t[1] = Quote
  BY CharTexts
<1> HIDE DEF s, t
<1>2. ~Inside(s, 1) /\ ~Inside(t, 1)
  BY <1>1, InsideIs
<1>3. 1 \in 1 .. Len(s) /\ 2 \in 1 .. Len(s) /\ 1 \in 1 .. Len(t)
  BY <1>1
<1>4. Inside(s, 1 + 1) /\ (Inside(s, 2 + 1) <=> ~Inside(s, 2))
  <2>1. \A n \in 1 .. Len(s) :
          Inside(s, n + 1) <=> IF escape /\ s[n] = Quote THEN ~Inside(s, n) ELSE Inside(s, n)
    BY <1>1, InsideIs
  <2> QED BY <1>1, <1>2, <1>3, <2>1, Zenon
<1>5. Inside(t, 1 + 1)
  <2>1. \A n \in 1 .. Len(t) :
          Inside(t, n + 1) <=> IF escape /\ t[n] = Quote THEN ~Inside(t, n) ELSE Inside(t, n)
    BY <1>1, InsideIs
  <2> QED BY <1>1, <1>2, <1>3, <2>1, Zenon
<1>6. 1 + 1 = 2 /\ 2 + 1 = 3 /\ Len(s) + 1 = 3
  BY <1>1
<1>7. ~Inside(s, Len(s) + 1) /\ Inside(t, 2)
  BY <1>4, <1>5, <1>6
<1>8. \A n \in 1 .. Len(s) : s[n] # Sep
  BY <1>1, MarksDiffer
<1> QED BY <1>1, <1>2, <1>7, <1>8 DEF BetweenQuotes, s, t

(* The doubled quotes of a text leave a reader where it was.               *)
LEMMA DoubledBetween ==
  ASSUME escape, NEW s \in Text
  PROVE  BetweenQuotes(FlattenSeq(Doubled(s))) /\ FlattenSeq(Doubled(s)) \in Text
<1> DEFINE ss == Doubled(s)
<1>1. /\ ss \in Seq(Seq(Letters)) /\ Len(ss) = Len(s) /\ Len(s) \in Nat
      /\ \A n \in 1 .. Len(s) : s[n] \in Letters
                                /\ ss[n] = IF s[n] = Quote THEN <<Quote, Quote>> ELSE <<s[n]>>
  BY DoubledType DEF Text
<1> HIDE DEF ss
<1>2. PICK f \in [0 .. Len(ss) -> Seq(Letters)] :
             /\ f[0] = <<>> /\ FlattenSeq(ss) = f[Len(ss)]
             /\ \A k \in 1 .. Len(ss) : f[k] = f[k - 1] \o ss[k]
  BY <1>1, FlattenIs
<1>3. BetweenQuotes(f[0])
  <2>1. \A n \in 1 .. Len(<<>>) : FALSE
    OBVIOUS
  <2>2. <<>> \in Text
    BY CharTexts
  <2>3. BetweenQuotes(<<>>)
    BY <2>1, <2>2, PlainColumn
  <2> QED BY <1>2, <2>3
<1>4. ASSUME NEW k \in 1 .. Len(ss), BetweenQuotes(f[k - 1]) PROVE BetweenQuotes(f[k])
  <2>1. f[k - 1] \in Text /\ f[k] = f[k - 1] \o ss[k] /\ k \in 1 .. Len(s)
    <3>1. k - 1 \in 0 .. Len(ss) /\ k \in 1 .. Len(s)
      BY <1>1
    <3> QED BY <3>1, <1>2 DEF Text
  <2>2. BetweenQuotes(ss[k]) /\ ss[k] \in Text
    <3>1. CASE s[k] = Quote
      BY <1>1, <2>1, <3>1, QuotePair
    <3>2. CASE s[k] # Quote
      <4> DEFINE c == s[k]
      <4>1. <<c>> \in Text /\ Len(<<c>>) = 1 /\ <<c>>[1] = c
        BY <1>1, <2>1, CharTexts
      <4>2. <<c>>[1] # Quote
        BY <3>2, <4>1
      <4> DEFINE q == <<c>>
      <4> HIDE DEF q
      <4>3. /\ ~Inside(q, 1)
            /\ \A n \in 1 .. Len(q) :
                 Inside(q, n + 1) <=> IF escape /\ q[n] = Quote THEN ~Inside(q, n) ELSE Inside(q, n)
        BY <4>1, InsideIs DEF q
      <4>4. 1 \in 1 .. Len(q) /\ Len(q) = 1 /\ q[1] # Quote
        BY <4>1, <4>2 DEF q
      <4>5. ~Inside(q, 1 + 1)
        BY <4>3, <4>4, Zenon
      <4>6. BetweenQuotes(<<c>>)
        BY <4>3, <4>4, <4>5 DEF BetweenQuotes, q
      <4> QED BY <1>1, <2>1, <3>2, <4>1, <4>6
    <3> QED BY <3>1, <3>2
  <2> QED BY <1>4, <2>1, <2>2, OneColumnJoins
<1> DEFINE Off == {k \in 0 .. Len(ss) : ~BetweenQuotes(f[k])}
<1>5. ASSUME Off # {} PROVE FALSE
  <2>1. Off \in SUBSET Nat
    BY <1>1
  <2>2. PICK k \in Off : \A n \in Off : k <= n
    BY <1>5, <2>1, SmallestExists
  <2>3. k # 0 /\ k \in 0 .. Len(ss)
    BY <1>3, <2>2
  <2>4. k - 1 \in 0 .. Len(ss) /\ k - 1 \notin Off /\ k \in 1 .. Len(ss)
    BY <1>1, <2>2, <2>3
  <2> QED BY <1>4, <2>2, <2>4
<1>6. Len(ss) \in 0 .. Len(ss)
  BY <1>1
<1> QED BY <1>2, <1>5, <1>6 DEF ss, Text

(* What is written of a field, without the blanks around it.               *)
Core(f) == IF f.quoted THEN <<Quote>> \o FlattenSeq(Doubled(f.text)) \o <<Quote>> ELSE f.text

LEMMA WrittenAs ==
  ASSUME NEW f
  PROVE  Written(f) = IF f.padded THEN <<Blank>> \o Core(f) \o <<Blank, Blank>> ELSE Core(f)
  BY DEF Written, Core, Doubled

LEMMA CoreIs ==
  ASSUME escape \in BOOLEAN, NEW f \in Field, WellWritten(f)
  PROVE  Core(f) \in Text /\ OneColumn(Core(f))
<1>1. f.text \in Text
  BY DEF Field
<1>2. CASE f.quoted
  <2> DEFINE t == FlattenSeq(Doubled(f.text))
  <2>1. escape
    BY <1>2 DEF WellWritten
  <2>2. BetweenQuotes(t) /\ t \in Text
    BY <1>1, <2>1, DoubledBetween
  <2>3. Core(f) = <<Quote>> \o t \o <<Quote>>
    BY <1>2 DEF Core
  <2> HIDE DEF t
  <2> DEFINE q == <<Quote>>  v == q \o t  w == v \o q
  <2>4. q \in Text /\ Len(q) = 1 /\ q[1] = Quote /\ ~Inside(q, 1) /\ Inside(q, 2)
    BY <2>1, QuotePair
  <2> HIDE DEF q
  <2>5. v \in Text /\ Len(v) = 1 + Len(t) /\ Len(t) \in Nat /\ v[1] = Quote
        /\ \A n \in 2 .. Len(v) : v[n] = t[n - 1]
    <3>1. /\ v \in Text /\ Len(v) = Len(q) + Len(t) /\ Len(t) \in Nat
          /\ \A n \in 1 .. Len(q) : v[n] = q[n]
          /\ \A n \in Len(q) + 1 .. Len(q) + Len(t) : v[n] = t[n - Len(q)]
      BY <2>2, <2>4, JoinTexts
    <3> HIDE DEF v
    <3> QED BY <3>1, <2>4
  <2>6. \A n \in 1 .. Len(t) + 1 : Inside(v, 1 + n) <=> ~Inside(t, n)
    <3>1. \A n \in 1 .. Len(t) + 1 :
            Inside(v, Len(q) + n) <=> ~(Inside(q, Len(q) + 1) <=> Inside(t, n))
      BY <2>2, <2>4, InsideJoins
    <3> QED BY <3>1, <2>4
  <2> HIDE DEF v
  <2>7. Inside(v, Len(v) + 1)
    <3>1. Len(t) + 1 \in 1 .. Len(t) + 1 /\ 1 + (Len(t) + 1) = Len(v) + 1
      BY <2>5
    <3> QED BY <2>2, <2>6, <3>1 DEF BetweenQuotes
  <2>8. ASSUME NEW n \in 1 .. Len(v), v[n] = Sep PROVE Inside(v, n)
    <3>1. n \in 2 .. Len(v) /\ n - 1 \in 1 .. Len(t) /\ n - 1 \in 1 .. Len(t) + 1 /\ 1 + (n - 1) = n
      BY <2>5, <2>8, MarksDiffer
    <3> QED BY <2>2, <2>5, <2>6, <2>8, <3>1 DEF BetweenQuotes
  <2>9. w \in Text /\ Len(w) = Len(v) + 1 /\ w[Len(v) + 1] = Quote
        /\ \A n \in 1 .. Len(v) : w[n] = v[n]
    <3>1. /\ w \in Text /\ Len(w) = Len(v) + Len(q)
          /\ \A n \in 1 .. Len(v) : w[n] = v[n]
          /\ \A n \in Len(v) + 1 .. Len(v) + Len(q) : w[n] = q[n - Len(v)]
      BY <2>4, <2>5, JoinTexts
    <3>2. Len(v) + 1 \in Len(v) + 1 .. Len(v) + Len(q) /\ (Len(v) + 1) - Len(v) = 1
      BY <2>4, <2>5
    <3> HIDE DEF w
    <3> QED BY <2>4, <3>1, <3>2
  <2>10. /\ \A n \in 1 .. Len(v) + 1 : Inside(w, n) <=> Inside(v, n)
         /\ \A n \in 1 .. Len(q) + 1 :
              Inside(w, Len(v) + n) <=> ~(Inside(v, Len(v) + 1) <=> Inside(q, n))
    BY <2>4, <2>5, InsideJoins
  <2> HIDE DEF w
  <2>11. ~Inside(w, Len(w) + 1)
    <3>1. 2 \in 1 .. Len(q) + 1 /\ Len(v) + 2 = Len(w) + 1
      BY <2>4, <2>5, <2>9
    <3> QED BY <2>4, <2>7, <2>10, <3>1
  <2>12. ASSUME NEW n \in 1 .. Len(w), w[n] = Sep PROVE Inside(w, n)
    <3>1. n \in 1 .. Len(v) /\ n \in 1 .. Len(v) + 1
      BY <2>5, <2>9, <2>12, MarksDiffer
    <3> QED BY <2>8, <2>9, <2>10, <2>12, <3>1
  <2>13. OneColumn(w)
    BY <2>11, <2>12 DEF OneColumn
  <2> QED BY <2>3, <2>9, <2>13 DEF v, w, q
<1>3. CASE ~f.quoted
  <2>1. \A n \in 1 .. Len(f.text) : f.text[n] # Sep /\ (escape => f.text[n] # Quote)
    <3>1. DOMAIN f.text = 1 .. Len(f.text)
      BY <1>1 DEF Text
    <3> QED BY <1>3, <3>1 DEF WellWritten, ToSet
  <2> QED BY <1>1, <1>3, <2>1, PlainColumn DEF Core
<1> QED BY <1>2, <1>3

LEMMA WrittenColumn ==
  ASSUME escape \in BOOLEAN, NEW f \in Field, WellWritten(f)
  PROVE  Written(f) \in Text /\ OneColumn(Written(f))
<1>1. Core(f) \in Text /\ OneColumn(Core(f))
  BY CoreIs
<1>2. <<Blank>> \in Text /\ <<Blank, Blank>> \in Text /\ OneColumn(<<Blank>>) /\ OneColumn(<<Blank, Blank>>)
  <2>1. <<Blank>> \in Text /\ <<Blank, Blank>> \in Text
    BY CharTexts
  <2>2. /\ \A n \in 1 .. Len(<<Blank>>) : <<Blank>>[n] = Blank
        /\ \A n \in 1 .. Len(<<Blank, Blank>>) : <<Blank, Blank>>[n] = Blank
    OBVIOUS
  <2> QED BY <2>1, <2>2, MarksDiffer, PlainColumn
<1>3. <<Blank>> \o Core(f) \in Text /\ OneColumn(<<Blank>> \o Core(f))
  BY <1>1, <1>2, JoinTexts, OneColumnJoins
<1>4. <<Blank>> \o Core(f) \o <<Blank, Blank>> \in Text
      /\ OneColumn(<<Blank>> \o Core(f) \o <<Blank, Blank>>)
  BY <1>2, <1>3, JoinTexts, OneColumnJoins
<1> QED BY <1>1, <1>4, WrittenAs

(* The column that is cut from a line is the one that was written.         *)
LEMMA ColumnIsCut ==
  ASSUME NEW s \in Text, OneColumn(s), NEW t \in Text, t # <<>> => t[1] = Sep
  PROVE  /\ NextColumnEnd(s \o t) = Len(s) + 1 /\ ~Inside(s \o t, Len(s) + 1)
         /\ SubSeq(s \o t, 1, Len(s)) = s
         /\ s \o t \in Text /\ ((Len(s) + 1 > Len(s \o t)) <=> (t = <<>>))
         /\ t # <<>> => SubSeq(s \o t, Len(s) + 2, Len(s \o t)) = Tail(t)
<1> DEFINE w == s \o t
<1>1. /\ w \in Text /\ Len(w) = Len(s) + Len(t) /\ Len(s) \in Nat /\ Len(t) \in Nat
      /\ \A n \in 1 .. Len(s) : w[n] = s[n]
      /\ \A n \in Len(s) + 1 .. Len(w) : w[n] = t[n - Len(s)]
      /\ (t = <<>>) <=> (Len(t) = 0)
  BY JoinTexts DEF Text
<1>2. \A n \in 1 .. Len(s) + 1 : Inside(w, n) <=> Inside(s, n)
  BY InsideJoins
<1> HIDE DEF w
<1>3. ~Inside(w, Len(s) + 1)
  <2>1. Len(s) + 1 \in 1 .. Len(s) + 1
    BY <1>1
  <2> QED BY <1>2, <2>1 DEF OneColumn
<1> DEFINE end == NextColumnEnd(w)
<1>4. /\ end \in 1 .. Len(w) + 1 /\ (end <= Len(w) => w[end] = Sep /\ ~Inside(w, end))
      /\ \A n \in 1 .. Len(w) : w[n] = Sep /\ ~Inside(w, n) => end <= n
  BY <1>1, NextColumnEndIs
<1> HIDE DEF end
<1>5. ~(end <= Len(s))
  <2> SUFFICES ASSUME end <= Len(s) PROVE FALSE
    OBVIOUS
  <2>1. end \in 1 .. Len(s) /\ end \in 1 .. Len(s) + 1 /\ end <= Len(w)
    BY <1>1, <1>4
  <2> QED BY <1>1, <1>2, <1>4, <2>1 DEF OneColumn
<1>6. end <= Len(s) + 1
  <2>1. CASE t = <<>>
    BY <1>1, <1>4, <2>1
  <2>2. CASE t # <<>>
    <3>1. Len(s) + 1 \in 1 .. Len(w) /\ w[Len(s) + 1] = t[1]
      <4>1. Len(s) + 1 \in Len(s) + 1 .. Len(w) /\ (Len(s) + 1) - Len(s) = 1
        BY <1>1, <2>2
      <4> QED BY <4>1, <1>1
    <3> QED BY <1>3, <1>4, <2>2, <3>1
  <2> QED BY <2>1, <2>2
<1>7. end = Len(s) + 1
  BY <1>1, <1>4, <1>5, <1>6
<1>8. SubSeq(w, 1, Len(s)) = s
  <2>1. SubSeq(w, 1, Len(s)) \in Seq(Letters) /\ Len(SubSeq(w, 1, Len(s))) = Len(s)
        /\ \A n \in 1 .. Len(s) : SubSeq(w, 1, Len(s))[n] = w[n]
    BY <1>1 DEF Text
  <2> QED BY <2>1, <1>1, SameSequence DEF Text
<1>9. ASSUME t # <<>> PROVE SubSeq(w, Len(s) + 2, Len(w)) = Tail(t)
  <2> DEFINE u == SubSeq(w, Len(s) + 2, Len(w))  v == Tail(t)
  <2>1. u \in Seq(Letters) /\ Len(u) = Len(t) - 1
        /\ \A n \in 1 .. Len(t) - 1 : u[n] = w[Len(s) + 1 + n]
    <3>1. Len(t) # 0 /\ w \in Seq(Letters) /\ Len(w) \in 0 .. Len(w) /\ Len(s) + 2 \in 1 .. Len(w) + 1
      BY <1>1, <1>9 DEF Text
    <3>2. /\ u \in Seq(Letters) /\ Len(u) = Len(w) - (Len(s) + 2) + 1
          /\ \A n \in 1 .. Len(w) - (Len(s) + 2) + 1 : u[n] = w[(Len(s) + 2) - 1 + n]
      BY <3>1, SubSeqIs
    <3> HIDE DEF u
    <3>3. Len(w) - (Len(s) + 2) + 1 = Len(t) - 1
      BY <1>1
    <3>4. ASSUME NEW n \in 1 .. Len(t) - 1 PROVE u[n] = w[Len(s) + 1 + n]
      <4>1. n \in 1 .. Len(w) - (Len(s) + 2) + 1 /\ (Len(s) + 2) - 1 + n = Len(s) + 1 + n
        BY <1>1, <3>3
      <4> QED BY <3>2, <4>1
    <3> QED BY <3>2, <3>3, <3>4
  <2>2. v \in Seq(Letters) /\ Len(v) = Len(t) - 1 /\ \A n \in 1 .. Len(t) - 1 : v[n] = t[n + 1]
    BY <1>1, <1>9 DEF Text
  <2>3. ASSUME NEW n \in 1 .. Len(t) - 1 PROVE u[n] = v[n]
    <3>1. Len(s) + 1 + n \in Len(s) + 1 .. Len(w) /\ (Len(s) + 1 + n) - Len(s) = n + 1
      BY <1>1
    <3> QED BY <3>1, <2>1, <2>2, <1>1
  <2> HIDE DEF u, v
  <2>4. u = v
    BY <2>1, <2>2, <2>3, SameSequence
  <2> QED BY <2>4 DEF u, v
<1> QED BY <1>1, <1>3, <1>7, <1>8, <1>9 DEF w, end

(* The blanks around a text that neither begins nor ends with one go.      *)
LEMMA TrimOf ==
  ASSUME NEW s \in Text, NEW a \in 1 .. Len(s), NEW b \in a .. Len(s), s[a] # Blank, s[b] # Blank,
         \A n \in 1 .. Len(s) : n < a \/ b < n => s[n] = Blank
  PROVE  Trim(s) = SubSeq(s, a, b)
<1> DEFINE kept == {n \in DOMAIN s : s[n] # Blank}
<1>1. Len(s) \in Nat /\ kept \in SUBSET Nat /\ a \in kept /\ b \in kept
      /\ \A n \in kept : a <= n /\ n <= b
  BY DEF Text
<1>2. Trim(s) = SubSeq(s, Min(kept), Max(kept))
  BY <1>1 DEF Trim
<1> HIDE DEF kept
<1>3. Min(kept) \in kept /\ Min(kept) <= a
  BY <1>1, Least
<1>4. Max(kept) \in kept /\ b <= Max(kept)
  <2>1. b \in Nat
    OBVIOUS
  <2> QED BY <1>1, <2>1, Largest
<1>5. Min(kept) = a /\ Max(kept) = b
  <2>1. a \in Nat /\ b \in Nat /\ Min(kept) \in Nat /\ Max(kept) \in Nat
    BY <1>1, <1>3, <1>4
  <2>2. a <= Min(kept) /\ Max(kept) <= b
    BY <1>1, <1>3, <1>4
  <2> QED BY <2>1, <2>2, <1>3, <1>4
<1> QED BY <1>2, <1>5

LEMMA TrimPadded ==
  ASSUME NEW s \in Text, s # <<>> => s[1] # Blank /\ s[Len(s)] # Blank
  PROVE  Trim(s) = s /\ Trim(<<Blank>> \o s \o <<Blank, Blank>>) = s
<1> DEFINE q == <<Blank>>  h == <<Blank, Blank>>  v == q \o s  w == v \o h
<1>1. /\ q \in Text /\ h \in Text /\ Len(q) = 1 /\ Len(h) = 2 /\ q[1] = Blank
      /\ h[1] = Blank /\ h[2] = Blank /\ Len(s) \in Nat /\ s \in Seq(Letters)
  BY CharTexts DEF Text
<1> HIDE DEF q, h
<1>2. v \in Text /\ Len(v) = 1 + Len(s) /\ v[1] = Blank /\ \A n \in 2 .. Len(v) : v[n] = s[n - 1]
  <2>1. /\ v \in Text /\ Len(v) = Len(q) + Len(s)
        /\ \A n \in 1 .. Len(q) : v[n] = q[n]
        /\ \A n \in Len(q) + 1 .. Len(q) + Len(s) : v[n] = s[n - Len(q)]
    BY <1>1, JoinTexts
  <2> HIDE DEF v
  <2> QED BY <2>1, <1>1
<1> HIDE DEF v
<1>3. /\ w \in Text /\ Len(w) = Len(s) + 3
      /\ \A n \in 1 .. Len(v) : w[n] = v[n]
      /\ \A n \in Len(v) + 1 .. Len(w) : w[n] = Blank
  <2>1. /\ w \in Text /\ Len(w) = Len(v) + Len(h)
        /\ \A n \in 1 .. Len(v) : w[n] = v[n]
        /\ \A n \in Len(v) + 1 .. Len(v) + Len(h) : w[n] = h[n - Len(v)]
    BY <1>1, <1>2, JoinTexts
  <2> HIDE DEF w
  <2>2. ASSUME NEW n \in Len(v) + 1 .. Len(w) PROVE w[n] = Blank
    <3>1. n - Len(v) \in 1 .. 2 /\ n \in Len(v) + 1 .. Len(v) + Len(h)
      BY <1>1, <1>2, <2>1
    <3>2. n - Len(v) = 1 \/ n - Len(v) = 2
      BY <3>1, <1>2
    <3> QED BY <2>1, <3>1, <3>2, <1>1
  <2> QED BY <1>1, <1>2, <2>1, <2>2
<1> HIDE DEF w
<1>4. CASE s = <<>>
  <2>1. Trim(s) = s
    BY <1>4 DEF Trim
  <2>2. {n \in DOMAIN w : w[n] # Blank} = {}
    <3>1. Len(s) = 0 /\ DOMAIN w = 1 .. 3 /\ Len(v) = 1 /\ Len(w) = 3
      BY <1>1, <1>2, <1>3, <1>4 DEF Text
    <3> QED BY <3>1, <1>2, <1>3
  <2>3. Trim(w) = <<>>
    BY <2>2 DEF Trim
  <2> QED BY <1>4, <2>1, <2>3 DEF w, v, q, h
<1>5. CASE s # <<>>
  <2>1. Len(s) > 0 /\ 1 \in 1 .. Len(s) /\ Len(s) \in 1 .. Len(s) /\ s[1] # Blank /\ s[Len(s)] # Blank
    BY <1>1, <1>5
  <2>2. Trim(s) = SubSeq(s, 1, Len(s))
    BY <2>1, TrimOf
  <2>3. Trim(w) = SubSeq(w, 2, Len(s) + 1)
    <3>1. 2 \in 1 .. Len(w) /\ Len(s) + 1 \in 2 .. Len(w) /\ 2 \in 2 .. Len(v) /\ Len(s) + 1 \in 2 .. Len(v)
          /\ 2 - 1 = 1 /\ (Len(s) + 1) - 1 = Len(s)
      BY <1>2, <1>3, <2>1
    <3>2. w[2] = s[1] /\ w[Len(s) + 1] = s[Len(s)]
      BY <3>1, <1>2, <1>3
    <3>3. ASSUME NEW n \in 1 .. Len(w), n < 2 \/ Len(s) + 1 < n PROVE w[n] = Blank
      BY <3>3, <1>1, <1>2, <1>3
    <3> QED BY <1>3, <2>1, <3>1, <3>2, <3>3, TrimOf
  <2>4. SubSeq(w, 2, Len(s) + 1) = s
    <3> DEFINE u == SubSeq(w, 2, Len(s) + 1)
    <3>1. u \in Seq(Letters) /\ Len(u) = Len(s) /\ \A n \in 1 .. Len(s) : u[n] = w[n + 1]
      BY <1>1, <1>3 DEF Text
    <3>2. ASSUME NEW n \in 1 .. Len(s) PROVE w[n + 1] = s[n]
      <4>1. n + 1 \in 2 .. Len(v) /\ n + 1 \in 1 .. Len(v) /\ (n + 1) - 1 = n
        BY <1>2
      <4> QED BY <4>1, <1>2, <1>3
    <3> HIDE DEF u
    <3>3. u = s
      BY <3>1, <3>2, <1>1, SameSequence
    <3> QED BY <3>3 DEF u
  <2>5. SubSeq(s, 1, Len(s)) = s
    BY <1>1
  <2> QED BY <2>2, <2>3, <2>4, <2>5 DEF w, v, q, h
<1> QED BY <1>4, <1>5

LEMMA CoreComesBack ==
  ASSUME escape \in BOOLEAN, NEW f \in Field, WellWritten(f)
  PROVE  Trim(Written(f)) = Core(f)
<1> DEFINE s == Core(f)
<1>1. s \in Text
  BY CoreIs
<1>2. s # <<>> => s[1] # Blank /\ s[Len(s)] # Blank
  <2>1. CASE f.quoted
    <3> DEFINE t == FlattenSeq(Doubled(f.text))
    <3>1. t \in Text
      BY <2>1, DoubledBetween DEF WellWritten, Field
    <3> DEFINE q == <<Quote>>  v == q \o t
    <3>2. q \in Text /\ Len(q) = 1 /\ q[1] = Quote
      BY CharTexts
    <3>3. s = v \o q
      BY <2>1 DEF Core
    <3> HIDE DEF t, q, s
    <3>4. /\ v \in Text /\ Len(v) = Len(q) + Len(t) /\ Len(t) \in Nat
          /\ \A n \in 1 .. Len(q) : v[n] = q[n]
      BY <3>1, <3>2, JoinTexts
    <3> HIDE DEF v
    <3>5. /\ Len(s) = Len(v) + Len(q)
          /\ \A n \in 1 .. Len(v) : s[n] = v[n]
          /\ \A n \in Len(v) + 1 .. Len(v) + Len(q) : s[n] = q[n - Len(v)]
      BY <3>2, <3>3, <3>4, JoinTexts
    <3>6. 1 \in 1 .. Len(q) /\ 1 \in 1 .. Len(v) /\ Len(s) \in Len(v) + 1 .. Len(v) + Len(q)
          /\ Len(s) - Len(v) = 1
      BY <3>2, <3>4, <3>5
    <3>7. s[1] = Quote /\ s[Len(s)] = Quote
      BY <3>2, <3>4, <3>5, <3>6
    <3> QED BY <3>7, MarksDiffer
  <2>2. CASE ~f.quoted
    <3>1. s = f.text
      BY <2>2 DEF Core
    <3>2. f.text # <<>> => Len(f.text) > 0
      BY <1>1, <3>1 DEF Text
    <3> QED BY <2>2, <3>1, <3>2 DEF WellWritten
  <2> QED BY <2>1, <2>2 DEF Field
<1>3. Trim(s) = s /\ Trim(<<Blank>> \o s \o <<Blank, Blank>>) = s
  BY <1>1, <1>2, TrimPadded
<1> QED BY <1>3, WrittenAs

(* The beginnings of what is put together are beginnings of the whole.     *)
LEMMA FlattenBegins ==
  ASSUME NEW T, NEW ss \in Seq(Seq(T)), NEW f \in [0 .. Len(ss) -> Seq(T)],
         \A k \in 1 .. Len(ss) : f[k] = f[k - 1] \o ss[k]
  PROVE  \A k \in 0 .. Len(ss) :
           /\ Len(f[k]) \in Nat /\ Len(f[k]) <= Len(f[Len(ss)])
           /\ \A n \in 1 .. Len(f[k]) : f[k][n] = f[Len(ss)][n]
<1> DEFINE m == Len(ss)  end == f[m]
           Begins(k) == /\ Len(f[k]) \in Nat /\ Len(f[k]) <= Len(end)
                        /\ \A n \in 1 .. Len(f[k]) : f[k][n] = end[n]
           Off == {k \in 0 .. m : ~Begins(m - k)}
<1>1. /\ m \in Nat /\ \A k \in 0 .. m : f[k] \in Seq(T)
      /\ \A k \in 1 .. m : ss[k] \in Seq(T) /\ f[k] = f[k - 1] \o ss[k] /\ k - 1 \in 0 .. m
  OBVIOUS
<1>2. Begins(m)
  BY <1>1
<1>3. ASSUME NEW k \in 1 .. m, Begins(k) PROVE Begins(k - 1)
  <2> DEFINE s == f[k - 1]  t == ss[k]
  <2>1. s \in Seq(T) /\ t \in Seq(T) /\ f[k] = s \o t
    BY <1>1
  <2> HIDE DEF s, t, end
  <2>2. Len(s) \in Nat /\ Len(s) <= Len(f[k]) /\ \A n \in 1 .. Len(s) : f[k][n] = s[n]
    BY <2>1
  <2>3. Len(s) <= Len(end) /\ \A n \in 1 .. Len(s) : s[n] = end[n]
    <3>1. Len(end) \in Nat
      BY <1>1 DEF end
    <3>2. \A n \in 1 .. Len(s) : n \in 1 .. Len(f[k])
      BY <1>3, <2>2
    <3> QED BY <3>1, <3>2, <1>3, <2>2
  <2> QED BY <2>2, <2>3 DEF s
<1>4. ASSUME Off # {} PROVE FALSE
  <2> HIDE DEF Begins
  <2>1. Off \in SUBSET Nat
    OBVIOUS
  <2>2. PICK k \in Off : \A n \in Off : k <= n
    BY <1>4, <2>1, SmallestExists
  <2>3. k \in 0 .. m /\ ~Begins(m - k)
    BY <2>2
  <2>4. k # 0
    <3>1. k = 0 => m - k = m
      BY <1>1
    <3> QED BY <3>1, <1>2, <2>3
  <2>5. k - 1 \in 0 .. m /\ k - 1 \notin Off /\ m - (k - 1) \in 1 .. m
        /\ (m - (k - 1)) - 1 = m - k
    <3>1. k - 1 \in 0 .. m /\ m - (k - 1) \in 1 .. m /\ (m - (k - 1)) - 1 = m - k /\ ~(k <= k - 1)
      BY <1>1, <2>3, <2>4
    <3> HIDE DEF Off
    <3> QED BY <3>1, <2>2
  <2>6. Begins(m - (k - 1))
    BY <2>5
  <2>7. Begins((m - (k - 1)) - 1)
    BY <1>3, <2>5, <2>6
  <2> QED BY <2>3, <2>5, <2>7
<1>5. ASSUME NEW k \in 0 .. m PROVE Begins(k)
  <2>1. m - k \in 0 .. m /\ m - (m - k) = k
    BY <1>1
  <2>2. m - k \notin Off
    BY <1>4
  <2> HIDE DEF Begins
  <2>3. Begins(m - (m - k))
    BY <2>1, <2>2
  <2> QED BY <2>1, <2>3
<1> QED BY <1>5

(* The quotes between the outer ones, as the unescaping counts them.       *)
RunFrom(s, n) == Min({k \in 1 .. n : \A j \in k .. n : s[j] = Quote})
First(s, n) == n > 0 /\ s[n] = Quote /\ (n - RunFrom(s, n)) % 2 = 0

(* A quote is kept when the one before it is not, or is none.              *)
LEMMA FirstIs ==
  ASSUME NEW s \in Text, NEW n \in 1 .. Len(s)
  PROVE  First(s, n) <=> s[n] = Quote /\ ~First(s, n - 1)
<1> DEFINE S(m) == {k \in 1 .. m : \A j \in k .. m : s[j] = Quote}
<1>1. Len(s) \in Nat
  BY DEF Text
<1>2. ASSUME s[n] = Quote PROVE First(s, n) <=> ~First(s, n - 1)
  <2>1. n \in S(n) /\ S(n) \in SUBSET Nat
    BY <1>2
  <2>2. RunFrom(s, n) = Min(S(n))
    BY DEF RunFrom
  <2>3. CASE n = 1 \/ s[n - 1] # Quote
    <3>1. S(n) = {n}
      <4>1. ASSUME NEW k \in S(n), k # n PROVE FALSE
        <5>1. n - 1 \in k .. n /\ k \in 1 .. n /\ n # 1
          BY <4>1
        <5>2. s[n - 1] = Quote
          BY <4>1, <5>1
        <5> QED BY <2>3, <5>1, <5>2
      <4> QED BY <2>1, <4>1
    <3> HIDE DEF S
    <3>2. Min(S(n)) = n
      BY <2>1, <3>1, Least
    <3>3. First(s, n)
      BY <1>2, <2>2, <3>2 DEF First
    <3>4. ~First(s, n - 1)
      BY <2>3 DEF First
    <3> QED BY <3>3, <3>4
  <2>4. CASE n # 1 /\ s[n - 1] = Quote
    <3>1. n - 1 \in S(n - 1) /\ S(n - 1) \in SUBSET Nat /\ n - 1 \in 1 .. Len(s)
      BY <1>1, <2>4
    <3>2. S(n) = S(n - 1) \cup {n}
      <4>1. ASSUME NEW k \in S(n), k # n PROVE k \in S(n - 1)
        BY <4>1
      <4>2. ASSUME NEW k \in S(n - 1) PROVE k \in S(n)
        <5>1. ASSUME NEW j \in k .. n PROVE s[j] = Quote
          <6>1. j = n \/ j \in k .. n - 1
            OBVIOUS
          <6> QED BY <1>2, <4>2, <6>1
        <5> QED BY <4>2, <5>1
      <4> QED BY <2>1, <4>1, <4>2
    <3>3. \A k \in S(n - 1) : k <= n - 1 /\ k \in 1 .. n - 1
      OBVIOUS
    <3>4. RunFrom(s, n - 1) = Min(S(n - 1))
      BY DEF RunFrom
    <3> HIDE DEF S
    <3>5. Min(S(n)) = Min(S(n - 1)) /\ Min(S(n - 1)) \in 1 .. n - 1
      <4>1. Min(S(n - 1)) \in S(n - 1) /\ \A k \in S(n - 1) : Min(S(n - 1)) <= k
        BY <3>1, Least
      <4>2. Min(S(n)) \in S(n) /\ \A k \in S(n) : Min(S(n)) <= k
        BY <2>1, Least
      <4>3. Min(S(n - 1)) \in S(n) /\ Min(S(n - 1)) <= n - 1
        BY <3>2, <3>3, <4>1
      <4>4. Min(S(n)) <= Min(S(n - 1)) /\ Min(S(n)) \in Nat /\ Min(S(n - 1)) \in Nat
        BY <2>1, <3>1, <4>1, <4>2, <4>3
      <4>5. Min(S(n)) \in S(n - 1)
        BY <3>2, <4>2, <4>3, <4>4
      <4>6. Min(S(n - 1)) <= Min(S(n)) /\ Min(S(n - 1)) \in 1 .. n - 1
        BY <3>3, <4>1, <4>5
      <4> QED BY <4>4, <4>6
    <3>6. (n - Min(S(n))) % 2 = 0 <=> ~(((n - 1) - Min(S(n))) % 2 = 0)
      BY <3>1, <3>5
    <3> QED BY <1>2, <2>2, <2>4, <3>1, <3>4, <3>5, <3>6 DEF First
  <2> QED BY <2>3, <2>4
<1>3. s[n] # Quote => ~First(s, n)
  BY DEF First
<1> QED BY <1>2, <1>3

Halved(s) == [n \in DOMAIN s |-> IF s[n] = Quote => First(s, n) THEN <<s[n]>> ELSE <<>>]

LEMMA UnescapeIs ==
  ASSUME NEW s \in Text, escape, Len(s) >= 2, s[1] = Quote, s[Len(s)] = Quote
  PROVE  Unescape(s) = FlattenSeq(Halved(SubSeq(s, 2, Len(s) - 1)))
<1> DEFINE inner == SubSeq(s, 2, Len(s) - 1)
           from(n) == Min({k \in 1 .. n : \A j \in k .. n : inner[j] = Quote})
           kept == {n \in DOMAIN inner : inner[n] = Quote => (n - from(n)) % 2 = 0}
           parts == [n \in DOMAIN inner |-> IF n \in kept THEN <<inner[n]>> ELSE <<>>]
<1>1. Unescape(s) = FlattenSeq(parts)
  BY DEF Unescape
<1>2. DOMAIN inner \subseteq Nat \ {0}
  BY DEF Text
<1> HIDE DEF inner
<1>3. parts = Halved(inner)
  <2>1. ASSUME NEW n \in DOMAIN inner PROVE n \in kept <=> (inner[n] = Quote => First(inner, n))
    BY <1>2 DEF First, RunFrom
  <2> HIDE DEF kept
  <2> QED BY <2>1 DEF Halved
<1> QED BY <1>1, <1>3 DEF inner

LEMMA KeptType ==
  ASSUME NEW s \in Text
  PROVE  /\ Halved(s) \in Seq(Text) /\ Len(Halved(s)) = Len(s) /\ Len(s) \in Nat
         /\ \A n \in 1 .. Len(s) :
              Halved(s)[n] = IF s[n] = Quote => First(s, n) THEN <<s[n]>> ELSE <<>>
<1>1. Len(s) \in Nat /\ DOMAIN s = 1 .. Len(s) /\ \A n \in DOMAIN s : s[n] \in Letters
  BY DEF Text
<1>2. Halved(s) \in [1 .. Len(s) -> Text]
  BY <1>1, CharTexts DEF Halved
<1>3. Halved(s) \in Seq(Text) /\ Len(Halved(s)) = Len(s)
  BY <1>1, <1>2
<1>4. ASSUME NEW n \in 1 .. Len(s)
      PROVE  Halved(s)[n] = IF s[n] = Quote => First(s, n) THEN <<s[n]>> ELSE <<>>
  BY <1>1 DEF Halved
<1> QED BY <1>1, <1>3, <1>4

(* Of doubled quotes the unescaping keeps every other one, which are those *)
(* that were written.                                                      *)
LEMMA DoubledComeBack ==
  ASSUME NEW s \in Text
  PROVE  FlattenSeq(Halved(FlattenSeq(Doubled(s)))) = s
<1> DEFINE t == FlattenSeq(Doubled(s))  dd == Doubled(s)  kk == Halved(t)
<1>1. /\ dd \in Seq(Seq(Letters)) /\ Len(dd) = Len(s) /\ Len(s) \in Nat
      /\ \A n \in 1 .. Len(s) : s[n] \in Letters
                                /\ dd[n] = IF s[n] = Quote THEN <<Quote, Quote>> ELSE <<s[n]>>
  BY DoubledType DEF Text
<1>2. t \in Text
  BY <1>1, FlattenType DEF Text
<1>3. t = FlattenSeq(dd)
  OBVIOUS
<1> HIDE DEF dd, t
<1>4. kk \in Seq(Seq(Letters)) /\ Len(kk) = Len(t) /\ Len(t) \in Nat
      /\ \A n \in 1 .. Len(t) : kk[n] = IF t[n] = Quote => First(t, n) THEN <<t[n]>> ELSE <<>>
  BY <1>2, KeptType DEF Text
<1> HIDE DEF kk
<1>5. PICK f \in [0 .. Len(dd) -> Seq(Letters)] :
             /\ f[0] = <<>> /\ t = f[Len(dd)]
             /\ \A k \in 1 .. Len(dd) : f[k] = f[k - 1] \o dd[k]
  BY <1>1, <1>3, FlattenIs
<1>6. PICK g \in [0 .. Len(kk) -> Seq(Letters)] :
             /\ g[0] = <<>> /\ FlattenSeq(kk) = g[Len(kk)]
             /\ \A k \in 1 .. Len(kk) : g[k] = g[k - 1] \o kk[k]
  BY <1>4, FlattenIs
<1>7. \A k \in 0 .. Len(dd) :
        /\ Len(f[k]) \in Nat /\ Len(f[k]) <= Len(t)
        /\ \A n \in 1 .. Len(f[k]) : f[k][n] = t[n]
  <2>1. \A k \in 0 .. Len(dd) :
          /\ Len(f[k]) \in Nat /\ Len(f[k]) <= Len(f[Len(dd)])
          /\ \A n \in 1 .. Len(f[k]) : f[k][n] = f[Len(dd)][n]
    <3>1. \A k \in 1 .. Len(dd) : f[k] = f[k - 1] \o dd[k]
      BY <1>5
    <3>2. dd \in Seq(Seq(Letters)) /\ f \in [0 .. Len(dd) -> Seq(Letters)]
      BY <1>1, <1>5
    <3> QED BY <3>1, <3>2, FlattenBegins
  <2>2. f[Len(dd)] = t
    BY <1>5
  <2> QED BY <2>1, <2>2
<1> DEFINE Back(k) == g[Len(f[k])] = SubSeq(s, 1, k) /\ ~First(t, Len(f[k]))
<1>8. Back(0)
  <2>1. Len(f[0]) = 0 /\ SubSeq(s, 1, 0) = <<>>
    BY <1>5
  <2> QED BY <1>6, <2>1 DEF First
<1>9. ASSUME NEW k \in 1 .. Len(s), Back(k - 1) PROVE Back(k)
  <2> DEFINE m == Len(f[k - 1])  c == s[k]  u == SubSeq(s, 1, k - 1)
  <2>1. /\ k - 1 \in 0 .. Len(dd) /\ k \in 0 .. Len(dd) /\ k \in 1 .. Len(dd)
        /\ f[k - 1] \in Text /\ dd[k] \in Text /\ c \in Letters
    <3>1. k - 1 \in 0 .. Len(dd) /\ k \in 0 .. Len(dd) /\ k \in 1 .. Len(dd)
      BY <1>1
    <3>2. c \in Letters /\ dd[k] = IF c = Quote THEN <<Quote, Quote>> ELSE <<c>>
      BY <1>1, Zenon
    <3>3. f[k - 1] \in Text
      BY <3>1, <1>5 DEF Text
    <3>4. dd[k] \in Text
      BY <3>2, CharTexts
    <3> QED BY <3>1, <3>3, <3>4, <3>2
  <2>2. m \in Nat /\ Len(f[k]) \in Nat /\ Len(f[k]) <= Len(t)
        /\ \A n \in 1 .. Len(f[k]) : f[k][n] = t[n]
    BY <1>7, <2>1
  <2>3. f[k] = f[k - 1] \o dd[k]
    BY <1>5, <2>1
  <2>4. /\ Len(f[k]) = m + Len(dd[k])
        /\ \A n \in m + 1 .. m + Len(dd[k]) : t[n] = dd[k][n - m]
    <3>1. /\ Len(f[k]) = m + Len(dd[k]) /\ Len(dd[k]) \in Nat
          /\ \A n \in m + 1 .. m + Len(dd[k]) : f[k][n] = dd[k][n - m]
      <4> DEFINE v == f[k - 1]  w == dd[k]
      <4>1. v \in Text /\ w \in Text /\ f[k] = v \o w
        BY <2>1, <2>3
      <4> HIDE DEF v, w
      <4>2. /\ Len(f[k]) = Len(v) + Len(w) /\ Len(w) \in Nat
            /\ \A n \in Len(v) + 1 .. Len(v) + Len(w) : f[k][n] = w[n - Len(v)]
        BY <4>1, JoinTexts
      <4> QED BY <4>2 DEF v, w
    <3> HIDE DEF m
    <3>2. \A n \in m + 1 .. m + Len(dd[k]) : n \in 1 .. Len(f[k])
      BY <2>2, <3>1
    <3> QED BY <2>2, <3>1, <3>2
  <2>5. g[m] = u /\ ~First(t, m) /\ SubSeq(s, 1, k) = u \o <<c>> /\ u \in Text
    <3>1. SubSeq(s, 1, k) = u \o <<c>> /\ u \in Text
      <4>1. s \in Seq(Letters) /\ k \in 1 .. Len(s)
        BY DEF Text
      <4>2. /\ SubSeq(s, 1, k) \in Seq(Letters) /\ Len(SubSeq(s, 1, k)) = k
            /\ u \in Seq(Letters) /\ Len(u) = k - 1
            /\ \A n \in 1 .. k : SubSeq(s, 1, k)[n] = s[n]
            /\ \A n \in 1 .. k - 1 : u[n] = s[n]
        BY <4>1
      <4> HIDE DEF u
      <4>3. /\ u \o <<c>> \in Seq(Letters) /\ Len(u \o <<c>>) = k
            /\ \A n \in 1 .. k - 1 : (u \o <<c>>)[n] = u[n]
            /\ (u \o <<c>>)[k] = c
        BY <2>1, <4>2
      <4>4. \A n \in 1 .. k : n = k \/ n \in 1 .. k - 1
        OBVIOUS
      <4>5. SubSeq(s, 1, k) = u \o <<c>>
        BY <4>2, <4>3, <4>4, SameSequence
      <4> QED BY <4>2, <4>5 DEF Text
    <3> QED BY <1>9, <3>1
  <2> HIDE DEF m, c, u
  <2>6. ASSUME NEW n \in 1 .. Len(t)
        PROVE  /\ g[n] = g[n - 1] \o (IF t[n] = Quote => First(t, n) THEN <<t[n]>> ELSE <<>>)
               /\ First(t, n) <=> t[n] = Quote /\ ~First(t, n - 1)
    BY <1>2, <1>4, <1>6, FirstIs
  <2>7. CASE c = Quote
    <3>1. dd[k] = <<Quote, Quote>>
      BY <1>1, <2>7 DEF c
    <3>2. Len(f[k]) = m + 2 /\ t[m + 1] = Quote /\ t[m + 2] = Quote
      <4>1. Len(dd[k]) = 2 /\ dd[k][1] = Quote /\ dd[k][2] = Quote
        BY <3>1
      <4>2. m + 1 \in m + 1 .. m + Len(dd[k]) /\ m + 2 \in m + 1 .. m + Len(dd[k])
            /\ (m + 1) - m = 1 /\ (m + 2) - m = 2
        BY <2>2, <4>1
      <4> QED BY <2>4, <4>1, <4>2
    <3>3. m + 1 \in 1 .. Len(t) /\ m + 2 \in 1 .. Len(t) /\ (m + 1) - 1 = m /\ (m + 2) - 1 = m + 1
      BY <1>4, <2>2, <3>2
    <3>4. First(t, m + 1) /\ g[m + 1] = u \o <<Quote>>
      BY <2>5, <2>6, <3>2, <3>3
    <3>5. ~First(t, m + 2) /\ g[m + 2] = (u \o <<Quote>>) \o <<>>
      BY <2>6, <3>2, <3>3, <3>4
    <3>6. (u \o <<Quote>>) \o <<>> = u \o <<Quote>>
      BY <2>5, CharTexts DEF Text
    <3> QED BY <2>5, <2>7, <3>2, <3>5, <3>6
  <2>8. CASE c # Quote
    <3>1. dd[k] = <<c>>
      BY <1>1, <2>8 DEF c
    <3>2. Len(f[k]) = m + 1 /\ t[m + 1] = c
      <4>1. Len(dd[k]) = 1 /\ dd[k][1] = c
        BY <3>1
      <4>2. m + 1 \in m + 1 .. m + Len(dd[k]) /\ (m + 1) - m = 1
        BY <2>2, <4>1
      <4> QED BY <2>4, <4>1, <4>2
    <3>3. m + 1 \in 1 .. Len(t) /\ (m + 1) - 1 = m
      BY <1>4, <2>2, <3>2
    <3>4. ~First(t, m + 1) /\ g[m + 1] = u \o <<c>>
      BY <2>5, <2>6, <2>8, <3>2, <3>3
    <3> QED BY <2>5, <3>2, <3>4
  <2> QED BY <2>7, <2>8
<1> DEFINE Off == {k \in 0 .. Len(s) : ~Back(k)}
<1>10. ASSUME Off # {} PROVE FALSE
  <2> HIDE DEF Back
  <2>1. Off \in SUBSET Nat
    BY <1>1
  <2>2. PICK k \in Off : \A n \in Off : k <= n
    BY <1>10, <2>1, SmallestExists
  <2>3. k # 0 /\ k \in 0 .. Len(s) /\ ~Back(k)
    BY <1>8, <2>2
  <2>4. k - 1 \in 0 .. Len(s) /\ k \in 1 .. Len(s) /\ ~(k <= k - 1)
    BY <1>1, <2>3
  <2>5. k - 1 \notin Off
    BY <2>2, <2>4
  <2> QED BY <1>9, <2>3, <2>4, <2>5
<1>11. Len(s) \in 0 .. Len(s)
  BY <1>1
<1>12. g[Len(t)] = SubSeq(s, 1, Len(s))
  BY <1>1, <1>5, <1>10, <1>11
<1>13. SubSeq(s, 1, Len(s)) = s
  BY DEF Text
<1> QED BY <1>4, <1>6, <1>12, <1>13 DEF kk, t

(* The text that is read from a column is the one that was written.        *)
LEMMA TextComesBack ==
  ASSUME escape \in BOOLEAN, NEW f \in Field, WellWritten(f)
  PROVE  Unescape(Trim(Written(f))) = f.text
<1>1. Trim(Written(f)) = Core(f) /\ f.text \in Text
  BY CoreComesBack DEF Field
<1>2. CASE f.quoted
  <2> DEFINE t == FlattenSeq(Doubled(f.text))  q == <<Quote>>  v == q \o t  s == v \o q
  <2>1. escape /\ t \in Text
    BY <1>1, <1>2, DoubledBetween DEF WellWritten
  <2>2. Core(f) = s /\ q \in Text /\ Len(q) = 1 /\ q[1] = Quote /\ FlattenSeq(Halved(t)) = f.text
    BY <1>1, <1>2, CharTexts, DoubledComeBack DEF Core
  <2> HIDE DEF t, q
  <2>3. /\ v \in Text /\ Len(v) = 1 + Len(t) /\ Len(t) \in Nat /\ v[1] = Quote
        /\ \A n \in 1 .. Len(t) : v[n + 1] = t[n]
    <3>1. /\ v \in Text /\ Len(v) = Len(q) + Len(t) /\ Len(t) \in Nat
          /\ \A n \in 1 .. Len(q) : v[n] = q[n]
          /\ \A n \in Len(q) + 1 .. Len(q) + Len(t) : v[n] = t[n - Len(q)]
      BY <2>1, <2>2, JoinTexts
    <3> HIDE DEF v
    <3>2. ASSUME NEW n \in 1 .. Len(t) PROVE v[n + 1] = t[n]
      <4>1. n + 1 \in Len(q) + 1 .. Len(q) + Len(t) /\ (n + 1) - Len(q) = n
        BY <2>2, <3>1
      <4> QED BY <3>1, <4>1
    <3> QED BY <3>1, <3>2, <2>2
  <2> HIDE DEF v
  <2>4. /\ s \in Text /\ Len(s) = Len(t) + 2 /\ s[1] = Quote /\ s[Len(s)] = Quote
        /\ \A n \in 1 .. Len(t) : s[n + 1] = t[n]
    <3>1. /\ s \in Text /\ Len(s) = Len(v) + Len(q)
          /\ \A n \in 1 .. Len(v) : s[n] = v[n]
          /\ \A n \in Len(v) + 1 .. Len(v) + Len(q) : s[n] = q[n - Len(v)]
      BY <2>2, <2>3, JoinTexts
    <3> HIDE DEF s
    <3>2. Len(s) \in Len(v) + 1 .. Len(v) + Len(q) /\ Len(s) - Len(v) = 1 /\ 1 \in 1 .. Len(v)
          /\ \A n \in 1 .. Len(t) : n + 1 \in 1 .. Len(v)
      BY <2>2, <2>3, <3>1
    <3> QED BY <2>2, <2>3, <3>1, <3>2
  <2> HIDE DEF s
  <2>5. SubSeq(s, 2, Len(s) - 1) = t
    <3> DEFINE u == SubSeq(s, 2, Len(s) - 1)
    <3>1. u \in Seq(Letters) /\ Len(u) = Len(t) /\ \A n \in 1 .. Len(t) : u[n] = s[n + 1]
      BY <2>3, <2>4 DEF Text
    <3> HIDE DEF u
    <3>2. u = t
      BY <2>1, <2>4, <3>1, SameSequence DEF Text
    <3> QED BY <3>2 DEF u
  <2>6. Unescape(s) = FlattenSeq(Halved(SubSeq(s, 2, Len(s) - 1)))
    <3>1. Len(s) >= 2
      BY <2>3, <2>4
    <3> QED BY <2>1, <2>4, <3>1, UnescapeIs
  <2> QED BY <1>1, <2>2, <2>5, <2>6
<1>3. CASE ~f.quoted
  <2>1. ~(escape /\ Len(f.text) >= 2 /\ f.text[1] = Quote)
    <3>1. Len(f.text) >= 2 => 1 \in DOMAIN f.text
      BY <1>1 DEF Text
    <3> QED BY <1>3, <3>1 DEF WellWritten, ToSet
  <2>2. Unescape(f.text) = f.text
    BY <2>1 DEF Unescape
  <2> QED BY <1>1, <1>3, <2>2 DEF Core
<1> QED BY <1>2, <1>3

LEMMA TailIs ==
  ASSUME NEW T, NEW s \in Seq(T), s # <<>>
  PROVE  /\ Tail(s) \in Seq(T) /\ Len(s) \in Nat \ {0} /\ Len(Tail(s)) = Len(s) - 1
         /\ \A n \in 1 .. Len(s) - 1 : Tail(s)[n] = s[n + 1]
         /\ (Tail(s) = <<>>) <=> (Len(s) = 1)
<1>1. Len(s) # 0 /\ Len(s) \in Nat
  OBVIOUS
<1>2. Tail(s) \in Seq(T) /\ Len(Tail(s)) = Len(s) - 1
  BY <1>1
<1>3. (Tail(s) = <<>>) <=> (Len(Tail(s)) = 0)
  BY <1>2
<1>4. \A n \in 1 .. Len(s) - 1 : Tail(s)[n] = s[n + 1]
  BY <1>1
<1> QED BY <1>1, <1>2, <1>3, <1>4

(* What is put together is its head and then the rest put together.        *)
LEMMA FlattenHead ==
  ASSUME NEW T, NEW ss \in Seq(Seq(T)), ss # <<>>
  PROVE  FlattenSeq(ss) = ss[1] \o FlattenSeq(Tail(ss))
<1> DEFINE tt == Tail(ss)  m == Len(tt)
<1>1. /\ tt \in Seq(Seq(T)) /\ m \in Nat /\ Len(ss) = m + 1 /\ ss[1] \in Seq(T)
      /\ \A k \in 1 .. m : tt[k] = ss[k + 1] /\ tt[k] \in Seq(T)
  OBVIOUS
<1> HIDE DEF tt
<1>2. PICK f \in [0 .. Len(ss) -> Seq(T)] :
             /\ f[0] = <<>> /\ FlattenSeq(ss) = f[Len(ss)]
             /\ \A k \in 1 .. Len(ss) : f[k] = f[k - 1] \o ss[k]
  BY FlattenIs
<1>3. PICK g \in [0 .. m -> Seq(T)] :
             /\ g[0] = <<>> /\ FlattenSeq(tt) = g[m]
             /\ \A k \in 1 .. m : g[k] = g[k - 1] \o tt[k]
  BY <1>1, FlattenIs
<1> HIDE DEF m
<1> DEFINE Same(k) == f[k + 1] = ss[1] \o g[k]
           Off == {k \in 0 .. m : ~Same(k)}
<1>4. Same(0)
  <2>1. 1 \in 1 .. Len(ss) /\ 1 - 1 = 0 /\ 0 + 1 = 1
    BY <1>1
  <2>2. f[1] = <<>> \o ss[1]
    BY <1>2, <2>1
  <2>3. <<>> \o ss[1] = ss[1] /\ ss[1] \o <<>> = ss[1]
    BY <1>1
  <2> QED BY <1>3, <2>1, <2>2, <2>3
<1>5. ASSUME NEW k \in 1 .. m, Same(k - 1) PROVE Same(k)
  <2>1. k + 1 \in 1 .. Len(ss) /\ (k + 1) - 1 = k /\ (k - 1) + 1 = k /\ k - 1 \in 0 .. m
    BY <1>1
  <2>2. f[k + 1] = f[k] \o tt[k] /\ f[k] = ss[1] \o g[k - 1]
    BY <1>1, <1>2, <1>5, <2>1
  <2>3. g[k] = g[k - 1] \o tt[k] /\ g[k - 1] \in Seq(T) /\ tt[k] \in Seq(T)
    BY <1>1, <1>3, <2>1
  <2>4. (ss[1] \o g[k - 1]) \o tt[k] = ss[1] \o (g[k - 1] \o tt[k])
    <3> DEFINE p == ss[1]  q == g[k - 1]  t == tt[k]
    <3>1. p \in Seq(T) /\ q \in Seq(T) /\ t \in Seq(T)
      BY <1>1, <2>3
    <3> HIDE DEF p, q, t
    <3>2. (p \o q) \o t = p \o (q \o t)
      BY <3>1
    <3> QED BY <3>2 DEF p, q, t
  <2> QED BY <2>2, <2>3, <2>4
<1>6. ASSUME Off # {} PROVE FALSE
  <2> HIDE DEF Same
  <2>1. Off \in SUBSET Nat
    BY <1>1
  <2>2. PICK k \in Off : \A n \in Off : k <= n
    BY <1>6, <2>1, SmallestExists
  <2>3. k # 0 /\ k \in 0 .. m /\ ~Same(k)
    BY <1>4, <2>2
  <2>4. k - 1 \in 0 .. m /\ k \in 1 .. m /\ ~(k <= k - 1)
    BY <1>1, <2>3
  <2>5. k - 1 \notin Off
    BY <2>2, <2>4
  <2> QED BY <1>5, <2>3, <2>4, <2>5
<1>7. m \in 0 .. m
  BY <1>1
<1>8. f[m + 1] = ss[1] \o g[m]
  BY <1>6, <1>7
<1> QED BY <1>1, <1>2, <1>3, <1>8 DEF tt

(* A line is its first field and, behind a separator, the line of the rest. *)
Behind(fs) == IF Len(fs) = 1 THEN <<>> ELSE <<Sep>> \o WrittenLine(Tail(fs))

WrittenAt(fs, n) == IF n = 1 THEN Written(fs[n]) ELSE <<Sep>> \o Written(fs[n])
WrittenParts(fs) == [n \in DOMAIN fs |-> WrittenAt(fs, n)]

LEMMA WrittenPartsAre ==
  ASSUME NEW fs \in Seq(Field)
  PROVE  /\ WrittenParts(fs) \in Seq(Seq(Letters)) /\ Len(WrittenParts(fs)) = Len(fs)
         /\ \A n \in 1 .. Len(fs) :
              /\ WrittenParts(fs)[n] = WrittenAt(fs, n)
              /\ Written(fs[n]) \in Seq(Letters)
         /\ WrittenLine(fs) = FlattenSeq(WrittenParts(fs))
         /\ Len(fs) \in Nat
<1>1. Len(fs) \in Nat /\ DOMAIN fs = 1 .. Len(fs)
  OBVIOUS
<1>2. ASSUME NEW n \in 1 .. Len(fs) PROVE WrittenAt(fs, n) \in Text /\ Written(fs[n]) \in Text
  <2>1. Written(fs[n]) \in Text
    BY WrittenType
  <2>2. <<Sep>> \in Text
    BY CharTexts
  <2> QED BY <2>1, <2>2, JoinTexts DEF WrittenAt
<1>3. WrittenParts(fs) \in [1 .. Len(fs) -> Text]
  BY <1>1, <1>2 DEF WrittenParts
<1>4. WrittenParts(fs) \in Seq(Text) /\ Len(WrittenParts(fs)) = Len(fs)
  BY <1>1, <1>3
<1>5. ASSUME NEW n \in 1 .. Len(fs) PROVE WrittenParts(fs)[n] = WrittenAt(fs, n)
  BY <1>1 DEF WrittenParts
<1>6. WrittenLine(fs) = FlattenSeq(WrittenParts(fs))
  BY DEF WrittenLine, WrittenParts, WrittenAt
<1> QED BY <1>1, <1>2, <1>4, <1>5, <1>6 DEF Text

LEMMA LineSplits ==
  ASSUME NEW fs \in Seq(Field), fs # <<>>
  PROVE  WrittenLine(fs) = Written(fs[1]) \o Behind(fs)
<1> DEFINE pp == WrittenParts(fs)  tt == Tail(pp)  m == Len(fs)
<1>1. /\ pp \in Seq(Seq(Letters)) /\ Len(pp) = m /\ WrittenLine(fs) = FlattenSeq(pp)
      /\ \A n \in 1 .. m : pp[n] = WrittenAt(fs, n)
  BY WrittenPartsAre
<1>2. m \in Nat \ {0} /\ pp # <<>>
  <2>1. m \in Nat \ {0}
    OBVIOUS
  <2> HIDE DEF pp
  <2> QED BY <1>1, <2>1
<1>3. pp[1] = Written(fs[1])
  <2>1. 1 \in 1 .. m
    BY <1>2
  <2> QED BY <1>1, <2>1 DEF WrittenAt
<1> HIDE DEF pp
<1>4. /\ tt \in Seq(Seq(Letters)) /\ Len(tt) = m - 1 /\ ((tt = <<>>) <=> (m = 1))
      /\ \A n \in 1 .. m - 1 : tt[n] = pp[n + 1]
  BY <1>1, <1>2, TailIs
<1>5. WrittenLine(fs) = Written(fs[1]) \o FlattenSeq(tt)
  BY <1>1, <1>2, <1>3, FlattenHead
<1> HIDE DEF tt
<1> HIDE DEF m
<1>6. CASE m = 1
  <2>1. FlattenSeq(<<>>) = <<>>
    BY DEF FlattenSeq
  <2> QED BY <1>4, <1>5, <1>6, <2>1 DEF Behind, m
<1>7. CASE m # 1
  <2> DEFINE gs == Tail(fs)  hh == WrittenParts(gs)
  <2>1. gs \in Seq(Field) /\ gs # <<>> /\ Len(gs) = m - 1 /\ \A n \in 1 .. m - 1 : gs[n] = fs[n + 1]
    BY <1>7, TailIs DEF m
  <2> HIDE DEF gs
  <2>2. /\ hh \in Seq(Seq(Letters)) /\ Len(hh) = m - 1 /\ WrittenLine(gs) = FlattenSeq(hh)
        /\ \A n \in 1 .. m - 1 : hh[n] = WrittenAt(gs, n) /\ Written(gs[n]) \in Seq(Letters)
    BY <2>1, WrittenPartsAre
  <2> HIDE DEF hh
  <2>3. 1 \in 1 .. m - 1 /\ 1 + 1 = 2 /\ 2 \in 1 .. m
    BY <1>2, <1>7
  <2>4. hh # <<>> /\ tt # <<>> /\ hh[1] = Written(gs[1]) /\ Written(gs[1]) \in Seq(Letters)
    <3>1. Len(hh) # 0
      BY <2>2, <2>3
    <3> QED BY <1>4, <1>7, <2>2, <2>3, <3>1 DEF WrittenAt
  <2>5. tt[1] = <<Sep>> \o Written(gs[1])
    <3>1. tt[1] = WrittenAt(fs, 2) /\ gs[1] = fs[2]
      BY <1>1, <1>4, <2>1, <2>3
    <3> QED BY <3>1 DEF WrittenAt
  <2>6. Tail(tt) = Tail(hh)
    <3> DEFINE u == Tail(tt)  v == Tail(hh)
    <3>1. /\ u \in Seq(Seq(Letters)) /\ Len(u) = m - 2 /\ \A n \in 1 .. Len(tt) - 1 : u[n] = tt[n + 1]
      BY <1>2, <1>4, <2>4, TailIs
    <3>2. /\ v \in Seq(Seq(Letters)) /\ Len(v) = m - 2 /\ \A n \in 1 .. Len(hh) - 1 : v[n] = hh[n + 1]
      BY <1>2, <2>2, <2>4, TailIs
    <3> HIDE DEF u, v
    <3>3. ASSUME NEW n \in 1 .. Len(u) PROVE u[n] = v[n]
      <4>1. n \in 1 .. Len(tt) - 1 /\ n \in 1 .. Len(hh) - 1 /\ n + 1 \in 1 .. m - 1
            /\ n + 2 \in 1 .. m /\ (n + 1) + 1 = n + 2 /\ n + 1 # 1 /\ n + 2 # 1
        <5>1. n \in 1 .. m - 2
          BY <1>2, <3>1
        <5>2. Len(tt) = m - 1 /\ Len(hh) = m - 1 /\ m \in Nat
          BY <1>2, <1>4, <2>2
        <5>3. n + 1 \in 1 .. m - 1 /\ n + 2 \in 1 .. m /\ (n + 1) + 1 = n + 2 /\ n + 1 # 1 /\ n + 2 # 1
          BY <5>1, <5>2
        <5>4. n \in 1 .. (m - 1) - 1
          BY <5>1, <5>2
        <5> QED BY <5>2, <5>3, <5>4
      <4>2. tt[n + 1] = pp[n + 2] /\ gs[n + 1] = fs[n + 2]
        BY <1>4, <2>1, <4>1
      <4>3. pp[n + 2] = WrittenAt(fs, n + 2) /\ hh[n + 1] = WrittenAt(gs, n + 1)
        BY <1>1, <2>2, <4>1
      <4>4. WrittenAt(fs, n + 2) = <<Sep>> \o Written(fs[n + 2])
            /\ WrittenAt(gs, n + 1) = <<Sep>> \o Written(gs[n + 1])
        BY <4>1 DEF WrittenAt
      <4> QED BY <3>1, <3>2, <4>1, <4>2, <4>3, <4>4
    <3>4. u = v
      BY <3>1, <3>2, <3>3, SameSequence
    <3> QED BY <3>4 DEF u, v
  <2> DEFINE q == <<Sep>>  w == Written(gs[1])  rest == FlattenSeq(Tail(hh))
  <2>7. q \in Seq(Letters) /\ w \in Seq(Letters) /\ rest \in Seq(Letters)
    <3>1. Tail(hh) \in Seq(Seq(Letters))
      BY <2>2, <2>4, TailIs
    <3>2. q \in Text
      BY CharTexts
    <3> QED BY <2>4, <3>1, <3>2, FlattenType DEF Text
  <2>8. FlattenSeq(tt) = (q \o w) \o rest
    BY <1>4, <2>4, <2>5, <2>6, FlattenHead
  <2>9. WrittenLine(gs) = w \o rest
    BY <2>2, <2>4, FlattenHead
  <2> HIDE DEF w, rest
  <2>10. (q \o w) \o rest = q \o (w \o rest)
    <3> HIDE DEF q
    <3> QED BY <2>7, ConcatAssociative
  <2> QED BY <1>5, <1>7, <2>8, <2>9, <2>10 DEF Behind, gs, m
<1> QED BY <1>6, <1>7

-----------------------------------------------------------------------------
(* The columns that were cut, what is left of the line, and the count      *)

AllWritten == \A n \in DOMAIN fields : WellWritten(fields[n])
RowRead ==
  \A n \in DOMAIN col_order : n < i /\ col_order[n] # -1 => row[col_order[n]] = fields[n].text
LineLeft ==
  line = IF i > Len(fields) THEN Null ELSE WrittenLine(Rest(fields, i - 1))
Counted ==
  /\ (error = "too_few_columns")  <=> (Len(fields) < Len(col_order))
  /\ (error = "too_many_columns") <=> (Len(fields) > Len(col_order))
  /\ error # "escaped_string_not_closed"

ColumnsOK ==
  AllWritten =>
    /\ RowRead /\ i <= Len(col_order) + 1 /\ i <= Len(fields) + 1
    /\ pc = "cut" => LineLeft
    /\ pc # "cut" => Counted

LEMMA ColumnsInit ==
  ASSUME Init, Inv
  PROVE  ColumnsOK
<1>1. fields \in Seq(Field) /\ fields # <<>> /\ col_order \in Seq(DOMAIN types \cup {-1})
  BY DEF Inv, StateOK, TypesOK, InputsOK
<1>2. Len(fields) \in Nat \ {0} /\ Len(col_order) \in Nat /\ DOMAIN col_order = 1 .. Len(col_order)
  BY <1>1
<1>3. i = 1 /\ pc = "cut" /\ line = WrittenLine(fields)
  BY DEF Init
<1>4. Rest(fields, 0) = fields
  BY <1>1, <1>2, RestIs
<1>5. LineLeft
  BY <1>2, <1>3, <1>4 DEF LineLeft
<1>6. RowRead
  BY <1>2, <1>3 DEF RowRead
<1> QED BY <1>2, <1>3, <1>5, <1>6 DEF ColumnsOK

(* While a line is cut, what is left of it is empty or begins with the     *)
(* next field.                                                             *)
LEMMA LineIs ==
  ASSUME Inv, ColumnsOK, AllWritten, pc = "cut"
  PROVE  /\ (line = Null) <=> (i > Len(fields))
         /\ line # Null =>
              /\ i \in DOMAIN fields /\ line \in Text
              /\ NextColumnEnd(line) = Len(Written(fields[i])) + 1
              /\ ~Inside(line, NextColumnEnd(line))
              /\ Unescape(Trim(SubSeq(line, 1, NextColumnEnd(line) - 1))) = fields[i].text
              /\ (NextColumnEnd(line) > Len(line)) <=> (i = Len(fields))
              /\ i # Len(fields) => SubSeq(line, NextColumnEnd(line) + 1, Len(line))
                                        = WrittenLine(Rest(fields, i))
<1>1. /\ fields \in Seq(Field) /\ escape \in BOOLEAN /\ i \in Nat \ {0}
      /\ Len(fields) \in Nat /\ DOMAIN fields = 1 .. Len(fields)
  BY DEF Inv, StateOK, TypesOK, InputsOK
<1>2. line = IF i > Len(fields) THEN Null ELSE WrittenLine(Rest(fields, i - 1))
  BY DEF ColumnsOK, LineLeft
<1>3. CASE i > Len(fields)
  BY <1>1, <1>2, <1>3
<1>4. CASE i <= Len(fields)
  <2> DEFINE fs == Rest(fields, i - 1)
  <2>1. i \in DOMAIN fields /\ i - 1 \in 0 .. Len(fields) /\ i - 1 < Len(fields) /\ (i - 1) + 1 = i
    BY <1>1, <1>4
  <2>2. /\ fs \in Seq(Field) /\ Len(fs) = Len(fields) - (i - 1) /\ fs # <<>>
        /\ Head(fs) = fields[i] /\ Tail(fs) = Rest(fields, i)
    <3> DEFINE k == i - 1
    <3>1. k \in 0 .. Len(fields) /\ k < Len(fields) /\ k + 1 = i /\ k # Len(fields)
      BY <1>1, <2>1
    <3> HIDE DEF k
    <3>2. /\ Rest(fields, k) \in Seq(Field) /\ Len(Rest(fields, k)) = Len(fields) - k /\ Rest(fields, k) # <<>>
          /\ Head(Rest(fields, k)) = fields[k + 1] /\ Tail(Rest(fields, k)) = Rest(fields, k + 1)
      <4>1. fields \in Seq(Field)
        BY <1>1
      <4>2. /\ Rest(fields, k) \in Seq(Field) /\ Len(Rest(fields, k)) = Len(fields) - k
            /\ (Rest(fields, k) = <<>>) <=> (k = Len(fields))
            /\ k < Len(fields) => /\ Head(Rest(fields, k)) = fields[k + 1]
                                  /\ Tail(Rest(fields, k)) = Rest(fields, k + 1)
        BY <3>1, <4>1, RestIs
      <4> QED BY <3>1, <4>2
    <3>3. fs = Rest(fields, k)
      BY DEF k
    <3> HIDE DEF fs
    <3> QED BY <3>1, <3>2, <3>3 DEF k
  <2> HIDE DEF fs
  <2>3. fs[1] = fields[i] /\ ((Len(fs) = 1) <=> (i = Len(fields)))
    <3>1. Head(fs) = fs[1]
      BY <2>2
    <3>2. (Len(fs) = 1) <=> (i = Len(fields))
      <4>1. Len(fields) \in Nat /\ i \in Nat /\ Len(fs) = Len(fields) - (i - 1)
        BY <1>1, <2>2
      <4> HIDE DEF fs
      <4> QED BY <4>1
    <3> QED BY <2>2, <3>1, <3>2
  <2> DEFINE s == Written(fields[i])  t == Behind(fs)
  <2>4. line = s \o t
    <3>1. line = WrittenLine(fs)
      BY <1>1, <1>2, <1>4 DEF fs
    <3>2. WrittenLine(fs) = Written(fs[1]) \o Behind(fs)
      BY <2>2, LineSplits
    <3> QED BY <2>3, <3>1, <3>2
  <2>5. s \in Text /\ OneColumn(s) /\ Unescape(Trim(s)) = fields[i].text
    <3>1. fields[i] \in Field /\ WellWritten(fields[i])
      BY <1>1, <2>1 DEF AllWritten
    <3> QED BY <1>1, <3>1, WrittenColumn, TextComesBack
  <2>6. t \in Text /\ (t # <<>> => t[1] = Sep) /\ ((t = <<>>) <=> (i = Len(fields)))
        /\ (t # <<>> => Tail(t) = WrittenLine(Rest(fields, i)))
    <3>1. CASE Len(fs) = 1
      <4>1. t = <<>>
        BY <3>1 DEF Behind
      <4> HIDE DEF t
      <4> QED BY <2>3, <3>1, <4>1, CharTexts
    <3>2. CASE Len(fs) # 1
      <4> DEFINE u == WrittenLine(Tail(fs))  q == <<Sep>>
      <4>1. u \in Text
        BY <2>2, TailIs, WrittenLineType
      <4>2. t = q \o u
        BY <3>2 DEF Behind
      <4>3. u = WrittenLine(Rest(fields, i))
        BY <2>2
      <4>4. q \in Text /\ Len(q) = 1 /\ q[1] = Sep
        BY CharTexts
      <4> HIDE DEF t, u, q
      <4>5. /\ t \in Text /\ Len(t) = Len(q) + Len(u) /\ Len(u) \in Nat
            /\ \A n \in 1 .. Len(q) : t[n] = q[n]
            /\ \A n \in Len(q) + 1 .. Len(q) + Len(u) : t[n] = u[n - Len(q)]
        BY <4>1, <4>2, <4>4, JoinTexts
      <4>6. Len(t) = 1 + Len(u) /\ t[1] = Sep /\ t # <<>> /\ t \in Seq(Letters) /\ u \in Seq(Letters)
        BY <4>1, <4>4, <4>5 DEF Text
      <4>7. Tail(t) = u
        <5> DEFINE v == Tail(t)
        <5>1. v \in Seq(Letters) /\ Len(v) = Len(t) - 1 /\ \A n \in 1 .. Len(t) - 1 : v[n] = t[n + 1]
          BY <4>6, TailIs
        <5> HIDE DEF v
        <5>2. ASSUME NEW n \in 1 .. Len(v) PROVE v[n] = u[n]
          <6>1. n \in 1 .. Len(t) - 1 /\ n + 1 \in Len(q) + 1 .. Len(q) + Len(u) /\ (n + 1) - Len(q) = n
            BY <4>4, <4>5, <4>6, <5>1
          <6> QED BY <6>1, <4>5, <5>1
        <5>3. Len(v) = Len(u)
          BY <4>5, <4>6, <5>1
        <5>4. v = u
          BY <4>6, <5>1, <5>2, <5>3, SameSequence
        <5> QED BY <5>4 DEF v
      <4> QED BY <2>3, <3>2, <4>3, <4>5, <4>6, <4>7
    <3> QED BY <3>1, <3>2
  <2> HIDE DEF s, t
  <2>7. /\ NextColumnEnd(line) = Len(s) + 1 /\ ~Inside(line, Len(s) + 1) /\ SubSeq(line, 1, Len(s)) = s
        /\ line \in Text /\ (Len(s) + 1 > Len(line) <=> t = <<>>)
        /\ t # <<>> => SubSeq(line, Len(s) + 2, Len(line)) = Tail(t)
    BY <2>4, <2>5, <2>6, ColumnIsCut
  <2>8. Len(s) \in Nat /\ (Len(s) + 1) - 1 = Len(s) /\ (Len(s) + 1) + 1 = Len(s) + 2
    BY <2>5 DEF Text
  <2>9. line # Null
    BY <2>7, NullIsNoText
  <2>10. ~(i > Len(fields))
    BY <1>1, <1>4
  <2>11. NextColumnEnd(line) = Len(Written(fields[i])) + 1 /\ NextColumnEnd(line) = Len(s) + 1
    BY <2>7 DEF s
  <2>12. Unescape(Trim(SubSeq(line, 1, NextColumnEnd(line) - 1))) = fields[i].text
    BY <2>5, <2>7, <2>8, <2>11
  <2>13. (NextColumnEnd(line) > Len(line)) <=> (i = Len(fields))
    BY <2>6, <2>7, <2>11
  <2>14. i # Len(fields) =>
           SubSeq(line, NextColumnEnd(line) + 1, Len(line)) = WrittenLine(Rest(fields, i))
    BY <2>6, <2>7, <2>8, <2>11
  <2>15. (line = Null) <=> (i > Len(fields))
    BY <2>9, <2>10
  <2>16. ~Inside(line, NextColumnEnd(line))
    BY <2>7, <2>11
  <2> QED BY <2>1, <2>7, <2>11, <2>12, <2>13, <2>14, <2>15, <2>16, Zenon
<1>5. i > Len(fields) \/ i <= Len(fields)
  BY <1>1
<1> QED BY <1>3, <1>4, <1>5, Zenon

LEMMA ColumnsCut ==
  ASSUME Inv, ColumnsOK, CutColumn
  PROVE  ColumnsOK'
<1> SUFFICES ASSUME AllWritten' PROVE ColumnsOK'
  BY DEF ColumnsOK
<1>1. /\ UNCHANGED <<fields, escape, col_order, types>> /\ pc = "cut" /\ i <= Len(col_order)
      /\ error = "none"
  BY DEF CutColumn, inputs, Inv, StateOK, ControlOK
<1>2. AllWritten
  BY <1>1 DEF AllWritten, WellWritten
<1>3. /\ Len(fields) \in Nat /\ Len(col_order) \in Nat /\ i \in Nat \ {0}
      /\ DOMAIN col_order = 1 .. Len(col_order) /\ row \in [DOMAIN types -> Text \cup {Null}]
      /\ \A j, k \in DOMAIN col_order : col_order[j] = col_order[k] /\ col_order[j] # -1 => j = k
      /\ \A k \in DOMAIN col_order : col_order[k] # -1 => col_order[k] \in DOMAIN types
  <2>1. col_order \in Seq(DOMAIN types \cup {-1}) /\ fields \in Seq(Field)
    BY DEF Inv, StateOK, TypesOK, InputsOK
  <2> QED BY <2>1 DEF Inv, StateOK, TypesOK, InputsOK
<1>4. RowRead /\ i <= Len(fields) + 1
  BY <1>2 DEF ColumnsOK
<1>5. CASE line = Null
  <2>1. i > Len(fields)
    BY <1>1, <1>2, <1>5, LineIs
  <2>2. error' = "too_few_columns" /\ pc' = "thrown" /\ UNCHANGED <<i, row>>
    BY <1>5 DEF CutColumn, Throw, cut
  <2>3. Counted'
    BY <1>1, <1>3, <1>4, <2>1, <2>2 DEF Counted
  <2>4. RowRead'
    BY <1>1, <1>4, <2>2 DEF RowRead
  <2> QED BY <1>1, <1>3, <1>4, <2>2, <2>3, <2>4 DEF ColumnsOK
<1>6. CASE line # Null
  <2> DEFINE end == NextColumnEnd(line)  text == Unescape(Trim(SubSeq(line, 1, end - 1)))
  <2>1. /\ i \in DOMAIN fields /\ ~Inside(line, end) /\ text = fields[i].text /\ i <= Len(fields)
        /\ (end > Len(line)) <=> (i = Len(fields))
        /\ i # Len(fields) => SubSeq(line, end + 1, Len(line)) = WrittenLine(Rest(fields, i))
    <3>1. ~(i > Len(fields))
      BY <1>1, <1>2, <1>6, LineIs
    <3> QED BY <1>1, <1>2, <1>3, <1>6, <3>1, LineIs
  <2>2. /\ line' = IF end > Len(line) THEN Null ELSE SubSeq(line, end + 1, Len(line))
        /\ row' = IF col_order[i] = -1 THEN row ELSE [row EXCEPT ![col_order[i]] = text]
        /\ i' = i + 1 /\ UNCHANGED <<pc, error>>
    BY <1>6, <2>1 DEF CutColumn
  <2> HIDE DEF end, text
  <2>3. LineLeft'
    <3>1. (i + 1) - 1 = i /\ (i + 1 > Len(fields) <=> i = Len(fields))
      BY <1>3, <2>1
    <3>2. line' = IF i + 1 > Len(fields) THEN Null ELSE WrittenLine(Rest(fields, (i + 1) - 1))
      BY <2>1, <2>2, <3>1
    <3> QED BY <1>1, <2>2, <3>2 DEF LineLeft
  <2>4. RowRead'
    <3>1. ASSUME NEW n \in DOMAIN col_order, n < i + 1, col_order[n] # -1
          PROVE  row'[col_order[n]] = fields[n].text
      <4>1. col_order[n] \in DOMAIN row /\ i \in DOMAIN col_order /\ n \in Nat
        BY <1>1, <1>3, <3>1
      <4>2. CASE n = i
        BY <2>1, <2>2, <3>1, <4>1, <4>2
      <4>3. CASE n # i
        <5>1. n < i /\ col_order[n] # col_order[i]
          BY <1>3, <3>1, <4>1, <4>3
        <5>2. row[col_order[n]] = fields[n].text
          BY <1>4, <3>1, <5>1 DEF RowRead
        <5> QED BY <2>2, <4>1, <5>1, <5>2
      <4> QED BY <4>2, <4>3
    <3> QED BY <1>1, <2>2, <3>1 DEF RowRead
  <2> QED BY <1>1, <1>3, <2>1, <2>2, <2>3, <2>4 DEF ColumnsOK
<1> QED BY <1>5, <1>6

LEMMA ColumnsDone ==
  ASSUME Inv, ColumnsOK, CutDone
  PROVE  ColumnsOK'
<1> SUFFICES ASSUME AllWritten' PROVE ColumnsOK'
  BY DEF ColumnsOK
<1>1. /\ UNCHANGED <<fields, escape, col_order, types, i, row>> /\ pc = "cut" /\ i > Len(col_order)
      /\ error = "none"
  BY DEF CutDone, inputs, cut, Inv, StateOK, ControlOK
<1>2. AllWritten
  BY <1>1 DEF AllWritten, WellWritten
<1>3. Len(fields) \in Nat /\ Len(col_order) \in Nat /\ i \in Nat \ {0}
  BY DEF Inv, StateOK, TypesOK, InputsOK
<1>4. RowRead /\ i <= Len(fields) + 1 /\ i <= Len(col_order) + 1
  BY <1>2 DEF ColumnsOK
<1>5. RowRead'
  BY <1>1, <1>4 DEF RowRead
<1>6. (line = Null) <=> (i > Len(fields))
  BY <1>1, <1>2, LineIs
<1>7. Counted' /\ pc' # "cut"
  <2>1. CASE line = Null
    <3>1. Len(fields) = Len(col_order)
      BY <1>1, <1>3, <1>4, <1>6, <2>1
    <3>2. error' = "none" /\ pc' = "next"
      BY <1>1, <2>1 DEF CutDone
    <3> QED BY <1>1, <1>3, <3>1, <3>2 DEF Counted
  <2>2. CASE line # Null
    <3>1. Len(fields) > Len(col_order)
      BY <1>1, <1>3, <1>4, <1>6, <2>2
    <3>2. error' = "too_many_columns" /\ pc' = "thrown"
      BY <1>1, <2>2 DEF CutDone, Throw
    <3> QED BY <1>1, <1>3, <3>1, <3>2 DEF Counted
  <2> QED BY <2>1, <2>2
<1> QED BY <1>1, <1>4, <1>5, <1>7 DEF ColumnsOK

LEMMA ColumnsStay ==
  ASSUME Inv, ColumnsOK, Conversion
  PROVE  ColumnsOK'
<1> SUFFICES ASSUME AllWritten' PROVE ColumnsOK'
  BY DEF ColumnsOK
<1>1. UNCHANGED <<inputs, cut>> /\ pc \notin {"cut", "thrown"} /\ pc' # "cut"
      /\ error' \in {error} \cup ConversionErrors
  <2>1. CASE SkipColumn \/ TakeText \/ StartNumber \/ AssignInteger \/ EndPower \/ StartPower
    BY <2>1 DEF SkipColumn, TakeText, StartNumber, AssignInteger, EndPower, StartPower, Assign,
       Abandon,
       Throw, ConversionErrors
  <2>2. CASE Digit \/ FloatDigit \/ RaisePower
    BY <2>2 DEF Digit, FloatDigit, RaisePower
  <2>3. CASE Overflow \/ EndDigits
    <3>1. then \in {"assign", "power"}
      BY <2>3 DEF Overflow, EndDigits, Inv, StateOK, ControlOK
    <3> QED BY <2>3, <3>1 DEF Overflow, EndDigits, Abandon, Throw, ConversionErrors
  <2>4. CASE FloatMark
    BY <2>4 DEF FloatMark, Assign, Abandon, Throw, ConversionErrors
  <2> QED BY <2>1, <2>2, <2>3, <2>4 DEF Conversion
<1>2. UNCHANGED <<fields, escape, col_order, i, row>> /\ error = "none"
  BY <1>1 DEF inputs, cut, Inv, StateOK, ControlOK
<1>3. AllWritten
  BY <1>2 DEF AllWritten, WellWritten
<1>4. Counted'
  BY <1>1, <1>2, <1>3 DEF ColumnsOK, Counted, ConversionErrors
<1>5. RowRead'
  BY <1>2, <1>3 DEF ColumnsOK, RowRead
<1> QED BY <1>1, <1>2, <1>3, <1>4, <1>5 DEF ColumnsOK

(* What was written in a column is what is read from it, whatever its      *)
(* separators, quotes and blanks, under the name the header gave it, and   *)
(* a line is refused for its number of columns only.                       *)
THEOREM ColumnsCorrect == Spec => []ColumnsComeBack
<1>1. Init /\ Inv => ColumnsOK
  BY ColumnsInit
<1>2. Inv /\ ColumnsOK /\ [Next]_vars => ColumnsOK'
  <2> SUFFICES ASSUME Inv, ColumnsOK, [Next]_vars PROVE ColumnsOK'
    OBVIOUS
  <2>1. CASE UNCHANGED vars
    BY <2>1 DEF vars, inputs, cut, ColumnsOK, AllWritten, WellWritten, RowRead, LineLeft, Counted
  <2> QED BY <2>1, ColumnsCut, ColumnsDone, ColumnsStay DEF Next, Conversion
<1>3. ColumnsOK => ColumnsComeBack
  BY DEF ColumnsOK, ColumnsComeBack, AllWritten, RowRead, Counted
<1> QED BY <1>1, <1>2, <1>3, Invariance, PTL DEF Spec
=============================================================================
