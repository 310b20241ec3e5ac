---------------------------- MODULE MiniCsvProofs ----------------------------
(***************************************************************************)
(* What minicsv.h makes of any text and of any list of calls: lines come   *)
(* back as they are; the columns of what was written come back as they     *)
(* were, as many as num_of_delimiter() says; and a reader that failed      *)
(* short of the end of its stream is not let go of by read_line().         *)
(* Proved for every value of the constants.                                *)
(***************************************************************************)
EXTENDS MiniCsv, SequenceTheorems, FiniteSetTheorems, WellFoundedInduction, TLAPS

-----------------------------------------------------------------------------
(* Numbers and sequences                                                   *)

Less == {ss \in Nat \X Nat : ss[1] < ss[2]}

(* A set of natural numbers that is not empty has a smallest one.          *)
LEMMA SmallestExists ==
  ASSUME NEW S \in SUBSET Nat, S # {}
  PROVE  \E a \in S : \A y \in S : a <= y
<1>1. IsWellFoundedOn(Less, Nat)
  BY NatLessThanWellFounded DEF OpToRel, Less
<1>2. PICK a \in S : \A y \in S : ~(<<y, a>> \in Less)
  BY <1>1, WFMin
<1>3. ASSUME NEW y \in S PROVE a <= y
  <2>1. <<y, a>> \in Nat \X Nat /\ <<y, a>>[1] = y /\ <<y, a>>[2] = a
    OBVIOUS
  <2>2. ~(y < a)
    BY <2>1, <1>2 DEF Less
  <2> QED BY <2>2
<1> QED BY <1>3

(* The CHOOSE of Min() finds it.                                           *)
LEMMA Least ==
  ASSUME NEW S \in SUBSET Nat, S # {}
  PROVE  Min(S) \in S /\ \A y \in S : Min(S) <= y
  BY SmallestExists DEF Min

(* The largest number of a set that has a bound.                           *)
LEMMA Largest ==
  ASSUME NEW S \in SUBSET Nat, NEW m \in Nat, \A y \in S : y <= m, S # {}
  PROVE  Max(S) \in S /\ \A y \in S : y <= Max(S)
<1> DEFINE T == {k \in 0 .. m : m - k \in S}
<1>1. T \in SUBSET Nat
  OBVIOUS
<1>2. T # {}
  <2>1. PICK y \in S : TRUE
    OBVIOUS
  <2>2. m - (m - y) = y /\ m - y \in 0 .. m
    OBVIOUS
  <2> QED BY <2>1, <2>2
<1>3. PICK t \in T : \A u \in T : t <= u
  BY <1>1, <1>2, SmallestExists
<1>4. ASSUME NEW y \in S PROVE y <= m - t
  <2>1. m - (m - y) = y /\ m - y \in 0 .. m
    OBVIOUS
  <2>2. t <= m - y
    BY <2>1, <1>3
  <2> QED BY <2>2, <1>3
<1>5. m - t \in S
  BY <1>3
<1> QED BY <1>4, <1>5 DEF Max

(* What is defined from one number to the next is defined up to any.       *)
Steps(S, first, n, step, f) ==
  f \in [0 .. n -> S] /\ f[0] = first /\ \A k \in 1 .. n : f[k] = step[k][f[k - 1]]

(* Such a function exists for any step.                                    *)
LEMMA StepsExist ==
  ASSUME NEW S, NEW first \in S, NEW n \in Nat, NEW step \in [1 .. n -> [S -> S]]
  PROVE  \E f : Steps(S, first, n, step, f)
<1> DEFINE Upto(m) == \E f \in [0 .. m -> S] :
                        f[0] = first /\ \A k \in 1 .. m : f[k] = step[k][f[k - 1]]
           None    == {m \in 0 .. n : ~Upto(m)}
<1>1. Upto(0)
  <2> DEFINE f0 == [k \in 0 .. 0 |-> first]
  <2>1. f0 \in [0 .. 0 -> S] /\ f0[0] = first /\ \A k \in 1 .. 0 : FALSE
    OBVIOUS
  <2> HIDE DEF f0
  <2> QED BY <2>1
<1>2. ASSUME NEW m \in 0 .. n, m + 1 <= n, Upto(m)
      PROVE  Upto(m + 1)
  <2>1. PICK f \in [0 .. m -> S] :
               f[0] = first /\ \A k \in 1 .. m : f[k] = step[k][f[k - 1]]
    BY <1>2
  <2> DEFINE g == [k \in 0 .. m + 1 |-> IF k = m + 1 THEN step[m + 1][f[m]] ELSE f[k]]
  <2>2. m + 1 \in 1 .. n /\ f[m] \in S
    BY <1>2
  <2>3. g \in [0 .. m + 1 -> S] /\ g[0] = first
    BY <2>1, <2>2
  <2>4. ASSUME NEW k \in 1 .. m + 1 PROVE g[k] = step[k][g[k - 1]]
    BY <2>1, <2>2
  <2> QED BY <2>3, <2>4
<1> HIDE DEF Upto
<1>3. None = {}
  <2> SUFFICES ASSUME None # {} PROVE FALSE
    OBVIOUS
  <2>1. None \in SUBSET Nat
    OBVIOUS
  <2>2. PICK m \in None : \A y \in None : m <= y
    BY <2>1, SmallestExists
  <2>3. m # 0 /\ m \in 0 .. n
    BY <1>1, <2>2
  <2>4. m - 1 \in 0 .. n /\ m - 1 \notin None
    BY <2>2, <2>3
  <2>5. Upto(m - 1)
    BY <2>4
  <2>6. Upto((m - 1) + 1)
    BY <1>2, <2>3, <2>4, <2>5
  <2> QED BY <2>2, <2>3, <2>6
<1>4. Upto(n)
  BY <1>3
<1> QED BY <1>4 DEF Upto, Steps

(* Sequences with the same elements in the same places are the same.       *)
LEMMA SameSequence ==
  ASSUME NEW T, NEW s \in Seq(T), NEW t \in Seq(T), Len(s) = Len(t),
         \A k \in 1 .. Len(s) : s[k] = t[k]
  PROVE  s = t
<1>1. s = [k \in 1 .. Len(s) |-> s[k]] /\ t = [k \in 1 .. Len(t) |-> t[k]]
  OBVIOUS
<1> QED BY <1>1

(* What SubSeq() takes, and where from.                                    *)
LEMMA SubSeqIs ==
  ASSUME NEW T, NEW s \in Seq(T), NEW n \in 0 .. Len(s), NEW m \in 1 .. n + 1
  PROVE  /\ SubSeq(s, m, n) \in Seq(T) /\ Len(SubSeq(s, m, n)) = n - m + 1
         /\ \A j \in 1 .. n - m + 1 : SubSeq(s, m, n)[j] = s[m - 1 + j]
  OBVIOUS

(* Sequences put together are a sequence of the same things.               *)
LEMMA FlattenIs ==
  ASSUME NEW T, NEW ss \in Seq(Seq(T))
  PROVE  \E f \in [0 .. Len(ss) -> Seq(T)] :
           /\ f[0] = <<>> /\ FlattenSeq(ss) = f[Len(ss)]
           /\ \A k \in 1 .. Len(ss) : f[k] = f[k - 1] \o ss[k]
<1> DEFINE n == Len(ss)
<1>1. n \in Nat /\ \A k \in 1 .. n : ss[k] \in Seq(T)
  OBVIOUS
<1> HIDE DEF n
<1>2. PICK f \in [0 .. n -> Seq(T)] :
             f[0] = <<>> /\ \A k \in 1 .. n : f[k] = f[k - 1] \o ss[k]
  <2> DEFINE S    == Seq(T)
             none == <<>>
             step == [k \in 1 .. n |-> [s \in S |-> s \o ss[k]]]
  <2>1. step \in [1 .. n -> [S -> S]]
    BY <1>1
  <2>2. none \in S /\ n \in Nat
    BY <1>1
  <2> HIDE DEF step, S, none
  <2>3. PICK f : Steps(S, none, n, step, f)
    BY <2>1, <2>2, StepsExist
  <2>4. ASSUME NEW k \in 1 .. n PROVE f[k] = f[k - 1] \o ss[k]
    <3>1. k - 1 \in 0 .. n /\ f[k] = step[k][f[k - 1]]
      BY <1>1, <2>3 DEF Steps
    <3>2. f[k - 1] \in S
      BY <3>1, <2>3 DEF Steps
    <3> QED BY <3>1, <3>2 DEF step
  <2> QED BY <2>3, <2>4 DEF S, none, Steps
<1>3. CASE n = 0
  <2>1. ss = <<>>
    BY <1>3 DEF n
  <2> QED BY <1>2, <1>3, <2>1 DEF FlattenSeq, n
<1>4. CASE n > 0
  <2> DEFINE Is(h) == h = [k \in 1 .. n |-> IF k = 1 THEN ss[k] ELSE h[k - 1] \o ss[k]]
             g     == CHOOSE h : Is(h)
             h0    == [k \in 1 .. n |-> f[k]]
  <2>1. /\ f[1] = ss[1] /\ 1 \in 1 .. n /\ n \in 1 .. n
        /\ \A k \in 1 .. n : k # 1 => k - 1 \in 1 .. n
    <3>1. 1 \in 1 .. n /\ n \in 1 .. n /\ \A k \in 1 .. n : k # 1 => k - 1 \in 1 .. n
      BY <1>1, <1>4
    <3>2. ss[1] \in Seq(T) /\ f[1] = f[1 - 1] \o ss[1]
      BY <3>1, <1>1, <1>2
    <3>3. <<>> \o ss[1] = ss[1] /\ f[1 - 1] = <<>>
      BY <3>2, <1>2
    <3> QED BY <3>1, <3>2, <3>3
  <2>2. Is(h0)
    <3>1. ASSUME NEW k \in 1 .. n
          PROVE  h0[k] = IF k = 1 THEN ss[k] ELSE h0[k - 1] \o ss[k]
      BY <2>1, <1>2
    <3> QED BY <3>1
  <2>3. Is(g)
    BY <2>2
  <2>4. ASSUME NEW k \in 1 .. n PROVE g[k] = IF k = 1 THEN ss[k] ELSE g[k - 1] \o ss[k]
    BY <2>3
  <2>5. FlattenSeq(ss) = g[n]
    BY <1>4 DEF FlattenSeq, n
  <2> HIDE DEF g
  <2>6. ASSUME {k \in 1 .. n : g[k] # f[k]} # {} PROVE FALSE
    <3> DEFINE Off == {k \in 1 .. n : g[k] # f[k]}
    <3>1. Off \in SUBSET Nat /\ Off # {}
      BY <1>1, <2>6
    <3>2. PICK k \in Off : \A j \in Off : k <= j
      BY <3>1, SmallestExists
    <3>3. g[k] # f[k] /\ k \in 1 .. n
      BY <3>2
    <3>4. k # 1 => k - 1 \in 1 .. n /\ ~(k <= k - 1)
      BY <3>3, <2>1, <1>1
    <3>5. k # 1 => g[k - 1] = f[k - 1]
      BY <3>2, <3>4
    <3> HIDE DEF Off, Is, h0
    <3>6. k = 1 => g[k] = ss[1] /\ f[k] = ss[1]
      BY <3>3, <2>1, <2>4
    <3>7. k # 1 => g[k] = g[k - 1] \o ss[k] /\ f[k] = f[k - 1] \o ss[k]
      BY <3>3, <2>4, <1>2
    <3> QED BY <3>3, <3>5, <3>6, <3>7
  <2>7. g[n] = f[n]
    BY <2>6, <2>1
  <2> QED BY <1>2, <2>5, <2>7 DEF n
<1>5. n = 0 \/ n > 0
  BY <1>1
<1> QED BY <1>3, <1>4, <1>5

(* A sequence behind another.                                              *)
LEMMA JoinIs ==
  ASSUME NEW T, NEW s \in Seq(T), NEW t \in Seq(T)
  PROVE  /\ s \o t \in Seq(T) /\ Len(s \o t) = Len(s) + Len(t) /\ Len(s) \in Nat /\ Len(t) \in Nat
         /\ \A n \in 1 .. Len(s) : (s \o t)[n] = s[n]
         /\ \A n \in 1 .. Len(t) : (s \o t)[Len(s) + n] = t[n]
  OBVIOUS

-----------------------------------------------------------------------------
(* replace()                                                               *)

(* replace(), one character after the other: what has been put out, and    *)
(* how many characters of an occurrence are still to be passed over.       *)
Found(s, find, n) == n + Len(find) - 1 <= Len(s) /\ SubSeq(s, n, n + Len(find) - 1) = find

(* One step: pass over, put what replaces an occurrence, or put the        *)
(* character.                                                              *)
Replaces(s, find, by, out, skip, n) ==
  IF skip[n - 1] > 0 THEN out[n] = out[n - 1] /\ skip[n] = skip[n - 1] - 1
  ELSE IF Found(s, find, n) THEN out[n] = out[n - 1] \o by /\ skip[n] = Len(find) - 1
  ELSE out[n] = Append(out[n - 1], s[n]) /\ skip[n] = 0

(* The recursive function in replace() takes one of these steps per        *)
(* character.                                                              *)
LEMMA ReplaceIs ==
  ASSUME NEW T, NEW s \in Seq(T), NEW find \in Seq(T), NEW by \in Seq(T), find # <<>>
  PROVE  \E out \in [0 .. Len(s) -> Seq(T)], skip \in [0 .. Len(s) -> Nat] :
           /\ out[0] = <<>> /\ skip[0] = 0 /\ Replace(s, find, by) = out[Len(s)]
           /\ \A n \in 1 .. Len(s) : Replaces(s, find, by, out, skip, n)
<1> DEFINE S     == [out : Seq(T), skip : Nat]
           first == [out |-> <<>>, skip |-> 0]
           turn(p, n) ==
             IF p.skip > 0 THEN [p EXCEPT !.skip = @ - 1]
             ELSE IF Found(s, find, n) THEN [out |-> p.out \o by, skip |-> Len(find) - 1]
             ELSE [p EXCEPT !.out = Append(@, s[n])]
           step  == [n \in 1 .. Len(s) |-> [p \in S |-> turn(p, n)]]
<1>1. first \in S /\ Len(s) \in Nat /\ Len(find) - 1 \in Nat
  OBVIOUS
<1>2. ASSUME NEW p \in S, NEW n \in 1 .. Len(s)
      PROVE  turn(p, n) \in S
  <2>1. p.out \in Seq(T) /\ p.skip \in Nat /\ s[n] \in T
    OBVIOUS
  <2>2. p.out \o by \in Seq(T) /\ Append(p.out, s[n]) \in Seq(T)
    BY <2>1
  <2>3. p.skip > 0 => p.skip - 1 \in Nat
    BY <2>1
  <2> QED BY <2>1, <2>2, <2>3, <1>1
<1>3. step \in [1 .. Len(s) -> [S -> S]]
  BY <1>2
<1> HIDE DEF S, first, turn, step
<1>4. PICK f : Steps(S, first, Len(s), step, f)
  BY <1>1, <1>3, StepsExist
<1>5. f[0] = first /\ \A n \in 0 .. Len(s) : f[n] \in S
  BY <1>4 DEF Steps
<1>6. ASSUME NEW n \in 1 .. Len(s) PROVE f[n] = turn(f[n - 1], n)
  <2>1. f[n] = step[n][f[n - 1]] /\ n - 1 \in 0 .. Len(s)
    BY <1>1, <1>4 DEF Steps
  <2> QED BY <2>1, <1>5 DEF step
<1>7. Replace(s, find, by) = f[Len(s)].out
  <2> DEFINE Is(h) == h = [n \in 0 .. Len(s) |-> IF n = 0 THEN first ELSE turn(h[n - 1], n)]
             to    == CHOOSE h : Is(h)
             h0    == [n \in 0 .. Len(s) |-> f[n]]
  <2>1. Is(h0)
    <3>1. ASSUME NEW n \in 0 .. Len(s)
          PROVE  h0[n] = IF n = 0 THEN first ELSE turn(h0[n - 1], n)
      <4>1. n # 0 => n \in 1 .. Len(s) /\ n - 1 \in 0 .. Len(s)
        BY <1>1
      <4> QED BY <4>1, <1>5, <1>6
    <3> QED BY <3>1
  <2>2. Is(to)
    BY <2>1
  <2>3. Replace(s, find, by) = to[Len(s)].out
    BY DEF Replace, first, turn, Found
  <2> HIDE DEF to
  <2>4. ASSUME NEW n \in 0 .. Len(s)
        PROVE  to[n] = IF n = 0 THEN first ELSE turn(to[n - 1], n)
    BY <2>2
  <2> HIDE DEF Is, h0
  <2> DEFINE Off == {n \in 0 .. Len(s) : to[n] # f[n]}
  <2>5. Off = {}
    <3> SUFFICES ASSUME Off # {} PROVE FALSE
      OBVIOUS
    <3>1. Off \in SUBSET Nat
      BY <1>1
    <3>2. PICK n \in Off : \A m \in Off : n <= m
      BY <3>1, SmallestExists
    <3>3. n \in 0 .. Len(s) /\ n # 0 /\ to[n] # f[n]
      BY <3>2, <2>4, <1>5
    <3>4. n \in 1 .. Len(s) /\ n - 1 \in 0 .. Len(s) /\ ~(n <= n - 1)
      BY <3>3, <1>1
    <3>5. to[n - 1] = f[n - 1]
      BY <3>2, <3>4
    <3> QED BY <3>3, <3>4, <3>5, <2>4, <1>6
  <2>6. to[Len(s)] = f[Len(s)]
    BY <2>5, <1>1
  <2> QED BY <2>3, <2>6
<1> DEFINE out  == [n \in 0 .. Len(s) |-> f[n].out]
           skip == [n \in 0 .. Len(s) |-> f[n].skip]
<1>8. \A n \in 0 .. Len(s) : f[n].out \in Seq(T) /\ f[n].skip \in Nat
  BY <1>5 DEF S
<1>9. out \in [0 .. Len(s) -> Seq(T)] /\ skip \in [0 .. Len(s) -> Nat]
  BY <1>8
<1>10. out[0] = <<>> /\ skip[0] = 0 /\ Replace(s, find, by) = out[Len(s)]
  BY <1>1, <1>5, <1>7 DEF first
<1>11. ASSUME NEW n \in 1 .. Len(s) PROVE Replaces(s, find, by, out, skip, n)
  <2>1. n - 1 \in 0 .. Len(s) /\ n \in 0 .. Len(s)
    BY <1>1
  <2>2. /\ out[n] = f[n].out /\ skip[n] = f[n].skip
        /\ out[n - 1] = f[n - 1].out /\ skip[n - 1] = f[n - 1].skip
    BY <2>1
  <2> HIDE DEF out, skip
  <2>3. f[n] = turn(f[n - 1], n) /\ f[n - 1] \in S /\ skip[n - 1] \in Nat
    BY <1>5, <1>6, <1>8, <2>1, <2>2
  <2>4. CASE skip[n - 1] > 0
    <3>1. f[n] = [f[n - 1] EXCEPT !.skip = @ - 1]
      BY <2>2, <2>3, <2>4 DEF turn
    <3>2. f[n].out = f[n - 1].out /\ f[n].skip = f[n - 1].skip - 1
      BY <3>1, <2>3 DEF S
    <3> QED BY <3>2, <2>2, <2>4 DEF Replaces
  <2>5. CASE ~(skip[n - 1] > 0) /\ Found(s, find, n)
    BY <2>2, <2>3, <2>5 DEF turn, Replaces
  <2>6. CASE ~(skip[n - 1] > 0) /\ ~Found(s, find, n)
    <3>1. f[n] = [f[n - 1] EXCEPT !.out = Append(@, s[n])]
      BY <2>2, <2>3, <2>6 DEF turn
    <3>2. f[n].out = Append(f[n - 1].out, s[n]) /\ f[n].skip = 0
      BY <3>1, <2>2, <2>3, <2>6 DEF S
    <3> QED BY <3>2, <2>2, <2>6 DEF Replaces
  <2> QED BY <2>4, <2>5, <2>6
<1> HIDE DEF out, skip
<1> QED BY <1>9, <1>10, <1>11

(* Induction up to a bound.                                                *)
LEMMA Upward ==
  ASSUME NEW n \in Nat, NEW S, 0 \in S, \A k \in 0 .. n - 1 : k \in S => k + 1 \in S
  PROVE  \A k \in 0 .. n : k \in S
<1> DEFINE Off == {k \in 0 .. n : k \notin S}
<1>1. Off \in SUBSET Nat
  OBVIOUS
<1> SUFFICES ASSUME Off # {} PROVE FALSE
  OBVIOUS
<1>2. PICK k \in Off : \A m \in Off : k <= m
  BY <1>1, SmallestExists
<1>3. k \in 0 .. n /\ k \notin S /\ k # 0
  BY <1>2
<1>4. k - 1 \in 0 .. n - 1 /\ k - 1 \in 0 .. n /\ ~(k <= k - 1) /\ (k - 1) + 1 = k
  BY <1>3
<1>5. k - 1 \in S
  BY <1>2, <1>4
<1> QED BY <1>3, <1>4, <1>5

(* Where in the whole the parts of a sequence put together stand.          *)
Upto(T, ss, f) ==
  /\ f \in [0 .. Len(ss) -> Seq(T)] /\ f[0] = <<>>
  /\ \A k \in 1 .. Len(ss) : f[k] = f[k - 1] \o ss[k]

PartsOf(s, ss, f) ==
  /\ \A k \in 0 .. Len(ss) :
       Len(f[k]) \in 0 .. Len(s) /\ \A m \in 1 .. Len(f[k]) : s[m] = f[k][m]
  /\ \A k \in 1 .. Len(ss) :
       /\ Len(f[k]) = Len(f[k - 1]) + Len(ss[k])
       /\ \A m \in 1 .. Len(ss[k]) : s[Len(f[k - 1]) + m] = ss[k][m]

(* Every part stands in the whole, one behind the other.                   *)
LEMMA FlattenAt ==
  ASSUME NEW T, NEW ss \in Seq(Seq(T))
  PROVE  FlattenSeq(ss) \in Seq(T)
         /\ \E f : /\ Upto(T, ss, f) /\ FlattenSeq(ss) = f[Len(ss)]
                  /\ PartsOf(FlattenSeq(ss), ss, f)
<1> DEFINE n == Len(ss)
           s == FlattenSeq(ss)
<1>1. n \in Nat /\ \A k \in 1 .. n : ss[k] \in Seq(T)
  OBVIOUS
<1>2. PICK f \in [0 .. n -> Seq(T)] :
         f[0] = <<>> /\ s = f[n] /\ \A k \in 1 .. n : f[k] = f[k - 1] \o ss[k]
  BY FlattenIs
<1> HIDE DEF n, s
<1>3. s \in Seq(T) /\ \A k \in 0 .. n : f[k] \in Seq(T)
  BY <1>1, <1>2
<1>4. ASSUME NEW k \in 1 .. n
      PROVE  /\ Len(f[k]) = Len(f[k - 1]) + Len(ss[k])
             /\ \A m \in 1 .. Len(f[k - 1]) : f[k][m] = f[k - 1][m]
             /\ \A m \in 1 .. Len(ss[k]) : f[k][Len(f[k - 1]) + m] = ss[k][m]
  <2>1. k - 1 \in 0 .. n
    BY <1>1
  <2>a. f[k] = f[k - 1] \o ss[k]
    BY <1>2
  <2> DEFINE p == f[k - 1]
             q == ss[k]
  <2>2. p \in Seq(T) /\ q \in Seq(T)
    BY <2>1, <1>1, <1>3
  <2> HIDE DEF p, q
  <2>3. /\ Len(p \o q) = Len(p) + Len(q)
        /\ \A m \in 1 .. Len(p) : (p \o q)[m] = p[m]
        /\ \A m \in 1 .. Len(q) : (p \o q)[Len(p) + m] = q[m]
    BY <2>2, JoinIs
  <2> QED BY <2>a, <2>3 DEF p, q
<1> DEFINE Good == {d \in 0 .. n : /\ Len(f[n - d]) <= Len(s)
                                   /\ \A m \in 1 .. Len(f[n - d]) : s[m] = f[n - d][m]}
<1>5. 0 \in Good
  BY <1>1, <1>2, <1>3
<1>6. ASSUME NEW d \in 0 .. n - 1, d \in Good PROVE d + 1 \in Good
  <2>1. n - d \in 1 .. n /\ n - (d + 1) = n - d - 1 /\ d + 1 \in 0 .. n /\ n - d \in 0 .. n
        /\ n - d - 1 \in 0 .. n
    BY <1>1
  <2>2. Len(f[n - d]) <= Len(s) /\ \A m \in 1 .. Len(f[n - d]) : s[m] = f[n - d][m]
    BY <1>6
  <2>3. /\ Len(f[n - d]) = Len(f[n - d - 1]) + Len(ss[n - d])
        /\ \A m \in 1 .. Len(f[n - d - 1]) : f[n - d][m] = f[n - d - 1][m]
    BY <2>1, <1>4
  <2>4. Len(f[n - d - 1]) \in Nat /\ Len(ss[n - d]) \in Nat /\ Len(s) \in Nat
    BY <2>1, <1>1, <1>3, LenProperties
  <2>5. Len(f[n - d - 1]) <= Len(s)
        /\ \A m \in 1 .. Len(f[n - d - 1]) : s[m] = f[n - d - 1][m]
    <3> DEFINE p == f[n - d]
               q == f[n - d - 1]
               l == Len(ss[n - d])
    <3>1. /\ Len(p) <= Len(s) /\ \A m \in 1 .. Len(p) : s[m] = p[m]
          /\ Len(p) = Len(q) + l /\ \A m \in 1 .. Len(q) : p[m] = q[m]
          /\ Len(q) \in Nat /\ l \in Nat /\ Len(s) \in Nat
      BY <2>2, <2>3, <2>4
    <3> HIDE DEF p, q, l
    <3>2. Len(q) <= Len(s) /\ \A m \in 1 .. Len(q) : s[m] = q[m]
      BY <3>1
    <3> QED BY <3>2 DEF q
  <2> QED BY <2>1, <2>5
<1> HIDE DEF Good
<1>7. \A d \in 0 .. n : d \in Good
  BY <1>1, <1>5, <1>6, Upward
<1>8. ASSUME NEW k \in 0 .. n
      PROVE  Len(f[k]) \in 0 .. Len(s) /\ \A m \in 1 .. Len(f[k]) : s[m] = f[k][m]
  <2>1. n - k \in 0 .. n /\ n - (n - k) = k
    BY <1>1
  <2>2. n - k \in Good
    BY <2>1, <1>7
  <2>3. Len(f[k]) <= Len(s) /\ \A m \in 1 .. Len(f[k]) : s[m] = f[k][m]
    BY <2>1, <2>2 DEF Good
  <2> QED BY <2>3, <1>3, LenProperties
<1>9. ASSUME NEW k \in 1 .. n
      PROVE  \A m \in 1 .. Len(ss[k]) : s[Len(f[k - 1]) + m] = ss[k][m]
  <2>1. k \in 0 .. n /\ k - 1 \in 0 .. n
    BY <1>1
  <2>2. Len(f[k - 1]) \in Nat /\ Len(ss[k]) \in Nat
    BY <2>1, <1>1, <1>3, LenProperties
  <2> DEFINE a == Len(f[k - 1])
             w == ss[k]
             p == f[k]
  <2>3. /\ Len(p) = a + Len(w) /\ a \in Nat /\ Len(w) \in Nat
        /\ \A m \in 1 .. Len(w) : p[a + m] = w[m]
        /\ \A m \in 1 .. Len(p) : s[m] = p[m]
    BY <2>1, <2>2, <1>4, <1>8
  <2> HIDE DEF a, w, p
  <2>4. \A m \in 1 .. Len(w) : a + m \in 1 .. Len(p)
    BY <2>3
  <2>5. \A m \in 1 .. Len(w) : s[a + m] = w[m]
    BY <2>3, <2>4
  <2> QED BY <2>5 DEF a, w
<1>10. PartsOf(s, ss, f)
  BY <1>4, <1>8, <1>9 DEF PartsOf, n
<1>11. Upto(T, ss, f)
  BY <1>2 DEF Upto, n
<1> QED BY <1>2, <1>3, <1>10, <1>11 DEF n, s

(* The next element, behind a sequence and the ones before it.             *)
LEMMA JoinPart ==
  ASSUME NEW T, NEW x \in Seq(T), NEW w \in Seq(T), NEW m \in 0 .. Len(w), m + 1 \in 1 .. Len(w)
  PROVE  Append(x \o SubSeq(w, 1, m), w[m + 1]) = x \o SubSeq(w, 1, m + 1)
<1> DEFINE p == SubSeq(w, 1, m)
           q == SubSeq(w, 1, m + 1)
           e == w[m + 1]
<1>1. p \in Seq(T) /\ q \in Seq(T) /\ e \in T
  OBVIOUS
<1>2. q = Append(p, e)
  <2>1. /\ Len(p) = m /\ \A j \in 1 .. m : p[j] = w[j]
        /\ Len(q) = m + 1 /\ \A j \in 1 .. m + 1 : q[j] = w[j]
    OBVIOUS
  <2>2. e = w[m + 1] /\ m \in Nat
    OBVIOUS
  <2> HIDE DEF p, q, e
  <2> DEFINE r == Append(p, e)
  <2>3. /\ r \in Seq(T) /\ Len(r) = m + 1
        /\ \A j \in 1 .. m : r[j] = p[j]
        /\ r[m + 1] = e
    BY <1>1, <2>1, <2>2
  <2> HIDE DEF r
  <2>4. \A j \in 1 .. m + 1 : j \in 1 .. m \/ j = m + 1
    BY <2>2
  <2>5. Len(q) = Len(r) /\ \A j \in 1 .. Len(q) : q[j] = r[j]
    BY <2>1, <2>2, <2>3, <2>4
  <2>6. q = r
    BY <1>1, <2>3, <2>5, SameSequence
  <2> QED BY <2>6 DEF r
<1> HIDE DEF p, q, e
<1>3. Append(x \o p, e) = x \o Append(p, e)
  <2> DEFINE o == <<e>>
  <2>1. o \in Seq(T) /\ Append(p, e) = p \o o
    BY <1>1
  <2>2. x \o p \in Seq(T)
    BY <1>1
  <2>3. Append(x \o p, e) = (x \o p) \o o
    BY <2>2, <1>1
  <2> HIDE DEF o
  <2>4. (x \o p) \o o = x \o (p \o o)
    BY <1>1, <2>1
  <2> QED BY <2>1, <2>3, <2>4
<1> QED BY <1>2, <1>3 DEF p, q, e

(* An occurrence, character by character.                                  *)
LEMMA FoundIs ==
  ASSUME NEW T, NEW s \in Seq(T), NEW find \in Seq(T), find # <<>>, NEW c \in 1 .. Len(s)
  PROVE  Found(s, find, c) <=>
           /\ c + Len(find) - 1 <= Len(s)
           /\ \A j \in 1 .. Len(find) : s[c - 1 + j] = find[j]
<1> DEFINE F  == Len(find)
           hi == c + F - 1
<1>1. F \in Nat \ {0} /\ Len(s) \in Nat /\ hi - c + 1 = F /\ hi \in Nat
  OBVIOUS
<1> SUFFICES ASSUME hi <= Len(s)
             PROVE  (SubSeq(s, c, hi) = find) <=> \A j \in 1 .. F : s[c - 1 + j] = find[j]
  BY DEF Found
<1>2. hi \in 0 .. Len(s) /\ c \in 1 .. hi + 1
  BY <1>1
<1> HIDE DEF hi
<1> DEFINE cut == SubSeq(s, c, hi)
<1>3. cut \in Seq(T) /\ Len(cut) = hi - c + 1 /\ \A j \in 1 .. hi - c + 1 : cut[j] = s[c - 1 + j]
  BY <1>2, SubSeqIs
<1> HIDE DEF cut
<1>4. (\A j \in 1 .. F : cut[j] = find[j]) <=> cut = find
  BY <1>1, <1>3, SameSequence
<1> QED BY <1>1, <1>3, <1>4 DEF cut

(* A sequence cut into parts, some the one that is looked for, the others  *)
(* without its first element: replace() replaces the former and leaves the *)
(* latter.                                                                 *)
LEMMA ReplaceParts ==
  ASSUME NEW T, NEW ss \in Seq(Seq(T)), NEW tt \in Seq(Seq(T)), Len(ss) = Len(tt),
         NEW find \in Seq(T), NEW by \in Seq(T), find # <<>>,
         \A i \in 1 .. Len(ss) : \/ ss[i] = find /\ tt[i] = by
                                 \/ find[1] \notin ToSet(ss[i]) /\ tt[i] = ss[i]
  PROVE  Replace(FlattenSeq(ss), find, by) = FlattenSeq(tt)
<1> DEFINE n == Len(ss)
           s == FlattenSeq(ss)
           F == Len(find)
<1>1. n \in Nat /\ F \in Nat \ {0} /\ \A k \in 1 .. n : ss[k] \in Seq(T) /\ tt[k] \in Seq(T)
  OBVIOUS
<1>a. s \in Seq(T)
  BY FlattenAt
<1>b. PICK f : Upto(T, ss, f) /\ s = f[n] /\ PartsOf(s, ss, f)
  BY FlattenAt
<1>2. /\ f \in [0 .. n -> Seq(T)] /\ f[0] = <<>> /\ s = f[n] /\ s \in Seq(T)
      /\ \A k \in 0 .. n : Len(f[k]) \in 0 .. Len(s)
      /\ \A k \in 1 .. n :
           /\ Len(f[k]) = Len(f[k - 1]) + Len(ss[k])
           /\ \A m \in 1 .. Len(ss[k]) : s[Len(f[k - 1]) + m] = ss[k][m]
  BY <1>a, <1>b DEF Upto, PartsOf
<1>c. PICK g : Upto(T, tt, g) /\ FlattenSeq(tt) = g[Len(tt)]
  BY FlattenAt
<1>3. /\ g \in [0 .. n -> Seq(T)] /\ g[0] = <<>> /\ FlattenSeq(tt) = g[n]
      /\ \A k \in 1 .. n : g[k] = g[k - 1] \o tt[k]
  BY <1>c DEF Upto
<1> HIDE DEF s
<1>4. PICK out \in [0 .. Len(s) -> Seq(T)], skip \in [0 .. Len(s) -> Nat] :
           /\ out[0] = <<>> /\ skip[0] = 0 /\ Replace(s, find, by) = out[Len(s)]
           /\ \A k \in 1 .. Len(s) : Replaces(s, find, by, out, skip, k)
  BY <1>2, ReplaceIs
<1> HIDE DEF n, F
<1>5. Len(s) \in Nat /\ \A k \in 0 .. n : Len(f[k]) \in Nat
  BY <1>2, LenProperties
<1> DEFINE Good == {k \in 0 .. n : out[Len(f[k])] = g[k] /\ skip[Len(f[k])] = 0}
<1>6. 0 \in Good
  <2>1. Len(f[0]) = 0
    BY <1>2
  <2> QED BY <2>1, <1>1, <1>3, <1>4
<1>7. ASSUME NEW k \in 0 .. n - 1, k \in Good PROVE k + 1 \in Good
  <2> DEFINE a == Len(f[k])
             w == ss[k + 1]
             b == Len(w)
  <2>1. k \in 0 .. n /\ k + 1 \in 1 .. n /\ k + 1 \in 0 .. n /\ (k + 1) - 1 = k
    BY <1>1
  <2>2. w \in Seq(T) /\ b \in Nat /\ a \in Nat /\ tt[k + 1] \in Seq(T)
    BY <2>1, <1>1, <1>5, LenProperties
  <2>3. Len(f[k + 1]) = a + b /\ a + b <= Len(s)
        /\ \A m \in 1 .. b : s[a + m] = w[m]
    <3> DEFINE i == k + 1
    <3>1. i \in 1 .. n /\ i - 1 = k
      BY <2>1
    <3> HIDE DEF i
    <3>2. /\ Len(f[i]) = Len(f[i - 1]) + Len(ss[i])
          /\ \A m \in 1 .. Len(ss[i]) : s[Len(f[i - 1]) + m] = ss[i][m]
      BY <3>1, <1>2
    <3>3. /\ Len(f[k + 1]) = Len(f[k]) + Len(ss[k + 1])
          /\ \A m \in 1 .. Len(ss[k + 1]) : s[Len(f[k]) + m] = ss[k + 1][m]
      BY <3>1, <3>2 DEF i
    <3>4. Len(f[k + 1]) \in 0 .. Len(s)
      BY <2>1, <1>2
    <3>5. Len(s) \in Nat /\ Len(f[k]) \in Nat /\ Len(ss[k + 1]) \in Nat
      BY <2>1, <2>2, <1>5
    <3>6. Len(f[k + 1]) = a + b
      BY <3>3
    <3>7. a + b <= Len(s)
      <4>1. a + b \in 0 .. Len(s)
        BY <3>4, <3>6
      <4>2. a \in Nat /\ b \in Nat /\ Len(s) \in Nat
        BY <3>5
      <4> HIDE DEF a, b
      <4> QED BY <4>1, <4>2
    <3>8. \A m \in 1 .. b : s[a + m] = w[m]
      BY <3>3
    <3> QED BY <3>6, <3>7, <3>8
  <2>4. out[a] = g[k] /\ skip[a] = 0 /\ g[k] \in Seq(T)
    BY <1>7, <2>1, <1>3
  <2>5. g[k + 1] = g[k] \o tt[k + 1]
    BY <2>1, <1>3
  <2>6. \/ w = find /\ tt[k + 1] = by
        \/ find[1] \notin ToSet(w) /\ tt[k + 1] = w
    <3>1. k + 1 \in 1 .. Len(ss)
      BY <2>1 DEF n
    <3> QED BY <3>1
  <2> HIDE DEF a, b, w, Good
  <2>7. CASE w = find /\ tt[k + 1] = by
    <3>1. b = F /\ a + 1 \in 1 .. Len(s)
      BY <2>2, <2>3, <2>7, <1>1, <1>5 DEF b, F
    <3>2. Found(s, find, a + 1)
      <4> DEFINE c == a + 1
      <4>1. c \in 1 .. Len(s) /\ c + F - 1 <= Len(s) /\ c - 1 = a
        BY <3>1, <2>2, <2>3, <1>1
      <4> HIDE DEF c
      <4>2. \A j \in 1 .. F : s[c - 1 + j] = find[j]
        BY <4>1, <3>1, <2>3, <2>7
      <4>3. Found(s, find, c)
        BY <4>1, <4>2, <1>a, FoundIs DEF F
      <4> QED BY <4>3 DEF c
    <3>3. out[a + 1] = g[k] \o by /\ skip[a + 1] = F - 1
      <4> DEFINE c == a + 1
      <4>1. c - 1 = a /\ c \in 1 .. Len(s)
        BY <3>1, <2>2
      <4> HIDE DEF c
      <4>2. Replaces(s, find, by, out, skip, c)
        BY <4>1, <1>4
      <4>3. ~(skip[c - 1] > 0) /\ out[c - 1] = g[k] /\ Found(s, find, c)
        BY <4>1, <3>2, <2>4 DEF c
      <4>4. out[c] = out[c - 1] \o by /\ skip[c] = Len(find) - 1
        BY <4>2, <4>3 DEF Replaces
      <4>5. out[c] = g[k] \o by /\ skip[c] = F - 1
        BY <4>3, <4>4 DEF F
      <4> QED BY <4>5 DEF c
    <3> DEFINE Over == {m \in 0 .. F - 1 : out[a + 1 + m] = g[k] \o by /\ skip[a + 1 + m] = F - 1 - m}
    <3>4. 0 \in Over
      <4>1. 0 \in 0 .. F - 1 /\ a + 1 + 0 = a + 1 /\ F - 1 - 0 = F - 1
        BY <2>2, <1>1
      <4> QED BY <4>1, <3>3
    <3>5. ASSUME NEW m \in 0 .. (F - 1) - 1, m \in Over PROVE m + 1 \in Over
      <4>1. /\ a + 1 + (m + 1) \in 1 .. Len(s) /\ a + 1 + (m + 1) - 1 = a + 1 + m
            /\ m + 1 \in 0 .. F - 1 /\ F - 1 - m > 0 /\ F - 1 - m - 1 = F - 1 - (m + 1)
        BY <3>1, <2>2, <2>3, <1>1, <1>5
      <4>2. out[a + 1 + m] = g[k] \o by /\ skip[a + 1 + m] = F - 1 - m
        BY <3>5
      <4>3. Replaces(s, find, by, out, skip, a + 1 + (m + 1))
        BY <4>1, <1>4
      <4>4. out[a + 1 + (m + 1)] = g[k] \o by /\ skip[a + 1 + (m + 1)] = F - 1 - (m + 1)
        <5> DEFINE c == a + 1 + (m + 1)
                   d == a + 1 + m
        <5>1. c - 1 = d
          BY <2>2
        <5>2. Replaces(s, find, by, out, skip, c)
          BY <4>3
        <5>3. out[d] = g[k] \o by /\ skip[d] = F - 1 - m
          BY <4>2
        <5>4. F - 1 - m > 0 /\ F - 1 - m - 1 = F - 1 - (m + 1)
          BY <4>1
        <5> HIDE DEF c, d
        <5>5. skip[c - 1] > 0 /\ out[c - 1] = g[k] \o by /\ skip[c - 1] = F - 1 - m
          BY <5>1, <5>3, <5>4
        <5>6. out[c] = out[c - 1] /\ skip[c] = skip[c - 1] - 1
          BY <5>2, <5>5 DEF Replaces
        <5>7. out[c] = g[k] \o by /\ skip[c] = F - 1 - (m + 1)
          BY <5>4, <5>5, <5>6
        <5> QED BY <5>7 DEF c
      <4> QED BY <4>1, <4>4
    <3> HIDE DEF Over
    <3>6. F - 1 \in Over
      <4>1. F - 1 \in Nat /\ F - 1 \in 0 .. F - 1
        BY <1>1
      <4>2. \A m \in 0 .. F - 1 : m \in Over
        BY <4>1, <3>4, <3>5, Upward
      <4> QED BY <4>1, <4>2
    <3>7. out[a + b] = g[k] \o by /\ skip[a + b] = 0
      <4>1. b = F /\ a \in Nat /\ F \in Nat
        BY <3>1, <2>2, <1>1
      <4>2. a + 1 + (F - 1) = a + b /\ F - 1 - (F - 1) = 0
        BY <4>1
      <4> QED BY <3>6, <4>2 DEF Over
    <3> QED BY <3>7, <2>1, <2>3, <2>5, <2>7 DEF Good
  <2>8. CASE find[1] \notin ToSet(w) /\ tt[k + 1] = w
    <3> DEFINE Put1 == {m \in 0 .. b : out[a + m] = g[k] \o SubSeq(w, 1, m) /\ skip[a + m] = 0}
    <3>1. 0 \in Put1
      <4>1. SubSeq(w, 1, 0) = <<>> /\ g[k] \o <<>> = g[k] /\ a + 0 = a /\ 0 \in 0 .. b
        BY <2>2, <2>4
      <4> QED BY <4>1, <2>4
    <3>2. ASSUME NEW m \in 0 .. b - 1, m \in Put1 PROVE m + 1 \in Put1
      <4>1. a + (m + 1) \in 1 .. Len(s) /\ a + (m + 1) - 1 = a + m /\ m + 1 \in 1 .. b
            /\ m + 1 \in 0 .. b /\ m \in 0 .. b
        <5>1. a \in Nat /\ b \in Nat /\ m \in 0 .. b - 1 /\ Len(s) \in Nat /\ a + b <= Len(s)
          BY <2>2, <2>3, <1>5
        <5> QED BY <5>1
      <4>2. out[a + m] = g[k] \o SubSeq(w, 1, m) /\ skip[a + m] = 0
        BY <3>2
      <4>3. s[a + (m + 1)] = w[m + 1] /\ w[m + 1] # find[1]
        BY <4>1, <2>2, <2>3, <2>8 DEF ToSet, b
      <4>4. ~Found(s, find, a + (m + 1))
        <5> SUFFICES ASSUME Found(s, find, a + (m + 1)) PROVE FALSE
          OBVIOUS
        <5> DEFINE c == a + (m + 1)
        <5>1. Found(s, find, c) /\ c \in 1 .. Len(s)
          BY <4>1
        <5> HIDE DEF c
        <5>2. \A j \in 1 .. F : s[c - 1 + j] = find[j]
          BY <5>1, <1>a, FoundIs DEF F
        <5>3. 1 \in 1 .. F /\ c - 1 + 1 = c
          BY <5>1, <1>1, <1>5
        <5>4. find[1] = s[c]
          BY <5>2, <5>3
        <5> QED BY <5>4, <4>3 DEF c
      <4>5. out[a + (m + 1)] = Append(out[a + m], s[a + (m + 1)]) /\ skip[a + (m + 1)] = 0
        <5>1. Replaces(s, find, by, out, skip, a + (m + 1))
          BY <4>1, <1>4
        <5> DEFINE c == a + (m + 1)
                   d == a + m
        <5>2. c - 1 = d
          BY <2>2
        <5>3. Replaces(s, find, by, out, skip, c) /\ ~Found(s, find, c)
          BY <5>1, <4>4
        <5>4. skip[d] = 0
          BY <4>2
        <5> HIDE DEF c, d
        <5>5. ~(skip[c - 1] > 0)
          BY <5>2, <5>4
        <5>6. out[c] = Append(out[c - 1], s[c]) /\ skip[c] = 0
          BY <5>3, <5>5 DEF Replaces
        <5>7. out[c] = Append(out[d], s[c]) /\ skip[c] = 0
          BY <5>2, <5>6
        <5> QED BY <5>7 DEF c, d
      <4>6. Append(g[k] \o SubSeq(w, 1, m), w[m + 1]) = g[k] \o SubSeq(w, 1, m + 1)
        <5> DEFINE x == g[k]
        <5>1. x \in Seq(T) /\ m \in 0 .. Len(w) /\ m + 1 \in 1 .. Len(w)
          BY <2>4, <4>1 DEF b
        <5> HIDE DEF x
        <5>2. Append(x \o SubSeq(w, 1, m), w[m + 1]) = x \o SubSeq(w, 1, m + 1)
          BY <5>1, <2>2, JoinPart
        <5> QED BY <5>2 DEF x
      <4> QED BY <4>1, <4>2, <4>3, <4>5, <4>6
    <3> HIDE DEF Put1
    <3>3. b \in Put1
      <4>1. b \in 0 .. b
        BY <2>2
      <4>2. \A m \in 0 .. b : m \in Put1
        BY <2>2, <3>1, <3>2, Upward
      <4> QED BY <4>1, <4>2
    <3>4. SubSeq(w, 1, b) = w
      BY <2>2 DEF b
    <3> QED BY <3>3, <3>4, <2>1, <2>3, <2>5, <2>8 DEF Good, Put1
  <2> QED BY <2>6, <2>7, <2>8
<1> HIDE DEF Good
<1>8. n \in Good
  <2>1. \A k \in 0 .. n : k \in Good
    BY <1>1, <1>6, <1>7, Upward
  <2> QED BY <2>1, <1>1
<1>9. Replace(s, find, by) = out[Len(s)] /\ s = f[n]
  BY <1>2, <1>4
<1>10. out[Len(f[n])] = g[n]
  BY <1>8 DEF Good
<1>11. Replace(s, find, by) = g[n]
  BY <1>9, <1>10
<1> QED BY <1>3, <1>11 DEF s

(* Parts are put together in one way only.                                 *)
LEMMA FlattenUnique ==
  ASSUME NEW T, NEW ss \in Seq(Seq(T)), NEW f, Upto(T, ss, f)
  PROVE  FlattenSeq(ss) = f[Len(ss)]
<1>1. PICK g : Upto(T, ss, g) /\ FlattenSeq(ss) = g[Len(ss)]
  BY FlattenAt
<1> DEFINE n == Len(ss)
           Same == {k \in 0 .. n : f[k] = g[k]}
<1>2. n \in Nat
  OBVIOUS
<1>3. 0 \in Same
  BY <1>1, <1>2 DEF Upto
<1>4. ASSUME NEW k \in 0 .. n - 1, k \in Same PROVE k + 1 \in Same
  <2> DEFINE i == k + 1
  <2>1. i \in 1 .. n /\ i - 1 = k /\ i \in 0 .. n
    BY <1>2
  <2> HIDE DEF i
  <2>2. f[i] = f[i - 1] \o ss[i] /\ g[i] = g[i - 1] \o ss[i]
    BY <2>1, <1>1 DEF Upto
  <2>3. f[i] = g[i]
    BY <2>1, <2>2, <1>4
  <2> QED BY <2>1, <2>3 DEF i
<1> HIDE DEF Same
<1>5. n \in Same
  <2>1. \A k \in 0 .. n : k \in Same
    BY <1>2, <1>3, <1>4, Upward
  <2> QED BY <2>1, <1>2
<1> QED BY <1>1, <1>5 DEF Same

(* Two lists of parts put together are what each is, one behind the other. *)
LEMMA FlattenConcat ==
  ASSUME NEW T, NEW ss \in Seq(Seq(T)), NEW tt \in Seq(Seq(T))
  PROVE  FlattenSeq(ss \o tt) = FlattenSeq(ss) \o FlattenSeq(tt)
<1>1. PICK f : Upto(T, ss, f) /\ FlattenSeq(ss) = f[Len(ss)]
  BY FlattenAt
<1>2. PICK g : Upto(T, tt, g) /\ FlattenSeq(tt) = g[Len(tt)]
  BY FlattenAt
<1> DEFINE n == Len(ss)
           m == Len(tt)
           uu == ss \o tt
           a  == f[n]
           h == [k \in 0 .. n + m |-> IF k <= n THEN f[k] ELSE a \o g[k - n]]
<1>3. n \in Nat /\ m \in Nat
  OBVIOUS
<1>4. /\ uu \in Seq(Seq(T)) /\ Len(uu) = n + m
      /\ \A k \in 1 .. n : uu[k] = ss[k]
      /\ \A k \in 1 .. m : uu[n + k] = tt[k]
  <2> DEFINE S == Seq(T)
  <2>1. ss \in Seq(S) /\ tt \in Seq(S)
    OBVIOUS
  <2> HIDE DEF S
  <2>2. /\ uu \in Seq(S) /\ Len(uu) = n + m
        /\ \A k \in 1 .. n : uu[k] = ss[k]
        /\ \A k \in 1 .. m : uu[n + k] = tt[k]
    BY <2>1, JoinIs
  <2> QED BY <2>2 DEF S
<1>5. /\ \A k \in 0 .. n : f[k] \in Seq(T)
      /\ \A k \in 0 .. m : g[k] \in Seq(T)
      /\ a \in Seq(T) /\ f[0] = <<>> /\ g[0] = <<>>
  <2>1. f \in [0 .. n -> Seq(T)] /\ g \in [0 .. m -> Seq(T)] /\ f[0] = <<>> /\ g[0] = <<>>
    BY <1>1, <1>2 DEF Upto
  <2>2. n \in 0 .. n
    BY <1>3
  <2> QED BY <2>1, <2>2
<1>6. /\ \A k \in 1 .. n : f[k] = f[k - 1] \o ss[k]
      /\ \A k \in 1 .. m : g[k] = g[k - 1] \o tt[k]
  BY <1>1, <1>2 DEF Upto
<1>7. \A k \in 1 .. m : tt[k] \in Seq(T)
  OBVIOUS
<1> HIDE DEF n, m, uu, a
<1>8. \A k \in 0 .. n + m : h[k] \in Seq(T)
  <2> TAKE k \in 0 .. n + m
  <2>1. CASE k <= n
    BY <2>1, <1>3, <1>5
  <2>2. CASE ~(k <= n)
    <3>1. k - n \in 0 .. m
      BY <2>2, <1>3
    <3> DEFINE b == g[k - n]
    <3>2. b \in Seq(T) /\ h[k] = a \o b
      BY <3>1, <2>2, <1>5
    <3> HIDE DEF b, h
    <3> QED BY <3>2, <1>5
  <2> QED BY <2>1, <2>2
<1>9. h[0] = <<>> /\ h[n + m] = a \o g[m]
  <2>1. h[0] = f[0]
    BY <1>3
  <2>2. CASE m = 0
    <3>1. n + m = n /\ n \in 0 .. n + m /\ n <= n
      BY <2>2, <1>3
    <3>2. h[n + m] = a
      BY <3>1 DEF a
    <3>3. g[m] = <<>> /\ a \o <<>> = a
      BY <2>2, <1>5
    <3> QED BY <2>1, <3>2, <3>3, <1>5
  <2>3. CASE m # 0
    <3>1. ~(n + m <= n) /\ n + m \in 0 .. n + m /\ (n + m) - n = m
      BY <2>3, <1>3
    <3> QED BY <2>1, <3>1, <1>5
  <2> QED BY <2>2, <2>3
<1>10. ASSUME NEW k \in 1 .. n + m PROVE h[k] = h[k - 1] \o uu[k]
  <2>1. CASE k <= n
    <3>1. k \in 1 .. n /\ k \in 0 .. n + m /\ k - 1 \in 0 .. n + m /\ k - 1 <= n
      BY <2>1, <1>3
    <3>2. h[k] = f[k] /\ h[k - 1] = f[k - 1]
      BY <3>1
    <3>3. uu[k] = ss[k] /\ f[k] = f[k - 1] \o ss[k]
      BY <3>1, <1>4, <1>6
    <3> QED BY <3>2, <3>3
  <2>2. CASE ~(k <= n)
    <3> DEFINE j == k - n
    <3>1. j \in 1 .. m /\ k = n + j /\ j - 1 \in 0 .. m /\ k \in 0 .. n + m /\ k - 1 \in 0 .. n + m
          /\ (k - 1) - n = j - 1
      BY <2>2, <1>3
    <3>2. h[k] = a \o g[j]
      BY <3>1, <2>2
    <3>3. h[k - 1] = a \o g[j - 1]
      <4>1. CASE k - 1 <= n
        <5>1. k - 1 = n /\ j - 1 = 0
          BY <4>1, <2>2, <1>3
        <5>2. h[k - 1] = f[n] /\ g[j - 1] = <<>>
          BY <3>1, <4>1, <5>1, <1>5
        <5>3. a \o <<>> = a
          BY <1>5
        <5> QED BY <5>2, <5>3 DEF a
      <4>2. CASE ~(k - 1 <= n)
        BY <3>1, <4>2
      <4> QED BY <4>1, <4>2
    <3> HIDE DEF j, h
    <3>4. uu[k] = tt[j] /\ g[j] = g[j - 1] \o tt[j]
      BY <3>1, <1>4, <1>6
    <3> DEFINE p == g[j - 1]
               q == tt[j]
    <3>5. p \in Seq(T) /\ q \in Seq(T)
      BY <3>1, <1>5, <1>7
    <3>6. h[k] = a \o (p \o q) /\ h[k - 1] = a \o p /\ uu[k] = q
      BY <3>2, <3>3, <3>4
    <3> HIDE DEF p, q
    <3>7. a \o (p \o q) = (a \o p) \o q
      BY <3>5, <1>5
    <3> QED BY <3>6, <3>7
  <2> QED BY <2>1, <2>2
<1>11. h \in [0 .. n + m -> Seq(T)]
  BY <1>8
<1> HIDE DEF h
<1>12. Upto(T, uu, h)
  BY <1>4, <1>9, <1>10, <1>11 DEF Upto
<1>13. FlattenSeq(uu) = h[n + m]
  BY <1>4, <1>12, FlattenUnique
<1> QED BY <1>1, <1>2, <1>9, <1>13 DEF uu, a, n, m

(* One part is the whole.                                                  *)
LEMMA FlattenOne ==
  ASSUME NEW T, NEW s \in Seq(T)
  PROVE  FlattenSeq(<<s>>) = s
<1> DEFINE ss == <<s>>
           none == <<>>
           f  == [k \in 0 .. 1 |-> IF k = 0 THEN none ELSE s]
<1>1. ss \in Seq(Seq(T)) /\ Len(ss) = 1 /\ ss[1] = s
  OBVIOUS
<1>2. none \in Seq(T) /\ none \o s = s
  OBVIOUS
<1>3. f[0] = none /\ f[1] = s /\ f \in [0 .. 1 -> Seq(T)]
  BY <1>2
<1> HIDE DEF ss, f
<1>4. \A k \in 1 .. 1 : f[k] = f[k - 1] \o ss[k]
  BY <1>1, <1>2, <1>3
<1>5. Upto(T, ss, f)
  BY <1>1, <1>3, <1>4 DEF Upto, none
<1>6. FlattenSeq(ss) = f[Len(ss)]
  BY <1>1, <1>5, FlattenUnique
<1> QED BY <1>1, <1>3, <1>6 DEF ss

(* Every place of the whole is a place of a part.                          *)
Covers(s, ss, f, p) ==
  \E k \in 1 .. Len(ss) : \E m \in 1 .. Len(ss[k]) : p = Len(f[k - 1]) + m /\ s[p] = ss[k][m]

(* The parts leave no place of the whole out.                              *)
LEMMA FlattenCover ==
  ASSUME NEW T, NEW ss \in Seq(Seq(T)), NEW f, Upto(T, ss, f), PartsOf(FlattenSeq(ss), ss, f),
         FlattenSeq(ss) = f[Len(ss)]
  PROVE  \A p \in 1 .. Len(FlattenSeq(ss)) : Covers(FlattenSeq(ss), ss, f, p)
<1> SUFFICES ASSUME NEW p \in 1 .. Len(FlattenSeq(ss))
             PROVE  Covers(FlattenSeq(ss), ss, f, p)
  OBVIOUS
<1> DEFINE n == Len(ss)
           s == FlattenSeq(ss)
           Hit == \E k \in 1 .. n : \E m \in 1 .. Len(ss[k]) : p = Len(f[k - 1]) + m /\ s[p] = ss[k][m]
           Far == {k \in 0 .. n : Len(f[k]) < p}
<1>1. n \in Nat /\ Len(s) \in Nat /\ s \in Seq(T)
  <2>1. s \in Seq(T)
    BY FlattenAt
  <2> QED BY <2>1, LenProperties
<1> SUFFICES ASSUME ~Hit PROVE FALSE
  BY DEF Covers
<1>2. /\ Len(f[0]) = 0 /\ Len(f[n]) = Len(s)
      /\ \A k \in 0 .. n : Len(f[k]) \in 0 .. Len(s)
      /\ \A k \in 1 .. n : /\ Len(f[k]) = Len(f[k - 1]) + Len(ss[k])
                           /\ \A m \in 1 .. Len(ss[k]) : s[Len(f[k - 1]) + m] = ss[k][m]
  BY DEF Upto, PartsOf
<1>3. 0 \in Far
  BY <1>1, <1>2
<1>4. ASSUME NEW k \in 0 .. n - 1, k \in Far PROVE k + 1 \in Far
  <2> DEFINE i == k + 1
  <2>1. i \in 1 .. n /\ i - 1 = k /\ i \in 0 .. n
    BY <1>1
  <2> HIDE DEF i
  <2>2. /\ Len(f[i]) = Len(f[i - 1]) + Len(ss[i])
        /\ \A m \in 1 .. Len(ss[i]) : s[Len(f[i - 1]) + m] = ss[i][m]
    BY <2>1, <1>2
  <2> DEFINE a == Len(f[k])
             b == Len(ss[i])
             c == Len(f[i])
  <2>3. a \in Nat /\ a < p /\ c = a + b /\ c \in Nat /\ b \in Nat /\ p \in Nat
    <3>1. k \in 0 .. n
      BY <1>1
    <3>2. a \in 0 .. Len(s) /\ c \in 0 .. Len(s)
      BY <3>1, <2>1, <1>2
    <3>3. c = a + b
      BY <2>1, <2>2
    <3>4. a < p
      BY <1>4
    <3>5. b \in Nat
      <4>1. ss[i] \in Seq(T)
        BY <2>1
      <4> QED BY <4>1, LenProperties
    <3>6. Len(s) \in Nat /\ p \in 1 .. Len(s)
      BY <1>1
    <3> HIDE DEF a, b, c, s
    <3> QED BY <3>2, <3>4, <3>5, <3>3, <3>6
  <2>4. ASSUME p <= c PROVE FALSE
    <3>1. p - a \in 1 .. b /\ p = a + (p - a)
      <4> HIDE DEF a, b, c
      <4> QED BY <2>3, <2>4
    <3>2. s[a + (p - a)] = ss[i][p - a]
      BY <3>1, <2>1, <2>2
    <3>3. Hit
      BY <3>1, <3>2, <2>1
    <3> QED BY <3>3
  <2>5. c < p
    <3> HIDE DEF a, b, c
    <3> QED BY <2>3, <2>4
  <2> QED BY <2>1, <2>5 DEF i
<1> HIDE DEF Far, Hit
<1>5. n \in Far
  <2>1. \A k \in 0 .. n : k \in Far
    BY <1>1, <1>3, <1>4, Upward
  <2> QED BY <2>1, <1>1
<1>6. Len(s) < p
  BY <1>2, <1>5 DEF Far
<1> QED BY <1>6, <1>1

(* What is in sequences put together is in one of them.                    *)
LEMMA FlattenIn ==
  ASSUME NEW T, NEW ss \in Seq(Seq(T)), NEW c \in ToSet(FlattenSeq(ss))
  PROVE  \E k \in 1 .. Len(ss) : ss[k] \in Seq(T) /\ c \in ToSet(ss[k])
<1> DEFINE s == FlattenSeq(ss)
<1>1. PICK f : Upto(T, ss, f) /\ s = f[Len(ss)] /\ PartsOf(s, ss, f)
  BY FlattenAt
<1>2. s \in Seq(T)
  BY FlattenAt
<1>3. PICK p \in 1 .. Len(s) : s[p] = c
  <2>1. DOMAIN s = 1 .. Len(s)
    BY <1>2
  <2> QED BY <2>1 DEF ToSet
<1>4. PICK k \in 1 .. Len(ss) : \E m \in 1 .. Len(ss[k]) : p = Len(f[k - 1]) + m /\ s[p] = ss[k][m]
  <2>1. \A i \in 1 .. Len(s) : Covers(s, ss, f, i)
    BY <1>1, FlattenCover
  <2> QED BY <2>1 DEF Covers
<1>5. ss[k] \in Seq(T)
  BY <1>4
<1>6. DOMAIN ss[k] = 1 .. Len(ss[k])
  BY <1>5
<1>7. PICK m \in 1 .. Len(ss[k]) : c = ss[k][m]
  BY <1>3, <1>4
<1>8. c \in ToSet(ss[k])
  <2> DEFINE u == ss[k]
  <2>1. m \in DOMAIN u /\ c = u[m]
    BY <1>6, <1>7
  <2> HIDE DEF u
  <2>2. c \in ToSet(u)
    BY <2>1 DEF ToSet
  <2> QED BY <2>2 DEF u

<1> QED BY <1>5, <1>8

-----------------------------------------------------------------------------
(* A column, from the value to the token and back                          *)

(* A column that was written; its characters, with e for its delimiter and *)
(* q for a quote where these are not empty.                                *)
Cell == [value : Text, delimiter : Letters, by : {"string", "other"}]

Part(w, c, e, q) ==
  IF c = w.delimiter /\ e # <<>> THEN e ELSE IF c = Quote /\ q # <<>> THEN q ELSE <<c>>
Parts(w, e, q) == [i \in 1 .. Len(w.value) |-> Part(w, w.value[i], e, q)]
Around(ss) == (<< <<Quote>> >> \o ss) \o << <<Quote>> >>
InQuotes(s) == (<<Quote>> \o s) \o <<Quote>>

(* Letters and the texts that the constants give.                          *)
LEMMA LetterTexts ==
  /\ <<>> \in Text /\ \A c \in Letters : <<c>> \in Text /\ Len(<<c>>) = 1 /\ <<c>>[1] = c
  /\ \A c \in Letters : <<c>> # <<>> /\ ToSet(<<c>>) = {c}
  /\ Quote \in Letters /\ NL \in Letters /\ "CR" \in Letters
  /\ QuoteEscape \in Text /\ QuoteEscape # <<>> /\ QuoteEscape[1] \in Letters
  /\ QuoteEscape[1] \in ToSet(QuoteEscape) /\ Quote \notin ToSet(QuoteEscape)
  /\ NL \notin ToSet(QuoteEscape) /\ "CR" \notin ToSet(QuoteEscape)
<1>1. <<>> \in Text /\ \A c \in Letters : <<c>> \in Text /\ Len(<<c>>) = 1 /\ <<c>>[1] = c
  BY DEF Text
<1>2. \A c \in Letters : <<c>> # <<>> /\ ToSet(<<c>>) = {c}
  <2> TAKE c \in Letters
  <2>1. Len(<<c>>) = 1 /\ <<c>>[1] = c /\ Len(<<>>) = 0 /\ DOMAIN <<c>> = {1}
    OBVIOUS
  <2> QED BY <2>1 DEF ToSet
<1>3. Quote \in Letters /\ NL \in Letters /\ "CR" \in Letters
  BY MiniCsvConstants
<1>4. QuoteEscape \in Text /\ QuoteEscape # <<>> /\ ToSet(QuoteEscape) \cap {Quote, NL, "CR"} = {}
  BY MiniCsvConstants
<1>5. 1 \in DOMAIN QuoteEscape /\ QuoteEscape[1] \in Letters
  BY <1>4 DEF Text
<1>6. QuoteEscape[1] \in ToSet(QuoteEscape)
  BY <1>5 DEF ToSet
<1> QED BY <1>1, <1>2, <1>3, <1>4, <1>5, <1>6

(* The parts of a column and what they are made of.                        *)
LEMMA PartsType ==
  ASSUME NEW w \in Cell, NEW e \in Text, NEW q \in Text
  PROVE  /\ w.value \in Text /\ w.delimiter \in Letters /\ Len(w.value) \in Nat
         /\ \A i \in 1 .. Len(w.value) : w.value[i] \in Letters /\ w.value[i] \in ToSet(w.value)
         /\ Parts(w, e, q) \in Seq(Text) /\ Len(Parts(w, e, q)) = Len(w.value)
         /\ \A i \in 1 .. Len(w.value) :
              /\ Parts(w, e, q)[i] = Part(w, w.value[i], e, q)
              /\ Part(w, w.value[i], e, q) \in Text
         /\ FlattenSeq(Parts(w, e, q)) \in Text
<1>1. w.value \in Text /\ w.delimiter \in Letters /\ Len(w.value) \in Nat
      /\ \A i \in 1 .. Len(w.value) : w.value[i] \in Letters
  BY DEF Cell, Text
<1>2. \A i \in 1 .. Len(w.value) : w.value[i] \in ToSet(w.value)
  BY <1>1 DEF ToSet, Text
<1>3. \A i \in 1 .. Len(w.value) : Part(w, w.value[i], e, q) \in Text
  BY <1>1, LetterTexts DEF Part
<1>4. Parts(w, e, q) \in [1 .. Len(w.value) -> Text]
  BY <1>3 DEF Parts
<1>5. Parts(w, e, q) \in Seq(Text) /\ Len(Parts(w, e, q)) = Len(w.value)
  <2> DEFINE p == Parts(w, e, q)
             n == Len(w.value)
  <2>1. p \in [1 .. n -> Text] /\ n \in Nat
    BY <1>1, <1>4
  <2> HIDE DEF p, n
  <2>2. p \in Seq(Text) /\ Len(p) = n
    BY <2>1
  <2> QED BY <2>2 DEF p, n
<1>6. FlattenSeq(Parts(w, e, q)) \in Text
  <2> DEFINE p == Parts(w, e, q)
  <2>1. p \in Seq(Seq(Letters))
    BY <1>5 DEF Text
  <2> HIDE DEF p
  <2>2. FlattenSeq(p) \in Seq(Letters)
    BY <2>1, FlattenAt
  <2> QED BY <2>2 DEF p, Text
<1>7. \A i \in 1 .. Len(w.value) : Parts(w, e, q)[i] = Part(w, w.value[i], e, q)
  BY DEF Parts
<1> QED BY <1>1, <1>2, <1>3, <1>5, <1>6, <1>7

(* replace() on a text that is cut into parts, for the texts of this file. *)
LEMMA ReplaceText ==
  ASSUME NEW ss \in Seq(Text), NEW tt \in Seq(Text), Len(ss) = Len(tt),
         NEW find \in Text, NEW by \in Text, find # <<>>,
         \A i \in 1 .. Len(ss) : \/ ss[i] = find /\ tt[i] = by
                                 \/ find[1] \notin ToSet(ss[i]) /\ tt[i] = ss[i]
  PROVE  Replace(FlattenSeq(ss), find, by) = FlattenSeq(tt)
  BY ReplaceParts DEF Text

(* With nothing escaped the parts are the value.                           *)
LEMMA PlainParts ==
  ASSUME NEW w \in Cell
  PROVE  FlattenSeq(Parts(w, <<>>, <<>>)) = w.value
<1> DEFINE v == w.value
           n == Len(v)
           ss == Parts(w, <<>>, <<>>)
           f == [k \in 0 .. n |-> SubSeq(v, 1, k)]
<1>1. /\ v \in Seq(Letters) /\ n \in Nat /\ ss \in Seq(Seq(Letters)) /\ Len(ss) = n
      /\ \A i \in 1 .. n : v[i] \in Letters /\ ss[i] = Part(w, v[i], <<>>, <<>>)
  <2>1. /\ v \in Text /\ n \in Nat /\ ss \in Seq(Text) /\ Len(ss) = n
        /\ \A i \in 1 .. n : v[i] \in Letters /\ ss[i] = Part(w, v[i], <<>>, <<>>)
    BY PartsType, LetterTexts
  <2> HIDE DEF v, n, ss
  <2> QED BY <2>1 DEF Text
<1>2. \A i \in 1 .. n : ss[i] = <<v[i]>>
  BY <1>1 DEF Part
<1> HIDE DEF v, n, ss
<1>3. \A k \in 0 .. n : SubSeq(v, 1, k) \in Seq(Letters)
  BY <1>1
<1>4. f \in [0 .. n -> Seq(Letters)] /\ f[0] = <<>> /\ f[n] = v
  <2>1. SubSeq(v, 1, 0) = <<>> /\ SubSeq(v, 1, n) = v /\ 0 \in 0 .. n /\ n \in 0 .. n
    BY <1>1 DEF n
  <2> QED BY <2>1, <1>3
<1>5. ASSUME NEW k \in 1 .. n PROVE f[k] = f[k - 1] \o ss[k]
  <2>1. f[k] = SubSeq(v, 1, k) /\ f[k - 1] = SubSeq(v, 1, k - 1) /\ ss[k] = <<v[k]>>
    <3>1. k \in 0 .. n /\ k - 1 \in 0 .. n
      BY <1>1
    <3> QED BY <3>1, <1>2
  <2>2. SubSeq(v, 1, k) = SubSeq(v, 1, k - 1) \o <<v[k]>>
    <3> DEFINE m == k - 1
               none == <<>>
    <3>1. m \in 0 .. Len(v) /\ m + 1 \in 1 .. Len(v) /\ none \in Seq(Letters) /\ m + 1 = k
      BY <1>1 DEF n
    <3> HIDE DEF m, none
    <3>2. Append(none \o SubSeq(v, 1, m), v[m + 1]) = none \o SubSeq(v, 1, m + 1)
      BY <3>1, <1>1, JoinPart
    <3> DEFINE p == SubSeq(v, 1, m)
               r == SubSeq(v, 1, m + 1)
    <3>3. p \in Seq(Letters) /\ r \in Seq(Letters) /\ v[m + 1] \in Letters
      BY <3>1, <1>1 DEF n
    <3> HIDE DEF p, r
    <3>4. none \o p = p /\ none \o r = r
      BY <3>3 DEF none
    <3>5. Append(p, v[m + 1]) = r
      BY <3>2, <3>4 DEF p, r
    <3>6. Append(p, v[m + 1]) = p \o <<v[m + 1]>>
      BY <3>3
    <3>7. k - 1 = m
      BY <3>1 DEF m
    <3> QED BY <3>1, <3>5, <3>6, <3>7 DEF p, r
  <2> QED BY <2>1, <2>2
<1> HIDE DEF f
<1>6. Upto(Letters, ss, f)
  BY <1>1, <1>4, <1>5 DEF Upto
<1>7. FlattenSeq(ss) = f[Len(ss)]
  BY <1>1, <1>6, FlattenUnique
<1> QED BY <1>1, <1>4, <1>7 DEF ss, v

(* The delimiter of a column becomes the escape.                           *)
LEMMA EscapeParts ==
  ASSUME NEW w \in Cell, NEW e \in Text, e # <<>>
  PROVE  Replace(w.value, <<w.delimiter>>, e) = FlattenSeq(Parts(w, e, <<>>))
<1> DEFINE d  == w.delimiter
           n  == Len(w.value)
           ss == Parts(w, <<>>, <<>>)
           tt == Parts(w, e, <<>>)
           o  == <<d>>
<1>1. /\ ss \in Seq(Text) /\ tt \in Seq(Text) /\ Len(ss) = n /\ Len(tt) = n
      /\ \A i \in 1 .. n : /\ w.value[i] \in Letters
                           /\ ss[i] = Part(w, w.value[i], <<>>, <<>>)
                           /\ tt[i] = Part(w, w.value[i], e, <<>>)
  BY PartsType, LetterTexts
<1>2. o \in Text /\ o # <<>> /\ o[1] = d
  BY PartsType, LetterTexts
<1>3. ASSUME NEW i \in 1 .. n
      PROVE  \/ ss[i] = o /\ tt[i] = e
             \/ o[1] \notin ToSet(ss[i]) /\ tt[i] = ss[i]
  <2>1. ss[i] = <<w.value[i]>> /\ tt[i] = IF w.value[i] = d THEN e ELSE <<w.value[i]>>
    BY <1>1 DEF Part
  <2>2. ToSet(<<w.value[i]>>) = {w.value[i]}
    BY <1>1, LetterTexts
  <2> QED BY <2>1, <2>2, <1>2
<1> HIDE DEF ss, tt, o, n
<1>4. Replace(FlattenSeq(ss), o, e) = FlattenSeq(tt)
  <2>1. /\ Len(ss) = Len(tt)
        /\ \A i \in 1 .. Len(ss) : \/ ss[i] = o /\ tt[i] = e
                                   \/ o[1] \notin ToSet(ss[i]) /\ tt[i] = ss[i]
    BY <1>1, <1>3
  <2>2. ss \in Seq(Text) /\ tt \in Seq(Text)
    BY <1>1
  <2> QED BY <2>1, <2>2, <1>2, ReplaceText
<1> QED BY <1>4, PlainParts DEF ss, tt, o

(* A quote becomes its escape, in a text whose delimiters are escaped.     *)
LEMMA QuoteParts ==
  ASSUME NEW w \in Cell, NEW e \in Text, NEW q \in Text, q # <<>>,
         Quote \notin ToSet(e), w.delimiter # Quote
  PROVE  Replace(FlattenSeq(Parts(w, e, <<>>)), <<Quote>>, q) = FlattenSeq(Parts(w, e, q))
<1> DEFINE n  == Len(w.value)
           ss == Parts(w, e, <<>>)
           tt == Parts(w, e, q)
           o  == <<Quote>>
<1>1. /\ ss \in Seq(Text) /\ tt \in Seq(Text) /\ Len(ss) = n /\ Len(tt) = n
      /\ \A i \in 1 .. n : /\ w.value[i] \in Letters
                           /\ ss[i] = Part(w, w.value[i], e, <<>>)
                           /\ tt[i] = Part(w, w.value[i], e, q)
  BY PartsType, LetterTexts
<1>2. o \in Text /\ o # <<>> /\ o[1] = Quote
  BY LetterTexts
<1>3. ASSUME NEW i \in 1 .. n
      PROVE  \/ ss[i] = o /\ tt[i] = q
             \/ o[1] \notin ToSet(ss[i]) /\ tt[i] = ss[i]
  <2>1. ToSet(<<w.value[i]>>) = {w.value[i]}
    BY <1>1, LetterTexts
  <2> QED BY <2>1, <1>1, <1>2 DEF Part
<1> HIDE DEF ss, tt, o, n
<1>4. Replace(FlattenSeq(ss), o, q) = FlattenSeq(tt)
  <2>1. /\ Len(ss) = Len(tt)
        /\ \A i \in 1 .. Len(ss) : \/ ss[i] = o /\ tt[i] = q
                                   \/ o[1] \notin ToSet(ss[i]) /\ tt[i] = ss[i]
    BY <1>1, <1>3
  <2>2. ss \in Seq(Text) /\ tt \in Seq(Text)
    BY <1>1
  <2> QED BY <2>1, <2>2, <1>2, ReplaceText
<1> QED BY <1>4 DEF ss, tt, o

(* A text in quotes.                                                       *)
LEMMA InQuotesIs ==
  ASSUME NEW s \in Text
  PROVE  LET t == InQuotes(s)
         IN  /\ t \in Text /\ Len(t) = Len(s) + 2 /\ Len(s) \in Nat
             /\ t[1] = Quote /\ t[Len(s) + 2] = Quote
             /\ \A i \in 1 .. Len(s) : t[i + 1] = s[i]
             /\ SubSeq(t, 2, Len(s) + 1) = s
<1> DEFINE o == <<Quote>>
           p == o \o s
           t == p \o o
           n == Len(s)
<1>1. o \in Seq(Letters) /\ Len(o) = 1 /\ o[1] = Quote /\ s \in Seq(Letters) /\ n \in Nat
  BY LetterTexts DEF Text
<1> HIDE DEF o
<1>2. /\ p \in Seq(Letters) /\ Len(p) = n + 1 /\ p[1] = Quote
      /\ \A i \in 1 .. n : p[1 + i] = s[i]
  <2>1. /\ p \in Seq(Letters) /\ Len(p) = Len(o) + n
        /\ \A i \in 1 .. Len(o) : p[i] = o[i]
        /\ \A i \in 1 .. n : p[Len(o) + i] = s[i]
    BY <1>1, JoinIs
  <2> QED BY <2>1, <1>1
<1> HIDE DEF p
<1>3. /\ t \in Seq(Letters) /\ Len(t) = n + 2 /\ t[n + 2] = Quote
      /\ \A i \in 1 .. n + 1 : t[i] = p[i]
  <2>1. /\ t \in Seq(Letters) /\ Len(t) = Len(p) + Len(o)
        /\ \A i \in 1 .. Len(p) : t[i] = p[i]
        /\ \A i \in 1 .. Len(o) : t[Len(p) + i] = o[i]
    <3>1. p \in Seq(Letters) /\ o \in Seq(Letters)
      BY <1>1, <1>2
    <3> QED BY <3>1, JoinIs
  <2>2. Len(p) + 1 = n + 2 /\ 1 \in 1 .. Len(o)
    BY <1>1, <1>2
  <2> QED BY <2>1, <2>2, <1>1, <1>2
<1> HIDE DEF t
<1>4. t[1] = Quote /\ \A i \in 1 .. n : t[i + 1] = s[i]
  <2>1. 1 \in 1 .. n + 1 /\ \A i \in 1 .. n : i + 1 \in 1 .. n + 1 /\ 1 + i = i + 1
    BY <1>1
  <2> QED BY <2>1, <1>2, <1>3
<1>5. SubSeq(t, 2, n + 1) = s
  <2> DEFINE c == SubSeq(t, 2, n + 1)
  <2>1. c \in Seq(Letters) /\ Len(c) = n /\ \A j \in 1 .. n : c[j] = t[j + 1]
    BY <1>1, <1>3
  <2> HIDE DEF c
  <2>2. \A j \in 1 .. Len(c) : c[j] = s[j]
    BY <2>1, <1>4
  <2>3. c = s
    BY <2>1, <2>2, <1>1, SameSequence
  <2> QED BY <2>3 DEF c
<1>6. t = InQuotes(s)
  BY DEF t, p, o, InQuotes
<1> HIDE DEF n
<1>7. /\ t \in Text /\ Len(t) = n + 2 /\ n \in Nat
      /\ t[1] = Quote /\ t[n + 2] = Quote
      /\ \A i \in 1 .. n : t[i + 1] = s[i]
      /\ SubSeq(t, 2, n + 1) = s
  BY <1>1, <1>3, <1>4, <1>5 DEF Text
<1> QED BY <1>6, <1>7 DEF n

(* The same as parts.                                                      *)
LEMMA AroundIs ==
  ASSUME NEW ss \in Seq(Text)
  PROVE  /\ Around(ss) \in Seq(Text) /\ Len(Around(ss)) = Len(ss) + 2
         /\ Around(ss)[1] = <<Quote>> /\ Around(ss)[Len(ss) + 2] = <<Quote>>
         /\ \A i \in 1 .. Len(ss) : Around(ss)[i + 1] = ss[i]
         /\ FlattenSeq(Around(ss)) = InQuotes(FlattenSeq(ss))
<1> DEFINE q == <<Quote>>
           o == <<q>>
           n == Len(ss)
           p == o \o ss
           t == p \o o
<1>1. q \in Text /\ n \in Nat
  BY LetterTexts
<1> HIDE DEF q
<1>2. o \in Seq(Text) /\ Len(o) = 1 /\ o[1] = q
  BY <1>1
<1>3. FlattenSeq(o) = q
  BY <1>1, FlattenOne DEF Text
<1> HIDE DEF o
<1>4. /\ p \in Seq(Text) /\ Len(p) = n + 1 /\ p[1] = q
      /\ \A i \in 1 .. n : p[1 + i] = ss[i]
  <2>1. /\ p \in Seq(Text) /\ Len(p) = Len(o) + n
        /\ \A i \in 1 .. Len(o) : p[i] = o[i]
        /\ \A i \in 1 .. n : p[Len(o) + i] = ss[i]
    <3>1. o \in Seq(Text)
      BY <1>2
    <3> QED BY <3>1, JoinIs
  <2> QED BY <2>1, <1>1, <1>2
<1>5. FlattenSeq(p) = q \o FlattenSeq(ss)
  BY <1>2, <1>3, FlattenConcat DEF Text
<1> HIDE DEF p
<1>6. /\ t \in Seq(Text) /\ Len(t) = n + 2 /\ t[n + 2] = q
      /\ \A i \in 1 .. n + 1 : t[i] = p[i]
  <2>1. /\ t \in Seq(Text) /\ Len(t) = Len(p) + Len(o)
        /\ \A i \in 1 .. Len(p) : t[i] = p[i]
        /\ \A i \in 1 .. Len(o) : t[Len(p) + i] = o[i]
    <3>1. p \in Seq(Text) /\ o \in Seq(Text)
      BY <1>2, <1>4
    <3> QED BY <3>1, JoinIs
  <2>2. Len(p) + 1 = n + 2 /\ 1 \in 1 .. Len(o)
    BY <1>1, <1>2, <1>4
  <2>3. Len(t) = n + 2
    BY <2>1, <1>1, <1>2, <1>4
  <2>4. t[n + 2] = q
    BY <2>1, <2>2, <1>2
  <2>5. \A i \in 1 .. n + 1 : t[i] = p[i]
    BY <2>1, <1>4
  <2> QED BY <2>1, <2>3, <2>4, <2>5
<1>7. FlattenSeq(t) = (q \o FlattenSeq(ss)) \o q
  <2>1. p \in Seq(Text) /\ o \in Seq(Text)
    BY <1>2, <1>4
  <2>2. FlattenSeq(p \o o) = FlattenSeq(p) \o FlattenSeq(o)
    BY <2>1, FlattenConcat DEF Text
  <2> QED BY <2>2, <1>3, <1>5
<1> HIDE DEF t
<1>8. t[1] = q /\ \A i \in 1 .. n : t[i + 1] = ss[i]
  <2>1. 1 \in 1 .. n + 1 /\ \A i \in 1 .. n : i + 1 \in 1 .. n + 1 /\ 1 + i = i + 1
    BY <1>1
  <2> QED BY <2>1, <1>4, <1>6
<1>9. t = Around(ss)
  BY DEF t, p, o, q, Around
<1>10. FlattenSeq(t) = InQuotes(FlattenSeq(ss))
  BY <1>7 DEF InQuotes, q
<1> QED BY <1>6, <1>8, <1>9, <1>10 DEF q

(* replace() leaves alone what it does not find.                           *)
LEMMA NothingFound ==
  ASSUME NEW s \in Text, NEW find \in Text, NEW by \in Text, find # <<>>, find[1] \notin ToSet(s)
  PROVE  Replace(s, find, by) = s
<1> DEFINE ss == <<s>>
<1>1. ss \in Seq(Text) /\ Len(ss) = 1 /\ ss[1] = s
  OBVIOUS
<1>2. FlattenSeq(ss) = s
  BY FlattenOne DEF Text
<1> HIDE DEF ss
<1>3. \A i \in 1 .. Len(ss) : ss[i] = s
  BY <1>1
<1>4. Replace(FlattenSeq(ss), find, by) = FlattenSeq(ss)
  BY <1>1, <1>3, ReplaceText
<1> QED BY <1>2, <1>4

(* The escape becomes the delimiter again, within quotes and without.      *)
LEMMA UnescapeParts ==
  ASSUME NEW w \in Cell, NEW e \in Text, NEW q \in Text, NEW d \in Letters, e # <<>>,
         d = w.delimiter \/ w.delimiter \notin ToSet(w.value), w.delimiter # Quote,
         e[1] \notin ToSet(w.value), e[1] \notin ToSet(q), e[1] # Quote
  PROVE  /\ Replace(FlattenSeq(Parts(w, e, q)), e, <<d>>) = FlattenSeq(Parts(w, <<>>, q))
         /\ Replace(InQuotes(FlattenSeq(Parts(w, e, q))), e, <<d>>) =
              InQuotes(FlattenSeq(Parts(w, <<>>, q)))
<1> DEFINE n  == Len(w.value)
           ss == Parts(w, e, q)
           tt == Parts(w, <<>>, q)
           o  == <<d>>
           uu == Around(ss)
           vv == Around(tt)
<1>1. /\ ss \in Seq(Text) /\ tt \in Seq(Text) /\ Len(ss) = n /\ Len(tt) = n /\ n \in Nat
      /\ \A i \in 1 .. n : /\ w.value[i] \in Letters /\ w.value[i] \in ToSet(w.value)
                           /\ ss[i] = Part(w, w.value[i], e, q)
                           /\ tt[i] = Part(w, w.value[i], <<>>, q)
  BY PartsType, LetterTexts
<1>2. o \in Text
  BY LetterTexts
<1>3. ASSUME NEW i \in 1 .. n
      PROVE  \/ ss[i] = e /\ tt[i] = o
             \/ e[1] \notin ToSet(ss[i]) /\ tt[i] = ss[i]
  <2>1. ToSet(<<w.value[i]>>) = {w.value[i]} /\ w.value[i] \in ToSet(w.value)
    BY <1>1, LetterTexts
  <2>2. CASE w.value[i] = w.delimiter
    <3>1. d = w.delimiter
      BY <2>1, <2>2
    <3>2. ss[i] = e
      BY <1>1, <2>2 DEF Part
    <3>3. tt[i] = <<d>>
      BY <1>1, <2>2, <3>1 DEF Part
    <3> QED BY <3>2, <3>3
  <2>3. CASE w.value[i] # w.delimiter
    <3>1. tt[i] = ss[i] /\ (ss[i] = q \/ ss[i] = <<w.value[i]>>)
      BY <1>1, <2>3 DEF Part
    <3> QED BY <3>1, <2>1
  <2> QED BY <2>2, <2>3
<1> HIDE DEF ss, tt, o, n
<1>4. Replace(FlattenSeq(ss), e, o) = FlattenSeq(tt)
  <2>1. /\ Len(ss) = Len(tt)
        /\ \A i \in 1 .. Len(ss) : \/ ss[i] = e /\ tt[i] = o
                                   \/ e[1] \notin ToSet(ss[i]) /\ tt[i] = ss[i]
    BY <1>1, <1>3
  <2>2. ss \in Seq(Text) /\ tt \in Seq(Text) /\ e \in Text /\ o \in Text /\ e # <<>>
    BY <1>1, <1>2
  <2> QED BY <2>1, <2>2, ReplaceText
<1>5. /\ uu \in Seq(Text) /\ vv \in Seq(Text) /\ Len(uu) = n + 2 /\ Len(vv) = n + 2
      /\ uu[1] = <<Quote>> /\ vv[1] = <<Quote>> /\ uu[n + 2] = <<Quote>> /\ vv[n + 2] = <<Quote>>
      /\ \A i \in 1 .. n : uu[i + 1] = ss[i] /\ vv[i + 1] = tt[i]
      /\ FlattenSeq(uu) = InQuotes(FlattenSeq(ss))
      /\ FlattenSeq(vv) = InQuotes(FlattenSeq(tt))
  <2>1. ss \in Seq(Text) /\ tt \in Seq(Text) /\ Len(ss) = n /\ Len(tt) = n
    BY <1>1
  <2>2. /\ uu \in Seq(Text) /\ Len(uu) = n + 2
        /\ uu[1] = <<Quote>> /\ uu[n + 2] = <<Quote>>
        /\ \A i \in 1 .. n : uu[i + 1] = ss[i]
        /\ FlattenSeq(uu) = InQuotes(FlattenSeq(ss))
    BY <2>1, AroundIs
  <2>3. /\ vv \in Seq(Text) /\ Len(vv) = n + 2
        /\ vv[1] = <<Quote>> /\ vv[n + 2] = <<Quote>>
        /\ \A i \in 1 .. n : vv[i + 1] = tt[i]
        /\ FlattenSeq(vv) = InQuotes(FlattenSeq(tt))
    BY <2>1, AroundIs
  <2> QED BY <2>2, <2>3
<1> HIDE DEF uu, vv
<1>6. ASSUME NEW i \in 1 .. n + 2
      PROVE  \/ uu[i] = e /\ vv[i] = o
             \/ e[1] \notin ToSet(uu[i]) /\ vv[i] = uu[i]
  <2>1. ToSet(<<Quote>>) = {Quote}
    BY LetterTexts
  <2>2. CASE i = 1 \/ i = n + 2
    BY <2>1, <2>2, <1>5
  <2>3. CASE ~(i = 1 \/ i = n + 2)
    <3> DEFINE k == i - 1
    <3>1. k \in 1 .. n /\ k + 1 = i
      BY <2>3, <1>1
    <3> HIDE DEF k
    <3>2. uu[i] = ss[k] /\ vv[i] = tt[k]
      BY <3>1, <1>5
    <3> QED BY <3>1, <3>2, <1>3
  <2> QED BY <2>2, <2>3
<1>7. Replace(FlattenSeq(uu), e, o) = FlattenSeq(vv)
  <2>1. /\ Len(uu) = Len(vv)
        /\ \A i \in 1 .. Len(uu) : \/ uu[i] = e /\ vv[i] = o
                                   \/ e[1] \notin ToSet(uu[i]) /\ vv[i] = uu[i]
    BY <1>5, <1>6
  <2> QED BY <2>1, <1>5, <1>2, ReplaceText
<1> QED BY <1>4, <1>5, <1>7 DEF ss, tt, o

(* The escape of quotes becomes a quote again.                             *)
LEMMA QuoteBack ==
  ASSUME NEW w \in Cell, NEW q \in Text, q # <<>>, q[1] \notin ToSet(w.value)
  PROVE  Replace(FlattenSeq(Parts(w, <<>>, q)), q, <<Quote>>) = w.value
<1> DEFINE n  == Len(w.value)
           ss == Parts(w, <<>>, q)
           tt == Parts(w, <<>>, <<>>)
           o  == <<Quote>>
<1>1. /\ ss \in Seq(Text) /\ tt \in Seq(Text) /\ Len(ss) = n /\ Len(tt) = n
      /\ \A i \in 1 .. n : /\ w.value[i] \in Letters /\ w.value[i] \in ToSet(w.value)
                           /\ ss[i] = Part(w, w.value[i], <<>>, q)
                           /\ tt[i] = Part(w, w.value[i], <<>>, <<>>)
  BY PartsType, LetterTexts
<1>2. o \in Text
  BY LetterTexts
<1>3. ASSUME NEW i \in 1 .. n
      PROVE  \/ ss[i] = q /\ tt[i] = o
             \/ q[1] \notin ToSet(ss[i]) /\ tt[i] = ss[i]
  <2>1. ToSet(<<w.value[i]>>) = {w.value[i]} /\ w.value[i] \in ToSet(w.value)
    BY <1>1, LetterTexts
  <2> QED BY <2>1, <1>1 DEF Part
<1> HIDE DEF ss, tt, o, n
<1>4. Replace(FlattenSeq(ss), q, o) = FlattenSeq(tt)
  <2>1. /\ Len(ss) = Len(tt)
        /\ \A i \in 1 .. Len(ss) : \/ ss[i] = q /\ tt[i] = o
                                   \/ q[1] \notin ToSet(ss[i]) /\ tt[i] = ss[i]
    BY <1>1, <1>3
  <2>2. ss \in Seq(Text) /\ tt \in Seq(Text) /\ q \in Text /\ o \in Text /\ q # <<>>
    BY <1>1, <1>2
  <2> QED BY <2>1, <2>2, ReplaceText
<1> QED BY <1>4, PlainParts DEF ss, tt, o

JobOK == {job.escape, job.unescape, job.quote_escape} \subseteq Text /\ job.surround \in BOOLEAN

(* A column that comes back when it is read with delimiter d, if quotes    *)
(* around it are seen.                                                     *)
Comes(w, d) ==
  LET v == ToSet(w.value)  own == w.delimiter
  IN  /\ w \in Cell /\ d \in Letters
      /\ v \cap {NL, "CR", QuoteEscape[1]} = {} /\ (job.escape # <<>> => job.escape[1] \notin v)
      /\ own # Quote /\ d # Quote /\ own # NL /\ d # NL /\ own \notin ToSet(job.escape)
      /\ Quoted(w) =>
           /\ Quote \in v => job.quote_escape \in {QuoteEscape, <<Quote, Quote>>}
           /\ own # d /\ job.escape # <<>> => own \notin v
      /\ ~Quoted(w) =>
           /\ v # {} => w.value[1] # Quote
           /\ own \in v => job.escape # <<>>
           /\ own # d => v \cap {own, d} = {}

(* A column the caller was faithful with, read with the delimiter behind   *)
(* it, comes back.                                                         *)
LEMMA FaithfulComes ==
  ASSUME NEW line, NEW j, Faithful(line, j), line[j] \in Cell, Ahead(line, j) \in Letters
  PROVE  /\ Comes(line[j], Ahead(line, j))
         /\ Quoted(line[j]) /\ line[j].delimiter # Ahead(line, j) => j = 1
<1> DEFINE w == line[j]
           d == Ahead(line, j)
<1>1. /\ ToSet(w.value) \cap {NL, "CR", QuoteEscape[1]} = {}
      /\ job.escape # <<>> => job.escape[1] \notin ToSet(w.value)
      /\ {w.delimiter, d} \cap {Quote, NL} = {} /\ w.delimiter \notin ToSet(job.escape)
      /\ IF Quoted(w)
           THEN /\ Quote \in ToSet(w.value) => job.quote_escape \in {QuoteEscape, <<Quote, Quote>>}
                /\ w.delimiter # d => j = 1 /\ (job.escape # <<>> => w.delimiter \notin ToSet(w.value))
           ELSE /\ ToSet(w.value) # {} => w.value[1] # Quote
                /\ w.delimiter \in ToSet(w.value) => job.escape # <<>>
                /\ w.delimiter # d => ToSet(w.value) \cap {w.delimiter, d} = {}
  BY DEF Faithful
<1>2. w \in Cell /\ d \in Letters
  OBVIOUS
<1> HIDE DEF w, d
<1>3. Comes(w, d) /\ (Quoted(w) /\ w.delimiter # d => j = 1)
  BY <1>1, <1>2 DEF Comes
<1> QED BY <1>3 DEF w, d

(* What the characters of a text of parts are.                             *)
LEMMA PartsSet ==
  ASSUME NEW w \in Cell, NEW e \in Text, NEW q \in Text, w.delimiter # Quote,
         NEW c \in ToSet(FlattenSeq(Parts(w, e, q)))
  PROVE  \/ e # <<>> /\ c \in ToSet(e) /\ w.delimiter \in ToSet(w.value)
         \/ q # <<>> /\ c \in ToSet(q) /\ Quote \in ToSet(w.value)
         \/ /\ c \in ToSet(w.value) /\ (c = w.delimiter => e = <<>>)
            /\ c = Quote => q = <<>>
<1> DEFINE ss == Parts(w, e, q)
           s  == FlattenSeq(ss)
           n  == Len(w.value)
<1>1. /\ ss \in Seq(Text) /\ Len(ss) = n /\ n \in Nat /\ s \in Text
      /\ \A i \in 1 .. n : /\ w.value[i] \in Letters /\ w.value[i] \in ToSet(w.value)
                           /\ ss[i] = Part(w, w.value[i], e, q) /\ ss[i] \in Text
  BY PartsType
<1>2. PICK k \in 1 .. Len(ss) : ss[k] \in Seq(Letters) /\ c \in ToSet(ss[k])
  <2>1. ss \in Seq(Seq(Letters)) /\ c \in ToSet(FlattenSeq(ss))
    BY <1>1 DEF Text, ss
  <2> QED BY <2>1, FlattenIn
<1>3. k \in 1 .. n /\ ss[k] = Part(w, w.value[k], e, q) /\ ss[k] \in Text
      /\ w.value[k] \in Letters /\ w.value[k] \in ToSet(w.value)
  BY <1>1, <1>2
<1>4. c \in ToSet(ss[k])
  BY <1>2
<1>5. ToSet(<<w.value[k]>>) = {w.value[k]}
  BY <1>3, LetterTexts
<1>6. CASE w.value[k] = w.delimiter /\ e # <<>>
  BY <1>3, <1>4, <1>6 DEF Part
<1>7. CASE ~(w.value[k] = w.delimiter /\ e # <<>>) /\ w.value[k] = Quote /\ q # <<>>
  BY <1>3, <1>4, <1>7 DEF Part
<1>8. CASE ~(w.value[k] = w.delimiter /\ e # <<>>) /\ ~(w.value[k] = Quote /\ q # <<>>)
  <2>1. c = w.value[k]
    BY <1>3, <1>4, <1>5, <1>8 DEF Part
  <2> QED BY <2>1, <1>3, <1>8
<1> QED BY <1>6, <1>7, <1>8

(* The first character of a text of parts is that of its first part.       *)
LEMMA PartsHead ==
  ASSUME NEW w \in Cell, NEW e \in Text, NEW q \in Text
  PROVE  LET s == FlattenSeq(Parts(w, e, q))
         IN  /\ ToSet(w.value) = {} => s = <<>>
             /\ ToSet(w.value) # {} =>
                  /\ 1 \in 1 .. Len(w.value)
                  /\ Part(w, w.value[1], e, q) # <<>> => s[1] = Part(w, w.value[1], e, q)[1]
<1> DEFINE ss == Parts(w, e, q)
           s  == FlattenSeq(ss)
           n  == Len(w.value)
<1>1. /\ ss \in Seq(Text) /\ Len(ss) = n /\ n \in Nat /\ w.value \in Text
      /\ \A i \in 1 .. n : /\ w.value[i] \in ToSet(w.value)
                           /\ ss[i] = Part(w, w.value[i], e, q) /\ ss[i] \in Text
  BY PartsType
<1>2. PICK f : Upto(Letters, ss, f) /\ s = f[Len(ss)] /\ PartsOf(s, ss, f)
  BY <1>1, FlattenAt DEF Text
<1> HIDE DEF ss
<1>3. CASE n = 0
  <2>1. s = <<>>
    BY <1>1, <1>2, <1>3 DEF Upto
  <2>2. w.value = <<>>
    BY <1>1, <1>3 DEF Text
  <2>3. ToSet(w.value) = {}
    BY <2>2 DEF ToSet
  <2> QED BY <2>1, <2>3 DEF ss
<1>4. CASE n # 0
  <2>1. 1 \in 1 .. n /\ 1 \in 1 .. Len(ss) /\ ToSet(w.value) # {}
    BY <1>1, <1>4
  <2>2. ASSUME Part(w, w.value[1], e, q) # <<>>
        PROVE  s[1] = Part(w, w.value[1], e, q)[1]
    <3> DEFINE p == ss[1]
    <3>1. p = Part(w, w.value[1], e, q) /\ p \in Text
      BY <1>1, <2>1
    <3>2. \A m \in 1 .. Len(p) : s[Len(f[1 - 1]) + m] = p[m]
      BY <1>2, <2>1 DEF PartsOf
    <3>3. Len(f[1 - 1]) = 0
      BY <1>2 DEF Upto
    <3> HIDE DEF p
    <3>4. 1 \in 1 .. Len(p)
      BY <3>1, <2>2 DEF Text
    <3> QED BY <3>1, <3>2, <3>3, <3>4
  <2> QED BY <2>1, <2>2 DEF ss
<1> QED BY <1>3, <1>4

(* What is put for a column with its quotes escaped as q, and the token    *)
(* the reader makes of it: doubled quotes are single ones again.           *)
Whole(w, q) == FlattenSeq(Parts(w, job.escape, q))
Middle == IF job.quote_escape = QuoteEscape THEN QuoteEscape ELSE <<>>
Token(w) == IF Quoted(w) THEN InQuotes(Whole(w, Middle)) ELSE Whole(w, <<>>)

(* Escaping the delimiter, as parts.                                       *)
LEMMA EscapedIs ==
  ASSUME NEW w \in Cell, JobOK
  PROVE  Escaped(w.value, w.delimiter) = Whole(w, <<>>)
<1>1. CASE job.escape = <<>>
  BY <1>1, PlainParts DEF Escaped, Whole
<1>2. CASE job.escape # <<>>
  <2>1. job.escape \in Text
    BY DEF JobOK
  <2> QED BY <1>2, <2>1, EscapeParts DEF Escaped, Whole
<1> QED BY <1>1, <1>2

(* What the writer puts into the text for a column.                        *)
LEMMA FormIs ==
  ASSUME NEW w \in Cell, JobOK, Quote \notin ToSet(job.escape), w.delimiter # Quote,
         w.delimiter \notin ToSet(job.escape)
  PROVE  Form(w) = IF Quoted(w) THEN InQuotes(Whole(w, job.quote_escape)) ELSE Whole(w, <<>>)
<1> DEFINE s == Whole(w, <<>>)
           d == w.delimiter
<1>1. Escaped(w.value, d) = s
  BY EscapedIs
<1>2. job.escape \in Text /\ job.quote_escape \in Text /\ <<>> \in Text
  BY LetterTexts DEF JobOK
<1>3. d \in ToSet(s) <=> job.escape = <<>> /\ d \in ToSet(w.value)
  <2>1. CASE job.escape = <<>>
    <3>1. s = w.value
      BY <2>1, PlainParts DEF Whole
    <3> QED BY <2>1, <3>1
  <2>2. CASE job.escape # <<>>
    <3>1. ASSUME d \in ToSet(s) PROVE FALSE
      <4>1. d \in ToSet(FlattenSeq(Parts(w, job.escape, <<>>)))
        BY <3>1 DEF Whole
      <4> QED BY <4>1, <1>2, <2>2, PartsSet
    <3> QED BY <2>2, <3>1
  <2> QED BY <2>1, <2>2
<1>4. (IF job.quote_escape = <<>> THEN s ELSE Replace(s, <<Quote>>, job.quote_escape)) =
        Whole(w, job.quote_escape)
  <2>1. CASE job.quote_escape = <<>>
    BY <2>1
  <2>2. CASE job.quote_escape # <<>>
    BY <2>2, <1>2, QuoteParts DEF Whole
  <2> QED BY <2>1, <2>2
<1> HIDE DEF s, d
<1>5. Form(w) = IF w.by = "string" THEN Surrounded(s, d) ELSE s
  BY <1>1 DEF Form, d
<1>6. Surrounded(s, d) = IF job.surround \/ d \in ToSet(s) THEN InQuotes(Whole(w, job.quote_escape)) ELSE s
  BY <1>4 DEF Surrounded, InQuotes
<1>7. Quoted(w) <=> w.by = "string" /\ (job.surround \/ d \in ToSet(s))
  BY <1>3 DEF Quoted, d
<1>8. Form(w) = IF Quoted(w) THEN InQuotes(Whole(w, job.quote_escape)) ELSE s
  BY <1>5, <1>6, <1>7
<1> QED BY <1>8 DEF s

(* The token the reader collects from it is turned back into the value.    *)
LEMMA TokenBack ==
  ASSUME NEW w, Comes(w, delimiter), JobOK, EscapesAgree, quote_unescape = QuoteEscape
  PROVE  Unescape(Token(w)) = w.value
<1> DEFINE e == job.escape
           v == ToSet(w.value)
           d == delimiter
           raw(q) == FlattenSeq(Parts(w, <<>>, q))
           t == IF e = <<>> THEN Token(w) ELSE Replace(Token(w), e, <<d>>)
           n == Len(t)
           inner == IF n > 0 /\ t[1] = Quote /\ t[n] = Quote THEN SubSeq(t, 2, n - 1) ELSE t
<1>1. /\ w \in Cell /\ d \in Letters /\ e \in Text /\ <<>> \in Text /\ Middle \in Text
      /\ QuoteEscape \in Text /\ QuoteEscape # <<>>
      /\ w.value \in Text /\ w.delimiter \in Letters
  BY LetterTexts, PartsType DEF Comes, JobOK, Middle
<1>2. /\ QuoteEscape[1] \notin v /\ (e # <<>> => e[1] \notin v)
      /\ w.delimiter # Quote
      /\ Quoted(w) => /\ Quote \in v => job.quote_escape \in {QuoteEscape, <<Quote, Quote>>}
                      /\ w.delimiter # d /\ e # <<>> => w.delimiter \notin v
      /\ ~Quoted(w) => /\ v # {} => w.value[1] # Quote
                       /\ w.delimiter # d => v \cap {w.delimiter, d} = {}
  BY DEF Comes
<1>3. job.unescape = e /\ (e # <<>> => e[1] \notin ToSet(QuoteEscape) /\ e[1] # Quote)
  <2>1. job.unescape = e /\ ToSet(e) \cap {Quote, NL, "CR"} = {}
        /\ (e # <<>> => e[1] \notin ToSet(QuoteEscape))
    BY DEF EscapesAgree
  <2>2. e # <<>> => e[1] \in ToSet(e)
    <3>1. e # <<>> => 1 \in DOMAIN e
      BY <1>1 DEF Text
    <3> QED BY <3>1 DEF ToSet
  <2> QED BY <2>1, <2>2
<1>4. Unescape(Token(w)) = Replace(inner, QuoteEscape, <<Quote>>)
  BY <1>3 DEF Unescape
<1>5. w.delimiter = d \/ w.delimiter \notin v \/ e = <<>>
  BY <1>2
<1>6. e # <<>> => e[1] \notin ToSet(Middle)
  <2>1. ToSet(<<>>) = {}
    BY DEF ToSet
  <2> QED BY <2>1, <1>3 DEF Middle
<1>7. ASSUME NEW q \in Text, e # <<>> => e[1] \notin ToSet(q)
      PROVE  /\ (IF e = <<>> THEN Whole(w, q) ELSE Replace(Whole(w, q), e, <<d>>)) = raw(q)
             /\ (IF e = <<>> THEN InQuotes(Whole(w, q)) ELSE Replace(InQuotes(Whole(w, q)), e, <<d>>)) =
                  InQuotes(raw(q))
  <2>1. CASE e = <<>>
    BY <2>1 DEF Whole
  <2>2. CASE e # <<>>
    <3>1. /\ Replace(FlattenSeq(Parts(w, e, q)), e, <<d>>) = FlattenSeq(Parts(w, <<>>, q))
          /\ Replace(InQuotes(FlattenSeq(Parts(w, e, q))), e, <<d>>) =
               InQuotes(FlattenSeq(Parts(w, <<>>, q)))
      BY <1>1, <1>2, <1>3, <1>5, <1>7, <2>2, UnescapeParts
    <3> QED BY <3>1, <2>2 DEF Whole
  <2> QED BY <2>1, <2>2
<1>8. raw(<<>>) = w.value
  BY <1>1, PlainParts
<1>9. Replace(w.value, QuoteEscape, <<Quote>>) = w.value
  <2>1. <<Quote>> \in Text
    BY LetterTexts
  <2> QED BY <1>1, <1>2, <2>1, NothingFound
<1>10. CASE Quoted(w)
  <2>1. t = InQuotes(raw(Middle))
    BY <1>10, <1>1, <1>6, <1>7 DEF Token
  <2>2. raw(Middle) \in Text
    BY <1>1, PartsType
  <2>3. inner = raw(Middle)
    <3> HIDE DEF t, raw
    <3> DEFINE r == raw(Middle)
    <3>1. /\ Len(t) = Len(r) + 2 /\ Len(r) \in Nat /\ t[1] = Quote /\ t[Len(r) + 2] = Quote
          /\ SubSeq(t, 2, Len(r) + 1) = r
      BY <2>1, <2>2, InQuotesIs
    <3> HIDE DEF r
    <3>2. n = Len(r) + 2 /\ n > 0 /\ n - 1 = Len(r) + 1
      BY <3>1
    <3> HIDE DEF n
    <3>3. inner = r
      BY <3>1, <3>2
    <3> QED BY <3>3 DEF r
  <2>4. Replace(raw(Middle), QuoteEscape, <<Quote>>) = w.value
    <3>1. CASE Middle = QuoteEscape
      BY <3>1, <1>1, <1>2, QuoteBack
    <3>2. CASE Middle = <<>>
      BY <3>2, <1>8, <1>9
    <3> QED BY <3>1, <3>2 DEF Middle
  <2> HIDE DEF inner, raw
  <2> QED BY <2>3, <2>4, <1>4
<1>11. CASE ~Quoted(w)
  <2>1. ToSet(<<>>) = {}
    BY DEF ToSet
  <2>2. t = w.value
    BY <1>11, <1>1, <1>7, <1>8, <2>1 DEF Token
  <2>3. n > 0 => t[1] # Quote
    <3> HIDE DEF t
    <3>1. n > 0 => 1 \in DOMAIN w.value
      BY <2>2, <1>1 DEF Text
    <3>2. n > 0 => v # {}
      BY <3>1 DEF ToSet
    <3> QED BY <3>2, <2>2, <1>2, <1>11
  <2>4. inner = t
    BY <2>3
  <2> HIDE DEF inner, t, n
  <2> QED BY <2>2, <2>4, <1>4, <1>9
<1> QED BY <1>10, <1>11

-----------------------------------------------------------------------------
(* Types                                                                   *)

Got == [value : Text, delimiter : Letters,
        by : {"string", "number", "rest", "none", "out_of_range", "conversion"}]

(* What every variable holds.                                              *)
TypeInv ==
  /\ job \in Job /\ pc \in {"next", "read_line", "string", "number", "replace", "thrown"}
  /\ text \in Text /\ written \in Seq(Seq(Cell)) /\ written # <<>>
  /\ after_newline \in BOOLEAN /\ out_delimiter \in Letters
  /\ next \in 1 .. Len(text) + 1 /\ eofbit \in BOOLEAN /\ failbit \in BOOLEAN
  /\ has_bom \in BOOLEAN /\ first_line_read \in BOOLEAN /\ quote_unescape \in {<<>>, QuoteEscape}
  /\ delimiter \in Letters /\ str \in Text /\ pos \in Nat /\ token \in Text
  /\ within_quote \in BOOLEAN /\ line_num \in Nat /\ token_num \in Nat
  /\ got \in Seq(Seq(Got))

(* The configuration stays; only the operations left to run change.        *)
Kept ==
  /\ job'.stream = job.stream /\ job'.exists = job.exists /\ job'.before = job.before
  /\ job'.escape = job.escape /\ job'.unescape = job.unescape /\ job'.surround = job.surround
  /\ job'.quote_escape = job.quote_escape /\ job'.terminate = job.terminate
  /\ job'.allow = job.allow /\ job'.lines = job.lines

(* The fields of a job.                                                    *)
LEMMA JobIs ==
  ASSUME job \in Job
  PROVE  /\ job.stream \in {"file", "path", "string"} /\ job.exists \in BOOLEAN
         /\ job.before \in Text /\ job.out \in Seq(Outputs) /\ job.in \in Seq(Inputs)
         /\ job.escape \in Text /\ job.unescape \in Text /\ job.surround \in BOOLEAN
         /\ job.quote_escape \in Text /\ job.terminate \in BOOLEAN /\ job.allow \in BOOLEAN
         /\ job.lines \in BOOLEAN
  BY DEF Job

(* The operations that are left.                                           *)
LEMMA TailIs ==
  ASSUME NEW T, NEW s \in Seq(T), s # <<>>
  PROVE  /\ Tail(s) \in Seq(T) /\ Len(Tail(s)) = Len(s) - 1 /\ Len(s) \in Nat /\ Len(s) > 0
         /\ Head(s) \in T /\ Head(s) = s[1] /\ \A n \in 1 .. Len(s) - 1 : Tail(s)[n] = s[n + 1]
  OBVIOUS

(* An output operation takes the first of the outputs and nothing else of  *)
(* the job.                                                                *)
LEMMA OutputKeeps ==
  ASSUME job \in Job, NEW op, Output(op)
  PROVE  /\ job' \in Job /\ Kept /\ job'.in = job.in
         /\ Head(job.out) \in Outputs /\ Head(job.out)[1] = op /\ job.out # <<>>
         /\ job.out \in Seq(Outputs) /\ job'.out = Tail(job.out) /\ pc = "next"
<1> DEFINE rest == Tail(job.out)
<1>1. job.out \in Seq(Outputs) /\ job.out # <<>> /\ job' = [job EXCEPT !.out = rest]
      /\ Head(job.out)[1] = op /\ pc = "next"
  BY JobIs DEF Output
<1>2. rest \in Seq(Outputs) /\ Head(job.out) \in Outputs
  BY <1>1, TailIs
<1> HIDE DEF rest
<1>3. job' \in Job
  BY <1>1, <1>2 DEF Job
<1>4. Kept /\ job'.in = job.in /\ job'.out = rest
  BY <1>1 DEF Job, Kept
<1> QED BY <1>1, <1>2, <1>3, <1>4 DEF rest

(* An input operation comes after all outputs and takes the first of the   *)
(* inputs.                                                                 *)
LEMMA InputKeeps ==
  ASSUME job \in Job, NEW op, Input(op)
  PROVE  /\ job' \in Job /\ Kept /\ job'.out = job.out /\ job.out = <<>>
         /\ Head(job.in) \in Inputs /\ Head(job.in)[1] = op /\ job.in # <<>>
         /\ job.in \in Seq(Inputs) /\ job'.in = Tail(job.in) /\ pc = "next"
         /\ UNCHANGED <<text, writer>>
<1> DEFINE rest == Tail(job.in)
<1>1. job.in \in Seq(Inputs) /\ job.in # <<>> /\ job' = [job EXCEPT !.in = rest]
      /\ Head(job.in)[1] = op /\ job.out = <<>> /\ pc = "next" /\ UNCHANGED <<text, writer>>
  BY JobIs DEF Input
<1>2. rest \in Seq(Inputs) /\ Head(job.in) \in Inputs
  BY <1>1, TailIs
<1> HIDE DEF rest
<1>3. job' \in Job
  BY <1>1, <1>2 DEF Job
<1>4. Kept /\ job'.out = job.out /\ job'.in = rest
  BY <1>1 DEF Job, Kept
<1> QED BY <1>1, <1>2, <1>3, <1>4 DEF rest

(* What operations carry.                                                  *)
LEMMA OperationIs ==
  /\ \A o \in Outputs : /\ o[1] \in {"string", "other"} => o[2] \in Text
                        /\ o[1] = "sep" => o[2] \in Letters
  /\ \A o \in Inputs : o[1] = "sep" => o[2] \in Letters
  BY DEF Outputs, Inputs

(* Types of the conversions of a text.                                     *)
LEMMA ReplaceType ==
  ASSUME NEW s \in Text, NEW find \in Text, NEW by \in Text, find # <<>>
  PROVE  Replace(s, find, by) \in Text
<1>1. PICK out \in [0 .. Len(s) -> Seq(Letters)] : Replace(s, find, by) = out[Len(s)]
  BY ReplaceIs DEF Text
<1>2. Len(s) \in 0 .. Len(s)
  BY DEF Text
<1> QED BY <1>1, <1>2 DEF Text

LEMMA SubText ==
  ASSUME NEW s \in Text, NEW m \in Nat, m >= 1, m <= Len(s) + 1
  PROVE  SubSeq(s, m, Len(s)) \in Text /\ Len(SubSeq(s, m, Len(s))) = Len(s) - m + 1 /\ Len(s) \in Nat
<1>1. s \in Seq(Letters)
  BY DEF Text
<1>2. Len(s) \in 0 .. Len(s) /\ m \in 1 .. Len(s) + 1
  BY <1>1
<1> QED BY <1>1, <1>2, SubSeqIs DEF Text

(* The text of an escaped value.                                           *)
LEMMA EscapedType ==
  ASSUME NEW s \in Text, NEW d \in Letters, job \in Job
  PROVE  Escaped(s, d) \in Text
<1>1. job.escape \in Text /\ <<d>> \in Text /\ <<d>> # <<>>
  BY JobIs, LetterTexts
<1> QED BY <1>1, ReplaceType DEF Escaped

LEMMA FormType ==
  ASSUME NEW w \in Cell, job \in Job
  PROVE  Form(w) \in Text /\ Len(Form(w)) \in Nat
<1> DEFINE s == Escaped(w.value, w.delimiter)
           inner == IF job.quote_escape = <<>> THEN s ELSE Replace(s, <<Quote>>, job.quote_escape)
<1>1. w.value \in Text /\ w.delimiter \in Letters
  BY DEF Cell
<1>2. s \in Text
  BY <1>1, EscapedType
<1>3. job.quote_escape \in Text /\ <<Quote>> \in Text /\ <<Quote>> # <<>>
  BY JobIs, LetterTexts
<1> HIDE DEF s
<1>4. inner \in Text
  BY <1>2, <1>3, ReplaceType
<1>5. InQuotes(inner) \in Text
  BY <1>4, InQuotesIs
<1>6. Surrounded(s, w.delimiter) \in {s, InQuotes(inner)}
  BY DEF Surrounded, InQuotes
<1>7. Form(w) \in Text
  BY <1>2, <1>5, <1>6 DEF Form, s
<1> QED BY <1>7, LenProperties DEF Text

LEMMA UnescapeType ==
  ASSUME NEW s \in Text, TypeInv, quote_unescape # <<>>
  PROVE  Unescape(s) \in Text
<1> DEFINE t == IF job.unescape = <<>> THEN s ELSE Replace(s, job.unescape, <<delimiter>>)
           n == Len(t)
           inner == IF n > 0 /\ t[1] = Quote /\ t[n] = Quote THEN SubSeq(t, 2, n - 1) ELSE t
<1>1. job.unescape \in Text /\ <<delimiter>> \in Text /\ <<Quote>> \in Text /\ quote_unescape \in Text
  BY JobIs, LetterTexts DEF TypeInv
<1>2. t \in Text
  BY <1>1, ReplaceType
<1> HIDE DEF t
<1>3. inner \in Text
  <2>1. CASE n > 1
    <3>1. t \in Seq(Letters) /\ n - 1 \in 0 .. n /\ 2 \in 1 .. n - 1 + 1
      BY <1>2, <2>1 DEF Text
    <3>2. SubSeq(t, 2, n - 1) \in Seq(Letters)
      BY <3>1, SubSeqIs
    <3> QED BY <3>2, <1>2 DEF Text
  <2>2. CASE n = 1
    <3>1. SubSeq(t, 2, 0) = <<>> /\ n - 1 = 0
      BY <1>2, <2>2 DEF Text
    <3>2. inner \in {t, SubSeq(t, 2, 0)}
      BY <3>1
    <3> QED BY <3>1, <3>2, <1>2, LetterTexts
  <2>3. n \in Nat
    BY <1>2 DEF Text
  <2>4. CASE n = 0
    BY <2>4, <1>2
  <2> HIDE DEF inner, n
  <2> QED BY <2>1, <2>2, <2>3, <2>4
<1> HIDE DEF inner
<1>4. Unescape(s) = Replace(inner, quote_unescape, <<Quote>>)
  BY DEF Unescape, inner, t
<1> QED BY <1>1, <1>3, <1>4, ReplaceType

LEMMA NumberType ==
  ASSUME NEW s \in Text
  PROVE  NumberIn(s) \in Text
<1> DEFINE S == {k \in 1 .. Len(s) + 1 : At(s, k) \notin Digits}
           stop == Min(S)
<1>1. s \in Seq(Letters) /\ Len(s) \in Nat /\ Len(s) + 1 \in 1 .. Len(s) + 1
  BY DEF Text
<1>2. At(s, Len(s) + 1) \notin Digits
  <2>1. Len(s) + 1 \notin DOMAIN s
    BY <1>1
  <2> QED BY <2>1 DEF At, Digits
<1>3. Len(s) + 1 \in S /\ S \in SUBSET Nat /\ S # {}
  BY <1>1, <1>2
<1>4. stop \in S
  BY <1>3, Least
<1>5. stop - 1 \in 0 .. Len(s) /\ 1 \in 1 .. stop - 1 + 1
  BY <1>1, <1>4
<1> HIDE DEF stop
<1>6. SubSeq(s, 1, stop - 1) \in Seq(Letters)
  BY <1>1, <1>5, SubSeqIs
<1> QED BY <1>6 DEF Text, NumberIn, stop

(* The line at which the stream stands ends at the first newline, or with  *)
(* the text.                                                               *)
LEMMA LineStopIs ==
  ASSUME TypeInv
  PROVE  /\ LineStop \in next .. Len(text) + 1 /\ Len(text) \in Nat
         /\ LineStop <= Len(text) => text[LineStop] = NL
         /\ \A k \in next .. LineStop - 1 : text[k] # NL
         /\ Line \in Text
         /\ ~eofbit /\ ~failbit => /\ Line = SubSeq(text, next, LineStop - 1)
                                   /\ Len(Line) = LineStop - next
                                   /\ \A i \in 1 .. LineStop - next : Line[i] = text[next - 1 + i]
         /\ Behind(LineStop) \in 1 .. Len(text) + 1
         /\ LineStop <= Len(text) => Behind(LineStop) = LineStop + 1
         /\ LineStop > Len(text) => Behind(LineStop) = Len(text) + 1
<1> DEFINE n == Len(text)
           S == {k \in next .. n + 1 : k = n + 1 \/ text[k] = NL}
           e == Min(S)
<1>1. text \in Seq(Letters) /\ n \in Nat /\ next \in 1 .. n + 1 /\ str \in Text
  BY DEF TypeInv, Text
<1>2. n + 1 \in S /\ S \in SUBSET Nat /\ S # {}
  BY <1>1
<1>3. e \in S /\ \A y \in S : e <= y
  BY <1>2, Least
<1>4. e \in next .. n + 1 /\ (e <= n => text[e] = NL)
  BY <1>1, <1>3
<1>5. \A k \in next .. e - 1 : text[k] # NL
  <2> SUFFICES ASSUME NEW k \in next .. e - 1, text[k] = NL PROVE FALSE
    OBVIOUS
  <2>1. k \in next .. n + 1 /\ k < e
    BY <1>1, <1>4
  <2>2. k \in S
    BY <2>1
  <2> QED BY <1>3, <2>1, <2>2, <1>1, <1>4
<1>6. LineStop = e
  BY DEF LineStop
<1> HIDE DEF e, S
<1>7. e - 1 \in 0 .. n /\ next \in 1 .. e - 1 + 1 /\ e - 1 - next + 1 = e - next
  BY <1>1, <1>4
<1>8. /\ SubSeq(text, next, e - 1) \in Seq(Letters) /\ Len(SubSeq(text, next, e - 1)) = e - next
      /\ \A i \in 1 .. e - next : SubSeq(text, next, e - 1)[i] = text[next - 1 + i]
  <2> DEFINE h == e - 1
  <2>1. h \in 0 .. n /\ next \in 1 .. h + 1 /\ h - next + 1 = e - next
    BY <1>7
  <2> HIDE DEF h
  <2>2. /\ SubSeq(text, next, h) \in Seq(Letters) /\ Len(SubSeq(text, next, h)) = h - next + 1
        /\ \A i \in 1 .. h - next + 1 : SubSeq(text, next, h)[i] = text[next - 1 + i]
    BY <1>1, <2>1, SubSeqIs
  <2> QED BY <2>1, <2>2 DEF h
<1>9. Line = IF eofbit \/ failbit THEN str ELSE SubSeq(text, next, e - 1)
  BY <1>6 DEF Line
<1>10. Line \in Text
  BY <1>1, <1>8, <1>9 DEF Text
<1>11. /\ Behind(e) \in 1 .. n + 1 /\ (e <= n => Behind(e) = e + 1) /\ (e > n => Behind(e) = n + 1)
  <2>1. {e + 1, n + 1} \in SUBSET Nat /\ {e + 1, n + 1} # {}
    BY <1>1, <1>4
  <2>2. Min({e + 1, n + 1}) \in {e + 1, n + 1} /\ \A y \in {e + 1, n + 1} : Min({e + 1, n + 1}) <= y
    BY <2>1, Least
  <2> DEFINE m == Min({e + 1, n + 1})
  <2>3. m \in {e + 1, n + 1} /\ m <= e + 1 /\ m <= n + 1
    BY <2>2
  <2> HIDE DEF m
  <2>4. m \in 1 .. n + 1 /\ (e <= n => m = e + 1) /\ (e > n => m = n + 1)
    BY <2>3, <1>1, <1>4
  <2> QED BY <2>4 DEF Behind, m
<1> QED BY <1>1, <1>4, <1>5, <1>6, <1>8, <1>9, <1>10, <1>11

LEMMA CellIs ==
  ASSUME NEW v \in Text, NEW d \in Letters, NEW by \in {"string", "other"}
  PROVE  [value |-> v, delimiter |-> d, by |-> by] \in Cell
  BY DEF Cell

LEMMA EntryIs ==
  ASSUME NEW v \in Text, delimiter \in Letters,
         NEW by \in {"string", "number", "rest", "none", "out_of_range", "conversion"}
  PROVE  /\ Entry(v, by) \in Got /\ <<Entry(v, by)>> \in Seq(Got)
         /\ Entry(v, by).value = v /\ Entry(v, by).by = by /\ Entry(v, by).delimiter = delimiter
<1>1. Entry(v, by) \in Got /\ Entry(v, by).value = v /\ Entry(v, by).by = by
      /\ Entry(v, by).delimiter = delimiter
  BY DEF Entry, Got
<1> QED BY <1>1

(* What << puts, and where.                                                *)
LEMMA PutIs ==
  ASSUME TypeInv, NEW by \in {"string", "other"}, Put(by)
  PROVE  \E w \in Cell :
           /\ w = [value |-> Head(job.out)[2], delimiter |-> out_delimiter, by |-> by]
           /\ text' = (text \o (IF after_newline THEN <<>> ELSE <<out_delimiter>>)) \o Form(w)
           /\ written' = [written EXCEPT ![Len(written)] = Append(@, w)]
           /\ Form(w) \in Text
<1> DEFINE w == [value |-> Head(job.out)[2], delimiter |-> out_delimiter, by |-> by]
<1>1. Output(by)
  BY DEF Put
<1>2. job \in Job /\ out_delimiter \in Letters
  BY DEF TypeInv
<1>3. Head(job.out)[2] \in Text
  BY <1>1, <1>2, OutputKeeps, OperationIs
<1>4. w \in Cell
  BY <1>2, <1>3, CellIs
<1>5. Form(w) \in Text
  BY <1>2, <1>4, FormType
<1>6. /\ text' = (text \o (IF after_newline THEN <<>> ELSE <<out_delimiter>>)) \o Form(w)
      /\ written' = [written EXCEPT ![Len(written)] = Append(@, w)]
  BY DEF Put
<1> HIDE DEF w
<1>7. w = [value |-> Head(job.out)[2], delimiter |-> out_delimiter, by |-> by]
  BY DEF w
<1> QED BY <1>4, <1>5, <1>6, <1>7

(* Appending to the last of a list of lists.                               *)
LEMMA LastIs ==
  ASSUME NEW T, NEW ss \in Seq(Seq(T)), ss # <<>>, NEW w \in T
  PROVE  LET n == Len(ss)  tt == [ss EXCEPT ![n] = Append(@, w)]
         IN  /\ n \in 1 .. n /\ n \in Nat /\ tt \in Seq(Seq(T)) /\ tt # <<>> /\ Len(tt) = n
             /\ tt[n] = Append(ss[n], w) /\ \A k \in 1 .. n : k # n => tt[k] = ss[k]
<1> DEFINE n == Len(ss)
           u == Append(ss[n], w)
<1>1. n \in Nat /\ n \in 1 .. n /\ ss[n] \in Seq(T) /\ ss \in [1 .. n -> Seq(T)]
  OBVIOUS
<1>2. u \in Seq(T)
  BY <1>1
<1> HIDE DEF u
<1> DEFINE tt == [ss EXCEPT ![n] = u]
<1>3. tt \in [1 .. n -> Seq(T)] /\ tt[n] = u /\ \A k \in 1 .. n : k # n => tt[k] = ss[k]
  BY <1>1, <1>2
<1>4. tt \in Seq(Seq(T)) /\ Len(tt) = n /\ tt # <<>>
  <2> HIDE DEF tt
  <2> DEFINE m == n
  <2>1. m \in Nat /\ m \in 1 .. m /\ tt \in [1 .. m -> Seq(T)]
    BY <1>1, <1>3
  <2> HIDE DEF m
  <2>2. tt \in Seq(Seq(T)) /\ Len(tt) = m
    BY <2>1
  <2>3. tt # <<>>
    BY <2>1, <2>2
  <2> QED BY <2>2, <2>3 DEF m
<1> QED BY <1>1, <1>3, <1>4 DEF u

LEMMA PutType ==
  ASSUME TypeInv, NEW by \in {"string", "other"}, Put(by)
  PROVE  TypeInv'
<1>1. Output(by) /\ after_newline' = FALSE /\ out_delimiter' = out_delimiter
  BY DEF Put
<1>2. job' \in Job
  BY <1>1, OutputKeeps DEF TypeInv
<1>3. PICK w \in Cell :
           /\ text' = (text \o (IF after_newline THEN <<>> ELSE <<out_delimiter>>)) \o Form(w)
           /\ written' = [written EXCEPT ![Len(written)] = Append(@, w)]
           /\ Form(w) \in Text
  BY PutIs
<1>4. written' \in Seq(Seq(Cell)) /\ written' # <<>>
  <2>1. written \in Seq(Seq(Cell)) /\ written # <<>>
    BY DEF TypeInv
  <2> QED BY <2>1, <1>3, LastIs
<1>5. text' \in Text /\ Len(text) \in Nat /\ Len(text') \in Nat /\ Len(text) <= Len(text')
  <2> DEFINE d == IF after_newline THEN <<>> ELSE <<out_delimiter>>
             x == text \o d
  <2>1. text \in Text /\ d \in Text
    BY LetterTexts DEF TypeInv
  <2> HIDE DEF d
  <2>2. x \in Seq(Letters) /\ Len(x) = Len(text) + Len(d) /\ Len(text) \in Nat /\ Len(d) \in Nat
    BY <2>1, JoinIs DEF Text
  <2>3. text' = x \o Form(w)
    BY <1>3 DEF d
  <2> HIDE DEF x
  <2> DEFINE y == Form(w)
  <2>4. y \in Seq(Letters)
    BY <1>3 DEF Text
  <2> HIDE DEF y
  <2>5. x \o y \in Seq(Letters) /\ Len(x \o y) = Len(x) + Len(y) /\ Len(y) \in Nat
    BY <2>2, <2>4, JoinIs
  <2>6. text' \in Seq(Letters) /\ Len(text') = Len(x) + Len(y) /\ Len(y) \in Nat
    BY <2>3, <2>5 DEF y
  <2> QED BY <2>2, <2>6 DEF Text
<1>6. next' \in 1 .. Len(text') + 1
  BY <1>1, <1>5 DEF TypeInv, Output, stream
<1> QED BY <1>1, <1>2, <1>4, <1>5, <1>6 DEF TypeInv, Output, stream, opened, column

LEMMA NewlineType ==
  ASSUME TypeInv, PutNewline
  PROVE  TypeInv'
<1>1. Output("newline") /\ after_newline' = TRUE /\ out_delimiter' = out_delimiter
      /\ text' = Append(text, NL) /\ written' = Append(written, <<>>)
  BY DEF PutNewline
<1>2. job' \in Job
  BY <1>1, OutputKeeps DEF TypeInv
<1>3. written' \in Seq(Seq(Cell)) /\ written' # <<>>
  <2>1. written \in Seq(Seq(Cell)) /\ <<>> \in Seq(Cell)
    BY DEF TypeInv
  <2> QED BY <1>1, <2>1
<1>4. text' \in Text /\ Len(text') = Len(text) + 1 /\ Len(text) \in Nat
  <2>1. text \in Seq(Letters) /\ NL \in Letters
    BY LetterTexts DEF TypeInv, Text
  <2> QED BY <2>1, <1>1 DEF Text
<1>5. next' \in 1 .. Len(text') + 1
  BY <1>1, <1>4 DEF TypeInv, Output, stream
<1> QED BY <1>1, <1>2, <1>3, <1>4, <1>5 DEF TypeInv, Output, stream, opened, column

LEMMA SepType ==
  ASSUME TypeInv, PutSep
  PROVE  TypeInv'
<1>1. Output("sep") /\ out_delimiter' = Head(job.out)[2]
      /\ UNCHANGED <<text, written, after_newline>>
  BY DEF PutSep
<1>2. job' \in Job /\ Head(job.out) \in Outputs /\ Head(job.out)[1] = "sep"
  BY <1>1, OutputKeeps DEF TypeInv
<1>3. out_delimiter' \in Letters
  BY <1>1, <1>2, OperationIs
<1> QED BY <1>1, <1>2, <1>3 DEF TypeInv, Output, stream, opened, column

LEMMA OpenType ==
  ASSUME TypeInv, OpenFile \/ SetInputString \/ EnableTrimQuote \/ SetSep
  PROVE  TypeInv'
<1>1. PICK op \in {"open", "trim_quote", "sep"} : Input(op)
  BY DEF OpenFile, SetInputString, EnableTrimQuote, SetSep
<1>2. /\ job' \in Job /\ Head(job.in) \in Inputs /\ Head(job.in)[1] = op
      /\ UNCHANGED <<text, written, after_newline, out_delimiter>>
  BY <1>1, InputKeeps DEF TypeInv, writer
<1>3. 1 \in 1 .. Len(text) + 1
  BY DEF TypeInv
<1>4. "," \in Letters /\ <<>> \in Text
  BY MiniCsvConstants, LetterTexts
<1>5. CASE OpenFile
  <2>1. /\ next' = 1 /\ eofbit' = FALSE /\ first_line_read' = FALSE
        /\ delimiter' = "," /\ str' = <<>> /\ pos' = 0 /\ line_num' = 0 /\ token_num' = 0
        /\ UNCHANGED <<pc, quote_unescape, token, within_quote, got>>
    BY <1>5 DEF OpenFile, Reset, column
  <2>2. failbit' \in BOOLEAN
    BY <1>5 DEF OpenFile
  <2>3. has_bom' \in BOOLEAN
    BY <1>5 DEF OpenFile
  <2> QED BY <1>2, <1>3, <1>4, <2>1, <2>2, <2>3 DEF TypeInv
<1>6. CASE SetInputString
  BY <1>2, <1>3, <1>4, <1>6 DEF SetInputString, Reset, TypeInv, opened, column
<1>7. CASE EnableTrimQuote
  BY <1>2, <1>7 DEF EnableTrimQuote, TypeInv, stream, column
<1>8. CASE SetSep
  <2>1. op = "sep" /\ delimiter' = Head(job.in)[2]
    BY <1>2, <1>8 DEF SetSep, Input
  <2>2. delimiter' \in Letters
    BY <2>1, <1>2, OperationIs
  <2> QED BY <1>2, <1>8, <2>2 DEF SetSep, TypeInv, stream, opened, column
<1> QED BY <1>5, <1>6, <1>7, <1>8

LEMMA GetLineType ==
  ASSUME TypeInv, GetLine, text' = text
  PROVE  next' \in 1 .. Len(text') + 1 /\ eofbit' \in BOOLEAN /\ failbit' \in BOOLEAN
<1>1. CASE eofbit \/ failbit
  BY <1>1 DEF GetLine, TypeInv
<1>2. CASE ~(eofbit \/ failbit)
  BY <1>2, LineStopIs DEF GetLine
<1> QED BY <1>1, <1>2

LEMMA GiveType ==
  ASSUME TypeInv, NEW v \in Text,
         NEW by \in {"string", "number", "rest", "none", "out_of_range", "conversion"},
         Give(v, by) \/ got' = Append(got, <<Entry(v, by)>>)
  PROVE  got' \in Seq(Seq(Got))
<1>1. Entry(v, by) \in Got /\ <<Entry(v, by)>> \in Seq(Got) /\ got \in Seq(Seq(Got))
  BY EntryIs DEF TypeInv
<1> DEFINE en == Entry(v, by)
<1> HIDE DEF en
<1>2. CASE got' = Append(got, <<Entry(v, by)>>)
  BY <1>1, <1>2
<1>3. CASE Give(v, by) /\ got # <<>>
  <2>1. got' = [got EXCEPT ![Len(got)] = Append(@, en)] /\ en \in Got
    BY <1>1, <1>3 DEF Give, en
  <2> QED BY <2>1, <1>1, <1>3, LastIs
<1>4. CASE Give(v, by) /\ got = <<>>
  <2>1. got' = [got EXCEPT ![Len(got)] = Append(@, en)]
    BY <1>4 DEF Give, en
  <2>2. got' = got
    BY <2>1, <1>4
  <2> QED BY <2>2, <1>1
<1> QED BY <1>2, <1>3, <1>4

LEMMA LineRoundType ==
  ASSUME TypeInv, LineRound
  PROVE  TypeInv'
<1>1. /\ pc = "read_line"
      /\ UNCHANGED <<job, text, written, after_newline, out_delimiter, has_bom, quote_unescape,
                     delimiter, token, within_quote>>
  BY DEF LineRound, writer, column
<1>2. <<>> \in Text /\ NoLine \in Seq(Got) /\ got \in Seq(Seq(Got))
  BY EntryIs, LetterTexts DEF TypeInv, NoLine
<1>3. CASE eofbit
  <2>1. /\ pc' = "next" /\ got' = Append(got, NoLine)
        /\ UNCHANGED <<next, eofbit, failbit, first_line_read, str, pos, line_num, token_num>>
    BY <1>3 DEF LineRound, NoMore, stream
  <2>2. got' \in Seq(Seq(Got))
    BY <1>2, <2>1
  <2> QED BY <1>1, <2>1, <2>2 DEF TypeInv
<1>4. CASE ~eofbit
  <2>1. /\ GetLine /\ first_line_read' = TRUE /\ pos' = 0
        /\ \/ /\ BomThrows(Line) /\ Throw("out_of_range") /\ str' = Line
              /\ UNCHANGED <<line_num, token_num>>
           \/ /\ ~BomThrows(Line) /\ str' = WithoutBom(Line)
              /\ \/ /\ pc' = "next" /\ got' = Append(got, <<>>)
                    /\ line_num' = line_num + 1 /\ token_num' = 0
                 \/ /\ pc' \in {"next", "read_line"} /\ got' \in {got, Append(got, NoLine)}
                    /\ UNCHANGED <<line_num, token_num>>
    BY <1>1, <1>4 DEF LineRound, NoMore
  <2>2. next' \in 1 .. Len(text') + 1 /\ eofbit' \in BOOLEAN /\ failbit' \in BOOLEAN
    BY <1>1, <2>1, GetLineType
  <2>3. Line \in Text /\ str' \in Text
    <3>1. Line \in Text
      BY LineStopIs
    <3>2. ASSUME ~BomThrows(Line), has_bom, ~first_line_read
          PROVE  SubSeq(Line, 4, Len(Line)) \in Text
      <4>1. 4 <= Len(Line) + 1
        BY <3>1, <3>2 DEF BomThrows, Text
      <4> QED BY <3>1, <4>1, SubText
    <3>3. ~BomThrows(Line) => WithoutBom(Line) \in Text
      BY <3>1, <3>2 DEF WithoutBom
    <3> QED BY <2>1, <3>1, <3>3
  <2>4. pc' \in {"next", "read_line", "thrown"} /\ line_num' \in Nat /\ token_num' \in Nat
    BY <2>1 DEF Throw, TypeInv
  <2>5. got' \in Seq(Seq(Got))
    <3>1. CASE Throw("out_of_range")
      BY <1>2, <3>1, GiveType DEF Throw
    <3>2. CASE got' \in {got, Append(got, <<>>), Append(got, NoLine)}
      <4>1. \A u \in Seq(Got) : Append(got, u) \in Seq(Seq(Got))
        BY <1>2
      <4>2. <<>> \in Seq(Got)
        OBVIOUS
      <4> QED BY <4>1, <4>2, <1>2, <3>2
    <3> QED BY <2>1, <3>1, <3>2
  <2> QED BY <1>1, <2>1, <2>2, <2>3, <2>4, <2>5 DEF TypeInv
<1> QED BY <1>3, <1>4

LEMMA ReadType ==
  ASSUME TypeInv, ReadLine \/ SkipLine \/ ReadColumn \/ RestOfLine
  PROVE  TypeInv'
<1>1. PICK op \in {"line", "skip", "string", "number", "rest"} : Input(op)
  BY DEF ReadLine, SkipLine, ReadColumn, RestOfLine
<1>2. /\ job' \in Job /\ Head(job.in)[1] = op
      /\ UNCHANGED <<text, written, after_newline, out_delimiter>>
  BY <1>1, InputKeeps DEF TypeInv, writer
<1>3. <<>> \in Text
  BY LetterTexts
<1>4. CASE ReadLine
  BY <1>2, <1>3, <1>4 DEF ReadLine, TypeInv, stream, opened, column
<1>5. CASE SkipLine
  <2>1. CASE eofbit /\ job.stream # "string"
    BY <1>2, <1>5, <2>1 DEF SkipLine, TypeInv, stream, column
  <2>2. CASE ~(eofbit /\ job.stream # "string")
    <3>1. GetLine /\ str' = Line /\ pos' = 0 /\ first_line_read' = TRUE
      BY <1>5, <2>2 DEF SkipLine
    <3>2. next' \in 1 .. Len(text') + 1 /\ eofbit' \in BOOLEAN /\ failbit' \in BOOLEAN
      BY <1>2, <3>1, GetLineType
    <3>3. str' \in Text
      BY <3>1, LineStopIs
    <3> QED BY <1>2, <1>5, <3>1, <3>2, <3>3 DEF SkipLine, TypeInv, column
  <2> QED BY <2>1, <2>2
<1>6. CASE ReadColumn
  <2>1. pc' \in {"string", "number"}
    BY <1>2, <1>6 DEF ReadColumn, Input
  <2> QED BY <1>2, <1>3, <1>6, <2>1 DEF ReadColumn, TypeInv, stream, opened
<1>7. CASE RestOfLine
  <2>1. got' \in Seq(Seq(Got)) /\ pc' \in {"next", "thrown"}
    <3>1. CASE pos > Len(str)
      <4>1. Throw("out_of_range")
        BY <1>7, <3>1 DEF RestOfLine
      <4> QED BY <1>3, <4>1, GiveType DEF Throw
    <3>2. CASE ~(pos > Len(str))
      <4>1. Give(SubSeq(str, pos + 1, Len(str)), "rest") /\ pc' = pc /\ pc = "next"
        BY <1>1, <1>7, <3>2 DEF RestOfLine, Input
      <4>2. str \in Text /\ pos + 1 \in Nat /\ pos + 1 >= 1 /\ pos + 1 <= Len(str) + 1
        BY <3>2 DEF TypeInv, Text
      <4>3. SubSeq(str, pos + 1, Len(str)) \in Text
        BY <4>2, SubText
      <4> QED BY <4>1, <4>3, GiveType
    <3> QED BY <3>1, <3>2
  <2> QED BY <1>2, <1>7, <2>1 DEF RestOfLine, TypeInv, stream, opened, column
<1> QED BY <1>4, <1>5, <1>6, <1>7

LEMMA GiveTokenType ==
  ASSUME TypeInv, NEW s \in Text, GiveToken(s), InColumn
  PROVE  /\ token_num' \in Nat /\ token' \in Text /\ got' \in Seq(Seq(Got))
         /\ pc' \in {"replace", "thrown", "next"}
<1>1. token_num' \in Nat
  BY DEF GiveToken, TypeInv
<1>2. CASE Hangs
  BY <1>1, <1>2 DEF GiveToken, TypeInv
<1>3. CASE ~Hangs
  <2> DEFINE u == Unescape(s)
             value == IF pc = "number" THEN NumberIn(u) ELSE u
  <2>1. u \in Text
    BY <1>3, UnescapeType DEF Hangs
  <2>2. value \in Text
    BY <2>1, NumberType
  <2>3. <<>> \in Text /\ pc \in {"string", "number"}
    BY LetterTexts DEF InColumn
  <2>4. /\ token' = u
        /\ IF pc = "number" /\ value = <<>> THEN Throw("conversion") ELSE pc' = "next" /\ Give(value, pc)
    BY <1>3 DEF GiveToken
  <2> HIDE DEF u, value
  <2>5. CASE Throw("conversion")
    BY <1>1, <2>1, <2>3, <2>4, <2>5, GiveType DEF Throw
  <2>6. CASE pc' = "next" /\ Give(value, pc)
    <3>1. got' \in Seq(Seq(Got))
      BY <2>2, <2>3, <2>6, GiveType
    <3> QED BY <1>1, <2>1, <2>4, <2>6, <3>1
  <2> QED BY <2>4, <2>5, <2>6
<1> QED BY <1>2, <1>3

LEMMA HereIs ==
  ASSUME TypeInv, pos < Len(str)
  PROVE  /\ Here = str[pos + 1] /\ Here \in Letters /\ str \in Seq(Letters) /\ Len(str) \in Nat
         /\ pos + 1 \in 1 .. Len(str)
<1>1. str \in Seq(Letters) /\ pos \in Nat /\ Len(str) \in Nat /\ DOMAIN str = 1 .. Len(str)
  BY DEF TypeInv, Text
<1>2. pos + 1 \in 1 .. Len(str)
  BY <1>1
<1> QED BY <1>1, <1>2 DEF Here, At

LEMMA ColumnType ==
  ASSUME TypeInv, LastColumn \/ DoubledQuote \/ ColumnChar
  PROVE  TypeInv'
<1>1. /\ UNCHANGED <<job, text, written, after_newline, out_delimiter, next, eofbit, failbit,
                      has_bom, first_line_read, quote_unescape, delimiter, line_num>>
      /\ InColumn /\ pc \in {"string", "number"}
  BY DEF LastColumn, DoubledQuote, ColumnChar, writer, stream, opened, InColumn
<1>2. token \in Text /\ <<>> \in Text /\ Quote \in Letters
  BY LetterTexts DEF TypeInv
<1>3. CASE LastColumn
  <2>1. GiveToken(token) /\ str' = <<>> /\ UNCHANGED <<pos, within_quote>>
    BY <1>3 DEF LastColumn
  <2>2. /\ token_num' \in Nat /\ token' \in Text /\ got' \in Seq(Seq(Got))
        /\ pc' \in {"replace", "thrown", "next"}
    BY <1>1, <1>2, <2>1, GiveTokenType
  <2> QED BY <1>1, <1>2, <2>1, <2>2 DEF TypeInv
<1>4. CASE DoubledQuote
  <2>1. /\ token' = Append(token, Quote) /\ pos' = pos + 2
        /\ UNCHANGED <<pc, str, within_quote, token_num, got>>
    BY <1>4 DEF DoubledQuote
  <2>2. token' \in Text
    BY <1>2, <2>1 DEF Text
  <2> QED BY <1>1, <2>1, <2>2 DEF TypeInv
<1>5. CASE ColumnChar
  <2>1. /\ pos < Len(str) /\ pos' = pos + 1 /\ within_quote' \in BOOLEAN /\ str' = str
        /\ \/ GiveToken(token)
           \/ token' = Append(token, Here) /\ UNCHANGED <<pc, token_num, got>>
    BY <1>5 DEF ColumnChar
  <2>2. CASE GiveToken(token)
    <3>1. /\ token_num' \in Nat /\ token' \in Text /\ got' \in Seq(Seq(Got))
          /\ pc' \in {"replace", "thrown", "next"}
      BY <1>1, <1>2, <2>2, GiveTokenType
    <3> QED BY <1>1, <2>1, <3>1 DEF TypeInv
  <2>3. CASE token' = Append(token, Here) /\ UNCHANGED <<pc, token_num, got>>
    <3>1. Here \in Letters
      BY <2>1, HereIs
    <3>2. token' \in Text
      BY <1>2, <2>3, <3>1 DEF Text
    <3> QED BY <1>1, <2>1, <2>3, <3>2 DEF TypeInv
  <2> QED BY <2>1, <2>2, <2>3
<1> QED BY <1>3, <1>4, <1>5

(* Types hold, operation by operation.                                     *)
LEMMA TypeInit ==
  ASSUME Init
  PROVE  TypeInv
<1>1. /\ "," \in Letters /\ <<>> \in Text /\ job \in Job /\ QuoteEscape \in Text
  BY MiniCsvConstants, LetterTexts DEF Init
<1>2. job.before \in Text
  BY <1>1, JobIs
<1>3. 1 \in 1 .. Len(job.before) + 1
  BY <1>2 DEF Text
<1>4. <<>> \in Seq(Cell) /\ << <<>> >> \in Seq(Seq(Cell)) /\ << <<>> >> # <<>> /\ <<>> \in Seq(Seq(Got))
  OBVIOUS
<1> QED BY <1>1, <1>2, <1>3, <1>4 DEF Init, TypeInv

LEMMA TypeNext ==
  ASSUME TypeInv, [Next]_vars
  PROVE  TypeInv'
<1>1. CASE PutString \/ PutOther
  BY <1>1, PutType DEF PutString, PutOther
<1>2. CASE PutNewline
  BY <1>2, NewlineType
<1>3. CASE PutSep
  BY <1>3, SepType
<1>4. CASE OpenFile \/ SetInputString \/ EnableTrimQuote \/ SetSep
  BY <1>4, OpenType
<1>5. CASE ReadLine \/ SkipLine \/ ReadColumn \/ RestOfLine
  BY <1>5, ReadType
<1>6. CASE LineRound
  BY <1>6, LineRoundType
<1>7. CASE LastColumn \/ DoubledQuote \/ ColumnChar
  BY <1>7, ColumnType
<1>8. CASE UNCHANGED vars
  BY <1>8 DEF vars, writer, stream, opened, column, TypeInv
<1> QED BY <1>1, <1>2, <1>3, <1>4, <1>5, <1>6, <1>7, <1>8 DEF Next, Loop

-----------------------------------------------------------------------------
(* The order of calls                                                      *)

(* Something was read, or the stream is open.                              *)
Started == pc # "next" \/ got # <<>> \/ (job.in # <<>> /\ job.in[1][1] # "open")

(* Parts of FlowInv: nothing is read before all is written; a stream is    *)
(* opened first, and once where the job says so; the line is forgotten at  *)
(* its end; the end of a line is reached only with a column; the mark is   *)
(* known when it may be looked for.                                        *)
LooksMarked == \E k \in DOMAIN Mark : At(text, k) = Mark[k]

WritesFirst == job.out # <<>> => ~Started
OpensOnly ==
  job.lines => \A n \in 1 .. Len(job.in) :
    job.in[n][1] # "skip" /\ (job.in[n][1] = "open" => n = 1 /\ got = <<>> /\ pc = "next")
LineForgotten == (pc = "read_line" => str = <<>>) /\ (pos <= Len(str) \/ str = <<>>)
TokensCounted == pos > 0 /\ pc \notin {"string", "number"} => token_num > 0
MarkSeen ==
  /\ job.lines /\ Started => has_bom = (job.stream # "string" /\ job.exists /\ LooksMarked)
  /\ job.stream = "string" => ~has_bom
  /\ job.lines /\ first_line_read => got # <<>> \/ pc = "read_line"

FlowInv == WritesFirst /\ OpensOnly /\ LineForgotten /\ TokensCounted /\ MarkSeen /\ ThrowsForAReason

(* The parts of FlowInv that every input operation relies on.              *)
LEMMA InputFlow ==
  ASSUME TypeInv, FlowInv, NEW op, Input(op)
  PROVE  /\ job.lines => \A n \in 1 .. Len(job'.in) : job'.in[n][1] \notin {"open", "skip"}
         /\ op # "open" => Started
         /\ job.lines => op # "skip" /\ (op = "open" => got = <<>>)
         /\ job.out = <<>> /\ job'.out = <<>> /\ pc = "next"
<1> DEFINE n == Len(job.in)
<1>1. /\ job.in \in Seq(Inputs) /\ job.in # <<>> /\ Head(job.in)[1] = op /\ job'.in = Tail(job.in)
      /\ job.out = <<>> /\ job'.out = job.out /\ pc = "next"
  BY InputKeeps DEF TypeInv
<1>2. /\ job'.in \in Seq(Inputs) /\ Len(job'.in) = n - 1 /\ n \in Nat /\ n > 0 /\ job.in[1][1] = op
      /\ \A k \in 1 .. n - 1 : job'.in[k] = job.in[k + 1]
  BY <1>1, TailIs
<1>3. ASSUME job.lines, NEW k \in 1 .. Len(job'.in) PROVE job'.in[k][1] \notin {"open", "skip"}
  <2> DEFINE i == k + 1
  <2>1. i \in 1 .. n /\ i # 1 /\ job'.in[k] = job.in[i]
    BY <1>2
  <2> HIDE DEF i
  <2>2. job.in[i][1] # "skip" /\ (job.in[i][1] = "open" => i = 1)
    BY <1>3, <2>1 DEF FlowInv, OpensOnly
  <2> QED BY <2>1, <2>2
<1>4. 1 \in 1 .. n
  BY <1>2
<1>5. job.lines => job.in[1][1] # "skip" /\ (job.in[1][1] = "open" => got = <<>>)
  BY <1>4 DEF FlowInv, OpensOnly
<1> QED BY <1>1, <1>2, <1>3, <1>5 DEF Started

(* The order of calls, operation by operation.                             *)
LEMMA FlowOutput ==
  ASSUME TypeInv, FlowInv, PutString \/ PutOther \/ PutNewline \/ PutSep
  PROVE  FlowInv'
<1>1. PICK op : Output(op)
  BY DEF PutString, PutOther, PutNewline, PutSep, Put
<1>2. /\ Kept /\ job'.in = job.in /\ job.out # <<>> /\ pc = "next"
  BY <1>1, OutputKeeps DEF TypeInv
<1>3. /\ UNCHANGED <<pc, has_bom, first_line_read, str, pos, token_num, got>>
  BY <1>1 DEF Output, stream, opened, column
<1>4. Started' <=> Started
  BY <1>2, <1>3 DEF Started
<1>5. ~Started
  BY <1>2 DEF FlowInv, WritesFirst
<1>6. WritesFirst'
  BY <1>4, <1>5 DEF WritesFirst
<1>7. OpensOnly'
  BY <1>2, <1>3 DEF FlowInv, OpensOnly, Kept
<1>8. LineForgotten' /\ TokensCounted' /\ ThrowsForAReason'
  BY <1>2, <1>3 DEF FlowInv, LineForgotten, TokensCounted, ThrowsForAReason
<1>9. MarkSeen'
  BY <1>2, <1>3, <1>4, <1>5 DEF FlowInv, MarkSeen, Kept
<1> QED BY <1>6, <1>7, <1>8, <1>9 DEF FlowInv

LEMMA FlowOpen ==
  ASSUME TypeInv, FlowInv, OpenFile \/ SetInputString
  PROVE  FlowInv'
<1>1. Input("open")
  BY DEF OpenFile, SetInputString
<1>2. /\ Kept /\ UNCHANGED text /\ pc = "next" /\ pc' = pc /\ got' = got /\ job \in Job
  BY <1>1, InputKeeps DEF TypeInv, OpenFile, SetInputString
<1>3. /\ job.lines => \A n \in 1 .. Len(job'.in) : job'.in[n][1] \notin {"open", "skip"}
      /\ job.lines => got = <<>>
      /\ job'.out = <<>>
  BY <1>1, InputFlow
<1>4. str' = <<>> /\ pos' = 0
  BY DEF OpenFile, SetInputString, Reset
<1>5. WritesFirst'
  BY <1>3 DEF WritesFirst
<1>6. OpensOnly'
  BY <1>2, <1>3 DEF OpensOnly, Kept
<1>7. LineForgotten' /\ TokensCounted' /\ ThrowsForAReason'
  BY <1>2, <1>4 DEF FlowInv, LineForgotten, TokensCounted, ThrowsForAReason
<1>8. MarkSeen'
  <2>1. LooksMarked' <=> LooksMarked
    BY <1>2 DEF LooksMarked, At
  <2>2. CASE OpenFile
    <3>1. /\ job.stream # "string" /\ (has_bom' <=> job.exists /\ LooksMarked) /\ first_line_read' = FALSE
      BY <2>2 DEF OpenFile, LooksMarked
    <3>2. has_bom' \in BOOLEAN
      BY <2>2 DEF OpenFile
    <3> QED BY <1>2, <2>1, <3>1, <3>2 DEF MarkSeen, Kept
  <2>3. CASE SetInputString
    <3>1. job.stream = "string" /\ has_bom' = has_bom /\ first_line_read' = first_line_read
      BY <2>3 DEF SetInputString
    <3>2. has_bom = FALSE
      BY <3>1 DEF FlowInv, MarkSeen, TypeInv
    <3>3. job.lines => ~first_line_read
      BY <1>2, <1>3 DEF FlowInv, MarkSeen
    <3> QED BY <1>2, <2>1, <3>1, <3>2, <3>3 DEF MarkSeen, Kept
  <2> QED BY <2>2, <2>3
<1> QED BY <1>5, <1>6, <1>7, <1>8 DEF FlowInv

LEMMA FlowInput ==
  ASSUME TypeInv, FlowInv, EnableTrimQuote \/ SetSep \/ ReadLine \/ ReadColumn
  PROVE  FlowInv'
<1>1. PICK op \in {"trim_quote", "sep", "line", "string", "number"} : Input(op)
  BY DEF EnableTrimQuote, SetSep, ReadLine, ReadColumn
<1>2. /\ Kept /\ UNCHANGED text /\ pc = "next" /\ job \in Job
  BY <1>1, InputKeeps DEF TypeInv
<1>3. /\ job.lines => \A n \in 1 .. Len(job'.in) : job'.in[n][1] \notin {"open", "skip"}
      /\ job'.out = <<>> /\ Started
  BY <1>1, InputFlow
<1>4. /\ got' = got /\ token_num' = token_num /\ pos' = pos /\ has_bom' = has_bom
      /\ first_line_read' = first_line_read
      /\ pc' # "thrown" /\ ((str' = str /\ pc' # "read_line") \/ str' = <<>>)
  BY <1>1, <1>2 DEF EnableTrimQuote, SetSep, ReadLine, ReadColumn, opened, stream, column, Input
<1>5. WritesFirst' /\ OpensOnly'
  BY <1>2, <1>3 DEF WritesFirst, OpensOnly, Kept
<1>6. LineForgotten'
  BY <1>4 DEF FlowInv, LineForgotten
<1>7. TokensCounted' /\ ThrowsForAReason'
  BY <1>2, <1>4 DEF FlowInv, TokensCounted, ThrowsForAReason
<1>8. MarkSeen'
  <2>1. LooksMarked' <=> LooksMarked
    BY <1>2 DEF LooksMarked, At
  <2> QED BY <1>2, <1>3, <1>4, <2>1 DEF FlowInv, MarkSeen, Kept
<1> QED BY <1>5, <1>6, <1>7, <1>8 DEF FlowInv

(* What is kept by the calls that read.                                    *)
LEMMA FlowRead ==
  ASSUME TypeInv, FlowInv, Started, text' = text, Kept, job.out = <<>>, job'.out = <<>>,
         \/ job' = job /\ pc # "next"
         \/ job.lines => \A n \in 1 .. Len(job'.in) : job'.in[n][1] \notin {"open", "skip"},
         has_bom' = has_bom
  PROVE  /\ WritesFirst' /\ OpensOnly' /\ (job.stream = "string" => ~has_bom)
         /\ job.lines => has_bom' = (job'.stream # "string" /\ job'.exists /\ LooksMarked')
<1>1. WritesFirst'
  BY DEF WritesFirst
<1>2. OpensOnly'
  <2>1. CASE job' = job /\ pc # "next"
    BY <2>1 DEF FlowInv, OpensOnly
  <2>2. CASE job.lines => \A n \in 1 .. Len(job'.in) : job'.in[n][1] \notin {"open", "skip"}
    BY <2>2 DEF OpensOnly, Kept
  <2> QED BY <2>1, <2>2
<1>3. LooksMarked' <=> LooksMarked
  BY DEF LooksMarked, At
<1>4. (job.stream = "string" => ~has_bom)
      /\ (job.lines => has_bom' = (job'.stream # "string" /\ job'.exists /\ LooksMarked'))
  BY <1>3 DEF FlowInv, MarkSeen, Kept
<1> QED BY <1>1, <1>2, <1>4

LEMMA FlowSkip ==
  ASSUME TypeInv, FlowInv, SkipLine
  PROVE  FlowInv'
<1>1. Input("skip") /\ UNCHANGED <<pc, has_bom, token_num, got>>
  BY DEF SkipLine
<1>2. /\ Kept /\ UNCHANGED text /\ pc = "next" /\ job \in Job
  BY <1>1, InputKeeps DEF TypeInv
<1>3. /\ ~job.lines /\ job.out = <<>> /\ job'.out = <<>> /\ Started
  BY <1>1, InputFlow, <1>2, JobIs
<1>4. WritesFirst' /\ OpensOnly' /\ (job.stream = "string" => ~has_bom)
  BY <1>1, <1>2, <1>3, FlowRead
<1>5. MarkSeen'
  BY <1>1, <1>2, <1>3, <1>4 DEF MarkSeen, Kept
<1>6. (str' = str /\ pos' = pos) \/ pos' = 0
  BY DEF SkipLine
<1>7. LineForgotten'
  <2>1. Len(str') \in Nat
    <3>1. TypeInv'
      BY ReadType
    <3> QED BY <3>1 DEF TypeInv, Text
  <2> QED BY <1>1, <1>2, <1>6, <2>1 DEF FlowInv, LineForgotten
<1>8. TokensCounted' /\ ThrowsForAReason'
  BY <1>1, <1>2, <1>6 DEF FlowInv, TokensCounted, ThrowsForAReason
<1> QED BY <1>4, <1>5, <1>7, <1>8 DEF FlowInv

(* What read_line() and the calls behind it add to the history.            *)
LEMMA AppendIs ==
  ASSUME NEW T, NEW ss \in Seq(T), NEW u \in T
  PROVE  LET tt == Append(ss, u)
         IN  /\ tt \in Seq(T) /\ tt # <<>> /\ Len(tt) = Len(ss) + 1 /\ Len(ss) \in Nat
             /\ tt[Len(tt)] = u /\ \A k \in 1 .. Len(ss) : tt[k] = ss[k]
  OBVIOUS

LEMMA ThrowIs ==
  ASSUME TypeInv, NEW what \in {"out_of_range", "conversion"}, Throw(what)
  PROVE  /\ pc' = "thrown" /\ got' # <<>> /\ Len(got') = Len(got) + 1
         /\ got'[Len(got')][1].by = what
         /\ \A k \in 1 .. Len(got) : got'[k] = got[k]
<1> DEFINE en == Entry(<<>>, what)
<1>1. <<en>> \in Seq(Got) /\ en.by = what /\ got \in Seq(Seq(Got)) /\ <<en>>[1] = en
  BY EntryIs, LetterTexts DEF TypeInv
<1>2. pc' = "thrown" /\ got' = Append(got, <<en>>)
  BY DEF Throw
<1> HIDE DEF en
<1>3. /\ got' # <<>> /\ Len(got') = Len(got) + 1 /\ got'[Len(got')] = <<en>>
      /\ \A k \in 1 .. Len(got) : got'[k] = got[k]
  BY <1>1, <1>2, AppendIs
<1> QED BY <1>1, <1>2, <1>3

LEMMA GiveIs ==
  ASSUME TypeInv, NEW v \in Text, NEW by \in {"string", "number", "rest"}, Give(v, by)
  PROVE  /\ Len(got') = Len(got) /\ Len(got) \in Nat /\ (got' = <<>> <=> got = <<>>)
         /\ got = <<>> => got' = got
         /\ got # <<>> => /\ got'[Len(got)] = Append(got[Len(got)], Entry(v, by))
                          /\ Len(got) \in 1 .. Len(got)
                          /\ \A k \in 1 .. Len(got) : k # Len(got) => got'[k] = got[k]
<1> DEFINE en == Entry(v, by)
<1>1. en \in Got /\ got \in Seq(Seq(Got))
  BY EntryIs DEF TypeInv
<1>2. got' = [got EXCEPT ![Len(got)] = Append(@, en)]
  BY DEF Give
<1> HIDE DEF en
<1>3. CASE got = <<>>
  <2>1. got' = got
    BY <1>2, <1>3
  <2> QED BY <2>1, <1>3
<1>4. CASE got # <<>>
  <2>1. /\ Len(got') = Len(got) /\ Len(got) \in Nat /\ got' # <<>> /\ Len(got) \in 1 .. Len(got)
        /\ got'[Len(got)] = Append(got[Len(got)], en)
        /\ \A k \in 1 .. Len(got) : k # Len(got) => got'[k] = got[k]
    BY <1>1, <1>2, <1>4, LastIs
  <2> QED BY <2>1, <1>4 DEF en
<1> QED BY <1>3, <1>4

LEMMA FlowRest ==
  ASSUME TypeInv, FlowInv, RestOfLine
  PROVE  FlowInv'
<1>1. Input("rest") /\ UNCHANGED <<has_bom, first_line_read, str, pos, token_num>>
  BY DEF RestOfLine, opened
<1>2. /\ Kept /\ UNCHANGED text /\ pc = "next" /\ job \in Job
  BY <1>1, InputKeeps DEF TypeInv
<1>3. /\ job.lines => \A n \in 1 .. Len(job'.in) : job'.in[n][1] \notin {"open", "skip"}
      /\ job.out = <<>> /\ job'.out = <<>> /\ Started
  BY <1>1, InputFlow
<1>4. /\ WritesFirst' /\ OpensOnly' /\ (job.stream = "string" => ~has_bom)
      /\ job.lines => has_bom' = (job'.stream # "string" /\ job'.exists /\ LooksMarked')
  BY <1>1, <1>2, <1>3, FlowRead
<1>5. got # <<>> => got' # <<>>
  <2>1. CASE pos > Len(str)
    <3>1. Throw("out_of_range")
      BY <2>1 DEF RestOfLine
    <3> QED BY <3>1, ThrowIs
  <2>2. CASE ~(pos > Len(str))
    <3>1. Give(SubSeq(str, pos + 1, Len(str)), "rest")
      BY <2>2 DEF RestOfLine
    <3>2. str \in Text /\ pos + 1 \in Nat /\ pos + 1 >= 1 /\ pos + 1 <= Len(str) + 1
      BY <2>2 DEF TypeInv, Text
    <3>3. SubSeq(str, pos + 1, Len(str)) \in Text
      BY <3>2, SubText
    <3> QED BY <3>1, <3>3, GiveIs
  <2> QED BY <2>1, <2>2
<1>6. pc' \in {"next", "thrown"} /\ (pc' = "thrown" => pos > Len(str))
  BY <1>2 DEF RestOfLine, Throw
<1>7. MarkSeen'
  BY <1>1, <1>2, <1>4, <1>5 DEF FlowInv, MarkSeen, Kept
<1>8. LineForgotten' /\ TokensCounted'
  BY <1>1, <1>2, <1>6 DEF FlowInv, LineForgotten, TokensCounted
<1>9. ThrowsForAReason'
  <2> SUFFICES ASSUME pc' = "thrown" PROVE token_num > 0 /\ str = <<>>
    BY <1>1 DEF ThrowsForAReason
  <2>1. pos > Len(str) /\ pos \in Nat /\ Len(str) \in Nat
    BY <1>6 DEF TypeInv, Text
  <2> QED BY <1>2, <2>1 DEF FlowInv, LineForgotten, TokensCounted
<1> QED BY <1>4, <1>7, <1>8, <1>9 DEF FlowInv

(* What a round of read_line() does.                                       *)
LEMMA RoundIs ==
  ASSUME LineRound
  PROVE  /\ pc = "read_line" /\ UNCHANGED <<job, text, written, has_bom, quote_unescape, delimiter>>
         /\ \/ /\ eofbit /\ pc' = "next" /\ got' = Append(got, NoLine)
               /\ UNCHANGED <<next, eofbit, failbit, first_line_read, str, pos, line_num, token_num>>
            \/ /\ ~eofbit /\ GetLine /\ first_line_read' = TRUE /\ pos' = 0
               /\ \/ /\ BomThrows(Line) /\ Throw("out_of_range") /\ str' = Line
                     /\ UNCHANGED token_num
                  \/ /\ ~BomThrows(Line) /\ str' = WithoutBom(Line)
                     /\ \/ /\ str' # <<>> \/ (~job.terminate /\ job.allow)
                           /\ pc' = "next" /\ got' = Append(got, <<>>) /\ token_num' = 0
                        \/ /\ ~(str' # <<>> \/ (~job.terminate /\ job.allow)) /\ UNCHANGED token_num
                           /\ IF job.terminate THEN pc' = "next" /\ got' = Append(got, NoLine)
                              ELSE pc' = pc /\ got' = got
<1>1. pc = "read_line" /\ UNCHANGED <<job, text, written, has_bom, quote_unescape, delimiter>>
  BY DEF LineRound, writer
<1>2. CASE eofbit
  BY <1>1, <1>2 DEF LineRound, NoMore, stream
<1>3. CASE ~eofbit
  <2>1. /\ GetLine /\ first_line_read' = TRUE /\ pos' = 0
        /\ IF BomThrows(Line)
             THEN Throw("out_of_range") /\ str' = Line /\ token_num' = token_num
             ELSE /\ str' = WithoutBom(Line)
                  /\ IF str' # <<>> \/ (~job.terminate /\ job.allow)
                       THEN pc' = "next" /\ got' = Append(got, <<>>) /\ token_num' = 0
                       ELSE /\ pc' = IF job.terminate THEN "next" ELSE pc
                            /\ got' = IF job.terminate THEN Append(got, NoLine) ELSE got
                            /\ token_num' = token_num
    BY <1>3 DEF LineRound, NoMore
  <2> QED BY <1>1, <1>3, <2>1
<1> QED BY <1>2, <1>3

LEMMA FlowRound ==
  ASSUME TypeInv, FlowInv, LineRound
  PROVE  FlowInv'
<1>1. pc = "read_line" /\ UNCHANGED <<job, text, has_bom>>
  BY RoundIs
<1>2. Kept /\ Started /\ job.out = <<>>
  BY <1>1 DEF Kept, Started, FlowInv, WritesFirst
<1>3. /\ WritesFirst' /\ OpensOnly' /\ (job.stream = "string" => ~has_bom)
      /\ job.lines => has_bom' = (job'.stream # "string" /\ job'.exists /\ LooksMarked')
  BY <1>1, <1>2, FlowRead
<1>4. Append(got, NoLine) # <<>> /\ Append(got, <<>>) # <<>>
  <2>1. NoLine \in Seq(Got) /\ <<>> \in Seq(Got) /\ got \in Seq(Seq(Got))
    BY EntryIs, LetterTexts DEF TypeInv, NoLine
  <2>2. ASSUME NEW u \in Seq(Got) PROVE Append(got, u) # <<>>
    BY <2>1, AppendIs
  <2> QED BY <2>1, <2>2
<1>5. CASE /\ eofbit /\ pc' = "next" /\ got' = Append(got, NoLine)
           /\ UNCHANGED <<first_line_read, str, pos, token_num>>
  <2>1. MarkSeen'
    BY <1>1, <1>3, <1>4, <1>5 DEF MarkSeen
  <2>2. LineForgotten' /\ TokensCounted' /\ ThrowsForAReason'
    BY <1>1, <1>5 DEF FlowInv, LineForgotten, TokensCounted, ThrowsForAReason
  <2> QED BY <1>3, <2>1, <2>2 DEF FlowInv
<1>6. CASE pos' = 0 /\ BomThrows(Line) /\ Throw("out_of_range") /\ str' = Line
  <2>1. got' # <<>> /\ pc' = "thrown"
    BY <1>6, ThrowIs
  <2>2. MarkSeen'
    BY <1>1, <1>3, <2>1 DEF MarkSeen
  <2>3. Len(Line) \in Nat
    BY LineStopIs DEF Text
  <2>4. LineForgotten' /\ TokensCounted'
    BY <1>6, <2>1, <2>3 DEF LineForgotten, TokensCounted
  <2>5. has_bom' /\ Len(str') < 3
    BY <1>1, <1>6 DEF BomThrows
  <2> QED BY <1>3, <2>2, <2>4, <2>5 DEF FlowInv, ThrowsForAReason
<1>7. CASE /\ pos' = 0
           /\ \/ pc' = "next" /\ got' \in {Append(got, <<>>), Append(got, NoLine)}
              \/ pc' = pc /\ got' = got /\ str' = <<>>
  <2>1. MarkSeen'
    BY <1>1, <1>3, <1>4, <1>7 DEF MarkSeen
  <2>2. Len(str') \in Nat
    <3>1. TypeInv'
      BY LineRoundType
    <3> QED BY <3>1 DEF TypeInv, Text
  <2>3. LineForgotten' /\ TokensCounted' /\ ThrowsForAReason'
    BY <1>1, <1>7, <2>2 DEF LineForgotten, TokensCounted, ThrowsForAReason
  <2> QED BY <1>3, <2>1, <2>3 DEF FlowInv
<1> QED BY RoundIs, <1>5, <1>6, <1>7

(* What a column that is given leaves behind.                              *)
LEMMA GiveTokenIs ==
  ASSUME TypeInv, NEW s \in Text, GiveToken(s), InColumn
  PROVE  /\ token_num' = token_num + 1
         /\ \/ pc' = "replace" /\ got' = got /\ quote_unescape = <<>>
            \/ /\ quote_unescape = QuoteEscape
               /\ \/ Throw("conversion")
                  \/ \E v \in Text :
                       /\ v = IF pc = "number" THEN NumberIn(Unescape(s)) ELSE Unescape(s)
                       /\ pc' = "next" /\ Give(v, pc)
<1> DEFINE v == IF pc = "number" THEN NumberIn(Unescape(s)) ELSE Unescape(s)
<1>1. CASE Hangs
  BY <1>1 DEF GiveToken, Hangs
<1>2. CASE ~Hangs
  <2>1. quote_unescape = QuoteEscape
    BY <1>2 DEF Hangs, TypeInv
  <2>2. Unescape(s) \in Text
    BY <1>2, UnescapeType DEF Hangs
  <2>3. v \in Text
    BY <2>2, NumberType
  <2>4. token_num' = token_num + 1 /\ (Throw("conversion") \/ (pc' = "next" /\ Give(v, pc)))
    BY <1>2 DEF GiveToken
  <2> HIDE DEF v
  <2>5. v = IF pc = "number" THEN NumberIn(Unescape(s)) ELSE Unescape(s)
    BY DEF v
  <2> QED BY <2>1, <2>3, <2>4, <2>5
<1> QED BY <1>1, <1>2

LEMMA FlowColumn ==
  ASSUME TypeInv, FlowInv, LastColumn \/ DoubledQuote \/ ColumnChar
  PROVE  FlowInv'
<1>1. /\ UNCHANGED <<job, text, has_bom, first_line_read>> /\ InColumn /\ pc \in {"string", "number"}
  BY DEF LastColumn, DoubledQuote, ColumnChar, opened, InColumn
<1>2. Kept /\ Started /\ job.out = <<>>
  BY <1>1 DEF Kept, Started, FlowInv, WritesFirst
<1>3. /\ WritesFirst' /\ OpensOnly' /\ (job.stream = "string" => ~has_bom)
      /\ job.lines => has_bom' = (job'.stream # "string" /\ job'.exists /\ LooksMarked')
  BY <1>1, <1>2, FlowRead
<1>4. token \in Text /\ pos \in Nat /\ token_num \in Nat /\ Len(str) \in Nat
  BY DEF TypeInv, Text
<1>5. /\ (str' = <<>> \/ (str' = str /\ pos' \in Nat /\ pos' <= Len(str)))
      /\ \/ GiveToken(token)
         \/ UNCHANGED <<pc, token_num, got>>
  <2>1. CASE LastColumn
    BY <2>1 DEF LastColumn
  <2>2. CASE DoubledQuote
    <3>1. At(str, pos + 2) = Quote /\ pos' = pos + 2 /\ str' = str /\ UNCHANGED <<pc, token_num, got>>
      BY <2>2 DEF DoubledQuote
    <3>2. pos + 2 \in DOMAIN str
      BY <3>1 DEF At, Quote
    <3>3. DOMAIN str = 1 .. Len(str)
      BY DEF TypeInv, Text
    <3> QED BY <3>1, <3>2, <3>3, <1>4
  <2>3. CASE ColumnChar
    <3>1. pos < Len(str) /\ pos' = pos + 1 /\ str' = str
          /\ (GiveToken(token) \/ UNCHANGED <<pc, token_num, got>>)
      BY <2>3 DEF ColumnChar
    <3> QED BY <3>1, <1>4
  <2> QED BY <2>1, <2>2, <2>3
<1>6. /\ (got # <<>> => got' # <<>>)
      /\ pc' \in {"string", "number"} \/ token_num' > 0
      /\ pc' \in {"string", "number", "next", "replace", "thrown"}
      /\ pc' = "thrown" => got'[Len(got')][1].by # "out_of_range"
  <2>1. CASE UNCHANGED <<pc, token_num, got>>
    BY <1>1, <2>1
  <2>2. CASE GiveToken(token)
    <3>1. token_num' > 0
      BY <1>1, <1>4, <2>2, GiveTokenIs
    <3>2. CASE pc' = "replace" /\ got' = got
      BY <3>1, <3>2
    <3>3. CASE Throw("conversion")
      BY <3>1, <3>3, ThrowIs
    <3>4. CASE \E v \in Text : pc' = "next" /\ Give(v, pc)
      BY <1>1, <3>1, <3>4, GiveIs
    <3> QED BY <1>1, <1>4, <2>2, <3>2, <3>3, <3>4, GiveTokenIs
  <2> QED BY <1>5, <2>1, <2>2
<1>7. MarkSeen'
  BY <1>1, <1>3, <1>6 DEF FlowInv, MarkSeen
<1>8. LineForgotten' /\ TokensCounted' /\ ThrowsForAReason'
  BY <1>5, <1>6 DEF FlowInv, LineForgotten, TokensCounted, ThrowsForAReason
<1> QED BY <1>3, <1>7, <1>8 DEF FlowInv

LEMMA FlowInit ==
  ASSUME Init
  PROVE  FlowInv
<1>1. /\ job \in Job /\ (job.in # <<>> => job.in[1][1] = "open")
      /\ job.lines => \A n \in 2 .. Len(job.in) : job.in[n][1] \notin {"open", "skip"}
  <2>1. job \in Jobs
    BY DEF Init
  <2>2. job \in Job
    BY <2>1, MiniCsvConstants
  <2>3. \A j \in Jobs : OpensFirst(j)
    BY MiniCsvConstants
  <2>4. OpensFirst(job)
    BY <2>1, <2>3
  <2> QED BY <2>2, <2>4 DEF OpensFirst
<1>2. ~Started
  BY <1>1 DEF Init, Started
<1>3. OpensOnly
  <2> SUFFICES ASSUME job.lines, NEW n \in 1 .. Len(job.in)
               PROVE  job.in[n][1] # "skip" /\ (job.in[n][1] = "open" => n = 1)
    BY DEF OpensOnly, Init
  <2>1. job.in \in Seq(Inputs)
    BY <1>1, JobIs
  <2>2. CASE n = 1
    BY <1>1, <2>1, <2>2
  <2>3. CASE n # 1
    <3>1. n \in 2 .. Len(job.in)
      BY <2>1, <2>3
    <3> QED BY <1>1, <2>3, <3>1
  <2> QED BY <2>2, <2>3
<1> QED BY <1>2, <1>3 DEF Init, FlowInv, WritesFirst, LineForgotten, TokensCounted, MarkSeen, ThrowsForAReason

LEMMA FlowNext ==
  ASSUME TypeInv, FlowInv, [Next]_vars
  PROVE  FlowInv'
<1>1. CASE PutString \/ PutOther \/ PutNewline \/ PutSep
  BY <1>1, FlowOutput
<1>2. CASE OpenFile \/ SetInputString
  BY <1>2, FlowOpen
<1>3. CASE EnableTrimQuote \/ SetSep \/ ReadLine \/ ReadColumn
  BY <1>3, FlowInput
<1>4. CASE SkipLine
  BY <1>4, FlowSkip
<1>5. CASE RestOfLine
  BY <1>5, FlowRest
<1>6. CASE LineRound
  BY <1>6, FlowRound
<1>7. CASE LastColumn \/ DoubledQuote \/ ColumnChar
  BY <1>7, FlowColumn
<1>8. CASE UNCHANGED vars
  BY <1>8 DEF vars, writer, stream, opened, column, FlowInv, WritesFirst, OpensOnly, LineForgotten,
              TokensCounted, MarkSeen, ThrowsForAReason, Started, LooksMarked, At
<1> QED BY <1>1, <1>2, <1>3, <1>4, <1>5, <1>6, <1>7, <1>8 DEF Next, Loop

(* A reader that has failed short of the end of its stream does not come   *)
(* back from read_line().                                                  *)
LEMMA StuckStep ==
  ASSUME TypeInv, FlowInv, [Next]_vars
  PROVE  StaysStuck
<1> SUFFICES ASSUME pc = "read_line", Stuck PROVE pc' = "read_line"
  BY DEF StaysStuck
<1>1. CASE LineRound
  <2>1. failbit /\ ~eofbit /\ ~job.terminate /\ ~job.allow /\ ~(has_bom /\ ~first_line_read)
    BY DEF Stuck
  <2>2. Line = <<>>
    BY <2>1 DEF Line, FlowInv, LineForgotten
  <2>3. ~BomThrows(Line) /\ WithoutBom(Line) = <<>>
    BY <2>1, <2>2 DEF BomThrows, WithoutBom
  <2> QED BY <1>1, <2>1, <2>3, RoundIs
<1>2. CASE UNCHANGED vars
  BY <1>2 DEF vars
<1>3. ASSUME Next, ~LineRound PROVE FALSE
  BY <1>3 DEF Next, Loop, PutString, PutOther, Put, PutNewline, PutSep, OpenFile, SetInputString,
              EnableTrimQuote, SetSep, ReadLine, SkipLine, ReadColumn, RestOfLine, Output, Input,
              LastColumn, DoubledQuote, ColumnChar, InColumn
<1> QED BY <1>1, <1>2, <1>3

(* Types, and the order of calls: what every other proof of this module    *)
(* starts from.                                                            *)
THEOREM MiniTypeCorrect == Spec => [](TypeInv /\ FlowInv)
<1>1. Init => TypeInv /\ FlowInv
  BY TypeInit, FlowInit
<1>2. TypeInv /\ FlowInv /\ [Next]_vars => (TypeInv /\ FlowInv)'
  BY TypeNext, FlowNext
<1> QED BY <1>1, <1>2, PTL DEF Spec

(* A read_line() on a stream that has failed short of its end never        *)
(* returns, if blank lines are skipped, which is why CallsReturn leaves it *)
(* out.                                                                    *)
THEOREM StuckCorrect == Spec => [][StaysStuck]_vars
<1>1. TypeInv /\ FlowInv /\ [Next]_vars => [StaysStuck]_vars
  BY StuckStep
<1> QED BY <1>1, MiniTypeCorrect, PTL DEF Spec

-----------------------------------------------------------------------------
(* Lines                                                                   *)

(* LinesAreRead of the k-th line, and where the stream is between two      *)
(* calls: it has passed as many lines as were given, and holds the one it  *)
(* gave last.                                                              *)
LineGiven(k) ==
  IF \E e \in Counted : IsNth(e, k) /\ (job.terminate => Begin(e) < e)
    THEN \A n \in DOMAIN got[k] :
           /\ got[k][n].by # "none"
           /\ (\A i \in 1 .. n : got[k][i].by = "rest") =>
                \A e \in Counted : IsNth(e, k) => got[k][n].value = SubSeq(text, Begin(e), e - 1)
    ELSE got[k] # <<>> /\ got[k][1].by = "none"

Before(n) == {b \in Counted : b < n}

StreamPlace ==
  ~eofbit => /\ ~failbit /\ Cardinality(Before(next)) = Len(got)
             /\ IF first_line_read THEN next - 1 \in Ends /\ text[next - 1] = NL ELSE next = 1
AllCounted == eofbit => Cardinality(Counted) <= Len(got)
LineHeld ==
  pc = "next" /\ got # <<>> =>
    LET k == Len(got)
    IN  (\A i \in 1 .. Len(got[k]) : got[k][i].by = "rest") =>
          \A e \in Counted : IsNth(e, k) => pos = 0 /\ str = SubSeq(text, Begin(e), e - 1)

(* The stream stands behind as many counted lines as calls of read_line()  *)
(* returned, and every one was given as it is.                             *)
LinesInv ==
  job.lines /\ Started /\ Readable /\ pc # "thrown" =>
    StreamPlace /\ AllCounted /\ LineHeld /\ \A k \in 1 .. Len(got) : LineGiven(k)

(* The lines of a text stay while it does.                                 *)
LEMMA LinesSame ==
  ASSUME text' = text, Kept
  PROVE  /\ MarkLen' = MarkLen /\ Ends' = Ends /\ Counted' = Counted
         /\ \A e : Begin(e)' = Begin(e)
         /\ \A e, k : IsNth(e, k)' <=> IsNth(e, k)
         /\ \A n : Before(n)' = Before(n)
<1>1. MarkLen' = MarkLen
  BY DEF Kept, MarkLen, Marked
<1>2. Ends' = Ends
  BY <1>1 DEF Ends
<1>3. \A e : Begin(e)' = Begin(e)
  BY <1>1, <1>2 DEF Begin
<1>4. Counted' = Counted
  BY <1>2, <1>3 DEF Counted, Kept
<1> QED BY <1>1, <1>2, <1>3, <1>4 DEF IsNth, Before

(* The ends of lines are finitely many places.                             *)
LEMMA EndsIs ==
  ASSUME TypeInv
  PROVE  /\ MarkLen \in {0, 3} /\ Len(text) \in Nat
         /\ Ends \in SUBSET (1 .. Len(text) + 1) /\ Counted \in SUBSET (1 .. Len(text) + 1)
         /\ IsFiniteSet(Counted) /\ Cardinality(Counted) \in Nat
         /\ \A n : IsFiniteSet(Before(n)) /\ Cardinality(Before(n)) \in Nat
<1>1. Len(text) \in Nat
  BY DEF TypeInv, Text
<1>2. MarkLen \in {0, 3}
  BY DEF MarkLen
<1>3. Ends \in SUBSET (1 .. Len(text) + 1)
  BY <1>1, <1>2 DEF Ends
<1>4. Counted \in SUBSET (1 .. Len(text) + 1)
  BY <1>3 DEF Counted
<1>5. IsFiniteSet(1 .. Len(text) + 1)
  BY <1>1, FS_Interval
<1>6. IsFiniteSet(Counted)
  BY <1>4, <1>5, FS_Subset
<1>7. ASSUME NEW n PROVE IsFiniteSet(Before(n))
  BY <1>6, FS_Subset DEF Before
<1> QED BY <1>1, <1>2, <1>3, <1>4, <1>6, <1>7, FS_CardinalityType

(* Counting one more.                                                      *)
LEMMA CountOne ==
  ASSUME TypeInv, NEW e \in Counted, NEW S, S \subseteq Counted, Before(e) \cup {e} \subseteq S
  PROVE  /\ Cardinality(Before(e)) + 1 <= Cardinality(S) /\ Cardinality(S) \in Nat
         /\ S = Before(e) \cup {e} => Cardinality(S) = Cardinality(Before(e)) + 1
<1> DEFINE A == Before(e)
<1>1. IsFiniteSet(A) /\ Cardinality(A) \in Nat /\ IsFiniteSet(Counted) /\ e \in Nat
  BY EndsIs
<1>2. e \notin A
  BY <1>1 DEF Before
<1>3. IsFiniteSet(A \cup {e}) /\ Cardinality(A \cup {e}) = Cardinality(A) + 1
  BY <1>1, <1>2, FS_AddElement
<1>4. IsFiniteSet(S)
  BY <1>1, FS_Subset
<1>5. Cardinality(A \cup {e}) <= Cardinality(S) /\ Cardinality(S) \in Nat
  BY <1>3, <1>4, FS_Subset, FS_CardinalityType
<1> HIDE DEF A
<1>6. Cardinality(A) + 1 <= Cardinality(S)
  BY <1>3, <1>5
<1> QED BY <1>3, <1>5, <1>6 DEF A

(* No two lines are the k-th, and none is behind the last.                 *)
LEMMA OneNth ==
  ASSUME TypeInv, NEW k \in Nat, NEW d, NEW e, IsNth(d, k), IsNth(e, k)
  PROVE  d = e
<1>1. d \in Counted /\ e \in Counted /\ d \in Nat /\ e \in Nat
      /\ Cardinality(Before(d)) = k - 1 /\ Cardinality(Before(e)) = k - 1
  BY EndsIs DEF IsNth, Before
<1>2. ASSUME NEW a \in Counted, NEW b \in Counted, a < b,
             Cardinality(Before(a)) = k - 1, Cardinality(Before(b)) = k - 1
      PROVE  FALSE
  <2>1. Before(b) \subseteq Counted /\ Before(a) \cup {a} \subseteq Before(b)
    <3>1. Counted \subseteq Nat
      BY EndsIs
    <3>2. Before(b) \subseteq Counted
      BY DEF Before
    <3>3. a \in Before(b)
      BY <1>2 DEF Before
    <3>4. ASSUME NEW x \in Before(a) PROVE x \in Before(b)
      <4>1. x \in Counted /\ x < a
        BY DEF Before
      <4>2. x \in Nat /\ a \in Nat /\ b \in Nat /\ a < b
        BY <3>1, <4>1, <1>2
      <4>3. x < b
        BY <4>1, <4>2
      <4> QED BY <4>1, <4>3 DEF Before
    <3> QED BY <3>2, <3>3, <3>4
  <2>2. Cardinality(Before(a)) + 1 <= Cardinality(Before(b))
    BY <2>1, CountOne
  <2> QED BY <1>2, <2>2
<1> QED BY <1>1, <1>2

LEMMA NoneNth ==
  ASSUME TypeInv, NEW e, NEW k \in Nat, Cardinality(Counted) < k, IsNth(e, k)
  PROVE  FALSE
<1>1. e \in Counted /\ Cardinality(Before(e)) = k - 1
  BY DEF IsNth, Before
<1>2. Counted \subseteq Counted /\ Before(e) \cup {e} \subseteq Counted
  BY <1>1 DEF Before
<1>3. Cardinality(Before(e)) + 1 <= Cardinality(Counted) /\ Cardinality(Counted) \in Nat
  BY <1>1, <1>2, CountOne
<1> QED BY <1>1, <1>3

(* The CHOOSE of Max() finds the largest.                                  *)
LEMMA MaxIs ==
  ASSUME NEW S \in SUBSET Nat, NEW m \in S, \A y \in S : y <= m
  PROVE  Max(S) = m
<1>1. m \in Nat /\ S # {}
  OBVIOUS
<1>2. Max(S) \in S /\ \A y \in S : y <= Max(S)
  BY <1>1, Largest
<1>3. Max(S) <= m /\ m <= Max(S) /\ Max(S) \in Nat
  BY <1>2
<1> QED BY <1>1, <1>3

(* The mark of a readable text is what the reader took for one.            *)
LEMMA MarkIs ==
  ASSUME TypeInv, FlowInv, job.lines, Started, Readable
  PROVE  /\ MarkLen = IF has_bom THEN 3 ELSE 0
         /\ has_bom => /\ Len(text) >= 3
                       /\ \A k \in 1 .. 3 : text[k] # NL
<1>1. has_bom = (job.stream # "string" /\ job.exists /\ LooksMarked)
  BY DEF FlowInv, MarkSeen
<1>2. text \in Seq(Letters) /\ Len(text) \in Nat
  BY DEF TypeInv, Text
<1>3. ASSUME Marked(text)
      PROVE  Len(text) >= 3 /\ text[1] = "EF" /\ text[2] = "BB" /\ text[3] = "BF"
  <2>1. Len(text) >= 3 /\ SubSeq(text, 1, 3) = Mark
    BY <1>3 DEF Marked
  <2>2. 3 \in 0 .. Len(text) /\ 1 \in 1 .. 3 + 1
    BY <1>2, <2>1
  <2>3. \A j \in 1 .. 3 : SubSeq(text, 1, 3)[j] = text[j]
    BY <1>2, <2>2
  <2>4. Mark[1] = "EF" /\ Mark[2] = "BB" /\ Mark[3] = "BF"
    BY DEF Mark
  <2> QED BY <2>1, <2>3, <2>4
<1>4. CASE Marked(text) /\ job.stream # "string"
  <2>1. MarkLen = 3
    BY <1>4 DEF MarkLen
  <2>2. At(text, 1) = Mark[1] /\ 1 \in DOMAIN Mark
    <3>1. 1 \in DOMAIN text
      BY <1>2, <1>3, <1>4
    <3> QED BY <3>1, <1>3, <1>4 DEF At, Mark
  <2>3. has_bom
    BY <1>1, <1>4, <2>2 DEF Readable, LooksMarked
  <2> QED BY <1>3, <1>4, <2>1, <2>3 DEF NL
<1>5. CASE ~(Marked(text) /\ job.stream # "string")
  <2>1. MarkLen = 0
    BY <1>5 DEF MarkLen
  <2>2. ~has_bom
    BY <1>1, <1>5 DEF Readable
  <2> QED BY <2>1, <2>2
<1> QED BY <1>4, <1>5

(* The line read next.                                                     *)
LEMMA NextLine ==
  ASSUME TypeInv, FlowInv, job.lines, Started, Readable, StreamPlace, ~eofbit
  PROVE  LET e == LineStop
         IN  /\ e \in Ends /\ ~BomThrows(Line)
             /\ Begin(e) \in 1 .. e /\ WithoutBom(Line) = SubSeq(text, Begin(e), e - 1)
             /\ Begin(e) < e <=> WithoutBom(Line) # <<>>
             /\ Before(e) = Before(next)
<1> DEFINE e == LineStop
           n == Len(text)
           m == MarkLen
<1>1. /\ e \in next .. n + 1 /\ n \in Nat /\ (e <= n => text[e] = NL)
      /\ \A k \in next .. e - 1 : text[k] # NL
      /\ Line = SubSeq(text, next, e - 1) /\ Len(Line) = e - next /\ Line \in Text
      /\ \A i \in 1 .. e - next : Line[i] = text[next - 1 + i]
      /\ next \in 1 .. n + 1 /\ text \in Seq(Letters)
  BY LineStopIs DEF StreamPlace, TypeInv, Text
<1>2. /\ m = (IF has_bom THEN 3 ELSE 0)
      /\ has_bom => n >= 3 /\ \A k \in 1 .. 3 : text[k] # NL
  BY MarkIs
<1> HIDE DEF e, n, m
<1>3. IF first_line_read THEN next - 1 \in Ends /\ text[next - 1] = NL ELSE next = 1
  BY DEF StreamPlace
<1>4. Ends = {b \in m + 1 .. n + 1 : b = n + 1 \/ text[b] = NL}
  BY DEF Ends, m, n
<1>5. m \in {0, 3} /\ m + 1 <= e /\ (~first_line_read /\ has_bom => e >= 4)
  <2>1. CASE first_line_read
    <3>1. next - 1 >= m + 1
      BY <1>1, <1>2, <1>3, <1>4, <2>1
    <3> QED BY <1>1, <1>2, <2>1, <3>1
  <2>2. CASE ~first_line_read
    <3>1. next = 1
      BY <1>3, <2>2
    <3>2. has_bom => e >= 4
      <4> SUFFICES ASSUME has_bom, e \in 1 .. 3 PROVE FALSE
        BY <1>1, <3>1
      <4>1. e <= n
        BY <1>1, <1>2
      <4> QED BY <1>1, <1>2, <4>1
    <3> QED BY <1>1, <1>2, <3>1, <3>2
  <2> QED BY <2>1, <2>2
<1>6. e \in Ends
  BY <1>1, <1>4, <1>5
<1>7. ASSUME NEW b \in Ends, b < e PROVE b < next /\ b \in Nat
  <2>1. b \in m + 1 .. n + 1 /\ (b = n + 1 \/ text[b] = NL)
    BY <1>4
  <2>2. b \in Nat /\ b # n + 1
    BY <2>1, <1>1, <1>2, <1>7
  <2>3. ~(b \in next .. e - 1)
    BY <2>1, <2>2, <1>1
  <2> QED BY <2>2, <2>3, <1>1, <1>7
<1>8. Begin(e) = IF first_line_read THEN next ELSE m + 1
  <2> DEFINE S == {m} \cup {b \in Ends : b < e}
             x == IF first_line_read THEN next - 1 ELSE m
  <2>1. S \in SUBSET Nat
    BY <1>5, <1>7
  <2>2. x \in S
    <3>1. CASE first_line_read
      <4>1. next - 1 \in Ends /\ next - 1 < e
        BY <1>1, <1>3, <3>1
      <4> QED BY <4>1, <3>1
    <3>2. CASE ~first_line_read
      BY <3>2
    <3> QED BY <3>1, <3>2
  <2>3. ASSUME NEW y \in S PROVE y <= x
    <3>1. CASE first_line_read
      <4>1. next - 1 \in Ends /\ next - 1 >= m + 1
        BY <1>1, <1>3, <1>4, <1>5, <3>1
      <4>2. CASE y = m
        BY <4>1, <4>2, <3>1, <1>5, <1>1
      <4>3. CASE y \in Ends /\ y < e
        BY <4>3, <3>1, <1>7, <1>1
      <4> QED BY <4>2, <4>3
    <3>2. CASE ~first_line_read
      <4>1. next = 1
        BY <1>3, <3>2
      <4>2. ASSUME y \in Ends, y < e PROVE FALSE
        <5>1. y < 1 /\ y \in Nat /\ y \in m + 1 .. n + 1
          BY <4>1, <4>2, <1>7, <1>4
        <5> QED BY <5>1, <1>5, <1>1
      <4> QED BY <3>2, <4>2, <1>5
    <3> QED BY <3>1, <3>2
  <2> HIDE DEF S, x
  <2>4. Max(S) = x
    BY <2>1, <2>2, <2>3, MaxIs
  <2>5. Begin(e) = x + 1
    BY <2>4 DEF Begin, S, m
  <2> QED BY <2>5, <1>1, <1>5 DEF x
<1>9. Begin(e) \in 1 .. e
  BY <1>1, <1>5, <1>8
<1>10. ~BomThrows(Line)
  <2> SUFFICES ASSUME has_bom, ~first_line_read PROVE ~(Len(Line) < 3)
    BY DEF BomThrows
  <2>1. next = 1 /\ e >= 4
    BY <1>3, <1>5
  <2> QED BY <2>1, <1>1
<1>11. WithoutBom(Line) = SubSeq(text, Begin(e), e - 1)
  <2>1. CASE ~(has_bom /\ ~first_line_read)
    <3>1. Begin(e) = next
      BY <2>1, <1>1, <1>2, <1>3, <1>8
    <3> QED BY <2>1, <3>1, <1>1 DEF WithoutBom
  <2>2. CASE has_bom /\ ~first_line_read
    <3>1. next = 1 /\ Begin(e) = 4 /\ e >= 4
      BY <2>2, <1>2, <1>3, <1>5, <1>8
    <3> DEFINE h == e - 1
               u == SubSeq(Line, 4, Len(Line))
               v == SubSeq(text, 4, h)
    <3>2. h \in Nat /\ Len(Line) = h /\ h \in 0 .. n /\ 4 \in 1 .. h + 1 /\ h >= 3
          /\ \A i \in 1 .. h : Line[i] = text[i]
      BY <3>1, <1>1
    <3> HIDE DEF h
    <3>3. Line \in Seq(Letters) /\ Len(Line) \in 0 .. Len(Line) /\ 4 \in 1 .. Len(Line) + 1
      BY <3>2, <1>1 DEF Text
    <3>4. /\ u \in Seq(Letters) /\ Len(u) = h - 4 + 1 /\ \A j \in 1 .. h - 4 + 1 : u[j] = Line[4 - 1 + j]
      BY <3>2, <3>3, SubSeqIs
    <3>5. /\ v \in Seq(Letters) /\ Len(v) = h - 4 + 1 /\ \A j \in 1 .. h - 4 + 1 : v[j] = text[4 - 1 + j]
      BY <3>2, <1>1, SubSeqIs DEF n
    <3> HIDE DEF u, v
    <3>6. \A j \in 1 .. Len(u) : u[j] = v[j]
      BY <3>2, <3>4, <3>5
    <3>7. u = v
      BY <3>4, <3>5, <3>6, SameSequence
    <3> QED BY <2>2, <3>1, <3>7 DEF WithoutBom, u, v, h
  <2> QED BY <2>1, <2>2
<1>12. Begin(e) < e <=> WithoutBom(Line) # <<>>
  <2> DEFINE b == Begin(e)
             u == SubSeq(text, b, e - 1)
             h == e - 1
  <2>1. h \in 0 .. n /\ b \in 1 .. h + 1 /\ h - b + 1 = e - b
    BY <1>1, <1>9
  <2> HIDE DEF b, h
  <2>2. SubSeq(text, b, h) \in Seq(Letters) /\ Len(SubSeq(text, b, h)) = h - b + 1
    BY <2>1, <1>1, SubSeqIs DEF n
  <2>3. u \in Seq(Letters) /\ Len(u) = e - b
    BY <2>1, <2>2 DEF h
  <2>4. u = WithoutBom(Line)
    BY <1>11 DEF b
  <2> HIDE DEF u
  <2>5. u # <<>> <=> Len(u) > 0
    BY <2>3
  <2>6. b \in 1 .. e /\ e \in Nat
    BY <1>9, <1>1 DEF b
  <2>7. b < e <=> u # <<>>
    BY <2>3, <2>5, <2>6
  <2> QED BY <2>4, <2>7 DEF b
<1>13. Before(e) = Before(next)
  <2>1. \A b \in Counted : b \in Ends
    BY DEF Counted
  <2>2. \A b \in Counted : b < e <=> b < next
    <3> SUFFICES ASSUME NEW b \in Counted PROVE b < e <=> b < next
      OBVIOUS
    <3>1. b \in Nat
      BY EndsIs
    <3> QED BY <3>1, <2>1, <1>7, <1>1
  <2> QED BY <2>2 DEF Before
<1> QED BY <1>6, <1>9, <1>10, <1>11, <1>12, <1>13 DEF e

(* A line that was given stays so while its entries do.                    *)
LEMMA GivenKept ==
  ASSUME text' = text, Kept, NEW k, LineGiven(k), got'[k] = got[k]
  PROVE  LineGiven(k)'
<1>1. /\ Counted' = Counted /\ \A e : Begin(e)' = Begin(e)
      /\ \A e : IsNth(e, k)' <=> IsNth(e, k)
  BY LinesSame
<1>2. job'.terminate = job.terminate
  BY DEF Kept
<1> QED BY <1>1, <1>2 DEF LineGiven

(* The k-th line is one the caller sees.                                   *)
Shown(k) == \E e \in Counted : IsNth(e, k) /\ (job.terminate => Begin(e) < e)

LEMMA ShownKept ==
  ASSUME text' = text, Kept, NEW k
  PROVE  Shown(k)' <=> Shown(k)
<1>1. /\ Counted' = Counted /\ \A e : Begin(e)' = Begin(e)
      /\ \A e : IsNth(e, k)' <=> IsNth(e, k)
  BY LinesSame
<1>2. job'.terminate = job.terminate
  BY DEF Kept
<1> QED BY <1>1, <1>2 DEF Shown

(* One more line, given as it is or refused.                               *)
LEMMA NewGiven ==
  ASSUME text' = text, Kept, NEW k,
         \/ ~Shown(k) /\ got'[k] # <<>> /\ got'[k][1].by = "none"
         \/ Shown(k) /\ got'[k] = <<>>
  PROVE  LineGiven(k)'
<1>1. Shown(k)' <=> Shown(k)
  BY ShownKept
<1>2. CASE ~Shown(k) /\ got'[k] # <<>> /\ got'[k][1].by = "none"
  BY <1>1, <1>2 DEF LineGiven, Shown
<1>3. CASE Shown(k) /\ got'[k] = <<>>
  <2>1. DOMAIN got'[k] = {}
    BY <1>3
  <2>2. \A n \in DOMAIN got'[k] : FALSE
    BY <2>1
  <2> QED BY <1>1, <1>3, <2>2 DEF LineGiven, Shown
<1> QED BY <1>2, <1>3

LEMMA NoLineIs ==
  ASSUME TypeInv
  PROVE  /\ NoLine \in Seq(Got) /\ NoLine # <<>> /\ NoLine[1].by = "none" /\ Len(NoLine) = 1
         /\ <<>> \in Seq(Got) /\ got \in Seq(Seq(Got)) /\ Len(got) \in Nat
<1> DEFINE en == Entry(<<>>, "none")
<1>1. en \in Got /\ en.by = "none" /\ got \in Seq(Seq(Got))
  BY EntryIs, LetterTexts DEF TypeInv
<1> HIDE DEF en
<1>2. <<en>> \in Seq(Got) /\ <<en>> # <<>> /\ <<en>>[1] = en /\ Len(<<en>>) = 1
  BY <1>1
<1> QED BY <1>1, <1>2 DEF NoLine, en

LEMMA ReadableSame ==
  ASSUME text' = text, Kept, has_bom' = has_bom
  PROVE  Readable' <=> Readable
  BY DEF Readable, Marked, Kept

(* A round past the end.                                                   *)
LEMMA RoundAtEnd ==
  ASSUME TypeInv, FlowInv, LinesInv, LineRound, eofbit, job.lines, Readable
  PROVE  StreamPlace' /\ AllCounted' /\ LineHeld' /\ \A k \in 1 .. Len(got') : LineGiven(k)'
<1>1. /\ pc = "read_line" /\ UNCHANGED <<job, text, has_bom>>
      /\ got' = Append(got, NoLine) /\ UNCHANGED <<next, eofbit, failbit, first_line_read>>
  BY RoundIs
<1>2. Kept /\ Started
  BY <1>1 DEF Kept, Started
<1>3. Cardinality(Counted) <= Len(got) /\ Cardinality(Counted) \in Nat
      /\ \A k \in 1 .. Len(got) : LineGiven(k)
  BY <1>1, <1>2, EndsIs DEF LinesInv, AllCounted
<1>4. PICK m \in Nat : m = Len(got) + 1 /\ Len(got) \in Nat
  BY NoLineIs
<1>5. /\ Len(got') = m /\ got' # <<>> /\ got'[m] = NoLine /\ m \in Nat /\ Len(got) \in Nat
      /\ \A k \in 1 .. Len(got) : got'[k] = got[k]
  <2> DEFINE u == NoLine
  <2>1. u \in Seq(Got) /\ got \in Seq(Seq(Got))
    BY NoLineIs
  <2> HIDE DEF u
  <2>2. LET tt == Append(got, u)
        IN  /\ tt # <<>> /\ Len(tt) = Len(got) + 1 /\ tt[Len(tt)] = u
            /\ \A k \in 1 .. Len(got) : tt[k] = got[k]
    BY <2>1, AppendIs
  <2>3. got' = Append(got, u)
    BY <1>1 DEF u
  <2> QED BY <2>2, <2>3, <1>4 DEF u
<1>6. got'[m] # <<>> /\ got'[m][1].by = "none" /\ Len(got'[m]) = 1
  BY <1>5, NoLineIs
<1>7. Counted' = Counted
  BY <1>1, <1>2, LinesSame
<1>8. ~Shown(m)
  <2>1. Cardinality(Counted) < m
    BY <1>3, <1>4
  <2> QED BY <2>1, <1>5, NoneNth DEF Shown
<1>9. LineGiven(m)'
  BY <1>1, <1>2, <1>6, <1>8, NewGiven
<1>10. \A k \in 1 .. Len(got) : LineGiven(k)'
  BY <1>1, <1>2, <1>3, <1>5, GivenKept
<1>11. \A k \in 1 .. Len(got') : LineGiven(k)'
  <2> SUFFICES ASSUME NEW k \in 1 .. Len(got') PROVE LineGiven(k)'
    OBVIOUS
  <2>1. k = m \/ k \in 1 .. Len(got)
    BY <1>4, <1>5
  <2> QED BY <2>1, <1>9, <1>10
<1>12. StreamPlace' /\ AllCounted'
  BY <1>1, <1>3, <1>4, <1>5, <1>7 DEF StreamPlace, AllCounted
<1>13. LineHeld'
  BY <1>5, <1>6 DEF LineHeld
<1> QED BY <1>11, <1>12, <1>13

(* The lines before the next end are those before this one and this one.   *)
LEMMA BeforeNext ==
  ASSUME TypeInv, NEW e \in Ends
  PROVE  /\ e \in Counted => Cardinality(Before(e + 1)) = Cardinality(Before(e)) + 1
         /\ e \notin Counted => Before(e + 1) = Before(e)
         /\ e > Len(text) => Before(e + 1) = Counted
<1>1. Counted \subseteq Nat /\ e \in Nat /\ e <= Len(text) + 1 /\ Len(text) \in Nat
      /\ \A b \in Counted : b \in 1 .. Len(text) + 1
  BY EndsIs
<1>2. \A b \in Nat : b < e + 1 <=> b < e \/ b = e
  BY <1>1
<1>3. CASE e \in Counted
  <2>1. Before(e + 1) = Before(e) \cup {e}
    BY <1>1, <1>2, <1>3 DEF Before
  <2>2. Before(e + 1) \subseteq Counted
    BY DEF Before
  <2>3. Cardinality(Before(e + 1)) = Cardinality(Before(e)) + 1
    BY <1>3, <2>1, <2>2, CountOne
  <2>4. ASSUME e > Len(text) PROVE Before(e + 1) = Counted
    <3>1. \A b \in Counted : b < e + 1
      BY <1>1, <2>4
    <3> QED BY <3>1 DEF Before
  <2> QED BY <1>3, <2>3, <2>4
<1>4. e \notin Counted => Before(e + 1) = Before(e)
  BY <1>1, <1>2 DEF Before
<1>5. ASSUME e > Len(text) PROVE Before(e + 1) = Counted
  <2>1. \A b \in Counted : b < e + 1
    BY <1>1, <1>5
  <2> QED BY <2>1 DEF Before
<1> QED BY <1>3, <1>4, <1>5

(* A round before the end of the text: the line is given, skipped as       *)
(* blank, or the first loses its mark.                                     *)
LEMMA RoundInText ==
  ASSUME TypeInv, FlowInv, LinesInv, LineRound, ~eofbit, job.lines, Readable
  PROVE  StreamPlace' /\ AllCounted' /\ LineHeld' /\ \A k \in 1 .. Len(got') : LineGiven(k)'
<1> DEFINE e == LineStop
           b == Begin(LineStop)
<1>1. PICK m \in Nat : m = Len(got) + 1 /\ Len(got) \in Nat
  BY NoLineIs
<1>2. /\ pc = "read_line" /\ UNCHANGED <<job, text, has_bom>>
  BY RoundIs
<1>3. Kept /\ Started
  BY <1>2 DEF Kept, Started
<1>4. StreamPlace /\ \A k \in 1 .. Len(got) : LineGiven(k)
  BY <1>2, <1>3 DEF LinesInv
<1>5. /\ e \in Ends /\ ~BomThrows(Line) /\ b \in 1 .. e /\ WithoutBom(Line) = SubSeq(text, b, e - 1)
      /\ b < e <=> WithoutBom(Line) # <<>>
      /\ Before(e) = Before(next)
  BY <1>3, <1>4, NextLine
<1>6. ~failbit /\ Cardinality(Before(next)) = Len(got)
  BY <1>4 DEF StreamPlace
<1>7. /\ e \in next .. Len(text) + 1 /\ Len(text) \in Nat /\ (e <= Len(text) => text[e] = NL)
      /\ (e <= Len(text) => Behind(e) = e + 1) /\ next \in Nat
  BY LineStopIs DEF TypeInv
<1>8. /\ GetLine /\ first_line_read' = TRUE /\ pos' = 0 /\ str' = SubSeq(text, b, e - 1)
      /\ \/ /\ b < e \/ (~job.terminate /\ job.allow)
            /\ pc' = "next" /\ got' = Append(got, <<>>)
         \/ ~(b < e) /\ job.terminate /\ pc' = "next" /\ got' = Append(got, NoLine)
         \/ ~(b < e) /\ ~job.terminate /\ ~job.allow /\ pc' = pc /\ got' = got
  <2>1. /\ GetLine /\ first_line_read' = TRUE /\ pos' = 0 /\ str' = WithoutBom(Line)
        /\ \/ /\ str' # <<>> \/ (~job.terminate /\ job.allow)
              /\ pc' = "next" /\ got' = Append(got, <<>>)
           \/ /\ ~(str' # <<>> \/ (~job.terminate /\ job.allow))
              /\ IF job.terminate THEN pc' = "next" /\ got' = Append(got, NoLine)
                 ELSE pc' = pc /\ got' = got
    BY <1>5, RoundIs
  <2>2. b < e <=> WithoutBom(Line) # <<>>
    BY <1>5
  <2>3. WithoutBom(Line) = SubSeq(text, b, e - 1)
    BY <1>5
  <2> HIDE DEF e, b
  <2> QED BY <2>1, <2>2, <2>3
<1>9. /\ next' = Behind(e) /\ (eofbit' <=> e > Len(text)) /\ ~(failbit' /\ e <= Len(text))
  <2>1. /\ next' = Behind(e) /\ eofbit' = (e > Len(text))
        /\ failbit' = (e > Len(text) /\ next > Len(text))
    BY <1>6, <1>8 DEF GetLine
  <2> HIDE DEF e
  <2>2. eofbit' <=> e > Len(text)
    BY <2>1
  <2>3. failbit' => e > Len(text)
    BY <2>1
  <2>4. ~(e > Len(text) /\ e <= Len(text))
    BY <1>7
  <2> QED BY <2>1, <2>2, <2>3, <2>4
<1>10. e \in Counted <=> job.terminate \/ job.allow \/ b < e
  BY <1>5 DEF Counted
<1>11. /\ (e \in Counted => Cardinality(Before(e + 1)) = Len(got) + 1)
       /\ (e \notin Counted => Cardinality(Before(e + 1)) = Len(got))
       /\ (e > Len(text) => Before(e + 1) = Counted)
  BY <1>5, <1>6, BeforeNext
<1>12. /\ Ends' = Ends /\ Counted' = Counted /\ (\A n : Before(n)' = Before(n))
       /\ (\A d : Begin(d)' = Begin(d)) /\ (\A d, k : IsNth(d, k)' <=> IsNth(d, k))
  BY <1>2, <1>3, LinesSame
<1>13. e \in Counted => \A d : IsNth(d, m) <=> d = e
  <2> SUFFICES ASSUME e \in Counted, NEW d PROVE IsNth(d, m) <=> d = e
    OBVIOUS
  <2>1. m \in Nat /\ Cardinality(Before(e)) = m - 1
    BY <1>1, <1>5, <1>6
  <2>2. IsNth(e, m)
    BY <2>1 DEF IsNth, Before
  <2> QED BY <2>1, <2>2, OneNth
<1>14. got \in Seq(Seq(Got)) /\ Len(got) \in Nat /\ m \in Nat /\ <<>> \in Seq(Got) /\ NoLine \in Seq(Got)
  BY <1>1, NoLineIs
<1>15. ASSUME NEW u \in Seq(Got), got' = Append(got, u)
       PROVE  /\ Len(got') = m /\ got' # <<>> /\ got'[m] = u
              /\ \A k \in 1 .. Len(got) : LineGiven(k)'
  <2>1. LET tt == Append(got, u)
        IN  /\ tt # <<>> /\ Len(tt) = Len(got) + 1 /\ tt[Len(tt)] = u
            /\ \A k \in 1 .. Len(got) : tt[k] = got[k]
    BY <1>14, AppendIs
  <2>2. Len(got') = m /\ got' # <<>> /\ got'[m] = u /\ \A k \in 1 .. Len(got) : got'[k] = got[k]
    BY <2>1, <1>1, <1>15
  <2> QED BY <2>2, <1>2, <1>3, <1>4, GivenKept
<1>16. m - 1 = Len(got) /\ \A k \in 1 .. m : k = m \/ k \in 1 .. Len(got)
  BY <1>1, <1>14
<1> HIDE DEF e, b
<1>17. ASSUME Cardinality(Before(e + 1)) = Len(got')
       PROVE  StreamPlace' /\ AllCounted'
  <2>1. CASE e > Len(text)
    <3>1. eofbit' /\ Counted' = Before(e + 1)
      BY <1>9, <1>11, <1>12, <2>1
    <3>2. Cardinality(Counted') <= Len(got')
      BY <3>1, <1>17, EndsIs
    <3> QED BY <3>1, <3>2 DEF StreamPlace, AllCounted
  <2>2. CASE e <= Len(text)
    <3>1. ~eofbit' /\ ~failbit' /\ next' = e + 1 /\ next' - 1 = e /\ text'[e] = NL
      BY <1>2, <1>7, <1>9, <2>2
    <3>2. Cardinality(Before(next)') = Len(got')
      <4>1. Before(next)' = {d \in Counted' : d < next'}
        BY DEF Before
      <4>2. Before(next)' = Before(e + 1)
        BY <3>1, <4>1, <1>12 DEF Before
      <4> QED BY <4>2, <1>17
    <3>3. next' - 1 \in Ends' /\ text'[next' - 1] = NL
      BY <3>1, <1>5, <1>12 DEF e
    <3> QED BY <3>1, <3>2, <3>3, <1>8 DEF StreamPlace, AllCounted
  <2> QED BY <1>7, <2>1, <2>2
<1>18. CASE /\ b < e \/ (~job.terminate /\ job.allow)
            /\ pc' = "next" /\ got' = Append(got, <<>>)
  <2>1. e \in Counted /\ (job.terminate => b < e)
    BY <1>10, <1>18
  <2>2. /\ Len(got') = m /\ got' # <<>> /\ got'[m] = <<>> /\ \A k \in 1 .. Len(got) : LineGiven(k)'
    BY <1>14, <1>15, <1>18
  <2>3. StreamPlace' /\ AllCounted'
    BY <1>1, <2>1, <2>2, <1>11, <1>17
  <2>4. Shown(m)
    BY <2>1, <1>13 DEF Shown, e, b
  <2>5. LineGiven(m)'
    BY <1>2, <1>3, <2>2, <2>4, NewGiven
  <2>6. \A k \in 1 .. Len(got') : LineGiven(k)'
    BY <1>16, <2>2, <2>5
  <2>7. LineHeld'
    <3> SUFFICES ASSUME NEW d, IsNth(d, m)
                 PROVE  pos' = 0 /\ str' = SubSeq(text', Begin(d)', d - 1)
      BY <2>2, <1>12 DEF LineHeld
    <3>1. d = e
      BY <2>1, <1>13
    <3> QED BY <3>1, <1>2, <1>8, <1>12 DEF e, b
  <2> QED BY <2>3, <2>6, <2>7
<1>19. CASE ~(b < e) /\ job.terminate /\ pc' = "next" /\ got' = Append(got, NoLine)
  <2>1. e \in Counted
    BY <1>10, <1>19
  <2>2. /\ Len(got') = m /\ got' # <<>> /\ got'[m] = NoLine /\ \A k \in 1 .. Len(got) : LineGiven(k)'
    BY <1>14, <1>15, <1>19
  <2>3. StreamPlace' /\ AllCounted'
    BY <1>1, <2>1, <2>2, <1>11, <1>17
  <2>4. ~Shown(m)
    BY <2>1, <1>13, <1>19 DEF Shown, e, b
  <2>5. got'[m] # <<>> /\ got'[m][1].by = "none" /\ Len(got'[m]) = 1
    BY <2>2, NoLineIs
  <2>6. LineGiven(m)'
    BY <1>2, <1>3, <2>4, <2>5, NewGiven
  <2>7. \A k \in 1 .. Len(got') : LineGiven(k)'
    BY <1>16, <2>2, <2>6
  <2>8. LineHeld'
    BY <2>2, <2>5 DEF LineHeld
  <2> QED BY <2>3, <2>7, <2>8
<1>20. CASE ~(b < e) /\ ~job.terminate /\ ~job.allow /\ pc' = pc /\ got' = got
  <2>1. e \notin Counted
    BY <1>10, <1>20
  <2>2. StreamPlace' /\ AllCounted'
    BY <2>1, <1>11, <1>17, <1>20
  <2>3. \A k \in 1 .. Len(got') : LineGiven(k)'
    BY <1>2, <1>3, <1>4, <1>20, GivenKept
  <2>4. LineHeld'
    BY <1>2, <1>20 DEF LineHeld
  <2> QED BY <2>2, <2>3, <2>4
<1> QED BY <1>8, <1>18, <1>19, <1>20

(* A round of read_line(), in any stream.                                  *)
LEMMA LinesRound ==
  ASSUME TypeInv, FlowInv, LinesInv, LineRound
  PROVE  LinesInv'
<1>1. UNCHANGED <<job, text, has_bom>>
  BY RoundIs
<1>2. Readable' <=> Readable
  BY <1>1, ReadableSame DEF Kept
<1> QED BY <1>1, <1>2, RoundAtEnd, RoundInText DEF LinesInv, TypeInv

(* LinesInv, operation by operation.                                       *)
LEMMA PlaceKept ==
  ASSUME UNCHANGED <<text, next, eofbit, failbit, first_line_read>>, Kept, Len(got') = Len(got),
         StreamPlace, AllCounted
  PROVE  StreamPlace' /\ AllCounted'
<1>1. /\ Ends' = Ends /\ Counted' = Counted /\ \A n : Before(n)' = Before(n)
  BY LinesSame
<1>2. Before(next)' = Before(next)
  <2>1. Before(next)' = {b \in Counted' : b < next'}
    BY DEF Before
  <2> QED BY <2>1, <1>1 DEF Before
<1> QED BY <1>1, <1>2 DEF StreamPlace, AllCounted

LEMMA LinesOutput ==
  ASSUME TypeInv, FlowInv, PutString \/ PutOther \/ PutNewline \/ PutSep
  PROVE  ~Started'
<1>1. PICK op : Output(op)
  BY DEF PutString, PutOther, PutNewline, PutSep, Put
<1>2. job'.in = job.in /\ job.out # <<>> /\ pc = "next"
  BY <1>1, OutputKeeps DEF TypeInv
<1>3. UNCHANGED <<pc, got>>
  BY <1>1 DEF Output
<1> QED BY <1>2, <1>3 DEF Started, FlowInv, WritesFirst

LEMMA LinesOpen ==
  ASSUME TypeInv, FlowInv, OpenFile \/ SetInputString
  PROVE  LinesInv'
<1>1. Input("open") /\ pc' = pc /\ got' = got
  BY DEF OpenFile, SetInputString
<1>2. /\ Kept /\ UNCHANGED text /\ (job.lines => got = <<>>)
  BY <1>1, InputKeeps, InputFlow DEF TypeInv
<1> SUFFICES ASSUME job.lines, Readable'
             PROVE  StreamPlace' /\ AllCounted' /\ LineHeld' /\ \A k \in 1 .. Len(got') : LineGiven(k)'
  BY <1>2 DEF LinesInv, Kept
<1>3. got' = <<>> /\ Len(got') = 0
  BY <1>1, <1>2
<1>4. next' = 1 /\ eofbit' = FALSE
  BY DEF OpenFile, SetInputString
<1>5. ~failbit'
  <2>1. CASE OpenFile
    <3>1. job'.stream # "string" /\ failbit' = (~job.exists \/ Len(text) < Len(Mark))
      BY <1>2, <2>1 DEF OpenFile, Kept
    <3>2. job'.exists /\ Len(text') >= 3
      BY <3>1 DEF Readable
    <3>3. job.exists /\ Len(text) >= 3
      BY <3>2, <1>2 DEF Kept
    <3>4. Len(Mark) = 3 /\ Len(text) \in Nat
      BY DEF Mark, TypeInv, Text
    <3>5. ~(Len(text) < Len(Mark))
      BY <3>3, <3>4
    <3> QED BY <3>1, <3>3, <3>5
  <2>2. CASE SetInputString
    BY <2>2 DEF SetInputString
  <2> QED BY <2>1, <2>2
<1>6. ~first_line_read'
  <2>1. CASE OpenFile
    BY <2>1 DEF OpenFile
  <2>2. CASE SetInputString
    <3>1. first_line_read' = first_line_read
      BY <2>2 DEF SetInputString
    <3>2. ~first_line_read
      BY <1>1, <1>2 DEF FlowInv, MarkSeen, Input
    <3> QED BY <3>1, <3>2
  <2> QED BY <2>1, <2>2
<1>7. Cardinality(Before(next)') = 0
  <2>1. Counted' = Counted
    BY <1>2, LinesSame
  <2>2. Before(next)' = {b \in Counted : b < 1}
    BY <1>4, <2>1 DEF Before
  <2>3. \A b \in Counted : ~(b < 1)
    BY EndsIs
  <2>4. Before(next)' = {}
    BY <2>2, <2>3
  <2> QED BY <2>4, FS_EmptySet
<1>8. StreamPlace' /\ AllCounted'
  BY <1>3, <1>4, <1>5, <1>6, <1>7 DEF StreamPlace, AllCounted
<1> QED BY <1>3, <1>8 DEF LineHeld

LEMMA LinesInput ==
  ASSUME TypeInv, FlowInv, LinesInv, EnableTrimQuote \/ SetSep \/ ReadLine \/ ReadColumn
  PROVE  LinesInv'
<1>1. PICK op \in {"trim_quote", "sep", "line", "string", "number"} : Input(op)
  BY DEF EnableTrimQuote, SetSep, ReadLine, ReadColumn
<1>2. /\ Kept /\ UNCHANGED text /\ pc = "next"
  BY <1>1, InputKeeps DEF TypeInv
<1>3. Started
  BY <1>1, InputFlow
<1>4. /\ UNCHANGED <<next, eofbit, failbit, first_line_read, has_bom, got, pos>>
      /\ pc' = "next" => str' = str
  BY <1>1 DEF EnableTrimQuote, SetSep, ReadLine, ReadColumn, opened, stream, column, Input
<1>5. Readable' <=> Readable
  BY <1>2, <1>4, ReadableSame
<1> SUFFICES ASSUME job.lines, Readable
             PROVE  StreamPlace' /\ AllCounted' /\ LineHeld' /\ \A k \in 1 .. Len(got') : LineGiven(k)'
  BY <1>2, <1>5 DEF LinesInv, Kept
<1>6. StreamPlace /\ AllCounted /\ LineHeld /\ \A k \in 1 .. Len(got) : LineGiven(k)
  BY <1>2, <1>3 DEF LinesInv
<1>7. StreamPlace' /\ AllCounted'
  BY <1>2, <1>4, <1>6, PlaceKept
<1>8. \A k \in 1 .. Len(got') : LineGiven(k)'
  BY <1>2, <1>4, <1>6, GivenKept
<1>9. LineHeld'
  <2>1. /\ Counted' = Counted /\ (\A d : Begin(d)' = Begin(d))
        /\ (\A d, k : IsNth(d, k)' <=> IsNth(d, k))
    BY <1>2, LinesSame
  <2> SUFFICES ASSUME pc' = "next", got # <<>>,
                      \A i \in 1 .. Len(got[Len(got)]) : got[Len(got)][i].by = "rest",
                      NEW e \in Counted, IsNth(e, Len(got))
               PROVE  pos = 0 /\ str' = SubSeq(text, Begin(e), e - 1)
    BY <1>2, <1>4, <2>1 DEF LineHeld
  <2> QED BY <1>2, <1>4, <1>6 DEF LineHeld
<1> QED BY <1>6, <1>7, <1>8, <1>9

(* One more thing given of the current line.                               *)
LEMMA LinesGive ==
  ASSUME TypeInv, text' = text, Kept, NEW v \in Text, NEW by \in {"string", "number", "rest"},
         Give(v, by), \A k \in 1 .. Len(got) : LineGiven(k),
         by = "rest" => /\ LineHeld /\ pc = "next" /\ str' = str /\ pos' = pos
                        /\ v = SubSeq(str, pos + 1, Len(str))
  PROVE  LineHeld' /\ \A k \in 1 .. Len(got') : LineGiven(k)'
<1>1. CASE got = <<>>
  <2>1. got' = <<>>
    BY <1>1, GiveIs
  <2> QED BY <2>1 DEF LineHeld
<1>2. CASE got # <<>>
  <2>1. PICK m \in Nat : m = Len(got)
    BY GiveIs
  <2> DEFINE en == Entry(v, by)
             u == got[m]
             n == Len(u)
  <2>2. /\ Len(got') = m /\ got' # <<>> /\ m \in 1 .. Len(got) /\ got'[m] = Append(u, en)
        /\ \A k \in 1 .. Len(got) : k # m => got'[k] = got[k]
    BY <1>2, <2>1, GiveIs
  <2>3. u \in Seq(Got) /\ en \in Got /\ en.value = v /\ en.by = by
    BY <2>2, EntryIs DEF TypeInv
  <2> DEFINE t == Append(u, en)
  <2>4. /\ t \in Seq(Got) /\ t # <<>> /\ Len(t) = n + 1 /\ n \in Nat /\ t[n + 1] = en
        /\ (\A i \in 1 .. n : t[i] = u[i]) /\ DOMAIN t = 1 .. n + 1 /\ DOMAIN u = 1 .. n
    BY <2>3
  <2>5. /\ Counted' = Counted /\ (\A d : Begin(d)' = Begin(d))
        /\ (\A d, k : IsNth(d, k)' <=> IsNth(d, k))
    BY LinesSame
  <2>6. LineGiven(m)
    BY <2>2
  <2> HIDE DEF en, u, t
  <2>7. got'[m] = t
    BY <2>2 DEF t, u
  <2>8. ASSUME \A i \in 1 .. n + 1 : t[i].by = "rest"
        PROVE  /\ by = "rest" /\ LineHeld /\ pc = "next" /\ str' = str /\ pos' = pos
               /\ v = SubSeq(str, pos + 1, Len(str))
               /\ \A i \in 1 .. n : u[i].by = "rest"
               /\ \A d \in Counted : IsNth(d, m) => v = SubSeq(text, Begin(d), d - 1) /\ pos = 0 /\ str = v
    <3>1. by = "rest"
      <4>1. n + 1 \in 1 .. n + 1
        BY <2>4
      <4>2. t[n + 1].by = "rest"
        BY <4>1, <2>8
      <4> QED BY <2>3, <2>4, <4>2
    <3>2. \A i \in 1 .. n : u[i].by = "rest"
      <4> SUFFICES ASSUME NEW i \in 1 .. n PROVE u[i].by = "rest"
        OBVIOUS
      <4>1. i \in 1 .. n + 1 /\ t[i] = u[i]
        BY <2>4
      <4> QED BY <4>1, <2>8
    <3>3. \A d \in Counted : IsNth(d, m) => pos = 0 /\ str = SubSeq(text, Begin(d), d - 1)
      BY <1>2, <2>1, <3>1, <3>2 DEF LineHeld, u
    <3>4. str \in Seq(Letters) /\ SubSeq(str, 1, Len(str)) = str
      BY DEF TypeInv, Text
    <3>5. pos = 0 => v = str
      BY <3>1, <3>4
    <3> QED BY <3>1, <3>2, <3>3, <3>5
  <2>9. LineGiven(m)'
    <3>1. CASE ~Shown(m)
      <4>1. u # <<>> /\ u[1].by = "none"
        BY <2>6, <3>1 DEF LineGiven, Shown, u
      <4>2. 1 \in 1 .. n
        BY <4>1, <2>3, <2>4
      <4>3. t[1].by = "none"
        BY <2>4, <4>1, <4>2
      <4> QED BY <2>4, <2>7, <3>1, <4>3, NewGiven
    <3>2. CASE Shown(m)
      <4>1. \A i \in 1 .. n :
              /\ u[i].by # "none"
              /\ (\A h \in 1 .. i : u[h].by = "rest") =>
                   \A e \in Counted : IsNth(e, m) => u[i].value = SubSeq(text, Begin(e), e - 1)
        BY <2>4, <2>6, <3>2 DEF LineGiven, Shown, u
      <4>2. ASSUME NEW i \in 1 .. n + 1
            PROVE  /\ t[i].by # "none"
                   /\ (\A h \in 1 .. i : t[h].by = "rest") =>
                        \A e \in Counted : IsNth(e, m) => t[i].value = SubSeq(text, Begin(e), e - 1)
        <5>1. CASE i = n + 1
          <6>1. t[i] = en
            BY <2>4, <5>1
          <6>2. by # "none"
            OBVIOUS
          <6>3. ASSUME \A h \in 1 .. i : t[h].by = "rest", NEW e \in Counted, IsNth(e, m)
                PROVE  t[i].value = SubSeq(text, Begin(e), e - 1)
            BY <5>1, <6>1, <6>3, <2>3, <2>8
          <6> QED BY <6>1, <6>2, <6>3, <2>3
        <5>2. CASE i # n + 1
          <6>1. i \in 1 .. n /\ t[i] = u[i] /\ \A h \in 1 .. i : h \in 1 .. n /\ t[h] = u[h]
            BY <2>4, <5>2
          <6> QED BY <6>1, <4>1
        <5> QED BY <5>1, <5>2
      <4>3. Shown(m)' <=> Shown(m)
        BY ShownKept
      <4>4. Shown(m)' /\ DOMAIN got'[m] = 1 .. n + 1
        BY <4>3, <3>2, <2>4, <2>7
      <4> HIDE DEF n
      <4>5. \A i \in DOMAIN got'[m] :
              /\ got'[m][i].by # "none"
              /\ (\A h \in 1 .. i : got'[m][h].by = "rest") =>
                   \A e \in Counted' : IsNth(e, m)' => got'[m][i].value = SubSeq(text', Begin(e)', e - 1)
        BY <4>2, <4>4, <2>5, <2>7
      <4> QED BY <4>4, <4>5 DEF LineGiven, Shown
    <3> QED BY <3>1, <3>2
  <2>10. \A k \in 1 .. Len(got') : LineGiven(k)'
    <3> SUFFICES ASSUME NEW k \in 1 .. Len(got') PROVE LineGiven(k)'
      OBVIOUS
    <3>1. CASE k = m
      BY <3>1, <2>9
    <3>2. CASE k # m
      <4>1. k \in 1 .. Len(got) /\ got'[k] = got[k]
        BY <2>1, <2>2, <3>2
      <4> QED BY <4>1, GivenKept
    <3> QED BY <3>1, <3>2
  <2>11. LineHeld'
    <3> SUFFICES ASSUME \A i \in 1 .. Len(t) : t[i].by = "rest", NEW e \in Counted, IsNth(e, m)
                 PROVE  pos' = 0 /\ str' = SubSeq(text, Begin(e), e - 1)
      BY <2>2, <2>5, <2>7 DEF LineHeld
    <3> QED BY <2>4, <2>8
  <2> QED BY <2>10, <2>11
<1> QED BY <1>1, <1>2

LEMMA LinesRest ==
  ASSUME TypeInv, FlowInv, LinesInv, RestOfLine
  PROVE  LinesInv'
<1>1. Input("rest") /\ UNCHANGED <<next, eofbit, failbit, first_line_read, has_bom, str, pos>>
  BY DEF RestOfLine, opened, stream
<1>2. /\ Kept /\ UNCHANGED text /\ pc = "next" /\ Started
  BY <1>1, InputKeeps, InputFlow DEF TypeInv
<1>3. Readable' <=> Readable
  BY <1>1, <1>2, ReadableSame
<1> SUFFICES ASSUME job.lines, Readable, pc' # "thrown"
             PROVE  StreamPlace' /\ AllCounted' /\ LineHeld' /\ \A k \in 1 .. Len(got') : LineGiven(k)'
  BY <1>2, <1>3 DEF LinesInv, Kept
<1>4. StreamPlace /\ AllCounted /\ LineHeld /\ \A k \in 1 .. Len(got) : LineGiven(k)
  BY <1>2 DEF LinesInv
<1>5. ~(pos > Len(str)) /\ Give(SubSeq(str, pos + 1, Len(str)), "rest")
  BY DEF RestOfLine, Throw
<1>6. PICK v \in Text : v = SubSeq(str, pos + 1, Len(str))
  <2>1. str \in Text /\ pos + 1 \in Nat /\ pos + 1 >= 1 /\ pos + 1 <= Len(str) + 1
    BY <1>5 DEF TypeInv, Text
  <2>2. SubSeq(str, pos + 1, Len(str)) \in Text
    BY <2>1, SubText
  <2> QED BY <2>2
<1>7. Give(v, "rest")
  BY <1>5, <1>6
<1>8. Len(got') = Len(got)
  BY <1>7, GiveIs
<1>9. StreamPlace' /\ AllCounted'
  BY <1>1, <1>2, <1>4, <1>8, PlaceKept
<1>10. LineHeld' /\ \A k \in 1 .. Len(got') : LineGiven(k)'
  BY <1>1, <1>2, <1>4, <1>6, <1>7, LinesGive
<1> QED BY <1>9, <1>10

LEMMA LinesColumn ==
  ASSUME TypeInv, FlowInv, LinesInv, LastColumn \/ DoubledQuote \/ ColumnChar
  PROVE  LinesInv'
<1>1. /\ UNCHANGED <<job, text, has_bom, next, eofbit, failbit, first_line_read>> /\ InColumn
      /\ pc \in {"string", "number"}
  BY DEF LastColumn, DoubledQuote, ColumnChar, opened, stream, InColumn
<1>2. Kept /\ Started /\ (Readable' <=> Readable)
  BY <1>1, ReadableSame DEF Kept, Started
<1> SUFFICES ASSUME job.lines, Readable, pc' # "thrown"
             PROVE  StreamPlace' /\ AllCounted' /\ LineHeld' /\ \A k \in 1 .. Len(got') : LineGiven(k)'
  BY <1>1, <1>2 DEF LinesInv
<1>3. StreamPlace /\ AllCounted /\ LineHeld /\ \A k \in 1 .. Len(got) : LineGiven(k)
  BY <1>1, <1>2 DEF LinesInv
<1>4. token \in Text
  BY DEF TypeInv
<1>5. GiveToken(token) \/ UNCHANGED <<pc, got>>
  BY DEF LastColumn, DoubledQuote, ColumnChar
<1>6. CASE got' = got /\ pc' # "next"
  <2>1. StreamPlace' /\ AllCounted'
    BY <1>1, <1>2, <1>3, <1>6, PlaceKept
  <2>2. \A k \in 1 .. Len(got') : LineGiven(k)'
    BY <1>1, <1>2, <1>3, <1>6, GivenKept
  <2> QED BY <1>6, <2>1, <2>2 DEF LineHeld
<1>7. CASE \E v \in Text : Give(v, pc)
  <2>1. PICK v \in Text : Give(v, pc)
    BY <1>7
  <2>2. Len(got') = Len(got)
    BY <1>1, <2>1, GiveIs
  <2>3. StreamPlace' /\ AllCounted'
    BY <1>1, <1>2, <1>3, <2>2, PlaceKept
  <2>4. PICK by \in {"string", "number"} : by = pc
    BY <1>1
  <2>5. Give(v, by) /\ by # "rest"
    BY <2>1, <2>4
  <2>6. LineHeld' /\ \A k \in 1 .. Len(got') : LineGiven(k)'
    BY <1>1, <1>2, <1>3, <2>5, LinesGive
  <2> QED BY <2>3, <2>6
<1>8. CASE GiveToken(token)
  <2>1. \/ pc' = "replace" /\ got' = got
        \/ Throw("conversion")
        \/ \E v \in Text : Give(v, pc)
    BY <1>1, <1>4, <1>8, GiveTokenIs
  <2>2. ~Throw("conversion")
    BY DEF Throw
  <2> QED BY <2>1, <2>2, <1>6, <1>7
<1> QED BY <1>1, <1>5, <1>6, <1>8

LEMMA LinesNext ==
  ASSUME TypeInv, FlowInv, LinesInv, [Next]_vars
  PROVE  LinesInv'
<1>1. CASE PutString \/ PutOther \/ PutNewline \/ PutSep
  BY <1>1, LinesOutput DEF LinesInv
<1>2. CASE OpenFile \/ SetInputString
  BY <1>2, LinesOpen
<1>3. CASE EnableTrimQuote \/ SetSep \/ ReadLine \/ ReadColumn
  BY <1>3, LinesInput
<1>4. CASE SkipLine
  <2>1. Input("skip")
    BY <1>4 DEF SkipLine
  <2>2. job \in Job /\ job.lines \in BOOLEAN
    BY JobIs DEF TypeInv
  <2>3. ~job.lines /\ job'.lines = job.lines
    BY <2>1, <2>2, InputFlow, InputKeeps DEF Kept
  <2> QED BY <2>3 DEF LinesInv
<1>5. CASE RestOfLine
  BY <1>5, LinesRest
<1>6. CASE LineRound
  BY <1>6, LinesRound
<1>7. CASE LastColumn \/ DoubledQuote \/ ColumnChar
  BY <1>7, LinesColumn
<1>8. CASE UNCHANGED vars
  <2>1. /\ UNCHANGED <<job, text, has_bom, next, eofbit, failbit, first_line_read, got, pc, str, pos>>
    BY <1>8 DEF vars, stream, opened
  <2>2. Kept /\ (Started' <=> Started) /\ (Readable' <=> Readable)
    BY <2>1, ReadableSame DEF Kept, Started
  <2>3. StreamPlace /\ AllCounted => StreamPlace' /\ AllCounted'
    BY <2>1, <2>2, PlaceKept
  <2>4. (\A k \in 1 .. Len(got) : LineGiven(k)) => \A k \in 1 .. Len(got') : LineGiven(k)'
    BY <2>1, <2>2, GivenKept
  <2>5. LineHeld => LineHeld'
    <3>1. /\ Counted' = Counted /\ (\A d : Begin(d)' = Begin(d))
          /\ (\A d, k : IsNth(d, k)' <=> IsNth(d, k))
      BY <2>1, <2>2, LinesSame
    <3> QED BY <2>1, <3>1 DEF LineHeld
  <2> QED BY <2>1, <2>2, <2>3, <2>4, <2>5 DEF LinesInv
<1> QED BY <1>1, <1>2, <1>3, <1>4, <1>5, <1>6, <1>7, <1>8 DEF Next, Loop

LEMMA LinesInit ==
  ASSUME Init
  PROVE  LinesInv
<1>1. job \in Jobs /\ pc = "next" /\ got = <<>>
  BY DEF Init
<1>2. OpensFirst(job)
  BY <1>1, MiniCsvConstants
<1>3. ~Started
  BY <1>1, <1>2 DEF Started, OpensFirst
<1> QED BY <1>3 DEF LinesInv

(* LinesInv says what a reader sees.                                       *)
LEMMA LinesAre ==
  ASSUME TypeInv, FlowInv, LinesInv
  PROVE  LinesComeBack
<1>1. LinesAreRead
  <2> SUFFICES ASSUME job.lines, Readable, pc # "thrown", NEW k \in DOMAIN got
               PROVE  LineGiven(k)
    BY DEF LinesAreRead, LineGiven
  <2>1. k \in 1 .. Len(got) /\ got # <<>>
    BY DEF TypeInv
  <2> QED BY <2>1 DEF LinesInv, Started
<1> QED BY <1>1 DEF LinesComeBack, FlowInv

(* A text is read line by line as it is, its mark left out, blank lines as *)
(* the caller chose; and substr() throws for two reasons only.             *)
THEOREM MiniLinesCorrect == Spec => []LinesComeBack
<1>1. Init => LinesInv
  BY LinesInit
<1>2. TypeInv /\ FlowInv /\ LinesInv /\ [Next]_vars => LinesInv'
  BY LinesNext
<1>3. TypeInv /\ FlowInv /\ LinesInv => LinesComeBack
  BY LinesAre
<1> QED BY <1>1, <1>2, <1>3, MiniTypeCorrect, PTL DEF Spec

-----------------------------------------------------------------------------
(* Going through a column                                                  *)

(* How get_delimited_str() goes through what was put for a column: f[m] of *)
(* its characters x are read when m of those of the token t are, one at a  *)
(* time, or two for a doubled quote between quotes (q).                    *)
Scan(q, d, t, x, f) ==
  LET n == Len(t)
  IN  /\ t \in Text /\ x \in Text /\ f \in [0 .. n -> 0 .. Len(x)] /\ f[0] = 0 /\ f[n] = Len(x)
      /\ \A m \in 1 .. n :
           /\ t[m] \notin {NL, "CR"}
           /\ \/ /\ f[m] = f[m - 1] + 1 /\ x[f[m]] = t[m]
                 /\ q => (t[m] = Quote <=> m \in {1, n})
              \/ /\ f[m] = f[m - 1] + 2 /\ q /\ m \notin {1, n} /\ t[m] = Quote
                 /\ x[f[m] - 1] = Quote /\ x[f[m]] = Quote
           /\ ~q => t[m] # d /\ (m = 1 => t[m] # Quote)
      /\ q => n >= 2

(* A text without line breaks and delimiters is read through.              *)
LEMMA PlainScan ==
  ASSUME NEW t \in Text, NEW d, {NL, "CR", d} \cap ToSet(t) = {}, t # <<>> => t[1] # Quote
  PROVE  \E f : Scan(FALSE, d, t, t, f)
<1> DEFINE n == Len(t)
           f == [m \in 0 .. n |-> m]
<1>1. n \in Nat /\ DOMAIN t = 1 .. n
  BY DEF Text
<1>2. f \in [0 .. n -> 0 .. n] /\ f[0] = 0 /\ f[n] = n /\ \A m \in 0 .. n : f[m] = m
  BY <1>1
<1> HIDE DEF f
<1>3. ASSUME NEW m \in 1 .. n
      PROVE  /\ t[m] \notin {NL, "CR"} /\ t[m] # d /\ (m = 1 => t[m] # Quote)
             /\ f[m] = f[m - 1] + 1 /\ t[f[m]] = t[m]
  <2>1. m \in DOMAIN t /\ m \in 0 .. n /\ m - 1 \in 0 .. n
    BY <1>1
  <2>2. t[m] \in ToSet(t)
    BY <2>1 DEF ToSet
  <2>3. f[m] = m /\ f[m - 1] = m - 1
    BY <1>2, <2>1
  <2>4. t # <<>>
    BY <1>1
  <2> QED BY <2>2, <2>3, <2>4
<1> HIDE DEF n
<1>4. Scan(FALSE, d, t, t, f)
  BY <1>2, <1>3 DEF Scan, n
<1> QED BY <1>4

(* So is a text in quotes, with its own doubled.                           *)
LEMMA QuotedScan ==
  ASSUME NEW u \in Text, NEW d, {NL, "CR"} \cap ToSet(u) = {}
  PROVE  \E f : Scan(TRUE, d, InQuotes(u), InQuotes(Replace(u, <<Quote>>, <<Quote, Quote>>)), f)
<1> DEFINE qq == <<Quote, Quote>>
           w  == [value |-> u, delimiter |-> ",", by |-> "string"]
           ss == Parts(w, <<>>, qq)
           s  == FlattenSeq(ss)
           l  == Len(u)
           t  == InQuotes(u)
           x  == InQuotes(s)
           n  == l + 2
<1>1. qq \in Text /\ qq # <<>> /\ Len(qq) = 2 /\ qq[1] = Quote /\ qq[2] = Quote /\ <<>> \in Text
  BY LetterTexts DEF Text
<1>2. w \in Cell /\ w.value = u /\ w.delimiter # Quote
  BY MiniCsvConstants DEF Cell, Quote
<1>3. s = Replace(u, <<Quote>>, qq)
  <2>1. FlattenSeq(Parts(w, <<>>, <<>>)) = u
    BY <1>2, PlainParts
  <2>2. Quote \notin ToSet(<<>>)
    BY DEF ToSet
  <2> HIDE DEF qq, w
  <2> QED BY <1>1, <1>2, <2>1, <2>2, QuoteParts
<1>4. /\ ss \in Seq(Text) /\ Len(ss) = l /\ l \in Nat /\ s \in Text
      /\ \A i \in 1 .. l : u[i] \in Letters /\ u[i] \in ToSet(u) /\ ss[i] = Part(w, u[i], <<>>, qq)
  <2> HIDE DEF w, qq
  <2> QED BY <1>1, <1>2, PartsType
<1>5. \A i \in 1 .. l : ss[i] = IF u[i] = Quote THEN qq ELSE <<u[i]>>
  <2> HIDE DEF w, qq, ss
  <2> QED BY <1>1, <1>4 DEF Part
<1> HIDE DEF w, ss, qq
<1>6. PICK g : Upto(Letters, ss, g) /\ s = g[Len(ss)] /\ PartsOf(s, ss, g)
  BY <1>4, FlattenAt DEF Text
<1> HIDE DEF s
<1>7. /\ Len(g[0]) = 0 /\ Len(g[l]) = Len(s)
      /\ \A k \in 0 .. l : Len(g[k]) \in 0 .. Len(s)
      /\ \A k \in 1 .. l : /\ Len(g[k]) = Len(g[k - 1]) + Len(ss[k])
                           /\ \A m \in 1 .. Len(ss[k]) : s[Len(g[k - 1]) + m] = ss[k][m]
  BY <1>4, <1>6 DEF PartsOf, Upto
<1>8. /\ t \in Text /\ Len(t) = n /\ t[1] = Quote /\ t[n] = Quote /\ \A i \in 1 .. l : t[i + 1] = u[i]
  BY InQuotesIs
<1>9. /\ x \in Text /\ Len(x) = Len(s) + 2 /\ Len(s) \in Nat /\ x[1] = Quote /\ x[Len(s) + 2] = Quote
      /\ \A i \in 1 .. Len(s) : x[i + 1] = s[i]
  BY <1>4, InQuotesIs
<1> HIDE DEF t, x
<1> DEFINE f == [m \in 0 .. n |-> IF m = 0 THEN 0 ELSE IF m = n THEN Len(s) + 2 ELSE Len(g[m - 1]) + 1]
<1>10. /\ f \in [0 .. n -> 0 .. Len(x)] /\ f[0] = 0 /\ f[n] = Len(x)
       /\ \A i \in 0 .. l : f[i + 1] = Len(g[i]) + 1
  <2>1. n \in Nat /\ n # 0 /\ \A m \in 0 .. n : m # 0 /\ m # n => m - 1 \in 0 .. l
    BY <1>4
  <2>2. \A m \in 0 .. n : m # 0 /\ m # n => Len(g[m - 1]) \in 0 .. Len(s)
    BY <2>1, <1>7, <1>9
  <2>3. \A i \in 0 .. l : i + 1 \in 0 .. n /\ i + 1 # 0 /\ i + 1 # n /\ (i + 1) - 1 = i
    BY <1>4
  <2> HIDE DEF n
  <2> QED BY <2>1, <2>2, <2>3, <1>9
<1> HIDE DEF f
<1>11. ASSUME NEW m \in 1 .. n
       PROVE  /\ t[m] \notin {NL, "CR"}
              /\ \/ /\ f[m] = f[m - 1] + 1 /\ x[f[m]] = t[m]
                    /\ t[m] = Quote <=> m \in {1, n}
                 \/ /\ f[m] = f[m - 1] + 2 /\ m \notin {1, n} /\ t[m] = Quote
                    /\ x[f[m] - 1] = Quote /\ x[f[m]] = Quote
  <2>1. Quote \notin {NL, "CR"}
    BY DEF Quote, NL
  <2>2. CASE m = 1
    <3>1. 0 \in 0 .. l /\ m - 1 = 0
      BY <1>4, <2>2
    <3>2. f[0 + 1] = Len(g[0]) + 1
      BY <1>10, <3>1
    <3>3. f[m] = 1
      BY <1>7, <2>2, <3>2
    <3> QED BY <2>1, <2>2, <3>1, <3>3, <1>8, <1>9, <1>10
  <2>3. CASE m = n
    <3>1. l \in 0 .. l /\ m - 1 = l + 1
      BY <1>4, <2>3
    <3>2. f[m - 1] = Len(s) + 1
      BY <1>7, <1>10, <3>1
    <3>3. f[m] = Len(s) + 2
      BY <1>10, <2>3, <1>9
    <3> QED BY <2>1, <2>3, <3>2, <3>3, <1>8, <1>9
  <2>4. CASE m # 1 /\ m # n
    <3>1. PICK i \in 1 .. l : i = m - 1 /\ m = i + 1
      BY <2>4, <1>4
    <3>2. i \in 0 .. l /\ i - 1 \in 0 .. l /\ (i - 1) + 1 = i /\ m - 1 = i
      BY <3>1, <1>4
    <3>3. f[m] = Len(g[i]) + 1
      BY <1>10, <3>1, <3>2
    <3>4. f[m - 1] = Len(g[i - 1]) + 1
      BY <1>10, <3>2
    <3> DEFINE a == Len(g[i - 1])
               b == Len(g[i])
               p == ss[i]
    <3>5. /\ a \in Nat /\ b \in Nat /\ b <= Len(s) /\ b = a + Len(p)
          /\ \A k \in 1 .. Len(p) : s[a + k] = p[k]
      <4>1. a \in 0 .. Len(s) /\ b \in 0 .. Len(s)
        BY <1>7, <3>2
      <4>2. b = a + Len(p) /\ \A k \in 1 .. Len(p) : s[a + k] = p[k]
        BY <1>7
      <4> HIDE DEF a, b, p
      <4> QED BY <4>1, <4>2, <1>9
    <3>6. t[m] = u[i] /\ u[i] \in Letters /\ u[i] \notin {NL, "CR"}
      BY <1>4, <1>8, <3>1
    <3>7. p = IF u[i] = Quote THEN qq ELSE <<u[i]>>
      BY <1>5
    <3>8. m \notin {1, n}
      BY <2>4
    <3> HIDE DEF a, b, p
    <3>9. CASE u[i] = Quote
      <4>1. Len(p) = 2 /\ p[1] = Quote /\ p[2] = Quote
        BY <3>7, <3>9, <1>1
      <4>2. b = a + 2 /\ s[a + 1] = Quote /\ s[a + 2] = Quote
        BY <3>5, <4>1
      <4>3. a + 1 \in 1 .. Len(s) /\ a + 2 \in 1 .. Len(s)
        BY <3>5, <4>2, <1>9
      <4>4. x[(a + 1) + 1] = Quote /\ x[(a + 2) + 1] = Quote
        BY <4>2, <4>3, <1>9
      <4>5. f[m] = (a + 2) + 1 /\ f[m - 1] = a + 1
        BY <3>3, <3>4, <4>2 DEF a, b
      <4>6. f[m] = f[m - 1] + 2 /\ f[m] - 1 = (a + 1) + 1
        BY <4>5, <3>5
      <4> QED BY <3>6, <3>8, <3>9, <4>4, <4>5, <4>6
    <3>10. CASE u[i] # Quote
      <4>1. Len(p) = 1 /\ p[1] = u[i]
        BY <3>7, <3>10, <3>6
      <4>2. b = a + 1 /\ s[a + 1] = u[i]
        BY <3>5, <4>1
      <4>3. a + 1 \in 1 .. Len(s)
        BY <3>5, <4>2, <1>9
      <4>4. x[(a + 1) + 1] = u[i]
        BY <4>2, <4>3, <1>9
      <4>5. f[m] = (a + 1) + 1 /\ f[m - 1] = a + 1
        BY <3>3, <3>4, <4>2 DEF a, b
      <4>6. f[m] = f[m - 1] + 1
        BY <4>5, <3>5
      <4> QED BY <3>6, <3>8, <3>10, <4>4, <4>5, <4>6
    <3> QED BY <3>9, <3>10
  <2> QED BY <2>2, <2>3, <2>4
<1>12. n >= 2
  BY <1>4
<1> HIDE DEF n
<1>13. Scan(TRUE, d, t, x, f)
  BY <1>8, <1>9, <1>10, <1>11, <1>12 DEF Scan
<1>14. Scan(TRUE, d, InQuotes(u), InQuotes(Replace(u, <<Quote>>, qq)), f)
  BY <1>13, <1>3 DEF t, x
<1> QED BY <1>14 DEF qq

(* A column that comes back is gone through from its first character to    *)
(* its last.                                                               *)
LEMMA ScanExists ==
  ASSUME NEW w, NEW d, Comes(w, d), JobOK, EscapesAgree
  PROVE  \E f : Scan(Quoted(w), d, Token(w), Form(w), f)
<1> DEFINE e == job.escape
           v == ToSet(w.value)
           u == Whole(w, Middle)
           p == Whole(w, <<>>)
<1>1. /\ w \in Cell /\ d \in Letters /\ v \cap {NL, "CR", QuoteEscape[1]} = {}
      /\ w.delimiter # Quote /\ d # Quote /\ w.delimiter \notin ToSet(e)
      /\ Quoted(w) /\ Quote \in v => job.quote_escape \in {QuoteEscape, <<Quote, Quote>>}
      /\ ~Quoted(w) => /\ v # {} => w.value[1] # Quote
                       /\ w.delimiter \in v => e # <<>>
                       /\ w.delimiter # d => v \cap {w.delimiter, d} = {}
  BY DEF Comes
<1>2. /\ e \in Text /\ job.quote_escape \in Text /\ Middle \in Text /\ <<>> \in Text
      /\ ToSet(e) \cap {Quote, NL, "CR"} = {}
  BY LetterTexts DEF JobOK, EscapesAgree, Middle
<1>3. Form(w) = IF Quoted(w) THEN InQuotes(Whole(w, job.quote_escape)) ELSE p
  BY <1>1, <1>2, FormIs
<1>4. u \in Text /\ p \in Text
  BY <1>1, <1>2, PartsType DEF Whole
<1>5. ToSet(<<>>) = {} /\ ToSet(Middle) \cap {Quote, NL, "CR"} = {}
  <2>1. ToSet(<<>>) = {}
    BY DEF ToSet
  <2> QED BY <2>1, LetterTexts DEF Middle
<1>6. ASSUME NEW q \in {<<>>, Middle}, NEW c \in ToSet(Whole(w, q))
      PROVE  /\ \/ e # <<>> /\ c \in ToSet(e) /\ w.delimiter \in v
                \/ q # <<>> /\ c \in ToSet(q) /\ Quote \in v
                \/ c \in v /\ (c = w.delimiter => e = <<>>) /\ (c = Quote => q = <<>>)
             /\ c \notin {NL, "CR"}
  <2>1. q \in Text /\ c \in ToSet(FlattenSeq(Parts(w, e, q)))
    BY <1>2 DEF Whole
  <2>2. \/ e # <<>> /\ c \in ToSet(e) /\ w.delimiter \in v
        \/ q # <<>> /\ c \in ToSet(q) /\ Quote \in v
        \/ c \in v /\ (c = w.delimiter => e = <<>>) /\ (c = Quote => q = <<>>)
    BY <1>1, <1>2, <2>1, PartsSet
  <2> HIDE DEF e, v
  <2> QED BY <2>2, <1>1, <1>2, <1>5
<1>7. CASE ~Quoted(w)
  <2>1. Token(w) = p /\ Form(w) = p
    BY <1>3, <1>7 DEF Token
  <2>2. {NL, "CR", d} \cap ToSet(p) = {}
    <3> SUFFICES ASSUME NEW c \in ToSet(p) PROVE c \notin {NL, "CR", d}
      OBVIOUS
    <3>1. /\ (e # <<>> /\ c \in ToSet(e) /\ w.delimiter \in v) \/ (c \in v /\ (c = w.delimiter => e = <<>>))
          /\ c \notin {NL, "CR"}
      BY <1>6
    <3> HIDE DEF e, v, p
    <3>2. c # d
      <4>1. CASE w.delimiter = d
        BY <4>1, <3>1, <1>1, <1>7
      <4>2. CASE w.delimiter # d
        BY <4>2, <3>1, <1>1, <1>7
      <4> QED BY <4>1, <4>2
    <3> QED BY <3>1, <3>2
  <2>3. p # <<>> => p[1] # Quote
    <3> SUFFICES ASSUME p # <<>> PROVE p[1] # Quote
      OBVIOUS
    <3>1. /\ v = {} => p = <<>>
          /\ v # {} => /\ 1 \in 1 .. Len(w.value)
                       /\ Part(w, w.value[1], e, <<>>) # <<>> => p[1] = Part(w, w.value[1], e, <<>>)[1]
      BY <1>1, <1>2, PartsHead DEF Whole
    <3>2. v # {} /\ w.value[1] # Quote /\ 1 \in 1 .. Len(w.value)
      BY <3>1, <1>1, <1>7
    <3>3. w.value[1] \in Letters
      BY <1>1, <1>2, <3>2, PartsType
    <3>4. CASE w.value[1] = w.delimiter /\ e # <<>>
      <4>1. Part(w, w.value[1], e, <<>>) = e
        BY <3>4 DEF Part
      <4>2. p[1] = e[1]
        BY <3>1, <3>2, <3>4, <4>1
      <4>3. e[1] \in ToSet(e)
        <5>1. 1 \in DOMAIN e
          BY <1>2, <3>4 DEF Text
        <5> QED BY <5>1 DEF ToSet
      <4> HIDE DEF e, p
      <4> QED BY <4>2, <4>3, <1>2
    <3>5. CASE ~(w.value[1] = w.delimiter /\ e # <<>>)
      <4>1. Part(w, w.value[1], e, <<>>) = <<w.value[1]>>
        BY <3>5, <3>2 DEF Part
      <4>2. <<w.value[1]>> # <<>> /\ <<w.value[1]>>[1] = w.value[1]
        BY <3>3, LetterTexts
      <4>3. p[1] = w.value[1]
        BY <3>1, <3>2, <4>1, <4>2
      <4> HIDE DEF p
      <4> QED BY <4>3, <3>2
    <3> QED BY <3>4, <3>5
  <2> HIDE DEF p
  <2>4. \E f : Scan(FALSE, d, p, p, f)
    BY <1>4, <2>2, <2>3, PlainScan
  <2>5. Quoted(w) = FALSE
    BY <1>7 DEF Quoted
  <2> QED BY <2>1, <2>4, <2>5
<1>8. CASE Quoted(w)
  <2>1. Token(w) = InQuotes(u) /\ Form(w) = InQuotes(Whole(w, job.quote_escape))
    BY <1>3, <1>8 DEF Token
  <2>2. {NL, "CR"} \cap ToSet(u) = {}
    BY <1>6
  <2>3. Whole(w, job.quote_escape) = Replace(u, <<Quote>>, <<Quote, Quote>>)
    <3>1. /\ <<Quote>> \in Text /\ <<Quote>> # <<>> /\ <<Quote>>[1] = Quote
          /\ <<Quote, Quote>> \in Text /\ <<Quote, Quote>> # <<>> /\ <<Quote, Quote>>[1] = Quote
      BY LetterTexts DEF Text
    <3>2. CASE job.quote_escape # QuoteEscape /\ Quote \in v
      <4>1. job.quote_escape = <<Quote, Quote>> /\ Middle = <<>>
        BY <1>1, <1>8, <3>2 DEF Middle
      <4>2. Replace(p, <<Quote>>, <<Quote, Quote>>) = Whole(w, <<Quote, Quote>>)
        <5>1. Quote \notin ToSet(e)
          BY <1>2
        <5>2. Replace(FlattenSeq(Parts(w, e, <<>>)), <<Quote>>, <<Quote, Quote>>) =
                FlattenSeq(Parts(w, e, <<Quote, Quote>>))
          BY <1>1, <1>2, <3>1, <5>1, QuoteParts
        <5> QED BY <5>2 DEF Whole
      <4> QED BY <4>1, <4>2
    <3>3. CASE job.quote_escape = QuoteEscape \/ Quote \notin v
      <4>1. Whole(w, job.quote_escape) = u
        <5>1. CASE job.quote_escape = QuoteEscape
          BY <5>1 DEF Middle
        <5>2. CASE Quote \notin v
          <6>1. \A i \in 1 .. Len(w.value) : w.value[i] \in v
            BY <1>1, <1>2, PartsType
          <6>2. \A i \in 1 .. Len(w.value) : w.value[i] # Quote
            BY <5>2, <6>1
          <6>3. Parts(w, e, job.quote_escape) = Parts(w, e, Middle)
            BY <6>2 DEF Parts, Part
          <6> QED BY <6>3 DEF Whole
        <5> QED BY <3>3, <5>1, <5>2
      <4>2. Quote \notin ToSet(u)
        <5> SUFFICES ASSUME Quote \in ToSet(u) PROVE FALSE
          OBVIOUS
        <5>1. \/ Quote \in ToSet(e)
              \/ Quote \in ToSet(Middle)
              \/ Quote \in v /\ Middle = <<>>
          BY <1>6
        <5>2. Quote \in v /\ Middle = <<>>
          BY <5>1, <1>2, <1>5
        <5> QED BY <5>2, <3>3, LetterTexts DEF Middle
      <4> HIDE DEF u
      <4>3. Replace(u, <<Quote>>, <<Quote, Quote>>) = u
        BY <1>4, <3>1, <4>2, NothingFound
      <4> QED BY <4>1, <4>3
    <3> QED BY <3>2, <3>3
  <2> HIDE DEF u
  <2>4. \E f : Scan(TRUE, d, InQuotes(u), InQuotes(Replace(u, <<Quote>>, <<Quote, Quote>>)), f)
    BY <1>4, <2>2, QuotedScan
  <2>5. Quoted(w) = TRUE
    BY <1>8 DEF Quoted
  <2> QED BY <2>1, <2>3, <2>4, <2>5
<1> QED BY <1>7, <1>8

(* A column without quotes of its own and around it has none.              *)
LEMMA NoQuote ==
  ASSUME NEW w, NEW d, Comes(w, d), JobOK, EscapesAgree, ~Quoted(w), Quote \notin ToSet(w.value)
  PROVE  Quote \notin ToSet(Token(w))
<1> SUFFICES ASSUME Quote \in ToSet(Token(w)) PROVE FALSE
  OBVIOUS
<1>1. w \in Cell /\ w.delimiter # Quote
  BY DEF Comes
<1>2. job.escape \in Text /\ <<>> \in Text /\ Quote \notin ToSet(job.escape)
  BY LetterTexts DEF JobOK, EscapesAgree
<1>3. Quote \in ToSet(FlattenSeq(Parts(w, job.escape, <<>>)))
  BY DEF Token, Whole
<1> QED BY <1>1, <1>2, <1>3, PartsSet

(* The characters of a text.                                               *)
LEMMA ToSetIs ==
  ASSUME NEW T, NEW s \in Seq(T), NEW c
  PROVE  c \in ToSet(s) <=> \E i \in 1 .. Len(s) : s[i] = c
<1>1. DOMAIN s = 1 .. Len(s)
  OBVIOUS
<1> QED BY <1>1 DEF ToSet

(* What is neither in a text nor in what is put into it.                   *)
LEMMA ReplaceLacks ==
  ASSUME NEW s \in Text, NEW find \in Text, NEW by \in Text, find # <<>>,
         NEW c, c \notin ToSet(s), c \notin ToSet(by)
  PROVE  c \notin ToSet(Replace(s, find, by))
<1>1. PICK out \in [0 .. Len(s) -> Seq(Letters)], skip \in [0 .. Len(s) -> Nat] :
           /\ out[0] = <<>> /\ skip[0] = 0 /\ Replace(s, find, by) = out[Len(s)]
           /\ \A n \in 1 .. Len(s) : Replaces(s, find, by, out, skip, n)
  BY ReplaceIs DEF Text
<1>2. s \in Seq(Letters) /\ by \in Seq(Letters) /\ Len(s) \in Nat
  BY DEF Text
<1> DEFINE S == {n \in 0 .. Len(s) : c \notin ToSet(out[n])}
<1>3. 0 \in S
  BY <1>1, <1>2 DEF ToSet
<1>4. ASSUME NEW k \in 0 .. Len(s) - 1, k \in S PROVE k + 1 \in S
  <2>1. k + 1 \in 1 .. Len(s) /\ k \in 0 .. Len(s) /\ k + 1 \in 0 .. Len(s) /\ (k + 1) - 1 = k
    BY <1>2
  <2>2. PICK n \in 1 .. Len(s) : n = k + 1 /\ n - 1 = k /\ n \in 0 .. Len(s)
    BY <2>1
  <2> DEFINE a == out[n - 1]
             b == out[n]
  <2>3. a \in Seq(Letters) /\ b \in Seq(Letters) /\ c \notin ToSet(a) /\ s[n] \in Letters
    <3>1. c \notin ToSet(out[k])
      BY <1>4
    <3>2. n - 1 = k
      BY <2>2
    <3>3. a = out[k] /\ a \in Seq(Letters) /\ b \in Seq(Letters)
      BY <1>1, <2>2, <2>1, <3>2
    <3> QED BY <1>2, <3>1, <3>3
  <2>4. b \in {a, a \o by, Append(a, s[n])}
    BY <1>1 DEF Replaces
  <2>5. s[n] # c
    BY <1>2, ToSetIs
  <2> HIDE DEF a, b
  <2>6. c \notin ToSet(b)
    <3> SUFFICES ASSUME c \in ToSet(b) PROVE FALSE
      OBVIOUS
    <3>1. CASE b = a
      BY <2>3, <3>1
    <3>2. CASE b = a \o by
      <4>1. PICK i \in 1 .. Len(b) : b[i] = c
        BY <2>3, ToSetIs
      <4>2. /\ Len(b) = Len(a) + Len(by) /\ Len(a) \in Nat /\ Len(by) \in Nat
            /\ \A j \in 1 .. Len(a) : b[j] = a[j]
            /\ \A j \in 1 .. Len(by) : b[Len(a) + j] = by[j]
        BY <1>2, <2>3, <3>2, JoinIs
      <4>3. CASE i <= Len(a)
        <5>1. i \in 1 .. Len(a) /\ a[i] = c
          BY <4>1, <4>2, <4>3
        <5> QED BY <5>1, <2>3, ToSetIs
      <4>4. CASE i > Len(a)
        <5>1. i - Len(a) \in 1 .. Len(by) /\ Len(a) + (i - Len(a)) = i
          BY <4>1, <4>2, <4>4
        <5>2. by[i - Len(a)] = c
          BY <4>1, <4>2, <5>1
        <5> QED BY <5>1, <5>2, <1>2, ToSetIs
      <4> QED BY <4>2, <4>3, <4>4
    <3>3. CASE b = Append(a, s[n])
      <4>1. PICK i \in 1 .. Len(b) : b[i] = c
        BY <2>3, ToSetIs
      <4>2. Len(b) = Len(a) + 1 /\ Len(a) \in Nat /\ b[Len(a) + 1] = s[n]
            /\ \A j \in 1 .. Len(a) : b[j] = a[j]
        BY <2>3, <3>3
      <4>3. i \in 1 .. Len(a) /\ a[i] = c
        BY <4>1, <4>2, <2>5
      <4> QED BY <4>3, <2>3, ToSetIs
    <3> QED BY <2>4, <3>1, <3>2, <3>3
  <2> QED BY <2>2, <2>6 DEF b
<1>5. \A k \in 0 .. Len(s) : k \in S
  <2> HIDE DEF S
  <2> QED BY <1>2, <1>3, <1>4, Upward
<1>6. Len(s) \in 0 .. Len(s)
  BY <1>2
<1> QED BY <1>1, <1>5, <1>6

(* Quotes bring no other character.                                        *)
LEMMA InQuotesLacks ==
  ASSUME NEW s \in Text, NEW c, c \notin ToSet(s), c # Quote
  PROVE  c \notin ToSet(InQuotes(s))
<1> DEFINE t == InQuotes(s)
           l == Len(s)
<1>1. /\ t \in Seq(Letters) /\ Len(t) = l + 2 /\ l \in Nat /\ s \in Seq(Letters)
      /\ t[1] = Quote /\ t[l + 2] = Quote /\ \A i \in 1 .. l : t[i + 1] = s[i]
  BY InQuotesIs DEF Text
<1> HIDE DEF t
<1> SUFFICES ASSUME c \in ToSet(t) PROVE FALSE
  BY DEF t
<1>2. PICK i \in 1 .. Len(t) : t[i] = c
  BY <1>1, ToSetIs
<1>3. i # 1 /\ i # l + 2
  BY <1>1, <1>2
<1>4. i - 1 \in 1 .. l /\ (i - 1) + 1 = i
  BY <1>1, <1>2, <1>3
<1>5. s[i - 1] = c
  BY <1>1, <1>2, <1>4
<1> QED BY <1>1, <1>4, <1>5, ToSetIs

(* No line break is put for a value without one.                           *)
LEMMA NoBreak ==
  ASSUME NEW w \in Cell, JobOK, NL \notin ToSet(job.escape) \cup ToSet(job.quote_escape),
         NL \notin ToSet(w.value)
  PROVE  Form(w) \in Text /\ NL \notin ToSet(Form(w))
<1> DEFINE s == Escaped(w.value, w.delimiter)
           r == IF job.quote_escape = <<>> THEN s ELSE Replace(s, <<Quote>>, job.quote_escape)
<1>1. /\ w.value \in Text /\ w.delimiter \in Letters /\ job.escape \in Text /\ job.quote_escape \in Text
      /\ <<w.delimiter>> \in Text /\ <<w.delimiter>> # <<>> /\ <<Quote>> \in Text /\ <<Quote>> # <<>>
  BY LetterTexts DEF Cell, JobOK
<1>2. NL # Quote
  BY DEF NL, Quote
<1>3. s \in Text /\ NL \notin ToSet(s)
  <2>1. CASE job.escape = <<>>
    BY <1>1, <2>1 DEF Escaped
  <2>2. CASE job.escape # <<>>
    <3>1. s = Replace(w.value, <<w.delimiter>>, job.escape)
      BY <2>2 DEF Escaped
    <3>2. NL \notin ToSet(w.value) /\ NL \notin ToSet(job.escape)
      OBVIOUS
    <3>3. NL \notin ToSet(Replace(w.value, <<w.delimiter>>, job.escape))
      BY <1>1, <3>2, ReplaceLacks
    <3>4. Replace(w.value, <<w.delimiter>>, job.escape) \in Text
      BY <1>1, ReplaceType
    <3> QED BY <3>1, <3>3, <3>4
  <2> QED BY <2>1, <2>2
<1> HIDE DEF s
<1>4. r \in Text /\ NL \notin ToSet(r)
  <2>1. CASE job.quote_escape = <<>>
    BY <1>3, <2>1
  <2>2. CASE job.quote_escape # <<>>
    <3>1. r = Replace(s, <<Quote>>, job.quote_escape)
      BY <2>2
    <3> QED BY <1>1, <1>3, <3>1, ReplaceLacks, ReplaceType
  <2> QED BY <2>1, <2>2
<1> HIDE DEF r
<1>5. InQuotes(r) \in Text /\ NL \notin ToSet(InQuotes(r))
  BY <1>2, <1>4, InQuotesLacks, InQuotesIs
<1>6. Form(w) \in {s, InQuotes(r)}
  BY DEF Form, Surrounded, InQuotes, s, r
<1> QED BY <1>3, <1>5, <1>6

-----------------------------------------------------------------------------
(* What was written                                                        *)

(* Column j, behind delimiter d if it is not the first of its line, stands *)
(* in s between a and z as x.                                              *)
Stands(s, a, z, j, x, d) ==
  LET b == a + (IF j = 1 THEN 0 ELSE 1)
  IN  /\ a \in Nat /\ z = b + Len(x) /\ z <= Len(s)
      /\ \A i \in 1 .. Len(x) : s[b + i] = x[i]
      /\ j # 1 => s[a + 1] = d

(* A column that stands in a text stands in any longer one.                *)
LEMMA StandsIn ==
  ASSUME NEW s, NEW t, Len(s) \in Nat, Len(t) \in Nat, Len(s) <= Len(t),
         \A i \in 1 .. Len(s) : t[i] = s[i],
         NEW a, NEW z, NEW j, NEW x, Len(x) \in Nat, NEW d, Stands(s, a, z, j, x, d)
  PROVE  Stands(t, a, z, j, x, d)
<1> DEFINE o == IF j = 1 THEN 0 ELSE 1
           b == a + o
<1>1. /\ a \in Nat /\ z = b + Len(x) /\ z <= Len(s)
      /\ \A i \in 1 .. Len(x) : s[b + i] = x[i]
      /\ j # 1 => s[a + 1] = d
  BY DEF Stands
<1>2. o \in {0, 1} /\ b \in Nat /\ (j # 1 => a + 1 = b)
  BY <1>1
<1> HIDE DEF b
<1>3. \A i \in 1 .. Len(x) : t[b + i] = x[i]
  <2> TAKE i \in 1 .. Len(x)
  <2>1. b + i \in 1 .. Len(s)
    BY <1>1, <1>2
  <2> QED BY <1>1, <2>1
<1>4. j # 1 => t[a + 1] = d
  <2>1. j # 1 => a + 1 \in 1 .. Len(s)
    BY <1>1, <1>2
  <2> QED BY <1>1, <2>1
<1>5. z <= Len(t)
  BY <1>1, <1>2
<1> QED BY <1>1, <1>3, <1>4, <1>5 DEF Stands, b

(* A column that was written stands between its places.                    *)
CellAt(at, k, j) ==
  Stands(text, at[k][j - 1], at[k][j], j, Form(written[k][j]), written[k][j].delimiter)

(* Where in the text the columns that were written end; at[k][0] is where  *)
(* line k begins.                                                          *)
Placed(at) ==
  /\ at \in [Nat -> [Nat -> Nat]] /\ at[1][0] = 0
  /\ \A k \in 1 .. Len(written) : \A j \in 1 .. Len(written[k]) : CellAt(at, k, j)
  /\ \A k \in 1 .. Len(written) - 1 :
       /\ at[k + 1][0] = at[k][Len(written[k])] + 1 /\ at[k + 1][0] <= Len(text)
       /\ text[at[k + 1][0]] = NL
  /\ Len(text) = at[Len(written)][Len(written[Len(written)])]

(* A text that was empty at first is made of the lines written, at places  *)
(* that can be told. There is one such at; the invariant says of it only   *)
(* that it exists.                                                         *)
WrittenInv ==
  /\ after_newline <=> written[Len(written)] = <<>>
  /\ job.before = <<>> => \E at : Placed(at)

(* One more place.                                                         *)
Puts(at, k, j, v, b) ==
  b[k][j] = v /\ \A i \in Nat : \A h \in Nat : ~(i = k /\ h = j) => b[i][h] = at[i][h]

LEMMA AtPut ==
  ASSUME NEW at \in [Nat -> [Nat -> Nat]], NEW k \in Nat, NEW j \in Nat, NEW v \in Nat
  PROVE  \E b \in [Nat -> [Nat -> Nat]] : Puts(at, k, j, v, b)
<1> DEFINE u == [h \in Nat |-> IF h = j THEN v ELSE at[k][h]]
           b == [i \in Nat |-> IF i = k THEN u ELSE at[i]]
<1>1. u \in [Nat -> Nat] /\ u[j] = v /\ \A h \in Nat : h # j => u[h] = at[k][h]
  OBVIOUS
<1> HIDE DEF u
<1>2. b \in [Nat -> [Nat -> Nat]] /\ b[k] = u /\ \A i \in Nat : i # k => b[i] = at[i]
  BY <1>1
<1> HIDE DEF b
<1>3. b[k][j] = v /\ \A i \in Nat : \A h \in Nat : ~(i = k /\ h = j) => b[i][h] = at[i][h]
  BY <1>1, <1>2
<1> QED BY <1>2, <1>3 DEF Puts

(* What is put for a column depends on the configuration only.             *)
LEMMA FormSame ==
  ASSUME Kept, NEW k, NEW j, NEW w, w = written[k][j], written'[k][j] = w
  PROVE  Form(written[k][j])' = Form(w) /\ Form(written[k][j]) = Form(w)
  BY DEF Kept, Form, Escaped, Surrounded

(* What is written.                                                        *)
LEMMA LinesType ==
  ASSUME TypeInv
  PROVE  /\ written \in Seq(Seq(Cell)) /\ Len(written) \in Nat /\ Len(written) \in 1 .. Len(written)
         /\ \A k \in 1 .. Len(written) : written[k] \in Seq(Cell) /\ Len(written[k]) \in Nat
         /\ \A k \in 1 .. Len(written) : \A j \in 1 .. Len(written[k]) : written[k][j] \in Cell
         /\ text \in Seq(Letters) /\ Len(text) \in Nat
<1>1. written \in Seq(Seq(Cell)) /\ written # <<>> /\ text \in Seq(Letters)
  BY DEF TypeInv, Text
<1>2. Len(written) \in Nat /\ Len(written) \in 1 .. Len(written)
  BY <1>1
<1>3. \A k \in 1 .. Len(written) : written[k] \in Seq(Cell)
  BY <1>1
<1>4. \A k \in 1 .. Len(written) :
        Len(written[k]) \in Nat /\ \A j \in 1 .. Len(written[k]) : written[k][j] \in Cell
  BY <1>3
<1> QED BY <1>1, <1>2, <1>3, <1>4

(* What was written stays where it is while more is written.               *)
LEMMA CellKept ==
  ASSUME TypeInv, Kept, NEW at \in [Nat -> [Nat -> Nat]], NEW b \in [Nat -> [Nat -> Nat]],
         NEW k \in 1 .. Len(written), NEW j \in 1 .. Len(written[k]), CellAt(at, k, j),
         written'[k][j] = written[k][j], b[k][j] = at[k][j], b[k][j - 1] = at[k][j - 1],
         Len(text') \in Nat, Len(text) <= Len(text'), \A i \in 1 .. Len(text) : text'[i] = text[i]
  PROVE  CellAt(b, k, j)'
<1>1. PICK w : w = written[k][j]
  OBVIOUS
<1>2. w \in Cell /\ Len(text) \in Nat
  BY <1>1, LinesType
<1>3. Form(w) \in Text /\ Len(Form(w)) \in Nat
  BY <1>2, FormType DEF TypeInv
<1>4. PICK x : x = Form(w)
  OBVIOUS
<1>5. Form(written[k][j])' = x /\ Form(written[k][j]) = x /\ Len(x) \in Nat
  BY <1>1, <1>3, <1>4, FormSame
<1>6. Stands(text, at[k][j - 1], at[k][j], j, x, w.delimiter)
  BY <1>1, <1>5 DEF CellAt
<1>7. Stands(text', at[k][j - 1], at[k][j], j, x, w.delimiter)
  BY <1>2, <1>5, <1>6, StandsIn
<1>8. CellAt(b, k, j)' <=> Stands(text', b[k][j - 1], b[k][j], j, x, w.delimiter)
  BY <1>1, <1>5 DEF CellAt
<1> QED BY <1>7, <1>8

(* One more column stands behind the others, and one more line behind its  *)
(* newline.                                                                *)
LEMMA WrittenPut ==
  ASSUME TypeInv, WrittenInv, NEW by \in {"string", "other"}, Put(by)
  PROVE  WrittenInv'
<1>1. Output(by) /\ after_newline' = FALSE
  BY DEF Put
<1>2. Kept
  BY <1>1, OutputKeeps DEF TypeInv
<1>3. PICK w \in Cell :
           /\ w = [value |-> Head(job.out)[2], delimiter |-> out_delimiter, by |-> by]
           /\ text' = (text \o (IF after_newline THEN <<>> ELSE <<out_delimiter>>)) \o Form(w)
           /\ written' = [written EXCEPT ![Len(written)] = Append(@, w)]
           /\ Form(w) \in Text
  BY PutIs
<1>4. PICK n \in Nat : n = Len(written) /\ n \in 1 .. n /\ n \in 1 .. Len(written)
  BY LinesType
<1>5. PICK l \in Nat : l = Len(written[n])
  BY <1>4, LinesType
<1>6. /\ Len(written') = n /\ written'[n] = Append(written[n], w) /\ n \in 1 .. n
      /\ \A k \in 1 .. n : k # n => written'[k] = written[k]
  <2>1. written \in Seq(Seq(Cell)) /\ written # <<>>
    BY DEF TypeInv
  <2> QED BY <2>1, <1>3, <1>4, LastIs
<1>7. /\ Len(written'[n]) = l + 1 /\ written'[n][l + 1] = w /\ written'[n] # <<>>
      /\ \A j \in 1 .. l : written'[n][j] = written[n][j]
  <2>1. written[n] \in Seq(Cell)
    BY <1>4, LinesType
  <2>2. LET tt == Append(written[n], w)
        IN  /\ tt # <<>> /\ Len(tt) = Len(written[n]) + 1 /\ tt[Len(tt)] = w
            /\ \A k \in 1 .. Len(written[n]) : tt[k] = written[n][k]
    BY <2>1, AppendIs
  <2> QED BY <2>2, <1>5, <1>6
<1>8. (after_newline')  <=> (written'[Len(written')] = <<>>)
  BY <1>1, <1>6, <1>7
<1>9. ASSUME job.before = <<>> PROVE \E b : Placed(b)'
  <2>1. PICK at : Placed(at)
    BY <1>9 DEF WrittenInv
  <2> DEFINE d == IF after_newline THEN <<>> ELSE <<out_delimiter>>
             x == Form(w)
             o == IF l + 1 = 1 THEN 0 ELSE 1
             a == at[n][l]
             v == a + o + Len(x)
  <2>2. /\ at \in [Nat -> [Nat -> Nat]] /\ at[1][0] = 0 /\ Len(text) = a
        /\ text \in Seq(Letters) /\ a \in Nat
    BY <2>1, <1>4, <1>5, LinesType DEF Placed
  <2>3. after_newline <=> l = 0
    <3>1. written[n] \in Seq(Cell)
      BY <1>4, LinesType
    <3>2. l = 0 <=> written[n] = <<>>
      BY <3>1, <1>5
    <3> QED BY <3>2, <1>4 DEF WrittenInv
  <2>4. /\ d \in Seq(Letters) /\ Len(d) = o /\ o \in {0, 1} /\ (o = 1 <=> l + 1 # 1)
        /\ (l + 1 # 1 => d[1] = out_delimiter) /\ w.delimiter = out_delimiter
    <3>1. out_delimiter \in Letters
      BY DEF TypeInv
    <3>2. w.delimiter = out_delimiter
      BY <1>3
    <3>3. d = IF l + 1 = 1 THEN <<>> ELSE <<out_delimiter>>
      BY <2>3
    <3> HIDE DEF d
    <3> QED BY <3>1, <3>2, <3>3
  <2>5. x \in Seq(Letters) /\ Len(x) \in Nat
    BY <1>3 DEF Text
  <2>6. text' = (text \o d) \o x
    BY <1>3
  <2> HIDE DEF d, x, o, a
  <2> DEFINE td == text \o d
  <2>7. /\ td \in Seq(Letters) /\ Len(td) = a + o
        /\ (\A i \in 1 .. a : td[i] = text[i])
        /\ (l + 1 # 1 => td[a + 1] = out_delimiter)
    <3>1. /\ td \in Seq(Letters) /\ Len(td) = Len(text) + Len(d)
          /\ \A i \in 1 .. Len(text) : td[i] = text[i]
          /\ \A i \in 1 .. Len(d) : td[Len(text) + i] = d[i]
      <4>1. text \in Seq(Letters) /\ d \in Seq(Letters)
        BY <2>2, <2>4
      <4> QED BY <4>1, JoinIs
    <3> HIDE DEF td
    <3>2. l + 1 # 1 => 1 \in 1 .. Len(d)
      BY <2>4
    <3> QED BY <2>2, <2>4, <3>1, <3>2
  <2> HIDE DEF td
  <2>8. /\ Len(text') = v /\ v \in Nat /\ a <= v /\ a + o <= v /\ Len(text') \in Nat
        /\ (\A i \in 1 .. a : text'[i] = text[i])
        /\ (\A i \in 1 .. Len(x) : text'[a + o + i] = x[i])
        /\ (l + 1 # 1 => text'[a + 1] = out_delimiter)
    <3>1. /\ text' = td \o x /\ Len(text') = Len(td) + Len(x)
          /\ \A i \in 1 .. Len(td) : text'[i] = td[i]
          /\ \A i \in 1 .. Len(x) : text'[Len(td) + i] = x[i]
      BY <2>5, <2>6, <2>7, JoinIs DEF td
    <3>2. \A i \in 1 .. a : i \in 1 .. Len(td)
      BY <2>2, <2>4, <2>7
    <3>3. l + 1 # 1 => a + 1 \in 1 .. Len(td)
      BY <2>2, <2>4, <2>7
    <3>4. Len(text') = v /\ v \in Nat /\ a <= v /\ a + o <= v
      <4>1. a \in Nat /\ o \in Nat /\ Len(x) \in Nat /\ Len(text') = (a + o) + Len(x)
        BY <2>2, <2>4, <2>5, <2>7, <3>1
      <4> QED BY <4>1
    <3> HIDE DEF v
    <3> QED BY <2>7, <3>1, <3>2, <3>3, <3>4
  <2> HIDE DEF v
  <2>9. PICK b \in [Nat -> [Nat -> Nat]] :
             b[n][l + 1] = v /\ \A i \in Nat : \A h \in Nat : ~(i = n /\ h = l + 1) => b[i][h] = at[i][h]
    <3>1. PICK h \in Nat : h = l + 1
      OBVIOUS
    <3>2. at \in [Nat -> [Nat -> Nat]] /\ v \in Nat
      BY <2>2, <2>8
    <3>3. PICK b \in [Nat -> [Nat -> Nat]] : Puts(at, n, h, v, b)
      BY <3>2, AtPut
    <3> QED BY <3>1, <3>3 DEF Puts
  <2>10. ASSUME NEW k \in 1 .. n, NEW j \in 1 .. Len(written'[k]) PROVE CellAt(b, k, j)'
    <3>1. CASE k = n /\ j = l + 1
      <4>1. b[k][j] = v /\ b[k][j - 1] = a
        <5>1. l \in Nat /\ n \in Nat /\ ~(l = l + 1) /\ j - 1 = l
          BY <3>1
        <5>2. b[n][l] = at[n][l]
          BY <2>9, <5>1
        <5> QED BY <5>1, <5>2, <2>9, <3>1 DEF a
      <4>2. /\ Form(written[k][j])' = x /\ written'[k][j] = w
        <5>1. written'[k][j] = w
          BY <1>7, <3>1
        <5>2. Form(written[k][j])' = Form(w)
          BY <5>1, <1>2 DEF Kept, Form, Escaped, Surrounded
        <5> QED BY <5>1, <5>2 DEF x
      <4>3. Stands(text', a, v, j, x, out_delimiter)
        <5>1. (IF j = 1 THEN 0 ELSE 1) = o
          BY <3>1 DEF o
        <5>2. v = (a + o) + Len(x)
          BY DEF v
        <5>3. /\ v <= Len(text') /\ (\A i \in 1 .. Len(x) : text'[(a + o) + i] = x[i])
              /\ (j # 1 => text'[a + 1] = out_delimiter)
          BY <2>8, <3>1, <2>2, <2>4
        <5> QED BY <5>1, <5>2, <5>3, <2>2 DEF Stands
      <4>4. CellAt(b, k, j)' <=> Stands(text', b[k][j - 1], b[k][j], j, x, w.delimiter)
        BY <4>2 DEF CellAt
      <4> QED BY <4>1, <4>3, <4>4, <2>4
    <3>2. CASE ~(k = n /\ j = l + 1)
      <4>1. j \in 1 .. Len(written[k]) /\ written'[k][j] = written[k][j]
        <5>1. CASE k = n
          <6>1. j \in 1 .. l
            BY <5>1, <3>2, <1>7
          <6> QED BY <5>1, <6>1, <1>5, <1>7
        <5>2. CASE k # n
          BY <5>2, <1>6
        <5> QED BY <5>1, <5>2
      <4>2. k \in 1 .. Len(written) /\ CellAt(at, k, j) /\ k \in Nat /\ j \in Nat /\ j - 1 \in Nat
        <5>1. k \in 1 .. Len(written)
          BY <1>4
        <5>2. Len(written[k]) \in Nat
          BY <5>1, LinesType
        <5>3. j \in Nat /\ j - 1 \in Nat /\ k \in Nat
          BY <4>1, <5>1, <5>2
        <5>4. CellAt(at, k, j)
          BY <5>1, <2>1, <4>1 DEF Placed
        <5> QED BY <5>1, <5>3, <5>4
      <4>3. b[k][j] = at[k][j] /\ b[k][j - 1] = at[k][j - 1]
        <5>1. ~(k = n /\ j - 1 = l + 1)
          <6>1. Len(written'[k]) = l + 1 \/ k # n
            BY <1>7
          <6>2. k = n => j \in 1 .. l + 1
            BY <6>1
          <6> QED BY <6>2, <4>2
        <5> QED BY <5>1, <3>2, <4>2, <2>9
      <4>4. Len(text) <= Len(text') /\ (\A i \in 1 .. Len(text) : text'[i] = text[i])
        BY <2>2, <2>8
      <4> QED BY <4>1, <4>2, <4>3, <4>4, <2>2, <2>8, <2>9, <1>2, CellKept
    <3> QED BY <3>1, <3>2
  <2>11. ASSUME NEW k \in 1 .. n - 1
         PROVE  /\ b[k + 1][0] = b[k][Len(written'[k])] + 1 /\ b[k + 1][0] <= Len(text')
                /\ text'[b[k + 1][0]] = NL
    <3>1. k \in 1 .. Len(written) - 1 /\ k \in 1 .. Len(written) /\ k \in 1 .. n /\ k # n /\ k \in Nat
      <4>1. k \in 1 .. n /\ k # n /\ k \in Nat /\ k \in 1 .. n - 1
        OBVIOUS
      <4>2. n = Len(written)
        BY <1>4
      <4> QED BY <4>1, <4>2
    <3>2. /\ at[k + 1][0] = at[k][Len(written[k])] + 1 /\ at[k + 1][0] <= Len(text)
          /\ text[at[k + 1][0]] = NL
      BY <2>1, <3>1 DEF Placed
    <3>3. written'[k] = written[k] /\ Len(written[k]) \in Nat
      BY <1>6, <3>1, LinesType
    <3>4. b[k + 1][0] = at[k + 1][0] /\ b[k][Len(written[k])] = at[k][Len(written[k])]
      <4>1. ~(0 = l + 1) /\ 0 \in Nat /\ k + 1 \in Nat
        BY <3>1
      <4> QED BY <4>1, <3>1, <3>3, <2>9
    <3>5. at[k][Len(written[k])] \in Nat
      BY <3>3, <3>1, <2>2
    <3>6. PICK c \in Nat : c = at[k][Len(written[k])]
      BY <3>5
    <3>7. at[k + 1][0] = c + 1 /\ c + 1 <= a /\ text[c + 1] = NL
      BY <3>2, <3>6, <2>2
    <3>8. c + 1 \in 1 .. a
      BY <3>7, <2>2
    <3>9. text'[c + 1] = NL /\ c + 1 <= Len(text')
      BY <3>7, <3>8, <2>2, <2>8
    <3> QED BY <3>3, <3>4, <3>6, <3>7, <3>9
  <2>12. b[1][0] = 0
    <3>1. ~(0 = l + 1) /\ 0 \in Nat /\ 1 \in Nat
      OBVIOUS
    <3> QED BY <3>1, <2>2, <2>9
  <2>13. Len(text') = b[Len(written')][Len(written'[Len(written')])]
    BY <1>6, <1>7, <2>8, <2>9
  <2>14. Placed(b)'
    BY <1>6, <2>9, <2>10, <2>11, <2>12, <2>13 DEF Placed
  <2> QED BY <2>14
<1>10. job'.before = job.before
  BY <1>2 DEF Kept
<1> QED BY <1>8, <1>9, <1>10 DEF WrittenInv

LEMMA WrittenNewline ==
  ASSUME TypeInv, WrittenInv, PutNewline
  PROVE  WrittenInv'
<1>1. /\ Output("newline") /\ after_newline' = TRUE
      /\ text' = Append(text, NL) /\ written' = Append(written, <<>>)
  BY DEF PutNewline
<1>2. Kept
  BY <1>1, OutputKeeps DEF TypeInv
<1>3. PICK n \in Nat : n = Len(written) /\ n \in 1 .. n /\ n \in 1 .. Len(written)
  BY LinesType
<1>4. /\ Len(written') = n + 1 /\ written'[n + 1] = <<>> /\ \A k \in 1 .. n : written'[k] = written[k]
  <2>1. written \in Seq(Seq(Cell)) /\ <<>> \in Seq(Cell)
    BY LinesType
  <2>2. PICK none \in Seq(Cell) : none = <<>>
    BY <2>1
  <2>3. LET tt == Append(written, none)
        IN  /\ tt # <<>> /\ Len(tt) = Len(written) + 1 /\ tt[Len(tt)] = none
            /\ \A k \in 1 .. Len(written) : tt[k] = written[k]
    BY <2>1, AppendIs
  <2>4. written' = Append(written, none)
    BY <1>1, <2>2
  <2> QED BY <2>3, <2>2, <2>4, <1>3
<1>5. (after_newline')  <=> (written'[Len(written')] = <<>>)
  BY <1>1, <1>4
<1>6. ASSUME job.before = <<>> PROVE \E b : Placed(b)'
  <2>1. PICK at : Placed(at)
    BY <1>6 DEF WrittenInv
  <2>2. PICK l \in Nat : l = Len(written[n])
    BY <1>3, LinesType
  <2> DEFINE a == at[n][l]
  <2>3. /\ at \in [Nat -> [Nat -> Nat]] /\ at[1][0] = 0 /\ Len(text) = a
        /\ text \in Seq(Letters) /\ a \in Nat
    BY <2>1, <2>2, <1>3, LinesType DEF Placed
  <2>4. /\ Len(text') = a + 1 /\ text'[a + 1] = NL /\ Len(text') \in Nat
        /\ \A i \in 1 .. a : text'[i] = text[i]
    <3>1. PICK c \in Letters : c = NL
      BY LetterTexts
    <3>2. text \in Seq(Letters)
      BY <2>3
    <3>3. LET tt == Append(text, c)
          IN  /\ tt # <<>> /\ Len(tt) = Len(text) + 1 /\ tt[Len(tt)] = c
              /\ \A k \in 1 .. Len(text) : tt[k] = text[k]
      BY <3>2, AppendIs
    <3>4. text' = Append(text, c)
      BY <3>1, <1>1
    <3>5. Len(text) = a
      BY <2>3
    <3> HIDE DEF a
    <3>6. /\ Len(text') = a + 1 /\ text'[a + 1] = c
          /\ \A i \in 1 .. a : text'[i] = text[i]
      BY <3>3, <3>4, <3>5
    <3>7. a \in Nat
      BY <2>3
    <3> QED BY <3>1, <3>6, <3>7
  <2> HIDE DEF a
  <2>5. PICK b \in [Nat -> [Nat -> Nat]] :
             b[n + 1][0] = a + 1 /\ \A i \in Nat : \A g \in Nat : ~(i = n + 1 /\ g = 0) => b[i][g] = at[i][g]
    <3>1. PICK h \in Nat : h = n + 1
      OBVIOUS
    <3>2. PICK v \in Nat : v = a + 1
      BY <2>3
    <3>3. at \in [Nat -> [Nat -> Nat]] /\ 0 \in Nat
      BY <2>3
    <3>4. PICK b \in [Nat -> [Nat -> Nat]] : Puts(at, h, 0, v, b)
      BY <3>3, AtPut
    <3> QED BY <3>1, <3>2, <3>4 DEF Puts
  <2>6. \A i \in 1 .. n : \A g \in Nat : i \in Nat /\ b[i][g] = at[i][g]
    <3>1. \A i \in 1 .. n : i \in Nat /\ ~(i = n + 1)
      OBVIOUS
    <3> QED BY <3>1, <2>5
  <2>7. ASSUME NEW k \in 1 .. n + 1, NEW j \in 1 .. Len(written'[k]) PROVE CellAt(b, k, j)'
    <3>1. k \in 1 .. n
      <4>1. Len(written'[n + 1]) = 0
        BY <1>4
      <4>2. k = n + 1 => j \in 1 .. 0
        BY <4>1
      <4> QED BY <4>2
    <3>2. written'[k] = written[k] /\ k \in 1 .. Len(written)
      <4>1. k \in 1 .. Len(written)
        BY <3>1, <1>3
      <4> QED BY <4>1, <3>1, <1>4
    <3>3. j \in 1 .. Len(written[k]) /\ j \in Nat /\ j - 1 \in Nat /\ written'[k][j] = written[k][j]
      <4>1. Len(written[k]) \in Nat
        BY <3>2, LinesType
      <4>2. j \in 1 .. Len(written[k])
        BY <3>2
      <4> QED BY <4>1, <4>2, <3>2
    <3>4. CellAt(at, k, j)
      BY <3>2, <3>3, <2>1 DEF Placed
    <3>5. b[k][j] = at[k][j] /\ b[k][j - 1] = at[k][j - 1]
      BY <3>1, <3>3, <2>6
    <3>6. Len(text) <= Len(text') /\ (\A i \in 1 .. Len(text) : text'[i] = text[i])
      BY <2>3, <2>4
    <3> QED BY <3>2, <3>3, <3>4, <3>5, <3>6, <2>3, <2>4, <2>5, <1>2, CellKept
  <2>8. ASSUME NEW k \in 1 .. n
        PROVE  /\ b[k + 1][0] = b[k][Len(written'[k])] + 1 /\ b[k + 1][0] <= Len(text')
               /\ text'[b[k + 1][0]] = NL
    <3>1. CASE k = n
      <4>1. written'[k] = written[n] /\ l = Len(written[n])
        BY <3>1, <1>4, <2>2
      <4>2. b[k][l] = a
        BY <3>1, <2>6 DEF a
      <4>3. b[k + 1][0] = a + 1
        BY <3>1, <2>5
      <4> QED BY <4>1, <4>2, <4>3, <2>3, <2>4
    <3>2. CASE k # n
      <4>1. k \in 1 .. n - 1 /\ k + 1 \in 1 .. n /\ k \in Nat
        BY <3>2
      <4>2. k \in 1 .. Len(written) - 1 /\ k \in 1 .. Len(written)
        BY <4>1, <1>3
      <4>3. /\ at[k + 1][0] = at[k][Len(written[k])] + 1 /\ at[k + 1][0] <= Len(text)
            /\ text[at[k + 1][0]] = NL
        BY <2>1, <4>2 DEF Placed
      <4>4. written'[k] = written[k] /\ Len(written[k]) \in Nat
        BY <1>4, <4>1, <4>2, LinesType
      <4>5. PICK c \in Nat : c = at[k][Len(written[k])]
        BY <4>1, <4>4, <2>3
      <4>6. b[k + 1][0] = at[k + 1][0] /\ b[k][Len(written[k])] = c
        BY <4>1, <4>4, <4>5, <2>6
      <4>7. at[k + 1][0] = c + 1 /\ c + 1 <= a /\ text[c + 1] = NL
        BY <4>3, <4>5, <2>3
      <4>8. c + 1 \in 1 .. a
        BY <4>7, <2>3
      <4>9. text'[c + 1] = NL /\ c + 1 <= Len(text')
        BY <4>7, <4>8, <2>3, <2>4
      <4> QED BY <4>4, <4>6, <4>7, <4>9
    <3> QED BY <3>1, <3>2
  <2>9. b[1][0] = 0
    <3>1. 1 \in 1 .. n /\ 0 \in Nat
      BY <1>3
    <3>2. b[1][0] = at[1][0]
      BY <3>1, <2>6
    <3> QED BY <3>2, <2>3
  <2>10. Len(text') = b[Len(written')][Len(written'[Len(written')])]
    <3>1. Len(written'[n + 1]) = 0
      BY <1>4
    <3> QED BY <3>1, <1>4, <2>4, <2>5
  <2>11. Len(written') - 1 = n
    BY <1>4
  <2>12. Placed(b)'
    BY <1>4, <2>5, <2>7, <2>8, <2>9, <2>10, <2>11 DEF Placed
  <2> QED BY <2>12
<1>7. job'.before = job.before
  BY <1>2 DEF Kept
<1> QED BY <1>5, <1>6, <1>7 DEF WrittenInv

(* Nothing else touches what was written.                                  *)
LEMMA PlacedKept ==
  ASSUME Kept, UNCHANGED <<text, written>>
  PROVE  \A at : Placed(at)' <=> Placed(at)
<1> SUFFICES ASSUME NEW at PROVE Placed(at)' <=> Placed(at)
  OBVIOUS
<1>1. ASSUME NEW k, NEW j PROVE CellAt(at, k, j)' <=> CellAt(at, k, j)
  <2>1. PICK w : w = written[k][j]
    OBVIOUS
  <2>2. Form(written[k][j])' = Form(w) /\ Form(written[k][j]) = Form(w)
    BY <2>1, FormSame
  <2> QED BY <2>1, <2>2 DEF CellAt
<1> QED BY <1>1 DEF Placed

(* Every step keeps what was written in its place.                         *)
LEMMA WrittenNext ==
  ASSUME TypeInv, WrittenInv, [Next]_vars
  PROVE  WrittenInv'
<1>1. CASE PutString \/ PutOther
  BY <1>1, WrittenPut DEF PutString, PutOther
<1>2. CASE PutNewline
  BY <1>2, WrittenNewline
<1>3. CASE ~(PutString \/ PutOther \/ PutNewline)
  <2>1. Kept /\ UNCHANGED <<text, written, after_newline>>
    <3>1. CASE PutSep
      BY <3>1, OutputKeeps DEF PutSep, TypeInv
    <3>2. CASE \/ OpenFile \/ SetInputString \/ EnableTrimQuote \/ SetSep
              \/ ReadLine \/ SkipLine \/ ReadColumn \/ RestOfLine
      <4>1. \E op : Input(op)
        BY <3>2 DEF OpenFile, SetInputString, EnableTrimQuote, SetSep, ReadLine, SkipLine,
           ReadColumn, RestOfLine
      <4> QED BY <4>1, InputKeeps DEF TypeInv, writer
    <3>3. CASE LineRound \/ LastColumn \/ DoubledQuote \/ ColumnChar
      BY <3>3 DEF LineRound, LastColumn, DoubledQuote, ColumnChar, writer, Kept
    <3>4. CASE UNCHANGED vars
      BY <3>4 DEF vars, writer, Kept
    <3> QED BY <1>3, <3>1, <3>2, <3>3, <3>4 DEF Next, Loop
  <2>2. \A at : Placed(at)' <=> Placed(at)
    BY <2>1, PlacedKept
  <2> QED BY <2>1, <2>2 DEF WrittenInv, Kept
<1> QED BY <1>1, <1>2, <1>3

LEMMA WrittenInit ==
  ASSUME Init
  PROVE  WrittenInv
<1>1. written = << <<>> >> /\ after_newline = TRUE /\ text = job.before
  BY DEF Init
<1>2. Len(written) = 1 /\ written[1] = <<>> /\ Len(written[1]) = 0
  BY <1>1
<1>3. ASSUME job.before = <<>> PROVE \E at : Placed(at)
  <2> DEFINE at == [k \in Nat |-> [j \in Nat |-> 0]]
  <2>1. at \in [Nat -> [Nat -> Nat]] /\ at[1][0] = 0
    OBVIOUS
  <2> HIDE DEF at
  <2>2. Len(text) = 0
    BY <1>1, <1>3
  <2>3. Placed(at)
    <3>1. \A k \in 1 .. Len(written) : k = 1 /\ \A j \in 1 .. Len(written[k]) : FALSE
      BY <1>2
    <3>2. \A k \in 1 .. Len(written) - 1 : FALSE
      BY <1>2
    <3>3. Len(text) = at[Len(written)][Len(written[Len(written)])]
      BY <1>2, <2>1, <2>2
    <3> QED BY <2>1, <3>1, <3>2, <3>3 DEF Placed
  <2> QED BY <2>3
<1> QED BY <1>1, <1>2, <1>3 DEF WrittenInv

(* One more character of a token.                                          *)
LEMMA SubAppend ==
  ASSUME NEW t \in Seq(Letters), NEW m \in 0 .. Len(t) - 1
  PROVE  Append(SubSeq(t, 1, m), t[m + 1]) = SubSeq(t, 1, m + 1)
<1> DEFINE a == SubSeq(t, 1, m)
           n == m + 1
           b == SubSeq(t, 1, n)
<1>1. /\ Len(t) \in Nat /\ m \in Nat /\ n \in 1 .. Len(t) /\ t[n] \in Letters
      /\ m \in 0 .. Len(t) /\ n \in 0 .. Len(t) /\ 1 \in 1 .. m + 1 /\ 1 \in 1 .. n + 1
  <2>1. Len(t) \in Nat
    OBVIOUS
  <2>2. m \in Nat /\ n \in 1 .. Len(t)
    BY <2>1
  <2>3. t[n] \in Letters
    BY <2>2
  <2> QED BY <2>1, <2>2, <2>3
<1> HIDE DEF n
<1>2. /\ a \in Seq(Letters) /\ Len(a) = m - 1 + 1 /\ \A j \in 1 .. m - 1 + 1 : a[j] = t[1 - 1 + j]
  BY <1>1, SubSeqIs
<1>3. /\ b \in Seq(Letters) /\ Len(b) = n - 1 + 1 /\ \A j \in 1 .. n - 1 + 1 : b[j] = t[1 - 1 + j]
  BY <1>1, SubSeqIs
<1>4. Len(a) = m /\ (\A j \in 1 .. m : a[j] = t[j]) /\ Len(b) = n /\ \A j \in 1 .. n : b[j] = t[j]
  BY <1>1, <1>2, <1>3
<1> HIDE DEF a, b
<1> DEFINE c == Append(a, t[n])
<1>5. /\ c \in Seq(Letters) /\ Len(c) = m + 1 /\ c[m + 1] = t[n] /\ \A j \in 1 .. m : c[j] = a[j]
  BY <1>1, <1>2, <1>4
<1> HIDE DEF c
<1>6. \A j \in 1 .. Len(c) : c[j] = b[j]
  <2> TAKE j \in 1 .. Len(c)
  <2>1. CASE j = n
    BY <2>1, <1>4, <1>5 DEF n
  <2>2. CASE j # n
    <3>1. j \in 1 .. m /\ j \in 1 .. n
      BY <2>2, <1>1, <1>5 DEF n
    <3> QED BY <3>1, <1>4, <1>5
  <2> QED BY <2>1, <2>2
<1>7. Len(c) = Len(b)
  BY <1>4, <1>5 DEF n
<1>8. c = b
  BY <1>3, <1>5, <1>6, <1>7, SameSequence
<1> QED BY <1>8 DEF a, b, c, n

-----------------------------------------------------------------------------
(* A column in the line that is held                                       *)

(* Where a column lies in the line that is being read, and how far the     *)
(* reader is through it.                                                   *)
Lies(q, d, x, h) ==
  /\ h \in Nat /\ h + Len(x) <= Len(str) /\ \A i \in 1 .. Len(x) : str[h + i] = x[i]
  /\ h + Len(x) < Len(str) => str[h + Len(x) + 1] = d
  /\ q => h = 0 \/ str[h] = d

(* The reader has m characters of the token of a column that begins behind *)
(* h.                                                                      *)
Mid(q, t, h, f, m) ==
  /\ m \in 0 .. Len(t) /\ pos = h + f[m] /\ token = SubSeq(t, 1, m)
  /\ within_quote <=> q /\ 1 <= m /\ m < Len(t)

(* Scan, one character ahead.                                              *)
LEMMA ScanIs ==
  ASSUME NEW q, NEW d, NEW t, NEW x, NEW f, Scan(q, d, t, x, f)
  PROVE  /\ t \in Seq(Letters) /\ x \in Seq(Letters) /\ Len(t) \in Nat /\ Len(x) \in Nat
         /\ f \in [0 .. Len(t) -> 0 .. Len(x)] /\ f[0] = 0 /\ f[Len(t)] = Len(x)
         /\ \A m \in 0 .. Len(t) - 1 :
              /\ f[m] \in Nat /\ f[m + 1] \in 0 .. Len(x) /\ t[m + 1] \notin {NL, "CR"}
              /\ \/ /\ f[m + 1] = f[m] + 1 /\ x[f[m + 1]] = t[m + 1]
                    /\ q => (t[m + 1] = Quote <=> m = 0 \/ m + 1 = Len(t))
                 \/ /\ f[m + 1] = f[m] + 2 /\ q /\ m # 0 /\ m + 1 # Len(t) /\ t[m + 1] = Quote
                    /\ x[f[m + 1] - 1] = Quote /\ x[f[m + 1]] = Quote
              /\ ~q => t[m + 1] # d /\ (m = 0 => t[m + 1] # Quote)
         /\ q => Len(t) >= 2
<1> DEFINE n == Len(t)
<1>1. /\ t \in Seq(Letters) /\ x \in Seq(Letters) /\ f \in [0 .. n -> 0 .. Len(x)] /\ f[0] = 0 /\ f[n] = Len(x)
      /\ \A m \in 1 .. n :
           /\ t[m] \notin {NL, "CR"}
           /\ \/ /\ f[m] = f[m - 1] + 1 /\ x[f[m]] = t[m]
                 /\ q => (t[m] = Quote <=> m \in {1, n})
              \/ /\ f[m] = f[m - 1] + 2 /\ q /\ m \notin {1, n} /\ t[m] = Quote
                 /\ x[f[m] - 1] = Quote /\ x[f[m]] = Quote
           /\ ~q => t[m] # d /\ (m = 1 => t[m] # Quote)
      /\ q => n >= 2
  BY DEF Scan, Text
<1>2. n \in Nat /\ Len(x) \in Nat
  BY <1>1
<1> HIDE DEF n
<1>3. ASSUME NEW m \in 0 .. n - 1
      PROVE  /\ f[m] \in Nat /\ f[m + 1] \in 0 .. Len(x) /\ t[m + 1] \notin {NL, "CR"}
             /\ \/ /\ f[m + 1] = f[m] + 1 /\ x[f[m + 1]] = t[m + 1]
                   /\ q => (t[m + 1] = Quote <=> m = 0 \/ m + 1 = n)
                \/ /\ f[m + 1] = f[m] + 2 /\ q /\ m # 0 /\ m + 1 # n /\ t[m + 1] = Quote
                   /\ x[f[m + 1] - 1] = Quote /\ x[f[m + 1]] = Quote
             /\ ~q => t[m + 1] # d /\ (m = 0 => t[m + 1] # Quote)
  <2>1. PICK k \in 1 .. n : k = m + 1 /\ k - 1 = m /\ (k = 1 <=> m = 0)
    BY <1>2
  <2>2. m \in 0 .. n /\ k \in 0 .. n
    BY <1>2, <2>1
  <2>3. f[m] \in Nat /\ f[k] \in 0 .. Len(x)
    BY <1>1, <1>2, <2>2
  <2> QED BY <1>1, <2>1, <2>3
<1> QED BY <1>1, <1>2, <1>3 DEF n

(* The line that is held.                                                  *)
LEMMA StrIs ==
  ASSUME TypeInv
  PROVE  str \in Seq(Letters) /\ Len(str) \in Nat /\ pos \in Nat
         /\ \A i \in Nat : At(str, i) = IF 1 <= i /\ i <= Len(str) THEN str[i] ELSE "NUL"
<1>1. str \in Seq(Letters) /\ Len(str) \in Nat /\ pos \in Nat /\ DOMAIN str = 1 .. Len(str)
  BY DEF TypeInv, Text
<1>2. ASSUME NEW i \in Nat PROVE At(str, i) = IF 1 <= i /\ i <= Len(str) THEN str[i] ELSE "NUL"
  <2>1. i \in DOMAIN str <=> 1 <= i /\ i <= Len(str)
    BY <1>1
  <2> QED BY <2>1 DEF At
<1> QED BY <1>1, <1>2

(* The whole column is read: it is given, and the delimiter passed over.   *)
LEMMA MidEnd ==
  ASSUME TypeInv, NEW q, NEW d, d = delimiter, d # Quote, NEW t, NEW x, NEW f, NEW h,
         Scan(q, d, t, x, f), Lies(q, d, x, h), Mid(q, t, h, f, Len(t)),
         LastColumn \/ DoubledQuote \/ ColumnChar
  PROVE  /\ GiveToken(t)
         /\ h + Len(x) < Len(str) => str' = str /\ pos' = h + Len(x) + 1
<1>1. /\ t \in Seq(Letters) /\ Len(t) \in Nat /\ f[Len(t)] = Len(x) /\ Len(x) \in Nat
  BY ScanIs
<1>2. pos = h + Len(x) /\ token = t /\ ~within_quote /\ h \in Nat
  <2>1. SubSeq(t, 1, Len(t)) = t
    BY <1>1
  <2> QED BY <1>1, <2>1 DEF Mid, Lies
<1>3. CASE LastColumn
  <2>1. GiveToken(token) /\ pos >= Len(str)
    BY <1>3 DEF LastColumn
  <2> QED BY <2>1, <1>1, <1>2, StrIs
<1>4. CASE DoubledQuote
  BY <1>2, <1>4 DEF DoubledQuote
<1>5. CASE ColumnChar
  <2>1. pos < Len(str) /\ str[pos + 1] = d
    <3>1. pos < Len(str)
      BY <1>5 DEF ColumnChar
    <3> QED BY <3>1, <1>2 DEF Lies
  <2>2. Here = d
    BY <2>1, HereIs
  <2>3. ~OpensQuote /\ (within_quote' = (OpensQuote \/ (within_quote /\ Here # Quote)))
    BY <1>5, <2>2 DEF ColumnChar, OpensQuote
  <2>4. ~within_quote'
    BY <2>3, <1>2
  <2>5. GiveToken(token) /\ pos' = pos + 1 /\ str' = str
    BY <1>5, <2>2, <2>4 DEF ColumnChar
  <2> QED BY <2>5, <1>2
<1> QED BY <1>3, <1>4, <1>5

(* Short of its end, a character or two of it are read and nothing is      *)
(* given.                                                                  *)
LEMMA MidStep ==
  ASSUME TypeInv, NEW q, q \in BOOLEAN, NEW d, d = delimiter, d # Quote, NEW t, NEW x, NEW f, NEW h,
         Scan(q, d, t, x, f), Lies(q, d, x, h), NEW m, Mid(q, t, h, f, m), m # Len(t),
         LastColumn \/ DoubledQuote \/ ColumnChar
  PROVE  Mid(q, t, h, f, m + 1)' /\ UNCHANGED <<pc, got, str>>
<1>1. PICK n \in Nat, l \in Nat, r \in Nat : n = Len(t) /\ l = Len(x) /\ r = Len(str)
  <2>1. Len(t) \in Nat /\ Len(x) \in Nat /\ Len(str) \in Nat
    BY ScanIs, StrIs
  <2> QED BY <2>1
<1>2. /\ t \in Seq(Letters) /\ x \in Seq(Letters)
      /\ f[0] = 0 /\ f[n] = l /\ (q => n >= 2)
  BY <1>1, ScanIs
<1>3. /\ m \in 0 .. n - 1 /\ m \in Nat /\ pos = h + f[m] /\ token = SubSeq(t, 1, m)
      /\ within_quote <=> q /\ 1 <= m
      /\ h \in Nat /\ h + l <= r /\ (\A i \in 1 .. l : str[h + i] = x[i])
      /\ h + l < r => str[h + l + 1] = d
      /\ q => h = 0 \/ str[h] = d
  <2>1. m \in 0 .. n /\ m # n
    BY <1>1 DEF Mid
  <2>2. m \in 0 .. n - 1 /\ m < n /\ m \in Nat
    BY <1>1, <2>1
  <2>3. pos = h + f[m] /\ token = SubSeq(t, 1, m) /\ (within_quote <=> q /\ 1 <= m /\ m < n)
    BY <1>1 DEF Mid
  <2>4. /\ h \in Nat /\ h + l <= r /\ (\A i \in 1 .. l : str[h + i] = x[i])
        /\ h + l < r => str[h + l + 1] = d
        /\ q => h = 0 \/ str[h] = d
    BY <1>1 DEF Lies
  <2> QED BY <2>2, <2>3, <2>4
<1>4. PICK a \in Nat, b \in Nat : a = f[m] /\ b = f[m + 1] /\ b <= l /\ pos = h + a
  <2>1. f[m] \in Nat /\ f[m + 1] \in 0 .. l
    BY <1>1, <1>3, ScanIs
  <2>2. f[m + 1] \in Nat /\ f[m + 1] <= l
    BY <2>1, <1>1
  <2> QED BY <2>1, <2>2, <1>3
<1>5. PICK c \in Letters : c = t[m + 1]
  <2>1. m + 1 \in 1 .. Len(t)
    BY <1>1, <1>3
  <2> QED BY <2>1, <1>2
<1>6. /\ c \notin {NL, "CR"}
      /\ \/ /\ b = a + 1 /\ x[b] = c
            /\ q => (c = Quote <=> m = 0 \/ m + 1 = n)
         \/ /\ b = a + 2 /\ q /\ m # 0 /\ m + 1 # n /\ c = Quote
            /\ x[b - 1] = Quote /\ x[b] = Quote
      /\ ~q => c # d /\ (m = 0 => c # Quote)
  <2>1. m \in 0 .. Len(t) - 1
    BY <1>1, <1>3
  <2>2. /\ t[m + 1] \notin {NL, "CR"}
        /\ \/ /\ f[m + 1] = f[m] + 1 /\ x[f[m + 1]] = t[m + 1]
              /\ q => (t[m + 1] = Quote <=> m = 0 \/ m + 1 = Len(t))
           \/ /\ f[m + 1] = f[m] + 2 /\ q /\ m # 0 /\ m + 1 # Len(t) /\ t[m + 1] = Quote
              /\ x[f[m + 1] - 1] = Quote /\ x[f[m + 1]] = Quote
        /\ ~q => t[m + 1] # d /\ (m = 0 => t[m + 1] # Quote)
    <3> HIDE <1>1, <1>2, <1>3, <1>4, <1>5
    <3> QED BY <2>1, ScanIs
  <2>3. PICK p \in Nat : p = m + 1
    BY <1>3
  <2>4. c = t[m + 1] /\ c = t[p]
    BY <1>5, <2>3
  <2>5. b = a + 1 \/ b # a + 1
    OBVIOUS
  <2>6. /\ c \notin {NL, "CR"}
        /\ \/ /\ b = a + 1 /\ x[b] = c
              /\ q => (c = Quote <=> m = 0 \/ p = n)
           \/ /\ b = a + 2 /\ q /\ m # 0 /\ p # n /\ c = Quote
              /\ x[b - 1] = Quote /\ x[b] = Quote
        /\ ~q => c # d /\ (m = 0 => c # Quote)
    BY <2>2, <2>3, <2>4, <1>4, <1>1
  <2> QED BY <2>6, <2>3, <2>4
<1>7. /\ b = a + 1 \/ b = a + 2
      /\ m < n /\ h + l <= r
  <2>1. m < n
    BY <1>3, <1>1
  <2>2. b = a + 1 \/ b = a + 2
    BY <1>6
  <2> QED BY <2>1, <2>2, <1>3
<1>8. c \notin {NL, "CR"} /\ (~q => c # d) /\ (~q /\ m = 0 => c # Quote)
  BY <1>6
<1>9. Append(token, c) = SubSeq(t, 1, m + 1) /\ m + 1 \in 0 .. n /\ m \in Nat
  <2>1. m \in 0 .. Len(t) - 1
    BY <1>1, <1>3
  <2>2. token = SubSeq(t, 1, m)
    BY <1>3
  <2>3. Append(SubSeq(t, 1, m), t[m + 1]) = SubSeq(t, 1, m + 1)
    BY <1>2, <2>1, SubAppend
  <2>4. m + 1 \in 0 .. n /\ m \in Nat
    BY <1>7, <1>3, <1>1
  <2> QED BY <2>2, <2>3, <2>4, <1>5
<1>10. str \in Seq(Letters)
  BY StrIs
<1>11. pos \in Nat /\ pos < r /\ a + 1 \in 1 .. l /\ pos + 1 = h + (a + 1)
  <2>1. h \in Nat /\ pos = h + a /\ b <= l
    BY <1>3, <1>4
  <2> QED BY <2>1, <1>7, <1>1
<1>12. Here = x[a + 1]
  <2>1. pos < Len(str)
    BY <1>11, <1>1
  <2>2. Here = str[pos + 1]
    BY <2>1, HereIs
  <2>3. str[h + (a + 1)] = x[a + 1]
    BY <1>3, <1>11
  <2> QED BY <2>2, <2>3, <1>11
<1>13. ~LastColumn
  <2>1. ~(pos >= Len(str))
    BY <1>11, <1>1
  <2> QED BY <2>1 DEF LastColumn
<1>14. ASSUME pos' = h + b, token' = Append(token, c), within_quote' <=> q /\ m + 1 < n
       PROVE  Mid(q, t, h, f, m + 1)'
  <2>1. 1 <= m + 1
    BY <1>3
  <2>2. m + 1 \in 0 .. Len(t) /\ (m + 1 < n <=> m + 1 < Len(t))
    BY <1>9, <1>1
  <2>3. f[m + 1] = b
    BY <1>4
  <2>4. (Mid(q, t, h, f, m + 1)') <=> /\ m + 1 \in 0 .. Len(t) /\ pos' = h + f[m + 1]
                                      /\ token' = SubSeq(t, 1, m + 1)
                                      /\ within_quote' <=> q /\ 1 <= m + 1 /\ m + 1 < Len(t)
    BY DEF Mid
  <2>5. token' = SubSeq(t, 1, m + 1)
    BY <1>9, <1>14
  <2> HIDE <1>1
  <2> QED BY <1>14, <2>1, <2>2, <2>3, <2>4, <2>5
<1>15. CASE b = a + 2
  <2>1. /\ q /\ m # 0 /\ m + 1 # n /\ c = Quote /\ x[b - 1] = Quote /\ x[b] = Quote
    BY <1>4, <1>6, <1>15
  <2>2. within_quote /\ Here = Quote
    <3>1. 1 <= m /\ b - 1 = a + 1
      BY <1>3, <1>15, <2>1
    <3> QED BY <3>1, <1>3, <1>12, <2>1
  <2>3. At(str, pos + 2) = Quote
    <3>1. pos + 2 = h + b /\ b \in 1 .. l /\ pos + 2 \in Nat /\ 1 <= pos + 2 /\ pos + 2 <= r
      <4>1. h \in Nat /\ pos = h + a /\ b <= l
        BY <1>3, <1>4
      <4> QED BY <4>1, <1>7, <1>1, <1>15
    <3>2. At(str, pos + 2) = str[h + b]
      <4>1. pos + 2 <= Len(str)
        BY <3>1, <1>1
      <4>2. At(str, pos + 2) = str[pos + 2]
        BY <3>1, <4>1, StrIs
      <4> QED BY <4>2, <3>1
    <3> QED BY <3>1, <3>2, <1>3, <2>1
  <2>4. DoubledQuote
    BY <1>13, <2>2, <2>3 DEF ColumnChar
  <2>5. /\ token' = Append(token, Quote) /\ pos' = pos + 2
        /\ UNCHANGED <<pc, str, within_quote, got>>
    BY <2>4 DEF DoubledQuote
  <2>6. pos' = h + b
    BY <1>3, <1>4, <1>6, <1>15, <2>5
  <2>7. m + 1 < n
    BY <1>2, <1>3, <2>1
  <2>8. within_quote' <=> q /\ m + 1 < n
    BY <2>1, <2>2, <2>5, <2>7
  <2> QED BY <1>14, <2>1, <2>5, <2>6, <2>8
<1>16. CASE b # a + 2
  <2>1. b = a + 1 /\ x[b] = c /\ (q => (c = Quote <=> m = 0 \/ m + 1 = n)) /\ Here = c
    <3>1. b = a + 1
      BY <1>7, <1>16
    <3>2. x[b] = c /\ (q => (c = Quote <=> m = 0 \/ m + 1 = n))
      BY <1>6, <1>16
    <3> QED BY <3>1, <3>2, <1>12
  <2>2. ~(within_quote /\ Here = Quote /\ At(str, pos + 2) = Quote)
    <3> SUFFICES ASSUME within_quote, c = Quote PROVE At(str, pos + 2) # Quote
      BY <2>1
    <3>1. q /\ m + 1 = n /\ m # 0
      <4>1. 1 <= m
        BY <1>3
      <4>2. m # 0
        BY <4>1, <1>3
      <4>3. q
        BY <1>3
      <4> QED BY <4>2, <4>3, <2>1
    <3>2. pos + 2 = h + l + 1 /\ pos + 2 \in Nat /\ 1 <= pos + 2 /\ h \in Nat
      <4>1. h \in Nat /\ pos = h + a /\ b = f[n] /\ f[n] = l /\ b = a + 1
        BY <1>2, <1>3, <1>4, <2>1, <3>1
      <4> QED BY <4>1, <1>1
    <3>3. CASE h + l < r
      <4>1. str[h + l + 1] = d
        BY <3>3, <1>3
      <4>2. pos + 2 <= r
        BY <3>2, <3>3, <1>1
      <4>3. pos + 2 <= Len(str)
        BY <4>2, <1>1
      <4>4. At(str, pos + 2) = str[pos + 2]
        BY <3>2, <4>3, StrIs
      <4> QED BY <3>2, <4>1, <4>4
    <3>4. CASE ~(h + l < r)
      <4>1. ~(pos + 2 <= r)
        BY <3>2, <3>4, <1>1
      <4>2. ~(pos + 2 <= Len(str))
        BY <4>1, <1>1
      <4>3. "NUL" # Quote
        BY DEF Quote
      <4>4. At(str, pos + 2) = "NUL"
        BY <3>2, <4>2, StrIs
      <4> QED BY <4>3, <4>4
    <3> QED BY <3>3, <3>4
  <2>3. ColumnChar
    BY <1>13, <2>2 DEF DoubledQuote
  <2>4. OpensQuote <=> q /\ m = 0
    <3>1. CASE q /\ m = 0
      <4>1. c = Quote /\ ~within_quote /\ pos = h
        BY <1>2, <1>3, <2>1, <3>1
      <4>2. pos = 0 \/ str[pos] = delimiter
        BY <4>1, <3>1 DEF Lies
      <4> QED BY <4>1, <4>2, <2>1, <3>1 DEF OpensQuote
    <3>2. CASE q /\ m # 0
      <4>1. within_quote
        <5>1. 1 <= m
          BY <1>3, <3>2
        <5> QED BY <5>1, <1>3, <3>2
      <4> QED BY <4>1, <3>2 DEF OpensQuote
    <3>3. CASE ~q /\ m = 0
      <4>1. c # Quote
        BY <1>8, <3>3
      <4> QED BY <4>1, <2>1, <3>3 DEF OpensQuote
    <3>4. CASE ~q /\ m # 0
      <4>1. PICK k \in 0 .. n - 1 : m = k + 1
        <5>1. PICK k \in Nat : m = k + 1
          BY <1>3, <3>4
        <5> QED BY <5>1, <1>7, <1>1
      <4>2. /\ f[k] \in Nat /\ f[k + 1] \in 0 .. l /\ f[k + 1] = f[k] + 1
            /\ x[f[k + 1]] = t[k + 1] /\ t[k + 1] # d
        <5>1. k \in 0 .. Len(t) - 1
          BY <1>1, <4>1
        <5> HIDE <1>1, <1>2, <1>3, <1>4, <1>6
        <5>2. f[k + 1] \in 0 .. Len(x)
          BY <5>1, ScanIs
        <5>3. /\ f[k] \in Nat /\ f[k + 1] = f[k] + 1
              /\ x[f[k + 1]] = t[k + 1] /\ t[k + 1] # d
          BY <3>4, <5>1, ScanIs
        <5> QED BY <5>2, <5>3, <1>1
      <4>3. a \in 1 .. l /\ x[a] # d
        BY <4>1, <4>2, <1>2, <1>4, <1>6
      <4>4. str[pos] # d /\ pos # 0
        <5>1. str[h + a] = x[a]
          BY <4>3, <1>3
        <5> QED BY <5>1, <4>3, <1>3, <1>4, <1>6
      <4> QED BY <4>4, <3>4 DEF OpensQuote
    <3> QED BY <3>1, <3>2, <3>3, <3>4, <1>3
  <2>5. within_quote' = (OpensQuote \/ (within_quote /\ Here # Quote)) /\ pos' = pos + 1 /\ str' = str
    BY <2>3 DEF ColumnChar
  <2>6. within_quote' <=> q /\ m + 1 < n
    <3>1. CASE ~q
      BY <3>1, <2>4, <2>5, <1>3
    <3>2. CASE q /\ m = 0
      <4>1. m + 1 < n
        BY <1>2, <1>3, <3>2
      <4> QED BY <4>1, <3>2, <2>4, <2>5
    <3>3. CASE q /\ m # 0
      <4>1. within_quote /\ ~OpensQuote
        BY <1>3, <2>4, <3>3
      <4>2. within_quote' <=> c # Quote
        BY <4>1, <2>1, <2>5
      <4>3. c = Quote <=> m + 1 = n
        BY <2>1, <3>3
      <4>4. m + 1 < n <=> m + 1 # n
        BY <1>7, <1>3, <1>1
      <4> QED BY <4>2, <4>3, <4>4, <3>3
    <3> QED BY <3>1, <3>2, <3>3
  <2>7. ~((Here = delimiter /\ ~within_quote') \/ Here = "CR")
    <3>1. c # "CR"
      BY <1>8
    <3>2. CASE ~q
      BY <3>1, <3>2, <2>1, <1>8
    <3>3. CASE q
      <4>1. c = d => c # Quote
        OBVIOUS
      <4>2. c # Quote => m + 1 < n
        BY <2>1, <3>3, <1>2, <1>3
      <4> QED BY <4>1, <4>2, <2>1, <2>6, <3>1, <3>3
    <3> QED BY <3>2, <3>3
  <2>8. token' = Append(token, Here) /\ UNCHANGED <<pc, got>>
    BY <2>3, <2>7 DEF ColumnChar
  <2>9. pos' = h + b
    BY <1>3, <1>4, <1>6, <2>1, <2>5
  <2> QED BY <1>14, <2>1, <2>5, <2>6, <2>8, <2>9
<1> QED BY <1>15, <1>16

JobTexts == NL \notin ToSet(job.escape) \cup ToSet(job.quote_escape)

(* The texts of a job.                                                     *)
LEMMA JobIsOK ==
  ASSUME TypeInv
  PROVE  JobOK
<1>1. job \in Job
  BY DEF TypeInv
<1> QED BY <1>1, JobIs DEF JobOK

(* A column in the text.                                                   *)
LEMMA CellStands ==
  ASSUME TypeInv, NEW at, Placed(at), NEW k \in 1 .. Len(written), NEW j \in Nat, j + 1 <= Len(written[k])
  PROVE  /\ written[k][j + 1] \in Cell /\ written[k][j + 1].delimiter \in Letters
         /\ Form(written[k][j + 1]) \in Seq(Letters) /\ Len(Form(written[k][j + 1])) \in Nat
         /\ at[k][j] \in Nat /\ at[k][j + 1] \in Nat /\ at[k][j + 1] <= Len(text) /\ Len(text) \in Nat
         /\ at[k][j + 1] = at[k][j] + (IF j = 0 THEN 0 ELSE 1) + Len(Form(written[k][j + 1]))
         /\ \A i \in 1 .. Len(Form(written[k][j + 1])) :
              text[at[k][j] + (IF j = 0 THEN 0 ELSE 1) + i] = Form(written[k][j + 1])[i]
         /\ j # 0 => text[at[k][j] + 1] = written[k][j + 1].delimiter
<1>1. PICK n \in 1 .. Len(written[k]) : n = j + 1 /\ n - 1 = j /\ (n = 1 <=> j = 0)
  <2>1. Len(written[k]) \in Nat
    BY LinesType
  <2> QED BY <2>1
<1>2. written[k][n] \in Cell /\ Len(text) \in Nat
  BY LinesType
<1>3. CellAt(at, k, n) /\ at \in [Nat -> [Nat -> Nat]]
  BY DEF Placed
<1>4. k \in Nat /\ n \in Nat /\ at[k][j] \in Nat /\ at[k][n] \in Nat
  <2>1. k \in Nat /\ n \in Nat
    BY <1>1, LinesType
  <2> QED BY <2>1, <1>3
<1>5. Form(written[k][n]) \in Seq(Letters) /\ Len(Form(written[k][n])) \in Nat
  <2>1. job \in Job
    BY DEF TypeInv
  <2> QED BY <1>2, <2>1, FormType DEF Text
<1>6. written[k][n].delimiter \in Letters
  BY <1>2 DEF Cell
<1>7. Stands(text, at[k][j], at[k][n], n, Form(written[k][n]), written[k][n].delimiter)
  BY <1>1, <1>3 DEF CellAt
<1>8. (IF n = 1 THEN 0 ELSE 1) = (IF j = 0 THEN 0 ELSE 1)
  BY <1>1
<1>9. /\ at[k][n] = at[k][j] + (IF j = 0 THEN 0 ELSE 1) + Len(Form(written[k][n])) /\ at[k][n] <= Len(text)
      /\ \A i \in 1 .. Len(Form(written[k][n])) :
           text[at[k][j] + (IF j = 0 THEN 0 ELSE 1) + i] = Form(written[k][n])[i]
      /\ j # 0 => text[at[k][j] + 1] = written[k][n].delimiter
  BY <1>7, <1>8, <1>1 DEF Stands
<1> QED BY <1>1, <1>2, <1>4, <1>5, <1>6, <1>9

(* The delimiter before it, if it is not the first.                        *)
LEMMA CellBehind ==
  ASSUME TypeInv, NEW at, Placed(at), NEW k \in 1 .. Len(written), NEW j \in Nat, j + 1 <= Len(written[k]),
         j # 0
  PROVE  text[at[k][j] + 1] = written[k][j + 1].delimiter
<1> DEFINE P == text[at[k][j] + 1] = written[k][j + 1].delimiter
<1>1. j # 0 => P
  BY CellStands
<1> HIDE DEF P
<1>2. P
  BY <1>1
<1> QED BY <1>2 DEF P

(* No line ends inside the columns of a line that have no line break.      *)
LEMMA LineClean ==
  ASSUME TypeInv, NEW at, Placed(at), JobTexts, NEW k \in 1 .. Len(written),
         NEW n \in Nat, n <= Len(written[k]),
         \A j \in 1 .. n : NL \notin ToSet(written[k][j].value) /\ written[k][j].delimiter # NL
  PROVE  \A j \in 0 .. n : /\ at[k][j] \in Nat /\ at[k][0] <= at[k][j]
                           /\ \A p \in at[k][0] + 1 .. at[k][j] : text[p] # NL
<1> DEFINE S == {j \in Nat : /\ at[k][j] \in Nat /\ at[k][0] <= at[k][j]
                             /\ \A p \in at[k][0] + 1 .. at[k][j] : text[p] # NL}
<1>1. k \in Nat /\ Len(written[k]) \in Nat
  BY LinesType
<1>2. at[k] \in [Nat -> Nat]
  BY <1>1 DEF Placed
<1>3. 0 \in S
  <2>1. PICK z \in Nat : z = at[k][0]
    BY <1>2
  <2>2. z + 1 .. z = {} /\ z <= z
    OBVIOUS
  <2> QED BY <2>1, <2>2
<1>4. ASSUME NEW j \in 0 .. n - 1, j \in S PROVE j + 1 \in S
  <2>1. j \in Nat /\ j + 1 <= n /\ j + 1 \in 1 .. n /\ j + 1 <= Len(written[k])
    BY <1>1
  <2>2. PICK w \in Cell, x \in Seq(Letters), a \in Nat, b \in Nat, l \in Nat :
          /\ w = written[k][j + 1] /\ x = Form(w) /\ a = at[k][j] /\ b = at[k][j + 1] /\ l = Len(x)
    BY <2>1, CellStands
  <2>3. /\ b = a + (IF j = 0 THEN 0 ELSE 1) + l
        /\ \A i \in 1 .. l : text[a + (IF j = 0 THEN 0 ELSE 1) + i] = x[i]
        /\ j # 0 => text[a + 1] = w.delimiter
    BY <2>1, <2>2, CellStands
  <2>4. NL \notin ToSet(w.value) /\ w.delimiter # NL
    BY <2>1, <2>2
  <2>5. NL \notin ToSet(x)
    BY <2>2, <2>4, NoBreak, JobIsOK DEF JobTexts
  <2>6. \A i \in 1 .. l : x[i] # NL
    BY <2>2, <2>5, ToSetIs
  <2>7. PICK z \in Nat : z = at[k][0]
    BY <1>2
  <2>8. z <= a /\ \A p \in z + 1 .. a : text[p] # NL
    BY <1>4, <2>2, <2>7
  <2>9. ASSUME NEW p \in z + 1 .. b PROVE text[p] # NL
    <3>1. CASE p <= a
      BY <2>8, <3>1
    <3>2. CASE j = 0 /\ p > a
      <4>1. PICK i \in 1 .. l : p = a + 0 + i
        <5>1. p - a \in 1 .. l /\ p = a + 0 + (p - a)
          BY <2>3, <3>2
        <5> QED BY <5>1
      <4> QED BY <2>3, <2>6, <3>2, <4>1
    <3>3. CASE j # 0 /\ p = a + 1
      BY <2>3, <2>4, <3>3
    <3>4. CASE j # 0 /\ p > a + 1
      <4>1. PICK i \in 1 .. l : p = a + 1 + i
        <5>1. p - a - 1 \in 1 .. l /\ p = a + 1 + (p - a - 1)
          BY <2>3, <3>4
        <5> QED BY <5>1
      <4> QED BY <2>3, <2>6, <3>4, <4>1
    <3> QED BY <3>1, <3>2, <3>3, <3>4
  <2>10. z <= b
    BY <2>3, <2>8
  <2> QED BY <2>1, <2>2, <2>7, <2>9, <2>10
<1> HIDE DEF S
<1>5. \A j \in 0 .. n : j \in S
  BY <1>3, <1>4, Upward
<1> QED BY <1>5 DEF S

(* A line without line breaks ends where the newline was put.              *)
LEMMA LineEnds ==
  ASSUME TypeInv, NEW at, Placed(at), JobTexts, NEW k \in 1 .. Len(written), k < Len(written),
         \A j \in 1 .. Len(written[k]) :
           NL \notin ToSet(written[k][j].value) /\ written[k][j].delimiter # NL,
         next = at[k][0] + 1
  PROVE  LineStop = at[k + 1][0] /\ LineStop <= Len(text)
<1>1. PICK n \in Nat, z \in Nat, r \in Nat, c \in Nat, e \in Nat, l \in Nat :
        /\ n = Len(written[k]) /\ z = at[k][0] /\ r = at[k][n] /\ c = at[k + 1][0] /\ e = LineStop
        /\ l = Len(text)
  <2>1. Len(written[k]) \in Nat /\ k \in Nat /\ k + 1 \in Nat /\ Len(text) \in Nat
    BY LinesType
  <2>2. at \in [Nat -> [Nat -> Nat]]
    BY DEF Placed
  <2>3. LineStop \in Nat
    BY LineStopIs, <2>1 DEF TypeInv
  <2> QED BY <2>1, <2>2, <2>3
<1>2. c = r + 1 /\ c <= l /\ text[c] = NL
  <2>1. k \in 1 .. Len(written) - 1
    BY LinesType
  <2> QED BY <1>1, <2>1 DEF Placed
<1>3. z <= r /\ \A p \in z + 1 .. r : text[p] # NL
  <2>1. n <= Len(written[k]) /\ n \in 0 .. n
    BY <1>1
  <2> QED BY <1>1, <2>1, LineClean
<1>4. /\ e \in z + 1 .. l + 1
      /\ e <= l => text[e] = NL
      /\ \A p \in z + 1 .. e - 1 : text[p] # NL
  BY <1>1, LineStopIs
<1>5. ~(e < c)
  <2> SUFFICES ASSUME e < c PROVE FALSE
    OBVIOUS
  <2>1. e \in z + 1 .. r /\ e <= l
    BY <1>2, <1>4
  <2> QED BY <2>1, <1>3, <1>4
<1>6. ~(c < e)
  <2> SUFFICES ASSUME c < e PROVE FALSE
    OBVIOUS
  <2>1. c \in z + 1 .. e - 1
    BY <1>2, <1>3, <1>4
  <2> QED BY <2>1, <1>2, <1>4
<1>7. e = c /\ e <= l
  BY <1>2, <1>5, <1>6
<1> QED BY <1>1, <1>7

-----------------------------------------------------------------------------
(* The reader at its places                                                *)

(* The reader's side of it, for the places a line and its columns have in  *)
(* the text: where the next line is read, what line is held, and how far   *)
(* the columns were taken from it.                                         *)
PosAt(at, k, j) == IF j = 0 THEN 0 ELSE at[k][j] - at[k][0] + 1
LineTo(at, k, e) ==
  /\ at[k][0] + 1 <= e /\ e <= Len(text) + 1
  /\ e <= Len(text) => text[e] = NL
  /\ \A p \in at[k][0] + 1 .. e - 1 : text[p] # NL
  /\ Len(str) = e - 1 - at[k][0]
  /\ \A i \in 1 .. Len(str) : str[i] = text[at[k][0] + i]
HoldsLine(at, k) == \E e \in Nat : LineTo(at, k, e)

(* The columns up to j can come back and were asked for as they stand; the *)
(* next one is Expected if it is about to be; Ready leaves out how the     *)
(* ones before were asked for.                                             *)
GoodUpTo(k, j) ==
  /\ k \in 1 .. Len(written) /\ LineIsLine(k) /\ EscapesAgree /\ j <= Len(written[k])
  /\ \A n \in 1 .. j : Faithful(written[k], n) /\ AskedFor(k, n)

(* Between two lines the stream is where the next line was put.            *)
NextAt(at) ==
  \A k \in Nat :
    Started /\ pc # "thrown" /\ k = Len(got) + 1 /\ k <= Len(written) /\ LineIsLine(k) =>
      ~eofbit /\ ~failbit /\ next = at[k][0] + 1

AtColumn(k, j) == got # <<>> /\ k = Len(got) /\ j = Len(got[k])

(* Between two columns the line is held up to the delimiter passed last.   *)
HeldAt(at) ==
  \A k, j \in Nat :
    pc = "next" /\ AtColumn(k, j) /\ GoodUpTo(k, j) /\ (j = 0 \/ j < Len(written[k])) =>
      HoldsLine(at, k) /\ pos = PosAt(at, k, j)

Expected(k, j) ==
  GoodUpTo(k, j) /\ j < Len(written[k]) /\ Faithful(written[k], j + 1)
    /\ delimiter = Ahead(written[k], j + 1)

Ready(k, j) ==
  /\ k \in 1 .. Len(written) /\ j < Len(written[k]) /\ LineIsLine(k) /\ EscapesAgree
  /\ \A n \in 1 .. j + 1 : Faithful(written[k], n)
  /\ delimiter = Ahead(written[k], j + 1)

Scanned(at, k, j, w) ==
  \A f : Scan(Quoted(w), delimiter, Token(w), Form(w), f) =>
    \E m \in Nat : Mid(Quoted(w), Token(w), PosAt(at, k, j), f, m)

(* In a column the reader is somewhere on its way through it.              *)
ColumnAt(at) ==
  \A k, j \in Nat :
    InColumn /\ AtColumn(k, j) /\ Expected(k, j) =>
      HoldsLine(at, k) /\ Scanned(at, k, j, written[k][j + 1])

(* For every way the lines lie in the text, the reader is where the column *)
(* it reads lies, and the values it gave are those written.                *)
ColumnsInv ==
  /\ \A at : Placed(at) => NextAt(at) /\ HeldAt(at) /\ ColumnAt(at)
  /\ ValuesComeBack

(* std::getline() at a line that was put reads that line.                  *)
LEMMA LineRead ==
  ASSUME TypeInv, NEW at, Placed(at), NEW k \in 1 .. Len(written), ~eofbit, ~failbit,
         next = at[k][0] + 1, text' = text, str' = Line
  PROVE  HoldsLine(at, k)'
<1>1. PICK z \in Nat, e \in Nat, l \in Nat, r \in Nat :
        z = at[k][0] /\ e = LineStop /\ l = Len(text) /\ r = Len(Line)
  <2>1. k \in Nat /\ Len(text) \in Nat
    BY LinesType
  <2>2. at \in [Nat -> [Nat -> Nat]]
    BY DEF Placed
  <2>3. LineStop \in Nat
    BY LineStopIs, <2>1 DEF TypeInv
  <2>4. Len(Line) \in Nat
    BY LineStopIs DEF Text
  <2> QED BY <2>1, <2>2, <2>3, <2>4
<1>2. /\ e \in z + 1 .. l + 1
      /\ e <= l => text[e] = NL
      /\ \A p \in z + 1 .. e - 1 : text[p] # NL
      /\ r = e - (z + 1)
      /\ \A i \in 1 .. e - (z + 1) : Line[i] = text[z + 1 - 1 + i]
  <2>1. /\ LineStop \in next .. Len(text) + 1
        /\ LineStop <= Len(text) => text[LineStop] = NL
        /\ \A p \in next .. LineStop - 1 : text[p] # NL
    BY LineStopIs
  <2>2. /\ Len(Line) = LineStop - next
        /\ \A i \in 1 .. LineStop - next : Line[i] = text[next - 1 + i]
    BY LineStopIs
  <2>3. next = z + 1
    BY <1>1
  <2>4. /\ e \in z + 1 .. l + 1
        /\ e <= l => text[e] = NL
        /\ \A p \in z + 1 .. e - 1 : text[p] # NL
    BY <1>1, <2>1, <2>3
  <2>5. r = e - (z + 1)
    BY <1>1, <2>2, <2>3
  <2>6. \A i \in 1 .. e - (z + 1) : Line[i] = text[z + 1 - 1 + i]
    <3> TAKE i \in 1 .. e - (z + 1)
    <3>1. e - (z + 1) = LineStop - next /\ z + 1 - 1 + i = next - 1 + i
      BY <1>1, <2>3
    <3>2. i \in 1 .. LineStop - next
      BY <3>1
    <3> QED BY <3>1, <3>2, <2>2
  <2> QED BY <2>4, <2>5, <2>6
<1>3. z + 1 <= e /\ e <= l + 1 /\ r = e - 1 - z
  BY <1>2
<1>4. \A i \in 1 .. r : Line[i] = text[z + i]
  <2> TAKE i \in 1 .. r
  <2>1. i \in 1 .. e - (z + 1) /\ z + 1 - 1 + i = z + i
    BY <1>3
  <2> QED BY <2>1, <1>2
<1>5. LineTo(at, k, e)' <=>
        /\ at[k][0] + 1 <= e /\ e <= Len(text') + 1
        /\ e <= Len(text') => text'[e] = NL
        /\ \A p \in at[k][0] + 1 .. e - 1 : text'[p] # NL
        /\ Len(str') = e - 1 - at[k][0]
        /\ \A i \in 1 .. Len(str') : str'[i] = text'[at[k][0] + i]
  BY DEF LineTo
<1>6. LineTo(at, k, e)'
  BY <1>1, <1>2, <1>3, <1>4, <1>5
<1> QED BY <1>6 DEF HoldsLine

(* A column about to be read comes back, and its delimiter is no quote and *)
(* no newline.                                                             *)
LEMMA ReadyIs ==
  ASSUME TypeInv, NEW k, NEW j \in Nat, Ready(k, j)
  PROVE  /\ k \in 1 .. Len(written) /\ j + 1 <= Len(written[k]) /\ JobTexts /\ EscapesAgree
         /\ \A n \in 1 .. j + 1 : NL \notin ToSet(written[k][n].value) /\ written[k][n].delimiter # NL
         /\ written[k][j + 1] \in Cell /\ Comes(written[k][j + 1], delimiter)
         /\ delimiter # Quote /\ delimiter # NL /\ delimiter = Ahead(written[k], j + 1)
         /\ Quoted(written[k][j + 1]) /\ written[k][j + 1].delimiter # delimiter => j = 0
<1>1. j + 1 \in 1 .. j + 1
  OBVIOUS
<1>2. /\ k \in 1 .. Len(written) /\ j < Len(written[k]) /\ LineIsLine(k) /\ EscapesAgree
      /\ \A n \in 1 .. j + 1 : Faithful(written[k], n)
      /\ Faithful(written[k], j + 1) /\ delimiter = Ahead(written[k], j + 1)
  BY <1>1 DEF Ready
<1>3. Len(written[k]) \in Nat /\ j + 1 \in 1 .. Len(written[k])
  BY <1>2, LinesType
<1>4. written[k][j + 1] \in Cell /\ j + 1 <= Len(written[k])
  BY <1>2, <1>3, LinesType
<1>5. JobTexts
  BY <1>2 DEF JobTexts, LineIsLine
<1>6. ASSUME NEW n \in 1 .. j + 1
      PROVE  NL \notin ToSet(written[k][n].value) /\ written[k][n].delimiter # NL
  <2>1. Faithful(written[k], n)
    BY <1>2
  <2> QED BY <2>1 DEF Faithful
<1>7. Ahead(written[k], j + 1) \in Letters
  BY <1>2 DEF TypeInv
<1>8. /\ Comes(written[k][j + 1], delimiter)
      /\ Quoted(written[k][j + 1]) /\ written[k][j + 1].delimiter # delimiter => j + 1 = 1
  BY <1>2, <1>4, <1>7, FaithfulComes
<1>9. delimiter # Quote /\ delimiter # NL
  BY <1>8 DEF Comes
<1> QED BY <1>2, <1>4, <1>5, <1>6, <1>8, <1>9

LEMMA ExpectedReady ==
  ASSUME NEW k, NEW j \in Nat, Expected(k, j)
  PROVE  Ready(k, j)
<1>1. \A n \in 1 .. j + 1 : n \in 1 .. j \/ n = j + 1
  OBVIOUS
<1> QED BY <1>1 DEF Expected, GoodUpTo, Ready

LEMMA ExpectedIs ==
  ASSUME TypeInv, NEW k, NEW j \in Nat, Expected(k, j)
  PROVE  /\ k \in 1 .. Len(written) /\ j + 1 <= Len(written[k]) /\ JobTexts /\ EscapesAgree
         /\ \A n \in 1 .. j + 1 : NL \notin ToSet(written[k][n].value) /\ written[k][n].delimiter # NL
         /\ written[k][j + 1] \in Cell /\ Comes(written[k][j + 1], delimiter)
         /\ delimiter # Quote /\ delimiter # NL /\ delimiter = Ahead(written[k], j + 1)
         /\ Quoted(written[k][j + 1]) /\ written[k][j + 1].delimiter # delimiter => j = 0
<1>1. Ready(k, j)
  BY ExpectedReady
<1> QED BY <1>1, ReadyIs

(* The column that is about to be read lies behind what was read of the    *)
(* line.                                                                   *)
LEMMA LiesReady ==
  ASSUME TypeInv, NEW at, Placed(at), NEW k, NEW j \in Nat, Ready(k, j), HoldsLine(at, k)
  PROVE  LET w == written[k][j + 1]  h == PosAt(at, k, j)
         IN  /\ Lies(Quoted(w), delimiter, Form(w), h)
             /\ j + 1 < Len(written[k]) => /\ h + Len(Form(w)) < Len(str)
                                           /\ PosAt(at, k, j + 1) = h + Len(Form(w)) + 1
             /\ h + Len(Form(w)) < Len(str) => j + 1 < Len(written[k])
<1>1. /\ k \in 1 .. Len(written) /\ j + 1 <= Len(written[k]) /\ JobTexts
      /\ Len(written[k]) \in Nat /\ k \in Nat /\ Len(written) \in Nat
  BY ReadyIs, LinesType
<1>2. PICK w \in Cell, x \in Seq(Letters), a \in Nat, b \in Nat, l \in Nat, s \in Nat :
        /\ w = written[k][j + 1] /\ x = Form(w) /\ a = at[k][j] /\ b = at[k][j + 1] /\ l = Len(x)
        /\ s = IF j = 0 THEN 0 ELSE 1
  BY <1>1, CellStands
<1>3. PICK z \in Nat, h \in Nat, u \in Nat, r \in Nat, n \in Nat :
        /\ z = at[k][0] /\ u = Len(text) /\ r = Len(str) /\ n = Len(written[k])
        /\ h = PosAt(at, k, j) /\ h = (IF j = 0 THEN 0 ELSE a - z + 1)
        /\ z <= a /\ z <= b /\ \A p \in z + 1 .. b : text[p] # NL
  <2>1. at[k][0] \in Nat
    BY <1>1 DEF Placed
  <2>2. PICK z \in Nat : z = at[k][0]
    BY <2>1
  <2>3. Len(text) \in Nat /\ Len(str) \in Nat
    BY LinesType, StrIs
  <2>4. \A i \in 0 .. j + 1 : /\ at[k][i] \in Nat /\ at[k][0] <= at[k][i]
                              /\ \A p \in at[k][0] + 1 .. at[k][i] : text[p] # NL
    BY <1>1, LineClean, ReadyIs
  <2>5. j \in 0 .. j + 1 /\ j + 1 \in 0 .. j + 1
    OBVIOUS
  <2>6. z <= a /\ z <= b /\ \A p \in z + 1 .. b : text[p] # NL
    BY <1>2, <2>2, <2>4, <2>5
  <2>7. PosAt(at, k, j) = IF j = 0 THEN 0 ELSE a - z + 1
    BY <1>2, <2>2 DEF PosAt
  <2>8. (IF j = 0 THEN 0 ELSE a - z + 1) \in Nat
    BY <2>6
  <2> QED BY <1>1, <2>2, <2>3, <2>6, <2>7, <2>8
<1>4. /\ b = a + s + l /\ b <= u
      /\ \A i \in 1 .. l : text[a + s + i] = x[i]
      /\ j # 0 => text[a + 1] = w.delimiter
  BY <1>1, <1>2, <1>3, CellStands
<1>5. PICK e \in Nat : /\ z + 1 <= e /\ e <= u + 1 /\ r = e - 1 - z
                       /\ e <= u => text[e] = NL
                       /\ \A i \in 1 .. r : str[i] = text[z + i]
                       /\ \A p \in z + 1 .. e - 1 : text[p] # NL
  BY <1>3 DEF HoldsLine, LineTo
<1>6. z + h = a + s
  <2>1. CASE j = 0
    <3>1. a = z
      BY <1>2, <1>3, <2>1
    <3> QED BY <1>2, <1>3, <2>1, <3>1
  <2>2. CASE j # 0
    <3>1. h = a - z + 1 /\ s = 1
      BY <1>2, <1>3, <2>2
    <3> QED BY <3>1
  <2> QED BY <2>1, <2>2
<1>7. b < e
  <2> SUFFICES ASSUME ~(b < e) PROVE FALSE
    OBVIOUS
  <2>1. e \in z + 1 .. b /\ e <= u
    BY <1>4, <1>5
  <2> QED BY <2>1, <1>3, <1>5
<1>8. h + l <= r /\ b = z + (h + l)
  BY <1>4, <1>5, <1>6, <1>7
<1>9. \A i \in 1 .. l : str[h + i] = x[i]
  <2> TAKE i \in 1 .. l
  <2>1. h + i \in 1 .. r /\ z + (h + i) = a + s + i
    BY <1>6, <1>8
  <2> QED BY <2>1, <1>4, <1>5
<1>10. /\ delimiter # NL /\ delimiter = Ahead(written[k], j + 1)
       /\ Quoted(w) /\ w.delimiter # delimiter => j = 0
  BY <1>2, ReadyIs
<1>11. ASSUME j + 1 < n PROVE h + l < r /\ text[b + 1] = delimiter /\ PosAt(at, k, j + 1) = h + l + 1
  <2>1. j + 1 \in Nat /\ (j + 1) + 1 <= Len(written[k]) /\ j + 1 # 0
    BY <1>11, <1>3
  <2>2. PICK i \in Nat : i = j + 1
    OBVIOUS
  <2>3. PICK c \in Nat, m \in Nat : /\ c = at[k][i + 1] /\ m = Len(Form(written[k][i + 1]))
                                    /\ c <= u /\ c = b + 1 + m
                                    /\ text[b + 1] = written[k][i + 1].delimiter
    <3>1. i \in Nat /\ i + 1 <= Len(written[k]) /\ i # 0
      BY <2>1, <2>2
    <3>2. /\ at[k][i] \in Nat /\ at[k][i + 1] \in Nat /\ at[k][i + 1] <= Len(text)
          /\ Len(Form(written[k][i + 1])) \in Nat
          /\ at[k][i + 1] = at[k][i] + (IF i = 0 THEN 0 ELSE 1) + Len(Form(written[k][i + 1]))
          /\ i # 0 => text[at[k][i] + 1] = written[k][i + 1].delimiter
      <4>1. k \in 1 .. Len(written)
        BY <1>1
      <4> HIDE <1>1, <1>2, <1>3, <1>4, <1>5, <1>10, <2>2
      <4>2. /\ at[k][i] \in Nat /\ at[k][i + 1] \in Nat /\ at[k][i + 1] <= Len(text)
            /\ Len(Form(written[k][i + 1])) \in Nat
        BY <4>1, <3>1, CellStands
      <4>3. text[at[k][i] + 1] = written[k][i + 1].delimiter
        BY <4>1, <3>1, CellBehind
      <4>4. at[k][i + 1] = at[k][i] + (IF i = 0 THEN 0 ELSE 1) + Len(Form(written[k][i + 1]))
        BY <4>1, <3>1, CellStands
      <4> QED BY <4>2, <4>3, <4>4
    <3>3. (IF i = 0 THEN 0 ELSE 1) = 1
      BY <3>1
    <3>4. b = at[k][i] /\ u = Len(text)
      BY <1>2, <1>3, <2>2
    <3> QED BY <3>1, <3>2, <3>3, <3>4
  <2>4. Ahead(written[k], j + 1) = written[k][i + 1].delimiter
    BY <1>11, <1>3, <2>2 DEF Ahead
  <2>5. text[b + 1] = delimiter
    BY <1>10, <2>3, <2>4
  <2>6. b + 1 <= u /\ b + 1 # e
    <3>1. b + 1 <= u
      BY <2>3
    <3>2. b + 1 = e => text[b + 1] = NL
      BY <1>5, <3>1
    <3> QED BY <3>1, <3>2, <2>5, <1>10
  <2>7. h + l < r
    BY <1>5, <1>7, <1>8, <2>6
  <2>8. PosAt(at, k, j + 1) = b - z + 1
    BY <1>2, <1>3, <2>1 DEF PosAt
  <2>9. b - z + 1 = h + l + 1
    BY <1>8
  <2> QED BY <2>5, <2>7, <2>8, <2>9
<1>12. ASSUME h + l < r PROVE str[h + l + 1] = delimiter /\ j + 1 < n
  <2>1. h + l + 1 \in 1 .. r /\ z + (h + l + 1) = b + 1 /\ b + 1 \in z + 1 .. e - 1 /\ b + 1 <= u
    BY <1>12, <1>5, <1>8
  <2>2. str[h + l + 1] = text[b + 1] /\ text[b + 1] # NL
    BY <2>1, <1>5
  <2>3. j + 1 < n
    <3> SUFFICES ASSUME ~(j + 1 < n) PROVE FALSE
      OBVIOUS
    <3>1. j + 1 = n
      BY <1>1, <1>3
    <3>2. b = at[k][Len(written[k])]
      BY <3>1, <1>2, <1>3
    <3>3. CASE k = Len(written)
      <4>1. u = b
        BY <3>2, <3>3, <1>3 DEF Placed
      <4> QED BY <4>1, <2>1
    <3>4. CASE k # Len(written)
      <4>1. k \in 1 .. Len(written) - 1
        BY <3>4, <1>1
      <4>2. text[at[k][Len(written[k])] + 1] = NL
        BY <4>1 DEF Placed
      <4> QED BY <4>2, <3>2, <2>2
    <3> QED BY <3>3, <3>4
  <2> QED BY <2>2, <2>3, <1>11
<1>13. ASSUME Quoted(w) PROVE h = 0 \/ str[h] = delimiter
  <2>1. CASE j = 0
    BY <2>1, <1>3
  <2>2. CASE j # 0
    <3>1. w.delimiter = delimiter
      BY <1>10, <1>13, <2>2
    <3>2. h \in 1 .. r /\ z + h = a + 1
      <4>1. s = 1
        BY <1>2, <2>2
      <4>2. h >= 1
        BY <1>3, <2>2
      <4> QED BY <4>1, <4>2, <1>6, <1>8
    <3> QED BY <3>1, <3>2, <1>4, <1>5, <2>2
  <2> QED BY <2>1, <2>2
<1>14. Lies(Quoted(w), delimiter, x, h)
  BY <1>2, <1>3, <1>8, <1>9, <1>12, <1>13 DEF Lies
<1> QED BY <1>2, <1>3, <1>11, <1>12, <1>14

(* The same of a column that is expected.                                  *)
LEMMA LiesIn ==
  ASSUME TypeInv, NEW at, Placed(at), NEW k, NEW j \in Nat, Expected(k, j), HoldsLine(at, k)
  PROVE  LET w == written[k][j + 1]  h == PosAt(at, k, j)
         IN  /\ Lies(Quoted(w), delimiter, Form(w), h)
             /\ j + 1 < Len(written[k]) => /\ h + Len(Form(w)) < Len(str)
                                           /\ PosAt(at, k, j + 1) = h + Len(Form(w)) + 1
<1>1. Ready(k, j)
  BY ExpectedReady
<1> QED BY <1>1, LiesReady

-----------------------------------------------------------------------------
(* Values                                                                  *)

(* A column came back.                                                     *)
ValueBack(k, j) ==
  got[k][j].value = IF got[k][j].by = "string" THEN written[k][j].value
                    ELSE NumberIn(written[k][j].value)

(* What was given, from ValuesComeBack and to it.                          *)
LEMMA GotIs ==
  ASSUME TypeInv
  PROVE  /\ got \in Seq(Seq(Got)) /\ Len(got) \in Nat /\ DOMAIN got = 1 .. Len(got)
         /\ (got = <<>> <=> Len(got) = 0)
         /\ \A k \in 1 .. Len(got) : /\ got[k] \in Seq(Got) /\ Len(got[k]) \in Nat
                                     /\ DOMAIN got[k] = 1 .. Len(got[k])
<1>1. got \in Seq(Seq(Got))
  BY DEF TypeInv
<1>2. \A k \in 1 .. Len(got) : got[k] \in Seq(Got)
  BY <1>1
<1>3. \A k \in 1 .. Len(got) : Len(got[k]) \in Nat /\ DOMAIN got[k] = 1 .. Len(got[k])
  BY <1>2
<1> QED BY <1>1, <1>2, <1>3

LEMMA ValuesFrom ==
  ASSUME TypeInv, ValuesComeBack, NEW k \in 1 .. Len(got), NEW j \in 1 .. Len(got[k]), GoodUpTo(k, j)
  PROVE  ValueBack(k, j)
<1>1. /\ k \in 1 .. Len(written) /\ j <= Len(written[k]) /\ LineIsLine(k) /\ EscapesAgree
      /\ \A n \in 1 .. j : Faithful(written[k], n) /\ AskedFor(k, n)
  BY DEF GoodUpTo
<1>2. written \in Seq(Seq(Cell)) /\ written[k] \in Seq(Cell)
  BY <1>1, LinesType
<1>3. k \in DOMAIN got \cap DOMAIN written
  BY <1>1, <1>2, GotIs
<1>4. j \in DOMAIN got[k]
  BY GotIs
<1>5. j \in DOMAIN written[k]
  <2>1. j \in Nat /\ 1 <= j
    <3>1. Len(got[k]) \in Nat
      BY GotIs
    <3> QED BY <3>1
  <2> QED BY <2>1, <1>1, <1>2
<1> QED BY <1>1, <1>3, <1>4, <1>5 DEF ValuesComeBack, ValueBack

LEMMA ValuesTo ==
  ASSUME TypeInv', \A k \in 1 .. Len(got') : \A j \in 1 .. Len(got'[k]) :
                     GoodUpTo(k, j)' => ValueBack(k, j)'
  PROVE  ValuesComeBack'
<1>1. got' \in Seq(Seq(Got)) /\ written' \in Seq(Seq(Cell))
  BY DEF TypeInv
<1>2. ASSUME NEW k \in DOMAIN got' \cap DOMAIN written', (LineIsLine(k) /\ EscapesAgree)',
             NEW j \in DOMAIN got'[k] \cap DOMAIN written'[k],
             (\A n \in 1 .. j : Faithful(written[k], n) /\ AskedFor(k, n))'
      PROVE  ValueBack(k, j)'
  <2>1. k \in 1 .. Len(got') /\ k \in 1 .. Len(written')
    BY <1>1
  <2>2. got'[k] \in Seq(Got) /\ written'[k] \in Seq(Cell)
    BY <1>1, <2>1
  <2>3. j \in 1 .. Len(got'[k]) /\ j <= Len(written'[k])
    BY <2>2
  <2>4. GoodUpTo(k, j)'
    BY <1>2, <2>1, <2>3 DEF GoodUpTo
  <2> QED BY <2>1, <2>3, <2>4
<1> QED BY <1>2 DEF ValuesComeBack, ValueBack

(* Which columns can come back does not change while nothing is written.   *)
LEMMA GoodKept ==
  ASSUME Kept, UNCHANGED <<text, written>>, has_bom' = has_bom
  PROVE  /\ \A k : LineIsLine(k)' <=> LineIsLine(k)
         /\ EscapesAgree' <=> EscapesAgree
         /\ \A k, n : /\ Faithful(written[k], n)' <=> Faithful(written[k], n)
                      /\ Ahead(written[k], n)' = Ahead(written[k], n)
                      /\ Quoted(written[k][n])' <=> Quoted(written[k][n])
                      /\ Token(written[k][n])' = Token(written[k][n])
                      /\ Form(written[k][n])' = Form(written[k][n])
         /\ \A at : Placed(at)' <=> Placed(at)
<1>1. Readable' <=> Readable
  BY ReadableSame
<1>2. ASSUME NEW k PROVE LineIsLine(k)' <=> LineIsLine(k)
  BY <1>1 DEF LineIsLine, Kept
<1>3. EscapesAgree' <=> EscapesAgree
  BY DEF EscapesAgree, Kept
<1>4. ASSUME NEW k, NEW n
      PROVE  /\ Faithful(written[k], n)' <=> Faithful(written[k], n)
             /\ Ahead(written[k], n)' = Ahead(written[k], n)
             /\ Quoted(written[k][n])' <=> Quoted(written[k][n])
             /\ Token(written[k][n])' = Token(written[k][n])
             /\ Form(written[k][n])' = Form(written[k][n])
  <2>1. Ahead(written[k], n)' = Ahead(written[k], n)
    BY DEF Ahead
  <2>2. Quoted(written[k][n])' <=> Quoted(written[k][n])
    BY DEF Quoted, Kept
  <2>3. Faithful(written[k], n)' <=> Faithful(written[k], n)
    BY <2>1, <2>2 DEF Faithful, Kept
  <2>4. Token(written[k][n])' = Token(written[k][n])
    BY <2>2 DEF Token, Whole, Middle, Kept
  <2>5. Form(written[k][n])' = Form(written[k][n])
    BY DEF Form, Escaped, Surrounded, Kept
  <2> QED BY <2>1, <2>2, <2>3, <2>4, <2>5
<1>5. \A at : Placed(at)' <=> Placed(at)
  BY PlacedKept
<1> QED BY <1>2, <1>3, <1>4, <1>5

LEMMA GoodSame ==
  ASSUME TypeInv, Kept, UNCHANGED <<text, written>>, has_bom' = has_bom, NEW k, NEW j,
         \A n \in 1 .. j : got'[k][n] = got[k][n]
  PROVE  GoodUpTo(k, j)' <=> GoodUpTo(k, j)
<1>1. \A n \in 1 .. j : AskedFor(k, n)' <=> AskedFor(k, n)
  <2>1. \A n : Ahead(written[k], n)' = Ahead(written[k], n)
    BY GoodKept
  <2> QED BY <2>1 DEF AskedFor
<1>2. /\ LineIsLine(k)' <=> LineIsLine(k)
      /\ EscapesAgree' <=> EscapesAgree
      /\ \A n : Faithful(written[k], n)' <=> Faithful(written[k], n)
  BY GoodKept
<1> QED BY <1>1, <1>2 DEF GoodUpTo

(* Values that came back stay so, and only a column that was asked for may *)
(* be one of them.                                                         *)
LEMMA ValuesKept ==
  ASSUME TypeInv, TypeInv', Kept, UNCHANGED <<text, written>>, has_bom' = has_bom, ValuesComeBack,
         \A k \in 1 .. Len(got') : \A j \in 1 .. Len(got'[k]) :
           \/ /\ k \in 1 .. Len(got) /\ j \in 1 .. Len(got[k])
              /\ \A n \in 1 .. j : got'[k][n] = got[k][n]
           \/ got'[k][j].by \notin {"string", "number"}
           \/ GoodUpTo(k, j)' => ValueBack(k, j)'
  PROVE  ValuesComeBack'
<1>1. ASSUME NEW k \in 1 .. Len(got'), NEW j \in 1 .. Len(got'[k]), GoodUpTo(k, j)'
      PROVE  ValueBack(k, j)'
  <2>1. Len(got'[k]) \in Nat /\ j \in 1 .. j
    <3>1. got' \in Seq(Seq(Got))
      BY DEF TypeInv
    <3>2. got'[k] \in Seq(Got)
      BY <3>1
    <3> QED BY <3>2
  <2>2. CASE /\ k \in 1 .. Len(got) /\ j \in 1 .. Len(got[k])
             /\ \A n \in 1 .. j : got'[k][n] = got[k][n]
    <3>1. GoodUpTo(k, j)
      BY <1>1, <2>2, GoodSame
    <3>2. ValueBack(k, j)
      BY <2>2, <3>1, ValuesFrom
    <3>3. got'[k][j] = got[k][j]
      BY <2>1, <2>2
    <3>4. \A v : NumberIn(v)' = NumberIn(v)
      BY DEF NumberIn
    <3> QED BY <3>2, <3>3, <3>4 DEF ValueBack
  <2>3. CASE got'[k][j].by \notin {"string", "number"}
    <3>1. AskedFor(k, j)'
      BY <1>1, <2>1 DEF GoodUpTo
    <3> QED BY <2>3, <3>1 DEF AskedFor
  <2> QED BY <1>1, <2>2, <2>3
<1> QED BY <1>1, ValuesTo

(* ColumnsInv, operation by operation.                                     *)
LEMMA ColumnsQuiet ==
  ASSUME got' = <<>>, ~Started', pc' = "next"
  PROVE  ColumnsInv'
<1>1. ValuesComeBack'
  BY DEF ValuesComeBack
<1>2. ASSUME NEW at PROVE NextAt(at)' /\ HeldAt(at)' /\ ColumnAt(at)'
  BY DEF NextAt, HeldAt, ColumnAt, InColumn, AtColumn
<1> QED BY <1>1, <1>2 DEF ColumnsInv

LEMMA ColumnsNoLines ==
  ASSUME ~job'.lines
  PROVE  ColumnsInv'
<1>1. \A k : ~LineIsLine(k)'
  BY DEF LineIsLine
<1>2. ValuesComeBack'
  BY <1>1 DEF ValuesComeBack
<1>3. ASSUME NEW at PROVE NextAt(at)' /\ HeldAt(at)' /\ ColumnAt(at)'
  BY <1>1 DEF NextAt, HeldAt, ColumnAt, Expected, GoodUpTo
<1> QED BY <1>2, <1>3 DEF ColumnsInv

LEMMA ColumnsOpen ==
  ASSUME TypeInv, TypeInv', FlowInv, OpenFile \/ SetInputString
  PROVE  ColumnsInv'
<1>1. Input("open") /\ pc' = pc /\ got' = got
  BY DEF OpenFile, SetInputString
<1>2. Kept /\ pc = "next" /\ UNCHANGED text /\ (job.lines => got = <<>>)
  BY <1>1, InputKeeps, InputFlow DEF TypeInv
<1>3. CASE ~job.lines
  <2>1. ~job'.lines
    BY <1>2, <1>3 DEF Kept
  <2> QED BY <2>1, ColumnsNoLines
<1>4. CASE job.lines
  <2>1. got' = <<>> /\ pc' = "next" /\ Len(got') + 1 = 1
    BY <1>1, <1>2, <1>4
  <2>2. ValuesComeBack'
    BY <2>1 DEF ValuesComeBack
  <2>3. ASSUME NEW at, Placed(at)' PROVE NextAt(at)' /\ HeldAt(at)' /\ ColumnAt(at)'
    <3>1. HeldAt(at)' /\ ColumnAt(at)'
      BY <2>1 DEF HeldAt, ColumnAt, InColumn, AtColumn
    <3>2. next' = 1 /\ eofbit' = FALSE
      BY DEF OpenFile, SetInputString
    <3>3. ASSUME Readable' PROVE ~failbit'
      <4>1. CASE OpenFile
        <5>1. job'.stream # "string" /\ failbit' = (~job.exists \/ Len(text) < Len(Mark))
          BY <1>2, <4>1 DEF OpenFile, Kept
        <5>2. job'.exists /\ Len(text') >= 3
          BY <5>1, <3>3 DEF Readable
        <5>3. job.exists /\ Len(text) >= 3
          BY <5>2, <1>2 DEF Kept
        <5>4. Len(Mark) = 3 /\ Len(text) \in Nat
          BY DEF Mark, TypeInv, Text
        <5>5. ~(Len(text) < Len(Mark))
          BY <5>3, <5>4
        <5> QED BY <5>1, <5>3, <5>5
      <4>2. CASE SetInputString
        BY <4>2 DEF SetInputString
      <4> QED BY <4>1, <4>2
    <3>4. at[1][0] = 0
      BY <2>3 DEF Placed
    <3>5. NextAt(at)'
      <4>1. LineIsLine(1)' => Readable'
        BY DEF LineIsLine
      <4>2. 1 = 0 + 1
        OBVIOUS
      <4> QED BY <2>1, <3>2, <3>3, <3>4, <4>1, <4>2 DEF NextAt
    <3> QED BY <3>1, <3>5
  <2> QED BY <2>2, <2>3 DEF ColumnsInv
<1> QED BY <1>3, <1>4

(* The next line stays where it is while the calls for this one go on.     *)
LEMMA NextKept ==
  ASSUME TypeInv, Kept, UNCHANGED <<text, written, next, eofbit, failbit, has_bom>>,
         Len(got') = Len(got), Started, pc # "thrown", NEW at, NextAt(at)
  PROVE  NextAt(at)'
<1>1. \A k : LineIsLine(k)' <=> LineIsLine(k)
  BY GoodKept
<1> QED BY <1>1 DEF NextAt

(* The line that is held, and the column that is expected, stay.           *)
LEMMA HoldsKept ==
  ASSUME UNCHANGED <<text, str>>, NEW at, NEW k
  PROVE  HoldsLine(at, k)' <=> HoldsLine(at, k)
<1>1. \A e : LineTo(at, k, e)' <=> LineTo(at, k, e)
  BY DEF LineTo
<1> QED BY <1>1 DEF HoldsLine

LEMMA ExpectedKept ==
  ASSUME TypeInv, Kept, UNCHANGED <<text, written, delimiter>>, has_bom' = has_bom, NEW k, NEW j,
         \A n \in 1 .. j : got'[k][n] = got[k][n]
  PROVE  Expected(k, j)' <=> Expected(k, j)
<1>1. GoodUpTo(k, j)' <=> GoodUpTo(k, j)
  BY GoodSame
<1>2. /\ Faithful(written[k], j + 1)' <=> Faithful(written[k], j + 1)
      /\ Ahead(written[k], j + 1)' = Ahead(written[k], j + 1)
  BY GoodKept
<1> QED BY <1>1, <1>2 DEF Expected

LEMMA ColumnsInput ==
  ASSUME TypeInv, TypeInv', FlowInv, ColumnsInv, EnableTrimQuote \/ SetSep \/ ReadLine \/ ReadColumn
  PROVE  ColumnsInv'
<1>1. PICK op \in {"trim_quote", "sep", "line", "string", "number"} : Input(op)
  BY DEF EnableTrimQuote, SetSep, ReadLine, ReadColumn
<1>2. /\ Kept /\ UNCHANGED <<text, written>> /\ pc = "next" /\ Started
  BY <1>1, InputKeeps, InputFlow DEF TypeInv, writer
<1>3. /\ UNCHANGED <<next, eofbit, failbit, has_bom, got, pos>>
      /\ pc' \in {"next", "string", "number"} => str' = str
      /\ pc' \in {"string", "number"} => delimiter' = delimiter /\ token' = <<>> /\ within_quote' = FALSE
  BY <1>1, <1>2 DEF EnableTrimQuote, SetSep, ReadLine, ReadColumn, opened, stream, column
<1>4. ValuesComeBack'
  <2>1. ValuesComeBack
    BY DEF ColumnsInv
  <2>2. \A k \in 1 .. Len(got') : \A j \in 1 .. Len(got'[k]) :
           /\ k \in 1 .. Len(got) /\ j \in 1 .. Len(got[k])
           /\ \A n \in 1 .. j : got'[k][n] = got[k][n]
    BY <1>3
  <2> QED BY <1>2, <1>3, <2>1, <2>2, ValuesKept
<1>5. ASSUME NEW at, Placed(at)' PROVE NextAt(at)' /\ HeldAt(at)' /\ ColumnAt(at)'
  <2>1. Placed(at)
    BY <1>2, <1>3, <1>5, GoodKept
  <2>2. NextAt(at) /\ HeldAt(at)
    BY <2>1 DEF ColumnsInv
  <2>3. NextAt(at)'
    BY <1>2, <1>3, <2>2, NextKept
  <2>4. HeldAt(at)'
    <3> SUFFICES ASSUME NEW k \in Nat, NEW j \in Nat, pc' = "next", AtColumn(k, j)', GoodUpTo(k, j)',
                        j = 0 \/ j < Len(written'[k])
                 PROVE  HoldsLine(at, k)' /\ pos' = PosAt(at, k, j)
      BY DEF HeldAt, PosAt
    <3>1. AtColumn(k, j) /\ GoodUpTo(k, j)
      BY <1>2, <1>3, GoodSame DEF AtColumn
    <3>2. HoldsLine(at, k) /\ pos = PosAt(at, k, j)
      BY <1>2, <2>2, <3>1 DEF HeldAt
    <3> QED BY <1>2, <1>3, <3>2, HoldsKept
  <2>5. ColumnAt(at)'
    <3> SUFFICES ASSUME NEW k \in Nat, NEW j \in Nat, InColumn', AtColumn(k, j)', Expected(k, j)'
                 PROVE  HoldsLine(at, k)' /\ Scanned(at, k, j, written[k][j + 1])'
      BY DEF ColumnAt
    <3>1. pc' \in {"string", "number"}
      BY DEF InColumn
    <3>2. AtColumn(k, j) /\ Expected(k, j)
      BY <1>2, <1>3, <3>1, ExpectedKept DEF AtColumn
    <3>3. GoodUpTo(k, j) /\ j < Len(written[k])
      BY <3>2 DEF Expected
    <3>4. HoldsLine(at, k) /\ pos = PosAt(at, k, j)
      BY <1>2, <2>2, <3>2, <3>3 DEF HeldAt
    <3>5. HoldsLine(at, k)'
      BY <1>2, <1>3, <3>1, <3>4, HoldsKept
    <3>6. PICK h \in Nat : h = PosAt(at, k, j)
      BY <3>4 DEF TypeInv
    <3>7. ASSUME NEW q, NEW d, NEW t, NEW x, NEW f, Scan(q, d, t, x, f) PROVE Mid(q, t, h, f, 0)'
      <4>1. t \in Seq(Letters) /\ Len(t) \in Nat /\ f[0] = 0
        BY <3>7, ScanIs
      <4>2. SubSeq(t, 1, 0) = <<>> /\ 0 \in 0 .. Len(t)
        BY <4>1
      <4>3. pos' = h + f[0]
        BY <1>3, <3>4, <3>6, <4>1
      <4>4. token' = SubSeq(t, 1, 0) /\ within_quote' = FALSE /\ ~(1 <= 0)
        <5>1. token' = <<>> /\ within_quote' = FALSE
          BY <1>3, <3>1
        <5>2. ~(1 <= 0)
          OBVIOUS
        <5> QED BY <4>2, <5>1, <5>2
      <4> QED BY <4>2, <4>3, <4>4 DEF Mid
    <3> QED BY <3>5, <3>6, <3>7 DEF Scanned, PosAt
  <2> QED BY <2>3, <2>4, <2>5
<1> QED BY <1>4, <1>5 DEF ColumnsInv

(* What a call adds to the history cannot spoil what came back.            *)
LEMMA ValuesAppend ==
  ASSUME TypeInv, TypeInv', Kept, UNCHANGED <<text, written>>, has_bom' = has_bom, ValuesComeBack,
         NEW u \in Seq(Got), got' = Append(got, u), \A i \in 1 .. Len(u) : u[i].by \notin {"string", "number"}
  PROVE  ValuesComeBack'
<1>1. /\ Len(got') = Len(got) + 1 /\ Len(got) \in Nat /\ got'[Len(got) + 1] = u
      /\ \A k \in 1 .. Len(got) : got'[k] = got[k]
  <2>1. got \in Seq(Seq(Got))
    BY GotIs
  <2>2. /\ Len(got') = Len(got) + 1 /\ Len(got) \in Nat /\ got'[Len(got')] = u
        /\ \A k \in 1 .. Len(got) : got'[k] = got[k]
    BY <2>1, AppendIs
  <2> QED BY <2>2
<1>2. ASSUME NEW k \in 1 .. Len(got'), NEW j \in 1 .. Len(got'[k])
      PROVE  \/ /\ k \in 1 .. Len(got) /\ j \in 1 .. Len(got[k])
                /\ \A n \in 1 .. j : got'[k][n] = got[k][n]
             \/ got'[k][j].by \notin {"string", "number"}
  <2>1. k \in 1 .. Len(got) \/ k = Len(got) + 1
    BY <1>1
  <2>2. CASE k \in 1 .. Len(got)
    <3>1. got'[k] = got[k]
      BY <2>2, <1>1
    <3> QED BY <2>2, <3>1
  <2>3. CASE k = Len(got) + 1
    BY <2>3, <1>1
  <2> QED BY <2>1, <2>2, <2>3
<1> QED BY <1>2, ValuesKept

LEMMA ValuesThrow ==
  ASSUME TypeInv, TypeInv', Kept, UNCHANGED <<text, written>>, has_bom' = has_bom, ValuesComeBack,
         NEW what \in {"out_of_range", "conversion"}, Throw(what)
  PROVE  ValuesComeBack'
<1>1. PICK u \in Seq(Got) : u = <<Entry(<<>>, what)>> /\ Entry(<<>>, what).by = what
  <2>1. <<>> \in Text /\ delimiter \in Letters
    BY LetterTexts DEF TypeInv
  <2>2. PICK none \in Text : none = <<>>
    BY <2>1
  <2>3. /\ <<Entry(none, what)>> \in Seq(Got) /\ Entry(none, what).by = what
    BY <2>1, EntryIs
  <2> QED BY <2>2, <2>3
<1>2. Len(u) = 1 /\ u[1].by = what
  BY <1>1
<1>3. got' = Append(got, u)
  BY <1>1 DEF Throw
<1>4. \A i \in 1 .. Len(u) : u[i].by \notin {"string", "number"}
  BY <1>2
<1> QED BY <1>3, <1>4, ValuesAppend

LEMMA ColumnsThrow ==
  ASSUME TypeInv, TypeInv', Kept, UNCHANGED <<text, written>>, has_bom' = has_bom, ColumnsInv,
         NEW what \in {"out_of_range", "conversion"}, Throw(what)
  PROVE  ColumnsInv'
<1>1. pc' = "thrown"
  BY DEF Throw
<1>2. ASSUME NEW at PROVE NextAt(at)' /\ HeldAt(at)' /\ ColumnAt(at)'
  BY <1>1 DEF NextAt, HeldAt, ColumnAt, InColumn
<1> QED BY <1>2, ValuesThrow DEF ColumnsInv

LEMMA ColumnsRest ==
  ASSUME TypeInv, TypeInv', FlowInv, ColumnsInv, RestOfLine
  PROVE  ColumnsInv'
<1>1. Input("rest") /\ UNCHANGED <<next, eofbit, failbit, has_bom>>
  BY DEF RestOfLine, opened, stream
<1>2. /\ Kept /\ UNCHANGED <<text, written>> /\ pc = "next" /\ Started
  BY <1>1, InputKeeps, InputFlow DEF TypeInv, writer
<1>3. CASE pos > Len(str)
  <2>1. Throw("out_of_range")
    BY <1>3 DEF RestOfLine
  <2> QED BY <1>1, <1>2, <2>1, ColumnsThrow
<1>4. CASE ~(pos > Len(str))
  <2>1. PICK v \in Text : v = SubSeq(str, pos + 1, Len(str))
    <3>1. str \in Text /\ pos + 1 \in Nat /\ pos + 1 >= 1 /\ pos + 1 <= Len(str) + 1
      BY <1>4 DEF TypeInv, Text
    <3>2. SubSeq(str, pos + 1, Len(str)) \in Text
      BY <3>1, SubText
    <3> QED BY <3>2
  <2>2. Give(v, "rest") /\ pc' = "next"
    BY <1>2, <1>4, <2>1 DEF RestOfLine
  <2>3. /\ Len(got') = Len(got) /\ Len(got) \in Nat /\ (got' = <<>> <=> got = <<>>)
        /\ got # <<>> => /\ got'[Len(got)] = Append(got[Len(got)], Entry(v, "rest"))
                         /\ Len(got) \in 1 .. Len(got)
                         /\ \A k \in 1 .. Len(got) : k # Len(got) => got'[k] = got[k]
    BY <2>2, GiveIs
  <2>4. ASSUME got # <<>>
        PROVE  /\ Len(got'[Len(got)]) = Len(got[Len(got)]) + 1 /\ Len(got[Len(got)]) \in Nat
               /\ got'[Len(got)][Len(got[Len(got)]) + 1].by = "rest"
               /\ \A n \in 1 .. Len(got[Len(got)]) : got'[Len(got)][n] = got[Len(got)][n]
    <3>1. got[Len(got)] \in Seq(Got)
      BY <2>3, <2>4, GotIs
    <3>2. Entry(v, "rest") \in Got /\ Entry(v, "rest").by = "rest"
      BY EntryIs DEF TypeInv
    <3>3. PICK s \in Seq(Got), u \in Got : s = got[Len(got)] /\ u = Entry(v, "rest") /\ u.by = "rest"
      BY <3>1, <3>2
    <3>4. LET t == Append(s, u)
          IN  /\ t \in Seq(Got) /\ t # <<>> /\ Len(t) = Len(s) + 1 /\ Len(s) \in Nat
              /\ t[Len(t)] = u /\ \A k \in 1 .. Len(s) : t[k] = s[k]
      BY AppendIs
    <3>5. got'[Len(got)] = Append(s, u)
      BY <2>3, <2>4, <3>3
    <3> QED BY <3>3, <3>4, <3>5
  <2>5. ASSUME NEW k \in 1 .. Len(got'), NEW j \in 1 .. Len(got'[k])
        PROVE  \/ /\ k \in 1 .. Len(got) /\ j \in 1 .. Len(got[k])
                  /\ \A n \in 1 .. j : got'[k][n] = got[k][n]
               \/ got'[k][j].by \notin {"string", "number"}
    <3>1. k \in 1 .. Len(got) /\ got # <<>>
      BY <2>3, GotIs
    <3>2. CASE k # Len(got)
      <4>1. got'[k] = got[k]
        BY <2>3, <3>1, <3>2
      <4> QED BY <3>1, <4>1
    <3>3. CASE k = Len(got) /\ j <= Len(got[k])
      BY <2>4, <3>1, <3>3
    <3>4. CASE k = Len(got) /\ ~(j <= Len(got[k]))
      <4>1. j = Len(got[k]) + 1
        BY <2>4, <3>1, <3>4
      <4> QED BY <2>4, <3>1, <3>4, <4>1
    <3> QED BY <3>2, <3>3, <3>4
  <2>6. ValuesComeBack'
    BY <1>1, <1>2, <2>5, ValuesKept DEF ColumnsInv
  <2>7. ASSUME NEW at, Placed(at)' PROVE NextAt(at)' /\ HeldAt(at)' /\ ColumnAt(at)'
    <3>1. NextAt(at)
      BY <1>1, <1>2, <2>7, GoodKept DEF ColumnsInv
    <3>2. NextAt(at)'
      BY <1>1, <1>2, <2>3, <3>1, NextKept
    <3>3. ColumnAt(at)'
      BY <2>2 DEF ColumnAt, InColumn
    <3>4. ASSUME NEW k \in Nat, NEW j \in Nat, AtColumn(k, j)', GoodUpTo(k, j)' PROVE FALSE
      <4>1. got # <<>> /\ k = Len(got) /\ j = Len(got'[k])
        BY <2>3, <3>4 DEF AtColumn
      <4>2. j \in 1 .. j /\ got'[k][j].by = "rest"
        BY <2>4, <4>1
      <4>3. AskedFor(k, j)'
        BY <3>4, <4>2 DEF GoodUpTo
      <4> QED BY <4>2, <4>3 DEF AskedFor
    <3>5. HeldAt(at)'
      BY <3>4 DEF HeldAt
    <3> QED BY <3>2, <3>3, <3>5
  <2> QED BY <2>6, <2>7 DEF ColumnsInv
<1> QED BY <1>3, <1>4

(* Lines before the one that was asked for are out of reach.               *)
LEMMA EarlierLine ==
  ASSUME NEW k \in Nat, LineIsLine(k + 1)
  PROVE  LineIsLine(k)
<1>1. \A i \in 1 .. k - 1 : i \in 1 .. (k + 1) - 1
  OBVIOUS
<1> QED BY <1>1 DEF LineIsLine

(* A round of read_line(): the stream goes to the next line, none is given *)
(* at the end, or one is held.                                             *)
LEMMA RoundNext ==
  ASSUME TypeInv, NEW at, Placed(at), NextAt(at), LineRound, ~eofbit, GetLine,
         Len(got') = Len(got) + 1
  PROVE  NextAt(at)'
<1>1. pc = "read_line" /\ UNCHANGED <<job, text, written, has_bom>> /\ Len(got) \in Nat
  BY RoundIs, GotIs
<1>2. Started /\ Kept
  BY <1>1 DEF Started, Kept
<1> SUFFICES ASSUME NEW k \in Nat, k = Len(got') + 1, k <= Len(written'), LineIsLine(k)'
             PROVE  ~eofbit' /\ ~failbit' /\ next' = at[k][0] + 1
  BY DEF NextAt
<1>3. PICK i \in Nat : i = Len(got) + 1 /\ k = i + 1 /\ i \in 1 .. Len(written) /\ i < Len(written)
  <2>1. Len(written) \in Nat
    BY LinesType
  <2>2. Len(got) + 1 \in Nat /\ k = (Len(got) + 1) + 1 /\ k <= Len(written)
    BY <1>1
  <2> QED BY <2>1, <2>2
<1>4. LineIsLine(k)
  BY <1>1, <1>2, GoodKept
<1>5. LineIsLine(i)
  BY <1>3, <1>4, EarlierLine
<1>6. ~eofbit /\ ~failbit /\ next = at[i][0] + 1
  BY <1>1, <1>2, <1>3, <1>5 DEF NextAt
<1>7. JobTexts /\ \A j \in 1 .. Len(written[i]) :
        NL \notin ToSet(written[i][j].value) /\ written[i][j].delimiter # NL
  <2>1. i \in 1 .. k - 1
    BY <1>3
  <2>2. written[i] \in Seq(Cell)
    BY <1>3, LinesType
  <2>3. DOMAIN written[i] = 1 .. Len(written[i])
    BY <2>2
  <2> QED BY <1>4, <2>1, <2>3 DEF LineIsLine, JobTexts
<1>8. LineStop = at[k][0] /\ LineStop <= Len(text)
  BY <1>3, <1>6, <1>7, LineEnds
<1>9. Behind(LineStop) = LineStop + 1
  BY <1>8, LineStopIs
<1>10. next' = LineStop + 1
  BY <1>6, <1>9 DEF GetLine
<1>11. ~(LineStop > Len(text))
  <2>1. LineStop \in Nat /\ Len(text) \in Nat
    BY LineStopIs DEF TypeInv
  <2> QED BY <1>8, <2>1
<1>12. ~eofbit' /\ ~failbit'
  BY <1>6, <1>11 DEF GetLine
<1> QED BY <1>8, <1>10, <1>12

LEMMA RoundNone ==
  ASSUME TypeInv, TypeInv', FlowInv, ColumnsInv, LineRound, pc' = "next", got' = Append(got, NoLine),
         \A at : Placed(at) => NextAt(at)'
  PROVE  ColumnsInv'
<1>1. pc = "read_line" /\ UNCHANGED <<job, text, written, has_bom>> /\ Kept
  BY RoundIs DEF Kept
<1>2. PICK u \in Seq(Got) : u = NoLine /\ Len(u) = 1 /\ u[1].by = "none"
  BY NoLineIs
<1>3. \A i \in 1 .. Len(u) : u[i].by \notin {"string", "number"}
  BY <1>2
<1>4. ValuesComeBack'
  BY <1>1, <1>2, <1>3, ValuesAppend DEF ColumnsInv
<1>5. got'[Len(got')] = u
  BY <1>2, GotIs, AppendIs
<1>6. ASSUME NEW at, Placed(at)' PROVE NextAt(at)' /\ HeldAt(at)' /\ ColumnAt(at)'
  <2>1. NextAt(at)'
    BY <1>1, <1>6, GoodKept
  <2>2. ASSUME NEW k \in Nat, NEW j \in Nat, AtColumn(k, j)', GoodUpTo(k, j)' PROVE FALSE
    <3>1. j = 1 /\ got'[k] = u
      BY <1>2, <1>5, <2>2 DEF AtColumn
    <3>2. AskedFor(k, 1)'
      BY <2>2, <3>1 DEF GoodUpTo
    <3> QED BY <1>2, <3>1, <3>2 DEF AskedFor
  <2>3. HeldAt(at)' /\ ColumnAt(at)'
    BY <2>2 DEF HeldAt, ColumnAt, Expected
  <2> QED BY <2>1, <2>3
<1> QED BY <1>4, <1>6 DEF ColumnsInv

LEMMA RoundLine ==
  ASSUME TypeInv, TypeInv', FlowInv, ColumnsInv, LineRound, pc' = "next", got' = Append(got, <<>>),
         ~eofbit, str' = WithoutBom(Line), pos' = 0, \A at : Placed(at) => NextAt(at)'
  PROVE  ColumnsInv'
<1>1. pc = "read_line" /\ UNCHANGED <<job, text, written, has_bom>> /\ Kept /\ Started
  BY RoundIs DEF Kept, Started
<1>2. PICK u \in Seq(Got) : u = <<>> /\ Len(u) = 0
  BY NoLineIs
<1>3. \A i \in 1 .. Len(u) : u[i].by \notin {"string", "number"}
  BY <1>2
<1>4. ValuesComeBack'
  BY <1>1, <1>2, <1>3, ValuesAppend DEF ColumnsInv
<1>5. got'[Len(got')] = u /\ Len(got') = Len(got) + 1 /\ Len(got) \in Nat
  <2>1. got' = Append(got, u) /\ got \in Seq(Seq(Got))
    BY <1>2, GotIs
  <2> QED BY <2>1, AppendIs
<1>6. ASSUME NEW at, Placed(at)' PROVE NextAt(at)' /\ HeldAt(at)' /\ ColumnAt(at)'
  <2>1. Placed(at) /\ NextAt(at)
    BY <1>1, <1>6, GoodKept DEF ColumnsInv
  <2>2. NextAt(at)'
    BY <2>1
  <2>3. ASSUME NEW k \in Nat, NEW j \in Nat, AtColumn(k, j)', GoodUpTo(k, j)'
        PROVE  HoldsLine(at, k)' /\ pos' = PosAt(at, k, j)
    <3>1. j = 0 /\ k = Len(got) + 1
      BY <1>2, <1>5, <2>3 DEF AtColumn
    <3>2. k \in 1 .. Len(written) /\ LineIsLine(k)
      BY <1>1, <2>3, GoodKept DEF GoodUpTo
    <3>3. k <= Len(written)
      BY <3>2
    <3>4. ~eofbit /\ ~failbit /\ next = at[k][0] + 1
      BY <1>1, <2>1, <3>1, <3>2, <3>3 DEF NextAt
    <3>5. str' = Line
      BY <3>2 DEF LineIsLine, WithoutBom
    <3>6. HoldsLine(at, k)'
      BY <1>1, <2>1, <3>2, <3>4, <3>5, LineRead
    <3> QED BY <3>1, <3>6 DEF PosAt
  <2>4. HeldAt(at)'
    BY <2>3 DEF HeldAt, PosAt
  <2>5. ColumnAt(at)'
    BY DEF ColumnAt, InColumn
  <2> QED BY <2>2, <2>4, <2>5
<1> QED BY <1>4, <1>6 DEF ColumnsInv

LEMMA ColumnsRound ==
  ASSUME TypeInv, TypeInv', FlowInv, ColumnsInv, LineRound
  PROVE  ColumnsInv'
<1>1. pc = "read_line" /\ UNCHANGED <<job, text, written, has_bom>> /\ Kept /\ Started /\ Len(got) \in Nat
  BY RoundIs, GotIs DEF Kept, Started
<1>2. ASSUME NEW u, got' = Append(got, u) PROVE Len(got') = Len(got) + 1
  <2>1. got \in Seq(Seq(Got))
    BY GotIs
  <2> QED BY <1>2, <2>1
<1>3. CASE eofbit
  <2>1. pc' = "next" /\ got' = Append(got, NoLine) /\ UNCHANGED <<next, eofbit, failbit>>
    BY <1>3, RoundIs
  <2>2. Len(got') = Len(got) + 1
    BY <1>2, <2>1
  <2>3. ASSUME NEW at, Placed(at) PROVE NextAt(at)'
    <3> SUFFICES ASSUME NEW k \in Nat, k = Len(got') + 1, k <= Len(written'), LineIsLine(k)' PROVE FALSE
      BY DEF NextAt
    <3>1. PICK i \in Nat : i = Len(got) + 1 /\ k = i + 1 /\ i <= Len(written)
      <4>1. Len(written) \in Nat
        BY LinesType
      <4>2. Len(got) + 1 \in Nat /\ k = (Len(got) + 1) + 1 /\ k <= Len(written)
        BY <1>1, <2>2
      <4> QED BY <4>1, <4>2
    <3>2. LineIsLine(k)
      BY <1>1, GoodKept
    <3>3. LineIsLine(i)
      BY <3>1, <3>2, EarlierLine
    <3>4. NextAt(at)
      BY <2>3 DEF ColumnsInv
    <3> QED BY <1>1, <1>3, <3>1, <3>3, <3>4 DEF NextAt
  <2> QED BY <2>1, <2>3, RoundNone
<1>4. CASE ~eofbit /\ Throw("out_of_range")
  BY <1>1, <1>4, ColumnsThrow
<1>5. CASE ~eofbit /\ ~Throw("out_of_range")
  <2>1. /\ GetLine /\ pos' = 0 /\ str' = WithoutBom(Line)
        /\ \/ pc' = "next" /\ got' = Append(got, <<>>)
           \/ pc' = "next" /\ got' = Append(got, NoLine)
           \/ pc' = pc /\ got' = got /\ ~job.terminate /\ ~job.allow
    BY <1>5, RoundIs
  <2>2. ASSUME NEW at, Placed(at), Len(got') = Len(got) + 1 PROVE NextAt(at)'
    BY <1>5, <2>1, <2>2, RoundNext DEF ColumnsInv
  <2>3. CASE pc' = "next" /\ got' = Append(got, <<>>)
    BY <1>2, <1>5, <2>1, <2>2, <2>3, RoundLine
  <2>4. CASE pc' = "next" /\ got' = Append(got, NoLine)
    BY <1>2, <2>2, <2>4, RoundNone
  <2>5. CASE pc' = pc /\ got' = got /\ ~job.terminate /\ ~job.allow
    <3>1. \A k : ~LineIsLine(k)'
      BY <1>1, <2>5 DEF LineIsLine
    <3>2. ValuesComeBack'
      BY <3>1 DEF ValuesComeBack
    <3>3. ASSUME NEW at PROVE NextAt(at)' /\ HeldAt(at)' /\ ColumnAt(at)'
      BY <3>1 DEF NextAt, HeldAt, ColumnAt, Expected, GoodUpTo
    <3> QED BY <3>2, <3>3 DEF ColumnsInv
  <2> QED BY <2>1, <2>3, <2>4, <2>5
<1> QED BY <1>3, <1>4, <1>5

(* What the loop of a column leaves alone.                                 *)
LEMMA ColumnFrame ==
  ASSUME TypeInv, LastColumn \/ DoubledQuote \/ ColumnChar
  PROVE  /\ InColumn /\ Started /\ Kept /\ pc \in {"string", "number"}
         /\ UNCHANGED <<text, written, next, eofbit, failbit, has_bom, delimiter>>
         /\ \/ UNCHANGED <<pc, got>>
            \/ GiveToken(token)
<1>1. /\ InColumn /\ UNCHANGED <<job, text, writer, stream, opened, delimiter>>
      /\ \/ UNCHANGED <<pc, got>>
         \/ GiveToken(token)
  BY DEF LastColumn, DoubledQuote, ColumnChar
<1>2. UNCHANGED <<written, next, eofbit, failbit, has_bom>>
  BY <1>1 DEF writer, stream, opened
<1>3. Started /\ pc \in {"string", "number"}
  BY <1>1 DEF Started, InColumn
<1> QED BY <1>1, <1>2, <1>3 DEF Kept

(* A column that is expected is given whole.                               *)
LEMMA ColumnEnds ==
  ASSUME TypeInv, NEW at, Placed(at), ColumnAt(at), NEW k \in Nat, NEW j \in Nat,
         AtColumn(k, j), Expected(k, j), LastColumn \/ DoubledQuote \/ ColumnChar, pc' # pc
  PROVE  /\ token = Token(written[k][j + 1])
         /\ j + 1 < Len(written[k]) =>
              HoldsLine(at, k) /\ str' = str /\ pos' = PosAt(at, k, j + 1)
<1>1. PICK w \in Cell : w = written[k][j + 1]
  BY ExpectedIs
<1>2. Comes(w, delimiter) /\ EscapesAgree /\ delimiter # Quote /\ delimiter \in Letters
  BY <1>1, ExpectedIs DEF TypeInv
<1>3. PICK d \in Letters : d = delimiter
  BY <1>2
<1>4. PICK q \in BOOLEAN : q <=> Quoted(w)
  OBVIOUS
<1>5. PICK f : Scan(Quoted(w), delimiter, Token(w), Form(w), f)
  BY <1>2, ScanExists, JobIsOK
<1>6. HoldsLine(at, k) /\ Scanned(at, k, j, w)
  BY <1>1, ColumnFrame DEF ColumnAt
<1>7. PICK m \in Nat : Mid(Quoted(w), Token(w), PosAt(at, k, j), f, m)
  BY <1>5, <1>6 DEF Scanned
<1>8. Lies(Quoted(w), delimiter, Form(w), PosAt(at, k, j))
  BY <1>1, <1>6, LiesIn
<1>9. Quoted(w) \in BOOLEAN
  BY DEF Quoted
<1>10. PICK t \in Seq(Letters), x \in Seq(Letters), h \in Nat, p \in BOOLEAN :
         t = Token(w) /\ x = Form(w) /\ h = PosAt(at, k, j) /\ p = Quoted(w)
  <2>1. Token(w) \in Seq(Letters) /\ Form(w) \in Seq(Letters)
    BY <1>5, ScanIs
  <2>2. PosAt(at, k, j) \in Nat
    BY <1>8 DEF Lies
  <2> QED BY <1>9, <2>1, <2>2
<1>11. /\ Scan(p, d, t, x, f) /\ Mid(p, t, h, f, m) /\ Lies(p, d, x, h) /\ d = delimiter /\ d # Quote
  BY <1>2, <1>3, <1>5, <1>7, <1>8, <1>10
<1>12. m = Len(t)
  <2> SUFFICES ASSUME m # Len(t) PROVE FALSE
    OBVIOUS
  <2>1. UNCHANGED <<pc, got, str>>
    BY <1>11, MidStep
  <2> QED BY <2>1
<1>13. token = t
  <2>1. t \in Seq(Letters)
    BY <1>11, ScanIs
  <2>2. SubSeq(t, 1, Len(t)) = t
    BY <2>1
  <2> QED BY <1>11, <1>12, <2>2 DEF Mid
<1>14. h + Len(x) < Len(str) => str' = str /\ pos' = h + Len(x) + 1
  BY <1>11, <1>12, MidEnd
<1>15. ASSUME j + 1 < Len(written[k])
       PROVE  h + Len(x) < Len(str) /\ PosAt(at, k, j + 1) = h + Len(x) + 1
  BY <1>1, <1>6, <1>10, <1>15, LiesIn
<1> QED BY <1>1, <1>6, <1>10, <1>13, <1>14, <1>15

(* Until then the reader goes on through it.                               *)
LEMMA ColumnGoes ==
  ASSUME TypeInv, NEW at, Placed(at), ColumnAt(at), NEW k \in Nat, NEW j \in Nat,
         AtColumn(k, j), Expected(k, j), LastColumn \/ DoubledQuote \/ ColumnChar, pc' = pc
  PROVE  /\ HoldsLine(at, k) /\ str' = str
         /\ \A p, t, x, h, f :
              /\ p = Quoted(written[k][j + 1]) /\ t = Token(written[k][j + 1])
              /\ x = Form(written[k][j + 1]) /\ h = PosAt(at, k, j) /\ Scan(p, delimiter, t, x, f)
              => \E m \in Nat : Mid(p, t, h, f, m)'
<1>1. PICK w \in Cell : w = written[k][j + 1]
  BY ExpectedIs
<1>2. Comes(w, delimiter) /\ EscapesAgree /\ delimiter # Quote /\ delimiter \in Letters
  BY <1>1, ExpectedIs DEF TypeInv
<1>3. PICK d \in Letters : d = delimiter /\ d # Quote
  BY <1>2
<1>4. Quoted(w) \in BOOLEAN
  BY DEF Quoted
<1>5. HoldsLine(at, k) /\ Scanned(at, k, j, w)
  BY <1>1, ColumnFrame DEF ColumnAt
<1>6. Lies(Quoted(w), delimiter, Form(w), PosAt(at, k, j))
  BY <1>1, <1>5, LiesIn
<1>7. ASSUME NEW p, NEW t, NEW x, NEW h, NEW f, p = Quoted(w), t = Token(w), x = Form(w),
             h = PosAt(at, k, j), Scan(p, delimiter, t, x, f)
      PROVE  str' = str /\ \E m \in Nat : Mid(p, t, h, f, m)'
  <2>1. PICK m \in Nat : Mid(Quoted(w), Token(w), PosAt(at, k, j), f, m)
    BY <1>5, <1>7 DEF Scanned
  <2>2. /\ p \in BOOLEAN /\ Scan(p, d, t, x, f) /\ Mid(p, t, h, f, m) /\ Lies(p, d, x, h)
        /\ d = delimiter /\ d # Quote
    BY <1>3, <1>4, <1>6, <1>7, <2>1
  <2>3. m # Len(t)
    <3> SUFFICES ASSUME m = Len(t) PROVE FALSE
      OBVIOUS
    <3>1. GiveToken(t)
      BY <2>2, MidEnd
    <3>2. t \in Text
      BY <2>2 DEF Scan
    <3>3. InColumn /\ pc \in {"string", "number"}
      BY ColumnFrame
    <3>4. pc' \in {"replace", "thrown", "next"}
      BY <3>1, <3>2, <3>3, GiveTokenType
    <3> QED BY <3>3, <3>4
  <2>4. Mid(p, t, h, f, m + 1)' /\ str' = str
    BY <2>2, <2>3, MidStep
  <2> QED BY <2>4
<1>8. PICK f : Scan(Quoted(w), delimiter, Token(w), Form(w), f)
  BY <1>2, ScanExists, JobIsOK
<1>9. str' = str
  BY <1>7, <1>8
<1> QED BY <1>1, <1>5, <1>7, <1>9

(* What a given token adds to the history.                                 *)
LEMMA GiveShape ==
  ASSUME TypeInv, NEW v \in Text, NEW by \in {"string", "number", "rest"}, Give(v, by), got # <<>>
  PROVE  LET k == Len(got)  i == Len(got[k])
         IN  /\ k \in 1 .. Len(got) /\ i \in Nat /\ got' # <<>> /\ Len(got') = Len(got)
             /\ Len(got'[k]) = i + 1 /\ got'[k][i + 1] = Entry(v, by)
             /\ \A n \in 1 .. i : got'[k][n] = got[k][n]
             /\ \A n \in 1 .. Len(got) : n # k => got'[n] = got[n]
<1> DEFINE k == Len(got)
           i == Len(got[k])
<1>1. /\ Len(got') = Len(got) /\ Len(got) \in Nat /\ (got' = <<>> <=> got = <<>>)
      /\ got'[k] = Append(got[k], Entry(v, by)) /\ k \in 1 .. Len(got)
      /\ \A n \in 1 .. Len(got) : n # k => got'[n] = got[n]
  BY GiveIs
<1>2. got[k] \in Seq(Got)
  BY <1>1, GotIs
<1>3. Entry(v, by) \in Got
  BY EntryIs DEF TypeInv
<1>4. PICK s \in Seq(Got), u \in Got : s = got[k] /\ u = Entry(v, by)
  BY <1>2, <1>3
<1>5. LET t == Append(s, u)
      IN  /\ t \in Seq(Got) /\ t # <<>> /\ Len(t) = Len(s) + 1 /\ Len(s) \in Nat
          /\ t[Len(t)] = u /\ \A n \in 1 .. Len(s) : t[n] = s[n]
  BY AppendIs
<1>6. got'[k] = Append(s, u)
  BY <1>1, <1>4
<1> QED BY <1>1, <1>4, <1>5, <1>6

LEMMA GivenOrNew ==
  ASSUME TypeInv, NEW v \in Text, NEW by \in {"string", "number", "rest"}, Give(v, by),
         NEW k \in 1 .. Len(got'), NEW j \in 1 .. Len(got'[k])
  PROVE  \/ /\ k \in 1 .. Len(got) /\ j \in 1 .. Len(got[k])
            /\ \A n \in 1 .. j : got'[k][n] = got[k][n]
         \/ got # <<>> /\ k = Len(got) /\ j = Len(got[k]) + 1
<1>1. k \in 1 .. Len(got) /\ got # <<>> /\ Len(got) \in Nat /\ Len(got[k]) \in Nat
  <2>1. Len(got') = Len(got)
    BY GiveIs
  <2>2. k \in 1 .. Len(got)
    BY <2>1
  <2> QED BY <2>2, GotIs
<1>2. CASE k # Len(got)
  <2>1. got'[k] = got[k]
    BY <1>1, <1>2, GiveIs
  <2> QED BY <1>1, <2>1
<1>3. CASE k = Len(got)
  <2>1. PICK i \in Nat : i = Len(got[k])
    BY <1>1
  <2>2. /\ Len(got'[k]) = i + 1
        /\ \A n \in 1 .. i : got'[k][n] = got[k][n]
    <3>1. got # <<>>
      BY <1>1
    <3>2. LET n == Len(got)  m == Len(got[n])
          IN  /\ Len(got'[n]) = m + 1
              /\ \A h \in 1 .. m : got'[n][h] = got[n][h]
      BY <3>1, GiveShape
    <3> QED BY <3>2, <1>3, <2>1
  <2>3. CASE j <= i
    BY <1>1, <2>1, <2>2, <2>3
  <2>4. CASE ~(j <= i)
    BY <1>1, <1>3, <2>1, <2>2, <2>4
  <2> QED BY <2>3, <2>4
<1> QED BY <1>2, <1>3

(* A step within a column, and the step that gives it.                     *)
LEMMA ColumnStays ==
  ASSUME TypeInv, TypeInv', ColumnsInv, LastColumn \/ DoubledQuote \/ ColumnChar, UNCHANGED <<pc, got>>
  PROVE  ColumnsInv'
<1>1. /\ InColumn /\ Started /\ Kept /\ pc \in {"string", "number"}
      /\ UNCHANGED <<text, written, next, eofbit, failbit, has_bom, delimiter>>
  BY ColumnFrame
<1>2. ValuesComeBack'
  <2>1. \A k \in 1 .. Len(got') : \A j \in 1 .. Len(got'[k]) :
           /\ k \in 1 .. Len(got) /\ j \in 1 .. Len(got[k])
           /\ \A n \in 1 .. j : got'[k][n] = got[k][n]
    OBVIOUS
  <2> QED BY <1>1, <2>1, ValuesKept DEF ColumnsInv
<1>3. ASSUME NEW at, Placed(at)' PROVE NextAt(at)' /\ HeldAt(at)' /\ ColumnAt(at)'
  <2>1. Placed(at) /\ NextAt(at) /\ ColumnAt(at)
    BY <1>1, <1>3, GoodKept DEF ColumnsInv
  <2>2. NextAt(at)'
    BY <1>1, <2>1, NextKept
  <2>3. HeldAt(at)'
    BY <1>1 DEF HeldAt
  <2>4. ASSUME NEW k \in Nat, NEW j \in Nat, AtColumn(k, j)', Expected(k, j)'
        PROVE  HoldsLine(at, k)' /\ Scanned(at, k, j, written[k][j + 1])'
    <3>1. AtColumn(k, j) /\ Expected(k, j)
      BY <1>1, <2>4, ExpectedKept DEF AtColumn
    <3>2. /\ HoldsLine(at, k) /\ str' = str
          /\ \A p, t, x, h, f :
               /\ p = Quoted(written[k][j + 1]) /\ t = Token(written[k][j + 1])
               /\ x = Form(written[k][j + 1]) /\ h = PosAt(at, k, j) /\ Scan(p, delimiter, t, x, f)
               => \E m \in Nat : Mid(p, t, h, f, m)'
      BY <2>1, <3>1, ColumnGoes
    <3>3. HoldsLine(at, k)'
      BY <1>1, <3>2, HoldsKept
    <3>4. /\ Quoted(written[k][j + 1])' <=> Quoted(written[k][j + 1])
          /\ Token(written[k][j + 1])' = Token(written[k][j + 1])
          /\ Form(written[k][j + 1])' = Form(written[k][j + 1])
      BY <1>1, GoodKept
    <3>5. Quoted(written[k][j + 1])' = Quoted(written[k][j + 1])
      BY <3>4 DEF Quoted
    <3>6. PICK p \in BOOLEAN : p = Quoted(written[k][j + 1])
      BY DEF Quoted
    <3>7. ASSUME NEW f, Scan(Quoted(written[k][j + 1])', delimiter', Token(written[k][j + 1])',
                             Form(written[k][j + 1])', f)
          PROVE  \E m \in Nat : Mid(Quoted(written[k][j + 1]), Token(written[k][j + 1]), PosAt(at, k, j), f, m)'
      <4>1. Scan(p, delimiter, Token(written[k][j + 1]), Form(written[k][j + 1]), f)
        BY <1>1, <3>4, <3>5, <3>6, <3>7
      <4>2. PICK t \in Seq(Letters), x \in Seq(Letters), h \in Int :
              t = Token(written[k][j + 1]) /\ x = Form(written[k][j + 1]) /\ h = PosAt(at, k, j)
        <5>1. Token(written[k][j + 1]) \in Seq(Letters) /\ Form(written[k][j + 1]) \in Seq(Letters)
          BY <4>1, ScanIs
        <5>2. at[k] \in [Nat -> Nat]
          BY <2>1 DEF Placed
        <5>3. PosAt(at, k, j) \in Int
          BY <5>2 DEF PosAt
        <5> QED BY <5>1, <5>3
      <4>3. Scan(p, delimiter, t, x, f)
        BY <4>1, <4>2
      <4>4. PICK m \in Nat : Mid(p, t, h, f, m)'
        BY <3>2, <3>6, <4>2, <4>3
      <4>5. /\ m \in 0 .. Len(t) /\ pos' = h + f[m] /\ token' = SubSeq(t, 1, m)
            /\ within_quote' <=> p /\ 1 <= m /\ m < Len(t)
        BY <4>4 DEF Mid
      <4>6. /\ Token(written[k][j + 1])' = t /\ PosAt(at, k, j)' = h
            /\ Quoted(written[k][j + 1])' = p
        BY <3>4, <3>5, <3>6, <4>2 DEF PosAt
      <4>7. Mid(Quoted(written[k][j + 1]), Token(written[k][j + 1]), PosAt(at, k, j), f, m)'
        BY <4>5, <4>6 DEF Mid
      <4> QED BY <4>7
    <3> QED BY <3>3, <3>7 DEF Scanned
  <2>5. ColumnAt(at)'
    BY <2>4 DEF ColumnAt
  <2> QED BY <2>2, <2>3, <2>5
<1> QED BY <1>2, <1>3 DEF ColumnsInv

LEMMA ColumnGiven ==
  ASSUME TypeInv, TypeInv', WrittenInv, ColumnsInv, LastColumn \/ DoubledQuote \/ ColumnChar, pc' = "next",
         quote_unescape = QuoteEscape, NEW v \in Text,
         v = IF pc = "number" THEN NumberIn(Unescape(token)) ELSE Unescape(token), Give(v, pc)
  PROVE  ColumnsInv'
<1>1. /\ InColumn /\ Started /\ Kept /\ pc \in {"string", "number"}
      /\ UNCHANGED <<text, written, next, eofbit, failbit, has_bom, delimiter>>
  BY ColumnFrame
<1>2. Len(got') = Len(got) /\ (got' = <<>> <=> got = <<>>)
  BY <1>1, GiveIs
<1>3. ASSUME NEW k \in Nat, NEW j \in Nat, got # <<>>, k = Len(got), j = Len(got[k])
      PROVE  /\ Len(got'[k]) = j + 1 /\ got'[k][j + 1] = Entry(v, pc)
             /\ \A n \in 1 .. j : got'[k][n] = got[k][n]
  <2>1. LET n == Len(got)  m == Len(got[n])
        IN  /\ Len(got'[n]) = m + 1 /\ got'[n][m + 1] = Entry(v, pc)
            /\ \A h \in 1 .. m : got'[n][h] = got[n][h]
    BY <1>1, <1>3, GiveShape
  <2> QED BY <1>3, <2>1
<1>4. Entry(v, pc).value = v /\ Entry(v, pc).by = pc /\ Entry(v, pc).delimiter = delimiter
  BY DEF Entry
<1>5. ASSUME NEW k \in Nat, NEW j \in Nat, got # <<>>, k = Len(got), j = Len(got[k]), GoodUpTo(k, j + 1)'
      PROVE  AtColumn(k, j) /\ Expected(k, j)
  <2>1. /\ k \in 1 .. Len(written) /\ j + 1 <= Len(written[k]) /\ LineIsLine(k) /\ EscapesAgree
        /\ \A n \in 1 .. j + 1 : Faithful(written[k], n)
    BY <1>1, <1>5, GoodKept DEF GoodUpTo
  <2>2. \A n \in 1 .. j + 1 : AskedFor(k, n)'
    BY <1>5 DEF GoodUpTo
  <2>3. j + 1 \in 1 .. j + 1 /\ \A n \in 1 .. j : n \in 1 .. j + 1
    OBVIOUS
  <2>4. ASSUME NEW n \in 1 .. j PROVE AskedFor(k, n)
    <3>1. AskedFor(k, n)' /\ got'[k][n] = got[k][n] /\ Ahead(written[k], n)' = Ahead(written[k], n)
      BY <1>1, <1>3, <1>5, <2>2, <2>3, GoodKept
    <3> QED BY <3>1 DEF AskedFor
  <2>5. delimiter = Ahead(written[k], j + 1)
    <3>1. AskedFor(k, j + 1)' /\ got'[k][j + 1] = Entry(v, pc)
          /\ Ahead(written[k], j + 1)' = Ahead(written[k], j + 1)
      BY <1>1, <1>3, <1>5, <2>2, <2>3, GoodKept
    <3> QED BY <3>1, <1>4 DEF AskedFor
  <2>6. j < Len(written[k]) /\ j <= Len(written[k])
    <3>1. Len(written[k]) \in Nat
      BY <2>1, LinesType
    <3> QED BY <2>1, <3>1
  <2>7. GoodUpTo(k, j)
    BY <2>1, <2>3, <2>4, <2>6 DEF GoodUpTo
  <2>8. Expected(k, j)
    BY <2>1, <2>3, <2>5, <2>6, <2>7 DEF Expected
  <2> QED BY <1>5, <2>8 DEF AtColumn
<1>6. ASSUME NEW at, Placed(at), ColumnAt(at), NEW k \in Nat, NEW j \in Nat, got # <<>>, k = Len(got),
             j = Len(got[k]), GoodUpTo(k, j + 1)'
      PROVE  /\ token = Token(written[k][j + 1])
             /\ j + 1 < Len(written[k]) =>
                  HoldsLine(at, k) /\ str' = str /\ pos' = PosAt(at, k, j + 1)
  <2>1. AtColumn(k, j) /\ Expected(k, j)
    BY <1>5, <1>6
  <2>2. pc' # pc
    BY <1>1
  <2> QED BY <1>6, <2>1, <2>2, ColumnEnds
<1>7. ASSUME NEW k \in Nat, NEW j \in Nat, got # <<>>, k = Len(got), j = Len(got[k]), GoodUpTo(k, j + 1)'
      PROVE  ValueBack(k, j + 1)'
  <2>1. AtColumn(k, j) /\ Expected(k, j)
    BY <1>5, <1>7
  <2>2. job.before = <<>>
    BY <2>1 DEF Expected, GoodUpTo, LineIsLine
  <2>3. PICK at : Placed(at)
    BY <2>2 DEF WrittenInv
  <2>4. ColumnAt(at)
    BY <2>3 DEF ColumnsInv
  <2>5. PICK w \in Cell : w = written[k][j + 1]
    BY <2>1, ExpectedIs
  <2>6. token = Token(w)
    BY <1>6, <1>7, <2>3, <2>4, <2>5
  <2>7. Comes(w, delimiter) /\ EscapesAgree
    BY <2>1, <2>5, ExpectedIs
  <2>8. Unescape(token) = w.value
    BY <2>6, <2>7, JobIsOK, TokenBack
  <2>9. v = IF pc = "number" THEN NumberIn(w.value) ELSE w.value
    BY <2>8
  <2>10. got'[k][j + 1].value = v /\ got'[k][j + 1].by = pc
    BY <1>3, <1>4, <1>7
  <2>11. written'[k][j + 1].value = w.value
    BY <1>1, <2>5
  <2>12. NumberIn(written[k][j + 1].value)' = NumberIn(w.value)
    BY <2>11 DEF NumberIn, At
  <2> QED BY <1>1, <2>9, <2>10, <2>11, <2>12 DEF ValueBack
<1>8. ValuesComeBack'
  <2>1. ASSUME NEW k \in 1 .. Len(got'), NEW j \in 1 .. Len(got'[k])
        PROVE  \/ /\ k \in 1 .. Len(got) /\ j \in 1 .. Len(got[k])
                  /\ \A n \in 1 .. j : got'[k][n] = got[k][n]
               \/ GoodUpTo(k, j)' => ValueBack(k, j)'
    <3>1. \/ /\ k \in 1 .. Len(got) /\ j \in 1 .. Len(got[k])
             /\ \A n \in 1 .. j : got'[k][n] = got[k][n]
          \/ got # <<>> /\ k = Len(got) /\ j = Len(got[k]) + 1
      BY <1>1, GivenOrNew
    <3>2. CASE got # <<>> /\ k = Len(got) /\ j = Len(got[k]) + 1
      <4>1. k \in 1 .. Len(got) /\ Len(got) \in Nat
        BY <1>2, GotIs
      <4>2. k \in Nat /\ Len(got[k]) \in Nat
        BY <4>1, GotIs
      <4>3. PICK i \in Nat : i = Len(got[k]) /\ j = i + 1
        BY <3>2, <4>2
      <4> QED BY <1>7, <3>2, <4>2, <4>3
    <3> QED BY <3>1, <3>2
  <2> QED BY <1>1, <2>1, ValuesKept DEF ColumnsInv
<1>9. ASSUME NEW at, Placed(at)' PROVE NextAt(at)' /\ HeldAt(at)' /\ ColumnAt(at)'
  <2>1. Placed(at) /\ NextAt(at) /\ ColumnAt(at)
    BY <1>1, <1>9, GoodKept DEF ColumnsInv
  <2>2. NextAt(at)'
    BY <1>1, <1>2, <2>1, NextKept
  <2>3. ColumnAt(at)'
    BY DEF ColumnAt, InColumn
  <2>4. ASSUME NEW k \in Nat, NEW j \in Nat, AtColumn(k, j)', GoodUpTo(k, j)',
               j = 0 \/ j < Len(written'[k])
        PROVE  HoldsLine(at, k)' /\ pos' = PosAt(at, k, j)
    <3>1. got # <<>> /\ k = Len(got) /\ j = Len(got'[k])
      BY <1>2, <2>4 DEF AtColumn
    <3>2. PICK i \in Nat : i = Len(got[k])
      <4>1. k \in 1 .. Len(got)
        BY <3>1, GotIs
      <4> QED BY <4>1, GotIs
    <3>3. j = i + 1
      BY <1>3, <3>1, <3>2
    <3>4. i + 1 < Len(written[k])
      BY <1>1, <2>4, <3>3
    <3>5. HoldsLine(at, k) /\ str' = str /\ pos' = PosAt(at, k, i + 1)
      BY <1>6, <2>1, <2>4, <3>1, <3>2, <3>3, <3>4
    <3>6. HoldsLine(at, k)'
      BY <1>1, <3>5, HoldsKept
    <3> QED BY <3>3, <3>5, <3>6
  <2>5. HeldAt(at)'
    BY <2>4 DEF HeldAt, PosAt
  <2> QED BY <2>2, <2>3, <2>5
<1> QED BY <1>8, <1>9 DEF ColumnsInv

LEMMA ColumnsColumn ==
  ASSUME TypeInv, TypeInv', WrittenInv, ColumnsInv, LastColumn \/ DoubledQuote \/ ColumnChar
  PROVE  ColumnsInv'
<1>1. /\ InColumn /\ Started /\ Kept /\ pc \in {"string", "number"}
      /\ UNCHANGED <<text, written, next, eofbit, failbit, has_bom, delimiter>>
      /\ \/ UNCHANGED <<pc, got>>
         \/ GiveToken(token)
  BY ColumnFrame
<1>2. CASE UNCHANGED <<pc, got>>
  BY <1>2, ColumnStays
<1>3. CASE GiveToken(token)
  <2>1. token \in Text
    BY DEF TypeInv
  <2>2. \/ pc' = "replace" /\ got' = got
        \/ /\ quote_unescape = QuoteEscape
           /\ \/ Throw("conversion")
              \/ \E v \in Text :
                   /\ v = IF pc = "number" THEN NumberIn(Unescape(token)) ELSE Unescape(token)
                   /\ pc' = "next" /\ Give(v, pc)
    BY <1>1, <1>3, <2>1, GiveTokenIs
  <2>3. CASE pc' = "replace" /\ got' = got
    <3>1. ValuesComeBack'
      <4>1. \A k \in 1 .. Len(got') : \A j \in 1 .. Len(got'[k]) :
               /\ k \in 1 .. Len(got) /\ j \in 1 .. Len(got[k])
               /\ \A n \in 1 .. j : got'[k][n] = got[k][n]
        BY <2>3
      <4> QED BY <1>1, <4>1, ValuesKept DEF ColumnsInv
    <3>2. ASSUME NEW at, Placed(at)' PROVE NextAt(at)' /\ HeldAt(at)' /\ ColumnAt(at)'
      <4>1. Placed(at) /\ NextAt(at)
        BY <1>1, <3>2, GoodKept DEF ColumnsInv
      <4>2. NextAt(at)'
        BY <1>1, <2>3, <4>1, NextKept
      <4> QED BY <2>3, <4>2 DEF HeldAt, ColumnAt, InColumn
    <3> QED BY <3>1, <3>2 DEF ColumnsInv
  <2>4. CASE Throw("conversion")
    BY <1>1, <2>4, ColumnsThrow
  <2>5. ASSUME quote_unescape = QuoteEscape, NEW v \in Text,
               v = IF pc = "number" THEN NumberIn(Unescape(token)) ELSE Unescape(token),
               pc' = "next", Give(v, pc)
        PROVE  ColumnsInv'
    BY <2>5, ColumnGiven
  <2> QED BY <2>2, <2>3, <2>4, <2>5
<1> QED BY <1>1, <1>2, <1>3

(* Every step keeps the reader where the column it reads lies.             *)
LEMMA ColumnsNext ==
  ASSUME TypeInv, FlowInv, WrittenInv, ColumnsInv, [Next]_vars
  PROVE  ColumnsInv'
<1>1. TypeInv'
  BY TypeNext
<1>2. CASE PutString \/ PutOther \/ PutNewline \/ PutSep
  <2>1. ~Started'
    BY <1>2, LinesOutput
  <2>2. got' = <<>> /\ pc' = "next"
    BY <2>1 DEF Started
  <2> QED BY <2>1, <2>2, ColumnsQuiet
<1>3. CASE OpenFile \/ SetInputString
  BY <1>1, <1>3, ColumnsOpen
<1>4. CASE EnableTrimQuote \/ SetSep \/ ReadLine \/ ReadColumn
  BY <1>1, <1>4, ColumnsInput
<1>5. CASE SkipLine
  <2>1. Input("skip")
    BY <1>5 DEF SkipLine
  <2>2. ~job.lines /\ Kept
    BY <2>1, InputFlow, InputKeeps DEF TypeInv
  <2>3. ~job'.lines
    BY <2>2 DEF Kept
  <2> QED BY <2>3, ColumnsNoLines
<1>6. CASE RestOfLine
  BY <1>1, <1>6, ColumnsRest
<1>7. CASE LineRound
  BY <1>1, <1>7, ColumnsRound
<1>8. CASE LastColumn \/ DoubledQuote \/ ColumnChar
  BY <1>1, <1>8, ColumnsColumn
<1>9. CASE UNCHANGED vars
  <2>1. /\ Kept /\ UNCHANGED <<text, written, next, eofbit, failbit, has_bom, delimiter, got, pc,
                               str, pos, token, within_quote, job>>
    BY <1>9 DEF vars, writer, stream, opened, column, Kept
  <2>2. ValuesComeBack'
    <3>1. \A k \in 1 .. Len(got') : \A j \in 1 .. Len(got'[k]) :
             /\ k \in 1 .. Len(got) /\ j \in 1 .. Len(got[k])
             /\ \A n \in 1 .. j : got'[k][n] = got[k][n]
      BY <2>1
    <3> QED BY <1>1, <2>1, <3>1, ValuesKept DEF ColumnsInv
  <2>3. ASSUME NEW at, Placed(at)' PROVE NextAt(at)' /\ HeldAt(at)' /\ ColumnAt(at)'
    <3>1. Placed(at) /\ NextAt(at) /\ HeldAt(at) /\ ColumnAt(at)
      BY <2>1, <2>3, GoodKept DEF ColumnsInv
    <3>2. \A k : LineIsLine(k)' <=> LineIsLine(k)
      BY <2>1, GoodKept
    <3>3. NextAt(at)'
      BY <2>1, <3>1, <3>2 DEF NextAt, Started
    <3>4. ASSUME NEW k \in Nat, NEW j \in Nat
          PROVE  /\ GoodUpTo(k, j)' <=> GoodUpTo(k, j)
                 /\ Expected(k, j)' <=> Expected(k, j)
                 /\ HoldsLine(at, k)' <=> HoldsLine(at, k)
                 /\ AtColumn(k, j)' <=> AtColumn(k, j)
      <4>1. \A n \in 1 .. j : got'[k][n] = got[k][n]
        BY <2>1
      <4>2. GoodUpTo(k, j)' <=> GoodUpTo(k, j)
        BY <2>1, <4>1, GoodSame
      <4>3. Expected(k, j)' <=> Expected(k, j)
        BY <2>1, <4>1, ExpectedKept
      <4>4. HoldsLine(at, k)' <=> HoldsLine(at, k)
        BY <2>1, HoldsKept
      <4>5. AtColumn(k, j)' <=> AtColumn(k, j)
        BY <2>1 DEF AtColumn
      <4> QED BY <4>2, <4>3, <4>4, <4>5
    <3>5. HeldAt(at)'
      BY <2>1, <3>1, <3>4 DEF HeldAt, PosAt
    <3>6. ASSUME NEW k \in Nat, NEW j \in Nat, Scanned(at, k, j, written[k][j + 1])
          PROVE  Scanned(at, k, j, written[k][j + 1])'
      <4>1. /\ Token(written[k][j + 1])' = Token(written[k][j + 1])
            /\ Form(written[k][j + 1])' = Form(written[k][j + 1])
        BY <2>1, GoodKept
      <4>2. Quoted(written[k][j + 1])' = Quoted(written[k][j + 1])
        BY <2>1 DEF Quoted
      <4> QED BY <2>1, <3>6, <4>1, <4>2 DEF Scanned, Mid, PosAt
    <3>7. ColumnAt(at)'
      BY <2>1, <3>1, <3>4, <3>6 DEF ColumnAt, InColumn
    <3> QED BY <3>3, <3>5, <3>7
  <2> QED BY <2>2, <2>3 DEF ColumnsInv
<1> QED BY <1>2, <1>3, <1>4, <1>5, <1>6, <1>7, <1>8, <1>9 DEF Next, Loop

LEMMA ColumnsInit ==
  ASSUME Init
  PROVE  ColumnsInv
<1>1. got = <<>> /\ pc = "next" /\ job \in Jobs
  BY DEF Init
<1>2. ~Started
  BY <1>1, MiniCsvConstants DEF Started, OpensFirst
<1>3. ValuesComeBack
  BY <1>1 DEF ValuesComeBack
<1>4. ASSUME NEW at PROVE NextAt(at) /\ HeldAt(at) /\ ColumnAt(at)
  BY <1>1, <1>2 DEF NextAt, HeldAt, ColumnAt, InColumn, AtColumn
<1> QED BY <1>3, <1>4 DEF ColumnsInv

-----------------------------------------------------------------------------
(* Counting delimiters                                                     *)

(* num_of_delimiter(), one character at a time: an even number of quotes   *)
(* up to here, and the delimiters that are counted up to here.             *)
Quotes(p) == {i \in 1 .. p : str[i] = Quote}
Even(p) == Cardinality(Quotes(p)) % 2 = 0
Counts(p) == str[p] = delimiter /\ Even(p)
Seps(p) == {i \in 1 .. p : Counts(i)}

(* Both grow by a character: at a quote the parity turns, at a counted     *)
(* delimiter there is one more.                                            *)
LEMMA EvenStep ==
  /\ Even(0) /\ Seps(0) = {}
  /\ \A p \in Nat : /\ Even(p + 1) <=> (Even(p) <=> str[p + 1] # Quote)
                    /\ IsFiniteSet(Seps(p)) /\ Cardinality(Seps(p)) \in Nat
                    /\ Counts(p + 1) => Cardinality(Seps(p + 1)) = Cardinality(Seps(p)) + 1
                    /\ ~Counts(p + 1) => Seps(p + 1) = Seps(p)
<1>1. Quotes(0) = {} /\ Seps(0) = {}
  <2>1. 1 .. 0 = {}
    OBVIOUS
  <2> QED BY <2>1 DEF Quotes, Seps
<1>2. Even(0)
  <2>1. Cardinality(Quotes(0)) = 0
    BY <1>1, FS_EmptySet
  <2> QED BY <2>1 DEF Even
<1>3. ASSUME NEW p \in Nat
      PROVE  /\ Even(p + 1) <=> (Even(p) <=> str[p + 1] # Quote)
             /\ IsFiniteSet(Seps(p)) /\ Cardinality(Seps(p)) \in Nat
             /\ Counts(p + 1) => Cardinality(Seps(p + 1)) = Cardinality(Seps(p)) + 1
             /\ ~Counts(p + 1) => Seps(p + 1) = Seps(p)
  <2>1. IsFiniteSet(1 .. p)
    BY FS_Interval
  <2>2. Quotes(p) \subseteq 1 .. p /\ Seps(p) \subseteq 1 .. p
    BY DEF Quotes, Seps
  <2>3. IsFiniteSet(Quotes(p)) /\ IsFiniteSet(Seps(p))
    BY <2>1, <2>2, FS_Subset
  <2>4. PICK n \in Nat : n = Cardinality(Quotes(p))
    BY <2>3, FS_CardinalityType
  <2>5. Cardinality(Seps(p)) \in Nat
    BY <2>3, FS_CardinalityType
  <2>6. p + 1 \notin Quotes(p) /\ p + 1 \notin Seps(p)
    <3>1. p + 1 \notin 1 .. p
      OBVIOUS
    <3> QED BY <3>1, <2>2
  <2>7. \A i : i \in 1 .. p + 1 <=> i \in 1 .. p \/ i = p + 1
    OBVIOUS
  <2>8. Even(p + 1) <=> (Even(p) <=> str[p + 1] # Quote)
    <3>1. CASE str[p + 1] = Quote
      <4>1. Quotes(p + 1) = Quotes(p) \cup {p + 1}
        BY <2>7, <3>1 DEF Quotes
      <4>2. Cardinality(Quotes(p + 1)) = n + 1
        BY <2>3, <2>4, <2>6, <4>1, FS_AddElement
      <4>3. (n + 1) % 2 = 0 <=> ~(n % 2 = 0)
        OBVIOUS
      <4> QED BY <2>4, <3>1, <4>2, <4>3 DEF Even
    <3>2. CASE str[p + 1] # Quote
      <4>1. Quotes(p + 1) = Quotes(p)
        BY <2>7, <3>2 DEF Quotes
      <4> QED BY <3>2, <4>1 DEF Even
    <3> QED BY <3>1, <3>2
  <2>9. ASSUME Counts(p + 1) PROVE Cardinality(Seps(p + 1)) = Cardinality(Seps(p)) + 1
    <3>1. Seps(p + 1) = Seps(p) \cup {p + 1}
      BY <2>7, <2>9 DEF Seps
    <3> QED BY <2>3, <2>6, <3>1, FS_AddElement
  <2>10. ASSUME ~Counts(p + 1) PROVE Seps(p + 1) = Seps(p)
    BY <2>7, <2>10 DEF Seps
  <2> QED BY <2>3, <2>5, <2>8, <2>9, <2>10
<1> QED BY <1>1, <1>2, <1>3

(* Nothing is counted up to p that is not counted up to h.                 *)
LEMMA SepsSame ==
  ASSUME NEW h \in Nat, NEW l \in Nat, \A p \in h + 1 .. h + l : ~Counts(p)
  PROVE  Seps(h + l) = Seps(h)
<1>1. \A i : i \in 1 .. h + l <=> i \in 1 .. h \/ i \in h + 1 .. h + l
  OBVIOUS
<1> QED BY <1>1 DEF Seps

(* Across a column the quotes are even where it ends, and odd at every     *)
(* delimiter that is in it.                                                *)
LEMMA ColumnEven ==
  ASSUME TypeInv, NEW q \in BOOLEAN, NEW d, d = delimiter, d # Quote, NEW t, NEW x, NEW f, NEW h,
         Scan(q, d, t, x, f), Lies(q, d, x, h), q \/ Quote \notin ToSet(t), Even(h)
  PROVE  /\ Even(h + Len(x))
         /\ \A p \in h + 1 .. h + Len(x) : ~Counts(p)
<1>1. PICK n \in Nat, l \in Nat : n = Len(t) /\ l = Len(x)
  BY ScanIs
<1>2. /\ t \in Seq(Letters) /\ f[0] = 0 /\ f[n] = l /\ (q => n >= 2) /\ h \in Nat
      /\ \A i \in 1 .. l : str[h + i] = x[i]
  BY <1>1, ScanIs DEF Lies
<1>3. ASSUME NEW m \in 0 .. n - 1
      PROVE  /\ f[m] \in Nat /\ f[m + 1] \in 0 .. l
             /\ \/ /\ f[m + 1] = f[m] + 1 /\ x[f[m + 1]] = t[m + 1]
                   /\ q => (t[m + 1] = Quote <=> m = 0 \/ m + 1 = n)
                \/ /\ f[m + 1] = f[m] + 2 /\ q /\ m # 0 /\ m + 1 # n /\ t[m + 1] = Quote
                   /\ x[f[m + 1] - 1] = Quote /\ x[f[m + 1]] = Quote
             /\ ~q => t[m + 1] # d /\ t[m + 1] # Quote
  <2>1. m \in 0 .. Len(t) - 1
    BY <1>1
  <2>2. m + 1 \in 1 .. Len(t)
    BY <1>1
  <2>3. ~q => t[m + 1] # Quote
    BY <1>2, <2>2, ToSetIs
  <2>4. /\ f[m] \in Nat /\ f[m + 1] \in 0 .. Len(x)
        /\ \/ /\ f[m + 1] = f[m] + 1 /\ x[f[m + 1]] = t[m + 1]
              /\ q => (t[m + 1] = Quote <=> m = 0 \/ m + 1 = Len(t))
           \/ /\ f[m + 1] = f[m] + 2 /\ q /\ m # 0 /\ m + 1 # Len(t) /\ t[m + 1] = Quote
              /\ x[f[m + 1] - 1] = Quote /\ x[f[m + 1]] = Quote
        /\ ~q => t[m + 1] # d
    <3> HIDE <1>1, <1>2
    <3> QED BY <2>1, ScanIs
  <2> QED BY <1>1, <2>3, <2>4
<1> DEFINE Within(m) == q /\ 1 <= m /\ m < n
           S == {m \in Nat : /\ f[m] \in 0 .. l
                             /\ Even(h + f[m]) <=> ~Within(m)
                             /\ \A p \in h + 1 .. h + f[m] : ~Counts(p)}
<1>4. 0 \in S
  <2>1. 0 \in 0 .. l /\ h + 0 = h /\ h + 1 .. h + 0 = {} /\ ~(1 <= 0)
    BY <1>2
  <2> QED BY <1>2, <2>1
<1>5. ASSUME NEW m \in 0 .. n - 1, m \in S PROVE m + 1 \in S
  <2>1. PICK a \in Nat, b \in Nat : a = f[m] /\ b = f[m + 1] /\ b <= l
    BY <1>3
  <2>2. PICK c \in Letters : c = t[m + 1]
    <3>1. m + 1 \in 1 .. Len(t)
      BY <1>1
    <3> QED BY <3>1, <1>2
  <2>3. /\ \/ /\ b = a + 1 /\ x[b] = c
              /\ q => (c = Quote <=> m = 0 \/ m + 1 = n)
           \/ b = a + 2 /\ q /\ m # 0 /\ m + 1 # n /\ x[b - 1] = Quote /\ x[b] = Quote
        /\ ~q => c # d /\ c # Quote
    BY <1>3, <2>1, <2>2
  <2>4. /\ Even(h + a) <=> ~Within(m)
        /\ \A p \in h + 1 .. h + a : ~Counts(p)
    BY <1>5, <2>1
  <2>5. m \in Nat /\ m + 1 \in Nat /\ m < n
    OBVIOUS
  <2>6. CASE b = a + 1
    <3>1. b # a + 2
      BY <2>1, <2>6
    <3>2. x[b] = c /\ (q => (c = Quote <=> m = 0 \/ m + 1 = n))
      BY <2>3, <3>1
    <3>3. b \in 1 .. l /\ h + b = (h + a) + 1 /\ h + a \in Nat
      <4>1. PICK g \in Nat : g = h
        BY <1>2
      <4>2. a + 1 \in 1 .. l /\ g + (a + 1) = (g + a) + 1 /\ g + a \in Nat
        BY <2>1, <2>6
      <4> QED BY <2>6, <4>1, <4>2
    <3>4. str[(h + a) + 1] = c
      BY <1>2, <3>2, <3>3
    <3>5. Even((h + a) + 1) <=> (Even(h + a) <=> c # Quote)
      BY <3>3, <3>4, EvenStep
    <3>6. Even((h + a) + 1) <=> ~Within(m + 1)
      <4>1. CASE ~q
        BY <2>3, <2>4, <3>5, <4>1
      <4>2. CASE q /\ m = 0
        <5>1. c = Quote /\ ~(1 <= m) /\ 1 <= m + 1 /\ m + 1 < n
          BY <1>2, <3>2, <4>2
        <5> QED BY <2>4, <3>5, <4>2, <5>1
      <4>3. CASE q /\ m # 0
        <5>1. 1 <= m /\ 1 <= m + 1 /\ (m + 1 < n <=> m + 1 # n)
          BY <2>5, <4>3
        <5>2. c = Quote <=> m + 1 = n
          BY <3>2, <4>3
        <5> QED BY <2>4, <2>5, <3>5, <4>3, <5>1, <5>2
      <4> QED BY <4>1, <4>2, <4>3
    <3>7. ~Counts((h + a) + 1)
      <4>1. CASE c # d
        BY <3>4, <4>1 DEF Counts
      <4>2. CASE c = d
        <5>1. q /\ c # Quote
          BY <2>3, <4>2
        <5>2. m # 0 /\ m + 1 # n
          BY <3>2, <5>1
        <5>3. 1 <= m + 1 /\ m + 1 < n
          BY <2>5, <5>2
        <5> QED BY <3>6, <5>1, <5>3 DEF Counts
      <4> QED BY <4>1, <4>2
    <3>8. \A p \in h + 1 .. h + b : ~Counts(p)
      <4> TAKE p \in h + 1 .. h + b
      <4>1. p \in h + 1 .. h + a \/ p = (h + a) + 1
        <5>1. PICK g \in Nat : g = h
          BY <1>2
        <5>2. p \in g + 1 .. g + (a + 1)
          BY <2>6, <5>1
        <5>3. p \in g + 1 .. g + a \/ p = (g + a) + 1
          BY <5>2
        <5> QED BY <5>1, <5>3
      <4> QED BY <4>1, <2>4, <3>7
    <3> QED BY <2>1, <2>5, <3>3, <3>6, <3>8
  <2>7. CASE b # a + 1
    <3>1. b = a + 2 /\ q /\ m # 0 /\ m + 1 # n /\ x[b - 1] = Quote /\ x[b] = Quote
      BY <2>3, <2>7
    <3>2. /\ b \in 1 .. l /\ b - 1 \in 1 .. l /\ h + b = ((h + a) + 1) + 1 /\ h + a \in Nat
          /\ h + (b - 1) = (h + a) + 1 /\ (h + a) + 1 \in Nat
      <4>1. PICK g \in Nat : g = h
        BY <1>2
      <4>2. /\ a + 2 \in 1 .. l /\ (a + 2) - 1 \in 1 .. l /\ g + (a + 2) = ((g + a) + 1) + 1
            /\ g + a \in Nat /\ g + ((a + 2) - 1) = (g + a) + 1 /\ (g + a) + 1 \in Nat
        BY <2>1, <3>1
      <4> QED BY <3>1, <4>1, <4>2
    <3>3. str[(h + a) + 1] = Quote /\ str[((h + a) + 1) + 1] = Quote
      BY <1>2, <3>1, <3>2
    <3>4. Even(((h + a) + 1) + 1) <=> Even(h + a)
      <4>1. Even((h + a) + 1) <=> ~Even(h + a)
        BY <3>2, <3>3, EvenStep
      <4>2. Even(((h + a) + 1) + 1) <=> ~Even((h + a) + 1)
        BY <3>2, <3>3, EvenStep
      <4> QED BY <4>1, <4>2
    <3>5. Within(m) /\ Within(m + 1)
      BY <2>5, <3>1
    <3>6. ~Counts((h + a) + 1) /\ ~Counts(((h + a) + 1) + 1)
      BY <3>3 DEF Counts
    <3>7. \A p \in h + 1 .. h + b : ~Counts(p)
      <4> TAKE p \in h + 1 .. h + b
      <4>1. p \in h + 1 .. h + a \/ p = (h + a) + 1 \/ p = ((h + a) + 1) + 1
        <5>1. PICK g \in Nat : g = h
          BY <1>2
        <5>2. p \in g + 1 .. g + (a + 2)
          BY <3>1, <5>1
        <5>3. p \in g + 1 .. g + a \/ p = (g + a) + 1 \/ p = ((g + a) + 1) + 1
          BY <5>2
        <5> QED BY <5>1, <5>3
      <4> QED BY <4>1, <2>4, <3>6
    <3> QED BY <2>1, <2>4, <2>5, <3>2, <3>4, <3>5, <3>7
  <2> QED BY <2>6, <2>7
<1> HIDE DEF S
<1>6. \A m \in 0 .. n : m \in S
  BY <1>4, <1>5, Upward
<1>7. n \in S
  BY <1>6
<1>8. Even(h + l) /\ \A p \in h + 1 .. h + l : ~Counts(p)
  BY <1>2, <1>7 DEF S
<1> QED BY <1>1, <1>8

(* Every column of a line that comes back is ready to be read, if they all *)
(* have the delimiter the reader has.                                      *)
LEMMA AllReady ==
  ASSUME TypeInv, NEW k \in 1 .. Len(written), LineIsLine(k), EscapesAgree,
         \A n \in DOMAIN written[k] : Faithful(written[k], n) /\ written[k][n].delimiter = delimiter
  PROVE  \A j \in Nat : j < Len(written[k]) => Ready(k, j)
<1>1. PICK l \in Nat : l = Len(written[k]) /\ DOMAIN written[k] = 1 .. l
  <2>1. written \in Seq(Seq(Cell))
    BY DEF TypeInv
  <2>2. written[k] \in Seq(Cell)
    BY <2>1
  <2> QED BY <2>2
<1>2. ASSUME NEW j \in Nat, j < l PROVE Ready(k, j)
  <2>1. \A n \in 1 .. j + 1 : n \in DOMAIN written[k]
    BY <1>1, <1>2
  <2>2. \A n \in 1 .. j + 1 : Faithful(written[k], n)
    BY <2>1
  <2>3. PICK n \in Nat : n = j + 1
    OBVIOUS
  <2>4. n \in 1 .. l /\ (n < l => n + 1 \in 1 .. l)
    BY <1>2, <2>3
  <2>5. Ahead(written[k], n) = delimiter
    <3>1. CASE n < l
      <4>1. Ahead(written[k], n) = written[k][n + 1].delimiter
        BY <1>1, <3>1 DEF Ahead
      <4> QED BY <1>1, <2>4, <3>1, <4>1
    <3>2. CASE ~(n < l)
      <4>1. Ahead(written[k], n) = written[k][n].delimiter
        BY <1>1, <3>2 DEF Ahead
      <4> QED BY <1>1, <2>4, <4>1
    <3> QED BY <3>1, <3>2
  <2> QED BY <1>1, <1>2, <2>2, <2>3, <2>5 DEF Ready
<1> QED BY <1>1, <1>2

(* Nothing in a column is counted, whatever its quotes; the delimiter      *)
(* behind it is.                                                           *)
LEMMA ColumnCounted ==
  ASSUME TypeInv, NEW at, Placed(at), NEW k, NEW j \in Nat, Ready(k, j), HoldsLine(at, k),
         Quote \in ToSet(written[k][j + 1].value) => Quoted(written[k][j + 1]),
         Even(PosAt(at, k, j))
  PROVE  LET h == PosAt(at, k, j)  l == Len(Form(written[k][j + 1]))
         IN  /\ h \in Nat /\ l \in Nat /\ h + l <= Len(str) /\ Even(h + l)
             /\ Seps(h + l) = Seps(h)
             /\ h + l < Len(str) => str[h + l + 1] = delimiter
<1> DEFINE w == written[k][j + 1]
           h == PosAt(at, k, j)
           t == Token(w)
           x == Form(w)
<1>1. /\ w \in Cell /\ Comes(w, delimiter) /\ EscapesAgree /\ delimiter # Quote
  BY ReadyIs
<1>2. Lies(Quoted(w), delimiter, x, h)
  BY LiesReady
<1>3. JobOK
  BY JobIsOK
<1>4. (Quote \in ToSet(w.value) => Quoted(w)) /\ Even(h)
  OBVIOUS
<1> HIDE DEF w, h
<1>5. PICK f : Scan(Quoted(w), delimiter, t, x, f)
  BY <1>1, <1>3, ScanExists
<1>6. Quoted(w) \/ Quote \notin ToSet(t)
  BY <1>1, <1>3, <1>4, NoQuote
<1>7. PICK q \in BOOLEAN : q = Quoted(w)
  BY DEF Quoted
<1> HIDE DEF t, x
<1>8. Scan(q, delimiter, t, x, f) /\ Lies(q, delimiter, x, h) /\ (q \/ Quote \notin ToSet(t))
  BY <1>2, <1>5, <1>6, <1>7
<1>9. Even(h + Len(x)) /\ \A p \in h + 1 .. h + Len(x) : ~Counts(p)
  BY <1>1, <1>4, <1>8, ColumnEven
<1>10. PICK l \in Nat : l = Len(x)
  BY <1>8, ScanIs
<1>11. h \in Nat /\ h + l <= Len(str) /\ (h + l < Len(str) => str[h + l + 1] = delimiter)
  BY <1>8, <1>10 DEF Lies
<1>12. Seps(h + l) = Seps(h)
  BY <1>9, <1>10, <1>11, SepsSame
<1> QED BY <1>9, <1>10, <1>11, <1>12 DEF w, h, x

(* An empty line was written where an empty line is held.                  *)
LEMMA EmptyLine ==
  ASSUME TypeInv, NEW at, Placed(at), NEW k \in 1 .. Len(written), written[k] = <<>>, HoldsLine(at, k)
  PROVE  str = <<>>
<1>1. PICK z \in Nat, u \in Nat, n \in Nat, r \in Nat :
        z = at[k][0] /\ u = Len(text) /\ n = Len(written) /\ r = Len(str)
  <2>1. k \in Nat /\ Len(text) \in Nat /\ Len(written) \in Nat /\ Len(str) \in Nat
    BY LinesType, StrIs
  <2>2. at[k][0] \in Nat
    BY <2>1 DEF Placed
  <2> QED BY <2>1, <2>2
<1>2. PICK e \in Nat : /\ z + 1 <= e /\ e <= u + 1 /\ r = e - 1 - z
                       /\ \A p \in z + 1 .. e - 1 : text[p] # NL
  BY <1>1 DEF HoldsLine, LineTo
<1>3. Len(written[k]) = 0
  OBVIOUS
<1>4. e = z + 1
  <2>1. CASE k = n
    <3>1. u = z
      BY <1>1, <1>3, <2>1 DEF Placed
    <3> QED BY <3>1, <1>2
  <2>2. CASE k # n
    <3>1. k \in 1 .. Len(written) - 1
      BY <1>1, <2>2
    <3>2. text[z + 1] = NL
      <4>1. at[k + 1][0] = at[k][Len(written[k])] + 1 /\ text[at[k + 1][0]] = NL
        BY <3>1 DEF Placed
      <4>2. at[k][Len(written[k])] = z
        BY <1>1, <1>3
      <4> QED BY <4>1, <4>2
    <3>3. ~(z + 1 \in z + 1 .. e - 1)
      BY <1>2, <3>2
    <3> QED BY <1>2, <3>3
  <2> QED BY <2>1, <2>2
<1>5. Len(str) = 0
  <2>1. r = e - 1 - z
    BY <1>2
  <2>2. r = 0
    BY <1>4, <2>1
  <2> QED BY <1>1, <2>2
<1> QED BY <1>5, StrIs

(* num_of_delimiter() of a line that was written: one column after the     *)
(* other, as many delimiters are counted as columns were passed.           *)
LEMMA DelimitersAre ==
  ASSUME TypeInv, WrittenInv, ColumnsInv
  PROVE  DelimitersSeparateColumns
<1> SUFFICES ASSUME NEW k, k = Len(got), pc = "next", k \in DOMAIN got \cap DOMAIN written,
                    got[k] = <<>>, str # <<>>, LineIsLine(k), EscapesAgree,
                    \A j \in DOMAIN written[k] :
                       /\ Faithful(written[k], j) /\ written[k][j].delimiter = delimiter
                       /\ Quote \in ToSet(written[k][j].value) => Quoted(written[k][j])
             PROVE  num_of_delimiter = Len(written[k]) - 1
  BY DEF DelimitersSeparateColumns
<1>1. /\ k \in 1 .. Len(written) /\ k \in Nat /\ Len(got[k]) = 0 /\ got # <<>>
      /\ got \in Seq(Seq(Got))
  <2>1. written \in Seq(Seq(Cell)) /\ got \in Seq(Seq(Got))
    BY DEF TypeInv
  <2>2. DOMAIN written = 1 .. Len(written) /\ DOMAIN got = 1 .. Len(got) /\ Len(got) \in Nat
    BY <2>1
  <2>3. got # <<>>
    BY <2>2
  <2> QED BY <2>1, <2>2, <2>3
<1>2. PICK at : Placed(at)
  <2>1. job.before = <<>>
    BY DEF LineIsLine
  <2> QED BY <2>1 DEF WrittenInv
<1>3. HoldsLine(at, k)
  <2>1. HeldAt(at)
    BY <1>2 DEF ColumnsInv
  <2>2. GoodUpTo(k, 0)
    <3>1. Len(written[k]) \in Nat
      BY <1>1, LinesType
    <3>2. 1 .. 0 = {}
      OBVIOUS
    <3> QED BY <1>1, <3>1, <3>2 DEF GoodUpTo
  <2>3. AtColumn(k, 0) /\ 0 \in Nat
    BY <1>1 DEF AtColumn
  <2>4. \A i, j \in Nat : AtColumn(i, j) /\ GoodUpTo(i, j) /\ j = 0 => HoldsLine(at, i)
    BY <2>1 DEF HeldAt
  <2> QED BY <1>1, <2>2, <2>3, <2>4
<1>4. PICK n \in Nat, r \in Nat : n = Len(written[k]) /\ r = Len(str) /\ DOMAIN written[k] = 1 .. n
  <2>1. written \in Seq(Seq(Cell))
    BY DEF TypeInv
  <2>2. written[k] \in Seq(Cell)
    BY <1>1, <2>1
  <2> QED BY <2>2, StrIs
<1>5. n # 0
  <2> SUFFICES ASSUME n = 0 PROVE FALSE
    OBVIOUS
  <2>1. written[k] = <<>>
    <3>1. written[k] \in Seq(Cell)
      <4>1. written \in Seq(Seq(Cell))
        BY DEF TypeInv
      <4> QED BY <1>1, <4>1
    <3> QED BY <1>4, <3>1
  <2> QED BY <1>1, <1>2, <1>3, <2>1, EmptyLine
<1>6. \A j \in Nat : j < n => Ready(k, j)
  BY <1>1, <1>4, AllReady
<1> DEFINE H(j) == PosAt(at, k, j)
           W(j) == Len(Form(written[k][j + 1]))
           S == {j \in Nat : H(j) \in Nat /\ Even(H(j)) /\ Cardinality(Seps(H(j))) = j}
<1>7. ASSUME NEW j \in Nat, j < n, j \in S
      PROVE  /\ H(j) \in Nat /\ W(j) \in Nat /\ H(j) + W(j) <= r /\ Even(H(j) + W(j))
             /\ Seps(H(j) + W(j)) = Seps(H(j)) /\ Cardinality(Seps(H(j) + W(j))) = j
             /\ H(j) + W(j) < r => str[H(j) + W(j) + 1] = delimiter
             /\ j + 1 < n => H(j) + W(j) < r /\ H(j + 1) = H(j) + W(j) + 1
             /\ H(j) + W(j) < r => j + 1 < n
  <2>1. Ready(k, j) /\ Even(H(j)) /\ Cardinality(Seps(H(j))) = j
    BY <1>6, <1>7
  <2>2. Quote \in ToSet(written[k][j + 1].value) => Quoted(written[k][j + 1])
    <3>1. j + 1 \in DOMAIN written[k]
      BY <1>4, <1>7
    <3> QED BY <3>1
  <2>3. /\ H(j) \in Nat /\ W(j) \in Nat /\ H(j) + W(j) <= r /\ Even(H(j) + W(j))
        /\ Seps(H(j) + W(j)) = Seps(H(j))
        /\ H(j) + W(j) < r => str[H(j) + W(j) + 1] = delimiter
    BY <1>2, <1>3, <1>4, <2>1, <2>2, ColumnCounted
  <2>4. /\ j + 1 < n => H(j) + W(j) < r /\ H(j + 1) = H(j) + W(j) + 1
        /\ H(j) + W(j) < r => j + 1 < n
    BY <1>2, <1>3, <1>4, <2>1, LiesReady
  <2> QED BY <2>1, <2>3, <2>4
<1>8. 0 \in S
  <2>1. H(0) = 0
    BY DEF PosAt
  <2>2. Even(0) /\ Cardinality(Seps(0)) = 0
    BY EvenStep, FS_EmptySet
  <2> QED BY <2>1, <2>2
<1>9. ASSUME NEW j \in 0 .. (n - 1) - 1, j \in S PROVE j + 1 \in S
  <2>1. j \in Nat /\ j < n /\ j + 1 < n
    BY <1>9
  <2>2. PICK p \in Nat : p = H(j) + W(j) /\ H(j + 1) = p + 1 /\ p < r
    <3>1. H(j) \in Nat /\ W(j) \in Nat /\ H(j) + W(j) < r /\ H(j + 1) = H(j) + W(j) + 1
      BY <1>7, <1>9, <2>1
    <3> HIDE DEF H, W
    <3> QED BY <3>1
  <2>3. Even(p) /\ Cardinality(Seps(p)) = j /\ str[p + 1] = delimiter
    BY <1>7, <1>9, <2>1, <2>2
  <2>4. delimiter # Quote
    BY <1>6, <2>1, ReadyIs
  <2>5. Even(p + 1)
    BY <2>3, <2>4, EvenStep
  <2>6. Counts(p + 1)
    BY <2>3, <2>5 DEF Counts
  <2>7. Cardinality(Seps(p + 1)) = j + 1
    BY <2>3, <2>6, EvenStep
  <2> QED BY <2>1, <2>2, <2>5, <2>7
<1> HIDE DEF S
<1>10. n - 1 \in S /\ n - 1 \in Nat /\ n - 1 < n
  <2>1. n - 1 \in Nat /\ n - 1 \in 0 .. n - 1 /\ n - 1 < n
    BY <1>5
  <2>2. \A j \in 0 .. n - 1 : j \in S
    BY <1>8, <1>9, <2>1, Upward
  <2> QED BY <2>1, <2>2
<1>11. Cardinality(Seps(r)) = n - 1
  <2>1. PICK j \in Nat : j = n - 1
    BY <1>10
  <2>2. PICK p \in Nat : p = H(j) + W(j) /\ p <= r /\ (p < r => j + 1 < n) /\ Cardinality(Seps(p)) = j
    <3>1. /\ H(j) \in Nat /\ W(j) \in Nat /\ H(j) + W(j) <= r /\ (H(j) + W(j) < r => j + 1 < n)
          /\ Cardinality(Seps(H(j) + W(j))) = j
      BY <1>7, <1>10, <2>1
    <3> HIDE DEF H, W
    <3> QED BY <3>1
  <2>3. p = r
    BY <2>1, <2>2
  <2> QED BY <2>1, <2>2, <2>3
<1>12. num_of_delimiter = Cardinality(Seps(r))
  <2>1. DOMAIN str = 1 .. r
    BY <1>4, StrIs
  <2> QED BY <2>1 DEF num_of_delimiter, Seps, Counts, Even, Quotes
<1> QED BY <1>4, <1>11, <1>12

(* A line that was written comes back column by column, and has as many    *)
(* columns as num_of_delimiter() says.                                     *)
THEOREM MiniColumnsCorrect == Spec => []ColumnsComeBack
<1>1. Init => TypeInv /\ FlowInv /\ WrittenInv /\ ColumnsInv
  BY TypeInit, FlowInit, WrittenInit, ColumnsInit
<1>2. TypeInv /\ FlowInv /\ WrittenInv /\ ColumnsInv /\ [Next]_vars
        => (TypeInv /\ FlowInv /\ WrittenInv /\ ColumnsInv)'
  BY TypeNext, FlowNext, WrittenNext, ColumnsNext
<1>3. TypeInv /\ FlowInv /\ WrittenInv /\ ColumnsInv => ColumnsComeBack
  BY DelimitersAre DEF ColumnsComeBack, ColumnsInv
<1> QED BY <1>1, <1>2, <1>3, PTL DEF Spec
=============================================================================
