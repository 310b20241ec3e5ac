--------------------------- MODULE GpsTimeProofs ---------------------------
(* Theorems about GpsTime, for a week of any even length.                  *)
EXTENDS GpsTime, TLAPS

(* A whole number of weeks that is shorter than two weeks is at most one.  *)
LEMMA FewWeeks ==
  ASSUME NEW k \in Int, NEW w \in Nat \ {0}, -2 * w < w * k, w * k < 2 * w
  PROVE  k \in {-1, 0, 1}
<1>1. CASE k >= 2
  <2>1. w * k >= w * 2
    BY <1>1, Z3
  <2>2. QED
    BY <2>1
<1>2. CASE k <= -2
  <2>1. w * k <= w * (-2)
    BY <1>2, Z3
  <2>2. QED
    BY <2>1
<1>3. QED
  BY <1>1, <1>2

(* A time is its week number times Week, plus its time of week.            *)
LEMMA WeekNumber ==
  ASSUME NEW time \in Nat
  PROVE  /\ TimeOfWeek(time) \in Nat /\ TimeOfWeek(time) < Week
         /\ time = Week * (time \div Week) + TimeOfWeek(time)
         /\ time \div Week \in Nat
<1>1. Week \in Nat \ {0}
  BY TimeConstants DEF Week
<1> HIDE DEF Week
<1>2. QED
  BY <1>1, Z3 DEF TimeOfWeek

(* Times of week less than a week apart are folded into half a week, and   *)
(* differ from the fold by whole weeks.                                    *)
LEMMA Folded ==
  ASSUME NEW now \in Nat, NEW ref \in Nat
  PROVE  /\ Answer(now, ref).age \in Int
         /\ -HalfWeek <= Answer(now, ref).age /\ Answer(now, ref).age <= HalfWeek
         /\ \E k \in Int : now - ref = Week * k + Answer(now, ref).age
<1> DEFINE d == TimeOfWeek(now) - TimeOfWeek(ref)
           age == calcTimeFromEpoch(TimeOfWeek(now), TimeOfWeek(ref))
           weeks == (now \div Week) - (ref \div Week)
<1>1. /\ Week \in Nat
      /\ TimeOfWeek(now) \in Nat /\ TimeOfWeek(now) < Week
      /\ TimeOfWeek(ref) \in Nat /\ TimeOfWeek(ref) < Week
      /\ now \div Week \in Nat /\ ref \div Week \in Nat
      /\ now = Week * (now \div Week) + TimeOfWeek(now)
      /\ ref = Week * (ref \div Week) + TimeOfWeek(ref)
  <2>1. Week \in Nat
    BY TimeConstants DEF Week
  <2>2. QED
    BY <2>1, WeekNumber
<1>2. d \in Int /\ -Week < d /\ d < Week /\ weeks \in Int
  BY <1>1
<1>3. now - ref = Week * weeks + d
  <2>1. \A w, x, y \in Int : w * x - w * y = w * (x - y)
    BY Z3
  <2>2. Week * (now \div Week) - Week * (ref \div Week) = Week * weeks
    BY <1>1, <2>1
  <2>3. \A x \in Int : Week * x \in Int
    BY <1>1
  <2> DEFINE nw == Week * (now \div Week)
             rw == Week * (ref \div Week)
             ww == Week * weeks
             nt == TimeOfWeek(now)
             rt == TimeOfWeek(ref)
  <2>4. /\ nw \in Int /\ rw \in Int /\ ww \in Int /\ nt \in Int /\ rt \in Int
        /\ now = nw + nt /\ ref = rw + rt /\ nw - rw = ww
    BY <1>1, <1>2, <2>2, <2>3
  <2> HIDE DEF nw, rw, ww, nt, rt
  <2>5. now - ref = ww + (nt - rt)
    BY <2>4
  <2>6. QED
    BY <2>5 DEF ww, nt, rt
<1>4. /\ age \in {d, d - Week, d + Week}
      /\ -HalfWeek <= age /\ age <= HalfWeek
  BY <1>2, TimeConstants DEF calcTimeFromEpoch, Week
<1>5. \E k \in Int : now - ref = Week * k + age
  <2> HIDE DEF d, age, weeks
  <2>1. CASE age = d
    BY <1>2, <1>3, <2>1
  <2>2. CASE age = d - Week
    <3>1. now - ref = Week * (weeks + 1) + age
      BY <1>2, <1>3, <2>2, TimeConstants DEF Week
    <3>2. QED
      BY <1>2, <3>1
  <2>3. CASE age = d + Week
    <3>1. now - ref = Week * (weeks - 1) + age
      BY <1>2, <1>3, <2>3, TimeConstants DEF Week
    <3>2. QED
      BY <1>2, <3>1
  <2>4. QED
    BY <1>4, <2>1, <2>2, <2>3
<1>6. age \in Int /\ Answer(now, ref).age = age
  BY <1>2, <1>4, TimeConstants DEF Week, Answer
<1>7. QED
  BY <1>4, <1>5, <1>6

(* Within half a week the fold is the age itself.                          *)
LEMMA Exact ==
  ASSUME NEW now \in Nat, NEW ref \in Nat,
         -HalfWeek < now - ref, now - ref < HalfWeek
  PROVE  Answer(now, ref).age = now - ref
<1> DEFINE age == Answer(now, ref).age
<1>1. /\ age \in Int /\ -HalfWeek <= age /\ age <= HalfWeek
      /\ \E k \in Int : now - ref = Week * k + age
  BY Folded
<1>2. PICK k \in Int : now - ref = Week * k + age
  BY <1>1
<1>3. HalfWeek \in Nat \ {0} /\ Week = 2 * HalfWeek
  BY TimeConstants DEF Week
<1> HIDE DEF age
<1>4. Week * k \in Int /\ -Week < Week * k /\ Week * k < Week
  BY <1>1, <1>2, <1>3
<1>5. k \in {-1, 0, 1}
  BY <1>3, <1>4, FewWeeks
<1>6. k = 0
  BY <1>3, <1>4, <1>5
<1>7. QED
  BY <1>1, <1>2, <1>3, <1>6 DEF age
-----------------------------------------------------------------------------
(* The answer remembered is always the answer to its two times.            *)
AnswerInv ==
  /\ clock \in Nat /\ t_oe \in Nat
  /\ \E now, ref \in Nat : t_k = Answer(now, ref)

LEMMA AnswerInvCorrect == Spec => []AnswerInv
<1>1. Init => AnswerInv
  BY TimeConstants DEF Init, AnswerInv, Week
<1>2. AnswerInv /\ [Next]_vars => AnswerInv'
  <2> SUFFICES ASSUME AnswerInv, [Next]_vars PROVE AnswerInv'
    OBVIOUS
  <2>1. CASE Tick
    BY <2>1 DEF Tick, AnswerInv
  <2>2. CASE NewEphemeris
    BY <2>2, TimeConstants DEF NewEphemeris, AnswerInv
  <2>3. CASE calcSatPos
    BY <2>3 DEF calcSatPos, AnswerInv
  <2>4. CASE UNCHANGED vars
    BY <2>4 DEF vars, AnswerInv
  <2>5. QED
    BY <2>1, <2>2, <2>3, <2>4 DEF Next
<1>3. QED
  BY <1>1, <1>2, PTL DEF Spec

(* calcTimeFromEpoch recovers the age of an ephemeris from times of week   *)
(* alone, across rollovers, if it is less than half a week either way.     *)
THEOREM AgeIsExact == Spec => []AgeExact
<1>1. AnswerInv => AgeExact
  <2> SUFFICES ASSUME NEW now \in Nat, NEW ref \in Nat, t_k = Answer(now, ref)
               PROVE  AgeExact
    BY DEF AnswerInv
  <2>1. t_k.now = now /\ t_k.ref = ref
    BY DEF Answer
  <2>2. QED
    BY <2>1, Exact DEF AgeExact
<1>2. QED
  BY <1>1, AnswerInvCorrect, PTL

(* A number that differs by whole weeks leaves no remainder.               *)
LEMMA WholeWeeks ==
  ASSUME NEW k \in Int
  PROVE  (Week * k) % Week = 0
<1>1. Week \in Nat \ {0}
  BY TimeConstants DEF Week
<1> HIDE DEF Week
<1>2. QED
  BY <1>1, Z3

(* However old the ephemeris, the age taken for it is within half a week   *)
(* and off by whole weeks only.                                            *)
THEOREM AgeIsFolded == Spec => []AgeWithinHalfWeek
<1>1. AnswerInv => AgeWithinHalfWeek
  <2> SUFFICES ASSUME NEW now \in Nat, NEW ref \in Nat, t_k = Answer(now, ref)
               PROVE  AgeWithinHalfWeek
    BY DEF AnswerInv
  <2> DEFINE age == Answer(now, ref).age
  <2>1. t_k.now = now /\ t_k.ref = ref /\ t_k.age = age
    BY DEF Answer
  <2>2. PICK k \in Int : now - ref = Week * k + age
    BY Folded
  <2>3. age \in Int /\ -HalfWeek <= age /\ age <= HalfWeek
    BY Folded
  <2> HIDE DEF age
  <2>4. age - (now - ref) = Week * (-k)
    BY <2>2, <2>3, TimeConstants DEF Week
  <2>5. (age - (now - ref)) % Week = 0
    BY <2>4, WholeWeeks
  <2>6. QED
    BY <2>1, <2>3, <2>5 DEF AgeWithinHalfWeek
<1>2. QED
  BY <1>1, AnswerInvCorrect, PTL

(* Both together: whatever the clock and the ephemeris, its age is right    *)
(* within half a week and folded by whole weeks beyond.                     *)
THEOREM AgeIsCorrect == Spec => []AgeCorrect
<1>1. AgeExact /\ AgeWithinHalfWeek => AgeCorrect
  BY DEF AgeCorrect
<1>2. QED
  BY <1>1, AgeIsExact, AgeIsFolded, PTL
=============================================================================
