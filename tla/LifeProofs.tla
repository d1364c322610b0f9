----------------------------- MODULE LifeProofs -----------------------------
(***************************************************************************)
(* Proofs about what the user works on: the tasks (TaskLife), a learning     *)
(* path and a recall card (LearningPath) and a skill (GoalsAndProjects).     *)
(***************************************************************************)
EXTENDS TaskLife, LearningPath, GoalsAndProjects, FiniteSetTheorems, WellFoundedInduction, TLAPS

-----------------------------------------------------------------------------
(***************************************************************************)
(* Proofs about the card.  Its repetitions are the recalls in a row, and    *)
(* they say how long its interval is at least while it is in the queue:     *)
(* the ease is never below MinEase, so each recall from the third on        *)
(* multiplies the interval by 1.3 or more, and the eleventh reaches         *)
(* MasteryInterval.  The other way round, the third recall multiplies an    *)
(* interval of six days by an ease that grew by 0.1 a review at most.        *)
(***************************************************************************)

(* The interval a card in the queue has at least, after so many recalls. *)
AtLeast(n) ==
    CASE n = 0 -> 0 [] n = 1 -> 1 [] n = 2 -> 6 [] n = 3 -> 8 [] n = 4 -> 10 [] n = 5 -> 13
      [] n = 6 -> 17 [] n = 7 -> 22 [] n = 8 -> 29 [] n = 9 -> 38 [] OTHER -> 49

Card == [interval : Nat, ease : Nat, reps : Nat, lapses : Nat, status : {"active", "mastered"}]

CardInv ==
    /\ card \in Card /\ streak \in Nat /\ reviews \in Nat
    /\ card.reps = streak /\ streak <= reviews
    /\ card.ease >= MinEase /\ card.ease <= 2500 + 100 * reviews
    /\ card.status = "active" =>
          /\ streak <= 10 /\ AtLeast(streak) <= card.interval
          /\ (streak = 0 => card.interval <= 1) /\ (streak = 1 => card.interval = 1) /\ (streak = 2 => card.interval = 6)
    /\ card.status = "mastered" => streak >= 4 \/ (streak = 3 /\ reviews > 70)

(* What a recall makes of an interval grows with the interval and the ease. *)
Grows(i, e, a) == Round(i * e, 1000) \in Nat /\ 2000 * Round(i * e, 1000) >= 2600 * a - 999
LEMMA RoundGrows ==
    ASSUME NEW i \in Nat, NEW e \in Nat, NEW a \in Nat, i >= a, e >= 1300
    PROVE  Grows(i, e, a)
<1>1. i * e \in Nat /\ i * e >= 1300 * a
  <2>1. i * e \in Nat
    BY Z3
  <2>2. i * (e - 1300) >= 0
    BY Z3
  <2>3. i * (e - 1300) = i * e - 1300 * i
    BY Z3
  <2> QED
    BY <2>1, <2>2, <2>3
<1> DEFINE p == i * e
<1>2. p \in Nat /\ p >= 1300 * a
  BY <1>1
<1> HIDE DEF p
<1>3. (2 * p + 1000) \div 2000 \in Nat /\ 2000 * ((2 * p + 1000) \div 2000) >= 2 * p + 1000 - 1999
  BY <1>2
<1>4. Round(p, 1000) = (2 * p + 1000) \div 2000
  BY DEF Round
<1> QED
  BY <1>2, <1>3, <1>4 DEF p, Grows

(* The ease never leaves its bounds by more than a tenth. *)
LEMMA EaseBounds ==
    ASSUME NEW e \in Nat, e >= MinEase, NEW q \in 0..5
    PROVE  /\ EaseAfter(e, q) \in Nat /\ EaseAfter(e, q) >= MinEase /\ EaseAfter(e, q) <= e + 100
           /\ Max({MinEase, e - 200}) \in Nat /\ Max({MinEase, e - 200}) >= MinEase /\ Max({MinEase, e - 200}) <= e
<1>1. ASSUME NEW x \in Int, NEW y \in Int
      PROVE  Max({x, y}) \in {x, y} /\ Max({x, y}) >= x /\ Max({x, y}) >= y
  <2>1. \E m \in {x, y} : \A z \in {x, y} : m >= z
    BY <1>1
  <2>2. Max({x, y}) = CHOOSE m \in {x, y} : \A z \in {x, y} : m >= z
    BY DEF Max
  <2> QED
    BY <1>1, <2>1, <2>2
<1>2. (5 - q) * (80 + (5 - q) * 20) \in Int /\ (5 - q) * (80 + (5 - q) * 20) >= 0
  <2>1. q \in {0, 1, 2, 3, 4, 5}
    OBVIOUS
  <2> QED
    BY <2>1
<1> DEFINE x == e + 100 - (5 - q) * (80 + (5 - q) * 20)
<1>3. x \in Int /\ x <= e + 100
  BY <1>2
<1>4. EaseAfter(e, q) = Max({MinEase, x})
  BY DEF EaseAfter
<1> HIDE DEF x
<1>5. EaseAfter(e, q) \in {MinEase, x} /\ EaseAfter(e, q) >= MinEase
  <2>1. MinEase \in Int
    BY DEF MinEase
  <2>2. Max({MinEase, x}) \in {MinEase, x} /\ Max({MinEase, x}) >= MinEase
    BY <1>1, <1>3, <2>1
  <2> QED
    BY <1>4, <2>2
<1>6. Max({MinEase, e - 200}) \in {MinEase, e - 200} /\ Max({MinEase, e - 200}) >= MinEase
  BY <1>1 DEF MinEase
<1> QED
  BY <1>3, <1>5, <1>6 DEF MinEase

LEMMA CardStep ==
    ASSUME CardInv, NEW q \in 0..5, gradeReview(q)
    PROVE  CardInv'
<1> USE DEF Card
<1>1. card.interval \in Nat /\ card.ease \in Nat /\ card.reps = streak /\ card.lapses \in Nat /\ card.status = "active"
  BY DEF CardInv, gradeReview
<1>2. reviews \in Nat /\ reviews' = reviews + 1 /\ streak \in Nat
  BY DEF CardInv, gradeReview
<1>3. CASE q < 3
  <2> DEFINE e == Max({MinEase, card.ease - 200})
  <2>1. e \in Nat /\ e >= MinEase /\ e <= card.ease
    BY <1>1, EaseBounds DEF CardInv
  <2>2. /\ card' = [interval |-> 1, ease |-> e, reps |-> 0, lapses |-> card.lapses + 1, status |-> "active"]
        /\ streak' = 0
    BY <1>3, <1>1 DEF gradeReview, sm2, MasteryInterval
  <2> HIDE DEF e
  <2> QED
    BY <1>1, <1>2, <2>1, <2>2 DEF CardInv, AtLeast
<1>4. CASE ~(q < 3)
  <2> DEFINE e == EaseAfter(card.ease, q)
             r == Round(card.interval * card.ease, 1000)
             i == IF streak = 0 THEN 1 ELSE IF streak = 1 THEN 6 ELSE Max({1, r})
  <2>1. e \in Nat /\ e >= MinEase /\ e <= card.ease + 100
    <3>1. card.ease \in Nat /\ card.ease >= MinEase
      BY <1>1 DEF CardInv
    <3> QED
      BY <3>1, EaseBounds
  <2>2. /\ card' = [interval |-> i, ease |-> e, reps |-> streak + 1, lapses |-> card.lapses,
                    status |-> IF i >= MasteryInterval THEN "mastered" ELSE "active"]
        /\ streak' = streak + 1
    BY <1>4, <1>1 DEF gradeReview, sm2
  <2>3. streak <= 10 /\ AtLeast(streak) \in Nat /\ AtLeast(streak) <= card.interval /\ card.ease >= 1300
    BY <1>1, <1>2 DEF CardInv, MinEase, AtLeast
  <2>4. r \in Nat /\ 2000 * r >= 2600 * AtLeast(streak) - 999
    <3>1. card.interval \in Nat /\ card.ease \in Nat /\ AtLeast(streak) \in Nat /\ card.interval >= AtLeast(streak) /\ card.ease >= 1300
      BY <1>1, <2>3
    <3> DEFINE a == AtLeast(streak)
    <3>2. card.interval \in Nat /\ card.ease \in Nat /\ a \in Nat /\ card.interval >= a /\ card.ease >= 1300
      BY <3>1
    <3> HIDE DEF a
    <3>3. Round(card.interval * card.ease, 1000) \in Nat /\ 2000 * Round(card.interval * card.ease, 1000) >= 2600 * a - 999
      <4>1. Grows(card.interval, card.ease, a)
        BY <3>2, RoundGrows
      <4> QED
        BY <4>1 DEF Grows
    <3> QED
      BY <3>3 DEF a
  <2>5. streak = 2 => r < MasteryInterval \/ reviews >= 74
    <3>1. SUFFICES ASSUME streak = 2 PROVE r < MasteryInterval \/ reviews >= 74
      OBVIOUS
    <3>2. card.interval = 6 /\ card.ease <= 2500 + 100 * reviews
      BY <1>1, <3>1 DEF CardInv
    <3>3. r = (2 * (6 * card.ease) + 1000) \div 2000
      BY <3>2 DEF Round
    <3> QED
      BY <1>1, <1>2, <3>2, <3>3 DEF MasteryInterval
  <2> HIDE DEF e, r
  <2>6. Max({1, r}) \in {1, r} /\ Max({1, r}) >= r /\ Max({1, r}) >= 1
    <3>1. \E m \in {1, r} : \A z \in {1, r} : m >= z
      BY <2>4
    <3>2. Max({1, r}) = CHOOSE m \in {1, r} : \A z \in {1, r} : m >= z
      BY DEF Max
    <3> QED
      BY <2>4, <3>1, <3>2
  <2>7. /\ i \in Nat
        /\ i < MasteryInterval => streak + 1 <= 10 /\ AtLeast(streak + 1) <= i
        /\ (streak = 0 => i = 1) /\ (streak = 1 => i = 6)
        /\ i >= MasteryInterval => streak >= 2 /\ (streak = 2 => reviews >= 74)
    BY <1>2, <2>3, <2>4, <2>5, <2>6 DEF AtLeast, MasteryInterval
  <2> HIDE DEF i
  <2>8. card'.ease <= 2500 + 100 * reviews' /\ streak + 1 <= reviews'
    BY <1>1, <1>2, <2>1, <2>2 DEF CardInv
  <2>9. card' \in Card
    BY <1>1, <1>2, <2>1, <2>2, <2>7
  <2>10. card'.reps = streak' /\ card'.ease >= MinEase
    BY <2>1, <2>2
  <2>11. card'.status = "active" => /\ streak' <= 10 /\ AtLeast(streak') <= card'.interval
                                    /\ (streak' = 0 => card'.interval <= 1) /\ (streak' = 1 => card'.interval = 1)
                                    /\ (streak' = 2 => card'.interval = 6)
    <3>1. SUFFICES ASSUME card'.status = "active" PROVE i < MasteryInterval
      BY <1>2, <2>2, <2>7
    <3> QED
      BY <2>2, <2>7, <3>1 DEF MasteryInterval
  <2>12. card'.status = "mastered" => streak' >= 4 \/ (streak' = 3 /\ reviews' > 70)
    <3>1. SUFFICES ASSUME card'.status = "mastered" PROVE i >= MasteryInterval
      BY <1>2, <2>2, <2>7
    <3> QED
      BY <2>2, <2>7, <3>1
  <2>13. streak' \in Nat /\ reviews' \in Nat /\ streak' <= reviews' /\ card'.ease <= 2500 + 100 * reviews'
    BY <1>2, <2>2, <2>8
  <2> QED
    BY <2>9, <2>10, <2>11, <2>12, <2>13 DEF CardInv, AtLeast
<1> QED
  BY <1>3, <1>4

(* A card is mastered after enough recalls in a row, neither before nor never, *)
(* however often it is reviewed (sm2 and gradeReview, learning.ts 52-66 and     *)
(* 250-268).                                                                    *)
THEOREM RecallSafety == CardSpec => []RecallIsEarned
<1>1. CardInit => CardInv
  BY DEF CardInit, CardInv, NewCard, Card, AtLeast, MinEase
<1>2. CardInv /\ [CardNext]_cardVars => CardInv'
  <2>1. ASSUME CardInv, CardNext PROVE CardInv'
    BY <2>1, CardStep DEF CardNext
  <2>2. ASSUME CardInv, UNCHANGED cardVars PROVE CardInv'
    BY <2>2 DEF cardVars, CardInv, AtLeast
  <2> QED
    BY <2>1, <2>2
<1>3. CardInv => RecallIsEarned
  BY DEF CardInv, RecallIsEarned, MasteredIsEarned, RecallEndsInMastery, Card
<1> QED
  BY <1>1, <1>2, <1>3, PTL DEF CardSpec

-----------------------------------------------------------------------------
(***************************************************************************)
(* Proofs about a learning path.  First its arithmetic: the mean of what    *)
(* lies between 0 and 100 lies there too, rounded or not.                    *)
(***************************************************************************)
LEMMA RoundBounds ==
  ASSUME NEW num \in Nat, NEW den \in Nat \ {0}, num <= 100 * den
  PROVE  Round(num, den) \in 0..100 /\ (num = 0 => Round(num, den) = 0)
<1> DEFINE a == 2 * num + den
           b == 2 * den
           q == a \div b
<1>1. a \in Nat /\ b \in Nat \ {0} /\ a < 101 * b /\ a >= 0 /\ (num = 0 => a < b)
  OBVIOUS
<1> HIDE DEF a, b
<1>2. q \in Int /\ b * q <= a /\ a < b * q + b
  BY <1>1, Z3
<1> HIDE DEF q
<1>3. q >= 0
  <2> SUFFICES ASSUME q <= -1 PROVE FALSE
    BY <1>2
  <2>1. b * (q + 1) <= 0
    BY <1>1, <1>2, Z3
  <2>2. b * (q + 1) = b * q + b
    BY <1>1, <1>2, Z3
  <2> QED
    BY <1>1, <1>2, <2>1, <2>2
<1>4. q <= 100
  <2> SUFFICES ASSUME q >= 101 PROVE FALSE
    BY <1>2
  <2>1. b * (q - 101) >= 0
    BY <1>1, <1>2, Z3
  <2>2. b * (q - 101) = b * q - 101 * b
    BY <1>1, <1>2, Z3
  <2> QED
    BY <1>1, <1>2, <2>1, <2>2
<1>5. num = 0 => q <= 0
  <2> SUFFICES ASSUME q >= 1, num = 0 PROVE FALSE
    BY <1>2
  <2>1. b * (q - 1) >= 0
    BY <1>1, <1>2, Z3
  <2>2. b * (q - 1) = b * q - b
    BY <1>1, <1>2, Z3
  <2> QED
    BY <1>1, <1>2, <2>1, <2>2
<1> QED
  BY <1>2, <1>3, <1>4, <1>5 DEF Round, q, a, b

(* A set of naturals has a least element. *)
LEMMA HasMin ==
  ASSUME NEW S \in SUBSET Nat, S # {}
  PROVE  Min(S) \in S /\ \A j \in S : Min(S) <= j
<1>1. IsWellFoundedOn(OpToRel(<, Nat), Nat)
  BY NatLessThanWellFounded
<1>2. PICK i \in S : \A j \in S : ~(<<j, i>> \in OpToRel(<, Nat))
  BY <1>1, WFMin
<1>3. \A j \in S : ~(j < i)
  BY <1>2 DEF OpToRel
<1>4. \A j \in S : i <= j
  BY <1>3
<1>5. Min(S) = CHOOSE m \in S : \A j \in S : m <= j
  BY DEF Min
<1> QED
  BY <1>4, <1>5

(* Induction up to a bound. *)
LEMMA UpTo ==
  ASSUME NEW n \in Nat, NEW T, 0 \in T, \A k \in 1..n : k - 1 \in T => k \in T
  PROVE  0..n \subseteq T
<1> DEFINE S == {k \in 0..n : k \notin T}
<1> SUFFICES ASSUME S # {} PROVE FALSE
  OBVIOUS
<1>1. Min(S) \in S /\ \A j \in S : Min(S) <= j
  BY HasMin, S \subseteq Nat
<1>2. Min(S) \in 1..n /\ Min(S) - 1 \in 0..n
  BY <1>1
<1>3. Min(S) - 1 \in T
  BY <1>1, <1>2
<1> HIDE DEF S
<1>4. Min(S) \in T
  BY <1>2, <1>3
<1> QED
  BY <1>1, <1>4 DEF S

(* Total is what adding one topic after the other gives. *)
Adds(s, f, n) == /\ s \in [0..n -> Nat] /\ s[0] = 0
                 /\ \A k \in 1..n : s[k] = s[k - 1] + f[k]
LEMMA AddsUp ==
  ASSUME LearningAssumption, NEW f \in [Topics -> Nat]
  PROVE  \E s : Adds(s, f, Len(Estimate)) /\ Total(f) = s[Len(Estimate)]
<1> DEFINE n == Len(Estimate)
<1>1. n \in Nat /\ Topics = 1..n
  BY DEF LearningAssumption, Topics
<1> HIDE DEF n
<1> DEFINE T == {m \in 0..n : \E s : Adds(s, f, m)}
<1>2. 0 \in T
  <2>1. Adds([k \in 0..0 |-> 0], f, 0)
    BY DEF Adds
  <2> QED
    BY <1>1, <2>1
<1>3. ASSUME NEW m \in 1..n, m - 1 \in T PROVE m \in T
  <2>1. PICK s : Adds(s, f, m - 1)
    BY <1>3
  <2> DEFINE g == [k \in 0..m |-> IF k = m THEN s[m - 1] + f[m] ELSE s[k]]
  <2>2. s[m - 1] + f[m] \in Nat
    BY <1>1, <2>1 DEF Adds
  <2>3. g \in [0..m -> Nat] /\ g[0] = 0
    BY <2>1, <2>2 DEF Adds
  <2>4. ASSUME NEW k \in 1..m PROVE g[k] = g[k - 1] + f[k]
    <3>1. CASE k = m
      BY <3>1
    <3>2. CASE k # m
      <4>1. k \in 1..m - 1 /\ k - 1 \in 0..m - 1
        BY <3>2
      <4> QED
        BY <2>1, <4>1 DEF Adds
    <3> QED
      BY <3>1, <3>2
  <2> HIDE DEF g
  <2>5. Adds(g, f, m)
    BY <2>3, <2>4 DEF Adds
  <2> QED
    BY <2>5
<1> HIDE DEF T
<1>4. PICK s : Adds(s, f, n)
  <2>1. 0..n \subseteq T
    BY <1>1, <1>2, <1>3, UpTo
  <2>2. n \in T
    BY <1>1, <2>1
  <2> QED
    BY <2>2 DEF T
<1> DEFINE sum[t \in 0..Len(Estimate)] == IF t = 0 THEN 0 ELSE sum[t - 1] + f[t]
<1>5. s = [t \in 0..n |-> IF t = 0 THEN 0 ELSE s[t - 1] + f[t]]
  BY <1>1, <1>4 DEF Adds
<1>6. sum = [t \in 0..n |-> IF t = 0 THEN 0 ELSE sum[t - 1] + f[t]]
  BY <1>5 DEF n
<1>7. Total(f) = sum[n]
  BY DEF Total, n
<1> HIDE DEF sum
<1>8. Adds(sum, f, n)
  <2> DEFINE T2 == {k \in 0..n : sum[k] \in Nat}
  <2>1. 0 \in T2
    BY <1>1, <1>6
  <2>2. ASSUME NEW k \in 1..n, k - 1 \in T2 PROVE k \in T2
    <3>1. sum[k] = sum[k - 1] + f[k]
      BY <1>1, <1>6
    <3> QED
      BY <1>1, <2>2, <3>1
  <2> HIDE DEF T2
  <2>3. 0..n \subseteq T2
    BY <1>1, <2>1, <2>2, UpTo
  <2>4. \A k \in 0..n : sum[k] \in Nat
    BY <2>3 DEF T2
  <2>5. sum \in [0..n -> Nat]
    BY <1>6, <2>4
  <2>6. sum[0] = 0 /\ \A k \in 1..n : sum[k] = sum[k - 1] + f[k]
    BY <1>1, <1>6
  <2> QED
    BY <2>5, <2>6 DEF Adds
<1> QED
  BY <1>7, <1>8 DEF n

(* The progress of a path is a percentage, and nothing at first. *)
LEMMA ProgressBounds ==
  ASSUME LearningAssumption, NEW rows \in [Topics -> TopicRow]
  PROVE  PathProgress(rows) \in 0..100 /\ ((\A t \in Topics : rows[t].progress = 0) => PathProgress(rows) = 0)
<1> DEFINE n == Len(Estimate)
           f == [t \in Topics |-> Estimate[t] * rows[t].progress]
<1>1. n \in Nat \ {0} /\ Topics = 1..n /\ Estimate \in [Topics -> Nat \ {0}]
  BY DEF LearningAssumption, Topics
<1>2. ASSUME NEW t \in Topics
      PROVE  f[t] \in Nat /\ f[t] <= 100 * Estimate[t] /\ (rows[t].progress = 0 => f[t] = 0)
  <2> DEFINE e == Estimate[t]
             p == rows[t].progress
  <2>1. e \in Nat /\ p \in 0..100
    BY <1>1 DEF TopicRow
  <2>2. f[t] = e * p
    OBVIOUS
  <2> HIDE DEF e, p, f
  <2>3. e * p \in Nat /\ e * (100 - p) >= 0 /\ e * (100 - p) = e * 100 - e * p /\ (p = 0 => e * p = 0)
    BY <2>1, Z3
  <2>4. f[t] \in Nat /\ f[t] <= 100 * e /\ (p = 0 => f[t] = 0)
    BY <2>1, <2>2, <2>3
  <2> QED
    BY <2>4 DEF e, p
<1>3. f \in [Topics -> Nat] /\ Estimate \in [Topics -> Nat]
  BY <1>1, <1>2
<1> HIDE DEF f
<1>4. PICK s : Adds(s, f, n) /\ Total(f) = s[n]
  BY <1>3, AddsUp
<1>5. PICK r : Adds(r, Estimate, n) /\ Total(Estimate) = r[n]
  BY <1>3, AddsUp
<1> HIDE DEF n
<1> DEFINE Bound(k) == /\ s[k] \in Nat /\ r[k] \in Nat /\ s[k] <= 100 * r[k] /\ r[k] >= k
                       /\ ((\A t \in Topics : rows[t].progress = 0) => s[k] = 0)
           T == {k \in 0..n : Bound(k)}
<1>6. 0 \in T
  BY <1>1, <1>4, <1>5 DEF Adds
<1>7. ASSUME NEW k \in 1..n, k - 1 \in T PROVE k \in T
  <2>1. Bound(k - 1)
    BY <1>7
  <2>2. s[k] = s[k - 1] + f[k] /\ r[k] = r[k - 1] + Estimate[k]
    BY <1>4, <1>5 DEF Adds
  <2>3. f[k] \in Nat /\ f[k] <= 100 * Estimate[k] /\ (rows[k].progress = 0 => f[k] = 0) /\ Estimate[k] \in Nat \ {0}
    BY <1>1, <1>2
  <2> DEFINE a == s[k - 1]
             b == r[k - 1]
             x == f[k]
             e == Estimate[k]
  <2>4. s[k] \in Nat /\ r[k] \in Nat /\ s[k] <= 100 * r[k] /\ r[k] >= k
    <3>1. a \in Nat /\ b \in Nat /\ a <= 100 * b /\ b >= k - 1
      BY <2>1
    <3>2. x \in Nat /\ e \in Nat \ {0} /\ x <= 100 * e /\ k \in Nat
      BY <1>1, <2>3
    <3>3. s[k] = a + x /\ r[k] = b + e
      BY <2>2
    <3> HIDE DEF a, b, x, e
    <3> QED
      BY <3>1, <3>2, <3>3
  <2>5. (\A t \in Topics : rows[t].progress = 0) => s[k] = 0
    BY <1>1, <2>1, <2>2, <2>3
  <2> QED
    BY <2>4, <2>5
<1> HIDE DEF T
<1>8. n \in T
  <2>1. 0..n \subseteq T
    BY <1>1, <1>6, <1>7, UpTo
  <2> QED
    BY <1>1, <2>1
<1>9. Bound(n) /\ r[n] \in Nat \ {0}
  <2>1. Bound(n)
    BY <1>8 DEF T
  <2>2. r[n] \in Nat /\ r[n] >= n
    BY <2>1
  <2>3. r[n] \in Nat \ {0}
    BY <1>1, <2>2
  <2> QED
    BY <2>1, <2>3
<1>10. PathProgress(rows) = Round(s[n], r[n])
  BY <1>4, <1>5 DEF PathProgress, f
<1> QED
  BY <1>9, <1>10, RoundBounds
-----------------------------------------------------------------------------
(***************************************************************************)
(* The invariant of a path.  What a call has read and will write may be      *)
(* written, since what was done once stays on record; what could be unlocked *)
(* some call is about to unlock; and while calls come one after the other,   *)
(* what the only one has read is what there is.                              *)
(***************************************************************************)
RowOfPath == [status : {"active", "completed"}, progress : 0..100]
EntryCall == [step : {"entry"}, kind : {"record"}, topic : Topics, was : TopicRow]
RowCall == [step : {"row"}, kind : {"complete", "reopen", "record"}, topic : Topics, was : TopicRow]
UnlockCall == [step : {"unlock"}, topic : Topics]
EachCall == [step : {"each"}, todo : SUBSET Topics]
SumCall == [step : {"sum"}]
PathCall == [step : {"path"}, row : RowOfPath]
Called(k) ==
    \/ k = NoCall \/ k \in EntryCall \/ k \in RowCall \/ k \in UnlockCall
    \/ k \in EachCall \/ k \in SumCall \/ k \in PathCall

(* A topic may be offered, given what was done. *)
Earned(t, needs, ever) == t = 1 \/ t \in ever \/ (ever # {} /\ needs[t] \subseteq ever)

CallSound(k, needs, ever) ==
    /\ k.step \in {"entry", "row"} =>
         /\ k.was.status = "available" => Earned(k.topic, needs, ever)
         /\ k.topic = 1 => k.was.status # "pending"
         /\ k.kind = "reopen" => k.topic \in ever
    /\ k.step = "unlock" => k.topic \in ever
    /\ k.step = "each" => \A t \in k.todo : Earned(t, needs, ever)

(* The call will list the topic, or has listed it and will unlock it. *)
Unlocks(k, t) == k.step = "unlock" \/ (k.step = "each" /\ t \in k.todo)

RowsTyped ==
    /\ topic \in [Topics -> TopicRow] /\ path \in RowOfPath
    /\ entries \in [Topics -> [n : Nat, minutes : Nat, scored : BOOLEAN]]
    /\ \A t \in Topics : entries[t].minutes <= Estimate[t]
    /\ deps \in Dependencies /\ everDone \subseteq Topics /\ relocked \subseteq Topics
    /\ disturbed \in BOOLEAN /\ learnCrashes \in Nat
CallsTyped == call = [c \in Callers |-> call[c]] /\ \A c \in Callers : Called(call[c])

CallsSound == \A c \in Callers : CallSound(call[c], deps, everDone)

RowsSound ==
    /\ DoneTopics \subseteq everDone
    /\ 1 \notin relocked /\ topic[1].status # "pending"
    /\ \A t \in Topics : topic[t].status = "available" => Earned(t, deps, everDone)

UnlocksFollow ==
    learnCrashes = 0 /\ everDone # {} =>
      \A t \in Topics \ relocked :
         topic[t].status = "pending" /\ deps[t] \subseteq DoneTopics => \E c \in Callers : Unlocks(call[c], t)

OneCall ==
    ~disturbed =>
      /\ \A c, d \in Callers : call[c] # NoCall /\ call[d] # NoCall => c = d
      /\ \A c \in Callers : /\ call[c].step \in {"entry", "row"} => call[c].was = topic[call[c].topic]
                            /\ call[c].step = "path" => call[c].row.progress = PathProgress(topic)
      /\ Idle => path.progress = PathProgress(topic)

PathInv == RowsTyped /\ CallsTyped /\ CallsSound /\ RowsSound /\ UnlocksFollow /\ OneCall

LEMMA TopicsAre == LearningAssumption => /\ 1 \in Topics /\ Estimate \in [Topics -> Nat \ {0}]
                                         /\ Dependencies \subseteq [Topics -> SUBSET Nat]
  BY DEF LearningAssumption, Topics

LEMMA SoundLater ==
  ASSUME NEW k, NEW needs, NEW ever, NEW later, CallSound(k, needs, ever), ever \subseteq later
  PROVE  CallSound(k, needs, later)
<1>1. \A t : Earned(t, needs, ever) => Earned(t, needs, later)
  BY DEF Earned
<1> QED
  BY <1>1 DEF CallSound

LEMMA CallWrites ==
  ASSUME CallsTyped, NEW c \in Callers, NEW x, Goes(c, x)
  PROVE  /\ call'[c] = x /\ \A d \in Callers : d # c => call'[d] = call[d]
         /\ call' = [d \in Callers |-> call'[d]]
  BY DEF CallsTyped, Goes

LEMMA CallsStay ==
  ASSUME PathInv, NEW c \in Callers, NEW x, Goes(c, x), Called(x), deps' = deps,
         everDone \subseteq everDone', CallSound(x, deps, everDone')
  PROVE  CallsTyped' /\ CallsSound'
<1>1. /\ call'[c] = x /\ \A d \in Callers : d # c => call'[d] = call[d]
      /\ call' = [d \in Callers |-> call'[d]]
  BY CallWrites DEF PathInv
<1>2. ASSUME NEW d \in Callers PROVE Called(call'[d]) /\ CallSound(call'[d], deps, everDone')
  <2>1. CASE d = c
    BY <1>1, <2>1
  <2>2. CASE d # c
    <3>1. Called(call[d]) /\ CallSound(call[d], deps, everDone)
      BY DEF PathInv, CallsTyped, CallsSound
    <3> QED
      BY <1>1, <2>2, <3>1, SoundLater
  <2> QED
    BY <2>1, <2>2
<1>3. CallsTyped'
  BY <1>1, <1>2 DEF CallsTyped, Called, NoCall
<1> QED
  BY <1>2, <1>3 DEF CallsSound

LEMMA FollowsOn ==
  ASSUME PathInv, NEW c \in Callers, NEW x, Goes(c, x), learnCrashes' = learnCrashes, deps' = deps,
         \A t \in Topics \ relocked' :
            topic'[t].status = "pending" /\ deps[t] \subseteq DoneTopics' /\ everDone' # {} =>
              \/ Unlocks(x, t)
              \/ /\ everDone # {} /\ t \notin relocked /\ topic[t].status = "pending" /\ deps[t] \subseteq DoneTopics
                 /\ ~Unlocks(call[c], t)
  PROVE  UnlocksFollow'
<1>1. call'[c] = x /\ \A d \in Callers : d # c => call'[d] = call[d]
  BY CallWrites DEF PathInv
<1> SUFFICES ASSUME learnCrashes' = 0, everDone' # {}, NEW t \in Topics \ relocked',
                    topic'[t].status = "pending", deps'[t] \subseteq DoneTopics'
             PROVE  \E d \in Callers : Unlocks(call'[d], t)
  BY DEF UnlocksFollow
<1>2. CASE Unlocks(x, t)
  BY <1>1, <1>2
<1>3. CASE ~Unlocks(x, t)
  <2>1. /\ everDone # {} /\ t \notin relocked /\ topic[t].status = "pending" /\ deps[t] \subseteq DoneTopics
        /\ ~Unlocks(call[c], t)
    BY <1>3
  <2>2. PICK d \in Callers : Unlocks(call[d], t)
    BY <2>1 DEF PathInv, UnlocksFollow
  <2> QED
    BY <1>1, <2>1, <2>2
<1> QED
  BY <1>2, <1>3

LEMMA Alone ==
  ASSUME PathInv, NEW c \in Callers, call[c].step # "none", ~disturbed
  PROVE  \A d \in Callers : d # c => call[d] = NoCall
  BY DEF PathInv, OneCall, NoCall

LEMMA OneCallOn ==
  ASSUME PathInv, NEW c \in Callers, NEW x, Goes(c, x),
         ~disturbed' => /\ \A d \in Callers : d # c => call[d] = NoCall
                        /\ x.step \in {"entry", "row"} => x.was = topic'[x.topic]
                        /\ x.step = "path" => x.row.progress = PathProgress(topic')
                        /\ x = NoCall => path'.progress = PathProgress(topic')
  PROVE  OneCall'
<1>1. call'[c] = x /\ \A d \in Callers : d # c => call'[d] = call[d]
  BY CallWrites DEF PathInv
<1> SUFFICES ASSUME ~disturbed' PROVE OneCall'
  BY DEF OneCall
<1>2. \A d \in Callers : d # c => call'[d] = NoCall
  BY <1>1
<1>3. \A d, e \in Callers : call'[d] # NoCall /\ call'[e] # NoCall => d = e
  BY <1>2
<1>4. ASSUME NEW d \in Callers
      PROVE  /\ call'[d].step \in {"entry", "row"} => call'[d].was = topic'[call'[d].topic]
             /\ call'[d].step = "path" => call'[d].row.progress = PathProgress(topic')
  <2>1. CASE d = c
    BY <1>1, <2>1
  <2>2. CASE d # c
    BY <1>2, <2>2 DEF NoCall
  <2> QED
    BY <2>1, <2>2
<1>5. Idle' => path'.progress = PathProgress(topic')
  BY <1>1 DEF Idle
<1> QED
  BY <1>3, <1>4, <1>5 DEF OneCall, NoCall

(* A call in a step has the fields of that step. *)
LEMMA CallFields ==
  ASSUME NEW k, Called(k)
  PROVE  /\ k.step = "entry" => k \in EntryCall
         /\ k.step = "row" => k \in RowCall
         /\ k.step = "unlock" => k \in UnlockCall
         /\ k.step = "each" => k \in EachCall
         /\ k.step = "sum" => k \in SumCall
         /\ k.step = "path" => k \in PathCall
  BY DEF Called, NoCall, EntryCall, RowCall, UnlockCall, EachCall, SumCall, PathCall

LEMMA RecordedBounds ==
  ASSUME LearningAssumption, RowsTyped, NEW t \in Topics, NEW was \in TopicRow
  PROVE  Recorded(t, was) \in 0..100 /\ Recorded(t, was) >= was.progress
<1> DEFINE m == entries[t].minutes
           e == Estimate[t]
           num == 60 * m + (IF entries[t].scored THEN 40 * e ELSE 0)
           r == Round(num, e)
           p == was.progress
<1>1. m \in Nat /\ e \in Nat \ {0} /\ m <= e /\ p \in 0..100
  BY TopicsAre DEF RowsTyped, TopicRow
<1>2. Recorded(t, was) = Max({p, r})
  BY DEF Recorded
<1> HIDE DEF m, e, r, p
<1>3. num \in Nat /\ num <= 100 * e
  BY <1>1
<1> HIDE DEF num
<1>4. r \in 0..100
  BY <1>1, <1>3, RoundBounds DEF r
<1>5. \E x \in {p, r} : \A y \in {p, r} : x >= y
  BY <1>1, <1>4
<1>6. Max({p, r}) = CHOOSE x \in {p, r} : \A y \in {p, r} : x >= y
  BY DEF Max
<1>7. Max({p, r}) \in {p, r} /\ Max({p, r}) >= p
  BY <1>5, <1>6
<1> QED
  BY <1>1, <1>2, <1>4, <1>7 DEF p

LEMMA LesserOfTwo ==
  ASSUME NEW a \in Nat, NEW b \in Nat
  PROVE  Min({a, b}) \in Nat /\ Min({a, b}) <= a
<1>1. {a, b} \in SUBSET Nat /\ {a, b} # {}
  OBVIOUS
<1>2. Min({a, b}) \in {a, b} /\ \A j \in {a, b} : Min({a, b}) <= j
  BY <1>1, HasMin
<1> QED
  BY <1>2

LEMMA PathStarts == ASSUME LearningAssumption, PathInit PROVE PathInv
<1>1. RowsTyped
  <2>1. \A t \in Topics : topic[t] \in TopicRow
    BY DEF PathInit, TopicRow
  <2>2. topic \in [Topics -> TopicRow]
    BY <2>1 DEF PathInit
  <2>3. path \in RowOfPath
    BY DEF PathInit, RowOfPath
  <2>4. entries \in [Topics -> [n : Nat, minutes : Nat, scored : BOOLEAN]] /\ \A t \in Topics : entries[t].minutes <= Estimate[t]
    BY TopicsAre DEF PathInit
  <2> QED
    BY <2>2, <2>3, <2>4 DEF PathInit, RowsTyped
<1>2. CallsTyped /\ \A c \in Callers : call[c] = NoCall
  BY DEF PathInit, CallsTyped, Called
<1>3. CallsSound
  BY <1>2 DEF CallsSound, CallSound, NoCall
<1>4. RowsSound
  <2>1. DoneTopics = {}
    BY DEF PathInit, DoneTopics, Done
  <2>2. \A t \in Topics : topic[t].status = IF t = 1 THEN "available" ELSE "pending"
    BY DEF PathInit
  <2> QED
    BY <2>1, <2>2, TopicsAre DEF PathInit, RowsSound, Earned
<1>5. UnlocksFollow
  BY DEF PathInit, UnlocksFollow
<1>6. OneCall
  <2>1. PathProgress(topic) = 0
    <3>1. topic \in [Topics -> TopicRow] /\ \A t \in Topics : topic[t].progress = 0
      BY <1>1 DEF PathInit, RowsTyped
    <3> QED
      BY <3>1, ProgressBounds
  <2>2. path.progress = 0
    BY DEF PathInit
  <2> QED
    BY <1>2, <2>1, <2>2 DEF OneCall, NoCall
<1> QED
  BY <1>1, <1>2, <1>3, <1>4, <1>5, <1>6 DEF PathInv

(* Nothing but calls and entries changes. *)
LEMMA RowsStay ==
  ASSUME PathInv, UNCHANGED <<topic, deps, everDone, relocked>>
  PROVE  RowsSound'
  BY DEF PathInv, RowsSound, DoneTopics, Done, Earned

LEMMA StartStep ==
  ASSUME LearningAssumption, PathInv, NEW c \in Callers, NEW kind \in {"complete", "reopen", "record"}, NEW t \in Topics,
         Start(c, kind, t)
  PROVE  PathInv'
<1> DEFINE x == [step |-> IF kind = "record" THEN "entry" ELSE "row", kind |-> kind, topic |-> t, was |-> topic[t]]
<1>1. Goes(c, x) /\ UNCHANGED <<topic, deps, entries, path, everDone, relocked, learnCrashes>>
  BY DEF Start, Goes
<1>2. topic[t] \in TopicRow
  BY DEF PathInv, RowsTyped
<1>3. Called(x)
  BY <1>2 DEF Called, EntryCall, RowCall
<1>4. CallSound(x, deps, everDone)
  <2>1. topic[t].status = "available" => Earned(t, deps, everDone)
    BY DEF PathInv, RowsSound
  <2>2. t = 1 => topic[t].status # "pending"
    BY DEF PathInv, RowsSound
  <2>3. kind = "reopen" => t \in everDone
    BY DEF Start, Done, PathInv, RowsSound, DoneTopics
  <2> QED
    BY <2>1, <2>2, <2>3 DEF CallSound
<1>5. CallsTyped' /\ CallsSound'
  BY <1>1, <1>3, <1>4, CallsStay
<1>6. RowsTyped'
  BY <1>1 DEF Start, PathInv, RowsTyped
<1>7. RowsSound'
  BY <1>1, RowsStay
<1>8. UnlocksFollow'
  <2>1. \A u \in Topics : ~Unlocks(call[c], u)
    BY DEF Start, Unlocks, NoCall
  <2>2. DoneTopics' = DoneTopics
    BY <1>1 DEF DoneTopics, Done
  <2> HIDE DEF x
  <2> QED
    BY <1>1, <2>1, <2>2, FollowsOn
<1>9. OneCall'
  <2>1. ~disturbed' => Idle
    BY DEF Start
  <2>2. x.was = topic'[x.topic] /\ x.step # "path" /\ x # NoCall
    BY <1>1 DEF NoCall
  <2> HIDE DEF x
  <2> QED
    BY <1>1, <2>1, <2>2, OneCallOn DEF Idle
<1> QED
  BY <1>5, <1>6, <1>7, <1>8, <1>9 DEF PathInv

LEMMA InsertEntryStep ==
  ASSUME LearningAssumption, PathInv, NEW c \in Callers, InsertEntry(c)
  PROVE  PathInv'
<1> DEFINE k == call[c]
           x == [k EXCEPT !.step = "row"]
           t == k.topic
<1>1. Goes(c, x) /\ UNCHANGED <<topic, deps, path, everDone, relocked, disturbed, learnOps, learnCrashes>> /\ k.step = "entry"
  BY DEF InsertEntry
<1>2. k \in EntryCall /\ t \in Topics
  <2>1. k \in EntryCall
    BY <1>1, CallFields DEF PathInv, CallsTyped
  <2> QED
    BY <2>1 DEF EntryCall
<1>3. x \in RowCall /\ x.step = "row" /\ x.was = k.was /\ x.topic = k.topic /\ x.kind = "record"
  BY <1>2 DEF EntryCall, RowCall
<1>4. CallSound(k, deps, everDone)
  BY DEF PathInv, CallsSound
<1>5. CallSound(x, deps, everDone)
  BY <1>1, <1>3, <1>4 DEF CallSound
<1>6. entries' \in [Topics -> [n : Nat, minutes : Nat, scored : BOOLEAN]] /\ \A u \in Topics : entries'[u].minutes <= Estimate[u]
  <2>1. PICK minutes \in 0..Estimate[t], scored \in BOOLEAN :
           entries' = [entries EXCEPT ![t] =
                         [n |-> @.n + 1, minutes |-> Min({Estimate[t], @.minutes + minutes}), scored |-> @.scored \/ scored]]
    BY DEF InsertEntry
  <2> DEFINE e == entries[t]
             m == Min({Estimate[t], e.minutes + minutes})
             r == [n |-> e.n + 1, minutes |-> m, scored |-> e.scored \/ scored]
  <2>2. e \in [n : Nat, minutes : Nat, scored : BOOLEAN] /\ Estimate[t] \in Nat
    BY <1>2, TopicsAre DEF PathInv, RowsTyped
  <2>3. e.minutes + minutes \in Nat
    <3>1. minutes \in Nat
      BY <2>2
    <3>2. e.minutes \in Nat
      BY <2>2
    <3> HIDE DEF e
    <3> QED
      BY <3>1, <3>2
  <2>4. m \in Nat /\ m <= Estimate[t]
    BY <2>2, <2>3, LesserOfTwo
  <2> HIDE DEF m
  <2>5. r \in [n : Nat, minutes : Nat, scored : BOOLEAN] /\ r.minutes = m
    BY <2>2, <2>4
  <2>6. entries' = [entries EXCEPT ![t] = r]
    BY <2>1 DEF m
  <2> HIDE DEF r
  <2>7. entries \in [Topics -> [n : Nat, minutes : Nat, scored : BOOLEAN]] /\ \A u \in Topics : entries[u].minutes <= Estimate[u]
    BY DEF PathInv, RowsTyped
  <2> QED
    BY <1>2, <2>4, <2>5, <2>6, <2>7
<1> HIDE DEF x
<1>7. CallsTyped' /\ CallsSound'
  BY <1>1, <1>3, <1>5, CallsStay DEF Called
<1>8. RowsTyped'
  BY <1>1, <1>6 DEF PathInv, RowsTyped
<1>9. RowsSound'
  BY <1>1, RowsStay
<1>10. UnlocksFollow'
  <2>1. \A u \in Topics : ~Unlocks(call[c], u)
    BY <1>1 DEF Unlocks
  <2>2. DoneTopics' = DoneTopics
    BY <1>1 DEF DoneTopics, Done
  <2> QED
    BY <1>1, <2>1, <2>2, FollowsOn
<1>11. OneCall'
  <2>1. ~disturbed => k.was = topic[k.topic]
    BY <1>1 DEF PathInv, OneCall
  <2>2. ~disturbed => \A d \in Callers : d # c => call[d] = NoCall
    BY <1>1, Alone
  <2>3. x # NoCall
    BY <1>3 DEF NoCall
  <2> HIDE DEF k
  <2>4. ~disturbed' => x.was = topic'[x.topic]
    BY <1>1, <1>3, <2>1
  <2> QED
    BY <1>1, <1>3, <2>2, <2>3, <2>4, OneCallOn
<1> QED
  BY <1>7, <1>8, <1>9, <1>10, <1>11 DEF PathInv

LEMMA ListStep ==
  ASSUME LearningAssumption, PathInv, NEW c \in Callers, ListDependents(c)
  PROVE  PathInv'
<1> DEFINE t == call[c].topic
           x == [step |-> "each", todo |-> Unlocked(t)]
<1>1. Goes(c, x) /\ UNCHANGED <<topic, deps, entries, path, everDone, relocked, disturbed, learnOps, learnCrashes>> /\ call[c].step = "unlock"
  BY DEF ListDependents
<1>2. t \in everDone
  BY <1>1 DEF PathInv, CallsSound, CallSound
<1>3. Called(x)
  BY DEF Called, EachCall, Unlocked
<1>4. CallSound(x, deps, everDone)
  <2>1. ASSUME NEW u \in Unlocked(t) PROVE Earned(u, deps, everDone)
    BY <1>2 DEF Unlocked, Earned, PathInv, RowsSound
  <2> QED
    BY <2>1 DEF CallSound
<1>5. CallsTyped' /\ CallsSound'
  BY <1>1, <1>3, <1>4, CallsStay
<1>6. RowsTyped'
  BY <1>1 DEF PathInv, RowsTyped
<1>7. RowsSound'
  BY <1>1, RowsStay
<1>8. UnlocksFollow'
  <2>1. DoneTopics' = DoneTopics
    BY <1>1 DEF DoneTopics, Done
  <2>2. ASSUME NEW u \in Topics, topic[u].status = "pending", deps[u] \subseteq DoneTopics PROVE Unlocks(x, u)
    BY <2>2 DEF Unlocks, Unlocked
  <2> HIDE DEF x
  <2> QED
    BY <1>1, <2>1, <2>2, FollowsOn
<1>9. OneCall'
  <2>1. ~disturbed => \A d \in Callers : d # c => call[d] = NoCall
    BY <1>1, Alone
  <2>2. x # NoCall /\ x.step = "each"
    BY DEF NoCall
  <2> HIDE DEF x
  <2> QED
    BY <1>1, <2>1, <2>2, OneCallOn
<1> QED
  BY <1>5, <1>6, <1>7, <1>8, <1>9 DEF PathInv

LEMMA SumUpStep ==
  ASSUME LearningAssumption, PathInv, NEW c \in Callers, SumUp(c)
  PROVE  PathInv'
<1> DEFINE r == PathRow(topic, path.status)
           x == [step |-> "path", row |-> r]
<1>1. Goes(c, x) /\ UNCHANGED <<topic, deps, entries, path, everDone, relocked, disturbed, learnOps, learnCrashes>> /\ call[c].step = "sum"
  BY DEF SumUp
<1>2. r \in RowOfPath /\ r.progress = PathProgress(topic)
  <2>1. PathProgress(topic) \in 0..100
    BY ProgressBounds DEF PathInv, RowsTyped
  <2> QED
    BY <2>1 DEF PathInv, RowsTyped, RowOfPath, PathRow
<1> HIDE DEF r
<1>3. Called(x)
  BY <1>2 DEF Called, PathCall
<1>4. CallSound(x, deps, everDone)
  BY DEF CallSound
<1>5. CallsTyped' /\ CallsSound'
  BY <1>1, <1>3, <1>4, CallsStay
<1>6. RowsTyped'
  BY <1>1 DEF PathInv, RowsTyped
<1>7. RowsSound'
  BY <1>1, RowsStay
<1>8. UnlocksFollow'
  <2>1. \A u \in Topics : ~Unlocks(call[c], u)
    BY <1>1 DEF Unlocks
  <2>2. DoneTopics' = DoneTopics
    BY <1>1 DEF DoneTopics, Done
  <2> HIDE DEF x
  <2> QED
    BY <1>1, <2>1, <2>2, FollowsOn
<1>9. OneCall'
  <2>1. ~disturbed => \A d \in Callers : d # c => call[d] = NoCall
    BY <1>1, Alone
  <2>2. x # NoCall /\ x.step = "path" /\ x.row = r
    BY DEF NoCall
  <2> HIDE DEF x
  <2> QED
    BY <1>1, <1>2, <2>1, <2>2, OneCallOn
<1> QED
  BY <1>5, <1>6, <1>7, <1>8, <1>9 DEF PathInv

LEMMA WritePathStep ==
  ASSUME LearningAssumption, PathInv, NEW c \in Callers, WritePath(c)
  PROVE  PathInv'
<1>1. Goes(c, NoCall) /\ UNCHANGED <<topic, deps, entries, everDone, relocked, disturbed, learnOps, learnCrashes>> /\ call[c].step = "path"
  BY DEF WritePath
<1>2. path' = call[c].row /\ path' \in RowOfPath
  <2>1. call[c] \in PathCall
    BY <1>1, CallFields DEF PathInv, CallsTyped
  <2> QED
    BY <2>1 DEF WritePath, PathCall
<1>3. CallsTyped' /\ CallsSound'
  <2>1. Called(NoCall) /\ CallSound(NoCall, deps, everDone)
    BY DEF Called, CallSound, NoCall
  <2> QED
    BY <1>1, <2>1, CallsStay
<1>4. RowsTyped'
  BY <1>1, <1>2 DEF PathInv, RowsTyped
<1>5. RowsSound'
  BY <1>1, RowsStay
<1>6. UnlocksFollow'
  <2>1. \A u \in Topics : ~Unlocks(call[c], u)
    BY <1>1 DEF Unlocks
  <2>2. DoneTopics' = DoneTopics
    BY <1>1 DEF DoneTopics, Done
  <2> QED
    BY <1>1, <2>1, <2>2, FollowsOn
<1>7. OneCall'
  <2>1. ~disturbed => \A d \in Callers : d # c => call[d] = NoCall
    BY <1>1, Alone
  <2>2. ~disturbed => path'.progress = PathProgress(topic)
    BY <1>1, <1>2 DEF PathInv, OneCall
  <2>3. NoCall.step = "none"
    BY DEF NoCall
  <2> QED
    BY <1>1, <2>1, <2>2, <2>3, OneCallOn
<1> QED
  BY <1>3, <1>4, <1>5, <1>6, <1>7 DEF PathInv

LEMMA LearnCloseStep == ASSUME PathInv, LearnClose PROVE PathInv'
<1>1. /\ call' = [c \in Callers |-> NoCall] /\ \A c \in Callers : call'[c] = NoCall
      /\ UNCHANGED <<topic, deps, entries, path, everDone, relocked, learnOps>>
      /\ learnCrashes' = learnCrashes + 1 /\ disturbed' = TRUE
  BY DEF LearnClose
<1>2. RowsTyped'
  BY <1>1 DEF PathInv, RowsTyped
<1>3. CallsTyped' /\ CallsSound'
  BY <1>1 DEF CallsTyped, CallsSound, Called, CallSound, NoCall
<1>4. RowsSound'
  BY <1>1, RowsStay
<1>5. UnlocksFollow' /\ OneCall'
  BY <1>1 DEF UnlocksFollow, OneCall, PathInv, RowsTyped
<1> QED
  BY <1>2, <1>3, <1>4, <1>5 DEF PathInv

LEMMA UnlockStep ==
  ASSUME LearningAssumption, PathInv, NEW c \in Callers, Unlock(c)
  PROVE  PathInv'
<1> DEFINE k == call[c]
<1>1. k.step = "each" /\ UNCHANGED <<deps, entries, path, everDone, disturbed, learnOps, learnCrashes>>
  BY DEF Unlock
<1>2. k \in EachCall /\ k.todo \in SUBSET Topics
  <2>1. k \in EachCall
    BY <1>1, CallFields DEF PathInv, CallsTyped
  <2> QED
    BY <2>1 DEF EachCall
<1>3. \A t \in k.todo : Earned(t, deps, everDone)
  BY <1>1 DEF PathInv, CallsSound, CallSound
<1>4. ~disturbed => \A d \in Callers : d # c => call[d] = NoCall
  BY <1>1, Alone
<1>5. CASE k.todo = {}
  <2> DEFINE x == [step |-> "sum"]
  <2>1. Goes(c, x) /\ topic' = topic /\ relocked' = relocked
    BY <1>5 DEF Unlock
  <2>2. x.step = "sum" /\ x \in SumCall /\ x # NoCall
    BY DEF SumCall, NoCall
  <2> HIDE DEF x
  <2>3. CallsTyped' /\ CallsSound'
    <3>1. Called(x) /\ CallSound(x, deps, everDone)
      BY <2>2 DEF Called, CallSound
    <3> QED
      BY <1>1, <2>1, <3>1, CallsStay
  <2>4. RowsTyped'
    BY <1>1, <2>1 DEF PathInv, RowsTyped
  <2>5. RowsSound'
    BY <1>1, <2>1, RowsStay
  <2>6. UnlocksFollow'
    <3>1. \A u \in Topics : ~Unlocks(call[c], u)
      BY <1>1, <1>5 DEF Unlocks
    <3>2. DoneTopics' = DoneTopics
      BY <2>1 DEF DoneTopics, Done
    <3> QED
      BY <1>1, <2>1, <3>1, <3>2, FollowsOn
  <2>7. OneCall'
    BY <1>1, <1>4, <2>1, <2>2, OneCallOn
  <2> QED
    BY <2>3, <2>4, <2>5, <2>6, <2>7 DEF PathInv
<1>6. CASE k.todo # {}
  <2> DEFINE u == Min(k.todo)
             x == [k EXCEPT !.todo = @ \ {u}]
             row == [topic[u] EXCEPT !.status = "available"]
  <2>1. Goes(c, x) /\ topic' = [topic EXCEPT ![u].status = "available"] /\ relocked' = relocked \ {u}
    BY <1>6 DEF Unlock
  <2>2. u \in k.todo /\ u \in Topics
    <3>1. k.todo \in SUBSET Nat
      BY <1>2 DEF Topics
    <3> QED
      BY <1>2, <1>6, <3>1, HasMin
  <2>3. x \in EachCall /\ x.step = "each" /\ x.todo = k.todo \ {u} /\ x # NoCall
    BY <1>2 DEF EachCall, NoCall
  <2> HIDE DEF x
  <2>4. /\ topic' = [topic EXCEPT ![u] = row] /\ row \in TopicRow
        /\ row.status = "available" /\ row.progress = topic[u].progress
    BY <2>1, <2>2 DEF PathInv, RowsTyped, TopicRow
  <2>5. /\ topic \in [Topics -> TopicRow] /\ topic'[u] = row /\ \A t \in Topics : t # u => topic'[t] = topic[t]
        /\ topic' \in [Topics -> TopicRow]
    BY <2>2, <2>4 DEF PathInv, RowsTyped
  <2> HIDE DEF row, u
  <2>6. CallsTyped' /\ CallsSound'
    <3>1. Called(x) /\ CallSound(x, deps, everDone)
      BY <1>3, <2>3 DEF Called, CallSound
    <3> QED
      BY <1>1, <2>1, <3>1, CallsStay
  <2>7. RowsTyped'
    BY <1>1, <2>1, <2>5 DEF PathInv, RowsTyped
  <2>8. DoneTopics' \subseteq DoneTopics
    BY <2>4, <2>5 DEF DoneTopics, Done
  <2>9. RowsSound'
    <3>1. \A t \in Topics : topic'[t].status = "available" => Earned(t, deps, everDone)
      BY <1>3, <2>2, <2>5 DEF PathInv, RowsSound
    <3>2. topic'[1].status # "pending"
      BY <2>4, <2>5, TopicsAre DEF PathInv, RowsSound
    <3> QED
      BY <1>1, <2>1, <2>8, <3>1, <3>2 DEF PathInv, RowsSound
  <2>10. UnlocksFollow'
    <3> SUFFICES ASSUME NEW t \in Topics \ relocked', topic'[t].status = "pending", deps[t] \subseteq DoneTopics',
                        everDone' # {}, ~Unlocks(x, t)
                 PROVE  /\ everDone # {} /\ t \notin relocked /\ topic[t].status = "pending"
                        /\ deps[t] \subseteq DoneTopics /\ ~Unlocks(call[c], t)
      BY <1>1, <2>1, FollowsOn
    <3>1. t # u
      BY <2>4, <2>5
    <3> QED
      BY <1>1, <2>1, <2>3, <2>5, <2>8, <3>1 DEF Unlocks
  <2>11. OneCall'
    BY <1>1, <1>4, <2>1, <2>3, OneCallOn
  <2> QED
    BY <2>6, <2>7, <2>9, <2>10, <2>11 DEF PathInv
<1> QED
  BY <1>5, <1>6

(* What a call writes into the row of its topic. *)
NewRow(k) ==
    LET p == Recorded(k.topic, k.was)
    IN  CASE k.kind = "complete" -> [status |-> "done", progress |-> 100]
          [] k.kind = "reopen" -> [topic[k.topic] EXCEPT !.status = "available"]
          [] k.kind = "record" ->
               [progress |-> p, status |-> IF p >= 100 THEN "done" ELSE IF p > 0 THEN "in_progress" ELSE k.was.status]

LEMMA WrittenIs ==
  ASSUME LearningAssumption, PathInv, NEW k \in RowCall, CallSound(k, deps, everDone)
  PROVE  /\ NewRow(k) \in TopicRow
         /\ NewRow(k).status = "available" => Earned(k.topic, deps, everDone)
         /\ k.topic = 1 => NewRow(k).status # "pending"
         /\ k.was = topic[k.topic] => NewRow(k).progress >= topic[k.topic].progress
<1> DEFINE t == k.topic
           p == Recorded(t, k.was)
<1>1. /\ t \in Topics /\ k.was \in TopicRow /\ k.kind \in {"complete", "reopen", "record"} /\ k.step = "row"
      /\ topic[t] \in TopicRow
  BY DEF RowCall, PathInv, RowsTyped
<1>2. p \in 0..100 /\ p >= k.was.progress
  BY <1>1, RecordedBounds DEF PathInv
<1>3. /\ k.was.status = "available" => Earned(t, deps, everDone)
      /\ t = 1 => k.was.status # "pending"
      /\ k.kind = "reopen" => t \in everDone
  BY <1>1 DEF CallSound
<1>4. 100 >= topic[t].progress /\ topic[t].progress >= topic[t].progress
  <2>1. topic[t].progress \in 0..100
    BY <1>1 DEF TopicRow
  <2>2. \A a \in 0..100 : 100 >= a /\ a >= a
    OBVIOUS
  <2> QED
    BY <2>1, <2>2
<1> HIDE DEF p
<1>5. CASE k.kind = "complete"
  <2>1. NewRow(k) = [status |-> "done", progress |-> 100]
    BY <1>5 DEF NewRow
  <2>2. NewRow(k) \in TopicRow /\ NewRow(k).status = "done" /\ NewRow(k).progress = 100
    BY <2>1 DEF TopicRow
  <2>3. NewRow(k).progress >= topic[t].progress
    BY <1>4, <2>2
  <2> QED
    BY <2>2, <2>3
<1>6. CASE k.kind = "reopen"
  <2>1. NewRow(k) = [topic[t] EXCEPT !.status = "available"]
    BY <1>6 DEF NewRow
  <2>2. Earned(t, deps, everDone)
    BY <1>3, <1>6 DEF Earned
  <2>3. NewRow(k) \in TopicRow /\ NewRow(k).status = "available" /\ NewRow(k).progress = topic[t].progress
    BY <1>1, <2>1 DEF TopicRow
  <2>4. NewRow(k).progress >= topic[t].progress
    BY <1>4, <2>3
  <2> QED
    BY <2>2, <2>3, <2>4
<1>7. CASE k.kind = "record"
  <2> DEFINE s == IF p >= 100 THEN "done" ELSE IF p > 0 THEN "in_progress" ELSE k.was.status
  <2>1. NewRow(k) = [progress |-> p, status |-> s]
    BY <1>7 DEF NewRow, p
  <2>2. s \in {"pending", "available", "in_progress", "done"} /\ (s \in {"pending", "available"} => s = k.was.status)
    BY <1>1 DEF TopicRow
  <2> HIDE DEF s
  <2>3. NewRow(k) \in TopicRow /\ NewRow(k).status = s /\ NewRow(k).progress = p
    BY <1>2, <2>1, <2>2 DEF TopicRow
  <2> QED
    BY <1>2, <1>3, <2>2, <2>3
<1> QED
  BY <1>1, <1>5, <1>6, <1>7

LEMMA Writes ==
  ASSUME PathInv, NEW c \in Callers, WriteTopic(c)
  PROVE  LET k == call[c]  t == k.topic  row == NewRow(k)
         IN  /\ k \in RowCall /\ t \in Topics /\ topic' = [topic EXCEPT ![t] = row]
             /\ everDone' = IF row.status = "done" THEN everDone \union {t} ELSE everDone
             /\ relocked' = IF row.status # "pending" THEN relocked \ {t}
                            ELSE IF topic[t].status # "pending" THEN relocked \union {t} ELSE relocked
             /\ Goes(c, IF row.status = "done" THEN [step |-> "unlock", topic |-> t] ELSE [step |-> "sum"])
<1>1. call[c] \in RowCall
  BY CallFields DEF WriteTopic, PathInv, CallsTyped
<1>2. call[c].topic \in Topics
  BY <1>1 DEF RowCall
<1> QED
  BY <1>1, <1>2 DEF WriteTopic, NewRow

LEMMA WriteTopicStep ==
  ASSUME LearningAssumption, PathInv, NEW c \in Callers, WriteTopic(c)
  PROVE  PathInv' /\ (~disturbed => \A u \in Topics : topic'[u].progress >= topic[u].progress)
<1> DEFINE k == call[c]
           t == k.topic
           row == NewRow(k)
           x == IF row.status = "done" THEN [step |-> "unlock", topic |-> t] ELSE [step |-> "sum"]
<1>1. k.step = "row" /\ UNCHANGED <<deps, entries, path, disturbed, learnOps, learnCrashes>>
  BY DEF WriteTopic
<1>2. /\ k \in RowCall /\ t \in Topics /\ topic' = [topic EXCEPT ![t] = row]
      /\ everDone' = IF row.status = "done" THEN everDone \union {t} ELSE everDone
      /\ relocked' = IF row.status # "pending" THEN relocked \ {t}
                     ELSE IF topic[t].status # "pending" THEN relocked \union {t} ELSE relocked
      /\ Goes(c, x)
  BY Writes
<1>3. CallSound(k, deps, everDone)
  BY DEF PathInv, CallsSound
<1>4. /\ row \in TopicRow
      /\ row.status = "available" => Earned(t, deps, everDone)
      /\ t = 1 => row.status # "pending"
      /\ k.was = topic[t] => row.progress >= topic[t].progress
  BY <1>2, <1>3, WrittenIs
<1> HIDE DEF row
<1>5. /\ topic \in [Topics -> TopicRow] /\ topic'[t] = row /\ \A u \in Topics : u # t => topic'[u] = topic[u]
      /\ topic' \in [Topics -> TopicRow]
  BY <1>2, <1>4 DEF PathInv, RowsTyped
<1>6. everDone \subseteq everDone' /\ (row.status = "done" => t \in everDone')
  BY <1>2
<1>7. x.step = (IF row.status = "done" THEN "unlock" ELSE "sum") /\ x # NoCall
  BY DEF NoCall
<1>8. Called(x) /\ CallSound(x, deps, everDone')
  <2>1. CASE row.status = "done"
    BY <1>2, <1>6, <2>1 DEF Called, UnlockCall, CallSound
  <2>2. CASE row.status # "done"
    BY <2>2 DEF Called, SumCall, CallSound
  <2> QED
    BY <2>1, <2>2
<1> HIDE DEF x, k
<1>9. CallsTyped' /\ CallsSound'
  BY <1>1, <1>2, <1>6, <1>8, CallsStay
<1>10. RowsTyped'
  <2>1. everDone' \subseteq Topics /\ relocked' \subseteq Topics
    BY <1>2 DEF PathInv, RowsTyped
  <2> QED
    BY <1>1, <1>5, <2>1 DEF PathInv, RowsTyped
<1>11. DoneTopics' \subseteq everDone' /\ (row.status # "done" => DoneTopics' \subseteq DoneTopics)
  BY <1>5, <1>6 DEF DoneTopics, Done, PathInv, RowsSound
<1>12. RowsSound'
  <2>1. ASSUME NEW u \in Topics, topic'[u].status = "available" PROVE Earned(u, deps, everDone')
    <3>1. Earned(u, deps, everDone)
      BY <1>4, <1>5, <2>1 DEF PathInv, RowsSound
    <3> QED
      BY <1>6, <3>1 DEF Earned
  <2>2. 1 \notin relocked' /\ topic'[1].status # "pending"
    BY <1>2, <1>4, <1>5, TopicsAre DEF PathInv, RowsSound
  <2> QED
    BY <1>1, <1>11, <2>1, <2>2 DEF RowsSound
<1>13. UnlocksFollow'
  <2>1. CASE row.status = "done"
    <3>1. \A u \in Topics : Unlocks(x, u)
      BY <1>7, <2>1 DEF Unlocks
    <3> QED
      BY <1>1, <1>2, <3>1, FollowsOn
  <2>2. CASE row.status # "done"
    <3> SUFFICES ASSUME NEW u \in Topics \ relocked', topic'[u].status = "pending", deps[u] \subseteq DoneTopics',
                        everDone' # {}
                 PROVE  /\ everDone # {} /\ u \notin relocked /\ topic[u].status = "pending"
                        /\ deps[u] \subseteq DoneTopics /\ ~Unlocks(call[c], u)
      BY <1>1, <1>2, FollowsOn
    <3>1. everDone # {} /\ deps[u] \subseteq DoneTopics
      BY <1>2, <1>11, <2>2
    <3>2. ~Unlocks(call[c], u)
      BY <1>1 DEF Unlocks, k
    <3>3. u \notin relocked /\ topic[u].status = "pending"
      BY <1>2, <1>5
    <3> QED
      BY <3>1, <3>2, <3>3
  <2> QED
    BY <2>1, <2>2
<1>14. OneCall'
  <2>1. ~disturbed => \A d \in Callers : d # c => call[d] = NoCall
    BY <1>1, Alone DEF k
  <2> QED
    BY <1>1, <1>2, <1>7, <2>1, OneCallOn
<1>15. ASSUME ~disturbed, NEW u \in Topics PROVE topic'[u].progress >= topic[u].progress
  <2>1. k.was = topic[t]
    BY <1>1, <1>15 DEF PathInv, OneCall, k
  <2> DEFINE a == topic[u].progress
  <2>2. a \in 0..100
    BY <1>5 DEF TopicRow
  <2>3. topic'[u].progress >= a \/ topic'[u].progress = a
    BY <1>4, <1>5, <2>1
  <2> HIDE DEF a
  <2>4. topic'[u].progress >= a
    BY <2>2, <2>3
  <2> QED
    BY <2>4 DEF a
<1> QED
  BY <1>9, <1>10, <1>12, <1>13, <1>14, <1>15 DEF PathInv

(* The progress of the topics: every other step leaves it alone. *)
LEMMA ProgressStays ==
  ASSUME LearningAssumption, PathInv, [PathNext]_pathVars, ~disturbed
  PROVE  \A u \in Topics : topic'[u].progress >= topic[u].progress
<1>1. \A u \in Topics : topic[u].progress \in 0..100
  BY DEF PathInv, RowsTyped, TopicRow
<1>2. \A a \in 0..100 : a >= a
  OBVIOUS
<1>3. CASE UNCHANGED topic
  BY <1>1, <1>3, <1>2
<1>4. ASSUME NEW c \in Callers, WriteTopic(c) PROVE \A u \in Topics : topic'[u].progress >= topic[u].progress
  BY <1>4, WriteTopicStep
<1>5. ASSUME NEW c \in Callers, Unlock(c) PROVE \A u \in Topics : topic'[u].progress >= topic[u].progress
  <2>1. topic \in [Topics -> TopicRow]
    BY DEF PathInv, RowsTyped
  <2>2. UNCHANGED topic \/ \E v : topic' = [topic EXCEPT ![v].status = "available"]
    BY <1>5 DEF Unlock
  <2>3. \A u \in Topics : topic'[u].progress = topic[u].progress
    BY <2>1, <2>2 DEF TopicRow
  <2> QED
    BY <1>1, <1>2, <2>3
<1> QED
  BY <1>3, <1>4, <1>5 DEF PathNext, Start, InsertEntry, ListDependents, SumUp, WritePath, LearnClose, pathVars

LEMMA PathStays == ASSUME LearningAssumption, PathInv, [PathNext]_pathVars PROVE PathInv'
<1>1. ASSUME NEW c \in Callers, NEW kind \in {"complete", "reopen", "record"}, NEW t \in Topics, Start(c, kind, t)
      PROVE  PathInv'
  BY <1>1, StartStep
<1>2. ASSUME NEW c \in Callers, InsertEntry(c) PROVE PathInv'
  BY <1>2, InsertEntryStep
<1>3. ASSUME NEW c \in Callers, WriteTopic(c) PROVE PathInv'
  BY <1>3, WriteTopicStep
<1>4. ASSUME NEW c \in Callers, ListDependents(c) PROVE PathInv'
  BY <1>4, ListStep
<1>5. ASSUME NEW c \in Callers, Unlock(c) PROVE PathInv'
  BY <1>5, UnlockStep
<1>6. ASSUME NEW c \in Callers, SumUp(c) PROVE PathInv'
  BY <1>6, SumUpStep
<1>7. ASSUME NEW c \in Callers, WritePath(c) PROVE PathInv'
  BY <1>7, WritePathStep
<1>8. CASE LearnClose
  BY <1>8, LearnCloseStep
<1>9. CASE UNCHANGED pathVars
  BY <1>9 DEF pathVars, PathInv, RowsTyped, CallsTyped, CallsSound, RowsSound, UnlocksFollow, OneCall, DoneTopics, Done, Idle
<1> QED
  BY <1>1, <1>2, <1>3, <1>4, <1>5, <1>6, <1>7, <1>8, <1>9 DEF PathNext

(* What a topic depends on comes before it on the path. *)
DependsOnEarlier == \A d \in Dependencies, t \in Topics : d[t] \subseteq 1..(t - 1)

LEMMA PathIsSound ==
  ASSUME LearningAssumption, DependsOnEarlier, PathInv
  PROVE  PathTypeOK /\ NothingStaysLocked /\ ThereIsANextStep /\ UnlocksAreEarned /\ PathIsItsTopics
<1>1. PathTypeOK
  BY DEF PathInv, RowsTyped, PathTypeOK, RowOfPath
<1>2. NothingStaysLocked
  <2> SUFFICES ASSUME Idle, learnCrashes = 0, everDone # {}, NEW t \in Topics \ relocked,
                      topic[t].status = "pending", deps[t] \subseteq DoneTopics
               PROVE  FALSE
    BY DEF NothingStaysLocked
  <2>1. PICK c \in Callers : Unlocks(call[c], t)
    BY DEF PathInv, UnlocksFollow
  <2> QED
    BY <2>1 DEF Idle, Unlocks, NoCall
<1>3. ThereIsANextStep
  <2> SUFFICES ASSUME learnCrashes = 0, relocked = {}, Idle, DoneTopics # Topics
               PROVE  \E t \in Topics : topic[t].status \in {"available", "in_progress"}
    BY DEF ThereIsANextStep, NextStep
  <2> DEFINE S == Topics \ DoneTopics
             t == Min(S)
  <2>1. S \in SUBSET Nat /\ S # {}
    BY DEF Topics, DoneTopics
  <2>2. t \in S /\ \A u \in S : t <= u
    BY <2>1, HasMin
  <2> HIDE DEF t
  <2>3. t \in Topics /\ t \in Nat /\ topic[t] \in TopicRow /\ topic[t].status # "done"
    BY <2>1, <2>2 DEF DoneTopics, Done, PathInv, RowsTyped
  <2>4. CASE t = 1
    BY <2>3, <2>4 DEF PathInv, RowsSound, TopicRow
  <2>5. CASE t # 1
    <3>1. 1..(t - 1) \subseteq DoneTopics
      <4> SUFFICES ASSUME NEW u \in 1..(t - 1), u \notin DoneTopics PROVE FALSE
        OBVIOUS
      <4>1. Len(Estimate) \in Nat
        BY DEF LearningAssumption
      <4>2. u \in Topics
        BY <2>3, <4>1 DEF Topics
      <4> QED
        BY <2>2, <2>3, <4>2
    <3>2. deps[t] \subseteq DoneTopics
      BY <2>3, <3>1 DEF DependsOnEarlier, PathInv, RowsTyped
    <3>3. 1 \in DoneTopics
      BY <2>3, <2>5, <3>1 DEF Topics
    <3>4. everDone # {}
      BY <3>3 DEF PathInv, RowsSound
    <3>5. topic[t].status # "pending"
      BY <1>2, <2>3, <3>2, <3>4 DEF NothingStaysLocked
    <3> QED
      BY <2>3, <3>5 DEF TopicRow
  <2> QED
    BY <2>4, <2>5
<1>4. UnlocksAreEarned
  BY DEF PathInv, RowsSound, UnlocksAreEarned, Earned
<1>5. PathIsItsTopics
  BY DEF PathInv, OneCall, PathIsItsTopics
<1> QED
  BY <1>1, <1>2, <1>3, <1>4, <1>5

(* A path advances, however its topics depend on those before them and      *)
(* whoever works on it: what can be unlocked is, nothing else is, and        *)
(* progress is what was recorded (learning.ts 151-229).                      *)
THEOREM PathSafety == DependsOnEarlier => (PathSpec => PathsAdvance)
<1> SUFFICES ASSUME DependsOnEarlier PROVE PathSpec => PathsAdvance
  OBVIOUS
<1>1. PathInit => PathInv
  BY LearningAssumption, PathStarts
<1>2. PathInv /\ [PathNext]_pathVars => PathInv'
  BY LearningAssumption, PathStays
<1>3. PathInv => PathTypeOK /\ NothingStaysLocked /\ ThereIsANextStep /\ UnlocksAreEarned /\ PathIsItsTopics
  BY LearningAssumption, PathIsSound
<1>4. PathInv /\ [PathNext]_pathVars => [~disturbed => \A t \in Topics : topic'[t].progress >= topic[t].progress]_pathVars
  BY LearningAssumption, ProgressStays
<1>5. PathSpec => [](PathTypeOK /\ NothingStaysLocked /\ ThereIsANextStep /\ UnlocksAreEarned /\ PathIsItsTopics)
  BY <1>1, <1>2, <1>3, PTL DEF PathSpec
<1>6. PathSpec => ProgressIsKept
  BY <1>1, <1>2, <1>4, PTL DEF PathSpec, ProgressIsKept
<1> QED
  BY <1>5, <1>6, PTL DEF PathsAdvance

-----------------------------------------------------------------------------
(***************************************************************************)
(* Proofs.  A level is derived within half of the way to the score, for     *)
(* each of the weights; the rest is an invariant of the assessments in       *)
(* progress: what they read is a skill as good as the one there is, and      *)
(* while none has overlapped there is one at most, it read the skill as it   *)
(* is, and the last row is the one it inserted.                              *)
(***************************************************************************)
Percent == 0..100
Skill == [level : Percent, confidence : {"uncertain", "inferred", "confirmed"}, evidence : SUBSET Nat, created : Percent]
Assessment == [before : Percent, after : Percent, score : Scores \union {NoScore}, ref : BOOLEAN]

Gentle(before, after, score) ==
    score # NoScore =>
      /\ 2 * Distance(after, before) <= Distance(score, before) + 1
      /\ Distance(after, score) <= Distance(before, score)

(* A skill whose evidence is among the first n assessments. *)
Known(s, n) == s \in Skill /\ s.evidence \subseteq 1..n /\ (s.confidence = "confirmed" => Cardinality(s.evidence) >= 3)

Inserts(w, n) ==
    w.step = "insert" =>
      /\ Known(w.was, n) /\ w.after \in Percent /\ w.score \in Scores \union {NoScore} /\ w.ref \in BOOLEAN
      /\ Gentle(w.was.level, w.after, w.score)
Updates(w, n) ==
    w.step = "update" => Known(w.was, n) /\ w.after \in Percent /\ w.id \in 1..n /\ w.id \notin w.was.evidence
WorkOK(w, n) == /\ w = NoWork \/ w.step \in {"insert", "update"}
                /\ Inserts(w, n) /\ Updates(w, n)

(* While nothing has overlapped. *)
ReadsAsIs(w, s, rows) ==
    /\ w.step = "insert" => w.was = s
    /\ w.step = "update" => w.was = s /\ w.id = Len(rows) /\ rows[Len(rows)].after = w.after
Chained(rows) == \A i \in 2..Len(rows) : rows[i].before = rows[i - 1].after
OneAtATime ==
    /\ \A a, b \in Assessors : work[a] # NoWork /\ work[b] # NoWork => a = b
    /\ \A a \in Assessors : ReadsAsIs(work[a], skill, assessed)
    /\ Chained(assessed)
    /\ (\A a \in Assessors : work[a].step # "update") /\ assessed # <<>> => skill.level = assessed[Len(assessed)].after

SkillInv ==
    /\ Known(skill, Len(assessed))
    /\ assessed \in Seq(Assessment) /\ \A i \in DOMAIN assessed : Gentle(assessed[i].before, assessed[i].after, assessed[i].score)
    /\ DOMAIN work = Assessors /\ \A a \in Assessors : WorkOK(work[a], Len(assessed))
    /\ upset \in BOOLEAN
    /\ ~upset => OneAtATime

(* "One test cannot swing a skill wildly", for every level, score and weight. *)
LEMMA DerivesGently ==
    ASSUME NEW level \in Percent, NEW score \in Percent, NEW weight \in Weights
    PROVE  deriveLevel(level, score, weight) \in Percent /\ Gentle(level, deriveLevel(level, score, weight), score)
<1> DEFINE d == deriveLevel(level, score, weight)
<1>1. CASE weight = 50
  <2>1. d = (2 * (50 * level + 50 * score) + 100) \div 200
    BY <1>1 DEF deriveLevel, Percent
  <2> QED
    BY <2>1 DEF Percent, Gentle, Distance
<1>2. CASE weight = 35
  <2>1. d = (2 * (65 * level + 35 * score) + 100) \div 200
    BY <1>2 DEF deriveLevel, Percent
  <2> QED
    BY <2>1 DEF Percent, Gentle, Distance
<1>3. CASE weight = 25
  <2>1. d = (2 * (75 * level + 25 * score) + 100) \div 200
    BY <1>3 DEF deriveLevel, Percent
  <2> QED
    BY <2>1 DEF Percent, Gentle, Distance
<1>4. CASE weight = 20
  <2>1. d = (2 * (80 * level + 20 * score) + 100) \div 200
    BY <1>4 DEF deriveLevel, Percent
  <2> QED
    BY <2>1 DEF Percent, Gentle, Distance
<1> QED
  BY <1>1, <1>2, <1>3, <1>4 DEF Weights

(* More rows do not make a skill, or an assessment of it, worse. *)
LEMMA KnownLater ==
    ASSUME NEW s, NEW n \in Nat, Known(s, n)
    PROVE  Known(s, n + 1)
BY DEF Known

LEMMA WorkLater ==
    ASSUME NEW w, NEW n \in Nat, WorkOK(w, n)
    PROVE  WorkOK(w, n + 1)
<1>1. Inserts(w, n + 1)
  BY KnownLater DEF WorkOK, Inserts
<1>2. Updates(w, n + 1)
  BY KnownLater DEF WorkOK, Updates
<1> QED
  BY <1>1, <1>2 DEF WorkOK

LEMMA SkillStarts == SkillInit => SkillInv
<1> SUFFICES ASSUME SkillInit PROVE SkillInv
  OBVIOUS
<1>1. PICK l \in Levels : skill = [level |-> l, confidence |-> IF l > 0 THEN "inferred" ELSE "uncertain", evidence |-> {}, created |-> l]
  BY DEF SkillInit
<1>2. l \in Percent
  BY SkillAssumption DEF Percent
<1>3. assessed = <<>> /\ work = [a \in Assessors |-> NoWork] /\ upset = FALSE
  BY DEF SkillInit
<1>4. skill \in Skill /\ skill.evidence = {} /\ skill.confidence # "confirmed"
  BY <1>1, <1>2 DEF Skill
<1>5. Known(skill, Len(assessed))
  BY <1>4 DEF Known
<1>6. \A a \in Assessors : WorkOK(work[a], Len(assessed)) /\ work[a] = NoWork
  BY <1>3 DEF WorkOK, Inserts, Updates, NoWork
<1>7. assessed \in Seq(Assessment) /\ DOMAIN assessed = {} /\ Chained(assessed)
  BY <1>3 DEF Chained
<1>8. OneAtATime
  BY <1>3, <1>6, <1>7 DEF OneAtATime, ReadsAsIs, NoWork
<1> QED
  BY <1>3, <1>5, <1>6, <1>7, <1>8 DEF SkillInv

LEMMA AssessStep ==
    ASSUME SkillInv, NEW a \in Assessors, Assess(a)
    PROVE  SkillInv'
<1> DEFINE n == Len(assessed)
<1>1. PICK score \in Scores \union {NoScore}, weight \in Weights, ref \in BOOLEAN :
        work' = [work EXCEPT ![a] =
               [step |-> "insert", was |-> skill, score |-> score, ref |-> ref,
                after |-> IF score = NoScore THEN skill.level ELSE deriveLevel(skill.level, score, weight)]]
  BY DEF Assess
<1> DEFINE after == IF score = NoScore THEN skill.level ELSE deriveLevel(skill.level, score, weight)
           w == [step |-> "insert", was |-> skill, score |-> score, ref |-> ref, after |-> after]
<1>2. skill.level \in Percent /\ Known(skill, n)
  BY DEF SkillInv, Known, Skill
<1>3. after \in Percent /\ Gentle(skill.level, after, score)
  <2>1. CASE score = NoScore
    BY <1>2, <2>1 DEF Gentle
  <2>2. CASE score # NoScore
    <3>1. score \in Percent
      BY <2>2, SkillAssumption DEF Percent
    <3> QED
      BY <1>2, <2>2, <3>1, DerivesGently
  <2> QED
    BY <2>1, <2>2
<1> HIDE DEF after
<1>4. /\ skill' = skill /\ assessed' = assessed /\ DOMAIN work' = Assessors
      /\ \A b \in Assessors : work'[b] = IF b = a THEN w ELSE work[b]
  BY <1>1 DEF Assess, SkillInv, after
<1>5. w.step = "insert" /\ w.was = skill /\ w # NoWork
  BY DEF NoWork
<1>6. WorkOK(w, n)
  BY <1>2, <1>3 DEF WorkOK, Inserts, Updates
<1>7. \A b \in Assessors : WorkOK(work'[b], n)
  BY <1>4, <1>6 DEF SkillInv
<1>8. upset' \in BOOLEAN /\ (~upset' => ~upset /\ NobodyAssesses)
  BY DEF SkillInv, Assess
<1>9. ASSUME ~upset' PROVE OneAtATime'
  <2>1. OneAtATime /\ \A b \in Assessors : work[b] = NoWork
    BY <1>8, <1>9 DEF SkillInv, NobodyAssesses
  <2>2. \A b \in Assessors : b # a => work'[b] = NoWork
    BY <1>4, <2>1
  <2>3. work'[a] = w
    BY <1>4
  <2> HIDE DEF w
  <2>4. \A b, c \in Assessors : work'[b] # NoWork /\ work'[c] # NoWork => b = c
    BY <2>2
  <2>5. ReadsAsIs(w, skill, assessed) /\ ReadsAsIs(NoWork, skill, assessed)
    BY <1>5 DEF ReadsAsIs, NoWork
  <2>6. \A b \in Assessors : ReadsAsIs(work'[b], skill, assessed)
    BY <2>2, <2>3, <2>5
  <2>7. assessed # <<>> => skill.level = assessed[Len(assessed)].after
    BY <2>1 DEF OneAtATime, NoWork
  <2> QED
    BY <1>4, <2>1, <2>4, <2>6, <2>7 DEF OneAtATime
<1> QED
  BY <1>4, <1>7, <1>8, <1>9 DEF SkillInv

LEMMA InsertStep ==
    ASSUME SkillInv, NEW a \in Assessors, InsertAssessment(a)
    PROVE  SkillInv'
<1> DEFINE n == Len(assessed)
           row == [before |-> work[a].was.level, after |-> work[a].after, score |-> work[a].score, ref |-> work[a].ref]
           w == [step |-> "update", was |-> work[a].was, after |-> work[a].after, id |-> n + 1]
<1>1. /\ work[a].step = "insert" /\ assessed' = Append(assessed, row) /\ skill' = skill /\ upset' = upset
      /\ work' = [work EXCEPT ![a] = w]
  BY DEF InsertAssessment
<1>2. assessed \in Seq(Assessment) /\ n \in Nat
  BY DEF SkillInv
<1>3. /\ Known(work[a].was, n) /\ work[a].after \in Percent /\ work[a].score \in Scores \union {NoScore} /\ work[a].ref \in BOOLEAN
      /\ Gentle(work[a].was.level, work[a].after, work[a].score)
  BY <1>1 DEF SkillInv, WorkOK, Inserts
<1>4. row \in Assessment
  BY <1>3 DEF Assessment, Known, Skill
<1>5. row.before = work[a].was.level /\ row.after = work[a].after /\ row.score = work[a].score
  OBVIOUS
<1>6. w.step = "update" /\ w.was = work[a].was /\ w.after = work[a].after /\ w.id = n + 1 /\ w # NoWork
  BY DEF NoWork
<1>7. DOMAIN work' = Assessors /\ \A b \in Assessors : work'[b] = IF b = a THEN w ELSE work[b]
  BY <1>1 DEF SkillInv
<1> HIDE DEF row, w
<1>8. /\ assessed' \in Seq(Assessment) /\ Len(assessed') = n + 1 /\ assessed'[n + 1] = row
      /\ \A i \in 1..n : assessed'[i] = assessed[i]
  BY <1>1, <1>2, <1>4
<1> HIDE DEF n
<1>9. WorkOK(w, n + 1)
  <2>1. Known(w.was, n + 1)
    BY <1>2, <1>3, <1>6, KnownLater
  <2>2. w.id \in 1..(n + 1) /\ w.id \notin w.was.evidence
    BY <1>2, <1>3, <1>6 DEF Known
  <2> QED
    BY <1>3, <1>6, <2>1, <2>2 DEF WorkOK, Inserts, Updates
<1>10. \A b \in Assessors : WorkOK(work'[b], n + 1)
  <2>1. \A b \in Assessors : WorkOK(work[b], n + 1)
    BY <1>2, WorkLater DEF SkillInv, n
  <2> QED
    BY <1>7, <1>9, <2>1
<1>11. Known(skill, n + 1)
  BY <1>2, KnownLater DEF SkillInv, n
<1>12. \A i \in 1..(n + 1) : Gentle(assessed'[i].before, assessed'[i].after, assessed'[i].score)
  <2>1. \A i \in 1..n : Gentle(assessed[i].before, assessed[i].after, assessed[i].score)
    BY <1>2 DEF SkillInv, n
  <2>2. Gentle(row.before, row.after, row.score)
    BY <1>3, <1>5
  <2> QED
    BY <1>2, <1>8, <2>1, <2>2
<1>13. ASSUME ~upset' PROVE OneAtATime'
  <2>1. OneAtATime
    BY <1>1, <1>13 DEF SkillInv
  <2>2. work[a] # NoWork /\ work[a].was = skill
    BY <1>1, <2>1 DEF OneAtATime, ReadsAsIs, NoWork
  <2>3. \A b \in Assessors : b # a => work[b] = NoWork
    BY <2>1, <2>2 DEF OneAtATime
  <2>4. work'[a] = w /\ \A b \in Assessors : b # a => work'[b] = NoWork
    BY <1>7, <2>3
  <2>5. \A b, c \in Assessors : work'[b] # NoWork /\ work'[c] # NoWork => b = c
    BY <2>4
  <2>6. ReadsAsIs(w, skill', assessed') /\ ReadsAsIs(NoWork, skill', assessed')
    BY <1>1, <1>5, <1>6, <1>8, <2>2 DEF ReadsAsIs, NoWork
  <2>7. \A b \in Assessors : ReadsAsIs(work'[b], skill', assessed')
    BY <2>4, <2>6
  <2>8. n > 0 => skill.level = assessed[n].after
    <3>1. \A b \in Assessors : work[b].step # "update"
      BY <1>1, <2>3 DEF NoWork
    <3>2. n > 0 => assessed # <<>>
      BY <1>2 DEF n
    <3> QED
      BY <2>1, <3>1, <3>2 DEF OneAtATime, n
  <2>9. Chained(assessed')
    <3>1. SUFFICES ASSUME NEW i \in 2..(n + 1) PROVE assessed'[i].before = assessed'[i - 1].after
      BY <1>8 DEF Chained
    <3>2. CASE i = n + 1
      BY <1>2, <1>5, <1>8, <2>2, <2>8, <3>1, <3>2
    <3>3. CASE i # n + 1
      <4>1. i \in 2..n /\ i \in 1..n /\ i - 1 \in 1..n
        BY <1>2, <3>1, <3>3
      <4>2. assessed[i].before = assessed[i - 1].after
        BY <2>1, <4>1 DEF OneAtATime, Chained, n
      <4> QED
        BY <1>8, <4>1, <4>2
    <3> QED
      BY <3>2, <3>3
  <2>10. work'[a].step = "update"
    BY <1>6, <2>4
  <2> QED
    BY <2>5, <2>7, <2>9, <2>10 DEF OneAtATime
<1>14. DOMAIN assessed' = 1..(n + 1)
  BY <1>8
<1> QED
  BY <1>1, <1>7, <1>8, <1>10, <1>11, <1>12, <1>13, <1>14 DEF SkillInv

LEMMA UpdateStep ==
    ASSUME SkillInv, NEW a \in Assessors, UpdateSkill(a)
    PROVE  SkillInv'
<1> DEFINE n == Len(assessed)
           w == work[a]
           e == w.was.evidence
<1>1. /\ w.step = "update" /\ skill' = SkillAfter(w.was, w.after, w.id)
      /\ assessed' = assessed /\ upset' = upset
      /\ DOMAIN work' = Assessors /\ \A b \in Assessors : work'[b] = IF b = a THEN NoWork ELSE work[b]
  BY DEF UpdateSkill, SkillInv
<1>2. n \in Nat
  BY DEF SkillInv
<1>3. Known(w.was, n) /\ w.after \in Percent /\ w.id \in 1..n /\ w.id \notin e
  BY <1>1 DEF SkillInv, WorkOK, Updates
<1>4. /\ skill' \in Skill /\ skill'.level = w.after /\ skill'.evidence = e \union {w.id}
      /\ skill'.confidence = IF Cardinality(e) >= 2 THEN "confirmed" ELSE "inferred"
  <2> DEFINE was == w.was
  <2>1. was \in Skill /\ was.evidence \subseteq 1..n
    BY <1>3 DEF Known
  <2>2. skill' = [level |-> w.after, confidence |-> IF Cardinality(e) >= 2 THEN "confirmed" ELSE "inferred",
                  evidence |-> e \union {w.id}, created |-> was.created]
    BY <1>1, <2>1 DEF SkillAfter, Skill
  <2> HIDE DEF was
  <2>3. e \union {w.id} \in SUBSET Nat /\ was.created \in Percent
    BY <1>2, <1>3, <2>1 DEF Skill, Known
  <2> HIDE DEF e
  <2> QED
    BY <1>3, <2>2, <2>3 DEF Skill
<1>5. Cardinality(e \union {w.id}) = Cardinality(e) + 1 /\ Cardinality(e) \in Nat
  <2>1. IsFiniteSet(1..n) /\ e \subseteq 1..n
    <3>1. 1 \in Int /\ n \in Int
      BY <1>2
    <3>2. IsFiniteSet(1..n)
      BY <3>1, FS_Interval
    <3> QED
      BY <1>3, <3>2 DEF Known
  <2>2. IsFiniteSet(e)
    BY <2>1, FS_Subset
  <2> QED
    BY <1>3, <2>2, FS_AddElement, FS_CardinalityType
<1>6. Known(skill', n)
  BY <1>2, <1>3, <1>4, <1>5 DEF Known
<1>7. \A b \in Assessors : WorkOK(work'[b], n)
  <2>1. WorkOK(NoWork, n)
    BY DEF WorkOK, Inserts, Updates, NoWork
  <2> QED
    BY <1>1, <2>1 DEF SkillInv
<1>8. ASSUME ~upset' PROVE OneAtATime'
  <2>1. OneAtATime
    BY <1>1, <1>8 DEF SkillInv
  <2>2. w # NoWork /\ w.id = n /\ assessed[n].after = w.after
    BY <1>1, <2>1 DEF OneAtATime, ReadsAsIs, NoWork
  <2>3. \A b \in Assessors : b # a => work[b] = NoWork
    BY <2>1, <2>2 DEF OneAtATime
  <2>4. \A b \in Assessors : work'[b] = NoWork
    BY <1>1, <2>3
  <2>5. ReadsAsIs(NoWork, skill', assessed')
    BY DEF ReadsAsIs, NoWork
  <2>6. skill'.level = assessed'[Len(assessed')].after
    BY <1>1, <1>4, <2>2
  <2> QED
    BY <1>1, <2>1, <2>4, <2>5, <2>6 DEF OneAtATime
<1> QED
  BY <1>1, <1>6, <1>7, <1>8 DEF SkillInv

LEMMA SkillCloseStep ==
    ASSUME SkillInv, SkillClose
    PROVE  SkillInv'
<1>1. skill' = skill /\ assessed' = assessed /\ upset' = TRUE /\ work' = [a \in Assessors |-> NoWork]
  BY DEF SkillClose
<1>2. \A a \in Assessors : WorkOK(work'[a], Len(assessed))
  BY <1>1 DEF WorkOK, Inserts, Updates, NoWork
<1> QED
  BY <1>1, <1>2 DEF SkillInv

LEMMA SkillIsTrue == SkillInv => LevelIsTrue
<1> SUFFICES ASSUME SkillInv PROVE LevelIsTrue
  OBVIOUS
<1>1. LevelIsExplained
  <2>1. SUFFICES ASSUME ~upset PROVE Chained(assessed) /\ (NobodyAssesses /\ assessed # <<>> => skill.level = assessed[Len(assessed)].after)
    BY DEF LevelIsExplained, Chained
  <2> QED
    BY <2>1 DEF SkillInv, OneAtATime, NobodyAssesses, NoWork
<1>2. EvidenceIsReal
  BY DEF SkillInv, Known, EvidenceIsReal
<1>3. OneTestCannotSwing
  BY DEF SkillInv, Gentle, Distance, OneTestCannotSwing
<1> QED
  BY <1>1, <1>2, <1>3 DEF LevelIsTrue

(* Whatever overlaps and wherever the app is closed, the evidence of a skill  *)
(* exists and no assessment swings it; and as long as none overlapped the     *)
(* assessments explain its level (SkillService.assess, deriveLevel).          *)
THEOREM SkillSafety == SkillSpec => []LevelIsTrue
<1>1. SkillInv /\ [SkillNext]_skillVars => SkillInv'
  <2>1. ASSUME SkillInv, SkillNext PROVE SkillInv'
    BY <2>1, AssessStep, InsertStep, UpdateStep, SkillCloseStep DEF SkillNext
  <2>2. ASSUME SkillInv, UNCHANGED skillVars PROVE SkillInv'
    BY <2>2 DEF skillVars, SkillInv, OneAtATime, NobodyAssesses
  <2> QED
    BY <2>1, <2>2
<1> QED
  BY <1>1, SkillStarts, SkillIsTrue, PTL DEF SkillSpec

-----------------------------------------------------------------------------
(***************************************************************************)
(* Proofs.  The invariant says of the database, and of what a rollback      *)
(* would make of it, that each row is one or is absent and that a slot of    *)
(* the planner has its history row; and of those at work that what they are  *)
(* about is there.  While they take turns, the postponements without a       *)
(* reason are counted in the row too, the one in progress being ahead of     *)
(* the history by one.                                                       *)
(***************************************************************************)
TaskRow == [status : Statuses \ {"absent"}, day : Int, slot : {"none", "user", "planner"}, completed : BOOLEAN,
            count : 0..MaxCount, last : Int, as : TaskKinds]
Counts == [postponed : Nat, unexplained : Nat]

Told(t, r, ids) == r # Absent /\ r.slot = "planner" => <<t, r.day>> \in ids
RowOK(t, r, ids) == (r = Absent \/ r \in TaskRow) /\ Told(t, r, ids)
Rows(tk, ids) == DOMAIN tk = Task /\ (\A t \in Task : RowOK(t, tk[t], ids)) /\ ids \subseteq Task \X (0..LastDay)
Stored(tk, ids, h) == Rows(tk, ids) /\ h \in [Task -> Counts]

Operations == {"start", "complete", "reopen", "cancel", "postpone", "reschedule"}
Acting == [op : Operations, task : Task, was : TaskRow, reason : {"none", "fatigue", "procrastination"}, to : Int,
           step : {"write", "record"}]
UserOK == user = IdleUser \/ (user \in Acting /\ (user.op = "postpone" => user.was.count < MaxCount))

Planning == [step : {"release", "build", "persist"}, caller : {"load", "twice", "rebuild"}, plan : SUBSET Task, todo : SUBSET Task]
Writing == [step : {"write"}, caller : {"load", "twice", "rebuild"}, plan : SUBSET Task, todo : SUBSET Task, task : Task]
PlannerOK ==
    /\ planner = IdlePlanner \/ planner \in Planning \/ planner \in Writing
    /\ planner.step = "release" => \A t \in planner.todo : task[t] # Absent
    /\ planner.step = "write" => task[planner.task] # Absent
    /\ InTransaction => Stored(saved.task, saved.planned, saved.history)

TaskInv == Stored(task, planned, history) /\ today \in 0..LastDay /\ UserOK /\ PlannerOK

LEMMA AbsentIsNoRow == Absent \notin TaskRow /\ \A r \in TaskRow \union {Absent} : r.status = "absent" <=> r = Absent
BY DEF Absent, TaskRow, Statuses

(* A row written over one that is there keeps the rest of the rows. *)
LEMMA OneRow ==
    ASSUME NEW tk, NEW ids, Rows(tk, ids), NEW new, NEW more, more \subseteq Task \X (0..LastDay), ids \subseteq more,
           NEW t \in Task, RowOK(t, new, more)
    PROVE  Rows([tk EXCEPT ![t] = new], more)
BY DEF Rows, RowOK, Told

LEMMA FreshIsRow ==
    ASSUME NEW a \in TaskKinds, NEW d \in Int, NEW t, NEW ids
    PROVE  Fresh(a, d) \in TaskRow /\ RowOK(t, Fresh(a, d), ids) /\ Fresh(a, d).count = 0 /\ Fresh(a, d).as = a
BY TaskAssumption DEF Fresh, TaskRow, RowOK, Told, Statuses, NoDay

(* What an operation writes is a row, keeps what the task is, and leaves the *)
(* slot of the planner on its day or takes it away.                           *)
Rewritten(u, old, new) ==
    /\ new \in TaskRow /\ new.as = old.as
    /\ new.slot = "planner" => old.slot = "planner" /\ new.day = old.day
    /\ new.count = IF u.op = "postpone" THEN u.was.count + 1 ELSE old.count
LEMMA WritesARow ==
    ASSUME NEW u \in Acting, NEW r \in TaskRow, u.op = "postpone" => u.was.count < MaxCount, today \in 0..LastDay
    PROVE  Rewritten(u, r, Written(u, r))
<1>0. u.was \in TaskRow /\ u.to \in Int /\ today \in Int /\ LastDay \in Nat /\ MaxCount \in Nat
  BY TaskAssumption DEF Acting
<1>1. CASE u.op = "start"
  <2>1. Written(u, r) = [r EXCEPT !.status = "in_progress"]
    BY <1>1 DEF Written
  <2> QED
    BY <1>1, <2>1 DEF TaskRow, Statuses, Rewritten
<1>2. CASE u.op = "complete"
  <2>1. Written(u, r) = IF u.was.as.daily
             THEN [r EXCEPT !.status = "todo", !.day = today + 1, !.slot = "none", !.completed = TRUE, !.last = today]
             ELSE [r EXCEPT !.status = "done", !.completed = TRUE, !.last = today]
    BY <1>2 DEF Written
  <2> DEFINE next == today + 1
  <2>2. next \in Int
    BY <1>0
  <2> HIDE DEF next
  <2>3. CASE u.was.as.daily
    <3>1. Written(u, r) = [r EXCEPT !.status = "todo", !.day = next, !.slot = "none", !.completed = TRUE, !.last = today]
      BY <2>1, <2>3 DEF next
    <3> QED
      BY <1>0, <1>2, <2>2, <3>1 DEF TaskRow, Statuses, Rewritten
  <2>4. CASE ~u.was.as.daily
    <3>1. Written(u, r) = [r EXCEPT !.status = "done", !.completed = TRUE, !.last = today]
      BY <2>1, <2>4
    <3> QED
      BY <1>0, <1>2, <3>1 DEF TaskRow, Statuses, Rewritten
  <2> QED
    BY <2>3, <2>4
<1>3. CASE u.op = "reopen"
  <2>1. Written(u, r) = [r EXCEPT !.status = "todo", !.completed = FALSE]
    BY <1>3 DEF Written
  <2> QED
    BY <1>3, <2>1 DEF TaskRow, Statuses, Rewritten
<1>4. CASE u.op = "cancel"
  <2>1. Written(u, r) = [r EXCEPT !.status = "cancelled"]
    BY <1>4 DEF Written
  <2> QED
    BY <1>4, <2>1 DEF TaskRow, Statuses, Rewritten
<1>5. CASE u.op = "postpone"
  <2> DEFINE d == (IF u.was.day = NoDay THEN today ELSE u.was.day) + 1
             n == u.was.count + 1
  <2>1. Written(u, r) = [r EXCEPT !.status = "postponed", !.count = n, !.slot = "none", !.day = d]
    BY <1>5 DEF Written
  <2>2. d \in Int /\ n \in 0..MaxCount
    BY <1>0, <1>5 DEF TaskRow
  <2>3. n = u.was.count + 1
    OBVIOUS
  <2> HIDE DEF d, n
  <2> QED
    BY <1>5, <2>1, <2>2, <2>3 DEF TaskRow, Statuses, Rewritten
<1>6. CASE u.op = "reschedule"
  <2> DEFINE s == IF Closed(u.was) THEN u.was.status ELSE "scheduled"
  <2>1. Written(u, r) = [r EXCEPT !.day = u.to, !.slot = "user", !.status = s]
    BY <1>6 DEF Written
  <2>2. s \in Statuses \ {"absent"}
    BY <1>0 DEF TaskRow, Statuses
  <2> HIDE DEF s
  <2> QED
    BY <1>0, <1>6, <2>1, <2>2 DEF TaskRow, Rewritten
<1> QED
  BY <1>1, <1>2, <1>3, <1>4, <1>5, <1>6 DEF Acting, Operations

LEMMA PlannerStays ==
    ASSUME PlannerOK, planner' = planner, saved' = saved, \A t \in Task : task[t] # Absent => task'[t] # Absent
    PROVE  PlannerOK'
<1>1. planner \in Planning => planner.todo \subseteq Task
  BY DEF Planning
<1>2. planner.step = "write" => planner.task \in Task
  BY DEF PlannerOK, Planning, Writing, IdlePlanner
<1>3. planner.step = "release" => planner \in Planning
  BY DEF PlannerOK, Planning, Writing, IdlePlanner
<1> QED
  BY <1>1, <1>2, <1>3 DEF PlannerOK, InTransaction

(* The rows after an operation of the user wrote one of them. *)
LEMMA RowWritten ==
    ASSUME TaskInv, NEW t \in Task, NEW new \in TaskRow, RowOK(t, new, planned), planned' = planned,
           task' = [task EXCEPT ![t] = new], history' \in [Task -> Counts], today' = today, planner' = planner, saved' = saved
    PROVE  Stored(task', planned', history') /\ today' \in 0..LastDay /\ PlannerOK'
<1>1. Rows(task, planned)
  BY DEF TaskInv, Stored
<1>2. Rows(task', planned)
  BY <1>1, OneRow DEF Rows
<1>3. \A u \in Task : task[u] # Absent => task'[u] # Absent
  BY <1>1, AbsentIsNoRow DEF Rows
<1> QED
  BY <1>2, <1>3, PlannerStays DEF TaskInv, Stored

LEMMA TaskStarts == TaskInit => TaskInv
<1> SUFFICES ASSUME TaskInit PROVE TaskInv
  OBVIOUS
<1>1. PICK t \in Task, a \in Attributes, d \in {NoDay, 0}, n \in 0..1 :
         /\ n = 1 => ~a.strict /\ d = 0
         /\ task = [u \in Task |-> IF u = t THEN [Fresh(a, d) EXCEPT !.count = n] ELSE Absent]
         /\ history = [u \in Task |-> [postponed |-> IF u = t THEN n ELSE 0, unexplained |-> IF u = t THEN n ELSE 0]]
  BY DEF TaskInit
<1>2. a \in TaskKinds /\ d \in Int /\ n \in 0..MaxCount /\ n \in Nat /\ LastDay \in Nat
  BY TaskAssumption DEF NoDay
<1> DEFINE r == [Fresh(a, d) EXCEPT !.count = n]
<1>3. r \in TaskRow /\ r.slot = "none"
  <2> DEFINE f == Fresh(a, d)
  <2>1. f \in TaskRow
    BY <1>2, FreshIsRow
  <2>2. f.slot = "none"
    BY DEF Fresh
  <2> HIDE DEF f
  <2>3. [f EXCEPT !.count = n] \in TaskRow /\ [f EXCEPT !.count = n].slot = "none"
    BY <1>2, <2>1, <2>2 DEF TaskRow
  <2> QED
    BY <2>3 DEF f
<1> HIDE DEF r
<1>4. Rows(task, planned)
  <2>1. planned = {}
    BY DEF TaskInit
  <2>2. \A u \in Task : task[u] \in {r, Absent}
    BY <1>1 DEF r
  <2> QED
    BY <1>1, <1>3, <2>1, <2>2 DEF Rows, RowOK, Told
<1>5. history \in [Task -> Counts]
  BY <1>1, <1>2 DEF Counts
<1>6. UserOK /\ PlannerOK
  BY DEF TaskInit, UserOK, PlannerOK, IdlePlanner, InTransaction
<1> QED
  BY <1>2, <1>4, <1>5, <1>6 DEF TaskInit, TaskInv, Stored

LEMMA CreateStep == ASSUME TaskInv, Create PROVE TaskInv'
<1>1. PICK t \in Task, a \in Attributes, d \in {NoDay, today} : task' = [task EXCEPT ![t] = Fresh(a, d)]
  BY DEF Create
<1>2. a \in TaskKinds /\ d \in Int
  BY TaskAssumption DEF TaskInv, NoDay
<1>3. Fresh(a, d) \in TaskRow /\ RowOK(t, Fresh(a, d), planned)
  BY <1>2, FreshIsRow
<1>4. planned' = planned /\ history' \in [Task -> Counts] /\ today' = today /\ planner' = planner /\ saved' = saved /\ user' = user
  BY DEF Create, TaskInv, Stored
<1>5. Stored(task', planned', history') /\ today' \in 0..LastDay /\ PlannerOK'
  BY <1>1, <1>3, <1>4, RowWritten
<1> QED
  BY <1>4, <1>5 DEF TaskInv, UserOK

LEMMA ReadStep ==
    ASSUME TaskInv, NEW op \in Operations, NEW t \in Task, NEW reason \in {"none", "fatigue", "procrastination"}, NEW to \in Int,
           Read(op, t, reason, to)
    PROVE  TaskInv'
<1>1. task[t] \in TaskRow
  BY DEF TaskInv, Stored, Rows, RowOK, Read, Exists, Absent
<1>2. user' \in Acting /\ (user'.op = "postpone" => user'.was.count < MaxCount)
  BY <1>1 DEF Read, Acting
<1>3. UNCHANGED <<task, today, planner, saved, planned, history>>
  BY DEF Read
<1> QED
  BY <1>2, <1>3, PlannerStays DEF TaskInv, UserOK

LEMMA WriteStep == ASSUME TaskInv, WriteRow PROVE TaskInv'
<1>1. user \in Acting /\ (user.op = "postpone" => user.was.count < MaxCount)
  BY DEF TaskInv, UserOK, WriteRow, IdleUser
<1>2. user' \in Acting /\ user'.op = user.op /\ user'.was = user.was
  BY <1>1 DEF WriteRow, Acting
<1>3. UNCHANGED <<today, planner, saved, planned, history>> /\ user.task \in Task
  BY <1>1 DEF WriteRow, Acting
<1>4. CASE ~Exists(user.task)
  <2>1. task' = task
    BY <1>4 DEF WriteRow
  <2> QED
    BY <1>1, <1>2, <1>3, <2>1, PlannerStays DEF TaskInv, UserOK
<1>5. CASE Exists(user.task)
  <2> DEFINE t == user.task
             new == Written(user, task[t])
  <2>1. task[t] \in TaskRow /\ Told(t, task[t], planned)
    BY <1>3, <1>5 DEF TaskInv, Stored, Rows, RowOK, Exists, Absent
  <2>2. Rewritten(user, task[t], new)
    BY <1>1, <2>1, WritesARow DEF TaskInv
  <2> HIDE DEF new
  <2>3. new \in TaskRow /\ RowOK(t, new, planned)
    BY <2>1, <2>2, AbsentIsNoRow DEF Rewritten, RowOK, Told
  <2>4. task' = [task EXCEPT ![t] = new]
    BY <1>5 DEF WriteRow, new
  <2>5. history' \in [Task -> Counts]
    BY <1>3 DEF TaskInv, Stored
  <2> HIDE DEF t
  <2>6. t \in Task
    BY <1>3 DEF t
  <2>7. Stored(task', planned', history') /\ today' \in 0..LastDay /\ PlannerOK'
    BY <1>3, <2>3, <2>4, <2>5, <2>6, RowWritten
  <2> QED
    BY <1>1, <1>2, <2>7 DEF TaskInv, UserOK
<1> QED
  BY <1>4, <1>5

LEMMA RecordStep == ASSUME TaskInv, RecordHistory PROVE TaskInv'
<1>1. user \in Acting /\ user' = IdleUser
  BY DEF TaskInv, UserOK, RecordHistory, IdleUser
<1>2. UNCHANGED <<today, planner, saved, planned>> /\ user.task \in Task
  BY <1>1 DEF RecordHistory, Acting
<1>3. history' \in [Task -> Counts]
  <2> DEFINE t == user.task
             p == history[t].postponed + (IF user.op = "postpone" THEN 1 ELSE 0)
             u == history[t].unexplained + (IF user.op = "postpone" /\ user.reason = "none" /\ ~Closed(user.was) THEN 1 ELSE 0)
  <2>1. history \in [Task -> Counts]
    BY DEF TaskInv, Stored
  <2>2. p \in Nat /\ u \in Nat
    BY <1>2, <2>1 DEF Counts
  <2>3. history' = history \/ history' = [history EXCEPT ![t] = [postponed |-> p, unexplained |-> u]]
    BY <1>2, <2>1 DEF RecordHistory
  <2> HIDE DEF p, u
  <2> QED
    BY <2>1, <2>2, <2>3 DEF Counts
<1>4. task' = task \/ \E n \in Task : ~Exists(n) /\ task' = [task EXCEPT ![n] = Fresh([user.was.as EXCEPT !.daily = FALSE], today)]
  BY DEF RecordHistory
<1>5. CASE task' = task
  BY <1>1, <1>2, <1>3, <1>5, PlannerStays DEF TaskInv, Stored, UserOK
<1>6. ASSUME NEW n \in Task, task' = [task EXCEPT ![n] = Fresh([user.was.as EXCEPT !.daily = FALSE], today)]
      PROVE  TaskInv'
  <2> DEFINE a == [user.was.as EXCEPT !.daily = FALSE]
  <2>1. a \in TaskKinds /\ today \in Int
    <3>1. user.was.as \in TaskKinds
      BY <1>1 DEF Acting, TaskRow
    <3>2. today \in Int
      BY TaskAssumption DEF TaskInv
    <3> QED
      BY <3>1, <3>2 DEF TaskKinds
  <2> HIDE DEF a
  <2>2. Fresh(a, today) \in TaskRow /\ RowOK(n, Fresh(a, today), planned)
    BY <2>1, FreshIsRow
  <2>3. task' = [task EXCEPT ![n] = Fresh(a, today)]
    BY <1>6 DEF a
  <2>4. Stored(task', planned', history') /\ today' \in 0..LastDay /\ PlannerOK'
    BY <1>2, <1>3, <2>2, <2>3, RowWritten
  <2> QED
    BY <1>1, <2>4 DEF TaskInv, UserOK
<1> QED
  BY <1>4, <1>5, <1>6

LEMMA BeginStep == ASSUME TaskInv, NEW caller \in {"load", "twice", "rebuild"}, Begin(caller) PROVE TaskInv'
<1>1. UNCHANGED <<task, today, user, planned, history>>
  BY DEF Begin
<1>2. PlannerOK'
  <2>1. CASE caller = "rebuild"
    <3> DEFINE todo == {t \in Task : task[t].status \in {"scheduled", "postponed", "todo"} /\ task[t].day = today}
    <3>1. planner' = [step |-> "release", caller |-> caller, plan |-> {}, todo |-> todo] /\ saved' = Database
      BY <2>1 DEF Begin
    <3>2. \A t \in todo : t \in Task /\ task'[t] # Absent
      BY <1>1 DEF Absent
    <3> HIDE DEF todo
    <3>3. Stored(saved'.task, saved'.planned, saved'.history)
      BY <3>1 DEF Database, TaskInv
    <3>4. planner' \in Planning /\ planner'.step = "release" /\ planner'.todo = todo
      BY <3>1, <3>2 DEF Planning
    <3> QED
      BY <3>2, <3>3, <3>4 DEF PlannerOK
  <2>2. CASE caller # "rebuild"
    <3>1. planner' \in Planning /\ planner'.step = "build"
      BY <2>2 DEF Begin, Planning
    <3> QED
      BY <3>1 DEF PlannerOK, InTransaction
  <2> QED
    BY <2>1, <2>2
<1> QED
  BY <1>1, <1>2 DEF TaskInv, UserOK

LEMMA BuildStep == ASSUME TaskInv, Build PROVE TaskInv'
<1>1. PICK plan \in SUBSET {t \in Task : IsCandidate(t)} : planner' = [planner EXCEPT !.step = "persist", !.plan = plan, !.todo = plan]
  BY DEF Build
<1>2. planner.step = "build" /\ UNCHANGED <<task, today, user, planned, history>> /\ saved' = Database
  BY DEF Build
<1>3. planner \in Planning
  BY <1>2 DEF TaskInv, PlannerOK, Planning, Writing, IdlePlanner
<1>4. planner' \in Planning /\ planner'.step = "persist"
  BY <1>1, <1>3 DEF Planning
<1>5. Stored(saved'.task, saved'.planned, saved'.history)
  BY <1>2 DEF Database, TaskInv
<1>6. PlannerOK'
  BY <1>4, <1>5 DEF PlannerOK
<1> QED
  BY <1>2, <1>6 DEF TaskInv, UserOK

LEMMA ReleaseStep == ASSUME TaskInv, Release PROVE TaskInv'
<1>1. planner.step = "release" /\ planner \in Planning /\ (\A t \in planner.todo : t \in Task /\ task[t] # Absent)
  BY DEF Release, TaskInv, PlannerOK, Planning, Writing, IdlePlanner
<1>2. UNCHANGED <<today, user, planned, history>>
  BY DEF Release
<1>3. Stored(saved.task, saved.planned, saved.history)
  BY <1>1 DEF TaskInv, PlannerOK, InTransaction
<1>4. CASE planner.todo = {} /\ planner' = [planner EXCEPT !.step = "build"] /\ UNCHANGED task
  <2>1. planner' \in Planning /\ planner'.step = "build"
    BY <1>1, <1>4 DEF Planning
  <2>2. PlannerOK'
    BY <2>1 DEF PlannerOK, InTransaction
  <2> QED
    BY <1>2, <1>4, <2>2 DEF TaskInv, UserOK
<1>5. ASSUME NEW t \in planner.todo,
             task' = [task EXCEPT ![t].slot = "none", ![t].status = "todo"] \/ UNCHANGED task,
             planner' = [planner EXCEPT !.todo = @ \ {t}]
      PROVE  TaskInv'
  <2> DEFINE r == [task[t] EXCEPT !.slot = "none", !.status = "todo"]
  <2>1. Rows(task, planned) /\ t \in Task /\ task[t] \in TaskRow /\ saved' = saved
    BY <1>1, <1>5 DEF TaskInv, Stored, Rows, RowOK, Release
  <2>2. r \in TaskRow /\ r.slot = "none"
    BY <2>1 DEF TaskRow, Statuses
  <2>3. task' = [task EXCEPT ![t] = r] \/ task' = task
    BY <1>5, <2>1 DEF Rows
  <2> HIDE DEF r
  <2>4. RowOK(t, r, planned)
    BY <2>2 DEF RowOK, Told
  <2>5. Rows(task', planned)
    BY <2>1, <2>3, <2>4, OneRow DEF Rows
  <2>6. \A u \in Task : task[u] # Absent => task'[u] # Absent
    BY <2>1, <2>2, <2>3, AbsentIsNoRow DEF Rows
  <2>7. planner' \in Planning /\ planner'.step = "release" /\ planner'.todo \subseteq planner.todo
    BY <1>1, <1>5 DEF Planning
  <2>8. PlannerOK'
    BY <1>1, <1>3, <2>1, <2>6, <2>7 DEF PlannerOK
  <2> QED
    BY <1>2, <2>5, <2>8 DEF TaskInv, Stored, UserOK
<1> QED
  BY <1>4, <1>5 DEF Release

LEMMA PersistReadStep == ASSUME TaskInv, PersistRead PROVE TaskInv'
<1>1. planner.step = "persist" /\ planner \in Planning
  BY DEF PersistRead, TaskInv, PlannerOK, Planning, Writing, IdlePlanner
<1>2. UNCHANGED <<task, today, user, saved, planned, history>>
  BY DEF PersistRead
<1>3. Stored(saved.task, saved.planned, saved.history)
  BY <1>1 DEF TaskInv, PlannerOK, InTransaction
<1>4. PICK t \in planner.todo :
        planner' = IF PassesOver(task[t]) THEN [planner EXCEPT !.todo = @ \ {t}]
                   ELSE [step |-> "write", caller |-> planner.caller, plan |-> planner.plan, todo |-> planner.todo, task |-> t]
  BY DEF PersistRead
<1>5. CASE PassesOver(task[t])
  <2>1. planner' \in Planning /\ planner'.step = "persist"
    BY <1>1, <1>4, <1>5 DEF Planning
  <2>2. PlannerOK'
    BY <1>2, <1>3, <2>1 DEF PlannerOK
  <2> QED
    BY <1>2, <2>2 DEF TaskInv, UserOK
<1>6. CASE ~PassesOver(task[t])
  <2>1. planner' \in Writing /\ planner'.step = "write" /\ planner'.task = t
    BY <1>1, <1>4, <1>6 DEF Planning, Writing
  <2>2. task[t] # Absent
    BY <1>6 DEF PassesOver, Absent
  <2>3. PlannerOK'
    BY <1>2, <1>3, <2>1, <2>2 DEF PlannerOK
  <2> QED
    BY <1>2, <2>3 DEF TaskInv, UserOK
<1> QED
  BY <1>5, <1>6

LEMMA RollBackStep ==
    ASSUME TaskInv, InTransaction, RollBack, today' = today, UserOK'
    PROVE  TaskInv'
<1>1. Stored(task', planned', history')
  BY DEF TaskInv, PlannerOK, RollBack
<1>2. PlannerOK'
  BY DEF RollBack, PlannerOK, IdlePlanner, InTransaction
<1> QED
  BY <1>1, <1>2 DEF TaskInv

LEMMA PersistWriteStep == ASSUME TaskInv, PersistWrite PROVE TaskInv'
<1>1. planner.step = "write" /\ planner \in Writing /\ task[planner.task] # Absent /\ planner.task \in Task
  BY DEF PersistWrite, TaskInv, PlannerOK, Planning, Writing, IdlePlanner
<1>2. UNCHANGED <<today, user>>
  BY DEF PersistWrite
<1>3. UserOK'
  BY <1>2 DEF TaskInv, UserOK
<1> DEFINE t == planner.task
<1>4. CASE <<t, today>> \in planned
  <2>1. RollBack
    BY <1>4 DEF PersistWrite
  <2> QED
    BY <1>1, <1>2, <1>3, <2>1, RollBackStep DEF InTransaction
<1>5. CASE <<t, today>> \notin planned
  <2> DEFINE r == [task[t] EXCEPT !.day = today, !.slot = "planner", !.status = "scheduled"]
  <2>1. /\ Rows(task, planned) /\ task[t] \in TaskRow /\ today \in 0..LastDay /\ today \in Int
        /\ planned' = planned \union {<<t, today>>} /\ UNCHANGED <<history, saved>>
        /\ planner' = [step |-> "persist", caller |-> planner.caller, plan |-> planner.plan, todo |-> planner.todo \ {t}]
    BY <1>1, <1>5, TaskAssumption DEF TaskInv, Stored, Rows, RowOK, PersistWrite
  <2>2. task' = [task EXCEPT ![t] = r]
    BY <1>1, <1>5, <2>1 DEF PersistWrite, Rows
  <2>3. r \in TaskRow /\ r.day = today
    BY <2>1 DEF TaskRow, Statuses
  <2> HIDE DEF r
  <2>4. planned' \subseteq Task \X (0..LastDay) /\ planned \subseteq planned' /\ <<t, today>> \in planned'
    BY <1>1, <2>1 DEF Rows
  <2>5. RowOK(t, r, planned')
    BY <2>3, <2>4 DEF RowOK, Told
  <2>6. Rows(task', planned')
    BY <1>1, <2>1, <2>2, <2>4, <2>5, OneRow
  <2>7. planner' \in Planning /\ planner'.step = "persist"
    BY <1>1, <2>1 DEF Planning, Writing
  <2>8. PlannerOK'
    <3>1. Stored(saved.task, saved.planned, saved.history)
      BY <1>1 DEF TaskInv, PlannerOK, InTransaction
    <3> QED
      BY <2>1, <2>7, <3>1 DEF PlannerOK
  <2> QED
    BY <1>2, <1>3, <2>1, <2>6, <2>8 DEF TaskInv, Stored
<1> QED
  BY <1>4, <1>5

LEMMA PersistEndStep == ASSUME TaskInv, PersistEnd PROVE TaskInv'
<1>1. planner.step = "persist" /\ planner \in Planning
  BY DEF PersistEnd, TaskInv, PlannerOK, Planning, Writing, IdlePlanner
<1>2. UNCHANGED <<task, today, user, planned, history>>
  BY DEF PersistEnd
<1>3. PlannerOK'
  <2>1. CASE planner.caller = "load"
    <3>1. planner' = IdlePlanner
      BY <2>1 DEF PersistEnd
    <3> QED
      BY <3>1 DEF PlannerOK, IdlePlanner, InTransaction
  <2>2. CASE planner.caller # "load"
    <3>1. planner' = [planner EXCEPT !.caller = "load", !.todo = planner.plan] /\ saved' = Database
      BY <2>2 DEF PersistEnd
    <3>2. planner' \in Planning /\ planner'.step = "persist"
      BY <1>1, <3>1 DEF Planning
    <3>3. Stored(saved'.task, saved'.planned, saved'.history)
      BY <3>1 DEF Database, TaskInv
    <3> QED
      BY <3>2, <3>3 DEF PlannerOK
  <2> QED
    BY <2>1, <2>2
<1> QED
  BY <1>2, <1>3 DEF TaskInv, UserOK

LEMMA CloseStep == ASSUME TaskInv, Close PROVE TaskInv'
<1>1. user' = IdleUser /\ today' = today
  BY DEF Close
<1>2. UserOK'
  BY <1>1 DEF UserOK
<1>3. CASE InTransaction
  <2>1. RollBack
    BY <1>3 DEF Close
  <2> QED
    BY <1>1, <1>2, <1>3, <2>1, RollBackStep
<1>4. CASE ~InTransaction
  <2>1. planner' = IdlePlanner /\ UNCHANGED <<task, planned, history, saved>>
    BY <1>4 DEF Close
  <2>2. PlannerOK'
    BY <2>1 DEF PlannerOK, IdlePlanner, InTransaction
  <2> QED
    BY <1>1, <1>2, <2>1, <2>2 DEF TaskInv
<1> QED
  BY <1>3, <1>4

LEMMA NextDayStep == ASSUME TaskInv, NextDay PROVE TaskInv'
<1>1. today' = today + 1 /\ today < LastDay /\ UNCHANGED <<task, user, planner, saved, planned, history>>
  BY DEF NextDay
<1>2. today' \in 0..LastDay
  BY <1>1, TaskAssumption DEF TaskInv
<1> QED
  BY <1>1, <1>2, PlannerStays DEF TaskInv, UserOK

LEMMA TaskStep == ASSUME TaskInv, TaskNext PROVE TaskInv'
<1>1. ASSUME UserNext PROVE TaskInv'
  <2>1. ASSUME NEW t \in Task, \/ Read("start", t, "none", NoDay) \/ Read("complete", t, "none", NoDay) \/ Read("reopen", t, "none", NoDay)
                              \/ Read("reschedule", t, "none", today + 1)
        PROVE TaskInv'
    <3>1. NoDay \in Int /\ today + 1 \in Int
      BY TaskAssumption DEF NoDay, TaskInv
    <3> QED
      BY <2>1, <3>1, ReadStep DEF Operations
  <2>2. ASSUME NEW t \in Task, NEW r \in {"none", "fatigue", "procrastination"}, Read("cancel", t, r, NoDay) \/ Read("postpone", t, r, NoDay)
        PROVE TaskInv'
    BY <2>2, ReadStep DEF Operations, NoDay
  <2> QED
    BY <1>1, <2>1, <2>2, CreateStep, WriteStep, RecordStep DEF UserNext
<1>2. ASSUME TaskPlannerNext PROVE TaskInv'
  BY <1>2, BeginStep, BuildStep, ReleaseStep, PersistReadStep, PersistWriteStep, PersistEndStep DEF TaskPlannerNext, PlannerWrites
<1> QED
  BY <1>1, <1>2, CloseStep, NextDayStep DEF TaskNext

LEMMA TaskInvStays == TaskInv /\ [TaskNext]_taskVars => TaskInv'
<1>1. ASSUME TaskInv, UNCHANGED taskVars PROVE TaskInv'
  <2>1. UNCHANGED <<task, today, user, planner, saved, planned, history>>
    BY <1>1 DEF taskVars
  <2> QED
    BY <1>1, <2>1, PlannerStays DEF TaskInv, UserOK
<1> QED
  BY <1>1, TaskStep

LEMMA RowsAreOnRecord == TaskInv => TaskTypeOK /\ PlannedIsOnRecord
<1> SUFFICES ASSUME TaskInv PROVE TaskTypeOK /\ PlannedIsOnRecord
  OBVIOUS
<1>1. \A t \in Task : (task[t] = Absent \/ task[t] \in TaskRow) /\ Told(t, task[t], planned)
  BY DEF TaskInv, Stored, Rows, RowOK
<1>2. planner.step \in {"idle", "release", "build", "persist", "write"}
  BY DEF TaskInv, PlannerOK, Planning, Writing, IdlePlanner
<1>3. TaskTypeOK
  BY <1>1, <1>2 DEF TaskTypeOK, TaskInv, Stored, Rows, Exists, Absent, TaskRow, Statuses
<1>4. PlannedIsOnRecord
  BY <1>1 DEF PlannedIsOnRecord, Told, Exists, Absent
<1> QED
  BY <1>3, <1>4

(* A slot the planner gave has the history row that says so, with the user at *)
(* work in the middle of the plan's transaction, after a plan that failed and  *)
(* wherever the app is closed (PlannerService.persist and rebuildRemainingDay).*)
THEOREM PlansAreOnRecord == TaskSpec => [](TaskTypeOK /\ PlannedIsOnRecord)
BY TaskStarts, TaskInvStays, RowsAreOnRecord, PTL DEF TaskSpec

-----------------------------------------------------------------------------
(* While the user and the planner take turns. *)
Limit(r) == IF r.as.strict THEN 0 ELSE 2
Asked(r, n) == IF r = Absent THEN n = 0 ELSE n <= r.count /\ n <= Limit(r)
AllAsked(tk, h) == \A t \in Task : Asked(tk[t], h[t].unexplained)

(* The postponement in progress may be counted. *)
MayCount == user.reason = "none" /\ ~Closed(user.was) => ~user.was.as.strict /\ user.was.count < 2
Ahead ==
    user # IdleUser /\ user.op = "postpone" =>
      /\ MayCount /\ history[user.task].unexplained <= user.was.count
      /\ user.step = "write" => task[user.task] = user.was
      /\ user.step = "record" => task[user.task] # Absent /\ task[user.task].as = user.was.as
                                 /\ task[user.task].count = user.was.count + 1

TurnInv ==
    /\ user = IdleUser \/ planner = IdlePlanner
    /\ AllAsked(task, history) /\ Ahead
    /\ InTransaction => AllAsked(saved.task, saved.history)

(* The same rows, but for their place in the plan. *)
SameCount(old, new) == (new = Absent <=> old = Absent) /\ (old # Absent => new.count = old.count /\ new.as = old.as)
LEMMA AskedStays ==
    ASSUME AllAsked(task, history), history' = history, \A t \in Task : SameCount(task[t], task'[t])
    PROVE  AllAsked(task', history')
BY DEF AllAsked, Asked, Limit, SameCount

LEMMA PlannerTurn ==
    ASSUME TaskInv, TurnInv, Overlap = FALSE, TaskPlannerNext
    PROVE  TurnInv'
<1>1. user = IdleUser /\ user' = user
  <2>1. ASSUME NEW c, Begin(c) PROVE user = IdleUser /\ user' = user
    BY <2>1 DEF Begin
  <2>2. ASSUME Build \/ PlannerWrites PROVE user = IdleUser /\ user' = user
    <3>1. planner # IdlePlanner
      <4>1. planner.step # "idle"
        <5>1. ASSUME Build PROVE planner.step # "idle"
          BY <5>1 DEF Build
        <5>2. ASSUME PlannerWrites PROVE planner.step # "idle"
          BY <5>2 DEF PlannerWrites, Release, PersistRead, PersistWrite, PersistEnd
        <5> QED
          BY <2>2, <5>1, <5>2
      <4> QED
        BY <4>1 DEF IdlePlanner
    <3>2. user' = user
      BY <2>2 DEF PlannerWrites, Build, Release, PersistRead, PersistWrite, PersistEnd
    <3> QED
      BY <3>1, <3>2 DEF TurnInv
  <2> QED
    BY <2>1, <2>2 DEF TaskPlannerNext
<1>2. Ahead'
  BY <1>1 DEF Ahead
<1>3. Rows(task, planned)
  BY DEF TaskInv, Stored
<1>4. CASE PersistWrite /\ RollBack
  <2>1. AllAsked(task', history')
    BY <1>4 DEF PersistWrite, RollBack, TurnInv, InTransaction
  <2> QED
    BY <1>1, <1>2, <1>4, <2>1 DEF TurnInv, RollBack, InTransaction, IdlePlanner
<1>5. ASSUME ~(PersistWrite /\ RollBack)
      PROVE  TurnInv'
  <2>1. history' = history
    BY <1>5 DEF TaskPlannerNext, PlannerWrites, Begin, Build, Release, PersistRead, PersistWrite, PersistEnd
  <2>2. \A t \in Task : SameCount(task[t], task'[t])
    <3>1. CASE Release
      <4>1. task' = task \/ \E t \in planner.todo : task[t] # Absent /\ t \in Task /\ task' = [task EXCEPT ![t].slot = "none", ![t].status = "todo"]
        BY <3>1 DEF Release, TaskInv, PlannerOK, Planning, Writing, IdlePlanner
      <4>2. CASE task' = task
        BY <4>2 DEF SameCount
      <4>3. ASSUME NEW t \in Task, task[t] # Absent, task' = [task EXCEPT ![t].slot = "none", ![t].status = "todo"]
            PROVE  \A u \in Task : SameCount(task[u], task'[u])
        <5> DEFINE r == [task[t] EXCEPT !.slot = "none", !.status = "todo"]
        <5>1. task[t] \in TaskRow
          BY <1>3, <4>3 DEF Rows, RowOK
        <5>2. r \in TaskRow /\ r.count = task[t].count /\ r.as = task[t].as
          BY <5>1 DEF TaskRow, Statuses
        <5>3. \A u \in Task : task'[u] = IF u = t THEN r ELSE task[u]
          BY <1>3, <4>3 DEF Rows
        <5> HIDE DEF r
        <5> QED
          BY <4>3, <5>2, <5>3, AbsentIsNoRow DEF SameCount
      <4> QED
        BY <4>1, <4>2, <4>3
    <3>2. CASE PersistWrite
      <4> DEFINE t == planner.task
                 r == [task[t] EXCEPT !.day = today, !.slot = "planner", !.status = "scheduled"]
      <4>1. t \in Task /\ task[t] # Absent
        BY <3>2 DEF PersistWrite, TaskInv, PlannerOK, Planning, Writing, IdlePlanner
      <4>2. task[t] \in TaskRow /\ today \in Int
        BY <1>3, <4>1, TaskAssumption DEF Rows, RowOK, TaskInv
      <4>3. r \in TaskRow /\ r.count = task[t].count /\ r.as = task[t].as
        BY <4>2 DEF TaskRow, Statuses
      <4>4. task' = [task EXCEPT ![t].day = today, ![t].slot = "planner", ![t].status = "scheduled"]
        BY <1>5, <3>2 DEF PersistWrite
      <4>5. \A u \in Task : task'[u] = IF u = t THEN r ELSE task[u]
        BY <1>3, <4>1, <4>4 DEF Rows
      <4> HIDE DEF r
      <4> QED
        BY <4>1, <4>3, <4>5, AbsentIsNoRow DEF SameCount
    <3>3. CASE ~Release /\ ~PersistWrite
      <4>1. task' = task
        BY <3>3 DEF TaskPlannerNext, PlannerWrites, Begin, Build, PersistRead, PersistEnd
      <4> QED
        BY <4>1 DEF SameCount
    <3> QED
      BY <3>1, <3>2, <3>3
  <2>3. AllAsked(task', history')
    BY <2>1, <2>2, AskedStays DEF TurnInv
  <2>4. (saved' = saved /\ InTransaction) \/ saved' = Database \/ ~InTransaction'
    <3>1. ASSUME NEW c, Begin(c) PROVE saved' = Database \/ ~InTransaction'
      BY <3>1 DEF Begin, InTransaction
    <3>2. CASE Build
      BY <3>2 DEF Build
    <3>3. CASE Release
      <4>1. planner.step = "release" /\ planner \in Planning
        BY <3>3 DEF Release, TaskInv, PlannerOK, Planning, Writing, IdlePlanner
      <4>2. CASE planner.todo = {}
        BY <3>3, <4>1, <4>2 DEF Release, Planning, InTransaction
      <4>3. CASE planner.todo # {}
        BY <3>3, <4>1, <4>3 DEF Release, InTransaction
      <4> QED
        BY <4>2, <4>3
    <3>4. CASE PersistRead
      BY <3>4 DEF PersistRead, InTransaction
    <3>5. CASE PersistWrite
      BY <1>5, <3>5 DEF PersistWrite, InTransaction
    <3>6. CASE PersistEnd
      BY <3>6 DEF PersistEnd, InTransaction, IdlePlanner
    <3> QED
      BY <3>1, <3>2, <3>3, <3>4, <3>5, <3>6 DEF TaskPlannerNext, PlannerWrites
  <2>5. InTransaction' => AllAsked(saved'.task, saved'.history)
    BY <2>4 DEF TurnInv, Database
  <2> QED
    BY <1>1, <1>2, <2>3, <2>5 DEF TurnInv
<1> QED
  BY <1>4, <1>5

LEMMA UserTurn ==
    ASSUME TaskInv, TurnInv, Overlap = FALSE, UserNext
    PROVE  TurnInv'
<1>1. planner = IdlePlanner /\ planner' = planner
  BY DEF UserNext, Create, Read, WriteRow, RecordHistory, UserMayAct, TurnInv, IdleUser
<1>2. ~InTransaction'
  BY <1>1 DEF InTransaction, IdlePlanner
<1>3. Rows(task, planned) /\ history \in [Task -> Counts]
  BY DEF TaskInv, Stored
<1>4. ASSUME Create PROVE AllAsked(task', history') /\ Ahead'
  <2>1. PICK t \in Task, a \in Attributes, d \in {NoDay, today} : ~Exists(t) /\ task' = [task EXCEPT ![t] = Fresh(a, d)]
    BY <1>4 DEF Create
  <2>2. a \in TaskKinds /\ d \in Int
    BY TaskAssumption DEF TaskInv, NoDay
  <2> DEFINE r == Fresh(a, d)
  <2>3. r \in TaskRow /\ r.count = 0
    BY <2>2, FreshIsRow
  <2> HIDE DEF r
  <2>4. history' = history /\ user' = IdleUser /\ task[t] = Absent
    BY <1>3, <1>4, <2>1 DEF Create, UserMayAct, Exists, Rows, RowOK, TaskRow
  <2>5. \A u \in Task : task'[u] = IF u = t THEN r ELSE task[u]
    BY <1>3, <2>1 DEF Rows, r
  <2>6. Asked(r, history[t].unexplained)
    <3>1. history[t].unexplained = 0
      BY <2>4 DEF TurnInv, AllAsked, Asked
    <3> QED
      BY <2>3, <3>1, AbsentIsNoRow DEF Asked, Limit
  <2> QED
    BY <2>4, <2>5, <2>6 DEF TurnInv, AllAsked, Ahead
<1>5. ASSUME NEW op, NEW t \in Task, NEW reason, NEW to, Read(op, t, reason, to)
      PROVE  AllAsked(task', history') /\ Ahead'
  <2>1. /\ task' = task /\ history' = history /\ task[t] # Absent
        /\ user' = [op |-> op, task |-> t, was |-> task[t], reason |-> reason, to |-> to, step |-> "write"]
    BY <1>5 DEF Read, Exists, Absent
  <2>2. op = "postpone" => (reason = "none" /\ ~Closed(task[t]) => ~task[t].as.strict /\ task[t].count < 2)
    <3>1. task[t] \in TaskRow
      BY <1>3, <2>1 DEF Rows, RowOK
    <3>2. task[t].count \in Int
      BY <3>1, TaskAssumption DEF TaskRow
    <3> QED
      BY <1>5, <3>2 DEF Read, IsProtected
  <2>3. history[t].unexplained <= task[t].count
    BY <2>1 DEF TurnInv, AllAsked, Asked
  <2>4. AllAsked(task', history')
    BY <2>1 DEF TurnInv
  <2>5. Ahead'
    BY <2>1, <2>2, <2>3 DEF Ahead, MayCount
  <2> QED
    BY <2>4, <2>5
<1>6. ASSUME WriteRow PROVE AllAsked(task', history') /\ Ahead'
  <2> DEFINE t == user.task
             new == Written(user, task[t])
  <2>1. /\ user \in Acting /\ (user.op = "postpone" => user.was.count < MaxCount) /\ user # IdleUser
        /\ user.step = "write" /\ history' = history /\ today \in 0..LastDay
    BY <1>6 DEF TaskInv, UserOK, WriteRow, IdleUser
  <2>2. /\ t \in Task /\ user'.op = user.op /\ user'.was = user.was /\ user'.task = t /\ user'.reason = user.reason
        /\ user'.step = "record" /\ user' # IdleUser
    BY <1>6, <2>1 DEF WriteRow, Acting, IdleUser
  <2>3. CASE ~Exists(t)
    <3>1. task' = task /\ task[t] = Absent
      BY <1>3, <1>6, <2>2, <2>3 DEF WriteRow, Exists, Rows, RowOK, TaskRow
    <3>2. user.op # "postpone"
      BY <2>1, <3>1, AbsentIsNoRow DEF TurnInv, Ahead, Acting
    <3> QED
      BY <2>1, <2>2, <3>1, <3>2 DEF TurnInv, Ahead
  <2>4. CASE Exists(t)
    <3>1. task[t] \in TaskRow
      BY <1>3, <2>2, <2>4 DEF Rows, RowOK, Exists, Absent
    <3>2. Rewritten(user, task[t], new)
      BY <2>1, <3>1, WritesARow
    <3>3. \A u \in Task : task'[u] = IF u = t THEN new ELSE task[u]
      BY <1>3, <1>6, <2>4 DEF WriteRow, Rows
    <3> HIDE DEF new
    <3>4. new # Absent /\ new.as = task[t].as /\ new.count = IF user.op = "postpone" THEN user.was.count + 1 ELSE task[t].count
      BY <3>2, AbsentIsNoRow DEF Rewritten
    <3>5. /\ history[t].unexplained <= task[t].count /\ history[t].unexplained <= Limit(task[t])
          /\ history[t].unexplained \in Int /\ task[t].count \in Int
      BY <1>3, <2>2, <3>1, AbsentIsNoRow, TaskAssumption DEF TurnInv, AllAsked, Asked, Counts, TaskRow
    <3>6. user.op = "postpone" => task[t] = user.was /\ history[t].unexplained <= user.was.count /\ MayCount
      BY <2>1 DEF TurnInv, Ahead
    <3>7. Asked(new, history[t].unexplained)
      BY <3>4, <3>5, <3>6 DEF Asked, Limit
    <3>8. AllAsked(task', history')
      BY <2>1, <3>3, <3>7 DEF TurnInv, AllAsked
    <3>9. Ahead'
      BY <2>1, <2>2, <3>3, <3>4, <3>6 DEF Ahead, MayCount
    <3> QED
      BY <3>8, <3>9
  <2> QED
    BY <2>3, <2>4
<1>7. ASSUME RecordHistory PROVE AllAsked(task', history') /\ Ahead'
  <2> DEFINE t == user.task
             counted == user.op = "postpone" /\ user.reason = "none" /\ ~Closed(user.was)
             n == history[t].unexplained + (IF counted THEN 1 ELSE 0)
  <2>1. user \in Acting /\ user # IdleUser /\ user.step = "record" /\ user' = IdleUser /\ t \in Task
    BY <1>7 DEF TaskInv, UserOK, RecordHistory, IdleUser, Acting
  <2>2. Ahead'
    BY <2>1 DEF Ahead
  <2>3. CASE ~Exists(t)
    <3>1. task' = task /\ history' = history
      BY <1>7, <2>3 DEF RecordHistory
    <3> QED
      BY <2>2, <3>1 DEF TurnInv
  <2>4. CASE Exists(t)
    <3>1. task[t] \in TaskRow /\ task[t] # Absent
      BY <1>3, <2>1, <2>4 DEF Rows, RowOK, Exists, Absent
    <3>2. \A u \in Task : history'[u].unexplained = IF u = t THEN n ELSE history[u].unexplained
      BY <1>3, <1>7, <2>1, <2>4 DEF RecordHistory, Counts
    <3>3. Asked(task[t], n)
      <4>1. /\ history[t].unexplained <= task[t].count /\ history[t].unexplained <= Limit(task[t])
            /\ history[t].unexplained \in Int /\ task[t].count \in Int
        BY <1>3, <2>1, <3>1, TaskAssumption DEF TurnInv, AllAsked, Asked, Counts, TaskRow
      <4>2. counted => /\ ~task[t].as.strict /\ user.was.count < 2 /\ task[t].count = user.was.count + 1
                       /\ history[t].unexplained <= user.was.count /\ user.was.count \in Int
        BY <2>1, TaskAssumption DEF TurnInv, Ahead, MayCount, Acting, TaskRow
      <4> QED
        BY <3>1, <4>1, <4>2 DEF Asked, Limit
    <3> HIDE DEF n
    <3>4. AllAsked(task, history')
      BY <3>2, <3>3 DEF TurnInv, AllAsked
    <3>5. task' = task \/ \E m \in Task : ~Exists(m) /\ task' = [task EXCEPT ![m] = Fresh([user.was.as EXCEPT !.daily = FALSE], today)]
      BY <1>7 DEF RecordHistory
    <3>6. ASSUME NEW m \in Task, ~Exists(m), task' = [task EXCEPT ![m] = Fresh([user.was.as EXCEPT !.daily = FALSE], today)]
          PROVE  AllAsked(task', history')
      <4> DEFINE a == [user.was.as EXCEPT !.daily = FALSE]
                 r == Fresh(a, today)
      <4>1. a \in TaskKinds /\ today \in Int
        <5>1. user.was.as \in TaskKinds
          BY <2>1 DEF Acting, TaskRow
        <5>2. today \in Int
          BY TaskAssumption DEF TaskInv
        <5> QED
          BY <5>1, <5>2 DEF TaskKinds
      <4> HIDE DEF a
      <4>2. r \in TaskRow /\ r.count = 0
        BY <4>1, FreshIsRow
      <4>3. \A u \in Task : task'[u] = IF u = m THEN r ELSE task[u]
        BY <1>3, <3>6 DEF Rows, a
      <4> HIDE DEF r
      <4>4. task[m] = Absent
        BY <1>3, <3>6 DEF Exists, Rows, RowOK, TaskRow
      <4>5. Asked(r, history'[m].unexplained)
        <5>1. history'[m].unexplained = 0
          BY <3>4, <4>4 DEF AllAsked, Asked
        <5> QED
          BY <4>2, <5>1, AbsentIsNoRow DEF Asked, Limit
      <4> QED
        BY <3>4, <4>3, <4>5 DEF AllAsked
    <3> QED
      BY <2>2, <3>4, <3>5, <3>6
  <2> QED
    BY <2>3, <2>4
<1>8. AllAsked(task', history') /\ Ahead'
  BY <1>4, <1>5, <1>6, <1>7 DEF UserNext
<1> QED
  BY <1>1, <1>2, <1>8 DEF TurnInv

LEMMA TurnStarts == TaskInit => TurnInv
<1> SUFFICES ASSUME TaskInit PROVE TurnInv
  OBVIOUS
<1>1. PICK t \in Task, a \in Attributes, d \in {NoDay, 0}, n \in 0..1 :
         /\ n = 1 => ~a.strict /\ d = 0
         /\ task = [u \in Task |-> IF u = t THEN [Fresh(a, d) EXCEPT !.count = n] ELSE Absent]
         /\ history = [u \in Task |-> [postponed |-> IF u = t THEN n ELSE 0, unexplained |-> IF u = t THEN n ELSE 0]]
  BY DEF TaskInit
<1> DEFINE f == Fresh(a, d)
           r == [f EXCEPT !.count = n]
<1>2. a \in TaskKinds /\ d \in Int
  BY TaskAssumption DEF NoDay
<1>3. f \in TaskRow /\ f.as = a
  BY <1>2, FreshIsRow
<1>4. \A u \in Task : task[u] = (IF u = t THEN r ELSE Absent) /\ history[u].unexplained = IF u = t THEN n ELSE 0
  BY <1>1
<1> HIDE DEF f
<1>5. r # Absent /\ r.count = n /\ r.as = a
  BY <1>3 DEF TaskRow, Absent
<1> HIDE DEF r
<1>7. Asked(r, n)
  <2>1. n = 0 \/ (n = 1 /\ ~a.strict)
    BY <1>1
  <2> QED
    BY <1>5, <2>1 DEF Asked, Limit
<1>8. Asked(Absent, 0)
  BY DEF Asked
<1>6. AllAsked(task, history)
  <2>1. SUFFICES ASSUME NEW u \in Task PROVE Asked(task[u], history[u].unexplained)
    BY DEF AllAsked
  <2>2. CASE u = t
    BY <1>4, <1>7, <2>2
  <2>3. CASE u # t
    BY <1>4, <1>8, <2>3
  <2> QED
    BY <2>2, <2>3
<1> QED
  BY <1>6 DEF TaskInit, TurnInv, Ahead, InTransaction, IdlePlanner

LEMMA TurnStays == TaskInv /\ TurnInv /\ Overlap = FALSE /\ [TaskNext]_taskVars => TurnInv'
<1> SUFFICES ASSUME TaskInv, TurnInv, Overlap = FALSE, [TaskNext]_taskVars PROVE TurnInv'
  OBVIOUS
<1>1. CASE Close
  <2>1. user' = IdleUser /\ planner' = IdlePlanner
    BY <1>1 DEF Close, RollBack
  <2>2. AllAsked(task', history')
    BY <1>1 DEF Close, RollBack, TurnInv
  <2> QED
    BY <2>1, <2>2 DEF TurnInv, Ahead, InTransaction, IdlePlanner
<1>2. CASE NextDay
  BY <1>2 DEF NextDay, TurnInv, Ahead, MayCount, InTransaction
<1>3. CASE UNCHANGED taskVars
  BY <1>3 DEF taskVars, TurnInv, Ahead, MayCount, InTransaction
<1> QED
  BY <1>1, <1>2, <1>3, PlannerTurn, UserTurn DEF TaskNext

LEMMA TurnsAreOnRecord == TaskInv /\ TurnInv => TasksAreOnRecord
<1> SUFFICES ASSUME TaskInv, TurnInv PROVE UnexplainedAtMostTwice
  BY RowsAreOnRecord DEF TasksAreOnRecord
<1> QED
  BY DEF UnexplainedAtMostTwice, TurnInv, AllAsked, Asked, Limit, Exists, Absent

(* While the user and the planner take turns, a task is put off without a     *)
(* reason as often as its count and its strictness allow, and each task of a   *)
(* plan is on record (TaskService.postpone, PlannerService.persist).           *)
THEOREM ReasonsAreAsked == Overlap = FALSE => (TaskSpec => []TasksAreOnRecord)
<1> SUFFICES ASSUME Overlap = FALSE PROVE TaskSpec => []TasksAreOnRecord
  OBVIOUS
<1>1. TaskInv /\ TurnInv /\ [TaskNext]_taskVars => TurnInv'
  BY TurnStays
<1> QED
  BY <1>1, TaskStarts, TurnStarts, TaskInvStays, TurnsAreOnRecord, PTL DEF TaskSpec
=============================================================================
