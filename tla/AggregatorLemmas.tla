------------------------- MODULE AggregatorLemmas -------------------------
(***************************************************************************)
(* What the operators of Aggregator return, for any sequence: the total of *)
(* its values, the difference along a growing series, and what the filter  *)
(* leaves of it.  Then, what the filters of a process answer, for any list *)
(* of them, and the types of the points a message becomes.                 *)
(*                                                                         *)
(* They are recursive functions over an index, so the lemmas go by         *)
(* induction.  The induction theorems of the library have an operator as a *)
(* parameter; what is used here instead is that a set of natural numbers   *)
(* has a smallest element (NatLessThanWellFounded and WFMin).              *)
(***************************************************************************)
EXTENDS Aggregator, SequenceTheorems, WellFoundedInduction, TLAPS

-----------------------------------------------------------------------------
(* Induction and recursion *)

\* A set of natural numbers that holds zero and every successor holds all of them.
LEMMA NaturalsByInduction ==
    ASSUME NEW S, 0 \in S, \A n \in Nat : n \in S => n + 1 \in S
    PROVE  Nat \subseteq S
<1> DEFINE T == Nat \ S
<1> SUFFICES ASSUME T # {} PROVE FALSE
  OBVIOUS
<1>1. PICK x \in T : \A y \in T : <<y, x>> \notin OpToRel(<, Nat)
  <2>1. T \subseteq Nat
    OBVIOUS
  <2> HIDE DEF T
  <2> QED BY <2>1, NatLessThanWellFounded, WFMin
<1>2. ASSUME NEW y \in T PROVE ~(y < x)
  <2>1. <<y, x>> \in Nat \X Nat
    OBVIOUS
  <2> QED BY <1>1, <2>1 DEF OpToRel
<1>3. x - 1 \in Nat /\ x - 1 \in S
  BY <1>2
<1> QED BY <1>3

\* The same up to a bound.
LEMMA IntervalByInduction ==
    ASSUME NEW N \in Nat, NEW S, 0 \in S, \A i \in 1 .. N : i - 1 \in S => i \in S
    PROVE  0 .. N \subseteq S
<1> DEFINE T == {n \in Nat : n <= N => n \in S}
<1>1. 0 \in T
  OBVIOUS
<1>2. ASSUME NEW n \in Nat, n \in T PROVE n + 1 \in T
  <2>1. SUFFICES ASSUME n + 1 <= N PROVE n + 1 \in S
    OBVIOUS
  <2>2. n + 1 \in 1 .. N /\ (n + 1) - 1 = n /\ n <= N
    BY <2>1
  <2> QED BY <1>2, <2>2
<1>3. Nat \subseteq T
  <2> HIDE DEF T
  <2> QED BY <1>1, <1>2, NaturalsByInduction
<1> QED BY <1>3

\* The function that a recursion over an index defines.
Recursion(N, a, h, f) == [i \in 0 .. N |-> IF i = 0 THEN a ELSE h[i][f[i - 1]]]

\* It exists, and its values have a type when the first one has and a step keeps it.
LEMMA RecursionExists ==
    ASSUME NEW N \in Nat, NEW S, NEW a \in S, NEW h \in [1 .. N -> [S -> S]]
    PROVE  \E f \in [0 .. N -> S] : f = Recursion(N, a, h, f)
<1> DEFINE T == {n \in 0 .. N : \E f \in [0 .. n -> S] :
                    f[0] = a /\ \A i \in 1 .. n : f[i] = h[i][f[i - 1]]}
<1>1. 0 \in T
  <2> DEFINE z == [i \in 0 .. 0 |-> a]
  <2>1. z \in [0 .. 0 -> S] /\ z[0] = a
    OBVIOUS
  <2> HIDE DEF z
  <2>2. \A i \in 1 .. 0 : z[i] = h[i][z[i - 1]]
    OBVIOUS
  <2>3. 0 \in 0 .. N
    OBVIOUS
  <2> QED BY <2>1, <2>2, <2>3
<1>2. ASSUME NEW n \in 1 .. N, n - 1 \in T PROVE n \in T
  <2>1. PICK f \in [0 .. n - 1 -> S] :
           f[0] = a /\ \A i \in 1 .. n - 1 : f[i] = h[i][f[i - 1]]
    BY <1>2
  <2> DEFINE g == [i \in 0 .. n |-> IF i = n THEN h[n][f[n - 1]] ELSE f[i]]
  <2>2. f[n - 1] \in S /\ h[n] \in [S -> S]
    OBVIOUS
  <2>3. g \in [0 .. n -> S]
    <3>1. \A i \in 0 .. n : i # n => f[i] \in S
      OBVIOUS
    <3> QED BY <2>2, <3>1
  <2>4. \A i \in 0 .. n : g[i] = IF i = n THEN h[n][f[n - 1]] ELSE f[i]
    OBVIOUS
  <2> HIDE DEF g
  <2>5. g[0] = a
    BY <2>1, <2>4
  <2>6. ASSUME NEW i \in 1 .. n PROVE g[i] = h[i][g[i - 1]]
    <3>1. g[i - 1] = f[i - 1]
      BY <2>4
    <3>2. CASE i = n
      BY <2>4, <3>1, <3>2
    <3>3. CASE i # n
      BY <2>1, <2>4, <3>1, <3>3
    <3> QED BY <3>2, <3>3
  <2> QED BY <2>3, <2>5, <2>6
<1>3. N \in T
  <2> HIDE DEF T
  <2>1. 0 .. N \subseteq T
    BY <1>1, <1>2, IntervalByInduction
  <2> QED BY <2>1
<1>4. PICK f \in [0 .. N -> S] : f[0] = a /\ \A i \in 1 .. N : f[i] = h[i][f[i - 1]]
  BY <1>3
<1>5. f = Recursion(N, a, h, f)
  <2>1. \A i \in 0 .. N : f[i] = IF i = 0 THEN a ELSE h[i][f[i - 1]]
    BY <1>4
  <2> QED BY <2>1 DEF Recursion
<1> QED BY <1>5

\* The same for sums that start at zero.
LEMMA IntegersByRecursion ==
    ASSUME NEW N \in Nat, NEW h
    PROVE  h \in [1 .. N -> [Int -> Int]] =>
              \E f \in [0 .. N -> Int] : f = Recursion(N, 0, h, f)
<1> DEFINE I == Int
           zero == 0
<1>1. SUFFICES ASSUME h \in [1 .. N -> [I -> I]]
               PROVE  \E f \in [0 .. N -> I] : f = Recursion(N, zero, h, f)
  OBVIOUS
<1>2. zero \in I
  OBVIOUS
<1> HIDE DEF I, zero
<1> QED BY <1>1, <1>2, RecursionExists

-----------------------------------------------------------------------------
(* Totals *)

LEMMA TotalIsRecursive ==
    ASSUME NEW values \in Seq(Int)
    PROVE  \E r \in [0 .. Len(values) -> Int] :
              /\ r[0] = 0
              /\ \A i \in 1 .. Len(values) : r[i] = r[i - 1] + values[i]
              /\ Total(values) = r[Len(values)]
<1> DEFINE N == Len(values)
           h == [i \in 1 .. N |-> [x \in Int |-> x + values[i]]]
           D(f) == [i \in 0 .. N |-> IF i = 0 THEN 0 ELSE f[i - 1] + values[i]]
           r == CHOOSE f : f = D(f)
<1>1. N \in Nat /\ \A i \in 1 .. N : values[i] \in Int
  OBVIOUS
<1>2. Total(values) = r[N]
  BY DEF Total
<1> HIDE DEF N
<1>3. h \in [1 .. N -> [Int -> Int]]
  BY <1>1
<1>4. PICK f \in [0 .. N -> Int] : f = Recursion(N, 0, h, f)
  <2> HIDE DEF h
  <2> QED BY <1>1, <1>3, IntegersByRecursion
<1>5. f = D(f)
  <2>1. \A i \in 0 .. N : i # 0 => i \in 1 .. N /\ i - 1 \in 0 .. N
    BY <1>1
  <2>2. \A i \in 1 .. N : h[i][f[i - 1]] = f[i - 1] + values[i]
    BY <1>1, <1>4
  <2> HIDE DEF h
  <2>3. \A i \in 0 .. N : f[i] = IF i = 0 THEN 0 ELSE f[i - 1] + values[i]
    BY <1>4, <2>1, <2>2 DEF Recursion
  <2> QED BY <2>3
<1> HIDE DEF h
<1>6. r = D(r)
  BY <1>5, Zenon
<1> HIDE DEF r
<1>7. r[0] = 0 /\ \A i \in 1 .. N : r[i] = r[i - 1] + values[i]
  BY <1>1, <1>6
<1>8. \A i \in 0 .. N : r[i] \in Int
  <2> DEFINE T == {i \in 0 .. N : r[i] \in Int}
  <2>1. 0 \in T
    BY <1>1, <1>7
  <2>a. ASSUME NEW i \in 1 .. N, i - 1 \in T PROVE i \in T
    <3>1. r[i - 1] \in Int /\ values[i] \in Int
      BY <1>1, <2>a
    <3>2. r[i] = r[i - 1] + values[i]
      BY <1>7
    <3> QED BY <1>1, <3>1, <3>2
  <2>2. 0 .. N \subseteq T
    <3> HIDE DEF T
    <3> QED BY <1>1, <2>1, <2>a, IntervalByInduction
  <2> QED BY <2>2
<1>9. r \in [0 .. N -> Int]
  BY <1>6, <1>8
<1> QED BY <1>2, <1>7, <1>9 DEF N

LEMMA TotalOfNothing == Total(<<>>) = 0
<1>1. <<>> \in Seq(Int) /\ Len(<<>>) = 0
  OBVIOUS
<1> QED BY <1>1, TotalIsRecursive

LEMMA TotalAppended ==
    ASSUME NEW values \in Seq(Int), NEW v \in Int
    PROVE  Total(values) \in Int /\ Total(Append(values, v)) = Total(values) + v
<1> DEFINE N == Len(values)
           longer == Append(values, v)
<1>1. /\ N \in Nat /\ longer \in Seq(Int) /\ Len(longer) = N + 1
      /\ longer[N + 1] = v
      /\ \A i \in 1 .. N : longer[i] = values[i] /\ i \in 1 .. N + 1
  OBVIOUS
<1>2. PICK r \in [0 .. N -> Int] :
        r[0] = 0 /\ (\A i \in 1 .. N : r[i] = r[i - 1] + values[i]) /\ Total(values) = r[N]
  BY TotalIsRecursive
<1> HIDE DEF N, longer
<1>3. PICK q \in [0 .. N + 1 -> Int] :
        /\ q[0] = 0 /\ \A i \in 1 .. N + 1 : q[i] = q[i - 1] + longer[i]
        /\ Total(longer) = q[N + 1]
  BY <1>1, TotalIsRecursive
<1>4. \A i \in 0 .. N : q[i] = r[i]
  <2> DEFINE T == {i \in 0 .. N : q[i] = r[i]}
  <2>1. 0 \in T
    BY <1>1, <1>2, <1>3
  <2>2. ASSUME NEW i \in 1 .. N, i - 1 \in T PROVE i \in T
    BY <1>1, <1>2, <1>3, <2>2
  <2>3. 0 .. N \subseteq T
    <3> HIDE DEF T
    <3> QED BY <1>1, <2>1, <2>2, IntervalByInduction
  <2> QED BY <2>3
<1>5. Total(longer) = q[N] + v /\ q[N] = r[N] /\ r[N] \in Int
  <2>1. N \in 0 .. N /\ N + 1 \in 1 .. N + 1 /\ (N + 1) - 1 = N
    BY <1>1
  <2> QED BY <1>1, <1>3, <1>4, <2>1
<1> QED BY <1>2, <1>5 DEF longer

-----------------------------------------------------------------------------
(* Differences *)

LEMMA Rises ==
    /\ \A a, b \in Int : Rise(a, b) \in Nat
    /\ \A a \in Int : Rise(a, a) = 0
    /\ \A a, b, c \in Int : Rise(a, c) <= Rise(a, b) + Rise(b, c)
BY DEF Rise

LEMMA DifferenceIsRecursive ==
    ASSUME NEW values \in Seq(Int)
    PROVE  \E r \in [0 .. Len(values) -> Nat] :
              /\ \A i \in 0 .. Len(values) : i <= 1 => r[i] = 0
              /\ \A i \in 2 .. Len(values) : r[i] = r[i - 1] + Rise(values[i - 1], values[i])
              /\ CalculateDifference(values) = r[Len(values)]
<1> DEFINE N == Len(values)
           d == [i \in 1 .. N |-> Rise(values[i - 1], values[i])]
           h == [i \in 1 .. N |-> [x \in Int |-> IF i <= 1 THEN 0 ELSE x + d[i]]]
           D(f) == [i \in 0 .. N |->
                     IF i <= 1 THEN 0 ELSE f[i - 1] + Rise(values[i - 1], values[i])]
           r == CHOOSE f : f = D(f)
<1>1. N \in Nat
  OBVIOUS
<1>2. \A i \in 1 .. N : values[i] \in Int
  OBVIOUS
<1>3. CalculateDifference(values) = r[N]
  BY DEF CalculateDifference
<1> HIDE DEF N
<1>4. \A i \in 2 .. N : d[i] = Rise(values[i - 1], values[i]) /\ d[i] \in Nat
  <2> SUFFICES ASSUME NEW i \in 2 .. N
               PROVE  d[i] = Rise(values[i - 1], values[i]) /\ d[i] \in Nat
    OBVIOUS
  <2>1. values[i] \in Int /\ values[i - 1] \in Int /\ i \in 1 .. N
    BY <1>1, <1>2
  <2> QED BY <2>1, Rises
<1> HIDE DEF d
<1>5. h \in [1 .. N -> [Int -> Int]]
  <2>1. \A i \in 1 .. N : ~(i <= 1) => d[i] \in Int
    BY <1>1, <1>4
  <2> QED BY <2>1
<1>6. PICK f \in [0 .. N -> Int] : f = Recursion(N, 0, h, f)
  <2> HIDE DEF h
  <2> QED BY <1>1, <1>5, IntegersByRecursion
<1>7. f = D(f)
  <2>1. \A i \in 1 .. N, x \in Int : h[i][x] = IF i <= 1 THEN 0 ELSE x + d[i]
    OBVIOUS
  <2> HIDE DEF h
  <2>2. \A i \in 0 .. N : f[i] = IF i = 0 THEN 0 ELSE h[i][f[i - 1]]
    BY <1>6 DEF Recursion
  <2>3. ASSUME NEW i \in 0 .. N
        PROVE  f[i] = IF i <= 1 THEN 0 ELSE f[i - 1] + Rise(values[i - 1], values[i])
    <3>1. CASE i = 0
      BY <2>2, <3>1
    <3>2. CASE i # 0
      <4>1. i \in 1 .. N /\ f[i - 1] \in Int
        BY <1>1, <1>6, <3>2
      <4>2. f[i] = IF i <= 1 THEN 0 ELSE f[i - 1] + d[i]
        BY <2>1, <2>2, <3>2, <4>1
      <4>3. ~(i <= 1) => d[i] = Rise(values[i - 1], values[i])
        BY <1>1, <1>4, <4>1
      <4> QED BY <4>2, <4>3
    <3> QED BY <3>1, <3>2
  <2> QED BY <2>3
<1> HIDE DEF h
<1>8. r = D(r)
  BY <1>7, Zenon
<1> HIDE DEF r
<1>9. /\ \A i \in 0 .. N : i <= 1 => r[i] = 0
      /\ \A i \in 2 .. N : r[i] = r[i - 1] + Rise(values[i - 1], values[i])
  BY <1>1, <1>8
<1>10. \A i \in 0 .. N : r[i] \in Nat
  <2> DEFINE T == {i \in 0 .. N : r[i] \in Nat}
  <2>1. 0 \in T
    BY <1>1, <1>9
  <2>2. ASSUME NEW i \in 1 .. N, i - 1 \in T PROVE i \in T
    <3>1. CASE i = 1
      BY <1>1, <1>9, <3>1
    <3>2. CASE i # 1
      <4>1. i \in 2 .. N /\ r[i - 1] \in Nat
        BY <2>2, <3>2
      <4>2. r[i] = r[i - 1] + d[i] /\ d[i] \in Nat
        BY <1>4, <1>9, <4>1
      <4> QED BY <4>1, <4>2
    <3> QED BY <3>1, <3>2
  <2>3. 0 .. N \subseteq T
    <3> HIDE DEF T
    <3> QED BY <1>1, <2>1, <2>2, IntervalByInduction
  <2> QED BY <2>3
<1>11. r \in [0 .. N -> Nat]
  BY <1>8, <1>10
<1> QED BY <1>3, <1>9, <1>11 DEF N

LEMMA DifferenceIsNatural ==
    ASSUME NEW values \in Seq(Int) PROVE CalculateDifference(values) \in Nat
<1>1. Len(values) \in 0 .. Len(values)
  OBVIOUS
<1> QED BY <1>1, DifferenceIsRecursive

LEMMA DifferenceOfOne ==
    ASSUME NEW values \in Seq(Int), Len(values) <= 1
    PROVE  CalculateDifference(values) = 0
<1>1. Len(values) \in 0 .. Len(values)
  OBVIOUS
<1> QED BY <1>1, DifferenceIsRecursive

LEMMA DifferenceAppended ==
    ASSUME NEW values \in Seq(Int), values # <<>>, NEW v \in Int
    PROVE  CalculateDifference(Append(values, v))
             = CalculateDifference(values) + Rise(values[Len(values)], v)
<1> DEFINE N == Len(values)
           longer == Append(values, v)
<1>1. /\ N \in Nat \ {0} /\ longer \in Seq(Int) /\ Len(longer) = N + 1
      /\ longer[N + 1] = v
      /\ \A i \in 1 .. N : longer[i] = values[i] /\ i \in 1 .. N + 1
  OBVIOUS
<1>2. PICK r \in [0 .. N -> Nat] :
        /\ \A i \in 0 .. N : i <= 1 => r[i] = 0
        /\ \A i \in 2 .. N : r[i] = r[i - 1] + Rise(values[i - 1], values[i])
        /\ CalculateDifference(values) = r[N]
  BY DifferenceIsRecursive
<1> HIDE DEF N, longer
<1>3. PICK q \in [0 .. N + 1 -> Nat] :
        /\ \A i \in 0 .. N + 1 : i <= 1 => q[i] = 0
        /\ \A i \in 2 .. N + 1 : q[i] = q[i - 1] + Rise(longer[i - 1], longer[i])
        /\ CalculateDifference(longer) = q[N + 1]
  BY <1>1, DifferenceIsRecursive
<1>4. \A i \in 0 .. N : q[i] = r[i]
  <2> DEFINE T == {i \in 0 .. N : q[i] = r[i]}
  <2>1. 0 \in T
    BY <1>1, <1>2, <1>3
  <2>2. ASSUME NEW i \in 1 .. N, i - 1 \in T PROVE i \in T
    <3>1. CASE i = 1
      BY <1>1, <1>2, <1>3, <3>1
    <3>2. CASE i # 1
      <4>1. /\ i \in 2 .. N /\ i \in 2 .. N + 1 /\ i - 1 \in 1 .. N
            /\ q[i - 1] = r[i - 1]
        BY <1>1, <2>2, <3>2
      <4>2. longer[i] = values[i] /\ longer[i - 1] = values[i - 1]
        BY <1>1, <4>1
      <4>3. /\ q[i] = q[i - 1] + Rise(longer[i - 1], longer[i])
            /\ r[i] = r[i - 1] + Rise(values[i - 1], values[i])
        BY <1>2, <1>3, <4>1
      <4> QED BY <4>1, <4>2, <4>3
    <3> QED BY <3>1, <3>2
  <2>3. 0 .. N \subseteq T
    <3> HIDE DEF T
    <3> QED BY <1>1, <2>1, <2>2, IntervalByInduction
  <2> QED BY <2>3
<1>5. /\ N + 1 \in 2 .. N + 1 /\ (N + 1) - 1 = N /\ N \in 0 .. N
      /\ longer[N] = values[N]
  BY <1>1
<1>6. q[N + 1] = q[N] + Rise(longer[N], longer[N + 1])
  BY <1>3, <1>5
<1>7. q[N] = r[N]
  BY <1>4, <1>5
<1> QED BY <1>1, <1>2, <1>3, <1>5, <1>6, <1>7 DEF longer, N

\* A meter that never starts again: the difference is from the first value to the last
\* (agreggator.go:285 to 305).
THEOREM DifferenceOfGrowingMeter ==
    ASSUME NEW values \in Seq(Int), values # <<>>,
           \A i \in 2 .. Len(values) : values[i - 1] <= values[i]
    PROVE  CalculateDifference(values) = Last(values) - values[1]
<1> DEFINE N == Len(values)
<1>1. N \in Nat \ {0} /\ \A i \in 1 .. N : values[i] \in Int
  OBVIOUS
<1>2. PICK r \in [0 .. N -> Nat] :
        /\ \A i \in 0 .. N : i <= 1 => r[i] = 0
        /\ \A i \in 2 .. N : r[i] = r[i - 1] + Rise(values[i - 1], values[i])
        /\ CalculateDifference(values) = r[N]
  BY DifferenceIsRecursive
<1>3. \A i \in 2 .. N : values[i - 1] <= values[i]
  OBVIOUS
<1>4. Last(values) = values[N]
  BY DEF Last
<1> HIDE DEF N
<1> DEFINE T == {i \in 0 .. N : i >= 1 => r[i] = values[i] - values[1]}
<1>5. 0 \in T
  BY <1>1
<1>6. ASSUME NEW i \in 1 .. N, i - 1 \in T PROVE i \in T
  <2>1. CASE i = 1
    BY <1>1, <1>2, <2>1
  <2>2. CASE i # 1
    <3>1. i \in 2 .. N /\ i - 1 \in 1 .. N /\ 1 \in 1 .. N /\ i \in 0 .. N
      BY <1>1, <2>2
    <3>2. /\ r[i] = r[i - 1] + Rise(values[i - 1], values[i])
          /\ r[i - 1] = values[i - 1] - values[1]
          /\ values[i - 1] <= values[i]
      BY <1>2, <1>3, <1>6, <3>1
    <3>3. values[i - 1] \in Int /\ values[i] \in Int /\ values[1] \in Int
      BY <1>1, <3>1
    <3>4. Rise(values[i - 1], values[i]) = values[i] - values[i - 1]
      BY <3>2 DEF Rise
    <3>5. r[i] = values[i] - values[1]
      BY <3>2, <3>3, <3>4
    <3> QED BY <3>1, <3>5
  <2> QED BY <2>1, <2>2
<1>7. 0 .. N \subseteq T
  <2> HIDE DEF T
  <2> QED BY <1>1, <1>5, <1>6, IntervalByInduction
<1>8. r[N] = values[N] - values[1]
  BY <1>1, <1>7
<1> QED BY <1>2, <1>4, <1>8

\* Rounds add up.  When the last value of a round starts the next one, the differences of
\* the two rounds make the difference of all their values (agreggator.go:258).
THEOREM DifferencesOfRoundsAddUp ==
    ASSUME NEW s \in Seq(Int), s # <<>>, NEW t \in Seq(Int)
    PROVE  CalculateDifference(s \o t)
             = CalculateDifference(s) + CalculateDifference(Kept(s) \o t)
<1> DEFINE n == Len(s)
           m == Len(t)
           u == s \o t
           v == Kept(s) \o t
<1>1. n \in Nat \ {0} /\ m \in Nat
  OBVIOUS
<1>2. /\ u \in Seq(Int) /\ Len(u) = n + m
      /\ \A i \in 1 .. n : u[i] = s[i]
      /\ \A j \in 1 .. m : u[n + j] = t[j]
  OBVIOUS
<1>3. /\ v \in Seq(Int) /\ Len(v) = 1 + m
      /\ v[1] = s[n]
      /\ \A j \in 1 .. m : v[1 + j] = t[j]
  <2> DEFINE k == <<s[n]>>
  <2>1. s[n] \in Int
    OBVIOUS
  <2>2. k \in Seq(Int) /\ Len(k) = 1 /\ k[1] = s[n]
    BY <2>1
  <2>3. Kept(s) = k
    BY DEF Kept, Last
  <2> HIDE DEF k
  <2>4. /\ k \o t \in Seq(Int) /\ Len(k \o t) = 1 + m /\ (k \o t)[1] = k[1]
        /\ \A j \in 1 .. m : (k \o t)[1 + j] = t[j]
    <3>1. /\ k \o t \in Seq(Int) /\ Len(k \o t) = Len(k) + Len(t)
          /\ \A i \in 1 .. Len(k) + Len(t) :
                (k \o t)[i] = IF i <= Len(k) THEN k[i] ELSE t[i - Len(k)]
      BY <2>2, ConcatProperties
    <3> DEFINE x == k \o t
    <3> HIDE DEF x
    <3>2. /\ x \in Seq(Int) /\ Len(x) = 1 + m
          /\ \A i \in 1 .. 1 + m : x[i] = IF i <= 1 THEN k[i] ELSE t[i - 1]
      BY <2>2, <3>1 DEF x
    <3>3. ASSUME NEW j \in 1 .. m PROVE x[1 + j] = t[j]
      <4>1. 1 + j \in 1 .. 1 + m /\ ~(1 + j <= 1) /\ (1 + j) - 1 = j
        BY <1>1
      <4> QED BY <3>2, <4>1
    <3>4. x[1] = k[1]
      BY <1>1, <3>2
    <3> QED BY <3>2, <3>3, <3>4 DEF x
  <2> QED BY <2>2, <2>3, <2>4
<1>4. PICK r \in [0 .. n -> Nat] :
        /\ \A i \in 0 .. n : i <= 1 => r[i] = 0
        /\ \A i \in 2 .. n : r[i] = r[i - 1] + Rise(s[i - 1], s[i])
        /\ CalculateDifference(s) = r[n]
  BY DifferenceIsRecursive
<1> HIDE DEF n, m, u, v
<1>5. PICK q \in [0 .. n + m -> Nat] :
        /\ \A i \in 0 .. n + m : i <= 1 => q[i] = 0
        /\ \A i \in 2 .. n + m : q[i] = q[i - 1] + Rise(u[i - 1], u[i])
        /\ CalculateDifference(u) = q[n + m]
  BY <1>2, DifferenceIsRecursive
<1>6. PICK p \in [0 .. 1 + m -> Nat] :
        /\ \A i \in 0 .. 1 + m : i <= 1 => p[i] = 0
        /\ \A i \in 2 .. 1 + m : p[i] = p[i - 1] + Rise(v[i - 1], v[i])
        /\ CalculateDifference(v) = p[1 + m]
  BY <1>3, DifferenceIsRecursive
<1>7. q[n] = r[n]
  <2> DEFINE T == {i \in 0 .. n : q[i] = r[i]}
  <2>1. 0 \in T
    BY <1>1, <1>4, <1>5
  <2>2. ASSUME NEW i \in 1 .. n, i - 1 \in T PROVE i \in T
    <3>1. CASE i = 1
      BY <1>1, <1>4, <1>5, <3>1
    <3>2. CASE i # 1
      <4>1. i \in 2 .. n /\ i \in 2 .. n + m /\ i - 1 \in 1 .. n /\ q[i - 1] = r[i - 1]
        BY <1>1, <2>2, <3>2
      <4>2. u[i] = s[i] /\ u[i - 1] = s[i - 1]
        BY <1>2, <4>1
      <4> QED BY <1>4, <1>5, <4>1, <4>2
    <3> QED BY <3>1, <3>2
  <2>3. 0 .. n \subseteq T
    <3> HIDE DEF T
    <3> QED BY <1>1, <2>1, <2>2, IntervalByInduction
  <2> QED BY <1>1, <2>3
<1>8. ASSUME NEW j \in 1 .. m
      PROVE  u[n + (j - 1)] = v[1 + (j - 1)] /\ u[n + j] = v[1 + j]
  <2>1. u[n + j] = v[1 + j]
    BY <1>2, <1>3
  <2>2. CASE j = 1
    <3>1. n \in 1 .. n /\ n + (j - 1) = n /\ 1 + (j - 1) = 1
      BY <1>1, <2>2
    <3> QED BY <1>2, <1>3, <2>1, <3>1
  <2>3. CASE j # 1
    <3>1. j - 1 \in 1 .. m
      BY <1>1, <2>3
    <3> QED BY <1>2, <1>3, <2>1, <3>1
  <2> QED BY <2>2, <2>3
<1>9. q[n + m] = r[n] + p[1 + m]
  <2> DEFINE T == {j \in 0 .. m : q[n + j] = r[n] + p[1 + j]}
  <2>0. r[n] \in Nat
    BY <1>1, <1>4
  <2>1. 0 \in T
    <3>1. n + 0 = n /\ 1 + 0 = 1 /\ p[1] = 0
      BY <1>1, <1>6
    <3> QED BY <1>1, <1>7, <2>0, <3>1
  <2>2. ASSUME NEW j \in 1 .. m, j - 1 \in T PROVE j \in T
    <3>1. /\ n + j \in 2 .. n + m /\ 1 + j \in 2 .. 1 + m
          /\ (n + j) - 1 = n + (j - 1) /\ (1 + j) - 1 = 1 + (j - 1)
          /\ n + (j - 1) \in 0 .. n + m /\ 1 + (j - 1) \in 0 .. 1 + m
      BY <1>1
    <3>2. /\ q[n + j] = q[n + (j - 1)] + Rise(u[n + (j - 1)], u[n + j])
          /\ p[1 + j] = p[1 + (j - 1)] + Rise(v[1 + (j - 1)], v[1 + j])
      BY <1>5, <1>6, <3>1
    <3>3. q[n + (j - 1)] = r[n] + p[1 + (j - 1)]
      BY <2>2
    <3> DEFINE rise == Rise(v[1 + (j - 1)], v[1 + j])
    <3>4. q[n + j] = q[n + (j - 1)] + rise /\ p[1 + j] = p[1 + (j - 1)] + rise
      BY <1>8, <3>2
    <3>5. rise \in Int
      <4> DEFINE a == v[1 + (j - 1)]
                 b == v[1 + j]
      <4>1. 1 + (j - 1) \in 1 .. Len(v) /\ 1 + j \in 1 .. Len(v)
        BY <1>1, <1>3
      <4>2. \A i \in 1 .. Len(v) : v[i] \in Int
        BY <1>3
      <4>3. a \in Int /\ b \in Int
        BY <4>1, <4>2
      <4> HIDE DEF a, b
      <4>4. Rise(a, b) \in Int
        BY <4>3, Rises
      <4> QED BY <4>4 DEF a, b
    <3> HIDE DEF rise
    <3>6. q[n + (j - 1)] \in Nat /\ p[1 + (j - 1)] \in Nat
      BY <1>5, <1>6, <3>1
    <3>7. q[n + j] = r[n] + p[1 + j]
      BY <2>0, <3>3, <3>4, <3>5, <3>6
    <3> QED BY <3>7
  <2>3. 0 .. m \subseteq T
    <3> HIDE DEF T
    <3> QED BY <1>1, <2>1, <2>2, IntervalByInduction
  <2> QED BY <1>1, <2>3
<1> QED BY <1>4, <1>5, <1>6, <1>7, <1>9 DEF u, v

-----------------------------------------------------------------------------
(* The filter *)

LEMMA IntegerSequences ==
    /\ <<>> \in Seq(Int) /\ Len(<<>>) = 0
    /\ \A s \in Seq(Int) : Len(s) \in Nat /\ (s # <<>> => Last(s) \in Int)
    /\ \A s \in Seq(Int), v \in Int :
          /\ Append(s, v) \in Seq(Int) /\ Append(s, v) # <<>>
          /\ Len(Append(s, v)) = Len(s) + 1
          /\ Last(Append(s, v)) = v
BY DEF Last

\* The filter passes a series over, and keeps or leaves out every value.
LEMMA FilterIsRecursive ==
    ASSUME NEW values \in Seq(Int)
    PROVE  \E r \in [0 .. Len(values) -> Seq(Int)] :
              /\ r[0] = <<>>
              /\ \A i \in 1 .. Len(values) :
                    r[i] = r[i - 1] \/ r[i] = Append(r[i - 1], values[i])
              /\ FilterSeries(values) = r[Len(values)]
<1> DEFINE N == Len(values)
           noise == {0} \cup ExtremeOutliers(values)
           S == Seq(Int)
           start == <<>>
           step(i, x) == IF values[i] \in noise THEN x ELSE Append(x, values[i])
           h == [i \in 1 .. N |-> [x \in S |-> step(i, x)]]
           D(f) == [i \in 0 .. N |->
                     IF i = 0 THEN <<>>
                     ELSE IF values[i] \in noise THEN f[i - 1]
                          ELSE Append(f[i - 1], values[i])]
           r == CHOOSE f : f = D(f)
<1>1. N \in Nat /\ \A i \in 1 .. N : values[i] \in Int
  OBVIOUS
<1>2. FilterSeries(values) = r[N]
  BY DEF FilterSeries
<1>3. start \in S
  OBVIOUS
<1> HIDE DEF N, noise
<1>4. \A i \in 1 .. N : \A x \in S : step(i, x) \in S
  BY <1>1
<1>5. h \in [1 .. N -> [S -> S]]
  <2> HIDE DEF S, step
  <2> QED BY <1>4
<1>6. PICK f \in [0 .. N -> S] : f = Recursion(N, start, h, f)
  <2> HIDE DEF h, S, start
  <2>1. N \in Nat
    BY <1>1
  <2> QED BY <1>3, <1>5, <2>1, RecursionExists
<1>7. f = D(f)
  <2>1. \A i \in 1 .. N : \A x \in S : h[i][x] = step(i, x)
    <3> HIDE DEF S, step
    <3> QED OBVIOUS
  <2>2. \A i \in 0 .. N : f[i] = IF i = 0 THEN start ELSE h[i][f[i - 1]]
    <3> HIDE DEF h, S, start
    <3> QED BY <1>6 DEF Recursion
  <2>3. \A i \in 1 .. N : f[i - 1] \in S
    <3> HIDE DEF S
    <3> QED BY <1>1, <1>6
  <2> HIDE DEF h, S
  <2>4. \A i \in 0 .. N : f[i] = IF i = 0 THEN start ELSE step(i, f[i - 1])
    <3> HIDE DEF step, start
    <3> QED BY <1>1, <2>1, <2>2, <2>3
  <2> QED BY <2>4
<1> HIDE DEF h
<1>8. r = D(r)
  BY <1>7, Zenon
<1> HIDE DEF r
<1>9. /\ r[0] = <<>>
      /\ \A i \in 1 .. N : r[i] = r[i - 1] \/ r[i] = Append(r[i - 1], values[i])
  <2>1. \A i \in 0 .. N : r[i] = IF i = 0 THEN <<>> ELSE step(i, r[i - 1])
    BY <1>8, Zenon
  <2>2. 0 \in 0 .. N /\ \A i \in 1 .. N : i \in 0 .. N /\ i # 0
    BY <1>1
  <2> HIDE DEF D
  <2>3. r[0] = <<>>
    BY <2>1, <2>2, Zenon
  <2>4. \A i \in 1 .. N : r[i] = step(i, r[i - 1])
    <3> HIDE DEF step
    <3> QED BY <2>1, <2>2
  <2> QED BY <2>3, <2>4
<1>10. \A i \in 0 .. N : r[i] \in Seq(Int)
  <2> DEFINE T == {i \in 0 .. N : r[i] \in Seq(Int)}
  <2>1. 0 \in T
    <3>1. 0 \in 0 .. N /\ r[0] \in Seq(Int)
      BY <1>1, <1>9, IntegerSequences
    <3> QED BY <3>1
  <2>2. ASSUME NEW i \in 1 .. N, i - 1 \in T PROVE i \in T
    <3>1. r[i - 1] \in Seq(Int) /\ values[i] \in Int
      BY <1>1, <2>2
    <3>2. r[i] = r[i - 1] \/ r[i] = Append(r[i - 1], values[i])
      BY <1>9
    <3>3. r[i] \in Seq(Int)
      BY <3>1, <3>2, IntegerSequences
    <3> QED BY <1>1, <3>3
  <2>3. 0 .. N \subseteq T
    <3> HIDE DEF T
    <3> QED BY <1>1, <2>1, <2>2, IntervalByInduction
  <2> QED BY <2>3
<1>11. r \in [0 .. N -> Seq(Int)]
  BY <1>8, <1>10
<1> QED BY <1>2, <1>9, <1>11 DEF N

\* Nothing is added.
LEMMA FilterKeepsLess ==
    ASSUME NEW values \in Seq(Int)
    PROVE  FilterSeries(values) \in Seq(Int) /\ Len(FilterSeries(values)) <= Len(values)
<1> DEFINE N == Len(values)
<1>1. PICK r \in [0 .. N -> Seq(Int)] :
        /\ r[0] = <<>>
        /\ \A i \in 1 .. N : r[i] = r[i - 1] \/ r[i] = Append(r[i - 1], values[i])
        /\ FilterSeries(values) = r[N]
  BY FilterIsRecursive
<1>2. N \in Nat /\ \A i \in 1 .. N : values[i] \in Int
  OBVIOUS
<1> HIDE DEF N
<1> DEFINE T == {i \in 0 .. N : Len(r[i]) <= i}
<1>3. 0 \in T
  BY <1>1, <1>2
<1>4. ASSUME NEW i \in 1 .. N, i - 1 \in T PROVE i \in T
  <2>1. r[i - 1] \in Seq(Int) /\ r[i] \in Seq(Int) /\ values[i] \in Int
    BY <1>1, <1>2
  <2>2. Len(r[i - 1]) \in Nat /\ Len(r[i]) <= Len(r[i - 1]) + 1
    <3>1. r[i] = r[i - 1] \/ r[i] = Append(r[i - 1], values[i])
      BY <1>1
    <3> QED BY <2>1, <3>1, IntegerSequences
  <2> QED BY <1>2, <1>4, <2>1, <2>2
<1>5. 0 .. N \subseteq T
  <2> HIDE DEF T
  <2> QED BY <1>2, <1>3, <1>4, IntervalByInduction
<1>6. N \in 0 .. N
  BY <1>2
<1> QED BY <1>1, <1>5, <1>6 DEF N

\* To leave out values never makes a series rise more, whatever value comes next: what
\* filterSeries takes for noise (agreggator.go:312 to 340) adds no consumption.
THEOREM FilterRisesLess ==
    ASSUME NEW values \in Seq(Int), FilterSeries(values) # <<>>, NEW x \in Int
    PROVE  /\ values # <<>>
           /\ CalculateDifference(FilterSeries(values)) + Rise(Last(FilterSeries(values)), x)
                <= CalculateDifference(values) + Rise(Last(values), x)
<1> DEFINE N == Len(values)
<1>1. PICK r \in [0 .. N -> Seq(Int)] :
        /\ r[0] = <<>>
        /\ \A i \in 1 .. N : r[i] = r[i - 1] \/ r[i] = Append(r[i - 1], values[i])
        /\ FilterSeries(values) = r[N]
  BY FilterIsRecursive
<1>2. PICK c \in [0 .. N -> Nat] :
        /\ \A i \in 0 .. N : i <= 1 => c[i] = 0
        /\ \A i \in 2 .. N : c[i] = c[i - 1] + Rise(values[i - 1], values[i])
        /\ CalculateDifference(values) = c[N]
  BY DifferenceIsRecursive
<1>3. N \in Nat /\ \A i \in 1 .. N : values[i] \in Int
  OBVIOUS
<1>4. N = 0 => values = <<>>
  OBVIOUS
<1>5. Last(values) = values[N]
  BY DEF Last
<1> HIDE DEF N
<1> DEFINE Below(i) ==
              r[i] # <<>> => \A y \in Int :
                CalculateDifference(r[i]) + Rise(Last(r[i]), y) <= c[i] + Rise(values[i], y)
           T == {i \in 0 .. N : Below(i)}
<1>6. 0 \in T
  BY <1>1, <1>3
<1>7. ASSUME NEW i \in 1 .. N, i - 1 \in T PROVE i \in T
  <2> SUFFICES ASSUME r[i] # <<>>, NEW y \in Int
               PROVE  CalculateDifference(r[i]) + Rise(Last(r[i]), y)
                        <= c[i] + Rise(values[i], y)
    BY <1>3
  <2> DEFINE s == r[i - 1]
             v == values[i]
  <2>1. /\ s \in Seq(Int) /\ v \in Int /\ i - 1 \in 0 .. N
        /\ c[i] \in Nat /\ c[i - 1] \in Nat /\ Rise(v, y) \in Nat
    <3>1. i - 1 \in 0 .. N /\ i \in 0 .. N /\ v \in Int
      BY <1>3
    <3> QED BY <1>1, <1>2, <3>1, Rises
  <2>2. ASSUME s # <<>>
        PROVE  /\ i \in 2 .. N /\ values[i - 1] \in Int
               /\ c[i] = c[i - 1] + Rise(values[i - 1], v)
               /\ Last(s) \in Int
               /\ \A z \in Int : CalculateDifference(s) + Rise(Last(s), z)
                                   <= c[i - 1] + Rise(values[i - 1], z)
    <3>1. i # 1
      BY <1>1, <2>2
    <3>2. i \in 2 .. N /\ i - 1 \in 1 .. N
      BY <1>3, <3>1
    <3>3. Last(s) \in Int
      BY <2>1, <2>2, IntegerSequences
    <3>4. Below(i - 1)
      BY <1>7
    <3> HIDE DEF Below
    <3>5. \A z \in Int : CalculateDifference(s) + Rise(Last(s), z)
                           <= c[i - 1] + Rise(values[i - 1], z)
      BY <2>2, <3>4 DEF Below
    <3> QED BY <1>2, <1>3, <3>2, <3>3, <3>5
  <2>3. CASE r[i] = s
    <3>1. s # <<>>
      BY <2>3
    <3>2. CalculateDifference(s) + Rise(Last(s), y) <= c[i - 1] + Rise(values[i - 1], y)
      BY <2>2, <3>1
    <3>3. Rise(values[i - 1], y) <= Rise(values[i - 1], v) + Rise(v, y)
      BY <2>1, <2>2, <3>1, Rises
    <3>4. /\ CalculateDifference(s) \in Nat /\ Rise(Last(s), y) \in Nat
          /\ Rise(values[i - 1], y) \in Nat /\ Rise(values[i - 1], v) \in Nat
      BY <2>1, <2>2, <3>1, Rises, DifferenceIsNatural
    <3>5. c[i] = c[i - 1] + Rise(values[i - 1], v)
      BY <2>2, <3>1
    <3> QED BY <2>1, <2>3, <3>2, <3>3, <3>4, <3>5
  <2>4. CASE r[i] = Append(s, v)
    <3>1. Last(r[i]) = v
      BY <2>1, <2>4, IntegerSequences
    <3>2. CASE s = <<>>
      <4>1. Append(s, v) \in Seq(Int) /\ Len(Append(s, v)) <= 1
        BY <2>1, <3>2, IntegerSequences
      <4>2. CalculateDifference(r[i]) = 0
        BY <2>4, <4>1, DifferenceOfOne
      <4> QED BY <2>1, <3>1, <4>2
    <3>3. CASE s # <<>>
      <4>1. CalculateDifference(r[i]) = CalculateDifference(s) + Rise(Last(s), v)
        BY <2>1, <2>4, <3>3, DifferenceAppended DEF Last
      <4>2. CalculateDifference(s) + Rise(Last(s), v) <= c[i - 1] + Rise(values[i - 1], v)
        BY <2>1, <2>2, <3>3
      <4>3. c[i] = c[i - 1] + Rise(values[i - 1], v)
        BY <2>2, <3>3
      <4>4. CalculateDifference(s) \in Nat /\ Rise(Last(s), v) \in Nat
        BY <2>1, <2>2, <3>3, Rises, DifferenceIsNatural
      <4> QED BY <2>1, <3>1, <4>1, <4>2, <4>3, <4>4
    <3> QED BY <3>2, <3>3
  <2> QED BY <1>1, <2>3, <2>4
<1>8. 0 .. N \subseteq T
  <2> HIDE DEF T
  <2> QED BY <1>3, <1>6, <1>7, IntervalByInduction
<1>9. N \in T
  BY <1>3, <1>8
<1>10. r[N] # <<>> /\ N # 0
  BY <1>1
<1>11. CalculateDifference(r[N]) + Rise(Last(r[N]), x) <= c[N] + Rise(values[N], x)
  BY <1>9, <1>10
<1>12. values # <<>>
  <2>1. values = <<>> => Len(values) = 0
    OBVIOUS
  <2> QED BY <1>10, <2>1 DEF N
<1> QED BY <1>1, <1>2, <1>5, <1>11, <1>12

-----------------------------------------------------------------------------
(* The chains of filters *)

LEMMA MinIsMember ==
    ASSUME NEW S \in SUBSET Nat, S # {}
    PROVE  Min(S) \in S /\ \A k \in S : Min(S) <= k
<1>1. \E x \in S : \A y \in S : x <= y
  <2>1. SUFFICES ASSUME ~\E x \in S : \A y \in S : x <= y PROVE FALSE
    OBVIOUS
  <2> DEFINE G == {n \in Nat : \A k \in S : n <= k}
  <2>2. 0 \in G
    OBVIOUS
  <2>3. ASSUME NEW n \in Nat, n \in G PROVE n + 1 \in G
    <3>1. \A k \in S : n <= k /\ k # n
      BY <2>1, <2>3
    <3> QED BY <3>1
  <2>4. Nat \subseteq G
    <3> HIDE DEF G
    <3> QED BY <2>2, <2>3, NaturalsByInduction
  <2>5. PICK k \in S : TRUE
    OBVIOUS
  <2>6. k + 1 \in Nat
    OBVIOUS
  <2>7. k + 1 <= k
    BY <2>4, <2>6
  <2> QED BY <2>7
<1> QED BY <1>1 DEF Min

LEMMA FiltersTyped ==
    /\ Len(Filters) \in Nat
    /\ DOMAIN Filters = 1 .. Len(Filters)
    /\ 0 \in FilterIds
    /\ \A id \in FilterIds : Deciding(id) # {} =>
          /\ Min(Deciding(id)) \in Deciding(id)
          /\ Min(Deciding(id)) \in DOMAIN Filters
          /\ \A k \in Deciding(id) : Min(Deciding(id)) <= k
          /\ Filters[Min(Deciding(id))].LinkedFilterID \in FilterIds
<1>1. Len(Filters) \in Nat /\ DOMAIN Filters = 1 .. Len(Filters)
  BY TransformAssumption
<1>2. 0 \in FilterIds
  BY DEF FilterIds
<1>3. ASSUME NEW id \in FilterIds, Deciding(id) # {}
      PROVE  /\ Min(Deciding(id)) \in Deciding(id)
             /\ Min(Deciding(id)) \in DOMAIN Filters
             /\ \A k \in Deciding(id) : Min(Deciding(id)) <= k
             /\ Filters[Min(Deciding(id))].LinkedFilterID \in FilterIds
  <2>1. Deciding(id) \subseteq DOMAIN Filters
    BY DEF Deciding
  <2>2. Deciding(id) \in SUBSET Nat
    BY <1>1, <2>1
  <2>3. Min(Deciding(id)) \in Deciding(id) /\ \A k \in Deciding(id) : Min(Deciding(id)) <= k
    BY <1>3, <2>2, MinIsMember
  <2> QED BY <2>1, <2>3 DEF FilterIds
<1> QED BY <1>1, <1>2, <1>3

LEMMA FilterIsRecursion ==
    ASSUME NEW m
    PROVE  \E t \in [0 .. Len(Filters) -> SUBSET FilterIds] :
              /\ t[0] = {}
              /\ \A i \in 1 .. Len(Filters) :
                    t[i] = {id \in FilterIds : Passes(m, id, t[i - 1])}
              /\ Filter(m) <=> m.service # "ecollector" /\ 0 \in t[Len(Filters)]
<1> DEFINE N == Len(Filters)
           S == SUBSET FilterIds
           start == {}
           step(x) == {id \in FilterIds : Passes(m, id, x)}
           h == [i \in 1 .. N |-> [x \in S |-> step(x)]]
           D(f) == [i \in 0 .. N |-> IF i = 0 THEN {}
                                     ELSE {id \in FilterIds : Passes(m, id, f[i - 1])}]
           t == CHOOSE f : f = D(f)
<1>1. N \in Nat
  BY FiltersTyped
<1>2. Filter(m) <=> m.service # "ecollector" /\ 0 \in t[N]
  BY DEF Filter
<1>3. start \in S
  OBVIOUS
<1>4. \A x \in S : step(x) \in S
  OBVIOUS
<1> HIDE DEF N
<1>5. h \in [1 .. N -> [S -> S]]
  <2> HIDE DEF S, step
  <2> QED BY <1>4
<1>6. PICK f \in [0 .. N -> S] : f = Recursion(N, start, h, f)
  <2> HIDE DEF h, S, start
  <2> QED BY <1>1, <1>3, <1>5, RecursionExists
<1>7. f = D(f)
  <2>1. \A i \in 1 .. N : \A x \in S : h[i][x] = step(x)
    <3> HIDE DEF S, step
    <3> QED OBVIOUS
  <2>2. \A i \in 0 .. N : f[i] = IF i = 0 THEN start ELSE h[i][f[i - 1]]
    <3> HIDE DEF h, S, start
    <3> QED BY <1>6 DEF Recursion
  <2>3. \A i \in 1 .. N : f[i - 1] \in S
    <3> HIDE DEF S
    <3> QED BY <1>1, <1>6
  <2> HIDE DEF h, S
  <2>4. \A i \in 0 .. N : f[i] = IF i = 0 THEN start ELSE step(f[i - 1])
    <3> HIDE DEF step, start
    <3> QED BY <1>1, <2>1, <2>2, <2>3
  <2> QED BY <2>4
<1> HIDE DEF h
<1>8. t = D(t)
  BY <1>7, Zenon
<1> HIDE DEF t
<1>9. t[0] = {} /\ \A i \in 1 .. N : t[i] = step(t[i - 1])
  <2>1. \A i \in 0 .. N : t[i] = IF i = 0 THEN {} ELSE step(t[i - 1])
    BY <1>8, Zenon
  <2>2. 0 \in 0 .. N /\ \A i \in 1 .. N : i \in 0 .. N /\ i # 0
    BY <1>1
  <2> HIDE DEF D, step
  <2> QED BY <2>1, <2>2
<1>10. t \in [0 .. N -> SUBSET FilterIds]
  <2>1. \A i \in 0 .. N : t[i] \in SUBSET FilterIds
    <3>1. \A i \in 0 .. N : i = 0 \/ i \in 1 .. N
      BY <1>1
    <3> QED BY <1>9, <3>1
  <2> HIDE DEF S, step
  <2> QED BY <1>8, <2>1
<1> QED BY <1>2, <1>9, <1>10 DEF N

\* The identifiers that let a message through depend on the linked ones only.
LEMMA PassesByItsLink ==
    ASSUME NEW m, NEW id \in FilterIds, NEW x, NEW y,
           Deciding(id) # {} =>
              LET next == Filters[Min(Deciding(id))].LinkedFilterID
              IN  next # 0 => (next \in x <=> next \in y)
    PROVE  Passes(m, id, x) <=> Passes(m, id, y)
<1>1. CASE Deciding(id) = {}
  BY <1>1 DEF Passes
<1>2. CASE Deciding(id) # {}
  <2> DEFINE f == Filters[Min(Deciding(id))]
             own == Matches(f, m) # f.Negation
             answer(z) == CASE f.LinkedFilterID # 0 /\ f.Operation = "or"  -> own \/ f.LinkedFilterID \in z
                            [] f.LinkedFilterID # 0 /\ f.Operation = "and" -> own /\ f.LinkedFilterID \in z
                            [] OTHER -> own
  <2>1. Passes(m, id, x) <=> answer(x)
    BY <1>2 DEF Passes
  <2>2. Passes(m, id, y) <=> answer(y)
    BY <1>2 DEF Passes
  <2>3. f.LinkedFilterID # 0 => (f.LinkedFilterID \in x <=> f.LinkedFilterID \in y)
    BY <1>2
  <2>4. answer(x) <=> answer(y)
    <3> HIDE DEF f
    <3>1. CASE f.LinkedFilterID = 0
      BY <3>1
    <3>2. CASE f.LinkedFilterID # 0
      BY <2>3, <3>2
    <3> QED BY <3>1, <3>2
  <2> QED BY <2>1, <2>2, <2>4
<1> QED BY <1>1, <1>2

\* What Process.filter (process.go:234) answers when no chain of filters leads back to
\* itself: its answers for the identifiers are answers by the first filter found and the
\* answer for the linked identifier, for chains of any length and filters in any order, so
\* that the model's cut-off never shows.  rank counts the filters left in the chain.
THEOREM FilterFollowsItsChain ==
    ASSUME NEW m, NEW answers \in SUBSET FilterIds,
           \A id \in FilterIds : id \in answers <=> Passes(m, id, answers),
           NEW rank \in [FilterIds -> 0 .. Len(Filters)],
           \A id \in FilterIds : Deciding(id) # {} =>
              LET next == Filters[Min(Deciding(id))].LinkedFilterID
              IN  rank[id] > 0 /\ (next # 0 => rank[next] < rank[id])
    PROVE  Filter(m) <=> m.service # "ecollector" /\ 0 \in answers
<1> DEFINE N == Len(Filters)
<1>1. N \in Nat /\ 0 \in FilterIds
  BY FiltersTyped
<1>2. PICK t \in [0 .. N -> SUBSET FilterIds] :
         /\ t[0] = {}
         /\ \A i \in 1 .. N : t[i] = {id \in FilterIds : Passes(m, id, t[i - 1])}
         /\ Filter(m) <=> m.service # "ecollector" /\ 0 \in t[N]
  BY FilterIsRecursion
<1> DEFINE T == {i \in 0 .. N : \A id \in FilterIds :
                    rank[id] <= i => (id \in t[i] <=> id \in answers)}
<1>3. 0 \in T
  <2>1. ASSUME NEW id \in FilterIds, rank[id] <= 0 PROVE id \notin answers
    <3>1. Deciding(id) = {}
      BY <2>1
    <3>2. ~Passes(m, id, answers)
      BY <3>1 DEF Passes
    <3> QED BY <3>2
  <2> QED BY <1>1, <1>2, <2>1
<1>4. ASSUME NEW i \in 1 .. N, i - 1 \in T PROVE i \in T
  <2>1. ASSUME NEW id \in FilterIds, rank[id] <= i
        PROVE  id \in t[i] <=> id \in answers
    <3>1. Deciding(id) # {} =>
            LET next == Filters[Min(Deciding(id))].LinkedFilterID
            IN  next # 0 => (next \in t[i - 1] <=> next \in answers)
      <4> DEFINE next == Filters[Min(Deciding(id))].LinkedFilterID
      <4>1. SUFFICES ASSUME Deciding(id) # {}, next # 0
                     PROVE  next \in t[i - 1] <=> next \in answers
        OBVIOUS
      <4>2. next \in FilterIds
        BY <4>1, FiltersTyped
      <4>3. rank[next] < rank[id]
        BY <4>1
      <4> HIDE DEF next
      <4>4. rank[next] <= i - 1
        BY <1>1, <2>1, <4>2, <4>3
      <4> QED BY <1>4, <4>2, <4>4
    <3>2. Passes(m, id, t[i - 1]) <=> Passes(m, id, answers)
      BY <3>1, PassesByItsLink
    <3> QED BY <1>2, <3>2
  <2> QED BY <1>1, <2>1
<1>5. 0 .. N \subseteq T
  <2> HIDE DEF T
  <2> QED BY <1>1, <1>3, <1>4, IntervalByInduction
<1>6. N \in T /\ rank[0] <= N
  BY <1>1, <1>5
<1> QED BY <1>1, <1>2, <1>6

\* A chain starts at the first atomic filter, or at one whose identifier is 0: without
\* any, nothing is stored, whatever the other filters say.  The comment at process.go:241,
\* "no filters defines , everything is allowed", says the opposite of an empty list.
THEOREM WithoutFirstFilterNothingPasses ==
    ASSUME NEW m,
           \A i \in DOMAIN Filters : ~Filters[i].IsAtomic /\ Filters[i].ID # 0
    PROVE  ~Filter(m)
<1>1. PICK t \in [0 .. Len(Filters) -> SUBSET FilterIds] :
         /\ t[0] = {}
         /\ \A i \in 1 .. Len(Filters) :
               t[i] = {id \in FilterIds : Passes(m, id, t[i - 1])}
         /\ Filter(m) <=> m.service # "ecollector" /\ 0 \in t[Len(Filters)]
  BY FilterIsRecursion
<1>2. \A x : ~Passes(m, 0, x)
  BY DEF Deciding, Passes
<1>3. Len(Filters) = 0 \/ Len(Filters) \in 1 .. Len(Filters)
  BY FiltersTyped
<1> QED BY <1>1, <1>2, <1>3

\* Only the first of several atomic filters counts: when it has no linked filter it decides
\* alone, and what the filters after it would let through or keep out makes no difference.
THEOREM FirstFilterDecides ==
    ASSUME NEW m, NEW first \in DOMAIN Filters,
           Filters[first].IsAtomic \/ Filters[first].ID = 0,
           \A i \in 1 .. first - 1 : ~Filters[i].IsAtomic /\ Filters[i].ID # 0,
           Filters[first].LinkedFilterID = 0
    PROVE  Filter(m) <=> /\ m.service # "ecollector"
                         /\ Matches(Filters[first], m) # Filters[first].Negation
<1> DEFINE N == Len(Filters)
<1>1. PICK t \in [0 .. N -> SUBSET FilterIds] :
         /\ t[0] = {}
         /\ \A i \in 1 .. N : t[i] = {id \in FilterIds : Passes(m, id, t[i - 1])}
         /\ Filter(m) <=> m.service # "ecollector" /\ 0 \in t[N]
  BY FilterIsRecursion
<1>2. N \in 1 .. N /\ 0 \in FilterIds /\ first \in 1 .. N
  BY FiltersTyped
<1>3. first \in Deciding(0) /\ \A i \in Deciding(0) : i \in 1 .. N /\ ~(i \in 1 .. first - 1)
  BY <1>2, FiltersTyped DEF Deciding
<1>4. Min(Deciding(0)) = first
  <2>1. Min(Deciding(0)) \in Deciding(0) /\ Min(Deciding(0)) <= first
    BY <1>2, <1>3, FiltersTyped
  <2> QED BY <1>2, <1>3, <2>1
<1>5. Passes(m, 0, t[N - 1]) <=> (Matches(Filters[first], m) # Filters[first].Negation)
  BY <1>3, <1>4 DEF Passes
<1> QED BY <1>1, <1>2, <1>5

-----------------------------------------------------------------------------
(* What the transform makes of a message *)

LEMMA PointTyped ==
    ASSUME NEW measurement \in Names, NEW name \in Names, NEW func \in AggregationFunctions,
           NEW value \in Values
    PROVE  Point(measurement, name, func, value) \in DataPoints
BY DEF Point, DataPoints

LEMMA ShortSequences ==
    ASSUME NEW D
    PROVE  /\ <<>> \in Seq(D)
           /\ \A p \in D : <<p>> \in Seq(D)
           /\ \A p, q \in D : <<p, q>> \in Seq(D)
           /\ \A s, t \in Seq(D) : s \o t \in Seq(D)
<1>1. <<>> \in Seq(D)
  OBVIOUS
<1>2. ASSUME NEW p \in D PROVE <<p>> \in Seq(D)
  OBVIOUS
<1>3. ASSUME NEW p \in D, NEW q \in D PROVE <<p, q>> \in Seq(D)
  OBVIOUS
<1>4. ASSUME NEW s \in Seq(D), NEW t \in Seq(D) PROVE s \o t \in Seq(D)
  OBVIOUS
<1> QED BY <1>1, <1>2, <1>3, <1>4

LEMMA WordsAreNames == \A w \in Words : <<w>> \in Names
<1> DEFINE W == Words
<1>1. \A w \in W : <<w>> \in Seq(W)
  <2> HIDE DEF W
  <2> QED BY ShortSequences
<1> QED BY <1>1 DEF Names

LEMMA NamesTyped ==
    ASSUME NEW m \in Messages
    PROVE  /\ \A measurement \in Names :
                 /\ Import(measurement, m) \in Names
                 /\ Export(measurement, m) \in Names
           /\ DeviceTag(m) \in Names
           /\ <<m.service, m.type>> \in Names
           /\ {Power, Energy, Sampled, Prices} \subseteq Names
<1> DEFINE W == Words
<1>1. /\ {m.service, m.type, m.device} \subseteq W
      /\ {"", "import", "export", Power[1], Energy[1], Sampled[1], Prices[1]} \subseteq W
  BY DEF Words
<1> HIDE DEF W
<1>2. \A w \in W : <<w>> \in Seq(W)
  BY ShortSequences
<1>3. DeviceTag(m) \in Seq(W)
  BY <1>1, <1>2, Zenon DEF DeviceTag
<1>4. <<"import">> \in Seq(W) /\ <<"export">> \in Seq(W)
  BY <1>1, <1>2, Zenon
<1>5. <<m.service, m.type>> \in Seq(W)
  BY <1>1, ShortSequences
<1>6. ASSUME NEW measurement \in Seq(W)
      PROVE  /\ Import(measurement, m) \in Seq(W)
             /\ Export(measurement, m) \in Seq(W)
  <2>1. measurement \o DeviceTag(m) \in Seq(W)
    BY <1>3, ShortSequences
  <2> QED BY <1>4, <2>1, ShortSequences DEF Import, Export
<1>7. /\ Power = <<Power[1]>> /\ Energy = <<Energy[1]>>
      /\ Sampled = <<Sampled[1]>> /\ Prices = <<Prices[1]>>
  BY DEF Power, Energy, Sampled, Prices
<1>8. {Power, Energy, Sampled, Prices} \subseteq Seq(W)
  <2>1. /\ <<Power[1]>> \in Seq(W) /\ <<Energy[1]>> \in Seq(W)
        /\ <<Sampled[1]>> \in Seq(W) /\ <<Prices[1]>> \in Seq(W)
    BY <1>1, <1>2, Zenon
  <2> QED BY <1>7, <2>1, Zenon
<1> QED BY <1>3, <1>5, <1>6, <1>8 DEF W, Names

LEMMA PlainTyped ==
    ASSUME NEW measurement \in Names, NEW name \in Names, NEW value \in Values
    PROVE  Plain(measurement, name, value) \in Seq(DataPoints)
<1>0. measurement \o name \in Names
  BY DEF Names
<1>1. Point(measurement, measurement \o name, "mean", value) \in DataPoints
  BY <1>0, PointTyped DEF AggregationFunctions
<1> DEFINE D == DataPoints
<1>2. <<Point(measurement, measurement \o name, "mean", value)>> \in Seq(D)
  <2> HIDE DEF D
  <2>1. Point(measurement, measurement \o name, "mean", value) \in D
    BY <1>1 DEF D
  <2> QED BY <2>1, ShortSequences
<1> QED BY <1>2 DEF Plain

\* A series of one point.
LEMMA OnePointTyped ==
    ASSUME NEW measurement \in Names, NEW name \in Names, NEW func \in AggregationFunctions,
           NEW value \in Values
    PROVE  <<Point(measurement, name, func, value)>> \in Seq(DataPoints)
<1>1. Point(measurement, name, func, value) \in DataPoints
  BY PointTyped
<1> HIDE DEF DataPoints
<1> QED BY <1>1, ShortSequences

LEMMA MeterReportTyped ==
    ASSUME NEW m \in Messages, m.readings["value"] \in Values
    PROVE  MeterReport(m) \in Seq(DataPoints)
<1> DEFINE value == m.readings["value"]
           watts == IF m.unit = "kW" /\ value # NotFloat THEN 1000 * value ELSE value
           sampled == <<Point(Sampled, Import(Energy, m), "difference", value)>>
           power == Plain(Power, Import(Power, m), watts)
           energy == Plain(Energy, Import(Energy, m), value)
<1>1. value \in Values /\ watts \in Values
  BY TransformAssumption DEF Values
<1>2. /\ Import(Power, m) \in Names /\ Import(Energy, m) \in Names
      /\ Power \in Names /\ Energy \in Names /\ Sampled \in Names
  BY NamesTyped
<1>3. "difference" \in AggregationFunctions
  BY DEF AggregationFunctions
<1>4. MeterReport(m) \in {<<>>, power, sampled \o energy}
  BY DEF MeterReport
<1> HIDE DEF value, watts
<1>5. sampled \in Seq(DataPoints)
  BY <1>1, <1>2, <1>3, OnePointTyped
<1>6. power \in Seq(DataPoints) /\ energy \in Seq(DataPoints)
  BY <1>1, <1>2, PlainTyped
<1> HIDE DEF sampled, power, energy
<1> QED BY <1>4, <1>5, <1>6, ShortSequences

LEMMA SessionReportTyped ==
    ASSUME NEW m \in Messages, m.readings["value"] \in Values
    PROVE  SessionReport(m) \in Seq(DataPoints)
<1> DEFINE value == m.readings["value"]
           sampled == <<Point(Sampled, Import(Sampled, m), "sum", value)>>
           plain == Plain(<<m.service, m.type>>, Import(Sampled, m), value)
<1>1. value \in Values
  OBVIOUS
<1>2. Import(Sampled, m) \in Names /\ Sampled \in Names /\ <<m.service, m.type>> \in Names
  BY NamesTyped
<1>3. "sum" \in AggregationFunctions
  BY DEF AggregationFunctions
<1>4. SessionReport(m) \in {<<>>, sampled \o plain}
  BY DEF SessionReport
<1> HIDE DEF value
<1>5. sampled \in Seq(DataPoints)
  BY <1>1, <1>2, <1>3, OnePointTyped
<1>6. plain \in Seq(DataPoints)
  BY <1>1, <1>2, PlainTyped
<1> HIDE DEF sampled, plain
<1> QED BY <1>4, <1>5, <1>6, ShortSequences

LEMMA ExtendedReportTyped ==
    ASSUME NEW m \in Messages, \A key \in DOMAIN m.readings : m.readings[key] \in Int
    PROVE  ExtendedReport(m) \in Seq(DataPoints)
<1> DEFINE r == m.readings
           energy(key, name, sampledName) ==
             IF key \notin DOMAIN r THEN <<>>
             ELSE <<Point(Energy, name, "last", r[key]),
                    Point(Sampled, sampledName, "difference", r[key])>>
           power(key, name) ==
             IF key \notin DOMAIN r THEN <<>>
             ELSE <<Point(Power, name, "mean", r[key])>>
           all == energy("e_import", Import(Energy, m), Import(Sampled, m))
                  \o energy("e_export", Export(Energy, m), Export(Sampled, m))
                  \o power("p_import", Import(Power, m)) \o power("p_export", Export(Power, m))
<1>1. ExtendedReport(m) \in {<<>>, all}
  BY DEF ExtendedReport
<1>2. \A key \in DOMAIN r : r[key] \in Values
  BY DEF Values
<1>3. /\ Energy \in Names /\ Sampled \in Names /\ Power \in Names
      /\ Import(Energy, m) \in Names /\ Import(Sampled, m) \in Names
      /\ Export(Energy, m) \in Names /\ Export(Sampled, m) \in Names
      /\ Import(Power, m) \in Names /\ Export(Power, m) \in Names
  BY NamesTyped
<1>4. {"mean", "last", "difference"} \subseteq AggregationFunctions
  BY DEF AggregationFunctions
<1> HIDE DEF r
<1>5. ASSUME NEW key, NEW name \in Names PROVE power(key, name) \in Seq(DataPoints)
  <2>1. key \in DOMAIN r => <<Point(Power, name, "mean", r[key])>> \in Seq(DataPoints)
    BY <1>2, <1>3, <1>4, <1>5, OnePointTyped
  <2> QED BY <2>1, ShortSequences
<1>6. ASSUME NEW key, NEW name \in Names, NEW sampledName \in Names
      PROVE  energy(key, name, sampledName) \in Seq(DataPoints)
  <2>1. ASSUME key \in DOMAIN r
        PROVE  <<Point(Energy, name, "last", r[key]),
                 Point(Sampled, sampledName, "difference", r[key])>> \in Seq(DataPoints)
    <3> DEFINE p == Point(Energy, name, "last", r[key])
               q == Point(Sampled, sampledName, "difference", r[key])
    <3>1. p \in DataPoints /\ q \in DataPoints
      BY <1>2, <1>3, <1>4, <2>1, PointTyped
    <3> HIDE DEF p, q
    <3>2. <<p, q>> \in Seq(DataPoints)
      BY <3>1, ShortSequences
    <3> QED BY <3>2 DEF p, q
  <2> QED BY <2>1, ShortSequences
<1> HIDE DEF energy, power
<1>7. /\ energy("e_import", Import(Energy, m), Import(Sampled, m)) \in Seq(DataPoints)
      /\ energy("e_export", Export(Energy, m), Export(Sampled, m)) \in Seq(DataPoints)
      /\ power("p_import", Import(Power, m)) \in Seq(DataPoints)
      /\ power("p_export", Export(Power, m)) \in Seq(DataPoints)
  BY <1>3, <1>5, <1>6
<1>8. all \in Seq(DataPoints)
  BY <1>7, ShortSequences
<1> QED BY <1>1, <1>8, ShortSequences

LEMMA PriceForecastTyped ==
    ASSUME NEW m \in Messages, m.readings["hours"] \in Nat
    PROVE  PriceForecast(m) \in Seq(DataPoints)
<1>1. Import(Prices, m) \in Names /\ Prices \in Names
  BY NamesTyped
<1>2. Point(Prices, Import(Prices, m), "mean", NotFloat) \in DataPoints
  BY <1>1, PointTyped DEF Values, AggregationFunctions
<1> HIDE DEF DataPoints
<1> QED BY <1>2 DEF PriceForecast

LEMMA TransformTyped ==
    ASSUME NEW m \in Messages PROVE DefaultTransform(m) \in Seq(DataPoints)
<1>1. CASE IsMeter(m) /\ m.type = "evt.meter_ext.report"
  <2>1. \A key \in DOMAIN m.readings : m.readings[key] \in Int
    BY <1>1, MessagesAssumption
  <2>2. m.service # "price_info_elec"
    BY <1>1 DEF IsMeter
  <2>3. DefaultTransform(m) = ExtendedReport(m)
    BY <1>1, <2>2 DEF DefaultTransform
  <2> QED BY <2>1, <2>3, ExtendedReportTyped
<1>2. CASE m.service = "price_info_elec"
  <2>1. ~IsMeter(m)
    BY <1>2 DEF IsMeter
  <2>2. CASE m.type = "evt.price_forecast.report"
    <3>1. m.readings["hours"] \in Nat
      BY <1>2, <2>1, <2>2, MessagesAssumption
    <3>2. DefaultTransform(m) = PriceForecast(m)
      BY <1>2, <2>1, <2>2 DEF DefaultTransform
    <3> QED BY <3>1, <3>2, PriceForecastTyped
  <2>3. CASE m.type # "evt.price_forecast.report"
    <3>1. DefaultTransform(m) = <<>>
      BY <1>2, <2>1, <2>3 DEF DefaultTransform
    <3> QED BY <3>1, ShortSequences
  <2> QED BY <2>2, <2>3
<1>3. CASE ~(IsMeter(m) /\ m.type = "evt.meter_ext.report") /\ m.service # "price_info_elec"
  <2>1. m.readings["value"] \in Values
    BY <1>3, MessagesAssumption DEF Values
  <2> DEFINE plain == Plain(<<m.service, m.type>>, DeviceTag(m), m.readings["value"])
  <2>2. DefaultTransform(m) \in {MeterReport(m), SessionReport(m), plain}
    BY <1>3 DEF DefaultTransform
  <2>3. plain \in Seq(DataPoints)
    BY <2>1, NamesTyped, PlainTyped
  <2> HIDE DEF plain
  <2> QED BY <2>1, <2>2, <2>3, MeterReportTyped, SessionReportTyped
<1> QED BY <1>1, <1>2, <1>3
=============================================================================
