------------------------- MODULE BatchWriterProofs -------------------------
(***************************************************************************)
(* Proofs about BatchWriter for every value of its constants.  The         *)
(* inductive invariant IndInv is proved one part at a time: each part has  *)
(* a lemma that every step preserves it, with one step per action.         *)
(***************************************************************************)
EXTENDS BatchWriter, FiniteSetTheorems, TLAPS

-----------------------------------------------------------------------------
(* Sequences as batches *)

\* The elements of a batch are points.
LEMMA RangeType ==
    ASSUME NEW S, NEW s \in Seq(S)
    PROVE  Range(s) \subseteq S
BY DEF Range

\* Appending adds the point and nothing else.
LEMMA RangeAppend ==
    ASSUME NEW S, NEW s \in Seq(S), NEW e \in S
    PROVE  Range(Append(s, e)) = Range(s) \cup {e}
<1>1. DOMAIN Append(s, e) = DOMAIN s \cup {Len(s) + 1}
  OBVIOUS
<1>2. \A i \in DOMAIN s : Append(s, e)[i] = s[i]
  OBVIOUS
<1>3. Append(s, e)[Len(s) + 1] = e
  OBVIOUS
<1> QED
  BY <1>1, <1>2, <1>3 DEF Range

\* A fresh batch is empty.
LEMMA RangeEmpty == Range(<<>>) = {}
BY DEF Range

-----------------------------------------------------------------------------
(* Types and locals *)

LEMMA LimitsPositive == 0 < MaxAttempts /\ 0 < BatchMaxSize
BY LimitsAssumption

LEMMA InitTypes == Init => TypeOK /\ LocalsInv
BY BucketsAssumption, LimitsAssumption
   DEF Init, TypeOK, LocalsInv, Locations, Answers, Fates

\* Every step keeps the types and what the locals hold.
LEMMA TypesStep ==
    ASSUME TypeOK, LocalsInv, [Next]_vars
    PROVE  TypeOK' /\ LocalsInv'
<1> USE LimitsAssumption, BucketsAssumption DEF TypeOK, LocalsInv, Locations, Answers, Fates
<1>1. ASSUME NEW w \in Writers, NEW p \in Points, NEW b \in Buckets, Call(w, p, b)
      PROVE  TypeOK' /\ LocalsInv'
  BY <1>1 DEF Call, Goto, procVars, Goroutines
<1>2. ASSUME NEW t \in Tickers, Tick(t)
      PROVE  TypeOK' /\ LocalsInv'
  BY <1>2 DEF Tick, Goto, procVars, localVars, histVars, Goroutines
<1>3. ASSUME NEW g \in Goroutines, LockForAppend(g)
      PROVE  TypeOK' /\ LocalsInv'
  BY <1>3 DEF LockForAppend, Goto, localVars, histVars
<1>4. ASSUME NEW g \in Goroutines, LockForFlush(g)
      PROVE  TypeOK' /\ LocalsInv'
  BY <1>4 DEF LockForFlush, Goto, histVars
<1>5. ASSUME NEW g \in Goroutines, AppendPoint(g)
      PROVE  TypeOK' /\ LocalsInv'
  <2>1. batchPoints' \in [Buckets -> Seq(Points)]
    BY <1>5 DEF AppendPoint, WithPoint
  <2> QED
    BY <1>5, <2>1 DEF AppendPoint, Goto
<1>6. ASSUME NEW g \in Goroutines, CheckSize(g)
      PROVE  TypeOK' /\ LocalsInv'
  BY <1>6 DEF CheckSize, Goto, procVars, histVars
<1>7. ASSUME NEW g \in Goroutines, NEW b \in Buckets, NextBucket(g, b)
      PROVE  TypeOK' /\ LocalsInv'
  <2>1. CASE batchPoints[b] = <<>>
    BY <1>7, <2>1 DEF NextBucket, procVars, histVars
  <2>2. CASE batchPoints[b] # <<>>
    <3>1. /\ pc[g] = "loop"
          /\ pc' = [pc EXCEPT ![g] = "write"]
          /\ bucket' = [bucket EXCEPT ![g] = b]
          /\ todo' = [todo EXCEPT ![g] = @ \ {b}]
          /\ UNCHANGED <<procVars, point, attempt, answer, histVars>>
      BY <1>7, <2>2 DEF NextBucket, Goto
    <3>2. pc[g] \notin {"write", "reset"}
      BY <3>1
    <3>3. attempt[g] = 0 /\ 0 < MaxAttempts
      BY <3>2, LimitsPositive
    <3>4. TypeOK'
      BY <3>1 DEF procVars, histVars
    <3>5. LocalsInv'
      BY <3>1, <3>3
    <3> QED
      BY <3>4, <3>5
  <2> QED
    BY <2>1, <2>2
<1>8. ASSUME NEW g \in Goroutines, NEW ans \in Answers, NEW written \in SUBSET Points,
             Attempt(g, ans, written)
      PROVE  TypeOK' /\ LocalsInv'
  <2>1. Range(batchPoints[bucket[g]]) \in SUBSET Points
    BY <1>8, RangeType DEF Attempt
  <2>2. tries' \in [Points -> Nat] /\ sent' \in [Goroutines -> SUBSET Points]
    BY <1>8, <2>1 DEF Attempt
  <2>3. attempt[g] < MaxAttempts /\ attempt[g] + 1 \in 0 .. MaxAttempts
    BY <1>8 DEF Attempt
  <2> QED
    BY <1>8, <2>2, <2>3 DEF Attempt, Goto, LastAttempt, procVars
<1>9. ASSUME NEW g \in Goroutines, ResetBatch(g)
      PROVE  TypeOK' /\ LocalsInv'
  <2>1. batchPoints' \in [Buckets -> Seq(Points)]
    BY <1>9 DEF ResetBatch, WithoutBatch
  <2>2. state' \in {"RUNNING", "INITIALIZED_WITH_ERRORS", "LOST_CONNECTION"}
    BY <1>9 DEF ResetBatch, StateAfter
  <2> QED
    BY <1>9, <2>1, <2>2 DEF ResetBatch, Goto
<1>10. ASSUME NEW g \in Goroutines, EndFlush(g)
       PROVE  TypeOK' /\ LocalsInv'
  BY <1>10 DEF EndFlush, Goto, localVars, histVars
<1>11. ASSUME CrashAndRestart
       PROVE  TypeOK' /\ LocalsInv'
  BY <1>11 DEF CrashAndRestart
<1>12. ASSUME UNCHANGED vars
       PROVE  TypeOK' /\ LocalsInv'
  BY <1>12 DEF vars, procVars, localVars, histVars
<1> QED
  BY <1>1, <1>2, <1>3, <1>4, <1>5, <1>6, <1>7, <1>8, <1>9, <1>10, <1>11, <1>12
     DEF Next, Write, WriteDirect, Lock, Advance

-----------------------------------------------------------------------------
(* The mutex and the keys of the map *)

\* Every step keeps the mutex with the one goroutine that is inside, and
\* leaves no points under a key the map does not have.
LEMMA MutexStep ==
    ASSUME TypeOK, LocalsInv, MutexInv, KeysInv, [Next]_vars
    PROVE  MutexInv' /\ KeysInv'
<1> USE GoroutinesAssumption DEF TypeOK, LocalsInv, Locations, MutexInv, KeysInv, Critical
<1>1. ASSUME NEW w \in Writers, NEW p \in Points, NEW b \in Buckets, Call(w, p, b)
      PROVE  MutexInv' /\ KeysInv'
  BY <1>1 DEF Call, Goto, procVars, Goroutines
<1>2. ASSUME NEW t \in Tickers, Tick(t)
      PROVE  MutexInv' /\ KeysInv'
  BY <1>2 DEF Tick, Goto, procVars, Goroutines
<1>3. ASSUME NEW g \in Goroutines, LockForAppend(g)
      PROVE  MutexInv' /\ KeysInv'
  BY <1>3 DEF LockForAppend, Goto
<1>4. ASSUME NEW g \in Goroutines, LockForFlush(g)
      PROVE  MutexInv' /\ KeysInv'
  BY <1>4 DEF LockForFlush, Goto
<1>5. ASSUME NEW g \in Goroutines, AppendPoint(g)
      PROVE  MutexInv' /\ KeysInv'
  BY <1>5 DEF AppendPoint, WithPoint, Goto
<1>6. ASSUME NEW g \in Goroutines, CheckSize(g)
      PROVE  MutexInv' /\ KeysInv'
  BY <1>6 DEF CheckSize, Goto, procVars
<1>7. ASSUME NEW g \in Goroutines, NEW b \in Buckets, NextBucket(g, b)
      PROVE  MutexInv' /\ KeysInv'
  BY <1>7 DEF NextBucket, Goto, procVars
<1>8. ASSUME NEW g \in Goroutines, NEW ans \in Answers, NEW written \in SUBSET Points,
             Attempt(g, ans, written)
      PROVE  MutexInv' /\ KeysInv'
  BY <1>8 DEF Attempt, Goto, procVars
<1>9. ASSUME NEW g \in Goroutines, ResetBatch(g)
      PROVE  MutexInv' /\ KeysInv'
  BY <1>9 DEF ResetBatch, WithoutBatch, Goto
<1>10. ASSUME NEW g \in Goroutines, EndFlush(g)
       PROVE  MutexInv' /\ KeysInv'
  BY <1>10 DEF EndFlush, Goto
<1>11. ASSUME CrashAndRestart
       PROVE  MutexInv' /\ KeysInv'
  BY <1>11 DEF CrashAndRestart
<1>12. ASSUME UNCHANGED vars
       PROVE  MutexInv' /\ KeysInv'
  BY <1>12 DEF vars, procVars
<1> QED
  BY <1>1, <1>2, <1>3, <1>4, <1>5, <1>6, <1>7, <1>8, <1>9, <1>10, <1>11, <1>12
     DEF Next, Write, WriteDirect, Lock, Advance

-----------------------------------------------------------------------------
(* The size of a batch *)

\* Fewer due writers never allow more, and the writers are finitely many.
LEMMA DueCardinality ==
    ASSUME NEW S \in SUBSET Writers, NEW T \in SUBSET S
    PROVE  /\ IsFiniteSet(S)
           /\ Cardinality(T) \in Nat /\ Cardinality(S) \in Nat
           /\ Cardinality(T) <= Cardinality(S)
           /\ Cardinality(S) <= Cardinality(Writers)
           /\ Cardinality(Writers) \in Nat
BY GoroutinesAssumption, FS_Subset, FS_CardinalityType

\* A step that leaves a batch alone, or empties it, and releases no writer that
\* is due on it keeps the bound.
LEMMA DueKept ==
    ASSUME TypeOK, DueInv, NEW b \in Buckets,
           \/ batchPoints'[b] = <<>>
           \/ batchPoints'[b] = batchPoints[b] /\ Due(b) \subseteq Due(b)'
    PROVE  Len(batchPoints'[b]) <= BatchMaxSize - 1 + Cardinality(Due(b)')
<1>1. Due(b)' \in SUBSET Writers /\ Due(b) \in SUBSET Writers
  BY DEF Due
<1>2. Cardinality(Due(b)') \in Nat /\ Cardinality(Due(b)) \in Nat
  BY <1>1, DueCardinality
<1>3. CASE batchPoints'[b] = <<>>
  BY <1>2, <1>3, LimitsAssumption
<1>4. CASE batchPoints'[b] = batchPoints[b] /\ Due(b) \subseteq Due(b)'
  <2>1. Cardinality(Due(b)) <= Cardinality(Due(b)')
    BY <1>1, <1>4, DueCardinality
  <2>2. Len(batchPoints[b]) <= BatchMaxSize - 1 + Cardinality(Due(b))
    BY DEF DueInv
  <2>3. Len(batchPoints[b]) \in Nat
    BY DEF TypeOK
  <2> QED
    BY <1>2, <1>4, <2>1, <2>2, <2>3, LimitsAssumption
<1> QED
  BY <1>3, <1>4

\* Every step keeps the bound: an append adds one point and one due writer, and
\* a writer stops being due only on a batch that is short or empty.
LEMMA DueStep ==
    ASSUME TypeOK, LocalsInv, MutexInv, KeysInv, DueInv, [Next]_vars
    PROVE  DueInv'
<1> SUFFICES ASSUME NEW b \in Buckets
             PROVE  Len(batchPoints'[b]) <= BatchMaxSize - 1 + Cardinality(Due(b)')
  BY DEF DueInv
<1>a. ASSUME batchPoints'[b] = <<>>
      PROVE  Len(batchPoints'[b]) <= BatchMaxSize - 1 + Cardinality(Due(b)')
  BY <1>a, DueKept
<1>b. ASSUME UNCHANGED batchPoints, Due(b) \subseteq Due(b)'
      PROVE  Len(batchPoints'[b]) <= BatchMaxSize - 1 + Cardinality(Due(b)')
  BY <1>b, DueKept
<1>1. ASSUME NEW w \in Writers, NEW p \in Points, NEW c \in Buckets, Call(w, p, c)
      PROVE  Len(batchPoints'[b]) <= BatchMaxSize - 1 + Cardinality(Due(b)')
  <2>1. Due(b) \subseteq Due(b)'
    BY <1>1 DEF Call, Goto, Due, TypeOK, Goroutines
  <2> QED
    BY <1>1, <1>b, <2>1 DEF Call, procVars
<1>2. ASSUME NEW t \in Tickers, Tick(t)
      PROVE  Len(batchPoints'[b]) <= BatchMaxSize - 1 + Cardinality(Due(b)')
  <2>1. Due(b) \subseteq Due(b)'
    BY <1>2 DEF Tick, Goto, Due, TypeOK, Goroutines, localVars
  <2> QED
    BY <1>2, <1>b, <2>1 DEF Tick, procVars
<1>3. ASSUME NEW g \in Goroutines, LockForAppend(g)
      PROVE  Len(batchPoints'[b]) <= BatchMaxSize - 1 + Cardinality(Due(b)')
  <2>1. Due(b) \subseteq Due(b)'
    BY <1>3 DEF LockForAppend, Goto, Due, TypeOK, Goroutines, localVars
  <2> QED
    BY <1>3, <1>b, <2>1 DEF LockForAppend
<1>4. ASSUME NEW g \in Goroutines, LockForFlush(g)
      PROVE  Len(batchPoints'[b]) <= BatchMaxSize - 1 + Cardinality(Due(b)')
  <2>1. CASE b \in batchKeys
    <3>1. Due(b) \subseteq Due(b)'
      BY <1>4, <2>1 DEF LockForFlush, Goto, Due, TypeOK, Goroutines
    <3> QED
      BY <1>4, <1>b, <3>1 DEF LockForFlush
  <2>2. CASE b \notin batchKeys
    BY <1>4, <1>a, <2>2 DEF LockForFlush, KeysInv
  <2> QED
    BY <2>1, <2>2
<1>5. ASSUME NEW g \in Goroutines, AppendPoint(g)
      PROVE  Len(batchPoints'[b]) <= BatchMaxSize - 1 + Cardinality(Due(b)')
  <2>1. g \in Writers /\ bucket[g] \in Buckets /\ point[g] \in Points
    BY <1>5 DEF AppendPoint, LocalsInv
  <2>2. CASE b = bucket[g]
    <3>1. batchPoints'[b] = Append(batchPoints[b], point[g])
      BY <1>5, <2>1, <2>2 DEF AppendPoint, WithPoint, TypeOK
    <3>2. Len(batchPoints'[b]) = Len(batchPoints[b]) + 1
      BY <2>1, <3>1 DEF TypeOK
    <3>3. g \notin Due(b)
      BY <1>5 DEF AppendPoint, Due
    <3>4. Due(b) \cup {g} \subseteq Due(b)'
      BY <1>5, <2>1, <2>2 DEF AppendPoint, Goto, Due, TypeOK, Goroutines
    <3>5. Due(b) \in SUBSET Writers /\ Due(b)' \in SUBSET Writers
      BY DEF Due
    <3>6. Cardinality(Due(b) \cup {g}) = Cardinality(Due(b)) + 1
      BY <3>3, <3>5, DueCardinality, FS_AddElement
    <3>7. Cardinality(Due(b) \cup {g}) <= Cardinality(Due(b)')
      BY <3>4, <3>5, DueCardinality
    <3>8. Cardinality(Due(b)) \in Nat /\ Cardinality(Due(b)') \in Nat
      BY <3>5, DueCardinality
    <3>9. Len(batchPoints[b]) \in Nat
      BY DEF TypeOK
    <3>10. Len(batchPoints[b]) <= BatchMaxSize - 1 + Cardinality(Due(b))
      BY DEF DueInv
    <3> QED
      BY <3>2, <3>6, <3>7, <3>8, <3>9, <3>10, LimitsAssumption
  <2>3. CASE b # bucket[g]
    <3>1. batchPoints'[b] = batchPoints[b]
      BY <1>5, <2>3 DEF AppendPoint, WithPoint, TypeOK
    <3>2. Due(b) \subseteq Due(b)'
      BY <1>5 DEF AppendPoint, Goto, Due, TypeOK, Goroutines
    <3> QED
      BY <3>1, <3>2, DueKept
  <2> QED
    BY <2>2, <2>3
<1>6. ASSUME NEW g \in Goroutines, CheckSize(g)
      PROVE  Len(batchPoints'[b]) <= BatchMaxSize - 1 + Cardinality(Due(b)')
  <2>1. UNCHANGED batchPoints
    BY <1>6 DEF CheckSize, procVars
  <2>2. CASE b = bucket[g] /\ ~BatchIsFull(b)
    <3>1. Len(batchPoints[b]) < BatchMaxSize /\ Len(batchPoints[b]) \in Nat
      BY <2>2, LimitsAssumption DEF BatchIsFull, TypeOK
    <3>2. Due(b)' \in SUBSET Writers
      BY DEF Due
    <3>3. Cardinality(Due(b)') \in Nat
      BY <3>2, DueCardinality
    <3> QED
      BY <2>1, <3>1, <3>3, LimitsAssumption
  <2>3. CASE ~(b = bucket[g] /\ ~BatchIsFull(b))
    <3>1. Due(b) \subseteq Due(b)'
      BY <1>6, <2>3 DEF CheckSize, Goto, Due, TypeOK, Goroutines
    <3> QED
      BY <1>b, <2>1, <3>1
  <2> QED
    BY <2>2, <2>3
<1>7. ASSUME NEW g \in Goroutines, NEW c \in Buckets, NextBucket(g, c)
      PROVE  Len(batchPoints'[b]) <= BatchMaxSize - 1 + Cardinality(Due(b)')
  <2>1. UNCHANGED batchPoints
    BY <1>7 DEF NextBucket, procVars
  <2>2. CASE batchPoints[b] = <<>>
    BY <1>a, <2>1, <2>2
  <2>3. CASE batchPoints[b] # <<>>
    <3>1. Due(b) \subseteq Due(b)'
      BY <1>7, <2>3 DEF NextBucket, Goto, Due, TypeOK, Goroutines
    <3> QED
      BY <1>b, <2>1, <3>1
  <2> QED
    BY <2>2, <2>3
<1>8. ASSUME NEW g \in Goroutines, NEW ans \in Answers, NEW written \in SUBSET Points,
             Attempt(g, ans, written)
      PROVE  Len(batchPoints'[b]) <= BatchMaxSize - 1 + Cardinality(Due(b)')
  <2>1. Due(b) \subseteq Due(b)'
    BY <1>8 DEF Attempt, Goto, Due, TypeOK, Goroutines
  <2> QED
    BY <1>8, <1>b, <2>1 DEF Attempt, procVars
<1>9. ASSUME NEW g \in Goroutines, ResetBatch(g)
      PROVE  Len(batchPoints'[b]) <= BatchMaxSize - 1 + Cardinality(Due(b)')
  <2>1. CASE b = bucket[g]
    BY <1>9, <1>a, <2>1 DEF ResetBatch, WithoutBatch, TypeOK
  <2>2. CASE b # bucket[g]
    <3>1. batchPoints'[b] = batchPoints[b]
      BY <1>9, <2>2 DEF ResetBatch, WithoutBatch, TypeOK
    <3>2. Due(b) \subseteq Due(b)'
      BY <1>9, <2>2 DEF ResetBatch, Goto, Due, TypeOK, Goroutines
    <3> QED
      BY <3>1, <3>2, DueKept
  <2> QED
    BY <2>1, <2>2
<1>10. ASSUME NEW g \in Goroutines, EndFlush(g)
       PROVE  Len(batchPoints'[b]) <= BatchMaxSize - 1 + Cardinality(Due(b)')
  <2>1. Due(b) \subseteq Due(b)'
    BY <1>10 DEF EndFlush, Goto, Due, TypeOK, Goroutines, localVars
  <2> QED
    BY <1>10, <1>b, <2>1 DEF EndFlush
<1>11. ASSUME CrashAndRestart
       PROVE  Len(batchPoints'[b]) <= BatchMaxSize - 1 + Cardinality(Due(b)')
  BY <1>11, <1>a DEF CrashAndRestart
<1>12. ASSUME UNCHANGED vars
       PROVE  Len(batchPoints'[b]) <= BatchMaxSize - 1 + Cardinality(Due(b)')
  <2>1. Due(b) \subseteq Due(b)'
    BY <1>12 DEF vars, localVars, Due
  <2> QED
    BY <1>12, <1>b, <2>1 DEF vars, procVars
<1> QED
  BY <1>1, <1>2, <1>3, <1>4, <1>5, <1>6, <1>7, <1>8, <1>9, <1>10, <1>11, <1>12
     DEF Next, Write, WriteDirect, Lock, Advance

-----------------------------------------------------------------------------
(* The place of a point *)

\* One goroutine at a time is between Lock and Unlock.
LEMMA OneInside ==
    ASSUME MutexInv, NEW g \in Goroutines, NEW h \in Goroutines,
           pc[g] \in Critical, pc[h] \in Critical
    PROVE  g = h
BY DEF MutexInv

\* A point is in one batch.
LEMMA OneBatch ==
    ASSUME PendingInOneBatch, NEW b \in Buckets, NEW c \in Buckets,
           NEW p \in Range(batchPoints[b]), p \in Range(batchPoints[c])
    PROVE  b = c
BY DEF PendingInOneBatch, Range

\* Appending a point that is in no batch keeps the places of points apart.
LEMMA AppendKeepsPlaces ==
    ASSUME TypeOK, PendingInOneBatch, NEW c \in Buckets, NEW p \in Points,
           fate[p] # "pending",
           batchPoints' = WithPoint(c, p),
           fate' = [fate EXCEPT ![p] = "pending"]
    PROVE  PendingInOneBatch'
<1>1. /\ batchPoints'[c] = Append(batchPoints[c], p)
      /\ \A b \in Buckets : b # c => batchPoints'[b] = batchPoints[b]
      /\ \A b \in Buckets : batchPoints[b] \in Seq(Points)
  BY DEF TypeOK, WithPoint
<1>2. \A b \in Buckets : p \notin Range(batchPoints[b])
  BY DEF PendingInOneBatch
<1>3. ASSUME NEW q \in Points
      PROVE  fate'[q] = "pending" <=> \E b \in Buckets : q \in Range(batchPoints'[b])
  <2>1. Range(batchPoints'[c]) = Range(batchPoints[c]) \cup {p}
    BY <1>1, RangeAppend
  <2>2. fate'[q] = "pending" <=> q = p \/ fate[q] = "pending"
    BY DEF TypeOK
  <2>3. fate[q] = "pending" <=> \E b \in Buckets : q \in Range(batchPoints[b])
    BY DEF PendingInOneBatch
  <2> QED
    BY <1>1, <2>1, <2>2, <2>3
<1>4. ASSUME NEW b \in Buckets, NEW d \in Buckets,
             NEW i \in DOMAIN batchPoints'[b], NEW j \in DOMAIN batchPoints'[d],
             batchPoints'[b][i] = batchPoints'[d][j]
      PROVE  b = d /\ i = j
  <2> DEFINE n == Len(batchPoints[c]) + 1
  <2>1. DOMAIN batchPoints'[c] = DOMAIN batchPoints[c] \cup {n}
    BY <1>1
  <2>2. batchPoints'[c][n] = p
    BY <1>1
  <2>3. \A k \in DOMAIN batchPoints[c] : batchPoints'[c][k] = batchPoints[c][k]
    BY <1>1
  <2>4. \A e \in Buckets : \A k \in DOMAIN batchPoints[e] : batchPoints[e][k] # p
    BY <1>2 DEF Range
  <2>5. \A e \in Buckets : \A k \in DOMAIN batchPoints'[e] :
           \/ e = c /\ k = n
           \/ k \in DOMAIN batchPoints[e] /\ batchPoints'[e][k] = batchPoints[e][k]
    BY <1>1, <2>1, <2>3
  <2> HIDE DEF n
  <2> QED
    BY <1>4, <2>2, <2>4, <2>5 DEF PendingInOneBatch
<1> QED
  BY <1>3, <1>4 DEF PendingInOneBatch

\* Emptying a batch and settling exactly its points keeps the places.
LEMMA ResetKeepsPlaces ==
    ASSUME TypeOK, PendingInOneBatch, NEW c \in Buckets, NEW verdict \in {"acked", "dropped"},
           batchPoints' = WithoutBatch(c),
           fate' = [p \in Points |-> IF p \in Range(batchPoints[c]) THEN verdict ELSE fate[p]]
    PROVE  PendingInOneBatch'
<1>1. batchPoints'[c] = <<>> /\ \A b \in Buckets : b # c => batchPoints'[b] = batchPoints[b]
  BY DEF TypeOK, WithoutBatch
<1>2. ASSUME NEW q \in Points
      PROVE  fate'[q] = "pending" <=> \E b \in Buckets : q \in Range(batchPoints'[b])
  <2>1. fate[q] = "pending" <=> \E b \in Buckets : q \in Range(batchPoints[b])
    BY DEF PendingInOneBatch
  <2>2. Range(batchPoints'[c]) = {}
    BY <1>1, RangeEmpty
  <2>3. CASE q \in Range(batchPoints[c])
    BY <1>1, <2>2, <2>3, OneBatch
  <2>4. CASE q \notin Range(batchPoints[c])
    BY <1>1, <2>1, <2>2, <2>4
  <2> QED
    BY <2>3, <2>4
<1>3. ASSUME NEW b \in Buckets, NEW d \in Buckets,
             NEW i \in DOMAIN batchPoints'[b], NEW j \in DOMAIN batchPoints'[d],
             batchPoints'[b][i] = batchPoints'[d][j]
      PROVE  b = d /\ i = j
  <2>1. b # c /\ d # c
    BY <1>1
  <2> QED
    BY <1>1, <1>3, <2>1 DEF PendingInOneBatch
<1> QED
  BY <1>2, <1>3 DEF PendingInOneBatch

Places == PendingInOneBatch /\ HandedInv /\ SentInv

\* Every step keeps every point in its one place, and every flush sends and
\* settles the batch as it is.
LEMMA PlacesStep ==
    ASSUME TypeOK, LocalsInv, MutexInv, Places, [Next]_vars
    PROVE  Places'
<1> USE DEF Places
<1>1. ASSUME NEW w \in Writers, NEW p \in Points, NEW b \in Buckets, Call(w, p, b)
      PROVE  Places'
  <2>1. PendingInOneBatch'
    BY <1>1 DEF Call, procVars, PendingInOneBatch, TypeOK
  <2>2. HandedInv'
    BY <1>1 DEF Call, Goto, HandedInv, TypeOK, LocalsInv, Goroutines
  <2>3. SentInv'
    BY <1>1 DEF Call, Goto, procVars, SentInv, TypeOK, Goroutines
  <2> QED
    BY <2>1, <2>2, <2>3
<1>2. ASSUME NEW t \in Tickers, Tick(t)
      PROVE  Places'
  BY <1>2 DEF Tick, Goto, procVars, localVars, histVars, PendingInOneBatch, HandedInv,
              SentInv, TypeOK, Goroutines
<1>3. ASSUME NEW g \in Goroutines, LockForAppend(g)
      PROVE  Places'
  BY <1>3 DEF LockForAppend, Goto, localVars, histVars, PendingInOneBatch, HandedInv,
              SentInv, TypeOK
<1>4. ASSUME NEW g \in Goroutines, LockForFlush(g)
      PROVE  Places'
  BY <1>4 DEF LockForFlush, Goto, histVars, PendingInOneBatch, HandedInv, SentInv, TypeOK
<1>5. ASSUME NEW g \in Goroutines, AppendPoint(g)
      PROVE  Places'
  <2>1. point[g] \in Points /\ bucket[g] \in Buckets /\ fate[point[g]] = "handed"
    BY <1>5 DEF AppendPoint, LocalsInv, HandedInv
  <2>2. PendingInOneBatch'
    BY <1>5, <2>1, AppendKeepsPlaces DEF AppendPoint
  <2>3. HandedInv'
    BY <1>5, <2>1 DEF AppendPoint, Goto, HandedInv, LocalsInv, TypeOK
  <2>4. \A h \in Goroutines : pc'[h] # "reset"
    BY <1>5, OneInside DEF AppendPoint, Goto, Critical, TypeOK
  <2> QED
    BY <2>2, <2>3, <2>4 DEF SentInv
<1>6. ASSUME NEW g \in Goroutines, CheckSize(g)
      PROVE  Places'
  <2>1. \A h \in Goroutines :
           pc'[h] \in {"lock", "append", "reset"} =>
              pc[h] = pc'[h] /\ bucket'[h] = bucket[h]
    BY <1>6 DEF CheckSize, Goto, TypeOK
  <2>2. UNCHANGED <<batchPoints, point, attempt, answer, fate, stored, sent>>
    BY <1>6 DEF CheckSize, procVars, histVars
  <2> QED
    BY <2>1, <2>2 DEF PendingInOneBatch, HandedInv, SentInv
<1>7. ASSUME NEW g \in Goroutines, NEW b \in Buckets, NextBucket(g, b)
      PROVE  Places'
  <2>1. \A h \in Goroutines :
           pc'[h] \in {"lock", "append", "reset"} =>
              pc[h] = pc'[h] /\ bucket'[h] = bucket[h]
    <3>1. CASE batchPoints[b] = <<>>
      BY <1>7, <3>1 DEF NextBucket
    <3>2. CASE batchPoints[b] # <<>>
      BY <1>7, <3>2 DEF NextBucket, Goto, TypeOK
    <3> QED
      BY <3>1, <3>2
  <2>2. UNCHANGED <<batchPoints, point, attempt, answer, fate, stored, sent>>
    BY <1>7 DEF NextBucket, procVars, histVars
  <2> QED
    BY <2>1, <2>2 DEF PendingInOneBatch, HandedInv, SentInv
<1>8. ASSUME NEW g \in Goroutines, NEW ans \in Answers, NEW written \in SUBSET Points,
             Attempt(g, ans, written)
      PROVE  Places'
  <2>1. PendingInOneBatch'
    BY <1>8 DEF Attempt, procVars, PendingInOneBatch
  <2>2. HandedInv'
    BY <1>8 DEF Attempt, Goto, HandedInv, TypeOK
  <2>3. ASSUME NEW h \in Goroutines, pc'[h] = "reset"
        PROVE  /\ h = g
               /\ sent'[g] = Range(batchPoints[bucket[g]])
               /\ answer'[g] = ans
               /\ ans = "unreachable" => attempt'[g] = MaxAttempts
               /\ bucket' = bucket /\ batchPoints' = batchPoints
    <3>1. h = g
      BY <1>8, <2>3, OneInside DEF Attempt, Goto, Critical, TypeOK
    <3>2. LastAttempt(attempt[g] + 1, ans)
      BY <1>8, <2>3, <3>1 DEF Attempt, Goto, TypeOK
    <3> QED
      BY <1>8, <3>1, <3>2 DEF Attempt, LastAttempt, procVars, TypeOK
  <2>4. ASSUME StorageType = "influxdb", ans = "ok"
        PROVE  Range(batchPoints[bucket[g]]) \subseteq stored'
    BY <1>8, <2>4 DEF Attempt, WriteDataPoints, Offered
  <2>5. SentInv'
    BY <2>3, <2>4 DEF SentInv
  <2> QED
    BY <2>1, <2>2, <2>5
<1>9. ASSUME NEW g \in Goroutines, ResetBatch(g)
      PROVE  Places'
  <2>1. bucket[g] \in Buckets /\ sent[g] = Range(batchPoints[bucket[g]])
    BY <1>9 DEF ResetBatch, LocalsInv, SentInv
  <2> DEFINE verdict == IF answer[g] = "ok" THEN "acked" ELSE "dropped"
  <2>2. fate' = [p \in Points |->
                    IF p \in Range(batchPoints[bucket[g]]) THEN verdict ELSE fate[p]]
    BY <1>9, <2>1 DEF ResetBatch
  <2>3. verdict \in {"acked", "dropped"}
    OBVIOUS
  <2>4. PendingInOneBatch'
    <3> HIDE DEF verdict
    <3> QED
      BY <1>9, <2>1, <2>2, <2>3, ResetKeepsPlaces DEF ResetBatch
  <2>5. \A p \in Points : fate[p] = "handed" => fate'[p] = "handed"
    BY <2>1, <2>2 DEF PendingInOneBatch
  <2>6. HandedInv'
    BY <1>9, <2>5 DEF ResetBatch, Goto, HandedInv, TypeOK, LocalsInv
  <2>7. \A h \in Goroutines : pc'[h] # "reset"
    BY <1>9, OneInside DEF ResetBatch, Goto, Critical, TypeOK
  <2> QED
    BY <2>4, <2>6, <2>7 DEF SentInv
<1>10. ASSUME NEW g \in Goroutines, EndFlush(g)
       PROVE  Places'
  BY <1>10 DEF EndFlush, Goto, localVars, histVars, PendingInOneBatch, HandedInv, SentInv,
               TypeOK
<1>11. ASSUME CrashAndRestart
       PROVE  Places'
  <2>1. \A p \in Points : fate'[p] # "pending"
    BY <1>11 DEF CrashAndRestart, Inside, TypeOK
  <2>2. \A b \in Buckets : batchPoints'[b] = <<>> /\ Range(batchPoints'[b]) = {}
    BY <1>11, RangeEmpty DEF CrashAndRestart
  <2>3. PendingInOneBatch'
    BY <2>1, <2>2 DEF PendingInOneBatch
  <2> QED
    BY <1>11, <2>3 DEF CrashAndRestart, HandedInv, SentInv
<1>12. ASSUME UNCHANGED vars
       PROVE  Places'
  BY <1>12 DEF vars, procVars, localVars, histVars, PendingInOneBatch, HandedInv, SentInv
<1> QED
  BY <1>1, <1>2, <1>3, <1>4, <1>5, <1>6, <1>7, <1>8, <1>9, <1>10, <1>11, <1>12
     DEF Next, Write, WriteDirect, Lock, Advance

-----------------------------------------------------------------------------
(* Retries and acknowledgements *)

Flushing(g) == pc[g] \in {"write", "reset"}

\* A step that offers nothing and starts or ends no flush keeps the counts.
LEMMA TriesKept ==
    ASSUME TriesInv, PendingInOneBatch,
           UNCHANGED <<batchPoints, tries>>,
           \A p \in Points : fate'[p] \in {"new", "handed"} => fate[p] \in {"new", "handed"},
           \A g \in Goroutines : Flushing(g)' = Flushing(g),
           \A g \in Goroutines :
              Flushing(g) => bucket'[g] = bucket[g] /\ attempt'[g] = attempt[g]
    PROVE  TriesInv'
BY DEF TriesInv, Flushing

\* Every step keeps the counts: the points of the batch being flushed have been
\* offered once a round, the others not at all.
LEMMA TriesStep ==
    ASSUME TypeOK, LocalsInv, MutexInv, Places, TriesInv, RetriesBounded, [Next]_vars
    PROVE  TriesInv' /\ RetriesBounded'
<1> DEFINE Goal == TriesInv' /\ RetriesBounded'
<1> USE DEF Places
<1>a. ASSUME UNCHANGED tries PROVE RetriesBounded'
  BY <1>a DEF RetriesBounded
<1>1. ASSUME NEW w \in Writers, NEW p \in Points, NEW b \in Buckets, Call(w, p, b)
      PROVE  Goal
  <2>1. \A g \in Goroutines :
           /\ Flushing(g)' = Flushing(g)
           /\ Flushing(g) => bucket'[g] = bucket[g] /\ attempt'[g] = attempt[g]
    BY <1>1 DEF Call, Goto, Flushing, TypeOK, Goroutines
  <2>2. \A q \in Points : fate'[q] \in {"new", "handed"} => fate[q] \in {"new", "handed"}
    BY <1>1 DEF Call, TypeOK
  <2> QED
    BY <1>1, <1>a, <2>1, <2>2, TriesKept DEF Call, procVars
<1>2. ASSUME NEW t \in Tickers, Tick(t)
      PROVE  Goal
  <2>1. \A g \in Goroutines : Flushing(g)' = Flushing(g)
    BY <1>2 DEF Tick, Goto, Flushing, TypeOK, Goroutines
  <2> QED
    BY <1>2, <1>a, <2>1, TriesKept DEF Tick, procVars, localVars, histVars
<1>3. ASSUME NEW g \in Goroutines, LockForAppend(g)
      PROVE  Goal
  <2>1. \A h \in Goroutines : Flushing(h)' = Flushing(h)
    BY <1>3 DEF LockForAppend, Goto, Flushing, TypeOK
  <2> QED
    BY <1>3, <1>a, <2>1, TriesKept DEF LockForAppend, localVars, histVars
<1>4. ASSUME NEW g \in Goroutines, LockForFlush(g)
      PROVE  Goal
  <2>1. \A h \in Goroutines : Flushing(h)' = Flushing(h)
    BY <1>4 DEF LockForFlush, Goto, Flushing, TypeOK
  <2> QED
    BY <1>4, <1>a, <2>1, TriesKept DEF LockForFlush, histVars
<1>5. ASSUME NEW g \in Goroutines, AppendPoint(g)
      PROVE  Goal
  <2>1. /\ point[g] \in Points /\ bucket[g] \in Buckets
        /\ fate[point[g]] = "handed" /\ tries[point[g]] = 0
    BY <1>5 DEF AppendPoint, LocalsInv, HandedInv, TriesInv
  <2>2. \A h \in Goroutines : ~Flushing(h) /\ ~Flushing(h)'
    BY <1>5, OneInside DEF AppendPoint, Goto, Flushing, Critical, TypeOK
  <2>3. \A b \in Buckets :
           Range(batchPoints'[b]) \subseteq Range(batchPoints[b]) \cup {point[g]}
    <3>1. batchPoints[bucket[g]] \in Seq(Points)
      BY <2>1 DEF TypeOK
    <3>2. Range(Append(batchPoints[bucket[g]], point[g]))
             = Range(batchPoints[bucket[g]]) \cup {point[g]}
      BY <2>1, <3>1, RangeAppend
    <3> QED
      BY <1>5, <2>1, <3>2 DEF AppendPoint, WithPoint, TypeOK
  <2>4. \A p \in Points : fate'[p] \in {"new", "handed"} => fate[p] \in {"new", "handed"}
    BY <1>5 DEF AppendPoint, TypeOK
  <2>5. UNCHANGED tries
    BY <1>5 DEF AppendPoint
  <2>6. TriesInv'
    BY <2>1, <2>2, <2>3, <2>4, <2>5 DEF TriesInv, Flushing
  <2> QED
    BY <1>a, <2>5, <2>6
<1>6. ASSUME NEW g \in Goroutines, CheckSize(g)
      PROVE  Goal
  <2>1. \A h \in Goroutines :
           /\ Flushing(h)' = Flushing(h)
           /\ Flushing(h) => bucket'[h] = bucket[h] /\ attempt'[h] = attempt[h]
    BY <1>6 DEF CheckSize, Goto, Flushing, TypeOK
  <2> QED
    BY <1>6, <1>a, <2>1, TriesKept DEF CheckSize, procVars, histVars
<1>7. ASSUME NEW g \in Goroutines, NEW b \in Buckets, NextBucket(g, b)
      PROVE  Goal
  <2>0. UNCHANGED <<batchPoints, tries, fate, attempt>>
    BY <1>7 DEF NextBucket, procVars, histVars
  <2>1. CASE batchPoints[b] = <<>>
    <3>1. UNCHANGED <<bucket, pc>>
      BY <1>7, <2>1 DEF NextBucket
    <3> QED
      BY <1>a, <2>0, <3>1, TriesKept DEF Flushing
  <2>2. CASE batchPoints[b] # <<>>
    <3>1. /\ pc[g] = "loop" /\ pc' = [pc EXCEPT ![g] = "write"]
          /\ bucket' = [bucket EXCEPT ![g] = b]
      BY <1>7, <2>2 DEF NextBucket, Goto
    <3>2. \A h \in Goroutines : ~Flushing(h) /\ (Flushing(h)' => h = g)
      BY <3>1, OneInside DEF Flushing, Critical, TypeOK
    <3>3. \A p \in Points, c \in Buckets : p \in Range(batchPoints[c]) => tries[p] = 0
      BY <3>2 DEF TriesInv, Flushing
    <3>4. Flushing(g)' /\ bucket'[g] = b /\ attempt'[g] = 0
      BY <2>0, <3>1 DEF Flushing, LocalsInv, TypeOK
    <3>5. \A p \in Points, c \in Buckets : p \in Range(batchPoints[c]) =>
             IF c = b THEN Flushing(g)' /\ bucket'[g] = c /\ tries[p] = attempt'[g]
             ELSE tries[p] = 0 /\ \A h \in Goroutines : Flushing(h)' => bucket'[h] # c
      BY <3>2, <3>3, <3>4
    <3>6. TriesInv'
      BY <2>0, <3>5 DEF TriesInv, Flushing
    <3> QED
      BY <1>a, <2>0, <3>6
  <2> QED
    BY <2>1, <2>2
<1>8. ASSUME NEW g \in Goroutines, NEW ans \in Answers, NEW written \in SUBSET Points,
             Attempt(g, ans, written)
      PROVE  Goal
  <2> DEFINE batch == batchPoints[bucket[g]]
  <2>1. /\ Flushing(g) /\ bucket[g] \in Buckets
        /\ attempt[g] < MaxAttempts /\ attempt[g] \in Nat
    BY <1>8, LimitsAssumption DEF Attempt, Flushing, LocalsInv, TypeOK
  <2>2. \A h \in Goroutines : (Flushing(h) => h = g) /\ (Flushing(h)' => h = g)
    BY <1>8, OneInside DEF Attempt, Goto, Flushing, Critical, TypeOK
  <2>3. Flushing(g)'
    BY <1>8 DEF Attempt, Goto, Flushing, TypeOK
  <2>4. /\ tries' = [p \in Points |-> IF p \in Range(batch) THEN tries[p] + 1 ELSE tries[p]]
        /\ attempt'[g] = attempt[g] + 1
        /\ UNCHANGED <<batchPoints, bucket, fate>>
    BY <1>8 DEF Attempt, procVars, TypeOK
  <2>5. \A p \in Points : p \in Range(batch) => tries[p] = attempt[g] /\ fate[p] = "pending"
    BY <2>1, <2>2 DEF TriesInv, PendingInOneBatch, Flushing
  <2>6. \A p \in Points, c \in Buckets :
           p \in Range(batchPoints[c]) /\ c # bucket[g] => p \notin Range(batch) /\ tries[p] = 0
    BY <2>1, <2>2, OneBatch DEF TriesInv, Flushing
  <2>7. \A p \in Points, c \in Buckets : p \in Range(batchPoints[c]) =>
           IF c = bucket[g] THEN tries'[p] = attempt'[g]
           ELSE tries'[p] = 0 /\ \A h \in Goroutines : Flushing(h)' => bucket'[h] # c
    BY <2>2, <2>4, <2>5, <2>6
  <2>8. \A p \in Points : fate'[p] \in {"new", "handed"} => tries'[p] = 0
    BY <2>4, <2>5 DEF TriesInv
  <2>9. TriesInv'
    BY <2>3, <2>4, <2>7, <2>8 DEF TriesInv, Flushing
  <2>10. RetriesBounded'
    <3> HIDE DEF batch
    <3> QED
      BY <2>1, <2>4, <2>5, LimitsAssumption DEF RetriesBounded, TypeOK
  <2> QED
    BY <2>9, <2>10
<1>9. ASSUME NEW g \in Goroutines, ResetBatch(g)
      PROVE  Goal
  <2>1. Flushing(g) /\ bucket[g] \in Buckets
    BY <1>9 DEF ResetBatch, LocalsInv, Flushing
  <2>2. \A h \in Goroutines : (Flushing(h) => h = g) /\ ~Flushing(h)'
    BY <1>9, OneInside DEF ResetBatch, Goto, Flushing, Critical, TypeOK
  <2>3. \A c \in Buckets : \/ Range(batchPoints'[c]) = {}
                           \/ c # bucket[g] /\ batchPoints'[c] = batchPoints[c]
    BY <1>9, <2>1, RangeEmpty DEF ResetBatch, WithoutBatch, TypeOK
  <2>4. \A p \in Points, c \in Buckets : p \in Range(batchPoints'[c]) => tries[p] = 0
    BY <2>2, <2>3 DEF TriesInv, Flushing
  <2>5. \A p \in Points : fate'[p] \in {"new", "handed"} => fate[p] \in {"new", "handed"}
    BY <1>9 DEF ResetBatch, TypeOK
  <2>6. UNCHANGED tries
    BY <1>9 DEF ResetBatch
  <2>7. TriesInv'
    BY <2>2, <2>4, <2>5, <2>6 DEF TriesInv, Flushing
  <2> QED
    BY <1>a, <2>6, <2>7
<1>10. ASSUME NEW g \in Goroutines, EndFlush(g)
       PROVE  Goal
  <2>1. \A h \in Goroutines : Flushing(h)' = Flushing(h)
    BY <1>10 DEF EndFlush, Goto, Flushing, TypeOK
  <2> QED
    BY <1>10, <1>a, <2>1, TriesKept DEF EndFlush, localVars, histVars
<1>11. ASSUME CrashAndRestart
       PROVE  Goal
  <2>1. \A b \in Buckets : Range(batchPoints'[b]) = {}
    BY <1>11, RangeEmpty DEF CrashAndRestart
  <2>2. \A p \in Points : fate'[p] \in {"new", "handed"} => fate[p] \in {"new", "handed"}
    BY <1>11 DEF CrashAndRestart
  <2>3. UNCHANGED tries
    BY <1>11 DEF CrashAndRestart
  <2> QED
    BY <1>a, <2>1, <2>2, <2>3 DEF TriesInv
<1>12. ASSUME UNCHANGED vars
       PROVE  Goal
  BY <1>12, <1>a, TriesKept DEF vars, procVars, localVars, histVars, Flushing
<1> QED
  BY <1>1, <1>2, <1>3, <1>4, <1>5, <1>6, <1>7, <1>8, <1>9, <1>10, <1>11, <1>12
     DEF Next, Write, WriteDirect, Lock, Advance

\* With the InfluxDB 1 driver, every step acknowledges only what is stored.
LEMMA AckedStep ==
    ASSUME TypeOK, StorageType = "influxdb", AckedIsStored, SentInv, [Next]_vars
    PROVE  AckedIsStored'
<1> USE DEF AckedIsStored
<1>1. CASE stored \subseteq stored'
           /\ \A p \in Points : fate'[p] = "acked" => fate[p] = "acked"
  BY <1>1
<1>2. ASSUME NEW w \in Writers, NEW p \in Points, NEW b \in Buckets, Call(w, p, b)
      PROVE  AckedIsStored'
  BY <1>1, <1>2 DEF Call, TypeOK
<1>3. ASSUME NEW t \in Tickers, Tick(t)
      PROVE  AckedIsStored'
  BY <1>1, <1>3 DEF Tick, histVars
<1>4. ASSUME NEW g \in Goroutines, Lock(g)
      PROVE  AckedIsStored'
  BY <1>1, <1>4 DEF Lock, LockForAppend, LockForFlush, histVars
<1>5. ASSUME NEW g \in Goroutines, AppendPoint(g)
      PROVE  AckedIsStored'
  BY <1>1, <1>5 DEF AppendPoint, TypeOK
<1>6. ASSUME NEW g \in Goroutines, CheckSize(g) \/ EndFlush(g)
      PROVE  AckedIsStored'
  BY <1>1, <1>6 DEF CheckSize, EndFlush, histVars
<1>7. ASSUME NEW g \in Goroutines, NEW b \in Buckets, NextBucket(g, b)
      PROVE  AckedIsStored'
  BY <1>1, <1>7 DEF NextBucket, histVars
<1>8. ASSUME NEW g \in Goroutines, NEW ans \in Answers, NEW written \in SUBSET Points,
             Attempt(g, ans, written)
      PROVE  AckedIsStored'
  BY <1>1, <1>8 DEF Attempt
<1>9. ASSUME NEW g \in Goroutines, ResetBatch(g)
      PROVE  AckedIsStored'
  <2>1. ASSUME NEW p \in Points, fate'[p] = "acked"
        PROVE  p \in stored
    BY <1>9, <2>1 DEF ResetBatch, SentInv
  <2> QED
    BY <1>9, <2>1 DEF ResetBatch
<1>10. ASSUME CrashAndRestart
       PROVE  AckedIsStored'
  BY <1>1, <1>10 DEF CrashAndRestart
<1>11. ASSUME UNCHANGED vars
       PROVE  AckedIsStored'
  BY <1>1, <1>11 DEF vars, histVars
<1> QED
  BY <1>2, <1>3, <1>4, <1>5, <1>6, <1>7, <1>8, <1>9, <1>10, <1>11
     DEF Next, Write, WriteDirect, Advance

-----------------------------------------------------------------------------
(* The theorems *)

\* A fresh process satisfies the invariant.
LEMMA InitInv == Init => IndInv
<1> SUFFICES ASSUME Init PROVE IndInv
  OBVIOUS
<1>1. TypeOK /\ LocalsInv
  BY InitTypes
<1>2. MutexInv /\ KeysInv /\ HandedInv /\ SentInv
  BY GoroutinesAssumption DEF Init, MutexInv, Critical, KeysInv, HandedInv, SentInv
<1>3. DueInv
  <2> SUFFICES ASSUME NEW b \in Buckets
               PROVE  Len(batchPoints[b]) <= BatchMaxSize - 1 + Cardinality(Due(b))
    BY DEF DueInv
  <2>1. Len(batchPoints[b]) = 0
    BY DEF Init
  <2>2. Due(b) \in SUBSET Writers
    BY DEF Due
  <2>3. Cardinality(Due(b)) \in Nat
    BY <2>2, DueCardinality
  <2> QED
    BY <2>1, <2>3, LimitsAssumption
<1>4. \A b \in Buckets : batchPoints[b] = <<>> /\ Range(batchPoints[b]) = {}
  BY RangeEmpty DEF Init
<1>5. PendingInOneBatch /\ TriesInv
  BY <1>4 DEF Init, PendingInOneBatch, TriesInv
<1>6. RetriesBounded /\ AckedIsStored
  BY LimitsAssumption DEF Init, RetriesBounded, AckedIsStored
<1> QED
  BY <1>1, <1>2, <1>3, <1>5, <1>6 DEF IndInv

\* Every step preserves the invariant.
LEMMA NextInv == IndInv /\ [Next]_vars => IndInv'
<1> SUFFICES ASSUME IndInv, [Next]_vars PROVE IndInv'
  OBVIOUS
<1> USE DEF IndInv
<1>1. TypeOK' /\ LocalsInv'
  BY TypesStep
<1>2. MutexInv' /\ KeysInv'
  BY MutexStep
<1>3. DueInv'
  BY DueStep
<1>4. PendingInOneBatch' /\ HandedInv' /\ SentInv'
  BY PlacesStep DEF Places
<1>5. TriesInv' /\ RetriesBounded'
  BY TriesStep DEF Places
<1>6. StorageType = "influxdb" => AckedIsStored'
  BY AckedStep
<1> QED
  BY <1>1, <1>2, <1>3, <1>4, <1>5, <1>6

\* The inductive invariant holds in every reachable state.
THEOREM Invariance == Spec => []IndInv
BY InitInv, NextInv, PTL DEF Spec

\* Every variable of the process and of its goroutines keeps its type.
THEOREM TypeCorrect == Spec => []TypeOK
<1>1. IndInv => TypeOK
  BY DEF IndInv
<1> QED
  BY <1>1, Invariance, PTL

\* However the appends of Write and WriteDirect interleave with each other and
\* with flushes, a batch never holds more than BatchMaxSize - 1 points and one
\* more per writing goroutine.
THEOREM BatchesAreBounded == Spec => []BatchBounded
<1>1. IndInv => BatchBounded
  <2> SUFFICES ASSUME IndInv, NEW b \in Buckets
               PROVE  Len(batchPoints[b]) <= BatchMaxSize - 1 + Cardinality(Writers)
    BY DEF BatchBounded
  <2>1. Due(b) \in SUBSET Writers
    BY DEF Due
  <2>2. /\ Cardinality(Due(b)) \in Nat /\ Cardinality(Writers) \in Nat
        /\ Cardinality(Due(b)) <= Cardinality(Writers)
    BY <2>1, DueCardinality
  <2>3. Len(batchPoints[b]) <= BatchMaxSize - 1 + Cardinality(Due(b))
    BY DEF IndInv, DueInv
  <2>4. Len(batchPoints[b]) \in Nat
    BY DEF IndInv, TypeOK
  <2> QED
    BY <2>2, <2>3, <2>4, LimitsAssumption
<1> QED
  BY <1>1, Invariance, PTL

\* Every accepted and unsettled point is in exactly one place of one batch.
THEOREM PointsHaveOnePlace == Spec => []PendingInOneBatch
<1>1. IndInv => PendingInOneBatch
  BY DEF IndInv
<1> QED
  BY <1>1, Invariance, PTL

\* No point is offered to the storage more than MaxAttempts times.
THEOREM RetriesAreBounded == Spec => []RetriesBounded
<1>1. IndInv => RetriesBounded
  BY DEF IndInv
<1> QED
  BY <1>1, Invariance, PTL

\* With the InfluxDB 1 driver, a batch reported as written is in the database.
THEOREM AcknowledgedIsStored ==
    ASSUME StorageType = "influxdb"
    PROVE  Spec => []AckedIsStored
<1>1. IndInv => AckedIsStored
  BY DEF IndInv
<1> QED
  BY <1>1, Invariance, PTL

\* A point is dropped only after the storage refused its batch or left
\* MaxAttempts requests with it unanswered.
THEOREM DropsAreJustified == Spec => DropIsJustified
<1>1. ASSUME IndInv, [Next]_vars, NEW p \in Points,
             fate[p] # "dropped", fate'[p] = "dropped"
      PROVE  \/ tries[p] = MaxAttempts
             \/ \E g \in Goroutines : p \in sent[g] /\ answer[g] = "rejected"
  <2> USE DEF IndInv
  <2>1. PICK g \in Goroutines : ResetBatch(g)
    BY <1>1 DEF Next, Write, WriteDirect, Call, Tick, Lock, LockForAppend, LockForFlush,
                Advance, AppendPoint, CheckSize, NextBucket, Attempt, EndFlush,
                CrashAndRestart, vars, histVars, TypeOK
  <2>2. /\ pc[g] = "reset" /\ p \in sent[g] /\ answer[g] # "ok" /\ bucket[g] \in Buckets
    BY <1>1, <2>1 DEF ResetBatch, LocalsInv
  <2>3. CASE answer[g] = "rejected"
    BY <2>2, <2>3
  <2>4. CASE answer[g] = "unreachable"
    <3>1. attempt[g] = MaxAttempts /\ p \in Range(batchPoints[bucket[g]])
      BY <1>1, <2>2, <2>4 DEF SentInv
    <3>2. \A h \in Goroutines : pc[h] \in {"write", "reset"} => h = g
      BY <1>1, <2>2, OneInside DEF Critical
    <3>3. tries[p] = attempt[g]
      BY <1>1, <2>2, <3>1, <3>2 DEF TriesInv
    <3> QED
      BY <3>1, <3>3
  <2> QED
    BY <1>1, <2>2, <2>3, <2>4 DEF TypeOK, Answers
<1>2. IndInv /\ [Next]_vars =>
         \A p \in Points :
            fate[p] # "dropped" /\ fate'[p] = "dropped" =>
               \/ tries[p] = MaxAttempts
               \/ \E g \in Goroutines : p \in sent[g] /\ answer[g] = "rejected"
  BY <1>1
<1> QED
  BY <1>2, Invariance, PTL DEF Spec, DropIsJustified

-----------------------------------------------------------------------------
(* The reported state *)

\* A flush is always of a batch with points: writeIntoDb skips an empty batch,
\* and nothing empties a batch that another goroutine has taken up.
FlushesPoints ==
    \A g \in Goroutines : pc[g] \in {"write", "reset"} => batchPoints[bucket[g]] # <<>>

\* Every step keeps the batches that are being flushed as they are.
LEMMA FlushesPointsStep ==
    ASSUME IndInv, FlushesPoints, [Next]_vars
    PROVE  FlushesPoints'
<1> USE DEF IndInv, TypeOK, FlushesPoints
<1>1. ASSUME NEW w \in Writers, NEW p \in Points, NEW b \in Buckets, Call(w, p, b)
      PROVE  FlushesPoints'
  BY <1>1 DEF Call, Goto, procVars, Goroutines
<1>2. ASSUME NEW t \in Tickers, Tick(t)
      PROVE  FlushesPoints'
  BY <1>2 DEF Tick, Goto, procVars, localVars, Goroutines
<1>3. ASSUME NEW g \in Goroutines, LockForAppend(g)
      PROVE  FlushesPoints'
  BY <1>3 DEF LockForAppend, Goto, localVars
<1>4. ASSUME NEW g \in Goroutines, LockForFlush(g)
      PROVE  FlushesPoints'
  BY <1>4 DEF LockForFlush, Goto
<1>5. ASSUME NEW g \in Goroutines, AppendPoint(g)
      PROVE  FlushesPoints'
  BY <1>5, OneInside DEF AppendPoint, Goto, Critical
<1>6. ASSUME NEW g \in Goroutines, CheckSize(g)
      PROVE  FlushesPoints'
  BY <1>6 DEF CheckSize, Goto, procVars
<1>7. ASSUME NEW g \in Goroutines, NEW b \in Buckets, NextBucket(g, b)
      PROVE  FlushesPoints'
  BY <1>7 DEF NextBucket, Goto, procVars
<1>8. ASSUME NEW g \in Goroutines, NEW ans \in Answers, NEW written \in SUBSET Points,
             Attempt(g, ans, written)
      PROVE  FlushesPoints'
  BY <1>8 DEF Attempt, Goto, procVars
<1>9. ASSUME NEW g \in Goroutines, ResetBatch(g)
      PROVE  FlushesPoints'
  BY <1>9, OneInside DEF ResetBatch, Goto, Critical
<1>10. ASSUME NEW g \in Goroutines, EndFlush(g)
       PROVE  FlushesPoints'
  BY <1>10 DEF EndFlush, Goto, localVars
<1>11. ASSUME CrashAndRestart
       PROVE  FlushesPoints'
  BY <1>11 DEF CrashAndRestart
<1>12. ASSUME UNCHANGED vars
       PROVE  FlushesPoints'
  BY <1>12 DEF vars, procVars, localVars
<1> QED
  BY <1>1, <1>2, <1>3, <1>4, <1>5, <1>6, <1>7, <1>8, <1>9, <1>10, <1>11, <1>12
     DEF Next, Write, WriteDirect, Lock, Advance

\* A reset settles a pending point, whichever way.
LEMMA ResetSettles ==
    ASSUME IndInv, FlushesPoints, NEW g \in Goroutines, ResetBatch(g)
    PROVE  \E p \in Points :
              /\ fate[p] = "pending"
              /\ fate'[p] = IF answer[g] = "ok" THEN "acked" ELSE "dropped"
<1> DEFINE batch == batchPoints[bucket[g]]
<1>1. pc[g] = "reset" /\ bucket[g] \in Buckets
  BY DEF ResetBatch, IndInv, LocalsInv
<1>2. batch \in Seq(Points) /\ batch # <<>> /\ sent[g] = Range(batch)
  BY <1>1 DEF IndInv, TypeOK, SentInv, FlushesPoints
<1>3. 1 \in DOMAIN batch /\ batch[1] \in Points /\ batch[1] \in Range(batch)
  BY <1>2 DEF Range
<1>4. fate[batch[1]] = "pending"
  BY <1>1, <1>3 DEF IndInv, PendingInOneBatch
<1>5. fate'[batch[1]] = IF answer[g] = "ok" THEN "acked" ELSE "dropped"
  BY <1>2, <1>3 DEF ResetBatch
<1> QED
  BY <1>3, <1>4, <1>5

\* The state a process reports follows what became of points: it leaves
\* LOST_CONNECTION only with a batch that was acknowledged or a restart, and
\* enters it only with a batch that was dropped.
THEOREM ReportedStateFollows == Spec => StateFollowsStorage
<1>1. Init => FlushesPoints
  BY DEF Init, FlushesPoints
<1>2. Spec => [](IndInv /\ FlushesPoints)
  BY <1>1, InitInv, NextInv, FlushesPointsStep, PTL DEF Spec
<1>3. ASSUME IndInv, FlushesPoints, [Next]_vars, state' # state
      PROVE  /\ state = "LOST_CONNECTION" =>
                  \/ \E p \in Points : fate[p] = "pending" /\ fate'[p] = "acked"
                  \/ \A g \in Goroutines : pc'[g] = "idle"
             /\ state' = "LOST_CONNECTION" =>
                  \E p \in Points : fate[p] = "pending" /\ fate'[p] = "dropped"
  <2>1. (\E g \in Goroutines : ResetBatch(g)) \/ CrashAndRestart
    BY <1>3 DEF Next, Write, WriteDirect, Call, Tick, Lock, LockForAppend, LockForFlush,
                Advance, AppendPoint, CheckSize, NextBucket, Attempt, EndFlush,
                vars, procVars
  <2>2. ASSUME NEW g \in Goroutines, ResetBatch(g)
        PROVE  /\ state = "LOST_CONNECTION" =>
                    \E p \in Points : fate[p] = "pending" /\ fate'[p] = "acked"
               /\ state' = "LOST_CONNECTION" =>
                    \E p \in Points : fate[p] = "pending" /\ fate'[p] = "dropped"
    <3>1. state' = StateAfter(answer[g])
      BY <2>2 DEF ResetBatch
    <3>2. /\ state = "LOST_CONNECTION" => answer[g] = "ok"
          /\ state' = "LOST_CONNECTION" => answer[g] # "ok"
      BY <1>3, <3>1 DEF StateAfter
    <3> QED
      BY <1>3, <2>2, <3>2, ResetSettles
  <2>3. CASE CrashAndRestart
    BY <2>3 DEF CrashAndRestart
  <2> QED
    BY <2>1, <2>2, <2>3
<1>4. IndInv /\ FlushesPoints /\ [Next]_vars =>
         /\ state = "LOST_CONNECTION" /\ state' # state =>
              \/ \E p \in Points : fate[p] = "pending" /\ fate'[p] = "acked"
              \/ \A g \in Goroutines : pc'[g] = "idle"
         /\ state' = "LOST_CONNECTION" /\ state' # state =>
              \E p \in Points : fate[p] = "pending" /\ fate'[p] = "dropped"
  BY <1>3
<1> QED
  BY <1>2, <1>4, PTL DEF Spec, StateFollowsStorage

-----------------------------------------------------------------------------
(* The refinement: BatchWriter with the InfluxDB 1 driver implements the safety part of
   PointDelivery.  The initial states map to initial states, and every step maps to a step
   or a stutter. *)

\* The initial states agree.
LEMMA InitRefines == Init => Delivery!Init
<1> SUFFICES ASSUME Init PROVE Delivery!Init
  OBVIOUS
<1>1. Status = [p \in Points |-> "outside"]
  BY DEF Init, Status, Inside
<1> QED
  BY <1>1 DEF Init, Delivery!Init

\* A step that only moves points within the process is a stutter.
LEMMA MovesStutter ==
    ASSUME TypeOK, UNCHANGED stored,
           \A p \in Points : \/ fate'[p] = fate[p]
                             \/ fate[p] \in Inside /\ fate'[p] \in Inside
    PROVE  UNCHANGED Delivery!vars
<1>1. Status' = Status
  BY DEF Status, Inside, TypeOK
<1> QED
  BY <1>1 DEF Delivery!vars

\* Only pending and handed points are inside.
LEMMA InsideIsInside ==
    ASSUME TypeOK
    PROVE  Delivery!InsidePoints = {p \in Points : fate[p] \in Inside}
BY DEF Delivery!InsidePoints, Status, Inside, Fates, TypeOK

\* A call is Submit, an attempt is Save, a reset is Acknowledge or Drop, the
\* crash is Lose, and everything else stutters.
LEMMA NextRefines ==
    ASSUME StorageType = "influxdb", IndInv, IndInv', [Next]_vars
    PROVE  [Delivery!Next]_(Delivery!vars)
<1> DEFINE Step == [Delivery!Next]_(Delivery!vars)
<1> USE DEF IndInv
<1>1. ASSUME NEW w \in Writers, NEW p \in Points, NEW b \in Buckets, Call(w, p, b)
      PROVE  Step
  <2>1. fate[p] = "new" /\ fate' = [fate EXCEPT ![p] = "handed"] /\ UNCHANGED stored
    BY <1>1 DEF Call
  <2>2. Status[p] = "outside"
    BY <2>1 DEF Status, Inside
  <2>3. Status' = [q \in Points |-> IF q \in {p} THEN "inside" ELSE Status[q]]
    BY <2>1 DEF Status, Inside, Fates, TypeOK
  <2>4. Delivery!Submit(p)
    BY <2>1, <2>2, <2>3 DEF Delivery!Submit, Delivery!Mark
  <2> QED
    BY <2>4 DEF Delivery!Next
<1>2. ASSUME NEW t \in Tickers, Tick(t)
      PROVE  Step
  BY <1>2, MovesStutter DEF Tick, histVars
<1>3. ASSUME NEW g \in Goroutines, Lock(g)
      PROVE  Step
  BY <1>3, MovesStutter DEF Lock, LockForAppend, LockForFlush, histVars
<1>4. ASSUME NEW g \in Goroutines, AppendPoint(g)
      PROVE  Step
  <2>1. fate[point[g]] = "handed" /\ point[g] \in Points
    BY <1>4 DEF AppendPoint, HandedInv, LocalsInv
  <2> QED
    BY <1>4, <2>1, MovesStutter DEF AppendPoint, Inside, TypeOK
<1>5. ASSUME NEW g \in Goroutines, CheckSize(g) \/ EndFlush(g)
      PROVE  Step
  BY <1>5, MovesStutter DEF CheckSize, EndFlush, histVars
<1>6. ASSUME NEW g \in Goroutines, NEW b \in Buckets, NextBucket(g, b)
      PROVE  Step
  BY <1>6, MovesStutter DEF NextBucket, histVars
<1>7. ASSUME NEW g \in Goroutines, NEW ans \in Answers, NEW written \in SUBSET Points,
             Attempt(g, ans, written)
      PROVE  Step
  <2>1. written \subseteq Range(batchPoints[bucket[g]]) /\ bucket[g] \in Buckets
    BY <1>7 DEF Attempt, WriteDataPoints, Offered, LocalsInv
  <2>2. written \subseteq {p \in Points : fate[p] \in Inside}
    BY <2>1 DEF PendingInOneBatch, Inside
  <2>3. Status' = Status /\ stored' = stored \cup written
    BY <1>7 DEF Attempt, Status
  <2>4. Delivery!Save(written)
    BY <2>2, <2>3, InsideIsInside DEF Delivery!Save
  <2> QED
    BY <2>4 DEF Delivery!Next
<1>8. ASSUME NEW g \in Goroutines, ResetBatch(g)
      PROVE  Step
  <2> DEFINE S == sent[g]
             verdict == IF answer[g] = "ok" THEN "acked" ELSE "dropped"
  <2>1. /\ S \in SUBSET Points
        /\ S = Range(batchPoints[bucket[g]]) /\ bucket[g] \in Buckets
    BY <1>8 DEF ResetBatch, SentInv, LocalsInv, TypeOK
  <2>2. S \subseteq Delivery!InsidePoints
    <3>1. \A p \in S : fate[p] = "pending"
      BY <2>1 DEF PendingInOneBatch
    <3> QED
      BY <2>1, <3>1, InsideIsInside DEF Inside
  <2>3. fate' = [p \in Points |-> IF p \in S THEN verdict ELSE fate[p]] /\ UNCHANGED stored
    BY <1>8 DEF ResetBatch
  <2>4. Status' = [p \in Points |-> IF p \in S THEN verdict ELSE Status[p]]
    BY <2>3 DEF Status, Inside, Fates, TypeOK
  <2>5. CASE answer[g] = "ok"
    <3>1. S \subseteq stored
      BY <1>8, <2>5 DEF ResetBatch, SentInv
    <3>2. Delivery!Acknowledge(S)
      BY <2>2, <2>3, <2>4, <2>5, <3>1 DEF Delivery!Acknowledge, Delivery!Mark
    <3> QED
      BY <2>1, <3>2 DEF Delivery!Next
  <2>6. CASE answer[g] # "ok"
    <3>1. Delivery!Drop(S)
      BY <2>2, <2>3, <2>4, <2>6 DEF Delivery!Drop, Delivery!Mark
    <3> QED
      BY <2>1, <3>1 DEF Delivery!Next
  <2> QED
    BY <2>5, <2>6
<1>9. ASSUME CrashAndRestart
      PROVE  Step
  <2>1. /\ fate' = [p \in Points |-> IF fate[p] \in Inside THEN "lost" ELSE fate[p]]
        /\ UNCHANGED stored
    BY <1>9 DEF CrashAndRestart
  <2>2. Status' = [p \in Points |->
                      IF p \in Delivery!InsidePoints THEN "lost" ELSE Status[p]]
    BY <2>1, InsideIsInside DEF Status, Inside, Fates, TypeOK
  <2>3. Delivery!Lose
    BY <2>1, <2>2 DEF Delivery!Lose, Delivery!Mark
  <2> QED
    BY <2>3 DEF Delivery!Next
<1>10. ASSUME UNCHANGED vars
       PROVE  Step
  BY <1>10, MovesStutter DEF vars, histVars
<1> QED
  BY <1>1, <1>2, <1>3, <1>4, <1>5, <1>6, <1>7, <1>8, <1>9, <1>10
     DEF Next, Write, WriteDirect, Advance

\* The process keeps the safety part of its promise about points: they are
\* settled once and as whole batches, and only saved ones are acknowledged
\* (Write, WriteDirect and writeIntoDb; liveness is left to the model checker).
THEOREM DeliveryIsImplemented ==
    ASSUME StorageType = "influxdb"
    PROVE  Spec => Delivery!Spec
<1>1. Init => Delivery!Init
  BY InitRefines
<1>2. IndInv /\ IndInv' /\ [Next]_vars => [Delivery!Next]_(Delivery!vars)
  BY NextRefines
<1> QED
  BY <1>1, <1>2, Invariance, PTL DEF Spec, Delivery!Spec
=============================================================================
