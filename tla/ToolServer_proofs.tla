-------------------------- MODULE ToolServer_proofs --------------------------
(***************************************************************************)
(* What is proved of the rate limiter, and of the file and git tools that  *)
(* run behind it, for every limit, window and set of callers and files.    *)
(*                                                                         *)
(* The argument for the window: the history is what is left of the         *)
(* admitted requests, and whatever was pruned is older than the window.    *)
(* The argument for the repository stands before its theorems.             *)
(***************************************************************************)
EXTENDS ToolServer, FiniteSetTheorems, TLAPS

\* The request times are in the order of the requests and none lies ahead.
Ordered ==
    /\ \A i \in 1..Len(admitted) : admitted[i] <= now
    /\ \A i, j \in 1..Len(admitted) : i <= j => admitted[i] <= admitted[j]

\* The number of admitted requests that were pruned.
Dropped == Len(admitted) - Len(history)

\* The history is the end of the admitted requests.
HistoryIsSuffix ==
    /\ Len(history) <= Len(admitted)
    /\ \A i \in 1..Len(history) : history[i] = admitted[Dropped + i]

\* What was pruned is older than the window.
DroppedAreStale == \A i \in 1..Dropped : now - admitted[i] > TimeWindow

\* The executions are finitely many, each in its slot.
Slots ==
    /\ IsFiniteSet(executing)
    /\ CountIsTrue
    /\ ConcurrencyBound

IInv == TypeOK /\ Ordered /\ HistoryIsSuffix /\ DroppedAreStale /\ WindowBound /\ Slots

\* The allowance of a window is a positive number.
LEMMA AllowedIsPositive == MaxAllowed \in Nat \ {0}
  BY LimitsAssumption DEF MaxAllowed

\* The elements of a sequence.
LEMMA ElementFacts ==
  ASSUME NEW S, NEW s \in Seq(S)
  PROVE  Len(s) \in Nat /\ \A i \in 1..Len(s) : s[i] \in S
  OBVIOUS

\* What the pruned history holds.
LEMMA PrunedFacts ==
  ASSUME NEW S, NEW s \in Seq(S), NEW n \in 0..Len(s)
  PROVE  /\ SubSeq(s, n + 1, Len(s)) \in Seq(S)
         /\ Len(SubSeq(s, n + 1, Len(s))) = Len(s) - n
         /\ \A i \in 1..(Len(s) - n) : SubSeq(s, n + 1, Len(s))[i] = s[n + i]
  OBVIOUS

\* What a sequence with one more element holds.
LEMMA AppendFacts ==
  ASSUME NEW S, NEW s \in Seq(S), NEW x \in S
  PROVE  /\ Append(s, x) \in Seq(S)
         /\ Len(Append(s, x)) = Len(s) + 1
         /\ \A i \in 1..Len(s) : Append(s, x)[i] = s[i]
         /\ Append(s, x)[Len(s) + 1] = x
  OBVIOUS

\* The invariant holds at the start.
LEMMA InitIInv == Init => IInv
  <1> SUFFICES ASSUME Init PROVE IInv
    OBVIOUS
  <1>1. TypeOK
    BY LimitsAssumption, AllowedIsPositive DEF Init, TypeOK, Answers
  <1>2. Ordered /\ HistoryIsSuffix /\ DroppedAreStale
    BY DEF Init, Ordered, HistoryIsSuffix, DroppedAreStale, Dropped
  <1>3. WindowBound
    BY AllowedIsPositive DEF Init, WindowBound
  <1>4. Slots
    BY FS_EmptySet, LimitsAssumption DEF Init, Slots, CountIsTrue, ConcurrencyBound
  <1> QED
    BY <1>1, <1>2, <1>3, <1>4 DEF IInv

\* Pruning takes away stale requests only, and the rest is a suffix as before.
LEMMA PruningKeeps ==
  ASSUME IInv, NEW n \in 0..Len(history), Prunes(n)
  PROVE  /\ Pruned(n) \in Seq(1..MaxTime + 1)
         /\ Len(Pruned(n)) = Len(history) - n
         /\ Len(Pruned(n)) <= Len(admitted)
         /\ \A i \in 1..Len(Pruned(n)) :
               Pruned(n)[i] = admitted[(Len(admitted) - Len(Pruned(n))) + i]
         /\ \A i \in 1..(Len(admitted) - Len(Pruned(n))) : now - admitted[i] > TimeWindow
  <1> USE DEF IInv
  <1> DEFINE h == Pruned(n)
             d == Len(admitted) - Len(history)
  <1>1. /\ Len(history) \in Nat /\ Len(admitted) \in Nat /\ n \in Nat /\ n <= Len(history)
        /\ d \in Nat
    BY DEF TypeOK, HistoryIsSuffix
  <1>2. /\ h \in Seq(1..MaxTime + 1)
        /\ Len(h) = Len(history) - n
        /\ \A i \in 1..(Len(history) - n) : h[i] = history[n + i]
    BY PrunedFacts DEF TypeOK, Pruned
  <1>3. \A i \in 1..Len(history) : history[i] = admitted[d + i]
    BY DEF HistoryIsSuffix, Dropped
  <1>4. ASSUME NEW i \in 1..Len(h) PROVE h[i] = admitted[(Len(admitted) - Len(h)) + i]
    <2>1. n + i \in 1..Len(history) /\ h[i] = history[n + i]
      BY <1>1, <1>2
    <2>2. d + (n + i) = (Len(admitted) - Len(h)) + i
      BY <1>1, <1>2
    <2> QED
      BY <2>1, <2>2, <1>3
  <1>5. ASSUME NEW i \in 1..(Len(admitted) - Len(h)) PROVE now - admitted[i] > TimeWindow
    <2>1. CASE i <= d
      BY <2>1, <1>1 DEF DroppedAreStale, Dropped
    <2>2. CASE i > d
      <3>1. i - d \in 1..n /\ i - d \in 1..Len(history)
        BY <2>2, <1>1, <1>2
      <3>2. now - history[i - d] > TimeWindow
        BY <3>1 DEF Prunes, Stale
      <3>3. history[i - d] = admitted[i]
        <4>1. d + (i - d) = i
          BY <1>1
        <4> QED
          BY <4>1, <3>1, <1>3
      <3> QED
        BY <3>2, <3>3
    <2> QED
      BY <2>1, <2>2, <1>1, <1>2
  <1> QED
    BY <1>1, <1>2, <1>4, <1>5

\* Recording an admitted request keeps the order, the suffix and the window.
LEMMA RecordingKeeps ==
  ASSUME IInv, NEW n \in 0..Len(history), Prunes(n), Len(Pruned(n)) < MaxAllowed,
         now' = now, history' = Append(Pruned(n), now), admitted' = Append(admitted, now)
  PROVE  /\ history' \in Seq(1..MaxTime + 1)
         /\ Len(history') <= MaxAllowed
         /\ admitted' \in Seq(1..MaxTime + 1)
         /\ Ordered' /\ HistoryIsSuffix' /\ DroppedAreStale' /\ WindowBound'
  <1> USE DEF IInv
  <1> DEFINE h == Pruned(n)
             l == Len(admitted)
             w == 1..MaxTime + 1
  <1>1. /\ h \in Seq(w)
        /\ Len(h) <= l
        /\ \A i \in 1..Len(h) : h[i] = admitted[(l - Len(h)) + i]
        /\ \A i \in 1..(l - Len(h)) : now - admitted[i] > TimeWindow
    BY PruningKeeps
  <1>2. now \in w /\ w \subseteq Nat /\ admitted \in Seq(w)
    BY LimitsAssumption DEF TypeOK
  <1>3. /\ history' \in Seq(w)
        /\ Len(history') = Len(h) + 1
        /\ \A i \in 1..Len(h) : history'[i] = h[i]
        /\ history'[Len(h) + 1] = now
    BY <1>1, <1>2, AppendFacts
  <1>4. /\ admitted' \in Seq(w)
        /\ Len(admitted') = l + 1
        /\ \A i \in 1..l : admitted'[i] = admitted[i]
        /\ admitted'[l + 1] = now
    BY <1>2, AppendFacts
  <1>5. l \in Nat /\ Len(h) \in Nat /\ \A i \in 1..l : admitted[i] \in w
    <2>1. l \in Nat /\ Len(h) \in Nat
      BY <1>1, <1>2
    <2>2. \A i \in 1..l : admitted[i] \in w
      BY <1>2, ElementFacts DEF l
    <2> QED
      BY <2>1, <2>2
  <1> HIDE DEF h, l, w
  <1>6. Len(history') <= MaxAllowed
    BY <1>3, <1>5, AllowedIsPositive DEF h
  <1>7. Ordered'
    <2>1. \A i \in 1..l : admitted[i] <= now
      BY DEF Ordered, l
    <2>2. \A i, j \in 1..l : i <= j => admitted[i] <= admitted[j]
      BY DEF Ordered, l
    <2>3. ASSUME NEW i \in 1..(l + 1) PROVE admitted'[i] <= now
      BY <2>1, <1>2, <1>4, <1>5
    <2>4. ASSUME NEW i \in 1..(l + 1), NEW j \in 1..(l + 1), i <= j
          PROVE  admitted'[i] <= admitted'[j]
      <3>1. CASE j = l + 1
        BY <3>1, <2>3, <1>4
      <3>2. CASE j # l + 1
        <4>1. i \in 1..l /\ j \in 1..l
          BY <3>2, <2>4, <1>5
        <4> QED
          BY <4>1, <2>2, <2>4, <1>4
      <3> QED
        BY <3>1, <3>2
    <2> QED
      BY <2>3, <2>4, <1>4 DEF Ordered
  <1>8. HistoryIsSuffix'
    <2>1. ASSUME NEW i \in 1..Len(history')
          PROVE  history'[i] = admitted'[(Len(admitted') - Len(history')) + i]
      <3>1. CASE i = Len(h) + 1
        <4>1. (Len(admitted') - Len(history')) + i = l + 1
          BY <3>1, <1>3, <1>4, <1>5
        <4> QED
          BY <4>1, <3>1, <1>3, <1>4
      <3>2. CASE i # Len(h) + 1
        <4>0. i \in 1..Len(h)
          BY <3>2, <1>3, <1>5
        <4>1. (l - Len(h)) + i \in 1..l
          BY <4>0, <1>1, <1>5
        <4>2. Len(admitted') - Len(history') = l - Len(h)
          BY <1>3, <1>4, <1>5
        <4>3. h[i] = admitted[(l - Len(h)) + i]
          BY <1>1, <4>0
        <4> QED
          BY <4>0, <4>1, <4>2, <4>3, <1>3, <1>4
      <3> QED
        BY <3>1, <3>2
    <2>2. Len(history') <= Len(admitted')
      BY <1>1, <1>3, <1>4, <1>5
    <2> QED
      BY <2>1, <2>2 DEF HistoryIsSuffix, Dropped
  <1>9. DroppedAreStale'
    <2>1. ASSUME NEW i \in 1..(Len(admitted') - Len(history'))
          PROVE  now - admitted'[i] > TimeWindow
      <3>1. i \in 1..(l - Len(h)) /\ i \in 1..l
        BY <1>1, <1>3, <1>4, <1>5
      <3> QED
        BY <3>1, <1>1, <1>4
    <2> QED
      BY <2>1 DEF DroppedAreStale, Dropped
  <1>10. WindowBound'
    <2>1. ASSUME NEW i \in 1..Len(admitted'), i + MaxAllowed <= Len(admitted')
          PROVE  admitted'[i + MaxAllowed] - admitted'[i] > TimeWindow
      <3>1. CASE i + MaxAllowed = l + 1
        <4>1. i \in 1..(l - Len(h)) /\ i \in 1..l
          BY <3>1, <1>1, <1>4, <1>5, AllowedIsPositive DEF h
        <4> QED
          BY <4>1, <3>1, <1>1, <1>4
      <3>2. CASE i + MaxAllowed # l + 1
        <4>1. i \in 1..l /\ i + MaxAllowed \in 1..l
          BY <3>2, <1>4, <1>5, <2>1, AllowedIsPositive
        <4>2. admitted[i + MaxAllowed] - admitted[i] > TimeWindow
          BY <4>1, <1>5, AllowedIsPositive DEF WindowBound, l
        <4> QED
          BY <4>1, <4>2, <1>4
      <3> QED
        BY <3>1, <3>2
    <2>2. MaxAllowed' = MaxAllowed
      BY DEF MaxAllowed
    <2> QED
      BY <2>1, <2>2 DEF WindowBound
  <1> QED
    BY <1>3, <1>4, <1>6, <1>7, <1>8, <1>9, <1>10 DEF w

\* A call that passes the rate check and may run takes a slot.
LEMMA TakingASlotKeeps ==
  ASSUME IInv, NEW c \in Callers, c \notin executing, ~Full,
         concurrent' = concurrent + 1, executing' = executing \cup {c}
  PROVE  concurrent' \in Nat /\ executing' \subseteq Callers /\ Slots'
  <1> USE DEF IInv
  <1>1. /\ IsFiniteSet(executing')
        /\ Cardinality(executing') = Cardinality(executing) + 1
    BY FS_AddElement DEF Slots
  <1>2. concurrent \in Nat /\ concurrent = Cardinality(executing)
    BY DEF Slots, CountIsTrue, TypeOK
  <1>3. concurrent < MaxConcurrent
    BY <1>2, LimitsAssumption DEF Full
  <1>4. Cardinality(executing') <= MaxConcurrent
    BY <1>1, <1>2, <1>3, LimitsAssumption
  <1> QED
    BY <1>1, <1>2, <1>4 DEF Slots, CountIsTrue, ConcurrencyBound, TypeOK

\* A call that returns gives its slot back.
LEMMA GivingBackKeeps ==
  ASSUME IInv, NEW c \in executing,
         concurrent' = IF concurrent > 0 THEN concurrent - 1 ELSE concurrent,
         executing' = executing \ {c}
  PROVE  concurrent' \in Nat /\ executing' \subseteq Callers /\ Slots'
  <1> USE DEF IInv
  <1>1. /\ IsFiniteSet(executing')
        /\ Cardinality(executing') = Cardinality(executing) - 1
    BY FS_RemoveElement DEF Slots
  <1>2. concurrent \in Nat /\ concurrent = Cardinality(executing)
    BY DEF Slots, CountIsTrue, TypeOK
  <1>3. Cardinality(executing') \in Nat
    BY <1>1, FS_CardinalityType
  <1>4. concurrent' = Cardinality(executing')
    BY <1>1, <1>2, <1>3
  <1>5. Cardinality(executing') <= MaxConcurrent
    BY <1>1, <1>2, LimitsAssumption DEF Slots, ConcurrencyBound
  <1> QED
    BY <1>1, <1>3, <1>4, <1>5 DEF Slots, CountIsTrue, ConcurrencyBound, TypeOK

\* No step disturbs the invariant.
LEMMA NextIInv == IInv /\ [Next]_vars => IInv'
  <1> SUFFICES ASSUME IInv, [Next]_vars PROVE IInv'
    OBVIOUS
  <1> USE DEF IInv
  <1>1. CASE Tick
    <2>1. TypeOK'
      BY <1>1, LimitsAssumption DEF Tick, TypeOK, MaxAllowed
    <2>2. UNCHANGED <<history, admitted, concurrent, executing>> /\ now' = now + 1
      BY <1>1 DEF Tick
    <2>3. \A i \in 1..Len(admitted) : admitted[i] \in Nat
      <3>1. \A i \in 1..Len(admitted) : admitted[i] \in 1..MaxTime + 1
        BY ElementFacts DEF TypeOK
      <3> QED
        BY <3>1, LimitsAssumption
    <2>4. now \in Nat
      BY LimitsAssumption DEF TypeOK
    <2>5. Ordered'
      BY <2>2, <2>3, <2>4 DEF Ordered
    <2>6. HistoryIsSuffix'
      BY <2>2 DEF HistoryIsSuffix, Dropped
    <2>7. DroppedAreStale'
      <3>1. ASSUME NEW i \in 1..Dropped PROVE now' - admitted[i] > TimeWindow
        <4>1. i \in 1..Len(admitted)
          BY DEF Dropped, TypeOK
        <4>2. now - admitted[i] > TimeWindow
          BY DEF DroppedAreStale
        <4> QED
          BY <4>1, <4>2, <2>2, <2>3, <2>4, LimitsAssumption
      <3> QED
        BY <3>1, <2>2 DEF DroppedAreStale, Dropped
    <2>8. WindowBound' /\ Slots'
      BY <2>2 DEF WindowBound, MaxAllowed, Slots, CountIsTrue, ConcurrencyBound
    <2> QED
      BY <2>1, <2>5, <2>6, <2>7, <2>8
  <1>2. ASSUME NEW c \in Callers, CallTool(c) PROVE IInv'
    <2>1. PICK n \in 0..Len(history) :
             Prunes(n) /\ (Refuse(c, Pruned(n)) \/ Admit(c, Pruned(n)))
      BY <1>2 DEF CallTool
    <2>2. c \notin executing /\ UNCHANGED <<now, permitted>>
      BY <1>2 DEF CallTool
    <2>3. now \in 1..MaxTime + 1 /\ permitted \in BOOLEAN /\ answer \in [Callers -> Answers]
      BY DEF TypeOK
    <2>4. CASE Refuse(c, Pruned(n))
      <3>1. /\ history' = Pruned(n)
            /\ UNCHANGED <<admitted, concurrent, executing>>
            /\ retryAt' = now + (TimeWindow - (now - Pruned(n)[1]))
            /\ answer' = [answer EXCEPT ![c] = "rate_limit"]
            /\ Len(Pruned(n)) >= MaxAllowed
        BY <2>4 DEF Refuse
      <3>2. /\ Pruned(n) \in Seq(1..MaxTime + 1)
            /\ Len(Pruned(n)) = Len(history) - n
            /\ Len(Pruned(n)) <= Len(admitted)
            /\ \A i \in 1..Len(Pruned(n)) :
                  Pruned(n)[i] = admitted[(Len(admitted) - Len(Pruned(n))) + i]
            /\ \A i \in 1..(Len(admitted) - Len(Pruned(n))) : now - admitted[i] > TimeWindow
        BY <2>1, PruningKeeps
      <3>3. Len(history') <= MaxAllowed
        BY <3>1, <3>2, AllowedIsPositive DEF TypeOK
      <3>4. retryAt' \in Nat
        <4>1. Pruned(n)[1] \in 1..MaxTime + 1
          <5>1. 1 \in 1..Len(Pruned(n))
            BY <3>1, <3>2, AllowedIsPositive
          <5> QED
            BY <5>1, <3>2, ElementFacts
        <4>2. now + (TimeWindow - (now - Pruned(n)[1])) = TimeWindow + Pruned(n)[1]
          BY <4>1, <2>3, LimitsAssumption
        <4> QED
          BY <4>1, <4>2, <3>1, LimitsAssumption
      <3>5. answer' \in [Callers -> Answers]
        BY <3>1, <2>3 DEF Answers
      <3>6. TypeOK'
        BY <3>1, <3>2, <3>3, <3>4, <3>5, <2>2 DEF TypeOK, MaxAllowed
      <3>7. Ordered'
        BY <3>1, <2>2 DEF Ordered
      <3>8. HistoryIsSuffix' /\ DroppedAreStale'
        BY <3>1, <3>2, <2>2 DEF HistoryIsSuffix, DroppedAreStale, Dropped
      <3>9. WindowBound' /\ Slots'
        BY <3>1 DEF WindowBound, MaxAllowed, Slots, CountIsTrue, ConcurrencyBound
      <3> QED
        BY <3>6, <3>7, <3>8, <3>9
    <2>5. CASE Admit(c, Pruned(n))
      <3>1. /\ Len(Pruned(n)) < MaxAllowed
            /\ history' = Append(Pruned(n), now)
            /\ admitted' = Append(admitted, now)
            /\ retryAt' = 0
        BY <2>5 DEF Admit
      <3>2. /\ history' \in Seq(1..MaxTime + 1)
            /\ Len(history') <= MaxAllowed
            /\ admitted' \in Seq(1..MaxTime + 1)
            /\ Ordered' /\ HistoryIsSuffix' /\ DroppedAreStale' /\ WindowBound'
        BY <3>1, <2>1, <2>2, RecordingKeeps
      <3>3. answer' \in [Callers -> Answers]
        BY <2>5, <2>3 DEF Admit, Answers
      <3>4. concurrent' \in Nat /\ executing' \subseteq Callers /\ Slots'
        <4>1. CASE permitted /\ ~Full
          BY <4>1, <2>5, <2>2, TakingASlotKeeps DEF Admit
        <4>2. CASE ~(permitted /\ ~Full)
          <5>1. UNCHANGED <<concurrent, executing>>
            BY <4>2, <2>5 DEF Admit
          <5> QED
            BY <5>1 DEF Slots, CountIsTrue, ConcurrencyBound, TypeOK
        <4> QED
          BY <4>1, <4>2
      <3>5. TypeOK'
        BY <3>1, <3>2, <3>3, <3>4, <2>2 DEF TypeOK, MaxAllowed
      <3> QED
        BY <3>2, <3>4, <3>5
    <2> QED
      BY <2>1, <2>4, <2>5
  <1>3. ASSUME NEW c \in Callers, Return(c) PROVE IInv'
    <2>1. /\ c \in executing
          /\ concurrent' = IF concurrent > 0 THEN concurrent - 1 ELSE concurrent
          /\ executing' = executing \ {c}
          /\ UNCHANGED <<now, history, admitted, permitted, retryAt>>
      BY <1>3 DEF Return
    <2>2. concurrent' \in Nat /\ executing' \subseteq Callers /\ Slots'
      BY <2>1, GivingBackKeeps
    <2>3. answer' \in [Callers -> Answers]
      <3>1. PICK a \in {"success", "error"} : answer' = [answer EXCEPT ![c] = a]
        BY <1>3 DEF Return
      <3> QED
        BY <3>1 DEF TypeOK, Answers
    <2>4. TypeOK'
      BY <2>1, <2>2, <2>3 DEF TypeOK, MaxAllowed
    <2>5. Ordered' /\ HistoryIsSuffix' /\ DroppedAreStale' /\ WindowBound'
      BY <2>1 DEF Ordered, HistoryIsSuffix, DroppedAreStale, Dropped, WindowBound, MaxAllowed
    <2> QED
      BY <2>2, <2>4, <2>5
  <1>4. CASE UNCHANGED vars
    BY <1>4 DEF vars, TypeOK, Ordered, HistoryIsSuffix, DroppedAreStale, Dropped, WindowBound,
                MaxAllowed, Slots, CountIsTrue, ConcurrencyBound
  <1> QED
    BY <1>1, <1>2, <1>3, <1>4 DEF Next

\* The invariant holds throughout.
LEMMA SpecIInv == Spec => []IInv
  BY InitIInv, NextIInv, PTL DEF Spec

\* The history never holds more than the allowance, and every variable has its type.
THEOREM TypeCorrect == Spec => []TypeOK
  BY SpecIInv, PTL DEF IInv

\* In no stretch of TimeWindow seconds do more than MaxAllowed calls pass the check,
\* whatever was refused, pruned or started in between.
THEOREM WindowIsBounded == Spec => []WindowBound
  BY SpecIInv, PTL DEF IInv

\* The counter of executions is true, and they never exceed MaxConcurrent.
THEOREM SlotsAreBounded == Spec => [](CountIsTrue /\ ConcurrencyBound)
  BY SpecIInv, PTL DEF IInv, Slots

\* The part 1..k of the naturals has k members, and so has any stretch of that length.
LEMMA Stretch ==
  ASSUME NEW d \in Nat, NEW k \in Nat
  PROVE  IsFiniteSet(d + 1..d + k) /\ Cardinality(d + 1..d + k) = k
  <1>1. IsFiniteSet(d + 1..d + k)
        /\ Cardinality(d + 1..d + k) = IF d + 1 > d + k THEN 0 ELSE (d + k) - (d + 1) + 1
    BY FS_Interval
  <1> QED
    BY <1>1

\* What the usage endpoint counts is the part of the history that would not be pruned.
LEMMA ValidIsUnpruned ==
  ASSUME IInv, NEW n \in 0..Len(history), Prunes(n)
  PROVE  /\ \A i \in 1..n : now - history[i] > TimeWindow
         /\ \A i \in n + 1..Len(history) : now - history[i] <= TimeWindow
  <1> USE DEF IInv
  <1>1. \A i \in 1..n : now - history[i] > TimeWindow
    BY DEF Prunes, Stale
  <1>2. ASSUME NEW i \in n + 1..Len(history) PROVE now - history[i] <= TimeWindow
    <2>1. /\ Len(history) \in Nat /\ Len(admitted) \in Nat /\ Dropped \in Nat
          /\ n + 1 \in 1..Len(history) /\ i \in 1..Len(history)
      BY DEF TypeOK, HistoryIsSuffix, Dropped
    <2>2. \A k \in 1..Len(history) : history[k] \in 1..MaxTime + 1
      BY ElementFacts DEF TypeOK
    <2>3. history[n + 1] \in Nat /\ history[i] \in Nat /\ now \in Nat
      BY <2>1, <2>2, LimitsAssumption DEF TypeOK
    <2>4. Dropped + (n + 1) \in 1..Len(admitted) /\ Dropped + i \in 1..Len(admitted)
      BY <2>1 DEF Dropped
    <2>5. admitted[Dropped + (n + 1)] <= admitted[Dropped + i]
      BY <2>4, <2>1 DEF Ordered
    <2>6. history[n + 1] <= history[i]
      BY <2>1, <2>5 DEF HistoryIsSuffix
    <2>7. now - history[n + 1] <= TimeWindow
      BY <2>1, <2>3, LimitsAssumption DEF Prunes, Stale
    <2> QED
      BY <2>3, <2>6, <2>7, LimitsAssumption
  <1> QED
    BY <1>1, <1>2

\* So much remains as there are places left once the stale entries are gone.
LEMMA RemainingIs ==
  ASSUME IInv, NEW n \in 0..Len(history), Prunes(n)
  PROVE  Remaining = MaxAllowed - Len(Pruned(n))
  <1> DEFINE valid == {i \in 1..Len(history) : now - history[i] <= TimeWindow}
             k == Len(history) - n
  <1>1. Len(history) \in Nat /\ Len(history) <= MaxAllowed /\ k \in Nat /\ n \in Nat
    BY DEF IInv, TypeOK
  <1>2. valid = n + 1..n + k
    <2>1. \A i \in 1..Len(history) :
             now - history[i] <= TimeWindow => ~(now - history[i] > TimeWindow)
      <3>1. \A i \in 1..Len(history) : history[i] \in 1..MaxTime + 1
        BY ElementFacts DEF IInv, TypeOK
      <3> QED
        BY <3>1, LimitsAssumption DEF IInv, TypeOK
    <2> QED
      BY <2>1, <1>1, ValidIsUnpruned
  <1>3. Cardinality(valid) = k
    BY <1>1, <1>2, Stretch
  <1>4. Len(Pruned(n)) = k
    BY PruningKeeps
  <1> HIDE DEF valid
  <1>5. Remaining = IF Cardinality(valid) >= MaxAllowed THEN 0 ELSE MaxAllowed - Cardinality(valid)
    BY DEF Remaining, valid
  <1> QED
    BY <1>1, <1>3, <1>4, <1>5, AllowedIsPositive

\* A call is refused exactly when nothing remains, and then MaxAllowed others have passed
\* within the window.
LEMMA RefusalsAreDue ==
  ASSUME IInv, NEW c \in Callers, CallTool(c)
  PROVE  /\ retryAt' # 0 => Cardinality({i \in 1..Len(admitted) : now - admitted[i] <= TimeWindow})
                                >= MaxAllowed
         /\ retryAt' # 0 <=> Remaining = 0
  <1>1. PICK n \in 0..Len(history) :
           Prunes(n) /\ (Refuse(c, Pruned(n)) \/ Admit(c, Pruned(n)))
    BY DEF CallTool
  <1>2. Remaining = MaxAllowed - Len(Pruned(n)) /\ Len(Pruned(n)) \in Nat
    BY <1>1, RemainingIs, PruningKeeps
  <1>3. CASE Admit(c, Pruned(n))
    BY <1>2, <1>3, AllowedIsPositive DEF Admit
  <1>4. CASE Refuse(c, Pruned(n))
    <2> DEFINE recent == {i \in 1..Len(admitted) : now - admitted[i] <= TimeWindow}
    <2>1. /\ Len(history) \in Nat /\ Len(history) <= MaxAllowed /\ Dropped \in Nat
          /\ Len(admitted) \in Nat /\ Dropped + Len(history) = Len(admitted)
      BY DEF IInv, TypeOK, HistoryIsSuffix, Dropped
    <2>2. Len(Pruned(n)) = Len(history) - n /\ Len(Pruned(n)) >= MaxAllowed
      BY <1>1, <1>4, PruningKeeps DEF Refuse
    <2>3. n = 0 /\ Len(history) = MaxAllowed
      BY <2>1, <2>2, AllowedIsPositive
    <2>4. retryAt' # 0
      <3>1. retryAt' = now + (TimeWindow - (now - Pruned(n)[1]))
        BY <1>4 DEF Refuse
      <3>2. Pruned(n)[1] \in 1..MaxTime + 1
        <4>1. 1 \in 1..Len(Pruned(n))
          BY <2>1, <2>2, <2>3, AllowedIsPositive
        <4> QED
          BY <1>1, <4>1, PruningKeeps, ElementFacts
      <3> QED
        BY <3>1, <3>2, LimitsAssumption DEF IInv, TypeOK
    <2>5. Dropped + 1..Dropped + Len(history) \subseteq recent
      <3> SUFFICES ASSUME NEW i \in Dropped + 1..Dropped + Len(history)
                   PROVE  i \in recent
        OBVIOUS
      <3>1. i - Dropped \in 1..Len(history) /\ i \in 1..Len(admitted)
            /\ Dropped + (i - Dropped) = i
        BY <2>1
      <3>2. now - history[i - Dropped] <= TimeWindow
        BY <1>1, <2>3, <3>1, ValidIsUnpruned
      <3>3. history[i - Dropped] = admitted[i]
        BY <3>1 DEF IInv, HistoryIsSuffix
      <3> QED
        BY <3>1, <3>2, <3>3
    <2>6. IsFiniteSet(recent)
      <3>1. recent \subseteq 0 + 1..0 + Len(admitted) /\ IsFiniteSet(0 + 1..0 + Len(admitted))
        BY <2>1, Stretch
      <3> QED
        BY <3>1, FS_Subset
    <2>7. Cardinality(recent) >= Cardinality(Dropped + 1..Dropped + Len(history))
      BY <2>5, <2>6, FS_Subset
    <2>8. Cardinality(Dropped + 1..Dropped + Len(history)) = MaxAllowed
      BY <2>1, <2>3, Stretch
    <2> QED
      BY <1>2, <2>2, <2>3, <2>4, <2>7, <2>8, AllowedIsPositive
  <1> QED
    BY <1>1, <1>3, <1>4

\* A refusal is justified by the calls that passed, and foretold by the usage endpoint,
\* for every limit and window and whatever was refused or pruned before.
THEOREM RefusalsAreJustified == Spec => RefusalJustified
  <1>1. IInv =>
          [\A c \in Callers : CallTool(c) =>
              /\ retryAt' # 0 => Cardinality({i \in 1..Len(admitted) : now - admitted[i] <= TimeWindow})
                                    >= MaxAllowed
              /\ retryAt' # 0 <=> Remaining = 0]_vars
    BY RefusalsAreDue
  <1> QED
    BY <1>1, SpecIInv, PTL DEF RefusalJustified

(***************************************************************************)
(* The tools.  Every version that was staged had been written and every    *)
(* version committed had been staged, and no store ever goes back; so what *)
(* a process was to carry has arrived once it ends well, and stays there.  *)
(* A caller has a commit under way only while the limiter counts it, and   *)
(* the limiter counts only those that the access control lets through.     *)
(***************************************************************************)

Stores == [Files -> Nat]

CallRecords ==
  [at    : {"idle", "adds", "commits", "looks", "told"},
   asks  : {"", "commit", "add", "status", "diff", "cached", "log", "elsewhere"},
   files : SUBSET Files,
   seen  : Stores,
   told  : {"", "staged", "committed", "nothing", "no change", "output", "failed", "raised"}]

Below(s, t) == \A f \in Files : s[f] <= t[f]

Covers(s, r) == \A f \in r.files : s[f] >= r.seen[f]

\* What r is under way to tell, or has told, is true of the tree t, the index i and
\* the last commit h.
Honest(r, t, i, h) ==
  /\ r.at = "adds"    => r.asks \in {"add", "commit"} /\ Covers(t, r)
  /\ r.at = "commits" => r.asks = "commit" /\ Covers(i, r)
  /\ r.at = "looks"   => /\ r.asks \in {"status", "diff", "cached", "log", "elsewhere"}
                         /\ Covers(IF r.asks = "cached" THEN i ELSE t, r)
  /\ r.asks = "elsewhere" => r.files = {}
  /\ r.told = "staged" => Covers(i, r)
  /\ r.told \in {"committed", "nothing"} => Covers(h, r)
  /\ r.told = "no change" => Covers(IF r.asks = "diff" THEN i ELSE h, r)

Repository ==
  /\ tree \in Stores /\ index \in Stores /\ head \in Stores
  /\ Below(head, index) /\ Below(index, tree)

CallsAreHonest ==
  /\ call \in [Agents -> CallRecords]
  /\ \A a \in Agents : Honest(call[a], tree, index, head)

\* The commits under way are those the limiter counts and the rules permit.
Guarded ==
  /\ {c \in Callers : call[c].at # "idle"} = executing
  /\ permitted = CheckAccess(mode, "git_commit", user)
  /\ executing # {} => permitted
  /\ ~permitted => head = [f \in Files |-> 0]
  /\ \A a \in Others : call[a].asks # "commit"

ToolInv == Repository /\ CallsAreHonest /\ Guarded

\* The tools use the limiter as its own specification has it used.
LEMMA ToolsUseTheLimiter == ToolSpec => Spec
  <1>1. ToolInit => Init
    BY DEF ToolInit
  <1>2. [ToolNext]_toolVars => [Next]_vars
    BY DEF ToolNext, toolVars, Next, ClockTicks, BeginCommit, FinishCommit, BeginAdd, BeginStatus,
           BeginDiff, BeginLog, Look, FinishOther, Write, GitStep
  <1> QED
    BY <1>1, <1>2, PTL DEF ToolSpec, Spec

LEMMA CommitIsCritical == SensitivityOf("git_commit") = "critical"
  BY DEF SensitivityOf, Sensitivity

LEMMA ZeroStore == [f \in Files |-> 0] \in Stores
  BY DEF Stores

LEMMA IdleFacts ==
  /\ Idle \in CallRecords /\ Idle.at = "idle" /\ Idle.asks = "" /\ Idle.files = {} /\ Idle.told = ""
  /\ \A t, i, h : Honest(Idle, t, i, h)
  <1>1. /\ Idle \in CallRecords
        /\ Idle.at = "idle" /\ Idle.asks = "" /\ Idle.files = {} /\ Idle.told = ""
    BY ZeroStore DEF Idle, CallRecords
  <1> QED
    BY <1>1 DEF Honest

LEMMA ToldFacts ==
  ASSUME NEW said, said \in {"output", "failed", "raised"}
  PROVE  /\ Told(said) \in CallRecords
         /\ Told(said).at = "told" /\ Told(said).asks = "" /\ Told(said).told = said
         /\ \A t, i, h : Honest(Told(said), t, i, h)
  <1>1. Told(said) = [[Idle EXCEPT !.at = "told"] EXCEPT !.told = said]
    BY DEF Told
  <1>2. Told(said) \in CallRecords
    BY <1>1, IdleFacts DEF CallRecords
  <1>3. Told(said).at = "told" /\ Told(said).asks = "" /\ Told(said).told = said
    BY <1>1, IdleFacts DEF CallRecords
  <1> QED
    BY <1>2, <1>3 DEF Honest

\* What a call is to carry, or asks about, is there when it begins.
Begun(r, asks, at, files, s) ==
  /\ r \in CallRecords
  /\ r.at = at /\ r.asks = asks /\ r.files = files /\ r.told = ""
  /\ Covers(s, r)

LEMMA AskedFacts ==
  ASSUME NEW s \in Stores, NEW files \in SUBSET Files,
         NEW asks \in {"commit", "add", "status", "diff", "cached", "log", "elsewhere"},
         NEW at \in {"adds", "looks"}
  PROVE  Begun(Asked(asks, at, files, s), asks, at, files, s)
  <1> DEFINE r == Asked(asks, at, files, s)
             seen == [f \in Files |-> IF f \in files THEN s[f] ELSE 0]
  <1>1. seen \in Stores
    BY DEF Stores
  <1>2. \A f \in files : seen[f] = s[f] /\ s[f] \in Nat
    BY DEF Stores
  <1>3. r = [at |-> at, asks |-> asks, files |-> files, seen |-> seen, told |-> ""]
    BY DEF Asked
  <1> HIDE DEF r, seen
  <1>4. /\ r \in CallRecords
        /\ r.at = at /\ r.asks = asks /\ r.files = files /\ r.told = "" /\ r.seen = seen
    BY <1>1, <1>3 DEF CallRecords
  <1>5. Covers(s, r)
    <2> SUFFICES ASSUME NEW f \in files PROVE s[f] >= seen[f]
      BY <1>4 DEF Covers
    <2>1. seen[f] = s[f] /\ s[f] \in Nat
      BY <1>2
    <2> QED
      BY ONLY <2>1
  <1> QED
    BY <1>4, <1>5 DEF r, Begun

\* What tells the truth goes on to tell it as versions are added.
LEMMA TruthStays ==
  ASSUME NEW r \in CallRecords,
         NEW t \in Stores, NEW i \in Stores, NEW h \in Stores,
         NEW t2 \in Stores, NEW i2 \in Stores, NEW h2 \in Stores,
         Below(t, t2), Below(i, i2), Below(h, h2), Honest(r, t, i, h)
  PROVE  Honest(r, t2, i2, h2)
  <1>1. ASSUME NEW s \in Stores, NEW s2 \in Stores, Below(s, s2), Covers(s, r)
        PROVE  Covers(s2, r)
    <2> SUFFICES ASSUME NEW f \in r.files PROVE s2[f] >= r.seen[f]
      BY DEF Covers
    <2>1. f \in Files /\ r.seen[f] \in Nat
      BY DEF CallRecords, Stores
    <2>2. s[f] \in Nat /\ s2[f] \in Nat /\ s[f] <= s2[f] /\ s[f] >= r.seen[f]
      BY <1>1, <2>1 DEF Stores, Below, Covers
    <2> QED
      BY <2>1, <2>2
  <1>2. /\ Covers(t, r) => Covers(t2, r)
        /\ Covers(i, r) => Covers(i2, r)
        /\ Covers(h, r) => Covers(h2, r)
    BY <1>1
  <1> HIDE DEF Below
  <1> QED
    BY <1>2 DEF Honest

\* One call changes, the stores grow: the others' calls stay honest.
LEMMA CallKeeps ==
  ASSUME ToolInv, NEW a \in Agents, NEW r, r \in CallRecords, call' = [call EXCEPT ![a] = r],
         Repository', Below(tree, tree'), Below(index, index'), Below(head, head'),
         Honest(r, tree', index', head')
  PROVE  CallsAreHonest'
  <1>1. call' \in [Agents -> CallRecords]
    BY DEF ToolInv, CallsAreHonest
  <1>2. ASSUME NEW b \in Agents PROVE Honest(call'[b], tree', index', head')
    <2>1. CASE b = a
      BY <2>1 DEF ToolInv, CallsAreHonest
    <2>2. CASE b # a
      <3>1. call'[b] = call[b] /\ call[b] \in CallRecords /\ Honest(call[b], tree, index, head)
        BY <2>2 DEF ToolInv, CallsAreHonest
      <3>2. /\ tree \in Stores /\ index \in Stores /\ head \in Stores
            /\ tree' \in Stores /\ index' \in Stores /\ head' \in Stores
        BY DEF ToolInv, Repository
      <3> QED
        BY <3>1, <3>2, TruthStays
    <2> QED
      BY <2>1, <2>2
  <1> QED
    BY <1>1, <1>2 DEF CallsAreHonest

\* A git process starts no call and ends none; only a commit the rules permit moves head.
LEMMA ProcessKeepsGuard ==
  ASSUME ToolInv, NEW a \in Agents, NEW r, r \in CallRecords, call' = [call EXCEPT ![a] = r],
         call[a].at # "idle", r.at # "idle", r.asks \in {"", call[a].asks},
         UNCHANGED <<vars, mode, user>>, head' = head \/ call[a].at = "commits"
  PROVE  Guarded'
  <1>1. /\ executing' = executing /\ permitted' = permitted /\ mode' = mode /\ user' = user
        /\ \A b \in Agents \ {a} : call'[b] = call[b]
        /\ call'[a] = r
    BY DEF vars, ToolInv, CallsAreHonest
  <1>2. {c \in Callers : call'[c].at # "idle"} = {c \in Callers : call[c].at # "idle"}
    BY <1>1 DEF Agents
  <1>3. \A b \in Others : call'[b].asks # "commit"
    BY <1>1 DEF ToolInv, Guarded, Agents
  <1>4. ~permitted => head' = head
    <2>1. ASSUME call[a].at = "commits" PROVE permitted
      <3>1. call[a].asks = "commit"
        BY <2>1 DEF ToolInv, CallsAreHonest, Honest
      <3>2. a \in Callers /\ a \in executing
        BY <2>1, <3>1 DEF ToolInv, Guarded, Agents
      <3> QED
        BY <3>2 DEF ToolInv, Guarded
    <2> QED
      BY <2>1
  <1>5. CheckAccess(mode, "git_commit", user)' = CheckAccess(mode, "git_commit", user)
    BY <1>1 DEF CheckAccess
  <1> QED
    BY <1>1, <1>2, <1>3, <1>4, <1>5 DEF ToolInv, Guarded

Saying(a, said, r) ==
  /\ r \in CallRecords
  /\ call' = [call EXCEPT ![a] = r]
  /\ r.at = "told" /\ r.told = said /\ r.asks \in {"", call[a].asks}
  /\ said \in {"failed", "output"} => \A t, i, h : Honest(r, t, i, h)
  /\ said \notin {"failed", "output"} =>
        r.asks = call[a].asks /\ r.files = call[a].files /\ r.seen = call[a].seen

LEMMA TellFacts ==
  ASSUME ToolInv, NEW a \in Agents, NEW said,
         said \in {"staged", "committed", "nothing", "no change", "output", "failed"},
         Tell(a, said)
  PROVE  \E r : Saying(a, said, r)
  <1>1. CASE said \in {"failed", "output"}
    <2>1. call' = [call EXCEPT ![a] = Told(said)]
      BY <1>1 DEF Tell
    <2>2. Saying(a, said, Told(said))
      BY <1>1, <2>1, ToldFacts DEF Saying
    <2> QED
      BY <2>2
  <1>2. CASE said \notin {"failed", "output"}
    <2> DEFINE r == [[call[a] EXCEPT !.at = "told"] EXCEPT !.told = said]
    <2>1. call' = [call EXCEPT ![a] = r]
      BY <1>2 DEF Tell
    <2>2. call[a] \in CallRecords
      BY DEF ToolInv, CallsAreHonest
    <2>3. /\ r \in CallRecords /\ r.at = "told" /\ r.told = said
          /\ r.asks = call[a].asks /\ r.files = call[a].files /\ r.seen = call[a].seen
      BY <2>2 DEF CallRecords
    <2> HIDE DEF r
    <2>4. Saying(a, said, r)
      BY <1>2, <2>1, <2>3 DEF Saying
    <2> QED
      BY <2>4
  <1> QED
    BY <1>1, <1>2

LEMMA StoreIsBelowItself == ASSUME NEW s \in Stores PROVE Below(s, s)
  BY DEF Stores, Below

\* A step that leaves the repository alone and changes one call.
LEMMA TalkKeeps ==
  ASSUME ToolInv, NEW a \in Agents, NEW r, r \in CallRecords, call' = [call EXCEPT ![a] = r],
         UNCHANGED git, Honest(r, tree, index, head)
  PROVE  Repository' /\ CallsAreHonest'
  <1>1. tree' = tree /\ index' = index /\ head' = head
    BY DEF git
  <1>2. Repository'
    BY <1>1 DEF ToolInv, Repository
  <1>3. Below(tree, tree') /\ Below(index, index') /\ Below(head, head')
    BY <1>1, StoreIsBelowItself DEF ToolInv, Repository
  <1> QED
    BY <1>1, <1>2, <1>3, CallKeeps

LEMMA InitToolInv == ToolInit => ToolInv
  <1> SUFFICES ASSUME ToolInit PROVE ToolInv
    OBVIOUS
  <1>1. Repository
    BY ZeroStore DEF ToolInit, Repository, Stores, Below
  <1>2. CallsAreHonest
    BY IdleFacts DEF ToolInit, CallsAreHonest
  <1>3. \A c \in Callers : call[c].at = "idle"
    BY IdleFacts DEF ToolInit, Agents
  <1>4. \A b \in Others : call[b].asks # "commit"
    BY IdleFacts DEF ToolInit, Agents
  <1>5. Guarded
    BY <1>3, <1>4 DEF ToolInit, Init, Guarded
  <1> QED
    BY <1>1, <1>2, <1>5 DEF ToolInv

\* The calls of git_commit begin and end together with their place in the limiter.
LEMMA BeginCommitKeeps ==
  ASSUME ToolInv, NEW c \in Callers, BeginCommit(c)
  PROVE  ToolInv'
  <1>1. /\ c \notin executing /\ UNCHANGED <<permitted, mode, user, git>>
        /\ executing' = executing \/ (executing' = executing \cup {c} /\ permitted)
    BY DEF BeginCommit, CallTool, Refuse, Admit, repo
  <1>2. c \in Agents /\ c \notin Others
    BY AgentsAssumption DEF Agents
  <1>3. CheckAccess(mode, "git_commit", user)' = CheckAccess(mode, "git_commit", user)
    BY <1>1 DEF CheckAccess
  <1>4. head' = head
    BY <1>1 DEF git
  <1>5. CASE c \notin executing'
    <2>1. executing' = executing /\ call' = call
      BY <1>1, <1>5 DEF BeginCommit
    <2>2. Repository' /\ CallsAreHonest'
      BY <1>1, <2>1 DEF ToolInv, Repository, CallsAreHonest, git
    <2>3. Guarded'
      BY <1>1, <1>3, <1>4, <2>1 DEF ToolInv, Guarded
    <2> QED
      BY <2>2, <2>3 DEF ToolInv
  <1>6. CASE c \in executing'
    <2>1. \E r \in CallRecords :
             call' = [call EXCEPT ![c] = r] /\ r.at # "idle" /\ Honest(r, tree, index, head)
      <3>1. CASE call' = [call EXCEPT ![c] = Asked("commit", "adds", Files, tree)]
        <4>1. PICK r : r = Asked("commit", "adds", Files, tree)
          OBVIOUS
        <4>2. PICK t : t = tree
          OBVIOUS
        <4>3. t \in Stores
          BY <4>2 DEF ToolInv, Repository
        <4>4. /\ r \in CallRecords /\ r.at = "adds" /\ r.asks = "commit" /\ r.told = ""
              /\ Covers(t, r)
          <5>1. Begun(Asked("commit", "adds", Files, t), "commit", "adds", Files, t)
            BY <4>3, AskedFacts
          <5>2. Begun(r, "commit", "adds", Files, t)
            BY <4>1, <4>2, <5>1
          <5> QED
            BY <5>2 DEF Begun
        <4>6. Honest(r, tree, index, head)
          BY <4>2, <4>4 DEF Honest
        <4> QED
          BY <3>1, <4>1, <4>4, <4>6
      <3>2. CASE call' = [call EXCEPT ![c] = [Idle EXCEPT !.asks = "commit", !.at = "commits"]]
        <4> DEFINE r == [[Idle EXCEPT !.asks = "commit"] EXCEPT !.at = "commits"]
        <4>1. /\ r \in CallRecords /\ r.at = "commits" /\ r.asks = "commit"
              /\ r.files = {} /\ r.told = ""
          BY IdleFacts DEF CallRecords
        <4>2. call' = [call EXCEPT ![c] = r]
          BY <3>2
        <4> HIDE DEF r
        <4>3. Honest(r, tree, index, head)
          BY <4>1 DEF Honest, Covers
        <4> QED
          BY <4>1, <4>2, <4>3
      <3>3. ASSUME NEW said \in {"failed", "raised"}, call' = [call EXCEPT ![c] = Told(said)]
            PROVE  \E r \in CallRecords :
                     call' = [call EXCEPT ![c] = r] /\ r.at # "idle" /\ Honest(r, tree, index, head)
        <4>1. /\ Told(said) \in CallRecords /\ Told(said).at = "told"
              /\ Honest(Told(said), tree, index, head)
          BY ToldFacts
        <4> QED
          BY <3>3, <4>1
      <3>4. \/ call' = [call EXCEPT ![c] = Asked("commit", "adds", Files, tree)]
            \/ call' = [call EXCEPT ![c] = [Idle EXCEPT !.asks = "commit", !.at = "commits"]]
            \/ \E said \in {"failed", "raised"} : call' = [call EXCEPT ![c] = Told(said)]
        <4>1. \/ \E addAll \in BOOLEAN :
                     call' = [call EXCEPT ![c] =
                         IF addAll THEN Asked("commit", "adds", Files, tree)
                                   ELSE [Idle EXCEPT !.asks = "commit", !.at = "commits"]]
              \/ \E said \in {"failed", "raised"} : call' = [call EXCEPT ![c] = Told(said)]
          BY <1>6 DEF BeginCommit
        <4> QED
          BY <4>1
      <3> QED
        BY <3>1, <3>2, <3>3, <3>4
    <2>2. PICK r \in CallRecords :
             call' = [call EXCEPT ![c] = r] /\ r.at # "idle" /\ Honest(r, tree, index, head)
      BY <2>1
    <2>3. Repository' /\ CallsAreHonest'
      BY <1>1, <1>2, <2>2, TalkKeeps
    <2>4. executing' = executing \cup {c} /\ permitted
      BY <1>1, <1>6
    <2>5. call'[c] = r /\ \A b \in Agents \ {c} : call'[b] = call[b]
      BY <1>2, <2>2 DEF ToolInv, CallsAreHonest
    <2>6. {d \in Callers : call'[d].at # "idle"} = executing'
      BY <2>2, <2>4, <2>5 DEF ToolInv, Guarded, Agents
    <2>7. \A b \in Others : call'[b].asks # "commit"
      BY <1>2, <2>5 DEF ToolInv, Guarded, Agents
    <2>8. Guarded'
      BY <1>1, <1>3, <2>4, <2>6, <2>7 DEF ToolInv, Guarded
    <2> QED
      BY <2>3, <2>8 DEF ToolInv
  <1> QED
    BY <1>5, <1>6

LEMMA FinishCommitKeeps ==
  ASSUME ToolInv, NEW c \in Callers, FinishCommit(c)
  PROVE  ToolInv'
  <1>1. /\ executing' = executing \ {c} /\ c \in executing
        /\ UNCHANGED <<permitted, mode, user, git>>
        /\ call' = [call EXCEPT ![c] = Idle]
    BY DEF FinishCommit, Return, repo
  <1>2. c \in Agents /\ c \notin Others
    BY AgentsAssumption DEF Agents
  <1>3. Idle \in CallRecords /\ Idle.at = "idle" /\ Honest(Idle, tree, index, head)
    BY IdleFacts
  <1>4. Repository' /\ CallsAreHonest'
    BY <1>1, <1>2, <1>3, TalkKeeps
  <1>5. CheckAccess(mode, "git_commit", user)' = CheckAccess(mode, "git_commit", user)
    BY <1>1 DEF CheckAccess
  <1>6. call'[c] = Idle /\ \A b \in Agents \ {c} : call'[b] = call[b]
    BY <1>1, <1>2 DEF ToolInv, CallsAreHonest
  <1>7. {d \in Callers : call'[d].at # "idle"} = executing'
    BY <1>1, <1>3, <1>6 DEF ToolInv, Guarded, Agents
  <1>8. \A b \in Others : call'[b].asks # "commit"
    BY <1>2, <1>6 DEF ToolInv, Guarded, Agents
  <1>9. Guarded'
    BY <1>1, <1>5, <1>7, <1>8 DEF ToolInv, Guarded, git
  <1> QED
    BY <1>4, <1>9 DEF ToolInv

\* What the other tools ask for is no commit.
LEMMA OtherKeeps ==
  ASSUME ToolInv, NEW a \in Others, NEW r, r \in CallRecords, call' = [call EXCEPT ![a] = r],
         r.asks # "commit", Honest(r, tree, index, head), UNCHANGED <<vars, mode, user, repo>>
  PROVE  ToolInv'
  <1>1. a \in Agents /\ a \notin Callers
    BY AgentsAssumption DEF Agents
  <1>2. UNCHANGED <<executing, permitted, mode, user, git>>
    BY DEF vars, repo
  <1>3. Repository' /\ CallsAreHonest'
    BY <1>1, <1>2, TalkKeeps
  <1>4. call'[a] = r /\ \A b \in Agents \ {a} : call'[b] = call[b]
    BY <1>1 DEF ToolInv, CallsAreHonest
  <1>5. /\ {c \in Callers : call'[c].at # "idle"} = {c \in Callers : call[c].at # "idle"}
        /\ \A b \in Others : call'[b].asks # "commit"
    BY <1>1, <1>4 DEF ToolInv, Guarded, Agents
  <1>6. CheckAccess(mode, "git_commit", user)' = CheckAccess(mode, "git_commit", user)
    BY <1>2 DEF CheckAccess
  <1>7. Guarded'
    BY <1>2, <1>5, <1>6 DEF ToolInv, Guarded, git
  <1> QED
    BY <1>3, <1>7 DEF ToolInv

LEMMA BeginAddKeeps == ASSUME ToolInv, NEW a \in Others, BeginAdd(a) PROVE ToolInv'
  <1>1. PICK files \in SUBSET Files :
           call' = [call EXCEPT ![a] = Asked("add", "adds", IF files = {} THEN Files ELSE files, tree)]
    BY DEF BeginAdd
  <1>2. PICK t : t = tree
    OBVIOUS
  <1>3. PICK k : k = IF files = {} THEN Files ELSE files
    OBVIOUS
  <1>4. PICK r : r = Asked("add", "adds", k, t)
    OBVIOUS
  <1>5. t \in Stores /\ k \subseteq Files
    BY <1>2, <1>3 DEF ToolInv, Repository
  <1>6. /\ r \in CallRecords /\ r.at = "adds" /\ r.asks = "add" /\ r.told = ""
        /\ Covers(t, r)
    <2>1. Begun(Asked("add", "adds", k, t), "add", "adds", k, t)
      BY <1>5, AskedFacts
    <2>2. Begun(r, "add", "adds", k, t)
      BY <1>4, <2>1
    <2> QED
      BY <2>2 DEF Begun
  <1>8. Honest(r, tree, index, head)
    BY <1>2, <1>6 DEF Honest
  <1>9. call' = [call EXCEPT ![a] = r] /\ UNCHANGED <<vars, mode, user, repo>>
    BY <1>1, <1>2, <1>3, <1>4 DEF BeginAdd
  <1> QED
    BY <1>6, <1>8, <1>9, OtherKeeps

LEMMA LookKeeps ==
  ASSUME ToolInv, NEW a \in Others, NEW asks, NEW files \in SUBSET Files, NEW store,
         Look(a, asks, files, store),
         \/ asks \in {"status", "diff"} /\ store = tree
         \/ asks = "cached" /\ store = index
         \/ asks = "log" /\ store = head /\ files = {}
         \/ asks = "elsewhere" /\ store = tree /\ files = {}
  PROVE  ToolInv'
  <1>1. call' = [call EXCEPT ![a] = Asked(asks, "looks", files, store)]
        /\ UNCHANGED <<vars, mode, user, repo>>
    BY DEF Look
  <1>2. PICK r : r = Asked(asks, "looks", files, store)
    OBVIOUS
  <1>3. asks \in {"status", "diff", "cached", "log", "elsewhere"} /\ store \in Stores
    BY DEF ToolInv, Repository
  <1>4. /\ r \in CallRecords /\ r.at = "looks" /\ r.asks = asks /\ r.told = ""
        /\ r.files = files /\ Covers(store, r)
    <2>1. Begun(Asked(asks, "looks", files, store), asks, "looks", files, store)
      BY <1>3, AskedFacts
    <2>2. Begun(r, asks, "looks", files, store)
      BY <1>2, <2>1
    <2> QED
      BY <2>2 DEF Begun
  <1>5. Covers(IF r.asks = "cached" THEN index ELSE tree, r)
    <2>1. CASE asks = "log"
      BY <1>4, <2>1 DEF Covers
    <2>2. CASE asks # "log"
      BY <1>4, <2>2
    <2> QED
      BY <2>1, <2>2
  <1>6. r.asks = "elsewhere" => r.files = {}
    BY <1>4
  <1>7. Honest(r, tree, index, head)
    BY <1>3, <1>4, <1>5, <1>6 DEF Honest
  <1> QED
    BY <1>1, <1>2, <1>3, <1>4, <1>7, OtherKeeps

LEMMA FinishOtherKeeps == ASSUME ToolInv, NEW a \in Others, FinishOther(a) PROVE ToolInv'
  <1>1. /\ Idle \in CallRecords /\ Idle.asks = "" /\ Honest(Idle, tree, index, head)
    BY IdleFacts
  <1>2. call' = [call EXCEPT ![a] = Idle] /\ UNCHANGED <<vars, mode, user, repo>>
    BY DEF FinishOther
  <1> QED
    BY <1>1, <1>2, OtherKeeps

\* A write puts the tree ahead of everything else.
LEMMA WriteKeeps == ASSUME ToolInv, NEW f \in Files, Write(f) PROVE ToolInv'
  <1>1. /\ tree' = [tree EXCEPT ![f] = @ + 1]
        /\ index' = index /\ head' = head /\ call' = call
        /\ UNCHANGED <<executing, permitted, mode, user>>
    BY DEF Write, WriteText, vars
  <1>2. tree \in Stores /\ index \in Stores /\ head \in Stores
        /\ Below(head, index) /\ Below(index, tree)
    BY DEF ToolInv, Repository
  <1>3. tree' \in Stores /\ Below(tree, tree') /\ Below(index, tree')
    BY <1>1, <1>2 DEF Stores, Below
  <1>4. Below(index, index') /\ Below(head, head')
    BY <1>1, <1>2, StoreIsBelowItself
  <1>5. Repository'
    BY <1>1, <1>2, <1>3 DEF Repository
  <1>6. ASSUME NEW a \in Agents PROVE Honest(call'[a], tree', index', head')
    <2>1. call[a] \in CallRecords /\ Honest(call[a], tree, index, head)
      BY DEF ToolInv, CallsAreHonest
    <2>2. Honest(call[a], tree', index', head')
      BY <1>1, <1>2, <1>3, <1>4, <2>1, TruthStays
    <2> QED
      BY <1>1, <2>2
  <1>7. CallsAreHonest'
    BY <1>1, <1>6 DEF ToolInv, CallsAreHonest
  <1>8. CheckAccess(mode, "git_commit", user)' = CheckAccess(mode, "git_commit", user)
    BY <1>1 DEF CheckAccess
  <1>9. Guarded'
    BY <1>1, <1>8 DEF ToolInv, Guarded
  <1> QED
    BY <1>5, <1>7, <1>9 DEF ToolInv

\* A process is done with one call and may have carried versions further.
LEMMA ProcessKeeps ==
  ASSUME ToolInv, NEW a \in Agents, NEW r, r \in CallRecords, call' = [call EXCEPT ![a] = r],
         call[a].at # "idle", r.at # "idle", r.asks \in {"", call[a].asks},
         UNCHANGED <<vars, mode, user, tree>>,
         index' \in Stores, head' \in Stores, Below(index, index'), Below(head, head'),
         Below(head', index'), Below(index', tree),
         Honest(r, tree, index', head'), head' = head \/ call[a].at = "commits"
  PROVE  ToolInv'
  <1>1. tree \in Stores /\ tree' = tree /\ Below(tree, tree')
    BY StoreIsBelowItself DEF ToolInv, Repository
  <1>2. Repository'
    BY <1>1 DEF Repository
  <1>3. CallsAreHonest'
    BY <1>1, <1>2, CallKeeps
  <1>4. Guarded'
    BY ProcessKeepsGuard
  <1> QED
    BY <1>2, <1>3, <1>4 DEF ToolInv

LEMMA AddsKeeps ==
  ASSUME ToolInv, NEW a \in Agents, Adds(a), UNCHANGED <<vars, mode, user>>
  PROVE  ToolInv'
  <1> DEFINE c == call[a]
  <1>1. /\ c \in CallRecords /\ c.at = "adds" /\ c.asks \in {"add", "commit"}
        /\ Covers(tree, c) /\ Honest(c, tree, index, head)
    BY DEF Adds, ToolInv, CallsAreHonest, Honest
  <1>2. /\ index' = [f \in Files |-> IF f \in c.files THEN tree[f] ELSE index[f]]
        /\ tree' = tree /\ head' = head
        /\ IF c.asks = "add" THEN Tell(a, "staged") ELSE Becomes(a, "commits")
    BY DEF Adds
  <1>3. /\ tree \in Stores /\ index \in Stores /\ head \in Stores
        /\ Below(head, index) /\ Below(index, tree)
    BY DEF ToolInv, Repository
  <1>4. /\ index' \in Stores /\ Below(index, index') /\ Below(index', tree) /\ Below(head, index')
    BY <1>2, <1>3 DEF Stores, Below
  <1>5. Below(head, head') /\ Below(tree, tree)
    BY <1>2, <1>3, StoreIsBelowItself
  <1>6. Covers(index', c)
    <2> SUFFICES ASSUME NEW f \in c.files PROVE index'[f] >= c.seen[f]
      BY DEF Covers
    <2>1. f \in Files
      BY <1>1 DEF CallRecords
    <2>2. index'[f] = tree[f]
      BY <1>2, <2>1
    <2> QED
      BY <1>1, <2>2 DEF Covers
  <1>7. CASE c.asks = "add"
    <2>0. PICK r : Saying(a, "staged", r)
      BY <1>2, <1>7, TellFacts
    <2>1. /\ r \in CallRecords /\ call' = [call EXCEPT ![a] = r]
          /\ r.at = "told" /\ r.told = "staged" /\ r.asks \in {"", c.asks}
          /\ r.files = c.files /\ r.seen = c.seen
      BY <2>0 DEF Saying
    <2>2. Covers(index', r)
      BY <1>6, <2>1 DEF Covers
    <2>3. Honest(r, tree, index', head')
      BY <1>7, <2>1, <2>2 DEF Honest
    <2> QED
      BY <1>1, <1>2, <1>3, <1>4, <1>5, <2>1, <2>3, ProcessKeeps
  <1>8. CASE c.asks = "commit"
    <2> DEFINE r == [c EXCEPT !.at = "commits"]
    <2>1. call' = [call EXCEPT ![a] = r]
      BY <1>2, <1>8 DEF Becomes
    <2>2. /\ r \in CallRecords /\ r.at = "commits" /\ r.asks = "commit"
          /\ r.files = c.files /\ r.seen = c.seen /\ r.told = c.told
      BY <1>1, <1>8 DEF CallRecords
    <2>3. Honest(c, tree, index', head')
      BY <1>1, <1>2, <1>3, <1>4, <1>5, TruthStays
    <2> HIDE DEF r, c
    <2>4. Honest(r, tree, index', head')
      BY <1>1, <1>6, <1>8, <2>2, <2>3 DEF Honest, Covers
    <2> QED
      BY <1>1, <1>2, <1>3, <1>4, <1>5, <1>8, <2>1, <2>2, <2>4, ProcessKeeps DEF c
  <1> QED
    BY <1>1, <1>7, <1>8

LEMMA CommitsKeeps ==
  ASSUME ToolInv, NEW a \in Agents, Commits(a), UNCHANGED <<vars, mode, user>>
  PROVE  ToolInv'
  <1> DEFINE said == IF index = head THEN "nothing" ELSE "committed"
  <1>1. /\ call[a] \in CallRecords /\ call[a].at = "commits" /\ call[a].asks = "commit"
        /\ Covers(index, call[a])
    BY DEF Commits, ToolInv, CallsAreHonest, Honest
  <1>2. head' = index /\ tree' = tree /\ index' = index /\ Tell(a, said)
    BY DEF Commits
  <1>3. /\ tree \in Stores /\ index \in Stores /\ head \in Stores
        /\ Below(head, index) /\ Below(index, tree)
    BY DEF ToolInv, Repository
  <1>4. said \in {"nothing", "committed"}
    OBVIOUS
  <1> HIDE DEF said
  <1>0. PICK r : Saying(a, said, r)
    BY <1>2, <1>4, TellFacts
  <1>5. /\ r \in CallRecords /\ call' = [call EXCEPT ![a] = r]
        /\ r.at = "told" /\ r.told = said /\ r.asks \in {"", call[a].asks}
        /\ r.files = call[a].files /\ r.seen = call[a].seen
    BY <1>0, <1>4 DEF Saying
  <1>6. Covers(head', r)
    BY <1>1, <1>2, <1>5 DEF Covers
  <1>7. Honest(r, tree, index', head')
    BY <1>1, <1>4, <1>5, <1>6 DEF Honest
  <1>8. Below(index, index) /\ Below(head, head') /\ Below(head', index')
    BY <1>2, <1>3, StoreIsBelowItself
  <1> QED
    BY <1>1, <1>2, <1>3, <1>5, <1>7, <1>8, ProcessKeeps

\* What a process that only reads finds is true of what it looked at.
LEMMA LooksKeeps ==
  ASSUME ToolInv, NEW a \in Agents, Looks(a), UNCHANGED <<vars, mode, user>>
  PROVE  ToolInv'
  <1> DEFINE c == call[a]
             about == IF c.asks = "diff" THEN c.files \cap Tracked ELSE c.files
  <1>1. /\ c \in CallRecords /\ c.at = "looks"
        /\ c.asks \in {"status", "diff", "cached", "log", "elsewhere"}
        /\ Covers(IF c.asks = "cached" THEN index ELSE tree, c)
        /\ c.asks = "elsewhere" => c.files = {}
    BY DEF Looks, ToolInv, CallsAreHonest, Honest
  <1>2. head' = head /\ tree' = tree /\ index' = index
    BY DEF Looks, repo, git
  <1>3. /\ tree \in Stores /\ index \in Stores /\ head \in Stores
        /\ Below(head, index) /\ Below(index, tree)
        /\ Below(index, index) /\ Below(head, head)
    BY StoreIsBelowItself DEF ToolInv, Repository
  <1>4. PICK said \in {"no change", "output"} :
           /\ c.asks = "status" => (said = "no change" <=> Clean)
           /\ c.asks = "diff"   => (said = "no change" <=> NoDifference(c.files, FALSE))
           /\ c.asks = "cached" => (said = "no change" <=> NoDifference(c.files, TRUE))
           /\ c.asks = "log"    => said = "output"
           /\ call' = [call EXCEPT ![a] =
                  IF said = "output" THEN Told(said)
                  ELSE [c EXCEPT !.at = "told", !.told = said,
                                 !.files = IF c.asks = "diff" THEN @ \cap Tracked ELSE @]]
    BY DEF Looks
  <1>5. CASE said = "output"
    <2>1. call' = [call EXCEPT ![a] = Told(said)]
      BY <1>4, <1>5
    <2>2. /\ Told(said) \in CallRecords
          /\ Told(said).at = "told" /\ Told(said).asks = ""
          /\ Honest(Told(said), tree, index, head)
      BY <1>5, ToldFacts
    <2> QED
      BY <1>1, <1>2, <1>3, <2>1, <2>2, ProcessKeeps
  <1>6. CASE said = "no change"
    <2> DEFINE r == [c EXCEPT !.at = "told", !.told = said,
                              !.files = IF c.asks = "diff" THEN @ \cap Tracked ELSE @]
    <2>1. call' = [call EXCEPT ![a] = r]
      BY <1>4, <1>6
    <2>2. about \in SUBSET Files
      BY <1>1 DEF CallRecords
    <2>3. /\ r \in CallRecords /\ r.at = "told" /\ r.told = "no change"
          /\ r.asks = c.asks /\ r.files = about /\ r.seen = c.seen
      BY <1>1, <1>6, <2>2 DEF CallRecords
    <2> HIDE DEF r
    <2>4. Covers(IF c.asks = "diff" THEN index ELSE head, r)
      <3>1. CASE c.asks = "diff"
        <4>1. \A f \in about : f \in c.files /\ tree[f] = index[f]
          BY <1>4, <1>6, <3>1 DEF NoDifference
        <4>2. \A f \in c.files : tree[f] >= c.seen[f]
          BY <1>1, <3>1 DEF Covers
        <4> QED
          BY <2>3, <3>1, <4>1, <4>2 DEF Covers
      <3>2. CASE c.asks = "cached"
        <4>1. \A f \in about : f \in c.files /\ index[f] = head[f]
          BY <1>4, <1>6, <3>2 DEF NoDifference
        <4>2. \A f \in c.files : index[f] >= c.seen[f]
          BY <1>1, <3>2 DEF Covers
        <4> QED
          BY <2>3, <3>2, <4>1, <4>2 DEF Covers
      <3>3. CASE c.asks = "status"
        <4>1. tree = head
          BY <1>4, <1>6, <3>3 DEF Clean
        <4> QED
          BY <1>1, <2>3, <3>3, <4>1 DEF Covers
      <3>4. CASE c.asks = "elsewhere"
        BY <1>1, <2>3, <3>4 DEF Covers
      <3> QED
        BY <1>1, <1>4, <1>6, <3>1, <3>2, <3>3, <3>4
    <2>5. r.asks = "elsewhere" => r.files = {}
      BY <1>1, <2>3
    <2>6. Honest(r, tree, index, head)
      BY <2>3, <2>4, <2>5 DEF Honest
    <2> QED
      BY <1>1, <1>2, <1>3, <2>1, <2>3, <2>6, ProcessKeeps
  <1> QED
    BY <1>5, <1>6

LEMMA GitFailsKeeps ==
  ASSUME ToolInv, NEW a \in Agents, GitFails(a), UNCHANGED <<vars, mode, user>>
  PROVE  ToolInv'
  <1>1. call[a].at # "idle" /\ Tell(a, "failed") /\ head' = head /\ tree' = tree /\ index' = index
    BY DEF GitFails, git
  <1>0. PICK r : Saying(a, "failed", r)
    BY <1>1, TellFacts
  <1>2. /\ r \in CallRecords /\ call' = [call EXCEPT ![a] = r]
        /\ r.at = "told" /\ r.asks \in {"", call[a].asks}
        /\ \A t, i, h : Honest(r, t, i, h)
    BY <1>0 DEF Saying
  <1>3. /\ tree \in Stores /\ index \in Stores /\ head \in Stores
        /\ Below(head, index) /\ Below(index, tree)
        /\ Below(index, index) /\ Below(head, head)
    BY StoreIsBelowItself DEF ToolInv, Repository
  <1>4. Honest(r, tree, index', head')
    BY <1>2
  <1> QED
    BY <1>1, <1>2, <1>3, <1>4, ProcessKeeps

\* No step of the tools disturbs the invariant.
LEMMA NextToolInv == ToolInv /\ [ToolNext]_toolVars => ToolInv'
  <1> SUFFICES ASSUME ToolInv, [ToolNext]_toolVars PROVE ToolInv'
    OBVIOUS
  <1>1. ASSUME UNCHANGED <<executing, permitted, mode, user, tree, index, head, call>>
        PROVE  ToolInv'
    BY <1>1 DEF ToolInv, Repository, CallsAreHonest, Guarded, CheckAccess
  <1>2. CASE ClockTicks
    BY <1>1, <1>2 DEF ClockTicks, Tick, repo, git
  <1>3. ASSUME NEW c \in Callers, BeginCommit(c) \/ FinishCommit(c) PROVE ToolInv'
    BY <1>3, BeginCommitKeeps, FinishCommitKeeps
  <1>4. ASSUME NEW a \in Others, BeginAdd(a) \/ FinishOther(a) PROVE ToolInv'
    BY <1>4, BeginAddKeeps, FinishOtherKeeps
  <1>5. ASSUME NEW a \in Others, BeginStatus(a) \/ BeginDiff(a) \/ BeginLog(a) PROVE ToolInv'
    <2>1. CASE Look(a, "status", Files, tree) \/ Look(a, "log", {}, head)
      BY <2>1, LookKeeps
    <2>2. ASSUME NEW files \in SUBSET Files,
                 Look(a, "diff", files, tree) \/ Look(a, "cached", files, index)
          PROVE  ToolInv'
      BY <2>2, LookKeeps
    <2>3. CASE Look(a, "elsewhere", {}, tree)
      BY <2>3, LookKeeps
    <2> QED
      BY <1>5, <2>1, <2>2, <2>3 DEF BeginStatus, BeginDiff, BeginLog
  <1>6. ASSUME NEW f \in Files, Write(f) PROVE ToolInv'
    BY <1>6, WriteKeeps
  <1>7. ASSUME NEW a \in Agents, GitStep(a) PROVE ToolInv'
    <2>1. UNCHANGED <<vars, mode, user>>
      BY <1>7 DEF GitStep
    <2>2. CASE TakeLock(a)
      BY <1>1, <2>1, <2>2 DEF TakeLock, git, vars
    <2>3. CASE GitFails(a) \/ Adds(a) \/ Commits(a) \/ Looks(a)
      BY <2>1, <2>3, GitFailsKeeps, AddsKeeps, CommitsKeeps, LooksKeeps
    <2> QED
      BY <1>7, <2>2, <2>3 DEF GitStep
  <1>8. CASE UNCHANGED toolVars
    BY <1>1, <1>8 DEF toolVars, vars, repo, git
  <1> QED
    BY <1>2, <1>3, <1>4, <1>5, <1>6, <1>7, <1>8 DEF ToolNext

LEMMA ToolInvariance == ToolSpec => []ToolInv
  BY InitToolInv, NextToolInv, PTL DEF ToolSpec

\* The limiter's promises hold of the tools that run behind it: they drive it by its own
\* steps only.
THEOREM LimitsHoldForTools ==
  ToolSpec => /\ [](WindowBound /\ CountIsTrue /\ ConcurrencyBound)
              /\ RefusalJustified
  BY ToolsUseTheLimiter, WindowIsBounded, SlotsAreBounded, RefusalsAreJustified, PTL

\* What a caller of a file or git tool is told is true of all that was written before it
\* called, whoever else wrote, staged or committed meanwhile: for any number of callers,
\* files and writes.
THEOREM ToldIsTrue == ToolSpec => []ToldIsDone
  <1>1. ToolInv => ToldIsDone
    <2> SUFFICES ASSUME ToolInv, NEW a \in Agents
                 PROVE  /\ call[a].told = "staged" => AtLeast(index, a)
                        /\ call[a].told \in {"committed", "nothing"} => AtLeast(head, a)
                        /\ call[a].told = "no change" =>
                              AtLeast(IF call[a].asks = "diff" THEN index ELSE head, a)
      BY DEF ToldIsDone
    <2>1. Honest(call[a], tree, index, head)
      BY DEF ToolInv, CallsAreHonest
    <2> QED
      BY <2>1 DEF Honest, Covers, AtLeast
  <1> QED
    BY <1>1, ToolInvariance, PTL

\* In production only the administrator's git_commit calls ever get under way, the commits
\* under way are those the limiter counts, and nobody else moves the last commit.
THEOREM CommitsStayGuarded == ToolSpec => []CommitsAreGuarded
  <1>1. ToolInv => CommitsAreGuarded
    <2> SUFFICES ASSUME ToolInv PROVE CommitsAreGuarded
      OBVIOUS
    <2>1. ASSUME mode = "production", user # "admin" PROVE ~CheckAccess(mode, "git_commit", user)
      BY <2>1, CommitIsCritical DEF CheckAccess, AllowedUsers
    <2> QED
      BY <2>1 DEF ToolInv, Guarded, CommitsAreGuarded
  <1> QED
    BY <1>1, ToolInvariance, PTL
=============================================================================
