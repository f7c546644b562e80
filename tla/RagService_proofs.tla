-------------------------- MODULE RagService_proofs --------------------------
(***************************************************************************)
(* Theorems about RagService, for any documents, models and coroutines and *)
(* any bounds: the metadata of documents follows their uploads, an answer  *)
(* that may be given from the cache is recent, Qdrant refuses vectors only *)
(* after an exchange of the embedding model, and the latest upload is      *)
(* whole.  The last one rests on a theorem about RagText, for texts of any *)
(* length: the chunks of a text hold all of its words.                     *)
(*                                                                         *)
(* The invariants do not depend on one another, and none is inductive: the *)
(* metadata needs the bounds of the upload numbers (Followed), the cache   *)
(* what every row and every pending answer keeps (Recent), the lengths     *)
(* that whoever waits for vectors has the collection made, and that all    *)
(* vectors at hand have its dimension (Fitting), and the latest upload     *)
(* that what is read is a text of its document (ReadingTyped) and that the *)
(* points it did not write over are from earlier ones (PointsTyped).       *)
(***************************************************************************)
EXTENDS RagService, WellFoundedInduction, TLAPS

-----------------------------------------------------------------------------
(* Induction, by way of the least number of a set.                         *)

LEMMA NatOrder ==
    \E R : IsWellFoundedOn(R, Nat) /\ \A x, y \in Nat : <<x, y>> \in R <=> x < y
<1>1. IsWellFoundedOn(OpToRel(<, Nat), Nat)
  BY NatLessThanWellFounded
<1>2. \A x, y \in Nat : <<x, y>> \in OpToRel(<, Nat) <=> x < y
  BY DEF OpToRel
<1> QED BY <1>1, <1>2

LEMMA LeastNumber ==
    ASSUME NEW S \in SUBSET Nat, S # {}
    PROVE  \E m \in S : \A k \in S : m <= k
<1>1. PICK R : IsWellFoundedOn(R, Nat) /\ \A x, y \in Nat : <<x, y>> \in R <=> x < y
  BY NatOrder
<1>2. S \subseteq Nat /\ IsWellFoundedOn(R, Nat)
  BY <1>1
<1>3. \E m \in S : \A k \in S : ~(<<k, m>> \in R)
  BY ONLY <1>2, S # {}, WFMin, Zenon
<1>4. PICK m \in S : \A k \in S : ~(<<k, m>> \in R)
  BY <1>3
<1>5. \A k \in S : ~(k < m)
  BY <1>1, <1>4
<1> QED BY <1>5

LEMMA Induction ==
    ASSUME NEW S \in SUBSET Nat, 0 \in S, \A n \in S : n + 1 \in S
    PROVE  S = Nat
<1>1. CASE Nat \ S = {}
  BY <1>1
<1>2. CASE Nat \ S # {}
  <2>1. PICK m \in Nat \ S : \A k \in Nat \ S : m <= k
    BY <1>2, LeastNumber
  <2>2. m # 0 /\ m - 1 \in Nat
    BY <2>1
  <2>3. m - 1 \in S
    BY <2>1, <2>2
  <2> QED BY <2>1, <2>3
<1> QED BY <1>1, <1>2

\* A set of numbers up to n that holds with a number the one before it.
LEMMA Beginning ==
    ASSUME NEW n \in Nat, NEW S \in SUBSET (1..n), \A k \in S : k # 1 => k - 1 \in S
    PROVE  \E m \in Nat : S = 1..m
<1> DEFINE T == {k \in Nat : k + 1 \notin S}
<1>1. n \in T
  OBVIOUS
<1>2. PICK m \in T : \A k \in T : m <= k
  BY <1>1, LeastNumber
<1>3. m \in Nat /\ m + 1 \notin S /\ \A k \in Nat : k < m => k + 1 \in S
  BY <1>2
<1>4. 1..m \subseteq S
  <2> SUFFICES ASSUME NEW k \in 1..m PROVE k \in S
    OBVIOUS
  <2>1. k - 1 \in Nat /\ k - 1 < m /\ (k - 1) + 1 = k
    BY <1>3
  <2> QED BY <1>3, <2>1
<1> DEFINE U == {k \in S : k > m}
<1>5. CASE U = {}
  <2>1. \A k \in S : k \in Nat /\ 1 <= k /\ ~(k > m)
    BY <1>5
  <2>2. S \subseteq 1..m
    BY <1>3, <2>1
  <2> QED BY <1>3, <1>4, <2>2
<1>6. CASE U # {}
  <2>0. U \in SUBSET Nat
    <3>1. 1..n \subseteq Nat /\ S \subseteq 1..n
      OBVIOUS
    <3> QED BY <3>1
  <2>1. PICK u \in U : \A k \in U : u <= k
    <3> HIDE DEF U
    <3> QED BY <1>6, <2>0, LeastNumber
  <2>2. u \in S /\ u > m /\ u # m + 1 /\ u \in Nat
    BY <1>3, <2>1
  <2>3. u - 1 \in U
    BY <1>3, <2>2
  <2> QED BY <2>1, <2>2, <2>3
<1> QED BY <1>3, <1>5, <1>6

-----------------------------------------------------------------------------
(* Sequences one after the other.                                          *)

LEMMA Beyond ==
    \A m, k \in Nat : \A i \in 1..(m + k) : i \notin 1..m => i - m \in 1..k /\ i = m + (i - m)
OBVIOUS

LEMMA Concatenated ==
    ASSUME NEW X, NEW a \in Seq(X), NEW b \in Seq(X)
    PROVE  a \o b \in Seq(X) /\ ToSet(a \o b) = ToSet(a) \cup ToSet(b)
<1>1. /\ a \o b \in Seq(X) /\ Len(a) \in Nat /\ Len(b) \in Nat
      /\ DOMAIN (a \o b) = 1..(Len(a) + Len(b)) /\ DOMAIN a = 1..Len(a) /\ DOMAIN b = 1..Len(b)
  OBVIOUS
<1>2. \A i \in 1..Len(a) : (a \o b)[i] = a[i]
  OBVIOUS
<1>3. \A i \in 1..Len(b) : (a \o b)[Len(a) + i] = b[i]
  OBVIOUS
<1>4. \A i \in 1..(Len(a) + Len(b)) :
          i \notin 1..Len(a) => i - Len(a) \in 1..Len(b) /\ i = Len(a) + (i - Len(a))
  BY <1>1, Beyond
<1>5. ToSet(a) \subseteq ToSet(a \o b)
  BY <1>1, <1>2 DEF ToSet
<1>6. ToSet(b) \subseteq ToSet(a \o b)
  <2>1. \A i \in 1..Len(b) : Len(a) + i \in DOMAIN (a \o b)
    BY <1>1
  <2> QED BY <1>1, <1>3, <2>1 DEF ToSet
<1>7. ASSUME NEW i \in 1..(Len(a) + Len(b))
      PROVE  (a \o b)[i] \in ToSet(a) \cup ToSet(b)
  <2>1. CASE i \in 1..Len(a)
    BY <1>1, <1>2, <2>1 DEF ToSet
  <2>2. CASE i \notin 1..Len(a)
    <3>1. PICK j \in 1..Len(b) : i = Len(a) + j
      BY <1>4, <2>2
    <3> QED BY <1>1, <1>3, <3>1 DEF ToSet
  <2> QED BY <2>1, <2>2
<1>8. ToSet(a \o b) \subseteq ToSet(a) \cup ToSet(b)
  BY <1>1, <1>7 DEF ToSet
<1> QED BY <1>1, <1>5, <1>6, <1>8

\* The recursion of FlattenSeq has a solution, which gives what it returns.
LEMMA Flattening ==
    ASSUME NEW X, NEW seqs \in Seq(Seq(X)), Len(seqs) # 0
    PROVE  \E f : /\ FlattenSeq(seqs) = f[Len(seqs)]
                  /\ f[1] = seqs[1]
                  /\ \A i \in 2..Len(seqs) : f[i] = f[i - 1] \o seqs[i]
<1> DEFINE n == Len(seqs)
           Solves(g, m) == \A i \in 1..m : g[i] = IF i = 1 THEN seqs[i] ELSE g[i - 1] \o seqs[i]
           S == {m \in Nat : m <= n => \E g \in [1..n -> Seq(X)] : Solves(g, m)}
<1>1. n \in Nat /\ \A i \in 1..n : seqs[i] \in Seq(X)
  OBVIOUS
<1> HIDE DEF n
<1>2. 0 \in S
  <2>1. [i \in 1..n |-> <<>>] \in [1..n -> Seq(X)]
    OBVIOUS
  <2>2. 1..0 = {}
    OBVIOUS
  <2>3. Solves([i \in 1..n |-> <<>>], 0)
    BY <2>2
  <2> HIDE DEF Solves
  <2> QED BY <2>1, <2>3
<1>3. ASSUME NEW m \in S PROVE m + 1 \in S
  <2> SUFFICES ASSUME m + 1 <= n PROVE \E g \in [1..n -> Seq(X)] : Solves(g, m + 1)
    OBVIOUS
  <2>1. m \in Nat /\ m <= n /\ m + 1 \in 1..n
    BY <1>1
  <2>2. PICK g \in [1..n -> Seq(X)] : Solves(g, m)
    BY <2>1
  <2> DEFINE last == IF m + 1 = 1 THEN seqs[m + 1] ELSE g[m] \o seqs[m + 1]
             h == [g EXCEPT ![m + 1] = last]
  <2>3. last \in Seq(X)
    <3>1. CASE m = 0
      BY <1>1, <2>1, <3>1
    <3>2. CASE m # 0
      <4>1. m \in 1..n /\ g[m] \in Seq(X) /\ seqs[m + 1] \in Seq(X)
        BY <1>1, <2>1, <2>2, <3>2
      <4>2. g[m] \o seqs[m + 1] \in Seq(X)
        BY <4>1
      <4> QED BY <2>1, <3>2, <4>2
    <3> QED BY <3>1, <3>2
  <2> HIDE DEF last
  <2>4. /\ h \in [1..n -> Seq(X)] /\ h[m + 1] = last
        /\ \A i \in 1..m : h[i] = g[i]
    BY <2>1, <2>2, <2>3
  <2> HIDE DEF h
  <2>5. Solves(h, m + 1)
    <3> SUFFICES ASSUME NEW i \in 1..(m + 1)
                 PROVE  h[i] = IF i = 1 THEN seqs[i] ELSE h[i - 1] \o seqs[i]
      OBVIOUS
    <3>1. CASE i = m + 1 /\ m = 0
      BY <2>1, <2>4, <3>1 DEF last
    <3>2. CASE i = m + 1 /\ m # 0
      <4>1. m \in 1..m /\ i - 1 = m /\ i # 1
        BY <2>1, <3>2
      <4> QED BY <2>1, <2>4, <3>2, <4>1 DEF last
    <3>3. CASE i # m + 1
      <4>1. i \in 1..m /\ (i # 1 => i - 1 \in 1..m)
        BY <2>1, <3>3
      <4> QED BY <2>2, <2>4, <4>1
    <3> QED BY <2>1, <3>1, <3>2, <3>3
  <2> QED BY <2>4, <2>5
<1>4. S = Nat
  <2> HIDE DEF S
  <2>1. S \in SUBSET Nat
    BY DEF S
  <2> QED BY <1>2, <1>3, <2>1, Induction
<1>5. PICK g \in [1..n -> Seq(X)] : Solves(g, n)
  <2> HIDE DEF Solves
  <2>1. n \in S
    <3> HIDE DEF S
    <3> QED BY <1>1, <1>4
  <2>2. n <= n
    BY <1>1
  <2> QED BY <2>1, <2>2
<1>6. g = [i \in 1..n |-> IF i = 1 THEN seqs[i] ELSE g[i - 1] \o seqs[i]]
  BY <1>5
<1>7. PICK f : /\ f = [i \in 1..n |-> IF i = 1 THEN seqs[i] ELSE f[i - 1] \o seqs[i]]
               /\ FlattenSeq(seqs) = f[n]
  BY <1>6 DEF FlattenSeq, n
<1>8. 1 \in 1..n /\ \A i \in 2..n : i \in 1..n /\ i # 1
  BY <1>1 DEF n
<1>9. f[1] = seqs[1]
  BY <1>7, <1>8
<1>10. \A i \in 2..n : f[i] = f[i - 1] \o seqs[i]
  BY <1>7, <1>8
<1> QED BY <1>7, <1>9, <1>10 DEF n

LEMMA Flattened ==
    ASSUME NEW X, NEW seqs \in Seq(Seq(X))
    PROVE  /\ FlattenSeq(seqs) \in Seq(X)
           /\ ToSet(FlattenSeq(seqs)) = UNION {ToSet(seqs[j]) : j \in DOMAIN seqs}
<1> DEFINE n == Len(seqs)
<1>1. n \in Nat /\ DOMAIN seqs = 1..n /\ \A i \in 1..n : seqs[i] \in Seq(X)
  OBVIOUS
<1>2. CASE n = 0
  <2>1. seqs = <<>> /\ FlattenSeq(seqs) = <<>>
    BY <1>2 DEF FlattenSeq
  <2>2. ToSet(<<>>) = {} /\ <<>> \in Seq(X)
    BY DEF ToSet
  <2>3. DOMAIN seqs = {}
    BY <1>1, <1>2
  <2> QED BY <2>1, <2>2, <2>3
<1>3. CASE n # 0
  <2>1. PICK f : /\ FlattenSeq(seqs) = f[n]
                 /\ f[1] = seqs[1]
                 /\ \A i \in 2..n : f[i] = f[i - 1] \o seqs[i]
    BY <1>3, Flattening
  <2> HIDE DEF n
  <2> DEFINE Upto(i) == UNION {ToSet(seqs[j]) : j \in 1..i}
             S == {m \in Nat : m + 1 <= n => f[m + 1] \in Seq(X) /\ ToSet(f[m + 1]) = Upto(m + 1)}
  <2>2. 0 \in S
    <3>1. 1 \in 1..n /\ 1..1 = {1} /\ 0 + 1 = 1
      BY <1>1, <1>3
    <3> QED BY <1>1, <2>1, <3>1
  <2>3. ASSUME NEW m \in S PROVE m + 1 \in S
    <3> SUFFICES ASSUME m + 2 <= n
                 PROVE  f[m + 2] \in Seq(X) /\ ToSet(f[m + 2]) = Upto(m + 2)
      <4>1. m \in Nat /\ (m + 1) + 1 = m + 2 /\ m + 1 \in Nat
        OBVIOUS
      <4> HIDE DEF Upto
      <4> QED BY <4>1
    <3>1. m \in Nat /\ m + 2 \in 2..n /\ m + 2 \in 1..n /\ (m + 2) - 1 = m + 1
      BY <1>1
    <3>2. f[m + 1] \in Seq(X) /\ ToSet(f[m + 1]) = Upto(m + 1)
      BY <1>1, <3>1
    <3>3. f[m + 2] = f[m + 1] \o seqs[m + 2]
      BY <2>1, <3>1
    <3>4. seqs[m + 2] \in Seq(X)
      BY <1>1, <3>1
    <3>5. f[m + 2] \in Seq(X) /\ ToSet(f[m + 2]) = Upto(m + 1) \cup ToSet(seqs[m + 2])
      BY <3>2, <3>3, <3>4, Concatenated
    <3>6. 1..(m + 2) = 1..(m + 1) \cup {m + 2}
      BY <3>1
    <3>7. Upto(m + 2) = Upto(m + 1) \cup ToSet(seqs[m + 2])
      BY <3>6
    <3> QED BY <3>5, <3>7
  <2>4. S = Nat
    <3> HIDE DEF S
    <3>1. S \in SUBSET Nat
      BY DEF S
    <3> QED BY <2>2, <2>3, <3>1, Induction
  <2>5. n - 1 \in S /\ (n - 1) + 1 = n
    <3>1. n - 1 \in Nat /\ (n - 1) + 1 = n
      BY <1>1, <1>3
    <3> HIDE DEF S
    <3> QED BY <2>4, <3>1
  <2>6. f[n] \in Seq(X) /\ ToSet(f[n]) = Upto(n)
    BY <1>1, <2>5
  <2> QED BY <1>1, <2>1, <2>6
<1> QED BY <1>2, <1>3

-----------------------------------------------------------------------------
(* The chunks of a text.                                                   *)

Words == Nat \X Nat

\* All words of a text are there but for the ends of long sentences.
LEMMA WordsAreKept ==
    ASSUME NEW text \in Seq(Nat)
    PROVE  /\ KeptWords(text) \in Seq(Words)
           /\ \A s \in DOMAIN text : \A p \in 1..Smaller(text[s], MaxChars) :
                 <<s, p>> \in ToSet(KeptWords(text))
<1> DEFINE length(s) == Smaller(text[s], MaxChars)
           head(s) == [p \in 1..length(s) |-> <<s, p>>]
           heads == [s \in 1..Len(text) |-> head(s)]
<1>1. Len(text) \in Nat /\ DOMAIN text = 1..Len(text) /\ MaxChars \in Nat
  BY RagTextAssumption
<1>2. ASSUME NEW s \in 1..Len(text)
      PROVE  /\ length(s) \in Nat
             /\ head(s) \in Seq(Words) /\ ToSet(head(s)) = {<<s, p>> : p \in 1..length(s)}
  <2>1. length(s) \in Nat
    BY <1>1 DEF Smaller
  <2> HIDE DEF length
  <2>2. \A p \in 1..length(s) : <<s, p>> \in Words
    BY <1>1, <2>1 DEF Words
  <2>3. head(s) \in Seq(Words)
    BY <2>1, <2>2
  <2>4. DOMAIN head(s) = 1..length(s)
    OBVIOUS
  <2>5. ToSet(head(s)) = {<<s, p>> : p \in 1..length(s)}
    BY <2>4 DEF ToSet
  <2> QED BY <2>1, <2>3, <2>5
<1>3. KeptWords(text) = FlattenSeq(heads)
  BY DEF KeptWords
<1> HIDE DEF head
<1>4. heads \in Seq(Seq(Words)) /\ DOMAIN heads = 1..Len(text)
  BY <1>1, <1>2
<1>5. \A s \in 1..Len(text) : heads[s] = head(s)
  OBVIOUS
<1> HIDE DEF heads
<1>6. /\ KeptWords(text) \in Seq(Words)
      /\ ToSet(KeptWords(text)) = UNION {ToSet(heads[s]) : s \in DOMAIN heads}
  BY <1>3, <1>4, Flattened
<1>7. ASSUME NEW s \in DOMAIN text, NEW p \in 1..length(s)
      PROVE  <<s, p>> \in ToSet(KeptWords(text))
  <2> HIDE DEF length
  <2>1. s \in DOMAIN heads /\ <<s, p>> \in ToSet(heads[s])
    BY <1>1, <1>2, <1>4, <1>5
  <2> QED BY <1>6, <2>1
<1> QED BY <1>6, <1>7

LEMMA StepForward == Size \in Nat /\ Step \in Nat \ {0}
BY RagTextAssumption DEF Size, Step, Larger, Smaller

\* When a chunk is no smaller than the lower bound of _sliding_chunks, its
\* loop makes steps no longer than a chunk.
LEMMA StepFits == ChunkSize >= MinSize => Step <= Size
BY RagTextAssumption DEF Size, Step, Larger, Smaller

LEMMA Multiples ==
    ASSUME NEW s \in Nat \ {0}, NEW j \in Int, NEW k \in Int
    PROVE  /\ j * s \in Int
           /\ j <= k => j * s <= k * s
           /\ (k - 1) * s = k * s - s /\ (k + 1) * s = k * s + s
           /\ 0 * s = 0
<1>1. j * s \in Int /\ k * s \in Int
  OBVIOUS
<1>2. j <= k => j * s <= k * s
  BY SMTT(30)
<1>3. (k - 1) * s = k * s - s /\ (k + 1) * s = k * s + s
  BY SMTT(30)
<1>4. 0 * s = 0
  OBVIOUS
<1> QED BY <1>1, <1>2, <1>3, <1>4

LEMMA DivMod ==
    ASSUME NEW n \in Nat, NEW s \in Nat \ {0}
    PROVE  \E k \in Nat : k * s <= n /\ n < k * s + s
<1> DEFINE k == n \div s
<1>1. k \in Nat
  BY Z3
<1>2. k * s <= n
  BY Z3
<1>3. n < k * s + s
  BY Z3
<1> QED BY <1>1, <1>2, <1>3

\* The iterations of the loop are the first ones.
LEMMA IterationsFromOne == \A n \in Nat : \E m \in Nat : Iterations(n) = 1..m
<1> SUFFICES ASSUME NEW n \in Nat PROVE \E m \in Nat : Iterations(n) = 1..m
  OBVIOUS
<1>1. Iterations(n) \in SUBSET (1..n)
  BY DEF Iterations
<1>2. ASSUME NEW k \in Iterations(n), k # 1 PROVE k - 1 \in Iterations(n)
  <2>1. k \in 1..n /\ (k - 1) * Step < n /\ (k - 2) * Step + Size < n
    BY <1>2 DEF Iterations
  <2>2. k - 1 \in 1..n /\ (k - 1) - 1 = k - 2 /\ (k - 1) - 2 = k - 3
    BY <1>2, <2>1
  <2>3. /\ (k - 1) * Step \in Int /\ (k - 2) * Step \in Int /\ (k - 3) * Step \in Int
        /\ (k - 2) * Step <= (k - 1) * Step /\ (k - 3) * Step <= (k - 2) * Step
    <3>1. k - 1 \in Int /\ k - 2 \in Int /\ k - 3 \in Int /\ k - 2 <= k - 1 /\ k - 3 <= k - 2
      BY <2>1
    <3> QED BY <3>1, StepForward, Multiples
  <2>4. (k - 2) * Step < n /\ (k - 3) * Step + Size < n
    BY <2>1, <2>3, StepForward
  <2> QED BY <2>2, <2>4 DEF Iterations
<1> QED BY <1>1, <1>2, Beginning

\* No place of a text lies between two chunks or behind the last one.
LEMMA PlacesAreCovered ==
    ASSUME ChunkSize >= MinSize, NEW n \in Nat, NEW p \in 1..n
    PROVE  \E k \in Iterations(n) : (k - 1) * Step < p /\ p <= (k - 1) * Step + Size
<1>1. Size \in Nat /\ Step \in Nat \ {0} /\ Step <= Size
  BY StepFits, StepForward
<1>2. \A k \in Int : k * Step \in Int /\ (k - 1) * Step = k * Step - Step /\ (k + 1) * Step = k * Step + Step
  BY <1>1, Multiples
<1>3. \A j, k \in Int : j <= k => j * Step <= k * Step
  BY <1>1, Multiples
<1>4. 0 * Step = 0 /\ 1 * Step = Step
  BY <1>1
<1>5. PICK r \in Nat : r * Step <= p - 1 /\ p - 1 < r * Step + Step
  BY <1>1, DivMod, p - 1 \in Nat
<1>6. CASE n <= Size
  <2>1. 1 \in 1..n /\ (1 - 1) * Step = 0
    BY <1>4
  <2>2. 1 \in Iterations(n)
    BY <2>1 DEF Iterations
  <2> QED BY <1>1, <1>6, <2>1, <2>2
<1>7. CASE n > Size
  <2>1. PICK q \in Nat : q * Step <= n - Size - 1 /\ n - Size - 1 < q * Step + Step
    BY <1>1, <1>7, DivMod, n - Size - 1 \in Nat
  <2>2. q * Step \in Int /\ (q + 1) * Step = q * Step + Step /\ r * Step \in Int
    BY <1>2
  <2>3. /\ (q + 1) * Step < n /\ q * Step + Size < n /\ n <= (q + 1) * Step + Size
        /\ q + 1 <= (q + 1) * Step /\ r <= r * Step
    <3>1. q + 1 <= (q + 1) * Step /\ r <= r * Step
      BY <1>1, SMTT(30)
    <3> QED BY <1>1, <2>1, <2>2, <3>1
  <2>4. (q + 2) - 1 = q + 1 /\ (q + 2) - 2 = q /\ q + 2 \in 1..n
    BY <1>1, <2>2, <2>3
  <2>5. q + 2 \in Iterations(n)
    BY <2>3, <2>4 DEF Iterations
  <2>6. CASE r <= q + 1
    <3>1. (r + 1) - 1 = r /\ (r + 1) - 2 = r - 1 /\ r - 1 <= q /\ r - 1 \in Int
      BY <2>6
    <3>2. (r - 1) * Step <= q * Step /\ (r - 1) * Step \in Int
      BY <1>2, <1>3, <3>1
    <3>3. r + 1 \in 1..n /\ r * Step < n /\ (r - 1) * Step + Size < n
      BY <1>1, <1>5, <2>2, <2>3, <3>2
    <3>4. r + 1 \in Iterations(n)
      BY <3>1, <3>3 DEF Iterations
    <3>5. r * Step < p /\ p <= r * Step + Size
      BY <1>1, <1>5, <2>2
    <3> QED BY <3>1, <3>4, <3>5
  <2>7. CASE q + 1 < r
    <3>1. (q + 1) * Step <= r * Step
      BY <1>3, <2>7
    <3>2. (q + 1) * Step < p /\ p <= (q + 1) * Step + Size
      BY <1>1, <1>5, <2>2, <2>3, <3>1
    <3> QED BY <2>4, <2>5, <3>2
  <2> QED BY <2>6, <2>7
<1> QED BY <1>1, <1>6, <1>7

LEMMA Slice ==
    ASSUME NEW X, NEW s \in Seq(X), NEW a \in Nat, NEW b \in Nat, b <= Len(s),
           NEW p \in Nat, a < p, p <= b
    PROVE  s[p] \in ToSet(SubSeq(s, a + 1, b))
<1>1. a + 1 \in 1..Len(s) /\ b \in 1..Len(s) /\ p - a \in 1..(b - a) /\ a + (p - a) = p
  OBVIOUS
<1>2. DOMAIN SubSeq(s, a + 1, b) = 1..(b - a)
  BY <1>1
<1>3. SubSeq(s, a + 1, b)[p - a] = s[p]
  BY <1>1
<1> QED BY <1>1, <1>2, <1>3 DEF ToSet

\* The chunks of a text, however long it is, hold all its words but for the
\* ends of long sentences (_split_sentences_ko, _sliding_chunks).
THEOREM ChunksHoldEveryWord ==
    ASSUME ChunkSize >= MinSize, NEW text \in Seq(Nat)
    PROVE  \A s \in DOMAIN text : \A p \in 1..Smaller(text[s], MaxChars) :
               \E k \in DOMAIN Chunks(text) : <<s, p>> \in ToSet(Chunks(text)[k])
<1> SUFFICES ASSUME NEW s \in DOMAIN text, NEW p \in 1..Smaller(text[s], MaxChars)
             PROVE  \E k \in DOMAIN Chunks(text) : <<s, p>> \in ToSet(Chunks(text)[k])
  OBVIOUS
<1> DEFINE words == KeptWords(text)
           n == Len(words)
<1>1. words \in Seq(Words) /\ <<s, p>> \in ToSet(words)
  BY WordsAreKept
<1>2. DOMAIN Chunks(text) = Iterations(n)
  BY DEF Chunks
<1>3. \A k \in Iterations(n) :
          Chunks(text)[k] = SubSeq(words, (k - 1) * Step + 1, Smaller(n, (k - 1) * Step + Size))
  BY DEF Chunks
<1> HIDE DEF words
<1>4. n \in Nat /\ DOMAIN words = 1..n
  BY <1>1
<1>5. PICK i \in 1..n : words[i] = <<s, p>>
  BY <1>1, <1>4 DEF ToSet
<1> HIDE DEF n
<1>6. PICK k \in Iterations(n) : (k - 1) * Step < i /\ i <= (k - 1) * Step + Size
  BY <1>4, PlacesAreCovered
<1>7. (k - 1) * Step \in Nat
  <2>1. k \in Nat /\ 0 <= k - 1 /\ k - 1 \in Int
    BY <1>4 DEF Iterations
  <2> QED BY <2>1, StepForward, SMTT(30)
<1> DEFINE a == (k - 1) * Step
           b == Smaller(n, a + Size)
<1>8. a \in Nat /\ b \in Nat /\ b <= n /\ a < i /\ i <= b /\ i \in Nat
  BY <1>4, <1>6, <1>7, StepForward DEF Smaller
<1>9. Chunks(text)[k] = SubSeq(words, a + 1, b)
  BY <1>3
<1> HIDE DEF a, b
<1>10. words[i] \in ToSet(SubSeq(words, a + 1, b))
  BY <1>1, <1>8, Slice DEF n
<1> QED BY <1>2, <1>5, <1>9, <1>10

-----------------------------------------------------------------------------
(* The service.                                                            *)

Steps == {"idle", "probe", "embed", "queryProbe", "embedQuestion", "answer",
          "prewarmProbe"}

\* The part of TypeOK that the proofs need: neither what the documents hold
\* nor where a point lies.
Typed ==
    /\ now \in Nat
    /\ serving \in Models
    /\ size \in Nat
    /\ embedDim \in Nat
    /\ exchanged \in BOOLEAN
    /\ refused \in BOOLEAN
    /\ uploads \in Nat
    /\ uploaded \in [Docs -> Nat]
    /\ meta \in [Docs -> Nat]
    /\ step \in [Calls -> Steps]
    /\ vecs \in [Calls -> SUBSET Models]
    /\ searched \in [Calls -> Nat]

\* Metadata is about an upload of the document, and uploads are in the past.
Followed ==
    /\ \A d \in Docs : meta[d] <= uploaded[d] /\ uploaded[d] <= uploads
    /\ \A d \in Docs : d \notin torn => meta[d] = uploaded[d]

\* A row of the cache expires before its search is too old, and whoever waits
\* for an answer has searched a moment ago.
Recent ==
    /\ cache # NoEntry =>
           cache \in Entry /\ cache.expires - cache.searched <= Ttl + MaxAnswer
    /\ \A c \in Calls : step[c] = "answer" =>
           searched[c] <= now /\ now - searched[c] <= MaxAnswer

\* Until an exchange everything has the dimension of the model that serves.
Fitting ==
    ~exchanged =>
        /\ ~refused
        /\ size \in {0, Dim[serving]}
        /\ embedDim \in {0, Dim[serving]}
        /\ \A c \in Calls :
              /\ step[c] \in {"embed", "embedQuestion"} => size = Dim[serving]
              /\ \A m \in vecs[c] : Dim[m] = Dim[serving]

IInv == Typed /\ Followed /\ Recent /\ Fitting

-----------------------------------------------------------------------------
LEMMA Sizes ==
    /\ Ttl \in Nat /\ MaxAnswer \in Nat
    /\ \A m \in Models : Dim[m] \in Nat /\ Dim[m] # 0
BY RagAssumption

LEMMA InitInv == Init => IInv
<1> SUFFICES ASSUME Init PROVE IInv
  OBVIOUS
<1> USE Sizes DEF Init
<1>1. Typed
  <2>1. embedDim \in Nat
    OBVIOUS
  <2> QED BY <2>1 DEF Typed, Steps
<1>2. Followed /\ Recent
  BY DEF Followed, Recent
<1>3. Fitting
  BY DEF Fitting
<1> QED BY <1>1, <1>2, <1>3 DEF IInv

\* One step keeps the types, ...
LEMMA TypedStep == Typed /\ [Next]_vars => Typed'
<1> SUFFICES ASSUME Typed, [Next]_vars PROVE Typed'
  OBVIOUS
<1> USE Sizes DEF Typed, Steps, embedding, collection, coroutines
<1>1. CASE UNCHANGED vars
  BY <1>1 DEF vars
<1>2. ASSUME NEW c \in Calls, IndexCall(c) \/ QueryCall(c) \/ Prewarm(c) \/ Prewarmed(c) \/ Fail(c)
      PROVE  Typed'
  <2>1. ASSUME NEW dir \in Dirs, Index(c, dir) PROVE Typed'
    BY <2>1 DEF Index, BeginIndexing, EnsureCollection, Goto
  <2>2. CASE IndexProbed(c)
    BY <2>2 DEF IndexProbed, BeginIndexing, EnsureCollection, Goto
  <2>3. CASE EmbedBatch(c)
    BY <2>3 DEF EmbedBatch
  <2>4. CASE Upload(c)
    <3>1. PICK written \in SUBSET Docs : WriteMetadata(c, written)
      BY <2>4 DEF Upload
    <3> DEFINE present == DocsIn(Payloads(docs[c]))
    <3>2. meta' = [d \in Docs |-> IF d \in written THEN uploads + 1 ELSE meta[d]]
      BY <3>1 DEF WriteMetadata
    <3>3. /\ uploads' = uploads + 1
          /\ uploaded' = [d \in Docs |-> IF d \in present THEN uploads + 1 ELSE uploaded[d]]
      BY <2>4 DEF Upload, Upsert
    <3> HIDE DEF present
    <3> uploads \in Nat
      OBVIOUS
    <3>4. uploads + 1 \in Nat
      BY ONLY uploads \in Nat
    <3>5. uploaded' \in [Docs -> Nat] /\ meta' \in [Docs -> Nat]
      BY <3>2, <3>3, <3>4
    <3> QED BY <2>4, <3>3, <3>4, <3>5 DEF Upload, Leave, Goto
  <2>5. CASE UploadRefused(c)
    BY <2>5 DEF UploadRefused, Fits, Leave, Goto
  <2>6. CASE Query(c)
    BY <2>6 DEF Query, EnsureCollection, Goto
  <2>7. CASE QueryProbed(c)
    BY <2>7 DEF QueryProbed, EnsureCollection, Goto
  <2>8. CASE Search(c)
    BY <2>8 DEF Search, Goto
  <2>9. CASE SearchRefused(c)
    BY <2>9 DEF SearchRefused, Fits, Leave, Goto
  <2>10. CASE Answer(c)
    BY <2>10 DEF Answer, CacheAnswer, Leave, Goto
  <2>11. CASE Prewarm(c)
    BY <2>11 DEF Prewarm, Goto
  <2>12. CASE Prewarmed(c)
    BY <2>12 DEF Prewarmed, Leave, Goto
  <2>13. CASE Fail(c)
    BY <2>13 DEF Fail, Leave, Goto
  <2> QED BY <1>2, <2>1, <2>2, <2>3, <2>4, <2>5, <2>6, <2>7, <2>8, <2>9, <2>10, <2>11, <2>12, <2>13
             DEF IndexCall, QueryCall
<1>3. CASE ClearCache
  BY <1>3 DEF ClearCache
<1>4. CASE Optimize
  BY <1>4 DEF Optimize
<1>5. CASE Restart
  <2>1. Dim[serving] \in Nat
    OBVIOUS
  <2>2. embedDim' \in Nat
    <3>1. embedDim' = 0 \/ embedDim' = Dim[serving]
      BY <1>5 DEF Restart
    <3> QED BY ONLY <3>1, <2>1
  <2> QED BY <1>5, <2>2 DEF Restart
<1>6. CASE Tick
  <2>1. now \in Nat
    OBVIOUS
  <2>2. now + 1 \in Nat
    BY ONLY <2>1
  <2> QED BY <1>6, <2>2 DEF Tick
<1>7. ASSUME NEW d \in Docs, Edit(d) PROVE Typed'
  BY <1>7 DEF Edit
<1>8. ASSUME NEW m \in Models, Reload(m) PROVE Typed'
  BY <1>8 DEF Reload
<1> QED BY <1>1, <1>2, <1>3, <1>4, <1>5, <1>6, <1>7, <1>8 DEF Next

\* ... the metadata behind the uploads, ...
LEMMA FollowedStep == Typed /\ Followed /\ [Next]_vars => Followed'
<1> SUFFICES ASSUME Typed /\ Followed, [Next]_vars PROVE Followed'
  OBVIOUS
<1> USE Sizes DEF Typed, Followed, embedding, collection, coroutines
<1>1. CASE UNCHANGED vars
  BY <1>1 DEF vars
<1>2. ASSUME NEW c \in Calls, IndexCall(c) \/ QueryCall(c) \/ Prewarm(c) \/ Prewarmed(c) \/ Fail(c)
      PROVE  Followed'
  <2>1. ASSUME NEW dir \in Dirs, Index(c, dir) PROVE Followed'
    BY <2>1 DEF Index, BeginIndexing, EnsureCollection, Goto
  <2>2. CASE IndexProbed(c)
    BY <2>2 DEF IndexProbed, BeginIndexing, EnsureCollection, Goto
  <2>3. CASE EmbedBatch(c)
    BY <2>3 DEF EmbedBatch
  <2>4. CASE Upload(c)
    <3>1. PICK written \in SUBSET Docs : WriteMetadata(c, written)
      BY <2>4 DEF Upload
    <3> DEFINE present == DocsIn(Payloads(docs[c]))
    <3>2. /\ written \subseteq present
          /\ meta' = [d \in Docs |-> IF d \in written THEN uploads + 1 ELSE meta[d]]
          /\ torn' = (torn \ written) \cup (present \ written)
      BY <3>1 DEF WriteMetadata
    <3>3. /\ uploads' = uploads + 1
          /\ uploaded' = [d \in Docs |-> IF d \in present THEN uploads + 1 ELSE uploaded[d]]
      BY <2>4 DEF Upload, Upsert
    <3> HIDE DEF present
    <3> QED BY <3>2, <3>3
  <2>5. CASE UploadRefused(c)
    BY <2>5 DEF UploadRefused, Fits, Leave, Goto
  <2>6. CASE Query(c)
    BY <2>6 DEF Query, EnsureCollection, Goto
  <2>7. CASE QueryProbed(c)
    BY <2>7 DEF QueryProbed, EnsureCollection, Goto
  <2>8. CASE Search(c)
    BY <2>8 DEF Search, Goto
  <2>9. CASE SearchRefused(c)
    BY <2>9 DEF SearchRefused, Fits, Leave, Goto
  <2>10. CASE Answer(c)
    BY <2>10 DEF Answer, CacheAnswer, Leave, Goto
  <2>11. CASE Prewarm(c)
    BY <2>11 DEF Prewarm, Goto
  <2>12. CASE Prewarmed(c)
    BY <2>12 DEF Prewarmed, Leave, Goto
  <2>13. CASE Fail(c)
    BY <2>13 DEF Fail, Leave, Goto
  <2> QED BY <1>2, <2>1, <2>2, <2>3, <2>4, <2>5, <2>6, <2>7, <2>8, <2>9, <2>10, <2>11, <2>12, <2>13
             DEF IndexCall, QueryCall
<1>3. CASE ClearCache
  BY <1>3 DEF ClearCache
<1>4. CASE Optimize
  BY <1>4 DEF Optimize
<1>5. CASE Restart
  BY <1>5 DEF Restart
<1>6. CASE Tick
  BY <1>6 DEF Tick, MayTakeLonger
<1>7. ASSUME NEW d \in Docs, Edit(d) PROVE Followed'
  BY <1>7 DEF Edit
<1>8. ASSUME NEW m \in Models, Reload(m) PROVE Followed'
  BY <1>8 DEF Reload
<1> QED BY <1>1, <1>2, <1>3, <1>4, <1>5, <1>6, <1>7, <1>8 DEF Next

\* ... the cache recent, ...
LEMMA RecentStep == Typed /\ Recent /\ [Next]_vars => Recent'
<1> SUFFICES ASSUME Typed /\ Recent, [Next]_vars PROVE Recent'
  OBVIOUS
<1> USE Sizes DEF Typed, Recent, Entry, embedding, collection, coroutines
<1>1. CASE UNCHANGED vars
  BY <1>1 DEF vars
<1>2. ASSUME NEW c \in Calls, IndexCall(c) \/ QueryCall(c) \/ Prewarm(c) \/ Prewarmed(c) \/ Fail(c)
      PROVE  Recent'
  <2>1. ASSUME NEW dir \in Dirs, Index(c, dir) PROVE Recent'
    BY <2>1 DEF Index, BeginIndexing, EnsureCollection, Goto
  <2>2. CASE IndexProbed(c)
    BY <2>2 DEF IndexProbed, BeginIndexing, EnsureCollection, Goto
  <2>3. CASE EmbedBatch(c)
    BY <2>3 DEF EmbedBatch
  <2>4. CASE Upload(c)
    BY <2>4 DEF Upload, Upsert, WriteMetadata, Leave, Goto
  <2>5. CASE UploadRefused(c)
    BY <2>5 DEF UploadRefused, Fits, Leave, Goto
  <2>6. CASE Query(c)
    BY <2>6 DEF Query, EnsureCollection, Goto
  <2>7. CASE QueryProbed(c)
    BY <2>7 DEF QueryProbed, EnsureCollection, Goto
  <2>8. CASE Search(c)
    <3>1. /\ searched' = [searched EXCEPT ![c] = now]
          /\ step' = [step EXCEPT ![c] = "answer"]
      BY <2>8 DEF Search, Goto
    <3>2. UNCHANGED <<now, cache>>
      BY <2>8 DEF Search
    <3> QED BY <3>1, <3>2
  <2>9. CASE SearchRefused(c)
    BY <2>9 DEF SearchRefused, Fits, Leave, Goto
  <2>10. CASE Answer(c)
    <3>1. cache' = [searched |-> searched[c], expires |-> now + Ttl]
      BY <2>10 DEF Answer, CacheAnswer
    <3>2. cache' \in Entry /\ cache'.expires - cache'.searched <= Ttl + MaxAnswer
      BY <2>10, <3>1 DEF Answer
    <3> QED BY <2>10, <3>2 DEF Answer, Leave, Goto
  <2>11. CASE Prewarm(c)
    BY <2>11 DEF Prewarm, Goto
  <2>12. CASE Prewarmed(c)
    BY <2>12 DEF Prewarmed, Leave, Goto
  <2>13. CASE Fail(c)
    BY <2>13 DEF Fail, Leave, Goto
  <2> QED BY <1>2, <2>1, <2>2, <2>3, <2>4, <2>5, <2>6, <2>7, <2>8, <2>9, <2>10, <2>11, <2>12, <2>13
             DEF IndexCall, QueryCall
<1>3. CASE ClearCache
  BY <1>3 DEF ClearCache
<1>4. CASE Optimize
  BY <1>4 DEF Optimize
<1>5. CASE Restart
  BY <1>5 DEF Restart
<1>6. CASE Tick
  BY <1>6 DEF Tick, MayTakeLonger
<1>7. ASSUME NEW d \in Docs, Edit(d) PROVE Recent'
  BY <1>7 DEF Edit
<1>8. ASSUME NEW m \in Models, Reload(m) PROVE Recent'
  BY <1>8 DEF Reload
<1> QED BY <1>1, <1>2, <1>3, <1>4, <1>5, <1>6, <1>7, <1>8 DEF Next

\* ... and the vectors fitting.
LEMMA FittingStep == Typed /\ Fitting /\ [Next]_vars => Fitting'
<1> SUFFICES ASSUME Typed /\ Fitting, [Next]_vars PROVE Fitting'
  OBVIOUS
<1> USE Sizes DEF Typed, Fitting, embedding, collection, coroutines
<1>1. CASE UNCHANGED vars
  BY <1>1 DEF vars
<1>2. ASSUME NEW c \in Calls, IndexCall(c) \/ QueryCall(c) \/ Prewarm(c) \/ Prewarmed(c) \/ Fail(c)
      PROVE  Fitting'
  <2>1. ASSUME NEW dir \in Dirs, Index(c, dir) PROVE Fitting'
    BY <2>1 DEF Index, BeginIndexing, EnsureCollection, Goto
  <2>2. CASE IndexProbed(c)
    BY <2>2 DEF IndexProbed, BeginIndexing, EnsureCollection, Goto
  <2>3. CASE EmbedBatch(c)
    BY <2>3 DEF EmbedBatch
  <2>4. CASE Upload(c)
    BY <2>4 DEF Upload, Upsert, WriteMetadata, Leave, Goto
  <2>5. CASE UploadRefused(c)
    BY <2>5 DEF UploadRefused, Fits, Leave, Goto
  <2>6. CASE Query(c)
    BY <2>6 DEF Query, EnsureCollection, Goto
  <2>7. CASE QueryProbed(c)
    BY <2>7 DEF QueryProbed, EnsureCollection, Goto
  <2>8. CASE Search(c)
    BY <2>8 DEF Search, Goto
  <2>9. CASE SearchRefused(c)
    BY <2>9 DEF SearchRefused, Fits, Leave, Goto
  <2>10. CASE Answer(c)
    BY <2>10 DEF Answer, CacheAnswer, Leave, Goto
  <2>11. CASE Prewarm(c)
    BY <2>11 DEF Prewarm, Goto
  <2>12. CASE Prewarmed(c)
    BY <2>12 DEF Prewarmed, Leave, Goto
  <2>13. CASE Fail(c)
    BY <2>13 DEF Fail, Leave, Goto
  <2> QED BY <1>2, <2>1, <2>2, <2>3, <2>4, <2>5, <2>6, <2>7, <2>8, <2>9, <2>10, <2>11, <2>12, <2>13
             DEF IndexCall, QueryCall
<1>3. CASE ClearCache
  BY <1>3 DEF ClearCache
<1>4. CASE Optimize
  BY <1>4 DEF Optimize
<1>5. CASE Restart
  BY <1>5 DEF Restart
<1>6. CASE Tick
  BY <1>6 DEF Tick, MayTakeLonger
<1>7. ASSUME NEW d \in Docs, Edit(d) PROVE Fitting'
  BY <1>7 DEF Edit
<1>8. ASSUME NEW m \in Models, Reload(m) PROVE Fitting'
  BY <1>8 DEF Reload
<1> QED BY <1>1, <1>2, <1>3, <1>4, <1>5, <1>6, <1>7, <1>8 DEF Next

LEMMA Invariant == Spec => []IInv
BY InitInv, TypedStep, FollowedStep, RecentStep, FittingStep, PTL DEF Spec, IInv

\* The metadata of a document is about the latest upload that held it, unless
\* an error or a crash came between the two (index, update_document_metadata).
THEOREM MetadataIsFollowed == Spec => []MetadataFollows
<1>1. IInv => MetadataFollows
  BY DEF IInv, Typed, Followed, MetadataFollows
<1> QED BY <1>1, Invariant, PTL

\* An answer that may be given from the cache rests on a recent search
\* (get_cached_query, cache_query, and the timeout of _llm_answer).
THEOREM CacheIsRecent == Spec => []UsableIsRecent
<1>1. IInv => UsableIsRecent
  BY Sizes DEF IInv, Typed, Recent, Entry, UsableIsRecent, Usable
<1> QED BY <1>1, Invariant, PTL

\* Qdrant refuses vectors only after the embedding model was exchanged for one
\* of another dimension (_ensure_collection, _upsert_points, _search).
THEOREM DimensionFitsUntilExchange == Spec => []RefusedOnlyAfterExchange
<1>1. IInv => RefusedOnlyAfterExchange
  BY DEF IInv, Fitting, RefusedOnlyAfterExchange
<1> QED BY <1>1, Invariant, PTL

-----------------------------------------------------------------------------
(* What an upload brings.                                                  *)

Reading == {r \in [doc : Docs, text : Nat] : r.text \in DOMAIN Texts[r.doc]}
Payload == [doc : Docs, text : Nat, chunk : Nat]
Point == [doc : Docs, text : Nat, chunk : Nat, upload : Nat \ {0}]

\* Only what a document once held is read, and points tell their upload.
ReadingTyped ==
    /\ disk \in [Docs -> Nat]
    /\ \A d \in Docs : disk[d] \in DOMAIN Texts[d]
    /\ docs \in [Calls -> Seq(Reading)]

PointsTyped ==
    /\ points \in Seq(Point)
    /\ \A i \in DOMAIN points : points[i].upload <= uploads

LEMMA TextsTyped ==
    \A d \in Docs : /\ Texts[d] \in Seq(Seq(Nat)) /\ 1 \in DOMAIN Texts[d]
                    /\ DOMAIN Texts[d] = 1..Len(Texts[d]) /\ Len(Texts[d]) \in Nat
                    /\ \A t \in DOMAIN Texts[d] :
                          Texts[d][t] \in Seq(Nat) /\ ChunksOf[d][t] = Chunks(Texts[d][t])
<1> SUFFICES ASSUME NEW d \in Docs
             PROVE  /\ Texts[d] \in Seq(Seq(Nat)) /\ 1 \in DOMAIN Texts[d]
                    /\ DOMAIN Texts[d] = 1..Len(Texts[d]) /\ Len(Texts[d]) \in Nat
                    /\ \A t \in DOMAIN Texts[d] :
                          Texts[d][t] \in Seq(Nat) /\ ChunksOf[d][t] = Chunks(Texts[d][t])
  OBVIOUS
<1>1. Texts[d] \in Seq(Seq(Nat)) /\ Texts[d] # <<>>
  BY RagAssumption
<1> DEFINE texts == Texts[d]
<1> HIDE DEF texts
<1>2. texts \in Seq(Seq(Nat)) /\ texts # <<>>
  BY <1>1 DEF texts
<1>3. /\ 1 \in DOMAIN texts /\ DOMAIN texts = 1..Len(texts) /\ Len(texts) \in Nat
      /\ \A t \in DOMAIN texts : texts[t] \in Seq(Nat)
  BY <1>2
<1>4. \A t \in DOMAIN Texts[d] : ChunksOf[d][t] = Chunks(Texts[d][t])
  BY DEF ChunksOf
<1> QED BY <1>1, <1>3, <1>4 DEF texts

\* The payloads of an /index hold every chunk of a text of which they hold one.
LEMMA PayloadsComplete ==
    ASSUME NEW ds \in Seq(Reading)
    PROVE  /\ Payloads(ds) \in Seq(Payload)
           /\ \A x \in ToSet(Payloads(ds)) :
                 /\ x.text \in DOMAIN Texts[x.doc]
                 /\ \A k \in DOMAIN ChunksOf[x.doc][x.text] :
                       \E y \in ToSet(Payloads(ds)) :
                          y.doc = x.doc /\ y.text = x.text /\ y.chunk = k
<1> DEFINE chunks(i) == ChunksOf[ds[i].doc][ds[i].text]
           of(i) == [k \in DOMAIN chunks(i) |->
                        [doc |-> ds[i].doc, text |-> ds[i].text, chunk |-> k]]
           all == [i \in DOMAIN ds |-> of(i)]
<1>1. /\ DOMAIN ds = 1..Len(ds) /\ Len(ds) \in Nat
      /\ \A i \in DOMAIN ds : ds[i] \in Reading
  OBVIOUS
<1>2. \A i \in DOMAIN ds :
          ds[i].doc \in Docs /\ ds[i].text \in Nat /\ ds[i].text \in DOMAIN Texts[ds[i].doc]
  BY <1>1 DEF Reading
<1>3. ASSUME NEW i \in DOMAIN ds
      PROVE  /\ of(i) \in Seq(Payload)
             /\ ToSet(of(i)) = {[doc |-> ds[i].doc, text |-> ds[i].text, chunk |-> k] :
                                   k \in DOMAIN chunks(i)}
  <2> DEFINE text == Texts[ds[i].doc][ds[i].text]
  <2>1. text \in Seq(Nat) /\ chunks(i) = Chunks(text)
    BY <1>2, TextsTyped
  <2> HIDE DEF text
  <2>2. KeptWords(text) \in Seq(Words) /\ DOMAIN Chunks(text) = Iterations(Len(KeptWords(text)))
    BY <2>1, WordsAreKept DEF Chunks
  <2>3. Len(KeptWords(text)) \in Nat
    BY <2>2
  <2>4. PICK m \in Nat : DOMAIN chunks(i) = 1..m
    BY <2>1, <2>2, <2>3, IterationsFromOne
  <2> HIDE DEF chunks
  <2>5. \A k \in 1..m : [doc |-> ds[i].doc, text |-> ds[i].text, chunk |-> k] \in Payload
    BY <1>2 DEF Payload
  <2>6. of(i) \in Seq(Payload)
    BY <2>4, <2>5
  <2>7. DOMAIN of(i) = DOMAIN chunks(i)
    OBVIOUS
  <2> QED BY <2>6, <2>7 DEF ToSet
<1>4. Payloads(ds) = FlattenSeq(all)
  BY DEF Payloads
<1>5. \A i \in DOMAIN ds : all[i] = of(i)
  OBVIOUS
<1> HIDE DEF of
<1>6. all \in Seq(Seq(Payload)) /\ DOMAIN all = DOMAIN ds
  BY <1>1, <1>3
<1> HIDE DEF all, chunks
<1>7. /\ Payloads(ds) \in Seq(Payload)
      /\ ToSet(Payloads(ds)) = UNION {ToSet(all[i]) : i \in DOMAIN all}
  BY <1>4, <1>6, Flattened
<1>8. ASSUME NEW x \in ToSet(Payloads(ds))
      PROVE  /\ x.text \in DOMAIN Texts[x.doc]
             /\ \A k \in DOMAIN ChunksOf[x.doc][x.text] :
                   \E y \in ToSet(Payloads(ds)) : y.doc = x.doc /\ y.text = x.text /\ y.chunk = k
  <2>1. PICK i \in DOMAIN ds : x \in ToSet(of(i))
    BY <1>5, <1>6, <1>7
  <2>2. x.doc = ds[i].doc /\ x.text = ds[i].text
    BY <1>3, <2>1
  <2>3. ASSUME NEW k \in DOMAIN ChunksOf[x.doc][x.text]
        PROVE  \E y \in ToSet(Payloads(ds)) : y.doc = x.doc /\ y.text = x.text /\ y.chunk = k
    <3> DEFINE y == [doc |-> ds[i].doc, text |-> ds[i].text, chunk |-> k]
    <3>1. k \in DOMAIN chunks(i)
      BY <2>2, <2>3 DEF chunks
    <3>2. y \in ToSet(of(i))
      BY <1>3, <3>1
    <3>3. y.doc = ds[i].doc /\ y.text = ds[i].text /\ y.chunk = k
      OBVIOUS
    <3> HIDE DEF y
    <3>4. y \in ToSet(Payloads(ds))
      BY <1>5, <1>6, <1>7, <3>2
    <3> QED BY <2>2, <3>3, <3>4
  <2> QED BY <1>2, <2>2, <2>3
<1> QED BY <1>7, <1>8

\* An upload writes over the points it has ids for and leaves the others.
LEMMA Overlaid ==
    ASSUME NEW X, NEW new \in Seq(X), NEW old \in Seq(X)
    PROVE  /\ Overlay(new, old) \in Seq(X)
           /\ \A i \in DOMAIN new : i \in DOMAIN Overlay(new, old) /\ Overlay(new, old)[i] = new[i]
           /\ \A i \in DOMAIN Overlay(new, old) :
                 i \notin DOMAIN new => i \in DOMAIN old /\ Overlay(new, old)[i] = old[i]
<1> DEFINE n == Len(new)
           rest == SubSeq(old, n + 1, Len(old))
<1>1. /\ n \in Nat /\ Len(old) \in Nat
      /\ DOMAIN new = 1..n /\ DOMAIN old = 1..Len(old)
  OBVIOUS
<1>2. rest \in Seq(X) /\ Overlay(new, old) = new \o rest
  BY <1>1 DEF Overlay
<1>3. /\ DOMAIN rest = 1..Len(rest) /\ Len(rest) \in Nat
      /\ \A j \in 1..Len(rest) : n + j \in 1..Len(old) /\ rest[j] = old[n + j]
  <2>1. rest = [i \in 1..(Len(old) - (n + 1) + 1) |-> old[i + (n + 1) - 1]]
    OBVIOUS
  <2> HIDE DEF rest, n
  <2>2. DOMAIN rest = 1..(Len(old) - n)
    BY <1>1, <2>1
  <2>3. DOMAIN rest = 1..Len(rest) /\ Len(rest) \in Nat
    BY <1>2
  <2>4. ASSUME NEW j \in 1..Len(rest)
        PROVE  n + j \in 1..Len(old) /\ rest[j] = old[n + j]
    <3>1. j \in 1..(Len(old) - n)
      BY <2>2, <2>3
    <3>2. j \in 1..(Len(old) - (n + 1) + 1) /\ j + (n + 1) - 1 = n + j
      BY <1>1, <3>1
    <3> QED BY <1>1, <2>1, <3>1, <3>2
  <2> QED BY <2>3, <2>4
<1> HIDE DEF rest, n
<1>4. /\ new \o rest \in Seq(X)
      /\ DOMAIN (new \o rest) = 1..(n + Len(rest))
      /\ \A i \in 1..n : (new \o rest)[i] = new[i]
      /\ \A j \in 1..Len(rest) : (new \o rest)[n + j] = rest[j]
  BY <1>1, <1>2, <1>3 DEF n
<1>5. ASSUME NEW i \in 1..(n + Len(rest)), i \notin 1..n
      PROVE  i \in 1..Len(old) /\ (new \o rest)[i] = old[i]
  <2>1. PICK j \in 1..Len(rest) : i = n + j
    BY <1>1, <1>3, <1>5, Beyond
  <2> QED BY <1>3, <1>4, <2>1
<1>6. \A i \in 1..n : i \in 1..(n + Len(rest))
  BY <1>1, <1>3
<1> QED BY <1>1, <1>2, <1>4, <1>5, <1>6

-----------------------------------------------------------------------------
LEMMA ReadingInit == Init => ReadingTyped /\ PointsTyped /\ LatestIsWhole
<1> SUFFICES ASSUME Init PROVE ReadingTyped /\ PointsTyped /\ LatestIsWhole
  OBVIOUS
<1>1. ReadingTyped
  BY TextsTyped DEF Init, ReadingTyped
<1>2. points = <<>>
  BY DEF Init
<1>3. PointsTyped /\ LatestIsWhole
  BY <1>2 DEF PointsTyped, LatestIsWhole, Latest, InLatest
<1> QED BY <1>1, <1>3

\* What a step does to what is on disk and to what has been read.
LEMMA ReadingSteps ==
    ASSUME [Next]_vars
    PROVE  \/ disk' = disk /\ docs' = docs
           \/ disk' = disk /\ docs' = [c \in Calls |-> <<>>]
           \/ /\ disk' = disk
              /\ \E c \in Calls : docs' = [docs EXCEPT ![c] = <<>>]
           \/ /\ disk' = disk
              /\ \E c \in Calls : docs' = [docs EXCEPT ![c] = docs[c]]
           \/ /\ disk' = disk
              /\ \E c \in Calls : \E dir \in Dirs :
                    docs' = [docs EXCEPT ![c] = [i \in DOMAIN dir |->
                                                    [doc |-> dir[i], text |-> disk[dir[i]]]]]
           \/ docs' = docs /\ \E d \in Docs : Edit(d)
<1> DEFINE Emptied == disk' = disk /\ \E c \in Calls : docs' = [docs EXCEPT ![c] = <<>>]
           Steady == disk' = disk /\ docs' = docs
<1>1. CASE UNCHANGED vars
  BY <1>1 DEF vars
<1>2. ASSUME NEW c \in Calls, NEW dir \in Dirs, Index(c, dir)
      PROVE  /\ disk' = disk
             /\ \/ docs' = [docs EXCEPT ![c] = <<>>]
                \/ docs' = [docs EXCEPT ![c] = [i \in DOMAIN dir |->
                                                   [doc |-> dir[i], text |-> disk[dir[i]]]]]
  BY <1>2 DEF Index, BeginIndexing
<1>3. ASSUME NEW c \in Calls, IndexProbed(c)
      PROVE  /\ disk' = disk
             /\ \/ docs' = [docs EXCEPT ![c] = <<>>]
                \/ docs' = [docs EXCEPT ![c] = docs[c]]
  BY <1>3 DEF IndexProbed, BeginIndexing
<1>4. ASSUME NEW c \in Calls,
             UploadRefused(c) \/ SearchRefused(c) \/ Answer(c) \/ Prewarmed(c) \/ Fail(c)
      PROVE  Emptied
  <2>1. UploadRefused(c) => disk' = disk /\ Leave(c)
    BY DEF UploadRefused
  <2>2. SearchRefused(c) => disk' = disk /\ Leave(c)
    BY DEF SearchRefused
  <2>3. Answer(c) => disk' = disk /\ Leave(c)
    BY DEF Answer
  <2>4. Prewarmed(c) => disk' = disk /\ Leave(c)
    BY DEF Prewarmed
  <2>5. Fail(c) => disk' = disk /\ Leave(c)
    BY DEF Fail
  <2> QED BY <1>4, <2>1, <2>2, <2>3, <2>4, <2>5 DEF Leave
<1>5. ASSUME NEW c \in Calls, Upload(c)
      PROVE  Emptied
  BY <1>5 DEF Upload, Leave
<1>6. ASSUME NEW c \in Calls, EmbedBatch(c) \/ Query(c) \/ QueryProbed(c) \/ Search(c) \/ Prewarm(c)
      PROVE  Steady
  <2>1. EmbedBatch(c) => Steady
    BY DEF EmbedBatch
  <2>2. Query(c) => Steady
    BY DEF Query
  <2>3. QueryProbed(c) => Steady
    BY DEF QueryProbed
  <2>4. Search(c) => Steady
    BY DEF Search
  <2>5. Prewarm(c) => Steady
    BY DEF Prewarm
  <2> QED BY <1>6, <2>1, <2>2, <2>3, <2>4, <2>5
<1>7. CASE ClearCache \/ Optimize \/ Tick
  BY <1>7 DEF ClearCache, Optimize, Tick, coroutines
<1>8. CASE Restart
  BY <1>8 DEF Restart
<1>9. ASSUME NEW d \in Docs, Edit(d) PROVE docs' = docs
  BY <1>9 DEF Edit, coroutines
<1>10. ASSUME NEW m \in Models, Reload(m) PROVE Steady
  BY <1>10 DEF Reload, coroutines
<1>11. ASSUME NEW c \in Calls, IndexCall(c)
       PROVE  \/ \E dir \in Dirs : Index(c, dir)
              \/ IndexProbed(c) \/ EmbedBatch(c) \/ Upload(c) \/ UploadRefused(c)
  BY <1>11 DEF IndexCall
<1>12. ASSUME NEW c \in Calls, QueryCall(c)
       PROVE  Query(c) \/ QueryProbed(c) \/ Search(c) \/ SearchRefused(c) \/ Answer(c)
  BY <1>12 DEF QueryCall
<1> QED BY <1>1, <1>2, <1>3, <1>4, <1>5, <1>6, <1>7, <1>8, <1>9, <1>10, <1>11, <1>12 DEF Next

\* What is read was on disk, and what is on disk is a text of the document.
LEMMA ReadingStep == ReadingTyped /\ [Next]_vars => ReadingTyped'
<1> SUFFICES ASSUME ReadingTyped, [Next]_vars PROVE ReadingTyped'
  OBVIOUS
<1>1. /\ disk \in [Docs -> Nat]
      /\ \A d \in Docs : disk[d] \in DOMAIN Texts[d]
      /\ docs \in [Calls -> Seq(Reading)]
  BY DEF ReadingTyped
<1> DEFINE Cut(dir) == [i \in DOMAIN dir |-> [doc |-> dir[i], text |-> disk[dir[i]]]]
<1>2. ASSUME NEW dir \in Dirs PROVE Cut(dir) \in Seq(Reading)
  <2>1. dir \in Seq(Docs)
    BY RagAssumption
  <2>2. DOMAIN dir = 1..Len(dir) /\ Len(dir) \in Nat /\ \A i \in DOMAIN dir : dir[i] \in Docs
    BY <2>1
  <2>3. \A i \in DOMAIN dir : [doc |-> dir[i], text |-> disk[dir[i]]] \in Reading
    BY <1>1, <2>2 DEF Reading
  <2> QED BY <2>2, <2>3
<1> HIDE DEF Cut
<1>3. ASSUME disk' = disk, NEW c \in Calls, NEW ds \in Seq(Reading),
             docs' = [docs EXCEPT ![c] = ds]
      PROVE  ReadingTyped'
  <2>1. docs' \in [Calls -> Seq(Reading)]
    BY ONLY <1>1, <1>3
  <2> QED BY <1>1, <1>3, <2>1 DEF ReadingTyped
<1>4. <<>> \in Seq(Reading) /\ \A c \in Calls : docs[c] \in Seq(Reading)
  BY <1>1
<1>5. CASE disk' = disk /\ docs' = docs
  BY <1>1, <1>5 DEF ReadingTyped
<1>6. CASE disk' = disk /\ docs' = [c \in Calls |-> <<>>]
  BY <1>1, <1>4, <1>6 DEF ReadingTyped
<1>7. ASSUME docs' = docs, NEW d \in Docs, Edit(d) PROVE ReadingTyped'
  <2>1. disk' = [disk EXCEPT ![d] = @ + 1] /\ disk[d] < Len(Texts[d])
    BY <1>7 DEF Edit
  <2>2. disk[d] \in Nat /\ disk[d] \in 1..Len(Texts[d]) /\ Len(Texts[d]) \in Nat
    BY <1>1, TextsTyped
  <2>3. disk[d] + 1 \in Nat /\ disk[d] + 1 \in 1..Len(Texts[d])
    BY <2>1, <2>2
  <2>4. disk[d] + 1 \in DOMAIN Texts[d]
    BY <2>3, TextsTyped
  <2> QED BY <1>1, <1>7, <2>1, <2>3, <2>4 DEF ReadingTyped
<1>8. \/ disk' = disk /\ docs' = docs
      \/ disk' = disk /\ docs' = [c \in Calls |-> <<>>]
      \/ disk' = disk /\ \E c \in Calls : docs' = [docs EXCEPT ![c] = <<>>]
      \/ disk' = disk /\ \E c \in Calls : docs' = [docs EXCEPT ![c] = docs[c]]
      \/ disk' = disk /\ \E c \in Calls : \E dir \in Dirs : docs' = [docs EXCEPT ![c] = Cut(dir)]
      \/ docs' = docs /\ \E d \in Docs : Edit(d)
  BY ReadingSteps DEF Cut
<1> QED BY <1>2, <1>3, <1>4, <1>5, <1>6, <1>7, <1>8

\* Nothing but an upload changes the points.
LEMMA OnlyUploads == [Next]_vars => (\E c \in Calls : Upload(c)) \/ UNCHANGED <<points, uploads>>
<1> SUFFICES ASSUME [Next]_vars PROVE (\E c \in Calls : Upload(c)) \/ UNCHANGED <<points, uploads>>
  OBVIOUS
<1> USE DEF collection
<1>1. ASSUME NEW c \in Calls, IndexCall(c) \/ QueryCall(c) \/ Prewarm(c) \/ Prewarmed(c) \/ Fail(c)
      PROVE  Upload(c) \/ UNCHANGED <<points, uploads>>
  <2>1. ASSUME IndexCall(c) PROVE Upload(c) \/ UNCHANGED <<points, uploads>>
    BY <2>1 DEF IndexCall, Index, IndexProbed, EmbedBatch, UploadRefused
  <2>2. ASSUME QueryCall(c) PROVE UNCHANGED <<points, uploads>>
    <3>1. Query(c) => UNCHANGED <<points, uploads>>
      BY DEF Query
    <3>2. QueryProbed(c) => UNCHANGED <<points, uploads>>
      BY DEF QueryProbed
    <3>3. Search(c) => UNCHANGED <<points, uploads>>
      BY DEF Search
    <3>4. SearchRefused(c) => UNCHANGED <<points, uploads>>
      BY DEF SearchRefused
    <3>5. Answer(c) => UNCHANGED <<points, uploads>>
      BY DEF Answer
    <3> QED BY <2>2, <3>1, <3>2, <3>3, <3>4, <3>5 DEF QueryCall
  <2>3. ASSUME Prewarm(c) \/ Prewarmed(c) \/ Fail(c) PROVE UNCHANGED <<points, uploads>>
    <3>1. Prewarm(c) => UNCHANGED <<points, uploads>>
      BY DEF Prewarm
    <3>2. Prewarmed(c) => UNCHANGED <<points, uploads>>
      BY DEF Prewarmed
    <3>3. Fail(c) => UNCHANGED <<points, uploads>>
      BY DEF Fail
    <3> QED BY <2>3, <3>1, <3>2, <3>3
  <2> QED BY <1>1, <2>1, <2>2, <2>3
<1>2. CASE ClearCache \/ Optimize \/ Restart \/ Tick
  BY <1>2 DEF ClearCache, Optimize, Restart, Tick
<1>3. ASSUME NEW d \in Docs, Edit(d) PROVE UNCHANGED <<points, uploads>>
  BY <1>3 DEF Edit
<1>4. ASSUME NEW m \in Models, Reload(m) PROVE UNCHANGED <<points, uploads>>
  BY <1>4 DEF Reload
<1> QED BY <1>1, <1>2, <1>3, <1>4 DEF Next, vars

\* After an upload its points are the first ones, and they hold all chunks of
\* every text they come from.
LEMMA UploadIsWhole ==
    ASSUME uploads \in Nat, ReadingTyped, PointsTyped, NEW c \in Calls, Upload(c)
    PROVE  PointsTyped' /\ (ChunkSize >= MinSize => LatestIsWhole')
<1> DEFINE payloads == Payloads(docs[c])
           Of(x) == [doc |-> x.doc, text |-> x.text, chunk |-> x.chunk, upload |-> uploads + 1]
           new == [i \in DOMAIN payloads |-> Of(payloads[i])]
<1>1. points' = Overlay(new, points) /\ uploads' = uploads + 1
  BY DEF Upload, Upsert
<1>2. docs[c] \in Seq(Reading) /\ points \in Seq(Point)
  BY DEF ReadingTyped, PointsTyped
<1>3. /\ payloads \in Seq(Payload)
      /\ \A x \in ToSet(payloads) :
            /\ x.text \in DOMAIN Texts[x.doc]
            /\ \A k \in DOMAIN ChunksOf[x.doc][x.text] :
                  \E y \in ToSet(payloads) : y.doc = x.doc /\ y.text = x.text /\ y.chunk = k
  BY <1>2, PayloadsComplete
<1> HIDE DEF payloads
<1>4. uploads + 1 \in Nat \ {0} /\ uploads < uploads + 1 /\ uploads <= uploads + 1
  OBVIOUS
<1>5. \A x \in Payload : Of(x) \in Point
  BY <1>4 DEF Payload, Point
<1>6. /\ DOMAIN new = DOMAIN payloads
      /\ \A i \in DOMAIN payloads : new[i] = Of(payloads[i]) /\ payloads[i] \in Payload
      /\ DOMAIN payloads = 1..Len(payloads) /\ Len(payloads) \in Nat
  BY <1>3
<1> HIDE DEF new
<1>7. \A i \in DOMAIN new : new[i] \in Point
  BY <1>5, <1>6
<1>8. new \in Seq(Point)
  <2>1. new = [i \in 1..Len(payloads) |-> Of(payloads[i])]
    BY <1>6 DEF new
  <2>2. \A i \in 1..Len(payloads) : Of(payloads[i]) \in Point
    BY <1>5, <1>6
  <2> HIDE DEF Of
  <2> QED BY <1>6, <2>1, <2>2
<1>9. /\ points' \in Seq(Point)
      /\ \A i \in DOMAIN new : i \in DOMAIN points' /\ points'[i] = new[i]
      /\ \A i \in DOMAIN points' :
            i \notin DOMAIN new => i \in DOMAIN points /\ points'[i] = points[i]
  BY <1>1, <1>2, <1>8, Overlaid
<1>10. \A i \in DOMAIN new : points'[i].upload = uploads'
  BY <1>1, <1>6, <1>9
<1>11. \A i \in DOMAIN points : points[i].upload \in Nat /\ points[i].upload <= uploads
  <2>1. \A x \in Point : x.upload \in Nat
    BY DEF Point
  <2>2. \A i \in DOMAIN points : points[i] \in Point
    BY ONLY <1>2
  <2> QED BY <2>1, <2>2 DEF PointsTyped
<1>12. \A i \in DOMAIN points' : i \notin DOMAIN new => points'[i].upload < uploads'
  BY <1>1, <1>4, <1>9, <1>11
<1>13. PointsTyped'
  <2>1. \A i \in DOMAIN points' : points'[i].upload <= uploads'
    BY <1>1, <1>4, <1>9, <1>10, <1>11
  <2> QED BY <1>9, <2>1 DEF PointsTyped
<1>14. ASSUME ChunkSize >= MinSize,
              NEW i \in DOMAIN points', points'[i].upload = uploads',
              NEW s \in DOMAIN Texts[points'[i].doc][points'[i].text],
              NEW p \in 1..Smaller(Texts[points'[i].doc][points'[i].text][s], MaxChars)
       PROVE  \E j \in DOMAIN points' :
                 /\ points'[j].upload = uploads'
                 /\ points'[j].doc = points'[i].doc
                 /\ <<s, p>> \in ToSet(ChunksOf[points'[j].doc][points'[j].text][points'[j].chunk])
  <2>1. i \in DOMAIN new
    BY <1>1, <1>4, <1>12, <1>14
  <2> DEFINE x == payloads[i]
             text == Texts[x.doc][x.text]
  <2>2. /\ points'[i].doc = x.doc /\ points'[i].text = x.text
        /\ x \in ToSet(payloads) /\ x.doc \in Docs
    BY <1>6, <1>9, <2>1 DEF ToSet, Payload
  <2>3. x.text \in DOMAIN Texts[x.doc]
    BY <1>3, <2>2
  <2>4. text \in Seq(Nat) /\ ChunksOf[x.doc][x.text] = Chunks(text)
    BY <2>2, <2>3, TextsTyped
  <2>5. s \in DOMAIN text /\ p \in 1..Smaller(text[s], MaxChars)
    BY <1>14, <2>2
  <2> HIDE DEF text
  <2>6. PICK k \in DOMAIN Chunks(text) : <<s, p>> \in ToSet(Chunks(text)[k])
    BY <1>14, <2>4, <2>5, ChunksHoldEveryWord
  <2>7. PICK y \in ToSet(payloads) : y.doc = x.doc /\ y.text = x.text /\ y.chunk = k
    BY <1>3, <2>2, <2>4, <2>6
  <2>8. PICK j \in DOMAIN payloads : payloads[j] = y
    BY <1>6 DEF ToSet
  <2>9. j \in DOMAIN points' /\ points'[j].upload = uploads' /\ points'[j] = Of(y)
    BY <1>6, <1>9, <1>10, <2>8
  <2>10. /\ points'[j].doc = x.doc /\ points'[j].text = x.text /\ points'[j].chunk = k
    BY <2>7, <2>9
  <2> QED BY <2>2, <2>4, <2>6, <2>9, <2>10
<1> QED BY <1>13, <1>14 DEF LatestIsWhole, Latest, InLatest

Whole == ReadingTyped /\ PointsTyped /\ (ChunkSize >= MinSize => LatestIsWhole)

LEMMA Wholeness == Spec => []Whole
<1>1. Init => Whole
  BY ReadingInit DEF Whole
<1>2. IInv /\ Whole /\ [Next]_vars => Whole'
  <2> SUFFICES ASSUME IInv, Whole, [Next]_vars PROVE Whole'
    OBVIOUS
  <2>1. ReadingTyped'
    BY ReadingStep DEF Whole
  <2>2. CASE \E c \in Calls : Upload(c)
    BY <2>1, <2>2, UploadIsWhole DEF IInv, Typed, Whole
  <2>3. CASE UNCHANGED <<points, uploads>>
    BY <2>1, <2>3 DEF PointsTyped, LatestIsWhole, Latest, InLatest, Whole
  <2> QED BY <2>2, <2>3, OnlyUploads
<1> QED BY <1>1, <1>2, Invariant, PTL DEF Spec

\* The latest upload is whole: every word that the splitting keeps of one of
\* its texts lies in a chunk of one of its points, whatever documents, batches
\* and coroutines come together and whatever lay in the collection before,
\* unless RAG_CHUNK_SIZE is set below the least size of a chunk
\* (_read_documents, _sliding_chunks, _upsert_points).
THEOREM LatestUploadIsWhole ==
    ASSUME ChunkSize >= MinSize
    PROVE  Spec => []LatestIsWhole
<1>1. Whole => LatestIsWhole
  BY DEF Whole
<1> QED BY <1>1, Wholeness, PTL

-----------------------------------------------------------------------------
(* The rest of the type invariant.                                         *)

Dims == {Dim[m] : m \in Models} \cup {0}

Bounded ==
    /\ now <= MaxTime
    /\ size \in Dims
    /\ embedDim \in Dims
    /\ uploads <= MaxUploads
    /\ torn \subseteq Docs
    /\ sent \in [Calls -> Nat]
    /\ \A c \in Calls : searched[c] <= MaxTime
    /\ restarts \in 0..MaxRestarts

LEMMA Limits ==
    MaxTime \in Nat /\ MaxUploads \in Nat /\ MaxRestarts \in Nat /\ Batch \in Nat
BY RagAssumption

LEMMA BoundedInit == Init => Bounded
<1> SUFFICES ASSUME Init PROVE Bounded
  OBVIOUS
<1>1. embedDim \in Dims
  BY DEF Init, Dims
<1>2. 0 \in 0..MaxRestarts /\ 0 <= MaxTime /\ 0 <= MaxUploads
  BY Limits
<1> QED BY <1>1, <1>2 DEF Init, Bounded, Dims

\* A call that ends leaves nothing behind.
LEMMA LeavingBounded ==
    ASSUME Typed, Bounded, NEW c \in Calls, Leave(c)
    PROVE  sent' \in [Calls -> Nat] /\ \A d \in Calls : searched'[d] <= MaxTime
<1>1. sent' = [sent EXCEPT ![c] = 0] /\ searched' = [searched EXCEPT ![c] = 0]
  BY DEF Leave
<1>2. 0 <= MaxTime
  BY Limits
<1> QED BY <1>1, <1>2 DEF Typed, Bounded

LEMMA BoundedStep == Typed /\ ReadingTyped /\ Bounded /\ [Next]_vars => Bounded'
<1> SUFFICES ASSUME Typed, ReadingTyped, Bounded, [Next]_vars PROVE Bounded'
  OBVIOUS
<1> USE DEF Bounded, embedding, collection, coroutines
<1>1. CASE UNCHANGED vars
  BY <1>1 DEF vars
<1>2. ASSUME NEW c \in Calls, IndexCall(c) \/ QueryCall(c) \/ Prewarm(c) \/ Prewarmed(c) \/ Fail(c)
      PROVE  Bounded'
  <2>0. Dim[serving] \in Dims
    BY DEF Dims, Typed
  <2>1. ASSUME NEW dir \in Dirs, Index(c, dir) PROVE Bounded'
    BY <2>1 DEF Index, BeginIndexing, EnsureCollection
  <2>2. CASE IndexProbed(c)
    BY <2>0, <2>2 DEF IndexProbed, BeginIndexing, EnsureCollection
  <2>3. CASE EmbedBatch(c)
    <3>1. sent' = [sent EXCEPT ![c] = sent[c] + Batch]
      BY <2>3 DEF EmbedBatch
    <3>2. sent[c] + Batch \in Nat
      BY Limits
    <3>3. sent' \in [Calls -> Nat]
      BY <3>1, <3>2
    <3> QED BY <2>3, <3>3 DEF EmbedBatch
  <2>4. CASE Upload(c)
    <3>1. PICK written \in SUBSET Docs : WriteMetadata(c, written)
      BY <2>4 DEF Upload
    <3>2. torn' \subseteq torn \cup DocsIn(Payloads(docs[c]))
      BY <3>1 DEF WriteMetadata
    <3>3. DocsIn(Payloads(docs[c])) \subseteq Docs
      <4> DEFINE payloads == Payloads(docs[c])
      <4>1. payloads \in Seq(Payload)
        BY PayloadsComplete DEF ReadingTyped
      <4> HIDE DEF payloads
      <4>2. \A i \in DOMAIN payloads : payloads[i].doc \in Docs
        <5>1. \A i \in DOMAIN payloads : payloads[i] \in Payload
          BY <4>1
        <5>2. \A x \in Payload : x.doc \in Docs
          BY DEF Payload
        <5> QED BY <5>1, <5>2
      <4>3. DocsIn(payloads) \subseteq Docs
        BY <4>2 DEF DocsIn
      <4> QED BY <4>3 DEF payloads
    <3>4. uploads' = uploads + 1 /\ uploads < MaxUploads /\ Leave(c)
          /\ UNCHANGED <<now, size, embedDim, restarts>>
      BY <2>4 DEF Upload, Upsert
    <3>5. uploads' <= MaxUploads
      BY <3>4, Limits DEF Typed
    <3> QED BY <3>2, <3>3, <3>4, <3>5, LeavingBounded
  <2>5. CASE UploadRefused(c)
    BY <2>5, LeavingBounded DEF UploadRefused
  <2>6. CASE Query(c)
    BY <2>6 DEF Query, EnsureCollection
  <2>7. CASE QueryProbed(c)
    BY <2>0, <2>7 DEF QueryProbed, EnsureCollection
  <2>8. CASE Search(c)
    <3>1. \A d \in Calls : searched'[d] <= MaxTime
      BY <2>8 DEF Search, Typed
    <3> QED BY <2>8, <3>1 DEF Search
  <2>9. CASE SearchRefused(c)
    BY <2>9, LeavingBounded DEF SearchRefused
  <2>10. CASE Answer(c)
    BY <2>10, LeavingBounded DEF Answer
  <2>11. CASE Prewarm(c)
    BY <2>11 DEF Prewarm
  <2>12. CASE Prewarmed(c)
    BY <2>0, <2>12, LeavingBounded DEF Prewarmed
  <2>13. CASE Fail(c)
    BY <2>13, LeavingBounded DEF Fail
  <2> QED BY <1>2, <2>1, <2>2, <2>3, <2>4, <2>5, <2>6, <2>7, <2>8, <2>9, <2>10, <2>11, <2>12, <2>13
             DEF IndexCall, QueryCall
<1>3. CASE ClearCache \/ Optimize
  BY <1>3 DEF ClearCache, Optimize
<1>4. CASE Restart
  <2>1. restarts' = restarts + 1 /\ restarts < MaxRestarts
    BY <1>4 DEF Restart
  <2>2. restarts' \in 0..MaxRestarts
    BY <2>1, Limits
  <2>3. embedDim' \in Dims
    BY <1>4 DEF Restart, Typed, Dims
  <2>4. 0 <= MaxTime
    BY Limits
  <2>5. /\ sent' = [c \in Calls |-> 0] /\ searched' = [c \in Calls |-> 0]
        /\ UNCHANGED <<now, size, uploads, torn>>
    BY <1>4 DEF Restart
  <2> QED BY <2>2, <2>3, <2>4, <2>5
<1>5. CASE Tick
  <2>1. now' = now + 1 /\ now < MaxTime
    BY <1>5 DEF Tick
  <2>2. now' <= MaxTime
    BY <2>1, Limits DEF Typed
  <2> QED BY <1>5, <2>2 DEF Tick
<1>6. ASSUME NEW d \in Docs, Edit(d) PROVE Bounded'
  BY <1>6 DEF Edit
<1>7. ASSUME NEW m \in Models, Reload(m) PROVE Bounded'
  BY <1>7 DEF Reload
<1> QED BY <1>1, <1>2, <1>3, <1>4, <1>5, <1>6, <1>7 DEF Next

\* Every variable keeps its type: the collection and EMBED_DIM have the dimension
\* of one of the models, points are about uploads there have been, and so is the
\* metadata.
THEOREM TypeCorrect == Spec => []TypeOK
<1>1. IInv /\ Whole /\ Bounded => TypeOK
  <2> SUFFICES ASSUME IInv, Whole, Bounded PROVE TypeOK
    OBVIOUS
  <2> DEFINE Kept == [doc : Docs, text : Nat, chunk : Nat, upload : 1..MaxUploads]
  <2>1. points \in Seq(Kept)
    <3>1. points \in Seq(Point) /\ \A i \in DOMAIN points : points[i].upload <= uploads
      BY DEF Whole, PointsTyped
    <3>2. uploads \in Nat /\ uploads <= MaxUploads
      BY DEF IInv, Typed, Bounded
    <3>3. \A x \in Point : x.upload <= uploads => x \in Kept
      BY <3>2, Limits DEF Point
    <3>4. \A i \in DOMAIN points : points[i] \in Kept
      BY <3>1, <3>3
    <3> HIDE DEF Kept
    <3> QED BY <3>1, <3>4
  <2>2. /\ now \in 0..MaxTime /\ uploads \in 0..MaxUploads
        /\ searched \in [Calls -> 0..MaxTime]
    <3>1. now \in Nat /\ now <= MaxTime /\ uploads \in Nat /\ uploads <= MaxUploads
      BY DEF IInv, Typed, Bounded
    <3>2. searched \in [Calls -> Nat] /\ \A c \in Calls : searched[c] <= MaxTime
      BY DEF IInv, Typed, Bounded
    <3>3. \A c \in Calls : searched[c] \in 0..MaxTime
      BY <3>2, Limits
    <3> QED BY <3>1, <3>2, <3>3, Limits
  <2>3. uploaded \in Metadata /\ meta \in Metadata
    <3>1. /\ uploaded \in [Docs -> Nat] /\ meta \in [Docs -> Nat]
          /\ uploads \in Nat /\ uploads <= MaxUploads
          /\ \A d \in Docs : meta[d] <= uploaded[d] /\ uploaded[d] <= uploads
      BY DEF IInv, Typed, Followed, Bounded
    <3>2. \A d \in Docs : uploaded[d] \in 0..MaxUploads /\ meta[d] \in 0..MaxUploads
      BY <3>1, Limits
    <3> QED BY <3>1, <3>2 DEF Metadata
  <2>4. /\ disk \in [Docs -> Nat] /\ serving \in Models
        /\ {size, embedDim} \subseteq {Dim[m] : m \in Models} \cup {0}
        /\ torn \subseteq Docs
        /\ cache = NoEntry \/ cache \in Entry
        /\ sent \in [Calls -> Nat] /\ vecs \in [Calls -> SUBSET Models]
        /\ restarts \in 0..MaxRestarts
    BY DEF IInv, Typed, Recent, Whole, ReadingTyped, Bounded, Dims
  <2>5. step \in [Calls -> Steps]
    BY DEF IInv, Typed
  <2> QED BY <2>1, <2>2, <2>3, <2>4, <2>5 DEF TypeOK, Steps
<1>2. IInv /\ Whole => Typed /\ ReadingTyped
  BY DEF IInv, Whole
<1> QED BY <1>1, <1>2, Invariant, Wholeness, BoundedInit, BoundedStep, PTL DEF Spec
=============================================================================
