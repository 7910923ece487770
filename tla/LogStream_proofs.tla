-------------------------- MODULE LogStream_proofs --------------------------
(***************************************************************************)
(* Proofs about LogStream, for any number of services, readers, texts and  *)
(* appends and whatever the limits: memory is bounded and keeps the most   *)
(* recent services, what is kept begins behind a line break, a stream      *)
(* never sleeps through output and leaves no subscription behind, and what *)
(* a reader shows has neither hole nor repetition.                         *)
(*                                                                         *)
(* And about LogClients, for any number of pages and of logcats: the page  *)
(* shows what the daemon keeps, the last lines are the last lines, and     *)
(* nothing is printed twice.                                               *)
(***************************************************************************)
EXTENDS LogClients, FiniteSetTheorems, WellFoundedInduction, TLAPS

(***************************************************************************)
(* Numbers.                                                                *)
(***************************************************************************)

\* A set of numbers has a least one: the smallest of the intervals that they
\* end.
LEMMA Least ==
  ASSUME NEW T \in SUBSET Nat, T # {}
  PROVE  \E x \in T : \A y \in T : x <= y
<1> DEFINE I(x) == 0..x
           F == {I(x) : x \in T}
           R == StrictSubsetOrdering(Nat)
<1>1. F \subseteq FiniteSubsetsOf(Nat) /\ F # {}
  <2>1. ASSUME NEW x \in T PROVE IsFiniteSet(I(x)) /\ I(x) \subseteq Nat
    BY FS_Interval
  <2>2. QED
    BY <2>1 DEF FiniteSubsetsOf
<1>2. PICK s \in F : \A t \in F : <<t, s>> \notin R
  <2> HIDE DEF F, R
  <2>1. IsWellFoundedOn(R, FiniteSubsetsOf(Nat))
    BY FS_StrictSubsetOrderingWellFounded DEF R
  <2>2. QED
    BY <1>1, <2>1, WFMin
<1>3. PICK x \in T : s = I(x)
  OBVIOUS
<1>4. ASSUME NEW y \in T, y < x PROVE FALSE
  <2>1. I(y) \subseteq I(x) /\ I(y) # I(x)
    BY <1>4
  <2>2. I(x) \subseteq Nat
    OBVIOUS
  <2>3. <<I(y), I(x)>> \in R
    BY <2>1, <2>2 DEF StrictSubsetOrdering
  <2>4. QED
    BY <1>2, <1>3, <2>3
<1>5. QED
  BY <1>4

\* Counting upwards, one comes by every number of elements, at an element.
LEMMA Count ==
  ASSUME NEW m \in Nat, NEW S \in SUBSET (0..(m - 1)), NEW e \in Nat,
         1 <= e, e <= Cardinality(S)
  PROVE  \E n \in S : Cardinality({i \in S : i < n + 1}) = e
<1> DEFINE Below(x) == {i \in S : i < x}
           C(x) == Cardinality(Below(x))
           T == {x \in Nat : e <= C(x)}
<1>1. IsFiniteSet(S) /\ \A i \in S : i \in Nat /\ i < m
  <2>1. m - 1 \in Int
    OBVIOUS
  <2>2. IsFiniteSet(0..(m - 1))
    BY <2>1, FS_Interval
  <2>3. \A i \in S : i \in 0..(m - 1)
    OBVIOUS
  <2>4. IsFiniteSet(S)
    BY <2>2, FS_Subset
  <2>5. QED
    BY <2>3, <2>4
<1>2. \A x : IsFiniteSet(Below(x)) /\ C(x) \in Nat
  BY <1>1, FS_Subset, FS_CardinalityType
<1>3. Below(m) = S /\ Below(0) = {}
  <2>1. \A i \in S : i < m /\ ~(i < 0)
    BY <1>1
  <2>2. QED
    BY <2>1
<1>4. m \in T /\ 0 \notin T
  BY <1>3, FS_EmptySet
<1>5. PICK x \in T : \A y \in T : x <= y
  <2>1. T \in SUBSET Nat /\ T # {}
    BY <1>4
  <2> HIDE DEF T
  <2>2. QED
    BY <2>1, Least
<1>6. PICK n \in Nat : x = n + 1
  <2>1. x \in Nat /\ x # 0
    BY <1>4
  <2>2. x - 1 \in Nat /\ x = (x - 1) + 1
    BY <2>1
  <2>3. QED
    BY <2>2
<1>7. C(n) < e /\ e <= C(n + 1)
  <2>1. n \notin T /\ n + 1 \in T
    BY <1>5, <1>6
  <2> HIDE DEF C
  <2>2. ~(e <= C(n)) /\ e <= C(n + 1)
    BY <2>1
  <2>3. C(n) \in Nat
    BY <1>2 DEF C
  <2>4. QED
    BY <2>2, <2>3
<1>8. n \in S /\ Below(n + 1) = Below(n) \cup {n} /\ n \notin Below(n)
  <2>1. \A i \in S : i < n + 1 <=> i < n \/ i = n
    BY <1>1
  <2>2. n \notin S => Below(n + 1) = Below(n)
    BY <2>1
  <2>3. Below(n + 1) # Below(n)
    <3> HIDE DEF Below
    <3>1. C(n) \in Nat /\ C(n + 1) \in Nat
      BY <1>2
    <3>2. QED
      BY <1>7, <3>1
  <2>4. QED
    BY <2>1, <2>2, <2>3
<1>9. C(n + 1) = C(n) + 1
  <2> HIDE DEF Below
  <2>1. QED
    BY <1>2, <1>8, FS_AddElement
<1>10. C(n + 1) = e
  <2> HIDE DEF C
  <2>1. C(n) \in Nat
    BY <1>2
  <2>2. QED
    BY <1>7, <1>9, <2>1
<1>11. QED
  BY <1>8, <1>10

\* A set of numbers with a bound has a greatest one.
LEMMA Greatest ==
  ASSUME NEW n \in Nat, NEW T \in SUBSET Nat, T # {}, \A x \in T : x <= n
  PROVE  \E x \in T : \A y \in T : y <= x
<1> DEFINE D == {n - x : x \in T}
<1>1. D \in SUBSET Nat
  <2>1. ASSUME NEW x \in T PROVE n - x \in Nat
    OBVIOUS
  <2>2. QED
    BY <2>1
<1>2. D # {}
  OBVIOUS
<1>3. PICK d \in D : \A e \in D : d <= e
  <2> HIDE DEF D
  <2>1. QED
    BY <1>1, <1>2, Least
<1>4. PICK x \in T : d = n - x
  OBVIOUS
<1>5. ASSUME NEW y \in T PROVE y <= x
  <2>1. n - x <= n - y
    BY <1>3, <1>4
  <2>2. x \in Nat /\ y \in Nat
    OBVIOUS
  <2>3. QED
    BY <2>1, <2>2
<1>6. QED
  BY <1>5

\* Counting downwards, too.
LEMMA CountDown ==
  ASSUME NEW m \in Nat, NEW S \in SUBSET (0..(m - 1)), NEW n \in Nat,
         1 <= n, n <= Cardinality(S)
  PROVE  \E x \in S : Cardinality({j \in S : j >= x}) = n
<1>1. IsFiniteSet(S) /\ Cardinality(S) \in Nat /\ \A j \in S : j \in Nat
  <2>1. m - 1 \in Int
    OBVIOUS
  <2>2. IsFiniteSet(0..(m - 1))
    BY <2>1, FS_Interval
  <2>3. IsFiniteSet(S)
    BY <2>2, FS_Subset
  <2>4. Cardinality(S) \in Nat
    BY <2>3, FS_CardinalityType
  <2>5. QED
    BY <2>3, <2>4
<1> DEFINE K == Cardinality(S)
           e == K - n + 1
<1>2. e \in Nat /\ 1 <= e /\ e <= K
  BY <1>1
<1>3. PICK x \in S : Cardinality({j \in S : j < x + 1}) = e
  <2> HIDE DEF e
  <2>1. QED
    BY <1>2, Count
<1> DEFINE low == {j \in S : j < x}
           high == {j \in S : j >= x}
<1>4. {j \in S : j < x + 1} = low \cup {x} /\ x \notin low
  <2>1. \A j \in S : j < x + 1 <=> j < x \/ j = x
    BY <1>1
  <2>2. ~(x < x)
    BY <1>1
  <2>3. QED
    BY <2>1, <2>2
<1>5. IsFiniteSet(low) /\ Cardinality(low) \in Nat
  BY <1>1, FS_Subset, FS_CardinalityType
<1>6. Cardinality(low) + 1 = e
  <2> HIDE DEF low, e
  <2>1. Cardinality(low \cup {x}) = Cardinality(low) + 1
    BY <1>4, <1>5, FS_AddElement
  <2>2. QED
    BY <1>3, <1>4, <2>1
<1>7. high = S \ low /\ S \cap low = low
  <2>1. \A j \in S : j >= x <=> ~(j < x)
    BY <1>1
  <2>2. QED
    BY <2>1
<1>8. Cardinality(S \ low) = K - Cardinality(low)
  <2> HIDE DEF low, high
  <2>1. Cardinality(S \ low) = K - Cardinality(S \cap low)
    BY <1>1, FS_Difference
  <2>2. QED
    BY <1>7, <2>1
<1>9. Cardinality(high) = n
  <2> HIDE DEF low, high
  <2>1. QED
    BY <1>1, <1>5, <1>6, <1>7, <1>8
<1>10. QED
  BY <1>9

\* No two elements have the same number of elements from them on.
LEMMA CountOnce ==
  ASSUME NEW S, IsFiniteSet(S), S \subseteq Nat, NEW x \in S, NEW y \in S,
         Cardinality({j \in S : j >= x}) = Cardinality({j \in S : j >= y})
  PROVE  x = y
<1>1. ASSUME NEW u \in S, NEW v \in S, u < v,
             Cardinality({j \in S : j >= u}) = Cardinality({j \in S : j >= v})
      PROVE  FALSE
  <2> DEFINE U == {j \in S : j >= u}
             V == {j \in S : j >= v}
  <2>1. V \subseteq U /\ u \in U /\ u \notin V
    <3>1. u \in Nat /\ v \in Nat /\ u >= u /\ ~(u >= v)
      BY <1>1
    <3>2. \A j \in S : j >= v => j >= u
      BY <1>1, <3>1
    <3>3. QED
      BY <3>1, <3>2
  <2>2. IsFiniteSet(U)
    BY FS_Subset
  <2>3. Cardinality(U) = Cardinality(V)
    BY <1>1
  <2> HIDE DEF U, V
  <2>4. U = V
    BY <2>1, <2>2, <2>3, FS_Subset
  <2>5. QED
    BY <2>1, <2>4
<1>2. x \in Nat /\ y \in Nat
  OBVIOUS
<1>3. QED
  BY <1>1, <1>2

\* A line that is shifted by one counts as it did.
LEMMA CountShifted ==
  ASSUME NEW S, IsFiniteSet(S), S \subseteq Nat
  PROVE  /\ IsFiniteSet({j + 1 : j \in S})
         /\ Cardinality({j + 1 : j \in S}) = Cardinality(S)
<1> DEFINE T == {j + 1 : j \in S}
           f == [j \in S |-> j + 1]
<1>1. f \in Bijection(S, T)
  <2>1. f \in [S -> T]
    OBVIOUS
  <2>2. \A i, j \in S : f[i] = f[j] => i = j
    OBVIOUS
  <2>3. \A t \in T : \E j \in S : f[j] = t
    OBVIOUS
  <2> HIDE DEF T, f
  <2>4. QED
    BY <2>1, <2>2, <2>3 DEF Bijection, Injection, Surjection, IsInjective
<1>2. ExistsBijection(S, T)
  BY <1>1 DEF ExistsBijection
<1> HIDE DEF T
<1>3. IsFiniteSet(T) /\ Cardinality(T) = Cardinality(S)
  BY <1>2, FS_Bijection
<1>4. QED
  BY <1>3 DEF T

(***************************************************************************)
(* Buffers.                                                                *)
(***************************************************************************)

BufferOK(b) ==
  /\ b \in Entries
  /\ b.start <= b.end
  /\ b.newlines \subseteq b.start..(b.end - 1)

LEMMA BufferFacts ==
  ASSUME NEW b, BufferOK(b)
  PROVE  /\ b.start \in Nat /\ b.end \in Nat /\ Size(b) \in Nat
         /\ b.newlines \subseteq Nat
         /\ b.newlines \subseteq 0..(b.end - 1)
         /\ IsFiniteSet(b.newlines) /\ Cardinality(b.newlines) \in Nat
         /\ Lines(b) \in Nat
<1>1. b.start \in Nat /\ b.end \in Nat /\ b.newlines \in SUBSET Nat
  BY DEF BufferOK, Entries
<1>2. b.newlines \subseteq 0..(b.end - 1)
  BY <1>1 DEF BufferOK
<1>3. IsFiniteSet(b.newlines) /\ Cardinality(b.newlines) \in Nat
  <2>1. b.end - 1 \in Int
    BY <1>1
  <2>2. IsFiniteSet(0..(b.end - 1))
    BY <2>1, FS_Interval
  <2>3. QED
    BY <1>2, <2>2, FS_Subset, FS_CardinalityType
<1>4. QED
  BY <1>1, <1>2, <1>3 DEF Size, Lines, BufferOK

LEMMA ExtendedOK ==
  ASSUME NEW b, BufferOK(b), NEW text \in Texts
  PROVE  /\ BufferOK(Extended(b, text))
         /\ Extended(b, text).start = b.start
         /\ Extended(b, text).end = b.end + text.len
         /\ Extended(b, text).used = b.used /\ Extended(b, text).epoch = b.epoch
<1>1. text.len \in Nat /\ text.newlines \subseteq 1..text.len
  BY TextsAssumption
<1> DEFINE more == {b.end + i - 1 : i \in text.newlines}
           x == Extended(b, text)
<1>2. b \in Entries /\ b.start \in Nat /\ b.end \in Nat
  BY BufferFacts DEF BufferOK
<1>3. more \subseteq b.end..(b.end + text.len - 1)
  BY <1>1, <1>2
<1>4. more \subseteq Nat
  BY <1>1, <1>2
<1> DEFINE e == b.end + text.len
           N == b.newlines \cup more
<1>5. x = [b EXCEPT !.end = e, !.newlines = N]
  BY DEF Extended
<1>6. e \in Nat /\ N \in SUBSET Nat
  <2> HIDE DEF more
  <2>1. b.newlines \subseteq Nat
    BY BufferFacts
  <2>2. e \in Nat
    BY <1>1, <1>2
  <2>3. QED
    BY <1>4, <2>1, <2>2
<1>7. x \in Entries /\ x.start = b.start /\ x.end = e /\ x.newlines = N
      /\ x.used = b.used /\ x.epoch = b.epoch
  <2> HIDE DEF e, N, x
  <2>1. QED
    BY <1>2, <1>5, <1>6 DEF Entries
<1>8. b.start <= e /\ N \subseteq b.start..(e - 1)
  <2> HIDE DEF more
  <2>1. b.start <= b.end /\ b.newlines \subseteq b.start..(b.end - 1)
    BY DEF BufferOK
  <2>2. b.start <= e /\ b.start..(b.end - 1) \subseteq b.start..(e - 1)
        /\ b.end..(b.end + text.len - 1) \subseteq b.start..(e - 1)
    BY <1>1, <1>2, <2>1
  <2>3. QED
    BY <1>3, <2>1, <2>2
<1>9. BufferOK(x)
  <2> HIDE DEF e, N, x
  <2>1. QED
    BY <1>7, <1>8 DEF BufferOK
<1>10. QED
  BY <1>7, <1>9

LEMMA CutFacts ==
  ASSUME NEW b, BufferOK(b), NEW c \in Nat
  PROVE  /\ CutAt(b, c) \in Entries
         /\ CutAt(b, c).start = c /\ CutAt(b, c).end = b.end
         /\ CutAt(b, c).newlines = {n \in b.newlines : n >= c}
         /\ CutAt(b, c).used = b.used /\ CutAt(b, c).epoch = b.epoch
         /\ b.start <= c /\ c <= b.end => BufferOK(CutAt(b, c))
<1> DEFINE x == CutAt(b, c)
<1>1. /\ x \in Entries
      /\ x.start = c /\ x.end = b.end
      /\ x.newlines = {n \in b.newlines : n >= c}
      /\ x.used = b.used /\ x.epoch = b.epoch
  <2> DEFINE N == {n \in b.newlines : n >= c}
  <2>1. b \in Entries /\ N \in SUBSET Nat
    BY BufferFacts DEF BufferOK
  <2>2. x = [b EXCEPT !.start = c, !.newlines = N]
    BY DEF CutAt
  <2> HIDE DEF N, x
  <2>3. /\ x \in Entries /\ x.start = c /\ x.end = b.end /\ x.newlines = N
        /\ x.used = b.used /\ x.epoch = b.epoch
    BY <2>1, <2>2 DEF Entries
  <2>4. QED
    BY <2>3 DEF N
<1>2. b.start <= c /\ c <= b.end => BufferOK(x)
  <2> HIDE DEF x
  <2>1. b.newlines \subseteq b.start..(b.end - 1) /\ b.start \in Nat /\ b.end \in Nat
    BY BufferFacts DEF BufferOK
  <2>2. QED
    BY <1>1, <2>1 DEF BufferOK
<1>3. QED
  BY <1>1, <1>2

\* The cut by lines.
LEMMA LineCutOK ==
  ASSUME NEW b, BufferOK(b)
  PROVE  /\ LineCut(b) \in Nat
         /\ b.start <= LineCut(b) /\ LineCut(b) <= b.end
         /\ LineCut(b) # b.start => LineCut(b) - 1 \in b.newlines /\ LineCut(b) < b.end
         /\ Lines(CutAt(b, LineCut(b))) <= MaxLines
<1> DEFINE N == b.newlines
           K == Cardinality(N)
           excess == Lines(b) - MaxLines
           c == LineCut(b)
           x == CutAt(b, c)
<1>1. /\ b.start \in Nat /\ b.end \in Nat /\ b.start <= b.end
      /\ N \subseteq 0..(b.end - 1) /\ N \subseteq b.start..(b.end - 1)
      /\ IsFiniteSet(N) /\ K \in Nat /\ Lines(b) \in Nat
  BY BufferFacts DEF BufferOK
<1>2. MaxLines \in Nat /\ 1 <= MaxLines
  BY LimitsAssumption
<1>3. Lines(b) = K + (IF Size(b) > 0 /\ b.end - 1 \notin N THEN 1 ELSE 0)
  BY DEF Lines
<1>4. Lines(x) = Cardinality(x.newlines)
                   + (IF Size(x) > 0 /\ x.end - 1 \notin x.newlines THEN 1 ELSE 0)
  BY DEF Lines
<1>5. CASE excess <= 0
  <2>1. c = b.start
    BY <1>5 DEF LineCut
  <2>2. x.start = b.start /\ x.end = b.end /\ x.newlines = {n \in N : n >= b.start}
    <3> HIDE DEF c
    <3>1. c \in Nat
      BY <1>1, <2>1
    <3>2. QED
      BY <2>1, <3>1, CutFacts
  <2>a. x.newlines = N
    BY <1>1, <2>2
  <2>3. Lines(x) = Lines(b)
    BY <1>3, <1>4, <2>2, <2>a DEF Size
  <2>4. QED
    BY <1>1, <1>2, <1>5, <2>1, <2>3
<1>6. CASE excess > 0
  <2>1. excess \in Nat /\ 1 <= excess /\ excess <= K
    BY <1>1, <1>2, <1>3, <1>6
  <2>2. PICK n \in N : Cardinality({i \in N : i < n + 1}) = excess
    <3> HIDE DEF excess
    <3>1. QED
      BY <1>1, <2>1, Count
  <2>3. /\ c \in {i + 1 : i \in N}
        /\ Cardinality({i \in N : i < c}) = excess
    <3> DEFINE Right(k) == Cardinality({i \in N : i < k}) = excess
    <3>1. \E k \in {i + 1 : i \in N} : Right(k)
      BY <2>2
    <3>2. c = CHOOSE k \in {i + 1 : i \in N} : Right(k)
      <4>1. ~(excess <= 0)
        BY <1>1, <1>2, <1>6
      <4>2. QED
        BY <4>1 DEF LineCut
    <3> HIDE DEF c, Right
    <3>3. c \in {i + 1 : i \in N} /\ Right(c)
      BY <3>1, <3>2
    <3>4. QED
      BY <3>3 DEF Right
  <2>4. PICK j \in N : c = j + 1
    BY <2>3
  <2>5. c \in Nat /\ b.start <= c /\ c <= b.end /\ c - 1 = j
    BY <1>1, <2>4
  <2>6. x.start = c /\ x.end = b.end /\ x.newlines = {i \in N : i >= c}
    BY <2>5, CutFacts
  <2>7. Cardinality(x.newlines) = K - excess
    <3> DEFINE low == {i \in N : i < c}
    <3>1. x.newlines = N \ low /\ N \cap low = low
      BY <1>1, <2>5, <2>6
    <3>2. Cardinality(low) = excess
      BY <2>3
    <3> HIDE DEF low, x, excess, c
    <3>3. Cardinality(N \ low) = K - Cardinality(N \cap low)
      BY <1>1, FS_Difference
    <3>4. QED
      BY <3>1, <3>2, <3>3
  <2>8. CASE b.end - 1 \in N
    <3>1. Size(x) > 0 => x.end - 1 \in x.newlines
      BY <1>1, <2>5, <2>6, <2>8 DEF Size
    <3>2. Lines(x) = K - excess /\ Lines(b) = K
      BY <1>1, <1>3, <1>4, <2>1, <2>7, <2>8, <3>1
    <3>3. c # b.end
      <4>1. \E i \in N : i >= c
        <5>1. x.newlines # {}
          <6> HIDE DEF x
          <6>1. Cardinality(x.newlines) = MaxLines
            BY <1>1, <1>2, <2>7, <3>2
          <6>2. Cardinality(x.newlines) # 0
            BY <1>2, <6>1
          <6>3. QED
            BY <6>2, FS_EmptySet
        <5>2. QED
          BY <2>6, <5>1
      <4>2. QED
        BY <1>1, <2>5, <4>1
    <3>4. c < b.end
      BY <1>1, <2>5, <3>3
    <3>5. Lines(x) <= MaxLines
      BY <1>1, <1>2, <3>2
    <3>6. QED
      BY <2>4, <2>5, <3>4, <3>5
  <2>9. CASE b.end - 1 \notin N
    <3>1. Size(b) > 0
      BY <1>1, <2>4 DEF Size
    <3>2. Lines(b) = K + 1
      BY <1>3, <2>9, <3>1
    <3>3. Lines(x) <= K - excess + 1
      BY <1>1, <1>4, <2>1, <2>7
    <3>4. c < b.end
      BY <1>1, <2>4, <2>9
    <3>5. Lines(x) <= MaxLines
      BY <1>1, <1>2, <3>2, <3>3
    <3>6. QED
      BY <2>4, <2>5, <3>4, <3>5
  <2>10. QED
    BY <2>8, <2>9
<1>7. QED
  BY <1>1, <1>2, <1>5, <1>6

\* The later the cut, the fewer lines.
LEMMA FewerLines ==
  ASSUME NEW b, BufferOK(b), NEW c \in Nat, NEW d \in Nat,
         b.start <= c, c <= d, d <= b.end
  PROVE  Lines(CutAt(b, d)) <= Lines(CutAt(b, c))
<1> DEFINE N == b.newlines
           x == CutAt(b, c)
           y == CutAt(b, d)
<1>1. /\ x.start = c /\ x.end = b.end /\ x.newlines = {n \in N : n >= c}
      /\ y.start = d /\ y.end = b.end /\ y.newlines = {n \in N : n >= d}
      /\ b.end \in Nat /\ N \subseteq Nat /\ IsFiniteSet(N)
  <2>1. x.start = c /\ x.end = b.end /\ x.newlines = {n \in N : n >= c}
    BY CutFacts
  <2>2. y.start = d /\ y.end = b.end /\ y.newlines = {n \in N : n >= d}
    BY CutFacts
  <2>3. b.end \in Nat /\ N \subseteq Nat /\ IsFiniteSet(N)
    BY BufferFacts
  <2>4. QED
    BY <2>1, <2>2, <2>3
<1>2. Lines(x) = Cardinality(x.newlines)
                   + (IF Size(x) > 0 /\ x.end - 1 \notin x.newlines THEN 1 ELSE 0)
  BY DEF Lines
<1>3. Lines(y) = Cardinality(y.newlines)
                   + (IF Size(y) > 0 /\ y.end - 1 \notin y.newlines THEN 1 ELSE 0)
  BY DEF Lines
<1> HIDE DEF x, y
<1>4. /\ Size(y) > 0 => Size(x) > 0
      /\ Size(y) > 0 /\ y.end - 1 \notin y.newlines => x.end - 1 \notin x.newlines
  BY <1>1 DEF Size
<1>5. Cardinality(y.newlines) <= Cardinality(x.newlines)
      /\ Cardinality(y.newlines) \in Nat /\ Cardinality(x.newlines) \in Nat
  <2>1. x.newlines \subseteq N /\ y.newlines \subseteq x.newlines
    BY <1>1
  <2>2. QED
    BY <1>1, <2>1, FS_Subset, FS_CardinalityType
<1>6. Lines(y) <= Lines(x)
  BY <1>2, <1>3, <1>4, <1>5
<1>7. QED
  BY <1>6 DEF x, y

\* The cut by bytes: its line break has something behind it, or there is none
\* that has.
LEMMA ByteCutOK ==
  ASSUME NEW b, BufferOK(b), Size(b) > MaxBytes
  PROVE  /\ ByteCut(b) \in Nat
         /\ b.start < ByteCut(b) /\ ByteCut(b) < b.end
         /\ b.end - ByteCut(b) <= MaxBytes
         /\ \/ ByteCut(b) - 1 \in b.newlines
            \/ CutAt(b, ByteCut(b)).newlines \subseteq {b.end - 1}
<1> DEFINE N == b.newlines
           raw == b.end - MaxBytes
           breaks == {n \in N : n >= raw}
           First(n) == n \in breaks /\ (\A m \in breaks : n <= m) /\ n + 1 < b.end
           c == ByteCut(b)
           x == CutAt(b, c)
<1>1. /\ b.start \in Nat /\ b.end \in Nat
      /\ N \subseteq Nat /\ N \subseteq b.start..(b.end - 1)
      /\ IsFiniteSet(N) /\ Cardinality(N) \in Nat
      /\ MaxBytes \in Nat /\ 1 <= MaxBytes
  BY BufferFacts, LimitsAssumption DEF BufferOK
<1>2. raw \in Nat /\ b.start < raw /\ raw < b.end
  BY <1>1 DEF Size
<1>3. c = IF \E n \in breaks : First(n) THEN (CHOOSE n \in breaks : First(n)) + 1 ELSE raw
  BY DEF ByteCut
<1>4. /\ c \in Nat /\ b.start < c /\ c < b.end /\ b.end - c <= MaxBytes
      /\ \/ c - 1 \in N
         \/ {n \in N : n >= c} \subseteq {b.end - 1}
  <2>1. CASE \E n \in breaks : First(n)
    <3> DEFINE n == CHOOSE n \in breaks : First(n)
    <3>1. n \in breaks /\ n + 1 < b.end
      BY <2>1
    <3>2. c = n + 1
      BY <1>3, <2>1
    <3> HIDE DEF n
    <3>3. n \in N /\ n \in Nat /\ n >= raw
      BY <1>1, <3>1
    <3> HIDE DEF breaks, c
    <3>4. QED
      BY <1>1, <1>2, <3>1, <3>2, <3>3
  <2>2. CASE ~\E n \in breaks : First(n)
    <3>1. c = raw
      BY <1>3, <2>2
    <3>2. ASSUME NEW i \in breaks PROVE i = b.end - 1
      <4>1. breaks \in SUBSET Nat /\ breaks # {}
        BY <1>1, <3>2
      <4>2. PICK n \in breaks : \A m \in breaks : n <= m
        <5> HIDE DEF breaks
        <5>1. QED
          BY <4>1, Least
      <4>3. ~(n + 1 < b.end)
        BY <2>2, <4>2
      <4>4. n <= i /\ n \in Nat /\ i \in Nat /\ i <= b.end - 1
        BY <1>1, <4>2
      <4>5. QED
        BY <1>1, <4>3, <4>4
    <3>3. QED
      BY <1>1, <1>2, <3>1, <3>2
  <2>3. QED
    BY <2>1, <2>2
<1> HIDE DEF c
<1>5. x.newlines = {n \in N : n >= c}
  BY <1>4, CutFacts
<1>6. QED
  BY <1>4, <1>5 DEF c

\* What trim keeps of a buffer.
LEMMA TrimOK ==
  ASSUME NEW b, BufferOK(b)
  PROVE  /\ BufferOK(Trim(b))
         /\ b.start <= Trim(b).start /\ Trim(b).end = b.end
         /\ Trim(b).used = b.used /\ Trim(b).epoch = b.epoch
         /\ Lines(Trim(b)) <= MaxLines /\ Size(Trim(b)) <= MaxBytes
         /\ b.start < b.end => Trim(b).start < b.end
         /\ \/ Trim(b).start = b.start
            \/ Trim(b).start - 1 \in b.newlines
            \/ Trim(b).newlines \subseteq {Trim(b).end - 1}
<1> DEFINE c == LineCut(b)
           d == ByteCut(b)
           l == CutAt(b, c)
           t == CutAt(b, d)
<1>1. /\ b.start \in Nat /\ b.end \in Nat /\ b.start <= b.end
      /\ MaxBytes \in Nat /\ MaxLines \in Nat
  BY BufferFacts, LimitsAssumption DEF BufferOK
<1>2. /\ c \in Nat /\ b.start <= c /\ c <= b.end
      /\ c = b.start \/ (c - 1 \in b.newlines /\ c < b.end)
      /\ Lines(l) <= MaxLines
  BY LineCutOK
<1>3. /\ Size(l) > MaxBytes => Trim(b) = t
      /\ ~(Size(l) > MaxBytes) => Trim(b) = l
  BY DEF Trim
<1> HIDE DEF c, d
<1>4. /\ BufferOK(l) /\ l.start = c /\ l.end = b.end
      /\ l.used = b.used /\ l.epoch = b.epoch
  BY <1>2, CutFacts
<1>5. CASE Size(l) > MaxBytes
  <2>1. Size(b) > MaxBytes
    BY <1>1, <1>2, <1>4, <1>5 DEF Size
  <2>2. /\ d \in Nat /\ b.start < d /\ d < b.end /\ b.end - d <= MaxBytes
        /\ d - 1 \in b.newlines \/ t.newlines \subseteq {b.end - 1}
    BY <2>1, ByteCutOK DEF d
  <2>3. c <= d
    BY <1>1, <1>2, <1>4, <1>5, <2>2 DEF Size
  <2>4. /\ BufferOK(t) /\ t.start = d /\ t.end = b.end
        /\ t.used = b.used /\ t.epoch = b.epoch
    BY <1>1, <2>2, CutFacts
  <2>5. Lines(t) <= Lines(l) /\ Lines(t) \in Nat /\ Lines(l) \in Nat
    BY <1>1, <1>2, <1>4, <2>2, <2>3, <2>4, FewerLines, BufferFacts
  <2>6. Trim(b) = t
    BY <1>3, <1>5
  <2> HIDE DEF t, l
  <2>7. QED
    BY <1>1, <1>2, <2>2, <2>4, <2>5, <2>6 DEF Size
<1>6. CASE ~(Size(l) > MaxBytes)
  <2>1. Trim(b) = l
    BY <1>3, <1>6
  <2>2. Size(l) \in Nat
    BY <1>4, BufferFacts
  <2> HIDE DEF l
  <2>3. QED
    BY <1>1, <1>2, <1>4, <1>6, <2>1, <2>2
<1>7. QED
  BY <1>5, <1>6

(***************************************************************************)
(* The store.                                                              *)
(***************************************************************************)

\* An entry was used when its service last appended, which no two did at the
\* same time.
StoreInv ==
  /\ DOMAIN entries \subseteq Services
  /\ IsFiniteSet(DOMAIN entries) /\ Cardinality(DOMAIN entries) <= MaxServices
  /\ \A k \in DOMAIN entries :
       /\ BufferOK(entries[k])
       /\ Lines(entries[k]) <= MaxLines /\ Size(entries[k]) <= MaxBytes
       /\ entries[k].used = last[k] /\ last[k] # 0
       /\ entries[k].epoch # 0 /\ entries[k].epoch <= epochs
       /\ entries[k].end # 0 => entries[k].start < entries[k].end
  /\ clock \in 0..MaxAppends /\ epochs \in Nat
  /\ last \in [Services -> 0..clock]
  /\ \A j, k \in Services : last[j] = last[k] /\ last[j] # 0 => j = k
  /\ IsFiniteSet({j \in Services : last[j] # 0})
  /\ RecentlyActiveKept

LEMMA InitStore == Init => StoreInv
<1> SUFFICES ASSUME Init PROVE StoreInv
  OBVIOUS
<1>1. DOMAIN entries = {} /\ clock = 0 /\ epochs = 0 /\ last = [k \in Services |-> 0]
  BY DEF Init
<1>2. {j \in Services : last[j] # 0} = {}
  BY <1>1
<1>3. MaxServices \in Nat /\ MaxAppends \in Nat
  BY StreamAssumption
<1>4. QED
  BY <1>1, <1>2, <1>3, FS_EmptySet DEF StoreInv, RecentlyActiveKept

\* What an append stores.
LEMMA StoredOK ==
  ASSUME StoreInv, NEW k \in Services, NEW text \in Texts
  PROVE  /\ BufferOK(Stored(k, text))
         /\ Lines(Stored(k, text)) <= MaxLines /\ Size(Stored(k, text)) <= MaxBytes
         /\ Stored(k, text).used = clock + 1
         /\ Stored(k, text).epoch =
              IF k \in DOMAIN entries THEN entries[k].epoch ELSE epochs + 1
         /\ Stored(k, text).end # 0 => Stored(k, text).start < Stored(k, text).end
         /\ k \in DOMAIN entries =>
              /\ entries[k].start <= Stored(k, text).start
              /\ Stored(k, text).end = entries[k].end + text.len
<1> DEFINE e == IF k \in DOMAIN entries THEN entries[k] ELSE NewEntry
           x == Extended(e, text)
           t == Trim(x)
           s == Stored(k, text)
<1>1. clock \in Nat /\ epochs \in Nat
  BY StreamAssumption DEF StoreInv
<1>2. BufferOK(NewEntry)
  BY <1>1 DEF BufferOK, Entries, NewEntry
<1>3. /\ BufferOK(e)
      /\ e.epoch = IF k \in DOMAIN entries THEN entries[k].epoch ELSE epochs + 1
      /\ e.end # 0 => e.start < e.end
  BY <1>2 DEF StoreInv, NewEntry
<1>4. s = [t EXCEPT !.used = clock + 1]
  BY DEF Stored
<1>5. k \in DOMAIN entries => e = entries[k]
  OBVIOUS
<1> HIDE DEF e, s
<1>6. /\ BufferOK(x) /\ x.start = e.start /\ x.end = e.end + text.len /\ x.epoch = e.epoch
  BY <1>3, ExtendedOK
<1> HIDE DEF x
<1>7. /\ BufferOK(t) /\ x.start <= t.start /\ t.end = x.end /\ t.epoch = x.epoch
      /\ Lines(t) <= MaxLines /\ Size(t) <= MaxBytes
      /\ x.start < x.end => t.start < x.end
  BY <1>6, TrimOK
<1>a. e.start \in Nat /\ e.end \in Nat /\ e.start <= e.end /\ text.len \in Nat
  BY <1>3, BufferFacts, TextsAssumption DEF BufferOK
<1> HIDE DEF t
<1>8. t \in Entries
  BY <1>7 DEF BufferOK
<1>9. /\ s \in Entries /\ s.start = t.start /\ s.end = t.end /\ s.newlines = t.newlines
      /\ s.used = clock + 1 /\ s.epoch = t.epoch
  BY <1>1, <1>4, <1>8 DEF Entries
<1>10. BufferOK(s) /\ Lines(s) = Lines(t) /\ Size(s) = Size(t)
  BY <1>7, <1>9 DEF BufferOK, Lines, Size
<1>11. QED
  BY <1>3, <1>5, <1>6, <1>7, <1>a, <1>9, <1>10 DEF s

\* If the store is full and k has no entry, the least recently used entry goes
\* and no other.
LEMMA EvictedOK ==
  ASSUME StoreInv, NEW k \in Services, k \notin DOMAIN entries,
         Cardinality(DOMAIN entries) >= MaxServices
  PROVE  \E j \in DOMAIN entries :
           /\ Evicted(k) = {j}
           /\ \A i \in DOMAIN entries \ {j} : last[i] > last[j]
<1> DEFINE D == DOMAIN entries
           Used == {last[i] : i \in D}
<1>1. \A i \in D : i \in Services /\ entries[i].used = last[i] /\ last[i] \in Nat /\ last[i] # 0
  BY DEF StoreInv
<1>2. D # {}
  <2>1. Cardinality(D) # 0
    BY StreamAssumption, FS_CardinalityType DEF StoreInv
  <2>2. QED
    BY <2>1, FS_EmptySet
<1>3. PICK u \in Used : \A v \in Used : u <= v
  <2>1. Used \in SUBSET Nat /\ Used # {}
    BY <1>1, <1>2
  <2> HIDE DEF Used
  <2>2. QED
    BY <2>1, Least
<1>4. PICK j \in D : u = last[j]
  OBVIOUS
<1>5. \A i \in D : last[j] <= last[i]
  BY <1>3, <1>4
<1>6. \A i \in D \ {j} : last[i] > last[j]
  BY <1>1, <1>4, <1>5 DEF StoreInv
<1>7. Oldest = {j}
  <2>1. j \in Oldest
    BY <1>1, <1>4, <1>5 DEF Oldest
  <2>2. ASSUME NEW i \in D \ {j} PROVE i \notin Oldest
    <3>1. ~(entries[i].used <= entries[j].used)
      BY <1>1, <1>4, <1>6, <2>2
    <3>2. QED
      BY <1>4, <3>1 DEF Oldest
  <2>3. QED
    BY <2>1, <2>2 DEF Oldest
<1>8. Evicted(k) = {j}
  BY <1>7 DEF Evicted
<1>9. QED
  BY <1>4, <1>6, <1>8

LEMMA AppendStore ==
  ASSUME StoreInv, NEW k \in Services, NEW text \in Texts, AppendLogs(k, text)
  PROVE  StoreInv'
<1> DEFINE D == DOMAIN entries
           After(l, j) == {i \in Services : l[i] > l[j]}
<1>1. /\ D \subseteq Services /\ IsFiniteSet(D) /\ Cardinality(D) \in Nat
      /\ Cardinality(D) <= MaxServices /\ MaxServices \in Nat /\ 1 <= MaxServices
      /\ clock \in Nat /\ MaxAppends \in Nat /\ epochs \in Nat
      /\ last \in [Services -> 0..clock]
  BY StreamAssumption, FS_CardinalityType DEF StoreInv
<1>2. /\ clock < MaxAppends /\ clock' = clock + 1
      /\ epochs' = IF k \in D THEN epochs ELSE epochs + 1
      /\ last' = [last EXCEPT ![k] = clock + 1]
      /\ entries' = [j \in (D \ Evicted(k)) \cup {k} |->
                       IF j = k THEN Stored(k, text) ELSE entries[j]]
  BY DEF AppendLogs
<1>3. Evicted(k) \subseteq D
  BY DEF Evicted, Oldest
<1>4. DOMAIN entries' = (D \ Evicted(k)) \cup {k}
  BY <1>2
<1>5. \A j \in DOMAIN entries' \ {k} : j \in D /\ entries'[j] = entries[j]
  BY <1>2
<1>6. entries'[k] = Stored(k, text) /\ k \in DOMAIN entries'
  BY <1>2
<1>7. /\ \A j \in Services : last'[j] = IF j = k THEN clock + 1 ELSE last[j]
      /\ \A j \in Services : last[j] \in Nat /\ last[j] <= clock
  BY <1>1, <1>2
<1>8. last' \in [Services -> 0..clock']
  BY <1>1, <1>2
<1>9. \A j \in DOMAIN entries' :
        /\ BufferOK(entries'[j])
        /\ Lines(entries'[j]) <= MaxLines /\ Size(entries'[j]) <= MaxBytes
        /\ entries'[j].used = last'[j] /\ last'[j] # 0
        /\ entries'[j].epoch # 0 /\ entries'[j].epoch <= epochs'
        /\ entries'[j].end # 0 => entries'[j].start < entries'[j].end
  <2>1. ASSUME NEW j \in DOMAIN entries' \ {k}
        PROVE  /\ BufferOK(entries[j])
               /\ Lines(entries[j]) <= MaxLines /\ Size(entries[j]) <= MaxBytes
               /\ entries[j].used = last[j] /\ last[j] # 0
               /\ entries[j].epoch # 0 /\ entries[j].epoch <= epochs
               /\ entries[j].epoch \in Nat
               /\ entries[j].end # 0 => entries[j].start < entries[j].end
               /\ j \in Services
    BY <1>5, <2>1 DEF StoreInv, BufferOK, Entries
  <2>2. /\ BufferOK(Stored(k, text))
        /\ Lines(Stored(k, text)) <= MaxLines /\ Size(Stored(k, text)) <= MaxBytes
        /\ Stored(k, text).used = clock + 1
        /\ Stored(k, text).epoch = IF k \in D THEN entries[k].epoch ELSE epochs + 1
        /\ Stored(k, text).end # 0 => Stored(k, text).start < Stored(k, text).end
    BY StoredOK
  <2>3. k \in D => /\ entries[k].epoch # 0 /\ entries[k].epoch <= epochs
                  /\ entries[k].epoch \in Nat
    BY DEF StoreInv, BufferOK, Entries
  <2>4. ASSUME NEW j \in DOMAIN entries' \ {k}
        PROVE  /\ BufferOK(entries'[j])
               /\ Lines(entries'[j]) <= MaxLines /\ Size(entries'[j]) <= MaxBytes
               /\ entries'[j].used = last'[j] /\ last'[j] # 0
               /\ entries'[j].epoch # 0 /\ entries'[j].epoch <= epochs'
               /\ entries'[j].end # 0 => entries'[j].start < entries'[j].end
    BY <1>1, <1>2, <1>5, <1>7, <2>1
  <2>5. /\ BufferOK(entries'[k])
        /\ Lines(entries'[k]) <= MaxLines /\ Size(entries'[k]) <= MaxBytes
        /\ entries'[k].used = last'[k] /\ last'[k] # 0
        /\ entries'[k].epoch # 0 /\ entries'[k].epoch <= epochs'
        /\ entries'[k].end # 0 => entries'[k].start < entries'[k].end
    BY <1>1, <1>2, <1>6, <1>7, <2>2, <2>3
  <2>6. QED
    BY <1>6, <2>4, <2>5
<1>10. \A i, j \in Services : last'[i] = last'[j] /\ last'[i] # 0 => i = j
  BY <1>1, <1>7 DEF StoreInv
<1>11. IsFiniteSet({j \in Services : last'[j] # 0})
  <2>1. {j \in Services : last'[j] # 0} = {j \in Services : last[j] # 0} \cup {k}
    BY <1>1, <1>7
  <2>2. IsFiniteSet({j \in Services : last[j] # 0})
    BY DEF StoreInv
  <2>3. IsFiniteSet({j \in Services : last[j] # 0} \cup {k})
    BY <2>2, FS_AddElement
  <2>4. QED
    BY <2>1, <2>3
<1>12. IsFiniteSet(DOMAIN entries') /\ Cardinality(DOMAIN entries') <= MaxServices
  <2>1. CASE k \in D
    <3>1. DOMAIN entries' = D
      BY <1>4, <2>1 DEF Evicted
    <3>2. QED
      BY <1>1, <3>1
  <2>2. CASE k \notin D /\ Cardinality(D) >= MaxServices
    <3>1. PICK j \in D : Evicted(k) = {j}
      BY <2>2, EvictedOK
    <3>2. DOMAIN entries' = (D \ {j}) \cup {k}
      BY <1>4, <3>1
    <3>3. IsFiniteSet(D \ {j}) /\ Cardinality(D \ {j}) = Cardinality(D) - 1
      BY <1>1, FS_RemoveElement
    <3>4. /\ IsFiniteSet((D \ {j}) \cup {k})
          /\ Cardinality((D \ {j}) \cup {k}) = Cardinality(D)
      <4> DEFINE E == D \ {j}
      <4>1. IsFiniteSet(E) /\ k \notin E /\ Cardinality(E) + 1 = Cardinality(D)
        BY <1>1, <2>2, <3>3
      <4> HIDE DEF E
      <4>2. IsFiniteSet(E \cup {k}) /\ Cardinality(E \cup {k}) = Cardinality(E) + 1
        BY <4>1, FS_AddElement
      <4> QED BY <4>1, <4>2 DEF E
    <3>5. QED
      BY <1>1, <3>2, <3>4
  <2>3. CASE k \notin D /\ ~(Cardinality(D) >= MaxServices)
    <3>1. DOMAIN entries' = D \cup {k}
      BY <1>4, <2>3 DEF Evicted
    <3>2. IsFiniteSet(D \cup {k}) /\ Cardinality(D \cup {k}) = Cardinality(D) + 1
      BY <1>1, <2>3, FS_AddElement
    <3>3. QED
      BY <1>1, <2>3, <3>1, <3>2
  <2>4. QED
    BY <2>1, <2>2, <2>3
<1>13. RecentlyActiveKept'
  <2>1. ASSUME NEW j \in Services, last'[j] # 0,
               Cardinality(After(last', j)) < MaxServices
        PROVE  j \in DOMAIN entries'
    <3>1. SUFFICES ASSUME j # k PROVE j \in DOMAIN entries'
      BY <1>6
    <3>2. last'[j] = last[j]
      BY <1>7, <3>1
    <3>3. IsFiniteSet(After(last', j)) /\ Cardinality(After(last', j)) \in Nat
      <4>1. After(last', j) \subseteq {i \in Services : last'[i] # 0}
        BY <1>1, <1>7
      <4>2. QED
        BY <1>11, <4>1, FS_Subset, FS_CardinalityType
    <3>4. After(last, j) \subseteq After(last', j)
      BY <1>1, <1>7, <3>2
    <3>5. Cardinality(After(last, j)) < MaxServices
      <4> HIDE DEF After
      <4>1. Cardinality(After(last, j)) <= Cardinality(After(last', j))
            /\ Cardinality(After(last, j)) \in Nat
        BY <3>3, <3>4, FS_Subset, FS_CardinalityType
      <4>2. QED
        BY <1>1, <2>1, <3>3, <4>1
    <3>6. j \in D
      BY <2>1, <3>2, <3>5 DEF StoreInv, RecentlyActiveKept
    <3>7. CASE j \in Evicted(k)
      <4>1. k \notin D /\ Cardinality(D) >= MaxServices
        BY <3>7 DEF Evicted
      <4>2. \A i \in D \ {j} : last[i] > last[j]
        BY <3>7, <4>1, EvictedOK
      <4>3. (D \ {j}) \cup {k} \subseteq After(last', j)
        BY <1>1, <1>7, <3>2, <4>1, <4>2
      <4>4. IsFiniteSet(D \ {j}) /\ Cardinality(D \ {j}) = Cardinality(D) - 1
        BY <1>1, <3>6, FS_RemoveElement
      <4>5. Cardinality((D \ {j}) \cup {k}) = Cardinality(D)
        <5>1. k \notin D \ {j}
          BY <4>1
        <5> HIDE DEF D
        <5>2. Cardinality((D \ {j}) \cup {k}) = Cardinality(D \ {j}) + 1
          BY <4>4, <5>1, FS_AddElement
        <5>3. QED
          BY <1>1, <4>4, <5>2
      <4> HIDE DEF After
      <4>6. Cardinality((D \ {j}) \cup {k}) <= Cardinality(After(last', j))
        BY <3>3, <4>3, FS_Subset
      <4>7. FALSE
        BY <1>1, <2>1, <3>3, <4>1, <4>5, <4>6
      <4>8. QED
        BY <4>7
    <3>8. QED
      BY <1>4, <3>6, <3>7
  <2>2. QED
    BY <2>1 DEF RecentlyActiveKept
<1>14. DOMAIN entries' \subseteq Services /\ clock' \in 0..MaxAppends /\ epochs' \in Nat
  BY <1>1, <1>2, <1>4
<1>15. QED
  BY <1>8, <1>9, <1>10, <1>11, <1>12, <1>13, <1>14 DEF StoreInv

\* Only appends and restarts change the store.
LEMMA StoreStep ==
  ASSUME StoreInv, [Next]_vars
  PROVE  StoreInv'
<1>1. ASSUME UNCHANGED store PROVE StoreInv'
  BY <1>1 DEF StoreInv, store, RecentlyActiveKept
<1>2. ASSUME NEW k \in Services, NEW text \in Texts, AppendLogs(k, text)
      PROVE  StoreInv'
  BY <1>2, AppendStore
<1>3. ASSUME Restart PROVE StoreInv'
  <2>1. /\ DOMAIN entries' = {} /\ clock' = 0 /\ epochs' = epochs
        /\ last' = [k \in Services |-> 0]
    BY <1>3 DEF Restart
  <2>2. {j \in Services : last'[j] # 0} = {}
    BY <2>1
  <2>3. MaxServices \in Nat /\ MaxAppends \in Nat /\ epochs \in Nat
    BY StreamAssumption DEF StoreInv
  <2>4. last' \in [Services -> 0..clock'] /\ \A j \in Services : last'[j] = 0
    BY <2>1
  <2>5. RecentlyActiveKept'
    BY <2>4 DEF RecentlyActiveKept
  <2>6. /\ IsFiniteSet(DOMAIN entries') /\ Cardinality(DOMAIN entries') = 0
        /\ IsFiniteSet({j \in Services : last'[j] # 0})
    BY <2>1, <2>2, FS_EmptySet
  <2>7. QED
    BY <2>1, <2>3, <2>4, <2>5, <2>6 DEF StoreInv
<1>4. ASSUME NEW k \in Services, Post(k) \/ BadBatch(k) \/ Remove(k) \/ Register(k)
      PROVE  UNCHANGED store
  BY <1>4 DEF Post, BadBatch, Remove, Register
<1>5. ASSUME NEW r \in Readers, Connect(r) \/ Stream(r) \/ Receive(r) \/ Break(r)
      PROVE  UNCHANGED store
  BY <1>5 DEF Connect, Stream, Receive, Break, Subscribe, FirstRead, Write, Woken, Reread,
              KeepAliveGone, Hangup, Unsubscribe
<1>6. UNCHANGED vars => UNCHANGED store
  BY DEF vars
<1>7. QED
  BY <1>1, <1>2, <1>3, <1>4, <1>5, <1>6 DEF Next, Step

LEMMA StoreInvariant == Spec => []StoreInv
  BY InitStore, StoreStep, PTL DEF Spec

\* Memory is bounded whatever is appended.
THEOREM AlwaysBounded == Spec => []Bounded
<1>1. StoreInv => Bounded
  BY DEF StoreInv, Bounded
<1> QED BY <1>1, StoreInvariant, PTL

\* An eviction never takes one of the services that appended last: whatever
\* appended before the oldest entry and is gone, MaxServices have since.
THEOREM RecentlyActiveStays == Spec => []RecentlyActiveKept
<1>1. StoreInv => RecentlyActiveKept
  BY DEF StoreInv
<1> QED BY <1>1, StoreInvariant, PTL

\* However long the lines: what trim keeps begins behind a line break, or holds
\* none but at its very end.
THEOREM AlwaysCutsBehindLines == Spec => []CutsBehindLines
<1>1. StoreInv => CutsBehindLines
  <2> SUFFICES ASSUME StoreInv, NEW k \in DOMAIN entries, NEW text \in Texts
               PROVE  LET whole == Extended(entries[k], text)
                          kept  == Trim(whole)
                      IN  kept.start # whole.start /\ kept.start - 1 \notin whole.newlines
                            => kept.newlines \subseteq {kept.end - 1}
    BY DEF CutsBehindLines
  <2>1. BufferOK(Extended(entries[k], text))
    BY ExtendedOK DEF StoreInv
  <2>2. QED
    BY <2>1, TrimOK
<1> QED BY <1>1, StoreInvariant, PTL

(***************************************************************************)
(* Streams.                                                                *)
(***************************************************************************)

\* The part of the type invariant that the argument needs.
StreamTypes ==
  /\ subs \in [Services -> SUBSET Readers]
  /\ wake \in [Readers -> BOOLEAN]
  /\ pc \in [Readers -> PCs]
  /\ DOMAIN offset = Readers
  /\ DOMAIN hand = Readers

\* A signal is pending, or the service has no output after offset o.
UpToDate(r, o) ==
  \/ wake[r]
  \/ Follows[r] \notin DOMAIN entries
  \/ entries[Follows[r]].end = o

\* What a stream does not know of is announced by its channel, from its first
\* read on: while it writes an event, that is what follows the event.
WakeInv ==
  \A r \in Readers :
    /\ pc[r] = "waiting" => UpToDate(r, offset[r])
    /\ pc[r] = "writing" => hand[r].kind = "gone" \/ UpToDate(r, hand[r].to)

IInv == StreamTypes /\ NoLeakedSubscription /\ WakeInv

LEMMA InitIInv == Init => IInv
<1> SUFFICES ASSUME Init PROVE IInv
  OBVIOUS
<1> USE DEF Init
<1>1. StreamTypes
  BY DEF StreamTypes, PCs
<1>2. NoLeakedSubscription
  BY DEF NoLeakedSubscription
<1>3. WakeInv
  BY DEF WakeInv
<1> QED BY <1>1, <1>2, <1>3 DEF IInv

\* Who is subscribed.
LEMMA SubscriptionStep ==
  ASSUME IInv, [Next]_vars
  PROVE  StreamTypes' /\ NoLeakedSubscription'
<1> USE StreamAssumption DEF IInv, StreamTypes, NoLeakedSubscription, PCs
<1>1. ASSUME NEW r \in Readers, Connect(r)
      PROVE  StreamTypes' /\ NoLeakedSubscription'
  BY <1>1 DEF Connect, store
<1>2. ASSUME NEW r \in Readers, Subscribe(r)
      PROVE  StreamTypes' /\ NoLeakedSubscription'
  BY <1>2 DEF Subscribe
<1>3. ASSUME NEW r \in Readers, FirstRead(r) \/ KeepAliveGone(r)
      PROVE  StreamTypes' /\ NoLeakedSubscription'
  BY <1>3 DEF FirstRead, KeepAliveGone, Prepare
<1>4. ASSUME NEW r \in Readers, Write(r)
      PROVE  StreamTypes' /\ NoLeakedSubscription'
  BY <1>4 DEF Write
<1>5. ASSUME NEW r \in Readers, Woken(r)
      PROVE  StreamTypes' /\ NoLeakedSubscription'
  BY <1>5 DEF Woken
<1>6. ASSUME NEW r \in Readers, Reread(r)
      PROVE  StreamTypes' /\ NoLeakedSubscription'
  BY <1>6 DEF Reread, Prepare
<1>7. ASSUME NEW r \in Readers, Hangup(r)
      PROVE  StreamTypes' /\ NoLeakedSubscription'
  BY <1>7 DEF Hangup
<1>8. ASSUME NEW r \in Readers, Unsubscribe(r)
      PROVE  StreamTypes' /\ NoLeakedSubscription'
  BY <1>8 DEF Unsubscribe
<1>9. ASSUME NEW k \in Services, NEW text \in Texts, AppendLogs(k, text)
      PROVE  StreamTypes' /\ NoLeakedSubscription'
  BY <1>9 DEF AppendLogs, streams
<1>10. ASSUME Restart
       PROVE  StreamTypes' /\ NoLeakedSubscription'
  BY <1>10 DEF Restart
<1>11. ASSUME UNCHANGED <<subs, wake, streams>>
       PROVE  StreamTypes' /\ NoLeakedSubscription'
  BY <1>11 DEF streams
<1>12. ASSUME NEW k \in Services, Post(k) \/ BadBatch(k) \/ Remove(k) \/ Register(k)
       PROVE  UNCHANGED <<subs, wake, streams>>
  BY <1>12 DEF Post, BadBatch, Remove, Register
<1>13. ASSUME NEW r \in Readers, Receive(r) \/ Break(r)
       PROVE  UNCHANGED <<subs, wake, streams>>
  BY <1>13 DEF Receive, Break
<1>14. ASSUME UNCHANGED vars
       PROVE  UNCHANGED <<subs, wake, streams>>
  BY <1>14 DEF vars
<1> QED
  BY <1>1, <1>2, <1>3, <1>4, <1>5, <1>6, <1>7, <1>8, <1>9, <1>10, <1>11, <1>12, <1>13,
     <1>14 DEF Next, Step, Stream

\* What ReadFrom returns leads up to the end of the entry.
LEMMA ReadsToEnd ==
  ASSUME NEW k \in DOMAIN entries, NEW o
  PROVE  ReadFrom(k, o).to = entries[k].end
  BY DEF ReadFrom, Event

\* An append announces itself to every subscriber of its service and changes
\* no other entry, except that it may evict one.
LEMMA WakeStep ==
  ASSUME IInv, [Next]_vars
  PROVE  WakeInv'
<1> USE StreamAssumption DEF IInv, StreamTypes, WakeInv, UpToDate, PCs
<1>1. ASSUME NEW r \in Readers, Connect(r)
      PROVE  WakeInv'
  BY <1>1 DEF Connect, store
<1>2. ASSUME NEW r \in Readers, Subscribe(r)
      PROVE  WakeInv'
  BY <1>2 DEF Subscribe, store, clients
<1>3. ASSUME NEW r \in Readers, NEW ev, Prepare(r, ev), UNCHANGED <<entries, wake>>,
             ev.kind = "gone" \/ UpToDate(r, ev.to)
      PROVE  WakeInv'
  BY <1>3 DEF Prepare
<1>4. ASSUME NEW r \in Readers, FirstRead(r)
      PROVE  WakeInv'
  <2> DEFINE ev == ReadFrom(Follows[r], offset[r])
             sent == IF offset[r] = 0 THEN [ev EXCEPT !.kind = "reset"] ELSE ev
  <2>1. Prepare(r, sent) /\ UNCHANGED <<entries, wake>>
    BY <1>4 DEF FirstRead, store
  <2>2. sent.to = ev.to
    BY DEF ReadFrom, Event
  <2>3. UpToDate(r, sent.to)
    BY <2>2, ReadsToEnd
  <2> HIDE DEF sent
  <2> QED BY <1>3, <2>1, <2>3
<1>5. ASSUME NEW r \in Readers, Write(r)
      PROVE  WakeInv'
  BY <1>5 DEF Write, store
<1>6. ASSUME NEW r \in Readers, Woken(r)
      PROVE  WakeInv'
  BY <1>6 DEF Woken, store
<1>7. ASSUME NEW r \in Readers, Reread(r)
      PROVE  WakeInv'
  <2> DEFINE ev == ReadFrom(Follows[r], offset[r])
  <2>1. UpToDate(r, ev.to)
    BY ReadsToEnd
  <2>2. CASE ev.from = ev.to /\ ev.kind = "append"
    <3>1. Follows[r] \in DOMAIN entries => ev.from = offset[r]
      BY <2>2 DEF ReadFrom, Event
    <3>2. UpToDate(r, offset[r])
      BY <2>1, <2>2, <3>1
    <3>3. pc' = [pc EXCEPT ![r] = "waiting"] /\ UNCHANGED <<offset, hand, entries, wake>>
      BY <1>7, <2>2 DEF Reread, store
    <3> QED BY <3>2, <3>3
  <2>3. CASE ~(ev.from = ev.to /\ ev.kind = "append")
    <3>1. Prepare(r, ev) /\ UNCHANGED <<entries, wake>>
      BY <1>7, <2>3 DEF Reread, store
    <3> QED BY <1>3, <2>1, <3>1
  <2> QED BY <2>2, <2>3
<1>8. ASSUME NEW r \in Readers, KeepAliveGone(r)
      PROVE  WakeInv'
  <2> DEFINE ev == Event("gone", 0, offset[r], offset[r])
  <2>1. Prepare(r, ev) /\ UNCHANGED <<entries, wake>> /\ ev.kind = "gone"
    BY <1>8 DEF KeepAliveGone, store, Event
  <2> QED BY <1>3, <2>1
<1>9. ASSUME NEW r \in Readers, Hangup(r)
      PROVE  WakeInv'
  BY <1>9 DEF Hangup, store
<1>10. ASSUME NEW r \in Readers, Unsubscribe(r)
       PROVE  WakeInv'
  BY <1>10 DEF Unsubscribe, store
<1>11. ASSUME NEW k \in Services, NEW text \in Texts, AppendLogs(k, text)
       PROVE  WakeInv'
  <2>1. /\ UNCHANGED <<pc, offset, hand>>
        /\ wake' = [r \in Readers |-> wake[r] \/ r \in subs[k]]
        /\ \A j \in DOMAIN entries' \ {k} : j \in DOMAIN entries /\ entries'[j] = entries[j]
    BY <1>11 DEF AppendLogs, streams
  <2>2. ASSUME NEW r \in Readers, pc[r] \in {"waiting", "writing"}
        PROVE  (wake[r] => wake'[r]) /\ (Follows[r] = k => wake'[r])
    <3>1. Follows[r] = k => r \in subs[k]
      BY <2>2 DEF NoLeakedSubscription
    <3>2. wake'[r] = (wake[r] \/ r \in subs[k])
      BY <2>1
    <3> QED BY <3>1, <3>2
  <2> QED BY <2>1, <2>2
<1>12. ASSUME Restart
       PROVE  WakeInv'
  BY <1>12 DEF Restart
<1>13. ASSUME UNCHANGED <<entries, wake, pc, offset, hand>>
       PROVE  WakeInv'
  BY <1>13
<1>14. ASSUME NEW k \in Services, Post(k) \/ BadBatch(k) \/ Remove(k) \/ Register(k)
       PROVE  UNCHANGED <<entries, wake, pc, offset, hand>>
  BY <1>14 DEF Post, BadBatch, Remove, Register, store, streams
<1>15. ASSUME NEW r \in Readers, Receive(r) \/ Break(r)
       PROVE  UNCHANGED <<entries, wake, pc, offset, hand>>
  BY <1>15 DEF Receive, Break, store, streams
<1>16. ASSUME UNCHANGED vars
       PROVE  UNCHANGED <<entries, wake, pc, offset, hand>>
  BY <1>16 DEF vars, store, streams
<1> QED
  BY <1>1, <1>2, <1>4, <1>5, <1>6, <1>7, <1>8, <1>9, <1>10, <1>11, <1>12, <1>13,
     <1>14, <1>15, <1>16 DEF Next, Step, Stream

THEOREM Inductive == Spec => []IInv
<1>1. IInv /\ [Next]_vars => IInv'
  BY SubscriptionStep, WakeStep DEF IInv
<1> QED BY <1>1, InitIInv, PTL DEF Spec

\* A stream that waits while its service has output it has not read has a
\* signal in its channel: subscribing before the first read closes the window.
THEOREM NoWakeupLost == Spec => []NoLostWakeup
<1>1. IInv => NoLostWakeup
  BY DEF IInv, WakeInv, UpToDate, NoLostWakeup
<1> QED BY <1>1, Inductive, PTL

\* The deferred cancel runs on every way out of ServeSSE.
THEOREM NoSubscriptionLeaked == Spec => []NoLeakedSubscription
<1>1. IInv => NoLeakedSubscription
  BY DEF IInv
<1> QED BY <1>1, Inductive, PTL

(***************************************************************************)
(* What a reader shows.                                                    *)
(***************************************************************************)

\* Bytes of an epoch that begin at `from` reach back to the oldest retained.
ReachesBack(k, epoch, from) ==
  k \in DOMAIN entries /\ entries[k].epoch = epoch => from <= entries[k].start

\* An event on its way: a reset holds all that was retained when it was read.
EventOK(k, ev) ==
  /\ ev \in Events /\ ev.from <= ev.to /\ ev.epoch <= epochs
  /\ ev.kind \in {"none", "gone"} => ev.from = ev.to
  /\ ev.kind = "reset" =>
       /\ ev.from = ev.to => ev.to = 0
       /\ ReachesBack(k, ev.epoch, ev.from)

\* Where a reader is before the i-th of the events on its connection.
Before(o, s, i) == IF i = 1 THEN o ELSE s[i - 1].to

EventsOK(r) ==
  /\ EventOK(Follows[r], hand[r])
  /\ \A i \in 1..Len(wire[r]) : EventOK(Follows[r], wire[r][i])

\* What is appended continues what was sent before it.
ChainOK(r) ==
  /\ conn[r] = "off" => wire[r] = <<>>
  /\ \A i \in 1..Len(wire[r]) :
       wire[r][i].kind # "reset" => wire[r][i].from = Before(lastId[r], wire[r], i)
  /\ conn[r] = "on" /\ pc[r] \notin {"idle", "leaving"}
       => offset[r] = Before(lastId[r], wire[r], Len(wire[r]) + 1)
  /\ pc[r] = "writing" /\ hand[r].kind # "reset" => hand[r].from = offset[r]

ViewOK(r) ==
  /\ view[r].from <= view[r].to /\ view[r].to = lastId[r]
  /\ view[r].from = view[r].to => view[r].to = 0
  /\ view[r].epoch <= epochs
  /\ ~view[r].gap
  /\ ~view[r].spliced => ReachesBack(Follows[r], view[r].epoch, view[r].from)

GapInv == \A r \in Readers : EventsOK(r) /\ ChainOK(r) /\ ViewOK(r)

LEMMA InitGap == Init => TypeOK /\ GapInv
<1> SUFFICES ASSUME Init PROVE TypeOK /\ GapInv
  OBVIOUS
<1> USE StreamAssumption DEF Init, NoEvent, NoView, Event
<1>1. TypeOK
  BY DEF TypeOK, PCs, Events, Views
<1>2. ASSUME NEW r \in Readers PROVE EventsOK(r) /\ ChainOK(r) /\ ViewOK(r)
  <2>1. hand[r] = NoEvent /\ wire[r] = <<>> /\ lastId[r] = 0 /\ view[r] = NoView
        /\ pc[r] = "idle" /\ Len(wire[r]) = 0 /\ epochs = 0 /\ DOMAIN entries = {}
    OBVIOUS
  <2>2. EventsOK(r)
    BY <2>1 DEF EventsOK, EventOK, Events
  <2>3. ChainOK(r)
    BY <2>1 DEF ChainOK
  <2>4. ViewOK(r)
    BY <2>1 DEF ViewOK, ReachesBack
  <2> QED BY <2>2, <2>3, <2>4
<1> QED BY <1>1, <1>2 DEF GapInv

\* An entry's window only moves forward, and a new entry is of a new epoch.
LEMMA WindowStep ==
  ASSUME StoreInv, [Next]_vars
  PROVE  /\ epochs <= epochs' /\ epochs \in Nat /\ epochs' \in Nat
         /\ \A k \in DOMAIN entries' :
              /\ entries'[k] \in Entries
              /\ \/ entries'[k].epoch > epochs
                 \/ /\ k \in DOMAIN entries /\ entries[k] \in Entries
                    /\ entries'[k].epoch = entries[k].epoch
                    /\ entries[k].start <= entries'[k].start
<1> DEFINE Goal == /\ epochs <= epochs' /\ epochs \in Nat /\ epochs' \in Nat
                   /\ \A k \in DOMAIN entries' :
                        /\ entries'[k] \in Entries
                        /\ \/ entries'[k].epoch > epochs
                           \/ /\ k \in DOMAIN entries /\ entries[k] \in Entries
                              /\ entries'[k].epoch = entries[k].epoch
                              /\ entries[k].start <= entries'[k].start
<1>1. epochs \in Nat /\ \A k \in DOMAIN entries : entries[k] \in Entries
  BY DEF StoreInv, BufferOK
<1>2. ASSUME UNCHANGED store PROVE Goal
  <2>1. epochs' = epochs /\ entries' = entries
    BY <1>2 DEF store
  <2>2. \A k \in DOMAIN entries : entries[k].start \in Nat
    BY <1>1 DEF Entries
  <2> QED BY <1>1, <2>1, <2>2
<1>3. ASSUME NEW k \in Services, NEW text \in Texts, AppendLogs(k, text)
      PROVE  Goal
  <2>1. /\ epochs' = IF k \in DOMAIN entries THEN epochs ELSE epochs + 1
        /\ entries' = [j \in (DOMAIN entries \ Evicted(k)) \cup {k} |->
                         IF j = k THEN Stored(k, text) ELSE entries[j]]
    BY <1>3 DEF AppendLogs
  <2>2. /\ Stored(k, text) \in Entries
        /\ Stored(k, text).epoch =
             IF k \in DOMAIN entries THEN entries[k].epoch ELSE epochs + 1
        /\ k \in DOMAIN entries => entries[k].start <= Stored(k, text).start
    BY StoredOK DEF BufferOK
  <2>3. \A j \in DOMAIN entries : entries[j].start \in Nat
    BY <1>1 DEF Entries
  <2>4. epochs + 1 > epochs /\ epochs <= epochs + 1 /\ epochs + 1 \in Nat /\ epochs <= epochs
    BY <1>1
  <2>5. ASSUME NEW j \in DOMAIN entries', j # k
        PROVE  j \in DOMAIN entries /\ entries'[j] = entries[j]
    BY <2>1, <2>5
  <2>6. entries'[k] = Stored(k, text)
    BY <2>1
  <2>7. ASSUME NEW j \in DOMAIN entries'
        PROVE  /\ entries'[j] \in Entries
               /\ \/ entries'[j].epoch > epochs
                  \/ /\ j \in DOMAIN entries /\ entries[j] \in Entries
                     /\ entries'[j].epoch = entries[j].epoch
                     /\ entries[j].start <= entries'[j].start
    <3>1. CASE j # k
      BY <1>1, <2>3, <2>5, <3>1
    <3>2. CASE j = k
      BY <1>1, <2>2, <2>4, <2>6, <3>2
    <3> QED BY <3>1, <3>2
  <2> QED BY <1>1, <2>1, <2>4, <2>7
<1>4. ASSUME Restart PROVE Goal
  BY <1>1, <1>4 DEF Restart
<1>5. ASSUME NEW k \in Services, Post(k) \/ BadBatch(k) \/ Remove(k) \/ Register(k)
      PROVE  UNCHANGED store
  BY <1>5 DEF Post, BadBatch, Remove, Register
<1>6. ASSUME NEW r \in Readers, Connect(r) \/ Stream(r) \/ Receive(r) \/ Break(r)
      PROVE  UNCHANGED store
  BY <1>6 DEF Connect, Stream, Receive, Break, Subscribe, FirstRead, Write, Woken, Reread,
              KeepAliveGone, Hangup, Unsubscribe
<1>7. UNCHANGED vars => UNCHANGED store
  BY DEF vars
<1> HIDE DEF Goal
<1>8. Goal
  BY <1>2, <1>3, <1>4, <1>5, <1>6, <1>7 DEF Next, Step
<1> QED BY <1>8 DEF Goal

\* So what reached back still does.
LEMMA ReachStep ==
  ASSUME StoreInv, [Next]_vars,
         NEW k \in Services, NEW epoch \in Nat, NEW from \in Nat,
         epoch <= epochs, ReachesBack(k, epoch, from)
  PROVE  epoch <= epochs' /\ ReachesBack(k, epoch, from)'
<1>1. epochs \in Nat /\ epochs' \in Nat /\ epochs <= epochs'
  BY WindowStep
<1>2. ASSUME k \in DOMAIN entries', entries'[k].epoch = epoch
      PROVE  from <= entries'[k].start
  <2>1. entries'[k] \in Entries /\ ~(entries'[k].epoch > epochs)
    BY <1>1, <1>2, WindowStep
  <2>2. /\ k \in DOMAIN entries /\ entries[k] \in Entries /\ entries'[k].epoch = entries[k].epoch
        /\ entries[k].start <= entries'[k].start
    BY <1>2, <2>1, WindowStep
  <2>3. from <= entries[k].start
    BY <1>2, <2>2 DEF ReachesBack
  <2> QED BY <2>1, <2>2, <2>3 DEF Entries
<1> QED BY <1>1, <1>2 DEF ReachesBack

LEMMA EventStep ==
  ASSUME StoreInv, [Next]_vars, NEW k \in Services, NEW ev, EventOK(k, ev)
  PROVE  EventOK(k, ev)'
<1>1. ev.epoch \in Nat /\ ev.from \in Nat /\ ev.epoch <= epochs
  BY DEF EventOK, Events
<1>2. ev.epoch <= epochs'
  BY <1>1, WindowStep
<1>3. ReachesBack(k, ev.epoch, ev.from) => ReachesBack(k, ev.epoch, ev.from)'
  BY <1>1, ReachStep
<1> QED BY <1>2, <1>3 DEF EventOK

\* What ReadFrom answers.
LEMMA ReadFromOK ==
  ASSUME StoreInv, NEW k \in Services, NEW o \in Nat
  PROVE  /\ EventOK(k, ReadFrom(k, o))
         /\ ReadFrom(k, o).kind \in {"append", "reset"}
         /\ ReadFrom(k, o).kind = "append" => ReadFrom(k, o).from = o
         /\ o = 0 => EventOK(k, [ReadFrom(k, o) EXCEPT !.kind = "reset"])
<1> DEFINE ev == ReadFrom(k, o)
<1>1. CASE k \notin DOMAIN entries
  <2>1. ev = Event(IF o # 0 THEN "reset" ELSE "append", 0, 0, 0)
    BY <1>1 DEF ReadFrom
  <2>2. epochs \in Nat
    BY DEF StoreInv
  <2> QED BY <1>1, <2>1, <2>2 DEF Event, EventOK, Events, ReachesBack
<1>2. CASE k \in DOMAIN entries
  <2> DEFINE e == entries[k]
  <2>1. /\ e.start \in Nat /\ e.end \in Nat /\ e.epoch \in Nat
        /\ e.start <= e.end /\ e.epoch <= epochs /\ epochs \in Nat
        /\ e.end # 0 => e.start < e.end
    BY <1>2 DEF StoreInv, BufferOK, Entries
  <2>2. CASE Outside(e, o)
    <3>1. ev = Event("reset", e.epoch, e.start, e.end)
      BY <1>2, <2>2 DEF ReadFrom
    <3>2. o # 0 \/ e.start # 0
      BY <2>1, <2>2 DEF Outside
    <3> QED BY <2>1, <3>1 DEF Event, EventOK, Events, ReachesBack
  <2>3. CASE ~Outside(e, o)
    <3>1. ev = Event("append", e.epoch, o, e.end)
      BY <1>2, <2>3 DEF ReadFrom
    <3>2. o <= e.end /\ e.start <= o
      BY <2>1, <2>3 DEF Outside
    <3> QED BY <2>1, <3>1, <3>2 DEF Event, EventOK, Events, ReachesBack
  <2> QED BY <2>2, <2>3
<1> QED BY <1>1, <1>2

\* What a reader shows after an event is well formed.
LEMMA ShownType ==
  ASSUME NEW v \in Views, NEW ev \in Events
  PROVE  Shown(v, ev) \in Views
<1>1. /\ ev.epoch \in Nat /\ ev.from \in Nat /\ ev.to \in Nat
      /\ v.gap \in BOOLEAN
  BY DEF Views, Events
<1>2. Replaced(ev) \in Views
  BY <1>1 DEF Replaced, Views
<1>3. [Replaced(ev) EXCEPT !.spliced = v.from # v.to] \in Views
  <2> DEFINE b == v.from # v.to
  <2>1. b \in BOOLEAN
    OBVIOUS
  <2> HIDE DEF b
  <2>2. [Replaced(ev) EXCEPT !.spliced = b] \in Views
    BY <1>2, <2>1 DEF Views
  <2> QED BY <2>2 DEF b
<1>4. [v EXCEPT !.to = ev.to, !.gap = @ \/ ev.from # v.to] \in Views
  <2> DEFINE b == v.gap \/ ev.from # v.to
  <2>1. b \in BOOLEAN
    BY <1>1
  <2> HIDE DEF b
  <2>2. [v EXCEPT !.to = ev.to, !.gap = b] \in Views
    BY <1>1, <2>1 DEF Views
  <2> QED BY <2>2 DEF b
<1>5. Appended(v, ev) \in Views
  BY <1>3, <1>4 DEF Appended
<1> QED BY <1>2, <1>5 DEF Shown

LEMMA TypeStep ==
  ASSUME TypeOK, StoreInv, StoreInv', GapInv, [Next]_vars
  PROVE  TypeOK'
<1>1. /\ DOMAIN entries' \subseteq Services
      /\ \A k \in DOMAIN entries' : entries'[k] \in Entries
      /\ clock' \in 0..MaxAppends /\ epochs' \in Nat
      /\ last' \in [Services -> 0..MaxAppends]
  <2>1. clock' \in 0..MaxAppends /\ last' \in [Services -> 0..clock']
    BY DEF StoreInv
  <2>2. last' \in [Services -> 0..MaxAppends]
    BY <2>1, StreamAssumption
  <2> QED BY <2>1, <2>2 DEF StoreInv, BufferOK
<1> DEFINE Rest == /\ registered' \subseteq Services /\ accepted' \subseteq Services
                   /\ subs' \in [Services -> SUBSET Readers]
                   /\ wake' \in [Readers -> BOOLEAN]
                   /\ pc' \in [Readers -> PCs]
                   /\ offset' \in [Readers -> Nat]
                   /\ hand' \in [Readers -> Events]
                   /\ wire' \in [Readers -> Seq(Events)]
                   /\ conn' \in [Readers -> {"off", "on", "done"}]
                   /\ lastId' \in [Readers -> Nat]
                   /\ view' \in [Readers -> Views]
                   /\ faults' \in 0..MaxFaults
<1>2. NoEvent \in Events
  BY DEF NoEvent, Event, Events
<1>3. MaxFaults \in Nat /\ \A r \in Readers : Follows[r] \in Services
  BY StreamAssumption
<1> USE DEF TypeOK, PCs
<1>4. ASSUME NEW k \in Services, Post(k) \/ BadBatch(k) \/ Register(k) PROVE Rest
  BY <1>4 DEF Post, BadBatch, Register, streams, clients
<1>5. ASSUME NEW k \in Services, Remove(k) PROVE Rest
  BY <1>3, <1>5 DEF Remove, Fault, streams, clients
<1>6. ASSUME NEW k \in Services, NEW text \in Texts, AppendLogs(k, text) PROVE Rest
  <2>1. wake' \in [Readers -> BOOLEAN]
    BY <1>6 DEF AppendLogs
  <2>2. /\ UNCHANGED <<registered, subs, streams, clients, faults>>
        /\ accepted' = accepted \ {k}
    BY <1>6 DEF AppendLogs
  <2> QED BY <2>1, <2>2 DEF streams, clients
<1>7. ASSUME NEW r \in Readers, Connect(r) PROVE Rest
  BY <1>7 DEF Connect
<1>8. ASSUME NEW r \in Readers, Subscribe(r) PROVE Rest
  BY <1>3, <1>8 DEF Subscribe, clients
<1>9. ASSUME NEW r \in Readers, NEW ev \in Events, Prepare(r, ev),
             UNCHANGED <<registered, accepted, subs, wake, clients, faults>>
      PROVE  Rest
  BY <1>9 DEF Prepare, clients
<1>10. ASSUME NEW r \in Readers PROVE ReadFrom(Follows[r], offset[r]) \in Events
  BY <1>3, ReadFromOK DEF EventOK
<1>11. ASSUME NEW r \in Readers, FirstRead(r) PROVE Rest
  <2> DEFINE ev == ReadFrom(Follows[r], offset[r])
             sent == IF offset[r] = 0 THEN [ev EXCEPT !.kind = "reset"] ELSE ev
  <2>1. Prepare(r, sent) /\ UNCHANGED <<registered, accepted, subs, wake, clients, faults>>
    BY <1>11 DEF FirstRead
  <2>2. sent \in Events
    BY <1>3, <1>10, ReadFromOK DEF EventOK
  <2> HIDE DEF sent
  <2> QED BY <1>9, <2>1, <2>2
<1>12. ASSUME NEW r \in Readers, Write(r) PROVE Rest
  <2>1. hand[r] \in Events /\ hand[r].to \in Nat /\ wire[r] \in Seq(Events)
    BY DEF Events
  <2>2. Append(wire[r], hand[r]) \in Seq(Events)
    BY <2>1
  <2> QED BY <1>2, <1>12, <2>1, <2>2 DEF Write
<1>13. ASSUME NEW r \in Readers, Woken(r) PROVE Rest
  BY <1>13 DEF Woken, clients
<1>14. ASSUME NEW r \in Readers, Reread(r) PROVE Rest
  <2> DEFINE ev == ReadFrom(Follows[r], offset[r])
  <2>1. CASE ev.from = ev.to /\ ev.kind = "append"
    <3>1. /\ pc' = [pc EXCEPT ![r] = "waiting"]
          /\ UNCHANGED <<offset, hand, registered, accepted, subs, wake, clients, faults>>
      BY <1>14, <2>1 DEF Reread
    <3> QED BY <3>1 DEF clients
  <2>2. CASE ~(ev.from = ev.to /\ ev.kind = "append")
    <3>1. Prepare(r, ev) /\ UNCHANGED <<registered, accepted, subs, wake, clients, faults>>
      BY <1>14, <2>2 DEF Reread
    <3> QED BY <1>9, <1>10, <3>1
  <2> QED BY <2>1, <2>2
<1>15. ASSUME NEW r \in Readers, KeepAliveGone(r) PROVE Rest
  <2> DEFINE ev == Event("gone", 0, offset[r], offset[r])
  <2>1. Prepare(r, ev) /\ UNCHANGED <<registered, accepted, subs, wake, clients, faults>>
    BY <1>15 DEF KeepAliveGone
  <2>2. ev \in Events
    BY DEF Event, Events
  <2> QED BY <1>9, <2>1, <2>2
<1>16. ASSUME NEW r \in Readers, Hangup(r) PROVE Rest
  BY <1>2, <1>16 DEF Hangup, clients
<1>17. ASSUME NEW r \in Readers, Unsubscribe(r) PROVE Rest
  BY <1>3, <1>17 DEF Unsubscribe, clients
<1>18. ASSUME NEW r \in Readers, Receive(r) PROVE Rest
  <2>1. wire[r] \in Seq(Events) /\ wire[r] # <<>>
    BY <1>18 DEF Receive
  <2> DEFINE ev == Head(wire[r])
  <2>2. ev \in Events /\ Tail(wire[r]) \in Seq(Events)
    BY <2>1
  <2>3. ev.to \in Nat
    BY <2>2 DEF Events
  <2>4. Shown(view[r], ev) \in Views
    BY <2>2, ShownType
  <2>5. /\ view' = [view EXCEPT ![r] = Shown(view[r], ev)]
        /\ lastId' = [lastId EXCEPT ![r] = ev.to]
        /\ conn' = [conn EXCEPT ![r] = IF ev.kind = "gone" THEN "done" ELSE "on"]
        /\ wire' = [wire EXCEPT ![r] = Tail(wire[r])]
        /\ UNCHANGED <<registered, accepted, subs, wake, streams, faults>>
    BY <1>18 DEF Receive
  <2> HIDE DEF ev
  <2> QED BY <2>2, <2>3, <2>4, <2>5 DEF streams
<1>19. ASSUME NEW r \in Readers, Break(r) PROVE Rest
  BY <1>3, <1>19 DEF Break, Fault, streams
<1>20. ASSUME Restart PROVE Rest
  BY <1>2, <1>3, <1>20 DEF Restart, Fault
<1>21. ASSUME UNCHANGED vars PROVE Rest
  BY <1>21 DEF vars, streams, clients
<1> HIDE DEF Rest
<1>22. Rest
  BY <1>4, <1>5, <1>6, <1>7, <1>8, <1>11, <1>12, <1>13, <1>14, <1>15, <1>16, <1>17, <1>18,
     <1>19, <1>20, <1>21 DEF Next, Step, Stream
<1> QED BY <1>1, <1>22 DEF Rest

\* A reader none of whose variables change stays as it was: the store only
\* moves forward.
LEMMA ReaderStep ==
  ASSUME TypeOK, StoreInv, GapInv, [Next]_vars, NEW r \in Readers,
         view'[r] = view[r], lastId'[r] = lastId[r]
  PROVE  /\ ViewOK(r)'
         /\ hand'[r] = hand[r] /\ wire'[r] = wire[r] => EventsOK(r)'
         /\ wire'[r] = wire[r] /\ conn'[r] = conn[r] /\ pc'[r] = pc[r]
              /\ offset'[r] = offset[r] /\ hand'[r] = hand[r] => ChainOK(r)'
<1>1. Follows[r] \in Services /\ view[r] \in Views
  BY StreamAssumption DEF TypeOK
<1>2. ViewOK(r)'
  <2>1. view[r].epoch \in Nat /\ view[r].from \in Nat /\ view[r].epoch <= epochs
    BY <1>1 DEF GapInv, ViewOK, Views
  <2>2. view[r].epoch <= epochs'
    BY <2>1, WindowStep
  <2>3. ReachesBack(Follows[r], view[r].epoch, view[r].from)
          => ReachesBack(Follows[r], view[r].epoch, view[r].from)'
    BY <1>1, <2>1, ReachStep DEF ReachesBack
  <2> QED BY <2>2, <2>3 DEF GapInv, ViewOK, ReachesBack
<1>3. ASSUME hand'[r] = hand[r], wire'[r] = wire[r] PROVE EventsOK(r)'
  <2>1. \A ev : EventOK(Follows[r], ev) => EventOK(Follows[r], ev)'
    BY <1>1, EventStep
  <2> QED BY <1>3, <2>1 DEF GapInv, EventsOK, EventOK, ReachesBack
<1>4. ASSUME wire'[r] = wire[r], conn'[r] = conn[r], pc'[r] = pc[r],
             offset'[r] = offset[r], hand'[r] = hand[r]
      PROVE  ChainOK(r)'
  <2>1. ChainOK(r)
    BY DEF GapInv
  <2> QED BY <1>4, <2>1 DEF ChainOK, Before
<1> QED BY <1>2, <1>3, <1>4

\* A stream has something new in hand.
LEMMA PrepareStep ==
  ASSUME TypeOK, StoreInv, GapInv, [Next]_vars, NEW r \in Readers, NEW ev,
         Prepare(r, ev), UNCHANGED <<entries, epochs, clients>>,
         pc[r] \notin {"idle", "leaving"},
         EventOK(Follows[r], ev), ev.kind # "reset" => ev.from = offset[r]
  PROVE  GapInv'
<1>1. /\ hand' = [hand EXCEPT ![r] = ev] /\ pc' = [pc EXCEPT ![r] = "writing"]
      /\ UNCHANGED <<entries, epochs, offset, wire, conn, lastId, view>>
  BY DEF Prepare, clients
<1>2. ASSUME NEW i \in Readers, i # r PROVE EventsOK(i)' /\ ChainOK(i)' /\ ViewOK(i)'
  BY <1>1, <1>2, ReaderStep DEF TypeOK
<1>3. hand'[r] = ev /\ pc'[r] = "writing"
  BY <1>1 DEF TypeOK
<1>4. EventsOK(r)'
  BY <1>1, <1>3 DEF GapInv, EventsOK, EventOK, ReachesBack
<1>5. ChainOK(r)'
  BY <1>1, <1>3 DEF GapInv, ChainOK, Before
<1>6. ViewOK(r)'
  BY <1>1, ReaderStep
<1> QED BY <1>2, <1>4, <1>5, <1>6 DEF GapInv

\* What is written follows what was written before it.
LEMMA WriteStep ==
  ASSUME TypeOK, StoreInv, GapInv, [Next]_vars, NEW r \in Readers, Write(r)
  PROVE  GapInv'
<1>1. /\ pc[r] = "writing" /\ conn[r] = "on"
      /\ wire' = [wire EXCEPT ![r] = Append(wire[r], hand[r])]
      /\ offset' = [offset EXCEPT ![r] = hand[r].to]
      /\ hand' = [hand EXCEPT ![r] = NoEvent]
      /\ pc' = [pc EXCEPT ![r] = IF hand[r].kind = "gone" THEN "leaving" ELSE "waiting"]
      /\ UNCHANGED <<entries, epochs, conn, lastId, view>>
  BY DEF Write, store
<1>2. ASSUME NEW i \in Readers, i # r PROVE EventsOK(i)' /\ ChainOK(i)' /\ ViewOK(i)'
  BY <1>1, <1>2, ReaderStep DEF TypeOK
<1> DEFINE w == wire[r]
           n == Len(wire[r])
<1>3. /\ w \in Seq(Events) /\ hand[r] \in Events /\ n \in Nat
      /\ wire'[r] = Append(w, hand[r]) /\ hand'[r] = NoEvent /\ offset'[r] = hand[r].to
      /\ pc'[r] \in {"leaving", "waiting"} /\ conn'[r] = "on" /\ lastId'[r] = lastId[r]
  BY <1>1 DEF TypeOK
<1>4. /\ Len(wire'[r]) = n + 1 /\ wire'[r][n + 1] = hand[r]
      /\ \A i \in 1..n : wire'[r][i] = w[i]
  BY <1>3
<1>5. \A i \in 1..(n + 1) : i = n + 1 \/ i \in 1..n
  BY <1>3
<1>6. EventsOK(r)'
  <2>1. EventOK(Follows[r], hand[r]) /\ \A i \in 1..n : EventOK(Follows[r], w[i])
    BY DEF GapInv, EventsOK
  <2>2. EventOK(Follows[r], NoEvent)
    <3>1. epochs \in Nat
      BY DEF TypeOK
    <3> QED BY <3>1 DEF EventOK, NoEvent, Event, Events
  <2>3. \A ev : EventOK(Follows[r], ev) => EventOK(Follows[r], ev)'
    BY <1>1 DEF EventOK, ReachesBack
  <2>4. EventOK(Follows[r], hand[r])'
    BY <1>3, <2>2, <2>3 DEF EventOK, ReachesBack
  <2>5. \A i \in 1..(n + 1) : EventOK(Follows[r], wire[r][i])'
    BY <1>4, <1>5, <2>1, <2>3
  <2> QED BY <1>4, <2>4, <2>5 DEF EventsOK
<1>7. ChainOK(r)'
  <2>1. /\ \A i \in 1..n : w[i].kind # "reset" => w[i].from = Before(lastId[r], w, i)
        /\ offset[r] = Before(lastId[r], w, n + 1)
        /\ hand[r].kind # "reset" => hand[r].from = offset[r]
    BY <1>1 DEF GapInv, ChainOK
  <2>2. \A i \in 1..(n + 1) : Before(lastId[r], wire'[r], i) = Before(lastId[r], w, i)
    <3>1. \A i \in 1..(n + 1) : i = 1 \/ i - 1 \in 1..n
      BY <1>3
    <3> QED BY <1>4, <3>1 DEF Before
  <2>3. \A i \in 1..(n + 1) :
          wire'[r][i].kind # "reset" => wire'[r][i].from = Before(lastId[r], wire'[r], i)
    BY <1>3, <1>4, <1>5, <2>1, <2>2
  <2>4. Before(lastId[r], wire'[r], n + 1 + 1) = hand[r].to
    <3>1. n + 1 + 1 # 1 /\ (n + 1 + 1) - 1 = n + 1
      BY <1>3
    <3> QED BY <1>4, <3>1 DEF Before
  <2>5. /\ Len(wire'[r]) = n + 1 /\ conn'[r] # "off" /\ pc'[r] # "writing"
        /\ offset'[r] = Before(lastId[r], wire'[r], n + 1 + 1)
        /\ lastId'[r] = lastId[r]
    BY <1>3, <1>4, <2>4
  <2> QED BY <2>3, <2>5 DEF ChainOK
<1>8. ViewOK(r)'
  BY <1>1, ReaderStep
<1> QED BY <1>2, <1>6, <1>7, <1>8 DEF GapInv

\* The event received replaces what the reader shows, or continues it.
LEMMA ReceiveStep ==
  ASSUME TypeOK, StoreInv, GapInv, [Next]_vars, NEW r \in Readers, Receive(r)
  PROVE  GapInv'
<1> DEFINE w == wire[r]
           ev == w[1]
           v == view[r]
           k == Follows[r]
<1>1. /\ conn[r] = "on" /\ w # <<>>
      /\ view' = [view EXCEPT ![r] = Shown(v, Head(w))]
      /\ lastId' = [lastId EXCEPT ![r] = Head(w).to]
      /\ conn' = [conn EXCEPT ![r] = IF Head(w).kind = "gone" THEN "done" ELSE "on"]
      /\ wire' = [wire EXCEPT ![r] = Tail(w)]
      /\ UNCHANGED <<entries, epochs, pc, offset, hand>>
  BY DEF Receive, store, streams
<1>2. ASSUME NEW i \in Readers, i # r PROVE EventsOK(i)' /\ ChainOK(i)' /\ ViewOK(i)'
  BY <1>1, <1>2, ReaderStep DEF TypeOK
<1>3. /\ w \in Seq(Events) /\ Len(w) \in Nat /\ 1 <= Len(w) /\ Head(w) = ev /\ ev \in Events
      /\ Len(Tail(w)) = Len(w) - 1
      /\ \A i \in 1..(Len(w) - 1) : Tail(w)[i] = w[i + 1]
  BY <1>1 DEF TypeOK
<1>4. /\ wire'[r] = Tail(w) /\ lastId'[r] = ev.to /\ view'[r] = Shown(v, ev)
      /\ conn'[r] # "off" /\ pc'[r] = pc[r] /\ offset'[r] = offset[r] /\ hand'[r] = hand[r]
      /\ conn'[r] = "on" => conn[r] = "on"
  BY <1>1, <1>3 DEF TypeOK
<1>5. /\ EventOK(k, hand[r]) /\ \A i \in 1..Len(w) : EventOK(k, w[i])
      /\ \A i \in 1..Len(w) : w[i].kind # "reset" => w[i].from = Before(lastId[r], w, i)
      /\ pc[r] \notin {"idle", "leaving"} => offset[r] = Before(lastId[r], w, Len(w) + 1)
      /\ pc[r] = "writing" /\ hand[r].kind # "reset" => hand[r].from = offset[r]
  BY <1>1 DEF GapInv, EventsOK, ChainOK
<1>6. \A i \in 1..(Len(w) - 1) : i + 1 \in 1..Len(w)
  BY <1>3
<1>7. EventsOK(r)'
  <2>1. \A e : EventOK(k, e) => EventOK(k, e)'
    BY <1>1 DEF EventOK, ReachesBack
  <2>2. \A i \in 1..(Len(w) - 1) : EventOK(k, Tail(w)[i])
    BY <1>3, <1>5, <1>6
  <2>3. EventOK(k, hand[r])' /\ \A i \in 1..(Len(w) - 1) : EventOK(k, wire[r][i])'
    BY <1>4, <1>5, <2>1, <2>2
  <2> QED BY <1>3, <1>4, <2>3 DEF EventsOK
<1>8. ChainOK(r)'
  <2>1. \A i \in 1..Len(w) : Before(ev.to, Tail(w), i) = Before(lastId[r], w, i + 1)
    <3> SUFFICES ASSUME NEW i \in 1..Len(w)
                 PROVE  Before(ev.to, Tail(w), i) = Before(lastId[r], w, i + 1)
      OBVIOUS
    <3>1. i + 1 # 1 /\ (i + 1) - 1 = i /\ (i = 1 \/ i - 1 \in 1..(Len(w) - 1)) /\ (i - 1) + 1 = i
      BY <1>3
    <3>2. Before(lastId[r], w, i + 1) = w[i].to
      BY <3>1 DEF Before
    <3>3. CASE i = 1
      BY <3>2, <3>3 DEF Before
    <3>4. CASE i # 1
      <4>1. Tail(w)[i - 1] = w[(i - 1) + 1]
        BY <1>3, <3>1, <3>4
      <4>2. Before(ev.to, Tail(w), i) = Tail(w)[i - 1].to
        BY <3>4 DEF Before
      <4> QED BY <3>1, <3>2, <4>1, <4>2
    <3> QED BY <3>3, <3>4
  <2>2. ASSUME NEW i \in 1..(Len(w) - 1), Tail(w)[i].kind # "reset"
        PROVE  Tail(w)[i].from = Before(ev.to, Tail(w), i)
    <3>1. i + 1 \in 1..Len(w) /\ i \in 1..Len(w)
      BY <1>3
    <3>2. Tail(w)[i] = w[i + 1]
      BY <1>3
    <3>3. w[i + 1].from = Before(lastId[r], w, i + 1)
      BY <1>5, <2>2, <3>1, <3>2
    <3> QED BY <2>1, <3>1, <3>2, <3>3
  <2>3. pc[r] \notin {"idle", "leaving"}
          => offset[r] = Before(ev.to, Tail(w), (Len(w) - 1) + 1)
    <3>1. (Len(w) - 1) + 1 = Len(w) /\ Len(w) \in 1..Len(w)
      BY <1>3
    <3>2. Before(ev.to, Tail(w), Len(w)) = Before(lastId[r], w, Len(w) + 1)
      BY <2>1, <3>1
    <3> QED BY <1>5, <3>1, <3>2
  <2>4. \A i \in 1..Len(wire'[r]) : wire'[r][i].kind # "reset"
           => wire'[r][i].from = Before(lastId'[r], wire'[r], i)
    BY <1>3, <1>4, <2>2
  <2>5. pc'[r] \notin {"idle", "leaving"}
           => offset'[r] = Before(lastId'[r], wire'[r], Len(wire'[r]) + 1)
    BY <1>3, <1>4, <2>3
  <2> QED BY <1>4, <1>5, <2>4, <2>5 DEF ChainOK
<1>9. ViewOK(r)'
  <2>1. 1 \in 1..Len(w)
    BY <1>3
  <2>2. /\ EventOK(k, ev)
        /\ ev.kind # "reset" => ev.from = lastId[r]
    <3>1. Before(lastId[r], w, 1) = lastId[r]
      BY DEF Before
    <3> QED BY <1>5, <2>1, <3>1
  <2>3. /\ v \in Views /\ v.from \in Nat /\ v.to \in Nat /\ v.epoch \in Nat
        /\ v.from <= v.to /\ v.to = lastId[r] /\ (v.from = v.to => v.to = 0)
        /\ v.epoch <= epochs /\ ~v.gap
        /\ ~v.spliced => ReachesBack(k, v.epoch, v.from)
    BY DEF TypeOK, Views, GapInv, ViewOK
  <2>4. /\ ev.from \in Nat /\ ev.to \in Nat /\ ev.epoch \in Nat /\ ev.from <= ev.to
        /\ ev.epoch <= epochs /\ epochs \in Nat
        /\ ev.kind \in {"none", "gone", "reset", "append"}
        /\ ev.kind \in {"none", "gone"} => ev.from = ev.to
        /\ ev.kind = "reset" =>
             (ev.from = ev.to => ev.to = 0) /\ ReachesBack(k, ev.epoch, ev.from)
    BY <1>3, <2>2 DEF EventOK, Events, TypeOK
  <2> DEFINE s == Shown(v, ev)
             Good(x) == /\ x.from <= x.to /\ x.to = ev.to /\ (x.from = x.to => x.to = 0)
                        /\ x.epoch <= epochs /\ ~x.gap
                        /\ ~x.spliced => ReachesBack(k, x.epoch, x.from)
  <2>5. ASSUME ev.kind = "reset" PROVE Good(s)
    <3>1. s = Replaced(ev)
      BY <2>5 DEF Shown
    <3>2. /\ s.epoch = ev.epoch /\ s.from = ev.from /\ s.to = ev.to /\ ~s.gap
      BY <3>1 DEF Replaced
    <3> HIDE DEF s, ev
    <3> QED BY <2>4, <2>5, <3>2
  <2>6. ASSUME ev.from = ev.to, ev.kind # "reset" PROVE Good(s)
    <3>1. s = v
      BY <2>6 DEF Shown, Appended
    <3> QED BY <2>2, <2>3, <2>6, <3>1
  <2>7. ASSUME ev.from # ev.to, ev.kind = "append", v.epoch = ev.epoch PROVE Good(s)
    <3>1. s = [v EXCEPT !.to = ev.to, !.gap = v.gap \/ ev.from # v.to]
      BY <2>7 DEF Shown, Appended
    <3>2. ev.from = v.to
      BY <2>2, <2>3, <2>7
    <3>3. s.epoch = v.epoch /\ s.from = v.from /\ s.to = ev.to /\ s.spliced = v.spliced /\ ~s.gap
      BY <2>3, <3>1, <3>2 DEF Views
    <3> HIDE DEF s, ev, v
    <3>4. s.from <= s.to /\ s.from # s.to
      BY <2>3, <2>4, <2>7, <3>2, <3>3
    <3> QED BY <2>3, <2>4, <3>3, <3>4
  <2>8. ASSUME ev.from # ev.to, ev.kind = "append", v.epoch # ev.epoch PROVE Good(s)
    <3>1. s = [Replaced(ev) EXCEPT !.spliced = v.from # v.to]
      BY <2>8 DEF Shown, Appended
    <3>2. /\ s.epoch = ev.epoch /\ s.from = ev.from /\ s.to = ev.to /\ ~s.gap
          /\ s.spliced <=> v.from # v.to
      BY <3>1 DEF Replaced
    <3>3. ~s.spliced => ev.from = 0
      BY <2>2, <2>3, <2>8, <3>2
    <3>4. ~s.spliced => ReachesBack(k, s.epoch, s.from)
      <4>1. \A j \in DOMAIN entries : entries[j].start \in Nat
        BY DEF TypeOK, Entries
      <4>2. \A j \in DOMAIN entries : 0 <= entries[j].start
        BY <4>1
      <4> QED BY <3>2, <3>3, <4>2 DEF ReachesBack
    <3> HIDE DEF s, ev, v
    <3> QED BY <2>4, <2>8, <3>2, <3>4
  <2>9. Good(s)
    BY <2>4, <2>5, <2>6, <2>7, <2>8
  <2> HIDE DEF s
  <2>10. view'[r] = s /\ lastId'[r] = ev.to
    BY <1>4 DEF s
  <2> HIDE DEF ev
  <2> QED BY <1>1, <2>9, <2>10 DEF ViewOK, ReachesBack
<1> QED BY <1>2, <1>7, <1>8, <1>9 DEF GapInv

\* Every other step changes no event on its way, and breaks or makes a
\* connection with nothing on it.
LEMMA GapStep ==
  ASSUME TypeOK, StoreInv, GapInv, [Next]_vars
  PROVE  GapInv'
<1>1. ASSUME UNCHANGED <<wire, conn, pc, offset, hand, lastId, view>> PROVE GapInv'
  BY <1>1, ReaderStep DEF GapInv
<1>2. ASSUME NEW k \in Services,
             Post(k) \/ BadBatch(k) \/ Remove(k) \/ Register(k)
               \/ \E text \in Texts : AppendLogs(k, text)
      PROVE  GapInv'
  BY <1>1, <1>2 DEF Post, BadBatch, Remove, Register, AppendLogs, streams, clients
<1>3. ASSUME NEW r \in Readers, Connect(r) PROVE GapInv'
  <2>1. UNCHANGED <<entries, epochs, hand, wire, lastId, view>>
    BY <1>3 DEF Connect, store
  <2>2. ASSUME NEW i \in Readers, i # r PROVE EventsOK(i)' /\ ChainOK(i)' /\ ViewOK(i)'
    <3>1. pc'[i] = pc[i] /\ conn'[i] = conn[i] /\ offset'[i] = offset[i]
      BY <1>3, <2>2 DEF Connect, TypeOK
    <3> QED BY <2>1, <3>1, ReaderStep
  <2>3. ChainOK(r)'
    <3>1. conn[r] = "off" /\ wire[r] = <<>> /\ pc'[r] # "writing" /\ pc[r] = "idle"
      BY <1>3 DEF Connect, GapInv, ChainOK, TypeOK
    <3>2. conn'[r] = "on" => offset'[r] = lastId[r]
      BY <1>3, <3>1 DEF Connect, TypeOK
    <3> QED BY <2>1, <3>1, <3>2 DEF ChainOK, Before
  <2> QED BY <2>1, <2>2, <2>3, ReaderStep DEF GapInv
<1>4. ASSUME NEW r \in Readers, NEW p, pc' = [pc EXCEPT ![r] = p], p # "writing",
             pc[r] \in {"idle", "leaving"} => p \in {"idle", "leaving"},
             UNCHANGED <<offset, hand, wire, conn, lastId, view>>
      PROVE  GapInv'
  <2>1. ASSUME NEW i \in Readers, i # r PROVE EventsOK(i)' /\ ChainOK(i)' /\ ViewOK(i)'
    BY <1>4, <2>1, ReaderStep DEF TypeOK
  <2>2. ChainOK(r)'
    BY <1>4 DEF GapInv, ChainOK, TypeOK, Before
  <2> QED BY <1>4, <2>1, <2>2, ReaderStep DEF GapInv
<1>5. ASSUME NEW r \in Readers, Subscribe(r) \/ Woken(r) PROVE GapInv'
  <2>1. /\ pc[r] \in {"accepted", "waiting"}
        /\ \E p \in {"subscribed", "woken"} : pc' = [pc EXCEPT ![r] = p]
        /\ UNCHANGED <<offset, hand, wire, conn, lastId, view>>
    BY <1>5 DEF Subscribe, Woken, clients
  <2> QED BY <1>4, <2>1
<1>6. ASSUME NEW r \in Readers, FirstRead(r) PROVE GapInv'
  <2> DEFINE ev == ReadFrom(Follows[r], offset[r])
             sent == IF offset[r] = 0 THEN [ev EXCEPT !.kind = "reset"] ELSE ev
  <2>1. Prepare(r, sent) /\ UNCHANGED <<entries, epochs, clients>> /\ pc[r] = "subscribed"
    BY <1>6 DEF FirstRead, store
  <2>2. EventOK(Follows[r], sent) /\ (sent.kind # "reset" => sent.from = offset[r])
    <3>1. Follows[r] \in Services /\ offset[r] \in Nat
      BY StreamAssumption DEF TypeOK
    <3>2. /\ EventOK(Follows[r], ev) /\ ev.kind \in {"append", "reset"}
          /\ ev.kind = "append" => ev.from = offset[r]
          /\ offset[r] = 0 => EventOK(Follows[r], [ev EXCEPT !.kind = "reset"])
      BY <3>1, ReadFromOK
    <3>3. CASE offset[r] = 0
      BY <3>2, <3>3 DEF EventOK, Events
    <3>4. CASE offset[r] # 0
      BY <3>2, <3>4
    <3> QED BY <3>3, <3>4
  <2> HIDE DEF sent
  <2> QED BY <2>1, <2>2, PrepareStep
<1>7. ASSUME NEW r \in Readers, Reread(r) PROVE GapInv'
  <2> DEFINE ev == ReadFrom(Follows[r], offset[r])
  <2>1. CASE ev.from = ev.to /\ ev.kind = "append"
    <3>1. /\ pc[r] = "woken" /\ pc' = [pc EXCEPT ![r] = "waiting"]
          /\ UNCHANGED <<offset, hand, wire, conn, lastId, view>>
      BY <1>7, <2>1 DEF Reread, clients
    <3> QED BY <1>4, <3>1
  <2>2. CASE ~(ev.from = ev.to /\ ev.kind = "append")
    <3>1. Prepare(r, ev) /\ UNCHANGED <<entries, epochs, clients>> /\ pc[r] = "woken"
      BY <1>7, <2>2 DEF Reread, store
    <3>2. Follows[r] \in Services /\ offset[r] \in Nat
      BY StreamAssumption DEF TypeOK
    <3>3. EventOK(Follows[r], ev) /\ (ev.kind # "reset" => ev.from = offset[r])
      BY <3>2, ReadFromOK
    <3> QED BY <3>1, <3>3, PrepareStep
  <2> QED BY <2>1, <2>2
<1>8. ASSUME NEW r \in Readers, KeepAliveGone(r) PROVE GapInv'
  <2> DEFINE ev == Event("gone", 0, offset[r], offset[r])
  <2>1. Prepare(r, ev) /\ UNCHANGED <<entries, epochs, clients>> /\ pc[r] = "waiting"
    BY <1>8 DEF KeepAliveGone, store
  <2>2. offset[r] \in Nat /\ epochs \in Nat
    BY DEF TypeOK
  <2>3. EventOK(Follows[r], ev) /\ ev.from = offset[r]
    BY <2>2 DEF EventOK, Event, Events
  <2> QED BY <2>1, <2>3, PrepareStep
<1>9. ASSUME NEW r \in Readers, NEW p \in {"idle", "leaving"}, pc' = [pc EXCEPT ![r] = p],
             UNCHANGED <<entries, epochs, wire, conn, lastId, view>>,
             \A i \in Readers \ {r} : offset'[i] = offset[i] /\ hand'[i] = hand[i],
             hand'[r] \in {hand[r], NoEvent},
             conn[r] # "on" \/ pc[r] = "leaving"
      PROVE  GapInv'
  <2>1. ASSUME NEW i \in Readers, i # r PROVE EventsOK(i)' /\ ChainOK(i)' /\ ViewOK(i)'
    BY <1>9, <2>1, ReaderStep DEF TypeOK
  <2>2. ChainOK(r)'
    BY <1>9 DEF GapInv, ChainOK, TypeOK, Before
  <2>3. EventsOK(r)'
    <3>1. EventOK(Follows[r], NoEvent)
      BY DEF EventOK, NoEvent, Event, Events, TypeOK
    <3> QED BY <1>9, <3>1 DEF GapInv, EventsOK, EventOK, ReachesBack
  <2> QED BY <1>9, <2>1, <2>2, <2>3, ReaderStep DEF GapInv
<1>10. ASSUME NEW r \in Readers, Hangup(r) PROVE GapInv'
  <2>1. /\ pc' = [pc EXCEPT ![r] = "leaving"] /\ conn[r] # "on"
        /\ hand' = [hand EXCEPT ![r] = NoEvent]
        /\ UNCHANGED <<offset, entries, epochs, wire, conn, lastId, view>>
    BY <1>10 DEF Hangup, store, clients
  <2> QED BY <1>9, <2>1 DEF TypeOK
<1>11. ASSUME NEW r \in Readers, Unsubscribe(r) PROVE GapInv'
  <2>1. /\ pc' = [pc EXCEPT ![r] = "idle"] /\ pc[r] = "leaving"
        /\ offset' = [offset EXCEPT ![r] = 0]
        /\ UNCHANGED <<hand, entries, epochs, wire, conn, lastId, view>>
    BY <1>11 DEF Unsubscribe, store, clients
  <2> QED BY <1>9, <2>1 DEF TypeOK
<1>12. ASSUME NEW r \in Readers, Break(r) PROVE GapInv'
  <2>1. /\ conn' = [conn EXCEPT ![r] = "off"] /\ wire' = [wire EXCEPT ![r] = <<>>]
        /\ UNCHANGED <<entries, epochs, pc, offset, hand, lastId, view>>
    BY <1>12 DEF Break, store, streams
  <2>2. ASSUME NEW i \in Readers, i # r PROVE EventsOK(i)' /\ ChainOK(i)' /\ ViewOK(i)'
    BY <2>1, <2>2, ReaderStep DEF TypeOK
  <2>3. wire'[r] = <<>> /\ conn'[r] = "off"
    BY <2>1 DEF TypeOK
  <2>4. ChainOK(r)'
    BY <2>1, <2>3 DEF GapInv, ChainOK
  <2>5. EventsOK(r)'
    BY <2>1, <2>3 DEF GapInv, EventsOK, EventOK, ReachesBack
  <2> QED BY <2>1, <2>2, <2>4, <2>5, ReaderStep DEF GapInv
<1>13. ASSUME Restart PROVE GapInv'
  <2> SUFFICES ASSUME NEW r \in Readers PROVE EventsOK(r)' /\ ChainOK(r)' /\ ViewOK(r)'
    BY DEF GapInv
  <2>1. /\ wire'[r] = <<>> /\ conn'[r] # "on" /\ pc'[r] = "idle" /\ hand'[r] = NoEvent
        /\ UNCHANGED <<lastId, view, epochs>>
    BY <1>13 DEF Restart
  <2>2. ChainOK(r)'
    BY <2>1 DEF ChainOK
  <2>3. EventsOK(r)'
    BY <2>1 DEF EventsOK, EventOK, NoEvent, Event, Events, TypeOK
  <2> QED BY <2>1, <2>2, <2>3, ReaderStep
<1>14. UNCHANGED vars => UNCHANGED <<wire, conn, pc, offset, hand, lastId, view>>
  BY DEF vars, streams, clients
<1> QED
  BY <1>1, <1>2, <1>3, <1>5, <1>6, <1>7, <1>8, <1>10, <1>11, <1>12, <1>13, <1>14,
     WriteStep, ReceiveStep DEF Next, Step, Stream

LEMMA GapInvariant == Spec => [](TypeOK /\ GapInv)
<1>1. TypeOK /\ StoreInv /\ StoreInv' /\ GapInv /\ [Next]_vars => TypeOK' /\ GapInv'
  BY TypeStep, GapStep
<1> QED BY <1>1, InitGap, StoreInvariant, PTL DEF Spec

\* Every variable has its type, views and events on their way included.
THEOREM TypeCorrect == Spec => []TypeOK
  BY GapInvariant, PTL

\* However often connections break and whatever is appended, trimmed away or
\* evicted meanwhile, what a reader shows has no hole and no repetition and
\* reaches back to the oldest byte retained: the events on a connection form a
\* chain that begins at the id that its reader resumed from.
THEOREM NoGapShown == Spec => []Gapless
<1>1. GapInv => Gapless
  BY DEF GapInv, ViewOK, ReachesBack, Gapless
<1> QED BY <1>1, GapInvariant, PTL

(***************************************************************************)
(* Lines.                                                                  *)
(***************************************************************************)

TextOK(b) ==
  /\ b.start \in Nat /\ b.end \in Nat /\ b.start <= b.end
  /\ b.newlines \subseteq b.start..(b.end - 1)

\* The line breaks that have something behind them.
Inner(b) == b.newlines \ {b.end - 1}

LEMMA InnerFacts ==
  ASSUME NEW b, TextOK(b)
  PROVE  /\ \A j \in Inner(b) : j \in Nat /\ b.start <= j /\ j + 1 < b.end
         /\ Inner(b) \subseteq Nat
         /\ IsFiniteSet(Inner(b)) /\ Cardinality(Inner(b)) \in Nat
         /\ Inner(b) \subseteq 0..(b.end - 1)
<1>1. \A j \in Inner(b) : j \in Nat /\ b.start <= j /\ j + 1 < b.end
  BY DEF TextOK, Inner
<1>2. Inner(b) \subseteq 0..(b.end - 1) /\ b.end - 1 \in Int
  BY <1>1 DEF TextOK
<1>3. IsFiniteSet(0..(b.end - 1))
  BY <1>2, FS_Interval
<1>4. IsFiniteSet(Inner(b)) /\ Cardinality(Inner(b)) \in Nat
  BY <1>2, <1>3, FS_Subset, FS_CardinalityType
<1>5. QED
  BY <1>1, <1>2, <1>4

\* The last n lines begin behind the n-th of these from the end.
LEMMA LastLinesAt ==
  ASSUME NEW b, TextOK(b), NEW n \in Nat
  PROVE  /\ n = 0 \/ Cardinality(Inner(b)) < n => LastLines(b, n) = b.start
         /\ \A m \in Inner(b) :
              Cardinality({j \in Inner(b) : j >= m}) = n => LastLines(b, n) = m + 1
<1> DEFINE B == Inner(b)
           T == {j + 1 : j \in B}
           L == LineStarts(b)
<1>1. /\ \A j \in B : j \in Nat /\ b.start <= j /\ j + 1 < b.end
      /\ IsFiniteSet(B) /\ Cardinality(B) \in Nat /\ B \subseteq Nat
      /\ b.start \in Nat /\ b.end \in Nat /\ b.start <= b.end
  BY InnerFacts DEF TextOK
<1>2. CASE b.start = b.end
  <2>1. L = {}
    <3>1. b.newlines = {}
      BY <1>2 DEF TextOK
    <3>2. QED
      BY <1>1, <1>2, <3>1 DEF LineStarts
  <2>2. LastLines(b, n) = b.start
    <3>1. Cardinality(L) = 0
      BY <2>1, FS_EmptySet
    <3> HIDE DEF L
    <3>2. Cardinality(L) <= n
      BY <3>1
    <3>3. QED
      BY <3>2 DEF LastLines, L
  <2>3. B = {}
    BY <1>1, <1>2
  <2>4. QED
    BY <2>2, <2>3
<1>3. CASE b.start < b.end
  <2>1. L = {b.start} \cup T /\ b.start \notin T
    <3>1. ASSUME NEW j \in b.newlines PROVE j + 1 < b.end <=> j \in B
      BY <1>1 DEF TextOK, Inner
    <3>2. B \subseteq b.newlines
      BY DEF Inner
    <3>3. L = {b.start} \cup T
      BY <1>1, <1>3, <3>1, <3>2 DEF LineStarts
    <3>4. b.start \notin T
      BY <1>1
    <3>5. QED
      BY <3>3, <3>4
  <2>2. IsFiniteSet(T) /\ Cardinality(T) = Cardinality(B)
    <3> HIDE DEF B
    <3>1. QED
      BY <1>1, CountShifted
  <2>3. IsFiniteSet(L) /\ Cardinality(L) = Cardinality(B) + 1 /\ L \subseteq Nat
    <3>1. T \subseteq Nat
      BY <1>1
    <3> HIDE DEF T, B, L
    <3>2. IsFiniteSet(T \cup {b.start}) /\ Cardinality(T \cup {b.start}) = Cardinality(T) + 1
      BY <2>1, <2>2, FS_AddElement
    <3>3. T \cup {b.start} = L
      BY <2>1
    <3>4. QED
      BY <1>1, <2>1, <2>2, <3>1, <3>2, <3>3
  <2>4. n = 0 \/ Cardinality(B) < n => LastLines(b, n) = b.start
    <3> HIDE DEF B, L
    <3>1. Cardinality(B) < n => Cardinality(L) <= n
      BY <1>1, <2>3
    <3>2. QED
      BY <3>1 DEF LastLines, L
  <2>5. ASSUME NEW m \in B, Cardinality({j \in B : j >= m}) = n
        PROVE  LastLines(b, n) = m + 1
    <3> DEFINE Right(c) == Cardinality({d \in L : d >= c}) = n
               H == {j \in B : j >= m}
    <3>1. {d \in L : d >= m + 1} = {j + 1 : j \in H}
      <4> HIDE DEF L
      <4>1. {d \in L : d >= m + 1} = {d \in T : d >= m + 1}
        BY <1>1, <2>1
      <4>2. {d \in T : d >= m + 1} = {j + 1 : j \in H}
        BY <1>1
      <4>3. QED
        BY <4>1, <4>2
    <3>2. IsFiniteSet(H) /\ H \subseteq Nat /\ H \subseteq B
      <4>1. H \subseteq B
        OBVIOUS
      <4> HIDE DEF H, B
      <4>2. QED
        BY <1>1, <4>1, FS_Subset
    <3>3. Right(m + 1) /\ m + 1 \in L
      <4>1. m + 1 \in L
        BY <2>1
      <4>2. Cardinality({j + 1 : j \in H}) = Cardinality(H)
        <5> HIDE DEF H
        <5>1. QED
          BY <3>2, CountShifted
      <4>3. Cardinality(H) = n
        BY <2>5
      <4> HIDE DEF H, L
      <4>4. QED
        BY <3>1, <4>1, <4>2, <4>3
    <3>4. n # 0 /\ ~(Cardinality(L) <= n)
      <4>1. m \in H
        BY <1>1
      <4>2. Cardinality(H) = n
        BY <2>5
      <4> HIDE DEF H, B, L
      <4>3. Cardinality(H) # 0
        BY <3>2, <4>1, FS_EmptySet
      <4>4. Cardinality(H) <= Cardinality(B)
        BY <1>1, <3>2, FS_Subset
      <4>5. QED
        BY <1>1, <2>3, <4>2, <4>3, <4>4
    <3>5. LastLines(b, n) = CHOOSE c \in L : Right(c)
      BY <3>4 DEF LastLines
    <3>6. \A c \in L : Right(c) => c = m + 1
      <4> HIDE DEF L
      <4>1. QED
        BY <2>3, <3>3, CountOnce
    <3> HIDE DEF L, Right
    <3>7. QED
      BY <3>3, <3>5, <3>6
  <2>6. QED
    BY <2>4, <2>5
<1>4. QED
  BY <1>1, <1>2, <1>3

(***************************************************************************)
(* tailLines.                                                              *)
(***************************************************************************)

\* The loop of TailLines: where it is after k rounds, if f has the rounds
\* before.
Top(b) == IF b.end - 1 \in b.newlines THEN b.end - 1 ELSE b.end

Breaks(b, i) == {m \in b.newlines : m < i}

Back(b, f, k) ==
  IF k = 0 THEN Top(b)
  ELSE IF f[k - 1] <= b.start THEN f[k - 1]
  ELSE IF Breaks(b, f[k - 1]) = {} THEN b.start - 1
  ELSE CHOOSE m \in Breaks(b, f[k - 1]) : \A j \in Breaks(b, f[k - 1]) : j <= m

\* Where it is: at the k-th inner line break from the end, or at the first
\* byte if that is a line break, or before it.
Stop(b) == IF b.start \in b.newlines THEN b.start ELSE b.start - 1

Nth(b, k) == CHOOSE m \in Inner(b) : Cardinality({j \in Inner(b) : j >= m}) = k

At(b, k) ==
  IF k = 0 THEN Top(b) ELSE IF k <= Cardinality(Inner(b)) THEN Nth(b, k) ELSE Stop(b)

LEMMA NthFacts ==
  ASSUME NEW b, TextOK(b), NEW k \in Nat, 1 <= k, k <= Cardinality(Inner(b))
  PROVE  /\ Nth(b, k) \in Inner(b)
         /\ Cardinality({j \in Inner(b) : j >= Nth(b, k)}) = k
         /\ \A m \in Inner(b) : Cardinality({j \in Inner(b) : j >= m}) = k => m = Nth(b, k)
<1> DEFINE B == Inner(b)
           Right(m) == Cardinality({j \in B : j >= m}) = k
<1>1. /\ IsFiniteSet(B) /\ B \subseteq Nat /\ B \subseteq 0..(b.end - 1) /\ b.end \in Nat
  BY InnerFacts DEF TextOK
<1>2. \E m \in B : Right(m)
  <2> HIDE DEF B
  <2>1. B \in SUBSET (0..(b.end - 1)) /\ k <= Cardinality(B)
    BY <1>1 DEF B
  <2>2. \E m \in B : Cardinality({j \in B : j >= m}) = k
    BY <1>1, <2>1, CountDown
  <2>3. QED
    BY <2>2
<1>3. Nth(b, k) = CHOOSE m \in B : Right(m)
  BY DEF Nth
<1>4. ASSUME NEW x \in B, NEW y \in B, Right(x), Right(y) PROVE x = y
  <2>1. Cardinality({j \in B : j >= x}) = Cardinality({j \in B : j >= y})
    BY <1>4
  <2> HIDE DEF B
  <2>2. QED
    BY <1>1, <2>1, CountOnce
<1> HIDE DEF B, Right
<1>5. Nth(b, k) \in B /\ Right(Nth(b, k))
  BY <1>2, <1>3
<1>6. \A m \in B : Right(m) => m = Nth(b, k)
  BY <1>4, <1>5
<1>7. QED
  BY <1>5, <1>6 DEF B, Right

\* A greatest element of a finite set of numbers, counted from the end, is the
\* next one.
LEMMA NextBreak ==
  ASSUME NEW S, IsFiniteSet(S), S \subseteq Nat, NEW H \in SUBSET S,
         \A i \in S \ H, j \in H : i < j,
         NEW m \in S \ H, \A i \in S \ H : i <= m
  PROVE  Cardinality({j \in S : j >= m}) = Cardinality(H) + 1
<1>1. {j \in S : j >= m} = H \cup {m}
  <2>1. ASSUME NEW j \in S PROVE j >= m <=> j \in H \/ j = m
    <3>1. j \in Nat /\ m \in Nat
      OBVIOUS
    <3>2. CASE j \in H
      BY <3>1, <3>2
    <3>3. CASE j \notin H
      BY <3>1, <3>3
    <3>4. QED
      BY <3>2, <3>3
  <2>2. QED
    BY <2>1
<1>2. IsFiniteSet(H)
  BY FS_Subset
<1>3. Cardinality(H \cup {m}) = Cardinality(H) + 1
  BY <1>2, FS_AddElement
<1>4. QED
  BY <1>1, <1>3

\* One round leads from one place to the next.
LEMMA BackAt ==
  ASSUME NEW b, TextOK(b), b.start < b.end, NEW n \in Nat, NEW k \in 0..n,
         NEW f, k # 0 => f[k - 1] = At(b, k - 1)
  PROVE  Back(b, f, k) = At(b, k)
<1> DEFINE B == Inner(b)
           K == Cardinality(B)
           i == At(b, k - 1)
<1>1. /\ IsFiniteSet(B) /\ B \subseteq Nat /\ K \in Nat
      /\ \A j \in B : j \in Nat /\ b.start <= j /\ j + 1 < b.end
      /\ b.start \in Nat /\ b.end \in Nat /\ b.newlines \subseteq b.start..(b.end - 1)
  BY InnerFacts DEF TextOK
<1>2. \A j \in b.newlines : j \in Nat /\ b.start <= j /\ j < b.end
  BY <1>1
<1>3. \A j \in b.newlines : j \in B <=> j # b.end - 1
  BY DEF Inner
<1>4. B \subseteq b.newlines
  BY DEF Inner
<1>5. CASE k = 0
  BY <1>5 DEF Back, At
<1>6. CASE k # 0
  <2>1. k - 1 \in Nat /\ k \in Nat /\ k >= 1
    BY <1>6
  <2>2. Back(b, f, k) =
          IF i <= b.start THEN i
          ELSE IF Breaks(b, i) = {} THEN b.start - 1
          ELSE CHOOSE m \in Breaks(b, i) : \A j \in Breaks(b, i) : j <= m
    <3>1. f[k - 1] = i
      BY <1>6
    <3> HIDE DEF i
    <3>2. QED
      BY <1>6, <3>1 DEF Back
  <2> DEFINE H == {j \in B : j >= i}
  <2>3. CASE k - 1 <= K
    \* i has the inner line breaks before it that are not among the last k - 1.
    <3>1. /\ i \in Int /\ Cardinality(H) = k - 1 /\ b.start <= i
          /\ Breaks(b, i) = B \ H
          /\ i = b.start => b.start \in b.newlines /\ K = k - 1
      <4>1. CASE k - 1 = 0
        <5>1. i = Top(b)
          BY <4>1 DEF At
        <5>2. i \in Int /\ b.start <= i /\ (i = b.start => b.start \in b.newlines)
          BY <1>1, <1>2, <5>1 DEF Top
        <5>3. \A j \in B : ~(j >= i)
          BY <1>1, <5>1 DEF Top
        <5>4. H = {}
          BY <5>3
        <5>5. Breaks(b, i) = B
          <6>1. \A j \in b.newlines : j < i <=> j \in B
            BY <1>1, <1>2, <1>3, <5>1 DEF Top
          <6> HIDE DEF B, i
          <6>2. QED
            BY <1>4, <6>1 DEF Breaks
        <5>6. i = b.start => B = {}
          BY <1>1, <5>3
        <5> HIDE DEF B, i, H
        <5>7. Cardinality(H) = 0 /\ (i = b.start => K = 0)
          BY <5>4, <5>6, FS_EmptySet
        <5>8. QED
          BY <4>1, <5>2, <5>4, <5>5, <5>7
      <4>2. CASE k - 1 # 0
        <5>1. i = Nth(b, k - 1)
          BY <2>3, <4>2 DEF At
        <5>2. i \in B /\ Cardinality(H) = k - 1
          <6>1. 1 <= k - 1
            BY <2>1, <4>2
          <6>2. /\ Nth(b, k - 1) \in Inner(b)
                /\ Cardinality({j \in Inner(b) : j >= Nth(b, k - 1)}) = k - 1
            BY <2>1, <2>3, <6>1, NthFacts
          <6> HIDE DEF i
          <6>3. QED
            BY <5>1, <6>2
        <5>3. i \in Nat /\ b.start <= i /\ i + 1 < b.end /\ i \in b.newlines
          BY <1>1, <1>4, <5>2
        <5> HIDE DEF i
        <5>4. Breaks(b, i) = B \ H
          <6>1. \A j \in b.newlines : j < i <=> j \in B /\ ~(j >= i)
            BY <1>1, <1>2, <1>3, <5>3
          <6> HIDE DEF B
          <6>2. QED
            BY <1>4, <6>1 DEF Breaks
        <5>5. i = b.start => H = B
          BY <1>1
        <5>6. QED
          BY <5>2, <5>3, <5>4, <5>5
      <4>3. QED
        BY <4>1, <4>2
    <3> HIDE DEF B, i
    <3>a. H \subseteq B /\ IsFiniteSet(H)
      BY <1>1, FS_Subset
    <3>2. CASE i = b.start
      <4>1. At(b, k) = b.start
        BY <1>1, <2>1, <3>1, <3>2 DEF At, Stop, B
      <4>2. QED
        BY <1>1, <2>2, <3>2, <4>1
    <3>3. CASE i # b.start /\ B \ H = {}
      <4>1. K = k - 1
        BY <3>1, <3>3, <3>a
      <4>2. b.start \notin b.newlines
        <5>1. ASSUME b.start \in b.newlines PROVE FALSE
          <6>1. b.start < i
            BY <1>1, <3>1, <3>3
          <6>2. b.start \in Breaks(b, i)
            BY <5>1, <6>1 DEF Breaks
          <6>3. QED
            BY <3>1, <3>3, <6>2
        <5>2. QED
          BY <5>1
      <4>3. At(b, k) = b.start - 1
        BY <1>1, <2>1, <4>1, <4>2 DEF At, Stop, B
      <4>4. QED
        BY <1>1, <2>2, <3>1, <3>3, <4>3
    <3>4. CASE i # b.start /\ B \ H # {}
      <4> DEFINE m == CHOOSE x \in Breaks(b, i) : \A j \in Breaks(b, i) : j <= x
      <4>1. \E x \in B \ H : \A j \in B \ H : j <= x
        <5> HIDE DEF H
        <5>a. \A x \in B : x \in Nat /\ x <= b.end
          BY <1>1
        <5>1. B \ H \in SUBSET Nat /\ \A x \in B \ H : x <= b.end
          BY <5>a
        <5>2. QED
          BY <1>1, <3>4, <5>1, Greatest
      <4>2. m \in B \ H /\ \A j \in B \ H : j <= m
        BY <3>1, <4>1
      <4>3. Back(b, f, k) = m
        BY <1>1, <2>2, <3>1, <3>4
      <4> HIDE DEF m
      <4>4. Cardinality({j \in B : j >= m}) = k
        <5>1. \A x \in B \ H, y \in H : x < y
          BY <1>1, <3>1
        <5>a. H \in SUBSET B /\ m \in B \ H /\ \A x \in B \ H : x <= m
          BY <4>2
        <5> HIDE DEF H
        <5>2. Cardinality({j \in B : j >= m}) = Cardinality(H) + 1
          <6>1. IsFiniteSet(B) /\ B \subseteq Nat
            BY <1>1
          <6>2. QED
            BY <5>1, <5>a, <6>1, NextBreak
        <5>3. QED
          BY <2>1, <3>1, <5>2
      <4>5. k <= K
        <5>1. {j \in B : j >= m} \subseteq B
          OBVIOUS
        <5>2. Cardinality({j \in B : j >= m}) <= K
          BY <1>1, <5>1, FS_Subset
        <5>3. QED
          BY <4>4, <5>2
      <4>6. m = Nth(b, k)
        BY <2>1, <4>2, <4>4, <4>5, NthFacts DEF B
      <4>7. At(b, k) = Nth(b, k)
        BY <1>6, <4>5 DEF At, B
      <4>8. QED
        BY <4>3, <4>6, <4>7
    <3>5. QED
      BY <3>2, <3>3, <3>4
  <2>4. CASE ~(k - 1 <= K)
    <3>1. i = Stop(b) /\ At(b, k) = Stop(b)
      <4>1. k - 1 # 0 /\ ~(k <= K)
        BY <1>1, <2>1, <2>4
      <4>2. QED
        BY <1>6, <2>4, <4>1 DEF At
    <3>2. Stop(b) <= b.start
      BY <1>1 DEF Stop
    <3>3. QED
      BY <2>2, <3>1, <3>2
  <2>5. QED
    BY <2>3, <2>4
<1>7. QED
  BY <1>5, <1>6

\* The loop stays within the text, and finds the last n lines unless the text
\* begins with a blank one.
LEMMA TailLinesOK ==
  ASSUME NEW b, TextOK(b), NEW n \in Nat
  PROVE  /\ TailLines(b, n) \in b.start..b.end
         /\ b.start \notin b.newlines => TailLines(b, n) = LastLines(b, n)
<1> DEFINE B == Inner(b)
           K == Cardinality(B)
           rounds == CHOOSE f : f = [k \in 0..n |-> Back(b, f, k)]
<1>1. /\ b.start \in Nat /\ b.end \in Nat /\ b.start <= b.end /\ K \in Nat
      /\ \A j \in B : j \in Nat /\ b.start <= j /\ j + 1 < b.end
      /\ b.newlines \subseteq b.start..(b.end - 1)
  BY InnerFacts DEF TextOK
<1>2. TailLines(b, n) = IF n = 0 \/ Size(b) = 0 THEN b.start ELSE rounds[n] + 1
  BY DEF TailLines, Back, Breaks, Top
<1>3. CASE n = 0 \/ Size(b) = 0
  <2>1. TailLines(b, n) = b.start
    BY <1>2, <1>3
  <2>2. n = 0 \/ K < n
    <3>1. CASE Size(b) = 0
      <4>1. B = {}
        BY <1>1, <3>1 DEF Size
      <4> HIDE DEF B
      <4>2. K = 0
        BY <4>1, FS_EmptySet
      <4>3. QED
        BY <4>2
    <3>2. QED
      BY <1>3, <3>1
  <2>3. LastLines(b, n) = b.start
    BY <2>2, LastLinesAt
  <2>4. QED
    BY <1>1, <2>1, <2>3
<1>4. CASE n > 0 /\ Size(b) # 0
  <2>1. b.start < b.end
    BY <1>1, <1>4 DEF Size
  <2> DEFINE g == [k \in 0..n |-> At(b, k)]
  <2>2. g = [k \in 0..n |-> Back(b, g, k)]
    <3>1. ASSUME NEW k \in 0..n PROVE Back(b, g, k) = At(b, k)
      <4>1. k # 0 => g[k - 1] = At(b, k - 1)
        OBVIOUS
      <4> HIDE DEF g
      <4>2. QED
        BY <2>1, <4>1, BackAt
    <3>2. QED
      BY <3>1
  <2>3. rounds = [k \in 0..n |-> Back(b, rounds, k)]
    <3> HIDE DEF g
    <3>1. \E f : f = [k \in 0..n |-> Back(b, f, k)]
      BY <2>2
    <3>2. QED
      BY <3>1
  <2> HIDE DEF g, rounds
  <2>4. \A k \in 0..n : rounds[k] = At(b, k)
    <3> DEFINE T == {k \in 0..n : rounds[k] # At(b, k)}
    <3>1. ASSUME T # {} PROVE FALSE
      <4>1. T \in SUBSET Nat
        OBVIOUS
      <4>2. PICK k \in T : \A j \in T : k <= j
        <5> HIDE DEF T
        <5>1. QED
          BY <3>1, <4>1, Least
      <4>3. k \in 0..n /\ rounds[k] # At(b, k)
        OBVIOUS
      <4>4. k # 0 => rounds[k - 1] = At(b, k - 1)
        <5>1. ASSUME k # 0 PROVE k - 1 \in 0..n /\ k - 1 \notin T
          BY <4>2, <5>1
        <5>2. QED
          BY <5>1
      <4>5. Back(b, rounds, k) = At(b, k)
        BY <2>1, <4>3, <4>4, BackAt
      <4>6. rounds[k] = Back(b, rounds, k)
        BY <2>3, <4>3
      <4>7. QED
        BY <4>3, <4>5, <4>6
    <3>2. QED
      BY <3>1
  <2>5. TailLines(b, n) = At(b, n) + 1
    BY <1>2, <1>4, <2>4
  <2>6. CASE n <= K
    <3>1. At(b, n) = Nth(b, n)
      BY <1>4, <2>6 DEF At
    <3>2. Nth(b, n) \in B /\ Cardinality({j \in B : j >= Nth(b, n)}) = n
      BY <1>4, <2>6, NthFacts
    <3>3. LastLines(b, n) = Nth(b, n) + 1
      BY <3>2, LastLinesAt
    <3>4. Nth(b, n) + 1 \in b.start..b.end
      BY <1>1, <3>2
    <3>5. QED
      BY <2>5, <3>1, <3>3, <3>4
  <2>7. CASE ~(n <= K)
    <3>1. At(b, n) = Stop(b)
      BY <1>4, <2>7 DEF At
    <3>2. LastLines(b, n) = b.start
      BY <1>1, <2>7, LastLinesAt
    <3>3. Stop(b) + 1 \in b.start..b.end /\ (b.start \notin b.newlines => Stop(b) + 1 = b.start)
      BY <1>1, <2>1 DEF Stop
    <3>4. QED
      BY <2>5, <3>1, <3>2, <3>3
  <2>8. QED
    BY <2>6, <2>7
<1>5. QED
  BY <1>3, <1>4

(***************************************************************************)
(* The text of a page.                                                     *)
(***************************************************************************)

PageText(b) == b \in [start : Nat, end : Nat, newlines : SUBSET Nat] /\ TextOK(b)

LEMMA TextFacts ==
  ASSUME NEW b, TextOK(b)
  PROVE  /\ \A n \in b.newlines : n \in Nat /\ b.start <= n /\ n < b.end
         /\ IsFiniteSet(b.newlines) /\ Cardinality(b.newlines) \in Nat
         /\ b.newlines \subseteq 0..(b.end - 1)
         /\ b.start \in Nat /\ b.end \in Nat /\ b.start <= b.end
<1>1. \A n \in b.newlines : n \in Nat /\ b.start <= n /\ n < b.end
  BY DEF TextOK
<1>2. b.start \in Nat /\ b.end \in Nat /\ b.start <= b.end /\ b.end - 1 \in Int
  BY DEF TextOK
<1>3. b.newlines \subseteq 0..(b.end - 1)
  BY <1>1, <1>2
<1>4. IsFiniteSet(0..(b.end - 1))
  BY <1>2, FS_Interval
<1>5. IsFiniteSet(b.newlines) /\ Cardinality(b.newlines) \in Nat
  BY <1>3, <1>4, FS_Subset, FS_CardinalityType
<1>6. QED
  BY <1>1, <1>2, <1>3, <1>5

LEMMA CutText ==
  ASSUME NEW b, PageText(b), NEW c \in Nat, b.start <= c, c <= b.end
  PROVE  /\ PageText(CutAt(b, c))
         /\ CutAt(b, c).start = c /\ CutAt(b, c).end = b.end
         /\ CutAt(b, c).newlines = {n \in b.newlines : n >= c}
<1> DEFINE x == CutAt(b, c)
           N == {n \in b.newlines : n >= c}
<1>1. b \in [start : Nat, end : Nat, newlines : SUBSET Nat] /\ N \in SUBSET Nat
  BY TextFacts DEF PageText
<1>2. x = [b EXCEPT !.start = c, !.newlines = N]
  BY DEF CutAt
<1>3. N \subseteq c..(b.end - 1)
  BY TextFacts DEF PageText
<1> HIDE DEF N, x
<1>4. /\ x \in [start : Nat, end : Nat, newlines : SUBSET Nat]
      /\ x.start = c /\ x.end = b.end /\ x.newlines = N
  BY <1>1, <1>2
<1>5. b.end \in Nat
  BY TextFacts DEF PageText
<1>6. QED
  BY <1>3, <1>4, <1>5 DEF PageText, TextOK, N, x

\* The cut by bytes: behind the first line break in the last MaxBytes bytes,
\* or where these begin.
LEMMA ByteCutAt ==
  ASSUME NEW b, TextOK(b), Size(b) > MaxBytes
  PROVE  /\ ByteCut(b) \in Nat /\ b.start < ByteCut(b) /\ ByteCut(b) < b.end
         /\ b.end - ByteCut(b) <= MaxBytes
         /\ \/ ByteCut(b) + MaxBytes = b.end
            \/ /\ ByteCut(b) - 1 \in b.newlines
               /\ \A m \in b.newlines : m + MaxBytes >= b.end => ByteCut(b) - 1 <= m
<1> DEFINE N == b.newlines
           raw == b.end - MaxBytes
           breaks == {n \in N : n >= raw}
           First(n) == n \in breaks /\ (\A m \in breaks : n <= m) /\ n + 1 < b.end
           c == ByteCut(b)
<1>1. /\ b.start \in Nat /\ b.end \in Nat /\ MaxBytes \in Nat /\ 1 <= MaxBytes
      /\ \A n \in N : n \in Nat /\ b.start <= n /\ n < b.end
  BY TextFacts, LimitsAssumption
<1>2. raw \in Nat /\ b.start < raw /\ raw < b.end /\ raw + MaxBytes = b.end
  BY <1>1 DEF Size
<1>3. c = IF \E n \in breaks : First(n) THEN (CHOOSE n \in breaks : First(n)) + 1 ELSE raw
  BY DEF ByteCut
<1>4. CASE \E n \in breaks : First(n)
  <2> DEFINE n == CHOOSE n \in breaks : First(n)
  <2>1. n \in breaks /\ n + 1 < b.end /\ \A m \in breaks : n <= m
    BY <1>4
  <2>2. c = n + 1
    BY <1>3, <1>4
  <2> HIDE DEF n, c
  <2>3. n \in Nat /\ n \in N /\ n >= raw
    BY <1>1, <2>1
  <2>4. \A m \in N : m + MaxBytes >= b.end => m \in breaks
    BY <1>1, <1>2
  <2> HIDE DEF breaks
  <2>5. c \in Nat /\ b.start < c /\ c < b.end /\ b.end - c <= MaxBytes /\ c - 1 = n
    BY <1>1, <1>2, <2>1, <2>2, <2>3
  <2>6. QED
    BY <2>1, <2>3, <2>4, <2>5 DEF c
<1>5. CASE ~\E n \in breaks : First(n)
  <2>1. c = raw
    BY <1>3, <1>5
  <2> HIDE DEF c, raw
  <2>2. b.end - raw <= MaxBytes
    BY <1>1, <1>2
  <2>3. QED
    BY <1>2, <2>1, <2>2 DEF c
<1>6. QED
  BY <1>4, <1>5

\* The page's cut by lines keeps as many line breaks as it may.
LEMMA PageLineCutOK ==
  ASSUME NEW b, TextOK(b)
  PROVE  /\ PageLineCut(b) \in Nat
         /\ b.start <= PageLineCut(b) /\ PageLineCut(b) <= b.end
         /\ Cardinality({n \in b.newlines : n >= PageLineCut(b)}) <= MaxLines
         /\ \/ PageLineCut(b) = b.start
            \/ /\ PageLineCut(b) - 1 \in b.newlines
               /\ Cardinality({n \in b.newlines : n >= PageLineCut(b)}) = MaxLines
<1> DEFINE N == b.newlines
           K == Cardinality(N)
           excess == K - MaxLines
           c == PageLineCut(b)
           Right(k) == Cardinality({i \in N : i < k}) = excess
<1>1. /\ b.start \in Nat /\ b.end \in Nat /\ b.start <= b.end
      /\ \A n \in N : n \in Nat /\ b.start <= n /\ n < b.end
      /\ IsFiniteSet(N) /\ K \in Nat /\ N \subseteq 0..(b.end - 1)
      /\ MaxLines \in Nat /\ 1 <= MaxLines
  BY TextFacts, LimitsAssumption
<1>2. c = IF excess <= 0 THEN b.start ELSE CHOOSE k \in {n + 1 : n \in N} : Right(k)
  BY DEF PageLineCut
<1>3. CASE excess <= 0
  <2>1. c = b.start
    BY <1>2, <1>3
  <2>2. {n \in N : n >= c} = N
    BY <1>1, <2>1
  <2>3. Cardinality({n \in N : n >= c}) <= MaxLines
    <3>1. K <= MaxLines
      BY <1>1, <1>3
    <3> HIDE DEF c
    <3>2. QED
      BY <2>2, <3>1
  <2>4. QED
    BY <1>1, <2>1, <2>3
<1>4. CASE excess > 0
  <2>1. excess \in Nat /\ 1 <= excess /\ excess <= K /\ ~(excess <= 0)
    BY <1>1, <1>4
  <2>2. PICK u \in N : Cardinality({i \in N : i < u + 1}) = excess
    <3>1. N \in SUBSET (0..(b.end - 1)) /\ b.end \in Nat /\ excess <= Cardinality(N)
      BY <1>1, <2>1
    <3> HIDE DEF excess, N
    <3>2. QED
      BY <2>1, <3>1, Count
  <2>3. c \in {n + 1 : n \in N} /\ Right(c)
    <3>1. \E k \in {i + 1 : i \in N} : Right(k)
      BY <2>2
    <3>2. c = CHOOSE k \in {i + 1 : i \in N} : Right(k)
      BY <1>2, <2>1
    <3> HIDE DEF c, Right
    <3>3. QED
      BY <3>1, <3>2
  <2>4. PICK j \in N : c = j + 1
    BY <2>3
  <2> HIDE DEF c
  <2>5. c \in Nat /\ b.start <= c /\ c <= b.end /\ c - 1 = j
    BY <1>1, <2>4
  <2>6. Cardinality({n \in N : n >= c}) = MaxLines
    <3> DEFINE low == {i \in N : i < c}
               high == {i \in N : i >= c}
    <3>1. high = N \ low /\ N \cap low = low
      <4>1. \A i \in N : i >= c <=> ~(i < c)
        BY <1>1, <2>5
      <4>2. QED
        BY <4>1
    <3>2. Cardinality(low) = excess
      BY <2>3
    <3> HIDE DEF low, high
    <3>3. Cardinality(N \ low) = K - Cardinality(N \cap low)
      BY <1>1, FS_Difference
    <3>4. Cardinality(high) = MaxLines
      BY <1>1, <3>1, <3>2, <3>3
    <3>5. QED
      BY <3>4 DEF high
  <2>7. QED
    BY <1>1, <2>4, <2>5, <2>6 DEF c
<1>5. QED
  BY <1>1, <1>3, <1>4

\* What the page keeps of a text, and where it cuts it.
LEMMA PageTrimOK ==
  ASSUME NEW b, PageText(b), NEW t, t = PageTrim(b)
  PROVE  /\ PageText(t) /\ t.end = b.end /\ b.start <= t.start
         /\ t.newlines = {n \in b.newlines : n >= t.start}
         /\ Cardinality(t.newlines) <= MaxLines /\ Size(t) <= MaxBytes
         /\ PageLineCut(b) <= t.start
         /\ \/ t.start = PageLineCut(b)
            \/ /\ PageLineCut(b) + MaxBytes < b.end
               /\ \/ t.start + MaxBytes = b.end
                  \/ /\ t.start - 1 \in b.newlines
                     /\ \A m \in b.newlines :
                          m >= PageLineCut(b) /\ m + MaxBytes >= b.end => t.start - 1 <= m
<1> DEFINE c == PageLineCut(b)
           l == CutAt(b, c)
           d == ByteCut(l)
           N == b.newlines
<1>1. /\ b.start \in Nat /\ b.end \in Nat /\ b.start <= b.end
      /\ \A n \in N : n \in Nat /\ b.start <= n /\ n < b.end
      /\ IsFiniteSet(N) /\ MaxLines \in Nat /\ MaxBytes \in Nat
  BY TextFacts, LimitsAssumption DEF PageText
<1>2. /\ c \in Nat /\ b.start <= c /\ c <= b.end
      /\ Cardinality({n \in N : n >= c}) <= MaxLines
  BY PageLineCutOK DEF PageText
<1>3. t = IF Size(l) > MaxBytes THEN CutAt(b, d) ELSE l
  BY DEF PageTrim
<1> HIDE DEF c
<1>4. PageText(l) /\ l.start = c /\ l.end = b.end /\ l.newlines = {n \in N : n >= c}
  BY <1>2, CutText
\* Whatever is behind the cut by lines has at most MaxLines complete lines.
<1>5. ASSUME NEW x, NEW e \in Nat, c <= e, e <= b.end, x = CutAt(b, e)
      PROVE  /\ PageText(x) /\ x.start = e /\ x.end = b.end
             /\ x.newlines = {n \in N : n >= e} /\ Cardinality(x.newlines) <= MaxLines
  <2>1. /\ PageText(x) /\ x.start = e /\ x.end = b.end /\ x.newlines = {n \in N : n >= e}
    <3>1. b.start <= e
      BY <1>1, <1>2, <1>5
    <3>2. QED
      BY <1>5, <3>1, CutText
  <2>2. \A n \in N : n >= e => n >= c
    BY <1>1, <1>2, <1>5
  <2>3. x.newlines \subseteq {n \in N : n >= c} /\ IsFiniteSet({n \in N : n >= c})
    BY <1>1, <2>1, <2>2, FS_Subset
  <2>4. Cardinality(x.newlines) <= MaxLines /\ Cardinality(x.newlines) \in Nat
    <3> DEFINE M == {n \in N : n >= c}
    <3>1. Cardinality(M) <= MaxLines /\ x.newlines \subseteq M /\ IsFiniteSet(M)
      BY <1>2, <2>3
    <3> HIDE DEF M
    <3>2. /\ Cardinality(x.newlines) <= Cardinality(M)
          /\ IsFiniteSet(x.newlines) /\ IsFiniteSet(M)
      BY <3>1, FS_Subset
    <3>3. Cardinality(M) \in Nat /\ Cardinality(x.newlines) \in Nat
      BY <3>2, FS_CardinalityType
    <3>4. QED
      BY <1>1, <3>1, <3>2, <3>3
  <2>5. QED
    BY <2>1, <2>4
<1>6. CASE Size(l) > MaxBytes
  <2>1. t = CutAt(b, d)
    BY <1>3, <1>6
  <2>2. /\ d \in Nat /\ c < d /\ d < b.end /\ b.end - d <= MaxBytes
        /\ \/ d + MaxBytes = b.end
           \/ /\ d - 1 \in l.newlines
              /\ \A m \in l.newlines : m + MaxBytes >= b.end => d - 1 <= m
    <3> HIDE DEF l
    <3>1. TextOK(l)
      BY <1>4 DEF PageText
    <3>2. QED
      BY <1>4, <1>6, <3>1, ByteCutAt
  <2> HIDE DEF d
  <2>3. c + MaxBytes < b.end
    BY <1>1, <1>2, <1>4, <1>6 DEF Size
  <2>4. /\ PageText(t) /\ t.start = d /\ t.end = b.end
        /\ t.newlines = {n \in N : n >= d} /\ Cardinality(t.newlines) <= MaxLines
    <3>1. c <= d /\ d <= b.end
      BY <1>1, <1>2, <2>2
    <3>2. QED
      BY <1>5, <2>1, <2>2, <3>1
  <2>5. Size(t) <= MaxBytes
    BY <2>2, <2>4 DEF Size
  <2>6. d - 1 \in l.newlines => d - 1 \in N
    BY <1>4
  <2>7. \A m \in N : m >= c => m \in l.newlines
    BY <1>4
  <2> HIDE DEF l, N
  <2>8. b.start <= t.start /\ c <= t.start
    BY <1>1, <1>2, <2>2, <2>4
  <2>9. QED
    BY <2>2, <2>3, <2>4, <2>5, <2>6, <2>7, <2>8 DEF c, N
<1>7. CASE ~(Size(l) > MaxBytes)
  <2>1. t = CutAt(b, c)
    BY <1>3, <1>7
  <2>2. Size(t) <= MaxBytes
    <3>1. Size(l) \in Int
      BY <1>1, <1>2, <1>4 DEF Size
    <3> HIDE DEF l
    <3>2. Size(l) <= MaxBytes
      BY <1>1, <1>7, <3>1
    <3>3. QED
      BY <2>1, <3>2 DEF l
  <2>3. /\ PageText(t) /\ t.start = c /\ t.end = b.end
        /\ t.newlines = {n \in N : n >= c} /\ Cardinality(t.newlines) <= MaxLines
    <3>1. c <= c
      BY <1>2
    <3>2. QED
      BY <1>2, <1>5, <2>1, <3>1
  <2> HIDE DEF N, l
  <2>4. QED
    BY <1>2, <2>2, <2>3 DEF c, N
<1>8. QED
  BY <1>6, <1>7

(***************************************************************************)
(* A page that shows an entry.                                             *)
(***************************************************************************)

\* Of what both hold, text t shows what entry e holds.  It begins later only
\* if the entry is as long as the limit and t begins behind its first line
\* break, and earlier than that the entry begins behind a line break, too.
Mirrors(t, e) ==
  /\ t.end <= e.end
  /\ \A n \in Nat : n >= t.start /\ n >= e.start /\ n < t.end
                      => (n \in t.newlines <=> n \in e.newlines)
  /\ t.start < e.start /\ e.start <= t.end
       => e.start - 1 \in t.newlines \/ Size(e) = MaxBytes
  /\ t.start > e.start
       => /\ Size(e) = MaxBytes /\ t.start - 1 \in e.newlines
          /\ \A m \in e.newlines : m >= t.start - 1

LEMMA BufferText ==
  ASSUME NEW b, BufferOK(b)
  PROVE  TextOK(b)
  BY BufferFacts DEF BufferOK, TextOK

\* Where trim cuts a buffer.
LEMMA TrimCut ==
  ASSUME NEW b, BufferOK(b), NEW t, t = Trim(b)
  PROVE  /\ t.newlines = {n \in b.newlines : n >= t.start}
         /\ t.start = b.start \/ t.start - 1 \in b.newlines \/ t.start + MaxBytes = b.end
<1> DEFINE c == LineCut(b)
           d == ByteCut(b)
           l == CutAt(b, c)
<1>1. /\ c \in Nat /\ b.start <= c /\ c <= b.end
      /\ c = b.start \/ c - 1 \in b.newlines
  BY LineCutOK
<1>2. t = IF Size(l) > MaxBytes THEN CutAt(b, d) ELSE l
  BY DEF Trim
<1>3. /\ b.start \in Nat /\ b.end \in Nat /\ b.start <= b.end
      /\ MaxBytes \in Nat
  BY BufferFacts, LimitsAssumption DEF BufferOK
<1> HIDE DEF c
<1>4. l.start = c /\ l.end = b.end /\ l.newlines = {n \in b.newlines : n >= c}
  BY <1>1, CutFacts
<1>5. CASE Size(l) > MaxBytes
  <2>1. Size(b) > MaxBytes
    BY <1>1, <1>3, <1>4, <1>5 DEF Size
  <2>2. /\ d \in Nat
        /\ d - 1 \in b.newlines \/ d + MaxBytes = b.end
    BY <2>1, BufferText, ByteCutAt
  <2> HIDE DEF d, l
  <2>3. t = CutAt(b, d)
    BY <1>2, <1>5
  <2>4. t.start = d /\ t.newlines = {n \in b.newlines : n >= d}
    BY <2>2, <2>3, CutFacts
  <2>5. QED
    BY <2>2, <2>4
<1>6. CASE ~(Size(l) > MaxBytes)
  <2> HIDE DEF l
  <2>1. t = l
    BY <1>2, <1>6
  <2>2. QED
    BY <1>1, <1>4, <2>1
<1>7. QED
  BY <1>5, <1>6

\* What an append does to the window of an entry: of the bytes it had it keeps
\* those behind the cut.
LEMMA StoredCut ==
  ASSUME StoreInv, NEW k \in DOMAIN entries, NEW text \in Texts,
         NEW e, e = entries[k], NEW s, s = Stored(k, text)
  PROVE  /\ BufferOK(e) /\ BufferOK(s) /\ Size(s) <= MaxBytes
         /\ e.start <= s.start /\ e.end <= s.end
         /\ \A n \in Nat : n < e.end => (n \in s.newlines <=> n \in e.newlines /\ n >= s.start)
         /\ \/ s.start = e.start
            \/ s.start - 1 \in e.newlines
            \/ s.start > e.end
            \/ s.start + MaxBytes = s.end
<1> DEFINE x == Extended(e, text)
           t == Trim(x)
           more == {e.end + i - 1 : i \in text.newlines}
<1>1. /\ BufferOK(e) /\ k \in Services
  BY DEF StoreInv
<1>2. text.len \in Nat /\ \A i \in text.newlines : i \in Nat /\ 1 <= i
  BY TextsAssumption
<1>3. /\ e.start \in Nat /\ e.end \in Nat /\ e.start <= e.end /\ e.newlines \subseteq Nat
      /\ e \in Entries
  BY <1>1, BufferFacts DEF BufferOK
<1>4. /\ BufferOK(s) /\ Size(s) <= MaxBytes /\ e.start <= s.start
      /\ s.end = e.end + text.len
  BY <1>1, StoredOK
<1>5. s = [t EXCEPT !.used = clock + 1]
  BY DEF Stored
<1>6. /\ BufferOK(x) /\ x.start = e.start /\ x.end = e.end + text.len
      /\ x.newlines = e.newlines \cup more
  <2>1. BufferOK(x) /\ x.start = e.start /\ x.end = e.end + text.len
    BY <1>1, ExtendedOK
  <2>2. x = [e EXCEPT !.end = @ + text.len, !.newlines = @ \cup more]
    BY DEF Extended
  <2> HIDE DEF x, more
  <2>3. QED
    BY <1>3, <2>1, <2>2 DEF Entries
<1> HIDE DEF x
<1>7. /\ BufferOK(t) /\ t.end = x.end
      /\ t.newlines = {n \in x.newlines : n >= t.start}
      /\ t.start = x.start \/ t.start - 1 \in x.newlines \/ t.start + MaxBytes = x.end
  <2> HIDE DEF t
  <2>1. BufferOK(t) /\ t.end = x.end
    BY <1>6, TrimOK DEF t
  <2>2. /\ t.newlines = {n \in x.newlines : n >= t.start}
        /\ t.start = x.start \/ t.start - 1 \in x.newlines \/ t.start + MaxBytes = x.end
    BY <1>6, TrimCut DEF t
  <2>3. QED
    BY <2>1, <2>2
<1> HIDE DEF t
<1>8. s.start = t.start /\ s.end = t.end /\ s.newlines = t.newlines
  BY <1>5, <1>7 DEF BufferOK, Entries
<1>9. \A n \in more : n \in Nat /\ n >= e.end
  BY <1>2, <1>3
<1> HIDE DEF more
<1>10. s.newlines = {n \in e.newlines \cup more : n >= s.start}
  BY <1>6, <1>7, <1>8
<1>11. ASSUME NEW n \in Nat, n < e.end
       PROVE  n \in s.newlines <=> n \in e.newlines /\ n >= s.start
  <2>1. n \notin more
    BY <1>3, <1>9, <1>11
  <2>2. QED
    BY <1>10, <2>1
<1>12. /\ s.start \in Nat /\ s.end \in Nat /\ e.end <= s.end
  BY <1>2, <1>3, <1>4, BufferFacts
<1>13. s.start - 1 \in more => s.start > e.end
  BY <1>3, <1>9, <1>12
<1>14. \/ s.start = e.start
       \/ s.start - 1 \in e.newlines
       \/ s.start > e.end
       \/ s.start + MaxBytes = s.end
  BY <1>6, <1>7, <1>8, <1>13
<1>15. QED
  BY <1>1, <1>4, <1>11, <1>12, <1>14

\* A page that lags behind still mirrors what is left of what it read.
LEMMA MirrorsStored ==
  ASSUME StoreInv, NEW k \in DOMAIN entries, NEW text \in Texts,
         NEW t, PageText(t), Mirrors(t, entries[k])
  PROVE  Mirrors(t, Stored(k, text))
<1> DEFINE e == entries[k]
           s == Stored(k, text)
<1> HIDE DEF e, s
<1>1. /\ BufferOK(e) /\ BufferOK(s) /\ Size(s) <= MaxBytes
      /\ e.start <= s.start /\ e.end <= s.end
      /\ \A n \in Nat : n < e.end => (n \in s.newlines <=> n \in e.newlines /\ n >= s.start)
      /\ \/ s.start = e.start
         \/ s.start - 1 \in e.newlines
         \/ s.start > e.end
         \/ s.start + MaxBytes = s.end
  BY StoredCut DEF e, s
<1>2. /\ t.start \in Nat /\ t.end \in Nat /\ t.start <= t.end
      /\ e.start \in Nat /\ e.end \in Nat /\ s.start \in Nat /\ s.end \in Nat
      /\ \A n \in e.newlines : n \in Nat /\ e.start <= n /\ n < e.end
      /\ \A n \in s.newlines : n \in Nat /\ s.start <= n /\ n < s.end
      /\ MaxBytes \in Nat
  BY <1>1, TextFacts, BufferText, LimitsAssumption DEF PageText
<1>3. Mirrors(t, e)
  BY DEF e
<1>4. t.end <= s.end
  BY <1>1, <1>2, <1>3 DEF Mirrors
<1>5. ASSUME NEW n \in Nat, n >= t.start, n >= s.start, n < t.end
      PROVE  n \in t.newlines <=> n \in s.newlines
  <2>1. n >= e.start /\ n < e.end
    BY <1>1, <1>2, <1>3, <1>5 DEF Mirrors
  <2>2. n \in t.newlines <=> n \in e.newlines
    BY <1>3, <1>5, <2>1 DEF Mirrors
  <2>3. QED
    BY <1>1, <1>5, <2>1, <2>2
\* The same window, longer: so it still has as many bytes as it may.
<1>6. s.start = e.start /\ Size(e) = MaxBytes => Size(s) = MaxBytes /\ s.end = e.end
  BY <1>1, <1>2 DEF Size
<1>7. s.start + MaxBytes = s.end => Size(s) = MaxBytes
  BY <1>2 DEF Size
<1>8. ASSUME t.start < s.start, s.start <= t.end
      PROVE  s.start - 1 \in t.newlines \/ Size(s) = MaxBytes
  <2>1. ~(s.start > e.end)
    BY <1>2, <1>3, <1>8 DEF Mirrors
  <2>2. CASE s.start = e.start
    <3>1. e.start - 1 \in t.newlines \/ Size(e) = MaxBytes
      BY <1>3, <1>8, <2>2 DEF Mirrors
    <3>2. QED
      BY <1>6, <2>2, <3>1
  <2>3. CASE s.start - 1 \in e.newlines
    <3>1. s.start - 1 \in Nat /\ s.start - 1 >= t.start /\ s.start - 1 >= e.start
          /\ s.start - 1 < t.end
      BY <1>2, <1>8, <2>3
    <3>2. s.start - 1 \in t.newlines
      BY <1>3, <2>3, <3>1 DEF Mirrors
    <3>3. QED
      BY <3>2
  <2>4. QED
    BY <1>1, <1>7, <2>1, <2>2, <2>3
<1>9. ASSUME t.start > s.start
      PROVE  /\ Size(s) = MaxBytes /\ t.start - 1 \in s.newlines
             /\ \A m \in s.newlines : m >= t.start - 1
  <2>1. t.start > e.start /\ t.start <= e.end
    BY <1>1, <1>2, <1>3, <1>9 DEF Mirrors
  <2>2. /\ Size(e) = MaxBytes /\ t.start - 1 \in e.newlines
        /\ \A m \in e.newlines : m >= t.start - 1
    BY <1>3, <2>1 DEF Mirrors
  <2>3. ~(s.start > e.end) /\ ~(s.start - 1 \in e.newlines)
    BY <1>2, <1>9, <2>1, <2>2
  <2>4. Size(s) = MaxBytes
    BY <1>1, <1>6, <1>7, <2>2, <2>3
  <2>5. t.start - 1 \in Nat /\ t.start - 1 < e.end /\ t.start - 1 >= s.start
    BY <1>2, <1>9, <2>1, <2>2
  <2>6. t.start - 1 \in s.newlines
    BY <1>1, <2>2, <2>5
  <2>7. ASSUME NEW m \in s.newlines PROVE m >= t.start - 1
    <3>1. m \in Nat
      BY <1>2
    <3>2. CASE m < e.end
      BY <1>1, <2>2, <3>1, <3>2
    <3>3. CASE ~(m < e.end)
      BY <1>2, <2>1, <3>1, <3>3
    <3>4. QED
      BY <3>2, <3>3
  <2>8. QED
    BY <2>4, <2>6, <2>7
<1>10. Mirrors(t, s)
  BY <1>4, <1>5, <1>8, <1>9 DEF Mirrors
<1>11. QED
  BY <1>10 DEF s

\* The page's cut takes nothing that the entry keeps, unless the entry is as
\* long as the limit.
LEMMA MirrorsTrim ==
  ASSUME NEW x, PageText(x), NEW e, BufferOK(e), Lines(e) <= MaxLines, Size(e) <= MaxBytes,
         Mirrors(x, e), x.end = e.end
  PROVE  Mirrors(PageTrim(x), e)
<1> DEFINE t == PageTrim(x)
           c == PageLineCut(x)
<1>1. /\ PageText(t) /\ t.end = x.end /\ x.start <= t.start
      /\ t.newlines = {n \in x.newlines : n >= t.start}
      /\ c <= t.start
      /\ \/ t.start = c
         \/ /\ c + MaxBytes < x.end
            /\ \/ t.start + MaxBytes = x.end
               \/ /\ t.start - 1 \in x.newlines
                  /\ \A m \in x.newlines : m >= c /\ m + MaxBytes >= x.end => t.start - 1 <= m
  BY PageTrimOK
<1>2. /\ c \in Nat /\ x.start <= c /\ c <= x.end
      /\ \/ c = x.start
         \/ c - 1 \in x.newlines /\ Cardinality({n \in x.newlines : n >= c}) = MaxLines
  BY PageLineCutOK DEF PageText
<1> HIDE DEF t, c
<1>3. /\ x.start \in Nat /\ x.end \in Nat /\ x.start <= x.end /\ IsFiniteSet(x.newlines)
      /\ t.start \in Nat /\ t.end \in Nat /\ t.start <= t.end
      /\ e.start \in Nat /\ e.end \in Nat /\ e.start <= e.end /\ IsFiniteSet(e.newlines)
      /\ \A n \in x.newlines : n \in Nat /\ x.start <= n /\ n < x.end
      /\ \A n \in e.newlines : n \in Nat /\ e.start <= n /\ n < e.end
      /\ MaxBytes \in Nat /\ MaxLines \in Nat
  BY <1>1, TextFacts, BufferText, LimitsAssumption DEF PageText
\* The cut by lines stays before the entry: behind it are the entry's own.
<1>4. c = x.start \/ c <= e.start
  <2>1. ASSUME c # x.start, c > e.start PROVE FALSE
    <3> DEFINE H == {n \in x.newlines : n >= c}
    <3>1. c - 1 \in x.newlines /\ Cardinality(H) = MaxLines
      BY <1>2, <2>1
    <3>2. c - 1 \in e.newlines
      <4>1. c - 1 \in Nat /\ c - 1 >= x.start /\ c - 1 >= e.start /\ c - 1 < x.end
        BY <1>2, <1>3, <2>1, <3>1
      <4>2. QED
        BY <3>1, <4>1 DEF Mirrors
    <3>3. \A n \in H : n \in e.newlines /\ n # c - 1
      <4>1. ASSUME NEW n \in H
            PROVE  n \in Nat /\ n >= x.start /\ n >= e.start /\ n < x.end /\ n # c - 1
        BY <1>2, <1>3, <2>1
      <4>2. QED
        BY <4>1 DEF Mirrors
    <3>4. IsFiniteSet(H)
      BY <1>3, FS_Subset
    <3> HIDE DEF H
    <3>5. Cardinality(H \cup {c - 1}) = MaxLines + 1 /\ IsFiniteSet(H \cup {c - 1})
      BY <3>1, <3>3, <3>4, FS_AddElement
    <3>6. H \cup {c - 1} \subseteq e.newlines
      BY <3>2, <3>3
    <3>7. Cardinality(H \cup {c - 1}) <= Cardinality(e.newlines)
      BY <1>3, <3>6, FS_Subset
    <3>8. Cardinality(e.newlines) \in Nat
      BY <1>3, FS_CardinalityType
    <3>9. Cardinality(e.newlines) <= Lines(e)
      BY <3>8 DEF Lines
    <3>10. Lines(e) \in Nat
      BY BufferFacts
    <3>11. QED
      BY <1>3, <3>5, <3>7, <3>8, <3>9, <3>10
  <2>2. QED
    BY <1>2, <1>3, <2>1
<1>5. ASSUME NEW n \in Nat, n >= t.start, n >= e.start, n < t.end
      PROVE  n \in t.newlines <=> n \in e.newlines
  <2>1. n >= x.start /\ n < x.end
    BY <1>1, <1>3, <1>5
  <2>2. n \in x.newlines <=> n \in e.newlines
    BY <1>5, <2>1 DEF Mirrors
  <2>3. QED
    BY <1>1, <1>5, <2>2
<1>6. ASSUME t.start < e.start, e.start <= t.end
      PROVE  e.start - 1 \in t.newlines \/ Size(e) = MaxBytes
  <2>1. x.start < e.start /\ e.start <= x.end
    BY <1>1, <1>3, <1>6
  <2>2. e.start - 1 \in x.newlines \/ Size(e) = MaxBytes
    BY <2>1 DEF Mirrors
  <2>3. e.start - 1 >= t.start
    BY <1>3, <1>6
  <2>4. QED
    BY <1>1, <2>2, <2>3
<1>7. ASSUME t.start > e.start
      PROVE  /\ Size(e) = MaxBytes /\ t.start - 1 \in e.newlines
             /\ \A m \in e.newlines : m >= t.start - 1
  <2>1. CASE t.start = c
    <3>1. t.start = x.start
      BY <1>2, <1>3, <1>4, <1>7, <2>1
    <3>2. QED
      BY <1>7, <3>1 DEF Mirrors
  <2>2. CASE t.start # c
    <3>1. c + MaxBytes < e.end /\ e.end - MaxBytes <= e.start
      BY <1>1, <1>3, <2>2 DEF Size
    <3>2. c < e.start /\ x.start < e.start /\ e.start <= x.end
      BY <1>2, <1>3, <3>1
    <3>3. ~(t.start + MaxBytes = x.end)
      BY <1>3, <1>7, <3>1
    <3>4. /\ t.start - 1 \in x.newlines
          /\ \A m \in x.newlines : m >= c /\ m + MaxBytes >= x.end => t.start - 1 <= m
      BY <1>1, <2>2, <3>3
    <3>5. t.start - 1 \in Nat /\ t.start - 1 >= x.start /\ t.start - 1 >= e.start
          /\ t.start - 1 < x.end
      BY <1>3, <1>7, <3>4
    <3>6. t.start - 1 \in e.newlines
      BY <3>4, <3>5 DEF Mirrors
    <3>7. ASSUME NEW m \in e.newlines PROVE m >= t.start - 1
      <4>1. m \in Nat /\ m >= e.start /\ m >= x.start /\ m < x.end /\ m >= c
            /\ m + MaxBytes >= x.end
        BY <1>2, <1>3, <3>1, <3>2
      <4>2. m \in x.newlines
        BY <4>1 DEF Mirrors
      <4>3. t.start - 1 <= m
        BY <3>4, <4>1, <4>2
      <4>4. QED
        BY <3>5, <4>1, <4>3
    \* Were it shorter, its own first line would begin behind the byte cut.
    <3>8. Size(e) = MaxBytes
      <4>1. ASSUME e.start - 1 \in x.newlines, Size(e) # MaxBytes PROVE FALSE
        <5>1. e.start - 1 + MaxBytes >= x.end /\ e.start - 1 >= c
          BY <1>2, <1>3, <3>2, <4>1 DEF Size
        <5>2. t.start - 1 <= e.start - 1
          BY <3>4, <4>1, <5>1
        <5>3. QED
          BY <1>3, <1>7, <5>2
      <4>2. e.start - 1 \in x.newlines \/ Size(e) = MaxBytes
        BY <3>2 DEF Mirrors
      <4>3. QED
        BY <4>1, <4>2
    <3>9. QED
      BY <3>6, <3>7, <3>8
  <2>3. QED
    BY <2>1, <2>2
<1>8. t.end <= e.end
  BY <1>1, <1>3
<1>9. Mirrors(t, e)
  BY <1>5, <1>6, <1>7, <1>8 DEF Mirrors
<1>10. QED
  BY <1>9 DEF t

(***************************************************************************)
(* The clients.                                                            *)
(***************************************************************************)

\* The clients only read: with them, the store and its streams do what they do
\* without, and whatever is proved of Spec holds with clients, too.
THEOREM ClientsOnlyRead == ClientSpec => Spec
<1>1. ClientInit => Init
  BY DEF ClientInit
<1>2. [ClientNext]_<<vars, viewers>> => [Next]_vars
  <2>1. \A p \in Pages : Resume(p) \/ Pause(p) \/ Apply(p) => UNCHANGED vars
    BY DEF Resume, Pause, Apply
  <2>2. \A c \in Cats : (\E n \in Tails : Follow(c, n)) \/ Show(c) \/ Quit(c) => UNCHANGED vars
    BY DEF Follow, Show, Quit
  <2>3. QED
    BY <2>1, <2>2 DEF ClientNext, Next
<1>3. QED
  BY <1>1, <1>2, PTL DEF ClientSpec, Spec

LEMMA ClientStore == ClientSpec => []StoreInv
  BY ClientsOnlyRead, StoreInvariant, PTL

\* What a step does to an entry: it is new, or it is appended to.
LEMMA EntryStep ==
  ASSUME StoreInv, [Next]_vars
  PROVE  /\ epochs \in Nat /\ epochs' \in Nat /\ epochs <= epochs'
         /\ \A k \in DOMAIN entries' :
              \/ entries'[k].epoch \in Nat /\ entries'[k].epoch > epochs
              \/ k \in DOMAIN entries /\ entries'[k] = entries[k]
              \/ k \in DOMAIN entries /\ \E text \in Texts : entries'[k] = Stored(k, text)
<1> DEFINE Goal == \A k \in DOMAIN entries' :
              \/ entries'[k].epoch \in Nat /\ entries'[k].epoch > epochs
              \/ k \in DOMAIN entries /\ entries'[k] = entries[k]
              \/ k \in DOMAIN entries /\ \E text \in Texts : entries'[k] = Stored(k, text)
<1>1. epochs \in Nat
  BY DEF StoreInv
<1>2. ASSUME UNCHANGED store PROVE Goal
  BY <1>2 DEF store
<1>3. ASSUME NEW k \in Services, NEW text \in Texts, AppendLogs(k, text)
      PROVE  Goal
  <2>1. entries' = [j \in (DOMAIN entries \ Evicted(k)) \cup {k} |->
                      IF j = k THEN Stored(k, text) ELSE entries[j]]
    BY <1>3 DEF AppendLogs
  <2>2. Stored(k, text).epoch = IF k \in DOMAIN entries THEN entries[k].epoch ELSE epochs + 1
    BY StoredOK
  <2>3. ASSUME NEW j \in DOMAIN entries', j # k
        PROVE  j \in DOMAIN entries /\ entries'[j] = entries[j]
    BY <2>1, <2>3
  <2>4. entries'[k] = Stored(k, text)
    BY <2>1
  <2>5. k \notin DOMAIN entries => entries'[k].epoch \in Nat /\ entries'[k].epoch > epochs
    BY <1>1, <2>2, <2>4
  <2>6. QED
    BY <2>3, <2>4, <2>5
<1>4. ASSUME Restart PROVE Goal
  BY <1>4 DEF Restart
<1>5. ASSUME NEW k \in Services, Post(k) \/ BadBatch(k) \/ Remove(k) \/ Register(k)
      PROVE  UNCHANGED store
  BY <1>5 DEF Post, BadBatch, Remove, Register
<1>6. ASSUME NEW r \in Readers, Connect(r) \/ Stream(r) \/ Receive(r) \/ Break(r)
      PROVE  UNCHANGED store
  BY <1>6 DEF Connect, Stream, Receive, Break, Subscribe, FirstRead, Write, Woken, Reread,
              KeepAliveGone, Hangup, Unsubscribe
<1>7. UNCHANGED vars => UNCHANGED store
  BY DEF vars
<1> HIDE DEF Goal
<1>8. Goal
  BY <1>2, <1>3, <1>4, <1>5, <1>6, <1>7 DEF Next, Step
<1>9. QED
  BY <1>8, WindowStep DEF Goal

(***************************************************************************)
(* The page.                                                               *)
(***************************************************************************)

PageTypes ==
  [pc : {"paused", "connecting", "live"}, pos : Nat,
   text : [start : Nat, end : Nat, newlines : SUBSET Nat], epoch : Nat, pure : BOOLEAN]

\* A page mirrors the entry that its text is of, whether it is up to date or
\* lags, and resumes at the end of its text.
PageOK(g) ==
  /\ PageText(g.text) /\ Cardinality(g.text.newlines) <= MaxLines /\ Size(g.text) <= MaxBytes
  /\ g.epoch <= epochs
  /\ g.pc = "connecting" => g.pos = 0
  /\ g.pure =>
       /\ g.pc = "live" => g.text.end = g.pos
       /\ Watched \in DOMAIN entries /\ g.epoch = entries[Watched].epoch
            => Mirrors(g.text, entries[Watched])

PageInv == page \in [Pages -> PageTypes] /\ \A p \in Pages : PageOK(page[p])

LEMMA InitPage == ClientInit => PageInv
<1> SUFFICES ASSUME ClientInit PROVE PageInv
  OBVIOUS
<1>1. /\ page = [p \in Pages |->
                   [pc |-> "paused", pos |-> 0, text |-> Empty, epoch |-> 0, pure |-> TRUE]]
      /\ DOMAIN entries = {} /\ epochs = 0
  BY DEF ClientInit, Init
<1>2. PageText(Empty) /\ Empty \in [start : Nat, end : Nat, newlines : SUBSET Nat]
  BY DEF PageText, TextOK, Empty
<1>3. Cardinality(Empty.newlines) <= MaxLines /\ Size(Empty) <= MaxBytes
  <2>1. Cardinality({}) = 0
    BY FS_EmptySet
  <2>2. QED
    BY <2>1, LimitsAssumption DEF Size, Empty
<1>4. page \in [Pages -> PageTypes]
  BY <1>1, <1>2 DEF PageTypes
<1>5. ASSUME NEW p \in Pages PROVE PageOK(page[p])
  <2>1. /\ page[p].pc = "paused" /\ page[p].text = Empty /\ page[p].epoch = 0
        /\ Watched \notin DOMAIN entries
    BY <1>1
  <2>2. QED
    BY <1>1, <1>2, <1>3, <2>1 DEF PageOK
<1>6. QED
  BY <1>4, <1>5 DEF PageInv

\* A step of the store leaves a page as good as it was.
LEMMA PageStays ==
  ASSUME StoreInv, [Next]_vars, NEW g \in PageTypes, PageOK(g)
  PROVE  PageOK(g)'
<1>1. epochs \in Nat /\ epochs' \in Nat /\ epochs <= epochs'
  BY EntryStep
<1>2. g.epoch \in Nat /\ g.epoch <= epochs /\ g.epoch <= epochs'
  BY <1>1 DEF PageTypes, PageOK
<1>3. ASSUME g.pure, Watched \in DOMAIN entries', g.epoch = entries'[Watched].epoch
      PROVE  Mirrors(g.text, entries'[Watched])
  <2>1. ~(entries'[Watched].epoch > epochs)
    BY <1>1, <1>2, <1>3
  <2>2. CASE Watched \in DOMAIN entries /\ entries'[Watched] = entries[Watched]
    BY <1>3, <2>2 DEF PageOK
  <2>3. ASSUME Watched \in DOMAIN entries, NEW text \in Texts,
               entries'[Watched] = Stored(Watched, text)
        PROVE  Mirrors(g.text, entries'[Watched])
    <3>1. Watched \in Services
      BY ClientsAssumption
    <3>2. Stored(Watched, text).epoch = entries[Watched].epoch
      BY <2>3, <3>1, StoredOK
    <3>3. Mirrors(g.text, entries[Watched]) /\ PageText(g.text)
      BY <1>3, <2>3, <3>2 DEF PageOK
    <3>4. QED
      BY <2>3, <3>3, MirrorsStored
  <2>4. QED
    BY <1>3, <2>1, <2>2, <2>3, EntryStep
<1>4. QED
  BY <1>2, <1>3 DEF PageOK

\* What ReadFrom answers of the service shown.
LEMMA WatchedRead ==
  ASSUME StoreInv, NEW o \in Nat, NEW ev, ev = ReadFrom(Watched, o)
  PROVE  /\ ev.kind \in {"append", "reset"} /\ ev.epoch \in Nat /\ ev.epoch <= epochs
         /\ ev.from \in Nat /\ ev.to \in Nat /\ ev.from <= ev.to
         /\ ev.kind = "append" => ev.from = o
         /\ Watched \notin DOMAIN entries => ev.from = 0 /\ ev.to = 0
         /\ Watched \in DOMAIN entries =>
              /\ ev.epoch = entries[Watched].epoch /\ ev.to = entries[Watched].end
              /\ entries[Watched].start <= ev.from
              /\ ev.kind = "reset" \/ o = 0 => ev.from = entries[Watched].start
              /\ ev.kind = "reset" => Outside(entries[Watched], o)
<1>1. Watched \in Services
  BY ClientsAssumption
<1>2. /\ ev.kind \in {"append", "reset"} /\ ev.epoch \in Nat /\ ev.epoch <= epochs
      /\ ev.from \in Nat /\ ev.to \in Nat /\ ev.from <= ev.to
      /\ ev.kind = "append" => ev.from = o
  BY <1>1, ReadFromOK DEF EventOK, Events
<1>3. CASE Watched \notin DOMAIN entries
  BY <1>2, <1>3 DEF ReadFrom, Event
<1>4. CASE Watched \in DOMAIN entries
  <2> DEFINE e == entries[Watched]
  <2>1. e.start \in Nat /\ e.end \in Nat /\ e.start <= e.end
    BY <1>4 DEF StoreInv, BufferOK, Entries
  <2>2. ev = IF Outside(e, o) THEN Event("reset", e.epoch, e.start, e.end)
             ELSE Event("append", e.epoch, o, e.end)
    BY <1>4 DEF ReadFrom
  <2> HIDE DEF e
  <2>3. /\ ev.epoch = e.epoch /\ ev.to = e.end /\ e.start <= ev.from
        /\ ev.kind = "reset" \/ o = 0 => ev.from = e.start
        /\ ev.kind = "reset" => Outside(e, o)
    <3>1. CASE Outside(e, o)
      BY <2>1, <2>2, <3>1 DEF Event
    <3>2. CASE ~Outside(e, o)
      BY <2>1, <2>2, <3>2 DEF Event, Outside
    <3>3. QED
      BY <3>1, <3>2
  <2>4. QED
    BY <1>2, <1>4, <2>3 DEF e
<1>5. QED
  BY <1>3, <1>4

LEMMA RetainedText ==
  ASSUME StoreInv
  PROVE  TextOK(Retained) /\ Retained.newlines \subseteq Nat
<1>1. CASE Watched \in DOMAIN entries
  <2>1. BufferOK(entries[Watched])
    BY <1>1 DEF StoreInv
  <2>2. QED
    BY <1>1, <2>1, BufferText, BufferFacts DEF Retained
<1>2. CASE Watched \notin DOMAIN entries
  BY <1>2 DEF Retained, Empty, TextOK
<1>3. QED
  BY <1>1, <1>2

\* A page that is sent all of the window shows just that.
LEMMA SentMirrors ==
  ASSUME StoreInv, NEW o \in Nat, NEW ev, ev = ReadFrom(Watched, o),
         ev.kind = "reset" \/ o = 0
  PROVE  /\ PageText(Sent(ev)) /\ Sent(ev).end = ev.to
         /\ Watched \in DOMAIN entries => Mirrors(Sent(ev), entries[Watched])
<1> DEFINE x == Sent(ev)
           N == {n \in Retained.newlines : n >= ev.from}
<1>1. /\ ev.from \in Nat /\ ev.to \in Nat /\ ev.from <= ev.to
      /\ Watched \notin DOMAIN entries => ev.from = 0 /\ ev.to = 0
      /\ Watched \in DOMAIN entries =>
           ev.to = entries[Watched].end /\ ev.from = entries[Watched].start
  BY WatchedRead
<1>2. x = [start |-> ev.from, end |-> ev.to, newlines |-> N]
  BY DEF Sent
<1>3. N \subseteq Nat /\ \A n \in N : n \in Nat /\ ev.from <= n /\ n < ev.to
  <2>1. \A n \in Retained.newlines : n \in Nat /\ n < Retained.end
    BY RetainedText DEF TextOK
  <2>2. Retained.end = ev.to
    BY <1>1 DEF Retained, Empty
  <2>3. QED
    BY <1>1, <2>1, <2>2
<1>4. Watched \in DOMAIN entries => N = entries[Watched].newlines
  <2>1. ASSUME Watched \in DOMAIN entries PROVE N = entries[Watched].newlines
    <3>1. Retained = entries[Watched]
      BY <2>1 DEF Retained
    <3>2. \A n \in Retained.newlines : n \in Nat /\ Retained.start <= n
      BY RetainedText DEF TextOK
    <3>3. QED
      BY <1>1, <2>1, <3>1, <3>2
  <2>2. QED
    BY <2>1
<1> HIDE DEF N, x
<1>5. PageText(x) /\ x.start = ev.from /\ x.end = ev.to /\ x.newlines = N
  <2>1. N \subseteq ev.from..(ev.to - 1)
    BY <1>1, <1>3
  <2>2. QED
    BY <1>1, <1>2, <1>3, <2>1 DEF PageText, TextOK
<1>6. ASSUME Watched \in DOMAIN entries PROVE Mirrors(x, entries[Watched])
  <2>1. /\ x.start = entries[Watched].start /\ x.end = entries[Watched].end
        /\ x.newlines = entries[Watched].newlines
    BY <1>1, <1>4, <1>5, <1>6
  <2>2. QED
    BY <1>1, <1>5, <2>1 DEF Mirrors
<1>7. QED
  BY <1>5, <1>6 DEF x

\* An empty text at the offset 0 mirrors every entry.
LEMMA NothingMirrors ==
  ASSUME StoreInv, Watched \in DOMAIN entries, NEW t, PageText(t), t.end = 0
  PROVE  Mirrors(t, entries[Watched])
<1> DEFINE e == entries[Watched]
<1>1. e.start \in Nat /\ e.end \in Nat
  <2>1. BufferOK(e)
    BY DEF StoreInv
  <2> HIDE DEF e
  <2>2. QED
    BY <2>1, BufferText DEF TextOK
<1>2. t.start = 0 /\ t.end = 0
  BY DEF PageText, TextOK
<1> HIDE DEF e
<1>3. Mirrors(t, e)
  <2>1. \A n \in Nat : ~(n < t.end)
    BY <1>2
  <2>2. t.end <= e.end /\ ~(t.start < e.start /\ e.start <= t.end) /\ ~(t.start > e.start)
    BY <1>1, <1>2
  <2>3. QED
    BY <2>1, <2>2 DEF Mirrors
<1>4. QED
  BY <1>3 DEF e

\* And one that is sent what follows its text goes on to.
LEMMA AppendedMirrors ==
  ASSUME StoreInv, NEW o \in Nat, NEW ev, ev = ReadFrom(Watched, o),
         ev.kind = "append", ev.from < ev.to, NEW t, PageText(t)
  PROVE  /\ PageText(Extended(t, More(ev))) /\ Watched \in DOMAIN entries
         /\ t.end = o =>
              /\ Extended(t, More(ev)).end = ev.to
              /\ Mirrors(t, entries[Watched]) => Mirrors(Extended(t, More(ev)), entries[Watched])
<1> DEFINE x == Extended(t, More(ev))
           e == entries[Watched]
           N == {n \in e.newlines : n >= o}
           more == {t.end + i - 1 : i \in More(ev).newlines}
<1>1. /\ ev.from = o /\ ev.to \in Nat /\ o < ev.to /\ Watched \in DOMAIN entries
      /\ ev.to = e.end /\ e.start <= o
  BY WatchedRead
<1>2. Retained = e /\ TextOK(e)
  BY <1>1, RetainedText DEF Retained
<1> HIDE DEF e
<1>3. /\ e.start \in Nat /\ e.end \in Nat /\ e.start <= e.end
      /\ \A n \in e.newlines : n \in Nat /\ e.start <= n /\ n < e.end
      /\ t.start \in Nat /\ t.end \in Nat /\ t.start <= t.end /\ t.newlines \subseteq Nat
      /\ \A n \in t.newlines : n \in Nat /\ t.start <= n /\ n < t.end
      /\ t \in [start : Nat, end : Nat, newlines : SUBSET Nat]
  BY <1>2, TextFacts DEF PageText
<1>4. More(ev) = [len |-> e.end - o, newlines |-> {n - o + 1 : n \in N}]
  BY <1>1, <1>2 DEF More, Sent
<1>5. more = {t.end + (n - o + 1) - 1 : n \in N}
  <2> HIDE DEF N
  <2>1. More(ev).newlines = {n - o + 1 : n \in N}
    BY <1>4
  <2>2. QED
    BY <2>1
<1>6. \A n \in N : n \in Nat /\ n \in e.newlines /\ o <= n /\ n < e.end
  BY <1>3
<1> HIDE DEF N
<1>7. /\ \A m \in more : m \in Nat /\ t.end <= m /\ m < t.end + (e.end - o)
      /\ more \subseteq Nat
  BY <1>1, <1>3, <1>5, <1>6
<1>8. t.end = o => more = N
  <2>1. ASSUME t.end = o, NEW n \in N PROVE t.end + (n - o + 1) - 1 = n
    BY <1>1, <1>3, <1>6, <2>1
  <2> HIDE DEF more
  <2>2. QED
    BY <1>5, <2>1
<1>9. x = [t EXCEPT !.end = @ + (e.end - o), !.newlines = @ \cup more]
  BY <1>4 DEF Extended
<1> HIDE DEF more, x
<1>10. /\ x \in [start : Nat, end : Nat, newlines : SUBSET Nat]
       /\ x.start = t.start /\ x.end = t.end + (e.end - o)
       /\ x.newlines = t.newlines \cup more
  <2>1. t.end + (e.end - o) \in Nat
    BY <1>1, <1>3
  <2>a. t.newlines \cup more \in SUBSET Nat
    BY <1>3, <1>7
  <2>2. QED
    BY <1>3, <1>9, <2>1, <2>a
<1>11. PageText(x)
  <2>1. x.start \in Nat /\ x.end \in Nat /\ x.start <= x.end /\ t.end <= x.end
    BY <1>1, <1>3, <1>10
  <2>2. \A n \in x.newlines : n \in Nat /\ x.start <= n /\ n < x.end
    BY <1>1, <1>3, <1>7, <1>10, <2>1
  <2>3. x.newlines \subseteq x.start..(x.end - 1)
    BY <2>1, <2>2
  <2>4. QED
    BY <1>10, <2>1, <2>3 DEF PageText, TextOK
<1>12. ASSUME t.end = o, Mirrors(t, e) PROVE Mirrors(x, e)
  <2>1. x.newlines = t.newlines \cup N /\ x.end = e.end /\ x.start = t.start
    BY <1>1, <1>3, <1>8, <1>10, <1>12
  <2>2. ASSUME NEW n \in Nat, n >= x.start, n >= e.start, n < x.end
        PROVE  n \in x.newlines <=> n \in e.newlines
    <3>1. CASE n < o
      <4>1. n \in t.newlines <=> n \in e.newlines
        BY <1>12, <2>1, <2>2, <3>1 DEF Mirrors
      <4>2. n \notin N
        BY <1>6, <3>1
      <4>3. QED
        BY <2>1, <4>1, <4>2
    <3>2. CASE ~(n < o)
      <4>1. n \notin t.newlines
        BY <1>3, <1>12, <3>2
      <4>2. n \in N <=> n \in e.newlines
        BY <3>2 DEF N
      <4>3. QED
        BY <2>1, <4>1, <4>2
    <3>3. QED
      BY <3>1, <3>2
  <2>3. ASSUME x.start < e.start PROVE e.start - 1 \in x.newlines \/ Size(e) = MaxBytes
    <3>1. t.start < e.start /\ e.start <= t.end
      BY <1>1, <1>12, <2>1, <2>3
    <3>2. QED
      BY <1>12, <2>1, <3>1 DEF Mirrors
  <2>4. x.start > e.start
          => /\ Size(e) = MaxBytes /\ x.start - 1 \in e.newlines
             /\ \A m \in e.newlines : m >= x.start - 1
    BY <1>12, <2>1 DEF Mirrors
  <2>5. x.end <= e.end
    BY <1>3, <2>1
  <2>6. QED
    BY <2>2, <2>3, <2>4, <2>5 DEF Mirrors
<1>13. t.end = o => x.end = ev.to
  BY <1>1, <1>3, <1>10
<1>14. QED
  BY <1>1, <1>11, <1>12, <1>13 DEF x, e

LEMMA PageStep ==
  ASSUME StoreInv, PageInv, [ClientNext]_<<vars, viewers>>, [Next]_vars
  PROVE  PageInv'
<1>1. ASSUME UNCHANGED page PROVE PageInv'
  <2>1. \A p \in Pages : PageOK(page[p])'
    <3>1. ASSUME NEW p \in Pages PROVE PageOK(page[p])'
      <4> DEFINE g == page[p]
      <4>1. g \in PageTypes /\ PageOK(g) /\ g' = g
        BY <1>1 DEF PageInv
      <4> HIDE DEF g
      <4>2. PageOK(g)'
        BY <4>1, PageStays
      <4>3. QED
        BY <4>2 DEF g
    <3>2. QED
      BY <3>1
  <2>2. QED
    BY <1>1, <2>1 DEF PageInv
\* One page changes, and the store does not.
<1>2. ASSUME NEW p \in Pages, NEW h, h \in PageTypes, PageOK(h),
             page' = [page EXCEPT ![p] = h], UNCHANGED vars
      PROVE  PageInv'
  <2>1. page' \in [Pages -> PageTypes]
    BY <1>2 DEF PageInv
  <2>2. epochs' = epochs /\ entries' = entries
    BY <1>2 DEF vars, store
  <2>3. ASSUME NEW q \in Pages PROVE PageOK(page[q])'
    <3>1. PageOK(page'[q])
      BY <1>2 DEF PageInv
    <3>2. QED
      BY <2>2, <3>1 DEF PageOK
  <2>4. QED
    BY <2>1, <2>3 DEF PageInv
<1>3. ASSUME NEW p \in Pages, Resume(p) PROVE PageInv'
  <2> DEFINE g == page[p]
             h == [g EXCEPT !.pc = "connecting", !.pos = 0]
  <2>1. g \in PageTypes /\ PageOK(g)
    BY DEF PageInv
  <2>2. page' = [page EXCEPT ![p] = h] /\ UNCHANGED vars
    BY <1>3, <2>1 DEF Resume, PageInv, PageTypes
  <2> HIDE DEF g
  <2>3. h \in PageTypes /\ PageOK(h)
    BY <2>1 DEF PageTypes, PageOK
  <2> HIDE DEF h
  <2>4. QED
    BY <1>2, <2>2, <2>3
<1>4. ASSUME NEW p \in Pages, Pause(p) PROVE PageInv'
  <2> DEFINE g == page[p]
             h == [g EXCEPT !.pc = "paused"]
  <2>1. g \in PageTypes /\ PageOK(g)
    BY DEF PageInv
  <2>2. page' = [page EXCEPT ![p] = h] /\ UNCHANGED vars
    BY <1>4, <2>1 DEF Pause, PageInv, PageTypes
  <2> HIDE DEF g
  <2>3. h \in PageTypes /\ PageOK(h)
    BY <2>1 DEF PageTypes, PageOK
  <2> HIDE DEF h
  <2>4. QED
    BY <1>2, <2>2, <2>3
<1>5. ASSUME NEW p \in Pages, Apply(p) PROVE PageInv'
  <2> DEFINE g == page[p]
             ev == ReadFrom(Watched, g.pos)
             replace == ev.kind = "reset" \/ g.pc = "connecting"
             x == IF replace THEN Sent(ev) ELSE Extended(g.text, More(ev))
             t == PageTrim(x)
             h == [pc |-> "live", pos |-> ev.to, text |-> t,
                   epoch |-> IF replace \/ g.pos = 0 THEN ev.epoch ELSE g.epoch,
                   pure |-> replace \/ (g.pure /\ (g.epoch = ev.epoch \/ g.pos = 0))]
             kept == g.pure /\ (g.epoch = ev.epoch \/ g.pos = 0)
             e == entries[Watched]
  <2>1. g \in PageTypes /\ PageOK(g)
    BY DEF PageInv
  <2>2. /\ g.pc # "paused"
        /\ replace \/ ev.from < ev.to
        /\ page' = [page EXCEPT ![p] = h] /\ UNCHANGED vars
    BY <1>5 DEF Apply
  <2> HIDE DEF g
  <2>3. /\ g.pos \in Nat /\ g.epoch \in Nat /\ g.epoch <= epochs /\ g.pure \in BOOLEAN
        /\ g.pc \in {"paused", "connecting", "live"} /\ PageText(g.text)
        /\ g.pc = "connecting" => g.pos = 0
    BY <2>1 DEF PageTypes, PageOK
  <2>4. /\ ev.kind \in {"append", "reset"} /\ ev.epoch \in Nat /\ ev.epoch <= epochs
        /\ ev.to \in Nat
        /\ Watched \in DOMAIN entries => ev.epoch = e.epoch /\ ev.to = e.end
    <3>1. ev = ReadFrom(Watched, g.pos)
      OBVIOUS
    <3> HIDE DEF ev, e
    <3>2. QED
      BY <2>3, <3>1, WatchedRead DEF e
  \* What it shows before it cuts it.
  <2>5. /\ PageText(x)
        /\ (replace \/ kept) =>
             x.end = ev.to /\ (Watched \in DOMAIN entries => Mirrors(x, e))
    <3>0. ev = ReadFrom(Watched, g.pos)
      OBVIOUS
    <3>1. CASE replace
      <4>1. x = Sent(ev) /\ (ev.kind = "reset" \/ g.pos = 0)
        BY <2>3, <3>1
      <4> HIDE DEF ev, x
      <4>2. QED
        BY <2>3, <3>0, <4>1, SentMirrors
    <3>2. CASE ~replace
      <4>1. /\ x = Extended(g.text, More(ev)) /\ ev.kind = "append" /\ ev.from < ev.to
            /\ g.pc = "live"
        BY <2>2, <2>3, <2>4, <3>2
      <4> HIDE DEF ev, x
      <4>2. PageText(x) /\ Watched \in DOMAIN entries
        BY <2>3, <3>0, <4>1, AppendedMirrors
      <4>3. ASSUME g.pure, g.epoch = ev.epoch \/ g.pos = 0
            PROVE  x.end = ev.to /\ Mirrors(x, e)
        <5>1. g.text.end = g.pos
          BY <2>1, <4>1, <4>3 DEF PageOK
        <5>2. g.epoch = ev.epoch => Mirrors(g.text, e)
          BY <2>1, <2>4, <4>2, <4>3 DEF PageOK
        \* A text of which nothing was shown mirrors every entry.
        <5>3. g.pos = 0 => Mirrors(g.text, e)
          BY <2>3, <4>2, <5>1, NothingMirrors
        <5>4. Mirrors(g.text, e)
          BY <4>3, <5>2, <5>3
        <5>5. QED
          BY <2>3, <3>0, <4>1, <5>1, <5>4, AppendedMirrors
      <4>4. QED
        BY <3>2, <4>2, <4>3
    <3>3. QED
      BY <3>1, <3>2
  <2> HIDE DEF ev, x, replace
  <2>6. /\ PageText(t) /\ t.end = x.end
        /\ Cardinality(t.newlines) <= MaxLines /\ Size(t) <= MaxBytes
    BY <2>5, PageTrimOK
  <2>7. ASSUME replace \/ kept
        PROVE  t.end = ev.to /\ (Watched \in DOMAIN entries => Mirrors(t, e))
    <3>1. ASSUME Watched \in DOMAIN entries PROVE Mirrors(t, e)
      <4>1. /\ BufferOK(e) /\ Lines(e) <= MaxLines /\ Size(e) <= MaxBytes
        BY <3>1 DEF StoreInv
      <4>2. Mirrors(x, e) /\ x.end = e.end /\ PageText(x)
        BY <2>4, <2>5, <2>7, <3>1
      <4> HIDE DEF e
      <4>3. QED
        BY <4>1, <4>2, MirrorsTrim
    <3>2. QED
      BY <2>5, <2>6, <2>7, <3>1
  <2> HIDE DEF t, e
  <2>8. h \in PageTypes
    <3>1. replace \in BOOLEAN
      BY DEF replace
    <3>2. t \in [start : Nat, end : Nat, newlines : SUBSET Nat]
      BY <2>6 DEF PageText
    <3>3. (IF replace \/ g.pos = 0 THEN ev.epoch ELSE g.epoch) \in Nat
      BY <2>3, <2>4
    <3>4. (replace \/ kept) \in BOOLEAN
      OBVIOUS
    <3>5. QED
      BY <2>4, <3>2, <3>3, <3>4 DEF PageTypes
  <2>9. /\ h.pc = "live" /\ h.pos = ev.to /\ h.text = t
        /\ h.epoch = (IF replace \/ g.pos = 0 THEN ev.epoch ELSE g.epoch)
        /\ h.pure = (replace \/ kept)
    OBVIOUS
  <2> HIDE DEF h
  <2>10. PageOK(h)
    <3>1. h.epoch <= epochs
      BY <2>3, <2>4, <2>9
    <3>2. ASSUME h.pure PROVE h.text.end = h.pos
      BY <2>7, <2>9, <3>2
    <3>3. ASSUME h.pure, Watched \in DOMAIN entries PROVE Mirrors(h.text, entries[Watched])
      BY <2>7, <2>9, <3>3 DEF e
    <3>4. QED
      BY <2>6, <2>9, <3>1, <3>2, <3>3 DEF PageOK
  <2>11. QED
    BY <1>2, <2>2, <2>8, <2>10
<1>6. ASSUME NEW c \in Cats, (\E n \in Tails : Follow(c, n)) \/ Show(c) \/ Quit(c)
      PROVE  UNCHANGED page
  BY <1>6 DEF Follow, Show, Quit
<1>7. UNCHANGED <<vars, viewers>> \/ UNCHANGED viewers => UNCHANGED page
  BY DEF viewers
<1>8. QED
  BY <1>1, <1>3, <1>4, <1>5, <1>6, <1>7 DEF ClientNext

\* A page that is up to date and did not continue the text of another entry
\* shows all that the daemon keeps, however the two cut their texts and from
\* whatever time on it was connected; its first line may be missing only when
\* what the daemon keeps is exactly as long as the limit in bytes.  And no page
\* has more complete lines, or bytes, than the daemon's limits.
THEOREM PageKeepsUp == ClientSpec => []PageMirrors
<1>1. StoreInv /\ PageInv => PageMirrors
  <2> SUFFICES ASSUME StoreInv, PageInv, NEW p \in Pages
               PROVE  LET g == page[p]
                          upToDate == /\ Watched \in DOMAIN entries /\ g.pure
                                      /\ g.epoch = Retained.epoch /\ g.pos = Retained.end
                          lacksFirstLine ==
                            /\ g.text.start - 1 \in Retained.newlines
                            /\ \A n \in Retained.newlines : g.text.start - 1 <= n
                      IN  /\ Cardinality(g.text.newlines) <= MaxLines /\ Size(g.text) <= MaxBytes
                          /\ upToDate => \/ g.text.start <= Retained.start
                                         \/ Size(Retained) = MaxBytes /\ lacksFirstLine
    BY DEF PageMirrors
  <2> DEFINE g == page[p]
  <2>1. PageOK(g)
    BY DEF PageInv
  <2> HIDE DEF g
  <2>2. Cardinality(g.text.newlines) <= MaxLines /\ Size(g.text) <= MaxBytes
    BY <2>1 DEF PageOK
  <2>3. ASSUME Watched \in DOMAIN entries, g.pure, g.epoch = Retained.epoch
        PROVE  \/ g.text.start <= Retained.start
               \/ /\ Size(Retained) = MaxBytes
                  /\ g.text.start - 1 \in Retained.newlines
                  /\ \A n \in Retained.newlines : g.text.start - 1 <= n
    <3>1. Retained = entries[Watched]
      BY <2>3 DEF Retained
    <3>2. Mirrors(g.text, Retained)
      BY <2>1, <2>3, <3>1 DEF PageOK
    <3>3. /\ Retained.start \in Nat /\ g.text.start \in Nat
          /\ \A n \in Retained.newlines : n \in Nat
      BY <2>1, RetainedText, TextFacts DEF PageOK, PageText
    <3>4. \A n \in Retained.newlines :
            n >= g.text.start - 1 <=> g.text.start - 1 <= n
      BY <3>3
    <3>5. QED
      BY <3>2, <3>3, <3>4 DEF Mirrors
  <2>4. QED
    BY <2>2, <2>3 DEF g
<1>2. ClientInit => StoreInv
  BY InitStore DEF ClientInit
<1>3. ClientSpec => [](StoreInv /\ PageInv)
  <2>1. StoreInv /\ PageInv /\ [ClientNext]_<<vars, viewers>> /\ [Next]_vars
          => (StoreInv /\ PageInv)'
    BY StoreStep, PageStep
  <2>2. QED
    BY <1>2, <2>1, InitPage, ClientsOnlyRead, PTL DEF ClientSpec, Spec
<1>4. QED
  BY <1>1, <1>3, PTL

(***************************************************************************)
(* logcat.                                                                 *)
(***************************************************************************)

Following ==
  [pc : {"following"}, pos : Nat, shown : SUBSET (Nat \X Nat), printed : Nat]

\* What it printed it printed once, and of the entry there is only what
\* precedes its offset, which lies within that entry.
CatOK(g) ==
  g.pc = "following" =>
    /\ IsFiniteSet(g.shown) /\ Cardinality(g.shown) = g.printed
    /\ \A x \in g.shown :
         /\ x[1] <= epochs
         /\ Watched \in DOMAIN entries /\ x[1] = entries[Watched].epoch
              => x[2] < g.pos /\ g.pos <= entries[Watched].end

CatInv == cat \in [Cats -> Following \cup {Off}] /\ \A c \in Cats : CatOK(cat[c])

LEMMA InitCat == ClientInit => CatInv
  BY DEF ClientInit, CatInv, CatOK, Off

\* The bytes of one epoch.
LEMMA BytesFinite ==
  ASSUME NEW k \in Nat, NEW from \in Nat, NEW to \in Nat
  PROVE  /\ IsFiniteSet(Bytes(k, from, to)) /\ Cardinality(Bytes(k, from, to)) \in Nat
         /\ Bytes(k, from, to) \subseteq Nat \X Nat
         /\ \A x \in Bytes(k, from, to) :
              x[1] = k /\ x[2] \in Nat /\ from <= x[2] /\ x[2] < to
         /\ from >= to => Bytes(k, from, to) = {}
<1> DEFINE S == from..(to - 1)
           B == Bytes(k, from, to)
           f == [o \in S |-> <<k, o>>]
<1>1. B = {<<k, o>> : o \in S}
  BY DEF Bytes
<1>2. IsFiniteSet(S)
  <2>1. to - 1 \in Int
    OBVIOUS
  <2>2. QED
    BY <2>1, FS_Interval
<1>3. \A o \in S : o \in Nat /\ from <= o /\ o < to
  OBVIOUS
<1> HIDE DEF B
<1>4. f \in Surjection(S, B)
  <2>1. f \in [S -> B] /\ \A x \in B : \E o \in S : f[o] = x
    BY <1>1
  <2> HIDE DEF f, S
  <2>2. QED
    BY <2>1 DEF Surjection
<1>5. from >= to => S = {}
  BY <1>3
<1> HIDE DEF S, f
<1>6. IsFiniteSet(B) /\ Cardinality(B) \in Nat
  BY <1>2, <1>4, FS_Surjection, FS_CardinalityType
<1>7. \A x \in B : x \in Nat \X Nat /\ x[1] = k /\ x[2] \in Nat /\ from <= x[2] /\ x[2] < to
  BY <1>1, <1>3
<1>8. from >= to => B = {}
  BY <1>1, <1>5
<1>9. QED
  BY <1>6, <1>7, <1>8 DEF B

\* A step of the store leaves logcat as good as it was: an entry grows, or is
\* none that anything was printed of.
LEMMA CatStays ==
  ASSUME StoreInv, [Next]_vars, NEW g \in Following \cup {Off}, CatOK(g)
  PROVE  CatOK(g)'
<1> SUFFICES ASSUME g.pc = "following"
             PROVE  /\ IsFiniteSet(g.shown) /\ Cardinality(g.shown) = g.printed
                    /\ \A x \in g.shown :
                         /\ x[1] <= epochs'
                         /\ Watched \in DOMAIN entries' /\ x[1] = entries'[Watched].epoch
                              => x[2] < g.pos /\ g.pos <= entries'[Watched].end
  BY DEF CatOK
<1>1. epochs \in Nat /\ epochs' \in Nat /\ epochs <= epochs'
  BY EntryStep
<1>2. g \in Following
  BY DEF Off
<1>3. ASSUME NEW x \in g.shown
      PROVE  /\ x[1] <= epochs'
             /\ Watched \in DOMAIN entries' /\ x[1] = entries'[Watched].epoch
                  => x[2] < g.pos /\ g.pos <= entries'[Watched].end
  <2>1. x \in Nat \X Nat /\ g.pos \in Nat
    BY <1>2 DEF Following
  <2>2. /\ x[1] \in Nat /\ x[2] \in Nat /\ x[1] <= epochs
        /\ Watched \in DOMAIN entries /\ x[1] = entries[Watched].epoch
             => x[2] < g.pos /\ g.pos <= entries[Watched].end
    BY <2>1 DEF CatOK
  <2>3. ASSUME Watched \in DOMAIN entries', x[1] = entries'[Watched].epoch
        PROVE  x[2] < g.pos /\ g.pos <= entries'[Watched].end
    <3>1. ~(entries'[Watched].epoch > epochs)
      BY <1>1, <2>2, <2>3
    <3>2. CASE Watched \in DOMAIN entries /\ entries'[Watched] = entries[Watched]
      BY <2>2, <2>3, <3>2
    <3>3. ASSUME Watched \in DOMAIN entries, NEW text \in Texts,
                 entries'[Watched] = Stored(Watched, text)
          PROVE  x[2] < g.pos /\ g.pos <= entries'[Watched].end
      <4>1. Watched \in Services /\ text.len \in Nat
        BY ClientsAssumption, TextsAssumption
      <4>2. /\ Stored(Watched, text).epoch = entries[Watched].epoch
            /\ Stored(Watched, text).end = entries[Watched].end + text.len
        BY <3>3, <4>1, StoredOK
      <4>3. entries[Watched].end \in Nat
        BY <3>3, BufferFacts DEF StoreInv
      <4>4. x[2] < g.pos /\ g.pos <= entries[Watched].end
        BY <2>2, <2>3, <3>3, <4>2
      <4>5. QED
        BY <2>1, <3>3, <4>1, <4>2, <4>3, <4>4
    <3>4. QED
      BY <2>3, <3>1, <3>2, <3>3, EntryStep
  <2>4. QED
    BY <1>1, <2>2, <2>3
<1>4. QED
  BY <1>2, <1>3 DEF CatOK

\* What it prints first.
LEMMA FollowOK ==
  ASSUME StoreInv, NEW n \in Nat, NEW ev, ev = ReadFrom(Watched, 0),
         NEW bytes,
         bytes = Bytes(ev.epoch, TailLines(Sent([ev EXCEPT !.from = Retained.start]), n), ev.to),
         NEW h, h = [pc |-> "following", pos |-> ev.to, shown |-> bytes,
                     printed |-> Cardinality(bytes)]
  PROVE  h \in Following /\ CatOK(h)
<1>1. /\ ev.epoch \in Nat /\ ev.epoch <= epochs /\ ev.to \in Nat
      /\ Watched \notin DOMAIN entries => ev.to = 0
      /\ Watched \in DOMAIN entries =>
           ev.epoch = entries[Watched].epoch /\ ev.to = entries[Watched].end
  BY WatchedRead
<1> DEFINE b == Sent([ev EXCEPT !.from = Retained.start])
           first == TailLines(b, n)
<1>2. TextOK(b) /\ b.end = ev.to
  <2>1. ev = Event(ev.kind, ev.epoch, ev.from, ev.to)
    BY DEF ReadFrom, Event
  <2>2. [ev EXCEPT !.from = Retained.start] = Event(ev.kind, ev.epoch, Retained.start, ev.to)
    BY <2>1 DEF Event
  <2>3. b = [start |-> Retained.start, end |-> ev.to,
             newlines |-> {i \in Retained.newlines : i >= Retained.start}]
    BY <2>2 DEF Sent, Event
  <2>4. TextOK(Retained) /\ Retained.end = ev.to
    <3>1. Retained.end = ev.to
      BY <1>1 DEF Retained, Empty
    <3>2. QED
      BY <3>1, RetainedText
  <2>5. QED
    BY <2>3, <2>4 DEF TextOK
<1>3. first \in Nat
  <2> HIDE DEF b
  <2>1. first \in b.start..b.end /\ b.start \in Nat /\ b.end \in Nat
    BY <1>2, TailLinesOK DEF TextOK
  <2>2. QED
    BY <2>1
<1>4. bytes = Bytes(ev.epoch, first, ev.to)
  OBVIOUS
<1> HIDE DEF first
<1>5. /\ IsFiniteSet(bytes) /\ Cardinality(bytes) \in Nat /\ bytes \subseteq Nat \X Nat
      /\ \A x \in bytes : x[1] = ev.epoch /\ x[2] \in Nat /\ x[2] < ev.to
  <2> DEFINE k == ev.epoch
             to == ev.to
             B == Bytes(k, first, to)
  <2>1. k \in Nat /\ first \in Nat /\ to \in Nat
    BY <1>1, <1>3
  <2>2. bytes = B
    BY <1>4
  <2> HIDE DEF k, to
  <2>3. /\ IsFiniteSet(B) /\ Cardinality(B) \in Nat /\ B \subseteq Nat \X Nat
        /\ \A x \in B : x[1] = k /\ x[2] \in Nat /\ x[2] < to
    BY <2>1, BytesFinite
  <2> HIDE DEF B
  <2>4. QED
    BY <2>2, <2>3 DEF k, to
<1>6. h \in Following
  BY <1>1, <1>5 DEF Following
<1>7. h.shown = bytes /\ h.printed = Cardinality(bytes) /\ h.pos = ev.to
  OBVIOUS
<1>8. ev.to <= ev.to
  BY <1>1
<1>9. CatOK(h)
  BY <1>1, <1>5, <1>7, <1>8 DEF CatOK
<1>10. QED
  BY <1>6, <1>9

\* What it prints next was not printed before: it begins at the offset, or
\* behind it, or is of another entry.
LEMMA ShowOK ==
  ASSUME StoreInv, NEW g \in Following, CatOK(g), NEW ev, ev = ReadFrom(Watched, g.pos),
         NEW bytes, bytes = Bytes(ev.epoch, ev.from, ev.to),
         NEW h, h = [g EXCEPT !.pos = ev.to, !.shown = @ \cup bytes,
                              !.printed = @ + Cardinality(bytes)]
  PROVE  h \in Following /\ CatOK(h)
<1> DEFINE e == entries[Watched]
<1>1. /\ g.pc = "following" /\ g.pos \in Nat /\ g.shown \subseteq Nat \X Nat /\ g.printed \in Nat
      /\ IsFiniteSet(g.shown) /\ Cardinality(g.shown) = g.printed
      /\ \A x \in g.shown :
           /\ x[1] <= epochs
           /\ Watched \in DOMAIN entries /\ x[1] = e.epoch => x[2] < g.pos /\ g.pos <= e.end
  BY DEF Following, CatOK
<1>2. /\ ev.kind \in {"append", "reset"} /\ ev.epoch \in Nat /\ ev.epoch <= epochs
      /\ ev.from \in Nat /\ ev.to \in Nat /\ ev.from <= ev.to
      /\ ev.kind = "append" => ev.from = g.pos
      /\ Watched \notin DOMAIN entries => ev.from = 0 /\ ev.to = 0
      /\ Watched \in DOMAIN entries =>
           /\ ev.epoch = e.epoch /\ ev.to = e.end
           /\ ev.kind = "reset" => ev.from = e.start /\ Outside(e, g.pos)
  BY <1>1, WatchedRead
<1>3. /\ IsFiniteSet(bytes) /\ Cardinality(bytes) \in Nat /\ bytes \subseteq Nat \X Nat
      /\ \A x \in bytes : x[1] = ev.epoch /\ x[2] \in Nat /\ ev.from <= x[2] /\ x[2] < ev.to
      /\ ev.from >= ev.to => bytes = {}
  <2> DEFINE k == ev.epoch
             from == ev.from
             to == ev.to
             B == Bytes(k, from, to)
  <2>1. k \in Nat /\ from \in Nat /\ to \in Nat
    BY <1>2
  <2>2. bytes = B
    OBVIOUS
  <2> HIDE DEF k, from, to
  <2>3. /\ IsFiniteSet(B) /\ Cardinality(B) \in Nat /\ B \subseteq Nat \X Nat
        /\ \A x \in B : x[1] = k /\ x[2] \in Nat /\ from <= x[2] /\ x[2] < to
        /\ from >= to => B = {}
    BY <2>1, BytesFinite
  <2> HIDE DEF B
  <2>4. QED
    BY <2>2, <2>3 DEF k, from, to
<1>4. g.shown \cap bytes = {}
  <2>1. ASSUME NEW x \in g.shown, x \in bytes PROVE FALSE
    <3>1. /\ x[1] = ev.epoch /\ x[2] \in Nat /\ ev.from <= x[2] /\ x[2] < ev.to
      BY <1>3, <2>1
    <3>2. Watched \in DOMAIN entries
      BY <1>2, <3>1
    <3>3. x[2] < g.pos /\ g.pos <= e.end
      BY <1>1, <1>2, <3>1, <3>2
    <3>4. e.start \in Nat /\ e.end \in Nat
      BY <3>2, BufferFacts DEF StoreInv
    <3> HIDE DEF e
    <3>5. ev.kind = "reset" => ev.from = e.start /\ g.pos < e.start
      BY <1>1, <1>2, <3>2, <3>3, <3>4 DEF Outside
    <3>6. QED
      BY <1>1, <1>2, <3>1, <3>3, <3>4, <3>5
  <2>2. QED
    BY <2>1
<1> DEFINE all == g.shown \cup bytes
<1>5. /\ IsFiniteSet(all) /\ Cardinality(all) = g.printed + Cardinality(bytes)
  <2>1. /\ IsFiniteSet(all)
        /\ Cardinality(all)
             = Cardinality(g.shown) + Cardinality(bytes) - Cardinality(g.shown \cap bytes)
    BY <1>1, <1>3, FS_Union
  <2>2. Cardinality(g.shown \cap bytes) = 0
    BY <1>4, FS_EmptySet
  <2> HIDE DEF all
  <2>3. QED
    BY <1>1, <1>3, <2>1, <2>2
<1>6. all \subseteq Nat \X Nat
  BY <1>1, <1>3
<1>7. \A x \in all :
        /\ x[1] <= epochs
        /\ Watched \in DOMAIN entries /\ x[1] = e.epoch => x[2] < ev.to /\ ev.to <= e.end
  <2>1. ASSUME NEW x \in all
        PROVE  /\ x[1] <= epochs
               /\ Watched \in DOMAIN entries /\ x[1] = e.epoch => x[2] < ev.to /\ ev.to <= e.end
    <3>1. x \in Nat \X Nat /\ x[2] \in Nat
      BY <1>6
    <3>2. Watched \in DOMAIN entries => e.end \in Nat
      BY BufferFacts DEF StoreInv
    <3> HIDE DEF e
    <3>3. CASE x \in g.shown
      BY <1>1, <1>2, <3>1, <3>2, <3>3
    <3>4. CASE x \in bytes
      BY <1>2, <1>3, <3>2, <3>4
    <3>5. QED
      BY <3>3, <3>4
  <2>2. QED
    BY <2>1
<1> HIDE DEF all, e
<1>8. /\ h \in Following /\ h.pc = "following" /\ h.pos = ev.to /\ h.shown = all
      /\ h.printed = g.printed + Cardinality(bytes)
  <2>1. h = [g EXCEPT !.pos = ev.to, !.shown = all, !.printed = @ + Cardinality(bytes)]
    BY DEF all
  <2>2. g.printed + Cardinality(bytes) \in Nat
    BY <1>1, <1>3
  <2>3. QED
    BY <1>1, <1>2, <1>6, <2>1, <2>2 DEF Following
<1>9. CatOK(h)
  BY <1>5, <1>7, <1>8 DEF CatOK, e
<1>10. QED
  BY <1>8, <1>9

LEMMA CatStep ==
  ASSUME StoreInv, CatInv, [ClientNext]_<<vars, viewers>>, [Next]_vars
  PROVE  CatInv'
<1>1. ASSUME UNCHANGED cat PROVE CatInv'
  <2>1. ASSUME NEW c \in Cats PROVE CatOK(cat[c])'
    <3> DEFINE g == cat[c]
    <3>1. g \in Following \cup {Off} /\ CatOK(g) /\ g' = g
      BY <1>1 DEF CatInv
    <3> HIDE DEF g
    <3>2. CatOK(g)'
      BY <3>1, CatStays
    <3>3. QED
      BY <3>2 DEF g
  <2>2. QED
    BY <1>1, <2>1 DEF CatInv
\* One logcat changes, and the store does not.
<1>2. ASSUME NEW c \in Cats, NEW h, h \in Following \cup {Off}, CatOK(h),
             cat' = [cat EXCEPT ![c] = h], UNCHANGED vars
      PROVE  CatInv'
  <2>1. cat' \in [Cats -> Following \cup {Off}]
    BY <1>2 DEF CatInv
  <2>2. epochs' = epochs /\ entries' = entries
    BY <1>2 DEF vars, store
  <2>3. ASSUME NEW d \in Cats PROVE CatOK(cat[d])'
    <3>1. CatOK(cat'[d])
      BY <1>2 DEF CatInv
    <3>2. QED
      BY <2>2, <3>1 DEF CatOK
  <2>4. QED
    BY <2>1, <2>3 DEF CatInv
<1>3. ASSUME NEW c \in Cats, NEW n \in Tails, Follow(c, n) PROVE CatInv'
  <2> DEFINE ev == ReadFrom(Watched, 0)
             from == TailLines(Sent([ev EXCEPT !.from = Retained.start]), n)
             bytes == Bytes(ev.epoch, from, ev.to)
             h == [pc |-> "following", pos |-> ev.to, shown |-> bytes,
                   printed |-> Cardinality(bytes)]
  <2>1. cat' = [cat EXCEPT ![c] = h] /\ UNCHANGED vars
    BY <1>3 DEF Follow
  <2>2. n \in Nat
    BY ClientsAssumption
  <2>3. h \in Following /\ CatOK(h)
    BY <2>2, FollowOK
  <2> HIDE DEF h
  <2>4. QED
    BY <1>2, <2>1, <2>3
<1>4. ASSUME NEW c \in Cats, Show(c) PROVE CatInv'
  <2> DEFINE g == cat[c]
             ev == ReadFrom(Watched, g.pos)
             bytes == Bytes(ev.epoch, ev.from, ev.to)
             h == [g EXCEPT !.pos = ev.to, !.shown = @ \cup bytes,
                            !.printed = @ + Cardinality(bytes)]
  <2>1. g \in Following /\ CatOK(g)
    BY <1>4 DEF Show, CatInv, Off
  <2>2. cat' = [cat EXCEPT ![c] = h] /\ UNCHANGED vars
    <3>1. /\ cat' = [cat EXCEPT ![c].pos = ev.to, ![c].shown = @ \cup bytes,
                                ![c].printed = @ + Cardinality(bytes)]
          /\ UNCHANGED vars
      BY <1>4 DEF Show
    <3>2. cat \in [Cats -> Following \cup {Off}]
      BY DEF CatInv
    <3> HIDE DEF ev, bytes
    <3>3. QED
      BY <2>1, <3>1, <3>2 DEF Following
  <2> HIDE DEF g
  <2>3. h \in Following /\ CatOK(h)
    BY <2>1, ShowOK
  <2> HIDE DEF h
  <2>4. QED
    BY <1>2, <2>2, <2>3
<1>5. ASSUME NEW c \in Cats, Quit(c) PROVE CatInv'
  BY <1>2, <1>5 DEF Quit, Off, CatOK
<1>6. ASSUME cat' = [c \in Cats |-> Off] PROVE CatInv'
  BY <1>6 DEF CatInv, CatOK, Off
<1>7. ASSUME NEW p \in Pages, Resume(p) \/ Pause(p) \/ Apply(p) PROVE UNCHANGED cat
  BY <1>7 DEF Resume, Pause, Apply
<1>8. UNCHANGED <<vars, viewers>> \/ UNCHANGED viewers => UNCHANGED cat
  BY DEF viewers
<1>9. QED
  BY <1>1, <1>3, <1>4, <1>5, <1>6, <1>7, <1>8 DEF ClientNext

\* What is sent again was never printed.
THEOREM NothingPrintedTwice == ClientSpec => []PrintedOnce
<1>1. CatInv => PrintedOnce
  BY DEF CatInv, CatOK, PrintedOnce
<1>2. ClientInit => StoreInv
  BY InitStore DEF ClientInit
<1>3. ClientSpec => [](StoreInv /\ CatInv)
  <2>1. StoreInv /\ CatInv /\ [ClientNext]_<<vars, viewers>> /\ [Next]_vars
          => (StoreInv /\ CatInv)'
    BY StoreStep, CatStep
  <2>2. QED
    BY <1>2, <2>1, InitCat, ClientsOnlyRead, PTL DEF ClientSpec, Spec
<1>4. QED
  BY <1>1, <1>3, PTL

\* Of any window, whatever its lines: tailLines finds the last n, but for the
\* blank line at the beginning.
THEOREM TailIsExact == ClientSpec => []TailExact
<1>1. StoreInv => TailExact
  <2> SUFFICES ASSUME StoreInv, NEW k \in DOMAIN entries, NEW n \in Tails,
                      entries[k].start \notin entries[k].newlines
               PROVE  TailLines(entries[k], n) = LastLines(entries[k], n)
    BY DEF TailExact
  <2>1. TextOK(entries[k])
    BY BufferText DEF StoreInv
  <2>2. n \in Nat
    BY ClientsAssumption
  <2>3. QED
    BY <2>1, <2>2, TailLinesOK
<1>2. QED
  BY <1>1, ClientStore, PTL

=============================================================================
