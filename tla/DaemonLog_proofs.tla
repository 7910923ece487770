--------------------------- MODULE DaemonLog_proofs --------------------------
(***************************************************************************)
(* Proofs about DaemonLog, for any texts, any number of inodes and lives,  *)
(* and whatever the sizes of chunk and buffer: what the command prints     *)
(* first are the last lines of the log, and what follows has neither hole  *)
(* nor repetition.                                                         *)
(***************************************************************************)
EXTENDS DaemonLog, FiniteSetTheorems, WellFoundedInduction, TLAPS

(***************************************************************************)
(* Numbers.                                                                *)
(***************************************************************************)

\* A set of numbers has a least one: the smallest of the intervals that they
\* end.
LEMMA Least ==
  ASSUME NEW T \in SUBSET Nat, T # {}
  PROVE  \E x \in T : \A y \in T : x <= y
<1> DEFINE I(x) == 0..x
           F == {I(x) : x \in T}
           R == StrictSubsetOrdering(Nat)
<1>1. F \subseteq FiniteSubsetsOf(Nat) /\ F # {}
  <2>1. ASSUME NEW x \in T PROVE IsFiniteSet(I(x)) /\ I(x) \subseteq Nat
    BY FS_Interval
  <2>2. QED
    BY <2>1 DEF FiniteSubsetsOf
<1>2. PICK s \in F : \A t \in F : <<t, s>> \notin R
  <2> HIDE DEF F, R
  <2>1. IsWellFoundedOn(R, FiniteSubsetsOf(Nat))
    BY FS_StrictSubsetOrderingWellFounded DEF R
  <2>2. QED
    BY <1>1, <2>1, WFMin
<1>3. PICK x \in T : s = I(x)
  OBVIOUS
<1>4. ASSUME NEW y \in T, y < x PROVE FALSE
  <2>1. I(y) \subseteq I(x) /\ I(y) # I(x)
    BY <1>4
  <2>2. I(x) \subseteq Nat
    OBVIOUS
  <2>3. <<I(y), I(x)>> \in R
    BY <2>1, <2>2 DEF StrictSubsetOrdering
  <2>4. QED
    BY <1>2, <1>3, <2>3
<1>5. QED
  BY <1>4

\* Counting upwards, one comes by every number of elements, at an element.
LEMMA Count ==
  ASSUME NEW m \in Nat, NEW S \in SUBSET (0..(m - 1)), NEW e \in Nat,
         1 <= e, e <= Cardinality(S)
  PROVE  \E n \in S : Cardinality({i \in S : i < n + 1}) = e
<1> DEFINE Below(x) == {i \in S : i < x}
           C(x) == Cardinality(Below(x))
           T == {x \in Nat : e <= C(x)}
<1>1. IsFiniteSet(S) /\ \A i \in S : i \in Nat /\ i < m
  <2>1. m - 1 \in Int
    OBVIOUS
  <2>2. IsFiniteSet(0..(m - 1))
    BY <2>1, FS_Interval
  <2>3. \A i \in S : i \in 0..(m - 1)
    OBVIOUS
  <2>4. IsFiniteSet(S)
    BY <2>2, FS_Subset
  <2>5. QED
    BY <2>3, <2>4
<1>2. \A x : IsFiniteSet(Below(x)) /\ C(x) \in Nat
  BY <1>1, FS_Subset, FS_CardinalityType
<1>3. Below(m) = S /\ Below(0) = {}
  <2>1. \A i \in S : i < m /\ ~(i < 0)
    BY <1>1
  <2>2. QED
    BY <2>1
<1>4. m \in T /\ 0 \notin T
  BY <1>3, FS_EmptySet
<1>5. PICK x \in T : \A y \in T : x <= y
  <2>1. T \in SUBSET Nat /\ T # {}
    BY <1>4
  <2> HIDE DEF T
  <2>2. QED
    BY <2>1, Least
<1>6. PICK n \in Nat : x = n + 1
  <2>1. x \in Nat /\ x # 0
    BY <1>4
  <2>2. x - 1 \in Nat /\ x = (x - 1) + 1
    BY <2>1
  <2>3. QED
    BY <2>2
<1>7. C(n) < e /\ e <= C(n + 1)
  <2>1. n \notin T /\ n + 1 \in T
    BY <1>5, <1>6
  <2> HIDE DEF C
  <2>2. ~(e <= C(n)) /\ e <= C(n + 1)
    BY <2>1
  <2>3. C(n) \in Nat
    BY <1>2 DEF C
  <2>4. QED
    BY <2>2, <2>3
<1>8. n \in S /\ Below(n + 1) = Below(n) \cup {n} /\ n \notin Below(n)
  <2>1. \A i \in S : i < n + 1 <=> i < n \/ i = n
    BY <1>1
  <2>2. n \notin S => Below(n + 1) = Below(n)
    BY <2>1
  <2>3. Below(n + 1) # Below(n)
    <3> HIDE DEF Below
    <3>1. C(n) \in Nat /\ C(n + 1) \in Nat
      BY <1>2
    <3>2. QED
      BY <1>7, <3>1
  <2>4. QED
    BY <2>1, <2>2, <2>3
<1>9. C(n + 1) = C(n) + 1
  <2> HIDE DEF Below
  <2>1. QED
    BY <1>2, <1>8, FS_AddElement
<1>10. C(n + 1) = e
  <2> HIDE DEF C
  <2>1. C(n) \in Nat
    BY <1>2
  <2>2. QED
    BY <1>7, <1>9, <2>1
<1>11. QED
  BY <1>8, <1>10

\* Counting downwards, too.
LEMMA CountDown ==
  ASSUME NEW m \in Nat, NEW S \in SUBSET (0..(m - 1)), NEW n \in Nat,
         1 <= n, n <= Cardinality(S)
  PROVE  \E x \in S : Cardinality({j \in S : j >= x}) = n
<1>1. IsFiniteSet(S) /\ Cardinality(S) \in Nat /\ \A j \in S : j \in Nat
  <2>1. m - 1 \in Int
    OBVIOUS
  <2>2. IsFiniteSet(0..(m - 1))
    BY <2>1, FS_Interval
  <2>3. IsFiniteSet(S)
    BY <2>2, FS_Subset
  <2>4. Cardinality(S) \in Nat
    BY <2>3, FS_CardinalityType
  <2>5. QED
    BY <2>3, <2>4
<1> DEFINE K == Cardinality(S)
           e == K - n + 1
<1>2. e \in Nat /\ 1 <= e /\ e <= K
  BY <1>1
<1>3. PICK x \in S : Cardinality({j \in S : j < x + 1}) = e
  <2> HIDE DEF e
  <2>1. QED
    BY <1>2, Count
<1> DEFINE low == {j \in S : j < x}
           high == {j \in S : j >= x}
<1>4. {j \in S : j < x + 1} = low \cup {x} /\ x \notin low
  <2>1. \A j \in S : j < x + 1 <=> j < x \/ j = x
    BY <1>1
  <2>2. ~(x < x)
    BY <1>1
  <2>3. QED
    BY <2>1, <2>2
<1>5. IsFiniteSet(low) /\ Cardinality(low) \in Nat
  BY <1>1, FS_Subset, FS_CardinalityType
<1>6. Cardinality(low) + 1 = e
  <2> HIDE DEF low, e
  <2>1. Cardinality(low \cup {x}) = Cardinality(low) + 1
    BY <1>4, <1>5, FS_AddElement
  <2>2. QED
    BY <1>3, <1>4, <2>1
<1>7. high = S \ low /\ S \cap low = low
  <2>1. \A j \in S : j >= x <=> ~(j < x)
    BY <1>1
  <2>2. QED
    BY <2>1
<1>8. Cardinality(S \ low) = K - Cardinality(low)
  <2> HIDE DEF low, high
  <2>1. Cardinality(S \ low) = K - Cardinality(S \cap low)
    BY <1>1, FS_Difference
  <2>2. QED
    BY <1>7, <2>1
<1>9. Cardinality(high) = n
  <2> HIDE DEF low, high
  <2>1. QED
    BY <1>1, <1>5, <1>6, <1>7, <1>8
<1>10. QED
  BY <1>9

\* No two elements have the same number of elements from them on.
LEMMA CountOnce ==
  ASSUME NEW S, IsFiniteSet(S), S \subseteq Nat, NEW x \in S, NEW y \in S,
         Cardinality({j \in S : j >= x}) = Cardinality({j \in S : j >= y})
  PROVE  x = y
<1>1. ASSUME NEW u \in S, NEW v \in S, u < v,
             Cardinality({j \in S : j >= u}) = Cardinality({j \in S : j >= v})
      PROVE  FALSE
  <2> DEFINE U == {j \in S : j >= u}
             V == {j \in S : j >= v}
  <2>1. V \subseteq U /\ u \in U /\ u \notin V
    <3>1. u \in Nat /\ v \in Nat /\ u >= u /\ ~(u >= v)
      BY <1>1
    <3>2. \A j \in S : j >= v => j >= u
      BY <1>1, <3>1
    <3>3. QED
      BY <3>1, <3>2
  <2>2. IsFiniteSet(U)
    BY FS_Subset
  <2>3. Cardinality(U) = Cardinality(V)
    BY <1>1
  <2> HIDE DEF U, V
  <2>4. U = V
    BY <2>1, <2>2, <2>3, FS_Subset
  <2>5. QED
    BY <2>1, <2>4
<1>2. x \in Nat /\ y \in Nat
  OBVIOUS
<1>3. QED
  BY <1>1, <1>2

\* A line that is shifted by one counts as it did.
LEMMA CountShifted ==
  ASSUME NEW S, IsFiniteSet(S), S \subseteq Nat
  PROVE  /\ IsFiniteSet({j + 1 : j \in S})
         /\ Cardinality({j + 1 : j \in S}) = Cardinality(S)
<1> DEFINE T == {j + 1 : j \in S}
           f == [j \in S |-> j + 1]
<1>1. f \in Bijection(S, T)
  <2>1. f \in [S -> T]
    OBVIOUS
  <2>2. \A i, j \in S : f[i] = f[j] => i = j
    OBVIOUS
  <2>3. \A t \in T : \E j \in S : f[j] = t
    OBVIOUS
  <2> HIDE DEF T, f
  <2>4. QED
    BY <2>1, <2>2, <2>3 DEF Bijection, Injection, Surjection, IsInjective
<1>2. ExistsBijection(S, T)
  BY <1>1 DEF ExistsBijection
<1> HIDE DEF T
<1>3. IsFiniteSet(T) /\ Cardinality(T) = Cardinality(S)
  BY <1>2, FS_Bijection
<1>4. QED
  BY <1>3 DEF T

(***************************************************************************)
(* Lines.                                                                  *)
(***************************************************************************)

TextOK(b) ==
  /\ b.start \in Nat /\ b.end \in Nat /\ b.start <= b.end
  /\ b.newlines \subseteq b.start..(b.end - 1)

\* The line breaks that have something behind them.
Inner(b) == b.newlines \ {b.end - 1}

LEMMA InnerFacts ==
  ASSUME NEW b, TextOK(b)
  PROVE  /\ \A j \in Inner(b) : j \in Nat /\ b.start <= j /\ j + 1 < b.end
         /\ Inner(b) \subseteq Nat
         /\ IsFiniteSet(Inner(b)) /\ Cardinality(Inner(b)) \in Nat
         /\ Inner(b) \subseteq 0..(b.end - 1)
<1>1. \A j \in Inner(b) : j \in Nat /\ b.start <= j /\ j + 1 < b.end
  BY DEF TextOK, Inner
<1>2. Inner(b) \subseteq 0..(b.end - 1) /\ b.end - 1 \in Int
  BY <1>1 DEF TextOK
<1>3. IsFiniteSet(0..(b.end - 1))
  BY <1>2, FS_Interval
<1>4. IsFiniteSet(Inner(b)) /\ Cardinality(Inner(b)) \in Nat
  BY <1>2, <1>3, FS_Subset, FS_CardinalityType
<1>5. QED
  BY <1>1, <1>2, <1>4

\* The last n lines begin behind the n-th of these from the end.
LEMMA LastLinesAt ==
  ASSUME NEW b, TextOK(b), NEW n \in Nat
  PROVE  /\ n = 0 \/ Cardinality(Inner(b)) < n => LastLines(b, n) = b.start
         /\ \A m \in Inner(b) :
              Cardinality({j \in Inner(b) : j >= m}) = n => LastLines(b, n) = m + 1
<1> DEFINE B == Inner(b)
           T == {j + 1 : j \in B}
           L == LineStarts(b)
<1>1. /\ \A j \in B : j \in Nat /\ b.start <= j /\ j + 1 < b.end
      /\ IsFiniteSet(B) /\ Cardinality(B) \in Nat /\ B \subseteq Nat
      /\ b.start \in Nat /\ b.end \in Nat /\ b.start <= b.end
  BY InnerFacts DEF TextOK
<1>2. CASE b.start = b.end
  <2>1. L = {}
    <3>1. b.newlines = {}
      BY <1>2 DEF TextOK
    <3>2. QED
      BY <1>1, <1>2, <3>1 DEF LineStarts
  <2>2. LastLines(b, n) = b.start
    <3>1. Cardinality(L) = 0
      BY <2>1, FS_EmptySet
    <3> HIDE DEF L
    <3>2. Cardinality(L) <= n
      BY <3>1
    <3>3. QED
      BY <3>2 DEF LastLines, L
  <2>3. B = {}
    BY <1>1, <1>2
  <2>4. QED
    BY <2>2, <2>3
<1>3. CASE b.start < b.end
  <2>1. L = {b.start} \cup T /\ b.start \notin T
    <3>1. ASSUME NEW j \in b.newlines PROVE j + 1 < b.end <=> j \in B
      BY <1>1 DEF TextOK, Inner
    <3>2. B \subseteq b.newlines
      BY DEF Inner
    <3>3. L = {b.start} \cup T
      BY <1>1, <1>3, <3>1, <3>2 DEF LineStarts
    <3>4. b.start \notin T
      BY <1>1
    <3>5. QED
      BY <3>3, <3>4
  <2>2. IsFiniteSet(T) /\ Cardinality(T) = Cardinality(B)
    <3> HIDE DEF B
    <3>1. QED
      BY <1>1, CountShifted
  <2>3. IsFiniteSet(L) /\ Cardinality(L) = Cardinality(B) + 1 /\ L \subseteq Nat
    <3>1. T \subseteq Nat
      BY <1>1
    <3> HIDE DEF T, B, L
    <3>2. IsFiniteSet(T \cup {b.start}) /\ Cardinality(T \cup {b.start}) = Cardinality(T) + 1
      BY <2>1, <2>2, FS_AddElement
    <3>3. T \cup {b.start} = L
      BY <2>1
    <3>4. QED
      BY <1>1, <2>1, <2>2, <3>1, <3>2, <3>3
  <2>4. n = 0 \/ Cardinality(B) < n => LastLines(b, n) = b.start
    <3> HIDE DEF B, L
    <3>1. Cardinality(B) < n => Cardinality(L) <= n
      BY <1>1, <2>3
    <3>2. QED
      BY <3>1 DEF LastLines, L
  <2>5. ASSUME NEW m \in B, Cardinality({j \in B : j >= m}) = n
        PROVE  LastLines(b, n) = m + 1
    <3> DEFINE Right(c) == Cardinality({d \in L : d >= c}) = n
               H == {j \in B : j >= m}
    <3>1. {d \in L : d >= m + 1} = {j + 1 : j \in H}
      <4> HIDE DEF L
      <4>1. {d \in L : d >= m + 1} = {d \in T : d >= m + 1}
        BY <1>1, <2>1
      <4>2. {d \in T : d >= m + 1} = {j + 1 : j \in H}
        BY <1>1
      <4>3. QED
        BY <4>1, <4>2
    <3>2. IsFiniteSet(H) /\ H \subseteq Nat /\ H \subseteq B
      <4>1. H \subseteq B
        OBVIOUS
      <4> HIDE DEF H, B
      <4>2. QED
        BY <1>1, <4>1, FS_Subset
    <3>3. Right(m + 1) /\ m + 1 \in L
      <4>1. m + 1 \in L
        BY <2>1
      <4>2. Cardinality({j + 1 : j \in H}) = Cardinality(H)
        <5> HIDE DEF H
        <5>1. QED
          BY <3>2, CountShifted
      <4>3. Cardinality(H) = n
        BY <2>5
      <4> HIDE DEF H, L
      <4>4. QED
        BY <3>1, <4>1, <4>2, <4>3
    <3>4. n # 0 /\ ~(Cardinality(L) <= n)
      <4>1. m \in H
        BY <1>1
      <4>2. Cardinality(H) = n
        BY <2>5
      <4> HIDE DEF H, B, L
      <4>3. Cardinality(H) # 0
        BY <3>2, <4>1, FS_EmptySet
      <4>4. Cardinality(H) <= Cardinality(B)
        BY <1>1, <3>2, FS_Subset
      <4>5. QED
        BY <1>1, <2>3, <4>2, <4>3, <4>4
    <3>5. LastLines(b, n) = CHOOSE c \in L : Right(c)
      BY <3>4 DEF LastLines
    <3>6. \A c \in L : Right(c) => c = m + 1
      <4> HIDE DEF L
      <4>1. QED
        BY <2>3, <3>3, CountOnce
    <3> HIDE DEF L, Right
    <3>7. QED
      BY <3>3, <3>5, <3>6
  <2>6. QED
    BY <2>4, <2>5
<1>4. QED
  BY <1>1, <1>2, <1>3

\* lastLines finds them, whatever the text.
LEMMA LinesFromOK ==
  ASSUME NEW b, TextOK(b), NEW n \in Nat
  PROVE  /\ LinesFrom(b, n) = LastLines(b, n)
         /\ LastLines(b, n) \in b.start..b.end
         /\ \/ LastLines(b, n) = b.start /\ (n = 0 \/ Cardinality(Inner(b)) < n)
            \/ /\ n > 0 /\ LastLines(b, n) - 1 \in Inner(b)
               /\ Cardinality({j \in Inner(b) : j >= LastLines(b, n) - 1}) = n
<1> DEFINE B == Inner(b)
           Right(m) == Cardinality({j \in B : j >= m}) = n
<1>1. /\ \A j \in B : j \in Nat /\ b.start <= j /\ j + 1 < b.end
      /\ IsFiniteSet(B) /\ Cardinality(B) \in Nat /\ B \subseteq 0..(b.end - 1)
      /\ B \subseteq Nat
      /\ b.start \in Nat /\ b.end \in Nat /\ b.start <= b.end
  BY InnerFacts DEF TextOK
<1>2. LinesFrom(b, n) = IF n = 0 \/ Cardinality(B) < n THEN b.start
                        ELSE 1 + CHOOSE m \in B : Right(m)
  BY DEF LinesFrom, Inner
<1>3. CASE n = 0 \/ Cardinality(B) < n
  <2>1. LastLines(b, n) = b.start
    BY <1>3, LastLinesAt
  <2>2. LinesFrom(b, n) = b.start
    BY <1>2, <1>3
  <2> HIDE DEF B
  <2>3. QED
    BY <1>1, <1>3, <2>1, <2>2 DEF B
<1>4. CASE n > 0 /\ ~(Cardinality(B) < n)
  <2>1. PICK x \in B : Right(x)
    <3>1. 1 <= n /\ n <= Cardinality(B)
      BY <1>1, <1>4
    <3> HIDE DEF B
    <3>2. B \in SUBSET (0..(b.end - 1)) /\ b.end \in Nat
      BY <1>1
    <3>3. \E x \in B : Cardinality({j \in B : j >= x}) = n
      BY <3>1, <3>2, CountDown
    <3>4. QED
      BY <3>3
  <2> DEFINE m == CHOOSE j \in B : Right(j)
  <2>2. m \in B /\ Right(m)
    BY <2>1
  <2>3. LinesFrom(b, n) = 1 + m
    BY <1>2, <1>4
  <2> HIDE DEF m
  <2>4. LastLines(b, n) = m + 1
    BY <2>2, LastLinesAt
  <2>5. m \in Nat /\ b.start <= m /\ m + 1 < b.end /\ (m + 1) - 1 = m /\ 1 + m = m + 1
    BY <1>1, <2>2
  <2> HIDE DEF B
  <2>6. QED
    BY <1>1, <1>4, <2>2, <2>3, <2>4, <2>5 DEF B
<1>5. QED
  BY <1>1, <1>3, <1>4

\* In a chunk at the end of a text they begin where they do in the text, or
\* the chunk does.
LEMMA WithinChunk ==
  ASSUME NEW b, TextOK(b), NEW n \in Nat, n > 0,
         NEW x, TextOK(x), b.start <= x.start, x.end = b.end,
         x.newlines = {j \in b.newlines : j >= x.start}
  PROVE  LastLines(x, n) =
           IF LastLines(b, n) < x.start THEN x.start ELSE LastLines(b, n)
<1> DEFINE B == Inner(b)
           C == Inner(x)
           c == x.start
<1>1. /\ C = {j \in B : j >= c} /\ B \subseteq Nat /\ IsFiniteSet(B) /\ IsFiniteSet(C)
      /\ Cardinality(B) \in Nat /\ Cardinality(C) \in Nat
      /\ c \in Nat /\ b.start \in Nat /\ \A j \in B : b.start <= j
  <2>1. C = {j \in B : j >= c}
    BY DEF Inner
  <2>2. B \subseteq Nat /\ IsFiniteSet(B) /\ Cardinality(B) \in Nat
        /\ \A j \in B : b.start <= j
    BY InnerFacts
  <2>3. IsFiniteSet(C) /\ Cardinality(C) \in Nat
    BY InnerFacts
  <2>4. QED
    BY <2>1, <2>2, <2>3 DEF TextOK
<1>2. /\ LastLines(b, n) \in b.start..b.end
      /\ \/ LastLines(b, n) = b.start /\ Cardinality(B) < n
         \/ /\ LastLines(b, n) - 1 \in B
            /\ Cardinality({j \in B : j >= LastLines(b, n) - 1}) = n
  BY LinesFromOK
<1>3. \/ LastLines(x, n) = c /\ Cardinality(C) < n
      \/ /\ LastLines(x, n) - 1 \in C /\ LastLines(x, n) \in Nat
         /\ Cardinality({j \in C : j >= LastLines(x, n) - 1}) = n
  <2>1. LastLines(x, n) \in x.start..x.end
    BY LinesFromOK
  <2>2. LastLines(x, n) \in Nat
    BY <2>1 DEF TextOK
  <2>3. QED
    BY <2>2, LinesFromOK
<1> HIDE DEF B, C, c
<1>4. CASE LastLines(x, n) = c /\ Cardinality(C) < n
  <2>1. ASSUME LastLines(b, n) > c PROVE FALSE
    <3> DEFINE m == LastLines(b, n) - 1
               H == {j \in B : j >= m}
    <3>1. LastLines(b, n) # b.start
      BY <1>1, <1>2, <2>1 DEF c
    <3>2. m \in B /\ Cardinality(H) = n /\ m >= c
      BY <1>1, <1>2, <2>1, <3>1 DEF TextOK
    <3>a. m \in Nat
      BY <1>1, <3>2
    <3>3. H \subseteq C
      <4> HIDE DEF m
      <4>1. ASSUME NEW j \in B, j >= m PROVE j >= c
        <5>1. j \in Nat
          BY <1>1
        <5>2. QED
          BY <1>1, <3>2, <3>a, <4>1, <5>1
      <4>2. QED
        BY <1>1, <4>1
    <3> HIDE DEF H, m
    <3>4. Cardinality(H) <= Cardinality(C)
      BY <1>1, <3>3, FS_Subset
    <3>5. QED
      BY <1>1, <1>4, <3>2, <3>4
  <2>2. LastLines(b, n) \in Nat
    BY <1>2 DEF TextOK
  <2>3. QED
    BY <1>1, <1>4, <2>1, <2>2 DEF c
<1>5. CASE /\ LastLines(x, n) - 1 \in C /\ LastLines(x, n) \in Nat
           /\ Cardinality({j \in C : j >= LastLines(x, n) - 1}) = n
  <2> DEFINE m == LastLines(x, n) - 1
  <2>1. m \in B /\ m >= c /\ m \in Nat /\ LastLines(x, n) = m + 1
    BY <1>1, <1>5
  <2>2. {j \in C : j >= m} = {j \in B : j >= m}
    <3> HIDE DEF m
    <3>1. ASSUME NEW j \in B, j >= m PROVE j >= c
      <4>1. j \in Nat
        BY <1>1
      <4>2. QED
        BY <1>1, <2>1, <3>1, <4>1
    <3>2. QED
      BY <1>1, <3>1
  <2>3. LastLines(b, n) = m + 1
    <3>1. Cardinality({j \in B : j >= m}) = n
      BY <1>5, <2>2
    <3> HIDE DEF m
    <3>2. QED
      BY <2>1, <3>1, LastLinesAt DEF B
  <2> HIDE DEF m
  <2>4. QED
    BY <1>1, <2>1, <2>3 DEF c
<1>6. QED
  BY <1>3, <1>4, <1>5

(***************************************************************************)
(* The shape of the state, and that no two inodes hold the same life.      *)
(***************************************************************************)

Contents == [life : Nat, end : Nat, newlines : SUBSET Nat]

Shape ==
  /\ TypeOK
  /\ files \in Seq(Contents)
  /\ tail \in [lines : Nat, whole : Contents, from : Nat]
  /\ tail.whole.newlines \subseteq 0..(tail.whole.end - 1)
  /\ seen \in [1..MaxLives -> Nat \cup {Unseen}]
  /\ raced \in BOOLEAN /\ again \in BOOLEAN
  /\ \A i, j \in DOMAIN files : files[i].life = files[j].life => i = j

LEMMA ShapeFacts ==
  ASSUME Shape
  PROVE  /\ DOMAIN files = 1..Len(files) /\ Len(files) \in Nat /\ Len(files) <= MaxFiles
         /\ MaxFiles \in Nat /\ MaxLives \in Nat /\ MaxEnd \in Nat
         /\ Chunk \in Nat /\ Chunk > 0 /\ Buffer \in Nat /\ Buffer > 0
         /\ lives \in Nat /\ lives >= 1 /\ lives <= MaxLives /\ offset \in Nat /\ offset <= MaxEnd
         /\ \A i \in DOMAIN files :
              /\ files[i] \in Contents
              /\ files[i].life \in Nat /\ files[i].life >= 1 /\ files[i].life <= lives
              /\ files[i].end \in Nat /\ files[i].end <= MaxEnd
              /\ files[i].newlines \subseteq 0..(files[i].end - 1)
              /\ files[i].life \in 1..MaxLives
<1>1. /\ MaxFiles \in Nat /\ MaxLives \in Nat /\ MaxEnd \in Nat
      /\ Chunk \in Nat /\ Chunk > 0 /\ Buffer \in Nat /\ Buffer > 0
  BY LogAssumption
<1>2. DOMAIN files = 1..Len(files) /\ Len(files) \in Nat /\ Len(files) <= MaxFiles
  BY <1>1 DEF Shape, TypeOK
<1>3. /\ lives \in Nat /\ lives >= 1 /\ lives <= MaxLives
      /\ offset \in Nat /\ offset <= MaxEnd
  BY <1>1 DEF Shape, TypeOK
<1>4. ASSUME NEW i \in DOMAIN files
      PROVE  /\ files[i] \in Contents
             /\ files[i].life \in Nat /\ files[i].life >= 1 /\ files[i].life <= lives
             /\ files[i].end \in Nat /\ files[i].end <= MaxEnd
             /\ files[i].newlines \subseteq 0..(files[i].end - 1)
             /\ files[i].life \in 1..MaxLives
  <2>1. files[i] \in Contents
    BY <1>2 DEF Shape
  <2>2. /\ files[i].life \in 1..lives /\ files[i].end \in 0..MaxEnd
        /\ files[i].newlines \subseteq 0..(files[i].end - 1)
    BY DEF Shape, TypeOK
  <2>3. QED
    BY <1>1, <1>3, <2>1, <2>2
<1>5. QED
  BY <1>1, <1>2, <1>3, <1>4

LEMMA InitShape == Init => Shape
<1> SUFFICES ASSUME Init PROVE Shape
  OBVIOUS
<1>1. MaxEnd \in Nat /\ MaxFiles \in Nat \ {0} /\ MaxLives \in Nat \ {0}
  BY LogAssumption
<1>2. Fresh(1) \in Contents /\ Fresh(1).life = 1 /\ Fresh(1).end = 0 /\ Fresh(1).newlines = {}
  BY DEF Fresh, Contents
<1>3. files = <<Fresh(1)>> /\ Len(files) = 1 /\ DOMAIN files = {1} /\ files[1] = Fresh(1)
  BY DEF Init
<1>4. files \in Seq(Contents)
  BY <1>2, <1>3
<1>5. /\ tail.lines = 0 /\ tail.whole = Fresh(1) /\ tail.from = 0
      /\ tail \in [lines : Nat, whole : Contents, from : Nat]
  BY <1>2 DEF Init, NoTail
<1>6. seen \in [1..MaxLives -> Nat \cup {Unseen}]
  BY DEF Init
<1>7. TypeOK
  BY <1>1, <1>2, <1>3, <1>5 DEF Init, TypeOK, NoFile
<1>8. QED
  BY <1>2, <1>3, <1>4, <1>5, <1>6, <1>7 DEF Init, Shape

\* What writes, truncations and rotations do to an inode and its path.
FilesChange ==
  /\ lives' \in {lives, lives + 1}
  /\ DOMAIN files \subseteq DOMAIN files'
  /\ \A i \in DOMAIN files :
       \/ /\ files'[i].life = files[i].life
          /\ files[i].end <= files'[i].end
          /\ files[i].newlines = {n \in files'[i].newlines : n < files[i].end}
       \/ i = path /\ files'[i].life = lives + 1 /\ lives' = lives + 1
  /\ \A i \in DOMAIN files' \ DOMAIN files :
       files'[i].life = lives + 1 /\ lives' = lives + 1
  /\ path' \in {path, NoFile} \cup (DOMAIN files' \ DOMAIN files)
  /\ UNCHANGED <<pc, fd, offset, output>>

LEMMA WritesShape ==
  ASSUME Shape, NEW t \in Texts, DaemonWrites(t)
  PROVE  Shape' /\ FilesChange
<1> DEFINE more == {files[log].end + i - 1 : i \in t.newlines}
           f == files[log]
           N == f.newlines \cup more
           e == f.end + t.len
           g == Extend(f, t)
<1>1. t.len \in Nat /\ t.newlines \subseteq 1..t.len
  BY LogAssumption
<1>2. /\ log \in DOMAIN files /\ f \in Contents /\ f.life \in Nat /\ f.end \in Nat
      /\ f.newlines \subseteq 0..(f.end - 1) /\ e <= MaxEnd /\ f.life \in 1..lives
  BY ShapeFacts DEF DaemonWrites, Shape, TypeOK
<1>3. more \subseteq f.end..(e - 1) /\ more \subseteq Nat
  BY <1>1, <1>2
<1>4. g = [f EXCEPT !.end = e, !.newlines = N]
  BY DEF Extend
<1>5. e \in Nat /\ N \in SUBSET Nat /\ N \subseteq 0..(e - 1) /\ f.end <= e
  <2> HIDE DEF more
  <2>1. e \in Nat /\ f.end <= e /\ 0..(f.end - 1) \subseteq 0..(e - 1)
        /\ f.end..(e - 1) \subseteq 0..(e - 1) /\ 0..(e - 1) \subseteq Nat
    BY <1>1, <1>2
  <2> HIDE DEF e, f
  <2>2. N \subseteq 0..(e - 1)
    BY <1>2, <1>3, <2>1
  <2> HIDE DEF N
  <2>3. QED
    BY <2>1, <2>2
<1>6. f.newlines = {n \in N : n < f.end}
  <2>1. \A n \in more : ~(n < f.end)
    BY <1>1, <1>2
  <2>2. \A n \in f.newlines : n < f.end
    BY <1>2
  <2> HIDE DEF f, more
  <2>3. QED
    BY <2>1, <2>2
<1> HIDE DEF e, N, g, more
<1>7. g \in Contents /\ g.life = f.life /\ g.end = e /\ g.newlines = N
  BY <1>2, <1>4, <1>5 DEF Contents
<1>8. files' = [files EXCEPT ![log] = g]
  BY DEF DaemonWrites, g
<1>9. /\ files' \in Seq(Contents) /\ Len(files') = Len(files) /\ DOMAIN files' = DOMAIN files
      /\ files'[log] = g /\ \A i \in DOMAIN files \ {log} : files'[i] = files[i]
  <2>1. files \in Seq(Contents)
    BY DEF Shape
  <2>2. QED
    BY <1>2, <1>7, <1>8, <2>1
<1>10. UNCHANGED <<path, log, lives, pc, fd, offset, output>>
  BY DEF DaemonWrites
<1>11. TypeOK'
  <2>1. \A i \in DOMAIN files' :
          /\ files'[i].life \in 1..lives /\ files'[i].end \in 0..MaxEnd
          /\ files'[i].newlines \subseteq 0..(files'[i].end - 1)
    <3>1. g.life \in 1..lives /\ g.end \in 0..MaxEnd /\ g.newlines \subseteq 0..(g.end - 1)
      BY <1>2, <1>5, <1>7, ShapeFacts DEF e
    <3>2. \A i \in DOMAIN files :
            /\ files[i].life \in 1..lives /\ files[i].end \in 0..MaxEnd
            /\ files[i].newlines \subseteq 0..(files[i].end - 1)
      BY DEF Shape, TypeOK
    <3>3. QED
      BY <1>9, <3>1, <3>2
  <2>2. QED
    BY <1>9, <1>10, <2>1 DEF Shape, TypeOK, output
<1>12. \A i, j \in DOMAIN files' : files'[i].life = files'[j].life => i = j
  BY <1>2, <1>7, <1>9 DEF Shape
<1>13. Shape'
  BY <1>9, <1>10, <1>11, <1>12 DEF Shape, output
<1>14. FilesChange
  <2>1. ASSUME NEW i \in DOMAIN files
        PROVE  /\ files'[i].life = files[i].life
               /\ files[i].end <= files'[i].end
               /\ files[i].newlines = {n \in files'[i].newlines : n < files[i].end}
    <3>1. CASE i = log
      BY <1>2, <1>5, <1>6, <1>7, <1>9, <3>1
    <3>2. CASE i # log
      <4>1. files'[i] = files[i]
        BY <1>9, <3>2
      <4>2. \A n \in files[i].newlines : n < files[i].end
        BY ShapeFacts
      <4>3. files[i].end <= files[i].end
        BY ShapeFacts
      <4>4. QED
        BY <4>1, <4>2, <4>3
    <3>3. QED
      BY <3>1, <3>2
  <2>2. QED
    BY <1>9, <1>10, <2>1 DEF FilesChange
<1>15. QED
  BY <1>13, <1>14

LEMMA TruncateShape ==
  ASSUME Shape, Truncate
  PROVE  Shape' /\ FilesChange
<1> DEFINE g == Fresh(lives + 1)
<1>1. /\ path \in DOMAIN files /\ lives' = lives + 1 /\ lives < MaxLives
      /\ files' = [files EXCEPT ![path] = g]
      /\ UNCHANGED <<path, log, pc, fd, offset, output>>
  BY DEF Truncate, Shape, TypeOK
<1>2. g \in Contents /\ g.life = lives + 1 /\ g.end = 0 /\ g.newlines = {} /\ lives \in Nat
  BY ShapeFacts DEF Fresh, Contents
<1> HIDE DEF g
<1>3. /\ files' \in Seq(Contents) /\ Len(files') = Len(files) /\ DOMAIN files' = DOMAIN files
      /\ files'[path] = g /\ \A i \in DOMAIN files \ {path} : files'[i] = files[i]
  <2>1. files \in Seq(Contents)
    BY DEF Shape
  <2>2. QED
    BY <1>1, <1>2, <2>1
<1>4. TypeOK'
  <2>1. lives' \in 1..MaxLives /\ MaxEnd \in Nat
    BY <1>1, <1>2, ShapeFacts
  <2>2. \A i \in DOMAIN files' :
          /\ files'[i].life \in 1..lives' /\ files'[i].end \in 0..MaxEnd
          /\ files'[i].newlines \subseteq 0..(files'[i].end - 1)
    BY <1>1, <1>2, <1>3, <2>1, ShapeFacts
  <2>3. QED
    BY <1>1, <1>3, <2>1, <2>2 DEF Shape, TypeOK, output
<1>5. \A i, j \in DOMAIN files' : files'[i].life = files'[j].life => i = j
  <2>1. \A i \in DOMAIN files : files[i].life # lives + 1
    BY <1>2, ShapeFacts
  <2>2. QED
    BY <1>2, <1>3, <2>1 DEF Shape
<1>6. Shape'
  BY <1>1, <1>3, <1>4, <1>5 DEF Shape, output
<1>7. FilesChange
  <2>1. ASSUME NEW i \in DOMAIN files, i # path
        PROVE  /\ files'[i].life = files[i].life
               /\ files[i].end <= files'[i].end
               /\ files[i].newlines = {n \in files'[i].newlines : n < files[i].end}
    <3>1. files'[i] = files[i]
      BY <1>3, <2>1
    <3>2. \A n \in files[i].newlines : n < files[i].end
      BY ShapeFacts
    <3>3. files[i].end <= files[i].end
      BY ShapeFacts
    <3>4. QED
      BY <3>1, <3>2, <3>3
  <2>2. QED
    BY <1>1, <1>2, <1>3, <2>1 DEF FilesChange
<1>8. QED
  BY <1>6, <1>7

LEMMA MoveShape ==
  ASSUME Shape, MoveAway
  PROVE  Shape' /\ FilesChange
<1>1. path' = NoFile /\ UNCHANGED <<files, log, lives, pc, fd, offset, output>>
  BY DEF MoveAway
<1>2. Shape'
  BY <1>1 DEF Shape, TypeOK, output
<1>3. ASSUME NEW i \in DOMAIN files
      PROVE  /\ files'[i].life = files[i].life
             /\ files[i].end <= files'[i].end
             /\ files[i].newlines = {n \in files'[i].newlines : n < files[i].end}
  <2>1. \A n \in files[i].newlines : n < files[i].end
    BY ShapeFacts
  <2>2. files[i].end <= files[i].end
    BY ShapeFacts
  <2>3. QED
    BY <1>1, <2>1, <2>2
<1>4. QED
  BY <1>1, <1>2, <1>3 DEF FilesChange

LEMMA RestartShape ==
  ASSUME Shape, DaemonRestarts
  PROVE  Shape' /\ FilesChange
<1> DEFINE g == Fresh(lives + 1)
           n == Len(files) + 1
<1>1. /\ lives' = lives + 1 /\ lives < MaxLives /\ Len(files) < MaxFiles
      /\ files' = Append(files, g) /\ path' = Len(files') /\ log' = path'
      /\ UNCHANGED <<pc, fd, offset, output>>
  BY DEF DaemonRestarts
<1>2. g \in Contents /\ g.life = lives + 1 /\ g.end = 0 /\ g.newlines = {} /\ lives \in Nat
  BY ShapeFacts DEF Fresh, Contents
<1> HIDE DEF g
<1>3. /\ files' \in Seq(Contents) /\ Len(files') = n /\ DOMAIN files' = 1..n
      /\ DOMAIN files = 1..Len(files) /\ Len(files) \in Nat
      /\ files'[n] = g /\ \A i \in DOMAIN files : files'[i] = files[i]
  <2>1. files \in Seq(Contents)
    BY DEF Shape
  <2>2. QED
    BY <1>1, <1>2, <2>1
<1>4. DOMAIN files' = DOMAIN files \cup {n} /\ n \notin DOMAIN files /\ n # NoFile
  BY <1>3 DEF NoFile
<1> HIDE DEF n
<1>5. TypeOK'
  <2>1. lives' \in 1..MaxLives /\ MaxEnd \in Nat /\ n \in 1..MaxFiles
    BY <1>1, <1>2, <1>3, ShapeFacts DEF n
  <2>2. \A i \in DOMAIN files' :
          /\ files'[i].life \in 1..lives' /\ files'[i].end \in 0..MaxEnd
          /\ files'[i].newlines \subseteq 0..(files'[i].end - 1)
    <3>1. g.life \in 1..lives' /\ g.end \in 0..MaxEnd /\ g.newlines \subseteq 0..(g.end - 1)
      BY <1>1, <1>2, <2>1
    <3>2. \A i \in DOMAIN files :
            /\ files[i].life \in 1..lives' /\ files[i].end \in 0..MaxEnd
            /\ files[i].newlines \subseteq 0..(files[i].end - 1)
      BY <1>1, <2>1, ShapeFacts
    <3>3. QED
      BY <1>3, <1>4, <3>1, <3>2
  <2>3. QED
    BY <1>1, <1>3, <1>4, <2>1, <2>2 DEF Shape, TypeOK, output
<1>6. \A i, j \in DOMAIN files' : files'[i].life = files'[j].life => i = j
  <2>1. \A i \in DOMAIN files : files[i].life # lives + 1
    BY <1>2, ShapeFacts
  <2>2. QED
    BY <1>2, <1>3, <1>4, <2>1 DEF Shape
<1>7. Shape'
  BY <1>1, <1>3, <1>5, <1>6 DEF Shape, output
<1>8. FilesChange
  <2>1. ASSUME NEW i \in DOMAIN files
        PROVE  /\ files'[i].life = files[i].life
               /\ files[i].end <= files'[i].end
               /\ files[i].newlines = {k \in files'[i].newlines : k < files[i].end}
    <3>1. \A k \in files[i].newlines : k < files[i].end
      BY ShapeFacts
    <3>2. files[i].end <= files[i].end
      BY ShapeFacts
    <3>3. QED
      BY <1>3, <3>1, <3>2
  <2>2. QED
    BY <1>1, <1>2, <1>3, <1>4, <2>1 DEF FilesChange
<1>9. QED
  BY <1>7, <1>8

\* WriteTail: the text that it reads.
Read == LET readFrom == IF tail.lines > 0 /\ offset > Chunk THEN offset - Chunk ELSE 0
        IN  [start |-> readFrom, end |-> offset,
             newlines |-> {n \in files[fd].newlines : n \in readFrom..(offset - 1)}]

LEMMA ReadOK ==
  ASSUME Shape
  PROVE  /\ TextOK(Read) /\ Read.end = offset
         /\ Read.start = IF tail.lines > 0 /\ offset > Chunk THEN offset - Chunk ELSE 0
         /\ Read.newlines = {n \in files[fd].newlines : n \in Read.start..(offset - 1)}
<1> DEFINE readFrom == IF tail.lines > 0 /\ offset > Chunk THEN offset - Chunk ELSE 0
           N == {n \in files[fd].newlines : n \in readFrom..(offset - 1)}
<1>1. Read.start = readFrom /\ Read.end = offset /\ Read.newlines = N
  BY DEF Read
<1>2. readFrom \in Nat /\ offset \in Nat /\ readFrom <= offset
  BY ShapeFacts
<1>3. N \subseteq readFrom..(offset - 1)
  OBVIOUS
<1> HIDE DEF readFrom, N
<1>4. TextOK(Read)
  BY <1>1, <1>2, <1>3 DEF TextOK
<1>5. QED
  BY <1>1, <1>4 DEF readFrom, N

LEMMA WriteTailShape ==
  ASSUME Shape, WriteTail
  PROVE  Shape'
<1>1. /\ pc = "sized" /\ pc' = "waiting"
      /\ tail' = [tail EXCEPT !.from = LinesFrom(Read, tail.lines)]
      /\ raced' = (files[fd].life # tail.whole.life)
      /\ seen' = IF raced' THEN seen ELSE [seen EXCEPT ![files[fd].life] = offset]
      /\ UNCHANGED <<environment, fd, offset, again>>
  BY DEF WriteTail, Read
<1>2. tail \in [lines : Nat, whole : Contents, from : Nat] /\ tail.lines \in Nat
  BY DEF Shape
<1> DEFINE c == LinesFrom(Read, tail.lines)
<1>3. c \in 0..MaxEnd /\ c \in Nat
  <2>1. TextOK(Read) /\ Read.end = offset /\ Read.start \in Nat
    BY ReadOK DEF TextOK
  <2>2. c \in Read.start..offset
    BY <1>2, <2>1, LinesFromOK
  <2> HIDE DEF c
  <2>3. QED
    BY <2>1, <2>2, ShapeFacts
<1> HIDE DEF c
<1>4. /\ tail' \in [lines : Nat, whole : Contents, from : Nat]
      /\ tail'.from = c /\ tail'.whole = tail.whole
  BY <1>1, <1>2, <1>3 DEF c
<1>5. seen' \in [1..MaxLives -> Nat \cup {Unseen}]
  <2>1. seen \in [1..MaxLives -> Nat \cup {Unseen}]
    BY DEF Shape
  <2>2. offset \in Nat
    BY ShapeFacts
  <2>3. QED
    BY <1>1, <2>1, <2>2
<1>6. TypeOK'
  BY <1>1, <1>3, <1>4 DEF Shape, TypeOK, environment
<1>7. QED
  BY <1>1, <1>4, <1>5, <1>6 DEF Shape, environment

LEMMA GotFacts ==
  ASSUME Shape, fd \in DOMAIN files
  PROVE  Got \in Nat /\ (Got > 0 => offset + Got <= files[fd].end)
<1>1. files[fd].end \in Nat /\ offset \in Nat /\ Buffer \in Nat
  BY ShapeFacts
<1>2. QED
  BY <1>1 DEF Got

LEMMA DrainShape ==
  ASSUME Shape, ReadAt
  PROVE  Shape'
<1> DEFINE life == files[fd].life
<1>1. /\ pc = "reading" /\ pc' \in {"waiting", "reading"}
      /\ offset' = offset + Got
      /\ seen' = IF Got > 0 THEN [seen EXCEPT ![life] = offset + Got] ELSE seen
      /\ again' = (again \/ (Got > 0 /\ OutOfOrder(life)))
      /\ UNCHANGED <<environment, fd, tail, raced>>
  BY DEF ReadAt, Drain
<1>2. fd \in DOMAIN files
  BY <1>1 DEF Shape, TypeOK
<1>3. Got \in Nat /\ (Got > 0 => offset + Got <= files[fd].end)
  BY <1>2, GotFacts
<1>4. offset + Got \in 0..MaxEnd
  BY <1>2, <1>3, ShapeFacts
<1>5. seen' \in [1..MaxLives -> Nat \cup {Unseen}]
  <2>1. seen \in [1..MaxLives -> Nat \cup {Unseen}]
    BY DEF Shape
  <2>2. offset + Got \in Nat
    BY <1>4
  <2>3. QED
    BY <1>1, <2>1, <2>2
<1>6. again' \in BOOLEAN
  BY <1>1 DEF Shape
<1>7. TypeOK'
  BY <1>1, <1>2, <1>4 DEF Shape, TypeOK, environment
<1>8. QED
  BY <1>1, <1>5, <1>6, <1>7 DEF Shape, environment

LEMMA ShapeStep ==
  ASSUME Shape, [Next]_vars
  PROVE  Shape'
<1>1. ASSUME NEW n \in Tails, OpenLog(n) PROVE Shape'
  <2>1. /\ path # NoFile /\ fd' = path /\ tail' = [tail EXCEPT !.lines = n] /\ pc' = "opened"
        /\ UNCHANGED <<environment, offset, raced, seen, again>> /\ n \in Nat
    BY <1>1, LogAssumption DEF OpenLog
  <2>2. tail \in [lines : Nat, whole : Contents, from : Nat]
    BY DEF Shape
  <2>3. /\ tail' \in [lines : Nat, whole : Contents, from : Nat]
        /\ tail'.from = tail.from /\ tail'.whole = tail.whole
    BY <2>1, <2>2
  <2>4. TypeOK'
    BY <2>1, <2>3 DEF Shape, TypeOK, environment
  <2>5. QED
    BY <2>1, <2>3, <2>4 DEF Shape, environment
<1>2. ASSUME SeekEnd PROVE Shape'
  <2>1. /\ pc = "opened" /\ offset' = files[fd].end /\ tail' = [tail EXCEPT !.whole = files[fd]]
        /\ pc' = "sized" /\ UNCHANGED <<environment, fd, raced, seen, again>>
    BY <1>2 DEF SeekEnd
  <2>2. tail \in [lines : Nat, whole : Contents, from : Nat] /\ fd \in DOMAIN files
    BY <2>1 DEF Shape, TypeOK
  <2>3. /\ files[fd] \in Contents /\ files[fd].newlines \subseteq 0..(files[fd].end - 1)
        /\ files[fd].end \in 0..MaxEnd
    BY <2>2, ShapeFacts
  <2>4. /\ tail' \in [lines : Nat, whole : Contents, from : Nat]
        /\ tail'.from = tail.from /\ tail'.whole = files[fd]
    BY <2>1, <2>2, <2>3
  <2>5. TypeOK'
    BY <2>1, <2>2, <2>3, <2>4 DEF Shape, TypeOK, environment
  <2>6. QED
    BY <2>1, <2>3, <2>4, <2>5 DEF Shape, environment
<1>3. ASSUME Poll PROVE Shape'
  <2>1. /\ tail' = NoTail
        /\ \/ path = NoFile /\ offset' = 0 /\ UNCHANGED <<pc, fd>>
           \/ path # NoFile /\ fd' = path /\ pc' = "polled" /\ UNCHANGED offset
        /\ UNCHANGED <<environment, raced, seen, again>> /\ pc = "waiting"
    BY <1>3 DEF Poll
  <2>2. /\ tail' \in [lines : Nat, whole : Contents, from : Nat]
        /\ tail'.from = 0 /\ tail'.whole.newlines = {}
    BY <2>1 DEF NoTail, Fresh, Contents
  <2>3. MaxEnd \in Nat
    BY ShapeFacts
  <2>4. TypeOK'
    BY <2>1, <2>2, <2>3 DEF Shape, TypeOK, environment
  <2>5. QED
    BY <2>1, <2>2, <2>4 DEF Shape, environment
<1>4. ASSUME Stat PROVE Shape'
  <2>1. /\ offset' = IF files[fd].end < offset THEN 0 ELSE offset
        /\ pc = "polled" /\ pc' = "reading"
        /\ UNCHANGED <<environment, fd, tail, raced, seen, again>>
    BY <1>4 DEF Stat, Shorter
  <2>2. MaxEnd \in Nat
    BY ShapeFacts
  <2>3. offset' \in 0..MaxEnd
    BY <2>1, <2>2 DEF Shape, TypeOK
  <2>4. TypeOK'
    BY <2>1, <2>3 DEF Shape, TypeOK, environment, output
  <2>5. QED
    BY <2>1, <2>4 DEF Shape, environment, output
<1>5. ASSUME End \/ UNCHANGED vars PROVE Shape'
  <2>1. UNCHANGED <<environment, fd, offset, output>> /\ pc' \in {"end", pc}
    BY <1>5 DEF End, vars
  <2>2. TypeOK'
    BY <2>1 DEF Shape, TypeOK, environment, output
  <2>3. QED
    BY <2>1, <2>2 DEF Shape, environment, output
<1>6. QED
  BY <1>1, <1>2, <1>3, <1>4, <1>5, WritesShape, TruncateShape, MoveShape, RestartShape,
     WriteTailShape, DrainShape DEF Next, Command

\* Everything stays in its range: lives and offsets within the bounds, newlines
\* within their file.
THEOREM TypeCorrect == Spec => []TypeOK
<1>1. Shape => TypeOK
  BY DEF Shape
<1>2. QED
  BY <1>1, InitShape, ShapeStep, PTL DEF Spec

(***************************************************************************)
(* The first output.  What was the file when its end was sought is still   *)
(* its beginning when it is read, unless it was truncated.                 *)
(***************************************************************************)

SizedInv ==
  pc = "sized" =>
    /\ offset = tail.whole.end
    /\ tail.whole.life <= lives
    /\ files[fd].life = tail.whole.life =>
         /\ tail.whole.end <= files[fd].end
         /\ tail.whole.newlines = {n \in files[fd].newlines : n < tail.whole.end}

\* Of the lines asked for, what one chunk holds.
TailOfChunk ==
  LET chunk == IF tail.lines > 0 THEN tail.whole.end - Chunk ELSE 0
  IN  Tailed /\ ~raced => tail.from = IF AskedFrom < chunk THEN chunk ELSE AskedFrom

TailInv == Shape /\ SizedInv /\ TailOfChunk

LEMMA TailChange ==
  ASSUME TailInv, Shape', FilesChange
  PROVE  TailInv'
<1>1. UNCHANGED <<pc, fd, offset, tail, raced>>
  BY DEF FilesChange, output
<1>2. TailOfChunk'
  BY <1>1 DEF TailInv, TailOfChunk, AskedFrom, Tailed
<1>3. ASSUME pc = "sized" PROVE SizedInv'
  <2> DEFINE w == tail.whole
  <2>1. /\ fd \in DOMAIN files /\ offset = w.end /\ w.life <= lives
        /\ w.life \in Nat /\ w.end \in Nat /\ lives \in Nat
        /\ files[fd].life = w.life =>
             /\ w.end <= files[fd].end
             /\ w.newlines = {n \in files[fd].newlines : n < w.end}
    BY <1>3, ShapeFacts DEF TailInv, SizedInv, Shape, TypeOK, Contents
  <2>2. lives' \in {lives, lives + 1}
    BY DEF FilesChange
  <2>3. \/ /\ files'[fd].life = files[fd].life
           /\ files[fd].end <= files'[fd].end
           /\ files[fd].newlines = {n \in files'[fd].newlines : n < files[fd].end}
        \/ files'[fd].life = lives + 1
    BY <2>1 DEF FilesChange
  <2>4. /\ files[fd].end \in Nat /\ fd \in DOMAIN files' /\ files'[fd].end \in Nat
        /\ files'[fd].newlines \subseteq Nat
    <3>1. fd \in DOMAIN files'
      BY <2>1 DEF FilesChange
    <3>2. files'[fd] \in Contents
      BY <3>1 DEF Shape
    <3>3. files[fd] \in Contents
      BY <2>1, ShapeFacts DEF TailInv
    <3>4. QED
      BY <3>1, <3>2, <3>3 DEF Contents
  <2>5. ASSUME files'[fd].life = w.life
        PROVE  /\ w.end <= files'[fd].end
               /\ w.newlines = {n \in files'[fd].newlines : n < w.end}
    <3>1. /\ files[fd].life = w.life /\ files[fd].end <= files'[fd].end
          /\ files[fd].newlines = {n \in files'[fd].newlines : n < files[fd].end}
      BY <2>1, <2>3, <2>5
    <3>2. w.end <= files'[fd].end
      BY <2>1, <2>4, <3>1
    <3>3. \A n \in files'[fd].newlines : n < w.end => n < files[fd].end
      BY <2>1, <2>4, <3>1
    <3> HIDE DEF w
    <3>4. QED
      BY <2>1, <3>1, <3>2, <3>3
  <2>6. QED
    BY <1>1, <2>1, <2>2, <2>5 DEF SizedInv
<1>4. QED
  BY <1>1, <1>2, <1>3 DEF TailInv, SizedInv

LEMMA TailWritten ==
  ASSUME TailInv, WriteTail
  PROVE  TailOfChunk'
<1> DEFINE w == tail.whole
           b == Whole(w)
           n == tail.lines
           c == LinesFrom(Read, n)
           lines == LastLines(b, n)
           chunk == IF n > 0 THEN w.end - Chunk ELSE 0
<1>1. /\ pc = "sized" /\ tail' = [tail EXCEPT !.from = c]
      /\ raced' = (files[fd].life # w.life)
  BY DEF WriteTail, Read
<1>2. /\ tail \in [lines : Nat, whole : Contents, from : Nat] /\ n \in Nat
      /\ w.end \in Nat /\ w.newlines \subseteq 0..(w.end - 1)
  BY DEF TailInv, Shape, Contents
<1>3. tail'.from = c /\ tail'.whole = w /\ tail'.lines = n
  BY <1>1, <1>2
<1>4. SUFFICES ASSUME ~raced' PROVE c = IF lines < chunk THEN chunk ELSE lines
  BY <1>3 DEF TailOfChunk, AskedFrom
<1>5. /\ offset = w.end
      /\ w.newlines = {j \in files[fd].newlines : j < w.end}
  BY <1>1, <1>4 DEF TailInv, SizedInv
<1>6. /\ TextOK(Read) /\ Read.end = w.end
      /\ Read.start = IF n > 0 /\ w.end > Chunk THEN w.end - Chunk ELSE 0
      /\ Read.newlines = {j \in files[fd].newlines : j \in Read.start..(w.end - 1)}
  BY <1>5, ReadOK DEF TailInv
<1>7. b.start = 0 /\ b.end = w.end /\ b.newlines = w.newlines
  BY DEF Whole
<1>8. TextOK(b)
  <2> HIDE DEF b, w
  <2>1. QED
    BY <1>2, <1>7 DEF TextOK
<1>9. Chunk \in Nat /\ Read.start \in Nat
  BY <1>6, ShapeFacts DEF TailInv, TextOK
<1>10. Read.newlines = {j \in b.newlines : j >= Read.start}
  <2>1. \A j \in files[fd].newlines : j \in Nat
    <3>1. fd \in DOMAIN files
      BY <1>1 DEF TailInv, Shape, TypeOK
    <3>2. files[fd] \in Contents
      BY <3>1, ShapeFacts DEF TailInv
    <3>3. QED
      BY <3>2 DEF Contents
  <2> HIDE DEF b, w, n
  <2>2. \A j \in files[fd].newlines :
          j \in Read.start..(w.end - 1) <=> j < w.end /\ j >= Read.start
    BY <1>2, <1>9, <2>1
  <2>3. QED
    BY <1>5, <1>6, <1>7, <2>2
<1>11. c = LastLines(Read, n) /\ lines \in 0..w.end
  <2> HIDE DEF b, w, n
  <2>1. LinesFrom(Read, n) = LastLines(Read, n)
    BY <1>2, <1>6, LinesFromOK
  <2>2. LastLines(b, n) \in b.start..b.end
    BY <1>2, <1>8, LinesFromOK
  <2>3. QED
    BY <1>7, <2>1, <2>2
<1>12. CASE n = 0
  <2>1. Read.start = 0 /\ chunk = 0
    BY <1>6, <1>12
  <2>2. c = 0 /\ lines = 0
    BY <1>7, <1>11, <1>12, <2>1 DEF LastLines
  <2>3. QED
    BY <2>1, <2>2
<1>13. CASE n > 0
  <2>1. c = IF lines < Read.start THEN Read.start ELSE lines
    <3>1. LastLines(Read, n) = IF LastLines(b, n) < Read.start THEN Read.start
                               ELSE LastLines(b, n)
      <4> HIDE DEF b, n, c
      <4>1. b.start <= Read.start /\ Read.end = b.end
        BY <1>6, <1>7, <1>9
      <4>2. QED
        BY <1>2, <1>6, <1>8, <1>10, <1>13, <4>1, WithinChunk
    <3>2. QED
      BY <1>11, <3>1
  <2>2. chunk = w.end - Chunk
    BY <1>13
  <2>3. Read.start = IF w.end > Chunk THEN w.end - Chunk ELSE 0
    BY <1>6, <1>13
  <2>4. lines \in Nat
    BY <1>2, <1>11
  <2> HIDE DEF c, lines, chunk, w
  <2>5. QED
    BY <1>2, <1>9, <2>1, <2>2, <2>3, <2>4
<1>14. QED
  BY <1>2, <1>12, <1>13

LEMMA TailStep ==
  ASSUME TailInv, [Next]_vars
  PROVE  TailInv'
<1>1. Shape'
  BY ShapeStep DEF TailInv
<1>2. ASSUME FilesChange PROVE TailInv'
  BY <1>1, <1>2, TailChange
<1>3. ASSUME NEW n \in Tails, OpenLog(n) PROVE TailInv'
  BY <1>1, <1>3 DEF OpenLog, TailInv, SizedInv, TailOfChunk, AskedFrom, Tailed
<1>4. ASSUME SeekEnd PROVE TailInv'
  <2>1. /\ pc' = "sized" /\ offset' = files[fd].end /\ pc = "opened"
        /\ tail' = [tail EXCEPT !.whole = files[fd]] /\ UNCHANGED <<files, fd, lives>>
    BY <1>4 DEF SeekEnd, environment
  <2>2. tail'.whole = files[fd] /\ fd \in DOMAIN files
    BY <2>1 DEF TailInv, Shape, TypeOK
  <2>3. /\ files[fd].life <= lives /\ files[fd].end <= files[fd].end
        /\ files[fd].newlines = {n \in files[fd].newlines : n < files[fd].end}
    <3>1. /\ files[fd].end \in Nat /\ files[fd].newlines \subseteq 0..(files[fd].end - 1)
          /\ files[fd].life <= lives
      BY <2>2, ShapeFacts DEF TailInv
    <3>2. \A n \in files[fd].newlines : n < files[fd].end
      BY <3>1
    <3>3. QED
      BY <3>1, <3>2
  <2>4. SizedInv' /\ TailOfChunk'
    BY <2>1, <2>2, <2>3 DEF SizedInv, TailOfChunk, AskedFrom, Tailed
  <2>5. QED
    BY <1>1, <2>4 DEF TailInv
<1>5. ASSUME WriteTail PROVE TailInv'
  BY <1>1, <1>5, TailWritten DEF TailInv, SizedInv, WriteTail
<1>6. ASSUME Poll PROVE TailInv'
  <2>1. tail' = NoTail /\ pc' \in {"waiting", "polled"}
    BY <1>6 DEF Poll
  <2>2. tail'.lines = 0 /\ tail'.from = 0
    BY <2>1 DEF NoTail
  <2>3. TailOfChunk'
    BY <2>2 DEF TailOfChunk, AskedFrom, LastLines, Whole
  <2>4. QED
    BY <1>1, <2>1, <2>3 DEF TailInv, SizedInv
<1>7. ASSUME Stat \/ ReadAt PROVE TailInv'
  <2>1. pc \in {"polled", "reading"} /\ pc' \in {"waiting", "reading"} /\ UNCHANGED <<tail, raced>>
    BY <1>7 DEF Stat, ReadAt, Drain, output
  <2>2. QED
    BY <1>1, <2>1 DEF TailInv, SizedInv, TailOfChunk, AskedFrom, Tailed
<1>8. ASSUME End PROVE TailInv'
  BY <1>1, <1>8 DEF End, TailInv, SizedInv, TailOfChunk, AskedFrom, Tailed
<1>9. ASSUME UNCHANGED vars PROVE TailInv'
  BY <1>1, <1>9 DEF vars, environment, output, TailInv, SizedInv, TailOfChunk, AskedFrom, Tailed
<1>10. QED
  BY <1>2, <1>3, <1>4, <1>5, <1>6, <1>7, <1>8, <1>9, WritesShape, TruncateShape, MoveShape,
     RestartShape DEF Next, Command, TailInv

\* What is printed first are the last lines of the file as it was when its end
\* was sought, as many as were asked for if they lie within one chunk, and never
\* any line before them, however the daemon writes and the files come and go
\* meanwhile, unless the file was truncated in the middle of it.
THEOREM FirstOutput == Spec => []TailIsLastLines
<1>1. Init => TailInv
  <2>1. ASSUME Init PROVE pc = "start"
    BY <2>1 DEF Init
  <2>2. QED
    BY <2>1, InitShape DEF TailInv, SizedInv, TailOfChunk, Tailed
<1>2. TailInv => TailIsLastLines
  <2> SUFFICES ASSUME TailInv, Tailed, ~raced
               PROVE  /\ tail.from >= AskedFrom
                      /\ tail.lines = 0 \/ tail.whole.end - AskedFrom <= Chunk
                           => tail.from = AskedFrom
    BY DEF TailIsLastLines
  <2> DEFINE w == tail.whole
             chunk == IF tail.lines > 0 THEN w.end - Chunk ELSE 0
  <2>1. tail.from = IF AskedFrom < chunk THEN chunk ELSE AskedFrom
    BY DEF TailInv, TailOfChunk
  <2>2. /\ tail.lines \in Nat /\ w.end \in Nat /\ w.newlines \subseteq 0..(w.end - 1)
        /\ Chunk \in Nat
    BY ShapeFacts DEF TailInv, Shape, Contents
  <2>3. AskedFrom \in Nat
    <3>1. Whole(w).start = 0 /\ Whole(w).end = w.end /\ Whole(w).newlines = w.newlines
      BY DEF Whole
    <3> HIDE DEF w
    <3>2. TextOK(Whole(w))
      BY <2>2, <3>1 DEF TextOK
    <3>3. LastLines(Whole(w), tail.lines) \in 0..w.end
      BY <2>2, <3>1, <3>2, LinesFromOK
    <3>4. AskedFrom = LastLines(Whole(w), tail.lines)
      BY DEF AskedFrom, w
    <3>5. QED
      BY <2>2, <3>3, <3>4
  <2> HIDE DEF w
  <2>4. QED
    BY <2>1, <2>2, <2>3 DEF w
<1>3. QED
  BY <1>1, <1>2, TailStep, PTL DEF Spec

(***************************************************************************)
(* The order of what is printed.                                           *)
(***************************************************************************)

\* Of inode i nothing was printed, or what precedes the offset.
Position(i) ==
  LET life == files[i].life
  IN  seen[life] = Unseen \/ (seen[life] = offset /\ offset <= files[i].end)

\* The inode that the path leads to has not been seen before it is polled.
OrderInv ==
  /\ \A l \in 1..MaxLives : l > lives => seen[l] = Unseen
  /\ pc \in {"start", "opened", "sized"} =>
       ~again /\ \A l \in 1..MaxLives : seen[l] = Unseen
  /\ pc = "waiting" /\ ~raced /\ path # NoFile => Position(path)
  /\ pc \in {"polled", "reading"} /\ ~raced =>
       Position(fd) /\ (path \notin {NoFile, fd} => seen[files[path].life] = Unseen)

(***************************************************************************)
(* Where a life begins.                                                    *)
(***************************************************************************)

\* Of inode i something was printed, or its first byte will be first, unless no
\* poll could tell it from what was there before.
Begun(i) == seen[files[i].life] = Unseen /\ files[i].life \in met => offset = 0

\* The life to come is one of `met` only while there is no log.
HeadInv ==
  /\ \A l \in met : l \in Nat /\ l <= lives + 1
  /\ lives + 1 \in met => path = NoFile /\ offset = 0 /\ pc \in {"waiting", "end"}
  /\ pc \in {"start", "opened", "sized"} => met = {}
  /\ pc = "waiting" /\ path # NoFile => Begun(path)
  /\ pc \in {"polled", "reading"} =>
       Begun(fd) /\ (path \notin {NoFile, fd} => files[path].life \notin met)

LEMMA HeadChange ==
  ASSUME TailInv, HeadInv, Shape', FilesChange
  PROVE  HeadInv'
<1>1. UNCHANGED <<pc, fd, offset, seen, met>>
  BY DEF FilesChange, output
<1>2. /\ lives' \in {lives, lives + 1} /\ lives \in Nat
      /\ \A l \in met : l \in Nat /\ l <= lives + 1
      /\ path \in DOMAIN files \cup {NoFile}
      /\ path' \in {path, NoFile} \cup (DOMAIN files' \ DOMAIN files)
      /\ pc \in {"polled", "reading"} => fd \in DOMAIN files
  BY ShapeFacts DEF FilesChange, HeadInv, TailInv, Shape, TypeOK
<1>3. ASSUME NEW i \in DOMAIN files' \ DOMAIN files
      PROVE  files'[i].life = lives + 1 /\ lives' = lives + 1
  BY DEF FilesChange
<1>4. ASSUME NEW i \in DOMAIN files
      PROVE  \/ files'[i].life = files[i].life
             \/ i = path /\ files'[i].life = lives + 1 /\ lives' = lives + 1
  BY DEF FilesChange
<1>5. \A l \in met' : l \in Nat /\ l <= lives' + 1
  BY <1>1, <1>2
<1>6. ASSUME lives' + 1 \in met'
      PROVE  path' = NoFile /\ offset' = 0 /\ pc' \in {"waiting", "end"}
  <2>1. lives' = lives
    BY <1>1, <1>2, <1>6
  <2>2. path = NoFile /\ offset = 0 /\ pc \in {"waiting", "end"}
    BY <1>1, <1>6, <2>1 DEF HeadInv
  <2>3. lives # lives + 1
    BY <1>2
  <2>4. path' = NoFile
    BY <1>2, <1>3, <2>1, <2>2, <2>3
  <2>5. QED
    BY <1>1, <2>2, <2>4
\* What an inode held, or begins to hold.
<1>7. ASSUME NEW i \in DOMAIN files, i # NoFile, Begun(i) PROVE Begun(i)'
  <2>1. CASE files'[i].life = files[i].life
    BY <1>1, <1>7, <2>1 DEF Begun
  <2>2. CASE i = path /\ files'[i].life = lives + 1 /\ lives' = lives + 1
    <3>1. lives + 1 \notin met
      BY <1>7, <2>2 DEF HeadInv
    <3>2. QED
      BY <1>1, <2>2, <3>1 DEF Begun
  <2>3. QED
    BY <1>4, <2>1, <2>2
<1>8. pc' = "waiting" /\ path' # NoFile => Begun(path)'
  <2>1. SUFFICES ASSUME pc = "waiting", path' # NoFile PROVE Begun(path)'
    BY <1>1
  <2>2. CASE path' = path
    <3>1. path \in DOMAIN files /\ path # NoFile /\ Begun(path)
      BY <1>2, <2>1, <2>2 DEF HeadInv
    <3>2. QED
      BY <1>7, <2>2, <3>1 DEF Begun
  <2>3. CASE path' \in DOMAIN files' \ DOMAIN files
    <3>1. files'[path'].life = lives + 1
      BY <1>3, <2>3
    <3>2. lives + 1 \in met => offset = 0
      BY DEF HeadInv
    <3>3. QED
      BY <1>1, <3>1, <3>2 DEF Begun
  <2>4. QED
    BY <1>2, <2>1, <2>2, <2>3
<1>9. ASSUME pc \in {"polled", "reading"}
      PROVE  Begun(fd)' /\ (path' \notin {NoFile, fd'} => files'[path'].life \notin met')
  <2>1. /\ Begun(fd) /\ (path \notin {NoFile, fd} => files[path].life \notin met)
        /\ lives + 1 \notin met /\ fd \in DOMAIN files
    BY <1>2, <1>9 DEF HeadInv
  <2>2. fd # NoFile
    BY <2>1, ShapeFacts DEF NoFile, TailInv
  <2>3. Begun(fd)'
    BY <1>1, <1>7, <2>1, <2>2 DEF Begun
  <2>4. ASSUME path' \notin {NoFile, fd} PROVE files'[path'].life \notin met
    <3>1. CASE path' = path
      <4>1. path \in DOMAIN files /\ files[path].life \notin met
        BY <1>2, <2>1, <2>4, <3>1
      <4>2. QED
        BY <1>4, <2>1, <3>1, <4>1
    <3>2. CASE path' \in DOMAIN files' \ DOMAIN files
      BY <1>3, <2>1, <3>2
    <3>3. QED
      BY <1>2, <2>4, <3>1, <3>2
  <2>5. QED
    BY <1>1, <2>3, <2>4
<1>10. pc' \in {"start", "opened", "sized"} => met' = {}
  BY <1>1 DEF HeadInv
<1>11. QED
  BY <1>1, <1>5, <1>6, <1>8, <1>9, <1>10 DEF HeadInv

LEMMA HeadStep ==
  ASSUME TailInv, HeadInv, [Next]_vars
  PROVE  HeadInv'
<1>1. Shape' /\ lives \in Nat
  BY TailStep, ShapeFacts DEF TailInv
<1>2. ASSUME FilesChange PROVE HeadInv'
  BY <1>1, <1>2, HeadChange
<1>3. ASSUME (\E n \in Tails : OpenLog(n)) \/ SeekEnd \/ WriteTail PROVE HeadInv'
  <2>1. /\ pc \in {"start", "opened", "sized"} /\ pc' \in {"opened", "sized", "waiting"}
        /\ UNCHANGED <<lives, met>>
    BY <1>3 DEF OpenLog, SeekEnd, WriteTail, environment
  <2>2. met' = {}
    BY <2>1 DEF HeadInv
  <2>3. QED
    BY <2>1, <2>2 DEF HeadInv, Begun
<1>4. ASSUME Poll PROVE HeadInv'
  <2>1. pc = "waiting" /\ UNCHANGED <<files, path, lives, seen>>
    BY <1>4 DEF Poll, environment
  <2>2. CASE path = NoFile
    <3>1. offset' = 0 /\ met' = met \cup {lives + 1} /\ UNCHANGED <<pc, fd>>
      BY <1>4, <2>2 DEF Poll
    <3>2. QED
      BY <1>1, <2>1, <2>2, <3>1 DEF HeadInv
  <2>3. CASE path # NoFile
    <3>1. fd' = path /\ pc' = "polled" /\ UNCHANGED <<offset, met>>
      BY <1>4, <2>3 DEF Poll
    <3>2. Begun(path) /\ lives + 1 \notin met
      BY <2>1, <2>3 DEF HeadInv
    <3>3. Begun(fd)'
      BY <2>1, <3>1, <3>2 DEF Begun
    <3>4. QED
      BY <2>1, <2>3, <3>1, <3>2, <3>3 DEF HeadInv
  <2>4. QED
    BY <2>2, <2>3
<1>5. ASSUME Stat PROVE HeadInv'
  <2> DEFINE life == files[fd].life
  <2>1. /\ pc = "polled" /\ pc' = "reading" /\ UNCHANGED <<files, path, lives, fd, seen>>
        /\ \/ offset' = 0 /\ met' = met \cup {life}
           \/ UNCHANGED <<offset, met>>
    BY <1>5 DEF Stat, Meet, environment
  <2>2. /\ fd \in DOMAIN files /\ path \in DOMAIN files \cup {NoFile}
        /\ life \in Nat /\ life <= lives
    BY <2>1, ShapeFacts DEF TailInv, Shape, TypeOK
  <2>3. /\ Begun(fd) /\ lives + 1 \notin met
        /\ path \notin {NoFile, fd} => files[path].life \notin met
    BY <2>1 DEF HeadInv
  <2>4. lives + 1 \notin met' /\ \A l \in met' : l \in Nat /\ l <= lives' + 1
    <3> HIDE DEF life
    <3>1. QED
      BY <1>1, <2>1, <2>2, <2>3 DEF HeadInv
  <2>5. Begun(fd)'
    BY <2>1, <2>3 DEF Begun
  <2>6. path \notin {NoFile, fd} => files[path].life \notin met'
    <3>1. path \notin {NoFile, fd} => files[path].life # life
      BY <2>2 DEF TailInv, Shape
    <3> HIDE DEF life
    <3>2. QED
      BY <2>1, <2>3, <3>1
  <2>7. QED
    BY <2>1, <2>4, <2>5, <2>6 DEF HeadInv
<1>6. ASSUME ReadAt PROVE HeadInv'
  <2> DEFINE life == files[fd].life
  <2>1. /\ pc = "reading" /\ pc' \in {"waiting", "reading"} /\ offset' = offset + Got
        /\ seen' = IF Got > 0 THEN [seen EXCEPT ![life] = offset + Got] ELSE seen
        /\ UNCHANGED <<files, path, lives, fd, met>>
    BY <1>6 DEF ReadAt, Drain, environment
  <2>2. /\ fd \in DOMAIN files /\ path \in DOMAIN files \cup {NoFile}
        /\ life \in 1..MaxLives /\ offset \in Nat /\ Got \in Nat
        /\ seen \in [1..MaxLives -> Nat \cup {Unseen}]
    BY <2>1, ShapeFacts, GotFacts DEF TailInv, Shape, TypeOK
  <2>3. /\ Begun(fd) /\ lives + 1 \notin met
        /\ path \notin {NoFile, fd} => files[path].life \notin met
    BY <2>1 DEF HeadInv
  <2>4. Begun(fd)'
    <3>1. CASE Got > 0
      <4>1. seen'[life] = offset + Got /\ offset + Got # Unseen
        BY <2>1, <2>2, <3>1 DEF Unseen
      <4>2. QED
        BY <2>1, <4>1 DEF Begun
    <3>2. CASE ~(Got > 0)
      <4>1. seen' = seen /\ offset' = offset
        BY <2>1, <2>2, <3>2
      <4>2. QED
        BY <2>1, <2>3, <4>1 DEF Begun
    <3>3. QED
      BY <3>1, <3>2
  <2>5. path # NoFile => Begun(path)'
    <3>1. CASE path = fd
      BY <2>1, <2>4, <3>1 DEF Begun
    <3>2. CASE path \notin {NoFile, fd}
      BY <2>1, <2>3, <3>2 DEF Begun
    <3>3. QED
      BY <3>1, <3>2
  <2>6. QED
    BY <2>1, <2>3, <2>4, <2>5 DEF HeadInv
<1>7. ASSUME End PROVE HeadInv'
  <2>1. pc' = "end" /\ UNCHANGED <<files, path, lives, fd, offset, seen, met>>
    BY <1>7 DEF End, environment, output
  <2>2. QED
    BY <2>1 DEF HeadInv
<1>8. ASSUME UNCHANGED vars PROVE HeadInv'
  BY <1>8 DEF vars, environment, output, HeadInv, Begun
<1>9. QED
  BY <1>2, <1>3, <1>4, <1>5, <1>6, <1>7, <1>8, WritesShape, TruncateShape, MoveShape,
     RestartShape DEF Next, Command, TailInv

IInv == TailInv /\ OrderInv /\ HeadInv /\ InOrder

LEMMA OrderChange ==
  ASSUME IInv, Shape', FilesChange
  PROVE  OrderInv' /\ InOrder'
<1>1. UNCHANGED <<pc, fd, offset, raced, seen, again>>
  BY DEF FilesChange, output
<1>2. /\ lives' \in {lives, lives + 1} /\ lives \in Nat /\ MaxLives \in Nat
      /\ \A l \in 1..MaxLives : l > lives => seen[l] = Unseen
      /\ offset \in Nat
  BY ShapeFacts DEF FilesChange, IInv, TailInv, OrderInv
<1>3. \A l \in 1..MaxLives : l > lives' => seen'[l] = Unseen
  BY <1>1, <1>2
<1>4. \A i \in DOMAIN files' : files'[i].life \in 1..MaxLives /\ files'[i].end \in Nat
  <2>1. lives' \in 1..MaxLives
    BY DEF Shape, TypeOK
  <2>2. ASSUME NEW i \in DOMAIN files' PROVE files'[i].life \in 1..lives' /\ files'[i].end \in Nat
    <3>1. files'[i].life \in 1..lives' /\ files'[i].end \in 0..MaxEnd /\ MaxEnd \in Nat
      BY ShapeFacts DEF Shape, TypeOK, IInv, TailInv
    <3>2. QED
      BY <3>1
  <2>3. QED
    BY <1>2, <2>1, <2>2
<1>5. ASSUME NEW i \in DOMAIN files, Position(i)
      PROVE  Position(i)'
  <2>1. i \in DOMAIN files'
    BY DEF FilesChange
  <2>2. \/ files'[i].life = files[i].life /\ files[i].end <= files'[i].end
        \/ files'[i].life = lives + 1
    BY DEF FilesChange
  <2>3. files[i].end \in Nat
    BY ShapeFacts DEF IInv, TailInv
  <2>4. QED
    BY <1>1, <1>2, <1>4, <1>5, <2>1, <2>2, <2>3 DEF Position
<1>6. ASSUME NEW i \in DOMAIN files, seen[files[i].life] = Unseen
      PROVE  seen'[files'[i].life] = Unseen
  <2>1. i \in DOMAIN files'
    BY DEF FilesChange
  <2>2. files'[i].life = files[i].life \/ files'[i].life = lives + 1
    BY DEF FilesChange
  <2>3. QED
    BY <1>1, <1>2, <1>4, <1>6, <2>1, <2>2
<1>7. ASSUME NEW i \in DOMAIN files' \ DOMAIN files
      PROVE  seen'[files'[i].life] = Unseen /\ Position(i)'
  <2>1. files'[i].life = lives + 1
    BY DEF FilesChange
  <2>2. seen'[files'[i].life] = Unseen
    BY <1>1, <1>2, <1>4, <2>1
  <2>3. QED
    BY <2>2 DEF Position
<1>8. /\ path' \in {path, NoFile} \cup (DOMAIN files' \ DOMAIN files)
      /\ path \in DOMAIN files \cup {NoFile}
      /\ pc \in {"polled", "reading"} => fd \in DOMAIN files
  BY DEF FilesChange, IInv, TailInv, Shape, TypeOK
<1>9. pc = "waiting" /\ ~raced /\ path' # NoFile => Position(path)'
  <2>1. SUFFICES ASSUME pc = "waiting", ~raced, path' # NoFile PROVE Position(path)'
    OBVIOUS
  <2>2. CASE path' = path
    <3>1. Position(path) /\ path \in DOMAIN files
      BY <1>8, <2>1, <2>2 DEF IInv, OrderInv
    <3>2. QED
      BY <1>5, <2>2, <3>1 DEF Position
  <2>3. CASE path' \in DOMAIN files' \ DOMAIN files
    BY <1>7, <2>3 DEF Position
  <2>4. QED
    BY <1>8, <2>1, <2>2, <2>3
<1>10. ASSUME pc \in {"polled", "reading"}, ~raced
       PROVE  Position(fd)' /\ (path' \notin {NoFile, fd} => seen'[files'[path'].life] = Unseen)
  <2>1. Position(fd) /\ (path \notin {NoFile, fd} => seen[files[path].life] = Unseen)
    BY <1>10 DEF IInv, OrderInv
  <2>2. Position(fd)'
    BY <1>1, <1>5, <1>8, <1>10, <2>1 DEF Position
  <2>3. ASSUME path' \notin {NoFile, fd} PROVE seen'[files'[path'].life] = Unseen
    <3>1. CASE path' = path
      BY <1>6, <1>8, <2>1, <2>3, <3>1
    <3>2. CASE path' \in DOMAIN files' \ DOMAIN files
      BY <1>7, <3>2
    <3>3. QED
      BY <1>8, <2>3, <3>1, <3>2
  <2>4. QED
    BY <2>2, <2>3
<1>11. QED
  BY <1>1, <1>3, <1>9, <1>10 DEF IInv, OrderInv, InOrder

LEMMA OrderWriteTail ==
  ASSUME IInv, WriteTail
  PROVE  OrderInv' /\ InOrder'
<1> DEFINE life == files[fd].life
<1>1. /\ pc = "sized" /\ pc' = "waiting"
      /\ raced' = (life # tail.whole.life)
      /\ seen' = IF raced' THEN seen ELSE [seen EXCEPT ![life] = offset]
      /\ UNCHANGED <<files, path, lives, fd, offset, again>>
  BY DEF WriteTail, environment
<1>2. /\ ~again /\ (\A l \in 1..MaxLives : seen[l] = Unseen)
      /\ fd \in DOMAIN files /\ life <= lives /\ lives \in Nat /\ life \in Nat
      /\ seen \in [1..MaxLives -> Nat \cup {Unseen}] /\ life \in 1..MaxLives
      /\ MaxLives \in Nat
  BY <1>1, ShapeFacts DEF IInv, OrderInv, TailInv, Shape, TypeOK
<1>3. \A l \in 1..MaxLives : l > lives => seen'[l] = Unseen
  <2> HIDE DEF life
  <2>1. QED
    BY <1>1, <1>2
<1>4. ASSUME ~raced', path # NoFile PROVE Position(path)'
  <2>1. path \in DOMAIN files
    BY <1>4 DEF IInv, TailInv, Shape, TypeOK
  <2>2. CASE path = fd
    <3>1. offset <= files[fd].end
      BY <1>1, <1>4 DEF IInv, TailInv, SizedInv
    <3>2. seen'[files[path].life] = offset
      BY <1>1, <1>2, <1>4, <2>2
    <3>3. QED
      BY <1>1, <2>2, <3>1, <3>2 DEF Position
  <2>3. CASE path # fd
    <3>1. files[path].life # life /\ files[path].life \in 1..MaxLives
      BY <1>2, <2>1, <2>3, ShapeFacts DEF IInv, TailInv, Shape
    <3>2. seen'[files[path].life] = Unseen
      BY <1>1, <1>2, <3>1
    <3>3. QED
      BY <1>1, <3>2 DEF Position
  <2>4. QED
    BY <2>2, <2>3
<1>5. QED
  BY <1>1, <1>2, <1>3, <1>4 DEF OrderInv, InOrder

LEMMA OrderDrain ==
  ASSUME IInv, ReadAt
  PROVE  OrderInv' /\ InOrder'
<1> DEFINE life == files[fd].life
<1>1. /\ pc = "reading" /\ pc' \in {"waiting", "reading"}
      /\ offset' = offset + Got
      /\ seen' = IF Got > 0 THEN [seen EXCEPT ![life] = offset + Got] ELSE seen
      /\ again' = (again \/ (Got > 0 /\ OutOfOrder(life)))
      /\ UNCHANGED <<files, path, lives, fd, raced>>
  BY DEF ReadAt, Drain, environment
<1>2. fd \in DOMAIN files /\ Shape
  BY <1>1 DEF IInv, TailInv, Shape, TypeOK
<1>3. /\ Got \in Nat /\ (Got > 0 => offset + Got <= files[fd].end)
      /\ offset \in Nat /\ life \in 1..MaxLives /\ life <= lives /\ life \in Nat
      /\ lives \in Nat /\ MaxLives \in Nat
      /\ seen \in [1..MaxLives -> Nat \cup {Unseen}]
  BY <1>2, GotFacts, ShapeFacts DEF Shape
<1>4. \A l \in 1..MaxLives : l > lives' => seen'[l] = Unseen
  <2> HIDE DEF life
  <2>1. \A l \in 1..MaxLives : l > lives => seen[l] = Unseen /\ l # life
    BY <1>3 DEF IInv, OrderInv
  <2>2. QED
    BY <1>1, <1>3, <2>1
<1>5. ASSUME raced PROVE OrderInv' /\ InOrder'
  BY <1>1, <1>4, <1>5 DEF OrderInv, InOrder
<1>6. ASSUME ~raced PROVE OrderInv' /\ InOrder'
  <2>1. /\ Position(fd) /\ ~again
        /\ path \notin {NoFile, fd} => seen[files[path].life] = Unseen
    BY <1>1, <1>6 DEF IInv, OrderInv, InOrder
  <2>2. ~again'
    <3>1. Begun(fd)
      BY <1>1 DEF IInv, HeadInv
    <3>2. ~OutOfOrder(life)
      BY <1>3, <2>1, <3>1 DEF Position, Begun, OutOfOrder
    <3>3. QED
      BY <1>1, <2>1, <3>2
  <2>3. Position(fd)'
    <3>1. CASE Got > 0
      <4>1. seen'[life] = offset + Got
        BY <1>1, <1>3, <3>1
      <4>2. QED
        BY <1>1, <1>3, <3>1, <4>1 DEF Position
    <3>2. CASE ~(Got > 0)
      <4>1. seen' = seen /\ offset' = offset
        BY <1>1, <1>3, <3>2
      <4>2. QED
        BY <1>1, <2>1, <4>1 DEF Position
    <3>3. QED
      BY <3>1, <3>2
  <2>4. ASSUME path \notin {NoFile, fd}
        PROVE  seen'[files[path].life] = Unseen
    <3>1. path \in DOMAIN files
      BY <1>2, <2>4 DEF Shape, TypeOK
    <3>2. files[path].life # life /\ files[path].life \in 1..MaxLives
      BY <1>2, <2>4, <3>1, ShapeFacts DEF Shape
    <3>3. QED
      BY <1>1, <1>3, <2>1, <2>4, <3>2
  <2>5. path # NoFile => Position(path)'
    <3>1. CASE path = fd
      BY <1>1, <2>3, <3>1 DEF Position
    <3>2. CASE path \notin {NoFile, fd}
      BY <1>1, <2>4, <3>2 DEF Position
    <3>3. QED
      BY <3>1, <3>2
  <2>6. QED
    BY <1>1, <1>4, <2>2, <2>3, <2>4, <2>5 DEF OrderInv, InOrder, Position
<1>7. QED
  BY <1>5, <1>6

LEMMA OrderStep ==
  ASSUME IInv, [Next]_vars
  PROVE  IInv'
<1>1. TailInv' /\ Shape' /\ HeadInv'
  BY TailStep, HeadStep DEF IInv, TailInv
<1>2. ASSUME FilesChange PROVE IInv'
  BY <1>1, <1>2, OrderChange DEF IInv
<1>3. ASSUME (\E n \in Tails : OpenLog(n)) \/ SeekEnd PROVE IInv'
  <2>1. /\ pc \in {"start", "opened"} /\ pc' \in {"opened", "sized"}
        /\ UNCHANGED <<lives, raced, seen, again>>
    BY <1>3 DEF OpenLog, SeekEnd, environment
  <2>2. OrderInv' /\ InOrder'
    BY <2>1 DEF IInv, OrderInv, InOrder
  <2>3. QED
    BY <1>1, <2>2 DEF IInv
<1>4. ASSUME WriteTail PROVE IInv'
  BY <1>1, <1>4, OrderWriteTail DEF IInv
<1>5. ASSUME Poll PROVE IInv'
  <2>1. /\ pc = "waiting" /\ UNCHANGED <<files, path, lives, raced, seen, again>>
        /\ \/ path = NoFile /\ UNCHANGED <<pc, fd>>
           \/ path # NoFile /\ fd' = path /\ pc' = "polled" /\ UNCHANGED offset
    BY <1>5 DEF Poll, environment
  <2>2. OrderInv'
    <3>1. CASE path = NoFile
      BY <2>1, <3>1 DEF IInv, OrderInv
    <3>2. CASE path # NoFile
      <4>1. ~raced => Position(path)
        BY <2>1, <3>2 DEF IInv, OrderInv
      <4>2. ~raced => Position(fd)'
        BY <2>1, <3>2, <4>1 DEF Position
      <4>3. QED
        BY <2>1, <3>2, <4>2 DEF IInv, OrderInv
    <3>3. QED
      BY <3>1, <3>2
  <2>3. QED
    BY <1>1, <2>1, <2>2 DEF IInv, InOrder
<1>6. ASSUME Stat PROVE IInv'
  <2>1. /\ pc = "polled" /\ pc' = "reading"
        /\ UNCHANGED <<files, path, lives, fd, raced, seen, again>>
        /\ offset' = IF files[fd].end < offset THEN 0 ELSE offset
    BY <1>6 DEF Stat, Shorter, environment
  <2>2. fd \in DOMAIN files
    BY <2>1 DEF IInv, TailInv, Shape, TypeOK
  <2>3. files[fd].end \in Nat /\ offset \in Nat
    BY <2>2, ShapeFacts DEF IInv, TailInv
  <2>4. ~raced => Position(fd)'
    <3>1. ~raced => Position(fd)
      BY <2>1 DEF IInv, OrderInv
    <3>2. QED
      BY <2>1, <2>3, <3>1 DEF Position
  <2>5. QED
    BY <1>1, <2>1, <2>4 DEF IInv, OrderInv, InOrder
<1>7. ASSUME ReadAt PROVE IInv'
  BY <1>1, <1>7, OrderDrain DEF IInv
<1>8. ASSUME End PROVE IInv'
  BY <1>1, <1>8 DEF End, environment, output, IInv, OrderInv, InOrder
<1>9. ASSUME UNCHANGED vars PROVE IInv'
  BY <1>1, <1>9 DEF vars, environment, output, IInv, OrderInv, InOrder, Position
<1>10. QED
  BY <1>2, <1>3, <1>4, <1>5, <1>6, <1>7, <1>8, <1>9, WritesShape, TruncateShape, MoveShape,
     RestartShape DEF Next, Command, IInv, TailInv

\* The inductive invariant.
THEOREM Inductive == Spec => []IInv
<1>1. Init => IInv
  <2>1. ASSUME Init PROVE /\ pc = "start" /\ again = FALSE /\ met = {}
                          /\ \A l \in 1..MaxLives : seen[l] = Unseen
    BY <2>1 DEF Init
  <2>2. QED
    BY <2>1, InitShape DEF IInv, TailInv, SizedInv, TailOfChunk, Tailed, OrderInv, HeadInv,
                          InOrder
<1>2. QED
  BY <1>1, OrderStep, PTL DEF Spec

\* What is printed of each life of the log is in order, without a hole and
\* without a repetition, through polls, truncations and rotations, and begins at
\* its first byte if a poll found it shorter than what was printed before, or
\* found no log before it; unless the file was truncated in the middle of the
\* first output.
THEOREM PrintedInOrder == Spec => []InOrder
<1>1. IInv => InOrder
  BY DEF IInv
<1>2. QED
  BY <1>1, Inductive, PTL

=============================================================================
