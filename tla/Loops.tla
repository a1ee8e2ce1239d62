------------------------------- MODULE Loops -------------------------------
(* Lemmas about loops and about the folds and the concatenations that stand *)
(* for them: the recursive functions behind those exist and are what their  *)
(* equations say.                                                           *)
EXTENDS Naturals, SequencesExt, WellFoundedInduction, TLAPS

\* Every set of numbers that is not empty has a least element.
LEMMA LeastNumber ==
  ASSUME NEW T \in SUBSET Nat, T # {}
  PROVE  \E n \in T : \A k \in T : n <= k
<1> DEFINE R == {p \in Nat \X Nat : p[1] < p[2]}
<1>1. \E n \in T : \A k \in T : ~(<<k, n>> \in R)
  <2> HIDE DEF R
  <2>1. IsWellFoundedOn(R, Nat)
    BY NatLessThanWellFounded DEF R, OpToRel
  <2> QED BY <2>1, WFMin
<1>2. PICK n \in T : \A k \in T : ~(<<k, n>> \in R)
  BY <1>1
<1>3. ASSUME NEW k \in T PROVE n <= k
  <2>1. ~(<<k, n>> \in R)
    BY <1>2
  <2> QED BY <2>1
<1> QED BY <1>3

\* h is the state in D, after each round, of a loop of n rounds.
Rounds(h, D, base, n, step) ==
    /\ h \in [0..n -> D]
    /\ h[0] = base /\ \A k \in 1..n : h[k] = step[<<k, h[k - 1]>>]

\* Every loop has one.
LEMMA Loop ==
  ASSUME NEW D, NEW base \in D, NEW n \in Nat, NEW step \in [(1..n) \X D -> D]
  PROVE  \E h : Rounds(h, D, base, n, step)
<1> DEFINE Runs(h, m) ==
             /\ h \in [0..m -> D]
             /\ h[0] = base /\ \A k \in 1..m : h[k] = step[<<k, h[k - 1]>>]
           T == {m \in Nat : m <= n /\ ~\E h : Runs(h, m)}
<1>1. ASSUME T # {} PROVE FALSE
  <2>1. PICK m \in T : \A j \in T : m <= j
    <3>1. T \subseteq Nat
      OBVIOUS
    <3> HIDE DEF T
    <3> QED BY <1>1, <3>1, LeastNumber
  <2>2. m \in Nat /\ m <= n /\ ~\E h : Runs(h, m)
    BY <2>1
  <2>3. CASE m = 0
    <3> DEFINE h == [k \in 0..0 |-> base]
    <3>1. h \in [0..0 -> D] /\ h[0] = base /\ 1..0 = {}
      OBVIOUS
    <3> HIDE DEF h
    <3>2. Runs(h, 0)
      BY <3>1
    <3> QED BY <2>2, <2>3, <3>2
  <2>4. CASE m # 0
    <3>1. m - 1 \in Nat /\ m - 1 <= n /\ ~(m <= m - 1) /\ m \in 1..n
      BY <2>2, <2>4
    <3>2. m - 1 \notin T
      BY <2>1, <3>1
    <3>3. PICK g : Runs(g, m - 1)
      BY <3>1, <3>2
    <3>4. g \in [0..(m - 1) -> D] /\ g[m - 1] \in D
      BY <3>1, <3>3
    <3> DEFINE h == [k \in 0..m |-> IF k = m THEN step[<<m, g[m - 1]>>] ELSE g[k]]
    <3>5. step[<<m, g[m - 1]>>] \in D
      BY <3>1, <3>4
    <3>6. \A k \in 0..m : k # m => k \in 0..(m - 1)
      BY <2>2
    <3>7. h \in [0..m -> D]
      BY <3>4, <3>5, <3>6
    <3>8. h[0] = base
      BY <2>2, <2>4, <3>3
    <3>9. ASSUME NEW k \in 1..m PROVE h[k] = step[<<k, h[k - 1]>>]
      <4>1. k \in 0..m /\ k - 1 \in 0..m /\ k - 1 # m
        BY <2>2
      <4>2. h[k - 1] = g[k - 1]
        BY <4>1
      <4>3. CASE k = m
        BY <4>1, <4>2, <4>3
      <4>4. CASE k # m
        <5>1. k \in 1..(m - 1)
          BY <2>2, <4>4
        <5>2. g[k] = step[<<k, g[k - 1]>>]
          BY <3>3, <5>1
        <5> QED BY <4>1, <4>2, <4>4, <5>2
      <4> QED BY <4>3, <4>4
    <3> HIDE DEF h
    <3>10. Runs(h, m)
      BY <3>7, <3>8, <3>9
    <3> QED BY <2>2, <3>10
  <2> QED BY <2>3, <2>4
<1>2. n \notin T
  BY <1>1
<1>3. PICK h : Runs(h, n)
  BY <1>2
<1> QED BY <1>3 DEF Rounds

\* What holds at 0 and goes from each number to the next holds up to n.
LEMMA Climb ==
  ASSUME NEW n \in Nat, NEW S, 0 \in S, \A k \in 1..n : k - 1 \in S => k \in S
  PROVE  \A k \in 0..n : k \in S
<1> DEFINE T == {k \in 0..n : k \notin S}
<1>1. ASSUME T # {} PROVE FALSE
  <2>1. PICK k \in T : \A j \in T : k <= j
    <3>1. T \subseteq Nat
      OBVIOUS
    <3> HIDE DEF T
    <3> QED BY <1>1, <3>1, LeastNumber
  <2>2. k \in 0..n /\ k \notin S /\ k # 0
    BY <2>1
  <2>3. k \in 1..n /\ k - 1 \in 0..n /\ ~(k <= k - 1)
    BY <2>2
  <2>4. k - 1 \in S
    BY <2>1, <2>3
  <2> QED BY <2>2, <2>3, <2>4
<1> QED BY <1>1

\* Two runs of a loop that is deterministic.
LEMMA Agree ==
  ASSUME NEW n \in Nat, NEW c, NEW h, c[0] = h[0],
         \A k \in 1..n : c[k - 1] = h[k - 1] => c[k] = h[k]
  PROVE  c[n] = h[n]
<1> DEFINE S == {k \in 0..n : c[k] = h[k]}
<1>1. 0 \in S
  OBVIOUS
<1>2. \A k \in 1..n : k - 1 \in S => k \in S
  OBVIOUS
<1> HIDE DEF S
<1>3. n \in S
  BY <1>1, <1>2, Climb
<1> QED BY <1>3 DEF S
----------------------------------------------------------------------------
(* Folds *)

\* The function FoldLeft takes a value of, for a fold that takes n elements by
\* step from base: its value at T folds the elements at the positions in T.
IsFold(f, n, base, step) ==
    f = [T \in SUBSET (1..n) |-> IF T = {} THEN base
                                 ELSE step[<<Max(T), f[T \ {Max(T)}]>>]]

LEMMA MaxIsLast ==
  ASSUME NEW n \in Nat, NEW T \in SUBSET (1..n), T # {}
  PROVE  Max(T) \in T /\ \A k \in T : k <= Max(T)
<1> DEFINE U == {n - k : k \in T}
<1>1. U \in SUBSET Nat /\ U # {}
  <2>1. \A k \in 1..n : n - k \in Nat
    OBVIOUS
  <2>2. \A k \in T : n - k \in Nat
    BY <2>1
  <2> QED BY <2>2
<1>2. PICK u \in U : \A v \in U : u <= v
  <2> HIDE DEF U
  <2> QED BY <1>1, LeastNumber
<1>3. PICK m \in T : u = n - m
  BY <1>2
<1>4. \A k \in T : m >= k
  <2> SUFFICES ASSUME NEW k \in T PROVE m >= k
    OBVIOUS
  <2>1. n - m <= n - k
    BY <1>2, <1>3
  <2>2. m \in Nat /\ k \in Nat
    OBVIOUS
  <2> QED BY <2>1, <2>2
<1>5. Max(T) \in T /\ \A k \in T : Max(T) >= k
  BY <1>4 DEF Max
<1>6. \A k \in T, j \in T : j >= k => k <= j
  OBVIOUS
<1> QED BY <1>5, <1>6

LEMMA FoldExists ==
  ASSUME NEW D, NEW base \in D, NEW n \in Nat, NEW step \in [(1..n) \X D -> D]
  PROVE  \E f \in [SUBSET (1..n) -> D] : IsFold(f, n, base, step)
<1> DEFINE skip(T) == [x \in (1..n) \X D |-> IF x[1] \in T THEN step[x] ELSE x[2]]
           run(T) == CHOOSE h : Rounds(h, D, base, n, skip(T))
           f == [T \in SUBSET (1..n) |-> run(T)[n]]
<1>1. ASSUME NEW T \in SUBSET (1..n)
      PROVE  /\ run(T) \in [0..n -> D] /\ run(T)[0] = base
             /\ \A k \in 1..n : /\ k \in T => run(T)[k] = step[<<k, run(T)[k - 1]>>]
                                /\ k \notin T => run(T)[k] = run(T)[k - 1]
  <2>1. skip(T) \in [(1..n) \X D -> D]
    OBVIOUS
  <2>2. \A k \in 1..n, d \in D : skip(T)[<<k, d>>] = IF k \in T THEN step[<<k, d>>] ELSE d
    OBVIOUS
  <2>3. PICK h : Rounds(h, D, base, n, skip(T))
    <3> HIDE DEF skip
    <3> QED BY <2>1, Loop
  <2> HIDE DEF skip
  <2>4. Rounds(run(T), D, base, n, skip(T))
    BY <2>3
  <2> HIDE DEF run
  <2>5. \A k \in 1..n : k - 1 \in 0..n
    OBVIOUS
  <2>6. \A k \in 1..n : run(T)[k - 1] \in D
    BY <2>4, <2>5 DEF Rounds
  <2> QED BY <2>2, <2>4, <2>6 DEF Rounds
<1>2. f \in [SUBSET (1..n) -> D]
  <2>1. n \in 0..n
    OBVIOUS
  <2> HIDE DEF run
  <2> QED BY <1>1, <2>1
<1>3. ASSUME NEW T \in SUBSET (1..n)
      PROVE  f[T] = IF T = {} THEN base ELSE step[<<Max(T), f[T \ {Max(T)}]>>]
  <2> DEFINE a == run(T)
             m == Max(T)
             b == run(T \ {m})
  <2>1. CASE T = {}
    <3> DEFINE S == {k \in 0..n : a[k] = base}
    <3>1. 0 \in S /\ \A k \in 1..n : k - 1 \in S => k \in S
      <4>1. a[0] = base /\ \A k \in 1..n : a[k] = a[k - 1]
        <5> HIDE DEF run
        <5> QED BY <1>1, <2>1
      <4> HIDE DEF a
      <4> QED BY <4>1
    <3> HIDE DEF S
    <3>2. n \in S
      BY <3>1, Climb
    <3> QED BY <2>1, <3>2 DEF S
  <2>2. CASE T # {}
    <3>1. m \in T /\ m \in 1..n /\ m - 1 \in Nat /\ m - 1 \in 0..n
          /\ \A k \in T : k <= m
      <4>1. m \in T /\ \A k \in T : k <= m
        BY <2>2, MaxIsLast
      <4> HIDE DEF m
      <4>2. \A k \in 1..n : k - 1 \in Nat /\ k - 1 \in 0..n
        OBVIOUS
      <4> QED BY <4>1, <4>2
    <3> HIDE DEF run, m
    <3> DEFINE S == {k \in 0..n : IF k < m THEN a[k] = b[k]
                                  ELSE a[k] = step[<<m, b[m - 1]>>] /\ b[k] = b[m - 1]}
    <3>2. T \ {m} \in SUBSET (1..n)
      OBVIOUS
    <3>3. 0 \in S
      BY <1>1, <3>1, <3>2
    <3>4. ASSUME NEW k \in 1..n, k - 1 \in S PROVE k \in S
      <4>1. k - 1 \in 0..n /\ k \in 0..n /\ (k < m => k - 1 < m)
        <5>1. m \in Nat
          BY <3>1
        <5> HIDE DEF S
        <5> QED BY <5>1
      <4>2. CASE k < m
        <5>1. a[k - 1] = b[k - 1]
          BY <3>1, <3>4, <4>1, <4>2
        <5>2. k \in T <=> k \in T \ {m}
          BY <3>1, <4>2
        <5>3. a[k] = b[k]
          <6>1. CASE k \in T
            <7>1. a[k] = step[<<k, a[k - 1]>>] /\ b[k] = step[<<k, b[k - 1]>>]
              BY <1>1, <3>2, <5>2, <6>1
            <7> QED BY <5>1, <7>1
          <6>2. CASE k \notin T
            <7>1. a[k] = a[k - 1] /\ b[k] = b[k - 1]
              BY <1>1, <3>2, <5>2, <6>2
            <7> QED BY <5>1, <7>1
          <6> QED BY <6>1, <6>2
        <5> QED BY <4>1, <4>2, <5>3
      <4>3. CASE k = m
        <5>1. a[k - 1] = b[k - 1]
          BY <3>1, <3>4, <4>3
        <5>2. a[k] = step[<<k, a[k - 1]>>] /\ b[k] = b[k - 1]
          BY <1>1, <3>1, <3>2, <4>3
        <5>3. ~(k < m)
          BY <4>3
        <5> QED BY <4>1, <4>3, <5>1, <5>2, <5>3
      <4>4. CASE k > m
        <5>1. k \notin T /\ k \notin T \ {m} /\ ~(k < m) /\ ~(k - 1 < m)
          BY <3>1, <4>4
        <5>2. a[k] = a[k - 1] /\ b[k] = b[k - 1]
          BY <1>1, <3>2, <5>1
        <5> QED BY <3>4, <4>1, <5>1, <5>2
      <4> QED BY <3>1, <4>2, <4>3, <4>4
    <3> HIDE DEF S
    <3>5. n \in S
      BY <3>3, <3>4, Climb
    <3>6. ~(n < m)
      BY <3>1
    <3>7. a[n] = step[<<m, b[n]>>]
      BY <3>5, <3>6 DEF S
    <3> QED BY <2>2, <3>2, <3>7 DEF m
  <2> QED BY <2>1, <2>2
<1>4. f = [T \in SUBSET (1..n) |-> f[T]]
  OBVIOUS
<1> HIDE DEF f
<1>5. IsFold(f, n, base, step)
  BY <1>3, <1>4 DEF IsFold
<1> QED BY <1>2, <1>5

LEMMA PrefixLast ==
  ASSUME NEW n \in Nat, NEW k \in 1..n
  PROVE  /\ 1..k \in SUBSET (1..n) /\ 1..k # {}
         /\ Max(1..k) = k /\ (1..k) \ {k} = 1..(k - 1)
<1>1. 1..k \in SUBSET (1..n) /\ 1..k # {} /\ k \in 1..k /\ k \in Nat
  OBVIOUS
<1>2. Max(1..k) \in 1..k /\ k <= Max(1..k)
  BY <1>1, MaxIsLast
<1>3. Max(1..k) = k
  BY <1>2
<1>4. (1..k) \ {k} = 1..(k - 1)
  OBVIOUS
<1> QED BY <1>1, <1>3, <1>4

\* A fold takes one element after the other.
LEMMA FoldRounds ==
  ASSUME NEW n \in Nat, NEW base, NEW step, NEW f, IsFold(f, n, base, step)
  PROVE  /\ f[1..0] = base
         /\ \A k \in 1..n : f[1..k] = step[<<k, f[1..(k - 1)]>>]
<1>1. 1..0 = {} /\ {} \in SUBSET (1..n)
  OBVIOUS
<1>2. ASSUME NEW k \in 1..n PROVE f[1..k] = step[<<k, f[1..(k - 1)]>>]
  <2>1. /\ 1..k \in SUBSET (1..n) /\ 1..k # {}
        /\ Max(1..k) = k /\ (1..k) \ {k} = 1..(k - 1)
    BY PrefixLast
  <2> QED BY <2>1 DEF IsFold
<1> QED BY <1>1, <1>2 DEF IsFold
----------------------------------------------------------------------------
(* Concatenation *)

\* The function FlattenSeq takes the last value of.
IsFlat(f, s, n) == f = [i \in 1..n |-> IF i = 1 THEN s[i] ELSE f[i-1] \o s[i]]

LEMMA FlatExists ==
  ASSUME NEW s, NEW n \in Nat
  PROVE  \E f : IsFlat(f, s, n)
<1> DEFINE T == {k \in Nat : ~\E f : IsFlat(f, s, k)}
<1>1. ASSUME T # {} PROVE FALSE
  <2>1. PICK k \in T : \A j \in T : k <= j
    <3> HIDE DEF T
    <3>1. T \subseteq Nat
      BY DEF T
    <3> QED BY <1>1, <3>1, LeastNumber
  <2>2. CASE k = 0
    <3>1. IsFlat(<<>>, s, 0)
      BY DEF IsFlat
    <3> QED BY <2>1, <2>2, <3>1
  <2>3. CASE k # 0
    <3>1. k - 1 \in Nat /\ k - 1 < k /\ k \in Nat
      BY <2>1, <2>3
    <3>2. k - 1 \notin T
      BY <2>1, <3>1
    <3>3. PICK f : IsFlat(f, s, k - 1)
      BY <3>1, <3>2
    <3> DEFINE g == [i \in 1..k |-> IF i = k THEN IF k = 1 THEN s[1] ELSE f[k - 1] \o s[k]
                                    ELSE f[i]]
    <3>4. ASSUME NEW i \in 1..k
          PROVE  g[i] = IF i = 1 THEN s[i] ELSE g[i - 1] \o s[i]
      <4>1. CASE i = k /\ k = 1
        BY <4>1
      <4>2. CASE i = k /\ k # 1
        <5>1. g[k - 1] = f[k - 1]
          BY <3>1, <4>2
        <5> QED BY <4>2, <5>1
      <4>3. CASE i # k
        <5>1. i \in 1..(k - 1)
          BY <3>1, <4>3
        <5>2. f[i] = IF i = 1 THEN s[i] ELSE f[i - 1] \o s[i]
          BY <3>3, <5>1 DEF IsFlat
        <5>3. i # 1 => i - 1 \in 1..k /\ i - 1 # k
          BY <3>1, <5>1
        <5>4. i # 1 => g[i - 1] = f[i - 1]
          BY <5>3
        <5> QED BY <4>3, <5>2, <5>4
      <4> QED BY <4>1, <4>2, <4>3
    <3>5. g = [i \in 1..k |-> IF i = 1 THEN s[i] ELSE g[i - 1] \o s[i]]
      <4>1. g = [i \in 1..k |-> g[i]]
        OBVIOUS
      <4> HIDE DEF g
      <4> QED BY <3>4, <4>1
    <3>6. IsFlat(g, s, k)
      BY <3>5 DEF IsFlat
    <3> QED BY <2>1, <3>6
  <2> QED BY <2>2, <2>3
<1> QED BY <1>1

LEMMA FlatAgree ==
  ASSUME NEW s, NEW t, NEW f, NEW g, NEW m \in Nat, NEW n \in Nat, m <= n,
         IsFlat(f, s, m), IsFlat(g, t, n), \A i \in 1..m : s[i] = t[i]
  PROVE  \A i \in 1..m : f[i] = g[i]
<1> DEFINE T == {k \in 1..m : f[k] # g[k]}
<1>1. ASSUME T # {} PROVE FALSE
  <2>1. PICK k \in T : \A j \in T : k <= j
    <3>1. T \subseteq Nat
      OBVIOUS
    <3> HIDE DEF T
    <3> QED BY <1>1, <3>1, LeastNumber
  <2>2. k \in 1..m /\ k \in 1..n /\ f[k] # g[k]
    BY <2>1
  <2>3. f[k] = IF k = 1 THEN s[k] ELSE f[k - 1] \o s[k]
    BY <2>2 DEF IsFlat
  <2>4. g[k] = IF k = 1 THEN t[k] ELSE g[k - 1] \o t[k]
    BY <2>2 DEF IsFlat
  <2>5. CASE k = 1
    BY <2>2, <2>3, <2>4, <2>5
  <2>6. CASE k # 1
    <3>1. k - 1 \in 1..m /\ ~(k <= k - 1)
      BY <2>2, <2>6
    <3>2. f[k - 1] = g[k - 1]
      BY <2>1, <3>1
    <3> QED BY <2>2, <2>3, <2>4, <2>6, <3>2
  <2> QED BY <2>5, <2>6
<1> QED BY <1>1

LEMMA FlattenIs ==
  ASSUME NEW S, NEW s \in Seq(Seq(S)), s # <<>>, NEW f, IsFlat(f, s, Len(s))
  PROVE  FlattenSeq(s) = f[Len(s)]
<1>1. Len(s) # 0 /\ Len(s) \in Nat /\ Len(s) \in 1..Len(s)
  OBVIOUS
<1> DEFINE h == CHOOSE g : IsFlat(g, s, Len(s))
<1>2. IsFlat(h, s, Len(s))
  OBVIOUS
<1>3. h[Len(s)] = f[Len(s)]
  <2> HIDE DEF h
  <2> QED BY <1>1, <1>2, FlatAgree
<1>4. FlattenSeq(s) = h[Len(s)]
  BY <1>1 DEF FlattenSeq, IsFlat
<1> QED BY <1>3, <1>4

\* The concatenation of one sequence more.
LEMMA FlattenSnoc ==
  ASSUME NEW S, NEW s \in Seq(Seq(S)), NEW x \in Seq(S)
  PROVE  FlattenSeq(Append(s, x)) = FlattenSeq(s) \o x
<1> DEFINE t == Append(s, x)
           n == Len(s)
<1>1. /\ t \in Seq(Seq(S)) /\ t # <<>> /\ Len(t) = n + 1 /\ n \in Nat /\ n + 1 \in Nat
      /\ \A i \in 1..n : s[i] = t[i]
      /\ t[n + 1] = x
  <2> DEFINE U == Seq(S)
  <2>1. s \in Seq(U) /\ x \in U
    OBVIOUS
  <2> HIDE DEF U
  <2>2. /\ t \in Seq(U) /\ Len(t) = n + 1 /\ n \in Nat
        /\ \A i \in 1..n : s[i] = t[i]
        /\ t[n + 1] = x
    BY <2>1
  <2>3. t # <<>> /\ n + 1 \in Nat
    <3>1. Len(t) # 0
      BY <2>2
    <3> HIDE DEF t, n
    <3> QED BY <2>2, <3>1
  <2> QED BY <2>2, <2>3 DEF U
<1> HIDE DEF t, n
<1>2. PICK g : IsFlat(g, t, n + 1)
  <2>1. n + 1 \in Nat
    BY <1>1
  <2> QED BY <2>1, FlatExists
<1>3. FlattenSeq(t) = g[n + 1]
  BY <1>1, <1>2, FlattenIs
<1>4. n + 1 \in 1..(n + 1) /\ (n # 0 => n \in 1..(n + 1) /\ n \in 1..n /\ n + 1 # 1)
      /\ (n + 1) - 1 = n
  BY <1>1
<1>5. g[n + 1] = IF n + 1 = 1 THEN t[n + 1] ELSE g[n] \o t[n + 1]
  BY <1>2, <1>4 DEF IsFlat
<1>6. CASE n = 0
  <2>1. s = <<>>
    BY <1>6 DEF n
  <2>2. FlattenSeq(s) = <<>>
    <3>1. Len(<<>>) = 0
      OBVIOUS
    <3> QED BY <2>1, <3>1 DEF FlattenSeq
  <2>3. FlattenSeq(t) = x
    BY <1>1, <1>3, <1>5, <1>6
  <2>4. <<>> \o x = x
    OBVIOUS
  <2> QED BY <2>2, <2>3, <2>4 DEF t
<1>7. CASE n # 0
  <2>1. PICK f : IsFlat(f, s, n)
    BY <1>1, FlatExists
  <2>2. s # <<>>
    BY <1>7 DEF n
  <2>3. FlattenSeq(s) = f[n]
    BY <2>1, <2>2, FlattenIs DEF n
  <2>4. f[n] = g[n]
    BY <1>1, <1>2, <1>4, <1>7, <2>1, FlatAgree
  <2> QED BY <1>1, <1>3, <1>4, <1>5, <1>7, <2>3, <2>4 DEF t
<1> QED BY <1>6, <1>7

LEMMA FlattenEmpty == FlattenSeq(<<>>) = <<>>
<1>1. Len(<<>>) = 0
  OBVIOUS
<1> QED BY <1>1 DEF FlattenSeq

LEMMA FlattenType ==
  ASSUME NEW S, NEW s \in Seq(Seq(S))
  PROVE  FlattenSeq(s) \in Seq(S)
<1> DEFINE n == Len(s)
           U == Seq(S)
<1>1. n \in Nat /\ (n = 0 => s = <<>>) /\ (n # 0 => s # <<>>)
      /\ \A i \in 1..n : s[i] \in U
  <2> HIDE DEF U
  <2>1. s \in Seq(U)
    BY DEF U
  <2> QED BY <2>1
<1>2. PICK f : IsFlat(f, s, n)
  BY <1>1, FlatExists
<1>3. CASE n = 0
  <2>1. <<>> \in Seq(S)
    OBVIOUS
  <2> QED BY <1>1, <1>3, <2>1, FlattenEmpty
<1>4. CASE n # 0
  <2> DEFINE K == {k \in 0..n : k = 0 \/ f[k] \in U}
  <2>1. FlattenSeq(s) = f[n]
    BY <1>1, <1>2, <1>4, FlattenIs
  <2>2. \A x \in U, y \in U : x \o y \in U
    OBVIOUS
  <2> HIDE DEF U, n
  <2>3. 0 \in K
    BY <1>1
  <2>4. ASSUME NEW k \in 1..n, k - 1 \in K PROVE k \in K
    <3>1. f[k] = IF k = 1 THEN s[k] ELSE f[k - 1] \o s[k]
      BY <1>2 DEF IsFlat
    <3>2. s[k] \in U /\ k \in 0..n /\ (k # 1 => k - 1 # 0)
      BY <1>1
    <3> QED BY <2>2, <2>4, <3>1, <3>2
  <2> HIDE DEF K
  <2>5. n \in K
    <3>1. n \in 0..n
      BY <1>1
    <3> QED BY <1>1, <2>3, <2>4, <3>1, Climb
  <2> QED BY <1>4, <2>1, <2>5 DEF K, U
<1> QED BY <1>3, <1>4
=============================================================================
