----------------------------- MODULE LeafProofs -----------------------------
(* Theorems about a leaf on its way through a run, for every table of rules *)
(* and every string.                                                        *)
EXTENDS LeafGate, Loops

----------------------------------------------------------------------------
(* Sequences *)

LEMMA SeqIs ==
  ASSUME NEW U, NEW n \in Nat, NEW f, f = [i \in 1..n |-> f[i]],
         \A i \in 1..n : f[i] \in U
  PROVE  f \in Seq(U) /\ Len(f) = n /\ DOMAIN f = 1..n
OBVIOUS

LEMMA SameSeq ==
  ASSUME NEW U, NEW f \in Seq(U), NEW g \in Seq(U), Len(f) = Len(g),
         \A i \in 1..Len(f) : f[i] = g[i]
  PROVE  f = g
OBVIOUS

LEMMA ExceptIs ==
  ASSUME NEW U, NEW f \in Seq(U), NEW k \in 1..Len(f), NEW u \in U
  PROVE  /\ [f EXCEPT ![k] = u] \in Seq(U) /\ Len([f EXCEPT ![k] = u]) = Len(f)
         /\ \A i \in 1..Len(f) : [f EXCEPT ![k] = u][i] = IF i = k THEN u ELSE f[i]
OBVIOUS

LEMMA FirstIs ==
  ASSUME NEW U, NEW f \in Seq(U), 1 \in 1..Len(f)
  PROVE  SubSeq(f, 1, 1) = <<f[1]>>
<1>1. SubSeq(f, 1, 1) \in Seq(U) /\ Len(SubSeq(f, 1, 1)) = 1 /\ SubSeq(f, 1, 1)[1] = f[1]
  OBVIOUS
<1>2. <<f[1]>> \in Seq(U) /\ Len(<<f[1]>>) = 1 /\ <<f[1]>>[1] = f[1]
  OBVIOUS
<1>3. \A i \in 1..1 : i = 1
  OBVIOUS
<1> QED BY <1>1, <1>2, <1>3, SameSeq

LEMMA ConcatIs ==
  ASSUME NEW U, NEW f \in Seq(U), NEW g \in Seq(U)
  PROVE  /\ f \o g \in Seq(U) /\ Len(f \o g) = Len(f) + Len(g)
         /\ \A i \in 1..Len(f) : (f \o g)[i] = f[i]
         /\ \A i \in 1..Len(g) : (f \o g)[Len(f) + i] = g[i]
OBVIOUS

LEMMA MiddleIs ==
  ASSUME NEW U, NEW f \in Seq(U), NEW u \in U, NEW g \in Seq(U)
  PROVE  /\ f \o (<<u>> \o g) \in Seq(U) /\ Len(f \o (<<u>> \o g)) = Len(f) + 1 + Len(g)
         /\ \A i \in 1..Len(f) : (f \o (<<u>> \o g))[i] = f[i]
         /\ (f \o (<<u>> \o g))[Len(f) + 1] = u
         /\ \A i \in 1..Len(g) : (f \o (<<u>> \o g))[Len(f) + 1 + i] = g[i]
OBVIOUS
----------------------------------------------------------------------------
(* Splitting *)

\* What Split and SplitUnescaped do with one symbol.
Cut(p, x, c) == IF x = c THEN Append(p, <<>>) ELSE [p EXCEPT ![Len(p)] = Append(@, x)]
CutUnescaped(a, x, c) ==
    [parts |-> IF x = c /\ ~a.escaped THEN Append(a.parts, <<>>)
               ELSE [a.parts EXCEPT ![Len(a.parts)] = Append(@, x)],
     escaped |-> x = "\\" /\ ~a.escaped]

Parts(S) == Seq(Seq(S)) \ {<<>>}

LEMMA AppendType ==
  ASSUME NEW U, NEW p \in Seq(U) \ {<<>>}, NEW u \in U
  PROVE  /\ Append(p, u) \in Seq(U) \ {<<>>}
         /\ Len(p) \in 1..Len(p) /\ p[Len(p)] \in U
         /\ [p EXCEPT ![Len(p)] = u] \in Seq(U) \ {<<>>}
<1>1. p \in Seq(U) /\ Len(p) \in Nat /\ Len(p) # 0
  OBVIOUS
<1>2. Len(p) \in 1..Len(p)
  BY <1>1
<1>3. Append(p, u) \in Seq(U) /\ Len(Append(p, u)) = Len(p) + 1
  BY <1>1
<1>4. Append(p, u) # <<>>
  BY <1>1, <1>3
<1>5. [p EXCEPT ![Len(p)] = u] \in Seq(U) /\ Len([p EXCEPT ![Len(p)] = u]) = Len(p)
  BY <1>1, <1>2
<1>6. [p EXCEPT ![Len(p)] = u] # <<>>
  BY <1>1, <1>5
<1> QED BY <1>1, <1>2, <1>3, <1>4, <1>5, <1>6

LEMMA CutType ==
  ASSUME NEW S, NEW p \in Parts(S), NEW x \in S, NEW c
  PROVE  /\ Append(p, <<>>) \in Parts(S)
         /\ [p EXCEPT ![Len(p)] = Append(@, x)] \in Parts(S)
         /\ Cut(p, x, c) \in Parts(S)
<1> DEFINE U == Seq(S)
<1>1. <<>> \in U
  OBVIOUS
<1>2. \A u \in U : Append(u, x) \in U
  OBVIOUS
<1>3. Append(p, <<>>) \in Parts(S)
  <2> HIDE DEF U
  <2>1. p \in Seq(U) \ {<<>>}
    BY DEF Parts, U
  <2> QED BY <1>1, <2>1, AppendType DEF Parts, U
<1>4. [p EXCEPT ![Len(p)] = Append(@, x)] \in Parts(S)
  <2> HIDE DEF U
  <2>1. p \in Seq(U) \ {<<>>}
    BY DEF Parts, U
  <2>2. p[Len(p)] \in U
    BY <1>1, <2>1, AppendType
  <2>3. Append(p[Len(p)], x) \in U
    BY <1>2, <2>2
  <2> DEFINE u == Append(p[Len(p)], x)
  <2>4. [p EXCEPT ![Len(p)] = u] \in Seq(U) \ {<<>>}
    <3> HIDE DEF u
    <3> QED BY <2>1, <2>3, AppendType DEF u
  <2> QED BY <2>4 DEF Parts, U
<1> QED BY <1>3, <1>4 DEF Cut

\* The parts after each symbol.
Cuts(h, S, s, c) ==
    /\ h \in [0..Len(s) -> Parts(S)]
    /\ h[0] = <<<<>>>>
    /\ \A k \in 1..Len(s) : h[k] = Cut(h[k - 1], s[k], c)

LEMMA SplitCuts ==
  ASSUME NEW S, NEW s \in Seq(S), NEW c
  PROVE  \E h : Cuts(h, S, s, c) /\ Split(s, c) = h[Len(s)]
<1> DEFINE n == Len(s)
           D == Parts(S)
           base == <<<<>>>>
           step == [x \in (1..n) \X D |-> Cut(x[2], s[x[1]], c)]
           G == CHOOSE f : f = [T \in SUBSET DOMAIN s |->
                    IF T = {} THEN <<<<>>>>
                    ELSE Cut(f[T \ {Max(T)}], s[Max(T)], c)]
<1>1. n \in Nat /\ DOMAIN s = 1..n /\ \A k \in 1..n : s[k] \in S
  OBVIOUS
<1>2. Split(s, c) = G[1..n]
  BY <1>1 DEF Split, FoldLeft, MapThenFoldSet, Cut
<1>3. step \in [(1..n) \X D -> D] /\ base \in D
  <2>1. \A x \in (1..n) \X D : Cut(x[2], s[x[1]], c) \in D
    <3> HIDE DEF D
    <3>1. \A k \in 1..n, p \in D : Cut(p, s[k], c) \in D
      BY <1>1, CutType DEF D
    <3> QED BY <3>1
  <2>2. base \in D
    <3> DEFINE U == Seq(S)
    <3>1. <<>> \in U
      OBVIOUS
    <3> HIDE DEF U
    <3>2. <<<<>>>> \in Seq(U) /\ Len(<<<<>>>>) = 1
      BY <3>1
    <3>3. <<<<>>>> # <<>>
      BY <3>2
    <3> QED BY <3>2, <3>3 DEF U, Parts
  <2> HIDE DEF D
  <2> QED BY <2>1, <2>2
<1>4. PICK f \in [SUBSET (1..n) -> D] : IsFold(f, n, base, step)
  <2> HIDE DEF step, D, base
  <2> QED BY <1>1, <1>3, FoldExists
<1>5. f = [T \in SUBSET DOMAIN s |->
            IF T = {} THEN <<<<>>>>
            ELSE Cut(f[T \ {Max(T)}], s[Max(T)], c)]
  <2>1. ASSUME NEW T \in SUBSET (1..n), T # {}
        PROVE  step[<<Max(T), f[T \ {Max(T)}]>>] = Cut(f[T \ {Max(T)}], s[Max(T)], c)
    <3>1. Max(T) \in 1..n /\ T \ {Max(T)} \in SUBSET (1..n)
      BY <1>1, <2>1, MaxIsLast
    <3>2. f[T \ {Max(T)}] \in D
      BY <1>4, <3>1
    <3> HIDE DEF D
    <3> QED BY <3>1, <3>2
  <2> HIDE DEF step, D
  <2>2. f = [T \in SUBSET (1..n) |-> IF T = {} THEN base
                                     ELSE Cut(f[T \ {Max(T)}], s[Max(T)], c)]
    BY <1>4, <2>1 DEF IsFold
  <2> QED BY <1>1, <2>2
<1>6. G = [T \in SUBSET DOMAIN s |->
            IF T = {} THEN <<<<>>>>
            ELSE Cut(G[T \ {Max(T)}], s[Max(T)], c)]
  <2> HIDE DEF step, D
  <2> QED BY <1>5
<1>7. ASSUME NEW g, g = [T \in SUBSET DOMAIN s |->
            IF T = {} THEN <<<<>>>>
            ELSE Cut(g[T \ {Max(T)}], s[Max(T)], c)]
      PROVE  /\ g[1..0] = <<<<>>>>
             /\ \A k \in 1..n : g[1..k] = Cut(g[1..(k - 1)], s[k], c)
  <2>1. g[1..0] = <<<<>>>>
    <3>1. 1..0 = {} /\ {} \in SUBSET DOMAIN s
      OBVIOUS
    <3> QED BY <1>7, <3>1
  <2>2. ASSUME NEW k \in 1..n PROVE g[1..k] = Cut(g[1..(k - 1)], s[k], c)
    <3> HIDE DEF n
    <3>1. /\ 1..k \in SUBSET DOMAIN s /\ 1..k # {}
          /\ Max(1..k) = k /\ (1..k) \ {k} = 1..(k - 1)
      BY <1>1, PrefixLast
    <3> QED BY <1>7, <3>1
  <2> QED BY <2>1, <2>2
<1> HIDE DEF G, step, D, n
<1> DEFINE h == [k \in 0..n |-> f[1..k]]
<1>8. Cuts(h, S, s, c)
  <2>1. \A k \in 0..n : 1..k \in SUBSET (1..n)
    BY <1>1
  <2>2. h \in [0..n -> D]
    BY <1>4, <2>1
  <2>3. f[1..0] = <<<<>>>> /\ \A k \in 1..n : f[1..k] = Cut(f[1..(k - 1)], s[k], c)
    BY <1>5, <1>7
  <2>4. 0 \in 0..n /\ \A k \in 1..n : k \in 0..n /\ k - 1 \in 0..n
    BY <1>1
  <2>5. h[0] = <<<<>>>> /\ \A k \in 1..n : h[k] = Cut(h[k - 1], s[k], c)
    BY <2>3, <2>4
  <2> HIDE DEF h
  <2> QED BY <2>2, <2>5 DEF Cuts, n, D
<1>9. G[1..n] = f[1..n]
  <2> DEFINE a == [k \in 0..n |-> G[1..k]]
             b == [k \in 0..n |-> f[1..k]]
  <2>1. 0 \in 0..n /\ n \in 0..n /\ \A k \in 1..n : k \in 0..n /\ k - 1 \in 0..n
    BY <1>1
  <2>2. a[0] = b[0]
    BY <1>5, <1>6, <1>7, <2>1
  <2>3. \A k \in 1..n : a[k - 1] = b[k - 1] => a[k] = b[k]
    <3>1. \A k \in 1..n : G[1..k] = Cut(G[1..(k - 1)], s[k], c)
      BY <1>6, <1>7
    <3>2. \A k \in 1..n : f[1..k] = Cut(f[1..(k - 1)], s[k], c)
      BY <1>5, <1>7
    <3> QED BY <2>1, <3>1, <3>2
  <2>4. a[n] = G[1..n] /\ b[n] = f[1..n]
    BY <2>1
  <2> HIDE DEF a, b
  <2> QED BY <1>1, <2>2, <2>3, <2>4, Agree
<1>10. h[n] = f[1..n]
  BY <1>1
<1> HIDE DEF h
<1> QED BY <1>2, <1>8, <1>9, <1>10 DEF n
Unescaping(S) == [parts : Parts(S), escaped : BOOLEAN]
LEMMA CutUnescapedType ==
  ASSUME NEW S, NEW a \in Unescaping(S), NEW x \in S, NEW c
  PROVE  CutUnescaped(a, x, c) \in Unescaping(S)
<1>1. a.parts \in Parts(S)
  BY DEF Unescaping
<1>2. /\ Append(a.parts, <<>>) \in Parts(S)
      /\ [a.parts EXCEPT ![Len(a.parts)] = Append(@, x)] \in Parts(S)
  BY <1>1, CutType
<1> QED BY <1>2 DEF CutUnescaped, Unescaping

CutsUnescaped(h, S, s, c) ==
    /\ h \in [0..Len(s) -> Unescaping(S)]
    /\ h[0] = [parts |-> <<<<>>>>, escaped |-> FALSE]
    /\ \A k \in 1..Len(s) : h[k] = CutUnescaped(h[k - 1], s[k], c)

LEMMA SplitUnescapedCuts ==
  ASSUME NEW S, NEW s \in Seq(S), NEW c
  PROVE  \E h : CutsUnescaped(h, S, s, c) /\ SplitUnescaped(s, c) = h[Len(s)].parts
<1> DEFINE n == Len(s)
           D == Unescaping(S)
           base == [parts |-> <<<<>>>>, escaped |-> FALSE]
           step == [x \in (1..n) \X D |-> CutUnescaped(x[2], s[x[1]], c)]
           G == CHOOSE f : f = [T \in SUBSET DOMAIN s |->
                    IF T = {} THEN [parts |-> <<<<>>>>, escaped |-> FALSE]
                    ELSE CutUnescaped(f[T \ {Max(T)}], s[Max(T)], c)]
<1>1. n \in Nat /\ DOMAIN s = 1..n /\ \A k \in 1..n : s[k] \in S
  OBVIOUS
<1>2. SplitUnescaped(s, c) = G[1..n].parts
  BY <1>1 DEF SplitUnescaped, FoldLeft, MapThenFoldSet, CutUnescaped
<1>3. step \in [(1..n) \X D -> D] /\ base \in D
  <2>1. \A x \in (1..n) \X D : CutUnescaped(x[2], s[x[1]], c) \in D
    <3> HIDE DEF D
    <3>1. \A k \in 1..n, p \in D : CutUnescaped(p, s[k], c) \in D
      BY <1>1, CutUnescapedType DEF D
    <3> QED BY <3>1
  <2>2. base \in D
    <3> DEFINE U == Seq(S)
    <3>1. <<>> \in U
      OBVIOUS
    <3> HIDE DEF U
    <3>2. <<<<>>>> \in Seq(U) /\ Len(<<<<>>>>) = 1
      BY <3>1
    <3>3. <<<<>>>> # <<>>
      BY <3>2
    <3> QED BY <3>2, <3>3 DEF U, Parts, Unescaping
  <2> HIDE DEF D
  <2> QED BY <2>1, <2>2
<1>4. PICK f \in [SUBSET (1..n) -> D] : IsFold(f, n, base, step)
  <2> HIDE DEF step, D, base
  <2> QED BY <1>1, <1>3, FoldExists
<1>5. f = [T \in SUBSET DOMAIN s |->
            IF T = {} THEN [parts |-> <<<<>>>>, escaped |-> FALSE]
            ELSE CutUnescaped(f[T \ {Max(T)}], s[Max(T)], c)]
  <2>1. ASSUME NEW T \in SUBSET (1..n), T # {}
        PROVE  step[<<Max(T), f[T \ {Max(T)}]>>] = CutUnescaped(f[T \ {Max(T)}], s[Max(T)], c)
    <3>1. Max(T) \in 1..n /\ T \ {Max(T)} \in SUBSET (1..n)
      BY <1>1, <2>1, MaxIsLast
    <3>2. f[T \ {Max(T)}] \in D
      BY <1>4, <3>1
    <3> HIDE DEF D
    <3> QED BY <3>1, <3>2
  <2> HIDE DEF step, D
  <2>2. f = [T \in SUBSET (1..n) |-> IF T = {} THEN base
                                     ELSE CutUnescaped(f[T \ {Max(T)}], s[Max(T)], c)]
    BY <1>4, <2>1 DEF IsFold
  <2> QED BY <1>1, <2>2
<1>6. G = [T \in SUBSET DOMAIN s |->
            IF T = {} THEN [parts |-> <<<<>>>>, escaped |-> FALSE]
            ELSE CutUnescaped(G[T \ {Max(T)}], s[Max(T)], c)]
  <2> HIDE DEF step, D
  <2> QED BY <1>5
<1>7. ASSUME NEW g, g = [T \in SUBSET DOMAIN s |->
            IF T = {} THEN [parts |-> <<<<>>>>, escaped |-> FALSE]
            ELSE CutUnescaped(g[T \ {Max(T)}], s[Max(T)], c)]
      PROVE  /\ g[1..0] = [parts |-> <<<<>>>>, escaped |-> FALSE]
             /\ \A k \in 1..n : g[1..k] = CutUnescaped(g[1..(k - 1)], s[k], c)
  <2>1. g[1..0] = [parts |-> <<<<>>>>, escaped |-> FALSE]
    <3>1. 1..0 = {} /\ {} \in SUBSET DOMAIN s
      OBVIOUS
    <3> QED BY <1>7, <3>1
  <2>2. ASSUME NEW k \in 1..n PROVE g[1..k] = CutUnescaped(g[1..(k - 1)], s[k], c)
    <3> HIDE DEF n
    <3>1. /\ 1..k \in SUBSET DOMAIN s /\ 1..k # {}
          /\ Max(1..k) = k /\ (1..k) \ {k} = 1..(k - 1)
      BY <1>1, PrefixLast
    <3> QED BY <1>7, <3>1
  <2> QED BY <2>1, <2>2
<1> HIDE DEF G, step, D, n
<1> DEFINE h == [k \in 0..n |-> f[1..k]]
<1>8. CutsUnescaped(h, S, s, c)
  <2>1. \A k \in 0..n : 1..k \in SUBSET (1..n)
    BY <1>1
  <2>2. h \in [0..n -> D]
    BY <1>4, <2>1
  <2>3. f[1..0] = [parts |-> <<<<>>>>, escaped |-> FALSE] /\ \A k \in 1..n : f[1..k] = CutUnescaped(f[1..(k - 1)], s[k], c)
    BY <1>5, <1>7
  <2>4. 0 \in 0..n /\ \A k \in 1..n : k \in 0..n /\ k - 1 \in 0..n
    BY <1>1
  <2>5. h[0] = [parts |-> <<<<>>>>, escaped |-> FALSE] /\ \A k \in 1..n : h[k] = CutUnescaped(h[k - 1], s[k], c)
    BY <2>3, <2>4
  <2> HIDE DEF h
  <2> QED BY <2>2, <2>5 DEF CutsUnescaped, n, D
<1>9. G[1..n] = f[1..n]
  <2> DEFINE a == [k \in 0..n |-> G[1..k]]
             b == [k \in 0..n |-> f[1..k]]
  <2>1. 0 \in 0..n /\ n \in 0..n /\ \A k \in 1..n : k \in 0..n /\ k - 1 \in 0..n
    BY <1>1
  <2>2. a[0] = b[0]
    BY <1>5, <1>6, <1>7, <2>1
  <2>3. \A k \in 1..n : a[k - 1] = b[k - 1] => a[k] = b[k]
    <3>1. \A k \in 1..n : G[1..k] = CutUnescaped(G[1..(k - 1)], s[k], c)
      BY <1>6, <1>7
    <3>2. \A k \in 1..n : f[1..k] = CutUnescaped(f[1..(k - 1)], s[k], c)
      BY <1>5, <1>7
    <3> QED BY <2>1, <3>1, <3>2
  <2>4. a[n] = G[1..n] /\ b[n] = f[1..n]
    BY <2>1
  <2> HIDE DEF a, b
  <2> QED BY <1>1, <2>2, <2>3, <2>4, Agree
<1>10. h[n] = f[1..n]
  BY <1>1
<1> HIDE DEF h
<1> QED BY <1>2, <1>8, <1>9, <1>10 DEF n
\* The parts are sequences without the separator, one at least.
LEMMA SplitType ==
  ASSUME NEW S, NEW s \in Seq(S), NEW c
  PROVE  Split(s, c) \in Parts(S \ {c})
<1> DEFINE n == Len(s)
           D == Parts(S \ {c})
<1>1. n \in Nat /\ n \in 0..n /\ \A k \in 1..n : s[k] \in S
  OBVIOUS
<1>2. PICK h : Cuts(h, S, s, c) /\ Split(s, c) = h[n]
  BY SplitCuts
<1> HIDE DEF n
<1> DEFINE K == {k \in 0..n : h[k] \in D}
<1>3. 0 \in K
  <2>1. <<<<>>>> \in D
    <3> DEFINE U == Seq(S \ {c})
    <3>1. <<>> \in U
      OBVIOUS
    <3> HIDE DEF U
    <3>2. <<<<>>>> \in Seq(U) /\ Len(<<<<>>>>) = 1
      BY <3>1
    <3>3. <<<<>>>> # <<>>
      BY <3>2
    <3> QED BY <3>2, <3>3 DEF U, Parts
  <2>2. h[0] = <<<<>>>> /\ 0 \in 0..n
    BY <1>1, <1>2 DEF Cuts
  <2> HIDE DEF D
  <2> QED BY <2>1, <2>2
<1>4. ASSUME NEW k \in 1..n, h[k - 1] \in D PROVE h[k] \in D
  <2>1. h[k] = Cut(h[k - 1], s[k], c)
    BY <1>2 DEF Cuts, n
  <2>2. CASE s[k] = c
    <3>1. Append(h[k - 1], <<>>) \in D
      <4> DEFINE U == Seq(S \ {c})
      <4>1. <<>> \in U
        OBVIOUS
      <4>2. h[k - 1] \in Seq(U) \ {<<>>}
        BY <1>4 DEF Parts
      <4> HIDE DEF U
      <4>3. Append(h[k - 1], <<>>) \in Seq(U) \ {<<>>}
        BY <4>1, <4>2, AppendType
      <4> QED BY <4>3 DEF U, Parts
    <3> QED BY <2>1, <2>2, <3>1 DEF Cut
  <2>3. CASE s[k] # c
    <3>1. s[k] \in S \ {c}
      BY <1>1, <2>3
    <3> QED BY <1>4, <2>1, <3>1, CutType
  <2> QED BY <2>2, <2>3
<1>5. \A k \in 1..n : k \in 0..n
  BY <1>1
<1> HIDE DEF D
<1>6. \A k \in 1..n : k - 1 \in K => k \in K
  BY <1>4, <1>5
<1> HIDE DEF K
<1>7. n \in K
  BY <1>1, <1>3, <1>6, Climb
<1> QED BY <1>2, <1>7 DEF K, D

LEMMA SplitUnescapedType ==
  ASSUME NEW S, NEW s \in Seq(S), NEW c
  PROVE  SplitUnescaped(s, c) \in Parts(S)
<1>1. PICK h : CutsUnescaped(h, S, s, c) /\ SplitUnescaped(s, c) = h[Len(s)].parts
  BY SplitUnescapedCuts
<1>2. Len(s) \in 0..Len(s)
  OBVIOUS
<1>3. h[Len(s)] \in Unescaping(S)
  BY <1>1, <1>2 DEF CutsUnescaped
<1> QED BY <1>1, <1>3 DEF Unescaping

\* Sequences of sequences, element by element.
LEMMA PartsFacts ==
  ASSUME NEW S, NEW p \in Parts(S)
  PROVE  /\ Len(p) \in Nat \ {0} /\ DOMAIN p = 1..Len(p) /\ p \in Seq(Seq(S))
         /\ \A i \in 1..Len(p) : p[i] \in Seq(S)
<1> DEFINE U == Seq(S)
<1>1. p \in Seq(U) /\ p # <<>>
  BY DEF Parts
<1> HIDE DEF U
<1>2. Len(p) \in Nat /\ DOMAIN p = 1..Len(p) /\ \A i \in 1..Len(p) : p[i] \in U
  BY <1>1
<1>3. Len(p) # 0
  BY <1>1
<1> QED BY <1>1, <1>2, <1>3 DEF U

LEMMA PartsSeq ==
  ASSUME NEW S, NEW n \in Nat \ {0}, NEW p, p = [i \in 1..n |-> p[i]],
         \A i \in 1..n : p[i] \in Seq(S)
  PROVE  p \in Parts(S) /\ Len(p) = n
<1> DEFINE U == Seq(S)
<1>1. \A i \in 1..n : p[i] \in U
  OBVIOUS
<1> HIDE DEF U
<1>2. p \in Seq(U) /\ Len(p) = n
  BY <1>1
<1>3. p # <<>>
  BY <1>2
<1> QED BY <1>2, <1>3 DEF Parts, U
----------------------------------------------------------------------------
(* Joining *)

LEMMA JoinType ==
  ASSUME NEW S, NEW c \in S, NEW p \in Parts(S)
  PROVE  Join(p, c) \in Seq(S)
<1> DEFINE q == [i \in DOMAIN p |-> IF i = 1 THEN p[1] ELSE <<c>> \o p[i]]
           n == Len(p)
<1>1. n \in Nat \ {0} /\ DOMAIN p = 1..n /\ \A i \in 1..n : p[i] \in Seq(S)
  BY PartsFacts
<1>2. \A i \in 1..n : (IF i = 1 THEN p[1] ELSE <<c>> \o p[i]) \in Seq(S)
  <2>1. \A x \in Seq(S) : <<c>> \o x \in Seq(S)
    OBVIOUS
  <2> QED BY <1>1, <2>1
<1>3. q \in Seq(Seq(S))
  <2> DEFINE U == Seq(S)
  <2> HIDE DEF U, n
  <2>1. \A i \in 1..n : (IF i = 1 THEN p[1] ELSE <<c>> \o p[i]) \in U
    BY <1>2 DEF U
  <2>2. q \in Seq(U)
    BY <1>1, <2>1
  <2> QED BY <2>2 DEF U
<1> HIDE DEF q
<1>4. FlattenSeq(q) \in Seq(S)
  BY <1>3, FlattenType
<1> QED BY <1>4 DEF Join, q
LEMMA JoinOne ==
  ASSUME NEW S, NEW x \in Seq(S), NEW c
  PROVE  Join(<<x>>, c) = x
<1> DEFINE p == <<x>>
           q == [i \in DOMAIN p |-> IF i = 1 THEN p[1] ELSE <<c>> \o p[i]]
           U == Seq(S)
<1>1. x \in U
  OBVIOUS
<1> HIDE DEF U
<1>2. p \in Seq(U) /\ DOMAIN p = 1..1 /\ p[1] = x
  BY <1>1
<1>3. q = <<x>>
  <2>1. q = [i \in 1..1 |-> x]
    BY <1>2
  <2>2. <<x>> = [i \in 1..1 |-> x]
    OBVIOUS
  <2> QED BY <2>1, <2>2
<1>4. Append(<<>>, x) = <<x>>
  OBVIOUS
<1>5. FlattenSeq(Append(<<>>, x)) = FlattenSeq(<<>>) \o x
  <2>1. <<>> \in Seq(Seq(S))
    OBVIOUS
  <2> QED BY <2>1, FlattenSnoc
<1>6. <<>> \o x = x
  OBVIOUS
<1>7. FlattenSeq(<<x>>) = x
  BY <1>4, <1>5, <1>6, FlattenEmpty, SMTT(60)
<1> QED BY <1>3, <1>7 DEF Join

LEMMA JoinSnoc ==
  ASSUME NEW S, NEW c, NEW p \in Parts(S), NEW x \in Seq(S)
  PROVE  Join(Append(p, x), c) = Join(p, c) \o (<<c>> \o x)
<1> DEFINE T == S \cup {c}
           U == Seq(T)
           n == Len(p)
           q == [i \in DOMAIN p |-> IF i = 1 THEN p[1] ELSE <<c>> \o p[i]]
           r == [i \in DOMAIN Append(p, x) |->
                    IF i = 1 THEN Append(p, x)[1] ELSE <<c>> \o Append(p, x)[i]]
<1>1. n \in Nat \ {0} /\ DOMAIN p = 1..n /\ (\A i \in 1..n : p[i] \in Seq(S)) /\ p \in Seq(Seq(S))
  BY PartsFacts
<1>2. /\ \A y \in Seq(S) : y \in U /\ <<c>> \o y \in U
      /\ <<c>> \o x \in U
  OBVIOUS
<1>3. /\ DOMAIN Append(p, x) = 1..(n + 1) /\ Append(p, x)[n + 1] = x
      /\ \A i \in 1..n : Append(p, x)[i] = p[i]
  <2> DEFINE V == Seq(S)
  <2>1. p \in Seq(V) /\ x \in V
    BY <1>1
  <2> HIDE DEF V
  <2> QED BY <2>1
<1> HIDE DEF U, n
<1>4. q \in Seq(U) /\ Len(q) = n
  <2>1. \A i \in 1..n : (IF i = 1 THEN p[1] ELSE <<c>> \o p[i]) \in U
    BY <1>1, <1>2
  <2>2. q = [i \in 1..n |-> q[i]] /\ \A i \in 1..n : q[i] \in U
    BY <1>1, <2>1
  <2> HIDE DEF q
  <2> QED BY <1>1, <2>2, SeqIs
<1>5. r = Append(q, <<c>> \o x)
  <2>1. r = [i \in 1..(n + 1) |-> IF i = n + 1 THEN <<c>> \o x
                                 ELSE IF i = 1 THEN p[1] ELSE <<c>> \o p[i]]
    <3>1. \A i \in 1..(n + 1) : i # n + 1 => i \in 1..n
      BY <1>1
    <3>2. n + 1 # 1 /\ 1 \in 1..n
      BY <1>1
    <3>3. \A i \in 1..(n + 1) :
            (IF i = 1 THEN Append(p, x)[1] ELSE <<c>> \o Append(p, x)[i])
              = (IF i = n + 1 THEN <<c>> \o x ELSE IF i = 1 THEN p[1] ELSE <<c>> \o p[i])
      BY <1>3, <3>1, <3>2
    <3> QED BY <1>3, <3>3
  <2>2. Append(q, <<c>> \o x) = [i \in 1..(n + 1) |-> IF i = n + 1 THEN <<c>> \o x ELSE q[i]]
    <3> DEFINE y == <<c>> \o x
    <3>1. y \in U
      BY <1>2
    <3> HIDE DEF y, q
    <3> QED BY <1>1, <1>4, <3>1
  <2>3. \A i \in 1..(n + 1) : i # n + 1 =>
            i \in 1..n /\ q[i] = IF i = 1 THEN p[1] ELSE <<c>> \o p[i]
    BY <1>1
  <2> HIDE DEF q, r
  <2> QED BY <2>1, <2>2, <2>3
<1>6. FlattenSeq(Append(q, <<c>> \o x)) = FlattenSeq(q) \o (<<c>> \o x)
  <2>1. q \in Seq(Seq(T)) /\ <<c>> \o x \in Seq(T)
    BY <1>2, <1>4 DEF U
  <2> HIDE DEF q, T
  <2> QED BY <2>1, FlattenSnoc
<1> HIDE DEF q, r
<1> QED BY <1>5, <1>6 DEF Join, q, r

\* Without the separator there is nothing to split.
LEMMA SplitNone ==
  ASSUME NEW S, NEW c, NEW s \in Seq(S \ {c})
  PROVE  Split(s, c) = <<s>>
<1> DEFINE n == Len(s)
           R == S \ {c}
<1>1. n \in Nat /\ \A k \in 1..n : s[k] \in R /\ s[k] # c
  OBVIOUS
<1>2. PICK h : Cuts(h, R, s, c) /\ Split(s, c) = h[n]
  BY SplitCuts
<1> HIDE DEF n
<1> DEFINE K == {k \in 0..n : h[k] = <<SubSeq(s, 1, k)>>}
<1>3. 0 \in K
  <2>1. SubSeq(s, 1, 0) = <<>> /\ 0 \in 0..n
    BY <1>1
  <2> QED BY <1>2, <2>1 DEF Cuts
<1>4. ASSUME NEW k \in 1..n, k - 1 \in K PROVE k \in K
  <2>1. h[k] = [h[k - 1] EXCEPT ![Len(h[k - 1])] = Append(@, s[k])]
    BY <1>1, <1>2 DEF Cuts, Cut, n
  <2>2. h[k - 1] = <<SubSeq(s, 1, k - 1)>>
    BY <1>4
  <2>3. Append(SubSeq(s, 1, k - 1), s[k]) = SubSeq(s, 1, k)
    BY <1>1 DEF n
  <2>4. \A x, y : [<<x>> EXCEPT ![Len(<<x>>)] = y] = <<y>>
    OBVIOUS
  <2>5. h[k] = <<SubSeq(s, 1, k)>>
    <3> DEFINE x == SubSeq(s, 1, k - 1)
    <3>1. [<<x>> EXCEPT ![Len(<<x>>)] = Append(<<x>>[Len(<<x>>)], s[k])] = <<Append(<<x>>[Len(<<x>>)], s[k])>>
      <4> HIDE DEF x
      <4> QED BY <2>4
    <3>2. <<x>>[Len(<<x>>)] = x
      <4> HIDE DEF x
      <4> QED OBVIOUS
    <3> QED BY <2>1, <2>2, <2>3, <3>1, <3>2
  <2>6. k \in 0..n
    BY <1>1
  <2> QED BY <2>5, <2>6
<1> HIDE DEF K
<1>5. n \in K
  <2>1. n \in 0..n
    BY <1>1
  <2> QED BY <1>1, <1>3, <1>4, <2>1, Climb
<1>6. SubSeq(s, 1, n) = s
  BY DEF n
<1> QED BY <1>2, <1>5, <1>6 DEF K

\* The parts of a concatenation around a separator.
LEMMA CutAfter ==
  ASSUME NEW S, NEW p \in Parts(S), NEW q \in Parts(S), NEW x \in S, NEW c
  PROVE  Cut(p \o q, x, c) = p \o Cut(q, x, c)
<1> DEFINE U == Seq(S)
           m == Len(p)
           n == Len(q)
<1>1. /\ m \in Nat \ {0} /\ n \in Nat \ {0} /\ p \in Seq(U) /\ q \in Seq(U)
      /\ q[n] \in U /\ <<>> \in U /\ Append(q[n], x) \in U
  <2>1. q[n] \in U
    <3>1. Len(q) \in 1..Len(q)
      BY PartsFacts
    <3> QED BY <3>1, PartsFacts
  <2> QED BY <2>1, PartsFacts
<1> DEFINE y == Append(q[n], x)
<1> HIDE DEF U, m, n, y
<1>2. p \o q \in Seq(U) /\ Len(p \o q) = m + n /\ (p \o q)[m + n] = q[n]
  BY <1>1 DEF m, n
<1>3. Append(p \o q, <<>>) = p \o Append(q, <<>>)
  BY <1>1
<1>4. [p \o q EXCEPT ![m + n] = y] = p \o [q EXCEPT ![n] = y]
  <2>1. y \in U
    BY <1>1 DEF y
  <2> DEFINE r == [q EXCEPT ![n] = y]
  <2>2. r \in Seq(U) /\ Len(r) = n /\ \A i \in 1..n : r[i] = IF i = n THEN y ELSE q[i]
    BY <1>1, <2>1 DEF n
  <2> HIDE DEF r
  <2>3. /\ p \o r \in Seq(U) /\ Len(p \o r) = m + n
        /\ \A i \in 1..m : (p \o r)[i] = p[i]
        /\ \A i \in 1..n : (p \o r)[m + i] = r[i]
    <3>1. p \in Seq(U) /\ r \in Seq(U) /\ Len(p) = m /\ Len(r) = n
      BY <1>1, <2>2 DEF m
    <3> HIDE DEF m, n
    <3>2. /\ p \o r \in Seq(U) /\ Len(p \o r) = Len(p) + Len(r)
          /\ \A i \in 1..Len(p) : (p \o r)[i] = p[i]
          /\ \A i \in 1..Len(r) : (p \o r)[Len(p) + i] = r[i]
      <4>1. ASSUME NEW f \in Seq(U), NEW g \in Seq(U)
            PROVE  /\ f \o g \in Seq(U) /\ Len(f \o g) = Len(f) + Len(g)
                   /\ \A i \in 1..Len(f) : (f \o g)[i] = f[i]
                   /\ \A i \in 1..Len(g) : (f \o g)[Len(f) + i] = g[i]
        BY ConcatIs
      <4> QED BY <3>1, <4>1
    <3> QED BY <3>1, <3>2
  <2>4. /\ p \o q \in Seq(U) /\ Len(p \o q) = m + n
        /\ \A i \in 1..m : (p \o q)[i] = p[i]
        /\ \A i \in 1..n : (p \o q)[m + i] = q[i]
    BY <1>1, ConcatIs DEF m, n
  <2> DEFINE v == [p \o q EXCEPT ![m + n] = y]
             w == p \o q
             z == p \o r
  <2>5. v \in Seq(U) /\ Len(v) = m + n
        /\ \A i \in 1..(m + n) : v[i] = IF i = m + n THEN y ELSE w[i]
    <3>1. w \in Seq(U) /\ Len(w) = m + n /\ m + n \in 1..(m + n)
      BY <1>1, <2>4
    <3> HIDE DEF w
    <3>2. /\ [w EXCEPT ![m + n] = y] \in Seq(U) /\ Len([w EXCEPT ![m + n] = y]) = Len(w)
          /\ \A i \in 1..Len(w) : [w EXCEPT ![m + n] = y][i] = IF i = m + n THEN y ELSE w[i]
      <4> DEFINE k == m + n
      <4>1. k \in 1..Len(w)
        BY <3>1
      <4> HIDE DEF k
      <4>2. /\ [w EXCEPT ![k] = y] \in Seq(U) /\ Len([w EXCEPT ![k] = y]) = Len(w)
            /\ \A i \in 1..Len(w) : [w EXCEPT ![k] = y][i] = IF i = k THEN y ELSE w[i]
        BY <2>1, <3>1, <4>1, ExceptIs
      <4> QED BY <4>2 DEF k
    <3> QED BY <3>1, <3>2 DEF w
  <2> HIDE DEF v, w, z
  <2>6. ASSUME NEW i \in 1..(m + n) PROVE v[i] = z[i]
    <3>1. CASE i \in 1..m
      <4>1. i # m + n
        BY <1>1, <3>1
      <4> QED BY <2>3, <2>4, <2>5, <3>1, <4>1 DEF w, z
    <3>2. CASE i \notin 1..m
      <4>1. i - m \in 1..n /\ m + (i - m) = i /\ (i = m + n <=> i - m = n)
        BY <1>1, <3>2
      <4>2. z[i] = r[i - m] /\ w[i] = q[i - m]
        BY <2>3, <2>4, <4>1 DEF w, z
      <4>3. v[i] = IF i - m = n THEN y ELSE q[i - m]
        BY <2>5, <4>1, <4>2
      <4> QED BY <2>2, <4>1, <4>2, <4>3
    <3> QED BY <3>1, <3>2
  <2>7. v = z
    <3>1. z \in Seq(U) /\ Len(z) = m + n
      BY <2>3 DEF z
    <3> QED BY <2>5, <2>6, <3>1, SameSeq
  <2> QED BY <2>7 DEF v, z, r
<1> QED BY <1>2, <1>3, <1>4 DEF Cut, n, y

LEMMA SplitConcat ==
  ASSUME NEW S, NEW c \in S, NEW a \in Seq(S), NEW b \in Seq(S)
  PROVE  Split(a \o (<<c>> \o b), c) = Split(a, c) \o Split(b, c)
<1> DEFINE m == Len(a)
           n == Len(b)
           t == a \o (<<c>> \o b)
<1>1. /\ m \in Nat /\ n \in Nat /\ t \in Seq(S) /\ Len(t) = m + 1 + n
      /\ \A i \in 1..m : t[i] = a[i]
      /\ t[m + 1] = c
      /\ \A i \in 1..n : t[m + 1 + i] = b[i]
      /\ \A i \in 1..n : b[i] \in S
  OBVIOUS
<1>2. PICK f : Cuts(f, S, a, c) /\ Split(a, c) = f[m]
  BY SplitCuts
<1>3. PICK g : Cuts(g, S, b, c) /\ Split(b, c) = g[n]
  BY SplitCuts
<1> HIDE DEF t
<1>4. PICK h : Cuts(h, S, t, c) /\ Split(t, c) = h[Len(t)]
  BY <1>1, SplitCuts, ZenonT(60)
<1>5. /\ f[0] = <<<<>>>> /\ \A k \in 1..m : f[k] = Cut(f[k - 1], a[k], c)
      /\ f \in [0..m -> Parts(S)]
  BY <1>2 DEF Cuts
<1>6. /\ g[0] = <<<<>>>> /\ \A k \in 1..n : g[k] = Cut(g[k - 1], b[k], c)
      /\ g \in [0..n -> Parts(S)]
  BY <1>3 DEF Cuts
<1>7. h[0] = <<<<>>>> /\ \A k \in 1..(m + 1 + n) : h[k] = Cut(h[k - 1], t[k], c)
  BY <1>1, <1>4 DEF Cuts
<1> HIDE DEF m, n
<1>8. h[m] = f[m]
  <2>1. \A k \in 1..m : k \in 1..(m + 1 + n)
    BY <1>1
  <2>2. \A k \in 1..m : h[k - 1] = f[k - 1] => h[k] = f[k]
    BY <1>1, <1>5, <1>7, <2>1
  <2>3. h[0] = f[0] /\ m \in Nat
    BY <1>1, <1>5, <1>7
  <2> QED BY <2>2, <2>3, Agree
<1>9. f[m] \in Parts(S)
  <2>1. m \in 0..m
    BY <1>1
  <2> QED BY <1>5, <2>1
<1>10. h[m + 1] = f[m] \o <<<<>>>>
  <2>1. m + 1 \in 1..(m + 1 + n) /\ (m + 1) - 1 = m
    <3>1. m \in Nat /\ n \in Nat
      BY <1>1
    <3> QED BY <3>1
  <2>2. h[m + 1] = Append(f[m], <<>>)
    <3>1. h[m + 1] = Cut(h[(m + 1) - 1], t[m + 1], c)
      BY <1>7, <2>1
    <3> QED BY <1>1, <1>8, <2>1, <3>1 DEF Cut
  <2>3. \A U : \A p \in Seq(U) : \A u \in U : Append(p, u) = p \o <<u>>
    OBVIOUS
  <2>4. f[m] \in Seq(Seq(S)) /\ <<>> \in Seq(S)
    BY <1>9, PartsFacts
  <2>5. Append(f[m], <<>>) = f[m] \o <<<<>>>>
    BY <2>3, <2>4
  <2> QED BY <2>2, <2>5
<1> DEFINE K == {k \in 0..n : h[m + 1 + k] = f[m] \o g[k]}
<1>11. 0 \in K
  <2>1. 0 \in 0..n /\ m + 1 + 0 = m + 1
    BY <1>1
  <2> QED BY <1>6, <1>10, <2>1
<1>12. ASSUME NEW k \in 1..n, k - 1 \in K PROVE k \in K
  <2>1. /\ m + 1 + k \in 1..(m + 1 + n) /\ (m + 1 + k) - 1 = m + 1 + (k - 1)
        /\ k \in 0..n /\ k - 1 \in 0..n
    BY <1>1
  <2>2. h[m + 1 + k] = Cut(h[m + 1 + (k - 1)], b[k], c)
    BY <1>1, <1>7, <2>1
  <2>3. h[m + 1 + (k - 1)] = f[m] \o g[k - 1]
    BY <1>12
  <2>4. g[k - 1] \in Parts(S) /\ b[k] \in S
    BY <1>1, <1>6, <2>1
  <2>5. Cut(f[m] \o g[k - 1], b[k], c) = f[m] \o Cut(g[k - 1], b[k], c)
    <3> DEFINE u == g[k - 1]
               v == f[m]
               x == b[k]
    <3>1. u \in Parts(S) /\ v \in Parts(S) /\ x \in S
      BY <1>9, <2>4
    <3> HIDE DEF u, v, x
    <3>2. Cut(v \o u, x, c) = v \o Cut(u, x, c)
      BY <3>1, CutAfter
    <3> QED BY <3>2 DEF u, v, x
  <2> QED BY <1>6, <2>1, <2>2, <2>3, <2>5
<1> HIDE DEF K
<1>13. n \in K
  <2>1. n \in 0..n
    BY <1>1
  <2> QED BY <1>1, <1>11, <1>12, <2>1, Climb
<1> QED BY <1>1, <1>2, <1>3, <1>4, <1>13 DEF K, t

\* What is joined from parts without the separator splits into those parts.
LEMMA SplitJoin ==
  ASSUME NEW S, NEW c \in S, NEW p \in Parts(S \ {c})
  PROVE  Split(Join(p, c), c) = p
<1> DEFINE n == Len(p)
           R == S \ {c}
           U == Seq(R)
           K == {k \in 0..n : k = 0 \/ Split(Join(SubSeq(p, 1, k), c), c) = SubSeq(p, 1, k)}
<1>1. /\ n \in Nat \ {0} /\ p \in Seq(U) /\ \A k \in 1..n : p[k] \in U
      /\ n \in 0..n /\ 0 \in 0..n /\ SubSeq(p, 1, n) = p
  <2>1. n \in Nat \ {0} /\ p \in Seq(U) /\ \A k \in 1..n : p[k] \in U
    BY PartsFacts
  <2> HIDE DEF U
  <2> QED BY <2>1
<1> HIDE DEF n
<1>2. 0 \in K
  BY <1>1
<1>3. ASSUME NEW k \in 1..n, k - 1 \in K PROVE k \in K
  <2> DEFINE q == SubSeq(p, 1, k - 1)
  <2>1. k \in 0..n /\ k - 1 \in Nat
    BY <1>1
  <2>2. CASE k = 1
    <3>1. SubSeq(p, 1, 1) = <<p[1]>> /\ p[1] \in Seq(R)
      <4>1. SubSeq(p, 1, 1) = <<p[1]>>
        <5> HIDE DEF U
        <5>1. p \in Seq(U) /\ 1 \in 1..Len(p)
          BY <1>1, <2>2 DEF n
        <5> QED BY <5>1, FirstIs
      <4> QED BY <1>1, <2>2, <4>1
    <3>2. Join(<<p[1]>>, c) = p[1]
      BY <3>1, JoinOne
    <3>3. Split(p[1], c) = <<p[1]>>
      BY <3>1, SplitNone
    <3> QED BY <2>1, <2>2, <3>1, <3>2, <3>3
  <2>3. CASE k # 1
    <3>1. q \in Parts(R) /\ SubSeq(p, 1, k) = Append(q, p[k])
      <4> HIDE DEF U
      <4>1. q \in Seq(U) /\ Len(q) = k - 1 /\ k - 1 # 0 /\ SubSeq(p, 1, k) = Append(q, p[k])
        BY <1>1, <2>1, <2>3 DEF n
      <4>2. q # <<>>
        <5> HIDE DEF q
        <5> QED BY <4>1
      <4> QED BY <4>1, <4>2 DEF Parts, U
    <3>2. Split(Join(q, c), c) = q
      BY <1>3, <2>1, <2>3
    <3> HIDE DEF q
    <3>3. p[k] \in Seq(R)
      BY <1>1
    <3>4. Join(Append(q, p[k]), c) = Join(q, c) \o (<<c>> \o p[k])
      BY <3>1, <3>3, JoinSnoc, ZenonT(60)
    <3>5. Join(q, c) \in Seq(S) /\ p[k] \in Seq(S)
      <4>1. \A x \in Seq(R) : x \in Seq(S)
        OBVIOUS
      <4>2. q \in Parts(S)
        <5>1. \A i \in 1..Len(q) : q[i] \in Seq(S)
          BY <3>1, <4>1, PartsFacts
        <5>2. q = [i \in 1..Len(q) |-> q[i]] /\ Len(q) \in Nat \ {0}
          <6>1. q \in Seq(U) /\ Len(q) \in Nat \ {0}
            BY <3>1, PartsFacts
          <6> HIDE DEF U
          <6> QED BY <6>1
        <5> QED BY <5>1, <5>2, PartsSeq
      <4> QED BY <3>3, <4>1, <4>2, JoinType
    <3>6. Split(Join(q, c) \o (<<c>> \o p[k]), c) = q \o <<p[k]>>
      <4>1. Split(p[k], c) = <<p[k]>>
        BY <3>3, SplitNone
      <4>2. Split(Join(q, c) \o (<<c>> \o p[k]), c) = Split(Join(q, c), c) \o Split(p[k], c)
        BY <3>5, SplitConcat
      <4> QED BY <3>2, <4>1, <4>2
    <3>7. q \o <<p[k]>> = Append(q, p[k])
      <4>1. q \in Seq(U) /\ p[k] \in U
        BY <1>1, <3>1, PartsFacts
      <4> HIDE DEF U
      <4> QED BY <4>1
    <3> QED BY <2>1, <3>1, <3>4, <3>6, <3>7
  <2> QED BY <2>2, <2>3
<1> HIDE DEF K
<1>4. n \in K
  BY <1>1, <1>2, <1>3, Climb
<1> QED BY <1>1, <1>4 DEF K
----------------------------------------------------------------------------
(* At one separator *)

\* A sequence around one of its positions.
LEMMA Around ==
  ASSUME NEW S, NEW s \in Seq(S), NEW i \in 1..Len(s)
  PROVE  /\ SubSeq(s, 1, i - 1) \in Seq(S) /\ SubSeq(s, i + 1, Len(s)) \in Seq(S)
         /\ Len(SubSeq(s, 1, i - 1)) = i - 1 /\ Len(SubSeq(s, i + 1, Len(s))) = Len(s) - i
         /\ \A k \in 1..(i - 1) : SubSeq(s, 1, i - 1)[k] = s[k]
         /\ \A k \in 1..(Len(s) - i) : SubSeq(s, i + 1, Len(s))[k] = s[i + k]
         /\ s = SubSeq(s, 1, i - 1) \o (<<s[i]>> \o SubSeq(s, i + 1, Len(s)))
<1> DEFINE a == SubSeq(s, 1, i - 1)
           b == SubSeq(s, i + 1, Len(s))
<1>1. a \in Seq(S) /\ Len(a) = i - 1 /\ \A k \in 1..(i - 1) : a[k] = s[k]
  OBVIOUS
<1>2. b \in Seq(S) /\ Len(b) = Len(s) - i
      /\ \A k \in 1..(Len(s) - i) : b[k] = s[i + k]
  OBVIOUS
<1>3. s = a \o (<<s[i]>> \o b)
  <2> DEFINE n == Len(s)
             x == s[i]
             t == a \o (<<x>> \o b)
  <2> HIDE DEF a, b, x
  <2>1. n \in Nat /\ i \in 1..n /\ x \in S
    BY DEF x
  <2>2. /\ t \in Seq(S) /\ Len(t) = Len(a) + 1 + Len(b)
        /\ \A k \in 1..Len(a) : t[k] = a[k]
        /\ t[Len(a) + 1] = x
        /\ \A k \in 1..Len(b) : t[Len(a) + 1 + k] = b[k]
    <3>1. ASSUME NEW f \in Seq(S), NEW g \in Seq(S)
          PROVE  /\ f \o (<<x>> \o g) \in Seq(S) /\ Len(f \o (<<x>> \o g)) = Len(f) + 1 + Len(g)
                 /\ \A k \in 1..Len(f) : (f \o (<<x>> \o g))[k] = f[k]
                 /\ (f \o (<<x>> \o g))[Len(f) + 1] = x
                 /\ \A k \in 1..Len(g) : (f \o (<<x>> \o g))[Len(f) + 1 + k] = g[k]
      BY <2>1, MiddleIs
    <3> QED BY <1>1, <1>2, <3>1
  <2>3. /\ Len(t) = n
        /\ \A k \in 1..(i - 1) : t[k] = a[k]
        /\ t[i] = x
        /\ \A k \in 1..(n - i) : t[i + k] = b[k]
    <3>1. Len(a) + 1 = i /\ Len(a) = i - 1 /\ Len(b) = n - i /\ (i - 1) + 1 + (n - i) = n
      BY <1>1, <1>2, <2>1, SMTT(60)
    <3> QED BY <2>2, <3>1
  <2> HIDE DEF t, n
  <2>4. ASSUME NEW k \in 1..n PROVE t[k] = s[k]
    <3>1. k < i => k \in 1..(i - 1)
      BY <2>1
    <3>2. k > i => k - i \in 1..(n - i) /\ i + (k - i) = k
      BY <2>1
    <3>3. k < i \/ k = i \/ k > i
      BY <2>1
    <3> QED BY <1>1, <1>2, <2>3, <3>1, <3>2, <3>3, ZenonT(60) DEF x, n
  <2>5. t = s
    BY <2>2, <2>3, <2>4, SameSeq DEF n
  <2> QED BY <2>5 DEF t, x
<1> QED BY <1>1, <1>2, <1>3

LEMMA SplitOnceFacts ==
  ASSUME NEW S, NEW s \in Seq(S), NEW c, Has(s, c)
  PROVE  /\ SplitOnce(s, c)[1] \in Seq(S \ {c}) /\ SplitOnce(s, c)[2] \in Seq(S)
         /\ s = SplitOnce(s, c)[1] \o (<<c>> \o SplitOnce(s, c)[2])
<1> DEFINE T == {j \in 1..Len(s) : s[j] = c}
           i == CHOOSE j \in DOMAIN s : s[j] = c /\ \A l \in 1..(j - 1) : s[l] # c
<1>1. PICK j \in T : \A l \in T : j <= l
  <2>1. T \in SUBSET Nat /\ T # {}
    BY DEF Has
  <2> HIDE DEF T
  <2> QED BY <2>1, LeastNumber
<1>2. j \in DOMAIN s /\ s[j] = c /\ \A l \in 1..(j - 1) : s[l] # c
  <2>1. \A l \in 1..(j - 1) : l \in 1..Len(s) /\ ~(j <= l)
    OBVIOUS
  <2> QED BY <1>1, <2>1
<1>3. i \in DOMAIN s /\ s[i] = c /\ \A l \in 1..(i - 1) : s[l] # c
  BY <1>2
<1>4. SplitOnce(s, c) = <<SubSeq(s, 1, i - 1), SubSeq(s, i + 1, Len(s))>>
  BY DEF SplitOnce
<1>9. SplitOnce(s, c)[1] = SubSeq(s, 1, i - 1) /\ SplitOnce(s, c)[2] = SubSeq(s, i + 1, Len(s))
  <2> DEFINE u == SubSeq(s, 1, i - 1)
             v == SubSeq(s, i + 1, Len(s))
  <2>1. SplitOnce(s, c) = <<u, v>>
    BY <1>4
  <2> HIDE DEF u, v
  <2>2. SplitOnce(s, c)[1] = u /\ SplitOnce(s, c)[2] = v
    BY <2>1
  <2> QED BY <2>2 DEF u, v
<1> HIDE DEF i
<1>5. i \in 1..Len(s)
  BY <1>3
<1>6. /\ SubSeq(s, 1, i - 1) \in Seq(S) /\ SubSeq(s, i + 1, Len(s)) \in Seq(S)
      /\ Len(SubSeq(s, 1, i - 1)) = i - 1
      /\ \A k \in 1..(i - 1) : SubSeq(s, 1, i - 1)[k] = s[k]
      /\ s = SubSeq(s, 1, i - 1) \o (<<s[i]>> \o SubSeq(s, i + 1, Len(s)))
  BY <1>5, Around
<1>7. SubSeq(s, 1, i - 1) \in Seq(S \ {c})
  <2> DEFINE a == SubSeq(s, 1, i - 1)
  <2>1. a \in Seq(S) /\ Len(a) = i - 1 /\ \A k \in 1..(i - 1) : a[k] # c
    BY <1>3, <1>6
  <2> HIDE DEF a
  <2>2. a = [k \in 1..(i - 1) |-> a[k]] /\ \A k \in 1..(i - 1) : a[k] \in S \ {c}
    BY <2>1
  <2>3. i - 1 \in Nat
    BY <1>5
  <2>4. a \in Seq(S \ {c})
    BY <2>2, <2>3, SeqIs
  <2> QED BY <2>4 DEF a
<1>8. /\ SplitOnce(s, c)[1] = SubSeq(s, 1, i - 1)
      /\ SplitOnce(s, c)[2] = SubSeq(s, i + 1, Len(s)) /\ s[i] = c
  BY <1>3, <1>9
<1> QED BY <1>6, <1>7, <1>8

LEMMA RSplitOnceFacts ==
  ASSUME NEW S, NEW s \in Seq(S), NEW c, Has(s, c)
  PROVE  /\ RSplitOnce(s, c)[1] \in Seq(S) /\ RSplitOnce(s, c)[2] \in Seq(S \ {c})
         /\ s = RSplitOnce(s, c)[1] \o (<<c>> \o RSplitOnce(s, c)[2])
<1> DEFINE T == {j \in 1..Len(s) : s[j] = c}
           i == CHOOSE j \in DOMAIN s : s[j] = c /\ \A l \in (j + 1)..Len(s) : s[l] # c
           m == Max(T)
<1>1. m \in T /\ \A l \in T : l <= m
  <2>1. T \in SUBSET (1..Len(s)) /\ T # {} /\ Len(s) \in Nat
    BY DEF Has
  <2> HIDE DEF T
  <2> QED BY <2>1, MaxIsLast
<1> HIDE DEF m
<1>2. m \in DOMAIN s /\ s[m] = c /\ \A l \in (m + 1)..Len(s) : s[l] # c
  <2>1. m \in 1..Len(s) /\ s[m] = c
    BY <1>1
  <2>2. \A l \in (m + 1)..Len(s) : l \in 1..Len(s) /\ ~(l <= m)
    BY <2>1
  <2> QED BY <1>1, <2>1, <2>2
<1>3. i \in DOMAIN s /\ s[i] = c /\ \A l \in (i + 1)..Len(s) : s[l] # c
  BY <1>2
<1>4. RSplitOnce(s, c) = <<SubSeq(s, 1, i - 1), SubSeq(s, i + 1, Len(s))>>
  BY DEF RSplitOnce
<1> HIDE DEF i
<1>5. i \in 1..Len(s) /\ Len(s) \in Nat
  BY <1>3
<1>6. /\ SubSeq(s, 1, i - 1) \in Seq(S) /\ SubSeq(s, i + 1, Len(s)) \in Seq(S)
      /\ Len(SubSeq(s, i + 1, Len(s))) = Len(s) - i
      /\ \A k \in 1..(Len(s) - i) : SubSeq(s, i + 1, Len(s))[k] = s[i + k]
      /\ s = SubSeq(s, 1, i - 1) \o (<<s[i]>> \o SubSeq(s, i + 1, Len(s)))
  BY <1>5, Around, ZenonT(60)
<1>7. SubSeq(s, i + 1, Len(s)) \in Seq(S \ {c})
  <2> DEFINE b == SubSeq(s, i + 1, Len(s))
             n == Len(s) - i
  <2>1. \A k \in 1..n : i + k \in (i + 1)..Len(s)
    BY <1>5
  <2>2. b \in Seq(S) /\ Len(b) = n /\ \A k \in 1..n : b[k] # c
    BY <1>3, <1>6, <2>1
  <2> HIDE DEF b
  <2>3. n \in Nat
    BY <1>5
  <2> HIDE DEF n
  <2>4. b = [k \in 1..n |-> b[k]] /\ \A k \in 1..n : b[k] \in S \ {c}
    BY <2>2
  <2>5. b \in Seq(S \ {c})
    BY <2>3, <2>4, SeqIs
  <2> QED BY <2>5 DEF b
<1>8. /\ RSplitOnce(s, c)[1] = SubSeq(s, 1, i - 1)
      /\ RSplitOnce(s, c)[2] = SubSeq(s, i + 1, Len(s)) /\ s[i] = c
  BY <1>3, <1>4, SMTT(60)
<1> QED BY <1>6, <1>7, <1>8

LEMMA SplitOnceAt ==
  ASSUME NEW S, NEW c, NEW a \in Seq(S \ {c}), NEW b \in Seq(S)
  PROVE  Has(a \o (<<c>> \o b), c) /\ SplitOnce(a \o (<<c>> \o b), c) = <<a, b>>
<1> DEFINE s == a \o (<<c>> \o b)
           m == Len(a)
           i == CHOOSE j \in DOMAIN s : s[j] = c /\ \A l \in 1..(j - 1) : s[l] # c
<1>1. /\ s \in Seq(S \cup {c}) /\ m \in Nat /\ Len(s) = m + 1 + Len(b) /\ Len(b) \in Nat
      /\ s[m + 1] = c /\ \A l \in 1..m : s[l] = a[l] /\ a[l] # c
      /\ \A l \in 1..Len(b) : s[m + 1 + l] = b[l]
  OBVIOUS
<1> HIDE DEF s
<1>2. m + 1 \in DOMAIN s /\ s[m + 1] = c /\ \A l \in 1..((m + 1) - 1) : s[l] # c
  BY <1>1
<1>3. i \in DOMAIN s /\ s[i] = c /\ \A l \in 1..(i - 1) : s[l] # c
  BY <1>2
<1>4. i = m + 1
  <2> HIDE DEF i
  <2>1. i \in Nat /\ i >= 1
    BY <1>1, <1>3
  <2>2. ~(i <= m)
    <3>1. i <= m => i \in 1..m
      BY <2>1
    <3> QED BY <1>1, <1>3, <3>1
  <2>3. ~(m + 1 < i)
    <3>1. m + 1 < i => m + 1 \in 1..(i - 1)
      BY <1>1, <2>1
    <3> QED BY <1>1, <1>3, <3>1
  <2> QED BY <1>1, <2>1, <2>2, <2>3
<1>5. SplitOnce(s, c) = <<SubSeq(s, 1, i - 1), SubSeq(s, i + 1, Len(s))>>
  BY DEF SplitOnce
<1> HIDE DEF i
<1>6. SubSeq(s, 1, m) = a
  BY <1>1
<1>7. SubSeq(s, m + 2, Len(s)) = b
  BY <1>1, SMTT(60)
<1>8. i - 1 = m /\ i + 1 = m + 2
  BY <1>1, <1>4
<1> QED BY <1>2, <1>5, <1>6, <1>7, <1>8 DEF Has, s

LEMMA RSplitOnceAt ==
  ASSUME NEW S, NEW c, NEW a \in Seq(S), NEW b \in Seq(S \ {c})
  PROVE  Has(a \o (<<c>> \o b), c) /\ RSplitOnce(a \o (<<c>> \o b), c) = <<a, b>>
<1> DEFINE s == a \o (<<c>> \o b)
           m == Len(a)
           i == CHOOSE j \in DOMAIN s : s[j] = c /\ \A l \in (j + 1)..Len(s) : s[l] # c
<1>1. /\ s \in Seq(S \cup {c}) /\ m \in Nat /\ Len(s) = m + 1 + Len(b) /\ Len(b) \in Nat
      /\ s[m + 1] = c /\ \A l \in 1..m : s[l] = a[l]
      /\ \A l \in 1..Len(b) : s[m + 1 + l] = b[l] /\ b[l] # c
  OBVIOUS
<1> HIDE DEF s
<1>2. m + 1 \in DOMAIN s /\ s[m + 1] = c /\ \A l \in (m + 2)..Len(s) : s[l] # c
  <2>1. \A l \in (m + 2)..Len(s) : l - (m + 1) \in 1..Len(b) /\ m + 1 + (l - (m + 1)) = l
    BY <1>1
  <2>2. \A k \in 1..Len(b) : s[m + 1 + k] # c
    BY <1>1
  <2>3. \A l \in (m + 2)..Len(s) : s[l] # c
    BY <2>1, <2>2
  <2>4. m + 1 \in 1..Len(s) /\ DOMAIN s = 1..Len(s)
    BY <1>1
  <2> QED BY <1>1, <2>3, <2>4
<1>3. i \in DOMAIN s /\ s[i] = c /\ \A l \in (i + 1)..Len(s) : s[l] # c
  <2>1. (m + 1) + 1 = m + 2
    BY <1>1
  <2> QED BY <1>2, <2>1
<1>4. i = m + 1
  <2> HIDE DEF i
  <2>1. i \in 1..Len(s)
    BY <1>1, <1>3
  <2>2. ~(i > m + 1)
    <3>1. i > m + 1 => i \in (m + 2)..Len(s)
      BY <1>1, <2>1
    <3> QED BY <1>2, <1>3, <3>1
  <2>3. ~(i < m + 1)
    <3>1. i < m + 1 => m + 1 \in (i + 1)..Len(s)
      BY <1>1, <2>1
    <3>2. s[m + 1] = c
      BY <1>1
    <3>3. \A l \in (i + 1)..Len(s) : s[l] # c
      BY <1>3
    <3> DEFINE k == m + 1
    <3> SUFFICES ASSUME i < k PROVE FALSE
      OBVIOUS
    <3>4. k \in (i + 1)..Len(s) /\ s[k] = c
      BY <3>1, <3>2
    <3> HIDE DEF k
    <3> QED BY <3>3, <3>4
  <2>4. i \in Nat /\ m \in Nat
    BY <1>1, <2>1
  <2> HIDE DEF m
  <2> QED BY <2>2, <2>3, <2>4
<1>5. RSplitOnce(s, c) = <<SubSeq(s, 1, i - 1), SubSeq(s, i + 1, Len(s))>>
  BY DEF RSplitOnce
<1> HIDE DEF i
<1>6. SubSeq(s, 1, m) = a
  BY <1>1
<1>7. SubSeq(s, m + 2, Len(s)) = b
  BY <1>1, SMTT(60)
<1>8. i - 1 = m /\ i + 1 = m + 2
  BY <1>1, <1>4
<1> QED BY <1>2, <1>5, <1>6, <1>7, <1>8 DEF Has, s
----------------------------------------------------------------------------
(* What a transform writes *)

\* The labels a domain is written with.
DomainLabels(s) ==
    LET labels == Split(s, ".")
        Keep(i) == \/ labels[i] = <<>>
                   \/ Len(labels) > 1 /\ i = Len(labels) /\ labels[i] = <<"local">>
    IN  [i \in DOMAIN labels |-> IF Keep(i) THEN labels[i] ELSE <<"domains">>]

LabelSymbols == {"domains", "local"}

LEMMA DomainIs ==
  ASSUME NEW S, NEW s \in Seq(S)
  PROVE  /\ Domain(s) = Join(DomainLabels(s), ".")
         /\ DomainLabels(s) \in Parts(LabelSymbols)
         /\ Len(DomainLabels(s)) = Len(Split(s, "."))
         /\ \A i \in 1..Len(Split(s, ".")) :
               DomainLabels(s)[i] = <<>> <=> Split(s, ".")[i] = <<>>
         /\ Domain(s) \in Seq(LabelSymbols \cup {"."})
         /\ Split(Domain(s), ".") = DomainLabels(s)
<1> DEFINE labels == Split(s, ".")
           n == Len(labels)
           p == DomainLabels(s)
<1>1. n \in Nat \ {0} /\ DOMAIN labels = 1..n
  BY SplitType, PartsFacts
<1>2. Domain(s) = Join(p, ".")
  BY DEF Domain, DomainLabels
<1>3. p = [i \in 1..n |-> p[i]]
      /\ \A i \in 1..n : p[i] \in {<<>>, <<"local">>, <<"domains">>}
                         /\ (p[i] = <<>> <=> labels[i] = <<>>)
  BY <1>1 DEF DomainLabels
<1> HIDE DEF p, n
<1>4. p \in Parts(LabelSymbols) /\ Len(p) = n
  <2>0. <<>> \in Seq(LabelSymbols) /\ <<"local">> \in Seq(LabelSymbols)
        /\ <<"domains">> \in Seq(LabelSymbols)
    BY DEF LabelSymbols
  <2>1. \A i \in 1..n : p[i] \in Seq(LabelSymbols)
    BY <1>3, <2>0
  <2> QED BY <1>1, <1>3, <2>1, PartsSeq
<1>5. p \in Parts((LabelSymbols \cup {"."}) \ {"."}) /\ p \in Parts(LabelSymbols \cup {"."})
  <2>1. (LabelSymbols \cup {"."}) \ {"."} = LabelSymbols
    BY DEF LabelSymbols
  <2> DEFINE A == LabelSymbols \cup {"."}
  <2>0. <<>> \in Seq(A) /\ <<"local">> \in Seq(A) /\ <<"domains">> \in Seq(A)
    BY DEF LabelSymbols
  <2> HIDE DEF A
  <2>4. \A i \in 1..n : p[i] \in Seq(A)
    BY <1>3, <2>0
  <2>2. \A i \in 1..n : p[i] \in Seq(LabelSymbols \cup {"."})
    BY <2>4 DEF A
  <2>3. p \in Parts(LabelSymbols \cup {"."})
    BY <1>1, <1>3, <2>2, PartsSeq
  <2> QED BY <1>4, <2>1, <2>3
<1>6. Split(Join(p, "."), ".") = p /\ Join(p, ".") \in Seq(LabelSymbols \cup {"."})
  <2>1. "." \in LabelSymbols \cup {"."}
    OBVIOUS
  <2> QED BY <1>5, <2>1, SplitJoin, JoinType
<1> QED BY <1>2, <1>3, <1>4, <1>6 DEF p, n

LEMMA DomainType ==
  ASSUME NEW S, NEW s \in Seq(S)
  PROVE  Domain(s) \in Seq({".", "domains", "local"})
<1>1. LabelSymbols \cup {"."} = {".", "domains", "local"}
  BY DEF LabelSymbols
<1> QED BY <1>1, DomainIs

LEMMA NameTokenType ==
  ASSUME NEW s
  PROVE  /\ NameToken(s, FALSE) \in {<<"guids">>, <<"sids">>, <<"accounts">>}
         /\ NameToken(s, TRUE) = s
<1>1. Sid(<<"dsid">>, FALSE) = <<"sids">> /\ Sid(<<"rsid">>, FALSE) = <<"sids">>
  BY DEF Sid
<1> QED BY <1>1 DEF NameToken, Guid

LEMMA DnsHostNameType ==
  ASSUME NEW S, NEW s \in Seq(S)
  PROVE  DnsHostName(s) \in Seq({".", "domains", "hosts", "local"})
<1> DEFINE A == {".", "domains", "hosts", "local"}
<1>1. CASE Has(s, ".")
  <2> DEFINE d == Domain(SplitOnce(s, ".")[2])
  <2>1. d \in Seq({".", "domains", "local"})
    BY <1>1, SplitOnceFacts, DomainType
  <2> HIDE DEF d
  <2>2. <<"hosts", ".">> \o d \in Seq(A)
    BY <2>1
  <2> QED BY <1>1, <2>2 DEF DnsHostName, d
<1>2. CASE ~Has(s, ".")
  BY <1>2 DEF DnsHostName
<1> QED BY <1>1, <1>2

LEMMA SidType ==
  ASSUME NEW S, NEW s \in Seq(S), s # <<>>, NEW b \in BOOLEAN
  PROVE  Sid(s, b) \in Seq({".", "domains", "local", "-", "sid", "sids"})
<1> DEFINE A == {".", "domains", "local", "-", "sid", "sids"}
           mapped == IF b /\ SidIdentity(s) = <<"sid">> THEN SidIdentity(s) ELSE <<"sids">>
           d == Domain(SubSeq(s, 1, Len(s) - 2))
<1>1. mapped \in {<<"sid">>, <<"sids">>}
  OBVIOUS
<1>2. CASE Len(s) = 1
  <2>1. Sid(s, b) = mapped
    BY <1>2 DEF Sid
  <2>2. <<"sid">> \in Seq(A) /\ <<"sids">> \in Seq(A)
    OBVIOUS
  <2> HIDE DEF mapped, A
  <2> QED BY <1>1, <2>1, <2>2 DEF A
<1>3. CASE Len(s) # 1
  <2>1. SubSeq(s, 1, Len(s) - 2) \in Seq(S)
    OBVIOUS
  <2>2. d \in Seq({".", "domains", "local"})
    BY <2>1, DomainType
  <2>3. Sid(s, b) = d \o <<"-">> \o mapped
    BY <1>3 DEF Sid
  <2> HIDE DEF d, mapped
  <2>4. \A x \in Seq({".", "domains", "local"}) :
            x \o <<"-">> \o <<"sid">> \in Seq(A) /\ x \o <<"-">> \o <<"sids">> \in Seq(A)
    OBVIOUS
  <2> QED BY <1>1, <2>2, <2>3, <2>4
<1> QED BY <1>2, <1>3

\* One label, one part.
LEMMA SplitOne ==
  ASSUME NEW S, NEW s \in Seq(S), NEW c \in S, Len(Split(s, c)) = 1
  PROVE  ~Has(s, c) /\ Split(s, c) = <<s>> /\ s \in Seq(S \ {c})
<1>1. ASSUME Has(s, c) PROVE FALSE
  <2> DEFINE a == SplitOnce(s, c)[1]
             b == SplitOnce(s, c)[2]
  <2>1. a \in Seq(S) /\ b \in Seq(S) /\ s = a \o (<<c>> \o b)
    <3>1. a \in Seq(S \ {c}) /\ b \in Seq(S) /\ s = a \o (<<c>> \o b)
      BY <1>1, SplitOnceFacts
    <3>2. \A x \in Seq(S \ {c}) : x \in Seq(S)
      OBVIOUS
    <3> QED BY <3>1, <3>2
  <2> HIDE DEF a, b
  <2>2. Split(s, c) = Split(a, c) \o Split(b, c)
    BY <2>1, SplitConcat
  <2> DEFINE p == Split(a, c)
             q == Split(b, c)
  <2>3. /\ p \in Seq(Seq(S \ {c})) /\ q \in Seq(Seq(S \ {c}))
        /\ Len(p) \in Nat \ {0} /\ Len(q) \in Nat \ {0}
    BY <2>1, SplitType, PartsFacts
  <2>6. Split(s, c) = p \o q
    BY <2>2
  <2> HIDE DEF p, q
  <2>4. Len(p \o q) = Len(p) + Len(q)
    <3> DEFINE U == Seq(S \ {c})
    <3>1. p \in Seq(U) /\ q \in Seq(U)
      BY <2>3
    <3> HIDE DEF U
    <3> QED BY <3>1, ConcatIs
  <2>5. Len(Split(s, c)) = Len(p) + Len(q)
    BY <2>4, <2>6
  <2>7. \A m, n \in Nat \ {0} : m + n # 1
    OBVIOUS
  <2> QED BY <2>3, <2>5, <2>7
<1>2. s \in Seq(S \ {c})
  <2>1. \A i \in 1..Len(s) : s[i] \in S \ {c}
    BY <1>1 DEF Has
  <2>2. s = [i \in 1..Len(s) |-> s[i]] /\ Len(s) \in Nat
    OBVIOUS
  <2> QED BY <2>1, <2>2, SeqIs
<1> QED BY <1>1, <1>2, SplitNone

\* A domain is written as nothing only if it is nothing.
LEMMA DomainEmpty ==
  ASSUME NEW S, "." \in S, NEW s \in Seq(S), Domain(s) = <<>>
  PROVE  s = <<>>
<1>1. Split(<<>>, ".") = DomainLabels(s) /\ Len(DomainLabels(s)) = Len(Split(s, "."))
  BY DomainIs
<1>2. Split(<<>>, ".") = <<<<>>>>
  <2>1. <<>> \in Seq(S \ {"."})
    OBVIOUS
  <2> QED BY <2>1, SplitNone
<1>3. Len(<<<<>>>>) = 1 /\ <<<<>>>>[1] = <<>>
  OBVIOUS
<1>4. Len(Split(s, ".")) = 1
  BY <1>1, <1>2, <1>3
<1>5. Split(s, ".") = <<s>>
  BY <1>4, SplitOne
<1>6. DomainLabels(s)[1] = <<>> /\ 1 \in 1..Len(Split(s, "."))
  BY <1>1, <1>2, <1>3, <1>4
<1>7. Split(s, ".")[1] = <<>>
  BY <1>6, DomainIs
<1>8. <<s>>[1] = s
  OBVIOUS
<1> QED BY <1>5, <1>7, <1>8

Clean == Symbols \ Sensitive
\* What is neither of the organization nor syntax.
Kept == Clean \ Separators

LEMMA KeptTokens ==
  /\ "." \in Clean /\ "@" \in Clean /\ "/" \in Clean /\ ":" \in Clean /\ "$" \in Clean
  /\ "," \in Clean /\ "+" \in Clean /\ "=" \in Clean /\ "-" \in Clean
  /\ "domains" \in Kept /\ "hosts" \in Kept /\ "local" \in Kept /\ "accounts" \in Kept
  /\ "guids" \in Kept /\ "sids" \in Kept /\ "oids" \in Kept /\ "opaque" \in Kept
  /\ "cert_templates" \in Kept /\ "http" \in Kept /\ "9" \in Kept /\ "sid" \in Kept
  /\ "REDACTED" \in Kept /\ "cn" \in Kept /\ "dc" \in Kept /\ "uid" \in Kept
BY DEF Kept, Clean, Symbols, Sensitive, Separators, Identifiers, Categories

LEMMA Wider ==
  ASSUME NEW S, NEW T, S \subseteq T, NEW s \in Seq(S)
  PROVE  s \in Seq(T)
OBVIOUS

LEMMA OneSymbol ==
  ASSUME NEW S, NEW x \in S
  PROVE  <<x>> \in Seq(S)
OBVIOUS

LEMMA TokensClean ==
  ASSUME NEW s
  PROVE  /\ NameToken(s, FALSE) \in Seq(Kept) /\ NameToken(s, FALSE) # <<>>
<1>1. <<"guids">> \in Seq(Kept) /\ <<"sids">> \in Seq(Kept) /\ <<"accounts">> \in Seq(Kept)
  BY KeptTokens, OneSymbol
<1>2. <<"guids">> # <<>> /\ <<"sids">> # <<>> /\ <<"accounts">> # <<>>
  OBVIOUS
<1> QED BY <1>1, <1>2, NameTokenType

LEMMA DomainsClean ==
  ASSUME NEW S, NEW s \in Seq(S)
  PROVE  /\ Domain(s) \in Seq(Kept \cup {"."}) /\ DnsHostName(s) \in Seq(Kept \cup {"."})
         /\ Domain(s) \in Seq(Clean) /\ DnsHostName(s) \in Seq(Clean)
<1> DEFINE A == Kept \cup {"."}
<1>1. {".", "domains", "local"} \subseteq A /\ {".", "domains", "hosts", "local"} \subseteq A
  BY KeptTokens
<1>2. A \subseteq Clean
  BY KeptTokens DEF Kept
<1>3. Domain(s) \in Seq({".", "domains", "local"})
  BY DomainType
<1>4. DnsHostName(s) \in Seq({".", "domains", "hosts", "local"})
  BY DnsHostNameType
<1> DEFINE d == Domain(s)
           h == DnsHostName(s)
<1>5. d \in Seq({".", "domains", "local"}) /\ h \in Seq({".", "domains", "hosts", "local"})
  BY <1>3, <1>4
<1> HIDE DEF A, d, h
<1>6. d \in Seq(A) /\ h \in Seq(A)
  BY <1>1, <1>5, Wider
<1>7. d \in Seq(Clean) /\ h \in Seq(Clean)
  BY <1>2, <1>6, Wider
<1> QED BY <1>6, <1>7 DEF A, d, h
----------------------------------------------------------------------------
(* Distinguished names *)

DnAttribute(ava) == SplitOnce(ava, "=")[1]
DnContent(ava) == SplitOnce(ava, "=")[2]
DcCount(rdns) ==
    Len(SelectSeq(FlattenSeq([i \in DOMAIN rdns |-> SplitUnescaped(rdns[i], "+")]),
                  LAMBDA a : Has(a, "=") /\ DnAttribute(a) = <<"dc">>))
DnMapped(ava, many, last, preserved) ==
    CASE DnAttribute(ava) = <<"dc">> ->
            IF many /\ last /\ DnContent(ava) = <<"local">>
            THEN DnContent(ava) ELSE Domain(DnContent(ava))
      [] DnAttribute(ava) = <<"cn">> ->
            NameToken(DnContent(ava), DnContent(ava) \in preserved)
      [] OTHER -> <<"opaque">>
DnAva(ava, many, last, preserved) ==
    IF Has(ava, "=") THEN DnAttribute(ava) \o <<"=">> \o DnMapped(ava, many, last, preserved)
    ELSE <<"opaque">>
DnAvas(rdns, preserved, i) ==
    LET avas == SplitUnescaped(rdns[i], "+")
    IN  [j \in DOMAIN avas |-> DnAva(avas[j], DcCount(rdns) >= 2, i = Len(rdns), preserved)]

LEMMA DnIs ==
  ASSUME NEW dn, NEW preserved
  PROVE  Dn(dn, preserved)
           = LET rdns == SplitUnescaped(dn, ",")
             IN  Join([i \in DOMAIN rdns |-> Join(DnAvas(rdns, preserved, i), "+")], ",")
BY DEF Dn, DnAvas, DnAva, DnMapped, DcCount, DnContent, DnAttribute

\* What a component is written as: a standard attribute, and a content that is
\* syntax for no one.
LEMMA AvaIs ==
  ASSUME NEW ava \in Seq(Symbols), Has(ava, "="),
         DnAttribute(ava) \in StandardRdnAttributeTypes,
         NEW preserved, preserved \subseteq Seq(Kept) \ {<<>>},
         NEW many, NEW last
  PROVE  /\ DnMapped(ava, many, last, preserved) \in Seq(Kept \cup {"."})
         /\ DnContent(ava) # <<>> => DnMapped(ava, many, last, preserved) # <<>>
         /\ DnAva(ava, many, last, preserved)
              = DnAttribute(ava) \o (<<"=">> \o DnMapped(ava, many, last, preserved))
<1> DEFINE a == DnAttribute(ava)
           x == DnContent(ava)
           y == DnMapped(ava, many, last, preserved)
           A == Kept \cup {"."}
<1>1. a \in StandardRdnAttributeTypes /\ x \in Seq(Symbols)
  BY SplitOnceFacts DEF DnContent
<1>2. Kept \subseteq A
  OBVIOUS
<1>3. y \in Seq(A) /\ (x # <<>> => y # <<>>)
  <2>1. CASE a = <<"dc">>
    <3>1. CASE many /\ last /\ x = <<"local">>
      <4>1. y = <<"local">>
        BY <2>1, <3>1 DEF DnMapped
      <4>2. <<"local">> \in Seq(A) /\ <<"local">> # <<>>
        BY <1>2, KeptTokens, OneSymbol, Wider
      <4> HIDE DEF y, A
      <4> QED BY <4>1, <4>2
    <3>2. CASE ~(many /\ last /\ x = <<"local">>)
      <4>1. y = Domain(x)
        BY <2>1, <3>2 DEF DnMapped
      <4>2. Domain(x) \in Seq(A)
        BY <1>1, DomainsClean
      <4>3. x # <<>> => Domain(x) # <<>>
        <5>1. "." \in Symbols
          BY DEF Symbols
        <5> QED BY <1>1, <5>1, DomainEmpty
      <4> HIDE DEF y, A, x
      <4> QED BY <4>1, <4>2, <4>3
    <3> QED BY <3>1, <3>2
  <2>2. CASE a = <<"cn">>
    <3>1. a # <<"dc">>
      BY <2>2
    <3>2. y = NameToken(x, x \in preserved)
      BY <2>2, <3>1 DEF DnMapped
    <3>3. CASE x \in preserved
      <4>1. y = x
        BY <3>2, <3>3 DEF NameToken
      <4>2. x \in Seq(Kept)
        BY <3>3
      <4> HIDE DEF x, y, A
      <4> QED BY <1>2, <4>1, <4>2, Wider
    <3>4. CASE x \notin preserved
      <4>1. y = NameToken(x, FALSE)
        <5>1. (x \in preserved) = FALSE
          BY <3>4
        <5> QED BY ONLY <3>2, <5>1
      <4> HIDE DEF x, y, A
      <4> QED BY <1>2, <4>1, TokensClean, Wider
    <3> QED BY <3>3, <3>4
  <2>3. CASE a # <<"dc">> /\ a # <<"cn">>
    <3>1. y = <<"opaque">>
      BY <2>3 DEF DnMapped
    <3>2. <<"opaque">> \in Seq(A) /\ <<"opaque">> # <<>>
      BY <1>2, KeptTokens, OneSymbol, Wider
    <3> HIDE DEF y, A
    <3> QED BY <3>1, <3>2
  <2> QED BY <2>1, <2>2, <2>3
<1>4. DnAva(ava, many, last, preserved) = a \o <<"=">> \o y
  BY DEF DnAva
<1>5. a \o <<"=">> \o y = a \o (<<"=">> \o y)
  <2> HIDE DEF a, y, A
  <2>1. \A u \in Seq(A) : /\ <<"cn">> \o <<"=">> \o u = <<"cn">> \o (<<"=">> \o u)
                          /\ <<"dc">> \o <<"=">> \o u = <<"dc">> \o (<<"=">> \o u)
                          /\ <<"uid">> \o <<"=">> \o u = <<"uid">> \o (<<"=">> \o u)
    OBVIOUS
  <2> QED BY <1>1, <1>3, <2>1 DEF StandardRdnAttributeTypes
<1> QED BY <1>3, <1>4, <1>5

\* The two ways a character is put between what is already clean.
LEMMA Around2 ==
  ASSUME NEW S, NEW c \in S, NEW a \in Seq(S), NEW b \in Seq(S)
  PROVE  /\ a \o (<<c>> \o b) \in Seq(S) /\ a \o <<c>> \o b \in Seq(S)
         /\ a \o <<c>> \o b = a \o (<<c>> \o b)
OBVIOUS

LEMMA DnClean ==
  ASSUME NEW dn \in Seq(Symbols), StandardTypes(dn),
         NEW preserved, preserved \subseteq Seq(Kept) \ {<<>>}
  PROVE  Dn(dn, preserved) \in Seq(Clean)
<1> DEFINE rdns == SplitUnescaped(dn, ",")
           Rdn(i) == Join(DnAvas(rdns, preserved, i), "+")
           out == [i \in DOMAIN rdns |-> Rdn(i)]
<1>1. /\ Len(rdns) \in Nat \ {0} /\ DOMAIN rdns = 1..Len(rdns)
      /\ \A i \in 1..Len(rdns) : rdns[i] \in Seq(Symbols)
  <2>1. rdns \in Parts(Symbols)
    BY SplitUnescapedType
  <2> HIDE DEF rdns
  <2> QED BY <2>1, PartsFacts
<1>2. ASSUME NEW i \in 1..Len(rdns)
      PROVE  Rdn(i) \in Seq(Clean)
  <2> DEFINE avas == SplitUnescaped(rdns[i], "+")
             many == DcCount(rdns) >= 2
             last == i = Len(rdns)
             g == [j \in DOMAIN avas |-> DnAva(avas[j], many, last, preserved)]
  <2>1. /\ Len(avas) \in Nat \ {0} /\ DOMAIN avas = 1..Len(avas)
        /\ \A j \in 1..Len(avas) : avas[j] \in Seq(Symbols)
    <3>1. rdns[i] \in Seq(Symbols)
      BY <1>1
    <3> HIDE DEF rdns
    <3>2. avas \in Parts(Symbols)
      BY <3>1, SplitUnescapedType
    <3> HIDE DEF avas
    <3> QED BY <3>2, PartsFacts
  <2>2. DnAvas(rdns, preserved, i) = g
    BY DEF DnAvas
  <2>3. ASSUME NEW j \in 1..Len(avas)
        PROVE  DnAva(avas[j], many, last, preserved) \in Seq(Clean)
    <3> DEFINE ava == avas[j]
               a == DnAttribute(ava)
               y == DnMapped(ava, many, last, preserved)
    <3>1. ava \in Seq(Symbols)
      BY <2>1
    <3>2. Has(ava, "=") /\ a \in StandardRdnAttributeTypes
      <4>1. \A k \in DOMAIN rdns : \A l \in DOMAIN SplitUnescaped(rdns[k], "+") :
               /\ Has(SplitUnescaped(rdns[k], "+")[l], "=")
               /\ DnAttribute(SplitUnescaped(rdns[k], "+")[l]) \in StandardRdnAttributeTypes
        BY Zenon DEF StandardTypes, DnAttribute
      <4>2. i \in DOMAIN rdns /\ j \in DOMAIN avas
        BY <1>1, <2>1
      <4> HIDE DEF rdns
      <4> QED BY ONLY <4>1, <4>2, Zenon
    <3> HIDE DEF ava, many, last
    <3>4. y \in Seq(Kept \cup {"."}) /\ DnAva(ava, many, last, preserved) = a \o (<<"=">> \o y)
      BY <3>1, <3>2, AvaIs
    <3>5. a \in Seq(Clean)
      <4>1. <<"cn">> \in Seq(Clean) /\ <<"dc">> \in Seq(Clean) /\ <<"uid">> \in Seq(Clean)
        BY KeptTokens, OneSymbol DEF Kept
      <4> HIDE DEF a
      <4> QED BY <3>2, <4>1 DEF StandardRdnAttributeTypes
    <3>6. Kept \cup {"."} \subseteq Clean /\ "=" \in Clean
      BY KeptTokens DEF Kept
    <3> HIDE DEF a, y
    <3>7. y \in Seq(Clean)
      BY <3>4, <3>6, Wider
    <3>8. DnAva(ava, many, last, preserved) \in Seq(Clean)
      <4>1. \A u, v \in Seq(Clean) : u \o (<<"=">> \o v) \in Seq(Clean)
        BY <3>6, Around2
      <4>2. a \o (<<"=">> \o y) \in Seq(Clean)
        BY <3>5, <3>7, <4>1
      <4> QED BY <3>4, <4>2
    <3> QED BY <3>8 DEF ava
  <2>4. g \in Parts(Clean)
    <3> DEFINE n == Len(avas)
    <3>1. n \in Nat \ {0} /\ DOMAIN avas = 1..n
      BY <2>1
    <3>2. \A j \in 1..n : DnAva(avas[j], many, last, preserved) \in Seq(Clean)
      BY <2>3
    <3> HIDE DEF n, avas, many, last
    <3>3. g = [j \in 1..n |-> g[j]] /\ \A j \in 1..n : g[j] \in Seq(Clean)
      BY <3>1, <3>2
    <3> HIDE DEF g
    <3> QED BY <3>1, <3>3, PartsSeq
  <2> HIDE DEF g
  <2>5. "+" \in Clean
    BY KeptTokens
  <2> QED BY <2>2, <2>4, <2>5, JoinType
<1>3. out \in Parts(Clean)
  <2> DEFINE n == Len(rdns)
  <2>1. n \in Nat \ {0} /\ DOMAIN rdns = 1..n /\ \A i \in 1..n : Rdn(i) \in Seq(Clean)
    BY <1>1, <1>2
  <2> HIDE DEF n, rdns, Rdn
  <2>2. out = [i \in 1..n |-> out[i]] /\ \A i \in 1..n : out[i] \in Seq(Clean)
    BY <2>1
  <2> HIDE DEF out
  <2> QED BY <2>1, <2>2, PartsSeq
<1>4. Dn(dn, preserved) = Join(out, ",")
  BY DnIs
<1>5. "," \in Clean
  BY KeptTokens
<1> HIDE DEF out
<1> QED BY <1>3, <1>4, <1>5, JoinType
----------------------------------------------------------------------------
(* The other transforms *)

LEMMA SamAccountNameClean ==
  ASSUME NEW s
  PROVE  SamAccountName(s) \in Seq(Clean)
<1>1. \A x : NameToken(x, FALSE) \in Seq(Clean)
  BY TokensClean, Wider DEF Kept
<1>2. <<"$">> \in Seq(Clean)
  BY KeptTokens, OneSymbol
<1>3. ASSUME NEW a \in Seq(Clean)
      PROVE  a \o <<"$">> \in Seq(Clean)
  BY <1>2
<1> QED BY <1>1, <1>3 DEF SamAccountName

LEMMA EmailIs ==
  ASSUME NEW s \in Seq(Symbols), Has(s, "@")
  PROVE  LET p == SplitOnce(s, "@")
         IN  /\ p[1] \in Seq(Symbols \ {"@"}) /\ p[2] \in Seq(Symbols)
             /\ s = p[1] \o (<<"@">> \o p[2])
             /\ Email(s) = NameToken(p[1], FALSE) \o (<<"@">> \o Domain(p[2]))
             /\ Email(s) \in Seq(Clean)
<1> DEFINE u == SplitOnce(s, "@")[1]
           v == SplitOnce(s, "@")[2]
           a == NameToken(u, FALSE)
           b == Domain(v)
<1>1. u \in Seq(Symbols \ {"@"}) /\ v \in Seq(Symbols) /\ s = u \o (<<"@">> \o v)
  BY SplitOnceFacts
<1>2. a \in Seq(Clean)
  <2> HIDE DEF u
  <2> QED BY TokensClean, Wider DEF Kept
<1>3. b \in Seq(Clean)
  BY <1>1, DomainsClean
<1>4. "@" \in Clean
  BY KeptTokens
<1>5. Email(s) = a \o <<"@">> \o b
  BY DEF Email
<1> HIDE DEF a, b, u, v
<1>6. Email(s) = a \o (<<"@">> \o b) /\ Email(s) \in Seq(Clean)
  BY <1>2, <1>3, <1>4, <1>5, Around2
<1> QED BY <1>1, <1>6 DEF a, b, u, v

LEMMA UpnNameClean ==
  ASSUME NEW s \in Seq(Symbols)
  PROVE  UpnName(s) \in Seq(Clean)
BY EmailIs, TokensClean, Wider DEF UpnName, Kept

LEMMA GroupNameIs ==
  ASSUME NEW s \in Seq(Symbols), Has(s, "@"), NEW b \in BOOLEAN,
         b => RSplitOnce(s, "@")[1] \in Seq(Kept)
  PROVE  LET p == RSplitOnce(s, "@")
         IN  /\ p[1] \in Seq(Symbols) /\ p[2] \in Seq(Symbols \ {"@"})
             /\ s = p[1] \o (<<"@">> \o p[2])
             /\ AdLocalGroupName(s, b) = NameToken(p[1], b) \o (<<"@">> \o DnsHostName(p[2]))
             /\ NameToken(p[1], b) \in Seq(Kept)
             /\ AdLocalGroupName(s, b) \in Seq(Clean)
<1> DEFINE u == RSplitOnce(s, "@")[1]
           v == RSplitOnce(s, "@")[2]
           a == NameToken(u, b)
           h == DnsHostName(v)
<1>1. u \in Seq(Symbols) /\ v \in Seq(Symbols \ {"@"}) /\ s = u \o (<<"@">> \o v)
  BY RSplitOnceFacts
<1>2. a \in Seq(Kept)
  <2>1. CASE b
    <3>1. NameToken(u, TRUE) = u
      BY NameTokenType
    <3> QED BY <2>1, <3>1
  <2>2. CASE ~b
    <3>1. b = FALSE
      BY <2>2
    <3>2. NameToken(u, FALSE) \in Seq(Kept)
      BY TokensClean
    <3> QED BY <3>1, <3>2
  <2> QED BY <2>1, <2>2
<1>3. h \in Seq(Clean)
  BY <1>1, DomainsClean
<1>4. "@" \in Clean /\ Kept \subseteq Clean
  BY KeptTokens DEF Kept
<1>5. AdLocalGroupName(s, b) = a \o <<"@">> \o h
  BY DEF AdLocalGroupName
<1> HIDE DEF a, h, u, v
<1>6. a \in Seq(Clean)
  BY <1>2, <1>4, Wider
<1>7. AdLocalGroupName(s, b) = a \o (<<"@">> \o h) /\ AdLocalGroupName(s, b) \in Seq(Clean)
  BY <1>3, <1>4, <1>5, <1>6, Around2
<1> QED BY <1>1, <1>2, <1>7 DEF a, h, u, v
----------------------------------------------------------------------------
(* What the policy decides *)

LEMMA RuleIs ==
  ASSUME NEW r \in Rules
  PROVE  /\ r \in Rule /\ r # NoRule
         /\ r.operation \in Operations \ {"PreserveConstant"} /\ r.namespace \in Namespaces
         /\ r.path \in {"name", "samaccountname", "userprincipalname", "email", "functionallevel",
                       "secret", "other"}
         /\ r.permits \subseteq Seq(Symbols) /\ r.allowed \subseteq Seq(Symbols)
         /\ r.rids \in BOOLEAN
<1>1. r \in Rule
  BY GateAssumption
<1>2. r.path # NoRule.path
  BY <1>1 DEF Rule, NoRule
<1> QED BY <1>1, <1>2 DEF Rule

LEMMA ConstantsKept ==
  ASSUME NEW r \in Rules, NEW s \in r.permits \cup r.allowed
  PROVE  s \in Seq(Kept) /\ s # <<>> /\ s \in Seq(Symbols)
<1>1. s \in Seq(Symbols) /\ s # <<>> /\ \A i \in DOMAIN s : s[i] \notin Sensitive \cup Separators
  BY RuleIs, ConstantsAssumption
<1>2. \A i \in 1..Len(s) : s[i] \in Kept
  BY <1>1 DEF Kept, Clean
<1>3. s = [i \in 1..Len(s) |-> s[i]] /\ Len(s) \in Nat
  BY <1>1
<1> HIDE DEF Kept
<1> QED BY <1>1, <1>2, <1>3, SeqIs

\* How resolve came to the decision d.
Resolved(r, s, d) ==
    \/ d = Opaque
    \/ r \in Rules /\ d = Decide("PreserveConstant", "none") /\ s \in r.permits
    \/ r \in Rules /\ d.operation = "PreserveSchemaValue" /\ s \in r.allowed
    \/ r = NoRule /\ \/ d = Decide("MapCustomIdentifier", "sids")
                     \/ d = Decide("MapCustomIdentifier", "guids")
                     \/ d = Decide("MapCustomIdentifier", "oids")
    \/ r \in Rules /\ r.operation = "MapReference"
       /\ \/ d = Decide("MapReference", "sids") /\ IsBareSid(s)
          \/ d = Decide("MapReference", "guids") /\ IsGuid(s)
          \/ d = Decide("MapReference", "oids") /\ IsOid(s)
    \/ /\ r \in Rules /\ r.operation \notin {"PreserveSchemaValue", "PreserveConstant"}
       /\ d = Decide(r.operation, IF PermitsDomainRid(r, s) THEN "sids_preserve_rid" ELSE r.namespace)
       /\ SourceShapeSupports(r.operation, d.namespace, s)

LEMMA ResolveIs ==
  ASSUME NEW r \in Rules \cup {NoRule}, NEW s
  PROVE  Resolved(r, s, Resolve(r, s))
<1> DEFINE d == Resolve(r, s)
<1> SUFFICES Resolved(r, s, d)
  OBVIOUS
<1>1. CASE r = NoRule
  <2>1. d = Fallback(s)
    BY <1>1 DEF Resolve
  <2> HIDE DEF d
  <2> QED BY <1>1, <2>1 DEF Fallback, Resolved
<1>2. CASE r \in Rules
  <2>1. r # NoRule /\ r.operation \in Operations \ {"PreserveConstant"}
    BY <1>2, RuleIs
  <2>2. CASE r.operation = "PreserveSchemaValue"
    <3>1. d = IF s \in r.allowed THEN Decide("PreserveSchemaValue", r.namespace) ELSE Opaque
      BY <2>1, <2>2 DEF Resolve
    <3> HIDE DEF d
    <3> QED BY <1>2, <3>1 DEF Resolved, Decide
  <2>3. CASE r.operation # "PreserveSchemaValue" /\ s \in r.permits
    <3>1. d = Decide("PreserveConstant", "none")
      BY <2>1, <2>3 DEF Resolve, CatalogPermits
    <3> HIDE DEF d
    <3> QED BY <1>2, <2>3, <3>1 DEF Resolved
  <2>4. CASE r.operation # "PreserveSchemaValue" /\ s \notin r.permits
    <3> DEFINE declared == IF PermitsDomainRid(r, s) THEN "sids_preserve_rid" ELSE r.namespace
               routed == Routed(r.operation, declared, s)
    <3>1. d = Shaped(r, s)
      BY <2>1, <2>4 DEF Resolve, CatalogPermits
    <3>2. Shaped(r, s)
            = CASE routed # "none" -> Decide(r.operation, routed)
                [] routed = "none" /\ SourceShapeSupports(r.operation, declared, s) ->
                      Decide(r.operation, declared)
                [] OTHER -> Opaque
      BY DEF Shaped
    <3>3. CASE routed # "none"
      <4>1. d = Decide(r.operation, routed)
        BY <3>1, <3>2, <3>3
      <4>2. /\ r.operation = "MapReference"
            /\ \/ routed = "sids" /\ IsBareSid(s)
               \/ routed = "guids" /\ IsGuid(s)
               \/ routed = "oids" /\ IsOid(s)
        <5> HIDE DEF declared
        <5> QED BY <3>3 DEF Routed
      <4> HIDE DEF d, routed
      <4> QED BY <1>2, <4>1, <4>2 DEF Resolved
    <3>4. CASE routed = "none" /\ SourceShapeSupports(r.operation, declared, s)
      <4>1. d = Decide(r.operation, declared)
        BY <3>1, <3>2, <3>4
      <4>2. d.namespace = declared
        BY <4>1 DEF Decide
      <4>3. /\ r.operation \notin {"PreserveSchemaValue", "PreserveConstant"}
            /\ d = Decide(r.operation, IF PermitsDomainRid(r, s) THEN "sids_preserve_rid"
                                       ELSE r.namespace)
            /\ SourceShapeSupports(r.operation, d.namespace, s)
        BY <2>1, <2>4, <3>4, <4>1, <4>2
      <4> HIDE DEF d
      <4> QED BY <1>2, <4>3 DEF Resolved
    <3>5. CASE ~(routed # "none") /\ ~(routed = "none" /\ SourceShapeSupports(r.operation, declared, s))
      <4>1. d = Opaque
        BY <3>1, <3>2, <3>5
      <4> HIDE DEF d
      <4> QED BY <4>1 DEF Resolved
    <3> QED BY <3>3, <3>4, <3>5
  <2> QED BY <2>2, <2>3, <2>4
<1> QED BY <1>1, <1>2

LEMMA PreservesKept ==
  ASSUME NEW r \in Rules \cup {NoRule}, NEW s, Preserves(r, s)
  PROVE  s \in Seq(Kept) /\ s # <<>> /\ r \in Rules /\ s \in r.permits
<1> DEFINE d == Resolve(r, s)
<1>1. Resolved(r, s, d) /\ d.operation = "PreserveConstant"
  BY ResolveIs DEF Preserves
<1> HIDE DEF d
<1>2. r \in Rules /\ s \in r.permits
  <2>1. CASE r = NoRule
    BY <1>1, <2>1, RuleIs DEF Resolved, Decide, Opaque
  <2>2. CASE r \in Rules
    BY <1>1, <2>2, RuleIs DEF Resolved, Decide, Opaque
  <2> QED BY <2>1, <2>2
<1> QED BY <1>2, ConstantsKept
----------------------------------------------------------------------------
(* Service principal names *)

LEMMA Assoc ==
  ASSUME NEW S, NEW a \in Seq(S), NEW b \in Seq(S), NEW c \in Seq(S)
  PROVE  a \o b \in Seq(S) /\ (a \o b) \o c = a \o (b \o c) /\ a \o <<>> = a
OBVIOUS

LEMMA AppendIs ==
  ASSUME NEW U, NEW f \in Seq(U), NEW u \in U
  PROVE  /\ Append(f, u) \in Seq(U) /\ Len(Append(f, u)) = Len(f) + 1
         /\ \A i \in 1..Len(f) : Append(f, u)[i] = f[i]
         /\ Append(f, u)[Len(f) + 1] = u
OBVIOUS

\* Two parts, three parts.
Two(x, y) == Append(<<x>>, y)
Three(x, y, z) == Append(Two(x, y), z)

Glue(a, c, b) == a \o (<<c>> \o b)

LEMMA TwoIs ==
  ASSUME NEW U, NEW x \in U, NEW y \in U
  PROVE  /\ Two(x, y) \in Seq(U) \ {<<>>} /\ Len(Two(x, y)) = 2
         /\ Two(x, y)[1] = x /\ Two(x, y)[2] = y
<1> DEFINE f == <<x>>
<1>1. f \in Seq(U) /\ Len(f) = 1 /\ f[1] = x /\ f # <<>> /\ Two(x, y) = Append(f, y)
  BY DEF Two
<1> HIDE DEF f
<1>2. /\ Append(f, y) \in Seq(U) /\ Len(Append(f, y)) = Len(f) + 1
      /\ \A i \in 1..Len(f) : Append(f, y)[i] = f[i]
      /\ Append(f, y)[Len(f) + 1] = y
  BY <1>1, AppendIs, ZenonT(60)
<1>3. Append(f, y) \in Seq(U) \ {<<>>}
  BY <1>1, AppendType
<1>4. Len(f) + 1 = 2 /\ 1 \in 1..Len(f)
  BY <1>1
<1>5. Append(f, y)[1] = f[1]
  BY <1>2, <1>4
<1> QED BY ONLY <1>1, <1>2, <1>3, <1>4, <1>5, Zenon

LEMMA ThreeIs ==
  ASSUME NEW U, NEW x \in U, NEW y \in U, NEW z \in U
  PROVE  /\ Three(x, y, z) \in Seq(U) \ {<<>>} /\ Len(Three(x, y, z)) = 3
         /\ Three(x, y, z)[1] = x /\ Three(x, y, z)[2] = y /\ Three(x, y, z)[3] = z
<1> DEFINE f == Two(x, y)
<1>1. /\ f \in Seq(U) \ {<<>>} /\ Len(f) = 2 /\ f[1] = x /\ f[2] = y
      /\ Three(x, y, z) = Append(f, z)
  BY TwoIs DEF Three
<1> HIDE DEF f
<1>2. /\ Append(f, z) \in Seq(U) /\ Len(Append(f, z)) = Len(f) + 1
      /\ \A i \in 1..Len(f) : Append(f, z)[i] = f[i]
      /\ Append(f, z)[Len(f) + 1] = z
  <2>1. f \in Seq(U)
    BY <1>1
  <2> QED BY <2>1, AppendIs
<1>3. Append(f, z) \in Seq(U) \ {<<>>}
  BY <1>1, AppendType
<1>4. Len(f) + 1 = 3 /\ 1 \in 1..Len(f) /\ 2 \in 1..Len(f)
  BY <1>1
<1>5. Append(f, z)[1] = f[1] /\ Append(f, z)[2] = f[2]
  BY <1>2, <1>4
<1> QED BY ONLY <1>1, <1>2, <1>3, <1>4, <1>5, Zenon

LEMMA JoinTwo ==
  ASSUME NEW S, NEW c, NEW x \in Seq(S), NEW y \in Seq(S)
  PROVE  Join(Two(x, y), c) = Glue(x, c, y)
<1> DEFINE f == <<x>>
           U == Seq(S)
<1>1. Join(f, c) = x
  BY JoinOne
<1>2. f \in Seq(U) /\ f # <<>>
  <2>1. x \in U
    OBVIOUS
  <2> HIDE DEF U
  <2> QED BY <2>1
<1>3. Two(x, y) = Append(f, y)
  BY DEF Two
<1> HIDE DEF f
<1>4. f \in Parts(S)
  BY <1>2 DEF Parts
<1>5. Join(Append(f, y), c) = Join(f, c) \o (<<c>> \o y)
  BY <1>4, JoinSnoc, ZenonT(60)
<1> QED BY <1>1, <1>3, <1>5 DEF Glue

LEMMA JoinThree ==
  ASSUME NEW S, NEW c, NEW x \in Seq(S), NEW y \in Seq(S), NEW z \in Seq(S)
  PROVE  Join(Three(x, y, z), c) = Glue(Glue(x, c, y), c, z)
<1>1. Join(Two(x, y), c) = Glue(x, c, y)
  BY JoinTwo
<1>2. Two(x, y) \in Parts(S)
  <2> DEFINE U == Seq(S)
  <2>1. x \in U /\ y \in U
    OBVIOUS
  <2> HIDE DEF U
  <2>2. Two(x, y) \in Seq(U) \ {<<>>}
    BY <2>1, TwoIs
  <2> QED BY <2>2 DEF Parts, U
<1> DEFINE f == Two(x, y)
<1>3. f \in Parts(S) /\ Three(x, y, z) = Append(f, z)
  BY <1>2 DEF Three
<1> HIDE DEF f
<1>4. Join(Append(f, z), c) = Join(f, c) \o (<<c>> \o z)
  BY <1>3, JoinSnoc, ZenonT(60)
<1>5. Join(f, c) = Glue(x, c, y)
  BY <1>1 DEF f
<1>6. Glue(Glue(x, c, y), c, z) = Glue(x, c, y) \o (<<c>> \o z)
  BY DEF Glue
<1> QED BY <1>3, <1>4, <1>5, <1>6

\* What the three parts of an SPN are written as.
SpnClass(s) == LET p == Split(s, "/") IN
    IF p[1] = <<"http">> THEN <<"http">> ELSE NameToken(p[1], FALSE)
SpnHost(s) == LET h == Split(Split(s, "/")[2], ":") IN
    IF Len(h) = 2 THEN DnsHostName(h[1]) \o (<<":">> \o Suffix(h[2])) ELSE DnsHostName(h[1])
SpnService(s) == DnsHostName(Split(s, "/")[3])

LEMMA SpnIs ==
  ASSUME NEW s \in Seq(Symbols), SpnParses(s)
  PROVE  /\ Len(Split(s, "/")) \in {2, 3}
         /\ SpnClass(s) \in Seq(Clean \ {"/"}) /\ SpnClass(s) # <<>>
         /\ SpnHost(s) \in Seq(Clean \ {"/"}) /\ SpnHost(s) # <<>>
         /\ Has(SpnHost(s), "hosts")
         /\ Len(Split(s, "/")) = 3 =>
               SpnService(s) \in Seq(Clean \ {"/"}) /\ SpnService(s) # <<>>
         /\ Spn(s) = IF Len(Split(s, "/")) = 3
                     THEN Join(Three(SpnClass(s), SpnHost(s), SpnService(s)), "/")
                     ELSE Join(Two(SpnClass(s), SpnHost(s)), "/")
<1> DEFINE p == Split(s, "/")
           h == Split(p[2], ":")
           C == Clean \ {"/"}
           D == Kept \cup {"."}
           x == SpnClass(s)
           y == SpnHost(s)
           z == SpnService(s)
           n == DnsHostName(h[1])
           f == Suffix(h[2])
           m == DnsHostName(p[3])
<1>1. /\ Len(p) \in {2, 3} /\ Len(h) \in {1, 2}
      /\ p \in Parts(Symbols \ {"/"}) /\ p[2] \in Seq(Symbols)
      /\ h \in Parts(Symbols \ {":"}) /\ h[1] \in Seq(Symbols)
      /\ Len(h) = 2 => h[2] \in Seq(Symbols)
      /\ Len(p) = 3 => p[3] \in Seq(Symbols)
  <2>1. Len(p) \in {2, 3} /\ Len(h) \in {1, 2}
    BY DEF SpnParses
  <2>2. p \in Parts(Symbols \ {"/"})
    BY SplitType
  <2> HIDE DEF p
  <2>3. /\ Len(p) \in Nat \ {0} /\ \A i \in 1..Len(p) : p[i] \in Seq(Symbols \ {"/"})
    BY <2>2, PartsFacts
  <2>4. p[2] \in Seq(Symbols) /\ (Len(p) = 3 => p[3] \in Seq(Symbols))
    BY <2>1, <2>3, Wider
  <2>5. h \in Parts(Symbols \ {":"})
    BY <2>4, SplitType
  <2> HIDE DEF h
  <2>6. /\ Len(h) \in Nat \ {0} /\ \A i \in 1..Len(h) : h[i] \in Seq(Symbols \ {":"})
    BY <2>5, PartsFacts
  <2>7. h[1] \in Seq(Symbols) /\ (Len(h) = 2 => h[2] \in Seq(Symbols))
    BY <2>1, <2>6, Wider
  <2> QED BY <2>1, <2>2, <2>4, <2>5, <2>7
<1>2. Kept \subseteq C /\ D \subseteq C /\ ":" \in C /\ Kept \subseteq Clean /\ "/" \notin C
  <2>1. "/" \notin Kept /\ "/" # "." /\ "/" # ":" /\ Kept \subseteq Clean
    BY DEF Kept, Separators
  <2> QED BY <2>1, KeptTokens
<1>3. \A v : NameToken(v, FALSE) \in Seq(C) /\ NameToken(v, FALSE) # <<>>
  BY <1>2, TokensClean, Wider
<1>4. \A v \in Seq(Symbols) :
         DnsHostName(v) \in Seq(C) /\ DnsHostName(v) # <<>> /\ Has(DnsHostName(v), "hosts")
  <2> SUFFICES ASSUME NEW v \in Seq(Symbols)
               PROVE  DnsHostName(v) \in Seq(C) /\ DnsHostName(v) # <<>> /\ Has(DnsHostName(v), "hosts")
    OBVIOUS
  <2>1. DnsHostName(v) \in Seq(D)
    BY DomainsClean
  <2>2. DnsHostName(v) # <<>> /\ DnsHostName(v)[1] = "hosts"
    <3>1. \A g \in Seq(Symbols) : \A e \in Seq(Clean) :
             <<"hosts", ".">> \o e # <<>> /\ (<<"hosts", ".">> \o e)[1] = "hosts"
      OBVIOUS
    <3>2. CASE Has(v, ".")
      <4>1. Domain(SplitOnce(v, ".")[2]) \in Seq(Clean)
        BY <3>2, SplitOnceFacts, DomainsClean
      <4> DEFINE e == Domain(SplitOnce(v, ".")[2])
      <4>2. DnsHostName(v) = <<"hosts", ".">> \o e
        BY <3>2 DEF DnsHostName
      <4>3. e \in Seq(Clean)
        BY <4>1
      <4> HIDE DEF e
      <4> QED BY <4>2, <4>3
    <3>3. CASE ~Has(v, ".")
      BY <3>3 DEF DnsHostName
    <3> QED BY <3>2, <3>3
  <2> DEFINE e == DnsHostName(v)
  <2>3. e \in Seq(D) /\ e # <<>> /\ e[1] = "hosts"
    BY <2>1, <2>2
  <2> HIDE DEF e, D, C
  <2>4. 1 \in DOMAIN e
    BY <2>3
  <2>5. Has(e, "hosts")
    BY <2>3, <2>4 DEF Has
  <2> QED BY <1>2, <2>3, <2>5, Wider DEF e
<1>5. x \in Seq(C) /\ x # <<>>
  <2>1. <<"http">> \in Seq(C) /\ <<"http">> # <<>>
    BY <1>2, KeptTokens, OneSymbol
  <2> HIDE DEF p, C
  <2> QED BY <1>3, <2>1 DEF SpnClass
<1>6. n \in Seq(C) /\ n # <<>> /\ Has(n, "hosts")
  BY <1>1, <1>4
<1>7. f \in Seq(C)
  <2>1. <<"9">> \in Seq(C)
    BY <1>2, KeptTokens, OneSymbol
  <2> HIDE DEF h, C
  <2> QED BY <1>3, <2>1 DEF Suffix
<1>8. y = IF Len(h) = 2 THEN n \o (<<":">> \o f) ELSE n
  BY DEF SpnHost
<1>9. y \in Seq(C) /\ y # <<>> /\ Has(y, "hosts")
  <2> HIDE DEF n, f, y, h, C
  <2>1. ASSUME NEW a \in Seq(C), NEW b \in Seq(C), a # <<>>, Has(a, "hosts")
        PROVE  LET e == a \o (<<":">> \o b) IN e \in Seq(C) /\ e # <<>> /\ Has(e, "hosts")
    <3> DEFINE e == a \o (<<":">> \o b)
    <3>1. e \in Seq(C) /\ Len(e) = Len(a) + 1 + Len(b) /\ \A i \in 1..Len(a) : e[i] = a[i]
      BY <1>2, MiddleIs
    <3>2. PICK i \in 1..Len(a) : a[i] = "hosts"
      BY <2>1 DEF Has
    <3> HIDE DEF e
    <3>3. i \in DOMAIN e /\ e[i] = "hosts"
      BY <3>1, <3>2
    <3>4. e # <<>>
      BY <3>3
    <3> QED BY <3>1, <3>3, <3>4 DEF Has, e
  <2> QED BY <1>6, <1>7, <1>8, <2>1
<1>10. Len(p) = 3 => z \in Seq(C) /\ z # <<>>
  BY <1>1, <1>4, SMTT(30) DEF SpnService
<1>11. Spn(s) = x \o <<"/">> \o n
                \o (IF Len(h) = 2 THEN <<":">> \o f ELSE <<>>)
                \o (IF Len(p) = 3 THEN <<"/">> \o m ELSE <<>>)
  BY DEF Spn, SpnClass
<1>12. m = z
  BY DEF SpnService
<1> HIDE DEF p, h, x, y, z, n, f, m
<1>13. Spn(s) = IF Len(p) = 3 THEN (x \o (<<"/">> \o y)) \o (<<"/">> \o z) ELSE x \o (<<"/">> \o y)
  <2> HIDE DEF C
  <2>1. ASSUME NEW a \in Seq(C), NEW b \in Seq(C), NEW c \in Seq(C)
        PROVE  /\ a \o <<"/">> \o b = a \o (<<"/">> \o b)
               /\ a \o <<"/">> \o b \o (<<":">> \o c) = a \o (<<"/">> \o (b \o (<<":">> \o c)))
               /\ a \o <<"/">> \o b \o <<>> = a \o (<<"/">> \o b)
    <3> DEFINE G == C \cup {"/"}
    <3>1. a \in Seq(G) /\ b \in Seq(G) /\ c \in Seq(G)
      OBVIOUS
    <3>2. <<"/">> \in Seq(G) /\ <<":">> \in Seq(G)
      BY <1>2
    <3> HIDE DEF G
    <3>3. a \o <<"/">> \o b = a \o (<<"/">> \o b) /\ a \o <<"/">> \in Seq(G)
      BY <3>1, <3>2, Assoc
    <3>4. b \o (<<":">> \o c) \in Seq(G) /\ <<":">> \o c \in Seq(G) /\ <<"/">> \o b \in Seq(G)
      BY <3>1, <3>2, Assoc
    <3>5. a \o <<"/">> \o b \o (<<":">> \o c) = a \o <<"/">> \o (b \o (<<":">> \o c))
      BY <3>1, <3>3, <3>4, Assoc, SMTT(60)
    <3>6. a \o <<"/">> \o (b \o (<<":">> \o c)) = a \o (<<"/">> \o (b \o (<<":">> \o c)))
      BY <3>1, <3>2, <3>4, Assoc, SMTT(60)
    <3>7. a \o <<"/">> \o b \in Seq(G) /\ a \o <<"/">> \o b \o <<>> = a \o <<"/">> \o b
      BY <3>1, <3>3, Assoc
    <3> QED BY <3>3, <3>5, <3>6, <3>7
  <2>2. x \o <<"/">> \o n \o (IF Len(h) = 2 THEN <<":">> \o f ELSE <<>>) = x \o (<<"/">> \o y)
    <3>1. CASE Len(h) = 2
      BY <1>5, <1>6, <1>7, <1>8, <2>1, <3>1
    <3>2. CASE Len(h) # 2
      BY <1>5, <1>6, <1>7, <1>8, <2>1, <3>2
    <3> QED BY <3>1, <3>2
  <2> DEFINE g == x \o (<<"/">> \o y)
  <2>3. g \in Seq(C \cup {"/"}) /\ g \o <<>> = g
    BY <1>5, <1>9
  <2>4. Spn(s) = g \o (IF Len(p) = 3 THEN <<"/">> \o z ELSE <<>>)
    BY <1>11, <1>12, <2>2
  <2> HIDE DEF g
  <2>5. Spn(s) = IF Len(p) = 3 THEN g \o (<<"/">> \o z) ELSE g
    BY <2>3, <2>4
  <2> QED BY <2>5 DEF g
<1>14. Spn(s) = IF Len(p) = 3 THEN Glue(Glue(x, "/", y), "/", z) ELSE Glue(x, "/", y)
  BY <1>13 DEF Glue
<1>15. Spn(s) = IF Len(p) = 3 THEN Join(Three(x, y, z), "/") ELSE Join(Two(x, y), "/")
  <2> HIDE DEF C
  <2>1. CASE Len(p) = 3
    BY <1>5, <1>9, <1>10, <1>14, <2>1, JoinThree
  <2>2. CASE Len(p) # 3
    BY <1>5, <1>9, <1>14, <2>2, JoinTwo
  <2> QED BY <2>1, <2>2
<1> QED BY <1>1, <1>5, <1>9, <1>10, <1>15 DEF p, x, y, z
----------------------------------------------------------------------------
(* What the engine writes of a string *)

LEMMA KeptClean ==
  ASSUME NEW s \in Seq(Kept)
  PROVE  s \in Seq(Clean)
<1>1. Kept \subseteq Clean
  BY DEF Kept
<1> QED BY <1>1, Wider

LEMMA OneKept ==
  /\ <<"opaque">> \in Seq(Clean) /\ <<"REDACTED">> \in Seq(Clean) /\ <<"guids">> \in Seq(Clean)
  /\ <<"oids">> \in Seq(Clean) /\ <<"cert_templates">> \in Seq(Clean)
<1>1. /\ <<"opaque">> \in Seq(Kept) /\ <<"REDACTED">> \in Seq(Kept) /\ <<"guids">> \in Seq(Kept)
      /\ <<"oids">> \in Seq(Kept) /\ <<"cert_templates">> \in Seq(Kept)
  BY KeptTokens, OneSymbol
<1> QED BY <1>1, KeptClean

LEMMA SidClean ==
  ASSUME NEW s \in Seq(Symbols), s # <<>>, NEW b \in BOOLEAN
  PROVE  Sid(s, b) \in Seq(Clean)
<1>1. {".", "domains", "local", "-", "sid", "sids"} \subseteq Clean
  BY KeptTokens DEF Kept
<1>2. Sid(s, b) \in Seq({".", "domains", "local", "-", "sid", "sids"})
  BY SidType
<1> QED BY <1>1, <1>2, Wider

\* No value is of two kinds.
LEMMA KindsApart ==
  ASSUME NEW s
  PROVE  /\ IsSid(s) => ~IsGuid(s) /\ ~IsOid(s)
         /\ IsGuid(s) => ~IsOid(s)
<1>1. ~IsSid(<<"guid">>) /\ ~IsSid(<<"guids">>) /\ ~IsSid(<<"oid">>) /\ ~IsSid(<<"oids">>)
  BY DEF IsSid
<1>2. <<"guid">> # <<"oid">> /\ <<"guid">> # <<"oids">> /\ <<"guids">> # <<"oid">> /\ <<"guids">> # <<"oids">>
  OBVIOUS
<1>3. <<"gpo">> # <<"oid">> /\ <<"gpo">> # <<"oids">> /\ ~IsSid(<<"gpo">>)
  BY DEF IsSid
<1> QED BY <1>1, <1>2, <1>3 DEF IsGuid, IsOid

LEMMA CustomClean ==
  ASSUME NEW s \in Seq(Symbols), NEW namespace
  PROVE  MapCustomIdentifier(namespace, s) \in Seq(Clean)
<1>1. CASE IsSid(s)
  <2>1. s # <<>>
    BY <1>1 DEF IsSid
  <2>2. (namespace = "sids_preserve_rid") \in BOOLEAN
    OBVIOUS
  <2>3. Sid(s, namespace = "sids_preserve_rid") \in Seq(Clean)
    BY <2>1, <2>2, SidClean
  <2>4. MapCustomIdentifier(namespace, s) = Sid(s, namespace = "sids_preserve_rid")
    BY <1>1, KindsApart DEF MapCustomIdentifier
  <2> QED BY <2>3, <2>4
<1>2. CASE ~IsSid(s)
  <2>1. MapCustomIdentifier(namespace, s) \in {<<"guids">>, <<"oids">>, <<"opaque">>}
    BY <1>2 DEF MapCustomIdentifier, Guid, Oid
  <2> HIDE DEF Clean
  <2> QED BY <2>1, OneKept
<1> QED BY <1>1, <1>2

LEMMA SpnClean ==
  ASSUME NEW s \in Seq(Symbols), SpnParses(s)
  PROVE  Spn(s) \in Seq(Clean)
<1> DEFINE x == SpnClass(s)
           y == SpnHost(s)
           z == SpnService(s)
           U == Seq(Clean)
<1>1. /\ x \in U /\ y \in U /\ (Len(Split(s, "/")) = 3 => z \in U)
      /\ Spn(s) = IF Len(Split(s, "/")) = 3 THEN Join(Three(x, y, z), "/") ELSE Join(Two(x, y), "/")
  <2>1. Clean \ {"/"} \subseteq Clean
    OBVIOUS
  <2> HIDE DEF x, y, z
  <2> QED BY <2>1, SpnIs, Wider DEF x, y, z
<1>2. "/" \in Clean
  BY KeptTokens
<1> HIDE DEF x, y, z
<1>3. CASE Len(Split(s, "/")) = 3
  <2> HIDE DEF U
  <2>1. Three(x, y, z) \in Seq(U) \ {<<>>}
    BY <1>1, <1>3, ThreeIs
  <2>2. Three(x, y, z) \in Parts(Clean)
    BY <2>1 DEF U, Parts
  <2>3. Join(Three(x, y, z), "/") \in Seq(Clean)
    BY <1>2, <2>2, JoinType
  <2> QED BY <1>1, <1>3, <2>3
<1>4. CASE Len(Split(s, "/")) # 3
  <2> HIDE DEF U
  <2>1. Two(x, y) \in Seq(U) \ {<<>>}
    BY <1>1, TwoIs
  <2>2. Two(x, y) \in Parts(Clean)
    BY <2>1 DEF U, Parts
  <2>3. Join(Two(x, y), "/") \in Seq(Clean)
    BY <1>2, <2>2, JoinType
  <2> QED BY <1>1, <1>4, <2>3
<1> QED BY <1>3, <1>4

LEMMA IdentityClean ==
  ASSUME NEW r \in Rules, NEW s \in Seq(Symbols),
         NEW namespace \in {"accounts", "cert_templates", "domains", "hosts"}
  PROVE  MapIdentity(r, namespace, s) \in Seq(Clean)
<1>1. CASE r.path = "name" /\ Has(s, "@")
  <2> DEFINE u == RSplitOnce(s, "@")[1]
             v == RSplitOnce(s, "@")[2]
             a == IF namespace = "cert_templates" THEN Template(u, Preserves(r, u))
                  ELSE NameToken(u, Preserves(r, u))
             b == Domain(v)
  <2>1. u \in Seq(Symbols) /\ v \in Seq(Symbols \ {"@"})
    BY <1>1, RSplitOnceFacts
  <2>2. a \in Seq(Clean)
    <3>1. CASE Preserves(r, u)
      <4>1. u \in Seq(Clean)
        BY <3>1, PreservesKept, KeptClean
      <4>2. a = u
        BY <3>1 DEF Template, NameToken
      <4> QED BY <4>1, <4>2
    <3>2. CASE ~Preserves(r, u)
      <4>1. Preserves(r, u) = FALSE
        BY <3>2 DEF Preserves
      <4>2. a = IF namespace = "cert_templates" THEN <<"cert_templates">> ELSE NameToken(u, FALSE)
        BY <4>1 DEF Template
      <4> HIDE DEF a, u
      <4> QED BY <4>2, OneKept, TokensClean, KeptClean
    <3> QED BY <3>1, <3>2
  <2>3. b \in Seq(Clean)
    BY <2>1, DomainsClean
  <2>4. "@" \in Clean
    BY KeptTokens
  <2>5. MapIdentity(r, namespace, s) = a \o <<"@">> \o b
    BY <1>1 DEF MapIdentity
  <2> HIDE DEF a, b
  <2> QED BY <2>2, <2>3, <2>4, <2>5, Around2
<1>2. CASE ~(r.path = "name" /\ Has(s, "@"))
  <2>1. CASE namespace = "domains"
    BY <1>2, <2>1, DomainsClean DEF MapIdentity
  <2>2. CASE namespace = "hosts"
    BY <1>2, <2>2, DomainsClean DEF MapIdentity
  <2>3. CASE namespace = "cert_templates"
    <3>1. MapIdentity(r, namespace, s) = <<"cert_templates">>
      BY <1>2, <2>3 DEF MapIdentity, Template
    <3> QED BY <3>1, OneKept
  <2>4. CASE namespace = "accounts"
    <3>1. MapIdentity(r, namespace, s) \in {SamAccountName(s), UpnName(s), NameToken(s, FALSE)}
      BY <1>2, <2>4 DEF MapIdentity
    <3>2. NameToken(s, FALSE) \in Seq(Clean)
      BY TokensClean, KeptClean
    <3> QED BY <3>1, <3>2, SamAccountNameClean, UpnNameClean
  <2> QED BY <2>1, <2>2, <2>3, <2>4
<1> QED BY <1>1, <1>2

LEMMA ReferenceClean ==
  ASSUME NEW s \in Seq(Symbols),
         NEW namespace \in {"sids", "sids_preserve_rid", "guids", "oids", "identifiers",
                            "cert_templates", "domains"},
         namespace \in {"sids", "sids_preserve_rid"} => IsBareSid(s)
  PROVE  MapReference(namespace, s) \in Seq(Clean)
<1>1. CASE namespace \in {"sids", "sids_preserve_rid"}
  <2>1. s # <<>> /\ (namespace = "sids_preserve_rid") \in BOOLEAN
    BY <1>1 DEF IsBareSid, IsSid
  <2>2. Sid(s, namespace = "sids_preserve_rid") \in Seq(Clean)
    BY <2>1, SidClean
  <2>3. MapReference(namespace, s) = Sid(s, namespace = "sids_preserve_rid")
    BY <1>1 DEF MapReference
  <2> QED BY <2>2, <2>3
<1>2. CASE namespace \in {"guids", "oids", "cert_templates"}
  <2>1. MapReference(namespace, s) \in {<<"guids">>, <<"oids">>, <<"cert_templates">>}
    BY <1>2 DEF MapReference, Guid, Oid, Template
  <2> HIDE DEF Clean
  <2> QED BY <2>1, OneKept
<1>3. CASE namespace = "domains"
  BY <1>3, DomainsClean DEF MapReference
<1>4. CASE namespace = "identifiers"
  BY <1>4, CustomClean DEF MapReference
<1> QED BY <1>1, <1>2, <1>3, <1>4

LEMMA EmptyClean == <<>> \in Seq(Clean)
OBVIOUS

LEMMA GroupClean ==
  ASSUME NEW r \in Rules \cup {NoRule}, NEW s \in Seq(Symbols)
  PROVE  AdLocalGroupName(s, Has(s, "@") /\ Preserves(r, RSplitOnce(s, "@")[1])) \in Seq(Clean)
<1> DEFINE b == Has(s, "@") /\ Preserves(r, RSplitOnce(s, "@")[1])
<1>1. b \in BOOLEAN
  BY DEF Preserves, Has
<1>2. CASE Has(s, "@")
  <2>1. b => RSplitOnce(s, "@")[1] \in Seq(Kept)
    BY PreservesKept
  <2> HIDE DEF b
  <2>2. AdLocalGroupName(s, b) \in Seq(Clean)
    BY <1>1, <1>2, <2>1, GroupNameIs
  <2> QED BY <2>2 DEF b
<1>3. CASE ~Has(s, "@")
  <2>1. b = FALSE
    BY <1>3 DEF Has
  <2> HIDE DEF b
  <2>2. AdLocalGroupName(s, b) = NameToken(s, FALSE)
    BY <1>3, <2>1 DEF AdLocalGroupName
  <2>3. NameToken(s, FALSE) \in Seq(Clean)
    BY TokensClean, KeptClean
  <2> QED BY <2>2, <2>3 DEF b
<1> QED BY <1>2, <1>3

\* Whatever the policy decides of a string, the engine writes nothing of the
\* organization.
LEMMA AppliedClean ==
  ASSUME NEW r \in Rules \cup {NoRule}, NEW s \in Seq(Symbols)
  PROVE  Applied(r, Resolve(r, s), s) \in Seq(Clean)
<1> DEFINE d == Resolve(r, s)
<1>1. Resolved(r, s, d)
  BY ResolveIs
<1> SUFFICES Applied(r, d, s) \in Seq(Clean)
  OBVIOUS
<1> HIDE DEF d
<1>2. CASE r.path = "secret" /\ s # <<>>
  <2>1. Applied(r, d, s) = <<"REDACTED">>
    BY <1>2 DEF Applied
  <2> QED BY <2>1, OneKept
<1>3. CASE ~(r.path = "secret" /\ s # <<>>)
  <2>1. CASE d.operation = "ReplaceOpaque"
    <3>1. Applied(r, d, s) = IF s = <<>> THEN s ELSE <<"opaque">>
      BY <1>3, <2>1 DEF Applied
    <3> QED BY <3>1, OneKept, EmptyClean
  <2>2. CASE d.operation \in {"PreserveConstant", "PreserveSchemaValue"}
    <3>1. Applied(r, d, s) = s
      BY <1>3, <2>2 DEF Applied
    <3>2. r \in Rules /\ s \in r.permits \cup r.allowed
      <4>1. CASE r = NoRule
        BY <1>1, <2>2, <4>1, RuleIs DEF Resolved, Decide, Opaque
      <4>2. CASE r \in Rules
        BY <1>1, <2>2, <4>2, RuleIs DEF Resolved, Decide, Opaque
      <4> QED BY <4>1, <4>2
    <3> QED BY <3>1, <3>2, ConstantsKept, KeptClean
  <2>3. CASE d.operation = "MapCustomIdentifier"
    <3>1. Applied(r, d, s) = MapCustomIdentifier(d.namespace, s)
      BY <1>3, <2>3 DEF Applied
    <3> QED BY <3>1, CustomClean
  <2>4. CASE d.operation = "MapReference"
    <3>1. Applied(r, d, s) = MapReference(d.namespace, s)
      BY <1>3, <2>4 DEF Applied
    <3>2. r \in Rules /\ r.operation = "MapReference"
      BY <1>1, <2>4, RuleIs DEF Resolved, Decide, Opaque
    <3>3. r.namespace \in {"sids", "identifiers", "cert_templates", "domains"}
      BY <3>2, TablesAssumption
    <3>4. /\ d.namespace \in {"sids", "sids_preserve_rid", "guids", "oids", "identifiers",
                              "cert_templates", "domains"}
          /\ d.namespace \in {"sids", "sids_preserve_rid"} => IsBareSid(s)
      BY <1>1, <2>4, <3>2, <3>3, RuleIs DEF Resolved, Decide, Opaque, SourceShapeSupports
    <3> QED BY <3>1, <3>4, ReferenceClean
  <2>5. CASE d.operation \in {"MapIdentity", "ParseDn", "ParseSpn", "ParseComposite"}
    <3>1. /\ r \in Rules /\ r.operation = d.operation
          /\ d.namespace = IF PermitsDomainRid(r, s) THEN "sids_preserve_rid" ELSE r.namespace
          /\ SourceShapeSupports(r.operation, d.namespace, s)
      BY <1>1, <2>5, RuleIs DEF Resolved, Decide, Opaque
    <3>2. d.namespace = r.namespace
      BY <2>5, <3>1 DEF PermitsDomainRid
    <3>3. CASE d.operation = "MapIdentity"
      <4>1. Applied(r, d, s) = MapIdentity(r, d.namespace, s)
        BY <1>3, <3>3 DEF Applied
      <4>2. d.namespace \in {"accounts", "cert_templates", "domains", "hosts"}
        BY <3>1, <3>2, <3>3, TablesAssumption
      <4> QED BY <3>1, <4>1, <4>2, IdentityClean
    <3>4. CASE d.operation = "ParseDn"
      <4> DEFINE p == {c \in r.permits : Preserves(r, c)}
      <4>1. Applied(r, d, s) = Dn(s, p)
        BY <1>3, <3>4 DEF Applied
      <4>2. p \subseteq Seq(Kept) \ {<<>>}
        BY <3>1, ConstantsKept
      <4>3. StandardTypes(s)
        BY <3>1, <3>4 DEF SourceShapeSupports, DnShape
      <4> HIDE DEF p
      <4> QED BY <4>1, <4>2, <4>3, DnClean
    <3>5. CASE d.operation = "ParseSpn"
      <4>1. Applied(r, d, s) = IF Spn(s) # s THEN Spn(s) ELSE <<"opaque">>
        BY <1>3, <3>5, SMTT(60) DEF Applied
      <4>2. Spn(s) # s => SpnParses(s)
        BY DEF Spn
      <4> QED BY <4>1, <4>2, SpnClean, OneKept
    <3>6. CASE d.operation = "ParseComposite"
      <4>1. Applied(r, d, s)
              = AdLocalGroupName(s, Has(s, "@") /\ Preserves(r, RSplitOnce(s, "@")[1]))
        BY <1>3, <3>6 DEF Applied
      <4> QED BY <4>1, GroupClean
    <3> QED BY <2>5, <3>3, <3>4, <3>5, <3>6
  <2>6. d.operation \in Operations
    BY <1>1, RuleIs DEF Resolved, Decide, Opaque, Operations
  <2> QED BY <2>1, <2>2, <2>3, <2>4, <2>5, <2>6 DEF Operations
<1> QED BY <1>2, <1>3
----------------------------------------------------------------------------
(* The gate *)

\* Where a leaf stands says what was decided of it, what was written, and what
\* the gate found.
GateIInv ==
    /\ leaf \in Leaves /\ redacting \in BOOLEAN
    /\ stage \in {"visit", "apply", "gate", "published", "aborted"}
    /\ leaf.kind = "string" /\ stage # "visit" => decision = Resolve(leaf.rule, leaf.s)
    /\ leaf.kind = "string" /\ stage \in {"gate", "published", "aborted"} =>
          output = Applied(leaf.rule, decision, leaf.s)
    /\ leaf.kind = "string" =>
          /\ stage = "published" => OutputShapeValid(leaf.rule, decision, leaf.s, output)
          /\ stage = "aborted" => ~OutputShapeValid(leaf.rule, decision, leaf.s, output)
    /\ leaf.kind = "number" =>
          /\ stage \in {"visit", "published", "aborted"}
          /\ stage = "published" =>
                /\ ~(Redacted(leaf) /\ ~Parses(leaf.x))
                /\ number = IF Redacted(leaf) THEN Sentinel(leaf.x) ELSE leaf.x
          /\ stage = "aborted" => Redacted(leaf) /\ ~Parses(leaf.x)

LEMMA LeafIs ==
  ASSUME NEW l \in Leaves
  PROVE  /\ l.kind \in {"string", "number"} /\ l.rule \in Rules \cup {NoRule}
         /\ l.kind = "string" => l.s \in Strings[l.rule] /\ l.s \in Seq(Symbols)
         /\ l.kind = "number" => l.x \in Numbers /\ l.s = <<>>
<1>1. DOMAIN Strings = Rules \cup {NoRule}
  BY GateAssumption
<1>2. CASE l \in UNION {[kind : {"string"}, rule : {r}, s : Strings[r], x : {Zero}] : r \in DOMAIN Strings}
  <2>1. PICK r \in DOMAIN Strings : l \in [kind : {"string"}, rule : {r}, s : Strings[r], x : {Zero}]
    BY <1>2
  <2>2. l.kind = "string" /\ l.rule = r /\ l.s \in Strings[r]
    BY <2>1
  <2>3. Strings[r] \subseteq Seq(Symbols)
    BY <1>1, GateAssumption
  <2> QED BY <1>1, <2>2, <2>3
<1>3. CASE l \in [kind : {"number"}, rule : DOMAIN Strings, s : {<<>>}, x : Numbers]
  <2>1. l.kind = "number" /\ l.rule \in DOMAIN Strings /\ l.x \in Numbers /\ l.s = <<>>
    BY <1>3
  <2> QED BY <1>1, <2>1
<1> QED BY <1>2, <1>3 DEF Leaves

\* The stages of a leaf go in one order.
THEOREM GateInvariant == GateSpec => []GateIInv
<1>1. GateInit => GateIInv
  BY LeafIs DEF GateInit, GateIInv
<1>2. ASSUME GateIInv, [GateNext]_gateVars
      PROVE  GateIInv'
  <2>0. /\ leaf \in Leaves /\ redacting \in BOOLEAN
        /\ leaf.kind \in {"string", "number"}
    BY <1>2, LeafIs DEF GateIInv
  <2>1. CASE Number
    <3>1. /\ leaf.kind = "number" /\ leaf' = leaf /\ redacting' = redacting
          /\ IF Redacted(leaf) /\ ~Parses(leaf.x) THEN stage' = "aborted"
             ELSE /\ stage' = "published"
                  /\ number' = IF Redacted(leaf) THEN Sentinel(leaf.x) ELSE leaf.x
      BY <2>1 DEF Number
    <3> QED BY <2>0, <3>1 DEF GateIInv, Redacted
  <2>2. CASE DecideString
    <3>1. /\ leaf.kind = "string" /\ leaf' = leaf /\ redacting' = redacting
          /\ stage' = "apply" /\ decision' = Resolve(leaf.rule, leaf.s)
      BY <2>2 DEF DecideString
    <3> QED BY <2>0, <3>1 DEF GateIInv
  <2>3. CASE Apply
    <3>1. /\ stage = "apply" /\ leaf' = leaf /\ redacting' = redacting /\ decision' = decision
          /\ stage' = "gate" /\ output' = Applied(leaf.rule, decision, leaf.s)
      BY <2>3 DEF Apply
    <3>2. leaf.kind = "string" /\ decision = Resolve(leaf.rule, leaf.s)
      BY <1>2, <2>0, <3>1 DEF GateIInv
    <3> QED BY <2>0, <3>1, <3>2 DEF GateIInv
  <2>4. CASE Gate
    <3>1. /\ stage = "gate" /\ leaf' = leaf /\ redacting' = redacting /\ decision' = decision
          /\ output' = output
          /\ stage' = IF OutputShapeValid(leaf.rule, decision, leaf.s, output)
                      THEN "published" ELSE "aborted"
      BY <2>4 DEF Gate
    <3>2. /\ leaf.kind = "string" /\ decision = Resolve(leaf.rule, leaf.s)
          /\ output = Applied(leaf.rule, decision, leaf.s)
      BY <1>2, <2>0, <3>1 DEF GateIInv
    <3> QED BY <2>0, <3>1, <3>2 DEF GateIInv
  <2>5. CASE UNCHANGED gateVars
    BY <1>2, <2>5 DEF GateIInv, gateVars, Redacted
  <2> QED BY <1>2, <2>1, <2>2, <2>3, <2>4, <2>5 DEF GateNext
<1> QED BY <1>1, <1>2, PTL DEF GateSpec

LEMMA SentinelDiffers ==
  ASSUME NEW x \in Numbers
  PROVE  Sentinel(x) # x
<1>1. x.n # Sentinel(x).n
  BY DEF Numbers, Sentinel
<1> QED BY <1>1

\* Nothing of the organization reaches a published output, whatever the tables
\* declare, the catalog keeps and the value looks like (visit,
\* apply_string_operation and the transforms they call).
THEOREM NothingLeaksHolds == GateSpec => []NothingLeaks
<1>1. GateIInv => NothingLeaks
  <2> SUFFICES ASSUME GateIInv, stage = "published"
               PROVE  IF leaf.kind = "number" THEN Redacted(leaf) => number # leaf.x
                      ELSE \A i \in DOMAIN output : output[i] \notin Sensitive
    BY DEF NothingLeaks, Redacted
  <2>1. CASE leaf.kind = "number"
    <3>1. leaf.x \in Numbers /\ number = IF Redacted(leaf) THEN Sentinel(leaf.x) ELSE leaf.x
      BY <2>1, LeafIs DEF GateIInv
    <3> QED BY <2>1, <3>1, SentinelDiffers
  <2>2. CASE leaf.kind = "string"
    <3>1. leaf.rule \in Rules \cup {NoRule} /\ leaf.s \in Seq(Symbols)
      BY <2>2, LeafIs DEF GateIInv
    <3>2. output = Applied(leaf.rule, Resolve(leaf.rule, leaf.s), leaf.s)
      BY <2>2 DEF GateIInv
    <3>3. output \in Seq(Clean)
      BY <3>1, <3>2, AppliedClean
    <3>4. \A i \in DOMAIN output : output[i] \in Clean
      BY <3>3
    <3> QED BY <2>2, <3>4 DEF Clean
  <2> QED BY <2>1, <2>2, LeafIs DEF GateIInv
<1> QED BY <1>1, GateInvariant, PTL
----------------------------------------------------------------------------
(* Pieces between separators *)

Ends(u, D) == u = <<>> \/ u[Len(u)] \in D
Starts(v, D) == v = <<>> \/ v[1] \in D

\* t is a piece of s between two symbols of D, or between one and an end.
IsSegment(S, D, s, t) ==
    \E u, v \in Seq(S) : s = u \o (t \o v) /\ Ends(u, D) /\ Starts(v, D)

IsPiece(s, c, r) == \E k \in 1..Len(Split(s, c)) : Split(s, c)[k] = r

\* Around the part t: what is before it ends with c, what is behind it starts
\* with it, and nothing is behind the last.
IsPartOf(S, c, s, t, last) ==
    \E u, v \in Seq(S) : /\ s = u \o (t \o v) /\ Ends(u, {c}) /\ Starts(v, {c})
                         /\ v = <<>> <=> last

LEMMA PartGrows ==
  ASSUME NEW S, NEW c, NEW s \in Seq(S), NEW t \in Seq(S), NEW x \in S
  PROVE  /\ IsPartOf(S, c, s, t, FALSE) => IsPartOf(S, c, s \o <<x>>, t, FALSE)
         /\ IsPartOf(S, c, s, t, TRUE) /\ x = c => IsPartOf(S, c, s \o <<x>>, t, FALSE)
         /\ IsPartOf(S, c, s, t, TRUE) => IsPartOf(S, c, s \o <<x>>, Append(t, x), TRUE)
         /\ x = c => IsPartOf(S, c, s \o <<x>>, <<>>, TRUE)
<1>0. \A y \in Seq(S) :
         /\ y \o <<x>> \in Seq(S) /\ y \o <<x>> # <<>> /\ Append(y, x) = y \o <<x>>
         /\ (y \o <<x>>)[Len(y \o <<x>>)] = x
         /\ y # <<>> => (y \o <<x>>)[1] = y[1]
         /\ y = <<>> => (y \o <<x>>)[1] = x
  OBVIOUS
<1>1. ASSUME NEW u \in Seq(S), NEW v \in Seq(S), s = u \o (t \o v)
      PROVE  s \o <<x>> = u \o (t \o (v \o <<x>>)) /\ v \o <<x>> \in Seq(S)
  <2>1. <<x>> \in Seq(S) /\ t \o v \in Seq(S) /\ v \o <<x>> \in Seq(S)
    OBVIOUS
  <2>2. (u \o (t \o v)) \o <<x>> = u \o ((t \o v) \o <<x>>)
    BY <2>1, Assoc, SMTT(60)
  <2>3. (t \o v) \o <<x>> = t \o (v \o <<x>>)
    BY <2>1, Assoc, SMTT(60)
  <2> QED BY <1>1, <2>1, <2>2, <2>3
<1>2. ASSUME IsPartOf(S, c, s, t, FALSE)
      PROVE  IsPartOf(S, c, s \o <<x>>, t, FALSE)
  <2>1. PICK u, v \in Seq(S) : /\ s = u \o (t \o v) /\ Ends(u, {c}) /\ Starts(v, {c}) /\ v # <<>>
    BY <1>2 DEF IsPartOf
  <2> DEFINE w == v \o <<x>>
  <2>2. s \o <<x>> = u \o (t \o w) /\ w \in Seq(S)
    BY <1>1, <2>1
  <2>3. w # <<>> /\ w[1] = v[1]
    BY <1>0, <2>1
  <2> HIDE DEF w
  <2>4. Starts(w, {c})
    BY <2>1, <2>3 DEF Starts
  <2> QED BY <2>1, <2>2, <2>3, <2>4 DEF IsPartOf
<1>3. ASSUME IsPartOf(S, c, s, t, TRUE), x = c
      PROVE  IsPartOf(S, c, s \o <<x>>, t, FALSE)
  <2>1. PICK u, v \in Seq(S) : /\ s = u \o (t \o v) /\ Ends(u, {c}) /\ Starts(v, {c}) /\ v = <<>>
    BY <1>3 DEF IsPartOf
  <2> DEFINE w == v \o <<x>>
  <2>2. s \o <<x>> = u \o (t \o w) /\ w \in Seq(S)
    BY <1>1, <2>1
  <2>3. w # <<>> /\ w[1] = c
    BY <1>0, <1>3, <2>1
  <2> HIDE DEF w
  <2>4. Starts(w, {c})
    BY <2>3 DEF Starts
  <2> QED BY <2>1, <2>2, <2>3, <2>4 DEF IsPartOf
<1>4. ASSUME IsPartOf(S, c, s, t, TRUE)
      PROVE  IsPartOf(S, c, s \o <<x>>, Append(t, x), TRUE)
  <2>1. PICK u, v \in Seq(S) : /\ s = u \o (t \o v) /\ Ends(u, {c}) /\ Starts(v, {c}) /\ v = <<>>
    BY <1>4 DEF IsPartOf
  <2> DEFINE w == Append(t, x)
  <2>2. w \in Seq(S) /\ w = t \o <<x>>
    BY <1>0
  <2>3. s = u \o t
    BY <2>1
  <2>4. <<x>> \in Seq(S) /\ <<>> \in Seq(S)
    OBVIOUS
  <2>5. (u \o t) \o <<x>> = u \o (t \o <<x>>)
    BY <2>4, Assoc, SMTT(60)
  <2> HIDE DEF w
  <2>6. s \o <<x>> = u \o (w \o <<>>)
    BY <2>2, <2>3, <2>5, Assoc
  <2>7. Starts(<<>>, {c})
    BY DEF Starts
  <2> QED BY <2>1, <2>4, <2>6, <2>7 DEF IsPartOf, w
<1>5. ASSUME x = c
      PROVE  IsPartOf(S, c, s \o <<x>>, <<>>, TRUE)
  <2> DEFINE w == s \o <<x>>
  <2>1. w \in Seq(S) /\ w # <<>> /\ w[Len(w)] = c
    BY <1>0, <1>5
  <2> HIDE DEF w
  <2>2. w = w \o (<<>> \o <<>>) /\ <<>> \in Seq(S)
    BY <2>1
  <2>3. Starts(<<>>, {c}) /\ Ends(w, {c})
    BY <2>1 DEF Starts, Ends
  <2> QED BY <2>1, <2>2, <2>3 DEF IsPartOf, w
<1> QED BY <1>2, <1>3, <1>4, <1>5

\* Every part split_unescaped finds is a piece of the string.
LEMMA UnescapedSegments ==
  ASSUME NEW S, NEW s \in Seq(S), NEW c,
         NEW j \in 1..Len(SplitUnescaped(s, c))
  PROVE  IsSegment(S, {c}, s, SplitUnescaped(s, c)[j])
<1> DEFINE n == Len(s)
           pre(k) == SubSeq(s, 1, k)
           Fits(p, x) == \A i \in 1..Len(p) : IsPartOf(S, c, x, p[i], i = Len(p))
<1>1. n \in Nat /\ n \in 0..n /\ pre(n) = s /\ pre(0) = <<>>
  OBVIOUS
<1>2. PICK h : CutsUnescaped(h, S, s, c) /\ SplitUnescaped(s, c) = h[n].parts
  BY SplitUnescapedCuts
<1> DEFINE K == {k \in 0..n : Fits(h[k].parts, pre(k))}
<1>3. 0 \in K
  <2>1. h[0].parts = <<<<>>>> /\ 0 \in 0..n
    BY <1>1, <1>2 DEF CutsUnescaped
  <2>2. IsPartOf(S, c, <<>>, <<>>, TRUE)
    <3>1. <<>> \in Seq(S) /\ <<>> = <<>> \o (<<>> \o <<>>) /\ Ends(<<>>, {c}) /\ Starts(<<>>, {c})
      BY DEF Ends, Starts
    <3> QED BY <3>1 DEF IsPartOf
  <2>3. Len(<<<<>>>>) = 1 /\ <<<<>>>>[1] = <<>> /\ \A i \in 1..1 : i = 1
    OBVIOUS
  <2>4. \A i \in 1..Len(<<<<>>>>) : IsPartOf(S, c, <<>>, <<<<>>>>[i], i = Len(<<<<>>>>))
    <3> TAKE i \in 1..Len(<<<<>>>>)
    <3>1. i = 1 /\ (i = Len(<<<<>>>>)) = TRUE
      BY <2>3
    <3> QED BY <2>2, <2>3, <3>1
  <2> QED BY <1>1, <2>1, <2>4
<1>4. ASSUME NEW k \in 1..n, k - 1 \in K PROVE k \in K
  <2> DEFINE a == h[k - 1]
             b == h[k]
             x == s[k]
             before == pre(k - 1)
  <2>1. b = CutUnescaped(a, x, c) /\ a \in Unescaping(S) /\ k \in 0..n
    <3>1. k - 1 \in 0..n /\ k \in 0..n
      BY <1>1
    <3> QED BY <1>2, <3>1 DEF CutsUnescaped
  <2>2. before \in Seq(S) /\ x \in S /\ pre(k) = before \o <<x>>
    OBVIOUS
  <2> DEFINE p == a.parts
             U == Seq(S)
             m == Len(p)
  <2>3. p \in Seq(U) /\ p # <<>> /\ m \in Nat \ {0} /\ \A i \in 1..m : p[i] \in Seq(S)
    <3>1. p \in Parts(S)
      BY <2>1 DEF Unescaping
    <3> HIDE DEF p
    <3>2. p \in Seq(U) /\ p # <<>>
      BY <3>1 DEF Parts
    <3> QED BY <3>1, <3>2, PartsFacts
  <2>4. \A i \in 1..m : IsPartOf(S, c, before, p[i], i = m)
    BY <1>4
  <2>5. b.parts = IF x = c /\ ~a.escaped THEN Append(p, <<>>)
                  ELSE [p EXCEPT ![m] = Append(p[m], x)]
    BY <2>1 DEF CutUnescaped
  <2>6. SUFFICES Fits(b.parts, before \o <<x>>)
    BY <2>1, <2>2
  <2> HIDE DEF p, before, x, a, b
  <2>7. m \in 1..m
    BY <2>3
  <2>8. IsPartOf(S, c, before, p[m], TRUE)
    <3>1. (m = m) = TRUE
      OBVIOUS
    <3> QED BY <2>4, <2>7, <3>1
  <2>9. \A i \in 1..m : i # m => IsPartOf(S, c, before, p[i], FALSE)
    <3> SUFFICES ASSUME NEW i \in 1..m, i # m PROVE IsPartOf(S, c, before, p[i], FALSE)
      OBVIOUS
    <3>1. (i = m) = FALSE
      OBVIOUS
    <3> QED BY <2>4, <3>1
  <2>10. CASE x = c /\ ~a.escaped
    <3> DEFINE q == Append(p, <<>>)
    <3>1. /\ Len(q) = m + 1 /\ \A i \in 1..m : q[i] = p[i]
          /\ q[m + 1] = <<>>
      <4>1. <<>> \in U
        OBVIOUS
      <4> HIDE DEF U
      <4> QED BY <2>3, <4>1, AppendIs
    <3> HIDE DEF q
    <3>2. ASSUME NEW i \in 1..Len(q)
          PROVE  IsPartOf(S, c, before \o <<x>>, q[i], i = Len(q))
      <4>1. CASE i = m + 1
        <5>1. (i = Len(q)) = TRUE
          BY <3>1, <4>1
        <5>2. IsPartOf(S, c, before \o <<x>>, <<>>, TRUE)
          BY <2>2, <2>3, <2>7, <2>10, PartGrows
        <5> QED BY <3>1, <4>1, <5>1, <5>2
      <4>2. CASE i # m + 1
        <5>1. i \in 1..m /\ i # Len(q)
          BY <2>3, <3>1, <4>2
        <5>2. (i = Len(q)) = FALSE /\ q[i] = p[i] /\ p[i] \in Seq(S)
          BY <2>3, <3>1, <5>1
        <5>3. IsPartOf(S, c, before \o <<x>>, p[i], FALSE)
          <6>1. CASE i = m
            BY <2>2, <2>8, <2>10, <5>2, <6>1, PartGrows
          <6>2. CASE i # m
            BY <2>2, <2>9, <5>1, <5>2, <6>2, PartGrows
          <6> QED BY <6>1, <6>2
        <5> QED BY <5>2, <5>3
      <4> QED BY <4>1, <4>2
    <3>3. Fits(q, before \o <<x>>)
      BY <3>2
    <3> QED BY <2>5, <2>10, <3>3 DEF q
  <2>11. CASE ~(x = c /\ ~a.escaped)
    <3> DEFINE e == Append(p[m], x)
               q == [p EXCEPT ![m] = e]
    <3>1. e \in U
      <4>1. p[m] \in Seq(S)
        BY <2>3, <2>7
      <4> QED BY <2>2, <4>1
    <3>2. Len(q) = m /\ \A i \in 1..m : q[i] = IF i = m THEN e ELSE p[i]
      <4> HIDE DEF U, e
      <4> QED BY <2>3, <2>7, <3>1, ExceptIs
    <3>3. IsPartOf(S, c, before \o <<x>>, e, TRUE)
      BY <2>2, <2>3, <2>7, <2>8, PartGrows
    <3> HIDE DEF e
    <3>4. b.parts = q
      BY <2>5, <2>11 DEF e
    <3> HIDE DEF q
    <3>5. ASSUME NEW i \in 1..Len(q)
          PROVE  IsPartOf(S, c, before \o <<x>>, q[i], i = Len(q))
      <4>1. CASE i = m
        <5>1. (i = Len(q)) = TRUE /\ q[i] = e
          BY <2>7, <3>2, <4>1
        <5> QED BY <3>3, <5>1
      <4>2. CASE i # m
        <5>1. (i = Len(q)) = FALSE /\ q[i] = p[i] /\ p[i] \in Seq(S) /\ i \in 1..m
          BY <2>3, <3>2, <4>2
        <5>2. IsPartOf(S, c, before, p[i], FALSE)
          BY <2>9, <4>2, <5>1
        <5>3. IsPartOf(S, c, before \o <<x>>, p[i], FALSE)
          BY <2>2, <5>1, <5>2, PartGrows
        <5> QED BY <5>1, <5>3
      <4> QED BY <4>1, <4>2
    <3>6. Fits(q, before \o <<x>>)
      BY <3>5
    <3> QED BY <3>4, <3>6
  <2> QED BY <2>10, <2>11
<1> HIDE DEF K
<1>5. \A k \in 1..n : k - 1 \in K => k \in K
  BY <1>4
<1>6. n \in K
  <2> HIDE DEF n
  <2> QED BY <1>1, <1>3, <1>5, Climb
<1>7. Fits(h[n].parts, s)
  BY <1>1, <1>6 DEF K
<1>8. IsPartOf(S, c, s, SplitUnescaped(s, c)[j], j = Len(SplitUnescaped(s, c)))
  BY <1>2, <1>7
<1> QED BY <1>8 DEF IsPartOf, IsSegment

LEMMA PieceConcat ==
  ASSUME NEW S, NEW c \in S, NEW a \in Seq(S), NEW b \in Seq(S), NEW r
  PROVE  /\ IsPiece(a, c, r) => IsPiece(a \o (<<c>> \o b), c, r)
         /\ IsPiece(b, c, r) => IsPiece(a \o (<<c>> \o b), c, r)
<1> DEFINE U == Seq(S \ {c})
           p == Split(a, c)
           q == Split(b, c)
           w == Split(a \o (<<c>> \o b), c)
<1>1. w = p \o q
  BY SplitConcat
<1>2. p \in Seq(U) /\ q \in Seq(U)
  BY SplitType DEF Parts
<1> HIDE DEF U, p, q, w
<1>3. /\ Len(p \o q) = Len(p) + Len(q) /\ Len(p) \in Nat /\ Len(q) \in Nat
      /\ \A i \in 1..Len(p) : (p \o q)[i] = p[i]
      /\ \A i \in 1..Len(q) : (p \o q)[Len(p) + i] = q[i]
  BY <1>2
<1>4. ASSUME NEW k \in 1..Len(p), p[k] = r PROVE \E l \in 1..Len(w) : w[l] = r
  <2>1. k \in 1..Len(w) /\ w[k] = r
    BY <1>1, <1>3, <1>4
  <2> QED BY <2>1
<1>5. ASSUME NEW k \in 1..Len(q), q[k] = r PROVE \E l \in 1..Len(w) : w[l] = r
  <2>1. Len(p) + k \in 1..Len(w) /\ w[Len(p) + k] = r
    BY <1>1, <1>3, <1>5
  <2> QED BY <2>1
<1> QED BY <1>4, <1>5 DEF IsPiece, p, q, w

\* The ends of a piece, as seen from the part of it between two c.
LEMMA BehindTheLast ==
  ASSUME NEW S, NEW c \in S, NEW D, NEW u \in Seq(S), Ends(u, D)
  PROVE  \E w \in Seq(S \ {c}) :
            /\ Ends(w, D \ {c})
            /\ \A x \in Seq(S) : \A r : IsPiece(w \o x, c, r) => IsPiece(u \o x, c, r)
<1>1. CASE Has(u, c)
  <2> DEFINE a == RSplitOnce(u, c)[1]
             w == RSplitOnce(u, c)[2]
  <2>1. a \in Seq(S) /\ w \in Seq(S \ {c}) /\ u = a \o (<<c>> \o w)
    BY <1>1, RSplitOnceFacts
  <2> HIDE DEF a, w
  <2>2. w \in Seq(S)
    BY <2>1
  <2>3. Ends(w, D \ {c})
    <3>1. CASE w = <<>>
      BY <3>1 DEF Ends
    <3>2. CASE w # <<>>
      <4>1. /\ u \in Seq(S) /\ Len(u) = Len(a) + 1 + Len(w)
            /\ \A i \in 1..Len(w) : u[Len(a) + 1 + i] = w[i]
        BY <2>1, <2>2, MiddleIs
      <4>2. Len(w) \in 1..Len(w) /\ w[Len(w)] \in S \ {c}
        BY <2>1, <3>2
      <4>3. u[Len(u)] = w[Len(w)] /\ u # <<>>
        <5>1. u[Len(a) + 1 + Len(w)] = w[Len(w)]
          BY <4>1, <4>2
        <5>2. Len(u) # 0
          BY <2>1, <4>1, <4>2
        <5> QED BY <4>1, <5>1, <5>2
      <4> QED BY <4>2, <4>3 DEF Ends
    <3> QED BY <3>1, <3>2
  <2>4. ASSUME NEW x \in Seq(S), NEW r, IsPiece(w \o x, c, r) PROVE IsPiece(u \o x, c, r)
    <3>1. <<c>> \in Seq(S) /\ w \o x \in Seq(S) /\ <<c>> \o w \in Seq(S)
      BY <2>2
    <3>2. u \o x = a \o ((<<c>> \o w) \o x)
      BY <2>1, <3>1, Assoc, SMTT(30)
    <3>3. (<<c>> \o w) \o x = <<c>> \o (w \o x)
      BY <2>2, <3>1, Assoc
    <3> DEFINE y == w \o x
    <3>4. IsPiece(y, c, r) /\ y \in Seq(S) /\ u \o x = a \o (<<c>> \o y)
      BY <2>4, <3>1, <3>2, <3>3
    <3> HIDE DEF y
    <3>5. IsPiece(a \o (<<c>> \o y), c, r)
      BY <2>1, <3>4, PieceConcat
    <3> QED BY <3>4, <3>5
  <2> QED BY <2>1, <2>3, <2>4
<1>2. CASE ~Has(u, c)
  <2>1. u \in Seq(S \ {c})
    <3>1. \A i \in 1..Len(u) : u[i] \in S \ {c}
      BY <1>2 DEF Has
    <3>2. u = [i \in 1..Len(u) |-> u[i]] /\ Len(u) \in Nat
      OBVIOUS
    <3> QED BY <3>1, <3>2, SeqIs
  <2>2. Ends(u, D \ {c})
    <3>1. u # <<>> => u[Len(u)] \in S \ {c}
      BY <2>1
    <3> QED BY <3>1 DEF Ends
  <2> QED BY <2>1, <2>2
<1> QED BY <1>1, <1>2

LEMMA BeforeTheFirst ==
  ASSUME NEW S, NEW c \in S, NEW D, NEW v \in Seq(S), Starts(v, D)
  PROVE  \E w \in Seq(S \ {c}) :
            /\ Starts(w, D \ {c})
            /\ \A x \in Seq(S) : \A r : IsPiece(x \o w, c, r) => IsPiece(x \o v, c, r)
<1>1. CASE Has(v, c)
  <2> DEFINE w == SplitOnce(v, c)[1]
             b == SplitOnce(v, c)[2]
  <2>1. w \in Seq(S \ {c}) /\ b \in Seq(S) /\ v = w \o (<<c>> \o b)
    BY <1>1, SplitOnceFacts
  <2> HIDE DEF w, b
  <2>2. w \in Seq(S)
    BY <2>1
  <2>3. Starts(w, D \ {c})
    <3>1. CASE w = <<>>
      BY <3>1 DEF Starts
    <3>2. CASE w # <<>>
      <4>1. Len(v) = Len(w) + 1 + Len(b) /\ \A i \in 1..Len(w) : v[i] = w[i]
        BY <2>1, <2>2, MiddleIs
      <4>2. 1 \in 1..Len(w) /\ w[1] \in S \ {c}
        BY <2>1, <3>2
      <4>3. v[1] = w[1] /\ v # <<>>
        <5>1. Len(v) # 0
          BY <2>1, <4>1, <4>2
        <5> QED BY <4>1, <4>2, <5>1
      <4> QED BY <4>2, <4>3 DEF Starts
    <3> QED BY <3>1, <3>2
  <2>4. ASSUME NEW x \in Seq(S), NEW r, IsPiece(x \o w, c, r) PROVE IsPiece(x \o v, c, r)
    <3>1. <<c>> \in Seq(S) /\ x \o w \in Seq(S) /\ <<c>> \o b \in Seq(S)
      BY <2>1, <2>2
    <3>2. (x \o w) \o (<<c>> \o b) = x \o (w \o (<<c>> \o b))
      BY <2>2, <3>1, Assoc, SMTT(30)
    <3> DEFINE y == x \o w
    <3>4. IsPiece(y, c, r) /\ y \in Seq(S) /\ x \o v = y \o (<<c>> \o b)
      BY <2>1, <2>4, <3>1, <3>2
    <3> HIDE DEF y
    <3>5. IsPiece(y \o (<<c>> \o b), c, r)
      BY <2>1, <3>4, PieceConcat
    <3> QED BY <3>4, <3>5
  <2> QED BY <2>1, <2>3, <2>4
<1>2. CASE ~Has(v, c)
  <2>1. v \in Seq(S \ {c})
    <3>1. \A i \in 1..Len(v) : v[i] \in S \ {c}
      BY <1>2 DEF Has
    <3>2. v = [i \in 1..Len(v) |-> v[i]] /\ Len(v) \in Nat
      OBVIOUS
    <3> QED BY <3>1, <3>2, SeqIs
  <2>2. Starts(v, D \ {c})
    <3>1. v # <<>> => v[1] \in S \ {c}
      BY <2>1
    <3> QED BY <3>1 DEF Starts
  <2> QED BY <2>1, <2>2
<1> QED BY <1>1, <1>2

\* A piece between two symbols of D is a piece of a part, if c is one of them.
LEMMA SegmentPiece ==
  ASSUME NEW S, NEW D, NEW c \in D \cap S, NEW s \in Seq(S), NEW t \in Seq(S \ D),
         IsSegment(S, D, s, t)
  PROVE  \E r \in Seq(S \ {c}) : IsPiece(s, c, r) /\ IsSegment(S, D \ {c}, r, t)
<1>1. PICK u, v \in Seq(S) : s = u \o (t \o v) /\ Ends(u, D) /\ Starts(v, D)
  BY DEF IsSegment
<1>2. PICK a \in Seq(S \ {c}) :
            /\ Ends(a, D \ {c})
            /\ \A x \in Seq(S) : \A r : IsPiece(a \o x, c, r) => IsPiece(u \o x, c, r)
  BY <1>1, BehindTheLast
<1>3. PICK b \in Seq(S \ {c}) :
            /\ Starts(b, D \ {c})
            /\ \A x \in Seq(S) : \A r : IsPiece(x \o b, c, r) => IsPiece(x \o v, c, r)
  BY <1>1, BeforeTheFirst
<1> DEFINE T == S \ {c}
           r == a \o (t \o b)
<1>4. t \in Seq(T) /\ a \in Seq(T) /\ b \in Seq(T)
  <2>1. S \ D \subseteq T
    OBVIOUS
  <2>2. t \in Seq(T)
    BY <2>1, Wider
  <2> QED BY <2>2
<1>5. a \in Seq(S) /\ b \in Seq(S) /\ t \in Seq(S) /\ T \subseteq S
  BY <1>4
<1>6. r \in Seq(T) /\ r = (a \o t) \o b
  <2> HIDE DEF T
  <2>1. t \o b \in Seq(T)
    BY <1>4
  <2>2. a \o (t \o b) \in Seq(T)
    BY <1>4, <2>1
  <2>3. (a \o t) \o b = a \o (t \o b)
    BY <1>4, SMTT(60)
  <2> QED BY <2>2, <2>3
<1>7. a \o t \in Seq(S) /\ t \o v \in Seq(S)
  BY <1>1, <1>5
<1> HIDE DEF r
<1>8. IsPiece(r, c, r)
  <2>1. Split(r, c) = <<r>>
    BY <1>6, SplitNone
  <2>2. 1 \in 1..Len(<<r>>) /\ <<r>>[1] = r
    OBVIOUS
  <2> QED BY <2>1, <2>2 DEF IsPiece
<1>9. IsPiece((a \o t) \o v, c, r)
  <2> DEFINE y == a \o t
  <2>1. y \in Seq(S) /\ IsPiece(y \o b, c, r)
    BY <1>6, <1>7, <1>8
  <2> HIDE DEF y
  <2>2. IsPiece(y \o v, c, r)
    BY <1>3, <2>1
  <2> QED BY <2>2 DEF y
<1>10. (a \o t) \o v = a \o (t \o v)
  BY <1>5, SMTT(30)
<1>11. IsPiece(s, c, r)
  BY <1>1, <1>2, <1>7, <1>9, <1>10
<1>12. IsSegment(S, D \ {c}, r, t)
  BY <1>2, <1>3, <1>5 DEF IsSegment, r
<1> QED BY <1>6, <1>11, <1>12

LEMMA SegmentOfSegment ==
  ASSUME NEW S, NEW C, NEW D, NEW s, NEW q, NEW t \in Seq(S),
         IsSegment(S, C, s, q), IsSegment(S, D, q, t)
  PROVE  IsSegment(S, C \cup D, s, t)
<1>1. PICK u, v \in Seq(S) : s = u \o (q \o v) /\ Ends(u, C) /\ Starts(v, C)
  BY DEF IsSegment
<1>2. PICK x, y \in Seq(S) : q = x \o (t \o y) /\ Ends(x, D) /\ Starts(y, D)
  BY DEF IsSegment
<1> DEFINE a == u \o x
           b == y \o v
<1>3. a \in Seq(S) /\ b \in Seq(S)
  OBVIOUS
<1>4. s = a \o (t \o b)
  <2>1. t \o y \in Seq(S) /\ t \o b \in Seq(S)
    OBVIOUS
  <2>2. (x \o (t \o y)) \o v = x \o ((t \o y) \o v)
    BY <2>1, SMTT(60)
  <2>3. (t \o y) \o v = t \o (y \o v)
    BY SMTT(60)
  <2> DEFINE w == t \o b
  <2>4. q \o v = x \o w /\ w \in Seq(S)
    BY <1>2, <2>1, <2>2, <2>3
  <2> HIDE DEF w
  <2>5. u \o (x \o w) = (u \o x) \o w
    BY <2>4, SMTT(30)
  <2> QED BY <1>1, <2>4, <2>5 DEF w
<1>5. Ends(a, C \cup D)
  <2>1. CASE x = <<>>
    <3>1. a = u
      BY <2>1
    <3> QED BY <1>1, <3>1 DEF Ends
  <2>2. CASE x # <<>>
    <3>1. a # <<>> /\ a[Len(a)] = x[Len(x)]
      BY <2>2
    <3> QED BY <1>2, <2>2, <3>1 DEF Ends
  <2> QED BY <2>1, <2>2
<1>6. Starts(b, C \cup D)
  <2>1. CASE y = <<>>
    <3>1. b = v
      BY <2>1
    <3> QED BY <1>1, <3>1 DEF Starts
  <2>2. CASE y # <<>>
    <3>1. b # <<>> /\ b[1] = y[1]
      BY <2>2
    <3> QED BY <1>2, <2>2, <3>1 DEF Starts
  <2> QED BY <2>1, <2>2
<1> HIDE DEF a, b
<1> QED BY <1>3, <1>4, <1>5, <1>6 DEF IsSegment

LEMMA SegmentWhole ==
  ASSUME NEW S, NEW s, NEW t \in Seq(S), IsSegment(S, {}, s, t)
  PROVE  s = t
<1>1. PICK u, v \in Seq(S) : s = u \o (t \o v) /\ Ends(u, {}) /\ Starts(v, {})
  BY DEF IsSegment
<1>2. u = <<>> /\ v = <<>>
  BY <1>1 DEF Ends, Starts
<1>3. <<>> \o (t \o <<>>) = t
  OBVIOUS
<1> QED BY <1>1, <1>2, <1>3

\* A component without separators in it is one of those whose shape was looked
\* at, although dn_shape knows no escapes.
LEMMA ComponentFilled ==
  ASSUME NEW dn \in Seq(Symbols), DnShape(dn),
         NEW i \in 1..Len(SplitUnescaped(dn, ",")),
         NEW j \in 1..Len(SplitUnescaped(SplitUnescaped(dn, ",")[i], "+")),
         SplitUnescaped(SplitUnescaped(dn, ",")[i], "+")[j] \in Seq(Symbols \ {",", "+"})
  PROVE  AllFilled(SplitOnce(SplitUnescaped(SplitUnescaped(dn, ",")[i], "+")[j], "="))
<1> DEFINE rdn == SplitUnescaped(dn, ",")[i]
           ava == SplitUnescaped(rdn, "+")[j]
<1>1. rdn \in Seq(Symbols)
  <2> DEFINE rdns == SplitUnescaped(dn, ",")
  <2>1. rdns \in Parts(Symbols)
    BY SplitUnescapedType
  <2>2. i \in 1..Len(rdns)
    OBVIOUS
  <2> HIDE DEF rdns
  <2>3. rdns[i] \in Seq(Symbols)
    BY <2>1, <2>2, PartsFacts
  <2> QED BY <2>3 DEF rdns
<1>2. IsSegment(Symbols, {","}, dn, rdn)
  BY UnescapedSegments
<1>3. IsSegment(Symbols, {"+"}, rdn, ava)
  <2>1. j \in 1..Len(SplitUnescaped(rdn, "+"))
    OBVIOUS
  <2>2. \A q \in Seq(Symbols) : \A l \in 1..Len(SplitUnescaped(q, "+")) :
           IsSegment(Symbols, {"+"}, q, SplitUnescaped(q, "+")[l])
    BY UnescapedSegments
  <2> HIDE DEF rdn
  <2> QED BY <1>1, <2>1, <2>2
<1>4. ava \in Seq(Symbols \ {",", "+"})
  OBVIOUS
<1>a. SUFFICES AllFilled(SplitOnce(ava, "="))
  OBVIOUS
<1> HIDE DEF ava
<1>5. ava \in Seq(Symbols) /\ ava \in Seq(Symbols \ {"+"})
  <2>1. Symbols \ {",", "+"} \subseteq Symbols /\ Symbols \ {",", "+"} \subseteq Symbols \ {"+"}
    OBVIOUS
  <2> DEFINE A == Symbols \ {",", "+"}
             B == Symbols \ {"+"}
  <2>2. ava \in Seq(A) /\ A \subseteq Symbols /\ A \subseteq B
    BY <1>4, <2>1
  <2> HIDE DEF A, B
  <2>3. ava \in Seq(Symbols) /\ ava \in Seq(B)
    BY <2>2, Wider
  <2> QED BY <2>3 DEF B
<1> HIDE DEF rdn
<1> DEFINE C == {","}
           P == {"+"}
           D == {",", "+"}
<1>7. C \cup P = D /\ "," \in D \cap Symbols /\ "+" \in P \cap Symbols
      /\ D \ {","} = P /\ P \ {"+"} = {}
  BY DEF Symbols
<1>6. IsSegment(Symbols, D, dn, ava)
  <2> HIDE DEF C, P, D
  <2>0. IsSegment(Symbols, C, dn, rdn) /\ IsSegment(Symbols, P, rdn, ava)
    BY <1>2, <1>3 DEF C, P
  <2>1. IsSegment(Symbols, C \cup P, dn, ava)
    BY <2>0, <1>5, SegmentOfSegment
  <2> QED BY <1>7, <2>1
<1>8. PICK r \in Seq(Symbols \ {","}) : IsPiece(dn, ",", r) /\ IsSegment(Symbols, P, r, ava)
  <2>1. ava \in Seq(Symbols \ D)
    BY <1>4
  <2> HIDE DEF P, D
  <2>2. \E r \in Seq(Symbols \ {","}) :
           IsPiece(dn, ",", r) /\ IsSegment(Symbols, D \ {","}, r, ava)
    BY <1>6, <1>7, <2>1, SegmentPiece
  <2> QED BY <1>7, <2>2
<1>9. r \in Seq(Symbols)
  <2> DEFINE B == Symbols \ {","}
  <2>1. r \in Seq(B) /\ B \subseteq Symbols
    OBVIOUS
  <2> HIDE DEF B
  <2> QED BY <2>1, Wider
<1>10. IsPiece(r, "+", ava)
  <2>1. ava \in Seq(Symbols \ P)
    BY <1>5
  <2> HIDE DEF P
  <2>2. PICK w \in Seq(Symbols \ {"+"}) : IsPiece(r, "+", w) /\ IsSegment(Symbols, P \ {"+"}, w, ava)
    BY <1>7, <1>8, <1>9, <2>1, SegmentPiece
  <2>3. IsSegment(Symbols, {}, w, ava)
    BY <1>7, <2>2
  <2>4. w = ava
    BY <1>5, <2>3, SegmentWhole
  <2> QED BY <2>2, <2>4
<1>11. PICK k \in 1..Len(Split(dn, ",")) : Split(dn, ",")[k] = r
  BY <1>8 DEF IsPiece
<1>12. PICK l \in 1..Len(Split(r, "+")) : Split(r, "+")[l] = ava
  BY <1>10 DEF IsPiece
<1>13. k \in DOMAIN Split(dn, ",") /\ l \in DOMAIN Split(Split(dn, ",")[k], "+")
  <2>1. \A q \in Seq(Symbols) : \A c : DOMAIN Split(q, c) = 1..Len(Split(q, c))
    <3> SUFFICES ASSUME NEW q \in Seq(Symbols), NEW c PROVE DOMAIN Split(q, c) = 1..Len(Split(q, c))
      OBVIOUS
    <3> DEFINE p == Split(q, c)
    <3>1. p \in Parts(Symbols \ {c})
      BY SplitType
    <3> HIDE DEF p
    <3> QED BY <3>1, PartsFacts DEF p
  <2> QED BY <1>9, <1>11, <1>12, <2>1
<1>14. AllFilled(SplitOnce(Split(Split(dn, ",")[k], "+")[l], "="))
  BY <1>13, Zenon DEF DnShape
<1> QED BY <1>11, <1>12, <1>14
----------------------------------------------------------------------------
(* Shapes *)

LEMMA PieceOfOne ==
  ASSUME NEW S, NEW c, NEW s \in Seq(S \ {c}), NEW r
  PROVE  /\ IsPiece(s, c, r) <=> r = s
         /\ Len(Split(s, c)) = 1
<1>1. Split(s, c) = <<s>>
  BY SplitNone
<1>2. Len(<<s>>) = 1 /\ <<s>>[1] = s /\ \A k \in 1..1 : k = 1
  OBVIOUS
<1>3. 1 \in 1..1
  OBVIOUS
<1> QED BY <1>1, <1>2, <1>3 DEF IsPiece

LEMMA PieceOfGlue ==
  ASSUME NEW S, NEW c \in S, NEW a \in Seq(S), NEW b \in Seq(S)
  PROVE  /\ \A r : IsPiece(Glue(a, c, b), c, r) <=> IsPiece(a, c, r) \/ IsPiece(b, c, r)
         /\ Len(Split(Glue(a, c, b), c)) = Len(Split(a, c)) + Len(Split(b, c))
<1> DEFINE U == Seq(S \ {c})
           p == Split(a, c)
           q == Split(b, c)
           w == Split(Glue(a, c, b), c)
<1>1. w = p \o q
  BY SplitConcat DEF Glue
<1>2. p \in Seq(U) /\ q \in Seq(U)
  BY SplitType DEF Parts
<1> HIDE DEF U, p, q, w
<1>3. /\ Len(p \o q) = Len(p) + Len(q) /\ Len(p) \in Nat /\ Len(q) \in Nat
      /\ \A i \in 1..Len(p) : (p \o q)[i] = p[i]
      /\ \A i \in 1..Len(q) : (p \o q)[Len(p) + i] = q[i]
  BY <1>2
<1>4. ASSUME NEW r, NEW k \in 1..Len(w), w[k] = r
      PROVE  (\E l \in 1..Len(p) : p[l] = r) \/ (\E l \in 1..Len(q) : q[l] = r)
  <2>1. k \in 1..(Len(p) + Len(q))
    BY <1>1, <1>3
  <2>2. \A m, n \in Nat : \A l \in 1..(m + n) : l \in 1..m \/ (l - m \in 1..n /\ l = m + (l - m))
    OBVIOUS
  <2>3. k \in 1..Len(p) \/ (k - Len(p) \in 1..Len(q) /\ k = Len(p) + (k - Len(p)))
    BY <1>3, <2>1, <2>2
  <2>4. CASE k \in 1..Len(p)
    BY <1>1, <1>3, <1>4, <2>4
  <2>5. CASE k - Len(p) \in 1..Len(q) /\ k = Len(p) + (k - Len(p))
    <3> DEFINE l == k - Len(p)
    <3>1. l \in 1..Len(q) /\ k = Len(p) + l
      BY <2>5
    <3> HIDE DEF l
    <3>2. q[l] = r
      BY <1>1, <1>3, <1>4, <3>1
    <3> QED BY <3>1, <3>2
  <2> QED BY <2>3, <2>4, <2>5
<1>5. ASSUME NEW r PROVE IsPiece(Glue(a, c, b), c, r) <=> IsPiece(a, c, r) \/ IsPiece(b, c, r)
  <2>1. IsPiece(Glue(a, c, b), c, r) => IsPiece(a, c, r) \/ IsPiece(b, c, r)
    BY <1>4 DEF IsPiece, p, q, w
  <2>2. IsPiece(a, c, r) \/ IsPiece(b, c, r) => IsPiece(Glue(a, c, b), c, r)
    BY PieceConcat DEF Glue
  <2> QED BY <2>1, <2>2
<1> QED BY <1>1, <1>3, <1>5 DEF w, p, q

LEMMA FilledIs ==
  ASSUME NEW S, NEW s \in Seq(S), NEW c
  PROVE  AllFilled(Split(s, c)) <=> ~IsPiece(s, c, <<>>)
<1> DEFINE p == Split(s, c)
<1>1. p \in Parts(S \ {c})
  BY SplitType
<1> HIDE DEF p
<1>2. DOMAIN p = 1..Len(p)
  BY <1>1, PartsFacts
<1> QED BY <1>2 DEF AllFilled, IsPiece, p

\* Every part of it is filled, every part of what is left and right of a
\* separator too.
LEMMA FilledGlue ==
  ASSUME NEW S, NEW c \in S, NEW a \in Seq(S), NEW b \in Seq(S)
  PROVE  /\ AllFilled(Split(Glue(a, c, b), c)) <=> AllFilled(Split(a, c)) /\ AllFilled(Split(b, c))
         /\ AllFilled(Split(a, c)) => a # <<>>
<1> DEFINE g == Glue(a, c, b)
<1>1. g \in Seq(S)
  BY MiddleIs DEF Glue
<1>2. IsPiece(g, c, <<>>) <=> IsPiece(a, c, <<>>) \/ IsPiece(b, c, <<>>)
  BY PieceOfGlue
<1> HIDE DEF g
<1>3. AllFilled(Split(g, c)) <=> AllFilled(Split(a, c)) /\ AllFilled(Split(b, c))
  BY <1>1, <1>2, FilledIs
<1>4. a = <<>> => IsPiece(a, c, <<>>)
  <2>1. <<>> \in Seq(S \ {c})
    OBVIOUS
  <2> QED BY <2>1, PieceOfOne, ZenonT(60)
<1> QED BY <1>3, <1>4, FilledIs DEF g

LEMMA FilledOne ==
  ASSUME NEW S, NEW c, NEW s \in Seq(S \ {c})
  PROVE  /\ AllFilled(Split(s, c)) <=> s # <<>>
         /\ Len(Split(s, c)) = 1
  BY PieceOfOne, FilledIs

LEMMA Separated ==
  /\ {"@", ".", "/", ":", ",", "+", "="} \subseteq Symbols /\ Kept \subseteq Symbols
  /\ {"@", ".", "/", ":", ",", "+", "=", "\\"} \cap Kept = {}
  /\ Clean \subseteq Symbols
<1>1. Kept \cap Separators = {}
  BY DEF Kept
<1>2. Kept \subseteq Symbols /\ Clean \subseteq Symbols
  BY DEF Kept, Clean
<1>3. {"@", ".", "/", ":", ",", "+", "=", "\\"} \subseteq Separators
  BY DEF Separators
<1>4. {"@", ".", "/", ":", ",", "+", "="} \subseteq Symbols
  BY DEF Symbols
<1> HIDE DEF Kept, Clean, Symbols, Separators
<1> QED BY <1>1, <1>2, <1>3, <1>4

\* A name before the at sign and a domain behind it have the shape of a UPN.
LEMMA UpnShapes ==
  ASSUME NEW a \in Seq(Symbols), NEW b \in Seq(Symbols)
  PROVE  /\ UpnShape(Glue(a, "@", b)) => a # <<>> /\ b # <<>>
         /\ /\ a \in Seq(Symbols \ {"@"}) /\ b \in Seq(Symbols \ {"@"})
            /\ a # <<>> /\ b # <<>>
            => UpnShape(Glue(a, "@", b))
<1> DEFINE g == Glue(a, "@", b)
<1>0. "@" \in Symbols
  BY Separated
<1>1. /\ AllFilled(Split(g, "@")) <=> AllFilled(Split(a, "@")) /\ AllFilled(Split(b, "@"))
      /\ AllFilled(Split(a, "@")) => a # <<>>
  BY <1>0, FilledGlue
<1>2. AllFilled(Split(b, "@")) => b # <<>>
  BY <1>0, FilledGlue
<1>3. Len(Split(g, "@")) = Len(Split(a, "@")) + Len(Split(b, "@"))
  BY <1>0, PieceOfGlue
<1>4. ASSUME a \in Seq(Symbols \ {"@"}), b \in Seq(Symbols \ {"@"}), a # <<>>, b # <<>>
      PROVE  UpnShape(g)
  <2>1. AllFilled(Split(a, "@")) /\ AllFilled(Split(b, "@"))
        /\ Len(Split(a, "@")) = 1 /\ Len(Split(b, "@")) = 1
    BY <1>4, FilledOne
  <2> HIDE DEF g
  <2>2. AllFilled(Split(g, "@")) /\ Len(Split(g, "@")) = 1 + 1
    BY <1>1, <1>3, <2>1
  <2> QED BY <2>2 DEF UpnShape
<1>5. UpnShape(g) => a # <<>> /\ b # <<>>
  BY <1>1, <1>2 DEF UpnShape
<1> QED BY <1>4, <1>5

LEMMA NoUpn ==
  ASSUME NEW s \in Seq(Symbols \ {"@"})
  PROVE  ~UpnShape(s)
<1>1. Len(Split(s, "@")) = 1
  BY FilledOne
<1> QED BY <1>1 DEF UpnShape

\* As many labels are filled in a domain as in what it is written as.
LEMMA DomainFilled ==
  ASSUME NEW s \in Seq(Symbols)
  PROVE  /\ AllFilled(Split(Domain(s), ".")) <=> AllFilled(Split(s, "."))
         /\ s # <<>> => Domain(s) # <<>>
<1> DEFINE p == Split(s, ".")
           q == DomainLabels(s)
<1>1. /\ Len(q) = Len(p) /\ Split(Domain(s), ".") = q
      /\ \A i \in 1..Len(p) : q[i] = <<>> <=> p[i] = <<>>
      /\ q \in Parts(LabelSymbols)
  BY DomainIs
<1>2. p \in Parts(Symbols \ {"."})
  BY SplitType
<1> HIDE DEF p, q
<1>3. DOMAIN p = 1..Len(p) /\ DOMAIN q = 1..Len(q)
  BY <1>1, <1>2, PartsFacts
<1>4. AllFilled(q) <=> AllFilled(p)
  BY <1>1, <1>3 DEF AllFilled
<1>5. s # <<>> => Domain(s) # <<>>
  <2>1. "." \in Symbols
    BY Separated
  <2> QED BY <2>1, DomainEmpty
<1> QED BY <1>1, <1>4, <1>5 DEF p

LEMMA LabelsKept ==
  ASSUME NEW s \in Seq(Symbols), LabelShape(s)
  PROVE  LabelShape(Domain(s)) /\ LabelShape(DnsHostName(s))
<1>1. s # <<>> /\ AllFilled(Split(s, "."))
  BY DEF LabelShape
<1>2. LabelShape(Domain(s))
  BY <1>1, DomainFilled DEF LabelShape
<1>3. <<"hosts">> \in Seq(Symbols \ {"."}) /\ <<"hosts">> # <<>> /\ <<"hosts">> \in Seq(Symbols)
  <2>1. "hosts" \in Symbols \ {"."}
    BY DEF Symbols, Categories
  <2> HIDE DEF Symbols
  <2> QED BY <2>1, OneSymbol
<1>4. AllFilled(Split(<<"hosts">>, "."))
  BY <1>3, FilledOne
<1>5. "." \in Symbols
  BY Separated
<1>6. CASE Has(s, ".")
  <2> DEFINE a == SplitOnce(s, ".")[1]
             b == SplitOnce(s, ".")[2]
             d == Domain(b)
  <2>1. a \in Seq(Symbols) /\ b \in Seq(Symbols) /\ s = Glue(a, ".", b)
    <3>1. a \in Seq(Symbols \ {"."}) /\ b \in Seq(Symbols) /\ s = a \o (<<".">> \o b)
      BY <1>6, SplitOnceFacts
    <3>2. \A x \in Seq(Symbols \ {"."}) : x \in Seq(Symbols)
      OBVIOUS
    <3> QED BY <3>1, <3>2 DEF Glue
  <2>2. AllFilled(Split(b, "."))
    <3> HIDE DEF a, b
    <3>1. AllFilled(Split(Glue(a, ".", b), ".")) <=> AllFilled(Split(a, ".")) /\ AllFilled(Split(b, "."))
      BY <1>5, <2>1, FilledGlue
    <3> QED BY <1>1, <2>1, <3>1
  <2>3. AllFilled(Split(d, ".")) /\ d \in Seq(Symbols)
    <3>1. d \in Seq(Clean) /\ Clean \subseteq Symbols
      BY <2>1, DomainsClean, Separated
    <3>2. AllFilled(Split(d, "."))
      BY <2>1, <2>2, DomainFilled
    <3> HIDE DEF d
    <3> QED BY <3>1, <3>2, Wider
  <2>4. DnsHostName(s) = <<"hosts", ".">> \o d
    BY <1>6 DEF DnsHostName
  <2> HIDE DEF a, b, d
  <2>5. DnsHostName(s) = Glue(<<"hosts">>, ".", d) /\ DnsHostName(s) # <<>>
    <3>1. \A x \in Seq(Symbols) : /\ <<"hosts", ".">> \o x = <<"hosts">> \o (<<".">> \o x)
                                  /\ <<"hosts", ".">> \o x # <<>>
      OBVIOUS
    <3> QED BY <2>3, <2>4, <3>1 DEF Glue
  <2> DEFINE h == <<"hosts">>
  <2>6. h \in Seq(Symbols) /\ AllFilled(Split(h, ".")) /\ DnsHostName(s) = Glue(h, ".", d)
    BY <1>3, <1>4, <2>5
  <2> HIDE DEF h
  <2>7. AllFilled(Split(Glue(h, ".", d), "."))
    BY <1>5, <2>3, <2>6, FilledGlue
  <2> QED BY <1>2, <2>5, <2>6, <2>7 DEF LabelShape
<1>7. CASE ~Has(s, ".")
  <2>1. DnsHostName(s) = <<"hosts">>
    BY <1>7 DEF DnsHostName
  <2> QED BY <1>2, <1>3, <1>4, <2>1 DEF LabelShape
<1> QED BY <1>6, <1>7

LEMMA HostFilled ==
  ASSUME NEW s \in Seq(Symbols)
  PROVE  DnsHostName(s) # <<>> /\ DnsHostName(s) \in Seq(Symbols \ {"@"})
<1>1. DnsHostName(s) # <<>>
  <2> DEFINE d == Domain(SplitOnce(s, ".")[2])
  <2>1. CASE Has(s, ".")
    <3>1. d \in Seq(Clean)
      BY <2>1, SplitOnceFacts, DomainsClean
    <3>2. DnsHostName(s) = <<"hosts", ".">> \o d
      BY <2>1 DEF DnsHostName
    <3> HIDE DEF d
    <3>3. \A x \in Seq(Clean) : <<"hosts", ".">> \o x # <<>>
      OBVIOUS
    <3> QED BY <3>1, <3>2, <3>3
  <2>2. CASE ~Has(s, ".")
    BY <2>2 DEF DnsHostName
  <2> QED BY <2>1, <2>2
<1> DEFINE h == DnsHostName(s)
           A == Kept \cup {"."}
           B == Symbols \ {"@"}
<1>3. h \in Seq(A)
  BY DomainsClean
<1>4. A \subseteq B
  <2>1. "@" \notin Kept /\ Kept \subseteq Symbols /\ "." \in Symbols
    BY Separated
  <2> QED BY <2>1
<1> HIDE DEF h, A, B
<1>5. h \in Seq(B)
  BY <1>3, <1>4, Wider
<1> QED BY <1>1, <1>5 DEF h, B

LEMMA WithoutAt ==
  /\ \A x \in Seq(Kept) : x \in Seq(Symbols \ {"@"}) /\ x \in Seq(Symbols)
  /\ \A s : NameToken(s, FALSE) \in Seq(Symbols \ {"@"}) /\ NameToken(s, FALSE) # <<>>
  /\ \A s : SamAccountName(s) \in Seq(Symbols \ {"@"})
  /\ \A s \in Seq(Symbols) : Domain(s) \in Seq(Symbols \ {"@"})
  /\ <<"cert_templates">> \in Seq(Symbols \ {"@"})
<1> DEFINE B == Symbols \ {"@"}
<1>1. Kept \subseteq B /\ Kept \subseteq Symbols /\ Kept \cup {"."} \subseteq B
  <2>1. "@" \notin Kept /\ Kept \subseteq Symbols /\ "." \in Symbols
    BY Separated
  <2> QED BY <2>1
<1>2. \A x \in Seq(Kept) : x \in Seq(B) /\ x \in Seq(Symbols)
  <2> HIDE DEF B, Kept
  <2> QED BY <1>1, Wider
<1>3. \A s : NameToken(s, FALSE) \in Seq(B) /\ NameToken(s, FALSE) # <<>>
  <2> HIDE DEF B
  <2> QED BY <1>2, TokensClean
<1>4. ASSUME NEW s PROVE SamAccountName(s) \in Seq(B)
  <2>1. "$" \in B
    BY DEF Symbols
  <2> HIDE DEF B
  <2>2. \A x \in Seq(B) : x \o <<"$">> \in Seq(B)
    BY <2>1
  <2>3. NameToken(SubSeq(s, 1, Len(s) - 1), FALSE) \o <<"$">> \in Seq(B)
    BY <1>3, <2>2
  <2> QED BY <1>3, <2>3 DEF SamAccountName
<1>5. ASSUME NEW s \in Seq(Symbols) PROVE Domain(s) \in Seq(B)
  <2> DEFINE A == Kept \cup {"."}
             d == Domain(s)
  <2>1. d \in Seq(A) /\ A \subseteq B
    BY <1>1, DomainsClean
  <2> HIDE DEF A, B, d
  <2>2. d \in Seq(B)
    BY <2>1, Wider
  <2> QED BY <2>2 DEF d
<1>6. <<"cert_templates">> \in Seq(B)
  <2> HIDE DEF B
  <2> QED BY <1>1, KeptTokens, OneSymbol
<1> QED BY <1>2, <1>3, <1>4, <1>5, <1>6

\* An identity comes out in the shape the gate asks for, unless the path knows
\* no domain and the value has one.
LEMMA IdentityPasses ==
  ASSUME NEW r \in Rules, NEW s \in Seq(Symbols), r.operation = "MapIdentity",
         SourceShapeSupports("MapIdentity", r.namespace, s),
         r.path = "secret" => s = <<>>
  PROVE  LET out == MapIdentity(r, r.namespace, s)
         IN  /\ Has(s, "@") => UpnShape(out)
             /\ ~Has(s, "@") /\ r.namespace \in {"domains", "hosts"} => LabelShape(out)
             <=> ~(Has(s, "@") /\ r.path \in {"samaccountname", "other"})
<1> DEFINE n == r.namespace
           out == MapIdentity(r, n, s)
<1>1. /\ n \in {"accounts", "cert_templates", "domains", "hosts"}
      /\ r.path \in {"userprincipalname", "email"} => n = "accounts"
      /\ r.path \in {"name", "samaccountname", "userprincipalname", "email", "secret", "other"}
  <2>1. r.path # "functionallevel"
    BY TablesAssumption
  <2> QED BY <2>1, TablesAssumption, RuleIs
<1>2. CASE Has(s, "@")
  <2>1. UpnShape(s)
    BY <1>2 DEF SourceShapeSupports
  <2>2. CASE r.path = "name"
    <3> DEFINE u == RSplitOnce(s, "@")[1]
               v == RSplitOnce(s, "@")[2]
               a == IF n = "cert_templates" THEN Template(u, Preserves(r, u))
                    ELSE NameToken(u, Preserves(r, u))
               b == Domain(v)
    <3>1. u \in Seq(Symbols) /\ v \in Seq(Symbols) /\ s = Glue(u, "@", v)
      <4>1. u \in Seq(Symbols) /\ v \in Seq(Symbols \ {"@"}) /\ s = u \o (<<"@">> \o v)
        BY <1>2, RSplitOnceFacts
      <4>2. \A x \in Seq(Symbols \ {"@"}) : x \in Seq(Symbols)
        OBVIOUS
      <4> QED BY <4>1, <4>2 DEF Glue
    <3>2. a \in Seq(Symbols \ {"@"}) /\ a # <<>>
      <4>1. CASE Preserves(r, u)
        <5>1. u \in Seq(Kept) /\ u # <<>>
          BY <4>1, PreservesKept
        <5>2. a = u
          BY <4>1 DEF Template, NameToken
        <5> HIDE DEF u, a
        <5> QED BY <5>1, <5>2, WithoutAt
      <4>2. CASE ~Preserves(r, u)
        <5>1. Preserves(r, u) = FALSE
          BY <4>2 DEF Preserves
        <5>2. a = IF n = "cert_templates" THEN <<"cert_templates">> ELSE NameToken(u, FALSE)
          BY <5>1 DEF Template
        <5>3. <<"cert_templates">> # <<>>
          OBVIOUS
        <5> HIDE DEF a, u
        <5> QED BY <5>2, <5>3, WithoutAt
      <4> QED BY <4>1, <4>2
    <3>3. b \in Seq(Symbols \ {"@"}) /\ (v # <<>> => b # <<>>)
      BY <3>1, WithoutAt, DomainFilled
    <3>4. out = a \o <<"@">> \o b
      BY <1>2, <2>2 DEF MapIdentity
    <3> HIDE DEF a, b, u, v
    <3>5. v # <<>>
      BY <2>1, <3>1, UpnShapes
    <3>6. a \in Seq(Symbols) /\ b \in Seq(Symbols)
      <4> DEFINE B == Symbols \ {"@"}
      <4>1. a \in Seq(B) /\ b \in Seq(B) /\ B \subseteq Symbols
        BY <3>2, <3>3
      <4> HIDE DEF B
      <4> QED BY <4>1, Wider
    <3>7. out = Glue(a, "@", b)
      <4>1. "@" \in Symbols
        BY Separated
      <4>2. \A x, y \in Seq(Symbols) : x \o <<"@">> \o y = x \o (<<"@">> \o y)
        BY <4>1, Around2
      <4> QED BY <3>4, <3>6, <4>2 DEF Glue
    <3>8. UpnShape(out)
      BY <3>2, <3>3, <3>5, <3>6, <3>7, UpnShapes
    <3> QED BY <1>2, <2>2, <3>8
  <2>3. CASE r.path \in {"userprincipalname", "email"}
    <3> DEFINE u == SplitOnce(s, "@")[1]
               v == SplitOnce(s, "@")[2]
               a == NameToken(u, FALSE)
               b == Domain(v)
    <3>1. u \in Seq(Symbols) /\ v \in Seq(Symbols) /\ s = Glue(u, "@", v)
          /\ Email(s) = Glue(a, "@", b)
      <4>1. u \in Seq(Symbols \ {"@"}) /\ v \in Seq(Symbols) /\ s = u \o (<<"@">> \o v)
            /\ Email(s) = a \o (<<"@">> \o b)
        BY <1>2, EmailIs
      <4>2. \A x \in Seq(Symbols \ {"@"}) : x \in Seq(Symbols)
        OBVIOUS
      <4> QED BY <4>1, <4>2 DEF Glue
    <3>2. a \in Seq(Symbols \ {"@"}) /\ a # <<>>
      <4> HIDE DEF u
      <4> QED BY WithoutAt
    <3>3. b \in Seq(Symbols \ {"@"}) /\ (v # <<>> => b # <<>>)
      BY <3>1, WithoutAt, DomainFilled
    <3>4. out = Email(s)
      BY <1>1, <1>2, <2>3 DEF MapIdentity, UpnName
    <3> HIDE DEF a, b, u, v
    <3>5. v # <<>>
      BY <2>1, <3>1, UpnShapes
    <3>6. a \in Seq(Symbols) /\ b \in Seq(Symbols)
      <4> DEFINE B == Symbols \ {"@"}
      <4>1. a \in Seq(B) /\ b \in Seq(B) /\ B \subseteq Symbols
        BY <3>2, <3>3
      <4> HIDE DEF B
      <4> QED BY <4>1, Wider
    <3>7. UpnShape(out)
      BY <3>1, <3>2, <3>3, <3>4, <3>5, <3>6, UpnShapes
    <3> QED BY <1>2, <2>3, <3>7
  <2>4. CASE r.path \in {"samaccountname", "other"}
    <3>1. out \in Seq(Symbols \ {"@"})
      <4>1. CASE n = "domains"
        BY <2>4, <4>1, WithoutAt DEF MapIdentity
      <4>2. CASE n = "hosts"
        BY <2>4, <4>2, HostFilled DEF MapIdentity
      <4>3. CASE n = "cert_templates"
        <5>1. out = <<"cert_templates">>
          BY <2>4, <4>3 DEF MapIdentity, Template
        <5> QED BY <5>1, WithoutAt
      <4>4. CASE n = "accounts"
        <5>1. out \in {SamAccountName(s), NameToken(s, FALSE)}
          BY <2>4, <4>4 DEF MapIdentity
        <5> QED BY <5>1, WithoutAt
      <4> QED BY <1>1, <4>1, <4>2, <4>3, <4>4
    <3>2. ~UpnShape(out)
      <4> HIDE DEF out
      <4> QED BY <3>1, NoUpn
    <3> QED BY <1>2, <2>4, <3>2
  <2>5. r.path # "secret"
    <3>1. s # <<>>
      BY <1>2 DEF Has
    <3> QED BY <3>1
  <2> QED BY <1>1, <2>2, <2>3, <2>4, <2>5
<1>3. CASE ~Has(s, "@")
  <2>1. ASSUME n \in {"domains", "hosts"} PROVE LabelShape(out)
    <3>1. LabelShape(s)
      BY <1>3, <2>1 DEF SourceShapeSupports
    <3>2. out = IF n = "domains" THEN Domain(s) ELSE DnsHostName(s)
      BY <1>3, <2>1 DEF MapIdentity
    <3> QED BY <3>1, <3>2, LabelsKept
  <2> QED BY <1>3, <2>1
<1> QED BY <1>2, <1>3

\* An SPN that parses comes out as one, one that does not is redacted.
LEMMA SpnPasses ==
  ASSUME NEW s \in Seq(Symbols), ~Has(s, "hosts")
  PROVE  /\ SpnParses(s) => SpnShape(Spn(s)) /\ Spn(s) # s
         /\ ~SpnParses(s) => Spn(s) = s
         /\ ~SpnShape(<<"opaque">>)
<1>1. ASSUME SpnParses(s) PROVE SpnShape(Spn(s)) /\ Spn(s) # s
  <2> DEFINE x == SpnClass(s)
             y == SpnHost(s)
             z == SpnService(s)
             C == Clean \ {"/"}
             U == Seq(C)
             n == Len(Split(s, "/"))
             p == IF n = 3 THEN Three(x, y, z) ELSE Two(x, y)
  <2>1. /\ n \in {2, 3}
        /\ x \in U /\ x # <<>> /\ y \in U /\ y # <<>> /\ Has(y, "hosts")
        /\ n = 3 => z \in U /\ z # <<>>
        /\ Spn(s) = Join(p, "/")
    BY <1>1, SpnIs
  <2> HIDE DEF x, y, z, U, n
  <2>2. /\ p \in Seq(U) \ {<<>>} /\ Len(p) = n /\ p[1] = x /\ p[2] = y
        /\ n = 3 => p[3] = z
    <3>1. CASE n = 3
      BY <2>1, <3>1, ThreeIs
    <3>2. CASE n # 3
      <4>1. p = Two(x, y) /\ n = 2
        BY <2>1, <3>2
      <4>2. /\ Two(x, y) \in Seq(U) \ {<<>>} /\ Len(Two(x, y)) = 2
            /\ Two(x, y)[1] = x /\ Two(x, y)[2] = y
        BY <2>1, TwoIs
      <4> HIDE DEF p
      <4> QED BY <3>2, <4>1, <4>2
    <3> QED BY <3>1, <3>2
  <2> HIDE DEF p
  <2>3. p \in Parts(C)
    BY <2>2 DEF U, Parts
  <2> HIDE DEF C
  <2>4. Split(Spn(s), "/") = p
    <3>1. "/" \in Clean
      BY KeptTokens
    <3> QED BY <2>1, <2>3, <3>1, SplitJoin DEF C
  <2>5. DOMAIN p = 1..Len(p)
    BY <2>3, PartsFacts
  <2>6. AllFilled(p)
    <3>1. \A i \in 1..n : i \in {1, 2} \/ (n = 3 /\ i = 3)
      BY <2>1
    <3> QED BY <2>1, <2>2, <2>5, <3>1 DEF AllFilled
  <2>7. SpnShape(Spn(s))
    BY <2>1, <2>2, <2>4, <2>6 DEF SpnShape
  <2>8. ASSUME Spn(s) = s PROVE FALSE
    <3> DEFINE R == Symbols \ {"hosts"}
    <3>1. s \in Seq(R)
      <4>1. \A i \in 1..Len(s) : s[i] \in R
        BY DEF Has
      <4>2. s = [i \in 1..Len(s) |-> s[i]] /\ Len(s) \in Nat
        OBVIOUS
      <4> HIDE DEF R
      <4> QED BY <4>1, <4>2, SeqIs
    <3>2. p \in Parts(R \ {"/"})
      <4> HIDE DEF R
      <4> QED BY <2>4, <2>8, <3>1, SplitType
    <3>3. 2 \in 1..Len(p)
      BY <2>1, <2>2
    <3>4. y \in Seq(R \ {"/"})
      BY <2>2, <3>2, <3>3, PartsFacts
    <3>5. \A i \in 1..Len(y) : y[i] \in R
      BY <3>4
    <3>6. DOMAIN y = 1..Len(y)
      BY <3>4
    <3> QED BY <2>1, <3>5, <3>6 DEF Has
  <2> QED BY <2>7, <2>8
<1>2. ~SpnParses(s) => Spn(s) = s
  BY DEF Spn
<1>3. ~SpnShape(<<"opaque">>)
  <2>1. <<"opaque">> \in Seq(Kept) /\ "/" \notin Kept
    BY KeptTokens, OneSymbol, Separated
  <2> DEFINE o == <<"opaque">>
             R == Kept \ {"/"}
  <2>2. o \in Seq(Kept) /\ Kept = R
    BY <2>1
  <2> HIDE DEF o
  <2>3. o \in Seq(Kept \ {"/"})
    BY <2>2
  <2>4. Len(Split(o, "/")) = 1
    BY <2>3, FilledOne
  <2> QED BY <2>4, SMTT(60) DEF SpnShape, o
<1> QED BY <1>1, <1>2, <1>3

\* A group keeps an at sign with something on both sides.
LEMMA GroupPasses ==
  ASSUME NEW r \in Rules \cup {NoRule}, NEW s \in Seq(Symbols), Has(s, "@"),
         AllFilled(RSplitOnce(s, "@"))
  PROVE  LET out == AdLocalGroupName(s, Has(s, "@") /\ Preserves(r, RSplitOnce(s, "@")[1]))
         IN  Has(out, "@") /\ AllFilled(RSplitOnce(out, "@"))
<1> DEFINE u == RSplitOnce(s, "@")[1]
           v == RSplitOnce(s, "@")[2]
           b == Has(s, "@") /\ Preserves(r, u)
           out == AdLocalGroupName(s, b)
           a == NameToken(u, b)
           h == DnsHostName(v)
<1>1. b \in BOOLEAN /\ (b => u \in Seq(Kept) /\ u # <<>>)
  BY PreservesKept DEF Preserves, Has
<1>2. v \in Seq(Symbols \ {"@"}) /\ out = a \o (<<"@">> \o h) /\ a \in Seq(Kept)
  <2> HIDE DEF b
  <2> QED BY <1>1, GroupNameIs
<1>3. v \in Seq(Symbols)
  <2> DEFINE B == Symbols \ {"@"}
  <2>1. v \in Seq(B) /\ B \subseteq Symbols
    BY <1>2
  <2> HIDE DEF B, v
  <2> QED BY <2>1, Wider
<1>4. h # <<>> /\ h \in Seq(Symbols \ {"@"})
  BY <1>3, HostFilled
<1>5. a # <<>>
  <2>1. CASE b
    <3>1. b = TRUE
      BY <2>1 DEF Preserves, Has
    <3>2. a = u
      BY <3>1, NameTokenType
    <3> QED BY <1>1, <2>1, <3>2
  <2>2. CASE ~b
    <3>1. b = FALSE
      BY <2>2 DEF Preserves, Has
    <3> HIDE DEF b, u
    <3> QED BY <3>1, WithoutAt
  <2> QED BY <2>1, <2>2
<1>6. a \in Seq(Symbols)
  BY <1>2, WithoutAt
<1>7. SUFFICES Has(out, "@") /\ AllFilled(RSplitOnce(out, "@"))
  OBVIOUS
<1> HIDE DEF a, h, out, u, v, b
<1>8. Has(out, "@") /\ RSplitOnce(out, "@") = <<a, h>>
  <2>1. \A x \in Seq(Symbols) : \A y \in Seq(Symbols \ {"@"}) :
           Has(x \o (<<"@">> \o y), "@") /\ RSplitOnce(x \o (<<"@">> \o y), "@") = <<x, y>>
    BY RSplitOnceAt
  <2> QED BY <1>2, <1>4, <1>6, <2>1
<1>9. AllFilled(<<a, h>>)
  BY <1>4, <1>5 DEF AllFilled
<1> QED BY <1>8, <1>9

LEMMA SidStays ==
  ASSUME NEW s \in Seq(Symbols), IsSid(s), NEW b \in BOOLEAN
  PROVE  IsSid(Sid(s, b))
<1> DEFINE mapped == IF b /\ SidIdentity(s) = <<"sid">> THEN SidIdentity(s) ELSE <<"sids">>
<1>1. mapped \in {<<"sid">>, <<"sids">>}
  OBVIOUS
<1>2. s # <<>> /\ (Len(s) > 1 => Len(s) > 2)
  BY DEF IsSid
<1>3. CASE Len(s) = 1
  <2>1. Sid(s, b) = mapped
    BY <1>3 DEF Sid
  <2>2. IsSid(<<"sid">>) /\ IsSid(<<"sids">>)
    BY DEF IsSid
  <2> HIDE DEF mapped
  <2> QED BY <1>1, <2>1, <2>2
<1>4. CASE Len(s) # 1
  <2> DEFINE t == SubSeq(s, 1, Len(s) - 2)
             d == Domain(t)
  <2>1. Len(s) \in Nat /\ Len(s) # 0
    BY <1>2
  <2>2. Len(s) > 2
    <3>1. \A k \in Nat : k # 0 /\ k # 1 => k > 1
      OBVIOUS
    <3> QED BY <1>2, <1>4, <2>1, <3>1
  <2>3. t \in Seq(Symbols) /\ Len(t) = Len(s) - 2
    BY <2>2
  <2>4. t # <<>>
    <3> HIDE DEF t
    <3> QED BY <2>1, <2>2, <2>3
  <2>5. d # <<>> /\ d \in Seq(Clean)
    BY <2>3, <2>4, DomainFilled, DomainsClean
  <2>6. Sid(s, b) = d \o <<"-">> \o mapped
    BY <1>4 DEF Sid
  <2> HIDE DEF d, mapped
  <2>7. \A x \in Seq(Clean) : x # <<>> =>
           IsSid(x \o <<"-">> \o <<"sid">>) /\ IsSid(x \o <<"-">> \o <<"sids">>)
    <3> SUFFICES ASSUME NEW x \in Seq(Clean), x # <<>>, NEW e \in {"sid", "sids"}
                 PROVE  IsSid(x \o <<"-">> \o <<e>>)
      OBVIOUS
    <3> DEFINE w == x \o <<"-">> \o <<e>>
    <3>1. Len(x) \in Nat /\ Len(x) # 0
      OBVIOUS
    <3>2. Len(w) = Len(x) + 2 /\ w[Len(x) + 2] = e /\ w[Len(x) + 1] = "-"
      OBVIOUS
    <3>3. w # <<>>
      OBVIOUS
    <3> HIDE DEF w
    <3>4. Len(w) - 1 = Len(x) + 1 /\ Len(w) > 2
      BY <3>1, <3>2
    <3> QED BY <3>2, <3>3, <3>4 DEF IsSid, w
  <2> QED BY <1>1, <2>5, <2>6, <2>7
<1> QED BY <1>3, <1>4

\* Without a backslash nothing is escaped.
LEMMA NothingEscaped ==
  ASSUME NEW S, "\\" \notin S, NEW s \in Seq(S), NEW c
  PROVE  SplitUnescaped(s, c) = Split(s, c)
<1> DEFINE n == Len(s)
<1>1. n \in Nat /\ n \in 0..n /\ \A k \in 1..n : s[k] # "\\"
  OBVIOUS
<1>2. PICK f : Cuts(f, S, s, c) /\ Split(s, c) = f[n]
  BY SplitCuts
<1>3. PICK h : CutsUnescaped(h, S, s, c) /\ SplitUnescaped(s, c) = h[n].parts
  BY SplitUnescapedCuts
<1>4. /\ f[0] = <<<<>>>> /\ h[0] = [parts |-> <<<<>>>>, escaped |-> FALSE]
      /\ \A k \in 1..n : f[k] = Cut(f[k - 1], s[k], c) /\ h[k] = CutUnescaped(h[k - 1], s[k], c)
  BY <1>2, <1>3 DEF Cuts, CutsUnescaped
<1> HIDE DEF n
<1> DEFINE K == {k \in 0..n : h[k].parts = f[k] /\ h[k].escaped = FALSE}
<1>5. 0 \in K
  <2>1. 0 \in 0..n
    BY <1>1
  <2> QED BY <1>4, <2>1
<1>6. ASSUME NEW k \in 1..n, k - 1 \in K PROVE k \in K
  <2>1. k \in 0..n /\ s[k] # "\\"
    BY <1>1
  <2>2. h[k - 1].parts = f[k - 1] /\ h[k - 1].escaped = FALSE
    BY <1>6
  <2> DEFINE a == h[k - 1]
             x == s[k]
  <2>3. f[k] = Cut(a.parts, x, c) /\ h[k] = CutUnescaped(a, x, c) /\ a.escaped = FALSE /\ x # "\\"
    BY <1>4, <2>1, <2>2
  <2> HIDE DEF a, x
  <2>4. CutUnescaped(a, x, c).parts = Cut(a.parts, x, c) /\ CutUnescaped(a, x, c).escaped = FALSE
    BY <2>3 DEF CutUnescaped, Cut
  <2> QED BY <2>1, <2>3, <2>4
<1> HIDE DEF K
<1>7. n \in K
  BY <1>1, <1>5, <1>6, Climb
<1> QED BY <1>2, <1>3, <1>7 DEF K

\* What a component is made of.
DnSymbols == Kept \cup {".", "="}

LEMMA DnSymbolsAre ==
  /\ DnSymbols \subseteq Symbols /\ Kept \cup {"."} \subseteq DnSymbols
  /\ "\\" \notin DnSymbols /\ "," \notin DnSymbols /\ "+" \notin DnSymbols
  /\ "=" \notin Kept \cup {"."} /\ "=" \in DnSymbols
<1>1. Kept \cap {"\\", ",", "+", "="} = {} /\ Kept \subseteq Symbols /\ {".", "="} \subseteq Symbols
  BY Separated
<1> QED BY <1>1 DEF DnSymbols

\* A component whose shape was looked at comes out with that shape, whether
\* its content is syntax or not.
LEMMA ComponentPasses ==
  ASSUME NEW ava \in Seq(Symbols), Has(ava, "="),
         DnAttribute(ava) \in StandardRdnAttributeTypes, DnContent(ava) # <<>>,
         NEW preserved, preserved \subseteq Seq(Kept) \ {<<>>}, NEW many, NEW last
  PROVE  LET out == DnAva(ava, many, last, preserved)
         IN  /\ out \in Seq(DnSymbols) /\ Has(out, "=")
             /\ SplitOnce(out, "=")[1] \in StandardRdnAttributeTypes
             /\ AllFilled(SplitOnce(out, "="))
<1> DEFINE a == DnAttribute(ava)
           y == DnMapped(ava, many, last, preserved)
           out == DnAva(ava, many, last, preserved)
<1>1. /\ y \in Seq(Kept \cup {"."}) /\ y # <<>> /\ out = a \o (<<"=">> \o y)
      /\ a \in StandardRdnAttributeTypes
  BY AvaIs
<1>2. SUFFICES /\ out \in Seq(DnSymbols) /\ Has(out, "=")
               /\ SplitOnce(out, "=")[1] \in StandardRdnAttributeTypes
               /\ AllFilled(SplitOnce(out, "="))
  OBVIOUS
<1> HIDE DEF a, y, out
<1>3. a \in Seq(Kept) /\ a # <<>>
  <2>1. <<"cn">> \in Seq(Kept) /\ <<"dc">> \in Seq(Kept) /\ <<"uid">> \in Seq(Kept)
    BY KeptTokens, OneSymbol
  <2>2. <<"cn">> # <<>> /\ <<"dc">> # <<>> /\ <<"uid">> # <<>>
    OBVIOUS
  <2> QED BY <1>1, <2>1, <2>2 DEF StandardRdnAttributeTypes
<1>4. a \in Seq(DnSymbols) /\ y \in Seq(DnSymbols) /\ a \in Seq(DnSymbols \ {"="})
  <2> DEFINE B == DnSymbols \ {"="}
             A == Kept \cup {"."}
  <2>1. Kept \subseteq B /\ Kept \subseteq DnSymbols /\ A \subseteq DnSymbols
    BY DnSymbolsAre
  <2> HIDE DEF A, B
  <2>2. y \in Seq(A)
    BY <1>1 DEF A
  <2>3. a \in Seq(DnSymbols) /\ y \in Seq(DnSymbols) /\ a \in Seq(B)
    BY <1>3, <2>1, <2>2, Wider
  <2> QED BY <2>3 DEF B
<1>5. out \in Seq(DnSymbols)
  <2>1. \A u, v \in Seq(DnSymbols) : u \o (<<"=">> \o v) \in Seq(DnSymbols)
    BY DnSymbolsAre, Around2
  <2> QED BY <1>1, <1>4, <2>1
<1>6. Has(out, "=") /\ SplitOnce(out, "=") = <<a, y>>
  <2>1. \A u \in Seq(DnSymbols \ {"="}) : \A v \in Seq(DnSymbols) :
           Has(u \o (<<"=">> \o v), "=") /\ SplitOnce(u \o (<<"=">> \o v), "=") = <<u, v>>
    BY SplitOnceAt
  <2> QED BY <1>1, <1>4, <2>1
<1>7. AllFilled(<<a, y>>) /\ <<a, y>>[1] = a
  BY <1>1, <1>3 DEF AllFilled
<1> QED BY <1>1, <1>5, <1>6, <1>7

LEMMA EmptySeq ==
  ASSUME NEW S
  PROVE  <<>> \in Seq(S)
OBVIOUS

LEMMA LastFilled ==
  ASSUME NEW u
  PROVE  ~AllFilled(<<u, <<>>>>)
BY DEF AllFilled

\* What the gate asks of a component.
Shapely(ava) ==
    /\ ava \in Seq(DnSymbols) /\ Has(ava, "=")
    /\ SplitOnce(ava, "=")[1] \in StandardRdnAttributeTypes
    /\ AllFilled(SplitOnce(ava, "="))

\* A component of a name whose shape was looked at has an attribute that is
\* standard, and a content.
LEMMA ComponentIs ==
  ASSUME NEW dn \in Seq(Symbols), DnShape(dn),
         NEW i \in 1..Len(SplitUnescaped(dn, ",")),
         NEW j \in 1..Len(SplitUnescaped(SplitUnescaped(dn, ",")[i], "+"))
  PROVE  LET ava == SplitUnescaped(SplitUnescaped(dn, ",")[i], "+")[j]
         IN  /\ ava \in Seq(Symbols) /\ Has(ava, "=")
             /\ DnAttribute(ava) \in StandardRdnAttributeTypes /\ DnContent(ava) # <<>>
<1> DEFINE rdns == SplitUnescaped(dn, ",")
           avas == SplitUnescaped(rdns[i], "+")
           ava == avas[j]
<1>1. rdns \in Parts(Symbols)
  BY SplitUnescapedType
<1>2. /\ DOMAIN rdns = 1..Len(rdns) /\ rdns[i] \in Seq(Symbols)
  <2>1. i \in 1..Len(rdns)
    OBVIOUS
  <2> HIDE DEF rdns
  <2> QED BY <1>1, <2>1, PartsFacts
<1>3. avas \in Parts(Symbols)
  <2> HIDE DEF rdns
  <2> QED BY <1>2, SplitUnescapedType
<1>4. DOMAIN avas = 1..Len(avas) /\ ava \in Seq(Symbols)
  <2>1. j \in 1..Len(avas)
    OBVIOUS
  <2> HIDE DEF avas
  <2> QED BY <1>3, <2>1, PartsFacts
<1>5. Has(ava, "=") /\ DnAttribute(ava) \in StandardRdnAttributeTypes
  <2>1. StandardTypes(dn)
    BY DEF DnShape
  <2>2. \A k \in DOMAIN rdns : \A l \in DOMAIN SplitUnescaped(rdns[k], "+") :
           /\ Has(SplitUnescaped(rdns[k], "+")[l], "=")
           /\ DnAttribute(SplitUnescaped(rdns[k], "+")[l]) \in StandardRdnAttributeTypes
    BY <2>1, Zenon DEF StandardTypes, DnAttribute
  <2>3. i \in DOMAIN rdns /\ j \in DOMAIN avas
    BY <1>2, <1>4
  <2> HIDE DEF rdns
  <2> QED BY ONLY <2>2, <2>3, Zenon
<1>6. ava \in Seq(Symbols \ {",", "+"}) => AllFilled(SplitOnce(ava, "="))
  BY ComponentFilled
<1> HIDE DEF ava
<1>7. ASSUME DnContent(ava) = <<>> PROVE FALSE
  <2> DEFINE T == Symbols \ {",", "+"}
             a == DnAttribute(ava)
  <2>1. \A w \in Seq(Symbols) : Has(w, "=") =>
           /\ w = DnAttribute(w) \o (<<"=">> \o DnContent(w))
           /\ DnAttribute(w) \in Seq(Symbols \ {"="})
    BY SplitOnceFacts DEF DnAttribute, DnContent
  <2>2. /\ a \in {<<"cn">>, <<"dc">>, <<"uid">>} /\ ava = a \o (<<"=">> \o <<>>)
        /\ a \in Seq(Symbols \ {"="})
    BY <1>4, <1>5, <1>7, <2>1 DEF StandardRdnAttributeTypes
  <2>3. "cn" \in T /\ "dc" \in T /\ "uid" \in T /\ "=" \in T
    BY DEF Symbols
  <2> HIDE DEF T, a
  <2>4. <<>> \in Seq(T) /\ a \in Seq(T)
    <3>1. <<"cn">> \in Seq(T) /\ <<"dc">> \in Seq(T) /\ <<"uid">> \in Seq(T)
      BY <2>3, OneSymbol
    <3> QED BY <2>2, <3>1, EmptySeq
  <2>5. ava \in Seq(T)
    <3>1. \A u, v \in Seq(T) : u \o (<<"=">> \o v) \in Seq(T)
      BY <2>3, Around2
    <3> QED BY <2>2, <2>4, <3>1
  <2>6. SplitOnce(ava, "=") = <<a, <<>>>>
    <3>1. \A u \in Seq(Symbols \ {"="}) : \A v \in Seq(Symbols) :
             SplitOnce(u \o (<<"=">> \o v), "=") = <<u, v>>
      BY SplitOnceAt, ZenonT(60)
    <3>2. <<>> \in Seq(Symbols)
      BY EmptySeq
    <3> QED BY <2>2, <3>1, <3>2
  <2>7. ~AllFilled(<<a, <<>>>>)
    BY LastFilled
  <2> QED BY <1>6, <2>5, <2>6, <2>7 DEF T
<1> QED BY <1>4, <1>5, <1>7 DEF ava

LEMMA RowPasses ==
  ASSUME NEW dn \in Seq(Symbols), DnShape(dn),
         NEW preserved, preserved \subseteq Seq(Kept) \ {<<>>},
         NEW i \in 1..Len(SplitUnescaped(dn, ","))
  PROVE  LET row == Join(DnAvas(SplitUnescaped(dn, ","), preserved, i), "+")
         IN  /\ row \in Seq(DnSymbols \cup {"+"})
             /\ Split(row, "+") \in Parts(DnSymbols)
             /\ \A j \in 1..Len(Split(row, "+")) : Shapely(Split(row, "+")[j])
<1> DEFINE rdns == SplitUnescaped(dn, ",")
           avas == SplitUnescaped(rdns[i], "+")
           many == DcCount(rdns) >= 2
           last == i = Len(rdns)
           g == [j \in DOMAIN avas |-> DnAva(avas[j], many, last, preserved)]
           row == Join(g, "+")
           n == Len(avas)
<1>1. DnAvas(rdns, preserved, i) = g
  BY DEF DnAvas
<1>2. n \in Nat \ {0} /\ DOMAIN avas = 1..n
  <2>1. rdns \in Parts(Symbols) /\ i \in 1..Len(rdns)
    BY SplitUnescapedType
  <2> HIDE DEF rdns
  <2>2. rdns[i] \in Seq(Symbols)
    BY <2>1, PartsFacts
  <2>3. avas \in Parts(Symbols)
    BY <2>2, SplitUnescapedType
  <2> HIDE DEF avas
  <2> QED BY <2>3, PartsFacts
<1>3. ASSUME NEW j \in 1..n PROVE Shapely(DnAva(avas[j], many, last, preserved))
  <2> DEFINE ava == avas[j]
  <2>1. /\ ava \in Seq(Symbols) /\ Has(ava, "=")
        /\ DnAttribute(ava) \in StandardRdnAttributeTypes /\ DnContent(ava) # <<>>
    BY ComponentIs
  <2> HIDE DEF ava, many, last
  <2>2. LET out == DnAva(ava, many, last, preserved)
        IN  /\ out \in Seq(DnSymbols) /\ Has(out, "=")
            /\ SplitOnce(out, "=")[1] \in StandardRdnAttributeTypes
            /\ AllFilled(SplitOnce(out, "="))
    BY <2>1, ComponentPasses
  <2> QED BY <2>2 DEF Shapely, ava
<1> SUFFICES /\ row \in Seq(DnSymbols \cup {"+"})
             /\ Split(row, "+") \in Parts(DnSymbols)
             /\ \A j \in 1..Len(Split(row, "+")) : Shapely(Split(row, "+")[j])
  BY <1>1
<1> HIDE DEF n, avas, many, last
<1>4. g = [j \in 1..n |-> g[j]] /\ \A j \in 1..n : Shapely(g[j])
  BY <1>2, <1>3
<1> HIDE DEF g
<1>5. g \in Parts(DnSymbols) /\ Len(g) = n
  <2>1. \A j \in 1..n : g[j] \in Seq(DnSymbols)
    BY <1>4 DEF Shapely
  <2> QED BY <1>2, <1>4, <2>1, PartsSeq
<1> DEFINE E == DnSymbols \cup {"+"}
<1>6. E \ {"+"} = DnSymbols /\ "+" \in E /\ DnSymbols \subseteq E
  BY DnSymbolsAre
<1> HIDE DEF E
<1>7. g \in Parts(E \ {"+"}) /\ g \in Parts(E)
  <2>1. \A j \in 1..n : g[j] \in Seq(E)
    BY <1>4, <1>6, Wider DEF Shapely
  <2>2. g \in Parts(E)
    BY <1>2, <1>4, <2>1, PartsSeq
  <2> QED BY <1>5, <1>6, <2>2
<1>8. Split(row, "+") = g /\ row \in Seq(E)
  BY <1>6, <1>7, SplitJoin, JoinType
<1> QED BY <1>4, <1>5, <1>8 DEF E

\* A distinguished name comes out with the shape that was looked at.
LEMMA DnPasses ==
  ASSUME NEW dn \in Seq(Symbols), DnShape(dn),
         NEW preserved, preserved \subseteq Seq(Kept) \ {<<>>}
  PROVE  DnShape(Dn(dn, preserved))
<1> DEFINE rdns == SplitUnescaped(dn, ",")
           n == Len(rdns)
           Row(i) == Join(DnAvas(rdns, preserved, i), "+")
           rows == [i \in DOMAIN rdns |-> Row(i)]
           out == Dn(dn, preserved)
           F == DnSymbols \cup {"+"}
           E == F \cup {","}
<1>1. n \in Nat \ {0} /\ DOMAIN rdns = 1..n
  <2>1. rdns \in Parts(Symbols)
    BY SplitUnescapedType
  <2> HIDE DEF rdns
  <2> QED BY <2>1, PartsFacts
<1>2. ASSUME NEW i \in 1..n
      PROVE  /\ Row(i) \in Seq(F) /\ Split(Row(i), "+") \in Parts(DnSymbols)
             /\ \A j \in 1..Len(Split(Row(i), "+")) : Shapely(Split(Row(i), "+")[j])
  BY RowPasses
<1>3. out = Join(rows, ",")
  BY DnIs
<1>4. F = E \ {","} /\ F \subseteq E /\ "," \in E /\ "\\" \notin E /\ "\\" \notin F
  BY DnSymbolsAre
<1> HIDE DEF F, E, out, Row, n, rdns
<1>5. rows = [i \in 1..n |-> rows[i]] /\ \A i \in 1..n : rows[i] = Row(i)
  BY <1>1
<1> HIDE DEF rows
<1>6. rows \in Parts(F) /\ Len(rows) = n /\ rows \in Parts(E)
  <2>1. \A i \in 1..n : rows[i] \in Seq(F)
    BY <1>2, <1>5
  <2>2. \A x \in Seq(F) : x \in Seq(E)
    BY <1>4, Wider
  <2>3. \A i \in 1..n : rows[i] \in Seq(E)
    BY <2>1, <2>2
  <2> QED BY <1>1, <1>5, <2>1, <2>3, PartsSeq
<1>7. Split(out, ",") = rows /\ out \in Seq(E)
  BY <1>3, <1>4, <1>6, SplitJoin, JoinType
<1>8. SplitUnescaped(out, ",") = rows
  BY <1>4, <1>7, NothingEscaped
<1>9. DOMAIN rows = 1..n
  BY <1>5
<1>10. ASSUME NEW i \in DOMAIN rows, NEW j \in DOMAIN Split(rows[i], "+")
       PROVE  /\ Shapely(Split(rows[i], "+")[j])
  <2> DEFINE g == Split(rows[i], "+")
  <2>1. i \in 1..n /\ rows[i] = Row(i)
    BY <1>5, <1>9
  <2>2. g \in Parts(DnSymbols) /\ \A l \in 1..Len(g) : Shapely(g[l])
    BY <1>2, <2>1
  <2>3. j \in DOMAIN g
    OBVIOUS
  <2> HIDE DEF g
  <2>4. j \in 1..Len(g)
    BY <2>2, <2>3, PartsFacts
  <2> QED BY <2>2, <2>4 DEF g
<1>11. ASSUME NEW i \in DOMAIN rows
       PROVE  SplitUnescaped(rows[i], "+") = Split(rows[i], "+")
  <2>1. rows[i] \in Seq(F)
    BY <1>2, <1>5, <1>9
  <2> QED BY <1>4, <2>1, NothingEscaped
<1>12. \A i \in DOMAIN Split(out, ",") :
          \A j \in DOMAIN Split(Split(out, ",")[i], "+") :
             /\ Has(Split(Split(out, ",")[i], "+")[j], "=")
             /\ AllFilled(SplitOnce(Split(Split(out, ",")[i], "+")[j], "="))
  BY <1>7, <1>10, Zenon DEF Shapely
<1>13. \A i \in DOMAIN SplitUnescaped(out, ",") :
          \A j \in DOMAIN SplitUnescaped(SplitUnescaped(out, ",")[i], "+") :
             /\ Has(SplitUnescaped(SplitUnescaped(out, ",")[i], "+")[j], "=")
             /\ SplitOnce(SplitUnescaped(SplitUnescaped(out, ",")[i], "+")[j], "=")[1]
                   \in StandardRdnAttributeTypes
  BY <1>8, <1>10, <1>11, Zenon DEF Shapely
<1>14. StandardTypes(out)
  BY <1>13, Zenon DEF StandardTypes
<1>15. DnShape(out)
  BY <1>12, <1>14, Zenon DEF DnShape
<1> QED BY <1>15 DEF out

\* An identifier comes out as what it was.
LEMMA CustomPasses ==
  ASSUME NEW s \in Seq(Symbols), NEW namespace
  PROVE  LET out == MapCustomIdentifier(namespace, s)
         IN  /\ IsSid(s) => IsSid(out)
             /\ IsGuid(s) => IsGuid(out)
             /\ IsOid(s) => IsOid(out)
<1> DEFINE out == MapCustomIdentifier(namespace, s)
           b == namespace = "sids_preserve_rid"
<1>1. IsSid(s) => IsSid(out)
  <2>1. b \in BOOLEAN /\ (IsSid(s) => out = Sid(s, b))
    BY KindsApart DEF MapCustomIdentifier
  <2> HIDE DEF out, b
  <2> QED BY <2>1, SidStays
<1>2. IsGuid(s) => out = <<"guids">>
  BY KindsApart DEF MapCustomIdentifier, Guid
<1>3. IsOid(s) => out = <<"oids">>
  BY KindsApart DEF MapCustomIdentifier, Oid
<1>4. IsGuid(<<"guids">>) /\ IsOid(<<"oids">>)
  BY DEF IsGuid, IsOid
<1> QED BY <1>1, <1>2, <1>3, <1>4

\* A reference comes out as what it was, unless the path refers by name.
LEMMA ReferencePasses ==
  ASSUME NEW s \in Seq(Symbols),
         NEW namespace \in {"sids", "sids_preserve_rid", "guids", "oids", "identifiers",
                            "cert_templates", "domains"},
         namespace \in {"sids", "sids_preserve_rid"} => IsBareSid(s),
         namespace = "guids" => IsGuid(s), namespace = "oids" => IsOid(s)
  PROVE  LET out == MapReference(namespace, s)
         IN  /\ IsSid(s) => IsSid(out)
             /\ IsGuid(s) => IsGuid(out)
             /\ IsOid(s) => IsOid(out)
             <=> ~(/\ namespace \in {"domains", "cert_templates"}
                   /\ IsSid(s) \/ IsGuid(s) \/ IsOid(s))
<1> DEFINE out == MapReference(namespace, s)
           b == namespace = "sids_preserve_rid"
<1>0. IsGuid(<<"guids">>) /\ IsOid(<<"oids">>) /\ b \in BOOLEAN
  BY DEF IsGuid, IsOid
<1>1. CASE namespace \in {"sids", "sids_preserve_rid"}
  <2>1. IsSid(s) /\ ~IsGuid(s) /\ ~IsOid(s)
    BY <1>1, KindsApart DEF IsBareSid
  <2>2. out = Sid(s, b)
    BY <1>1 DEF MapReference
  <2>3. IsSid(Sid(s, b))
    <3> HIDE DEF b
    <3> QED BY <1>0, <2>1, SidStays
  <2> QED BY <1>1, <2>1, <2>2, <2>3
<1>2. CASE namespace \in {"guids", "oids"}
  <2>1. out = IF namespace = "guids" THEN <<"guids">> ELSE <<"oids">>
    BY <1>2 DEF MapReference, Guid, Oid
  <2> QED BY <1>0, <1>2, <2>1, KindsApart
<1>3. CASE namespace \in {"domains", "cert_templates"}
  <2>1. ~IsSid(out) /\ ~IsGuid(out) /\ ~IsOid(out)
    <3>1. CASE namespace = "domains"
      <4> DEFINE d == Domain(s)
                 B == {".", "domains", "local"}
      <4>1. d \in Seq(B) /\ out = d
        BY <3>1, DomainType DEF MapReference
      <4> HIDE DEF d, out
      <4>2. d # <<>> => d[Len(d)] \in B
        BY <4>1
      <4>3. d # <<"gpo">> /\ d # <<"guid">> /\ d # <<"guids">> /\ d # <<"oid">> /\ d # <<"oids">>
        <5>1. \A x : <<x>> # <<>> /\ <<x>>[Len(<<x>>)] = x
          OBVIOUS
        <5>2. \A x : x \notin B => d # <<x>>
          BY <4>2, <5>1
        <5> QED BY <5>2
      <4> QED BY <4>1, <4>2, <4>3 DEF IsSid, IsGuid, IsOid
    <3>2. CASE namespace = "cert_templates"
      <4>1. out = <<"cert_templates">>
        BY <3>2 DEF MapReference, Template
      <4> HIDE DEF out
      <4> QED BY <4>1 DEF IsSid, IsGuid, IsOid
    <3> QED BY <1>3, <3>1, <3>2
  <2> QED BY <1>3, <2>1
<1>4. CASE namespace = "identifiers"
  <2>1. out = MapCustomIdentifier(namespace, s)
    BY <1>4 DEF MapReference
  <2>2. /\ IsSid(s) => IsSid(out)
        /\ IsGuid(s) => IsGuid(out)
        /\ IsOid(s) => IsOid(out)
    BY <2>1, CustomPasses
  <2> QED BY <1>4, <2>2
<1> QED BY <1>1, <1>2, <1>3, <1>4

\* The gate lets through what the policy decided and the engine wrote, the
\* values that stop a run apart.
LEMMA StringPasses ==
  ASSUME NEW l \in Leaves, l.kind = "string"
  PROVE  OutputShapeValid(l.rule, Resolve(l.rule, l.s), l.s, Written(l.rule, l.s)) <=> ~Stops(l)
<1> DEFINE r == l.rule
           s == l.s
           d == Resolve(r, s)
           out == Applied(r, d, s)
<1>1. /\ r \in Rules \cup {NoRule} /\ s \in Strings[r] /\ s \in Seq(Symbols)
      /\ Resolved(r, s, d)
      /\ Written(r, s) = out
  <2>1. r \in Rules \cup {NoRule} /\ s \in Strings[r] /\ s \in Seq(Symbols)
    BY LeafIs
  <2> QED BY <2>1, ResolveIs DEF Written
<1>2. /\ d.operation = "ParseSpn" => (Stops(l) <=> ~SpnParses(s))
      /\ d.operation = "MapIdentity" =>
            (Stops(l) <=> Has(s, "@") /\ r.path \in {"samaccountname", "other"})
      /\ d.operation = "MapReference" =>
            (Stops(l) <=> /\ d.namespace \in {"domains", "cert_templates"}
                          /\ IsSid(s) \/ IsGuid(s) \/ IsOid(s))
      /\ d.operation \notin {"ParseSpn", "MapIdentity", "MapReference"} => ~Stops(l)
  <2> HIDE DEF out
  <2> QED BY DEF Stops
<1> SUFFICES OutputShapeValid(r, d, s, out) <=> ~Stops(l)
  BY <1>1
<1>3. out = Applied(r, d, s)
  OBVIOUS
<1> HIDE DEF out, d, r, s
<1>4. CASE r.path = "secret" /\ s # <<>>
  <2>1. out = <<"REDACTED">>
    BY <1>3, <1>4 DEF Applied
  <2>2. OutputShapeValid(r, d, s, out)
    BY <1>4, <2>1 DEF OutputShapeValid
  <2>3. r \in Rules
    <3>1. NoRule.path # "secret"
      BY DEF NoRule
    <3> QED BY <1>1, <1>4, <3>1
  <2>4. d.operation \notin {"ParseSpn", "MapReference"}
    BY <1>1, <1>4, <2>3, TablesAssumption, RuleIs DEF Resolved, Decide, Opaque
  <2>5. ~Stops(l)
    BY <1>2, <1>4, <2>4
  <2> QED BY <2>2, <2>5
<1>5. CASE ~(r.path = "secret" /\ s # <<>>)
  <2>1. CASE d.operation = "ReplaceOpaque"
    <3>1. out = IF s = <<>> THEN s ELSE <<"opaque">>
      BY <1>3, <1>5, <2>1 DEF Applied
    <3>2. OutputShapeValid(r, d, s, out)
      BY <1>5, <2>1, <3>1 DEF OutputShapeValid, IsRedacted
    <3> QED BY <1>2, <2>1, <3>2
  <2>2. CASE d.operation \in {"PreserveConstant", "PreserveSchemaValue"}
    <3>1. OutputShapeValid(r, d, s, out)
      BY <1>5, <2>2 DEF OutputShapeValid
    <3> QED BY <1>2, <2>2, <3>1
  <2>3. CASE d.operation = "MapCustomIdentifier"
    <3>1. out = MapCustomIdentifier(d.namespace, s)
      BY <1>3, <1>5, <2>3 DEF Applied
    <3>2. /\ IsSid(s) => IsSid(out)
          /\ IsGuid(s) => IsGuid(out)
          /\ IsOid(s) => IsOid(out)
      BY <1>1, <3>1, CustomPasses
    <3>3. OutputShapeValid(r, d, s, out)
      BY <1>5, <2>3, <3>2 DEF OutputShapeValid
    <3> QED BY <1>2, <2>3, <3>3
  <2>4. CASE d.operation = "MapReference"
    <3>1. out = MapReference(d.namespace, s)
      BY <1>3, <1>5, <2>4 DEF Applied
    <3>2. r \in Rules /\ r.operation = "MapReference"
      BY <1>1, <2>4, RuleIs DEF Resolved, Decide, Opaque
    <3>3. r.namespace \in {"sids", "identifiers", "cert_templates", "domains"}
      BY <3>2, TablesAssumption
    <3>4. /\ d.namespace \in {"sids", "sids_preserve_rid", "guids", "oids", "identifiers",
                              "cert_templates", "domains"}
          /\ d.namespace \in {"sids", "sids_preserve_rid"} => IsBareSid(s)
          /\ d.namespace = "guids" => IsGuid(s)
          /\ d.namespace = "oids" => IsOid(s)
      BY <1>1, <2>4, <3>2, <3>3, RuleIs DEF Resolved, Decide, Opaque, SourceShapeSupports
    <3>5. /\ IsSid(s) => IsSid(out)
          /\ IsGuid(s) => IsGuid(out)
          /\ IsOid(s) => IsOid(out)
          <=> ~(/\ d.namespace \in {"domains", "cert_templates"}
                /\ IsSid(s) \/ IsGuid(s) \/ IsOid(s))
      BY <1>1, <3>1, <3>4, ReferencePasses
    <3>6. OutputShapeValid(r, d, s, out) <=>
             /\ IsSid(s) => IsSid(out)
             /\ IsGuid(s) => IsGuid(out)
             /\ IsOid(s) => IsOid(out)
      BY <1>5, <2>4 DEF OutputShapeValid
    <3> QED BY <1>2, <2>4, <3>5, <3>6
  <2>5. CASE d.operation \in {"MapIdentity", "ParseDn", "ParseSpn", "ParseComposite"}
    <3>1. /\ r \in Rules /\ r.operation = d.operation
          /\ d.namespace = IF PermitsDomainRid(r, s) THEN "sids_preserve_rid" ELSE r.namespace
          /\ SourceShapeSupports(r.operation, d.namespace, s)
      BY <1>1, <2>5, RuleIs DEF Resolved, Decide, Opaque
    <3>2. d.namespace = r.namespace
      BY <2>5, <3>1 DEF PermitsDomainRid
    <3>3. CASE d.operation = "MapIdentity"
      <4>1. out = MapIdentity(r, r.namespace, s)
        BY <1>3, <1>5, <3>2, <3>3 DEF Applied
      <4>2. /\ Has(s, "@") => UpnShape(out)
            /\ ~Has(s, "@") /\ r.namespace \in {"domains", "hosts"} => LabelShape(out)
            <=> ~(Has(s, "@") /\ r.path \in {"samaccountname", "other"})
        BY <1>1, <1>5, <3>1, <3>2, <3>3, <4>1, IdentityPasses
      <4>3. OutputShapeValid(r, d, s, out) <=>
               /\ Has(s, "@") => UpnShape(out)
               /\ ~Has(s, "@") /\ r.namespace \in {"domains", "hosts"} => LabelShape(out)
        BY <1>5, <3>2, <3>3 DEF OutputShapeValid
      <4> QED BY <1>2, <3>3, <4>2, <4>3
    <3>4. CASE d.operation = "ParseDn"
      <4> DEFINE p == {c \in r.permits : Preserves(r, c)}
      <4>1. out = Dn(s, p)
        BY <1>3, <1>5, <3>4 DEF Applied
      <4>2. p \subseteq Seq(Kept) \ {<<>>}
        BY <3>1, ConstantsKept
      <4>3. DnShape(s)
        BY <3>1, <3>4 DEF SourceShapeSupports
      <4> HIDE DEF p
      <4>4. DnShape(out)
        BY <1>1, <4>1, <4>2, <4>3, DnPasses
      <4>5. OutputShapeValid(r, d, s, out) <=> DnShape(out)
        BY <1>5, <3>4 DEF OutputShapeValid
      <4> QED BY <1>2, <3>4, <4>4, <4>5
    <3>5. CASE d.operation = "ParseSpn"
      <4>1. out = IF Spn(s) # s THEN Spn(s) ELSE <<"opaque">>
        BY <1>3, <1>5, <3>5 DEF Applied
      <4>2. ~Has(s, "hosts")
        BY <1>1, <3>1, <3>5, InputAssumption
      <4>3. SpnShape(out) <=> SpnParses(s)
        BY <1>1, <4>1, <4>2, SpnPasses
      <4>4. OutputShapeValid(r, d, s, out) <=> SpnShape(out)
        BY <1>5, <3>5 DEF OutputShapeValid
      <4> QED BY <1>2, <3>5, <4>3, <4>4
    <3>6. CASE d.operation = "ParseComposite"
      <4>1. out = AdLocalGroupName(s, Has(s, "@") /\ Preserves(r, RSplitOnce(s, "@")[1]))
        BY <1>3, <1>5, <3>6 DEF Applied
      <4>2. Has(s, "@") => AllFilled(RSplitOnce(s, "@"))
        BY <3>1, <3>6 DEF SourceShapeSupports
      <4>3. Has(s, "@") => Has(out, "@") /\ AllFilled(RSplitOnce(out, "@"))
        BY <1>1, <4>1, <4>2, GroupPasses
      <4>4. OutputShapeValid(r, d, s, out) <=>
               (Has(s, "@") => Has(out, "@") /\ AllFilled(RSplitOnce(out, "@")))
        BY <1>5, <3>6 DEF OutputShapeValid
      <4> QED BY <1>2, <3>6, <4>3, <4>4
    <3> QED BY <2>5, <3>3, <3>4, <3>5, <3>6
  <2>6. d.operation \in Operations
    BY <1>1, RuleIs DEF Resolved, Decide, Opaque, Operations
  <2> QED BY <2>1, <2>2, <2>3, <2>4, <2>5, <2>6 DEF Operations
<1> QED BY <1>4, <1>5

\* A run is stopped by the values that stop it, and by no other: what the
\* policy hands to a transform comes out in the shape the leak gate asks for.
THEOREM LeafPassesHolds == GateSpec => []LeafPasses
<1>1. GateIInv => LeafPasses
  <2> SUFFICES ASSUME GateIInv PROVE LeafPasses
    OBVIOUS
  <2>1. leaf \in Leaves /\ leaf.kind \in {"string", "number"}
    BY LeafIs DEF GateIInv
  <2>2. CASE leaf.kind = "number"
    <3>1. Stops(leaf) <=> Redacted(leaf) /\ ~Parses(leaf.x)
      BY <2>2 DEF Stops
    <3> QED BY <2>2, <3>1 DEF GateIInv, LeafPasses
  <2>3. CASE leaf.kind = "string"
    <3>1. stage \in {"published", "aborted"} =>
             /\ decision = Resolve(leaf.rule, leaf.s)
             /\ output = Written(leaf.rule, leaf.s)
      BY <2>3 DEF GateIInv, Written
    <3>2. OutputShapeValid(leaf.rule, Resolve(leaf.rule, leaf.s), leaf.s, Written(leaf.rule, leaf.s))
             <=> ~Stops(leaf)
      BY <2>1, <2>3, StringPasses
    <3> QED BY <2>3, <3>1, <3>2 DEF GateIInv, LeafPasses
  <2> QED BY <2>1, <2>2, <2>3
<1> QED BY <1>1, GateInvariant, PTL
----------------------------------------------------------------------------
(* The edges *)

\* A constant of the catalog has no separator in it: of the SIDs and GUIDs it
\* keeps none but the well-known.
LEMMA ConstantIdentifier ==
  ASSUME NEW r \in Rules, NEW s \in r.permits, IsSid(s) \/ IsGuid(s)
  PROVE  s \in {<<"sid">>, <<"gpo">>}
<1>1. /\ s \in Seq(Symbols) /\ s # <<>>
      /\ \A i \in DOMAIN s : s[i] \notin {"-", "dsid", "rsid", "guid", "sids", "guids"}
  BY RuleIs, ConstantsAssumption DEF Separators, Sensitive, Categories
<1>2. CASE IsGuid(s)
  <2>1. <<"guid">>[1] = "guid" /\ <<"guids">>[1] = "guids" /\ 1 \in DOMAIN s
    BY <1>1
  <2> QED BY <1>1, <1>2, <2>1 DEF IsGuid
<1>3. CASE IsSid(s)
  <2>1. ASSUME Len(s) > 1 PROVE FALSE
    <3>1. s[Len(s) - 1] = "-"
      BY <1>3, <2>1 DEF IsSid
    <3>2. Len(s) - 1 \in DOMAIN s
      BY <1>1, <2>1
    <3> QED BY <1>1, <3>1, <3>2
  <2>2. Len(s) = 1
    BY <1>1, <2>1, SMTT(30)
  <2>3. s[1] = "sid"
    <3>1. s[Len(s)] \in {"sid", "dsid", "rsid", "sids"} /\ 1 \in DOMAIN s
      BY <1>3, <2>2 DEF IsSid
    <3> QED BY <1>1, <2>2, <3>1
  <2> QED BY <1>1, <2>2, <2>3
<1> QED BY <1>2, <1>3

\* What is written of an identifier where one is expected: of one the catalog
\* keeps itself, of any other what the two agree on who define it and refer to it.
LEMMA IdentifierWritten ==
  ASSUME NEW r \in Rules, Identifies(r), NEW s, IsSid(s) \/ IsGuid(s)
  PROVE  Written(r, s)
           = CASE s \in r.permits -> s
               [] s \notin r.permits /\ IsGuid(s) -> <<"guids">>
               [] s \notin r.permits /\ ~IsGuid(s) /\ Shapeless(r, s) -> <<"opaque">>
               [] s \notin r.permits /\ ~IsGuid(s) /\ ~Shapeless(r, s) ->
                     Sid(s, PermitsDomainRid(r, s))
<1> DEFINE b == PermitsDomainRid(r, s)
           declared == IF b THEN "sids_preserve_rid" ELSE r.namespace
           d == Resolve(r, s)
<1>1. /\ r # NoRule /\ r.path # "secret" /\ s # <<>>
      /\ r.operation \in {"MapCustomIdentifier", "MapReference"}
  BY RuleIs, TablesAssumption DEF IsSid, IsGuid, Identifies
<1>2. IsGuid(s) => ~b /\ ~IsSid(s) /\ ~IsBareSid(s)
  BY KindsApart DEF PermitsDomainRid, SidIdentity, IsGuid, IsBareSid
<1>3. b \in BOOLEAN
  BY RuleIs DEF PermitsDomainRid
<1>4. Written(r, s) = Applied(r, d, s)
  BY DEF Written
<1>5. ~IsOid(s)
  BY KindsApart
<1>6. Shapeless(r, s)
        <=> IsSid(s) /\ ~IsBareSid(s) /\ declared \in {"sids", "sids_preserve_rid"}
  BY <1>1, <1>3, TablesAssumption DEF Shapeless, Identifies
<1>7. CASE s \in r.permits
  <2>1. d = Decide("PreserveConstant", "none")
    BY <1>1, <1>7 DEF Resolve, CatalogPermits
  <2> HIDE DEF d
  <2>2. Applied(r, d, s) = s
    BY <1>1, <2>1 DEF Applied, Decide
  <2> QED BY <1>4, <1>7, <2>2
<1>8. CASE s \notin r.permits
  <2>1. d = Shaped(r, s)
    BY <1>1, <1>8 DEF Resolve, CatalogPermits
  <2>2. Shaped(r, s)
          = LET routed == Routed(r.operation, declared, s)
            IN  CASE routed # "none" -> Decide(r.operation, routed)
                  [] routed = "none" /\ SourceShapeSupports(r.operation, declared, s) ->
                        Decide(r.operation, declared)
                  [] OTHER -> Opaque
    BY DEF Shaped
  <2>3. SourceShapeSupports(r.operation, declared, s)
          <=> (declared \in {"sids", "sids_preserve_rid"} => IsBareSid(s))
    BY <1>1 DEF SourceShapeSupports
  <2>4. r.operation = "MapReference" =>
           declared \in {"sids", "sids_preserve_rid", "identifiers"}
    BY <1>1 DEF Identifies
  <2>5. Routed(r.operation, declared, s)
          = IF /\ IsGuid(s) /\ r.operation = "MapReference"
               /\ declared \in {"sids", "sids_preserve_rid"}
            THEN "guids" ELSE "none"
    <3> HIDE DEF declared, b
    <3>1. CASE IsGuid(s)
      BY <1>2, <1>5, <2>4, <3>1 DEF Routed
    <3>2. CASE ~IsGuid(s) /\ IsBareSid(s)
      BY <1>5, <2>4, <3>2 DEF Routed
    <3>3. CASE ~IsGuid(s) /\ ~IsBareSid(s)
      BY <1>5, <3>3 DEF Routed
    <3> QED BY <3>1, <3>2, <3>3
  <2> HIDE DEF d
  <2>6. CASE IsGuid(s)
    <3>1. CASE r.operation = "MapReference"
      <4>1. d \in {Decide("MapReference", "guids"), Decide("MapReference", "identifiers")}
        <5> HIDE DEF declared, b
        <5> QED BY <1>2, <2>1, <2>2, <2>3, <2>4, <2>5, <2>6, <3>1
      <4>2. d.operation = "MapReference" /\ d.namespace \in {"guids", "identifiers"}
        BY <4>1 DEF Decide
      <4>3. Applied(r, d, s) = MapReference(d.namespace, s)
        BY <1>1, <4>2 DEF Applied
      <4>4. MapReference("guids", s) = <<"guids">> /\ MapReference("identifiers", s) = <<"guids">>
        BY <1>2, <1>5, <2>6 DEF MapReference, MapCustomIdentifier, Guid
      <4> QED BY <1>4, <1>8, <2>6, <4>2, <4>3, <4>4
    <3>2. CASE r.operation = "MapCustomIdentifier"
      <4>1. declared \notin {"sids", "sids_preserve_rid"}
        BY <1>2, <2>6, <3>2, TablesAssumption
      <4> HIDE DEF declared, b
      <4>2. d.operation = "MapCustomIdentifier" /\ d.namespace = declared
        BY <2>1, <2>2, <2>3, <2>5, <3>2, <4>1 DEF Decide
      <4>3. Applied(r, d, s) = MapCustomIdentifier(declared, s)
        BY <1>1, <4>2 DEF Applied
      <4>4. MapCustomIdentifier(declared, s) = <<"guids">>
        BY <1>2, <1>5, <2>6 DEF MapCustomIdentifier, Guid, IsBareSid
      <4> QED BY <1>4, <1>8, <2>6, <4>3, <4>4
    <3> QED BY <1>1, <3>1, <3>2
  <2>7. CASE ~IsGuid(s)
    <3>1. Routed(r.operation, declared, s) = "none" /\ IsSid(s)
      BY <2>5, <2>7
    <3>2. d = IF Shapeless(r, s) THEN Opaque ELSE Decide(r.operation, declared)
      <4>1. SourceShapeSupports(r.operation, declared, s) <=> ~Shapeless(r, s)
        BY <1>6, <2>3, <3>1
      <4> HIDE DEF declared
      <4> QED BY <2>1, <2>2, <3>1, <4>1
    <3>3. (declared = "sids_preserve_rid") = b
      BY <1>1, <1>3, TablesAssumption DEF Identifies
    <3> HIDE DEF declared
    <3>4. CASE Shapeless(r, s)
      <4>1. Applied(r, d, s) = <<"opaque">>
        BY <1>1, <3>2, <3>4 DEF Applied, Opaque, Decide
      <4> QED BY <1>4, <1>8, <2>7, <3>4, <4>1
    <3>5. CASE ~Shapeless(r, s)
      <4>1. d.operation = r.operation /\ d.namespace = declared
        BY <3>2, <3>5 DEF Decide
      <4>2. Applied(r, d, s) = IF r.operation = "MapReference" THEN MapReference(declared, s)
                               ELSE MapCustomIdentifier(declared, s)
        BY <1>1, <4>1 DEF Applied
      <4>3. MapCustomIdentifier(declared, s) = Sid(s, declared = "sids_preserve_rid")
        BY <3>1, KindsApart DEF MapCustomIdentifier
      <4>4. r.operation = "MapReference" =>
               MapReference(declared, s) = Sid(s, declared = "sids_preserve_rid")
        BY <2>4, <4>3 DEF MapReference
      <4> QED BY <1>1, <1>4, <1>8, <2>7, <3>3, <3>5, <4>2, <4>3, <4>4
    <3> QED BY <3>4, <3>5
  <2> QED BY <2>6, <2>7
<1> QED BY <1>7, <1>8

\* What two paths that agree on an identifier write is the same, and what two
\* that do not is not.
LEMMA WrittenAlike ==
  ASSUME NEW r \in Rules, NEW q \in Rules, Identifies(r), Identifies(q),
         NEW s \in Seq(Symbols), IsSid(s) \/ IsGuid(s)
  PROVE  Written(r, s) = Written(q, s)
           <=> /\ s \in r.permits <=> s \in q.permits
               /\ Shapeless(r, s) <=> Shapeless(q, s)
<1> DEFINE W(k) == Written(k, s)
           b(k) == PermitsDomainRid(k, s)
<1>1. ASSUME NEW k \in Rules, Identifies(k)
      PROVE  W(k) = CASE s \in k.permits -> s
                      [] s \notin k.permits /\ IsGuid(s) -> <<"guids">>
                      [] s \notin k.permits /\ ~IsGuid(s) /\ Shapeless(k, s) -> <<"opaque">>
                      [] s \notin k.permits /\ ~IsGuid(s) /\ ~Shapeless(k, s) -> Sid(s, b(k))
  BY <1>1, IdentifierWritten
<1>2. ASSUME NEW k \in Rules
      PROVE  /\ Shapeless(k, s) => IsSid(s) /\ ~IsBareSid(s) /\ ~IsGuid(s)
             /\ s \in k.permits => s \in {<<"sid">>, <<"gpo">>}
             /\ b(k) \in BOOLEAN /\ (b(k) => SidIdentity(s) # <<"sid">>)
  <2>1. s \in k.permits => s \in {<<"sid">>, <<"gpo">>}
    BY <1>2, ConstantIdentifier
  <2>2. <<"rsid">> # <<"sid">>
    OBVIOUS
  <2> QED BY <1>2, <2>1, <2>2, KindsApart, RuleIs DEF Shapeless, PermitsDomainRid
<1>3. IsSid(s) => Sid(s, b(r)) = Sid(s, b(q))
  <2>1. (b(r) /\ SidIdentity(s) = <<"sid">>) = (b(q) /\ SidIdentity(s) = <<"sid">>)
    BY <1>2
  <2> HIDE DEF b
  <2> QED BY <2>1 DEF Sid
<1>4. ASSUME NEW k \in Rules, IsSid(s) PROVE IsSid(Sid(s, b(k)))
  <2>1. b(k) \in BOOLEAN
    BY <1>2, <1>4
  <2> HIDE DEF b
  <2> QED BY <1>4, <2>1, SidStays
<1>5. ~IsSid(<<"opaque">>) /\ <<"guids">> \notin {<<"sid">>, <<"gpo">>}
  BY DEF IsSid
<1>6. ASSUME NEW k \in Rules, s = <<"sid">> PROVE Sid(s, b(k)) = <<"sids">>
  <2>1. ~b(k) /\ Len(s) = 1
    <3>1. SidIdentity(<<"sid">>) = <<"sid">>
      BY DEF SidIdentity
    <3> QED BY <1>2, <1>6, <3>1
  <2> HIDE DEF b
  <2> QED BY <2>1 DEF Sid
<1>7. /\ s = <<"sid">> => IsBareSid(s) /\ ~IsGuid(s)
      /\ <<"sids">> # <<"sid">>
      /\ s = <<"gpo">> => ~IsSid(s)
  BY DEF IsSid, IsBareSid, IsGuid
<1> HIDE DEF W, b
<1>8. CASE s \in r.permits /\ s \in q.permits
  BY <1>1, <1>2, <1>7, <1>8 DEF W
<1>9. ASSUME NEW j \in Rules, NEW k \in Rules, Identifies(j), Identifies(k),
             s \in j.permits, s \notin k.permits
      PROVE  W(j) # W(k)
  <2>1. W(j) = s /\ s \in {<<"sid">>, <<"gpo">>}
    BY <1>1, <1>2, <1>9
  <2>2. CASE s = <<"gpo">>
    <3>1. IsGuid(s)
      BY <2>2 DEF IsGuid
    <3>2. W(k) = <<"guids">>
      BY <1>1, <1>9, <3>1
    <3> QED BY <1>5, <2>1, <3>2
  <2>3. CASE s = <<"sid">>
    <3>1. ~Shapeless(k, s) /\ ~IsGuid(s)
      BY <1>2, <1>7, <1>9, <2>3
    <3>2. W(k) = Sid(s, b(k))
      BY <1>1, <1>9, <3>1
    <3> QED BY <1>6, <1>7, <1>9, <2>1, <2>3, <3>2
  <2> QED BY <2>1, <2>2, <2>3
<1>10. CASE s \in r.permits /\ s \notin q.permits
  BY <1>9, <1>10 DEF W
<1>11. CASE s \notin r.permits /\ s \in q.permits
  BY <1>9, <1>11 DEF W
<1>12. CASE s \notin r.permits /\ s \notin q.permits
  <2>1. CASE IsGuid(s)
    BY <1>1, <1>2, <1>12, <2>1 DEF W
  <2>2. CASE ~IsGuid(s)
    <3>1. IsSid(s)
      BY <2>2
    <3>2. ASSUME NEW k \in Rules PROVE Sid(s, b(k)) # <<"opaque">>
      BY <1>4, <1>5, <3>1, <3>2
    <3>3. W(r) = IF Shapeless(r, s) THEN <<"opaque">> ELSE Sid(s, b(r))
      BY <1>1, <1>12, <2>2
    <3>4. W(q) = IF Shapeless(q, s) THEN <<"opaque">> ELSE Sid(s, b(q))
      BY <1>1, <1>12, <2>2
    <3>5. W(r) = W(q) <=> (Shapeless(r, s) <=> Shapeless(q, s))
      BY <1>3, <3>1, <3>2, <3>3, <3>4
    <3> QED BY <1>12, <3>5 DEF W
  <2> QED BY <2>1, <2>2
<1> QED BY <1>8, <1>10, <1>11, <1>12

\* The edges survive, at whatever paths the catalog keeps what: a reference is
\* written as the definition it refers to exactly where the two paths agree on
\* the identifier (map_reference against map_custom_identifier, catalog_permits,
\* routed_identifier_namespace, source_shape_supports).
THEOREM EdgesSurviveHolds == GateSpec => []EdgesSurvive
<1>1. GateIInv => EdgesSurvive
  <2> DEFINE r == leaf.rule
             s == leaf.s
  <2> SUFFICES ASSUME GateIInv, stage = "published", leaf.kind = "string", Identifies(r),
                      IsSid(s) \/ IsGuid(s),
                      NEW q \in Rules, q.operation = "MapCustomIdentifier", q.namespace = "none"
               PROVE  output = Written(q, s)
                        <=> /\ s \in r.permits <=> s \in q.permits
                            /\ Shapeless(r, s) <=> Shapeless(q, s)
    BY DEF EdgesSurvive
  <2>1. r # NoRule /\ Identifies(q)
    BY DEF NoRule, Identifies
  <2>2. r \in Rules /\ s \in Seq(Symbols) /\ output = Written(r, s)
    BY <2>1, LeafIs DEF GateIInv, Written
  <2> HIDE DEF r, s
  <2> QED BY <2>1, <2>2, WrittenAlike
<1> QED BY <1>1, GateInvariant, PTL
=============================================================================
