----------------------------- MODULE SidProofs -----------------------------
(* Theorems about the SIDs of a run, for every collection, every map it     *)
(* reuses and every order its documents and their leaves are met in.        *)
EXTENDS SidBinding, RegistryProofs

\* The first n arcs of a SID.
Upper(s, n) == SubSeq(s, 1, n)
----------------------------------------------------------------------------
(* Sequences of arcs *)

LEMMA Upwards ==
    ASSUME NEW s \in Source, NEW n \in 1..Len(s)
    PROVE  /\ Upper(s, n) \in Source /\ Upper(s, n) \in Seq(Nat)
           /\ Len(Upper(s, n)) = n
           /\ \A k \in 1..n : Upper(s, n)[k] = s[k]
           /\ \A k \in 1..n : Upper(Upper(s, n), k) = Upper(s, k)
           /\ Upper(s, Len(s)) = s
<1>1. s \in Seq(Nat) /\ Len(s) \in Nat
  BY SequencesAssumption
<1>2. Upper(s, n) \in Source
  BY SequencesAssumption DEF Upper
<1>3. Upper(s, n) \in Seq(Nat) /\ Len(Upper(s, n)) = n /\ \A k \in 1..n : Upper(s, n)[k] = s[k]
  BY <1>1 DEF Upper
<1>4. ASSUME NEW k \in 1..n PROVE Upper(Upper(s, n), k) = Upper(s, k)
  BY <1>1 DEF Upper
<1>5. Upper(s, Len(s)) = s
  BY <1>1 DEF Upper
<1> QED BY <1>2, <1>3, <1>4, <1>5

LEMMA Appending ==
    ASSUME NEW p \in Seq(Nat), NEW x \in Nat
    PROVE  /\ Append(p, x) \in Seq(Nat) /\ Len(Append(p, x)) = Len(p) + 1
           /\ Append(p, x)[Len(p) + 1] = x
           /\ \A k \in 1..Len(p) : Append(p, x)[k] = p[k]
           /\ SubSeq(Append(p, x), 1, Len(p)) = p
OBVIOUS

\* A pseudonym of more than a domain is its own arcs.
LEMMA ArcsOf ==
    ASSUME NEW v \in Source \cup Pseudonym
    PROVE  /\ v \in Seq(Nat) /\ Len(v) \in Nat \ {0}
           /\ Len(v) = 1 => Arcs[v] = <<>>
           /\ Len(v) > 1 => Arcs[v] = v /\ Terminal(v) = v[Len(v)]
                            /\ Parent(v) = SubSeq(v, 1, Len(v) - 1)
<1>1. v \in Seq(Nat) /\ Len(v) > 0
  BY SequencesAssumption
<1>2. Len(v) \in Nat \ {0}
  BY <1>1
<1>3. Len(v) # 1 => Arcs[v] = v
  BY SequencesAssumption, Zenon
<1>4. Len(v) = 1 => Arcs[v] = <<>>
  BY SequencesAssumption, Zenon
<1>5. Len(v) > 1 => /\ Arcs[v] = v /\ Terminal(v) = v[Len(v)]
                    /\ Parent(v) = SubSeq(v, 1, Len(v) - 1)
  <2> SUFFICES ASSUME Len(v) > 1 PROVE Arcs[v] = v
    BY DEF Terminal, Parent
  <2>1. \A n \in Nat : n > 1 => n # 1
    OBVIOUS
  <2>2. Len(v) # 1
    BY <1>2, <2>1
  <2> QED BY <1>3, <2>2
<1> QED BY <1>1, <1>2, <1>4, <1>5
----------------------------------------------------------------------------
(* What a registry call does to the table of a run *)

\* One spelling of every SID: an identity is owned by its SID or by nobody.
LEMMA OneSpelling ==
    ASSUME IInv, NEW s \in Source
    PROVE  /\ Owner(s) = None <=> s \notin Known(categories)
           /\ Owner(s) # None => Owner(s) = s
<1>1. Owner(s) # None => Owner(s) \in Known(categories) /\ Owner(s) = s
  BY OwnerFacts, SpellingAssumption DEF Known
<1>2. Owner(s) = None => s \notin Known(categories)
  BY OwnerFacts
<1> QED BY <1>1, <1>2

\* A call about s that proposed p went well: s is known, as it was before or,
\* while the registry is open and the mapping file does not name it, as p.
Hits(s, p) ==
    /\ \A t \in Source \ {s} : categories'[t] = categories[t]
    /\ normalizedSources'[Norm[s]] = s
    /\ categories'[s] # None
    /\ \/ categories'[s] = categories[s]
       \/ ~frozen /\ ~Loaded(s) /\ categories'[s] = p
    /\ UNCHANGED <<loaded, frozen>>

LEMMA LoadedIsKnown ==
    ASSUME IInv, NEW s \in Source, Loaded(s)
    PROVE  Owner(s) # None
<1>1. Spellings(categories, Norm[s]) # {}
  BY DEF IInv, PreloadedKnown, Loaded
<1>2. PICK t \in Known(categories) : Norm[t] = Norm[s]
  BY <1>1 DEF Spellings
<1> QED BY <1>2, OwnerFacts

LEMMA EnterHits ==
    ASSUME IInv, NEW s \in Source, NEW p \in Pseudonym,
           Owner(s) = None, ~frozen, Enter(s, p), Answer
    PROVE  Hits(s, p)
<1>1. ~Loaded(s)
  BY LoadedIsKnown
<1>2. /\ categories'[s] = p /\ p # None
      /\ \A t \in Source \ {s} : categories'[t] = categories[t]
      /\ normalizedSources'[Norm[s]] = s
  BY NormAssumption, NoneAssumption DEF Enter, IInv, TypeOK
<1> QED BY <1>1, <1>2 DEF Hits, Answer

LEMMA MapHits ==
    ASSUME IInv, NEW s \in Source, Map(s), outcome' = "ok"
    PROVE  Hits(s, Candidate[s])
<1>1. CASE MapKnown(s)
  <2>1. Owner(s) = s /\ s \in Known(categories)
    BY <1>1, OneSpelling DEF MapKnown
  <2>2. ~TakesOver(s)
    BY <2>1, RankAssumption DEF TakesOver
  <2>3. UNCHANGED <<categories, indexes>> /\ Answer
    BY <1>1, <2>2 DEF MapKnown
  <2> QED BY <2>1, <2>3 DEF Hits, Answer, Owner, Known, indexes
<1>2. CASE MapNew(s)
  BY <1>2, EnterHits, CandidateAssumption DEF MapNew
<1>3. CASE MapRefused(s)
  BY <1>3 DEF MapRefused, Refuse
<1> QED BY <1>1, <1>2, <1>3 DEF Map

\* Besides, the last arc of the pseudonym is then what was asked for.
LEMMA BindHits ==
    ASSUME IInv, NEW s \in Source, NEW p \in Pseudonym, NEW preserve \in BOOLEAN,
           Bind(s, p, preserve), outcome' = "ok"
    PROVE  /\ Hits(s, p)
           /\ IntentHolds(s, p, preserve)
           /\ categories'[s] = p \/ Consistent(s, categories'[s], p, preserve)
<1>1. CASE BindSettled(s, p, preserve)
  <2>1. Owner(s) = s /\ s \in Known(categories)
    BY <1>1, OneSpelling DEF BindSettled
  <2>2. UNCHANGED <<categories, indexes>> /\ Answer
    BY <1>1 DEF BindSettled
  <2>3. categories[s] \in Pseudonym
    BY <2>1 DEF Known, IInv, TypeOK
  <2>4. categories[s] = p \/ Consistent(s, categories[s], p, preserve)
    BY <1>1, <2>1, <2>3, SpellingAssumption DEF BindSettled, Settled
  <2>5. Hits(s, p)
    BY <2>1, <2>2 DEF Hits, Answer, Owner, Known, indexes
  <2> QED BY <1>1, <2>2, <2>4, <2>5 DEF BindSettled
<1>2. CASE Rebind(s, p, preserve)
  <2>1. Owner(s) = s /\ s \in Known(categories)
    BY <1>2, OneSpelling DEF Rebind
  <2>2. Move(s, categories[s], p) /\ ~frozen /\ ~Loaded(s) /\ Answer
        /\ UNCHANGED normalizedSources /\ IntentHolds(s, p, preserve)
    BY <1>2, <2>1 DEF Rebind, Correctable, Loaded
  <2>3. categories'[s] = p /\ p # None /\ \A t \in Source \ {s} : categories'[t] = categories[t]
    BY <2>2, NoneAssumption DEF Move, IInv, TypeOK
  <2> QED BY <2>1, <2>2, <2>3 DEF Hits, Answer, Owner
<1>3. CASE BindNew(s, p, preserve)
  <2>1. Hits(s, p)
    BY <1>3, EnterHits DEF BindNew
  <2>2. categories'[s] = p
    BY <1>3 DEF BindNew, Enter, IInv, TypeOK
  <2> QED BY <1>3, <2>1, <2>2 DEF BindNew
<1>4. CASE BindRefused(s, p, preserve)
  BY <1>4 DEF BindRefused, Refuse
<1> QED BY <1>1, <1>2, <1>3, <1>4 DEF Bind

\* A call that went wrong changed nothing.
LEMMA Misses ==
    ASSUME NEW s \in Source, outcome' # "ok",
           Map(s) \/ \E p \in Pseudonym, preserve \in BOOLEAN : Bind(s, p, preserve)
    PROVE  UNCHANGED <<store, loaded, asked>>
BY DEF Map, MapKnown, MapNew, MapRefused, Bind, BindSettled, Rebind, BindNew, BindRefused,
   Answer, Refuse
----------------------------------------------------------------------------
(* The invariant *)

\* What a table holds for a SID is as long, and below its domain ends in its
\* own last arc or in the other one.
ShapeOK ==
    \A s \in Known(categories) :
        /\ Len(categories[s]) = Len(s)
        /\ Len(s) = 1 => categories[s] = Candidate[s]
        /\ Len(s) > 1 => categories[s][Len(s)] \in {Subauthority[s], s[Len(s)]}

\* A SID keeps its last arc for the evidence, or because the mapping file did.
KeptOK ==
    \A s \in Known(categories) : Len(s) > 1 /\ ~Loaded(s) /\ Kept(s) => s \in targets

\* The first n arcs of an occurrence are mapped to what they should be, no SID
\* above it keeps its last arc, and its own does if the occurrence preserves it.
UpTo(s, n) == [k \in 1..n |-> ExpectedArc(s, k)]

Through(l, n) ==
    \A k \in 1..n :
        /\ Upper(l.sid, k) \in Known(categories)
        /\ k > 1 => (Kept(Upper(l.sid, k)) <=> k = Len(l.sid) /\ Preserves(l, targets))

\* A transform_sid under way: evidence stands behind what it preserves, and in
\* the transform pass what it has mapped so far is as it should be.
JobOK ==
    job # Idle =>
        /\ job \in [sid : Source, preserve : BOOLEAN, for : Leaf \cup {None},
                    depth : Nat, mapped : Pseudonym \cup {<<>>}]
        /\ job.depth < Len(job.sid) /\ Len(job.mapped) = job.depth
        /\ job.preserve => job.sid \in targets
        /\ phase \in {"discover", "settle", "transform"}
        /\ phase = "settle" => job.sid \in targets /\ job.preserve
        /\ phase = "transform" =>
              /\ job.for \in Occurrence \ unvisited /\ job.sid = job.for.sid
              /\ job.preserve = Preserves(job.for, targets)
              /\ Through(job.for, job.depth)
              /\ job.mapped = UpTo(job.sid, job.depth)

\* The evidence there is in what discovery went past.
Found ==
    {s \in Source :
        \/ \E d \in collection \ undiscovered : s \in Defines[d]
        \/ \E l \in Occurrence : /\ l.doc \notin undiscovered /\ l \notin unvisited
                                 /\ l.declared /\ l.sid = s}

TargetsOK ==
    /\ phase = "discover" =>
          targets = Found /\ \A l \in unvisited : l.doc \notin undiscovered
    /\ phase \in {"settle", "transform", "done"} => targets = Qualified

Keeps(s) == s \in Known(categories) /\ Kept(s)

\* Whatever was settled keeps its last arc, all of it once discovery is closed.
SettledOK ==
    /\ phase \in {"discover", "settle"} => ~frozen
    /\ phase \in {"transform", "done"} => frozen
    /\ phase = "settle" =>
          \A t \in targets \ unsettled : Keeps(t) \/ (job # Idle /\ job.sid = t)
    /\ frozen => \A t \in targets : Keeps(t)

\* What was transformed is as it should be.
WrittenOK ==
    /\ phase = "done" => job = Idle /\ unvisited = {}
    /\ phase \in {"transform", "done"} =>
          \A l \in Occurrence \ unvisited :
              \/ job # Idle /\ job.for = l
              \/ output[l] = Expected(l.sid) /\ Through(l, Len(l.sid))

\* The inductive invariant.
SidIInv ==
    /\ IInv /\ SidTypeOK
    /\ ShapeOK /\ KeptOK
    /\ JobOK
    /\ TargetsOK /\ SettledOK
    /\ WrittenOK
----------------------------------------------------------------------------
(* The run begins *)

LEMMA Shortest ==
    ASSUME NEW S \in SUBSET Source, S # {}
    PROVE  \E s \in S : \A t \in S : Len(s) <= Len(t)
<1> DEFINE R == {p \in Nat \X Nat : p[1] < p[2]}
           T == {Len(s) : s \in S}
<1>1. \A s \in S : Len(s) \in Nat
  BY ArcsOf
<1>2. T \subseteq Nat /\ T # {}
  BY <1>1
<1>3. \E x \in T : \A y \in T : ~(<<y, x>> \in R)
  <2> HIDE DEF R, T
  <2>1. IsWellFoundedOn(R, Nat)
    BY NatLessThanWellFounded DEF R, OpToRel
  <2> QED BY <1>2, <2>1, WFMin
<1>4. PICK s \in S : \A t \in S : ~(<<Len(t), Len(s)>> \in R)
  BY <1>3
<1>5. ASSUME NEW m \in Nat, NEW n \in Nat, ~(<<m, n>> \in R) PROVE n <= m
  BY <1>5
<1> HIDE DEF R
<1>6. \A t \in S : Len(s) <= Len(t)
  BY <1>1, <1>4, <1>5
<1> QED BY <1>4, <1>6

\* Every arc of a map an earlier run wrote has one below it.
LEMMA EarlierShape ==
    ASSUME TypeOK, EarlierMap(categories)
    PROVE  ShapeOK
<1> DEFINE Bad == {s \in Known(categories) : Len(categories[s]) # Len(s)}
<1>1. \A s \in Known(categories) : s \in Source /\ categories[s] \in Pseudonym
  BY DEF Known, TypeOK
<1>2. ASSUME NEW s \in Known(categories), Len(s) > 1
      PROVE  /\ Above(s) \in Known(categories) /\ Len(Above(s)) = Len(s) - 1
             /\ \E x \in {Subauthority[s], s[Len(s)]} :
                   categories[s] = Append(categories[Above(s)], x)
             /\ Subauthority[s] \in Nat /\ s[Len(s)] \in Nat
  <2>1. s \in Seq(Nat) /\ Len(s) \in Nat /\ Len(s) # 1
    BY <1>1, <1>2, ArcsOf
  <2>2. Len(Above(s)) = Len(s) - 1 /\ s[Len(s)] \in Nat
    BY <1>2, <2>1 DEF Above
  <2>3. Subauthority[s] \in Nat
    BY <1>1, SubauthorityAssumption
  <2>4. /\ Above(s) \in Known(categories)
        /\ \/ categories[s] = Append(categories[Above(s)], Subauthority[s])
           \/ categories[s] = Append(categories[Above(s)], s[Len(s)])
    BY <2>1 DEF EarlierMap
  <2> QED BY <2>2, <2>3, <2>4
<1>3. Bad = {}
  <2> SUFFICES ASSUME Bad # {} PROVE FALSE
    OBVIOUS
  <2>1. PICK s \in Bad : \A t \in Bad : Len(s) <= Len(t)
    <3>1. Bad \in SUBSET Source
      BY <1>1
    <3> HIDE DEF Bad
    <3> QED BY <3>1, Shortest
  <2>2. Len(s) \in Nat \ {0} /\ s \in Known(categories) /\ Len(categories[s]) # Len(s)
    BY <1>1, <2>1, ArcsOf
  <2>3. CASE Len(s) = 1
    <3>1. categories[s] = Candidate[s]
      BY <2>2, <2>3 DEF EarlierMap
    <3> QED BY <1>1, <2>2, <2>3, <3>1, PseudonymAssumption
  <2>4. CASE Len(s) > 1
    <3>1. Above(s) \in Known(categories) /\ Len(Above(s)) = Len(s) - 1
      BY <1>2, <2>2, <2>4
    <3>2. Above(s) \notin Bad
      BY <2>1, <2>2, <3>1
    <3>3. categories[Above(s)] \in Seq(Nat) /\ Len(categories[Above(s)]) = Len(s) - 1
      BY <1>1, <3>1, <3>2, ArcsOf
    <3>4. PICK x \in Nat : categories[s] = Append(categories[Above(s)], x)
      BY <1>2, <2>2, <2>4
    <3>5. Len(categories[s]) = Len(categories[Above(s)]) + 1
      BY <3>3, <3>4, Appending
    <3>6. ASSUME NEW m \in Nat, NEW n \in Nat, n = m - 1 PROVE n + 1 = m
      BY <3>6
    <3>7. Len(categories[Above(s)]) \in Nat
      BY <3>3, ArcsOf
    <3>8. Len(categories[Above(s)]) + 1 = Len(s)
      BY <2>2, <3>3, <3>6, <3>7
    <3> QED BY <2>2, <3>5, <3>8
  <2>5. \A n \in Nat \ {0} : n = 1 \/ n > 1
    OBVIOUS
  <2> QED BY <2>2, <2>3, <2>4, <2>5
<1>4. ASSUME NEW s \in Known(categories), Len(s) > 1
      PROVE  categories[s][Len(s)] \in {Subauthority[s], s[Len(s)]}
  <2>1. Len(s) \in Nat
    BY <1>1, ArcsOf
  <2>2. Above(s) \in Known(categories) /\ Len(categories[Above(s)]) = Len(s) - 1
    BY <1>2, <1>3, <1>4
  <2>3. categories[Above(s)] \in Seq(Nat)
    BY <1>1, <2>2, ArcsOf
  <2>4. PICK x \in {Subauthority[s], s[Len(s)]} : categories[s] = Append(categories[Above(s)], x)
    BY <1>2, <1>4
  <2>5. x \in Nat
    BY <1>2, <1>4, <2>4
  <2>6. categories[s][Len(categories[Above(s)]) + 1] = x
    BY <2>3, <2>4, <2>5, Appending
  <2>7. ASSUME NEW m \in Nat, NEW n \in Nat, n = m - 1 PROVE n + 1 = m
    BY <2>7
  <2>8. Len(categories[Above(s)]) + 1 = Len(s)
    BY <2>1, <2>2, <2>3, <2>7
  <2> QED BY <2>4, <2>6, <2>8
<1> QED BY <1>3, <1>4 DEF ShapeOK, EarlierMap

LEMMA InitSidIInv == ASSUME SidInit PROVE SidIInv
<1>1. IInv /\ TypeOK
  BY InitIInv DEF SidInit, IInv
<1>2. ShapeOK
  BY <1>1, EarlierShape DEF SidInit
<1>3. SidTypeOK
  BY <1>1 DEF SidTypeOK, SidInit
<1>4. KeptOK
  <2>1. \A s \in Known(categories) : Loaded(s)
    BY DEF SidInit, Init, Loaded
  <2> QED BY <2>1 DEF KeptOK
<1>5. TargetsOK
  <2>1. Found = {}
    BY DEF SidInit, Found, Occurrence
  <2> QED BY <2>1 DEF SidInit, TargetsOK
<1>6. JobOK /\ SettledOK /\ WrittenOK
  BY DEF SidInit, Init, JobOK, SettledOK, WrittenOK
<1> QED BY <1>1, <1>2, <1>3, <1>4, <1>5, <1>6 DEF SidIInv
----------------------------------------------------------------------------
(* A registry call of transform_sid *)

LEMMA AccountsAreDeep ==
    ASSUME NEW s \in Source, s \in WellKnown
    PROVE  Len(s) = 2
BY WellKnownAssumption

\* What is asked of the registry.
LEMMA CallFacts ==
    ASSUME SidIInv, job # Idle
    PROVE  /\ job.sid \in Source /\ job.depth \in Nat /\ job.depth + 1 \in 1..Len(job.sid)
           /\ Prefix = Upper(job.sid, job.depth + 1)
           /\ Prefix \in Source /\ Len(Prefix) = job.depth + 1
           /\ LastArc => Prefix = job.sid
           /\ Preserve \in BOOLEAN
           /\ Preserve => Prefix = job.sid /\ Prefix \in targets /\ Prefix \in WellKnown
<1>1. /\ job.sid \in Source /\ job.depth \in Nat /\ job.preserve \in BOOLEAN
      /\ job.depth < Len(job.sid) /\ (job.preserve => job.sid \in targets)
  BY DEF SidIInv, JobOK
<1>2. \A n, m \in Nat : n < m => n + 1 \in 1..m
  OBVIOUS
<1>3. job.depth + 1 \in 1..Len(job.sid)
  BY <1>1, <1>2, ArcsOf
<1>4. Prefix = Upper(job.sid, job.depth + 1)
  BY DEF Prefix, Upper
<1>5. Prefix \in Source /\ Len(Prefix) = job.depth + 1
  BY <1>1, <1>3, <1>4, Upwards
<1>6. LastArc => Prefix = job.sid
  BY <1>1, <1>3, <1>4, Upwards DEF LastArc
<1>7. Preserve \in BOOLEAN /\ (Preserve => LastArc /\ job.preserve)
  BY <1>1 DEF Preserve, LastArc
<1>8. targets \subseteq WellKnown
  BY DEF SidIInv, SidTypeOK
<1> QED BY <1>1, <1>3, <1>4, <1>5, <1>6, <1>7, <1>8

LEMMA BelowDomain ==
    ASSUME SidIInv, job # Idle, job.depth # 0
    PROVE  /\ job.mapped \in Pseudonym /\ job.mapped \in Seq(Nat)
           /\ Len(job.mapped) = job.depth
           /\ Requested \in Pseudonym /\ Len(Requested) = Len(Prefix)
           /\ Len(Prefix) > 1 /\ Len(Prefix) # 1
           /\ Parent(Requested) = job.mapped
           /\ Terminal(Requested) = IF Preserve THEN Terminal(Prefix) ELSE Subauthority[Prefix]
           /\ Subauthority[Prefix] # Terminal(Prefix)
<1> DEFINE last == Prefix[Len(Prefix)]
           x == IF Preserve THEN last ELSE Subauthority[Prefix]
<1>1. job.mapped \in Pseudonym \cup {<<>>} /\ Len(job.mapped) = job.depth /\ Len(<<>>) = 0
  BY DEF SidIInv, JobOK
<1>2. job.mapped \in Pseudonym /\ job.mapped \in Seq(Nat)
  BY <1>1, ArcsOf
<1>3. /\ Prefix \in Source /\ Len(Prefix) = job.depth + 1 /\ job.depth \in Nat
      /\ Preserve \in BOOLEAN /\ (Preserve => Prefix \in WellKnown)
  BY CallFacts
<1>4. /\ Subauthority[Prefix] \in Nat /\ Subauthority[Prefix] # last
      /\ Append(job.mapped, Subauthority[Prefix]) \in Pseudonym
      /\ Preserve => Append(job.mapped, last) \in Pseudonym
  BY <1>1, <1>2, <1>3, SubauthorityAssumption, PseudonymAssumption
<1>5. last \in Nat
  <2>1. Prefix \in Seq(Nat) /\ Len(Prefix) \in 1..Len(Prefix)
    BY <1>3, ArcsOf
  <2> QED BY <2>1
<1>6. x \in Nat /\ Requested = Append(job.mapped, x) /\ Requested \in Pseudonym
  BY <1>3, <1>4, <1>5 DEF Requested
<1> HIDE DEF x
<1>7. /\ Len(Requested) = job.depth + 1 /\ Requested[job.depth + 1] = x
      /\ SubSeq(Requested, 1, job.depth) = job.mapped
  BY <1>1, <1>2, <1>6, Appending
<1>8. \A n \in Nat : n # 0 => n + 1 > 1 /\ n + 1 # 1 /\ n + 1 - 1 = n
  OBVIOUS
<1>9. job.depth + 1 > 1 /\ job.depth + 1 # 1 /\ job.depth + 1 - 1 = job.depth
  BY <1>3, <1>8
<1>10. Len(Requested) > 1 /\ Len(Prefix) > 1 /\ Len(Prefix) # 1
  BY <1>3, <1>7, <1>9
<1>11. /\ Terminal(Requested) = Requested[Len(Requested)]
       /\ Parent(Requested) = SubSeq(Requested, 1, Len(Requested) - 1)
       /\ Terminal(Prefix) = last
  BY <1>3, <1>6, <1>10, ArcsOf
<1>12. Terminal(Requested) = x /\ Parent(Requested) = job.mapped
  <2>1. Len(Requested) - 1 = job.depth
    BY <1>3, <1>7
  <2>2. Parent(Requested) = job.mapped
    BY <1>7, <1>11, <2>1
  <2>3. Terminal(Requested) = x
    BY <1>7, <1>11
  <2> QED BY <2>2, <2>3
<1> QED BY <1>1, <1>2, <1>3, <1>4, <1>6, <1>7, <1>10, <1>11, <1>12 DEF x

\* Whatever it answers, it is a call of the registry.
LEMMA CallIsNext ==
    ASSUME SidIInv, job # Idle, RegistryCall
    PROVE  /\ Next /\ IInv'
           /\ Map(Prefix) \/ \E p \in Pseudonym, preserve \in BOOLEAN : Bind(Prefix, p, preserve)
<1>1. Prefix \in Source /\ Preserve \in BOOLEAN /\ IInv
  BY CallFacts DEF SidIInv
<1>2. CASE job.depth = 0
  <2>1. Map(Prefix)
    BY <1>2 DEF RegistryCall
  <2>2. Next
    BY <1>1, <2>1 DEF Next
  <2> QED BY <1>1, <2>1, <2>2, NextIInv
<1>3. CASE job.depth # 0
  <2>1. Bind(Prefix, Requested, Preserve)
    BY <1>3 DEF RegistryCall
  <2>2. Requested \in Pseudonym /\ Len(Requested) > 1 /\ Len(Prefix) > 1
    BY <1>3, BelowDomain
  <2>3. Arcs[Prefix] = Prefix /\ Arcs[Requested] = Requested
    BY <1>1, <2>2, ArcsOf
  <2>4. Prefix # <<>> /\ Requested # <<>>
    BY <2>2
  <2>5. Next
    BY <1>1, <2>1, <2>2, <2>3, <2>4 DEF Next
  <2> QED BY <1>1, <2>1, <2>2, <2>5, NextIInv
<1> QED BY <1>2, <1>3

\* A call that worked: the table holds for the prefix what was asked for, as
\* far as its parent and its last arc go, and holds for the others what it did.
LEMMA CallHits ==
    ASSUME SidIInv, job # Idle, RegistryCall, outcome' = "ok"
    PROVE  /\ \A t \in Source \ {Prefix} : categories'[t] = categories[t]
           /\ normalizedSources'[Norm[Prefix]] = Prefix
           /\ Prefix \in Known(categories')
           /\ frozen => categories' = categories
           /\ categories'[Prefix] # categories[Prefix] => ~Loaded(Prefix)
           /\ UNCHANGED <<loaded, frozen>>
           /\ categories'[Prefix] \in Pseudonym
           /\ Len(categories'[Prefix]) = Len(Prefix)
           /\ job.depth = 0 => categories'[Prefix] = Candidate[Prefix]
           /\ job.depth # 0 =>
                 /\ Parent(categories'[Prefix]) = job.mapped
                 /\ Terminal(categories'[Prefix]) = Terminal(Prefix) <=> Preserve
                 /\ Terminal(categories'[Prefix]) \in {Subauthority[Prefix], Terminal(Prefix)}
<1> DEFINE answer == categories'[Prefix]
<1>1. Prefix \in Source /\ Preserve \in BOOLEAN /\ IInv /\ ShapeOK
  BY CallFacts DEF SidIInv
<1>2. IInv' /\ categories \in [Source -> Pseudonym \cup {None}]
      /\ categories' \in [Source -> Pseudonym \cup {None}]
  BY <1>1, CallIsNext DEF IInv, TypeOK
<1>3. ASSUME NEW p, Hits(Prefix, p)
      PROVE  /\ \A t \in Source \ {Prefix} : categories'[t] = categories[t]
             /\ normalizedSources'[Norm[Prefix]] = Prefix
             /\ Prefix \in Known(categories')
             /\ frozen => categories' = categories
             /\ categories'[Prefix] # categories[Prefix] => ~Loaded(Prefix)
             /\ UNCHANGED <<loaded, frozen>>
             /\ answer \in Pseudonym
             /\ answer = p \/ (answer = categories[Prefix] /\ Prefix \in Known(categories))
  <2>1. frozen => \A t \in Source : categories'[t] = categories[t]
    BY <1>3 DEF Hits
  <2>2. frozen => categories' = categories
    BY <1>2, <2>1
  <2>3. answer # None /\ answer \in Pseudonym
    BY <1>1, <1>2, <1>3 DEF Hits
  <2>4. Prefix \in Known(categories')
    BY <1>1, <2>3 DEF Known
  <2>5. answer = p \/ (answer = categories[Prefix] /\ Prefix \in Known(categories))
    BY <1>1, <1>3, <2>3 DEF Hits, Known
  <2> QED BY <1>3, <2>2, <2>3, <2>4, <2>5 DEF Hits
<1>4. CASE job.depth = 0
  <2>1. Hits(Prefix, Candidate[Prefix])
    BY <1>1, <1>4, MapHits DEF RegistryCall
  <2>2. Len(Prefix) = 1
    BY <1>4, CallFacts
  <2>3. answer = Candidate[Prefix] /\ Len(answer) = 1
    BY <1>1, <1>3, <2>1, <2>2, PseudonymAssumption DEF ShapeOK
  <2> QED BY <1>3, <1>4, <2>1, <2>2, <2>3
<1>5. CASE job.depth # 0
  <2>1. Bind(Prefix, Requested, Preserve)
    BY <1>5 DEF RegistryCall
  <2>2. /\ Requested \in Pseudonym /\ Len(Requested) = Len(Prefix)
        /\ Len(Prefix) > 1 /\ Len(Prefix) # 1
        /\ Parent(Requested) = job.mapped
        /\ Terminal(Requested) = IF Preserve THEN Terminal(Prefix) ELSE Subauthority[Prefix]
        /\ Subauthority[Prefix] # Terminal(Prefix)
    BY <1>5, BelowDomain
  <2>3. /\ Hits(Prefix, Requested) /\ IntentHolds(Prefix, Requested, Preserve)
        /\ answer = Requested \/ Consistent(Prefix, answer, Requested, Preserve)
    BY <1>1, <2>1, <2>2, BindHits
  <2>4. answer \in Pseudonym
    BY <1>3, <2>3
  <2>5. /\ (Terminal(answer) = Terminal(Prefix)) = Preserve
        /\ Parent(answer) = job.mapped
    BY <2>2, <2>3 DEF IntentHolds, Consistent
  <2>6. Len(answer) = Len(Prefix)
    BY <1>1, <1>3, <2>2, <2>3 DEF ShapeOK
  <2>7. Terminal(answer) \in {Subauthority[Prefix], Terminal(Prefix)}
    <3>1. CASE answer = Requested
      BY <2>2, <3>1
    <3>2. CASE answer = categories[Prefix] /\ Prefix \in Known(categories)
      <4>1. answer[Len(Prefix)] \in {Subauthority[Prefix], Prefix[Len(Prefix)]}
        BY <2>2, <3>2 DEF ShapeOK, SidIInv
      <4>2. Terminal(answer) = answer[Len(answer)] /\ Terminal(Prefix) = Prefix[Len(Prefix)]
        BY <1>1, <2>2, <2>4, <2>6, ArcsOf
      <4> QED BY <2>6, <4>1, <4>2
    <3> QED BY <1>3, <2>3, <3>1, <3>2
  <2> QED BY <1>3, <1>5, <2>3, <2>4, <2>5, <2>6, <2>7
<1> QED BY <1>4, <1>5

\* In the transform pass nothing moves any more, and a call that worked gave
\* one arc more of what is expected.
LEMMA OneArcMore ==
    ASSUME SidIInv, job # Idle, phase = "transform", RegistryCall, outcome' = "ok"
    PROVE  /\ categories' = categories
           /\ Through(job.for, job.depth + 1)
           /\ categories[Prefix] = UpTo(job.sid, job.depth + 1)
<1> DEFINE s == job.sid
           l == job.for
           n == job.depth + 1
           a == categories[Prefix]
<1>1. /\ frozen /\ targets = Qualified
      /\ \A t \in targets : Keeps(t)
      /\ Through(l, job.depth) /\ job.mapped = UpTo(s, job.depth)
      /\ job.preserve = Preserves(l, targets) /\ l.sid = s
  BY DEF SidIInv, SettledOK, TargetsOK, JobOK
<1>2. /\ categories' = categories
      /\ Prefix \in Known(categories) /\ a \in Pseudonym /\ Len(a) = Len(Prefix)
      /\ job.depth = 0 => a = Candidate[Prefix]
      /\ job.depth # 0 =>
            /\ Parent(a) = job.mapped
            /\ Kept(Prefix) <=> Preserve
            /\ Terminal(a) \in {Subauthority[Prefix], Terminal(Prefix)}
  BY <1>1, CallHits DEF Kept
<1>3. /\ s \in Source /\ job.depth \in Nat /\ n \in 1..Len(s)
      /\ Prefix = Upper(s, n) /\ Prefix \in Source /\ Len(Prefix) = n
      /\ Preserve \in BOOLEAN /\ (Preserve => Prefix \in targets)
  BY CallFacts
<1>4. Through(l, n)
  <2>1. ASSUME NEW k \in 1..n PROVE k \in 1..job.depth \/ k = n
    BY <1>3
  <2>2. n > 1 => job.depth # 0
    BY <1>3
  <2>3. Preserve <=> n = Len(s) /\ Preserves(l, targets)
    BY <1>1, <1>3 DEF Preserve, LastArc
  <2>4. n > 1 => (Kept(Upper(s, n)) <=> n = Len(s) /\ Preserves(l, targets))
    BY <1>2, <1>3, <2>2, <2>3
  <2> HIDE DEF n, s, l
  <2> QED BY <1>1, <1>2, <1>3, <2>1, <2>4 DEF Through
<1>5. a \in Seq(Nat) /\ Len(a) = n
  BY <1>2, <1>3, ArcsOf
<1>6. \A k \in 1..n : a[k] = ExpectedArc(s, k)
  <2>1. CASE job.depth = 0
    <3>1. n = 1 /\ Prefix = SubSeq(s, 1, 1)
      BY <1>3, <2>1 DEF Upper
    <3>2. ExpectedArc(s, 1) = a[1]
      BY <1>2, <2>1, <3>1 DEF ExpectedArc
    <3>3. \A k \in 1..n : k = 1
      BY <3>1
    <3> QED BY <3>2, <3>3
  <2>2. CASE job.depth # 0
    <3>1. n # 1 /\ n > 1 /\ n - 1 = job.depth /\ \A k \in 1..n : k \in 1..job.depth \/ k = n
      BY <1>3, <2>2
    <3>2. /\ Parent(a) = SubSeq(a, 1, n - 1) /\ Terminal(a) = a[n]
          /\ Terminal(Prefix) = Prefix[n] /\ Prefix[n] = s[n]
      <4>1. Len(a) > 1 /\ Len(Prefix) > 1
        BY <1>3, <1>5, <3>1
      <4>2. /\ Parent(a) = SubSeq(a, 1, Len(a) - 1) /\ Terminal(a) = a[Len(a)]
            /\ Terminal(Prefix) = Prefix[Len(Prefix)]
        BY <1>2, <1>3, <4>1, ArcsOf
      <4>3. n \in 1..n
        BY <1>3
      <4>4. Prefix[n] = s[n]
        BY <1>3, <4>3, Upwards
      <4> QED BY <1>3, <1>5, <4>2, <4>4
    <3>3. ASSUME NEW k \in 1..job.depth PROVE a[k] = ExpectedArc(s, k)
      <4>1. a[k] = SubSeq(a, 1, job.depth)[k]
        BY <1>3, <1>5
      <4>2. SubSeq(a, 1, job.depth) = UpTo(s, job.depth)
        BY <1>1, <1>2, <2>2, <3>1, <3>2
      <4> QED BY <4>1, <4>2 DEF UpTo
    <3>4. a[n] = ExpectedArc(s, n)
      <4>1. ExpectedArc(s, n) = IF Prefix \in Qualified THEN s[n] ELSE Subauthority[Prefix]
        BY <1>3, <3>1 DEF ExpectedArc, Upper
      <4>2. CASE Prefix \in Qualified
        <5>1. Kept(Prefix)
          BY <1>1, <4>2 DEF Keeps
        <5> QED BY <3>2, <4>1, <4>2, <5>1 DEF Kept
      <4>3. CASE Prefix \notin Qualified
        <5>1. ~Kept(Prefix)
          BY <1>1, <1>2, <1>3, <2>2, <4>3
        <5> QED BY <1>2, <2>2, <3>2, <4>1, <4>3, <5>1 DEF Kept
      <4> QED BY <4>2, <4>3
    <3> QED BY <3>1, <3>3, <3>4
  <2> QED BY <2>1, <2>2
<1>7. a = UpTo(s, n)
  <2>1. a = [k \in 1..n |-> a[k]]
    BY <1>5
  <2>2. [k \in 1..n |-> a[k]] = UpTo(s, n)
    BY <1>6 DEF UpTo
  <2> QED BY <2>1, <2>2
<1> QED BY <1>2, <1>4, <1>7
----------------------------------------------------------------------------
(* Every step keeps the invariant *)

\* A step that leaves the registry alone and takes no evidence back.
LEMMA RegistryRests ==
    ASSUME SidIInv, UNCHANGED vars, targets \subseteq targets'
    PROVE  IInv' /\ TypeOK' /\ ShapeOK' /\ KeptOK'
<1>1. IInv'
  BY NextIInv DEF SidIInv
<1>2. TypeOK'
  BY <1>1 DEF IInv
<1>3. ShapeOK'
  BY DEF SidIInv, ShapeOK, Known, vars, store
<1>4. KeptOK'
  BY DEF SidIInv, KeptOK, Known, Kept, Loaded, Terminal, vars, store, loaded
<1> QED BY <1>1, <1>2, <1>3, <1>4

\* What a call that worked does to what the table says.
LEMMA TableKeeps ==
    ASSUME SidIInv, CallWorked
    PROVE  /\ IInv' /\ ShapeOK' /\ KeptOK'
           /\ \A t \in targets : Keeps(t) /\ t # Prefix =>
                 t \in Known(categories') /\ Terminal(categories'[t]) = Terminal(t)
<1>1. /\ job # Idle /\ RegistryCall /\ outcome' = "ok"
      /\ UNCHANGED <<targets, collection>>
  BY DEF CallWorked, progress
<1>2. /\ Prefix \in Source /\ Len(Prefix) = job.depth + 1 /\ job.depth \in Nat
      /\ (Preserve => Prefix \in targets)
  BY <1>1, CallFacts
<1>3. /\ \A t \in Source \ {Prefix} : categories'[t] = categories[t]
      /\ categories'[Prefix] # categories[Prefix] => ~Loaded(Prefix)
      /\ UNCHANGED <<loaded, frozen>>
      /\ categories'[Prefix] \in Pseudonym /\ Len(categories'[Prefix]) = Len(Prefix)
      /\ job.depth = 0 => categories'[Prefix] = Candidate[Prefix]
      /\ job.depth # 0 =>
            /\ Terminal(categories'[Prefix]) = Terminal(Prefix) <=> Preserve
            /\ Terminal(categories'[Prefix]) \in {Subauthority[Prefix], Terminal(Prefix)}
  BY <1>1, CallHits
<1>4. \A t \in Known(categories') : t = Prefix \/ (t \in Known(categories) /\ t # Prefix)
  BY <1>3 DEF Known
<1>5. /\ job.depth = 0 <=> Len(Prefix) = 1
      /\ job.depth # 0 <=> Len(Prefix) > 1
  BY <1>2
<1>6. IInv'
  BY <1>1, CallIsNext
<1>7. ShapeOK'
  <2>1. ASSUME NEW t \in Known(categories'), t # Prefix
        PROVE  /\ Len(categories'[t]) = Len(t)
               /\ Len(t) = 1 => categories'[t] = Candidate[t]
               /\ Len(t) > 1 => categories'[t][Len(t)] \in {Subauthority[t], t[Len(t)]}
    <3>1. t \in Known(categories) /\ categories'[t] = categories[t]
      BY <1>3, <1>4, <2>1 DEF Known
    <3> QED BY <3>1 DEF SidIInv, ShapeOK
  <2>2. /\ Len(categories'[Prefix]) = Len(Prefix)
        /\ Len(Prefix) = 1 => categories'[Prefix] = Candidate[Prefix]
        /\ Len(Prefix) > 1 =>
              categories'[Prefix][Len(Prefix)] \in {Subauthority[Prefix], Prefix[Len(Prefix)]}
    <3>1. ASSUME Len(Prefix) > 1
          PROVE  categories'[Prefix][Len(Prefix)] \in {Subauthority[Prefix], Prefix[Len(Prefix)]}
      <4>1. /\ Terminal(categories'[Prefix]) = categories'[Prefix][Len(Prefix)]
            /\ Terminal(Prefix) = Prefix[Len(Prefix)]
        BY <1>2, <1>3, <3>1, ArcsOf
      <4> QED BY <1>3, <1>5, <3>1, <4>1
    <3> QED BY <1>3, <1>5, <3>1
  <2>3. \A t \in Known(categories') : 
            /\ Len(categories'[t]) = Len(t)
            /\ Len(t) = 1 => categories'[t] = Candidate[t]
            /\ Len(t) > 1 => categories'[t][Len(t)] \in {Subauthority[t], t[Len(t)]}
    BY <2>1, <2>2
  <2> QED BY <2>3 DEF ShapeOK
<1>8. KeptOK'
  <2>1. ASSUME NEW t \in Known(categories'), Len(t) > 1, ~Loaded(t),
               Terminal(categories'[t]) = Terminal(t)
        PROVE  t \in targets
    <3>1. CASE t = Prefix
      BY <1>2, <1>3, <1>5, <2>1, <3>1
    <3>2. CASE t # Prefix
      <4>1. t \in Known(categories) /\ categories'[t] = categories[t]
        BY <1>3, <1>4, <3>2 DEF Known
      <4> QED BY <2>1, <4>1 DEF SidIInv, KeptOK, Kept
    <3> QED BY <3>1, <3>2
  <2> QED BY <1>1, <1>3, <2>1 DEF KeptOK, Kept, Loaded, loaded, Terminal
<1>9. ASSUME NEW t \in targets, Keeps(t), t # Prefix
      PROVE  t \in Known(categories') /\ Terminal(categories'[t]) = Terminal(t)
  BY <1>3, <1>9 DEF Keeps, Known, Kept
<1> QED BY <1>6, <1>7, <1>8, <1>9

LEMMA CallWorkedKeeps == ASSUME SidIInv, CallWorked PROVE SidIInv'
<1> DEFINE answer == categories'[Prefix]
<1>1. /\ job # Idle /\ RegistryCall /\ outcome' = "ok"
      /\ UNCHANGED <<collection, phase, undiscovered, unvisited, targets, unsettled>>
  BY DEF CallWorked, progress
<1>2. /\ job.sid \in Source /\ job.depth \in Nat /\ job.depth + 1 \in 1..Len(job.sid)
      /\ Prefix = Upper(job.sid, job.depth + 1) /\ Prefix \in Source
      /\ Len(Prefix) = job.depth + 1
      /\ LastArc => Prefix = job.sid
  BY <1>1, CallFacts
<1>3. /\ normalizedSources'[Norm[Prefix]] = Prefix
      /\ answer \in Pseudonym /\ Len(answer) = job.depth + 1
      /\ UNCHANGED <<loaded, frozen>>
      /\ Prefix \in Known(categories')
      /\ frozen => categories' = categories
  BY <1>1, <1>2, CallHits
<1>4. /\ IInv' /\ ShapeOK' /\ KeptOK' /\ TypeOK'
      /\ \A t \in targets : Keeps(t) /\ t # Prefix =>
            t \in Known(categories') /\ Terminal(categories'[t]) = Terminal(t)
  BY TableKeeps DEF IInv
<1>5. IF LastArc
      THEN /\ job' = Idle
           /\ output' = IF phase = "transform" THEN [output EXCEPT ![job.for] = answer] ELSE output
      ELSE job' = [job EXCEPT !.depth = @ + 1, !.mapped = answer] /\ output' = output
  BY <1>3 DEF CallWorked
<1>6. /\ job \in [sid : Source, preserve : BOOLEAN, for : Leaf \cup {None},
                  depth : Nat, mapped : Pseudonym \cup {<<>>}]
      /\ job.preserve => job.sid \in targets
      /\ phase \in {"discover", "settle", "transform"}
      /\ phase = "settle" => job.sid \in targets /\ job.preserve
      /\ phase = "transform" =>
            /\ job.for \in Occurrence \ unvisited /\ job.sid = job.for.sid
            /\ job.preserve = Preserves(job.for, targets)
  BY <1>1 DEF SidIInv, JobOK
<1>7. phase = "transform" =>
         /\ categories' = categories
         /\ Through(job.for, job.depth + 1)
         /\ answer = UpTo(job.sid, job.depth + 1)
  BY <1>1, OneArcMore
<1>8. ~LastArc =>
         /\ job'.sid = job.sid /\ job'.preserve = job.preserve /\ job'.for = job.for
         /\ job'.depth = job.depth + 1 /\ job'.mapped = answer
         /\ job' \in [sid : Source, preserve : BOOLEAN, for : Leaf \cup {None},
                      depth : Nat, mapped : Pseudonym \cup {<<>>}]
         /\ job'.depth < Len(job'.sid)
  <2> SUFFICES ASSUME ~LastArc
               PROVE  /\ job'.sid = job.sid /\ job'.preserve = job.preserve /\ job'.for = job.for
                      /\ job'.depth = job.depth + 1 /\ job'.mapped = answer
                      /\ job' \in [sid : Source, preserve : BOOLEAN, for : Leaf \cup {None},
                                   depth : Nat, mapped : Pseudonym \cup {<<>>}]
                      /\ job'.depth < Len(job'.sid)
    OBVIOUS
  <2> HIDE DEF answer
  <2>1. job' = [sid |-> job.sid, preserve |-> job.preserve, for |-> job.for,
                depth |-> job.depth + 1, mapped |-> answer]
    BY <1>5, <1>6
  <2>2. job.depth + 1 < Len(job.sid)
    <3>1. \A m \in Nat : \A n \in 1..m : n # m => n < m
      OBVIOUS
    <3>2. job.depth + 1 # Len(job.sid)
      BY DEF LastArc
    <3> QED BY <1>2, <3>1, <3>2, ArcsOf
  <2> QED BY <1>2, <1>3, <1>6, <2>1, <2>2
<1>9. \A s, n : phase = "transform" =>
         /\ (Through(s, n)' <=> Through(s, n)) /\ UpTo(s, n)' = UpTo(s, n)
         /\ Expected(s)' = Expected(s)
  BY <1>1, <1>7 DEF Through, Preserves, UpTo, Expected, ExpectedArc, Qualified, Occurrence, Known, Kept,
     Terminal
<1>10. Occurrence' = Occurrence /\ Found' = Found /\ Qualified' = Qualified
  BY <1>1 DEF Occurrence, Found, Qualified
<1>11. SidTypeOK'
  <2>1. output' \in [Leaf -> Pseudonym \cup {None}]
    BY <1>3, <1>5, <1>6 DEF SidIInv, SidTypeOK, Occurrence
  <2> QED BY <1>1, <1>4, <1>10, <2>1 DEF SidIInv, SidTypeOK
<1>12. JobOK'
  <2>1. CASE LastArc
    BY <1>5, <2>1 DEF JobOK, Idle
  <2>2. CASE ~LastArc
    <3>1. Len(job'.mapped) = job'.depth
      BY <1>3, <1>8, <2>2
    <3>2. phase = "transform" => Through(job.for, job.depth)'
      BY <1>1, <1>7, <1>8, <2>2 DEF Through, Preserves, Known, Kept, Terminal
    <3>3. phase = "transform" => job'.mapped = UpTo(job.sid, job.depth)'
      BY <1>7, <1>8, <1>10, <2>2 DEF UpTo, ExpectedArc
    <3> QED BY <1>1, <1>6, <1>8, <1>10, <2>2, <3>1, <3>2, <3>3 DEF JobOK
  <2> QED BY <2>1, <2>2
<1>13. TargetsOK'
  BY <1>1, <1>10 DEF SidIInv, TargetsOK
<1>14. SettledOK'
  <2>1. ASSUME phase = "settle", NEW x \in targets \ unsettled
        PROVE  \/ x \in Known(categories') /\ Terminal(categories'[x]) = Terminal(x)
               \/ job' # Idle /\ job'.sid = x
    <3>1. Keeps(x) \/ job.sid = x
      BY <2>1 DEF SidIInv, SettledOK
    <3>2. CASE x # Prefix
      <4>1. CASE job.sid = x
        <5>1. ~LastArc
          BY <1>2, <3>2, <4>1
        <5> QED BY <1>2, <1>8, <4>1, <5>1, NoneAssumption DEF Idle
      <4> QED BY <1>4, <3>1, <3>2, <4>1
    <3>3. CASE x = Prefix
      <4>1. x \in WellKnown /\ job.sid \in WellKnown /\ x \in Source /\ job.preserve
        BY <1>2, <1>6, <2>1, <3>3 DEF SidIInv, SidTypeOK
      <4>2. Len(x) = 2 /\ Len(job.sid) = 2
        BY <1>2, <4>1, AccountsAreDeep
      <4>3. LastArc /\ job.depth # 0
        <5>1. job.depth + 1 = 2
          BY <1>2, <3>3, <4>2
        <5> QED BY <1>2, <4>2, <5>1 DEF LastArc
      <4>4. Preserve
        BY <4>1, <4>3 DEF Preserve
      <4> QED BY <1>1, <1>3, <3>3, <4>3, <4>4, CallHits
    <3> QED BY <3>2, <3>3
  <2>2. phase = "settle" =>
           \A x \in targets \ unsettled : Keeps(x)' \/ (job' # Idle /\ job'.sid = x)
    BY <2>1 DEF Keeps, Kept, Terminal
  <2>3. frozen' => \A x \in targets' : Keeps(x)'
    BY <1>1, <1>3 DEF SidIInv, SettledOK, Keeps, Kept, Known, Terminal
  <2> QED BY <1>1, <1>3, <2>2, <2>3 DEF SidIInv, SettledOK
<1>15. WrittenOK'
  <2>1. ASSUME phase = "transform", NEW l \in Occurrence \ unvisited
        PROVE  \/ job' # Idle /\ job'.for = l
               \/ output'[l] = Expected(l.sid) /\ Through(l, Len(l.sid))
    <3>1. CASE ~LastArc /\ job.for = l
      BY <1>8, <3>1, NoneAssumption DEF Idle
    <3>2. CASE LastArc /\ job.for = l
      <4>1. output'[l] = answer
        BY <1>5, <2>1, <3>2 DEF SidIInv, SidTypeOK, Occurrence
      <4>2. l.sid = job.sid /\ job.depth + 1 = Len(l.sid)
        BY <1>6, <2>1, <3>2 DEF LastArc
      <4>3. Through(l, Len(l.sid)) /\ answer = UpTo(l.sid, Len(l.sid))
        BY <1>7, <2>1, <3>2, <4>2
      <4>4. UpTo(l.sid, Len(l.sid)) = Expected(l.sid)
        BY DEF Expected, UpTo
      <4> QED BY <4>1, <4>3, <4>4
    <3>3. CASE job.for # l
      <4>1. output[l] = Expected(l.sid) /\ Through(l, Len(l.sid))
        BY <2>1, <3>3 DEF SidIInv, WrittenOK
      <4>2. output'[l] = output[l]
        BY <1>5, <2>1, <3>3 DEF SidIInv, SidTypeOK, Occurrence
      <4> QED BY <4>1, <4>2
    <3> QED BY <3>1, <3>2, <3>3
  <2>2. phase = "transform" =>
           \A l \in Occurrence \ unvisited :
              \/ job' # Idle /\ job'.for = l
              \/ output'[l] = Expected(l.sid)' /\ Through(l, Len(l.sid))'
    BY <1>9, <2>1
  <2> QED BY <1>1, <1>6, <1>10, <2>2 DEF WrittenOK
<1> QED BY <1>4, <1>11, <1>12, <1>13, <1>14, <1>15 DEF SidIInv

LEMMA CallFailedKeeps == ASSUME SidIInv, CallFailed PROVE SidIInv'
<1>1. /\ job # Idle /\ RegistryCall /\ outcome' # "ok"
      /\ phase' = "aborted" /\ job' = Idle
      /\ UNCHANGED <<collection, undiscovered, unvisited, targets, unsettled, output>>
  BY DEF CallFailed
<1>2. UNCHANGED <<store, loaded, asked>> /\ IInv'
  BY <1>1, CallFacts, CallIsNext, Misses
<1>3. SidTypeOK'
  BY <1>1, <1>2 DEF SidIInv, SidTypeOK, IInv, Occurrence
<1>4. ShapeOK' /\ KeptOK'
  BY <1>1, <1>2 DEF SidIInv, ShapeOK, KeptOK, Known, Kept, Loaded, Terminal, store, loaded
<1>5. SettledOK'
  BY <1>1, <1>2 DEF SidIInv, SettledOK, Keeps, Known, Kept, Terminal, store
<1>6. JobOK' /\ TargetsOK' /\ WrittenOK'
  BY <1>1 DEF JobOK, TargetsOK, WrittenOK
<1> QED BY <1>2, <1>3, <1>4, <1>5, <1>6 DEF SidIInv

\* What a document defines is evidence, and all its leaves are still to come.
LEMMA BeginDocumentKeeps ==
    ASSUME SidIInv, NEW d \in Document, BeginDocument(d)
    PROVE  SidIInv'
<1>1. /\ phase = "discover" /\ job = Idle /\ unvisited = {} /\ d \in undiscovered
      /\ undiscovered' = undiscovered \ {d}
      /\ unvisited' = {l \in Leaf : l.doc = d}
      /\ targets' = targets \cup Defines[d]
      /\ UNCHANGED <<vars, phase, collection, unsettled, job, output>>
  BY DEF BeginDocument, Defined, progress
<1>2. IInv' /\ TypeOK' /\ ShapeOK' /\ KeptOK'
  BY <1>1, RegistryRests
<1>3. d \in collection /\ undiscovered \subseteq collection
  BY <1>1 DEF SidIInv, SidTypeOK
<1>4. SidTypeOK'
  BY <1>1, <1>2, <1>3, DefinesAssumption DEF SidIInv, SidTypeOK, Occurrence
<1>5. Found' = Found \cup Defines[d]
  <2>1. (collection \ undiscovered)' = (collection \ undiscovered) \cup {d}
    BY <1>1, <1>3
  <2>2. \A l \in Occurrence' : l \in Occurrence
           /\ (l.doc \notin undiscovered' /\ l \notin unvisited' <=>
                  l.doc \notin undiscovered /\ l \notin unvisited)
    BY <1>1, <1>3 DEF Occurrence
  <2>3. Occurrence' = Occurrence /\ Defines[d] \subseteq Source
    BY <1>1, DefinesAssumption, WellKnownAssumption DEF Occurrence
  <2> QED BY <2>1, <2>2, <2>3 DEF Found
<1>6. TargetsOK'
  BY <1>1, <1>5 DEF SidIInv, TargetsOK
<1>7. SettledOK' /\ JobOK' /\ WrittenOK'
  BY <1>1 DEF SidIInv, SettledOK, JobOK, WrittenOK, vars, store
<1> QED BY <1>2, <1>4, <1>6, <1>7 DEF SidIInv

LEMMA DiscoverLeafKeeps ==
    ASSUME SidIInv, NEW l \in Leaf, DiscoverLeaf(l)
    PROVE  SidIInv'
<1>1. /\ phase = "discover" /\ job = Idle /\ l \in unvisited
      /\ unvisited' = unvisited \ {l}
      /\ targets' = Evidence(l)
      /\ job' = (IF Deferred(l) THEN Idle ELSE Call(l.sid, Preserves(l, targets'), l))
      /\ UNCHANGED <<vars, phase, collection, undiscovered, unsettled, output>>
  BY DEF DiscoverLeaf, progress
<1>2. targets' = targets \cup (IF l.declared THEN {l.sid} ELSE {})
  BY <1>1 DEF Evidence
<1>3. IInv' /\ TypeOK' /\ ShapeOK' /\ KeptOK'
  BY <1>1, <1>2, RegistryRests
<1>4. /\ l \in Occurrence /\ l.doc \notin undiscovered /\ l.sid \in Source
      /\ l.declared \in BOOLEAN /\ (l.declared => l.sid \in WellKnown)
  BY <1>1, LeafAssumption DEF SidIInv, SidTypeOK, TargetsOK
<1>5. SidTypeOK'
  BY <1>1, <1>2, <1>3, <1>4 DEF SidIInv, SidTypeOK, Occurrence
<1>6. Found' = Found \cup (IF l.declared THEN {l.sid} ELSE {})
  <2>1. Occurrence' = Occurrence
    BY <1>1 DEF Occurrence
  <2> QED BY <1>1, <1>4, <2>1 DEF Found
<1>7. TargetsOK'
  BY <1>1, <1>2, <1>6 DEF SidIInv, TargetsOK
<1>8. JobOK'
  <2>1. CASE Deferred(l)
    BY <1>1, <2>1 DEF JobOK
  <2>2. CASE ~Deferred(l)
    <3>1. job' = Call(l.sid, Preserves(l, targets'), l)
      BY <1>1, <2>2
    <3>2. 0 < Len(l.sid) /\ Len(<<>>) = 0
      BY <1>4, SequencesAssumption
    <3>3. /\ job'.sid = l.sid /\ job'.preserve = Preserves(l, targets') /\ (job'.preserve => l.sid \in targets')
          /\ job'.depth = 0 /\ job'.mapped = <<>>
          /\ job' \in [sid : Source, preserve : BOOLEAN, for : Leaf \cup {None},
                       depth : Nat, mapped : Pseudonym \cup {<<>>}]
      BY <1>4, <3>1 DEF Call, Preserves
    <3> QED BY <1>1, <3>2, <3>3 DEF JobOK
  <2> QED BY <2>1, <2>2
<1>9. SettledOK' /\ WrittenOK'
  BY <1>1 DEF SidIInv, SettledOK, WrittenOK, vars, store
<1> QED BY <1>3, <1>5, <1>7, <1>8, <1>9 DEF SidIInv

\* Discovery went past everything, so it has all the evidence there is.
LEMMA EndDiscoveryKeeps == ASSUME SidIInv, EndDiscovery PROVE SidIInv'
<1>1. /\ phase = "discover" /\ job = Idle /\ undiscovered = {} /\ unvisited = {}
      /\ phase' = "settle" /\ unsettled' = targets
      /\ UNCHANGED <<vars, collection, undiscovered, unvisited, targets, job, output>>
  BY DEF EndDiscovery
<1>2. IInv' /\ TypeOK' /\ ShapeOK' /\ KeptOK'
  BY <1>1, RegistryRests
<1>3. SidTypeOK'
  BY <1>1, <1>2 DEF SidIInv, SidTypeOK, Occurrence
<1>4. Found = Qualified
  <2>1. ASSUME NEW s
        PROVE  s \in UNION {Defines[d] : d \in collection} <=> \E d \in collection : s \in Defines[d]
    OBVIOUS
  <2>2. ASSUME NEW s
        PROVE  s \in {l.sid : l \in {k \in Occurrence : k.declared}} <=>
                  \E l \in Occurrence : l.declared /\ l.sid = s
    OBVIOUS
  <2>3. \A s : s \in Qualified <=> \/ \E d \in collection : s \in Defines[d]
                                   \/ \E l \in Occurrence : l.declared /\ l.sid = s
    <3> SUFFICES ASSUME NEW s
                 PROVE  s \in Qualified <=> \/ \E d \in collection : s \in Defines[d]
                                            \/ \E l \in Occurrence : l.declared /\ l.sid = s
      OBVIOUS
    <3>1. s \in Qualified <=> \/ s \in UNION {Defines[d] : d \in collection}
                              \/ s \in {l.sid : l \in {k \in Occurrence : k.declared}}
      BY DEF Qualified
    <3> QED BY <2>1, <2>2, <3>1
  <2>4. \A s : s \in Found <=> /\ s \in Source
                               /\ \/ \E d \in collection : s \in Defines[d]
                                  \/ \E l \in Occurrence : l.declared /\ l.sid = s
    BY <1>1 DEF Found
  <2>5. Qualified \subseteq Source
    <3>1. collection \subseteq Document /\ \A d \in Document : Defines[d] \subseteq Source
      BY DefinesAssumption, WellKnownAssumption DEF SidIInv, SidTypeOK
    <3>2. \A l \in Occurrence : l.sid \in Source
      BY LeafAssumption DEF Occurrence
    <3> QED BY <2>3, <3>1, <3>2
  <2> QED BY <2>3, <2>4, <2>5
<1>5. TargetsOK'
  BY <1>1, <1>4 DEF SidIInv, TargetsOK, Qualified, Occurrence
<1>6. SettledOK' /\ JobOK' /\ WrittenOK'
  BY <1>1 DEF SidIInv, SettledOK, JobOK, WrittenOK, vars, store
<1> QED BY <1>2, <1>3, <1>5, <1>6 DEF SidIInv

LEMMA SettleTargetKeeps == ASSUME SidIInv, SettleTarget PROVE SidIInv'
<1> DEFINE t == Preferred(unsettled)
<1>1. /\ phase = "settle" /\ job = Idle /\ unsettled # {}
      /\ unsettled' = unsettled \ {t}
      /\ job' = Call(t, TRUE, None)
      /\ UNCHANGED <<vars, phase, collection, undiscovered, unvisited, targets, output>>
  BY DEF SettleTarget, progress
<1>2. unsettled \subseteq targets /\ targets \subseteq WellKnown /\ WellKnown \subseteq Source
  BY WellKnownAssumption DEF SidIInv, SidTypeOK
<1>3. t \in unsettled /\ t \in Source /\ t \in targets
  <2>1. t \in unsettled
    BY <1>1, <1>2, PreferredIsLeast
  <2> QED BY <1>2, <2>1
<1> HIDE DEF t
<1>4. IInv' /\ TypeOK' /\ ShapeOK' /\ KeptOK'
  BY <1>1, RegistryRests
<1>5. SidTypeOK'
  BY <1>1, <1>2, <1>4 DEF SidIInv, SidTypeOK, Occurrence
<1>6. TargetsOK' /\ WrittenOK'
  BY <1>1 DEF SidIInv, TargetsOK, WrittenOK, Qualified, Occurrence
<1>7. job'.sid = t /\ job' # Idle
  BY <1>1, <1>3, NoneAssumption DEF Call, Idle
<1>8. SettledOK'
  BY <1>1, <1>7 DEF SidIInv, SettledOK, Keeps, Known, Kept, Terminal, vars, store
<1>9. JobOK'
  <2>1. 0 < Len(t)
    BY <1>3, SequencesAssumption
  <2> QED BY <1>1, <1>3, <2>1 DEF JobOK, Call
<1> QED BY <1>4, <1>5, <1>6, <1>8, <1>9 DEF SidIInv

\* Everything is settled when discovery is closed.
LEMMA CloseDiscoveryKeeps == ASSUME SidIInv, CloseDiscovery PROVE SidIInv'
<1>1. /\ phase = "settle" /\ job = Idle /\ unsettled = {} /\ Freeze /\ ~frozen
      /\ phase' = (IF outcome' = "ok" THEN "transform" ELSE "aborted")
      /\ unvisited' = Occurrence
      /\ UNCHANGED <<collection, undiscovered, targets, unsettled, job, output>>
  BY DEF CloseDiscovery, SidIInv, SettledOK
<1>2. /\ UNCHANGED <<categories, loaded>>
      /\ outcome' = "ok" => frozen'
      /\ outcome' # "ok" => ~frozen'
  BY <1>1 DEF Freeze, FreezeOpen, FreezeAgain, FreezeRefused, Refuse, store
<1>3. IInv' /\ TypeOK'
  <2>1. Next
    BY <1>1 DEF Next
  <2> QED BY <2>1, NextIInv DEF SidIInv, IInv
<1>4. ShapeOK' /\ KeptOK'
  BY <1>1, <1>2 DEF SidIInv, ShapeOK, KeptOK, Known, Kept, Loaded, Terminal, loaded
<1>5. SidTypeOK'
  BY <1>1, <1>3 DEF SidIInv, SidTypeOK, Occurrence
<1>6. Occurrence' = Occurrence /\ Qualified' = Qualified
  BY <1>1 DEF Occurrence, Qualified
<1>7. TargetsOK'
  BY <1>1, <1>6 DEF SidIInv, TargetsOK
<1>8. \A t \in targets : Keeps(t) /\ (Keeps(t) => Keeps(t)')
  BY <1>1, <1>2 DEF SidIInv, SettledOK, Keeps, Known, Kept, Terminal
<1>9. SettledOK'
  BY <1>1, <1>2, <1>8 DEF SettledOK
<1>10. JobOK' /\ WrittenOK'
  BY <1>1, <1>6 DEF JobOK, WrittenOK
<1> QED BY <1>3, <1>4, <1>5, <1>7, <1>9, <1>10 DEF SidIInv

LEMMA TransformLeafKeeps ==
    ASSUME SidIInv, NEW l \in Leaf, TransformLeaf(l)
    PROVE  SidIInv'
<1>1. /\ phase = "transform" /\ job = Idle /\ l \in unvisited
      /\ unvisited' = unvisited \ {l}
      /\ job' = Call(l.sid, Preserves(l, targets), l)
      /\ UNCHANGED <<vars, phase, collection, undiscovered, targets, unsettled, output>>
  BY DEF TransformLeaf, progress
<1>2. l \in Occurrence /\ l.sid \in Source
  BY <1>1, LeafAssumption DEF SidIInv, SidTypeOK
<1>3. IInv' /\ TypeOK' /\ ShapeOK' /\ KeptOK'
  BY <1>1, RegistryRests
<1>4. Occurrence' = Occurrence /\ Qualified' = Qualified
  BY <1>1 DEF Occurrence, Qualified
<1>5. SidTypeOK'
  BY <1>1, <1>3, <1>4 DEF SidIInv, SidTypeOK
<1>6. TargetsOK'
  BY <1>1, <1>4 DEF SidIInv, TargetsOK
<1>7. SettledOK'
  BY <1>1 DEF SidIInv, SettledOK, Keeps, Known, Kept, Terminal, vars, store
<1>8. /\ job'.sid = l.sid /\ job'.preserve = Preserves(l, targets) /\ job'.for = l
      /\ job'.preserve => l.sid \in targets
      /\ job'.depth = 0 /\ job'.mapped = <<>> /\ job' # Idle
      /\ job' \in [sid : Source, preserve : BOOLEAN, for : Leaf \cup {None},
                   depth : Nat, mapped : Pseudonym \cup {<<>>}]
  BY <1>1, <1>2, NoneAssumption DEF Call, Idle, Preserves
<1>9. JobOK'
  <2>1. 0 < Len(job'.sid) /\ Len(job'.mapped) = job'.depth
    BY <1>2, <1>8, SequencesAssumption
  <2>2. Through(job.for, job.depth)'
    BY <1>8 DEF Through
  <2>3. job'.mapped = UpTo(job.sid, job.depth)'
    BY <1>8 DEF UpTo
  <2> QED BY <1>1, <1>2, <1>4, <1>8, <2>1, <2>2, <2>3 DEF JobOK
<1>10. WrittenOK'
  <2>1. \A k \in Occurrence \ unvisited :
           output[k] = Expected(k.sid) /\ Through(k, Len(k.sid))
    BY <1>1 DEF SidIInv, WrittenOK
  <2>2. \A s, n : (Through(s, n)' <=> Through(s, n)) /\ Expected(s)' = Expected(s)
    BY <1>1, <1>4 DEF Through, Preserves, Expected, ExpectedArc, Known, Kept, Terminal, vars, store
  <2>3. \A k \in (Occurrence \ unvisited)' : k = l \/ k \in Occurrence \ unvisited
    BY <1>1, <1>4
  <2>4. \A k \in (Occurrence \ unvisited)' :
           \/ job' # Idle /\ job'.for = k
           \/ output'[k] = Expected(k.sid)' /\ Through(k, Len(k.sid))'
    BY <1>1, <1>8, <2>1, <2>2, <2>3
  <2> QED BY <1>1, <2>4 DEF WrittenOK
<1> QED BY <1>3, <1>5, <1>6, <1>7, <1>9, <1>10 DEF SidIInv

LEMMA EndTransformKeeps == ASSUME SidIInv, EndTransform PROVE SidIInv'
<1>1. /\ phase = "transform" /\ job = Idle /\ unvisited = {} /\ phase' = "done"
      /\ UNCHANGED <<vars, collection, undiscovered, unvisited, targets, unsettled, job, output>>
  BY DEF EndTransform
<1>2. IInv' /\ TypeOK' /\ ShapeOK' /\ KeptOK'
  BY <1>1, RegistryRests
<1>3. Occurrence' = Occurrence /\ Qualified' = Qualified
  BY <1>1 DEF Occurrence, Qualified
<1>4. SidTypeOK' /\ TargetsOK' /\ JobOK'
  BY <1>1, <1>2, <1>3 DEF SidIInv, SidTypeOK, TargetsOK, JobOK
<1>5. SettledOK'
  BY <1>1 DEF SidIInv, SettledOK, Keeps, Known, Kept, Terminal, vars, store
<1>6. WrittenOK'
  <2>1. \A s, n : (Through(s, n)' <=> Through(s, n)) /\ Expected(s)' = Expected(s)
    BY <1>1, <1>3 DEF Through, Preserves, Expected, ExpectedArc, Known, Kept, Terminal, vars, store
  <2> QED BY <1>1, <1>3, <2>1 DEF SidIInv, WrittenOK
<1> QED BY <1>2, <1>4, <1>5, <1>6 DEF SidIInv

LEMMA NothingKeeps == ASSUME SidIInv, UNCHANGED allVars PROVE SidIInv'
<1>1. UNCHANGED <<vars, phase, collection, undiscovered, unvisited, targets, unsettled, job, output>>
  BY DEF allVars, engineVars, progress
<1>2. IInv' /\ TypeOK' /\ ShapeOK' /\ KeptOK'
  BY <1>1, RegistryRests
<1>3. Occurrence' = Occurrence /\ Qualified' = Qualified /\ Found' = Found
  BY <1>1 DEF Occurrence, Qualified, Found
<1>4. SidTypeOK' /\ TargetsOK'
  BY <1>1, <1>2, <1>3 DEF SidIInv, SidTypeOK, TargetsOK
<1>5. SettledOK'
  BY <1>1 DEF SidIInv, SettledOK, Keeps, Known, Kept, Terminal, vars, store
<1>6. \A s, n : (Through(s, n)' <=> Through(s, n)) /\ Expected(s)' = Expected(s)
  BY <1>1, <1>3 DEF Through, Preserves, Expected, ExpectedArc, Known, Kept, Terminal, vars, store
<1>7. WrittenOK'
  BY <1>1, <1>3, <1>6 DEF SidIInv, WrittenOK
<1>8. JobOK'
  <2>1. Through(job.for, job.depth) => Through(job.for, job.depth)'
    BY <1>1 DEF Through, Preserves, Known, Kept, Terminal, vars, store
  <2>2. UpTo(job.sid, job.depth)' = UpTo(job.sid, job.depth)
    BY <1>1, <1>3 DEF UpTo, ExpectedArc
  <2> QED BY <1>1, <1>3, <2>1, <2>2 DEF SidIInv, JobOK
<1> QED BY <1>2, <1>4, <1>5, <1>7, <1>8 DEF SidIInv

LEMMA NextSidIInv == SidIInv /\ [SidNext]_allVars => SidIInv'
BY CallWorkedKeeps, CallFailedKeeps, BeginDocumentKeeps, DiscoverLeafKeeps, EndDiscoveryKeeps,
   SettleTargetKeeps, CloseDiscoveryKeeps, TransformLeafKeeps, EndTransformKeeps, NothingKeeps
   DEF SidNext

LEMMA SidInvariant == SidSpec => []SidIInv
BY InitSidIInv, NextSidIInv, PTL DEF SidSpec
----------------------------------------------------------------------------
(* The theorems *)

\* Whatever transform_sid does, it does through the registry's own calls, with
\* arguments the registry takes.
THEOREM RunsTheRegistry == SidSpec => Spec
<1>1. SidInit => Init
  BY DEF SidInit
<1>2. SidIInv /\ [SidNext]_allVars => [Next]_vars
  <2> SUFFICES ASSUME SidIInv, [SidNext]_allVars PROVE [Next]_vars
    OBVIOUS
  <2>1. CASE CallWorked
    BY <2>1, CallIsNext DEF CallWorked
  <2>2. CASE CallFailed
    BY <2>2, CallIsNext DEF CallFailed
  <2>3. CASE CloseDiscovery
    BY <2>3 DEF CloseDiscovery, Next
  <2>4. CASE \/ \E d \in Document : BeginDocument(d)
             \/ \E l \in Leaf : DiscoverLeaf(l) \/ TransformLeaf(l)
             \/ EndDiscovery \/ SettleTarget \/ EndTransform \/ UNCHANGED allVars
    <3>1. UNCHANGED vars
      BY <2>4 DEF BeginDocument, DiscoverLeaf, TransformLeaf, EndDiscovery, SettleTarget,
         EndTransform, allVars
    <3> QED BY <3>1
  <2> QED BY <2>1, <2>2, <2>3, <2>4 DEF SidNext
<1> QED BY <1>1, <1>2, SidInvariant, PTL DEF SidSpec, Spec

\* So a run, too, keeps every pseudonym of the mapping file it was given.
THEOREM RunReuseStable == SidSpec => PreloadedStable
BY RunsTheRegistry, ReuseStable

\* Documents, leaves, targets and what is written stay what they are.
THEOREM SidTypeCorrect == SidSpec => []SidTypeOK
<1>1. SidIInv => SidTypeOK
  BY DEF SidIInv
<1> QED BY <1>1, SidInvariant, PTL

\* When discovery is closed, the RIDs that are kept are the ones the catalog
\* spoke for at some occurrence and the ones of the mapping file.
THEOREM EvidenceIsSettled == SidSpec => []EvidenceSettled
<1>1. SidIInv => EvidenceSettled
  BY DEF SidIInv, KeptOK, SettledOK, Keeps, EvidenceSettled
<1> QED BY <1>1, SidInvariant, PTL

\* What a run that completes wrote is a function of the collection and the
\* salt: no order of documents, leaves or corrections shows.
THEOREM OutputIsOrderFree == SidSpec => []OutputOrderFree
<1>1. SidIInv => OutputOrderFree
  BY NoneAssumption DEF SidIInv, WrittenOK, Idle, OutputOrderFree
<1> QED BY <1>1, SidInvariant, PTL

\* A collection with a conflict is refused, in whatever order it is met.
THEOREM CompletesUnconflicted == SidSpec => []CompletesRightly
<1>1. ASSUME SidIInv, phase = "done", Conflicted
      PROVE  FALSE
  <2>1. /\ targets = Qualified
        /\ \A t \in Qualified : Keeps(t)
        /\ \A l \in Occurrence : Through(l, Len(l.sid)) /\ l.sid \in Source
    <3>1. \A l \in Occurrence : l.sid \in Source
      BY LeafAssumption DEF Occurrence
    <3> QED BY <1>1, <3>1 DEF SidIInv, TargetsOK, SettledOK, WrittenOK
  <2>2. \A s \in Source : KeepsAtEnd(s) => Kept(s) /\ Len(s) > 1
    <3>1. \A s \in Qualified : Len(s) = 2
      <4>1. Qualified \subseteq WellKnown /\ WellKnown \subseteq Source
        BY <1>1, <2>1, WellKnownAssumption DEF SidIInv, SidTypeOK
      <4> QED BY <4>1, AccountsAreDeep
    <3>2. \A s \in Qualified : Len(s) > 1
      BY <3>1
    <3> QED BY <2>1, <3>2 DEF KeepsAtEnd, Keeps
  <2>3. ASSUME NEW s \in Qualified, ~Kept(s)
        PROVE  FALSE
    BY <2>1, <2>3 DEF Keeps
  <2>4. ASSUME NEW l \in Occurrence, KeepsAtEnd(l.sid), ~Preserves(l, Qualified)
        PROVE  FALSE
    <3>1. l.sid \in Source /\ Through(l, Len(l.sid)) /\ Kept(l.sid) /\ Len(l.sid) > 1
      BY <2>1, <2>2, <2>4
    <3>2. Len(l.sid) \in 1..Len(l.sid) /\ Upper(l.sid, Len(l.sid)) = l.sid
      <4>1. \A n \in Nat \ {0} : n \in 1..n
        OBVIOUS
      <4>2. Len(l.sid) \in 1..Len(l.sid)
        BY <3>1, <4>1, ArcsOf
      <4> QED BY <3>1, <4>2, Upwards
    <3> QED BY <2>1, <2>4, <3>1, <3>2 DEF Through
  <2>5. ASSUME NEW l \in Occurrence, NEW s \in Source, IsAncestor(s, l.sid), KeepsAtEnd(s)
        PROVE  FALSE
    <3>1. /\ l.sid \in Source /\ Through(l, Len(l.sid))
          /\ Len(s) < Len(l.sid) /\ Len(s) > 1 /\ Upper(l.sid, Len(s)) = s
      BY <2>1, <2>5 DEF IsAncestor, Upper
    <3>2. \A m, n \in Nat : m < n /\ m > 1 => m \in 1..n /\ m # n
      OBVIOUS
    <3>3. Len(s) \in 1..Len(l.sid) /\ Len(s) # Len(l.sid)
      BY <3>1, <3>2, ArcsOf
    <3>4. ~Kept(s)
      BY <3>1, <3>3 DEF Through
    <3> QED BY <2>2, <2>5, <3>4
  <2> QED BY <1>1, <2>3, <2>4, <2>5 DEF Conflicted
<1>2. SidIInv => CompletesRightly
  BY <1>1 DEF CompletesRightly
<1> QED BY <1>2, SidInvariant, PTL
=============================================================================
