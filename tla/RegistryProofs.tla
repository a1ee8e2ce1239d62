--------------------------- MODULE RegistryProofs ---------------------------
(* Theorems about the registry, for every set of values, every             *)
(* normalization, every generator and every map it is loaded with.         *)
EXTENDS Registry, WellFoundedInduction, TLAPS

\* Every non-empty set of spellings has one preferred spelling.
LEMMA PreferredIsLeast ==
    ASSUME NEW S \in SUBSET Source, S # {}
    PROVE  /\ Preferred(S) \in S
           /\ \A t \in S : Rank[Preferred(S)] <= Rank[t]
<1> DEFINE R == {p \in Nat \X Nat : p[1] < p[2]}
           T == {Rank[s] : s \in S}
<1>1. T \subseteq Nat /\ T # {}
  BY RankAssumption
<1>2. \E x \in T : \A y \in T : ~(<<y, x>> \in R)
  <2> HIDE DEF R, T
  <2>1. IsWellFoundedOn(R, Nat)
    BY NatLessThanWellFounded DEF R, OpToRel
  <2> QED BY <1>1, <2>1, WFMin
<1>3. PICK s \in S : \A t \in S : ~(<<Rank[t], Rank[s]>> \in R)
  BY <1>2
<1>4. ASSUME NEW t \in S PROVE Rank[s] <= Rank[t]
  <2>1. Rank[s] \in Nat /\ Rank[t] \in Nat
    BY RankAssumption
  <2>2. Rank[t] < Rank[s] => <<Rank[t], Rank[s]>> \in R
    BY <2>1
  <2>3. ~(Rank[t] < Rank[s])
    BY <1>3, <2>2
  <2> QED BY <2>1, <2>3
<1> QED BY <1>4 DEF Preferred
----------------------------------------------------------------------------
\* o is what an index must hold for a value owned by the spellings S.
Owns(o, S) ==
    IF S = {} THEN o = None
    ELSE o \in S /\ \A t \in S : Rank[o] <= Rank[t]

\* An index entry is characterized by Owns: no CHOOSE is left to reason about.
LEMMA OwnsIsPreferred ==
    ASSUME NEW S \in SUBSET Source, NEW o
    PROVE  o = PreferredOrNone(S) <=> Owns(o, S)
<1>1. CASE S = {}
  BY <1>1 DEF PreferredOrNone, Owns
<1>2. CASE S # {}
  <2>1. /\ Preferred(S) \in S
        /\ \A t \in S : Rank[Preferred(S)] <= Rank[t]
    BY <1>2, PreferredIsLeast
  <2>2. ASSUME o \in S, \A t \in S : Rank[o] <= Rank[t]
        PROVE  o = Preferred(S)
    BY <2>1, <2>2, RankAssumption
  <2> QED BY <1>2, <2>1, <2>2 DEF PreferredOrNone, Owns
<1> QED BY <1>1, <1>2

\* A spelling an open registry added alone is the only one of its identity;
\* only a loaded map brings aliases.
LoneSpelling ==
    \A s, t \in Known(categories) :
        Norm[s] = Norm[t] /\ Norm[s] \notin preloadedSources => s = t

PreloadedKnown == \A i \in preloadedSources : Spellings(categories, i) # {}

FrozenSealed == frozen => NoSelfMap(categories) /\ frozenSnapshot = Tables

\* The inductive invariant. Indexes that agree with the table are what makes
\* the guards of map and bind, which read the indexes, mean what they say
\* about the table; LoneSpelling is what lets a correction move one entry.
IInv ==
    /\ TypeOK
    /\ IndexesAgree
    /\ ReverseUnambiguous
    /\ HistoricalNamesReserved
    /\ LoneSpelling
    /\ PreloadedKnown
    /\ FrozenSealed
----------------------------------------------------------------------------
(* Type correctness *)

LEMMA PreferredOrNoneType ==
    ASSUME NEW S \in SUBSET Source
    PROVE  /\ PreferredOrNone(S) \in Source \cup {None}
           /\ PreferredOrNone(S) # None => PreferredOrNone(S) \in S
<1>1. S # {} => Preferred(S) \in S
  BY PreferredIsLeast
<1> QED BY <1>1 DEF PreferredOrNone

LEMMA RebuiltTypes ==
    ASSUME NEW c
    PROVE  /\ OwnersOf(c) \in [Pseudonym -> Source \cup {None}]
           /\ NormalizedOwnersOf(c) \in [Identity -> Source \cup {None}]
           /\ NormalizedSourcesOf(c) \in [Identity -> Source \cup {None}]
BY PreferredOrNoneType DEF OwnersOf, NormalizedOwnersOf, NormalizedSourcesOf, Known, Spellings

LEMMA OverlayType ==
    ASSUME NEW D, NEW index \in [D -> Source \cup {None}],
           NEW entered \in SUBSET Source, NEW key
    PROVE  Overlay(index, entered, key) \in [D -> Source \cup {None}]
<1>1. ASSUME NEW k \in D, \E s \in entered : key[s] = k
      PROVE  (CHOOSE s \in entered : key[s] = k) \in Source
  BY <1>1
<1> QED BY <1>1 DEF Overlay

LEMMA PendingSubset ==
    ASSUME NEW batch \in SUBSET Source
    PROVE  /\ Pending(batch) \subseteq batch
           /\ \A s \in Renames(batch) : RebuiltOwner(s) \in Known(categories)
<1>1. ASSUME NEW s \in batch
      PROVE  Preferred({t \in batch : Norm[t] = Norm[s]}) \in batch
  <2> DEFINE S == {t \in batch : Norm[t] = Norm[s]}
  <2>1. S \in SUBSET Source /\ S # {}
    BY <1>1
  <2>2. Preferred(S) \in S
    <3> HIDE DEF S
    <3> QED BY <2>1, PreferredIsLeast
  <2> QED BY <2>2
<1>2. ASSUME NEW s \in Renames(batch)
      PROVE  RebuiltOwner(s) \in Known(categories)
  BY <1>2, PreferredOrNoneType DEF Renames, RebuiltOwner, Spellings, Known
<1> QED BY <1>1, <1>2 DEF Pending

LEMMA InitType == Init => TypeOK
BY RebuiltTypes, HistoricalAssumption, NormAssumption DEF Init, TypeOK, Known, Outcomes

LEMMA NextType == TypeOK /\ [Next]_vars => TypeOK'
<1> SUFFICES ASSUME TypeOK, [Next]_vars PROVE TypeOK'
  OBVIOUS
<1> USE NormAssumption, CandidateAssumption, NoneAssumption DEF Outcomes
<1>1. ASSUME NEW s \in Source, Map(s) PROVE TypeOK'
  <2>1. CASE MapKnown(s)
    BY <2>1 DEF MapKnown, TakesOver, Owner, Answer, TypeOK, loaded, indexes
  <2>2. CASE MapNew(s)
    BY <2>2 DEF MapNew, Enter, Answer, TypeOK, loaded
  <2>3. CASE MapRefused(s)
    BY <2>3 DEF MapRefused, Refuse, TypeOK, store, loaded, indexes
  <2> QED BY <1>1, <2>1, <2>2, <2>3 DEF Map
<1>2. ASSUME NEW s \in Source, NEW p \in Pseudonym, NEW preserve \in BOOLEAN,
             Bind(s, p, preserve)
      PROVE  TypeOK'
  <2>1. CASE BindSettled(s, p, preserve)
    BY <2>1 DEF BindSettled, Answer, TypeOK, loaded, indexes
  <2>2. CASE Rebind(s, p, preserve)
    BY <2>2 DEF Rebind, Move, Owner, Answer, TypeOK, loaded
  <2>3. CASE BindNew(s, p, preserve)
    BY <2>3 DEF BindNew, Enter, Answer, TypeOK, loaded
  <2>4. CASE BindRefused(s, p, preserve)
    BY <2>4 DEF BindRefused, Refuse, TypeOK, store, loaded, indexes
  <2> QED BY <1>2, <2>1, <2>2, <2>3, <2>4 DEF Bind
<1>3. ASSUME NEW batch \in SUBSET Source, MapMany(batch) PROVE TypeOK'
  <2> DEFINE pending == Pending(batch)
  <2>1. CASE MapManyOpen(batch, pending)
    <3> DEFINE renames == Renames(batch)
               entered == pending \cup renames
               pseudonym == [s \in entered |->
                  IF s \in pending THEN Candidate[s] ELSE categories[RebuiltOwner(s)]]
    <3>1. entered \in SUBSET Source
      BY PendingSubset DEF Renames
    <3>2. \A s \in entered : pseudonym[s] \in Pseudonym
      BY PendingSubset, <3>1 DEF Known, TypeOK
    <3>3. categories' \in [Source -> Pseudonym \cup {None}]
      BY <2>1, <3>2 DEF MapManyOpen, TypeOK
    <3>4. /\ owners' \in [Pseudonym -> Source \cup {None}]
          /\ normalizedOwners' \in [Identity -> Source \cup {None}]
          /\ normalizedSources' \in [Identity -> Source \cup {None}]
      <4> HIDE DEF pending, pseudonym, renames
      <4> QED BY <2>1, <3>1, RebuiltTypes, OverlayType DEF MapManyOpen, pseudonym, renames
    <3> QED BY <2>1, <3>3, <3>4 DEF MapManyOpen, Answer, TypeOK, loaded
  <2>2. CASE MapManyFrozen(pending)
    BY <2>2 DEF MapManyFrozen, Answer, TypeOK, loaded, indexes
  <2>3. CASE MapManyRefused(pending)
    BY <2>3 DEF MapManyRefused, Refuse, TypeOK, store, loaded, indexes
  <2> QED BY <1>3, <2>1, <2>2, <2>3 DEF MapMany
<1>4. ASSUME Freeze PROVE TypeOK'
  <2>1. CASE FreezeOpen
    BY <2>1, RebuiltTypes DEF FreezeOpen, TypeOK, loaded
  <2>2. CASE FreezeAgain
    BY <2>2 DEF FreezeAgain, Answer, TypeOK, loaded, indexes
  <2>3. CASE FreezeRefused
    BY <2>3 DEF FreezeRefused, Refuse, TypeOK, store, loaded, indexes
  <2> QED BY <1>4, <2>1, <2>2, <2>3 DEF Freeze
<1>5. ASSUME UNCHANGED vars PROVE TypeOK'
  BY <1>5 DEF vars, TypeOK, store, loaded, indexes
<1> QED BY <1>1, <1>2, <1>3, <1>4, <1>5 DEF Next

\* Every call leaves every table well typed.
THEOREM TypeCorrect == Spec => []TypeOK
BY InitType, NextType, PTL DEF Spec
----------------------------------------------------------------------------
(* What the guards, which read the indexes, say about the table *)

LEMMA IndexByOwns ==
    ASSUME NEW c \in [Source -> Pseudonym \cup {None}],
           NEW o \in [Pseudonym -> Source \cup {None}],
           NEW n \in [Identity -> Source \cup {None}],
           NEW m \in [Identity -> Source \cup {None}]
    PROVE  /\ o = OwnersOf(c) <=>
                \A p \in Pseudonym : Owns(o[p], {s \in Known(c) : c[s] = p})
           /\ n = NormalizedOwnersOf(c) <=>
                \A i \in Identity : Owns(n[i], {s \in Known(c) : Norm[c[s]] = i})
           /\ m = NormalizedSourcesOf(c) <=>
                \A i \in Identity : Owns(m[i], Spellings(c, i))
<1>1. /\ \A p \in Pseudonym : {s \in Known(c) : c[s] = p} \in SUBSET Source
      /\ \A i \in Identity : {s \in Known(c) : Norm[c[s]] = i} \in SUBSET Source
      /\ \A i \in Identity : Spellings(c, i) \in SUBSET Source
  BY DEF Known, Spellings
<1>2. o = OwnersOf(c) <=>
        \A p \in Pseudonym : Owns(o[p], {s \in Known(c) : c[s] = p})
  BY <1>1, OwnsIsPreferred DEF OwnersOf
<1>3. n = NormalizedOwnersOf(c) <=>
        \A i \in Identity : Owns(n[i], {s \in Known(c) : Norm[c[s]] = i})
  BY <1>1, OwnsIsPreferred DEF NormalizedOwnersOf
<1>4. m = NormalizedSourcesOf(c) <=> \A i \in Identity : Owns(m[i], Spellings(c, i))
  BY <1>1, OwnsIsPreferred DEF NormalizedSourcesOf
<1> QED BY <1>2, <1>3, <1>4

LEMMA AgreeIsOwns ==
    ASSUME TypeOK
    PROVE  IndexesAgree <=>
             /\ \A p \in Pseudonym :
                  Owns(owners[p], {s \in Known(categories) : categories[s] = p})
             /\ \A i \in Identity :
                  Owns(normalizedOwners[i], {s \in Known(categories) : Norm[categories[s]] = i})
             /\ \A i \in Identity : Owns(normalizedSources[i], Spellings(categories, i))
BY IndexByOwns DEF TypeOK, IndexesAgree

\* An identity without an owner is not in the table; one with an owner is
\* known under it, and every spelling of it has the owner's pseudonym.
LEMMA OwnerFacts ==
    ASSUME IInv, NEW s \in Source
    PROVE  /\ Owner(s) = None => \A t \in Known(categories) : Norm[t] # Norm[s]
           /\ Owner(s) # None =>
                /\ Owner(s) \in Known(categories)
                /\ Norm[Owner(s)] = Norm[s]
                /\ \A t \in Known(categories) : Norm[t] = Norm[s] =>
                      /\ Rank[Owner(s)] <= Rank[t]
                      /\ categories[t] = categories[Owner(s)]
<1>1. Norm[s] \in Identity
  BY NormAssumption
<1>2. Owns(normalizedSources[Norm[s]], Spellings(categories, Norm[s]))
  BY <1>1, AgreeIsOwns DEF IInv
<1>3. None \notin Source
  BY NoneAssumption
<1> QED BY <1>2, <1>3
    DEF Owns, Owner, Spellings, Known, IInv, ReverseUnambiguous, NoDivergentAliases

\* The same for the pseudonyms.
LEMMA PseudonymFacts ==
    ASSUME IInv, NEW p \in Pseudonym
    PROVE  /\ normalizedOwners[Norm[p]] = None <=>
                \A t \in Known(categories) : Norm[categories[t]] # Norm[p]
           /\ normalizedOwners[Norm[p]] # None =>
                /\ normalizedOwners[Norm[p]] \in Known(categories)
                /\ Norm[categories[normalizedOwners[Norm[p]]]] = Norm[p]
<1>1. Norm[p] \in Identity
  BY NormAssumption
<1>2. Owns(normalizedOwners[Norm[p]],
           {t \in Known(categories) : Norm[categories[t]] = Norm[p]})
  BY <1>1, AgreeIsOwns DEF IInv
<1>3. None \notin Source
  BY NoneAssumption
<1> QED BY <1>2, <1>3 DEF Owns, Known
----------------------------------------------------------------------------
(* How the tables may change *)

\* map, bind and map_many change the tables in one way: spellings entered with
\* pseudonyms f, each either of an unknown identity, under a name nobody has
\* and not its own, or preferred to the owner it takes over from.
Enters(entered, f) ==
    /\ \A s, t \in entered : Norm[s] = Norm[t] \/ Norm[f[s]] = Norm[f[t]] => s = t
    /\ \A s \in entered :
          IF Owner(s) = None THEN ~Taken(f[s]) /\ Norm[f[s]] # Norm[s]
          ELSE Rank[s] < Rank[Owner(s)] /\ f[s] = categories[Owner(s)]
    /\ \A s \in Source :
          categories'[s] = IF s \in entered THEN f[s]
                           ELSE IF \E t \in entered : Owner(t) = s THEN None
                           ELSE categories[s]
    /\ \A q \in Pseudonym :
          IF \E s \in entered : f[s] = q
          THEN \E s \in entered : f[s] = q /\ owners'[q] = s
          ELSE owners'[q] = owners[q]
    /\ \A i \in Identity :
          IF \E s \in entered : Norm[f[s]] = i
          THEN \E s \in entered : Norm[f[s]] = i /\ normalizedOwners'[i] = s
          ELSE normalizedOwners'[i] = normalizedOwners[i]
    /\ \A i \in Identity :
          IF \E s \in entered : Norm[s] = i
          THEN \E s \in entered : Norm[s] = i /\ normalizedSources'[i] = s
          ELSE normalizedSources'[i] = normalizedSources[i]

LEMMA EntersPreserves ==
    ASSUME IInv, TypeOK', ~frozen,
           NEW entered \in SUBSET Source, NEW f \in [entered -> Pseudonym],
           Enters(entered, f),
           UNCHANGED <<loaded, frozen, frozenSnapshot>>
    PROVE  IInv'
<1> USE NormAssumption, NoneAssumption
<1> DEFINE stays(t) == t \in Known(categories) /\ t \notin entered
                       /\ ~\E s \in entered : Owner(s) = t
\* An entered spelling is new; the spellings of its identity are those with
\* its pseudonym, and they all rank after it.
<1>1. ASSUME NEW s \in entered
      PROVE  /\ s \notin Known(categories)
             /\ Norm[f[s]] \notin legacyReverseAliases
             /\ \A t \in Known(categories) :
                  /\ Norm[t] = Norm[s] <=> Norm[categories[t]] = Norm[f[s]]
                  /\ Norm[t] = Norm[s] => categories[t] = f[s] /\ Rank[s] <= Rank[t]
             /\ Owner(s) # None => Norm[Owner(s)] = Norm[s]
  <2>1. CASE Owner(s) = None
    <3>1. ~Taken(f[s])
      BY <2>1 DEF Enters
    <3> QED BY <2>1, <3>1, OwnerFacts, PseudonymFacts DEF Taken
  <2>2. CASE Owner(s) # None
    <3>1. Rank[s] < Rank[Owner(s)] /\ f[s] = categories[Owner(s)]
      BY <2>2 DEF Enters
    <3>2. /\ Owner(s) \in Known(categories)
          /\ Norm[Owner(s)] = Norm[s]
          /\ \A t \in Known(categories) : Norm[t] = Norm[s] =>
                Rank[Owner(s)] <= Rank[t] /\ categories[t] = categories[Owner(s)]
      BY <2>2, OwnerFacts
    <3>3. \A t \in Known(categories) : Norm[t] = Norm[s] => Rank[s] < Rank[t]
      BY <3>1, <3>2, RankAssumption DEF Known
    <3>4. s \notin Known(categories)
      BY <3>3, RankAssumption
    <3>5. \A t \in Known(categories) : Norm[categories[t]] = Norm[f[s]] => Norm[t] = Norm[s]
      BY <3>1, <3>2 DEF IInv, ReverseUnambiguous, NoSharedPseudonym
    <3>6. \A t \in Known(categories) : Norm[t] = Norm[s] => Rank[s] <= Rank[t]
      BY <3>3, RankAssumption DEF Known
    <3>7. Norm[f[s]] \notin legacyReverseAliases
      BY <3>1, <3>2 DEF IInv, HistoricalNamesReserved, AliasesApart
    <3> QED BY <3>1, <3>2, <3>4, <3>5, <3>6, <3>7
  <2> QED BY <2>1, <2>2
<1>2. /\ \A t \in Source : t \in Known(categories') <=> t \in entered \/ stays(t)
      /\ \A t \in entered : categories'[t] = f[t]
      /\ \A t \in Source : stays(t) => categories'[t] = categories[t]
  BY DEF Enters, Known
<1>3. \A t \in Known(categories) : stays(t) \/ \E s \in entered : Owner(s) = t
  BY <1>1
<1>4. /\ \A q \in Pseudonym :
            Owns(owners[q], {t \in Known(categories) : categories[t] = q})
      /\ \A i \in Identity :
            Owns(normalizedOwners[i], {t \in Known(categories) : Norm[categories[t]] = i})
      /\ \A i \in Identity : Owns(normalizedSources[i], Spellings(categories, i))
  BY AgreeIsOwns DEF IInv
<1>5. /\ Known(categories') \subseteq Source /\ Known(categories) \subseteq Source
      /\ None \notin Source
      /\ \A s \in Source : Rank[s] \in Nat /\ Rank[s] <= Rank[s]
  BY RankAssumption DEF Known
<1>6. IndexesAgree'
  <2>1. ASSUME NEW q \in Pseudonym
        PROVE  Owns(owners'[q], {t \in Known(categories') : categories'[t] = q})
    <3>1. CASE \E s \in entered : f[s] = q
      <4>1. PICK s \in entered : f[s] = q /\ owners'[q] = s
        BY <3>1 DEF Enters
      <4>2. s \in Known(categories') /\ categories'[s] = q
        BY <1>2, <4>1
      <4>3. \A t \in Known(categories') : categories'[t] = q => Rank[s] <= Rank[t]
        BY <1>1, <1>2, <1>5, <4>1 DEF Enters
      <4> QED BY <4>1, <4>2, <4>3 DEF Owns
    <3>2. CASE ~\E s \in entered : f[s] = q
      <4>1. owners'[q] = owners[q]
        BY <3>2 DEF Enters
      <4>2. {t \in Known(categories') : categories'[t] = q}
              = {t \in Known(categories) : categories[t] = q}
        BY <1>1, <1>2, <1>3, <1>5, <3>2
      <4> QED BY <1>4, <4>1, <4>2
    <3> QED BY <3>1, <3>2
  <2>2. ASSUME NEW i \in Identity
        PROVE  Owns(normalizedOwners'[i], {t \in Known(categories') : Norm[categories'[t]] = i})
    <3>1. CASE \E s \in entered : Norm[f[s]] = i
      <4>1. PICK s \in entered : Norm[f[s]] = i /\ normalizedOwners'[i] = s
        BY <3>1 DEF Enters
      <4>2. s \in Known(categories') /\ Norm[categories'[s]] = i
        BY <1>2, <4>1
      <4>3. \A t \in Known(categories') : Norm[categories'[t]] = i => Rank[s] <= Rank[t]
        BY <1>1, <1>2, <1>5, <4>1 DEF Enters
      <4> QED BY <4>1, <4>2, <4>3 DEF Owns
    <3>2. CASE ~\E s \in entered : Norm[f[s]] = i
      <4>1. normalizedOwners'[i] = normalizedOwners[i]
        BY <3>2 DEF Enters
      <4>2. {t \in Known(categories') : Norm[categories'[t]] = i}
              = {t \in Known(categories) : Norm[categories[t]] = i}
        BY <1>1, <1>2, <1>3, <1>5, <3>2
      <4> QED BY <1>4, <4>1, <4>2
    <3> QED BY <3>1, <3>2
  <2>3. ASSUME NEW i \in Identity
        PROVE  Owns(normalizedSources'[i], Spellings(categories', i))
    <3>1. CASE \E s \in entered : Norm[s] = i
      <4>1. PICK s \in entered : Norm[s] = i /\ normalizedSources'[i] = s
        BY <3>1 DEF Enters
      <4>2. s \in Spellings(categories', i)
        BY <1>2, <4>1 DEF Spellings
      <4>3. \A t \in Spellings(categories', i) : Rank[s] <= Rank[t]
        BY <1>1, <1>2, <1>5, <4>1 DEF Enters, Spellings
      <4> QED BY <4>1, <4>2, <4>3 DEF Owns
    <3>2. CASE ~\E s \in entered : Norm[s] = i
      <4>1. normalizedSources'[i] = normalizedSources[i]
        BY <3>2 DEF Enters
      <4>2. Spellings(categories', i) = Spellings(categories, i)
        BY <1>1, <1>2, <1>3, <1>5, <3>2 DEF Spellings
      <4> QED BY <1>4, <4>1, <4>2
    <3> QED BY <3>1, <3>2
  <2> QED BY <2>1, <2>2, <2>3, IndexByOwns DEF IndexesAgree, TypeOK
<1>7. ReverseUnambiguous'
  <2>1. ASSUME NEW s \in Known(categories'), NEW t \in Known(categories')
        PROVE  Norm[categories'[s]] = Norm[categories'[t]] <=> Norm[s] = Norm[t]
    <3>1. CASE stays(s) /\ stays(t)
      BY <1>2, <1>5, <3>1 DEF IInv, ReverseUnambiguous, NoSharedPseudonym, NoDivergentAliases
    <3>2. CASE s \in entered /\ t \in entered
      BY <1>2, <3>2 DEF Enters
    <3>3. CASE s \in entered /\ stays(t)
      BY <1>1, <1>2, <1>5, <3>3
    <3>4. CASE stays(s) /\ t \in entered
      BY <1>1, <1>2, <1>5, <3>4
    <3> QED BY <1>2, <1>5, <3>1, <3>2, <3>3, <3>4
  <2>2. ASSUME NEW s \in Known(categories'), NEW t \in Known(categories'), Norm[s] = Norm[t]
        PROVE  categories'[s] = categories'[t]
    <3>1. CASE stays(s) /\ stays(t)
      BY <1>2, <1>5, <2>2, <3>1 DEF IInv, ReverseUnambiguous, NoDivergentAliases
    <3>2. CASE s \in entered /\ t \in entered
      BY <1>2, <2>2, <3>2 DEF Enters
    <3>3. CASE s \in entered /\ stays(t)
      BY <1>1, <1>2, <1>5, <2>2, <3>3
    <3>4. CASE stays(s) /\ t \in entered
      BY <1>1, <1>2, <1>5, <2>2, <3>4
    <3> QED BY <1>2, <1>5, <3>1, <3>2, <3>3, <3>4
  <2> QED BY <2>1, <2>2 DEF ReverseUnambiguous, NoSharedPseudonym, NoDivergentAliases
<1>8. HistoricalNamesReserved'
  BY <1>1, <1>2, <1>5 DEF IInv, HistoricalNamesReserved, AliasesApart, loaded
<1>9. LoneSpelling'
  <2>1. ASSUME NEW s \in Known(categories'), NEW t \in Known(categories'),
               Norm[s] = Norm[t], Norm[s] \notin preloadedSources
        PROVE  s = t
    <3>1. CASE stays(s) /\ stays(t)
      BY <2>1, <3>1 DEF IInv, LoneSpelling
    <3>2. CASE s \in entered /\ t \in entered
      BY <2>1, <3>2 DEF Enters
    <3>3. ASSUME NEW x \in entered, NEW y \in Source, stays(y), Norm[x] = Norm[y],
                 Norm[x] \notin preloadedSources
          PROVE  FALSE
      <4>1. Owner(x) # None /\ Owner(x) \in Known(categories) /\ Norm[Owner(x)] = Norm[x]
        BY <3>3, OwnerFacts
      <4>2. Owner(x) = y
        BY <3>3, <4>1 DEF IInv, LoneSpelling
      <4> QED BY <3>3, <4>2
    <3> QED BY <1>2, <1>5, <2>1, <3>1, <3>2, <3>3
  <2> QED BY <2>1 DEF LoneSpelling, loaded
<1>10. PreloadedKnown'
  BY <1>1, <1>2, <1>3, <1>5 DEF IInv, PreloadedKnown, Spellings, loaded
<1> QED BY <1>6, <1>7, <1>8, <1>9, <1>10 DEF IInv, FrozenSealed

\* An index entry of a value with one spelling.
LEMMA OwnsOne == ASSUME NEW s \in Source PROVE Owns(s, {s})
BY RankAssumption DEF Owns

\* bind corrects the pseudonym of a SID this run bound.
LEMMA RebindPreserves ==
    ASSUME IInv, TypeOK', NEW s \in Source, NEW p \in Pseudonym, NEW preserve,
           Rebind(s, p, preserve)
    PROVE  IInv'
<1> USE NormAssumption, NoneAssumption
<1> DEFINE o == Owner(s)
           old == categories[o]
<1>1. /\ o \in Known(categories) /\ o \in Source /\ Norm[o] = Norm[s]
      /\ old \in Pseudonym
      /\ Norm[o] \notin preloadedSources
      /\ Norm[p] # Norm[old]
      /\ ~frozen
  <2>1. o # None /\ Norm[s] \notin preloadedSources /\ ~frozen /\ Norm[old] # Norm[p]
    BY DEF Rebind, Settled, Correctable
  <2>2. o \in Known(categories) /\ Norm[o] = Norm[s]
    BY <2>1, OwnerFacts
  <2> QED BY <2>1, <2>2 DEF Known, IInv, TypeOK
\* o is the only spelling of its identity, so the only owner of old.
<1>2. \A t \in Known(categories) : Norm[categories[t]] = Norm[old] => t = o
  BY <1>1 DEF IInv, LoneSpelling, ReverseUnambiguous, NoSharedPseudonym
<1>3. /\ \A t \in Known(categories) : Norm[categories[t]] # Norm[p]
      /\ Norm[p] \notin legacyReverseAliases
  <2>1. ~OwnedElsewhere(s, p)
    BY DEF Rebind
  <2>2. normalizedOwners[Norm[p]] # o
    BY <1>1, PseudonymFacts
  <2> QED BY <2>1, <2>2, PseudonymFacts DEF OwnedElsewhere
<1>4. /\ Known(categories') = Known(categories)
      /\ categories'[o] = p
      /\ \A t \in Known(categories) \ {o} : categories'[t] = categories[t]
      /\ Known(categories) \subseteq Source
      /\ normalizedSources' = normalizedSources
      /\ UNCHANGED loaded /\ ~frozen'
  BY <1>1 DEF Rebind, Move, Known, IInv, TypeOK, Answer
<1>5. /\ \A q \in Pseudonym :
            owners'[q] = IF q = p THEN o ELSE IF q = old THEN None ELSE owners[q]
      /\ \A i \in Identity :
            normalizedOwners'[i] = IF i = Norm[p] THEN o
                                   ELSE IF i = Norm[old] THEN None ELSE normalizedOwners[i]
  BY <1>1 DEF Rebind, Move, IInv, TypeOK
<1>6. /\ \A q \in Pseudonym :
            Owns(owners[q], {t \in Known(categories) : categories[t] = q})
      /\ \A i \in Identity :
            Owns(normalizedOwners[i], {t \in Known(categories) : Norm[categories[t]] = i})
      /\ \A i \in Identity : Owns(normalizedSources[i], Spellings(categories, i))
  BY AgreeIsOwns DEF IInv
<1>7. IndexesAgree'
  <2>1. ASSUME NEW q \in Pseudonym
        PROVE  Owns(owners'[q], {t \in Known(categories') : categories'[t] = q})
    <3>1. CASE q = p
      <4>1. {t \in Known(categories') : categories'[t] = q} = {o}
        BY <1>1, <1>3, <1>4, <3>1
      <4> QED BY <1>1, <1>5, <3>1, <4>1, OwnsOne
    <3>2. CASE q = old
      <4>1. {t \in Known(categories') : categories'[t] = q} = {}
        BY <1>1, <1>2, <1>4, <3>2
      <4> QED BY <1>1, <1>5, <3>2, <4>1 DEF Owns
    <3>3. CASE q # p /\ q # old
      <4>1. {t \in Known(categories') : categories'[t] = q}
              = {t \in Known(categories) : categories[t] = q}
        BY <1>1, <1>4, <3>3
      <4> QED BY <1>5, <1>6, <3>3, <4>1
    <3> QED BY <3>1, <3>2, <3>3
  <2>2. ASSUME NEW i \in Identity
        PROVE  Owns(normalizedOwners'[i], {t \in Known(categories') : Norm[categories'[t]] = i})
    <3>1. CASE i = Norm[p]
      <4>1. {t \in Known(categories') : Norm[categories'[t]] = i} = {o}
        BY <1>1, <1>3, <1>4, <3>1
      <4> QED BY <1>1, <1>5, <3>1, <4>1, OwnsOne
    <3>2. CASE i = Norm[old]
      <4>1. {t \in Known(categories') : Norm[categories'[t]] = i} = {}
        BY <1>1, <1>2, <1>4, <3>2
      <4> QED BY <1>1, <1>5, <3>2, <4>1 DEF Owns
    <3>3. CASE i # Norm[p] /\ i # Norm[old]
      <4>1. {t \in Known(categories') : Norm[categories'[t]] = i}
              = {t \in Known(categories) : Norm[categories[t]] = i}
        BY <1>1, <1>4, <3>3
      <4> QED BY <1>5, <1>6, <3>3, <4>1
    <3> QED BY <3>1, <3>2, <3>3
  <2>3. ASSUME NEW i \in Identity
        PROVE  Owns(normalizedSources'[i], Spellings(categories', i))
    BY <1>4, <1>6 DEF Spellings
  <2> QED BY <2>1, <2>2, <2>3, IndexByOwns DEF IndexesAgree, TypeOK
<1>8. ReverseUnambiguous'
  BY <1>1, <1>3, <1>4 DEF IInv, ReverseUnambiguous, NoSharedPseudonym, NoDivergentAliases,
     LoneSpelling
<1>9. HistoricalNamesReserved'
  BY <1>3, <1>4 DEF IInv, HistoricalNamesReserved, AliasesApart, loaded
<1>10. LoneSpelling' /\ PreloadedKnown'
  BY <1>4 DEF IInv, LoneSpelling, PreloadedKnown, Spellings, loaded
<1> QED BY <1>4, <1>7, <1>8, <1>9, <1>10 DEF IInv, FrozenSealed

\* A call that moves no table and locks nothing.
LEMMA UnchangedPreserves ==
    ASSUME IInv, TypeOK', UNCHANGED <<store, loaded>>
    PROVE  IInv'
BY DEF IInv, IndexesAgree, ReverseUnambiguous, NoSharedPseudonym, NoDivergentAliases,
   HistoricalNamesReserved, AliasesApart, LoneSpelling, PreloadedKnown, FrozenSealed,
   NoSelfMap, Known, Spellings, Tables, OwnersOf, NormalizedOwnersOf, NormalizedSourcesOf,
   store, loaded, indexes
----------------------------------------------------------------------------
(* Every action changes the tables that way, or not at all *)

\* One spelling entered in place: map of a new identity, map of a preferred
\* spelling, bind of a new SID.
LEMMA EnterIsEnters ==
    ASSUME IInv, NEW s \in Source, NEW p \in Pseudonym, Enter(s, p),
           Owner(s) = None, ~Taken(p), Norm[p] # Norm[s]
    PROVE  /\ [x \in {s} |-> p] \in [{s} -> Pseudonym]
           /\ Enters({s}, [x \in {s} |-> p])
<1> USE NormAssumption, NoneAssumption
<1>1. \A t \in {s} : Owner(t) # t
  BY DEF Owner
<1>2. /\ \A t \in Source : categories'[t] = IF t = s THEN p ELSE categories[t]
      /\ \A q \in Pseudonym : owners'[q] = IF q = p THEN s ELSE owners[q]
      /\ \A i \in Identity :
            /\ normalizedOwners'[i] = IF i = Norm[p] THEN s ELSE normalizedOwners[i]
            /\ normalizedSources'[i] = IF i = Norm[s] THEN s ELSE normalizedSources[i]
  BY DEF Enter, IInv, TypeOK
<1> QED BY <1>2 DEF Enters

LEMMA MapKnownIsEnters ==
    ASSUME IInv, NEW s \in Source, MapKnown(s)
    PROVE  \/ ~frozen /\ \E f \in [{s} -> Pseudonym] : Enters({s}, f)
           \/ /\ UNCHANGED <<categories, indexes>>
              /\ frozen \/ Rank[Owner(s)] <= Rank[s]
<1> DEFINE o == Owner(s)
           p == categories[o]
<1>1. /\ o \in Known(categories) /\ o \in Source /\ Norm[o] = Norm[s]
      /\ p \in Pseudonym
  BY OwnerFacts DEF MapKnown, Known, IInv, TypeOK
<1>2. CASE ~frozen /\ Rank[s] < Rank[o]
  <2>1. s # o
    BY <1>2, RankAssumption
  <2>2. /\ \A t \in Source : categories'[t] = IF t = s THEN p
                                              ELSE IF t = o THEN None ELSE categories[t]
        /\ \A q \in Pseudonym : owners'[q] = IF q = p THEN s ELSE owners[q]
        /\ \A i \in Identity :
              /\ normalizedOwners'[i] = IF i = Norm[p] THEN s ELSE normalizedOwners[i]
              /\ normalizedSources'[i] = IF i = Norm[s] THEN s ELSE normalizedSources[i]
    BY <1>1, <1>2, <2>1 DEF MapKnown, TakesOver, IInv, TypeOK
  <2>3. Enters({s}, [x \in {s} |-> p])
    BY <1>1, <1>2, <2>2, NoneAssumption DEF Enters
  <2>4. [x \in {s} |-> p] \in [{s} -> Pseudonym]
    BY <1>1
  <2> HIDE DEF o, p
  <2> QED BY <1>2, <2>3, <2>4
<1>3. CASE ~(~frozen /\ Rank[s] < Rank[o])
  BY <1>1, <1>3, RankAssumption DEF MapKnown, TakesOver
<1> QED BY <1>2, <1>3

LEMMA PendingFacts ==
    ASSUME NEW batch \in SUBSET Source, NEW s \in Pending(batch)
    PROVE  /\ s \in batch
           /\ RebuiltOwner(s) = None
           /\ \A t \in batch : Norm[t] = Norm[s] => Rank[s] <= Rank[t]
<1>1. PICK x \in batch : /\ RebuiltOwner(x) = None
                         /\ s = Preferred({t \in batch : Norm[t] = Norm[x]})
  BY DEF Pending
<1> DEFINE S == {t \in batch : Norm[t] = Norm[x]}
<1>2. S \in SUBSET Source /\ S # {}
  OBVIOUS
<1>3. s \in S /\ \A t \in S : Rank[s] <= Rank[t]
  <2> HIDE DEF S
  <2>1. s = Preferred(S)
    BY <1>1 DEF S
  <2> QED BY <1>2, <2>1, PreferredIsLeast
<1> QED BY <1>1, <1>3 DEF RebuiltOwner

\* What a batch enters is what entering its spellings one by one would.
LEMMA MapManyIsEnters ==
    ASSUME IInv, NEW batch \in SUBSET Source, MapManyOpen(batch, Pending(batch))
    PROVE  \E f \in [Pending(batch) \cup Renames(batch) -> Pseudonym] :
              Enters(Pending(batch) \cup Renames(batch), f)
<1> USE NormAssumption, NoneAssumption
<1> DEFINE pending == Pending(batch)
           renames == Renames(batch)
           entered == pending \cup renames
           f == [s \in entered |->
                   IF s \in pending THEN Candidate[s] ELSE categories[RebuiltOwner(s)]]
<1>1. \A s \in Source : RebuiltOwner(s) = Owner(s)
  BY DEF RebuiltOwner, Owner, IInv, IndexesAgree, NormalizedSourcesOf
<1>2. ASSUME NEW s \in entered
      PROVE  /\ s \in batch /\ s \in Source
             /\ \A t \in batch : Norm[t] = Norm[s] => Rank[s] <= Rank[t]
  BY PendingFacts DEF Renames
<1>3. ASSUME NEW s \in pending
      PROVE  /\ Owner(s) = None
             /\ f[s] = Candidate[s] /\ f[s] \in Pseudonym
             /\ ~Taken(f[s]) /\ Norm[f[s]] # Norm[s]
             /\ \A t \in Known(categories) : Norm[categories[t]] # Norm[f[s]]
  <2>1. s \in Source /\ Owner(s) = None
    BY <1>1, <1>2, PendingFacts
  <2>2. f[s] = Candidate[s] /\ f[s] \in Pseudonym
    BY <2>1, CandidateAssumption
  <2>3. ~RebuiltTaken(f[s]) /\ Norm[f[s]] # Norm[s]
    BY <2>2 DEF MapManyOpen, PlanCollides, PlanLeavesSource
  <2> QED BY <2>1, <2>2, <2>3, PseudonymFacts DEF RebuiltTaken, Taken
<1>4. ASSUME NEW s \in renames
      PROVE  /\ s \notin pending
             /\ Owner(s) # None /\ Owner(s) \in Known(categories) /\ Norm[Owner(s)] = Norm[s]
             /\ Rank[s] < Rank[Owner(s)]
             /\ f[s] = categories[Owner(s)] /\ f[s] \in Pseudonym
  <2>1. s \in Source /\ Owner(s) # None /\ Rank[s] < Rank[Owner(s)]
    BY <1>1 DEF Renames
  <2>2. s \notin pending
    BY <1>3, <2>1
  <2>3. Owner(s) \in Known(categories) /\ Norm[Owner(s)] = Norm[s]
    BY <2>1, OwnerFacts
  <2>4. f[s] = categories[Owner(s)]
    BY <1>1, <2>1, <2>2
  <2> QED BY <2>1, <2>2, <2>3, <2>4 DEF Known, IInv, TypeOK
<1>5. ASSUME NEW s \in entered, NEW t \in entered,
             Norm[s] = Norm[t] \/ Norm[f[s]] = Norm[f[t]]
      PROVE  s = t
  <2>1. CASE Norm[s] = Norm[t]
    BY <1>2, <2>1, RankAssumption
  <2>2. CASE Norm[f[s]] = Norm[f[t]] /\ s \in pending /\ t \in pending
    BY <1>3, <2>2 DEF MapManyOpen, PlanCollides
  <2>3. CASE Norm[f[s]] = Norm[f[t]] /\ s \in renames /\ t \in renames
    <3>1. Norm[s] = Norm[t]
      BY <1>4, <2>3 DEF IInv, ReverseUnambiguous, NoSharedPseudonym
    <3> QED BY <3>1, <2>1
  <2>4. CASE Norm[f[s]] = Norm[f[t]] /\ ~(s \in pending <=> t \in pending)
    BY <1>3, <1>4, <2>4
  <2> QED BY <1>5, <2>1, <2>2, <2>3, <2>4
<1>6. entered \in SUBSET Source /\ f \in [entered -> Pseudonym]
  BY <1>2, <1>3, <1>4
<1>7. \A s \in entered :
        IF Owner(s) = None THEN ~Taken(f[s]) /\ Norm[f[s]] # Norm[s]
        ELSE Rank[s] < Rank[Owner(s)] /\ f[s] = categories[Owner(s)]
  BY <1>3, <1>4
<1>8. \A s \in Source :
        categories'[s] = IF s \in entered THEN f[s]
                         ELSE IF \E t \in entered : Owner(t) = s THEN None
                         ELSE categories[s]
  <2>1. \A s \in Source : (\E t \in entered : Owner(t) = s)
                              <=> s \in {RebuiltOwner(t) : t \in renames}
    <3>1. ASSUME NEW s \in Source
          PROVE  (\E t \in entered : Owner(t) = s) <=> \E t \in renames : RebuiltOwner(t) = s
      <4>1. \A t \in pending : Owner(t) # s
        BY <1>3
      <4>2. \A t \in renames : t \in entered /\ RebuiltOwner(t) = Owner(t)
        BY <1>1, <1>2
      <4> HIDE DEF pending, renames
      <4> QED BY <4>1, <4>2
    <3> HIDE DEF renames, entered
    <3> QED BY <3>1
  <2>2. \A s \in Source :
          categories'[s] = IF s \in entered THEN f[s]
                           ELSE IF s \in {RebuiltOwner(t) : t \in renames} THEN None
                           ELSE categories[s]
    BY DEF MapManyOpen
  <2> QED BY <2>1, <2>2
<1>9. /\ owners' = Overlay(owners, entered, f)
      /\ normalizedOwners' = Overlay(normalizedOwners, entered, [s \in entered |-> Norm[f[s]]])
      /\ normalizedSources' = Overlay(normalizedSources, entered, Norm)
  BY DEF MapManyOpen, IInv, IndexesAgree
<1>10. /\ \A q \in Pseudonym :
             IF \E s \in entered : f[s] = q
             THEN \E s \in entered : f[s] = q /\ owners'[q] = s
             ELSE owners'[q] = owners[q]
       /\ \A i \in Identity :
             IF \E s \in entered : Norm[f[s]] = i
             THEN \E s \in entered : Norm[f[s]] = i /\ normalizedOwners'[i] = s
             ELSE normalizedOwners'[i] = normalizedOwners[i]
       /\ \A i \in Identity :
             IF \E s \in entered : Norm[s] = i
             THEN \E s \in entered : Norm[s] = i /\ normalizedSources'[i] = s
             ELSE normalizedSources'[i] = normalizedSources[i]
  <2> HIDE DEF entered, f
  <2> QED BY <1>9 DEF Overlay, IInv, TypeOK
<1>11. Enters(entered, f)
  BY <1>5, <1>7, <1>8, <1>10 DEF Enters
<1> HIDE DEF f
<1> QED BY <1>6, <1>11
----------------------------------------------------------------------------
(* The invariant is inductive *)

LEMMA InitIInv == Init => IInv
<1> SUFFICES ASSUME Init PROVE IInv
  OBVIOUS
<1> USE NormAssumption, NoneAssumption
<1>1. TypeOK
  BY InitType
<1>2. IndexesAgree
  BY DEF Init, IndexesAgree
<1>3. ReverseUnambiguous /\ HistoricalNamesReserved
  BY DEF Init, Valid, ReverseUnambiguous, HistoricalNamesReserved
<1>4. LoneSpelling /\ PreloadedKnown
  BY DEF Init, LoneSpelling, PreloadedKnown, Spellings
<1>5. FrozenSealed
  BY DEF Init, FrozenSealed
<1> QED BY <1>1, <1>2, <1>3, <1>4, <1>5 DEF IInv

LEMMA NextIInv == IInv /\ [Next]_vars => IInv'
<1> SUFFICES ASSUME IInv, [Next]_vars PROVE IInv'
  OBVIOUS
<1> USE NormAssumption, NoneAssumption
<1>1. TypeOK'
  BY NextType DEF IInv
<1>2. ASSUME NEW error, Refuse(error) PROVE IInv'
  BY <1>1, <1>2, UnchangedPreserves DEF Refuse
<1>3. ASSUME UNCHANGED <<categories, indexes>>, Answer PROVE IInv'
  BY <1>1, <1>3, UnchangedPreserves DEF Answer, store
<1>4. ASSUME NEW s \in Source, NEW p \in Pseudonym,
             ~frozen, Owner(s) = None, ~Taken(p), Norm[p] # Norm[s],
             Enter(s, p), Answer
      PROVE  IInv'
  <2>1. /\ [x \in {s} |-> p] \in [{s} -> Pseudonym]
        /\ Enters({s}, [x \in {s} |-> p])
    BY <1>4, EnterIsEnters
  <2> QED BY <1>1, <1>4, <2>1, EntersPreserves DEF Answer
<1>5. ASSUME NEW s \in Source, Map(s) PROVE IInv'
  <2>1. CASE MapKnown(s)
    <3>1. Answer
      BY <2>1 DEF MapKnown
    <3> QED BY <1>1, <1>3, <2>1, <3>1, MapKnownIsEnters, EntersPreserves DEF Answer
  <2>2. CASE MapNew(s)
    BY <1>4, <2>2, CandidateAssumption DEF MapNew
  <2>3. CASE MapRefused(s)
    BY <1>2, <2>3 DEF MapRefused
  <2> QED BY <1>5, <2>1, <2>2, <2>3 DEF Map
<1>6. ASSUME NEW s \in Source, NEW p \in Pseudonym, NEW preserve \in BOOLEAN,
             Bind(s, p, preserve)
      PROVE  IInv'
  <2>1. CASE BindSettled(s, p, preserve)
    BY <1>3, <2>1 DEF BindSettled
  <2>2. CASE Rebind(s, p, preserve)
    BY <1>1, <2>2, RebindPreserves
  <2>3. CASE BindNew(s, p, preserve)
    BY <1>4, <2>3 DEF BindNew
  <2>4. CASE BindRefused(s, p, preserve)
    BY <1>2, <2>4 DEF BindRefused
  <2> QED BY <1>6, <2>1, <2>2, <2>3, <2>4 DEF Bind
<1>7. ASSUME NEW batch \in SUBSET Source, MapMany(batch) PROVE IInv'
  <2>1. CASE MapManyOpen(batch, Pending(batch))
    <3>1. ~frozen /\ Answer
      BY <2>1 DEF MapManyOpen
    <3>2. Pending(batch) \cup Renames(batch) \in SUBSET Source
      BY PendingSubset DEF Renames
    <3> QED BY <1>1, <2>1, <3>1, <3>2, MapManyIsEnters, EntersPreserves DEF Answer
  <2>2. CASE MapManyFrozen(Pending(batch))
    BY <1>3, <2>2 DEF MapManyFrozen
  <2>3. CASE MapManyRefused(Pending(batch))
    BY <1>2, <2>3 DEF MapManyRefused
  <2> QED BY <1>7, <2>1, <2>2, <2>3 DEF MapMany
<1>8. ASSUME Freeze PROVE IInv'
  <2>1. CASE FreezeOpen
    <3>1. UNCHANGED <<categories, loaded>> /\ NoSelfMap(categories)
      BY <2>1 DEF FreezeOpen, Valid
    <3>2. IndexesAgree' /\ frozenSnapshot' = Tables'
      BY <2>1 DEF FreezeOpen, IndexesAgree, Tables
    <3> QED BY <1>1, <3>1, <3>2 DEF IInv, ReverseUnambiguous, NoSharedPseudonym,
            NoDivergentAliases, HistoricalNamesReserved, AliasesApart, LoneSpelling,
            PreloadedKnown, FrozenSealed, NoSelfMap, Known, Spellings, loaded
  <2>2. CASE FreezeAgain
    BY <1>3, <2>2 DEF FreezeAgain
  <2>3. CASE FreezeRefused
    BY <1>2, <2>3 DEF FreezeRefused
  <2> QED BY <1>8, <2>1, <2>2, <2>3 DEF Freeze
<1>9. ASSUME UNCHANGED vars PROVE IInv'
  BY <1>1, <1>9, UnchangedPreserves DEF vars
<1> QED BY <1>5, <1>6, <1>7, <1>8, <1>9 DEF Next

LEMMA Invariant == Spec => []IInv
BY InitIInv, NextIInv, PTL DEF Spec

\* The indexes kept by hand never drift from the table.
THEOREM IndexesNeverDrift == Spec => []IndexesAgree
<1>1. IInv => IndexesAgree
  BY DEF IInv
<1> QED BY <1>1, Invariant, PTL

\* Reversal of a report is unambiguous whatever the generator and the callers
\* of bind propose.
THEOREM ReversalUnambiguous == Spec => []ReverseUnambiguous
<1>1. IInv => ReverseUnambiguous
  BY DEF IInv
<1> QED BY <1>1, Invariant, PTL

\* A name of an upgraded version 1 map is never given to anybody.
THEOREM HistoryReserved == Spec => []HistoricalNamesReserved
<1>1. IInv => HistoricalNamesReserved
  BY DEF IInv
<1> QED BY <1>1, Invariant, PTL

\* A frozen registry leaves no value as it was.
THEOREM FrozenMapTransforms == Spec => []FrozenTransforms
<1>1. IInv => FrozenTransforms
  BY DEF IInv, FrozenSealed, FrozenTransforms
<1> QED BY <1>1, Invariant, PTL
----------------------------------------------------------------------------
(* What a step may not do *)

LEMMA EntersKeepsNames ==
    ASSUME IInv, TypeOK', NEW entered \in SUBSET Source, NEW f \in [entered -> Pseudonym],
           Enters(entered, f), NEW i \in Identity, Spellings(categories, i) # {}
    PROVE  NameOf(categories', i) = NameOf(categories, i)
<1> USE NormAssumption, NoneAssumption
<1>1. PICK x \in Known(categories) : Norm[x] = i
  BY DEF Spellings
<1>2. x \in Source /\ categories[x] \in Pseudonym
  BY <1>1 DEF Known, IInv, TypeOK
<1>3. \A t \in Known(categories) : Norm[t] = i => categories[t] = categories[x]
  BY <1>1 DEF IInv, ReverseUnambiguous, NoDivergentAliases
<1>4. \A s \in entered : Norm[s] = i =>
        /\ Owner(s) # None
        /\ f[s] = categories[x]
  <2> TAKE s \in entered
  <2> HAVE Norm[s] = i
  <2>1. Owner(s) # None /\ Owner(s) \in Known(categories) /\ Norm[Owner(s)] = i
    BY <1>1, OwnerFacts
  <2>2. f[s] = categories[Owner(s)]
    BY <2>1 DEF Enters
  <2> QED BY <1>3, <2>1, <2>2
<1>5. NameOf(categories, i) = {categories[x]}
  BY <1>1, <1>3 DEF NameOf, Spellings
<1>6. \A t \in Known(categories') : Norm[t] = i => categories'[t] = categories[x]
  BY <1>3, <1>4 DEF Enters, Known
<1>7. \E t \in Known(categories') : Norm[t] = i
  <2>1. CASE \E s \in entered : Norm[s] = i
    <3>1. PICK s \in entered : Norm[s] = i
      BY <2>1
    <3>2. categories'[s] = f[s] /\ s \in Source
      BY DEF Enters
    <3> QED BY <1>2, <1>4, <3>1, <3>2 DEF Known
  <2>2. CASE \A s \in entered : Norm[s] # i
    <3>1. \A s \in entered : Owner(s) # x
      BY <1>1, <1>2, <2>2, OwnerFacts
    <3>2. categories'[x] = categories[x]
      BY <1>1, <1>2, <2>2, <3>1 DEF Enters
    <3> QED BY <1>1, <1>2, <3>2 DEF Known
  <2> QED BY <2>1, <2>2
<1>8. NameOf(categories', i) = {categories[x]}
  BY <1>6, <1>7 DEF NameOf, Spellings
<1> QED BY <1>5, <1>8

\* What a step can be: spellings entered, the name of one SID of this run
\* corrected, the registry frozen, or a call that moves nothing.
Entering ==
    /\ ~frozen
    /\ UNCHANGED <<loaded, frozen>>
    /\ \E entered \in SUBSET Source :
          \E f \in [entered -> Pseudonym] : Enters(entered, f)

Correcting ==
    \E s \in Source, p \in Pseudonym, preserve \in BOOLEAN :
        Arcs[s] # <<>> /\ Rebind(s, p, preserve)

Still == UNCHANGED <<categories, indexes, frozen, loaded>>

LEMMA StepShape ==
    ASSUME IInv, [Next]_vars
    PROVE  Entering \/ Correcting \/ FreezeOpen \/ Still
<1> USE NormAssumption, NoneAssumption, CandidateAssumption
<1>1. ASSUME NEW error, Refuse(error) PROVE Still
  BY <1>1 DEF Refuse, store, Still
<1>2. ASSUME NEW s \in Source, NEW p \in Pseudonym, Answer,
             ~frozen, Owner(s) = None, ~Taken(p), Norm[p] # Norm[s], Enter(s, p)
      PROVE  Entering
  <2>1. /\ [x \in {s} |-> p] \in [{s} -> Pseudonym]
        /\ Enters({s}, [x \in {s} |-> p])
    BY <1>2, EnterIsEnters
  <2> QED BY <1>2, <2>1 DEF Entering, Answer
<1>3. ASSUME UNCHANGED <<categories, indexes>>, Answer PROVE Still
  BY <1>3 DEF Answer, Still
<1>4. ASSUME NEW s \in Source, Map(s) PROVE Entering \/ Still
  <2>1. CASE MapKnown(s)
    <3>1. Answer
      BY <2>1 DEF MapKnown
    <3>2. CASE ~frozen /\ \E f \in [{s} -> Pseudonym] : Enters({s}, f)
      BY <3>1, <3>2 DEF Entering, Answer
    <3> QED BY <1>3, <2>1, <3>1, <3>2, MapKnownIsEnters
  <2>2. CASE MapNew(s)
    BY <1>2, <2>2 DEF MapNew
  <2>3. CASE MapRefused(s)
    BY <1>1, <2>3 DEF MapRefused
  <2> QED BY <1>4, <2>1, <2>2, <2>3 DEF Map
<1>5. ASSUME NEW s \in Source, NEW p \in Pseudonym, NEW preserve \in BOOLEAN,
             Arcs[s] # <<>>, Bind(s, p, preserve)
      PROVE  Entering \/ Correcting \/ Still
  <2>1. CASE BindSettled(s, p, preserve)
    BY <1>3, <2>1 DEF BindSettled
  <2>2. CASE Rebind(s, p, preserve)
    BY <1>5, <2>2 DEF Correcting
  <2>3. CASE BindNew(s, p, preserve)
    BY <1>2, <2>3 DEF BindNew
  <2>4. CASE BindRefused(s, p, preserve)
    BY <1>1, <2>4 DEF BindRefused
  <2> QED BY <1>5, <2>1, <2>2, <2>3, <2>4 DEF Bind
<1>6. ASSUME NEW batch \in SUBSET Source, MapMany(batch) PROVE Entering \/ Still
  <2>1. CASE MapManyOpen(batch, Pending(batch))
    <3>1. ~frozen /\ Answer
      BY <2>1 DEF MapManyOpen
    <3>2. Pending(batch) \cup Renames(batch) \in SUBSET Source
      BY PendingSubset DEF Renames
    <3> QED BY <2>1, <3>1, <3>2, MapManyIsEnters DEF Entering, Answer
  <2>2. CASE MapManyFrozen(Pending(batch))
    BY <1>3, <2>2 DEF MapManyFrozen
  <2>3. CASE MapManyRefused(Pending(batch))
    BY <1>1, <2>3 DEF MapManyRefused
  <2> QED BY <1>6, <2>1, <2>2, <2>3 DEF MapMany
<1>7. ASSUME Freeze PROVE FreezeOpen \/ Still
  BY <1>1, <1>3, <1>7 DEF Freeze, FreezeAgain, FreezeRefused
<1>8. ASSUME UNCHANGED vars PROVE Still
  BY <1>8 DEF vars, store, Still
<1> QED BY <1>4, <1>5, <1>6, <1>7, <1>8 DEF Next

LEMMA RebindKeepsOthers ==
    ASSUME IInv, NEW s \in Source, NEW p \in Pseudonym, NEW preserve,
           Rebind(s, p, preserve), NEW i \in Identity, i # Norm[s]
    PROVE  NameOf(categories', i) = NameOf(categories, i)
<1> USE NormAssumption, NoneAssumption
<1>1. Owner(s) # None /\ Owner(s) \in Known(categories) /\ Norm[Owner(s)] = Norm[s]
  BY OwnerFacts DEF Rebind
<1>2. \A t \in Source : Norm[t] = i => categories'[t] = categories[t]
  BY <1>1 DEF Rebind, Move, IInv, TypeOK
<1>3. Spellings(categories', i) = Spellings(categories, i)
  BY <1>2 DEF Spellings, Known
<1> QED BY <1>2, <1>3 DEF NameOf, Spellings, Known

\* --reuse-map keeps its promise: whatever a run does, nothing the loaded map
\* named is renamed or forgotten.
THEOREM ReuseStable == Spec => PreloadedStable
<1>1. IInv /\ [Next]_vars =>
        [\A i \in preloadedSources : NameOf(categories', i) = NameOf(categories, i)]_vars
  <2> SUFFICES ASSUME IInv, [Next]_vars, NEW i \in preloadedSources
               PROVE  NameOf(categories', i) = NameOf(categories, i)
    OBVIOUS
  <2>1. i \in Identity /\ Spellings(categories, i) # {} /\ TypeOK'
    BY NextType DEF IInv, TypeOK, PreloadedKnown
  <2>2. ASSUME NEW s \in Source, NEW p \in Pseudonym, NEW preserve, Rebind(s, p, preserve)
        PROVE  NameOf(categories', i) = NameOf(categories, i)
    <3>1. i # Norm[s]
      BY <2>2 DEF Rebind, Correctable
    <3> QED BY <2>1, <2>2, <3>1, RebindKeepsOthers
  <2>3. CASE FreezeOpen \/ Still
    BY <2>3 DEF FreezeOpen, Still, NameOf, Spellings, Known
  <2>4. CASE Entering
    BY <2>1, <2>4, EntersKeepsNames DEF Entering
  <2> QED BY <2>2, <2>3, <2>4, StepShape DEF Correcting
<1> QED BY <1>1, Invariant, PTL DEF Spec, PreloadedStable

\* The pseudonym of a value that is not a SID is decided once.
THEOREM AnswersNeverChange == Spec => AnswersStand
<1>1. IInv /\ [Next]_vars =>
        [\A s \in Known(categories) : Arcs[s] = <<>> =>
            NameOf(categories', Norm[s]) = NameOf(categories, Norm[s])]_vars
  <2> SUFFICES ASSUME IInv, [Next]_vars, NEW s \in Known(categories), Arcs[s] = <<>>
               PROVE  NameOf(categories', Norm[s]) = NameOf(categories, Norm[s])
    OBVIOUS
  <2>1. /\ Norm[s] \in Identity /\ s \in Source
        /\ Spellings(categories, Norm[s]) # {} /\ TypeOK'
    BY NextType, NormAssumption DEF IInv, Known, Spellings
  <2>2. ASSUME NEW t \in Source, NEW p \in Pseudonym, NEW preserve,
               Arcs[t] # <<>>, Rebind(t, p, preserve)
        PROVE  NameOf(categories', Norm[s]) = NameOf(categories, Norm[s])
    <3>1. Norm[s] # Norm[t]
      BY <2>1, <2>2, ArcsAssumption
    <3> QED BY <2>1, <2>2, <3>1, RebindKeepsOthers
  <2>3. CASE FreezeOpen \/ Still
    BY <2>3 DEF FreezeOpen, Still, NameOf, Spellings, Known
  <2>4. CASE Entering
    BY <2>1, <2>4, EntersKeepsNames DEF Entering
  <2> QED BY <2>2, <2>3, <2>4, StepShape DEF Correcting
<1> QED BY <1>1, Invariant, PTL DEF Spec, AnswersStand

\* After freeze no call moves a table, whatever it answers: what verification
\* looks up is what the transform wrote.
THEOREM FreezeSeals == Spec => FrozenImmutable
<1>1. [Next]_vars => [frozen => UNCHANGED store]_vars
  <2> SUFFICES ASSUME [Next]_vars, frozen PROVE UNCHANGED store
    OBVIOUS
  <2>1. ASSUME NEW s \in Source, Map(s) PROVE UNCHANGED store
    BY <2>1 DEF Map, MapKnown, TakesOver, MapNew, MapRefused, Refuse, Answer, store, indexes
  <2>2. ASSUME NEW s \in Source, NEW p \in Pseudonym, NEW preserve \in BOOLEAN,
               Bind(s, p, preserve)
        PROVE  UNCHANGED store
    BY <2>2 DEF Bind, BindSettled, Rebind, Correctable, BindNew, BindRefused, Refuse, Answer, store, indexes
  <2>3. ASSUME NEW batch \in SUBSET Source, MapMany(batch) PROVE UNCHANGED store
    BY <2>3 DEF MapMany, MapManyOpen, MapManyFrozen, MapManyRefused, Refuse, Answer,
       store, indexes
  <2>4. ASSUME Freeze PROVE UNCHANGED store
    BY <2>4 DEF Freeze, FreezeOpen, FreezeAgain, FreezeRefused, Refuse, Answer, store, indexes
  <2>5. ASSUME UNCHANGED vars PROVE UNCHANGED store
    BY <2>5 DEF vars
  <2> QED BY <2>1, <2>2, <2>3, <2>4, <2>5 DEF Next
<1> QED BY <1>1, PTL DEF Spec, FrozenImmutable
----------------------------------------------------------------------------
(* The owning spelling *)

\* What map owes a spelling it answered: an owner ranked at or before it.
Answered(s) == Owner(s) # None /\ Rank[Owner(s)] <= Rank[s]

\* A step that enters spellings makes each the owner of its identity and only
\* ever lowers the rank of an owner.
LEMMA EntersLowersOwners ==
    ASSUME IInv, NEW entered \in SUBSET Source, NEW f \in [entered -> Pseudonym],
           Enters(entered, f)
    PROVE  /\ \A s \in entered : Owner(s)' = s
           /\ \A s \in Source : Answered(s) => Answered(s)'
<1> USE NormAssumption, NoneAssumption, RankAssumption
<1>1. ASSUME NEW s \in Source, NEW t \in entered, Norm[t] = Norm[s]
      PROVE  Owner(s)' = t
  <2>1. PICK x \in entered : Norm[x] = Norm[s] /\ normalizedSources'[Norm[s]] = x
    BY <1>1 DEF Enters
  <2>2. x = t
    BY <1>1, <2>1 DEF Enters
  <2> QED BY <2>1, <2>2 DEF Owner
<1>2. \A s \in entered : Owner(s)' = s
  BY <1>1
<1>3. ASSUME NEW s \in Source, Answered(s) PROVE Answered(s)'
  <2>1. /\ Owner(s) # None /\ Owner(s) \in Source /\ Norm[Owner(s)] = Norm[s]
        /\ Rank[Owner(s)] <= Rank[s]
    BY <1>3, OwnerFacts DEF Answered, Known
  <2>2. CASE \E t \in entered : Norm[t] = Norm[s]
    <3>1. PICK t \in entered : Norm[t] = Norm[s]
      BY <2>2
    <3>2. Owner(s)' = t
      BY <1>1, <3>1
    <3>3. Owner(t) = Owner(s)
      BY <3>1 DEF Owner
    <3>4. Rank[t] < Rank[Owner(s)]
      BY <2>1, <3>3 DEF Enters
    <3>5. Rank[t] \in Nat /\ Rank[Owner(s)] \in Nat /\ Rank[s] \in Nat
      BY <2>1
    <3>6. Rank[t] <= Rank[s]
      BY <2>1, <3>4, <3>5
    <3> QED BY <3>2, <3>6 DEF Answered
  <2>3. CASE ~\E t \in entered : Norm[t] = Norm[s]
    <3>1. Owner(s)' = Owner(s)
      BY <2>3 DEF Enters, Owner
    <3> QED BY <2>1, <3>1 DEF Answered
  <2> QED BY <2>2, <2>3
<1> QED BY <1>2, <1>3

LEMMA StillKeepsAnswered ==
    ASSUME UNCHANGED indexes, NEW s \in Source, Answered(s)
    PROVE  Answered(s)'
BY DEF Answered, Owner, indexes

\* A batch answers every one of its spellings: the one it enters for an
\* identity is the least of the batch.
LEMMA BatchAnswered ==
    ASSUME IInv, NEW batch \in SUBSET Source, MapManyOpen(batch, Pending(batch)),
           NEW s \in batch
    PROVE  Answered(s)'
<1> USE NormAssumption, NoneAssumption, RankAssumption
<1> DEFINE entered == Pending(batch) \cup Renames(batch)
           S == {t \in batch : Norm[t] = Norm[s]}
<1>1. PICK f \in [entered -> Pseudonym] : Enters(entered, f)
  BY MapManyIsEnters
<1>2. entered \in SUBSET Source
  BY PendingSubset DEF Renames
<1>3. /\ \A t \in entered : Owner(t)' = t
      /\ \A t \in Source : Answered(t) => Answered(t)'
  <2> HIDE DEF entered
  <2> QED BY <1>1, <1>2, EntersLowersOwners
<1>4. PICK least \in S : \A t \in S : Rank[least] <= Rank[t]
  <2>1. S \in SUBSET Source /\ S # {}
    OBVIOUS
  <2> HIDE DEF S
  <2> QED BY <2>1, PreferredIsLeast
<1>5. ASSUME least \in entered PROVE Answered(s)'
  <2>1. Owner(s)' = least
    BY <1>3, <1>5 DEF Owner
  <2> QED BY <1>4, <2>1 DEF Answered
<1>6. RebuiltOwner(s) = Owner(s)
  BY DEF RebuiltOwner, Owner, IInv, IndexesAgree, NormalizedSourcesOf
<1>7. CASE Owner(s) = None
  <2>1. S \in SUBSET Source /\ S # {}
    OBVIOUS
  <2>2. Preferred(S) = least
    <3> HIDE DEF S
    <3>1. Preferred(S) \in S /\ \A t \in S : Rank[Preferred(S)] <= Rank[t]
      BY <2>1, PreferredIsLeast
    <3>2. Rank[Preferred(S)] \in Nat /\ Rank[least] \in Nat
      BY <2>1, <3>1
    <3>3. Rank[Preferred(S)] = Rank[least]
      BY <1>4, <3>1, <3>2
    <3> QED BY <1>4, <2>1, <3>1, <3>3
  <2>3. least \in Pending(batch)
    BY <1>6, <1>7, <2>2 DEF Pending
  <2> QED BY <1>5, <2>3
<1>8. CASE Owner(s) # None /\ Rank[Owner(s)] <= Rank[s]
  BY <1>3, <1>8 DEF Answered
<1>9. CASE Owner(s) # None /\ ~(Rank[Owner(s)] <= Rank[s])
  <2>1. Owner(s) \in Source
    BY <1>9, OwnerFacts DEF Known
  <2>2. RebuiltOwner(least) = Owner(s)
    BY <1>6 DEF RebuiltOwner
  <2>3. Rank[least] \in Nat /\ Rank[s] \in Nat /\ Rank[Owner(s)] \in Nat
    BY <2>1
  <2>4. Rank[least] < Rank[Owner(s)]
    BY <1>4, <1>9, <2>3
  <2>5. \A t \in batch : Norm[t] = Norm[least] => Rank[least] <= Rank[t]
    BY <1>4
  <2>6. least \in Renames(batch)
    BY <1>9, <2>2, <2>4, <2>5 DEF Renames
  <2> QED BY <1>5, <2>6
<1> QED BY <1>7, <1>8, <1>9

LEMMA NextSpellingOrderFree ==
    IInv /\ SpellingOrderFree /\ [Next]_vars => SpellingOrderFree'
<1> SUFFICES ASSUME IInv, SpellingOrderFree, [Next]_vars PROVE SpellingOrderFree'
  OBVIOUS
<1> USE NormAssumption, NoneAssumption, RankAssumption
<1>1. \A s \in asked : s \in Source /\ Answered(s)
  BY DEF SpellingOrderFree, Answered, IInv, TypeOK
<1>2. ASSUME NEW new, asked' \subseteq asked \cup new,
             \A s \in Source : Answered(s) => Answered(s)',
             \A s \in new : Answered(s)'
      PROVE  SpellingOrderFree'
  BY <1>1, <1>2 DEF SpellingOrderFree, Answered
<1>3. ASSUME UNCHANGED asked, \A s \in Source : Answered(s) => Answered(s)'
      PROVE  SpellingOrderFree'
  BY <1>1, <1>3 DEF SpellingOrderFree, Answered
<1>4. ASSUME UNCHANGED <<indexes, asked>> PROVE SpellingOrderFree'
  BY <1>3, <1>4, StillKeepsAnswered
<1>5. ASSUME NEW error, Refuse(error) PROVE SpellingOrderFree'
  BY <1>4, <1>5 DEF Refuse, store
<1>6. ASSUME NEW s \in Source, Map(s) PROVE SpellingOrderFree'
  <2>1. CASE MapKnown(s)
    <3>1. asked' = IF frozen THEN asked ELSE asked \cup {s}
      BY <2>1 DEF MapKnown
    <3>2. CASE ~frozen /\ \E f \in [{s} -> Pseudonym] : Enters({s}, f)
      <4>1. Owner(s)' = s /\ \A t \in Source : Answered(t) => Answered(t)'
        BY <3>2, EntersLowersOwners
      <4>2. Answered(s)'
        BY <4>1 DEF Answered
      <4> QED BY <1>2, <3>1, <3>2, <4>1, <4>2
    <3>3. CASE UNCHANGED <<categories, indexes>> /\ frozen
      BY <1>4, <3>1, <3>3
    <3>4. CASE UNCHANGED <<categories, indexes>> /\ Rank[Owner(s)] <= Rank[s] /\ ~frozen
      <4>1. Answered(s)
        BY <2>1, <3>4 DEF MapKnown, Answered
      <4>2. \A t \in Source : Answered(t) => Answered(t)'
        BY <3>4, StillKeepsAnswered
      <4>3. \A t \in {s} : Answered(t)'
        BY <4>1, <4>2
      <4>4. asked' \subseteq asked \cup {s}
        BY <3>1
      <4> QED BY <1>2, <4>2, <4>3, <4>4
    <3> QED BY <2>1, <3>2, <3>3, <3>4, MapKnownIsEnters
  <2>2. CASE MapNew(s)
    <3>1. PICK f \in [{s} -> Pseudonym] : Enters({s}, f)
      BY <2>2, EnterIsEnters, CandidateAssumption DEF MapNew
    <3>2. Owner(s)' = s /\ \A t \in Source : Answered(t) => Answered(t)'
      BY <3>1, EntersLowersOwners
    <3>3. Answered(s)'
      BY <3>2 DEF Answered
    <3> QED BY <1>2, <2>2, <3>2, <3>3 DEF MapNew
  <2>3. CASE MapRefused(s)
    BY <1>5, <2>3 DEF MapRefused
  <2> QED BY <1>6, <2>1, <2>2, <2>3 DEF Map
<1>7. ASSUME NEW s \in Source, NEW p \in Pseudonym, NEW preserve \in BOOLEAN,
             Bind(s, p, preserve)
      PROVE  SpellingOrderFree'
  <2>1. CASE BindSettled(s, p, preserve)
    BY <1>4, <2>1 DEF BindSettled
  <2>2. CASE Rebind(s, p, preserve)
    <3>1. UNCHANGED <<normalizedSources, asked>>
      BY <2>2 DEF Rebind
    <3>2. \A t \in Source : Answered(t) => Answered(t)'
      BY <3>1 DEF Answered, Owner
    <3> QED BY <1>3, <3>1, <3>2
  <2>3. CASE BindNew(s, p, preserve)
    <3>1. PICK f \in [{s} -> Pseudonym] : Enters({s}, f)
      BY <2>3, EnterIsEnters DEF BindNew
    <3>2. \A t \in Source : Answered(t) => Answered(t)'
      BY <3>1, EntersLowersOwners
    <3> QED BY <1>3, <2>3, <3>2 DEF BindNew
  <2>4. CASE BindRefused(s, p, preserve)
    BY <1>5, <2>4 DEF BindRefused
  <2> QED BY <1>7, <2>1, <2>2, <2>3, <2>4 DEF Bind
<1>8. ASSUME NEW batch \in SUBSET Source, MapMany(batch) PROVE SpellingOrderFree'
  <2>1. CASE MapManyOpen(batch, Pending(batch))
    <3> DEFINE entered == Pending(batch) \cup Renames(batch)
    <3>1. PICK f \in [entered -> Pseudonym] : Enters(entered, f)
      BY <2>1, MapManyIsEnters
    <3>2. entered \in SUBSET Source
      BY PendingSubset DEF Renames
    <3>3. \A t \in Source : Answered(t) => Answered(t)'
      <4> HIDE DEF entered
      <4> QED BY <3>1, <3>2, EntersLowersOwners
    <3>4. \A s \in batch : Answered(s)'
      BY <2>1, BatchAnswered
    <3> QED BY <1>2, <2>1, <3>3, <3>4 DEF MapManyOpen
  <2>2. CASE MapManyFrozen(Pending(batch))
    BY <1>4, <2>2 DEF MapManyFrozen
  <2>3. CASE MapManyRefused(Pending(batch))
    BY <1>5, <2>3 DEF MapManyRefused
  <2> QED BY <1>8, <2>1, <2>2, <2>3 DEF MapMany
<1>9. ASSUME Freeze PROVE SpellingOrderFree'
  <2>1. CASE FreezeOpen
    \* A rebuild from the table gives the index that was there.
    <3>1. UNCHANGED <<normalizedSources, asked>>
      BY <2>1 DEF FreezeOpen, IInv, IndexesAgree
    <3>2. \A t \in Source : Answered(t) => Answered(t)'
      BY <3>1 DEF Answered, Owner
    <3> QED BY <1>3, <3>1, <3>2
  <2>2. CASE FreezeAgain
    BY <1>4, <2>2 DEF FreezeAgain
  <2>3. CASE FreezeRefused
    BY <1>5, <2>3 DEF FreezeRefused
  <2> QED BY <1>9, <2>1, <2>2, <2>3 DEF Freeze
<1>10. ASSUME UNCHANGED vars PROVE SpellingOrderFree'
  BY <1>4, <1>10 DEF vars, store
<1> QED BY <1>6, <1>7, <1>8, <1>9, <1>10 DEF Next

\* Whatever order spellings are seen in, one at a time or in batches, the owner
\* of an identity ranks at or before every spelling map was asked about.
THEOREM OwnerOrderFree == Spec => []SpellingOrderFree
<1>1. Init => SpellingOrderFree
  BY DEF Init, SpellingOrderFree
<1> QED BY <1>1, NextSpellingOrderFree, Invariant, PTL DEF Spec
----------------------------------------------------------------------------
(* The registry implements the partial injective assignment of             *)
(* PseudonymStore: its initial states are initial states of the store and  *)
(* each call is one step of it, or none. The mapping is Assigned, defined  *)
(* beside the registry.                                                    *)

\* Assigned, of any table and any source index.
AssignedBy(c, m) ==
    [i \in Identity |-> IF m[i] = None THEN None ELSE Norm[c[m[i]]]]

\* What an assignment read through an index that agrees with its table says:
\* every known spelling is named by its own pseudonym, nothing else is named.
LEMMA NamesOfTable ==
    ASSUME NEW c \in [Source -> Pseudonym \cup {None}],
           NEW m \in [Identity -> Source \cup {None}],
           m = NormalizedSourcesOf(c), NoDivergentAliases(c)
    PROVE  /\ AssignedBy(c, m) \in [Identity -> Identity \cup {None}]
           /\ \A s \in Known(c) : /\ AssignedBy(c, m)[Norm[s]] = Norm[c[s]]
                                  /\ Norm[s] \in Identity
                                  /\ Norm[c[s]] \in Identity
           /\ \A i \in Identity : AssignedBy(c, m)[i] # None =>
                 \E s \in Known(c) : Norm[s] = i
<1> USE NormAssumption, NoneAssumption
<1>1. \A i \in Identity : Owns(m[i], Spellings(c, i))
  <2>1. \A i \in Identity : Spellings(c, i) \in SUBSET Source
    BY DEF Spellings, Known
  <2> QED BY <2>1, OwnsIsPreferred DEF NormalizedSourcesOf
<1>2. ASSUME NEW i \in Identity, m[i] # None
      PROVE  m[i] \in Known(c) /\ Norm[m[i]] = i
  BY <1>1, <1>2 DEF Owns, Spellings
<1>3. ASSUME NEW s \in Known(c)
      PROVE  /\ Norm[s] \in Identity /\ Norm[c[s]] \in Identity
             /\ m[Norm[s]] # None
             /\ c[m[Norm[s]]] = c[s]
  <2>1. s \in Source /\ c[s] \in Pseudonym
    BY DEF Known
  <2>2. Norm[s] \in Identity /\ Norm[c[s]] \in Identity
    BY <2>1
  <2>3. s \in Spellings(c, Norm[s])
    BY DEF Spellings
  <2>4. m[Norm[s]] \in Spellings(c, Norm[s])
    BY <1>1, <2>2, <2>3 DEF Owns
  <2>5. m[Norm[s]] \in Known(c) /\ Norm[m[Norm[s]]] = Norm[s] /\ m[Norm[s]] \in Source
    BY <2>4 DEF Spellings, Known
  <2> QED BY <2>2, <2>5 DEF NoDivergentAliases
<1>4. \A i \in Identity : m[i] # None => Norm[c[m[i]]] \in Identity
  BY <1>2, <1>3
<1> QED BY <1>2, <1>3, <1>4 DEF AssignedBy

\* The three promises of the store are the three checks of the table.
LEMMA PromisesOfTable ==
    ASSUME NEW c \in [Source -> Pseudonym \cup {None}],
           NEW m \in [Identity -> Source \cup {None}],
           m = NormalizedSourcesOf(c), NoDivergentAliases(c)
    PROVE  /\ NoSharedPseudonym(c) => Store!Injective(AssignedBy(c, m))
           /\ AliasesApart(c) => Store!AvoidsReserved(AssignedBy(c, m))
           /\ NoSelfMap(c) => Store!NoFixedPoint(AssignedBy(c, m))
<1> USE NoneAssumption
<1> DEFINE a == AssignedBy(c, m)
<1>1. /\ \A s \in Known(c) : a[Norm[s]] = Norm[c[s]]
      /\ \A i \in Identity : a[i] # None => \E s \in Known(c) : Norm[s] = i
  BY NamesOfTable
<1> HIDE DEF a
<1>2. NoSharedPseudonym(c) => Store!Injective(a)
  <2> SUFFICES ASSUME NoSharedPseudonym(c), NEW i \in Identity, NEW j \in Identity,
                      a[i] # None, a[i] = a[j]
               PROVE  i = j
    BY DEF Store!Injective
  <2>1. PICK s \in Known(c), t \in Known(c) : Norm[s] = i /\ Norm[t] = j
    BY <1>1
  <2> QED BY <1>1, <2>1 DEF NoSharedPseudonym
<1>3. AliasesApart(c) => Store!AvoidsReserved(a)
  BY <1>1 DEF AliasesApart, Store!AvoidsReserved
<1>4. NoSelfMap(c) => Store!NoFixedPoint(a)
  BY <1>1 DEF NoSelfMap, Store!NoFixedPoint
<1> QED BY <1>2, <1>3, <1>4 DEF a

LEMMA AssignedNow ==
    /\ Assigned = AssignedBy(categories, normalizedSources)
    /\ Assigned' = AssignedBy(categories', normalizedSources')
BY DEF Assigned, AssignedBy

\* NamesOfTable and PromisesOfTable at the state before a call and after it.
LEMMA AssignedFacts ==
    ASSUME IInv
    PROVE  /\ Assigned \in [Identity -> Identity \cup {None}]
           /\ \A s \in Known(categories) : Assigned[Norm[s]] = Norm[categories[s]]
           /\ \A i \in Identity : Assigned[i] # None =>
                 \E s \in Known(categories) : Norm[s] = i
BY AssignedNow, NamesOfTable DEF IInv, TypeOK, IndexesAgree, ReverseUnambiguous

LEMMA AssignedAfter ==
    ASSUME IInv', UNCHANGED loaded
    PROVE  /\ Assigned' \in [Identity -> Identity \cup {None}]
           /\ \A s \in Known(categories') : Assigned'[Norm[s]] = Norm[categories'[s]]
           /\ \A i \in Identity : Assigned'[i] # None =>
                 \E s \in Known(categories') : Norm[s] = i
           /\ Store!Injective(Assigned')
           /\ Store!AvoidsReserved(Assigned')
<1>1. /\ categories' \in [Source -> Pseudonym \cup {None}]
      /\ normalizedSources' \in [Identity -> Source \cup {None}]
      /\ normalizedSources' = NormalizedSourcesOf(categories')
      /\ NoDivergentAliases(categories') /\ NoSharedPseudonym(categories')
  BY DEF IInv, TypeOK, IndexesAgree, ReverseUnambiguous
<1>2. AliasesApart(categories')
  BY DEF IInv, HistoricalNamesReserved, AliasesApart, loaded
<1> QED BY <1>1, <1>2, AssignedNow, NamesOfTable, PromisesOfTable
----------------------------------------------------------------------------
(* Initial states *)

LEMMA InitRefines == Init => Store!Init
<1> SUFFICES ASSUME Init PROVE Store!Init
  OBVIOUS
<1> USE NormAssumption, NoneAssumption
<1>1. IInv
  BY InitIInv
<1>2. /\ Store!Injective(Assigned)
      /\ Store!AvoidsReserved(Assigned)
      /\ Store!NoFixedPoint(Assigned)
  BY AssignedNow, PromisesOfTable, <1>1 DEF Init, Valid, IInv, TypeOK
<1>3. Store!TypeOK
  BY <1>1, AssignedFacts DEF IInv, TypeOK, Store!TypeOK
<1>4. preloadedSources = {i \in Identity : Assigned[i] # None}
  <2>1. \A s \in Known(categories) :
          Norm[s] \in Identity /\ Norm[categories[s]] \in Identity
    BY <1>1 DEF Known, IInv, TypeOK
  <2> QED BY <1>1, <2>1, AssignedFacts DEF Init
<1> QED BY <1>2, <1>3, <1>4 DEF Init, Store!Init
----------------------------------------------------------------------------
(* Steps *)

\* Whatever entered the spellings, the store sees new names only.
LEMMA EnteringAssigns == ASSUME IInv, IInv', Entering PROVE Store!Assign
<1> USE NormAssumption, NoneAssumption
<1>0. PICK entered \in SUBSET Source :
        \E f \in [entered -> Pseudonym] : Enters(entered, f)
  BY DEF Entering
<1>1. PICK f \in [entered -> Pseudonym] : Enters(entered, f)
  BY <1>0
<1>2. UNCHANGED loaded /\ ~frozen /\ TypeOK' /\ UNCHANGED frozen
  BY DEF Entering, IInv
<1>3. ASSUME NEW i \in Identity, Assigned[i] = None PROVE Assigned'[i] # i
  <2> SUFFICES ASSUME Assigned'[i] # None PROVE Assigned'[i] # i
    OBVIOUS
  <2>1. PICK s \in Known(categories') : Norm[s] = i
    BY <1>2, AssignedAfter
  <2>2. Assigned'[i] = Norm[categories'[s]] /\ s \in Source
    BY <1>2, <2>1, AssignedAfter DEF Known
  <2>3. \A t \in Known(categories) : Norm[t] # i
    <3> SUFFICES ASSUME NEW t \in Known(categories), Norm[t] = i PROVE FALSE
      OBVIOUS
    <3>1. categories[t] \in Pseudonym
      BY DEF Known, IInv, TypeOK
    <3> QED BY <1>3, <3>1, AssignedFacts
  <2>4. s \in entered /\ categories'[s] = f[s]
    BY <1>1, <2>1, <2>2, <2>3 DEF Enters, Known
  <2>5. Owner(s) = None
    BY <2>1, <2>2, <2>3, OwnerFacts
  <2>6. Norm[f[s]] # Norm[s]
    BY <1>1, <2>4, <2>5 DEF Enters
  <2> QED BY <2>1, <2>2, <2>4, <2>6
<1>4. ASSUME NEW i \in Identity, Assigned[i] # None PROVE Assigned'[i] = Assigned[i]
  <2>1. PICK s \in Known(categories) : Norm[s] = i
    BY <1>4, AssignedFacts
  <2>2. NameOf(categories', i) = NameOf(categories, i)
    BY <1>1, <1>2, <2>1, EntersKeepsNames DEF Spellings
  <2>3. PICK t \in Known(categories') : Norm[t] = i /\ categories'[t] = categories[s]
    BY <2>1, <2>2 DEF NameOf, Spellings
  <2> QED BY <1>2, <2>1, <2>3, AssignedFacts, AssignedAfter
<1>5. Store!Extends(Assigned', Assigned)
  BY <1>3, <1>4 DEF Store!Extends
<1> QED BY <1>2, <1>5, AssignedAfter DEF Store!Assign, loaded

\* A correction of bind is a correction of the store: of a SID, of this run.
LEMMA CorrectingCorrects ==
    ASSUME IInv, IInv', Correcting
    PROVE  \E i, name \in Identity : Store!Correct(i, name)
<1> USE NormAssumption, NoneAssumption
<1>1. PICK s \in Source, p \in Pseudonym, preserve \in BOOLEAN :
        Arcs[s] # <<>> /\ Rebind(s, p, preserve)
  BY DEF Correcting
<1>2. /\ Owner(s) # None /\ Norm[s] \notin preloadedSources /\ ~frozen
      /\ categories' = [categories EXCEPT ![Owner(s)] = p]
      /\ UNCHANGED <<normalizedSources, loaded, frozen>>
  BY <1>1 DEF Rebind, Correctable, Move, Answer
<1>3. /\ Owner(s) \in Source /\ categories[Owner(s)] # None /\ Norm[Owner(s)] = Norm[s]
      /\ Norm[s] \in Identity /\ Norm[p] \in Identity
  BY <1>2, OwnerFacts DEF Known
<1>4. \A i \in Identity : normalizedSources[i] # None =>
        /\ normalizedSources[i] \in Source
        /\ Norm[normalizedSources[i]] = i
  BY AgreeIsOwns DEF IInv, Owns, Spellings, Known
<1>5. \A i \in Identity :
        Assigned'[i] = IF i = Norm[s] THEN Norm[p] ELSE Assigned[i]
  BY <1>2, <1>3, <1>4 DEF Assigned, Owner, IInv, TypeOK
<1>6. Assigned' = [Assigned EXCEPT ![Norm[s]] = Norm[p]]
  BY <1>5 DEF Assigned
<1>7. Assigned[Norm[s]] # None
  BY <1>2, <1>3, AssignedFacts DEF Known, IInv, TypeOK
<1>8. Norm[s] \in {Norm[x] : x \in {t \in Source : Arcs[t] # <<>>}}
  BY <1>1
<1>9. Store!Correct(Norm[s], Norm[p])
  BY <1>2, <1>6, <1>7, <1>8, AssignedAfter DEF Store!Correct, loaded
<1> QED BY <1>3, <1>9

\* freeze rebuilds every index from the table and seals what was there.
LEMMA FreezingSeals == ASSUME IInv, FreezeOpen PROVE Store!Seal
<1>1. UNCHANGED <<categories, normalizedSources, loaded>> /\ ~frozen /\ frozen' = TRUE
  BY DEF FreezeOpen, IInv, IndexesAgree
<1>2. Assigned' = Assigned
  BY <1>1 DEF Assigned
<1>3. NoSelfMap(categories)
  BY DEF FreezeOpen, Valid
<1>4. Store!NoFixedPoint(Assigned)
  BY <1>3, AssignedNow, PromisesOfTable DEF IInv, TypeOK, IndexesAgree, ReverseUnambiguous
<1> QED BY <1>1, <1>2, <1>4 DEF Store!Seal, loaded

LEMMA NextRefines ==
    IInv /\ IInv' /\ [Next]_vars => [Store!Next]_(Store!vars)
<1> SUFFICES ASSUME IInv, IInv', [Next]_vars PROVE Store!Next \/ UNCHANGED Store!vars
  OBVIOUS
<1>1. CASE Entering
  BY <1>1, EnteringAssigns DEF Store!Next
<1>2. CASE Correcting
  BY <1>2, CorrectingCorrects DEF Store!Next
<1>3. CASE FreezeOpen
  BY <1>3, FreezingSeals DEF Store!Next
<1>4. CASE Still
  <2>1. UNCHANGED <<categories, normalizedSources, frozen, loaded>>
    BY <1>4 DEF Still, indexes
  <2> QED BY <2>1 DEF Assigned, Store!vars, loaded
<1> QED BY <1>1, <1>2, <1>3, <1>4, StepShape

\* The registry implements the store: nobody who sees the assignment only can
\* tell map, bind, map_many and freeze, with their indexes kept by hand, from
\* a store that assigns, corrects a SID of this run and seals.
THEOREM RegistryImplementsStore == Spec => ImplementsStore
<1>1. Init => Store!Init
  BY InitRefines
<1>2. IInv /\ IInv' /\ [Next]_vars => [Store!Next]_(Store!vars)
  BY NextRefines
<1> QED BY <1>1, <1>2, Invariant, PTL DEF Spec, ImplementsStore, Store!Spec
=============================================================================
