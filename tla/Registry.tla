------------------------------ MODULE Registry ------------------------------
(***************************************************************************)
(* The pseudonym registry (crates/shanon-core/src/registry.rs): one        *)
(* forward table of real spellings and three indexes kept beside it by     *)
(* hand, changed by map, bind and map_many until freeze locks them.        *)
(*                                                                         *)
(* Every table of the code is keyed by category first, so a value here     *)
(* stands for a (category, string) pair and one set of tables stands for   *)
(* all eight categories: Norm never relates values of different ones.      *)
(* The seeded generator is the function Candidate; that two values may     *)
(* share a candidate is how a hash collision appears.                      *)
(***************************************************************************)
EXTENDS Naturals, Sequences

CONSTANTS Source,       \* spellings of real values
          Pseudonym,    \* strings that can stand for one
          Identity,     \* normalized values
          Norm,         \* [Source \cup Pseudonym -> Identity]
          Rank,         \* [Source -> Nat], the order of source_spelling_key
          Candidate,    \* [Source -> Pseudonym], what generate returns
          Arcs,         \* numeric arcs of a domain SID, <<>> for other values
          Historical,   \* names a version 1 map may have used for SIDs
          None

VARIABLES categories,            \* real spelling -> pseudonym
          owners,                \* pseudonym -> owning spelling
          normalizedOwners,      \* normalized pseudonym -> owning spelling
          normalizedSources,     \* normalized real value -> owning spelling
          legacyReverseAliases,  \* normalized historical pseudonyms
          preloadedSources,      \* normalized real values the map was loaded with
          frozen,
          frozenSnapshot,        \* the tables freeze fingerprinted
          outcome,               \* how the last call returned
          asked                  \* history: spellings map and map_many answered while open

indexes == <<owners, normalizedOwners, normalizedSources>>
store == <<categories, indexes, frozen, frozenSnapshot>>
loaded == <<legacyReverseAliases, preloadedSources>>
vars == <<store, loaded, outcome, asked>>

Outcomes == {"ok", "UnsafeMapping", "PseudonymCollision", "Frozen"}

ASSUME NormAssumption == Norm \in [Source \cup Pseudonym -> Identity]
ASSUME CandidateAssumption == Candidate \in [Source -> Pseudonym]
ASSUME NoneAssumption == None \notin Source \cup Pseudonym \cup Identity
\* Two spellings of one SID differ in the case of its S only.
ASSUME ArcsAssumption ==
    \A s, t \in Source : Norm[s] = Norm[t] => Arcs[s] = Arcs[t]
ASSUME HistoricalAssumption == Historical \subseteq Identity
\* The last component of source_spelling_key is the spelling itself.
ASSUME RankAssumption ==
    /\ Rank \in [Source -> Nat]
    /\ \A s, t \in Source : Rank[s] = Rank[t] => s = t
----------------------------------------------------------------------------
(* Index construction: validated_indexes. *)

Preferred(S) == CHOOSE s \in S : \A t \in S : Rank[s] <= Rank[t]

PreferredOrNone(S) == IF S = {} THEN None ELSE Preferred(S)

Known(c) == {s \in Source : c[s] # None}

Spellings(c, i) == {s \in Known(c) : Norm[s] = i}

OwnersOf(c) ==
    [p \in Pseudonym |-> PreferredOrNone({s \in Known(c) : c[s] = p})]

NormalizedOwnersOf(c) ==
    [i \in Identity |-> PreferredOrNone({s \in Known(c) : Norm[c[s]] = i})]

NormalizedSourcesOf(c) ==
    [i \in Identity |-> PreferredOrNone(Spellings(c, i))]

NoSelfMap(c) == \A s \in Known(c) : Norm[c[s]] # Norm[s]

NoDivergentAliases(c) ==
    \A s, t \in Known(c) : Norm[s] = Norm[t] => c[s] = c[t]

NoSharedPseudonym(c) ==
    \A s, t \in Known(c) : Norm[c[s]] = Norm[c[t]] => Norm[s] = Norm[t]

\* Mutant: validation that forgets values left unchanged.
ValidOwnership(c) == NoDivergentAliases(c) /\ NoSharedPseudonym(c)

\* validated_indexes accepts the table.
Valid(c) == NoSelfMap(c) /\ NoDivergentAliases(c) /\ NoSharedPseudonym(c)

\* validated_legacy_reverse_aliases: no alias is owned forward.
AliasesApart(c) ==
    \A s \in Known(c) : Norm[c[s]] \notin legacyReverseAliases

Tables == <<categories, owners, normalizedOwners, normalizedSources>>

\* validate_trust_root
TrustRootValid ==
    /\ Valid(categories) /\ AliasesApart(categories)
    /\ owners = OwnersOf(categories)
    /\ normalizedOwners = NormalizedOwnersOf(categories)
    /\ normalizedSources = NormalizedSourcesOf(categories)
    /\ frozen => frozenSnapshot = Tables
----------------------------------------------------------------------------
TypeOK ==
    /\ categories \in [Source -> Pseudonym \cup {None}]
    /\ owners \in [Pseudonym -> Source \cup {None}]
    /\ normalizedOwners \in [Identity -> Source \cup {None}]
    /\ normalizedSources \in [Identity -> Source \cup {None}]
    /\ legacyReverseAliases \subseteq Identity
    /\ preloadedSources \subseteq Identity
    /\ frozen \in BOOLEAN
    /\ outcome \in Outcomes
    /\ asked \subseteq Source

\* Registry::build, for a new registry or for any map that passes validation.
Init ==
    /\ categories \in [Source -> Pseudonym \cup {None}]
    /\ Valid(categories)
    /\ legacyReverseAliases \in SUBSET Historical
    /\ AliasesApart(categories)
    /\ owners = OwnersOf(categories)
    /\ normalizedOwners = NormalizedOwnersOf(categories)
    /\ normalizedSources = NormalizedSourcesOf(categories)
    /\ preloadedSources = {Norm[s] : s \in Known(categories)}
    /\ frozen = FALSE
    /\ frozenSnapshot = <<>>
    /\ outcome = "ok"
    /\ asked = {}

Refuse(error) ==
    /\ outcome' = error
    /\ UNCHANGED <<store, loaded, asked>>

Answer == outcome' = "ok" /\ UNCHANGED <<loaded, frozen, frozenSnapshot>>

\* Mutant: a lookup by the spelling instead of the identity.
OwnerBySpelling(s) == IF categories[s] # None THEN s ELSE None

Owner(s) == normalizedSources[Norm[s]]

\* Mutant: only the names of older maps are checked.
TakenHistorically(p) == Norm[p] \in legacyReverseAliases

Taken(p) ==
    \/ normalizedOwners[Norm[p]] # None
    \/ Norm[p] \in legacyReverseAliases

\* Mutant: the reverse index gets the pseudonym instead of its owner.
EnterSwapped(s, p) ==
    /\ categories' = [categories EXCEPT ![s] = p]
    /\ owners' = [owners EXCEPT ![p] = s]
    /\ normalizedOwners' = [normalizedOwners EXCEPT ![Norm[p]] = p]
    /\ normalizedSources' = [normalizedSources EXCEPT ![Norm[s]] = s]

\* Own a pseudonym for a spelling in all four tables at once.
Enter(s, p) ==
    /\ categories' = [categories EXCEPT ![s] = p]
    /\ owners' = [owners EXCEPT ![p] = s]
    /\ normalizedOwners' = [normalizedOwners EXCEPT ![Norm[p]] = s]
    /\ normalizedSources' = [normalizedSources EXCEPT ![Norm[s]] = s]
----------------------------------------------------------------------------
(* map *)

\* Mutants: the later spelling wins; a frozen registry still renames.
TakesOverLast(s) == ~frozen /\ Rank[s] > Rank[Owner(s)]
TakesOverFrozen(s) == Rank[s] < Rank[Owner(s)]

TakesOver(s) == ~frozen /\ Rank[s] < Rank[Owner(s)]

\* The identity is known: its pseudonym is the answer, and while the registry
\* is open a preferred spelling takes the ownership over.
MapKnown(s) ==
    LET owner == Owner(s)
        p == categories[owner]
    IN  /\ owner # None
        /\ Norm[s] # Norm[p]
        /\ IF TakesOver(s)
           THEN /\ categories' = [categories EXCEPT ![owner] = None, ![s] = p]
                /\ owners' = [owners EXCEPT ![p] = s]
                /\ normalizedOwners' = [normalizedOwners EXCEPT ![Norm[p]] = s]
                /\ normalizedSources' = [normalizedSources EXCEPT ![Norm[s]] = s]
           ELSE UNCHANGED <<categories, indexes>>
        /\ asked' = IF frozen THEN asked ELSE asked \cup {s}
        /\ Answer

MapNew(s) ==
    /\ Owner(s) = None
    /\ ~frozen
    /\ Norm[Candidate[s]] # Norm[s]
    /\ ~Taken(Candidate[s])
    /\ Enter(s, Candidate[s])
    /\ asked' = asked \cup {s}
    /\ Answer

MapRefused(s) ==
    \/ /\ Owner(s) # None
       /\ Norm[s] = Norm[categories[Owner(s)]]
       /\ Refuse("UnsafeMapping")
    \/ /\ Owner(s) = None /\ frozen
       /\ Refuse("Frozen")
    \/ /\ Owner(s) = None /\ ~frozen
       /\ Norm[Candidate[s]] = Norm[s]
       /\ Refuse("UnsafeMapping")
    \/ /\ Owner(s) = None /\ ~frozen
       /\ Norm[Candidate[s]] # Norm[s]
       /\ Taken(Candidate[s])
       /\ Refuse("PseudonymCollision")

Map(s) == MapKnown(s) \/ MapNew(s) \/ MapRefused(s)
----------------------------------------------------------------------------
(* bind: the caller supplies the pseudonym of a SID and says whether its   *)
(* last arc is the source's own.                                           *)

Terminal(sid) == Arcs[sid][Len(Arcs[sid])]

Parent(sid) == SubSeq(Arcs[sid], 1, Len(Arcs[sid]) - 1)

IntentHolds(s, p, preserve) ==
    /\ Arcs[s] # <<>>
    /\ Len(Arcs[p]) = Len(Arcs[s])
    /\ (Terminal(p) = Terminal(s)) = preserve

\* consistent_sid_hierarchy
Consistent(s, existing, p, preserve) ==
    /\ Len(Arcs[existing]) = Len(Arcs[s])
    /\ Parent(existing) = Parent(p)
    /\ (Terminal(existing) = Terminal(s)) = preserve

Settled(s, p, preserve) ==
    LET existing == categories[Owner(s)]
    IN  Norm[existing] = Norm[p] \/ Consistent(s, existing, p, preserve)

BindSettled(s, p, preserve) ==
    /\ IntentHolds(s, p, preserve)
    /\ Owner(s) # None
    /\ Settled(s, p, preserve)
    /\ UNCHANGED <<categories, indexes, asked>>
    /\ Answer

\* Mutant: a correction does not look at the names of older maps.
OwnedForward(s, p) == normalizedOwners[Norm[p]] \notin {None, Owner(s)}

OwnedElsewhere(s, p) ==
    \/ normalizedOwners[Norm[p]] \notin {None, Owner(s)}
    \/ Norm[p] \in legacyReverseAliases

\* Mutant: what a loaded map named may be corrected too.
CorrectableLoaded(s) == ~frozen

Correctable(s) == Norm[s] \notin preloadedSources /\ ~frozen

\* Mutant: the old pseudonym keeps its normalized owner.
MoveKeepingOld(owner, existing, p) ==
    /\ categories' = [categories EXCEPT ![owner] = p]
    /\ owners' = [owners EXCEPT ![existing] = None, ![p] = owner]
    /\ normalizedOwners' = [normalizedOwners EXCEPT ![Norm[p]] = owner]

Move(owner, existing, p) ==
    /\ categories' = [categories EXCEPT ![owner] = p]
    /\ owners' = [owners EXCEPT ![existing] = None, ![p] = owner]
    /\ normalizedOwners' = [normalizedOwners EXCEPT ![Norm[existing]] = None,
                                                    ![Norm[p]] = owner]

\* A SID this run bound with the other intent is corrected. Unlike the two
\* paths that allocate, this one does not compare the pseudonym with the value.
Rebind(s, p, preserve) ==
    LET owner == Owner(s)
        existing == categories[owner]
    IN  /\ IntentHolds(s, p, preserve)
        /\ owner # None
        /\ ~Settled(s, p, preserve)
        /\ Correctable(s)
        /\ ~OwnedElsewhere(s, p)
        /\ Move(owner, existing, p)
        /\ UNCHANGED <<normalizedSources, asked>>
        /\ Answer

BindNew(s, p, preserve) ==
    /\ IntentHolds(s, p, preserve)
    /\ Owner(s) = None
    /\ ~frozen
    /\ Norm[p] # Norm[s]
    /\ ~Taken(p)
    /\ Enter(s, p)
    /\ UNCHANGED asked
    /\ Answer

BindRefused(s, p, preserve) ==
    \/ ~IntentHolds(s, p, preserve) /\ Refuse("UnsafeMapping")
    \/ /\ IntentHolds(s, p, preserve)
       /\ Owner(s) # None
       /\ ~Settled(s, p, preserve)
       /\ \/ ~Correctable(s) /\ Refuse("UnsafeMapping")
          \/ /\ Correctable(s)
             /\ OwnedElsewhere(s, p)
             /\ Refuse("PseudonymCollision")
    \/ /\ IntentHolds(s, p, preserve)
       /\ Owner(s) = None
       /\ \/ frozen /\ Refuse("Frozen")
          \/ ~frozen /\ Norm[p] = Norm[s] /\ Refuse("UnsafeMapping")
          \/ ~frozen /\ Norm[p] # Norm[s] /\ Taken(p) /\ Refuse("PseudonymCollision")

Bind(s, p, preserve) ==
    \/ BindSettled(s, p, preserve)
    \/ Rebind(s, p, preserve)
    \/ BindNew(s, p, preserve)
    \/ BindRefused(s, p, preserve)
----------------------------------------------------------------------------
(* map_many: every entry is validated, against indexes rebuilt from the     *)
(* forward table, before any table changes.                                *)

RebuiltOwner(s) == PreferredOrNone(Spellings(categories, Norm[s]))

RebuiltTaken(p) ==
    \/ \E s \in Known(categories) : Norm[categories[s]] = Norm[p]
    \/ Norm[p] \in legacyReverseAliases

\* The spelling each identity of the batch that is not known yet will be owned by.
Pending(batch) ==
    {Preferred({t \in batch : Norm[t] = Norm[s]}) :
        s \in {t \in batch : RebuiltOwner(t) = None}}

\* The spellings that take an owned identity over.
Renames(batch) ==
    {s \in batch :
        /\ RebuiltOwner(s) # None
        /\ Rank[s] < Rank[RebuiltOwner(s)]
        /\ \A t \in batch : Norm[t] = Norm[s] => Rank[s] <= Rank[t]}

\* Mutant: two entries of one batch may collide with each other.
PlanCollidesOutside(pending) == \E s \in pending : RebuiltTaken(Candidate[s])

\* The candidates of the pending entries are new, and no two share one.
PlanCollides(pending) ==
    \/ \E s \in pending : RebuiltTaken(Candidate[s])
    \/ \E s, t \in pending : s # t /\ Norm[Candidate[s]] = Norm[Candidate[t]]

PlanLeavesSource(pending) == \E s \in pending : Norm[Candidate[s]] = Norm[s]

\* An index with the spellings the batch enters laid over it.
Overlay(index, entered, key) ==
    [k \in DOMAIN index |->
        IF \E s \in entered : key[s] = k
        THEN CHOOSE s \in entered : key[s] = k
        ELSE index[k]]

MapManyOpen(batch, pending) ==
    LET renames == Renames(batch)
        entered == pending \cup renames
        replaced == {RebuiltOwner(s) : s \in renames}
        pseudonym == [s \in entered |->
            IF s \in pending THEN Candidate[s] ELSE categories[RebuiltOwner(s)]]
        name == [s \in entered |-> Norm[pseudonym[s]]]
    IN  /\ ~frozen
        /\ Valid(categories)
        /\ ~PlanLeavesSource(pending) /\ ~PlanCollides(pending)
        /\ categories' = [s \in Source |->
              IF s \in entered THEN pseudonym[s]
              ELSE IF s \in replaced THEN None ELSE categories[s]]
        /\ owners' = Overlay(OwnersOf(categories), entered, pseudonym)
        /\ normalizedOwners' = Overlay(NormalizedOwnersOf(categories), entered, name)
        /\ normalizedSources' = Overlay(NormalizedSourcesOf(categories), entered, Norm)
        /\ asked' = asked \cup batch
        /\ Answer

\* A frozen registry only looks up.
MapManyFrozen(pending) ==
    /\ frozen
    /\ pending = {}
    /\ TrustRootValid
    /\ UNCHANGED <<categories, indexes, asked>>
    /\ Answer

MapManyRefused(pending) ==
    \/ ~Valid(categories) /\ Refuse("UnsafeMapping")
    \/ /\ Valid(categories) /\ frozen
       /\ pending # {} \/ ~TrustRootValid
       /\ Refuse(IF pending # {} THEN "Frozen" ELSE "UnsafeMapping")
    \/ /\ Valid(categories) /\ ~frozen
       /\ \/ PlanLeavesSource(pending) /\ Refuse("UnsafeMapping")
          \/ PlanCollides(pending) /\ Refuse("PseudonymCollision")

MapMany(batch) ==
    LET pending == Pending(batch)
    IN  \/ MapManyOpen(batch, pending)
        \/ MapManyFrozen(pending)
        \/ MapManyRefused(pending)
----------------------------------------------------------------------------
(* freeze *)

FreezeOpen ==
    /\ ~frozen
    /\ Valid(categories) /\ AliasesApart(categories)
    /\ owners' = OwnersOf(categories)
    /\ normalizedOwners' = NormalizedOwnersOf(categories)
    /\ normalizedSources' = NormalizedSourcesOf(categories)
    /\ frozen' = TRUE
    /\ frozenSnapshot' = <<categories, owners', normalizedOwners', normalizedSources'>>
    /\ outcome' = "ok"
    /\ UNCHANGED <<categories, loaded, asked>>

FreezeAgain ==
    /\ frozen
    /\ TrustRootValid
    /\ UNCHANGED <<categories, indexes, asked>>
    /\ Answer

FreezeRefused ==
    /\ IF frozen THEN ~TrustRootValid
                 ELSE ~(Valid(categories) /\ AliasesApart(categories))
    /\ Refuse("UnsafeMapping")

Freeze == FreezeOpen \/ FreezeAgain \/ FreezeRefused
----------------------------------------------------------------------------
Next ==
    \/ \E s \in Source : Map(s)
    \/ \E s \in Source, p \in Pseudonym, preserve \in BOOLEAN :
          Arcs[s] # <<>> /\ Arcs[p] # <<>> /\ Bind(s, p, preserve)
    \/ \E batch \in SUBSET Source : MapMany(batch)
    \/ Freeze

Spec == Init /\ [][Next]_vars
----------------------------------------------------------------------------
(* Properties *)

\* The three indexes, each patched in place by four operations, always say
\* what a rebuild from the forward table would say: validate_trust_root cannot
\* fail on an index and freeze rebuilds nothing (only a corrected SID may
\* leave its own value unchanged until freeze looks).
IndexesAgree ==
    /\ owners = OwnersOf(categories)
    /\ normalizedOwners = NormalizedOwnersOf(categories)
    /\ normalizedSources = NormalizedSourcesOf(categories)

\* Two identities never share a pseudonym, even up to normalization, even when
\* the generator collides, so reversal is unambiguous.
ReverseUnambiguous == NoSharedPseudonym(categories) /\ NoDivergentAliases(categories)

\* A name a version 1 map used is never handed out again, so restoring an old
\* report cannot name the wrong principal.
HistoricalNamesReserved == AliasesApart(categories)

\* Whatever bind accepted before, a frozen registry maps no value to itself.
FrozenTransforms == frozen => NoSelfMap(categories)

\* The owning spelling of an identity depends on which spellings were seen, not
\* on the order they came in: it ranks at or before every one of them.
SpellingOrderFree ==
    \A s \in asked : Owner(s) # None /\ Rank[Owner(s)] <= Rank[s]

NameOf(c, i) == {c[s] : s \in Spellings(c, i)}

\* Nothing a map was loaded with is ever renamed to another pseudonym or
\* forgotten: this is what --reuse-map promises.
PreloadedStable ==
    [][\A i \in preloadedSources : NameOf(categories', i) = NameOf(categories, i)]_vars

\* After freeze no call moves any table: verification reads what transform read.
FrozenImmutable == [][frozen => UNCHANGED store]_vars

\* Once answered, the pseudonym of an identity that is not a SID never changes.
AnswersStand ==
    [][\A s \in Known(categories) :
          Arcs[s] = <<>> => NameOf(categories', Norm[s]) = NameOf(categories, Norm[s])]_vars

\* The name an identity is known by, read through the source index.
Assigned ==
    [i \in Identity |-> IF normalizedSources[i] = None THEN None
                        ELSE Norm[categories[normalizedSources[i]]]]

Store == INSTANCE PseudonymStore WITH
            Structured <- {Norm[s] : s \in {t \in Source : Arcs[t] # <<>>}},
            assigned <- Assigned,
            kept <- preloadedSources,
            reserved <- legacyReverseAliases,
            sealed <- frozen

\* The registry implements the store it is meant to be: map, bind, map_many and
\* freeze are nothing but assignments, corrections of SIDs and the seal.
ImplementsStore == Store!Spec
=============================================================================
