-------------------------- MODULE CollectionProofs --------------------------
(* Theorems about the drivers and the engine they drive, for every input,  *)
(* every document and every library caller.                                *)
EXTENDS Collection, Loops, FiniteSetTheorems

----------------------------------------------------------------------------
(* The engine: what its calls leave behind, whoever makes them *)

Calls == [api : Apis, doc : Document \cup {None}, stage : {"walk", "templates", "targets"},
          at : Nat \ {0}, part : Nat \ {0},
          fallback : Errors \cup {None}, settling : SUBSET Account]

\* A call finalizes or walks a document; it discovers only while the engine is
\* open, and a transform walk of a document has its snapshot.
CallOK ==
    call # Idle =>
        /\ call \in Calls
        /\ call.stage = "walk" => call.api # "finalize_discovery"
        /\ call.stage # "walk" =>
              call.api \in {"finalize_discovery", "transform_document"} /\ snapshot = None
        /\ call.api # "finalize_discovery" => call.doc \in Document
        /\ Discovering => Open
        /\ call.stage = "walk" /\ call.api = "transform_document" => snapshot # None

LoadedOK == old \subseteq Value /\ oldKept \subseteq old \cap Account

\* An error is parked exactly while the leaf it arose at is being bridged.
ParkedOK ==
    IF parked = None THEN call # Idle => call.fallback = None
    ELSE /\ Walking /\ Visited.kind = "parts" /\ call.part > 1
         /\ call.fallback \in Errors
         /\ parked = [error |-> call.fallback, cause |-> Here]
         /\ locator = Here

\* Before the registry freezes every remembered template is mapped.
TemplatesOK ==
    snapshot # None \/ (call # Idle /\ call.stage = "targets") => templates \subseteq mapped

\* While the targets are settled, those that have been keep their RID, and so do
\* all of them once the snapshot is taken.
SettledOK ==
    /\ call # Idle /\ call.stage = "targets" => targets \ call.settling \subseteq kept
    /\ snapshot # None => snapshot = targets /\ targets \subseteq kept

\* What discovery leaves behind for a leaf, in the tables m, t and g.
FoundIn(l, m, t, g) ==
    /\ l.kind \notin {"sameKey", "beyond"}
    /\ \/ l.spells \in m
       \/ \A k \in DOMAIN l.parts : l.parts[k] \in (IF l.kind = "template" THEN t ELSE m)
    /\ l.evidence => l.sid \in g

LeafFound(l) == FoundIn(l, mapped, templates, targets)

Accepted == \A d \in discovered : \A i \in DOMAIN Leaves[d] : LeafFound(Leaves[d][i])

WalkFound ==
    call # Idle /\ call.api = "discover_document" =>
        \A i \in DOMAIN Leaves[call.doc] : i < call.at => LeafFound(Leaves[call.doc][i])

PartsFound ==
    Walking /\ Visited.kind = "parts" =>
        /\ call.fallback = None =>
              \A k \in DOMAIN Visited.parts : k < call.part => Visited.parts[k] \in mapped
        /\ Discovering /\ call.part > 1 /\ Visited.evidence => Visited.sid \in targets

\* What the transform pass finds for a part of a leaf, in the tables m, k and
\* the snapshot g: it is mapped, and its RID is kept only where it may be.
PartFitsIn(l, v, m, k, g) ==
    v \in m /\ (v \in k => v = l.sid /\ (l.evidence \/ v \in g))
FitsIn(l, m, k, g) == \A j \in DOMAIN l.parts : PartFitsIn(l, l.parts[j], m, k, g)

\* Why a part of a leaf was written through.
ReasonIn(l, e, m, k, g) ==
    \/ /\ e = "conflict"
       /\ \E j \in DOMAIN l.parts :
             l.parts[j] \in k /\ ~(l.parts[j] = l.sid /\ (l.evidence \/ l.parts[j] \in g))
    \/ /\ e = "frozen"
       /\ l.spells \in m /\ \E j \in DOMAIN l.parts : l.parts[j] \notin m

\* The transform walk of a discovered document has passed nothing it cannot
\* transform, and knows why if it is at such a leaf.
Transforming == call # Idle /\ call.stage = "walk" /\ call.api = "transform_document"
                /\ call.doc \in discovered
WalkFits ==
    Transforming =>
        \A i \in DOMAIN Leaves[call.doc] : i < call.at => FitsIn(Leaves[call.doc][i], mapped, kept, snapshot)
PartsFit ==
    Transforming /\ Walking /\ Visited.kind = "parts" =>
        IF call.fallback = None
        THEN \A j \in DOMAIN Visited.parts : j < call.part =>
                PartFitsIn(Visited, Visited.parts[j], mapped, kept, snapshot)
        ELSE ReasonIn(Visited, call.fallback, mapped, kept, snapshot)

DiscoveryOK == Accepted /\ WalkFound /\ PartsFound /\ WalkFits /\ PartsFit

\* The inductive invariant.
EngineIInv ==
    /\ EngineTypeOK /\ LoadedOK
    /\ ToldWhere
    /\ CallOK
    /\ ParkedOK
    /\ TemplatesOK
    /\ SettledOK
    /\ DiscoveryOK
----------------------------------------------------------------------------
(* Leaves, calls and errors *)

LEMMA LeafFacts ==
    ASSUME NEW d \in Document, NEW i \in DOMAIN Leaves[d]
    PROVE  /\ <<d, i>> \in Place
           /\ Leaves[d][i].parts \in Seq(Value)
           /\ Leaves[d][i].kind \in Mapping =>
                 /\ DOMAIN Leaves[d][i].parts = {1}
                 /\ Leaves[d][i].parts[1] \in Value \ Account
           /\ Leaves[d][i].kind \in {"kept", "scalar", "beyond"} => DOMAIN Leaves[d][i].parts = {}
           /\ Leaves[d][i].kind \in Kinds /\ Leaves[d][i].evidence \in BOOLEAN
           /\ Leaves[d][i].spells # None =>
                 Leaves[d][i].kind \in {"opaque", "parts", "template"}
           /\ Leaves[d][i].evidence =>
                 /\ Leaves[d][i].kind = "parts" /\ Leaves[d][i].sid \in Account
                 /\ \E k \in DOMAIN Leaves[d][i].parts : Leaves[d][i].parts[k] = Leaves[d][i].sid
<1> DEFINE l == Leaves[d][i]
<1>1. l \in Leaf
  BY LeavesAssumption
<1>2. /\ l.parts \in Seq(Value) /\ l.kind \in Kinds /\ l.evidence \in BOOLEAN
      /\ l.sid \in Account \cup {None}
  BY <1>1 DEF Leaf
<1>3. /\ l.kind \in Mapping => Len(l.parts) = 1 /\ l.parts[1] \notin Account
      /\ l.kind \in {"kept", "scalar", "beyond"} => l.parts = <<>>
      /\ l.spells # None => l.kind \in {"opaque", "parts", "template"}
      /\ l.sid # None => l.kind = "parts" /\ \E k \in DOMAIN l.parts : l.parts[k] = l.sid
      /\ l.evidence => l.sid # None
  BY LeavesAssumption
<1>4. <<d, i>> \in Place
  BY DEF Place
<1> HIDE DEF l
<1>5. l.kind \in Mapping => DOMAIN l.parts = {1} /\ l.parts[1] \in Value \ Account
  BY <1>2, <1>3
<1>6. l.kind \in {"kept", "scalar", "beyond"} => DOMAIN l.parts = {}
  BY <1>3
<1> QED BY <1>2, <1>3, <1>4, <1>5, <1>6 DEF l

\* The element a walk is at.
LEMMA VisitFacts ==
    ASSUME CallOK, Walking
    PROVE  /\ call \in Calls /\ call.doc \in Document
           /\ call.at \in DOMAIN Leaves[call.doc]
           /\ Here \in Place
           /\ Visited.kind \in Kinds /\ Visited.evidence \in BOOLEAN
           /\ Visited.parts \in Seq(Value)
           /\ Visited.kind \in Mapping =>
                 DOMAIN Visited.parts = {1} /\ OnlyPart \in Value \ Account
           /\ Visited.spells # None => Visited.kind \in {"opaque", "parts", "template"}
           /\ Visited.evidence =>
                 /\ Visited.kind = "parts" /\ Visited.sid \in Account
                 /\ \E k \in DOMAIN Visited.parts : Visited.parts[k] = Visited.sid
           /\ Visited.kind \in {"kept", "scalar", "beyond"} => DOMAIN Visited.parts = {}
<1>1. call \in Calls /\ call.doc \in Document
  BY DEF CallOK, Walking
<1>2. call.at \in DOMAIN Leaves[call.doc]
  BY <1>1, LeavesAssumption DEF Walking, Calls
<1> QED BY <1>1, <1>2, LeafFacts DEF Here, Visited, OnlyPart

LEMMA OnwardFacts ==
    ASSUME call \in Calls
    PROVE  /\ Onward \in Calls /\ Onward # Idle
           /\ Onward.api = call.api /\ Onward.doc = call.doc /\ Onward.stage = call.stage
           /\ Onward.at = call.at + 1 /\ Onward.part = 1
           /\ Onward.fallback = call.fallback /\ Onward.settling = call.settling
<1> DEFINE moved == [call EXCEPT !.at = @ + 1]
           on == [moved EXCEPT !.part = 1]
<1>1. /\ moved \in Calls /\ moved.at = call.at + 1
      /\ moved.api = call.api /\ moved.doc = call.doc /\ moved.stage = call.stage
      /\ moved.fallback = call.fallback /\ moved.settling = call.settling
  BY DEF Calls
<1>2. /\ on \in Calls /\ on.at = moved.at /\ on.part = 1
      /\ on.api = moved.api /\ on.doc = moved.doc /\ on.stage = moved.stage
      /\ on.fallback = moved.fallback /\ on.settling = moved.settling
  <2> HIDE DEF moved
  <2> QED BY <1>1 DEF Calls
<1>3. Onward = on
  BY DEF Onward
<1>4. Onward # Idle
  <2>1. Onward.api \in Apis
    <3> HIDE DEF moved, on
    <3> QED BY <1>2, <1>3 DEF Calls
  <2> QED BY <2>1, NoneAssumption DEF Idle
<1> HIDE DEF moved, on
<1> QED BY <1>1, <1>2, <1>3, <1>4

LEMMA NewCallFacts ==
    ASSUME NEW api \in Apis, NEW d \in Document \cup {None}
    PROVE  /\ Calling(api, d) \in Calls /\ Calling(api, d) # Idle
           /\ Finalizing(api, d) \in Calls /\ Finalizing(api, d) # Idle
           /\ Finalizing(api, d) = [api |-> api, doc |-> d, stage |-> "templates", at |-> 1,
                                    part |-> 1, fallback |-> None, settling |-> {}]
<1>1. Finalizing(api, d) = [api |-> api, doc |-> d, stage |-> "templates", at |-> 1,
                            part |-> 1, fallback |-> None, settling |-> {}]
  BY DEF Finalizing, Calling
<1>2. Calling(api, d) \in Calls /\ Finalizing(api, d) \in Calls
  BY <1>1 DEF Calling, Calls
<1>3. Calling(api, d).api \in Apis /\ Finalizing(api, d).api \in Apis
  BY <1>2 DEF Calls
<1> QED BY <1>1, <1>2, <1>3, NoneAssumption DEF Idle

LEMMA ErrorFacts ==
    ASSUME NEW v
    PROVE  /\ MapError(v) \in {None, "frozen", "refused"}
           /\ MapError(v) # None => v \notin mapped
           /\ MapError(v) = None /\ frozen => v \in mapped
           /\ MapError(v) # None /\ frozen => MapError(v) = "frozen"
           /\ None \notin Errors /\ {"frozen", "refused", "conflict"} \subseteq Errors
BY NoneAssumption DEF MapError, Errors

LEMMA BindFacts ==
    ASSUME NEW v, NEW keep \in BOOLEAN
    PROVE  /\ BindError(v, keep) \in {None, "frozen", "refused", "conflict"}
           /\ BindError(v, keep) = None /\ frozen => v \in mapped /\ (v \in kept <=> keep)
           /\ BindError(v, keep) # None /\ frozen =>
                 IF v \in mapped THEN BindError(v, keep) = "conflict" /\ ~(v \in kept <=> keep)
                 ELSE BindError(v, keep) = "frozen"
<1>1. CASE v \in mapped
  BY <1>1, NoneAssumption DEF BindError, Errors
<1>2. CASE v \notin mapped
  BY <1>2, ErrorFacts DEF BindError
<1> QED BY <1>1, <1>2

\* What an answer of the bridge leaves in the tables, and what it says of a part
\* once the registry is frozen.
LEMMA PartFacts ==
    ASSUME NEW v
    PROVE  /\ PartError(v) \in {None, "frozen", "refused", "conflict"}
           /\ PartError(v) = None /\ frozen =>
                 v \in mapped /\ (v \in Account => (v \in kept <=> Keeps(Visited, v)))
           /\ PartError(v) # None /\ frozen =>
                 IF v \in mapped
                 THEN /\ PartError(v) = "conflict" /\ v \in Account
                      /\ ~(v \in kept <=> Keeps(Visited, v))
                 ELSE PartError(v) = "frozen"
<1> DEFINE keep == Keeps(Visited, v)
<1>1. CASE v \in Account
  <2>1. PartError(v) = BindError(v, keep)
    BY <1>1 DEF PartError
  <2>2. keep \in BOOLEAN
    BY DEF Keeps
  <2> HIDE DEF keep
  <2>3. /\ BindError(v, keep) \in {None, "frozen", "refused", "conflict"}
        /\ BindError(v, keep) = None /\ frozen => v \in mapped /\ (v \in kept <=> keep)
        /\ BindError(v, keep) # None /\ frozen =>
              IF v \in mapped THEN BindError(v, keep) = "conflict" /\ ~(v \in kept <=> keep)
              ELSE BindError(v, keep) = "frozen"
    BY <2>2, BindFacts
  <2> QED BY <1>1, <2>1, <2>3 DEF keep
<1>2. CASE v \notin Account
  BY <1>2, ErrorFacts DEF PartError
<1> QED BY <1>1, <1>2

\* finalize settles the target that ranks first, and there is one.
LEMMA FirstTarget ==
    ASSUME NEW S \in SUBSET Value, S # {},
           NEW v, v = CHOOSE t \in S : \A u \in S : Rank[t] <= Rank[u]
    PROVE  v \in S /\ \A u \in S : Rank[v] <= Rank[u]
<1> DEFINE R == {p \in Nat \X Nat : p[1] < p[2]}
           T == {Rank[s] : s \in S}
<1>1. T \subseteq Nat /\ T # {}
  BY RankAssumption
<1>2. \E x \in T : \A y \in T : ~(<<y, x>> \in R)
  <2> HIDE DEF R, T
  <2>1. IsWellFoundedOn(R, Nat)
    BY NatLessThanWellFounded DEF R, OpToRel
  <2> QED BY <1>1, <2>1, WFMin
<1>3. PICK s \in S : \A t \in S : ~(<<Rank[t], Rank[s]>> \in R)
  BY <1>2
<1>4. ASSUME NEW t \in S PROVE Rank[s] <= Rank[t]
  <2>1. Rank[s] \in Nat /\ Rank[t] \in Nat
    BY RankAssumption
  <2>2. Rank[t] < Rank[s] => <<Rank[t], Rank[s]>> \in R
    BY <2>1
  <2>3. ~(Rank[t] < Rank[s])
    BY <1>3, <2>2
  <2> QED BY <2>1, <2>3
<1> QED BY <1>4
----------------------------------------------------------------------------
(* What the steps of a walk have in common *)

\* The tables grow while discovery is open, so what it found stays found.
LEMMA FoundStays ==
    ASSUME NEW l, FoundIn(l, mapped, templates, targets),
           mapped \subseteq mapped', templates \subseteq templates', targets \subseteq targets'
    PROVE  FoundIn(l, mapped', templates', targets')
BY DEF FoundIn

LEMMA AcceptedStays ==
    ASSUME Accepted, UNCHANGED discovered,
           mapped \subseteq mapped', templates \subseteq templates', targets \subseteq targets'
    PROVE  Accepted'
BY FoundStays DEF Accepted, LeafFound

\* Whatever is left of a leaf is there, before the first of its parts.
LEMMA NoPartYet ==
    ASSUME CallOK', Walking', NEW k \in DOMAIN Visited.parts', k < 1
    PROVE  FALSE
<1>1. call' \in Calls /\ call'.doc \in Document
  BY DEF CallOK, Walking
<1>2. call'.at \in DOMAIN Leaves[call'.doc]
  BY <1>1, LeavesAssumption DEF Walking, Calls
<1>3. Visited.parts' \in Seq(Value)
  BY <1>1, <1>2, LeafFacts DEF Visited
<1> QED BY <1>3

\* A walk goes on to the next element.
LEMMA Advances ==
    ASSUME EngineIInv, Walking, Go, parked = None, parked' = None,
           UNCHANGED <<old, oldKept, kept, frozen, snapshot>>,
           mapped \subseteq mapped', mapped' \subseteq Value, frozen => UNCHANGED mapped,
           templates \subseteq templates', templates' \subseteq Value,
           templates' # templates => Discovering,
           targets \subseteq targets', targets' \subseteq Account,
           targets' # targets => Discovering,
           locator' \in {locator, Here},
           call.api = "discover_document" => FoundIn(Visited, mapped', templates', targets'),
           Transforming => FitsIn(Visited, mapped, kept, snapshot)
    PROVE  EngineIInv'
<1>1. /\ call \in Calls /\ call # Idle /\ call.stage = "walk" /\ call.fallback = None
      /\ Here \in Place /\ call.doc \in Document /\ call.at \in DOMAIN Leaves[call.doc]
  BY VisitFacts DEF EngineIInv, ParkedOK, Walking
<1>2. /\ call' = Onward /\ UNCHANGED <<result, discovered>>
      /\ Onward \in Calls /\ Onward # Idle
      /\ Onward.api = call.api /\ Onward.doc = call.doc /\ Onward.stage = call.stage
      /\ Onward.at = call.at + 1 /\ Onward.part = 1
      /\ Onward.fallback = call.fallback
  BY <1>1, OnwardFacts DEF Go
<1> HIDE DEF Onward
<1>3. /\ call' \in Calls /\ call' # Idle /\ call'.stage = "walk"
      /\ call'.api = call.api /\ call'.doc = call.doc
      /\ call'.at = call.at + 1 /\ call'.part = 1 /\ call'.fallback = None
  BY <1>1, <1>2
<1>4. EngineTypeOK' /\ LoadedOK' /\ ToldWhere'
  BY <1>1, <1>2, NoneAssumption DEF EngineIInv, EngineTypeOK, LoadedOK, ToldWhere
<1>5. CallOK'
  BY <1>1, <1>3 DEF EngineIInv, CallOK, Discovering, Open
<1>6. ParkedOK'
  BY <1>3 DEF ParkedOK
<1>7. TemplatesOK' /\ SettledOK'
  <2>1. snapshot # None => UNCHANGED <<templates, targets>>
    BY <1>1 DEF EngineIInv, CallOK, Open
  <2> QED BY <1>3, <2>1 DEF EngineIInv, TemplatesOK, SettledOK
<1>8. Accepted'
  BY <1>2, AcceptedStays DEF EngineIInv, DiscoveryOK
<1>9. WalkFound'
  <2> SUFFICES ASSUME call.api = "discover_document",
                      NEW i \in DOMAIN Leaves[call.doc], i < call.at + 1
               PROVE  FoundIn(Leaves[call.doc][i], mapped', templates', targets')
    BY <1>3 DEF WalkFound, LeafFound
  <2>1. i \in Nat /\ call.at \in Nat
    BY <1>1, LeavesAssumption
  <2>2. CASE i < call.at
    <3>1. FoundIn(Leaves[call.doc][i], mapped, templates, targets)
      BY <1>1, <2>2 DEF EngineIInv, DiscoveryOK, WalkFound, LeafFound
    <3> QED BY <3>1, FoundStays
  <2>3. CASE i = call.at
    BY <2>3 DEF Visited
  <2> QED BY <2>1, <2>2, <2>3
<1>10. PartsFound' /\ PartsFit'
  <2>1. ASSUME Walking', NEW k \in DOMAIN Visited.parts', k < call'.part PROVE FALSE
    BY <1>3, <1>5, <2>1, NoPartYet
  <2>2. ~(call'.part > 1)
    BY <1>3
  <2> QED BY <1>3, <2>1, <2>2 DEF PartsFound, PartsFit
<1>11. WalkFits'
  <2> SUFFICES ASSUME Transforming',
                      NEW i \in DOMAIN Leaves[call.doc], i < call.at + 1
               PROVE  FitsIn(Leaves[call.doc][i], mapped', kept', snapshot')
    BY <1>3 DEF WalkFits
  <2>1. i \in Nat /\ call.at \in Nat
    BY <1>1, LeavesAssumption
  <2>2. Transforming /\ frozen
    BY <1>1, <1>2, <1>3 DEF Transforming, EngineIInv, CallOK, EngineTypeOK
  <2>3. FitsIn(Leaves[call.doc][i], mapped, kept, snapshot)
    <3>1. CASE i < call.at
      BY <2>2, <3>1 DEF EngineIInv, DiscoveryOK, WalkFits
    <3>2. CASE i = call.at
      BY <2>2, <3>2 DEF Visited
    <3> QED BY <2>1, <3>1, <3>2
  <2> QED BY <2>2, <2>3
<1> QED BY <1>4, <1>5, <1>6, <1>7, <1>8, <1>9, <1>10, <1>11 DEF EngineIInv, DiscoveryOK

\* A call returns an error.
LEMMA GivesUp ==
    ASSUME EngineIInv, NEW r, Return(r), r.error # None,
           r.at # None /\ r.cause \in Place => r.at = r.cause,
           parked' = None, UNCHANGED <<old, oldKept, frozen, templates, targets, snapshot>>,
           mapped \subseteq mapped', mapped' \subseteq Value,
           kept' \subseteq mapped' \cap Account, snapshot # None => UNCHANGED kept,
           locator' = locator \/ locator' \in Place
    PROVE  EngineIInv'
<1>1. call' = Idle /\ result' = r /\ UNCHANGED discovered
  BY DEF Return, Ok
<1>2. EngineTypeOK' /\ LoadedOK' /\ ToldWhere'
  BY <1>1 DEF EngineIInv, EngineTypeOK, LoadedOK, ToldWhere
<1>3. CallOK' /\ ParkedOK'
  BY <1>1 DEF CallOK, ParkedOK
<1>4. TemplatesOK' /\ SettledOK'
  BY <1>1 DEF EngineIInv, TemplatesOK, SettledOK
<1>5. Accepted'
  BY <1>1, AcceptedStays DEF EngineIInv, DiscoveryOK
<1>6. WalkFound' /\ PartsFound' /\ WalkFits' /\ PartsFit'
  BY <1>1 DEF WalkFound, PartsFound, WalkFits, PartsFit, Transforming, Walking
<1> QED BY <1>2, <1>3, <1>4, <1>5, <1>6 DEF EngineIInv, DiscoveryOK

\* A leaf that one registry call answers: the value is mapped and the walk goes
\* on, or the call returns the error.
LEMMA MapsOne ==
    ASSUME EngineIInv, Walking, parked = None, NEW at,
           Visited.kind \in Mapping,
           at \in {None, Here}, locator' \in {locator, Here},
           UNCHANGED <<old, oldKept, kept, frozen, templates, targets, snapshot, parked>>,
           \/ /\ MapError(OnlyPart) = None
              /\ mapped' = mapped \cup {OnlyPart}
              /\ \/ Visited.kind \in {"key", "opaque"} /\ Go
                 \/ Visited.kind = "template" /\ ~Discovering /\ Go
                 \/ Return(Failure("collision", at, Here))
           \/ /\ MapError(OnlyPart) # None
              /\ Return(Failure(MapError(OnlyPart), at, Here))
              /\ UNCHANGED mapped
    PROVE  EngineIInv'
<1>1. /\ Here \in Place /\ OnlyPart \in Value \ Account /\ DOMAIN Visited.parts = {1}
      /\ call \in Calls /\ ~Visited.evidence
  BY VisitFacts DEF EngineIInv, Mapping
<1>2. /\ mapped \subseteq Value /\ templates \subseteq Value /\ targets \subseteq Account
      /\ kept \subseteq mapped \cap Account
  BY DEF EngineIInv, EngineTypeOK
<1>3. locator' = locator \/ locator' \in Place
  BY <1>1
<1>4. CASE Return(Failure("collision", at, Here)) /\ mapped' = mapped \cup {OnlyPart}
  <2> DEFINE r == Failure("collision", at, Here)
  <2>1. r.error # None /\ (r.at # None /\ r.cause \in Place => r.at = r.cause)
    BY NoneAssumption DEF Failure, Errors
  <2> HIDE DEF r
  <2> QED BY <1>1, <1>2, <1>3, <1>4, <2>1, GivesUp DEF r
<1>5. CASE /\ MapError(OnlyPart) # None /\ UNCHANGED mapped
           /\ Return(Failure(MapError(OnlyPart), at, Here))
  <2> DEFINE r == Failure(MapError(OnlyPart), at, Here)
  <2>1. r.error # None /\ (r.at # None /\ r.cause \in Place => r.at = r.cause)
    BY <1>5 DEF Failure
  <2> HIDE DEF r
  <2> QED BY <1>1, <1>2, <1>3, <1>5, <2>1, GivesUp DEF r
<1>6. CASE /\ Visited.kind \in {"key", "opaque"} \/ (Visited.kind = "template" /\ ~Discovering)
           /\ Go /\ MapError(OnlyPart) = None /\ mapped' = mapped \cup {OnlyPart}
  <2>1. call.api = "discover_document" => FoundIn(Visited, mapped', templates', targets')
    BY <1>1, <1>6 DEF FoundIn, OnlyPart, Discovering
  <2>2. frozen => UNCHANGED mapped
    BY <1>6, ErrorFacts
  <2>3. Transforming => FitsIn(Visited, mapped, kept, snapshot)
    <3>1. Transforming => OnlyPart \in mapped
      BY <1>6, ErrorFacts DEF Transforming, EngineIInv, CallOK, EngineTypeOK
    <3> QED BY <1>1, <1>2, <3>1 DEF FitsIn, PartFitsIn, OnlyPart
  <2> QED BY <1>1, <1>2, <1>6, <2>1, <2>2, <2>3, Advances
<1> QED BY <1>4, <1>5, <1>6
----------------------------------------------------------------------------
(* The steps of a walk *)

LEMMA NothingParked ==
    ASSUME EngineIInv, ~Walking \/ Visited.kind # "parts" \/ call.part = 1
    PROVE  parked = None
<1>1. ASSUME Walking, call.part = 1 PROVE ~(call.part > 1)
  BY <1>1
<1> QED BY <1>1 DEF EngineIInv, ParkedOK

LEMMA ProjectKeyKeeps == ASSUME EngineIInv, ProjectKey PROVE EngineIInv'
<1>1. parked = None
  BY NothingParked DEF ProjectKey
<1>2. /\ Walking /\ Visited.kind = "key" /\ locator' = locator
      /\ UNCHANGED <<old, oldKept, kept, frozen, templates, targets, snapshot, parked>>
  BY DEF ProjectKey
<1>3. \/ MapError(OnlyPart) = None /\ mapped' = mapped \cup {OnlyPart} /\ Go
      \/ /\ MapError(OnlyPart) # None /\ UNCHANGED mapped
         /\ Return(Failure(MapError(OnlyPart), None, Here))
  BY DEF ProjectKey
<1> QED BY <1>1, <1>2, <1>3, MapsOne DEF Mapping

LEMMA KeyCollisionKeeps == ASSUME EngineIInv, KeyCollision PROVE EngineIInv'
<1>1. parked = None
  BY NothingParked DEF KeyCollision
<1>2. /\ Walking /\ Visited.kind \in Mapping /\ locator' \in {locator, Here}
      /\ UNCHANGED <<old, oldKept, kept, frozen, templates, targets, snapshot, parked>>
  BY DEF KeyCollision, Mapping
<1>3. CASE /\ MapError(OnlyPart) = None /\ mapped' = mapped \cup {OnlyPart}
           /\ Return(Failure("collision", Here, Here))
  BY <1>1, <1>2, <1>3, MapsOne
<1>4. CASE /\ MapError(OnlyPart) # None /\ UNCHANGED mapped
           /\ Return(Failure(MapError(OnlyPart), None, Here))
  BY <1>1, <1>2, <1>4, MapsOne
<1> QED BY <1>3, <1>4 DEF KeyCollision

LEMMA SkipLeafKeeps == ASSUME EngineIInv, SkipLeaf PROVE EngineIInv'
<1>1. /\ Walking /\ Visited.kind \in {"kept", "scalar"} /\ Go
      /\ locator' \in {locator, Here}
      /\ UNCHANGED <<old, oldKept, mapped, kept, frozen, templates, targets, snapshot, parked>>
  BY DEF SkipLeaf, engine, registry
<1>2. parked = None
  BY <1>1, NothingParked
<1>3. DOMAIN Visited.parts = {} /\ ~Visited.evidence
  BY <1>1, VisitFacts DEF EngineIInv
<1>4. FoundIn(Visited, mapped', templates', targets') /\ FitsIn(Visited, mapped, kept, snapshot)
  BY <1>1, <1>3 DEF FoundIn, FitsIn
<1>5. mapped \subseteq Value /\ templates \subseteq Value /\ targets \subseteq Account
  BY DEF EngineIInv, EngineTypeOK
<1> QED BY <1>1, <1>2, <1>4, <1>5, Advances

LEMMA RefuseNumberKeeps == ASSUME EngineIInv, RefuseNumber PROVE EngineIInv'
<1> DEFINE r == Failure("value", None, Here)
<1>1. /\ Walking /\ Visited.kind = "beyond" /\ Return(r)
      /\ UNCHANGED <<old, oldKept, mapped, kept, frozen, templates, targets, snapshot, parked,
                     locator>>
  BY DEF RefuseNumber, engine, registry
<1>2. parked = None
  BY <1>1, NothingParked
<1>3. r.error # None /\ r.at = None
  BY NoneAssumption DEF Failure, Errors
<1> HIDE DEF r
<1> QED BY <1>1, <1>2, <1>3, GivesUp DEF EngineIInv, EngineTypeOK

LEMMA MapOpaqueKeeps == ASSUME EngineIInv, MapOpaque PROVE EngineIInv'
<1>1. parked = None
  BY NothingParked DEF MapOpaque
<1>2. /\ Walking /\ Visited.kind = "opaque" /\ locator' = Here
      /\ UNCHANGED <<old, oldKept, kept, frozen, templates, targets, snapshot, parked>>
  BY DEF MapOpaque, MarkLeaf
<1>3. \/ MapError(OnlyPart) = None /\ mapped' = mapped \cup {OnlyPart} /\ Go
      \/ /\ MapError(OnlyPart) # None /\ UNCHANGED mapped
         /\ Return(Failure(MapError(OnlyPart), Here, Here))
  BY DEF MapOpaque, MarkLeaf
<1> QED BY <1>1, <1>2, <1>3, MapsOne DEF Mapping

LEMMA VisitTemplateKeeps == ASSUME EngineIInv, VisitTemplate PROVE EngineIInv'
<1>1. parked = None
  BY NothingParked DEF VisitTemplate
<1>2. /\ Walking /\ Visited.kind = "template" /\ locator' = Here
      /\ UNCHANGED <<old, oldKept, kept, frozen, targets, snapshot, parked>>
  BY DEF VisitTemplate, MarkLeaf
<1>3. CASE Discovering
  <2>1. templates' = templates \cup {OnlyPart} /\ Go /\ UNCHANGED mapped
    BY <1>3 DEF VisitTemplate
  <2>2. OnlyPart \in Value /\ DOMAIN Visited.parts = {1} /\ ~Visited.evidence
    BY <1>2, VisitFacts DEF EngineIInv, Mapping
  <2>3. FoundIn(Visited, mapped', templates', targets')
    BY <1>2, <2>1, <2>2 DEF FoundIn, OnlyPart
  <2>4. mapped \subseteq Value /\ templates' \subseteq Value /\ targets \subseteq Account
    BY <2>1, <2>2 DEF EngineIInv, EngineTypeOK
  <2>5. ~Transforming
    BY <1>3 DEF Transforming, Discovering
  <2> QED BY <1>1, <1>2, <1>3, <2>1, <2>3, <2>4, <2>5, Advances
<1>4. CASE ~Discovering
  <2>1. /\ UNCHANGED templates
        /\ \/ MapError(OnlyPart) = None /\ mapped' = mapped \cup {OnlyPart} /\ Go
           \/ /\ MapError(OnlyPart) # None /\ UNCHANGED mapped
              /\ Return(Failure(MapError(OnlyPart), Here, Here))
    BY <1>4 DEF VisitTemplate, MarkLeaf
  <2> QED BY <1>1, <1>2, <1>4, <2>1, MapsOne DEF Mapping
<1> QED BY <1>3, <1>4

LEMMA RememberedFacts ==
    ASSUME EngineIInv, Walking
    PROVE  /\ targets \subseteq Remembered /\ Remembered \subseteq Account
           /\ Remembered # targets => Discovering
           /\ Discovering /\ Visited.evidence => Visited.sid \in Remembered
<1>1. Visited.evidence => Visited.sid \in Account
  BY VisitFacts DEF EngineIInv
<1> QED BY <1>1 DEF Remembered, EngineIInv, EngineTypeOK

LEMMA DeferSidKeeps == ASSUME EngineIInv, DeferSid PROVE EngineIInv'
<1>1. /\ Walking /\ Discovering /\ call.part = 1 /\ Visited.spells \in mapped
      /\ locator' = Here /\ Go /\ targets' = Remembered
      /\ UNCHANGED <<old, oldKept, mapped, kept, frozen, templates, snapshot, parked>>
  BY DEF DeferSid, Deferred, MarkLeaf, registry
<1>2. parked = None
  BY <1>1, NothingParked
<1>3. mapped \subseteq Value /\ templates \subseteq Value
  BY DEF EngineIInv, EngineTypeOK
<1>4. Visited.kind \notin {"sameKey", "beyond"}
  <2>1. Visited.spells # None
    BY <1>1, <1>3, NoneAssumption
  <2> QED BY <1>1, <2>1, VisitFacts DEF EngineIInv
<1>5. FoundIn(Visited, mapped', templates', targets')
  BY <1>1, <1>4, RememberedFacts DEF FoundIn
<1>6. ~Transforming
  BY <1>1 DEF Transforming, Discovering
<1> QED BY <1>1, <1>2, <1>3, <1>5, <1>6, RememberedFacts, Advances
LEMMA PartOnFacts ==
    ASSUME call \in Calls, NEW on, NEW e \in Errors \cup {None},
           \/ on = [call EXCEPT !.part = @ + 1] /\ e = call.fallback
           \/ on = [call EXCEPT !.part = @ + 1, !.fallback = e]
    PROVE  /\ on \in Calls /\ on # Idle
           /\ on.api = call.api /\ on.doc = call.doc /\ on.stage = call.stage
           /\ on.at = call.at /\ on.part = call.part + 1 /\ on.fallback = e
<1> DEFINE moved == [call EXCEPT !.part = @ + 1]
           put == [moved EXCEPT !.fallback = e]
<1>1. /\ moved \in Calls
      /\ moved.api = call.api /\ moved.doc = call.doc /\ moved.stage = call.stage
      /\ moved.at = call.at /\ moved.part = call.part + 1 /\ moved.fallback = call.fallback
  BY DEF Calls
<1>2. /\ put \in Calls
      /\ put.api = moved.api /\ put.doc = moved.doc /\ put.stage = moved.stage
      /\ put.at = moved.at /\ put.part = moved.part /\ put.fallback = e
  <2> HIDE DEF moved
  <2> QED BY <1>1 DEF Calls
<1>3. (on = moved /\ e = call.fallback) \/ on = put
  OBVIOUS
<1>4. on \in Calls
  <2> HIDE DEF moved, put
  <2> QED BY <1>1, <1>2, <1>3
<1>5. on # Idle
  <2>1. on.api \in Apis
    BY <1>4 DEF Calls
  <2> QED BY <2>1, NoneAssumption DEF Idle
<1> HIDE DEF moved, put
<1> QED BY <1>1, <1>2, <1>3, <1>4, <1>5


\* Why the transform walk writes a part of a discovered document through.
LEMMA TransformPart ==
    ASSUME EngineIInv, Transforming, Walking, NEW j \in DOMAIN Visited.parts
    PROVE  LET v == Visited.parts[j]
           IN  /\ PartError(v) = None => PartFitsIn(Visited, v, mapped, kept, snapshot)
               /\ PartError(v) # None => ReasonIn(Visited, PartError(v), mapped, kept, snapshot)
<1> DEFINE v == Visited.parts[j]
<1>1. snapshot # None /\ frozen /\ snapshot = targets /\ targets \subseteq kept
      /\ kept \subseteq Account
  BY DEF Transforming, EngineIInv, CallOK, EngineTypeOK, SettledOK
<1>2. FoundIn(Visited, mapped, templates, targets)
  <2>1. call.at \in DOMAIN Leaves[call.doc]
    BY VisitFacts DEF EngineIInv
  <2> QED BY <2>1 DEF Transforming, EngineIInv, DiscoveryOK, Accepted, LeafFound, Visited
<1>3. Keeps(Visited, v) <=> v = Visited.sid /\ (Visited.evidence \/ v \in snapshot)
  BY <1>1 DEF Keeps, Evidence
<1>4. Keeps(Visited, v) => v \in kept
  BY <1>1, <1>2, <1>3 DEF FoundIn
<1>5. templates \subseteq mapped
  BY <1>1 DEF EngineIInv, TemplatesOK
<1>6. v \in mapped \/ Visited.spells \in mapped
  BY <1>2, <1>5 DEF FoundIn
<1> HIDE DEF v
<1>7. CASE PartError(v) = None
  <2>1. v \in mapped /\ (v \in Account => (v \in kept <=> Keeps(Visited, v)))
    BY <1>1, <1>7, PartFacts
  <2>2. v \in kept => Keeps(Visited, v)
    BY <1>1, <2>1
  <2>3. PartFitsIn(Visited, v, mapped, kept, snapshot)
    BY <1>3, <2>1, <2>2 DEF PartFitsIn
  <2> QED BY <1>7, <2>3 DEF v
<1>8. CASE PartError(v) # None /\ v \in mapped
  <2>1. PartError(v) = "conflict" /\ v \in kept /\ ~Keeps(Visited, v)
    BY <1>1, <1>4, <1>8, PartFacts
  <2> QED BY <1>3, <1>8, <2>1 DEF ReasonIn, v
<1>9. CASE PartError(v) # None /\ v \notin mapped
  BY <1>1, <1>6, <1>9, PartFacts DEF ReasonIn, v
<1> QED BY <1>7, <1>8, <1>9 DEF v

\* A part the registry refuses is written through and its error parked with
\* the leaf; the other parts are still mapped.
LEMMA BridgePartKeeps == ASSUME EngineIInv, BridgePart PROVE EngineIInv'
<1> DEFINE v == Visited.parts[call.part]
           e == PartError(v)
           fallback == IF e = None \/ call.fallback # None THEN call.fallback ELSE e
<1>1. /\ Walking /\ Visited.kind = "parts"
      /\ call.part <= Len(Visited.parts)
      /\ locator' = Here /\ targets' = Remembered
      /\ UNCHANGED <<old, oldKept, frozen, templates, snapshot, result, discovered>>
  BY DEF BridgePart, Bridged, MarkLeaf
<1>2. /\ call \in Calls /\ call # Idle /\ call.stage = "walk" /\ call.doc \in Document
      /\ call.at \in DOMAIN Leaves[call.doc] /\ call.at <= Len(Leaves[call.doc])
      /\ Here \in Place /\ Visited.parts \in Seq(Value)
      /\ call.part \in Nat \ {0}
      /\ call.fallback \in Errors \cup {None}
  BY <1>1, VisitFacts DEF EngineIInv, Walking, Calls
<1>3. call.part \in DOMAIN Visited.parts /\ v \in Value
  BY <1>1, <1>2
<1>4. /\ e \in {None, "frozen", "refused", "conflict"}
      /\ e = None /\ frozen => v \in mapped /\ (v \in Account => (v \in kept <=> Keeps(Visited, v)))
      /\ None \notin Errors /\ {"frozen", "refused", "conflict"} \subseteq Errors
  BY ErrorFacts, PartFacts
<1>5. \/ /\ e = None /\ mapped' = mapped \cup {v} /\ UNCHANGED parked
         /\ kept' = IF v \in Account THEN Bound(v, Keeps(Visited, v)) ELSE kept
         /\ call' = [call EXCEPT !.part = @ + 1] /\ fallback = call.fallback
      \/ /\ e # None /\ UNCHANGED <<mapped, kept>> /\ parked' = Park(e, Here)
         /\ call' = [call EXCEPT !.part = @ + 1, !.fallback = fallback]
  BY <1>2 DEF BridgePart
<1>6. fallback \in Errors \cup {None}
  BY <1>2, <1>4
<1>7. /\ call' \in Calls /\ call' # Idle /\ call'.stage = "walk"
      /\ call'.api = call.api /\ call'.doc = call.doc
      /\ call'.at = call.at /\ call'.part = call.part + 1 /\ call'.fallback = fallback
  <2> HIDE DEF fallback, e, v
  <2>1. \/ call' = [call EXCEPT !.part = @ + 1] /\ fallback = call.fallback
        \/ call' = [call EXCEPT !.part = @ + 1, !.fallback = fallback]
    BY <1>5
  <2> QED BY <1>2, <1>6, <2>1, PartOnFacts
<1>8. /\ mapped \subseteq mapped' /\ mapped' \subseteq Value
      /\ kept' \subseteq mapped' \cap Account
      /\ targets \subseteq targets' /\ targets' \subseteq Account
      /\ targets' # targets => Discovering
  <2> HIDE DEF e, v
  <2>1. mapped \subseteq Value /\ kept \subseteq mapped \cap Account
    BY DEF EngineIInv, EngineTypeOK
  <2>2. CASE mapped' = mapped \cup {v} /\ kept' = IF v \in Account THEN Bound(v, Keeps(Visited, v)) ELSE kept
    BY <1>1, <1>3, <2>1, <2>2, RememberedFacts DEF Bound
  <2>3. CASE UNCHANGED <<mapped, kept>>
    BY <1>1, <2>1, <2>3, RememberedFacts
  <2> QED BY <1>5, <2>2, <2>3
<1>9. Visited' = Visited /\ Here' = Here /\ Walking'
  BY <1>1, <1>2, <1>7 DEF Visited, Here, Walking
<1>10. ParkedOK'
  <2>1. CASE parked = None
    <3>1. call.fallback = None
      BY <1>2, <2>1 DEF EngineIInv, ParkedOK
    <3>2. CASE e = None
      BY <1>4, <1>5, <1>7, <2>1, <3>1, <3>2 DEF ParkedOK
    <3>3. CASE e # None
      <4>1. parked' = [error |-> e, cause |-> Here] /\ fallback = e /\ e \in Errors
        BY <1>4, <1>5, <2>1, <3>1, <3>3 DEF Park
      <4>2. parked' # None
        BY <1>2, <4>1, NoneAssumption
      <4>3. call'.part > 1
        BY <1>2, <1>7
      <4> QED BY <1>1, <1>7, <1>9, <4>1, <4>2, <4>3 DEF ParkedOK
    <3> QED BY <3>2, <3>3
  <2>2. CASE parked # None
    <3>1. /\ call.fallback \in Errors
          /\ parked = [error |-> call.fallback, cause |-> Here]
      BY <2>2 DEF EngineIInv, ParkedOK
    <3>2. parked' = parked
      BY <1>5, <2>2 DEF Park
    <3>3. fallback = call.fallback
      BY <1>4, <3>1
    <3>4. call'.part > 1
      BY <1>2, <1>7
    <3> QED BY <1>1, <1>7, <1>9, <2>2, <3>1, <3>2, <3>3, <3>4 DEF ParkedOK
  <2> QED BY <2>1, <2>2
<1>11. EngineTypeOK' /\ LoadedOK' /\ ToldWhere'
  <2>1. parked' = None \/ (parked'.cause \in Place /\ call' # Idle)
    BY <1>2, <1>7, <1>9, <1>10 DEF ParkedOK
  <2> QED BY <1>1, <1>2, <1>8, <2>1 DEF EngineIInv, EngineTypeOK, LoadedOK, ToldWhere
<1>12. CallOK'
  BY <1>1, <1>2, <1>7 DEF EngineIInv, CallOK, Discovering, Open
\* Once the registry is frozen a part that answers changes nothing.
<1>13. frozen => UNCHANGED <<mapped, kept, targets>>
  <2>1. ASSUME frozen PROVE UNCHANGED targets
    BY <1>2, <1>8, <2>1 DEF EngineIInv, CallOK, Open
  <2>2. ASSUME frozen PROVE UNCHANGED <<mapped, kept>>
    BY <1>4, <1>5, <2>2 DEF Bound
  <2> QED BY <2>1, <2>2
<1>14. TemplatesOK' /\ SettledOK'
  <2>1. snapshot # None => frozen
    BY DEF EngineIInv, EngineTypeOK
  <2> QED BY <1>1, <1>7, <1>8, <1>13, <2>1 DEF EngineIInv, TemplatesOK, SettledOK
<1>15. Accepted'
  BY <1>1, <1>8, AcceptedStays DEF EngineIInv, DiscoveryOK
<1>16. WalkFound'
  BY <1>1, <1>2, <1>7, <1>8, FoundStays DEF EngineIInv, DiscoveryOK, WalkFound, LeafFound
<1>17. PartsFound'
  <2>1. ASSUME fallback = None, NEW k \in DOMAIN Visited.parts, k < call.part + 1
        PROVE  Visited.parts[k] \in mapped'
    <3>1. call.fallback = None /\ e = None
      BY <1>4, <2>1
    <3>2. mapped' = mapped \cup {v}
      BY <1>5, <3>1
    <3>3. k \in Nat
      BY <1>2
    <3>4. CASE k < call.part
      BY <1>1, <3>1, <3>2, <3>4 DEF EngineIInv, DiscoveryOK, PartsFound
    <3>5. CASE k = call.part
      BY <3>2, <3>5
    <3> QED BY <1>2, <2>1, <3>3, <3>4, <3>5
  <2>2. Discovering' <=> Discovering
    BY <1>7 DEF Discovering
  <2>3. Discovering /\ Visited.evidence => Visited.sid \in targets'
    BY <1>1, RememberedFacts
  <2> HIDE DEF fallback, e, v
  <2> QED BY <1>7, <1>9, <2>1, <2>2, <2>3 DEF PartsFound
<1>18. Transforming' => Transforming /\ frozen /\ UNCHANGED <<mapped, kept, snapshot>>
  BY <1>1, <1>2, <1>7, <1>13 DEF Transforming, EngineIInv, CallOK, EngineTypeOK
<1>19. WalkFits'
  BY <1>2, <1>7, <1>18 DEF EngineIInv, DiscoveryOK, WalkFits
<1>20. PartsFit'
  <2> SUFFICES ASSUME Transforming'
               PROVE  IF fallback = None
                      THEN \A j \in DOMAIN Visited.parts : j < call.part + 1 =>
                              PartFitsIn(Visited, Visited.parts[j], mapped, kept, snapshot)
                      ELSE ReasonIn(Visited, fallback, mapped, kept, snapshot)
    <3> HIDE DEF fallback, e, v
    <3> QED BY <1>7, <1>9, <1>18 DEF PartsFit
  <2>1. IF call.fallback = None
        THEN \A j \in DOMAIN Visited.parts : j < call.part =>
                PartFitsIn(Visited, Visited.parts[j], mapped, kept, snapshot)
        ELSE ReasonIn(Visited, call.fallback, mapped, kept, snapshot)
    BY <1>1, <1>18 DEF EngineIInv, DiscoveryOK, PartsFit
  <2>2. /\ e = None => PartFitsIn(Visited, v, mapped, kept, snapshot)
        /\ e # None => ReasonIn(Visited, e, mapped, kept, snapshot)
    BY <1>1, <1>3, <1>18, TransformPart
  <2>3. CASE fallback = None
    <3>1. call.fallback = None /\ e = None
      BY <1>4, <2>3
    <3>2. ASSUME NEW j \in DOMAIN Visited.parts, j < call.part + 1
          PROVE  PartFitsIn(Visited, Visited.parts[j], mapped, kept, snapshot)
      <4>1. j \in Nat
        BY <1>2
      <4>2. j < call.part \/ j = call.part
        BY <1>2, <3>2, <4>1
      <4> HIDE DEF e
      <4> QED BY <2>1, <2>2, <3>1, <4>2
    <3> QED BY <2>3, <3>2
  <2>4. CASE fallback # None
    <3>1. \/ fallback = call.fallback /\ call.fallback # None
          \/ fallback = e /\ e # None
      <4> HIDE DEF e, v
      <4> QED BY <2>4
    <3> HIDE DEF fallback, e, v
    <3> QED BY <2>1, <2>2, <2>4, <3>1
  <2> QED BY <2>3, <2>4
<1> QED BY <1>10, <1>11, <1>12, <1>14, <1>15, <1>16, <1>17, <1>19, <1>20
        DEF EngineIInv, DiscoveryOK

LEMMA CheckRegistryKeeps == ASSUME EngineIInv, CheckRegistry PROVE EngineIInv'
<1>1. /\ Walking /\ Visited.kind = "parts" /\ call.part > Len(Visited.parts)
      /\ parked' = None
      /\ UNCHANGED <<old, oldKept, mapped, kept, frozen, templates, targets, snapshot, locator>>
  BY DEF CheckRegistry, Bridged, engine, registry
<1>2. /\ mapped \subseteq Value /\ templates \subseteq Value /\ targets \subseteq Account
      /\ kept \subseteq mapped \cap Account
  BY DEF EngineIInv, EngineTypeOK
<1>3. CASE parked = None
  <2>1. Go /\ call.fallback = None
    BY <1>1, <1>3 DEF CheckRegistry, EngineIInv, ParkedOK, Walking
  <2>2. call.part \in Nat /\ Visited.parts \in Seq(Value)
    BY <1>1, VisitFacts DEF EngineIInv, Calls
  <2>3. \A k \in DOMAIN Visited.parts : k < call.part
    BY <1>1, <2>2
  <2>4. call.api = "discover_document" => FoundIn(Visited, mapped', templates', targets')
    <3>1. \A k \in DOMAIN Visited.parts : Visited.parts[k] \in mapped
      BY <1>1, <2>1, <2>3 DEF EngineIInv, DiscoveryOK, PartsFound
    <3>2. ASSUME Visited.evidence, Discovering PROVE Visited.sid \in targets
      <4>1. PICK k \in DOMAIN Visited.parts : Visited.parts[k] = Visited.sid
        BY <1>1, <3>2, VisitFacts DEF EngineIInv
      <4>2. call.part > 1
        BY <1>1, <2>2, <4>1
      <4> QED BY <1>1, <3>2, <4>2 DEF EngineIInv, DiscoveryOK, PartsFound
    <3> QED BY <1>1, <3>1, <3>2 DEF FoundIn, Discovering
  <2>5. Transforming => FitsIn(Visited, mapped, kept, snapshot)
    BY <1>1, <2>1, <2>3 DEF EngineIInv, DiscoveryOK, PartsFit, FitsIn
  <2> QED BY <1>1, <1>2, <1>3, <2>1, <2>4, <2>5, Advances
<1>4. CASE parked # None
  <2> DEFINE r == Locate(parked.error, parked.cause)
  <2>1. /\ parked.error \in Errors /\ parked.cause = Here /\ locator = Here
    BY <1>4 DEF EngineIInv, ParkedOK
  <2>2. Return(r)
    BY <1>4 DEF CheckRegistry
  <2>3. r.error # None /\ r.at = r.cause
    BY <2>1, NoneAssumption DEF Locate, Failure
  <2> HIDE DEF r
  <2> QED BY <1>1, <1>2, <2>2, <2>3, GivesUp
<1> QED BY <1>3, <1>4

\* A document that discovery walked to its end is accepted.
LEMMA EndWalkKeeps == ASSUME EngineIInv, EndWalk PROVE EngineIInv'
<1>1. /\ call # Idle /\ call.stage = "walk" /\ call.at > Len(Leaves[call.doc])
      /\ UNCHANGED <<old, oldKept, mapped, kept, frozen, templates, targets, snapshot, parked, locator>>
      /\ call' = Idle /\ result' = Ok
      /\ discovered' = IF call.api = "discover_document" THEN discovered \cup {call.doc}
                       ELSE discovered
  BY DEF EndWalk, Return, engine, registry
<1>2. call \in Calls /\ call.doc \in Document
  BY <1>1 DEF EngineIInv, CallOK
<1>3. ~Walking
  BY <1>1, <1>2, LeavesAssumption DEF Walking, Calls
<1>4. parked = None
  BY <1>3, NothingParked
<1>5. EngineTypeOK' /\ LoadedOK' /\ ToldWhere'
  BY <1>1, <1>2, <1>4 DEF EngineIInv, EngineTypeOK, LoadedOK, ToldWhere, Ok
<1>6. CallOK' /\ ParkedOK' /\ WalkFound' /\ PartsFound' /\ WalkFits' /\ PartsFit'
  BY <1>1, <1>4 DEF CallOK, ParkedOK, WalkFound, PartsFound, WalkFits, PartsFit, Transforming, Walking
<1>7. TemplatesOK' /\ SettledOK'
  BY <1>1 DEF EngineIInv, TemplatesOK, SettledOK
<1>8. Accepted'
  <2>1. ASSUME call.api = "discover_document", NEW i \in DOMAIN Leaves[call.doc]
        PROVE  FoundIn(Leaves[call.doc][i], mapped, templates, targets)
    <3>1. i < call.at
      BY <1>1, <1>2, LeavesAssumption DEF Calls
    <3> QED BY <1>1, <2>1, <3>1 DEF EngineIInv, DiscoveryOK, WalkFound, LeafFound
  <2> QED BY <1>1, <2>1 DEF EngineIInv, DiscoveryOK, Accepted, LeafFound
<1> QED BY <1>5, <1>6, <1>7, <1>8 DEF EngineIInv, DiscoveryOK
----------------------------------------------------------------------------
(* The calls themselves, and finalize_discovery *)

\* The snapshot is where it was, or is taken now that the templates and the
\* targets are mapped.
SnapshotStep ==
    \/ UNCHANGED <<frozen, snapshot>> /\ (snapshot # None => UNCHANGED targets)
    \/ /\ frozen' = TRUE /\ snapshot' # None /\ snapshot' = targets'
       /\ targets' \subseteq kept' /\ templates \subseteq mapped

\* A walk begins at the first element of its document.
LEMMA BeginsWalk ==
    ASSUME EngineIInv, parked' = None,
           NEW api \in Apis \ {"finalize_discovery"}, NEW d \in Document,
           call' = Calling(api, d),
           UNCHANGED <<old, oldKept, mapped, kept, templates, discovered, result>>,
           locator' \in {locator, None},
           targets \subseteq targets', targets' \subseteq Account,
           SnapshotStep,
           api \in {"discover_document", "discover_node"} => snapshot' = None /\ ~frozen',
           api = "transform_document" => snapshot' # None
    PROVE  EngineIInv'
<1>1. /\ call' \in Calls /\ call' # Idle /\ call'.stage = "walk"
      /\ call'.api = api /\ call'.doc = d
      /\ call'.at = 1 /\ call'.part = 1 /\ call'.fallback = None
  BY NewCallFacts DEF Calling
<1>2. EngineTypeOK' /\ LoadedOK' /\ ToldWhere'
  BY DEF EngineIInv, EngineTypeOK, LoadedOK, ToldWhere, SnapshotStep
<1>3. CallOK' /\ ParkedOK'
  BY <1>1 DEF CallOK, ParkedOK, Discovering, Open
<1>4. TemplatesOK' /\ SettledOK'
  BY <1>1 DEF EngineIInv, TemplatesOK, SettledOK, SnapshotStep
<1>5. Accepted'
  BY AcceptedStays DEF EngineIInv, DiscoveryOK
<1>6. WalkFound' /\ WalkFits'
  <2>1. ASSUME NEW i \in DOMAIN Leaves[d] PROVE ~(i < 1)
    BY LeavesAssumption
  <2> QED BY <1>1, <2>1 DEF WalkFound, WalkFits
<1>7. PartsFound' /\ PartsFit'
  <2>1. ASSUME Walking', NEW k \in DOMAIN Visited.parts', k < call'.part PROVE FALSE
    BY <1>1, <1>3, <2>1, NoPartYet
  <2>2. ~(call'.part > 1)
    BY <1>1
  <2> QED BY <1>1, <2>1, <2>2 DEF PartsFound, PartsFit
<1> QED BY <1>2, <1>3, <1>4, <1>5, <1>6, <1>7 DEF EngineIInv, DiscoveryOK

\* A call that ends without a walk, with a result that names no leaf.
LEMMA EndsAtOnce ==
    ASSUME EngineIInv, parked' = None, call' = Idle,
           UNCHANGED <<old, oldKept, mapped, kept, templates, discovered>>,
           result'.at = None,
           locator' \in {locator, None},
           targets \subseteq targets', targets' \subseteq Account,
           SnapshotStep
    PROVE  EngineIInv'
<1>1. EngineTypeOK' /\ LoadedOK' /\ ToldWhere'
  BY DEF EngineIInv, EngineTypeOK, LoadedOK, ToldWhere, SnapshotStep
<1>2. TemplatesOK' /\ SettledOK'
  BY DEF EngineIInv, TemplatesOK, SettledOK, SnapshotStep
<1>3. Accepted'
  BY AcceptedStays DEF EngineIInv, DiscoveryOK
<1>4. CallOK' /\ ParkedOK' /\ WalkFound' /\ PartsFound' /\ WalkFits' /\ PartsFit'
  BY DEF CallOK, ParkedOK, WalkFound, PartsFound, WalkFits, PartsFit, Transforming, Walking
<1> QED BY <1>1, <1>2, <1>3, <1>4 DEF EngineIInv, DiscoveryOK

\* finalize_discovery begins, or transform_document has it begun.
LEMMA BeginsFinalizing ==
    ASSUME EngineIInv, call = Idle, snapshot = None,
           UNCHANGED <<engine, parked, locator, discovered, result>>,
           NEW api, NEW d,
           \/ api = "finalize_discovery" /\ d = None
           \/ api = "transform_document" /\ d \in Document,
           call' = Finalizing(api, d)
    PROVE  EngineIInv'
<1>1. api \in Apis /\ d \in Document \cup {None}
  BY DEF Apis
<1>2. /\ call' \in Calls /\ call' # Idle /\ call'.stage = "templates"
      /\ call'.api = api /\ call'.doc = d /\ call'.fallback = None
  BY <1>1, NewCallFacts
<1>3. ~Walking' /\ parked = None
  BY <1>2, NothingParked DEF Walking
<1>4. EngineTypeOK' /\ LoadedOK' /\ ToldWhere'
  BY <1>3 DEF EngineIInv, EngineTypeOK, LoadedOK, ToldWhere, engine, registry
<1>5. CallOK' /\ ParkedOK'
  BY <1>1, <1>2, <1>3 DEF CallOK, ParkedOK, Discovering, engine
<1>6. TemplatesOK' /\ SettledOK' /\ Accepted'
  BY <1>2 DEF EngineIInv, TemplatesOK, SettledOK, DiscoveryOK, Accepted, LeafFound, engine, registry
<1>7. WalkFound' /\ PartsFound' /\ WalkFits' /\ PartsFit'
  BY <1>2, <1>3 DEF WalkFound, PartsFound, WalkFits, PartsFit, Transforming
<1> QED BY <1>4, <1>5, <1>6, <1>7 DEF EngineIInv, DiscoveryOK

LEMMA BeginDocumentKeeps ==
    ASSUME EngineIInv, call = Idle, NEW d \in Document,
           NEW api \in {"discover_document", "transform_document"},
           BeginDocument(api, d),
           api = "discover_document" => Open,
           api = "transform_document" => snapshot # None
    PROVE  EngineIInv'
<1>1. /\ locator' = None
      /\ UNCHANGED <<old, oldKept, mapped, kept, frozen, templates, snapshot, parked, discovered>>
  BY DEF BeginDocument, registry
<1>2. /\ targets \subseteq targets' /\ targets' \subseteq Account
      /\ snapshot # None => UNCHANGED targets
  BY LeavesAssumption DEF BeginDocument, EngineIInv, EngineTypeOK, Open
<1>3. parked = None /\ api \in Apis \ {"finalize_discovery"} /\ SnapshotStep
  BY <1>1, <1>2, NothingParked DEF Walking, Apis, SnapshotStep
<1>4. CASE NoContexts(d)
  BY <1>1, <1>2, <1>3, <1>4, EndsAtOnce DEF BeginDocument, Failure
<1>5. CASE ~NoContexts(d)
  <2>1. call' = Calling(api, d) /\ UNCHANGED result
    BY <1>5 DEF BeginDocument
  <2> QED BY <1>1, <1>2, <1>3, <2>1, BeginsWalk DEF Open
<1> QED BY <1>4, <1>5

LEMMA CallsKeep ==
    ASSUME EngineIInv,
           \/ \E d \in Document : DiscoverDocument(d) \/ TransformDocument(d)
           \/ \E d \in Document \ Malformed, b \in BOOLEAN : VisitNode(d, b)
           \/ RefuseDiscovery \/ FinalizeDiscovery
    PROVE  EngineIInv'
<1>0. UNCHANGED <<frozen, targets, snapshot>> => SnapshotStep /\ targets' \subseteq Account
  BY DEF SnapshotStep, EngineIInv, EngineTypeOK
<1>1. ASSUME NEW d \in Document, DiscoverDocument(d) PROVE EngineIInv'
  BY <1>1, BeginDocumentKeeps DEF DiscoverDocument
<1>2. ASSUME NEW d \in Document, TransformDocument(d) PROVE EngineIInv'
  <2>1. CASE snapshot # None
    BY <1>2, <2>1, BeginDocumentKeeps DEF TransformDocument
  <2>2. CASE snapshot = None
    BY <1>2, <2>2, BeginsFinalizing DEF TransformDocument
  <2> QED BY <2>1, <2>2
<1>3. ASSUME NEW d \in Document, NEW b \in BOOLEAN, VisitNode(d, b) PROVE EngineIInv'
  <2> DEFINE api == IF b THEN "discover_node" ELSE "transform_node"
  <2>1. /\ call = Idle /\ call' = Calling(api, d) /\ (b => Open)
        /\ UNCHANGED <<old, oldKept, mapped, kept, frozen, templates, targets, snapshot, parked,
                       locator, result, discovered>>
    BY <1>3 DEF VisitNode, engine, registry
  <2>2. parked = None /\ api \in Apis \ {"finalize_discovery"}
    BY <2>1, NothingParked DEF Walking, Apis
  <2>3. /\ api \in {"discover_document", "discover_node"} => snapshot' = None /\ ~frozen'
        /\ api # "transform_document"
    BY <2>1 DEF Open
  <2> HIDE DEF api
  <2> QED BY <1>0, <2>1, <2>2, <2>3, BeginsWalk
<1>4. ASSUME RefuseDiscovery PROVE EngineIInv'
  <2>1. /\ call' = Idle /\ result'.at = None /\ parked = None
        /\ UNCHANGED <<old, oldKept, mapped, kept, frozen, templates, targets, snapshot, parked,
                       locator, discovered>>
    BY <1>4, NothingParked DEF RefuseDiscovery, Failure, engine, registry, Walking
  <2> QED BY <1>0, <2>1, EndsAtOnce
<1>5. ASSUME FinalizeDiscovery PROVE EngineIInv'
  <2>1. CASE snapshot # None
    <3>1. /\ call' = Idle /\ result'.at = None /\ parked = None
          /\ UNCHANGED <<old, oldKept, mapped, kept, frozen, templates, targets, snapshot, parked,
                         locator, discovered>>
      BY <1>5, <2>1, NothingParked DEF FinalizeDiscovery, Ok, engine, registry, Walking
    <3> QED BY <1>0, <3>1, EndsAtOnce
  <2>2. CASE snapshot = None
    BY <1>5, <2>2, BeginsFinalizing DEF FinalizeDiscovery
  <2> QED BY <2>1, <2>2
<1> QED BY <1>1, <1>2, <1>3, <1>4, <1>5

LEMMA MapTemplatesKeeps == ASSUME EngineIInv, MapTemplates PROVE EngineIInv'
<1>1. /\ call # Idle /\ call.stage = "templates" /\ call \in Calls /\ snapshot = None
      /\ UNCHANGED <<old, oldKept, kept, frozen, templates, targets, snapshot, parked, locator>>
  BY DEF MapTemplates, EngineIInv, CallOK
<1>2. ~Walking /\ parked = None
  BY <1>1, NothingParked DEF Walking
<1>3. /\ mapped \subseteq Value /\ templates \subseteq Value /\ targets \subseteq Account
      /\ kept \subseteq mapped \cap Account
  BY DEF EngineIInv, EngineTypeOK
<1>4. CASE \A v \in templates : MapError(v) = None
  <2>1. /\ mapped' = mapped \cup templates
        /\ call' = [call EXCEPT !.stage = "targets", !.settling = targets]
        /\ UNCHANGED <<result, discovered>>
    BY <1>4 DEF MapTemplates
  <2>2. /\ call' \in Calls /\ call'.stage = "targets" /\ call'.settling = targets
        /\ call'.api = call.api /\ call'.doc = call.doc /\ call'.fallback = call.fallback
    <3> DEFINE moved == [call EXCEPT !.stage = "targets"]
               on == [moved EXCEPT !.settling = targets]
    <3>1. /\ moved \in Calls /\ moved.stage = "targets"
          /\ moved.api = call.api /\ moved.doc = call.doc /\ moved.fallback = call.fallback
      BY <1>1 DEF Calls
    <3>2. /\ on \in Calls /\ on.stage = moved.stage /\ on.settling = targets
          /\ on.api = moved.api /\ on.doc = moved.doc /\ on.fallback = moved.fallback
      <4> HIDE DEF moved
      <4> QED BY <1>3, <3>1 DEF Calls
    <3>3. call' = on
      BY <2>1
    <3> HIDE DEF moved, on
    <3> QED BY <3>1, <3>2, <3>3
  <2>3. call' # Idle
    <3>1. call'.api \in Apis
      BY <2>2 DEF Calls
    <3> QED BY <3>1, NoneAssumption DEF Idle
  <2>4. EngineTypeOK' /\ LoadedOK' /\ ToldWhere'
    BY <1>1, <1>2, <1>3, <2>1 DEF EngineIInv, EngineTypeOK, LoadedOK, ToldWhere
  <2>5. CallOK' /\ ParkedOK'
    BY <1>1, <1>2, <2>2, <2>3 DEF EngineIInv, CallOK, ParkedOK, Discovering
  <2>6. TemplatesOK' /\ SettledOK'
    BY <1>1, <2>1, <2>2 DEF EngineIInv, TemplatesOK, SettledOK
  <2>7. Accepted'
    BY <1>1, <2>1, AcceptedStays DEF EngineIInv, DiscoveryOK
  <2>8. WalkFound' /\ PartsFound' /\ WalkFits' /\ PartsFit'
    BY <1>1, <2>2 DEF EngineIInv, CallOK, WalkFound, PartsFound, WalkFits, PartsFit, Transforming, Walking
  <2> QED BY <2>4, <2>5, <2>6, <2>7, <2>8 DEF EngineIInv, DiscoveryOK
<1>5. CASE ~\A v \in templates : MapError(v) = None
  <2>1. UNCHANGED mapped
    BY <1>5 DEF MapTemplates
  <2>2. PICK v \in templates : MapError(v) # None /\ Return(Failure(MapError(v), None, v))
    BY <1>5 DEF MapTemplates
  <2> DEFINE r == Failure(MapError(v), None, v)
  <2>3. r.error # None /\ r.at = None
    BY <2>2 DEF Failure
  <2> HIDE DEF r
  <2> QED BY <1>1, <1>2, <1>3, <2>1, <2>2, <2>3, GivesUp DEF r
<1> QED BY <1>4, <1>5

\* A target that is settled keeps its RID from then on.
LEMMA SettleTargetKeeps == ASSUME EngineIInv, SettleTarget PROVE EngineIInv'
<1> DEFINE v == CHOOSE t \in call.settling : \A u \in call.settling : Rank[t] <= Rank[u]
           d == Domain[v]
           e == IF MapError(d) # None THEN MapError(d) ELSE BindError(v, TRUE)
<1>1. /\ call # Idle /\ call.stage = "targets" /\ call.settling # {} /\ call \in Calls
      /\ snapshot = None
      /\ UNCHANGED <<old, oldKept, frozen, templates, targets, snapshot, parked, locator>>
  BY DEF SettleTarget, EngineIInv, CallOK
<1>2. ~Walking /\ parked = None
  BY <1>1, NothingParked DEF Walking
<1>3. /\ mapped \subseteq Value /\ kept \subseteq mapped \cap Account
      /\ call.settling \subseteq Account
  BY <1>1 DEF EngineIInv, EngineTypeOK, Calls
<1>4. v \in call.settling /\ v \in Account /\ v \in Value /\ d \in Value
  <2>1. v \in call.settling
    BY <1>1, <1>3, FirstTarget, LeavesAssumption
  <2> HIDE DEF v
  <2> QED BY <1>3, <2>1, LeavesAssumption
<1>5. /\ mapped' = mapped \cup {u \in {d} : MapError(d) = None}
                          \cup {u \in {v} : BindError(v, TRUE) = None}
      /\ kept' = IF BindError(v, TRUE) = None THEN Bound(v, TRUE) ELSE kept
      /\ \/ /\ e = None /\ call' = [call EXCEPT !.settling = @ \ {v}]
            /\ UNCHANGED <<result, discovered>>
         \/ e # None /\ Return(Locate(e, v))
  BY DEF SettleTarget
<1> HIDE DEF v, d
<1>6. /\ mapped \subseteq mapped' /\ mapped' \subseteq Value
      /\ kept \subseteq kept' /\ kept' \subseteq mapped' \cap Account
  BY <1>3, <1>4, <1>5 DEF Bound
<1>7. CASE /\ e = None /\ call' = [call EXCEPT !.settling = @ \ {v}]
           /\ UNCHANGED <<result, discovered>>
  <2>1. /\ call' \in Calls /\ call'.stage = "targets" /\ call'.settling = call.settling \ {v}
        /\ call'.api = call.api /\ call'.doc = call.doc /\ call'.fallback = call.fallback
    BY <1>1, <1>7 DEF Calls
  <2>2. call' # Idle
    <3>1. call'.api \in Apis
      BY <2>1 DEF Calls
    <3> QED BY <3>1, NoneAssumption DEF Idle
  <2>3. EngineTypeOK' /\ LoadedOK' /\ ToldWhere'
    BY <1>1, <1>2, <1>6, <1>7 DEF EngineIInv, EngineTypeOK, LoadedOK, ToldWhere
  <2>4. CallOK' /\ ParkedOK'
    BY <1>1, <1>2, <2>1, <2>2 DEF EngineIInv, CallOK, ParkedOK, Discovering
  <2>5. TemplatesOK' /\ SettledOK'
    <3>1. v \in kept'
      BY <1>5, <1>7 DEF Bound
    <3> QED BY <1>1, <1>6, <2>1, <3>1 DEF EngineIInv, TemplatesOK, SettledOK
  <2>6. Accepted'
    BY <1>1, <1>6, <1>7, AcceptedStays DEF EngineIInv, DiscoveryOK
  <2>7. WalkFound' /\ PartsFound' /\ WalkFits' /\ PartsFit'
    BY <1>1, <2>1 DEF EngineIInv, CallOK, WalkFound, PartsFound, WalkFits, PartsFit, Transforming, Walking
  <2> QED BY <2>3, <2>4, <2>5, <2>6, <2>7 DEF EngineIInv, DiscoveryOK
<1>8. CASE e # None /\ Return(Locate(e, v))
  <2> DEFINE r == Locate(e, v)
  <2>1. r.error # None /\ r.cause \notin Place
    BY <1>4, <1>8, NoneAssumption DEF Locate, Failure
  <2> HIDE DEF r, e
  <2> QED BY <1>1, <1>2, <1>6, <1>8, <2>1, GivesUp DEF r
<1> QED BY <1>5, <1>7, <1>8

\* The one step that takes the snapshot.
LEMMA FreezeKeeps == ASSUME EngineIInv, Freeze PROVE EngineIInv'
<1>1. /\ call # Idle /\ call.stage = "targets" /\ call.settling = {}
      /\ frozen' = TRUE /\ snapshot' = targets
      /\ UNCHANGED <<old, oldKept, mapped, kept, templates, targets, parked>>
  BY DEF Freeze
<1>2. ~Walking /\ parked = None
  BY <1>1, NothingParked DEF Walking
<1>3. /\ call.api \in {"finalize_discovery", "transform_document"}
      /\ call.api # "finalize_discovery" => call.doc \in Document
  BY <1>1 DEF EngineIInv, CallOK
<1>4. targets \subseteq Account /\ targets \subseteq kept /\ templates \subseteq mapped
  BY <1>1 DEF EngineIInv, EngineTypeOK, TemplatesOK, SettledOK
<1>5. SnapshotStep /\ snapshot' # None
  <2>1. targets \subseteq Value
    BY <1>4, LeavesAssumption
  <2>2. snapshot' # None
    BY <1>1, <2>1, NoneAssumption
  <2> QED BY <1>1, <1>4, <2>2 DEF SnapshotStep
<1>6. CASE call.api = "finalize_discovery"
  <2>1. Return(Ok) /\ UNCHANGED locator
    BY <1>6 DEF Freeze
  <2>2. call' = Idle /\ result'.at = None /\ UNCHANGED discovered
    BY <1>6, <2>1 DEF Return, Ok
  <2> QED BY <1>1, <1>2, <1>4, <1>5, <2>1, <2>2, EndsAtOnce
<1>7. CASE call.api = "transform_document"
  <2>1. /\ locator' = None /\ UNCHANGED discovered
        /\ IF NoContexts(call.doc)
           THEN result' = Failure("value", None, None) /\ call' = Idle
           ELSE call' = Calling(call.api, call.doc) /\ UNCHANGED result
    BY <1>7 DEF Freeze
  <2>2. CASE NoContexts(call.doc)
    BY <1>1, <1>2, <1>4, <1>5, <2>1, <2>2, EndsAtOnce DEF Failure
  <2>3. CASE ~NoContexts(call.doc)
    <3>1. call.api \in Apis \ {"finalize_discovery"}
      BY <1>7 DEF Apis
    <3> QED BY <1>1, <1>2, <1>3, <1>4, <1>5, <1>7, <2>1, <2>3, <3>1, BeginsWalk
  <2> QED BY <2>2, <2>3
<1> QED BY <1>3, <1>6, <1>7

LEMMA RefuseFreezeKeeps == ASSUME EngineIInv, RefuseFreeze PROVE EngineIInv'
<1> DEFINE r == Failure("unsafe", None, None)
<1>1. /\ call # Idle /\ call.stage = "targets" /\ Return(r)
      /\ UNCHANGED <<old, oldKept, mapped, kept, frozen, templates, targets, snapshot, parked,
                     locator>>
  BY DEF RefuseFreeze, engine, registry
<1>2. parked = None
  BY <1>1, NothingParked DEF Walking
<1>3. r.error # None /\ r.at = None
  BY NoneAssumption DEF Failure, Errors
<1> HIDE DEF r
<1> QED BY <1>1, <1>2, <1>3, GivesUp DEF EngineIInv, EngineTypeOK
----------------------------------------------------------------------------
(* The invariant is inductive *)

LEMMA StepKeeps == ASSUME EngineIInv, EngineStep PROVE EngineIInv'
BY ProjectKeyKeeps, KeyCollisionKeeps, SkipLeafKeeps, RefuseNumberKeeps, MapOpaqueKeeps,
   VisitTemplateKeeps, DeferSidKeeps, BridgePartKeeps, CheckRegistryKeeps, EndWalkKeeps,
   MapTemplatesKeeps, SettleTargetKeeps, FreezeKeeps, RefuseFreezeKeeps DEF EngineStep

LEMMA EngineNextKeeps == ASSUME EngineIInv, EngineNext PROVE EngineIInv'
BY StepKeeps, CallsKeep DEF EngineNext

\* A new engine over a registry that holds what an earlier map brought.
LEMMA FreshOK ==
    ASSUME Fresh, LoadedOK, frozen \in BOOLEAN
    PROVE  EngineIInv
<1>1. EngineTypeOK /\ ToldWhere
  BY DEF Fresh, LoadedOK, EngineTypeOK, ToldWhere, Ok
<1>2. CallOK /\ ParkedOK /\ TemplatesOK /\ SettledOK
  BY DEF Fresh, CallOK, ParkedOK, TemplatesOK, SettledOK
<1>3. DiscoveryOK
  BY DEF Fresh, DiscoveryOK, Accepted, WalkFound, PartsFound, WalkFits, PartsFit, Transforming,
     Walking
<1> QED BY <1>1, <1>2, <1>3 DEF EngineIInv

LEMMA FreshAgainOK ==
    ASSUME EngineIInv, Fresh', UNCHANGED <<old, oldKept>>, frozen' \in BOOLEAN
    PROVE  EngineIInv'
<1>1. EngineTypeOK' /\ ToldWhere' /\ LoadedOK'
  BY DEF EngineIInv, Fresh, EngineTypeOK, LoadedOK, ToldWhere, Ok
<1>2. CallOK' /\ ParkedOK' /\ TemplatesOK' /\ SettledOK'
  BY DEF Fresh, CallOK, ParkedOK, TemplatesOK, SettledOK
<1>3. DiscoveryOK'
  BY DEF Fresh, DiscoveryOK, Accepted, WalkFound, PartsFound, WalkFits, PartsFit, Transforming,
     Walking
<1> QED BY <1>1, <1>2, <1>3 DEF EngineIInv

LEMMA EngineStill == ASSUME EngineIInv, UNCHANGED engineVars PROVE EngineIInv'
BY DEF EngineIInv, EngineTypeOK, LoadedOK, ToldWhere, CallOK, ParkedOK, TemplatesOK, SettledOK,
   DiscoveryOK, Accepted, LeafFound, WalkFound, PartsFound, WalkFits, PartsFit, Transforming,
   Walking, Visited, Here, Discovering, Open, engineVars, engine, registry
----------------------------------------------------------------------------
(* What a step may not do *)

EngineCall ==
    \/ \E d \in Document : DiscoverDocument(d) \/ TransformDocument(d)
    \/ \E d \in Document \ Malformed, b \in BOOLEAN : VisitNode(d, b)
    \/ RefuseDiscovery \/ FinalizeDiscovery

\* A part that was bridged is followed by the next one, or by check_registry.
LEMMA BridgingGoesOn == ASSUME EngineIInv, BridgePart PROVE ~Returns
<1> DEFINE v == Visited.parts[call.part]
           e == IF call.fallback = None THEN PartError(v) ELSE call.fallback
<1>1. call \in Calls
  BY VisitFacts DEF BridgePart, EngineIInv
<1>2. call.fallback \in Errors \cup {None} /\ e \in Errors \cup {None}
  BY <1>1, ErrorFacts, PartFacts DEF Calls
<1>3. \/ call' = [call EXCEPT !.part = @ + 1]
      \/ call' = [call EXCEPT !.part = @ + 1, !.fallback = e]
  BY DEF BridgePart
<1> HIDE DEF e
<1>4. call' # Idle
  BY <1>1, <1>2, <1>3, PartOnFacts
<1> QED BY <1>4 DEF Returns

\* Every call returns the first error it parked and leaves none.
LEMMA FallbackStep ==
    ASSUME EngineIInv, EngineNext, Returns
    PROVE  /\ call.fallback # None => result'.error = call.fallback
           /\ parked' = None
<1>1. ASSUME parked = None, parked' = parked
      PROVE  call.fallback = None /\ parked' = None
  BY <1>1 DEF EngineIInv, ParkedOK, Returns
<1>2. ~EngineCall
  BY DEF Returns, EngineCall, DiscoverDocument, TransformDocument, VisitNode, RefuseDiscovery,
     FinalizeDiscovery
<1>3. CASE ProjectKey \/ KeyCollision \/ SkipLeaf \/ RefuseNumber \/ MapOpaque \/ VisitTemplate
  <2>1. parked = None
    BY <1>3, NothingParked
       DEF ProjectKey, KeyCollision, SkipLeaf, RefuseNumber, MapOpaque, VisitTemplate
  <2>2. parked' = parked
    BY <1>3 DEF ProjectKey, KeyCollision, SkipLeaf, RefuseNumber, MapOpaque, VisitTemplate
  <2> QED BY <1>1, <2>1, <2>2
<1>4. CASE DeferSid
  BY <1>1, <1>4, NothingParked DEF DeferSid, Deferred
<1>5. ~BridgePart
  BY BridgingGoesOn
<1>6. CASE CheckRegistry
  <2>1. parked' = None
    BY <1>6 DEF CheckRegistry
  <2>2. CASE parked = None
    BY <2>1, <2>2 DEF EngineIInv, ParkedOK, Returns
  <2>3. CASE parked # None
    <3>1. parked.error = call.fallback
      BY <2>3 DEF EngineIInv, ParkedOK
    <3>2. result' = Locate(parked.error, parked.cause)
      BY <1>6, <2>3 DEF CheckRegistry, Return
    <3> QED BY <2>1, <3>1, <3>2 DEF Locate, Failure
  <2> QED BY <2>2, <2>3
<1>7. CASE EndWalk
  <2>1. ~Walking
    <3>1. call \in Calls /\ call.doc \in Document /\ call.at > Len(Leaves[call.doc])
      BY <1>7 DEF EndWalk, EngineIInv, CallOK
    <3> QED BY <3>1, LeavesAssumption DEF Walking, Calls
  <2> QED BY <1>1, <1>7, <2>1, NothingParked DEF EndWalk
<1>8. CASE MapTemplates \/ SettleTarget \/ Freeze \/ RefuseFreeze
  <2>1. ~Walking
    BY <1>8 DEF MapTemplates, SettleTarget, Freeze, RefuseFreeze, Walking
  <2>2. parked' = parked
    BY <1>8 DEF MapTemplates, SettleTarget, Freeze, RefuseFreeze
  <2> QED BY <1>1, <2>1, <2>2, NothingParked
<1> QED BY <1>2, <1>3, <1>4, <1>5, <1>6, <1>7, <1>8 DEF EngineNext, EngineStep, EngineCall

\* A frozen registry maps what it maps: after the snapshot no call adds to it.
LEMMA ClosedStep ==
    ASSUME EngineIInv, EngineNext, snapshot # None
    PROVE  UNCHANGED <<mapped, kept, frozen, templates, targets, snapshot>>
<1>1. frozen /\ \A v : MapError(v) = None => mapped \cup {v} = mapped
  <2>1. frozen
    BY DEF EngineIInv, EngineTypeOK
  <2> QED BY <2>1, ErrorFacts
<1>2. call # Idle => ~Discovering /\ call.stage = "walk"
  BY DEF EngineIInv, CallOK, Open
<1>3. CASE EngineCall
  BY <1>3 DEF EngineCall, DiscoverDocument, TransformDocument, VisitNode, RefuseDiscovery,
     FinalizeDiscovery, BeginDocument, Open, engine, registry
<1>4. CASE ProjectKey
  BY <1>1, <1>4 DEF ProjectKey
<1>5. CASE KeyCollision
  BY <1>1, <1>5 DEF KeyCollision
<1>6. CASE MapOpaque
  BY <1>1, <1>6 DEF MapOpaque
<1>7. CASE VisitTemplate
  BY <1>1, <1>2, <1>7 DEF VisitTemplate, Walking
<1>8. CASE BridgePart
  <2> DEFINE v == Visited.parts[call.part]
             keep == Keeps(Visited, v)
  <2>1. PartError(v) = None => v \in mapped /\ (v \in Account => (v \in kept <=> keep))
    BY <1>1, PartFacts
  <2>2. Remembered = targets
    BY <1>2, <1>8 DEF Remembered, BridgePart, Walking
  <2>3. /\ targets' = Remembered
        /\ UNCHANGED <<frozen, templates, snapshot>>
        /\ \/ /\ PartError(v) = None /\ mapped' = mapped \cup {v}
              /\ kept' = IF v \in Account THEN Bound(v, keep) ELSE kept
           \/ UNCHANGED <<mapped, kept>>
    BY <1>8 DEF BridgePart
  <2> HIDE DEF v, keep
  <2> QED BY <2>1, <2>2, <2>3 DEF Bound
<1>9. CASE SkipLeaf \/ RefuseNumber \/ CheckRegistry \/ EndWalk \/ RefuseFreeze
  BY <1>9 DEF SkipLeaf, RefuseNumber, CheckRegistry, EndWalk, RefuseFreeze, engine, registry
<1>10. ~DeferSid /\ ~MapTemplates /\ ~SettleTarget /\ ~Freeze
  BY <1>2 DEF DeferSid, Deferred, Walking, MapTemplates, SettleTarget, Freeze
<1> QED BY <1>3, <1>4, <1>5, <1>6, <1>7, <1>8, <1>9, <1>10
        DEF EngineNext, EngineStep, EngineCall

\* What the facts of the walk say of a leaf, once there is a snapshot.
LEMMA FitFacts ==
    ASSUME EngineIInv, snapshot # None, NEW l, NEW e
    PROVE  /\ FitsIn(l, mapped, kept, snapshot) => ~Contradicted(l) /\ ~Overlooked(l)
           /\ ReasonIn(l, e, mapped, kept, snapshot) =>
                 \/ e = "conflict" /\ Contradicted(l)
                 \/ e = "frozen" /\ Overlooked(l)
<1>1. ASSUME NEW v PROVE Keeps(l, v) <=> (v = l.sid /\ (l.evidence \/ v \in snapshot))
  BY DEF Keeps, Evidence
<1>2. ReasonIn(l, e, mapped, kept, snapshot) =>
         \/ e = "conflict" /\ Contradicted(l)
         \/ e = "frozen" /\ Overlooked(l)
  BY <1>1 DEF ReasonIn, Contradicted, Overlooked
<1>3. FitsIn(l, mapped, kept, snapshot) => ~Contradicted(l) /\ ~Overlooked(l)
  BY <1>1 DEF FitsIn, PartFitsIn, Contradicted, Overlooked
<1> QED BY <1>2, <1>3

\* The transform walk of a discovered document returns the errors of the leaves
\* that no transform can pass, and no others.
LEMMA TransformStep ==
    ASSUME EngineIInv, EngineNext, Returns,
           call.api = "transform_document", call.stage = "walk", call.doc \in discovered
    PROVE  /\ result'.error \in {None, "conflict", "frozen"}
           /\ result'.error = "conflict" =>
                 \E i \in DOMAIN Leaves[call.doc] : Contradicted(Leaves[call.doc][i])
           /\ result'.error = "frozen" =>
                 \E i \in DOMAIN Leaves[call.doc] : Overlooked(Leaves[call.doc][i])
           /\ result'.error = None => \A i \in DOMAIN Leaves[call.doc] :
                 ~Contradicted(Leaves[call.doc][i]) /\ ~Overlooked(Leaves[call.doc][i])
<1>1. /\ Transforming /\ snapshot # None /\ frozen /\ call \in Calls /\ call # Idle
      /\ templates \subseteq mapped /\ mapped \subseteq Value
  BY DEF Returns, Transforming, EngineIInv, CallOK, EngineTypeOK, TemplatesOK
<1>2. ASSUME Walking
      PROVE  /\ FoundIn(Visited, mapped, templates, targets)
             /\ call.at \in DOMAIN Leaves[call.doc] /\ Visited = Leaves[call.doc][call.at]
  <2>1. call.at \in DOMAIN Leaves[call.doc]
    BY <1>2, VisitFacts DEF EngineIInv
  <2> QED BY <1>1, <2>1 DEF EngineIInv, DiscoveryOK, Accepted, LeafFound, Visited, Transforming
\* What discovery found answers, unless discovery overlooked it.
<1>3. ASSUME Walking, Visited.kind \in {"key", "opaque", "template"}, MapError(OnlyPart) # None
      PROVE  MapError(OnlyPart) = "frozen" /\ Overlooked(Visited)
  <2>1. DOMAIN Visited.parts = {1}
    BY <1>3, VisitFacts DEF EngineIInv, Mapping
  <2>2. OnlyPart \notin mapped /\ MapError(OnlyPart) = "frozen"
    BY <1>1, <1>3, ErrorFacts
  <2>3. Visited.spells \in mapped
    BY <1>1, <1>2, <1>3, <2>1, <2>2 DEF FoundIn, OnlyPart
  <2> QED BY <2>1, <2>2, <2>3 DEF Overlooked, OnlyPart
<1>4. ASSUME Walking, Visited.kind \in {"key", "opaque", "template"}, MapError(OnlyPart) # None,
             result'.error = MapError(OnlyPart)
      PROVE  /\ result'.error = "frozen"
             /\ \E i \in DOMAIN Leaves[call.doc] : Overlooked(Leaves[call.doc][i])
  BY <1>2, <1>3, <1>4
<1>5. ASSUME Go PROVE ~Returns
  <2>1. call' # Idle
    BY <1>1, <1>5, OnwardFacts DEF Go
  <2> QED BY <2>1 DEF Returns
<1>6. ~EngineCall
  BY DEF Returns, EngineCall, DiscoverDocument, TransformDocument, VisitNode, RefuseDiscovery,
     FinalizeDiscovery
<1>7. ~KeyCollision /\ ~RefuseNumber
  BY <1>2 DEF KeyCollision, RefuseNumber, FoundIn
<1>8. ~SkipLeaf /\ ~DeferSid
  BY <1>5 DEF SkipLeaf, DeferSid
<1>9. ~MapTemplates /\ ~SettleTarget /\ ~Freeze /\ ~RefuseFreeze
  BY DEF MapTemplates, SettleTarget, Freeze, RefuseFreeze
<1>10. None \notin {"frozen", "conflict"}
  BY NoneAssumption DEF Errors
<1>11. CASE ProjectKey \/ MapOpaque \/ VisitTemplate
  <2>1. Walking /\ Visited.kind \in {"key", "opaque", "template"}
    BY <1>11 DEF ProjectKey, MapOpaque, VisitTemplate
  <2>2. MapError(OnlyPart) # None /\ result'.error = MapError(OnlyPart)
    BY <1>5, <1>11 DEF ProjectKey, MapOpaque, VisitTemplate, Return, Failure
  <2> QED BY <1>4, <1>10, <2>1, <2>2
<1>12. CASE CheckRegistry
  <2>1. Walking /\ Visited.kind = "parts" /\ call.fallback # None
    <3>1. CASE parked = None
      BY <1>5, <1>12, <3>1 DEF CheckRegistry
    <3>2. CASE parked # None
      BY <1>10, <1>12, <3>2, NoneAssumption DEF CheckRegistry, Bridged, EngineIInv, ParkedOK
    <3> QED BY <3>1, <3>2
  <2>2. result'.error = call.fallback
    BY <2>1, FallbackStep
  <2>3. ReasonIn(Visited, call.fallback, mapped, kept, snapshot)
    BY <1>1, <2>1 DEF EngineIInv, DiscoveryOK, PartsFit
  <2>4. \/ call.fallback = "conflict" /\ Contradicted(Visited)
        \/ call.fallback = "frozen" /\ Overlooked(Visited)
    BY <1>1, <2>3, FitFacts
  <2> QED BY <1>2, <1>10, <2>1, <2>2, <2>4
<1>13. CASE EndWalk
  <2>1. result'.error = None
    BY <1>13 DEF EndWalk, Return, Ok
  <2>2. ASSUME NEW i \in DOMAIN Leaves[call.doc]
        PROVE  ~Contradicted(Leaves[call.doc][i]) /\ ~Overlooked(Leaves[call.doc][i])
    <3>1. i < call.at
      <4>1. call.doc \in Document /\ call.at \in Nat /\ call.at > Len(Leaves[call.doc])
        BY <1>1, <1>13 DEF EndWalk, EngineIInv, CallOK, Calls
      <4> QED BY <4>1, LeavesAssumption
    <3>2. FitsIn(Leaves[call.doc][i], mapped, kept, snapshot)
      BY <1>1, <3>1 DEF EngineIInv, DiscoveryOK, WalkFits
    <3> QED BY <1>1, <3>2, FitFacts
  <2> QED BY <1>10, <2>1, <2>2
<1> QED BY <1>6, <1>7, <1>8, <1>9, <1>11, <1>12, <1>13, BridgingGoesOn
        DEF EngineNext, EngineStep, EngineCall
----------------------------------------------------------------------------
(* The drivers *)

\* The documents accepted so far are the first n members but those that did
\* not parse, in their order.
AcceptsPrefix(n) ==
    /\ Len(accepted) = ParsedUpTo(n)
    /\ \A k \in 1..n : members[k] \notin Unparsed =>
          ParsedUpTo(k) \in DOMAIN accepted /\ accepted[ParsedUpTo(k)] = members[k]

DriverTypeOK ==
    /\ members \in Seq(Document \cup Unparsed)
    /\ run \in Run \cup {"library"}
    /\ stage \in {"discover", "discovering", "finalizing", "transform", "verify", "done"}
    /\ next \in Nat \ {0}
    /\ accepted \in Seq(Document) /\ blobs \in Seq(Document) /\ findings \in Seq(Finding)
    /\ outcome = [r \in Run |-> outcome[r]]

\* A driver waits for the call it made before it goes on.
DriverWaits ==
    /\ stage # "done" => run # "library"
    /\ run # "library" /\ stage \in {"discover", "transform", "done"} => call = Idle

ReadOK ==
    /\ stage \in {"discover", "discovering"} =>
          next <= Len(members) + 1 /\ AcceptsPrefix(next - 1)
    /\ stage = "discovering" => next <= Len(members) /\ Member \notin Unparsed
    /\ stage \in {"finalizing", "transform", "verify"} => AcceptsPrefix(Len(members))

\* As long as nothing was found every document transformed is ready.
BlobsOK ==
    /\ stage \in {"discover", "discovering", "finalizing"} => findings = <<>> /\ blobs = <<>>
    /\ stage \in {"transform", "verify"} =>
          /\ next <= Len(accepted) + (IF stage = "verify" THEN 0 ELSE 1)
          /\ findings = <<>> =>
                /\ Len(blobs) = next - 1
                /\ \A i \in 1..(next - 1) :
                      blobs[i] = accepted[i] /\ Findings[accepted[i]] = <<>>

DriverOK == DriverTypeOK /\ DriverWaits /\ ReadOK /\ BlobsOK

\* The inductive invariant.
CollectionIInv == EngineIInv /\ DriverOK /\ PublishedWhole
----------------------------------------------------------------------------
(* What a step of a driver is to the engine *)

\* Every step is a call of the engine, a step of the call under way, nothing to
\* it, or a new engine between two calls.
LEMMA EnginePart ==
    ASSUME CollectionIInv, CollectionNext
    PROVE  \/ EngineNext
           \/ UNCHANGED engineVars
           \/ ~Returns /\ Fresh' /\ UNCHANGED <<old, oldKept>> /\ frozen' = FALSE
<1>1. CASE SkipMember
  BY <1>1 DEF SkipMember
<1>2. CASE DiscoverMember
  <2>1. Member \in Document
    BY <1>2 DEF DiscoverMember, Member, CollectionIInv, DriverOK, DriverTypeOK
  <2> QED BY <1>2, <2>1 DEF DiscoverMember, EngineNext
<1>3. CASE Accept \/ Finalized \/ VerifyMember \/ EndTransform
  BY <1>3 DEF Accept, Finalized, VerifyMember, EndTransform
<1>4. CASE EndDiscovery
  BY <1>4 DEF EndDiscovery, EngineNext
<1>5. CASE TransformMember
  <2>1. accepted[next] \in Document
    BY <1>5 DEF TransformMember, CollectionIInv, DriverOK, DriverTypeOK
  <2> QED BY <1>5, <2>1 DEF TransformMember, EngineNext
<1>6. CASE NextRun
  <2>1. call = Idle
    BY <1>6 DEF NextRun, CollectionIInv, DriverOK, DriverWaits
  <2> QED BY <1>6, <2>1 DEF NextRun, Fresh, Returns
<1>7. CASE EngineStep
  BY <1>7 DEF EngineNext
<1>8. CASE CallLibrary
  BY <1>8 DEF CallLibrary
<1> QED BY <1>1, <1>2, <1>3, <1>4, <1>5, <1>6, <1>7, <1>8 DEF CollectionNext

LEMMA EngineKeeps ==
    ASSUME CollectionIInv, [CollectionNext]_collectionVars
    PROVE  EngineIInv'
<1>1. EngineIInv
  BY DEF CollectionIInv
<1>2. UNCHANGED collectionVars => UNCHANGED engineVars
  BY DEF collectionVars
<1> QED BY <1>1, <1>2, EnginePart, EngineNextKeeps, EngineStill, FreshAgainOK
----------------------------------------------------------------------------
(* The members that parse *)

LEMMA ParsedFacts ==
    ASSUME NEW n \in Nat
    PROVE  /\ ParsedUpTo(n) \in Nat
           /\ ParsedUpTo(0) = 0
           /\ members[n + 1] \notin Unparsed => ParsedUpTo(n + 1) = ParsedUpTo(n) + 1
           /\ members[n + 1] \in Unparsed => ParsedUpTo(n + 1) = ParsedUpTo(n)
<1> DEFINE P(m) == {k \in 1..m : members[k] \notin Unparsed}
<1>1. IsFiniteSet(P(n))
  BY FS_Interval, FS_Subset, P(n) \subseteq 1..n, IsFiniteSet(1..n)
<1>2. P(0) = {}
  OBVIOUS
<1>3. members[n + 1] \notin Unparsed => P(n + 1) = P(n) \cup {n + 1} /\ n + 1 \notin P(n)
  OBVIOUS
<1>4. members[n + 1] \in Unparsed => P(n + 1) = P(n)
  <2> SUFFICES ASSUME members[n + 1] \in Unparsed, NEW k \in Nat
               PROVE  k \in 1..(n + 1) /\ members[k] \notin Unparsed
                      <=> k \in 1..n /\ members[k] \notin Unparsed
    OBVIOUS
  <2>1. CASE k = n + 1
    BY <2>1
  <2>2. CASE k # n + 1
    BY <2>2
  <2> QED BY <2>1, <2>2
<1> HIDE DEF P
<1> QED BY <1>1, <1>2, <1>3, <1>4, FS_EmptySet, FS_AddElement, FS_CardinalityType
        DEF P, ParsedUpTo

LEMMA MembersStay ==
    ASSUME UNCHANGED members
    PROVE  /\ \A n : ParsedUpTo(n)' = ParsedUpTo(n)
           /\ \A n : UNCHANGED accepted /\ AcceptsPrefix(n) => AcceptsPrefix(n)'
           /\ \A p : Whole(p) => Whole(p)'
           /\ UNCHANGED outcome /\ PublishedWhole => PublishedWhole'
<1>1. \A n : ParsedUpTo(n)' = ParsedUpTo(n)
  BY DEF ParsedUpTo
<1>2. \A n : UNCHANGED accepted /\ AcceptsPrefix(n) => AcceptsPrefix(n)'
  BY <1>1 DEF AcceptsPrefix
<1>3. \A p : Whole(p) => Whole(p)'
  BY <1>1 DEF Whole
<1>4. UNCHANGED outcome /\ PublishedWhole => PublishedWhole'
  BY <1>3 DEF PublishedWhole, Ended
<1> QED BY <1>1, <1>2, <1>3, <1>4

\* A member that parses goes behind those accepted before it.
LEMMA AcceptsOneMore ==
    ASSUME DriverTypeOK, UNCHANGED members, AcceptsPrefix(next - 1), next <= Len(members),
           NEW n, n = next,
           \/ Member \notin Unparsed /\ accepted' = Append(accepted, Member)
           \/ Member \in Unparsed /\ accepted' = accepted
    PROVE  accepted' \in Seq(Document) /\ AcceptsPrefix(n)'
<1>1. /\ next - 1 \in Nat /\ (next - 1) + 1 = next /\ accepted \in Seq(Document)
      /\ next \in Nat /\ next >= 1 /\ members \in Seq(Document \cup Unparsed)
  <2>1. /\ next \in Nat \ {0} /\ accepted \in Seq(Document)
        /\ members \in Seq(Document \cup Unparsed)
    BY DEF DriverTypeOK
  <2> QED BY <2>1
<1>2. /\ ParsedUpTo(next - 1) \in Nat
      /\ Member \notin Unparsed => ParsedUpTo(next) = ParsedUpTo(next - 1) + 1
      /\ Member \in Unparsed => ParsedUpTo(next) = ParsedUpTo(next - 1)
  BY <1>1, ParsedFacts DEF Member
<1>3. \A k : ParsedUpTo(k)' = ParsedUpTo(k)
  BY MembersStay
<1>4. Member \notin Unparsed => Member \in Document
  <2>1. next \in DOMAIN members
    BY <1>1
  <2> QED BY <1>1, <2>1 DEF Member
<1>5. CASE Member \notin Unparsed /\ accepted' = Append(accepted, Member)
  <2>1. Len(accepted') = ParsedUpTo(next)
    <3>1. accepted \in Seq(Document) /\ Len(accepted) = ParsedUpTo(next - 1) /\ Member \in Document
      BY <1>1, <1>4, <1>5 DEF AcceptsPrefix
    <3>2. Len(accepted') = Len(accepted) + 1
      BY <1>5, <3>1
    <3> QED BY <1>2, <1>5, <3>1, <3>2
  <2>2. ASSUME NEW k \in 1..next, members[k] \notin Unparsed
        PROVE  ParsedUpTo(k) \in DOMAIN accepted' /\ accepted'[ParsedUpTo(k)] = members[k]
    <3>1. CASE k = next
      BY <1>1, <1>2, <1>4, <1>5, <3>1 DEF AcceptsPrefix, Member
    <3>2. CASE k # next
      <4>1. k \in 1..(next - 1)
        BY <1>1, <3>2
      <4> QED BY <1>1, <1>4, <1>5, <2>2, <4>1 DEF AcceptsPrefix
    <3> QED BY <3>1, <3>2
  <2> QED BY <1>1, <1>3, <1>4, <1>5, <2>1, <2>2 DEF AcceptsPrefix
<1>6. CASE Member \in Unparsed /\ accepted' = accepted
  <2>1. \A k \in 1..next : members[k] \notin Unparsed => k \in 1..(next - 1)
    BY <1>1, <1>6 DEF Member
  <2> QED BY <1>1, <1>2, <1>3, <1>6, <2>1 DEF AcceptsPrefix
<1> QED BY <1>5, <1>6
----------------------------------------------------------------------------
(* Reading *)

LEMMA SkipMemberKeeps == ASSUME CollectionIInv, SkipMember PROVE DriverOK' /\ PublishedWhole'
<1>1. DriverOK /\ PublishedWhole /\ next \in Nat \ {0} /\ next <= Len(members)
  BY DEF CollectionIInv, SkipMember, DriverOK, DriverTypeOK
<1>2. PublishedWhole'
  BY <1>1, MembersStay DEF SkipMember
<1>3. DriverTypeOK' /\ DriverWaits' /\ BlobsOK'
  BY <1>1 DEF SkipMember, DriverOK, DriverTypeOK, DriverWaits, BlobsOK, engineVars
<1>4. \A n : n = next => AcceptsPrefix(n)'
  BY <1>1, AcceptsOneMore DEF SkipMember, DriverOK, ReadOK
<1>5. ReadOK'
  <2>1. next' - 1 = next /\ next' <= Len(members') + 1 /\ stage' = "discover"
    BY <1>1 DEF SkipMember
  <2> QED BY <1>4, <2>1 DEF ReadOK, AcceptsPrefix
<1> QED BY <1>2, <1>3, <1>5 DEF DriverOK

LEMMA DiscoverMemberKeeps ==
    ASSUME CollectionIInv, DiscoverMember PROVE DriverOK' /\ PublishedWhole'
<1>1. DriverOK /\ PublishedWhole /\ UNCHANGED <<members, run, next, accepted, findings, blobs, outcome>>
      /\ stage = "discover" /\ stage' = "discovering" /\ next <= Len(members) /\ Member \notin Unparsed
  BY DEF CollectionIInv, DiscoverMember
<1>2. PublishedWhole'
  BY <1>1, MembersStay
<1>3. DriverTypeOK' /\ DriverWaits' /\ BlobsOK'
  BY <1>1 DEF DriverOK, DriverTypeOK, DriverWaits, BlobsOK
<1>4. ReadOK'
  BY <1>1, MembersStay DEF DriverOK, ReadOK, Member
<1> QED BY <1>2, <1>3, <1>4 DEF DriverOK

\* A run ends with a value that publishes nothing or the whole input.
LEMMA FinishKeeps ==
    ASSUME DriverOK, PublishedWhole, stage # "done", call' = Idle, NEW v, Finish(v),
           run # "inspect" /\ v.published # <<>> => Whole(v.published)
    PROVE  DriverOK' /\ PublishedWhole'
<1>1. /\ run \in Run /\ stage' = "done" /\ outcome' = [outcome EXCEPT ![run] = v]
      /\ UNCHANGED <<members, run, next, accepted, findings, blobs>>
      /\ outcome = [r \in Run |-> outcome[r]]
  BY DEF Finish, DriverOK, DriverTypeOK, DriverWaits
<1>2. outcome' = [r \in Run |-> IF r = run THEN v ELSE outcome[r]]
  BY <1>1
<1>3. DriverTypeOK'
  <2>1. outcome' = [r \in Run |-> outcome'[r]]
    BY <1>2
  <2> QED BY <1>1, <2>1 DEF DriverOK, DriverTypeOK
<1>4. DriverWaits' /\ ReadOK' /\ BlobsOK'
  BY <1>1 DEF DriverOK, DriverWaits, ReadOK, BlobsOK
<1>5. ASSUME NEW r \in {"terse", "verbose"}, Ended(r)', outcome'[r].published # <<>>
      PROVE  Whole(outcome'[r].published)
  <2>1. CASE r = run
    <3>1. outcome'[r] = v
      BY <1>2, <2>1 DEF Run
    <3> QED BY <1>5, <2>1, <3>1
  <2>2. CASE r # run
    <3>1. outcome'[r] = outcome[r]
      BY <1>2, <2>2 DEF Run
    <3> QED BY <1>5, <3>1 DEF PublishedWhole, Ended
  <2> QED BY <2>1, <2>2
<1>6. PublishedWhole'
  <2>1. \A p : Whole(p) => Whole(p)'
    BY <1>1, MembersStay
  <2>2. \A r \in {"terse", "verbose"} : \A p :
          Ended(r)' /\ p = outcome'[r].published /\ p # <<>> => Whole(p)'
    BY <1>5, <2>1
  <2> QED BY <2>2 DEF PublishedWhole, Whole
<1> QED BY <1>3, <1>4, <1>6 DEF DriverOK

LEMMA FinishWithKeeps ==
    ASSUME DriverOK, PublishedWhole, stage # "done", call' = Idle, NEW e, FinishWith(e)
    PROVE  DriverOK' /\ PublishedWhole'
<1> DEFINE v == IF run = "inspect" THEN Report(findings, Stderr(e, TRUE))
                ELSE Abort(<<>>, Stderr(e, run = "verbose"))
<1>1. Finish(v)
  BY DEF FinishWith
<1>2. run # "inspect" => v.published = <<>>
  BY DEF Abort
<1> HIDE DEF v
<1> QED BY <1>1, <1>2, FinishKeeps

LEMMA AcceptKeeps == ASSUME CollectionIInv, Accept PROVE DriverOK' /\ PublishedWhole'
<1>1. DriverOK /\ PublishedWhole /\ stage = "discovering" /\ call' = Idle
  BY DEF CollectionIInv, Accept, engineVars
<1>2. CASE result.error # None
  BY <1>1, <1>2, FinishWithKeeps DEF Accept
<1>3. CASE result.error = None
  <2>1. /\ accepted' = Append(accepted, Member) /\ next' = next + 1 /\ stage' = "discover"
        /\ UNCHANGED <<members, run, findings, blobs, outcome>>
    BY <1>3 DEF Accept
  <2>2. next \in Nat \ {0} /\ next <= Len(members) /\ Member \notin Unparsed
    BY <1>1 DEF DriverOK, DriverTypeOK, ReadOK
  <2>3. accepted' \in Seq(Document) /\ \A n : n = next => AcceptsPrefix(n)'
    BY <1>1, <2>1, <2>2, AcceptsOneMore DEF DriverOK, ReadOK
  <2>4. PublishedWhole'
    BY <1>1, <2>1, MembersStay
  <2>5. DriverTypeOK' /\ DriverWaits' /\ BlobsOK'
    BY <1>1, <2>1, <2>3 DEF DriverOK, DriverTypeOK, DriverWaits, BlobsOK
  <2>6. ReadOK'
    <3>1. next' - 1 = next /\ next' <= Len(members') + 1
      BY <2>1, <2>2
    <3> QED BY <2>1, <2>3, <3>1 DEF ReadOK, AcceptsPrefix
  <2> QED BY <2>4, <2>5, <2>6 DEF DriverOK
<1> QED BY <1>2, <1>3

LEMMA EndDiscoveryKeeps ==
    ASSUME CollectionIInv, EndDiscovery PROVE DriverOK' /\ PublishedWhole'
<1>1. DriverOK /\ PublishedWhole /\ stage = "discover" /\ call = Idle /\ next > Len(members)
  BY DEF CollectionIInv, EndDiscovery, DriverOK, DriverWaits
<1>2. CASE accepted = <<>>
  <2> DEFINE v == Abort(<<>>, NoDocuments)
  <2>1. Finish(v) /\ call' = Idle /\ v.published = <<>>
    BY <1>1, <1>2 DEF EndDiscovery, Abort, engineVars
  <2> HIDE DEF v
  <2> QED BY <1>1, <2>1, FinishKeeps
<1>3. CASE accepted # <<>>
  <2>1. stage' = "finalizing" /\ UNCHANGED <<members, run, next, accepted, findings, blobs, outcome>>
    BY <1>3 DEF EndDiscovery
  <2>2. PublishedWhole'
    BY <1>1, <2>1, MembersStay
  <2>3. DriverTypeOK' /\ DriverWaits' /\ BlobsOK'
    BY <1>1, <2>1 DEF DriverOK, DriverTypeOK, DriverWaits, BlobsOK
  <2>4. ReadOK'
    <3>1. next - 1 = Len(members)
      BY <1>1 DEF DriverOK, DriverTypeOK, ReadOK
    <3>2. \A n : n = Len(members) => AcceptsPrefix(n)
      BY <1>1, <3>1 DEF DriverOK, ReadOK
    <3>3. \A n : n = Len(members) => AcceptsPrefix(n)'
      BY <2>1, <3>2, MembersStay
    <3> QED BY <2>1, <3>3 DEF ReadOK, AcceptsPrefix
  <2> QED BY <2>2, <2>3, <2>4 DEF DriverOK
<1> QED BY <1>2, <1>3
----------------------------------------------------------------------------
(* Transforming *)

LEMMA FinalizedKeeps == ASSUME CollectionIInv, Finalized PROVE DriverOK' /\ PublishedWhole'
<1>1. DriverOK /\ PublishedWhole /\ stage = "finalizing" /\ call' = Idle
  BY DEF CollectionIInv, Finalized, engineVars
<1>2. CASE result.error # None
  BY <1>1, <1>2, FinishWithKeeps DEF Finalized
<1>3. CASE result.error = None
  <2>1. /\ stage' = "transform" /\ next' = 1
        /\ UNCHANGED <<members, run, accepted, findings, blobs, outcome>>
    BY <1>3 DEF Finalized
  <2>2. PublishedWhole'
    BY <1>1, <2>1, MembersStay
  <2>3. DriverTypeOK' /\ DriverWaits' /\ BlobsOK'
    BY <1>1, <2>1 DEF DriverOK, DriverTypeOK, DriverWaits, BlobsOK
  <2>4. ReadOK'
    BY <1>1, <2>1, MembersStay DEF DriverOK, ReadOK
  <2> QED BY <2>2, <2>3, <2>4 DEF DriverOK
<1> QED BY <1>2, <1>3

LEMMA TransformMemberKeeps ==
    ASSUME CollectionIInv, TransformMember PROVE DriverOK' /\ PublishedWhole'
<1>1. /\ DriverOK /\ PublishedWhole /\ stage = "transform" /\ stage' = "verify"
      /\ next <= Len(accepted)
      /\ UNCHANGED <<members, run, next, accepted, findings, blobs, outcome>>
  BY DEF CollectionIInv, TransformMember
<1>2. PublishedWhole'
  BY <1>1, MembersStay
<1>3. DriverTypeOK' /\ DriverWaits' /\ BlobsOK'
  BY <1>1 DEF DriverOK, DriverTypeOK, DriverWaits, BlobsOK
<1>4. ReadOK'
  BY <1>1, MembersStay DEF DriverOK, ReadOK
<1> QED BY <1>2, <1>3, <1>4 DEF DriverOK

LEMMA VerifyMemberKeeps ==
    ASSUME CollectionIInv, VerifyMember PROVE DriverOK' /\ PublishedWhole'
<1>1. DriverOK /\ PublishedWhole /\ stage = "verify" /\ call = Idle /\ call' = Idle
  BY DEF CollectionIInv, VerifyMember, engineVars
<1>2. CASE result.error # None
  BY <1>1, <1>2, FinishWithKeeps DEF VerifyMember
<1>3. CASE result.error = None /\ run = "terse" /\ Found # <<>>
  <2> DEFINE v == Abort(<<Found[1]>>, None)
  <2>1. Finish(v) /\ v.published = <<>>
    BY <1>3 DEF VerifyMember, Abort
  <2> HIDE DEF v
  <2> QED BY <1>1, <2>1, FinishKeeps
<1>4. CASE result.error = None /\ ~(run = "terse" /\ Found # <<>>)
  <2>1. /\ findings' = findings \o Found
        /\ blobs' = IF Found = <<>> THEN Append(blobs, accepted[next]) ELSE blobs
        /\ stage' = "transform" /\ next' = next + 1
        /\ UNCHANGED <<members, run, accepted, outcome>>
    BY <1>4 DEF VerifyMember
  <2>2. /\ next \in Nat \ {0} /\ next <= Len(accepted)
        /\ accepted \in Seq(Document) /\ findings \in Seq(Finding) /\ blobs \in Seq(Document)
    BY <1>1 DEF DriverOK, DriverTypeOK, BlobsOK
  <2>3. accepted[next] \in Document
    BY <2>2
  <2>4. Found \in Seq(Finding)
    BY <2>3, CollectionAssumption DEF Found
  <2>5. findings' \in Seq(Finding) /\ (findings' = <<>> => findings = <<>> /\ Found = <<>>)
    BY <2>1, <2>2, <2>4
  <2>6. PublishedWhole'
    BY <1>1, <2>1, MembersStay
  <2>7. DriverTypeOK' /\ DriverWaits'
    BY SMTT(60), <1>1, <2>1, <2>2, <2>3, <2>5 DEF DriverOK, DriverTypeOK, DriverWaits
  <2>8. ReadOK'
    BY <1>1, <2>1, MembersStay DEF DriverOK, ReadOK
  <2>9. ASSUME findings' = <<>>
        PROVE  /\ Len(blobs') = next
               /\ \A i \in 1..next : blobs'[i] = accepted[i] /\ Findings[accepted[i]] = <<>>
    <3>1. findings = <<>> /\ Found = <<>> /\ blobs' = Append(blobs, accepted[next])
      BY <2>1, <2>5, <2>9
    <3>2. /\ Len(blobs) = next - 1
          /\ \A i \in 1..(next - 1) : blobs[i] = accepted[i] /\ Findings[accepted[i]] = <<>>
      BY <1>1, <3>1 DEF DriverOK, BlobsOK
    <3>3. Len(blobs') = next
      BY <2>2, <2>3, <3>1, <3>2
    <3>4. ASSUME NEW i \in 1..next
          PROVE  blobs'[i] = accepted[i] /\ Findings[accepted[i]] = <<>>
      <4>1. CASE i = next
        BY <2>2, <2>3, <3>1, <3>2, <4>1 DEF Found
      <4>2. CASE i # next
        <5>1. i \in 1..(next - 1)
          BY <2>2, <4>2
        <5> QED BY <2>2, <2>3, <3>1, <3>2, <5>1
      <4> QED BY <4>1, <4>2
    <3> QED BY <3>3, <3>4
  <2>10. BlobsOK'
    <3>1. next' - 1 = next /\ next' <= Len(accepted') + 1 /\ stage' = "transform"
      BY <2>1, <2>2
    <3> QED BY <2>1, <2>9, <3>1 DEF BlobsOK
  <2> QED BY <2>6, <2>7, <2>8, <2>10 DEF DriverOK
<1> QED BY <1>2, <1>3, <1>4

\* Without findings the blobs are all that was accepted, and that is all that
\* parsed.
LEMMA EndTransformKeeps ==
    ASSUME CollectionIInv, EndTransform PROVE DriverOK' /\ PublishedWhole'
<1>1. /\ DriverOK /\ PublishedWhole /\ stage = "transform" /\ call' = Idle
      /\ next > Len(accepted)
  BY DEF CollectionIInv, EndTransform, DriverOK, DriverWaits, engineVars
<1>2. CASE run = "inspect"
  <2> DEFINE v == Report(findings, None)
  <2>1. Finish(v)
    BY <1>2 DEF EndTransform
  <2> HIDE DEF v
  <2> QED BY <1>1, <1>2, <2>1, FinishKeeps
<1>3. CASE run # "inspect" /\ findings # <<>>
  <2> DEFINE v == Abort(findings, None)
  <2>1. Finish(v) /\ v.published = <<>>
    BY <1>3 DEF EndTransform, Abort
  <2> HIDE DEF v
  <2> QED BY <1>1, <2>1, FinishKeeps
<1>4. CASE run # "inspect" /\ findings = <<>>
  <2> DEFINE v == [Abort(<<>>, None) EXCEPT !.published = blobs]
  <2>1. Finish(v) /\ v.published = blobs
    BY <1>4 DEF EndTransform, Abort
  <2>2. /\ accepted \in Seq(Document) /\ blobs \in Seq(Document) /\ next - 1 = Len(accepted)
        /\ AcceptsPrefix(Len(members)) /\ members \in Seq(Document \cup Unparsed)
    BY <1>1 DEF DriverOK, DriverTypeOK, ReadOK, BlobsOK
  <2>3. /\ Len(blobs) = Len(accepted)
        /\ \A i \in 1..Len(accepted) : blobs[i] = accepted[i] /\ Findings[accepted[i]] = <<>>
    BY <1>1, <1>4, <2>2 DEF DriverOK, BlobsOK
  <2>4. Whole(blobs)
    BY <2>2, <2>3 DEF AcceptsPrefix, Whole
  <2> HIDE DEF v
  <2> QED BY <1>1, <2>1, <2>4, FinishKeeps
<1> QED BY <1>2, <1>3, <1>4
----------------------------------------------------------------------------
(* The runs *)

LEMMA NextRunKeeps == ASSUME CollectionIInv, NextRun PROVE DriverOK' /\ PublishedWhole'
<1>1. DriverOK /\ PublishedWhole
  BY DEF CollectionIInv
<1>2. /\ stage' = "discover" /\ next' = 1 /\ accepted' = <<>> /\ findings' = <<>>
      /\ blobs' = <<>> /\ call' = Idle /\ run' \in {"terse", "verbose"}
      /\ UNCHANGED <<members, outcome>>
  BY DEF NextRun
<1>3. DriverTypeOK' /\ DriverWaits' /\ BlobsOK'
  BY <1>1, <1>2 DEF DriverOK, DriverTypeOK, DriverWaits, BlobsOK, Run
<1>4. ReadOK'
  <2>1. \A n : n = 0 => AcceptsPrefix(n)'
    BY <1>2, ParsedFacts, MembersStay DEF AcceptsPrefix
  <2>2. next' <= Len(members') + 1
    BY <1>1, <1>2 DEF DriverOK, DriverTypeOK
  <2> QED BY <1>2, <2>1, <2>2 DEF ReadOK, AcceptsPrefix
<1> QED BY <1>1, <1>2, <1>3, <1>4, MembersStay DEF DriverOK

\* While the engine works the driver that called it waits.
LEMMA EngineWorks ==
    ASSUME CollectionIInv, UNCHANGED <<driver, outcome>>,
           call = Idle => call' = Idle \/ run = "library"
    PROVE  DriverOK' /\ PublishedWhole'
<1>1. DriverOK /\ PublishedWhole
      /\ UNCHANGED <<members, run, stage, next, accepted, findings, blobs, outcome>>
  BY DEF CollectionIInv, driver
<1>2. DriverTypeOK' /\ DriverWaits' /\ BlobsOK'
  BY <1>1 DEF DriverOK, DriverTypeOK, DriverWaits, BlobsOK
<1>3. ReadOK'
  BY <1>1, MembersStay DEF DriverOK, ReadOK, AcceptsPrefix, Member
<1> QED BY <1>1, <1>2, <1>3, MembersStay DEF DriverOK

LEMMA DriverKeeps ==
    ASSUME CollectionIInv, [CollectionNext]_collectionVars
    PROVE  DriverOK' /\ PublishedWhole'
<1>1. EngineStep => call # Idle
  BY DEF EngineStep, ProjectKey, KeyCollision, SkipLeaf, RefuseNumber, MapOpaque, VisitTemplate, DeferSid,
     BridgePart, CheckRegistry, EndWalk, MapTemplates, SettleTarget, Freeze, RefuseFreeze, Walking
<1>2. CASE EngineStep /\ UNCHANGED <<driver, outcome>>
  BY <1>1, <1>2, EngineWorks
<1>3. CASE CallLibrary
  BY <1>3, EngineWorks DEF CallLibrary
<1>4. CASE UNCHANGED collectionVars
  BY <1>4, EngineWorks DEF collectionVars, engineVars
<1> QED BY <1>2, <1>3, <1>4, SkipMemberKeeps, DiscoverMemberKeeps, AcceptKeeps,
           EndDiscoveryKeeps, FinalizedKeeps, TransformMemberKeeps, VerifyMemberKeeps,
           EndTransformKeeps, NextRunKeeps DEF CollectionNext
----------------------------------------------------------------------------
(* Theorems *)

LEMMA InitCollectionIInv == ASSUME CollectionInit PROVE CollectionIInv
<1>1. EngineIInv
  BY FreshOK, LeavesAssumption DEF CollectionInit, EngineInit, LoadedOK
<1>2. /\ stage \in {"discover", "done"} /\ (stage = "discover" <=> run = "inspect")
      /\ run \in {"inspect", "library"}
      /\ next = 1 /\ accepted = <<>> /\ findings = <<>> /\ blobs = <<>> /\ call = Idle
      /\ outcome = [r \in Run |-> None] /\ members \in Seq(Document \cup Unparsed)
  <2>1. members \in Members \/ members = <<>>
    BY DEF CollectionInit
  <2>2. members \in Seq(Document \cup Unparsed)
    <3>1. Members \subseteq Seq(Document \cup Unparsed)
      BY CollectionAssumption
    <3>2. \A S : <<>> \in Seq(S)
      OBVIOUS
    <3>3. CASE members \in Members
      BY <3>1, <3>3
    <3>4. CASE members = <<>>
      BY <3>2, <3>4
    <3> QED BY <2>1, <3>3, <3>4
  <2> QED BY <2>2 DEF CollectionInit, EngineInit, Fresh
<1>3. DriverTypeOK /\ DriverWaits /\ BlobsOK
  BY <1>2 DEF DriverTypeOK, DriverWaits, BlobsOK, Run
<1>4. ReadOK
  <2>1. AcceptsPrefix(0)
    BY <1>2, ParsedFacts DEF AcceptsPrefix
  <2> QED BY <1>2, <2>1 DEF ReadOK
<1>5. PublishedWhole
  BY <1>2 DEF PublishedWhole, Ended, Run
<1> QED BY <1>1, <1>3, <1>4, <1>5 DEF CollectionIInv, DriverOK

\* The drivers and the engine keep their invariant whatever is read, in
\* whatever order a caller of the library makes its calls.
THEOREM CollectionInvariant == CollectionSpec => []CollectionIInv
<1>1. CollectionIInv /\ [CollectionNext]_collectionVars => CollectionIInv'
  BY EngineKeeps, DriverKeeps DEF CollectionIInv
<1> QED BY InitCollectionIInv, <1>1, PTL DEF CollectionSpec

\* The tables of an engine hold values, its locator names a leaf, and an error
\* is parked only while a call is under way.
THEOREM EngineTypeCorrect == CollectionSpec => []EngineTypeOK
<1>1. CollectionIInv => EngineTypeOK
  BY DEF CollectionIInv, EngineIInv
<1> QED BY <1>1, CollectionInvariant, PTL

\* An error raised in a walk is told at its own leaf or at none.
THEOREM ToldWhereItArose == CollectionSpec => []ToldWhere
<1>1. CollectionIInv => ToldWhere
  BY DEF CollectionIInv, EngineIInv
<1> QED BY <1>1, CollectionInvariant, PTL

\* A run publishes every member that parsed or none, and none with a finding.
THEOREM PublishesWhole == CollectionSpec => []PublishedWhole
<1>1. CollectionIInv => PublishedWhole
  BY DEF CollectionIInv
<1> QED BY <1>1, CollectionInvariant, PTL

\* No call that wrote a value through unmapped returns Ok: it returns the first
\* error that was parked and leaves none.
THEOREM FallbacksReported == CollectionSpec => FallbackReported
<1> DEFINE reported == Returns => /\ call.fallback # None => result'.error = call.fallback
                                  /\ parked' = None
<1>1. ASSUME CollectionIInv, [CollectionNext]_collectionVars PROVE reported \/ UNCHANGED engineVars
  <2>1. EngineIInv
    BY <1>1 DEF CollectionIInv
  <2>2. UNCHANGED collectionVars => UNCHANGED engineVars
    BY DEF collectionVars
  <2>3. EngineNext => reported
    BY <2>1, FallbackStep
  <2>4. ~Returns => reported
    OBVIOUS
  <2> HIDE DEF reported
  <2> QED BY <1>1, <2>2, <2>3, <2>4, EnginePart
<1> QED BY <1>1, CollectionInvariant, PTL DEF CollectionSpec, FallbackReported

\* After the snapshot no call of any kind changes a mapping or adds evidence.
THEOREM StaysClosed == CollectionSpec => ClosedForGood
<1> DEFINE same == UNCHANGED <<mapped, kept, frozen, templates, targets, snapshot>>
           closed == snapshot # None => same \/ Fresh'
<1>1. ASSUME CollectionIInv, [CollectionNext]_collectionVars PROVE closed \/ UNCHANGED engineVars
  <2>1. EngineIInv
    BY <1>1 DEF CollectionIInv
  <2>2. UNCHANGED collectionVars => UNCHANGED engineVars
    BY DEF collectionVars
  <2>3. EngineNext => closed
    BY <2>1, ClosedStep
  <2>4. Fresh' => closed
    OBVIOUS
  <2> HIDE DEF closed
  <2> QED BY <1>1, <2>2, <2>3, <2>4, EnginePart
<1> QED BY <1>1, CollectionInvariant, PTL DEF CollectionSpec, ClosedForGood

\* What discovery accepted transforms, unless a leaf of it spells a SID that is
\* mapped as something else, or holds one whose RID it may not keep: such a leaf
\* fails the walk, and nothing else does.
THEOREM DiscoveredGoThrough == CollectionSpec => DiscoveredTransforms
<1> DEFINE through == /\ Returns /\ call.api = "transform_document" /\ call.stage = "walk"
                      /\ call.doc \in discovered
                      => LET refused(P(_)) ==
                                 \E i \in DOMAIN Leaves[call.doc] : P(Leaves[call.doc][i])
                         IN  /\ result'.error \in {None, "conflict", "frozen"}
                             /\ result'.error = "conflict" => refused(Contradicted)
                             /\ result'.error = "frozen" => refused(Overlooked)
                             /\ result'.error = None => ~refused(Contradicted) /\ ~refused(Overlooked)
<1>1. ASSUME CollectionIInv, [CollectionNext]_collectionVars PROVE through \/ UNCHANGED engineVars
  <2>1. EngineIInv
    BY <1>1 DEF CollectionIInv
  <2>2. UNCHANGED collectionVars => UNCHANGED engineVars
    BY DEF collectionVars
  <2>3. EngineNext => through
    BY <2>1, TransformStep
  <2>4. ~Returns => through
    OBVIOUS
  <2> HIDE DEF through
  <2> QED BY <1>1, <2>2, <2>3, <2>4, EnginePart
<1> QED BY <1>1, CollectionInvariant, PTL DEF CollectionSpec, DiscoveredTransforms
----------------------------------------------------------------------------
(* What a run comes to. Every run of an input goes through the same states   *)
(* until it stops: which one comes next is a function of what it knows.      *)

\* What the rest of a run depends on.
Now == [old |-> old, members |-> members, mapped |-> mapped, kept |-> kept, frozen |-> frozen,
        templates |-> templates, targets |-> targets, locator |-> locator, call |-> call,
        error |-> result.error, at |-> result.at,
        stage |-> stage, next |-> next, accepted |-> accepted, findings |-> findings]
Start == [old |-> old, members |-> members, mapped |-> old, kept |-> oldKept, frozen |-> FALSE,
          templates |-> {}, targets |-> {}, locator |-> None, call |-> Idle,
          error |-> None, at |-> None,
          stage |-> "discover", next |-> 1, accepted |-> <<>>, findings |-> <<>>]

States == [old : SUBSET Value, members : Seq(Document \cup Unparsed), mapped : SUBSET Value,
           kept : SUBSET Value, frozen : BOOLEAN, templates : SUBSET Value,
           targets : SUBSET Value, locator : Place \cup {None}, call : Calls \cup {Idle},
           error : Errors \cup {None}, at : Place \cup {None},
           stage : {"discover", "discovering", "finalizing", "transform", "verify"},
           next : Nat, accepted : Seq(Document), findings : Seq(Finding)]
Typed == {s \in States : s.stage = "verify" => s.next \in DOMAIN s.accepted}

\* s with other tables, locator, call and result, and the driver where it was.
With(s, m, k, f, te, ta, l, c, e, a) ==
    [old |-> s.old, members |-> s.members, mapped |-> m, kept |-> k, frozen |-> f,
     templates |-> te, targets |-> ta, locator |-> l, call |-> c, error |-> e, at |-> a,
     stage |-> s.stage, next |-> s.next, accepted |-> s.accepted, findings |-> s.findings]
\* s with the driver elsewhere.
Drive(s, st, n, ac, fs) ==
    [old |-> s.old, members |-> s.members, mapped |-> s.mapped, kept |-> s.kept,
     frozen |-> s.frozen, templates |-> s.templates, targets |-> s.targets,
     locator |-> s.locator, call |-> s.call, error |-> s.error, at |-> s.at,
     stage |-> st, next |-> n, accepted |-> ac, findings |-> fs]

\* The walk goes on to the next element, or the call returns.
Goes(s, m, te, ta, l) ==
    With(s, m, s.kept, s.frozen, te, ta, l, [s.call EXCEPT !.at = @ + 1, !.part = 1], s.error, s.at)
Gives(s, m, l, e, a) ==
    With(s, m, s.kept, s.frozen, s.templates, s.targets, l, Idle, e, a)
\* A call begins on document d.
Begins(s, api, d, ta) ==
    IF NoContexts(d)
    THEN With(s, s.mapped, s.kept, s.frozen, s.templates, s.targets, None, Idle, "value", None)
    ELSE With(s, s.mapped, s.kept, s.frozen, s.templates, ta, None, Calling(api, d), s.error, s.at)
Finalizes(s, api, d) ==
    With(s, s.mapped, s.kept, s.frozen, s.templates, s.targets, s.locator, Finalizing(api, d),
         s.error, s.at)

\* MapError, BindError, PartError, Discovering and Remembered in s.
MapIn(s, v) == IF v \in s.mapped THEN None
               ELSE IF s.frozen THEN "frozen"
               ELSE IF v \in Refused THEN "refused" ELSE None
BindIn(s, v, keep) ==
    IF v \notin s.mapped THEN MapIn(s, v)
    ELSE IF (v \in s.kept <=> keep) \/ ~(s.frozen \/ v \in s.old) THEN None ELSE "conflict"
KeepsIn(s, l, v) == v = l.sid /\ (l.evidence \/ v \in s.targets)
PartIn(s, l, v) == IF v \in Account THEN BindIn(s, v, KeepsIn(s, l, v)) ELSE MapIn(s, v)
BoundIn(s, v, keep) == IF keep THEN s.kept \cup {v} ELSE s.kept \ {v}
DiscoveringIn(s) == s.call.api \in {"discover_document", "discover_node"}
RememberedIn(s, l) == IF DiscoveringIn(s) /\ l.evidence THEN s.targets \cup {l.sid} ELSE s.targets

\* A value is mapped, and the walk goes on or returns the error at a.
MapsOrFails(s, v, l, a) ==
    IF MapIn(s, v) = None THEN Goes(s, s.mapped \cup {v}, s.templates, s.targets, l)
    ELSE Gives(s, s.mapped, l, MapIn(s, v), a)

\* One part of a string that goes through the bridge, or check_registry.
Bridges(s, l, here) ==
    IF s.call.part <= Len(l.parts)
    THEN LET v == l.parts[s.call.part]
             e == PartIn(s, l, v)
         IN  IF e = None
             THEN With(s, s.mapped \cup {v},
                       IF v \in Account THEN BoundIn(s, v, KeepsIn(s, l, v)) ELSE s.kept,
                       s.frozen, s.templates, RememberedIn(s, l), here,
                       [s.call EXCEPT !.part = @ + 1], s.error, s.at)
             ELSE With(s, s.mapped, s.kept, s.frozen, s.templates, RememberedIn(s, l), here,
                       [s.call EXCEPT !.part = @ + 1,
                                      !.fallback = IF @ = None THEN e ELSE @], s.error, s.at)
    ELSE IF s.call.fallback = None THEN Goes(s, s.mapped, s.templates, s.targets, s.locator)
    ELSE Gives(s, s.mapped, s.locator, s.call.fallback, s.locator)

Visits(s, l, here) ==
    IF l.kind = "key" THEN MapsOrFails(s, l.parts[1], s.locator, None)
    ELSE IF l.kind = "sameKey"
         THEN IF MapIn(s, l.parts[1]) = None
              THEN Gives(s, s.mapped \cup {l.parts[1]}, here, "collision", here)
              ELSE Gives(s, s.mapped, s.locator, MapIn(s, l.parts[1]), None)
    ELSE IF l.kind \in {"kept", "scalar"}
         THEN Goes(s, s.mapped, s.templates, s.targets, IF l.kind = "kept" THEN here ELSE s.locator)
    ELSE IF l.kind = "beyond" THEN Gives(s, s.mapped, s.locator, "value", None)
    ELSE IF DiscoveringIn(s) /\ s.call.part = 1 /\ l.spells \in s.mapped
         THEN Goes(s, s.mapped, s.templates, RememberedIn(s, l), here)
    ELSE IF l.kind = "template" /\ DiscoveringIn(s)
         THEN Goes(s, s.mapped, s.templates \cup {l.parts[1]}, s.targets, here)
    ELSE IF l.kind = "parts" THEN Bridges(s, l, here)
    ELSE MapsOrFails(s, l.parts[1], here, here)

\* The step that settles target v, and the freeze.
First(S) == CHOOSE t \in S : \A u \in S : Rank[t] <= Rank[u]
Settles(s, v) ==
    LET d == Domain[v]
        e == IF MapIn(s, d) # None THEN MapIn(s, d) ELSE BindIn(s, v, TRUE)
    IN  With(s, s.mapped \cup {u \in {d} : MapIn(s, d) = None}
                         \cup {u \in {v} : BindIn(s, v, TRUE) = None},
             IF BindIn(s, v, TRUE) = None THEN BoundIn(s, v, TRUE) ELSE s.kept,
             s.frozen, s.templates, s.targets, s.locator,
             IF e = None THEN [s.call EXCEPT !.settling = @ \ {v}] ELSE Idle,
             IF e = None THEN s.error ELSE e, IF e = None THEN s.at ELSE s.locator)
Freezes(s) ==
    IF ~(s.frozen \/ s.mapped \cap Inert = {}) THEN Gives(s, s.mapped, s.locator, "unsafe", None)
    ELSE LET frozenBy(l, c, e, a) ==
                 With(s, s.mapped, s.kept, TRUE, s.templates, s.targets, l, c, e, a)
         IN  IF s.call.api = "finalize_discovery" THEN frozenBy(s.locator, Idle, None, None)
             ELSE IF NoContexts(s.call.doc) THEN frozenBy(None, Idle, "value", None)
             ELSE frozenBy(None, Calling(s.call.api, s.call.doc), s.error, s.at)

Works(s) ==
    IF s.call.stage = "walk"
    THEN IF s.call.at <= Len(Leaves[s.call.doc])
         THEN Visits(s, Leaves[s.call.doc][s.call.at], <<s.call.doc, s.call.at>>)
         ELSE Gives(s, s.mapped, s.locator, None, None)
    ELSE IF s.call.stage = "templates"
    THEN IF \A v \in s.templates : MapIn(s, v) = None
         THEN With(s, s.mapped \cup s.templates, s.kept, s.frozen, s.templates, s.targets,
                   s.locator, [s.call EXCEPT !.stage = "targets", !.settling = s.targets],
                   s.error, s.at)
         ELSE Gives(s, s.mapped, s.locator, "refused", None)
    ELSE IF s.call.settling # {} THEN Settles(s, First(s.call.settling)) ELSE Freezes(s)

\* A run that returns, at a stage of its own.
Stopped(s) ==
    /\ s.call = Idle
    /\ \/ s.stage = "discover" /\ s.next > Len(s.members) /\ s.accepted = <<>>
       \/ s.stage \in {"discovering", "finalizing", "verify"} /\ s.error # None
       \/ s.stage = "transform" /\ s.next > Len(s.accepted)

\* What comes after s, for a run that stops at no finding.
After(s) ==
    IF Stopped(s) THEN s
    ELSE IF s.call # Idle THEN Works(s)
    ELSE IF s.stage = "discover"
    THEN IF s.next > Len(s.members)
         THEN Drive(IF s.frozen THEN Gives(s, s.mapped, s.locator, None, None)
                    ELSE Finalizes(s, "finalize_discovery", None),
                    "finalizing", s.next, s.accepted, s.findings)
         ELSE LET d == s.members[s.next]
              IN  IF d \in Unparsed THEN Drive(s, "discover", s.next + 1, s.accepted, s.findings)
                  ELSE Drive(Begins(s, "discover_document", d, s.targets \cup Defines[d]),
                             "discovering", s.next, s.accepted, s.findings)
    ELSE IF s.stage = "discovering"
    THEN Drive(s, "discover", s.next + 1, Append(s.accepted, s.members[s.next]), s.findings)
    ELSE IF s.stage = "finalizing" THEN Drive(s, "transform", 1, s.accepted, s.findings)
    ELSE IF s.stage = "transform"
    THEN LET d == s.accepted[s.next]
         IN  Drive(IF s.frozen THEN Begins(s, "transform_document", d, s.targets)
                   ELSE Finalizes(s, "transform_document", d),
                   "verify", s.next, s.accepted, s.findings)
    ELSE Drive(s, "transform", s.next + 1, s.accepted, s.findings \o Findings[s.accepted[s.next]])
----------------------------------------------------------------------------
(* One step of a run *)

\* What a run of a driver knows beyond the invariant of its engine.
ResultOK == result.error \in Errors \cup {None} /\ result.at \in Place \cup {None}
Driven == run # "library" => (frozen <=> snapshot # None)

LEMMA Reads ==
    /\ Now.old = old /\ Now.members = members /\ Now.mapped = mapped /\ Now.kept = kept
    /\ Now.frozen = frozen /\ Now.templates = templates /\ Now.targets = targets
    /\ Now.locator = locator /\ Now.call = call /\ Now.error = result.error
    /\ Now.at = result.at /\ Now.stage = stage /\ Now.next = next
    /\ Now.accepted = accepted /\ Now.findings = findings
BY DEF Now

\* In a run the operators of the engine are those of what it knows.
LEMMA Sees ==
    ASSUME EngineIInv, Driven, run # "library"
    PROVE  /\ \A v : MapIn(Now, v) = MapError(v)
           /\ \A v : \A keep \in BOOLEAN : BindIn(Now, v, keep) = BindError(v, keep)
           /\ \A v : PartIn(Now, Visited, v) = PartError(v)
           /\ \A v, keep : BoundIn(Now, v, keep) = Bound(v, keep)
           /\ \A v : KeepsIn(Now, Visited, v) <=> Keeps(Visited, v)
           /\ DiscoveringIn(Now) <=> Discovering
           /\ RememberedIn(Now, Visited) = Remembered
<1>1. \A v : MapIn(Now, v) = MapError(v)
  BY Reads DEF MapIn, MapError
<1>2. \A v : \A keep \in BOOLEAN : BindIn(Now, v, keep) = BindError(v, keep)
  BY <1>1, Reads DEF BindIn, BindError
<1>3. Evidence = targets
  BY DEF EngineIInv, SettledOK, Evidence
<1>4. \A v : KeepsIn(Now, Visited, v) = Keeps(Visited, v)
  BY <1>3, Reads DEF KeepsIn, Keeps
<1>5. \A v : Keeps(Visited, v) \in BOOLEAN
  BY DEF Keeps
<1>6. \A v : PartIn(Now, Visited, v) = PartError(v)
  BY <1>1, <1>2, <1>4, <1>5 DEF PartIn, PartError
<1>7. \A v, keep : BoundIn(Now, v, keep) = Bound(v, keep)
  BY Reads DEF BoundIn, Bound
<1>8. DiscoveringIn(Now) = Discovering
  BY Reads DEF DiscoveringIn, Discovering
<1>9. RememberedIn(Now, Visited) = Remembered
  BY <1>8, Reads DEF RememberedIn, Remembered
<1> QED BY <1>1, <1>2, <1>4, <1>6, <1>7, <1>8, <1>9

\* Where the engine works, and where the driver goes on.
LEMMA Worked ==
    ASSUME UNCHANGED <<driver, old>>
    PROVE  Now' = With(Now, mapped', kept', frozen', templates', targets', locator', call',
                       result'.error, result'.at)
BY DEF Now, With, driver

LEMMA Drove ==
    ASSUME UNCHANGED <<engineVars, members>>
    PROVE  Now' = Drive(Now, stage', next', accepted', findings')
BY DEF Now, Drive, engineVars, engine, registry

LEMMA WorksNow ==
    ASSUME call # Idle PROVE After(Now) = Works(Now)
BY Reads DEF After, Stopped

LEMMA VisitsNow ==
    ASSUME Walking PROVE After(Now) = Visits(Now, Visited, Here)
BY WorksNow, Reads DEF Walking, Works, Visited, Here

\* A step of the engine in a run is the one that comes next.
InRun == EngineIInv /\ Driven /\ run # "library" /\ UNCHANGED <<driver, outcome>>

LEMMA GoesNow ==
    ASSUME InRun, Go, UNCHANGED <<old, kept, frozen>>
    PROVE  Now' = Goes(Now, mapped', templates', targets', locator')
BY Worked, Reads DEF InRun, Go, Onward, Goes

LEMMA GivesNow ==
    ASSUME InRun, NEW r, Return(r), UNCHANGED <<old, frozen, templates, targets>>, UNCHANGED kept
    PROVE  Now' = Gives(Now, mapped', locator', r.error, r.at)
BY Worked, Reads DEF InRun, Return, Gives

\* A leaf that one registry call answers.
LEMMA MapsNow ==
    ASSUME InRun, Walking, NEW at, NEW l,
           UNCHANGED <<old, kept, frozen, templates, targets>>, locator' = l,
           \/ MapError(OnlyPart) = None /\ mapped' = mapped \cup {OnlyPart} /\ Go
           \/ /\ MapError(OnlyPart) # None /\ UNCHANGED mapped
              /\ Return(Failure(MapError(OnlyPart), at, Here))
    PROVE  Now' = MapsOrFails(Now, OnlyPart, l, at)
<1>1. MapIn(Now, OnlyPart) = MapError(OnlyPart)
  BY Sees DEF InRun
<1>2. CASE MapError(OnlyPart) = None /\ mapped' = mapped \cup {OnlyPart} /\ Go
  BY <1>1, <1>2, GoesNow, Reads DEF MapsOrFails
<1>3. CASE /\ MapError(OnlyPart) # None /\ UNCHANGED mapped
           /\ Return(Failure(MapError(OnlyPart), at, Here))
  BY <1>1, <1>3, GivesNow, Reads DEF MapsOrFails, Failure
<1> QED BY <1>2, <1>3

LEMMA NextLeaf ==
    ASSUME InRun, ProjectKey \/ KeyCollision \/ SkipLeaf \/ RefuseNumber \/ MapOpaque
                  \/ VisitTemplate \/ DeferSid
    PROVE  Now' = After(Now)
<1>1. Walking
  BY DEF ProjectKey, KeyCollision, SkipLeaf, RefuseNumber, MapOpaque, VisitTemplate, DeferSid
<1>2. /\ After(Now) = Visits(Now, Visited, Here)
      /\ DiscoveringIn(Now) <=> Discovering
      /\ MapIn(Now, OnlyPart) = MapError(OnlyPart)
      /\ RememberedIn(Now, Visited) = Remembered
      /\ Visited.spells # None => Visited.kind \in {"opaque", "parts", "template"}
      /\ None \notin mapped
  <2>1. mapped \subseteq Value
    BY DEF InRun, EngineIInv, EngineTypeOK
  <2> QED BY <1>1, <2>1, VisitsNow, Sees, VisitFacts, NoneAssumption DEF InRun, EngineIInv
<1>3. CASE ProjectKey
  BY <1>1, <1>2, <1>3, MapsNow, Reads DEF ProjectKey, Visits, OnlyPart
<1>4. CASE KeyCollision
  <2>1. CASE MapError(OnlyPart) = None
    BY <1>2, <1>4, <2>1, GivesNow, Reads DEF KeyCollision, Visits, OnlyPart, Failure
  <2>2. CASE MapError(OnlyPart) # None
    BY <1>2, <1>4, <2>2, GivesNow, Reads DEF KeyCollision, Visits, OnlyPart, Failure
  <2> QED BY <2>1, <2>2
<1>5. CASE SkipLeaf
  BY <1>2, <1>5, GoesNow, Reads DEF SkipLeaf, Visits, engine, registry
<1>6. CASE RefuseNumber
  BY <1>2, <1>6, GivesNow, Reads DEF RefuseNumber, Visits, Failure, engine, registry
<1>7. CASE MapOpaque
  <2>1. Now' = MapsOrFails(Now, OnlyPart, Here, Here)
    BY <1>1, <1>7, MapsNow DEF MapOpaque, MarkLeaf
  <2> QED BY <1>2, <1>7, <2>1, Reads DEF MapOpaque, Deferred, Visits, OnlyPart
<1>8. CASE VisitTemplate
  <2>1. CASE Discovering
    BY <1>2, <1>8, <2>1, GoesNow, Reads DEF VisitTemplate, MarkLeaf, Deferred, Visits, OnlyPart
  <2>2. CASE ~Discovering
    <3>1. Now' = MapsOrFails(Now, OnlyPart, Here, Here)
      BY <1>1, <1>8, <2>2, MapsNow DEF VisitTemplate, MarkLeaf
    <3> QED BY <1>2, <1>8, <2>2, <3>1, Reads DEF VisitTemplate, Deferred, Visits, OnlyPart
  <2> QED BY <2>1, <2>2
<1>9. CASE DeferSid
  BY <1>2, <1>9, GoesNow, Reads DEF DeferSid, Deferred, MarkLeaf, Visits, registry
<1> QED BY <1>3, <1>4, <1>5, <1>6, <1>7, <1>8, <1>9

LEMMA NextPart ==
    ASSUME InRun, BridgePart \/ CheckRegistry
    PROVE  Now' = After(Now)
<1>1. Walking /\ Visited.kind = "parts" /\ ~Deferred
  BY DEF BridgePart, CheckRegistry, Bridged
<1>2. After(Now) = Bridges(Now, Visited, Here)
  BY <1>1, VisitsNow, Sees, Reads DEF Visits, Deferred, InRun
<1>3. CASE BridgePart
  <2> DEFINE v == Visited.parts[call.part]
             e == PartError(v)
  <2>1. /\ PartIn(Now, Visited, v) = e
        /\ BoundIn(Now, v, KeepsIn(Now, Visited, v)) = Bound(v, Keeps(Visited, v))
        /\ RememberedIn(Now, Visited) = Remembered
    <3>1. KeepsIn(Now, Visited, v) = Keeps(Visited, v)
      <4>1. KeepsIn(Now, Visited, v) \in BOOLEAN /\ Keeps(Visited, v) \in BOOLEAN
        BY DEF KeepsIn, Keeps
      <4> QED BY <4>1, Sees DEF InRun
    <3> QED BY <3>1, Sees DEF InRun
  <2>2. /\ locator' = Here /\ targets' = Remembered /\ call.part <= Len(Visited.parts)
        /\ UNCHANGED <<old, frozen, templates, result>>
        /\ \/ /\ e = None /\ mapped' = mapped \cup {v}
              /\ kept' = IF v \in Account THEN Bound(v, Keeps(Visited, v)) ELSE kept
              /\ call' = [call EXCEPT !.part = @ + 1]
           \/ /\ e # None /\ UNCHANGED <<mapped, kept>>
              /\ call' = [call EXCEPT !.part = @ + 1,
                                     !.fallback = IF @ = None THEN e ELSE @]
    BY <1>3 DEF BridgePart, MarkLeaf
  <2>3. Now' = With(Now, mapped', kept', frozen, templates, Remembered, Here, call',
                    result.error, result.at)
    BY <2>2, Worked DEF InRun
  <2>4. Now.call.part <= Len(Visited.parts) /\ Visited.parts[Now.call.part] = v
    BY <2>2, Reads
  <2> HIDE DEF v, e
  <2>5. CASE e = None
    BY <1>2, <2>1, <2>2, <2>3, <2>4, <2>5, Reads DEF Bridges
  <2>6. CASE e # None
    BY <1>2, <2>1, <2>2, <2>3, <2>4, <2>6, Reads DEF Bridges
  <2> QED BY <2>5, <2>6
<1>4. CASE CheckRegistry
  <2>1. /\ call.part > Len(Visited.parts) /\ call.part \in Nat /\ Visited.parts \in Seq(Value)
        /\ ~(call.part <= Len(Visited.parts))
    <3>1. call.part > Len(Visited.parts)
      BY <1>4 DEF CheckRegistry
    <3>2. call.part \in Nat /\ Visited.parts \in Seq(Value)
      BY <1>1, VisitFacts DEF InRun, EngineIInv, Calls
    <3> QED BY <3>1, <3>2
  <2>2. CASE parked = None
    <3>1. Go /\ call.fallback = None /\ UNCHANGED <<engine, locator>>
      BY <1>1, <1>4, <2>2 DEF CheckRegistry, InRun, EngineIInv, ParkedOK, Walking
    <3> QED BY <1>2, <2>1, <3>1, GoesNow, Reads DEF Bridges, engine, registry
  <2>3. CASE parked # None
    <3>1. /\ Return(Locate(parked.error, parked.cause)) /\ parked.error = call.fallback
          /\ call.fallback # None /\ UNCHANGED <<engine, locator>>
      BY <1>4, <2>3, NoneAssumption DEF CheckRegistry, InRun, EngineIInv, ParkedOK
    <3> QED BY <1>2, <2>1, <3>1, GivesNow, Reads DEF Bridges, Locate, Failure, engine, registry
  <2> QED BY <2>2, <2>3
<1> QED BY <1>3, <1>4

LEMMA NextFinal ==
    ASSUME InRun, EndWalk \/ MapTemplates \/ SettleTarget \/ Freeze \/ RefuseFreeze
    PROVE  Now' = After(Now)
<1>1. call # Idle /\ After(Now) = Works(Now)
  BY WorksNow DEF EndWalk, MapTemplates, SettleTarget, Freeze, RefuseFreeze
<1>2. /\ \A v : MapIn(Now, v) = MapError(v)
      /\ \A v : BindIn(Now, v, TRUE) = BindError(v, TRUE) /\ BoundIn(Now, v, TRUE) = Bound(v, TRUE)
  BY Sees DEF InRun
<1>3. CASE EndWalk
  <2>1. ~(call.at <= Len(Leaves[call.doc])) /\ call.stage = "walk" /\ Return(Ok)
        /\ UNCHANGED <<engine, locator>>
    <3>1. call.doc \in Document /\ call.at \in Nat /\ call.at > Len(Leaves[call.doc])
      BY <1>3 DEF EndWalk, InRun, EngineIInv, CallOK, Calls
    <3> QED BY <1>3, <3>1, LeavesAssumption DEF EndWalk
  <2> QED BY <1>1, <2>1, GivesNow, Reads DEF Works, Ok, engine, registry
<1>4. CASE MapTemplates
  <2>1. call.stage = "templates" /\ ~frozen
    BY <1>4 DEF MapTemplates, InRun, Driven, EngineIInv, CallOK
  <2>2. CASE \A v \in templates : MapError(v) = None
    <3>1. /\ mapped' = mapped \cup templates
          /\ call' = [call EXCEPT !.stage = "targets", !.settling = targets]
          /\ UNCHANGED <<old, kept, frozen, templates, targets, locator, result>>
      BY <1>4, <2>2 DEF MapTemplates
    <3> QED BY <1>1, <1>2, <2>1, <2>2, <3>1, Worked, Reads DEF InRun, Works
  <2>3. CASE ~\A v \in templates : MapError(v) = None
    <3>1. PICK v \in templates : MapError(v) # None /\ Return(Failure(MapError(v), None, v))
      BY <1>4, <2>3 DEF MapTemplates
    <3>2. MapError(v) = "refused"
      BY <2>1, <3>1 DEF MapError
    <3>3. UNCHANGED <<old, mapped, kept, frozen, templates, targets, locator>>
      BY <1>4, <2>3 DEF MapTemplates
    <3>4. Now' = Gives(Now, mapped, locator, "refused", None)
      BY <3>1, <3>2, <3>3, GivesNow DEF Failure
    <3> QED BY <1>1, <1>2, <2>1, <2>3, <3>4, Reads DEF Works
  <2> QED BY <2>2, <2>3
<1>5. CASE SettleTarget
  <2> DEFINE v == First(call.settling)
             d == Domain[v]
             e == IF MapError(d) # None THEN MapError(d) ELSE BindError(v, TRUE)
  <2>1. /\ call.stage = "targets" /\ call.settling # {}
        /\ UNCHANGED <<old, frozen, templates, targets, locator>>
        /\ mapped' = mapped \cup {u \in {d} : MapError(d) = None}
                            \cup {u \in {v} : BindError(v, TRUE) = None}
        /\ kept' = IF BindError(v, TRUE) = None THEN Bound(v, TRUE) ELSE kept
        /\ IF e = None THEN call' = [call EXCEPT !.settling = @ \ {v}] /\ UNCHANGED result
           ELSE Return(Locate(e, v))
    BY <1>5 DEF SettleTarget, First
  <2>2. After(Now) = Settles(Now, v)
    <3>1. Now.call.settling = call.settling /\ Now.call.stage = "targets"
      BY <2>1, Reads
    <3> HIDE DEF v
    <3>2. After(Now) = Settles(Now, First(Now.call.settling))
      BY <1>1, <2>1, <3>1 DEF Works
    <3> QED BY <3>1, <3>2 DEF v
  <2> HIDE DEF v, d
  <2>3. /\ MapIn(Now, d) = MapError(d) /\ BindIn(Now, v, TRUE) = BindError(v, TRUE)
        /\ BoundIn(Now, v, TRUE) = Bound(v, TRUE)
    BY <1>2
  <2>4. Now' = With(Now, mapped', kept', frozen, templates, targets, locator, call',
                    result'.error, result'.at)
    BY <2>1, Worked DEF InRun
  <2>5. CASE e = None
    <3>1. call' = [call EXCEPT !.settling = @ \ {v}] /\ UNCHANGED result
      BY <2>1, <2>5
    <3> QED BY <2>1, <2>2, <2>3, <2>4, <2>5, <3>1, Reads DEF Settles, d
  <2>6. CASE e # None
    <3>1. call' = Idle /\ result'.error = e /\ result'.at = locator
      <4> HIDE DEF e
      <4> QED BY <2>1, <2>6 DEF Return, Locate, Failure
    <3> QED BY <2>1, <2>2, <2>3, <2>4, <2>6, <3>1, Reads DEF Settles, d
  <2> QED BY <2>5, <2>6
<1>6. CASE Freeze
  <2>1. /\ call.stage = "targets" /\ call.settling = {} /\ (frozen \/ mapped \cap Inert = {})
        /\ frozen' = TRUE /\ UNCHANGED <<old, mapped, kept, templates, targets>>
    BY <1>6 DEF Freeze
  <2>2. After(Now) = Freezes(Now)
    BY <1>1, <2>1, Reads DEF Works
  <2>3. Now' = With(Now, mapped, kept, TRUE, templates, targets, locator', call',
                    result'.error, result'.at)
    BY <2>1, Worked DEF InRun
  <2>4. CASE call.api = "finalize_discovery"
    <3>1. call' = Idle /\ result' = Ok /\ UNCHANGED locator
      BY <1>6, <2>4 DEF Freeze, Return
    <3> QED BY <2>1, <2>2, <2>3, <2>4, <3>1, Reads DEF Freezes, Ok
  <2>5. CASE call.api # "finalize_discovery" /\ NoContexts(call.doc)
    <3>1. call' = Idle /\ result' = Failure("value", None, None) /\ locator' = None
      BY <1>6, <2>5 DEF Freeze
    <3> QED BY <2>1, <2>2, <2>3, <2>5, <3>1, Reads DEF Freezes, Failure
  <2>6. CASE call.api # "finalize_discovery" /\ ~NoContexts(call.doc)
    <3>1. call' = Calling(call.api, call.doc) /\ UNCHANGED result /\ locator' = None
      BY <1>6, <2>6 DEF Freeze
    <3> QED BY <2>1, <2>2, <2>3, <2>6, <3>1, Reads DEF Freezes
  <2> QED BY <2>4, <2>5, <2>6
<1>7. CASE RefuseFreeze
  <2>1. /\ call.stage = "targets" /\ call.settling = {} /\ ~frozen /\ mapped \cap Inert # {}
        /\ Return(Failure("unsafe", None, None)) /\ UNCHANGED <<engine, locator>>
    BY <1>7 DEF RefuseFreeze
  <2>2. Now' = Gives(Now, mapped, locator, "unsafe", None)
    BY <2>1, GivesNow DEF Failure, engine, registry
  <2> QED BY <1>1, <2>1, <2>2, Reads DEF Works, Freezes
<1> QED BY <1>3, <1>4, <1>5, <1>6, <1>7

LEMMA EngineFollows ==
    ASSUME InRun, EngineStep PROVE Now' = After(Now)
BY NextLeaf, NextPart, NextFinal DEF EngineStep
\* A call that begins, and the driver that made it.
LEMMA CalledNow ==
    ASSUME UNCHANGED <<old, members, mapped, kept, frozen, templates>>
    PROVE  Now' = Drive(With(Now, mapped, kept, frozen, templates, targets', locator', call',
                             result'.error, result'.at), stage', next', accepted', findings')
BY DEF Now, With, Drive

LEMMA BeginsNow ==
    ASSUME NEW api \in {"discover_document", "transform_document"}, NEW d,
           BeginDocument(api, d), UNCHANGED <<members, old>>
    PROVE  Now' = Drive(Begins(Now, api, d, IF api = "discover_document"
                                            THEN targets \cup Defines[d] ELSE targets),
                        stage', next', accepted', findings')
<1>1. /\ locator' = None /\ UNCHANGED <<old, mapped, kept, frozen, templates>>
      /\ IF NoContexts(d) THEN /\ result' = Failure("value", None, None) /\ call' = Idle
                               /\ UNCHANGED targets
         ELSE /\ call' = Calling(api, d) /\ UNCHANGED result
              /\ targets' = IF api = "discover_document" THEN targets \cup Defines[d] ELSE targets
  BY DEF BeginDocument, registry
<1>2. CASE NoContexts(d)
  <2>1. /\ call' = Idle /\ UNCHANGED targets /\ result'.error = "value" /\ result'.at = None
    BY <1>1, <1>2 DEF Failure
  <2> QED BY <1>1, <1>2, <2>1, CalledNow, Reads DEF Begins
<1>3. CASE ~NoContexts(d)
  BY <1>1, <1>3, CalledNow, Reads DEF Begins
<1> QED BY <1>2, <1>3

LEMMA FinalizesNow ==
    ASSUME NEW api, NEW d, call' = Finalizing(api, d),
           UNCHANGED <<engine, locator, result, members>>
    PROVE  Now' = Drive(Finalizes(Now, api, d), stage', next', accepted', findings')
<1>1. UNCHANGED <<old, members, mapped, kept, frozen, templates, targets, locator, result>>
  BY DEF engine, registry
<1> QED BY <1>1, CalledNow, Reads DEF Finalizes

\* A driver goes on to what comes next, or ends the run: at a state that stops,
\* or a terse one at the first finding.
Ending ==
    \/ Stopped(Now)
    \/ run = "terse" /\ stage = "verify" /\ call = Idle /\ result.error = None /\ Found # <<>>

InStage == CollectionIInv /\ Driven /\ run # "library"

LEMMA ReadsOn ==
    ASSUME InStage, SkipMember \/ DiscoverMember PROVE Now' = After(Now)
<1>1. /\ stage = "discover" /\ call = Idle /\ next <= Len(members) /\ next \in Nat
      /\ members \in Seq(Document \cup Unparsed) /\ ~(next > Len(members))
  <2>1. stage = "discover" /\ call = Idle /\ next <= Len(members)
    BY DEF SkipMember, DiscoverMember, InStage, CollectionIInv, DriverOK, DriverWaits
  <2>2. next \in Nat /\ members \in Seq(Document \cup Unparsed)
    BY DEF InStage, CollectionIInv, DriverOK, DriverTypeOK
  <2> QED BY <2>1, <2>2
<1>2. ~Stopped(Now)
  BY <1>1, Reads DEF Stopped
<1>3. CASE SkipMember
  <2>1. /\ Now' = Drive(Now, stage', next', accepted', findings')
        /\ stage' = "discover" /\ next' = next + 1 /\ UNCHANGED <<accepted, findings>>
        /\ Member \in Unparsed
    BY <1>1, <1>3, Drove DEF SkipMember
  <2> QED BY <1>1, <1>2, <2>1, Reads DEF After, Member
<1>4. CASE DiscoverMember
  <2>1. /\ BeginDocument("discover_document", Member) /\ stage' = "discovering"
        /\ UNCHANGED <<members, old, next, accepted, findings>> /\ Member \notin Unparsed
    BY <1>4 DEF DiscoverMember, DiscoverDocument, BeginDocument, registry
  <2>2. Now' = Drive(Begins(Now, "discover_document", Member, targets \cup Defines[Member]),
                     "discovering", next, accepted, findings)
    BY <2>1, BeginsNow
  <2> QED BY <1>1, <1>2, <2>1, <2>2, Reads DEF After, Member
<1> QED BY <1>3, <1>4

LEMMA AcceptsOn ==
    ASSUME InStage, Accept \/ Finalized
    PROVE  IF stage' = "done" THEN Stopped(Now) ELSE Now' = After(Now)
<1>1. stage \in {"discovering", "finalizing"} /\ call = Idle /\ UNCHANGED engineVars
  BY DEF Accept, Finalized
<1>2. CASE result.error # None
  <2>1. Stopped(Now)
    BY <1>1, <1>2, Reads DEF Stopped
  <2>2. stage' = "done"
    BY <1>2 DEF Accept, Finalized, FinishWith, Finish
  <2> QED BY <2>1, <2>2
<1>3. CASE result.error = None
  <2>1. ~Stopped(Now)
    BY <1>1, <1>3, Reads DEF Stopped
  <2>2. CASE Accept
    <3>1. /\ accepted' = Append(accepted, Member) /\ next' = next + 1 /\ stage' = "discover"
          /\ UNCHANGED <<members, findings>> /\ stage = "discovering"
      BY <1>3, <2>2 DEF Accept
    <3>2. Now' = Drive(Now, stage', next', accepted', findings')
      BY <1>1, <3>1, Drove
    <3> QED BY <1>1, <2>1, <3>1, <3>2, Reads DEF After, Member
  <2>3. CASE Finalized
    <3>1. /\ stage' = "transform" /\ next' = 1 /\ UNCHANGED <<members, accepted, findings>>
          /\ stage = "finalizing"
      BY <1>3, <2>3 DEF Finalized
    <3>2. Now' = Drive(Now, stage', next', accepted', findings')
      BY <1>1, <3>1, Drove
    <3> QED BY <1>1, <2>1, <3>1, <3>2, Reads DEF After
  <2> QED BY <2>2, <2>3
<1> QED BY <1>2, <1>3

LEMMA EndsDiscovery ==
    ASSUME InStage, EndDiscovery
    PROVE  IF stage' = "done" THEN Stopped(Now) /\ accepted = <<>> ELSE Now' = After(Now) /\ accepted # <<>>
<1>1. stage = "discover" /\ next > Len(members) /\ call = Idle
  BY DEF EndDiscovery, InStage, CollectionIInv, DriverOK, DriverWaits
<1>2. CASE accepted = <<>>
  <2>1. Stopped(Now)
    BY <1>1, <1>2, Reads DEF Stopped
  <2>2. stage' = "done"
    BY <1>2 DEF EndDiscovery, Finish
  <2> QED BY <1>2, <2>1, <2>2
<1>3. CASE accepted # <<>>
  <2>1. ~Stopped(Now)
    BY <1>1, <1>3, Reads DEF Stopped
  <2>2. /\ FinalizeDiscovery /\ stage' = "finalizing"
        /\ UNCHANGED <<members, next, accepted, findings>>
    BY <1>3 DEF EndDiscovery
  <2>3. CASE snapshot # None
    <3>1. result' = Ok /\ UNCHANGED <<call, engine, locator>>
      BY <2>2, <2>3 DEF FinalizeDiscovery
    <3>2. UNCHANGED <<old, mapped, kept, frozen, templates, targets>>
      BY <3>1 DEF engine, registry
    <3>3. Now' = Drive(Gives(Now, mapped, locator, None, None), "finalizing", next, accepted,
                       findings)
      BY <1>1, <2>2, <3>1, <3>2, CalledNow, Reads DEF Gives, Ok
    <3>4. frozen
      BY <2>3 DEF InStage, Driven
    <3> QED BY <1>1, <1>3, <2>1, <2>2, <3>3, <3>4, Reads DEF After
  <2>4. CASE snapshot = None
    <3>1. call' = Finalizing("finalize_discovery", None) /\ UNCHANGED <<engine, locator, result>>
      BY <2>2, <2>4 DEF FinalizeDiscovery
    <3>2. Now' = Drive(Finalizes(Now, "finalize_discovery", None), "finalizing", next, accepted,
                       findings)
      BY <2>2, <3>1, FinalizesNow
    <3>3. ~frozen
      BY <2>4 DEF InStage, Driven
    <3> QED BY <1>1, <1>3, <2>1, <2>2, <3>2, <3>3, Reads DEF After
  <2> QED BY <2>3, <2>4
<1> QED BY <1>2, <1>3

LEMMA TransformsOn ==
    ASSUME InStage, TransformMember PROVE Now' = After(Now)
<1> DEFINE d == accepted[next]
<1>1. /\ stage = "transform" /\ ~(next > Len(accepted)) /\ call = Idle /\ TransformDocument(d)
      /\ stage' = "verify" /\ UNCHANGED <<members, next, accepted, findings>>
  <2>1. next <= Len(accepted) /\ next \in Nat /\ accepted \in Seq(Document)
    BY DEF TransformMember, InStage, CollectionIInv, DriverOK, DriverTypeOK
  <2> QED BY <2>1 DEF TransformMember, TransformDocument
<1>2. ~Stopped(Now)
  BY <1>1, Reads DEF Stopped
<1> HIDE DEF d
<1>3. CASE snapshot # None
  <2>1. BeginDocument("transform_document", d) /\ UNCHANGED old /\ frozen
    BY <1>1, <1>3 DEF TransformDocument, BeginDocument, registry, InStage, Driven
  <2>2. Now' = Drive(Begins(Now, "transform_document", d, targets), "verify", next, accepted,
                     findings)
    BY <1>1, <2>1, BeginsNow
  <2> QED BY <1>1, <1>2, <2>1, <2>2, Reads DEF After, d
<1>4. CASE snapshot = None
  <2>1. /\ call' = Finalizing("transform_document", d) /\ UNCHANGED <<engine, locator, result>>
        /\ ~frozen
    BY <1>1, <1>4 DEF TransformDocument, InStage, Driven
  <2>2. Now' = Drive(Finalizes(Now, "transform_document", d), "verify", next, accepted, findings)
    BY <1>1, <2>1, FinalizesNow
  <2> QED BY <1>1, <1>2, <2>1, <2>2, Reads DEF After, d
<1> QED BY <1>3, <1>4

LEMMA VerifiesOn ==
    ASSUME InStage, VerifyMember \/ EndTransform
    PROVE  IF stage' = "done" THEN Ending ELSE Now' = After(Now)
<1>1. UNCHANGED engineVars /\ call = Idle
  BY DEF VerifyMember, EndTransform, InStage, CollectionIInv, DriverOK, DriverWaits
<1>2. CASE EndTransform
  BY <1>1, <1>2, Reads DEF EndTransform, Finish, Ending, Stopped
<1>3. CASE VerifyMember /\ result.error # None
  BY <1>1, <1>3, Reads DEF VerifyMember, FinishWith, Finish, Ending, Stopped
<1>4. CASE VerifyMember /\ result.error = None /\ run = "terse" /\ Found # <<>>
  BY <1>1, <1>4 DEF VerifyMember, Finish, Ending
<1>5. CASE VerifyMember /\ result.error = None /\ ~(run = "terse" /\ Found # <<>>)
  <2>1. /\ findings' = findings \o Found /\ stage' = "transform" /\ next' = next + 1
        /\ UNCHANGED <<members, accepted>> /\ stage = "verify"
    BY <1>5 DEF VerifyMember
  <2>2. Now' = Drive(Now, stage', next', accepted', findings')
    BY <1>1, <2>1, Drove
  <2>3. ~Stopped(Now)
    BY <1>5, <2>1, Reads DEF Stopped
  <2> QED BY <1>1, <2>1, <2>2, <2>3, Reads DEF After, Found
<1> QED BY <1>2, <1>3, <1>4, <1>5
----------------------------------------------------------------------------
(* What is the same in every run *)

\* What a call returns is an error of its own kind, told at a leaf or at none.
LEMMA ResultStep == ASSUME EngineIInv, ResultOK, EngineNext PROVE ResultOK'
<1>1. ASSUME NEW r, Return(r), r.error \in Errors \cup {None}, r.at \in Place \cup {None}
      PROVE  ResultOK'
  BY <1>1 DEF Return, ResultOK
<1>2. ASSUME UNCHANGED result PROVE ResultOK'
  BY <1>2 DEF ResultOK
<1>3. ASSUME NEW e, NEW at, NEW cause, Return(Failure(e, at, cause)), e \in Errors,
             at \in Place \cup {None}
      PROVE  ResultOK'
  BY <1>1, <1>3 DEF Failure
<1>4. locator \in Place \cup {None} /\ (Walking => Here \in Place)
  BY VisitFacts DEF EngineIInv, EngineTypeOK
<1>5. \A v : MapError(v) # None => MapError(v) \in Errors
  BY ErrorFacts
<1>6. {"value", "runtime", "collision", "unsafe"} \subseteq Errors
  BY DEF Errors
<1>7. CASE EngineCall
  <2>1. \/ UNCHANGED result
        \/ result' = Failure("value", None, None) \/ result' = Failure("runtime", None, None)
        \/ result' = Ok
    BY <1>7 DEF EngineCall, DiscoverDocument, TransformDocument, VisitNode, RefuseDiscovery,
       FinalizeDiscovery, BeginDocument
  <2> QED BY <1>2, <1>6, <2>1 DEF Failure, Ok, ResultOK
<1>8. CASE ProjectKey
  BY <1>2, <1>3, <1>5, <1>8 DEF ProjectKey, Go
<1>9. CASE KeyCollision
  BY <1>3, <1>4, <1>5, <1>6, <1>9 DEF KeyCollision
<1>10. CASE SkipLeaf \/ DeferSid \/ BridgePart
  BY <1>2, <1>10 DEF SkipLeaf, DeferSid, BridgePart, Go
<1>11. CASE RefuseNumber
  BY <1>3, <1>6, <1>11 DEF RefuseNumber
<1>12. CASE MapOpaque
  BY <1>2, <1>3, <1>4, <1>5, <1>12 DEF MapOpaque, MarkLeaf, Go
<1>13. CASE VisitTemplate
  BY <1>2, <1>3, <1>4, <1>5, <1>13 DEF VisitTemplate, MarkLeaf, Go
<1>14. CASE CheckRegistry
  <2>1. CASE parked = None
    BY <1>2, <1>14, <2>1 DEF CheckRegistry, Go
  <2>2. CASE parked # None
    <3>1. parked.error \in Errors
      BY <2>2 DEF EngineIInv, ParkedOK
    <3> QED BY <1>3, <1>4, <1>14, <2>2, <3>1 DEF CheckRegistry, Locate
  <2> QED BY <2>1, <2>2
<1>15. CASE EndWalk
  BY <1>1, <1>15 DEF EndWalk, Ok
<1>16. CASE MapTemplates
  BY <1>2, <1>3, <1>5, <1>16 DEF MapTemplates
<1>17. CASE SettleTarget
  <2> DEFINE v == CHOOSE t \in call.settling : \A u \in call.settling : Rank[t] <= Rank[u]
             e == IF MapError(Domain[v]) # None THEN MapError(Domain[v]) ELSE BindError(v, TRUE)
  <2>1. UNCHANGED result \/ (e # None /\ Return(Failure(e, locator, v)))
    BY <1>17 DEF SettleTarget, Locate
  <2>2. e # None => e \in Errors
    BY <1>5, BindFacts, ErrorFacts
  <2> HIDE DEF e, v
  <2> QED BY <1>2, <1>3, <1>4, <2>1, <2>2
<1>18. CASE Freeze
  <2>1. UNCHANGED result \/ result' = Failure("value", None, None) \/ result' = Ok
    BY <1>18 DEF Freeze, Return
  <2> QED BY <1>2, <1>6, <2>1 DEF Failure, Ok, ResultOK
<1>19. CASE RefuseFreeze
  BY <1>3, <1>6, <1>19 DEF RefuseFreeze
<1> QED BY <1>7, <1>8, <1>9, <1>10, <1>11, <1>12, <1>13, <1>14, <1>15, <1>16, <1>17, <1>18, <1>19
        DEF EngineNext, EngineStep, EngineCall

\* In a run the registry is frozen by the engine alone.
LEMMA FreezesItself ==
    ASSUME EngineIInv, EngineNext, frozen <=> snapshot # None
    PROVE  frozen' <=> snapshot' # None
<1>1. CASE Freeze
  <2>1. frozen' = TRUE /\ snapshot' = targets
    BY <1>1 DEF Freeze
  <2>2. targets \subseteq Value
    BY LeavesAssumption DEF EngineIInv, EngineTypeOK
  <2> QED BY <2>1, <2>2, NoneAssumption
<1>2. CASE EngineCall
  BY <1>2 DEF EngineCall, DiscoverDocument, TransformDocument, VisitNode, RefuseDiscovery,
     FinalizeDiscovery, BeginDocument, engine, registry
<1>3. CASE ProjectKey \/ KeyCollision \/ SkipLeaf \/ RefuseNumber \/ MapOpaque \/ VisitTemplate
  BY <1>3 DEF ProjectKey, KeyCollision, SkipLeaf, RefuseNumber, MapOpaque, VisitTemplate, engine,
     registry
<1>4. CASE DeferSid \/ BridgePart \/ CheckRegistry \/ EndWalk
  BY <1>4 DEF DeferSid, BridgePart, CheckRegistry, EndWalk, engine, registry
<1>5. CASE MapTemplates \/ SettleTarget \/ RefuseFreeze
  BY <1>5 DEF MapTemplates, SettleTarget, RefuseFreeze, engine, registry
<1> QED BY <1>1, <1>2, <1>3, <1>4, <1>5 DEF EngineNext, EngineStep, EngineCall

\* Everything but the result a driver ended with stays with the run.
RunOK == Driven /\ ResultOK
         /\ (run # "library" /\ stage \in {"finalizing", "transform", "verify"} => accepted # <<>>)

LEMMA RunOKKeeps ==
    ASSUME CollectionIInv, RunOK, [CollectionNext]_collectionVars PROVE RunOK'
<1>1. EngineIInv
  BY DEF CollectionIInv
<1>2. CASE UNCHANGED collectionVars
  BY <1>2 DEF RunOK, Driven, ResultOK, collectionVars, engineVars, engine, registry, driver
<1>3. CASE CollectionNext
  <2>1. ResultOK'
    <3>1. CASE UNCHANGED engineVars
      BY <3>1 DEF RunOK, ResultOK, engineVars
    <3>2. CASE Fresh'
      BY <3>2 DEF Fresh, Ok, ResultOK
    <3> QED BY <1>1, <1>3, <3>1, <3>2, EnginePart, ResultStep DEF RunOK
  <2>2. Driven'
    <3>1. CASE NextRun
      BY <3>1 DEF NextRun, Driven
    <3>2. CASE ~NextRun
      <4>1. UNCHANGED run
        BY <1>3, <3>2 DEF CollectionNext, SkipMember, DiscoverMember, Accept, EndDiscovery, Finalized,
           TransformMember, VerifyMember, EndTransform, CallLibrary, FinishWith, Finish, driver
      <4>2. CASE UNCHANGED engineVars
        BY <4>1, <4>2 DEF RunOK, Driven, engineVars, engine, registry
      <4>3. CASE EngineNext
        BY <1>1, <4>1, <4>3, FreezesItself DEF RunOK, Driven
      <4>4. CASE Fresh' /\ frozen' = FALSE
        BY <4>4 DEF Fresh, Driven
      <4> QED BY <1>3, <4>2, <4>3, <4>4, EnginePart
    <3> QED BY <3>1, <3>2
  <2>3. run' # "library" /\ stage' \in {"finalizing", "transform", "verify"} => accepted' # <<>>
    <3>1. CASE SkipMember \/ DiscoverMember \/ Accept \/ NextRun
      BY <3>1 DEF SkipMember, DiscoverMember, Accept, NextRun, FinishWith, Finish
    <3>2. CASE EndDiscovery \/ Finalized \/ TransformMember \/ VerifyMember \/ EndTransform
      BY <3>2 DEF EndDiscovery, Finalized, TransformMember, VerifyMember, EndTransform, FinishWith,
         Finish, RunOK
    <3>3. CASE UNCHANGED driver
      BY <3>3 DEF driver, RunOK
    <3> QED BY <1>3, <3>1, <3>2, <3>3 DEF CollectionNext, CallLibrary
  <2> QED BY <2>1, <2>2, <2>3 DEF RunOK
<1> QED BY <1>2, <1>3

LEMMA NowTyped ==
    ASSUME CollectionIInv, RunOK, run # "library", stage # "done" PROVE Now \in Typed
<1>1. /\ old \in SUBSET Value /\ mapped \in SUBSET Value /\ kept \in SUBSET Value
      /\ frozen \in BOOLEAN /\ templates \in SUBSET Value /\ targets \in SUBSET Value
      /\ locator \in Place \cup {None} /\ call \in Calls \cup {Idle}
  BY LeavesAssumption DEF CollectionIInv, EngineIInv, EngineTypeOK, LoadedOK, CallOK
<1>2. result.error \in Errors \cup {None} /\ result.at \in Place \cup {None}
  BY DEF RunOK, ResultOK
<1>3. /\ members \in Seq(Document \cup Unparsed) /\ next \in Nat
      /\ stage \in {"discover", "discovering", "finalizing", "transform", "verify"}
      /\ accepted \in Seq(Document) /\ findings \in Seq(Finding)
      /\ stage = "verify" => next \in DOMAIN accepted
  <2>1. /\ next \in Nat \ {0} /\ accepted \in Seq(Document)
        /\ stage = "verify" => next <= Len(accepted)
    BY DEF CollectionIInv, DriverOK, DriverTypeOK, BlobsOK
  <2> QED BY <2>1 DEF CollectionIInv, DriverOK, DriverTypeOK
<1>4. Now \in States
  BY <1>1, <1>2, <1>3 DEF Now, States
<1> QED BY <1>3, <1>4, Reads DEF Typed
----------------------------------------------------------------------------
(* What comes after a state, again and again *)

Closed(S) == \A s \in S : After(s) \in Typed => After(s) \in S
Reaches(s, t) == t \in Typed /\ \A S \in SUBSET Typed : s \in S /\ Closed(S) => t \in S

LEMMA ReachesSelf == ASSUME NEW s \in Typed PROVE Reaches(s, s)
BY DEF Reaches

LEMMA ReachesOn ==
    ASSUME NEW s, NEW t, Reaches(s, t), After(t) \in Typed PROVE Reaches(s, After(t))
BY DEF Reaches, Closed

\* What is reached from s reaches where s stops.
LEMMA LeadsToStop ==
    ASSUME NEW s \in Typed, NEW t, NEW u, Reaches(s, t), Stopped(t), Reaches(s, u)
    PROVE  Reaches(u, t)
<1> DEFINE S == {x \in Typed : Reaches(x, t)}
<1>1. ASSUME NEW x \in S, After(x) \in Typed PROVE Reaches(After(x), t)
  <2>1. CASE x = t
    <3>1. After(x) = t
      BY <2>1 DEF After
    <3> QED BY <1>1, <2>1, <3>1
  <2>2. CASE x # t
    <3>1. t \in Typed
      BY <1>1 DEF Reaches
    <3>2. ASSUME NEW R \in SUBSET Typed, After(x) \in R, Closed(R) PROVE t \in R
      <4>1. Closed(R \cup {x}) /\ R \cup {x} \in SUBSET Typed
        BY <1>1, <3>2 DEF Closed
      <4>2. t \in R \cup {x}
        BY <1>1, <4>1 DEF Reaches
      <4> QED BY <2>2, <4>2
    <3> QED BY <3>1, <3>2 DEF Reaches
  <2> QED BY <2>1, <2>2
<1>2. Closed(S)
  BY <1>1 DEF Closed
<1>3. u \in S
  <2>1. s \in S /\ S \in SUBSET Typed
    OBVIOUS
  <2> HIDE DEF S
  <2> QED BY <1>2, <2>1 DEF Reaches
<1> QED BY <1>3

\* A run stops at one state at most.
LEMMA StopsOnce ==
    ASSUME NEW s \in Typed, NEW t, NEW u, Reaches(s, t), Stopped(t), Reaches(s, u), Stopped(u)
    PROVE  t = u
<1>1. Reaches(u, t) /\ u \in Typed
  BY LeadsToStop DEF Reaches
<1>2. Closed({u})
  BY DEF Closed, After
<1> QED BY <1>1, <1>2 DEF Reaches

\* The findings grow at their end.
LEMMA FindingsAfter ==
    ASSUME NEW s
    PROVE  \/ After(s).findings = s.findings
           \/ /\ s.stage \notin {"discover", "discovering", "finalizing", "transform"}
              /\ After(s).findings = s.findings \o Findings[s.accepted[s.next]]
<1>1. \A m, k, f, te, ta, l, c, e, a : With(s, m, k, f, te, ta, l, c, e, a).findings = s.findings
  BY DEF With
<1>2. \A x, st, n, ac, fs : Drive(x, st, n, ac, fs).findings = fs
  BY DEF Drive
<1>3. \A m, te, ta, l : Goes(s, m, te, ta, l).findings = s.findings
  BY <1>1 DEF Goes
<1>4. \A m, l, e, a : Gives(s, m, l, e, a).findings = s.findings
  BY <1>1 DEF Gives
<1>5. \A v, l, a : MapsOrFails(s, v, l, a).findings = s.findings
  BY <1>3, <1>4 DEF MapsOrFails
<1>6. \A l, here : Bridges(s, l, here).findings = s.findings
  BY <1>1, <1>3, <1>4 DEF Bridges
<1>7. \A l, here : Visits(s, l, here).findings = s.findings
  <2> TAKE l, here
  <2>1. CASE l.kind \in {"key", "sameKey", "kept", "scalar", "beyond"}
    BY <1>3, <1>4, <1>5, <2>1 DEF Visits
  <2>2. CASE l.kind \notin {"key", "sameKey", "kept", "scalar", "beyond"}
    BY <1>3, <1>5, <1>6, <2>2 DEF Visits
  <2> QED BY <2>1, <2>2
<1>8. \A v : Settles(s, v).findings = s.findings
  <2> TAKE v
  <2>1. PICK m, k, l, c, e, a :
           Settles(s, v) = With(s, m, k, s.frozen, s.templates, s.targets, l, c, e, a)
    BY DEF Settles
  <2> QED BY <2>1 DEF With
<1>9. Freezes(s).findings = s.findings
  BY DEF Freezes, Gives, With
<1>10. Works(s).findings = s.findings
  <2>1. CASE s.call.stage = "walk"
    <3>1. Works(s) \in {Visits(s, Leaves[s.call.doc][s.call.at], <<s.call.doc, s.call.at>>),
                       Gives(s, s.mapped, s.locator, None, None)}
      BY <2>1 DEF Works
    <3> QED BY <1>4, <1>7, <3>1
  <2>2. CASE s.call.stage # "walk" /\ s.call.stage = "templates"
    BY <1>1, <1>4, <2>2 DEF Works
  <2>3. CASE s.call.stage \notin {"walk", "templates"}
    <3>1. Works(s) \in {Settles(s, First(s.call.settling)), Freezes(s)}
      BY SMTT(60), <2>3 DEF Works
    <3> QED BY <1>8, <1>9, <3>1
  <2> QED BY <2>1, <2>2, <2>3
<1>11. CASE Stopped(s) \/ s.call # Idle
  BY <1>10, <1>11 DEF After
<1>12. CASE ~Stopped(s) /\ s.call = Idle
  <2> DEFINE more == s.findings \o Findings[s.accepted[s.next]]
  <2>1. PICK x, st, n, ac, fs :
           /\ After(s) = Drive(x, st, n, ac, fs)
           /\ \/ fs = s.findings
              \/ s.stage \notin {"discover", "discovering", "finalizing", "transform"} /\ fs = more
    <3>1. CASE s.stage = "discover"
      BY <1>12, <3>1, Zenon DEF After
    <3>2. CASE s.stage \in {"discovering", "finalizing"}
      BY <1>12, <3>2, Zenon DEF After
    <3>3. CASE s.stage = "transform"
      BY <1>12, <3>3, Zenon DEF After
    <3>4. CASE s.stage \notin {"discover", "discovering", "finalizing", "transform"}
      BY <1>12, <3>4, Zenon DEF After
    <3> QED BY <3>1, <3>2, <3>3, <3>4
  <2>2. After(s).findings = fs
    BY <2>1 DEF Drive
  <2> QED BY <2>1, <2>2, Zenon
<1> QED BY <1>11, <1>12

\* The first of them stays the first.
LEMMA FirstStays ==
    ASSUME NEW s \in Typed, s.findings # <<>>, After(s) \in Typed
    PROVE  After(s).findings # <<>> /\ After(s).findings[1] = s.findings[1]
<1>1. s.findings \in Seq(Finding)
  BY DEF Typed, States
<1>2. CASE After(s).findings = s.findings
  BY <1>2
<1>3. CASE /\ s.stage \notin {"discover", "discovering", "finalizing", "transform"}
           /\ After(s).findings = s.findings \o Findings[s.accepted[s.next]]
  <2> DEFINE fs == s.findings
             more == Findings[s.accepted[s.next]]
  <2>1. s.stage = "verify" /\ After(s).findings = fs \o more
    BY <1>3 DEF Typed, States
  <2>2. s.accepted[s.next] \in Document
    BY <2>1 DEF Typed, States
  <2>3. more \in Seq(Finding) /\ fs \in Seq(Finding) /\ fs # <<>>
    BY <1>1, <2>2, CollectionAssumption
  <2> HIDE DEF fs, more
  <2>4. fs \o more # <<>> /\ (fs \o more)[1] = fs[1]
    BY <2>3
  <2> QED BY <2>1, <2>4 DEF fs
<1> QED BY <1>2, <1>3, FindingsAfter
----------------------------------------------------------------------------
(* What a run returns *)

\* Stderr and FinishWith of the state a run stops at.
Line(e, at, verbose) ==
    IF Class(e) = "value" THEN [line |-> "value"]
    ELSE IF verbose THEN [line |-> "mapping", class |-> Class(e), at |-> at]
    ELSE [line |-> "mapping"]
Fails(t) == t.stage # "transform"
Told(t, verbose) ==
    IF t.stage \in {"discovering", "finalizing", "verify"} THEN Line(t.error, t.at, verbose)
    ELSE IF t.stage = "discover" THEN NoDocuments ELSE None

\* o is what an inspection, or a real run, returns that stops at t.
Dry(t, o) == o.findings = t.findings /\ o.abort = Told(t, TRUE)
Real(t, o, verbose) ==
    /\ o.abort = Told(t, verbose)
    /\ o.findings = IF Fails(t) THEN <<>> ELSE t.findings
    /\ o.published # <<>> <=> ~Fails(t) /\ t.findings = <<>>
\* What a terse run returns at the first finding.
FirstFound(t, o) ==
    /\ t.stage = "verify" /\ t.call = Idle /\ t.error = None /\ t.findings = <<>>
    /\ Findings[t.accepted[t.next]] # <<>>
    /\ o = Abort(<<Findings[t.accepted[t.next]][1]>>, None)

\* Of a state a run stops at, the short message follows from the long one.
LEMMA ToldShort ==
    ASSUME NEW t \in Typed, Stopped(t)
    PROVE  /\ Told(t, TRUE) = None <=> ~Fails(t)
           /\ Told(t, FALSE) = IF Fails(t) THEN [line |-> Told(t, TRUE).line] ELSE None
<1>1. CASE t.stage = "transform"
  BY <1>1 DEF Told, Fails
<1>2. CASE t.stage = "discover"
  BY <1>2, MessageAssumption DEF Told, Fails, NoDocuments
<1>3. CASE t.stage \in {"discovering", "finalizing", "verify"}
  <2>1. t.error \in Errors /\ t.at \in Place \cup {None}
    BY <1>3 DEF Typed, States, Stopped
  <2>2. Told(t, TRUE) = Line(t.error, t.at, TRUE) /\ Told(t, FALSE) = Line(t.error, t.at, FALSE)
    BY <1>3 DEF Told
  <2>3. Fails(t)
    BY <1>3 DEF Fails
  <2>4. CASE Class(t.error) = "value"
    BY <2>2, <2>3, <2>4, MessageAssumption DEF Line
  <2>5. CASE Class(t.error) # "value"
    <3> DEFINE c == Class(t.error)
               at == t.at
    <3>1. /\ Told(t, TRUE) = [line |-> "mapping", class |-> c, at |-> at]
          /\ Told(t, FALSE) = [line |-> "mapping"]
      BY <2>2, <2>5 DEF Line
    <3>2. None # [line |-> "mapping", class |-> c, at |-> at]
      BY <2>1, MessageAssumption
    <3>3. Told(t, TRUE) # None
      BY <3>1, <3>2, Zenon
    <3>4. Told(t, TRUE).line = "mapping"
      <4> DEFINE long == Told(t, TRUE)
      <4>1. long = [line |-> "mapping", class |-> c, at |-> at]
        BY <3>1
      <4> HIDE DEF long, c, at
      <4>2. long.line = "mapping"
        BY <4>1
      <4> QED BY <4>2 DEF long
    <3> QED BY <2>3, <3>1, <3>3, <3>4
  <2> QED BY <2>4, <2>5
<1> QED BY <1>1, <1>2, <1>3 DEF Typed, States

\* A run that finds something first stops where another one goes on.
LEMMA FoundFirst ==
    ASSUME NEW s \in Typed, NEW t, NEW u, NEW o, Reaches(s, t), Stopped(t), Reaches(s, u),
           FirstFound(u, o)
    PROVE  t.findings # <<>> /\ o = Abort(<<t.findings[1]>>, None)
<1> DEFINE fs == Findings[u.accepted[u.next]]
           S == {u} \cup {x \in Typed : x.findings # <<>> /\ x.findings[1] = fs[1]}
<1>1. /\ u \in Typed /\ ~Stopped(u) /\ t \in Typed
      /\ fs \in Seq(Finding) /\ fs # <<>> /\ o = Abort(<<fs[1]>>, None)
  <2>1. u.stage = "verify" /\ u.error = None /\ fs # <<>> /\ o = Abort(<<fs[1]>>, None)
    BY DEF FirstFound
  <2>2. u \in Typed /\ ~Stopped(u) /\ t \in Typed
    BY <2>1 DEF Reaches, Stopped
  <2>3. u.accepted[u.next] \in Document
    BY <2>1, <2>2 DEF Typed, States
  <2> QED BY <2>1, <2>2, <2>3, CollectionAssumption
<1>2. After(u).findings = fs
  <2>1. After(u) = Drive(u, "transform", u.next + 1, u.accepted, u.findings \o fs)
    BY <1>1 DEF After, FirstFound
  <2>2. u.findings = <<>>
    BY DEF FirstFound
  <2> HIDE DEF fs
  <2>3. <<>> \o fs = fs
    BY <1>1
  <2> QED BY <2>1, <2>2, <2>3 DEF Drive
<1>3. ASSUME NEW x \in S, After(x) \in Typed PROVE After(x) \in S
  <2>1. CASE x = u
    BY <1>1, <1>2, <1>3, <2>1
  <2>2. CASE x # u
    <3>1. x \in Typed /\ x.findings # <<>> /\ x.findings[1] = fs[1]
      BY <2>2
    <3> QED BY <1>3, <3>1, FirstStays
  <2> QED BY <2>1, <2>2
<1>4. t \in S
  <2>1. Reaches(u, t)
    BY SMTT(60), LeadsToStop
  <2>2. u \in S /\ S \in SUBSET Typed /\ Closed(S)
    BY <1>1, <1>3 DEF Closed
  <2> HIDE DEF S
  <2> QED BY <2>1, <2>2 DEF Reaches
<1> QED BY <1>1, <1>4

\* The inspection that was made, and what the real runs that ended returned:
\* each reached from the same start the state it ended at.
Retold ==
    /\ RunOK
    /\ run \in Run => Start \in Typed
    /\ run \in Run /\ stage # "done" => Reaches(Start, Now)
    /\ run = "terse" /\ stage # "done" => findings = <<>>
    /\ run \in {"inspect", "library"} => ~Ended("terse") /\ ~Ended("verbose")
    /\ run \in {"terse", "verbose"} \/ (run = "inspect" /\ stage = "done") =>
          \E t : Reaches(Start, t) /\ Stopped(t) /\ Dry(t, outcome["inspect"])
    /\ Ended("terse") =>
          \E t : /\ Reaches(Start, t)
                 /\ \/ Stopped(t) /\ t.findings = <<>> /\ Real(t, outcome["terse"], FALSE)
                    \/ FirstFound(t, outcome["terse"])
    /\ Ended("verbose") =>
          \E t : Reaches(Start, t) /\ Stopped(t) /\ Real(t, outcome["verbose"], TRUE)

LEMMA RetoldAgrees == ASSUME DriverTypeOK, Retold PROVE DryRunAgrees
<1>1. ASSUME NEW r \in {"terse", "verbose"}, Ended(r)
      PROVE  /\ run \in Run /\ Start \in Typed
             /\ \E t : Reaches(Start, t) /\ Stopped(t) /\ Dry(t, outcome["inspect"])
  BY <1>1 DEF Retold, DriverTypeOK, Run
<1> SUFFICES ASSUME NEW r \in {"terse", "verbose"}, Ended(r)
             PROVE  LET dry == outcome["inspect"]
                        real == outcome[r]
                    IN  /\ WouldPublish <=> real.published # <<>>
                        /\ r = "terse" /\ dry.findings # <<>> =>
                              real.findings = <<dry.findings[1]>> /\ real.abort = None
                        /\ r = "terse" /\ dry.findings = <<>> =>
                              /\ real.findings = <<>>
                              /\ IF dry.abort = None THEN real.abort = None
                                 ELSE real.abort = [line |-> dry.abort.line]
                        /\ r = "verbose" /\ dry.abort # None =>
                              real.abort = dry.abort /\ real.findings = <<>>
                        /\ r = "verbose" /\ dry.abort = None =>
                              real.abort = None /\ real.findings = dry.findings
  BY DEF DryRunAgrees
<1> DEFINE dry == outcome["inspect"]
           real == outcome[r]
<1>2. Start \in Typed
  BY <1>1
<1>3. PICK t : Reaches(Start, t) /\ Stopped(t) /\ Dry(t, dry)
  BY <1>1
<1>4. /\ dry.findings = t.findings /\ dry.abort = Told(t, TRUE)
      /\ dry.abort = None <=> ~Fails(t)
      /\ Told(t, FALSE) = IF Fails(t) THEN [line |-> dry.abort.line] ELSE None
      /\ WouldPublish <=> dry.findings = <<>> /\ dry.abort = None
  <2>1. t \in Typed
    BY <1>3 DEF Reaches
  <2> QED BY <1>3, <2>1, ToldShort DEF Dry, WouldPublish
<1>5. CASE r = "verbose"
  <2>1. PICK u : Reaches(Start, u) /\ Stopped(u) /\ Real(u, real, TRUE)
    BY <1>5 DEF Retold
  <2>2. u = t
    BY <1>2, <1>3, <2>1, StopsOnce
  <2> QED BY <1>4, <1>5, <2>1, <2>2 DEF Real
<1>6. CASE r = "terse"
  <2>1. PICK u : /\ Reaches(Start, u)
                 /\ \/ Stopped(u) /\ u.findings = <<>> /\ Real(u, real, FALSE)
                    \/ FirstFound(u, real)
    BY <1>6 DEF Retold
  <2>2. CASE Stopped(u) /\ u.findings = <<>> /\ Real(u, real, FALSE)
    <3>1. u = t
      BY <1>2, <1>3, <2>1, <2>2, StopsOnce
    <3> QED BY <1>4, <1>6, <2>2, <3>1 DEF Real
  <2>3. CASE FirstFound(u, real)
    <3>1. t.findings # <<>> /\ real = Abort(<<t.findings[1]>>, None)
      BY <1>2, <1>3, <2>1, <2>3, FoundFirst
    <3>2. real.published = <<>> /\ real.findings = <<t.findings[1]>> /\ real.abort = None
      BY <3>1 DEF Abort
    <3> QED BY <1>4, <1>6, <3>1, <3>2
  <2> QED BY <2>1, <2>2, <2>3
<1> QED BY <1>5, <1>6
----------------------------------------------------------------------------
(* Every run is retold *)

LEMMA StartStays == ASSUME CollectionNext PROVE Start' = Start
<1>1. EngineNext => UNCHANGED <<old, oldKept>>
  <2>1. CASE EngineCall
    BY <2>1 DEF EngineCall, DiscoverDocument, TransformDocument, VisitNode, RefuseDiscovery,
       FinalizeDiscovery, BeginDocument, engine, registry
  <2>2. CASE ProjectKey \/ KeyCollision \/ SkipLeaf \/ RefuseNumber \/ MapOpaque \/ VisitTemplate
    BY <2>2 DEF ProjectKey, KeyCollision, SkipLeaf, RefuseNumber, MapOpaque, VisitTemplate, engine,
       registry
  <2>3. CASE DeferSid \/ BridgePart \/ CheckRegistry \/ EndWalk
    BY <2>3 DEF DeferSid, BridgePart, CheckRegistry, EndWalk, engine, registry
  <2>4. CASE MapTemplates \/ SettleTarget \/ Freeze \/ RefuseFreeze
    BY <2>4 DEF MapTemplates, SettleTarget, Freeze, RefuseFreeze, engine, registry
  <2> QED BY <2>1, <2>2, <2>3, <2>4 DEF EngineNext, EngineStep, EngineCall
<1>2. CASE UNCHANGED <<engineVars, members>>
  BY <1>2 DEF Start, engineVars, engine, registry
<1>3. CASE EngineNext /\ UNCHANGED members
  BY <1>1, <1>3 DEF Start
<1>4. CASE SkipMember \/ Accept \/ Finalized \/ VerifyMember \/ EndTransform
  BY <1>2, <1>4 DEF SkipMember, Accept, Finalized, VerifyMember, EndTransform, FinishWith, Finish
<1>5. CASE DiscoverMember \/ TransformMember
  <2>1. UNCHANGED <<old, oldKept, members>>
    BY <1>5 DEF DiscoverMember, TransformMember, DiscoverDocument, TransformDocument, BeginDocument,
       engine, registry
  <2> QED BY <2>1 DEF Start
<1>6. CASE EndDiscovery
  BY <1>2, <1>3, <1>6 DEF EndDiscovery, Finish, EngineNext, EngineCall
<1>7. CASE NextRun
  BY <1>7 DEF NextRun, Start
<1>8. CASE (EngineStep /\ UNCHANGED <<driver, outcome>>) \/ CallLibrary
  BY <1>3, <1>8 DEF EngineNext, CallLibrary, driver
<1> QED BY <1>4, <1>5, <1>6, <1>7, <1>8 DEF CollectionNext

\* A step of a run that does not end it.
LEMMA RunGoesOn ==
    ASSUME CollectionIInv, RunOK, CollectionNext, run # "library", stage # "done", stage' # "done"
    PROVE  Now' = After(Now)
<1>1. InStage /\ EngineIInv
  BY DEF InStage, CollectionIInv, RunOK
<1>2. CASE SkipMember \/ DiscoverMember
  BY <1>1, <1>2, ReadsOn
<1>3. CASE Accept \/ Finalized
  BY <1>1, <1>3, AcceptsOn
<1>4. CASE EndDiscovery
  BY <1>1, <1>4, EndsDiscovery
<1>5. CASE TransformMember
  BY <1>1, <1>5, TransformsOn
<1>6. CASE VerifyMember \/ EndTransform
  BY <1>1, <1>6, VerifiesOn
<1>7. CASE EngineStep /\ UNCHANGED <<driver, outcome>>
  BY <1>1, <1>7, EngineFollows DEF InRun, InStage
<1> QED BY <1>2, <1>3, <1>4, <1>5, <1>6, <1>7 DEF CollectionNext, NextRun, CallLibrary

\* A step that ends a run.
LEMMA RunEnds ==
    ASSUME CollectionIInv, RunOK, CollectionNext, run # "library", stage # "done", stage' = "done",
           run = "terse" => findings = <<>>
    PROVE  \E v : /\ Finish(v)
                  /\ \/ /\ Stopped(Now)
                        /\ IF run = "inspect" THEN Dry(Now, v) ELSE Real(Now, v, run = "verbose")
                     \/ run = "terse" /\ FirstFound(Now, v)
<1>1. InStage /\ DriverWaits /\ BlobsOK /\ DriverTypeOK
  BY DEF InStage, CollectionIInv, RunOK, DriverOK
<1> DEFINE e == result.error
           told == Stderr(e, run = "verbose")
           given == IF run = "inspect" THEN Report(findings, Stderr(e, TRUE)) ELSE Abort(<<>>, told)
<1>2. ASSUME stage \in {"discovering", "finalizing", "verify"}, FinishWith(e), Stopped(Now)
      PROVE  /\ Finish(given) /\ Stopped(Now)
             /\ IF run = "inspect" THEN Dry(Now, given) ELSE Real(Now, given, run = "verbose")
  <2>1. \A b \in BOOLEAN : Told(Now, b) = Stderr(e, b)
    BY <1>2, Reads DEF Told, Line, Stderr
  <2>2. Finish(given)
    BY <1>2 DEF FinishWith
  <2>3. CASE run = "inspect"
    <3>1. given.findings = findings /\ given.abort = Stderr(e, TRUE)
      BY <2>3 DEF Report
    <3> QED BY <1>2, <2>1, <2>2, <2>3, <3>1, Reads DEF Dry
  <2>4. CASE run # "inspect"
    <3>1. given.findings = <<>> /\ given.abort = told /\ given.published = <<>>
      BY <2>4 DEF Abort
    <3>2. Fails(Now)
      BY <1>2, Reads DEF Fails
    <3> QED BY <1>2, <2>1, <2>2, <2>4, <3>1, <3>2 DEF Real
  <2> QED BY <2>3, <2>4
<1>3. CASE Accept \/ Finalized
  <2>1. stage \in {"discovering", "finalizing"} /\ FinishWith(e) /\ Stopped(Now)
    BY <1>1, <1>3, AcceptsOn DEF Accept, Finalized
  <2> QED BY <1>2, <2>1
<1>4. CASE EndDiscovery
  <2> DEFINE v == Abort(<<>>, NoDocuments)
  <2>1. Stopped(Now) /\ stage = "discover" /\ Finish(v)
    <3>1. Stopped(Now) /\ accepted = <<>>
      BY <1>1, <1>4, EndsDiscovery
    <3> QED BY <1>4, <3>1 DEF EndDiscovery
  <2>2. v.published = <<>> /\ v.findings = <<>> /\ v.abort = NoDocuments
    BY DEF Abort
  <2>3. findings = <<>> /\ Fails(Now) /\ \A b \in BOOLEAN : Told(Now, b) = NoDocuments
    BY <1>1, <2>1, Reads DEF BlobsOK, Fails, Told
  <2> QED BY <2>1, <2>2, <2>3, Reads DEF Dry, Real
<1>5. CASE VerifyMember
  <2>1. stage = "verify" /\ call = Idle
    BY <1>5 DEF VerifyMember
  <2>2. CASE e # None
    <3>1. FinishWith(e) /\ Stopped(Now)
      BY <1>5, <2>1, <2>2, Reads DEF VerifyMember, Stopped
    <3> QED BY <1>2, <2>1, <3>1
  <2>3. CASE e = None
    <3>1. run = "terse" /\ Found # <<>> /\ Finish(Abort(<<Found[1]>>, None))
      BY <1>5, <2>3 DEF VerifyMember
    <3>2. FirstFound(Now, Abort(<<Found[1]>>, None))
      BY <2>1, <2>3, <3>1, Reads DEF FirstFound, Found
    <3> QED BY <3>1, <3>2
  <2> QED BY <2>2, <2>3
<1>6. CASE EndTransform
  <2> DEFINE v == IF run = "inspect" THEN Report(findings, None)
                  ELSE IF findings # <<>> THEN Abort(findings, None)
                  ELSE [Abort(<<>>, None) EXCEPT !.published = blobs]
  <2>1. /\ Finish(v) /\ stage = "transform" /\ ~Fails(Now)
        /\ \A b \in BOOLEAN : Told(Now, b) = None
    BY <1>6, Reads DEF EndTransform, Fails, Told
  <2>2. Stopped(Now)
    BY <1>1, <1>6, <2>1, Reads DEF EndTransform, Stopped, DriverWaits, InStage
  <2>3. CASE run = "inspect"
    <3>1. v.findings = findings /\ v.abort = None
      BY <2>3 DEF Report
    <3> QED BY <2>1, <2>2, <2>3, <3>1, Reads DEF Dry
  <2>4. CASE run # "inspect" /\ findings # <<>>
    <3>1. v.published = <<>> /\ v.findings = findings /\ v.abort = None
      BY <2>4 DEF Abort
    <3> QED BY <2>1, <2>2, <2>4, <3>1, Reads DEF Real
  <2>5. CASE run # "inspect" /\ findings = <<>>
    <3>1. v.published = blobs /\ v.findings = <<>> /\ v.abort = None
      BY <2>5 DEF Abort
    <3>2. blobs # <<>>
      <4>1. next > Len(accepted) /\ next <= Len(accepted) + 1 /\ Len(blobs) = next - 1
        BY <1>1, <1>6, <2>1, <2>5 DEF EndTransform, BlobsOK
      <4>2. accepted # <<>> /\ accepted \in Seq(Document) /\ next \in Nat /\ blobs \in Seq(Document)
        BY <1>1, <2>1 DEF RunOK, DriverTypeOK, InStage
      <4> QED BY <4>1, <4>2
    <3> QED BY <2>1, <2>2, <2>5, <3>1, <3>2, Reads DEF Real
  <2> QED BY <2>3, <2>4, <2>5
<1>7. CASE SkipMember \/ DiscoverMember \/ TransformMember
              \/ (EngineStep /\ UNCHANGED <<driver, outcome>>)
  BY <1>7 DEF SkipMember, DiscoverMember, TransformMember, driver
<1> QED BY <1>3, <1>4, <1>5, <1>6, <1>7 DEF CollectionNext, NextRun, CallLibrary

LEMMA NowTypedNext ==
    (CollectionIInv /\ RunOK /\ run # "library" /\ stage # "done" => Now \in Typed)'
BY NowTyped, PTL

LEMMA RetoldKeeps ==
    ASSUME CollectionIInv, CollectionIInv', Retold, CollectionNext PROVE Retold'
<1>1. /\ RunOK /\ RunOK' /\ Start' = Start /\ DriverTypeOK
      /\ run' # "library" /\ stage' # "done" => Now' \in Typed
  <2>1. RunOK' /\ RunOK
    BY RunOKKeeps DEF Retold
  <2>2. Start' = Start
    BY StartStays
  <2>3. run' # "library" /\ stage' # "done" => Now' \in Typed
    BY <2>1, NowTypedNext
  <2> QED BY <2>1, <2>2, <2>3 DEF CollectionIInv, DriverOK
<1>2. CASE NextRun
  <2>1. <<run, run'>> \in {<<"inspect", "terse">>, <<"terse", "verbose">>}
    BY <1>2 DEF NextRun
  <2>2. /\ stage = "done" /\ stage' = "discover" /\ findings' = <<>> /\ UNCHANGED outcome
        /\ Now' = Start
    BY <1>2 DEF NextRun, Now, Start, Ok
  <2>3. Start' \in Typed /\ Reaches(Start', Now')
    BY <1>1, <2>1, <2>2, ReachesSelf
  <2> QED BY <1>1, <2>1, <2>2, <2>3 DEF Retold, Ended
<1>3. CASE run = "library"
  <2>1. UNCHANGED <<run, outcome>>
    <3>1. stage = "done"
      BY <1>3 DEF CollectionIInv, DriverOK, DriverWaits
    <3> QED BY <1>3, <3>1 DEF CollectionNext, SkipMember, DiscoverMember, Accept, EndDiscovery,
               Finalized, TransformMember, VerifyMember, EndTransform, NextRun, CallLibrary, driver
  <2> QED BY <1>1, <1>3, <2>1 DEF Retold, Ended, Run
<1>4. CASE ~NextRun /\ run # "library"
  <2>1. /\ UNCHANGED run /\ run \in Run /\ Start \in Typed
        /\ stage' # "done" => stage # "done" /\ UNCHANGED outcome
        /\ stage' # "done" /\ run = "terse" => findings' = <<>>
    <3>1. run \in Run /\ Start \in Typed
      BY <1>1, <1>4 DEF Retold, DriverTypeOK
    <3>2. CASE SkipMember \/ DiscoverMember \/ Accept \/ EndDiscovery \/ Finalized \/ TransformMember
               \/ EndTransform
      BY <3>1, <3>2 DEF SkipMember, DiscoverMember, Accept, EndDiscovery, Finalized,
         TransformMember, EndTransform, Finish, FinishWith, Retold
    <3>3. CASE VerifyMember
      <4>1. UNCHANGED run /\ stage # "done" /\ (stage' # "done" => UNCHANGED outcome)
        BY <3>3 DEF VerifyMember, Finish, FinishWith
      <4>2. ASSUME stage' # "done", run = "terse" PROVE findings' = <<>>
        <5>1. findings = <<>> /\ Found = <<>> /\ findings' = findings \o Found
          BY <3>3, <4>1, <4>2 DEF VerifyMember, Finish, FinishWith, Retold
        <5>2. <<>> \o <<>> = <<>>
          OBVIOUS
        <5> QED BY <5>1, <5>2
      <4> QED BY <3>1, <4>1, <4>2
    <3>4. CASE EngineStep /\ UNCHANGED <<driver, outcome>>
      <4>1. stage # "done"
        BY <1>4, <3>4 DEF CollectionIInv, DriverOK, DriverWaits, EngineStep, ProjectKey, KeyCollision,
           SkipLeaf, RefuseNumber, MapOpaque, VisitTemplate, DeferSid, BridgePart, CheckRegistry,
           EndWalk, MapTemplates, SettleTarget, Freeze, RefuseFreeze, Walking
      <4> QED BY <3>1, <3>4, <4>1 DEF driver, Retold
    <3> QED BY <1>4, <3>2, <3>3, <3>4 DEF CollectionNext, CallLibrary
  <2>2. stage # "done"
    BY <1>4 DEF CollectionNext, CallLibrary, SkipMember, DiscoverMember, Accept, EndDiscovery,
       Finalized, TransformMember, VerifyMember, EndTransform, CollectionIInv, DriverOK, DriverWaits,
       EngineStep, ProjectKey, KeyCollision, SkipLeaf, RefuseNumber, MapOpaque, VisitTemplate,
       DeferSid, BridgePart, CheckRegistry, EndWalk, MapTemplates, SettleTarget, Freeze,
       RefuseFreeze, Walking
  <2>3. CASE stage' # "done"
    <3>1. Now' = After(Now) /\ Now' \in Typed
      BY <1>1, <1>4, <2>1, <2>2, <2>3, RunGoesOn
    <3>2. Reaches(Start', Now')
      <4>1. Reaches(Start, Now)
        BY <2>1, <2>2 DEF Retold
      <4> QED BY <1>1, <3>1, <4>1, ReachesOn
    <3> QED BY <1>1, <1>4, <2>1, <2>2, <2>3, <3>2 DEF Retold, Ended
  <2>4. CASE stage' = "done"
    <3>1. run = "terse" => findings = <<>>
      BY <2>2 DEF Retold
    <3>2. PICK v : /\ Finish(v)
                   /\ \/ /\ Stopped(Now)
                         /\ IF run = "inspect" THEN Dry(Now, v) ELSE Real(Now, v, run = "verbose")
                      \/ run = "terse" /\ FirstFound(Now, v)
      BY <1>1, <1>4, <2>2, <2>4, <3>1, RunEnds
    <3>3. outcome' = [r \in Run |-> IF r = run THEN v ELSE outcome[r]]
      BY <1>1, <3>2 DEF Finish, DriverTypeOK
    <3>4. Reaches(Start, Now) /\ Now.findings = findings
      BY <2>1, <2>2, Reads DEF Retold
    <3>5. CASE run = "inspect"
      <4>1. outcome'["inspect"] = v /\ outcome'["terse"] = None /\ outcome'["verbose"] = None
        BY <3>3, <3>5 DEF Run, Retold, Ended
      <4>2. Reaches(Start, Now) /\ Stopped(Now) /\ Dry(Now, v)
        BY <3>2, <3>4, <3>5
      <4> QED BY <1>1, <2>1, <2>4, <3>5, <4>1, <4>2 DEF Retold, Ended
    <3>6. CASE run = "terse"
      <4>1. /\ outcome'["terse"] = v /\ outcome'["inspect"] = outcome["inspect"]
            /\ outcome'["verbose"] = outcome["verbose"]
        BY <3>3, <3>6 DEF Run
      <4>2. \E t : /\ Reaches(Start, t)
                   /\ \/ Stopped(t) /\ t.findings = <<>> /\ Real(t, v, FALSE)
                      \/ FirstFound(t, v)
        BY <3>1, <3>2, <3>4, <3>6
      <4> QED BY <1>1, <2>1, <2>4, <3>6, <4>1, <4>2 DEF Retold, Ended
    <3>7. CASE run = "verbose"
      <4>1. /\ outcome'["verbose"] = v /\ outcome'["inspect"] = outcome["inspect"]
            /\ outcome'["terse"] = outcome["terse"]
        BY <3>3, <3>7 DEF Run
      <4>2. Reaches(Start, Now) /\ Stopped(Now) /\ Real(Now, v, TRUE)
        BY <3>2, <3>4, <3>7
      <4> QED BY <1>1, <2>1, <2>4, <3>7, <4>1, <4>2 DEF Retold, Ended
    <3> QED BY <2>1, <3>5, <3>6, <3>7 DEF Run
  <2> QED BY <2>3, <2>4
<1> QED BY <1>2, <1>3, <1>4

LEMMA InitRetold == ASSUME CollectionInit PROVE Retold
<1>1. CollectionIInv
  BY InitCollectionIInv
<1>2. /\ result = Ok /\ mapped = old /\ kept = oldKept /\ templates = {} /\ targets = {}
      /\ locator = None /\ call = Idle /\ snapshot = None /\ next = 1 /\ accepted = <<>>
      /\ findings = <<>> /\ outcome = [r \in Run |-> None]
      /\ \/ run = "inspect" /\ stage = "discover" /\ ~frozen
         \/ run = "library" /\ stage = "done"
  BY DEF CollectionInit, EngineInit, Fresh
<1>3. RunOK
  BY <1>2 DEF RunOK, Driven, ResultOK, Ok
<1>4. CASE run = "inspect"
  <2>1. frozen = FALSE /\ result.error = None /\ result.at = None
    BY <1>1, <1>2, <1>4 DEF CollectionIInv, EngineIInv, EngineTypeOK, Ok
  <2>2. Now = Start
    BY <1>2, <1>4, <2>1 DEF Now, Start
  <2>3. Start \in Typed /\ Reaches(Start, Now)
    BY <1>1, <1>2, <1>3, <1>4, <2>2, NowTyped, ReachesSelf
  <2> QED BY <1>2, <1>3, <1>4, <2>3 DEF Retold, Ended, Run
<1>5. CASE run = "library"
  BY <1>2, <1>3, <1>5 DEF Retold, Ended, Run
<1> QED BY <1>2, <1>4, <1>5

\* What an inspection tells of an input is what the real runs do with it over
\* the same registry: what it finds, the error it stops at and whether
\* anything is published.
THEOREM DryRunHolds == CollectionSpec => []DryRunAgrees
<1>1. CollectionInit => CollectionIInv /\ Retold
  BY InitCollectionIInv, InitRetold
<1>2. CollectionIInv /\ Retold /\ [CollectionNext]_collectionVars => CollectionIInv' /\ Retold'
  <2> SUFFICES ASSUME CollectionIInv, Retold, [CollectionNext]_collectionVars
               PROVE  CollectionIInv' /\ Retold'
    OBVIOUS
  <2>1. CollectionIInv'
    BY EngineKeeps, DriverKeeps DEF CollectionIInv
  <2>2. CASE UNCHANGED collectionVars
    <3>1. RunOK' /\ UNCHANGED <<Now, Start, outcome, run, stage, findings>>
      BY <2>2, RunOKKeeps DEF Retold, Now, Start, collectionVars, engineVars, engine, registry, driver
    <3> QED BY <2>1, <3>1 DEF Retold, Ended
  <2> QED BY <2>1, <2>2, RetoldKeeps
<1>3. CollectionIInv /\ Retold => DryRunAgrees
  BY RetoldAgrees DEF CollectionIInv, DriverOK
<1> QED BY <1>1, <1>2, <1>3, PTL DEF CollectionSpec
=============================================================================
