------------------------------- MODULE Engine -------------------------------
(***************************************************************************)
(* The life of an AnonymizationEngine (crates/shanon-core/src/engine.rs):  *)
(* discovery allocates, finalize_discovery freezes, the transform pass     *)
(* rewrites, and the calls may come in any order.                          *)
(*                                                                         *)
(* The registry is reduced to the set of values it maps and, of the SIDs    *)
(* below a domain, to whether their RID is kept; its errors to their kind:  *)
(* what pseudonyms look like is Registry.tla and SidBinding.tla. A leaf is  *)
(* what visit does with it; one registry call is a step.                    *)
(***************************************************************************)
EXTENDS Naturals, Sequences, FiniteSets

CONSTANTS Value,        \* source values, each of its category
          Rank,         \* [Value -> Nat], their sort order
          Account,      \* the SIDs below a domain, which bind maps
          Domain,       \* [Account -> Value], the SID of their domain
          Document,     \* collection members
          Leaves,       \* [Document -> Seq(Leaf)], in the order of the walk
          Defines,      \* [Document -> SUBSET Account], SIDs of catalog objects
          Malformed,    \* documents contexts_for_document refuses
          Refused,      \* values whose allocation fails
          Loads,        \* sets of values an earlier run may have mapped
          Inert,        \* SIDs whose binding comes out as the SID itself
          None

(* What visit does with an element of a document.                          *)
(*   key       an object key no rule knows, mapped by project_output_key   *)
(*   sameKey   a key whose projection its object already has               *)
(*   opaque    a string mapped by Registry::map, which returns its error   *)
(*   parts     a string whose parts go through the infallible RegistryOps: *)
(*             a SID after the SIDs above it, a name, a DN                 *)
(*   template  a certificate template name, allocated by finalize          *)
(*   kept      a string the policy keeps                                   *)
(*   scalar    a number, a boolean or null                                 *)
(*   beyond    a number to be redacted that does not fit 64 bits           *)
Kinds == {"key", "sameKey", "opaque", "parts", "template", "kept", "scalar", "beyond"}

\* spells: the SID the whole string spells, whatever the rule does with it.
\* sid: the SID whose RID the evidence may keep here; that of a name, of a DN
\* or of an identifier under another namespace has none. evidence: the catalog
\* keeps the RID at this path.
Leaf == [kind : Kinds, parts : Seq(Value), spells : Value \cup {None},
         sid : Account \cup {None}, evidence : BOOLEAN]

Mapping == {"key", "sameKey", "opaque", "template"}

ASSUME LeavesAssumption ==
    /\ Leaves \in [Document -> Seq(Leaf)] /\ Defines \in [Document -> SUBSET Account]
    /\ Account \subseteq Value /\ Domain \in [Account -> Value \ Account]
    /\ Malformed \subseteq Document /\ Refused \subseteq Value
    /\ Loads \subseteq SUBSET Value /\ Inert \subseteq Value
    /\ \A d \in Document : \A i \in DOMAIN Leaves[d] :
          LET l == Leaves[d][i]
          IN  /\ l.kind \in Mapping => Len(l.parts) = 1 /\ l.parts[1] \notin Account
              /\ l.kind \in {"kept", "scalar", "beyond"} => l.parts = <<>>
              /\ l.spells # None => l.kind \in {"opaque", "parts", "template"}
              /\ l.sid # None => l.kind = "parts" /\ \E k \in DOMAIN l.parts : l.parts[k] = l.sid
              /\ l.evidence => l.sid # None
ASSUME RankAssumption ==
    /\ Rank \in [Value -> Nat]
    /\ \A v, w \in Value : v # w => Rank[v] # Rank[w]

\* A leaf, as a locator names it.
Place == UNION {{<<d, i>> : i \in DOMAIN Leaves[d]} : d \in Document}

Apis == {"discover_document", "transform_document", "discover_node",
         "transform_node", "finalize_discovery"}
Errors == {"refused", "frozen", "conflict", "collision", "runtime", "value", "unsafe"}

\* Nothing that is there is None, and no value is a leaf.
ASSUME NoneAssumption ==
    /\ None \notin Apis \cup Errors /\ None \notin Place \cup Value
    /\ \A values \in SUBSET Value : None # values
    /\ Value \cap Place = {}
    /\ \A place \in Place, e \in Errors : None # [error |-> e, cause |-> place]

VARIABLES old,          \* the values of a reused map, preloaded
          oldKept,      \* those of its SIDs that keep their RID
          mapped,       \* the values the registry maps
          kept,         \* the SIDs below a domain that keep their RID
          frozen,       \* registry.is_frozen()
          parked,       \* registry.trait_error, with the leaf it arose at
          templates,    \* template_originals
          targets,      \* catalog_domain_rid_targets
          snapshot,     \* verification_context
          locator,      \* abort_locator: <<document, leaf>> or None
          call,         \* the public call under way
          result,       \* what the last call returned
          discovered    \* history: documents discover_document accepted

registry == <<old, oldKept, mapped, kept, frozen>>
engine == <<registry, templates, targets, snapshot>>
engineVars == <<engine, parked, locator, call, result, discovered>>

Idle == [api |-> None]
\* api: the method called. at: the element visited, part: the next of its
\* parts. fallback: why a part was first written through unmapped. settling:
\* the targets finalize_discovery has not bound.
Calling(api, d) == [api |-> api, doc |-> d, stage |-> "walk", at |-> 1, part |-> 1,
                    fallback |-> None, settling |-> {}]
Finalizing(api, d) == [Calling(api, d) EXCEPT !.stage = "templates"]

Ok == [error |-> None, at |-> None, cause |-> None]
\* error: its kind. at: the locator attached. cause: where it arose.
Failure(e, at, cause) == [error |-> e, at |-> at, cause |-> cause]

\* AnonymizationEngine::new
Fresh ==
    /\ mapped = old /\ kept = oldKept
    /\ parked = None
    /\ templates = {} /\ targets = {}
    /\ snapshot = None
    /\ locator = None
    /\ call = Idle
    /\ result = Ok
    /\ discovered = {}

\* Over a new registry, a reused one, or one that is frozen.
EngineInit ==
    /\ old \in Loads /\ oldKept \in SUBSET (old \cap Account)
    /\ frozen \in BOOLEAN
    /\ Fresh
----------------------------------------------------------------------------
(* Registry calls, as the engine sees them. *)

\* None when Registry::map answers v.
MapError(v) == IF v \in mapped THEN None
               ELSE IF frozen THEN "frozen"
               ELSE IF v \in Refused THEN "refused" ELSE None

\* The same for Registry::bind of a SID, its RID kept or not: a mapping of this
\* run is corrected until the registry freezes, one that is preloaded is not.
BindError(v, keep) ==
    IF v \notin mapped THEN MapError(v)
    ELSE IF (v \in kept <=> keep) \/ ~(frozen \/ v \in old) THEN None ELSE "conflict"
Bound(v, keep) == IF keep THEN kept \cup {v} ELSE kept \ {v}

\* The call returns e.
Return(r) ==
    /\ result' = r
    /\ call' = Idle
    /\ discovered' = IF r = Ok /\ call.api = "discover_document"
                     THEN discovered \cup {call.doc} ELSE discovered

\* locate
Locate(e, cause) == Failure(e, locator, cause)
----------------------------------------------------------------------------
(* The public calls *)

\* Mutant: only the registry keeps a late document out.
OpenAlways == TRUE

\* ensure_discovery_open
Open == snapshot = None /\ ~frozen

RefuseDiscovery ==
    /\ call = Idle /\ ~Open
    /\ result' = Failure("runtime", None, None)
    /\ UNCHANGED <<engine, parked, locator, call, discovered>>

\* contexts_for_document: no meta, no type, no data, or an item that is no object.
NoContexts(d) == d \in Malformed

\* process_document up to its first visit.
BeginDocument(api, d) ==
    /\ locator' = None
    /\ IF NoContexts(d)
       THEN /\ result' = Failure("value", None, None)
            /\ call' = Idle
            /\ UNCHANGED targets
       ELSE /\ call' = Calling(api, d)
            /\ targets' = IF api = "discover_document"
                          THEN targets \cup Defines[d] ELSE targets
            /\ UNCHANGED result
    /\ UNCHANGED <<registry, templates, snapshot, parked, discovered>>

DiscoverDocument(d) ==
    /\ call = Idle /\ Open
    /\ BeginDocument("discover_document", d)

FinalizeDiscovery ==
    /\ call = Idle
    /\ IF snapshot # None
       THEN result' = Ok /\ UNCHANGED call
       ELSE call' = Finalizing("finalize_discovery", None) /\ UNCHANGED result
    /\ UNCHANGED <<engine, parked, locator, discovered>>

TransformDocument(d) ==
    /\ call = Idle
    /\ IF snapshot # None
       THEN BeginDocument("transform_document", d)
       ELSE /\ call' = Finalizing("transform_document", d)
            /\ UNCHANGED <<engine, parked, locator, result, discovered>>

\* visit_node: no locator is cleared, no object is evidence, nothing frozen.
VisitNode(d, discover) ==
    /\ call = Idle /\ (discover => Open)
    /\ call' = Calling(IF discover THEN "discover_node" ELSE "transform_node", d)
    /\ UNCHANGED <<engine, parked, locator, result, discovered>>
----------------------------------------------------------------------------
(* visit: one element of the document under way *)

Walking == call # Idle /\ call.stage = "walk" /\ call.at <= Len(Leaves[call.doc])
Here == <<call.doc, call.at>>
Visited == Leaves[call.doc][call.at]
Discovering == call.api \in {"discover_document", "discover_node"}

OnlyPart == Visited.parts[1]
Onward == [call EXCEPT !.at = @ + 1, !.part = 1]
Go == call' = Onward /\ UNCHANGED <<result, discovered>>

\* project_output_key: its error carries no locator.
ProjectKey ==
    /\ Walking /\ Visited.kind = "key"
    /\ IF MapError(OnlyPart) = None
       THEN mapped' = mapped \cup {OnlyPart} /\ Go
       ELSE Return(Failure(MapError(OnlyPart), None, Here)) /\ UNCHANGED mapped
    /\ UNCHANGED <<old, oldKept, kept, frozen, templates, targets, snapshot, parked, locator>>

\* The key is mapped, then found in projected_keys.
KeyCollision ==
    /\ Walking /\ Visited.kind = "sameKey"
    /\ IF MapError(OnlyPart) = None
       THEN /\ mapped' = mapped \cup {OnlyPart}
            /\ locator' = Here
            /\ Return(Failure("collision", Here, Here))
       ELSE /\ Return(Failure(MapError(OnlyPart), None, Here))
            /\ UNCHANGED <<mapped, locator>>
    /\ UNCHANGED <<old, oldKept, kept, frozen, templates, targets, snapshot, parked>>

SkipLeaf ==
    /\ Walking /\ Visited.kind \in {"kept", "scalar"}
    /\ locator' = IF Visited.kind = "kept" THEN Here ELSE locator
    /\ Go
    /\ UNCHANGED <<engine, parked>>

\* redact_functional_level_number and redact_undeclared_number, in both passes;
\* their error carries no locator.
RefuseNumber ==
    /\ Walking /\ Visited.kind = "beyond"
    /\ Return(Failure("value", None, Here))
    /\ UNCHANGED <<engine, parked, locator>>

\* Mutant: only a leaf of several parts is marked.
MarkLate == locator

\* mark_leaf
MarkLeaf == Here

\* Discovery leaves a value that spells a SID the registry maps to the
\* transform pass, whatever the rule of its path does with it.
Deferred == Discovering /\ call.part = 1 /\ Visited.spells \in mapped

MapOpaque ==
    /\ Walking /\ Visited.kind = "opaque" /\ ~Deferred
    /\ locator' = MarkLeaf
    /\ IF MapError(OnlyPart) = None
       THEN mapped' = mapped \cup {OnlyPart} /\ Go
       ELSE /\ Return(Failure(MapError(OnlyPart), locator', Here))
            /\ UNCHANGED mapped
    /\ UNCHANGED <<old, oldKept, kept, frozen, templates, targets, snapshot, parked>>

\* remember_template keeps the name for finalize; map_template maps it.
VisitTemplate ==
    /\ Walking /\ Visited.kind = "template" /\ ~Deferred
    /\ locator' = MarkLeaf
    /\ IF Discovering
       THEN templates' = templates \cup {OnlyPart} /\ Go /\ UNCHANGED mapped
       ELSE /\ UNCHANGED templates
            /\ IF MapError(OnlyPart) = None
               THEN mapped' = mapped \cup {OnlyPart} /\ Go
               ELSE /\ Return(Failure(MapError(OnlyPart), locator', Here))
                    /\ UNCHANGED mapped
    /\ UNCHANGED <<old, oldKept, kept, frozen, targets, snapshot, parked>>

\* Mutant: the value is deferred before its evidence is remembered.
DeferAtOnce ==
    /\ Walking /\ Deferred
    /\ locator' = MarkLeaf
    /\ Go
    /\ UNCHANGED <<engine, parked>>

\* remember_referenced_domain_rid
Remembered == IF Discovering /\ Visited.evidence THEN targets \cup {Visited.sid} ELSE targets

DeferSid ==
    /\ Walking /\ Deferred
    /\ locator' = MarkLeaf
    /\ targets' = Remembered
    /\ Go
    /\ UNCHANGED <<registry, templates, snapshot, parked>>

\* apply_discovered_domain_rid_evidence: what the catalog keeps here, and what
\* other occurrences are evidence of.
Evidence == IF snapshot = None THEN targets ELSE snapshot
Keeps(l, v) == v = l.sid /\ (l.evidence \/ v \in Evidence)

Bridged == Visited.kind = "parts" /\ ~Deferred

\* transform_sid maps a domain and binds what is below it.
PartError(v) == IF v \in Account THEN BindError(v, Keeps(Visited, v)) ELSE MapError(v)

\* RegistryOps cannot fail: bridge parks the first error and writes the
\* fallback, the transform goes on with the parts that are left.
Park(e, cause) == IF parked # None THEN parked ELSE [error |-> e, cause |-> cause]

BridgePart ==
    /\ Walking /\ Bridged /\ call.part <= Len(Visited.parts)
    /\ locator' = MarkLeaf
    /\ targets' = Remembered
    /\ LET v == Visited.parts[call.part]
           e == PartError(v)
       IN  IF e = None
           THEN /\ mapped' = mapped \cup {v}
                /\ kept' = IF v \in Account THEN Bound(v, Keeps(Visited, v)) ELSE kept
                /\ call' = [call EXCEPT !.part = @ + 1]
                /\ UNCHANGED parked
           ELSE /\ parked' = Park(e, Here)
                /\ call' = [call EXCEPT !.part = @ + 1,
                                       !.fallback = IF @ = None THEN e ELSE @]
                /\ UNCHANGED <<mapped, kept>>
    /\ UNCHANGED <<old, oldKept, frozen, templates, snapshot, result, discovered>>

\* Mutant: the parked error is left for a later leaf to find.
CheckLater ==
    /\ Walking /\ Bridged /\ call.part > Len(Visited.parts)
    /\ Go
    /\ UNCHANGED <<engine, parked, locator>>

\* Mutant: the parked error is taken and dropped.
CheckAndDrop ==
    /\ Walking /\ Bridged /\ call.part > Len(Visited.parts)
    /\ parked' = None /\ Go
    /\ UNCHANGED <<engine, locator>>

\* check_registry, once the whole leaf is built.
CheckRegistry ==
    /\ Walking /\ Bridged /\ call.part > Len(Visited.parts)
    /\ parked' = None
    /\ IF parked = None THEN Go
       ELSE Return(Locate(parked.error, parked.cause))
    /\ UNCHANGED <<engine, locator>>

EndWalk ==
    /\ call # Idle /\ call.stage = "walk" /\ call.at > Len(Leaves[call.doc])
    /\ Return(Ok)
    /\ UNCHANGED <<engine, parked, locator>>
----------------------------------------------------------------------------
(* finalize_discovery *)

\* finalize_template_mappings: map_many maps all of the names or none. (Its flag
\* template_mappings_finalized only spares a later finalize_discovery the work,
\* after one that failed at a target or at the freeze: that one fails as well.)
MapTemplates ==
    /\ call # Idle /\ call.stage = "templates"
    /\ IF \A v \in templates : MapError(v) = None
       THEN /\ mapped' = mapped \cup templates
            /\ call' = [call EXCEPT !.stage = "targets", !.settling = targets]
            /\ UNCHANGED <<result, discovered>>
       ELSE /\ UNCHANGED mapped
            /\ \E v \in templates :
                  MapError(v) # None /\ Return(Failure(MapError(v), None, v))
    /\ UNCHANGED <<old, oldKept, kept, frozen, templates, targets, snapshot, parked, locator>>

\* transform_sid of the first target left, which maps its domain and binds it,
\* and check_registry, which returns the first error.
SettleTarget ==
    /\ call # Idle /\ call.stage = "targets" /\ call.settling # {}
    /\ LET v == CHOOSE t \in call.settling : \A u \in call.settling : Rank[t] <= Rank[u]
           d == Domain[v]
           e == IF MapError(d) # None THEN MapError(d) ELSE BindError(v, TRUE)
       IN  /\ mapped' = mapped \cup {u \in {d} : MapError(d) = None}
                               \cup {u \in {v} : BindError(v, TRUE) = None}
           /\ kept' = IF BindError(v, TRUE) = None THEN Bound(v, TRUE) ELSE kept
           /\ IF e = None
              THEN call' = [call EXCEPT !.settling = @ \ {v}] /\ UNCHANGED <<result, discovered>>
              ELSE Return(Locate(e, v))
    /\ UNCHANGED <<old, oldKept, frozen, templates, targets, snapshot, parked, locator>>

\* The rest of finalize_discovery; transform_document then begins its walk. A
\* registry that maps a value to itself does not freeze (validated_indexes).
Freeze ==
    /\ call # Idle /\ call.stage = "targets" /\ call.settling = {}
    /\ frozen \/ mapped \cap Inert = {}
    /\ frozen' = TRUE
    /\ snapshot' = targets
    /\ IF call.api = "finalize_discovery"
       THEN Return(Ok) /\ UNCHANGED locator
       ELSE /\ locator' = None
            /\ UNCHANGED discovered
            /\ IF NoContexts(call.doc)
               THEN result' = Failure("value", None, None) /\ call' = Idle
               ELSE call' = Calling(call.api, call.doc) /\ UNCHANGED result
    /\ UNCHANGED <<old, oldKept, mapped, kept, templates, targets, parked>>

RefuseFreeze ==
    /\ call # Idle /\ call.stage = "targets" /\ call.settling = {}
    /\ ~frozen /\ mapped \cap Inert # {}
    /\ Return(Failure("unsafe", None, None))
    /\ UNCHANGED <<engine, parked, locator>>
----------------------------------------------------------------------------
EngineStep ==
    \/ ProjectKey \/ KeyCollision \/ SkipLeaf \/ RefuseNumber
    \/ MapOpaque \/ VisitTemplate \/ DeferSid
    \/ BridgePart \/ CheckRegistry \/ EndWalk
    \/ MapTemplates \/ SettleTarget \/ Freeze \/ RefuseFreeze

EngineNext ==
    \/ \E d \in Document : DiscoverDocument(d) \/ TransformDocument(d)
    \/ \E d \in Document \ Malformed, b \in BOOLEAN : VisitNode(d, b)
    \/ RefuseDiscovery \/ FinalizeDiscovery
    \/ EngineStep

EngineSpec == EngineInit /\ [][EngineNext]_engineVars
----------------------------------------------------------------------------
\* The engine's tables hold values, a locator names a leaf, an error that is
\* parked has its cause, and only a call under way parks one.
EngineTypeOK ==
    /\ mapped \cup templates \subseteq Value
    /\ targets \subseteq Account /\ kept \subseteq mapped \cap Account
    /\ frozen \in BOOLEAN
    /\ snapshot = None \/ (snapshot \subseteq Account /\ frozen)
    /\ locator = None \/ locator \in Place
    /\ parked = None \/ (parked.cause \in Place /\ call # Idle)
    /\ discovered \subseteq Document

Returns == call # Idle /\ call' = Idle

\* RegistryOps cannot return an error: the bridge parks it and hands the source
\* value back. No call that wrote one through may return Ok, it returns the
\* first of its errors, and none is left for the next call to find.
FallbackReported ==
    [][Returns => /\ call.fallback # None => result'.error = call.fallback
                  /\ parked' = None]_engineVars

\* An error raised in a walk carries the locator of the leaf that raised it or
\* none, whatever was walked before it (AbortLocator, locate, check_registry).
ToldWhere ==
    result.at # None /\ result.cause \in Place => result.at = result.cause

\* Once the snapshot is taken no call in any order adds a mapping or evidence:
\* what the verifier was given stays what the transform pass uses, until the
\* engine is given up for a new one (finalize_discovery, ensure_discovery_open,
\* the frozen registry).
ClosedForGood ==
    [][snapshot # None =>
          UNCHANGED <<mapped, kept, frozen, templates, targets, snapshot>> \/ Fresh']_engineVars

\* A SID of the leaf that keeps its RID, by the evidence of another occurrence
\* or by a reused map, where the leaf has to replace it.
Contradicted(l) ==
    \E k \in DOMAIN l.parts : l.parts[k] \in kept /\ ~Keeps(l, l.parts[k])

\* A leaf discovery left alone because it spells a mapped SID, where the rule
\* maps it as something else.
Overlooked(l) == l.spells \in mapped /\ \E k \in DOMAIN l.parts : l.parts[k] \notin mapped

\* The transform walk of a document that was discovered finds every mapping it
\* needs, with the intent it needs, but at those two kinds of leaf, which no
\* later step can mend: it fails exactly if the document has one, and a RID
\* that the evidence keeps is never found replaced.
DiscoveredTransforms ==
    [][/\ Returns /\ call.api = "transform_document" /\ call.stage = "walk"
       /\ call.doc \in discovered
       => LET refused(P(_)) == \E i \in DOMAIN Leaves[call.doc] : P(Leaves[call.doc][i])
          IN  /\ result'.error \in {None, "conflict", "frozen"}
              /\ result'.error = "conflict" => refused(Contradicted)
              /\ result'.error = "frozen" => refused(Overlooked)
              /\ result'.error = None => ~refused(Contradicted) /\ ~refused(Overlooked)]_engineVars
=============================================================================
