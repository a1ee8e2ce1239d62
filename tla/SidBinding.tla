----------------------------- MODULE SidBinding -----------------------------
(***************************************************************************)
(* How a run decides the pseudonyms of SIDs (crates/shanon-core/src:       *)
(* engine.rs and transform_sid of components.rs) over the registry.        *)
(*                                                                         *)
(* A SID below a domain keeps its last arc, its RID, when the catalog says *)
(* so at any of its occurrences, and those are met in any order: discovery *)
(* binds with the evidence it has, finalize_discovery corrects, the        *)
(* transform pass asks again. Not every occurrence may use the evidence of *)
(* another, and one that may not is refused if the RID is kept. Every      *)
(* registry call is a step here.                                           *)
(*                                                                         *)
(* A SID is the sequence of its arcs after S-1-5-21, the three arcs of the *)
(* domain being one; the engine passes one spelling of each to the         *)
(* registry. Other values of the documents do not touch these tables.      *)
(***************************************************************************)
EXTENDS Registry

CONSTANTS Document,      \* documents a collection may consist of
          Defines,       \* [Document -> SUBSET Source], see DefinesAssumption
          Leaf,          \* occurrences of a SID
          Subauthority,  \* [Source -> Nat], what sid_subauthority returns
          WellKnown,     \* SIDs below a domain whose RID is in the catalog
          Covered        \* SIDs earlier collections of this environment held

VARIABLES collection,    \* the accepted members
          phase,         \* how far the run is
          undiscovered,  \* documents not begun in this pass
          unvisited,     \* occurrences not visited of the documents begun
          targets,       \* catalog_domain_rid_targets
          unsettled,     \* targets finalize_discovery has not bound yet
          job,           \* the transform_sid call under way
          output         \* occurrence -> what transform wrote for it

progress == <<collection, phase>>
engineVars == <<progress, undiscovered, unvisited, targets, unsettled, job, output>>
allVars == <<vars, engineVars>>

ASSUME SequencesAssumption ==
    /\ Source \subseteq Seq(Nat) /\ Pseudonym \subseteq Seq(Nat)
    /\ \A v \in Source \cup Pseudonym :
          Len(v) > 0 /\ Arcs[v] = IF Len(v) = 1 THEN <<>> ELSE v
    /\ \A s \in Source : \A n \in 1..Len(s) : SubSeq(s, 1, n) \in Source
\* The engine passes SIDs in upper case, so no two spellings are of one SID.
ASSUME SpellingAssumption ==
    \A v, w \in Source \cup Pseudonym : Norm[v] = Norm[w] => v = w
\* declared: the catalog permits the RID at this path. applies: so may evidence
\* found elsewhere, which is not asked at an object's own identifier, in a name
\* or in a DN. embedded: the value is more than the SID, <DOMAIN>-<SID>, a name
\* or a DN.
ASSUME LeafAssumption ==
    /\ Leaf \subseteq [doc : Document, sid : Source, declared : BOOLEAN,
                       applies : BOOLEAN, embedded : BOOLEAN]
    /\ \A l \in Leaf : l.declared => l.sid \in WellKnown /\ l.applies
\* The SIDs of the objects of a document that match a core catalog entry.
ASSUME DefinesAssumption == Defines \in [Document -> SUBSET WellKnown]
ASSUME WellKnownAssumption ==
    WellKnown \subseteq {s \in Source : Len(s) = 2} /\ Covered \subseteq Source
\* sid_subauthority never returns the last arc of its argument.
ASSUME SubauthorityAssumption ==
    /\ Subauthority \in [Source -> Nat]
    /\ \A s \in Source : Subauthority[s] # s[Len(s)]
\* A domain is mapped to a domain, and whatever transform_sid puts together
\* under a pseudonym can stand for a SID.
ASSUME PseudonymAssumption ==
    /\ \A s \in Source : Len(s) = 1 => Len(Candidate[s]) = 1
    /\ \A s \in Source, p \in Pseudonym : Len(s) = Len(p) + 1 =>
          /\ Append(p, Subauthority[s]) \in Pseudonym
          /\ s \in WellKnown => Append(p, s[Len(s)]) \in Pseudonym
----------------------------------------------------------------------------
Occurrence == {l \in Leaf : l.doc \in collection}

Above(s) == SubSeq(s, 1, Len(s) - 1)

\* A mapping file an earlier run with the same salt may have written.
EarlierMap(c) ==
    \A s \in Known(c) :
        IF Len(s) = 1 THEN c[s] = Candidate[s]
        ELSE /\ Above(s) \in Known(c)
             /\ \/ c[s] = Append(c[Above(s)], Subauthority[s])
                \/ /\ s \in WellKnown
                   /\ c[s] = Append(c[Above(s)], s[Len(s)])
                   /\ \A t \in Known(c) : Len(t) > Len(s) => Above(t) # s

Idle == [sid |-> None]

\* transform_sid(sid, preserve), for an occurrence or for none: depth arcs are
\* mapped, to mapped.
Call(s, preserve, for) ==
    [sid |-> s, preserve |-> preserve, for |-> for, depth |-> 0, mapped |-> <<>>]

SidInit ==
    /\ \E c \in [Covered -> Pseudonym \cup {None}] :
          categories = [s \in Source |-> IF s \in Covered THEN c[s] ELSE None]
    /\ EarlierMap(categories)
    /\ Init
    /\ phase = "discover"
    /\ collection \in SUBSET Document \ {{}}
    /\ undiscovered = collection
    /\ unvisited = {}
    /\ targets = {}
    /\ unsettled = {}
    /\ job = Idle
    /\ output = [l \in Leaf |-> None]
----------------------------------------------------------------------------
(* Discovery *)

\* remember_domain_rid_target, for every object of the document.
Defined(d) == targets \cup Defines[d]

\* process_document begins a document: its own objects are evidence.
BeginDocument(d) ==
    /\ phase = "discover" /\ job = Idle /\ unvisited = {}
    /\ d \in undiscovered
    /\ undiscovered' = undiscovered \ {d}
    /\ unvisited' = {l \in Leaf : l.doc = d}
    /\ targets' = Defined(d)
    /\ UNCHANGED <<vars, progress, unsettled, job, output>>

\* Mutants: references are no evidence; every occurrence is.
EvidenceAtDefinitions(l) == targets
EvidenceEverywhere(l) == targets \cup {l.sid}

\* remember_referenced_domain_rid
Evidence(l) == IF l.declared THEN targets \cup {l.sid} ELSE targets

\* Mutant: every occurrence is bound when it is met.
DeferredNever(l) == FALSE

\* The registry already owns the value as it is spelled.
Deferred(l) == ~l.embedded /\ Owner(l.sid) # None

\* apply_discovered_domain_rid_evidence
Preserves(l, evidence) == l.applies /\ l.sid \in evidence

\* visit, in the discovery pass.
DiscoverLeaf(l) ==
    /\ phase = "discover" /\ job = Idle
    /\ l \in unvisited
    /\ unvisited' = unvisited \ {l}
    /\ targets' = Evidence(l)
    /\ job' = IF Deferred(l) THEN Idle ELSE Call(l.sid, Preserves(l, targets'), l)
    /\ UNCHANGED <<vars, progress, undiscovered, unsettled, output>>
----------------------------------------------------------------------------
(* transform_sid: map the domain, then bind every deeper SID under it. *)

Prefix == SubSeq(job.sid, 1, job.depth + 1)

LastArc == job.depth + 1 = Len(job.sid)

Preserve == job.preserve /\ LastArc

Requested ==
    Append(job.mapped, IF Preserve THEN Prefix[Len(Prefix)] ELSE Subauthority[Prefix])

RegistryCall ==
    IF job.depth = 0 THEN Map(Prefix) ELSE Bind(Prefix, Requested, Preserve)

\* A call worked: go one arc deeper or hand the pseudonym over.
CallWorked ==
    LET answer == categories'[normalizedSources'[Norm[Prefix]]]
    IN  /\ job # Idle
        /\ RegistryCall
        /\ outcome' = "ok"
        /\ IF LastArc
           THEN /\ job' = Idle
                /\ output' = IF phase = "transform"
                             THEN [output EXCEPT ![job.for] = answer] ELSE output
           ELSE /\ job' = [job EXCEPT !.depth = @ + 1, !.mapped = answer]
                /\ UNCHANGED output
        /\ UNCHANGED <<progress, undiscovered, unvisited, targets, unsettled>>

\* The error is parked, check_registry finds it, and the run is over: the
\* calls transform_sid still makes touch a registry nobody reads again.
CallFailed ==
    /\ job # Idle
    /\ RegistryCall
    /\ outcome' # "ok"
    /\ phase' = "aborted"
    /\ job' = Idle
    /\ UNCHANGED <<collection, undiscovered, unvisited, targets, unsettled, output>>
----------------------------------------------------------------------------
(* finalize_discovery *)

\* Mutant: only what is not bound yet is settled.
EndDiscoveryLazily ==
    /\ phase = "discover" /\ job = Idle
    /\ undiscovered = {} /\ unvisited = {}
    /\ phase' = "settle"
    /\ unsettled' = {s \in targets : Owner(s) = None}
    /\ UNCHANGED <<vars, collection, undiscovered, unvisited, targets, job, output>>

EndDiscovery ==
    /\ phase = "discover" /\ job = Idle
    /\ undiscovered = {} /\ unvisited = {}
    /\ phase' = "settle"
    /\ unsettled' = targets
    /\ UNCHANGED <<vars, collection, undiscovered, unvisited, targets, job, output>>

\* In the order of the sorted keys.
SettleTarget ==
    /\ phase = "settle" /\ job = Idle
    /\ unsettled # {}
    /\ unsettled' = unsettled \ {Preferred(unsettled)}
    /\ job' = Call(Preferred(unsettled), TRUE, None)
    /\ UNCHANGED <<vars, progress, undiscovered, unvisited, targets, output>>

CloseDiscovery ==
    /\ phase = "settle" /\ job = Idle
    /\ unsettled = {}
    /\ Freeze
    /\ phase' = IF outcome' = "ok" THEN "transform" ELSE "aborted"
    /\ unvisited' = Occurrence
    /\ UNCHANGED collection
    /\ UNCHANGED <<undiscovered, targets, unsettled, job, output>>
----------------------------------------------------------------------------
(* The transform pass; what it may do does not depend on the order. *)

TransformLeaf(l) ==
    /\ phase = "transform" /\ job = Idle
    /\ l \in unvisited
    /\ unvisited' = unvisited \ {l}
    /\ job' = Call(l.sid, Preserves(l, targets), l)
    /\ UNCHANGED <<vars, progress, undiscovered, targets, unsettled, output>>

EndTransform ==
    /\ phase = "transform" /\ job = Idle
    /\ unvisited = {}
    /\ phase' = "done"
    /\ UNCHANGED <<vars, collection, undiscovered, unvisited, targets, unsettled, job, output>>

SidNext ==
    \/ \E d \in Document : BeginDocument(d)
    \/ \E l \in Leaf : DiscoverLeaf(l)
    \/ CallWorked \/ CallFailed
    \/ EndDiscovery \/ SettleTarget \/ CloseDiscovery
    \/ \E l \in Leaf : TransformLeaf(l)
    \/ EndTransform

SidSpec == SidInit /\ [][SidNext]_allVars
----------------------------------------------------------------------------
(* What the result should be, from the collection alone. *)

Qualified ==
    (UNION {Defines[d] : d \in collection}) \cup
    {l.sid : l \in {k \in Occurrence : k.declared}}

\* The arc a SID has at k: a domain has what the generator gives it, and an
\* account its own or another.
ExpectedArc(s, k) ==
    LET prefix == SubSeq(s, 1, k)
    IN  IF k = 1 THEN Candidate[prefix][1]
        ELSE IF prefix \in Qualified THEN s[k] ELSE Subauthority[prefix]

Expected(s) == [k \in 1..Len(s) |-> ExpectedArc(s, k)]

Kept(s) == Terminal(categories[s]) = Terminal(s)

IsAncestor(s, t) == Len(s) < Len(t) /\ Len(s) > 1 /\ SubSeq(t, 1, Len(s)) = s

Loaded(s) == Norm[s] \in preloadedSources

\* What the registry holds for s when discovery is over keeps the RID.
KeepsAtEnd(s) == s \in Qualified \/ (Len(s) > 1 /\ Loaded(s) /\ Kept(s))

\* The mapping file moved a RID there is evidence for, an occurrence cannot use
\* the evidence the registry kept its RID for, or a SID lies below one that
\* keeps its own.
Conflicted ==
    \/ \E s \in Qualified : Loaded(s) /\ ~Kept(s)
    \/ \E l \in Occurrence : KeepsAtEnd(l.sid) /\ ~Preserves(l, Qualified)
    \/ \E l \in Occurrence, s \in Source : IsAncestor(s, l.sid) /\ KeepsAtEnd(s)
----------------------------------------------------------------------------
(* Properties *)

SidTypeOK ==
    /\ TypeOK
    /\ collection \subseteq Document
    /\ phase \in {"discover", "settle", "transform", "done", "aborted"}
    /\ undiscovered \subseteq collection
    /\ unvisited \subseteq Occurrence
    /\ targets \subseteq WellKnown
    /\ unsettled \subseteq targets
    /\ output \in [Leaf -> Pseudonym \cup {None}]

\* When discovery is closed every SID the catalog speaks for keeps its RID and
\* no other does but what the mapping file fixed, whatever was bound first.
EvidenceSettled ==
    frozen => \A s \in Known(categories) :
                  Len(s) > 1 /\ ~Loaded(s) => (Kept(s) <=> s \in targets)

\* What a run writes for an occurrence is a function of the collection and the
\* salt: neither the order of the documents, nor which path the walk reached
\* first, nor the calls that bound and corrected it show in the output.
OutputOrderFree ==
    phase = "done" => \A l \in Occurrence : output[l] = Expected(l.sid)

\* A run that is not refused had nothing to be refused for.
CompletesRightly == phase = "done" => ~Conflicted

\* Whether the run is refused is such a function too.
RefusalOrderFree == (phase = "aborted" => Conflicted) /\ CompletesRightly
=============================================================================
