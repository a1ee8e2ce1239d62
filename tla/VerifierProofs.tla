--------------------------- MODULE VerifierProofs ---------------------------
(* Theorems about the leak gate, for documents of any number of slots and   *)
(* any evidence: it finds every fault, and it finds nothing else.           *)
EXTENDS Verifier, FiniteSetTheorems, TLAPS

\* What the gate is given: a document, what an engine made of it, one fault.
Given ==
    /\ source \in Documents /\ redacting \in BOOLEAN
    /\ fault \in Faults(source)
    /\ meta = (fault # <<"malformed">>)
    /\ registry = [trusted |-> fault # <<"untrusted">>, frozen |-> fault # <<"thawed">>,
                   lacks |-> IF fault # <<>> /\ fault[1] = "lacks" THEN {fault[2]} ELSE {}]
    /\ evidence = IF fault = <<"evidence">> THEN Targets \cup {Raw("other")} ELSE Targets
    /\ output = Spoilt(source, fault) /\ records = Forged(source, fault)

\* What each phase finds, whenever it runs.
Trusted == registry.trusted /\ registry.frozen
Unproven == {<<"invalid-target-evidence", "">> : t \in evidence \ Valid}
Unprojected == {<<"registry-mapping-missing", "">> : k \in DOMAIN source \ Projected}
Different ==
    UNION {IF p \in SourceFlat /\ p \in DOMAIN output THEN ScalarFindings(p)
           ELSE {<<"source-output-topology-mismatch", p>>} : p \in Union}
Unaccounted ==
    {<<"record-missing", p>> : p \in {q \in DOMAIN output \ ProjectedLeaves :
        output[q].ty = "str" /\ Copies(q) = {}}}
Wrong == UNION {LeafFindings(p) : p \in ProjectedLeaves}
Superfluous ==
    {<<"record-extra", "">> : r \in {e \in DOMAIN records : e[1] \notin ProjectedLeaves}}

Clean ==
    /\ Trusted /\ meta /\ Unproven = {} /\ Unprojected = {}
    /\ Different = {} /\ Unaccounted = {} /\ Wrong = {} /\ Superfluous = {}

\* The findings are there exactly if one of the phases gone through made one.
GateIInv ==
    /\ Given
    /\ phase \in {"trust", "source", "targets", "project", "compare", "strings", "leaves",
                  "extra", "done"}
    /\ phase = "trust" => findings = {}
    /\ phase = "source" => findings = {} /\ Trusted
    /\ phase \notin {"trust", "source", "done"} => Trusted /\ meta
    /\ phase = "targets" => findings = {}
    /\ phase = "project" => (findings = {} <=> Unproven = {})
    /\ phase = "compare" => (findings = {} <=> Unproven = {} /\ Unprojected = {})
    /\ phase = "strings" =>
          (findings = {} <=> Unproven = {} /\ Unprojected = {} /\ Different = {})
    /\ phase = "leaves" =>
          (findings = {} <=> /\ Unproven = {} /\ Unprojected = {}
                             /\ Different = {} /\ Unaccounted = {})
    /\ phase = "extra" =>
          (findings = {} <=> /\ Unproven = {} /\ Unprojected = {}
                             /\ Different = {} /\ Unaccounted = {} /\ Wrong = {})
    /\ phase = "done" => (findings = {} <=> Clean)
----------------------------------------------------------------------------
(* The phases *)

\* Nothing changes what the gate is given, or what a phase would find in it.
LEMMA GivenFixed ==
  ASSUME UNCHANGED Fixed
  PROVE  /\ (Given' <=> Given) /\ (Trusted' <=> Trusted) /\ meta' = meta /\ Unproven' = Unproven
         /\ Unprojected' = Unprojected /\ Different' = Different
         /\ Unaccounted' = Unaccounted /\ Wrong' = Wrong /\ Superfluous' = Superfluous
         /\ (Clean' <=> Clean)
<1>1. /\ source' = source /\ redacting' = redacting /\ fault' = fault /\ meta' = meta
      /\ registry' = registry /\ evidence' = evidence /\ output' = output
      /\ records' = records
  BY DEF Fixed
<1>2. Valid' = Valid /\ Projected' = Projected /\ Union' = Union /\ SourceFlat' = SourceFlat
      /\ ProjectedLeaves' = ProjectedLeaves
  BY <1>1 DEF Valid, Projected, Union, SourceFlat, ProjectedLeaves
<1>3. \A p : ScalarFindings(p)' = ScalarFindings(p) /\ LeafFindings(p)' = LeafFindings(p)
             /\ Copies(p)' = Copies(p)
  <2>1. \A p : At(p)' = At(p) /\ Copies(p)' = Copies(p)
    BY <1>1 DEF At, Copies
  <2>2. \A p : Level(p)' = Level(p) /\ Declared(p)' = Declared(p)
    BY <2>1 DEF Level, Declared
  <2>3. \A p : ScalarFindings(p)' = ScalarFindings(p)
    BY <1>1, <2>1, <2>2 DEF ScalarFindings
  <2>4. \A p : LeafFindings(p)' = LeafFindings(p)
    BY <1>1, <1>2, <2>1 DEF LeafFindings, Copies
  <2> QED BY <2>1, <2>3, <2>4
<1>4. Different' = Different
  BY <1>1, <1>2, <1>3 DEF Different
<1>5. Unaccounted' = Unaccounted
  BY <1>1, <1>2, <1>3 DEF Unaccounted
<1>6. Wrong' = Wrong
  BY <1>1, <1>2, <1>3 DEF Wrong
<1>7. (Trusted' <=> Trusted) /\ Unproven' = Unproven /\ Unprojected' = Unprojected
      /\ Superfluous' = Superfluous
  BY <1>1, <1>2 DEF Trusted, Unproven, Unprojected, Superfluous
<1>8. Given' <=> Given
  <2>1. \A x : Visited(x)' = Visited(x)
    BY <1>1 DEF Visited
  <2>2. \A d : Transformed(d)' = Transformed(d)
    BY <2>1 DEF Transformed
  <2>3. Transformed(source)' = Transformed(source)
    BY <1>1, <2>1 DEF Transformed
  <2>4. Spoilt(source, fault)' = Spoilt(source, fault)
    BY <1>1, <2>3 DEF Spoilt
  <2>5. Faults(source)' = Faults(source)
    BY <1>1, <2>3 DEF Faults
  <2>6. Forged(source, fault)' = Forged(source, fault)
    BY <1>1
  <2> QED BY <1>1, <2>4, <2>5, <2>6, Zenon DEF Given
<1> QED BY <1>1, <1>4, <1>5, <1>6, <1>7, <1>8 DEF Clean

LEMMA GateIndInv ==
  /\ VerifierInit => GateIInv
  /\ GateIInv /\ [VerifierNext]_verifierVars => GateIInv'
<1>1. VerifierInit => GateIInv
  BY DEF VerifierInit, GateIInv, Given
<1>2. ASSUME GateIInv, UNCHANGED verifierVars PROVE GateIInv'
  <2>1. UNCHANGED Fixed /\ phase' = phase /\ findings' = findings
    BY <1>2 DEF verifierVars, Fixed
  <2> QED BY <1>2, <2>1, GivenFixed DEF GateIInv
<1>3. ASSUME GateIInv, VerifierNext PROVE GateIInv'
  <2>1. UNCHANGED Fixed
    BY <1>3 DEF VerifierNext, CheckTrust, CheckSource, CheckTargets, ProjectSource, Compare,
                Strings, CheckLeaves, CheckExtra, Report
  <2>2. CASE CheckTrust
    BY <1>3, <2>1, <2>2, GivenFixed DEF CheckTrust, Report, GateIInv, Trusted, Clean
  <2>3. CASE CheckSource
    BY <1>3, <2>1, <2>3, GivenFixed DEF CheckSource, Report, GateIInv, Clean
  <2>4. CASE CheckTargets
    BY <1>3, <2>1, <2>4, GivenFixed DEF CheckTargets, Report, GateIInv, Unproven
  <2>5. CASE ProjectSource
    BY <1>3, <2>1, <2>5, GivenFixed DEF ProjectSource, Report, GateIInv, Unprojected
  <2>6. CASE Compare
    <3>1. findings' = findings \cup Different
      BY <2>6 DEF Compare, Report, Different
    <3> QED BY <1>3, <2>1, <2>6, <3>1, GivenFixed DEF Compare, Report, GateIInv
  <2>7. CASE Strings
    <3>1. findings' = findings \cup Unaccounted
      BY <2>7 DEF Strings, Report, Unaccounted
    <3> QED BY <1>3, <2>1, <2>7, <3>1, GivenFixed DEF Strings, Report, GateIInv
  <2>8. CASE CheckLeaves
    <3>1. findings' = findings \cup Wrong
      BY <2>8 DEF CheckLeaves, Report, Wrong
    <3> QED BY <1>3, <2>1, <2>8, <3>1, GivenFixed DEF CheckLeaves, Report, GateIInv
  <2>9. CASE CheckExtra
    <3>1. findings' = findings \cup Superfluous
      BY <2>9 DEF CheckExtra, Report, Superfluous
    <3> QED BY <1>3, <2>1, <2>9, <3>1, GivenFixed DEF CheckExtra, Report, GateIInv, Clean
  <2> QED BY <1>3, <2>2, <2>3, <2>4, <2>5, <2>6, <2>7, <2>8, <2>9 DEF VerifierNext
<1> QED BY <1>1, <1>2, <1>3
----------------------------------------------------------------------------
(* The slots of a document *)

LEMMA ScalarFacts ==
  ASSUME Given, NEW k \in DOMAIN source
  PROVE  LET x == source[k]
         IN  /\ x.ty \in Types /\ x.known \in BOOLEAN /\ x.declared \in BOOLEAN
             /\ x.text = Raw(x.text[2]) /\ x.text # Raw("other") /\ x.text[2] # "other"
             /\ x.ty = "str" <=> x.op \in {"keep", "map", "refer", "template", "sid"}
             /\ x.op = "level" => x.ty \in {"int", "float"}
             /\ k # "stray"
<1>1. source \in Documents
  BY DEF Given
<1>2. source[k].text = Raw(source[k].text[2]) /\ source[k].text # Raw("other")
  BY <1>1, VerifierAssumption, FaultAssumption
<1>3. source[k].text[2] # "other"
  BY <1>2
<1> QED BY <1>1, <1>2, <1>3, VerifierAssumption, FaultAssumption

\* A slot can be told from its path in the output, and the stray path is no one's.
LEMMA SlotFacts ==
  ASSUME Given
  PROVE  /\ \A k \in DOMAIN source :
                /\ PathOf(k, source[k]) \in Paths(source)
                /\ SlotAt(source, PathOf(k, source[k])) = k
                /\ At(PathOf(k, source[k])) = source[k]
         /\ \A p \in Paths(source) :
                /\ SlotAt(source, p) \in DOMAIN source
                /\ PathOf(SlotAt(source, p), source[SlotAt(source, p)]) = p
                /\ At(p) = source[SlotAt(source, p)]
         /\ Stray \notin Paths(source)
<1>1. ASSUME NEW k \in DOMAIN source, NEW l \in DOMAIN source,
             PathOf(k, source[k]) = PathOf(l, source[l])
      PROVE  k = l
  BY <1>1 DEF PathOf, Raw, Fake
<1>2. \A k \in DOMAIN source : PathOf(k, source[k]) # Stray
  BY ScalarFacts DEF PathOf, Raw, Fake, Stray
<1>3. Paths(source) = {PathOf(k, source[k]) : k \in DOMAIN source}
  BY DEF Paths
<1>4. ASSUME NEW p \in Paths(source)
      PROVE  /\ SlotAt(source, p) \in DOMAIN source
             /\ PathOf(SlotAt(source, p), source[SlotAt(source, p)]) = p
  <2>1. \E k \in DOMAIN source : PathOf(k, source[k]) = p
    BY <1>3
  <2> QED BY <2>1 DEF SlotAt
<1> QED BY <1>1, <1>2, <1>3, <1>4 DEF At

\* A registry that lacks nothing hides no slot.
LEMMA AllProjected ==
  ASSUME Given, registry.lacks = {}
  PROVE  /\ Projected = DOMAIN source /\ SourceFlat = Paths(source)
         /\ ProjectedLeaves = Leaves(source)
<1>1. Projected = DOMAIN source
  BY DEF Projected
<1>2. SourceFlat = Paths(source)
  BY <1>1 DEF SourceFlat, Paths
<1>3. Leaves(source) \subseteq Paths(source)
  BY DEF Leaves
<1> QED BY <1>1, <1>2, <1>3 DEF ProjectedLeaves

\* Where both have a path the findings there are findings of the gate.
LEMMA DifferentAt ==
  ASSUME NEW p \in SourceFlat, p \in DOMAIN output, ScalarFindings(p) # {}
  PROVE  Different # {}
<1>1. p \in Union
  BY DEF Union
<1> QED BY <1>1 DEF Different

LEMMA WrongAt ==
  ASSUME NEW p \in ProjectedLeaves, LeafFindings(p) # {}
  PROVE  Wrong # {}
BY DEF Wrong

\* A leaf with one record.
LEMMA OneCopy ==
  ASSUME NEW p, Copies(p) = {<<p, 1>>}
  PROVE  LET x == At(p)
             r == records[<<p, 1>>]
             written == IF p \in DOMAIN output /\ output[p].ty = "str"
                        THEN output[p].text ELSE <<>>
         IN  LeafFindings(p) = {} <=>
                /\ r.context = "ok" /\ r.decision = Decision(x, Valid)
                /\ r.source = x.text /\ r.output = written
                /\ Needs(x, Valid) \cap registry.lacks = {}
                /\ written = Text(x, Valid)
<1>1. Cardinality(Copies(p)) = 1 /\ Copies(p) # {}
  BY FS_Singleton
<1>2. (CHOOSE e \in Copies(p) : TRUE) = <<p, 1>>
  OBVIOUS
<1>3. ~(Cardinality(Copies(p)) > 1)
  BY <1>1
<1> QED BY <1>1, <1>2, <1>3 DEF LeafFindings

\* In the records an engine leaves there is one for each leaf.
LEMMA RecordedOnce ==
  ASSUME NEW p \in Leaves(source), records = Recorded(source)
  PROVE  /\ Copies(p) = {<<p, 1>>} /\ DOMAIN records = Leaves(source) \X {1}
         /\ records[<<p, 1>>] =
               [context |-> "ok", decision |-> Decision(At(p), Targets),
                source |-> At(p).text, output |-> Text(At(p), Targets)]
<1>1. DOMAIN records = Leaves(source) \X {1}
  BY DEF Recorded
<1>2. <<p, 1>> \in Leaves(source) \X {1}
  OBVIOUS
<1>3. records[<<p, 1>>] =
         [context |-> "ok", decision |-> Decision(At(p), Targets),
          source |-> At(p).text, output |-> Text(At(p), Targets)]
  BY <1>2 DEF Recorded, At
<1>4. Copies(p) = {<<p, 1>>}
  BY <1>1 DEF Copies
<1> QED BY <1>1, <1>3, <1>4

\* Evidence that was not tampered with is proven, and only that.
LEMMA EvidenceFacts ==
  ASSUME Given
  PROVE  /\ Valid = Targets
         /\ Unproven = {} <=> fault # <<"evidence">>
BY FaultAssumption DEF Given, Valid, Unproven
----------------------------------------------------------------------------
(* What the comparison of one path finds *)

Redacted(p) ==
    At(p).ty \in {"int", "float"} /\ (Level(p) \/ (redacting /\ ~Declared(p)))

LEMMA ScalarIs ==
  ASSUME NEW p, Given
  PROVE  ScalarFindings(p) = {} <=>
            /\ At(p).ty = output[p].ty
            /\ Redacted(p) => output[p].text = Sentinel(At(p).text)
            /\ ~Redacted(p) /\ At(p).ty # "str" => output[p].text = At(p).text
<1>1. CASE At(p).ty # output[p].ty
  BY <1>1 DEF ScalarFindings
<1>2. CASE At(p).ty = output[p].ty /\ Redacted(p)
  BY <1>2 DEF ScalarFindings, Redacted
<1>3. CASE At(p).ty = output[p].ty /\ ~Redacted(p) /\ At(p).ty # "str"
  BY <1>3 DEF ScalarFindings, Redacted
<1>4. CASE At(p).ty = output[p].ty /\ ~Redacted(p) /\ At(p).ty = "str"
  BY <1>4 DEF ScalarFindings, Redacted
<1> QED BY <1>1, <1>2, <1>3, <1>4

LEMMA SentinelFacts ==
  ASSUME NEW t
  PROVE  Sentinel(t) # t /\ Sentinel(t) # Raw("other") /\ Sentinel(t) # Fake("other")
BY DEF Sentinel, Raw, Fake

\* The gate and the engine redact the same numbers but the disputed ones.
LEMMA SameRedaction ==
  ASSUME Given, NEW p \in Paths(source)
  PROVE  At(p).ty # "str" =>
            (Visited(At(p)) = (IF Redacted(p) THEN Sentinel(At(p).text) ELSE At(p).text)
                <=> ~Disputed(At(p)))
<1> DEFINE k == SlotAt(source, p)
           x == source[k]
<1>1. k \in DOMAIN source /\ At(p) = x
  BY SlotFacts
<1>2. /\ x.ty \in Types /\ x.known \in BOOLEAN /\ x.declared \in BOOLEAN
      /\ x.op = "level" => x.ty \in {"int", "float"}
  BY <1>1, ScalarFacts
<1>3. Sentinel(x.text) # x.text
  BY SentinelFacts
<1>4. redacting \in BOOLEAN
  BY DEF Given
<1> HIDE DEF k, x
<1> SUFFICES ASSUME x.ty # "str"
             PROVE  Visited(x) = (IF Redacted(p) THEN Sentinel(x.text) ELSE x.text)
                       <=> ~Disputed(x)
  BY <1>1
<1>5. CASE x.ty \notin {"int", "float"}
  <2>1. Visited(x) = x.text
    BY <1>5 DEF Visited
  <2> QED BY <1>1, <1>5, <2>1 DEF Redacted, Disputed
<1>6. CASE x.ty \in {"int", "float"}
  <2>1. Visited(x) = IF x.op = "level" \/ (~x.declared /\ redacting) THEN Sentinel(x.text)
                     ELSE x.text
    BY <1>6 DEF Visited
  <2>2. Redacted(p) <=>
          (x.known /\ x.op = "level") \/ (redacting /\ ~(x.known /\ x.declared))
    BY <1>1, <1>6 DEF Redacted, Level, Declared
  <2>3. Disputed(x) <=>
          ~x.known /\ (IF x.op = "level" THEN ~redacting ELSE redacting /\ x.declared)
    BY <1>6 DEF Disputed
  <2> QED BY <1>2, <1>3, <1>4, <2>1, <2>2, <2>3
<1> QED BY <1>5, <1>6
----------------------------------------------------------------------------
(* Nothing was spoiled *)

LEMMA HonestOutput ==
  ASSUME NEW p \in Paths(source), output = Transformed(source)
  PROVE  /\ DOMAIN output = Paths(source) /\ p \in DOMAIN output
         /\ output[p].ty = At(p).ty /\ output[p].text = Visited(At(p))
<1>1. output[p] = [ty |-> At(p).ty, text |-> Visited(At(p))]
  BY DEF Transformed, At
<1>2. DOMAIN output = Paths(source)
  BY DEF Transformed
<1> QED BY <1>1, <1>2

LEMMA HonestLeaf ==
  ASSUME Given, output = Transformed(source), NEW p \in Leaves(source)
  PROVE  /\ p \in Paths(source) /\ At(p).ty = "str" /\ p \in DOMAIN output
         /\ output[p].ty = "str" /\ output[p].text = Text(At(p), Targets)
<1>1. p \in Paths(source) /\ At(p).ty = "str"
  BY DEF Leaves, At
<1>2. Visited(At(p)) = Text(At(p), Targets)
  BY <1>1 DEF Visited
<1> QED BY <1>1, <1>2, HonestOutput

LEMMA HonestCase ==
  ASSUME Given, fault = <<>>
  PROVE  Clean <=> ~\E k \in DOMAIN source : Disputed(source[k])
<1>1. output = Transformed(source) /\ records = Recorded(source) /\ registry.lacks = {}
      /\ Trusted /\ meta
  BY DEF Given, Spoilt, Forged, Trusted
<1>2. Valid = Targets /\ Unproven = {}
  BY EvidenceFacts
<1>3. Unprojected = {}
  BY <1>1, AllProjected DEF Unprojected
<1>4. Wrong = {}
  <2> SUFFICES ASSUME NEW p \in ProjectedLeaves PROVE LeafFindings(p) = {}
    BY DEF Wrong
  <2>1. p \in Leaves(source)
    BY <1>1, AllProjected
  <2>2. /\ Copies(p) = {<<p, 1>>}
        /\ records[<<p, 1>>] =
             [context |-> "ok", decision |-> Decision(At(p), Targets),
              source |-> At(p).text, output |-> Text(At(p), Targets)]
    BY <1>1, <2>1, RecordedOnce
  <2>3. /\ p \in DOMAIN output /\ output[p].ty = "str"
        /\ output[p].text = Text(At(p), Targets)
    BY <1>1, <2>1, HonestLeaf
  <2>4. Needs(At(p), Valid) \cap registry.lacks = {}
    BY <1>1
  <2> QED BY <1>2, <2>2, <2>3, <2>4, OneCopy
<1>5. Unaccounted = {}
  <2>1. DOMAIN output = Paths(source)
    BY <1>1 DEF Transformed
  <2>2. ASSUME NEW q \in DOMAIN output \ ProjectedLeaves PROVE output[q].ty # "str"
    <3>1. q \in Paths(source) /\ q \notin Leaves(source)
      BY <1>1, <2>1, AllProjected
    <3>2. At(q).ty # "str"
      BY <3>1 DEF Leaves, At
    <3> QED BY <1>1, <3>1, <3>2, HonestOutput
  <2> QED BY <2>2 DEF Unaccounted
<1>6. Superfluous = {}
  <2>1. DOMAIN records = Leaves(source) \X {1} /\ ProjectedLeaves = Leaves(source)
    BY <1>1, AllProjected DEF Recorded
  <2> QED BY <2>1 DEF Superfluous
<1>7. Different = {} <=> \A p \in Paths(source) : ScalarFindings(p) = {}
  <2>1. SourceFlat = Paths(source) /\ DOMAIN output = Paths(source)
    BY <1>1, AllProjected DEF Transformed
  <2>2. Different = UNION {ScalarFindings(p) : p \in Paths(source)}
    BY <2>1 DEF Different, Union
  <2> QED BY <2>2
<1>8. ASSUME NEW p \in Paths(source)
      PROVE  ScalarFindings(p) = {} <=> ~Disputed(At(p))
  <2>1. output[p].ty = At(p).ty /\ output[p].text = Visited(At(p))
    BY <1>1, HonestOutput
  <2>2. CASE At(p).ty = "str"
    <3>1. ~Redacted(p) /\ ~Disputed(At(p))
      BY <2>2 DEF Redacted, Disputed
    <3> QED BY <2>1, <2>2, <3>1, ScalarIs
  <2>3. CASE At(p).ty # "str"
    BY <2>1, <2>3, ScalarIs, SameRedaction
  <2> QED BY <2>2, <2>3
<1>9. (\A p \in Paths(source) : ~Disputed(At(p))) <=>
         ~\E k \in DOMAIN source : Disputed(source[k])
  BY SlotFacts
<1> QED BY <1>1, <1>2, <1>3, <1>4, <1>5, <1>6, <1>7, <1>8, <1>9 DEF Clean

\* What an engine that did its work wrote passes the gate, whatever the document
\* and the evidence, unless it holds a number on which the two do not ask the
\* policy the same question (HonestPasses; verify_document_with_progress).
THEOREM HonestPass == VerifierSpec => []HonestPasses
<1>1. GateIInv => HonestPasses
  BY HonestCase DEF GateIInv, HonestPasses
<1> QED BY <1>1, GateIndInv, PTL DEF VerifierSpec
----------------------------------------------------------------------------
(* One thing was spoiled *)

\* A path only one of the two has.
LEMMA TopologyCase ==
  ASSUME Given, fault[1] \in {"remove", "add"}, Len(fault) = 2,
         fault[1] = "remove" => fault[2] \in Paths(source)
  PROVE  Different # {}
<1>1. fault # <<>> /\ registry.lacks = {}
  BY DEF Given
<1>2. SourceFlat = Paths(source)
  BY <1>1, AllProjected
<1>3. ASSUME NEW p \in Union, ~(p \in SourceFlat /\ p \in DOMAIN output)
      PROVE  Different # {}
  <2>1. <<"source-output-topology-mismatch", p>> \in Different
    BY <1>3 DEF Different
  <2> QED BY <2>1
<1>4. CASE fault[1] = "remove"
  <2>1. DOMAIN output = Paths(source) \ {fault[2]}
    BY <1>1, <1>4 DEF Given, Spoilt
  <2> QED BY <1>2, <1>3, <1>4, <2>1 DEF Union
<1>5. CASE fault[1] = "add"
  <2>1. DOMAIN output = Paths(source) \cup {Stray}
    BY <1>1, <1>5 DEF Given, Spoilt
  <2> QED BY <1>2, <1>3, <2>1, SlotFacts DEF Union
<1> QED BY <1>4, <1>5

\* Another text in the output: of a number the comparison finds it, of a string the
\* derivation of the leaf does, or its record.
LEMMA TextCase ==
  ASSUME Given, registry.lacks = {}, NEW p \in Paths(source), NEW t,
         output = [Transformed(source) EXCEPT ![p].text = t],
         t # Visited(At(p)),
         At(p).ty # "str" /\ t = At(p).text => ~Disputed(At(p)),
         t \in {Raw("other"), Fake("other"), At(p).text},
         At(p).ty = "str" => Copies(p) = {<<p, 1>>}
  PROVE  Different # {} \/ Wrong # {}
<1>1. /\ p \in DOMAIN output
      /\ output[p].ty = At(p).ty /\ output[p].text = t
  <2>1. Transformed(source) = [q \in Paths(source) |->
            [ty |-> source[SlotAt(source, q)].ty, text |-> Visited(source[SlotAt(source, q)])]]
    BY DEF Transformed
  <2> QED BY <2>1 DEF At
<1>2. p \in SourceFlat
  BY AllProjected
<1>3. CASE At(p).ty = "str"
  <2>1. p \in ProjectedLeaves
    BY <1>2, <1>3 DEF ProjectedLeaves, Leaves, At
  <2>2. t # Text(At(p), Valid)
    BY <1>3, EvidenceFacts DEF Visited
  <2>3. LeafFindings(p) # {}
    BY <1>1, <1>3, <2>2, OneCopy
  <2> QED BY <2>1, <2>3, WrongAt
<1>4. CASE At(p).ty # "str"
  <2>1. \E k \in DOMAIN source : At(p) = source[k]
    BY SlotFacts
  <2>2. At(p).text # Raw("other") /\ At(p).text # Fake("other")
    BY <2>1, ScalarFacts DEF Raw, Fake
  <2>3. ScalarFindings(p) # {}
    <3>1. CASE Redacted(p)
      <4>1. t # Sentinel(At(p).text)
        <5>1. CASE t = At(p).text
          BY <5>1, SentinelFacts
        <5>2. CASE t # At(p).text
          BY <5>2, SentinelFacts
        <5> QED BY <5>1, <5>2
      <4> QED BY <1>1, <3>1, <4>1, ScalarIs
    <3>2. CASE ~Redacted(p)
      <4>1. t # At(p).text
        BY <1>4, <3>2, SameRedaction
      <4> QED BY <1>1, <1>4, <3>2, <4>1, ScalarIs
    <3> QED BY <3>1, <3>2
  <2> QED BY <1>1, <1>2, <2>3, DifferentAt
<1> QED BY <1>3, <1>4

LEMMA RetypeCase ==
  ASSUME Given, registry.lacks = {}, NEW p \in Paths(source),
         output = [Transformed(source) EXCEPT ![p].ty = Other(@)]
  PROVE  Different # {}
<1>1. Transformed(source) = [q \in Paths(source) |->
          [ty |-> source[SlotAt(source, q)].ty, text |-> Visited(source[SlotAt(source, q)])]]
  BY DEF Transformed
<1>2. p \in DOMAIN output /\ output[p].ty = Other(At(p).ty)
  BY <1>1 DEF At
<1>3. Other(At(p).ty) # At(p).ty
  BY DEF Other
<1>4. ScalarFindings(p) # {}
  BY <1>2, <1>3, ScalarIs
<1> QED BY <1>2, <1>4, AllProjected, DifferentAt

\* A value the registry has no pseudonym for: its slot drops out of the projection,
\* or its leaf cannot be derived.
LEMMA LacksCase ==
  ASSUME Given, fault[1] = "lacks", fault # <<>>,
         \/ \E k \in DOMAIN source : source[k].ty = "str" /\ fault[2] \in Needs(source[k], Targets)
         \/ \E k \in DOMAIN source : ~source[k].known /\ fault[2] = Raw(k)
  PROVE  Unprojected # {} \/ Wrong # {}
<1>1. registry.lacks = {fault[2]} /\ records = Recorded(source)
  BY DEF Given, Forged
<1>2. \A k \in DOMAIN source : k \notin Projected => Unprojected # {}
  BY DEF Unprojected
<1>3. CASE \E k \in DOMAIN source : ~source[k].known /\ fault[2] = Raw(k)
  BY <1>1, <1>2, <1>3 DEF Projected
<1>4. ASSUME NEW k \in Projected, source[k].ty = "str", fault[2] \in Needs(source[k], Targets)
      PROVE  Wrong # {}
  <2> DEFINE p == PathOf(k, source[k])
  <2>1. k \in DOMAIN source /\ p \in SourceFlat
    BY DEF Projected, SourceFlat
  <2>2. p \in Paths(source) /\ At(p) = source[k] /\ SlotAt(source, p) = k
    BY <2>1, SlotFacts
  <2> HIDE DEF p
  <2>3. p \in Leaves(source) /\ p \in ProjectedLeaves
    BY <1>4, <2>1, <2>2 DEF ProjectedLeaves, Leaves
  <2>4. Copies(p) = {<<p, 1>>}
    BY <1>1, <2>3, RecordedOnce
  <2>5. fault[2] \in Needs(At(p), Valid) \cap registry.lacks
    BY <1>1, <1>4, <2>2, EvidenceFacts
  <2>6. LeafFindings(p) # {}
    BY <2>4, <2>5, OneCopy
  <2> QED BY <2>3, <2>6, WrongAt
<1> QED BY <1>2, <1>3, <1>4

\* A record that is missing, is there twice, is another's, or no leaf's.
LEMMA RecordCase ==
  ASSUME Given, fault # <<>>,
         \/ fault = <<"extra">>
         \/ /\ fault[1] \in {"drop", "copy", "context", "decision", "recordSource"}
            /\ fault[2] \in Leaves(source)
  PROVE  Wrong # {} \/ Superfluous # {}
<1> DEFINE p == fault[2]
           R == Recorded(source)
<1>1. registry.lacks = {} /\ ProjectedLeaves = Leaves(source)
  BY AllProjected DEF Given
<1>2. /\ DOMAIN R = Leaves(source) \X {1}
      /\ \A q \in Leaves(source) :
            R[<<q, 1>>] = [context |-> "ok", decision |-> Decision(At(q), Targets),
                           source |-> At(q).text, output |-> Text(At(q), Targets)]
  BY DEF Recorded, At
<1>3. CASE fault = <<"extra">>
  <2>1. records = [e \in DOMAIN R \cup {<<Stray, 1>>} |->
            IF e = <<Stray, 1>>
            THEN [context |-> "ok", decision |-> [op |-> "keep", evidence |-> FALSE],
                  source |-> Raw("other"), output |-> Raw("other")]
            ELSE R[e]]
    BY <1>3 DEF Given, Forged
  <2>2. <<Stray, 1>> \in DOMAIN records
    BY <2>1
  <2>3. Stray \notin ProjectedLeaves
    BY <1>1, SlotFacts DEF Leaves
  <2>4. <<Stray, 1>>[1] = Stray
    OBVIOUS
  <2> QED BY <2>2, <2>3, <2>4 DEF Superfluous
<1>4. ASSUME p \in Leaves(source), LeafFindings(p) # {} PROVE Wrong # {}
  BY <1>1, <1>4, WrongAt
<1>5. CASE fault[1] = "drop" /\ p \in Leaves(source)
  <2>1. records = [e \in DOMAIN R \ {<<p, 1>>} |-> R[e]]
    BY <1>5 DEF Given, Forged
  <2>2. DOMAIN records = (Leaves(source) \X {1}) \ {<<p, 1>>}
    BY <1>2, <2>1
  <2>3. Copies(p) = {}
    BY <2>2 DEF Copies
  <2>4. LeafFindings(p) = {<<"record-missing", p>>}
    <3>1. Cardinality(Copies(p)) = 0
      BY <2>3, FS_EmptySet
    <3> QED BY <2>3, <3>1 DEF LeafFindings
  <2> QED BY <1>4, <1>5, <2>4
<1>6. CASE fault[1] = "copy" /\ p \in Leaves(source)
  <2>1. records = [e \in DOMAIN R \cup {<<p, 2>>} |-> R[<<e[1], 1>>]]
    BY <1>6 DEF Given, Forged
  <2>2. DOMAIN records = (Leaves(source) \X {1}) \cup {<<p, 2>>}
    BY <1>2, <2>1
  <2>3. Copies(p) = {<<p, 1>>, <<p, 2>>}
    BY <1>6, <2>2 DEF Copies
  <2>4. Cardinality(Copies(p)) = 2
    <3> DEFINE a == <<p, 1>>
               b == <<p, 2>>
    <3>1. b \notin {a} /\ Copies(p) = {a} \cup {b}
      BY <2>3
    <3> HIDE DEF a, b
    <3>2. Cardinality({a}) = 1 /\ IsFiniteSet({a})
      BY FS_Singleton
    <3>3. Cardinality({a} \cup {b}) = 1 + 1
      BY <3>1, <3>2, FS_AddElement
    <3> QED BY <3>1, <3>3
  <2>5. Copies(p) # {} /\ Cardinality(Copies(p)) > 1
    BY <2>3, <2>4
  <2>6. Cardinality(Copies(p)) # 1
    BY <2>4
  <2>7. LeafFindings(p) = {<<"record-duplicate", p>>}
    BY <2>5, <2>6 DEF LeafFindings
  <2> QED BY <1>4, <1>6, <2>7
<1>7. ASSUME p \in Leaves(source), DOMAIN records = DOMAIN R,
             \/ records[<<p, 1>>].context # "ok"
             \/ records[<<p, 1>>].decision # Decision(At(p), Targets)
             \/ records[<<p, 1>>].source # At(p).text
      PROVE  Wrong # {}
  <2>1. Copies(p) = {<<p, 1>>}
    BY <1>2, <1>7 DEF Copies
  <2>2. LeafFindings(p) # {}
    BY <1>7, <2>1, OneCopy, EvidenceFacts
  <2> QED BY <1>4, <1>7, <2>2
<1>8. p \in Leaves(source) => <<p, 1>> \in DOMAIN R
  BY <1>2
<1>9. CASE fault[1] = "context" /\ p \in Leaves(source)
  <2>1. records = [R EXCEPT ![<<p, 1>>].context = "other"]
    BY <1>9 DEF Given, Forged
  <2>2. records[<<p, 1>>].context = "other" /\ DOMAIN records = DOMAIN R
    BY <1>2, <1>8, <1>9, <2>1
  <2> QED BY <1>7, <1>9, <2>2
<1>10. CASE fault[1] = "decision" /\ p \in Leaves(source)
  <2> DEFINE r == R[<<p, 1>>]
             dec == Decision(At(p), Targets)
  <2>1. records = [R EXCEPT ![<<p, 1>>].decision.evidence = ~@]
    BY <1>10 DEF Given, Forged
  <2>2. r = [context |-> "ok", decision |-> dec,
             source |-> At(p).text, output |-> Text(At(p), Targets)]
    BY <1>2, <1>10
  <2>3. dec = [op |-> dec.op, evidence |-> dec.evidence] /\ dec.evidence \in BOOLEAN
    BY DEF Decision
  <2>4. records[<<p, 1>>] = [r EXCEPT !.decision.evidence = ~@] /\ DOMAIN records = DOMAIN R
    BY <1>8, <1>10, <2>1
  <2> HIDE DEF r, dec
  <2>5. records[<<p, 1>>].decision = [dec EXCEPT !.evidence = ~@]
    BY <2>2, <2>4
  <2>6. records[<<p, 1>>].decision.evidence = ~dec.evidence
    BY <2>3, <2>5
  <2>7. records[<<p, 1>>].decision # dec
    BY <2>3, <2>6
  <2> QED BY <1>7, <1>10, <2>4, <2>7 DEF dec
<1>11. CASE fault[1] = "recordSource" /\ p \in Leaves(source)
  <2>1. records = [R EXCEPT ![<<p, 1>>].source = Raw("other")]
    BY <1>11 DEF Given, Forged
  <2>2. records[<<p, 1>>].source = Raw("other") /\ DOMAIN records = DOMAIN R
    BY <1>2, <1>8, <1>11, <2>1
  <2>3. \E k \in DOMAIN source : At(p) = source[k]
    BY <1>11, SlotFacts DEF Leaves
  <2>4. At(p).text # Raw("other")
    BY <2>3, ScalarFacts
  <2> QED BY <1>7, <1>11, <2>2, <2>4
<1> QED BY <1>3, <1>5, <1>6, <1>9, <1>10, <1>11

LEMMA FaultCase ==
  ASSUME Given, fault # <<>>
  PROVE  ~Clean \/ (fault[1] = "leave" /\ Disputed(At(fault[2])))
<1>1. \/ fault \in {<<"untrusted">>, <<"thawed">>, <<"malformed">>, <<"evidence">>}
      \/ fault \in {<<"add", "str">>, <<"add", "int">>} \/ fault = <<"extra">>
      \/ \E p \in Paths(source) : fault = <<"remove", p>>
      \/ \E p \in Paths(source) : fault = <<"retype", p>>
      \/ \E p \in Paths(source), t \in {Raw("other"), Fake("other")} : fault = <<"change", p, t>>
      \/ \E p \in {q \in Paths(source) :
              Transformed(source)[q].text # source[SlotAt(source, q)].text} : fault = <<"leave", p>>
      \/ \E f \in {"drop", "copy", "context", "decision", "recordSource"}, p \in Leaves(source) :
            fault = <<f, p>>
      \/ \E p \in Leaves(source), t \in {Raw("other"), Fake("other")} : fault = <<"lie", p, t>>
      \/ \E k \in DOMAIN source : \E x \in Needs(source[k], Targets) :
            source[k].ty = "str" /\ fault = <<"lacks", x>>
      \/ \E k \in DOMAIN source : ~source[k].known /\ fault = <<"lacks", Raw(k)>>
  <2>1. fault \in Faults(source)
    BY DEF Given
  <2> QED BY <2>1 DEF Faults
<1>2. CASE fault \in {<<"untrusted">>, <<"thawed">>, <<"malformed">>, <<"evidence">>}
  BY <1>2, EvidenceFacts DEF Given, Clean, Trusted
<1>3. CASE fault \in {<<"add", "str">>, <<"add", "int">>}
           \/ \E p \in Paths(source) : fault = <<"remove", p>>
  BY <1>3, TopologyCase DEF Clean
<1>4. CASE \/ fault = <<"extra">>
           \/ \E f \in {"drop", "copy", "context", "decision", "recordSource"},
                 p \in Leaves(source) : fault = <<f, p>>
  BY <1>4, RecordCase DEF Clean
<1>5. CASE \/ \E k \in DOMAIN source : \E x \in Needs(source[k], Targets) :
                 source[k].ty = "str" /\ fault = <<"lacks", x>>
           \/ \E k \in DOMAIN source : ~source[k].known /\ fault = <<"lacks", Raw(k)>>
  BY <1>5, LacksCase DEF Clean
<1>6. ASSUME NEW p \in Paths(source), fault = <<"retype", p>> PROVE ~Clean
  <2>1. output = [Transformed(source) EXCEPT ![p].ty = Other(@)] /\ registry.lacks = {}
    BY <1>6 DEF Given, Spoilt
  <2> QED BY <2>1, RetypeCase DEF Clean
<1>7. ASSUME NEW p \in Paths(source), NEW t, registry.lacks = {},
             records = Recorded(source),
             output = [Transformed(source) EXCEPT ![p].text = t], t # Visited(At(p)),
             At(p).ty # "str" /\ t = At(p).text => ~Disputed(At(p)),
             t \in {Raw("other"), Fake("other"), At(p).text}
      PROVE  ~Clean
  <2>1. At(p).ty = "str" => p \in Leaves(source)
    BY DEF Leaves, At
  <2> QED BY <1>7, <2>1, RecordedOnce, TextCase DEF Clean
<1>8. ASSUME NEW p \in Paths(source), NEW t \in {Raw("other"), Fake("other")}
      PROVE  t # Visited(At(p)) /\ t # At(p).text
  <2>1. PICK k \in DOMAIN source : At(p) = source[k]
    BY SlotFacts
  <2> DEFINE x == At(p)
  <2>2. x.text = Raw(x.text[2]) /\ x.text # Raw("other") /\ x.text[2] # "other"
    BY <2>1, ScalarFacts
  <2> HIDE DEF x
  <2>3. t # x.text /\ t # Fake(x.text[2]) /\ t # <<"rid", x.text[2]>> /\ t # Sentinel(x.text)
    BY <2>2, SentinelFacts DEF Raw, Fake
  <2>4. Visited(x) \in {x.text, Fake(x.text[2]), <<"rid", x.text[2]>>, Sentinel(x.text)}
    BY DEF Visited, Text
  <2> QED BY <2>3, <2>4 DEF x
<1>9. ASSUME NEW p \in Paths(source), NEW t \in {Raw("other"), Fake("other")},
             fault = <<"change", p, t>>
      PROVE  ~Clean
  <2>1. /\ output = [Transformed(source) EXCEPT ![p].text = t] /\ registry.lacks = {}
        /\ records = Recorded(source)
    BY <1>9 DEF Given, Spoilt, Forged
  <2> QED BY <1>7, <1>8, <2>1
<1>10. ASSUME NEW p \in Paths(source), fault = <<"leave", p>>,
              Transformed(source)[p].text # source[SlotAt(source, p)].text
       PROVE  ~Clean \/ (fault[1] = "leave" /\ Disputed(At(fault[2])))
  <2>1. /\ output = [Transformed(source) EXCEPT ![p].text = At(p).text] /\ registry.lacks = {}
        /\ records = Recorded(source) /\ fault[1] = "leave" /\ fault[2] = p
    BY <1>10 DEF Given, Spoilt, Forged, At
  <2>2. Transformed(source)[p] = [ty |-> At(p).ty, text |-> Visited(At(p))]
    BY DEF Transformed, At
  <2>3. At(p).text # Visited(At(p))
    BY <1>10, <2>2 DEF At
  <2> QED BY <1>7, <2>1, <2>3
<1>11. ASSUME NEW p \in Leaves(source), NEW t \in {Raw("other"), Fake("other")},
              fault = <<"lie", p, t>>
       PROVE  ~Clean
  <2>1. /\ output = [Transformed(source) EXCEPT ![p].text = t] /\ registry.lacks = {}
        /\ records = [Recorded(source) EXCEPT ![<<p, 1>>].output = t]
    BY <1>11 DEF Given, Spoilt, Forged
  <2>2. DOMAIN records = Leaves(source) \X {1}
    BY <2>1 DEF Recorded
  <2>3. Copies(p) = {<<p, 1>>}
    BY <2>2 DEF Copies
  <2>4. p \in Paths(source) /\ At(p).ty = "str"
    BY DEF Leaves, At
  <2> QED BY <1>8, <2>1, <2>3, <2>4, TextCase DEF Clean
<1> QED BY <1>1, <1>2, <1>3, <1>4, <1>5, <1>6, <1>9, <1>10, <1>11

\* Whatever single thing was spoiled in the output, the records, the registry or
\* the evidence of any document, the gate has a finding, unless it is a disputed
\* number left as it was (FaultFound; verify_document_with_progress).
THEOREM FindsFault == VerifierSpec => []FaultFound
<1>1. GateIInv => FaultFound
  BY FaultCase DEF GateIInv, FaultFound
<1> QED BY <1>1, GateIndInv, PTL DEF VerifierSpec
=============================================================================
