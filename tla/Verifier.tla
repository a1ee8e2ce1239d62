------------------------------ MODULE Verifier ------------------------------
(***************************************************************************)
(* The leak gate, verify_document_with_progress (crates/shanon-core/src/   *)
(* verify.rs), after an engine that did its work and a fault that spoiled  *)
(* one thing of what the gate is given.                                    *)
(*                                                                         *)
(* A document is an object, a slot of it a key with a scalar. Its strings  *)
(* are told apart by the operation the policy resolves (LeafGate.tla has   *)
(* the operations); a text is what it is made of and whose it is.          *)
(***************************************************************************)
EXTENDS Naturals, FiniteSets, Sequences

CONSTANTS Documents,         \* documents, functions from keys to scalars
          Targets            \* values the finished discovery kept as evidence

\* A scalar is [ty, text, known, declared, op]. known: is_known_key, by the exact
\* spelling; declared: declares, whatever the case. op: what is done to a string,
\* "level" for the number of a functional level, "none" otherwise.
Types == {"str", "int", "float", "bool", "null"}
Raw(v) == <<"raw", v>>
Fake(v) == <<"fake", v>>

ASSUME VerifierAssumption ==
    /\ \A d \in Documents : \A k \in DOMAIN d :
          /\ DOMAIN d[k] = {"ty", "text", "known", "declared", "op"}
          /\ d[k].ty \in Types /\ d[k].known \in BOOLEAN /\ d[k].declared \in BOOLEAN
          /\ d[k].text = Raw(d[k].text[2])
          /\ (d[k].ty = "str") <=> (d[k].op \in {"keep", "map", "refer", "template", "sid"})
          /\ d[k].op = "level" => d[k].ty \in {"int", "float"}
\* The names the faults below bring in are no one's.
ASSUME FaultAssumption ==
    /\ \A d \in Documents : \A k \in DOMAIN d : k # "stray" /\ d[k].text # Raw("other")
    /\ Raw("other") \notin Targets

VARIABLES source,     \* the document
          redacting,  \* does the policy of the run redact undeclared numbers
          fault,      \* history: what was spoiled, <<>> for nothing
          meta,       \* is the source well formed
          registry,   \* [trusted, frozen, lacks]: the registry given to the gate
          evidence,   \* the targets of the verification context
          output,     \* the flat output: path -> [ty, text]
          records,    \* the records: <<path, copy>> -> record
          phase,      \* the next phase of the gate
          findings    \* {<<policy code, path>>}
verifierVars == <<source, redacting, fault, meta, registry, evidence, output, records,
                  phase, findings>>
----------------------------------------------------------------------------
(* What the engine and the gate each derive *)

\* The path of a slot in the output: the key, or its pseudonym.
PathOf(k, x) == IF x.known THEN Raw(k) ELSE Fake(k)

\* numeric_sentinel
Sentinel(text) == IF text = Raw("-1") THEN Raw("-2") ELSE Raw("-1")

\* The decision on a string, given the evidence there is.
Decision(x, targets) ==
    [op |-> x.op, evidence |-> x.op \in {"template", "sid"} /\ x.text \in targets]

\* The values the registry has to map for it.
Needs(x, targets) ==
    CASE x.op = "keep" -> {}
      [] x.op = "template" /\ x.text \in targets -> {}
      [] OTHER -> {x.text}

\* apply_string_operation and expected_output: a SID with evidence keeps its RID.
Text(x, targets) ==
    CASE x.op = "keep" -> x.text
      [] x.op = "template" /\ x.text \in targets -> x.text
      [] x.op = "sid" /\ x.text \in targets -> <<"rid", x.text[2]>>
      [] OTHER -> Fake(x.text[2])

\* What visit writes of a scalar.
Visited(x) ==
    CASE x.ty = "str" -> Text(x, Targets)
      [] x.ty \in {"int", "float"} ->
            IF x.op = "level" \/ (~x.declared /\ redacting) THEN Sentinel(x.text)
            ELSE x.text
      [] OTHER -> x.text

Paths(d) == {PathOf(k, d[k]) : k \in DOMAIN d}
SlotAt(d, p) == CHOOSE k \in DOMAIN d : PathOf(k, d[k]) = p
Leaves(d) == {p \in Paths(d) : d[SlotAt(d, p)].ty = "str"}

Transformed(d) ==
    [p \in Paths(d) |-> LET x == d[SlotAt(d, p)] IN [ty |-> x.ty, text |-> Visited(x)]]
Recorded(d) ==
    [r \in Leaves(d) \X {1} |->
        LET x == d[SlotAt(d, r[1])]
        IN  [context |-> "ok", decision |-> Decision(x, Targets),
             source |-> x.text, output |-> Text(x, Targets)]]
----------------------------------------------------------------------------
(* The faults. A changed text is the source's own or that of another. *)

Sound == [trusted |-> TRUE, frozen |-> TRUE, lacks |-> {}]

Faults(d) ==
    {<<>>, <<"untrusted">>, <<"thawed">>, <<"malformed">>, <<"evidence">>, <<"add", "str">>,
     <<"add", "int">>, <<"extra">>}
    \cup {<<"remove", p>> : p \in Paths(d)} \cup {<<"retype", p>> : p \in Paths(d)}
    \cup {<<"change", p, t>> : p \in Paths(d), t \in {Raw("other"), Fake("other")}}
    \cup {<<"leave", p>> : p \in {q \in Paths(d) : Transformed(d)[q].text # d[SlotAt(d, q)].text}}
    \cup {<<f, p>> : f \in {"drop", "copy", "context", "decision", "recordSource"}, p \in Leaves(d)}
    \cup {<<"lie", p, t>> : p \in Leaves(d), t \in {Raw("other"), Fake("other")}}
    \cup {<<"lacks", x>> : x \in UNION {Needs(d[k], Targets) :
                                k \in {l \in DOMAIN d : d[l].ty = "str"}}}
    \cup {<<"lacks", Raw(k)>> : k \in {l \in DOMAIN d : ~d[l].known}}

Other(ty) == IF ty = "str" THEN "null" ELSE "str"
Stray == Fake("stray")

Spoilt(d, f) ==
    LET o == Transformed(d)
    IN  CASE f = <<>> -> o
          [] f # <<>> /\ f[1] = "remove" -> [p \in Paths(d) \ {f[2]} |-> o[p]]
          [] f # <<>> /\ f[1] = "retype" -> [o EXCEPT ![f[2]].ty = Other(@)]
          [] f # <<>> /\ f[1] \in {"change", "lie"} -> [o EXCEPT ![f[2]].text = f[3]]
          [] f # <<>> /\ f[1] = "leave" -> [o EXCEPT ![f[2]].text = d[SlotAt(d, f[2])].text]
          [] f # <<>> /\ f[1] = "add" ->
                [p \in Paths(d) \cup {Stray} |->
                    IF p = Stray THEN [ty |-> f[2], text |-> Raw("other")] ELSE o[p]]
          [] OTHER -> o

Forged(d, f) ==
    LET r == Recorded(d)
        At(p) == <<p, 1>>
    IN  CASE f = <<>> -> r
          [] f # <<>> /\ f[1] = "drop" -> [e \in DOMAIN r \ {At(f[2])} |-> r[e]]
          [] f # <<>> /\ f[1] = "copy" ->
                [e \in DOMAIN r \cup {<<f[2], 2>>} |-> r[At(e[1])]]
          [] f # <<>> /\ f[1] = "extra" ->
                [e \in DOMAIN r \cup {At(Stray)} |->
                    IF e = At(Stray)
                    THEN [context |-> "ok", decision |-> [op |-> "keep", evidence |-> FALSE],
                          source |-> Raw("other"), output |-> Raw("other")]
                    ELSE r[e]]
          [] f # <<>> /\ f[1] = "context" -> [r EXCEPT ![At(f[2])].context = "other"]
          [] f # <<>> /\ f[1] = "decision" -> [r EXCEPT ![At(f[2])].decision.evidence = ~@]
          [] f # <<>> /\ f[1] = "recordSource" -> [r EXCEPT ![At(f[2])].source = Raw("other")]
          [] f # <<>> /\ f[1] = "lie" -> [r EXCEPT ![At(f[2])].output = f[3]]
          [] OTHER -> r

VerifierInit ==
    /\ source \in Documents /\ redacting \in BOOLEAN
    /\ fault \in Faults(source)
    /\ meta = (fault # <<"malformed">>)
    /\ registry = [trusted |-> fault # <<"untrusted">>, frozen |-> fault # <<"thawed">>,
                   lacks |-> IF fault # <<>> /\ fault[1] = "lacks" THEN {fault[2]} ELSE {}]
    /\ evidence = IF fault = <<"evidence">> THEN Targets \cup {Raw("other")} ELSE Targets
    /\ output = Spoilt(source, fault) /\ records = Forged(source, fault)
    /\ phase = "trust" /\ findings = {}
----------------------------------------------------------------------------
(* The gate *)

Fixed == <<source, redacting, fault, meta, registry, evidence, output, records>>

\* Findings of a phase, after which the gate goes on or returns.
Report(at, found, next) ==
    /\ phase = at
    /\ findings' = findings \cup found
    /\ phase' = next
    /\ UNCHANGED Fixed

\* validate_trust_root and is_frozen: nothing is compared under a registry that
\* is not to be relied on.
CheckTrust ==
    LET found == IF ~registry.trusted THEN {<<"unsafe-registry", "">>}
                 ELSE IF ~registry.frozen THEN {<<"registry-not-frozen", "">>} ELSE {}
    IN  Report("trust", found, IF found = {} THEN "source" ELSE "done")

\* source_validation_findings
CheckSource ==
    Report("source", IF meta THEN {} ELSE {<<"source-invalid", "">>},
           IF meta THEN "targets" ELSE "done")

\* validated_template_targets, validated_domain_rid_targets: the catalog is asked
\* again. Mapped by no rule of the catalog, "other" is not evidence.
Valid == evidence \ {Raw("other")}
CheckTargets ==
    Report("targets", {<<"invalid-target-evidence", "">> : t \in evidence \ Valid}, "project")

\* projected_source: a slot whose key the registry does not map drops out.
Projected == {k \in DOMAIN source : source[k].known \/ Raw(k) \notin registry.lacks}
ProjectSource ==
    Report("project", {<<"registry-mapping-missing", "">> : k \in DOMAIN source \ Projected},
           "compare")

SourceFlat == {PathOf(k, source[k]) : k \in Projected}
At(p) == source[SlotAt(source, p)]

\* The policy is asked about the path in the output, where a key it does not
\* know is already a pseudonym.
Declared(p) == At(p).known /\ At(p).declared
Level(p) == At(p).known /\ At(p).op = "level"

\* Mutant: a functional level is a number like another.
ScalarWithoutLevels(p) ==
    LET s == At(p)
        o == output[p]
        redacted == s.ty \in {"int", "float"} /\ redacting /\ ~Declared(p)
    IN  CASE s.ty # o.ty -> {<<"value-type-mismatch", p>>}
          [] s.ty = o.ty /\ redacted ->
                IF o.text = Sentinel(s.text) THEN {}
                ELSE {<<"undeclared-numeric-not-redacted", p>>}
          [] s.ty = o.ty /\ ~redacted /\ s.ty # "str" ->
                IF o.text = s.text THEN {} ELSE {<<"schema-value-mismatch", p>>}
          [] OTHER -> {}

\* One path of both.
ScalarFindings(p) ==
    LET s == At(p)
        o == output[p]
        numeric == s.ty \in {"int", "float"}
        redacted == numeric /\ (Level(p) \/ (redacting /\ ~Declared(p)))
    IN  CASE s.ty # o.ty -> {<<"value-type-mismatch", p>>}
          [] s.ty = o.ty /\ redacted ->
                IF o.text = Sentinel(s.text) THEN {}
                ELSE {<<IF Level(p) THEN "schema-value-mismatch"
                        ELSE "undeclared-numeric-not-redacted", p>>}
          [] s.ty = o.ty /\ ~redacted /\ s.ty # "str" ->
                IF o.text = s.text THEN {} ELSE {<<"schema-value-mismatch", p>>}
          [] OTHER -> {}

\* Mutant: only the paths of the source are looked at.
UnionOfSource == SourceFlat

\* The paths of the two; the object itself differs where they do.
Union == SourceFlat \cup DOMAIN output

Compare ==
    Report("compare",
           UNION {IF p \in SourceFlat /\ p \in DOMAIN output THEN ScalarFindings(p)
                  ELSE {<<"source-output-topology-mismatch", p>>} : p \in Union},
           "strings")

ProjectedLeaves == Leaves(source) \cap SourceFlat
Copies(p) == {r \in DOMAIN records : r[1] = p}

\* A string of the output that no leaf and no record accounts for.
Strings ==
    Report("strings",
           {<<"record-missing", p>> : p \in {q \in DOMAIN output \ ProjectedLeaves :
                output[q].ty = "str" /\ Copies(q) = {}}},
           "leaves")

\* One leaf: its record, and what is to be written of it, derived again.
LeafFindings(p) ==
    LET x == At(p)
        r == records[CHOOSE e \in Copies(p) : TRUE]
        written == IF p \in DOMAIN output /\ output[p].ty = "str" THEN output[p].text ELSE <<>>
    IN  CASE Copies(p) = {} -> {<<"record-missing", p>>}
          [] Cardinality(Copies(p)) > 1 -> {<<"record-duplicate", p>>}
          [] Cardinality(Copies(p)) = 1 ->
                (IF r.context = "ok" /\ r.decision = Decision(x, Valid) THEN {}
                 ELSE {<<"policy-record-mismatch", p>>})
                \cup (IF r.source = x.text /\ r.output = written THEN {}
                      ELSE {<<"policy-record-mismatch", p>>})
                \cup (IF Needs(x, Valid) \cap registry.lacks # {}
                      THEN {<<"registry-mapping-missing", p>>}
                      ELSE IF written = Text(x, Valid) THEN {}
                      ELSE {<<IF x.op = "refer" THEN "reference-mapping-mismatch"
                              ELSE IF x.op = "map" /\ written = x.text
                                   THEN "identity-not-transformed"
                              ELSE "mapped-value-mismatch", p>>})

CheckLeaves == Report("leaves", UNION {LeafFindings(p) : p \in ProjectedLeaves}, "extra")

CheckExtra ==
    Report("extra", {<<"record-extra", "">> : r \in {e \in DOMAIN records :
                                                  e[1] \notin ProjectedLeaves}}, "done")

VerifierNext ==
    \/ CheckTrust \/ CheckSource \/ CheckTargets \/ ProjectSource
    \/ Compare \/ Strings \/ CheckLeaves \/ CheckExtra
VerifierSpec == VerifierInit /\ [][VerifierNext]_verifierVars
----------------------------------------------------------------------------
\* A number under a key that is not spelled as the schema spells it. The engine's
\* questions fold the case, the gate asks about the pseudonym of the key: a number
\* that is declared the gate wants redacted, a functional level it wants as it was.
Disputed(x) ==
    /\ x.ty \in {"int", "float"} /\ ~x.known
    /\ IF x.op = "level" THEN ~redacting ELSE redacting /\ x.declared

\* The gate lets nothing through: whatever single thing was spoiled, in the
\* output, in the records, in both so that they agree, in the registry or in the
\* evidence, the document is not published, unless it is a disputed number that
\* was left as the gate wants it.
FaultFound ==
    phase = "done" /\ fault # <<>> =>
        \/ findings # {}
        \/ fault[1] = "leave" /\ Disputed(At(fault[2]))

\* What an engine that did its work wrote passes, gate and engine asking the
\* policy the same questions, unless it holds a number as above. That the shape
\* of what the engine wrote is one the gate takes (output_shape_valid) is left to
\* LeafGate.tla, whose Stops says which leaves it turns down.
HonestPasses ==
    phase = "done" /\ fault = <<>> =>
        (findings = {} <=> ~\E k \in DOMAIN source : Disputed(source[k]))
=============================================================================
