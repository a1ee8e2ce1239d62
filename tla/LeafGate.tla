------------------------------ MODULE LeafGate ------------------------------
(***************************************************************************)
(* One leaf on its way through a run: the policy decides, the engine       *)
(* applies the operation (engine.rs, visit and apply_string_operation),    *)
(* the leak gate looks at the shape of what came out (verify.rs,           *)
(* output_shape_valid). A leaf that fails stops the run.                   *)
(*                                                                         *)
(* Nothing is discovered here: the catalog's evidence is part of the rule. *)
(* How the evidence of a SID is settled is SidBinding.tla.                 *)
(***************************************************************************)
EXTENDS Policy

CONSTANTS Rules,
          Strings             \* the strings at the paths of a rule, and of none

ASSUME GateAssumption ==
    /\ Rules \subseteq Rule
    /\ Strings \in [Rules \cup {NoRule} -> SUBSET Seq(Symbols)]

\* Of the organization: words, and identifiers that are not well-known.
Sensitive == {"w", "v", "dsid", "rsid", "guid", "oid"}
Separators == {"@", ".", "/", ":", ",", "+", "=", "\\", "$", "-"}

\* What default_rules_with declares: the engine knows the namespace of every
\* identity, reference and identifier, an account's path maps accounts, a secret's
\* path maps a name at most, the functional level is opaque.
ASSUME TablesAssumption ==
    \A r \in Rules :
        /\ r.operation = "MapIdentity" =>
              r.namespace \in {"accounts", "cert_templates", "domains", "hosts"}
        /\ r.operation = "MapIdentity" /\ r.path \in {"userprincipalname", "email"} =>
              r.namespace = "accounts"
        /\ r.operation = "MapReference" =>
              r.namespace \in {"sids", "identifiers", "cert_templates", "domains"}
        /\ r.operation = "MapCustomIdentifier" => r.namespace \in {"none", "guids", "oids"}
        /\ r.path = "secret" => r.operation \in {"MapIdentity", "ReplaceOpaque"}
        /\ r.path = "functionallevel" => r.operation = "ReplaceOpaque"

\* What catalog and schema keep is a word of the product or a well-known
\* identifier, and one word to every transform.
ASSUME ConstantsAssumption ==
    \A r \in Rules : \A s \in r.permits \cup r.allowed :
        s # <<>> /\ \A i \in DOMAIN s : s[i] \notin Sensitive \cup Separators \cup Categories

\* What is read is no SPN of a host that has its pseudonym already.
ASSUME InputAssumption ==
    \A r \in Rules : r.operation = "ParseSpn" => \A s \in Strings[r] : ~Has(s, "hosts")

Zero == [float |-> FALSE, n |-> 0]
Leaves == (UNION {[kind : {"string"}, rule : {r}, s : Strings[r], x : {Zero}] : r \in DOMAIN Strings})
             \cup [kind : {"number"}, rule : DOMAIN Strings, s : {<<>>}, x : Numbers]

VARIABLES redacting,   \* config.redact_undeclared_numbers
          leaf,        \* the leaf
          stage,       \* "visit", "apply", "gate", "published" or "aborted"
          decision,    \* what the policy decided
          output,      \* what the engine wrote of a string
          number       \* and of a number
gateVars == <<redacting, leaf, stage, decision, output, number>>

GateInit ==
    /\ redacting \in BOOLEAN /\ leaf \in Leaves
    /\ stage = "visit" /\ decision = Opaque /\ output = <<>> /\ number = Zero
----------------------------------------------------------------------------
(* The engine *)

\* catalog_template_candidate stands for the targets discovery found.
Template(s, preserve) == IF preserve THEN s ELSE <<"cert_templates">>

Preserves(rule, s) == Resolve(rule, s).operation = "PreserveConstant"

MapIdentity(rule, namespace, s) ==
    CASE rule.path = "name" /\ Has(s, "@") ->
            LET p == RSplitOnce(s, "@")
            IN  (IF namespace = "cert_templates" THEN Template(p[1], Preserves(rule, p[1]))
                 ELSE NameToken(p[1], Preserves(rule, p[1])))
                \o <<"@">> \o Domain(p[2])
      [] ~(rule.path = "name" /\ Has(s, "@")) /\ namespace = "domains" -> Domain(s)
      [] ~(rule.path = "name" /\ Has(s, "@")) /\ namespace = "hosts" -> DnsHostName(s)
      [] ~(rule.path = "name" /\ Has(s, "@")) /\ namespace = "cert_templates" -> Template(s, FALSE)
      [] ~(rule.path = "name" /\ Has(s, "@")) /\ namespace = "accounts" ->
            CASE rule.path = "samaccountname" -> SamAccountName(s)
              [] rule.path \in {"userprincipalname", "email"} -> UpnName(s)
              [] OTHER -> NameToken(s, FALSE)

\* map_custom_identifier dispatches on the value.
MapCustomIdentifier(namespace, s) ==
    CASE IsSid(s) -> Sid(s, namespace = "sids_preserve_rid")
      [] IsGuid(s) -> Guid(s, FALSE)
      [] IsOid(s) -> Oid(s, FALSE)
      [] OTHER -> <<"opaque">>

\* map_reference dispatches on the namespace.
MapReference(namespace, s) ==
    CASE namespace \in {"sids", "sids_preserve_rid"} -> Sid(s, namespace = "sids_preserve_rid")
      [] namespace = "guids" -> Guid(s, FALSE)
      [] namespace = "oids" -> Oid(s, FALSE)
      [] namespace = "cert_templates" -> Template(s, FALSE)
      [] namespace = "accounts" -> NameToken(s, FALSE)
      [] namespace = "domains" -> Domain(s)
      [] namespace = "hosts" -> DnsHostName(s)
      [] namespace = "identifiers" -> MapCustomIdentifier(namespace, s)

\* apply_string_operation
Applied(rule, d, s) ==
    CASE rule.path = "secret" /\ s # <<>> -> <<"REDACTED">>
      [] ~(rule.path = "secret" /\ s # <<>>) ->
            CASE d.operation \in {"PreserveConstant", "PreserveSchemaValue"} -> s
              [] d.operation = "MapIdentity" -> MapIdentity(rule, d.namespace, s)
              [] d.operation = "MapReference" -> MapReference(d.namespace, s)
              [] d.operation = "ParseDn" -> Dn(s, {c \in rule.permits : Preserves(rule, c)})
              [] d.operation = "ParseSpn" -> IF Spn(s) # s THEN Spn(s) ELSE <<"opaque">>
              [] d.operation = "ParseComposite" ->
                    AdLocalGroupName(s, Has(s, "@") /\ Preserves(rule, RSplitOnce(s, "@")[1]))
              [] d.operation = "MapCustomIdentifier" -> MapCustomIdentifier(d.namespace, s)
              [] d.operation = "ReplaceOpaque" -> IF s = <<>> THEN s ELSE <<"opaque">>

\* What a leaf becomes, from end to end.
Written(rule, s) == Applied(rule, Resolve(rule, s), s)
----------------------------------------------------------------------------
(* The leak gate *)

\* output_shape_valid
OutputShapeValid(rule, d, s, out) ==
    CASE rule.path = "secret" /\ s # <<>> -> out = <<"REDACTED">>
      [] ~(rule.path = "secret" /\ s # <<>>) ->
            CASE d.operation \in {"MapCustomIdentifier", "MapReference"} ->
                    /\ IsSid(s) => IsSid(out)
                    /\ IsGuid(s) => IsGuid(out)
                    /\ IsOid(s) => IsOid(out)
              [] d.operation = "MapIdentity" ->
                    /\ Has(s, "@") => UpnShape(out)
                    /\ ~Has(s, "@") /\ d.namespace \in {"domains", "hosts"} => LabelShape(out)
              [] d.operation = "ParseDn" -> DnShape(out)
              [] d.operation = "ParseSpn" -> SpnShape(out)
              [] d.operation = "ParseComposite" ->
                    Has(s, "@") => Has(out, "@") /\ AllFilled(RSplitOnce(out, "@"))
              [] d.operation = "ReplaceOpaque" -> s # <<>> => IsRedacted(out)
              [] OTHER -> TRUE
----------------------------------------------------------------------------
(* visit *)

\* A number is copied; the functional level never is, and one at a path no rule
\* declares is not where the run redacts those.
Redacted(l) == l.rule.path = "functionallevel" \/ (l.rule = NoRule /\ redacting)

Number ==
    /\ stage = "visit" /\ leaf.kind = "number"
    /\ IF Redacted(leaf) /\ ~Parses(leaf.x)
       THEN stage' = "aborted" /\ UNCHANGED number
       ELSE stage' = "published" /\ number' = IF Redacted(leaf) THEN Sentinel(leaf.x) ELSE leaf.x
    /\ UNCHANGED <<redacting, leaf, decision, output>>

DecideString ==
    /\ stage = "visit" /\ leaf.kind = "string"
    /\ stage' = "apply" /\ decision' = Resolve(leaf.rule, leaf.s)
    /\ UNCHANGED <<redacting, leaf, output, number>>

Apply ==
    /\ stage = "apply"
    /\ stage' = "gate" /\ output' = Applied(leaf.rule, decision, leaf.s)
    /\ UNCHANGED <<redacting, leaf, decision, number>>

Gate ==
    /\ stage = "gate"
    /\ stage' = IF OutputShapeValid(leaf.rule, decision, leaf.s, output)
                THEN "published" ELSE "aborted"
    /\ UNCHANGED <<redacting, leaf, decision, output, number>>

GateNext == Number \/ DecideString \/ Apply \/ Gate
GateSpec == GateInit /\ [][GateNext]_gateVars
----------------------------------------------------------------------------
\* Nothing of the organization reaches a published output, whatever the value
\* looks like at whatever path: not a word in a part a transform copies, not an
\* identifier, not the functional level, and not an undeclared number where the
\* run redacts those.
NothingLeaks ==
    stage = "published" =>
        IF leaf.kind = "number"
        THEN leaf.rule.path = "functionallevel" \/ (leaf.rule = NoRule /\ redacting)
                => number # leaf.x
        ELSE \A i \in DOMAIN output : output[i] \notin Sensitive

\* The values that stop a run: a port the shape of an SPN does not look at, an
\* at sign in a name that has no domain, an identifier where a domain or a
\* template is referred to by name, and beyond i64 a functional level or, in a
\* run that redacts, an undeclared number.
Stops(l) ==
    LET d == Resolve(l.rule, l.s)
    IN  CASE l.kind = "number" -> Redacted(l) /\ ~Parses(l.x)
          [] l.kind = "string" /\ d.operation = "ParseSpn" -> ~SpnParses(l.s)
          [] l.kind = "string" /\ d.operation = "MapIdentity" ->
                Has(l.s, "@") /\ l.rule.path \in {"samaccountname", "other"}
          [] l.kind = "string" /\ d.operation = "MapReference" ->
                /\ d.namespace \in {"domains", "cert_templates"}
                /\ IsSid(l.s) \/ IsGuid(l.s) \/ IsOid(l.s)
          [] OTHER -> FALSE

\* Values an ingestor really emits, empty or malformed ones among them, do not
\* stop the run: what the policy hands to a structured transform comes out in
\* the shape the leak gate asks for, and the rest is redacted. The exceptions
\* are the ones above, and each of them does stop it.
LeafPasses ==
    /\ stage = "aborted" => Stops(leaf)
    /\ stage = "published" => ~Stops(leaf)

\* A path that holds the identifier of an object: it defines it or refers to it.
Identifies(r) == \/ r.operation = "MapCustomIdentifier"
                 \/ r.operation = "MapReference" /\ r.namespace \in {"sids", "identifiers"}

\* A SID behind a domain is one to the engine only: where the policy asks for a
\* SID it is redacted.
Shapeless(r, s) == /\ IsSid(s) /\ ~IsBareSid(s)
                   /\ r.namespace = "sids" \/ PermitsDomainRid(r, s)

\* The edges survive: an identifier is written at a path that refers to an object
\* as at the one that defines it, exactly where the two paths agree on it: the
\* catalog keeps it at both or at neither, and both ask for the same shape. So
\* an edge is lost only with a well-known SID, the GUID of a default policy or a
\* SID behind a domain; RIDs that are kept are SidBinding.tla's subject.
EdgesSurvive ==
    /\ stage = "published" /\ leaf.kind = "string"
    /\ Identifies(leaf.rule) /\ (IsSid(leaf.s) \/ IsGuid(leaf.s))
    => \A d \in Rules : d.operation = "MapCustomIdentifier" /\ d.namespace = "none" =>
          (output = Written(d, leaf.s)
             <=> /\ leaf.s \in leaf.rule.permits <=> leaf.s \in d.permits
                 /\ Shapeless(leaf.rule, leaf.s) <=> Shapeless(d, leaf.s))
=============================================================================
