------------------------------- MODULE Policy -------------------------------
(***************************************************************************)
(* FieldPolicy::resolve (crates/shanon-core/src/policy.rs): what is done   *)
(* to a string at a path. A rule is what the policy tables declare there,  *)
(* NoRule a path they do not know; whether the catalog's evidence reaches  *)
(* the path is part of the rule.                                           *)
(***************************************************************************)
EXTENDS Transforms

Operations == {"PreserveConstant", "PreserveSchemaValue", "MapIdentity", "MapReference",
               "ParseDn", "ParseSpn", "ParseComposite", "MapCustomIdentifier", "ReplaceOpaque"}
Namespaces == Categories \cup {"none", "identifiers", "sids_preserve_rid"}

\* path names those engine and verifier ask for, and "secret" the paths of
\* is_secret_material_path; the functional level is declared at every type; permits are the values the catalog keeps there, rids
\* says that it also knows the RIDs of the SIDs of a domain there.
Rule == [operation : Operations \ {"PreserveConstant"}, namespace : Namespaces,
         path : {"name", "samaccountname", "userprincipalname", "email", "functionallevel",
                 "secret", "other"},
         allowed : SUBSET Seq(Symbols), permits : SUBSET Seq(Symbols), rids : BOOLEAN]
NoRule == [operation |-> "ReplaceOpaque", namespace |-> "none", path |-> "unknown",
           allowed |-> {}, permits |-> {}, rids |-> FALSE]

Decide(operation, namespace) == [operation |-> operation, namespace |-> namespace]
Opaque == Decide("ReplaceOpaque", "opaque")
----------------------------------------------------------------------------
\* catalog_permits
CatalogPermits(rule, s) == s \in rule.permits

\* catalog_permits_domain_rid: the RID of the SID inside the value decides.
PermitsDomainRid(rule, s) ==
    /\ rule.operation \in {"MapCustomIdentifier", "MapReference"}
    /\ SidIdentity(s) = <<"rsid">> /\ rule.rids

\* Mutant: a reference keeps the namespace its rule declares.
RoutedNever(operation, namespace, s) == "none"

\* routed_identifier_namespace: the namespace of what the value is, where that is
\* not the one declared.
Routed(operation, namespace, s) ==
    LET actual == CASE IsBareSid(s) -> "sids" [] IsGuid(s) -> "guids" [] IsOid(s) -> "oids"
                    [] OTHER -> "none"
        fits == IF actual = "sids" THEN namespace \in {"sids", "sids_preserve_rid"}
                ELSE namespace = actual
    IN  IF /\ operation = "MapReference" /\ actual # "none" /\ ~fits
           /\ namespace \in {"sids", "sids_preserve_rid", "guids", "oids"}
        THEN actual ELSE "none"

\* The shape of a distinguished name, as source_shape_supports and the leak gate
\* look at it: no escape counts.
DnShape(s) ==
    /\ LET rdns == Split(s, ",")
       IN  \A i \in DOMAIN rdns :
             LET avas == Split(rdns[i], "+")
             IN  \A j \in DOMAIN avas :
                    Has(avas[j], "=") /\ AllFilled(SplitOnce(avas[j], "="))
    /\ StandardTypes(s)
SpnShape(s) == LET parts == Split(s, "/") IN Len(parts) \in {2, 3} /\ AllFilled(parts)
UpnShape(s) == LET parts == Split(s, "@") IN Len(parts) = 2 /\ AllFilled(parts)
LabelShape(s) == s # <<>> /\ AllFilled(Split(s, "."))

\* Mutant: a host or a domain may lack a label.
ShapeWithoutLabels(operation, namespace, s) ==
    CASE operation = "ParseDn" -> s # <<>> /\ DnShape(s)
      [] operation = "ParseSpn" -> SpnShape(s)
      [] operation = "ParseComposite" /\ Has(s, "@") -> AllFilled(RSplitOnce(s, "@"))
      [] operation = "MapIdentity" /\ Has(s, "@") -> UpnShape(s)
      [] operation \in {"MapCustomIdentifier", "MapReference"} ->
            namespace \in {"sids", "sids_preserve_rid"} => IsBareSid(s)
      [] OTHER -> TRUE

\* source_shape_supports
SourceShapeSupports(operation, namespace, s) ==
    CASE operation = "ParseDn" -> s # <<>> /\ DnShape(s)
      [] operation = "ParseSpn" -> SpnShape(s)
      [] operation = "ParseComposite" /\ Has(s, "@") -> AllFilled(RSplitOnce(s, "@"))
      [] operation = "MapIdentity" /\ Has(s, "@") -> UpnShape(s)
      [] operation = "MapIdentity" /\ ~Has(s, "@") /\ namespace \in {"domains", "hosts"} ->
            LabelShape(s)
      [] operation \in {"MapCustomIdentifier", "MapReference"} ->
            namespace \in {"sids", "sids_preserve_rid"} => IsBareSid(s)
      [] OTHER -> TRUE

\* The fallbacks of a path no rule declares.
Fallback(s) ==
    CASE IsBareSid(s) -> Decide("MapCustomIdentifier", "sids")
      [] IsGuid(s) -> Decide("MapCustomIdentifier", "guids")
      [] IsOid(s) -> Decide("MapCustomIdentifier", "oids")
      [] OTHER -> Opaque

\* What is left of resolve once the catalog does not keep the value.
Shaped(rule, s) ==
    LET declared == IF PermitsDomainRid(rule, s) THEN "sids_preserve_rid" ELSE rule.namespace
        routed == Routed(rule.operation, declared, s)
    IN  CASE routed # "none" -> Decide(rule.operation, routed)
          [] routed = "none" /\ SourceShapeSupports(rule.operation, declared, s) ->
                Decide(rule.operation, declared)
          [] OTHER -> Opaque

\* resolve, with resolve_schema in its place.
Resolve(rule, s) ==
    CASE rule = NoRule -> Fallback(s)
      [] rule # NoRule /\ rule.operation = "PreserveSchemaValue" ->
            IF s \in rule.allowed THEN Decide("PreserveSchemaValue", rule.namespace) ELSE Opaque
      [] rule # NoRule /\ rule.operation # "PreserveSchemaValue" /\ CatalogPermits(rule, s) ->
            Decide("PreserveConstant", "none")
      [] OTHER -> Shaped(rule, s)
----------------------------------------------------------------------------
(* Numbers never reach resolve: visit redacts those at a path no rule declares. *)

Width == 4                  \* bits of an i64, here
Numbers == [float : {FALSE}, n : -(2 ^ (Width - 1))..(2 ^ Width - 1)]
               \cup [float : {TRUE}, n : {-2, -1, 0}]

\* numeric_sentinel: a number beyond i64 is an error.
Parses(x) == x.float \/ x.n < 2 ^ (Width - 1)
Sentinel(x) == [x EXCEPT !.n = IF x.n = -1 THEN -2 ELSE -1]
=============================================================================
