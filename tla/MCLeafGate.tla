----------------------------- MODULE MCLeafGate -----------------------------
(* The kinds of rule the default tables have, and what ingestors emit there. *)
EXTENDS LeafGate

At(operation, namespace, path) ==
    [operation |-> operation, namespace |-> namespace, path |-> path,
     allowed |-> {}, permits |-> {}, rids |-> FALSE]

\* Where the catalog knows the well-known SIDs, and the RIDs of a domain: at an
\* object and at the principal of an ACE, not where other lists refer to one. The
\* object of a policy and the link to it know the default policies.
Known(rule) == [rule EXCEPT !.permits = {<<"sid">>}, !.rids = TRUE]
ObjectIdentifier == Known(At("MapCustomIdentifier", "none", "other"))
PolicyIdentifier == [ObjectIdentifier EXCEPT !.permits = {<<"sid">>, <<"gpo">>}]
PrincipalSid == Known(At("MapReference", "sids", "other"))
Reference == At("MapReference", "identifiers", "other")
Link == [At("MapCustomIdentifier", "guids", "other") EXCEPT !.permits = {<<"gpo">>}]
Name == [At("MapIdentity", "accounts", "name") EXCEPT !.permits = {<<"name">>}]

DefaultRules ==
    {ObjectIdentifier, PolicyIdentifier, PrincipalSid, Name, Reference, Known(Reference),
     [Reference EXCEPT !.rids = TRUE], At("MapReference", "sids", "other"), Link,
     At("MapCustomIdentifier", "guids", "other"), At("MapCustomIdentifier", "oids", "other"),
     At("MapReference", "domains", "other"), At("MapReference", "cert_templates", "other"),
     At("MapIdentity", "domains", "other"), At("MapIdentity", "hosts", "name"),
     At("MapIdentity", "accounts", "samaccountname"),
     At("MapIdentity", "accounts", "userprincipalname"), At("MapIdentity", "accounts", "email"),
     [At("MapIdentity", "cert_templates", "name") EXCEPT !.permits = {<<"name">>}],
     [At("ParseDn", "none", "other") EXCEPT !.permits = {<<"name">>}],
     At("ParseSpn", "none", "other"),
     [At("ParseComposite", "none", "other") EXCEPT !.permits = {<<"name">>}],
     [At("PreserveSchemaValue", "none", "other") EXCEPT !.allowed = {<<"name">>}],
     At("ReplaceOpaque", "opaque", "other"), At("ReplaceOpaque", "opaque", "secret"),
     At("ReplaceOpaque", "opaque", "functionallevel"),
     At("MapIdentity", "accounts", "secret")}

Names == {<<>>, <<"w">>, <<"name">>, <<"w", "$">>, <<"$">>, <<"w", "v">>, <<"9">>}
Hosts == {<<"w", ".", "local">>, <<"v", ".", "w", ".", "local">>, <<"w", ".">>, <<".", "w">>,
          <<"w", ".", ".", "v">>, <<"local">>}
Mails == {n \o <<"@">> \o h : n \in {<<>>, <<"w">>, <<"name">>}, h \in Hosts \cup {<<>>, <<"w">>}}
Ids == {<<i>> : i \in Identifiers}
Prefixed == {<<"w", ".", "local", "-", i>> : i \in {"sid", "dsid", "rsid"}}
Avas == {<<"cn", "=", "w">>, <<"cn", "=", "name">>, <<"dc", "=", "local">>, <<"dc", "=", "w">>,
         <<"uid", "=", "v">>, <<"w", "=", "v">>, <<"cn", "=">>, <<"w">>,
         <<"cn", "=", "w", "\\">>, <<"dc", "=", "v", ".", "w">>, <<"cn", "=", "guid">>}
Dns == Avas \cup {x \o <<c>> \o y : x \in Avas, y \in Avas, c \in {",", "+"}}
Spns == {x \o <<"/">> \o y \o z : x \in {<<>>, <<"http">>, <<"w">>},
                                  y \in {<<"w">>, <<"v", ".", "local">>, <<>>},
                                  z \in {<<>>, <<":", "9">>, <<":", "w">>, <<"/", "w">>, <<"/">>}}

\* At signs and colons where the rule of the path does not expect them.
BadPorts == {<<"http", "/", "w", ":">>, <<"http", "/", "w", ":", "9", ":", "v">>}

Every == Names \cup Hosts \cup Mails \cup Ids \cup Prefixed \cup Dns \cup Spns \cup BadPorts

\* Every string at every path.
Anything == [r \in DefaultRules \cup {NoRule} |-> Every]
=============================================================================
