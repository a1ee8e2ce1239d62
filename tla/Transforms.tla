----------------------------- MODULE Transforms -----------------------------
(***************************************************************************)
(* The structure-aware transforms (crates/shanon-core/src/components.rs).  *)
(*                                                                         *)
(* A string is a sequence of symbols: a separator, a word of the           *)
(* organization, or a whole identifier that the shape regexes tell apart.  *)
(* A pseudonym is the symbol of the category that minted it: what it looks *)
(* like and whose it is belong to Registry.tla.                            *)
(***************************************************************************)
EXTENDS Naturals, Sequences, SequencesExt

Categories == {"domains", "sids", "accounts", "hosts", "guids", "cert_templates",
               "oids", "opaque"}

\* "sid" is a well-known SID, "dsid" one of the domain, "rsid" one of the domain
\* whose RID the catalog knows, "name" a name the catalog knows, "local" a safe
\* domain suffix, "http" a standard service class, "9" a run of digits; "gpo" is
\* the GUID of a default policy, "guid" any other.
Identifiers == {"sid", "dsid", "rsid", "gpo", "guid", "oid"}
Symbols == {"@", ".", "/", ":", ",", "+", "=", "\\", "$", "-", "w", "v", "name", "local",
            "http", "9", "cn", "dc", "uid", "REDACTED"} \cup Identifiers \cup Categories

StandardRdnAttributeTypes == {<<"cn">>, <<"dc">>, <<"uid">>}
----------------------------------------------------------------------------
(* Strings *)

Has(s, c) == \E i \in DOMAIN s : s[i] = c

Split(s, c) ==
    FoldLeft(LAMBDA parts, x : IF x = c THEN Append(parts, <<>>)
                               ELSE [parts EXCEPT ![Len(parts)] = Append(@, x)],
             <<<<>>>>, s)

Join(parts, c) ==
    FlattenSeq([i \in DOMAIN parts |-> IF i = 1 THEN parts[1] ELSE <<c>> \o parts[i]])

\* What split_once and rsplit_once find; s has the separator.
SplitOnce(s, c) ==
    LET i == CHOOSE j \in DOMAIN s : s[j] = c /\ \A l \in 1..(j - 1) : s[l] # c
    IN  <<SubSeq(s, 1, i - 1), SubSeq(s, i + 1, Len(s))>>
RSplitOnce(s, c) ==
    LET i == CHOOSE j \in DOMAIN s : s[j] = c /\ \A l \in (j + 1)..Len(s) : s[l] # c
    IN  <<SubSeq(s, 1, i - 1), SubSeq(s, i + 1, Len(s))>>

AllFilled(parts) == \A i \in DOMAIN parts : parts[i] # <<>>

\* split_unescaped
SplitUnescaped(s, c) ==
    FoldLeft(LAMBDA acc, x :
                 [parts |-> IF x = c /\ ~acc.escaped THEN Append(acc.parts, <<>>)
                            ELSE [acc.parts EXCEPT ![Len(acc.parts)] = Append(@, x)],
                  escaped |-> x = "\\" /\ ~acc.escaped],
             [parts |-> <<<<>>>>, escaped |-> FALSE], s).parts
----------------------------------------------------------------------------
(* Shapes *)

\* sid_re of the engine and of the verifier, which allow a domain in front.
IsSid(s) == /\ s # <<>> /\ s[Len(s)] \in {"sid", "dsid", "rsid", "sids"}
            /\ Len(s) > 1 => Len(s) > 2 /\ s[Len(s) - 1] = "-"
\* sid_re of the policy, which does not.
IsBareSid(s) == IsSid(s) /\ Len(s) = 1
IsGuid(s) == s \in {<<"gpo">>, <<"guid">>, <<"guids">>}
IsOid(s) == s \in {<<"oid">>, <<"oids">>}
\* redacted_re
IsRedacted(s) == s \in {<<"opaque">>, <<"REDACTED">>}

\* sid_identity
SidIdentity(s) == IF IsSid(s) THEN <<s[Len(s)]>> ELSE s

\* dn_attribute_types_are_standard
StandardTypes(dn) ==
    LET rdns == SplitUnescaped(dn, ",")
    IN  \A i \in DOMAIN rdns :
          LET avas == SplitUnescaped(rdns[i], "+")
          IN  \A j \in DOMAIN avas :
                 /\ Has(avas[j], "=")
                 /\ SplitOnce(avas[j], "=")[1] \in StandardRdnAttributeTypes
----------------------------------------------------------------------------
(* Transforms *)

Domain(s) ==
    LET labels == Split(s, ".")
        Keep(i) == \/ labels[i] = <<>>
                   \/ Len(labels) > 1 /\ i = Len(labels) /\ labels[i] = <<"local">>
    IN  Join([i \in DOMAIN labels |-> IF Keep(i) THEN labels[i] ELSE <<"domains">>], ".")

Sid(s, preserve) ==
    LET inner == SidIdentity(s)
        mapped == IF preserve /\ inner = <<"sid">> THEN inner ELSE <<"sids">>
    IN  IF Len(s) = 1 THEN mapped
        ELSE Domain(SubSeq(s, 1, Len(s) - 2)) \o <<"-">> \o mapped

Guid(s, preserve) == IF preserve THEN s ELSE <<"guids">>
Oid(s, preserve) == IF preserve THEN s ELSE <<"oids">>

NameToken(s, preserve) ==
    CASE preserve -> s
      [] ~preserve /\ s \in {<<"gpo">>, <<"guid">>} -> Guid(s, FALSE)
      [] ~preserve /\ s \in {<<"dsid">>, <<"rsid">>} -> Sid(s, FALSE)
      [] OTHER -> <<"accounts">>

SamAccountName(s) ==
    IF s # <<>> /\ s[Len(s)] = "$"
    THEN NameToken(SubSeq(s, 1, Len(s) - 1), FALSE) \o <<"$">>
    ELSE NameToken(s, FALSE)

\* transform_upn_name; transform_email differs where there is no domain.
Email(s) ==
    LET p == SplitOnce(s, "@") IN NameToken(p[1], FALSE) \o <<"@">> \o Domain(p[2])
UpnName(s) == IF Has(s, "@") THEN Email(s) ELSE NameToken(s, FALSE)

DnsHostName(s) ==
    IF Has(s, ".") THEN <<"hosts", ".">> \o Domain(SplitOnce(s, ".")[2]) ELSE <<"hosts">>

AdLocalGroupName(s, preserveGroup) ==
    IF Has(s, "@")
    THEN LET p == RSplitOnce(s, "@")
         IN  NameToken(p[1], preserveGroup) \o <<"@">> \o DnsHostName(p[2])
    ELSE NameToken(s, preserveGroup)

\* transform_dn; preserved are the values its callback says preserve of.
Dn(dn, preserved) ==
    LET rdns == SplitUnescaped(dn, ",")
        Attribute(ava) == SplitOnce(ava, "=")[1]
        Content(ava) == SplitOnce(ava, "=")[2]
        DcCount == Len(SelectSeq(FlattenSeq([i \in DOMAIN rdns |-> SplitUnescaped(rdns[i], "+")]),
                                 LAMBDA a : Has(a, "=") /\ Attribute(a) = <<"dc">>))
        Mapped(ava, last) ==
            CASE Attribute(ava) = <<"dc">> ->
                    IF DcCount >= 2 /\ last /\ Content(ava) = <<"local">>
                    THEN Content(ava) ELSE Domain(Content(ava))
              [] Attribute(ava) = <<"cn">> -> NameToken(Content(ava), Content(ava) \in preserved)
              [] OTHER -> <<"opaque">>
        Ava(ava, last) == IF Has(ava, "=") THEN Attribute(ava) \o <<"=">> \o Mapped(ava, last)
                          ELSE <<"opaque">>
        Rdn(i) == LET avas == SplitUnescaped(rdns[i], "+")
                  IN  Join([j \in DOMAIN avas |-> Ava(avas[j], i = Len(rdns))], "+")
    IN  Join([i \in DOMAIN rdns |-> Rdn(i)], ",")

\* parse_spn, which splits the host from its port or instance name.
SpnParses(s) ==
    LET parts == Split(s, "/")
        host == Split(parts[2], ":")
    IN  /\ Len(parts) \in {2, 3} /\ AllFilled(parts)
        /\ Len(host) \in {1, 2} /\ AllFilled(host)

\* Mutant: what follows the host is a port.
SuffixVerbatim(suffix) == suffix

\* A port stays, an instance name does not.
Suffix(suffix) == IF suffix = <<"9">> THEN suffix ELSE NameToken(suffix, FALSE)

\* transform_spn: what it cannot parse it returns as it is.
Spn(s) ==
    LET parts == Split(s, "/")
        host == Split(parts[2], ":")
    IN  IF ~SpnParses(s) THEN s
        ELSE (IF parts[1] = <<"http">> THEN parts[1] ELSE NameToken(parts[1], FALSE))
             \o <<"/">> \o DnsHostName(host[1])
             \o (IF Len(host) = 2 THEN <<":">> \o Suffix(host[2]) ELSE <<>>)
             \o (IF Len(parts) = 3 THEN <<"/">> \o DnsHostName(parts[3]) ELSE <<>>)
=============================================================================
