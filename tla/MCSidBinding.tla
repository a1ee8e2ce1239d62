---------------------------- MODULE MCSidBinding ----------------------------
(* Small collections: one domain with an administrator (RID 500), a group   *)
(* (512) and an ordinary account (1100), one of them with a SID below it.   *)
EXTENDS SidBinding, TLC

CONSTANTS early, middle, late       \* documents

domain == <<1>>
admin == <<1, 500>>
group == <<1, 512>>
custom == <<1, 1100>>
belowAdmin == <<1, 500, 7>>
belowCustom == <<1, 1100, 7>>

Accounts == {domain, admin, group, custom}
Sids == Accounts \cup {belowAdmin, belowCustom}
Subs == (domain :> 79) @@ (admin :> 80) @@ (group :> 81) @@ (custom :> 82) @@
        (belowAdmin :> 83) @@ (belowCustom :> 84)
\* One domain, and all that can be put together under it.
FakeAccounts == {<<9, n>> : n \in {80, 81, 82, 500, 512}}
Fakes == {<<9>>} \cup FakeAccounts \cup {Append(p, n) : p \in FakeAccounts, n \in {83, 84}}
Values == Sids \cup Fakes
SidSelf == [v \in Values |-> v]
SidOrder == (domain :> 1) @@ (custom :> 2) @@ (belowCustom :> 3) @@
            (admin :> 4) @@ (belowAdmin :> 5) @@ (group :> 6)
SidGenerated == [s \in Sids |-> <<9>>]
SidParts == [v \in Values |-> IF Len(v) = 1 THEN <<>> ELSE v]
Catalog == {admin, group}
Documents == {early, middle, late}

At(d, s) == [doc |-> d, sid |-> s, declared |-> FALSE, applies |-> TRUE, embedded |-> FALSE]
Declared(d, s) == [At(d, s) EXCEPT !.declared = TRUE]
Prefixed(d, s) == [At(d, s) EXCEPT !.embedded = TRUE]
\* The identifier of an object of no catalog entry, and a name or DN.
Object(d, s) == [At(d, s) EXCEPT !.applies = FALSE]
Named(d, s) == [Object(d, s) EXCEPT !.embedded = TRUE]

\* The group is met bare, prefixed and declared, the administrator is an
\* object of the later document and the ordinary account of the middle one,
\* named in the early one, and a SID lies below it.
OrderLeaves == {At(early, group), Prefixed(early, group), At(early, admin),
                Named(early, custom), Prefixed(middle, admin), Object(middle, custom),
                Declared(late, group), At(late, belowCustom)}
OrderDefines == (early :> {}) @@ (middle :> {}) @@ (late :> {admin})

\* The administrator has a SID below it in one document, is an object of the
\* late one and is named in the middle one; the group is met bare in the early
\* one, declared in the middle one, and in the late one it is the identifier of
\* an object without a catalog entry. An ordinary account is met twice.
ReuseLeaves == {At(early, group), At(early, custom), Declared(middle, group),
                Named(middle, admin), At(middle, belowAdmin), At(late, admin),
                Object(late, group), At(late, belowCustom)}

\* Two occurrences of the group, one prefixed and one declared.
PrefixLeaves == {Prefixed(early, group), Declared(late, group)}
NoDefines == [d \in Documents |-> {}]
NoSids == {}
=============================================================================
