---------------------------- MODULE MCCollection ----------------------------
(* Inputs of up to two members out of one document of every fate, or of     *)
(* three out of four of them, over an empty map and over one that has the    *)
(* administrator with its RID or without. Between them the documents have    *)
(* leaves of every kind, and a caller of the library may give each to every  *)
(* method.                                                                   *)
EXTENDS Collection, TLC

CONSTANTS clean, leaky, leakier, named, refusing, colliding, large, inert,
          malformed, junk, ok1, bad1, bad2, tmpl, badTmpl, corp, admin, hidden, oddSid,
          users, groups

Values == {ok1, bad1, bad2, tmpl, badTmpl, corp, admin, hidden, oddSid}
Order == (ok1 :> 1) @@ (bad1 :> 2) @@ (bad2 :> 3) @@ (tmpl :> 4) @@ (badTmpl :> 5)
         @@ (corp :> 6) @@ (admin :> 7) @@ (hidden :> 8) @@ (oddSid :> 9)
Accounts == {admin, hidden, oddSid}
Domains == [a \in Accounts |-> corp]
Documents == {clean, leaky, leakier, named, refusing, colliding, large, inert, malformed}
Broken == {malformed}
Junk == {junk}
Refusals == {bad1, bad2, badTmpl}
Maps == {{}, {corp, admin}}
OddSids == {oddSid}
Definitions == [d \in Documents |-> IF d = clean THEN {admin} ELSE {}]

At(kind, parts) == [kind |-> kind, parts |-> parts, spells |-> None, sid |-> None,
                    evidence |-> FALSE]
\* A SID where it is looked up, where the catalog keeps its RID, and where no
\* evidence is used.
Referred(v) == [At("parts", <<corp, v>>) EXCEPT !.spells = v, !.sid = v]
Evident(v) == [Referred(v) EXCEPT !.evidence = TRUE]
Named(v) == At("parts", <<corp, v>>)
Below(v, w) == At("parts", <<corp, v, w>>)
Quoted(v, w) == [At("opaque", <<w>>) EXCEPT !.spells = v]

\* The registry refuses bad1, bad2 and badTmpl and binds oddSid to itself. named
\* has the administrator as the whole of a text that is mapped as such, and in a
\* name; leakier has a SID below it.
Contents ==
    [d \in Documents |->
        CASE d = clean -> <<At("template", <<tmpl>>), Evident(admin)>>
          [] d = leaky -> <<At("kept", <<>>), At("key", <<ok1>>), Evident(admin)>>
          [] d = leakier -> <<Referred(admin), Below(admin, hidden)>>
          [] d = named -> <<Quoted(admin, ok1), Named(admin)>>
          [] d = refusing -> <<At("opaque", <<ok1>>), At("parts", <<ok1, bad1, bad2>>)>>
          [] d = colliding -> <<At("sameKey", <<ok1>>)>>
          [] d = large -> <<At("scalar", <<>>), At("beyond", <<>>)>>
          [] d = inert -> <<Referred(oddSid), At("template", <<badTmpl>>)>>
          [] d = malformed -> <<>>]
Reported == [doc : {leaky, leakier}, n : 1..2]
FoundIn == [d \in Documents |->
    CASE d = leaky -> <<[doc |-> leaky, n |-> 1]>>
      [] d = leakier -> <<[doc |-> leakier, n |-> 1], [doc |-> leakier, n |-> 2]>>
      [] OTHER -> <<>>]
Types == [d \in Documents |-> IF d \in {clean, named} THEN users ELSE groups]
Core == {users, groups}
Inputs == UNION {[1..n -> Documents \cup Junk] : n \in 1..2}
          \cup [1..3 -> {clean, leaky, leakier, named}]
=============================================================================
