------------------------------ MODULE MCScrub -------------------------------
(* Texts over two letters of real names, one of them in two cases, three     *)
(* letters of pseudonyms and a separator.                                    *)
EXTENDS Scrub, TLC

CONSTANTS a, A, b, x, y, z, sep

Chars == {a, A, b, x, y, z, sep}
WordChars == {a, A, b, x, y, z}
Folding == (a :> a) @@ (A :> a) @@ (b :> b) @@ (x :> x) @@ (y :> y) @@ (z :> z) @@ (sep :> sep)

Exactly(r, f) == [exact |-> TRUE, real |-> r, fake |-> f]
Caseless(r, f) == [exact |-> FALSE, real |-> r, fake |-> f]

\* Pseudonyms hold their source, or that of another; the literals of a map
\* contain one another, in one category and across the two; the pseudonym of a
\* host's full name is put together from those of its parts, that of a SID from
\* its domain's and an arc, its own or a generated one; literals and pseudonyms
\* begin and end with a separator; and a literal hides a shorter one. Otherwise
\* the generated parts of a map's pseudonyms, the letters x, y and z, are distinct.
Containing == {Caseless(<<a>>, <<a, sep, x>>), Caseless(<<b>>, <<a, sep, y>>)}
Nested == {Exactly(<<a, sep, b>>, <<sep, y, sep>>), Caseless(<<a>>, <<x>>), Caseless(<<b>>, <<z>>),
           Caseless(<<b, sep, a>>, <<z, sep, x>>)}
Overlapping == {Caseless(<<a, sep, b>>, <<x, x>>), Caseless(<<b, sep, a>>, <<y, z>>)}
Hierarchy == {Caseless(<<a>>, <<x>>), Caseless(<<a, sep, b>>, <<x, sep, b>>),
              Caseless(<<a, sep, a>>, <<x, sep, y>>)}
Edges == {Exactly(<<a>>, <<sep, y, sep>>), Exactly(<<sep, b>>, <<sep, z, sep>>)}
Hidden == {Caseless(<<a, sep, b>>, <<x, x>>), Caseless(<<a>>, <<y>>), Caseless(<<b, b>>, <<z>>)}
Plain == {Containing, Nested, Overlapping, Hierarchy, Edges, Hidden}
Strings(alphabet, n) == UNION {[1..m -> alphabet] : m \in 0..n}
Typed == Strings(Chars, 4)
=============================================================================
