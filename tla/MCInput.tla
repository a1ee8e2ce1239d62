------------------------------ MODULE MCInput -------------------------------
(* A directory with two JSON members and one other file, over two regular    *)
(* files and a link; archives of up to four entries of two names, and the   *)
(* other files there may be at the path.                                     *)
EXTENDS CollectionInput, TLC

CONSTANTS early, late, notes, one, two, link, a, b, txt, up

Paths == {early, late, notes}
Order == (early :> 1) @@ (late :> 2) @@ (notes :> 3)
JsonPaths == {early, late}
Inodes == {one, two, link}
Links == {link}

Names == {a, b, txt, up}
JsonNames == {a, b, up}
UnsafeNames == {up}

Plain == [name : {a, b}, directory : {FALSE}, stored : {FALSE}, broken : {FALSE},
          declared : 0..2, comp : {1}, expands : {0, 2, 3}]
StoredOnes == [name : {a}, directory : {FALSE}, stored : {TRUE}, broken : {FALSE},
           declared : {1}, comp : {1, 2}, expands : {1}]
A == [name |-> a, directory |-> FALSE, stored |-> FALSE, broken |-> FALSE,
      declared |-> 1, comp |-> 1, expands |-> 1]
Odd == {[A EXCEPT !.name = txt], [A EXCEPT !.name = up], [A EXCEPT !.broken = TRUE],
        [A EXCEPT !.directory = TRUE], [A EXCEPT !.declared = 3]}
Lists == UNION {[1..n -> Plain] : n \in 0..2}
         \cup [1..1 -> StoredOnes \cup Odd]
         \cup [1..3 -> {A, [A EXCEPT !.name = b], [A EXCEPT !.expands = 0]}]
         \cup [1..4 -> {[A EXCEPT !.declared = 0, !.expands = 0]}]

Archive(es, n) == [size |-> n, shaped |-> TRUE, document |-> FALSE,
                   central |-> TRUE, entries |-> es]
\* Archives with a prefix, bare documents, and files that are neither.
Inputs == {Archive(es, 2) : es \in Lists}
          \cup {[Archive(<<A>>, n) EXCEPT !.shaped = FALSE] : n \in {3, 4}}
          \cup {[size |-> n, shaped |-> s, document |-> d, central |-> FALSE, entries |-> <<>>]
                  : n \in 1..3, s \in BOOLEAN, d \in BOOLEAN}
Big == {Archive(<<A>>, 4), [Archive(<<>>, 4) EXCEPT !.shaped = FALSE, !.document = TRUE]}
Laters == Big \cup {Archive(<<A, [A EXCEPT !.name = b], [A EXCEPT !.expands = 0]>>, 2)}
AllInputs == Inputs \cup Big
=============================================================================
