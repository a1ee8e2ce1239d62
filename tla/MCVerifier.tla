----------------------------- MODULE MCVerifier -----------------------------
(* Documents of one or two slots over every kind of scalar. *)
EXTENDS Verifier

X(ty, v, known, declared, op) ==
    [ty |-> ty, text |-> Raw(v), known |-> known, declared |-> declared, op |-> op]

Strs == {X("str", v, known, known, op) :
            v \in {"a", "t"}, known \in BOOLEAN,
            op \in {"keep", "map", "refer", "template", "sid"}}
Numbers == {X(ty, v, known, declared, "none") :
               ty \in {"int", "float"}, v \in {"5", "-1"}, known \in {TRUE}, declared \in BOOLEAN}
           \cup {X("int", v, FALSE, declared, "none") : v \in {"5", "-1"}, declared \in BOOLEAN}
Levels == {X(ty, v, known, TRUE, "level") :
              ty \in {"int", "float"}, v \in {"7", "-1"}, known \in BOOLEAN}
Rest == {X("bool", "true", known, known, "none") : known \in BOOLEAN}
            \cup {X("null", "null", TRUE, TRUE, "none")}
Scalars == Strs \cup Numbers \cup Levels \cup Rest

Slots == {"k", "l"}
Small == [{"k"} -> Scalars] \cup [Slots -> Scalars]
Kept == {Raw("t")}
=============================================================================
