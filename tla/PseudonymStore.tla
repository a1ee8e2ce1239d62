--------------------------- MODULE PseudonymStore ---------------------------
(***************************************************************************)
(* What shanon promises of its mapping, with none of the indexes that keep *)
(* it: a partial injective assignment of pseudonyms to identities that     *)
(* grows while it is open, may be corrected only where a pseudonym has     *)
(* structure (a SID below a domain), never touches what an earlier map     *)
(* already fixed, and does not move at all once it is sealed.              *)
(* An identity is a normalized real value, a name a normalized pseudonym;  *)
(* both live in Identity, since either may look like the other.            *)
(***************************************************************************)
CONSTANTS Identity,     \* normalized values, real or pseudonymous
          Structured,   \* identities whose pseudonym may be corrected
          None          \* no assignment

VARIABLES assigned,     \* identity -> name
          kept,         \* identities an earlier map fixed
          reserved,     \* names an earlier map used and nobody may take again
          sealed

vars == <<assigned, kept, reserved, sealed>>

Injective(f) ==
    \A i, j \in Identity : f[i] # None /\ f[i] = f[j] => i = j

AvoidsReserved(f) == \A i \in Identity : f[i] # None => f[i] \notin reserved

NoFixedPoint(f) == \A i \in Identity : f[i] # i

TypeOK ==
    /\ assigned \in [Identity -> Identity \cup {None}]
    /\ kept \subseteq Identity
    /\ reserved \subseteq Identity
    /\ sealed \in BOOLEAN

Init ==
    /\ TypeOK
    /\ Injective(assigned) /\ AvoidsReserved(assigned) /\ NoFixedPoint(assigned)
    /\ kept = {i \in Identity : assigned[i] # None}
    /\ ~sealed

\* One or several identities get a name; everybody else keeps theirs.
Extends(new, old) ==
    \A i \in Identity : IF old[i] = None THEN new[i] # i ELSE new[i] = old[i]

Assign ==
    /\ ~sealed
    /\ assigned' \in [Identity -> Identity \cup {None}]
    /\ Extends(assigned', assigned)
    /\ Injective(assigned') /\ AvoidsReserved(assigned')
    /\ UNCHANGED <<kept, reserved, sealed>>

\* The structured name of one identity of this run is corrected.
Correct(i, name) ==
    /\ ~sealed
    /\ i \in Structured \ kept
    /\ assigned[i] # None
    /\ assigned' = [assigned EXCEPT ![i] = name]
    /\ Injective(assigned') /\ AvoidsReserved(assigned')
    /\ UNCHANGED <<kept, reserved, sealed>>

\* A mapping that leaves a value unchanged is never sealed.
Seal ==
    /\ ~sealed
    /\ NoFixedPoint(assigned)
    /\ sealed' = TRUE
    /\ UNCHANGED <<assigned, kept, reserved>>

Next ==
    \/ Assign
    \/ \E i, name \in Identity : Correct(i, name)
    \/ Seal

Spec == Init /\ [][Next]_vars
=============================================================================
