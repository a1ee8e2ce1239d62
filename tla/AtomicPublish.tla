---------------------------- MODULE AtomicPublish ----------------------------
(***************************************************************************)
(* What publication promises: a run publishes its collection and its       *)
(* mapping file together or not at all, never in the place of another      *)
(* run's, and is told it failed only when it published nothing.            *)
(***************************************************************************)
CONSTANTS Run,          \* executions of shanon anonymize
          Conflict      \* [Run -> SUBSET Run], runs that aim at the same file

VARIABLES published,    \* runs whose collection can be seen, with its mapping
          refused       \* runs that returned an error

vars == <<published, refused>>

TypeOK == published \subseteq Run /\ refused \subseteq Run

Init == published = {} /\ refused = {}

Publish(r) ==
    /\ r \notin published \cup refused
    /\ Conflict[r] \cap published = {}
    /\ published' = published \cup {r}
    /\ UNCHANGED refused

Refuse(r) ==
    /\ r \notin published \cup refused
    /\ refused' = refused \cup {r}
    /\ UNCHANGED published

Next == \E r \in Run : Publish(r) \/ Refuse(r)

Spec == Init /\ [][Next]_vars
=============================================================================
