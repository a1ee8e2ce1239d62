----------------------------- MODULE MCPublish -----------------------------
(* Runs that aim at one output directory with one mapping path each, at    *)
(* the same mapping path from two directories, and without a mapping.      *)
EXTENDS Publish, TLC

CONSTANTS first, second, third,     \* runs
          here, there,              \* output directories
          collHere, collThere, mapHere, mapAside

\* Two runs with the default --map (inside --out) and a third with the map of
\* the first's directory elsewhere.
RaceRuns == {first, second}
RaceOut == [r \in RaceRuns |-> here]
RaceDestinations == {collHere, mapHere, mapAside}
RaceCollection == [r \in RaceRuns |-> collHere]
RaceMapping == (first :> mapHere) @@ (second :> mapAside)
RacePlace == (collHere :> here) @@ (mapHere :> here) @@ (mapAside :> None)

\* Two directories, one mapping path outside both, and a run without a mapping.
CrossRuns == {first, second, third}
CrossOut == (first :> here) @@ (second :> there) @@ (third :> there)
CrossDestinations == {collHere, collThere, mapAside}
CrossCollection == (first :> collHere) @@ (second :> collThere) @@ (third :> collThere)
CrossMapping == (first :> mapAside) @@ (second :> mapAside) @@ (third :> None)
CrossPlace == (collHere :> here) @@ (collThere :> there) @@ (mapAside :> None)
=============================================================================
