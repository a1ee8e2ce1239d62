SPECIFICATION FairSpec
CONSTANTS
    first = first second = second third = third
    here = here there = there
    collHere = collHere collThere = collThere mapHere = mapHere mapAside = mapAside
    None = None
    Run <- RaceRuns
    Dir = {here}
    Out <- RaceOut
    Destination <- RaceDestinations
    Collection <- RaceCollection
    Mapping <- RaceMapping
    Place <- RacePlace
INVARIANTS TypeOK FailureLeavesNoOutput
PROPERTIES Returns
CHECK_DEADLOCK FALSE
