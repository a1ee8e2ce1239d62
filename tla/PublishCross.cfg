SPECIFICATION Spec
CONSTANTS
    first = first second = second third = third
    here = here there = there
    collHere = collHere collThere = collThere mapHere = mapHere mapAside = mapAside
    None = None
    Run <- CrossRuns
    Dir = {here, there}
    Out <- CrossOut
    Destination <- CrossDestinations
    Collection <- CrossCollection
    Mapping <- CrossMapping
    Place <- CrossPlace
INVARIANTS Paired SomeoneWins
PROPERTIES ImplementsAtomic
CHECK_DEADLOCK FALSE
