SPECIFICATION GateSpec
CONSTANTS
    Rules <- DefaultRules
    Strings <- Anything
INVARIANTS NothingLeaks LeafPasses EdgesSurvive
CHECK_DEADLOCK FALSE
