SPECIFICATION VerifierSpec
CONSTANTS
    Documents <- Small
    Targets <- Kept
INVARIANTS FaultFound HonestPasses
CHECK_DEADLOCK FALSE
