SPECIFICATION ScrubSpec
CONSTANTS
    a = a A = A b = b x = x y = y z = z sep = sep
    Char <- Chars
    Word <- WordChars
    Fold <- Folding
    Maps <- Plain
    Texts <- Typed
INVARIANTS RoundTrip Idempotent
PROPERTY ScanEnds
CHECK_DEADLOCK FALSE
