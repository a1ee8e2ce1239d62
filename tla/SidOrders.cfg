SPECIFICATION SidSpec
CONSTANTS
    early = early middle = middle late = late
    None = None
    Source <- Sids
    Pseudonym <- Fakes
    Identity <- Values
    Norm <- SidSelf
    Rank <- SidOrder
    Candidate <- SidGenerated
    Arcs <- SidParts
    Historical <- NoSids
    Document <- Documents
    Defines <- OrderDefines
    Leaf <- OrderLeaves
    Subauthority <- Subs
    WellKnown <- Catalog
    Covered <- NoSids
INVARIANTS OutputOrderFree EvidenceSettled
CHECK_DEADLOCK FALSE
