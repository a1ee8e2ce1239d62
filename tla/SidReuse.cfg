SPECIFICATION SidSpec
CONSTANTS
    early = early middle = middle late = late
    None = None
    Source <- Sids
    Pseudonym <- Fakes
    Identity <- Values
    Norm <- SidSelf
    Rank <- SidOrder
    Candidate <- SidGenerated
    Arcs <- SidParts
    Historical <- NoSids
    Document <- Documents
    Defines <- OrderDefines
    Leaf <- ReuseLeaves
    Subauthority <- Subs
    WellKnown <- Catalog
    Covered <- Accounts
INVARIANTS SidTypeOK RefusalOrderFree
CHECK_DEADLOCK FALSE
