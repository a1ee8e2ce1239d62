SPECIFICATION SidSpec
CONSTANTS
    early = early middle = middle late = late
    None = None
    Source <- Sids
    Pseudonym <- Fakes
    Identity <- Values
    Norm <- SidSelf
    Rank <- SidOrder
    Candidate <- SidGenerated
    Arcs <- SidParts
    Historical <- NoSids
    Document <- Documents
    Defines <- NoDefines
    Leaf <- PrefixLeaves
    Subauthority <- Subs
    WellKnown <- Catalog
    Covered <- Accounts
INVARIANTS RefusalOrderFree
CHECK_DEADLOCK FALSE
