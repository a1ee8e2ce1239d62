SPECIFICATION InputSpec
CONSTANTS
    early = early late = late notes = notes one = one two = two link = link
    a = a b = b txt = txt up = up
    None = None
    Path <- Paths
    PathRank <- Order
    Json <- JsonPaths
    Inode <- Inodes
    Link <- Links
    Name <- Names
    JsonName <- JsonNames
    UnsafeName <- UnsafeNames
    Input <- AllInputs
    Later <- Laters
    MaxMembers = 3 MaxMember = 2 MaxTotal = 3 MaxEdits = 2
INVARIANTS MembersCoherent HashOfMembers InputWhole ReadBounded LatestWhole
CHECK_DEADLOCK FALSE
