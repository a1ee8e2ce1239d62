SPECIFICATION CollectionSpec
CONSTANTS
    clean = clean leaky = leaky leakier = leakier named = named refusing = refusing
    colliding = colliding large = large inert = inert malformed = malformed junk = junk
    ok1 = ok1 bad1 = bad1 bad2 = bad2 tmpl = tmpl badTmpl = badTmpl
    corp = corp admin = admin hidden = hidden oddSid = oddSid users = users groups = groups
    None = None
    Value <- Values
    Rank <- Order
    Account <- Accounts
    Domain <- Domains
    Document <- Documents
    Leaves <- Contents
    Defines <- Definitions
    Malformed <- Broken
    Refused <- Refusals
    Loads <- Maps
    Inert <- OddSids
    Unparsed <- Junk
    Finding <- Reported
    Findings <- FoundIn
    MetaType <- Types
    CoreType <- Core
    Members <- Inputs
INVARIANTS EngineTypeOK ToldWhere PublishedWhole DryRunAgrees
PROPERTIES FallbackReported ClosedForGood DiscoveredTransforms
CHECK_DEADLOCK FALSE
