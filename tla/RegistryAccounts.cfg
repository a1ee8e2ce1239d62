SPECIFICATION Spec
CONSTANTS
    ann = ann Ann = Ann bob = bob eve = eve sam = sam
    hen = hen Hen = Hen samu = samu
    iAnn = iAnn iBob = iBob iEve = iEve iSam = iSam iHen = iHen
    user = user User = User group = group
    p500 = p500 p900 = p900 q500 = q500 self = self
    iUser = iUser iGroup = iGroup i1 = i1 i2 = i2 i3 = i3
    None = None
    Source <- AccountSources
    Pseudonym <- AccountPseudonyms
    Identity <- AccountIdentities
    Norm <- AccountNorm
    Rank <- AccountRank
    Candidate <- AccountCandidate
    Arcs <- AccountArcs
    Historical <- AccountHistorical
INVARIANTS ReverseUnambiguous SpellingOrderFree
PROPERTIES AnswersStand
