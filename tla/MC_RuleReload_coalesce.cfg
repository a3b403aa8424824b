CONSTANTS
    f1 = f1
    f2 = f2
    pGood = pGood
    pBad = pBad
    RuleFiles <- MCRuleFiles
    Patterns <- MCPatterns
    Matches <- MCMatches
    BadPatterns <- MCBadPatterns
    MaxEdits = 2
    MaxRequests = 3
SPECIFICATION Spec
INVARIANT PendingReloadsCoalesced
CHECK_DEADLOCK FALSE
