--------------------------- MODULE MC_RuleReload ---------------------------
(* Two rule files, one pattern that names both and one bad pattern.       *)
EXTENDS RuleReload

CONSTANTS f1, f2, pGood, pBad

MCRuleFiles == {f1, f2}
MCPatterns == {pGood, pBad}
MCMatches == [p \in MCPatterns |-> IF p = pGood THEN {f1, f2} ELSE {f1}]
MCBadPatterns == {pBad}
=============================================================================
