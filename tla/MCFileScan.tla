----------------------------- MODULE MCFileScan -----------------------------
\* An instance of FileScan for TLC: the signing rules in the order of
\* default_ruleset, one rule that looks at the content after them.
EXTENDS FileScan, TLC

FileSymmetry == Permutations(Files)

MCContentRules == {"macho-loader-anomaly"}

MCRuleset ==
  <<"unsigned-binary", "adhoc-signed-binary", "unanchored-signing-identity",
    "invalid-code-signature", "revoked-code-signature", "signed-not-notarized",
    "notarized-binary", "macho-loader-anomaly">>
=============================================================================
