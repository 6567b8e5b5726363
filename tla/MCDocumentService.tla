-------------------------- MODULE MCDocumentService --------------------------
EXTENDS DocumentService, TLC

CONSTANTS s1, g1, g2, f1, x1

OneBody == {[source |-> s1, digest |-> g1, facts |-> f1, extra |-> x1]}

ServiceSymmetry ==
  Permutations(Docs) \cup Permutations(Creators) \cup Permutations(Keys)
    \cup Permutations(Uploaders) \cup Permutations(Workers)
=============================================================================
