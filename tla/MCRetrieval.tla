----------------------------- MODULE MCRetrieval -----------------------------
EXTENDS Retrieval, TLC

Symmetry == Permutations(Docs) \cup Permutations(Digests) \cup Permutations(Readers)
=============================================================================
