------------------------------- MODULE MCUpload -------------------------------
EXTENDS Upload, TLC

CONSTANTS s1, g1, g2, f1, f2, x1

(* A body, the same with another owner, and one without a source reference.*)
Body      == [source |-> s1, digest |-> g1, facts |-> f1, extra |-> x1]
Reowned   == [Body EXCEPT !.facts = f2]
Unsourced == [Body EXCEPT !.source = NoSource]

SessionBodies == {Body, Reowned, Unsourced}

OneBody == {Body}

SessionSymmetry ==
  Permutations(Docs) \cup Permutations(Creators) \cup Permutations(Keys)

UploadSymmetry == SessionSymmetry \cup Permutations(Uploaders)
=============================================================================
