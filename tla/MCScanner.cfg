\* Two documents, two scanners, two attempts: a lease lapses under a slow
\* scanner while another takes the row over, and one document waits behind the
\* other.  No symmetry (liveness); evidence checks lock one of the two.
CONSTANTS
  Docs = {d1, d2}
  NoDoc = NoDoc
  MaxAttempts = 2
  Digests = {g1}
  NoObject = NoObject
  Workers = {w1, w2}
  Reporters = {}
  Lockable = {d1}
SPECIFICATION FairSpec
INVARIANTS TypeOK RowConsistent FirstVerdictStands ScansWithinBudget NoneIsStuck
PROPERTIES ImplementsLifecycle ScanSettles
