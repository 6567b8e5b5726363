\* One scanner, one document: the audit INSERT after the verdict is lost.
CONSTANTS
  Docs = {d1}
  NoDoc = NoDoc
  MaxAttempts = 1
  Digests = {g1}
  NoObject = NoObject
  Workers = {w1}
  Reporters = {}
  Lockable = {}
SPECIFICATION Spec
INVARIANT VerdictHasEvidence
