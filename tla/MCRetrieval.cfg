\* Two documents, two versions, two readers.
CONSTANTS
  Docs = {d1, d2}
  NoDoc = NoDoc
  MaxAttempts = 1
  Lockable = {d1, d2}
  Digests = {g1, g2}
  NoObject = NoObject
  Readers = {r1, r2}
  NoDigest = NoDigest
SPECIFICATION Spec
SYMMETRY Symmetry
INVARIANTS TypeOK LockedRowStands EvidenceStands AccessAudited LocksAreHeld
CHECK_DEADLOCK FALSE
