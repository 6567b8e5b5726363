\* Two scanners of one document; three attempts, so that both can hold a lease.
CONSTANTS
  Docs = {d1}
  NoDoc = NoDoc
  MaxAttempts = 3
  Digests = {g1}
  NoObject = NoObject
  Workers = {w1, w2}
  Reporters = {}
  Lockable = {}
SPECIFICATION Spec
INVARIANT LeaseExclusive
