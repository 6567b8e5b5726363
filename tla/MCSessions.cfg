\* Three upload sessions: replays, refreshes, races on the idempotency key and
\* on the source, and one request that completes an upload between them.
CONSTANTS
  s1 = s1  g1 = g1  g2 = g2  f1 = f1  f2 = f2  x1 = x1
  Docs = {d1, d2, d3}
  NoDoc = NoDoc
  MaxAttempts = 1
  Lockable = {}
  Digests = {g1}
  NoObject = NoObject
  Creators = {c1, c2, c3}
  Uploaders = {u1}
  Keys = {k1, k2}
  Sources = {s1}
  NoSource = NoSource
  Facts = {f1, f2}
  Extras = {x1}
  Payloads <- SessionBodies
  NoRequest = NoRequest
SPECIFICATION Spec
SYMMETRY SessionSymmetry
INVARIANTS TypeOK SameRequestSameDocument SameSourceSameDocument UrlWritesNoOther
CHECK_DEADLOCK FALSE
