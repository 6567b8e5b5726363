\* Two sessions for one body under two keys: the second refreshes the first.
CONSTANTS
  s1 = s1  g1 = g1  g2 = g2  f1 = f1  f2 = f2  x1 = x1
  Docs = {d1, d2}
  NoDoc = NoDoc
  MaxAttempts = 1
  Lockable = {}
  Digests = {g1}
  NoObject = NoObject
  Creators = {c1, c2}
  Uploaders = {}
  Keys = {k1, k2}
  Sources = {s1}
  NoSource = NoSource
  Facts = {f1, f2}
  Extras = {x1}
  Payloads <- OneBody
  NoRequest = NoRequest
SPECIFICATION Spec
INVARIANT UrlWritesItsDocument
CHECK_DEADLOCK FALSE
