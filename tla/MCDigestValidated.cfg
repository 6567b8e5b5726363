\* One session and one completion: other bytes are put through the URL.
CONSTANTS
  s1 = s1  g1 = g1  g2 = g2  f1 = f1  f2 = f2  x1 = x1
  Docs = {d1}
  NoDoc = NoDoc
  MaxAttempts = 1
  Lockable = {}
  Digests = {g1, g2}
  NoObject = NoObject
  Creators = {c1}
  Uploaders = {u1}
  Keys = {k1}
  Sources = {s1}
  NoSource = NoSource
  Facts = {f1, f2}
  Extras = {x1}
  Payloads <- OneBody
  NoRequest = NoRequest
SPECIFICATION Spec
INVARIANT DigestValidated
CHECK_DEADLOCK FALSE
