\* Two sessions and two completing requests: pushes through the API
\* and PUTs through a presigned URL race to complete one upload.
CONSTANTS
  s1 = s1  g1 = g1  g2 = g2  f1 = f1  f2 = f2  x1 = x1
  Docs = {d1, d2}
  NoDoc = NoDoc
  MaxAttempts = 1
  Lockable = {d1, d2}
  Digests = {g1, g2}
  NoObject = NoObject
  Creators = {c1, c2}
  Uploaders = {u1, u2}
  Keys = {k1, k2}
  Sources = {s1}
  NoSource = NoSource
  Facts = {f1}
  Extras = {x1}
  Payloads <- OneBody
  NoRequest = NoRequest
SPECIFICATION Spec
SYMMETRY UploadSymmetry
INVARIANTS QuarantinedIsStored OneCompletion MediatedBytesAuthentic
PROPERTY ImplementsLifecycle
CHECK_DEADLOCK FALSE
