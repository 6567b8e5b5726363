\* One document and two requests that push or complete: one can still hold a
\* body when the other has completed the upload and the document is released.
\* A scanner and a scan-result request, one session, one reader.
CONSTANTS
  s1 = s1  g1 = g1  g2 = g2  f1 = f1  x1 = x1
  Docs = {d1}
  NoDoc = NoDoc
  MaxAttempts = 1
  Lockable = {d1}
  Digests = {g1, g2}
  NoObject = NoObject
  Creators = {c1}
  Uploaders = {u1, u2}
  Keys = {k1}
  Sources = {s1}
  NoSource = NoSource
  Facts = {f1}
  Extras = {x1}
  Payloads <- OneBody
  NoRequest = NoRequest
  Workers = {w1}
  Reporters = {q1}
  Readers = {r1}
  NoDigest = NoDigest
SPECIFICATION Spec
SYMMETRY ServiceSymmetry
INVARIANTS MediatedVersionServed ServedWasScanned FirstVerdictStands
PROPERTIES IsUpload IsScanner IsRetrieval
CHECK_DEADLOCK FALSE
