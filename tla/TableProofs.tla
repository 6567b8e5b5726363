----------------------------- MODULE TableProofs -----------------------------
(***************************************************************************)
(* Lemmas about the statements of the documents table and the calls of the *)
(* object store, for the proofs about the components that make them.       *)
(***************************************************************************)
EXTENDS ObjectStore, TLAPS

(* Each statement, and each PUT, keeps the type of what it writes.         *)
(* Create's INSERT:                                                        *)
LEMMA InsertRowType ==
  ASSUME TableTypeOK, NEW d \in Docs, InsertRow(d)
  PROVE  rows' \in [Docs -> Row]
  <1>1. [NoRow EXCEPT !.status = "pending_upload"] \in Row
    BY MaxAttemptsAssumption DEF NoRow, Row, Status, ScanStatus
  <1> QED BY <1>1 DEF InsertRow, TableTypeOK

(* The scanner's claim: only a row with attempts left is claimable, so the *)
(* count stays within the budget.                                          *)
LEMMA ClaimRowType ==
  ASSUME TableTypeOK, NEW d \in Docs, Claimable(d), ClaimRow(d)
  PROVE  rows' \in [Docs -> Row]
  <1> USE DEF TableTypeOK, Row
  <1>1. rows[d].attempts + 1 \in 0..MaxAttempts
    BY MaxAttemptsAssumption DEF Claimable
  <1> QED BY <1>1 DEF ClaimRow, ScanStatus

(* RecordScan's UPDATE.                                                    *)
LEMMA RecordOutcomeType ==
  ASSUME TableTypeOK, NEW d \in Docs, NEW o \in Outcome, RecordOutcome(d, o)
  PROVE  rows' \in [Docs -> Row]
  <1>1. StatusAfter(o) \in Status /\ o \in ScanStatus
    BY DEF StatusAfter, Outcome, Status, ScanStatus
  <1>2. PICK s \in Status : s = StatusAfter(o)
    BY <1>1
  <1>3. rows' = [rows EXCEPT ![d].status = s, ![d].scan = o, ![d].lease = "none"]
    BY <1>2 DEF RecordOutcome
  <1> QED BY <1>1, <1>3 DEF TableTypeOK, Row

(* Complete's UPDATE.                                                      *)
LEMMA MarkUploadedType ==
  ASSUME TableTypeOK, NEW d \in Docs, MarkUploaded(d)
  PROVE  rows' \in [Docs -> Row] /\ uploads' \in Seq(Docs)
  <1>1. rows' \in [Docs -> Row]
    BY DEF TableTypeOK, Row, MarkUploaded, Status
  <1>2. uploads' \in Seq(Docs)
    BY DEF TableTypeOK, MarkUploaded
  <1> QED BY <1>1, <1>2

(* A PUT.                                                                  *)
LEMMA PutObjectType ==
  ASSUME StoreTypeOK, NEW d \in Docs, NEW b \in Digests, NEW sha \in Digests,
         PutObject(d, b, sha)
  PROVE  StoreTypeOK'
  BY DEF StoreTypeOK, PutObject, Object
=============================================================================
