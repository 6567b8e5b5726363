------------------------------ MODULE Retrieval ------------------------------
(***************************************************************************)
(* The read side of the document API.  A Reader is one request: a download *)
(* session (Download), an evidence check (verifyEvidence and               *)
(* BankAccountEvidence), or an evidence check followed by streaming the    *)
(* object through the API (OpenEvidence and OpenBankAccountEvidence).      *)
(*                                                                         *)
(* A step is one round trip; a request can fail between any two.  An       *)
(* evidence check is one transaction that holds a share lock on its row    *)
(* from its SELECT to its commit.  Uploads and scans are the environment.  *)
(***************************************************************************)
EXTENDS ObjectStore

CONSTANTS Readers, NoDigest

ASSUME NoDigestAssumption == NoDigest \notin Digests

VARIABLES
  declared,   \* the sha256_hex column of each row
  readers,
  accessLog   \* the events the read side appends to document_audit_events

retrievalVars == <<readers, accessLog>>
vars == <<rows, uploads, locked, objects, declared, readers, accessLog>>

(* digest is the version the caller asks for, seen what the SELECT of the  *)
(* evidence check returned, served the content handed to the caller.       *)
Reader == [pc     : {"new", "authorizing", "answered",
                     "checking", "auditing", "verified", "found", "opening",
                     "served", "refused"},
           doc    : Docs \cup {NoDoc},
           digest : Digests \cup {NoDigest},
           seen   : [status : Status, scan : ScanStatus],
           served : Digests \cup {NoDigest}]

Columns(row) == [status |-> row.status, scan |-> row.scan]

Action == {"download_authorized", "evidence_version_checked",
           "case_download_authorized"}

RetrievalInit ==
  /\ readers = [r \in Readers |-> [pc |-> "new", doc |-> NoDoc,
                                   digest |-> NoDigest, seen |-> Columns(NoRow),
                                   served |-> NoDigest]]
  /\ accessLog = {}

Init ==
  /\ TableInit
  /\ StoreInit
  /\ declared = [d \in Docs |-> NoDigest]
  /\ RetrievalInit

(* The type invariant.                                                     *)
TypeOK ==
  /\ TableTypeOK
  /\ StoreTypeOK
  /\ declared \in [Docs -> Digests \cup {NoDigest}]
  /\ readers \in [Readers -> Reader]
  /\ accessLog \subseteq Action \X Readers

Released(row) == row.status = "available" /\ row.scan = "clean"

Step(r, pc) == readers' = [readers EXCEPT ![r].pc = pc]

Audit(action, r) == accessLog' = accessLog \cup {<<action, r>>}

-----------------------------------------------------------------------------
(* Download: get and status check, then the audit event, and only then the *)
(* answer with the presigned GET.                                          *)
DownloadGet(r) ==
  /\ readers[r].pc = "new"
  /\ \E d \in Docs :
       readers' = [readers EXCEPT
         ![r].pc = IF Released(rows[d]) THEN "authorizing" ELSE "refused",
         ![r].doc = d]
  /\ UNCHANGED <<rows, uploads, locked, objects, declared, accessLog>>

DownloadLog(r) ==
  /\ readers[r].pc = "authorizing"
  /\ Audit("download_authorized", r)
  /\ Step(r, "answered")
  /\ UNCHANGED <<rows, uploads, locked, objects, declared>>

(* The client's GET through the presigned URL, while it has not expired.   *)
DownloadFetch(r) ==
  /\ readers[r].pc = "answered"
  /\ Stored(readers[r].doc)
  /\ readers' = [readers EXCEPT ![r].pc = "served",
                                ![r].served = objects[readers[r].doc].bytes]
  /\ UNCHANGED <<rows, uploads, locked, objects, declared, accessLog>>

-----------------------------------------------------------------------------
(* The evidence check.                                                     *)

HoldsLock(r) == readers[r].pc \in {"checking", "auditing"}

(* The rows share-locked once r holds no lock of its own.                  *)
LockedByOthers(r) == {readers[q].doc : q \in {p \in Readers \ {r} : HoldsLock(p)}}

EvidenceRead(r, d, g) ==
  /\ rows[d].status # "absent"
  /\ readers' = [readers EXCEPT ![r].pc = "checking", ![r].doc = d,
                                ![r].digest = g, ![r].seen = Columns(rows[d])]

(* Faulty variant: a SELECT without FOR SHARE.                             *)
EvidenceSelectUnlocked(r) ==
  /\ readers[r].pc = "new"
  /\ \E d \in Lockable, g \in Digests : EvidenceRead(r, d, g)
  /\ UNCHANGED <<rows, uploads, locked, objects, declared, accessLog>>

(* SELECT ... FOR SHARE; or there is no such row for this caller.          *)
EvidenceSelect(r) ==
  /\ readers[r].pc = "new"
  /\ \/ \E d \in Lockable, g \in Digests :
          EvidenceRead(r, d, g) /\ locked' = locked \cup {d}
     \/ Step(r, "refused") /\ UNCHANGED locked
  /\ UNCHANGED <<rows, uploads, objects, declared, accessLog>>

(* Faulty variant: the digest asked for is not compared.                   *)
EvidenceCheckAnyVersion(r) ==
  /\ readers[r].pc = "checking"
  /\ Released(readers[r].seen)
  /\ Step(r, "auditing")
  /\ UNCHANGED <<rows, uploads, locked, objects, declared, accessLog>>

(* The access check, then status and digest of the row read; a failed      *)
(* check rolls the transaction back.                                       *)
EvidenceCheck(r) ==
  /\ readers[r].pc = "checking"
  /\ \/ /\ Released(readers[r].seen)
        /\ declared[readers[r].doc] = readers[r].digest
        /\ Step(r, "auditing")
        /\ UNCHANGED locked
     \/ /\ Step(r, "refused")
        /\ locked' = LockedByOthers(r)
  /\ UNCHANGED <<rows, uploads, objects, declared, accessLog>>

(* The audit event and the commit, which makes it durable, drops the lock  *)
(* and is the answer of the evidence routes.                               *)
EvidenceCommit(r) ==
  /\ readers[r].pc = "auditing"
  /\ Audit("evidence_version_checked", r)
  /\ Step(r, "verified")
  /\ locked' = LockedByOthers(r)
  /\ UNCHANGED <<rows, uploads, objects, declared>>

-----------------------------------------------------------------------------
(* Faulty variant: the object is opened without the download event.        *)
OpenGetUnlogged(r) ==
  /\ readers[r].pc = "verified"
  /\ Step(r, "opening")
  /\ UNCHANGED <<rows, uploads, locked, objects, declared, accessLog>>

(* Streaming: after the check the row is read again, the download is       *)
(* logged, and the object is opened.                                       *)
OpenGet(r) ==
  /\ readers[r].pc = "verified"
  /\ Step(r, "found")
  /\ UNCHANGED <<rows, uploads, locked, objects, declared, accessLog>>

OpenLog(r) ==
  /\ readers[r].pc = "found"
  /\ Audit("case_download_authorized", r)
  /\ Step(r, "opening")
  /\ UNCHANGED <<rows, uploads, locked, objects, declared>>

OpenStream(r) ==
  /\ readers[r].pc = "opening"
  /\ Stored(readers[r].doc)
  /\ readers' = [readers EXCEPT ![r].pc = "served",
                                ![r].served = objects[readers[r].doc].bytes]
  /\ UNCHANGED <<rows, uploads, locked, objects, declared, accessLog>>

(* Faulty variant: no deferred rollback.                                   *)
ReaderAbortNoRollback(r) ==
  /\ readers[r].pc \notin {"new", "served", "refused"}
  /\ Step(r, "refused")
  /\ UNCHANGED <<rows, uploads, locked, objects, declared, accessLog>>

(* A call fails, the client goes away, or a URL expires; an open           *)
(* transaction is rolled back.                                             *)
ReaderAbort(r) ==
  /\ readers[r].pc \notin {"new", "served", "refused"}
  /\ Step(r, "refused")
  /\ locked' = LockedByOthers(r)
  /\ UNCHANGED <<rows, uploads, objects, declared, accessLog>>

-----------------------------------------------------------------------------
(* The environment: uploads register documents, store objects and          *)
(* quarantine uploads; scanners move the rows on.                          *)

Register(d) ==
  /\ rows[d].status = "absent"
  /\ InsertRow(d)
  /\ \E g \in Digests : declared' = [declared EXCEPT ![d] = g]
  /\ UNCHANGED <<uploads, locked, objects>>
  /\ UNCHANGED retrievalVars

Store(d) ==
  /\ \E b, sha \in Digests : PutObject(d, b, sha)
  /\ UNCHANGED <<rows, uploads, locked, declared>>
  /\ UNCHANGED retrievalVars

Uploaded(d) ==
  /\ d \notin locked
  /\ Stored(d)
  /\ MarkUploaded(d)
  /\ UNCHANGED <<locked, objects, declared>>
  /\ UNCHANGED retrievalVars

Scanned(d) ==
  /\ ScannedRow(d)
  /\ UNCHANGED <<uploads, locked, objects, declared>>
  /\ UNCHANGED retrievalVars

-----------------------------------------------------------------------------
ReaderNext(r) ==
  \/ DownloadGet(r) \/ DownloadLog(r) \/ DownloadFetch(r)
  \/ EvidenceSelect(r) \/ EvidenceCheck(r) \/ EvidenceCommit(r)
  \/ OpenGet(r) \/ OpenLog(r) \/ OpenStream(r)
  \/ ReaderAbort(r)

RetrievalNext == \E r \in Readers : ReaderNext(r)

Environment ==
  \E d \in Docs : Register(d) \/ Store(d) \/ Uploaded(d) \/ Scanned(d)

Next == RetrievalNext \/ Environment

Spec == Init /\ [][Next]_vars

-----------------------------------------------------------------------------
(* docs/assessment-evidence-contract.md:26: between its SELECT and its     *)
(* commit an evidence check sees the row as it is, whatever scanners and   *)
(* uploads try meanwhile; the audit event is written of that very state.   *)
LockedRowStands ==
  \A r \in Readers :
    HoldsLock(r) => readers[r].seen = Columns(rows[readers[r].doc])

(* An evidence answer, once given, stays true: the row is released, and it *)
(* declares the digest that was asked for.  The same of an answered        *)
(* download session, whose check holds no lock.                            *)
EvidenceStands ==
  \A r \in Readers :
    /\ readers[r].pc \in {"auditing", "verified", "found", "opening"} =>
         declared[readers[r].doc] = readers[r].digest
    /\ readers[r].pc \in {"authorizing", "answered", "auditing", "verified",
                          "found", "opening", "served"} =>
         rows[readers[r].doc].status = "available"

(* Nothing is answered unaudited: an evidence answer, a presigned GET and  *)
(* a streamed object each follow their event, a streamed object both.      *)
AccessAudited ==
  \A r \in Readers :
    LET logged(a) == <<a, r>> \in accessLog IN
    /\ readers[r].pc \in {"verified", "found", "opening"} =>
         logged("evidence_version_checked")
    /\ readers[r].pc = "answered" => logged("download_authorized")
    /\ readers[r].pc = "served" =>
         \/ logged("download_authorized")
         \/ logged("evidence_version_checked") /\ logged("case_download_authorized")

(* Locks are held by checks in progress and by nothing else: a check that  *)
(* fails or is abandoned leaves no row locked against the scanner, and one *)
(* that ends does not release the row under another.                       *)
LocksAreHeld == locked = {readers[r].doc : r \in {q \in Readers : HoldsLock(q)}}
=============================================================================
