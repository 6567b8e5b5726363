---------------------------- MODULE ServiceProofs ----------------------------
(***************************************************************************)
(* The composition, for any number of documents, requests and scanners:    *)
(* the service implements each component with its environment, so that the *)
(* components' theorems are the service's; and what is served of a         *)
(* document pushed through the API is the version it declares.             *)
(*                                                                         *)
(* The components' invariants together are one of the service: each step   *)
(* of one is a step of the others' environments (StepsCompose), and their  *)
(* own proofs say that those keep their invariants.                        *)
(***************************************************************************)
EXTENDS DocumentService, TLAPS

(* The components again, with what is proved about them.                   *)
UP == INSTANCE UploadProofs
SP == INSTANCE ScannerProofs
RP == INSTANCE RetrievalProofs

-----------------------------------------------------------------------------
(* Upload's invariant is inductive under Upload's steps.                   *)
LEMMA UInductive == UP!IInv /\ [UP!Next]_(UP!vars) => UP!IInv'
  BY NoDocAssumption, MaxAttemptsAssumption, LockableAssumption, NoObjectAssumption,
     PayloadsAssumption, NoSourceAssumption, NoRequestAssumption, UP!Inductive
  DEF U!Payload, U!Request, UP!Payload, UP!Request, Object, UP!Object

(* Scanner's is under Scanner's.                                           *)
LEMMA SInductive == SP!IInv /\ [SP!Next]_(SP!vars) => SP!IInv'
  BY NoDocAssumption, MaxAttemptsAssumption, LockableAssumption, NoObjectAssumption,
     SP!TypedNext, SP!RowConsistentNext, SP!FirstVerdictNext
  DEF Object, SP!Object, SP!IInv

(* Retrieval's is under Retrieval's.                                       *)
LEMMA RInductive == RP!IInv /\ [RP!Next]_(RP!vars) => RP!IInv'
  BY NoDocAssumption, MaxAttemptsAssumption, LockableAssumption, NoObjectAssumption,
     NoDigestAssumption, RP!Inductive
  DEF Object, RP!Object

-----------------------------------------------------------------------------
(* U and UP, S and SP, R and RP are instances of the same modules: their   *)
(* initial states and steps are the same once every name is expanded.      *)
LEMMA UploadSame ==
  /\ U!Init <=> UP!Init
  /\ [U!Next]_(U!vars) <=> [UP!Next]_(UP!vars)
BY DEF
  U!Init, UP!Init, U!UploadInit, UP!UploadInit, U!TableInit, UP!TableInit, U!StoreInit,
  UP!StoreInit, U!vars, UP!vars, U!Next, UP!Next, U!CreateLookup, UP!CreateLookup,
  U!WithKey, UP!WithKey, U!Request, UP!Request, U!Payload, UP!Payload, U!Duplicates,
  UP!Duplicates, U!CreateInsert, UP!CreateInsert, U!Refreshable, UP!Refreshable,
  U!Fresh, UP!Fresh,
  U!InsertRow, UP!InsertRow, U!NoRow, UP!NoRow, U!CreateAnswer, UP!CreateAnswer,
  U!CreateFail, UP!CreateFail, U!PutViaUrl, UP!PutViaUrl, U!PutObject, UP!PutObject,
  U!UrlExpires, UP!UrlExpires, U!Step, UP!Step, U!ContentGet, UP!ContentGet,
  U!ContentPut, UP!ContentPut, U!CompleteGet, UP!CompleteGet, U!CompleteVerify,
  UP!CompleteVerify, U!Verify, UP!Verify, U!Stored, UP!Stored, U!CompleteUpdate,
  UP!CompleteUpdate, U!MarkUploaded, UP!MarkUploaded, U!CompleteLog, UP!CompleteLog,
  U!UploaderAbort, UP!UploaderAbort, U!Scanned, UP!Scanned, U!ScannedRow, UP!ScannedRow,
  U!Claimable, UP!Claimable, U!ClaimRow, UP!ClaimRow, U!Lapsed, UP!Lapsed, U!Recordable,
  UP!Recordable, U!RecordOutcome, UP!RecordOutcome, U!StatusAfter, UP!StatusAfter,
  U!Outcome, UP!Outcome, U!Lock, UP!Lock, U!CreatorNext, UP!CreatorNext, U!UploaderNext,
  UP!UploaderNext, U!UploadNext, UP!UploadNext, U!Environment, UP!Environment,
  U!uploadVars, UP!uploadVars

(* The same of the scanner.                                                *)
LEMMA ScannerSame ==
  /\ S!Init <=> SP!Init
  /\ [S!Next]_(S!vars) <=> [SP!Next]_(SP!vars)
BY DEF
  S!Init, SP!Init, S!ScanInit, SP!ScanInit, S!TableInit, SP!TableInit, S!StoreInit,
  SP!StoreInit, S!vars, SP!vars, S!Next, SP!Next, S!Claim, SP!Claim, S!Candidates,
  SP!Candidates, S!Oldest, SP!Oldest, S!UploadedBefore, SP!UploadedBefore, S!Idle,
  SP!Idle, S!NotRecorded, SP!NotRecorded, S!Scan, SP!Scan, S!Record, SP!Record, S!Log,
  SP!Log, S!Stop, SP!Stop, S!Lapse, SP!Lapse, S!Report, SP!Report, S!ReportLog,
  SP!ReportLog, S!ReportAbort, SP!ReportAbort, S!Register, SP!Register, S!Store,
  SP!Store, S!Uploaded, SP!Uploaded, S!Lock, SP!Lock, S!WorkerNext, SP!WorkerNext,
  S!ReporterNext, SP!ReporterNext, S!ScanNext, SP!ScanNext, S!Environment,
  SP!Environment, S!scanVars, SP!scanVars, S!tableVars, SP!tableVars, S!Stored,
  SP!Stored, S!InsertRow, SP!InsertRow, S!NoRow, SP!NoRow, S!PutObject, SP!PutObject,
  S!MarkUploaded, SP!MarkUploaded, S!Claimable, SP!Claimable, S!ClaimRow, SP!ClaimRow,
  S!Recordable, SP!Recordable, S!RecordOutcome, SP!RecordOutcome, S!StatusAfter,
  SP!StatusAfter, S!Outcome, SP!Outcome

(* The same of the read side.                                              *)
LEMMA RetrievalSame ==
  /\ R!Init <=> RP!Init
  /\ [R!Next]_(R!vars) <=> [RP!Next]_(RP!vars)
BY DEF
  R!Init, RP!Init, R!RetrievalInit, RP!RetrievalInit, R!TableInit, RP!TableInit,
  R!StoreInit, RP!StoreInit, R!vars, RP!vars, R!Next, RP!Next, R!DownloadGet,
  RP!DownloadGet, R!Released, RP!Released, R!DownloadLog, RP!DownloadLog, R!Audit,
  RP!Audit, R!Step, RP!Step, R!DownloadFetch, RP!DownloadFetch, R!Stored, RP!Stored,
  R!EvidenceSelect, RP!EvidenceSelect, R!EvidenceRead, RP!EvidenceRead, R!Columns,
  RP!Columns, R!EvidenceCheck, RP!EvidenceCheck, R!LockedByOthers, RP!LockedByOthers,
  R!HoldsLock, RP!HoldsLock, R!EvidenceCommit, RP!EvidenceCommit, R!OpenGet, RP!OpenGet,
  R!OpenLog, RP!OpenLog, R!OpenStream, RP!OpenStream, R!ReaderAbort, RP!ReaderAbort,
  R!Register, RP!Register, R!InsertRow, RP!InsertRow, R!NoRow, RP!NoRow, R!Store,
  RP!Store, R!PutObject, RP!PutObject, R!Uploaded, RP!Uploaded, R!MarkUploaded,
  RP!MarkUploaded, R!Scanned, RP!Scanned, R!ScannedRow, RP!ScannedRow, R!Claimable,
  RP!Claimable, R!ClaimRow, RP!ClaimRow, R!Lapsed, RP!Lapsed, R!Recordable,
  RP!Recordable, R!RecordOutcome, RP!RecordOutcome, R!StatusAfter, RP!StatusAfter,
  R!Outcome, RP!Outcome, R!ReaderNext, RP!ReaderNext, R!RetrievalNext, RP!RetrievalNext,
  R!Environment, RP!Environment, R!retrievalVars, RP!retrievalVars

-----------------------------------------------------------------------------
(* What a step of the write side can be to the rest of the service.        *)
Registers(d, q) ==
  /\ rows[d].status = "absent" /\ InsertRow(d)
  /\ origin' = [origin EXCEPT ![d] = q]
  /\ UNCHANGED <<uploads, objects>>

Stores(d, b, sha) == PutObject(d, b, sha) /\ UNCHANGED <<rows, uploads, origin>>

Quarantines(d) == Stored(d) /\ MarkUploaded(d) /\ UNCHANGED <<objects, origin>>

(* What a session, a push, a completion or a PUT does to the state that    *)
(* the other components see.                                               *)
LEMMA UploadEffects ==
  ASSUME UP!IInv, U!UploadNext
  PROVE  /\ exposed \subseteq exposed'
         /\ \A d \in Docs : origin[d] # NoRequest => origin'[d] = origin[d]
         /\ UNCHANGED locked
         /\ \/ UNCHANGED <<rows, uploads, objects, origin>>
            \/ \E d \in Docs, q \in U!Request : Registers(d, q)
            \/ \E d \in Docs, b, sha \in Digests : Stores(d, b, sha)
            \/ \E d \in Docs \ locked : Quarantines(d)
<1> USE DEF UP!IInv
<1>1. origin \in [Docs -> U!Request \cup {NoRequest}]
  BY DEF UP!TypeOK, UP!Request, U!Request
<1>2. ASSUME NEW c \in Creators, U!CreateInsert(c)
      PROVE  /\ \A d \in Docs : origin[d] # NoRequest => origin'[d] = origin[d]
             /\ \/ UNCHANGED <<rows, uploads, objects, origin>>
                \/ \E d \in Docs, q \in U!Request : Registers(d, q)
  <2>1. creators[c].request \in U!Request
    BY <1>2 DEF U!CreateInsert, UP!CreatorGood, UP!Request, U!Request
  <2>2. ASSUME NEW d \in Docs \ ids
        PROVE  rows[d].status = "absent" /\ origin[d] = NoRequest
    BY DEF UP!Shared, UP!RowsHaveOrigin
  <2>3. CASE UNCHANGED <<rows, origin>>
    BY <1>2, <2>3 DEF U!CreateInsert
  <2>4. CASE \E d \in Docs \ ids :
               U!InsertRow(d) /\ origin' = [origin EXCEPT ![d] = creators[c].request]
    <3>1. PICK d \in Docs \ ids :
            U!InsertRow(d) /\ origin' = [origin EXCEPT ![d] = creators[c].request]
      BY <2>4
    <3>2. Registers(d, creators[c].request)
      BY <1>2, <2>2, <3>1 DEF U!CreateInsert, Registers, InsertRow, U!InsertRow, NoRow, U!NoRow
    <3> QED  BY <1>1, <2>1, <2>2, <3>1, <3>2
  <2> QED  BY <1>2, <2>3, <2>4 DEF U!CreateInsert, U!Fresh
<1>3. ASSUME NEW c \in Creators, U!CreatorNext(c)
      PROVE  /\ exposed \subseteq exposed' /\ UNCHANGED locked
             /\ U!CreateInsert(c) \/ UNCHANGED <<rows, uploads, objects, origin>>
  BY <1>3 DEF U!CreatorNext, U!CreateLookup, U!CreateInsert, U!CreateAnswer, U!CreateFail
<1>4. ASSUME NEW u \in Uploaders, U!UploaderNext(u)
      PROVE  /\ UNCHANGED <<exposed, locked, origin>>
             /\ \/ UNCHANGED <<rows, uploads, objects>>
                \/ \E d \in Docs, b, sha \in Digests : Stores(d, b, sha)
                \/ \E d \in Docs \ locked : Quarantines(d)
  <2> DEFINE d == uploaders[u].doc
  <2>1. uploaders[u].pc \in {"reading", "verified"} =>
          d \in Docs /\ (uploaders[u].pc = "verified" => objects[d] # NoObject)
    BY DEF UP!UploaderGood, UP!Stored
  <2>2. CASE U!ContentPut(u)
    BY <2>1, <2>2 DEF U!ContentPut, Stores, PutObject, U!PutObject
  <2>3. CASE U!CompleteUpdate(u)
    BY <2>1, <2>3 DEF U!CompleteUpdate, Quarantines, MarkUploaded, U!MarkUploaded, Stored
  <2> QED
    BY <1>4, <2>2, <2>3
    DEF U!UploaderNext, U!ContentGet, U!CompleteGet, U!CompleteVerify, U!CompleteLog,
        U!UploaderAbort
<1>5. CASE U!PutViaUrl
  <2>1. \A u \in urls : u.object \in Docs /\ u.sha256 \in Digests
    BY DEF UP!TypeOK, UP!Url
  <2> QED
    BY <1>5, <2>1 DEF U!PutViaUrl, U!uploadVars, Stores, PutObject, U!PutObject
<1>6. CASE U!UrlExpires
  BY <1>6 DEF U!UrlExpires
<1> QED  BY <1>2, <1>3, <1>4, <1>5, <1>6 DEF U!UploadNext

(* What scanners and scan-result requests do to it.                        *)
LEMMA ScanEffects ==
  ASSUME SP!IInv, S!ScanNext
  PROVE  /\ UNCHANGED <<uploads, locked, objects>>
         /\ UNCHANGED rows \/ \E d \in Docs : ScannedRow(d)
<1> USE DEF SP!IInv, SP!Typed
<1>1. ASSUME NEW w \in Workers, S!WorkerNext(w)
      PROVE  UNCHANGED rows \/ \E d \in Docs : ScannedRow(d)
  <2>1. CASE S!Claim(w)
    BY <2>1 DEF S!Claim, S!Candidates, S!Claimable, S!ClaimRow, ScannedRow, Claimable, ClaimRow
  <2>2. CASE S!Record(w)
    <3>1. workers[w].doc \in Docs /\ workers[w].outcome \in Outcome
      BY <2>2 DEF S!Record, SP!InHand, SP!Outcome, Outcome
    <3> QED
      BY <2>2, <3>1 DEF S!Record, S!Recordable, S!RecordOutcome, S!StatusAfter, ScannedRow,
                        Recordable, RecordOutcome, StatusAfter
  <2> QED  BY <1>1, <2>1, <2>2 DEF S!WorkerNext, S!Scan, S!Log, S!Stop
<1>2. ASSUME NEW d \in Docs, S!Lapse(d)
      PROVE  UNCHANGED rows \/ \E e \in Docs : ScannedRow(e)
  <2>1. CASE rows[d].lease = "live"
    BY <1>2, <2>1 DEF S!Lapse, ScannedRow, Lapsed
  <2>2. CASE rows[d].lease # "live"
    <3>1. rows \in [Docs -> SP!Row]
      BY DEF SP!TypeOK, SP!TableTypeOK
    <3>2. rows' = [rows EXCEPT ![d].lease = rows[d].lease]
      BY <1>2, <2>2 DEF S!Lapse
    <3> QED  BY <3>1, <3>2 DEF SP!Row
  <2> QED  BY <2>1, <2>2
<1>3. ASSUME NEW r \in Reporters, S!ReporterNext(r)
      PROVE  UNCHANGED rows \/ \E d \in Docs : ScannedRow(d)
  BY <1>3 DEF S!ReporterNext, S!Report, S!ReportLog, S!ReportAbort, S!Recordable,
              S!RecordOutcome, S!StatusAfter, S!Outcome, ScannedRow, Recordable, RecordOutcome,
              StatusAfter, Outcome
<1>4. UNCHANGED <<uploads, locked, objects>>
  BY DEF S!ScanNext, S!WorkerNext, S!Claim, S!Scan, S!Record, S!Log, S!Stop, S!Lapse,
         S!ReporterNext, S!Report, S!ReportLog, S!ReportAbort
<1> QED  BY <1>1, <1>2, <1>3, <1>4 DEF S!ScanNext

(* What downloads and evidence checks do to it.                            *)
LEMMA RetrievalEffects ==
  ASSUME RP!IInv, R!RetrievalNext, UNCHANGED declared
  PROVE  UNCHANGED <<rows, uploads, objects>> /\ locked' \subseteq Lockable
<1>1. [RP!Next]_(RP!vars)
  BY RetrievalSame DEF R!Next
<1>2. RP!IInv'
  BY <1>1, RInductive
<1> QED
  BY <1>2 DEF RP!IInv, RP!TypeOK, RP!TableTypeOK, R!RetrievalNext, R!ReaderNext, R!DownloadGet,
              R!DownloadLog, R!DownloadFetch, R!EvidenceSelect, R!EvidenceCheck,
              R!EvidenceCommit, R!OpenGet, R!OpenLog, R!OpenStream, R!ReaderAbort

-----------------------------------------------------------------------------
(* The invariants of the components, together, are one of the service.     *)
Consistent == UP!IInv /\ SP!IInv /\ RP!IInv

(* A step of the write side is a registration, a PUT or a completed upload *)
(* to the scanner and to the read side, or nothing.                        *)
LEMMA UploadStep ==
  ASSUME Consistent, U!UploadNext, UNCHANGED scanVars, UNCHANGED retrievalVars
  PROVE  [SP!Next]_(SP!vars) /\ [RP!Next]_(RP!vars)
<1>1. /\ UNCHANGED <<locked, workers, reporters, scanLog, readers, accessLog>>
      /\ \/ UNCHANGED <<rows, uploads, objects, origin>>
         \/ \E d \in Docs, q \in U!Request : Registers(d, q)
         \/ \E d \in Docs, b, sha \in Digests : Stores(d, b, sha)
         \/ \E d \in Docs \ locked : Quarantines(d)
  BY UploadEffects DEF Consistent, scanVars, retrievalVars
<1>2. CASE UNCHANGED <<rows, uploads, objects, origin>>
  BY <1>1, <1>2 DEF SP!vars, RP!vars, declared
<1>3. ASSUME NEW d \in Docs, NEW q \in U!Request, Registers(d, q)
      PROVE  SP!Register(d) /\ RP!Register(d)
  <2>1. q # NoRequest /\ q.payload.digest \in Digests
    BY PayloadsAssumption, NoRequestAssumption DEF U!Request, U!Payload
  <2>2. origin \in [Docs -> UP!Request \cup {NoRequest}]
    BY DEF Consistent, UP!IInv, UP!TypeOK
  <2>3. declared' = [declared EXCEPT ![d] = q.payload.digest]
    BY <1>3, <2>1, <2>2 DEF Registers, declared
  <2>4. SP!InsertRow(d) /\ RP!InsertRow(d)
    BY <1>3 DEF Registers, InsertRow, NoRow, SP!InsertRow, SP!NoRow, RP!InsertRow, RP!NoRow
  <2> QED
    BY <1>1, <1>3, <2>1, <2>3, <2>4
    DEF Registers, SP!Register, SP!scanVars, RP!Register, RP!retrievalVars
<1>4. ASSUME NEW d \in Docs, NEW b \in Digests, NEW sha \in Digests, Stores(d, b, sha)
      PROVE  SP!Store(d) /\ RP!Store(d)
  <2>1. SP!PutObject(d, b, sha) /\ RP!PutObject(d, b, sha)
    BY <1>4 DEF Stores, PutObject, SP!PutObject, RP!PutObject
  <2> QED
    BY <1>1, <1>4, <2>1
    DEF Stores, SP!Store, SP!tableVars, SP!scanVars, RP!Store, RP!retrievalVars, declared
<1>5. ASSUME NEW d \in Docs \ locked, Quarantines(d)
      PROVE  SP!Uploaded(d) /\ RP!Uploaded(d)
  BY <1>1, <1>5
  DEF Quarantines, Stored, MarkUploaded, SP!Uploaded, SP!Stored, SP!MarkUploaded,
      SP!scanVars, RP!Uploaded, RP!Stored, RP!MarkUploaded, RP!retrievalVars, declared
<1> QED
  BY <1>1, <1>2, <1>3, <1>4, <1>5 DEF SP!Next, SP!Environment, RP!Next, RP!Environment

(* A step of a scanner or a scan-result request is one of the three things *)
(* that may happen to a row, to the API.                                   *)
LEMMA ScannerStep ==
  ASSUME Consistent, S!ScanNext, UNCHANGED uploadVars, UNCHANGED retrievalVars
  PROVE  [UP!Next]_(UP!vars) /\ [RP!Next]_(RP!vars)
<1>1. /\ UNCHANGED <<uploads, locked, objects>>
      /\ UNCHANGED rows \/ \E d \in Docs : ScannedRow(d)
  BY ScanEffects DEF Consistent
<1>2. CASE UNCHANGED rows
  BY <1>1, <1>2 DEF uploadVars, retrievalVars, UP!vars, RP!vars, declared
<1>3. ASSUME NEW d \in Docs, ScannedRow(d)
      PROVE  UP!Scanned(d) /\ RP!Scanned(d)
  <2>1. UP!ScannedRow(d)
    BY <1>3
    DEF ScannedRow, Claimable, ClaimRow, Lapsed, Recordable, RecordOutcome, StatusAfter,
        Outcome, UP!ScannedRow, UP!Claimable, UP!ClaimRow, UP!Lapsed, UP!Recordable,
        UP!RecordOutcome, UP!StatusAfter, UP!Outcome
  <2>2. RP!ScannedRow(d)
    BY <1>3
    DEF ScannedRow, Claimable, ClaimRow, Lapsed, Recordable, RecordOutcome, StatusAfter,
        Outcome, RP!ScannedRow, RP!Claimable, RP!ClaimRow, RP!Lapsed, RP!Recordable,
        RP!RecordOutcome, RP!StatusAfter, RP!Outcome
  <2> QED
    BY <1>1, <2>1, <2>2
    DEF uploadVars, retrievalVars, UP!Scanned, UP!uploadVars, RP!Scanned, RP!retrievalVars,
        declared
<1> QED  BY <1>1, <1>2, <1>3 DEF UP!Next, UP!Environment, RP!Next, RP!Environment

(* A step of the read side takes and drops locks, to the others.           *)
LEMMA RetrievalStep ==
  ASSUME Consistent, R!RetrievalNext, UNCHANGED uploadVars, UNCHANGED scanVars
  PROVE  UP!Next /\ SP!Next
<1>1. UNCHANGED <<rows, uploads, objects>> /\ locked' \subseteq Lockable
  BY RetrievalEffects DEF Consistent, uploadVars, declared
<1>2. UP!Lock
  BY <1>1 DEF UP!Lock, uploadVars, UP!uploadVars
<1>3. SP!Lock
  BY <1>1 DEF SP!Lock, scanVars, SP!scanVars
<1> QED  BY <1>2, <1>3 DEF UP!Next, UP!Environment, SP!Next, SP!Environment

(* Whoever acts, each component sees a step that it allows.                *)
LEMMA StepsCompose ==
  Consistent /\ [Next]_vars =>
    [UP!Next]_(UP!vars) /\ [SP!Next]_(SP!vars) /\ [RP!Next]_(RP!vars)
<1> SUFFICES ASSUME Consistent, [Next]_vars
             PROVE  [UP!Next]_(UP!vars) /\ [SP!Next]_(SP!vars) /\ [RP!Next]_(RP!vars)
  OBVIOUS
<1>1. CASE UNCHANGED scanVars /\ UNCHANGED retrievalVars /\ U!UploadNext
  <2>1. [UP!Next]_(UP!vars)
    BY <1>1, UploadSame DEF U!Next
  <2> QED  BY <1>1, <2>1, UploadStep
<1>2. CASE UNCHANGED uploadVars /\ UNCHANGED retrievalVars /\ S!ScanNext
  <2>1. [SP!Next]_(SP!vars)
    BY <1>2, ScannerSame DEF S!Next
  <2> QED  BY <1>2, <2>1, ScannerStep
<1>3. CASE UNCHANGED uploadVars /\ UNCHANGED scanVars /\ R!RetrievalNext
  <2>1. [RP!Next]_(RP!vars)
    BY <1>3, RetrievalSame DEF R!Next
  <2> QED  BY <1>3, <2>1, RetrievalStep
<1>4. CASE UNCHANGED vars
  BY <1>4 DEF vars, UP!vars, SP!vars, RP!vars, declared
<1> QED  BY <1>1, <1>2, <1>3, <1>4 DEF Next

(* The service begins as each component does.                              *)
LEMMA InitsCompose == Init => UP!Init /\ SP!Init /\ RP!Init
<1> SUFFICES ASSUME Init PROVE UP!Init /\ SP!Init /\ RP!Init
  OBVIOUS
<1>1. declared = [d \in Docs |-> NoDigest]
  BY DEF Init, U!UploadInit, declared
<1>2. TableInit /\ StoreInit /\ U!UploadInit /\ S!ScanInit /\ R!RetrievalInit
  BY DEF Init
<1>3. U!Init
  BY <1>2 DEF U!Init, U!TableInit, U!StoreInit, TableInit, StoreInit, NoRow, U!NoRow
<1>4. S!Init
  BY <1>2 DEF S!Init, S!TableInit, S!StoreInit, TableInit, StoreInit, NoRow, S!NoRow
<1>5. R!Init
  BY <1>1, <1>2 DEF R!Init, R!TableInit, R!StoreInit, TableInit, StoreInit, NoRow, R!NoRow
<1> QED  BY <1>3, <1>4, <1>5, UploadSame, ScannerSame, RetrievalSame

(* The invariants hold at the start.                                       *)
LEMMA ConsistentInit == Init => Consistent
<1>1. UP!Init => UP!IInv
  BY NoDocAssumption, MaxAttemptsAssumption, LockableAssumption, NoObjectAssumption,
     PayloadsAssumption, NoSourceAssumption, NoRequestAssumption, UP!Initially
  DEF U!Payload, U!Request, UP!Payload, UP!Request, Object, UP!Object
<1>2. SP!Init => SP!Typed /\ SP!RowConsistent
  BY NoDocAssumption, MaxAttemptsAssumption, LockableAssumption, NoObjectAssumption,
     SP!TypedInit, SP!InitConsistent
  DEF Object, SP!Object
<1>3. SP!Init => SP!FirstVerdictStands
  BY DEF SP!Init, SP!ScanInit, SP!Idle, SP!FirstVerdictStands, SP!Verdicts
<1>4. RP!Init => RP!IInv
  BY NoDocAssumption, MaxAttemptsAssumption, LockableAssumption, NoObjectAssumption,
     NoDigestAssumption, RP!Initially
  DEF Object, RP!Object
<1> QED  BY <1>1, <1>2, <1>3, <1>4, InitsCompose DEF Consistent, SP!IInv

(* Every step of the service keeps the invariants of all components.       *)
LEMMA ConsistentNext == Consistent /\ [Next]_vars => Consistent'
  BY StepsCompose, UInductive, SInductive, RInductive DEF Consistent

(* The inductive invariant of the service.                                 *)
THEOREM ServiceConsistent == Spec => []Consistent
  BY ConsistentInit, ConsistentNext, PTL DEF Spec

(* What scanners and readers do to rows and locks is what Upload allows    *)
(* its environment.                                                        *)
THEOREM ServiceIsUpload == Spec => IsUpload
<1>1. Init => U!Init
  BY InitsCompose, UploadSame
<1>2. Consistent /\ [Next]_vars => [U!Next]_(U!vars)
  BY StepsCompose, UploadSame
<1> QED  BY <1>1, <1>2, ServiceConsistent, PTL DEF Spec, IsUpload, U!Spec

(* What sessions, PUTs, completions and evidence checks do is what Scanner *)
(* allows its environment.                                                 *)
THEOREM ServiceIsScanner == Spec => IsScanner
<1>1. Init => S!Init
  BY InitsCompose, ScannerSame
<1>2. Consistent /\ [Next]_vars => [S!Next]_(S!vars)
  BY StepsCompose, ScannerSame
<1> QED  BY <1>1, <1>2, ServiceConsistent, PTL DEF Spec, IsScanner, S!Spec

(* What uploads and scanners do is what Retrieval allows its environment:  *)
(* no declared digest changes, and no row under a share lock.              *)
THEOREM ServiceIsRetrieval == Spec => IsRetrieval
<1>1. Init => R!Init
  BY InitsCompose, RetrievalSame
<1>2. Consistent /\ [Next]_vars => [R!Next]_(R!vars)
  BY StepsCompose, RetrievalSame
<1> QED  BY <1>1, <1>2, ServiceConsistent, PTL DEF Spec, IsRetrieval, R!Spec

(* The first verdict of a document stands, in the whole service.           *)
THEOREM ServiceVerdictStands == Spec => []FirstVerdictStands
<1>1. Consistent => FirstVerdictStands
  BY DEF Consistent, SP!IInv, SP!FirstVerdictStands, SP!Verdicts, FirstVerdictStands,
         S!FirstVerdictStands, S!Verdicts
<1> QED  BY <1>1, ServiceConsistent, PTL

(* The components' promises that the runs check on each of them, in the    *)
(* service, where the others are real.                                     *)
Promises ==
  /\ U!QuarantinedIsStored /\ U!OneCompletion /\ U!MediatedBytesAuthentic
  /\ U!SameRequestSameDocument /\ U!SameSourceSameDocument
  /\ S!RowConsistent /\ S!NoneIsStuck
  /\ R!LockedRowStands /\ R!EvidenceStands /\ R!AccessAudited /\ R!LocksAreHeld

(* What is proved of a component in its environment holds in the service:  *)
(* uploads are stored and completed once, sessions are idempotent and      *)
(* deduplicated, rows agree, no document is stuck, checked rows stand and  *)
(* accesses are audited, all at once and over one table.                   *)
THEOREM ServiceKeepsPromises == Spec => []Promises
<1>1. Consistent => U!QuarantinedIsStored /\ U!OneCompletion /\ U!MediatedBytesAuthentic
  <2>1. Consistent => U!QuarantinedIsStored
    BY DEF Consistent, UP!IInv, UP!Shared, UP!RowsHaveOrigin, UP!ObjectsMatch, UP!Declares,
           UP!BegunIsStored, UP!Begun, UP!Stored, U!QuarantinedIsStored, U!Stored
  <2>2. Consistent => U!OneCompletion
    BY DEF Consistent, UP!IInv, UP!OneCompletion, UP!Completed, U!OneCompletion, U!Completed
  <2>3. Consistent => U!MediatedBytesAuthentic
    BY DEF Consistent, UP!IInv, UP!Shared, UP!MediatedBytesAuthentic, UP!Stored,
           U!MediatedBytesAuthentic, U!Stored
  <2> QED  BY <2>1, <2>2, <2>3
<1>2. Consistent => U!SameRequestSameDocument /\ U!SameSourceSameDocument
  <2>1. UP!IInv => UP!SameRequestSameDocument /\ UP!SameSourceSameDocument
    BY NoDocAssumption, MaxAttemptsAssumption, LockableAssumption, NoObjectAssumption,
       PayloadsAssumption, NoSourceAssumption, NoRequestAssumption, UP!Idempotent,
       UP!Deduplicated
    DEF U!Payload, U!Request, UP!Payload, UP!Request, Object, UP!Object
  <2> QED
    BY <2>1 DEF Consistent, UP!SameRequestSameDocument, UP!SameSourceSameDocument, UP!Named,
                U!SameRequestSameDocument, U!SameSourceSameDocument, U!Named
<1>3. Consistent => S!RowConsistent /\ S!NoneIsStuck
  <2>1. SP!Typed /\ SP!RowConsistent => SP!NoneIsStuck
    BY NoDocAssumption, MaxAttemptsAssumption, LockableAssumption, NoObjectAssumption,
       SP!NotStuck
    DEF Object, SP!Object
  <2> QED
    BY <2>1 DEF Consistent, SP!IInv, SP!RowConsistent, SP!NoneIsStuck, SP!Exhausted,
                SP!Claimable, S!RowConsistent, S!NoneIsStuck, S!Exhausted, S!Claimable
<1>4. Consistent => R!LockedRowStands /\ R!EvidenceStands /\ R!AccessAudited /\ R!LocksAreHeld
  BY DEF Consistent, RP!IInv, RP!Good, RP!Holding, RP!Checked, RP!Audited, RP!LocksAreHeld,
         RP!HoldsLock, RP!Columns, R!LockedRowStands, R!EvidenceStands, R!AccessAudited,
         R!LocksAreHeld, R!HoldsLock, R!Columns
<1> QED  BY <1>1, <1>2, <1>3, <1>4, ServiceConsistent, PTL DEF Promises

(* Never more than MaxAttempts scanners are at one document, in the        *)
(* service.                                                                *)
THEOREM ServiceScansWithinBudget == Spec => []S!ScansWithinBudget
<1>1. SP!Init => SP!Budgeted
  BY NoDocAssumption, MaxAttemptsAssumption, LockableAssumption, NoObjectAssumption,
     SP!BudgetInit
  DEF Object, SP!Object
<1>2. Consistent /\ SP!Budgeted /\ [SP!Next]_(SP!vars) => SP!Budgeted'
  BY NoDocAssumption, MaxAttemptsAssumption, LockableAssumption, NoObjectAssumption,
     SP!BudgetNext
  DEF Object, SP!Object, Consistent, SP!IInv
<1>3. SP!Budgeted => S!ScansWithinBudget
  <2>1. ASSUME NEW T PROVE SP!Cardinality(T) = S!Cardinality(T)
    BY Zenon DEF S!Cardinality, SP!Cardinality
  <2> QED  BY <2>1, Zenon DEF SP!Budgeted, SP!WorkersAt, S!ScansWithinBudget
<1> QED  BY <1>1, <1>2, <1>3, InitsCompose, StepsCompose, ServiceConsistent, PTL DEF Spec

(* A presigned URL writes its own document or none, in the service.        *)
THEOREM ServiceUrlsWriteNoOther == Spec => []U!UrlWritesNoOther
<1>1. /\ UP!Init => UP!UrlsOwnOrStray
      /\ UP!IInv /\ UP!UrlsOwnOrStray /\ [UP!Next]_(UP!vars) => UP!UrlsOwnOrStray'
      /\ UP!IInv /\ UP!UrlsOwnOrStray => UP!UrlWritesNoOther
  BY NoDocAssumption, MaxAttemptsAssumption, LockableAssumption, NoObjectAssumption,
     PayloadsAssumption, NoSourceAssumption, NoRequestAssumption, UP!StrayInit,
     UP!StrayNext, UP!StrayWritesNone
  DEF U!Payload, U!Request, UP!Payload, UP!Request, Object, UP!Object
<1>2. UP!UrlWritesNoOther => U!UrlWritesNoOther
  BY DEF UP!UrlWritesNoOther, U!UrlWritesNoOther
<1> QED  BY <1>1, <1>2, InitsCompose, StepsCompose, ServiceConsistent, PTL
         DEF Spec, Consistent

(* Under any sessions, pushes, scanners, scan-result requests and readers  *)
(* at once, every document lives the abstract life.                        *)
THEOREM ServiceImplementsLifecycle == Spec => S!ImplementsLifecycle
<1>1. Init => S!Abstract!Init
  <2>1. Init => rows = [d \in Docs |-> NoRow]
    BY DEF Init, TableInit
  <2> QED  BY <2>1 DEF NoRow, S!Abstract!Init
<1>2. Consistent /\ [Next]_vars => [S!Abstract!Next]_(S!Abstract!vars)
  <2>1. SP!IInv /\ [SP!Next]_(SP!vars) => [SP!Abstract!Next]_(SP!Abstract!vars)
    BY NoDocAssumption, MaxAttemptsAssumption, LockableAssumption, NoObjectAssumption,
       SP!StepRefines
    DEF Object, SP!Object, SP!IInv
  <2>2. [SP!Abstract!Next]_(SP!Abstract!vars) => [S!Abstract!Next]_(S!Abstract!vars)
    BY DEF SP!Abstract!Next, SP!Abstract!vars, SP!Abstract!Register, SP!Abstract!Quarantine,
           SP!Abstract!Settle, SP!Abstract!Try, SP!Abstract!Move,
           S!Abstract!Next, S!Abstract!vars, S!Abstract!Register, S!Abstract!Quarantine,
           S!Abstract!Settle, S!Abstract!Try, S!Abstract!Move
  <2> QED  BY <2>1, <2>2, StepsCompose DEF Consistent
<1> QED  BY <1>1, <1>2, ServiceConsistent, PTL DEF Spec, S!ImplementsLifecycle, S!Abstract!Spec

-----------------------------------------------------------------------------
(* What a reader was served, if no URL of its document was ever answered.  *)
Authentic(r) ==
  readers[r].pc = "served" /\ readers[r].doc \notin exposed =>
    /\ readers[r].served = origin[readers[r].doc].payload.digest
    /\ readers[r].digest # NoDigest => readers[r].served = readers[r].digest

(* A download asks for no version; only a checked one is asked for.        *)
Unasked(r) ==
  readers[r].pc \in {"new", "authorizing", "answered"} => readers[r].digest = NoDigest

Mediated == \A r \in Readers : Authentic(r) /\ Unasked(r)

(* Uploads and scans do not change what was served: the declared digest of *)
(* a released document is fixed, and a key once exposed remains so.        *)
LEMMA ServedStands ==
  ASSUME Consistent, Mediated, NEW r \in Readers, readers'[r] = readers[r],
         exposed \subseteq exposed',
         \A d \in Docs : origin[d] # NoRequest => origin'[d] = origin[d]
  PROVE  (Authentic(r) /\ Unasked(r))'
<1>1. readers[r].pc = "served" =>
        readers[r].doc \in Docs /\ origin[readers[r].doc] # NoRequest
  BY DEF Consistent, RP!IInv, RP!Good, RP!Checked, UP!IInv, UP!Shared, UP!RowsHaveOrigin
<1> QED  BY <1>1 DEF Mediated, Authentic, Unasked

(* A reader is served the object as it is, which for a document that was   *)
(* never exposed is the declared content, and a checked version is that.   *)
LEMMA ReadStep ==
  ASSUME Consistent, Mediated, NEW r \in Readers, R!ReaderNext(r), UNCHANGED uploadVars
  PROVE  Mediated'
<1> DEFINE d == readers[r].doc
<1>1. readers \in [Readers -> RP!Reader]
  BY DEF Consistent, RP!IInv, RP!TypeOK
<1>2. \A q \in Readers \ {r} : readers'[q] = readers[q]
  BY <1>1 DEF R!ReaderNext, R!DownloadGet, R!DownloadLog, R!DownloadFetch, R!EvidenceSelect,
              R!EvidenceRead, R!EvidenceCheck, R!EvidenceCommit, R!OpenGet, R!OpenLog,
              R!OpenStream, R!ReaderAbort, R!Step
<1>3. ASSUME NEW q \in Readers \ {r} PROVE (Authentic(q) /\ Unasked(q))'
  BY <1>2, <1>3, ServedStands DEF uploadVars
<1>4. ASSUME R!DownloadFetch(r) \/ R!OpenStream(r) PROVE (Authentic(r) /\ Unasked(r))'
  <2>1. /\ readers[r].pc \in {"answered", "opening"} /\ objects[d] # NoObject
        /\ readers'[r] = [readers[r] EXCEPT !.pc = "served", !.served = objects[d].bytes]
    BY <1>1, <1>4 DEF R!DownloadFetch, R!OpenStream, R!Stored
  <2>2. d \in Docs /\ (readers[r].pc = "opening" => declared[d] = readers[r].digest)
    BY <2>1 DEF Consistent, RP!IInv, RP!Good, RP!Checked
  <2>3. d \notin exposed => origin[d] # NoRequest /\ objects[d].bytes = origin[d].payload.digest
    BY <2>1, <2>2 DEF Consistent, UP!IInv, UP!Shared, UP!MediatedBytesAuthentic, UP!Stored
  <2>4. readers'[r].pc = "served" /\ readers'[r].doc = d /\ readers'[r].digest = readers[r].digest
        /\ readers'[r].served = objects[d].bytes
    BY <1>1, <2>1 DEF RP!Reader
  <2>5. readers[r].pc = "answered" => readers[r].digest = NoDigest
    BY DEF Mediated, Unasked
  <2> QED  BY <2>1, <2>2, <2>3, <2>4, <2>5 DEF Authentic, Unasked, declared, uploadVars
<1>5. ASSUME NEW pc, R!Step(r, pc)
      PROVE  readers'[r].pc = pc /\ readers'[r].digest = readers[r].digest
  BY <1>1, <1>5 DEF R!Step, RP!Reader
<1>6. ASSUME R!DownloadGet(r) PROVE (Authentic(r) /\ Unasked(r))'
  <2>1. PICK d1 \in Docs, pc \in {"authorizing", "refused"} :
          readers' = [readers EXCEPT ![r].pc = pc, ![r].doc = d1]
    BY <1>6 DEF R!DownloadGet
  <2>2. readers'[r].pc = pc /\ readers'[r].digest = readers[r].digest
    BY <1>1, <2>1 DEF RP!Reader
  <2> QED  BY <1>6, <2>2 DEF R!DownloadGet, Mediated, Authentic, Unasked
<1>7. ASSUME R!DownloadLog(r) PROVE (Authentic(r) /\ Unasked(r))'
  BY <1>5, <1>7 DEF R!DownloadLog, Mediated, Authentic, Unasked
<1>8. ASSUME \E d1 \in Lockable, g \in Digests : R!EvidenceRead(r, d1, g)
      PROVE  (Authentic(r) /\ Unasked(r))'
  <2>1. readers'[r].pc = "checking"
    BY <1>1, <1>8 DEF R!EvidenceRead, RP!Reader
  <2> QED  BY <2>1 DEF Authentic, Unasked
<1>9. ASSUME NEW pc \in {"auditing", "verified", "found", "opening", "refused"}, R!Step(r, pc)
      PROVE  (Authentic(r) /\ Unasked(r))'
  BY <1>5, <1>9 DEF Authentic, Unasked
<1> QED
  <2>1. (Authentic(r) /\ Unasked(r))'
    BY <1>4, <1>6, <1>7, <1>8, <1>9
    DEF R!ReaderNext, R!EvidenceSelect, R!EvidenceCheck, R!EvidenceCommit, R!OpenGet,
        R!OpenLog, R!ReaderAbort
  <2> QED  BY <1>3, <2>1 DEF Mediated

(* No step of the service serves, or makes of what was served, anything    *)
(* but the declared content.                                               *)
LEMMA MediatedNext == Consistent /\ Mediated /\ [Next]_vars => Mediated'
<1> SUFFICES ASSUME Consistent, Mediated, [Next]_vars PROVE Mediated'
  OBVIOUS
<1>1. CASE UNCHANGED readers /\ exposed \subseteq exposed'
           /\ \A d \in Docs : origin[d] # NoRequest => origin'[d] = origin[d]
  <2>1. \A r \in Readers : readers'[r] = readers[r]
    BY <1>1
  <2>2. ASSUME NEW r \in Readers PROVE (Authentic(r) /\ Unasked(r))'
    BY <1>1, <2>1, <2>2, ServedStands
  <2> QED  BY <2>2 DEF Mediated
<1>2. CASE UNCHANGED scanVars /\ UNCHANGED retrievalVars /\ U!UploadNext
  BY <1>1, <1>2, UploadEffects DEF Consistent, retrievalVars
<1>3. CASE UNCHANGED uploadVars /\ UNCHANGED retrievalVars /\ S!ScanNext
  BY <1>1, <1>3 DEF uploadVars, retrievalVars
<1>4. CASE UNCHANGED uploadVars /\ UNCHANGED scanVars /\ R!RetrievalNext
  BY <1>4, ReadStep DEF R!RetrievalNext
<1>5. CASE UNCHANGED vars
  BY <1>1, <1>5 DEF vars
<1> QED  BY <1>2, <1>3, <1>4, <1>5 DEF Next

(* The invariant behind MediatedVersionServed.                             *)
THEOREM ServiceMediated == Spec => []Mediated
<1>1. Init => Mediated
  BY DEF Init, R!RetrievalInit, Mediated, Authentic, Unasked
<1> QED  BY <1>1, MediatedNext, ServiceConsistent, PTL DEF Spec

(* What a reader is served of a document whose upload went through the API *)
(* alone is the version its row declares, and the one that was checked.    *)
THEOREM MediatedVersionAlwaysServed == Spec => []MediatedVersionServed
<1>1. Mediated => MediatedVersionServed
  BY DEF Mediated, Authentic, MediatedVersionServed
<1> QED  BY <1>1, ServiceMediated, PTL
-----------------------------------------------------------------------------
(* The declared content of d was read from the bucket and found clean.     *)
FoundDeclared(d) == <<d, origin[d].payload.digest>> \in cleared

(* A scan-result request reported d clean.                                 *)
Vouched(d) == \E q \in Reporters : reporters[q].doc = d /\ reporters[q].outcome = "clean"

(* A clean outcome in the hands of a scanner is one of the declared content*)
(* of its document.                                                        *)
ScanFound(w) ==
  LET d == workers[w].doc IN
  workers[w].pc = "scanned" /\ workers[w].outcome = "clean" /\ d \notin exposed =>
    origin[d] # NoRequest /\ FoundDeclared(d)

(* So is a clean row, or a scan-result request vouched for it.             *)
ReleaseFound(d) ==
  d \notin exposed /\ rows[d].scan = "clean" => FoundDeclared(d) \/ Vouched(d)

(* A scan-result request has reported nothing before it begins.            *)
Silent(q) == reporters[q].pc = "new" => reporters[q].outcome = "none"

Cleared ==
  /\ \A w \in Workers : ScanFound(w)
  /\ \A d \in Docs : ReleaseFound(d)
  /\ \A q \in Reporters : Silent(q)

(* A released document has a row, and its row was inserted by a request.   *)
LEMMA CleanHasOrigin ==
  ASSUME Consistent, NEW d \in Docs, rows[d].scan = "clean"
  PROVE  rows[d].status = "available" /\ origin[d] # NoRequest
BY DEF Consistent, SP!IInv, SP!RowConsistent, UP!IInv, UP!Shared, UP!RowsHaveOrigin

(* What was found clean stays the declared content of its document while   *)
(* sessions, pushes and PUTs go on: no row becomes clean, no inserted      *)
(* row's declaration changes, and an exposed key remains so.               *)
LEMMA UploadKeepsCleared ==
  ASSUME Consistent, Cleared, U!UploadNext, UNCHANGED scanVars, UNCHANGED cleared
  PROVE  Cleared'
<1>1. /\ exposed \subseteq exposed'
      /\ \A d \in Docs : origin[d] # NoRequest => origin'[d] = origin[d]
      /\ UNCHANGED <<workers, reporters, cleared>>
  BY UploadEffects DEF Consistent, scanVars
<1>2. ASSUME NEW d \in Docs, rows'[d].scan = "clean" PROVE rows[d].scan = "clean"
  <2>1. rows \in [Docs -> UP!Row]
    BY DEF Consistent, UP!IInv, UP!TypeOK, UP!TableTypeOK
  <2>2. CASE UNCHANGED rows
    BY <1>2, <2>2
  <2>3. ASSUME NEW e \in Docs, NEW q \in U!Request, Registers(e, q)
        PROVE  rows[d].scan = "clean"
    BY <1>2, <2>1, <2>3 DEF Registers, InsertRow, NoRow
  <2>4. ASSUME NEW e \in Docs, Quarantines(e)
        PROVE  rows[d].scan = "clean"
    BY <1>2, <2>1, <2>4 DEF Quarantines, MarkUploaded, UP!Row
  <2> QED
    BY <2>2, <2>3, <2>4, UploadEffects DEF Consistent, Stores
<1>3. ASSUME NEW w \in Workers PROVE ScanFound(w)'
  <2>1. workers[w].pc = "scanned" => workers[w].doc \in Docs
    BY DEF Consistent, SP!IInv, SP!Typed, SP!InHand
  <2> QED  BY <1>1, <2>1 DEF Cleared, ScanFound, FoundDeclared
<1>4. ASSUME NEW d \in Docs PROVE ReleaseFound(d)'
  <2>1. Vouched(d)' <=> Vouched(d)
    BY <1>1 DEF Vouched
  <2>2. rows'[d].scan = "clean" => rows[d].scan = "clean" /\ origin'[d] = origin[d]
    BY <1>1, <1>2, CleanHasOrigin
  <2> QED  BY <1>1, <2>1, <2>2 DEF Cleared, ReleaseFound, FoundDeclared
<1>5. ASSUME NEW q \in Reporters PROVE Silent(q)'
  BY <1>1 DEF Cleared, Silent
<1> QED  BY <1>3, <1>4, <1>5 DEF Cleared

(* A step of a scanner: a scan of a document no URL was answered for reads *)
(* the declared content, and only a recorded outcome makes a row clean.    *)
LEMMA WorkerKeepsCleared ==
  ASSUME Consistent, Cleared, NEW w \in Workers, S!WorkerNext(w), UNCHANGED uploadVars,
         cleared' = cleared \cup FoundClean
  PROVE  Cleared'
<1> DEFINE d == workers[w].doc
           o == workers[w].outcome
<1>1. /\ workers \in [Workers -> SP!Worker]
      /\ rows \in [Docs -> SP!Row]
      /\ workers[w].pc # "idle" => d \in Docs
      /\ workers[w].pc = "scanned" => o \in Outcome
  BY DEF Consistent, SP!IInv, SP!Typed, SP!TypeOK, SP!TableTypeOK, SP!InHand, SP!Outcome,
         Outcome
<1>2. UNCHANGED <<origin, exposed, objects, reporters>>
  BY DEF uploadVars, S!WorkerNext, S!Claim, S!Scan, S!Record, S!Log, S!Stop
<1>3. \A e : FoundDeclared(e) => FoundDeclared(e)'
  BY <1>2 DEF FoundDeclared
<1>4. \A e : Vouched(e) <=> Vouched(e)'
  BY <1>2 DEF Vouched
<1>5. \A q \in Reporters : Silent(q)'
  BY <1>2 DEF Cleared, Silent
<1>6. \A v \in Workers \ {w} : workers'[v] = workers[v]
  BY <1>1 DEF S!WorkerNext, S!Claim, S!Scan, S!Record, S!Log, S!Stop
<1>7. ASSUME NEW v \in Workers \ {w} PROVE ScanFound(v)'
  BY <1>2, <1>3, <1>6 DEF Cleared, ScanFound
<1>8. ScanFound(w)'
  <2>1. CASE S!Scan(w)
    <3>1. PICK r \in S!Outcome :
            workers' = [workers EXCEPT ![w].pc = "scanned", ![w].outcome = r]
      BY <2>1 DEF S!Scan
    <3>2. /\ workers'[w].pc = "scanned" /\ workers'[w].outcome = r /\ workers'[w].doc = d
          /\ workers[w].pc = "claimed" /\ objects[d] # NoObject /\ d \in Docs
      BY <1>1, <2>1, <3>1 DEF S!Scan, S!Stored, SP!Worker
    <3>3. r = "clean" => <<d, objects[d].bytes>> \in FoundClean
      BY <3>2 DEF FoundClean
    <3>4. d \notin exposed =>
            origin[d] # NoRequest /\ objects[d].bytes = origin[d].payload.digest
      BY <3>2 DEF Consistent, UP!IInv, UP!Shared, UP!MediatedBytesAuthentic, UP!Stored
    <3> QED  BY <1>2, <3>2, <3>3, <3>4 DEF ScanFound, FoundDeclared
  <2>2. CASE S!Claim(w) \/ S!Record(w) \/ S!Log(w) \/ S!Stop(w)
    <3>1. CASE S!Claim(w)
      BY <1>1, <3>1 DEF S!Claim, S!Idle, ScanFound
    <3>2. CASE S!Record(w)
      BY <1>1, <3>2 DEF S!Record, S!Idle, SP!Worker, ScanFound
    <3>3. CASE S!Log(w) \/ S!Stop(w)
      BY <1>1, <3>3 DEF S!Log, S!Stop, S!Idle, ScanFound
    <3> QED  BY <2>2, <3>1, <3>2, <3>3
  <2> QED  BY <2>1, <2>2 DEF S!WorkerNext
<1>9. ASSUME NEW e \in Docs PROVE ReleaseFound(e)'
  <2>1. CASE rows'[e].scan # "clean" \/ rows'[e].scan = rows[e].scan
    BY <1>2, <1>3, <1>4, <2>1 DEF Cleared, ReleaseFound
  <2>2. CASE S!Claim(w)
    <3>1. PICK c \in Docs : rows' = [rows EXCEPT ![c].scan = "scanning",
                                                  ![c].attempts = @ + 1, ![c].lease = "live"]
      BY <2>2 DEF S!Claim, S!Candidates, S!ClaimRow
    <3> QED  BY <1>1, <2>1, <3>1 DEF SP!Row
  <2>3. CASE S!Record(w)
    <3>1. CASE UNCHANGED rows
      BY <2>1, <3>1
    <3>2. CASE S!RecordOutcome(d, o)
      <4>1. d \in Docs /\ workers[w].pc = "scanned"
        BY <1>1, <2>3 DEF S!Record
      <4>2. e # d => rows'[e] = rows[e]
        BY <1>1, <3>2, <4>1 DEF S!RecordOutcome
      <4>3. rows'[d].scan = o
        BY <1>1, <3>2, <4>1 DEF S!RecordOutcome, SP!Row
      <4>4. o = "clean" /\ d \notin exposed => FoundDeclared(d)
        BY <4>1 DEF Cleared, ScanFound
      <4> QED  BY <1>2, <1>3, <2>1, <4>2, <4>3, <4>4 DEF ReleaseFound
    <3> QED  BY <2>3, <3>1, <3>2 DEF S!Record
  <2>4. CASE S!Scan(w) \/ S!Log(w) \/ S!Stop(w)
    BY <2>1, <2>4 DEF S!Scan, S!Log, S!Stop
  <2> QED  BY <2>2, <2>3, <2>4 DEF S!WorkerNext
<1> QED  BY <1>5, <1>7, <1>8, <1>9 DEF Cleared
(* A step of a scan-result request: it vouches for the row that it makes   *)
(* clean, and what it once reported it has reported.                       *)
LEMMA ReporterKeepsCleared ==
  ASSUME Consistent, Cleared, NEW r \in Reporters, S!ReporterNext(r), UNCHANGED uploadVars,
         cleared' = cleared \cup FoundClean
  PROVE  Cleared'
<1>1. /\ reporters \in [Reporters -> SP!Reporter]
      /\ rows \in [Docs -> SP!Row]
  BY DEF Consistent, SP!IInv, SP!Typed, SP!TypeOK, SP!TableTypeOK
<1>2. UNCHANGED <<origin, exposed, workers>>
  BY DEF uploadVars, S!ReporterNext, S!Report, S!ReportLog, S!ReportAbort
<1>3. \A e : FoundDeclared(e) => FoundDeclared(e)'
  BY <1>2 DEF FoundDeclared
<1>4. \A w \in Workers : ScanFound(w)'
  BY <1>2, <1>3 DEF Cleared, ScanFound
<1>5. CASE \E d \in Docs, o \in S!Outcome :
             /\ S!RecordOutcome(d, o)
             /\ reporters[r].pc = "new"
             /\ reporters' = [reporters EXCEPT ![r] = [pc |-> "logging", doc |-> d, outcome |-> o]]
  <2>1. PICK d \in Docs, o \in S!Outcome :
          /\ S!RecordOutcome(d, o)
          /\ reporters[r].pc = "new"
          /\ reporters' = [reporters EXCEPT ![r] = [pc |-> "logging", doc |-> d, outcome |-> o]]
    BY <1>5
  <2>2. /\ reporters'[r] = [pc |-> "logging", doc |-> d, outcome |-> o]
        /\ \A q \in Reporters \ {r} : reporters'[q] = reporters[q]
    BY <1>1, <2>1
  <2>3. \A e \in Docs : Vouched(e) => Vouched(e)'
    BY <2>1, <2>2 DEF Cleared, Silent, Vouched
  <2>4. /\ rows'[d].scan = o
        /\ \A e \in Docs \ {d} : rows'[e] = rows[e]
    BY <1>1, <2>1 DEF S!RecordOutcome, SP!Row
  <2>5. o = "clean" => Vouched(d)'
    BY <2>2 DEF Vouched
  <2>6. \A e \in Docs : ReleaseFound(e)'
    BY <1>2, <1>3, <2>3, <2>4, <2>5 DEF Cleared, ReleaseFound
  <2>7. \A q \in Reporters : Silent(q)'
    BY <2>2 DEF Cleared, Silent
  <2> QED  BY <1>4, <2>6, <2>7 DEF Cleared
<1>6. CASE UNCHANGED rows /\ \E pc \in {"refused", "accepted"} :
             reporters' = [reporters EXCEPT ![r].pc = pc]
  <2>1. \A q \in Reporters :
          /\ reporters'[q].doc = reporters[q].doc
          /\ reporters'[q].outcome = reporters[q].outcome
          /\ reporters'[q].pc = "new" => reporters[q].pc = "new"
    BY <1>1, <1>6 DEF SP!Reporter
  <2>2. \A e : Vouched(e) => Vouched(e)'
    BY <2>1 DEF Vouched
  <2>3. \A e \in Docs : ReleaseFound(e)'
    BY <1>2, <1>3, <1>6, <2>2 DEF Cleared, ReleaseFound
  <2>4. \A q \in Reporters : Silent(q)'
    BY <2>1 DEF Cleared, Silent
  <2> QED  BY <1>4, <2>3, <2>4 DEF Cleared
<1> QED
  BY <1>5, <1>6 DEF S!ReporterNext, S!Report, S!ReportLog, S!ReportAbort

(* A lease that lapses changes no verdict and no outcome in hand.          *)
LEMMA LapseKeepsCleared ==
  ASSUME Consistent, Cleared, NEW d \in Docs, S!Lapse(d), UNCHANGED uploadVars,
         cleared' = cleared \cup FoundClean
  PROVE  Cleared'
<1>1. /\ workers \in [Workers -> SP!Worker]
      /\ rows \in [Docs -> SP!Row]
  BY DEF Consistent, SP!IInv, SP!Typed, SP!TypeOK, SP!TableTypeOK
<1>2. UNCHANGED <<origin, exposed, reporters>>
  BY DEF uploadVars, S!Lapse
<1>3. \A e : FoundDeclared(e) => FoundDeclared(e)'
  BY <1>2 DEF FoundDeclared
<1>4. \A w \in Workers : /\ workers'[w].pc = workers[w].pc
                         /\ workers'[w].doc = workers[w].doc
                         /\ workers'[w].outcome = workers[w].outcome
  BY <1>1 DEF S!Lapse, SP!Worker
<1>5. \A e \in Docs : rows'[e].scan = rows[e].scan
  <2>1. PICK l : rows' = [rows EXCEPT ![d].lease = l]
    BY DEF S!Lapse
  <2> QED  BY <1>1, <2>1 DEF SP!Row
<1>6. \A w \in Workers : ScanFound(w)'
  BY <1>2, <1>3, <1>4 DEF Cleared, ScanFound
<1>7. \A e \in Docs : ReleaseFound(e)'
  BY <1>2, <1>3, <1>5 DEF Cleared, ReleaseFound, Vouched
<1>8. \A q \in Reporters : Silent(q)'
  BY <1>2 DEF Cleared, Silent
<1> QED  BY <1>6, <1>7, <1>8 DEF Cleared

(* Every step of the service keeps what scans found and releases rest on.  *)
LEMMA ClearedNext == Consistent /\ Cleared /\ [Next]_vars => Cleared'
<1> SUFFICES ASSUME Consistent, Cleared, [Next]_vars PROVE Cleared'
  OBVIOUS
<1>1. CASE UNCHANGED <<rows, origin, exposed, workers, reporters, cleared>>
  <2>1. \A w \in Workers : ScanFound(w)'
    BY <1>1 DEF Cleared, ScanFound, FoundDeclared
  <2>2. \A d \in Docs : ReleaseFound(d)'
    BY <1>1 DEF Cleared, ReleaseFound, FoundDeclared, Vouched
  <2>3. \A q \in Reporters : Silent(q)'
    BY <1>1 DEF Cleared, Silent
  <2> QED  BY <2>1, <2>2, <2>3 DEF Cleared
<1>2. CASE /\ UNCHANGED scanVars /\ UNCHANGED retrievalVars /\ U!UploadNext
           /\ UNCHANGED cleared
  BY <1>2, UploadKeepsCleared
<1>3. CASE /\ UNCHANGED uploadVars /\ UNCHANGED retrievalVars /\ S!ScanNext
           /\ cleared' = cleared \cup FoundClean
  BY <1>3, WorkerKeepsCleared, ReporterKeepsCleared, LapseKeepsCleared DEF S!ScanNext
<1>4. CASE /\ UNCHANGED uploadVars /\ UNCHANGED scanVars /\ R!RetrievalNext
           /\ UNCHANGED cleared
  <2>1. UNCHANGED rows
    BY <1>4, RetrievalEffects DEF Consistent, uploadVars, declared
  <2> QED  BY <1>1, <1>4, <2>1 DEF uploadVars, scanVars
<1>5. CASE UNCHANGED vars
  BY <1>1, <1>5 DEF vars
<1> QED  BY <1>2, <1>3, <1>4, <1>5 DEF Next

(* The invariant behind ServedWasScanned.                                  *)
THEOREM ReleasesRestOnScans == Spec => []Cleared
<1>1. Init => Cleared
  BY DEF Init, TableInit, NoRow, S!ScanInit, S!Idle, S!NotRecorded, Cleared, ScanFound,
         ReleaseFound, Silent
<1> QED  BY <1>1, ClearedNext, ServiceConsistent, PTL DEF Spec

(* What a reader is served of a document whose upload went through the API *)
(* alone, and what an evidence check confirms of it, is content that a     *)
(* scanner read and found clean, unless a scan-result request vouched for  *)
(* the document.                                                           *)
THEOREM ServedWasAlwaysScanned == Spec => []ServedWasScanned
<1>1. ASSUME Consistent, Mediated, Cleared, NEW r \in Readers,
             readers[r].pc \in {"served", "verified"}, readers[r].doc \notin exposed
      PROVE  FoundOrVouched(readers[r].doc, origin[readers[r].doc].payload.digest)
  <2>1. readers[r].doc \in Docs /\ rows[readers[r].doc].status = "available"
    BY <1>1 DEF Consistent, RP!IInv, RP!Good, RP!Checked
  <2>2. rows[readers[r].doc].scan = "clean"
    BY <1>1, <2>1 DEF Consistent, SP!IInv, SP!RowConsistent
  <2> QED  BY <1>1, <2>1, <2>2 DEF Cleared, ReleaseFound, FoundDeclared, Vouched, FoundOrVouched
<1>2. ASSUME Consistent, Mediated, NEW r \in Readers, readers[r].doc \notin exposed
      PROVE  LET x == origin[readers[r].doc].payload.digest IN
             /\ readers[r].pc = "served" => readers[r].served = x
             /\ readers[r].pc = "verified" => readers[r].digest = x
  <2>1. readers[r].pc = "verified" =>
          readers[r].doc \in Docs /\ declared[readers[r].doc] = readers[r].digest
            /\ rows[readers[r].doc].status = "available"
    BY <1>2 DEF Consistent, RP!IInv, RP!Good, RP!Checked
  <2>2. \A d \in Docs : rows[d].status = "available" => declared[d] = origin[d].payload.digest
    BY <1>2 DEF Consistent, UP!IInv, UP!Shared, UP!RowsHaveOrigin, declared
  <2> QED  BY <1>2, <2>1, <2>2 DEF Mediated, Authentic
<1>3. Consistent /\ Mediated /\ Cleared => ServedWasScanned
  BY <1>1, <1>2 DEF ServedWasScanned
<1> QED  BY <1>3, ServiceConsistent, ServiceMediated, ReleasesRestOnScans, PTL
=============================================================================
