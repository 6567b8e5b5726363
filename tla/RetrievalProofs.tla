--------------------------- MODULE RetrievalProofs ---------------------------
(***************************************************************************)
(* For any number of documents, requests and versions: the read side is    *)
(* type correct, the locks of evidence checks are held and dropped as they *)
(* should, what was checked stands, and nothing is answered unaudited.     *)
(***************************************************************************)
EXTENDS Retrieval, TableProofs, TLAPS

(* The locks in order, seen through what a check has read.                 *)
Holding(r) ==
  /\ readers[r].doc \in Lockable
  /\ readers[r].seen = Columns(rows[readers[r].doc])
  /\ readers[r].seen.status # "absent"
  /\ readers[r].pc = "auditing" => Released(readers[r].seen)

(* What was established about the document of a request, so far.           *)
Checked(r) ==
  /\ readers[r].pc \notin {"new", "refused"} => readers[r].doc \in Docs
  /\ readers[r].pc \in {"auditing", "verified", "found", "opening"} =>
       declared[readers[r].doc] = readers[r].digest
  /\ readers[r].pc \in {"authorizing", "answered", "auditing", "verified",
                        "found", "opening", "served"} =>
       rows[readers[r].doc].status = "available"

(* The events a request has left behind; an object is opened only after    *)
(* the download event, which AccessAudited alone does not say.             *)
Audited(r) ==
  /\ readers[r].pc \in {"verified", "found", "opening"} =>
       <<"evidence_version_checked", r>> \in accessLog
  /\ readers[r].pc = "opening" => <<"case_download_authorized", r>> \in accessLog
  /\ readers[r].pc = "answered" => <<"download_authorized", r>> \in accessLog
  /\ readers[r].pc = "served" =>
       \/ <<"download_authorized", r>> \in accessLog
       \/ /\ <<"evidence_version_checked", r>> \in accessLog
          /\ <<"case_download_authorized", r>> \in accessLog

Good(r) == (HoldsLock(r) => Holding(r)) /\ Checked(r) /\ Audited(r)

IInv == TypeOK /\ LocksAreHeld /\ \A r \in Readers : Good(r)

-----------------------------------------------------------------------------
(* No request has begun, and no row exists.                                *)
LEMMA Initially == Init => IInv
<1> SUFFICES ASSUME Init PROVE IInv
  OBVIOUS
<1>1. NoRow \in Row
  BY MaxAttemptsAssumption DEF NoRow, Row, Status, ScanStatus
<1>2. TableTypeOK /\ StoreTypeOK
  BY <1>1 DEF Init, TableInit, StoreInit, TableTypeOK, StoreTypeOK
<1>3. Columns(NoRow) \in [status : Status, scan : ScanStatus]
  BY DEF Columns, NoRow, Status, ScanStatus
<1>4. \A r \in Readers : readers[r].pc = "new"
  BY DEF Init, RetrievalInit
<1>5. readers \in [Readers -> Reader]
  BY <1>3 DEF Init, RetrievalInit, Reader
<1>6. TypeOK
  BY <1>2, <1>5 DEF Init, RetrievalInit, TypeOK
<1>7. LocksAreHeld
  BY <1>4 DEF Init, TableInit, LocksAreHeld, HoldsLock
<1> QED  BY <1>4, <1>6, <1>7 DEF IInv, Good, HoldsLock, Checked, Audited

-----------------------------------------------------------------------------
(* What a request does leaves the other requests alone.                    *)
LEMMA OthersStay ==
  ASSUME IInv, NEW r \in Readers, NEW x, readers' = [readers EXCEPT ![r] = x],
         UNCHANGED <<rows, declared>>, accessLog \subseteq accessLog',
         NEW q \in Readers \ {r}
  PROVE  Good(q)'
<1>1. readers'[q] = readers[q]
  BY DEF IInv, TypeOK
<1>2. Good(q)
  BY DEF IInv
<1> QED  BY <1>1, <1>2 DEF Good, HoldsLock, Holding, Checked, Audited

(* A request that neither takes nor drops a lock leaves the locks in order.*)
LEMMA LocksStay ==
  ASSUME IInv, NEW r \in Readers, NEW x \in Reader, readers' = [readers EXCEPT ![r] = x],
         x.pc \in {"checking", "auditing"} <=> HoldsLock(r),
         HoldsLock(r) => x.doc = readers[r].doc,
         UNCHANGED locked
  PROVE  LocksAreHeld'
<1>1. \A q \in Readers : HoldsLock(q)' <=> HoldsLock(q)
  BY DEF IInv, TypeOK, HoldsLock
<1>2. \A q \in Readers : HoldsLock(q) => readers'[q].doc = readers[q].doc
  BY DEF IInv, TypeOK
<1> QED  BY <1>1, <1>2 DEF IInv, LocksAreHeld

(* A request that drops its lock leaves the locks of the others.           *)
LEMMA LockDropped ==
  ASSUME IInv, NEW r \in Readers, NEW x \in Reader, readers' = [readers EXCEPT ![r] = x],
         x.pc \notin {"checking", "auditing"},
         locked' = LockedByOthers(r)
  PROVE  LocksAreHeld' /\ locked' \subseteq Lockable
<1>1. \A q \in Readers : HoldsLock(q)' <=> q # r /\ HoldsLock(q)
  BY DEF IInv, TypeOK, HoldsLock
<1>2. \A q \in Readers \ {r} : readers'[q].doc = readers[q].doc
  BY DEF IInv, TypeOK
<1>3. LocksAreHeld'
  BY <1>1, <1>2 DEF LocksAreHeld, LockedByOthers
<1>4. \A q \in Readers : HoldsLock(q) => readers[q].doc \in Lockable
  BY DEF IInv, Good, Holding
<1> QED  BY <1>3, <1>4 DEF LockedByOthers

(* The step of one request, from what it does to that request.             *)
LEMMA ReaderStep ==
  ASSUME IInv, NEW r \in Readers, NEW x \in Reader, readers' = [readers EXCEPT ![r] = x],
         UNCHANGED <<rows, uploads, objects, declared>>,
         locked' \subseteq Lockable, LocksAreHeld',
         accessLog \subseteq accessLog', accessLog' \subseteq Action \X Readers,
         Good(r)'
  PROVE  IInv'
<1>1. \A q \in Readers \ {r} : Good(q)'
  BY OthersStay
<1>2. TypeOK'
  BY DEF IInv, TypeOK, TableTypeOK, StoreTypeOK
<1> QED  BY <1>1, <1>2 DEF IInv

(* A request that only moves on, and may leave an event.                   *)
LEMMA Moves ==
  ASSUME IInv, NEW r \in Readers,
         NEW pc \in {"new", "authorizing", "answered", "checking", "auditing",
                     "verified", "found", "opening", "served", "refused"},
         Step(r, pc)
  PROVE  LET x == [readers[r] EXCEPT !.pc = pc] IN
           /\ x \in Reader /\ readers' = [readers EXCEPT ![r] = x]
           /\ readers'[r] = x
           /\ x.pc = pc /\ x.doc = readers[r].doc /\ x.seen = readers[r].seen
           /\ x.digest = readers[r].digest
<1>1. readers \in [Readers -> Reader]
  BY DEF IInv, TypeOK
<1> QED  BY <1>1 DEF Step, Reader

-----------------------------------------------------------------------------
(* The actions of a request, one lemma each.                               *)
LEMMA DownloadGetKeeps ==
  ASSUME IInv, NEW r \in Readers, DownloadGet(r) PROVE IInv'
<1>1. PICK d \in Docs :
        readers' = [readers EXCEPT
          ![r].pc = IF Released(rows[d]) THEN "authorizing" ELSE "refused",
          ![r].doc = d]
  BY DEF DownloadGet
<1> DEFINE pc == IF Released(rows[d]) THEN "authorizing" ELSE "refused"
           x == [readers[r] EXCEPT !.pc = pc, !.doc = d]
<1>2. readers \in [Readers -> Reader] /\ locked \subseteq Lockable /\ accessLog \subseteq Action \X Readers
  BY DEF IInv, TypeOK, TableTypeOK
<1>3. pc \in {"authorizing", "refused"}
  OBVIOUS
<1>4. /\ x \in Reader /\ readers' = [readers EXCEPT ![r] = x]
      /\ x.pc = pc /\ x.doc = d /\ readers'[r] = x
  BY <1>1, <1>2, <1>3 DEF Reader
<1>5. UNCHANGED <<rows, uploads, locked, objects, declared, accessLog>> /\ readers[r].pc = "new"
  BY DEF DownloadGet
<1>6. LocksAreHeld'
  <2>1. ~HoldsLock(r)
    BY <1>5 DEF HoldsLock
  <2> HIDE DEF x, pc
  <2> QED  BY <1>3, <1>4, <1>5, <2>1, LocksStay
<1>7. pc = "authorizing" => rows[d].status = "available"
  BY DEF Released
<1>8. Good(r)'
  <2> HIDE DEF x, pc
  <2> QED  BY <1>3, <1>4, <1>5, <1>7 DEF Good, HoldsLock, Checked, Audited
<1> QED
  <2> HIDE DEF x, pc
  <2> QED  BY <1>2, <1>4, <1>5, <1>6, <1>8, ReaderStep

(* The download event, then the answer.                                    *)
LEMMA DownloadLogKeeps ==
  ASSUME IInv, NEW r \in Readers, DownloadLog(r) PROVE IInv'
<1> DEFINE x == [readers[r] EXCEPT !.pc = "answered"]
<1>1. /\ x \in Reader /\ readers' = [readers EXCEPT ![r] = x]
      /\ x.pc = "answered" /\ x.doc = readers[r].doc /\ readers'[r] = x
  BY Moves DEF DownloadLog
<1>2. /\ UNCHANGED <<rows, uploads, locked, objects, declared>>
      /\ readers[r].pc = "authorizing"
      /\ accessLog' = accessLog \cup {<<"download_authorized", r>>}
  BY DEF DownloadLog, Audit
<1>3. accessLog' \subseteq Action \X Readers /\ locked \subseteq Lockable /\ Good(r)
  BY <1>2 DEF IInv, TypeOK, TableTypeOK, Action
<1> HIDE DEF x
<1>4. LocksAreHeld'
  <2>1. ~HoldsLock(r)
    BY <1>2 DEF HoldsLock
  <2> QED  BY <1>1, <1>2, <2>1, LocksStay
<1>5. Good(r)'
  BY <1>1, <1>2, <1>3 DEF Good, HoldsLock, Checked, Audited
<1> QED  BY <1>1, <1>2, <1>3, <1>4, <1>5, ReaderStep

(* The object of an answered or opened document is read.                   *)
LEMMA FetchKeeps ==
  ASSUME IInv, NEW r \in Readers, DownloadFetch(r) \/ OpenStream(r) PROVE IInv'
<1> DEFINE x == [readers[r] EXCEPT !.pc = "served", !.served = objects[readers[r].doc].bytes]
<1>1. /\ readers[r].pc \in {"answered", "opening"} /\ Stored(readers[r].doc)
      /\ readers' = [readers EXCEPT ![r].pc = "served",
                                    ![r].served = objects[readers[r].doc].bytes]
      /\ UNCHANGED <<rows, uploads, locked, objects, declared, accessLog>>
  BY DEF DownloadFetch, OpenStream
<1>2. /\ readers \in [Readers -> Reader] /\ locked \subseteq Lockable
      /\ accessLog \subseteq Action \X Readers /\ Good(r)
  BY DEF IInv, TypeOK, TableTypeOK
<1>3. readers[r].doc \in Docs
  BY <1>1, <1>2 DEF Good, Checked
<1>4. objects[readers[r].doc].bytes \in Digests
  BY <1>1, <1>3 DEF IInv, TypeOK, StoreTypeOK, Stored, Object
<1>5. /\ x \in Reader /\ readers' = [readers EXCEPT ![r] = x]
      /\ x.pc = "served" /\ x.doc = readers[r].doc /\ readers'[r] = x
  BY <1>1, <1>2, <1>4 DEF Reader
<1> HIDE DEF x
<1>6. LocksAreHeld'
  <2>1. ~HoldsLock(r)
    BY <1>1 DEF HoldsLock
  <2> QED  BY <1>1, <1>5, <2>1, LocksStay
<1>7. Good(r)'
  BY <1>1, <1>2, <1>5 DEF Good, HoldsLock, Checked, Audited
<1> QED  BY <1>1, <1>2, <1>5, <1>6, <1>7, ReaderStep

(* A check takes its lock and reads the row.                               *)
LEMMA EvidenceSelectKeeps ==
  ASSUME IInv, NEW r \in Readers, NEW d \in Lockable, NEW g \in Digests,
         readers[r].pc = "new", EvidenceRead(r, d, g), locked' = locked \cup {d},
         UNCHANGED <<rows, uploads, objects, declared, accessLog>>
  PROVE  IInv'
<1> DEFINE x == [readers[r] EXCEPT !.pc = "checking", !.doc = d,
                                   !.digest = g, !.seen = Columns(rows[d])]
<1>1. d \in Docs /\ rows \in [Docs -> Row]
  BY LockableAssumption DEF IInv, TypeOK, TableTypeOK
<1>2. /\ readers \in [Readers -> Reader] /\ locked' \subseteq Lockable
      /\ accessLog \subseteq Action \X Readers
  BY DEF IInv, TypeOK, TableTypeOK
<1>3. Columns(rows[d]) \in [status : Status, scan : ScanStatus] /\ Columns(rows[d]).status # "absent"
  BY <1>1 DEF Columns, Row, EvidenceRead
<1>4. /\ x \in Reader /\ readers' = [readers EXCEPT ![r] = x]
      /\ x.pc = "checking" /\ x.doc = d /\ x.seen = Columns(rows[d]) /\ readers'[r] = x
  BY <1>1, <1>2, <1>3 DEF Reader, EvidenceRead
<1> HIDE DEF x
<1>5. LocksAreHeld'
  <2>1. \A q \in Readers : HoldsLock(q)' <=> q = r \/ HoldsLock(q)
    BY <1>2, <1>4 DEF HoldsLock
  <2>2. \A q \in Readers \ {r} : readers'[q].doc = readers[q].doc
    BY <1>2, <1>4
  <2>3. ~HoldsLock(r)
    BY DEF HoldsLock
  <2> QED  BY <1>4, <2>1, <2>2, <2>3 DEF IInv, LocksAreHeld
<1>6. Good(r)'
  BY <1>1, <1>3, <1>4 DEF Good, HoldsLock, Holding, Checked, Audited
<1> QED  BY <1>2, <1>4, <1>5, <1>6, ReaderStep

(* A check that succeeds keeps its lock.                                   *)
LEMMA EvidenceCheckKeeps ==
  ASSUME IInv, NEW r \in Readers, readers[r].pc = "checking",
         Released(readers[r].seen), declared[readers[r].doc] = readers[r].digest,
         Step(r, "auditing"),
         UNCHANGED <<rows, uploads, locked, objects, declared, accessLog>>
  PROVE  IInv'
<1> DEFINE x == [readers[r] EXCEPT !.pc = "auditing"]
<1>1. /\ x \in Reader /\ readers' = [readers EXCEPT ![r] = x] /\ x.pc = "auditing"
      /\ x.doc = readers[r].doc /\ x.seen = readers[r].seen
      /\ x.digest = readers[r].digest /\ readers'[r] = x
  BY Moves
<1>2. /\ accessLog \subseteq Action \X Readers /\ locked \subseteq Lockable /\ Good(r)
  BY DEF IInv, TypeOK, TableTypeOK
<1> HIDE DEF x
<1>3. HoldsLock(r) /\ Holding(r)
  BY <1>2 DEF HoldsLock, Good
<1>4. LocksAreHeld'
  BY <1>1, <1>3, LocksStay
<1>5. rows[readers[r].doc].status = "available"
  BY <1>3 DEF Holding, Released, Columns
<1>6. Good(r)'
  <2>1. Holding(r)'
    BY <1>1, <1>3 DEF Holding
  <2>2. Checked(r)' /\ Audited(r)'
    BY <1>1, <1>2, <1>5 DEF Good, Checked, Audited
  <2> QED  BY <2>1, <2>2 DEF Good
<1> QED  BY <1>1, <1>2, <1>4, <1>6, ReaderStep

(* The event is durable and the lock dropped in one step.                  *)
LEMMA EvidenceCommitKeeps ==
  ASSUME IInv, NEW r \in Readers, EvidenceCommit(r) PROVE IInv'
<1> DEFINE x == [readers[r] EXCEPT !.pc = "verified"]
<1>1. /\ x \in Reader /\ readers' = [readers EXCEPT ![r] = x] /\ x.pc = "verified"
      /\ x.doc = readers[r].doc /\ x.digest = readers[r].digest /\ readers'[r] = x
  BY Moves DEF EvidenceCommit
<1>2. /\ UNCHANGED <<rows, uploads, objects, declared>> /\ readers[r].pc = "auditing"
      /\ accessLog' = accessLog \cup {<<"evidence_version_checked", r>>}
      /\ locked' = LockedByOthers(r)
  BY DEF EvidenceCommit, Audit
<1>3. accessLog' \subseteq Action \X Readers /\ Good(r)
  BY <1>2 DEF IInv, TypeOK, Action
<1> HIDE DEF x
<1>4. LocksAreHeld' /\ locked' \subseteq Lockable
  BY <1>1, <1>2, LockDropped
<1>5. Good(r)'
  BY <1>1, <1>2, <1>3 DEF Good, HoldsLock, Checked, Audited
<1> QED  BY <1>1, <1>2, <1>3, <1>4, <1>5, ReaderStep

(* The second lookup and the download event of a streamed object.          *)
LEMMA OpenKeeps ==
  ASSUME IInv, NEW r \in Readers, OpenGet(r) \/ OpenLog(r) PROVE IInv'
<1>1. PICK pc \in {"found", "opening"} :
        /\ Step(r, pc)
        /\ readers[r].pc \in {"verified", "found"}
        /\ pc = "opening" => <<"case_download_authorized", r>> \in accessLog'
  BY DEF OpenGet, OpenLog, Audit
<1> DEFINE x == [readers[r] EXCEPT !.pc = pc]
<1>2. /\ x \in Reader /\ readers' = [readers EXCEPT ![r] = x] /\ x.pc = pc
      /\ x.doc = readers[r].doc /\ x.digest = readers[r].digest /\ readers'[r] = x
  <2>1. readers \in [Readers -> Reader] /\ readers' = [readers EXCEPT ![r].pc = pc]
    BY <1>1 DEF IInv, TypeOK, Step
  <2> QED  BY <2>1 DEF Reader
<1>3. /\ UNCHANGED <<rows, uploads, locked, objects, declared>>
      /\ accessLog \subseteq accessLog' /\ accessLog' \subseteq Action \X Readers
      /\ locked \subseteq Lockable /\ Good(r)
  BY DEF OpenGet, OpenLog, Audit, IInv, TypeOK, TableTypeOK, Action
<1> HIDE DEF x
<1>4. LocksAreHeld'
  <2>1. ~HoldsLock(r)
    BY <1>1 DEF HoldsLock
  <2> QED  BY <1>1, <1>2, <1>3, <2>1, LocksStay
<1>5. Good(r)'
  BY <1>1, <1>2, <1>3 DEF Good, HoldsLock, Checked, Audited
<1> QED  BY <1>2, <1>3, <1>4, <1>5, ReaderStep

(* A request that is refused drops whatever lock it held.                  *)
LEMMA RefusalKeeps ==
  ASSUME IInv, NEW r \in Readers, Step(r, "refused"), locked' = LockedByOthers(r),
         UNCHANGED <<rows, uploads, objects, declared, accessLog>>
  PROVE  IInv'
<1> DEFINE x == [readers[r] EXCEPT !.pc = "refused"]
<1>1. /\ x \in Reader /\ readers' = [readers EXCEPT ![r] = x] /\ x.pc = "refused"
      /\ readers'[r] = x
  BY Moves
<1>2. accessLog \subseteq Action \X Readers
  BY DEF IInv, TypeOK
<1> HIDE DEF x
<1>3. LocksAreHeld' /\ locked' \subseteq Lockable
  BY <1>1, LockDropped
<1>4. Good(r)'
  BY <1>1 DEF Good, HoldsLock, Checked, Audited
<1> QED  BY <1>1, <1>2, <1>3, <1>4, ReaderStep

(* Without a lock of its own the locks of others are all there are.        *)
LEMMA NoLockToDrop ==
  ASSUME IInv, NEW r \in Readers, ~HoldsLock(r) PROVE locked = LockedByOthers(r)
  BY DEF IInv, LocksAreHeld, LockedByOthers

-----------------------------------------------------------------------------
(* The environment may move a row on, but not out of "available", not      *)
(* while it is locked, and never the digest it declares.                   *)
LEMMA OthersMoveOn ==
  ASSUME IInv, TypeOK', UNCHANGED <<locked, readers, accessLog>>,
         \A d \in Docs : rows[d].status # "absent" => declared'[d] = declared[d],
         \A d \in Docs : rows[d].status = "available" => rows'[d].status = "available",
         \A d \in locked : rows[d].status # "absent" => Columns(rows'[d]) = Columns(rows[d])
  PROVE  IInv'
<1>1. LocksAreHeld'
  BY DEF IInv, LocksAreHeld, HoldsLock
<1>2. ASSUME NEW r \in Readers PROVE Good(r)'
  <2>1. Good(r)
    BY DEF IInv
  <2>2. HoldsLock(r) => readers[r].doc \in locked /\ Holding(r)
    BY <2>1 DEF IInv, LocksAreHeld, Good
  <2>3. HoldsLock(r)' => Holding(r)'
    <3> SUFFICES ASSUME HoldsLock(r) PROVE Holding(r)'
      BY DEF HoldsLock
    <3>1. Columns(rows'[readers[r].doc]) = Columns(rows[readers[r].doc])
      BY <2>2 DEF Holding, Columns
    <3> QED  BY <2>2, <3>1 DEF Holding
  <2>4. Checked(r)'
    <3>1. readers[r].pc = "auditing" => rows[readers[r].doc].status = "available"
      BY <2>1 DEF Good, Checked
    <3>2. readers[r].pc \in {"auditing", "verified", "found", "opening"} =>
            readers[r].doc \in Docs /\ rows[readers[r].doc].status # "absent"
      BY <2>1 DEF Good, Checked
    <3> QED  BY <2>1, <3>2 DEF Good, Checked
  <2>5. Audited(r)'
    BY <2>1 DEF Good, Audited
  <2> QED  BY <2>3, <2>4, <2>5 DEF Good
<1> QED  BY <1>1, <1>2 DEF IInv

(* Uploads and scanners keep to that.                                      *)
LEMMA EnvironmentKeeps ==
  ASSUME IInv, NEW d \in Docs, Register(d) \/ Store(d) \/ Uploaded(d) \/ Scanned(d)
  PROVE  IInv'
<1>1. /\ rows \in [Docs -> Row] /\ declared \in [Docs -> Digests \cup {NoDigest}]
      /\ TypeOK /\ TableTypeOK /\ StoreTypeOK
  BY DEF IInv, TypeOK, TableTypeOK
<1>2. UNCHANGED <<locked, readers, accessLog>>
  BY DEF Register, Store, Uploaded, Scanned, retrievalVars
<1>3. CASE Register(d)
  <2>1. rows' \in [Docs -> Row] /\ declared' \in [Docs -> Digests \cup {NoDigest}]
    BY <1>1, <1>3, InsertRowType DEF Register
  <2>2. TypeOK'
    BY <1>1, <1>2, <1>3, <2>1 DEF Register, TypeOK, TableTypeOK, StoreTypeOK
  <2>3. \A e \in Docs \ {d} : rows'[e] = rows[e] /\ declared'[e] = declared[e]
    BY <1>1, <1>3 DEF Register, InsertRow
  <2>4. rows[d].status = "absent"
    BY <1>3 DEF Register
  <2> QED  BY <1>1, <1>2, <2>2, <2>3, <2>4, LockableAssumption, OthersMoveOn DEF TableTypeOK
<1>4. CASE Store(d)
  <2>1. TypeOK'
    BY <1>1, <1>2, <1>4, PutObjectType DEF Store, TypeOK, TableTypeOK
  <2> QED  BY <1>2, <1>4, <2>1, OthersMoveOn DEF Store
<1>5. CASE Uploaded(d)
  <2>1. TypeOK'
    BY <1>1, <1>2, <1>5, MarkUploadedType DEF Uploaded, TypeOK, TableTypeOK, StoreTypeOK
  <2>2. /\ rows[d].status = "pending_upload" /\ d \notin locked /\ declared' = declared
        /\ \A e \in Docs \ {d} : rows'[e] = rows[e]
    BY <1>1, <1>5 DEF Uploaded, MarkUploaded
  <2> QED  BY <1>1, <1>2, <2>1, <2>2, LockableAssumption, OthersMoveOn DEF TableTypeOK
<1>6. CASE Scanned(d)
  <2>1. CASE Claimable(d) /\ d \notin locked /\ ClaimRow(d)
    <3>1. rows' \in [Docs -> Row]
      BY <1>1, <2>1, ClaimRowType
    <3>2. TypeOK'
      BY <1>1, <1>2, <1>6, <3>1 DEF Scanned, TypeOK, TableTypeOK, StoreTypeOK
    <3>3. /\ rows'[d].status = rows[d].status
          /\ \A e \in Docs \ {d} : rows'[e] = rows[e]
      BY <1>1, <2>1 DEF ClaimRow, Row
    <3> QED  BY <1>1, <1>2, <1>6, <2>1, <3>2, <3>3, LockableAssumption, OthersMoveOn
             DEF TableTypeOK, Scanned
  <2>2. CASE Lapsed(d)
    <3>1. rows' = [rows EXCEPT ![d].lease = "lapsed"]
      BY <2>2 DEF Lapsed
    <3>2. rows' \in [Docs -> Row]
      BY <1>1, <3>1 DEF Row
    <3>3. TypeOK'
      BY <1>1, <1>2, <1>6, <3>2 DEF Scanned, TypeOK, TableTypeOK, StoreTypeOK
    <3>4. \A e \in Docs : rows'[e].status = rows[e].status /\ rows'[e].scan = rows[e].scan
      BY <1>1, <3>1 DEF Row
    <3> QED  BY <1>1, <1>2, <1>6, <3>3, <3>4, LockableAssumption, OthersMoveOn
             DEF TableTypeOK, Scanned, Columns
  <2>3. ASSUME NEW o \in Outcome, Recordable(d), d \notin locked, RecordOutcome(d, o)
        PROVE  IInv'
    <3>1. rows' \in [Docs -> Row]
      BY <1>1, <2>3, RecordOutcomeType
    <3>2. TypeOK'
      BY <1>1, <1>2, <1>6, <3>1 DEF Scanned, TypeOK, TableTypeOK, StoreTypeOK
    <3>3. /\ rows[d].status = "quarantined"
          /\ \A e \in Docs \ {d} : rows'[e] = rows[e]
      BY <1>1, <2>3 DEF RecordOutcome, Recordable
    <3> QED  BY <1>1, <1>2, <1>6, <2>3, <3>2, <3>3, LockableAssumption, OthersMoveOn
             DEF TableTypeOK, Scanned
  <2> QED  BY <1>6, <2>1, <2>2, <2>3 DEF Scanned, ScannedRow
<1> QED  BY <1>3, <1>4, <1>5, <1>6

(* One case per action.                                                    *)
LEMMA Inductive == IInv /\ [Next]_vars => IInv'
<1> SUFFICES ASSUME IInv, [Next]_vars PROVE IInv'
  OBVIOUS
<1>1. ASSUME NEW r \in Readers, ReaderNext(r) PROVE IInv'
  <2>1. CASE DownloadGet(r) \/ DownloadLog(r)
    BY <2>1, DownloadGetKeeps, DownloadLogKeeps
  <2>2. CASE DownloadFetch(r) \/ OpenStream(r)
    BY <2>2, FetchKeeps
  <2>3. CASE EvidenceSelect(r)
    <3>1. CASE Step(r, "refused") /\ UNCHANGED locked
      <4>1. ~HoldsLock(r)
        BY <2>3 DEF EvidenceSelect, HoldsLock
      <4>2. locked' = LockedByOthers(r)
        BY <3>1, <4>1, NoLockToDrop
      <4> QED  BY <2>3, <3>1, <4>2, RefusalKeeps DEF EvidenceSelect
    <3>2. CASE \E d \in Lockable, g \in Digests :
                 EvidenceRead(r, d, g) /\ locked' = locked \cup {d}
      BY <2>3, <3>2, EvidenceSelectKeeps DEF EvidenceSelect
    <3> QED  BY <2>3, <3>1, <3>2 DEF EvidenceSelect
  <2>4. CASE EvidenceCheck(r)
    BY <2>4, EvidenceCheckKeeps, RefusalKeeps DEF EvidenceCheck
  <2>5. CASE EvidenceCommit(r)
    BY <2>5, EvidenceCommitKeeps
  <2>6. CASE OpenGet(r) \/ OpenLog(r)
    BY <2>6, OpenKeeps
  <2>7. CASE ReaderAbort(r)
    BY <2>7, RefusalKeeps DEF ReaderAbort
  <2> QED  BY <1>1, <2>1, <2>2, <2>3, <2>4, <2>5, <2>6, <2>7 DEF ReaderNext
<1>2. ASSUME NEW d \in Docs, Register(d) \/ Store(d) \/ Uploaded(d) \/ Scanned(d)
      PROVE  IInv'
  BY <1>2, EnvironmentKeeps
<1>3. CASE UNCHANGED vars
  BY <1>3 DEF vars, IInv, TypeOK, TableTypeOK, StoreTypeOK, LocksAreHeld, Good,
              HoldsLock, Holding, Checked, Audited
<1> QED  BY <1>1, <1>2, <1>3 DEF Next, RetrievalNext, Environment

-----------------------------------------------------------------------------
(* The inductive invariant of the read side.                               *)
THEOREM ReadSideInvariant == Spec => []IInv
  BY Initially, Inductive, PTL DEF Spec

(* Type correctness of the read side.                                      *)
THEOREM RetrievalTypeCorrect == Spec => []TypeOK
<1>1. IInv => TypeOK
  BY DEF IInv
<1> QED  BY <1>1, ReadSideInvariant, PTL

(* Locks are held by checks in progress and by nothing else.               *)
THEOREM LocksAlwaysHeld == Spec => []LocksAreHeld
<1>1. IInv => LocksAreHeld
  BY DEF IInv
<1> QED  BY <1>1, ReadSideInvariant, PTL

(* Between its SELECT and its commit a check sees the row as it is.        *)
THEOREM LockedRowsStand == Spec => []LockedRowStands
<1>1. IInv => LockedRowStands
  BY DEF IInv, Good, Holding, LockedRowStands
<1> QED  BY <1>1, ReadSideInvariant, PTL

(* What was answered about a version stays true.                           *)
THEOREM EvidenceAlwaysStands == Spec => []EvidenceStands
<1>1. IInv => EvidenceStands
  BY DEF IInv, Good, Checked, EvidenceStands
<1> QED  BY <1>1, ReadSideInvariant, PTL

(* Nothing is answered unaudited.                                          *)
THEOREM AccessAlwaysAudited == Spec => []AccessAudited
<1>1. IInv => AccessAudited
  BY DEF IInv, Good, Audited, AccessAudited
<1> QED  BY <1>1, ReadSideInvariant, PTL
===============================================================================
