----------------------------- MODULE UploadProofs -----------------------------
(***************************************************************************)
(* For any number of documents, requests, keys and bodies: the write side  *)
(* is type correct, Create is idempotent, an upload is completed once, and *)
(* what is stored is what was declared.                                    *)
(***************************************************************************)
EXTENDS Upload, TableProofs, TLAPS

Begun(d) == rows[d].status \notin {"absent", "pending_upload"}

(* A row and the request it was inserted by exist together, under an id    *)
(* that was generated for it.                                              *)
RowsHaveOrigin ==
  \A d \in Docs :
    /\ rows[d].status = "absent" <=> origin[d] = NoRequest
    /\ origin[d] # NoRequest => d \in ids

(* The two unique indexes.                                                 *)
OriginsUnique ==
  \A d, e \in Docs :
    origin[d] # NoRequest /\ origin[e] # NoRequest =>
      /\ origin[d].key = origin[e].key => d = e
      /\ /\ origin[d].payload.source = origin[e].payload.source
         /\ origin[d].payload.source # NoSource
         /\ origin[d].payload.digest = origin[e].payload.digest
         => d = e

(* A refresh presigns a key that no row has, and none will have: its id is *)
(* spent.                                                                  *)
Declares(d, g) == origin[d] # NoRequest => origin[d].payload.digest = g

UrlsMatch ==
  \A u \in urls :
    u.object \in ids /\ u.object \in exposed /\ Declares(u.object, u.sha256)

ObjectsMatch ==
  \A d \in Docs : Stored(d) => d \in ids /\ Declares(d, objects[d].sha256)

BegunIsStored == \A d \in Docs : Begun(d) => Stored(d)

Shared ==
  /\ RowsHaveOrigin /\ OriginsUnique /\ UrlsMatch /\ ObjectsMatch
  /\ BegunIsStored /\ MediatedBytesAuthentic

(* The document an answer names was inserted by the very request, or by    *)
(* one of the same source and digest.                                      *)
Origin(d, q) ==
  /\ origin[d] # NoRequest
  /\ \/ origin[d].key = q.key /\ origin[d].payload = q.payload
     \/ /\ origin[d].payload.source = q.payload.source
        /\ q.payload.source # NoSource
        /\ origin[d].payload.digest = q.payload.digest

CreatorGood(c) ==
  LET r == creators[c] IN
    /\ r.pc \in {"missed", "found", "committed", "answered"} => r.request \in Request
    /\ Named(c) => r.doc \in Docs /\ Origin(r.doc, r.request)
    /\ r.pc \in {"found", "committed"} =>
         r.object \in ids /\ Declares(r.object, r.request.payload.digest)

UploaderGood(u) ==
  LET r == uploaders[u] IN
    /\ r.pc \notin {"new", "refused"} => r.doc \in Docs /\ origin[r.doc] # NoRequest
    /\ r.pc = "verified" => Stored(r.doc)
    /\ Completed(u) => Begun(r.doc)

IInv ==
  /\ TypeOK /\ Shared /\ OneCompletion
  /\ \A c \in Creators : CreatorGood(c)
  /\ \A u \in Uploaders : UploaderGood(u)

-----------------------------------------------------------------------------
(* No row, no object, no request.                                          *)
LEMMA Initially == Init => IInv
<1> SUFFICES ASSUME Init PROVE IInv
  OBVIOUS
<1> USE DEF Init, TableInit, StoreInit, UploadInit
<1>1. NoRow \in Row /\ NoRow.status = "absent"
  BY MaxAttemptsAssumption DEF NoRow, Row, Status, ScanStatus
<1>2. TableTypeOK /\ StoreTypeOK
  BY <1>1 DEF TableTypeOK, StoreTypeOK
<1>3. creators \in [Creators -> Creator] /\ uploaders \in [Uploaders -> Uploader]
  BY DEF Creator, Uploader
<1>4. TypeOK
  BY <1>2, <1>3 DEF TypeOK
<1>5. Shared
  BY <1>1 DEF Shared, RowsHaveOrigin, OriginsUnique, UrlsMatch, ObjectsMatch,
              BegunIsStored, Begun, MediatedBytesAuthentic, Stored
<1>6. OneCompletion
  BY DEF OneCompletion, Completed
<1>7. \A c \in Creators : CreatorGood(c)
  BY DEF CreatorGood, Named
<1>8. \A u \in Uploaders : UploaderGood(u)
  BY DEF UploaderGood, Completed
<1> QED  BY <1>4, <1>5, <1>6, <1>7, <1>8 DEF IInv

-----------------------------------------------------------------------------
(* A request that does nothing stays good while others register documents. *)
LEMMA CreatorStays ==
  ASSUME IInv, NEW c \in Creators, creators'[c] = creators[c], ids \subseteq ids',
         \A d \in ids : origin'[d] = origin[d]
  PROVE  CreatorGood(c)'
<1>1. CreatorGood(c) /\ RowsHaveOrigin
  BY DEF IInv, Shared
<1>2. Named(c)' <=> Named(c)
  BY DEF Named
<1>3. Named(c) => creators[c].doc \in ids
  BY <1>1 DEF CreatorGood, Origin, RowsHaveOrigin
<1> QED  BY <1>1, <1>2, <1>3 DEF CreatorGood, Origin, Declares

(* The same of a request that pushes or completes.                         *)
LEMMA UploaderStays ==
  ASSUME IInv, NEW u \in Uploaders, uploaders'[u] = uploaders[u],
         \A d \in ids : origin'[d] = origin[d],
         \A d \in Docs : Stored(d) => Stored(d)',
         \A d \in Docs : Begun(d) => Begun(d)'
  PROVE  UploaderGood(u)'
<1>1. UploaderGood(u) /\ RowsHaveOrigin
  BY DEF IInv, Shared
<1>2. Completed(u)' <=> Completed(u)
  BY DEF Completed
<1>3. uploaders[u].pc \notin {"new", "refused"} => uploaders[u].doc \in ids
  BY <1>1 DEF UploaderGood, RowsHaveOrigin
<1>4. Completed(u) => uploaders[u].doc \in Docs
  BY <1>1 DEF UploaderGood, Completed
<1> QED  BY <1>1, <1>2, <1>3, <1>4 DEF UploaderGood

(* A step that touches only one Create request.                            *)
LEMMA CreatorStep ==
  ASSUME IInv, NEW c \in Creators, NEW x \in Creator,
         creators' = [creators EXCEPT ![c] = x], CreatorGood(c)',
         UNCHANGED <<rows, uploads, locked, objects, origin, ids, urls, exposed,
                     uploaders, uploadLog>>
  PROVE  IInv'
<1>1. TypeOK'
  BY DEF IInv, TypeOK, TableTypeOK, StoreTypeOK
<1>2. Shared'
  BY DEF IInv, Shared, RowsHaveOrigin, OriginsUnique, UrlsMatch, ObjectsMatch, Declares,
         BegunIsStored, Begun, MediatedBytesAuthentic, Stored
<1>3. OneCompletion'
  BY DEF IInv, OneCompletion, Completed
<1>4. \A b \in Creators \ {c} : creators'[b] = creators[b]
  BY DEF IInv, TypeOK
<1>5. \A b \in Creators : CreatorGood(b)'
  BY <1>4, CreatorStays
<1>6. \A u \in Uploaders : UploaderGood(u)'
  BY UploaderStays DEF Begun, Stored
<1> QED  BY <1>1, <1>2, <1>3, <1>5, <1>6 DEF IInv

(* A step that touches only one request of the content or complete route.  *)
LEMMA UploaderStep ==
  ASSUME IInv, NEW u \in Uploaders, NEW x \in Uploader,
         uploaders' = [uploaders EXCEPT ![u] = x], UploaderGood(u)',
         x.pc \in {"logging", "accepted"} => Completed(u) /\ x.doc = uploaders[u].doc,
         TypeOK',
         UNCHANGED <<rows, uploads, locked, objects, origin, ids, urls, exposed, creators>>
  PROVE  IInv'
<1>1. Shared'
  BY DEF IInv, Shared, RowsHaveOrigin, OriginsUnique, UrlsMatch, ObjectsMatch, Declares,
         BegunIsStored, Begun, MediatedBytesAuthentic, Stored
<1>2. \A v \in Uploaders \ {u} : uploaders'[v] = uploaders[v]
  BY DEF IInv, TypeOK
<1>3. uploaders'[u] = x
  BY DEF IInv, TypeOK
<1>4. OneCompletion'
  BY <1>2, <1>3 DEF IInv, OneCompletion, Completed
<1>5. \A b \in Creators : CreatorGood(b)'
  BY CreatorStays
<1>6. \A v \in Uploaders : UploaderGood(v)'
  BY <1>2, UploaderStays DEF Begun, Stored
<1> QED  BY <1>1, <1>4, <1>5, <1>6 DEF IInv
-----------------------------------------------------------------------------
(* The lookup finds the row of the key with the same body, or no row.      *)
LEMMA LookupKeeps ==
  ASSUME IInv, NEW c \in Creators, CreateLookup(c) PROVE IInv'
<1>1. UNCHANGED <<rows, uploads, locked, objects, origin, ids, urls, exposed,
                  uploaders, uploadLog>>
  BY DEF CreateLookup
<1>2. creators \in [Creators -> Creator]
  BY DEF IInv, TypeOK
<1>3. PICK q \in Request :
        \/ creators' = [creators EXCEPT ![c].pc = "missed", ![c].request = q]
        \/ creators' = [creators EXCEPT ![c].pc = "refused", ![c].request = q]
        \/ \E e \in WithKey(q.key) :
             /\ origin[e].payload = q.payload
             /\ creators' = [creators EXCEPT ![c] = [pc |-> "found", request |-> q,
                                                     doc |-> e, object |-> e]]
  BY DEF CreateLookup
<1>4. ASSUME NEW pc \in {"missed", "refused"},
             creators' = [creators EXCEPT ![c].pc = pc, ![c].request = q]
      PROVE  IInv'
  <2> DEFINE x == [creators[c] EXCEPT !.pc = pc, !.request = q]
  <2>1. /\ x \in Creator /\ creators' = [creators EXCEPT ![c] = x]
        /\ creators'[c] = x /\ x.pc = pc /\ x.request = q
    BY <1>2, <1>4 DEF Creator
  <2> HIDE DEF x
  <2>2. CreatorGood(c)'
    BY <1>4, <2>1 DEF CreatorGood, Named
  <2> QED  BY <1>1, <2>1, <2>2, CreatorStep
<1>5. ASSUME NEW e \in WithKey(q.key), origin[e].payload = q.payload,
             creators' = [creators EXCEPT ![c] = [pc |-> "found", request |-> q,
                                                  doc |-> e, object |-> e]]
      PROVE  IInv'
  <2> DEFINE x == [pc |-> "found", request |-> q, doc |-> e, object |-> e]
  <2>1. e \in Docs /\ origin[e] # NoRequest /\ origin[e].key = q.key
    BY DEF WithKey
  <2>2. x \in Creator /\ creators'[c] = x
    BY <1>2, <1>5, <2>1 DEF Creator
  <2>3. e \in ids
    BY <2>1 DEF IInv, Shared, RowsHaveOrigin
  <2>4. Origin(e, q)' /\ Declares(e, q.payload.digest)'
    BY <1>1, <1>5, <2>1 DEF Origin, Declares
  <2>5. CreatorGood(c)'
    BY <1>1, <2>1, <2>2, <2>3, <2>4 DEF CreatorGood, Named
  <2> QED  BY <1>1, <1>5, <2>2, <2>5, CreatorStep
<1> QED  BY <1>3, <1>4, <1>5

(* A request that gives up.                                                *)
LEMMA CreatorFails ==
  ASSUME IInv, NEW c \in Creators, creators' = [creators EXCEPT ![c].pc = "refused"],
         UNCHANGED <<rows, uploads, locked, objects, origin, ids, urls, exposed,
                     uploaders, uploadLog>>
  PROVE  IInv'
<1> DEFINE x == [creators[c] EXCEPT !.pc = "refused"]
<1>1. creators \in [Creators -> Creator]
  BY DEF IInv, TypeOK
<1>2. /\ x \in Creator /\ creators' = [creators EXCEPT ![c] = x]
      /\ creators'[c] = x /\ x.pc = "refused"
  BY <1>1 DEF Creator
<1> HIDE DEF x
<1>3. CreatorGood(c)'
  BY <1>2 DEF CreatorGood, Named
<1> QED  BY <1>2, <1>3, CreatorStep

(* An id is spent, whether or not a row is inserted under it.              *)
LEMMA SpendsId ==
  ASSUME IInv, NEW c \in Creators, NEW x \in Creator,
         creators' = [creators EXCEPT ![c] = x], CreatorGood(c)', ids \subseteq ids',
         TypeOK', RowsHaveOrigin', OriginsUnique',
         \A d \in ids : origin'[d] = origin[d],
         \A d \in Docs : Begun(d)' <=> Begun(d),
         UNCHANGED <<objects, urls, exposed, uploaders>>
  PROVE  IInv'
<1>1. /\ RowsHaveOrigin /\ UrlsMatch /\ ObjectsMatch /\ BegunIsStored
      /\ MediatedBytesAuthentic /\ TypeOK
  BY DEF IInv, Shared
<1>2. UrlsMatch'
  BY <1>1 DEF UrlsMatch, Declares
<1>3. ObjectsMatch'
  BY <1>1 DEF ObjectsMatch, Declares, Stored
<1>4. BegunIsStored'
  BY <1>1 DEF BegunIsStored, Stored
<1>5. MediatedBytesAuthentic'
  BY <1>1 DEF MediatedBytesAuthentic, ObjectsMatch, Stored
<1>6. OneCompletion'
  BY DEF IInv, OneCompletion, Completed
<1>7. \A b \in Creators \ {c} : creators'[b] = creators[b]
  BY <1>1 DEF TypeOK
<1>8. \A b \in Creators : CreatorGood(b)'
  BY <1>7, CreatorStays
<1>9. \A u \in Uploaders : UploaderGood(u)'
  BY UploaderStays DEF Stored
<1> QED  BY <1>2, <1>3, <1>4, <1>5, <1>6, <1>8, <1>9 DEF IInv, Shared

(* The transaction of Create: insert, refresh, or neither.                 *)
LEMMA InsertKeeps ==
  ASSUME IInv, NEW c \in Creators, CreateInsert(c) PROVE IInv'
<1> DEFINE q == creators[c].request
           duplicates == Duplicates(q.payload)
<1>1. /\ creators \in [Creators -> Creator] /\ TypeOK /\ TableTypeOK
      /\ RowsHaveOrigin /\ OriginsUnique
      /\ creators[c].pc = "missed" /\ q \in Request
      /\ UNCHANGED <<uploads, locked, objects, urls, exposed, uploaders>>
  BY DEF IInv, TypeOK, Shared, CreatorGood, CreateInsert
<1>2. PICK d \in Fresh :
       /\ ids' = ids \cup {d}
       /\ \/ /\ duplicates = {}
             /\ WithKey(q.key) = {}
             /\ InsertRow(d)
             /\ origin' = [origin EXCEPT ![d] = q]
             /\ uploadLog' = uploadLog \cup {<<"upload_authorized", d>>}
             /\ creators' = [creators EXCEPT ![c].pc = "committed",
                                             ![c].doc = d, ![c].object = d]
          \/ \E e \in duplicates :
               /\ Refreshable(e, q.payload)
               /\ uploadLog' = uploadLog \cup {<<"upload_authorized", e>>}
               /\ creators' = [creators EXCEPT ![c].pc = "committed",
                                               ![c].doc = e, ![c].object = d]
               /\ UNCHANGED <<rows, origin>>
          \/ /\ creators' = [creators EXCEPT ![c].pc = "refused"]
             /\ UNCHANGED <<rows, origin, uploadLog>>
  BY DEF CreateInsert
<1> d \in Docs \ ids
  BY DEF Fresh
<1>3. origin[d] = NoRequest /\ rows[d].status = "absent" /\ ids' \subseteq Docs
  BY <1>1, <1>2 DEF RowsHaveOrigin, TypeOK
<1>4. CASE /\ duplicates = {}
           /\ WithKey(q.key) = {}
           /\ InsertRow(d)
           /\ origin' = [origin EXCEPT ![d] = q]
           /\ uploadLog' = uploadLog \cup {<<"upload_authorized", d>>}
           /\ creators' = [creators EXCEPT ![c].pc = "committed",
                                           ![c].doc = d, ![c].object = d]
  <2> DEFINE x == [creators[c] EXCEPT !.pc = "committed", !.doc = d, !.object = d]
  <2>1. /\ x \in Creator /\ creators' = [creators EXCEPT ![c] = x] /\ creators'[c] = x
        /\ x.pc = "committed" /\ x.doc = d /\ x.object = d /\ x.request = q
    BY <1>1, <1>4 DEF Creator
  <2> HIDE DEF x
  <2>2. origin' \in [Docs -> Request \cup {NoRequest}] /\ origin'[d] = q
    BY <1>1, <1>4 DEF TypeOK
  <2>3. rows' \in [Docs -> Row]
    BY <1>1, <1>4, InsertRowType
  <2>4. rows'[d].status = "pending_upload" /\ \A e \in Docs \ {d} : rows'[e] = rows[e]
    BY <1>1, <1>4 DEF InsertRow, TableTypeOK, NoRow
  <2>5. \A e \in Docs \ {d} : origin'[e] = origin[e]
    BY <1>1, <1>4 DEF TypeOK
  <2>6. q # NoRequest
    BY <1>1, NoRequestAssumption
  <2>7. TypeOK'
    <3>1. uploadLog' \subseteq {"upload_authorized", "upload_verified_quarantined"} \X Docs
      BY <1>1, <1>4 DEF TypeOK
    <3>2. creators' \in [Creators -> Creator]
      BY <1>1, <2>1
    <3> QED  BY <1>1, <1>3, <2>2, <2>3, <3>1, <3>2 DEF TypeOK, TableTypeOK, StoreTypeOK
  <2>8. RowsHaveOrigin'
    BY <1>1, <1>2, <2>2, <2>4, <2>5, <2>6 DEF RowsHaveOrigin
  <2>9. OriginsUnique'
    <3>1. \A e \in Docs : origin[e] # NoRequest => origin[e].key # q.key
      BY <1>4 DEF WithKey
    <3>2. \A e \in Docs : origin[e] # NoRequest =>
            \/ origin[e].payload.source # q.payload.source
            \/ q.payload.source = NoSource
            \/ origin[e].payload.digest # q.payload.digest
      BY <1>4 DEF Duplicates
    <3> QED  BY <1>1, <2>2, <2>5, <3>1, <3>2 DEF OriginsUnique
  <2>10. CreatorGood(c)'
    <3>1. Origin(d, q)' /\ Declares(d, q.payload.digest)'
      BY <2>1, <2>2, <2>6 DEF Origin, Declares
    <3> QED  BY <1>1, <1>2, <2>1, <3>1 DEF CreatorGood
  <2>11. \A e \in Docs : Begun(e)' <=> Begun(e)
    BY <1>3, <2>4 DEF Begun
  <2>12. ids \subseteq ids' /\ \A e \in ids : origin'[e] = origin[e]
    BY <1>1, <1>2, <2>5 DEF TypeOK
  <2> QED  BY <1>1, <2>1, <2>7, <2>8, <2>9, <2>10, <2>11, <2>12, SpendsId
<1>5. ASSUME UNCHANGED <<rows, origin>>, NEW x \in Creator, CreatorGood(c)',
             creators' = [creators EXCEPT ![c] = x],
             uploadLog' \subseteq {"upload_authorized", "upload_verified_quarantined"} \X Docs
      PROVE  IInv'
  <2>1. TypeOK'
    BY <1>1, <1>3, <1>5 DEF TypeOK, TableTypeOK, StoreTypeOK
  <2>2. RowsHaveOrigin' /\ OriginsUnique'
    BY <1>1, <1>2, <1>5 DEF RowsHaveOrigin, OriginsUnique
  <2>3. \A e \in Docs : Begun(e)' <=> Begun(e)
    BY <1>5 DEF Begun
  <2> QED  BY <1>1, <1>2, <1>5, <2>1, <2>2, <2>3, SpendsId
<1>6. ASSUME NEW e \in duplicates, UNCHANGED <<rows, origin>>,
             uploadLog' = uploadLog \cup {<<"upload_authorized", e>>},
             creators' = [creators EXCEPT ![c].pc = "committed",
                                          ![c].doc = e, ![c].object = d]
      PROVE  IInv'
  <2> DEFINE x == [creators[c] EXCEPT !.pc = "committed", !.doc = e, !.object = d]
  <2>1. /\ e \in Docs /\ origin[e] # NoRequest
        /\ origin[e].payload.source = q.payload.source
        /\ q.payload.source # NoSource
        /\ origin[e].payload.digest = q.payload.digest
    BY DEF Duplicates
  <2>2. /\ x \in Creator /\ creators' = [creators EXCEPT ![c] = x] /\ creators'[c] = x
        /\ x.pc = "committed" /\ x.doc = e /\ x.object = d /\ x.request = q
    BY <1>1, <1>6, <2>1 DEF Creator
  <2> HIDE DEF x
  <2>3. Origin(e, q)' /\ Declares(d, q.payload.digest)'
    BY <1>3, <1>6, <2>1, <2>2 DEF Origin, Declares
  <2>4. CreatorGood(c)'
    BY <1>1, <1>2, <2>1, <2>2, <2>3 DEF CreatorGood
  <2>5. uploadLog' \subseteq {"upload_authorized", "upload_verified_quarantined"} \X Docs
    BY <1>1, <1>6, <2>1 DEF TypeOK
  <2> QED  BY <1>5, <1>6, <2>2, <2>4, <2>5
<1>7. CASE /\ creators' = [creators EXCEPT ![c].pc = "refused"]
           /\ UNCHANGED <<rows, origin, uploadLog>>
  <2> DEFINE x == [creators[c] EXCEPT !.pc = "refused"]
  <2>1. /\ x \in Creator /\ creators' = [creators EXCEPT ![c] = x]
        /\ creators'[c] = x /\ x.pc = "refused"
    BY <1>1, <1>7 DEF Creator
  <2> HIDE DEF x
  <2>2. CreatorGood(c)'
    BY <2>1 DEF CreatorGood, Named
  <2>3. uploadLog' \subseteq {"upload_authorized", "upload_verified_quarantined"} \X Docs
    BY <1>1, <1>7 DEF TypeOK
  <2> QED  BY <1>5, <1>7, <2>1, <2>2, <2>3
<1> QED  BY <1>2, <1>4, <1>6, <1>7

(* A URL is answered for the key that was presigned.                       *)
LEMMA AnswerKeeps ==
  ASSUME IInv, NEW c \in Creators, CreateAnswer(c) PROVE IInv'
<1>1. /\ creators \in [Creators -> Creator] /\ TypeOK
      /\ creators[c].pc \in {"found", "committed"} /\ CreatorGood(c)
      /\ UNCHANGED <<rows, uploads, locked, objects, origin, ids, uploaders, uploadLog>>
  BY DEF IInv, TypeOK, CreateAnswer
<1>2. /\ creators[c].request \in Request
      /\ creators[c].doc \in Docs /\ Origin(creators[c].doc, creators[c].request)
      /\ creators[c].object \in ids
      /\ Declares(creators[c].object, creators[c].request.payload.digest)
  BY <1>1 DEF CreatorGood, Named
<1>3. ids \subseteq Docs
  BY <1>1 DEF TypeOK
<1>4. CASE /\ urls' = urls \cup {[object |-> creators[c].object,
                                  sha256 |-> creators[c].request.payload.digest]}
           /\ exposed' = exposed \cup {creators[c].object}
           /\ creators' = [creators EXCEPT ![c].pc = "answered"]
  <2> DEFINE x == [creators[c] EXCEPT !.pc = "answered"]
             url == [object |-> creators[c].object,
                     sha256 |-> creators[c].request.payload.digest]
  <2>1. /\ x \in Creator /\ creators' = [creators EXCEPT ![c] = x] /\ creators'[c] = x
        /\ x.pc = "answered" /\ x.doc = creators[c].doc /\ x.request = creators[c].request
    BY <1>1, <1>4 DEF Creator
  <2>2. url \in Url /\ url.object = creators[c].object
        /\ url.sha256 = creators[c].request.payload.digest
    <3>1. creators[c].request.payload \in Payload
      BY <1>2, PayloadsAssumption DEF Request
    <3>2. creators[c].request.payload.digest \in Digests
      BY <3>1 DEF Payload
    <3> QED  BY <1>2, <1>3, <3>2 DEF Url
  <2>3. urls' = urls \cup {url}
    BY <1>4
  <2> HIDE DEF x, url
  <2>4. TypeOK'
    <3>1. creators' \in [Creators -> Creator]
      BY <1>1, <2>1
    <3> QED  BY <1>1, <1>2, <1>3, <1>4, <2>2, <2>3, <3>1 DEF TypeOK, TableTypeOK, StoreTypeOK
  <2>5. Shared'
    <3>1. UrlsMatch'
      BY <1>1, <1>2, <1>4, <2>2, <2>3 DEF IInv, Shared, UrlsMatch, Declares
    <3>2. MediatedBytesAuthentic'
      BY <1>1, <1>4 DEF IInv, Shared, MediatedBytesAuthentic, Stored
    <3> QED  BY <1>1, <3>1, <3>2
             DEF IInv, Shared, RowsHaveOrigin, OriginsUnique, ObjectsMatch, Declares,
                 BegunIsStored, Begun, Stored
  <2>6. OneCompletion'
    BY <1>1 DEF IInv, OneCompletion, Completed
  <2>7. \A b \in Creators \ {c} : creators'[b] = creators[b]
    BY <1>1, <2>1
  <2>8. CreatorGood(c)'
    BY <1>1, <1>2, <2>1 DEF CreatorGood, Origin
  <2>9. \A b \in Creators : CreatorGood(b)'
    BY <1>1, <2>7, <2>8, CreatorStays
  <2>10. \A u \in Uploaders : UploaderGood(u)'
    BY <1>1, UploaderStays DEF Begun, Stored
  <2> QED  BY <2>4, <2>5, <2>6, <2>9, <2>10 DEF IInv
<1>5. CASE /\ creators' = [creators EXCEPT ![c].pc = "answered", ![c].object = NoDoc]
           /\ UNCHANGED <<urls, exposed>>
  <2> DEFINE x == [creators[c] EXCEPT !.pc = "answered", !.object = NoDoc]
  <2>1. /\ x \in Creator /\ creators' = [creators EXCEPT ![c] = x] /\ creators'[c] = x
        /\ x.pc = "answered" /\ x.doc = creators[c].doc /\ x.request = creators[c].request
    BY <1>1, <1>5 DEF Creator
  <2> HIDE DEF x
  <2>2. CreatorGood(c)'
    BY <1>1, <1>2, <2>1 DEF CreatorGood, Origin
  <2> QED  BY <1>1, <1>5, <2>1, <2>2, CreatorStep
<1> QED  BY <1>4, <1>5 DEF CreateAnswer

-----------------------------------------------------------------------------
(* A PUT that writes what is declared, through a URL or by the API.        *)
LEMMA PutKeeps ==
  ASSUME IInv, NEW d \in ids, NEW b \in Digests, NEW g \in Digests, PutObject(d, b, g),
         Declares(d, g),
         d \in exposed \/ (origin[d] # NoRequest /\ b = origin[d].payload.digest),
         UNCHANGED <<rows, uploads, locked, origin, ids, urls, exposed>>
  PROVE  Shared' /\ StoreTypeOK' /\ \A e \in Docs : Stored(e) => Stored(e)'
<1>1. TypeOK /\ Shared /\ d \in Docs /\ objects \in [Docs -> Object \cup {NoObject}]
  BY DEF IInv, TypeOK, StoreTypeOK
<1>2. StoreTypeOK'
  BY <1>1, PutObjectType DEF TypeOK
<1>3. /\ objects'[d] = [bytes |-> b, sha256 |-> g]
      /\ \A e \in Docs \ {d} : objects'[e] = objects[e]
  BY <1>1 DEF PutObject
<1>4. [bytes |-> b, sha256 |-> g] # NoObject
  BY NoObjectAssumption DEF Object
<1>5. \A e \in Docs : Stored(e)' <=> e = d \/ Stored(e)
  BY <1>3, <1>4 DEF Stored
<1>6. ObjectsMatch'
  BY <1>1, <1>3, <1>5 DEF Shared, ObjectsMatch, Declares
<1>7. MediatedBytesAuthentic'
  BY <1>1, <1>3, <1>5 DEF Shared, MediatedBytesAuthentic
<1>8. RowsHaveOrigin' /\ OriginsUnique' /\ UrlsMatch' /\ BegunIsStored'
  BY <1>1, <1>5 DEF Shared, RowsHaveOrigin, OriginsUnique, UrlsMatch, Declares,
                    BegunIsStored, Begun
<1> QED  BY <1>2, <1>5, <1>6, <1>7, <1>8 DEF Shared

(* A client's PUT, or the expiry of a URL.                                 *)
LEMMA UrlsKeep ==
  ASSUME IInv, PutViaUrl \/ UrlExpires PROVE IInv'
<1>1. TypeOK /\ Shared
  BY DEF IInv
<1>2. CASE PutViaUrl
  <2>1. PICK u \in urls, b \in Digests : PutObject(u.object, b, u.sha256)
    BY <1>2 DEF PutViaUrl
  <2>2. /\ u.object \in ids /\ u.object \in exposed /\ Declares(u.object, u.sha256)
        /\ u.sha256 \in Digests
    BY <1>1 DEF Shared, UrlsMatch, TypeOK, Url
  <2>3. UNCHANGED <<rows, uploads, locked, origin, ids, urls, exposed, creators,
                    uploaders, uploadLog>>
    BY <1>2 DEF PutViaUrl, uploadVars
  <2>4. Shared' /\ StoreTypeOK' /\ \A e \in Docs : Stored(e) => Stored(e)'
    BY <2>1, <2>2, <2>3, PutKeeps
  <2>5. TypeOK' /\ OneCompletion'
    BY <1>1, <2>3, <2>4 DEF TypeOK, TableTypeOK, IInv, OneCompletion, Completed
  <2>6. \A c \in Creators : CreatorGood(c)'
    BY <2>3, CreatorStays
  <2>7. \A v \in Uploaders : UploaderGood(v)'
    BY <2>3, <2>4, UploaderStays DEF Begun
  <2> QED  BY <2>4, <2>5, <2>6, <2>7 DEF IInv
<1>3. CASE UrlExpires
  <2>1. /\ urls' \subseteq urls
        /\ UNCHANGED <<rows, uploads, locked, objects, origin, ids, exposed, creators,
                       uploaders, uploadLog>>
    BY <1>3 DEF UrlExpires
  <2>2. TypeOK' /\ OneCompletion'
    BY <1>1, <2>1 DEF TypeOK, TableTypeOK, StoreTypeOK, IInv, OneCompletion, Completed
  <2>3. Shared'
    BY <1>1, <2>1 DEF Shared, RowsHaveOrigin, OriginsUnique, UrlsMatch, ObjectsMatch,
                      Declares, BegunIsStored, Begun, MediatedBytesAuthentic, Stored
  <2>4. \A c \in Creators : CreatorGood(c)'
    BY <2>1, CreatorStays
  <2>5. \A v \in Uploaders : UploaderGood(v)'
    BY <2>1, UploaderStays DEF Begun, Stored
  <2> QED  BY <2>2, <2>3, <2>4, <2>5 DEF IInv
<1> QED  BY <1>2, <1>3

-----------------------------------------------------------------------------
(* A request that only moves on.                                           *)
LEMMA Moves ==
  ASSUME IInv, NEW u \in Uploaders,
         NEW pc \in {"stored", "verified", "logging", "accepted", "refused"},
         Step(u, pc)
  PROVE  LET x == [uploaders[u] EXCEPT !.pc = pc] IN
           /\ x \in Uploader /\ uploaders' = [uploaders EXCEPT ![u] = x]
           /\ uploaders'[u] = x /\ x.pc = pc /\ x.doc = uploaders[u].doc
           /\ uploaders' \in [Uploaders -> Uploader]
<1>1. uploaders \in [Uploaders -> Uploader]
  BY DEF IInv, TypeOK
<1> QED  BY <1>1 DEF Step, Uploader

(* A request that is refused or gives up.                                  *)
LEMMA UploaderFails ==
  ASSUME IInv, NEW u \in Uploaders, Step(u, "refused"),
         UNCHANGED <<rows, uploads, locked, objects, origin, ids, urls, exposed,
                     creators, uploadLog>>
  PROVE  IInv'
<1> DEFINE x == [uploaders[u] EXCEPT !.pc = "refused"]
<1>1. /\ x \in Uploader /\ uploaders' = [uploaders EXCEPT ![u] = x]
      /\ uploaders'[u] = x /\ x.pc = "refused" /\ uploaders' \in [Uploaders -> Uploader]
  BY Moves
<1> HIDE DEF x
<1>2. TypeOK'
  BY <1>1 DEF IInv, TypeOK, TableTypeOK, StoreTypeOK
<1>3. UploaderGood(u)'
  BY <1>1 DEF UploaderGood, Completed
<1> QED  BY <1>1, <1>2, <1>3, UploaderStep

(* The lookups: a document that exists is taken up.                        *)
LEMMA GetKeeps ==
  ASSUME IInv, NEW u \in Uploaders, ContentGet(u) \/ CompleteGet(u) PROVE IInv'
<1>1. PICK d \in Docs, pc \in {"reading", "pending"} :
        uploaders' = [uploaders EXCEPT ![u] =
          [pc |-> IF rows[d].status = "pending_upload" THEN pc ELSE "refused", doc |-> d]]
  BY DEF ContentGet, CompleteGet
<1> DEFINE x == [pc |-> IF rows[d].status = "pending_upload" THEN pc ELSE "refused", doc |-> d]
<1>2. UNCHANGED <<rows, uploads, locked, objects, origin, ids, urls, exposed,
                  creators, uploadLog>>
  BY DEF ContentGet, CompleteGet
<1>3. uploaders \in [Uploaders -> Uploader] /\ RowsHaveOrigin
  BY DEF IInv, TypeOK, Shared
<1>4. /\ x \in Uploader /\ uploaders' = [uploaders EXCEPT ![u] = x] /\ uploaders'[u] = x
      /\ x.doc = d /\ x.pc \in {"reading", "pending", "refused"}
      /\ x.pc # "refused" => rows[d].status = "pending_upload"
  BY <1>1, <1>3 DEF Uploader
<1> HIDE DEF x
<1>5. TypeOK'
  <2>1. uploaders' \in [Uploaders -> Uploader]
    BY <1>3, <1>4
  <2> QED  BY <1>2, <2>1 DEF IInv, TypeOK, TableTypeOK, StoreTypeOK
<1>6. UploaderGood(u)'
  BY <1>2, <1>3, <1>4 DEF UploaderGood, Completed, RowsHaveOrigin
<1> QED  BY <1>2, <1>4, <1>5, <1>6, UploaderStep

(* A verified object is there to stay.                                     *)
LEMMA VerifyKeeps ==
  ASSUME IInv, NEW u \in Uploaders, CompleteVerify(u) PROVE IInv'
<1>1. UNCHANGED <<rows, uploads, locked, objects, origin, ids, urls, exposed,
                  creators, uploadLog>> /\ uploaders[u].pc = "pending"
  BY DEF CompleteVerify
<1>2. CASE Step(u, "refused")
  BY <1>1, <1>2, UploaderFails
<1>3. CASE Stored(uploaders[u].doc) /\ Step(u, "verified")
  <2> DEFINE x == [uploaders[u] EXCEPT !.pc = "verified"]
  <2>1. /\ x \in Uploader /\ uploaders' = [uploaders EXCEPT ![u] = x]
        /\ uploaders'[u] = x /\ x.pc = "verified" /\ x.doc = uploaders[u].doc
        /\ uploaders' \in [Uploaders -> Uploader]
    BY <1>3, Moves
  <2> HIDE DEF x
  <2>2. TypeOK'
    BY <1>1, <2>1 DEF IInv, TypeOK, TableTypeOK, StoreTypeOK
  <2>3. UploaderGood(u)
    BY DEF IInv
  <2>4. UploaderGood(u)'
    BY <1>1, <1>3, <2>1, <2>3 DEF UploaderGood, Completed, Stored
  <2> QED  BY <1>1, <2>1, <2>2, <2>4, UploaderStep
<1> QED  BY <1>2, <1>3 DEF CompleteVerify, Verify

(* The audit event of a completion.                                        *)
LEMMA LogKeeps ==
  ASSUME IInv, NEW u \in Uploaders, CompleteLog(u) PROVE IInv'
<1> DEFINE x == [uploaders[u] EXCEPT !.pc = "accepted"]
<1>1. /\ UNCHANGED <<rows, uploads, locked, objects, origin, ids, urls, exposed, creators>>
      /\ uploaders[u].pc = "logging" /\ UploaderGood(u)
      /\ uploadLog' = uploadLog \cup {<<"upload_verified_quarantined", uploaders[u].doc>>}
  BY DEF IInv, CompleteLog
<1>2. /\ x \in Uploader /\ uploaders' = [uploaders EXCEPT ![u] = x]
      /\ uploaders'[u] = x /\ x.pc = "accepted" /\ x.doc = uploaders[u].doc
      /\ uploaders' \in [Uploaders -> Uploader]
  BY Moves DEF CompleteLog
<1> HIDE DEF x
<1>3. uploaders[u].doc \in Docs /\ Begun(uploaders[u].doc) /\ Completed(u)
  BY <1>1 DEF UploaderGood, Completed
<1>4. TypeOK'
  BY <1>1, <1>2, <1>3 DEF IInv, TypeOK, TableTypeOK, StoreTypeOK
<1>5. UploaderGood(u)'
  BY <1>1, <1>2, <1>3 DEF UploaderGood, Begun
<1> QED  BY <1>1, <1>2, <1>3, <1>4, <1>5, UploaderStep

(* The API stores the declared body, or refuses.                           *)
LEMMA ContentPutKeeps ==
  ASSUME IInv, NEW u \in Uploaders, ContentPut(u) PROVE IInv'
<1> DEFINE d == uploaders[u].doc
           declared == origin[d].payload.digest
           x == [uploaders[u] EXCEPT !.pc = "stored"]
<1>1. /\ UNCHANGED <<rows, uploads, locked, origin, ids, urls, exposed, creators, uploadLog>>
      /\ uploaders[u].pc = "reading" /\ UploaderGood(u) /\ TypeOK /\ RowsHaveOrigin
  BY DEF IInv, ContentPut, Shared
<1>2. CASE Step(u, "refused") /\ UNCHANGED objects
  BY <1>1, <1>2, UploaderFails
<1>3. ASSUME NEW body \in Digests, body = declared, PutObject(d, body, declared), Step(u, "stored")
      PROVE  IInv'
  <2>1. /\ x \in Uploader /\ uploaders' = [uploaders EXCEPT ![u] = x]
        /\ uploaders'[u] = x /\ x.pc = "stored" /\ x.doc = d
        /\ uploaders' \in [Uploaders -> Uploader]
    BY <1>3, Moves
  <2> HIDE DEF x
  <2>2. d \in Docs /\ origin[d] # NoRequest /\ d \in ids
    BY <1>1 DEF UploaderGood, RowsHaveOrigin
  <2>3. Shared' /\ StoreTypeOK' /\ \A e \in Docs : Stored(e) => Stored(e)'
    BY <1>1, <1>3, <2>2, PutKeeps DEF Declares
  <2>4. TypeOK'
    BY <1>1, <2>1, <2>3 DEF TypeOK, TableTypeOK
  <2>5. \A v \in Uploaders \ {u} : uploaders'[v] = uploaders[v]
    BY <1>1, <2>1 DEF TypeOK
  <2>6. OneCompletion'
    BY <2>1, <2>5 DEF IInv, OneCompletion, Completed
  <2>7. \A c \in Creators : CreatorGood(c)'
    BY <1>1, CreatorStays
  <2>8. UploaderGood(u)'
    BY <1>1, <2>1, <2>2 DEF UploaderGood, Completed
  <2>9. \A v \in Uploaders : UploaderGood(v)'
    BY <1>1, <2>3, <2>5, <2>8, UploaderStays DEF Begun
  <2> QED  BY <2>3, <2>4, <2>6, <2>7, <2>9 DEF IInv
<1> QED  BY <1>2, <1>3 DEF ContentPut

(* The guarded UPDATE lets one request through.                            *)
LEMMA UpdateKeeps ==
  ASSUME IInv, NEW u \in Uploaders, CompleteUpdate(u) PROVE IInv'
<1> DEFINE d == uploaders[u].doc
           x == [uploaders[u] EXCEPT !.pc = "logging"]
<1>1. /\ UNCHANGED <<locked, objects, origin, ids, urls, exposed, creators, uploadLog>>
      /\ uploaders[u].pc = "verified" /\ UploaderGood(u) /\ TypeOK /\ TableTypeOK
  BY DEF IInv, CompleteUpdate, TypeOK
<1>2. CASE Step(u, "refused") /\ UNCHANGED <<rows, uploads>>
  BY <1>1, <1>2, UploaderFails
<1>3. CASE MarkUploaded(d) /\ Step(u, "logging")
  <2>1. /\ x \in Uploader /\ uploaders' = [uploaders EXCEPT ![u] = x]
        /\ uploaders'[u] = x /\ x.pc = "logging" /\ x.doc = d
        /\ uploaders' \in [Uploaders -> Uploader]
    BY <1>3, Moves
  <2> HIDE DEF x
  <2>2. d \in Docs /\ origin[d] # NoRequest /\ Stored(d)
    BY <1>1 DEF UploaderGood
  <2>3. rows' \in [Docs -> Row] /\ uploads' \in Seq(Docs)
    BY <1>1, <1>3, <2>2, MarkUploadedType
  <2>4. /\ ~Begun(d) /\ rows[d].status # "absent"
        /\ rows'[d].status = "quarantined"
        /\ \A e \in Docs \ {d} : rows'[e] = rows[e]
    BY <1>1, <1>3, <2>2 DEF MarkUploaded, TableTypeOK, Row, Begun
  <2>5. TypeOK'
    BY <1>1, <2>1, <2>3 DEF TypeOK, TableTypeOK, StoreTypeOK
  <2>6. Shared'
    <3>1. RowsHaveOrigin' /\ BegunIsStored'
      BY <1>1, <2>2, <2>4 DEF IInv, Shared, RowsHaveOrigin, BegunIsStored, Begun, Stored
    <3> QED  BY <1>1, <3>1 DEF IInv, Shared, OriginsUnique, UrlsMatch, ObjectsMatch, Declares,
                               MediatedBytesAuthentic, Stored
  <2>7. \A v \in Uploaders \ {u} : uploaders'[v] = uploaders[v]
    BY <1>1, <2>1 DEF TypeOK
  <2>8. \A v \in Uploaders : Completed(v) => uploaders[v].doc # d
    BY <2>4 DEF IInv, UploaderGood
  <2>9. OneCompletion'
    BY <2>1, <2>7, <2>8 DEF IInv, OneCompletion, Completed
  <2>10. \A c \in Creators : CreatorGood(c)'
    BY <1>1, CreatorStays
  <2>11. UploaderGood(u)'
    BY <1>1, <2>1, <2>2, <2>4 DEF UploaderGood, Begun
  <2>12. \A e \in Docs : Begun(e) => Begun(e)'
    BY <2>4 DEF Begun
  <2>13. \A v \in Uploaders : UploaderGood(v)'
    BY <1>1, <2>7, <2>11, <2>12, UploaderStays DEF Stored
  <2> QED  BY <2>5, <2>6, <2>9, <2>10, <2>13 DEF IInv
<1> QED  BY <1>2, <1>3 DEF CompleteUpdate

-----------------------------------------------------------------------------
(* The scanner and the evidence checks: a document in or beyond quarantine *)
(* stays there, and none gets there.                                       *)
LEMMA EnvironmentKeeps ==
  ASSUME IInv, Environment PROVE IInv'
<1>1. /\ TypeOK /\ TableTypeOK /\ rows \in [Docs -> Row]
      /\ UNCHANGED <<uploads, objects, origin, ids, urls, exposed, creators,
                     uploaders, uploadLog>>
  BY DEF IInv, TypeOK, TableTypeOK, Environment, Scanned, Lock, uploadVars
<1> DEFINE Kept == /\ rows' \in [Docs -> Row] /\ locked' \subseteq Lockable
                   /\ \A e \in Docs :
                        /\ Begun(e)' <=> Begun(e)
                        /\ rows'[e].status = "absent" <=> rows[e].status = "absent"
<1>2. Kept
  <2>1. CASE Lock
    BY <1>1, <2>1 DEF Lock, Begun
  <2>2. ASSUME NEW d \in Docs, Scanned(d) PROVE Kept
    <3>1. locked' = locked /\ ScannedRow(d)
      BY <2>2 DEF Scanned
    <3>2. CASE Claimable(d) /\ ClaimRow(d)
      <4>1. rows' \in [Docs -> Row]
        BY <1>1, <3>2, ClaimRowType
      <4>2. \A e \in Docs : rows'[e].status = rows[e].status
        BY <1>1, <3>2 DEF ClaimRow, Row
      <4> QED  BY <1>1, <3>1, <4>1, <4>2 DEF TableTypeOK, Begun
    <3>3. CASE Lapsed(d)
      <4>1. rows' \in [Docs -> Row] /\ \A e \in Docs : rows'[e].status = rows[e].status
        BY <1>1, <3>3 DEF Lapsed, Row
      <4> QED  BY <1>1, <3>1, <4>1 DEF TableTypeOK, Begun
    <3>4. ASSUME NEW o \in Outcome, Recordable(d), RecordOutcome(d, o)
          PROVE  Kept
      <4>1. rows' \in [Docs -> Row]
        BY <1>1, <3>4, RecordOutcomeType
      <4>2. StatusAfter(o) \in {"available", "rejected", "quarantined"}
        BY DEF StatusAfter, Outcome
      <4>3. /\ rows[d].status = "quarantined"
            /\ rows'[d].status \in {"available", "rejected", "quarantined"}
            /\ \A e \in Docs \ {d} : rows'[e] = rows[e]
        <5>1. PICK s \in {"available", "rejected", "quarantined"} : s = StatusAfter(o)
          BY <4>2
        <5>2. rows' = [rows EXCEPT ![d].status = s, ![d].scan = o, ![d].lease = "none"]
          BY <3>4, <5>1 DEF RecordOutcome
        <5> QED  BY <1>1, <3>4, <5>2 DEF Recordable, Row
      <4> QED  BY <1>1, <3>1, <4>1, <4>3 DEF TableTypeOK, Begun
    <3> QED  BY <3>1, <3>2, <3>3, <3>4 DEF ScannedRow
  <2> QED  BY <2>1, <2>2 DEF Environment
<1>3. TypeOK' /\ OneCompletion'
  BY <1>1, <1>2 DEF TypeOK, TableTypeOK, StoreTypeOK, IInv, OneCompletion, Completed
<1>4. Shared'
  BY <1>1, <1>2 DEF IInv, Shared, RowsHaveOrigin, OriginsUnique, UrlsMatch, ObjectsMatch,
                    Declares, BegunIsStored, MediatedBytesAuthentic, Stored
<1>5. \A c \in Creators : CreatorGood(c)'
  BY <1>1, CreatorStays
<1>6. \A u \in Uploaders : UploaderGood(u)'
  BY <1>1, <1>2, UploaderStays DEF Stored
<1> QED  BY <1>3, <1>4, <1>5, <1>6 DEF IInv

(* One case per action.                                                    *)
LEMMA Inductive == IInv /\ [Next]_vars => IInv'
<1> SUFFICES ASSUME IInv, [Next]_vars PROVE IInv'
  OBVIOUS
<1>1. ASSUME NEW c \in Creators, CreatorNext(c) PROVE IInv'
  <2>1. CASE CreateLookup(c) \/ CreateInsert(c) \/ CreateAnswer(c)
    BY <2>1, LookupKeeps, InsertKeeps, AnswerKeeps
  <2>2. CASE CreateFail(c)
    BY <2>2, CreatorFails DEF CreateFail
  <2> QED  BY <1>1, <2>1, <2>2 DEF CreatorNext
<1>2. ASSUME NEW u \in Uploaders, UploaderNext(u) PROVE IInv'
  <2>1. CASE ContentGet(u) \/ CompleteGet(u)
    BY <2>1, GetKeeps
  <2>2. CASE ContentPut(u) \/ CompleteVerify(u)
    BY <2>2, ContentPutKeeps, VerifyKeeps
  <2>3. CASE CompleteUpdate(u) \/ CompleteLog(u)
    BY <2>3, UpdateKeeps, LogKeeps
  <2>4. CASE UploaderAbort(u)
    BY <2>4, UploaderFails DEF UploaderAbort
  <2> QED  BY <1>2, <2>1, <2>2, <2>3, <2>4 DEF UploaderNext
<1>3. CASE PutViaUrl \/ UrlExpires
  BY <1>3, UrlsKeep
<1>4. CASE Environment
  BY <1>4, EnvironmentKeeps
<1>5. CASE UNCHANGED vars
  <2>1. TypeOK' /\ Shared' /\ OneCompletion'
    BY <1>5 DEF vars, IInv, TypeOK, TableTypeOK, StoreTypeOK, Shared, RowsHaveOrigin,
                OriginsUnique, UrlsMatch, ObjectsMatch, Declares, BegunIsStored, Begun,
                MediatedBytesAuthentic, Stored, OneCompletion, Completed
  <2>2. \A c \in Creators : CreatorGood(c)'
    BY <1>5, CreatorStays DEF vars
  <2>3. \A u \in Uploaders : UploaderGood(u)'
    BY <1>5, UploaderStays DEF vars, Begun, Stored
  <2> QED  BY <2>1, <2>2, <2>3 DEF IInv
<1> QED  BY <1>1, <1>2, <1>3, <1>4, <1>5 DEF Next, UploadNext

-----------------------------------------------------------------------------
(* The inductive invariant of the write side.                              *)
THEOREM WriteSideInvariant == Spec => []IInv
  BY Initially, Inductive, PTL DEF Spec

(* Type correctness of the write side.                                     *)
THEOREM UploadTypeCorrect == Spec => []TypeOK
<1>1. IInv => TypeOK
  BY DEF IInv
<1> QED  BY <1>1, WriteSideInvariant, PTL

(* A document beyond pending_upload has an object, of the declared digest  *)
(* by its metadata.                                                        *)
THEOREM QuarantinedIsAlwaysStored == Spec => []QuarantinedIsStored
<1>1. IInv => QuarantinedIsStored
  BY DEF IInv, Shared, RowsHaveOrigin, ObjectsMatch, Declares, BegunIsStored, Begun,
         QuarantinedIsStored
<1> QED  BY <1>1, WriteSideInvariant, PTL

(* An upload is taken into quarantine by one request.                      *)
THEOREM CompletedOnce == Spec => []OneCompletion
<1>1. IInv => OneCompletion
  BY DEF IInv
<1> QED  BY <1>1, WriteSideInvariant, PTL

(* Two answers to one request name one document: both were inserted by     *)
(* that request, or by ones of the same source and content.                *)
LEMMA Idempotent == IInv => SameRequestSameDocument
<1> SUFFICES ASSUME IInv, NEW b \in Creators, NEW c \in Creators, Named(b), Named(c),
                    creators[b].request = creators[c].request
             PROVE  creators[b].doc = creators[c].doc
  BY DEF SameRequestSameDocument
<1> DEFINE q == creators[c].request
           d == creators[b].doc
           e == creators[c].doc
<1>1. d \in Docs /\ e \in Docs /\ Origin(d, q) /\ Origin(e, q)
  BY DEF IInv, CreatorGood
<1>2. OriginsUnique
  BY DEF IInv, Shared
<1> HIDE DEF q, d, e
<1>3. d = e
  BY <1>1, <1>2 DEF Origin, OriginsUnique
<1> QED  BY <1>3 DEF d, e

(* So do two answers to requests of the same source and content.           *)
LEMMA Deduplicated == IInv => SameSourceSameDocument
<1> SUFFICES ASSUME IInv, NEW b \in Creators, NEW c \in Creators, Named(b), Named(c),
                    creators[b].request.payload.source = creators[c].request.payload.source,
                    creators[b].request.payload.source # NoSource,
                    creators[b].request.payload.digest = creators[c].request.payload.digest
             PROVE  creators[b].doc = creators[c].doc
  BY DEF SameSourceSameDocument
<1> DEFINE p == creators[b].request
           q == creators[c].request
           d == creators[b].doc
           e == creators[c].doc
<1>1. d \in Docs /\ e \in Docs /\ Origin(d, p) /\ Origin(e, q)
  BY DEF IInv, CreatorGood
<1>2. OriginsUnique
  BY DEF IInv, Shared
<1>3. p.payload.source = q.payload.source /\ p.payload.source # NoSource
      /\ p.payload.digest = q.payload.digest
  OBVIOUS
<1> HIDE DEF p, q, d, e
<1>4. d = e
  BY <1>1, <1>2, <1>3 DEF Origin, OriginsUnique
<1> QED  BY <1>4 DEF d, e

(* Create is idempotent.                                                   *)
THEOREM CreateIdempotent == Spec => []SameRequestSameDocument
  BY Idempotent, WriteSideInvariant, PTL

(* A source and content are one document, under whatever keys.             *)
THEOREM SourcesAreDocuments == Spec => []SameSourceSameDocument
  BY Deduplicated, WriteSideInvariant, PTL

(* What no presigned URL can reach is the very content its row declares.   *)
THEOREM MediatedBytesAlwaysAuthentic == Spec => []MediatedBytesAuthentic
<1>1. IInv => MediatedBytesAuthentic
  BY DEF IInv, Shared
<1> QED  BY <1>1, WriteSideInvariant, PTL

-----------------------------------------------------------------------------
(* The key a session presigns, if it is not its document's, belongs to an  *)
(* id that is spent and has no row; the session met another's row by its   *)
(* source reference.                                                       *)
OwnOrStray(c) ==
  LET r == creators[c] IN
  Named(c) /\ r.object # NoDoc =>
    \/ r.object = r.doc
    \/ r.object \in ids /\ origin[r.object] = NoRequest /\ r.request.payload.source # NoSource

UrlsOwnOrStray == \A c \in Creators : OwnOrStray(c)

(* No step gives a spent id a row.                                         *)
LEMMA SpentStays ==
  ASSUME IInv, [Next]_vars
  PROVE  ids \subseteq ids' /\ \A d \in ids : origin'[d] = origin[d]
<1>1. CASE \E c \in Creators : CreateInsert(c)
  <2>1. PICK d \in Fresh : /\ ids' = ids \cup {d}
                           /\ \/ \E q : origin' = [origin EXCEPT ![d] = q]
                              \/ UNCHANGED origin
    BY <1>1 DEF CreateInsert
  <2> QED  BY <2>1 DEF Fresh, IInv, TypeOK
<1>2. CASE UNCHANGED <<ids, origin>>
  BY <1>2
<1>3. ASSUME NEW c \in Creators, CreateLookup(c) \/ CreateAnswer(c) \/ CreateFail(c)
      PROVE  UNCHANGED <<ids, origin>>
  BY <1>3 DEF CreateLookup, CreateAnswer, CreateFail
<1>4. ASSUME NEW u \in Uploaders, UploaderNext(u) PROVE UNCHANGED <<ids, origin>>
  BY <1>4 DEF UploaderNext, ContentGet, ContentPut, CompleteGet, CompleteVerify,
              CompleteUpdate, CompleteLog, UploaderAbort
<1>5. CASE PutViaUrl \/ UrlExpires \/ Environment \/ UNCHANGED vars
  BY <1>5 DEF PutViaUrl, UrlExpires, Environment, Scanned, Lock, uploadVars, vars
<1> QED  BY <1>1, <1>2, <1>3, <1>4, <1>5 DEF Next, UploadNext, CreatorNext

(* Nor does one give a session a key that is neither.                      *)
LEMMA StrayNext == IInv /\ UrlsOwnOrStray /\ [Next]_vars => UrlsOwnOrStray'
<1> SUFFICES ASSUME IInv, UrlsOwnOrStray, [Next]_vars, NEW c \in Creators
             PROVE  OwnOrStray(c)'
  BY DEF UrlsOwnOrStray
<1>1. creators \in [Creators -> Creator] /\ ids \subseteq Docs
  BY DEF IInv, TypeOK
<1>2. CASE creators'[c] = creators[c]
  BY <1>2, SpentStays DEF UrlsOwnOrStray, OwnOrStray, Named
<1>3. CASE CreateLookup(c)
  <2>1. \/ creators'[c].pc \in {"missed", "refused"}
        \/ \E e \in Docs : creators'[c].object = e /\ creators'[c].doc = e
    BY <1>1, <1>3 DEF CreateLookup, WithKey, Creator
  <2> QED  BY <2>1 DEF OwnOrStray, Named
<1>4. CASE CreateInsert(c)
  <2> DEFINE q == creators[c].request
  <2>1. PICK d \in Fresh :
          /\ ids' = ids \cup {d}
          /\ \/ creators' = [creators EXCEPT ![c].pc = "committed",
                                             ![c].doc = d, ![c].object = d]
             \/ \E e \in Duplicates(q.payload) :
                  /\ creators' = [creators EXCEPT ![c].pc = "committed",
                                                  ![c].doc = e, ![c].object = d]
                  /\ UNCHANGED origin
             \/ creators' = [creators EXCEPT ![c].pc = "refused"]
    BY <1>4 DEF CreateInsert
  <2>2. d \in Docs /\ origin[d] = NoRequest
    BY <2>1 DEF Fresh, IInv, Shared, RowsHaveOrigin
  <2>3. CASE creators' = [creators EXCEPT ![c].pc = "committed",
                                          ![c].doc = d, ![c].object = d]
    BY <1>1, <2>3 DEF OwnOrStray, Creator
  <2>4. ASSUME NEW e \in Duplicates(q.payload), UNCHANGED origin,
               creators' = [creators EXCEPT ![c].pc = "committed",
                                            ![c].doc = e, ![c].object = d]
        PROVE  OwnOrStray(c)'
    <3>1. creators'[c].object = d /\ creators'[c].request = q
      BY <1>1, <2>4 DEF Creator
    <3>2. q.payload.source # NoSource
      BY DEF Duplicates
    <3>3. d \in ids' /\ origin'[d] = NoRequest
      BY <2>1, <2>2, <2>4
    <3> HIDE DEF q
    <3>4. creators'[c].request.payload.source # NoSource
      BY <3>1, <3>2
    <3> QED  BY <3>1, <3>3, <3>4 DEF OwnOrStray
  <2>5. CASE creators' = [creators EXCEPT ![c].pc = "refused"]
    BY <1>1, <2>5 DEF OwnOrStray, Named, Creator
  <2> QED  BY <2>1, <2>3, <2>4, <2>5
<1>5. CASE CreateAnswer(c)
  <2>1. /\ creators'[c].doc = creators[c].doc /\ creators'[c].request = creators[c].request
        /\ creators'[c].object \in {creators[c].object, NoDoc}
        /\ Named(c) /\ UNCHANGED <<ids, origin>>
    BY <1>1, <1>5 DEF CreateAnswer, Named, Creator
  <2> QED  BY <2>1 DEF UrlsOwnOrStray, OwnOrStray
<1>6. CASE CreateFail(c)
  BY <1>1, <1>6 DEF CreateFail, OwnOrStray, Named, Creator
<1>7. ASSUME NEW b \in Creators \ {c}, CreatorNext(b) PROVE creators'[c] = creators[c]
  BY <1>1, <1>7 DEF CreatorNext, CreateLookup, CreateInsert, CreateAnswer, CreateFail
<1>8. ASSUME NEW u \in Uploaders, UploaderNext(u) PROVE UNCHANGED creators
  BY <1>8 DEF UploaderNext, ContentGet, ContentPut, CompleteGet, CompleteVerify,
              CompleteUpdate, CompleteLog, UploaderAbort
<1>9. CASE PutViaUrl \/ UrlExpires \/ Environment \/ UNCHANGED vars
  BY <1>2, <1>9 DEF PutViaUrl, UrlExpires, Environment, Scanned, Lock, uploadVars, vars
<1> QED  BY <1>2, <1>3, <1>4, <1>5, <1>6, <1>7, <1>8, <1>9 DEF Next, UploadNext, CreatorNext

(* What is neither a document's own key nor has a row writes no other's    *)
(* object.                                                                 *)
LEMMA StrayWritesNone == IInv /\ UrlsOwnOrStray => UrlWritesNoOther
  BY DEF IInv, TypeOK, Shared, RowsHaveOrigin, UrlsOwnOrStray, OwnOrStray, Named,
         UrlWritesNoOther

(* No session has a key before it begins.                                  *)
LEMMA StrayInit == Init => UrlsOwnOrStray
  BY DEF Init, UploadInit, UrlsOwnOrStray, OwnOrStray, Named

(* A URL writes its own document's object or one that never gets a row;    *)
(* and it is its own whenever the session had no source reference.         *)
THEOREM UrlsWriteNoOther == Spec => []UrlWritesNoOther
  BY StrayInit, StrayNext, StrayWritesNone, WriteSideInvariant, PTL DEF Spec

(* A session that names no source is always answered with a URL for the    *)
(* document it is answered with.                                           *)
OwnWithoutSource ==
  \A c \in Creators :
    /\ creators[c].pc = "answered" /\ creators[c].object # NoDoc
    /\ creators[c].request.payload.source = NoSource
    => creators[c].object = creators[c].doc

(* The misdirected URLs are those of refreshed sessions only.              *)
THEOREM UrlsOwnWithoutSource == Spec => []OwnWithoutSource
<1>1. UrlsOwnOrStray => OwnWithoutSource
  BY DEF UrlsOwnOrStray, OwnOrStray, Named, OwnWithoutSource
<1> QED  BY <1>1, StrayInit, StrayNext, WriteSideInvariant, PTL DEF Spec

-----------------------------------------------------------------------------
(* The abstract life of a document.                                        *)
phase == [d \in Docs |-> rows[d].status]
tries == [d \in Docs |-> rows[d].attempts]

(* An id without a row has not been scanned.                               *)
Unscanned == \A d \in Docs : rows[d].status = "absent" => rows[d].attempts = 0

(* What happens to rows: nothing, or one statement on one row.             *)
LEMMA RowSteps ==
  ASSUME IInv, [Next]_vars
  PROVE  \/ UNCHANGED rows
         \/ \E d \in Docs : \/ rows[d].status = "absent" /\ InsertRow(d)
                            \/ MarkUploaded(d)
                            \/ ScannedRow(d)
<1>1. CASE \E c \in Creators : CreateInsert(c)
  <2>1. PICK c \in Creators : CreateInsert(c)
    BY <1>1
  <2>2. UNCHANGED rows \/ \E d \in Docs \ ids : InsertRow(d)
    BY <2>1 DEF CreateInsert, Fresh
  <2> QED  BY <2>2 DEF IInv, Shared, RowsHaveOrigin
<1>2. CASE \E u \in Uploaders : CompleteUpdate(u)
  BY <1>2 DEF CompleteUpdate, IInv, UploaderGood
<1>3. CASE Environment
  BY <1>3 DEF Environment, Scanned, Lock
<1>4. ASSUME NEW c \in Creators, CreateLookup(c) \/ CreateAnswer(c) \/ CreateFail(c)
      PROVE  UNCHANGED rows
  BY <1>4 DEF CreateLookup, CreateAnswer, CreateFail
<1>5. ASSUME NEW u \in Uploaders,
             \/ ContentGet(u) \/ ContentPut(u) \/ CompleteGet(u) \/ CompleteVerify(u)
             \/ CompleteLog(u) \/ UploaderAbort(u)
      PROVE  UNCHANGED rows
  BY <1>5 DEF ContentGet, ContentPut, CompleteGet, CompleteVerify, CompleteLog, UploaderAbort
<1>6. CASE PutViaUrl \/ UrlExpires \/ UNCHANGED vars
  BY <1>6 DEF PutViaUrl, UrlExpires, vars
<1> QED  BY <1>1, <1>2, <1>3, <1>4, <1>5, <1>6
         DEF Next, UploadNext, CreatorNext, UploaderNext

(* Every step is a step of the life of one document, or none.              *)
LEMMA StepRefines ==
  IInv /\ Unscanned /\ [Next]_vars => [Abstract!Next]_(Abstract!vars) /\ Unscanned'
<1> SUFFICES ASSUME IInv, Unscanned, [Next]_vars
             PROVE  (Abstract!Next \/ UNCHANGED Abstract!vars) /\ Unscanned'
  OBVIOUS
<1> DEFINE Goal == (Abstract!Next \/ UNCHANGED Abstract!vars) /\ Unscanned'
<1>1. rows \in [Docs -> Row]
  BY DEF IInv, TypeOK, TableTypeOK
<1>2. ASSUME NEW d \in Docs, NEW from, NEW to, rows[d].status = from,
             \A e \in Docs : rows'[e].attempts = rows[e].attempts,
             \A e \in Docs \ {d} : rows'[e].status = rows[e].status,
             rows'[d].status = to, to # "absent"
      PROVE  Abstract!Move(d, from, to) /\ Unscanned'
  <2>1. phase' = [phase EXCEPT ![d] = to] /\ tries' = tries
    BY <1>2 DEF phase, tries
  <2> QED BY <1>2, <2>1 DEF Abstract!Move, phase, tries, Unscanned
<1>3. ASSUME \A e \in Docs : /\ rows'[e].status = rows[e].status
                             /\ rows'[e].attempts = rows[e].attempts
      PROVE  Goal
  BY <1>3 DEF Abstract!vars, Unscanned
<1>4. ASSUME NEW d \in Docs, rows[d].status = "absent", InsertRow(d) PROVE Goal
  <2>1. /\ rows[d].attempts = 0
        /\ rows' = [rows EXCEPT ![d] = [NoRow EXCEPT !.status = "pending_upload"]]
    BY <1>4 DEF InsertRow, Unscanned
  <2>2. /\ \A e \in Docs : rows'[e].attempts = rows[e].attempts
        /\ \A e \in Docs \ {d} : rows'[e].status = rows[e].status
        /\ rows'[d].status = "pending_upload"
    BY <1>1, <2>1 DEF NoRow
  <2>3. Abstract!Move(d, "absent", "pending_upload") /\ Unscanned'
    BY <1>4, <2>2, <1>2
  <2> QED BY <2>3 DEF Abstract!Next, Abstract!Register
<1>5. ASSUME NEW d \in Docs, MarkUploaded(d) PROVE Goal
  <2>1. /\ rows[d].status = "pending_upload"
        /\ \A e \in Docs : rows'[e].attempts = rows[e].attempts
        /\ \A e \in Docs \ {d} : rows'[e].status = rows[e].status
        /\ rows'[d].status = "quarantined"
    BY <1>1, <1>5 DEF MarkUploaded, Row
  <2>2. Abstract!Move(d, "pending_upload", "quarantined") /\ Unscanned'
    BY <2>1, <1>2
  <2> QED BY <2>2 DEF Abstract!Next, Abstract!Quarantine
<1>6. ASSUME NEW d \in Docs, Claimable(d), ClaimRow(d) PROVE Goal
  <2>1. /\ \A e \in Docs : rows'[e].status = rows[e].status
        /\ \A e \in Docs \ {d} : rows'[e].attempts = rows[e].attempts
        /\ rows'[d].attempts = rows[d].attempts + 1
    BY <1>1, <1>6 DEF ClaimRow, Row
  <2>2. phase' = phase /\ tries' = [tries EXCEPT ![d] = @ + 1]
    BY <2>1 DEF phase, tries
  <2>3. Abstract!Try(d)
    BY <1>6, <2>2 DEF Abstract!Try, Claimable, phase, tries
  <2>4. Unscanned'
    BY <1>6, <2>1 DEF Unscanned, Claimable
  <2> QED BY <2>3, <2>4 DEF Abstract!Next
<1>7. ASSUME NEW d \in Docs, NEW o \in Outcome, Recordable(d), RecordOutcome(d, o)
      PROVE  Goal
  <2>1. /\ rows[d].status = "quarantined"
        /\ \A e \in Docs : rows'[e].attempts = rows[e].attempts
        /\ \A e \in Docs \ {d} : rows'[e].status = rows[e].status
        /\ rows'[d].status = StatusAfter(o)
    BY <1>1, <1>7 DEF Recordable, RecordOutcome, Row
  <2>2. CASE o = "failed"
    BY <2>1, <2>2, <1>3 DEF StatusAfter
  <2>3. CASE o = "clean"
    <3>1. StatusAfter(o) = "available"
      BY <2>3 DEF StatusAfter
    <3>2. Abstract!Move(d, "quarantined", "available") /\ Unscanned'
      BY <2>1, <3>1, <1>2
    <3> QED BY <3>2 DEF Abstract!Next, Abstract!Settle
  <2>4. CASE o = "infected"
    <3>1. StatusAfter(o) = "rejected"
      BY <2>4 DEF StatusAfter
    <3>2. Abstract!Move(d, "quarantined", "rejected") /\ Unscanned'
      BY <2>1, <3>1, <1>2
    <3> QED BY <3>2 DEF Abstract!Next, Abstract!Settle
  <2> QED BY <2>2, <2>3, <2>4 DEF Outcome
<1>8. ASSUME NEW d \in Docs, Lapsed(d) PROVE Goal
  BY <1>1, <1>3, <1>8 DEF Lapsed, Row
<1>9. ASSUME NEW d \in Docs, ScannedRow(d) PROVE Goal
  BY <1>6, <1>7, <1>8, <1>9 DEF ScannedRow
<1>10. CASE UNCHANGED rows
  BY <1>10, <1>3
<1>11. \/ UNCHANGED rows
       \/ \E d \in Docs : \/ rows[d].status = "absent" /\ InsertRow(d)
                          \/ MarkUploaded(d)
                          \/ ScannedRow(d)
  BY RowSteps
<1>12. ASSUME NEW d \in Docs,
              \/ rows[d].status = "absent" /\ InsertRow(d)
              \/ MarkUploaded(d)
              \/ ScannedRow(d)
       PROVE  Goal
  BY <1>4, <1>5, <1>9, <1>12
<1> QED BY <1>10, <1>11, <1>12

(* Under refreshed, replayed and concurrently completed sessions, every    *)
(* document lives the abstract life.                                       *)
THEOREM UploadRefinesLifecycle == Spec => ImplementsLifecycle
<1>1. Init => Abstract!Init /\ Unscanned
  <2>1. Init => \A d \in Docs : rows[d] = NoRow
    BY DEF Init, TableInit
  <2>2. NoRow.status = "absent" /\ NoRow.attempts = 0
    BY DEF NoRow
  <2> QED BY <2>1, <2>2 DEF Abstract!Init, Unscanned
<1>2. IInv /\ Unscanned /\ [Next]_vars => IInv' /\ Unscanned'
  BY Inductive, StepRefines
<1> QED
  BY <1>1, <1>2, Initially, StepRefines, PTL DEF Spec, ImplementsLifecycle, Abstract!Spec
===============================================================================
