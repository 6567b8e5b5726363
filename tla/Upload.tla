-------------------------------- MODULE Upload --------------------------------
(***************************************************************************)
(* The write side of the document API: opening an upload session (Create), *)
(* PUTs through presigned URLs, pushing content through the API            *)
(* (UploadContent) and completing an upload (Complete).                    *)
(*                                                                         *)
(* Every request is a process of its own: a Creator opens one session, an  *)
(* Uploader makes one UploadContent or Complete call.  A step is one round *)
(* trip to PostgreSQL or to the object store; a request can fail between   *)
(* any two.  The scanner and the evidence checks are the environment.      *)
(***************************************************************************)
EXTENDS ObjectStore

CONSTANTS
  Creators,   \* requests to the upload-sessions routes
  Uploaders,  \* requests to the content and complete routes
  Keys,       \* values of the Idempotency-Key header of one application
  Sources,    \* (source reference, document type) within that application
  NoSource,   \* the same with an empty source reference, stored as NULL
  Facts,      \* owner, purpose, classification and size
  Extras,     \* the request's other fields: filename, content type, ...
  Payloads,   \* the request bodies clients send
  NoRequest   \* no request yet; no row

Payload == [source : Sources \cup {NoSource}, digest : Digests,
            facts : Facts, extra : Extras]

(* The Idempotency-Key is stored beside the hash of the body, which stands *)
(* for the body itself.                                                    *)
Request == [key : Keys, payload : Payloads]

ASSUME PayloadsAssumption == Payloads \subseteq Payload
ASSUME NoSourceAssumption == NoSource \notin Sources
ASSUME NoRequestAssumption == NoRequest \notin Request

VARIABLES
  origin,     \* the request each row was inserted by: its immutable columns
  ids,        \* the ids newID has returned so far
  urls,       \* presigned PUT requests that have not expired
  exposed,    \* history: object keys a presigned PUT was ever answered for
  creators,
  uploaders,
  uploadLog   \* the upload_... events of document_audit_events

uploadVars == <<origin, ids, urls, exposed, creators, uploaders, uploadLog>>
vars == <<rows, uploads, locked, objects, origin, ids, urls, exposed,
          creators, uploaders, uploadLog>>

Url == [object : Docs, sha256 : Digests]

(* object is the object key the answered URL writes, doc the document the  *)
(* answer names.                                                           *)
Creator == [pc      : {"new", "missed", "found", "committed", "answered", "refused"},
            request : Request \cup {NoRequest},
            doc     : Docs \cup {NoDoc},
            object  : Docs \cup {NoDoc}]

Uploader == [pc  : {"new", "reading", "stored", "pending", "verified", "logging",
                    "accepted", "refused"},
             doc : Docs \cup {NoDoc}]

UploadInit ==
  /\ origin = [d \in Docs |-> NoRequest]
  /\ ids = {}
  /\ urls = {}
  /\ exposed = {}
  /\ creators = [c \in Creators |-> [pc |-> "new", request |-> NoRequest,
                                     doc |-> NoDoc, object |-> NoDoc]]
  /\ uploaders = [u \in Uploaders |-> [pc |-> "new", doc |-> NoDoc]]
  /\ uploadLog = {}

Init == TableInit /\ StoreInit /\ UploadInit

(* The type invariant.                                                     *)
TypeOK ==
  /\ TableTypeOK
  /\ StoreTypeOK
  /\ origin \in [Docs -> Request \cup {NoRequest}]
  /\ ids \subseteq Docs
  /\ urls \subseteq Url
  /\ exposed \subseteq Docs
  /\ creators \in [Creators -> Creator]
  /\ uploaders \in [Uploaders -> Uploader]
  /\ uploadLog \subseteq
       {"upload_authorized", "upload_verified_quarantined"} \X Docs

-----------------------------------------------------------------------------
(* Create.                                                                 *)

(* Faulty variant: keys looked for among pending uploads only.             *)
WithKeyPending(k) ==
  {e \in Docs : /\ origin[e] # NoRequest /\ origin[e].key = k
                /\ rows[e].status = "pending_upload"}

(* The row an idempotency key already has (unique index).                  *)
WithKey(k) == {e \in Docs : origin[e] # NoRequest /\ origin[e].key = k}

(* Faulty variant: a unique index on pending uploads only.                 *)
DuplicatesPending(p) ==
  {e \in Docs : /\ rows[e].status = "pending_upload"
                /\ origin[e] # NoRequest
                /\ origin[e].payload.source = p.source
                /\ p.source # NoSource
                /\ origin[e].payload.digest = p.digest}

(* The row the INSERT conflicts with on the arbiter constraint; a NULL     *)
(* source reference conflicts with nothing.                                *)
Duplicates(p) ==
  {e \in Docs : /\ origin[e] # NoRequest
                /\ origin[e].payload.source = p.source
                /\ p.source # NoSource
                /\ origin[e].payload.digest = p.digest}

(* getIdempotent, before anything is written: a replay of the same body    *)
(* is answered with the row's own object key, another body is a conflict.  *)
CreateLookup(c) ==
  /\ creators[c].pc = "new"
  /\ \E q \in Request :
       \/ /\ WithKey(q.key) = {}
          /\ creators' = [creators EXCEPT ![c].pc = "missed", ![c].request = q]
       \/ \E e \in WithKey(q.key) :
            creators' =
              IF origin[e].payload = q.payload
                THEN [creators EXCEPT ![c] = [pc |-> "found", request |-> q,
                                              doc |-> e, object |-> e]]
                ELSE [creators EXCEPT ![c].pc = "refused", ![c].request = q]
  /\ UNCHANGED <<rows, uploads, locked, objects, origin, ids, urls, exposed,
                 uploaders, uploadLog>>

(* The owner is confirmed by the party service (or it is not: CreateFail), *)
(* an id is generated, and one transaction inserts the row or refreshes    *)
(* the pending row it conflicts with, and writes the audit event.  The URL *)
(* is presigned for the generated key in both cases.                       *)
Refreshable(e, p) ==
  /\ rows[e].status = "pending_upload"
  /\ origin[e].payload.facts = p.facts

(* Faulty variant: an id that no row has is free, though a session that    *)
(* refreshed a row has presigned its key.                                  *)
FreshInTable == {d \in Docs : rows[d].status = "absent"}

(* The ids that newID may return: random, so one not issued before.        *)
Fresh == Docs \ ids

CreateInsert(c) ==
  LET q == creators[c].request
      duplicates == Duplicates(q.payload) IN
  /\ creators[c].pc = "missed"
  /\ duplicates \cap locked = {}
  /\ \E d \in Fresh :
       /\ ids' = ids \cup {d}
       /\ \/ /\ duplicates = {}
             /\ WithKey(q.key) = {}
             /\ InsertRow(d)
             /\ origin' = [origin EXCEPT ![d] = q]
             /\ uploadLog' = uploadLog \cup {<<"upload_authorized", d>>}
             /\ creators' = [creators EXCEPT ![c].pc = "committed",
                                             ![c].doc = d, ![c].object = d]
          \/ \E e \in duplicates :
               /\ Refreshable(e, q.payload)
               /\ uploadLog' = uploadLog \cup {<<"upload_authorized", e>>}
               /\ creators' = [creators EXCEPT ![c].pc = "committed",
                                               ![c].doc = e, ![c].object = d]
               /\ UNCHANGED <<rows, origin>>
          \/ /\ \/ \E e \in duplicates : ~Refreshable(e, q.payload)
                \/ duplicates = {} /\ WithKey(q.key) # {}
             /\ creators' = [creators EXCEPT ![c].pc = "refused"]
             /\ UNCHANGED <<rows, origin, uploadLog>>
  /\ UNCHANGED <<uploads, locked, objects, urls, exposed, uploaders>>

(* The answer: the generic route carries the presigned URL, the staff,     *)
(* case, payment and bank-account routes drop it.                          *)
CreateAnswer(c) ==
  /\ creators[c].pc \in {"found", "committed"}
  /\ \/ /\ urls' = urls \cup {[object |-> creators[c].object,
                               sha256 |-> creators[c].request.payload.digest]}
        /\ exposed' = exposed \cup {creators[c].object}
        /\ creators' = [creators EXCEPT ![c].pc = "answered"]
     \/ /\ creators' = [creators EXCEPT ![c].pc = "answered", ![c].object = NoDoc]
        /\ UNCHANGED <<urls, exposed>>
  /\ UNCHANGED <<rows, uploads, locked, objects, origin, ids, uploaders, uploadLog>>

(* A call fails or the client goes away; what was committed stays.         *)
CreateFail(c) ==
  /\ creators[c].pc \in {"missed", "found", "committed"}
  /\ creators' = [creators EXCEPT ![c].pc = "refused"]
  /\ UNCHANGED <<rows, uploads, locked, objects, origin, ids, urls, exposed,
                 uploaders, uploadLog>>

(* A client's PUT.  The signature fixes the key, the length and the        *)
(* metadata, not the bytes.                                                *)
PutViaUrl ==
  /\ \E u \in urls, b \in Digests : PutObject(u.object, b, u.sha256)
  /\ UNCHANGED <<rows, uploads, locked>>
  /\ UNCHANGED uploadVars

(* Fifteen minutes pass.                                                   *)
UrlExpires ==
  /\ \E u \in urls : urls' = urls \ {u}
  /\ UNCHANGED <<rows, uploads, locked, objects, origin, ids, exposed, creators,
                 uploaders, uploadLog>>

-----------------------------------------------------------------------------
(* UploadContent and Complete.                                             *)

Step(u, pc) == uploaders' = [uploaders EXCEPT ![u].pc = pc]

(* UploadContent's get and status check; the body is read afterwards.      *)
ContentGet(u) ==
  /\ uploaders[u].pc = "new"
  /\ \E d \in Docs :
       uploaders' = [uploaders EXCEPT ![u] =
         [pc |-> IF rows[d].status = "pending_upload" THEN "reading" ELSE "refused",
          doc |-> d]]
  /\ UNCHANGED <<rows, uploads, locked, objects, origin, ids, urls, exposed,
                 creators, uploadLog>>

(* Faulty variant: the body is stored unhashed.                            *)
ContentPutUnchecked(u) ==
  LET d == uploaders[u].doc IN
  /\ uploaders[u].pc = "reading"
  /\ \E body \in Digests : PutObject(d, body, origin[d].payload.digest)
  /\ Step(u, "stored")
  /\ UNCHANGED <<rows, uploads, locked, origin, ids, urls, exposed, creators,
                 uploadLog>>

(* The whole body was read; only a body with the declared digest is stored.*)
ContentPut(u) ==
  LET d == uploaders[u].doc
      declared == origin[d].payload.digest IN
  /\ uploaders[u].pc = "reading"
  /\ \E body \in Digests :
       IF body = declared
         THEN PutObject(d, body, declared) /\ Step(u, "stored")
         ELSE Step(u, "refused") /\ UNCHANGED objects
  /\ UNCHANGED <<rows, uploads, locked, origin, ids, urls, exposed, creators,
                 uploadLog>>

(* Complete's get and status check, for the complete route and at the end  *)
(* of UploadContent.                                                       *)
CompleteGet(u) ==
  /\ uploaders[u].pc \in {"new", "stored"}
  /\ \E d \in Docs :
       /\ uploaders[u].pc = "stored" => d = uploaders[u].doc
       /\ uploaders' = [uploaders EXCEPT ![u] =
            [pc |-> IF rows[d].status = "pending_upload" THEN "pending" ELSE "refused",
             doc |-> d]]
  /\ UNCHANGED <<rows, uploads, locked, objects, origin, ids, urls, exposed,
                 creators, uploadLog>>

CompleteVerify(u) ==
  /\ uploaders[u].pc = "pending"
  /\ IF Verify(uploaders[u].doc, origin[uploaders[u].doc].payload.digest)
       THEN Step(u, "verified")
       ELSE Step(u, "refused")
  /\ UNCHANGED <<rows, uploads, locked, objects, origin, ids, urls, exposed,
                 creators, uploadLog>>

(* The guarded UPDATE; a request that lost the race to it gets an error.   *)
CompleteUpdate(u) ==
  LET d == uploaders[u].doc IN
  /\ uploaders[u].pc = "verified"
  /\ d \notin locked
  /\ \/ MarkUploaded(d) /\ Step(u, "logging")
     \/ /\ rows[d].status # "pending_upload"
        /\ Step(u, "refused")
        /\ UNCHANGED <<rows, uploads>>
  /\ UNCHANGED <<locked, objects, origin, ids, urls, exposed, creators, uploadLog>>

CompleteLog(u) ==
  /\ uploaders[u].pc = "logging"
  /\ uploadLog' =
       uploadLog \cup {<<"upload_verified_quarantined", uploaders[u].doc>>}
  /\ Step(u, "accepted")
  /\ UNCHANGED <<rows, uploads, locked, objects, origin, ids, urls, exposed, creators>>

(* A call fails or the client goes away.                                   *)
UploaderAbort(u) ==
  /\ uploaders[u].pc \in {"reading", "stored", "pending", "verified", "logging"}
  /\ Step(u, "refused")
  /\ UNCHANGED <<rows, uploads, locked, objects, origin, ids, urls, exposed,
                 creators, uploadLog>>

-----------------------------------------------------------------------------
(* The environment: the scanner moves the rows on, evidence checks lock    *)
(* them.                                                                   *)

Scanned(d) ==
  /\ ScannedRow(d)
  /\ UNCHANGED <<uploads, locked, objects>>
  /\ UNCHANGED uploadVars

Lock ==
  /\ locked' \in SUBSET Lockable
  /\ UNCHANGED <<rows, uploads, objects>>
  /\ UNCHANGED uploadVars

-----------------------------------------------------------------------------
CreatorNext(c) ==
  CreateLookup(c) \/ CreateInsert(c) \/ CreateAnswer(c) \/ CreateFail(c)

UploaderNext(u) ==
  \/ ContentGet(u) \/ ContentPut(u)
  \/ CompleteGet(u) \/ CompleteVerify(u) \/ CompleteUpdate(u) \/ CompleteLog(u)
  \/ UploaderAbort(u)

UploadNext ==
  \/ \E c \in Creators : CreatorNext(c)
  \/ \E u \in Uploaders : UploaderNext(u)
  \/ PutViaUrl
  \/ UrlExpires

Environment == (\E d \in Docs : Scanned(d)) \/ Lock

Next == UploadNext \/ Environment

Spec == Init /\ [][Next]_vars

-----------------------------------------------------------------------------
(* Whatever is written through presigned URLs, concurrent pushes and late  *)
(* retries, a document beyond pending_upload has an object, and its        *)
(* metadata is the digest its row declares.                                *)
QuarantinedIsStored ==
  \A d \in Docs :
    rows[d].status \notin {"absent", "pending_upload"} =>
      Stored(d) /\ objects[d].sha256 = origin[d].payload.digest

Completed(u) == uploaders[u].pc \in {"logging", "accepted"}

(* An upload is taken into quarantine by one request: of several that all  *)
(* verified the object, the others are refused.                            *)
OneCompletion ==
  \A u, v \in Uploaders :
    Completed(u) /\ Completed(v) /\ uploaders[u].doc = uploaders[v].doc => u = v

Named(c) == creators[c].pc \in {"found", "committed", "answered"}

(* Create is idempotent: all successful answers to the same body with the  *)
(* same key, concurrent or retried, name the same document.                *)
SameRequestSameDocument ==
  \A b, c \in Creators :
    Named(b) /\ Named(c) /\ creators[b].request = creators[c].request =>
      creators[b].doc = creators[c].doc

(* A source and content are one document, whoever registers them and under *)
(* whatever keys: sessions for the same source reference, document type    *)
(* and content that are answered at all are answered with the same         *)
(* document, also long after it left pending_upload.                       *)
SameSourceSameDocument ==
  \A b, c \in Creators :
    LET p == creators[b].request.payload
        q == creators[c].request.payload IN
    Named(b) /\ Named(c) /\ p.source = q.source /\ p.source # NoSource
      /\ p.digest = q.digest
      => creators[b].doc = creators[c].doc

(* Whatever is stored for a document no presigned URL was ever answered    *)
(* for is the very content its row declares: UploadContent checks what it  *)
(* stores, and no other request's PUT or late write reaches its key.       *)
MediatedBytesAuthentic ==
  \A d \in Docs \ exposed :
    Stored(d) =>
      /\ origin[d] # NoRequest
      /\ objects[d].bytes = origin[d].payload.digest

Abstract == INSTANCE Lifecycle WITH
  phase <- [d \in Docs |-> rows[d].status],
  tries <- [d \in Docs |-> rows[d].attempts]

(* Every document goes through registration and quarantine once, also when *)
(* its session is refreshed, replayed or completed concurrently.           *)
ImplementsLifecycle == Abstract!Spec

(* internal/documents/service.go:192, of pushing content through the API:  *)
(* "the resulting state is identical to the presigned-URL path".  What is  *)
(* put through the answered URL is the object of the answered document.    *)
UrlWritesItsDocument ==
  \A c \in Creators :
    creators[c].pc = "answered" /\ creators[c].object # NoDoc =>
      creators[c].object = creators[c].doc

(* The key a URL is presigned for is its document's own or nobody's: a     *)
(* session that refreshes a row is answered with the key of a row that was *)
(* not inserted, and no later session's document ever gets that key.  What *)
(* a client puts is lost at worst, and overwrites no other document.       *)
UrlWritesNoOther ==
  \A c \in Creators :
    creators[c].pc = "answered" /\ creators[c].object # NoDoc =>
      \/ creators[c].object = creators[c].doc
      \/ rows[creators[c].object].status = "absent"

(* README.md:16, "declared SHA-256 ... validation after upload": a         *)
(* document in quarantine holds the bytes its row declares.                *)
DigestValidated ==
  \A d \in Docs :
    rows[d].status = "quarantined" =>
      objects[d].bytes = origin[d].payload.digest
=============================================================================
