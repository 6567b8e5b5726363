# Verification of the MightyFin document service

TLA+ models of the document service of this repository, the TLC runs that check
them and the proofs that TLAPS checks. Paths such as `service.go:256` are below
`internal/` (`documents/service.go`) or the repository's root.

## 1. The system

Two programs share one PostgreSQL database and one S3-compatible bucket:

- **the API** (`cmd/api`): HTTP handlers over `documents.Service`. Each request is
  a goroutine; there is no shared state in memory, so every interleaving happens
  at the round trips to PostgreSQL, to the bucket, to the party service or to the
  owner services that grant access;
- **the scanner** (`cmd/scanner`), any number of processes: a loop that claims one
  quarantined document every two seconds, sends its object to clamd and records
  the outcome.

A document is a row: `pending_upload` -> `quarantined` -> `available` or `rejected`,
with a scan status (`pending`, `scanning`, `clean`, `infected`, `failed`), a count of
scan attempts and a lease. Its bytes are one object whose key embeds the
document's random id. Every operation appends to `document_audit_events`, which a
trigger makes append-only.

### Inventory

| Component | State | Operations | What is hard | What makes it correct |
|---|---|---|---|---|
| documents table (migrations, `service.go`) | rows, row locks | INSERT .. ON CONFLICT, guarded UPDATEs, claim with FOR UPDATE SKIP LOCKED, SELECT FOR SHARE | each statement is atomic, no operation is: nearly all are several statements | the columns of a row agree; the life cycle moves forward only |
| object store (`objectstore/s3.go`) | objects with `sha256` metadata; presigned requests that expire by time | PUT, HEAD (`Verify`), GET, presigning | a PUT can arrive at any time within 15 minutes; HEAD sees metadata, not bytes | what leaves `pending_upload` is stored as declared |
| upload API (`service.go:80-244`) | idempotency keys, unique source/content index, URLs handed out | Create, UploadContent, Complete | duplicated and concurrent sessions, retry after a lost answer, two completions, a push that outlives the status it checked | the same request names the same document; one completion; content pushed through the API is authentic |
| malware scanner (`cmd/scanner/main.go`, `malware/clamd.go`, `service.go:245`) | lease, attempts, each process's document in hand | claim, scan, RecordScan, audit; the scan-result endpoint | lease lapses under a slow scanner, crash between any two steps, late outcome, starvation | one verdict, never revised; scans within the budget; every document settles or exhausts it |
| retrieval (`service.go:266`, `evidence.go`, `case.go`, `bank_account.go`) | open transactions and their share locks | Download, Evidence, OpenEvidence and the bank-account forms | scans racing the check, audit before answer, leaked locks | the checked row stands still, the answer stays true, nothing is answered unaudited |
| access grants (`httpserver/*_access.go`, `payment_access.go`) | none; a grant per request from Decision Engine or Payment Rails | authorizeCase, authorizeBankEvidence, authorizeBankAccount, checkPaymentAccess | three kinds of scope, tenantless callers, a private partition without tenant | a restricted document is reached only with its own grant |
| case listing (`case.go:10-30`, `case_access.go:86-100`) | cursor | CaseUploads | filter after LIMIT | every visible document is listed once |
| clamd client | one TCP exchange | INSTREAM | truncated answers, deadlines | only clamd's own OK yields `clean` |
| token and routing (`auth.go`, `server.go`) | none | Verify, require, scope | claims that may be absent, and defaults for them | each route acts for the token it was given |
| party client | none | Exists | asked in a tenant and environment that Create may have defaulted | a party exists where its document is stored |
| config, migrations, start-up | fixed at start-up | | | not modelled, see section 7 |

The interactions: the API's write side creates rows and objects and moves rows
into quarantine; scanners move them out; the read side reads rows (under share
locks for evidence) and objects. A share lock makes the claim pass over the row
and makes every UPDATE of it wait. There are no callbacks and no messages between
the programs: the table is the queue.

The hazards of this code, each at its line, are listed in `PROJECT.json` with the
properties that watch them.

## 2. Modules

| Module | Models | Correspondence |
|---|---|---|
| `DocumentTable` | the lifecycle columns of `documents` and each statement on them | `rows`: status, scan_status, scan_attempts, scan_lease_until; `uploads`: order of uploaded_at; `locked`: share-locked rows. `InsertRow`, `MarkUploaded`, `Claimable`/`Oldest`/`ClaimRow`, `Recordable`/`RecordOutcome` are the INSERT of Create, the UPDATE of Complete, the claim, and RecordScan's UPDATE |
| `ObjectStore` | the bucket (extends `DocumentTable`) | `objects`, `PutObject`, `Verify` |
| `Lifecycle` | **abstract specification**: what the service promises of one document | registered once, quarantined once, one verdict, at most MaxAttempts scans, all in quarantine |
| `Scanner` | scanner processes and scan-result requests | `Claim`, `Scan`, `Record`, `Log` are the four round trips of `processOne`; `Stop` ends a cycle after any of them; `Lapse` is three minutes passing; `Report`, `ReportLog`, `ReportAbort` the endpoint |
| `Upload` | Create, presigned PUTs, UploadContent, Complete | a Creator is one session request: `CreateLookup`, `CreateInsert` (one transaction), `CreateAnswer`, `CreateFail`; an Uploader is one content or complete request: `ContentGet`, `ContentPut`, `CompleteGet`, `CompleteVerify`, `CompleteUpdate`, `CompleteLog`, `UploaderAbort` |
| `Retrieval` | Download, evidence checks, streams | a Reader is one request: `DownloadGet`, `DownloadLog`, `DownloadFetch`; `EvidenceSelect`, `EvidenceCheck`, `EvidenceCommit`; `OpenGet`, `OpenLog`, `OpenStream`; `ReaderAbort` |
| `DocumentService` | the composition of the last three over one table and bucket | each component's actions with the others' variables unchanged; `cleared` is a history variable: which content of which document a scanner found clean |
| `AccessPolicy` | **abstract specification**: which document a request may be answered with, given on whose authority it was made | environment and tenant isolated, a grant confers its own case only, restricted purposes open to their own kind of grant only, a version asked for by digest is that version |
| `Access` | every route from the token to the row it acts on | `docs`: the partition columns of `documents`; `requests`: where each request is, its grant, the row last found. `Receive` is authenticate and the checks before any call; `Grant` the owner service's answer and its comparison with the question; `LookUp` the first lookup, `Serve` the one that acts (Complete's UPDATE, or the row whose object is streamed), `Create` the INSERT, `Finish` the answer's end or a refusal. Each row of a case listing is an answer (`CaseUploads`). `CheckPaymentAccess`, `Get`, `CaseUpload`, `VerifyEvidence`, `BankAccountDocument`, `ValidBankAccountScope` are the service's functions of these names |
| `CaseListing` | a client that pages through a case | `List` is one request: query with LIMIT, filter, cursor; `Register` is any other session in between |
| `Clamd` | one scan: `Clamd.Scan` and the daemon | each Write or Read of the connection is a step; `Readings` is how an answer is judged; `Deadline` the connection's deadline passing |
| `TableProofs`, `ScannerProofs`, `UploadProofs`, `RetrievalProofs`, `ServiceProofs`, `AccessProofs`, `CaseListingProofs`, `ClamdProofs` | proofs | section 5 |
| `MC*` | instances for TLC | model values, request bodies, symmetry |

`Scanner`, `Upload` and `Retrieval` are open systems: each has an environment that
does to the shared variables what the other components may do. The environments
are not taken on trust: `DocumentService` has no environment, and its properties
`IsUpload`, `IsScanner`, `IsRetrieval` say that the composition implements each
component's specification, environment included; `ServiceProofs` proves it.

### Modelling decisions

- **Steps.** One SQL statement (or one transaction with nothing between its
  statements that others could see) is one step; so is one call to the bucket.
  Everything between two round trips belongs to the step before it. A request
  can end after any step, which stands for an error, a client that goes away
  (its context is cancelled) and a crash of the API; what was committed stays.
- **Evidence transactions** are three steps (SELECT, check, INSERT with commit),
  because they hold a lock meanwhile.
- **Time** is abstract. A lease is `live` and at some moment `lapsed`; presigned
  URLs disappear at some moment. `inLease` of a worker is a history variable: less
  than three minutes since its claim.
- **Data.** A content and its declaration are members of one set `Digests` (hash
  and length together). The fields of an upload session are grouped by what the
  code tells apart: the source reference and document type (with the digest, the
  arbiter index of the INSERT), owner/purpose/classification/size (what the upsert
  compares), and the rest (only the request hash sees them). The hash of a body is
  the body itself. Ids are random in the code; here an id is one not issued before.
  The object key embeds the id, so the document id stands for it.
- **One partition.** In the lifecycle modules tenant, environment and source
  application are the same for all rows; they partition the unique indexes and
  every lookup. `Access` has several of each and leaves the lifecycle out: there a
  document's status only ever ends a request early, which `Finish` allows anywhere.
- **Access: data.** A tenant id is a source reference that begins with `ten_`; ids of
  payments, accounts and applications do not (`IdsAssumption`). One purpose
  (`credit_assessment`) stands for all that are open to ordinary callers, two owner
  types for the six: the code tells only PARTY (the party is looked up) and
  LEGAL_ENTITY (lender accounts) from the rest. `party_id` equals `owner_id` for
  PARTY and is left out. A session may be answered with any row stored for the same
  fields, which covers both a key used again and the refresh (their conditions are
  in `Upload`). On a grant route a session has two digests: the query's, which the owner
  service is asked about (`sha`) and which is optional, and the body's, which the row
  stores (`declared`); nothing compares them. `CaseRow` is the WHERE clause that the
  listing and the lookup of one upload share.
- **Owner services** (Decision Engine, Payment Rails) are external: they answer any
  owner, and their answer may be one to a question that differs in a field
  (`Strayed`). A timeout, a redirect or an answer that is not accepted ends the
  request.
- **Clamd.** Chunks are counted, not spelled out; a signature lies in chunks. The
  daemon is external. TCP may accept a write after the daemon has closed.
- **What is never assigned** is left out: statuses `uploaded` and `expired`, scan
  status `not_required`; `upload_expires_at` is written and never read.
- **Audit events** are one table in the code, split here by who appends
  (`uploadLog`, `scanLog`, `accessLog`). The brief key-share locks that its foreign
  key takes on a row make the claim pass over that row, as an evidence check does:
  the environment's `Lock` covers them.
- **The verdict.** `Scanner!Scan` chooses the outcome, so nothing about rows is proved
  on the strength of clamd's honesty; `Clamd` says what stands behind a "clean".
- The bank-account forms of the evidence check and of the stream differ from the
  party forms in the lookup's predicate and the audit action's name; both are the
  same actions here.
- `DocumentTable`, `ObjectStore` and the modules of the components contain a few
  *faulty variants*, marked as such and used by no action: the code with a guard
  dropped or a reset forgotten. `PROJECT.json` lists, for each property, the one
  that breaks it.

## 3. Runs

| Run | Question | Instance |
|---|---|---|
| `scanner` | do rows stay consistent and verdicts final, are scans within the budget, is Lifecycle implemented? can every quarantined document still be claimed, and does each settle or exhaust its attempts? | 2 documents, one of them lockable, 2 scanners, 2 attempts, under fairness |
| `sessions` | does the same request always name the same document, and the same source and content? can a URL write another document's object? | 3 session requests, 2 keys, 3 bodies, 3 ids, 1 completing request |
| `uploads` | is what leaves `pending_upload` stored as declared, completed once, authentic when pushed through the API? Lifecycle again | 2 sessions, 2 completing requests, 2 documents, 2 contents |
| `retrieval` | do checked rows stand still, answers stay true, accesses follow their events, locks get released? | 2 documents, 2 versions, 2 readers, scanner and uploads as environment |
| `service` | end to end: is what is served the declared version, and was that content scanned? do verdicts stand, whoever reports them? is each component the environment the others assume? | 1 document, 2 contents, 1 scanner, 1 attempt, 1 scan-result request, 1 session, 2 pushes or completions, 1 reader |
| `access` | does any route answer with a document its authority is not entitled to? do parties exist where documents are stored? can a session be completed by its token? | 1 document, 1 client, 2 tenants, 2 references, 2 owners, 2 versions, 4 kinds of token, production deployment |
| `case_listing` | is every document listed once, in order, whatever is registered meanwhile? | 6 ids of any kind, pages of 2 |
| `clamd` | what does "clean" stand for, and does a scan end? | 3 chunks, signatures in any of them |
| `lease_exclusive`, `verdict_evidence`, `url_document`, `digest_validated` | four statements of the repository that the code does not keep: section 6 | the smallest that shows each |

**The properties**

- `RowConsistent`: a verdict and a final status are recorded together, a lease
  exists exactly while the row says `scanning`, nothing of a scan precedes
  quarantine. It relates four columns that four statements of two programs write.
- `FirstVerdictStands`: a logged verdict, or one about to be logged, is the row's.
  A scanner whose lease lapsed, its successor and the scan-result endpoint may all
  report; the first `clean` or `infected` wins and the audit log never says both.
  `scanner` checks it for scanners that overtake each other, `service` for a scanner
  and the endpoint, over rows the real Create and Complete made.
- `ScansWithinBudget`: scanners at work on a document never outnumber the attempts
  counted, also when leases lapse under them.
- `NoneIsStuck`: a document in quarantine with attempts left can be claimed, or a
  lease that will lapse is on it. It is the safety half of `ScanSettles`: no sequence
  of claims, crashes, lapses and late outcomes leaves a row in a combination of
  columns that the claim's WHERE passes over for ever.
- `ImplementsLifecycle`: the refinement, checked from both sides (`Scanner` and
  `Upload`).
- `ScanSettles`: liveness, below.
- `SameRequestSameDocument`: Create is idempotent under concurrency, refresh and
  lost answers.
- `SameSourceSameDocument`: sessions with one source reference, document type and
  content that are answered at all are answered with one document, whatever their keys:
  the unique constraint covers rows that left `pending_upload` too, and the upsert
  refuses those instead of starting over.
- `UrlWritesNoOther`: how far the misdirected URL of section 6 reaches. Its key is one
  that no document has or will have, so that what is put there is lost and overwrites
  nothing.
- `QuarantinedIsStored`, `OneCompletion`, `MediatedBytesAuthentic`: completion.
  The last is about documents no presigned URL was ever answered for (the staff,
  case, payment and bank-account routes never answer one): whatever is stored for
  such a document, by whatever late write, is what its row declares.
- `LockedRowStands`, `EvidenceStands`, `AccessAudited`, `LocksAreHeld`: retrieval.
- `MediatedVersionServed`: the end-to-end promise of "Download the exact clean
  version" (`docs/manual-payment-evidence.md`) for documents pushed through the API.
- `ServedWasScanned`: the promise "clean-file release" (`README.md`) of the content and
  not of the row: what a reader of such a document is served, or an evidence check
  confirms, is content that a scanner read from the bucket and found clean, unless a
  scan-result request vouched for it. Between the scan and the reader there are three
  programs, a column that says nothing of the bytes, and pushes that checked the status
  before the scan.
- `ImplementsPolicy` (`Access`): the refinement of `AccessPolicy`. Each route composes
  several checks, made in different functions on different round trips; the property
  says what they amount to. A staff download of a receipt, for instance, is bound to
  its payment by one lookup and opens the object by another that is bound to the
  party only; a tenantless service account sees every tenant, and only
  `checkPaymentAccess` keeps it from receipts, statements and account evidence; an
  answer of the owner service meant for another request must fail one of eight
  comparisons.
- `OwnersExist`: two defaults (tenant from the source reference, environment
  "sandbox") are applied between the scope that was authorized and the row that is
  stored; the Party service must have been asked about the latter.
- `SessionCanComplete`: the defaults of Create, of `get` and of Complete agree, so
  that a session that was answered is one the same token can push and complete.
- `Ascending`, `Complete`: pages of a listing, each a query of its own over a table
  that grows on both sides of the cursor. `Complete` states the exception that the
  code has: a restricted row that matches the case shortens a full page by one, which
  the route takes for the last.
- `CleanIsScanned`, `ScanEnds`: no partial object and no dead daemon makes a "clean";
  the deadline ends every scan. The exception is an answer cut off after a signature
  name that ends in "OK", since the end of the connection is accepted in place of the
  terminating NUL.

**The bounds, and why they are enough.** The code fixes five attempts; the runs
use one or two (three where two live leases are needed). An attempt more is one
more round of the same four steps: overtaking needs two claims of one document,
a late outcome after a verdict needs one report more, and the scan-result request
of `service` is one; scanners that overlap are in `scanner`. The two pushes or
completions of `service` are one to complete the upload and one that checked the
status before and stores its body after the release. Two documents show what one does to another (order of claims, locks,
URLs); three ids are the least with which three sessions can each insert. Two
keys and three bodies (a body, the same with another owner, the same without a
source reference) reach each branch of the INSERT: new row, refresh, refused
refresh, conflict on the key, and a NULL source that conflicts with nothing.
In `Access` a lookup finds one row by its id (of a listing, each row is looked at on
its own), and
requests meet only through the table, which only grows: one client issues them one
after another, to one document; that a second document beside it changes nothing is
what the theorem `RefinesPolicy` adds, for any number. Two values of each field are a right one and a wrong one. The four tokens
are those the code tells apart: with a tenant; with no claims; with an environment
but no tenant or application; with a tenant and no environment. Three pages of two
rows have a first, a middle and a last page, with a restricted row on any of them;
three chunks are a first, a middle and a last one.
Requests of `Upload` and `Retrieval` are one-shot, so a model with only requests runs out of steps; those
configurations turn the deadlock check off, `MCScanner` keeps it on. Symmetry is used in runs without liveness only, over sets no property tells apart. The
theorems of section 5 have no bounds.

## 4. Fairness

`Scanner!Fairness` has two parts.

- *One* scanner process keeps running (`\E w : WF(WorkerNext(w))`): `main` loops
  for ever, starts a cycle every two seconds and only logs a cycle's error. It is
  not assumed that a cycle succeeds: `Stop` is one of the steps a fair worker may
  take. The other workers may die in the middle of a scan; the compose file names
  no restart policy.
- A lease lapses (`WF(Lapse(d))`): it is a timestamp.

`Clamd` assumes weak fairness of the conversation (a goroutine runs; a read of the
object returns in the end) and of the deadline (a clock). It assumes nothing of the
daemon, which may take, answer, refuse or die, or do nothing. That the object store
does not stall for ever is an assumption on it: no timeout of the code covers
`content.Read`, and a stalled read holds the scanner process.

Nothing is assumed of clients, of the API or of clamd. `ScanSettles` says that a
quarantined document gets a verdict or uses up its attempts. It excepts rows that
are found locked again and again: SKIP LOCKED passes over them, and no fairness
of the scanner helps. "Exhausted" includes an end in `scanning` with a lapsed
lease, when the scanner of the last attempt died: nothing but the scan-result
endpoint moves that row any more, and its scan status does not tell it from a scan
in progress.

## 5. What is proved

The theorems hold for any sets of documents, contents, requests, scanners, tenants,
tokens and ids, any positive MaxAttempts and page size, and an object of any length.
The assumptions are those of the modules: `NoDoc`, `NoObject`, `NoKey` and the like
are none of the things they stand beside, MaxAttempts is a positive number, lockable
rows are documents, session bodies have the fields of `Payload`, ids of a listing are ordered as numbers, tenant ids are told from
references, the deployment has an environment. Nothing is assumed of the tokens or
of the owner services.

| Theorem | States |
|---|---|
| `ScannerProofs`: `TypeCorrect`, `RowsStayConsistent`, `FirstVerdictAlwaysStands`, `BudgetHolds`, `NothingIsStuck`, `RefinesLifecycle` | `TypeOK`, `RowConsistent`, `FirstVerdictStands`, `ScansWithinBudget`, `NoneIsStuck`, `ImplementsLifecycle` |
| `UploadProofs`: `UploadTypeCorrect`, `QuarantinedIsAlwaysStored`, `CompletedOnce`, `CreateIdempotent`, `SourcesAreDocuments`, `UrlsWriteNoOther`, `MediatedBytesAlwaysAuthentic`, `UploadRefinesLifecycle` | `TypeOK`, `QuarantinedIsStored`, `OneCompletion`, `SameRequestSameDocument`, `SameSourceSameDocument`, `UrlWritesNoOther`, `MediatedBytesAuthentic`, `ImplementsLifecycle` |
| `UploadProofs`: `UrlsOwnWithoutSource` | a session without source reference is always given the URL of its own document |
| `RetrievalProofs`: `RetrievalTypeCorrect`, `LocksAlwaysHeld`, `LockedRowsStand`, `EvidenceAlwaysStands`, `AccessAlwaysAudited` | `TypeOK`, `LocksAreHeld`, `LockedRowStands`, `EvidenceStands`, `AccessAudited` |
| `ServiceProofs`: `ServiceIsUpload`, `ServiceIsScanner`, `ServiceIsRetrieval`, `ServiceVerdictStands`, `MediatedVersionAlwaysServed`, `ServedWasAlwaysScanned` | `IsUpload`, `IsScanner`, `IsRetrieval`, `FirstVerdictStands`, `MediatedVersionServed`, `ServedWasScanned` of the composed service |
| `ServiceProofs`: `ServiceKeepsPromises`, `ServiceScansWithinBudget`, `ServiceUrlsWriteNoOther`, `ServiceImplementsLifecycle` | the properties of the components (all but the type invariants) of the composed service |
| `ServiceProofs`: `ReleasesRestOnScans` | the invariant behind `ServedWasScanned`: a clean row whose key is unexposed has declared content that was found clean, or a voucher |
| `AccessProofs`: `AccessTypeCorrect`, `OwnersAlwaysExist`, `SessionsCanComplete`, `RefinesPolicy` | `TypeOK`, `OwnersExist`, `SessionCanComplete`, `ImplementsPolicy` |
| `AccessProofs`: `RestrictedDocumentsOfOne` | two requests answered with one restricted document act for the same payment, statement or account of one party, in one tenant and environment |
| `CaseListingProofs`: `ListingTypeCorrect`, `PagesAscend`, `ListingsComplete` | `TypeOK`, `Ascending`, `Complete` |
| `ClamdProofs`: `ClamdTypeCorrect`, `CleanMeansScanned` | `TypeOK`, `CleanIsScanned` |

### Scanner

`TypeOK` is not inductive: a worker that is not idle must have a
document in hand, and an outcome once it scanned (`InHand`), or `Record` would write
a non-outcome into a row. `Typed == TypeOK /\ InHand` is inductive; that attempts
stay within `0..MaxAttempts` rests on the claim's guard (`TableProofs!ClaimRowType`).
`RowConsistent` is inductive relative to it. `FirstVerdictStands` is not: that a
recording leaves earlier verdicts standing needs that an open row has none, which
holds because a verdict's row holds it (the invariant itself) and because an
open row holds none (`Recordable`); and that the environment's registration and
quarantine do not disturb a verdict needs `RowConsistent` (a row not yet in
quarantine has scan status `pending`). Hence `IInv == Typed /\ RowConsistent /\
FirstVerdictStands`, with two lemmas that cover all actions: one for steps that add
no verdict (`VerdictsKept`), one for the two that record an outcome (`VerdictGiven`).
The refinement maps each statement to a step of `Lifecycle`, under `Typed` and
`RowConsistent`; every other step is a stutter.

`ScansWithinBudget` is strengthened to `Budgeted`: an idle worker is at no document, and
the workers at a document are *finitely* many, no more than its attempts. Finiteness
has to be part of it because there may be infinitely many scanners, of which no
cardinality could be compared. A claim adds one worker and one attempt
(`ClaimBudgeted`); every other step takes workers away or leaves them, and no step
takes an attempt back (`BudgetKept`).

`NoneIsStuck` needs no step of its own: it is a consequence of `RowConsistent`
(`NotStuck`), which says that a row in `scanning` has a lease, live or lapsed, and that
a quarantined row in any other scan status is pending or failed. A recording that kept
the lease, or a lapse that removed it, would break exactly this.

### Upload

`IInv` adds to the properties what connects rows, requests and objects. A row and the
request that inserted it (`origin`) exist together, under an id generated for it
(`RowsHaveOrigin`); no two rows share a key, nor a source and content
(`OriginsUnique`, the two unique indexes). A URL or object may belong to an id that
has no row, because a session that refreshes another's row presigns its own fresh
key; it then never will, since ids are not generated twice. So `UrlsMatch` and
`ObjectsMatch` say: *if* a row has that id, it declares that digest. With
`BegunIsStored` this gives `QuarantinedIsStored`. `CreateIdempotent` follows from
`Origin`: the document a session was answered with was inserted by the very request,
or by one of the same source and content, and `OriginsUnique` makes either unique.
`SourcesAreDocuments` has the same two halves: an answer is the row the request inserted
or one of the same source and content, and two rows never share those.

`UrlWritesNoOther` is strengthened to `UrlsOwnOrStray`: a key that is not the document's
own has a *spent* id without a row, and its session a source reference. Spent is what
makes it inductive (`SpentStays`): the code never generates an id twice, and inserts only
under one just generated. `UrlsOwnWithoutSource` is the other half of the same invariant.
`MediatedBytesAuthentic` needs that the id of every URL is in `exposed`.

### Retrieval

`LocksAreHeld` is an equality between the locks and the checks in progress;
releasing one lock must not release the lock that another check holds on the same
row (`LockDropped`). `Holding` says that a check's row is what it read, as every step
that changes a row waits for its locks. `Checked` carries what a check established
past the end of its transaction: that is where `EvidenceStands` could fail, and it
holds because no step leads away from `available`. `Audited` needs `opening`, the
state between the second event and the object, which `AccessAudited` does not mention.

### The composed service

Each component was proved correct in an environment it merely describes, and whether
the other components stay within that description depends in turn on their own
invariants: that a claimed row is a document needs the scanner's `InHand`, that an
inserted row was absent needs the upload side's `RowsHaveOrigin`, that a reader's
locks are on lockable rows needs the read side's type invariant. The circle is broken
step by step: `Consistent` is the conjunction of the three invariants; under it, one
step of one component is an environment step of the two others (`UploadStep`,
`ScannerStep`, `RetrievalStep`), so that each component's own lemma of inductiveness
gives its invariant after the step. The three refinements follow, and with them every
theorem about a component is one about the service. `ServiceProofs` takes the
components' lemmas by instantiating their proof modules beside the instances of
`DocumentService`; the `...Same` lemmas say that the two readings of a module are one.

`MediatedVersionServed` needs all of it: the bytes are
those declared while the key is unexposed (`MediatedBytesAuthentic`, of the write
side), the row was checked (`Checked`, of the read side), and a declared digest never
changes afterwards (`UploadEffects`). `Mediated` adds that a download asks for no
version.

`ServedWasScanned` needs `Cleared` besides, an invariant that follows a verdict from the
bucket to the row: a clean outcome in a scanner's hands is one about the declared
content (`ScanFound`: the scanner read what was stored, and that is authentic while the
key is unexposed), and a clean row has such an outcome or a scan-result request behind
it (`ReleaseFound`). `CleanHasOrigin` closes the induction: a clean row has an origin, so
the content it declares does not change under the statement. No lease and no attempt
count is mentioned: a scanner that lost its lease records about the same content, which
is why the missing fence of section 6 does no harm here.

`Promises` collects what was proved of the components in their environments; in the
service it needs no induction any more, as `Consistent` is an invariant there. Only
`ScansWithinBudget` and `UrlWritesNoOther` are inductive on their own, and `Lifecycle` is
refined step by step.

### Access

`Consistent` says of each request in progress how it got where it is: its question
was one it may ask, its grant is a valid answer, its row is one the authority is
entitled to, and, for an answered session, one it can complete. The heart is two
lemmas on single lookups: `GenericEntitled` for tokens and `GrantEntitled` for grants
(`CreateEntitled` for sessions). They go through the purposes of the row and the
routes of the request: what a scope holds on each route (`GrantScope`) decides which
restricted rows `CheckPaymentAccess`, and the listing's own filter, let through. `Serve` needs that ids are unique
(in `TypeOK`): the second lookup, by the id of the request, can only find the row that the first checked, which
is why binding it to the party alone does no harm. `RestrictedAlike` draws a conclusion
for two requests at once: entitlement to a restricted row fixes kind, reference, owner,
tenant and environment. The refinement then maps `Serve`
and `Create` to `Disclose`, `Finish` to `Forget`, and all else to stutters.

### Case listing and clamd

`Separated`: while a listing runs, the cursor separates what was listed from what is
to come, of the documents there at its start. `ShortPage` is the step that needs
counting: a page of at most PageSize rows with an open row missing was cut down from
PageSize + 1 fetched rows, so a restricted one is among them, and it sorts before
the missing row. `VerdictOnWhole`: the daemon can give a verdict only after the
terminator, hence on the whole object.

### Only model-checked

`ScanSettles` and `ScanEnds`: liveness under fairness is out of the prover's reach.
The statements of section 6 are refuted, not proved.

## 6. Where the code and its documentation part

Four runs expect a violation; `PROJECT.json` quotes the statements.

- `LeaseExclusive`: RecordScan is not fenced by the lease. Scanner A's lease lapses,
  B claims; A's late `failed` clears B's lease, and A (or C) claims while B is at
  work. `FirstVerdictStands` shows that no verdict is harmed; an attempt is lost.
- `VerdictHasEvidence`: the verdict and its audit event are separate statements.
- `UrlWritesItsDocument`: a session that refreshes a pending row is answered with
  that row's document and a URL for the key of a row that was never inserted.
  `UrlWritesNoOther` and `UrlsOwnWithoutSource` are what holds all the same.
- `DigestValidated`: on the presigned path, completion compares metadata only.

More that the models show, with no run of its own:

- a session that refreshes a pending row does not store its own idempotency key
  (`Upload!CreateInsert`; the upsert sets only expiry and update time). Used again with
  the same body the key leads to the same row by its source and content; used with
  another body it inserts a second document, where a stored key gives a conflict;
- the environment of a claimless service account is the constant `sandbox`
  (`Access!DefaultEnvironment`), in a production deployment too. Create and `get` use
  the same constant, so that `SessionCanComplete` is not harmed;
- a token with a tenant and without an environment can open sessions but never find
  their documents again: Create fills the environment in, `get` does for tenantless
  callers only. It is the exception stated in `SessionCanComplete`;
- a case listing ends early when a restricted row matches the case, which takes a
  payment or account with the id of a credit application. It is the exception stated
  in `Complete`.

## 7. What is not modelled

- Signatures and claims of tokens (go-oidc), `AUTH_MODE=disabled`, JSON decoding,
  headers and status codes. Which claims, rights and scopes they lead to is in
  `Access`.
- The HTTP exchanges with the party service and the owner services: each succeeds
  with some answer or ends the request. Their five-second timeouts, and the
  server's fifteen seconds for a request, end requests anywhere, as any failure does.
- `Access` leaves out statuses and the digest of presigned downloads (`Retrieval` has
  them), `Retrieval` and `Upload` the scopes; the two are not composed. A check of
  status and a check of scope read the same immutable row columns or end the
  request, so that neither can weaken the other.
- The scope columns of a row never change: a trigger forbids it, and no statement
  tries.
- Configuration, migrations, EnsureBucket, graceful shutdown: once, before or
  after everything modelled here.
- Validation of a session's fields: rejected requests change nothing; the models
  enumerate bodies that pass it.
- PostgreSQL and S3 themselves: statements and single-object operations are
  atomic, a committed write is durable.

## 8. Plan

Done, in this order: `DocumentTable`, `ObjectStore`, `Scanner` with `Lifecycle`, its
proofs; `Upload`; `Retrieval`; `DocumentService`; `Access` with `AccessPolicy`,
`CaseListing`, `Clamd`; the proofs of all of them, `ScansWithinBudget` and the
composition; the components' promises and `Lifecycle` for the composition, and the
link from the scan to what is served. Every safety property that a run checks is a
theorem.

What is left, in order of worth:

1. `Access` over `DocumentTable`: grants and lifecycle in one model, for evidence
   that is checked against a payment while the scanner settles it.
2. `Clamd` as the environment of `Scanner!Scan`: a released document was scanned in
   full, across both models.
