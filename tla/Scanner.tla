------------------------------- MODULE Scanner -------------------------------
(***************************************************************************)
(* The malware scanner (any number of cmd/scanner processes, the Workers), *)
(* and the scan-result endpoint of the API (the requests in Reporters),    *)
(* which records verdicts through the same RecordScan.                     *)
(*                                                                         *)
(* A worker claims the oldest candidate row, reads its object and has it   *)
(* scanned, records the outcome, then appends the audit event: four steps, *)
(* each a round trip of its own, and it can be stopped between any two.    *)
(* The rest of the service is the environment: it registers documents,     *)
(* stores objects, quarantines uploads and share-locks rows.               *)
(***************************************************************************)
EXTENDS ObjectStore, FiniteSets

CONSTANTS
  Workers,    \* scanner processes
  Reporters   \* requests to /v1/internal/documents/{id}/scan-result

VARIABLES
  workers,    \* what each worker is doing
  reporters,  \* where each scan-result request is
  scanLog     \* the malware_scan_<outcome> events of document_audit_events

scanVars == <<workers, reporters, scanLog>>
vars == <<rows, uploads, locked, objects, workers, reporters, scanLog>>

NotRecorded == "none"

Idle == [pc |-> "idle", doc |-> NoDoc, outcome |-> NotRecorded,
         inLease |-> FALSE]

(* inLease is a history variable: less than the lease's three minutes have *)
(* passed since this worker's claim.                                       *)
Worker == [pc      : {"idle", "claimed", "scanned", "logging"},
           doc     : Docs \cup {NoDoc},
           outcome : Outcome \cup {NotRecorded},
           inLease : BOOLEAN]

Reporter == [pc      : {"new", "logging", "accepted", "refused"},
             doc     : Docs \cup {NoDoc},
             outcome : Outcome \cup {NotRecorded}]

ScanInit ==
  /\ workers = [w \in Workers |-> Idle]
  /\ reporters = [r \in Reporters |->
                    [pc |-> "new", doc |-> NoDoc, outcome |-> NotRecorded]]
  /\ scanLog = {}

Init == TableInit /\ StoreInit /\ ScanInit

(* The type invariant.                                                     *)
TypeOK ==
  /\ TableTypeOK
  /\ StoreTypeOK
  /\ workers \in [Workers -> Worker]
  /\ reporters \in [Reporters -> Reporter]
  /\ scanLog \subseteq Docs \X Outcome

-----------------------------------------------------------------------------
(* The worker.                                                             *)

Claim(w) ==
  /\ workers[w].pc = "idle"
  /\ \E d \in Candidates :
       /\ Oldest(d)
       /\ ClaimRow(d)
       /\ workers' = [workers EXCEPT ![w] =
                        [Idle EXCEPT !.pc = "claimed", !.doc = d,
                                     !.inLease = TRUE]]
  /\ UNCHANGED <<uploads, locked, objects, reporters, scanLog>>

(* Open and Scan: clamd's verdict on the bytes read, or "failed" when      *)
(* clamd cannot be reached, breaks off or answers something else.          *)
Scan(w) ==
  /\ workers[w].pc = "claimed"
  /\ Stored(workers[w].doc)
  /\ \E o \in Outcome :
       workers' = [workers EXCEPT ![w].pc = "scanned",
                                  ![w].outcome = o]
  /\ UNCHANGED <<rows, uploads, locked, objects, reporters, scanLog>>

(* Faulty variant: the UPDATE without its WHERE on status and scan_status. *)
RecordUnguarded(w) ==
  /\ workers[w].pc = "scanned"
  /\ RecordOutcome(workers[w].doc, workers[w].outcome)
  /\ workers' = [workers EXCEPT ![w].pc = "logging"]
  /\ UNCHANGED <<uploads, locked, objects, reporters, scanLog>>

(* RecordScan's UPDATE.  It waits for a share lock on the row.  When the   *)
(* row no longer takes an outcome the worker gives up with a conflict.     *)
Record(w) ==
  LET d == workers[w].doc
      o == workers[w].outcome IN
  /\ workers[w].pc = "scanned"
  /\ d \notin locked
  /\ IF Recordable(d)
       THEN /\ RecordOutcome(d, o)
            /\ workers' = [workers EXCEPT ![w].pc = "logging"]
       ELSE /\ workers' = [workers EXCEPT ![w] = Idle]
            /\ UNCHANGED rows
  /\ UNCHANGED <<uploads, locked, objects, reporters, scanLog>>

(* RecordScan's audit INSERT, a statement of its own.                      *)
Log(w) ==
  /\ workers[w].pc = "logging"
  /\ scanLog' = scanLog \cup {<<workers[w].doc, workers[w].outcome>>}
  /\ workers' = [workers EXCEPT ![w] = Idle]
  /\ UNCHANGED <<rows, uploads, locked, objects, reporters>>

(* The cycle ends early: a database or object-store error, SIGTERM (which  *)
(* cancels the context of every call) or a crash.  A process that never    *)
(* starts again takes no further step.                                     *)
Stop(w) ==
  /\ workers[w].pc # "idle"
  /\ workers' = [workers EXCEPT ![w] = Idle]
  /\ UNCHANGED <<rows, uploads, locked, objects, reporters, scanLog>>

(* Three minutes pass after the last claim of d.                           *)
Lapse(d) ==
  /\ \/ rows[d].lease = "live"
     \/ \E w \in Workers : workers[w].doc = d /\ workers[w].inLease
  /\ rows' = [rows EXCEPT ![d].lease = IF @ = "live" THEN "lapsed" ELSE @]
  /\ workers' = [w \in Workers |->
                   IF workers[w].doc = d
                     THEN [workers[w] EXCEPT !.inLease = FALSE]
                     ELSE workers[w]]
  /\ UNCHANGED <<uploads, locked, objects, reporters, scanLog>>

-----------------------------------------------------------------------------
(* The scan-result endpoint: one request each.                             *)

(* Faulty variant: the same, from the endpoint.                            *)
ReportUnguarded(r) ==
  /\ reporters[r].pc = "new"
  /\ \E d \in Docs, o \in Outcome :
       /\ RecordOutcome(d, o)
       /\ reporters' = [reporters EXCEPT ![r] =
            [pc |-> "logging", doc |-> d, outcome |-> o]]
  /\ UNCHANGED <<uploads, locked, objects, workers, scanLog>>

Report(r) ==
  /\ reporters[r].pc = "new"
  /\ \E d \in Docs \ locked, o \in Outcome :
       IF Recordable(d)
         THEN /\ RecordOutcome(d, o)
              /\ reporters' = [reporters EXCEPT ![r] =
                   [pc |-> "logging", doc |-> d, outcome |-> o]]
         ELSE /\ reporters' = [reporters EXCEPT ![r].pc = "refused"]
              /\ UNCHANGED rows
  /\ UNCHANGED <<uploads, locked, objects, workers, scanLog>>

ReportLog(r) ==
  /\ reporters[r].pc = "logging"
  /\ scanLog' = scanLog \cup {<<reporters[r].doc, reporters[r].outcome>>}
  /\ reporters' = [reporters EXCEPT ![r].pc = "accepted"]
  /\ UNCHANGED <<rows, uploads, locked, objects, workers>>

(* The client disconnects (cancelling the request's context), the API      *)
(* stops, or the INSERT fails.                                             *)
ReportAbort(r) ==
  /\ reporters[r].pc = "logging"
  /\ reporters' = [reporters EXCEPT ![r].pc = "refused"]
  /\ UNCHANGED <<rows, uploads, locked, objects, workers, scanLog>>

-----------------------------------------------------------------------------
(* The environment: what the other components do to the shared state.      *)

Register(d) ==
  /\ rows[d].status = "absent"
  /\ InsertRow(d)
  /\ UNCHANGED <<uploads, locked, objects>>
  /\ UNCHANGED scanVars

Store(d) ==
  /\ \E b, sha \in Digests : PutObject(d, b, sha)
  /\ UNCHANGED tableVars
  /\ UNCHANGED scanVars

Uploaded(d) ==
  /\ Stored(d)
  /\ d \notin locked
  /\ MarkUploaded(d)
  /\ UNCHANGED <<locked, objects>>
  /\ UNCHANGED scanVars

Lock ==
  /\ locked' \in SUBSET Lockable
  /\ UNCHANGED <<rows, uploads, objects>>
  /\ UNCHANGED scanVars

-----------------------------------------------------------------------------
WorkerNext(w) == Claim(w) \/ Scan(w) \/ Record(w) \/ Log(w) \/ Stop(w)

ReporterNext(r) == Report(r) \/ ReportLog(r) \/ ReportAbort(r)

ScanNext ==
  \/ \E w \in Workers : WorkerNext(w)
  \/ \E d \in Docs : Lapse(d)
  \/ \E r \in Reporters : ReporterNext(r)

Environment ==
  \/ \E d \in Docs : Register(d) \/ Store(d) \/ Uploaded(d)
  \/ Lock

Next == ScanNext \/ Environment

Spec == Init /\ [][Next]_vars

(* One scanner process keeps running: main starts a cycle every two        *)
(* seconds whatever became of the last one.  The others may stop for good  *)
(* at any point (the deployment names no restart policy).  A lease is a    *)
(* timestamp and lapses by itself.  Nothing is assumed of requests or of   *)
(* other components, nor that any scan succeeds.                           *)
Fairness ==
  /\ \E w \in Workers : WF_vars(WorkerNext(w))
  /\ \A d \in Docs : WF_vars(Lapse(d))

FairSpec == Spec /\ Fairness

-----------------------------------------------------------------------------
(* The lifecycle columns of a row agree with each other after any          *)
(* interleaving of claims, lapses and late outcomes: a verdict and a       *)
(* final status are recorded together, a lease exists exactly while the    *)
(* row says "scanning", and nothing of a scan precedes the quarantine.     *)
RowConsistent ==
  \A d \in Docs :
    /\ rows[d].status = "available" <=> rows[d].scan = "clean"
    /\ rows[d].status = "rejected" <=> rows[d].scan = "infected"
    /\ rows[d].scan = "scanning" <=> rows[d].lease # "none"
    /\ rows[d].status \in {"absent", "pending_upload"} =>
         rows[d].scan = "pending" /\ rows[d].attempts = 0

(* The verdicts on d that are logged or about to be.                       *)
Verdicts(d) ==
  {o \in {"clean", "infected"} :
     \/ <<d, o>> \in scanLog
     \/ \E w \in Workers : /\ workers[w].pc = "logging"
                           /\ workers[w].doc = d /\ workers[w].outcome = o
     \/ \E r \in Reporters : /\ reporters[r].pc = "logging"
                             /\ reporters[r].doc = d /\ reporters[r].outcome = o}

(* The first verdict stands: a verdict of a document that is in the audit  *)
(* log, or about to be, is the one its row holds, whatever late workers    *)
(* and requests report, so that the log never says both clean and          *)
(* infected.                                                               *)
FirstVerdictStands ==
  \A d \in Docs : \A o \in Verdicts(d) : rows[d].scan = o

(* Every scan in progress was taken from the document's retry budget, also *)
(* when leases lapse under slow workers: never more than MaxAttempts       *)
(* workers are at one document.                                            *)
ScansWithinBudget ==
  \A d \in Docs :
    Cardinality({w \in Workers : workers[w].doc = d}) <= rows[d].attempts

Abstract == INSTANCE Lifecycle WITH
  phase <- [d \in Docs |-> rows[d].status],
  tries <- [d \in Docs |-> rows[d].attempts]

(* Every document sees one registration, one quarantine and one verdict,   *)
(* and at most MaxAttempts scans, all in quarantine.                       *)
ImplementsLifecycle == Abstract!Spec

Exhausted(d) == rows[d].attempts = MaxAttempts

(* No document is lost in quarantine: whatever scanners died with it in    *)
(* hand and whoever recorded a failure for it, a document that is neither  *)
(* settled nor exhausted can be claimed, or will be when a lease that is   *)
(* running lapses.                                                         *)
NoneIsStuck ==
  \A d \in Docs :
    rows[d].status = "quarantined" /\ ~Exhausted(d) =>
      Claimable(d) \/ rows[d].lease = "live"

(* Every quarantined document eventually gets its verdict or has used up   *)
(* its attempts: no crash, lost lease or failing neighbour starves it.  An *)
(* evidence check that finds its row locked again and again could (SKIP    *)
(* LOCKED), and is the one exception.                                      *)
ScanSettles ==
  \A d \in Docs :
    \/ []<>(d \in locked)
    \/ (rows[d].status = "quarantined") ~>
         (rows[d].status \in {"available", "rejected"} \/ Exhausted(d))

Scanning(w, d) == workers[w].doc = d /\ workers[w].pc \in {"claimed", "scanned"}

(* README.md:21, "PostgreSQL leases": a lease gives its holder the row.    *)
(* No two workers are busy scanning the same document while both are       *)
(* within the three minutes of their claim.                                *)
LeaseExclusive ==
  \A v, w \in Workers, d \in Docs :
    Scanning(v, d) /\ Scanning(w, d) /\ workers[v].inLease /\ workers[w].inLease
      => v = w

(* README.md:22, "clean-file release and infected-file rejection with      *)
(* append-only scan evidence": once nobody is about to write it, the       *)
(* verdict of a released or rejected document is in the audit log.         *)
VerdictHasEvidence ==
  \A d \in Docs :
    rows[d].scan \in {"clean", "infected"} =>
      rows[d].scan \in Verdicts(d)
=============================================================================
