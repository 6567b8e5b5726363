--------------------------- MODULE DocumentService ---------------------------
(***************************************************************************)
(* The whole service: the API's write side (Upload) and read side          *)
(* (Retrieval) and the scanner processes (Scanner) over one documents      *)
(* table and one bucket.  The append-only document_audit_events table is   *)
(* split by who appends: uploadLog, scanLog, accessLog.                    *)
(*                                                                         *)
(* Each component was specified with the others as its environment; here   *)
(* they are each other's environment, and nothing else acts.               *)
(***************************************************************************)
EXTENDS ObjectStore

CONSTANTS
  Creators, Uploaders, Keys, Sources, NoSource, Facts, Extras, Payloads,
  NoRequest, Workers, Reporters, Readers, NoDigest

VARIABLES
  origin, ids, urls, exposed, creators, uploaders, uploadLog,  \* Upload
  workers, reporters, scanLog,                                 \* Scanner
  readers, accessLog,                                          \* Retrieval
  cleared  \* history: <<d, x>> when a scan of d's object found content x clean

(* The sha256_hex column, as Retrieval sees it.                            *)
declared == [d \in Docs |-> IF origin[d] = NoRequest
                              THEN NoDigest ELSE origin[d].payload.digest]

U == INSTANCE Upload
S == INSTANCE Scanner
R == INSTANCE Retrieval

(* The assumptions of the components.                                      *)
ASSUME PayloadsAssumption == Payloads \subseteq U!Payload
ASSUME NoSourceAssumption == NoSource \notin Sources
ASSUME NoRequestAssumption == NoRequest \notin U!Request
ASSUME NoDigestAssumption == NoDigest \notin Digests

uploadVars == <<origin, ids, urls, exposed, creators, uploaders, uploadLog>>
scanVars == <<workers, reporters, scanLog>>
retrievalVars == <<readers, accessLog>>
vars == <<rows, uploads, locked, objects, origin, ids, urls, exposed, creators,
          uploaders, uploadLog, workers, reporters, scanLog, readers, accessLog,
          cleared>>

(* What the scan that ends in this step finds clean: the content of the    *)
(* object as it is then.                                                   *)
FoundClean ==
  {<<workers[w].doc, objects[workers[w].doc].bytes>> :
     w \in {v \in Workers : /\ workers[v].pc = "claimed"
                            /\ workers'[v].pc = "scanned"
                            /\ workers'[v].outcome = "clean"}}

Init ==
  /\ TableInit /\ StoreInit /\ U!UploadInit /\ S!ScanInit /\ R!RetrievalInit
  /\ cleared = {}

Next ==
  \/ /\ UNCHANGED scanVars /\ UNCHANGED retrievalVars /\ U!UploadNext
     /\ UNCHANGED cleared
  \/ /\ UNCHANGED uploadVars /\ UNCHANGED retrievalVars /\ S!ScanNext
     /\ cleared' = cleared \cup FoundClean
  \/ /\ UNCHANGED uploadVars /\ UNCHANGED scanVars /\ R!RetrievalNext
     /\ UNCHANGED cleared

Spec == Init /\ [][Next]_vars

-----------------------------------------------------------------------------
(* What follows: every component finds the environment it was specified    *)
(* for, so all that holds of a component alone holds of it in the service. *)

(* What scanners and readers do to rows and locks is what Upload allows    *)
(* its environment: claims, lapses and guarded outcomes on unlocked rows.  *)
IsUpload == U!Spec

(* What sessions, PUTs, completions and evidence checks do is what Scanner *)
(* allows: rows registered once, quarantined once and with an object.      *)
IsScanner == S!Spec

(* What uploads and scanners do is what Retrieval allows: no declared      *)
(* digest changes, and no row under a share lock.                          *)
IsRetrieval == R!Spec

(* The first verdict of a document is the one its row keeps and the only   *)
(* one in the audit log, when scanners, the scan-result endpoint, late     *)
(* uploads and evidence checks all act on the row.                         *)
FirstVerdictStands == S!FirstVerdictStands

(* A document whose upload went through the API alone (the staff, case,    *)
(* payment and bank-account routes): what a download or a stream serves is *)
(* the version its row declares, and the one an evidence check was asked   *)
(* for, however uploads, scans, retries and reads interleave.              *)
MediatedVersionServed ==
  \A r \in Readers :
    readers[r].pc = "served" /\ readers[r].doc \notin exposed =>
      /\ readers[r].served = origin[readers[r].doc].payload.digest
      /\ readers[r].digest # NoDigest => readers[r].served = readers[r].digest
(* Content x of d was found clean, or a scan-result request vouched for d. *)
FoundOrVouched(d, x) ==
  \/ <<d, x>> \in cleared
  \/ \E q \in Reporters : reporters[q].doc = d /\ reporters[q].outcome = "clean"

(* README.md:22, "clean-file release", of the content and not of the row.  *)
(* For a document whose upload went through the API alone, the content a   *)
(* reader is served, and the version an evidence check confirms, is what a *)
(* scanner read from the bucket and found clean, unless a scan-result      *)
(* request vouched for the document.  Late pushes, repeated scans, lost    *)
(* leases and restarts do not come between the scan and the reader.        *)
ServedWasScanned ==
  \A r \in Readers :
    LET d == readers[r].doc IN
    d \notin exposed =>
      /\ readers[r].pc = "served" => FoundOrVouched(d, readers[r].served)
      /\ readers[r].pc = "verified" => FoundOrVouched(d, readers[r].digest)
=============================================================================
