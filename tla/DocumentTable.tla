---------------------------- MODULE DocumentTable ----------------------------
(***************************************************************************)
(* The PostgreSQL table "documents": the lifecycle columns of every row,   *)
(* and the SQL statements of the API and of the scanner that change them.  *)
(* A statement is atomic.  One row is one document; a document id is       *)
(* random, so a member of Docs whose status is "absent" is an id that no   *)
(* row has.                                                                *)
(*                                                                         *)
(* The tenant and environment columns are left out here: every row belongs *)
(* to one partition.  Time is abstract: a lease is "live" from the claim   *)
(* until, at an arbitrary later moment, it has "lapsed".                   *)
(***************************************************************************)
EXTENDS Naturals, Sequences

CONSTANTS
  Docs,         \* document ids (public_id); an object key embeds the id
  NoDoc,        \* "no document", in the local state of a process
  MaxAttempts,  \* scan_attempts < 5 in the scanner's claim
  Lockable      \* the documents evidence checks are made on

ASSUME NoDocAssumption == NoDoc \notin Docs
ASSUME MaxAttemptsAssumption == MaxAttempts \in Nat \ {0}
ASSUME LockableAssumption == Lockable \subseteq Docs

VARIABLES
  rows,      \* the lifecycle columns of each document
  uploads,   \* documents in the order of uploaded_at
  locked     \* rows share-locked by open evidence transactions

tableVars == <<rows, uploads, locked>>

Status == {"absent", "pending_upload", "quarantined", "available", "rejected"}
ScanStatus == {"pending", "scanning", "clean", "infected", "failed"}
Outcome == {"clean", "infected", "failed"}

Row == [status   : Status,
        scan     : ScanStatus,
        attempts : 0..MaxAttempts,
        lease    : {"none", "live", "lapsed"}]

NoRow == [status |-> "absent", scan |-> "pending", attempts |-> 0,
          lease |-> "none"]

TableInit ==
  /\ rows = [d \in Docs |-> NoRow]
  /\ uploads = <<>>
  /\ locked = {}

TableTypeOK ==
  /\ rows \in [Docs -> Row]
  /\ uploads \in Seq(Docs)
  /\ locked \subseteq Lockable

-----------------------------------------------------------------------------
(* Create's INSERT: a new row takes the column defaults.                   *)
InsertRow(d) ==
  rows' = [rows EXCEPT ![d] = [NoRow EXCEPT !.status = "pending_upload"]]

(* Faulty variant: without the WHERE.                                      *)
MarkUploadedUnguarded(d) ==
  /\ rows' = [rows EXCEPT ![d].status = "quarantined"]
  /\ uploads' = Append(uploads, d)

(* Complete's UPDATE ... WHERE status='pending_upload'.                    *)
MarkUploaded(d) ==
  /\ rows[d].status = "pending_upload"
  /\ rows' = [rows EXCEPT ![d].status = "quarantined"]
  /\ uploads' = Append(uploads, d)

-----------------------------------------------------------------------------
(* The scanner's claim: which rows are candidates, which one is taken, and *)
(* what the claim writes.                                                  *)

(* Faulty variant: without scan_attempts<5.                                *)
ClaimableBeyondBudget(d) ==
  /\ rows[d].status = "quarantined"
  /\ \/ rows[d].scan \in {"pending", "failed"}
     \/ rows[d].scan = "scanning" /\ rows[d].lease = "lapsed"

(* Faulty variant: a lapsed lease is not a candidate.                      *)
ClaimableOnce(d) ==
  /\ rows[d].status = "quarantined"
  /\ rows[d].scan \in {"pending", "failed"}
  /\ rows[d].attempts < MaxAttempts

Claimable(d) ==
  /\ rows[d].status = "quarantined"
  /\ \/ rows[d].scan \in {"pending", "failed"}
     \/ rows[d].scan = "scanning" /\ rows[d].lease = "lapsed"
  /\ rows[d].attempts < MaxAttempts

UploadedBefore(e, d) ==
  \E i, j \in DOMAIN uploads : i < j /\ uploads[i] = e /\ uploads[j] = d

(* FOR UPDATE SKIP LOCKED passes over the rows an evidence check holds.    *)
Candidates == {d \in Docs \ locked : Claimable(d)}

Oldest(d) == \A e \in Candidates : ~UploadedBefore(e, d)

(* Faulty variant: the attempt is not counted.                             *)
ClaimRowUncounted(d) ==
  rows' = [rows EXCEPT ![d].scan = "scanning", ![d].lease = "live"]

ClaimRow(d) ==
  rows' = [rows EXCEPT ![d].scan = "scanning",
                       ![d].attempts = @ + 1,
                       ![d].lease = "live"]

-----------------------------------------------------------------------------
(* RecordScan's UPDATE, issued by the scanner and by the API.              *)

(* Faulty variant: without the WHERE on status and scan_status.            *)
RecordableAlways(d) == rows[d].status # "absent"

Recordable(d) ==
  /\ rows[d].status = "quarantined"
  /\ rows[d].scan \in {"pending", "scanning", "failed"}

StatusAfter(o) ==
  CASE o = "clean"    -> "available"
    [] o = "infected" -> "rejected"
    [] o = "failed"   -> "quarantined"

(* Faulty variant: scan_lease_until is not reset.                          *)
RecordOutcomeKeepingLease(d, o) ==
  rows' = [rows EXCEPT ![d].status = StatusAfter(o), ![d].scan = o]

(* Faulty variant: fail open, a scan that failed releases the document.    *)
RecordOutcomeFailOpen(d, o) ==
  LET verdict == IF o = "failed" THEN "clean" ELSE o IN
  rows' = [rows EXCEPT ![d].status = StatusAfter(verdict),
                       ![d].scan = verdict,
                       ![d].lease = "none"]

RecordOutcome(d, o) ==
  rows' = [rows EXCEPT ![d].status = StatusAfter(o),
                       ![d].scan = o,
                       ![d].lease = "none"]

-----------------------------------------------------------------------------
(* What a scanner does to a row, for the modules it is the environment of. *)
(* An UPDATE waits for the row's share locks.                              *)
Lapsed(d) ==
  /\ rows[d].lease = "live"
  /\ rows' = [rows EXCEPT ![d].lease = "lapsed"]

ScannedRow(d) ==
  \/ Claimable(d) /\ d \notin locked /\ ClaimRow(d)
  \/ Lapsed(d)
  \/ Recordable(d) /\ d \notin locked /\ \E o \in Outcome : RecordOutcome(d, o)
=============================================================================
