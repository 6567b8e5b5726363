---------------------------- MODULE ScannerProofs ----------------------------
(***************************************************************************)
(* For any number of documents, scanner processes, scan-result requests    *)
(* and attempts: Scanner is type correct, its rows stay consistent, the    *)
(* first verdict of a document stands, scans stay within the budget, and   *)
(* Scanner implements Lifecycle.                                           *)
(***************************************************************************)
EXTENDS Scanner, TableProofs, FiniteSetTheorems, TLAPS

(* What a process has in hand at each step; TypeOK alone is not inductive, *)
(* a worker that records must hold a document and an outcome.              *)
InHand ==
  /\ \A w \in Workers :
       /\ workers[w].pc # "idle" => workers[w].doc \in Docs
       /\ workers[w].pc \in {"scanned", "logging"} => workers[w].outcome \in Outcome
  /\ \A r \in Reporters :
       reporters[r].pc = "logging" =>
         reporters[r].doc \in Docs /\ reporters[r].outcome \in Outcome

Typed == TypeOK /\ InHand

-----------------------------------------------------------------------------
(* The initial table, bucket and processes have their types.               *)
LEMMA TypedInit == Init => Typed
  <1> SUFFICES ASSUME Init PROVE Typed
    OBVIOUS
  <1>1. TableTypeOK
    <2>1. NoRow \in Row
      BY MaxAttemptsAssumption DEF NoRow, Row, Status, ScanStatus
    <2> QED BY <2>1 DEF Init, TableInit, TableTypeOK
  <1>2. StoreTypeOK
    BY DEF Init, StoreInit, StoreTypeOK
  <1>3. workers \in [Workers -> Worker] /\ reporters \in [Reporters -> Reporter]
    BY DEF Init, ScanInit, Idle, Worker, Reporter, NotRecorded
  <1>4. InHand
    BY DEF Init, ScanInit, InHand, Idle
  <1> QED BY <1>1, <1>2, <1>3, <1>4 DEF Init, ScanInit, Typed, TypeOK

(* Every step of a worker, a request or the environment keeps the types,   *)
(* and that a busy worker has a document and, once it scanned, an outcome  *)
(* in hand.                                                                *)
LEMMA TypedNext == Typed /\ [Next]_vars => Typed'
  <1> SUFFICES ASSUME Typed, [Next]_vars PROVE Typed'
    OBVIOUS
  <1> USE DEF Typed, TypeOK
  <1>1. ASSUME NEW w \in Workers, Claim(w) PROVE Typed'
    <2>1. PICK d \in Candidates :
            /\ ClaimRow(d)
            /\ workers' = [workers EXCEPT ![w] =
                 [Idle EXCEPT !.pc = "claimed", !.doc = d, !.inLease = TRUE]]
      BY <1>1 DEF Claim
    <2>2. d \in Docs /\ Claimable(d)
      BY DEF Candidates
    <2>3. TableTypeOK'
      BY <1>1, <2>1, <2>2, ClaimRowType DEF Claim, TableTypeOK
    <2>4. workers' \in [Workers -> Worker]
      BY <2>1, <2>2 DEF Worker, Idle, NotRecorded
    <2>5. InHand'
      BY <1>1, <2>1, <2>2 DEF Claim, InHand, Idle
    <2> QED BY <1>1, <2>3, <2>4, <2>5 DEF Claim, StoreTypeOK
  <1>2. ASSUME NEW w \in Workers, Scan(w) PROVE Typed'
    <2>1. PICK o \in Outcome :
            workers' = [workers EXCEPT ![w].pc = "scanned", ![w].outcome = o]
      BY <1>2 DEF Scan
    <2>2. [workers[w] EXCEPT !.pc = "scanned", !.outcome = o] \in Worker
      BY DEF Worker
    <2>3. workers' \in [Workers -> Worker]
      BY <2>1, <2>2
    <2>4. InHand'
      BY <1>2, <2>1 DEF Scan, InHand, Worker
    <2> QED BY <1>2, <2>3, <2>4 DEF Scan, TableTypeOK, StoreTypeOK
  <1>3. ASSUME NEW w \in Workers, Record(w) PROVE Typed'
    <2>1. workers[w].doc \in Docs /\ workers[w].outcome \in Outcome
      BY <1>3 DEF Record, InHand
    <2>2. rows' \in [Docs -> Row]
      BY <1>3, <2>1, RecordOutcomeType DEF Record, TableTypeOK
    <2>3. workers' \in [Workers -> Worker]
      <3>1. Idle \in Worker /\ [workers[w] EXCEPT !.pc = "logging"] \in Worker
        BY DEF Idle, Worker, NotRecorded
      <3> QED BY <1>3, <3>1 DEF Record
    <2>4. InHand'
      BY <1>3, <2>1 DEF Record, InHand, Idle, Worker
    <2> QED BY <1>3, <2>2, <2>3, <2>4 DEF Record, TableTypeOK, StoreTypeOK
  <1>4. ASSUME NEW w \in Workers, Log(w) PROVE Typed'
    <2>1. scanLog' \subseteq Docs \X Outcome
      BY <1>4 DEF Log, InHand
    <2>2. workers' \in [Workers -> Worker] /\ InHand'
      BY <1>4 DEF Log, Worker, Idle, NotRecorded, InHand
    <2> QED BY <1>4, <2>1, <2>2 DEF Log, TableTypeOK, StoreTypeOK
  <1>5. ASSUME NEW w \in Workers, Stop(w) PROVE Typed'
    <2>1. workers' \in [Workers -> Worker] /\ InHand'
      BY <1>5 DEF Stop, Worker, Idle, NotRecorded, InHand
    <2> QED BY <1>5, <2>1 DEF Stop, TableTypeOK, StoreTypeOK
  <1>6. ASSUME NEW d \in Docs, Lapse(d) PROVE Typed'
    <2>1. rows' \in [Docs -> Row]
      <3>1. PICK l \in {"none", "live", "lapsed"} : rows' = [rows EXCEPT ![d].lease = l]
        BY <1>6 DEF Lapse, TableTypeOK, Row
      <3> QED BY <3>1 DEF TableTypeOK, Row
    <2>2. workers' \in [Workers -> Worker]
      <3>1. \A w \in Workers : [workers[w] EXCEPT !.inLease = FALSE] \in Worker
        BY DEF Worker
      <3> QED BY <1>6, <3>1 DEF Lapse
    <2>3. InHand'
      BY <1>6 DEF Lapse, InHand, Worker
    <2> QED BY <1>6, <2>1, <2>2, <2>3 DEF Lapse, TableTypeOK, StoreTypeOK
  <1>7. ASSUME NEW r \in Reporters, Report(r) PROVE Typed'
    <2>1. PICK d \in Docs \ locked, o \in Outcome :
            IF Recordable(d)
              THEN /\ RecordOutcome(d, o)
                   /\ reporters' = [reporters EXCEPT ![r] =
                        [pc |-> "logging", doc |-> d, outcome |-> o]]
              ELSE /\ reporters' = [reporters EXCEPT ![r].pc = "refused"]
                   /\ UNCHANGED rows
      BY <1>7 DEF Report
    <2>2. rows' \in [Docs -> Row]
      BY <2>1, RecordOutcomeType DEF TableTypeOK
    <2>3. reporters' \in [Reporters -> Reporter]
      BY <2>1 DEF Reporter
    <2>4. InHand'
      BY <1>7, <2>1 DEF Report, InHand, Reporter
    <2> QED BY <1>7, <2>2, <2>3, <2>4 DEF Report, TableTypeOK, StoreTypeOK
  <1>8. ASSUME NEW r \in Reporters, ReportLog(r) PROVE Typed'
    <2>1. scanLog' \subseteq Docs \X Outcome
      BY <1>8 DEF ReportLog, InHand
    <2>2. reporters' \in [Reporters -> Reporter] /\ InHand'
      BY <1>8 DEF ReportLog, Reporter, InHand
    <2> QED BY <1>8, <2>1, <2>2 DEF ReportLog, TableTypeOK, StoreTypeOK
  <1>9. ASSUME NEW r \in Reporters, ReportAbort(r) PROVE Typed'
    <2>1. reporters' \in [Reporters -> Reporter] /\ InHand'
      BY <1>9 DEF ReportAbort, Reporter, InHand
    <2> QED BY <1>9, <2>1 DEF ReportAbort, TableTypeOK, StoreTypeOK
  <1>10. ASSUME NEW d \in Docs, Register(d) PROVE Typed'
    BY <1>10, InsertRowType DEF Register, scanVars, TableTypeOK, StoreTypeOK, InHand
  <1>11. ASSUME NEW d \in Docs, Store(d) PROVE Typed'
    BY <1>11, PutObjectType DEF Store, tableVars, scanVars, TableTypeOK, InHand
  <1>12. ASSUME NEW d \in Docs, Uploaded(d) PROVE Typed'
    BY <1>12, MarkUploadedType DEF Uploaded, scanVars, TableTypeOK, StoreTypeOK, InHand
  <1>13. ASSUME Lock PROVE Typed'
    BY <1>13 DEF Lock, scanVars, TableTypeOK, StoreTypeOK, InHand
  <1>14. CASE UNCHANGED vars
    BY <1>14 DEF vars, TableTypeOK, StoreTypeOK, InHand
  <1> QED
    BY <1>1, <1>2, <1>3, <1>4, <1>5, <1>6, <1>7, <1>8, <1>9, <1>10, <1>11, <1>12,
       <1>13, <1>14
    DEF Next, ScanNext, Environment, WorkerNext, ReporterNext

(* In every reachable state every variable has its type: no statement of   *)
(* the API or the scanners takes a row out of its columns' domains, and no *)
(* document is claimed more than MaxAttempts times.                        *)
THEOREM TypeCorrect == Spec => []TypeOK
  <1>1. Typed => TypeOK
    BY DEF Typed
  <1> QED BY <1>1, TypedInit, TypedNext, PTL DEF Spec

-----------------------------------------------------------------------------
(* RowConsistent is inductive relative to the types: every statement of    *)
(* the table keeps it, and no other step touches rows.                     *)
LEMMA RowConsistentNext == Typed /\ RowConsistent /\ [Next]_vars => RowConsistent'
  <1> SUFFICES ASSUME Typed, RowConsistent, [Next]_vars PROVE RowConsistent'
    OBVIOUS
  <1> USE DEF Typed, TypeOK
  <1>1. ASSUME UNCHANGED rows PROVE RowConsistent'
    BY <1>1 DEF RowConsistent
  <1>2. ASSUME NEW d \in Docs, Claimable(d), ClaimRow(d) PROVE RowConsistent'
    BY <1>2 DEF RowConsistent, Claimable, ClaimRow, TableTypeOK, Row
  <1>3. ASSUME NEW d \in Docs, NEW o \in Outcome, Recordable(d), RecordOutcome(d, o)
        PROVE  RowConsistent'
    <2>1. CASE o = "clean"
      BY <1>3, <2>1 DEF RowConsistent, Recordable, RecordOutcome, StatusAfter, TableTypeOK, Row
    <2>2. CASE o = "infected"
      BY <1>3, <2>2 DEF RowConsistent, Recordable, RecordOutcome, StatusAfter, TableTypeOK, Row
    <2>3. CASE o = "failed"
      BY <1>3, <2>3 DEF RowConsistent, Recordable, RecordOutcome, StatusAfter, TableTypeOK, Row
    <2> QED BY <2>1, <2>2, <2>3 DEF Outcome
  <1>4. ASSUME NEW w \in Workers, WorkerNext(w) PROVE RowConsistent'
    <2>1. CASE Claim(w)
      BY <2>1, <1>2 DEF Claim, Candidates
    <2>2. CASE Record(w)
      <3>1. workers[w].doc \in Docs /\ workers[w].outcome \in Outcome
        BY <2>2 DEF Record, InHand
      <3> QED BY <2>2, <3>1, <1>1, <1>3 DEF Record
    <2>3. CASE Scan(w) \/ Log(w) \/ Stop(w)
      BY <2>3, <1>1 DEF Scan, Log, Stop
    <2> QED BY <1>4, <2>1, <2>2, <2>3 DEF WorkerNext
  <1>5. ASSUME NEW d \in Docs, Lapse(d) PROVE RowConsistent'
    <2>1. rows' = IF rows[d].lease = "live"
                    THEN [rows EXCEPT ![d].lease = "lapsed"] ELSE rows
      BY <1>5 DEF Lapse, TableTypeOK, Row
    <2> QED BY <2>1 DEF RowConsistent, TableTypeOK, Row
  <1>6. ASSUME NEW r \in Reporters, ReporterNext(r) PROVE RowConsistent'
    <2>1. CASE Report(r)
      BY <2>1, <1>1, <1>3 DEF Report
    <2>2. CASE ReportLog(r) \/ ReportAbort(r)
      BY <2>2, <1>1 DEF ReportLog, ReportAbort
    <2> QED BY <1>6, <2>1, <2>2 DEF ReporterNext
  <1>7. ASSUME NEW d \in Docs, Register(d) PROVE RowConsistent'
    BY <1>7 DEF Register, InsertRow, NoRow, RowConsistent, TableTypeOK, Row
  <1>8. ASSUME NEW d \in Docs, Uploaded(d) PROVE RowConsistent'
    BY <1>8 DEF Uploaded, MarkUploaded, RowConsistent, TableTypeOK, Row
  <1>9. CASE (\E d \in Docs : Store(d)) \/ Lock \/ UNCHANGED vars
    BY <1>9, <1>1 DEF Store, tableVars, Lock, vars
  <1> QED
    BY <1>4, <1>5, <1>6, <1>7, <1>8, <1>9 DEF Next, ScanNext, Environment

(* The rows nobody has inserted agree with themselves.                     *)
LEMMA InitConsistent == Init => RowConsistent
  <1>1. Init => \A d \in Docs : rows[d] = NoRow
    BY DEF Init, TableInit
  <1>2. /\ NoRow.status = "absent" /\ NoRow.scan = "pending"
        /\ NoRow.attempts = 0 /\ NoRow.lease = "none"
    BY DEF NoRow
  <1> QED BY <1>1, <1>2 DEF RowConsistent

(* The columns of a row agree in every reachable state.                    *)
THEOREM RowsStayConsistent == Spec => []RowConsistent
  <1>1. Typed /\ RowConsistent /\ [Next]_vars => Typed' /\ RowConsistent'
    BY TypedNext, RowConsistentNext
  <1> QED BY <1>1, InitConsistent, TypedInit, PTL DEF Spec

(* A row in quarantine is waiting, failed or leased, and if its attempts   *)
(* are not used up that is all a claim asks.                               *)
LEMMA NotStuck == Typed /\ RowConsistent => NoneIsStuck
  <1> SUFFICES ASSUME Typed, RowConsistent, NEW d \in Docs,
                      rows[d].status = "quarantined", ~Exhausted(d)
               PROVE  Claimable(d) \/ rows[d].lease = "live"
    BY DEF NoneIsStuck
  <1>1. rows[d] \in Row
    BY DEF Typed, TypeOK, TableTypeOK
  <1>2. rows[d].attempts < MaxAttempts
    BY <1>1, MaxAttemptsAssumption DEF Exhausted, Row
  <1>3. \/ rows[d].scan \in {"pending", "failed"}
        \/ rows[d].scan = "scanning" /\ rows[d].lease \in {"live", "lapsed"}
    BY <1>1 DEF RowConsistent, Row, ScanStatus
  <1> QED BY <1>2, <1>3 DEF Claimable

(* A document in quarantine that is neither settled nor exhausted can be   *)
(* claimed, now or when the running lease lapses.                          *)
THEOREM NothingIsStuck == Spec => []NoneIsStuck
  BY NotStuck, TypedInit, TypedNext, InitConsistent, RowConsistentNext, PTL DEF Spec

-----------------------------------------------------------------------------
(* The inductive invariant of the verdicts.  RowConsistent is part of it:  *)
(* without it a registration could reset a row that has a verdict.         *)
IInv == Typed /\ RowConsistent /\ FirstVerdictStands

Open == {"pending", "scanning", "failed"}

(* A step that adds no verdict, and changes the scan status only of rows   *)
(* that have none, keeps the verdicts standing.                            *)
LEMMA VerdictsKept ==
  ASSUME IInv,
         \A d \in Docs : Verdicts(d)' \subseteq Verdicts(d),
         \A d \in Docs : rows'[d].scan = rows[d].scan \/ rows[d].scan \in Open
  PROVE  FirstVerdictStands'
  <1> SUFFICES ASSUME NEW d \in Docs, NEW o \in Verdicts(d)'
               PROVE  rows'[d].scan = o
    BY DEF FirstVerdictStands
  <1>1. o \in Verdicts(d)
    OBVIOUS
  <1>2. rows[d].scan = o
    BY <1>1 DEF IInv, FirstVerdictStands
  <1>3. o \notin Open
    BY <1>1 DEF Verdicts, Open
  <1> QED BY <1>2, <1>3

(* Recording an outcome adds it to the verdicts of an open document, which *)
(* had none.                                                               *)
LEMMA VerdictGiven ==
  ASSUME IInv, NEW d \in Docs, NEW o \in Outcome,
         Recordable(d), RecordOutcome(d, o),
         Verdicts(d)' \subseteq Verdicts(d) \cup {o},
         \A e \in Docs \ {d} : Verdicts(e)' \subseteq Verdicts(e)
  PROVE  FirstVerdictStands'
  <1> SUFFICES ASSUME NEW e \in Docs, NEW v \in Verdicts(e)'
               PROVE  rows'[e].scan = v
    BY DEF FirstVerdictStands
  <1> USE DEF IInv, Typed, TypeOK, TableTypeOK, Row
  <1>1. CASE e # d
    <2>1. rows'[e] = rows[e]
      BY <1>1 DEF RecordOutcome
    <2>2. v \in Verdicts(e)
      BY <1>1
    <2> QED BY <2>1, <2>2 DEF FirstVerdictStands
  <1>2. CASE e = d
    <2>1. Verdicts(d) = {}
      BY DEF Recordable, FirstVerdictStands, Verdicts
    <2>2. v = o
      BY <1>2, <2>1
    <2>3. rows'[d].scan = o
      BY DEF RecordOutcome
    <2> QED BY <1>2, <2>2, <2>3
  <1> QED BY <1>1, <1>2

(* Every step keeps the verdicts standing: recording an outcome is the     *)
(* only one that gives a verdict, and it needs an open document.           *)
LEMMA FirstVerdictNext == IInv /\ [Next]_vars => FirstVerdictStands'
  <1> SUFFICES ASSUME IInv, [Next]_vars PROVE FirstVerdictStands'
    OBVIOUS
  <1>0. Typed /\ RowConsistent
    BY DEF IInv
  <1> USE DEF Typed, TypeOK, TableTypeOK
  <1>1. ASSUME NEW w \in Workers, Claim(w) PROVE FirstVerdictStands'
    <2>1. PICK d \in Docs :
            /\ Claimable(d) /\ ClaimRow(d)
            /\ workers' = [workers EXCEPT ![w] =
                 [Idle EXCEPT !.pc = "claimed", !.doc = d, !.inLease = TRUE]]
      BY <1>1 DEF Claim, Candidates
    <2>2. workers'[w].pc = "claimed" /\ \A v \in Workers \ {w} : workers'[v] = workers[v]
      BY <2>1, <1>0 DEF Idle
    <2>3. \A e \in Docs : Verdicts(e)' \subseteq Verdicts(e)
      BY <1>1, <2>2 DEF Claim, Verdicts
    <2>4. \A e \in Docs : rows'[e].scan = rows[e].scan \/ rows[e].scan \in Open
      BY <2>1, <1>0 DEF Claimable, ClaimRow, Row, Open
    <2> QED BY <2>3, <2>4, VerdictsKept
  <1>2. ASSUME NEW w \in Workers, Scan(w) \/ Stop(w) PROVE FirstVerdictStands'
    <2>1. workers'[w].pc # "logging" /\ \A v \in Workers \ {w} : workers'[v] = workers[v]
      BY <1>2, <1>0 DEF Scan, Stop, Idle, Worker
    <2>2. \A e \in Docs : Verdicts(e)' \subseteq Verdicts(e)
      BY <1>2, <2>1 DEF Scan, Stop, Verdicts
    <2> QED BY <1>2, <2>2, VerdictsKept DEF Scan, Stop
  <1>3. ASSUME NEW w \in Workers, Record(w) PROVE FirstVerdictStands'
    <2> DEFINE d == workers[w].doc
               o == workers[w].outcome
    <2>1. d \in Docs /\ o \in Outcome
      BY <1>3, <1>0 DEF Record, InHand
    <2>2. CASE Recordable(d)
      <3>1. RecordOutcome(d, o) /\ workers' = [workers EXCEPT ![w].pc = "logging"]
        BY <1>3, <2>2 DEF Record
      <3>2. /\ workers'[w].doc = d /\ workers'[w].outcome = o
            /\ \A v \in Workers \ {w} : workers'[v] = workers[v]
        BY <3>1, <1>0 DEF Worker
      <3>3. Verdicts(d)' \subseteq Verdicts(d) \cup {o}
        BY <1>3, <3>2 DEF Record, Verdicts
      <3>4. \A e \in Docs \ {d} : Verdicts(e)' \subseteq Verdicts(e)
        BY <1>3, <3>2 DEF Record, Verdicts
      <3> QED BY <2>1, <2>2, <3>1, <3>3, <3>4, VerdictGiven
    <2>3. CASE ~Recordable(d)
      <3>1. rows' = rows /\ workers' = [workers EXCEPT ![w] = Idle]
        BY <1>3, <2>3 DEF Record
      <3>2. workers'[w].pc = "idle" /\ \A v \in Workers \ {w} : workers'[v] = workers[v]
        BY <3>1, <1>0 DEF Idle
      <3>3. \A e \in Docs : Verdicts(e)' \subseteq Verdicts(e)
        BY <1>3, <3>2 DEF Record, Verdicts
      <3> QED BY <3>1, <3>3, VerdictsKept
    <2> QED BY <2>2, <2>3
  <1>4. ASSUME NEW w \in Workers, Log(w) PROVE FirstVerdictStands'
    <2>1. workers'[w].pc = "idle" /\ \A v \in Workers \ {w} : workers'[v] = workers[v]
      BY <1>4, <1>0 DEF Log, Idle
    <2>2. \A e \in Docs : Verdicts(e)' \subseteq Verdicts(e)
      BY <1>4, <2>1 DEF Log, Verdicts
    <2> QED BY <1>4, <2>2, VerdictsKept DEF Log
  <1>5. ASSUME NEW d \in Docs, Lapse(d) PROVE FirstVerdictStands'
    <2>1. \A v \in Workers : /\ workers'[v].pc = workers[v].pc
                             /\ workers'[v].doc = workers[v].doc
                             /\ workers'[v].outcome = workers[v].outcome
      BY <1>5, <1>0 DEF Lapse, Worker
    <2>2. \A e \in Docs : Verdicts(e)' \subseteq Verdicts(e)
      BY <1>5, <2>1 DEF Lapse, Verdicts
    <2>3. \A e \in Docs : rows'[e].scan = rows[e].scan
      BY <1>5, <1>0 DEF Lapse, Row
    <2> QED BY <2>2, <2>3, VerdictsKept
  <1>6. ASSUME NEW r \in Reporters, Report(r) PROVE FirstVerdictStands'
    <2>1. PICK d \in Docs \ locked, o \in Outcome :
            IF Recordable(d)
              THEN /\ RecordOutcome(d, o)
                   /\ reporters' = [reporters EXCEPT ![r] =
                        [pc |-> "logging", doc |-> d, outcome |-> o]]
              ELSE /\ reporters' = [reporters EXCEPT ![r].pc = "refused"]
                   /\ UNCHANGED rows
      BY <1>6 DEF Report
    <2>2. \A q \in Reporters \ {r} : reporters'[q] = reporters[q]
      BY <2>1, <1>0
    <2>3. CASE Recordable(d)
      <3>1. reporters'[r].doc = d /\ reporters'[r].outcome = o
        BY <2>1, <2>3, <1>0
      <3>2. Verdicts(d)' \subseteq Verdicts(d) \cup {o}
        BY <1>6, <2>2, <3>1 DEF Report, Verdicts
      <3>3. \A e \in Docs \ {d} : Verdicts(e)' \subseteq Verdicts(e)
        BY <1>6, <2>2, <3>1 DEF Report, Verdicts
      <3> QED BY <2>1, <2>3, <3>2, <3>3, VerdictGiven
    <2>4. CASE ~Recordable(d)
      <3>1. reporters'[r].pc = "refused"
        BY <2>1, <2>4, <1>0 DEF Reporter
      <3>2. \A e \in Docs : Verdicts(e)' \subseteq Verdicts(e)
        BY <1>6, <2>2, <3>1 DEF Report, Verdicts
      <3> QED BY <2>1, <2>4, <3>2, VerdictsKept
    <2> QED BY <2>3, <2>4
  <1>7. ASSUME NEW r \in Reporters, ReportLog(r) \/ ReportAbort(r)
        PROVE  FirstVerdictStands'
    <2>1. /\ reporters'[r].pc # "logging"
          /\ \A q \in Reporters \ {r} : reporters'[q] = reporters[q]
      BY <1>7, <1>0 DEF ReportLog, ReportAbort, Reporter
    <2>2. \A e \in Docs : Verdicts(e)' \subseteq Verdicts(e)
      BY <1>7, <2>1 DEF ReportLog, ReportAbort, Verdicts
    <2> QED BY <1>7, <2>2, VerdictsKept DEF ReportLog, ReportAbort
  <1>8. ASSUME NEW d \in Docs, Register(d) PROVE FirstVerdictStands'
    <2>1. \A e \in Docs : Verdicts(e)' \subseteq Verdicts(e)
      BY <1>8 DEF Register, scanVars, Verdicts
    <2>2. \A e \in Docs : rows'[e].scan = rows[e].scan \/ rows[e].scan \in Open
      BY <1>8, <1>0 DEF Register, InsertRow, RowConsistent, Open
    <2> QED BY <2>1, <2>2, VerdictsKept
  <1>9. ASSUME NEW d \in Docs, Uploaded(d) PROVE FirstVerdictStands'
    <2>1. \A e \in Docs : Verdicts(e)' \subseteq Verdicts(e)
      BY <1>9 DEF Uploaded, scanVars, Verdicts
    <2>2. \A e \in Docs : rows'[e].scan = rows[e].scan
      BY <1>9, <1>0 DEF Uploaded, MarkUploaded, Row
    <2> QED BY <2>1, <2>2, VerdictsKept
  <1>10. CASE (\E d \in Docs : Store(d)) \/ Lock \/ UNCHANGED vars
    <2>1. \A e \in Docs : Verdicts(e)' \subseteq Verdicts(e)
      BY <1>10 DEF Store, Lock, vars, scanVars, Verdicts
    <2> QED BY <1>10, <2>1, VerdictsKept DEF Store, tableVars, Lock, vars
  <1> QED
    BY <1>1, <1>2, <1>3, <1>4, <1>5, <1>6, <1>7, <1>8, <1>9, <1>10
    DEF Next, ScanNext, Environment, WorkerNext, ReporterNext

(* Whatever the number of scanners and late outcomes, a document has one   *)
(* verdict, the first, and the audit log never says another.               *)
THEOREM FirstVerdictAlwaysStands == Spec => []FirstVerdictStands
  <1>1. Init => FirstVerdictStands
    BY DEF Init, ScanInit, Idle, FirstVerdictStands, Verdicts
  <1>2. IInv /\ [Next]_vars => IInv'
    BY TypedNext, RowConsistentNext, FirstVerdictNext DEF IInv
  <1>3. Init => IInv
    BY <1>1, TypedInit, InitConsistent DEF IInv
  <1>4. IInv => FirstVerdictStands
    BY DEF IInv
  <1> QED BY <1>2, <1>3, <1>4, PTL DEF Spec

-----------------------------------------------------------------------------
(* The workers at a document.  There may be any number of workers; that    *)
(* those at one document are finitely many is itself part of the invariant.*)
WorkersAt(d) == {w \in Workers : workers[w].doc = d}

Budgeted ==
  /\ \A w \in Workers : workers[w].pc = "idle" => workers[w].doc = NoDoc
  /\ \A d \in Docs : /\ IsFiniteSet(WorkersAt(d))
                     /\ Cardinality(WorkersAt(d)) <= rows[d].attempts

(* A step that brings no worker to a document and takes no attempts back   *)
(* stays within the budget.                                                *)
LEMMA BudgetKept ==
  ASSUME Typed, Budgeted, NEW d \in Docs, WorkersAt(d)' \subseteq WorkersAt(d),
         rows'[d].attempts \in Nat, rows'[d].attempts >= rows[d].attempts
  PROVE  IsFiniteSet(WorkersAt(d)') /\ Cardinality(WorkersAt(d)') <= rows'[d].attempts
  <1>1. /\ IsFiniteSet(WorkersAt(d)') /\ IsFiniteSet(WorkersAt(d))
        /\ Cardinality(WorkersAt(d)') <= Cardinality(WorkersAt(d))
    BY FS_Subset DEF Budgeted
  <1>2. /\ Cardinality(WorkersAt(d)') \in Nat /\ Cardinality(WorkersAt(d)) \in Nat
        /\ Cardinality(WorkersAt(d)) <= rows[d].attempts
    BY <1>1, FS_CardinalityType DEF Budgeted
  <1>3. rows[d].attempts \in Nat
    BY MaxAttemptsAssumption DEF Typed, TypeOK, TableTypeOK, Row
  <1> QED BY <1>1, <1>2, <1>3

(* A claim brings one worker and takes one attempt.                        *)
LEMMA ClaimBudgeted ==
  ASSUME Typed, Budgeted, NEW w \in Workers, Claim(w) PROVE Budgeted'
  <1> USE DEF Typed, TypeOK, TableTypeOK
  <1>1. PICK d \in Docs :
          /\ Claimable(d) /\ ClaimRow(d)
          /\ workers' = [workers EXCEPT ![w] =
               [Idle EXCEPT !.pc = "claimed", !.doc = d, !.inLease = TRUE]]
    BY DEF Claim, Candidates
  <1>2. /\ workers[w].doc = NoDoc
        /\ workers'[w].doc = d /\ workers'[w].pc = "claimed"
        /\ \A v \in Workers \ {w} : workers'[v] = workers[v]
    BY <1>1 DEF Claim, Budgeted, Idle
  <1>3. /\ rows'[d].attempts = rows[d].attempts + 1 /\ rows[d].attempts \in Nat
        /\ \A e \in Docs \ {d} : rows'[e] = rows[e] /\ rows[e].attempts \in Nat
    BY <1>1, MaxAttemptsAssumption DEF ClaimRow, Row
  <1>4. WorkersAt(d)' = WorkersAt(d) \cup {w} /\ w \notin WorkersAt(d)
    BY <1>2, NoDocAssumption DEF WorkersAt
  <1>5. /\ IsFiniteSet(WorkersAt(d)')
        /\ Cardinality(WorkersAt(d)') = Cardinality(WorkersAt(d)) + 1
    BY <1>4, FS_AddElement DEF Budgeted
  <1>6. Cardinality(WorkersAt(d)') <= rows'[d].attempts
    BY <1>3, <1>5, FS_CardinalityType DEF Budgeted
  <1>7. ASSUME NEW e \in Docs \ {d}
        PROVE  IsFiniteSet(WorkersAt(e)') /\ Cardinality(WorkersAt(e)') <= rows'[e].attempts
    <2>1. WorkersAt(e)' = WorkersAt(e)
      BY <1>2, NoDocAssumption DEF WorkersAt
    <2> QED BY <1>3, <2>1 DEF Budgeted
  <1>8. \A v \in Workers : workers'[v].pc = "idle" => workers'[v].doc = NoDoc
    BY <1>2 DEF Budgeted
  <1> QED BY <1>5, <1>6, <1>7, <1>8 DEF Budgeted

(* Every other step leaves workers where they are or sends them away.      *)
LEMMA BudgetNext == Typed /\ RowConsistent /\ Budgeted /\ [Next]_vars => Budgeted'
  <1> SUFFICES ASSUME Typed, RowConsistent, Budgeted, [Next]_vars PROVE Budgeted'
    OBVIOUS
  <1> USE DEF Typed, TypeOK, TableTypeOK
  <1>1. ASSUME \A w \in Workers :
                  \/ workers'[w] = Idle
                  \/ /\ workers'[w].doc = workers[w].doc
                     /\ workers'[w].pc = "idle" => workers[w].pc = "idle",
               \A d \in Docs : rows'[d].attempts = rows[d].attempts
        PROVE  Budgeted'
    <2>1. \A w \in Workers : workers'[w].pc = "idle" => workers'[w].doc = NoDoc
      BY <1>1 DEF Budgeted, Idle
    <2>2. ASSUME NEW d \in Docs
          PROVE  IsFiniteSet(WorkersAt(d)') /\ Cardinality(WorkersAt(d)') <= rows'[d].attempts
      <3>1. WorkersAt(d)' \subseteq WorkersAt(d)
        BY <1>1, NoDocAssumption DEF WorkersAt, Idle
      <3>2. rows[d].attempts \in Nat
        BY MaxAttemptsAssumption DEF Row
      <3> QED BY <1>1, <3>1, <3>2, BudgetKept
    <2> QED BY <2>1, <2>2 DEF Budgeted
  <1>2. ASSUME NEW w \in Workers, WorkerNext(w) PROVE Budgeted'
    <2>1. CASE Claim(w)
      BY <2>1, ClaimBudgeted
    <2>2. CASE Scan(w) \/ Log(w) \/ Stop(w)
      BY <2>2, <1>1 DEF Scan, Log, Stop, Worker
    <2>3. CASE Record(w)
      <3>1. workers[w].doc \in Docs /\ workers[w].outcome \in Outcome
        BY <2>3 DEF Record, InHand
      <3>2. \A d \in Docs : rows'[d].attempts = rows[d].attempts
        BY <2>3, <3>1 DEF Record, RecordOutcome, Row
      <3>3. \/ workers' = [workers EXCEPT ![w] = Idle]
            \/ workers' = [workers EXCEPT ![w].pc = "logging"]
        BY <2>3 DEF Record
      <3>4. \A v \in Workers :
              \/ workers'[v] = Idle
              \/ /\ workers'[v].doc = workers[v].doc
                 /\ workers'[v].pc = "idle" => workers[v].pc = "idle"
        BY <3>3 DEF Worker
      <3> QED BY <3>2, <3>4, <1>1
    <2> QED BY <1>2, <2>1, <2>2, <2>3 DEF WorkerNext
  <1>3. ASSUME NEW d \in Docs, Lapse(d) PROVE Budgeted'
    <2>1. \A e \in Docs : rows'[e].attempts = rows[e].attempts
      BY <1>3 DEF Lapse, Row
    <2>2. \A w \in Workers : /\ workers'[w].doc = workers[w].doc
                             /\ workers'[w].pc = workers[w].pc
      BY <1>3 DEF Lapse, Worker
    <2> QED BY <2>1, <2>2, <1>1
  <1>4. ASSUME NEW r \in Reporters, ReporterNext(r) PROVE Budgeted'
    <2>1. workers' = workers
      BY <1>4 DEF ReporterNext, Report, ReportLog, ReportAbort
    <2>2. \A d \in Docs : rows'[d].attempts = rows[d].attempts
      <3>1. CASE Report(r)
        <4>1. PICK d \in Docs \ locked, o \in Outcome :
                (Recordable(d) /\ RecordOutcome(d, o)) \/ UNCHANGED rows
          BY <3>1 DEF Report
        <4>2. CASE Recordable(d) /\ RecordOutcome(d, o)
          BY <4>2 DEF RecordOutcome, Row
        <4> QED BY <4>1, <4>2
      <3>2. CASE ReportLog(r) \/ ReportAbort(r)
        BY <3>2 DEF ReportLog, ReportAbort
      <3> QED BY <1>4, <3>1, <3>2 DEF ReporterNext
    <2> QED BY <2>1, <2>2, <1>1
  <1>5. CASE Environment
    <2>1. workers' = workers
      BY <1>5 DEF Environment, Register, Store, Uploaded, Lock, scanVars
    <2>2. \A d \in Docs : rows'[d].attempts = rows[d].attempts
      BY <1>5 DEF Environment, Register, InsertRow, NoRow, Store, tableVars, Uploaded,
                  MarkUploaded, Lock, RowConsistent, Row
    <2> QED BY <2>1, <2>2, <1>1
  <1>6. CASE UNCHANGED vars
    <2>1. workers' = workers /\ rows' = rows
      BY <1>6 DEF vars
    <2> QED BY <2>1, <1>1
  <1> QED BY <1>2, <1>3, <1>4, <1>5, <1>6 DEF Next, ScanNext

(* At the start nobody is at work.                                         *)
LEMMA BudgetInit == Init => Budgeted
  <1> SUFFICES ASSUME Init PROVE Budgeted
    OBVIOUS
  <1>1. \A d \in Docs : WorkersAt(d) = {}
    BY NoDocAssumption DEF Init, ScanInit, Idle, WorkersAt
  <1>2. \A d \in Docs : rows[d].attempts = 0
    BY DEF Init, TableInit, NoRow
  <1>3. \A w \in Workers : workers[w].doc = NoDoc
    BY DEF Init, ScanInit, Idle
  <1>4. ASSUME NEW d \in Docs
        PROVE  IsFiniteSet(WorkersAt(d)) /\ Cardinality(WorkersAt(d)) <= rows[d].attempts
    <2>1. IsFiniteSet(WorkersAt(d)) /\ Cardinality(WorkersAt(d)) = 0
      BY <1>1, FS_EmptySet
    <2> QED BY <1>2, <2>1
  <1> QED BY <1>3, <1>4 DEF Budgeted

(* Never more than MaxAttempts workers are at one document, however many   *)
(* leases lapse under slow workers.                                        *)
THEOREM BudgetHolds == Spec => []ScansWithinBudget
  <1>1. Typed /\ RowConsistent /\ Budgeted /\ [Next]_vars =>
          Typed' /\ RowConsistent' /\ Budgeted'
    BY TypedNext, RowConsistentNext, BudgetNext
  <1>2. Budgeted => ScansWithinBudget
    BY DEF Budgeted, ScansWithinBudget, WorkersAt
  <1> QED BY <1>1, <1>2, BudgetInit, TypedInit, InitConsistent, PTL DEF Spec

-----------------------------------------------------------------------------
(* Scanner implements Lifecycle: every step of a worker, of a scan-result  *)
(* request or of the environment is one step of the abstract life of one   *)
(* document, or leaves it where it is.                                     *)
phase == [d \in Docs |-> rows[d].status]
tries == [d \in Docs |-> rows[d].attempts]

(* Every step of the detailed specification is a step of Lifecycle for one *)
(* document, or leaves the phases and tries alone.                         *)
LEMMA StepRefines ==
  Typed /\ RowConsistent /\ [Next]_vars => [Abstract!Next]_(Abstract!vars)
  <1> SUFFICES ASSUME Typed, RowConsistent, [Next]_vars
               PROVE  Abstract!Next \/ UNCHANGED Abstract!vars
    OBVIOUS
  <1> USE DEF Typed, TypeOK, TableTypeOK, Row
  <1>1. ASSUME NEW d \in Docs, Claimable(d), ClaimRow(d) PROVE Abstract!Next
    <2>1. /\ \A e \in Docs : rows'[e].status = rows[e].status
          /\ \A e \in Docs \ {d} : rows'[e].attempts = rows[e].attempts
          /\ rows'[d].attempts = rows[d].attempts + 1
      BY <1>1 DEF ClaimRow
    <2>2. phase' = phase /\ tries' = [tries EXCEPT ![d] = @ + 1]
      BY <2>1 DEF phase, tries
    <2>3. Abstract!Try(d)
      BY <1>1, <2>2 DEF Abstract!Try, Claimable, phase, tries
    <2> QED BY <2>3 DEF Abstract!Next
  <1>2. ASSUME NEW d \in Docs, NEW from, NEW to, rows[d].status = from,
               \A e \in Docs : rows'[e].attempts = rows[e].attempts,
               \A e \in Docs \ {d} : rows'[e].status = rows[e].status,
               rows'[d].status = to
        PROVE  Abstract!Move(d, from, to)
    <2>1. phase' = [phase EXCEPT ![d] = to] /\ tries' = tries
      BY <1>2 DEF phase, tries
    <2> QED BY <1>2, <2>1 DEF Abstract!Move, phase, tries
  <1>3. ASSUME \A e \in Docs : /\ rows'[e].status = rows[e].status
                               /\ rows'[e].attempts = rows[e].attempts
        PROVE  UNCHANGED Abstract!vars
    BY <1>3 DEF Abstract!vars
  <1>4. ASSUME NEW d \in Docs, NEW o \in Outcome, Recordable(d), RecordOutcome(d, o)
        PROVE  Abstract!Next \/ UNCHANGED Abstract!vars
    <2>1. /\ rows[d].status = "quarantined"
          /\ \A e \in Docs : rows'[e].attempts = rows[e].attempts
          /\ \A e \in Docs \ {d} : rows'[e].status = rows[e].status
          /\ rows'[d].status = StatusAfter(o)
      BY <1>4 DEF Recordable, RecordOutcome
    <2>2. CASE o = "failed"
      BY <2>1, <2>2, <1>3 DEF StatusAfter
    <2>3. CASE o = "clean"
      <3>1. Abstract!Move(d, "quarantined", "available")
        BY <2>1, <2>3, <1>2 DEF StatusAfter
      <3> QED BY <3>1 DEF Abstract!Next, Abstract!Settle
    <2>4. CASE o = "infected"
      <3>1. Abstract!Move(d, "quarantined", "rejected")
        BY <2>1, <2>4, <1>2 DEF StatusAfter
      <3> QED BY <3>1 DEF Abstract!Next, Abstract!Settle
    <2> QED BY <2>2, <2>3, <2>4 DEF Outcome
  <1>5. ASSUME NEW w \in Workers, WorkerNext(w)
        PROVE  Abstract!Next \/ UNCHANGED Abstract!vars
    <2>1. CASE Claim(w)
      BY <2>1, <1>1 DEF Claim, Candidates
    <2>2. CASE Record(w)
      <3>1. workers[w].doc \in Docs /\ workers[w].outcome \in Outcome
        BY <2>2 DEF Record, InHand
      <3> QED BY <2>2, <3>1, <1>3, <1>4 DEF Record
    <2>3. CASE Scan(w) \/ Log(w) \/ Stop(w)
      BY <2>3, <1>3 DEF Scan, Log, Stop
    <2> QED BY <1>5, <2>1, <2>2, <2>3 DEF WorkerNext
  <1>6. ASSUME NEW d \in Docs, Lapse(d) PROVE UNCHANGED Abstract!vars
    BY <1>6, <1>3 DEF Lapse
  <1>7. ASSUME NEW r \in Reporters, ReporterNext(r)
        PROVE  Abstract!Next \/ UNCHANGED Abstract!vars
    <2>1. CASE Report(r)
      BY <2>1, <1>3, <1>4 DEF Report
    <2>2. CASE ReportLog(r) \/ ReportAbort(r)
      BY <2>2, <1>3 DEF ReportLog, ReportAbort
    <2> QED BY <1>7, <2>1, <2>2 DEF ReporterNext
  <1>8. ASSUME NEW d \in Docs, Register(d) PROVE Abstract!Next
    <2>1. /\ rows[d].status = "absent" /\ rows[d].attempts = 0
          /\ rows' = [rows EXCEPT ![d] = [NoRow EXCEPT !.status = "pending_upload"]]
      BY <1>8 DEF Register, InsertRow, RowConsistent
    <2>2. /\ \A e \in Docs : rows'[e].attempts = rows[e].attempts
          /\ \A e \in Docs \ {d} : rows'[e].status = rows[e].status
          /\ rows'[d].status = "pending_upload"
      BY <2>1 DEF NoRow
    <2>3. Abstract!Move(d, "absent", "pending_upload")
      BY <2>1, <2>2, <1>2
    <2> QED BY <2>3 DEF Abstract!Next, Abstract!Register
  <1>9. ASSUME NEW d \in Docs, Uploaded(d) PROVE Abstract!Next
    <2>1. /\ rows[d].status = "pending_upload"
          /\ \A e \in Docs : rows'[e].attempts = rows[e].attempts
          /\ \A e \in Docs \ {d} : rows'[e].status = rows[e].status
          /\ rows'[d].status = "quarantined"
      BY <1>9 DEF Uploaded, MarkUploaded
    <2>2. Abstract!Move(d, "pending_upload", "quarantined")
      BY <2>1, <1>2
    <2> QED BY <2>2 DEF Abstract!Next, Abstract!Quarantine
  <1>10. CASE (\E d \in Docs : Store(d)) \/ Lock \/ UNCHANGED vars
    BY <1>10, <1>3 DEF Store, tableVars, Lock, vars
  <1> QED
    BY <1>5, <1>6, <1>7, <1>8, <1>9, <1>10 DEF Next, ScanNext, Environment

(* Every document, under any number of scanners, requests and crashes,     *)
(* lives the abstract life: registered once, quarantined once, settled at  *)
(* most once, and scanned only in quarantine, at most MaxAttempts times.   *)
THEOREM RefinesLifecycle == Spec => ImplementsLifecycle
  <1>1. Init => Abstract!Init
    <2>1. Init => \A d \in Docs : rows[d] = NoRow
      BY DEF Init, TableInit
    <2>2. NoRow.status = "absent" /\ NoRow.attempts = 0
      BY DEF NoRow
    <2> QED BY <2>1, <2>2 DEF Abstract!Init
  <1>2. Typed /\ RowConsistent /\ [Next]_vars => Typed' /\ RowConsistent'
    BY TypedNext, RowConsistentNext
  <1> QED
    BY <1>1, <1>2, TypedInit, InitConsistent, StepRefines, PTL
    DEF Spec, ImplementsLifecycle, Abstract!Spec
=============================================================================
