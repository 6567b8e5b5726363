----------------------------- MODULE ClamdProofs -----------------------------
(***************************************************************************)
(* What a verdict of "clean" stands for, whatever the length of the        *)
(* object, and wherever the conversation with the daemon breaks off.       *)
(***************************************************************************)
EXTENDS Clamd, TLAPS

(* The daemon's verdict is on the whole object, and is its last word.      *)
VerdictOnWhole ==
  /\ daemon.taken <= sent
  /\ client.pc = "answer" => sent = Length
  /\ daemon.answer # "none" => ~daemon.up
  /\ daemon.answer \in {"OK", "FOUND"} => daemon.taken = Length
  /\ daemon.answer = "OK" => infected = {}
  /\ client.outcome = "clean" => daemon.answer # "none"

IInv == TypeOK /\ VerdictOnWhole /\ CleanIsScanned

(* No conversation has begun.                                              *)
LEMMA Initially == Init => IInv
<1> SUFFICES ASSUME Init PROVE IInv
  OBVIOUS
<1>1. 0 \in 0..Length
  BY LengthAssumption
<1>2. TypeOK
  BY <1>1 DEF Init, TypeOK, Outcomes, Answers
<1> QED  BY <1>2 DEF Init, IInv, VerdictOnWhole, CleanIsScanned

(* One case per action.                                                    *)
LEMMA Inductive == IInv /\ [Next]_vars => IInv'
<1> SUFFICES ASSUME IInv, [Next]_vars PROVE IInv'
  OBVIOUS
<1> USE LengthAssumption DEF IInv
<1> USE DEF TypeOK, At, GoTo, Return
<1>1. CASE Connect \/ Command
  BY <1>1 DEF Connect, Command, VerdictOnWhole, CleanIsScanned, Outcomes
<1>2. CASE SendChunk
  BY <1>2 DEF SendChunk, VerdictOnWhole, CleanIsScanned
<1>3. CASE Terminate
  <2>1. /\ client' = [client EXCEPT !.pc = "answer"] /\ sent = Length
        /\ UNCHANGED <<infected, sent, late, daemon, cut>>
    BY <1>3 DEF Terminate
  <2> QED  BY <2>1 DEF VerdictOnWhole, CleanIsScanned
<1>4. CASE ReadError \/ ConnectionError
  <2>1. /\ client' = [pc |-> "done", outcome |-> "failed"]
        /\ UNCHANGED <<infected, sent, late, daemon, cut>>
    BY <1>4 DEF ReadError, ConnectionError
  <2>2. TypeOK'
    BY <2>1 DEF Outcomes
  <2>3. VerdictOnWhole' /\ CleanIsScanned'
    BY <2>1 DEF VerdictOnWhole, CleanIsScanned
  <2> QED  BY <2>2, <2>3
<1>5. CASE ReadAnswer
  <2>1. PICK outcome \in Readings : Return(outcome)
    BY <1>5 DEF ReadAnswer
  <2>2. /\ outcome \in Outcomes
        /\ outcome = "clean" => \/ daemon.answer = "OK"
                                \/ daemon.answer = "FOUND" /\ cut
    BY <2>1 DEF Readings, Outcomes
  <2>3. UNCHANGED <<infected, sent, late, daemon, cut>>
    BY <1>5 DEF ReadAnswer
  <2> QED  BY <2>1, <2>2, <2>3 DEF VerdictOnWhole, CleanIsScanned
<1>6. CASE Deadline
  BY <1>6 DEF Deadline, VerdictOnWhole, CleanIsScanned
<1>7. CASE Take
  BY <1>7 DEF Take, VerdictOnWhole, CleanIsScanned
<1>8. CASE Verdict
  <2>1. daemon.taken = Length /\ client.pc = "answer"
    BY <1>8 DEF Verdict, VerdictOnWhole
  <2>2. client.outcome # "clean"
    BY <1>8 DEF Verdict, VerdictOnWhole
  <2>3. infected \cap 1..daemon.taken = infected
    BY <2>1
  <2> QED  BY <1>8, <2>1, <2>2, <2>3 DEF Verdict, Say, VerdictOnWhole, CleanIsScanned, Answers
<1>9. CASE Refuse \/ Die
  <2>1. PICK answer \in {"ERROR", "none"} : Say(answer)
    BY <1>9 DEF Refuse, Die
  <2>2. daemon.up /\ client.outcome # "clean"
    BY <1>9 DEF Refuse, Die, VerdictOnWhole
  <2>3. daemon' = [daemon EXCEPT !.up = FALSE, !.answer = answer]
    BY <2>1 DEF Say
  <2> QED  BY <2>1, <2>2, <2>3 DEF Say, VerdictOnWhole, CleanIsScanned, Answers
<1>10. CASE Done \/ UNCHANGED vars
  BY <1>10 DEF Done, vars, VerdictOnWhole, CleanIsScanned
<1> QED  BY <1>1, <1>2, <1>3, <1>4, <1>5, <1>6, <1>7, <1>8, <1>9, <1>10 DEF Next, Converse

(* The inductive invariant of a scan.                                      *)
THEOREM ScanInvariant == Spec => []IInv
  BY Initially, Inductive, PTL DEF Spec

(* Type correctness of a scan.                                             *)
THEOREM ClamdTypeCorrect == Spec => []TypeOK
<1>1. IInv => TypeOK
  BY DEF IInv
<1> QED  BY <1>1, ScanInvariant, PTL

(* "clean" is said only of an object scanned in full and found clean.      *)
THEOREM CleanMeansScanned == Spec => []CleanIsScanned
<1>1. IInv => CleanIsScanned
  BY DEF IInv
<1> QED  BY <1>1, ScanInvariant, PTL
===============================================================================
