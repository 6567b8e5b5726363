-------------------------------- MODULE Clamd --------------------------------
(***************************************************************************)
(* One malware scan: clamd's INSTREAM conversation, over a connection that *)
(* has one deadline.  The object is read in chunks and each is sent before *)
(* the next is read; the object store may fail in between.  The daemon is  *)
(* external: it takes what was sent, answers and closes, and may refuse    *)
(* the stream early, hang, or die.  A write after it has closed may still  *)
(* succeed, and an answer may be lost with the connection.                 *)
(***************************************************************************)
EXTENDS Naturals

CONSTANT Length    \* chunks of the object

ASSUME LengthAssumption == Length \in Nat

VARIABLES
  infected,   \* the chunks that hold a signature
  client,     \* [pc, outcome]
  sent,       \* chunks sent
  late,       \* the deadline has passed
  daemon,     \* [up, taken, answer]: what it is doing, and what it has said
  cut         \* the connection ended within the answer

vars == <<infected, client, sent, late, daemon, cut>>

Outcomes == {"clean", "infected", "failed"}
Answers == {"none", "OK", "FOUND", "ERROR"}

Init ==
  /\ infected \in SUBSET (1..Length)
  /\ client = [pc |-> "dial", outcome |-> "none"]
  /\ sent = 0
  /\ late = FALSE
  /\ daemon = [up |-> TRUE, taken |-> 0, answer |-> "none"]
  /\ cut = FALSE

-----------------------------------------------------------------------------
(* The client.                                                             *)

At(pc) == client.pc = pc
GoTo(pc) == client' = [client EXCEPT !.pc = pc]
Return(outcome) == client' = [pc |-> "done", outcome |-> outcome]

Connect ==
  /\ At("dial")
  /\ GoTo("command") \/ Return("failed")
  /\ UNCHANGED <<infected, sent, late, daemon, cut>>

Command ==
  /\ At("command") /\ ~late
  /\ GoTo("stream")
  /\ UNCHANGED <<infected, sent, late, daemon, cut>>

(* Faulty variant: the end of the object is not noticed.                   *)
SendChunkPastEnd ==
  /\ At("stream") /\ ~late
  /\ sent' = sent + 1
  /\ UNCHANGED <<infected, client, late, daemon, cut>>

(* A chunk is read and sent: its size, then its bytes.                     *)
SendChunk ==
  /\ At("stream") /\ ~late
  /\ sent < Length
  /\ sent' = sent + 1
  /\ UNCHANGED <<infected, client, late, daemon, cut>>

(* Read returns io.EOF.                                                    *)
Terminate ==
  /\ At("stream") /\ ~late
  /\ sent = Length
  /\ GoTo("answer")
  /\ UNCHANGED <<infected, sent, late, daemon, cut>>

(* Faulty variant: any error of Read ends the object.                      *)
ReadErrorEndsObject ==
  /\ At("stream")
  /\ GoTo("answer")
  /\ UNCHANGED <<infected, sent, late, daemon, cut>>

ReadError ==
  /\ At("stream")
  /\ Return("failed")
  /\ UNCHANGED <<infected, sent, late, daemon, cut>>

(* A Write, or the Read of the answer, fails: the deadline, or a closed    *)
(* connection.                                                             *)
ConnectionError ==
  /\ At("command") \/ At("stream") \/ At("answer")
  /\ late \/ ~daemon.up
  /\ Return("failed")
  /\ UNCHANGED <<infected, sent, late, daemon, cut>>

(* An answer in full ends with NUL.  What was cut may end anywhere, also   *)
(* after the name of a signature that ends in "OK".                        *)
Readings ==
  IF daemon.answer = "OK" THEN {"clean"} \cup (IF cut THEN {"failed"} ELSE {})
  ELSE IF daemon.answer = "FOUND" THEN IF cut THEN Outcomes ELSE {"infected"}
  ELSE {"failed"}

(* ReadString(0): up to NUL, or to the end of the connection.              *)
ReadAnswer ==
  /\ At("answer") /\ ~late
  /\ daemon.answer # "none" \/ ~daemon.up
  /\ \E outcome \in Readings : Return(outcome)
  /\ UNCHANGED <<infected, sent, late, daemon, cut>>

(* Faulty variant: SetWriteDeadline.                                       *)
WriteDeadline ==
  /\ At("command") \/ At("stream")
  /\ ~late
  /\ late' = TRUE
  /\ UNCHANGED <<infected, client, sent, daemon, cut>>

(* SetDeadline covers the conversation; dialling has a timeout of its own. *)
(* Nothing covers a Read of the object.                                    *)
Deadline ==
  /\ ~At("dial") /\ ~At("done") /\ ~late
  /\ late' = TRUE
  /\ UNCHANGED <<infected, client, sent, daemon, cut>>

-----------------------------------------------------------------------------
(* The daemon.                                                             *)

Take ==
  /\ daemon.up /\ daemon.taken < sent
  /\ daemon' = [daemon EXCEPT !.taken = @ + 1]
  /\ UNCHANGED <<infected, client, sent, late, cut>>

Say(answer) ==
  /\ daemon' = [daemon EXCEPT !.up = FALSE, !.answer = answer]
  /\ cut' \in BOOLEAN
  /\ UNCHANGED <<infected, client, sent, late>>

(* It has the terminator, hence all that was sent.                         *)
Verdict ==
  /\ daemon.up /\ At("answer") /\ daemon.taken = sent
  /\ Say(IF infected \cap 1..daemon.taken = {} THEN "OK" ELSE "FOUND")

(* The size limit, or an error of its own; or it dies without a word.      *)
Refuse == daemon.up /\ ~At("dial") /\ Say("ERROR")
Die == daemon.up /\ ~At("dial") /\ Say("none")

Converse == Connect \/ Command \/ SendChunk \/ Terminate \/ ReadAnswer \/ ConnectionError

(* A scan that returned.                                                   *)
Done == At("done") /\ UNCHANGED vars

Next == Converse \/ ReadError \/ Deadline \/ Take \/ Verdict \/ Refuse \/ Die \/ Done

(* The object store delivers the object in the end, or fails.              *)
Spec == Init /\ [][Next]_vars /\ WF_vars(Converse) /\ WF_vars(Deadline)

-----------------------------------------------------------------------------
(* The type invariant.                                                     *)
TypeOK ==
  /\ infected \subseteq 1..Length
  /\ client \in [pc : {"dial", "command", "stream", "answer", "done"},
                 outcome : Outcomes \cup {"none"}]
  /\ sent \in 0..Length /\ late \in BOOLEAN
  /\ daemon \in [up : BOOLEAN, taken : 0..Length, answer : Answers]
  /\ cut \in BOOLEAN

(* "clean" is said only of an object that the daemon has had in full and   *)
(* found nothing in: not of one whose reading broke off, nor of a daemon   *)
(* that went away.  Excepted is an answer that was cut short.              *)
CleanIsScanned ==
  client.outcome = "clean" => daemon.taken = Length /\ (infected = {} \/ cut)

(* A scan ends whatever the daemon does, once the object store does.       *)
ScanEnds == <>(client.pc = "done")
===============================================================================
