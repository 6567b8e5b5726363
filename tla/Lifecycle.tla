------------------------------ MODULE Lifecycle ------------------------------
(***************************************************************************)
(* What the document service promises about one document, whoever acts on  *)
(* it: it is registered once, goes through quarantine once, leaves it by   *)
(* one verdict that is never revised, and is scanned only in quarantine    *)
(* and at most MaxAttempts times.                                          *)
(***************************************************************************)
EXTENDS Naturals

CONSTANTS Docs, MaxAttempts

VARIABLES phase, tries

vars == <<phase, tries>>

Init ==
  /\ phase = [d \in Docs |-> "absent"]
  /\ tries = [d \in Docs |-> 0]

Move(d, from, to) ==
  /\ phase[d] = from
  /\ phase' = [phase EXCEPT ![d] = to]
  /\ UNCHANGED tries

Register(d) == Move(d, "absent", "pending_upload")

Quarantine(d) == Move(d, "pending_upload", "quarantined")

Settle(d) ==
  Move(d, "quarantined", "available") \/ Move(d, "quarantined", "rejected")

Try(d) ==
  /\ phase[d] = "quarantined"
  /\ tries[d] < MaxAttempts
  /\ tries' = [tries EXCEPT ![d] = @ + 1]
  /\ UNCHANGED phase

Next == \E d \in Docs : Register(d) \/ Quarantine(d) \/ Settle(d) \/ Try(d)

Spec == Init /\ [][Next]_vars
=============================================================================
