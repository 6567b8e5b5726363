----------------------------- MODULE AccessPolicy -----------------------------
(***************************************************************************)
(* What the access rules promise, apart from how they are enforced: which  *)
(* document a request may be answered with, given on whose authority it    *)
(* was made.                                                               *)
(*                                                                         *)
(* An authority is the tenant of an ordinary caller, a legacy service      *)
(* account, the scanner, or what an owner service granted: one case, one   *)
(* payment, the statement of one payment, or one bank account.             *)
(***************************************************************************)
CONSTANTS Clients, NoRow

VARIABLES
  registered,   \* every document row
  answer        \* per client: authority and document of the answer it has

vars == <<registered, answer>>

Empty == ""

(* The one kind of authority a restricted purpose is open to.              *)
KindFor == [manual_bank_payment       |-> "payment",
            manual_bank_statement     |-> "statement",
            bank_account_verification |-> "account"]

Restricted(d) == d.purpose \in DOMAIN KindFor

Granted == {"case", "payment", "statement", "account"}

Isolated(a, d) ==
  /\ d.env = a.env
  /\ a.kind # "legacy" => d.tenant = a.tenant

OwnCase(a, d) ==
  /\ a.kind \in Granted => d.owner = a.owner
  /\ a.kind \in Granted /\ ~(a.kind = "case" /\ a.op = "download") => d.ref = a.ref

Private(a, d) ==
  /\ Restricted(d) => a.kind \in {KindFor[d.purpose], "scanner"}
  /\ a.kind \in {"payment", "statement", "account"} =>
       Restricted(d) /\ KindFor[d.purpose] = a.kind

(* A version asked for by its digest is that version.                      *)
Exact(a, d) ==
  a.op \in {"evidence", "verify"} \/ (a.op = "download" /\ a.kind \in Granted)
    => d.sha = a.sha

Entitled(a, d) ==
  /\ a.id \in {Empty, d.id}
  /\ Exact(a, d)
  /\ Isolated(a, d)
  /\ OwnCase(a, d)
  /\ Private(a, d)

NoAnswer == [authority |-> NoRow, row |-> NoRow]

Init ==
  /\ registered = {}
  /\ answer = [c \in Clients |-> NoAnswer]

(* An answer names a registered document its authority is entitled to; it  *)
(* may be registered by the very request that is answered with it.         *)
Disclose(c) ==
  LET now == answer'[c] IN
    /\ now.row \in registered'
    /\ Entitled(now.authority, now.row)
    /\ registered' \in {registered, registered \cup {now.row}}
    /\ answer' = [answer EXCEPT ![c] = now]

Forget(c) ==
  /\ answer' = [answer EXCEPT ![c] = NoAnswer]
  /\ UNCHANGED registered

Next == \E c \in Clients : Disclose(c) \/ Forget(c)

Spec == Init /\ [][Next]_vars
===============================================================================
