------------------------------- MODULE MCAccess -------------------------------
EXTENDS Access, TLC

CONSTANTS a, b, o1, o2

Rights == {"documents.write", "documents.read", "documents.scan", "documents.evidence.verify"}

(* A machine credential of tenant a, a claimless service account, and a    *)
(* member of staff: no tenant, and azp instead of an application.          *)
Machine == [sub |-> "machine", tenant |-> a, env |-> "production", app |-> "app", azp |-> Empty, rights |-> Rights]
Service == [sub |-> "service", tenant |-> Empty, env |-> Empty, app |-> "app", azp |-> "app", rights |-> Rights]
Staff == [sub |-> "staff", tenant |-> Empty, env |-> "production", app |-> Empty, azp |-> "app", rights |-> Rights]
(* A machine credential of tenant a without an environment.                *)
Unplaced == [Machine EXCEPT !.env = Empty]

MCTokens == {Machine, Service, Staff, Unplaced}
MCParties == {<<a, "sandbox", o1>>, <<a, "production", o1>>, <<b, "production", o1>>, <<b, "production", o2>>}

Symmetry == Permutations(DocIds) \cup Permutations(References) \cup Permutations(Versions)
===============================================================================
