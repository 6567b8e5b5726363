-------------------------------- MODULE Access --------------------------------
(***************************************************************************)
(* Who reaches which document.  A request enters by one of the API's       *)
(* routes.  The generic routes act for the caller's token; the case,       *)
(* payment, statement and bank-account routes first ask the service that   *)
(* owns the case, payment or account for a grant, and act within it.  The  *)
(* service methods then look rows up with predicates on the scope.         *)
(*                                                                         *)
(* A handler takes several round trips: the question to the owner service, *)
(* a first lookup that checks, and the lookup or UPDATE that acts.  Other  *)
(* requests register documents in between.  The lifecycle of a document is *)
(* left out (Upload, Scanner, Retrieval): whether its status permits the   *)
(* operation only ever ends a request early, which Refuse covers.          *)
(***************************************************************************)
CONSTANTS
  Clients,
  DocIds,
  Tenants,
  References,    \* ids of applications, payments and bank accounts
  Owners,        \* ids of parties and of legal entities
  Versions,      \* SHA-256 digests
  Tokens,        \* claims of the tokens the issuer signs
  Parties,       \* <<tenant, environment, id>> the Party service knows
  Environment    \* DOCUMENT_ENVIRONMENT of this deployment

Empty == ""

\* Only a tenant id begins with "ten_"; the ids of the owner services do not.
ASSUME IdsAssumption ==
  /\ Tenants \cap References = {}
  /\ Empty \notin DocIds \cup Tenants \cup References \cup Owners
ASSUME ClaimsAssumption == \A t \in Tokens : t.tenant \in Tenants \cup {Empty}
ASSUME EnvironmentAssumption == Environment # Empty

VARIABLES docs, requests

vars == <<docs, requests>>

PartyEnvironments == {"sandbox", "production"}
OwnerTypes == {"PARTY", "LEGAL_ENTITY"}

(* One purpose stands for all that are open to ordinary callers.           *)
PurposeOf == [case      |-> "credit_assessment",
              payment   |-> "manual_bank_payment",
              statement |-> "manual_bank_statement",
              account   |-> "bank_account_verification"]

GrantRoutes == DOMAIN PurposeOf
Purposes == {PurposeOf[r] : r \in GrantRoutes}

(* The right a generic operation requires.                                 *)
RightFor == [create   |-> "documents.write",
             complete |-> "documents.write",
             content  |-> "documents.write",
             download |-> "documents.read",
             scan     |-> "documents.scan",
             evidence |-> "documents.evidence.verify"]

None == {Empty}

(* A request: path, query and body.  An absent field is Empty.  The digest *)
(* asked for (sha) and the one a new document declares (declared) are told *)
(* apart: on a grant route the former is in the query, the latter in the   *)
(* body of a session.                                                      *)
Request(route, ops, tenants, references, ids, versions, purposes, types, owners) ==
  [route : route, op : ops, who : Tokens, tenant : tenants, ref : references,
   id : ids, sha : versions, purpose : purposes, ownerType : types, owner : owners,
   declared : IF ops = {"create"} THEN Versions ELSE None]

Requests ==
  Request({"generic"}, {"create"}, None, References \cup Tenants \cup None, None,
          None, Purposes, OwnerTypes, Owners)
  \cup Request({"generic"}, {"complete", "content", "download", "scan"},
               None, None, DocIds, None, None, None, None)
  \cup Request({"generic"}, {"evidence"}, None, References \cup None, DocIds,
               Versions, None, None, Owners)
  \cup Request(GrantRoutes, {"create"}, Tenants \cup None, References, None,
               Versions \cup None, None, None, None)
  \cup Request({"case"}, {"list"}, Tenants, References, None, Versions \cup None,
               None, None, None)
  \cup Request({"case"}, {"read", "content", "download"}, Tenants, References,
               DocIds, Versions \cup None, None, None, None)
  \cup Request(GrantRoutes \ {"case"}, {"read", "content", "download", "verify"},
               Tenants \cup None, References, DocIds, Versions \cup None, None, None, None)

Row == [id : DocIds, tenant : Tenants \cup None,
        env : (PartyEnvironments \cup {t.env : t \in Tokens}) \ None,
        app : {t.app : t \in Tokens} \cup {t.azp : t \in Tokens},
        ref : References \cup Tenants \cup None, purpose : Purposes,
        ownerType : OwnerTypes, owner : Owners, sha : Versions]

NoRow == [id |-> Empty]
NoRequest == [route |-> Empty]
NoGrant == [owner |-> Empty, ownerType |-> Empty]

-----------------------------------------------------------------------------
(* The token.                                                              *)

Verified(t) == t.sub # Empty /\ (t.tenant # Empty \/ t.azp # Empty)

ScopeOf(t) == [tenant |-> t.tenant, env |-> t.env, sub |-> t.sub,
               app |-> IF t.app # Empty THEN t.app ELSE t.azp,
               payment |-> Empty, statement |-> Empty,
               account |-> Empty, ownerType |-> Empty, owner |-> Empty]

(* require, and the explicit scope the evidence endpoint insists on.       *)
MayEnter(q) ==
  /\ RightFor[q.op] \in q.who.rights
  /\ q.op = "evidence" =>
       /\ Empty \notin {q.who.tenant, ScopeOf(q.who).app}
       /\ q.who.env = Environment

-----------------------------------------------------------------------------
(* Grants of the owner services.                                           *)

(* What a handler checks before it asks: only the case route admits a      *)
(* caller that has a tenant or an application of its own.                  *)
MayAsk(q) ==
  /\ q.who.env = Environment
  /\ q.tenant # Empty \/ q.route = "account"
  /\ q.route # "case" => /\ Environment \in PartyEnvironments
                         /\ q.who.tenant = Empty
                         /\ q.who.app = Empty

Intent(q) ==
  IF q.op = "create" THEN "upload"
  ELSE IF q.op = "content" THEN IF q.route = "account" THEN "complete" ELSE "upload"
  ELSE IF q.op \in {"list", "read"} /\ q.route = "case" THEN "uploads" ELSE q.op

Question(q) == [ref |-> q.ref, tenant |-> q.tenant, env |-> Environment,
                actor |-> q.who.sub, intent |-> Intent(q), id |-> q.id,
                sha |-> q.sha]

(* Answers to another question: one field differs.                         *)
Strayed(a) ==
  {[a EXCEPT !.ref = r] : r \in References}
  \cup {[a EXCEPT !.tenant = t] : t \in Tenants \cup None}
  \cup {[a EXCEPT !.env = e] : e \in PartyEnvironments}
  \cup {[a EXCEPT !.actor = t.sub] : t \in Tokens}
  \cup {[a EXCEPT !.intent = i] : i \in {"upload", "download"}}
  \cup {[a EXCEPT !.id = d] : d \in DocIds}
  \cup {[a EXCEPT !.sha = v] : v \in Versions \cup None}

Grants(q) == [question  : {Question(q)} \cup Strayed(Question(q)),
              owner     : Owners \cup None,
              ownerType : OwnerTypes]

(* Faulty variant: the tenant of the answer is not compared.               *)
ValidGrantOfAnyTenant(q, g) ==
  /\ [g.question EXCEPT !.tenant = q.tenant] = Question(q)
  /\ g.owner # Empty
  /\ q.route = "account" =>
       g.ownerType = IF q.tenant = Empty THEN "LEGAL_ENTITY" ELSE "PARTY"

ValidGrant(q, g) ==
  /\ g.question = Question(q)
  /\ g.owner # Empty
  /\ q.route = "account" =>
       g.ownerType = IF q.tenant = Empty THEN "LEGAL_ENTITY" ELSE "PARTY"

(* The scope the service acts with.                                        *)
Scope(q, g) ==
  IF q.route = "generic" THEN ScopeOf(q.who) ELSE
    [ScopeOf(q.who) EXCEPT
       !.tenant    = g.question.tenant,
       !.payment   = IF q.route = "payment" THEN g.question.ref ELSE Empty,
       !.statement = IF q.route = "statement" THEN g.question.ref ELSE Empty,
       !.account   = IF q.route = "account" THEN g.question.ref ELSE Empty,
       !.ownerType = IF q.route = "account" THEN g.ownerType ELSE Empty,
       !.owner     = IF q.route = "account" THEN g.owner ELSE Empty]

-----------------------------------------------------------------------------
(* The predicates of the service's lookups, on one row.                    *)

DefaultEnvironment(e) == IF e = Empty THEN "sandbox" ELSE e

ValidBankAccountScope(s) ==
  /\ Empty \notin {s.account, s.owner, s.sub, s.app}
  /\ s.env \in PartyEnvironments
  /\ \/ s.ownerType = "PARTY" /\ s.tenant # Empty
     \/ s.ownerType = "LEGAL_ENTITY" /\ s.tenant = Empty

InPartition(s, d) == d.tenant = s.tenant /\ d.env = s.env

(* The reference a scope holds for a restricted purpose.                   *)
ReferenceFor(s, purpose) ==
  IF purpose = PurposeOf.payment THEN s.payment
  ELSE IF purpose = PurposeOf.statement THEN s.statement ELSE s.account

OwnReference(s, d) ==
  /\ InPartition(s, d)
  /\ d.ref = ReferenceFor(s, d.purpose)
  /\ IF d.purpose = PurposeOf.account
     THEN ValidBankAccountScope(s) /\ d.ownerType = s.ownerType /\ d.owner = s.owner
     ELSE Empty \notin {d.ref, s.tenant, s.env}

CheckPaymentAccess(s, d) == d.purpose # PurposeOf.case => OwnReference(s, d)

Get(s, d) ==
  /\ IF s.tenant = Empty THEN d.env = DefaultEnvironment(s.env) ELSE InPartition(s, d)
  /\ CheckPaymentAccess(s, d)

OfParty(s, party, d) == InPartition(s, d) /\ d.ownerType = "PARTY" /\ d.owner = party

CaseRow(s, ref, party, d) ==
  /\ Empty \notin {s.tenant, s.env, s.app, ref, party}
  /\ OfParty(s, party, d) /\ d.ref = ref

CaseUpload(s, ref, party, d) == CaseRow(s, ref, party, d) /\ Get(s, d)

(* CaseUploads lists the rows of the case and has a filter of its own for  *)
(* the restricted purposes.  Its order and its pages are in CaseListing.   *)
CaseUploads(s, ref, party, d) ==
  /\ CaseRow(s, ref, party, d)
  /\ d.purpose # PurposeOf.case => ReferenceFor(s, d.purpose) = ref
  /\ d.purpose = PurposeOf.account =>
       ValidBankAccountScope(s) /\ d.ownerType = s.ownerType /\ d.owner = s.owner

(* Evidence, and ResourceEvidence when a reference is given.               *)
VerifyEvidence(s, ref, party, sha, d) ==
  /\ Empty \notin {s.tenant, s.env, s.app, party}
  /\ OfParty(s, party, d) /\ ref \in {Empty, d.ref}
  /\ CheckPaymentAccess(s, d)
  /\ d.sha = sha

BankAccountRow(s, d) ==
  /\ ValidBankAccountScope(s)
  /\ InPartition(s, d) /\ d.ref = s.account
  /\ d.ownerType = s.ownerType /\ d.owner = s.owner
  /\ d.purpose = PurposeOf.account

BankAccountDocument(s, d) == BankAccountRow(s, d) /\ Get(s, d)
BankAccountEvidence(s, sha, d) == BankAccountRow(s, d) /\ d.sha = sha

(* Faulty variant: the UPDATE uses the scope as it came.                   *)
CompleteInScope(s, d) ==
  /\ Get(s, d)
  /\ s.env # Empty
  /\ InPartition(s, d)

(* Complete: get, then an UPDATE in the partition of the scope, for which  *)
(* a caller without tenant adopts the partition of the row.  (A bank       *)
(* account scope that passed get has the environment of the row already.)  *)
Complete(s, d) ==
  LET tenant == IF s.tenant = Empty THEN d.tenant ELSE s.tenant
      env    == IF s.tenant = Empty THEN d.env ELSE s.env
  IN /\ Get(s, d)
     /\ tenant # Empty \/ (d.purpose = PurposeOf.account /\ ValidBankAccountScope(s))
     /\ env # Empty
     /\ d.tenant = tenant /\ d.env = env

-----------------------------------------------------------------------------
(* What each route looks up.                                               *)

GenericCheck(q, s, d) ==
  \/ q.op = "scan" /\ InPartition(s, d)
  \/ q.op = "evidence" /\ VerifyEvidence(s, q.ref, q.owner, q.sha, d)
  \/ q.op \notin {"scan", "evidence"} /\ Get(s, d)

CaseCheck(q, s, party, d) ==
  \/ q.op = "list" /\ CaseUploads(s, q.ref, party, d)
  \/ q.op = "download" /\ VerifyEvidence(s, Empty, party, q.sha, d)
  \/ q.op \in {"read", "content"} /\ CaseUpload(s, q.ref, party, d)

(* The payment and the statement route.                                    *)
BankEvidenceCheck(q, s, party, d) ==
  /\ IF q.op \in {"read", "content"} THEN CaseUpload(s, q.ref, party, d)
                                     ELSE VerifyEvidence(s, q.ref, party, q.sha, d)
  /\ d.purpose = PurposeOf[q.route]

BankAccountCheck(q, s, d) ==
  IF q.op \in {"read", "content"} THEN BankAccountDocument(s, d)
                                  ELSE BankAccountEvidence(s, q.sha, d)

Check(q, g, d) ==
  LET s == Scope(q, g) IN
    \/ q.route = "generic" /\ GenericCheck(q, s, d)
    \/ q.route = "case" /\ CaseCheck(q, s, g.owner, d)
    \/ q.route = "account" /\ BankAccountCheck(q, s, d)
    \/ q.route \in {"payment", "statement"} /\ BankEvidenceCheck(q, s, g.owner, d)

OpenEvidence(s, party, sha, d) == VerifyEvidence(s, Empty, party, sha, d) /\ Get(s, d)

OpenBankAccountEvidence(s, sha, d) ==
  BankAccountEvidence(s, sha, d) /\ BankAccountDocument(s, d)

(* The lookup that acts on the row: Complete after the bytes are stored,   *)
(* or the one that finds the object to stream.  Others act on what Check   *)
(* found.                                                                  *)
Act(q, g, d) ==
  LET s == Scope(q, g) IN
    /\ q.op \in {"content", "complete"} => Complete(s, d)
    /\ q.op = "download" =>
         /\ q.route \in {"case", "payment", "statement"} => OpenEvidence(s, g.owner, q.sha, d)
         /\ q.route = "account" => OpenBankAccountEvidence(s, q.sha, d)

-----------------------------------------------------------------------------
(* Create.                                                                 *)

(* The fields of CreateInput: from the body, or from the grant.            *)
Input(q, g) ==
  IF q.route = "generic"
  THEN [ref |-> q.ref, purpose |-> q.purpose, ownerType |-> q.ownerType, owner |-> q.owner]
  ELSE [ref |-> g.question.ref, purpose |-> PurposeOf[q.route], owner |-> g.owner,
        ownerType |-> IF q.route = "account" THEN g.ownerType ELSE "PARTY"]

(* Faulty variant: any source reference is taken for a tenant.             *)
TenantForAnyReference(s, in) == IF s.tenant = Empty THEN in.ref ELSE s.tenant

(* A tenantless caller's tenant is its source reference, if that is one.   *)
TenantFor(s, in) == IF s.tenant = Empty /\ in.ref \in Tenants THEN in.ref ELSE s.tenant

MayCreate(s, in) ==
  /\ in.purpose # PurposeOf.case => in.ref = ReferenceFor(s, in.purpose) /\ in.ref # Empty
  /\ in.purpose = PurposeOf.account =>
       /\ ValidBankAccountScope(s)
       /\ in.ownerType = s.ownerType /\ in.owner = s.owner
  /\ TenantFor(s, in) # Empty \/ in.purpose = PurposeOf.account
  /\ s.app # Empty

NewRow(q, g, id) ==
  LET s == Scope(q, g)
      in == Input(q, g)
  IN [id |-> id, tenant |-> TenantFor(s, in), env |-> DefaultEnvironment(s.env),
      app |-> s.app, ref |-> in.ref, purpose |-> in.purpose,
      ownerType |-> in.ownerType, owner |-> in.owner, sha |-> q.declared]

(* Faulty variant: Party is asked in the environment of the deployment.    *)
ConfirmedInDeployment(d) ==
  d.ownerType = "PARTY" => <<d.tenant, Environment, d.owner>> \in Parties

(* party.Exists.                                                           *)
Confirmed(d) ==
  d.ownerType = "PARTY" =>
    /\ d.tenant # Empty
    /\ d.env \in PartyEnvironments
    /\ <<d.tenant, d.env, d.owner>> \in Parties

(* The document a session may be answered with: one stored for the same    *)
(* request (a key used again, or the upsert), or a new row.                *)
SameSession(d, n) == [d EXCEPT !.id = n.id] = n

-----------------------------------------------------------------------------
(* A request in progress: the question it asks, the grant it was given,    *)
(* and the row its last lookup found.                                      *)

Idle == [stage |-> "idle", q |-> NoRequest, g |-> NoGrant, row |-> NoRow]

Init ==
  /\ docs = {}
  /\ requests = [c \in Clients |-> Idle]

Becomes(c, stage, q, g, row) ==
  requests' = [requests EXCEPT ![c] = [stage |-> stage, q |-> q, g |-> g, row |-> row]]

Advance(c, stage, row) == Becomes(c, stage, requests[c].q, requests[c].g, row)

Receive(c, q) ==
  /\ requests[c].stage = "idle"
  /\ Verified(q.who)
  /\ IF q.route = "generic" THEN MayEnter(q) ELSE MayAsk(q)
  /\ Becomes(c, IF q.route = "generic" THEN "granted" ELSE "asking", q, NoGrant, NoRow)
  /\ UNCHANGED docs

(* The owner service answers; whatever it answers may be for another       *)
(* question.  An answer that is not taken ends the request: Refuse.        *)
Grant(c) ==
  /\ requests[c].stage = "asking"
  /\ \E g \in Grants(requests[c].q) :
       /\ ValidGrant(requests[c].q, g)
       /\ Scope(requests[c].q, g).app # Empty
       /\ Becomes(c, "granted", requests[c].q, g, NoRow)
  /\ UNCHANGED docs

(* Of a listing, which names no id, each row found is an answer.           *)
LookUp(c) ==
  LET r == requests[c] IN
    /\ r.stage = "granted" /\ r.q.op # "create"
    /\ \E d \in docs : r.q.id \in {Empty, d.id} /\ Check(r.q, r.g, d) /\ Advance(c, "checked", d)
    /\ UNCHANGED docs

Serve(c) ==
  LET r == requests[c] IN
    /\ r.stage = "checked"
    /\ \E d \in docs :
         /\ d.id = IF r.q.op = "list" THEN r.row.id ELSE r.q.id
         /\ Act(r.q, r.g, d)
         /\ Advance(c, "served", d)
    /\ UNCHANGED docs

Create(c) ==
  LET r == requests[c] IN
    /\ r.stage = "granted" /\ r.q.op = "create"
    /\ MayCreate(Scope(r.q, r.g), Input(r.q, r.g))
    /\ \/ \E d \in docs : /\ SameSession(d, NewRow(r.q, r.g, d.id))
                          /\ Advance(c, "served", d)
                          /\ UNCHANGED docs
       \/ \E id \in DocIds \ {d.id : d \in docs} :
            LET d == NewRow(r.q, r.g, id) IN
              /\ Confirmed(d)
              /\ docs' = docs \cup {d}
              /\ Advance(c, "served", d)

(* A 4xx or 5xx answer at any point, or the end of an answered request.    *)
Finish(c) ==
  /\ requests[c].stage # "idle"
  /\ Becomes(c, "idle", NoRequest, NoGrant, NoRow)
  /\ UNCHANGED docs

Next ==
  \E c \in Clients :
    \/ \E q \in Requests : Receive(c, q)
    \/ Grant(c) \/ LookUp(c) \/ Serve(c) \/ Create(c) \/ Finish(c)

Spec == Init /\ [][Next]_vars

-----------------------------------------------------------------------------
(* The type invariant; an id names one document.                           *)
TypeOK ==
  /\ docs \subseteq Row
  /\ DOMAIN requests = Clients
  /\ \A c \in Clients : /\ requests[c].stage \in {"idle", "asking", "granted", "checked", "served"}
                        /\ requests[c].row \in docs \cup {NoRow}
  /\ \A d, e \in docs : d.id = e.id => d = e

(* A PARTY-owned document exists only for a party that the Party service   *)
(* knows in the document's own tenant and environment, whichever route and *)
(* token created it and whichever defaults filled its columns.             *)
OwnersExist ==
  \A d \in docs : d.ownerType = "PARTY" => <<d.tenant, d.env, d.owner>> \in Parties

(* What a session was answered with can be reached again by the same       *)
(* token through the same route: the bytes can be pushed and completed.    *)
(* Excepted is a token with a tenant and without an environment: Create    *)
(* fills the environment in, the lookups of such a caller do not.          *)
SessionCanComplete ==
  \A c \in Clients :
    LET r == requests[c]
        push == [r.q EXCEPT !.op = "content", !.id = r.row.id]
    IN r.stage = "served" /\ r.q.op = "create"
         /\ (r.q.who.tenant # Empty => r.q.who.env # Empty)
       => Check(push, r.g, r.row) /\ Act(push, r.g, r.row)

-----------------------------------------------------------------------------
(* The authority a request acts on, for the abstract policy.               *)
Kind(q) == IF q.route # "generic" THEN q.route
           ELSE IF q.op = "scan" THEN "scanner"
           ELSE IF q.who.tenant = Empty THEN "legacy" ELSE "caller"

AuthorityOf(q, g) ==
  [kind |-> Kind(q), op |-> q.op, id |-> q.id, ref |-> q.ref, sha |-> q.sha,
   env |-> DefaultEnvironment(q.who.env),
   tenant |-> IF q.route = "generic" THEN q.who.tenant ELSE q.tenant,
   owner |-> g.owner]

answer == [c \in Clients |->
             IF requests[c].stage = "served"
             THEN [authority |-> AuthorityOf(requests[c].q, requests[c].g),
                   row |-> requests[c].row]
             ELSE [authority |-> NoRow, row |-> NoRow]]

Policy == INSTANCE AccessPolicy WITH registered <- docs

(* No route, token or sequence of requests gets a document its authority   *)
(* is not entitled to: the tenants and environments are isolated, a        *)
(* payment receipt, a bank statement and bank-account evidence are reached *)
(* only under the grant of their own payment or account, and a grant       *)
(* confers nothing but its own case's documents.                           *)
ImplementsPolicy == Policy!Spec
===============================================================================
