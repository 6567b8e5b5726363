----------------------------- MODULE AccessProofs -----------------------------
(***************************************************************************)
(* Access keeps to AccessPolicy, and its invariants, for any clients,      *)
(* tenants, tokens, owner services and documents.                          *)
(***************************************************************************)
EXTENDS Access, TLAPS

(* Which kind of authority each purpose is open to.                        *)
LEMMA PurposeCases ==
  ASSUME NEW d, d.purpose \in Purposes
  PROVE  \/ d.purpose = "credit_assessment" /\ ~Policy!Restricted(d)
         \/ d.purpose = "manual_bank_payment" /\ Policy!Restricted(d)
              /\ Policy!KindFor[d.purpose] = "payment"
         \/ d.purpose = "manual_bank_statement" /\ Policy!Restricted(d)
              /\ Policy!KindFor[d.purpose] = "statement"
         \/ d.purpose = "bank_account_verification" /\ Policy!Restricted(d)
              /\ Policy!KindFor[d.purpose] = "account"
  BY DEF Purposes, PurposeOf, GrantRoutes, Policy!Restricted, Policy!KindFor

(* A generic route finds a row that is open to its caller.                 *)
LEMMA GenericEntitled ==
  ASSUME NEW q \in Requests, q.route = "generic", NEW d \in Row, q.op # "create",
         q.id \in {Empty, d.id}, Check(q, NoGrant, d), MayEnter(q)
  PROVE  Policy!Entitled(AuthorityOf(q, NoGrant), d)
  <1> DEFINE a == AuthorityOf(q, NoGrant)
             s == ScopeOf(q.who)
  <1>1. /\ a.kind \in {"scanner", "legacy", "caller"}
        /\ a.id = q.id /\ a.op = q.op /\ a.sha = q.sha
        /\ a.env = DefaultEnvironment(s.env) /\ a.tenant = s.tenant
        /\ s.payment = Empty /\ s.statement = Empty /\ s.account = Empty
        /\ a.kind = "scanner" <=> q.op = "scan"
        /\ a.kind = "caller" => s.tenant # Empty
    BY DEF AuthorityOf, Kind, ScopeOf
  <1>2. Scope(q, NoGrant) = s
    BY SMT DEF Scope
  <1>3. GenericCheck(q, s, d)
    BY <1>2 DEF Check
  <1> HIDE DEF a, s
  <1>4. ~Policy!Restricted(d) \/ q.op = "scan"
    BY <1>1, <1>3, PurposeCases DEF Row, GenericCheck, VerifyEvidence, Get, CheckPaymentAccess,
       OwnReference, ValidBankAccountScope, ReferenceFor, PurposeOf
  <1>5. Policy!Isolated(a, d)
    BY <1>1, <1>3 DEF GenericCheck, VerifyEvidence, OfParty, Get, InPartition, Policy!Isolated,
       DefaultEnvironment, Row, None
  <1>6. Policy!Exact(a, d)
    <2>1. q.op # "verify"
      BY DEF Requests, Request, GrantRoutes, PurposeOf
    <2> QED BY <1>1, <1>3, <2>1 DEF GenericCheck, VerifyEvidence, Policy!Exact, Policy!Granted
  <1>7. Policy!Private(a, d) /\ Policy!OwnCase(a, d)
    BY <1>1, <1>4, PurposeCases DEF Row, Policy!Private, Policy!OwnCase, Policy!Granted
  <1> QED BY <1>1, <1>5, <1>6, <1>7 DEF Policy!Entitled, a, Policy!Empty, Empty

(* The scope a valid grant gives, field by field.                          *)
LEMMA GrantScope ==
  ASSUME NEW q \in Requests, q.route \in GrantRoutes, NEW g, ValidGrant(q, g)
  PROVE  LET s == Scope(q, g) IN
           /\ s.tenant = q.tenant /\ s.env = q.who.env /\ s.sub = q.who.sub
           /\ s.app = ScopeOf(q.who).app
           /\ s.payment = IF q.route = "payment" THEN q.ref ELSE Empty
           /\ s.statement = IF q.route = "statement" THEN q.ref ELSE Empty
           /\ s.account = IF q.route = "account" THEN q.ref ELSE Empty
           /\ s.ownerType = IF q.route = "account" THEN g.ownerType ELSE Empty
           /\ s.owner = IF q.route = "account" THEN g.owner ELSE Empty
  <1>1. q.route # "generic"
    BY DEF GrantRoutes, PurposeOf
  <1>2. g.question.tenant = q.tenant /\ g.question.ref = q.ref
    BY DEF ValidGrant, Question
  <1> QED BY <1>1, <1>2 DEF Scope, ScopeOf

(* The authority of a granted request, field by field.                     *)
LEMMA GrantAuthority ==
  ASSUME NEW q \in Requests, q.route \in GrantRoutes, NEW g, MayAsk(q)
  PROVE  LET a == AuthorityOf(q, g) IN
           /\ a.kind = q.route /\ a.op = q.op /\ a.id = q.id /\ a.ref = q.ref
           /\ a.sha = q.sha /\ a.env = q.who.env /\ a.tenant = q.tenant
           /\ a.owner = g.owner /\ a.env # Empty
  <1>1. q.route # "generic" /\ q.who.env # Empty
    BY EnvironmentAssumption DEF GrantRoutes, PurposeOf, MayAsk
  <1> QED BY <1>1 DEF AuthorityOf, Kind, DefaultEnvironment

(* A row a lookup finds under a grant is one the grant entitles to.        *)
LEMMA GrantEntitled ==
  ASSUME NEW q \in Requests, q.route \in GrantRoutes, q.op # "create",
         NEW g, ValidGrant(q, g), MayAsk(q),
         NEW d \in Row, q.id \in {Empty, d.id}, Check(q, g, d)
  PROVE  Policy!Entitled(AuthorityOf(q, g), d)
  <1> DEFINE a == AuthorityOf(q, g)
             s == Scope(q, g)
  <1>1. /\ a.kind = q.route /\ a.op = q.op /\ a.id = q.id /\ a.ref = q.ref
        /\ a.sha = q.sha /\ a.env = q.who.env /\ a.tenant = q.tenant
        /\ a.owner = g.owner /\ a.env # Empty
    BY GrantAuthority
  <1>2. /\ s.tenant = q.tenant /\ s.env = q.who.env
        /\ s.payment = IF q.route = "payment" THEN q.ref ELSE Empty
        /\ s.statement = IF q.route = "statement" THEN q.ref ELSE Empty
        /\ s.account = IF q.route = "account" THEN q.ref ELSE Empty
        /\ s.owner = IF q.route = "account" THEN g.owner ELSE Empty
    BY GrantScope
  <1>3. \/ q.route = "case" /\ CaseCheck(q, s, g.owner, d)
        \/ q.route = "account" /\ BankAccountCheck(q, s, d)
        \/ q.route \in {"payment", "statement"} /\ BankEvidenceCheck(q, s, g.owner, d)
    BY DEF Check, GrantRoutes, PurposeOf
  <1>4. q.op \in {"list", "read", "content", "download", "verify"}
        /\ (q.op = "list" => q.route = "case")
        /\ (q.op = "verify" => q.route # "case")
    BY DEF Requests, Request, GrantRoutes, PurposeOf
  <1> HIDE DEF a, s
  <1>5. InPartition(s, d) /\ d.owner = g.owner
    BY <1>2, <1>3, <1>4 DEF CaseCheck, BankAccountCheck, BankEvidenceCheck, CaseUpload, CaseUploads,
       CaseRow, VerifyEvidence, OfParty, BankAccountDocument, BankAccountEvidence, BankAccountRow
  <1>6. Policy!Isolated(a, d)
    BY <1>1, <1>2, <1>5 DEF Policy!Isolated, InPartition
  <1>7. Policy!Exact(a, d)
    BY <1>1, <1>3, <1>4 DEF CaseCheck, BankAccountCheck, BankEvidenceCheck,
       VerifyEvidence, BankAccountEvidence, Policy!Exact, Policy!Granted
  <1>8. ~(q.route = "case" /\ q.op = "download") => d.ref = q.ref
    <2>1. q.ref # Empty
      BY IdsAssumption DEF Requests, Request, GrantRoutes, PurposeOf
    <2> QED BY <1>2, <1>3, <1>4, <2>1 DEF CaseCheck, BankAccountCheck, BankEvidenceCheck,
       CaseUpload, CaseUploads, CaseRow, VerifyEvidence, BankAccountDocument,
       BankAccountEvidence, BankAccountRow
  <1>9. Policy!OwnCase(a, d)
    BY <1>1, <1>5, <1>8 DEF Policy!OwnCase
  <1>10. CASE q.route = "case"
    <2>1. ASSUME q.op = "list" PROVE ~Policy!Restricted(d)
      <3>1. CaseUploads(s, q.ref, g.owner, d)
        BY <1>3, <1>10, <2>1 DEF CaseCheck
      <3> QED BY <3>1, <1>2, <1>10, PurposeCases DEF CaseUploads, CaseRow, ReferenceFor, PurposeOf, Row
    <2>2. ASSUME q.op # "list" PROVE ~Policy!Restricted(d)
      <3>1. CheckPaymentAccess(s, d)
        BY <1>3, <1>10, <2>2 DEF CaseCheck, CaseUpload, VerifyEvidence, Get
      <3> QED BY <3>1, <1>2, <1>10, PurposeCases DEF CheckPaymentAccess, OwnReference,
            ValidBankAccountScope, ReferenceFor, PurposeOf, Row
    <2>3. ~Policy!Restricted(d)
      BY <2>1, <2>2
    <2> QED BY <2>3, <1>1, <1>6, <1>7, <1>9, <1>10 DEF Policy!Entitled, Policy!Private, a,
          Policy!Empty, Empty
  <1>11. CASE q.route # "case"
    <2>1. d.purpose = PurposeOf[q.route] /\ q.route \in {"payment", "statement", "account"}
      BY <1>3, <1>11 DEF BankAccountCheck, BankEvidenceCheck, BankAccountDocument,
         BankAccountEvidence, BankAccountRow
    <2>2. Policy!Restricted(d) /\ Policy!KindFor[d.purpose] = q.route
      BY <2>1, PurposeCases DEF Row, PurposeOf
    <2> QED BY <2>2, <1>1, <1>6, <1>7, <1>9 DEF Policy!Entitled, Policy!Private, a,
          Policy!Empty, Empty
  <1> QED BY <1>10, <1>11

(* Whoever creates a document is entitled to it; a session is answered     *)
(* with the document it stored, or one stored for the same request.        *)
LEMMA CreateEntitled ==
  ASSUME NEW q \in Requests, q.op = "create", NEW g, NEW d \in Row,
         MayCreate(Scope(q, g), Input(q, g)),
         IF q.route = "generic" THEN g = NoGrant
                                ELSE ValidGrant(q, g) /\ MayAsk(q),
         SameSession(d, NewRow(q, g, d.id))
  PROVE  Policy!Entitled(AuthorityOf(q, g), d)
  <1> DEFINE a == AuthorityOf(q, g)
             s == Scope(q, g)
             in == Input(q, g)
  <1>1. q.id = Empty /\ q.route \in GrantRoutes \cup {"generic"}
    BY DEF Requests, Request, None, GrantRoutes, PurposeOf
  <1>2. /\ d.tenant = TenantFor(s, in) /\ d.env = DefaultEnvironment(s.env)
        /\ d.ref = in.ref /\ d.purpose = in.purpose /\ d.owner = in.owner
    BY DEF SameSession, NewRow, Row
  <1>3. ~Policy!Exact(a, d) => FALSE
    BY DEF Policy!Exact, AuthorityOf
  <1>4. CASE q.route = "generic"
    <2>1. /\ a.kind \in {"legacy", "caller"} /\ a.id = Empty
          /\ a.env = DefaultEnvironment(q.who.env) /\ a.tenant = q.who.tenant
          /\ a.kind = "caller" => q.who.tenant # Empty
      BY <1>1, <1>4 DEF AuthorityOf, Kind
    <2>2. s = ScopeOf(q.who)
      BY <1>4 DEF Scope
    <2>3. /\ s.payment = Empty /\ s.statement = Empty /\ s.account = Empty
          /\ s.tenant = q.who.tenant /\ s.env = q.who.env
      BY <2>2 DEF ScopeOf
    <2> HIDE DEF a, s, in
    <2>4. ~Policy!Restricted(d)
      BY <1>2, <2>3, PurposeCases DEF MayCreate, ReferenceFor, ValidBankAccountScope,
         PurposeOf, Row, s, in
    <2>5. Policy!Isolated(a, d)
      BY <1>2, <2>1, <2>3 DEF Policy!Isolated, TenantFor
    <2> QED BY <1>3, <2>1, <2>4, <2>5 DEF Policy!Entitled, Policy!OwnCase, Policy!Private,
          Policy!Granted, a, Policy!Empty, Empty
  <1>5. CASE q.route \in GrantRoutes
    <2>1. /\ a.kind = q.route /\ a.op = "create" /\ a.id = Empty /\ a.ref = q.ref
          /\ a.env = q.who.env /\ a.tenant = q.tenant
          /\ a.owner = g.owner /\ a.env # Empty
      BY <1>1, <1>5, GrantAuthority DEF GrantRoutes, PurposeOf
    <2>2. s.tenant = q.tenant /\ s.env = q.who.env
      BY <1>5, GrantScope DEF GrantRoutes, PurposeOf
    <2>3. q.route # "generic"
      BY <1>5 DEF GrantRoutes, PurposeOf
    <2>4. in.ref = q.ref /\ in.purpose = PurposeOf[q.route] /\ in.owner = g.owner
      BY <2>3 DEF Input, ValidGrant, Question
    <2>5. q.ref \in References
      BY <2>3 DEF Requests, Request
    <2> HIDE DEF a, s, in
    <2>6. d.tenant = q.tenant
      BY <1>2, <2>2, <2>4, <2>5, IdsAssumption DEF TenantFor
    <2>7. Policy!Isolated(a, d) /\ Policy!OwnCase(a, d)
      BY <1>2, <2>1, <2>2, <2>4, <2>6 DEF Policy!Isolated, Policy!OwnCase, DefaultEnvironment
    <2>8. Policy!Private(a, d)
      BY <1>2, <1>5, <2>1, <2>4, PurposeCases DEF Policy!Private, PurposeOf, GrantRoutes, Row
    <2> QED BY <1>3, <2>1, <2>7, <2>8 DEF Policy!Entitled, a, Policy!Empty, Empty
  <1> QED BY <1>1, <1>4, <1>5

(* A caller that finds its row by its scope may complete it.               *)
LEMMA FoundCompletes ==
  ASSUME NEW s, NEW d \in Row, Get(s, d), s.tenant # Empty => s.env # Empty,
         d.tenant # Empty \/ (d.purpose = PurposeOf.account /\ ValidBankAccountScope(s))
  PROVE  Complete(s, d)
  <1>1. d.env # Empty
    BY DEF Row, None
  <1>2. s.tenant # Empty => InPartition(s, d)
    BY DEF Get
  <1> QED BY <1>1, <1>2 DEF Complete, InPartition

(* The push that follows a session, through the route it came by.          *)
Push(q, d) == [q EXCEPT !.op = "content", !.id = d.id]

(* A row that a session may be answered with passes the lookups of the     *)
(* push that follows it.                                                   *)
LEMMA SessionReaches ==
  ASSUME NEW q \in Requests, q.op = "create", NEW g, NEW d \in Row,
         MayCreate(Scope(q, g), Input(q, g)),
         IF q.route = "generic" THEN g = NoGrant
                                ELSE ValidGrant(q, g) /\ MayAsk(q),
         SameSession(d, NewRow(q, g, d.id)),
         q.who.tenant # Empty => q.who.env # Empty
  PROVE  Check(Push(q, d), g, d) /\ Act(Push(q, d), g, d)
  <1> DEFINE p == Push(q, d)
             s == Scope(q, g)
             in == Input(q, g)
  <1>1. /\ p.route = q.route /\ p.who = q.who /\ p.ref = q.ref /\ p.tenant = q.tenant
        /\ p.op = "content" /\ p.id = d.id
    BY DEF Push, Requests, Request
  <1>2. q.route \in GrantRoutes \cup {"generic"}
    BY DEF Requests, Request, GrantRoutes, PurposeOf
  <1>3. Scope(p, g) = s
    BY <1>1 DEF Scope
  <1>4. /\ d.tenant = TenantFor(s, in) /\ d.env = DefaultEnvironment(s.env)
        /\ d.ref = in.ref /\ d.purpose = in.purpose
        /\ d.owner = in.owner /\ d.ownerType = in.ownerType
    BY DEF SameSession, NewRow, Row
  <1>5. MayCreate(s, in)
    OBVIOUS
  <1>6. d.tenant # Empty \/ (d.purpose = PurposeOf.account /\ ValidBankAccountScope(s))
    BY <1>4, <1>5 DEF MayCreate
  <1>7. CASE q.route = "generic"
    <2>1. /\ s.payment = Empty /\ s.statement = Empty /\ s.account = Empty
          /\ s.tenant = q.who.tenant /\ s.env = q.who.env
      BY <1>7 DEF Scope, ScopeOf
    <2> HIDE DEF p, s, in
    <2>2. d.purpose = PurposeOf.case
      BY <1>4, <1>5, <2>1 DEF MayCreate, ReferenceFor
    <2>3. Get(s, d)
      BY <1>4, <2>1, <2>2 DEF Get, CheckPaymentAccess, InPartition, TenantFor,
         DefaultEnvironment
    <2>4. Complete(s, d)
      BY <1>6, <2>1, <2>3, FoundCompletes
    <2> QED BY <1>1, <1>3, <1>7, <2>3, <2>4 DEF Check, Act, GenericCheck, p
  <1>8. CASE q.route \in GrantRoutes
    <2>1. /\ s.tenant = q.tenant /\ s.env = q.who.env /\ q.who.env # Empty
          /\ s.sub = q.who.sub
          /\ s.payment = IF q.route = "payment" THEN q.ref ELSE Empty
          /\ s.statement = IF q.route = "statement" THEN q.ref ELSE Empty
          /\ s.account = IF q.route = "account" THEN q.ref ELSE Empty
          /\ s.ownerType = IF q.route = "account" THEN g.ownerType ELSE Empty
          /\ s.owner = IF q.route = "account" THEN g.owner ELSE Empty
      BY <1>8, GrantScope, EnvironmentAssumption DEF GrantRoutes, PurposeOf, MayAsk
    <2>2. q.route # "generic" /\ q.ref \in References /\ g.owner # Empty
          /\ (q.route # "account" => q.tenant # Empty)
      BY <1>8 DEF GrantRoutes, PurposeOf, Requests, Request, ValidGrant, MayAsk
    <2>3. /\ in.ref = q.ref /\ in.purpose = PurposeOf[q.route] /\ in.owner = g.owner
          /\ in.ownerType = IF q.route = "account" THEN g.ownerType ELSE "PARTY"
      BY <2>2 DEF Input, ValidGrant, Question
    <2> HIDE DEF p, s, in
    <2>4. d.tenant = s.tenant /\ d.env = s.env /\ q.ref # Empty
      BY <1>4, <2>1, <2>2, <2>3, IdsAssumption DEF TenantFor, DefaultEnvironment
    <2>5. s.app # Empty
      BY <1>5 DEF MayCreate
    <2>6. CheckPaymentAccess(s, d)
      BY <1>4, <1>5, <1>8, <2>1, <2>2, <2>3, <2>4 DEF CheckPaymentAccess, OwnReference, InPartition,
         MayCreate, ReferenceFor, GrantRoutes, PurposeOf
    <2>7. Get(s, d)
      BY <2>1, <2>4, <2>6 DEF Get, InPartition, DefaultEnvironment
    <2>8. Complete(s, d)
      BY <1>6, <2>1, <2>7, FoundCompletes
    <2>9. CASE q.route = "account"
      <3>1. BankAccountDocument(s, d)
        BY <1>4, <1>5, <2>1, <2>3, <2>4, <2>7, <2>9 DEF BankAccountDocument, BankAccountRow,
           InPartition, MayCreate, PurposeOf
      <3> QED BY <1>1, <1>3, <2>8, <2>9, <3>1 DEF Check, Act, BankAccountCheck, p
    <2>10. CASE q.route # "account"
      <3>1. CaseUpload(s, q.ref, g.owner, d)
        BY <1>4, <2>1, <2>2, <2>3, <2>4, <2>5, <2>7, <2>10 DEF CaseUpload, CaseRow, OfParty, InPartition
      <3> QED BY <1>1, <1>3, <1>4, <1>8, <2>3, <2>8, <2>10, <3>1 DEF Check, Act, CaseCheck,
            BankEvidenceCheck, GrantRoutes, PurposeOf, p
    <2> QED BY <2>9, <2>10
  <1> QED BY <1>2, <1>7, <1>8

-----------------------------------------------------------------------------
CanComplete(q, g, d) ==
  (q.who.tenant # Empty => q.who.env # Empty)
    => Check(Push(q, d), g, d) /\ Act(Push(q, d), g, d)

(* What is known of a request at each stage.                               *)
Consistent(r) ==
  /\ r.stage # "idle" =>
       /\ r.q \in Requests
       /\ IF r.q.route = "generic" THEN MayEnter(r.q) /\ r.g = NoGrant ELSE MayAsk(r.q)
  /\ r.stage \in {"granted", "checked", "served"} /\ r.q.route # "generic" =>
       ValidGrant(r.q, r.g) /\ r.g \in Grants(r.q)
  /\ r.stage = "asking" => r.q.route # "generic"
  /\ r.stage = "checked" => r.q.id \in {Empty, r.row.id} /\ r.q.op # "create"
  /\ r.stage \in {"checked", "served"} =>
       r.row \in docs /\ Policy!Entitled(AuthorityOf(r.q, r.g), r.row)
  /\ r.stage = "served" /\ r.q.op = "create" =>
       CanComplete(r.q, r.g, r.row)

IInv == TypeOK /\ \A c \in Clients : Consistent(requests[c])

(* The row a session stores has its type.                                  *)
LEMMA NewRowType ==
  ASSUME NEW q \in Requests, q.op = "create", NEW g, NEW id \in DocIds,
         MayCreate(Scope(q, g), Input(q, g)),
         IF q.route = "generic" THEN g = NoGrant
                                ELSE ValidGrant(q, g) /\ g \in Grants(q)
  PROVE  NewRow(q, g, id) \in Row
  <1> DEFINE s == Scope(q, g)
             in == Input(q, g)
  <1>1. q.who \in Tokens /\ q.declared \in Versions /\ q.ref \in References \cup Tenants \cup None
        /\ q.tenant \in Tenants \cup None /\ q.route \in GrantRoutes \cup {"generic"}
    BY DEF Requests, Request, GrantRoutes, PurposeOf
  <1>2. /\ s.app = ScopeOf(q.who).app /\ s.env = q.who.env
        /\ s.tenant \in {q.tenant, q.who.tenant}
    <2>1. CASE q.route = "generic"
      BY <2>1 DEF Scope, ScopeOf
    <2>2. CASE q.route # "generic"
      BY <1>1, <2>2, GrantScope
    <2> QED BY <2>1, <2>2
  <1>3. in.purpose \in Purposes /\ in.ownerType \in OwnerTypes /\ in.owner \in Owners
        /\ in.ref \in References \cup Tenants \cup None
    <2>1. CASE q.route = "generic"
      BY <2>1 DEF Input, Requests, Request, GrantRoutes, PurposeOf
    <2>2. CASE q.route # "generic"
      <3>1. g.owner \in Owners /\ g.ownerType \in OwnerTypes /\ g.question.ref = q.ref
        BY <2>2 DEF ValidGrant, Grants, None, Question
      <3> QED BY <1>1, <2>2, <3>1 DEF Input, OwnerTypes, Purposes
    <2> QED BY <2>1, <2>2
  <1>4. s.app \in {t.app : t \in Tokens} \cup {t.azp : t \in Tokens}
    BY <1>1, <1>2 DEF ScopeOf
  <1>5. DefaultEnvironment(s.env) \in (PartyEnvironments \cup {t.env : t \in Tokens}) \ None
    BY <1>1, <1>2 DEF DefaultEnvironment, PartyEnvironments, None, Empty
  <1>6. TenantFor(s, in) \in Tenants \cup None
    BY <1>1, <1>2, ClaimsAssumption DEF TenantFor, None
  <1> QED BY <1>1, <1>3, <1>4, <1>5, <1>6 DEF NewRow, Row

(* Nothing is known, and nothing needs to be, before the first request.    *)
LEMMA Initially == Init => IInv
  BY DEF Init, Idle, IInv, TypeOK, Consistent

(* A step that leaves the requests of others and every document as it was. *)
LEMMA Others ==
  ASSUME IInv, NEW c \in Clients, NEW stage, NEW q, NEW g, NEW row,
         Becomes(c, stage, q, g, row), docs \subseteq docs'
  PROVE  /\ DOMAIN requests' = Clients
         /\ requests'[c] = [stage |-> stage, q |-> q, g |-> g, row |-> row]
         /\ \A e \in Clients \ {c} : /\ requests'[e] = requests[e]
                                     /\ Consistent(requests[e])'
                                     /\ requests'[e].row \in docs' \cup {NoRow}
  <1> USE DEF IInv, TypeOK
  <1>1. /\ DOMAIN requests' = Clients
        /\ requests'[c] = [stage |-> stage, q |-> q, g |-> g, row |-> row]
        /\ \A e \in Clients \ {c} : requests'[e] = requests[e]
    BY DEF Becomes
  <1>2. \A e \in Clients \ {c} : Consistent(requests[e])'
    BY <1>1 DEF Consistent
  <1> QED BY <1>1, <1>2

(* A step that registers nothing needs only the request it moves.          *)
LEMMA Moved ==
  ASSUME IInv, NEW c \in Clients, NEW stage, NEW q, NEW g, NEW row,
         Becomes(c, stage, q, g, row), UNCHANGED docs,
         stage \in {"idle", "asking", "granted", "checked", "served"},
         row \in docs \cup {NoRow},
         Consistent([stage |-> stage, q |-> q, g |-> g, row |-> row])
  PROVE  IInv'
  <1>1. /\ DOMAIN requests' = Clients
        /\ requests'[c] = [stage |-> stage, q |-> q, g |-> g, row |-> row]
        /\ \A e \in Clients \ {c} : /\ requests'[e] = requests[e]
                                    /\ Consistent(requests[e])'
    BY Others
  <1>2. Consistent(requests[c])'
    BY <1>1 DEF Consistent
  <1>3. TypeOK'
    BY <1>1 DEF IInv, TypeOK
  <1> QED BY <1>1, <1>2, <1>3 DEF IInv

(* Every step of every request keeps what is known of all of them.         *)
LEMMA Inductive == IInv /\ [Next]_vars => IInv'
  <1> SUFFICES ASSUME IInv, [Next]_vars PROVE IInv'
    OBVIOUS
  <1>1. ASSUME NEW c \in Clients, NEW q \in Requests, Receive(c, q) PROVE IInv'
    <2> DEFINE stage == IF q.route = "generic" THEN "granted" ELSE "asking"
    <2>1. Becomes(c, stage, q, NoGrant, NoRow) /\ UNCHANGED docs
      BY <1>1 DEF Receive
    <2>2. Consistent([stage |-> stage, q |-> q, g |-> NoGrant, row |-> NoRow])
      BY <1>1 DEF Receive, Consistent
    <2> QED BY <2>1, <2>2, Moved
  <1>2. ASSUME NEW c \in Clients, Grant(c) PROVE IInv'
    <2>1. PICK g \in Grants(requests[c].q) :
            /\ ValidGrant(requests[c].q, g)
            /\ Becomes(c, "granted", requests[c].q, g, NoRow)
      BY <1>2 DEF Grant
    <2>2. /\ requests[c].stage = "asking" /\ UNCHANGED docs
          /\ Consistent(requests[c])
      BY <1>2 DEF Grant, IInv
    <2>3. Consistent([stage |-> "granted", q |-> requests[c].q, g |-> g, row |-> NoRow])
      BY <2>1, <2>2 DEF Consistent
    <2> QED BY <2>1, <2>2, <2>3, Moved
  <1>3. ASSUME NEW c \in Clients, LookUp(c) PROVE IInv'
    <2> DEFINE r == requests[c]
    <2>1. PICK d \in docs : r.q.id \in {Empty, d.id} /\ Check(r.q, r.g, d) /\ Advance(c, "checked", d)
      BY <1>3 DEF LookUp
    <2>2. r.stage = "granted" /\ r.q.op # "create" /\ UNCHANGED docs /\ Consistent(r)
      BY <1>3 DEF LookUp, IInv
    <2>3. d \in Row
      BY DEF IInv, TypeOK
    <2>4. r.q \in Requests
      BY <2>2 DEF Consistent
    <2>5. Policy!Entitled(AuthorityOf(r.q, r.g), d)
      <3>1. CASE r.q.route = "generic"
        BY <2>1, <2>2, <2>3, <2>4, <3>1, GenericEntitled DEF Consistent
      <3>2. CASE r.q.route # "generic"
        <4>1. r.q.route \in GrantRoutes
          BY <2>4, <3>2 DEF Requests, Request, GrantRoutes, PurposeOf
        <4> QED BY <2>1, <2>2, <2>3, <2>4, <3>2, <4>1, GrantEntitled DEF Consistent
      <3> QED BY <3>1, <3>2
    <2>6. Consistent([stage |-> "checked", q |-> r.q, g |-> r.g, row |-> d])
      BY <2>1, <2>2, <2>5 DEF Consistent
    <2> QED BY <2>1, <2>2, <2>6, Moved DEF Advance
  <1>4. ASSUME NEW c \in Clients, Serve(c) PROVE IInv'
    <2> DEFINE r == requests[c]
    <2>1. PICK d \in docs : /\ d.id = IF r.q.op = "list" THEN r.row.id ELSE r.q.id
                            /\ Advance(c, "served", d)
      BY <1>4 DEF Serve
    <2>2. r.stage = "checked" /\ UNCHANGED docs /\ Consistent(r)
      BY <1>4 DEF Serve, IInv
    <2>3. r.row = d
      <3>1. r.row \in docs /\ d.id # Empty
        BY <2>2, IdsAssumption DEF Consistent, IInv, TypeOK, Row
      <3>2. d.id = r.row.id
        BY <2>1, <2>2, <3>1 DEF Consistent
      <3> QED BY <3>1, <3>2 DEF IInv, TypeOK
    <2>4. Consistent([stage |-> "served", q |-> r.q, g |-> r.g, row |-> d])
      BY <2>2, <2>3 DEF Consistent
    <2> QED BY <2>1, <2>2, <2>4, Moved DEF Advance
  <1>5. ASSUME NEW c \in Clients, Create(c) PROVE IInv'
    <2> DEFINE r == requests[c]
    <2>1. /\ r.stage = "granted" /\ r.q.op = "create" /\ r.q \in Requests
          /\ MayCreate(Scope(r.q, r.g), Input(r.q, r.g))
          /\ Consistent(r)
          /\ IF r.q.route = "generic" THEN MayEnter(r.q) /\ r.g = NoGrant
             ELSE MayAsk(r.q) /\ ValidGrant(r.q, r.g) /\ r.g \in Grants(r.q)
      BY <1>5 DEF Create, Consistent, IInv
    <2>2. ASSUME NEW d \in docs, SameSession(d, NewRow(r.q, r.g, d.id)),
                 Advance(c, "served", d), UNCHANGED docs
          PROVE  IInv'
      <3>1. Policy!Entitled(AuthorityOf(r.q, r.g), d)
        BY <2>1, <2>2, CreateEntitled DEF IInv, TypeOK
      <3>2. CanComplete(r.q, r.g, d)
        BY <2>1, <2>2, SessionReaches DEF IInv, TypeOK, CanComplete
      <3>3. Consistent([stage |-> "served", q |-> r.q, g |-> r.g, row |-> d])
        BY <2>1, <3>1, <3>2 DEF Consistent
      <3> QED BY <2>2, <3>3, Moved DEF Advance
    <2>3. ASSUME NEW id \in DocIds \ {d.id : d \in docs},
                 docs' = docs \cup {NewRow(r.q, r.g, id)},
                 Advance(c, "served", NewRow(r.q, r.g, id))
          PROVE  IInv'
      <3> DEFINE n == NewRow(r.q, r.g, id)
      <3>1. n \in Row /\ n.id = id
        BY <2>1, NewRowType DEF NewRow
      <3>2. Policy!Entitled(AuthorityOf(r.q, r.g), n)
        BY <2>1, <3>1, CreateEntitled DEF SameSession, NewRow
      <3>3. CanComplete(r.q, r.g, n)
        BY <2>1, <3>1, SessionReaches DEF SameSession, NewRow, CanComplete
      <3>4. /\ DOMAIN requests' = Clients
            /\ requests'[c] = [stage |-> "served", q |-> r.q, g |-> r.g, row |-> n]
            /\ \A e \in Clients \ {c} : /\ requests'[e] = requests[e]
                                        /\ Consistent(requests[e])'
        BY <2>3, Others DEF Advance
      <3> HIDE DEF n
      <3>5. Consistent(requests[c])'
        BY <2>1, <2>3, <3>2, <3>4, <3>3 DEF Consistent, n
      <3>6. \A d, e \in docs' : d.id = e.id => d = e
        BY <2>3, <3>1 DEF IInv, TypeOK, n
      <3>7. TypeOK'
        BY <2>3, <3>1, <3>4, <3>6 DEF IInv, TypeOK, n
      <3> QED BY <3>4, <3>5, <3>7 DEF IInv
    <2> QED BY <1>5, <2>2, <2>3 DEF Create
  <1>6. ASSUME NEW c \in Clients, Finish(c) PROVE IInv'
    <2>1. Consistent([stage |-> "idle", q |-> NoRequest, g |-> NoGrant, row |-> NoRow])
      BY DEF Consistent
    <2> QED BY <1>6, <2>1, Moved DEF Finish
  <1>7. CASE UNCHANGED vars
    BY <1>7 DEF vars, IInv, TypeOK, Consistent
  <1> QED BY <1>1, <1>2, <1>3, <1>4, <1>5, <1>6, <1>7 DEF Next

(* Rows and requests have their types, and an id names one document.       *)
THEOREM AccessTypeCorrect == Spec => []TypeOK
  <1>1. IInv => TypeOK
    BY DEF IInv
  <1> QED BY Initially, Inductive, <1>1, PTL DEF Spec

(* What a session was answered with can be pushed and completed by the     *)
(* same token through the same route: Create's defaults and the defaults   *)
(* of the lookups agree, but for a token with a tenant and no environment. *)
THEOREM SessionsCanComplete == Spec => []SessionCanComplete
  <1>1. IInv => SessionCanComplete
    BY DEF IInv, Consistent, CanComplete, Push, SessionCanComplete
  <1> QED BY Initially, Inductive, <1>1, PTL DEF Spec

(* Whatever route and token a session came by, its party is known to the   *)
(* Party service in the tenant and environment the row was stored under.   *)
THEOREM OwnersAlwaysExist == Spec => []OwnersExist
  <1>1. Init => OwnersExist
    BY DEF Init, OwnersExist
  <1>2. OwnersExist /\ [Next]_vars => OwnersExist'
    <2> SUFFICES ASSUME OwnersExist, [Next]_vars PROVE OwnersExist'
      OBVIOUS
    <2>1. CASE UNCHANGED docs
      BY <2>1 DEF OwnersExist
    <2>2. ASSUME NEW d, Confirmed(d), docs' = docs \cup {d} PROVE OwnersExist'
      BY <2>2 DEF OwnersExist, Confirmed
    <2> QED BY <2>1, <2>2 DEF Next, vars, Receive, Grant, LookUp, Serve, Create, Finish
  <1> QED BY <1>1, <1>2, PTL DEF Spec

-----------------------------------------------------------------------------
(* The refinement.                                                         *)

(* What the policy sees of one request.                                    *)
Shown(r) == IF r.stage = "served"
            THEN [authority |-> AuthorityOf(r.q, r.g), row |-> r.row]
            ELSE [authority |-> NoRow, row |-> NoRow]

(* A step of one client is invisible to the policy, an answer, or the end  *)
(* of one.                                                                 *)
LEMMA ClientStepRefines ==
  ASSUME IInv', DOMAIN requests = Clients, NEW c \in Clients, NEW r,
         requests' = [requests EXCEPT ![c] = r],
         \/ docs' = docs
         \/ r.stage = "served" /\ docs' = docs \cup {r.row}
  PROVE  [Policy!Next]_(Policy!vars)
  <1>1. answer' = [answer EXCEPT ![c] = Shown(r)]
    BY DEF answer, Shown
  <1>2. CASE r.stage = "served"
    <2>1. requests'[c] = r
      OBVIOUS
    <2>2. r.row \in docs' /\ Policy!Entitled(AuthorityOf(r.q, r.g), r.row)
      BY <1>2, <2>1 DEF IInv, Consistent
    <2>3. answer'[c] = [authority |-> AuthorityOf(r.q, r.g), row |-> r.row]
      BY <1>2, <2>1 DEF answer
    <2>4. answer'[c] = Shown(r) /\ answer'[c].row = r.row
          /\ answer'[c].authority = AuthorityOf(r.q, r.g)
      BY <1>2, <2>3 DEF Shown
    <2>5. docs' \in {docs, docs \cup {r.row}}
      OBVIOUS
    <2> HIDE DEF answer
    <2>6. Policy!Disclose(c)
      BY <1>1, <2>2, <2>4, <2>5 DEF Policy!Disclose
    <2> QED BY <2>6 DEF Policy!Next
  <1>3. CASE r.stage # "served"
    <2>1. Policy!Forget(c)
      BY <1>1, <1>3 DEF Policy!Forget, Policy!NoAnswer, Shown
    <2> QED BY <2>1 DEF Policy!Next
  <1> QED BY <1>2, <1>3

(* Every step of Access is a step of the policy, or changes nothing the    *)
(* policy sees.                                                            *)
LEMMA StepRefines == IInv /\ IInv' /\ [Next]_vars => [Policy!Next]_(Policy!vars)
  <1> SUFFICES ASSUME IInv, IInv', [Next]_vars PROVE [Policy!Next]_(Policy!vars)
    OBVIOUS
  <1> USE DEF IInv, TypeOK, Becomes, Advance
  <1>1. ASSUME NEW c \in Clients, NEW q \in Requests, Receive(c, q)
        PROVE  [Policy!Next]_(Policy!vars)
    BY <1>1, ClientStepRefines DEF Receive
  <1>2. ASSUME NEW c \in Clients, Grant(c) PROVE [Policy!Next]_(Policy!vars)
    BY <1>2, ClientStepRefines DEF Grant
  <1>3. ASSUME NEW c \in Clients, LookUp(c) PROVE [Policy!Next]_(Policy!vars)
    BY <1>3, ClientStepRefines DEF LookUp
  <1>4. ASSUME NEW c \in Clients, Serve(c) PROVE [Policy!Next]_(Policy!vars)
    BY <1>4, ClientStepRefines DEF Serve
  <1>5. ASSUME NEW c \in Clients, Create(c) PROVE [Policy!Next]_(Policy!vars)
    <2> DEFINE r == requests[c]
    <2>1. ASSUME NEW d, Advance(c, "served", d), docs' = docs \/ docs' = docs \cup {d}
          PROVE  [Policy!Next]_(Policy!vars)
      BY <2>1, ClientStepRefines
    <2> QED BY <1>5, <2>1 DEF Create
  <1>6. ASSUME NEW c \in Clients, Finish(c) PROVE [Policy!Next]_(Policy!vars)
    BY <1>6, ClientStepRefines DEF Finish
  <1>7. CASE UNCHANGED vars
    BY <1>7 DEF vars, Policy!vars, answer
  <1> QED BY <1>1, <1>2, <1>3, <1>4, <1>5, <1>6, <1>7 DEF Next

(* Access implements the policy: nobody is answered with a document the    *)
(* authority of the request is not entitled to.                            *)
THEOREM RefinesPolicy == Spec => ImplementsPolicy
  <1>1. Init => Policy!Init
    BY DEF Init, Idle, answer, Policy!Init, Policy!NoAnswer
  <1> QED BY <1>1, Initially, Inductive, StepRefines, PTL DEF Spec, ImplementsPolicy, Policy!Spec

-----------------------------------------------------------------------------
(* A payment receipt, a bank statement or an account's evidence is shared  *)
(* by nobody: two requests that are answered with it, whatever they asked  *)
(* and whichever owner service granted it, act for the same payment,       *)
(* statement or account of the same party in the same tenant and           *)
(* environment.  The scanner is no one's.                                  *)
RestrictedOfOne ==
  \A b, c \in Clients :
    LET a1 == AuthorityOf(requests[b].q, requests[b].g)
        a2 == AuthorityOf(requests[c].q, requests[c].g)
    IN /\ requests[b].stage = "served" /\ requests[c].stage = "served"
       /\ requests[b].row = requests[c].row
       /\ Policy!Restricted(requests[b].row)
       /\ a1.kind # "scanner" /\ a2.kind # "scanner"
       => /\ a1.kind = a2.kind
          /\ a1.ref = a2.ref /\ a1.owner = a2.owner
          /\ a1.tenant = a2.tenant /\ a1.env = a2.env

(* Two authorities entitled to one restricted document are alike.          *)
LEMMA RestrictedAlike ==
  ASSUME NEW a, NEW b, NEW d, Policy!Restricted(d),
         Policy!Entitled(a, d), Policy!Entitled(b, d),
         a.kind # "scanner", b.kind # "scanner"
  PROVE  /\ a.kind = b.kind
         /\ a.ref = b.ref /\ a.owner = b.owner
         /\ a.tenant = b.tenant /\ a.env = b.env
  <1>1. Policy!KindFor[d.purpose] \in {"payment", "statement", "account"}
    BY DEF Policy!Restricted, Policy!KindFor
  <1>2. ASSUME NEW x, Policy!Entitled(x, d), x.kind # "scanner"
        PROVE  /\ x.kind = Policy!KindFor[d.purpose]
               /\ x.ref = d.ref /\ x.owner = d.owner
               /\ x.tenant = d.tenant /\ x.env = d.env
    <2>1. x.kind = Policy!KindFor[d.purpose]
      BY <1>2 DEF Policy!Entitled, Policy!Private
    <2>2. x.kind \in Policy!Granted /\ x.kind # "legacy" /\ x.kind # "case"
      BY <1>1, <2>1 DEF Policy!Granted
    <2> QED BY <1>2, <2>1, <2>2 DEF Policy!Entitled, Policy!Isolated, Policy!OwnCase
  <1> QED BY <1>2

(* For any tokens, grants and clients.                                     *)
THEOREM RestrictedDocumentsOfOne == Spec => []RestrictedOfOne
  <1>1. IInv => RestrictedOfOne
    <2> SUFFICES ASSUME IInv PROVE RestrictedOfOne
      OBVIOUS
    <2>1. \A c \in Clients :
            requests[c].stage = "served" =>
              Policy!Entitled(AuthorityOf(requests[c].q, requests[c].g), requests[c].row)
      BY DEF IInv, Consistent
    <2> QED BY <2>1, RestrictedAlike DEF RestrictedOfOne
  <1> QED BY <1>1, Initially, Inductive, PTL DEF Spec
===============================================================================
