----------------------------- MODULE CaseListing -----------------------------
(***************************************************************************)
(* Listing the documents of one case (tenant, environment, application and *)
(* party), page by page.  Each page is a request of its own, which asks    *)
(* for a grant again (Access) and reads the rows as they then are: the     *)
(* ids are random, so a document registered between two pages may sort on  *)
(* either side of the cursor.                                              *)
(*                                                                         *)
(* The query takes PageSize + 1 rows.  Rows of restricted purposes are     *)
(* dropped afterwards, and whether there is a next page is decided by what *)
(* is left.  Such a row matches when a payment or a bank account has the   *)
(* id of the application.                                                  *)
(***************************************************************************)
EXTENDS Naturals, FiniteSets

CONSTANTS
  Ids,        \* public ids, numbered in their order
  PageSize    \* 50

ASSUME IdsAssumption == Ids \subseteq Nat \ {0}
ASSUME PageSizeAssumption == PageSize \in Nat \ {0}

VARIABLES
  documents,  \* what an id names
  listing     \* the client's walk through the pages

vars == <<documents, listing>>

(* "open" and "restricted" rows match the case, by their purpose.          *)
Kinds == {"none", "elsewhere", "open", "restricted"}

Start == 0    \* the empty cursor

(* after: cursor of the latest request;  page: its answer;  listed: the    *)
(* pages before it;  initial: what there was to list at the first request. *)
Listing == [stage : {"paging", "ended"}, after : Ids \cup {Start},
            page : SUBSET Ids, listed : SUBSET Ids, initial : SUBSET Ids]

Open == {i \in Ids : documents[i] = "open"}
Restricted == {i \in Ids : documents[i] = "restricted"}

Ended == [stage |-> "ended", after |-> Start, page |-> {}, listed |-> {}, initial |-> {}]

Init ==
  /\ documents \in [Ids -> Kinds]
  /\ listing = Ended

Register(i, kind) ==
  /\ documents[i] = "none"
  /\ documents' = [documents EXCEPT ![i] = kind]
  /\ UNCHANGED listing

(* A client starts over, whatever became of its last listing.              *)
Begin ==
  /\ listing' = [Ended EXCEPT !.stage = "paging", !.initial = Open]
  /\ UNCHANGED documents

-----------------------------------------------------------------------------
(* Faulty variant: the WHERE clause includes the cursor.                   *)
MatchingFrom(after) == {i \in Open \cup Restricted : i >= after}

Matching(after) == {i \in Open \cup Restricted : i > after}

(* ORDER BY public_id LIMIT n: the least n of the rows, or all of them.    *)
Limit(rows, all, n) ==
  /\ Cardinality(rows) <= n
  /\ Cardinality(rows) = n \/ rows = all
  /\ \A i \in rows, j \in all \ rows : i < j

Fetched(after) ==
  {rows \in SUBSET Matching(after) : Limit(rows, Matching(after), PageSize + 1)}

(* Faulty variant: the rows are not filtered.                              *)
UploadsOfAnyPurpose(after) == Fetched(after)

CaseUploads(after) == {rows \cap Open : rows \in Fetched(after)}

AllButLast(rows) == {i \in rows : \E j \in rows : i < j}

(* Faulty variant: the cursor is the row that was cut off.                 *)
IsLastOfRows(next, rows) == next \in rows /\ \A i \in rows : i <= next

(* rows[49].ID                                                             *)
IsCursor(next, rows) ==
  next \in AllButLast(rows) /\ \A i \in AllButLast(rows) : i <= next

(* A page is answered and the client asks for the one after it.  A request *)
(* that fails leaves the client with the cursor it had.                    *)
NextPage(rows) ==
  /\ Cardinality(rows) > PageSize
  /\ \E next \in Ids :
       /\ IsCursor(next, rows)
       /\ listing' = [listing EXCEPT !.after = next, !.page = AllButLast(rows),
                                     !.listed = @ \cup listing.page]

(* No next_cursor: the client takes the listing for complete.              *)
LastPage(rows) ==
  /\ Cardinality(rows) <= PageSize
  /\ listing' = [listing EXCEPT !.stage = "ended", !.page = rows,
                                !.listed = @ \cup listing.page]

List ==
  /\ listing.stage = "paging"
  /\ \E rows \in CaseUploads(listing.after) : NextPage(rows) \/ LastPage(rows)
  /\ UNCHANGED documents

Next ==
  \/ \E i \in Ids, kind \in Kinds \ {"none"} : Register(i, kind)
  \/ Begin
  \/ List

Spec == Init /\ [][Next]_vars

-----------------------------------------------------------------------------
(* The type invariant.  What is answered belongs to the case and is open.  *)
TypeOK ==
  /\ documents \in [Ids -> Kinds]
  /\ listing \in Listing
  /\ listing.page \cup listing.listed \cup listing.initial \subseteq Open

(* Whatever is registered between the pages, the answers ascend: no        *)
(* document is listed twice and none out of order.                         *)
Ascending == \A i \in listing.listed, j \in listing.page : i < j

(* A listing that ended has shown every document that was there when it    *)
(* began, unless a restricted row of the case sorts before the one missed  *)
(* and after the last cursor: then a short page hides that more follow.    *)
Complete ==
  listing.stage = "ended" =>
    \A i \in listing.initial \ (listing.page \cup listing.listed) :
      \E h \in Restricted : listing.after < h /\ h < i
===============================================================================
