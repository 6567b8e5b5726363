-------------------------- MODULE CaseListingProofs --------------------------
(***************************************************************************)
(* The guarantees of a case listing, for every page size and every order   *)
(* in which documents are registered.                                      *)
(***************************************************************************)
EXTENDS CaseListing, TLAPS

(* While the listing runs the cursor separates what was listed from what   *)
(* is to come: nothing listed lies after it, nothing missed before it.     *)
Separated ==
  listing.stage = "paging" =>
    /\ \A i \in listing.page \cup listing.listed : i <= listing.after
    /\ \A i \in listing.initial :
         i <= listing.after => i \in listing.page \cup listing.listed

IInv == TypeOK /\ Separated /\ Ascending /\ Complete

-----------------------------------------------------------------------------
(* The rows of a page are open, lie after the cursor, and come before every *)
(* matching row that was not fetched.                                       *)
LEMMA RowsFollow ==
  ASSUME TypeOK, NEW after, NEW rows \in CaseUploads(after)
  PROVE  /\ rows \subseteq Open
         /\ \A i \in rows : i > after
         /\ \A i \in Matching(after) : i \in rows \/ i \notin Open \/ \A j \in rows : j < i
<1>1. PICK fetched \in Fetched(after) : rows = fetched \cap Open
  BY DEF CaseUploads
<1>2. /\ fetched \subseteq Matching(after)
      /\ \A i \in fetched, j \in Matching(after) \ fetched : i < j
  BY DEF Fetched, Limit
<1>3. \A i \in Matching(after) : i > after
  BY DEF Matching
<1> QED  BY <1>1, <1>2, <1>3

(* On a last page, a row that matches and is not on it comes after a       *)
(* restricted row that was fetched.                                        *)
LEMMA ShortPage ==
  ASSUME TypeOK, NEW after, NEW rows \in CaseUploads(after),
         Cardinality(rows) <= PageSize,
         NEW i \in Matching(after), i \in Open, i \notin rows
  PROVE  \E h \in Restricted : after < h /\ h < i
<1>1. PICK fetched \in Fetched(after) : rows = fetched \cap Open
  BY DEF CaseUploads
<1>2. /\ fetched \subseteq Matching(after)
      /\ Cardinality(fetched) = PageSize + 1 \/ fetched = Matching(after)
      /\ \A j \in fetched, k \in Matching(after) \ fetched : j < k
  BY DEF Fetched, Limit
<1>3. i \notin fetched
  BY <1>1
<1>4. Cardinality(fetched) = PageSize + 1
  BY <1>2, <1>3
<1>5. rows # fetched
  BY <1>4, PageSizeAssumption
<1>6. PICK h \in fetched : h \notin Open
  BY <1>1, <1>5
<1>7. h \in Restricted /\ h > after
  BY <1>2, <1>6 DEF Matching
<1>8. h < i
  BY <1>2, <1>3
<1>9. h \in Nat /\ (after < h <=> h > after)
  BY <1>7, IdsAssumption DEF Restricted
<1> QED  BY <1>7, <1>8, <1>9

-----------------------------------------------------------------------------
(* Cursors are numbers.                                                    *)
LEMMA StartIsNat == ASSUME listing \in Listing PROVE listing.after \in Nat
<1>1. listing.after \in Ids \cup {0}
  BY DEF Listing, Start
<1>2. CASE listing.after = 0
  BY <1>2
<1>3. CASE listing.after \in Ids
  BY <1>3, IdsAssumption
<1> QED  BY <1>1, <1>2, <1>3

(* No listing has begun.                                                   *)
LEMMA Initially == Init => IInv
  BY DEF Init, IInv, TypeOK, Separated, Ascending, Complete, Ended, Listing, Kinds, Start

(* A document is registered: what was open or restricted stays so.         *)
LEMMA RegisterKeeps ==
  ASSUME IInv, NEW i \in Ids, NEW kind \in Kinds \ {"none"}, Register(i, kind)
  PROVE  IInv'
<1>1. Open \subseteq Open' /\ Restricted \subseteq Restricted'
  BY DEF Register, IInv, TypeOK, Open, Restricted
<1>2. documents' \in [Ids -> Kinds] /\ listing' = listing
  BY DEF Register, IInv, TypeOK
<1>3. TypeOK'
  BY <1>1, <1>2 DEF IInv, TypeOK
<1>4. Separated' /\ Ascending'
  BY <1>2 DEF IInv, Separated, Ascending
<1>5. Complete'
  BY <1>1, <1>2 DEF IInv, Complete
<1> QED  BY <1>3, <1>4, <1>5 DEF IInv

(* A page with a next cursor.                                              *)
LEMMA NextPageKeeps ==
  ASSUME IInv, listing.stage = "paging",
         NEW rows \in CaseUploads(listing.after), NextPage(rows), UNCHANGED documents
  PROVE  IInv'
<1> DEFINE after == listing.after
<1>1. PICK next \in Ids :
        /\ IsCursor(next, rows)
        /\ listing' = [listing EXCEPT !.after = next, !.page = AllButLast(rows),
                                      !.listed = @ \cup listing.page]
  BY DEF NextPage
<1>2. /\ rows \subseteq Open
      /\ \A i \in rows : i > after
      /\ \A i \in Matching(after) : i \in rows \/ i \notin Open \/ \A j \in rows : j < i
  BY RowsFollow DEF IInv
<1>3. /\ listing \in Listing /\ Open' = Open /\ Restricted' = Restricted
      /\ listing.page \cup listing.listed \cup listing.initial \subseteq Open
  BY DEF IInv, TypeOK, Open, Restricted
<1>4. /\ listing'.stage = "paging" /\ listing'.after = next
      /\ listing'.page = AllButLast(rows)
      /\ listing'.listed = listing.listed \cup listing.page
      /\ listing'.initial = listing.initial
  BY <1>1, <1>3 DEF Listing
<1>5. AllButLast(rows) \subseteq rows /\ Open \subseteq Ids /\ Ids \subseteq Nat
  BY IdsAssumption DEF AllButLast, Open
<1>6. TypeOK'
  <2>1. listing' \in Listing
    BY <1>1, <1>2, <1>3, <1>5 DEF Listing
  <2>2. documents' \in [Ids -> Kinds]
    BY DEF IInv, TypeOK
  <2> QED  BY <1>2, <1>3, <1>4, <1>5, <2>1, <2>2 DEF TypeOK
<1>7. after \in Nat /\ next \in Nat /\ next > after
  <2>1. next \in rows
    BY <1>1 DEF IsCursor, AllButLast
  <2>2. after \in Nat
    BY <1>3, StartIsNat
  <2>3. next \in Nat
    BY <1>5
  <2>4. next > after
    BY <1>2, <2>1
  <2> QED  BY <2>2, <2>3, <2>4
<1>8. \A i \in listing.page \cup listing.listed : i <= after
  BY DEF IInv, Separated
<1>9. Separated'
  <2>1. \A i \in AllButLast(rows) : i <= next
    BY <1>1 DEF IsCursor
  <2>2. ASSUME NEW i \in listing.page \cup listing.listed PROVE i <= next
    <3>1. i <= after /\ i \in Nat
      BY <1>3, <1>5, <1>8
    <3> QED  BY <1>7, <3>1
  <2>3. ASSUME NEW i \in listing.initial, i <= next,
               i \notin listing.page \cup listing.listed
        PROVE  i \in AllButLast(rows)
    <3>1. i \in Nat /\ i \in Open
      BY <1>3, <1>5, <2>3
    <3>2. ~ (i <= after)
      BY <2>3 DEF IInv, Separated
    <3>3. i \in Matching(after)
      BY <1>7, <3>1, <3>2 DEF Matching
    <3>4. next \in rows /\ ~(next < i)
      BY <1>1, <1>7, <2>3, <3>1 DEF IsCursor, AllButLast
    <3>5. i \in rows
      BY <1>2, <3>1, <3>3, <3>4
    <3>6. PICK j \in rows : next < j
      BY <1>1 DEF IsCursor, AllButLast
    <3>7. i < j
      <4>1. j \in Nat
        BY <1>2, <1>5, <3>6
      <4> QED  BY <1>7, <2>3, <3>1, <3>6, <4>1
    <3> QED  BY <3>5, <3>6, <3>7 DEF AllButLast
  <2> QED  BY <1>4, <2>1, <2>2, <2>3 DEF Separated
<1>10. Ascending'
  <2> SUFFICES ASSUME NEW i \in listing.listed \cup listing.page, NEW j \in AllButLast(rows)
               PROVE  i < j
    BY <1>4 DEF Ascending
  <2>1. i <= after /\ j > after /\ i \in Nat /\ j \in Nat
    BY <1>2, <1>3, <1>5, <1>8
  <2> QED  BY <1>7, <2>1
<1>11. Complete'
  BY <1>4 DEF Complete
<1> QED  BY <1>6, <1>9, <1>10, <1>11 DEF IInv

(* The page without a next cursor.                                         *)
LEMMA LastPageKeeps ==
  ASSUME IInv, listing.stage = "paging",
         NEW rows \in CaseUploads(listing.after), LastPage(rows), UNCHANGED documents
  PROVE  IInv'
<1> DEFINE after == listing.after
<1>1. listing' = [listing EXCEPT !.stage = "ended", !.page = rows,
                                 !.listed = @ \cup listing.page]
  BY DEF LastPage
<1>2. /\ rows \subseteq Open
      /\ \A i \in rows : i > after
  BY RowsFollow DEF IInv
<1>3. /\ listing \in Listing /\ Open' = Open /\ Restricted' = Restricted
      /\ listing.page \cup listing.listed \cup listing.initial \subseteq Open
  BY DEF IInv, TypeOK, Open, Restricted
<1>4. /\ listing'.stage = "ended" /\ listing'.after = after
      /\ listing'.page = rows
      /\ listing'.listed = listing.listed \cup listing.page
      /\ listing'.initial = listing.initial
  BY <1>1, <1>3 DEF Listing
<1>5. Open \subseteq Ids /\ Ids \subseteq Nat /\ after \in Nat
  BY <1>3, IdsAssumption, StartIsNat DEF Open
<1>6. TypeOK'
  <2>1. listing' \in Listing
    BY <1>1, <1>2, <1>3, <1>5 DEF Listing
  <2>2. documents' \in [Ids -> Kinds]
    BY DEF IInv, TypeOK
  <2> QED  BY <1>2, <1>3, <1>4, <2>1, <2>2 DEF TypeOK
<1>7. Separated'
  BY <1>4 DEF Separated
<1>8. Ascending'
  <2> SUFFICES ASSUME NEW i \in listing.listed \cup listing.page, NEW j \in rows
               PROVE  i < j
    BY <1>4 DEF Ascending
  <2>1. i <= after
    BY DEF IInv, Separated
  <2>2. j > after /\ i \in Nat /\ j \in Nat
    BY <1>2, <1>3, <1>5
  <2> QED  BY <1>5, <2>1, <2>2
<1>9. Complete'
  <2> SUFFICES ASSUME NEW i \in listing.initial,
                      i \notin rows \cup listing.listed \cup listing.page
               PROVE  \E h \in Restricted : after < h /\ h < i
    BY <1>3, <1>4 DEF Complete
  <2>1. i \in Open /\ i \in Nat
    BY <1>3, <1>5
  <2>2. ~ (i <= after)
    BY DEF IInv, Separated
  <2>3. i \in Matching(after)
    BY <1>5, <2>1, <2>2 DEF Matching
  <2>4. Cardinality(rows) <= PageSize
    BY DEF LastPage
  <2> QED  BY <2>1, <2>3, <2>4, ShortPage DEF IInv
<1> QED  BY <1>6, <1>7, <1>8, <1>9 DEF IInv

(* One case per action.                                                    *)
LEMMA Inductive == IInv /\ [Next]_vars => IInv'
<1> SUFFICES ASSUME IInv, [Next]_vars PROVE IInv'
  OBVIOUS
<1>1. ASSUME NEW i \in Ids, NEW kind \in Kinds \ {"none"}, Register(i, kind)
      PROVE  IInv'
  BY <1>1, RegisterKeeps
<1>2. CASE Begin
  <2>1. /\ listing' = [stage |-> "paging", after |-> Start, page |-> {},
                       listed |-> {}, initial |-> Open]
        /\ documents' = documents
    BY <1>2 DEF Begin, Ended
  <2>2. Open' = Open /\ Open \subseteq Ids
    BY <2>1 DEF Open
  <2>3. TypeOK'
    BY <2>1, <2>2 DEF IInv, TypeOK, Listing
  <2>4. \A i \in Open : ~ (i <= Start)
    BY IdsAssumption DEF Open, Start
  <2>5. Separated'
    BY <2>1, <2>4 DEF Separated
  <2>6. Ascending' /\ Complete'
    BY <2>1 DEF Ascending, Complete
  <2> QED  BY <2>3, <2>5, <2>6 DEF IInv
<1>3. CASE List
  <2>1. PICK rows \in CaseUploads(listing.after) : NextPage(rows) \/ LastPage(rows)
    BY <1>3 DEF List
  <2>2. listing.stage = "paging" /\ UNCHANGED documents
    BY <1>3 DEF List
  <2> QED  BY <2>1, <2>2, NextPageKeeps, LastPageKeeps
<1>4. CASE UNCHANGED vars
  BY <1>4 DEF vars, IInv, TypeOK, Separated, Ascending, Complete, Open, Restricted
<1> QED  BY <1>1, <1>2, <1>3, <1>4 DEF Next

(* The inductive invariant of a listing.                                   *)
THEOREM ListingInvariant == Spec => []IInv
  BY Initially, Inductive, PTL DEF Spec

(* Type correctness: only open documents of the case are ever listed.      *)
THEOREM ListingTypeCorrect == Spec => []TypeOK
<1>1. IInv => TypeOK
  BY DEF IInv
<1> QED  BY <1>1, ListingInvariant, PTL

(* No document is listed twice, and the pages ascend.                      *)
THEOREM PagesAscend == Spec => []Ascending
<1>1. IInv => Ascending
  BY DEF IInv
<1> QED  BY <1>1, ListingInvariant, PTL

(* A listing that ended is complete, or a restricted row stood in its way. *)
THEOREM ListingsComplete == Spec => []Complete
<1>1. IInv => Complete
  BY DEF IInv
<1> QED  BY <1>1, ListingInvariant, PTL
===============================================================================
