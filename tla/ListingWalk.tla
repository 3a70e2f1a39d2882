------------------------------ MODULE ListingWalk ------------------------------
(***************************************************************************)
(* A client that follows the tokens of a keyset list from the first page   *)
(* to the last while others write: between two pages rows appear (a        *)
(* transaction that began long ago may commit last, so anywhere in the     *)
(* order), disappear, and enter or leave the filter.  Rows are told apart  *)
(* by the two columns of the cursor, which no statement updates.           *)
(***************************************************************************)
EXTENDS Listing

CONSTANTS
    Row,          \* rows a list may select, over all time
    Sizes         \* page sizes

Key == [created_at : Nat, id : Nat]

VARIABLES
    selected,     \* the rows the WHERE clause selects now
    cursor,       \* the token of the last page, {} before the first one
    given,        \* the rows given to the client so far
    repeated,     \* the last page held a row given before
    kept,         \* rows selected ever since the client began
    done          \* the last page had no token

walkVars == <<selected, cursor, given, repeated, kept, done>>

WalkInit ==
    /\ selected \in SUBSET Row
    /\ kept = selected
    /\ cursor = {} /\ given = {} /\ repeated = FALSE /\ done = FALSE

Write == /\ selected' \in SUBSET Row
         /\ kept' = kept \cap selected'
         /\ UNCHANGED <<cursor, given, repeated, done>>

RowsOf(page) == {page.rows[i] : i \in DOMAIN page.rows}

Fetch(size) ==
    /\ ~done
    /\ \E page \in Pages(selected, cursor, size) :
         /\ given' = given \cup RowsOf(page)
         /\ repeated' = (RowsOf(page) \cap given # {})
         /\ cursor' = page.next
         /\ done' = (page.next = {})
    /\ UNCHANGED <<selected, kept>>

WalkNext == Write \/ \E size \in Sizes : Fetch(size)

WalkSpec == WalkInit /\ [][WalkNext]_walkVars

WalkTypeOK ==
    /\ selected \subseteq Row /\ given \subseteq Row /\ kept \subseteq selected
    /\ cursor \subseteq Key
    /\ repeated \in BOOLEAN /\ done \in BOOLEAN

(* No page repeats a row an earlier page gave, whatever was written in     *)
(* between (functions.ListFunctionsByProjectID and the queries like it).   *)
NothingRepeated == ~repeated

(* A client that has reached the page without a token was given every row  *)
(* that was in the list all along: pages overlap in one row that is only   *)
(* counted, so that the cursor never jumps over one.                       *)
NothingSkipped == done => kept \subseteq given
=============================================================================
