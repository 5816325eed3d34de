----------------------------- MODULE BatchList -----------------------------
(***************************************************************************)
(* GET /batches and GET /admin/batches: a client goes through the list of  *)
(* batches page by page, by page number (OFFSET) or by cursor (created_at  *)
(* of the last batch seen), while an upload adds a row to the table.       *)
(*                                                                         *)
(* A batch is its place in the order of creation: 1 .. Older are there     *)
(* from the beginning, and a new row is the youngest.  Pages have one row; *)
(* there is no filter.  Two batches created in the same microsecond, which *)
(* a cursor takes for one, are left out.                                   *)
(***************************************************************************)
EXTENDS UploadLimits, Sequences

CONSTANT Older \* number of batches in the table before the uploads

ASSUME OlderAssumption == Older \in Nat

VARIABLES
    created, \* the number of batches created so far
    lister   \* a client that lists the batches

listVars == <<created, lister>>

Batches == 1 .. created

\* old is history: the batches that were there when the client began.
ListerState ==
    [mode: {"none", "page", "cursor"}, desc: BOOLEAN, seen: Seq(Nat), old: SUBSET Nat,
     done: BOOLEAN]

\* The list, the limits and the uploads that come in have only values that the
\* code can give them; the limits are always those of one configuration.
ListTypeOK == LimitsTypeOK /\ created \in Nat /\ lister \in ListerState

ListInit ==
    /\ created = Older
    /\ lister = [mode |-> "none", desc |-> FALSE, seen |-> <<>>, old |-> {}, done |-> FALSE]

\* A deliberate bug, used by no specification: the cursor is part of its page.
BrokenListWithFilters(desc, cursor, offset) ==
    LET where == {i \in Batches : \A c \in cursor : IF desc THEN i <= c ELSE i >= c}
        before(i) == {j \in where : IF desc THEN j > i ELSE j < i}
    IN  {i \in where : Cardinality(before(i)) = offset}

\* The row at the offset among those beyond the cursor (a set with at most one
\* element), in ascending order unless the client asks for the descending one.
ListWithFilters(desc, cursor, offset) ==
    LET where == {i \in Batches : \A c \in cursor : IF desc THEN i < c ELSE i > c}
        before(i) == {j \in where : IF desc THEN j > i ELSE j < i}
    IN  {i \in where : Cardinality(before(i)) = offset}

\* The administrators' list knows neither cursors nor an order.
StartList ==
    /\ lister.mode = "none"
    /\ \E mode \in {"page", "cursor"}, desc \in BOOLEAN :
          lister' = [lister EXCEPT !.mode = mode, !.desc = desc, !.old = Batches]

\* The next page, until one is empty.
NextPage ==
    /\ lister.mode # "none" /\ ~lister.done
    /\ LET n    == Len(lister.seen)
           last == IF n = 0 THEN {} ELSE {lister.seen[n]}
           page == IF lister.mode = "cursor"
                   THEN ListWithFilters(lister.desc, last, 0)
                   ELSE ListWithFilters(lister.desc, {}, n)
       IN  lister' = IF page = {} THEN [lister EXCEPT !.done = TRUE]
                     ELSE [lister EXCEPT !.seen = Append(@, CHOOSE i \in page : TRUE)]

\* A row that is inserted is the youngest (created_at DEFAULT NOW()).
Insertions == Cardinality({u \in Uploads : batches[u] = {} /\ batches'[u] # {}})

ListedNext ==
    \/ LimitedNext /\ created' = created + Insertions /\ UNCHANGED lister
    \/ (StartList \/ NextPage) /\ UNCHANGED <<created, vars, limitVars>>

listedVars == <<vars, limitVars, listVars>>

ListedInit == LimitedInit /\ ListInit

ListedSpec ==
    /\ ListedInit /\ [][ListedNext]_listedVars
    /\ \A u \in Uploads : WF_vars(UploadStep(u))

---------------------------------------------------------------------------
\* A client that pages through the list by cursor, or by page number in the
\* default order, is shown no batch twice and in the end every batch that was
\* there when it began, although batches are added meanwhile.  (By page number
\* in descending order it would not: every new batch moves the pages.)
PagedOnce ==
    lister.mode = "cursor" \/ ~lister.desc =>
        /\ \A i, j \in DOMAIN lister.seen : lister.seen[i] = lister.seen[j] => i = j
        /\ lister.done => \A b \in lister.old : \E i \in DOMAIN lister.seen : lister.seen[i] = b
=============================================================================
