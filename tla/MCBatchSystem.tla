--------------------------- MODULE MCBatchSystem ---------------------------
(***************************************************************************)
(* Small instances of BatchSystem for TLC.                                 *)
(***************************************************************************)
EXTENDS BatchRefinement, TLC

\* Requests of one kind are interchangeable, consumers too.
Symmetry ==
    Permutations(Confirmers) \cup Permutations(Cancellers)
    \cup Permutations(Consumers)
=============================================================================
