--------------------------- MODULE MCStatusReader ---------------------------
(***************************************************************************)
(* Small instances of StatusReader for TLC.                                *)
(***************************************************************************)
EXTENDS StatusReader, TLC

\* Requests of one kind are interchangeable, consumers too.
Symmetry ==
    Permutations(Confirmers) \cup Permutations(Consumers) \cup Permutations(Readers)
=============================================================================
