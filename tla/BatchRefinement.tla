--------------------------- MODULE BatchRefinement ---------------------------
(***************************************************************************)
(* BatchSystem implements BatchLedger: the ledger is what billing and Kafka*)
(* have seen, which results were stored at any time, and the builds that   *)
(* the job rows have now.                                                  *)
(***************************************************************************)
EXTENDS BatchInvariant

Ledger == INSTANCE BatchLedger WITH
    Payers    <- Confirmers,
    Repeaters <- Restarters,
    Givers    <- Refunder,
    Rows      <- Jobs,
    Successes <- {"completed"},
    Failures  <- {"failed"},
    blocked   <- reserved,
    held      <- issued,
    sent      <- published,
    booked    <- outcomes,
    built     <- JobsWithBuild,
    returned  <- refunds

\* Through all interleavings, lost answers and crashes of its handlers, the code
\* blocks units once per confirmation, sends no job without a unit or an earlier
\* failure, stores results only of jobs that were sent, takes a build off a row
\* only when a failed result is stored for the job, whatever else is written to
\* the rows (a late queued, a rollback, a restart), and gives back only what
\* billing holds.  Of a failed result it keeps no more than a status, which a late
\* queued or a restart overwrites: the ledger does not say that it is kept.
LedgerSpec == Ledger!Spec
=============================================================================
