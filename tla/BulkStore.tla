----------------------------- MODULE BulkStore -----------------------------
(***************************************************************************)
(* The state that the handlers of all Bulk pods share, for one batch: the  *)
(* batch row and the job rows in Postgres, the Kafka topics bulk.job and   *)
(* bulk.result, and what the billing service was asked to do.  No          *)
(* transaction spans two calls, so each operator below is one atomic call. *)
(*                                                                         *)
(* A job is named by its row number.  A nullable column that holds a       *)
(* billing transaction is a set with at most one element.                  *)
(***************************************************************************)
EXTENDS Naturals, FiniteSets

CONSTANTS
    NJobs,        \* rows of the uploaded file, each with its job
    InvalidRows,  \* rows that failed validation (they have jobs too)
    Confirmers,   \* POST /batch/:id/confirm requests
    Cancellers,   \* POST /batch/:id/cancel requests
    Restarters,   \* POST /admin/batches/:id/restart requests
    Configurers,  \* PUT /admin/batches/:id/config requests
    Consumers,    \* bulk.result consumers, one per pod
    TxCounts,     \* how many transaction IDs BlockBatch may answer with
    TxAreUuids,   \* TRUE when those IDs parse as UUIDs
    Copies,       \* how many copies of a message a publish may leave behind
    DbErrors,     \* TRUE if calls to Postgres may fail
    BillingErrors,\* TRUE if calls to billing may fail
    PublishErrors,\* TRUE if Publish may give up
    Crashes       \* TRUE if a pod may die between two calls

Jobs == 1 .. NJobs

ASSUME NJobsAssumption == NJobs \in Nat \ {0}
ASSUME InvalidRowsAssumption == InvalidRows \subseteq Jobs
ASSUME TxCountsAssumption == TxCounts \subseteq Nat
ASSUME CopiesAssumption == Copies \in Nat \ {0}
ASSUME SwitchesAssumption ==
    {TxAreUuids, DbErrors, BillingErrors, PublishErrors, Crashes} \subseteq BOOLEAN

\* A request is of one kind.
ASSUME RequestsAssumption == Confirmers \cap Restarters = {}

BatchStatus == {"pending", "validation_errors", "partial_available", "ready",
                "processing", "completed", "cancelled"}
JobStatus   == {"pending", "queued", "processing", "completed", "failed",
                "refunded"}

\* The statuses that OnJobStatusChange and SetCancelled still wait for.
ActiveStatus == {"pending", "queued", "processing"}
Outcome      == {"completed", "failed"}

\* The n-th transaction ID that billing issued for the confirmation c.
Tx        == Confirmers \X Nat
Publisher == Confirmers \cup Restarters
Refunder  == Confirmers \cup Cancellers

VARIABLES
    batch,       \* the row of table batches
    jobs,        \* the rows of table batch_jobs
    jobTopic,    \* bulk.job messages that Generation has not read
    resultTopic, \* bulk.result messages that no consumer has read
    reserved,    \* history: units each confirmation blocked at billing
    issued,      \* history: transactions that billing issued for them
    published,   \* history: who put which job on bulk.job
    refunds,     \* history: who had which transaction refunded
    outcomes     \* history: the outcomes that were stored for each job

storeVars ==
    <<batch, jobs, jobTopic, resultTopic, reserved, issued, published, refunds, outcomes>>

BatchRow ==
    [status: BatchStatus, valid: Nat, approved: Nat, done: Nat, failed: Nat,
     finished: BOOLEAN, txs: SUBSET Tx, config: BOOLEAN]

\* build is whether build_id and barcode_urls are set.  error_code and
\* error_message never are: the event carries none, so of a failed outcome the
\* row keeps the status alone, for as long as nobody writes another one.
JobRow == [status: JobStatus, tx: SUBSET Tx, build: BOOLEAN]

JobMessage    == [job: Jobs, tx: SUBSET Tx, from: Publisher, copy: Nat]
ResultMessage == [job: Jobs, tx: SUBSET Tx, from: Publisher, copy: Nat,
                  status: Outcome]

StoreTypeOK ==
    /\ batch \in BatchRow
    /\ jobs \in [Jobs -> JobRow]
    /\ jobTopic \subseteq JobMessage
    /\ resultTopic \subseteq ResultMessage
    /\ reserved \in [Confirmers -> Nat]
    /\ issued \subseteq Tx
    /\ published \subseteq Publisher \X Jobs
    /\ refunds \subseteq Refunder \X Tx
    /\ outcomes \in [Jobs -> SUBSET Outcome]

(***************************************************************************)
(* What an upload leaves behind (CreateBatchFromFile, FinalizeAfterUpload):*)
(* a job for every row, valid or not, and a row whose approved count is    *)
(* set only when billing allows fewer units than there are valid rows.     *)
(* The status stays pending when FinalizeAfterUpload fails.                *)
(***************************************************************************)
ValidCount == NJobs - Cardinality(InvalidRows)

Uploaded(status, approved) ==
    [status |-> status, valid |-> ValidCount, approved |-> approved,
     done |-> 0, failed |-> 0, finished |-> FALSE, txs |-> {}, config |-> FALSE]

\* The value of a local copy that no handler has read yet.
NoRow == Uploaded("pending", 0)

StoreInit ==
    /\ batch \in IF InvalidRows = {}
                 THEN {Uploaded("pending", 0), Uploaded("ready", 0)}
                      \cup {Uploaded("partial_available", n) : n \in 0 .. NJobs - 1}
                 ELSE {Uploaded("pending", 0), Uploaded("validation_errors", 0)}
    /\ jobs = [j \in Jobs |-> [status |-> "pending", tx |-> {}, build |-> FALSE]]
    /\ jobTopic = {}
    /\ resultTopic = {}
    /\ reserved = [c \in Confirmers |-> 0]
    /\ issued = {}
    /\ published = {}
    /\ refunds = {}
    /\ outcomes = [j \in Jobs |-> {}]

---------------------------------------------------------------------------
(***************************************************************************)
(* Calls.  The caller sees "ok"; "done" is whether the other side acted.   *)
(* A call that fails may have been carried out (the answer was lost).      *)
(***************************************************************************)
CallOutcome(mayFail) ==
    {[ok |-> TRUE, done |-> TRUE]}
    \cup IF mayFail THEN {[ok |-> FALSE, done |-> d] : d \in BOOLEAN} ELSE {}

DbCall      == CallOutcome(DbErrors)
BillingCall == CallOutcome(BillingErrors)
ReadOk      == {out.ok : out \in DbCall}

\* toPostgres copies neither Priority nor TimeoutMs, so every write of a
\* batch row erases the configuration.
ToPostgres(b) == [b EXCEPT !.config = FALSE]

\* UPDATE batches SET <every column> WHERE id = ...
UpdateBatch(done, b) == batch' = IF done THEN ToPostgres(b) ELSE batch

\* A deliberate bug, used by no specification: the build is written, too, from a
\* job that was read before its outcome.
BrokenUpdateStatus(done, j, s) ==
    jobs' = IF done THEN [jobs EXCEPT ![j].status = s, ![j].build = FALSE] ELSE jobs

\* UPDATE batch_jobs SET status = ... WHERE id = ...
UpdateStatus(done, j, s) ==
    jobs' = IF done THEN [jobs EXCEPT ![j].status = s] ELSE jobs

\* UPDATE batch_jobs SET billing_transaction_id = ... WHERE id = ...
UpdateBillingTransactionID(done, j, tx) ==
    jobs' = IF done THEN [jobs EXCEPT ![j].tx = tx] ELSE jobs

\* Only an ID that parses is written to a job row.
ValidTx(tx) == IF TxAreUuids THEN tx ELSE {}

\* What the event does not carry becomes NULL, the transaction as well as the
\* build, which Generation sends with a completed job only.
ResultRow(m) ==
    [status |-> m.status, tx |-> ValidTx(m.tx), build |-> (m.status = "completed")]

\* UPDATE batch_jobs SET status, build_id, ..., billing_transaction_id: one
\* statement.
UpdateStatusWithResult(done, m) ==
    IF done
    THEN /\ jobs' = [jobs EXCEPT ![m.job] = ResultRow(m)]
         /\ outcomes' = [outcomes EXCEPT ![m.job] = @ \cup {m.status}]
    ELSE UNCHANGED <<jobs, outcomes>>

\* SELECT ... FROM batch_jobs WHERE batch_id = ... has no ORDER BY.
JobOrders == {o \in [Jobs -> Jobs] : \A i, k \in Jobs : o[i] = o[k] => i = k}

\* Publish retries; it may leave several copies behind when it succeeds and
\* some (acknowledgement lost) or none when it gives up.
PublishOutcome ==
    {[ok |-> TRUE, copies |-> n] : n \in 1 .. Copies}
    \cup IF PublishErrors THEN {[ok |-> FALSE, copies |-> n] : n \in 0 .. Copies}
                          ELSE {}

Publish(p, j, tx, copies) ==
    /\ jobTopic' = jobTopic \cup
           {[job |-> j, tx |-> tx, from |-> p, copy |-> n] : n \in 1 .. copies}
    /\ published' = IF copies = 0 THEN published ELSE published \cup {<<p, j>>}

\* POST refund: billing takes the transactions back.
RefundTransactions(done, p, txs) ==
    refunds' = IF done THEN refunds \cup ({p} \X txs) ELSE refunds
=============================================================================
