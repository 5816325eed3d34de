# Verification of the Bulk service

TLA+ models of the Bulk service in `src/` (Go), TLC configurations that check
them on small instances, and TLAPS proofs of the main safety properties for
every instance.  `PROJECT.json` maps every definition to the lines it models.

## 1. The system

Bulk turns an uploaded spreadsheet into barcode generation jobs.  A batch is
uploaded, validated and quoted; a client confirms it; the service blocks units at
billing, publishes a job per row to Kafka (`bulk.job`); the Generation service
answers on `bulk.result`; a consumer in every pod stores the outcomes and
recomputes the batch.  Clients and administrators may cancel, restart or
reconfigure the batch at any time.  Several pods run the same code over one
Postgres database, and **no transaction spans two calls**: every handler is a
sequence of reads and whole-row writes that interleaves with all others.

| Component | State | Operations | Interacts through | What makes it correct |
|---|---|---|---|---|
| Upload (`handlers/upload.go`, `usecase/bulk/service.go`, `batch/manager.go`) | locals of a request; batch row, job rows, stored file | `HandleUpload`, `CreateBatchFromFile`, `FinalizeAfterUpload` | Postgres, storage, BFF, billing quote | the row ends with the exact counts and the status they call for; the answer agrees with the row |
| Confirmation (`service.go`) | locals of a request | `HandleConfirm`, `ConfirmBatch`, its rollback | Postgres, billing, Kafka | nothing is generated unpaid; nothing paid is lost; rows say what was done |
| Cancellation (`batch/manager.go`) | locals of a request | `SetCancelled` | Postgres, billing | refunds only what was blocked |
| Job results (`di/di_handler.go`, `kafka/consumer.go`, `batch/manager.go`) | one consumer goroutine per pod | `buildResultHandler`, `OnJobStatusChange` | Kafka, Postgres | builds are kept; progress is earned; a settled batch completes |
| Admin requests (`handlers/batch.go`) | locals of a request | restart, configuration | Postgres, Kafka | a restart sends failed jobs again and leaves the row consistent |
| Repositories (`repo/`, `adapters/postgres/`) | `batches`, `batch_jobs` | one statement per call | SQL | atomic per statement only; conversions lose nothing that is needed |
| Kafka producer, billing client, storage client | none that outlives a call | publish with retries; quote, block, refund; save | network | at least once, answers may be lost |
| Export manager (`exporter/manager.go`) | map of results, channel, one worker | `Enqueue`, `worker`, `Get` | mutex, channel, storage | an accepted export runs exactly once and settles |
| Rate limiter (`middleware/ratelimit.go`) | counter in Redis, token buckets | one check per request | Redis | a window ends; no client exceeds its rate |
| Runtime limits (`limits/limits.go`) | one record behind a lock | get, update | shared memory | a file is held to one set of limits, not to a mixture |
| Parser, workbook reader, validation | none | pure functions | calls | rows map to the right fields and line numbers; a row that passes has what its revision makes mandatory |
| Read-only handlers (`handlers/batch.go`) | locals of a request | status, batch details, lists | Postgres, several queries per answer | one answer does not contradict itself; a list shows every batch once |
| Auth, configuration, tables and statistics, history, logging, metrics, tracing, wiring | static or best effort | - | - | no decision above depends on their output |

Hard behaviours: stale whole-row writes by concurrent handlers; publishes before
the status update that records them; calls that fail in the middle of a loop; lost
answers of billing, Kafka and Postgres; at-most-once consumption (the offset is
committed before the handler runs); pods that die between two calls; a consumer
goroutine that ends at the first read error; a channel at its capacity; a reader
that does not take the mutex; a counter in Redis whose time to live is set by a
second call; a quote or a limit that changes between two reads; answers and lists
put together from queries that see different states.  `PROJECT.json` lists them line by line under
"hazards", with the properties that watch them or the reason why none does.

## 2. Modules

| Module | Models |
|---|---|
| `BulkStore` | what all pods share for one batch: batch row, job rows, the two topics, history of billing and publishing; one operator per call |
| `ConfirmBatch` | `HandleConfirm` and `Service.ConfirmBatch` (both branches: billing client as wired, `blockFunc` as in tests) with the rollback |
| `CancelBatch` | `HandleCancel` and `BatchManager.SetCancelled` |
| `JobResults` | Generation (external), `ResultConsumer.Start`, `buildResultHandler`, `OnJobStatusChange` |
| `AdminBatch` | `HandleAdminRestartBatch` with `SetProcessing`, `HandleAdminUpdateBatchConfig` |
| `BatchSystem` | composes the five modules above, states fairness and properties |
| `BatchInvariant`, `BatchSystem_proofs`, `BatchProgress_proofs` | the inductive invariants of a batch, the facts its liveness rests on, and the proofs of both |
| `BatchLedger` | **abstract**: what Bulk promises about the money and the results of a batch, without rows, copies, topics or requests |
| `BatchRefinement`, `BatchRefinement_proofs` | the refinement mapping from `BatchSystem` to `BatchLedger`, and the proof that it is one |
| `StatusReader` | `HandleBatchStatus` and `HandleAdminGetBatch` reading, query by query, the batch that all of `BatchSystem` works on |
| `StatusReader_proofs` | proofs about the answers of these two handlers |
| `MCBatchSystem`, `MCStatusReader` | symmetry for TLC |
| `Upload` | `HandleUpload`, `CreateBatchFromFile`, `FinalizeAfterUpload` against a concurrent cancellation |
| `FileRows` | pure functions from the lines of a file to rows with fields and numbers: `ReadFirstSheet`, `DetectColumns`, `XLSParser.Parse`, `FieldValidator` |
| `UploadLimits` | `Upload` and `FileRows` under the runtime limits and the environment that overrides them: the three reads of an upload, `HandlePutBulkLimits` in between |
| `BatchList` | a client that pages through `GET /batches` while the upload adds a batch |
| `Upload_proofs`, `BatchList_proofs` | proofs about uploads, the limits, the lists and the rows of files |
| `MCBatchList` | two sets of limits, two environments, the aliases and rules of two fields, for TLC |
| `Exporter` | `exporter.Manager` of one pod, with `HandleStartExport` and `HandleGetExport` |
| `ExportQueue` | **abstract**: what the manager promises to requests that start exports; `Exporter` implements it |
| `RateLimit` | `RateLimitMiddleware` of several pods, one client address |
| `Pod` | `Exporter` behind `RateLimit`, as the router composes them |
| `Exporter_proofs`, `Pod_proofs` | proofs about the export manager, its refinement and the limiter |

How they compose: `BatchSystem` = `BulkStore` + its four users, read by `StatusReader`
and mapped to `BatchLedger`; `BatchList` = `UploadLimits` + a list client, and
`UploadLimits` = `Upload` + `FileRows` + limits; `Pod` = `Exporter` + `RateLimit`.

Correspondence.  One action is one external call (SQL statement, HTTP request,
publish, channel or mutex operation) with the local computation around it.  The
local variables of a handler are a record per request whose `pc` names the next
call.  A call has an outcome `[ok, done]`: a call that fails (`ok` false) may still
have been carried out (`done`), because the answer may be lost.  Nullable columns
and pointers are sets with at most one element.  A whole-row `UPDATE` writes back
the local copy (`row`), which is how stale writes come about.  `toPostgres` drops
`Priority` and `TimeoutMs`, and the model drops `config` with it.  The job query has
no `ORDER BY`: each query returns any permutation (`JobOrders`).

A job row has the columns that a result writes: the status, the transaction and whether
there is a build.  A failed result leaves no more than the status, because the handler of
results passes no error on (`di_handler.go:54`) and the event has none; a late `queued`
(`service.go:460`) or a restart (`batch.go:717`) overwrites it.  `outcomes` is history, like
`issued` or `published`: which results were stored for a job at any time.  No action reads
it.  Both readers answer with an entry for every job, as `GetResultsByBatch` has no
condition; what a property can look for in an entry is the build (`shown`).

`BatchLedger` has the history of the detailed model (what was blocked, issued, sent,
returned, and which results were stored) and the builds on the job rows.  Its steps say
what may never happen however the handlers interleave: units are blocked twice for one
confirmation, a job is sent without a blocked unit or an earlier failure, a result is
stored for a job that was not sent, a build is taken off a row by anything but a failed
result, a transaction is returned that billing never issued.  It does not say that the
failure of a job is kept: the code does not keep it.

`Exporter` makes a critical section one step, except the one in which the worker writes
the outcome: `HandleGetExport` reads the entry after it gave the mutex back, so there each
field is a step of its own, in either order, and a string that is being written may be
read torn (a new length with an old pointer).  A torn `StorageID` makes the handler panic
or looks empty; a torn status is `torn`.  In `ExportQueue` an export that found no room
is `refused`: the manager keeps its entry and nobody can ask for it again.

`RateLimit` has one action per Redis command.  The client library repeats a command whose
answer was lost, so `INCR` may count twice; the request that sees 1 sends `EXPIRE`.
`orphaned` records that whoever had to give the key its time to live was cut off.  The
token bucket is counted in whole tokens, refilled one at a time.

`UploadLimits` has the environment of the pod as a variable that nothing changes:
`MAX_ROWS_PER_BATCH` replaces the row limit of the copy that an upload took
(`service.go:77-81`), and `MAX_FILE_SIZE_MB` is asked by the parser after the size was
held to the copy (`service.go:61-72`, `83-87`, `xls_parser.go:46`).  Each is set or not;
`deploy/k8s/deployment-prod.yaml:75-78` sets both.

`FileRows` has headers as `TrimSpace` and `ToLower` leave them and cells as members of a
small set, with those of which `TrimSpace` leaves nothing (`Blanks`).  `ReadFirstSheet` says
what the libraries do: excelize drops empty cells at the end of a line and empty lines at
the end of a sheet, `encoding/csv` skips blank lines and refuses records of different
lengths, and the rows of an old `.xls` file come as long as they are.  (What that library
makes of a row that the file does not have at all is left out.)  Which lines of a file are
records and how a record becomes a row (`AddColumn`, one column after the other) are
recursive functions.  The aliases are constants, none of them empty, as in
`defaultColumnAliases`.  The rules depend on the revision, which is any text that the client
sends (`upload.go:119-123`): `US_CA_08292017` has a rule for each of the nine fields, `v1`
for none of them, and an unknown revision has no rules (`shared.go:105`); a field without a
rule passes (`shared.go:52-55`).

In `BatchList` a batch is its place in the order of `created_at`.

Definitions whose comment says "a deliberate bug" (most are named `Broken...`) are bugs that no specification uses.  Put in the
place of the definition that they are named for, each makes a property fail; they
show that the properties are sensitive to the code.

Abstractions: job rows are named by row number; payloads, fields, user IDs,
metrics, logs, history events and `bulk.status` messages (best effort, never read
back) are left out, as are reads that only fill a response.  Transaction IDs are
pairs (confirmation, n); whether they parse as UUIDs is the constant `TxAreUuids`.
Client counts of `generate_partial` are natural numbers.  `NJobs` is the number of
jobs that exist; a job whose creation failed in the upload is not among them.  Generation
(external) sends a build with a completed result and none with a failed one.

## 3. Runs

| Run | Instance | Shows |
|---|---|---|
| `wired` | 2 jobs, 1 confirmation, 2 consumers, 1 reader, failing billing and publishes | types, `QueuedAfterPublish`, `PublishedWithinReserve`, `ReserveWithinApproved`, `BatchRowConsistent`, `ProgressIsEarned`, `RefundsWereIssued`; the answers: `AnswerIsBacked`, `ListedHasBuild`; the refinement `LedgerSpec` |
| `admin` | 1 job, one of each request, failing database, crashes | `BatchRowConsistent`, `ProgressIsEarned` and `LedgerSpec` under every kind of stale write, though a restart overwrites what a failed result left |
| `hooked` | 2 jobs, `blockFunc` branch, cancellation, failed publishes, consumer that may stop | `RefundedJobIsRefunded`, `RefundsWereIssued`, `QueuedAfterPublish`, `LedgerSpec` (where a cancellation may return what a confirmation blocked) |
| `live` | 2 jobs, 1 confirmation, 1 cancellation, duplicated messages, no failures | `SettledBatchCompletes`, `PublishedGetsOutcome`, `ConfirmAnswered` |
| `upload` | one upload of 0 or 2 rows and size 1-4, two sets of limits, environment unset or set, quotes 0-2, all failures, crash, cancellations, 2 older batches | `FinalizedRowIsExact`, `ApprovedIsQuoted`, `AnswerAgrees`, `AcceptedIsComplete`, `UploadAnswered`; limits: `FitsOneConfiguration`; list: `PagedOnce`; files: `RowsAreTheirLines`, `ValidRowsAreComplete` |
| `exporter` | 2 batches, 2 starting requests, 1 reader, channel of 1, 2 pods, limit 1, failures, restarts | `InOnePlace`, `DoneIsStored`, `PollIsHonest`, the refinement `QueueSpec` with its liveness; limiter: `PassedWithinLimit`, `RefusalEnds` |
| `two_consumers`, `late_queued`, `unsaved_tx`, `generate_valid`, `rollback`, `no_allowance` | minimal | disagreements of code and documentation, section 6 |

Bounds.  Two jobs are the least with which a loop can fail in the middle, two
counters can differ and a query order matters; one job suffices in `admin`, where the
question is which row copy is written last.  Two consumers are the least that can
overwrite each other.  `TxCounts` 0, 1 and 2, all in `hooked`, are the three cases of `assignTx`;
`wired` has 2 only, because the reader multiplies its states.
`Copies` bounds the copies of a message that retries of one publish leave behind: 2 in
`live` (a duplicate exists), 1 elsewhere, where a failed publish still may or may
not leave its message.  Each request runs once; a restart of the same job by a second
actor is in `admin`.  In `exporter` the channel has room for one, so that it fills;
the code's capacity is 10.  Two starting requests suffice for two that want the same
export, and for one that finds the channel full while the worker has not taken the other;
one of them may land on the other pod, which shares only the counter in Redis.  A limit of
1 is passed by the second request; `MaxFaults` bounds the failures of Redis, one of which
is enough to leave the key without a time to live or to open a bucket.  In `upload` one
request suffices, because uploads share no row; two rows and quotes 0 to 2 cover less,
equal and nothing allowed, and a file with a header and no rows is 0.  The two sets of
limits each refuse what the other allows, and the environment, where it is set, has the size
of one and the rows of the other; sizes reach from one that both allow to one that
`Overhead` does not.  The files of `FileRows` have up to three columns and two lines: two
columns that mean the same field, one that means none, blank lines, lines shorter than the
header, a cell of blanks; one revision has rules for every field and one has none.  Two older
batches and pages of one row make a client turn a page before and after
the insertion.  In the batch runs `CHECK_DEADLOCK FALSE` because every request
may have been answered and every topic be empty: the system then rests.

Fairness.  A request that was accepted goes on to its next call (`WF` of its steps):
net/http runs its goroutine and every client has a timeout or answers.  Generation
works off its topic.  A running consumer polls and handles (`ConsumerStep`).  The
export worker loops, and a request past the mutex reaches its send.  Redis drops a key
whose time to live is over, and a request that is about to set it does so unless its pod
dies.  In `upload` each request goes on to its next step.  Nobody is obliged to send a
request, and crashes and `StopConsumer` are never fair.  Liveness of the batch is
checked without failing calls, because the code gives up at the first dropped error
(the handler of results always answers nil, so that neither the retries nor the
dead-letter topic of `kafka/consumer.go` are ever used).

Assumed of the deployment: the topics and the consumer group have their documented
names (`config.go` loads only the brokers from the environment), and each pod runs one
consumer in one group.  The fallback of `HandleConfirm` without a service, and the
nil-entry branch of the export worker, are unreachable in the wired program, as is the
inference of the total from the jobs in `HandleBatchStatus` for a batch with rows.

### What the properties leave out, on purpose

* `PollIsHonest` does not promise a link with every answer that says `done`: the worker
  writes the status and `StorageID` without regard for a reader, who reads the latter first.
* `InOnePlace` and `ExportQueue` speak of one pod.  Another pod answers `NOT_FOUND` for an
  export of this one and would run it again.
* `PassedWithinLimit` counts what the counter lets pass; a request whose `INCR` fails is
  decided by the bucket of its pod, which passes as much again.
* `RefusalEnds` excepts a key left without a time to live: it refuses the address until
  someone deletes it, although the comment at `ratelimit.go:76` lets a key live 1 second.
* `PagedOnce` excepts page numbers in descending order, where each new batch moves the
  pages by one, and filters by status, where a change of status does.  Cursors take batches
  of the same microsecond for one.
* `RowsAreTheirLines` excepts CSV files with blank lines, which the library drops, so that
  the numbers of later rows are too small.
* `ValidRowsAreComplete` is about CSV files and about the fields that are mandatory under the
  revision and have a column.  In a workbook a line whose last cells are empty is shorter
  than the header, its row lacks those fields, and the local rules are not asked for them;
  that the BFF is asked afterwards is all that remains.  Under a revision without rules a row
  with nine empty fields is valid (section 6).
* `ProgressIsEarned`, `AnswerIsBacked`, `ListedHasBuild` and `LedgerSpec` speak of results
  that were stored at some time and of builds, not of failures that a row still shows: a
  failure may have been overwritten.
* `AnswerAgrees` is about two quotes that are the same; when billing changes its mind in
  between, row and answer differ.  `AcceptedIsComplete` asks for a job per row only where the
  database does not fail, because the error of creating a job is dropped.
* Who may give a transaction back is left open: `ports.go:104-106` and `manager.go:162-164`
  want a cancellation to refund what was saved, and as wired nothing is ever saved
  (`unsaved_tx`).
* A second confirmation of a batch is in no run.  Nothing in the repository forbids it, and
  what it breaks is said in section 4.

## 4. Proofs

Every theorem holds for all values of the constants that satisfy the named assumptions
of the modules (counts are natural numbers, switches Boolean, the requests of different
kinds different, `NJobs` and the capacity of the channel positive); what a theorem needs
beyond that is in the table.  Each inductive invariant was checked by TLC on the instance
of the run before it was proved.

| Module | Theorem | States | Hypotheses |
|---|---|---|---|
| `BatchSystem_proofs` | `TypeCorrect`, `QueuedIsPublished`, `BatchRowCorrect`, `NoOverrun`, `RefundsCorrect` | `TypeOK`, `QueuedAfterPublish`, `BatchRowConsistent`, `PublishedWithinReserve`, `RefundsWereIssued` | - |
| `BatchProgress_proofs` | `AllowanceKept`, `AllowanceFixed` | `ReserveWithinApproved`; no step changes `batch.approved` | - |
| | `ProgressHonest` | `ProgressIsEarned` | - |
| | `RefundedIsRefunded` | `RefundedJobIsRefunded` | one confirmation, no billing errors |
| | `OutcomeOnItsWay` | `PublishedOnItsWay` | no database errors, no crashes |
| | `BuildsAreKept` | a build leaves its row only with a failed result | - |
| | `SettledCompletes` | `SettledIsCompleted` | wired handler, one consumer, no restarts or configuration requests, no errors of database or publishing, no crashes |
| | `ConfirmationEnds` | `ConfirmBounded`, `ConfirmCloser` | - |
| `BatchRefinement_proofs` | `KeepsLedger` | `LedgerSpec`: `BatchSystem` implements `BatchLedger` | - |
| `StatusReader_proofs` | `ListedBuilds` | `ListedHasBuild` | reads succeed |
| | `AnswersBacked` | `AnswerIsBacked` | reads succeed, wired handler, one confirmation |
| `Upload_proofs` | `UploadTypes`, `FinalizedExact`, `ApprovedQuoted`, `AnswersAgree`, `AcceptedComplete` | `TypeOK` and the four safety properties of `Upload` | - |
| | `UploadEnds` | `UploadBounded`, `UploadCloser` | - |
| `BatchList_proofs` | `LimitedIsUpload`, `ListedIsUpload`, `ListedUploads`, `ListedUploadsEnd` | limits and lists add no behaviour to uploads, so the four hold there, and uploads end | - |
| | `FileFitsLimits`, `ListTypes`, `PagesOnce` | `FitsOneConfiguration`, `ListTypeOK`, `PagedOnce` | - |
| | `EveryLineIsKept`, `EveryFittingIsComplete` | `LinesAreKept`, `FittingIsComplete`, for files of any length and width over any cells | - |
| | `UploadedRowsAreLines`, `UploadedRowsAreComplete` | `RowsAreTheirLines`, `ValidRowsAreComplete` | - |
| `Exporter_proofs` | `ExporterTypes`, `ExportInOnePlace`, `DoneExportIsStored`, `ExportAnswersHonest` | `TypeOK`, `InOnePlace`, `DoneIsStored`, `PollIsHonest` | - |
| | `KeepsQueue` | initial states and steps of `QueueSpec` | - |
| `Pod_proofs` | `PodIsExporter`, `PodKeepsExports`, `PodKeepsQueue` | the limiter adds no behaviour to the manager | - |
| | `WindowIsLimited` | `PassedWithinLimit` | - |
| | `RateTypes`, `WindowHasAnEnd` | `RateTypeOK`; the safety half of `RefusalEnds` | finitely many requests |

The hypotheses are those under which the code keeps the property; with a second
confirmation TLC finds a counterexample to `RefundedJobIsRefunded` and to `AnswerIsBacked`
each.  A second confirmation queues refunded jobs again and gives them transactions that
the first does not know; a call to billing that fails leaves jobs marked refunded all the same, because the rollback drops
the error; a query that fails leaves its part of an answer empty.
`ProgressIsEarned` has the first of them as its premise (one confirmation, no `blockFunc`),
and `ReserveWithinApproved` that reads of the row succeed, because a failed read skips the
check.

### The batch

The properties speak of the store and are not inductive: a handler that wakes up with
a bad local copy would break them.  `Inv` adds what every handler remembers between
two calls:

* `LoopInv`: inside the loop the position is that of a requested job; without it
  `PublishInv` would have to hold for a job outside the query.
* `PublishInv`: every message on a topic, every message in a consumer's hand and every
  pending status update (`mark`) is about a published job; so the update keeps
  `QueuedAfterPublish`.
* `RowInv`: every copy of the batch row that may be written back is consistent, and so
  are a consumer's counts; so any stale write keeps `BatchRowConsistent`.
* `TxInv`: the transactions that a request or a copied row names were issued, and
  without `blockFunc` no row names any; so refunds are of issued transactions only.
* `ReserveInv`: at the loop's position `pos` fewer than `pos` jobs were sent, and the
  count of the loop is what was blocked; so a confirmation never sends more than that.

The other theorems about a batch rest on `Inv` and on one strengthening each:

* `LedgerInv`, for the ledger: a confirmation before its call to billing has nothing
  blocked or issued, a job with a final status had that result stored, a job with a completed
  result has its build or had a failed one, too, and the jobs that a restart has yet to send
  failed.  With it each action is one action of `BatchLedger` or changes
  nothing that the ledger sees.
* `ApprovedInv`: a copy of the row that is about to be written back has the approved count
  of the row that it replaces.
* `ProgressInv`: no copy of the row and no count of a consumer is ahead of the jobs that
  had a result stored or are refunded (`Earned`), a set that only grows: a confirmation that
  refunds jobs is past its loop and queues none any more.
* `RefundInv`: every copy of the row names all transactions of the confirmation or none; a
  job or message names only what the confirmation remembers as assigned until its end; and
  whoever marks jobs refunded has taken back what they name.
* `ReadInv`, `DoneInv` (readers): what a request has read by one query is still true at the
  next, because builds stay unless the job fails and the progress it read was earned.

Four theorems are what the liveness properties say without fairness:

* `OutcomeOnItsWay` (`WayInv`), for `PublishedGetsOutcome`: for a job that was sent
  a result was stored, or a message about it is on a topic or in the hands of a consumer that has yet
  to store it.  A consumer that dies after its commit loses the message, and a query that
  fails drops the outcome, hence the hypotheses; the run `live` has the same.
* `SettledCompletes` (`SettledInv`), for `SettledBatchCompletes`: from the step that settles
  the last job on, the only consumer has a count or a row in its hands that will complete
  the batch, or has already written it, and every other copy that may be written back is
  that of a cancellation.  A settled batch has no confirmation left that could be rolled
  back, because without errors of the publisher none ever is.
* `ConfirmationEnds` and `UploadEnds`, for `ConfirmAnswered` and `UploadAnswered`: a rank,
  at most `4 * NJobs + 11` for a confirmation and the rows of the file and eight for an
  upload, which each step lowers and which is 0 only at an end.  So no order of failures
  keeps a request in its loops, and `UploadEnds` adds that an upload which is to save its
  outcome has a row to save it in.

The proof of a step goes by component and then by action; lemmas state once what each
action does to each variable (`PublishEffect`, `ReservedChange`, ...) and are cited by
name.  Cardinality facts come from `FiniteSetTheorems`.

### Uploads, limits and lists

`UploadInv` follows each request through its stages.  The rows that passed and the jobs
are of rows that it has been through (`CountInv`); what it must have done, batch, all rows,
file, quote, it has done by the stage at which the code relies on it (`StageInv`); the row
is pending or cancelled, or says what `FinalizeAfterUpload` made of these counts and this
quote (`FinalInv`); the answer follows from the counts and the second quote (`AnswerInv`);
and a row that a cancellation writes back is a cancelled one (`CancelInv`).
`IntakeInv`: the copy of the limits that an upload took is among those in force since its
first check and admits its size; the environment stays as it is.  `AscendingInv` and
`DescendingInv` give the exact positions a client has seen, from which nothing is missed or shown twice.  `LimitedSpec`
and `ListedSpec` imply `Spec` of `Upload`, so no proof is done again for them.

What the file functions compute needs induction, and the theorems of the library cannot be
used for it, because they take the property as an operator.  `SetInduction` takes the *set*
of the numbers for which it holds instead, and follows from the order of the natural numbers
being well-founded.  With it recursive functions are shown to exist (`ParseRowRecursion`,
`RecordsRecursion`), columns are added one by one (`ParseRowSays`: the fields after `n`
columns are the last cells under their headers among these), and blank lines are skipped
without losing a number (`RecordsKeepLines`).  That a trimmed line is a beginning of the
line, and the widest line of a sheet as wide as the sheet, makes all formats the same
argument, since the other two take lines as they are.  `EveryFittingIsComplete` needs
records of equal length, which `encoding/csv` ensures, and fails for workbooks, as the
hazard of short rows says.

### The export manager and the limiter

`ExportInv` has a part for what the local variables name (`HandInv`), one for where an
export may be (`PlaceInv`: one sender, one position in the channel, or the worker, never two
of them), one for what the entry says in each place (`EntryInv`), one for its file
(`StoredInv`) and one for what readers have read (`PollInv`).  `InOnePlace` counts, and so
is not inductive; `PlaceInv` is, because a request makes an entry only where there is none
and `EntryInv` forbids an export without an entry to be anywhere.  Each field write of
`Finish` is a step of the proof, as in the code.  For `KeepsQueue` an export changes its
`ExportState` in at most one of its steps, and the others change none.

`WindowInv`: the requests that passed are at most as many as the counter says, which the
code compares after its own increment.  `RateInv` bounds the counter by two sets of
requests that only grow, those counted and those past a repeated command.
`SomeoneExpires`: a counter above zero without a time to live has a request that is about to
set it, unless `orphaned`.

### Only model-checked

Liveness: `SettledBatchCompletes`, `PublishedGetsOutcome`, `ConfirmAnswered`,
`UploadAnswered`, `RefusalEnds` and the liveness conjuncts of `QueueSpec`.  They need
fairness, thus `ENABLED`, which the provers do not handle.  What each says without fairness
is proved: `SettledCompletes`, `OutcomeOnItsWay`, `ConfirmationEnds`, `UploadEnds`,
`WindowHasAnEnd` and `KeepsQueue`.  Left to TLC is that a request, a consumer or the worker
which has a next step is able to take it, and does.

## 5. Not modelled

* Authentication (`middleware/auth.go`): a stateless check of a token per request, whose
  verdict is not data of any handler above.
* Configuration (`config/config.go`), wiring, database connection, deployment, migrations:
  read or run once at start; what they decide is in the constants, and what the environment
  overrides of the limits in `env` of `UploadLimits`.
* The map of writers in `kafka/producer.go`: it is used without a lock, and a collision makes
  the Go runtime abort the process; for the handlers that is a crash.
* `errors.xlsx`, `results.xlsx`, the template and the statistics: one query and a conversion.
  (The query of `AdminStats` for failed jobs has two `WHERE` clauses, so it always fails.)
* Patterns and messages of the field rules, barcode columns: conversions and tables.
* History, logging, metrics, tracing: best effort, never read back.

## 6. Findings

Each is a run with the one property that the quoted text states.

* `two_consumers`: two pods recompute a batch and one overwrites the other with older
  counts; the batch stays `processing` although every job is settled
  (`manager.go:216` promises completion).
* `late_queued`: the outcome of a fast job is overwritten by `queued`
  (`service.go:460`), contrary to `repo/job_repo.go:58`; a failed one leaves no trace then.
* `unsaved_tx`: the branch that the wired handler takes never saves the transaction IDs
  that `ports.go:105` requires for a cancellation's refund.
* `generate_valid`: "skip invalid" sends the first `ValidRows` jobs, whichever rows they
  are of.
* `rollback`: the rollback marks a queued job refunded, since it starts at the number of
  successes instead of the first failure.
* `no_allowance`: an allowance of zero counts as no limit at `service.go:259`.

Noted without a run:

* `MAX_CONCURRENT_BATCHES` and the hourly limit are never applied (`README.md:112` of the
  repository).
* A limit lowered between `ValidateUpload` and the service turns the refusal of a large
  file from 413 into a 400 with `INVALID_FILE_FORMAT`.  A `RATE_LIMIT_RPS` below 1 makes
  the limit of the counter 0.
* `HandleAdminListBatches` serves `/admin/users/:userId/batches` but reads the user from the
  query string only, so the list is that of all users.
* `HandleBatchStatus` lists every job of the batch under `results.successful`, those that
  failed and those without a result too: it takes a job without an error for a success
  (`batch.go:161-169`), the query has no condition (`job_repo.go:143`), and no error is ever
  stored.
* A failed result leaves only a status (`di_handler.go:54`); once a late `queued`
  (`service.go:460`) or a restart (`batch.go:717`) has overwritten it, no trace is left.
* `PUT` of a row limit is without effect where `MAX_ROWS_PER_BATCH` is set
  (`service.go:77-81`), as `deploy/k8s/deployment-prod.yaml:77` does, though the answer says
  it was taken.
* Under an unknown revision, or `v1`, the local rules let nine empty fields pass
  (`shared.go:52-55`, `105`; `upload.go:119-123` does not check the revision), although
  `column_detector.go:32-33` requires all nine by default.
* The messages for invalid rows count rows from 0, the jobs from 2 (`service.go:145`, `189`).
* Required headers (`RequiredHeaders` in `column_detector.go`) are checked nowhere: only
  tests call it.
* Nothing writes `batch_validation_errors`, from which `errors.xlsx` is made.
* A refused export (`export queue full`) can never be requested again.

## 7. Plan

Done: the store and its four users, the ledger they implement, the readers, the upload with
limits, files and list, the export manager behind the limiter; and proofs of every safety
property of the runs, of the refinement of the ledger, of the initial states and steps of
that of the export queue, and of the safety core of every liveness property.  Left:

1. What `AnswerIsBacked` and `RefundedJobIsRefunded` still promise with a second
   confirmation: a bound in terms of the jobs that it queued again.
2. Several consumers: which of the batches that `two_consumers` leaves in `processing` a
   later result still completes.
3. The conversions behind `FileRows` (barcodes, dates) and the statistics, if a property is
   ever about them.
