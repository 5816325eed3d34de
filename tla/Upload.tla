------------------------------- MODULE Upload -------------------------------
(***************************************************************************)
(* POST /upload: HandleUpload parses a file, creates the batch row and a   *)
(* job for every row (Service.CreateBatchFromFile), stores the file, lets  *)
(* BatchManager.FinalizeAfterUpload set the status from a billing quote,   *)
(* and answers from a second quote.  The batch is visible in the list from *)
(* its creation on, so another client may cancel it meanwhile.             *)
(*                                                                         *)
(* Each action is one call to Postgres, storage or billing.  The batch of  *)
(* an upload goes by the name of the request.                              *)
(***************************************************************************)
EXTENDS Integers, FiniteSets

CONSTANTS
    Uploads,       \* upload requests
    Totals,        \* row counts of the files that are uploaded
    Allowances,    \* AllowedTotal that billing may quote at some time
    HasStorage,    \* TRUE if file storage is configured
    DbErrors,      \* TRUE if calls to Postgres may fail
    StorageErrors, \* TRUE if the file may not be stored
    BillingErrors, \* TRUE if a quote may fail
    Crashes        \* TRUE if the pod may die

ASSUME UploadCounts == Totals \subseteq Nat /\ Allowances \subseteq Nat
ASSUME UploadSwitches ==
    {HasStorage, DbErrors, StorageErrors, BillingErrors, Crashes} \subseteq BOOLEAN

VARIABLES
    batches, \* the batch row of each upload, a set with at most one element
    jobs,    \* the rows of each upload's file that have a job row
    stored,  \* the uploads whose file is in storage
    upl,     \* the local variables of each request
    canc     \* the row that a cancellation of each batch has read

vars == <<batches, jobs, stored, upl, canc>>

Status == {"pending", "validation_errors", "partial_available", "ready", "cancelled"}

BatchRow == [status: Status, valid: Nat, approved: Nat, file: BOOLEAN]

\* What the client is told: a refusal, or the state of the batch.
UploadAnswer == {"refused", "validation_errors", "ready", "partial_available",
                 "billing_error", "lost"}

UploadPc == {"idle", "parse", "create", "rows", "store", "update", "load", "quote", "save",
             "answer"} \cup UploadAnswer

\* A quote is a set with at most one element: none if the call failed.
UploadState ==
    [pc: UploadPc, total: Nat, next: Nat, passed: SUBSET Nat, file: BOOLEAN,
     row: SUBSET BatchRow, quote: SUBSET Nat, answered: SUBSET Nat]

UploadFresh ==
    [pc |-> "idle", total |-> 0, next |-> 1, passed |-> {}, file |-> FALSE,
     row |-> {}, quote |-> {}, answered |-> {}]

\* Counts stay natural numbers and every local has a value the code can give it.
TypeOK ==
    /\ batches \in [Uploads -> SUBSET BatchRow]
    /\ jobs \in [Uploads -> SUBSET Nat]
    /\ stored \subseteq Uploads
    /\ upl \in [Uploads -> UploadState]
    /\ canc \in [Uploads -> SUBSET BatchRow]

Init ==
    /\ batches = [u \in Uploads |-> {}]
    /\ jobs = [u \in Uploads |-> {}]
    /\ stored = {}
    /\ upl = [u \in Uploads |-> UploadFresh]
    /\ canc = [u \in Uploads |-> {}]

---------------------------------------------------------------------------
\* A call that fails may have been carried out (the answer was lost).
CallOutcome(mayFail) ==
    {[ok |-> TRUE, done |-> TRUE]}
    \cup IF mayFail THEN {[ok |-> FALSE, done |-> d] : d \in BOOLEAN} ELSE {}

ReadOk == {out.ok : out \in CallOutcome(DbErrors)}

\* Quote: what billing allows at the moment, or nothing.
Quote == {{n} : n \in Allowances} \cup (IF BillingErrors THEN {{}} ELSE {})

Valid(u)   == Cardinality(upl[u].passed)
Invalid(u) == upl[u].total - Valid(u)

UploadGoto(u, pc) == upl' = [upl EXCEPT ![u].pc = pc]

\* UPDATE batches SET ... WHERE id = ...: nothing happens if there is no row.
UpdateBatch(u, done, b) ==
    batches' = IF done /\ batches[u] # {} THEN [batches EXCEPT ![u] = {b}] ELSE batches

\* HandleUpload takes the file or refuses it (size, format, revision).
ReceiveFile(u) ==
    /\ upl[u].pc = "idle"
    /\ \E pc \in {"refused", "parse"} : UploadGoto(u, pc)
    /\ UNCHANGED <<batches, jobs, stored, canc>>

\* The parser yields the rows or refuses the file (no sheet, unknown headers, more
\* rows than the limit).
Parse(u) ==
    /\ upl[u].pc = "parse"
    /\ \/ UploadGoto(u, "refused")
       \/ \E n \in Totals : upl' = [upl EXCEPT ![u].pc = "create", ![u].total = n]
    /\ UNCHANGED <<batches, jobs, stored, canc>>

\* The new row takes all rows for valid.
NewBatch(u) ==
    [status |-> "pending", valid |-> upl[u].total, approved |-> 0, file |-> FALSE]

Create(u) ==
    /\ upl[u].pc = "create"
    /\ \E out \in CallOutcome(DbErrors) :
          /\ batches' = IF out.done THEN [batches EXCEPT ![u] = {NewBatch(u)}] ELSE batches
          /\ UploadGoto(u, IF out.ok THEN "rows" ELSE "refused")
    /\ UNCHANGED <<jobs, stored, canc>>

\* A row passes if every field present fits its rule in the local table and the
\* BFF, asked only then, accepts it; a BFF that fails to answer refuses it.
LocalVerdict == BOOLEAN
BffVerdict   == {"valid", "invalid", "error"}

Passes(local, bff) == local /\ bff = "valid"

\* The next row gets a job whether it passes or not, unless its creation fails.
ValidateRow(u) ==
    /\ upl[u].pc = "rows"
    /\ upl[u].next <= upl[u].total
    /\ \E local \in LocalVerdict, bff \in BffVerdict, out \in CallOutcome(DbErrors) :
          /\ jobs' = IF out.done THEN [jobs EXCEPT ![u] = @ \cup {upl[u].next}] ELSE jobs
          /\ upl' = [upl EXCEPT ![u].next = @ + 1,
                                ![u].passed = IF Passes(local, bff)
                                              THEN @ \cup {upl[u].next} ELSE @]
    /\ UNCHANGED <<batches, stored, canc>>

EndRows(u) ==
    /\ upl[u].pc = "rows"
    /\ upl[u].next > upl[u].total
    /\ UploadGoto(u, IF HasStorage THEN "store" ELSE "update")
    /\ UNCHANGED <<batches, jobs, stored, canc>>

\* BrokenStoreFile, BrokenLoadRow, PatientLoadRow, BrokenFinalize and
\* ShortfallFinalize are deliberate bugs.  No specification uses them:
\* each replaces the definition that follows it to see a property fail.

\* A file that cannot be stored does not stop the upload.
BrokenStoreFile(u) ==
    /\ upl[u].pc = "store"
    /\ \E ok \in BOOLEAN :
          /\ stored' = IF ok THEN stored \cup {u} ELSE stored
          /\ upl' = [upl EXCEPT ![u].pc = "update", ![u].file = ok]
    /\ UNCHANGED <<batches, jobs, canc>>

\* A file that cannot be stored refuses the upload; batch and jobs stay.
StoreFile(u) ==
    /\ upl[u].pc = "store"
    /\ \E out \in CallOutcome(StorageErrors) :
          /\ stored' = IF out.done THEN stored \cup {u} ELSE stored
          /\ upl' = [upl EXCEPT ![u].pc = IF out.ok THEN "update" ELSE "refused",
                                ![u].file = out.ok]
    /\ UNCHANGED <<batches, jobs, canc>>

\* The row as it was created, with the valid count and the file, is written
\* back; an error is dropped.
UpdateCounts(u) ==
    /\ upl[u].pc = "update"
    /\ \E out \in CallOutcome(DbErrors) :
          UpdateBatch(u, out.done, [NewBatch(u) EXCEPT !.valid = Valid(u),
                                                       !.file = upl[u].file])
    /\ UploadGoto(u, "load")
    /\ UNCHANGED <<jobs, stored, canc>>

\* The valid count is left as the row has it.
BrokenLoadRow(u) ==
    /\ upl[u].pc = "load"
    /\ upl' = [upl EXCEPT ![u].row = batches[u],
                          ![u].pc = IF Invalid(u) > 0 THEN "save" ELSE "quote"]
    /\ UNCHANGED <<batches, jobs, stored, canc>>

\* Waits until the row is as it was created.
PatientLoadRow(u) ==
    /\ upl[u].pc = "load"
    /\ \E b \in batches[u] :
          /\ b.status = "pending"
          /\ upl' = [upl EXCEPT ![u].row = {[b EXCEPT !.valid = Valid(u)]},
                                ![u].pc = IF Invalid(u) > 0 THEN "save" ELSE "quote"]
    /\ UNCHANGED <<batches, jobs, stored, canc>>

\* FinalizeAfterUpload reads the row anew; its error is dropped.
LoadRow(u) ==
    /\ upl[u].pc = "load"
    /\ \E ok \in ReadOk :
          upl' = IF ok
                 THEN [upl EXCEPT
                         ![u].row = {[b EXCEPT !.valid = Valid(u)] : b \in batches[u]},
                         ![u].pc = IF Invalid(u) > 0 THEN "save" ELSE "quote"]
                 ELSE [upl EXCEPT ![u].pc = "answer"]
    /\ UNCHANGED <<batches, jobs, stored, canc>>

QuoteUnits(u) ==
    /\ upl[u].pc = "quote"
    /\ \E q \in Quote : upl' = [upl EXCEPT ![u].quote = q, ![u].pc = "save"]
    /\ UNCHANGED <<batches, jobs, stored, canc>>

Short(quote, n) == \E a \in quote : a < n

\* The allowance is stored for a batch that could be paid in full.
BrokenFinalize(u, b) ==
    IF Invalid(u) > 0 THEN [b EXCEPT !.status = "validation_errors"]
    ELSE IF \E a \in upl[u].quote : a <= Valid(u)
         THEN [b EXCEPT !.status = "partial_available",
                        !.approved = CHOOSE a \in upl[u].quote : TRUE]
         ELSE [b EXCEPT !.status = "ready"]

\* The shortfall is stored, the wrong way round.
ShortfallFinalize(u, b) ==
    IF Invalid(u) > 0 THEN [b EXCEPT !.status = "validation_errors"]
    ELSE IF Short(upl[u].quote, Valid(u))
         THEN [b EXCEPT !.status = "partial_available",
                        !.approved = (CHOOSE a \in upl[u].quote : TRUE) - Valid(u)]
         ELSE [b EXCEPT !.status = "ready"]

\* A quote that failed counts as one that allows everything.
Finalize(u, b) ==
    IF Invalid(u) > 0 THEN [b EXCEPT !.status = "validation_errors"]
    ELSE IF Short(upl[u].quote, Valid(u))
         THEN [b EXCEPT !.status = "partial_available",
                        !.approved = CHOOSE a \in upl[u].quote : TRUE]
         ELSE [b EXCEPT !.status = "ready"]

SaveRow(u) ==
    /\ upl[u].pc = "save"
    /\ \E b \in upl[u].row, out \in CallOutcome(DbErrors) :
          UpdateBatch(u, out.done, Finalize(u, b))
    /\ UploadGoto(u, "answer")
    /\ UNCHANGED <<jobs, stored, canc>>

\* A batch with invalid rows is not quoted again; the others are.
Answer(u) ==
    /\ upl[u].pc = "answer"
    /\ \/ /\ Invalid(u) > 0
          /\ UploadGoto(u, "validation_errors")
       \/ /\ Invalid(u) = 0
          /\ \E q \in Quote :
                upl' = [upl EXCEPT
                          ![u].answered = q,
                          ![u].pc = IF q = {} THEN "billing_error"
                                    ELSE IF Short(q, Valid(u)) THEN "partial_available"
                                    ELSE "ready"]
    /\ UNCHANGED <<batches, jobs, stored, canc>>

CrashUpload(u) ==
    /\ Crashes
    /\ upl[u].pc \notin UploadAnswer \cup {"idle"}
    /\ UploadGoto(u, "lost")
    /\ UNCHANGED <<batches, jobs, stored, canc>>

\* SetCancelled by another client, at any time (no transactions are saved yet).
CancelLoad(u) ==
    /\ canc[u] = {}
    /\ canc' = [canc EXCEPT ![u] = {[b EXCEPT !.status = "cancelled"] : b \in batches[u]}]
    /\ UNCHANGED <<batches, jobs, stored, upl>>

CancelSave(u) ==
    /\ \E b \in canc[u] : UpdateBatch(u, TRUE, b)
    /\ canc' = [canc EXCEPT ![u] = {}]
    /\ UNCHANGED <<jobs, stored, upl>>

UploadStep(u) ==
    \/ Parse(u)
    \/ Create(u)
    \/ ValidateRow(u)
    \/ EndRows(u)
    \/ StoreFile(u)
    \/ UpdateCounts(u)
    \/ LoadRow(u)
    \/ QuoteUnits(u)
    \/ SaveRow(u)
    \/ Answer(u)

Next ==
    \E u \in Uploads :
        ReceiveFile(u) \/ UploadStep(u) \/ CrashUpload(u) \/ CancelLoad(u) \/ CancelSave(u)

Spec == Init /\ [][Next]_vars

\* An upload that was received goes on; nobody has to upload or to cancel.
FairSpec == Spec /\ \A u \in Uploads : WF_vars(UploadStep(u))

---------------------------------------------------------------------------
Accepted(u) == upl[u].pc \in {"validation_errors", "ready", "partial_available"}

\* A batch that has left pending, and was not cancelled, counts exactly the rows
\* that passed and has validation errors exactly if some row did not, whatever
\* the dropped errors and the stale write of a cancellation did to the row that
\* FinalizeAfterUpload started from.
FinalizedRowIsExact ==
    \A u \in Uploads : \A b \in batches[u] :
        b.status \notin {"pending", "cancelled"} =>
            /\ b.valid = Valid(u)
            /\ b.status = "validation_errors" <=> Invalid(u) > 0

\* An approved count is less than the valid count and what billing quoted for
\* this batch, so that ConfirmBatch compares the request with a real limit.
ApprovedIsQuoted ==
    \A u \in Uploads : \A b \in batches[u] :
        b.status = "partial_available" =>
            b.approved < b.valid /\ b.approved \in upl[u].quote

\* When billing answers both quotes alike, the client is told what the row says,
\* unless FinalizeAfterUpload failed or the batch was cancelled.
AnswerAgrees ==
    \A u \in Uploads : \A b \in batches[u] :
        /\ Accepted(u)
        /\ upl[u].quote = upl[u].answered
        => b.status \in {upl[u].pc, "pending", "cancelled"}

\* An accepted upload has a batch row, its file, and jobs for no other rows than
\* those of the file; jobs of a refused upload belong to a batch, too.
AcceptedIsComplete ==
    \A u \in Uploads :
        /\ jobs[u] # {} => batches[u] # {}
        /\ jobs[u] \subseteq 1 .. upl[u].total
        /\ Accepted(u) =>
              /\ batches[u] # {}
              /\ HasStorage => u \in stored
              /\ ~DbErrors => jobs[u] = 1 .. upl[u].total

\* Every upload that was received is answered, whatever calls fail, unless the pod
\* dies: HandleUpload has no wait or retry without end.
UploadAnswered ==
    \A u \in Uploads : (upl[u].pc = "parse") ~> (upl[u].pc \in UploadAnswer)
=============================================================================
