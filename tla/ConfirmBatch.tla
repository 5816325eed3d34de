---------------------------- MODULE ConfirmBatch ----------------------------
(***************************************************************************)
(* HandleConfirm with the service wired in: Service.ConfirmBatch.  One     *)
(* request per member of Confirmers; each action is one call to Postgres,  *)
(* billing or Kafka, so that requests, cancellations and results           *)
(* interleave as they do between pods.                                     *)
(***************************************************************************)
EXTENDS BulkStore

CONSTANTS
    WithBlockFunc, \* TRUE when the caller passes blockFunc (the wired handler
                   \* passes nil and uses the billing client)
    PartialCounts  \* counts that generate_partial requests ask for

ASSUME ConfirmAssumption ==
    /\ WithBlockFunc \in BOOLEAN
    /\ PartialCounts \subseteq Nat

VARIABLE conf \* the local variables of each request

ConfirmPc == {"idle", "check", "block", "loadTx", "saveTx", "jobs", "next",
              "publish", "mark", "refund", "loadRow", "saveRow", "unqueued",
              "done", "rejected", "crashed"}

ConfirmAction == {"generate_all", "generate_valid", "generate_partial"}

ConfirmState ==
    [pc: ConfirmPc, action: ConfirmAction, count: Nat, row: BatchRow,
     ids: Nat, order: JobOrders, pos: Nat \ {0}, queued: Nat, perr: BOOLEAN, assigned: SUBSET Tx]

ConfirmFresh ==
    [pc |-> "idle", action |-> "generate_all", count |-> 0, row |-> NoRow,
     ids |-> 0, order |-> [j \in Jobs |-> j], pos |-> 1, queued |-> 0,
     perr |-> FALSE, assigned |-> {}]

ConfirmInit == conf = [c \in Confirmers |-> ConfirmFresh]

Goto(c, pc) == conf' = [conf EXCEPT ![c].pc = pc]

\* The request is answered; of its local variables only the action is kept.
Answer(c, pc) ==
    conf' = [conf EXCEPT ![c] = [ConfirmFresh EXCEPT !.pc = pc,
                                                     !.action = conf[c].action]]

\* Operators named Broken... are deliberate bugs.  No specification uses them:
\* each replaces the definition it is named for to see a property fail.

Least(m, n) == IF m < n THEN m ELSE n

BrokenLastPos(c) == NJobs \* the loop forgets the requested count

\* The loop over the jobs stops at the requested count.
LastPos(c) == Least(conf[c].count, NJobs)

CurrentJob(c) == conf[c].order[conf[c].pos]

\* Off by one in the list of IDs.
BrokenAssignTx(c, i) == IF conf[c].ids = 0 THEN {} ELSE {<<c, i + 1>>}

\* assignTx: a single ID serves every job, otherwise the i-th ID the i-th job.
AssignTx(c, i) ==
    CASE conf[c].ids = 0 -> {}
      [] conf[c].ids = 1 -> {<<c, 1>>}
      [] OTHER -> IF i <= conf[c].ids THEN {<<c, i>>} ELSE {}

\* HandleConfirm: generate_all counts the jobs, generate_valid takes ValidRows
\* (both 0 if the query fails), generate_partial what the client asks for.
RequestedCounts(action) ==
    CASE action = "generate_all"   -> {NJobs} \cup (IF DbErrors THEN {0} ELSE {})
      [] action = "generate_valid" -> {batch.valid} \cup (IF DbErrors THEN {0} ELSE {})
      [] OTHER                     -> PartialCounts

StartConfirm(c) ==
    /\ conf[c].pc = "idle"
    /\ \E a \in ConfirmAction : \E n \in RequestedCounts(a) :
          conf' = [conf EXCEPT ![c].pc = "check", ![c].action = a, ![c].count = n]
    /\ UNCHANGED storeVars

\* The allowance is not compared with the request.
BrokenCheckApproved(c) ==
    /\ conf[c].pc = "check"
    /\ Goto(c, "block")
    /\ UNCHANGED storeVars

\* The allowance is enforced only when it is positive and the row was read.
CheckApproved(c) ==
    /\ conf[c].pc = "check"
    /\ \E ok \in ReadOk :
          IF ok /\ batch.approved > 0 /\ conf[c].count > batch.approved
          THEN Answer(c, "rejected")
          ELSE Goto(c, "block")
    /\ UNCHANGED storeVars

\* A call without an answer is repeated, although billing may have carried it out.
RetryBlockBatch(c) ==
    /\ conf[c].pc = "block"
    /\ \E out \in BillingCall, k \in TxCounts :
          /\ reserved' = IF out.done THEN [reserved EXCEPT ![c] = @ + conf[c].count]
                         ELSE reserved
          /\ issued' = IF out.done THEN issued \cup ({c} \X (1 .. k)) ELSE issued
          /\ conf' = IF out.ok THEN [conf EXCEPT ![c].ids = k, ![c].pc = "jobs"] ELSE conf
    /\ UNCHANGED <<batch, jobs, jobTopic, resultTopic, published, refunds, outcomes>>

\* Only the blockFunc branch goes on to save the IDs on the batch.
BlockBatch(c) ==
    /\ conf[c].pc = "block"
    /\ \E out \in BillingCall, k \in TxCounts :
          /\ reserved' = IF out.done THEN [reserved EXCEPT ![c] = conf[c].count]
                         ELSE reserved
          /\ issued' = IF out.done THEN issued \cup ({c} \X (1 .. k)) ELSE issued
          /\ IF out.ok
             THEN conf' = [conf EXCEPT
                     ![c].ids = k,
                     ![c].pc = IF WithBlockFunc /\ k > 0 THEN "loadTx" ELSE "jobs"]
             ELSE Answer(c, "rejected")
    /\ UNCHANGED <<batch, jobs, jobTopic, resultTopic, published, refunds, outcomes>>

LoadForTx(c) ==
    /\ conf[c].pc = "loadTx"
    /\ \E ok \in ReadOk :
          IF ok THEN conf' = [conf EXCEPT ![c].pc = "saveTx", ![c].row = batch]
                ELSE Goto(c, "jobs")
    /\ UNCHANGED storeVars

SaveTx(c) ==
    /\ conf[c].pc = "saveTx"
    /\ \E out \in DbCall :
          UpdateBatch(out.done, [conf[c].row EXCEPT !.txs = {c} \X (1 .. conf[c].ids)])
    /\ conf' = [conf EXCEPT ![c].pc = "jobs", ![c].row = NoRow]
    /\ UNCHANGED <<jobs, jobTopic, resultTopic, reserved, issued, published, refunds, outcomes>>

\* A failed query gives up although the units are already blocked.
GetJobs(c) ==
    /\ conf[c].pc = "jobs"
    /\ \E ok \in ReadOk, o \in JobOrders :
          IF ok THEN conf' = [conf EXCEPT ![c].pc = "next", ![c].order = o]
                ELSE Answer(c, "rejected")
    /\ UNCHANGED storeVars

\* Top of the loop: give the next job its transaction, if that is a UUID.
NextJob(c) ==
    /\ conf[c].pc = "next"
    /\ conf[c].pos <= LastPos(c)
    /\ LET tx == ValidTx(AssignTx(c, conf[c].pos)) IN
          /\ conf' = [conf EXCEPT ![c].pc = "publish",
                                  ![c].assigned = @ \cup tx]
          /\ IF tx = {} THEN UNCHANGED jobs
             ELSE \E out \in DbCall :
                     UpdateBillingTransactionID(out.done, CurrentJob(c), tx)
    /\ UNCHANGED <<batch, jobTopic, resultTopic, reserved, issued, published, refunds, outcomes>>

\* The job counts as sent when the publish has failed, too.
BrokenPublishJob(c) ==
    /\ conf[c].pc = "publish"
    /\ \E out \in PublishOutcome :
          /\ Publish(c, CurrentJob(c), AssignTx(c, conf[c].pos), out.copies)
          /\ Goto(c, "mark")
    /\ UNCHANGED <<batch, jobs, resultTopic, reserved, issued, refunds, outcomes>>

\* A publish that fails only raises a flag; the loop goes on.
PublishJob(c) ==
    /\ conf[c].pc = "publish"
    /\ \E out \in PublishOutcome :
          /\ Publish(c, CurrentJob(c), AssignTx(c, conf[c].pos), out.copies)
          /\ conf' = IF out.ok
                     THEN [conf EXCEPT ![c].pc = "mark"]
                     ELSE [conf EXCEPT ![c].pc = "next", ![c].pos = @ + 1,
                                       ![c].perr = TRUE]
    /\ UNCHANGED <<batch, jobs, resultTopic, reserved, issued, refunds, outcomes>>

\* The loop does not advance when the status could be updated.
BrokenMarkQueued(c) ==
    /\ conf[c].pc = "mark"
    /\ UpdateStatus(TRUE, CurrentJob(c), "queued")
    /\ Goto(c, "next")
    /\ UNCHANGED <<batch, jobTopic, resultTopic, reserved, issued, published, refunds, outcomes>>

\* The status becomes queued only after the message is on the topic.
MarkQueued(c) ==
    /\ conf[c].pc = "mark"
    /\ \E out \in DbCall :
          /\ UpdateStatus(out.done, CurrentJob(c), "queued")
          /\ conf' = [conf EXCEPT ![c].pc = "next", ![c].pos = @ + 1,
                                  ![c].queued = IF out.ok THEN @ + 1 ELSE @]
    /\ UNCHANGED <<batch, jobTopic, resultTopic, reserved, issued, published, refunds, outcomes>>

EndLoop(c) ==
    /\ conf[c].pc = "next"
    /\ conf[c].pos > LastPos(c)
    /\ IF conf[c].perr
       THEN Goto(c, IF conf[c].assigned = {} THEN "loadRow" ELSE "refund")
       ELSE Answer(c, "done")
    /\ UNCHANGED storeVars

\* After a failed publish every transaction assigned so far is taken back.
RefundAssigned(c) ==
    /\ conf[c].pc = "refund"
    /\ \E out \in BillingCall : RefundTransactions(out.done, c, conf[c].assigned)
    /\ Goto(c, "loadRow")
    /\ UNCHANGED <<batch, jobs, jobTopic, resultTopic, reserved, issued, published, outcomes>>

\* The remaining jobs are counted from the number queued, not from the
\* first job whose publish failed.
LoadForCancel(c) ==
    /\ conf[c].pc = "loadRow"
    /\ \E ok \in ReadOk :
          conf' = [conf EXCEPT ![c].pc = IF ok THEN "saveRow" ELSE "unqueued",
                               ![c].row = IF ok THEN batch ELSE @,
                               ![c].pos = conf[c].queued + 1]
    /\ UNCHANGED storeVars

SaveCancelled(c) ==
    /\ conf[c].pc = "saveRow"
    /\ \E out \in DbCall :
          UpdateBatch(out.done, [conf[c].row EXCEPT !.status = "cancelled"])
    /\ conf' = [conf EXCEPT ![c].pc = "unqueued", ![c].row = NoRow]
    /\ UNCHANGED <<jobs, jobTopic, resultTopic, reserved, issued, published, refunds, outcomes>>

MarkRefunded(c) ==
    /\ conf[c].pc = "unqueued"
    /\ conf[c].pos <= LastPos(c)
    /\ \E out \in DbCall : UpdateStatus(out.done, CurrentJob(c), "refunded")
    /\ conf' = [conf EXCEPT ![c].pos = @ + 1]
    /\ UNCHANGED <<batch, jobTopic, resultTopic, reserved, issued, published, refunds, outcomes>>

EndRollback(c) ==
    /\ conf[c].pc = "unqueued"
    /\ conf[c].pos > LastPos(c)
    /\ Answer(c, "done")
    /\ UNCHANGED storeVars

\* The pod dies: what the request knew is gone, what it wrote stays.
CrashConfirm(c) ==
    /\ Crashes
    /\ conf[c].pc \notin {"idle", "done", "rejected", "crashed"}
    /\ Answer(c, "crashed")
    /\ UNCHANGED storeVars

ConfirmStep(c) ==
    \/ CheckApproved(c)
    \/ BlockBatch(c)
    \/ LoadForTx(c)
    \/ SaveTx(c)
    \/ GetJobs(c)
    \/ NextJob(c)
    \/ PublishJob(c)
    \/ MarkQueued(c)
    \/ EndLoop(c)
    \/ RefundAssigned(c)
    \/ LoadForCancel(c)
    \/ SaveCancelled(c)
    \/ MarkRefunded(c)
    \/ EndRollback(c)
=============================================================================
