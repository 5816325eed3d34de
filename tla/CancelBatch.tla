----------------------------- MODULE CancelBatch -----------------------------
(***************************************************************************)
(* HandleCancel: BatchManager.SetCancelled, one request per member of      *)
(* Cancellers.  The reads that only fill the response are left out.        *)
(***************************************************************************)
EXTENDS BulkStore

VARIABLE canc \* the local variables of each request

CancelPc == {"idle", "load", "save", "refund", "jobs", "mark", "clear", "done",
             "failed", "crashed"}

CancelState == [pc: CancelPc, row: BatchRow, todo: SUBSET Jobs]

CancelFresh == [pc |-> "idle", row |-> NoRow, todo |-> {}]

CancelInit == canc = [x \in Cancellers |-> CancelFresh]

CancelAt(x, from)    == canc[x].pc = from
CancelGoto(x, to)    == canc' = [canc EXCEPT ![x].pc = to]
CancelAnswer(x, end) == canc' = [canc EXCEPT ![x] = [CancelFresh EXCEPT !.pc = end]]

StartCancel(x) ==
    /\ CancelAt(x, "idle")
    /\ CancelGoto(x, "load")
    /\ UNCHANGED storeVars

CancelLoad(x) ==
    /\ CancelAt(x, "load")
    /\ \E ok \in ReadOk :
          IF ok
          THEN canc' = [canc EXCEPT ![x].pc = "save",
                                    ![x].row = [batch EXCEPT !.status = "cancelled"]]
          ELSE CancelAnswer(x, "failed")
    /\ UNCHANGED storeVars

\* A deliberate bug, used by no specification: the refund call is skipped.
BrokenCancelSave(x) ==
    /\ CancelAt(x, "save")
    /\ UpdateBatch(TRUE, canc[x].row)
    /\ CancelGoto(x, "jobs")
    /\ UNCHANGED <<jobs, jobTopic, resultTopic, reserved, issued, published, refunds, outcomes>>

\* Whatever the status was, the whole row as it was read is written back.
CancelSave(x) ==
    /\ CancelAt(x, "save")
    /\ \E out \in DbCall :
          /\ UpdateBatch(out.done, canc[x].row)
          /\ IF out.ok /\ canc[x].row.txs # {}
             THEN CancelGoto(x, "refund")
             ELSE CancelAnswer(x, IF out.ok THEN "done" ELSE "failed")
    /\ UNCHANGED <<jobs, jobTopic, resultTopic, reserved, issued, published, refunds, outcomes>>

\* A refund that fails is logged and nothing else happens.
CancelRefund(x) ==
    /\ CancelAt(x, "refund")
    /\ \E out \in BillingCall :
          /\ RefundTransactions(out.done, x, canc[x].row.txs)
          /\ IF out.ok THEN CancelGoto(x, "jobs") ELSE CancelAnswer(x, "done")
    /\ UNCHANGED <<batch, jobs, jobTopic, resultTopic, reserved, issued, published, outcomes>>

CancelJobs(x) ==
    /\ CancelAt(x, "jobs")
    /\ \E ok \in ReadOk :
          canc' = [canc EXCEPT
              ![x].pc = IF ok THEN "mark" ELSE "clear",
              ![x].todo = IF ok THEN {j \in Jobs : jobs[j].status \in ActiveStatus}
                          ELSE {}]
    /\ UNCHANGED storeVars

\* The statuses come from the query, however old it is by now.
CancelMark(x) ==
    /\ CancelAt(x, "mark")
    /\ \E j \in canc[x].todo, out \in DbCall :
          /\ UpdateStatus(out.done, j, "refunded")
          /\ canc' = [canc EXCEPT ![x].todo = @ \ {j}]
    /\ UNCHANGED <<batch, jobTopic, resultTopic, reserved, issued, published, refunds, outcomes>>

CancelMarked(x) ==
    /\ CancelAt(x, "mark")
    /\ canc[x].todo = {}
    /\ CancelGoto(x, "clear")
    /\ UNCHANGED storeVars

\* The row read at the start is written a second time, without the IDs.
CancelClear(x) ==
    /\ CancelAt(x, "clear")
    /\ \E out \in DbCall : UpdateBatch(out.done, [canc[x].row EXCEPT !.txs = {}])
    /\ CancelAnswer(x, "done")
    /\ UNCHANGED <<jobs, jobTopic, resultTopic, reserved, issued, published, refunds, outcomes>>

CrashCancel(x) ==
    /\ Crashes
    /\ canc[x].pc \notin {"idle", "done", "failed", "crashed"}
    /\ CancelAnswer(x, "crashed")
    /\ UNCHANGED storeVars

CancelStep(x) ==
    \/ CancelLoad(x)
    \/ CancelSave(x)
    \/ CancelRefund(x)
    \/ CancelJobs(x)
    \/ CancelMark(x)
    \/ CancelMarked(x)
    \/ CancelClear(x)
=============================================================================
