------------------------- MODULE BatchSystem_proofs -------------------------
(***************************************************************************)
(* Proofs about BatchSystem for any number of jobs, requests and consumers *)
(* and every choice of failures: the invariant Inv of BatchInvariant is    *)
(* inductive, and it implies the safety properties of the store.           *)
(***************************************************************************)
EXTENDS BatchInvariant, FiniteSetTheorems, TLAPS

---------------------------------------------------------------------------
(***************************************************************************)
(* Facts about the operators of the store                                  *)
(***************************************************************************)

\* The jobs of a batch are finitely many, and so is every set of them.
LEMMA JobsFinite ==
    /\ IsFiniteSet(Jobs)
    /\ Cardinality(Jobs) = NJobs
    /\ \A S \in SUBSET Jobs :
          IsFiniteSet(S) /\ Cardinality(S) \in Nat /\ Cardinality(S) <= NJobs
<1>1. IsFiniteSet(Jobs) /\ Cardinality(Jobs) = NJobs
  BY FS_Interval, NJobsAssumption DEF Jobs
<1>2. ASSUME NEW S \in SUBSET Jobs
      PROVE  IsFiniteSet(S) /\ Cardinality(S) \in Nat /\ Cardinality(S) <= NJobs
  <2>1. IsFiniteSet(S) /\ Cardinality(S) <= Cardinality(Jobs)
    BY <1>1, FS_Subset
  <2>2. Cardinality(S) \in Nat
    BY <2>1, FS_CardinalityType
  <2> QED
    BY <1>1, <2>1, <2>2
<1> QED
  BY <1>1, <1>2

\* A row that nobody has read, and the row an upload leaves behind, are rows.
LEMMA UploadedType ==
    ASSUME NEW s \in BatchStatus, NEW n \in Nat
    PROVE  Uploaded(s, n) \in BatchRow
<1>1. ValidCount \in Nat
  BY JobsFinite, InvalidRowsAssumption, NJobsAssumption DEF ValidCount
<1> QED
  BY <1>1 DEF Uploaded, BatchRow

LEMMA NoRowType == NoRow \in BatchRow
BY UploadedType DEF NoRow, BatchStatus

\* The outcome of a call is two booleans; a call that answers was carried out.
LEMMA CallType ==
    /\ \A out \in DbCall \cup BillingCall :
          out.ok \in BOOLEAN /\ out.done \in BOOLEAN /\ (out.ok => out.done)
    /\ ReadOk \subseteq BOOLEAN
<1>1. ASSUME NEW mayFail, NEW out \in CallOutcome(mayFail)
      PROVE  out.ok \in BOOLEAN /\ out.done \in BOOLEAN /\ (out.ok => out.done)
  <2>1. CASE out = [ok |-> TRUE, done |-> TRUE]
    BY <2>1
  <2>2. ASSUME NEW d \in BOOLEAN, out = [ok |-> FALSE, done |-> d]
        PROVE  out.ok = FALSE /\ out.done = d
    BY <2>2
  <2>3. \/ out = [ok |-> TRUE, done |-> TRUE]
        \/ \E d \in BOOLEAN : out = [ok |-> FALSE, done |-> d]
    BY DEF CallOutcome
  <2> QED
    BY <2>1, <2>2, <2>3
<1>2. ReadOk \subseteq BOOLEAN
  BY <1>1 DEF ReadOk, DbCall
<1> QED
  BY <1>1, <1>2 DEF DbCall, BillingCall

\* The whole-row write keeps the row a row.
LEMMA UpdateBatchType ==
    ASSUME batch \in BatchRow, NEW done, NEW b \in BatchRow, UpdateBatch(done, b)
    PROVE  batch' \in BatchRow
BY DEF UpdateBatch, ToPostgres, BatchRow

LEMMA UpdateStatusType ==
    ASSUME jobs \in [Jobs -> JobRow], NEW done, NEW j, NEW s \in JobStatus,
           UpdateStatus(done, j, s)
    PROVE  jobs' \in [Jobs -> JobRow]
BY DEF UpdateStatus, JobRow

LEMMA PublishType ==
    ASSUME StoreTypeOK, NEW p \in Publisher, NEW j \in Jobs, NEW tx \in SUBSET Tx,
           NEW out \in PublishOutcome, Publish(p, j, tx, out.copies)
    PROVE  jobTopic' \subseteq JobMessage /\ published' \subseteq Publisher \X Jobs
<1>1. out.copies \in Nat
  BY CopiesAssumption DEF PublishOutcome
<1> QED
  BY <1>1 DEF Publish, StoreTypeOK, JobMessage

LEMMA RefundType ==
    ASSUME refunds \subseteq Refunder \X Tx, NEW done, NEW p \in Refunder,
           NEW txs \in SUBSET Tx, RefundTransactions(done, p, txs)
    PROVE  refunds' \subseteq Refunder \X Tx
BY DEF RefundTransactions

---------------------------------------------------------------------------
(***************************************************************************)
(* Types.  TypeOK is inductive only together with LoopInv: the job that is *)
(* published or marked is a job because the position is within the loop.   *)
(***************************************************************************)

\* The job at a position inside the loop is a job.
LEMMA CurrentJobType ==
    ASSUME TypeOK, NEW c \in Confirmers, conf[c].pos <= LastPos(c)
    PROVE  CurrentJob(c) \in Jobs
<1>1. conf[c].order \in [Jobs -> Jobs]
  BY DEF TypeOK, ConfirmState, JobOrders
<1>2. conf[c].pos \in Nat \ {0} /\ conf[c].count \in Nat
  BY DEF TypeOK, ConfirmState
<1>3. conf[c].pos \in Jobs
  BY <1>2, NJobsAssumption DEF LastPos, Least, Jobs
<1> QED
  BY <1>1, <1>3 DEF CurrentJob

\* A transaction that the loop assigns is one of the confirmation's own IDs.
LEMMA AssignTxType ==
    ASSUME TypeOK, NEW c \in Confirmers
    PROVE  /\ AssignTx(c, conf[c].pos) \subseteq {c} \X (1 .. conf[c].ids)
           /\ AssignTx(c, conf[c].pos) \in SUBSET Tx
<1>1. conf[c].ids \in Nat /\ conf[c].pos \in Nat \ {0}
  BY DEF TypeOK, ConfirmState
<1> QED
  BY <1>1 DEF AssignTx, Tx

LEMMA ConfirmFreshType ==
    /\ ConfirmFresh \in ConfirmState
    /\ \A pc \in ConfirmPc, a \in ConfirmAction :
          [ConfirmFresh EXCEPT !.pc = pc, !.action = a] \in ConfirmState
<1>1. [j \in Jobs |-> j] \in JobOrders
  BY DEF JobOrders
<1>2. ConfirmFresh \in ConfirmState
  BY <1>1, NoRowType DEF ConfirmFresh, ConfirmState, ConfirmPc, ConfirmAction
<1> QED
  BY <1>2 DEF ConfirmState

LEMMA GotoType ==
    ASSUME TypeOK, NEW c \in Confirmers, NEW pc \in ConfirmPc, Goto(c, pc)
    PROVE  conf' \in [Confirmers -> ConfirmState]
BY DEF TypeOK, Goto, ConfirmState

LEMMA AnswerType ==
    ASSUME TypeOK, NEW c \in Confirmers, NEW pc \in ConfirmPc, Answer(c, pc)
    PROVE  conf' \in [Confirmers -> ConfirmState]
<1>1. conf \in [Confirmers -> ConfirmState] /\ conf[c].action \in ConfirmAction
  BY DEF TypeOK, ConfirmState
<1> QED
  BY <1>1, ConfirmFreshType DEF Answer

\* Every step of a confirmation keeps the types.
LEMMA ConfirmType ==
    ASSUME TypeOK, LoopInv, NEW c \in Confirmers, ConfirmNext(c)
    PROVE  TypeOK'
<1> USE DEF TypeOK, StoreTypeOK
<1>0. /\ conf[c] \in ConfirmState
      /\ UNCHANGED <<canc, cons, rest, cong>>
      /\ c \in Publisher /\ c \in Refunder
  BY DEF ConfirmNext, Publisher, Refunder
<1>1. CASE StartConfirm(c)
  <2>1. \A a \in ConfirmAction : RequestedCounts(a) \subseteq Nat
    BY NJobsAssumption, ConfirmAssumption DEF RequestedCounts, BatchRow, ConfirmAction
  <2>2. PICK a \in ConfirmAction, n \in Nat :
           conf' = [conf EXCEPT ![c].pc = "check", ![c].action = a, ![c].count = n]
    BY <1>1, <2>1 DEF StartConfirm
  <2>3. conf' \in [Confirmers -> ConfirmState]
    BY <1>0, <2>2 DEF ConfirmState, ConfirmPc
  <2> QED
    BY <1>0, <1>1, <2>3 DEF StartConfirm, storeVars
<1>2. CASE CheckApproved(c)
  <2>1. conf' \in [Confirmers -> ConfirmState]
    BY <1>2, GotoType, AnswerType DEF CheckApproved, ConfirmPc
  <2> QED
    BY <1>0, <1>2, <2>1 DEF CheckApproved, storeVars
<1>3. CASE BlockBatch(c)
  <2>1. PICK out \in BillingCall, k \in TxCounts :
           /\ reserved' = IF out.done THEN [reserved EXCEPT ![c] = conf[c].count]
                          ELSE reserved
           /\ issued' = IF out.done THEN issued \cup ({c} \X (1 .. k)) ELSE issued
           /\ IF out.ok
              THEN conf' = [conf EXCEPT
                      ![c].ids = k,
                      ![c].pc = IF WithBlockFunc /\ k > 0 THEN "loadTx" ELSE "jobs"]
              ELSE Answer(c, "rejected")
    BY <1>3 DEF BlockBatch
  <2>2. k \in Nat
    BY TxCountsAssumption
  <2>3. conf' \in [Confirmers -> ConfirmState]
    <3>1. CASE out.ok
      BY <1>0, <2>1, <2>2, <3>1, SMTT(40) DEF ConfirmState, ConfirmPc
    <3>2. CASE ~out.ok
      BY <2>1, <3>2, AnswerType DEF ConfirmPc
    <3> QED
      BY <3>1, <3>2
  <2>4. reserved' \in [Confirmers -> Nat] /\ issued' \subseteq Tx
    BY <1>0, <2>1, <2>2 DEF ConfirmState, Tx
  <2> QED
    BY <1>0, <1>3, <2>3, <2>4 DEF BlockBatch
<1>4. CASE LoadForTx(c)
  <2>1. ASSUME conf' = [conf EXCEPT ![c].pc = "saveTx", ![c].row = batch]
        PROVE  conf' \in [Confirmers -> ConfirmState]
    BY <1>0, <2>1 DEF ConfirmState, ConfirmPc
  <2>2. ASSUME Goto(c, "jobs")
        PROVE  conf' \in [Confirmers -> ConfirmState]
    BY <2>2, GotoType DEF ConfirmPc
  <2>3. conf' \in [Confirmers -> ConfirmState]
    BY <1>4, <2>1, <2>2 DEF LoadForTx
  <2> QED
    BY <1>0, <1>4, <2>3 DEF LoadForTx, storeVars
<1>5. CASE SaveTx(c)
  <2>1. [conf[c].row EXCEPT !.txs = {c} \X (1 .. conf[c].ids)] \in BatchRow
    BY <1>0 DEF ConfirmState, BatchRow, Tx
  <2>2. batch' \in BatchRow
    BY <1>5, <2>1, UpdateBatchType DEF SaveTx
  <2>3. conf' \in [Confirmers -> ConfirmState]
    BY <1>0, <1>5, NoRowType DEF SaveTx, ConfirmState, ConfirmPc
  <2> QED
    BY <1>0, <1>5, <2>2, <2>3 DEF SaveTx
<1>6. CASE GetJobs(c)
  <2>1. ASSUME NEW o \in JobOrders,
               conf' = [conf EXCEPT ![c].pc = "next", ![c].order = o]
        PROVE  conf' \in [Confirmers -> ConfirmState]
    BY <1>0, <2>1 DEF ConfirmState, ConfirmPc
  <2>2. ASSUME Answer(c, "rejected")
        PROVE  conf' \in [Confirmers -> ConfirmState]
    BY <2>2, AnswerType DEF ConfirmPc
  <2>3. conf' \in [Confirmers -> ConfirmState]
    BY <1>6, <2>1, <2>2 DEF GetJobs
  <2> QED
    BY <1>0, <1>6, <2>3 DEF GetJobs, storeVars
<1>7. CASE NextJob(c)
  <2> DEFINE tx == ValidTx(AssignTx(c, conf[c].pos))
  <2>1. tx \in SUBSET Tx
    BY AssignTxType DEF ValidTx
  <2>2. conf' = [conf EXCEPT ![c].pc = "publish", ![c].assigned = @ \cup tx]
    BY <1>7 DEF NextJob
  <2> HIDE DEF tx
  <2>3. conf' \in [Confirmers -> ConfirmState]
    BY <1>0, <2>1, <2>2 DEF ConfirmState, ConfirmPc
  <2>4. jobs' = jobs \/ \E done : UpdateBillingTransactionID(done, CurrentJob(c), tx)
    BY <1>7 DEF NextJob, tx
  <2>5. jobs' \in [Jobs -> JobRow]
    BY <2>1, <2>4 DEF UpdateBillingTransactionID, JobRow
  <2> QED
    BY <1>0, <1>7, <2>3, <2>5 DEF NextJob
<1>8. CASE PublishJob(c)
  <2>1. PICK out \in PublishOutcome :
           /\ Publish(c, CurrentJob(c), AssignTx(c, conf[c].pos), out.copies)
           /\ conf' = IF out.ok
                      THEN [conf EXCEPT ![c].pc = "mark"]
                      ELSE [conf EXCEPT ![c].pc = "next", ![c].pos = @ + 1,
                                        ![c].perr = TRUE]
    BY <1>8 DEF PublishJob
  <2>2. CurrentJob(c) \in Jobs
    BY <1>8, CurrentJobType DEF PublishJob, LoopInv
  <2>3. conf' \in [Confirmers -> ConfirmState]
    <3>1. ASSUME conf' = [conf EXCEPT ![c].pc = "mark"]
          PROVE  conf' \in [Confirmers -> ConfirmState]
      BY <1>0, <3>1 DEF ConfirmState, ConfirmPc
    <3>2. ASSUME conf' = [conf EXCEPT ![c].pc = "next", ![c].pos = @ + 1,
                                      ![c].perr = TRUE]
          PROVE  conf' \in [Confirmers -> ConfirmState]
      BY <1>0, <3>2 DEF ConfirmState, ConfirmPc
    <3> QED
      BY <2>1, <3>1, <3>2
  <2>4. jobTopic' \subseteq JobMessage /\ published' \subseteq Publisher \X Jobs
    BY <1>0, <2>1, <2>2, AssignTxType, PublishType
  <2> QED
    BY <1>0, <1>8, <2>3, <2>4 DEF PublishJob
<1>9. CASE MarkQueued(c)
  <2>1. PICK out \in DbCall :
           /\ UpdateStatus(out.done, CurrentJob(c), "queued")
           /\ conf' = [conf EXCEPT ![c].pc = "next", ![c].pos = @ + 1,
                                   ![c].queued = IF out.ok THEN @ + 1 ELSE @]
    BY <1>9 DEF MarkQueued
  <2> DEFINE q == IF out.ok THEN conf[c].queued + 1 ELSE conf[c].queued
  <2>2. q \in Nat /\ conf' = [conf EXCEPT ![c].pc = "next", ![c].pos = @ + 1, ![c].queued = q]
    BY <1>0, <2>1 DEF ConfirmState
  <2> HIDE DEF q
  <2>3. conf' \in [Confirmers -> ConfirmState]
    BY <1>0, <2>2 DEF ConfirmState, ConfirmPc
  <2>4. jobs' \in [Jobs -> JobRow]
    BY <2>1, UpdateStatusType DEF JobStatus
  <2> QED
    BY <1>0, <1>9, <2>3, <2>4 DEF MarkQueued
<1>10. CASE EndLoop(c)
  <2>1. conf' \in [Confirmers -> ConfirmState]
    <3>1. CASE conf[c].perr
      BY <1>10, <3>1, GotoType DEF EndLoop, ConfirmPc
    <3>2. CASE ~conf[c].perr
      BY <1>10, <3>2, AnswerType DEF EndLoop, ConfirmPc
    <3> QED
      BY <3>1, <3>2
  <2> QED
    BY <1>0, <1>10, <2>1 DEF EndLoop, storeVars
<1>11. CASE RefundAssigned(c)
  <2>1. conf' \in [Confirmers -> ConfirmState]
    BY <1>11, GotoType DEF RefundAssigned, ConfirmPc
  <2>2. refunds' \subseteq Refunder \X Tx
    BY <1>0, <1>11, RefundType DEF RefundAssigned, ConfirmState
  <2> QED
    BY <1>0, <1>11, <2>1, <2>2 DEF RefundAssigned
<1>12. CASE LoadForCancel(c)
  <2>1. PICK ok \in ReadOk :
          conf' = [conf EXCEPT ![c].pc = IF ok THEN "saveRow" ELSE "unqueued",
                               ![c].row = IF ok THEN batch ELSE @,
                               ![c].pos = conf[c].queued + 1]
    BY <1>12 DEF LoadForCancel
  <2> DEFINE pc == IF ok THEN "saveRow" ELSE "unqueued"
             b  == IF ok THEN batch ELSE conf[c].row
             n  == conf[c].queued + 1
  <2>2. /\ pc \in ConfirmPc /\ b \in BatchRow /\ n \in Nat \ {0}
        /\ conf' = [conf EXCEPT ![c].pc = pc, ![c].row = b, ![c].pos = n]
    BY <1>0, <2>1 DEF ConfirmState, ConfirmPc
  <2> HIDE DEF pc, b, n
  <2>3. conf' \in [Confirmers -> ConfirmState]
    BY <1>0, <2>2 DEF ConfirmState
  <2> QED
    BY <1>0, <1>12, <2>3 DEF LoadForCancel, storeVars
<1>13. CASE SaveCancelled(c)
  <2>1. [conf[c].row EXCEPT !.status = "cancelled"] \in BatchRow
    BY <1>0 DEF ConfirmState, BatchRow, BatchStatus
  <2>2. batch' \in BatchRow
    BY <1>13, <2>1, UpdateBatchType DEF SaveCancelled
  <2>3. conf' \in [Confirmers -> ConfirmState]
    BY <1>0, <1>13, NoRowType DEF SaveCancelled, ConfirmState, ConfirmPc
  <2> QED
    BY <1>0, <1>13, <2>2, <2>3 DEF SaveCancelled
<1>14. CASE MarkRefunded(c)
  <2>1. conf' \in [Confirmers -> ConfirmState]
    BY <1>0, <1>14, SMTT(40) DEF MarkRefunded, ConfirmState
  <2>2. jobs' \in [Jobs -> JobRow]
    BY <1>14, UpdateStatusType DEF MarkRefunded, JobStatus
  <2> QED
    BY <1>0, <1>14, <2>1, <2>2 DEF MarkRefunded
<1>15. CASE EndRollback(c) \/ CrashConfirm(c)
  <2>1. conf' \in [Confirmers -> ConfirmState]
    BY <1>15, AnswerType DEF EndRollback, CrashConfirm, ConfirmPc
  <2> QED
    BY <1>0, <1>15, <2>1 DEF EndRollback, CrashConfirm, storeVars
<1> QED
  BY <1>1, <1>2, <1>3, <1>4, <1>5, <1>6, <1>7, <1>8, <1>9, <1>10, <1>11, <1>12,
     <1>13, <1>14, <1>15 DEF ConfirmNext, ConfirmStep

\* Every step of a cancellation keeps the types.
LEMMA CancelType ==
    ASSUME TypeOK, NEW x \in Cancellers, CancelNext(x)
    PROVE  TypeOK'
<1> USE DEF TypeOK, StoreTypeOK
<1>0. /\ canc[x] \in CancelState
      /\ canc[x].row.txs \in SUBSET Tx
      /\ UNCHANGED <<conf, cons, rest, cong>>
      /\ x \in Refunder
  BY DEF CancelNext, Refunder, CancelState, BatchRow
<1>a. ASSUME NEW pc \in CancelPc, CancelGoto(x, pc) \/ CancelAnswer(x, pc)
      PROVE  canc' \in [Cancellers -> CancelState]
  BY <1>a, NoRowType DEF CancelGoto, CancelAnswer, CancelFresh, CancelState
<1>b. ASSUME canc' \in [Cancellers -> CancelState], UNCHANGED storeVars
      PROVE  TypeOK'
  BY <1>0, <1>b DEF storeVars
<1>1. CASE StartCancel(x)
  BY <1>1, <1>a, <1>b DEF StartCancel, CancelPc
<1>2. CASE CancelLoad(x)
  <2>1. ASSUME canc' = [canc EXCEPT ![x].pc = "save",
                                    ![x].row = [batch EXCEPT !.status = "cancelled"]]
        PROVE  canc' \in [Cancellers -> CancelState]
    <3>1. [batch EXCEPT !.status = "cancelled"] \in BatchRow
      BY DEF BatchRow, BatchStatus
    <3> QED
      BY <1>0, <2>1, <3>1 DEF CancelState, CancelPc
  <2> QED
    BY <1>2, <2>1, <1>a, <1>b DEF CancelLoad, CancelPc
<1>3. CASE CancelSave(x)
  <2>1. canc' \in [Cancellers -> CancelState]
    <3>1. PICK out \in DbCall :
             IF out.ok /\ canc[x].row.txs # {}
             THEN CancelGoto(x, "refund")
             ELSE CancelAnswer(x, IF out.ok THEN "done" ELSE "failed")
      BY <1>3 DEF CancelSave
    <3> QED
      BY <3>1, <1>a DEF CancelPc
  <2>2. batch' \in BatchRow
    BY <1>0, <1>3, UpdateBatchType DEF CancelSave, CancelState
  <2> QED
    BY <1>0, <1>3, <2>1, <2>2 DEF CancelSave
<1>4. CASE CancelRefund(x)
  <2>1. canc' \in [Cancellers -> CancelState]
    BY <1>4, <1>a DEF CancelRefund, CancelPc
  <2>2. refunds' \subseteq Refunder \X Tx
    BY <1>0, <1>4, RefundType DEF CancelRefund
  <2> QED
    BY <1>0, <1>4, <2>1, <2>2 DEF CancelRefund
<1>5. CASE CancelJobs(x)
  <2>1. PICK pc \in CancelPc, todo \in SUBSET Jobs :
           canc' = [canc EXCEPT ![x].pc = pc, ![x].todo = todo]
    <3>1. PICK ok \in ReadOk :
             canc' = [canc EXCEPT
                 ![x].pc = IF ok THEN "mark" ELSE "clear",
                 ![x].todo = IF ok THEN {j \in Jobs : jobs[j].status \in ActiveStatus}
                             ELSE {}]
      BY <1>5 DEF CancelJobs
    <3>2. CASE ok
      BY <3>1, <3>2 DEF CancelPc
    <3>3. CASE ~ok
      BY <3>1, <3>3 DEF CancelPc
    <3> QED
      BY <3>2, <3>3
  <2>2. canc' \in [Cancellers -> CancelState]
    BY <1>0, <2>1 DEF CancelState
  <2> QED
    BY <1>5, <2>2, <1>b DEF CancelJobs
<1>6. CASE CancelMark(x)
  <2>1. canc' \in [Cancellers -> CancelState]
    BY <1>0, <1>6 DEF CancelMark, CancelState
  <2>2. jobs' \in [Jobs -> JobRow]
    BY <1>6, UpdateStatusType DEF CancelMark, JobStatus
  <2> QED
    BY <1>0, <1>6, <2>1, <2>2 DEF CancelMark
<1>7. CASE CancelMarked(x)
  BY <1>7, <1>a, <1>b DEF CancelMarked, CancelPc
<1>8. CASE CancelClear(x)
  <2>1. [canc[x].row EXCEPT !.txs = {}] \in BatchRow
    BY <1>0 DEF CancelState, BatchRow
  <2>2. batch' \in BatchRow
    BY <1>8, <2>1, UpdateBatchType DEF CancelClear
  <2>3. canc' \in [Cancellers -> CancelState]
    BY <1>8, <1>a DEF CancelClear, CancelPc
  <2> QED
    BY <1>0, <1>8, <2>2, <2>3 DEF CancelClear
<1>9. CASE CrashCancel(x)
  BY <1>9, <1>a, <1>b DEF CrashCancel, CancelPc
<1> QED
  BY <1>1, <1>2, <1>3, <1>4, <1>5, <1>6, <1>7, <1>8, <1>9 DEF CancelNext, CancelStep

\* The counts of OnJobStatusChange: what has failed is done, and at most all
\* jobs are done.
LEMMA CountsOrdered ==
    LET done == Cardinality(JobsIn(JobStatus \ ActiveStatus))
        failed == Cardinality(JobsIn({"failed"}))
    IN  done \in Nat /\ failed \in Nat /\ failed <= done /\ done <= NJobs
<1>1. JobsIn({"failed"}) \subseteq JobsIn(JobStatus \ ActiveStatus)
  BY DEF JobsIn, JobStatus, ActiveStatus
<1>2. JobsIn({"failed"}) \in SUBSET Jobs /\ JobsIn(JobStatus \ ActiveStatus) \in SUBSET Jobs
  BY DEF JobsIn
<1>3. Cardinality(JobsIn({"failed"})) <= Cardinality(JobsIn(JobStatus \ ActiveStatus))
  BY <1>1, <1>2, JobsFinite, FS_Subset
<1> QED
  BY <1>2, <1>3, JobsFinite

\* The row that OnJobStatusChange makes is a row.
LEMMA RecountType ==
    ASSUME NEW b \in BatchRow, NEW d \in Nat, NEW f \in Nat
    PROVE  Recount(b, d, f) \in BatchRow
BY DEF Recount, BatchRow, BatchStatus

\* Every step of a consumer keeps the types.
LEMMA ConsumerType ==
    ASSUME TypeOK, NEW k \in Consumers, ConsumerNext(k)
    PROVE  TypeOK'
<1> USE DEF TypeOK, StoreTypeOK
<1>0. cons[k] \in ConsumerState /\ UNCHANGED <<conf, canc, rest, cong>>
  BY DEF ConsumerNext
<1>a. ConsumerIdle \in ConsumerState
  BY NoRowType DEF ConsumerIdle, ConsumerState, ConsumerPc
<1>b. ASSUME cons' \in [Consumers -> ConsumerState], UNCHANGED storeVars
      PROVE  TypeOK'
  BY <1>0, <1>b DEF storeVars
<1>1. CASE Poll(k)
  <2>1. PICK m \in ResultMessage :
           /\ resultTopic' = resultTopic \ {m}
           /\ cons' = [cons EXCEPT ![k].pc = "job", ![k].msg = {m}]
    BY <1>1 DEF Poll
  <2>2. cons' \in [Consumers -> ConsumerState]
    BY <1>0, <2>1 DEF ConsumerState, ConsumerPc
  <2> QED
    BY <1>0, <1>1, <2>1, <2>2 DEF Poll
<1>2. CASE StopConsumer(k)
  <2>1. cons' \in [Consumers -> ConsumerState]
    BY <1>0, <1>2 DEF StopConsumer, ConsumerState, ConsumerPc
  <2> QED
    BY <1>2, <2>1, <1>b DEF StopConsumer
<1>3. CASE StoreResult(k)
  <2>1. cons' \in [Consumers -> ConsumerState]
    BY <1>0, <1>3 DEF StoreResult, ConsumerState, ConsumerPc
  <2>2. PICK m \in ResultMessage, out \in DbCall : UpdateStatusWithResult(out.done, m)
    BY <1>0, <1>3 DEF StoreResult, ConsumerState
  <2>3. m.job \in Jobs /\ m.status \in Outcome /\ m.tx \in SUBSET Tx
    BY <2>2 DEF ResultMessage
  <2>4. ResultRow(m) \in JobRow
    BY <2>3 DEF ResultRow, ValidTx, JobRow, Outcome, JobStatus
  <2>5. jobs' \in [Jobs -> JobRow] /\ outcomes' \in [Jobs -> SUBSET Outcome]
    <3>1. CASE out.done
      BY <2>2, <2>3, <2>4, <3>1 DEF UpdateStatusWithResult
    <3>2. CASE ~out.done
      BY <2>2, <3>2 DEF UpdateStatusWithResult
    <3> QED
      BY <3>1, <3>2
  <2> QED
    BY <1>0, <1>3, <2>1, <2>5 DEF StoreResult
<1>4. CASE CountJobs(k)
  <2>1. PICK d \in Nat, f \in Nat :
           \/ cons' = [cons EXCEPT ![k].pc = "row", ![k].done = d, ![k].failed = f]
           \/ cons' = [cons EXCEPT ![k] = ConsumerIdle]
    BY <1>4, CountsOrdered DEF CountJobs
  <2>2. cons' \in [Consumers -> ConsumerState]
    BY <1>0, <1>a, <2>1 DEF ConsumerState, ConsumerPc
  <2> QED
    BY <1>4, <2>2, <1>b DEF CountJobs
<1>5. CASE LoadBatch(k)
  <2>1. Recount(batch, cons[k].done, cons[k].failed) \in BatchRow
    BY <1>0, RecountType DEF ConsumerState
  <2>2. PICK b \in BatchRow :
           \/ cons' = [cons EXCEPT ![k].pc = "save", ![k].row = b]
           \/ cons' = [cons EXCEPT ![k] = ConsumerIdle]
    BY <1>5, <2>1 DEF LoadBatch
  <2>3. cons' \in [Consumers -> ConsumerState]
    BY <1>0, <1>a, <2>2 DEF ConsumerState, ConsumerPc
  <2> QED
    BY <1>5, <2>3, <1>b DEF LoadBatch
<1>6. CASE SaveBatch(k)
  <2>1. batch' \in BatchRow
    BY <1>0, <1>6, UpdateBatchType DEF SaveBatch, ConsumerState
  <2> QED
    BY <1>0, <1>6, <1>a, <2>1 DEF SaveBatch
<1>7. CASE CrashConsumer(k)
  BY <1>7, <1>a, <1>b DEF CrashConsumer
<1> QED
  BY <1>1, <1>2, <1>3, <1>4, <1>5, <1>6, <1>7 DEF ConsumerNext, ConsumerStep

\* Every step of a restart keeps the types.
LEMMA RestartType ==
    ASSUME TypeOK, NEW r \in Restarters, RestartNext(r)
    PROVE  TypeOK'
<1> USE DEF TypeOK, StoreTypeOK
<1>0. rest[r] \in RestartState /\ UNCHANGED <<conf, canc, cons>> /\ r \in Publisher
  BY DEF RestartNext, Publisher
<1>a. ASSUME NEW pc \in RestartPc, RestartAnswer(r, pc)
      PROVE  rest' \in [Restarters -> RestartState]
  BY <1>a, NoRowType DEF RestartAnswer, RestartFresh, RestartState
<1>b. ASSUME rest' \in [Restarters -> RestartState], UNCHANGED cong, UNCHANGED storeVars
      PROVE  TypeOK'
  BY <1>0, <1>b DEF storeVars
<1>1. CASE StartRestart(r) \/ RestartEndLoop(r)
  <2>1. rest' \in [Restarters -> RestartState]
    BY <1>0, <1>1 DEF StartRestart, RestartEndLoop, RestartState, RestartPc
  <2> QED
    BY <1>1, <2>1, <1>b DEF StartRestart, RestartEndLoop, RestartAt
<1>2. CASE RestartJobs(r)
  <2>1. ASSUME NEW todo \in SUBSET Jobs,
               rest' = [rest EXCEPT ![r].pc = "next", ![r].todo = todo]
        PROVE  rest' \in [Restarters -> RestartState]
    BY <1>0, <2>1 DEF RestartState, RestartPc
  <2>2. \/ RestartAnswer(r, "failed")
        \/ \E todo \in SUBSET Jobs :
               rest' = [rest EXCEPT ![r].pc = "next", ![r].todo = todo]
    BY <1>2 DEF RestartJobs
  <2>3. rest' \in [Restarters -> RestartState]
    BY <2>1, <2>2, <1>a DEF RestartPc
  <2> QED
    BY <1>2, <2>3, <1>b DEF RestartJobs, RestartAt
<1>3. CASE RestartPublish(r)
  <2>1. PICK j \in rest[r].todo, out \in PublishOutcome :
           /\ Publish(r, j, {}, out.copies)
           /\ rest' = [rest EXCEPT ![r].pc = IF out.ok THEN "mark" ELSE "next",
                                   ![r].todo = @ \ {j},
                                   ![r].job = IF out.ok THEN {j} ELSE {}]
    BY <1>3 DEF RestartPublish
  <2>2. j \in Jobs
    BY <1>0 DEF RestartState
  <2> DEFINE pc  == IF out.ok THEN "mark" ELSE "next"
             job == IF out.ok THEN {j} ELSE {}
  <2>3. /\ pc \in RestartPc /\ job \in SUBSET Jobs
        /\ rest' = [rest EXCEPT ![r].pc = pc, ![r].todo = @ \ {j}, ![r].job = job]
    BY <2>1, <2>2 DEF RestartPc
  <2> HIDE DEF pc, job
  <2>4. rest' \in [Restarters -> RestartState]
    BY <1>0, <2>3 DEF RestartState
  <2>5. jobTopic' \subseteq JobMessage /\ published' \subseteq Publisher \X Jobs
    BY <1>0, <2>1, <2>2, PublishType
  <2> QED
    BY <1>0, <1>3, <2>4, <2>5 DEF RestartPublish, RestartAt
<1>4. CASE RestartMark(r)
  <2>1. rest' \in [Restarters -> RestartState]
    BY <1>0, <1>4 DEF RestartMark, RestartState, RestartPc
  <2>2. jobs' \in [Jobs -> JobRow]
    BY <1>4, UpdateStatusType DEF RestartMark, JobStatus
  <2> QED
    BY <1>0, <1>4, <2>1, <2>2 DEF RestartMark, RestartAt
<1>5. CASE RestartLoad(r)
  <2>1. ASSUME rest' = [rest EXCEPT ![r].pc = "save",
                                    ![r].row = [batch EXCEPT !.status = "processing"]]
        PROVE  rest' \in [Restarters -> RestartState]
    <3>1. [batch EXCEPT !.status = "processing"] \in BatchRow
      BY DEF BatchRow, BatchStatus
    <3> QED
      BY <1>0, <2>1, <3>1 DEF RestartState, RestartPc
  <2>2. rest' \in [Restarters -> RestartState]
    BY <1>5, <2>1, <1>a DEF RestartLoad, RestartPc
  <2> QED
    BY <1>5, <2>2, <1>b DEF RestartLoad, RestartAt
<1>6. CASE RestartSave(r)
  <2>1. batch' \in BatchRow
    BY <1>0, <1>6, UpdateBatchType DEF RestartSave, RestartState
  <2>2. rest' \in [Restarters -> RestartState]
    BY <1>6, <1>a DEF RestartSave, RestartPc
  <2> QED
    BY <1>0, <1>6, <2>1, <2>2 DEF RestartSave, RestartAt
<1>7. CASE CrashRestart(r)
  BY <1>7, <1>a, <1>b DEF CrashRestart, RestartAt, RestartPc
<1> QED
  BY <1>1, <1>2, <1>3, <1>4, <1>5, <1>6, <1>7 DEF RestartNext, RestartStep

\* Every step of a configuration request keeps the types.
LEMMA ConfigType ==
    ASSUME TypeOK, NEW g \in Configurers, ConfigNext(g)
    PROVE  TypeOK'
<1> USE DEF TypeOK, StoreTypeOK
<1>0. cong[g] \in ConfigState /\ UNCHANGED <<conf, canc, cons>>
  BY DEF ConfigNext
<1>a. ASSUME NEW pc \in {"idle", "load", "save", "done", "failed", "crashed"},
             ConfigAnswer(g, pc)
      PROVE  cong' \in [Configurers -> ConfigState]
  BY <1>a, NoRowType DEF ConfigAnswer, ConfigFresh, ConfigState
<1>b. ASSUME cong' \in [Configurers -> ConfigState], UNCHANGED rest, UNCHANGED storeVars
      PROVE  TypeOK'
  BY <1>0, <1>b DEF storeVars
<1>1. CASE StartConfig(g)
  <2>1. cong' \in [Configurers -> ConfigState]
    BY <1>0, <1>1 DEF StartConfig, ConfigState
  <2> QED
    BY <1>1, <2>1, <1>b DEF StartConfig, ConfigAt
<1>2. CASE ConfigLoad(g)
  <2>1. ASSUME cong' = [cong EXCEPT ![g].pc = "save",
                                    ![g].row = [batch EXCEPT !.config = TRUE]]
        PROVE  cong' \in [Configurers -> ConfigState]
    <3>1. [batch EXCEPT !.config = TRUE] \in BatchRow
      BY DEF BatchRow
    <3> QED
      BY <1>0, <2>1, <3>1 DEF ConfigState
  <2>2. cong' \in [Configurers -> ConfigState]
    BY <1>2, <2>1, <1>a DEF ConfigLoad
  <2> QED
    BY <1>2, <2>2, <1>b DEF ConfigLoad, ConfigAt
<1>3. CASE ConfigSave(g)
  <2>1. batch' \in BatchRow
    BY <1>0, <1>3, UpdateBatchType DEF ConfigSave, ConfigState
  <2>2. cong' \in [Configurers -> ConfigState]
    <3>1. PICK out \in DbCall : ConfigAnswer(g, IF out.ok THEN "done" ELSE "failed")
      BY <1>3 DEF ConfigSave
    <3> QED
      BY <3>1, <1>a
  <2> QED
    BY <1>0, <1>3, <2>1, <2>2 DEF ConfigSave, ConfigAt
<1>4. CASE CrashConfig(g)
  BY <1>4, <1>a, <1>b DEF CrashConfig, ConfigAt
<1> QED
  BY <1>1, <1>2, <1>3, <1>4 DEF ConfigNext, ConfigStep

\* Generation keeps the types.
LEMMA GenerateType ==
    ASSUME TypeOK, GenerateNext
    PROVE  TypeOK'
<1> USE DEF TypeOK, StoreTypeOK
<1>1. PICK m \in jobTopic, s \in Outcomes, back \in TxReported :
         /\ jobTopic' = jobTopic \ {m}
         /\ resultTopic' = resultTopic \cup
               {[job |-> m.job, tx |-> IF back THEN m.tx ELSE {},
                 from |-> m.from, copy |-> m.copy, status |-> s]}
  BY DEF GenerateNext, Generate
<1>2. m \in JobMessage /\ s \in Outcome
  BY ResultsAssumption
<1>3. [job |-> m.job, tx |-> IF back THEN m.tx ELSE {}, from |-> m.from,
       copy |-> m.copy, status |-> s] \in ResultMessage
  BY <1>2 DEF JobMessage, ResultMessage
<1>4. jobTopic' \subseteq JobMessage /\ resultTopic' \subseteq ResultMessage
  BY <1>1, <1>3
<1> QED
  BY <1>4 DEF GenerateNext, Generate, localVars

---------------------------------------------------------------------------
(***************************************************************************)
(* What the steps of a confirmation do to its local variables, in the form *)
(* in which the invariants use it.                                         *)
(***************************************************************************)
LEMMA AnswerFields ==
    ASSUME TypeOK, NEW c \in Confirmers, NEW pc \in ConfirmPc, Answer(c, pc)
    PROVE  /\ conf'[c].pc = pc /\ conf'[c].row = NoRow
           /\ conf'[c].ids = 0 /\ conf'[c].assigned = {}
<1> DEFINE t == [ConfirmFresh EXCEPT !.pc = pc, !.action = conf[c].action]
<1>1. t.pc = pc /\ t.row = NoRow /\ t.ids = 0 /\ t.assigned = {}
  BY DEF ConfirmFresh
<1>2. conf' = [conf EXCEPT ![c] = t]
  BY DEF Answer
<1> HIDE DEF t
<1> QED
  BY <1>1, <1>2 DEF TypeOK

LEMMA GotoFields ==
    ASSUME TypeOK, NEW c \in Confirmers, NEW pc \in ConfirmPc, Goto(c, pc)
    PROVE  /\ conf'[c].pc = pc /\ conf'[c].pos = conf[c].pos
           /\ conf'[c].count = conf[c].count /\ conf'[c].order = conf[c].order
           /\ conf'[c].row = conf[c].row /\ conf'[c].ids = conf[c].ids
           /\ conf'[c].assigned = conf[c].assigned
BY DEF TypeOK, Goto, ConfirmState

\* A request moves by itself only.
LEMMA ConfirmOthers ==
    ASSUME TypeOK, NEW c \in Confirmers, ConfirmNext(c), NEW d \in Confirmers, d # c
    PROVE  conf'[d] = conf[d]
BY DEF TypeOK, ConfirmNext, StartConfirm, ConfirmStep, CrashConfirm, CheckApproved,
   BlockBatch, LoadForTx, SaveTx, GetJobs, NextJob, PublishJob, MarkQueued, EndLoop,
   RefundAssigned, LoadForCancel, SaveCancelled, MarkRefunded, EndRollback, Goto, Answer

Rollback == {"refund", "loadRow", "saveRow", "unqueued"}

\* The moves of a confirmation from one program counter to another.
Move(c, from, to) ==
    /\ conf[c].pc \in from
    /\ conf'[c].pc \in to

Still(c) ==
    /\ conf'[c].pos = conf[c].pos
    /\ conf'[c].count = conf[c].count
    /\ conf'[c].order = conf[c].order

Turn(c) ==
    /\ conf'[c].pc = "next"
    /\ conf'[c].pos = conf[c].pos + 1
    /\ conf'[c].count = conf[c].count

LEMMA ConfirmMoves ==
    ASSUME TypeOK, NEW c \in Confirmers, ConfirmNext(c)
    PROVE  \/ conf'[c].pc \in Ended \cup Rollback
           \/ Move(c, {"idle"}, {"check"}) /\ conf'[c].pos = conf[c].pos
           \/ Move(c, {"check"}, {"block"}) /\ Still(c)
           \/ BlockBatch(c) /\ Move(c, {"block"}, {"loadTx", "jobs"}) /\ Still(c)
              /\ (conf'[c].pc = "loadTx" => WithBlockFunc)
              /\ reserved' = [reserved EXCEPT ![c] = conf[c].count]
           \/ Move(c, {"loadTx"}, {"saveTx", "jobs"}) /\ Still(c)
           \/ Move(c, {"saveTx"}, {"jobs"}) /\ Still(c)
           \/ Move(c, {"jobs"}, {"next"}) /\ conf'[c].pos = conf[c].pos
              /\ conf'[c].count = conf[c].count
           \/ NextJob(c) /\ Move(c, {"next"}, {"publish"}) /\ Still(c)
           \/ PublishJob(c) /\ Move(c, {"publish"}, {"mark"}) /\ Still(c)
           \/ PublishJob(c) /\ Move(c, {"publish"}, {"next"}) /\ Turn(c)
           \/ MarkQueued(c) /\ Move(c, {"mark"}, {"next"}) /\ Turn(c)
<1> USE DEF Move, Still, Turn, Ended, Rollback
<1>0. conf \in [Confirmers -> ConfirmState]
  BY DEF TypeOK
<1>1. CASE StartConfirm(c)
  BY <1>0, <1>1 DEF StartConfirm, ConfirmState
<1>2. CASE CheckApproved(c)
  BY <1>2, AnswerFields, GotoFields DEF CheckApproved, ConfirmPc
<1>3. CASE BlockBatch(c)
  <2>1. PICK out \in BillingCall, k \in TxCounts :
           /\ reserved' = IF out.done THEN [reserved EXCEPT ![c] = conf[c].count]
                          ELSE reserved
           /\ IF out.ok
              THEN conf' = [conf EXCEPT
                      ![c].ids = k,
                      ![c].pc = IF WithBlockFunc /\ k > 0 THEN "loadTx" ELSE "jobs"]
              ELSE Answer(c, "rejected")
    BY <1>3 DEF BlockBatch
  <2>2. CASE ~out.ok
    BY <2>1, <2>2, AnswerFields DEF ConfirmPc
  <2>3. CASE out.ok /\ WithBlockFunc /\ k > 0
    <3>1. conf' = [conf EXCEPT ![c].ids = k, ![c].pc = "loadTx"]
      BY <2>1, <2>3
    <3>2. reserved' = [reserved EXCEPT ![c] = conf[c].count]
      BY <2>1, <2>3, CallType
    <3>3. conf'[c].pc = "loadTx" /\ Still(c)
      BY <1>0, <3>1 DEF ConfirmState
    <3> QED
      BY <1>3, <2>3, <3>2, <3>3 DEF BlockBatch
  <2>4. CASE out.ok /\ ~(WithBlockFunc /\ k > 0)
    <3>1. conf' = [conf EXCEPT ![c].ids = k, ![c].pc = "jobs"]
      BY <2>1, <2>4
    <3>2. reserved' = [reserved EXCEPT ![c] = conf[c].count]
      BY <2>1, <2>4, CallType
    <3>3. conf'[c].pc = "jobs" /\ Still(c)
      BY <1>0, <3>1 DEF ConfirmState
    <3> QED
      BY <1>3, <3>2, <3>3 DEF BlockBatch
  <2> QED
    BY <2>2, <2>3, <2>4
<1>4. CASE LoadForTx(c)
  <2>1. CASE conf' = [conf EXCEPT ![c].pc = "saveTx", ![c].row = batch]
    BY <1>0, <1>4, <2>1 DEF LoadForTx, ConfirmState
  <2>2. CASE Goto(c, "jobs")
    BY <1>4, <2>2, GotoFields DEF LoadForTx, ConfirmPc
  <2> QED
    BY <1>4, <2>1, <2>2 DEF LoadForTx
<1>5. CASE SaveTx(c)
  BY <1>0, <1>5 DEF SaveTx, ConfirmState
<1>6. CASE GetJobs(c)
  <2>1. CASE \E o \in JobOrders : conf' = [conf EXCEPT ![c].pc = "next", ![c].order = o]
    BY <1>0, <1>6, <2>1 DEF GetJobs, ConfirmState
  <2>2. CASE Answer(c, "rejected")
    BY <2>2, AnswerFields DEF ConfirmPc
  <2> QED
    BY <1>6, <2>1, <2>2 DEF GetJobs
<1>7. CASE NextJob(c)
  <2>1. \E tx : conf' = [conf EXCEPT ![c].pc = "publish", ![c].assigned = @ \cup tx]
    BY <1>7 DEF NextJob
  <2> QED
    BY <1>0, <1>7, <2>1 DEF NextJob, ConfirmState
<1>8. CASE PublishJob(c)
  <2>1. CASE conf' = [conf EXCEPT ![c].pc = "mark"]
    BY <1>0, <1>8, <2>1 DEF PublishJob, ConfirmState
  <2>2. CASE conf' = [conf EXCEPT ![c].pc = "next", ![c].pos = @ + 1, ![c].perr = TRUE]
    BY <1>0, <1>8, <2>2 DEF PublishJob, ConfirmState
  <2> QED
    BY <1>8, <2>1, <2>2 DEF PublishJob
<1>9. CASE MarkQueued(c)
  <2>1. PICK q :
           conf' = [conf EXCEPT ![c].pc = "next", ![c].pos = @ + 1, ![c].queued = q]
    BY <1>9 DEF MarkQueued
  <2>2. conf[c].pc = "mark" /\ Turn(c) /\ conf'[c].pc = "next"
    BY <1>0, <1>9, <2>1 DEF MarkQueued, ConfirmState
  <2> QED
    BY <1>9, <2>2
<1>10. CASE EndLoop(c)
  BY <1>10, AnswerFields, GotoFields DEF EndLoop, ConfirmPc
<1>11. CASE RefundAssigned(c)
  BY <1>11, GotoFields DEF RefundAssigned, ConfirmPc
<1>12. CASE LoadForCancel(c)
  <2>1. PICK ok \in ReadOk :
          conf' = [conf EXCEPT ![c].pc = IF ok THEN "saveRow" ELSE "unqueued",
                               ![c].row = IF ok THEN batch ELSE @,
                               ![c].pos = conf[c].queued + 1]
    BY <1>12 DEF LoadForCancel
  <2> DEFINE pc == IF ok THEN "saveRow" ELSE "unqueued"
             b  == IF ok THEN batch ELSE conf[c].row
             n  == conf[c].queued + 1
  <2>2. pc \in {"saveRow", "unqueued"}
        /\ conf' = [conf EXCEPT ![c].pc = pc, ![c].row = b, ![c].pos = n]
    BY <2>1
  <2> HIDE DEF pc, b, n
  <2> QED
    BY <1>0, <2>2 DEF ConfirmState
<1>13. CASE SaveCancelled(c)
  BY <1>0, <1>13 DEF SaveCancelled, ConfirmState
<1>14. CASE MarkRefunded(c)
  BY <1>0, <1>14 DEF MarkRefunded, ConfirmState
<1>15. CASE EndRollback(c) \/ CrashConfirm(c)
  BY <1>15, AnswerFields DEF EndRollback, CrashConfirm, ConfirmPc
<1> QED
  BY <1>1, <1>2, <1>3, <1>4, <1>5, <1>6, <1>7, <1>8, <1>9, <1>10, <1>11, <1>12,
     <1>13, <1>14, <1>15 DEF ConfirmNext, ConfirmStep

\* A confirmation enters the body of the loop at a requested position only.
LEMMA LoopStep ==
    ASSUME TypeOK, LoopInv, [Next]_vars
    PROVE  LoopInv'
<1>1. ASSUME NEW c \in Confirmers, ConfirmNext(c), NEW d \in Confirmers,
             conf'[d].pc \in {"publish", "mark"}
      PROVE  conf'[d].pos <= LastPos(d)'
  <2>1. CASE d # c
    BY <1>1, <2>1, ConfirmOthers DEF LoopInv, LastPos
  <2>2. CASE d = c
    <3>1. Still(c) /\ conf[c].pos <= LastPos(c)
      BY <1>1, <2>2, ConfirmMoves DEF Move, Turn, Ended, Rollback, NextJob, LoopInv
    <3> QED
      BY <2>2, <3>1 DEF Still, LastPos
  <2> QED
    BY <2>1, <2>2
<1>2. ASSUME UNCHANGED conf
      PROVE  LoopInv'
  BY <1>2 DEF LoopInv, LastPos
<1> QED
  BY <1>1, <1>2 DEF LoopInv, Next, vars, localVars, CancelNext, ConsumerNext,
     RestartNext, ConfigNext, GenerateNext

\* The initial values have their types, and nobody is in the loop.
LEMMA TypeInit == Init => TypeOK /\ LoopInv
<1> SUFFICES ASSUME Init PROVE TypeOK /\ LoopInv
  OBVIOUS
<1> USE DEF Init
<1>1. StoreTypeOK
  <2>1. batch \in BatchRow
    BY UploadedType, NJobsAssumption DEF StoreInit, BatchStatus
  <2>2. jobs \in [Jobs -> JobRow]
    BY DEF StoreInit, JobRow, JobStatus
  <2> QED
    BY <2>1, <2>2 DEF StoreInit, StoreTypeOK
<1>2. /\ conf \in [Confirmers -> ConfirmState]
      /\ \A c \in Confirmers : conf[c].pc = "idle"
  BY ConfirmFreshType DEF ConfirmInit, ConfirmFresh
<1>3. canc \in [Cancellers -> CancelState]
  BY NoRowType DEF CancelInit, CancelFresh, CancelState, CancelPc
<1>4. cons \in [Consumers -> ConsumerState]
  BY NoRowType DEF ConsumerInit, ConsumerIdle, ConsumerState, ConsumerPc
<1>5. rest \in [Restarters -> RestartState] /\ cong \in [Configurers -> ConfigState]
  BY NoRowType DEF AdminInit, RestartFresh, ConfigFresh, RestartState, RestartPc,
     ConfigState
<1> QED
  BY <1>1, <1>2, <1>3, <1>4, <1>5 DEF TypeOK, LoopInv

\* Every step keeps the types; the loop bound is what keeps CurrentJob a job.
LEMMA TypeStep ==
    ASSUME TypeOK, LoopInv, [Next]_vars
    PROVE  TypeOK'
<1>1. CASE UNCHANGED vars
  BY <1>1 DEF vars, storeVars, localVars, TypeOK, StoreTypeOK
<1>2. CASE Next
  BY <1>2, ConfirmType, CancelType, ConsumerType, RestartType, ConfigType,
     GenerateType DEF Next
<1> QED
  BY <1>1, <1>2

---------------------------------------------------------------------------
(***************************************************************************)
(* The batch row.  Every writer puts back a copy of the whole row, so it   *)
(* is enough that all copies are consistent, and the counts that go into   *)
(* the next copy.                                                          *)
(***************************************************************************)

\* A confirmation's copy of the row is its old one, the present row or none.
LEMMA ConfirmRow ==
    ASSUME TypeOK, NEW c \in Confirmers, ConfirmNext(c)
    PROVE  conf'[c].row \in {conf[c].row, batch, NoRow}
<1>0. conf \in [Confirmers -> ConfirmState]
  BY DEF TypeOK
<1>1. CASE \/ CheckApproved(c) \/ EndLoop(c) \/ RefundAssigned(c)
           \/ EndRollback(c) \/ CrashConfirm(c)
  BY <1>1, AnswerFields, GotoFields DEF CheckApproved, EndLoop, RefundAssigned,
     EndRollback, CrashConfirm, ConfirmPc
<1>2. CASE StartConfirm(c) \/ SaveTx(c) \/ SaveCancelled(c) \/ MarkRefunded(c)
  <2>1. CASE StartConfirm(c)
    <3>1. \E a, n : conf' = [conf EXCEPT ![c].pc = "check", ![c].action = a, ![c].count = n]
      BY <2>1 DEF StartConfirm
    <3> QED
      BY <1>0, <3>1 DEF ConfirmState
  <2>2. CASE SaveTx(c) \/ SaveCancelled(c)
    <3>1. \E pc : conf' = [conf EXCEPT ![c].pc = pc, ![c].row = NoRow]
      BY <2>2 DEF SaveTx, SaveCancelled
    <3> QED
      BY <1>0, <3>1 DEF ConfirmState
  <2>3. CASE MarkRefunded(c)
    <3>1. conf' = [conf EXCEPT ![c].pos = @ + 1]
      BY <2>3 DEF MarkRefunded
    <3> QED
      BY <1>0, <3>1 DEF ConfirmState
  <2> QED
    BY <1>2, <2>1, <2>2, <2>3
<1>3. CASE BlockBatch(c)
  <2>1. \/ Answer(c, "rejected")
        \/ \E k, pc : conf' = [conf EXCEPT ![c].ids = k, ![c].pc = pc]
    BY <1>3 DEF BlockBatch
  <2>2. CASE Answer(c, "rejected")
    BY <2>2, AnswerFields DEF ConfirmPc
  <2>3. CASE \E k, pc : conf' = [conf EXCEPT ![c].ids = k, ![c].pc = pc]
    BY <1>0, <2>3 DEF ConfirmState
  <2> QED
    BY <2>1, <2>2, <2>3
<1>4. CASE LoadForTx(c)
  <2>1. Goto(c, "jobs") \/ conf' = [conf EXCEPT ![c].pc = "saveTx", ![c].row = batch]
    BY <1>4 DEF LoadForTx
  <2> QED
    BY <1>0, <2>1, GotoFields DEF ConfirmState, ConfirmPc
<1>5. CASE GetJobs(c)
  <2>1. \/ Answer(c, "rejected")
        \/ \E o : conf' = [conf EXCEPT ![c].pc = "next", ![c].order = o]
    BY <1>5 DEF GetJobs
  <2> QED
    BY <1>0, <2>1, AnswerFields DEF ConfirmState, ConfirmPc
<1>6. CASE NextJob(c)
  <2>1. \E tx : conf' = [conf EXCEPT ![c].pc = "publish", ![c].assigned = @ \cup tx]
    BY <1>6 DEF NextJob
  <2> QED
    BY <1>0, <2>1 DEF ConfirmState
<1>7. CASE PublishJob(c)
  <2>1. \/ conf' = [conf EXCEPT ![c].pc = "mark"]
        \/ conf' = [conf EXCEPT ![c].pc = "next", ![c].pos = @ + 1, ![c].perr = TRUE]
    BY <1>7 DEF PublishJob
  <2> QED
    BY <1>0, <2>1 DEF ConfirmState
<1>8. CASE MarkQueued(c)
  <2>1. \E q : conf' = [conf EXCEPT ![c].pc = "next", ![c].pos = @ + 1, ![c].queued = q]
    BY <1>8 DEF MarkQueued
  <2> QED
    BY <1>0, <2>1 DEF ConfirmState
<1>9. CASE LoadForCancel(c)
  <2>1. PICK ok \in ReadOk :
          conf' = [conf EXCEPT ![c].pc = IF ok THEN "saveRow" ELSE "unqueued",
                               ![c].row = IF ok THEN batch ELSE @,
                               ![c].pos = conf[c].queued + 1]
    BY <1>9 DEF LoadForCancel
  <2> DEFINE pc == IF ok THEN "saveRow" ELSE "unqueued"
             b  == IF ok THEN batch ELSE conf[c].row
             n  == conf[c].queued + 1
  <2>2. b \in {batch, conf[c].row}
        /\ conf' = [conf EXCEPT ![c].pc = pc, ![c].row = b, ![c].pos = n]
    BY <2>1
  <2> HIDE DEF pc, b, n
  <2> QED
    BY <1>0, <2>2 DEF ConfirmState
<1> QED
  BY <1>1, <1>2, <1>3, <1>4, <1>5, <1>6, <1>7, <1>8, <1>9 DEF ConfirmNext, ConfirmStep

\* So are the copies of the other requests, but for the column they change.
LEMMA CancelRow ==
    ASSUME TypeOK, NEW x \in Cancellers, CancelNext(x)
    PROVE  /\ \A y \in Cancellers : y # x => canc'[y] = canc[y]
           /\ canc'[x].row \in {canc[x].row, [batch EXCEPT !.status = "cancelled"], NoRow}
<1>0. canc \in [Cancellers -> CancelState]
  BY DEF TypeOK
<1>1. ASSUME NEW pc, CancelGoto(x, pc) \/ CancelAnswer(x, pc)
      PROVE  /\ \A y \in Cancellers : y # x => canc'[y] = canc[y]
             /\ canc'[x].row \in {canc[x].row, NoRow}
  BY <1>0, <1>1 DEF CancelGoto, CancelAnswer, CancelFresh, CancelState
<1>2. CASE CancelLoad(x)
  <2>1. \/ CancelAnswer(x, "failed")
        \/ canc' = [canc EXCEPT ![x].pc = "save",
                                ![x].row = [batch EXCEPT !.status = "cancelled"]]
    BY <1>2 DEF CancelLoad
  <2> QED
    BY <1>0, <1>1, <2>1 DEF CancelState
<1>3. CASE CancelJobs(x)
  <2>1. \E pc, todo : canc' = [canc EXCEPT ![x].pc = pc, ![x].todo = todo]
    BY <1>3 DEF CancelJobs
  <2> QED
    BY <1>0, <2>1 DEF CancelState
<1>4. CASE CancelMark(x)
  BY <1>0, <1>4 DEF CancelMark, CancelState
<1>5. CASE CancelSave(x)
  <2>1. \E pc : CancelGoto(x, pc) \/ CancelAnswer(x, pc)
    BY <1>5 DEF CancelSave
  <2> QED
    BY <1>1, <2>1
<1>6. CASE CancelRefund(x)
  BY <1>1, <1>6 DEF CancelRefund
<1>7. CASE StartCancel(x) \/ CancelMarked(x) \/ CancelClear(x) \/ CrashCancel(x)
  BY <1>1, <1>7 DEF StartCancel, CancelMarked, CancelClear, CrashCancel
<1> QED
  BY <1>2, <1>3, <1>4, <1>5, <1>6, <1>7 DEF CancelNext, CancelStep

LEMMA RestartRow ==
    ASSUME TypeOK, NEW r \in Restarters, RestartNext(r)
    PROVE  /\ \A y \in Restarters : y # r => rest'[y] = rest[y]
           /\ rest'[r].row \in {rest[r].row, [batch EXCEPT !.status = "processing"], NoRow}
           /\ UNCHANGED cong
<1>0. rest \in [Restarters -> RestartState]
  BY DEF TypeOK
<1>1. ASSUME NEW pc, RestartAnswer(r, pc)
      PROVE  /\ \A y \in Restarters : y # r => rest'[y] = rest[y]
             /\ rest'[r].row = NoRow
  BY <1>0, <1>1 DEF RestartAnswer, RestartFresh, RestartState
<1>2. CASE StartRestart(r) \/ RestartEndLoop(r) \/ RestartMark(r)
  BY <1>0, <1>2 DEF StartRestart, RestartEndLoop, RestartMark, RestartState, RestartAt
<1>3. CASE RestartJobs(r)
  <2>1. \/ RestartAnswer(r, "failed")
        \/ \E todo : rest' = [rest EXCEPT ![r].pc = "next", ![r].todo = todo]
    BY <1>3 DEF RestartJobs
  <2> QED
    BY <1>0, <1>1, <1>3, <2>1 DEF RestartState, RestartJobs, RestartAt
<1>4. CASE RestartPublish(r)
  <2>1. \E pc, todo, job :
           rest' = [rest EXCEPT ![r].pc = pc, ![r].todo = todo, ![r].job = job]
    BY <1>4 DEF RestartPublish
  <2> QED
    BY <1>0, <1>4, <2>1 DEF RestartState, RestartPublish, RestartAt
<1>5. CASE RestartLoad(r)
  <2>1. \/ RestartAnswer(r, "done")
        \/ rest' = [rest EXCEPT ![r].pc = "save",
                                ![r].row = [batch EXCEPT !.status = "processing"]]
    BY <1>5 DEF RestartLoad
  <2> QED
    BY <1>0, <1>1, <1>5, <2>1 DEF RestartState, RestartLoad, RestartAt
<1>6. CASE RestartSave(r) \/ CrashRestart(r)
  BY <1>1, <1>6 DEF RestartSave, CrashRestart, RestartAt
<1> QED
  BY <1>2, <1>3, <1>4, <1>5, <1>6 DEF RestartNext, RestartStep

LEMMA ConfigRow ==
    ASSUME TypeOK, NEW g \in Configurers, ConfigNext(g)
    PROVE  /\ \A y \in Configurers : y # g => cong'[y] = cong[y]
           /\ cong'[g].row \in {cong[g].row, [batch EXCEPT !.config = TRUE], NoRow}
           /\ UNCHANGED rest
<1>0. cong \in [Configurers -> ConfigState]
  BY DEF TypeOK
<1>1. ASSUME NEW pc, ConfigAnswer(g, pc)
      PROVE  /\ \A y \in Configurers : y # g => cong'[y] = cong[y]
             /\ cong'[g].row = NoRow
  BY <1>0, <1>1 DEF ConfigAnswer, ConfigFresh, ConfigState
<1>2. CASE StartConfig(g)
  BY <1>0, <1>2 DEF StartConfig, ConfigState, ConfigAt
<1>3. CASE ConfigLoad(g)
  <2>1. \/ ConfigAnswer(g, "failed")
        \/ cong' = [cong EXCEPT ![g].pc = "save",
                                ![g].row = [batch EXCEPT !.config = TRUE]]
    BY <1>3 DEF ConfigLoad
  <2> QED
    BY <1>0, <1>1, <1>3, <2>1 DEF ConfigState, ConfigLoad, ConfigAt
<1>4. CASE ConfigSave(g) \/ CrashConfig(g)
  <2>1. \E pc : ConfigAnswer(g, pc)
    BY <1>4 DEF ConfigSave, CrashConfig
  <2> QED
    BY <1>1, <1>4, <2>1 DEF ConfigSave, CrashConfig, ConfigAt
<1> QED
  BY <1>2, <1>3, <1>4 DEF ConfigNext, ConfigStep

LEMMA ConsumerRow ==
    ASSUME TypeOK, NEW k \in Consumers, ConsumerNext(k)
    PROVE  /\ \A y \in Consumers : y # k => cons'[y] = cons[y]
           /\ cons'[k].row \in
                {cons[k].row, Recount(batch, cons[k].done, cons[k].failed), NoRow}
           /\ \/ cons'[k].done = cons[k].done /\ cons'[k].failed = cons[k].failed
              \/ cons'[k].done \in Nat /\ cons'[k].failed <= cons'[k].done
                 /\ cons'[k].done <= NJobs
<1>0. cons \in [Consumers -> ConsumerState]
  BY DEF TypeOK
<1>1. ASSUME cons' = [cons EXCEPT ![k] = ConsumerIdle]
      PROVE  /\ \A y \in Consumers : y # k => cons'[y] = cons[y]
             /\ cons'[k].row = NoRow /\ cons'[k].done = 0 /\ cons'[k].failed = 0
  BY <1>0, <1>1 DEF ConsumerIdle
<1>2. CASE Poll(k) \/ StopConsumer(k) \/ StoreResult(k)
  BY <1>0, <1>2 DEF Poll, StopConsumer, StoreResult, ConsumerState
<1>3. CASE CountJobs(k)
  <2>1. CASE cons' = [cons EXCEPT ![k] = ConsumerIdle]
    BY <1>1, <2>1, NJobsAssumption
  <2>2. ASSUME NEW d \in Nat, NEW f \in Nat, f <= d, d <= NJobs,
               cons' = [cons EXCEPT ![k].pc = "row", ![k].done = d, ![k].failed = f]
        PROVE  /\ \A y \in Consumers : y # k => cons'[y] = cons[y]
               /\ cons'[k].row = cons[k].row /\ cons'[k].done = d /\ cons'[k].failed = f
    BY <1>0, <2>2 DEF ConsumerState
  <2>3. \/ cons' = [cons EXCEPT ![k] = ConsumerIdle]
        \/ \E d, f \in Nat :
              /\ f <= d /\ d <= NJobs
              /\ cons' = [cons EXCEPT ![k].pc = "row", ![k].done = d, ![k].failed = f]
    BY <1>3, CountsOrdered DEF CountJobs
  <2> QED
    BY <2>1, <2>2, <2>3
<1>4. CASE LoadBatch(k)
  <2> DEFINE b == Recount(batch, cons[k].done, cons[k].failed)
  <2>1. \/ cons' = [cons EXCEPT ![k] = ConsumerIdle]
        \/ cons' = [cons EXCEPT ![k].pc = "save", ![k].row = b]
    BY <1>4 DEF LoadBatch
  <2> HIDE DEF b
  <2>2. CASE cons' = [cons EXCEPT ![k].pc = "save", ![k].row = b]
    BY <1>0, <2>2 DEF ConsumerState, b
  <2> QED
    BY <1>1, <2>1, <2>2, NJobsAssumption
<1>5. CASE SaveBatch(k) \/ CrashConsumer(k)
  BY <1>1, <1>5, NJobsAssumption DEF SaveBatch, CrashConsumer
<1> QED
  BY <1>2, <1>3, <1>4, <1>5 DEF ConsumerNext, ConsumerStep

\* Whoever writes the batch row writes his copy, with the columns he changes.
LEMMA BatchWrite ==
    ASSUME TypeOK, [Next]_vars
    PROVE  \/ batch' = batch
           \/ \E c \in Confirmers :
                 /\ conf[c].pc = "saveTx"
                 /\ batch' = ToPostgres([conf[c].row EXCEPT
                                           !.txs = {c} \X (1 .. conf[c].ids)])
           \/ \E c \in Confirmers :
                 batch' = ToPostgres([conf[c].row EXCEPT !.status = "cancelled"])
           \/ \E x \in Cancellers :
                 batch' \in {ToPostgres(canc[x].row),
                            ToPostgres([canc[x].row EXCEPT !.txs = {}])}
           \/ \E k \in Consumers : batch' = ToPostgres(cons[k].row)
           \/ \E r \in Restarters : batch' = ToPostgres(rest[r].row)
           \/ \E g \in Configurers : batch' = ToPostgres(cong[g].row)
<1> USE DEF UpdateBatch, storeVars
<1>1. ASSUME NEW c \in Confirmers, ConfirmNext(c)
      PROVE  \/ batch' = batch
             \/ /\ conf[c].pc = "saveTx"
                /\ batch' = ToPostgres([conf[c].row EXCEPT
                                           !.txs = {c} \X (1 .. conf[c].ids)])
             \/ batch' = ToPostgres([conf[c].row EXCEPT !.status = "cancelled"])
  BY <1>1 DEF ConfirmNext, StartConfirm, ConfirmStep, CrashConfirm, CheckApproved,
     BlockBatch, LoadForTx, SaveTx, GetJobs, NextJob, PublishJob, MarkQueued, EndLoop,
     RefundAssigned, LoadForCancel, SaveCancelled, MarkRefunded, EndRollback
<1>2. ASSUME NEW x \in Cancellers, CancelNext(x)
      PROVE  batch' \in {batch, ToPostgres(canc[x].row),
                        ToPostgres([canc[x].row EXCEPT !.txs = {}])}
  BY <1>2 DEF CancelNext, StartCancel, CancelStep, CrashCancel, CancelLoad, CancelSave,
     CancelRefund, CancelJobs, CancelMark, CancelMarked, CancelClear
<1>3. ASSUME NEW k \in Consumers, ConsumerNext(k)
      PROVE  batch' \in {batch, ToPostgres(cons[k].row)}
  BY <1>3 DEF ConsumerNext, ConsumerStep, StopConsumer, CrashConsumer, Poll,
     StoreResult, CountJobs, LoadBatch, SaveBatch
<1>4. ASSUME NEW r \in Restarters, RestartNext(r)
      PROVE  batch' \in {batch, ToPostgres(rest[r].row)}
  BY <1>4 DEF RestartNext, StartRestart, RestartStep, CrashRestart, RestartJobs,
     RestartPublish, RestartMark, RestartEndLoop, RestartLoad, RestartSave
<1>5. ASSUME NEW g \in Configurers, ConfigNext(g)
      PROVE  batch' \in {batch, ToPostgres(cong[g].row)}
  BY <1>5 DEF ConfigNext, StartConfig, ConfigStep, CrashConfig, ConfigLoad, ConfigSave
<1>6. ASSUME GenerateNext \/ UNCHANGED vars
      PROVE  batch' = batch
  BY <1>6 DEF GenerateNext, Generate, vars
<1> QED
  BY <1>1, <1>2, <1>3, <1>4, <1>5, <1>6 DEF Next

\* Consistency is kept by the changes the writers make.
LEMMA RowConsistentKept ==
    ASSUME NEW b \in BatchRow, RowConsistent(b)
    PROVE  /\ RowConsistent(ToPostgres(b))
           /\ RowConsistent([b EXCEPT !.config = TRUE])
           /\ \A s \in {"cancelled", "processing"} : RowConsistent([b EXCEPT !.status = s])
           /\ \A t : RowConsistent([b EXCEPT !.txs = t])
BY DEF RowConsistent, ToPostgres, BatchRow

LEMMA RecountConsistent ==
    ASSUME NEW b \in BatchRow, NEW d \in Nat, NEW f \in Nat, f <= d, d <= NJobs
    PROVE  RowConsistent(Recount(b, d, f))
BY DEF RowConsistent, Recount, BatchRow

LEMMA NoRowConsistent ==
    \A s \in BatchStatus \ {"completed"}, n \in Nat : RowConsistent(Uploaded(s, n))
BY NJobsAssumption DEF RowConsistent, Uploaded

\* Every copy of the row that a step leaves behind is consistent.
LEMMA RowStep ==
    ASSUME TypeOK, TypeOK', RowInv, [Next]_vars
    PROVE  RowInv'
<1>0. RowConsistent(NoRow)
  BY NoRowConsistent DEF NoRow, BatchStatus
<1>1. /\ batch \in BatchRow
      /\ \A c \in Confirmers : conf[c].row \in BatchRow
      /\ \A x \in Cancellers : canc[x].row \in BatchRow
      /\ \A k \in Consumers : /\ cons[k].row \in BatchRow
                              /\ cons[k].done \in Nat /\ cons[k].failed \in Nat
      /\ \A r \in Restarters : rest[r].row \in BatchRow
      /\ \A g \in Configurers : cong[g].row \in BatchRow
  BY DEF TypeOK, StoreTypeOK, ConfirmState, CancelState, ConsumerState, RestartState,
     ConfigState
<1>2. RowConsistent(batch)'
  <2>1. ASSUME NEW c \in Confirmers, NEW t
        PROVE  /\ RowConsistent(ToPostgres([conf[c].row EXCEPT !.status = "cancelled"]))
               /\ RowConsistent(ToPostgres([conf[c].row EXCEPT !.txs = t]))
    BY <1>1 DEF RowInv, RowConsistent, ToPostgres, BatchRow
  <2>2. ASSUME NEW x \in Cancellers
        PROVE  /\ RowConsistent(ToPostgres(canc[x].row))
               /\ RowConsistent(ToPostgres([canc[x].row EXCEPT !.txs = {}]))
    BY <1>1 DEF RowInv, RowConsistent, ToPostgres, BatchRow
  <2>3. /\ \A k \in Consumers : RowConsistent(ToPostgres(cons[k].row))
        /\ \A r \in Restarters : RowConsistent(ToPostgres(rest[r].row))
        /\ \A g \in Configurers : RowConsistent(ToPostgres(cong[g].row))
    BY <1>1, RowConsistentKept DEF RowInv
  <2>4. RowConsistent(batch')
    BY <2>1, <2>2, <2>3, BatchWrite DEF RowInv
  <2> QED
    BY <2>4 DEF RowConsistent
<1>3. ASSUME NEW c \in Confirmers
      PROVE  RowConsistent(conf'[c].row)
  <2>1. CASE \E d \in Confirmers : ConfirmNext(d)
    BY <1>0, <2>1, ConfirmOthers, ConfirmRow DEF RowInv
  <2>2. CASE UNCHANGED conf
    BY <2>2 DEF RowInv
  <2> QED
    BY <2>1, <2>2 DEF Next, vars, localVars, CancelNext, ConsumerNext, RestartNext,
       ConfigNext, GenerateNext
<1>4. ASSUME NEW x \in Cancellers
      PROVE  RowConsistent(canc'[x].row)
  <2>1. CASE \E y \in Cancellers : CancelNext(y)
    BY <1>0, <1>1, <2>1, CancelRow, RowConsistentKept DEF RowInv
  <2>2. CASE UNCHANGED canc
    BY <2>2 DEF RowInv
  <2> QED
    BY <2>1, <2>2 DEF Next, vars, localVars, ConfirmNext, ConsumerNext, RestartNext,
       ConfigNext, GenerateNext
<1>5. ASSUME NEW k \in Consumers
      PROVE  /\ RowConsistent(cons'[k].row)
             /\ cons'[k].failed <= cons'[k].done /\ cons'[k].done <= NJobs
  <2>1. ASSUME NEW y \in Consumers, ConsumerNext(y)
        PROVE  /\ RowConsistent(cons'[k].row)
               /\ cons'[k].failed <= cons'[k].done /\ cons'[k].done <= NJobs
    <3>1. CASE y # k
      BY <2>1, <3>1, ConsumerRow DEF RowInv
    <3>2. CASE y = k
      <4>1. RowConsistent(Recount(batch, cons[k].done, cons[k].failed))
        BY <1>1, RecountConsistent DEF RowInv
      <4> QED
        BY <1>0, <2>1, <3>2, <4>1, ConsumerRow DEF RowInv
    <3> QED
      BY <3>1, <3>2
  <2>2. CASE UNCHANGED cons
    BY <2>2 DEF RowInv
  <2> QED
    BY <2>1, <2>2 DEF Next, vars, localVars, ConfirmNext, CancelNext, RestartNext,
       ConfigNext, GenerateNext
<1>6. ASSUME NEW r \in Restarters
      PROVE  RowConsistent(rest'[r].row)
  <2>1. CASE \E y \in Restarters : RestartNext(y)
    BY <1>0, <1>1, <2>1, RestartRow, RowConsistentKept DEF RowInv
  <2>2. CASE UNCHANGED rest
    BY <2>2 DEF RowInv
  <2> QED
    BY <2>1, <2>2, ConfigRow DEF Next, vars, localVars, ConfirmNext, CancelNext,
       ConsumerNext, GenerateNext
<1>7. ASSUME NEW g \in Configurers
      PROVE  RowConsistent(cong'[g].row)
  <2>1. CASE \E y \in Configurers : ConfigNext(y)
    BY <1>0, <1>1, <2>1, ConfigRow, RowConsistentKept DEF RowInv
  <2>2. CASE UNCHANGED cong
    BY <2>2 DEF RowInv
  <2> QED
    BY <2>1, <2>2, RestartRow DEF Next, vars, localVars, ConfirmNext, CancelNext,
       ConsumerNext, GenerateNext
<1> QED
  BY <1>2, <1>3, <1>4, <1>5, <1>6, <1>7 DEF RowInv, RowConsistent

\* Initially nobody has a copy but the empty one.
LEMMA RowInit == Init => RowInv
<1> SUFFICES ASSUME Init PROVE RowInv
  OBVIOUS
<1>1. RowConsistent(NoRow)
  BY NoRowConsistent DEF NoRow, BatchStatus
<1>2. RowConsistent(batch)
  BY NoRowConsistent DEF Init, StoreInit, BatchStatus
<1> QED
  BY <1>1, <1>2, NJobsAssumption DEF Init, ConfirmInit, CancelInit, ConsumerInit, AdminInit,
     ConfirmFresh, CancelFresh, ConsumerIdle, RestartFresh, ConfigFresh, RowInv

---------------------------------------------------------------------------
(***************************************************************************)
(* Publishing.  What was published stays published; every message is about *)
(* a published job; only a published job becomes queued or gets an outcome.*)
(***************************************************************************)

\* A publish puts at most the given job on the topic.
LEMMA PublishEffect ==
    ASSUME NEW p, NEW j, NEW tx, NEW out \in PublishOutcome, Publish(p, j, tx, out.copies)
    PROVE  /\ published \subseteq published'
           /\ published' \subseteq published \cup {<<p, j>>}
           /\ out.ok => <<p, j>> \in published'
           /\ \A m \in jobTopic' : m \in jobTopic \/ <<m.from, m.job>> \in published'
<1>1. out.copies \in Nat /\ (out.ok => out.copies # 0)
  BY CopiesAssumption DEF PublishOutcome
<1>2. published' = IF out.copies = 0 THEN published ELSE published \cup {<<p, j>>}
  BY DEF Publish
<1>3. CASE out.copies = 0
  BY <1>1, <1>2, <1>3 DEF Publish
<1>4. CASE out.copies # 0
  BY <1>1, <1>2, <1>4 DEF Publish
<1> QED
  BY <1>3, <1>4

\* Only publishing changes the set of published jobs.
LEMMA PublishedChange ==
    ASSUME TypeOK, [Next]_vars
    PROVE  \/ published' = published
           \/ \E c \in Confirmers : ConfirmNext(c) /\ PublishJob(c)
           \/ \E r \in Restarters : RestartNext(r) /\ RestartPublish(r)
<1> USE DEF storeVars
<1>1. ASSUME NEW c \in Confirmers, ConfirmNext(c), ~PublishJob(c)
      PROVE  published' = published
  BY <1>1 DEF ConfirmNext, StartConfirm, ConfirmStep, CrashConfirm, CheckApproved,
     BlockBatch, LoadForTx, SaveTx, GetJobs, NextJob, MarkQueued, EndLoop,
     RefundAssigned, LoadForCancel, SaveCancelled, MarkRefunded, EndRollback
<1>2. ASSUME NEW x \in Cancellers, CancelNext(x)
      PROVE  published' = published
  BY <1>2 DEF CancelNext, StartCancel, CancelStep, CrashCancel, CancelLoad, CancelSave,
     CancelRefund, CancelJobs, CancelMark, CancelMarked, CancelClear
<1>3. ASSUME NEW k \in Consumers, ConsumerNext(k)
      PROVE  published' = published
  BY <1>3 DEF ConsumerNext, ConsumerStep, StopConsumer, CrashConsumer, Poll,
     StoreResult, CountJobs, LoadBatch, SaveBatch
<1>4. ASSUME NEW r \in Restarters, RestartNext(r), ~RestartPublish(r)
      PROVE  published' = published
  BY <1>4 DEF RestartNext, StartRestart, RestartStep, CrashRestart, RestartJobs,
     RestartMark, RestartEndLoop, RestartLoad, RestartSave
<1>5. ASSUME NEW g \in Configurers, ConfigNext(g)
      PROVE  published' = published
  BY <1>5 DEF ConfigNext, StartConfig, ConfigStep, CrashConfig, ConfigLoad, ConfigSave
<1>6. ASSUME GenerateNext \/ UNCHANGED vars
      PROVE  published' = published
  BY <1>6 DEF GenerateNext, Generate, vars
<1> QED
  BY <1>1, <1>2, <1>3, <1>4, <1>5, <1>6 DEF Next

\* What was published stays published.
LEMMA PublishedGrows ==
    ASSUME TypeOK, [Next]_vars
    PROVE  published \subseteq published'
BY PublishedChange, PublishEffect DEF PublishJob, RestartPublish

\* Messages come from a publish or from Generation's answer to a message.
LEMMA MessageOrigin ==
    ASSUME TypeOK, [Next]_vars, NEW m \in jobTopic' \cup resultTopic'
    PROVE  \/ <<m.from, m.job>> \in published'
           \/ \E n \in jobTopic \cup resultTopic : n.from = m.from /\ n.job = m.job
<1> USE DEF storeVars
<1>1. ASSUME NEW c \in Confirmers, ConfirmNext(c), ~PublishJob(c)
      PROVE  UNCHANGED <<jobTopic, resultTopic>>
  BY <1>1 DEF ConfirmNext, StartConfirm, ConfirmStep, CrashConfirm, CheckApproved,
     BlockBatch, LoadForTx, SaveTx, GetJobs, NextJob, MarkQueued, EndLoop,
     RefundAssigned, LoadForCancel, SaveCancelled, MarkRefunded, EndRollback
<1>2. ASSUME NEW c \in Confirmers, PublishJob(c)
      PROVE  \/ m \in jobTopic \cup resultTopic
             \/ <<m.from, m.job>> \in published'
  BY <1>2, PublishEffect DEF PublishJob
<1>3. ASSUME NEW x \in Cancellers, CancelNext(x)
      PROVE  UNCHANGED <<jobTopic, resultTopic>>
  BY <1>3 DEF CancelNext, StartCancel, CancelStep, CrashCancel, CancelLoad, CancelSave,
     CancelRefund, CancelJobs, CancelMark, CancelMarked, CancelClear
<1>4. ASSUME NEW k \in Consumers, ConsumerNext(k)
      PROVE  jobTopic' \cup resultTopic' \subseteq jobTopic \cup resultTopic
  BY <1>4 DEF ConsumerNext, ConsumerStep, StopConsumer, CrashConsumer, Poll,
     StoreResult, CountJobs, LoadBatch, SaveBatch
<1>5. ASSUME NEW r \in Restarters, RestartNext(r), ~RestartPublish(r)
      PROVE  UNCHANGED <<jobTopic, resultTopic>>
  BY <1>5 DEF RestartNext, StartRestart, RestartStep, CrashRestart, RestartJobs,
     RestartMark, RestartEndLoop, RestartLoad, RestartSave
<1>6. ASSUME NEW r \in Restarters, RestartPublish(r)
      PROVE  \/ m \in jobTopic \cup resultTopic
             \/ <<m.from, m.job>> \in published'
  BY <1>6, PublishEffect DEF RestartPublish
<1>7. ASSUME NEW g \in Configurers, ConfigNext(g)
      PROVE  UNCHANGED <<jobTopic, resultTopic>>
  BY <1>7 DEF ConfigNext, StartConfig, ConfigStep, CrashConfig, ConfigLoad, ConfigSave
<1>8. CASE GenerateNext
  BY <1>8 DEF GenerateNext, Generate
<1> QED
  BY <1>1, <1>2, <1>3, <1>4, <1>5, <1>6, <1>7, <1>8 DEF Next, vars

\* A job becomes queued, completed or failed by the update that follows its
\* publish or by a result message.
LEMMA JobWrite ==
    ASSUME TypeOK, [Next]_vars, NEW j \in Jobs, jobs'[j].status \in {"queued"} \cup Outcome
    PROVE  \/ jobs'[j].status = jobs[j].status
           \/ \E c \in Confirmers : conf[c].pc = "mark" /\ CurrentJob(c) = j
           \/ \E k \in Consumers : \E m \in cons[k].msg : m.job = j
           \/ \E r \in Restarters : j \in rest[r].job
<1> USE DEF storeVars
<1>0. jobs \in [Jobs -> JobRow]
  BY DEF TypeOK, StoreTypeOK
<1>a. ASSUME NEW done, NEW i, NEW s, UpdateStatus(done, i, s)
      PROVE  jobs'[j].status = jobs[j].status \/ (i = j /\ jobs'[j].status = s)
  BY <1>0, <1>a DEF UpdateStatus, JobRow
<1>1. ASSUME NEW c \in Confirmers, ConfirmNext(c)
      PROVE  \/ jobs'[j].status = jobs[j].status
             \/ conf[c].pc = "mark" /\ CurrentJob(c) = j
  <2>1. CASE MarkQueued(c)
    BY <2>1, <1>a DEF MarkQueued
  <2>2. CASE MarkRefunded(c)
    BY <2>2, <1>a DEF MarkRefunded, Outcome
  <2>3. CASE NextJob(c)
    <3>1. jobs' = jobs \/ \E done, i, tx : UpdateBillingTransactionID(done, i, tx)
      BY <2>3 DEF NextJob
    <3> QED
      BY <1>0, <3>1 DEF UpdateBillingTransactionID, JobRow
  <2>4. CASE ~MarkQueued(c) /\ ~MarkRefunded(c) /\ ~NextJob(c)
    BY <1>1, <2>4 DEF ConfirmNext, StartConfirm, ConfirmStep, CrashConfirm, CheckApproved,
       BlockBatch, LoadForTx, SaveTx, GetJobs, PublishJob, EndLoop, RefundAssigned,
       LoadForCancel, SaveCancelled, EndRollback
  <2> QED
    BY <2>1, <2>2, <2>3, <2>4
<1>2. ASSUME NEW x \in Cancellers, CancelNext(x)
      PROVE  jobs'[j].status = jobs[j].status
  <2>1. CASE CancelMark(x)
    BY <2>1, <1>a DEF CancelMark, Outcome
  <2>2. CASE ~CancelMark(x)
    BY <1>2, <2>2 DEF CancelNext, StartCancel, CancelStep, CrashCancel, CancelLoad,
       CancelSave, CancelRefund, CancelJobs, CancelMarked, CancelClear
  <2> QED
    BY <2>1, <2>2
<1>3. ASSUME NEW k \in Consumers, ConsumerNext(k)
      PROVE  \/ jobs'[j].status = jobs[j].status
             \/ \E m \in cons[k].msg : m.job = j
  <2>1. CASE StoreResult(k)
    BY <1>0, <2>1 DEF StoreResult, UpdateStatusWithResult
  <2>2. CASE ~StoreResult(k)
    BY <1>3, <2>2 DEF ConsumerNext, ConsumerStep, StopConsumer, CrashConsumer, Poll,
       CountJobs, LoadBatch, SaveBatch
  <2> QED
    BY <2>1, <2>2
<1>4. ASSUME NEW r \in Restarters, RestartNext(r)
      PROVE  jobs'[j].status = jobs[j].status \/ j \in rest[r].job
  <2>1. CASE RestartMark(r)
    BY <2>1, <1>a DEF RestartMark
  <2>2. CASE ~RestartMark(r)
    BY <1>4, <2>2 DEF RestartNext, StartRestart, RestartStep, CrashRestart, RestartJobs,
       RestartPublish, RestartEndLoop, RestartLoad, RestartSave
  <2> QED
    BY <2>1, <2>2
<1>5. ASSUME NEW g \in Configurers, ConfigNext(g)
      PROVE  jobs' = jobs
  BY <1>5 DEF ConfigNext, StartConfig, ConfigStep, CrashConfig, ConfigLoad, ConfigSave
<1>6. ASSUME GenerateNext \/ UNCHANGED vars
      PROVE  jobs' = jobs
  BY <1>6 DEF GenerateNext, Generate, vars
<1> QED
  BY <1>1, <1>2, <1>3, <1>4, <1>5, <1>6 DEF Next

\* Every message, every pending update and every job row is about a published
\* job after the step as well.
LEMMA PublishStep ==
    ASSUME TypeOK, LoopInv, PublishInv, [Next]_vars
    PROVE  PublishInv'
<1>0. published \subseteq published'
  BY PublishedGrows
<1>1. \A m \in jobTopic' \cup resultTopic' : <<m.from, m.job>> \in published'
  BY <1>0, MessageOrigin DEF PublishInv
<1>2. ASSUME NEW k \in Consumers, NEW m \in cons'[k].msg
      PROVE  <<m.from, m.job>> \in published'
  <2>0. cons \in [Consumers -> ConsumerState]
    BY DEF TypeOK
  <2>1. ASSUME NEW y \in Consumers, ConsumerNext(y)
        PROVE  m \in cons[k].msg \/ m \in resultTopic
    <3>1. CASE y # k
      BY <1>2, <2>1, <3>1, ConsumerRow
    <3>2. CASE y = k /\ Poll(k)
      BY <1>2, <2>0, <3>2 DEF Poll, ConsumerState
    <3>3. CASE y = k /\ ~Poll(k)
      <4>1. CASE cons' = [cons EXCEPT ![k] = ConsumerIdle]
        BY <1>2, <2>0, <4>1 DEF ConsumerIdle
      <4>2. CASE StopConsumer(k) \/ StoreResult(k)
        BY <1>2, <2>0, <4>2 DEF StopConsumer, StoreResult, ConsumerState
      <4>3. CASE \E d, f : cons' = [cons EXCEPT ![k].pc = "row", ![k].done = d,
                                                ![k].failed = f]
        BY <1>2, <2>0, <4>3 DEF ConsumerState
      <4>4. CASE \E b : cons' = [cons EXCEPT ![k].pc = "save", ![k].row = b]
        BY <1>2, <2>0, <4>4 DEF ConsumerState
      <4>5. CASE CountJobs(k)
        BY <4>1, <4>3, <4>5 DEF CountJobs
      <4>6. CASE LoadBatch(k)
        BY <4>1, <4>4, <4>6 DEF LoadBatch
      <4> QED
        BY <2>1, <3>3, <4>1, <4>2, <4>5, <4>6 DEF ConsumerNext, ConsumerStep, SaveBatch,
           CrashConsumer
    <3> QED
      BY <3>1, <3>2, <3>3
  <2>2. CASE UNCHANGED cons
    BY <1>0, <1>2, <2>2 DEF PublishInv
  <2> QED
    BY <1>0, <2>1, <2>2 DEF PublishInv, Next, vars, localVars, ConfirmNext, CancelNext,
       RestartNext, ConfigNext, GenerateNext
<1>3. ASSUME NEW c \in Confirmers, conf'[c].pc = "mark"
      PROVE  <<c, CurrentJob(c)>>' \in published'
  <2>1. CASE conf'[c] = conf[c]
    BY <1>0, <1>3, <2>1 DEF PublishInv, CurrentJob
  <2>2. CASE ConfirmNext(c)
    <3>1. PublishJob(c) /\ Still(c)
      BY <1>3, <2>2, ConfirmMoves DEF Move, Turn, Ended, Rollback, NextJob
    <3>2. PICK out \in PublishOutcome :
             /\ Publish(c, CurrentJob(c), AssignTx(c, conf[c].pos), out.copies)
             /\ out.ok \/ conf' = [conf EXCEPT ![c].pc = "next", ![c].pos = @ + 1,
                                               ![c].perr = TRUE]
      BY <3>1 DEF PublishJob
    <3>3. out.ok
      BY <1>3, <3>2 DEF TypeOK, ConfirmState
    <3>4. <<c, CurrentJob(c)>> \in published'
      BY <3>2, <3>3, PublishEffect
    <3> QED
      BY <3>1, <3>4 DEF Still, CurrentJob
  <2> QED
    BY <2>1, <2>2, ConfirmOthers DEF Next, vars, localVars, CancelNext, ConsumerNext,
       RestartNext, ConfigNext, GenerateNext
<1>4. ASSUME NEW r \in Restarters, NEW j \in rest'[r].job
      PROVE  <<r, j>> \in published'
  <2>0. rest \in [Restarters -> RestartState]
    BY DEF TypeOK
  <2>1. CASE j \in rest[r].job
    BY <1>0, <2>1 DEF PublishInv
  <2>2. CASE RestartPublish(r)
    <3>1. PICK i \in rest[r].todo, out \in PublishOutcome :
             /\ Publish(r, i, {}, out.copies)
             /\ rest' = [rest EXCEPT ![r].pc = IF out.ok THEN "mark" ELSE "next",
                                     ![r].todo = @ \ {i},
                                     ![r].job = IF out.ok THEN {i} ELSE {}]
      BY <2>2 DEF RestartPublish
    <3> DEFINE pc  == IF out.ok THEN "mark" ELSE "next"
               job == IF out.ok THEN {i} ELSE {}
    <3>2. rest' = [rest EXCEPT ![r].pc = pc, ![r].todo = @ \ {i}, ![r].job = job]
      BY <3>1
    <3> HIDE DEF pc, job
    <3>3. rest'[r].job = job
      BY <2>0, <3>2 DEF RestartState
    <3>4. j = i /\ out.ok
      BY <1>4, <3>3 DEF job
    <3> QED
      BY <3>1, <3>4, PublishEffect
  <2>3. ASSUME NEW y \in Restarters, RestartNext(y), ~(y = r /\ RestartPublish(r))
        PROVE  j \in rest[r].job
    <3>1. CASE y # r
      BY <1>4, <2>3, <3>1, RestartRow
    <3>2. CASE y = r
      <4>1. CASE \E pc : RestartAnswer(r, pc)
        BY <1>4, <2>0, <4>1 DEF RestartAnswer, RestartFresh, RestartState
      <4>2. CASE StartRestart(r) \/ RestartMark(r) \/ RestartEndLoop(r)
        BY <1>4, <2>0, <4>2 DEF StartRestart, RestartMark, RestartEndLoop, RestartState
      <4>3. CASE \E t : rest' = [rest EXCEPT ![r].pc = "next", ![r].todo = t]
        BY <1>4, <2>0, <4>3 DEF RestartState
      <4>4. CASE \E b : rest' = [rest EXCEPT ![r].pc = "save", ![r].row = b]
        BY <1>4, <2>0, <4>4 DEF RestartState
      <4>5. CASE RestartJobs(r)
        BY <4>1, <4>3, <4>5 DEF RestartJobs
      <4>6. CASE RestartLoad(r)
        BY <4>1, <4>4, <4>6 DEF RestartLoad
      <4> QED
        BY <2>3, <3>2, <4>1, <4>2, <4>5, <4>6 DEF RestartNext, RestartStep, RestartSave,
           CrashRestart
    <3> QED
      BY <3>1, <3>2
  <2>4. CASE UNCHANGED rest
    BY <1>4, <2>1, <2>4
  <2> QED
    BY <2>1, <2>2, <2>3, <2>4, ConfigRow DEF Next, vars, localVars, ConfirmNext,
       CancelNext, ConsumerNext, GenerateNext
<1>5. QueuedAfterPublish'
  <2> SUFFICES ASSUME NEW j \in Jobs, jobs'[j].status \in {"queued"} \cup Outcome
               PROVE  \E p \in Publisher : <<p, j>> \in published'
    BY DEF QueuedAfterPublish, PublishedBy
  <2>1. CASE jobs'[j].status = jobs[j].status
    BY <1>0, <2>1 DEF PublishInv, QueuedAfterPublish, PublishedBy
  <2>2. ASSUME NEW k \in Consumers, NEW m \in cons[k].msg, m.job = j
        PROVE  \E p \in Publisher : <<p, j>> \in published'
    <3>1. m.from \in Publisher
      BY <2>2 DEF TypeOK, ConsumerState, ResultMessage
    <3> QED
      BY <1>0, <2>2, <3>1 DEF PublishInv
  <2> QED
    BY <1>0, <2>1, <2>2, JobWrite DEF PublishInv, Publisher
<1> QED
  BY <1>1, <1>2, <1>3, <1>4, <1>5 DEF PublishInv

LEMMA PublishInit == Init => PublishInv
<1> SUFFICES ASSUME Init PROVE PublishInv
  OBVIOUS
<1>1. QueuedAfterPublish
  BY DEF Init, StoreInit, QueuedAfterPublish, Outcome
<1> QED
  BY <1>1 DEF Init, StoreInit, ConfirmInit, ConsumerInit, AdminInit, ConfirmFresh,
     ConsumerIdle, RestartFresh, PublishInv

---------------------------------------------------------------------------
(***************************************************************************)
(* Billing.  What a request remembers and what a row names was issued; in  *)
(* the wired build no row names anything.                                  *)
(***************************************************************************)

\* Only blocking issues transactions, and it withdraws none.
LEMMA IssuedGrows ==
    ASSUME TypeOK, [Next]_vars
    PROVE  issued \subseteq issued'
<1> USE DEF storeVars
<1>1. ASSUME NEW c \in Confirmers, ConfirmNext(c)
      PROVE  issued \subseteq issued'
  <2>1. CASE BlockBatch(c)
    BY <2>1 DEF BlockBatch
  <2>2. CASE ~BlockBatch(c)
    BY <1>1, <2>2 DEF ConfirmNext, StartConfirm, ConfirmStep, CrashConfirm,
       CheckApproved, LoadForTx, SaveTx, GetJobs, NextJob, PublishJob, MarkQueued,
       EndLoop, RefundAssigned, LoadForCancel, SaveCancelled, MarkRefunded, EndRollback
  <2> QED
    BY <2>1, <2>2
<1>2. ASSUME NEW x \in Cancellers, CancelNext(x)
      PROVE  issued' = issued
  BY <1>2 DEF CancelNext, StartCancel, CancelStep, CrashCancel, CancelLoad, CancelSave,
     CancelRefund, CancelJobs, CancelMark, CancelMarked, CancelClear
<1>3. ASSUME NEW k \in Consumers, ConsumerNext(k)
      PROVE  issued' = issued
  BY <1>3 DEF ConsumerNext, ConsumerStep, StopConsumer, CrashConsumer, Poll,
     StoreResult, CountJobs, LoadBatch, SaveBatch
<1>4. ASSUME NEW r \in Restarters, RestartNext(r)
      PROVE  issued' = issued
  BY <1>4 DEF RestartNext, StartRestart, RestartStep, CrashRestart, RestartJobs,
     RestartPublish, RestartMark, RestartEndLoop, RestartLoad, RestartSave
<1>5. ASSUME NEW g \in Configurers, ConfigNext(g)
      PROVE  issued' = issued
  BY <1>5 DEF ConfigNext, StartConfig, ConfigStep, CrashConfig, ConfigLoad, ConfigSave
<1>6. ASSUME GenerateNext \/ UNCHANGED vars
      PROVE  issued' = issued
  BY <1>6 DEF GenerateNext, Generate, vars
<1> QED
  BY <1>1, <1>2, <1>3, <1>4, <1>5, <1>6 DEF Next

\* A refund names what the rollback assigned or what the cancelled row named.
LEMMA RefundOrigin ==
    ASSUME TypeOK, [Next]_vars
    PROVE  \/ refunds' = refunds
           \/ \E c \in Confirmers : refunds' \subseteq refunds \cup ({c} \X conf[c].assigned)
           \/ \E x \in Cancellers : refunds' \subseteq refunds \cup ({x} \X canc[x].row.txs)
<1> USE DEF storeVars
<1>1. ASSUME NEW c \in Confirmers, ConfirmNext(c)
      PROVE  refunds' \subseteq refunds \cup ({c} \X conf[c].assigned)
  <2>1. CASE RefundAssigned(c)
    BY <2>1 DEF RefundAssigned, RefundTransactions
  <2>2. CASE ~RefundAssigned(c)
    BY <1>1, <2>2 DEF ConfirmNext, StartConfirm, ConfirmStep, CrashConfirm,
       CheckApproved, BlockBatch, LoadForTx, SaveTx, GetJobs, NextJob, PublishJob,
       MarkQueued, EndLoop, LoadForCancel, SaveCancelled, MarkRefunded, EndRollback
  <2> QED
    BY <2>1, <2>2
<1>2. ASSUME NEW x \in Cancellers, CancelNext(x)
      PROVE  refunds' \subseteq refunds \cup ({x} \X canc[x].row.txs)
  <2>1. CASE CancelRefund(x)
    BY <2>1 DEF CancelRefund, RefundTransactions
  <2>2. CASE ~CancelRefund(x)
    BY <1>2, <2>2 DEF CancelNext, StartCancel, CancelStep, CrashCancel, CancelLoad,
       CancelSave, CancelJobs, CancelMark, CancelMarked, CancelClear
  <2> QED
    BY <2>1, <2>2
<1>3. ASSUME NEW k \in Consumers, ConsumerNext(k)
      PROVE  refunds' = refunds
  BY <1>3 DEF ConsumerNext, ConsumerStep, StopConsumer, CrashConsumer, Poll,
     StoreResult, CountJobs, LoadBatch, SaveBatch
<1>4. ASSUME NEW r \in Restarters, RestartNext(r)
      PROVE  refunds' = refunds
  BY <1>4 DEF RestartNext, StartRestart, RestartStep, CrashRestart, RestartJobs,
     RestartPublish, RestartMark, RestartEndLoop, RestartLoad, RestartSave
<1>5. ASSUME NEW g \in Configurers, ConfigNext(g)
      PROVE  refunds' = refunds
  BY <1>5 DEF ConfigNext, StartConfig, ConfigStep, CrashConfig, ConfigLoad, ConfigSave
<1>6. ASSUME GenerateNext \/ UNCHANGED vars
      PROVE  refunds' = refunds
  BY <1>6 DEF GenerateNext, Generate, vars
<1> QED
  BY <1>1, <1>2, <1>3, <1>4, <1>5, <1>6 DEF Next

\* A confirmation's IDs are the ones it was issued, and it assigns only those.
LEMMA ConfirmTx ==
    ASSUME TypeOK, NEW c \in Confirmers, ConfirmNext(c)
    PROVE  /\ \/ conf'[c].ids = conf[c].ids
              \/ {c} \X (1 .. conf'[c].ids) \subseteq issued'
           /\ conf'[c].assigned \subseteq conf[c].assigned \cup ({c} \X (1 .. conf[c].ids))
<1>0. conf \in [Confirmers -> ConfirmState]
  BY DEF TypeOK
<1>a. {c} \X (1 .. 0) = {}
  OBVIOUS
<1>1. CASE \/ CheckApproved(c) \/ EndLoop(c) \/ RefundAssigned(c)
           \/ EndRollback(c) \/ CrashConfirm(c)
  BY <1>1, <1>a, AnswerFields, GotoFields DEF CheckApproved, EndLoop, RefundAssigned,
     EndRollback, CrashConfirm, ConfirmPc
<1>2. CASE StartConfirm(c) \/ SaveTx(c) \/ SaveCancelled(c) \/ MarkRefunded(c)
  <2>1. CASE StartConfirm(c)
    <3>1. \E a, n : conf' = [conf EXCEPT ![c].pc = "check", ![c].action = a, ![c].count = n]
      BY <2>1 DEF StartConfirm
    <3> QED
      BY <1>0, <3>1 DEF ConfirmState
  <2>2. CASE SaveTx(c) \/ SaveCancelled(c)
    <3>1. \E pc : conf' = [conf EXCEPT ![c].pc = pc, ![c].row = NoRow]
      BY <2>2 DEF SaveTx, SaveCancelled
    <3> QED
      BY <1>0, <3>1 DEF ConfirmState
  <2>3. CASE MarkRefunded(c)
    <3>1. conf' = [conf EXCEPT ![c].pos = @ + 1]
      BY <2>3 DEF MarkRefunded
    <3> QED
      BY <1>0, <3>1 DEF ConfirmState
  <2> QED
    BY <1>2, <2>1, <2>2, <2>3
<1>3. CASE BlockBatch(c)
  <2>1. PICK out \in BillingCall, k \in TxCounts :
           /\ issued' = IF out.done THEN issued \cup ({c} \X (1 .. k)) ELSE issued
           /\ \/ Answer(c, "rejected")
              \/ out.ok /\ \E pc : conf' = [conf EXCEPT ![c].ids = k, ![c].pc = pc]
    BY <1>3 DEF BlockBatch
  <2>2. CASE Answer(c, "rejected")
    BY <1>a, <2>2, AnswerFields DEF ConfirmPc
  <2>3. CASE out.ok /\ \E pc : conf' = [conf EXCEPT ![c].ids = k, ![c].pc = pc]
    <3>1. conf'[c].ids = k /\ conf'[c].assigned = conf[c].assigned
      BY <1>0, <2>3 DEF ConfirmState
    <3>2. issued' = issued \cup ({c} \X (1 .. k))
      BY <2>1, <2>3, CallType
    <3> QED
      BY <3>1, <3>2
  <2> QED
    BY <2>1, <2>2, <2>3
<1>4. CASE LoadForTx(c)
  <2>1. Goto(c, "jobs") \/ conf' = [conf EXCEPT ![c].pc = "saveTx", ![c].row = batch]
    BY <1>4 DEF LoadForTx
  <2> QED
    BY <1>0, <2>1, GotoFields DEF ConfirmState, ConfirmPc
<1>5. CASE GetJobs(c)
  <2>1. \/ Answer(c, "rejected")
        \/ \E o : conf' = [conf EXCEPT ![c].pc = "next", ![c].order = o]
    BY <1>5 DEF GetJobs
  <2>2. CASE Answer(c, "rejected")
    BY <1>a, <2>2, AnswerFields DEF ConfirmPc
  <2>3. CASE \E o : conf' = [conf EXCEPT ![c].pc = "next", ![c].order = o]
    BY <1>0, <2>3 DEF ConfirmState
  <2> QED
    BY <2>1, <2>2, <2>3
<1>6. CASE NextJob(c)
  <2> DEFINE tx == ValidTx(AssignTx(c, conf[c].pos))
  <2>1. tx \subseteq {c} \X (1 .. conf[c].ids)
    BY AssignTxType DEF ValidTx
  <2>2. conf' = [conf EXCEPT ![c].pc = "publish", ![c].assigned = @ \cup tx]
    BY <1>6 DEF NextJob
  <2> HIDE DEF tx
  <2>3. conf'[c].ids = conf[c].ids /\ conf'[c].assigned = conf[c].assigned \cup tx
    BY <1>0, <2>2 DEF ConfirmState
  <2> QED
    BY <2>1, <2>3
<1>7. CASE PublishJob(c)
  <2>1. \/ conf' = [conf EXCEPT ![c].pc = "mark"]
        \/ conf' = [conf EXCEPT ![c].pc = "next", ![c].pos = @ + 1, ![c].perr = TRUE]
    BY <1>7 DEF PublishJob
  <2> QED
    BY <1>0, <2>1 DEF ConfirmState
<1>8. CASE MarkQueued(c)
  <2>1. \E q : conf' = [conf EXCEPT ![c].pc = "next", ![c].pos = @ + 1, ![c].queued = q]
    BY <1>8 DEF MarkQueued
  <2> QED
    BY <1>0, <2>1 DEF ConfirmState
<1>9. CASE LoadForCancel(c)
  <2>1. \E pc, b, n : conf' = [conf EXCEPT ![c].pc = pc, ![c].row = b, ![c].pos = n]
    BY <1>9, ZenonT(60) DEF LoadForCancel
  <2> QED
    BY <1>0, <2>1 DEF ConfirmState
<1> QED
  BY <1>1, <1>2, <1>3, <1>4, <1>5, <1>6, <1>7, <1>8, <1>9 DEF ConfirmNext, ConfirmStep

\* The transactions that a new row or copy may name were issued.
LEMMA RowTx ==
    ASSUME TypeOK, TxInv, [Next]_vars
    PROVE  /\ batch'.txs \subseteq SavedTx
           /\ \A c \in Confirmers : conf'[c].row.txs \subseteq SavedTx
           /\ \A x \in Cancellers : canc'[x].row.txs \subseteq SavedTx
           /\ \A k \in Consumers : cons'[k].row.txs \subseteq SavedTx
           /\ \A r \in Restarters : rest'[r].row.txs \subseteq SavedTx
           /\ \A g \in Configurers : cong'[g].row.txs \subseteq SavedTx
<1>0. /\ batch \in BatchRow
      /\ \A c \in Confirmers : conf[c].row \in BatchRow
      /\ \A x \in Cancellers : canc[x].row \in BatchRow
      /\ \A k \in Consumers : cons[k].row \in BatchRow
      /\ \A r \in Restarters : rest[r].row \in BatchRow
      /\ \A g \in Configurers : cong[g].row \in BatchRow
  BY DEF TypeOK, StoreTypeOK, ConfirmState, CancelState, ConsumerState, RestartState,
     ConfigState
<1>1. NoRow.txs \subseteq SavedTx
  BY DEF NoRow, Uploaded
<1>2. /\ [batch EXCEPT !.status = "cancelled"].txs = batch.txs
      /\ [batch EXCEPT !.status = "processing"].txs = batch.txs
      /\ [batch EXCEPT !.config = TRUE].txs = batch.txs
      /\ \A d, f : Recount(batch, d, f).txs = batch.txs
  BY <1>0 DEF Recount, BatchRow
<1>3. batch'.txs \subseteq SavedTx
  <2>1. ASSUME NEW c \in Confirmers, conf[c].pc = "saveTx"
        PROVE  ToPostgres([conf[c].row EXCEPT !.txs = {c} \X (1 .. conf[c].ids)]).txs
                  \subseteq SavedTx
    <3>1. ToPostgres([conf[c].row EXCEPT !.txs = {c} \X (1 .. conf[c].ids)]).txs
            = {c} \X (1 .. conf[c].ids)
      BY <1>0 DEF ToPostgres, BatchRow
    <3> QED
      BY <2>1, <3>1 DEF TxInv, SavedTx
  <2>2. ASSUME NEW b \in BatchRow, b.txs \subseteq SavedTx
        PROVE  /\ ToPostgres(b).txs \subseteq SavedTx
               /\ ToPostgres([b EXCEPT !.status = "cancelled"]).txs \subseteq SavedTx
               /\ ToPostgres([b EXCEPT !.txs = {}]).txs \subseteq SavedTx
    BY <2>2 DEF ToPostgres, BatchRow
  <2>3. \A c \in Confirmers :
           ToPostgres([conf[c].row EXCEPT !.status = "cancelled"]).txs \subseteq SavedTx
    BY <1>0, <2>2 DEF TxInv
  <2>4. /\ \A x \in Cancellers :
              /\ ToPostgres(canc[x].row).txs \subseteq SavedTx
              /\ ToPostgres([canc[x].row EXCEPT !.txs = {}]).txs \subseteq SavedTx
        /\ \A k \in Consumers : ToPostgres(cons[k].row).txs \subseteq SavedTx
        /\ \A r \in Restarters : ToPostgres(rest[r].row).txs \subseteq SavedTx
        /\ \A g \in Configurers : ToPostgres(cong[g].row).txs \subseteq SavedTx
    BY <1>0, <2>2 DEF TxInv
  <2> QED
    BY <2>1, <2>3, <2>4, BatchWrite DEF TxInv
<1>4. ASSUME NEW c \in Confirmers
      PROVE  conf'[c].row.txs \subseteq SavedTx
  <2>1. CASE \E d \in Confirmers : ConfirmNext(d)
    BY <1>1, <2>1, ConfirmOthers, ConfirmRow DEF TxInv
  <2>2. CASE UNCHANGED conf
    BY <2>2 DEF TxInv
  <2> QED
    BY <2>1, <2>2 DEF Next, vars, localVars, CancelNext, ConsumerNext, RestartNext,
       ConfigNext, GenerateNext
<1>5. ASSUME NEW x \in Cancellers
      PROVE  canc'[x].row.txs \subseteq SavedTx
  <2>1. CASE \E y \in Cancellers : CancelNext(y)
    BY <1>1, <1>2, <2>1, CancelRow DEF TxInv
  <2>2. CASE UNCHANGED canc
    BY <2>2 DEF TxInv
  <2> QED
    BY <2>1, <2>2 DEF Next, vars, localVars, ConfirmNext, ConsumerNext, RestartNext,
       ConfigNext, GenerateNext
<1>6. ASSUME NEW k \in Consumers
      PROVE  cons'[k].row.txs \subseteq SavedTx
  <2>1. CASE \E y \in Consumers : ConsumerNext(y)
    BY <1>1, <1>2, <2>1, ConsumerRow DEF TxInv
  <2>2. CASE UNCHANGED cons
    BY <2>2 DEF TxInv
  <2> QED
    BY <2>1, <2>2 DEF Next, vars, localVars, ConfirmNext, CancelNext, RestartNext,
       ConfigNext, GenerateNext
<1>7. ASSUME NEW r \in Restarters
      PROVE  rest'[r].row.txs \subseteq SavedTx
  <2>1. CASE \E y \in Restarters : RestartNext(y)
    BY <1>1, <1>2, <2>1, RestartRow DEF TxInv
  <2>2. CASE UNCHANGED rest
    BY <2>2 DEF TxInv
  <2> QED
    BY <2>1, <2>2, ConfigRow DEF Next, vars, localVars, ConfirmNext, CancelNext,
       ConsumerNext, GenerateNext
<1>8. ASSUME NEW g \in Configurers
      PROVE  cong'[g].row.txs \subseteq SavedTx
  <2>1. CASE \E y \in Configurers : ConfigNext(y)
    BY <1>1, <1>2, <2>1, ConfigRow DEF TxInv
  <2>2. CASE UNCHANGED cong
    BY <2>2 DEF TxInv
  <2> QED
    BY <2>1, <2>2, RestartRow DEF Next, vars, localVars, ConfirmNext, CancelNext,
       ConsumerNext, GenerateNext
<1> QED
  BY <1>3, <1>4, <1>5, <1>6, <1>7, <1>8

\* Billing issued whatever is remembered or refunded after the step, too.
LEMMA TxStep ==
    ASSUME TypeOK, TxInv, [Next]_vars
    PROVE  TxInv'
<1>1. issued \subseteq issued' /\ SavedTx \subseteq SavedTx'
  BY IssuedGrows DEF SavedTx
<1>2. ASSUME NEW c \in Confirmers
      PROVE  /\ {c} \X (1 .. conf'[c].ids) \subseteq issued'
             /\ conf'[c].assigned \subseteq issued' \cap ({c} \X Nat)
             /\ conf'[c].pc \in {"loadTx", "saveTx"} => WithBlockFunc
  <2>1. CASE ConfirmNext(c)
    <3>1. /\ {c} \X (1 .. conf[c].ids) \subseteq issued
          /\ {c} \X (1 .. conf[c].ids) \subseteq {c} \X Nat
          /\ conf[c].assigned \subseteq issued \cap ({c} \X Nat)
      BY DEF TxInv
    <3>2. {c} \X (1 .. conf'[c].ids) \subseteq issued'
      BY <1>1, <2>1, <3>1, ConfirmTx
    <3>3. conf'[c].assigned \subseteq issued' \cap ({c} \X Nat)
      BY <1>1, <2>1, <3>1, ConfirmTx
    <3>4. conf'[c].pc \in {"loadTx", "saveTx"} => WithBlockFunc
      BY <2>1, ConfirmMoves DEF TxInv, Move, Turn, Ended, Rollback
    <3> QED
      BY <3>2, <3>3, <3>4
  <2>2. CASE conf'[c] = conf[c]
    BY <1>1, <2>2 DEF TxInv
  <2> QED
    BY <2>1, <2>2, ConfirmOthers DEF Next, vars, localVars, CancelNext, ConsumerNext,
       RestartNext, ConfigNext, GenerateNext
<1>3. RefundsWereIssued'
  <2>1. CASE refunds' = refunds
    BY <1>1, <2>1 DEF TxInv, RefundsWereIssued
  <2>2. ASSUME NEW c \in Confirmers,
               refunds' \subseteq refunds \cup ({c} \X conf[c].assigned)
        PROVE  RefundsWereIssued'
    BY <1>1, <2>2 DEF TxInv, RefundsWereIssued
  <2>3. ASSUME NEW x \in Cancellers,
               refunds' \subseteq refunds \cup ({x} \X canc[x].row.txs)
        PROVE  RefundsWereIssued'
    BY <1>1, <2>3 DEF TxInv, SavedTx, RefundsWereIssued
  <2> QED
    BY <2>1, <2>2, <2>3, RefundOrigin
<1> QED
  BY <1>1, <1>2, <1>3, RowTx DEF TxInv

\* Initially nothing is named.
LEMMA TxInit == Init => TxInv
<1> SUFFICES ASSUME Init PROVE TxInv
  OBVIOUS
<1>1. \A s, n : Uploaded(s, n).txs = {}
  BY DEF Uploaded
<1>2. NoRow.txs = {}
  BY <1>1 DEF NoRow
<1>3. batch.txs = {}
  BY <1>1 DEF Init, StoreInit
<1>4. \A c \in Confirmers :
         /\ conf[c].row.txs = {} /\ conf[c].assigned = {} /\ conf[c].ids = 0
         /\ conf[c].pc = "idle"
  BY <1>2 DEF Init, ConfirmInit, ConfirmFresh
<1>5. /\ \A x \in Cancellers : canc[x].row.txs = {}
      /\ \A k \in Consumers : cons[k].row.txs = {}
      /\ \A r \in Restarters : rest[r].row.txs = {}
      /\ \A g \in Configurers : cong[g].row.txs = {}
  BY <1>2 DEF Init, CancelInit, CancelFresh, ConsumerInit, ConsumerIdle, AdminInit,
     RestartFresh, ConfigFresh
<1>6. refunds = {}
  BY DEF Init, StoreInit
<1>7. \A c : {c} \X (1 .. 0) = {}
  OBVIOUS
<1> QED
  BY <1>3, <1>4, <1>5, <1>6, <1>7 DEF TxInv, RefundsWereIssued

---------------------------------------------------------------------------
(***************************************************************************)
(* The reservation.                                                        *)
(***************************************************************************)

\* A confirmation that does not publish has sent the same jobs as before; one
\* that does has sent at most one more.
LEMMA SentStep ==
    ASSUME TypeOK, [Next]_vars, NEW c \in Confirmers
    PROVE  /\ Cardinality(PublishedBy(c)) \in Nat
           /\ \/ PublishedBy(c)' = PublishedBy(c)
              \/ /\ ConfirmNext(c) /\ PublishJob(c)
                 /\ Cardinality(PublishedBy(c)') \in Nat
                 /\ Cardinality(PublishedBy(c)') <= Cardinality(PublishedBy(c)) + 1
<1>1. PublishedBy(c) \subseteq Jobs /\ PublishedBy(c)' \subseteq Jobs
  BY DEF PublishedBy
<1>2. ASSUME NEW p, NEW j, published' \subseteq published \cup {<<p, j>>}
      PROVE  /\ PublishedBy(c)' \subseteq PublishedBy(c) \cup {j}
             /\ p # c => PublishedBy(c)' \subseteq PublishedBy(c)
  BY <1>2 DEF PublishedBy
<1>3. PublishedBy(c) \subseteq PublishedBy(c)'
  BY PublishedGrows DEF PublishedBy
<1>4. CASE published' = published
  BY <1>1, <1>4, JobsFinite DEF PublishedBy
<1>5. ASSUME NEW d \in Confirmers, ConfirmNext(d), PublishJob(d)
      PROVE  \/ PublishedBy(c)' = PublishedBy(c)
             \/ /\ ConfirmNext(c) /\ PublishJob(c)
                /\ Cardinality(PublishedBy(c)') <= Cardinality(PublishedBy(c)) + 1
  <2>1. published' \subseteq published \cup {<<d, CurrentJob(d)>>}
    BY <1>5, PublishEffect DEF PublishJob
  <2>2. CASE d # c
    <3>1. PublishedBy(c)' \subseteq PublishedBy(c)
      BY <1>2, <2>1, <2>2
    <3> QED
      BY <1>3, <3>1
  <2>3. CASE d = c
    <3> DEFINE old == PublishedBy(c)
               new == PublishedBy(c)'
               j   == CurrentJob(c)
    <3>1. new \subseteq old \cup {j}
      BY <1>2, <2>1, <2>3
    <3>2. IsFiniteSet(old)
      BY <1>1, JobsFinite
    <3> HIDE DEF old, new, j
    <3>3. /\ IsFiniteSet(old \cup {j})
          /\ Cardinality(old) \in Nat
          /\ Cardinality(old \cup {j}) \in Nat
          /\ Cardinality(old \cup {j}) <= Cardinality(old) + 1
      BY <3>2, FS_AddElement, FS_CardinalityType
    <3>4. IsFiniteSet(new) /\ Cardinality(new) <= Cardinality(old \cup {j})
      BY <3>1, <3>3, FS_Subset
    <3>5. Cardinality(new) \in Nat
      BY <3>4, FS_CardinalityType
    <3>6. Cardinality(new) <= Cardinality(old) + 1
      BY <3>3, <3>4, <3>5
    <3> QED
      BY <1>5, <2>3, <3>6 DEF old, new
  <2> QED
    BY <2>2, <2>3
<1>6. ASSUME NEW r \in Restarters, RestartPublish(r)
      PROVE  PublishedBy(c)' = PublishedBy(c)
  <2>1. PICK j : published' \subseteq published \cup {<<r, j>>}
    BY <1>6, PublishEffect DEF RestartPublish
  <2>2. r # c
    BY RequestsAssumption
  <2>3. PublishedBy(c)' \subseteq PublishedBy(c)
    BY <1>2, <2>1, <2>2
  <2> QED
    BY <1>3, <2>3
<1>7. Cardinality(PublishedBy(c)) \in Nat /\ Cardinality(PublishedBy(c)') \in Nat
  BY <1>1, JobsFinite
<1> QED
  BY <1>4, <1>5, <1>6, <1>7, PublishedChange

\* Only BlockBatch reserves, and it reserves the requested count.
LEMMA ReservedChange ==
    ASSUME TypeOK, [Next]_vars, NEW c \in Confirmers
    PROVE  \/ reserved'[c] = reserved[c]
           \/ /\ ConfirmNext(c) /\ conf[c].pc = "block"
              /\ reserved'[c] = conf[c].count
<1> USE DEF storeVars
<1>1. ASSUME NEW d \in Confirmers, ConfirmNext(d)
      PROVE  \/ reserved' = reserved
             \/ conf[d].pc = "block" /\ reserved' = [reserved EXCEPT ![d] = conf[d].count]
  <2>1. CASE BlockBatch(d)
    BY <2>1 DEF BlockBatch
  <2>2. CASE ~BlockBatch(d)
    BY <1>1, <2>2 DEF ConfirmNext, StartConfirm, ConfirmStep, CrashConfirm,
       CheckApproved, LoadForTx, SaveTx, GetJobs, NextJob, PublishJob, MarkQueued,
       EndLoop, RefundAssigned, LoadForCancel, SaveCancelled, MarkRefunded, EndRollback
  <2> QED
    BY <2>1, <2>2
<1>2. ASSUME NEW x \in Cancellers, CancelNext(x)
      PROVE  reserved' = reserved
  BY <1>2 DEF CancelNext, StartCancel, CancelStep, CrashCancel, CancelLoad, CancelSave,
     CancelRefund, CancelJobs, CancelMark, CancelMarked, CancelClear
<1>3. ASSUME NEW k \in Consumers, ConsumerNext(k)
      PROVE  reserved' = reserved
  BY <1>3 DEF ConsumerNext, ConsumerStep, StopConsumer, CrashConsumer, Poll,
     StoreResult, CountJobs, LoadBatch, SaveBatch
<1>4. ASSUME NEW r \in Restarters, RestartNext(r)
      PROVE  reserved' = reserved
  BY <1>4 DEF RestartNext, StartRestart, RestartStep, CrashRestart, RestartJobs,
     RestartPublish, RestartMark, RestartEndLoop, RestartLoad, RestartSave
<1>5. ASSUME NEW g \in Configurers, ConfigNext(g)
      PROVE  reserved' = reserved
  BY <1>5 DEF ConfigNext, StartConfig, ConfigStep, CrashConfig, ConfigLoad, ConfigSave
<1>6. ASSUME GenerateNext \/ UNCHANGED vars
      PROVE  reserved' = reserved
  BY <1>6 DEF GenerateNext, Generate, vars
<1>7. reserved \in [Confirmers -> Nat]
  BY DEF TypeOK, StoreTypeOK
<1> QED
  BY <1>1, <1>2, <1>3, <1>4, <1>5, <1>6, <1>7 DEF Next

\* A confirmation that does not move stays within its reservation.
LEMMA ReserveOthers ==
    ASSUME TypeOK, ReserveInv, [Next]_vars, NEW c \in Confirmers, ~ConfirmNext(c)
    PROVE  WithinReserve(c)'
<1>1. conf'[c] = conf[c]
  BY ConfirmOthers DEF Next, vars, localVars, CancelNext, ConsumerNext, RestartNext,
     ConfigNext, GenerateNext
<1>2. Sent(c)' = Sent(c) /\ reserved'[c] = reserved[c]
  BY SentStep, ReservedChange DEF Sent
<1> QED
  BY <1>1, <1>2 DEF ReserveInv, WithinReserve

\* Each step of the loop stays within the reservation.
LEMMA ReserveMove ==
    ASSUME TypeOK, LoopInv, ReserveInv, [Next]_vars,
           NEW c \in Confirmers, ConfirmNext(c)
    PROVE  WithinReserve(c)'
<1> DEFINE old == Sent(c)
           new == Sent(c)'
           pos == conf[c].pos
           res == reserved[c]
<1>1. /\ old \in Nat /\ new \in Nat /\ pos \in Nat \ {0}
      /\ res \in Nat /\ conf[c].count \in Nat
  BY SentStep DEF Sent, TypeOK, StoreTypeOK, ConfirmState
<1>2. WithinReserve(c)
  BY DEF ReserveInv
<1>3. /\ conf[c].pc # "publish" => new = old
      /\ new <= old + 1
  <2>1. PublishJob(c) => conf[c].pc = "publish"
    BY DEF PublishJob
  <2>2. \/ new = old
        \/ PublishJob(c) /\ new <= old + 1
    BY SentStep DEF Sent
  <2> HIDE DEF old, new
  <2> QED
    BY <1>1, <2>1, <2>2
<1>4. conf[c].pc # "block" => reserved'[c] = res
  BY ReservedChange
<1>5. conf[c].pc = "publish" => old + 1 <= res
  <2>1. conf[c].pc = "publish" => pos <= LastPos(c) /\ conf[c].count = res /\ old < pos
    BY <1>2 DEF LoopInv, WithinReserve
  <2>2. LastPos(c) <= conf[c].count
    BY <1>1, NJobsAssumption DEF LastPos, Least
  <2>3. LastPos(c) \in Nat
    BY <1>1, NJobsAssumption DEF LastPos, Least
  <2> HIDE DEF old, pos, res
  <2> QED
    BY <1>1, <2>1, <2>2, <2>3
<1>6. new <= reserved'[c]
  <2>1. CASE conf[c].pc = "block"
    <3>1. old < 1 /\ new = old
      BY <1>2, <1>3, <2>1 DEF WithinReserve
    <3>2. reserved'[c] \in Nat
      BY <1>1, ReservedChange
    <3> QED
      BY <1>1, <3>1, <3>2
  <2>2. CASE conf[c].pc # "block"
    BY <1>1, <1>2, <1>3, <1>4, <1>5, <2>2 DEF WithinReserve
  <2> QED
    BY <2>1, <2>2
<1>7. CASE conf'[c].pc \in Ended \cup Rollback
  BY <1>6, <1>7 DEF WithinReserve, Ended, Rollback
<1>8. CASE Move(c, {"idle"}, {"check"}) /\ conf'[c].pos = conf[c].pos
  BY <1>2, <1>3, <1>6, <1>8 DEF WithinReserve, Move
<1>9. CASE Move(c, {"check"}, {"block"}) /\ Still(c)
  BY <1>2, <1>3, <1>6, <1>9 DEF WithinReserve, Move, Still
<1>10. CASE /\ BlockBatch(c) /\ Move(c, {"block"}, {"loadTx", "jobs"}) /\ Still(c)
            /\ reserved' = [reserved EXCEPT ![c] = conf[c].count]
  <2>1. reserved'[c] = conf[c].count
    BY <1>10 DEF TypeOK, StoreTypeOK
  <2> QED
    BY <1>2, <1>3, <1>6, <1>10, <2>1 DEF WithinReserve, Move, Still
<1>11. CASE \/ Move(c, {"loadTx"}, {"saveTx", "jobs"}) /\ Still(c)
            \/ Move(c, {"saveTx"}, {"jobs"}) /\ Still(c)
            \/ NextJob(c) /\ Move(c, {"next"}, {"publish"}) /\ Still(c)
  BY <1>2, <1>3, <1>4, <1>6, <1>11 DEF WithinReserve, Move, Still
<1>12. CASE Move(c, {"jobs"}, {"next"}) /\ conf'[c].pos = conf[c].pos
            /\ conf'[c].count = conf[c].count
  BY <1>2, <1>3, <1>4, <1>6, <1>12 DEF WithinReserve, Move
<1>13. CASE Move(c, {"publish"}, {"mark"}) /\ Still(c)
  <2>1. new <= pos
    BY <1>1, <1>2, <1>3, <1>13 DEF WithinReserve, Move
  <2> QED
    BY <1>2, <1>4, <1>6, <1>13, <2>1 DEF WithinReserve, Move, Still
<1>14. CASE Move(c, {"publish", "mark"}, {"next"}) /\ Turn(c)
  <2>1. new < pos + 1
    BY <1>1, <1>2, <1>3, <1>14 DEF WithinReserve, Move
  <2> QED
    BY <1>2, <1>4, <1>6, <1>14, <2>1 DEF WithinReserve, Move, Turn
<1> QED
  <2> HIDE DEF old, new, pos, res
  <2> QED
    BY <1>7, <1>8, <1>9, <1>10, <1>11, <1>12, <1>13, <1>14, ConfirmMoves DEF Move

\* Initially nothing is reserved and nothing is sent.
LEMMA ReserveInit == Init => ReserveInv
<1> SUFFICES ASSUME Init, NEW c \in Confirmers PROVE WithinReserve(c)
  BY DEF ReserveInv
<1>1. PublishedBy(c) = {}
  BY DEF PublishedBy, Init, StoreInit
<1>2. Sent(c) = 0
  BY <1>1, FS_EmptySet DEF Sent
<1>3. conf[c].pc = "idle" /\ conf[c].pos = 1 /\ reserved[c] = 0
  BY DEF Init, StoreInit, ConfirmInit, ConfirmFresh
<1> QED
  BY <1>2, <1>3 DEF WithinReserve

---------------------------------------------------------------------------
(***************************************************************************)
(* The theorems                                                            *)
(***************************************************************************)

\* The invariant is inductive: it holds of what an upload leaves behind, and
\* every call that a request or a consumer makes keeps it.
THEOREM Invariance == Spec => []Inv
<1>1. Init => Inv
  BY TypeInit, PublishInit, RowInit, TxInit, ReserveInit DEF Inv
<1>2. Inv /\ [Next]_vars => Inv'
  <2> SUFFICES ASSUME Inv, [Next]_vars PROVE Inv'
    OBVIOUS
  <2>1. TypeOK /\ LoopInv /\ PublishInv /\ RowInv /\ TxInv /\ ReserveInv
    BY DEF Inv
  <2>2. TypeOK' /\ LoopInv'
    BY <2>1, TypeStep, LoopStep
  <2>3. PublishInv'
    BY <2>1, PublishStep
  <2>4. RowInv'
    BY <2>1, <2>2, RowStep
  <2>5. TxInv'
    BY <2>1, TxStep
  <2>6. ReserveInv'
    <3>1. \A c \in Confirmers : WithinReserve(c)'
      BY <2>1, ReserveOthers, ReserveMove
    <3> QED
      BY <3>1 DEF ReserveInv
  <2> QED
    BY <2>2, <2>3, <2>4, <2>5, <2>6 DEF Inv
<1> QED
  BY <1>1, <1>2, PTL DEF Spec

\* Every variable keeps its type: rows hold only the statuses and columns of
\* the domain, and no request leaves the bounds of its job list.
THEOREM TypeCorrect == Spec => []TypeOK
<1>1. Inv => TypeOK
  BY DEF Inv
<1> QED
  BY <1>1, Invariance, PTL

\* ConfirmBatch and HandleAdminRestartBatch publish before they update the row:
\* no row says queued, completed or failed unless the job was published.
THEOREM QueuedIsPublished == Spec => []QueuedAfterPublish
<1>1. Inv => QueuedAfterPublish
  BY DEF Inv, PublishInv
<1> QED
  BY <1>1, Invariance, PTL

\* Whole rows read earlier and written back by OnJobStatusChange, SetCancelled,
\* SetProcessing and the configuration handler never mix into a row that says
\* completed without all its jobs counted and a completion time.
THEOREM BatchRowCorrect == Spec => []BatchRowConsistent
<1>1. Inv => BatchRowConsistent
  BY DEF Inv, RowInv, BatchRowConsistent
<1> QED
  BY <1>1, Invariance, PTL

\* The loop of ConfirmBatch sends no more jobs than BlockBatch has blocked
\* units for, whatever fails on the way.
THEOREM NoOverrun == Spec => []PublishedWithinReserve
<1>1. Inv => PublishedWithinReserve
  BY DEF Inv, ReserveInv, WithinReserve, Sent, PublishedWithinReserve
<1> QED
  BY <1>1, Invariance, PTL

\* Neither the rollback of ConfirmBatch nor SetCancelled refunds a transaction
\* that billing did not issue.
THEOREM RefundsCorrect == Spec => []RefundsWereIssued
<1>1. Inv => RefundsWereIssued
  BY DEF Inv, TxInv
<1> QED
  BY <1>1, Invariance, PTL
====
