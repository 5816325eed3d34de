------------------------ MODULE BatchProgress_proofs ------------------------
(***************************************************************************)
(* Proofs about the columns of the batch row and of the job rows that      *)
(* several handlers write from copies of their own: the allowance, the     *)
(* progress, and the jobs that are marked refunded; and about what a batch *)
(* comes to: the outcome of a job that was sent, the completion of the     *)
(* batch and the answer of a confirmation.                                 *)
(***************************************************************************)
EXTENDS BatchRefinement_proofs

---------------------------------------------------------------------------
(***************************************************************************)
(* Who holds a copy of the row to write it back                            *)
(***************************************************************************)

\* Only whoever is about to save writes the row.
LEMMA Writer ==
    ASSUME [Next]_vars, batch' # batch
    PROVE  \/ \E c \in Confirmers :
                 /\ conf[c].pc = "saveTx"
                 /\ batch' = ToPostgres([conf[c].row EXCEPT
                                           !.txs = {c} \X (1 .. conf[c].ids)])
           \/ \E c \in Confirmers :
                 /\ conf[c].pc = "saveRow"
                 /\ batch' = ToPostgres([conf[c].row EXCEPT !.status = "cancelled"])
           \/ \E x \in Cancellers :
                 /\ canc[x].pc \in {"save", "clear"}
                 /\ batch' \in {ToPostgres(canc[x].row),
                                ToPostgres([canc[x].row EXCEPT !.txs = {}])}
           \/ \E k \in Consumers : cons[k].pc = "save" /\ batch' = ToPostgres(cons[k].row)
           \/ \E r \in Restarters : rest[r].pc = "save" /\ batch' = ToPostgres(rest[r].row)
           \/ \E g \in Configurers : cong[g].pc = "save" /\ batch' = ToPostgres(cong[g].row)
<1> USE DEF UpdateBatch, storeVars
<1>1. ASSUME NEW c \in Confirmers, ConfirmNext(c)
      PROVE  \/ /\ conf[c].pc = "saveTx"
                /\ batch' = ToPostgres([conf[c].row EXCEPT
                                           !.txs = {c} \X (1 .. conf[c].ids)])
             \/ /\ conf[c].pc = "saveRow"
                /\ batch' = ToPostgres([conf[c].row EXCEPT !.status = "cancelled"])
  BY <1>1 DEF ConfirmNext, StartConfirm, ConfirmStep, CrashConfirm, CheckApproved,
     BlockBatch, LoadForTx, SaveTx, GetJobs, NextJob, PublishJob, MarkQueued, EndLoop,
     RefundAssigned, LoadForCancel, SaveCancelled, MarkRefunded, EndRollback
<1>2. ASSUME NEW x \in Cancellers, CancelNext(x)
      PROVE  /\ canc[x].pc \in {"save", "clear"}
             /\ batch' \in {ToPostgres(canc[x].row),
                            ToPostgres([canc[x].row EXCEPT !.txs = {}])}
  BY <1>2 DEF CancelNext, StartCancel, CancelStep, CrashCancel, CancelLoad, CancelSave,
     CancelRefund, CancelJobs, CancelMark, CancelMarked, CancelClear, CancelAt
<1>3. ASSUME NEW k \in Consumers, ConsumerNext(k)
      PROVE  cons[k].pc = "save" /\ batch' = ToPostgres(cons[k].row)
  BY <1>3 DEF ConsumerNext, ConsumerStep, StopConsumer, CrashConsumer, Poll,
     StoreResult, CountJobs, LoadBatch, SaveBatch
<1>4. ASSUME NEW r \in Restarters, RestartNext(r)
      PROVE  rest[r].pc = "save" /\ batch' = ToPostgres(rest[r].row)
  BY <1>4 DEF RestartNext, StartRestart, RestartStep, CrashRestart, RestartJobs,
     RestartPublish, RestartMark, RestartEndLoop, RestartLoad, RestartSave, RestartAt
<1>5. ASSUME NEW g \in Configurers, ConfigNext(g)
      PROVE  cong[g].pc = "save" /\ batch' = ToPostgres(cong[g].row)
  BY <1>5 DEF ConfigNext, StartConfig, ConfigStep, CrashConfig, ConfigLoad, ConfigSave,
     ConfigAt
<1> QED
  BY <1>1, <1>2, <1>3, <1>4, <1>5, GenerateFrame DEF Next

\* The copy of whoever is about to save is the row as it is now, or the copy
\* that he had.
LEMMA ConfirmCopy ==
    ASSUME TypeOK, NEW c \in Confirmers, ConfirmNext(c),
           conf'[c].pc \in {"saveTx", "saveRow"}
    PROVE  conf'[c].row = batch /\ batch' = batch
<1> USE DEF storeVars
<1>1. conf \in [Confirmers -> ConfirmState]
  BY DEF TypeOK
<1>2. LoadForTx(c) \/ LoadForCancel(c)
  <2>1. CASE StartConfirm(c)
    BY <1>1, <2>1 DEF StartConfirm, ConfirmState
  <2>2. CASE CheckApproved(c) \/ GetJobs(c) \/ EndLoop(c) \/ RefundAssigned(c)
             \/ EndRollback(c) \/ CrashConfirm(c)
    <3>1. \/ \E pc \in ConfirmPc \ {"saveTx", "saveRow"} : Answer(c, pc) \/ Goto(c, pc)
          \/ \E o : conf' = [conf EXCEPT ![c].pc = "next", ![c].order = o]
      BY <2>2 DEF CheckApproved, GetJobs, EndLoop, RefundAssigned, EndRollback,
         CrashConfirm, ConfirmPc
    <3> QED
      BY <1>1, <3>1, AnswerFields, GotoFields DEF ConfirmState
  <2>3. CASE BlockBatch(c)
    <3>1. \/ \E pc \in ConfirmPc \ {"saveTx", "saveRow"} : Answer(c, pc)
          \/ \E k, pc : pc # "saveTx" /\ pc # "saveRow" /\
                conf' = [conf EXCEPT ![c].ids = k, ![c].pc = pc]
      BY <2>3 DEF BlockBatch, ConfirmPc
    <3> QED
      BY <1>1, <3>1, AnswerFields DEF ConfirmState
  <2>4. CASE SaveTx(c) \/ NextJob(c) \/ SaveCancelled(c)
    BY <1>1, <2>4 DEF SaveTx, NextJob, SaveCancelled, ConfirmState
  <2>5. CASE PublishJob(c) \/ MarkQueued(c)
    BY <1>1, <2>5 DEF PublishJob, MarkQueued, ConfirmState
  <2>6. CASE MarkRefunded(c)
    BY <1>1, <2>6 DEF MarkRefunded, ConfirmState
  <2> QED
    BY <2>1, <2>2, <2>3, <2>4, <2>5, <2>6 DEF ConfirmNext, ConfirmStep
<1>3. CASE LoadForTx(c)
  BY <1>1, <1>3, GotoFields DEF LoadForTx, ConfirmState, ConfirmPc
<1>4. CASE LoadForCancel(c)
  BY <1>1, <1>4 DEF LoadForCancel, ConfirmState
<1> QED
  BY <1>2, <1>3, <1>4

Holding == {"save", "refund", "jobs", "mark", "clear"}

LEMMA CancelCopy ==
    ASSUME TypeOK, NEW x \in Cancellers, CancelNext(x), canc'[x].pc \in Holding
    PROVE  \/ canc'[x].row = [batch EXCEPT !.status = "cancelled"] /\ canc'[x].pc = "save"
           \/ canc'[x].row = canc[x].row /\ canc[x].pc \in Holding
<1> USE DEF CancelAt, Holding, CancelGoto
<1>1. canc \in [Cancellers -> CancelState]
  BY DEF TypeOK
<1>2. ASSUME NEW end \in {"done", "failed", "crashed"}, CancelAnswer(x, end)
      PROVE  FALSE
  BY <1>1, <1>2 DEF CancelAnswer, CancelFresh
<1>3. CASE StartCancel(x)
  BY <1>1, <1>3 DEF StartCancel, CancelState
<1>4. CASE CancelLoad(x)
  BY <1>1, <1>2, <1>4 DEF CancelLoad, CancelState
<1>5. CASE CancelSave(x)
  <2>1. \/ canc' = [canc EXCEPT ![x].pc = "refund"]
        \/ \E end \in {"done", "failed", "crashed"} : CancelAnswer(x, end)
    BY <1>5 DEF CancelSave
  <2> QED
    BY <1>1, <1>2, <1>5, <2>1 DEF CancelSave, CancelState
<1>6. CASE CancelRefund(x)
  BY <1>1, <1>2, <1>6 DEF CancelRefund, CancelState
<1>7. CASE CancelJobs(x)
  BY <1>1, <1>7 DEF CancelJobs, CancelState
<1>8. CASE CancelMark(x)
  BY <1>1, <1>8 DEF CancelMark, CancelState
<1>9. CASE CancelMarked(x)
  BY <1>1, <1>9 DEF CancelMarked, CancelState
<1>10. CASE CancelClear(x)
  BY <1>2, <1>10 DEF CancelClear
<1>11. CASE CrashCancel(x)
  BY <1>2, <1>11 DEF CrashCancel
<1> QED
  BY <1>3, <1>4, <1>5, <1>6, <1>7, <1>8, <1>9, <1>10, <1>11 DEF CancelNext, CancelStep

LEMMA ConsumerCopy ==
    ASSUME TypeOK, NEW k \in Consumers, ConsumerNext(k), cons'[k].pc = "save"
    PROVE  cons'[k].row = Recount(batch, cons[k].done, cons[k].failed)
<1>1. cons \in [Consumers -> ConsumerState]
  BY DEF TypeOK
<1>2. cons' # [cons EXCEPT ![k] = ConsumerIdle]
  BY <1>1 DEF ConsumerIdle
<1>3. ~Poll(k) /\ ~StopConsumer(k) /\ ~StoreResult(k)
  BY <1>1 DEF Poll, StopConsumer, StoreResult, ConsumerState
<1>4. ~CountJobs(k)
  BY <1>1, <1>2 DEF CountJobs, ConsumerState
<1>5. ~SaveBatch(k) /\ ~CrashConsumer(k)
  BY <1>2 DEF SaveBatch, CrashConsumer
<1>6. LoadBatch(k)
  BY <1>3, <1>4, <1>5 DEF ConsumerNext, ConsumerStep
<1> QED
  BY <1>1, <1>2, <1>6 DEF LoadBatch, ConsumerState

LEMMA RestartCopy ==
    ASSUME TypeOK, NEW r \in Restarters, RestartNext(r), rest'[r].pc = "save"
    PROVE  rest'[r].row = [batch EXCEPT !.status = "processing"]
<1>1. rest \in [Restarters -> RestartState]
  BY DEF TypeOK
<1>2. ASSUME NEW end \in {"done", "failed", "crashed"}, RestartAnswer(r, end)
      PROVE  FALSE
  BY <1>1, <1>2 DEF RestartAnswer, RestartFresh
<1>3. ~StartRestart(r) /\ ~RestartMark(r) /\ ~RestartEndLoop(r)
  BY <1>1 DEF StartRestart, RestartMark, RestartEndLoop, RestartState
<1>4. ~RestartJobs(r)
  BY <1>1, <1>2 DEF RestartJobs, RestartState
<1>5. ~RestartPublish(r)
  <2> SUFFICES ASSUME RestartPublish(r) PROVE FALSE
    OBVIOUS
  <2>1. \E pc \in {"mark", "next"} : \E todo, job :
           rest' = [rest EXCEPT ![r].pc = pc, ![r].todo = todo, ![r].job = job]
    BY DEF RestartPublish
  <2> QED
    BY <1>1, <2>1 DEF RestartState
<1>6. ~RestartSave(r) /\ ~CrashRestart(r)
  BY <1>2 DEF RestartSave, CrashRestart
<1>7. RestartLoad(r)
  BY <1>3, <1>4, <1>5, <1>6 DEF RestartNext, RestartStep
<1> QED
  BY <1>1, <1>2, <1>7 DEF RestartLoad, RestartState

LEMMA ConfigCopy ==
    ASSUME TypeOK, NEW g \in Configurers, ConfigNext(g), cong'[g].pc = "save"
    PROVE  cong'[g].row = [batch EXCEPT !.config = TRUE]
<1>1. cong \in [Configurers -> ConfigState]
  BY DEF TypeOK
<1>2. ASSUME NEW end \in {"done", "failed", "crashed"}, ConfigAnswer(g, end)
      PROVE  FALSE
  BY <1>1, <1>2 DEF ConfigAnswer, ConfigFresh
<1>3. ~StartConfig(g)
  BY <1>1 DEF StartConfig, ConfigState
<1>4. ~ConfigSave(g) /\ ~CrashConfig(g)
  <2>1. ASSUME ConfigSave(g)
        PROVE  \E end \in {"done", "failed", "crashed"} : ConfigAnswer(g, end)
    BY <2>1 DEF ConfigSave
  <2> QED
    BY <1>2, <2>1 DEF CrashConfig
<1>5. ConfigLoad(g)
  BY <1>3, <1>4 DEF ConfigNext, ConfigStep
<1>6. ~ConfigAnswer(g, "failed")
  BY <1>2
<1>7. cong' = [cong EXCEPT ![g].pc = "save", ![g].row = [batch EXCEPT !.config = TRUE]]
  BY <1>5, <1>6 DEF ConfigLoad
<1> QED
  BY <1>1, <1>7 DEF ConfigState

---------------------------------------------------------------------------
(***************************************************************************)
(* The allowance                                                           *)
(***************************************************************************)

\* No write of the row changes the approved count: whoever writes it back read
\* it from the row.
LEMMA ApprovedStays ==
    ASSUME TypeOK, ApprovedInv, [Next]_vars
    PROVE  batch'.approved = batch.approved
<1>1. /\ \A c \in Confirmers : conf[c].row \in BatchRow
      /\ \A x \in Cancellers : canc[x].row \in BatchRow
      /\ \A k \in Consumers : cons[k].row \in BatchRow
      /\ \A r \in Restarters : rest[r].row \in BatchRow
      /\ \A g \in Configurers : cong[g].row \in BatchRow
  BY DEF TypeOK, ConfirmState, CancelState, ConsumerState, RestartState, ConfigState
<1>2. ASSUME NEW b \in BatchRow
      PROVE  /\ ToPostgres(b).approved = b.approved
             /\ \A t : ToPostgres([b EXCEPT !.txs = t]).approved = b.approved
             /\ \A s : ToPostgres([b EXCEPT !.status = s]).approved = b.approved
  BY DEF ToPostgres, BatchRow
<1>3. ASSUME NEW c \in Confirmers, conf[c].pc \in {"saveTx", "saveRow"}
      PROVE  conf[c].row.approved = batch.approved
  BY <1>3 DEF ApprovedInv
<1>4. ASSUME NEW c \in Confirmers, conf[c].pc \in {"saveTx", "saveRow"}, NEW txs, NEW status,
             \/ batch' = ToPostgres([conf[c].row EXCEPT !.txs = txs])
             \/ batch' = ToPostgres([conf[c].row EXCEPT !.status = status])
      PROVE  batch'.approved = batch.approved
  <2>1. conf[c].row \in BatchRow
    BY <1>1
  <2>2. batch'.approved = conf[c].row.approved
    BY <1>2, <1>4, <2>1
  <2> QED
    BY <1>3, <1>4, <2>2
<1>5. ASSUME NEW x \in Cancellers, canc[x].pc \in {"save", "clear"},
             batch' \in {ToPostgres(canc[x].row), ToPostgres([canc[x].row EXCEPT !.txs = {}])}
      PROVE  batch'.approved = batch.approved
  BY <1>1, <1>2, <1>5 DEF ApprovedInv
<1>6. ASSUME NEW k \in Consumers, cons[k].pc = "save", batch' = ToPostgres(cons[k].row)
      PROVE  batch'.approved = batch.approved
  BY <1>1, <1>2, <1>6 DEF ApprovedInv
<1>7. ASSUME NEW r \in Restarters, rest[r].pc = "save", batch' = ToPostgres(rest[r].row)
      PROVE  batch'.approved = batch.approved
  BY <1>1, <1>2, <1>7 DEF ApprovedInv
<1>8. ASSUME NEW g \in Configurers, cong[g].pc = "save", batch' = ToPostgres(cong[g].row)
      PROVE  batch'.approved = batch.approved
  BY <1>1, <1>2, <1>8 DEF ApprovedInv
<1> QED
  BY <1>4, <1>5, <1>6, <1>7, <1>8, Writer

\* A confirmation goes on to billing only within the allowance, if its read of
\* the row succeeds.
LEMMA BlockedWithinApproved ==
    ASSUME TypeOK, ApprovedInv, [Next]_vars, ~DbErrors, batch.approved > 0,
           NEW c \in Confirmers
    PROVE  /\ conf'[c].pc = "block" => conf'[c].count <= batch.approved
           /\ reserved'[c] <= batch.approved
<1>1. conf \in [Confirmers -> ConfirmState]
  BY DEF TypeOK
<1>2. conf[c].pc = "block" => conf[c].count <= batch.approved
  BY DEF ApprovedInv
<1>3. reserved[c] <= batch.approved
  BY DEF ApprovedInv
<1>4. reserved'[c] <= batch.approved
  BY <1>2, <1>3, ReservedChange
<1>5. ASSUME ConfirmNext(c), conf'[c].pc = "block"
      PROVE  conf'[c].count <= batch.approved
  <2>1. Move(c, {"check"}, {"block"}) /\ conf'[c].count = conf[c].count
    BY <1>5, ConfirmMoves DEF Move, Still, Turn, Ended, Rollback
  <2>2. CheckApproved(c)
    <3>1. ~CrashConfirm(c)
      BY <1>5, AnswerFields DEF CrashConfirm, ConfirmPc
    <3>2. conf[c].pc = "check"
      BY <2>1 DEF Move
    <3> QED
      BY <1>5, <3>1, <3>2 DEF ConfirmNext, ConfirmStep, StartConfirm, BlockBatch,
         LoadForTx, SaveTx, GetJobs, NextJob, PublishJob, MarkQueued, EndLoop,
         RefundAssigned, LoadForCancel, SaveCancelled, MarkRefunded, EndRollback
  <2>3. \A ok \in ReadOk : ok = TRUE
    <3>1. \A out \in DbCall : out.ok = TRUE
      BY DEF DbCall, CallOutcome
    <3> QED
      BY <3>1 DEF ReadOk
  <2>4. ~Answer(c, "rejected")
    BY <1>5, AnswerFields DEF ConfirmPc
  <2>5. ~(conf[c].count > batch.approved)
    BY <2>2, <2>3, <2>4 DEF CheckApproved
  <2>6. conf[c].count \in Nat /\ batch.approved \in Nat
    BY <1>1 DEF ConfirmState, TypeOK, StoreTypeOK, BatchRow
  <2> QED
    BY <2>1, <2>5, <2>6
<1>6. ASSUME ~ConfirmNext(c)
      PROVE  conf'[c] = conf[c]
  BY <1>6, ConfirmOthers, CancelFrame, ConsumerFrame, RestartFrame, ConfigFrame,
     GenerateFrame DEF Next, localVars
<1> QED
  BY <1>2, <1>4, <1>5, <1>6

LEMMA ApprovedStep ==
    ASSUME TypeOK, ApprovedInv, [Next]_vars
    PROVE  ApprovedInv'
<1>1. batch'.approved = batch.approved
  BY ApprovedStays
<1>2. batch \in BatchRow
  BY DEF TypeOK, StoreTypeOK
<1>3. ASSUME NEW c \in Confirmers, conf'[c].pc \in {"saveTx", "saveRow"}
      PROVE  conf'[c].row.approved = batch.approved
  <2>1. CASE ConfirmNext(c)
    BY <1>3, <2>1, ConfirmCopy
  <2>2. CASE ~ConfirmNext(c)
    <3>1. conf'[c] = conf[c]
      BY <2>2, ConfirmOthers, CancelFrame, ConsumerFrame, RestartFrame, ConfigFrame,
         GenerateFrame DEF Next, localVars
    <3> QED
      BY <1>3, <3>1 DEF ApprovedInv
  <2> QED
    BY <2>1, <2>2
<1>4. ASSUME NEW x \in Cancellers, canc'[x].pc \in Holding
      PROVE  canc'[x].row.approved = batch.approved
  <2>1. CASE CancelNext(x)
    BY <1>2, <1>4, <2>1, CancelCopy DEF BatchRow, ApprovedInv, Holding
  <2>2. CASE ~CancelNext(x)
    <3>1. canc'[x] = canc[x]
      BY <2>2, ConfirmFrame, CancelRow, ConsumerFrame, RestartFrame, ConfigFrame,
         GenerateFrame DEF Next, localVars
    <3> QED
      BY <1>4, <3>1 DEF ApprovedInv, Holding
  <2> QED
    BY <2>1, <2>2
<1>5. ASSUME NEW k \in Consumers, cons'[k].pc = "save"
      PROVE  cons'[k].row.approved = batch.approved
  <2>1. CASE ConsumerNext(k)
    BY <1>2, <1>5, <2>1, ConsumerCopy DEF Recount, BatchRow
  <2>2. CASE ~ConsumerNext(k)
    <3>1. cons'[k] = cons[k]
      BY <2>2, ConfirmFrame, CancelFrame, ConsumerRow, RestartFrame, ConfigFrame,
         GenerateFrame DEF Next, localVars
    <3> QED
      BY <1>5, <3>1 DEF ApprovedInv
  <2> QED
    BY <2>1, <2>2
<1>6. ASSUME NEW r \in Restarters, rest'[r].pc = "save"
      PROVE  rest'[r].row.approved = batch.approved
  <2>1. CASE RestartNext(r)
    BY <1>2, <1>6, <2>1, RestartCopy DEF BatchRow
  <2>2. CASE ~RestartNext(r)
    <3>1. rest'[r] = rest[r]
      BY <2>2, ConfirmFrame, CancelFrame, ConsumerFrame, RestartRow, ConfigFrame,
         GenerateFrame DEF Next, localVars
    <3> QED
      BY <1>6, <3>1 DEF ApprovedInv
  <2> QED
    BY <2>1, <2>2
<1>7. ASSUME NEW g \in Configurers, cong'[g].pc = "save"
      PROVE  cong'[g].row.approved = batch.approved
  <2>1. CASE ConfigNext(g)
    BY <1>2, <1>7, <2>1, ConfigCopy DEF BatchRow
  <2>2. CASE ~ConfigNext(g)
    <3>1. cong'[g] = cong[g]
      BY <2>2, ConfirmFrame, CancelFrame, ConsumerFrame, RestartFrame, ConfigRow,
         GenerateFrame DEF Next, localVars
    <3> QED
      BY <1>7, <3>1 DEF ApprovedInv
  <2> QED
    BY <2>1, <2>2
<1>8. ~DbErrors /\ batch'.approved > 0 => \A c \in Confirmers :
         /\ conf'[c].pc = "block" => conf'[c].count <= batch'.approved
         /\ reserved'[c] <= batch'.approved
  BY <1>1, BlockedWithinApproved
<1> QED
  BY <1>1, <1>3, <1>4, <1>5, <1>6, <1>7, <1>8 DEF ApprovedInv, Holding

LEMMA ApprovedStart == Init => ApprovedInv
<1> SUFFICES ASSUME Init PROVE ApprovedInv
  OBVIOUS
<1>1. batch \in BatchRow
  BY TypeInit DEF TypeOK, StoreTypeOK
<1>2. batch.approved \in Nat
  BY <1>1 DEF BatchRow
<1> QED
  BY <1>2 DEF Init, StoreInit, ConfirmInit, ConfirmFresh, CancelInit, CancelFresh,
     ConsumerInit, ConsumerIdle, AdminInit, RestartFresh, ConfigFresh, ApprovedInv

LEMMA ApprovedInvariance == Spec => [](Inv /\ ApprovedInv)
<1>1. Inv /\ ApprovedInv /\ [Next]_vars => ApprovedInv'
  BY ApprovedStep DEF Inv
<1> QED
  BY <1>1, ApprovedStart, Invariance, PTL DEF Spec

\* The comparison of HandleConfirm holds for what is blocked later: as long as
\* reads of the row succeed, no confirmation blocks more than the approved count,
\* although cancellations, restarts and results write the row meanwhile.
THEOREM AllowanceKept == Spec => []ReserveWithinApproved
<1>1. ApprovedInv => ReserveWithinApproved
  BY DEF ApprovedInv, ReserveWithinApproved
<1> QED
  BY <1>1, ApprovedInvariance, PTL

\* The approved count that FinalizeAfterUpload stored is never changed by any
\* handler that writes the row back.
THEOREM AllowanceFixed == Spec => [][batch'.approved = batch.approved]_vars
<1>1. Inv /\ ApprovedInv /\ [Next]_vars => [batch'.approved = batch.approved]_vars
  BY ApprovedStays DEF Inv
<1> QED
  BY <1>1, ApprovedInvariance, PTL DEF Spec

---------------------------------------------------------------------------
(***************************************************************************)
(* The progress                                                            *)
(***************************************************************************)

\* No row, copy or count is ahead of n jobs.
RowsWithin(n) ==
    /\ batch.done <= n
    /\ \A c \in Confirmers : conf[c].row.done <= n
    /\ \A x \in Cancellers : canc[x].row.done <= n
    /\ \A k \in Consumers : cons[k].row.done <= n /\ cons[k].done <= n
    /\ \A r \in Restarters : rest[r].row.done <= n
    /\ \A g \in Configurers : cong[g].row.done <= n

\* A consumer's count is its old one, the present one or none.
LEMMA ConsumerCount ==
    ASSUME TypeOK, NEW k \in Consumers, ConsumerNext(k)
    PROVE  cons'[k].done \in
              {cons[k].done, Cardinality(JobsIn(JobStatus \ ActiveStatus)), 0}
<1>1. cons \in [Consumers -> ConsumerState]
  BY DEF TypeOK
<1>2. ASSUME cons' = [cons EXCEPT ![k] = ConsumerIdle]
      PROVE  cons'[k].done = 0
  BY <1>1, <1>2 DEF ConsumerIdle
<1>3. CASE Poll(k) \/ StopConsumer(k) \/ StoreResult(k)
  BY <1>1, <1>3 DEF Poll, StopConsumer, StoreResult, ConsumerState
<1>4. CASE CountJobs(k)
  <2>1. \/ cons' = [cons EXCEPT ![k] = ConsumerIdle]
        \/ cons' = [cons EXCEPT
                      ![k].pc = "row",
                      ![k].done = Cardinality(JobsIn(JobStatus \ ActiveStatus)),
                      ![k].failed = Cardinality(JobsIn({"failed"}))]
    BY <1>4 DEF CountJobs
  <2> QED
    BY <1>1, <1>2, <2>1 DEF ConsumerState
<1>5. CASE LoadBatch(k)
  <2>1. \/ cons' = [cons EXCEPT ![k] = ConsumerIdle]
        \/ cons' = [cons EXCEPT
                      ![k].pc = "save",
                      ![k].row = Recount(batch, cons[k].done, cons[k].failed)]
    BY <1>5 DEF LoadBatch
  <2> QED
    BY <1>1, <1>2, <2>1 DEF ConsumerState
<1>6. CASE SaveBatch(k) \/ CrashConsumer(k)
  BY <1>2, <1>6 DEF SaveBatch, CrashConsumer
<1> QED
  BY <1>3, <1>4, <1>5, <1>6 DEF ConsumerNext, ConsumerStep

\* Whatever bounds the copies, and the jobs that a query would count now, bounds
\* the copies that a step leaves behind.
LEMMA RowsWithinStep ==
    ASSUME TypeOK, [Next]_vars, NEW n \in Nat, RowsWithin(n),
           Cardinality(JobsIn(JobStatus \ ActiveStatus)) <= n
    PROVE  RowsWithin(n)'
<1>0. NoRow.done = 0 /\ 0 <= n
  BY DEF NoRow, Uploaded
<1>1. /\ batch \in BatchRow
      /\ \A c \in Confirmers : conf[c].row \in BatchRow
      /\ \A x \in Cancellers : canc[x].row \in BatchRow
      /\ \A k \in Consumers : cons[k].row \in BatchRow
      /\ \A r \in Restarters : rest[r].row \in BatchRow
      /\ \A g \in Configurers : cong[g].row \in BatchRow
  BY DEF TypeOK, StoreTypeOK, ConfirmState, CancelState, ConsumerState, RestartState,
     ConfigState
<1>2. ASSUME NEW b \in BatchRow
      PROVE  /\ ToPostgres(b).done = b.done
             /\ [b EXCEPT !.config = TRUE].done = b.done
             /\ \A s : [b EXCEPT !.status = s].done = b.done
             /\ \A s : ToPostgres([b EXCEPT !.status = s]).done = b.done
             /\ \A t : ToPostgres([b EXCEPT !.txs = t]).done = b.done
             /\ \A d, f : Recount(b, d, f).done = d
  BY DEF ToPostgres, Recount, BatchRow
<1>3. batch'.done <= n
  <2>1. ASSUME NEW c \in Confirmers, NEW t
        PROVE  /\ ToPostgres([conf[c].row EXCEPT !.status = "cancelled"]).done <= n
               /\ ToPostgres([conf[c].row EXCEPT !.txs = t]).done <= n
    BY <1>1 DEF RowsWithin, ToPostgres, BatchRow
  <2>2. ASSUME NEW x \in Cancellers
        PROVE  /\ ToPostgres(canc[x].row).done <= n
               /\ ToPostgres([canc[x].row EXCEPT !.txs = {}]).done <= n
    BY <1>1, <1>2 DEF RowsWithin
  <2>3. /\ \A k \in Consumers : ToPostgres(cons[k].row).done <= n
        /\ \A r \in Restarters : ToPostgres(rest[r].row).done <= n
        /\ \A g \in Configurers : ToPostgres(cong[g].row).done <= n
    BY <1>1, <1>2 DEF RowsWithin
  <2> QED
    BY <2>1, <2>2, <2>3, BatchWrite DEF RowsWithin
<1>4. ASSUME NEW c \in Confirmers
      PROVE  conf'[c].row.done <= n
  <2>1. CASE ConfirmNext(c)
    BY <1>0, <2>1, ConfirmRow DEF RowsWithin
  <2>2. CASE ~ConfirmNext(c)
    BY <2>2, ConfirmOthers, CancelFrame, ConsumerFrame, RestartFrame, ConfigFrame,
       GenerateFrame DEF Next, localVars, RowsWithin
  <2> QED
    BY <2>1, <2>2
<1>5. ASSUME NEW x \in Cancellers
      PROVE  canc'[x].row.done <= n
  <2>1. CASE CancelNext(x)
    <3>1. [batch EXCEPT !.status = "cancelled"].done = batch.done
      BY <1>1 DEF BatchRow
    <3> QED
      BY <1>0, <2>1, <3>1, CancelRow DEF RowsWithin
  <2>2. CASE ~CancelNext(x)
    BY <2>2, ConfirmFrame, CancelRow, ConsumerFrame, RestartFrame, ConfigFrame,
       GenerateFrame DEF Next, localVars, RowsWithin
  <2> QED
    BY <2>1, <2>2
<1>6. ASSUME NEW k \in Consumers
      PROVE  cons'[k].row.done <= n /\ cons'[k].done <= n
  <2>1. CASE ConsumerNext(k)
    <3>1. Recount(batch, cons[k].done, cons[k].failed).done <= n
      BY <1>1, <1>2 DEF RowsWithin
    <3> QED
      BY <1>0, <2>1, <3>1, ConsumerRow, ConsumerCount DEF RowsWithin
  <2>2. CASE ~ConsumerNext(k)
    BY <2>2, ConfirmFrame, CancelFrame, ConsumerRow, RestartFrame, ConfigFrame,
       GenerateFrame DEF Next, localVars, RowsWithin
  <2> QED
    BY <2>1, <2>2
<1>7. ASSUME NEW r \in Restarters
      PROVE  rest'[r].row.done <= n
  <2>1. CASE RestartNext(r)
    <3>1. [batch EXCEPT !.status = "processing"].done = batch.done
      BY <1>1 DEF BatchRow
    <3> QED
      BY <1>0, <2>1, <3>1, RestartRow DEF RowsWithin
  <2>2. CASE ~RestartNext(r)
    BY <2>2, ConfirmFrame, CancelFrame, ConsumerFrame, RestartRow, ConfigFrame,
       GenerateFrame DEF Next, localVars, RowsWithin
  <2> QED
    BY <2>1, <2>2
<1>8. ASSUME NEW g \in Configurers
      PROVE  cong'[g].row.done <= n
  <2>1. CASE ConfigNext(g)
    <3>1. [batch EXCEPT !.config = TRUE].done = batch.done
      BY <1>1 DEF BatchRow
    <3> QED
      BY <1>0, <2>1, <3>1, ConfigRow DEF RowsWithin
  <2>2. CASE ~ConfigNext(g)
    BY <2>2, ConfirmFrame, CancelFrame, ConsumerFrame, RestartFrame, ConfigRow,
       GenerateFrame DEF Next, localVars, RowsWithin
  <2> QED
    BY <2>1, <2>2
<1> QED
  BY <1>3, <1>4, <1>5, <1>6, <1>7, <1>8 DEF RowsWithin

\* Without blockFunc a cancellation finds no transactions on the row, so it
\* refunds nothing and marks nothing.
LEMMA NothingToRefund ==
    ASSUME ~WithBlockFunc, TypeOK, TxInv, [Next]_vars, NEW x \in Cancellers,
           canc[x].pc \in {"refund", "jobs", "mark", "clear"} => canc[x].row.txs # {}
    PROVE  /\ canc[x].pc \notin {"refund", "jobs", "mark", "clear"}
           /\ canc'[x].pc \notin {"refund", "jobs", "mark", "clear"}
<1>1. canc[x].row.txs = {}
  BY DEF TxInv, SavedTx
<1>2. canc[x].pc \notin {"refund", "jobs", "mark", "clear"}
  BY <1>1
<1>3. ASSUME CancelNext(x), canc'[x].pc \in {"refund", "jobs", "mark", "clear"}
      PROVE  FALSE
  <2>1. ~StartCancel(x) /\ ~CancelLoad(x)
    BY <1>3 DEF StartCancel, CancelLoad, CancelGoto, CancelAnswer, CancelFresh, TypeOK,
       CancelState
  <2>2. ~CancelSave(x) /\ ~CrashCancel(x)
    BY <1>1, <1>3 DEF CancelSave, CrashCancel, CancelAnswer, CancelFresh, TypeOK, CancelState
  <2> QED
    BY <1>2, <1>3, <2>1, <2>2 DEF CancelNext, CancelStep, CancelRefund, CancelJobs,
       CancelMark, CancelMarked, CancelClear, CancelAt
<1>4. ASSUME ~CancelNext(x)
      PROVE  canc'[x] = canc[x]
  BY <1>4, ConfirmFrame, CancelRow, ConsumerFrame, RestartFrame, ConfigFrame,
     GenerateFrame DEF Next, localVars
<1> QED
  BY <1>2, <1>3, <1>4

\* With one confirmation nothing that was earned is lost: the only one who could
\* queue a refunded job again is the one that refunded it.
LEMMA EarnedStays ==
    ASSUME ~WithBlockFunc, Inv, LedgerInv, ProgressInv, [Next]_vars
    PROVE  Earned \subseteq Earned'
<1>1. TypeOK /\ LoopInv /\ TxInv
  BY DEF Inv
<1>2. jobs \in [Jobs -> JobRow]
  BY <1>1 DEF TypeOK, StoreTypeOK
<1>3. SUFFICES ASSUME NEW j \in Jobs, jobs[j].status = "refunded"
               PROVE  jobs'[j].status = "refunded" \/ outcomes'[j] # {}
  BY <1>1, OutcomeStays DEF Earned
<1>4. ASSUME NEW i \in Jobs, NEW s \in {"queued", "refunded"}, Marks(i, s),
             jobs' = [jobs EXCEPT ![i].status = s]
      PROVE  jobs'[j].status = "refunded" \/ outcomes'[j] # {}
  <2>1. CASE i # j \/ s = "refunded"
    BY <1>2, <1>3, <1>4, <2>1 DEF JobRow
  <2>2. CASE i = j /\ s = "queued"
    <3>1. \A c \in Confirmers : conf[c].pc # "mark"
      BY <1>3 DEF ProgressInv, Ended
    <3>2. PICK r \in Restarters : j \in rest[r].job
      BY <1>4, <2>2, <3>1 DEF Marks
    <3>3. outcomes[j] # {}
      BY <3>2 DEF LedgerInv
    <3> QED
      BY <1>1, <3>3, OutcomeStays
  <2> QED
    BY <2>1, <2>2
<1>5. ASSUME NEW i \in Jobs, NEW tx, jobs' = [jobs EXCEPT ![i].tx = tx]
      PROVE  jobs'[j].status = "refunded"
  BY <1>2, <1>3, <1>5 DEF JobRow
<1>6. ASSUME NEW m, jobs' = [jobs EXCEPT ![m.job] = ResultRow(m)],
             outcomes' = [outcomes EXCEPT ![m.job] = @ \cup {m.status}]
      PROVE  jobs'[j] = jobs[j] \/ outcomes'[j] # {}
  <2>1. outcomes \in [Jobs -> SUBSET Outcome]
    BY <1>1 DEF TypeOK, StoreTypeOK
  <2> QED
    BY <1>2, <1>6, <2>1
<1> QED
  BY <1>1, <1>3, <1>4, <1>5, <1>6, JobChange

\* A confirmation that has begun to mark jobs as refunded does nothing else any
\* more.
LEMMA LateMoves ==
    ASSUME TypeOK, NEW c \in Confirmers, ConfirmNext(c),
           conf[c].pc \in {"unqueued"} \cup Ended
    PROVE  conf'[c].pc \in {"unqueued"} \cup Ended
<1>1. CASE MarkRefunded(c)
  BY <1>1 DEF MarkRefunded, TypeOK, ConfirmState
<1>2. CASE EndRollback(c) \/ CrashConfirm(c)
  BY <1>2, AnswerFields DEF EndRollback, CrashConfirm, ConfirmPc, Ended
<1>3. ~MarkRefunded(c) /\ ~EndRollback(c) /\ ~CrashConfirm(c) => FALSE
  BY DEF ConfirmNext, ConfirmStep, StartConfirm, CheckApproved, BlockBatch,
     LoadForTx, SaveTx, GetJobs, NextJob, PublishJob, MarkQueued, EndLoop,
     RefundAssigned, LoadForCancel, SaveCancelled, Ended
<1> QED
  BY <1>1, <1>2, <1>3

\* Only the confirmation in its rollback marks a job as refunded.
LEMMA RefundedLate ==
    ASSUME ~WithBlockFunc, OneConfirmation, Inv, ProgressInv, [Next]_vars,
           NEW j \in Jobs, jobs'[j].status = "refunded", NEW c \in Confirmers
    PROVE  conf'[c].pc \in {"unqueued"} \cup Ended
<1>1. TypeOK /\ LoopInv /\ TxInv
  BY DEF Inv
<1>2. jobs \in [Jobs -> JobRow]
  BY <1>1 DEF TypeOK, StoreTypeOK
<1>3. CASE jobs[j].status = "refunded"
  <2>1. conf[c].pc \in {"unqueued"} \cup Ended
    BY <1>3 DEF ProgressInv
  <2>2. CASE ConfirmNext(c)
    BY <1>1, <2>1, <2>2, LateMoves
  <2>3. CASE ~ConfirmNext(c)
    BY <1>1, <2>1, <2>3, ConfirmOthers, CancelFrame, ConsumerFrame, RestartFrame,
       ConfigFrame, GenerateFrame DEF Next, localVars
  <2> QED
    BY <2>2, <2>3
<1>4. CASE jobs[j].status # "refunded"
  <2>1. ASSUME NEW i \in Jobs, NEW s \in {"queued", "refunded"}, Marks(i, s),
               jobs' = [jobs EXCEPT ![i].status = s]
        PROVE  conf'[c].pc = "unqueued"
    <3>1. s = "refunded"
      BY <1>2, <1>4, <2>1 DEF JobRow
    <3>2. \A x \in Cancellers : canc[x].pc # "mark"
      BY <1>1, NothingToRefund DEF ProgressInv
    <3>3. PICK d \in Confirmers : conf'[d].pc = "unqueued"
      BY <2>1, <3>1, <3>2 DEF Marks
    <3> QED
      BY <3>3 DEF OneConfirmation
  <2>2. ASSUME NEW i \in Jobs, NEW tx, jobs' = [jobs EXCEPT ![i].tx = tx]
        PROVE  jobs'[j].status = jobs[j].status
    BY <1>2, <2>2 DEF JobRow
  <2>3. ASSUME NEW k \in Consumers, NEW m \in cons[k].msg, jobs' = [jobs EXCEPT ![m.job] = ResultRow(m)]
        PROVE  jobs'[j].status # "refunded"
    <3>1. m.status # "refunded"
      BY <1>1, <2>3 DEF TypeOK, ConsumerState, ResultMessage, Outcome
    <3> QED
      BY <1>2, <1>4, <2>3, <3>1 DEF ResultRow
  <2> QED
    BY <1>1, <1>4, <2>1, <2>2, <2>3, JobChange
<1> QED
  BY <1>3, <1>4

LEMMA ProgressStep ==
    ASSUME ~WithBlockFunc, OneConfirmation, Inv, LedgerInv, ProgressInv, [Next]_vars
    PROVE  ProgressInv'
<1>1. TypeOK /\ LoopInv /\ TxInv
  BY DEF Inv
<1>2. Earned \subseteq Jobs /\ Earned' \subseteq Jobs
  BY DEF Earned
<1>3. PICK n \in Nat : n = Cardinality(Earned)
  BY <1>2, JobsFinite
<1>4. PICK m \in Nat : m = Cardinality(Earned')
  BY <1>2, JobsFinite
<1>5. n <= m
  BY <1>3, <1>4, <1>2, EarnedStays, JobsFinite, FS_Subset
<1>6. Cardinality(JobsIn(JobStatus \ ActiveStatus)) <= n
  <2>1. JobsIn(JobStatus \ ActiveStatus) \subseteq Earned
    BY DEF JobsIn, JobStatus, ActiveStatus, Earned, LedgerInv, RowSaysIt, Outcome
  <2> QED
    BY <1>3, <1>2, <2>1, JobsFinite, FS_Subset
<1>7. RowsWithin(n)'
  BY <1>1, <1>3, <1>6, RowsWithinStep DEF ProgressInv, RowsWithin
<1>8. RowsWithin(m)'
  <2>1. \A d \in Nat : d <= n => d <= m
    BY <1>5
  <2>2. TypeOK'
    BY <1>1, TypeStep
  <2>3. /\ batch'.done \in Nat
        /\ \A c \in Confirmers : conf'[c].row.done \in Nat
        /\ \A x \in Cancellers : canc'[x].row.done \in Nat
        /\ \A k \in Consumers : cons'[k].row.done \in Nat /\ cons'[k].done \in Nat
        /\ \A r \in Restarters : rest'[r].row.done \in Nat
        /\ \A g \in Configurers : cong'[g].row.done \in Nat
    BY <2>2 DEF TypeOK, StoreTypeOK, BatchRow, ConfirmState, CancelState, ConsumerState,
       RestartState, ConfigState
  <2> QED
    BY <1>7, <2>1, <2>3 DEF RowsWithin
<1>9. \A x \in Cancellers : canc'[x].pc \notin {"refund", "jobs", "mark", "clear"}
  BY <1>1, NothingToRefund DEF ProgressInv
<1>10. \A j \in Jobs : jobs'[j].status = "refunded" =>
         \A c \in Confirmers : conf'[c].pc \in {"unqueued"} \cup Ended
  BY RefundedLate
<1> QED
  BY <1>4, <1>8, <1>9, <1>10 DEF ProgressInv, RowsWithin

LEMMA ProgressStart == Init => ProgressInv
<1> SUFFICES ASSUME Init PROVE ProgressInv
  OBVIOUS
<1>1. Earned \subseteq Jobs
  BY DEF Earned
<1>2. 0 <= Cardinality(Earned)
  BY <1>1, JobsFinite
<1>3. batch.done = 0 /\ NoRow.done = 0
  BY DEF Init, StoreInit, Uploaded, NoRow
<1> QED
  BY <1>2, <1>3 DEF Init, StoreInit, ConfirmInit, ConfirmFresh, CancelInit, CancelFresh,
     ConsumerInit, ConsumerIdle, AdminInit, RestartFresh, ConfigFresh, ProgressInv

\* The progress invariant where it holds: the wired handler, one confirmation.
Progressing == ~WithBlockFunc /\ OneConfirmation => ProgressInv

LEMMA ProgressInvariance == Spec => [](Inv /\ LedgerInv /\ Progressing)
<1>1. Init => Progressing
  BY ProgressStart DEF Progressing
<1>2. Inv /\ LedgerInv /\ Progressing /\ [Next]_vars => Progressing'
  BY ProgressStep DEF Progressing, OneConfirmation
<1> QED
  BY <1>1, <1>2, LedgerInvariance, PTL DEF Spec

\* The progress that the batch row shows is never ahead of the jobs: whichever
\* consumer, cancellation, restart or configuration request writes the row back,
\* and however old its copy and its counts are, no job is counted as completed
\* for which no result was ever stored and that is not refunded.
THEOREM ProgressHonest == Spec => []ProgressIsEarned
<1>1. Progressing => ProgressIsEarned
  BY DEF Progressing, ProgressInv, ProgressIsEarned
<1> QED
  BY <1>1, ProgressInvariance, PTL

---------------------------------------------------------------------------
(***************************************************************************)
(* The jobs that are marked refunded                                       *)
(***************************************************************************)

LEMMA BillingAnswers ==
    ASSUME ~BillingErrors, NEW out \in BillingCall
    PROVE  out.ok = TRUE /\ out.done = TRUE
BY DEF BillingCall, CallOutcome

\* What was taken back stays taken back.
LEMMA RefundsGrow ==
    ASSUME TypeOK, [Next]_vars
    PROVE  refunds \subseteq refunds'
<1>1. ASSUME NEW c \in Confirmers, ConfirmNext(c)
      PROVE  refunds \subseteq refunds'
  <2>1. CASE RefundAssigned(c)
    BY <2>1 DEF RefundAssigned, RefundTransactions
  <2> QED
    BY <1>1, <2>1, ConfirmFrame
<1>2. ASSUME NEW x \in Cancellers, CancelNext(x)
      PROVE  refunds \subseteq refunds'
  <2>1. CASE CancelRefund(x)
    BY <2>1 DEF CancelRefund, RefundTransactions
  <2> QED
    BY <1>2, <2>1, CancelFrame
<1> QED
  BY <1>1, <1>2, ConsumerFrame, RestartFrame, ConfigFrame, GenerateFrame DEF Next

\* A single confirmation blocks once, so transactions are issued all at once.
LEMMA IssuedOnce ==
    ASSUME OneConfirmation, TypeOK, LedgerInv, [Next]_vars
    PROVE  issued' = issued \/ issued = {}
<1>1. issued \subseteq Tx
  BY DEF TypeOK, StoreTypeOK
<1>2. ASSUME NEW c \in Confirmers, BlockBatch(c)
      PROVE  issued = {}
  <2>1. \A t \in issued : t[1] # c
    BY <1>2 DEF BlockBatch, LedgerInv
  <2> QED
    BY <1>1, <2>1 DEF Tx, OneConfirmation
<1> QED
  BY <1>2, ConfirmFrame, CancelFrame, ConsumerFrame, RestartFrame, ConfigFrame,
     GenerateFrame DEF Next

\* A message carries nothing, what another message carried or what the loop
\* assigns.
LEMMA MessageTx ==
    ASSUME TypeOK, [Next]_vars, NEW m \in jobTopic' \cup resultTopic'
    PROVE  \/ m.tx = {}
           \/ \E n \in jobTopic \cup resultTopic : n.tx = m.tx
           \/ \E c \in Confirmers : /\ ConfirmNext(c) /\ conf[c].pc = "publish"
                                    /\ m.tx = AssignTx(c, conf[c].pos)
<1>1. ASSUME NEW c \in Confirmers, ConfirmNext(c), PublishJob(c)
      PROVE  \/ m \in jobTopic \cup resultTopic
             \/ m.tx = AssignTx(c, conf[c].pos)
  BY <1>1 DEF PublishJob, Publish
<1>2. ASSUME NEW r \in Restarters, RestartPublish(r)
      PROVE  m \in jobTopic \cup resultTopic \/ m.tx = {}
  BY <1>2 DEF RestartPublish, Publish
<1>3. ASSUME NEW k \in Consumers, ConsumerNext(k)
      PROVE  m \in jobTopic \cup resultTopic
  BY <1>3 DEF storeVars, ConsumerNext, ConsumerStep, StopConsumer, CrashConsumer, Poll,
     StoreResult, CountJobs, LoadBatch, SaveBatch
<1>4. CASE GenerateNext
  BY <1>4 DEF GenerateNext, Generate
<1>5. ASSUME NEW c \in Confirmers, PublishJob(c)
      PROVE  conf[c].pc = "publish"
  BY <1>5 DEF PublishJob
<1>6. CASE UNCHANGED <<jobTopic, resultTopic>>
  BY <1>6
<1>7. CASE \E c \in Confirmers : ConfirmNext(c)
  BY <1>1, <1>5, <1>6, <1>7, ConfirmFrame
<1>8. CASE \E r \in Restarters : RestartNext(r)
  BY <1>2, <1>6, <1>8, RestartFrame
<1>9. UNCHANGED vars => UNCHANGED <<jobTopic, resultTopic>>
  BY DEF vars, storeVars
<1> QED
  BY <1>3, <1>4, <1>6, <1>7, <1>8, <1>9, CancelFrame, ConfigFrame DEF Next

\* A consumer holds the message that it read.
LEMMA HeldMessage ==
    ASSUME TypeOK, [Next]_vars, NEW k \in Consumers, NEW m \in cons'[k].msg
    PROVE  m \in resultTopic \/ m \in cons[k].msg
<1>1. cons \in [Consumers -> ConsumerState]
  BY DEF TypeOK
<1>2. CASE ConsumerNext(k)
  <2>1. cons' # [cons EXCEPT ![k] = ConsumerIdle]
    BY <1>1 DEF ConsumerIdle
  <2>2. CASE Poll(k) \/ StopConsumer(k) \/ StoreResult(k)
    BY <1>1, <2>2 DEF Poll, StopConsumer, StoreResult, ConsumerState
  <2>3. CASE CountJobs(k)
    <3>1. \E d, f : cons' = [cons EXCEPT ![k].pc = "row", ![k].done = d, ![k].failed = f]
      BY <2>1, <2>3 DEF CountJobs
    <3> QED
      BY <1>1, <3>1 DEF ConsumerState
  <2>4. CASE LoadBatch(k)
    <3>1. \E b : cons' = [cons EXCEPT ![k].pc = "save", ![k].row = b]
      BY <2>1, <2>4 DEF LoadBatch
    <3> QED
      BY <1>1, <3>1 DEF ConsumerState
  <2> QED
    BY <1>2, <2>1, <2>2, <2>3, <2>4 DEF ConsumerNext, ConsumerStep, SaveBatch, CrashConsumer
<1>3. CASE ~ConsumerNext(k)
  <2>1. cons'[k] = cons[k]
    BY <1>3, ConfirmFrame, CancelFrame, ConsumerRow, RestartFrame, ConfigFrame,
       GenerateFrame DEF Next, localVars
  <2> QED
    BY <2>1
<1> QED
  BY <1>2, <1>3

TakingBack == {"loadRow", "saveRow", "unqueued"}

\* How a confirmation that is not answered comes to what it remembers.
LEMMA ConfirmRemembers ==
    ASSUME TypeOK, NEW c \in Confirmers, ConfirmNext(c), conf'[c].pc \notin Ended
    PROVE  /\ conf[c].pc \notin Ended
           /\ conf[c].assigned \subseteq conf'[c].assigned
           /\ conf'[c].pc = "publish" =>
                 /\ conf'[c].ids = conf[c].ids /\ conf'[c].pos = conf[c].pos
                 /\ ValidTx(AssignTx(c, conf[c].pos)) \subseteq conf'[c].assigned
           /\ conf'[c].pc \in {"loadTx", "saveTx"} =>
                 \/ /\ conf[c].pc = "block"
                    /\ \E out \in BillingCall :
                          out.done => issued' = issued \cup ({c} \X (1 .. conf'[c].ids))
                 \/ conf[c].pc = "loadTx" /\ conf'[c].ids = conf[c].ids
           /\ conf'[c].pc \in TakingBack =>
                 /\ conf'[c].assigned = conf[c].assigned
                 /\ \/ conf[c].pc \in TakingBack
                    \/ conf[c].assigned = {}
                    \/ \E out \in BillingCall :
                          out.done => {c} \X conf[c].assigned \subseteq refunds'
<1> USE DEF Ended, TakingBack
<1>0. conf \in [Confirmers -> ConfirmState]
  BY DEF TypeOK
<1>1. ASSUME NEW pc \in Ended, Answer(c, pc)
      PROVE  FALSE
  BY <1>1, AnswerFields DEF ConfirmPc
<1>2. CASE StartConfirm(c)
  <2>1. conf[c].pc = "idle" /\ \E a, n : conf' = [conf EXCEPT ![c].pc = "check",
                                            ![c].action = a, ![c].count = n]
    BY <1>2 DEF StartConfirm
  <2> QED
    BY <1>0, <2>1 DEF ConfirmState
<1>3. CASE CheckApproved(c)
  <2>1. conf[c].pc = "check" /\ Goto(c, "block")
    BY <1>1, <1>3 DEF CheckApproved
  <2> QED
    BY <2>1, GotoFields DEF ConfirmPc
<1>4. CASE BlockBatch(c)
  <2>1. PICK out \in BillingCall, k \in TxCounts, pc \in {"loadTx", "jobs"} :
           /\ issued' = IF out.done THEN issued \cup ({c} \X (1 .. k)) ELSE issued
           /\ conf' = [conf EXCEPT ![c].ids = k, ![c].pc = pc]
    BY <1>1, <1>4 DEF BlockBatch
  <2>2. conf[c].pc = "block"
    BY <1>4 DEF BlockBatch
  <2>3. /\ conf'[c].ids = k /\ conf'[c].pc = pc
        /\ conf'[c].assigned = conf[c].assigned
    BY <1>0, <2>1 DEF ConfirmState
  <2> QED
    BY <2>1, <2>2, <2>3
<1>5. CASE LoadForTx(c)
  <2>1. /\ conf[c].pc = "loadTx"
        /\ Goto(c, "jobs") \/ conf' = [conf EXCEPT ![c].pc = "saveTx", ![c].row = batch]
    BY <1>5 DEF LoadForTx
  <2> QED
    BY <1>0, <2>1, GotoFields DEF ConfirmState, ConfirmPc
<1>6. CASE SaveTx(c) \/ GetJobs(c) \/ SaveCancelled(c)
  <2>1. CASE SaveTx(c)
    BY <1>0, <2>1 DEF SaveTx, ConfirmState
  <2>2. CASE GetJobs(c)
    <3>1. conf[c].pc = "jobs" /\ \E o : conf' = [conf EXCEPT ![c].pc = "next", ![c].order = o]
      BY <1>1, <2>2 DEF GetJobs
    <3> QED
      BY <1>0, <3>1 DEF ConfirmState
  <2>3. CASE SaveCancelled(c)
    BY <1>0, <2>3 DEF SaveCancelled, ConfirmState
  <2> QED
    BY <1>6, <2>1, <2>2, <2>3
<1>7. CASE NextJob(c)
  <2> DEFINE tx == ValidTx(AssignTx(c, conf[c].pos))
  <2>1. conf[c].pc = "next" /\ conf' = [conf EXCEPT ![c].pc = "publish",
                                                    ![c].assigned = @ \cup tx]
    BY <1>7 DEF NextJob
  <2> HIDE DEF tx
  <2>2. /\ conf'[c].pc = "publish" /\ conf'[c].assigned = conf[c].assigned \cup tx
        /\ conf'[c].ids = conf[c].ids /\ conf'[c].pos = conf[c].pos
    BY <1>0, <2>1 DEF ConfirmState
  <2> QED
    BY <2>1, <2>2 DEF tx
<1>8. CASE PublishJob(c) \/ MarkQueued(c)
  <2>1. /\ conf[c].pc \in {"publish", "mark"}
        /\ \/ conf' = [conf EXCEPT ![c].pc = "mark"]
           \/ conf' = [conf EXCEPT ![c].pc = "next", ![c].pos = @ + 1, ![c].perr = TRUE]
           \/ \E q : conf' = [conf EXCEPT ![c].pc = "next", ![c].pos = @ + 1,
                                         ![c].queued = q]
    BY <1>8 DEF PublishJob, MarkQueued
  <2> QED
    BY <1>0, <2>1 DEF ConfirmState
<1>9. CASE EndLoop(c)
  <2>1. /\ conf[c].pc = "next"
        /\ \/ Goto(c, "loadRow") /\ conf[c].assigned = {}
           \/ Goto(c, "refund")
    BY <1>1, <1>9 DEF EndLoop
  <2> QED
    BY <2>1, GotoFields DEF ConfirmPc
<1>10. CASE RefundAssigned(c)
  <2>1. /\ conf[c].pc = "refund" /\ Goto(c, "loadRow")
        /\ \E out \in BillingCall : RefundTransactions(out.done, c, conf[c].assigned)
    BY <1>10 DEF RefundAssigned
  <2>2. \E out \in BillingCall : out.done => {c} \X conf[c].assigned \subseteq refunds'
    BY <2>1 DEF RefundTransactions
  <2> QED
    BY <2>1, <2>2, GotoFields DEF ConfirmPc
<1>11. CASE LoadForCancel(c)
  <2>1. conf[c].pc = "loadRow" /\ \E pc \in {"saveRow", "unqueued"} : \E b, n :
           conf' = [conf EXCEPT ![c].pc = pc, ![c].row = b, ![c].pos = n]
    BY <1>11 DEF LoadForCancel
  <2> QED
    BY <1>0, <2>1 DEF ConfirmState
<1>12. CASE MarkRefunded(c)
  <2>1. conf[c].pc = "unqueued" /\ conf' = [conf EXCEPT ![c].pos = @ + 1]
    BY <1>12 DEF MarkRefunded
  <2> QED
    BY <1>0, <2>1 DEF ConfirmState
<1>13. ~EndRollback(c) /\ ~CrashConfirm(c)
  BY <1>1 DEF EndRollback, CrashConfirm
<1> QED
  BY <1>2, <1>3, <1>4, <1>5, <1>6, <1>7, <1>8, <1>9, <1>10, <1>11, <1>12, <1>13
     DEF ConfirmNext, ConfirmStep

\* What jobs and messages name after a step, a confirmation that is not answered
\* remembers.
LEMMA RememberStep ==
    ASSUME OneConfirmation, ~BillingErrors, Inv, LedgerInv, RefundInv, [Next]_vars,
           NEW c \in Confirmers
    PROVE  RememberInv(c)'
<1>1. TypeOK /\ LoopInv /\ TxInv
  BY DEF Inv
<1>2. conf'[c] = conf[c] \/ ConfirmNext(c)
  BY <1>1, ConfirmOthers, CancelFrame, ConsumerFrame, RestartFrame, ConfigFrame,
     GenerateFrame DEF Next, localVars
<1>3. RememberInv(c)
  BY DEF RefundInv
<1>4. ASSUME conf'[c].pc \notin Ended
      PROVE  conf[c].pc \notin Ended /\ conf[c].assigned \subseteq conf'[c].assigned
  BY <1>1, <1>2, <1>4, ConfirmRemembers
<1>5. ASSUME conf'[c].pc \notin Ended, NEW j \in Jobs
      PROVE  jobs'[j].tx \subseteq conf'[c].assigned
  <2>1. jobs \in [Jobs -> JobRow]
    BY <1>1 DEF TypeOK, StoreTypeOK
  <2>2. jobs[j].tx \subseteq conf'[c].assigned
    BY <1>3, <1>4, <1>5 DEF RememberInv
  <2>3. ASSUME NEW i \in Jobs, NEW s, jobs' = [jobs EXCEPT ![i].status = s]
        PROVE  jobs'[j].tx = jobs[j].tx
    BY <2>1, <2>3 DEF JobRow
  <2>4. ASSUME NEW d \in Confirmers, NEW i \in Jobs, NEW tx, Assigns(d, i, tx),
               jobs' = [jobs EXCEPT ![i].tx = tx]
        PROVE  jobs'[j].tx \subseteq conf'[c].assigned
    <3>1. tx \subseteq conf'[c].assigned
      BY <2>4 DEF Assigns, OneConfirmation
    <3>2. jobs'[j].tx \in {jobs[j].tx, tx}
      BY <2>1, <2>4 DEF JobRow
    <3> QED
      BY <2>2, <3>1, <3>2
  <2>5. ASSUME NEW k \in Consumers, NEW m \in cons[k].msg, jobs' = [jobs EXCEPT ![m.job] = ResultRow(m)]
        PROVE  jobs'[j].tx \subseteq conf'[c].assigned
    <3>1. ValidTx(m.tx) \subseteq conf'[c].assigned
      BY <1>3, <1>4, <1>5, <2>5 DEF RememberInv
    <3>2. jobs'[j].tx \in {jobs[j].tx, ValidTx(m.tx)}
      BY <2>1, <2>5 DEF ResultRow
    <3> QED
      BY <2>2, <3>1, <3>2
  <2> QED
    BY <1>1, <2>2, <2>3, <2>4, <2>5, JobChange
<1>6. ASSUME conf'[c].pc \notin Ended, NEW m \in jobTopic' \cup resultTopic'
      PROVE  ValidTx(m.tx) \subseteq conf'[c].assigned
  <2>1. CASE m.tx = {}
    BY <2>1 DEF ValidTx
  <2>2. CASE \E n \in jobTopic \cup resultTopic : n.tx = m.tx
    BY <1>3, <1>4, <1>6, <2>2 DEF RememberInv
  <2>3. ASSUME NEW d \in Confirmers, conf[d].pc = "publish", m.tx = AssignTx(d, conf[d].pos)
        PROVE  ValidTx(m.tx) \subseteq conf'[c].assigned
    <3>1. d = c
      BY DEF OneConfirmation
    <3> QED
      BY <1>3, <1>4, <1>6, <2>3, <3>1 DEF RememberInv
  <2> QED
    BY <1>1, <2>1, <2>2, <2>3, MessageTx
<1>7. ASSUME conf'[c].pc \notin Ended, NEW k \in Consumers, NEW m \in cons'[k].msg
      PROVE  ValidTx(m.tx) \subseteq conf'[c].assigned
  <2>1. m \in resultTopic \/ m \in cons[k].msg
    BY <1>1, <1>7, HeldMessage
  <2> QED
    BY <1>3, <1>4, <1>7, <2>1 DEF RememberInv
<1>8. ASSUME conf'[c].pc = "publish"
      PROVE  ValidTx(AssignTx(c, conf[c].pos))' \subseteq conf'[c].assigned
  <2>1. CASE ConfirmNext(c)
    BY <1>1, <1>8, <2>1, ConfirmRemembers DEF AssignTx, ValidTx, Ended
  <2>2. CASE conf'[c] = conf[c]
    BY <1>3, <1>8, <2>2 DEF AssignTx, ValidTx, RememberInv
  <2> QED
    BY <1>2, <2>1, <2>2
<1>9. ASSUME conf'[c].pc \in {"loadTx", "saveTx"}
      PROVE  issued' = {c} \X (1 .. conf'[c].ids)
  <2>1. CASE conf[c].pc = "block" /\ conf'[c] # conf[c]
    <3>1. PICK out \in BillingCall :
             out.done => issued' = issued \cup ({c} \X (1 .. conf'[c].ids))
      BY <1>1, <1>2, <1>9, <2>1, ConfirmRemembers DEF Ended
    <3>2. issued = {}
      <4>1. \A t \in issued : t[1] # c
        BY <2>1 DEF LedgerInv
      <4>2. issued \subseteq Tx
        BY <1>1 DEF TypeOK, StoreTypeOK
      <4> QED
        BY <4>1, <4>2 DEF Tx, OneConfirmation
    <3> QED
      BY <3>1, <3>2, BillingAnswers
  <2>2. CASE ~(conf[c].pc = "block" /\ conf'[c] # conf[c])
    <3>1. conf[c].pc \in {"loadTx", "saveTx"} /\ conf'[c].ids = conf[c].ids
      BY <1>1, <1>2, <1>9, <2>2, ConfirmRemembers DEF Ended
    <3>2. issued' = issued
      <4>1. \A d \in Confirmers : ~BlockBatch(d)
        BY <3>1 DEF BlockBatch, OneConfirmation
      <4> QED
        BY <4>1, ConfirmFrame, CancelFrame, ConsumerFrame, RestartFrame, ConfigFrame,
           GenerateFrame DEF Next
    <3> QED
      BY <1>3, <3>1, <3>2 DEF RememberInv
  <2> QED
    BY <2>1, <2>2
<1>10. ASSUME conf'[c].pc \in TakingBack
       PROVE  {c} \X conf'[c].assigned \subseteq refunds'
  <2>1. refunds \subseteq refunds'
    BY <1>1, RefundsGrow
  <2>2. ASSUME conf[c].pc \in TakingBack, conf'[c].assigned = conf[c].assigned
        PROVE  {c} \X conf'[c].assigned \subseteq refunds'
    BY <1>3, <2>1, <2>2 DEF RememberInv, TakingBack
  <2>3. CASE ConfirmNext(c)
    BY <1>1, <1>10, <2>2, <2>3, ConfirmRemembers, BillingAnswers DEF TakingBack, Ended
  <2>4. CASE conf'[c] = conf[c]
    BY <1>10, <2>2, <2>4
  <2> QED
    BY <1>2, <2>3, <2>4
<1> QED
  BY <1>5, <1>6, <1>7, <1>8, <1>9, <1>10 DEF RememberInv, TakingBack

\* A row, or a copy of it, names all that was issued or nothing: only SaveTx puts
\* transactions on a row, and only after they were issued.
LEMMA RowsAllOrNone ==
    ASSUME OneConfirmation, Inv, LedgerInv, RefundInv, [Next]_vars
    PROVE  /\ batch'.txs \in {{}, issued'}
           /\ \A c \in Confirmers : conf'[c].row.txs \in {{}, issued'}
           /\ \A x \in Cancellers : canc'[x].row.txs \in {{}, issued'}
           /\ \A k \in Consumers : cons'[k].row.txs \in {{}, issued'}
           /\ \A r \in Restarters : rest'[r].row.txs \in {{}, issued'}
           /\ \A g \in Configurers : cong'[g].row.txs \in {{}, issued'}
<1>0. TypeOK /\ TxInv
  BY DEF Inv
<1>1. /\ batch \in BatchRow
      /\ \A c \in Confirmers : conf[c].row \in BatchRow
      /\ \A x \in Cancellers : canc[x].row \in BatchRow
      /\ \A k \in Consumers : cons[k].row \in BatchRow
      /\ \A r \in Restarters : rest[r].row \in BatchRow
      /\ \A g \in Configurers : cong[g].row \in BatchRow
  BY <1>0 DEF TypeOK, StoreTypeOK, ConfirmState, CancelState, ConsumerState, RestartState,
     ConfigState
<1>2. /\ batch.txs \in {{}, issued'}
      /\ \A c \in Confirmers : conf[c].row.txs \in {{}, issued'}
      /\ \A x \in Cancellers : canc[x].row.txs \in {{}, issued'}
      /\ \A k \in Consumers : cons[k].row.txs \in {{}, issued'}
      /\ \A r \in Restarters : rest[r].row.txs \in {{}, issued'}
      /\ \A g \in Configurers : cong[g].row.txs \in {{}, issued'}
  <2>1. \A t : AllOrNone(t) => t \in {{}, issued'}
    BY <1>0, IssuedOnce DEF AllOrNone
  <2> QED
    BY <2>1 DEF RefundInv
<1>3. NoRow.txs = {}
  BY DEF NoRow, Uploaded
<1>4. /\ [batch EXCEPT !.status = "cancelled"].txs = batch.txs
      /\ [batch EXCEPT !.status = "processing"].txs = batch.txs
      /\ [batch EXCEPT !.config = TRUE].txs = batch.txs
      /\ \A d, f : Recount(batch, d, f).txs = batch.txs
  BY <1>1 DEF Recount, BatchRow
<1>5. batch'.txs \in {{}, issued'}
  <2>1. ASSUME NEW b \in BatchRow
        PROVE  ToPostgres([b EXCEPT !.status = "cancelled"]).txs = b.txs
    BY DEF ToPostgres, BatchRow
  <2>2. ASSUME NEW c \in Confirmers, conf[c].pc = "saveTx",
               batch' = ToPostgres([conf[c].row EXCEPT !.txs = {c} \X (1 .. conf[c].ids)])
        PROVE  batch'.txs = issued'
    <3>1. issued = {c} \X (1 .. conf[c].ids)
      BY <2>2 DEF RefundInv, RememberInv
    <3>2. \A d \in Confirmers : ~BlockBatch(d)
      BY <2>2 DEF BlockBatch, OneConfirmation
    <3>3. issued' = issued
      BY <3>2, ConfirmFrame, CancelFrame, ConsumerFrame, RestartFrame, ConfigFrame,
         GenerateFrame DEF Next
    <3>4. ToPostgres([conf[c].row EXCEPT !.txs = {c} \X (1 .. conf[c].ids)]).txs
            = {c} \X (1 .. conf[c].ids)
      BY <1>1 DEF ToPostgres, BatchRow
    <3> QED
      BY <2>2, <3>1, <3>3, <3>4
  <2>3. ASSUME NEW c \in Confirmers,
               batch' = ToPostgres([conf[c].row EXCEPT !.status = "cancelled"])
        PROVE  batch'.txs \in {{}, issued'}
    BY <1>1, <1>2, <2>1, <2>3
  <2>4. ASSUME NEW x \in Cancellers,
               batch' \in {ToPostgres(canc[x].row), ToPostgres([canc[x].row EXCEPT !.txs = {}])}
        PROVE  batch'.txs \in {{}, issued'}
    <3>1. /\ ToPostgres(canc[x].row).txs = canc[x].row.txs
          /\ ToPostgres([canc[x].row EXCEPT !.txs = {}]).txs = {}
      BY <1>1 DEF ToPostgres, BatchRow
    <3> QED
      BY <1>2, <2>4, <3>1
  <2>5. ASSUME \/ \E k \in Consumers : batch' = ToPostgres(cons[k].row)
               \/ \E r \in Restarters : batch' = ToPostgres(rest[r].row)
               \/ \E g \in Configurers : batch' = ToPostgres(cong[g].row)
        PROVE  batch'.txs \in {{}, issued'}
    <3>1. /\ \A k \in Consumers : ToPostgres(cons[k].row).txs = cons[k].row.txs
          /\ \A r \in Restarters : ToPostgres(rest[r].row).txs = rest[r].row.txs
          /\ \A g \in Configurers : ToPostgres(cong[g].row).txs = cong[g].row.txs
      BY <1>1 DEF ToPostgres, BatchRow
    <3> QED
      BY <1>2, <2>5, <3>1
  <2> QED
    BY <1>0, <1>2, <2>2, <2>3, <2>4, <2>5, BatchWrite
<1>6. ASSUME NEW c \in Confirmers
      PROVE  conf'[c].row.txs \in {{}, issued'}
  <2>1. conf'[c] = conf[c] \/ ConfirmNext(c)
    BY <1>0, ConfirmOthers, CancelFrame, ConsumerFrame, RestartFrame, ConfigFrame,
       GenerateFrame DEF Next, localVars
  <2> QED
    BY <1>0, <1>2, <1>3, <2>1, ConfirmRow
<1>7. ASSUME NEW x \in Cancellers
      PROVE  canc'[x].row.txs \in {{}, issued'}
  <2>1. canc'[x] = canc[x] \/ CancelNext(x)
    BY <1>0, ConfirmFrame, CancelRow, ConsumerFrame, RestartFrame, ConfigFrame,
       GenerateFrame DEF Next, localVars
  <2> QED
    BY <1>0, <1>2, <1>3, <1>4, <2>1, CancelRow
<1>8. ASSUME NEW k \in Consumers
      PROVE  cons'[k].row.txs \in {{}, issued'}
  <2>1. cons'[k] = cons[k] \/ ConsumerNext(k)
    BY <1>0, ConfirmFrame, CancelFrame, ConsumerRow, RestartFrame, ConfigFrame,
       GenerateFrame DEF Next, localVars
  <2> QED
    BY <1>0, <1>2, <1>3, <1>4, <2>1, ConsumerRow
<1>9. ASSUME NEW r \in Restarters
      PROVE  rest'[r].row.txs \in {{}, issued'}
  <2>1. rest'[r] = rest[r] \/ RestartNext(r)
    BY <1>0, ConfirmFrame, CancelFrame, ConsumerFrame, RestartRow, ConfigFrame,
       GenerateFrame DEF Next, localVars
  <2> QED
    BY <1>0, <1>2, <1>3, <1>4, <2>1, RestartRow
<1>10. ASSUME NEW g \in Configurers
       PROVE  cong'[g].row.txs \in {{}, issued'}
  <2>1. cong'[g] = cong[g] \/ ConfigNext(g)
    BY <1>0, ConfirmFrame, CancelFrame, ConsumerFrame, RestartFrame, ConfigRow,
       GenerateFrame DEF Next, localVars
  <2> QED
    BY <1>0, <1>2, <1>3, <1>4, <2>1, ConfigRow
<1> QED
  BY <1>5, <1>6, <1>7, <1>8, <1>9, <1>10

\* A cancellation that goes on has transactions on its copy, and marks jobs only
\* after they were taken back.
LEMMA CancelRemembers ==
    ASSUME ~BillingErrors, TypeOK, NEW x \in Cancellers, CancelNext(x),
           canc'[x].pc \in {"refund", "jobs", "mark", "clear"}
    PROVE  /\ canc'[x].row = canc[x].row
           /\ \/ canc[x].pc = "save" /\ canc'[x].pc = "refund" /\ canc[x].row.txs # {}
              \/ /\ canc[x].pc = "refund"
                 /\ {x} \X canc[x].row.txs \subseteq refunds'
              \/ canc[x].pc \in {"jobs", "mark", "clear"}
<1> USE DEF CancelAt, CancelGoto
<1>1. canc \in [Cancellers -> CancelState]
  BY DEF TypeOK
<1>2. ASSUME NEW end \in {"done", "failed", "crashed"}, CancelAnswer(x, end)
      PROVE  FALSE
  BY <1>1, <1>2 DEF CancelAnswer, CancelFresh
<1>3. ~StartCancel(x) /\ ~CancelLoad(x)
  BY <1>1, <1>2 DEF StartCancel, CancelLoad, CancelState
<1>4. CASE CancelSave(x)
  <2>1. canc[x].pc = "save" /\ canc[x].row.txs # {} /\ CancelGoto(x, "refund")
    BY <1>2, <1>4 DEF CancelSave
  <2> QED
    BY <1>1, <2>1 DEF CancelState
<1>5. CASE CancelRefund(x)
  <2>1. canc[x].pc = "refund" /\ canc' = [canc EXCEPT ![x].pc = "jobs"]
    BY <1>2, <1>5 DEF CancelRefund
  <2>2. {x} \X canc[x].row.txs \subseteq refunds'
    BY <1>5, BillingAnswers DEF CancelRefund, RefundTransactions
  <2> QED
    BY <1>1, <2>1, <2>2 DEF CancelState
<1>6. CASE CancelJobs(x)
  BY <1>1, <1>6 DEF CancelJobs, CancelState
<1>7. CASE CancelMark(x)
  BY <1>1, <1>7 DEF CancelMark, CancelState
<1>8. CASE CancelMarked(x)
  BY <1>1, <1>8 DEF CancelMarked, CancelState
<1>9. ~CancelClear(x) /\ ~CrashCancel(x)
  BY <1>2 DEF CancelClear, CrashCancel
<1> QED
  BY <1>3, <1>4, <1>5, <1>6, <1>7, <1>8, <1>9 DEF CancelNext, CancelStep

\* Whoever marks a job as refunded has had its transaction taken back.
LEMMA RefundStep ==
    ASSUME OneConfirmation, ~BillingErrors, Inv, LedgerInv, RefundInv, [Next]_vars
    PROVE  RefundInv'
<1>0. TypeOK /\ LoopInv /\ TxInv /\ TypeOK'
  BY TypeStep DEF Inv
<1>1. refunds \subseteq refunds' /\ issued \subseteq issued'
  BY <1>0, RefundsGrow, IssuedGrows
<1>2. jobs \in [Jobs -> JobRow] /\ jobs' \in [Jobs -> JobRow]
  BY <1>0 DEF TypeOK, StoreTypeOK
<1>3. ASSUME NEW p, RefundedBy(p)
      PROVE  RefundedBy(p)'
  BY <1>0, <1>1, <1>3, IssuedOnce DEF RefundedBy
<1>4. \A c \in Confirmers : RememberInv(c)'
  BY RememberStep
<1>5. \A m \in jobTopic' \cup resultTopic' : m.tx \subseteq issued'
  <2>1. \A c \in Confirmers : AssignTx(c, conf[c].pos) \subseteq issued
    BY <1>0, AssignTxType DEF TxInv
  <2> QED
    BY <1>0, <1>1, <2>1, MessageTx DEF RefundInv
<1>6. \A k \in Consumers : \A m \in cons'[k].msg : m.tx \subseteq issued'
  BY <1>0, <1>1, HeldMessage DEF RefundInv
<1>7. ASSUME NEW j \in Jobs
      PROVE  jobs'[j].tx \subseteq issued'
  <2>1. ASSUME NEW i \in Jobs, NEW s, jobs' = [jobs EXCEPT ![i].status = s]
        PROVE  jobs'[j].tx = jobs[j].tx
    BY <1>2, <2>1 DEF JobRow
  <2>2. ASSUME NEW c \in Confirmers, NEW i \in Jobs, NEW tx, Assigns(c, i, tx),
               jobs' = [jobs EXCEPT ![i].tx = tx]
        PROVE  jobs'[j].tx \subseteq issued'
    <3>1. tx \subseteq issued
      BY <1>0, <2>2, AssignTxType DEF Assigns, ValidTx, TxInv
    <3>2. jobs'[j].tx \in {jobs[j].tx, tx}
      BY <1>2, <2>2 DEF JobRow
    <3> QED
      BY <1>1, <3>1, <3>2 DEF RefundInv
  <2>3. ASSUME NEW k \in Consumers, NEW m \in cons[k].msg, jobs' = [jobs EXCEPT ![m.job] = ResultRow(m)]
        PROVE  jobs'[j].tx \subseteq issued'
    <3>1. ValidTx(m.tx) \subseteq issued
      BY <2>3 DEF ValidTx, RefundInv
    <3>2. jobs'[j].tx \in {jobs[j].tx, ValidTx(m.tx)}
      BY <1>2, <2>3 DEF ResultRow
    <3> QED
      BY <1>1, <3>1, <3>2 DEF RefundInv
  <2> QED
    BY <1>0, <1>1, <2>1, <2>2, <2>3, JobChange DEF RefundInv
<1>8. ASSUME NEW x \in Cancellers, canc'[x].pc \in {"refund", "jobs", "mark", "clear"}
      PROVE  /\ canc'[x].row.txs # {}
             /\ canc'[x].pc \in {"jobs", "mark", "clear"} => RefundedBy(x)'
  <2>1. CASE canc'[x] = canc[x]
    BY <1>3, <1>8, <2>1 DEF RefundInv
  <2>2. CASE CancelNext(x)
    <3>1. canc[x].pc \in {"jobs", "mark", "clear"} => RefundedBy(x)'
      BY <1>3 DEF RefundInv
    <3>2. ASSUME canc[x].pc = "refund", {x} \X canc[x].row.txs \subseteq refunds'
          PROVE  RefundedBy(x)'
      <4>1. canc[x].row.txs # {} /\ canc[x].row.txs = issued
        BY <3>2 DEF RefundInv, AllOrNone
      <4> QED
        BY <1>0, <3>2, <4>1, IssuedOnce DEF RefundedBy
    <3> QED
      BY <1>0, <1>8, <2>2, <3>1, <3>2, CancelRemembers DEF RefundInv
  <2> QED
    BY <1>0, <2>1, <2>2, ConfirmFrame, CancelRow, ConsumerFrame, RestartFrame,
       ConfigFrame, GenerateFrame DEF Next, localVars
<1>9. ASSUME NEW j \in Jobs, jobs'[j].status = "refunded"
      PROVE  /\ \A t \in jobs'[j].tx : \E p \in Refunder : <<p, t>> \in refunds'
             /\ \/ \E x \in Cancellers : RefundedBy(x)'
                \/ \A c \in Confirmers : conf'[c].pc \in {"unqueued"} \cup Ended
  <2> DEFINE Taken == \A t \in jobs'[j].tx : \E p \in Refunder : <<p, t>> \in refunds'
             Late  == \A c \in Confirmers : conf'[c].pc \in {"unqueued"} \cup Ended
  <2>1. ASSUME NEW x \in Cancellers, RefundedBy(x)'
        PROVE  Taken
    BY <1>7, <2>1 DEF RefundedBy, Refunder
  <2>2. ASSUME \A c \in Confirmers : conf[c].pc \in {"unqueued"} \cup Ended
        PROVE  Late
    <3>1. ASSUME NEW c \in Confirmers
          PROVE  conf'[c].pc \in {"unqueued"} \cup Ended
      <4>1. conf'[c] = conf[c] \/ ConfirmNext(c)
        BY <1>0, ConfirmOthers, CancelFrame, ConsumerFrame, RestartFrame, ConfigFrame,
           GenerateFrame DEF Next, localVars
      <4> QED
        BY <1>0, <2>2, <4>1, LateMoves
    <3> QED
      BY <3>1
  <2>3. CASE jobs[j].status = "refunded"
    <3>1. (\E x \in Cancellers : RefundedBy(x)') \/ Late
      BY <1>3, <2>2, <2>3 DEF RefundInv
    <3>2. CASE jobs'[j].tx = jobs[j].tx
      <4>1. Taken
        BY <1>1, <2>3, <3>2 DEF RefundInv, RefundedJobIsRefunded
      <4> QED
        BY <3>1, <4>1
    <3>3. CASE jobs'[j].tx # jobs[j].tx
      <4>1. ASSUME NEW i \in Jobs, NEW s, jobs' = [jobs EXCEPT ![i].status = s]
            PROVE  FALSE
        BY <1>2, <3>3, <4>1 DEF JobRow
      <4>2. ASSUME NEW k \in Consumers, NEW m \in cons[k].msg,
                   jobs' = [jobs EXCEPT ![m.job] = ResultRow(m)]
            PROVE  FALSE
        <5>1. m.status # "refunded"
          BY <1>0, <4>2 DEF TypeOK, ConsumerState, ResultMessage, Outcome
        <5> QED
          BY <1>2, <1>9, <3>3, <4>2, <5>1 DEF ResultRow
      <4>3. PICK c \in Confirmers : conf[c].pc = "next"
        BY <1>0, <3>3, <4>1, <4>2, JobChange DEF Assigns
      <4>4. \E x \in Cancellers : RefundedBy(x)'
        BY <1>3, <2>3, <4>3 DEF RefundInv, Ended
      <4> QED
        BY <2>1, <4>4
    <3> QED
      BY <3>2, <3>3
  <2>4. CASE jobs[j].status # "refunded"
    <3>1. PICK i \in Jobs, s \in {"queued", "refunded"} :
             Marks(i, s) /\ jobs' = [jobs EXCEPT ![i].status = s]
      <4>1. ASSUME NEW i \in Jobs, NEW tx, jobs' = [jobs EXCEPT ![i].tx = tx]
            PROVE  FALSE
        BY <1>2, <1>9, <2>4, <4>1 DEF JobRow
      <4>2. ASSUME NEW k \in Consumers, NEW m \in cons[k].msg,
                   jobs' = [jobs EXCEPT ![m.job] = ResultRow(m)]
            PROVE  FALSE
        <5>1. m.status # "refunded"
          BY <1>0, <4>2 DEF TypeOK, ConsumerState, ResultMessage, Outcome
        <5> QED
          BY <1>2, <1>9, <2>4, <4>2, <5>1 DEF ResultRow
      <4> QED
        BY <1>0, <1>9, <2>4, <4>1, <4>2, JobChange
    <3>2. s = "refunded" /\ i = j /\ jobs'[j].tx = jobs[j].tx
      BY <1>2, <1>9, <2>4, <3>1 DEF JobRow
    <3>3. CASE \E x \in Cancellers : canc[x].pc = "mark"
      <4>1. \E x \in Cancellers : RefundedBy(x)'
        BY <1>3, <3>3 DEF RefundInv
      <4> QED
        BY <2>1, <4>1
    <3>4. CASE \E c \in Confirmers : conf[c].pc = "unqueued" /\ conf'[c].pc = "unqueued"
      <4>1. PICK c \in Confirmers : conf[c].pc = "unqueued" /\ conf'[c].pc = "unqueued"
        BY <3>4
      <4>2. Late
        BY <4>1 DEF OneConfirmation
      <4>3. Taken
        BY <1>1, <3>2, <4>1 DEF RefundInv, RememberInv, Refunder, Ended
      <4> QED
        BY <4>2, <4>3
    <3> QED
      BY <3>1, <3>2, <3>3, <3>4 DEF Marks
  <2> QED
    BY <2>3, <2>4
<1>10. RefundedJobIsRefunded'
  BY <1>9 DEF RefundedJobIsRefunded
<1> QED
  BY <1>4, <1>5, <1>6, <1>7, <1>8, <1>9, <1>10, RowsAllOrNone DEF RefundInv, AllOrNone

LEMMA RefundStart == Init => RefundInv
<1> SUFFICES ASSUME Init PROVE RefundInv
  OBVIOUS
<1>1. batch.txs = {} /\ NoRow.txs = {}
  BY DEF Init, StoreInit, Uploaded, NoRow
<1> QED
  BY <1>1 DEF Init, StoreInit, ConfirmInit, ConfirmFresh, CancelInit, CancelFresh,
     ConsumerInit, ConsumerIdle, AdminInit, RestartFresh, ConfigFresh, RefundInv,
     RememberInv, AllOrNone, RefundedJobIsRefunded

\* A batch with one confirmation and a billing service that answers: every job
\* that is marked refunded names only transactions that were taken back, whether
\* the rollback of the confirmation marked it or a cancellation, and whatever
\* results arrive meanwhile.  (When billing fails, the rollback marks the jobs all
\* the same; with a second confirmation, jobs get transactions that the first
\* does not know.)
THEOREM RefundedIsRefunded ==
    ASSUME OneConfirmation, ~BillingErrors
    PROVE  Spec => []RefundedJobIsRefunded
<1>1. Inv /\ LedgerInv /\ RefundInv /\ [Next]_vars => RefundInv'
  BY RefundStep
<1>2. RefundInv => RefundedJobIsRefunded
  BY DEF RefundInv
<1> QED
  BY <1>1, <1>2, RefundStart, LedgerInvariance, PTL DEF Spec

---------------------------------------------------------------------------
(***************************************************************************)
(* The way to an outcome                                                   *)
(***************************************************************************)

\* Only Generation takes a message from its topic, and only a consumer one from
\* the topic of the results.
LEMMA TopicsGrow ==
    ASSUME TypeOK, [Next]_vars
    PROVE  /\ jobTopic \subseteq jobTopic' \/ GenerateNext
           /\ resultTopic \subseteq resultTopic' \/ \E k \in Consumers : ConsumerNext(k) /\ Poll(k)
<1>1. ASSUME NEW p, NEW j, NEW tx, NEW n, Publish(p, j, tx, n)
      PROVE  jobTopic \subseteq jobTopic'
  BY <1>1 DEF Publish
<1>2. ASSUME NEW c \in Confirmers, ConfirmNext(c)
      PROVE  jobTopic \subseteq jobTopic' /\ resultTopic' = resultTopic
  BY <1>1, <1>2, ConfirmFrame DEF PublishJob
<1>3. ASSUME NEW r \in Restarters, RestartNext(r)
      PROVE  jobTopic \subseteq jobTopic' /\ resultTopic' = resultTopic
  BY <1>1, <1>3, RestartFrame DEF RestartPublish
<1>4. ASSUME NEW k \in Consumers, ConsumerNext(k), ~Poll(k)
      PROVE  resultTopic' = resultTopic
  BY <1>4 DEF ConsumerNext, ConsumerStep, StopConsumer, CrashConsumer, StoreResult,
     CountJobs, LoadBatch, SaveBatch, storeVars
<1>5. ASSUME GenerateNext
      PROVE  resultTopic \subseteq resultTopic'
  BY <1>5 DEF GenerateNext, Generate
<1>6. CASE UNCHANGED vars
  BY <1>6 DEF vars, storeVars
<1> QED
  BY <1>2, <1>3, <1>4, <1>5, <1>6, CancelFrame, ConsumerFrame, ConfigFrame DEF Next

\* What is published leaves a message.
LEMMA PublishedLeavesMessage ==
    ASSUME TypeOK, LoopInv, [Next]_vars, NEW s \in published', s \notin published
    PROVE  \E m \in jobTopic' : m.job = s[2]
<1>1. ASSUME NEW p, NEW j, NEW tx, NEW out \in PublishOutcome, Publish(p, j, tx, out.copies)
      PROVE  \E m \in jobTopic' : m.job = s[2]
  <2>1. out.copies \in Nat
    BY CopiesAssumption DEF PublishOutcome
  <2>2. out.copies # 0 /\ s = <<p, j>>
    BY <1>1 DEF Publish
  <2>3. [job |-> j, tx |-> tx, from |-> p, copy |-> 1] \in jobTopic'
    BY <1>1, <2>1, <2>2 DEF Publish
  <2> QED
    BY <2>2, <2>3
<1>2. ASSUME NEW c \in Confirmers, PublishJob(c)
      PROVE  \E m \in jobTopic' : m.job = s[2]
  BY <1>1, <1>2 DEF PublishJob
<1>3. ASSUME NEW r \in Restarters, RestartPublish(r)
      PROVE  \E m \in jobTopic' : m.job = s[2]
  BY <1>1, <1>3 DEF RestartPublish
<1> QED
  BY <1>2, <1>3, PublishedChange

\* A consumer has at most one message in its hands.
LEMMA OneMessage ==
    ASSUME TypeOK, NEW k \in Consumers, \A m, n \in cons[k].msg : m = n, ConsumerNext(k)
    PROVE  \A m, n \in cons'[k].msg : m = n
<1>1. cons \in [Consumers -> ConsumerState]
  BY DEF TypeOK
<1>2. CASE Poll(k)
  BY <1>1, <1>2 DEF Poll, ConsumerState
<1>3. CASE StopConsumer(k) \/ StoreResult(k)
  BY <1>1, <1>3 DEF StopConsumer, StoreResult, ConsumerState
<1>4. CASE CountJobs(k) \/ LoadBatch(k)
  BY <1>1, <1>4 DEF CountJobs, LoadBatch, ConsumerState, ConsumerIdle
<1>5. CASE SaveBatch(k) \/ CrashConsumer(k)
  BY <1>1, <1>5 DEF SaveBatch, CrashConsumer, ConsumerIdle
<1> QED
  BY <1>2, <1>3, <1>4, <1>5 DEF ConsumerNext, ConsumerStep

LEMMA DbAnswers ==
    ASSUME ~DbErrors
    PROVE  /\ \A out \in DbCall : out.ok = TRUE /\ out.done = TRUE
           /\ \A ok \in ReadOk : ok = TRUE
<1>1. DbCall = {[ok |-> TRUE, done |-> TRUE]}
  BY DEF DbCall, CallOutcome
<1> QED
  BY <1>1 DEF ReadOk

LEMMA OnItsWayStep ==
    ASSUME ~DbErrors, ~Crashes, TypeOK, LoopInv, WayInv, [Next]_vars,
           NEW j \in Jobs, OnItsWay(j)
    PROVE  outcomes'[j] # {} \/ OnItsWay(j)'
<1>0. cons \in [Consumers -> ConsumerState] /\ outcomes \in [Jobs -> SUBSET Outcome]
  BY DEF TypeOK, StoreTypeOK
<1>1. ASSUME NEW m \in jobTopic, m.job = j
      PROVE  OnItsWay(j)'
  <2>1. CASE m \in jobTopic'
    BY <1>1, <2>1 DEF OnItsWay
  <2>2. CASE m \notin jobTopic'
    <3>1. GenerateNext
      BY <2>2, TopicsGrow
    <3>2. PICK n \in jobTopic, s \in Outcomes, back \in TxReported :
             /\ jobTopic' = jobTopic \ {n}
             /\ resultTopic' = resultTopic \cup
                   {[job |-> n.job, tx |-> IF back THEN n.tx ELSE {}, from |-> n.from,
                     copy |-> n.copy, status |-> s]}
      BY <3>1 DEF GenerateNext, Generate
    <3>3. n = m
      BY <2>2, <3>2
    <3> DEFINE r == [job |-> n.job, tx |-> IF back THEN n.tx ELSE {}, from |-> n.from,
                     copy |-> n.copy, status |-> s]
    <3>4. r \in resultTopic' /\ r.job = j
      BY <1>1, <3>2, <3>3
    <3> HIDE DEF r
    <3> QED
      BY <3>4 DEF OnItsWay
  <2> QED
    BY <2>1, <2>2
<1>2. ASSUME NEW m \in resultTopic, m.job = j
      PROVE  OnItsWay(j)'
  <2>1. CASE m \in resultTopic'
    BY <1>2, <2>1 DEF OnItsWay
  <2>2. CASE m \notin resultTopic'
    <3>1. PICK k \in Consumers : ConsumerNext(k) /\ Poll(k)
      BY <2>2, TopicsGrow
    <3>2. PICK n \in resultTopic :
             /\ resultTopic' = resultTopic \ {n}
             /\ cons' = [cons EXCEPT ![k].pc = "job", ![k].msg = {n}]
      BY <3>1 DEF Poll
    <3>3. n = m
      BY <2>2, <3>2
    <3>4. cons'[k].pc = "job" /\ cons'[k].msg = {m}
      BY <1>0, <3>2, <3>3 DEF ConsumerState
    <3> QED
      BY <1>2, <3>4 DEF OnItsWay
  <2> QED
    BY <2>1, <2>2
<1>3. ASSUME NEW k \in Consumers, cons[k].pc = "job", NEW m \in cons[k].msg, m.job = j
      PROVE  outcomes'[j] # {} \/ OnItsWay(j)'
  <2>1. CASE cons'[k] = cons[k]
    BY <1>3, <2>1 DEF OnItsWay
  <2>2. CASE ConsumerNext(k)
    <3>1. StoreResult(k)
      BY <1>3, <2>2 DEF ConsumerNext, ConsumerStep, StopConsumer, CrashConsumer, Poll,
         CountJobs, LoadBatch, SaveBatch
    <3>2. PICK n \in cons[k].msg, out \in DbCall : UpdateStatusWithResult(out.done, n)
      BY <3>1 DEF StoreResult
    <3>3. n = m /\ out.done = TRUE
      BY <3>2, DbAnswers DEF WayInv
    <3>4. m.status \in outcomes'[j]
      BY <1>0, <1>3, <3>2, <3>3 DEF UpdateStatusWithResult
    <3> QED
      BY <3>4
  <2> QED
    BY <2>1, <2>2, ConfirmFrame, CancelFrame, ConsumerRow, RestartFrame, ConfigFrame,
       GenerateFrame DEF Next, localVars
<1> QED
  BY <1>1, <1>2, <1>3 DEF OnItsWay

LEMMA WayStep ==
    ASSUME ~DbErrors, ~Crashes, TypeOK, LoopInv, WayInv, [Next]_vars
    PROVE  WayInv'
<1>1. ASSUME NEW s \in published'
      PROVE  outcomes'[s[2]] # {} \/ OnItsWay(s[2])'
  <2>1. CASE s \in published
    <3>1. s[2] \in Jobs
      BY <2>1 DEF TypeOK, StoreTypeOK
    <3>2. outcomes[s[2]] # {} \/ OnItsWay(s[2])
      BY <2>1 DEF WayInv, PublishedOnItsWay
    <3> QED
      BY <3>1, <3>2, OutcomeStays, OnItsWayStep
  <2>2. CASE s \notin published
    <3>1. \E m \in jobTopic' : m.job = s[2]
      BY <2>2, PublishedLeavesMessage
    <3> QED
      BY <3>1 DEF OnItsWay
  <2> QED
    BY <2>1, <2>2
<1>2. ASSUME NEW k \in Consumers
      PROVE  \A m, n \in cons'[k].msg : m = n
  <2>1. \A m, n \in cons[k].msg : m = n
    BY DEF WayInv
  <2>2. CASE cons'[k] = cons[k]
    BY <2>1, <2>2
  <2>3. CASE ConsumerNext(k)
    BY <2>1, <2>3, OneMessage
  <2> QED
    BY <2>2, <2>3, ConfirmFrame, CancelFrame, ConsumerRow, RestartFrame, ConfigFrame,
       GenerateFrame DEF Next, localVars
<1> QED
  BY <1>1, <1>2 DEF WayInv, PublishedOnItsWay

LEMMA WayStart == Init => WayInv
BY DEF Init, StoreInit, ConsumerInit, ConsumerIdle, WayInv, PublishedOnItsWay

\* As long as the database answers and no pod dies, for every job that went out a
\* result of Generation was stored, or a message that will bring one exists,
\* however many pods, retries, restarts and stopped consumers there are: what
\* PublishedGetsOutcome leaves to fairness is only that somebody takes the message.
\* (Whether the row still shows the result is another matter, see
\* ResultMatchesStatus.)
THEOREM OutcomeOnItsWay ==
    ASSUME ~DbErrors, ~Crashes
    PROVE  Spec => []PublishedOnItsWay
<1>1. Inv /\ WayInv /\ [Next]_vars => WayInv'
  BY WayStep DEF Inv
<1>2. WayInv => PublishedOnItsWay
  BY DEF WayInv
<1> QED
  BY <1>1, <1>2, WayStart, Invariance, PTL DEF Spec

\* A build leaves the row of its job only when a failed result is stored for it:
\* neither a queued that comes late nor a restart, a cancellation or a rollback
\* takes it away, although each of them writes the row without looking at it.
THEOREM BuildsAreKept ==
    Spec => [][\A j \in Jobs : jobs[j].build /\ ~jobs'[j].build =>
                  jobs'[j].status = "failed" /\ "failed" \in outcomes'[j]]_vars
<1>1. ASSUME Inv, [Next]_vars, NEW j \in Jobs, jobs[j].build, ~jobs'[j].build
      PROVE  jobs'[j].status = "failed" /\ "failed" \in outcomes'[j]
  <2>1. /\ TypeOK /\ LoopInv
        /\ jobs \in [Jobs -> JobRow] /\ outcomes \in [Jobs -> SUBSET Outcome]
    BY <1>1 DEF Inv, TypeOK, StoreTypeOK
  <2>2. ASSUME NEW i \in Jobs, NEW s, jobs' = [jobs EXCEPT ![i].status = s]
        PROVE  FALSE
    BY <1>1, <2>1, <2>2 DEF JobRow
  <2>3. ASSUME NEW i \in Jobs, NEW tx, jobs' = [jobs EXCEPT ![i].tx = tx]
        PROVE  FALSE
    BY <1>1, <2>1, <2>3 DEF JobRow
  <2>4. PICK k \in Consumers : \E n \in cons[k].msg :
           /\ jobs' = [jobs EXCEPT ![n.job] = ResultRow(n)]
           /\ outcomes' = [outcomes EXCEPT ![n.job] = @ \cup {n.status}]
    BY <1>1, <2>1, <2>2, <2>3, JobChange
  <2>5. PICK m \in cons[k].msg :
           /\ jobs' = [jobs EXCEPT ![m.job] = ResultRow(m)]
           /\ outcomes' = [outcomes EXCEPT ![m.job] = @ \cup {m.status}]
    BY <2>4
  <2>6. m.status \in Outcome
    BY <2>1, <2>5 DEF TypeOK, ConsumerState, ResultMessage
  <2>7. m.job = j
    BY <1>1, <2>1, <2>5
  <2>8. jobs'[j] = ResultRow(m) /\ m.status \in outcomes'[j]
    BY <2>1, <2>5, <2>7
  <2>9. m.status = "failed"
    BY <1>1, <2>6, <2>8, ResultRowSays DEF Outcome
  <2> QED
    BY <2>8, <2>9, ResultRowSays
<1>2. Inv /\ [Next]_vars =>
         [\A j \in Jobs : jobs[j].build /\ ~jobs'[j].build =>
             jobs'[j].status = "failed" /\ "failed" \in outcomes'[j]]_vars
  BY <1>1
<1> QED
  BY <1>2, Invariance, PTL DEF Spec

---------------------------------------------------------------------------
(***************************************************************************)
(* The batch that has settled                                              *)
(***************************************************************************)

\* What a consumer does when the database answers and its pod lives.
ConsumerMove(k) ==
    \/ cons[k].pc = "poll" /\ cons'[k].pc = "job" /\ batch' = batch
    \/ cons[k].pc = "poll" /\ cons'[k].pc = "stopped" /\ batch' = batch
    \/ cons[k].pc = "job" /\ cons'[k].pc = "jobs"
    \/ /\ cons[k].pc = "jobs" /\ cons'[k].pc = "row"
       /\ cons'[k].done = Cardinality(JobsIn(JobStatus \ ActiveStatus))
    \/ cons[k].pc = "row" /\ cons'[k].pc = "save"
    \/ cons[k].pc = "save" /\ cons'[k].pc = "poll" /\ batch' = ToPostgres(cons[k].row)

LEMMA ConsumerMoves ==
    ASSUME ~DbErrors, ~Crashes, TypeOK, NEW k \in Consumers, ConsumerNext(k)
    PROVE  ConsumerMove(k)
<1>1. cons \in [Consumers -> ConsumerState]
  BY DEF TypeOK
<1>2. CASE Poll(k) \/ StopConsumer(k)
  BY <1>1, <1>2 DEF Poll, StopConsumer, ConsumerState, ConsumerMove, storeVars
<1>3. CASE StoreResult(k)
  BY <1>1, <1>3 DEF StoreResult, ConsumerState, ConsumerMove
<1>4. CASE CountJobs(k)
  <2>1. cons' = [cons EXCEPT
                    ![k].pc = "row",
                    ![k].done = Cardinality(JobsIn(JobStatus \ ActiveStatus)),
                    ![k].failed = Cardinality(JobsIn({"failed"}))]
    BY <1>4, DbAnswers DEF CountJobs
  <2> QED
    BY <1>1, <1>4, <2>1 DEF CountJobs, ConsumerState, ConsumerMove
<1>5. CASE LoadBatch(k)
  <2>1. cons' = [cons EXCEPT
                    ![k].pc = "save",
                    ![k].row = Recount(batch, cons[k].done, cons[k].failed)]
    BY <1>5, DbAnswers DEF LoadBatch
  <2> QED
    BY <1>1, <1>5, <2>1 DEF LoadBatch, ConsumerState, ConsumerMove
<1>6. CASE SaveBatch(k)
  <2>1. batch' = ToPostgres(cons[k].row)
    BY <1>6, DbAnswers DEF SaveBatch, UpdateBatch
  <2> QED
    BY <1>1, <1>6, <2>1 DEF SaveBatch, ConsumerIdle, ConsumerMove
<1> QED
  BY <1>2, <1>3, <1>4, <1>5, <1>6 DEF ConsumerNext, ConsumerStep, CrashConsumer

\* Without errors of the publisher no confirmation is rolled back.
LEMMA NoRollback ==
    ASSUME ~PublishErrors, TypeOK, NEW c \in Confirmers, ConfirmNext(c),
           ~conf[c].perr, conf[c].pc \notin Rollback
    PROVE  ~conf'[c].perr /\ conf'[c].pc \notin Rollback
<1> USE DEF Rollback
<1>1. conf \in [Confirmers -> ConfirmState]
  BY DEF TypeOK
<1>2. ASSUME NEW pc \in ConfirmPc \ Rollback, Answer(c, pc) \/ Goto(c, pc)
      PROVE  ~conf'[c].perr /\ conf'[c].pc \notin Rollback
  <2>1. CASE Answer(c, pc)
    <3> DEFINE t == [ConfirmFresh EXCEPT !.pc = pc, !.action = conf[c].action]
    <3>1. t.pc = pc /\ ~t.perr
      BY DEF ConfirmFresh
    <3>2. conf' = [conf EXCEPT ![c] = t]
      BY <2>1 DEF Answer
    <3> HIDE DEF t
    <3> QED
      BY <1>1, <1>2, <3>1, <3>2
  <2>2. CASE Goto(c, pc)
    BY <1>1, <1>2, <2>2 DEF Goto, ConfirmState
  <2> QED
    BY <1>2, <2>1, <2>2
<1>3. CASE StartConfirm(c)
  BY <1>1, <1>3 DEF StartConfirm, ConfirmState
<1>4. CASE CheckApproved(c) \/ CrashConfirm(c) \/ EndLoop(c)
  <2>1. \E pc \in ConfirmPc \ Rollback : Answer(c, pc) \/ Goto(c, pc)
    BY <1>4 DEF CheckApproved, CrashConfirm, EndLoop, ConfirmPc
  <2> QED
    BY <1>2, <2>1
<1>5. CASE BlockBatch(c)
  <2>1. \/ Answer(c, "rejected")
        \/ \E k : \E pc \in {"loadTx", "jobs"} :
              conf' = [conf EXCEPT ![c].ids = k, ![c].pc = pc]
    BY <1>5 DEF BlockBatch
  <2>2. CASE Answer(c, "rejected")
    <3>1. "rejected" \in ConfirmPc \ Rollback
      BY DEF ConfirmPc
    <3> QED
      BY <1>2, <2>2, <3>1
  <2>3. ASSUME NEW k, NEW pc \in {"loadTx", "jobs"},
               conf' = [conf EXCEPT ![c].ids = k, ![c].pc = pc]
        PROVE  ~conf'[c].perr /\ conf'[c].pc \notin Rollback
    BY <1>1, <2>3 DEF ConfirmState
  <2> QED
    BY <2>1, <2>2, <2>3
<1>6. CASE LoadForTx(c)
  <2>1. Goto(c, "jobs") \/ conf' = [conf EXCEPT ![c].pc = "saveTx", ![c].row = batch]
    BY <1>6 DEF LoadForTx
  <2>2. "jobs" \in ConfirmPc \ Rollback
    BY DEF ConfirmPc
  <2> QED
    BY <1>1, <1>2, <2>1, <2>2 DEF ConfirmState
<1>7. CASE SaveTx(c) \/ NextJob(c) \/ MarkQueued(c)
  BY <1>1, <1>7 DEF SaveTx, NextJob, MarkQueued, ConfirmState
<1>8. CASE GetJobs(c)
  <2>1. \/ Answer(c, "rejected")
        \/ \E o : conf' = [conf EXCEPT ![c].pc = "next", ![c].order = o]
    BY <1>8 DEF GetJobs
  <2>2. "rejected" \in ConfirmPc \ Rollback
    BY DEF ConfirmPc
  <2> QED
    BY <1>1, <1>2, <2>1, <2>2 DEF ConfirmState
<1>9. CASE PublishJob(c)
  <2>1. \A out \in PublishOutcome : out.ok = TRUE
    BY DEF PublishOutcome
  <2>2. conf' = [conf EXCEPT ![c].pc = "mark"]
    BY <1>9, <2>1 DEF PublishJob
  <2> QED
    BY <1>1, <2>2 DEF ConfirmState
<1> QED
  BY <1>3, <1>4, <1>5, <1>6, <1>7, <1>8, <1>9 DEF ConfirmNext, ConfirmStep, RefundAssigned,
     LoadForCancel, SaveCancelled, MarkRefunded, EndRollback

\* Only the consumer that stores an outcome settles the batch.
LEMMA SettledBefore ==
    ASSUME TypeOK, LoopInv, SettledInv, [Next]_vars, AllSettled'
    PROVE  AllSettled \/ \E k \in Consumers : StoreResult(k) /\ ConsumerNext(k)
<1>0. jobs \in [Jobs -> JobRow]
  BY DEF TypeOK, StoreTypeOK
<1>1. ASSUME NEW j \in Jobs, NEW s \in {"queued", "refunded"}, Marks(j, s),
             jobs' = [jobs EXCEPT ![j].status = s]
      PROVE  FALSE
  <2>1. jobs'[j].status = s
    BY <1>0, <1>1 DEF JobRow
  <2>2. s # "queued"
    BY <2>1 DEF AllSettled, ActiveStatus
  <2>3. (\E c \in Confirmers : conf[c].pc = "unqueued") \/ (\E x \in Cancellers : canc[x].pc = "mark")
    BY <1>1, <2>2 DEF Marks
  <2> QED
    BY <2>3 DEF SettledInv
<1>2. ASSUME NEW j \in Jobs, NEW tx, jobs' = [jobs EXCEPT ![j].tx = tx]
      PROVE  AllSettled
  <2>1. \A i \in Jobs : jobs'[i].status = jobs[i].status
    BY <1>0, <1>2 DEF JobRow
  <2> QED
    BY <2>1 DEF AllSettled
<1>3. CASE jobs' = jobs
  BY <1>3 DEF AllSettled
<1> QED
  BY <1>1, <1>2, <1>3, JobChange

LEMMA SettledStep ==
    ASSUME ~WithBlockFunc, ~DbErrors, ~PublishErrors, ~Crashes, OneConsumer,
           Restarters = {}, Configurers = {}, Inv, SettledInv, [Next]_vars
    PROVE  SettledInv'
<1>0. TypeOK /\ LoopInv /\ TxInv
  BY DEF Inv
<1>1. ASSUME NEW c \in Confirmers
      PROVE  ~conf'[c].perr /\ conf'[c].pc \notin Rollback
  <2>1. ~conf[c].perr /\ conf[c].pc \notin Rollback
    BY DEF SettledInv, Rollback
  <2>2. CASE conf'[c] = conf[c]
    BY <2>1, <2>2
  <2>3. CASE ConfirmNext(c)
    BY <1>0, <2>1, <2>3, NoRollback
  <2> QED
    BY <1>0, <2>2, <2>3, ConfirmOthers, CancelFrame, ConsumerFrame, RestartFrame,
       ConfigFrame, GenerateFrame DEF Next, localVars
<1>2. ASSUME NEW x \in Cancellers
      PROVE  /\ canc'[x].pc \notin {"refund", "jobs", "mark", "clear"}
             /\ canc'[x].pc = "save" => canc'[x].row.status = "cancelled"
  <2>1. /\ canc[x].pc \notin {"refund", "jobs", "mark", "clear"}
        /\ canc[x].pc = "save" => canc[x].row.status = "cancelled"
    BY DEF SettledInv
  <2>2. canc'[x].pc \notin {"refund", "jobs", "mark", "clear"}
    BY <1>0, <2>1, NothingToRefund
  <2>3. CASE canc'[x] = canc[x]
    BY <2>1, <2>3
  <2>4. CASE CancelNext(x)
    <3>1. [batch EXCEPT !.status = "cancelled"].status = "cancelled"
      BY <1>0 DEF TypeOK, StoreTypeOK, BatchRow
    <3> QED
      BY <1>0, <2>1, <2>2, <2>4, <3>1, CancelCopy DEF Holding
  <2> QED
    BY <1>0, <2>2, <2>3, <2>4, ConfirmFrame, CancelRow, ConsumerFrame, RestartFrame,
       ConfigFrame, GenerateFrame DEF Next, localVars
<1>3. ASSUME AllSettled, AllSettled', NEW k \in Consumers
      PROVE  /\ AtRest(k)' => batch'.status \in {"completed", "cancelled"}
             /\ cons'[k].pc = "row" => cons'[k].done = NJobs
             /\ cons'[k].pc = "save" => cons'[k].row.status = "completed"
  <2>1. /\ AtRest(k) => batch.status \in {"completed", "cancelled"}
        /\ cons[k].pc = "row" => cons[k].done = NJobs
        /\ cons[k].pc = "save" => cons[k].row.status = "completed"
    BY <1>3 DEF SettledInv
  <2>2. Consumers = {k}
    BY DEF OneConsumer
  <2>3. \A b \in BatchRow : ToPostgres(b).status = b.status
    BY DEF ToPostgres, BatchRow
  <2>4. cons[k].row \in BatchRow /\ \A x \in Cancellers : canc[x].row \in BatchRow
    BY <1>0 DEF TypeOK, ConsumerState, CancelState
  <2>5. batch' = batch \/ batch'.status \in {"completed", "cancelled"}
    <3>1. \A c \in Confirmers : conf[c].pc \notin {"saveTx", "saveRow"}
      BY <1>0 DEF TxInv, SettledInv
    <3>2. \A x \in Cancellers : canc[x].pc \in {"save", "clear"} =>
              ToPostgres(canc[x].row).status = "cancelled" /\ canc[x].row.txs = {}
      BY <1>0, <2>3, <2>4 DEF TxInv, SettledInv, SavedTx
    <3>3. \A x \in Cancellers : canc[x].row.txs = {} => [canc[x].row EXCEPT !.txs = {}] = canc[x].row
      BY <2>4 DEF BatchRow
    <3>4. cons[k].pc = "save" => ToPostgres(cons[k].row).status = "completed"
      BY <2>1, <2>3, <2>4
    <3>5. CASE batch' = batch
      BY <3>5
    <3>6. ASSUME batch' # batch
          PROVE  batch'.status \in {"completed", "cancelled"}
      <4>1. \/ \E x \in Cancellers :
                  /\ canc[x].pc \in {"save", "clear"}
                  /\ batch' \in {ToPostgres(canc[x].row),
                                 ToPostgres([canc[x].row EXCEPT !.txs = {}])}
            \/ \E l \in Consumers : cons[l].pc = "save" /\ batch' = ToPostgres(cons[l].row)
        BY <3>1, <3>6, Writer
      <4>2. ASSUME NEW x \in Cancellers, canc[x].pc \in {"save", "clear"},
                   batch' \in {ToPostgres(canc[x].row),
                               ToPostgres([canc[x].row EXCEPT !.txs = {}])}
            PROVE  batch'.status = "cancelled"
        <5>1. ToPostgres(canc[x].row).status = "cancelled" /\ canc[x].row.txs = {}
          BY <3>2, <4>2
        <5>2. batch' = ToPostgres(canc[x].row)
          BY <3>3, <4>2, <5>1
        <5> QED
          BY <5>1, <5>2
      <4>3. ASSUME NEW l \in Consumers, cons[l].pc = "save", batch' = ToPostgres(cons[l].row)
            PROVE  batch'.status = "completed"
        BY <2>2, <3>4, <4>3
      <4> QED
        BY <4>1, <4>2, <4>3
    <3> QED
      BY <3>5, <3>6
  <2>6. CASE cons'[k] = cons[k]
    BY <2>1, <2>5, <2>6 DEF AtRest
  <2>7. CASE ConsumerNext(k)
    <3>1. ConsumerMove(k)
      BY <1>0, <2>7, ConsumerMoves
    <3>2. Cardinality(JobsIn(JobStatus \ ActiveStatus)) = NJobs
      <4>1. JobsIn(JobStatus \ ActiveStatus) = Jobs
        BY <1>0, <1>3 DEF JobsIn, AllSettled, TypeOK, StoreTypeOK, JobRow
      <4> QED
        BY <4>1, JobsFinite
    <3>3. AtRest(k)' => batch'.status \in {"completed", "cancelled"}
      BY <2>1, <2>3, <2>4, <3>1 DEF ConsumerMove, AtRest
    <3>4. cons'[k].pc = "row" => cons'[k].done = NJobs
      BY <3>1, <3>2 DEF ConsumerMove
    <3>5. ASSUME cons'[k].pc = "save"
          PROVE  cons'[k].row.status = "completed"
      <4>1. cons[k].done = NJobs
        BY <2>1, <3>1, <3>5 DEF ConsumerMove
      <4>2. cons'[k].row = Recount(batch, cons[k].done, cons[k].failed)
        BY <1>0, <2>7, <3>5, ConsumerCopy
      <4> QED
        BY <1>0, <4>1, <4>2 DEF Recount, TypeOK, StoreTypeOK, BatchRow
    <3> QED
      BY <3>3, <3>4, <3>5
  <2> QED
    BY <1>0, <2>6, <2>7, ConfirmFrame, CancelFrame, ConsumerRow, RestartFrame,
       ConfigFrame, GenerateFrame DEF Next, localVars
<1>4. ASSUME AllSettled', ~AllSettled, NEW k \in Consumers
      PROVE  cons'[k].pc = "jobs"
  <2>1. StoreResult(k)
    BY <1>0, <1>4, SettledBefore DEF OneConsumer
  <2> QED
    BY <1>0, <2>1 DEF StoreResult, TypeOK, ConsumerState
<1>5. ASSUME AllSettled', NEW k \in Consumers
      PROVE  /\ AtRest(k)' => batch'.status \in {"completed", "cancelled"}
             /\ cons'[k].pc = "row" => cons'[k].done = NJobs
             /\ cons'[k].pc = "save" => cons'[k].row.status = "completed"
  BY <1>3, <1>4, <1>5 DEF AtRest
<1> QED
  BY <1>1, <1>2, <1>5 DEF SettledInv, Rollback

LEMMA SettledStart == Init => SettledInv
<1> SUFFICES ASSUME Init PROVE SettledInv
  OBVIOUS
<1>1. 1 \in Jobs /\ jobs[1].status = "pending"
  BY NJobsAssumption DEF Init, StoreInit, Jobs
<1>2. ~AllSettled
  BY <1>1 DEF AllSettled, ActiveStatus
<1> QED
  BY <1>2 DEF Init, ConfirmInit, ConfirmFresh, CancelInit, CancelFresh, SettledInv

\* With one result consumer and the wired handler, and as long as the database and
\* the topics answer and no administrator interferes, a batch whose jobs have all
\* settled is completed or cancelled whenever the consumer is between two
\* messages, however many confirmations and cancellations there are.  (The run
\* two_consumers shows that a second consumer breaks it.)
THEOREM SettledCompletes ==
    ASSUME ~WithBlockFunc, ~DbErrors, ~PublishErrors, ~Crashes, OneConsumer,
           Restarters = {}, Configurers = {}
    PROVE  Spec => []SettledIsCompleted
<1>1. Inv /\ SettledInv /\ [Next]_vars => SettledInv'
  BY SettledStep
<1>2. SettledInv => SettledIsCompleted
  BY DEF SettledInv, SettledIsCompleted, OneConsumer
<1> QED
  BY <1>1, <1>2, SettledStart, Invariance, PTL DEF Spec

---------------------------------------------------------------------------
(***************************************************************************)
(* The way of a confirmation to its answer                                 *)
(***************************************************************************)

\* The moves into a rollback and within it.
LEMMA RollbackMoves ==
    ASSUME TypeOK, NEW c \in Confirmers, ConfirmNext(c), conf'[c].pc \in Rollback
    PROVE  \/ Move(c, {"next"}, {"refund", "loadRow"})
           \/ Move(c, {"refund"}, {"loadRow"})
           \/ Move(c, {"loadRow"}, {"saveRow", "unqueued"})
           \/ Move(c, {"saveRow"}, {"unqueued"})
           \/ /\ Move(c, {"unqueued"}, {"unqueued"})
              /\ conf[c].pos <= LastPos(c)
              /\ conf'[c].pos = conf[c].pos + 1
              /\ conf'[c].count = conf[c].count
<1> USE DEF Move
<1>0. conf \in [Confirmers -> ConfirmState]
  BY DEF TypeOK
<1>1. conf'[c].pc \notin {"check", "block", "loadTx", "saveTx", "jobs", "next", "publish",
                          "mark", "done", "rejected", "crashed"}
  BY DEF Rollback
<1>2. CASE StartConfirm(c)
  BY <1>0, <1>1, <1>2 DEF StartConfirm, ConfirmState
<1>3. CASE CheckApproved(c)
  BY <1>1, <1>3, AnswerFields, GotoFields DEF CheckApproved, ConfirmPc
<1>4. CASE BlockBatch(c)
  <2>1. PICK out \in BillingCall, k \in TxCounts :
           IF out.ok
           THEN conf' = [conf EXCEPT
                   ![c].ids = k,
                   ![c].pc = IF WithBlockFunc /\ k > 0 THEN "loadTx" ELSE "jobs"]
           ELSE Answer(c, "rejected")
    BY <1>4 DEF BlockBatch
  <2>2. CASE out.ok
    BY <1>0, <1>1, <2>1, <2>2 DEF ConfirmState
  <2>3. CASE ~out.ok
    BY <1>1, <2>1, <2>3, AnswerFields DEF ConfirmPc
  <2> QED
    BY <2>2, <2>3
<1>5. CASE LoadForTx(c)
  <2>1. CASE conf' = [conf EXCEPT ![c].pc = "saveTx", ![c].row = batch]
    BY <1>0, <1>1, <2>1 DEF ConfirmState
  <2> QED
    BY <1>1, <1>5, <2>1, GotoFields DEF LoadForTx, ConfirmPc
<1>6. CASE SaveTx(c)
  BY <1>0, <1>1, <1>6 DEF SaveTx, ConfirmState
<1>7. CASE GetJobs(c)
  <2>1. ASSUME NEW o, conf' = [conf EXCEPT ![c].pc = "next", ![c].order = o]
        PROVE  FALSE
    BY <1>0, <1>1, <2>1 DEF ConfirmState
  <2> QED
    BY <1>1, <1>7, <2>1, AnswerFields DEF GetJobs, ConfirmPc
<1>8. CASE NextJob(c)
  <2>1. \E tx : conf' = [conf EXCEPT ![c].pc = "publish", ![c].assigned = @ \cup tx]
    BY <1>8 DEF NextJob
  <2> QED
    BY <1>0, <1>1, <2>1 DEF ConfirmState
<1>9. CASE PublishJob(c)
  <2>1. \/ conf' = [conf EXCEPT ![c].pc = "mark"]
        \/ conf' = [conf EXCEPT ![c].pc = "next", ![c].pos = @ + 1, ![c].perr = TRUE]
    BY <1>9 DEF PublishJob
  <2> QED
    BY <1>0, <1>1, <2>1 DEF ConfirmState
<1>10. CASE MarkQueued(c)
  <2>1. \E q : conf' = [conf EXCEPT ![c].pc = "next", ![c].pos = @ + 1, ![c].queued = q]
    BY <1>10 DEF MarkQueued
  <2> QED
    BY <1>0, <1>1, <2>1 DEF ConfirmState
<1>11. CASE EndLoop(c)
  <2>1. CASE Answer(c, "done")
    BY <1>1, <2>1, AnswerFields DEF ConfirmPc
  <2>2. CASE Goto(c, IF conf[c].assigned = {} THEN "loadRow" ELSE "refund")
    BY <1>11, <2>2, GotoFields DEF EndLoop, ConfirmPc
  <2> QED
    BY <1>11, <2>1, <2>2 DEF EndLoop
<1>12. CASE RefundAssigned(c)
  BY <1>12, GotoFields DEF RefundAssigned, ConfirmPc
<1>13. CASE LoadForCancel(c)
  <2>1. PICK ok \in ReadOk :
          conf' = [conf EXCEPT ![c].pc = IF ok THEN "saveRow" ELSE "unqueued",
                               ![c].row = IF ok THEN batch ELSE @,
                               ![c].pos = conf[c].queued + 1]
    BY <1>13 DEF LoadForCancel
  <2> DEFINE b == IF ok THEN batch ELSE conf[c].row
             n == conf[c].queued + 1
  <2>2. \E pc \in {"saveRow", "unqueued"} :
           conf' = [conf EXCEPT ![c].pc = pc, ![c].row = b, ![c].pos = n]
    BY <2>1
  <2> HIDE DEF b, n
  <2> QED
    BY <1>0, <1>13, <2>2 DEF LoadForCancel, ConfirmState
<1>14. CASE SaveCancelled(c)
  BY <1>0, <1>14 DEF SaveCancelled, ConfirmState
<1>15. CASE MarkRefunded(c)
  BY <1>0, <1>15 DEF MarkRefunded, ConfirmState
<1>16. CASE EndRollback(c)
  BY <1>1, <1>16, AnswerFields DEF EndRollback, ConfirmPc
<1>17. CASE CrashConfirm(c)
  BY <1>1, <1>17, AnswerFields DEF CrashConfirm, ConfirmPc
<1> QED
  BY <1>2, <1>3, <1>4, <1>5, <1>6, <1>7, <1>8, <1>9, <1>10, <1>11, <1>12, <1>13, <1>14,
     <1>15, <1>16, <1>17 DEF ConfirmNext, ConfirmStep

\* An answer is the end.
LEMMA NotEnded ==
    ASSUME NEW c \in Confirmers, ConfirmNext(c)
    PROVE  conf[c].pc \notin Ended
BY DEF ConfirmNext, StartConfirm, ConfirmStep, CrashConfirm, CheckApproved, BlockBatch,
   LoadForTx, SaveTx, GetJobs, NextJob, PublishJob, MarkQueued, EndLoop, RefundAssigned,
   LoadForCancel, SaveCancelled, MarkRefunded, EndRollback, Ended

LEMMA LeftBounded ==
    ASSUME TypeOK, NEW c \in Confirmers
    PROVE  Left(c) \in 0 .. NJobs
<1>1. conf[c].pos \in Nat \ {0} /\ conf[c].count \in Nat
  BY DEF TypeOK, ConfirmState
<1> QED
  BY <1>1, NJobsAssumption DEF Left, LastPos, Least

\* The same of the new state, as long as the request has its local variables.
LEMMA LeftStill ==
    ASSUME TypeOK, TypeOK', NEW c \in Confirmers
    PROVE  /\ conf'[c].pos = conf[c].pos /\ conf'[c].count = conf[c].count => Left(c)' = Left(c)
           /\ /\ conf'[c].pos = conf[c].pos + 1 /\ conf'[c].count = conf[c].count
              /\ conf[c].pos <= LastPos(c)
              => Left(c)' = Left(c) - 1
           /\ Left(c)' \in 0 .. NJobs
<1>1. /\ conf[c].pos \in Nat \ {0} /\ conf[c].count \in Nat
      /\ conf'[c].pos \in Nat \ {0} /\ conf'[c].count \in Nat
  BY DEF TypeOK, ConfirmState
<1> QED
  BY <1>1, NJobsAssumption DEF Left, LastPos, Least

LEMMA RankBounded ==
    ASSUME TypeOK
    PROVE  ConfirmBounded
<1> SUFFICES ASSUME NEW c \in Confirmers
             PROVE  /\ ConfirmRank(c) \in 0 .. (4 * NJobs + 11)
                    /\ ConfirmRank(c) = 0 <=> conf[c].pc \in {"done", "rejected", "crashed"}
  BY DEF ConfirmBounded
<1>1. conf[c].pc \in ConfirmPc
  BY DEF TypeOK, ConfirmState
<1>2. Left(c) \in 0 .. NJobs
  BY LeftBounded
<1>3. PICK r : r = ConfirmRank(c)
  OBVIOUS
<1>4. CASE conf[c].pc \in {"idle", "check", "block", "loadTx", "saveTx", "jobs"}
  <2>1. r > 4 * NJobs + 5 /\ r <= 4 * NJobs + 11 /\ r \in Int
    <3>1. \/ r = 4 * NJobs + 11 \/ r = 4 * NJobs + 10 \/ r = 4 * NJobs + 9
          \/ r = 4 * NJobs + 8 \/ r = 4 * NJobs + 7 \/ r = 4 * NJobs + 6
      BY <1>3, <1>4 DEF ConfirmRank
    <3> QED
      BY <3>1, NJobsAssumption
  <2> QED
    BY <1>3, <1>4, <2>1, NJobsAssumption
<1>5. CASE conf[c].pc \in {"next", "publish", "mark"}
  <2>1. \/ r = NJobs + 5 + 3 * Left(c) \/ r = NJobs + 4 + 3 * Left(c)
        \/ r = NJobs + 3 + 3 * Left(c)
    BY <1>3, <1>5 DEF ConfirmRank
  <2> QED
    BY <1>2, <1>3, <1>5, <2>1, NJobsAssumption
<1>6. CASE conf[c].pc \in {"refund", "loadRow", "saveRow", "unqueued"}
  <2>1. r = NJobs + 4 \/ r = NJobs + 3 \/ r = NJobs + 2 \/ r = 1 + Left(c)
    BY <1>3, <1>6 DEF ConfirmRank
  <2> QED
    BY <1>2, <1>3, <1>6, <2>1, NJobsAssumption
<1>7. CASE conf[c].pc \in {"done", "rejected", "crashed"}
  <2>1. r = 0
    BY <1>3, <1>7 DEF ConfirmRank
  <2> QED
    BY <1>3, <1>7, <2>1, NJobsAssumption
<1> QED
  BY <1>1, <1>4, <1>5, <1>6, <1>7 DEF ConfirmPc

LEMMA CloserStep ==
    ASSUME Inv, Inv', NEW c \in Confirmers, ConfirmNext(c)
    PROVE  ConfirmRank(c)' < ConfirmRank(c)
<1>0. TypeOK /\ TypeOK' /\ LoopInv
  BY DEF Inv
<1>1. Left(c) \in 0 .. NJobs /\ Left(c)' \in 0 .. NJobs
  BY <1>0, LeftBounded, LeftStill
<1>2. conf[c].pc \in ConfirmPc /\ conf'[c].pc \in ConfirmPc
  BY <1>0 DEF TypeOK, ConfirmState
<1>3. ConfirmRank(c) \in Int /\ conf[c].pc \notin Ended /\ ConfirmRank(c) > 0
  BY <1>0, RankBounded, NotEnded, NJobsAssumption DEF ConfirmBounded, Ended
<1>4. CASE conf'[c].pc \in Ended
  BY <1>3, <1>4 DEF ConfirmRank, Ended
<1>5. CASE conf'[c].pc \in Rollback
  <2>1. CASE Move(c, {"unqueued"}, {"unqueued"}) /\ conf[c].pos <= LastPos(c)
             /\ conf'[c].pos = conf[c].pos + 1 /\ conf'[c].count = conf[c].count
    <3>1. Left(c)' = Left(c) - 1
      BY <1>0, <2>1, LeftStill
    <3> QED
      BY <1>1, <2>1, <3>1 DEF Move, ConfirmRank
  <2> QED
    BY <1>0, <1>1, <1>5, <2>1, RollbackMoves, NJobsAssumption DEF Move, ConfirmRank
<1>6. CASE Move(c, {"idle", "check", "block", "loadTx", "saveTx", "jobs"},
                   {"check", "block", "loadTx", "saveTx", "jobs", "next"})
           /\ ~Move(c, {"idle"}, {"next"})
  <2>1. \/ Move(c, {"idle"}, {"check"}) \/ Move(c, {"check"}, {"block"})
        \/ Move(c, {"block"}, {"loadTx", "jobs"}) \/ Move(c, {"loadTx"}, {"saveTx", "jobs"})
        \/ Move(c, {"saveTx"}, {"jobs"}) \/ Move(c, {"jobs"}, {"next"})
    BY <1>0, <1>6, ConfirmMoves DEF Move, Ended, Rollback
  <2> QED
    BY <1>1, <2>1, NJobsAssumption DEF Move, ConfirmRank
<1>7. CASE Move(c, {"next"}, {"publish"}) /\ Still(c)
  BY <1>0, <1>1, <1>7, LeftStill, NJobsAssumption DEF Move, Still, ConfirmRank
<1>8. CASE Move(c, {"publish"}, {"mark"}) /\ Still(c)
  BY <1>0, <1>1, <1>8, LeftStill, NJobsAssumption DEF Move, Still, ConfirmRank
<1>9. CASE Move(c, {"publish", "mark"}, {"next"}) /\ Turn(c)
  <2>1. conf[c].pos <= LastPos(c)
    BY <1>0, <1>9 DEF LoopInv, Move
  <2>2. Left(c)' = Left(c) - 1
    BY <1>0, <1>9, <2>1, LeftStill DEF Turn
  <2> QED
    BY <1>1, <1>9, <2>2, NJobsAssumption DEF Move, ConfirmRank
<1> QED
  BY <1>0, <1>4, <1>5, <1>6, <1>7, <1>8, <1>9, ConfirmMoves DEF Move

\* A confirmation comes to an end: each of its steps lowers a bound on the number
\* of steps before it, whichever calls fail and whatever the others do meanwhile.
\* With weak fairness of its steps that is why every confirmation is answered.
THEOREM ConfirmationEnds == Spec => []ConfirmBounded /\ ConfirmCloser
<1> DEFINE Closer ==
      \A c \in Confirmers : conf'[c] # conf[c] => ConfirmRank(c)' < ConfirmRank(c)
<1>1. Inv => ConfirmBounded
  BY RankBounded DEF Inv
<1>2. ASSUME Inv, Inv', [Next]_vars
      PROVE  Closer
  <2> SUFFICES ASSUME NEW c \in Confirmers, conf'[c] # conf[c]
               PROVE  ConfirmRank(c)' < ConfirmRank(c)
    OBVIOUS
  <2>0. TypeOK
    BY <1>2 DEF Inv
  <2>1. ConfirmNext(c)
    BY <1>2, <2>0, ConfirmOthers, CancelFrame, ConsumerFrame, RestartFrame, ConfigFrame,
       GenerateFrame DEF Next, vars, localVars
  <2> QED
    BY <1>2, <2>1, CloserStep
<1> QED
  BY <1>1, <1>2, Invariance, PTL DEF Spec, ConfirmCloser
=============================================================================
