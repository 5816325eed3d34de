----------------------- MODULE BatchRefinement_proofs -----------------------
(***************************************************************************)
(* BatchSystem implements BatchLedger, for any number of jobs, requests    *)
(* and consumers and every choice of failures: the initial states map to   *)
(* the initial state of the ledger, and every step of every handler is one *)
(* step of the ledger or leaves it as it is.                               *)
(***************************************************************************)
EXTENDS BatchRefinement, BatchSystem_proofs

---------------------------------------------------------------------------
(***************************************************************************)
(* What a step leaves alone                                                *)
(***************************************************************************)

\* Each history of a confirmation is written by one of its calls.
LEMMA ConfirmFrame ==
    ASSUME NEW c \in Confirmers, ConfirmNext(c)
    PROVE  /\ ~BlockBatch(c) => UNCHANGED <<reserved, issued>>
           /\ ~PublishJob(c) => UNCHANGED <<published, jobTopic>>
           /\ ~RefundAssigned(c) => refunds' = refunds
           /\ UNCHANGED <<resultTopic, outcomes>>
           /\ UNCHANGED <<canc, cons, rest, cong>>
BY DEF storeVars, ConfirmNext, StartConfirm, ConfirmStep, CrashConfirm, CheckApproved,
   BlockBatch, LoadForTx, SaveTx, GetJobs, NextJob, PublishJob, MarkQueued, EndLoop,
   RefundAssigned, LoadForCancel, SaveCancelled, MarkRefunded, EndRollback

LEMMA CancelFrame ==
    ASSUME NEW x \in Cancellers, CancelNext(x)
    PROVE  /\ UNCHANGED <<reserved, issued, published, jobTopic, resultTopic, outcomes>>
           /\ UNCHANGED <<conf, cons, rest, cong>>
           /\ ~CancelRefund(x) => refunds' = refunds
BY DEF storeVars, CancelNext, StartCancel, CancelStep, CrashCancel, CancelLoad, CancelSave,
   CancelRefund, CancelJobs, CancelMark, CancelMarked, CancelClear

LEMMA ConsumerFrame ==
    ASSUME NEW k \in Consumers, ConsumerNext(k)
    PROVE  /\ UNCHANGED <<reserved, issued, published, jobTopic, refunds>>
           /\ UNCHANGED <<conf, canc, rest, cong>>
BY DEF storeVars, ConsumerNext, ConsumerStep, StopConsumer, CrashConsumer, Poll,
   StoreResult, CountJobs, LoadBatch, SaveBatch

LEMMA RestartFrame ==
    ASSUME NEW r \in Restarters, RestartNext(r)
    PROVE  /\ UNCHANGED <<reserved, issued, refunds, resultTopic, outcomes>>
           /\ UNCHANGED <<conf, canc, cons, cong>>
           /\ ~RestartPublish(r) => UNCHANGED <<published, jobTopic>>
BY DEF storeVars, RestartNext, StartRestart, RestartStep, CrashRestart, RestartJobs,
   RestartPublish, RestartMark, RestartEndLoop, RestartLoad, RestartSave, RestartAt

LEMMA ConfigFrame ==
    ASSUME NEW g \in Configurers, ConfigNext(g)
    PROVE  /\ UNCHANGED <<jobs, reserved, issued, published, refunds, jobTopic, resultTopic>>
           /\ UNCHANGED outcomes
           /\ UNCHANGED <<conf, canc, cons, rest>>
BY DEF storeVars, ConfigNext, StartConfig, ConfigStep, CrashConfig, ConfigLoad, ConfigSave,
   ConfigAt

LEMMA GenerateFrame ==
    ASSUME GenerateNext \/ UNCHANGED vars
    PROVE  /\ UNCHANGED <<batch, jobs, reserved, issued, published, refunds, outcomes>>
           /\ UNCHANGED localVars
BY DEF vars, storeVars, GenerateNext, Generate

---------------------------------------------------------------------------
(***************************************************************************)
(* What a step does to the job rows and to the history of their results    *)
(***************************************************************************)

\* Somebody other than a consumer sets the status of the job j to s.
Marks(j, s) ==
    \/ \E c \in Confirmers : /\ ConfirmNext(c) /\ conf[c].pc = "mark"
                             /\ j = CurrentJob(c) /\ s = "queued"
    \/ \E c \in Confirmers : /\ ConfirmNext(c) /\ conf[c].pc = "unqueued"
                             /\ conf[c].pos <= LastPos(c) /\ conf'[c].pc = "unqueued"
                             /\ j = CurrentJob(c) /\ s = "refunded"
    \/ \E r \in Restarters : j \in rest[r].job /\ s = "queued"
    \/ \E x \in Cancellers : canc[x].pc = "mark" /\ j \in canc[x].todo /\ s = "refunded"

\* The job at the position of the confirmation c is given its transaction.
Assigns(c, j, tx) ==
    /\ ConfirmNext(c)
    /\ conf[c].pc = "next" /\ conf'[c].pc = "publish"
    /\ j = CurrentJob(c)
    /\ tx = ValidTx(AssignTx(c, conf[c].pos))
    /\ conf'[c].assigned = conf[c].assigned \cup tx

\* A step writes one column of one job, or stores the result of a message, which
\* alone adds to the history.
LEMMA JobChange ==
    ASSUME TypeOK, LoopInv, [Next]_vars
    PROVE  \/ UNCHANGED <<jobs, outcomes>>
           \/ \E j \in Jobs, s \in {"queued", "refunded"} :
                 Marks(j, s) /\ jobs' = [jobs EXCEPT ![j].status = s] /\ outcomes' = outcomes
           \/ \E c \in Confirmers, j \in Jobs, tx \in SUBSET Tx :
                 Assigns(c, j, tx) /\ jobs' = [jobs EXCEPT ![j].tx = tx] /\ outcomes' = outcomes
           \/ \E k \in Consumers : \E m \in cons[k].msg :
                 /\ StoreResult(k) /\ ConsumerNext(k)
                 /\ jobs' = [jobs EXCEPT ![m.job] = ResultRow(m)]
                 /\ outcomes' = [outcomes EXCEPT ![m.job] = @ \cup {m.status}]
<1> USE DEF storeVars
<1>1. ASSUME NEW c \in Confirmers, ConfirmNext(c), jobs' # jobs
      PROVE  \/ \E j \in Jobs, s \in {"queued", "refunded"} :
                   Marks(j, s) /\ jobs' = [jobs EXCEPT ![j].status = s]
             \/ \E j \in Jobs, tx \in SUBSET Tx :
                   Assigns(c, j, tx) /\ jobs' = [jobs EXCEPT ![j].tx = tx]
  <2>1. CASE MarkQueued(c)
    <3>1. conf[c].pc = "mark" /\ jobs' = [jobs EXCEPT ![CurrentJob(c)].status = "queued"]
      BY <1>1, <2>1 DEF MarkQueued, UpdateStatus
    <3>2. CurrentJob(c) \in Jobs
      BY <3>1, CurrentJobType DEF LoopInv
    <3> QED
      BY <1>1, <3>1, <3>2 DEF Marks
  <2>2. CASE MarkRefunded(c)
    <3>1. /\ conf[c].pc = "unqueued" /\ conf[c].pos <= LastPos(c)
          /\ jobs' = [jobs EXCEPT ![CurrentJob(c)].status = "refunded"]
      BY <1>1, <2>2 DEF MarkRefunded, UpdateStatus
    <3>2. CurrentJob(c) \in Jobs
      BY <3>1, CurrentJobType
    <3>3. conf'[c].pc = "unqueued"
      BY <2>2 DEF MarkRefunded, TypeOK, ConfirmState
    <3> QED
      BY <1>1, <3>1, <3>2, <3>3 DEF Marks
  <2>3. CASE NextJob(c)
    <3> DEFINE tx == ValidTx(AssignTx(c, conf[c].pos))
    <3>1. /\ conf[c].pc = "next" /\ conf[c].pos <= LastPos(c)
          /\ jobs' = [jobs EXCEPT ![CurrentJob(c)].tx = tx]
      BY <1>1, <2>3 DEF NextJob, UpdateBillingTransactionID
    <3>2. CurrentJob(c) \in Jobs
      BY <3>1, CurrentJobType
    <3>3. conf'[c].pc = "publish" /\ conf'[c].assigned = conf[c].assigned \cup tx
      BY <2>3 DEF NextJob, TypeOK, ConfirmState
    <3>4. tx \in SUBSET Tx
      BY AssignTxType DEF ValidTx
    <3> QED
      BY <1>1, <3>1, <3>2, <3>3, <3>4 DEF Assigns
  <2>4. CASE ~MarkQueued(c) /\ ~MarkRefunded(c) /\ ~NextJob(c)
    BY <1>1, <2>4 DEF ConfirmNext, StartConfirm, ConfirmStep, CrashConfirm, CheckApproved,
       BlockBatch, LoadForTx, SaveTx, GetJobs, PublishJob, EndLoop, RefundAssigned,
       LoadForCancel, SaveCancelled, EndRollback
  <2> QED
    BY <2>1, <2>2, <2>3, <2>4
<1>2. ASSUME NEW x \in Cancellers, CancelNext(x), jobs' # jobs
      PROVE  \E j \in Jobs : Marks(j, "refunded") /\ jobs' = [jobs EXCEPT ![j].status = "refunded"]
  <2>1. CASE CancelMark(x)
    <3>1. /\ canc[x].pc = "mark"
          /\ \E j \in canc[x].todo : jobs' = [jobs EXCEPT ![j].status = "refunded"]
      BY <1>2, <2>1 DEF CancelMark, CancelAt, UpdateStatus
    <3>2. canc[x].todo \subseteq Jobs
      BY DEF TypeOK, CancelState
    <3> QED
      BY <3>1, <3>2 DEF Marks
  <2>2. CASE ~CancelMark(x)
    BY <1>2, <2>2 DEF CancelNext, StartCancel, CancelStep, CrashCancel, CancelLoad,
       CancelSave, CancelRefund, CancelJobs, CancelMarked, CancelClear
  <2> QED
    BY <2>1, <2>2
<1>3. ASSUME NEW k \in Consumers, ConsumerNext(k)
      PROVE  \/ UNCHANGED <<jobs, outcomes>>
             \/ StoreResult(k) /\ \E m \in cons[k].msg :
                   /\ jobs' = [jobs EXCEPT ![m.job] = ResultRow(m)]
                   /\ outcomes' = [outcomes EXCEPT ![m.job] = @ \cup {m.status}]
  <2>1. CASE StoreResult(k)
    BY <1>3, <2>1 DEF StoreResult, UpdateStatusWithResult
  <2>2. CASE ~StoreResult(k)
    BY <1>3, <2>2 DEF ConsumerNext, ConsumerStep, StopConsumer, CrashConsumer, Poll,
       CountJobs, LoadBatch, SaveBatch
  <2> QED
    BY <2>1, <2>2
<1>4. ASSUME NEW r \in Restarters, RestartNext(r), jobs' # jobs
      PROVE  \E j \in Jobs : Marks(j, "queued") /\ jobs' = [jobs EXCEPT ![j].status = "queued"]
  <2>1. CASE RestartMark(r)
    <3>1. \E j \in rest[r].job : jobs' = [jobs EXCEPT ![j].status = "queued"]
      BY <1>4, <2>1 DEF RestartMark, UpdateStatus
    <3>2. rest[r].job \subseteq Jobs
      BY DEF TypeOK, RestartState
    <3> QED
      BY <3>1, <3>2 DEF Marks
  <2>2. CASE ~RestartMark(r)
    BY <1>4, <2>2 DEF RestartNext, StartRestart, RestartStep, CrashRestart, RestartJobs,
       RestartPublish, RestartEndLoop, RestartLoad, RestartSave
  <2> QED
    BY <2>1, <2>2
<1>5. ASSUME NEW g \in Configurers, ConfigNext(g)
      PROVE  UNCHANGED <<jobs, outcomes>>
  BY <1>5 DEF ConfigNext, StartConfig, ConfigStep, CrashConfig, ConfigLoad, ConfigSave
<1>6. ASSUME GenerateNext \/ UNCHANGED vars
      PROVE  UNCHANGED <<jobs, outcomes>>
  BY <1>6 DEF GenerateNext, Generate, vars
<1>7. CASE \E c \in Confirmers : ConfirmNext(c)
  BY <1>1, <1>7, ConfirmFrame
<1>8. CASE \E x \in Cancellers : CancelNext(x)
  BY <1>2, <1>8, CancelFrame
<1>9. CASE \E k \in Consumers : ConsumerNext(k)
  BY <1>3, <1>9
<1>10. CASE \E r \in Restarters : RestartNext(r)
  BY <1>4, <1>10, RestartFrame
<1> QED
  BY <1>5, <1>6, <1>7, <1>8, <1>9, <1>10 DEF Next

---------------------------------------------------------------------------
(***************************************************************************)
(* LedgerInv is an invariant                                               *)
(***************************************************************************)

\* The row that a result leaves behind.
LEMMA ResultRowSays ==
    ASSUME NEW m
    PROVE  /\ ResultRow(m).status = m.status
           /\ ResultRow(m).build <=> m.status = "completed"
BY DEF ResultRow

\* The history only grows.
LEMMA OutcomeStays ==
    ASSUME TypeOK, LoopInv, [Next]_vars, NEW j \in Jobs
    PROVE  outcomes[j] \subseteq outcomes'[j]
<1>1. outcomes \in [Jobs -> SUBSET Outcome]
  BY DEF TypeOK, StoreTypeOK
<1> QED
  BY <1>1, JobChange

\* A row goes on telling of its past what RowSaysIt says, whatever is written to it.
LEMMA RowKeepsSaying ==
    ASSUME TypeOK, LoopInv, [Next]_vars, NEW j \in Jobs, RowSaysIt(j)
    PROVE  RowSaysIt(j)'
<1>1. jobs \in [Jobs -> JobRow] /\ outcomes \in [Jobs -> SUBSET Outcome]
  BY DEF TypeOK, StoreTypeOK
<1>2. ASSUME NEW i \in Jobs, NEW s \in {"queued", "refunded"},
             jobs' = [jobs EXCEPT ![i].status = s], outcomes' = outcomes
      PROVE  RowSaysIt(j)'
  <2>1. /\ jobs'[j].build = jobs[j].build
        /\ jobs'[j].status = jobs[j].status \/ jobs'[j].status \in {"queued", "refunded"}
    BY <1>1, <1>2 DEF JobRow
  <2> QED
    BY <1>2, <2>1 DEF RowSaysIt, Outcome
<1>3. ASSUME NEW i \in Jobs, NEW tx, jobs' = [jobs EXCEPT ![i].tx = tx], outcomes' = outcomes
      PROVE  RowSaysIt(j)'
  <2>1. jobs'[j].build = jobs[j].build /\ jobs'[j].status = jobs[j].status
    BY <1>1, <1>3 DEF JobRow
  <2> QED
    BY <1>3, <2>1 DEF RowSaysIt
<1>4. ASSUME NEW m, jobs' = [jobs EXCEPT ![m.job] = ResultRow(m)],
             outcomes' = [outcomes EXCEPT ![m.job] = @ \cup {m.status}]
      PROVE  RowSaysIt(j)'
  <2>1. CASE j = m.job
    <3>1. jobs'[j] = ResultRow(m) /\ outcomes'[j] = outcomes[j] \cup {m.status}
      BY <1>1, <1>4, <2>1
    <3>2. "completed" \in outcomes[j] => jobs[j].build \/ "failed" \in outcomes[j]
      BY DEF RowSaysIt
    <3>3. m.status \in Outcome => m.status = "completed" \/ m.status = "failed"
      BY DEF Outcome
    <3>4. outcomes'[j] \subseteq Outcome
      BY <1>1, TypeStep DEF TypeOK, StoreTypeOK
    <3> QED
      BY <3>1, <3>2, <3>3, <3>4, ResultRowSays DEF RowSaysIt
  <2>2. CASE j # m.job
    <3>1. jobs'[j] = jobs[j] /\ outcomes'[j] = outcomes[j]
      BY <1>1, <1>4, <2>2
    <3> QED
      BY <3>1 DEF RowSaysIt
  <2> QED
    BY <2>1, <2>2
<1>5. CASE UNCHANGED <<jobs, outcomes>>
  BY <1>5 DEF RowSaysIt
<1> QED
  BY <1>2, <1>3, <1>4, <1>5, JobChange

\* Before its call to billing a confirmation has nothing there.
LEMMA NothingYet ==
    ASSUME TypeOK, LedgerInv, [Next]_vars, NEW c \in Confirmers,
           conf'[c].pc \in {"idle", "check", "block"}
    PROVE  reserved'[c] = 0 /\ \A t \in issued' : t[1] # c
<1>1. reserved \in [Confirmers -> Nat]
  BY DEF TypeOK, StoreTypeOK
<1>2. ASSUME NEW d \in Confirmers, ConfirmNext(d), d # c
      PROVE  /\ conf'[c] = conf[c] /\ reserved'[c] = reserved[c]
             /\ \A t \in issued' : t \in issued \/ t[1] = d
  <2>1. CASE BlockBatch(d)
    BY <1>1, <1>2, <2>1, ConfirmOthers DEF BlockBatch
  <2>2. CASE ~BlockBatch(d)
    BY <1>2, <2>2, ConfirmFrame, ConfirmOthers
  <2> QED
    BY <2>1, <2>2
<1>3. ASSUME ConfirmNext(c)
      PROVE  conf[c].pc \in {"idle", "check", "block"} /\ UNCHANGED <<reserved, issued>>
  <2>1. conf[c].pc \in {"idle", "check"}
    BY <1>3, ConfirmMoves DEF Move, Turn, Ended, Rollback
  <2>2. ~BlockBatch(c)
    BY <2>1 DEF BlockBatch
  <2> QED
    BY <1>3, <2>1, <2>2, ConfirmFrame
<1>4. ASSUME ~\E d \in Confirmers : ConfirmNext(d)
      PROVE  UNCHANGED <<conf, reserved, issued>>
  BY <1>4, CancelFrame, ConsumerFrame, RestartFrame, ConfigFrame, GenerateFrame
     DEF Next, localVars
<1> QED
  BY <1>2, <1>3, <1>4 DEF LedgerInv

\* A restart takes up failed jobs only.
LEMMA RestartHolds ==
    ASSUME TypeOK, LedgerInv, NEW r \in Restarters, RestartNext(r),
           NEW j \in rest'[r].todo \cup rest'[r].job
    PROVE  "failed" \in outcomes[j]
<1> USE DEF RestartAt
<1>0. rest \in [Restarters -> RestartState]
  BY DEF TypeOK
<1>1. CASE StartRestart(r)
  BY <1>0, <1>1 DEF StartRestart, RestartState, LedgerInv
<1>2. ASSUME NEW end, RestartAnswer(r, end)
      PROVE  FALSE
  BY <1>0, <1>2 DEF RestartAnswer, RestartFresh
<1>3. CASE RestartJobs(r)
  <2>1. CASE rest' = [rest EXCEPT ![r].pc = "next",
                                  ![r].todo = {i \in Jobs : jobs[i].status = "failed"}]
    <3>1. j \in rest[r].job \/ (j \in Jobs /\ jobs[j].status = "failed")
      BY <1>0, <2>1 DEF RestartState
    <3> QED
      BY <3>1 DEF LedgerInv, RowSaysIt, Outcome
  <2> QED
    BY <1>2, <1>3, <2>1 DEF RestartJobs
<1>4. CASE RestartPublish(r)
  <2>1. PICK i \in rest[r].todo, out \in PublishOutcome :
           rest' = [rest EXCEPT ![r].pc = IF out.ok THEN "mark" ELSE "next",
                                ![r].todo = @ \ {i},
                                ![r].job = IF out.ok THEN {i} ELSE {}]
    BY <1>4 DEF RestartPublish
  <2>2. j \in rest[r].todo
    BY <1>0, <2>1 DEF RestartState
  <2> QED
    BY <2>2 DEF LedgerInv
<1>5. CASE RestartMark(r)
  BY <1>0, <1>5 DEF RestartMark, RestartState, LedgerInv
<1>6. CASE RestartEndLoop(r)
  BY <1>0, <1>6 DEF RestartEndLoop, RestartState, LedgerInv
<1>7. CASE RestartLoad(r)
  <2>1. CASE rest' = [rest EXCEPT ![r].pc = "save",
                                  ![r].row = [batch EXCEPT !.status = "processing"]]
    BY <1>0, <2>1 DEF RestartState, LedgerInv
  <2> QED
    BY <1>2, <1>7, <2>1 DEF RestartLoad
<1>8. CASE RestartSave(r) \/ CrashRestart(r)
  BY <1>2, <1>8 DEF RestartSave, CrashRestart
<1> QED
  BY <1>1, <1>3, <1>4, <1>5, <1>6, <1>7, <1>8 DEF RestartNext, RestartStep

LEMMA LedgerStep ==
    ASSUME TypeOK, LoopInv, LedgerInv, [Next]_vars
    PROVE  LedgerInv'
<1>1. \A c \in Confirmers : conf'[c].pc \in {"idle", "check", "block"} =>
         reserved'[c] = 0 /\ \A t \in issued' : t[1] # c
  BY NothingYet
<1>2. \A j \in Jobs : RowSaysIt(j)'
  BY RowKeepsSaying DEF LedgerInv
<1>3. ASSUME NEW r \in Restarters, NEW j \in rest'[r].todo \cup rest'[r].job
      PROVE  "failed" \in outcomes'[j]
  <2>1. rest[r].todo \subseteq Jobs /\ rest[r].job \subseteq Jobs
    BY DEF TypeOK, RestartState
  <2>2. CASE RestartNext(r)
    <3>1. "failed" \in outcomes[j]
      BY <1>3, <2>2, RestartHolds
    <3>2. j \in Jobs
      BY <1>3, TypeStep DEF TypeOK, RestartState
    <3> QED
      BY <3>1, <3>2, OutcomeStays
  <2>3. CASE ~RestartNext(r)
    <3>1. rest'[r] = rest[r]
      BY <2>3, ConfirmFrame, CancelFrame, ConsumerFrame, RestartRow, ConfigFrame,
         GenerateFrame DEF Next, localVars
    <3> QED
      BY <1>3, <2>1, <3>1, OutcomeStays DEF LedgerInv
  <2> QED
    BY <2>2, <2>3
<1> QED
  BY <1>1, <1>2, <1>3 DEF LedgerInv

LEMMA LedgerStart == Init => LedgerInv
BY DEF Init, StoreInit, ConfirmInit, AdminInit, RestartFresh, Outcome, RowSaysIt, LedgerInv

LEMMA LedgerInvariance == Spec => [](Inv /\ LedgerInv)
<1>1. Inv /\ LedgerInv /\ [Next]_vars => LedgerInv'
  BY LedgerStep DEF Inv
<1> QED
  BY <1>1, LedgerStart, Invariance, PTL DEF Spec

---------------------------------------------------------------------------
(***************************************************************************)
(* The steps of the ledger                                                 *)
(***************************************************************************)
Booked == <<outcomes, JobsWithBuild>>

\* The ledger sees no other column of the job rows than the build.
LEMMA ColumnsUnseen ==
    ASSUME TypeOK, LoopInv, [Next]_vars, \A k \in Consumers : ~StoreResult(k)
    PROVE  Booked' = Booked
<1>1. jobs \in [Jobs -> JobRow]
  BY DEF TypeOK, StoreTypeOK
<1>2. outcomes' = outcomes /\ \A j \in Jobs : jobs'[j].build = jobs[j].build
  <2>1. ASSUME NEW i \in Jobs, NEW s, jobs' = [jobs EXCEPT ![i].status = s]
        PROVE  \A j \in Jobs : jobs'[j].build = jobs[j].build
    BY <1>1, <2>1 DEF JobRow
  <2>2. ASSUME NEW i \in Jobs, NEW tx, jobs' = [jobs EXCEPT ![i].tx = tx]
        PROVE  \A j \in Jobs : jobs'[j].build = jobs[j].build
    BY <1>1, <2>2 DEF JobRow
  <2> QED
    BY <2>1, <2>2, JobChange
<1>3. JobsWithBuild' = JobsWithBuild
  BY <1>2 DEF JobsWithBuild
<1> QED
  BY <1>2, <1>3 DEF Booked

\* BlockBatch: a payer blocks once, and the transactions are its own.
LEMMA BlockRefines ==
    ASSUME Inv, LedgerInv, NEW c \in Confirmers, BlockBatch(c)
    PROVE  Ledger!Block(c) \/ UNCHANGED <<reserved, issued, published, Booked, refunds>>
<1>1. UNCHANGED <<published, jobs, refunds, outcomes>>
  BY DEF BlockBatch
<1>2. Booked' = Booked
  BY <1>1 DEF Booked, JobsWithBuild
<1>3. reserved[c] = 0 /\ \A t \in issued : t[1] # c
  BY DEF BlockBatch, LedgerInv
<1>4. PICK out \in BillingCall, k \in TxCounts :
         /\ reserved' = IF out.done THEN [reserved EXCEPT ![c] = conf[c].count] ELSE reserved
         /\ issued' = IF out.done THEN issued \cup ({c} \X (1 .. k)) ELSE issued
  BY DEF BlockBatch
<1>5. CASE out.done
  <2>1. reserved \in [Confirmers -> Nat] /\ conf[c].count \in Nat
    BY DEF Inv, TypeOK, StoreTypeOK, ConfirmState
  <2>2. reserved'[c] \in Nat /\ reserved' = [reserved EXCEPT ![c] = reserved'[c]]
    BY <1>4, <1>5, <2>1
  <2>3. issued \subseteq issued' /\ \A t \in issued' \ issued : t[1] = c
    BY <1>4, <1>5
  <2>4. Ledger!Block(c)
    BY <1>1, <1>2, <1>3, <2>2, <2>3 DEF Ledger!Block, Booked
  <2> QED
    BY <2>4
<1>6. CASE ~out.done
  BY <1>1, <1>2, <1>4, <1>6
<1> QED
  BY <1>5, <1>6

\* The instance has the operator of FiniteSets under a name of its own.
LEMMA SameCardinality == ASSUME NEW S PROVE Ledger!Cardinality(S) = Cardinality(S)
BY DEF Ledger!Cardinality, Cardinality

\* PublishJob: the loop sends within what was blocked.
LEMMA SendRefines ==
    ASSUME Inv, NEW c \in Confirmers, PublishJob(c)
    PROVE  \/ \E j \in Jobs : Ledger!Send(c, j)
           \/ UNCHANGED <<reserved, issued, published, Booked, refunds>>
<1>1. UNCHANGED <<reserved, issued, jobs, refunds, outcomes>> /\ conf[c].pc = "publish"
  BY DEF PublishJob
<1>2. Booked' = Booked
  BY <1>1 DEF Booked, JobsWithBuild
<1>3. CurrentJob(c) \in Jobs
  BY <1>1, CurrentJobType DEF Inv, LoopInv
<1>4. \/ published' = published
      \/ published' = published \cup {<<c, CurrentJob(c)>>}
  BY DEF PublishJob, Publish
<1>5. Cardinality(PublishedBy(c) \cup {CurrentJob(c)}) <= reserved[c]
  <2>1. /\ Cardinality(PublishedBy(c)) < conf[c].pos
        /\ conf[c].count = reserved[c]
        /\ conf[c].pos <= LastPos(c)
    BY <1>1 DEF Inv, ReserveInv, WithinReserve, Sent, LoopInv
  <2>2. conf[c].pos \in Nat /\ conf[c].count \in Nat
    BY DEF Inv, TypeOK, ConfirmState
  <2>3. conf[c].pos <= conf[c].count
    BY <2>1, <2>2, NJobsAssumption DEF LastPos, Least
  <2>4. PublishedBy(c) \in SUBSET Jobs
    BY DEF PublishedBy
  <2>5. /\ IsFiniteSet(PublishedBy(c)) /\ Cardinality(PublishedBy(c)) \in Nat
        /\ Cardinality(PublishedBy(c) \cup {CurrentJob(c)}) \in Nat
    BY <1>3, <2>4, JobsFinite
  <2>6. \/ Cardinality(PublishedBy(c) \cup {CurrentJob(c)}) = Cardinality(PublishedBy(c))
        \/ Cardinality(PublishedBy(c) \cup {CurrentJob(c)}) = Cardinality(PublishedBy(c)) + 1
    BY <2>5, FS_AddElement
  <2> QED
    BY <2>1, <2>2, <2>3, <2>5, <2>6
<1>6. Ledger!SentBy(c) = PublishedBy(c)
  BY DEF Ledger!SentBy, PublishedBy
<1>7. CASE published' = published \cup {<<c, CurrentJob(c)>>}
  BY <1>1, <1>2, <1>3, <1>5, <1>6, <1>7, SameCardinality DEF Ledger!Send, Booked
<1> QED
  BY <1>1, <1>2, <1>4, <1>7

\* HandleAdminRestartBatch: what is sent again has failed before.
LEMMA RepeatRefines ==
    ASSUME Inv, LedgerInv, NEW r \in Restarters, RestartPublish(r)
    PROVE  \/ \E j \in Jobs : Ledger!Repeat(r, j)
           \/ UNCHANGED <<reserved, issued, published, Booked, refunds>>
<1>1. UNCHANGED <<reserved, issued, jobs, refunds, outcomes>>
  BY DEF RestartPublish
<1>2. Booked' = Booked
  BY <1>1 DEF Booked, JobsWithBuild
<1>3. PICK j \in rest[r].todo :
         published' = published \/ published' = published \cup {<<r, j>>}
  BY DEF RestartPublish, Publish
<1>4. j \in Jobs /\ "failed" \in outcomes[j]
  BY DEF Inv, TypeOK, RestartState, LedgerInv
<1>5. CASE published' = published \cup {<<r, j>>}
  BY <1>1, <1>2, <1>4, <1>5 DEF Ledger!Repeat, Booked
<1> QED
  BY <1>1, <1>2, <1>3, <1>5

\* buildResultHandler: a result is booked for a job that was sent.
LEMMA BookRefines ==
    ASSUME Inv, NEW k \in Consumers, StoreResult(k), ConsumerNext(k)
    PROVE  \/ \E j \in Jobs, result \in {"completed"} \cup {"failed"} : Ledger!Book(j, result)
           \/ UNCHANGED <<reserved, issued, published, Booked, refunds>>
<1>1. UNCHANGED <<reserved, issued, published, refunds>>
  BY DEF StoreResult
<1>2. PICK m \in cons[k].msg, out \in DbCall : UpdateStatusWithResult(out.done, m)
  BY DEF StoreResult
<1>3. m.job \in Jobs /\ m.status \in Outcome /\ <<m.from, m.job>> \in published
  BY DEF Inv, TypeOK, ConsumerState, ResultMessage, PublishInv
<1>4. CASE ~out.done
  BY <1>1, <1>2, <1>4 DEF UpdateStatusWithResult, Booked, JobsWithBuild
<1>5. CASE out.done
  <2>1. /\ jobs' = [jobs EXCEPT ![m.job] = ResultRow(m)]
        /\ outcomes' = [outcomes EXCEPT ![m.job] = @ \cup {m.status}]
    BY <1>2, <1>5 DEF UpdateStatusWithResult
  <2>2. jobs \in [Jobs -> JobRow]
    BY DEF Inv, TypeOK, StoreTypeOK
  <2>3. \A j \in Jobs : jobs'[j].build <=>
           IF j = m.job THEN m.status = "completed" ELSE jobs[j].build
    BY <2>1, <2>2, ResultRowSays
  <2>4. JobsWithBuild' = IF m.status \in {"completed"} THEN JobsWithBuild \cup {m.job}
                         ELSE JobsWithBuild \ {m.job}
    BY <1>3, <2>3 DEF JobsWithBuild
  <2>5. Ledger!Book(m.job, m.status)
    BY <1>1, <1>3, <2>1, <2>4 DEF Ledger!Book
  <2> QED
    BY <1>3, <2>5 DEF Outcome
<1> QED
  BY <1>4, <1>5

\* RefundTransactions, whoever calls it: what is given back was issued.
LEMMA ReturnRefines ==
    ASSUME NEW g \in Refunder, NEW txs \in SUBSET issued, NEW done,
           RefundTransactions(done, g, txs),
           UNCHANGED <<reserved, issued, published, jobs, outcomes>>
    PROVE  \/ \E h \in Refunder, s \in SUBSET issued : Ledger!Return(h, s)
           \/ UNCHANGED <<reserved, issued, published, Booked, refunds>>
<1>1. Booked' = Booked
  BY DEF Booked, JobsWithBuild
<1>2. CASE done
  <2>1. refunds' = refunds \cup ({g} \X txs)
    BY <1>2 DEF RefundTransactions
  <2>2. Ledger!Return(g, txs)
    BY <1>1, <2>1 DEF Ledger!Return, Booked
  <2> QED
    BY <2>2
<1>3. CASE ~done
  BY <1>1, <1>3 DEF RefundTransactions
<1> QED
  BY <1>2, <1>3

LEMMA RollbackRefines ==
    ASSUME Inv, NEW c \in Confirmers, RefundAssigned(c)
    PROVE  \/ \E h \in Refunder, s \in SUBSET issued : Ledger!Return(h, s)
           \/ UNCHANGED <<reserved, issued, published, Booked, refunds>>
<1>1. PICK out \in BillingCall : RefundTransactions(out.done, c, conf[c].assigned)
  BY DEF RefundAssigned
<1>2. conf[c].assigned \in SUBSET issued
  BY DEF Inv, TxInv
<1>3. UNCHANGED <<reserved, issued, published, jobs, outcomes>> /\ c \in Refunder
  BY DEF RefundAssigned, Refunder
<1> QED
  BY <1>1, <1>2, <1>3, ReturnRefines

LEMMA CancellationRefines ==
    ASSUME Inv, NEW x \in Cancellers, CancelRefund(x)
    PROVE  \/ \E h \in Refunder, s \in SUBSET issued : Ledger!Return(h, s)
           \/ UNCHANGED <<reserved, issued, published, Booked, refunds>>
<1>1. PICK out \in BillingCall : RefundTransactions(out.done, x, canc[x].row.txs)
  BY DEF CancelRefund
<1>2. canc[x].row.txs \in SUBSET issued
  BY DEF Inv, TxInv, SavedTx
<1>3. UNCHANGED <<reserved, issued, published, jobs, outcomes>> /\ x \in Refunder
  BY DEF CancelRefund, Refunder
<1> QED
  BY <1>1, <1>2, <1>3, ReturnRefines

---------------------------------------------------------------------------
LEMMA LedgerSteps ==
    ASSUME Inv, LedgerInv, [Next]_vars
    PROVE  Ledger!Next \/ UNCHANGED <<reserved, issued, published, Booked, refunds>>
<1> USE DEF Ledger!Next
<1>1. TypeOK /\ LoopInv
  BY DEF Inv
<1>2. ASSUME NEW c \in Confirmers, ConfirmNext(c)
      PROVE  Ledger!Next \/ UNCHANGED <<reserved, issued, published, Booked, refunds>>
  <2>1. CASE BlockBatch(c)
    BY <2>1, BlockRefines
  <2>2. CASE PublishJob(c)
    BY <2>2, SendRefines
  <2>3. CASE RefundAssigned(c)
    BY <2>3, RollbackRefines
  <2>4. CASE ~BlockBatch(c) /\ ~PublishJob(c) /\ ~RefundAssigned(c)
    <3>1. UNCHANGED <<reserved, issued, published, refunds>>
      BY <1>2, <2>4, ConfirmFrame
    <3>2. Booked' = Booked
      <4>1. CASE \E k \in Consumers : StoreResult(k)
        <5>1. UNCHANGED cons /\ \E k \in Consumers : cons[k].pc = "job" /\ cons'[k].pc = "jobs"
          BY <1>1, <1>2, <4>1, ConfirmFrame DEF StoreResult, TypeOK, ConsumerState
        <5> QED
          BY <5>1
      <4> QED
        BY <1>1, <4>1, ColumnsUnseen
    <3> QED
      BY <3>1, <3>2
  <2> QED
    BY <2>1, <2>2, <2>3, <2>4
<1>3. ASSUME NEW x \in Cancellers, CancelNext(x)
      PROVE  Ledger!Next \/ UNCHANGED <<reserved, issued, published, Booked, refunds>>
  <2>1. CASE CancelRefund(x)
    BY <2>1, CancellationRefines
  <2>2. CASE ~CancelRefund(x)
    <3>1. UNCHANGED <<reserved, issued, published, refunds, cons>>
      BY <1>3, <2>2, CancelFrame
    <3>2. \A k \in Consumers : ~StoreResult(k)
      BY <1>1, <3>1 DEF StoreResult, TypeOK, ConsumerState
    <3> QED
      BY <1>1, <3>1, <3>2, ColumnsUnseen
  <2> QED
    BY <2>1, <2>2
<1>4. ASSUME NEW k \in Consumers, ConsumerNext(k)
      PROVE  Ledger!Next \/ UNCHANGED <<reserved, issued, published, Booked, refunds>>
  <2>1. CASE StoreResult(k)
    BY <1>4, <2>1, BookRefines
  <2>2. CASE ~StoreResult(k)
    <3>1. UNCHANGED <<reserved, issued, published, refunds, jobs, outcomes>>
      BY <1>4, <2>2, ConsumerFrame DEF storeVars, ConsumerNext, ConsumerStep, StopConsumer,
         CrashConsumer, Poll, CountJobs, LoadBatch, SaveBatch
    <3> QED
      BY <3>1 DEF Booked, JobsWithBuild
  <2> QED
    BY <2>1, <2>2
<1>5. ASSUME NEW r \in Restarters, RestartNext(r)
      PROVE  Ledger!Next \/ UNCHANGED <<reserved, issued, published, Booked, refunds>>
  <2>1. CASE RestartPublish(r)
    BY <2>1, RepeatRefines
  <2>2. CASE ~RestartPublish(r)
    <3>1. UNCHANGED <<reserved, issued, published, refunds, cons>>
      BY <1>5, <2>2, RestartFrame
    <3>2. \A k \in Consumers : ~StoreResult(k)
      BY <1>1, <3>1 DEF StoreResult, TypeOK, ConsumerState
    <3> QED
      BY <1>1, <3>1, <3>2, ColumnsUnseen
  <2> QED
    BY <2>1, <2>2
<1>6. ASSUME (\E g \in Configurers : ConfigNext(g)) \/ GenerateNext \/ UNCHANGED vars
      PROVE  UNCHANGED <<reserved, issued, published, Booked, refunds>>
  <2>1. UNCHANGED <<reserved, issued, published, jobs, refunds, outcomes>>
    BY <1>6, ConfigFrame, GenerateFrame
  <2> QED
    BY <2>1 DEF Booked, JobsWithBuild
<1> QED
  BY <1>2, <1>3, <1>4, <1>5, <1>6 DEF Next

\* HandleConfirm, HandleCancel, the result consumers and the admin restart,
\* interleaved in any way and crashing at any point, keep the ledger: units are
\* blocked once per confirmation, no job is sent without a unit or an earlier
\* failure, a result is stored for sent jobs only, a build leaves a row only when a
\* failed result is stored for its job, and only what billing holds is given back.
THEOREM KeepsLedger == Spec => LedgerSpec
<1>1. Init => Ledger!Init
  BY DEF Init, StoreInit, JobsWithBuild, Ledger!Init
<1>2. Inv /\ LedgerInv /\ [Next]_vars => [Ledger!Next]_(Ledger!ledgerVars)
  BY LedgerSteps DEF Booked, Ledger!ledgerVars
<1> QED
  BY <1>1, <1>2, LedgerInvariance, PTL DEF Spec, LedgerSpec, Ledger!Spec
=============================================================================
