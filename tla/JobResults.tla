----------------------------- MODULE JobResults -----------------------------
(***************************************************************************)
(* The way back: Generation turns a bulk.job message into a bulk.result    *)
(* message, and the result consumer of some pod (ResultConsumer.Start with *)
(* the handler of buildResultHandler) stores the outcome and lets          *)
(* BatchManager.OnJobStatusChange recompute the batch.                     *)
(***************************************************************************)
EXTENDS BulkStore

CONSTANTS
    Outcomes,    \* outcomes that Generation reports
    TxReported,  \* whether it reports the transaction back (may vary)
    ReaderErrors \* TRUE if ReadMessage may fail

ASSUME ResultsAssumption ==
    /\ Outcomes \subseteq Outcome
    /\ TxReported \subseteq BOOLEAN
    /\ ReaderErrors \in BOOLEAN

VARIABLE cons \* the local variables of each consumer

ConsumerPc == {"poll", "job", "jobs", "row", "save", "stopped"}

\* msg is the message being handled, a set with at most one element.
ConsumerState ==
    [pc: ConsumerPc, msg: SUBSET ResultMessage, done: Nat, failed: Nat,
     row: BatchRow]

ConsumerIdle == [pc |-> "poll", msg |-> {}, done |-> 0, failed |-> 0, row |-> NoRow]

ConsumerInit == cons = [k \in Consumers |-> ConsumerIdle]

\* Generation (another service) handles each message it is sent, copies too,
\* and may or may not report the transaction back.
Generate ==
    \E m \in jobTopic, s \in Outcomes, back \in TxReported :
        /\ jobTopic' = jobTopic \ {m}
        /\ resultTopic' = resultTopic \cup
              {[job |-> m.job, tx |-> IF back THEN m.tx ELSE {},
                from |-> m.from, copy |-> m.copy, status |-> s]}
        /\ UNCHANGED <<batch, jobs, reserved, issued, published, refunds, outcomes>>

\* Operators named Broken... are deliberate bugs.  No specification uses them:
\* each replaces the definition it is named for to see a property fail.

\* ReadMessage commits the offset before the handler runs.  Messages have no
\* key, so they come back in any order.
Poll(k) ==
    /\ cons[k].pc = "poll"
    /\ \E m \in resultTopic :
          /\ resultTopic' = resultTopic \ {m}
          /\ cons' = [cons EXCEPT ![k].pc = "job", ![k].msg = {m}]
    /\ UNCHANGED <<batch, jobs, jobTopic, reserved, issued, published, refunds, outcomes>>

\* Start returns on the first read error and its goroutine is not restarted.
StopConsumer(k) ==
    /\ ReaderErrors
    /\ cons[k].pc = "poll"
    /\ cons' = [cons EXCEPT ![k].pc = "stopped"]
    /\ UNCHANGED storeVars

\* A result is stored only for a job whose row already says queued.
BrokenStoreResult(k) ==
    /\ cons[k].pc = "job"
    /\ \E m \in cons[k].msg :
          UpdateStatusWithResult(jobs[m.job].status = "queued", m)
    /\ cons' = [cons EXCEPT ![k].pc = "jobs"]
    /\ UNCHANGED <<batch, jobTopic, resultTopic, reserved, issued, published, refunds>>

\* The handler drops the error of the update and carries on.
StoreResult(k) ==
    /\ cons[k].pc = "job"
    /\ \E m \in cons[k].msg, out \in DbCall : UpdateStatusWithResult(out.done, m)
    /\ cons' = [cons EXCEPT ![k].pc = "jobs"]
    /\ UNCHANGED <<batch, jobTopic, resultTopic, reserved, issued, published, refunds>>

JobsIn(statuses) == {j \in Jobs : jobs[j].status \in statuses}
JobsWithBuild == {j \in Jobs : jobs[j].build}

\* Failed jobs are not counted as completed.
BrokenCountJobs(k) ==
    /\ cons[k].pc = "jobs"
    /\ cons' = [cons EXCEPT
                  ![k].pc = "row",
                  ![k].done = Cardinality(JobsIn({"completed", "refunded"})),
                  ![k].failed = Cardinality(JobsIn({"failed"}))]
    /\ UNCHANGED storeVars

\* Jobs that are merely queued are counted as completed.
EagerCountJobs(k) ==
    /\ cons[k].pc = "jobs"
    /\ cons' = [cons EXCEPT
                  ![k].pc = "row",
                  ![k].done = Cardinality(JobsIn(JobStatus \ {"pending"})),
                  ![k].failed = Cardinality(JobsIn({"failed"}))]
    /\ UNCHANGED storeVars

\* OnJobStatusChange: refunded jobs count as completed, failed ones as both.
CountJobs(k) ==
    /\ cons[k].pc = "jobs"
    /\ \E ok \in ReadOk :
          cons' = IF ok
                  THEN [cons EXCEPT
                          ![k].pc = "row",
                          ![k].done = Cardinality(JobsIn(JobStatus \ ActiveStatus)),
                          ![k].failed = Cardinality(JobsIn({"failed"}))]
                  ELSE [cons EXCEPT ![k] = ConsumerIdle]
    /\ UNCHANGED storeVars

\* A batch with a failed job gets the job's status.
BrokenRecount(b, done, failed) ==
    [b EXCEPT !.done = done, !.failed = failed,
              !.status = IF failed > 0 THEN "failed" ELSE "processing"]

\* The batch row is read after the jobs.
Recount(b, done, failed) ==
    [b EXCEPT !.done = done, !.failed = failed,
              !.status = IF done = NJobs THEN "completed" ELSE "processing",
              !.finished = IF done = NJobs THEN TRUE ELSE @]

LoadBatch(k) ==
    /\ cons[k].pc = "row"
    /\ \E ok \in ReadOk :
          cons' = IF ok
                  THEN [cons EXCEPT
                          ![k].pc = "save",
                          ![k].row = Recount(batch, cons[k].done, cons[k].failed)]
                  ELSE [cons EXCEPT ![k] = ConsumerIdle]
    /\ UNCHANGED storeVars

SaveBatch(k) ==
    /\ cons[k].pc = "save"
    /\ \E out \in DbCall : UpdateBatch(out.done, cons[k].row)
    /\ cons' = [cons EXCEPT ![k] = ConsumerIdle]
    /\ UNCHANGED <<jobs, jobTopic, resultTopic, reserved, issued, published, refunds, outcomes>>

\* The pod dies with the message committed; its successor polls the next one.
CrashConsumer(k) ==
    /\ Crashes
    /\ cons[k].pc \notin {"poll", "stopped"}
    /\ cons' = [cons EXCEPT ![k] = ConsumerIdle]
    /\ UNCHANGED storeVars

ConsumerStep(k) ==
    \/ Poll(k)
    \/ StoreResult(k)
    \/ CountJobs(k)
    \/ LoadBatch(k)
    \/ SaveBatch(k)
=============================================================================
