----------------------------- MODULE BatchSystem -----------------------------
(***************************************************************************)
(* One batch after its upload, in the hands of everything that may touch   *)
(* it at once: confirmations, cancellations, admin requests and the result *)
(* consumers of all pods, over the shared store.                           *)
(***************************************************************************)
EXTENDS ConfirmBatch, CancelBatch, JobResults, AdminBatch

localVars == <<conf, canc, cons, rest, cong>>
vars == <<storeVars, localVars>>

TypeOK ==
    /\ StoreTypeOK
    /\ conf \in [Confirmers -> ConfirmState]
    /\ canc \in [Cancellers -> CancelState]
    /\ cons \in [Consumers -> ConsumerState]
    /\ rest \in [Restarters -> RestartState]
    /\ cong \in [Configurers -> ConfigState]

Init ==
    /\ StoreInit
    /\ ConfirmInit
    /\ CancelInit
    /\ ConsumerInit
    /\ AdminInit

ConfirmNext(c) ==
    /\ StartConfirm(c) \/ ConfirmStep(c) \/ CrashConfirm(c)
    /\ UNCHANGED <<canc, cons, rest, cong>>

CancelNext(x) ==
    /\ StartCancel(x) \/ CancelStep(x) \/ CrashCancel(x)
    /\ UNCHANGED <<conf, cons, rest, cong>>

ConsumerNext(k) ==
    /\ ConsumerStep(k) \/ StopConsumer(k) \/ CrashConsumer(k)
    /\ UNCHANGED <<conf, canc, rest, cong>>

RestartNext(r) ==
    /\ StartRestart(r) \/ RestartStep(r) \/ CrashRestart(r)
    /\ UNCHANGED <<conf, canc, cons>>

ConfigNext(g) ==
    /\ StartConfig(g) \/ ConfigStep(g) \/ CrashConfig(g)
    /\ UNCHANGED <<conf, canc, cons>>

GenerateNext == Generate /\ UNCHANGED localVars

Next ==
    \/ \E c \in Confirmers : ConfirmNext(c)
    \/ \E x \in Cancellers : CancelNext(x)
    \/ \E k \in Consumers : ConsumerNext(k)
    \/ \E r \in Restarters : RestartNext(r)
    \/ \E g \in Configurers : ConfigNext(g)
    \/ GenerateNext

Spec == Init /\ [][Next]_vars

(***************************************************************************)
(* A request that was accepted goes on to its next call, Generation works  *)
(* off its topic and a running consumer polls; nobody has to send a        *)
(* request, and nothing has to crash.                                      *)
(***************************************************************************)
Fairness ==
    /\ \A c \in Confirmers : WF_vars(ConfirmStep(c) /\ UNCHANGED <<canc, cons, rest, cong>>)
    /\ \A x \in Cancellers : WF_vars(CancelStep(x) /\ UNCHANGED <<conf, cons, rest, cong>>)
    /\ \A k \in Consumers : WF_vars(ConsumerStep(k) /\ UNCHANGED <<conf, canc, rest, cong>>)
    /\ \A r \in Restarters : WF_vars(RestartStep(r) /\ UNCHANGED <<conf, canc, cons>>)
    /\ \A g \in Configurers : WF_vars(ConfigStep(g) /\ UNCHANGED <<conf, canc, cons>>)
    /\ WF_vars(GenerateNext)

FairSpec == Spec /\ Fairness

---------------------------------------------------------------------------
(***************************************************************************)
(* Safety                                                                  *)
(***************************************************************************)
PublishedBy(p) == {j \in Jobs : <<p, j>> \in published}

\* A job is queued, completed or failed only after its message went out, in
\* spite of failed publishes, retries, restarts and late results: ConfirmBatch
\* and HandleAdminRestartBatch publish first and update the row second.
QueuedAfterPublish ==
    \A j \in Jobs : jobs[j].status \in {"queued"} \cup Outcome =>
        \E p \in Publisher : j \in PublishedBy(p)

\* A confirmation never sends more jobs to Generation than it has blocked
\* units for at billing, whatever order the job query returned.
PublishedWithinReserve ==
    \A c \in Confirmers : Cardinality(PublishedBy(c)) <= reserved[c]

\* A batch row that says completed has all its rows accounted for and a
\* completion time.  Every writer puts back a whole row that it read earlier,
\* so a mixture of two writers' columns never appears.
RowConsistent(b) ==
    /\ b.failed <= b.done
    /\ b.done <= NJobs
    /\ b.status = "completed" => b.done = NJobs /\ b.finished

BatchRowConsistent == RowConsistent(batch)

\* A positive allowance bounds every single reservation, as long as the read
\* that checks it succeeds.
ReserveWithinApproved ==
    ~DbErrors /\ batch.approved > 0 =>
        \A c \in Confirmers : reserved[c] <= batch.approved

\* Jobs with a result from Generation, at whatever time it was stored, and jobs
\* that are refunded.
Earned == {j \in Jobs : outcomes[j] # {} \/ jobs[j].status = "refunded"}

OneConfirmation == \A c, d \in Confirmers : c = d

\* The progress shown to clients never counts a job for which Generation's
\* result was not stored at any time before, and which is not refunded, although
\* the counters are computed from an old query and written back by stale copies.
\* (The job's row may say queued again by now: a late UpdateStatus or a restart
\* overwrites a failed status, its only trace.  A second confirmation may queue a
\* refunded job again, hence the premise.)
ProgressIsEarned ==
    ~WithBlockFunc /\ OneConfirmation => batch.done <= Cardinality(Earned)

\* Only transactions that billing issued for this batch are ever refunded,
\* however late the rollback or the cancellation runs.
RefundsWereIssued == \A r \in refunds : r[2] \in issued

\* A job row marked refunded names no transaction that billing still holds.
RefundedJobIsRefunded ==
    \A j \in Jobs : jobs[j].status = "refunded" =>
        \A t \in jobs[j].tx : \E p \in Refunder : <<p, t>> \in refunds

\* Once a confirmation has been answered, the transactions that billing issued
\* for it are on the batch row or were taken back (ports.go asks for this so
\* that a cancellation can refund them).
ReservedIsSaved ==
    \A t \in issued : conf[t[1]].pc = "done" =>
        t \in batch.txs \/ \E p \in Refunder : <<p, t>> \in refunds

\* Once a result was stored for a job, and as long as nobody restarts the batch,
\* the row has the status of a stored result or is refunded
\* (UpdateStatusWithResult writes status and result in one statement).
ResultMatchesStatus ==
    \A j \in Jobs : Restarters = {} /\ outcomes[j] # {} =>
        jobs[j].status \in outcomes[j] \cup {"refunded"}

\* generate_valid sends only rows that passed validation.
ValidOnlyPublished ==
    \A c \in Confirmers : conf[c].action = "generate_valid" =>
        PublishedBy(c) \cap InvalidRows = {}

\* A job that this confirmation queued is not marked refunded by its rollback
\* ("mark unqueued jobs as refunded").
RollbackSparesQueued ==
    [][\A c \in Confirmers, j \in Jobs :
          /\ conf[c].pc = "unqueued"
          /\ jobs[j].status = "queued"
          /\ jobs'[j].status = "refunded"
          => j \notin PublishedBy(c)]_vars

\* A confirmation goes on to billing only if it asks for no more than the
\* approved count that FinalizeAfterUpload stored for a partially available
\* batch ("disallow confirming more than approved").
ConfirmsWithinAllowance ==
    [][\A c \in Confirmers :
          /\ conf[c].pc = "check"
          /\ conf'[c].pc = "block"
          /\ batch.status = "partial_available"
          => conf[c].count <= batch.approved]_vars

(***************************************************************************)
(* Liveness                                                                *)
(***************************************************************************)
AllSettled == \A j \in Jobs : jobs[j].status \notin ActiveStatus

\* When every job has settled for good, so does the batch.
SettledBatchCompletes ==
    <>[]AllSettled => <>[](batch.status \in {"completed", "cancelled"})

\* Every job that went out gets a result of Generation stored on its row.
PublishedGetsOutcome ==
    \A j \in Jobs :
        (\E p \in Publisher : j \in PublishedBy(p)) ~> (outcomes[j] # {})

\* Every accepted confirmation is answered.
ConfirmAnswered ==
    \A c \in Confirmers :
        (conf[c].pc = "check") ~> (conf[c].pc \in {"done", "rejected", "crashed"})
=============================================================================
