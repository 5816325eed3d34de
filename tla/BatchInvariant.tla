--------------------------- MODULE BatchInvariant ---------------------------
(***************************************************************************)
(* The inductive invariant of BatchSystem.  The safety properties speak of *)
(* the store alone; what keeps them true is what every request and every   *)
(* consumer remembers between two of its calls, stated here.               *)
(***************************************************************************)
EXTENDS BatchSystem

\* Inside the loop the position is that of a requested job.
LoopInv ==
    \A c \in Confirmers :
        conf[c].pc \in {"publish", "mark"} => conf[c].pos <= LastPos(c)

\* Every message, and every status update still to come, is about a job that
\* was published.
PublishInv ==
    /\ \A m \in jobTopic \cup resultTopic : <<m.from, m.job>> \in published
    /\ \A k \in Consumers : \A m \in cons[k].msg : <<m.from, m.job>> \in published
    /\ \A c \in Confirmers : conf[c].pc = "mark" => <<c, CurrentJob(c)>> \in published
    /\ \A r \in Restarters : \A j \in rest[r].job : <<r, j>> \in published
    /\ QueuedAfterPublish

\* The row, and every copy of it that may be written back, is consistent, and
\* so are the counts from which the next row is made.
RowInv ==
    /\ RowConsistent(batch)
    /\ \A c \in Confirmers : RowConsistent(conf[c].row)
    /\ \A x \in Cancellers : RowConsistent(canc[x].row)
    /\ \A k \in Consumers : /\ RowConsistent(cons[k].row)
                            /\ cons[k].failed <= cons[k].done
                            /\ cons[k].done <= NJobs
    /\ \A r \in Restarters : RowConsistent(rest[r].row)
    /\ \A g \in Configurers : RowConsistent(cong[g].row)

\* The transactions that a row, or a copy of it, may name.
SavedTx == IF WithBlockFunc THEN issued ELSE {}

\* Billing issued whatever a request or a row remembers.
TxInv ==
    /\ batch.txs \subseteq SavedTx
    /\ \A c \in Confirmers :
          /\ conf[c].row.txs \subseteq SavedTx
          /\ {c} \X (1 .. conf[c].ids) \subseteq issued
          /\ conf[c].assigned \subseteq issued \cap ({c} \X Nat)
          /\ conf[c].pc \in {"loadTx", "saveTx"} => WithBlockFunc
    /\ \A x \in Cancellers : canc[x].row.txs \subseteq SavedTx
    /\ \A k \in Consumers : cons[k].row.txs \subseteq SavedTx
    /\ \A r \in Restarters : rest[r].row.txs \subseteq SavedTx
    /\ \A g \in Configurers : cong[g].row.txs \subseteq SavedTx
    /\ RefundsWereIssued

\* Each turn of the loop publishes at most one job, and there are no more turns
\* than units blocked.
Sent(c) == Cardinality(PublishedBy(c))

WithinReserve(c) ==
    /\ conf[c].pc \in {"idle", "check", "block"} => conf[c].pos = 1
    /\ conf[c].pc \in {"loadTx", "saveTx", "jobs", "next", "publish", "mark"} =>
          conf[c].count = reserved[c]
    /\ conf[c].pc \in {"idle", "check", "block", "loadTx", "saveTx", "jobs", "next",
                       "publish"} => Sent(c) < conf[c].pos
    /\ conf[c].pc = "mark" => Sent(c) <= conf[c].pos
    /\ Sent(c) <= reserved[c]

ReserveInv == \A c \in Confirmers : WithinReserve(c)

Inv == TypeOK /\ LoopInv /\ PublishInv /\ RowInv /\ TxInv /\ ReserveInv

---------------------------------------------------------------------------
(***************************************************************************)
(* What further theorems need beyond Inv, each for itself: every copy of   *)
(* the row that may still be written back is bound to the store as it is   *)
(* now, although it was read from the store as it was.                     *)
(***************************************************************************)
Ended == {"done", "rejected", "crashed"}

\* What the row of a job says of its past: a status that is an outcome was stored,
\* and the build is that of a completed result which no failed one has replaced.
RowSaysIt(j) ==
    /\ jobs[j].status \in Outcome => jobs[j].status \in outcomes[j]
    /\ jobs[j].status = "completed" => jobs[j].build
    /\ "completed" \in outcomes[j] => jobs[j].build \/ "failed" \in outcomes[j]

\* For BatchLedger: who has not called billing has nothing there, and a restart
\* holds only jobs that failed.
LedgerInv ==
    /\ \A c \in Confirmers : conf[c].pc \in {"idle", "check", "block"} =>
          reserved[c] = 0 /\ \A t \in issued : t[1] # c
    /\ \A j \in Jobs : RowSaysIt(j)
    /\ \A r \in Restarters : \A j \in rest[r].todo \cup rest[r].job : "failed" \in outcomes[j]

\* For ReserveWithinApproved: a row that is about to be written back has the
\* approved count of the row that it replaces.
ApprovedInv ==
    /\ \A c \in Confirmers :
          conf[c].pc \in {"saveTx", "saveRow"} => conf[c].row.approved = batch.approved
    /\ \A x \in Cancellers : canc[x].pc \in {"save", "refund", "jobs", "mark", "clear"} =>
          canc[x].row.approved = batch.approved
    /\ \A k \in Consumers : cons[k].pc = "save" => cons[k].row.approved = batch.approved
    /\ \A r \in Restarters : rest[r].pc = "save" => rest[r].row.approved = batch.approved
    /\ \A g \in Configurers : cong[g].pc = "save" => cong[g].row.approved = batch.approved
    /\ ~DbErrors /\ batch.approved > 0 => \A c \in Confirmers :
          /\ conf[c].pc = "block" => conf[c].count <= batch.approved
          /\ reserved[c] <= batch.approved

\* For ProgressIsEarned: no copy of the row, and no count, is ahead of the jobs.
\* A cancellation has nothing to refund, and the confirmation that refunds jobs
\* queues none any more, so a job that was earned once stays earned.
ProgressInv ==
    /\ batch.done <= Cardinality(Earned)
    /\ \A c \in Confirmers : conf[c].row.done <= Cardinality(Earned)
    /\ \A x \in Cancellers : canc[x].row.done <= Cardinality(Earned)
    /\ \A k \in Consumers : /\ cons[k].row.done <= Cardinality(Earned)
                            /\ cons[k].done <= Cardinality(Earned)
    /\ \A r \in Restarters : rest[r].row.done <= Cardinality(Earned)
    /\ \A g \in Configurers : cong[g].row.done <= Cardinality(Earned)
    /\ \A x \in Cancellers : canc[x].pc \in {"refund", "jobs", "mark", "clear"} =>
          canc[x].row.txs # {}
    /\ \A j \in Jobs : jobs[j].status = "refunded" =>
          \A c \in Confirmers : conf[c].pc \in {"unqueued"} \cup Ended

\* For RefundedJobIsRefunded, of one confirmation whose calls to billing succeed:
\* a row names all transactions or none, a job or a message only those that the
\* confirmation remembers, and whoever marks jobs as refunded has taken them back.
RefundedBy(p) == issued # {} /\ {p} \X issued \subseteq refunds

AllOrNone(txs) == txs \in {{}, issued}

RememberInv(c) ==
    /\ conf[c].pc \notin Ended =>
          /\ \A j \in Jobs : jobs[j].tx \subseteq conf[c].assigned
          /\ \A m \in jobTopic \cup resultTopic : ValidTx(m.tx) \subseteq conf[c].assigned
          /\ \A k \in Consumers : \A m \in cons[k].msg : ValidTx(m.tx) \subseteq conf[c].assigned
    /\ conf[c].pc = "publish" => ValidTx(AssignTx(c, conf[c].pos)) \subseteq conf[c].assigned
    /\ conf[c].pc \in {"loadTx", "saveTx"} => issued = {c} \X (1 .. conf[c].ids)
    /\ conf[c].pc \in {"loadRow", "saveRow", "unqueued"} =>
          {c} \X conf[c].assigned \subseteq refunds

RefundInv ==
    /\ \A c \in Confirmers : RememberInv(c)
    /\ \A j \in Jobs : jobs[j].tx \subseteq issued
    /\ \A m \in jobTopic \cup resultTopic : m.tx \subseteq issued
    /\ \A k \in Consumers : \A m \in cons[k].msg : m.tx \subseteq issued
    /\ AllOrNone(batch.txs)
    /\ \A c \in Confirmers : AllOrNone(conf[c].row.txs)
    /\ \A x \in Cancellers :
          /\ AllOrNone(canc[x].row.txs)
          /\ canc[x].pc \in {"refund", "jobs", "mark", "clear"} => canc[x].row.txs # {}
          /\ canc[x].pc \in {"jobs", "mark", "clear"} => RefundedBy(x)
    /\ \A k \in Consumers : AllOrNone(cons[k].row.txs)
    /\ \A r \in Restarters : AllOrNone(rest[r].row.txs)
    /\ \A g \in Configurers : AllOrNone(cong[g].row.txs)
    /\ RefundedJobIsRefunded
    /\ \A j \in Jobs : jobs[j].status = "refunded" =>
          \/ \E x \in Cancellers : RefundedBy(x)
          \/ \A c \in Confirmers : conf[c].pc \in {"unqueued"} \cup Ended

---------------------------------------------------------------------------
(***************************************************************************)
(* What the liveness properties rest on, and what no fairness can make up  *)
(* for if it fails.                                                        *)
(***************************************************************************)
\* For PublishedGetsOutcome: without errors of the database and without crashes
\* no message is lost before its outcome is stored.
OnItsWay(j) ==
    \/ \E m \in jobTopic \cup resultTopic : m.job = j
    \/ \E k \in Consumers : cons[k].pc = "job" /\ \E m \in cons[k].msg : m.job = j

PublishedOnItsWay == \A s \in published : outcomes[s[2]] # {} \/ OnItsWay(s[2])

WayInv ==
    /\ PublishedOnItsWay
    /\ \A k \in Consumers : \A m, n \in cons[k].msg : m = n

\* For SettledBatchCompletes: the one consumer that stores the last outcome sees
\* all jobs settled until it has saved the batch.
OneConsumer == \E k \in Consumers : Consumers = {k}

AtRest(k) == cons[k].pc \in {"poll", "stopped"}

SettledIsCompleted ==
    AllSettled /\ (\A k \in Consumers : AtRest(k)) =>
        batch.status \in {"completed", "cancelled"}

SettledInv ==
    /\ AllSettled => \A k \in Consumers :
          /\ AtRest(k) => batch.status \in {"completed", "cancelled"}
          /\ cons[k].pc = "row" => cons[k].done = NJobs
          /\ cons[k].pc = "save" => cons[k].row.status = "completed"
    /\ \A c \in Confirmers :
          ~conf[c].perr /\ conf[c].pc \notin {"refund", "loadRow", "saveRow", "unqueued"}
    /\ \A x \in Cancellers :
          /\ canc[x].pc \notin {"refund", "jobs", "mark", "clear"}
          /\ canc[x].pc = "save" => canc[x].row.status = "cancelled"

\* For ConfirmAnswered: how many turns of its loop, and how many calls in all, a
\* confirmation has before it at most.
Left(c) == IF conf[c].pos <= LastPos(c) THEN LastPos(c) + 1 - conf[c].pos ELSE 0

ConfirmRank(c) ==
    LET pc == conf[c].pc
    IN  CASE pc = "idle"     -> 4 * NJobs + 11
          [] pc = "check"    -> 4 * NJobs + 10
          [] pc = "block"    -> 4 * NJobs + 9
          [] pc = "loadTx"   -> 4 * NJobs + 8
          [] pc = "saveTx"   -> 4 * NJobs + 7
          [] pc = "jobs"     -> 4 * NJobs + 6
          [] pc = "next"     -> NJobs + 5 + 3 * Left(c)
          [] pc = "publish"  -> NJobs + 4 + 3 * Left(c)
          [] pc = "mark"     -> NJobs + 3 + 3 * Left(c)
          [] pc = "refund"   -> NJobs + 4
          [] pc = "loadRow"  -> NJobs + 3
          [] pc = "saveRow"  -> NJobs + 2
          [] pc = "unqueued" -> 1 + Left(c)
          [] OTHER           -> 0

\* Every step of a confirmation brings it closer to its answer, in whatever order
\* calls fail and succeed: no retry and no turn of a loop takes it back.
ConfirmCloser ==
    [][\A c \in Confirmers : conf'[c] # conf[c] => ConfirmRank(c)' < ConfirmRank(c)]_vars

\* A confirmation has at most 4 * NJobs + 11 steps before it, and none only once it
\* was answered or its pod died.
ConfirmBounded ==
    \A c \in Confirmers :
        /\ ConfirmRank(c) \in 0 .. (4 * NJobs + 11)
        /\ ConfirmRank(c) = 0 <=> conf[c].pc \in {"done", "rejected", "crashed"}
=============================================================================
