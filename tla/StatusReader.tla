---------------------------- MODULE StatusReader ----------------------------
(***************************************************************************)
(* The clients who look at the batch while all of BatchSystem works on it: *)
(* HandleBatchStatus (batch row, then results) and HandleAdminGetBatch     *)
(* (batch row, then jobs, then results).  Each query sees another state,   *)
(* so what they put into one answer need not fit together by itself.       *)
(***************************************************************************)
EXTENDS BatchRefinement

CONSTANTS
    Clients, \* requests that may be GET /batch/:id
    Admins   \* requests that may be GET /admin/batches/:id

Readers == Clients \cup Admins

VARIABLE stat \* the local variables of each request

\* done is progress.completed of the status answer, listed the jobs that the
\* administrator sees as completed.  Both answers have an entry for every job,
\* whatever became of it (GetResultsByBatch has no condition, and as no row has an
\* error all entries of the status answer are under results.successful): shown
\* are the jobs whose entry has a build.
ReaderState ==
    [pc: {"idle", "results", "answered"}, done: Nat,
     listed: SUBSET Jobs, shown: SUBSET Jobs]

ReaderFresh == [pc |-> "idle", done |-> 0, listed |-> {}, shown |-> {}]

ReaderInit == stat = [q \in Readers |-> ReaderFresh]

\* HandleBatchStatus reads the row first.
ReadRow(q) ==
    /\ q \in Clients
    /\ stat[q].pc = "idle"
    /\ stat' = [stat EXCEPT ![q].pc = "results", ![q].done = batch.done]

\* HandleAdminGetBatch: of the row only the existence matters here, so the jobs
\* come first; a query that fails leaves their list empty.
ReadJobs(q) ==
    /\ q \in Admins
    /\ stat[q].pc = "idle"
    /\ \E ok \in ReadOk :
          stat' = [stat EXCEPT ![q].pc = "results",
                               ![q].listed = IF ok THEN JobsIn({"completed"}) ELSE {}]

\* Both handlers read the results last, and do without them on an error.
ReadResults(q) ==
    /\ stat[q].pc = "results"
    /\ \E ok \in ReadOk :
          stat' = [stat EXCEPT ![q].pc = "answered",
                               ![q].shown = IF ok THEN JobsWithBuild ELSE {}]

\* A deliberate bug, used by no specification: both handlers read the results
\* first and the rest later.
BrokenReaderStep(q) ==
    \/ /\ stat[q].pc = "idle"
       /\ stat' = [stat EXCEPT ![q].pc = "results", ![q].shown = JobsWithBuild]
    \/ /\ stat[q].pc = "results"
       /\ \/ q \in Clients /\ stat' = [stat EXCEPT ![q].pc = "answered", ![q].done = batch.done]
          \/ q \in Admins /\ stat' = [stat EXCEPT ![q].pc = "answered", ![q].listed = JobsIn({"completed"})]

ReaderStep(q) == ReadRow(q) \/ ReadJobs(q) \/ ReadResults(q)

WatchedInit == Init /\ ReaderInit

WatchedNext ==
    \/ Next /\ UNCHANGED stat
    \/ \E q \in Readers : ReaderStep(q) /\ UNCHANGED vars

WatchedSpec == WatchedInit /\ [][WatchedNext]_<<vars, stat>>

---------------------------------------------------------------------------
\* Jobs for which a failed result was stored at some time.
EverFailed == {j \in Jobs : "failed" \in outcomes[j]}

\* A client is never told that more jobs are completed than the same answer has
\* builds for, but for jobs that failed or were refunded by then: the row,
\* recomputed by consumers from old queries, is read before the builds, and a build
\* is taken back by nothing but a failed result.
AnswerIsBacked ==
    [][\A q \in Readers :
          stat[q].pc # "answered" /\ stat'[q].pc = "answered" =>
              stat'[q].done <= Cardinality(stat'[q].shown \cup EverFailed
                                             \cup JobsIn({"refunded"}))]_<<vars, stat>>

\* A job that the administrator sees as completed has its build in the same
\* answer, unless a failed result was stored for it, too (a job that was sent
\* twice comes back twice): the jobs are read before the builds.
ListedHasBuild ==
    \A q \in Readers : stat[q].pc = "answered" =>
        stat[q].listed \subseteq stat[q].shown \cup EverFailed
=============================================================================
