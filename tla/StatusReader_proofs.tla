------------------------- MODULE StatusReader_proofs -------------------------
(***************************************************************************)
(* Proofs about the answers of HandleBatchStatus and HandleAdminGetBatch.  *)
(* Whoever reads changes nothing, so all that is proved of BatchSystem     *)
(* holds while they read; what an answer puts together fits because only a *)
(* failed outcome takes a build back and no counter is ahead of the jobs.  *)
(***************************************************************************)
EXTENDS StatusReader, BatchProgress_proofs

StatType == stat \in [Readers -> ReaderState]

\* What a request has read so far was true of the store at some time.
ReadInv ==
    \A q \in Readers :
        /\ stat[q].pc = "idle" => stat[q].listed = {} /\ stat[q].done = 0
        /\ stat[q].pc = "results" => \A j \in stat[q].listed : "completed" \in outcomes[j]
        /\ stat[q].pc = "answered" => stat[q].listed \subseteq stat[q].shown \cup EverFailed

\* The progress that a request has read is that of the row at some earlier time.
DoneInv ==
    ~WithBlockFunc /\ OneConfirmation =>
        \A q \in Readers : stat[q].done <= Cardinality(Earned)

ReadsSucceed == ~DbErrors

LEMMA ReadAnswers ==
    ASSUME ReadsSucceed, NEW ok \in ReadOk
    PROVE  ok = TRUE
<1>1. \A out \in DbCall : out.ok = TRUE
  BY DEF DbCall, CallOutcome, ReadsSucceed
<1> QED
  BY <1>1 DEF ReadOk

\* Reading is no step of BatchSystem.
LEMMA WatchedLedger ==
    WatchedSpec => [](Inv /\ LedgerInv /\ Progressing) /\ [][Next]_vars
<1>1. WatchedInit => Init
  BY DEF WatchedInit
<1>2. [WatchedNext]_<<vars, stat>> => [Next]_vars
  BY DEF WatchedNext
<1>3. WatchedSpec => Spec
  BY <1>1, <1>2, PTL DEF WatchedSpec, Spec
<1> QED
  BY <1>3, ProgressInvariance, PTL DEF Spec

LEMMA StatTypeStep ==
    ASSUME TypeOK, StatType, [WatchedNext]_<<vars, stat>>
    PROVE  StatType'
<1>1. batch.done \in Nat
  BY DEF TypeOK, StoreTypeOK, BatchRow
<1>2. JobsIn({"completed"}) \in SUBSET Jobs /\ JobsWithBuild \in SUBSET Jobs
  BY DEF JobsIn, JobsWithBuild
<1>3. ASSUME NEW q \in Readers, ReadRow(q)
      PROVE  StatType'
  BY <1>1, <1>3 DEF ReadRow, StatType, ReaderState
<1>4. ASSUME NEW q \in Readers, ReadJobs(q)
      PROVE  StatType'
  <2>1. PICK l \in SUBSET Jobs : stat' = [stat EXCEPT ![q].pc = "results", ![q].listed = l]
    BY <1>2, <1>4 DEF ReadJobs
  <2>2. [stat[q] EXCEPT !.pc = "results", !.listed = l] \in ReaderState
    BY DEF StatType, ReaderState
  <2> QED
    BY <2>1, <2>2 DEF StatType
<1>5. ASSUME NEW q \in Readers, ReadResults(q)
      PROVE  StatType'
  <2>1. PICK s \in SUBSET Jobs : stat' = [stat EXCEPT ![q].pc = "answered", ![q].shown = s]
    BY <1>2, <1>5 DEF ReadResults
  <2>2. [stat[q] EXCEPT !.pc = "answered", !.shown = s] \in ReaderState
    BY DEF StatType, ReaderState
  <2> QED
    BY <2>1, <2>2 DEF StatType
<1>6. CASE UNCHANGED stat
  BY <1>6 DEF StatType
<1> QED
  BY <1>3, <1>4, <1>5, <1>6 DEF WatchedNext, ReaderStep

\* A job with an outcome has its build, or failed at some time, or both.
LEMMA BuildOrFailure ==
    ASSUME TypeOK, LedgerInv, NEW j \in Jobs
    PROVE  /\ "completed" \in outcomes[j] => j \in JobsWithBuild \cup EverFailed
           /\ outcomes[j] # {} => j \in JobsWithBuild \cup EverFailed
<1>1. outcomes[j] \subseteq {"completed", "failed"}
  BY DEF TypeOK, StoreTypeOK, Outcome
<1>2. RowSaysIt(j)
  BY DEF LedgerInv
<1>3. "completed" \in outcomes[j] => j \in JobsWithBuild \cup EverFailed
  BY <1>2 DEF RowSaysIt, JobsWithBuild, EverFailed
<1>4. "failed" \in outcomes[j] => j \in EverFailed
  BY DEF EverFailed
<1> QED
  BY <1>1, <1>3, <1>4

LEMMA ReadStep ==
    ASSUME ReadsSucceed, Inv, LedgerInv, StatType, ReadInv, [WatchedNext]_<<vars, stat>>
    PROVE  ReadInv'
<1>1. TypeOK /\ LoopInv
  BY DEF Inv
<1>2. CASE UNCHANGED stat /\ [Next]_vars
  <2>1. ASSUME NEW q \in Readers, NEW j \in stat[q].listed, "completed" \in outcomes[j]
        PROVE  "completed" \in outcomes'[j]
    BY <1>1, <1>2, <2>1, OutcomeStays DEF StatType, ReaderState
  <2>2. EverFailed \subseteq EverFailed'
    BY <1>1, <1>2, OutcomeStays DEF EverFailed
  <2> QED
    BY <1>2, <2>1, <2>2 DEF ReadInv
<1>3. ASSUME NEW q \in Readers, ReadRow(q), UNCHANGED vars
      PROVE  ReadInv'
  BY <1>3 DEF ReadRow, ReadInv, EverFailed, StatType, ReaderState, vars, storeVars
<1>4. ASSUME NEW q \in Readers, ReadJobs(q), UNCHANGED vars
      PROVE  ReadInv'
  <2>1. /\ stat[q].pc = "idle"
        /\ stat' = [stat EXCEPT ![q].pc = "results", ![q].listed = JobsIn({"completed"})]
    BY <1>4, ReadAnswers DEF ReadJobs
  <2>2. \A j \in JobsIn({"completed"}) : "completed" \in outcomes[j]
    BY DEF JobsIn, LedgerInv, RowSaysIt, Outcome
  <2>3. /\ stat'[q].pc = "results" /\ stat'[q].listed = JobsIn({"completed"})
        /\ \A p \in Readers : p # q => stat'[p] = stat[p]
    BY <2>1 DEF StatType, ReaderState
  <2> QED
    BY <1>4, <2>2, <2>3 DEF ReadInv, EverFailed, vars, storeVars
<1>5. ASSUME NEW q \in Readers, ReadResults(q), UNCHANGED vars
      PROVE  ReadInv'
  <2>1. /\ stat[q].pc = "results"
        /\ stat' = [stat EXCEPT ![q].pc = "answered", ![q].shown = JobsWithBuild]
    BY <1>5, ReadAnswers DEF ReadResults
  <2>2. stat[q].listed \subseteq JobsWithBuild \cup EverFailed
    BY <1>1, <2>1, BuildOrFailure DEF ReadInv, StatType, ReaderState
  <2>3. /\ stat'[q].pc = "answered" /\ stat'[q].shown = JobsWithBuild
        /\ stat'[q].listed = stat[q].listed
        /\ \A p \in Readers : p # q => stat'[p] = stat[p]
    BY <2>1 DEF StatType, ReaderState
  <2> QED
    BY <1>5, <2>2, <2>3 DEF ReadInv, EverFailed, vars, storeVars
<1> QED
  BY <1>2, <1>3, <1>4, <1>5 DEF WatchedNext, ReaderStep

LEMMA DoneStep ==
    ASSUME Inv, LedgerInv, Progressing, StatType, DoneInv, [WatchedNext]_<<vars, stat>>
    PROVE  DoneInv'
<1> SUFFICES ASSUME ~WithBlockFunc, OneConfirmation, NEW q \in Readers
             PROVE  stat'[q].done <= Cardinality(Earned')
  BY DEF DoneInv, OneConfirmation
<1>1. ProgressInv
  BY DEF Progressing
<1>2. Earned \subseteq Jobs /\ Earned' \subseteq Jobs
  BY DEF Earned
<1>3. Cardinality(Earned) \in Nat /\ Cardinality(Earned') \in Nat
  BY <1>2, JobsFinite
<1>4. stat[q].done \in Nat /\ stat[q].done <= Cardinality(Earned)
  BY DEF DoneInv, StatType, ReaderState
<1>5. CASE UNCHANGED stat /\ [Next]_vars
  <2>1. Earned \subseteq Earned'
    BY <1>1, <1>5, EarnedStays
  <2>2. Cardinality(Earned) <= Cardinality(Earned')
    BY <1>2, <2>1, JobsFinite, FS_Subset
  <2> QED
    BY <1>3, <1>4, <1>5, <2>2
<1>6. ASSUME NEW p \in Readers, ReaderStep(p), UNCHANGED vars
      PROVE  stat'[q].done <= Cardinality(Earned')
  <2>1. Earned' = Earned
    BY <1>6 DEF Earned, vars, storeVars
  <2>2. stat'[q].done \in {stat[q].done, batch.done}
    <3>1. CASE ReadRow(p)
      BY <3>1 DEF ReadRow, StatType, ReaderState
    <3>2. CASE ReadJobs(p)
      <4>1. \E l : stat' = [stat EXCEPT ![p].pc = "results", ![p].listed = l]
        BY <3>2 DEF ReadJobs
      <4> QED
        BY <4>1 DEF StatType, ReaderState
    <3>3. CASE ReadResults(p)
      <4>1. \E l : stat' = [stat EXCEPT ![p].pc = "answered", ![p].shown = l]
        BY <3>3 DEF ReadResults
      <4> QED
        BY <4>1 DEF StatType, ReaderState
    <3> QED
      BY <1>6, <3>1, <3>2, <3>3 DEF ReaderStep
  <2>3. batch.done <= Cardinality(Earned)
    BY <1>1 DEF ProgressInv
  <2> QED
    BY <1>4, <2>1, <2>2, <2>3
<1> QED
  BY <1>5, <1>6 DEF WatchedNext

LEMMA ReaderStart == WatchedInit => StatType /\ ReadInv /\ DoneInv
<1> SUFFICES ASSUME WatchedInit PROVE StatType /\ ReadInv /\ DoneInv
  OBVIOUS
<1>1. Earned \subseteq Jobs
  BY DEF Earned
<1>2. 0 <= Cardinality(Earned)
  BY <1>1, JobsFinite
<1> QED
  BY <1>2 DEF WatchedInit, ReaderInit, ReaderFresh, StatType, ReaderState, ReadInv, DoneInv

LEMMA WatchedInvariance ==
    WatchedSpec => [](Inv /\ LedgerInv /\ Progressing /\ StatType /\ DoneInv)
<1>1. Inv /\ LedgerInv /\ Progressing /\ StatType /\ DoneInv
         /\ [WatchedNext]_<<vars, stat>> => StatType' /\ DoneInv'
  BY StatTypeStep, DoneStep DEF Inv
<1> QED
  BY <1>1, WatchedLedger, ReaderStart, PTL DEF WatchedSpec

\* HandleAdminGetBatch lists no job as completed without the build that it reads
\* one query later, if its queries succeed: of all that may happen between the two
\* queries, only a failed result of the same job takes the build away.
THEOREM ListedBuilds ==
    ASSUME ReadsSucceed
    PROVE  WatchedSpec => []ListedHasBuild
<1>1. Inv /\ LedgerInv /\ StatType /\ ReadInv
         /\ [WatchedNext]_<<vars, stat>> => ReadInv'
  BY ReadStep
<1>2. ReadInv => ListedHasBuild
  BY DEF ReadInv, ListedHasBuild
<1> QED
  BY <1>1, <1>2, WatchedInvariance, ReaderStart, PTL DEF WatchedSpec

\* HandleBatchStatus never claims more completed jobs than its answer has builds
\* for, but for those that failed or were refunded by then, if its queries succeed:
\* with the wired handler and one confirmation the counter that it read is behind
\* what Generation's results and the refunds amount to by the second query.
THEOREM AnswersBacked ==
    ASSUME ReadsSucceed, ~WithBlockFunc, OneConfirmation
    PROVE  WatchedSpec => AnswerIsBacked
<1>1. ASSUME Inv, LedgerInv, StatType, DoneInv, [WatchedNext]_<<vars, stat>>,
             NEW q \in Readers, stat[q].pc # "answered", stat'[q].pc = "answered"
      PROVE  stat'[q].done <= Cardinality(stat'[q].shown \cup EverFailed
                                            \cup JobsIn({"refunded"}))
  <2>1. PICK p \in Readers : ReaderStep(p)
    BY <1>1 DEF WatchedNext
  <2>2. ReadResults(q)
    <3>1. ~ReadRow(p)
      BY <1>1 DEF ReadRow, StatType, ReaderState
    <3>2. ~ReadJobs(p)
      <4> SUFFICES ASSUME ReadJobs(p) PROVE FALSE
        OBVIOUS
      <4>1. \E l : stat' = [stat EXCEPT ![p].pc = "results", ![p].listed = l]
        BY DEF ReadJobs
      <4> QED
        BY <1>1, <4>1 DEF StatType, ReaderState
    <3>3. ReadResults(p)
      BY <2>1, <3>1, <3>2 DEF ReaderStep
    <3>4. p = q
      <4>1. \E s : stat' = [stat EXCEPT ![p].pc = "answered", ![p].shown = s]
        BY <3>3 DEF ReadResults
      <4> QED
        BY <1>1, <4>1 DEF StatType, ReaderState
    <3> QED
      BY <3>3, <3>4
  <2>3. stat' = [stat EXCEPT ![q].pc = "answered", ![q].shown = JobsWithBuild]
    BY <2>2, ReadAnswers DEF ReadResults
  <2>4. stat'[q].done = stat[q].done /\ stat'[q].shown = JobsWithBuild
    BY <1>1, <2>3 DEF StatType, ReaderState
  <2> DEFINE Backed == JobsWithBuild \cup EverFailed \cup JobsIn({"refunded"})
  <2>5. Earned \subseteq Backed /\ Backed \subseteq Jobs
    <3>1. Backed \subseteq Jobs
      BY DEF JobsWithBuild, EverFailed, JobsIn
    <3>2. ASSUME NEW j \in Earned PROVE j \in Backed
      <4>1. j \in Jobs /\ (outcomes[j] # {} \/ jobs[j].status = "refunded")
        BY DEF Earned
      <4>2. outcomes[j] # {} => j \in JobsWithBuild \cup EverFailed
        BY <1>1, <4>1, BuildOrFailure DEF Inv
      <4>3. jobs[j].status = "refunded" => j \in JobsIn({"refunded"})
        BY <4>1 DEF JobsIn
      <4> QED
        BY <4>1, <4>2, <4>3
    <3> QED
      BY <3>1, <3>2
  <2>6. /\ Cardinality(Earned) \in Nat /\ Cardinality(Backed) \in Nat
        /\ Cardinality(Earned) <= Cardinality(Backed)
    <3>1. Earned \subseteq Jobs /\ IsFiniteSet(Backed)
      BY <2>5, JobsFinite
    <3> QED
      BY <2>5, <3>1, JobsFinite, FS_Subset
  <2>7. stat[q].done \in Nat /\ stat[q].done <= Cardinality(Earned)
    BY <1>1 DEF DoneInv, StatType, ReaderState
  <2> HIDE DEF Backed
  <2>8. stat'[q].done <= Cardinality(Backed)
    BY <2>4, <2>6, <2>7
  <2> QED
    BY <2>4, <2>8 DEF Backed
<1>2. Inv /\ LedgerInv /\ StatType /\ DoneInv /\ [WatchedNext]_<<vars, stat>> =>
         [\A q \in Readers :
            stat[q].pc # "answered" /\ stat'[q].pc = "answered" =>
              stat'[q].done <= Cardinality(stat'[q].shown \cup EverFailed
                                             \cup JobsIn({"refunded"}))]_<<vars, stat>>
  BY <1>1
<1> QED
  BY <1>2, WatchedInvariance, PTL DEF WatchedSpec, AnswerIsBacked
=============================================================================
