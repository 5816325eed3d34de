---------------------------- MODULE Upload_proofs ----------------------------
(***************************************************************************)
(* Proofs about uploads: the types of the rows and of the requests, and    *)
(* what the row of a finalized batch, the allowance stored in it, the      *)
(* answer to the client and the jobs have to do with the file, whichever   *)
(* calls fail and whenever another client cancels the batch; and that an   *)
(* upload comes to an end.                                                 *)
(***************************************************************************)
EXTENDS Upload, FiniteSetTheorems, TLAPS

---------------------------------------------------------------------------
(***************************************************************************)
(* The inductive invariant                                                 *)
(***************************************************************************)

\* The stages of a request: it has created the batch, it has seen to all rows
\* and to the file, it has written the outcome.
Ended    == {"answer"} \cup UploadAnswer
Told     == {"validation_errors", "ready", "partial_available", "billing_error"}
Counted  == {"update", "load", "quote", "save", "answer"} \cup Told
Created  == {"rows", "store"} \cup Counted

\* What passed and what has a job are rows that the request has been through.
CountInv(u) ==
    /\ upl[u].next \in 1 .. upl[u].total + 1
    /\ upl[u].passed \subseteq 1 .. upl[u].next - 1
    /\ jobs[u] \subseteq 1 .. upl[u].next - 1
    /\ ~DbErrors => jobs[u] = 1 .. upl[u].next - 1
    /\ upl[u].pc \in {"idle", "parse"} => upl[u].next = 1

\* What a request has done when it has come this far.
StageInv(u) ==
    /\ jobs[u] # {} \/ upl[u].pc \in Created => batches[u] # {}
    /\ upl[u].pc \in {"store"} \cup Counted => upl[u].next = upl[u].total + 1
    /\ upl[u].pc \in Counted /\ HasStorage => u \in stored
    /\ upl[u].pc \in {"quote", "save"} => \A b \in upl[u].row : b.valid = Valid(u)
    /\ \A a, c \in upl[u].quote : a = c

\* The row of a batch is pending or cancelled, or FinalizeAfterUpload has written
\* what the counts and the quote of the request say.
FinalInv(u) ==
    \A b \in batches[u] : b.status \notin {"pending", "cancelled"} =>
        /\ upl[u].pc \in Ended
        /\ b.valid = Valid(u)
        /\ b.status = "validation_errors" <=> Invalid(u) > 0
        /\ b.status = "partial_available" => b.approved < b.valid /\ b.approved \in upl[u].quote
        /\ b.status = "ready" => ~Short(upl[u].quote, Valid(u))

\* The answer follows from the counts and the second quote.
AnswerInv(u) ==
    /\ upl[u].pc = "validation_errors" => Invalid(u) > 0
    /\ upl[u].pc \in {"ready", "partial_available"} =>
          /\ Invalid(u) = 0
          /\ upl[u].pc = "partial_available" <=> Short(upl[u].answered, Valid(u))

CancelInv(u) == \A b \in canc[u] : b.status = "cancelled"

RequestInv(u) == CountInv(u) /\ StageInv(u) /\ FinalInv(u) /\ AnswerInv(u) /\ CancelInv(u)

UploadInv == TypeOK /\ \A u \in Uploads : RequestInv(u)

---------------------------------------------------------------------------
(***************************************************************************)
(* Counts, and steps that leave other uploads alone                        *)
(***************************************************************************)

LEMMA ValidCount ==
    ASSUME TypeOK, NEW u \in Uploads, CountInv(u)
    PROVE  /\ Valid(u) \in Nat /\ Invalid(u) \in Nat
           /\ upl[u].total \in Nat /\ upl[u].next \in Nat
<1>1. upl[u].total \in Nat /\ upl[u].next \in Nat /\ upl[u].next >= 1 /\ upl[u].next - 1 <= upl[u].total
  BY DEF TypeOK, UploadState, CountInv
<1>2. IsFiniteSet(1 .. upl[u].next - 1) /\ Cardinality(1 .. upl[u].next - 1) = upl[u].next - 1
  <2>1. \A n \in Nat : IsFiniteSet(1 .. n) /\ Cardinality(1 .. n) = n
    BY FS_Interval
  <2>2. upl[u].next - 1 \in Nat
    BY <1>1
  <2> QED
    BY <2>1, <2>2
<1>3. /\ IsFiniteSet(upl[u].passed) /\ Cardinality(upl[u].passed) \in Nat
      /\ Cardinality(upl[u].passed) <= upl[u].next - 1
  BY <1>2, FS_Subset, FS_CardinalityType DEF CountInv
<1> QED
  BY <1>1, <1>3 DEF Valid, Invalid

\* The invariant of an upload speaks of nothing but its own row, jobs and locals.
Untouched(u) ==
    /\ upl'[u] = upl[u] /\ batches'[u] = batches[u] /\ jobs'[u] = jobs[u] /\ canc'[u] = canc[u]
    /\ u \in stored => u \in stored'

LEMMA UntouchedKept ==
    ASSUME NEW u \in Uploads, Untouched(u), RequestInv(u)
    PROVE  RequestInv(u)'
<1>1. Valid(u)' = Valid(u) /\ Invalid(u)' = Invalid(u)
  BY DEF Untouched, Valid, Invalid
<1>2. CountInv(u)' /\ StageInv(u)'
  BY <1>1 DEF Untouched, RequestInv, CountInv, StageInv
<1>3. FinalInv(u)'
  BY <1>1 DEF Untouched, RequestInv, FinalInv
<1>4. AnswerInv(u)' /\ CancelInv(u)'
  BY <1>1 DEF Untouched, RequestInv, AnswerInv, CancelInv
<1> QED
  BY <1>2, <1>3, <1>4 DEF RequestInv

\* The record of a request.
LEMMA RecordType ==
    ASSUME UploadInv, NEW u \in Uploads
    PROVE  upl[u] \in UploadState
BY DEF UploadInv, TypeOK

\* A step that does nothing but move a request on.
LEMMA GotoStep ==
    ASSUME UploadInv, NEW u \in Uploads, NEW pc \in UploadPc, UploadGoto(u, pc),
           UNCHANGED <<batches, jobs, stored, canc>>,
           pc \in {"idle", "parse"} => upl[u].pc \in {"idle", "parse"},
           pc \in Created => upl[u].pc \in Created,
           pc \in {"store"} \cup Counted => upl[u].next = upl[u].total + 1,
           pc \in Counted /\ HasStorage => u \in stored,
           upl[u].pc \in Ended => pc \in Ended,
           pc = "validation_errors" => Invalid(u) > 0,
           pc \notin {"quote", "save", "ready", "partial_available"}
    PROVE  UploadInv'
<1>1. /\ upl'[u] \in UploadState /\ upl'[u] = [upl[u] EXCEPT !.pc = pc]
      /\ upl' \in [Uploads -> UploadState]
      /\ \A v \in Uploads \ {u} : upl'[v] = upl[v]
  <2>1. [upl[u] EXCEPT !.pc = pc] \in UploadState
    BY RecordType DEF UploadState
  <2>2. upl \in [Uploads -> UploadState]
    BY DEF UploadInv, TypeOK
  <2>3. upl' = [upl EXCEPT ![u] = [upl[u] EXCEPT !.pc = pc]]
    BY DEF UploadGoto
  <2> QED
    BY <2>1, <2>2, <2>3
<1>2. /\ upl'[u].pc = pc /\ upl'[u].total = upl[u].total /\ upl'[u].next = upl[u].next
      /\ upl'[u].passed = upl[u].passed /\ upl'[u].row = upl[u].row
      /\ upl'[u].quote = upl[u].quote /\ upl'[u].answered = upl[u].answered
  BY <1>1 DEF UploadInv, TypeOK, UploadState
<1>3. Valid(u)' = Valid(u) /\ Invalid(u)' = Invalid(u)
  BY <1>2 DEF Valid, Invalid
<1>4. RequestInv(u)
  BY DEF UploadInv
<1>5. TypeOK'
  BY <1>1 DEF UploadInv, TypeOK
<1>6. CountInv(u)' /\ StageInv(u)'
  BY <1>2, <1>3, <1>4 DEF RequestInv, CountInv, StageInv
<1>7. FinalInv(u)'
  BY <1>2, <1>3, <1>4 DEF RequestInv, FinalInv
<1>8. AnswerInv(u)' /\ CancelInv(u)'
  BY <1>2, <1>3, <1>4 DEF RequestInv, AnswerInv, CancelInv
<1>9. \A v \in Uploads \ {u} : RequestInv(v)'
  BY <1>1, UntouchedKept DEF UploadInv, Untouched
<1> QED
  BY <1>5, <1>6, <1>7, <1>8, <1>9 DEF UploadInv, RequestInv

LEMMA OthersKept ==
    ASSUME UploadInv, NEW u \in Uploads, \A v \in Uploads \ {u} : Untouched(v),
           TypeOK', RequestInv(u)'
    PROVE  UploadInv'
BY UntouchedKept DEF UploadInv

\* While a request has not come to its end its row is pending or cancelled.
LEMMA NotFinal ==
    ASSUME UploadInv, NEW u \in Uploads, upl[u].pc \notin Ended
    PROVE  \A b \in batches[u] : b.status \in {"pending", "cancelled"}
BY DEF UploadInv, RequestInv, FinalInv

\* A call that reports success was carried out, and so is every call if none fails.
LEMMA CallOutcomes ==
    \A mayFail \in BOOLEAN : \A out \in CallOutcome(mayFail) :
        /\ out.ok \in BOOLEAN
        /\ out.done \in BOOLEAN
        /\ out.ok => out.done
        /\ ~mayFail => out.done
<1> SUFFICES ASSUME NEW mayFail \in BOOLEAN, NEW out \in CallOutcome(mayFail)
             PROVE  /\ out.ok \in BOOLEAN
                    /\ out.done \in BOOLEAN
                    /\ out.ok => out.done
                    /\ ~mayFail => out.done
  OBVIOUS
<1>1. CASE out = [ok |-> TRUE, done |-> TRUE]
  BY <1>1
<1>2. CASE mayFail /\ \E d \in BOOLEAN : out = [ok |-> FALSE, done |-> d]
  BY <1>2
<1> QED
  BY <1>1, <1>2 DEF CallOutcome

LEMMA Switches ==
    /\ HasStorage \in BOOLEAN /\ DbErrors \in BOOLEAN /\ StorageErrors \in BOOLEAN
    /\ BillingErrors \in BOOLEAN /\ Crashes \in BOOLEAN
BY UploadSwitches

---------------------------------------------------------------------------
(***************************************************************************)
(* The steps of a request                                                  *)
(***************************************************************************)

LEMMA ParseStep ==
    ASSUME UploadInv, NEW u \in Uploads, Parse(u)
    PROVE  UploadInv'
<1>1. CASE UploadGoto(u, "refused")
  BY <1>1, GotoStep DEF Parse, UploadPc, UploadAnswer, Created, Counted, Told, Ended
<1>2. CASE \E n \in Totals : upl' = [upl EXCEPT ![u].pc = "create", ![u].total = n]
  <2>1. PICK n \in Totals : upl' = [upl EXCEPT ![u].pc = "create", ![u].total = n]
    BY <1>2
  <2>2. [upl[u] EXCEPT !.pc = "create", !.total = n] \in UploadState
    BY RecordType, UploadCounts DEF UploadState, UploadPc
  <2>3. /\ upl' \in [Uploads -> UploadState]
        /\ \A v \in Uploads \ {u} : upl'[v] = upl[v]
        /\ upl'[u] = [upl[u] EXCEPT !.pc = "create", !.total = n]
    BY <2>1, <2>2 DEF UploadInv, TypeOK
  <2>4. /\ upl'[u].pc = "create" /\ upl'[u].total = n /\ upl'[u].next = upl[u].next
        /\ upl'[u].passed = upl[u].passed /\ upl'[u].quote = upl[u].quote
    BY <2>3 DEF UploadInv, TypeOK, UploadState
  <2>5. /\ UNCHANGED <<batches, jobs, stored, canc>> /\ upl[u].pc = "parse"
        /\ n \in Nat /\ RequestInv(u)
    BY <1>2, UploadCounts DEF Parse, UploadInv
  <2>6. TypeOK'
    BY <2>3, <2>5 DEF UploadInv, TypeOK
  <2>7. CountInv(u)'
    BY <2>4, <2>5 DEF RequestInv, CountInv
  <2>8. StageInv(u)' /\ AnswerInv(u)' /\ CancelInv(u)'
    BY <2>4, <2>5 DEF RequestInv, StageInv, AnswerInv, CancelInv, Created, Counted, Told
  <2>9. FinalInv(u)'
    BY <2>5, NotFinal DEF FinalInv, Ended, UploadAnswer
  <2> QED
    BY <2>3, <2>5, <2>6, <2>7, <2>8, <2>9, OthersKept DEF Untouched, RequestInv
<1> QED
  BY <1>1, <1>2 DEF Parse

LEMMA CreateStep ==
    ASSUME UploadInv, NEW u \in Uploads, Create(u)
    PROVE  UploadInv'
<1>1. PICK out \in CallOutcome(DbErrors) :
         /\ batches' = IF out.done THEN [batches EXCEPT ![u] = {NewBatch(u)}] ELSE batches
         /\ UploadGoto(u, IF out.ok THEN "rows" ELSE "refused")
  BY DEF Create
<1>2. out.ok => out.done
  BY CallOutcomes, Switches
<1>3. /\ UNCHANGED <<jobs, stored, canc>> /\ upl[u].pc = "create" /\ RequestInv(u)
  BY DEF Create, UploadInv
<1>4. PICK pc \in {"rows", "refused"} : UploadGoto(u, pc) /\ (pc = "rows" => out.done)
  BY <1>1, <1>2
<1>5. [upl[u] EXCEPT !.pc = pc] \in UploadState
  BY RecordType DEF UploadState, UploadPc, UploadAnswer
<1>6. /\ upl' \in [Uploads -> UploadState]
      /\ \A v \in Uploads \ {u} : upl'[v] = upl[v]
      /\ upl'[u] = [upl[u] EXCEPT !.pc = pc]
  BY <1>4, <1>5 DEF UploadGoto, UploadInv, TypeOK
<1>7. /\ upl'[u].pc = pc /\ upl'[u].total = upl[u].total /\ upl'[u].next = upl[u].next
      /\ upl'[u].passed = upl[u].passed /\ upl'[u].quote = upl[u].quote
  BY <1>6 DEF UploadInv, TypeOK, UploadState
<1>8. NewBatch(u) \in BatchRow /\ NewBatch(u).status = "pending"
  BY DEF NewBatch, BatchRow, Status, UploadInv, TypeOK, UploadState
<1>9. /\ batches' \in [Uploads -> SUBSET BatchRow]
      /\ \A v \in Uploads \ {u} : batches'[v] = batches[v]
      /\ batches'[u] = IF out.done THEN {NewBatch(u)} ELSE batches[u]
  BY <1>1, <1>8 DEF UploadInv, TypeOK
<1>10. TypeOK'
  BY <1>3, <1>6, <1>9 DEF UploadInv, TypeOK
<1>11. CountInv(u)' /\ AnswerInv(u)' /\ CancelInv(u)'
  BY <1>3, <1>7 DEF RequestInv, CountInv, AnswerInv, CancelInv
<1>12. StageInv(u)'
  BY <1>3, <1>4, <1>7, <1>9 DEF RequestInv, StageInv, Created, Counted, Told
<1>13. FinalInv(u)'
  BY <1>3, <1>8, <1>9, NotFinal DEF FinalInv, Ended, UploadAnswer
<1> QED
  BY <1>3, <1>6, <1>9, <1>10, <1>11, <1>12, <1>13, OthersKept DEF Untouched, RequestInv

LEMMA ValidateRowStep ==
    ASSUME UploadInv, NEW u \in Uploads, ValidateRow(u)
    PROVE  UploadInv'
<1> DEFINE n == upl[u].next
<1>1. PICK out \in CallOutcome(DbErrors), more \in SUBSET {upl[u].next} :
         /\ jobs' = IF out.done THEN [jobs EXCEPT ![u] = @ \cup {upl[u].next}] ELSE jobs
         /\ upl' = [upl EXCEPT ![u].next = @ + 1, ![u].passed = @ \cup more]
  <2>1. PICK local \in LocalVerdict, bff \in BffVerdict, out \in CallOutcome(DbErrors) :
          /\ jobs' = IF out.done THEN [jobs EXCEPT ![u] = @ \cup {upl[u].next}] ELSE jobs
          /\ upl' = [upl EXCEPT ![u].next = @ + 1,
                                ![u].passed = IF Passes(local, bff)
                                              THEN @ \cup {upl[u].next} ELSE @]
    BY DEF ValidateRow
  <2>2. CASE Passes(local, bff)
    BY <2>1, <2>2
  <2>3. CASE ~Passes(local, bff)
    <3>1. upl[u].passed = upl[u].passed \cup {}
      OBVIOUS
    <3> QED
      BY <2>1, <2>3, <3>1
  <2> QED
    BY <2>2, <2>3
<1>2. out.done \/ DbErrors
  BY CallOutcomes, Switches
<1>3. /\ UNCHANGED <<batches, stored, canc>> /\ upl[u].pc = "rows" /\ RequestInv(u)
      /\ n \in Nat /\ n >= 1 /\ upl[u].total \in Nat /\ n <= upl[u].total
  BY DEF ValidateRow, UploadInv, TypeOK, UploadState, RequestInv, CountInv
<1>4. [upl[u] EXCEPT !.next = @ + 1, !.passed = @ \cup more] \in UploadState
  <2>1. n + 1 \in Nat /\ more \subseteq Nat
    BY <1>3
  <2>2. upl[u] \in UploadState /\ upl[u].passed \cup more \in SUBSET Nat
    BY <2>1 DEF UploadInv, TypeOK, UploadState
  <2> QED
    BY <2>1, <2>2 DEF UploadState
<1>5. /\ upl' \in [Uploads -> UploadState]
      /\ \A v \in Uploads \ {u} : upl'[v] = upl[v]
      /\ upl'[u] = [upl[u] EXCEPT !.next = @ + 1, !.passed = @ \cup more]
  BY <1>1, <1>4 DEF UploadInv, TypeOK
<1>6. /\ upl'[u].pc = "rows" /\ upl'[u].total = upl[u].total /\ upl'[u].next = n + 1
      /\ upl'[u].passed = upl[u].passed \cup more /\ upl'[u].quote = upl[u].quote
  BY <1>3, <1>5 DEF UploadInv, TypeOK, UploadState
<1>7. /\ jobs' \in [Uploads -> SUBSET Nat]
      /\ \A v \in Uploads \ {u} : jobs'[v] = jobs[v]
      /\ jobs'[u] = IF out.done THEN jobs[u] \cup {n} ELSE jobs[u]
  BY <1>1, <1>3 DEF UploadInv, TypeOK
<1>8. TypeOK'
  BY <1>3, <1>5, <1>7 DEF UploadInv, TypeOK
<1>9. CountInv(u)'
  <2>1. (n + 1) - 1 = n /\ 1 .. n = (1 .. n - 1) \cup {n}
    BY <1>3
  <2>2. upl[u].passed \subseteq 1 .. n - 1 /\ jobs[u] \subseteq 1 .. n - 1
        /\ (~DbErrors => jobs[u] = 1 .. n - 1)
    BY <1>3 DEF RequestInv, CountInv
  <2>3. upl'[u].passed \subseteq 1 .. n /\ jobs'[u] \subseteq 1 .. n
        /\ (~DbErrors => jobs'[u] = 1 .. n)
    BY <1>1, <1>2, <1>6, <1>7, <2>1, <2>2
  <2>4. n + 1 \in 1 .. upl[u].total + 1
    BY <1>3
  <2> HIDE DEF n
  <2> QED
    BY <1>6, <2>1, <2>3, <2>4 DEF CountInv
<1>10. StageInv(u)' /\ AnswerInv(u)' /\ CancelInv(u)'
  BY <1>3, <1>6 DEF RequestInv, StageInv, AnswerInv, CancelInv, Created, Counted, Told
<1>11. FinalInv(u)'
  BY <1>3, NotFinal DEF FinalInv, Ended, UploadAnswer
<1> QED
  BY <1>3, <1>5, <1>7, <1>8, <1>9, <1>10, <1>11, OthersKept DEF Untouched, RequestInv

LEMMA StoreFileStep ==
    ASSUME UploadInv, NEW u \in Uploads, StoreFile(u)
    PROVE  UploadInv'
<1>1. PICK out \in CallOutcome(StorageErrors) :
         /\ stored' = IF out.done THEN stored \cup {u} ELSE stored
         /\ upl' = [upl EXCEPT ![u].pc = IF out.ok THEN "update" ELSE "refused",
                               ![u].file = out.ok]
  BY DEF StoreFile
<1>2. out.ok \in BOOLEAN /\ (out.ok => out.done)
  BY CallOutcomes, Switches
<1>3. /\ UNCHANGED <<batches, jobs, canc>> /\ upl[u].pc = "store" /\ RequestInv(u)
  BY DEF StoreFile, UploadInv
<1>4. PICK pc \in {"update", "refused"}, file \in BOOLEAN :
         /\ upl' = [upl EXCEPT ![u].pc = pc, ![u].file = file]
         /\ pc = "update" => u \in stored'
  BY <1>1, <1>2
<1>5. [upl[u] EXCEPT !.pc = pc, !.file = file] \in UploadState
  BY RecordType DEF UploadState, UploadPc, UploadAnswer
<1>6. /\ upl' \in [Uploads -> UploadState]
      /\ \A v \in Uploads \ {u} : upl'[v] = upl[v]
      /\ upl'[u] = [upl[u] EXCEPT !.pc = pc, !.file = file]
  BY <1>4, <1>5 DEF UploadInv, TypeOK
<1>7. /\ upl'[u].pc = pc /\ upl'[u].total = upl[u].total /\ upl'[u].next = upl[u].next
      /\ upl'[u].passed = upl[u].passed /\ upl'[u].quote = upl[u].quote
  BY <1>6 DEF UploadInv, TypeOK, UploadState
<1>8. stored \subseteq stored' /\ stored' \subseteq Uploads
  BY <1>1 DEF UploadInv, TypeOK
<1>9. TypeOK'
  BY <1>3, <1>6, <1>8 DEF UploadInv, TypeOK
<1>10. CountInv(u)' /\ AnswerInv(u)' /\ CancelInv(u)'
  BY <1>3, <1>7 DEF RequestInv, CountInv, AnswerInv, CancelInv
<1>11. StageInv(u)'
  BY <1>3, <1>4, <1>7 DEF RequestInv, StageInv, Created, Counted, Told
<1>12. FinalInv(u)'
  BY <1>3, NotFinal DEF FinalInv, Ended, UploadAnswer
<1> QED
  BY <1>3, <1>6, <1>8, <1>9, <1>10, <1>11, <1>12, OthersKept DEF Untouched, RequestInv

\* What UPDATE ... WHERE id does to the rows of all batches.
LEMMA RowUpdate ==
    ASSUME batches \in [Uploads -> SUBSET BatchRow], NEW u \in Uploads, NEW done \in BOOLEAN,
           NEW b \in BatchRow, UpdateBatch(u, done, b)
    PROVE  /\ batches' \in [Uploads -> SUBSET BatchRow]
           /\ \A v \in Uploads \ {u} : batches'[v] = batches[v]
           /\ batches'[u] \in {batches[u], {b}} /\ (batches'[u] = {} <=> batches[u] = {})
BY DEF UpdateBatch

LEMMA UpdateCountsStep ==
    ASSUME UploadInv, NEW u \in Uploads, UpdateCounts(u)
    PROVE  UploadInv'
<1> DEFINE b == [NewBatch(u) EXCEPT !.valid = Valid(u), !.file = upl[u].file]
<1>1. PICK out \in CallOutcome(DbErrors) : UpdateBatch(u, out.done, b)
  BY DEF UpdateCounts
<1>2. out.done \in BOOLEAN
  BY CallOutcomes, Switches
<1>3. /\ UploadGoto(u, "load") /\ UNCHANGED <<jobs, stored, canc>> /\ upl[u].pc = "update"
      /\ RequestInv(u)
  BY DEF UpdateCounts, UploadInv
<1>4. b \in BatchRow /\ b.status = "pending"
  BY <1>3, ValidCount DEF NewBatch, BatchRow, Status, UploadInv, RequestInv, TypeOK, UploadState
<1>5. /\ batches' \in [Uploads -> SUBSET BatchRow]
      /\ \A v \in Uploads \ {u} : batches'[v] = batches[v]
      /\ batches'[u] \in {batches[u], {b}} /\ (batches'[u] = {} <=> batches[u] = {})
  <2> HIDE DEF b
  <2> QED
    BY <1>1, <1>2, <1>4, RowUpdate DEF UploadInv, TypeOK
<1>6. [upl[u] EXCEPT !.pc = "load"] \in UploadState
  BY RecordType DEF UploadState, UploadPc
<1>7. /\ upl' \in [Uploads -> UploadState]
      /\ \A v \in Uploads \ {u} : upl'[v] = upl[v]
      /\ upl'[u] = [upl[u] EXCEPT !.pc = "load"]
  BY <1>3, <1>6 DEF UploadGoto, UploadInv, TypeOK
<1>8. /\ upl'[u].pc = "load" /\ upl'[u].total = upl[u].total /\ upl'[u].next = upl[u].next
      /\ upl'[u].passed = upl[u].passed /\ upl'[u].quote = upl[u].quote
  BY <1>7 DEF UploadInv, TypeOK, UploadState
<1> HIDE DEF b
<1>9. TypeOK'
  BY <1>3, <1>5, <1>7 DEF UploadInv, TypeOK
<1>10. CountInv(u)' /\ AnswerInv(u)' /\ CancelInv(u)'
  BY <1>3, <1>8 DEF RequestInv, CountInv, AnswerInv, CancelInv
<1>11. StageInv(u)'
  BY <1>3, <1>5, <1>8 DEF RequestInv, StageInv, Created, Counted, Told
<1>12. FinalInv(u)'
  BY <1>3, <1>4, <1>5, NotFinal DEF FinalInv, Ended, UploadAnswer
<1> QED
  BY <1>3, <1>5, <1>7, <1>9, <1>10, <1>11, <1>12, OthersKept DEF Untouched, RequestInv

LEMMA LoadRowStep ==
    ASSUME UploadInv, NEW u \in Uploads, LoadRow(u)
    PROVE  UploadInv'
<1> DEFINE row == {[b EXCEPT !.valid = Valid(u)] : b \in batches[u]}
<1>1. /\ UNCHANGED <<batches, jobs, stored, canc>> /\ upl[u].pc = "load" /\ RequestInv(u)
  BY DEF LoadRow, UploadInv
<1>2. CASE UploadGoto(u, "answer")
  <2>1. upl[u].next = upl[u].total + 1 /\ (HasStorage => u \in stored)
    BY <1>1 DEF RequestInv, StageInv, Counted
  <2> QED
    BY <1>1, <1>2, <2>1, GotoStep DEF UploadPc, UploadAnswer, Created, Counted, Told, Ended
<1>3. CASE \E pc \in {"save", "quote"} : upl' = [upl EXCEPT ![u].row = row, ![u].pc = pc]
  <2>1. PICK pc \in {"save", "quote"} : upl' = [upl EXCEPT ![u].row = row, ![u].pc = pc]
    BY <1>3
  <2>2. Valid(u) \in Nat
    BY <1>1, ValidCount DEF UploadInv, RequestInv
  <2>3. row \subseteq BatchRow /\ \A b \in row : b.valid = Valid(u)
    BY <2>2 DEF UploadInv, TypeOK, BatchRow
  <2> HIDE DEF row
  <2>4. [upl[u] EXCEPT !.row = row, !.pc = pc] \in UploadState
    BY <2>3, RecordType DEF UploadState, UploadPc
  <2>5. /\ upl' \in [Uploads -> UploadState]
        /\ \A v \in Uploads \ {u} : upl'[v] = upl[v]
        /\ upl'[u] = [upl[u] EXCEPT !.row = row, !.pc = pc]
    BY <2>1, <2>4 DEF UploadInv, TypeOK
  <2>6. /\ upl'[u].pc = pc /\ upl'[u].total = upl[u].total /\ upl'[u].next = upl[u].next
        /\ upl'[u].passed = upl[u].passed /\ upl'[u].quote = upl[u].quote /\ upl'[u].row = row
    BY <2>5 DEF UploadInv, TypeOK, UploadState
  <2>7. TypeOK'
    BY <1>1, <2>5 DEF UploadInv, TypeOK
  <2>8. CountInv(u)' /\ AnswerInv(u)' /\ CancelInv(u)'
    BY <1>1, <2>6 DEF RequestInv, CountInv, AnswerInv, CancelInv
  <2>9. Valid(u)' = Valid(u)
    BY <2>6 DEF Valid
  <2>10. StageInv(u)'
    BY <1>1, <2>3, <2>6, <2>9 DEF RequestInv, StageInv, Created, Counted, Told
  <2>11. FinalInv(u)'
    BY <1>1, NotFinal DEF FinalInv, Ended, UploadAnswer
  <2> QED
    BY <1>1, <2>5, <2>7, <2>8, <2>10, <2>11, OthersKept DEF Untouched, RequestInv
<1> QED
  BY <1>2, <1>3 DEF LoadRow, UploadGoto

LEMMA QuoteStep ==
    ASSUME UploadInv, NEW u \in Uploads, QuoteUnits(u)
    PROVE  UploadInv'
<1>1. PICK q \in Quote : upl' = [upl EXCEPT ![u].quote = q, ![u].pc = "save"]
  BY DEF QuoteUnits
<1>2. /\ UNCHANGED <<batches, jobs, stored, canc>> /\ upl[u].pc = "quote" /\ RequestInv(u)
  BY DEF QuoteUnits, UploadInv
<1>3. q \subseteq Nat /\ \A a, c \in q : a = c
  BY UploadCounts DEF Quote
<1>4. [upl[u] EXCEPT !.quote = q, !.pc = "save"] \in UploadState
  BY <1>3, RecordType DEF UploadState, UploadPc
<1>5. /\ upl' \in [Uploads -> UploadState]
      /\ \A v \in Uploads \ {u} : upl'[v] = upl[v]
      /\ upl'[u] = [upl[u] EXCEPT !.quote = q, !.pc = "save"]
  BY <1>1, <1>4 DEF UploadInv, TypeOK
<1>6. /\ upl'[u].pc = "save" /\ upl'[u].total = upl[u].total /\ upl'[u].next = upl[u].next
      /\ upl'[u].passed = upl[u].passed /\ upl'[u].quote = q /\ upl'[u].row = upl[u].row
  BY <1>5 DEF UploadInv, TypeOK, UploadState
<1>7. TypeOK'
  BY <1>2, <1>5 DEF UploadInv, TypeOK
<1>8. CountInv(u)' /\ AnswerInv(u)' /\ CancelInv(u)'
  BY <1>2, <1>6 DEF RequestInv, CountInv, AnswerInv, CancelInv
<1>9. Valid(u)' = Valid(u)
  BY <1>6 DEF Valid
<1>10. StageInv(u)'
  BY <1>2, <1>3, <1>6, <1>9 DEF RequestInv, StageInv, Created, Counted, Told
<1>11. FinalInv(u)'
  BY <1>2, NotFinal DEF FinalInv, Ended, UploadAnswer
<1> QED
  BY <1>2, <1>5, <1>7, <1>8, <1>10, <1>11, OthersKept DEF Untouched, RequestInv

\* What FinalizeAfterUpload makes of the row it has read.
LEMMA FinalizedRow ==
    ASSUME UploadInv, NEW u \in Uploads, upl[u].pc = "save", NEW b \in upl[u].row
    PROVE  LET fin == Finalize(u, b)
           IN  /\ fin \in BatchRow
               /\ fin.valid = Valid(u)
               /\ fin.status = "validation_errors" <=> Invalid(u) > 0
               /\ fin.status = "partial_available" =>
                     fin.approved < fin.valid /\ fin.approved \in upl[u].quote
               /\ fin.status = "ready" => ~Short(upl[u].quote, Valid(u))
<1>1. b \in BatchRow /\ b.valid = Valid(u) /\ upl[u].quote \subseteq Nat
  BY DEF UploadInv, RequestInv, StageInv, TypeOK, UploadState
<1>2. CASE Invalid(u) > 0
  BY <1>1, <1>2 DEF Finalize, BatchRow, Status
<1>3. CASE ~(Invalid(u) > 0) /\ Short(upl[u].quote, Valid(u))
  <2>1. PICK a \in upl[u].quote : a < Valid(u)
    BY <1>3 DEF Short
  <2>2. (CHOOSE c \in upl[u].quote : TRUE) \in upl[u].quote
    BY <2>1
  <2>3. (CHOOSE c \in upl[u].quote : TRUE) = a
    BY <2>1, <2>2 DEF UploadInv, RequestInv, StageInv
  <2>4. Finalize(u, b) = [b EXCEPT !.status = "partial_available", !.approved = a]
    BY <1>3, <2>3 DEF Finalize
  <2>5. /\ Finalize(u, b) \in BatchRow /\ Finalize(u, b).status = "partial_available"
        /\ Finalize(u, b).approved = a /\ Finalize(u, b).valid = Valid(u)
    BY <1>1, <2>1, <2>4 DEF BatchRow, Status
  <2> QED
    BY <1>3, <2>1, <2>5
<1>4. CASE ~(Invalid(u) > 0) /\ ~Short(upl[u].quote, Valid(u))
  BY <1>1, <1>4 DEF Finalize, BatchRow, Status
<1> QED
  BY <1>2, <1>3, <1>4

LEMMA SaveStep ==
    ASSUME UploadInv, NEW u \in Uploads, SaveRow(u)
    PROVE  UploadInv'
<1>1. /\ UploadGoto(u, "answer") /\ UNCHANGED <<jobs, stored, canc>> /\ upl[u].pc = "save"
      /\ RequestInv(u)
  BY DEF SaveRow, UploadInv
<1>2. PICK b \in upl[u].row, out \in CallOutcome(DbErrors) :
         UpdateBatch(u, out.done, Finalize(u, b))
  BY DEF SaveRow
<1>3. out.done \in BOOLEAN
  BY CallOutcomes, Switches
<1> DEFINE fin == Finalize(u, b)
<1>4. /\ fin \in BatchRow
      /\ fin.valid = Valid(u)
      /\ fin.status = "validation_errors" <=> Invalid(u) > 0
      /\ fin.status = "partial_available" =>
            fin.approved < fin.valid /\ fin.approved \in upl[u].quote
      /\ fin.status = "ready" => ~Short(upl[u].quote, Valid(u))
  BY <1>1, FinalizedRow
<1> HIDE DEF fin
<1>5. /\ batches' \in [Uploads -> SUBSET BatchRow]
      /\ \A v \in Uploads \ {u} : batches'[v] = batches[v]
      /\ batches'[u] \in {batches[u], {fin}} /\ (batches'[u] = {} <=> batches[u] = {})
  BY <1>2, <1>3, <1>4, RowUpdate DEF UploadInv, TypeOK, fin
<1>6. [upl[u] EXCEPT !.pc = "answer"] \in UploadState
  BY RecordType DEF UploadState, UploadPc
<1>7. /\ upl' \in [Uploads -> UploadState]
      /\ \A v \in Uploads \ {u} : upl'[v] = upl[v]
      /\ upl'[u] = [upl[u] EXCEPT !.pc = "answer"]
  BY <1>1, <1>6 DEF UploadGoto, UploadInv, TypeOK
<1>8. /\ upl'[u].pc = "answer" /\ upl'[u].total = upl[u].total /\ upl'[u].next = upl[u].next
      /\ upl'[u].passed = upl[u].passed /\ upl'[u].quote = upl[u].quote
  BY <1>7 DEF UploadInv, TypeOK, UploadState
<1>9. TypeOK'
  BY <1>1, <1>5, <1>7 DEF UploadInv, TypeOK
<1>10. CountInv(u)' /\ AnswerInv(u)' /\ CancelInv(u)'
  BY <1>1, <1>8 DEF RequestInv, CountInv, AnswerInv, CancelInv
<1>11. StageInv(u)'
  BY <1>1, <1>5, <1>8 DEF RequestInv, StageInv, Created, Counted, Told
<1>12. FinalInv(u)'
  <2>1. Valid(u)' = Valid(u) /\ Invalid(u)' = Invalid(u)
    BY <1>8 DEF Valid, Invalid
  <2>2. \A c \in batches'[u] : c.status \notin {"pending", "cancelled"} => c = fin
    BY <1>1, <1>5, NotFinal DEF Ended, UploadAnswer
  <2> QED
    BY <1>4, <1>8, <2>1, <2>2 DEF FinalInv, Ended
<1> QED
  BY <1>1, <1>5, <1>7, <1>9, <1>10, <1>11, <1>12, OthersKept DEF Untouched, RequestInv

LEMMA AnswerStep ==
    ASSUME UploadInv, NEW u \in Uploads, Answer(u)
    PROVE  UploadInv'
<1>1. /\ UNCHANGED <<batches, jobs, stored, canc>> /\ upl[u].pc = "answer" /\ RequestInv(u)
  BY DEF Answer, UploadInv
<1>2. upl[u].next = upl[u].total + 1 /\ (HasStorage => u \in stored)
  BY <1>1 DEF RequestInv, StageInv, Counted
<1>3. CASE Invalid(u) > 0 /\ UploadGoto(u, "validation_errors")
  BY <1>1, <1>2, <1>3, GotoStep DEF UploadPc, UploadAnswer, Created, Counted, Told, Ended
<1>4. CASE Invalid(u) = 0 /\ \E q \in Quote :
              upl' = [upl EXCEPT ![u].answered = q,
                                ![u].pc = IF q = {} THEN "billing_error"
                                          ELSE IF Short(q, Valid(u)) THEN "partial_available"
                                          ELSE "ready"]
  <2>1. PICK q \in Quote, pc \in {"billing_error", "partial_available", "ready"} :
           /\ upl' = [upl EXCEPT ![u].answered = q, ![u].pc = pc]
           /\ pc # "billing_error" => (pc = "partial_available" <=> Short(q, Valid(u)))
    BY <1>4
  <2>2. q \subseteq Nat
    BY UploadCounts DEF Quote
  <2>3. [upl[u] EXCEPT !.answered = q, !.pc = pc] \in UploadState
    BY <2>2, RecordType DEF UploadState, UploadPc, UploadAnswer
  <2>4. /\ upl' \in [Uploads -> UploadState]
        /\ \A v \in Uploads \ {u} : upl'[v] = upl[v]
        /\ upl'[u] = [upl[u] EXCEPT !.answered = q, !.pc = pc]
    BY <2>1, <2>3 DEF UploadInv, TypeOK
  <2>5. /\ upl'[u].pc = pc /\ upl'[u].total = upl[u].total /\ upl'[u].next = upl[u].next
        /\ upl'[u].passed = upl[u].passed /\ upl'[u].quote = upl[u].quote
        /\ upl'[u].answered = q
    BY <2>4 DEF UploadInv, TypeOK, UploadState
  <2>6. Valid(u)' = Valid(u) /\ Invalid(u)' = Invalid(u)
    BY <2>5 DEF Valid, Invalid
  <2>7. TypeOK'
    BY <1>1, <2>4 DEF UploadInv, TypeOK
  <2>8. CountInv(u)' /\ CancelInv(u)'
    BY <1>1, <2>5 DEF RequestInv, CountInv, CancelInv
  <2>9. StageInv(u)'
    BY <1>1, <2>5 DEF RequestInv, StageInv, Created, Counted, Told
  <2>10. FinalInv(u)'
    BY <1>1, <2>5, <2>6 DEF RequestInv, FinalInv, Ended, UploadAnswer
  <2>11. AnswerInv(u)'
    BY <1>4, <2>1, <2>5, <2>6 DEF AnswerInv
  <2> QED
    BY <1>1, <2>4, <2>7, <2>8, <2>9, <2>10, <2>11, OthersKept DEF Untouched, RequestInv
<1> QED
  BY <1>3, <1>4 DEF Answer

LEMMA CancelStep ==
    ASSUME UploadInv, NEW u \in Uploads, CancelLoad(u) \/ CancelSave(u)
    PROVE  UploadInv'
<1>1. /\ UNCHANGED <<jobs, stored, upl>> /\ RequestInv(u)
      /\ Valid(u)' = Valid(u) /\ Invalid(u)' = Invalid(u)
  BY DEF CancelLoad, CancelSave, UploadInv, Valid, Invalid
<1>2. /\ canc' \in [Uploads -> SUBSET BatchRow]
      /\ \A v \in Uploads \ {u} : canc'[v] = canc[v]
      /\ \A b \in canc'[u] : b.status = "cancelled"
  <2>1. CASE CancelLoad(u)
    <3> DEFINE read == {[b EXCEPT !.status = "cancelled"] : b \in batches[u]}
    <3>1. read \subseteq BatchRow /\ \A b \in read : b.status = "cancelled"
      BY DEF UploadInv, TypeOK, BatchRow, Status
    <3>2. canc' = [canc EXCEPT ![u] = read]
      BY <2>1 DEF CancelLoad
    <3> HIDE DEF read
    <3> QED
      BY <3>1, <3>2 DEF UploadInv, TypeOK
  <2>2. CASE CancelSave(u)
    BY <2>2 DEF CancelSave, UploadInv, TypeOK
  <2> QED
    BY <2>1, <2>2
<1>3. /\ batches' \in [Uploads -> SUBSET BatchRow]
      /\ \A v \in Uploads \ {u} : batches'[v] = batches[v]
      /\ (batches'[u] = {} <=> batches[u] = {})
      /\ \A b \in batches'[u] : b \in batches[u] \/ b.status = "cancelled"
  <2>1. CASE CancelLoad(u)
    BY <2>1 DEF CancelLoad, UploadInv, TypeOK
  <2>2. CASE CancelSave(u)
    <3>1. PICK b \in canc[u] : UpdateBatch(u, TRUE, b)
      BY <2>2 DEF CancelSave
    <3>2. b \in BatchRow /\ b.status = "cancelled"
      BY <1>1 DEF UploadInv, TypeOK, RequestInv, CancelInv
    <3>3. batches \in [Uploads -> SUBSET BatchRow]
      BY DEF UploadInv, TypeOK
    <3>4. /\ batches' \in [Uploads -> SUBSET BatchRow]
          /\ \A v \in Uploads \ {u} : batches'[v] = batches[v]
          /\ batches'[u] \in {batches[u], {b}} /\ (batches'[u] = {} <=> batches[u] = {})
      BY <3>1, <3>2, <3>3, RowUpdate
    <3> QED
      BY <3>2, <3>4
  <2> QED
    BY <2>1, <2>2
<1>4. TypeOK'
  BY <1>1, <1>2, <1>3 DEF UploadInv, TypeOK
<1>5. CountInv(u)' /\ AnswerInv(u)' /\ CancelInv(u)'
  BY <1>1, <1>2 DEF RequestInv, CountInv, AnswerInv, CancelInv
<1>6. StageInv(u)'
  BY <1>1, <1>3 DEF RequestInv, StageInv
<1>7. FinalInv(u)'
  BY <1>1, <1>3 DEF RequestInv, FinalInv
<1> QED
  BY <1>1, <1>2, <1>3, <1>4, <1>5, <1>6, <1>7, OthersKept DEF Untouched, RequestInv

\* The steps that only move the request on.
LEMMA QuietStep ==
    ASSUME UploadInv, NEW u \in Uploads, ReceiveFile(u) \/ EndRows(u) \/ CrashUpload(u)
    PROVE  UploadInv'
<1>1. CASE ReceiveFile(u)
  BY <1>1, GotoStep DEF ReceiveFile, UploadPc, UploadAnswer, Created, Counted, Told, Ended
<1>2. CASE EndRows(u)
  <2>1. upl[u].next = upl[u].total + 1
    BY <1>2 DEF EndRows, UploadInv, RequestInv, CountInv, TypeOK, UploadState
  <2>2. CASE HasStorage
    BY <1>2, <2>1, <2>2, GotoStep DEF EndRows, UploadPc, UploadAnswer, Created, Counted, Told, Ended
  <2>3. CASE ~HasStorage
    BY <1>2, <2>1, <2>3, GotoStep DEF EndRows, UploadPc, UploadAnswer, Created, Counted, Told, Ended
  <2> QED
    BY <2>2, <2>3
<1>3. CASE CrashUpload(u)
  BY <1>3, GotoStep DEF CrashUpload, UploadPc, UploadAnswer, Created, Counted, Told, Ended
<1> QED
  BY <1>1, <1>2, <1>3

---------------------------------------------------------------------------
(***************************************************************************)
(* What holds of every behaviour                                           *)
(***************************************************************************)

LEMMA UploadInvInit == Init => UploadInv
<1> SUFFICES ASSUME Init PROVE UploadInv
  OBVIOUS
<1>1. UploadFresh \in UploadState
  BY DEF UploadFresh, UploadState, UploadPc
<1>2. TypeOK
  BY <1>1 DEF Init, TypeOK
<1>3. ASSUME NEW u \in Uploads PROVE RequestInv(u)
  <2>1. /\ upl[u].pc = "idle" /\ upl[u].next = 1 /\ upl[u].total = 0 /\ upl[u].passed = {}
        /\ upl[u].quote = {} /\ batches[u] = {} /\ jobs[u] = {} /\ canc[u] = {}
    BY DEF Init, UploadFresh
  <2>2. 1 .. 1 - 1 = {} /\ 1 \in 1 .. 0 + 1
    OBVIOUS
  <2>3. CountInv(u)
    BY <2>1, <2>2 DEF CountInv
  <2> QED
    BY <2>1, <2>3 DEF RequestInv, StageInv, FinalInv, AnswerInv, CancelInv, Created, Counted, Told
<1> QED
  BY <1>2, <1>3 DEF UploadInv

LEMMA UploadInvStep ==
    ASSUME UploadInv, [Next]_vars
    PROVE  UploadInv'
<1>1. ASSUME NEW u \in Uploads, UploadStep(u)
      PROVE  UploadInv'
  BY <1>1, ParseStep, CreateStep, ValidateRowStep, QuietStep, StoreFileStep, UpdateCountsStep,
     LoadRowStep, QuoteStep, SaveStep, AnswerStep DEF UploadStep
<1>2. CASE UNCHANGED vars
  <2>1. TypeOK' /\ \A u \in Uploads : Untouched(u)
    BY <1>2 DEF UploadInv, TypeOK, vars, Untouched
  <2> QED
    BY <2>1, UntouchedKept DEF UploadInv
<1> QED
  BY <1>1, <1>2, QuietStep, CancelStep DEF Next

LEMMA UploadInvAlways == Spec => []UploadInv
BY UploadInvInit, UploadInvStep, PTL DEF Spec

\* Rows, jobs and locals have their types: the allowance stored in a row is the
\* count of a quote, never what is left of a subtraction.
THEOREM UploadTypes == Spec => []TypeOK
<1>1. UploadInv => TypeOK
  BY DEF UploadInv
<1> QED
  BY <1>1, UploadInvAlways, PTL

\* FinalizeAfterUpload counts right in spite of UpdateCounts' dropped error, the
\* errors of its own calls and a cancellation that writes a stale row.
THEOREM FinalizedExact == Spec => []FinalizedRowIsExact
<1>1. UploadInv => FinalizedRowIsExact
  BY DEF UploadInv, RequestInv, FinalInv, FinalizedRowIsExact
<1> QED
  BY <1>1, UploadInvAlways, PTL

\* The limit that ConfirmBatch will apply is what billing quoted, and a limit.
THEOREM ApprovedQuoted == Spec => []ApprovedIsQuoted
<1>1. UploadInv => ApprovedIsQuoted
  BY DEF UploadInv, RequestInv, FinalInv, ApprovedIsQuoted
<1> QED
  BY <1>1, UploadInvAlways, PTL

\* HandleUpload's own quote and that of FinalizeAfterUpload lead to the same
\* status when billing answers them alike.
THEOREM AnswersAgree == Spec => []AnswerAgrees
<1>1. ASSUME UploadInv, NEW u \in Uploads, NEW b \in batches[u], Accepted(u),
             upl[u].quote = upl[u].answered
      PROVE  b.status \in {upl[u].pc, "pending", "cancelled"}
  <2>1. b.status \in Status
    BY <1>1 DEF UploadInv, TypeOK, BatchRow
  <2>2. FinalInv(u) /\ AnswerInv(u)
    BY <1>1 DEF UploadInv, RequestInv
  <2>3. b.status = "partial_available" => Short(upl[u].quote, Valid(u))
    BY <2>2 DEF FinalInv, Short
  <2> QED
    BY <1>1, <2>1, <2>2, <2>3 DEF FinalInv, AnswerInv, Accepted, Status
<1>2. UploadInv => AnswerAgrees
  BY <1>1 DEF AnswerAgrees
<1> QED
  BY <1>2, UploadInvAlways, PTL

\* A refused or lost upload leaves no job without a batch, and an accepted one has
\* its batch, its file and its jobs.
THEOREM AcceptedComplete == Spec => []AcceptedIsComplete
<1>1. ASSUME UploadInv, NEW u \in Uploads
      PROVE  /\ jobs[u] # {} => batches[u] # {}
             /\ jobs[u] \subseteq 1 .. upl[u].total
             /\ Accepted(u) =>
                   /\ batches[u] # {}
                   /\ HasStorage => u \in stored
                   /\ ~DbErrors => jobs[u] = 1 .. upl[u].total
  <2>1. CountInv(u) /\ StageInv(u) /\ upl[u].total \in Nat /\ upl[u].next \in Nat
    BY <1>1 DEF UploadInv, RequestInv, TypeOK, UploadState
  <2>2. upl[u].next - 1 <= upl[u].total /\ jobs[u] \subseteq 1 .. upl[u].next - 1
    BY <2>1 DEF CountInv
  <2>3. jobs[u] \subseteq 1 .. upl[u].total
    BY <2>1, <2>2
  <2>4. ASSUME Accepted(u)
        PROVE  upl[u].next - 1 = upl[u].total /\ batches[u] # {} /\ (HasStorage => u \in stored)
    BY <2>1, <2>4 DEF Accepted, StageInv, Created, Counted, Told
  <2> QED
    BY <2>1, <2>3, <2>4 DEF CountInv, StageInv
<1>2. UploadInv => AcceptedIsComplete
  BY <1>1 DEF AcceptedIsComplete
<1> QED
  BY <1>2, UploadInvAlways, PTL

---------------------------------------------------------------------------
(***************************************************************************)
(* The way of an upload to its answer                                      *)
(***************************************************************************)

\* The calls that an upload has before it at most, once its file was parsed.
UploadRank(u) ==
    LET rows == upl[u].total + 1 - upl[u].next
    IN  CASE upl[u].pc = "create" -> rows + 8
          [] upl[u].pc = "rows"   -> rows + 7
          [] upl[u].pc = "store"  -> 6
          [] upl[u].pc = "update" -> 5
          [] upl[u].pc = "load"   -> 4
          [] upl[u].pc = "quote"  -> 3
          [] upl[u].pc = "save"   -> 2
          [] upl[u].pc = "answer" -> 1
          [] OTHER                -> 0

\* Whatever calls fail, no step leads back; the parser's leads to an end or to the
\* creation of the batch.
UploadCloser ==
    [][\A u \in Uploads :
          /\ upl'[u] # upl[u]
          /\ upl[u].pc # "idle"
          => \/ upl[u].pc = "parse" /\ upl'[u].pc \in {"create"} \cup UploadAnswer
             \/ UploadRank(u)' < UploadRank(u)]_vars

\* The number of calls is bounded, it is zero only at an end, and an upload that is
\* about to save the outcome has a row to save it in.
UploadBounded ==
    \A u \in Uploads :
        /\ UploadRank(u) \in 0 .. upl[u].total + 8
        /\ UploadRank(u) = 0 <=> upl[u].pc \in {"idle", "parse"} \cup UploadAnswer
        /\ upl[u].pc = "save" => upl[u].row # {}

\* A request that goes on to the quote has read a row.
LoadedInv == \A u \in Uploads : upl[u].pc \in {"quote", "save"} => upl[u].row # {}

LEMMA LoadedStep ==
    ASSUME UploadInv, LoadedInv, [Next]_vars
    PROVE  LoadedInv'
<1> SUFFICES ASSUME NEW u \in Uploads, upl'[u].pc \in {"quote", "save"}
             PROVE  upl'[u].row # {}
  BY DEF LoadedInv
<1>1. upl \in [Uploads -> UploadState]
  BY DEF UploadInv, TypeOK
<1>2. CASE upl'[u] = upl[u]
  BY <1>2 DEF LoadedInv
<1>3. ASSUME NEW v \in Uploads, LoadRow(v), upl'[u] # upl[u]
      PROVE  upl'[u].row # {}
  <2> DEFINE row == {[b EXCEPT !.valid = Valid(v)] : b \in batches[v]}
             pc == IF Invalid(v) > 0 THEN "save" ELSE "quote"
  <2>1. PICK ok \in ReadOk :
           upl' = IF ok THEN [upl EXCEPT ![v].row = row, ![v].pc = pc]
                  ELSE [upl EXCEPT ![v].pc = "answer"]
    BY <1>3 DEF LoadRow
  <2>2. batches[v] # {}
    BY <1>3 DEF LoadRow, UploadInv, RequestInv, StageInv, Created, Counted
  <2>3. row # {}
    BY <2>2
  <2> HIDE DEF row, pc
  <2>4. CASE ok
    BY <1>1, <1>3, <2>1, <2>3, <2>4 DEF UploadState
  <2>5. CASE ~ok
    BY <1>1, <1>3, <2>1, <2>5 DEF UploadState
  <2> QED
    BY <2>4, <2>5
<1>4. ASSUME NEW v \in Uploads, QuoteUnits(v), upl'[u] # upl[u]
      PROVE  upl'[u].row # {}
  <2>1. PICK q : upl' = [upl EXCEPT ![v].quote = q, ![v].pc = "save"]
    BY <1>4 DEF QuoteUnits
  <2> QED
    BY <1>1, <1>4, <2>1 DEF QuoteUnits, LoadedInv, UploadState
<1>5. ASSUME NEW v \in Uploads, NEW pc \in UploadPc \ {"quote", "save"}, UploadGoto(v, pc)
      PROVE  upl'[u] = upl[u]
  BY <1>1, <1>5 DEF UploadGoto, UploadState
<1>6. ASSUME NEW v \in Uploads, upl'[u] # upl[u],
             ReceiveFile(v) \/ Create(v) \/ EndRows(v) \/ UpdateCounts(v) \/ SaveRow(v)
             \/ CrashUpload(v)
      PROVE  FALSE
  <2>1. \E pc \in UploadPc \ {"quote", "save"} : UploadGoto(v, pc)
    BY <1>6 DEF ReceiveFile, Create, EndRows, UpdateCounts, SaveRow, CrashUpload, UploadPc,
       UploadAnswer
  <2> QED
    BY <1>5, <1>6, <2>1
<1>7. ASSUME NEW v \in Uploads, upl'[u] # upl[u], Parse(v)
      PROVE  FALSE
  <2>1. CASE UploadGoto(v, "refused")
    BY <1>5, <1>7, <2>1 DEF UploadPc, UploadAnswer
  <2>2. ASSUME NEW n, upl' = [upl EXCEPT ![v].pc = "create", ![v].total = n]
        PROVE  FALSE
    BY <1>1, <1>7, <2>2 DEF UploadState
  <2> QED
    BY <1>7, <2>1, <2>2 DEF Parse
<1>8. ASSUME NEW v \in Uploads, upl'[u] # upl[u], ValidateRow(v)
      PROVE  FALSE
  <2>1. PICK passed : upl' = [upl EXCEPT ![v].next = @ + 1, ![v].passed = passed]
    BY <1>8 DEF ValidateRow
  <2> QED
    BY <1>1, <1>8, <2>1 DEF ValidateRow, UploadState
<1>9. ASSUME NEW v \in Uploads, upl'[u] # upl[u], StoreFile(v)
      PROVE  FALSE
  <2>0. PICK out :
           upl' = [upl EXCEPT ![v].pc = IF out.ok THEN "update" ELSE "refused",
                              ![v].file = out.ok]
    BY <1>9 DEF StoreFile
  <2>1. \E pc \in {"update", "refused"} :
           upl' = [upl EXCEPT ![v].pc = pc, ![v].file = out.ok]
    BY <2>0
  <2> QED
    BY <1>1, <1>9, <2>1 DEF UploadState
<1>10. ASSUME NEW v \in Uploads, upl'[u] # upl[u], Answer(v)
       PROVE  FALSE
  <2>1. CASE UploadGoto(v, "validation_errors")
    BY <1>5, <1>10, <2>1 DEF UploadPc, UploadAnswer
  <2>2. ASSUME NEW q, NEW pc \in {"billing_error", "partial_available", "ready"},
               upl' = [upl EXCEPT ![v].answered = q, ![v].pc = pc]
        PROVE  FALSE
    BY <1>1, <1>10, <2>2 DEF UploadState
  <2> QED
    BY <1>10, <2>1, <2>2 DEF Answer
<1> QED
  BY <1>2, <1>3, <1>4, <1>6, <1>7, <1>8, <1>9, <1>10
     DEF Next, UploadStep, CancelLoad, CancelSave, vars

\* What a step of one upload does to its stage and to its place among the rows.
UploadMove(u) ==
    \/ upl[u].pc = "idle"
    \/ upl[u].pc = "parse" /\ upl'[u].pc \in {"create"} \cup UploadAnswer
    \/ upl[u].pc \notin UploadAnswer \cup {"idle", "parse"} /\ upl'[u].pc \in UploadAnswer
    \/ /\ upl'[u].total = upl[u].total
       /\ \/ /\ upl'[u].next = upl[u].next
             /\ <<upl[u].pc, upl'[u].pc>> \in
                   {<<"create", "rows">>, <<"rows", "store">>, <<"rows", "update">>,
                    <<"store", "update">>, <<"update", "load">>, <<"load", "quote">>,
                    <<"load", "save">>, <<"load", "answer">>, <<"quote", "save">>,
                    <<"save", "answer">>}
          \/ /\ upl[u].pc = "rows"
             /\ upl'[u].pc = "rows"
             /\ upl'[u].next = upl[u].next + 1

LEMMA UploadMoves ==
    ASSUME UploadInv, NEW u \in Uploads, ReceiveFile(u) \/ UploadStep(u) \/ CrashUpload(u)
    PROVE  UploadMove(u)
<1> USE DEF UploadMove
<1>1. upl \in [Uploads -> UploadState]
  BY DEF UploadInv, TypeOK
<1>2. ASSUME NEW pc, UploadGoto(u, pc)
      PROVE  upl'[u].pc = pc /\ upl'[u].next = upl[u].next /\ upl'[u].total = upl[u].total
  BY <1>1, <1>2 DEF UploadGoto, UploadState
<1>3. CASE ReceiveFile(u)
  BY <1>3 DEF ReceiveFile
<1>4. CASE Parse(u)
  <2>1. \/ UploadGoto(u, "refused")
        \/ \E n : upl' = [upl EXCEPT ![u].pc = "create", ![u].total = n]
    BY <1>4 DEF Parse
  <2>2. upl'[u].pc \in {"refused", "create"}
    BY <1>1, <1>2, <2>1 DEF UploadState
  <2> QED
    BY <1>4, <2>2 DEF Parse, UploadAnswer
<1>5. CASE Create(u)
  BY <1>2, <1>5 DEF Create, UploadAnswer
<1>6. CASE ValidateRow(u)
  <2>1. PICK passed : upl' = [upl EXCEPT ![u].next = @ + 1, ![u].passed = passed]
    BY <1>6 DEF ValidateRow
  <2> QED
    BY <1>1, <1>6, <2>1 DEF ValidateRow, UploadState
<1>7. CASE EndRows(u)
  BY <1>2, <1>7 DEF EndRows
<1>8. CASE StoreFile(u)
  <2>0. PICK out :
           upl' = [upl EXCEPT ![u].pc = IF out.ok THEN "update" ELSE "refused",
                              ![u].file = out.ok]
    BY <1>8 DEF StoreFile
  <2>1. \E pc \in {"update", "refused"} :
           upl' = [upl EXCEPT ![u].pc = pc, ![u].file = out.ok]
    BY <2>0
  <2> QED
    BY <1>1, <1>8, <2>1 DEF StoreFile, UploadState, UploadAnswer
<1>9. CASE UpdateCounts(u) \/ SaveRow(u)
  BY <1>2, <1>9 DEF UpdateCounts, SaveRow
<1>10. CASE LoadRow(u)
  <2>1. \/ \E row : \E pc \in {"save", "quote"} :
              upl' = [upl EXCEPT ![u].row = row, ![u].pc = pc]
        \/ upl' = [upl EXCEPT ![u].pc = "answer"]
    BY <1>10 DEF LoadRow
  <2>2. ASSUME NEW row, NEW pc, upl' = [upl EXCEPT ![u].row = row, ![u].pc = pc]
        PROVE  upl'[u].pc = pc /\ upl'[u].next = upl[u].next /\ upl'[u].total = upl[u].total
    BY <1>1, <2>2 DEF UploadState
  <2>3. upl' = [upl EXCEPT ![u].pc = "answer"] => UploadGoto(u, "answer")
    BY DEF UploadGoto
  <2>4. /\ upl'[u].pc \in {"save", "quote", "answer"}
        /\ upl'[u].next = upl[u].next
        /\ upl'[u].total = upl[u].total
    <3>1. CASE \E row : \E pc \in {"save", "quote"} :
                  upl' = [upl EXCEPT ![u].row = row, ![u].pc = pc]
      <4>1. PICK row : \E pc \in {"save", "quote"} :
               upl' = [upl EXCEPT ![u].row = row, ![u].pc = pc]
        BY <3>1
      <4>2. PICK pc \in {"save", "quote"} : upl' = [upl EXCEPT ![u].row = row, ![u].pc = pc]
        BY <4>1
      <4> QED
        BY <2>2, <4>2
    <3>2. CASE upl' = [upl EXCEPT ![u].pc = "answer"]
      BY <1>2, <2>3, <3>2
    <3> QED
      BY <2>1, <3>1, <3>2
  <2> QED
    BY <1>10, <2>4 DEF LoadRow
<1>11. CASE QuoteUnits(u)
  <2>1. PICK q : upl' = [upl EXCEPT ![u].quote = q, ![u].pc = "save"]
    BY <1>11 DEF QuoteUnits
  <2> QED
    BY <1>1, <1>11, <2>1 DEF QuoteUnits, UploadState
<1>12. CASE Answer(u)
  <2>1. \/ UploadGoto(u, "validation_errors")
        \/ \E q : \E pc \in {"billing_error", "partial_available", "ready"} :
              upl' = [upl EXCEPT ![u].answered = q, ![u].pc = pc]
    BY <1>12 DEF Answer
  <2>2. upl'[u].pc \in {"validation_errors", "billing_error", "partial_available", "ready"}
    BY <1>1, <1>2, <2>1 DEF UploadState
  <2> QED
    BY <1>12, <2>2 DEF Answer, UploadAnswer
<1>13. CASE CrashUpload(u)
  <2>1. upl'[u].pc = "lost" /\ upl[u].pc \notin UploadAnswer \cup {"idle"}
    BY <1>2, <1>13 DEF CrashUpload
  <2> QED
    BY <2>1 DEF UploadAnswer
<1> QED
  BY <1>3, <1>4, <1>5, <1>6, <1>7, <1>8, <1>9, <1>10, <1>11, <1>12, <1>13 DEF UploadStep

\* Steps are of one upload, or of a cancellation, which no upload knows of.
LEMMA UploadMover ==
    ASSUME UploadInv, [Next]_vars, NEW u \in Uploads, upl'[u] # upl[u]
    PROVE  ReceiveFile(u) \/ UploadStep(u) \/ CrashUpload(u)
<1>1. upl \in [Uploads -> UploadState]
  BY DEF UploadInv, TypeOK
<1>2. ASSUME NEW v \in Uploads, v # u, ReceiveFile(v) \/ UploadStep(v) \/ CrashUpload(v)
      PROVE  upl'[u] = upl[u]
  BY <1>1, <1>2 DEF ReceiveFile, UploadStep, CrashUpload, Parse, Create, ValidateRow, EndRows,
     StoreFile, UpdateCounts, LoadRow, QuoteUnits, SaveRow, Answer, UploadGoto
<1> QED
  BY <1>2 DEF Next, CancelLoad, CancelSave, vars

LEMMA UploadCount ==
    ASSUME UploadInv, NEW u \in Uploads
    PROVE  /\ upl[u].pc \in UploadPc /\ upl[u].total \in Nat /\ upl[u].next \in Nat
           /\ upl[u].next >= 1 /\ upl[u].next <= upl[u].total + 1
<1>1. upl[u].pc \in UploadPc /\ upl[u].total \in Nat
  BY DEF UploadInv, TypeOK, UploadState
<1>2. upl[u].next \in 1 .. upl[u].total + 1
  BY DEF UploadInv, RequestInv, CountInv
<1> QED
  BY <1>1, <1>2

LEMMA UploadRankBounded ==
    ASSUME UploadInv, LoadedInv
    PROVE  UploadBounded
<1> SUFFICES ASSUME NEW u \in Uploads
             PROVE  /\ UploadRank(u) \in 0 .. upl[u].total + 8
                    /\ UploadRank(u) = 0 <=> upl[u].pc \in {"idle", "parse"} \cup UploadAnswer
  BY DEF UploadBounded, LoadedInv
<1>1. PICK r : r = UploadRank(u)
  OBVIOUS
<1>2. CASE upl[u].pc \in {"create", "rows"}
  <2>1. r = (upl[u].total + 1 - upl[u].next) + 8 \/ r = (upl[u].total + 1 - upl[u].next) + 7
    BY <1>1, <1>2 DEF UploadRank
  <2> QED
    BY <1>1, <1>2, <2>1, UploadCount DEF UploadAnswer
<1>3. CASE upl[u].pc \in {"store", "update", "load", "quote", "save", "answer"}
  <2>1. r = 6 \/ r = 5 \/ r = 4 \/ r = 3 \/ r = 2 \/ r = 1
    BY <1>1, <1>3 DEF UploadRank
  <2> QED
    BY <1>1, <1>3, <2>1, UploadCount DEF UploadAnswer
<1>4. CASE upl[u].pc \in {"idle", "parse"} \cup UploadAnswer
  <2>1. r = 0
    BY <1>1, <1>4 DEF UploadRank, UploadAnswer
  <2> QED
    BY <1>1, <1>4, <2>1, UploadCount
<1> QED
  BY <1>2, <1>3, <1>4, UploadCount DEF UploadPc

LEMMA UploadCloserStep ==
    ASSUME UploadInv, UploadInv', NEW u \in Uploads, UploadMove(u),
           upl[u].pc # "idle"
    PROVE  \/ upl[u].pc = "parse" /\ upl'[u].pc \in {"create"} \cup UploadAnswer
           \/ UploadRank(u)' < UploadRank(u)
<1>1. /\ upl[u].total \in Nat /\ upl[u].next \in Nat /\ upl[u].next <= upl[u].total + 1
  BY UploadCount
<1>2. /\ upl'[u].total \in Nat /\ upl'[u].next \in Nat /\ upl'[u].next <= upl'[u].total + 1
  <2>1. upl'[u].total \in Nat
    BY DEF UploadInv, TypeOK, UploadState
  <2>2. upl'[u].next \in 1 .. upl'[u].total + 1
    BY DEF UploadInv, RequestInv, CountInv
  <2> QED
    BY <2>1, <2>2
<1>3. PICK r : r = UploadRank(u)
  OBVIOUS
<1>4. PICK s : s = UploadRank(u)'
  OBVIOUS
<1>5. CASE upl[u].pc \notin UploadAnswer \cup {"idle", "parse"} /\ upl'[u].pc \in UploadAnswer
  <2>1. s = 0
    BY <1>4, <1>5 DEF UploadRank, UploadAnswer
  <2>2. r > 0
    <3>1. \/ r = (upl[u].total + 1 - upl[u].next) + 8 \/ r = (upl[u].total + 1 - upl[u].next) + 7
          \/ r = 6 \/ r = 5 \/ r = 4 \/ r = 3 \/ r = 2 \/ r = 1
      BY <1>3, <1>5, UploadCount DEF UploadRank, UploadPc
    <3> QED
      BY <1>1, <3>1
  <2> QED
    BY <1>3, <1>4, <2>1, <2>2
<1>6. CASE upl[u].pc = "create" /\ upl'[u].pc = "rows"
           /\ upl'[u].total = upl[u].total /\ upl'[u].next = upl[u].next
  <2>1. r = (upl[u].total + 1 - upl[u].next) + 8 /\ s = (upl'[u].total + 1 - upl'[u].next) + 7
    BY <1>3, <1>4, <1>6 DEF UploadRank
  <2> QED
    BY <1>1, <1>3, <1>4, <1>6, <2>1
<1>7. CASE upl[u].pc = "rows" /\ upl'[u].pc = "rows"
           /\ upl'[u].total = upl[u].total /\ upl'[u].next = upl[u].next + 1
  <2>1. r = (upl[u].total + 1 - upl[u].next) + 7 /\ s = (upl'[u].total + 1 - upl'[u].next) + 7
    BY <1>3, <1>4, <1>7 DEF UploadRank
  <2> QED
    BY <1>1, <1>3, <1>4, <1>7, <2>1
<1>8. CASE upl[u].pc = "rows" /\ upl'[u].pc \in {"store", "update"}
  <2>1. r = (upl[u].total + 1 - upl[u].next) + 7 /\ (s = 6 \/ s = 5)
    BY <1>3, <1>4, <1>8 DEF UploadRank
  <2> QED
    BY <1>1, <1>3, <1>4, <2>1
<1>9. CASE upl[u].pc = "store" /\ upl'[u].pc = "update"
  <2>1. r = 6 /\ s = 5
    BY <1>3, <1>4, <1>9 DEF UploadRank
  <2> QED
    BY <1>3, <1>4, <2>1
<1>10. CASE upl[u].pc = "update" /\ upl'[u].pc = "load"
  <2>1. r = 5 /\ s = 4
    BY <1>3, <1>4, <1>10 DEF UploadRank
  <2> QED
    BY <1>3, <1>4, <2>1
<1>11. CASE upl[u].pc = "load" /\ upl'[u].pc \in {"quote", "save", "answer"}
  <2>1. r = 4 /\ (s = 3 \/ s = 2 \/ s = 1)
    BY <1>3, <1>4, <1>11 DEF UploadRank
  <2> QED
    BY <1>3, <1>4, <2>1
<1>12. CASE upl[u].pc = "quote" /\ upl'[u].pc = "save"
  <2>1. r = 3 /\ s = 2
    BY <1>3, <1>4, <1>12 DEF UploadRank
  <2> QED
    BY <1>3, <1>4, <2>1
<1>13. CASE upl[u].pc = "save" /\ upl'[u].pc = "answer"
  <2>1. r = 2 /\ s = 1
    BY <1>3, <1>4, <1>13 DEF UploadRank
  <2> QED
    BY <1>3, <1>4, <2>1
<1> QED
  BY <1>5, <1>6, <1>7, <1>8, <1>9, <1>10, <1>11, <1>12, <1>13 DEF UploadMove

\* An upload comes to an end: after its file was parsed, at most as many steps as
\* the file has rows, and eight, are before it, each lowers that number whichever
\* call fails, and none waits for something that will not come.  With weak fairness
\* of its steps that is why every upload is answered.
THEOREM UploadEnds == Spec => []UploadBounded /\ UploadCloser
<1> DEFINE Closer ==
      \A u \in Uploads :
          /\ upl'[u] # upl[u]
          /\ upl[u].pc # "idle"
          => \/ upl[u].pc = "parse" /\ upl'[u].pc \in {"create"} \cup UploadAnswer
             \/ UploadRank(u)' < UploadRank(u)
<1>1. ASSUME UploadInv, UploadInv', [Next]_vars
      PROVE  Closer
  BY <1>1, UploadMover, UploadMoves, UploadCloserStep
<1>2. Init => LoadedInv
  BY DEF Init, UploadFresh, LoadedInv
<1>3. UploadInv /\ LoadedInv /\ [Next]_vars => LoadedInv'
  BY LoadedStep
<1>4. UploadInv /\ LoadedInv => UploadBounded
  BY UploadRankBounded
<1> QED
  BY <1>1, <1>2, <1>3, <1>4, UploadInvAlways, PTL DEF Spec, UploadCloser
=============================================================================
