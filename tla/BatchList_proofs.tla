--------------------------- MODULE BatchList_proofs ---------------------------
(***************************************************************************)
(* Proofs about the limits of uploads and the lists of batches: an upload  *)
(* under limits that change is still one of module Upload, its file fits   *)
(* one configuration of the limits, its lines, however many there are,     *)
(* become the rows of the batch, and a client that pages through the list  *)
(* while batches are added sees each of them once.                         *)
(***************************************************************************)
EXTENDS BatchList, Upload_proofs, SequenceTheorems, WellFoundedInduction

---------------------------------------------------------------------------
(***************************************************************************)
(* The inductive invariants                                                *)
(***************************************************************************)

\* The limits in force now are among those of every upload that is being checked,
\* and those that it took a copy of are among them and admit its file.
IntakeInv ==
    \A u \in Uploads :
        /\ upl[u].pc = "parse" => intake[u].stage = "read"
        /\ intake[u].stage \in {"body", "checked"} => limits \in intake[u].inForce
        /\ intake[u].stage = "read" =>
              \E l \in intake[u].inForce : intake[u].read = {l} /\ intake[u].size <= l.size

LimitsInv == LimitsTypeOK /\ IntakeInv

\* In ascending order the i-th batch shown is the i-th batch, and the pages end
\* no sooner than the batches that were there.
AscendingInv ==
    ~lister.desc =>
        /\ Len(lister.seen) <= created
        /\ \A i \in 1 .. Len(lister.seen) : lister.seen[i] = i
        /\ lister.done => lister.old \subseteq 1 .. Len(lister.seen)

\* By cursor in descending order the batches follow one another from the youngest
\* one that the first page found, which is none of those that were there or the
\* youngest of them or one added since, down to the first.
DescendingInv ==
    lister.desc /\ lister.mode = "cursor" =>
        /\ \A i \in 1 .. Len(lister.seen) : lister.seen[i] = lister.seen[1] + 1 - i
        /\ Len(lister.seen) > 0 =>
              /\ Len(lister.seen) <= lister.seen[1] /\ lister.seen[1] <= created
              /\ lister.old \subseteq 1 .. lister.seen[1]
        /\ lister.done => IF Len(lister.seen) = 0 THEN lister.old = {}
                          ELSE lister.seen[1] = Len(lister.seen)

ListInv ==
    /\ created \in Nat /\ lister \in ListerState
    /\ lister.mode = "none" => lister.seen = <<>> /\ ~lister.desc /\ ~lister.done
    /\ lister.old \subseteq Batches
    /\ AscendingInv
    /\ DescendingInv

---------------------------------------------------------------------------
(***************************************************************************)
(* Uploads under limits are uploads                                        *)
(***************************************************************************)

\* The steps of one upload under limits, each with the step of module Upload.
LEMMA LimitedIsNext ==
    ASSUME [LimitedNext]_<<vars, limitVars>>
    PROVE  [Next]_vars
<1>1. CASE PutLimits
  BY <1>1 DEF PutLimits
<1>2. ASSUME NEW u \in Uploads, ReceiveBody(u) \/ ValidateUpload(u) \/ ReadLimits(u)
      PROVE  ReceiveFile(u) \/ UNCHANGED vars
  BY <1>2 DEF ReceiveBody, ValidateUpload, ReadLimits, Refuse
<1>3. ASSUME NEW u \in Uploads, LimitedParse(u)
      PROVE  Parse(u)
  BY <1>3 DEF LimitedParse
<1>4. CASE UNCHANGED <<vars, limitVars>>
  BY <1>4
<1> QED
  BY <1>1, <1>2, <1>3, <1>4 DEF LimitedNext, Next, UploadStep

LEMMA ListedIsLimited ==
    ASSUME [ListedNext]_listedVars
    PROVE  [LimitedNext]_<<vars, limitVars>>
BY DEF ListedNext, listedVars

\* HandleUpload reads the limits in three places, and yet what it does is what
\* module Upload says: every theorem of Upload holds of it.
THEOREM LimitedIsUpload == LimitedSpec => Spec
<1>1. LimitedInit => Init
  BY DEF LimitedInit
<1> QED
  BY <1>1, LimitedIsNext, PTL DEF LimitedSpec, Spec

\* The clients that list the batches change nothing that uploads see.
THEOREM ListedIsUpload == ListedSpec => LimitedSpec
<1>1. ListedInit => LimitedInit
  BY DEF ListedInit
<1> QED
  BY <1>1, ListedIsLimited, PTL DEF ListedSpec, LimitedSpec

---------------------------------------------------------------------------
(***************************************************************************)
(* The limits that a file was checked against                              *)
(***************************************************************************)

LaterStep(u) ==
    \/ Create(u) \/ ValidateRow(u) \/ EndRows(u) \/ StoreFile(u)
    \/ UpdateCounts(u) \/ LoadRow(u) \/ QuoteUnits(u) \/ SaveRow(u) \/ Answer(u)
    \/ CrashUpload(u) \/ CancelLoad(u) \/ CancelSave(u)

\* A step after the parser makes no request parse a file, and none that parses one
\* create a batch.
LEMMA LaterSteps ==
    ASSUME TypeOK, NEW u \in Uploads, LaterStep(u), NEW v \in Uploads
    PROVE  /\ upl'[v].pc = "parse" => upl[v].pc = "parse"
           /\ upl[v].pc = "parse" => upl'[v].pc # "create"
<1> USE DEF TypeOK, UploadState, UploadGoto
<1>1. CASE Create(u)
  BY <1>1 DEF Create
<1>2. CASE ValidateRow(u)
  BY <1>2 DEF ValidateRow
<1>3. CASE EndRows(u)
  BY <1>3 DEF EndRows
<1>4. CASE StoreFile(u)
  BY <1>4 DEF StoreFile
<1>5. CASE UpdateCounts(u)
  BY <1>5 DEF UpdateCounts
<1>6. CASE LoadRow(u)
  BY <1>6 DEF LoadRow
<1>7. CASE QuoteUnits(u)
  BY <1>7 DEF QuoteUnits
<1>8. CASE SaveRow(u)
  BY <1>8 DEF SaveRow
<1>9. CASE Answer(u)
  BY <1>9, ZenonT(60) DEF Answer
<1>10. CASE CrashUpload(u)
  BY <1>10 DEF CrashUpload
<1>11. CASE CancelLoad(u) \/ CancelSave(u)
  BY <1>11 DEF CancelLoad, CancelSave
<1> QED
  BY <1>1, <1>2, <1>3, <1>4, <1>5, <1>6, <1>7, <1>8, <1>9, <1>10, <1>11 DEF LaterStep

\* What is forgotten of a file that was refused or parsed.
LEMMA OverStep ==
    ASSUME LimitsTypeOK, NEW u \in Uploads, Over(u)
    PROVE  /\ intake' \in [Uploads -> IntakeState] /\ intake'[u].stage = "over"
           /\ \A v \in Uploads \ {u} : intake'[v] = intake[v]
<1>1. [IntakeFresh EXCEPT !.stage = "over"] \in IntakeState
  BY DEF IntakeFresh, IntakeState
<1> QED
  BY <1>1 DEF Over, LimitsTypeOK, IntakeFresh

LEMMA LimitsInvStep ==
    ASSUME TypeOK, LimitsInv, [LimitedNext]_<<vars, limitVars>>
    PROVE  LimitsInv'
<1> USE DEF LimitsInv, LimitsTypeOK
\* A request that neither comes to be parsed nor changes its stage.
<1>1. ASSUME NEW v \in Uploads, limits' = limits, intake'[v] = intake[v],
             upl'[v].pc = "parse" => upl[v].pc = "parse"
      PROVE  /\ upl'[v].pc = "parse" => intake'[v].stage = "read"
             /\ intake'[v].stage \in {"body", "checked"} => limits' \in intake'[v].inForce
             /\ intake'[v].stage = "read" =>
                   \E l \in intake'[v].inForce : intake'[v].read = {l} /\ intake'[v].size <= l.size
  BY <1>1 DEF IntakeInv
<1>2. CASE PutLimits
  <2>1. /\ limits' \in Configurations /\ UNCHANGED vars /\ env' = env
        /\ \A u \in Uploads : [intake[u] EXCEPT !.inForce = @ \cup {limits'}] \in IntakeState
    BY <1>2 DEF PutLimits, IntakeState
  <2>2. intake' \in [Uploads -> IntakeState]
    BY <1>2, <2>1 DEF PutLimits
  <2>3. ASSUME NEW u \in Uploads
        PROVE  /\ intake'[u].stage = intake[u].stage /\ intake'[u].size = intake[u].size
               /\ intake'[u].read = intake[u].read /\ intake[u].inForce \subseteq intake'[u].inForce
               /\ intake[u].stage \in {"body", "checked"} => limits' \in intake'[u].inForce
    BY <1>2, <2>1 DEF PutLimits, IntakeState
  <2> QED
    BY <2>1, <2>2, <2>3 DEF IntakeInv, vars
<1>3. ASSUME NEW u \in Uploads, Refuse(u), limits' = limits, env' = env
      PROVE  LimitsInv'
  <2>1. upl'[u].pc = "refused" /\ \A v \in Uploads \ {u} : upl'[v] = upl[v]
    BY <1>3 DEF Refuse, ReceiveFile, UploadGoto, TypeOK, UploadState
  <2> QED
    BY <1>1, <1>3, <2>1, OverStep DEF Refuse, IntakeInv
<1>4. ASSUME NEW u \in Uploads, ReceiveBody(u)
      PROVE  LimitsInv'
  <2>1. CASE Refuse(u)
    BY <1>3, <1>4, <2>1 DEF ReceiveBody
  <2>2. CASE ~Refuse(u)
    <3>1. PICK size \in Sizes :
             /\ intake' = [intake EXCEPT ![u].stage = "body", ![u].size = size,
                                         ![u].inForce = {limits}]
             /\ UNCHANGED vars
      BY <1>4, <2>2 DEF ReceiveBody
    <3>2. [intake[u] EXCEPT !.stage = "body", !.size = size, !.inForce = {limits}] \in IntakeState
      BY LimitsAssumption DEF IntakeState
    <3>3. /\ intake' \in [Uploads -> IntakeState]
          /\ \A v \in Uploads \ {u} : intake'[v] = intake[v]
          /\ intake'[u].stage = "body" /\ intake'[u].inForce = {limits}
      BY <3>1, <3>2 DEF IntakeState
    <3>4. limits' = limits /\ env' = env /\ upl' = upl /\ upl[u].pc = "idle"
      BY <1>4, <3>1 DEF ReceiveBody, vars
    <3> QED
      BY <1>1, <3>3, <3>4 DEF IntakeInv
  <2> QED
    BY <2>1, <2>2
<1>5. ASSUME NEW u \in Uploads, ValidateUpload(u)
      PROVE  LimitsInv'
  <2>1. CASE Refuse(u)
    BY <1>3, <1>5, <2>1 DEF ValidateUpload
  <2>2. CASE ~Refuse(u)
    <3>1. intake' = [intake EXCEPT ![u].stage = "checked"] /\ UNCHANGED vars
      BY <1>5, <2>2 DEF ValidateUpload
    <3>2. [intake[u] EXCEPT !.stage = "checked"] \in IntakeState
      BY DEF IntakeState
    <3>3. /\ intake' \in [Uploads -> IntakeState]
          /\ \A v \in Uploads \ {u} : intake'[v] = intake[v]
          /\ intake'[u].stage = "checked" /\ intake'[u].inForce = intake[u].inForce
      BY <3>1, <3>2 DEF IntakeState
    <3>4. limits' = limits /\ env' = env /\ upl' = upl /\ upl[u].pc = "idle" /\ intake[u].stage = "body"
      BY <1>5, <3>1 DEF ValidateUpload, vars
    <3> QED
      BY <1>1, <3>3, <3>4 DEF IntakeInv
  <2> QED
    BY <2>1, <2>2
<1>6. ASSUME NEW u \in Uploads, ReadLimits(u)
      PROVE  LimitsInv'
  <2>1. CASE intake[u].size > limits.size
    BY <1>3, <1>6, <2>1 DEF ReadLimits
  <2>2. CASE ~(intake[u].size > limits.size)
    <3>1. /\ ReceiveFile(u) /\ upl'[u].pc = "parse" /\ limits' = limits /\ env' = env
          /\ intake' = [intake EXCEPT ![u].stage = "read", ![u].read = {limits}]
          /\ intake[u].stage = "checked"
      BY <1>6, <2>2 DEF ReadLimits
    <3>2. [intake[u] EXCEPT !.stage = "read", !.read = {limits}] \in IntakeState
      BY DEF IntakeState
    <3>3. /\ intake' \in [Uploads -> IntakeState]
          /\ \A v \in Uploads \ {u} : intake'[v] = intake[v]
          /\ intake'[u].stage = "read" /\ intake'[u].inForce = intake[u].inForce
          /\ intake'[u].read = {limits} /\ intake'[u].size = intake[u].size
      BY <3>1, <3>2 DEF IntakeState
    <3>4. \A v \in Uploads \ {u} : upl'[v] = upl[v]
      BY <3>1 DEF ReceiveFile, UploadGoto, TypeOK
    <3>5. limits \in intake[u].inForce /\ intake[u].size <= limits.size
      BY <2>2, <3>1, LimitsAssumption DEF IntakeInv, IntakeState
    <3> QED
      BY <1>1, <3>1, <3>3, <3>4, <3>5 DEF IntakeInv
  <2> QED
    BY <2>1, <2>2
<1>7. ASSUME NEW u \in Uploads, LimitedParse(u)
      PROVE  LimitsInv'
  <2>1. upl'[u].pc # "parse" /\ \A v \in Uploads \ {u} : upl'[v] = upl[v]
    BY <1>7 DEF LimitedParse, Parse, UploadGoto, TypeOK, UploadState
  <2> QED
    BY <1>1, <1>7, <2>1, OverStep DEF LimitedParse, IntakeInv
<1>8. ASSUME NEW u \in Uploads, LaterStep(u), UNCHANGED limitVars
      PROVE  LimitsInv'
  BY <1>1, <1>8, LaterSteps DEF limitVars, IntakeInv
<1>9. CASE UNCHANGED <<vars, limitVars>>
  BY <1>1, <1>9 DEF vars, limitVars, IntakeInv
<1> QED
  BY <1>2, <1>4, <1>5, <1>6, <1>7, <1>8, <1>9 DEF LimitedNext, LaterStep

LEMMA LimitsInvAlways == LimitedSpec => [](TypeOK /\ LimitsInv)
<1>1. LimitedInit => LimitsInv
  BY DEF LimitedInit, LimitsInit, Init, LimitsInv, LimitsTypeOK, IntakeInv, IntakeFresh,
     IntakeState, UploadFresh
<1>2. TypeOK /\ LimitsInv /\ [LimitedNext]_<<vars, limitVars>> => LimitsInv'
  BY LimitsInvStep
<1>3. LimitedSpec => []TypeOK
  BY LimitedIsUpload, UploadTypes, PTL
<1> QED
  BY <1>1, <1>2, <1>3, PTL DEF LimitedSpec

\* A step in which a file is taken.
FileFits ==
    \A u \in Uploads :
        upl[u].pc = "parse" /\ upl'[u].pc = "create" =>
            \E l \in intake[u].inForce : Fits(intake[u].size, upl'[u].total, l)

LEMMA FileFitsStep ==
    ASSUME TypeOK, LimitsInv, [LimitedNext]_<<vars, limitVars>>
    PROVE  FileFits
<1> SUFFICES ASSUME NEW v \in Uploads, upl[v].pc = "parse", upl'[v].pc = "create"
             PROVE  \E l \in intake[v].inForce : Fits(intake[v].size, upl'[v].total, l)
  BY DEF FileFits
<1>1. CASE LimitedParse(v)
  <2>1. /\ Under(intake[v].size, env.size)
        /\ \A l \in intake[v].read : RowsFit(upl'[v].total, l)
    BY <1>1 DEF LimitedParse
  <2>2. PICK l \in intake[v].inForce : intake[v].read = {l} /\ intake[v].size <= l.size
    BY DEF LimitsInv, IntakeInv
  <2> QED
    BY <2>1, <2>2 DEF Fits, SizeFits
<1>2. ASSUME NEW u \in Uploads, ReceiveBody(u) \/ ValidateUpload(u) \/ ReadLimits(u)
      PROVE  FALSE
  BY <1>2 DEF ReceiveBody, ValidateUpload, ReadLimits, Refuse, ReceiveFile, UploadGoto, vars, TypeOK,
     UploadState
<1>3. ASSUME NEW u \in Uploads, LimitedParse(u), u # v
      PROVE  FALSE
  BY <1>3 DEF LimitedParse, Parse, UploadGoto, TypeOK, UploadState
<1>4. ASSUME NEW u \in Uploads, LaterStep(u)
      PROVE  FALSE
  BY <1>4, LaterSteps
<1>5. CASE PutLimits \/ UNCHANGED <<vars, limitVars>>
  BY <1>5 DEF PutLimits, vars
<1> QED
  BY <1>1, <1>2, <1>3, <1>4, <1>5 DEF LimitedNext, LaterStep

\* The body, the size and the rows of a file are checked at three moments, between
\* which the limits may be replaced; nevertheless a batch is created only if one
\* configuration that was in force meanwhile, as MAX_ROWS_PER_BATCH and
\* MAX_FILE_SIZE_MB override it if they are set, allows both size and rows.
THEOREM FileFitsLimits == LimitedSpec => FitsOneConfiguration
<1>1. TypeOK /\ LimitsInv /\ [LimitedNext]_<<vars, limitVars>> => [FileFits]_<<vars, limitVars>>
  BY FileFitsStep
<1> QED
  BY <1>1, LimitsInvAlways, PTL DEF LimitedSpec, FitsOneConfiguration, FileFits

---------------------------------------------------------------------------
(***************************************************************************)
(* The pages of a list                                                     *)
(***************************************************************************)

\* A step of an upload inserts at most one row.
LEMMA OneInsertion ==
    ASSUME TypeOK, [Next]_vars
    PROVE  Insertions \in {0, 1}
<1> DEFINE new == {u \in Uploads : batches[u] = {} /\ batches'[u] # {}}
<1>1. ASSUME NEW u \in Uploads, \A v \in Uploads \ {u} : batches'[v] = batches[v]
      PROVE  Cardinality(new) \in {0, 1}
  <2>1. new = {} \/ new = {u}
    BY <1>1
  <2> QED
    BY <2>1, FS_EmptySet, FS_Singleton
<1>2. batches' = batches => Cardinality(new) \in {0, 1}
  <2>1. batches' = batches => new = {}
    OBVIOUS
  <2> QED
    BY <2>1, FS_EmptySet
<1> HIDE DEF new
<1>3. ASSUME NEW u \in Uploads, Create(u) \/ UpdateCounts(u) \/ SaveRow(u) \/ CancelSave(u)
      PROVE  \A v \in Uploads \ {u} : batches'[v] = batches[v]
  BY <1>3 DEF Create, UpdateCounts, SaveRow, CancelSave, UpdateBatch, TypeOK
<1>4. ASSUME NEW u \in Uploads,
             \/ ReceiveFile(u) \/ Parse(u) \/ ValidateRow(u) \/ EndRows(u) \/ StoreFile(u)
             \/ LoadRow(u) \/ QuoteUnits(u) \/ Answer(u) \/ CrashUpload(u) \/ CancelLoad(u)
      PROVE  batches' = batches
  BY <1>4 DEF ReceiveFile, Parse, ValidateRow, EndRows, StoreFile, LoadRow, QuoteUnits, Answer,
     CrashUpload, CancelLoad
<1>5. UNCHANGED vars => batches' = batches
  BY DEF vars
<1>6. Cardinality(new) \in {0, 1}
  BY <1>1, <1>2, <1>3, <1>4, <1>5 DEF Next, UploadStep
<1> QED
  BY <1>6 DEF new, Insertions

LEMMA BatchesFinite ==
    ASSUME created \in Nat, NEW S \in SUBSET Batches
    PROVE  IsFiniteSet(S) /\ (Cardinality(S) = 0 <=> S = {})
<1>1. IsFiniteSet(Batches)
  BY FS_Interval DEF Batches
<1>2. IsFiniteSet(S)
  BY <1>1, FS_Subset
<1> QED
  BY <1>2, FS_EmptySet

\* The page at an offset in ascending order.
LEMMA OffsetPage ==
    ASSUME created \in Nat, NEW n \in Nat
    PROVE  \A i : i \in ListWithFilters(FALSE, {}, n) <=> i = n + 1 /\ i <= created
<1>1. \A i \in Batches : {j \in Batches : j < i} = 1 .. i - 1
  BY DEF Batches
<1>2. \A i \in Batches : Cardinality({j \in Batches : j < i}) = i - 1
  <2>1. \A k \in Nat : Cardinality(1 .. k) = k
    BY FS_Interval
  <2>2. \A i \in Batches : i - 1 \in Nat
    BY DEF Batches
  <2> QED
    BY <1>1, <2>1, <2>2
<1>3. ListWithFilters(FALSE, {}, n) =
         {i \in Batches : Cardinality({j \in Batches : j < i}) = n}
  BY DEF ListWithFilters
<1>4. \A i : i \in ListWithFilters(FALSE, {}, n) <=> i \in Batches /\ i - 1 = n
  BY <1>2, <1>3, Zenon
<1>5. \A i : i \in Batches /\ i - 1 = n <=> i = n + 1 /\ i <= created
  BY DEF Batches
<1> QED
  BY <1>4, <1>5, Zenon

\* The page beyond a cursor in ascending order.
LEMMA AscendingPage ==
    ASSUME created \in Nat, NEW c \in Nat
    PROVE  \A i : i \in ListWithFilters(FALSE, {c}, 0) <=> i = c + 1 /\ i <= created
<1>1. ListWithFilters(FALSE, {c}, 0) =
         {i \in {k \in Batches : k > c} : Cardinality({j \in {k \in Batches : k > c} : j < i}) = 0}
  BY DEF ListWithFilters
<1>2. \A i \in {k \in Batches : k > c} :
         Cardinality({j \in {k \in Batches : k > c} : j < i}) = 0 <=> i = c + 1
  <2>1. ASSUME NEW i \in Batches, i > c
        PROVE  {j \in {k \in Batches : k > c} : j < i} = {} <=> i = c + 1
    BY <2>1 DEF Batches
  <2>2. \A i \in {k \in Batches : k > c} :
           Cardinality({j \in {k \in Batches : k > c} : j < i}) = 0
              <=> {j \in {k \in Batches : k > c} : j < i} = {}
    BY BatchesFinite
  <2> QED
    BY <2>1, <2>2
<1>3. \A i : i \in ListWithFilters(FALSE, {c}, 0) <=> i \in Batches /\ i > c /\ i = c + 1
  BY <1>1, <1>2, Zenon
<1>4. \A i : i \in Batches /\ i > c /\ i = c + 1 <=> i = c + 1 /\ i <= created
  BY DEF Batches
<1> QED
  BY <1>3, <1>4, Zenon

\* The page beyond a cursor in descending order, and the first page.
LEMMA DescendingPage ==
    ASSUME created \in Nat, NEW c \in Nat, c <= created + 1
    PROVE  \A i : i \in ListWithFilters(TRUE, {c}, 0) <=> i = c - 1 /\ i >= 1
<1>1. ListWithFilters(TRUE, {c}, 0) =
         {i \in {k \in Batches : k < c} : Cardinality({j \in {k \in Batches : k < c} : j > i}) = 0}
  BY DEF ListWithFilters
<1>2. \A i \in {k \in Batches : k < c} :
         Cardinality({j \in {k \in Batches : k < c} : j > i}) = 0 <=> i = c - 1
  <2>1. ASSUME NEW i \in Batches, i < c
        PROVE  {j \in {k \in Batches : k < c} : j > i} = {} <=> i = c - 1
    <3>1. CASE i = c - 1
      BY <2>1, <3>1 DEF Batches
    <3>2. CASE i # c - 1
      <4>1. i + 1 \in Batches /\ i + 1 < c /\ i + 1 > i
        BY <2>1, <3>2 DEF Batches
      <4> QED
        BY <3>2, <4>1
    <3> QED
      BY <3>1, <3>2
  <2>2. \A i \in {k \in Batches : k < c} :
           Cardinality({j \in {k \in Batches : k < c} : j > i}) = 0
              <=> {j \in {k \in Batches : k < c} : j > i} = {}
    BY BatchesFinite
  <2> QED
    BY <2>1, <2>2
<1>3. \A i : i \in ListWithFilters(TRUE, {c}, 0) <=> i \in Batches /\ i < c /\ i = c - 1
  BY <1>1, <1>2, Zenon
<1>4. \A i : i \in Batches /\ i < c /\ i = c - 1 <=> i = c - 1 /\ i >= 1
  BY DEF Batches
<1> QED
  BY <1>3, <1>4, Zenon

LEMMA FirstPage ==
    ASSUME created \in Nat
    PROVE  /\ \A i : i \in ListWithFilters(FALSE, {}, 0) <=> i = 1 /\ i <= created
           /\ \A i : i \in ListWithFilters(TRUE, {}, 0) <=> i = created /\ i >= 1
<1>1. ListWithFilters(TRUE, {}, 0) =
         {i \in Batches : Cardinality({j \in Batches : j > i}) = 0}
  BY DEF ListWithFilters
<1>2. \A i \in Batches : Cardinality({j \in Batches : j > i}) = 0 <=> i = created
  <2>1. \A i \in Batches : {j \in Batches : j > i} = {} <=> i = created
    BY DEF Batches
  <2>2. \A i \in Batches : Cardinality({j \in Batches : j > i}) = 0 <=> {j \in Batches : j > i} = {}
    BY BatchesFinite
  <2> QED
    BY <2>1, <2>2
<1>3. \A i : i \in ListWithFilters(TRUE, {}, 0) <=> i \in Batches /\ i = created
  BY <1>1, <1>2, Zenon
<1>4. \A i : i \in Batches /\ i = created <=> i = created /\ i >= 1
  BY DEF Batches
<1>5. 0 \in Nat /\ 0 + 1 = 1
  OBVIOUS
<1>6. \A i : i \in ListWithFilters(FALSE, {}, 0) <=> i = 0 + 1 /\ i <= created
  BY <1>5, OffsetPage, Zenon
<1> QED
  BY <1>3, <1>4, <1>5, <1>6, Zenon

\* A step of an upload adds the youngest batch or none.
LEMMA ListGrowStep ==
    ASSUME ListInv, created' \in {created, created + 1}, lister' = lister
    PROVE  ListInv'
<1>1. created \in Nat /\ created' \in Nat /\ created <= created'
  BY DEF ListInv
<1>2. Len(lister.seen) \in Nat /\ \A i \in 1 .. Len(lister.seen) : lister.seen[i] \in Nat
  BY LenProperties, ElementOfSeq DEF ListInv, ListerState
<1>3. AscendingInv'
  BY <1>1, <1>2 DEF ListInv, AscendingInv
<1>4. DescendingInv'
  BY <1>1, <1>2 DEF ListInv, DescendingInv
<1>5. lister'.old \subseteq Batches'
  BY <1>1 DEF ListInv, Batches
<1> QED
  BY <1>1, <1>3, <1>4, <1>5 DEF ListInv

LEMMA StartListStep ==
    ASSUME ListInv, StartList, created' = created
    PROVE  ListInv'
<1>1. PICK mode \in {"page", "cursor"}, desc \in BOOLEAN :
         lister' = [lister EXCEPT !.mode = mode, !.desc = desc, !.old = Batches]
  BY DEF StartList
<1>2. /\ lister'.mode = mode /\ lister'.desc = desc /\ lister'.old = Batches
      /\ lister'.seen = <<>> /\ lister'.done = FALSE /\ lister' \in ListerState
  <2>1. Batches \subseteq Nat /\ lister \in ListerState /\ lister.seen = <<>> /\ lister.done = FALSE
    BY DEF StartList, ListInv, ListerState, Batches
  <2>2. [lister EXCEPT !.mode = mode, !.desc = desc, !.old = Batches] \in ListerState
    BY <2>1 DEF ListerState
  <2> QED
    BY <1>1, <2>1, <2>2 DEF ListerState
<1>3. Len(lister'.seen) = 0 /\ 1 .. 0 = {}
  BY <1>2, EmptySeq
<1>4. AscendingInv' /\ DescendingInv'
  BY <1>2, <1>3 DEF AscendingInv, DescendingInv, ListInv
<1> QED
  BY <1>2, <1>4 DEF ListInv, Batches

\* Which batch the next page shows.
LEMMA NextBatch ==
    ASSUME ListInv, NextPage
    PROVE  \E page \in SUBSET Batches :
              /\ lister' = IF page = {} THEN [lister EXCEPT !.done = TRUE]
                           ELSE [lister EXCEPT !.seen = Append(@, CHOOSE i \in page : TRUE)]
              /\ ~lister.desc => \A i : i \in page <=> i = Len(lister.seen) + 1 /\ i <= created
              /\ lister.desc /\ lister.mode = "cursor" /\ Len(lister.seen) = 0 =>
                    \A i : i \in page <=> i = created /\ i >= 1
              /\ lister.desc /\ lister.mode = "cursor" /\ Len(lister.seen) > 0 =>
                    \A i : i \in page <=> i = lister.seen[Len(lister.seen)] - 1 /\ i >= 1
<1> DEFINE n    == Len(lister.seen)
           last == IF n = 0 THEN {} ELSE {lister.seen[n]}
           page == IF lister.mode = "cursor"
                   THEN ListWithFilters(lister.desc, last, 0)
                   ELSE ListWithFilters(lister.desc, {}, n)
<1>1. lister' = IF page = {} THEN [lister EXCEPT !.done = TRUE]
                ELSE [lister EXCEPT !.seen = Append(@, CHOOSE i \in page : TRUE)]
  BY DEF NextPage
<1>2. page \subseteq Batches
  BY DEF ListWithFilters
<1>3. /\ created \in Nat /\ n \in Nat /\ lister.desc \in BOOLEAN
      /\ \A i \in 1 .. n : lister.seen[i] \in Nat
  BY LenProperties, ElementOfSeq DEF ListInv, ListerState
<1>4. ASSUME lister.desc = FALSE
      PROVE  \A i : i \in page <=> i = n + 1 /\ i <= created
  <2>1. CASE lister.mode # "cursor"
    <3>1. page = ListWithFilters(FALSE, {}, n)
      BY <1>4, <2>1
    <3> HIDE DEF page, n
    <3> QED
      BY <1>3, <3>1, OffsetPage
  <2>2. CASE lister.mode = "cursor" /\ n = 0
    <3>1. page = ListWithFilters(FALSE, {}, 0)
      BY <1>4, <2>2
    <3>2. n + 1 = 1
      BY <2>2
    <3> HIDE DEF page, n
    <3> QED
      BY <1>3, <3>1, <3>2, FirstPage, Zenon
  <2>3. CASE lister.mode = "cursor" /\ n # 0
    <3>1. lister.seen[n] = n
      BY <1>3, <1>4, <2>3 DEF ListInv, AscendingInv
    <3>2. page = ListWithFilters(FALSE, {n}, 0)
      BY <1>4, <2>3, <3>1
    <3> HIDE DEF page, n
    <3> QED
      BY <1>3, <3>2, AscendingPage
  <2> QED
    BY <2>1, <2>2, <2>3
<1>5. ASSUME lister.desc = TRUE, lister.mode = "cursor", n = 0
      PROVE  \A i : i \in page <=> i = created /\ i >= 1
  <2>1. page = ListWithFilters(TRUE, {}, 0)
    BY <1>5
  <2> HIDE DEF page
  <2> QED
    BY <1>3, <2>1, FirstPage
<1>6. ASSUME lister.desc = TRUE, lister.mode = "cursor", n > 0
      PROVE  \A i : i \in page <=> i = lister.seen[n] - 1 /\ i >= 1
  <2>1. page = ListWithFilters(TRUE, {lister.seen[n]}, 0)
    <3>1. n # 0
      BY <1>3, <1>6
    <3> QED
      BY <1>6, <3>1, Zenon
  <2>2. /\ lister.seen[n] = lister.seen[1] + 1 - n /\ lister.seen[1] <= created
        /\ lister.seen[n] \in Nat /\ lister.seen[1] \in Nat
    BY <1>3, <1>6 DEF ListInv, DescendingInv
  <2>3. lister.seen[n] <= created + 1
    BY <1>3, <1>6, <2>2
  <2> HIDE DEF page, n
  <2> QED
    BY <1>3, <2>1, <2>2, <2>3, DescendingPage
<1> HIDE DEF page
<1> QED
  BY <1>1, <1>2, <1>3, <1>4, <1>5, <1>6

LEMMA NextPageStep ==
    ASSUME ListInv, NextPage, created' = created
    PROVE  ListInv'
<1> DEFINE n == Len(lister.seen)
<1>1. PICK page \in SUBSET Batches :
              /\ lister' = IF page = {} THEN [lister EXCEPT !.done = TRUE]
                           ELSE [lister EXCEPT !.seen = Append(@, CHOOSE i \in page : TRUE)]
              /\ ~lister.desc => \A i : i \in page <=> i = n + 1 /\ i <= created
              /\ lister.desc /\ lister.mode = "cursor" /\ n = 0 =>
                    \A i : i \in page <=> i = created /\ i >= 1
              /\ lister.desc /\ lister.mode = "cursor" /\ n > 0 =>
                    \A i : i \in page <=> i = lister.seen[n] - 1 /\ i >= 1
  BY NextBatch
<1>2. /\ created \in Nat /\ n \in Nat /\ lister.desc \in BOOLEAN /\ ~lister.done
      /\ lister.seen \in Seq(Nat) /\ lister.mode # "none"
      /\ \A i \in 1 .. n : lister.seen[i] \in Nat
  BY LenProperties, ElementOfSeq DEF ListInv, ListerState, NextPage
<1>3. Batches' = Batches
  BY DEF Batches
<1>4. CASE page = {}
  <2>1. /\ lister'.mode = lister.mode /\ lister'.desc = lister.desc /\ lister'.seen = lister.seen
        /\ lister'.old = lister.old /\ lister'.done /\ lister' \in ListerState
    BY <1>1, <1>4 DEF ListInv, ListerState
  <2>2. AscendingInv'
    <3>1. ~lister.desc => created <= n
      <4>1. ~lister.desc => ~(n + 1 <= created)
        BY <1>1, <1>4
      <4> QED
        BY <1>2, <4>1
    <3>2. ~lister.desc => lister.old \subseteq 1 .. n
      BY <1>2, <3>1 DEF ListInv, Batches
    <3> QED
      BY <2>1, <3>2 DEF ListInv, AscendingInv
  <2>3. DescendingInv'
    <3>1. CASE lister.desc /\ lister.mode = "cursor" /\ n = 0
      <4>1. ~(created >= 1)
        BY <1>1, <1>4, <3>1
      <4>2. lister.old = {}
        BY <1>2, <4>1 DEF ListInv, Batches
      <4> QED
        BY <2>1, <3>1, <4>2 DEF ListInv, DescendingInv
    <3>2. CASE lister.desc /\ lister.mode = "cursor" /\ n > 0
      <4>1. ~(lister.seen[n] - 1 >= 1)
        BY <1>1, <1>4, <3>2
      <4>2. /\ lister.seen[n] = lister.seen[1] + 1 - n /\ n <= lister.seen[1]
            /\ lister.seen[1] \in Nat
        BY <1>2, <3>2 DEF ListInv, DescendingInv
      <4>3. lister.seen[1] = n /\ n # 0
        BY <1>2, <3>2, <4>1, <4>2
      <4> QED
        BY <2>1, <4>3 DEF ListInv, DescendingInv
    <3> QED
      BY <1>2, <2>1, <3>1, <3>2 DEF DescendingInv
  <2> QED
    BY <1>2, <1>3, <2>1, <2>2, <2>3 DEF ListInv
<1>5. CASE page # {}
  <2>1. PICK i \in page : i = CHOOSE k \in page : TRUE
    BY <1>5
  <2>2. i \in Batches /\ i \in Nat
    BY <1>2 DEF Batches
  <2>3. /\ Append(lister.seen, i) \in Seq(Nat) /\ Len(Append(lister.seen, i)) = n + 1
        /\ \A k \in 1 .. n : Append(lister.seen, i)[k] = lister.seen[k]
        /\ Append(lister.seen, i)[n + 1] = i
    BY <1>2, <2>2, AppendProperties
  <2>4. lister' = [lister EXCEPT !.seen = Append(lister.seen, i)]
    BY <1>1, <1>5, <2>1
  <2>5. /\ lister'.mode = lister.mode /\ lister'.desc = lister.desc
        /\ lister'.seen = Append(lister.seen, i)
        /\ lister'.old = lister.old /\ lister'.done = FALSE /\ lister' \in ListerState
    BY <1>2, <2>3, <2>4 DEF ListInv, ListerState
  <2>6. /\ Len(lister'.seen) = n + 1
        /\ \A k \in 1 .. n : lister'.seen[k] = lister.seen[k]
        /\ lister'.seen[n + 1] = i
    BY <2>3, <2>5
  <2>7. AscendingInv'
    <3>1. ~lister.desc => i = n + 1 /\ i <= created
      BY <1>1
    <3>2. ~lister.desc => \A k \in 1 .. n + 1 : lister'.seen[k] = k
      BY <1>2, <2>6, <3>1, SMTT(40) DEF ListInv, AscendingInv
    <3> QED
      BY <1>2, <2>5, <2>6, <3>1, <3>2 DEF AscendingInv
  <2>8. DescendingInv'
    <3>1. CASE lister.desc /\ lister.mode = "cursor" /\ n = 0
      <4>1. i = created /\ i >= 1
        BY <1>1, <3>1
      <4>2. Len(lister'.seen) = 1 /\ lister'.seen[1] = created
        BY <2>6, <3>1, <4>1
      <4>3. lister'.old \subseteq 1 .. created
        BY <2>5 DEF ListInv, Batches
      <4> QED
        BY <1>2, <2>5, <4>1, <4>2, <4>3 DEF DescendingInv
    <3>2. CASE lister.desc /\ lister.mode = "cursor" /\ n > 0
      <4>1. i = lister.seen[n] - 1 /\ i >= 1
        BY <1>1, <3>2
      <4>2. /\ \A k \in 1 .. n : lister.seen[k] = lister.seen[1] + 1 - k
            /\ lister.seen[1] \in Nat /\ lister.seen[1] <= created
            /\ lister.old \subseteq 1 .. lister.seen[1]
        BY <1>2, <3>2 DEF ListInv, DescendingInv
      <4>3. i = lister.seen[1] + 1 - (n + 1) /\ n + 1 <= lister.seen[1]
        <5>1. n \in 1 .. n
          BY <1>2, <3>2
        <5>2. lister.seen[n] = lister.seen[1] + 1 - n
          BY <4>2, <5>1
        <5> HIDE DEF n
        <5> QED
          BY <1>2, <4>1, <4>2, <5>2
      <4>4. lister'.seen[1] = lister.seen[1]
        BY <1>2, <2>6, <3>2
      <4>5. \A k \in 1 .. n + 1 : lister'.seen[k] = lister'.seen[1] + 1 - k
        <5>1. \A k \in 1 .. n : lister'.seen[k] = lister'.seen[1] + 1 - k
          BY <2>6, <4>2, <4>4
        <5>2. lister'.seen[n + 1] = lister'.seen[1] + 1 - (n + 1)
          BY <2>6, <4>3, <4>4
        <5>3. \A k \in 1 .. n + 1 : k \in 1 .. n \/ k = n + 1
          BY <1>2
        <5> QED
          BY <5>1, <5>2, <5>3
      <4> QED
        BY <2>5, <2>6, <4>2, <4>3, <4>4, <4>5 DEF DescendingInv
    <3> QED
      BY <1>2, <2>5, <3>1, <3>2 DEF DescendingInv
  <2> QED
    BY <1>2, <1>3, <2>5, <2>7, <2>8 DEF ListInv
<1> QED
  BY <1>4, <1>5

---------------------------------------------------------------------------
(***************************************************************************)
(* What holds of every behaviour                                           *)
(***************************************************************************)

LEMMA ListInvStep ==
    ASSUME TypeOK, ListInv, [ListedNext]_listedVars
    PROVE  ListInv'
<1>1. CASE LimitedNext /\ created' = created + Insertions /\ UNCHANGED lister
  <2>1. Insertions \in {0, 1}
    BY <1>1, LimitedIsNext, OneInsertion
  <2>2. created' \in {created, created + 1}
    BY <1>1, <2>1 DEF ListInv
  <2> QED
    BY <1>1, <2>2, ListGrowStep
<1>2. CASE UNCHANGED listedVars
  BY <1>2, ListGrowStep DEF listedVars, listVars
<1> QED
  BY <1>1, <1>2, StartListStep, NextPageStep DEF ListedNext

LEMMA ListInvAlways == ListedSpec => [](TypeOK /\ LimitsInv /\ ListInv)
<1>1. ListedInit => ListInv
  <2>1. Len(<<>>) = 0 /\ <<>> \in Seq(Nat) /\ 1 .. 0 = {}
    BY EmptySeq
  <2> QED
    BY <2>1, OlderAssumption DEF ListedInit, ListInit, ListInv, ListerState, AscendingInv,
       DescendingInv, Batches
<1>2. TypeOK /\ ListInv /\ [ListedNext]_listedVars => ListInv'
  BY ListInvStep
<1>3. ListedSpec => [](TypeOK /\ LimitsInv)
  BY ListedIsUpload, LimitsInvAlways, PTL
<1> QED
  BY <1>1, <1>2, <1>3, PTL DEF ListedSpec

\* The limits, the requests that they are checked for and the lists have their
\* types; in particular the limits are always those of one configuration.
THEOREM ListTypes == ListedSpec => []ListTypeOK
<1>1. LimitsInv /\ ListInv => ListTypeOK
  BY DEF LimitsInv, ListInv, ListTypeOK
<1> QED
  BY <1>1, ListInvAlways, PTL

\* GET /batches by cursor, or by page number in ascending order, shows each batch
\* once however many are added meanwhile, and misses none that was there.
THEOREM PagesOnce == ListedSpec => []PagedOnce
<1>1. ASSUME ListInv PROVE PagedOnce
  <2>1. /\ DOMAIN lister.seen = 1 .. Len(lister.seen) /\ Len(lister.seen) \in Nat
        /\ lister.desc \in BOOLEAN
        /\ \A i \in 1 .. Len(lister.seen) : lister.seen[i] \in Nat
    BY <1>1, LenProperties, ElementOfSeq DEF ListInv, ListerState
  <2>2. CASE ~lister.desc
    BY <1>1, <2>1, <2>2 DEF ListInv, AscendingInv, PagedOnce
  <2>3. CASE lister.desc /\ lister.mode = "cursor"
    <3>1. \A i \in 1 .. Len(lister.seen) : lister.seen[i] = lister.seen[1] + 1 - i
      BY <1>1, <2>3 DEF ListInv, DescendingInv
    <3>2. \A i, j \in 1 .. Len(lister.seen) : lister.seen[i] = lister.seen[j] => i = j
      BY <2>1, <3>1, SMTT(40)
    <3>3. ASSUME lister.done, NEW b \in lister.old
          PROVE  \E i \in 1 .. Len(lister.seen) : lister.seen[i] = b
      <4>1. Len(lister.seen) # 0 /\ lister.seen[1] = Len(lister.seen) /\ b \in 1 .. Len(lister.seen)
        BY <1>1, <2>1, <2>3, <3>3 DEF ListInv, DescendingInv
      <4>2. Len(lister.seen) + 1 - b \in 1 .. Len(lister.seen)
        BY <2>1, <4>1
      <4>3. lister.seen[Len(lister.seen) + 1 - b] = b
        BY <2>1, <3>1, <4>1, <4>2, SMTT(40)
      <4> QED
        BY <4>2, <4>3
    <3> QED
      BY <2>1, <3>2, <3>3 DEF PagedOnce
  <2>4. CASE lister.desc /\ lister.mode # "cursor"
    BY <2>4 DEF PagedOnce
  <2> QED
    BY <2>1, <2>2, <2>3, <2>4
<1> QED
  BY <1>1, ListInvAlways, PTL

\* What was proved of uploads holds of those of a pod whose limits change and whose
\* batches are listed meanwhile.
THEOREM ListedUploads ==
    ListedSpec => [](FinalizedRowIsExact /\ ApprovedIsQuoted /\ AnswerAgrees /\ AcceptedIsComplete)
BY ListedIsUpload, LimitedIsUpload, FinalizedExact, ApprovedQuoted, AnswersAgree, AcceptedComplete, PTL

\* Neither a limit that changes nor a client that lists keeps an upload from its end.
THEOREM ListedUploadsEnd == ListedSpec => []UploadBounded /\ UploadCloser
BY ListedIsUpload, LimitedIsUpload, UploadEnds, PTL

---------------------------------------------------------------------------
(***************************************************************************)
(* The rows of a file                                                      *)
(***************************************************************************)

\* A set of numbers has a least element, and one of the numbers 1 .. n a greatest.
LEMMA LeastNumber ==
    ASSUME NEW S \in SUBSET Nat, S # {}
    PROVE  \E x \in S : \A y \in S : x <= y
<1>1. PICK x \in S : \A y \in S : ~(<<y, x>> \in OpToRel(<, Nat))
  BY NatLessThanWellFounded, WFMin, Zenon
<1>2. \A y \in S : ~(y < x)
  BY <1>1 DEF OpToRel
<1> QED
  BY <1>2

LEMMA FunctionIsSeq ==
    ASSUME NEW T, NEW n \in Nat, NEW s \in [1 .. n -> T]
    PROVE  s \in Seq(T) /\ Len(s) = n
<1>1. s \in Seq(T)
  BY SeqDef
<1>2. DOMAIN s = 1 .. Len(s) /\ Len(s) \in Nat
  BY <1>1, LenProperties
<1> QED
  BY <1>1, <1>2

LEMMA GreatestNumber ==
    ASSUME NEW n \in Nat, NEW S \in SUBSET (1 .. n), S # {}
    PROVE  \E x \in S : \A y \in S : y <= x
<1> DEFINE D == {n - y : y \in S}
<1>1. D \in SUBSET Nat /\ D # {}
  <2>1. PICK s \in S : n - s \in D
    OBVIOUS
  <2>2. \A y \in S : n - y \in Nat
    OBVIOUS
  <2> QED
    BY <2>1, <2>2
<1>2. PICK d \in D : \A e \in D : d <= e
  <2> HIDE DEF D
  <2> QED
    BY <1>1, LeastNumber
<1>3. PICK x \in S : d = n - x
  OBVIOUS
<1>4. ASSUME NEW y \in S PROVE y <= x
  <2>1. n - y \in D
    OBVIOUS
  <2>2. n - x <= n - y
    BY <1>2, <1>3, <2>1
  <2> QED
    BY <2>2
<1> QED
  BY <1>4

\* Induction for a set of numbers; what an induction is about is given as the set
\* of numbers that have it.
LEMMA SetInduction ==
    ASSUME NEW S, 0 \in S, \A n \in Nat : n \in S => n + 1 \in S
    PROVE  \A n \in Nat : n \in S
<1> SUFFICES ASSUME ~(\A n \in Nat : n \in S) PROVE FALSE
  OBVIOUS
<1> DEFINE R == {n \in Nat : n \notin S}
<1>1. R \in SUBSET Nat /\ R # {}
  OBVIOUS
<1>2. PICK x \in R : \A y \in R : x <= y
  <2> HIDE DEF R
  <2> QED
    BY <1>1, LeastNumber
<1>3. x # 0 /\ x \in Nat
  OBVIOUS
<1>4. x - 1 \in Nat /\ x - 1 \notin R
  BY <1>2, <1>3
<1> QED
  BY <1>3, <1>4

\* Trim keeps the beginning of a row, and what it drops is empty.
IsTrimmed(t, seq, empty) ==
    /\ Len(t) <= Len(seq)
    /\ \A i \in 1 .. Len(t) : t[i] = seq[i]
    /\ \A i \in 1 .. Len(seq) : i > Len(t) => seq[i] = empty

LEMMA TrimKeepsBeginning ==
    ASSUME NEW T, NEW seq \in Seq(T), NEW empty
    PROVE  Trim(seq, empty) \in Seq(T) /\ IsTrimmed(Trim(seq, empty), seq, empty)
<1> DEFINE kept == {i \in DOMAIN seq : seq[i] # empty}
<1>1. DOMAIN seq = 1 .. Len(seq) /\ Len(seq) \in Nat
  BY LenProperties
<1>2. CASE kept = {}
  <2>1. Trim(seq, empty) = <<>>
    BY <1>2 DEF Trim
  <2>2. <<>> \in Seq(T) /\ Len(<<>>) = 0 /\ 1 .. 0 = {}
    BY EmptySeq
  <2>3. \A i \in 1 .. Len(seq) : seq[i] = empty
    BY <1>1, <1>2
  <2> QED
    BY <1>1, <2>1, <2>2, <2>3 DEF IsTrimmed
<1>3. CASE kept # {}
  <2> DEFINE last == CHOOSE i \in kept : \A j \in kept : j <= i
  <2>1. kept \in SUBSET (1 .. Len(seq))
    BY <1>1
  <2>2. \E i \in kept : \A j \in kept : j <= i
    <3> HIDE DEF kept
    <3> QED
      BY <1>1, <1>3, <2>1, GreatestNumber
  <2>3. last \in kept /\ \A j \in kept : j <= last
    <3> HIDE DEF kept
    <3> QED
      BY <2>2, Zenon
  <2>4. Trim(seq, empty) = SubSeq(seq, 1, last)
    BY <1>3, Zenon DEF Trim
  <2> HIDE DEF last
  <2>5. last \in 1 .. Len(seq)
    BY <2>1, <2>3
  <2>6. /\ SubSeq(seq, 1, last) \in Seq(T) /\ Len(SubSeq(seq, 1, last)) = last
        /\ \A i \in 1 .. last : SubSeq(seq, 1, last)[i] = seq[i]
    BY <1>1, <2>5, SMT
  <2>7. \A i \in 1 .. Len(seq) : i > last => seq[i] = empty
    BY <1>1, <2>3, <2>5
  <2> QED
    BY <1>1, <2>4, <2>5, <2>6, <2>7 DEF IsTrimmed
<1> QED
  BY <1>2, <1>3

---------------------------------------------------------------------------
\* What the columns up to the n-th say of the row: the cell of the last column of
\* each field that they have and the row reaches.
ColumnsTo(headers, row, n, f) == {i \in Columns(headers, row, f) : i <= n}

SaysOf(headers, row, n, data) ==
    /\ DOMAIN data = {f \in Fields : ColumnsTo(headers, row, n, f) # {}}
    /\ \A f \in DOMAIN data : \E i \in ColumnsTo(headers, row, n, f) :
           (\A j \in ColumnsTo(headers, row, n, f) : j <= i) /\ data[f] = TrimSpace(row[i])

\* The recursion of ParseRow.
ParsedTo(headers, row, n, data) ==
    data = [i \in 0 .. n |-> IF i = 0 THEN NoData ELSE AddColumn(headers, row, data[i - 1], i)]

LEMMA ParsedToStep ==
    ASSUME NEW headers, NEW row, NEW n \in Nat, NEW data, ParsedTo(headers, row, n, data)
    PROVE  ParsedTo(headers, row, n + 1,
               [i \in 0 .. n + 1 |-> IF i <= n THEN data[i]
                                     ELSE AddColumn(headers, row, data[n], n + 1)])
<1> DEFINE more == [i \in 0 .. n + 1 |-> IF i <= n THEN data[i]
                                         ELSE AddColumn(headers, row, data[n], n + 1)]
<1>1. \A i \in 0 .. n :
          data[i] = IF i = 0 THEN NoData ELSE AddColumn(headers, row, data[i - 1], i)
  BY Zenon DEF ParsedTo
<1>2. ASSUME NEW i \in 0 .. n + 1
      PROVE  more[i] = IF i = 0 THEN NoData ELSE AddColumn(headers, row, more[i - 1], i)
  <2>1. CASE i = 0
    BY <1>1, <2>1
  <2>2. CASE i # 0 /\ i <= n
    <3>1. more[i] = data[i] /\ more[i - 1] = data[i - 1]
      BY <2>2
    <3> QED
      BY <1>1, <2>2, <3>1
  <2>3. CASE i = n + 1
    <3>1. more[i] = AddColumn(headers, row, data[n], n + 1) /\ more[i - 1] = data[n] /\ i # 0
      BY <2>3
    <3> QED
      BY <2>3, <3>1
  <2> QED
    BY <2>1, <2>2, <2>3
<1>3. more = [i \in 0 .. n + 1 |-> IF i = 0 THEN NoData ELSE AddColumn(headers, row, more[i - 1], i)]
  <2>1. more = [i \in 0 .. n + 1 |-> more[i]]
    OBVIOUS
  <2> HIDE DEF more
  <2> QED
    BY <1>2, <2>1
<1> QED
  BY <1>3 DEF ParsedTo

LEMMA ParsedToExists ==
    ASSUME NEW headers, NEW row
    PROVE  \A n \in Nat : \E data : ParsedTo(headers, row, n, data)
<1> DEFINE S == {n \in Nat : \E data : ParsedTo(headers, row, n, data)}
<1>1. 0 \in S
  <2>1. ParsedTo(headers, row, 0, [i \in 0 .. 0 |-> NoData])
    BY DEF ParsedTo
  <2> QED
    BY <2>1
<1>2. ASSUME NEW n \in Nat, n \in S PROVE n + 1 \in S
  <2>1. PICK data : ParsedTo(headers, row, n, data)
    BY <1>2
  <2>2. \E more : ParsedTo(headers, row, n + 1, more)
    BY <2>1, ParsedToStep
  <2> QED
    BY <2>2
<1>3. \A n \in Nat : n \in S
  <2> HIDE DEF S
  <2> QED
    BY <1>1, <1>2, SetInduction
<1> QED
  BY <1>3

LEMMA ParseRowRecursion ==
    ASSUME NEW headers, NEW row, Len(headers) \in Nat
    PROVE  \E data : /\ ParsedTo(headers, row, Len(headers), data)
                     /\ ParseRow(headers, row) = data[Len(headers)]
<1> DEFINE data == CHOOSE d : ParsedTo(headers, row, Len(headers), d)
<1>1. \E d : ParsedTo(headers, row, Len(headers), d)
  BY ParsedToExists
<1>2. ParsedTo(headers, row, Len(headers), data)
  BY <1>1, Zenon
<1>3. ParseRow(headers, row) = data[Len(headers)]
  BY Zenon DEF ParseRow, ParsedTo
<1> QED
  BY <1>2, <1>3, Zenon

LEMMA AddColumnSays ==
    ASSUME NEW T, NEW headers \in Seq(T), NEW row \in Seq(T), NEW n \in Nat,
           n + 1 <= Len(headers), NEW data, SaysOf(headers, row, n, data)
    PROVE  SaysOf(headers, row, n + 1, AddColumn(headers, row, data, n + 1))
<1> DEFINE found == IF n + 1 <= Len(row) THEN DetectColumns(headers[n + 1]) ELSE {}
           more  == AddColumn(headers, row, data, n + 1)
<1>1. /\ DOMAIN headers = 1 .. Len(headers) /\ Len(headers) \in Nat
      /\ DOMAIN row = 1 .. Len(row) /\ Len(row) \in Nat
  BY LenProperties
<1>2. more = [f \in DOMAIN data \cup found |->
                 IF f \in found THEN TrimSpace(row[n + 1]) ELSE data[f]]
  BY DEF AddColumn
<1>3. found \subseteq Fields
  BY DEF DetectColumns
<1>4. \A f \in Fields : n + 1 \in Columns(headers, row, f) <=> f \in found
  BY <1>1 DEF Columns
<1>5. \A f \in Fields : Columns(headers, row, f) \subseteq Nat
  BY <1>1 DEF Columns
<1> HIDE DEF found, more
<1>6. \A f \in Fields : ColumnsTo(headers, row, n + 1, f)
          = ColumnsTo(headers, row, n, f) \cup (IF f \in found THEN {n + 1} ELSE {})
  BY <1>4, <1>5 DEF ColumnsTo
<1>7. DOMAIN data = {f \in Fields : ColumnsTo(headers, row, n, f) # {}}
  BY DEF SaysOf
<1>8. DOMAIN more = {f \in Fields : ColumnsTo(headers, row, n + 1, f) # {}}
  BY <1>2, <1>3, <1>6, <1>7
<1>9. ASSUME NEW f \in DOMAIN more
      PROVE  \E i \in ColumnsTo(headers, row, n + 1, f) :
                 /\ \A j \in ColumnsTo(headers, row, n + 1, f) : j <= i
                 /\ more[f] = TrimSpace(row[i])
  <2>1. f \in Fields
    BY <1>8
  <2>2. \A j \in ColumnsTo(headers, row, n, f) : j \in Nat /\ j <= n
    BY <1>5, <2>1 DEF ColumnsTo
  <2>3. CASE f \in found
    <3>1. n + 1 \in ColumnsTo(headers, row, n + 1, f) /\ more[f] = TrimSpace(row[n + 1])
      BY <1>2, <1>6, <2>1, <2>3
    <3>2. \A j \in ColumnsTo(headers, row, n + 1, f) : j <= n + 1
      BY <1>6, <2>1, <2>2
    <3> QED
      BY <3>1, <3>2
  <2>4. CASE f \notin found
    <3>1. f \in DOMAIN data /\ more[f] = data[f]
      BY <1>2, <2>4
    <3>2. ColumnsTo(headers, row, n + 1, f) = ColumnsTo(headers, row, n, f)
      BY <1>6, <2>1, <2>4
    <3> QED
      BY <3>1, <3>2 DEF SaysOf
  <2> QED
    BY <2>3, <2>4
<1> QED
  BY <1>8, <1>9 DEF SaysOf, more

\* ParseRow gives each field the last of its columns that the row reaches.
LEMMA ParseRowSays ==
    ASSUME NEW T, NEW headers \in Seq(T), NEW row \in Seq(T)
    PROVE  SaysOf(headers, row, Len(headers), ParseRow(headers, row))
<1>1. Len(headers) \in Nat
  BY LenProperties
<1>2. PICK data : /\ ParsedTo(headers, row, Len(headers), data)
                  /\ ParseRow(headers, row) = data[Len(headers)]
  BY <1>1, ParseRowRecursion
<1>3. \A i \in 0 .. Len(headers) :
          data[i] = IF i = 0 THEN NoData ELSE AddColumn(headers, row, data[i - 1], i)
  BY <1>2, Zenon DEF ParsedTo
<1> DEFINE S == {n \in Nat : n <= Len(headers) => SaysOf(headers, row, n, data[n])}
<1>4. 0 \in S
  <2>1. data[0] = NoData /\ DOMAIN NoData = {}
    BY <1>1, <1>3 DEF NoData
  <2>2. \A f \in Fields : ColumnsTo(headers, row, 0, f) = {}
    <3>1. DOMAIN headers = 1 .. Len(headers)
      BY LenProperties
    <3> QED
      BY <1>1, <3>1 DEF ColumnsTo, Columns
  <2>3. SaysOf(headers, row, 0, data[0])
    BY <2>1, <2>2 DEF SaysOf
  <2> QED
    BY <2>3
<1>5. ASSUME NEW n \in Nat, n \in S PROVE n + 1 \in S
  <2>1. ASSUME n + 1 <= Len(headers) PROVE SaysOf(headers, row, n + 1, data[n + 1])
    <3>1. n + 1 \in 0 .. Len(headers) /\ n + 1 # 0 /\ (n + 1) - 1 = n /\ n <= Len(headers)
      BY <1>1, <2>1
    <3>2. data[n + 1] = AddColumn(headers, row, data[n], n + 1)
      BY <1>3, <3>1
    <3>3. SaysOf(headers, row, n, data[n])
      BY <1>5, <3>1
    <3> QED
      BY <2>1, <3>2, <3>3, AddColumnSays
  <2> QED
    BY <2>1
<1>6. \A n \in Nat : n \in S
  <2> HIDE DEF S
  <2> QED
    BY <1>4, <1>5, SetInduction
<1> QED
  BY <1>1, <1>2, <1>6

\* The same of ParseRow as LastCells says it.
LEMMA LastCellsAreParsed ==
    ASSUME NEW T, NEW headers \in Seq(T), NEW row \in Seq(T), NEW f \in Fields
    PROVE  LastCells(headers, row, f)
               = {ParseRow(headers, row)[g] : g \in {f} \cap DOMAIN ParseRow(headers, row)}
<1> DEFINE data == ParseRow(headers, row)
           columns == Columns(headers, row, f)
           last == {c \in columns : \A d \in columns : d <= c}
<1>1. /\ DOMAIN headers = 1 .. Len(headers) /\ Len(headers) \in Nat
  BY LenProperties
<1>2. columns \subseteq 1 .. Len(headers)
  BY <1>1 DEF Columns
<1>3. ColumnsTo(headers, row, Len(headers), f) = columns
  BY <1>1, <1>2 DEF ColumnsTo
<1>4. SaysOf(headers, row, Len(headers), data)
  BY ParseRowSays
<1>5. LastCells(headers, row, f) = {TrimSpace(row[i]) : i \in last}
  BY DEF LastCells
<1> HIDE DEF columns, data
<1>6. CASE columns = {}
  <2>1. f \notin DOMAIN data
    BY <1>3, <1>4, <1>6 DEF SaysOf
  <2> QED
    BY <1>5, <1>6, <2>1 DEF data
<1>7. CASE columns # {}
  <2>1. f \in DOMAIN data
    BY <1>3, <1>4, <1>7 DEF SaysOf
  <2>2. PICK i \in columns : (\A j \in columns : j <= i) /\ data[f] = TrimSpace(row[i])
    BY <1>3, <1>4, <2>1 DEF SaysOf
  <2>3. last = {i}
    <3>1. \A c \in columns : (\A d \in columns : d <= c) => c = i
      BY <1>2, <2>2
    <3> QED
      BY <2>2, <3>1
  <2>4. {f} \cap DOMAIN data = {f}
    BY <2>1
  <2>5. LastCells(headers, row, f) = {data[f]}
    BY <1>5, <2>2, <2>3
  <2> QED
    BY <2>4, <2>5 DEF data
<1> QED
  BY <1>6, <1>7

---------------------------------------------------------------------------
\* The recursion of Records.
Kept(before, line) == IF line = <<>> THEN before ELSE Append(before, line)

RecordsTo(lines, n, kept) ==
    kept = [i \in 0 .. n |-> IF i = 0 THEN <<>> ELSE Kept(kept[i - 1], lines[i])]

LEMMA RecordsToStep ==
    ASSUME NEW lines, NEW n \in Nat, NEW kept, RecordsTo(lines, n, kept)
    PROVE  RecordsTo(lines, n + 1,
               [i \in 0 .. n + 1 |-> IF i <= n THEN kept[i] ELSE Kept(kept[n], lines[n + 1])])
<1> DEFINE more == [i \in 0 .. n + 1 |-> IF i <= n THEN kept[i] ELSE Kept(kept[n], lines[n + 1])]
<1>1. \A i \in 0 .. n : kept[i] = IF i = 0 THEN <<>> ELSE Kept(kept[i - 1], lines[i])
  BY Zenon DEF RecordsTo
<1>2. ASSUME NEW i \in 0 .. n + 1
      PROVE  more[i] = IF i = 0 THEN <<>> ELSE Kept(more[i - 1], lines[i])
  <2>1. CASE i = 0
    BY <1>1, <2>1
  <2>2. CASE i # 0 /\ i <= n
    <3>1. more[i] = kept[i] /\ more[i - 1] = kept[i - 1]
      BY <2>2
    <3> QED
      BY <1>1, <2>2, <3>1
  <2>3. CASE i = n + 1
    <3>1. more[i] = Kept(kept[n], lines[n + 1]) /\ more[i - 1] = kept[n] /\ i # 0
      BY <2>3
    <3> QED
      BY <2>3, <3>1
  <2> QED
    BY <2>1, <2>2, <2>3
<1>3. more = [i \in 0 .. n + 1 |-> IF i = 0 THEN <<>> ELSE Kept(more[i - 1], lines[i])]
  <2>1. more = [i \in 0 .. n + 1 |-> more[i]]
    OBVIOUS
  <2> HIDE DEF more
  <2> QED
    BY <1>2, <2>1
<1> QED
  BY <1>3 DEF RecordsTo

LEMMA RecordsToExists ==
    ASSUME NEW lines
    PROVE  \A n \in Nat : \E kept : RecordsTo(lines, n, kept)
<1> DEFINE S == {n \in Nat : \E kept : RecordsTo(lines, n, kept)}
<1>1. 0 \in S
  <2>1. RecordsTo(lines, 0, [i \in 0 .. 0 |-> <<>>])
    BY DEF RecordsTo
  <2> QED
    BY <2>1
<1>2. ASSUME NEW n \in Nat, n \in S PROVE n + 1 \in S
  <2>1. PICK kept : RecordsTo(lines, n, kept)
    BY <1>2
  <2>2. \E more : RecordsTo(lines, n + 1, more)
    BY <2>1, RecordsToStep
  <2> QED
    BY <2>2
<1>3. \A n \in Nat : n \in S
  <2> HIDE DEF S
  <2> QED
    BY <1>1, <1>2, SetInduction
<1> QED
  BY <1>3

LEMMA RecordsRecursion ==
    ASSUME NEW lines, Len(lines) \in Nat
    PROVE  \E kept : RecordsTo(lines, Len(lines), kept) /\ Records(lines) = kept[Len(lines)]
<1> DEFINE kept == CHOOSE k : RecordsTo(lines, Len(lines), k)
<1>1. \E k : RecordsTo(lines, Len(lines), k)
  BY RecordsToExists
<1>2. RecordsTo(lines, Len(lines), kept)
  BY <1>1, Zenon
<1>3. Records(lines) = kept[Len(lines)]
  BY Zenon DEF Records, RecordsTo, Kept
<1> QED
  BY <1>2, <1>3, Zenon

\* Of the first n lines of a file whose first is not blank the first is kept, and
\* every one if none is blank.
KeepsLines(file, n, kept) ==
    /\ n > 0 => Len(kept) > 0 /\ kept[1] = file[1]
    /\ (\A k \in 1 .. n : file[k] # <<>>) => Len(kept) = n /\ \A k \in 1 .. n : kept[k] = file[k]

LEMMA RecordsKeepLines ==
    ASSUME NEW T, NEW file \in Seq(Seq(T)), Len(file) > 0, file[1] # <<>>
    PROVE  Records(file) \in Seq(Seq(T)) /\ KeepsLines(file, Len(file), Records(file))
<1>1. Len(file) \in Nat
  BY LenProperties
<1>2. PICK kept : RecordsTo(file, Len(file), kept) /\ Records(file) = kept[Len(file)]
  BY <1>1, RecordsRecursion
<1>3. \A i \in 0 .. Len(file) : kept[i] = IF i = 0 THEN <<>> ELSE Kept(kept[i - 1], file[i])
  BY <1>2, Zenon DEF RecordsTo
<1> DEFINE S == {n \in Nat : n <= Len(file) => kept[n] \in Seq(Seq(T)) /\ KeepsLines(file, n, kept[n])}
<1>4. 0 \in S
  <2>1. kept[0] = <<>>
    BY <1>1, <1>3
  <2>2. <<>> \in Seq(Seq(T)) /\ Len(<<>>) = 0
    BY EmptySeq
  <2>3. KeepsLines(file, 0, <<>>)
    BY <2>2 DEF KeepsLines
  <2> QED
    BY <2>1, <2>2, <2>3
<1>5. ASSUME NEW n \in Nat, n \in S PROVE n + 1 \in S
  <2> SUFFICES ASSUME n + 1 <= Len(file)
               PROVE  kept[n + 1] \in Seq(Seq(T)) /\ KeepsLines(file, n + 1, kept[n + 1])
    OBVIOUS
  <2> DEFINE before == kept[n]
             line   == file[n + 1]
             after  == kept[n + 1]
  <2>1. before \in Seq(Seq(T)) /\ KeepsLines(file, n, before) /\ Len(before) \in Nat
    BY <1>1, <1>5, LenProperties
  <2>2. line \in Seq(T)
    BY <1>1, ElementOfSeq
  <2>3. after = IF line = <<>> THEN before ELSE Append(before, line)
    <3>1. n + 1 \in 0 .. Len(file) /\ n + 1 # 0 /\ (n + 1) - 1 = n
      BY <1>1, SMTT(40)
    <3>2. kept[n + 1] = Kept(kept[n], file[n + 1])
      BY <1>3, <3>1
    <3> QED
      BY <3>2, Zenon DEF Kept
  <2> HIDE DEF before, line, after
  <2>4. CASE line = <<>>
    <3>1. after = before /\ n > 0
      BY <2>3, <2>4 DEF line
    <3>2. ~(\A k \in 1 .. n + 1 : file[k] # <<>>)
      BY <2>4 DEF line
    <3>3. KeepsLines(file, n + 1, after)
      BY <2>1, <3>1, <3>2 DEF KeepsLines
    <3> QED
      BY <2>1, <3>1, <3>3 DEF after
  <2>5. CASE line # <<>>
    <3>1. /\ after \in Seq(Seq(T)) /\ Len(after) = Len(before) + 1
          /\ after[Len(before) + 1] = line
          /\ \A k \in 1 .. Len(before) : after[k] = before[k]
      BY <2>1, <2>2, <2>3, <2>5, AppendProperties
    <3>2. Len(after) > 0 /\ after[1] = file[1]
      <4>1. CASE n > 0
        <5>1. Len(before) > 0 /\ before[1] = file[1]
          BY <2>1, <4>1 DEF KeepsLines
        <5>2. 1 \in 1 .. Len(before)
          BY <2>1, <5>1
        <5> QED
          BY <3>1, <5>1, <5>2
      <4>2. CASE n = 0
        <5>1. Len(before) = 0
          BY <2>1, <4>2 DEF KeepsLines
        <5> QED
          BY <3>1, <4>2, <5>1 DEF line
      <4> QED
        BY <4>1, <4>2
    <3>3. ASSUME \A k \in 1 .. n + 1 : file[k] # <<>>
          PROVE  Len(after) = n + 1 /\ \A k \in 1 .. n + 1 : after[k] = file[k]
      <4>1. Len(before) = n /\ \A k \in 1 .. n : before[k] = file[k]
        BY <2>1, <3>3 DEF KeepsLines
      <4>2. Len(after) = n + 1 /\ after[n + 1] = file[n + 1]
        BY <3>1, <4>1 DEF line
      <4>3. \A k \in 1 .. n : after[k] = file[k]
        BY <3>1, <4>1
      <4>4. \A k \in 1 .. n + 1 : k \in 1 .. n \/ k = n + 1
        OBVIOUS
      <4> QED
        BY <4>2, <4>3, <4>4, Zenon
    <3>4. KeepsLines(file, n + 1, after)
      BY <3>2, <3>3 DEF KeepsLines
    <3> QED
      BY <3>1, <3>4 DEF after
  <2> QED
    BY <2>4, <2>5
<1>6. \A n \in Nat : n \in S
  <2> HIDE DEF S
  <2> QED
    BY <1>4, <1>5, SetInduction
<1> QED
  BY <1>1, <1>2, <1>6

---------------------------------------------------------------------------
\* A file of lines of texts of T; its first line, the header, is not blank.
FilesOf(T) == {file \in Seq(Seq(T)) : Len(file) > 0 /\ file[1] # <<>>}

\* The rows of a workbook are the first of its lines without what is empty at
\* their ends.
AreTrimmedLines(rows, file) ==
    Len(rows) <= Len(file) /\ \A i \in 1 .. Len(rows) : rows[i] = TrimRow(file[i])

LEMMA WorkbookRowsAreLines ==
    ASSUME NEW T, NEW file \in Seq(Seq(T))
    PROVE  WorkbookRows(file) \in Seq(Seq(T)) /\ AreTrimmedLines(WorkbookRows(file), file)
<1> DEFINE lines == [i \in DOMAIN file |-> TrimRow(file[i])]
<1>1. DOMAIN file = 1 .. Len(file) /\ Len(file) \in Nat
  BY LenProperties
<1>2. \A i \in 1 .. Len(file) : TrimRow(file[i]) \in Seq(T)
  <2> SUFFICES ASSUME NEW i \in 1 .. Len(file) PROVE TrimRow(file[i]) \in Seq(T)
    OBVIOUS
  <2>1. file[i] \in Seq(T)
    BY <1>1, ElementOfSeq
  <2> QED
    BY <2>1, TrimKeepsBeginning DEF TrimRow
<1>3. lines \in Seq(Seq(T)) /\ Len(lines) = Len(file)
  <2>1. lines \in [1 .. Len(file) -> Seq(T)]
    BY <1>1, <1>2
  <2> HIDE DEF lines
  <2> QED
    BY <1>1, <2>1, FunctionIsSeq
<1>4. WorkbookRows(file) = Trim(lines, <<>>)
  BY DEF WorkbookRows
<1>5. \A i \in 1 .. Len(file) : lines[i] = TrimRow(file[i])
  BY <1>1
<1> HIDE DEF lines
<1> DEFINE rows == Trim(lines, <<>>)
<1>6. rows \in Seq(Seq(T)) /\ IsTrimmed(rows, lines, <<>>)
  BY <1>3, TrimKeepsBeginning
<1> HIDE DEF rows
<1>7. Len(rows) \in Nat
  BY <1>6, LenProperties
<1>8. AreTrimmedLines(rows, file)
  <2>1. Len(rows) <= Len(file)
    BY <1>3, <1>6 DEF IsTrimmed
  <2>2. \A i \in 1 .. Len(rows) : rows[i] = lines[i]
    BY <1>6 DEF IsTrimmed
  <2>3. \A i \in 1 .. Len(rows) : i \in 1 .. Len(file)
    BY <1>1, <1>7, <2>1
  <2> QED
    BY <1>5, <2>1, <2>2, <2>3 DEF AreTrimmedLines
<1> QED
  BY <1>4, <1>6, <1>8 DEF rows

\* What is empty at the end of the header is a column of no field.
LEMMA TrimmedColumns ==
    ASSUME NEW T, NEW header \in Seq(T), NEW row, NEW f \in Fields
    PROVE  Columns(TrimRow(header), row, f) = Columns(header, row, f)
<1> DEFINE trimmed == TrimRow(header)
<1>1. trimmed \in Seq(T) /\ IsTrimmed(trimmed, header, "")
  BY TrimKeepsBeginning DEF TrimRow
<1> HIDE DEF trimmed
<1>2. /\ DOMAIN header = 1 .. Len(header) /\ Len(header) \in Nat
      /\ DOMAIN trimmed = 1 .. Len(trimmed) /\ Len(trimmed) \in Nat
  BY <1>1, LenProperties
<1>3. f \notin DetectColumns("")
  BY FileRowsAssumption DEF DetectColumns
<1>4. \A i \in 1 .. Len(header) : f \in DetectColumns(header[i]) => i \in 1 .. Len(trimmed)
  <2> SUFFICES ASSUME NEW i \in 1 .. Len(header), i > Len(trimmed)
               PROVE  f \notin DetectColumns(header[i])
    BY <1>2
  <2>1. header[i] = ""
    BY <1>1 DEF IsTrimmed
  <2> QED
    BY <1>3, <2>1
<1>5. \A i \in 1 .. Len(trimmed) : i \in 1 .. Len(header) /\ trimmed[i] = header[i]
  <2>1. Len(trimmed) <= Len(header)
    BY <1>1 DEF IsTrimmed
  <2>2. \A i \in 1 .. Len(trimmed) : trimmed[i] = header[i]
    BY <1>1 DEF IsTrimmed
  <2>3. \A i \in 1 .. Len(trimmed) : i \in 1 .. Len(header)
    BY <1>2, <2>1
  <2> QED BY <2>2, <2>3
<1>6. \A i : i \in Columns(trimmed, row, f) <=> i \in Columns(header, row, f)
  BY <1>2, <1>4, <1>5 DEF Columns
<1> QED
  BY <1>6 DEF trimmed

\* A row of the batch is the line after the header of its number, parsed.
LEMMA ParsedRowsAreSheetRows ==
    ASSUME NEW T, NEW file, NEW format, NEW rows \in Seq(Seq(T)),
           rows = ReadFirstSheet(format, file).rows,
           NEW i \in DOMAIN ParsedRows(file, format)
    PROVE  /\ ReadFirstSheet(format, file).ok
           /\ Len(rows) > 0 /\ i \in 1 .. Len(rows) - 1
           /\ ParsedRows(file, format)[i] = [number |-> i + 1, data |-> ParseRow(rows[1], rows[i + 1])]
<1> DEFINE all == [k \in 1 .. Len(rows) - 1 |->
                      [number |-> k + 1, data |-> ParseRow(Head(rows), rows[k + 1])]]
<1>1. \/ ParsedRows(file, format) = <<>>
      \/ /\ ReadFirstSheet(format, file).ok /\ rows # <<>> /\ ParsedRows(file, format) = all
  BY DEF ParsedRows, ParseSheet
<1>2. DOMAIN <<>> = {}
  OBVIOUS
<1>3. ReadFirstSheet(format, file).ok /\ rows # <<>> /\ ParsedRows(file, format) = all
  BY <1>1, <1>2
<1>4. i \in 1 .. Len(rows) - 1
  BY <1>3
<1>5. Len(rows) > 0 /\ Head(rows) = rows[1]
  BY <1>3, HeadTailProperties, LenProperties, EmptySeq
<1> QED
  BY <1>3, <1>4, <1>5

\* Whatever its length, and however long its lines are, the rows of a file are
\* those lines.
THEOREM EveryLineIsKept ==
    ASSUME NEW T, NEW file \in FilesOf(T), NEW format \in Formats
    PROVE  LinesAreKept(file, format)
<1>1. file \in Seq(Seq(T)) /\ Len(file) > 0 /\ file[1] # <<>> /\ Len(file) \in Nat
  BY LenProperties DEF FilesOf
<1>2. DOMAIN file = 1 .. Len(file) /\ Head(file) = file[1] /\ file[1] \in Seq(T)
  BY <1>1, LenProperties, HeadTailProperties, EmptySeq, ElementOfSeq
<1> SUFFICES ASSUME format # "csv" \/ (\A k \in DOMAIN file : file[k] # <<>>),
                    NEW i \in DOMAIN ParsedRows(file, format), NEW f \in Fields
             PROVE  LET text == file[ParsedRows(file, format)[i].number]
                        line == IF format = "xlsx" THEN TrimRow(text) ELSE text
                        data == ParsedRows(file, format)[i].data
                    IN  LastCells(file[1], line, f) = {data[g] : g \in {f} \cap DOMAIN data}
  BY <1>2 DEF LinesAreKept
<1> DEFINE rows == ReadFirstSheet(format, file).rows
<1>3. CASE format = "xlsx"
  <2>1. rows = WorkbookRows(file)
    BY <1>3 DEF ReadFirstSheet
  <2>2. rows \in Seq(Seq(T)) /\ AreTrimmedLines(rows, file) /\ Len(rows) \in Nat
    BY <1>1, <2>1, WorkbookRowsAreLines, LenProperties
  <2>3. /\ Len(rows) > 0 /\ i \in 1 .. Len(rows) - 1
        /\ ParsedRows(file, format)[i] = [number |-> i + 1, data |-> ParseRow(rows[1], rows[i + 1])]
    <3> HIDE DEF rows
    <3> QED
      BY <2>2, ParsedRowsAreSheetRows DEF rows
  <2> HIDE DEF rows
  <2>4. /\ rows[1] = TrimRow(file[1]) /\ rows[1] \in Seq(T)
        /\ rows[i + 1] = TrimRow(file[i + 1]) /\ rows[i + 1] \in Seq(T)
    <3>1. 1 \in 1 .. Len(rows) /\ i + 1 \in 1 .. Len(rows)
      BY <2>2, <2>3
    <3>2. rows[1] = TrimRow(file[1]) /\ rows[i + 1] = TrimRow(file[i + 1])
      BY <2>2, <3>1 DEF AreTrimmedLines
    <3>3. rows[1] \in Seq(T) /\ rows[i + 1] \in Seq(T)
      BY <2>2, <3>1, ElementOfSeq
    <3> QED
      BY <3>2, <3>3
  <2>5. LastCells(TrimRow(file[1]), rows[i + 1], f) = LastCells(file[1], rows[i + 1], f)
    BY <1>2, TrimmedColumns DEF LastCells
  <2>6. LastCells(rows[1], rows[i + 1], f)
            = {ParseRow(rows[1], rows[i + 1])[g] : g \in {f} \cap DOMAIN ParseRow(rows[1], rows[i + 1])}
    BY <2>4, LastCellsAreParsed
  <2> QED
    BY <1>3, <2>3, <2>4, <2>5, <2>6
<1>4. CASE format = "csv"
  <2>1. rows = Records(file)
    BY <1>4 DEF ReadFirstSheet
  <2>2. rows \in Seq(Seq(T)) /\ KeepsLines(file, Len(file), rows)
    BY <1>1, <2>1, RecordsKeepLines
  <2>3. /\ i \in 1 .. Len(rows) - 1
        /\ ParsedRows(file, format)[i] = [number |-> i + 1, data |-> ParseRow(rows[1], rows[i + 1])]
    <3> HIDE DEF rows
    <3> QED
      BY <2>2, ParsedRowsAreSheetRows DEF rows
  <2> HIDE DEF rows
  <2>4. /\ rows[1] = file[1] /\ rows[1] \in Seq(T)
        /\ rows[i + 1] = file[i + 1] /\ rows[i + 1] \in Seq(T)
    <3>1. Len(rows) = Len(file) /\ \A k \in 1 .. Len(file) : rows[k] = file[k]
      BY <1>2, <1>4, <2>2 DEF KeepsLines
    <3>2. 1 \in 1 .. Len(file) /\ i + 1 \in 1 .. Len(file)
      BY <1>1, <2>3, <3>1
    <3>3. rows[1] \in Seq(T) /\ rows[i + 1] \in Seq(T)
      BY <2>2, <3>1, <3>2, ElementOfSeq
    <3> QED
      BY <3>1, <3>2, <3>3
  <2>5. LastCells(rows[1], rows[i + 1], f)
            = {ParseRow(rows[1], rows[i + 1])[g] : g \in {f} \cap DOMAIN ParseRow(rows[1], rows[i + 1])}
    BY <2>4, LastCellsAreParsed
  <2> QED
    BY <1>4, <2>3, <2>4, <2>5
<1>5. CASE format = "xls"
  <2>1. rows = file /\ rows \in Seq(Seq(T))
    BY <1>1, <1>5 DEF ReadFirstSheet
  <2>2. /\ i \in 1 .. Len(rows) - 1
        /\ ParsedRows(file, format)[i] = [number |-> i + 1, data |-> ParseRow(rows[1], rows[i + 1])]
    <3> HIDE DEF rows
    <3> QED
      BY <2>1, ParsedRowsAreSheetRows DEF rows
  <2> HIDE DEF rows
  <2>3. file[1] \in Seq(T) /\ i + 1 \in 1 .. Len(file) /\ file[i + 1] \in Seq(T)
    <3>1. i + 1 \in 1 .. Len(file)
      BY <1>1, <2>1, <2>2
    <3> QED
      BY <1>1, <1>2, <3>1, ElementOfSeq
  <2>4. LastCells(file[1], file[i + 1], f)
            = {ParseRow(file[1], file[i + 1])[g] : g \in {f} \cap DOMAIN ParseRow(file[1], file[i + 1])}
    BY <2>3, LastCellsAreParsed
  <2> QED
    BY <1>5, <2>1, <2>2, <2>4
<1> QED
  BY <1>3, <1>4, <1>5 DEF Formats

\* A row of a CSV file is a record that has as many cells as the header.
LEMMA RecordsAreParsed ==
    ASSUME NEW T, NEW file \in FilesOf(T), NEW i \in DOMAIN ParsedRows(file, "csv")
    PROVE  LET rows == Records(file)
           IN  /\ rows[1] = file[1] /\ rows[1] \in Seq(T) /\ rows[i + 1] \in Seq(T)
               /\ Len(rows[i + 1]) = Len(rows[1])
               /\ ParsedRows(file, "csv")[i].data = ParseRow(rows[1], rows[i + 1])
<1>1. file \in Seq(Seq(T)) /\ Len(file) > 0 /\ file[1] # <<>> /\ Len(file) \in Nat
  BY LenProperties DEF FilesOf
<1> DEFINE rows == ReadFirstSheet("csv", file).rows
<1>2. rows = Records(file)
  BY DEF ReadFirstSheet
<1>3. rows \in Seq(Seq(T)) /\ rows[1] = file[1] /\ Len(rows) \in Nat
  BY <1>1, <1>2, RecordsKeepLines, LenProperties DEF KeepsLines
<1>4. /\ ReadFirstSheet("csv", file).ok /\ Len(rows) > 0 /\ i \in 1 .. Len(rows) - 1
      /\ ParsedRows(file, "csv")[i] = [number |-> i + 1, data |-> ParseRow(rows[1], rows[i + 1])]
  <2> HIDE DEF rows
  <2> QED
    BY <1>3, ParsedRowsAreSheetRows DEF rows
<1>5. 1 \in 1 .. Len(rows) /\ i + 1 \in 1 .. Len(rows) /\ DOMAIN rows = 1 .. Len(rows)
  BY <1>3, <1>4, LenProperties
<1>6. rows[1] \in Seq(T) /\ rows[i + 1] \in Seq(T)
  BY <1>3, <1>5, ElementOfSeq
<1>7. Len(rows[i + 1]) = Len(rows[1])
  <2>1. \A j, k \in DOMAIN Records(file) : Len(Records(file)[j]) = Len(Records(file)[k])
    BY <1>4 DEF ReadFirstSheet
  <2> QED
    BY <1>2, <1>5, <2>1
<1> HIDE DEF rows
<1> QED
  BY <1>2, <1>3, <1>4, <1>6, <1>7

\* Records of the length of the header have a cell in every column, so a row has
\* every field that has a column, and is asked for its rule.
THEOREM EveryFittingIsComplete ==
    ASSUME NEW T, NEW file \in FilesOf(T), NEW revision \in Revisions
    PROVE  FittingIsComplete(file, revision)
<1>1. file \in Seq(Seq(T)) /\ Len(file) > 0 /\ file[1] # <<>> /\ Len(file) \in Nat
  BY LenProperties DEF FilesOf
<1>2. Head(file) = file[1]
  BY <1>1, HeadTailProperties, EmptySeq
<1> SUFFICES ASSUME NEW i \in DOMAIN ParsedRows(file, "csv"), NEW f \in Mandatory(revision),
                    \E c \in DOMAIN file[1] : f \in DetectColumns(file[1][c]),
                    ValidateFields(revision, ParsedRows(file, "csv")[i].data)
             PROVE  /\ f \in DOMAIN ParsedRows(file, "csv")[i].data
                    /\ ParsedRows(file, "csv")[i].data[f] # ""
  BY <1>2 DEF FittingIsComplete
<1> DEFINE header == Records(file)[1]
           row    == Records(file)[i + 1]
           data   == ParseRow(header, row)
<1>3. header = file[1]
  BY RecordsAreParsed
<1>4. ParsedRows(file, "csv")[i].data = data
  BY RecordsAreParsed
<1>5. header \in Seq(T) /\ row \in Seq(T) /\ Len(row) = Len(header)
  BY RecordsAreParsed
<1>6. DOMAIN header = 1 .. Len(header) /\ DOMAIN row = 1 .. Len(header) /\ Len(header) \in Nat
  BY <1>5, LenProperties
<1>7. SaysOf(header, row, Len(header), data)
  BY <1>5, ParseRowSays
<1>8. f \in DOMAIN data
  <2>1. PICK c \in DOMAIN header : f \in DetectColumns(header[c])
    BY <1>3
  <2>2. c \in ColumnsTo(header, row, Len(header), f)
    BY <1>6, <2>1 DEF ColumnsTo, Columns
  <2>3. f \in Fields
    BY FileRowsAssumption DEF Mandatory
  <2> QED
    BY <1>7, <2>2, <2>3 DEF SaysOf
<1>9. data[f] # ""
  BY <1>4, <1>8 DEF ValidateFields, Mandatory
<1> QED
  BY <1>4, <1>8, <1>9

\* In particular those files that the runs enumerate.
LEMMA FilesAreFiles == Files \subseteq FilesOf(Headers \cup Cells)
<1> DEFINE T == Headers \cup Cells
<1>1. \A h \in HeaderLines : h \in Seq(T) /\ h # <<>>
  <2> SUFFICES ASSUME NEW n \in 1 .. 3, NEW h \in [1 .. n -> Headers]
               PROVE  h \in Seq(T) /\ h # <<>>
    BY DEF HeaderLines
  <2>1. h \in [1 .. n -> T]
    OBVIOUS
  <2>2. h \in Seq(T)
    BY <2>1, SeqDef
  <2>3. DOMAIN h # DOMAIN <<>>
    OBVIOUS
  <2> QED
    BY <2>2, <2>3
<1>2. \A l \in Lines : l \in Seq(T)
  <2> SUFFICES ASSUME NEW n \in 0 .. 3, NEW l \in [1 .. n -> Cells] PROVE l \in Seq(T)
    BY DEF Lines
  <2>1. l \in [1 .. n -> T]
    OBVIOUS
  <2> QED
    BY <2>1, SeqDef
<1>3. <<>> \in Seq(T)
  BY EmptySeq
<1> SUFFICES ASSUME NEW file \in Files PROVE file \in FilesOf(T)
  OBVIOUS
<1> DEFINE those(h, l) == {<<h, l>>, <<h, <<>>, l>>, <<h, l, l>>}
<1> PICK h \in HeaderLines, l \in Lines : file \in those(h, l)
  <2>1. Files = UNION {those(h, l) : h \in HeaderLines, l \in Lines}
    BY DEF Files
  <2> HIDE DEF those
  <2> QED
    BY <2>1
<1>4. h \in Seq(T) /\ l \in Seq(T) /\ h # <<>>
  BY <1>1, <1>2
<1> HIDE DEF T
<1>5. CASE file = <<h, l>>
  BY <1>4, <1>5 DEF FilesOf
<1>6. CASE file = <<h, <<>>, l>>
  BY <1>3, <1>4, <1>6 DEF FilesOf
<1>7. CASE file = <<h, l, l>>
  BY <1>4, <1>7 DEF FilesOf
<1> QED
  BY <1>5, <1>6, <1>7

\* When a file was taken, every row that a job is made of has in each field what
\* the file says in the line of the row's number.
THEOREM UploadedRowsAreLines == ListedSpec => []RowsAreTheirLines
<1>1. AllLinesAreKept
  BY FilesAreFiles, EveryLineIsKept DEF AllLinesAreKept
<1>2. RowsAreTheirLines
  BY <1>1 DEF RowsAreTheirLines
<1> QED
  BY <1>2, PTL

\* When a CSV file was taken, a row that passes the local rules of its revision has
\* a text in every field that is mandatory under it and has a column.
THEOREM UploadedRowsAreComplete == ListedSpec => []ValidRowsAreComplete
<1>1. AllFittingIsComplete
  BY FilesAreFiles, EveryFittingIsComplete DEF AllFittingIsComplete
<1>2. ValidRowsAreComplete
  BY <1>1 DEF ValidRowsAreComplete
<1> QED
  BY <1>2, PTL
=============================================================================
