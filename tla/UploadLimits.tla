---------------------------- MODULE UploadLimits ----------------------------
(***************************************************************************)
(* The runtime limits of package limits and the three places where an      *)
(* upload reads them: HandleUpload bounds the body, validateUploadImpl     *)
(* checks the file, and Service.CreateBatchFromFile takes the copy that it *)
(* applies to both size and rows.  An administrator may PUT other limits   *)
(* between any two of them.                                                *)
(*                                                                         *)
(* The module spells out when Upload's ReceiveFile and Parse refuse a file.*)
(* A pod may be started with MAX_ROWS_PER_BATCH, which CreateBatchFromFile *)
(* uses in place of the copy's row limit, and with MAX_FILE_SIZE_MB, which *)
(* the parser uses besides the size limit that the copy was read with.     *)
(***************************************************************************)
EXTENDS Upload, FileRows

CONSTANTS
    Configurations, \* limits that administrators set, [size, rows]
    Environments,   \* environments of pods, [size, rows]: sets with at most one element
    Sizes,          \* sizes of the files that are uploaded
    Overhead        \* what a body may have beyond the file (16 KiB)

ASSUME LimitsAssumption ==
    /\ Configurations \subseteq [size: Nat \ {0}, rows: Nat \ {0}]
    /\ Environments \subseteq [size: SUBSET Nat, rows: SUBSET Nat]
    /\ Sizes \subseteq Nat /\ Overhead \in Nat

VARIABLES
    limits, \* limits.val of the pod
    env,    \* the environment of the pod, which nothing changes
    intake  \* the local variables of each upload before its file is parsed

limitVars == <<limits, env, intake>>

\* inForce is history: the limits in force since the request came in.
IntakeState == [stage: {"new", "body", "checked", "read", "over"}, size: Nat,
                read: SUBSET Configurations, inForce: SUBSET Configurations]

IntakeFresh == [stage |-> "new", size |-> 0, read |-> {}, inForce |-> {}]

LimitsTypeOK ==
    /\ limits \in Configurations
    /\ env \in Environments
    /\ intake \in [Uploads -> IntakeState]

LimitsInit ==
    /\ limits \in Configurations
    /\ env \in Environments
    /\ intake = [u \in Uploads |-> IntakeFresh]

\* The file is refused, or what is known of it is not needed any longer.
Over(u) == intake' = [intake EXCEPT ![u] = [IntakeFresh EXCEPT !.stage = "over"]]
Refuse(u) == ReceiveFile(u) /\ upl'[u].pc = "refused" /\ Over(u)

\* A deliberate bug, used by no specification: a limit that is not given keeps
\* its value.
BrokenPutLimits ==
    /\ \E l \in Configurations : limits' \in {l, [limits EXCEPT !.rows = l.rows]}
    /\ UNCHANGED <<vars, env, intake>>

\* HandlePutBulkLimits: all limits are positive and replaced in one critical
\* section.
PutLimits ==
    /\ limits' \in Configurations
    /\ intake' = [u \in Uploads |->
                     IF intake[u].stage \in {"body", "checked"}
                     THEN [intake[u] EXCEPT !.inForce = @ \cup {limits'}] ELSE intake[u]]
    /\ UNCHANGED <<vars, env>>

\* HandleUpload up to FormFile.  A body without a file is refused, too, and so is
\* a smaller file with more around it.
ReceiveBody(u) ==
    /\ upl[u].pc = "idle" /\ intake[u].stage = "new"
    /\ \/ Refuse(u)
       \/ \E size \in Sizes :
             /\ size <= limits.size + Overhead
             /\ intake' = [intake EXCEPT ![u].stage = "body", ![u].size = size,
                                         ![u].inForce = {limits}]
             /\ UNCHANGED vars
    /\ UNCHANGED <<limits, env>>

\* validateUploadImpl and the check of the revision.
ValidateUpload(u) ==
    /\ upl[u].pc = "idle" /\ intake[u].stage = "body"
    /\ \/ Refuse(u)
       \/ /\ intake[u].size <= limits.size
          /\ intake' = [intake EXCEPT ![u].stage = "checked"]
          /\ UNCHANGED vars
    /\ UNCHANGED <<limits, env>>

\* The beginning of CreateBatchFromFile: one copy of the limits.
ReadLimits(u) ==
    /\ upl[u].pc = "idle" /\ intake[u].stage = "checked"
    /\ IF intake[u].size > limits.size
       THEN Refuse(u)
       ELSE /\ ReceiveFile(u) /\ upl'[u].pc = "parse"
            /\ intake' = [intake EXCEPT ![u].stage = "read", ![u].read = {limits}]
    /\ UNCHANGED <<limits, env>>

\* A limit of 0 is none.
Under(n, limit) == \A m \in limit : m > 0 => n <= m

\* What a file must fit that is checked against l: the copy's size limit (CopyN)
\* and that of the environment (the parser), but the copy's row limit only if the
\* environment has none.
SizeFits(size, l) == size <= l.size /\ Under(size, env.size)
RowsFit(rows, l) == Under(rows, IF env.rows = {} THEN {l.rows} ELSE env.rows)

\* A deliberate bug, used by no specification: the limits are read anew.
RereadParse(u) ==
    /\ Parse(u)
    /\ upl'[u].pc = "create" => SizeFits(intake[u].size, limits) /\ RowsFit(upl'[u].total, limits)
    /\ Over(u)
    /\ UNCHANGED <<limits, env>>

\* XLSParser.Parse with the limits of the copy and the environment.
LimitedParse(u) ==
    /\ Parse(u)
    /\ upl'[u].pc = "create" => /\ Under(intake[u].size, env.size)
                              /\ \A l \in intake[u].read : RowsFit(upl'[u].total, l)
    /\ Over(u)
    /\ UNCHANGED <<limits, env>>

LimitedNext ==
    \/ PutLimits
    \/ \E u \in Uploads :
          \/ ReceiveBody(u) \/ ValidateUpload(u) \/ ReadLimits(u) \/ LimitedParse(u)
          \/ /\ \/ Create(u) \/ ValidateRow(u) \/ EndRows(u) \/ StoreFile(u)
                \/ UpdateCounts(u) \/ LoadRow(u) \/ QuoteUnits(u) \/ SaveRow(u) \/ Answer(u)
                \/ CrashUpload(u) \/ CancelLoad(u) \/ CancelSave(u)
             /\ UNCHANGED limitVars

LimitedInit == Init /\ LimitsInit
LimitedSpec == LimitedInit /\ [][LimitedNext]_<<vars, limitVars>>

---------------------------------------------------------------------------
Fits(size, rows, l) == SizeFits(size, l) /\ RowsFit(rows, l)

\* However administrators change the limits while a file comes in, a file is
\* taken only if one configuration that was in force meanwhile, as the environment
\* of the pod overrides it, allows both its size and its rows: never the size of
\* one and the rows of another.
FitsOneConfiguration ==
    [][\A u \in Uploads :
          upl[u].pc = "parse" /\ upl'[u].pc = "create" =>
              \E l \in intake[u].inForce : Fits(intake[u].size, upl'[u].total, l)
      ]_<<vars, limitVars>>

\* When a file was taken, every row that a job is made of has in each field what
\* the file says in the line of the row's number, however many columns mean the
\* field and however short the line is; only blank lines in a CSV file, which
\* the library drops, may shift the numbers.
RowsAreTheirLines == \A u \in Uploads : upl[u].pc = "create" => AllLinesAreKept

\* When a CSV file was taken, a row that passes the local rules of its revision has
\* a text in every field that is mandatory under it and has a column, although the
\* rules are asked only for the fields that the row has.
ValidRowsAreComplete == \A u \in Uploads : upl[u].pc = "create" => AllFittingIsComplete
=============================================================================
