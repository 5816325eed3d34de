------------------------------ MODULE Exporter ------------------------------
(***************************************************************************)
(* exporter.Manager of one pod: POST /batch/:id/export requests enqueue an *)
(* export under a mutex and then send it to a buffered channel; one worker *)
(* goroutine takes the exports off the channel, generates the workbook and *)
(* saves it to object storage.  GET /export/:id requests take the pointer  *)
(* to the entry under the mutex and read its fields without it, while the  *)
(* worker may be writing them.  All but the storage is in memory.          *)
(*                                                                         *)
(* An export is named by its batch.  A critical section of the mutex is one*)
(* step, but for the one in which the worker writes the outcome: there each*)
(* field is a step, in either order, for the readers that take no lock.    *)
(***************************************************************************)
EXTENDS Naturals, Sequences, FiniteSets

CONSTANTS
    Exports,    \* batches whose results may be exported
    Starters,   \* POST /batch/:id/export requests
    Pollers,    \* GET /export/:id requests
    Buffer,     \* capacity of the channel (10 in NewDeps)
    HasStorage, \* TRUE if object storage is configured
    CallErrors, \* TRUE if the job query and the calls of the storage may fail
    Crashes     \* TRUE if the pod may restart

ASSUME BufferAssumption == Buffer \in Nat \ {0}
ASSUME ExportSwitches == {HasStorage, CallErrors, Crashes} \subseteq BOOLEAN

VARIABLES
    results, \* the map from ID to ExportResult; "none" if there is no entry
    queue,   \* the channel
    worker,  \* the local variables of the worker goroutine
    start,   \* the local variables of each request
    files,   \* the exports whose workbook is in object storage
    poll     \* the local variables of each GET request

vars == <<results, queue, worker, start, files, poll>>

ExportStatus == {"none", "pending", "running", "done", "failed"}
ExportResult == [status: ExportStatus, stored: BOOLEAN]
NoResult     == [status |-> "none", stored |-> FALSE]

WorkerPc == {"receive", "run", "generate", "save", "finish"}

\* id is the export in hand, a set with at most one element.
\* unwritten are the fields of the entry it has yet to write in Finish.
Fields      == {"status", "stored"}
WorkerState == [pc: WorkerPc, id: SUBSET Exports, ok: BOOLEAN, stored: BOOLEAN,
                unwritten: SUBSET Fields]
WorkerIdle  == [pc |-> "receive", id |-> {}, ok |-> TRUE, stored |-> FALSE,
                unwritten |-> Fields]

StartState == [pc: {"idle", "send", "accepted", "exists", "full", "lost"},
               id: SUBSET Exports]

\* told is the status in the answer; "torn" is half of one string and half of
\* another.  url says whether the answer gives the file or a link to it.
PollState == [pc: {"idle", "read", "file", "render", "answered", "missing", "error", "lost"},
              id: SUBSET Exports, url: BOOLEAN, told: ExportStatus \cup {"torn"}]
PollIdle  == [pc |-> "idle", id |-> {}, url |-> FALSE, told |-> "none"]

TypeOK ==
    /\ results \in [Exports -> ExportResult]
    /\ queue \in Seq(Exports)
    /\ Len(queue) <= Buffer
    /\ worker \in WorkerState
    /\ start \in [Starters -> StartState]
    /\ files \subseteq Exports
    /\ poll \in [Pollers -> PollState]

Init ==
    /\ results = [e \in Exports |-> NoResult]
    /\ queue = <<>>
    /\ worker = WorkerIdle
    /\ start = [s \in Starters |-> [pc |-> "idle", id |-> {}]]
    /\ files = {}
    /\ poll = [p \in Pollers |-> PollIdle]

\* Whether the mutex is free: the worker holds it from its first write to its last.
Unlocked == worker.pc = "finish" => worker.unwritten = Fields

\* A deliberate bug, used by no specification: an entry that is still pending
\* is enqueued again.
BrokenEnqueue(s, e) ==
    /\ start[s].pc = "idle"
    /\ Unlocked
    /\ IF results[e].status \notin {"none", "pending"}
       THEN /\ start' = [start EXCEPT ![s] = [pc |-> "exists", id |-> {e}]]
            /\ UNCHANGED results
       ELSE /\ start' = [start EXCEPT ![s] = [pc |-> "send", id |-> {e}]]
            /\ results' = [results EXCEPT ![e].status = "pending"]
    /\ UNCHANGED <<queue, worker, files, poll>>

\* A deliberate bug, used by no specification: a failed export can be asked for
\* again.
RetryEnqueue(s, e) ==
    /\ start[s].pc = "idle"
    /\ Unlocked
    /\ IF results[e].status \notin {"none", "failed"}
       THEN /\ start' = [start EXCEPT ![s] = [pc |-> "exists", id |-> {e}]]
            /\ UNCHANGED results
       ELSE /\ start' = [start EXCEPT ![s] = [pc |-> "send", id |-> {e}]]
            /\ results' = [results EXCEPT ![e].status = "pending"]
    /\ UNCHANGED <<queue, worker, files, poll>>

\* Enqueue up to the unlock: whoever finds no entry makes one.
Enqueue(s, e) ==
    /\ start[s].pc = "idle"
    /\ Unlocked
    /\ IF results[e].status # "none"
       THEN /\ start' = [start EXCEPT ![s] = [pc |-> "exists", id |-> {e}]]
            /\ UNCHANGED results
       ELSE /\ start' = [start EXCEPT ![s] = [pc |-> "send", id |-> {e}]]
            /\ results' = [results EXCEPT ![e].status = "pending"]
    /\ UNCHANGED <<queue, worker, files, poll>>

\* A deliberate bug, used by no specification: a full channel is no error.
BrokenSend(s) ==
    /\ start[s].pc = "send"
    /\ \E e \in start[s].id :
          queue' = IF Len(queue) < Buffer THEN Append(queue, e) ELSE queue
    /\ start' = [start EXCEPT ![s].pc = "accepted"]
    /\ UNCHANGED <<results, worker, files, poll>>

\* The send that does not block: a full channel refuses the request, but the
\* entry stays.
Send(s) ==
    /\ start[s].pc = "send"
    /\ IF Len(queue) < Buffer
       THEN /\ \E e \in start[s].id : queue' = Append(queue, e)
            /\ start' = [start EXCEPT ![s].pc = "accepted"]
       ELSE /\ start' = [start EXCEPT ![s].pc = "full"]
            /\ UNCHANGED queue
    /\ UNCHANGED <<results, worker, files, poll>>

Receive ==
    /\ worker.pc = "receive"
    /\ queue # <<>>
    /\ worker' = [WorkerIdle EXCEPT !.pc = "run", !.id = {Head(queue)}]
    /\ queue' = Tail(queue)
    /\ UNCHANGED <<results, start, files, poll>>

\* A deliberate bug, used by no specification: the status is one that the API
\* documents but the package does not have.
BrokenRun ==
    /\ worker.pc = "run"
    /\ \E e \in worker.id : results' = [results EXCEPT ![e].status = "processing"]
    /\ worker' = [worker EXCEPT !.pc = "generate"]
    /\ UNCHANGED <<queue, start, files, poll>>

\* The nil check of the worker never fires: the entry is made before the send.
Run ==
    /\ worker.pc = "run"
    /\ \E e \in worker.id : results' = [results EXCEPT ![e].status = "running"]
    /\ worker' = [worker EXCEPT !.pc = "generate"]
    /\ UNCHANGED <<queue, start, files, poll>>

CallOk == {TRUE} \cup (IF CallErrors THEN {FALSE} ELSE {})

\* ExportResultsXLS queries the jobs and builds the workbook in memory.
ExportResultsXLS ==
    /\ worker.pc = "generate"
    /\ \E ok \in CallOk :
          worker' = [worker EXCEPT !.ok = ok,
                                   !.pc = IF ok /\ HasStorage THEN "save" ELSE "finish"]
    /\ UNCHANGED <<results, queue, start, files, poll>>

\* A deliberate bug, used by no specification: the error of Save is dropped.
BrokenSave ==
    /\ worker.pc = "save"
    /\ \E ok \in CallOk :
          /\ files' = IF ok THEN files \cup worker.id ELSE files
          /\ worker' = [worker EXCEPT !.stored = TRUE, !.pc = "finish"]
    /\ UNCHANGED <<results, queue, start, poll>>

\* An upload that fails may have left the object behind (its answer was lost).
Save ==
    /\ worker.pc = "save"
    /\ \E ok \in CallOk, left \in BOOLEAN :
          /\ files' = IF ok \/ left THEN files \cup worker.id ELSE files
          /\ worker' = [worker EXCEPT !.ok = ok, !.stored = ok, !.pc = "finish"]
    /\ UNCHANGED <<results, queue, start, poll>>

\* The outcome, one field at a time and the mutex held: nothing orders the two
\* writes for a reader without the mutex.  A failure does not write StorageID.
Finish ==
    /\ worker.pc = "finish"
    /\ \E e \in worker.id, field \in worker.unwritten :
          /\ results' = CASE field = "status" ->
                               [results EXCEPT ![e].status = IF worker.ok THEN "done" ELSE "failed"]
                         [] field = "stored" -> [results EXCEPT ![e].stored = worker.stored]
          /\ worker' = IF worker.unwritten = {field} THEN WorkerIdle
                       ELSE [worker EXCEPT !.unwritten = @ \ {field}]
    /\ UNCHANGED <<queue, start, files, poll>>

\* The pod restarts: the map, the channel and the open requests are gone.
Restart ==
    /\ Crashes
    /\ results' = [e \in Exports |-> NoResult]
    /\ queue' = <<>>
    /\ worker' = WorkerIdle
    /\ start' = [s \in Starters |-> IF start[s].pc = "idle" THEN start[s]
                                    ELSE [start[s] EXCEPT !.pc = "lost"]]
    /\ poll' = [p \in Pollers |-> IF poll[p].pc = "idle" THEN poll[p]
                                  ELSE [poll[p] EXCEPT !.pc = "lost"]]
    /\ UNCHANGED files

\* HandleGetExport takes the pointer to the entry under the mutex...
Get(p, e) ==
    /\ poll[p].pc = "idle"
    /\ Unlocked
    /\ poll' = [poll EXCEPT ![p].id = {e},
                            ![p].pc = IF results[e].status = "none" THEN "missing" ELSE "read"]
    /\ UNCHANGED <<results, queue, worker, start, files>>

\* Whether the worker may be in the middle of writing a field of this entry.
\* (Half of "pending" and half of "running" are still one of the two.)
Writing(e, field) ==
    worker.pc = "finish" /\ e \in worker.id /\ field \in worker.unwritten

\* ... and reads its fields without it.  Half a StorageID is a length without a
\* pointer, at which the handler panics, or a pointer without a length, which
\* is the empty one.
ReadStorageID(p) ==
    /\ poll[p].pc = "read"
    /\ \E e \in poll[p].id, pc \in {"file", "render", "error"} :
          /\ CASE pc = "file" -> HasStorage /\ results[e].stored
             [] pc = "render" -> ~(HasStorage /\ results[e].stored)
             [] pc = "error" -> HasStorage /\ worker.stored /\ Writing(e, "stored")
          /\ poll' = [poll EXCEPT ![p].pc = pc]
    /\ UNCHANGED <<results, queue, worker, start, files>>

\* The link, or the file itself if that fails or was asked for; if that fails
\* too, the fields are the answer.  A file that breaks off is an error.
Presign(p) ==
    /\ poll[p].pc = "file"
    /\ \/ poll' = [poll EXCEPT ![p].url = TRUE, ![p].pc = "render"]
       \/ poll' = [poll EXCEPT ![p].url = TRUE, ![p].pc = "answered"]
       \/ /\ CallErrors
          /\ \E pc \in {"render", "error"} : poll' = [poll EXCEPT ![p].pc = pc]
    /\ UNCHANGED <<results, queue, worker, start, files>>

\* The status is read last, when the answer is put together.
Render(p) ==
    /\ poll[p].pc = "render"
    /\ \E e \in poll[p].id :
       \E told \in {results[e].status} \cup {t \in {"torn"} : Writing(e, "status")} :
          poll' = [poll EXCEPT ![p].told = told, ![p].pc = "answered"]
    /\ UNCHANGED <<results, queue, worker, start, files>>

WorkerStep == Receive \/ Run \/ ExportResultsXLS \/ Save \/ Finish

Next ==
    \/ \E s \in Starters, e \in Exports : Enqueue(s, e)
    \/ \E s \in Starters : Send(s)
    \/ WorkerStep
    \/ \E p \in Pollers, e \in Exports : Get(p, e)
    \/ \E p \in Pollers : ReadStorageID(p) \/ Presign(p) \/ Render(p)
    \/ Restart

Spec == Init /\ [][Next]_vars

\* The worker loops for ever, its calls return, and a request that has unlocked
\* the mutex goes on to the send.
FairSpec == Spec /\ WF_vars(WorkerStep) /\ \A s \in Starters : WF_vars(Send(s))

---------------------------------------------------------------------------
\* Where an export is: in the hands of a request, in the channel, or with the
\* worker.
Senders(e)   == {s \in Starters : start[s].pc = "send" /\ e \in start[s].id}
Positions(e) == {i \in DOMAIN queue : queue[i] = e}

Sending(e) == Senders(e) # {}
InLine(e)  == Positions(e) # {}

Places(e) ==
    Cardinality(Senders(e))
    + Cardinality(Positions(e))
    + Cardinality({e} \cap worker.id)

Accepted(e) == \E s \in Starters : start[s].pc = "accepted" /\ e \in start[s].id
Settled(e)  == results[e].status \in {"done", "failed"} /\ e \notin worker.id

\* An export that was accepted is neither lost nor done twice: until it is done
\* or failed it is in exactly one place, and after that in none, although the
\* mutex is released between the check of the map and the send.
InOnePlace ==
    \A e \in Exports :
        /\ Places(e) <= 1
        /\ Accepted(e) => Places(e) = IF Settled(e) THEN 0 ELSE 1

\* A settled export that is done has its workbook in storage (if there is
\* storage), and an entry that names a file has it and is not that of a failure.
DoneIsStored ==
    \A e \in Exports :
        /\ Settled(e) /\ results[e].status = "done" /\ HasStorage => results[e].stored
        /\ results[e].stored => e \in files /\ results[e].status # "failed"

\* What a GET request answers, although it reads without the mutex: a link or a
\* file is that of a workbook in storage and never comes with a failure, and
\* whoever was told that the export is done or failed was told for good: until
\* the pod restarts no later answer takes it back.
PollIsHonest ==
    \A p \in Pollers : \A e \in poll[p].id :
        poll[p].pc # "lost" =>
            /\ poll[p].url => e \in files /\ poll[p].told # "failed"
            /\ poll[p].told \in {"done", "failed"} => results[e].status = poll[p].told

---------------------------------------------------------------------------
\* An entry that is nowhere, and that no request was promised, is refused.
ExportState(e) ==
    IF results[e].status = "none" \/ Sending(e) THEN "new"
    ELSE IF InLine(e) THEN "waiting"
    ELSE IF e \in worker.id THEN "running"
    ELSE IF Settled(e) THEN "settled"
    ELSE IF Accepted(e) THEN "waiting" ELSE "refused"

Queue == INSTANCE ExportQueue
             WITH state <- [e \in Exports |-> ExportState(e)], line <- queue

\* The mutex, the map, the channel and the worker together keep the promise of
\* ExportQueue: each export once, one at a time, first come first served, and
\* every accepted one settled.
QueueSpec == Queue!Spec
=============================================================================
