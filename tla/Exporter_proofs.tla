--------------------------- MODULE Exporter_proofs ---------------------------
(***************************************************************************)
(* Proofs about the export manager: its type invariant, that an accepted   *)
(* export is neither lost nor done twice, that what is done is stored, what*)
(* GET requests may answer although they read without the mutex, and that  *)
(* every step is one of ExportQueue.                                       *)
(***************************************************************************)
EXTENDS Exporter, FiniteSetTheorems, SequenceTheorems, TLAPS

---------------------------------------------------------------------------
(***************************************************************************)
(* The inductive invariant                                                 *)
(***************************************************************************)

\* A request that is under way has named one export, and the worker has one in
\* hand unless it waits at the channel.
HandInv ==
    /\ \A s \in Starters : start[s].pc \in {"send", "accepted", "exists", "full"} =>
          \E e \in Exports : start[s].id = {e}
    /\ worker.pc = "receive" => worker.id = {}
    /\ worker.pc # "receive" => \E e \in Exports : worker.id = {e}
    /\ worker.unwritten # {}
    /\ worker.pc # "finish" => worker.unwritten = Fields
    /\ \A p \in Pollers : poll[p].pc # "idle" => \E e \in Exports : poll[p].id = {e}

\* An export is with one request, at one position of the channel, or with the
\* worker; a request that still has to send it is the only one that made it.
PlaceInv ==
    /\ \A e \in Exports : \A s, t \in Senders(e) : s = t
    /\ \A e \in Exports : \A i, k \in Positions(e) : i = k
    /\ \A e \in Exports : Sending(e) => ~InLine(e) /\ e \notin worker.id /\ ~Accepted(e)
    /\ \A e \in Exports : InLine(e) => e \notin worker.id

\* What the entry says of an export in each of these places.
EntryInv ==
    /\ \A e \in Exports : Sending(e) \/ InLine(e) => results[e].status = "pending"
    /\ \A e \in worker.id :
          /\ worker.pc = "run" => results[e].status = "pending"
          /\ worker.pc \in {"generate", "save"} => results[e].status = "running"
          /\ worker.pc = "finish" =>
                results[e].status = IF "status" \in worker.unwritten THEN "running"
                                    ELSE IF worker.ok THEN "done" ELSE "failed"
    /\ \A e \in Exports : Accepted(e) =>
          InLine(e) \/ e \in worker.id \/ results[e].status \in {"done", "failed"}

\* The file an entry names is in storage, and it is named once the worker has
\* written the field.
StoredInv ==
    /\ worker.stored => worker.pc = "finish" /\ worker.ok /\ worker.id \subseteq files
    /\ worker.pc = "finish" /\ worker.ok /\ HasStorage => worker.stored
    /\ \A e \in worker.id : results[e].stored =
          (worker.pc = "finish" /\ "stored" \notin worker.unwritten /\ worker.stored)
    /\ \A e \in Exports : results[e].stored =>
          e \in files /\ results[e].status \in {"running", "done"}
    /\ \A e \in Exports :
          results[e].status = "done" /\ e \notin worker.id /\ HasStorage => results[e].stored

\* What a GET request has read stays true as long as its pod lives.
PollInv ==
    \A p \in Pollers :
        /\ poll[p].pc = "idle" => poll[p].id = {} /\ ~poll[p].url /\ poll[p].told = "none"
        /\ poll[p].pc # "lost" => \A e \in poll[p].id :
              /\ poll[p].url \/ poll[p].pc = "file" => results[e].stored
              /\ poll[p].told \in {"done", "failed"} => results[e].status = poll[p].told

ExportInv == TypeOK /\ HandInv /\ PlaceInv /\ EntryInv /\ StoredInv /\ PollInv

---------------------------------------------------------------------------
(***************************************************************************)
(* Types                                                                   *)
(***************************************************************************)

\* What the channel holds after a send and after a receive.
LEMMA AppendPositions ==
    ASSUME queue \in Seq(Exports), NEW e \in Exports, queue' = Append(queue, e)
    PROVE  /\ queue' \in Seq(Exports) /\ Len(queue') = Len(queue) + 1
           /\ \A d : Positions(d)' = Positions(d) \cup {i \in {Len(queue) + 1} : d = e}
<1>1. /\ queue' \in Seq(Exports) /\ Len(queue') = Len(queue) + 1
      /\ DOMAIN queue = 1 .. Len(queue) /\ DOMAIN queue' = 1 .. Len(queue) + 1
      /\ \A i \in 1 .. Len(queue) : queue'[i] = queue[i]
      /\ queue'[Len(queue) + 1] = e
      /\ Len(queue) \in Nat
  BY AppendProperties, LenProperties
<1> QED
  BY <1>1 DEF Positions

LEMMA TailPositions ==
    ASSUME queue \in Seq(Exports), queue # <<>>, queue' = Tail(queue)
    PROVE  /\ queue' \in Seq(Exports) /\ Len(queue') = Len(queue) - 1
           /\ Head(queue) \in Exports /\ 1 \in Positions(Head(queue))
           /\ \A d : Positions(d)' = {i \in 1 .. Len(queue) - 1 : i + 1 \in Positions(d)}
<1>1. /\ queue' \in Seq(Exports) /\ Len(queue') = Len(queue) - 1
      /\ Head(queue) = queue[1] /\ Head(queue) \in Exports
      /\ \A i \in 1 .. Len(queue') : queue'[i] = queue[i + 1]
  BY HeadTailProperties
<1>2. /\ DOMAIN queue = 1 .. Len(queue) /\ DOMAIN queue' = 1 .. Len(queue')
      /\ Len(queue) \in Nat /\ Len(queue) # 0
  BY <1>1, LenProperties, EmptySeq
<1> QED
  BY <1>1, <1>2 DEF Positions

LEMMA ExportTypeInit == Init => TypeOK
<1> SUFFICES ASSUME Init PROVE TypeOK
  OBVIOUS
<1>1. queue \in Seq(Exports) /\ Len(queue) = 0
  BY EmptySeq DEF Init
<1> QED
  BY <1>1, BufferAssumption DEF Init, TypeOK, NoResult, ExportResult, ExportStatus,
     WorkerIdle, WorkerState, WorkerPc, Fields, StartState, PollIdle, PollState

\* What reading the file and the link leaves alone, and what it has seen.
LEMMA ReadsOneEntry ==
    ASSUME poll \in [Pollers -> PollState], NEW p \in Pollers, ReadStorageID(p) \/ Presign(p)
    PROVE  /\ poll' \in [Pollers -> PollState]
           /\ \A q \in Pollers \ {p} : poll'[q] = poll[q]
           /\ poll[p].pc \in {"read", "file"} /\ poll'[p].pc \in {"file", "render", "answered", "error"}
           /\ poll'[p].id = poll[p].id /\ poll'[p].told = poll[p].told
           /\ poll'[p].url \/ poll'[p].pc = "file" =>
                 poll[p].url \/ poll[p].pc = "file" \/ \E e \in poll[p].id : results[e].stored
<1>1. CASE ReadStorageID(p)
  <2>1. PICK e \in poll[p].id, pc \in {"file", "render", "error"} :
           /\ CASE pc = "file" -> HasStorage /\ results[e].stored
              [] pc = "render" -> ~(HasStorage /\ results[e].stored)
              [] pc = "error" -> HasStorage /\ worker.stored /\ Writing(e, "stored")
           /\ poll' = [poll EXCEPT ![p].pc = pc]
    BY <1>1 DEF ReadStorageID
  <2>2. pc = "file" => results[e].stored
    BY <2>1
  <2>3. [poll[p] EXCEPT !.pc = pc] \in PollState
    BY DEF PollState
  <2>4. poll[p].pc = "read"
    BY <1>1 DEF ReadStorageID
  <2>5. poll' = [poll EXCEPT ![p].pc = pc]
    BY <2>1
  <2> QED
    BY <2>2, <2>3, <2>4, <2>5 DEF PollState
<1>2. CASE Presign(p)
  <2> DEFINE Answers(rec) == /\ rec \in PollState /\ rec.pc \in {"render", "answered", "error"}
                             /\ rec.id = poll[p].id /\ rec.told = poll[p].told
                             /\ poll' = [poll EXCEPT ![p] = rec]
  <2>1. ASSUME NEW pc \in {"render", "answered"},
               poll' = [poll EXCEPT ![p].url = TRUE, ![p].pc = pc]
        PROVE  Answers([poll[p] EXCEPT !.url = TRUE, !.pc = pc])
    <3>1. [poll[p] EXCEPT !.url = TRUE, !.pc = pc] \in PollState
      BY DEF PollState
    <3>2. poll' = [poll EXCEPT ![p] = [poll[p] EXCEPT !.url = TRUE, !.pc = pc]]
      BY <2>1
    <3> QED
      BY <3>1, <3>2 DEF PollState
  <2>2. \A pc \in {"render", "error"} :
           poll' = [poll EXCEPT ![p].pc = pc] => Answers([poll[p] EXCEPT !.pc = pc])
    BY DEF PollState
  <2>3. \E rec : Answers(rec)
    <3> HIDE DEF Answers
    <3> QED
      BY <1>2, <2>1, <2>2 DEF Presign
  <2>4. poll[p].pc = "file"
    BY <1>2 DEF Presign
  <2> QED
    BY <2>3, <2>4
<1> QED
  BY <1>1, <1>2

LEMMA ExportTypeStep ==
    ASSUME TypeOK, [Next]_vars
    PROVE  TypeOK'
<1>0. Len(queue) \in Nat /\ Buffer \in Nat
  BY LenProperties, BufferAssumption DEF TypeOK
<1>1. ASSUME NEW s \in Starters, NEW e \in Exports, Enqueue(s, e)
      PROVE  TypeOK'
  <2>1. results' \in [Exports -> ExportResult]
    <3>1. [results[e] EXCEPT !.status = "pending"] \in ExportResult
      BY DEF TypeOK, ExportResult, ExportStatus
    <3> QED
      BY <1>1, <3>1 DEF Enqueue, TypeOK
  <2>2. start' \in [Starters -> StartState]
    <3>1. \A pc \in {"send", "exists"} : [pc |-> pc, id |-> {e}] \in StartState
      BY DEF StartState
    <3> QED
      BY <1>1, <3>1 DEF Enqueue, TypeOK
  <2> QED
    BY <1>1, <2>1, <2>2 DEF Enqueue, TypeOK
<1>2. ASSUME NEW s \in Starters, Send(s)
      PROVE  TypeOK'
  <2>1. CASE Len(queue) < Buffer
    <3>1. PICK e \in start[s].id : queue' = Append(queue, e)
      BY <1>2, <2>1 DEF Send
    <3>2. e \in Exports
      BY <3>1 DEF TypeOK, StartState
    <3>3. queue' \in Seq(Exports) /\ Len(queue') <= Buffer
      BY <1>0, <2>1, <3>1, <3>2, AppendPositions DEF TypeOK
    <3> QED
      BY <1>2, <2>1, <3>3, ZenonT(60) DEF Send, TypeOK, StartState
  <2>2. CASE ~(Len(queue) < Buffer)
    BY <1>2, <2>2, ZenonT(60) DEF Send, TypeOK, StartState
  <2> QED
    BY <2>1, <2>2
<1>3. CASE Receive
  <2>1. queue' \in Seq(Exports) /\ Len(queue') <= Buffer /\ Head(queue) \in Exports
    BY <1>0, <1>3, TailPositions DEF Receive, TypeOK
  <2>2. worker' \in WorkerState
    BY <1>3, <2>1 DEF Receive, WorkerIdle, WorkerState, WorkerPc
  <2> QED
    BY <1>3, <2>1, <2>2 DEF Receive, TypeOK
<1>4. CASE Run
  <2>1. PICK e \in worker.id : results' = [results EXCEPT ![e].status = "running"]
    BY <1>4 DEF Run
  <2>2. [results[e] EXCEPT !.status = "running"] \in ExportResult /\ e \in Exports
    BY DEF TypeOK, ExportResult, ExportStatus, WorkerState
  <2>3. worker' \in WorkerState
    BY <1>4 DEF Run, TypeOK, WorkerState, WorkerPc
  <2> QED
    BY <1>4, <2>1, <2>2, <2>3 DEF Run, TypeOK
<1>5. CASE ExportResultsXLS
  BY <1>5 DEF ExportResultsXLS, CallOk, TypeOK, WorkerState, WorkerPc
<1>6. CASE Save
  BY <1>6, ZenonT(60) DEF Save, CallOk, TypeOK, WorkerState, WorkerPc
<1>7. CASE Finish
  <2>1. PICK e \in worker.id, field \in worker.unwritten :
           /\ results' = CASE field = "status" ->
                               [results EXCEPT ![e].status = IF worker.ok THEN "done" ELSE "failed"]
                         [] field = "stored" -> [results EXCEPT ![e].stored = worker.stored]
           /\ worker' = IF worker.unwritten = {field} THEN WorkerIdle
                        ELSE [worker EXCEPT !.unwritten = @ \ {field}]
    BY <1>7 DEF Finish
  <2>2. e \in Exports /\ worker.stored \in BOOLEAN /\ field \in Fields
    BY DEF TypeOK, WorkerState
  <2>3. worker' \in WorkerState
    BY <2>1 DEF TypeOK, WorkerState, WorkerIdle, WorkerPc, Fields
  <2>4. results' \in [Exports -> ExportResult]
    BY <2>1, <2>2 DEF TypeOK, ExportResult, ExportStatus, Fields
  <2> QED
    BY <1>7, <2>3, <2>4 DEF Finish, TypeOK
<1>8. ASSUME NEW p \in Pollers, NEW e \in Exports, Get(p, e)
      PROVE  TypeOK'
  BY <1>8 DEF Get, TypeOK, PollState
<1>9. ASSUME NEW p \in Pollers, ReadStorageID(p) \/ Presign(p)
      PROVE  TypeOK'
  <2>1. poll' \in [Pollers -> PollState]
    BY <1>9, ReadsOneEntry DEF TypeOK
  <2> QED
    BY <1>9, <2>1 DEF ReadStorageID, Presign, TypeOK
<1>10. ASSUME NEW p \in Pollers, Render(p)
       PROVE  TypeOK'
  <2>1. \E told \in ExportStatus \cup {"torn"} :
           poll' = [poll EXCEPT ![p].told = told, ![p].pc = "answered"]
    BY <1>10 DEF Render, TypeOK, PollState, ExportResult
  <2> QED
    BY <1>10, <2>1 DEF Render, TypeOK, PollState
<1>11. CASE Restart
  <2>1. queue' \in Seq(Exports) /\ Len(queue') = 0
    BY <1>11, EmptySeq DEF Restart
  <2>2. worker' \in WorkerState /\ results' \in [Exports -> ExportResult]
    BY <1>11 DEF Restart, WorkerIdle, WorkerState, WorkerPc, Fields, NoResult,
       ExportResult, ExportStatus
  <2>3. start' \in [Starters -> StartState]
    BY <1>11 DEF Restart, TypeOK, StartState
  <2>4. poll' \in [Pollers -> PollState]
    BY <1>11 DEF Restart, TypeOK, PollState
  <2> QED
    BY <1>0, <1>11, <2>1, <2>2, <2>3, <2>4 DEF Restart, TypeOK
<1>12. CASE UNCHANGED vars
  BY <1>12 DEF vars, TypeOK
<1> QED
  BY <1>1, <1>2, <1>3, <1>4, <1>5, <1>6, <1>7, <1>8, <1>9, <1>10, <1>11, <1>12
     DEF Next, WorkerStep

---------------------------------------------------------------------------
(***************************************************************************)
(* Where the exports are after each step                                   *)
(***************************************************************************)

\* A step that touches neither the requests nor the channel moves no export.
LEMMA NothingMoves ==
    ASSUME UNCHANGED <<start, queue>>
    PROVE  /\ \A d : Senders(d)' = Senders(d) /\ Positions(d)' = Positions(d)
           /\ \A d : Accepted(d)' <=> Accepted(d)
BY DEF Senders, Positions, Accepted

\* Enqueue puts an export without an entry in the hands of its request.
LEMMA EnqueueMoves ==
    ASSUME TypeOK, NEW s \in Starters, NEW e \in Exports, Enqueue(s, e)
    PROVE  /\ \A d : Senders(d)' = Senders(d) \cup
                       {t \in {s} : d = e /\ results[e].status = "none"}
           /\ \A d : Positions(d)' = Positions(d)
           /\ \A d : Accepted(d)' <=> Accepted(d)
<1>1. /\ \A t \in Starters \ {s} : start'[t] = start[t]
      /\ start[s].pc = "idle" /\ start'[s].id = {e}
      /\ start'[s].pc = IF results[e].status = "none" THEN "send" ELSE "exists"
      /\ queue' = queue
  BY DEF Enqueue, TypeOK
<1>2. \A d : Senders(d)' = Senders(d) \cup {t \in {s} : d = e /\ results[e].status = "none"}
  BY <1>1 DEF Senders
<1>3. \A d : Accepted(d)' <=> Accepted(d)
  BY <1>1 DEF Accepted
<1> QED
  BY <1>1, <1>2, <1>3 DEF Positions

\* Send takes the export out of the hands of its request and, if there is room,
\* puts it at the end of the channel.
LEMMA SendMoves ==
    ASSUME TypeOK, HandInv, NEW s \in Starters, Send(s)
    PROVE  \E e \in Exports :
              /\ s \in Senders(e) /\ start[s].id = {e}
              /\ \A d : Senders(d)' = Senders(d) \ {s}
              /\ IF Len(queue) < Buffer
                 THEN /\ queue' = Append(queue, e)
                      /\ \A d : Positions(d)' = Positions(d) \cup {i \in {Len(queue) + 1} : d = e}
                      /\ \A d : Accepted(d)' <=> Accepted(d) \/ d = e
                 ELSE /\ \A d : Positions(d)' = Positions(d)
                      /\ \A d : Accepted(d)' <=> Accepted(d)
<1>1. PICK e \in Exports : start[s].id = {e}
  BY DEF Send, HandInv
<1>2. /\ \A t \in Starters \ {s} : start'[t] = start[t]
      /\ start[s].pc = "send" /\ start'[s].id = {e}
      /\ start'[s].pc = IF Len(queue) < Buffer THEN "accepted" ELSE "full"
  BY <1>1 DEF Send, TypeOK, StartState
<1>3. s \in Senders(e) /\ \A d : Senders(d)' = Senders(d) \ {s}
  BY <1>1, <1>2 DEF Senders
<1>4. CASE Len(queue) < Buffer
  <2>1. queue' = Append(queue, e)
    BY <1>1, <1>4 DEF Send
  <2>2. \A d : Positions(d)' = Positions(d) \cup {i \in {Len(queue) + 1} : d = e}
    BY <2>1, AppendPositions DEF TypeOK
  <2>3. \A d : Accepted(d)' <=> Accepted(d) \/ d = e
    BY <1>1, <1>2, <1>4 DEF Accepted
  <2> QED
    BY <1>1, <1>3, <1>4, <2>1, <2>2, <2>3
<1>5. CASE ~(Len(queue) < Buffer)
  <2>1. \A d : Positions(d)' = Positions(d)
    BY <1>5 DEF Send, Positions
  <2>2. \A d : Accepted(d)' <=> Accepted(d)
    BY <1>1, <1>2, <1>5 DEF Accepted
  <2> QED
    BY <1>1, <1>3, <1>5, <2>1, <2>2
<1> QED
  BY <1>4, <1>5

\* Receive takes the first export of the channel, which is there only once.
LEMMA ReceiveMoves ==
    ASSUME TypeOK, PlaceInv, Receive
    PROVE  /\ Head(queue) \in Exports /\ InLine(Head(queue))
           /\ worker' = [WorkerIdle EXCEPT !.pc = "run", !.id = {Head(queue)}]
           /\ \A d \in Exports : \A i, k \in Positions(d)' : i = k
           /\ \A d \in Exports : InLine(d)' <=> InLine(d) /\ d # Head(queue)
           /\ \A d : Senders(d)' = Senders(d)
           /\ \A d : Accepted(d)' <=> Accepted(d)
<1>1. /\ Head(queue) \in Exports /\ 1 \in Positions(Head(queue)) /\ Len(queue) \in Nat
      /\ \A d : Positions(d)' = {i \in 1 .. Len(queue) - 1 : i + 1 \in Positions(d)}
  BY TailPositions, LenProperties DEF Receive, TypeOK
<1>2. \A d : Positions(d) \subseteq 1 .. Len(queue)
  BY LenProperties DEF TypeOK, Positions
<1>3. \A d \in Exports : \A i, k \in Positions(d)' : i = k
  BY <1>1 DEF PlaceInv
<1>4. InLine(Head(queue))
  BY <1>1 DEF InLine
<1>5. \A d \in Exports : InLine(d)' <=> InLine(d) /\ d # Head(queue)
  <2> PICK e : e = Head(queue)
    OBVIOUS
  <2>1. \A d \in Exports : d # e => 1 \notin Positions(d)
    BY TailPositions, HeadTailProperties DEF Receive, TypeOK, Positions
  <2>2. ASSUME NEW d \in Exports, d # e, NEW i \in Positions(d)
        PROVE  i - 1 \in Positions(d)'
    <3>1. i \in 1 .. Len(queue) /\ i # 1
      BY <1>2, <2>1, <2>2
    <3>2. i - 1 \in 1 .. Len(queue) - 1 /\ (i - 1) + 1 = i
      BY <1>1, <3>1
    <3> QED
      BY <1>1, <3>2
  <2>3. \A i \in Positions(e) : i = 1
    BY <1>1 DEF PlaceInv
  <2>4. Positions(e)' = {}
    <3>1. \A i \in 1 .. Len(queue) - 1 : i + 1 # 1
      BY <1>1
    <3> QED
      BY <1>1, <2>3, <3>1
  <2> QED
    BY <1>1, <2>2, <2>4 DEF InLine
<1>6. /\ \A d : Senders(d)' = Senders(d)
      /\ \A d : Accepted(d)' <=> Accepted(d)
  BY DEF Receive, Senders, Accepted
<1> QED
  BY <1>1, <1>3, <1>4, <1>5, <1>6 DEF Receive

\* A restart leaves no export anywhere.
LEMMA RestartMoves ==
    ASSUME TypeOK, Restart
    PROVE  /\ \A d : Senders(d)' = {} /\ Positions(d)' = {}
           /\ \A d : ~Accepted(d)'
<1>1. \A s \in Starters : start'[s].pc \in {"idle", "lost"}
  BY DEF Restart, TypeOK, StartState
<1>2. DOMAIN queue' = {}
  BY EmptySeq, LenProperties DEF Restart
<1> QED
  BY <1>1, <1>2 DEF Senders, Positions, Accepted

\* Finish writes one field of the entry in hand, and lets go of it after both.
Writes(e, field) ==
    /\ worker.id = {e} /\ worker.pc = "finish" /\ field \in worker.unwritten
    /\ \A d \in Exports \ {e} : results'[d] = results[d]
    /\ results'[e].status = IF field # "status" THEN results[e].status
                            ELSE IF worker.ok THEN "done" ELSE "failed"
    /\ results'[e].stored = IF field = "stored" THEN worker.stored ELSE results[e].stored
    /\ worker' = IF worker.unwritten = {field} THEN WorkerIdle
                 ELSE [worker EXCEPT !.unwritten = @ \ {field}]

LEMMA FinishWrites ==
    ASSUME TypeOK, HandInv, Finish
    PROVE  \E e \in Exports, field \in Fields : Writes(e, field)
<1>1. PICK e \in worker.id, field \in worker.unwritten :
         /\ results' = CASE field = "status" ->
                             [results EXCEPT ![e].status = IF worker.ok THEN "done" ELSE "failed"]
                       [] field = "stored" -> [results EXCEPT ![e].stored = worker.stored]
         /\ worker' = IF worker.unwritten = {field} THEN WorkerIdle
                      ELSE [worker EXCEPT !.unwritten = @ \ {field}]
  BY DEF Finish
<1>2. e \in Exports /\ worker.id = {e} /\ field \in {"status", "stored"} /\ worker.pc = "finish"
  BY DEF TypeOK, WorkerState, HandInv, Finish, Fields
<1>3. CASE field = "status"
  <2>1. results' = [results EXCEPT ![e].status = IF worker.ok THEN "done" ELSE "failed"]
    BY <1>1, <1>3
  <2>2. /\ \A d \in Exports \ {e} : results'[d] = results[d]
        /\ results'[e].status = IF worker.ok THEN "done" ELSE "failed"
        /\ results'[e].stored = results[e].stored
    BY <1>2, <2>1 DEF TypeOK, ExportResult
  <2>3. Writes(e, field)
    BY <1>1, <1>2, <1>3, <2>2, Zenon DEF Writes
  <2> QED
    BY <1>2, <2>3 DEF Fields
<1>4. CASE field = "stored"
  <2>1. results' = [results EXCEPT ![e].stored = worker.stored]
    BY <1>1, <1>4
  <2>2. /\ \A d \in Exports \ {e} : results'[d] = results[d]
        /\ results'[e].status = results[e].status
        /\ results'[e].stored = worker.stored
    BY <1>2, <2>1 DEF TypeOK, ExportResult
  <2>3. Writes(e, field)
    BY <1>1, <1>2, <1>4, <2>2, Zenon DEF Writes
  <2> QED
    BY <1>2, <2>3 DEF Fields
<1> QED
  BY <1>2, <1>3, <1>4 DEF Fields

---------------------------------------------------------------------------
(***************************************************************************)
(* Every step keeps the invariant                                          *)
(***************************************************************************)

LEMMA HandStep ==
    ASSUME TypeOK, HandInv, [Next]_vars
    PROVE  HandInv'
<1>1. ASSUME NEW s \in Starters, NEW e \in Exports, Enqueue(s, e)
      PROVE  HandInv'
  BY <1>1 DEF Enqueue, HandInv, TypeOK
<1>2. ASSUME NEW s \in Starters, Send(s)
      PROVE  HandInv'
  <2>1. \A t \in Starters : start'[t].id = start[t].id /\ (t # s => start'[t].pc = start[t].pc)
    BY <1>2 DEF Send, TypeOK, StartState
  <2>2. start[s].pc = "send" /\ UNCHANGED <<worker, poll>>
    BY <1>2 DEF Send
  <2> QED
    BY <2>1, <2>2 DEF HandInv
<1>3. CASE Receive
  <2>1. Head(queue) \in Exports
    BY <1>3, TailPositions DEF Receive, TypeOK
  <2> QED
    BY <1>3, <2>1 DEF Receive, HandInv, WorkerIdle, Fields
<1>4. CASE Run \/ ExportResultsXLS \/ Save
  <2>1. /\ worker'.id = worker.id /\ worker'.unwritten = worker.unwritten
        /\ worker'.pc \in {"generate", "save", "finish"}
        /\ worker.pc \notin {"receive", "finish"}
        /\ UNCHANGED <<start, poll>>
    BY <1>4 DEF Run, ExportResultsXLS, Save, TypeOK, WorkerState
  <2> QED
    BY <2>1 DEF HandInv
<1>5. CASE Finish
  <2>1. PICK field \in worker.unwritten :
           worker' = IF worker.unwritten = {field} THEN WorkerIdle
                     ELSE [worker EXCEPT !.unwritten = @ \ {field}]
    BY <1>5 DEF Finish
  <2>2. CASE worker.unwritten = {field}
    BY <1>5, <2>1, <2>2 DEF Finish, HandInv, WorkerIdle, Fields
  <2>3. CASE worker.unwritten # {field}
    BY <1>5, <2>1, <2>3 DEF Finish, HandInv, TypeOK, WorkerState
  <2> QED
    BY <2>2, <2>3
<1>6. ASSUME NEW p \in Pollers, NEW e \in Exports, Get(p, e)
      PROVE  HandInv'
  BY <1>6 DEF Get, HandInv, TypeOK, PollState
<1>7. ASSUME NEW p \in Pollers, ReadStorageID(p) \/ Presign(p)
      PROVE  HandInv'
  <2>1. \A q \in Pollers : poll'[q].id = poll[q].id /\ (poll'[q].pc = "idle" <=> poll[q].pc = "idle")
    BY <1>7, ReadsOneEntry DEF TypeOK
  <2> QED
    BY <1>7, <2>1 DEF ReadStorageID, Presign, HandInv
<1>8. ASSUME NEW p \in Pollers, Render(p)
      PROVE  HandInv'
  BY <1>8 DEF Render, HandInv, TypeOK, PollState
<1>9. CASE Restart
  BY <1>9 DEF Restart, HandInv, TypeOK, StartState, PollState, WorkerIdle, Fields
<1>10. CASE UNCHANGED vars
  BY <1>10 DEF vars, HandInv
<1> QED
  BY <1>1, <1>2, <1>3, <1>4, <1>5, <1>6, <1>7, <1>8, <1>9, <1>10 DEF Next, WorkerStep

\* An export without an entry is nowhere, and no request was promised it.
LEMMA NoEntry ==
    ASSUME TypeOK, HandInv, EntryInv, NEW e \in Exports, results[e].status = "none"
    PROVE  Senders(e) = {} /\ ~InLine(e) /\ e \notin worker.id /\ ~Accepted(e)
<1>1. ~Sending(e) /\ ~InLine(e)
  BY DEF EntryInv
<1>2. e \notin worker.id
  BY DEF EntryInv, HandInv, TypeOK, WorkerState, WorkerPc
<1> QED
  BY <1>1, <1>2 DEF EntryInv, Sending

LEMMA PlaceStep ==
    ASSUME TypeOK, HandInv, PlaceInv, EntryInv, [Next]_vars
    PROVE  PlaceInv'
<1>1. ASSUME NEW s \in Starters, NEW e \in Exports, Enqueue(s, e)
      PROVE  PlaceInv'
  <2>1. results[e].status = "none" =>
           Senders(e) = {} /\ ~InLine(e) /\ e \notin worker.id /\ ~Accepted(e)
    BY NoEntry
  <2>2. worker' = worker
    BY <1>1 DEF Enqueue
  <2> QED
    BY <1>1, <2>1, <2>2, EnqueueMoves DEF PlaceInv, Sending, InLine
<1>2. ASSUME NEW s \in Starters, Send(s)
      PROVE  PlaceInv'
  <2>1. worker' = worker /\ \A d : Len(queue) + 1 \notin Positions(d)
    BY <1>2, LenProperties DEF Send, Positions, TypeOK
  <2>2. PICK e \in Exports :
              /\ s \in Senders(e) /\ start[s].id = {e}
              /\ \A d : Senders(d)' = Senders(d) \ {s}
              /\ IF Len(queue) < Buffer
                 THEN /\ queue' = Append(queue, e)
                      /\ \A d : Positions(d)' = Positions(d) \cup {i \in {Len(queue) + 1} : d = e}
                      /\ \A d : Accepted(d)' <=> Accepted(d) \/ d = e
                 ELSE /\ \A d : Positions(d)' = Positions(d)
                      /\ \A d : Accepted(d)' <=> Accepted(d)
    BY <1>2, SendMoves
  <2>3. Senders(e)' = {} /\ Positions(e) = {} /\ e \notin worker.id
    BY <2>2 DEF PlaceInv, Sending, InLine
  <2>4. CASE Len(queue) < Buffer
    BY <2>1, <2>2, <2>3, <2>4 DEF PlaceInv, Sending, InLine
  <2>5. CASE ~(Len(queue) < Buffer)
    BY <2>1, <2>2, <2>3, <2>5 DEF PlaceInv, Sending, InLine
  <2> QED
    BY <2>4, <2>5
<1>3. CASE Receive
  <2>1. worker'.id = {Head(queue)}
    BY <1>3, ReceiveMoves DEF WorkerIdle
  <2>2. \A d : Sending(d)' <=> Sending(d)
    BY <1>3, ReceiveMoves DEF Sending
  <2> QED
    BY <1>3, <2>1, <2>2, ReceiveMoves DEF PlaceInv
<1>4. CASE UNCHANGED <<start, queue>> /\ worker'.id \subseteq worker.id
  BY <1>4, NothingMoves DEF PlaceInv, Sending, InLine
<1>5. CASE Restart
  BY <1>5, RestartMoves DEF PlaceInv, Sending, InLine
<1>6. Run \/ ExportResultsXLS \/ Save => UNCHANGED <<start, queue>> /\ worker'.id \subseteq worker.id
  BY DEF Run, ExportResultsXLS, Save, TypeOK, WorkerState
<1>7. Finish => UNCHANGED <<start, queue>> /\ worker'.id \subseteq worker.id
  BY DEF Finish, TypeOK, WorkerState, WorkerIdle
<1>8. \A p \in Pollers :
         ReadStorageID(p) \/ Presign(p) \/ Render(p) \/ (\E e \in Exports : Get(p, e)) =>
            UNCHANGED <<start, queue>> /\ worker'.id \subseteq worker.id
  BY DEF ReadStorageID, Presign, Render, Get
<1>9. UNCHANGED vars => UNCHANGED <<start, queue>> /\ worker'.id \subseteq worker.id
  BY DEF vars
<1> QED
  BY <1>1, <1>2, <1>3, <1>4, <1>5, <1>6, <1>7, <1>8, <1>9 DEF Next, WorkerStep

LEMMA EntryStep ==
    ASSUME TypeOK, HandInv, PlaceInv, EntryInv, [Next]_vars
    PROVE  EntryInv'
<1>1. ASSUME NEW s \in Starters, NEW e \in Exports, Enqueue(s, e)
      PROVE  EntryInv'
  <2>1. \A d : /\ Sending(d)' => Sending(d) \/ (d = e /\ results[e].status = "none")
               /\ InLine(d)' <=> InLine(d)
               /\ Accepted(d)' <=> Accepted(d)
    <3>1. /\ \A d : Senders(d)' = Senders(d) \cup
                           {t \in {s} : d = e /\ results[e].status = "none"}
          /\ \A d : Positions(d)' = Positions(d)
          /\ \A d : Accepted(d)' <=> Accepted(d)
      BY <1>1, EnqueueMoves
    <3>2. \A d : Sending(d)' => Sending(d) \/ (d = e /\ results[e].status = "none")
      BY <3>1 DEF Sending
    <3>3. \A d : InLine(d)' <=> InLine(d)
      BY <3>1 DEF InLine
    <3> QED
      BY <3>1, <3>2, <3>3, Zenon
  <2>2. CASE results[e].status # "none"
    <3>1. UNCHANGED <<results, worker>>
      BY <1>1, <2>2 DEF Enqueue
    <3> QED
      BY <2>1, <2>2, <3>1 DEF EntryInv
  <2>3. CASE results[e].status = "none"
    <3>1. /\ worker' = worker /\ results'[e].status = "pending"
          /\ \A d \in Exports \ {e} : results'[d] = results[d]
      BY <1>1, <2>3 DEF Enqueue, TypeOK, ExportResult
    <3>2. e \notin worker.id /\ worker.id \subseteq Exports /\ ~Accepted(e)
      BY <2>3, NoEntry DEF TypeOK, WorkerState
    <3> QED
      BY <2>1, <3>1, <3>2 DEF EntryInv
  <2> QED
    BY <2>2, <2>3
<1>2. ASSUME NEW s \in Starters, Send(s)
      PROVE  EntryInv'
  <2>1. UNCHANGED <<results, worker>>
    BY <1>2 DEF Send
  <2>2. \E e \in Exports :
           /\ Sending(e)
           /\ \A d : /\ Sending(d)' => Sending(d)
                     /\ InLine(d) => InLine(d)'
                     /\ InLine(d)' => InLine(d) \/ d = e
                     /\ Accepted(d)' => Accepted(d) \/ (d = e /\ InLine(d)')
    <3>1. PICK e \in Exports :
                /\ s \in Senders(e) /\ start[s].id = {e}
                /\ \A d : Senders(d)' = Senders(d) \ {s}
                /\ IF Len(queue) < Buffer
                   THEN /\ queue' = Append(queue, e)
                        /\ \A d : Positions(d)' = Positions(d) \cup {i \in {Len(queue) + 1} : d = e}
                        /\ \A d : Accepted(d)' <=> Accepted(d) \/ d = e
                   ELSE /\ \A d : Positions(d)' = Positions(d)
                        /\ \A d : Accepted(d)' <=> Accepted(d)
      BY <1>2, SendMoves
    <3>2. Sending(e) /\ \A d : Sending(d)' => Sending(d)
      BY <3>1 DEF Sending
    <3>3. CASE Len(queue) < Buffer
      <4>1. \A d : InLine(d)' <=> InLine(d) \/ d = e
        BY <3>1, <3>3 DEF InLine
      <4> QED
        BY <3>1, <3>2, <3>3, <4>1 DEF Accepted
    <3>4. CASE ~(Len(queue) < Buffer)
      <4>1. \A d : InLine(d)' <=> InLine(d)
        BY <3>1, <3>4 DEF InLine
      <4> QED
        BY <3>1, <3>2, <3>4, <4>1, Zenon
    <3> QED
      BY <3>3, <3>4
  <2> QED
    BY <2>1, <2>2 DEF EntryInv
<1>3. CASE Receive
  <2>1. results' = results /\ worker.id = {} /\ worker'.id = {Head(queue)} /\ worker'.pc = "run"
    BY <1>3, ReceiveMoves DEF Receive, HandInv, WorkerIdle
  <2>2. \A d : Sending(d)' <=> Sending(d)
    BY <1>3, ReceiveMoves DEF Sending
  <2> QED
    BY <1>3, <2>1, <2>2, ReceiveMoves DEF EntryInv
<1>4. CASE Run
  <2>1. PICK e \in Exports : worker.id = {e}
    BY <1>4 DEF Run, HandInv
  <2>2. /\ results'[e].status = "running" /\ worker.pc = "run"
        /\ \A d \in Exports \ {e} : results'[d] = results[d]
        /\ worker'.id = {e} /\ worker'.pc = "generate"
    BY <1>4, <2>1 DEF Run, TypeOK, ExportResult, WorkerState
  <2>3. \A d : /\ Sending(d)' <=> Sending(d)
               /\ InLine(d)' <=> InLine(d)
               /\ Accepted(d)' <=> Accepted(d)
    BY <1>4, NothingMoves DEF Run, Sending, InLine
  <2>4. ~Sending(e) /\ ~InLine(e)
    BY <2>1 DEF PlaceInv
  <2> QED
    BY <2>1, <2>2, <2>3, <2>4 DEF EntryInv
<1>5. CASE ExportResultsXLS \/ Save
  <2>1. /\ results' = results /\ worker.pc \in {"generate", "save"}
        /\ worker'.id = worker.id /\ worker'.pc \in {"save", "finish"}
        /\ "status" \in worker'.unwritten
    BY <1>5 DEF ExportResultsXLS, Save, TypeOK, WorkerState, HandInv, Fields
  <2>2. \A d : /\ Sending(d)' <=> Sending(d)
               /\ InLine(d)' <=> InLine(d)
               /\ Accepted(d)' <=> Accepted(d)
    BY <1>5, NothingMoves DEF ExportResultsXLS, Save, Sending, InLine
  <2> QED
    BY <2>1, <2>2 DEF EntryInv
<1>6. CASE Finish
  <2>1. PICK e \in Exports, field \in Fields : Writes(e, field)
    BY <1>6, FinishWrites
  <2>2. \A d : /\ Sending(d)' <=> Sending(d)
               /\ InLine(d)' <=> InLine(d)
               /\ Accepted(d)' <=> Accepted(d)
    BY <1>6, NothingMoves DEF Finish, Sending, InLine
  <2>3. ~Sending(e) /\ ~InLine(e) /\ \A d \in Exports \ {e} : results'[d] = results[d]
    BY <2>1 DEF PlaceInv, Writes
  <2>4. CASE worker.unwritten = {field}
    <3>1. worker'.id = {} /\ results'[e].status \in {"done", "failed"}
      BY <2>1, <2>4 DEF Writes, WorkerIdle, EntryInv
    <3> QED
      BY <2>1, <2>2, <2>3, <3>1 DEF EntryInv, Writes
  <2>5. CASE worker.unwritten # {field}
    <3>1. /\ worker'.id = {e} /\ worker'.pc = "finish" /\ worker'.ok = worker.ok
          /\ worker'.unwritten = worker.unwritten \ {field}
      BY <2>1, <2>5 DEF Writes, TypeOK, WorkerState
    <3>2. results'[e].status = IF "status" \in worker'.unwritten THEN "running"
                               ELSE IF worker'.ok THEN "done" ELSE "failed"
      BY <2>1, <3>1 DEF Writes, EntryInv
    <3> QED
      BY <2>1, <2>2, <2>3, <3>1, <3>2 DEF EntryInv, Writes
  <2> QED
    BY <2>4, <2>5
<1>7. CASE UNCHANGED <<results, start, queue, worker>>
  BY <1>7, NothingMoves DEF EntryInv, Sending, InLine
<1>8. CASE Restart
  BY <1>8, RestartMoves DEF Restart, EntryInv, Sending, InLine, WorkerIdle
<1>9. \A p \in Pollers :
         ReadStorageID(p) \/ Presign(p) \/ Render(p) \/ (\E e \in Exports : Get(p, e)) =>
            UNCHANGED <<results, start, queue, worker>>
  BY DEF ReadStorageID, Presign, Render, Get
<1>10. UNCHANGED vars => UNCHANGED <<results, start, queue, worker>>
  BY DEF vars
<1> QED
  BY <1>1, <1>2, <1>3, <1>4, <1>5, <1>6, <1>7, <1>8, <1>9, <1>10 DEF Next, WorkerStep

LEMMA StoredStep ==
    ASSUME TypeOK, HandInv, PlaceInv, EntryInv, StoredInv, [Next]_vars
    PROVE  StoredInv'
<1>1. ASSUME NEW s \in Starters, NEW e \in Exports, Enqueue(s, e)
      PROVE  StoredInv'
  <2>1. CASE results[e].status # "none"
    BY <1>1, <2>1 DEF Enqueue, StoredInv
  <2>2. CASE results[e].status = "none"
    <3>1. /\ UNCHANGED <<worker, files>>
          /\ results'[e].status = "pending" /\ results'[e].stored = results[e].stored
          /\ \A d \in Exports \ {e} : results'[d] = results[d]
      BY <1>1, <2>2 DEF Enqueue, TypeOK, ExportResult
    <3>2. e \notin worker.id /\ worker.id \subseteq Exports /\ ~results[e].stored
      BY <2>2, NoEntry DEF TypeOK, WorkerState, ExportResult, StoredInv
    <3> QED
      BY <3>1, <3>2 DEF StoredInv
  <2> QED
    BY <2>1, <2>2
<1>2. CASE Receive
  <2>1. /\ UNCHANGED <<results, files>> /\ worker'.id = {Head(queue)} /\ worker'.pc = "run"
        /\ ~worker'.stored /\ worker.id = {}
    BY <1>2 DEF Receive, WorkerIdle, HandInv
  <2>2. Head(queue) \in Exports /\ results[Head(queue)].status = "pending"
    BY <1>2, ReceiveMoves DEF EntryInv
  <2> QED
    BY <2>1, <2>2 DEF StoredInv, TypeOK, ExportResult
<1>3. CASE Run
  <2>1. PICK e \in Exports : worker.id = {e}
    BY <1>3 DEF Run, HandInv
  <2>2. /\ results'[e].status = "running" /\ results'[e].stored = results[e].stored
        /\ \A d \in Exports \ {e} : results'[d] = results[d]
        /\ worker'.id = {e} /\ worker'.pc = "generate" /\ worker'.stored = worker.stored
        /\ worker.pc = "run" /\ files' = files
    BY <1>3, <2>1 DEF Run, TypeOK, ExportResult, WorkerState
  <2> QED
    BY <2>1, <2>2 DEF StoredInv
<1>4. CASE ExportResultsXLS
  <2>1. /\ UNCHANGED <<results, files>> /\ worker'.id = worker.id /\ worker.pc = "generate"
        /\ worker'.stored = worker.stored /\ worker'.pc \in {"save", "finish"}
        /\ worker'.pc = "finish" => ~(worker'.ok /\ HasStorage)
    BY <1>4 DEF ExportResultsXLS, TypeOK, WorkerState
  <2> QED
    BY <2>1 DEF StoredInv
<1>5. CASE Save
  <2>1. PICK ok \in CallOk, left \in BOOLEAN :
           /\ files' = IF ok \/ left THEN files \cup worker.id ELSE files
           /\ worker' = [worker EXCEPT !.ok = ok, !.stored = ok, !.pc = "finish"]
    BY <1>5 DEF Save
  <2>2. /\ results' = results /\ worker'.id = worker.id /\ worker.pc = "save"
        /\ worker'.pc = "finish" /\ worker'.stored = ok /\ worker'.ok = ok
        /\ "stored" \in worker'.unwritten
        /\ files \subseteq files' /\ (ok => worker.id \subseteq files')
    BY <1>5, <2>1 DEF Save, TypeOK, WorkerState, HandInv, Fields
  <2> QED
    BY <2>2 DEF StoredInv
<1>6. CASE Finish
  <2>1. PICK e \in Exports, field \in Fields : Writes(e, field)
    BY <1>6, FinishWrites
  <2>2. /\ files' = files /\ worker.id = {e} /\ worker.pc = "finish"
        /\ \A d \in Exports \ {e} : results'[d] = results[d]
    BY <1>6, <2>1 DEF Finish, Writes
  <2>3. /\ results'[e].stored => worker.stored
        /\ results'[e].stored => results'[e].status \in {"running", "done"}
    BY <2>1, <2>2 DEF Writes, StoredInv, EntryInv
  <2>4. CASE worker.unwritten = {field}
    <3>1. /\ worker' = WorkerIdle
          /\ results'[e].stored = worker.stored
          /\ results'[e].status = IF worker.ok THEN "done" ELSE "failed"
      BY <2>1, <2>2, <2>4 DEF Writes, StoredInv, EntryInv, Fields, TypeOK, WorkerState
    <3> QED
      BY <2>2, <2>3, <3>1 DEF StoredInv, WorkerIdle
  <2>5. CASE worker.unwritten # {field}
    <3>1. /\ worker'.id = {e} /\ worker'.pc = "finish" /\ worker'.ok = worker.ok
          /\ worker'.stored = worker.stored
          /\ worker'.unwritten = worker.unwritten \ {field}
      BY <2>1, <2>5 DEF Writes, TypeOK, WorkerState
    <3>2. results'[e].stored = ("stored" \notin worker'.unwritten /\ worker'.stored)
      BY <2>1, <2>2, <3>1 DEF Writes, StoredInv, TypeOK, WorkerState
    <3> QED
      BY <2>2, <2>3, <3>1, <3>2 DEF StoredInv
  <2> QED
    BY <2>4, <2>5
<1>7. CASE Restart
  BY <1>7 DEF Restart, StoredInv, WorkerIdle, NoResult
<1>8. CASE UNCHANGED <<results, worker, files>>
  BY <1>8 DEF StoredInv
<1>9. \A p \in Pollers :
         ReadStorageID(p) \/ Presign(p) \/ Render(p) \/ (\E e \in Exports : Get(p, e)) =>
            UNCHANGED <<results, worker, files>>
  BY DEF ReadStorageID, Presign, Render, Get
<1>10. (\E s \in Starters : Send(s)) \/ UNCHANGED vars => UNCHANGED <<results, worker, files>>
  BY DEF Send, vars
<1> QED
  BY <1>1, <1>2, <1>3, <1>4, <1>5, <1>6, <1>7, <1>8, <1>9, <1>10 DEF Next, WorkerStep

LEMMA PollStep ==
    ASSUME TypeOK, HandInv, EntryInv, StoredInv, PollInv, [Next]_vars
    PROVE  PollInv'
\* A step of the manager keeps what its pollers know: it changes no entry that
\* is settled and takes no file out of an entry.
<1>1. ASSUME UNCHANGED poll,
             \A e \in Exports :
                /\ results[e].stored => results'[e].stored
                /\ results[e].status \in {"done", "failed"} => results'[e].status = results[e].status
      PROVE  PollInv'
  BY <1>1 DEF PollInv, TypeOK, PollState
<1>2. ASSUME NEW s \in Starters, NEW e \in Exports, Enqueue(s, e)
      PROVE  PollInv'
  <2>1. CASE results[e].status # "none"
    BY <1>1, <1>2, <2>1 DEF Enqueue
  <2>2. CASE results[e].status = "none"
    <3>1. /\ results'[e].stored = results[e].stored /\ UNCHANGED poll
          /\ \A d \in Exports \ {e} : results'[d] = results[d]
      BY <1>2, <2>2 DEF Enqueue, TypeOK, ExportResult
    <3> QED
      BY <1>1, <2>2, <3>1
  <2> QED
    BY <2>1, <2>2
<1>3. CASE Run
  <2>1. PICK e \in Exports : worker.id = {e}
    BY <1>3 DEF Run, HandInv
  <2>2. /\ results'[e].stored = results[e].stored /\ UNCHANGED poll
        /\ \A d \in Exports \ {e} : results'[d] = results[d]
    BY <1>3, <2>1 DEF Run, TypeOK, ExportResult
  <2>3. results[e].status = "pending"
    BY <1>3, <2>1 DEF Run, EntryInv
  <2> QED
    BY <1>1, <2>2, <2>3
<1>4. CASE Finish
  <2>1. PICK e \in Exports, field \in Fields : Writes(e, field)
    BY <1>4, FinishWrites
  <2>2. /\ results[e].stored => results'[e].stored
        /\ results[e].status \in {"done", "failed"} => results'[e].status = results[e].status
    BY <2>1 DEF Writes, StoredInv, EntryInv, TypeOK, WorkerState
  <2>3. UNCHANGED poll /\ \A d \in Exports \ {e} : results'[d] = results[d]
    BY <1>4, <2>1 DEF Finish, Writes
  <2> QED
    BY <1>1, <2>2, <2>3
<1>5. (\E s \in Starters : Send(s)) \/ Receive \/ ExportResultsXLS \/ Save \/ UNCHANGED vars =>
         UNCHANGED <<results, poll>>
  BY DEF Send, Receive, ExportResultsXLS, Save, vars
<1>6. CASE UNCHANGED <<results, poll>>
  BY <1>1, <1>6
<1>7. ASSUME NEW p \in Pollers, NEW e \in Exports, Get(p, e)
      PROVE  PollInv'
  <2>1. /\ results' = results /\ poll[p].pc = "idle"
        /\ \A q \in Pollers \ {p} : poll'[q] = poll[q]
        /\ poll'[p].pc \in {"missing", "read"}
        /\ poll'[p].url = poll[p].url /\ poll'[p].told = poll[p].told
    BY <1>7 DEF Get, TypeOK, PollState
  <2> QED
    BY <2>1 DEF PollInv
<1>8. ASSUME NEW p \in Pollers, ReadStorageID(p) \/ Presign(p)
      PROVE  PollInv'
  <2>1. results' = results
    BY <1>8 DEF ReadStorageID, Presign
  <2>2. /\ \A q \in Pollers \ {p} : poll'[q] = poll[q]
        /\ poll[p].pc \in {"read", "file"} /\ poll'[p].pc \in {"file", "render", "answered", "error"}
        /\ poll'[p].id = poll[p].id /\ poll'[p].told = poll[p].told
        /\ poll'[p].url \/ poll'[p].pc = "file" =>
              poll[p].url \/ poll[p].pc = "file" \/ \E e \in poll[p].id : results[e].stored
    BY <1>8, ReadsOneEntry DEF TypeOK
  <2>3. PICK e \in Exports : poll[p].id = {e}
    BY <2>2 DEF HandInv
  <2> QED
    BY <2>1, <2>2, <2>3 DEF PollInv
<1>9. ASSUME NEW p \in Pollers, Render(p)
      PROVE  PollInv'
  <2>1. PICK e \in Exports : poll[p].id = {e}
    BY <1>9 DEF Render, HandInv
  <2>2. /\ results' = results /\ poll[p].pc = "render"
        /\ \A q \in Pollers \ {p} : poll'[q] = poll[q]
        /\ poll'[p].id = {e} /\ poll'[p].pc = "answered" /\ poll'[p].url = poll[p].url
        /\ poll'[p].told \in {results[e].status, "torn"}
    BY <1>9, <2>1 DEF Render, TypeOK, PollState
  <2> QED
    BY <2>1, <2>2 DEF PollInv
<1>10. CASE Restart
  <2>1. \A p \in Pollers : IF poll[p].pc = "idle" THEN poll'[p] = poll[p] ELSE poll'[p].pc = "lost"
    BY <1>10 DEF Restart, TypeOK, PollState
  <2> QED
    BY <2>1 DEF PollInv
<1> QED
  BY <1>2, <1>3, <1>4, <1>5, <1>6, <1>7, <1>8, <1>9, <1>10 DEF Next, WorkerStep

LEMMA ExportInvStep ==
    ASSUME ExportInv, [Next]_vars
    PROVE  ExportInv'
BY ExportTypeStep, HandStep, PlaceStep, EntryStep, StoredStep, PollStep DEF ExportInv

LEMMA ExportInvInit == Init => ExportInv
<1> SUFFICES ASSUME Init PROVE ExportInv
  OBVIOUS
<1>1. TypeOK
  BY ExportTypeInit
<1>2. HandInv
  BY DEF Init, HandInv, WorkerIdle, Fields, PollIdle
<1>3. \A d : Senders(d) = {} /\ Positions(d) = {} /\ ~Accepted(d)
  BY EmptySeq, LenProperties DEF Init, Senders, Positions, Accepted
<1>4. PlaceInv /\ EntryInv
  BY <1>3 DEF Init, PlaceInv, EntryInv, Sending, InLine, WorkerIdle
<1>5. StoredInv
  BY DEF Init, StoredInv, WorkerIdle, NoResult
<1>6. PollInv
  BY DEF Init, PollInv, PollIdle
<1> QED
  BY <1>1, <1>2, <1>4, <1>5, <1>6 DEF ExportInv

---------------------------------------------------------------------------
(***************************************************************************)
(* What holds of every behaviour                                           *)
(***************************************************************************)

LEMMA ExportInvAlways == Spec => []ExportInv
BY ExportInvInit, ExportInvStep, PTL DEF Spec

\* The variables of the manager, its worker and its requests have their types,
\* and the channel never holds more than its capacity.
THEOREM ExporterTypes == Spec => []TypeOK
<1>1. ExportInv => TypeOK
  BY DEF ExportInv
<1> QED
  BY <1>1, ExportInvAlways, PTL

\* What is in a set with at most one element.
LEMMA AtMostOne ==
    ASSUME NEW S, \A x, y \in S : x = y
    PROVE  Cardinality(S) = IF S = {} THEN 0 ELSE 1
<1>1. CASE S = {}
  BY <1>1, FS_EmptySet
<1>2. CASE S # {}
  <2>1. PICK x : S = {x}
    BY <1>2
  <2> QED
    BY <1>2, <2>1, FS_Singleton
<1> QED
  BY <1>1, <1>2

\* Between Enqueue, which makes the entry and lets go of the mutex, and the end
\* of its work an export is in one place, and one that was accepted is never
\* lost: neither the requests that race for the mutex nor a full channel can
\* make the worker do it twice.
THEOREM ExportInOnePlace == Spec => []InOnePlace
<1>1. ASSUME ExportInv PROVE InOnePlace
  <2> SUFFICES ASSUME NEW e \in Exports
               PROVE  /\ Places(e) <= 1
                      /\ Accepted(e) => Places(e) = IF Settled(e) THEN 0 ELSE 1
    BY DEF InOnePlace
  <2> USE <1>1 DEF ExportInv
  <2>1. Cardinality(Senders(e)) = IF Sending(e) THEN 1 ELSE 0
    BY AtMostOne DEF PlaceInv, Sending
  <2>2. Cardinality(Positions(e)) = IF InLine(e) THEN 1 ELSE 0
    BY AtMostOne DEF PlaceInv, InLine
  <2>3. Cardinality({e} \cap worker.id) = IF e \in worker.id THEN 1 ELSE 0
    BY AtMostOne
  <2>4. /\ Sending(e) => ~InLine(e) /\ e \notin worker.id /\ ~Accepted(e)
        /\ InLine(e) => e \notin worker.id /\ results[e].status = "pending"
        /\ Accepted(e) => InLine(e) \/ e \in worker.id \/ results[e].status \in {"done", "failed"}
    BY DEF PlaceInv, EntryInv
  <2> QED
    BY <2>1, <2>2, <2>3, <2>4 DEF Places, Settled
<1> QED
  BY <1>1, ExportInvAlways, PTL

\* Save comes before the entry says done, and an entry names a file only when
\* Save succeeded: a finished export can be downloaded, a failed one names none.
THEOREM DoneExportIsStored == Spec => []DoneIsStored
<1>1. ExportInv => DoneIsStored
  BY DEF ExportInv, StoredInv, DoneIsStored, Settled
<1> QED
  BY <1>1, ExportInvAlways, PTL

\* HandleGetExport reads the fields without the mutex while the worker writes
\* them, and yet no answer has a file of a failed export or one that storage
\* does not have, and none is taken back.
THEOREM ExportAnswersHonest == Spec => []PollIsHonest
<1>1. ExportInv => PollIsHonest
  BY DEF ExportInv, TypeOK, PollState, StoredInv, PollInv, PollIsHonest
<1> QED
  BY <1>1, ExportInvAlways, PTL

---------------------------------------------------------------------------
(***************************************************************************)
(* Every step is a step of ExportQueue                                     *)
(***************************************************************************)

\* The state of an export that a step leaves where it is.
LEMMA StateKept ==
    ASSUME NEW d,
           Sending(d)' <=> Sending(d), InLine(d)' <=> InLine(d), Accepted(d)' <=> Accepted(d),
           d \in worker'.id <=> d \in worker.id,
           results'[d].status = results[d].status
    PROVE  ExportState(d)' = ExportState(d)
BY DEF ExportState, Settled

\* The steps of ExportQueue, in the terms of the manager.
LEMMA QueueAccept ==
    ASSUME NEW e \in Exports, ExportState(e) = "new", ExportState(e)' = "waiting",
           \A d \in Exports \ {e} : ExportState(d)' = ExportState(d),
           queue' = Append(queue, e)
    PROVE  Queue!Next
<1>1. Queue!Accept(e)
  BY DEF Queue!Accept
<1> QED
  BY <1>1 DEF Queue!Next

LEMMA QueueRefuse ==
    ASSUME NEW e \in Exports, ExportState(e) = "new", ExportState(e)' = "refused",
           \A d \in Exports \ {e} : ExportState(d)' = ExportState(d),
           queue' = queue
    PROVE  Queue!Next
<1>1. Queue!Refuse(e)
  BY DEF Queue!Refuse
<1> QED
  BY <1>1 DEF Queue!Next

LEMMA QueueStart ==
    ASSUME NEW e \in Exports, e = Head(queue), queue # <<>>, queue' = Tail(queue),
           \A d \in Exports : ExportState(d) # "running",
           ExportState(e)' = "running",
           \A d \in Exports \ {e} : ExportState(d)' = ExportState(d)
    PROVE  Queue!Next
<1>1. Queue!Start(e)
  BY DEF Queue!Start
<1> QED
  BY <1>1 DEF Queue!Next

LEMMA QueueSettle ==
    ASSUME NEW e \in Exports, ExportState(e) = "running", ExportState(e)' = "settled",
           \A d \in Exports \ {e} : ExportState(d)' = ExportState(d),
           queue' = queue
    PROVE  Queue!Next
<1>1. Queue!Settle(e)
  BY DEF Queue!Settle
<1> QED
  BY <1>1 DEF Queue!Next

LEMMA QueueRestart ==
    ASSUME \A d \in Exports : ExportState(d)' = "new", queue' = <<>>
    PROVE  Queue!Next
<1>1. Queue!Restart
  BY DEF Queue!Restart
<1> QED
  BY <1>1 DEF Queue!Next

LEMMA QueueStutter ==
    ASSUME \A d \in Exports : ExportState(d)' = ExportState(d), queue' = queue
    PROVE  UNCHANGED Queue!vars
BY DEF Queue!vars

\* What the mapping makes of an export in each place.
LEMMA StateOf ==
    ASSUME ExportInv, NEW e \in Exports
    PROVE  /\ Sending(e) => ExportState(e) = "new"
           /\ results[e].status = "none" => ExportState(e) = "new"
           /\ InLine(e) => ExportState(e) = "waiting"
           /\ e \in worker.id <=> ExportState(e) = "running"
           /\ ~Sending(e) /\ ~InLine(e) /\ Settled(e) => ExportState(e) = "settled"
           /\ results[e].status = "pending" /\ ~Sending(e) /\ ~InLine(e) /\ e \notin worker.id
                 /\ ~Accepted(e) => ExportState(e) = "refused"
<1>1. /\ InLine(e) => ~Sending(e) /\ results[e].status = "pending" /\ e \notin worker.id
      /\ e \in worker.id => ~Sending(e) /\ ~InLine(e)
  BY DEF ExportInv, PlaceInv, EntryInv
<1>2. e \in worker.id => results[e].status # "none"
  BY NoEntry DEF ExportInv
<1> QED
  BY <1>1, <1>2 DEF ExportState, Settled

LEMMA QueueSteps ==
    ASSUME ExportInv, ExportInv', [Next]_vars
    PROVE  Queue!Next \/ UNCHANGED Queue!vars
<1> USE DEF ExportInv
<1>1. ASSUME NEW s \in Starters, NEW e \in Exports, Enqueue(s, e)
      PROVE  UNCHANGED Queue!vars
  <2>1. /\ \A d : Senders(d)' = Senders(d) \cup
                         {t \in {s} : d = e /\ results[e].status = "none"}
        /\ \A d : Positions(d)' = Positions(d)
        /\ \A d : Accepted(d)' <=> Accepted(d)
    BY <1>1, EnqueueMoves
  <2>2. \A d : InLine(d)' <=> InLine(d)
    BY <2>1 DEF InLine
  <2>3. queue' = queue /\ worker' = worker
    BY <1>1 DEF Enqueue
  <2>4. CASE results[e].status # "none"
    <3>1. results' = results /\ \A d : Sending(d)' <=> Sending(d)
      BY <1>1, <2>1, <2>4 DEF Enqueue, Sending
    <3>2. \A d \in Exports : ExportState(d)' = ExportState(d)
      BY <2>1, <2>2, <2>3, <3>1, StateKept
    <3> QED
      BY <2>3, <3>2, QueueStutter
  <2>5. CASE results[e].status = "none"
    <3>1. /\ \A d \in Exports \ {e} : results'[d] = results[d]
          /\ \A d \in Exports \ {e} : Sending(d)' <=> Sending(d)
      BY <1>1, <2>1, <2>5 DEF Enqueue, TypeOK, Sending
    <3>2. \A d \in Exports \ {e} : ExportState(d)' = ExportState(d)
      BY <2>1, <2>2, <2>3, <3>1, StateKept
    <3>3. Sending(e)'
      BY <2>1, <2>5 DEF Sending
    <3>4. ExportState(e) = "new" /\ ExportState(e)' = "new"
      BY <2>5, <3>3, StateOf DEF ExportState
    <3> QED
      BY <2>3, <3>2, <3>4, QueueStutter
  <2> QED
    BY <2>4, <2>5
<1>2. ASSUME NEW s \in Starters, Send(s)
      PROVE  Queue!Next
  <2>1. PICK e \in Exports :
              /\ s \in Senders(e) /\ start[s].id = {e}
              /\ \A d : Senders(d)' = Senders(d) \ {s}
              /\ IF Len(queue) < Buffer
                 THEN /\ queue' = Append(queue, e)
                      /\ \A d : Positions(d)' = Positions(d) \cup {i \in {Len(queue) + 1} : d = e}
                      /\ \A d : Accepted(d)' <=> Accepted(d) \/ d = e
                 ELSE /\ \A d : Positions(d)' = Positions(d)
                      /\ \A d : Accepted(d)' <=> Accepted(d)
    BY <1>2, SendMoves
  <2>2. UNCHANGED <<results, worker>>
    BY <1>2 DEF Send
  <2>3. Sending(e) /\ Senders(e)' = {}
    BY <2>1 DEF Sending, PlaceInv
  <2>4. \A d \in Exports \ {e} : Sending(d)' <=> Sending(d)
    BY <2>1 DEF Senders, Sending
  <2>5. ~InLine(e) /\ e \notin worker.id /\ ~Accepted(e) /\ results[e].status = "pending"
    BY <2>3 DEF PlaceInv, EntryInv
  <2>6. CASE Len(queue) < Buffer
    <3>1. InLine(e)' /\ \A d \in Exports \ {e} : InLine(d)' <=> InLine(d)
      BY <2>1, <2>6 DEF InLine
    <3>2. \A d \in Exports \ {e} : ExportState(d)' = ExportState(d)
      <4>1. \A d \in Exports \ {e} : Accepted(d)' <=> Accepted(d)
        BY <2>1, <2>6
      <4> QED
        BY <2>2, <2>4, <3>1, <4>1, StateKept
    <3>3. ExportState(e) = "new"
      BY <2>3, StateOf
    <3>4. ExportState(e)' = "waiting"
      BY <2>2, <2>3, <2>5, <3>1 DEF ExportState, Sending
    <3> QED
      BY <2>1, <2>6, <3>2, <3>3, <3>4, QueueAccept
  <2>7. CASE ~(Len(queue) < Buffer)
    <3>1. \A d : InLine(d)' <=> InLine(d)
      BY <2>1, <2>7 DEF InLine
    <3>2. \A d \in Exports \ {e} : ExportState(d)' = ExportState(d)
      BY <2>1, <2>2, <2>4, <2>7, <3>1, StateKept
    <3>3. ExportState(e) = "new"
      BY <2>3, StateOf
    <3>4. ~Accepted(e)'
      BY <2>1, <2>5, <2>7
    <3>5. ExportState(e)' = "refused"
      BY <2>2, <2>3, <2>5, <3>1, <3>4 DEF ExportState, Sending, Settled
    <3>6. queue' = queue
      BY <1>2, <2>7 DEF Send
    <3> QED
      BY <3>2, <3>3, <3>5, <3>6, QueueRefuse
  <2> QED
    BY <2>6, <2>7
<1>3. CASE Receive
  <2>1. PICK e \in Exports : e = Head(queue)
    BY <1>3, ReceiveMoves
  <2>2. /\ queue # <<>> /\ queue' = Tail(queue) /\ results' = results
        /\ worker.id = {} /\ worker'.id = {e}
    BY <1>3, <2>1 DEF Receive, HandInv, WorkerIdle
  <2>3. \A d \in Exports : ExportState(d) # "running"
    BY <2>2, StateOf
  <2>4. /\ InLine(e)
        /\ \A d \in Exports : InLine(d)' <=> InLine(d) /\ d # e
        /\ \A d : Sending(d)' <=> Sending(d)
        /\ \A d : Accepted(d)' <=> Accepted(d)
    BY <1>3, <2>1, ReceiveMoves DEF Sending
  <2>5. \A d \in Exports \ {e} : ExportState(d)' = ExportState(d)
    BY <2>2, <2>4, StateKept
  <2>6. results[e].status = "pending" /\ ~Sending(e)
    BY <2>4 DEF EntryInv, PlaceInv
  <2>7. ExportState(e)' = "running"
    BY <2>2, <2>4, <2>6 DEF ExportState
  <2> QED
    BY <2>1, <2>2, <2>3, <2>5, <2>7, QueueStart
<1>4. CASE Run
  <2>1. PICK e \in Exports : worker.id = {e}
    BY <1>4 DEF Run, HandInv
  <2>2. /\ \A d \in Exports \ {e} : results'[d] = results[d]
        /\ worker'.id = worker.id /\ UNCHANGED <<start, queue>>
    BY <1>4, <2>1 DEF Run, TypeOK, WorkerState
  <2>3. \A d : /\ Sending(d)' <=> Sending(d)
               /\ InLine(d)' <=> InLine(d)
               /\ Accepted(d)' <=> Accepted(d)
    BY <2>2, NothingMoves DEF Sending, InLine
  <2>4. \A d \in Exports \ {e} : ExportState(d)' = ExportState(d)
    BY <2>2, <2>3, StateKept
  <2>5. ~Sending(e) /\ ~InLine(e) /\ results'[e].status = "running"
    BY <1>4, <2>1 DEF Run, PlaceInv, TypeOK, ExportResult
  <2>6. ExportState(e) = "running" /\ ExportState(e)' = "running"
    BY <2>1, <2>2, <2>3, <2>5, StateOf DEF ExportState
  <2> QED
    BY <2>2, <2>4, <2>6, QueueStutter
<1>5. CASE Finish
  <2>1. PICK e \in Exports, field \in Fields : Writes(e, field)
    BY <1>5, FinishWrites
  <2>2. /\ \A d \in Exports \ {e} : results'[d] = results[d]
        /\ worker.id = {e} /\ UNCHANGED <<start, queue>>
    BY <1>5, <2>1 DEF Finish, Writes
  <2>3. \A d : /\ Sending(d)' <=> Sending(d)
               /\ InLine(d)' <=> InLine(d)
               /\ Accepted(d)' <=> Accepted(d)
    BY <2>2, NothingMoves DEF Sending, InLine
  <2>4. ~Sending(e) /\ ~InLine(e) /\ ExportState(e) = "running"
    BY <2>2, StateOf DEF PlaceInv
  <2>5. CASE worker.unwritten = {field}
    <3>1. worker'.id = {} /\ results'[e].status \in {"done", "failed"}
      BY <2>1, <2>5 DEF Writes, WorkerIdle, EntryInv
    <3>2. \A d \in Exports \ {e} : ExportState(d)' = ExportState(d)
      BY <2>2, <2>3, <3>1, StateKept
    <3>3. ExportState(e)' = "settled"
      BY <2>3, <2>4, <3>1 DEF ExportState, Settled
    <3> QED
      BY <2>2, <2>4, <3>2, <3>3, QueueSettle
  <2>6. CASE worker.unwritten # {field}
    <3>1. worker'.id = {e} /\ results'[e].status # "none"
      BY <2>1, <2>6 DEF Writes, TypeOK, WorkerState, EntryInv
    <3>2. \A d \in Exports \ {e} : ExportState(d)' = ExportState(d)
      BY <2>2, <2>3, <3>1, StateKept
    <3>3. ExportState(e)' = "running"
      BY <2>3, <2>4, <3>1 DEF ExportState
    <3> QED
      BY <2>2, <2>4, <3>2, <3>3, QueueStutter
  <2> QED
    BY <2>5, <2>6
<1>6. CASE Restart
  <2>1. \A d \in Exports : results'[d].status = "none"
    BY <1>6 DEF Restart, NoResult
  <2>2. \A d \in Exports : ExportState(d)' = "new"
    BY <2>1 DEF ExportState
  <2> QED
    BY <1>6, <2>2, QueueRestart DEF Restart
<1>7. CASE UNCHANGED <<results, start, queue>> /\ worker'.id = worker.id
  <2>1. \A d : /\ Sending(d)' <=> Sending(d)
               /\ InLine(d)' <=> InLine(d)
               /\ Accepted(d)' <=> Accepted(d)
    BY <1>7, NothingMoves DEF Sending, InLine
  <2> QED
    BY <1>7, <2>1, StateKept, QueueStutter
<1>8. ExportResultsXLS \/ Save => UNCHANGED <<results, start, queue>> /\ worker'.id = worker.id
  BY DEF ExportResultsXLS, Save, TypeOK, WorkerState
<1>9. \A p \in Pollers :
         ReadStorageID(p) \/ Presign(p) \/ Render(p) \/ (\E e \in Exports : Get(p, e)) =>
            UNCHANGED <<results, start, queue>> /\ worker'.id = worker.id
  BY DEF ReadStorageID, Presign, Render, Get
<1>10. UNCHANGED vars => UNCHANGED <<results, start, queue>> /\ worker'.id = worker.id
  BY DEF vars
<1> QED
  BY <1>1, <1>2, <1>3, <1>4, <1>5, <1>6, <1>7, <1>8, <1>9, <1>10 DEF Next, WorkerStep

\* The safety half of QueueSpec: the map, the mutex, the channel and the worker
\* together do nothing that ExportQueue does not allow.  Each export is accepted
\* at most once, one is worked on at a time, and they are taken in the order in
\* which they were accepted.
THEOREM KeepsQueue == Spec => Queue!Init /\ [][Queue!Next]_(Queue!vars)
<1>1. Init => Queue!Init
  <2> SUFFICES ASSUME Init PROVE Queue!Init
    OBVIOUS
  <2>1. \A d \in Exports : ExportState(d) = "new"
    BY DEF Init, NoResult, ExportState
  <2> QED
    BY <2>1 DEF Init, Queue!Init
<1>2. ExportInv /\ ExportInv' /\ [Next]_vars => [Queue!Next]_(Queue!vars)
  BY QueueSteps
<1> QED
  BY <1>1, <1>2, ExportInvAlways, PTL DEF Spec
=============================================================================
