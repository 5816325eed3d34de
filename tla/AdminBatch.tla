----------------------------- MODULE AdminBatch -----------------------------
(***************************************************************************)
(* The two admin requests that change a batch: HandleAdminRestartBatch     *)
(* (publish the failed jobs again, then BatchManager.SetProcessing) and    *)
(* HandleAdminUpdateBatchConfig.                                           *)
(***************************************************************************)
EXTENDS BulkStore

VARIABLES
    rest, \* the local variables of each restart request
    cong  \* the local variables of each configuration request

RestartPc == {"idle", "jobs", "next", "mark", "load", "save", "done", "failed",
              "crashed"}

\* job is the job between its publish and its status update, if any.
RestartState == [pc: RestartPc, todo: SUBSET Jobs, job: SUBSET Jobs, row: BatchRow]
ConfigState  == [pc: {"idle", "load", "save", "done", "failed", "crashed"},
                 row: BatchRow]

RestartFresh == [pc |-> "idle", todo |-> {}, job |-> {}, row |-> NoRow]
ConfigFresh  == [pc |-> "idle", row |-> NoRow]

AdminInit ==
    /\ rest = [r \in Restarters |-> RestartFresh]
    /\ cong = [g \in Configurers |-> ConfigFresh]

RestartAt(r, from) == rest[r].pc = from /\ UNCHANGED cong
ConfigAt(g, from)  == cong[g].pc = from /\ UNCHANGED rest

RestartAnswer(r, end) == rest' = [rest EXCEPT ![r] = [RestartFresh EXCEPT !.pc = end]]
ConfigAnswer(g, end)  == cong' = [cong EXCEPT ![g] = [ConfigFresh EXCEPT !.pc = end]]

\* requireBatch only looks whether the batch exists.
StartRestart(r) ==
    /\ RestartAt(r, "idle")
    /\ rest' = [rest EXCEPT ![r].pc = "jobs"]
    /\ UNCHANGED storeVars

\* A deliberate bug, used by no specification: every job that is not completed is
\* sent again.
BrokenRestartJobs(r) ==
    /\ RestartAt(r, "jobs")
    /\ rest' = [rest EXCEPT ![r].pc = "next",
                            ![r].todo = {j \in Jobs : jobs[j].status # "completed"}]
    /\ UNCHANGED storeVars

\* Only jobs that have come back as failed are sent again.
RestartJobs(r) ==
    /\ RestartAt(r, "jobs")
    /\ \E ok \in ReadOk :
          IF ok
          THEN rest' = [rest EXCEPT ![r].pc = "next",
                                    ![r].todo = {j \in Jobs : jobs[j].status = "failed"}]
          ELSE RestartAnswer(r, "failed")
    /\ UNCHANGED storeVars

\* A job whose publish fails is skipped.
RestartPublish(r) ==
    /\ RestartAt(r, "next")
    /\ \E j \in rest[r].todo, out \in PublishOutcome :
          /\ Publish(r, j, {}, out.copies)
          /\ rest' = [rest EXCEPT ![r].pc = IF out.ok THEN "mark" ELSE "next",
                                  ![r].todo = @ \ {j},
                                  ![r].job = IF out.ok THEN {j} ELSE {}]
    /\ UNCHANGED <<batch, jobs, resultTopic, reserved, issued, refunds, outcomes>>

RestartMark(r) ==
    /\ RestartAt(r, "mark")
    /\ \E j \in rest[r].job, out \in DbCall : UpdateStatus(out.done, j, "queued")
    /\ rest' = [rest EXCEPT ![r].pc = "next", ![r].job = {}]
    /\ UNCHANGED <<batch, jobTopic, resultTopic, reserved, issued, published, refunds, outcomes>>

\* SetProcessing is called whether or not any job was restarted.
RestartEndLoop(r) ==
    /\ RestartAt(r, "next")
    /\ rest[r].todo = {}
    /\ rest' = [rest EXCEPT ![r].pc = "load"]
    /\ UNCHANGED storeVars

RestartLoad(r) ==
    /\ RestartAt(r, "load")
    /\ \E ok \in ReadOk :
          IF ok
          THEN rest' = [rest EXCEPT ![r].pc = "save",
                                    ![r].row = [batch EXCEPT !.status = "processing"]]
          ELSE RestartAnswer(r, "done")
    /\ UNCHANGED storeVars

RestartSave(r) ==
    /\ RestartAt(r, "save")
    /\ \E out \in DbCall : UpdateBatch(out.done, rest[r].row)
    /\ RestartAnswer(r, "done")
    /\ UNCHANGED <<jobs, jobTopic, resultTopic, reserved, issued, published, refunds, outcomes>>

CrashRestart(r) ==
    /\ Crashes
    /\ rest[r].pc \notin {"idle", "done", "failed", "crashed"}
    /\ RestartAt(r, rest[r].pc)
    /\ RestartAnswer(r, "crashed")
    /\ UNCHANGED storeVars

StartConfig(g) ==
    /\ ConfigAt(g, "idle")
    /\ cong' = [cong EXCEPT ![g].pc = "load"]
    /\ UNCHANGED storeVars

ConfigLoad(g) ==
    /\ ConfigAt(g, "load")
    /\ \E ok \in ReadOk :
          IF ok
          THEN cong' = [cong EXCEPT ![g].pc = "save",
                                    ![g].row = [batch EXCEPT !.config = TRUE]]
          ELSE ConfigAnswer(g, "failed")
    /\ UNCHANGED storeVars

ConfigSave(g) ==
    /\ ConfigAt(g, "save")
    /\ \E out \in DbCall :
          /\ UpdateBatch(out.done, cong[g].row)
          /\ ConfigAnswer(g, IF out.ok THEN "done" ELSE "failed")
    /\ UNCHANGED <<jobs, jobTopic, resultTopic, reserved, issued, published, refunds, outcomes>>

CrashConfig(g) ==
    /\ Crashes
    /\ cong[g].pc \in {"load", "save"}
    /\ ConfigAt(g, cong[g].pc)
    /\ ConfigAnswer(g, "crashed")
    /\ UNCHANGED storeVars

RestartStep(r) ==
    \/ RestartJobs(r)
    \/ RestartPublish(r)
    \/ RestartMark(r)
    \/ RestartEndLoop(r)
    \/ RestartLoad(r)
    \/ RestartSave(r)

ConfigStep(g) ==
    \/ ConfigLoad(g)
    \/ ConfigSave(g)
=============================================================================
