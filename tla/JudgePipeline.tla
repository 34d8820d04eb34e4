--------------------------- MODULE JudgePipeline ----------------------------
(***************************************************************************)
(* From the submit request to the verdict in the database: the judger      *)
(* nodes of Scheduler composed with the API server (cmd/api-server,        *)
(* internal/api/handler/submission.go) that creates the row, publishes the *)
(* task, consumes oj:judge:results with the group "api-server-results" and *)
(* writes each result over the row (internal/infra/postgres).              *)
(*                                                                         *)
(* A request is identified with the submission it creates.  The contest    *)
(* rules that defer judging are the subject of another module: here every  *)
(* accepted submission is enqueued at once.                                *)
(***************************************************************************)
EXTENDS Scheduler

CONSTANTS NoRow, Pending

\* No submission, StatusPending and the final statuses are told apart.
ASSUME RowsAssumption ==
    /\ NoRow \notin ResultStatus
    /\ Pending \notin ResultStatus
    /\ NoRow # Pending

VARIABLES
    row,        \* row[s]: submissions.status in Postgres
    request,    \* request[s]: where the Submit handler of s is
    api,        \* the API server process: "up" or "down"
    apiName,    \* number of host names the API server has used
    rgroup,     \* consumer group "api-server-results" on oj:judge:results
    rat, rcur, rbatch, rfull    \* its one Subscribe loop

Writer == "writer"

ResultQ == INSTANCE StreamConsumer WITH
               Procs <- {Writer}, log <- results, grp <- rgroup,
               at <- rat, cur <- rcur, batch <- rbatch, full <- rfull

writerVars == <<rgroup, rat, rcur, rbatch, rfull>>

apiVars == <<row, request, api, apiName, writerVars>>

pipelineVars == <<vars, apiVars>>

judgerVars == <<tasks, group, at, cur, batch, full, nodeVars, judgeVars, history>>

ApiName == <<"api", apiName>>

-----------------------------------------------------------------------------
\* Submit.

\* Eligibility, problem data and source upload have succeeded: Create.
Create(s) ==
    /\ api = "up"
    /\ request[s] = "none"
    /\ row' = [row EXCEPT ![s] = Pending]
    /\ request' = [request EXCEPT ![s] = "created"]
    /\ UNCHANGED <<vars, api, apiName, writerVars>>

\* The INSERT reports an error, with or without effect; the client is told 500.
CreateFails(s) ==
    /\ api = "up"
    /\ request[s] = "none"
    /\ Fault("db")
    /\ row' = [row EXCEPT ![s] = Pending] \/ UNCHANGED row
    /\ request' = [request EXCEPT ![s] = "failed"]
    /\ UNCHANGED <<judgerVars, results, api, apiName, writerVars>>

\* enqueueTask: the task is published and the client is told 201.
Enqueue(s) ==
    /\ request[s] = "created"
    /\ EnqueueTask(s)
    /\ request' = [request EXCEPT ![s] = "accepted"]
    /\ UNCHANGED <<budget, row, api, apiName, writerVars>>

\* enqueueTask: XADD fails, with or without effect; the client is told 202,
\* "submission recorded and will be retried".
EnqueueFails(s) ==
    /\ request[s] = "created"
    /\ Fault("redis")
    /\ request' = [request EXCEPT ![s] = "warned"]
    /\ \/ EnqueueTask(s)
       \/ UNCHANGED <<judgerVars, results>>
    /\ UNCHANGED <<row, api, apiName, writerVars>>

-----------------------------------------------------------------------------
\* The DB result consumer.

WriterEnsureGroup ==
    /\ ResultQ!EnsureGroup(Writer)
    /\ UNCHANGED <<vars, row, request, api, apiName>>

WriterDrainPending ==
    /\ ResultQ!DrainPending(Writer, ApiName)
    /\ UNCHANGED <<judgerVars, budget, row, request, api, apiName>>

WriterDrainPendingFails ==
    /\ ResultQ!DrainPendingFails(Writer)
    /\ Fault("redis")
    /\ UNCHANGED <<judgerVars, row, request, api, apiName>>

WriterReads ==
    /\ ResultQ!XReadGroup(Writer, ApiName)
    /\ UNCHANGED <<judgerVars, budget, row, request, api, apiName>>

WriterReadLost ==
    /\ ResultQ!XReadGroupLost(Writer, ApiName)
    /\ Fault("redis")
    /\ UNCHANGED <<judgerVars, row, request, api, apiName>>

\* SubmissionRepo.Update: the row is overwritten whatever it holds.
Update(r) == row' = [row EXCEPT ![r.sub] = r.status]

WriterUpdates ==
    /\ rat[Writer] = "handle"
    /\ Update(results.msgs[rcur[Writer]])
    /\ ResultQ!HandlerDone(Writer)
    /\ UNCHANGED <<vars, request, api, apiName, rgroup, rcur, rbatch, rfull>>

\* Mutant: the error is logged and the entry acknowledged.
WriterUpdateFailsAcked ==
    /\ rat[Writer] = "handle"
    /\ Fault("db")
    /\ Update(results.msgs[rcur[Writer]]) \/ UNCHANGED row
    /\ ResultQ!HandlerDone(Writer)
    /\ UNCHANGED <<judgerVars, results, request, api, apiName, rgroup, rcur, rbatch,
                   rfull>>

\* Update reports an error, with or without effect; the entry stays pending.
WriterUpdateFails ==
    /\ rat[Writer] = "handle"
    /\ Fault("db")
    /\ Update(results.msgs[rcur[Writer]]) \/ UNCHANGED row
    /\ ResultQ!HandlerFails(Writer)
    /\ UNCHANGED <<judgerVars, results, request, api, apiName>>

WriterAcks ==
    /\ ResultQ!XAck(Writer)
    /\ UNCHANGED <<judgerVars, budget, row, request, api, apiName>>

WriterAckFails ==
    /\ ResultQ!XAckFails(Writer)
    /\ Fault("redis")
    /\ UNCHANGED <<judgerVars, row, request, api, apiName>>

-----------------------------------------------------------------------------
\* The API server process.  main returns as soon as its context is cancelled
\* or one of its services fails, without waiting for handlers or consumers: an
\* orderly end, ensureGroup's failure and a crash leave the same state.
ApiEnds ==
    /\ api = "up"
    /\ Fault("apicrash")
    /\ api' = "down"
    /\ request' = [s \in Submissions |->
                      IF request[s] = "created" THEN "lost" ELSE request[s]]
    /\ ResultQ!Die({Writer})
    /\ UNCHANGED <<judgerVars, row, apiName>>

ApiRestarts ==
    /\ api = "down"
    /\ api' = "up"
    /\ \/ UNCHANGED <<apiName, budget>>
       \/ Fault("apirename") /\ apiName' = apiName + 1
    /\ ResultQ!Launch({Writer})
    /\ UNCHANGED <<judgerVars, row, request>>

-----------------------------------------------------------------------------
PInit ==
    /\ Init
    /\ row = [s \in Submissions |-> NoRow]
    /\ request = [s \in Submissions |-> "none"]
    /\ api = "up"
    /\ apiName = 0
    /\ rgroup = ResultQ!NewGroup
    /\ rat = [p \in {Writer} |-> "subscribe"]
    /\ rcur = [p \in {Writer} |-> 0]
    /\ rbatch = [p \in {Writer} |-> {}]
    /\ rfull = [p \in {Writer} |-> FALSE]

WriterStep ==
    \/ WriterEnsureGroup \/ WriterDrainPending \/ WriterDrainPendingFails
    \/ WriterReads \/ WriterUpdates \/ WriterUpdateFails
    \/ WriterAcks \/ WriterAckFails

ApiNext ==
    \/ \E s \in Submissions : Create(s) \/ CreateFails(s) \/ Enqueue(s) \/ EnqueueFails(s)
    \/ WriterStep \/ WriterReadLost
    \/ ApiEnds \/ ApiRestarts

PNext == (JudgerNext /\ UNCHANGED apiVars) \/ ApiNext

PSpec == PInit /\ [][PNext]_pipelineVars

\* Goroutines that can run do run, and the compose file's
\* "restart: unless-stopped" brings ended processes back.
FairPSpec ==
    /\ PSpec
    /\ \A s \in Submissions : WF_pipelineVars(Enqueue(s))
    /\ \A w \in Workers : WF_pipelineVars(WorkerStep(w) /\ UNCHANGED apiVars)
    /\ \A n \in Nodes : WF_pipelineVars(Supervise(n) /\ UNCHANGED apiVars)
    /\ WF_pipelineVars(WriterStep)
    /\ WF_pipelineVars(ApiRestarts)

-----------------------------------------------------------------------------
\* Properties.

\* Entry i of a stream has not been consumed for good by group g: it is still
\* to be delivered, or pending for some consumer name, or was trimmed.
InStream(l, g, i) ==
    \/ i >= g.next
    \/ \E e \in g.pel : e.id = i
    \/ i < l.first

TaskUnderway(s) ==
    \E i \in DOMAIN tasks.msgs :
        tasks.msgs[i] = s /\ (InStream(tasks, group, i) \/ i \in unanswered)

ResultUnderway(s) ==
    \E k \in DOMAIN results.msgs :
        results.msgs[k].sub = s /\ InStream(results, rgroup, k)

\* No submission gets stuck unaccounted for: a row that still says Pending has
\* a request under way (or one that ended with its API server, or was answered with
\* a warning or with an error), or a task, or a result that a stream still holds or is known
\* to have lost.  No acknowledgement anywhere discards a submission's progress.
PendingIsAccounted ==
    \A s \in Submissions :
        row[s] = Pending =>
            \/ request[s] \in {"created", "lost", "warned", "failed"}
            \/ TaskUnderway(s)
            \/ ResultUnderway(s)

\* The pipeline implements the abstract service: rows only change from nothing
\* to Pending and then to published answers, and every answer is SE or the verdict
\* of a complete judging of an accepted submission, or refuses it after a failure
\* of the sandbox or of a checker.
Service == INSTANCE JudgeService WITH
               disturbed <- {tasks.msgs[i] : i \in misread},
               Refusals <- ResultStatus \ {"AC"},
               answers <- {<<results.msgs[k].sub, results.msgs[k].status>> :
                              k \in DOMAIN results.msgs}

ImplementsService == Service!Spec

\* Every submission that was accepted gets its verdict in the database, in spite
\* of crashes, restarts under the same name, signals, panics and timeouts.
AcceptedIsJudged ==
    \A s \in Submissions :
        request[s] = "accepted" ~> row[s] \notin {NoRow, Pending}
=============================================================================
