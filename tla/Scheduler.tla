----------------------------- MODULE Scheduler ------------------------------
(***************************************************************************)
(* The judger nodes: internal/judger/scheduler.go on top of                *)
(* internal/mq/redis/stream.go, started by cmd/judger-node/main.go.        *)
(*                                                                         *)
(* Every node runs several workers.  Each worker has a Subscribe loop of   *)
(* its own on oj:judge:tasks (group "judger-nodes"); all workers of a      *)
(* process share one consumer name, hostname-pid.  A worker judges one     *)
(* task at a time: compile, run the test cases in order, aggregate,        *)
(* publish the result on oj:judge:results, and let dispatch acknowledge    *)
(* the task.                                                               *)
(*                                                                         *)
(* What the model checker may do to the nodes (crashes, signals, global    *)
(* timeouts, panics, Redis calls that fail with or without effect) is      *)
(* drawn from Faults, at most MaxFaults times.                             *)
(***************************************************************************)
EXTENDS Verdict, FiniteSets

CONSTANTS
    Submissions,    \* submission ids
    Nodes,          \* judger processes
    Workers,        \* worker goroutines of all nodes
    NodeOf,         \* NodeOf[w]: the node of worker w
    CompileFails,   \* the submissions whose compilation is a compile error
    CaseVerdict,    \* CaseVerdict[s]: what an undisturbed run of s reports,
                    \* test case by test case
    PendingBatch, StreamMaxLen,
    Faults,         \* the kinds of faults that may happen
    MaxFaults,      \* how many faults may happen altogether
    MaxTasks        \* how many tasks may be published altogether

ASSUME NodesAssumption == NodeOf \in [Workers -> Nodes]

ASSUME CasesAssumption ==
    /\ CompileFails \subseteq Submissions
    /\ CaseVerdict \in [Submissions -> Seq(CaseStatus)]

ASSUME LimitsAssumption ==
    /\ PendingBatch \in Nat \ {0}
    /\ StreamMaxLen \in Nat \ {0}
    /\ MaxFaults \in Nat
    /\ MaxTasks \in Nat

VARIABLES
    tasks,      \* the stream oj:judge:tasks, a message is a submission id
    group,      \* its consumer group "judger-nodes"
    at, cur, batch, full,   \* the workers' Subscribe loops (StreamConsumer)
    results,    \* the stream oj:judge:results
    node,       \* node[n]: "up", "stopping" (signal received) or "down"
    pid,        \* pid[n]: number of process names node n has used
    stage,      \* stage[w]: where worker w is in handleMessage
    ran,        \* ran[w]: tcResults, the statuses of the test cases run so far
    status,     \* status[w]: the status w is about to publish
    expired,    \* expired[w]: the GlobalTimeout of w's task has passed
    unanswered, \* history: tasks whose SystemError could not be published
    misread,    \* history: tasks judged while a failure of the sandbox, of a checker
                \* or of an interactor was taken for the program's own
    budget      \* faults left

streamVars == <<tasks, group, at, cur, batch, full>>

judgeVars == <<stage, ran, status, expired>>

nodeVars == <<node, pid>>

history == <<unanswered, misread>>

vars == <<tasks, group, at, cur, batch, full, results, node, pid,
          stage, ran, status, expired, history, budget>>

TaskQ == INSTANCE StreamConsumer WITH
             Procs <- Workers, log <- tasks, grp <- group

-----------------------------------------------------------------------------
\* Names used by the actions.

Stages == {"none", "compile", "loop", "case", "publish", "publishSE"}

Fault(kind) == kind \in Faults /\ budget > 0 /\ budget' = budget - 1

WorkersOf(n) == {w \in Workers : NodeOf[w] = n}

\* consumerName: hostname-pid.
NameOf(w) == <<NodeOf[w], pid[NodeOf[w]]>>

Names == Nodes \X Nat

Stopping(w) == node[NodeOf[w]] = "stopping"

\* taskCtx: a child of the process context with the GlobalTimeout.
CtxDone(w) == expired[w] \/ Stopping(w)

Task(w) == tasks.msgs[cur[w]]

\* The parts of mq.ResultMessage that matter here.
ResultMessage == [task : Nat, sub : Submissions, status : ResultStatus]

\* Mutant: the message carries the interim status of the row.
ResultInterim(w, st) == [task |-> cur[w], sub |-> Task(w), status |-> "Judging"]

\* TaskID is unique per published task, like the task's position.
Result(w, st) == [task |-> cur[w], sub |-> Task(w), status |-> st]

\* The status of an undisturbed judging of s.
TrueStatus(s) == IF s \in CompileFails THEN "CE" ELSE aggregate(CaseVerdict[s])

Answered(i) == \E k \in DOMAIN results.msgs : results.msgs[k].task = i

PublishResult(m) == results' \in TaskQ!XAdd(results, m)

\* A worker that was given an entry starts handleMessage: unmarshal, a fresh
\* taskCtx, runStateMachine.
StartJudging(w) ==
    /\ stage' = [stage EXCEPT ![w] = IF at'[w] = "handle" THEN "compile" ELSE "none"]
    /\ ran' = [ran EXCEPT ![w] = <<>>]
    /\ status' = [status EXCEPT ![w] = "SE"]
    /\ expired' = [expired EXCEPT ![w] = FALSE]

-----------------------------------------------------------------------------
\* The producer side: handlers of the API server publish a task.
EnqueueTask(s) ==
    /\ Len(tasks.msgs) < MaxTasks
    /\ TaskQ!Publish(s)
    /\ UNCHANGED <<group, at, cur, batch, full, results, nodeVars, judgeVars,
                   history>>

-----------------------------------------------------------------------------
\* Subscribe, called by every worker of a started node.

EnsureGroup(w) ==
    /\ ~Stopping(w)
    /\ TaskQ!EnsureGroup(w)
    /\ UNCHANGED <<results, nodeVars, judgeVars, history, budget>>

\* The worker's goroutine ends; Run waits for the others.
EnsureGroupFails(w) ==
    /\ TaskQ!EnsureGroupFails(w)
    /\ IF Stopping(w) THEN UNCHANGED budget ELSE Fault("redis")
    /\ UNCHANGED <<results, nodeVars, judgeVars, history>>

DrainPending(w) ==
    /\ ~Stopping(w)
    /\ TaskQ!DrainPending(w, NameOf(w))
    /\ StartJudging(w)
    /\ UNCHANGED <<results, nodeVars, history, budget>>

DrainPendingFails(w) ==
    /\ TaskQ!DrainPendingFails(w)
    /\ IF Stopping(w) THEN UNCHANGED budget ELSE Fault("redis")
    /\ UNCHANGED <<results, nodeVars, judgeVars, history>>

XReadGroup(w) ==
    /\ ~Stopping(w)
    /\ TaskQ!XReadGroup(w, NameOf(w))
    /\ StartJudging(w)
    /\ UNCHANGED <<results, nodeVars, history, budget>>

XReadGroupLost(w) ==
    /\ TaskQ!XReadGroupLost(w, NameOf(w))
    /\ Fault("redis")
    /\ UNCHANGED <<results, nodeVars, judgeVars, history>>

SubscribeReturns(w) ==
    /\ Stopping(w)
    /\ TaskQ!Return(w)
    /\ UNCHANGED <<results, nodeVars, judgeVars, history, budget>>

-----------------------------------------------------------------------------
\* runStateMachine.

Goto(w, st) == stage' = [stage EXCEPT ![w] = st]

\* Something on the way fails, and what it leaves reads as the program's own doing.
Misread(w) == Fault("sandbox") /\ misread' = misread \cup {cur[w]}

\* Work directory, Prepare, EnsureTestcases, Compile.  A cancelled context
\* kills the compiler, which reads as a compile error, or makes one of the
\* calls fail.  Without it the outcome is the program's own, or an error; but a
\* compiler that the sandbox lost, or stopped at its limits, reads as a compile
\* error too: only an error of Execute itself is told apart.
Compile(w) ==
    /\ stage[w] = "compile"
    /\ \/ /\ ~CtxDone(w)
          /\ Task(w) \notin CompileFails
          /\ Goto(w, "loop")
          /\ UNCHANGED <<status, misread, budget>>
       \/ /\ IF CtxDone(w) \/ Task(w) \in CompileFails
             THEN UNCHANGED <<misread, budget>>
             ELSE Misread(w)
          /\ Goto(w, "publish")
          /\ status' = [status EXCEPT ![w] = "CE"]
       \/ /\ IF CtxDone(w) THEN UNCHANGED budget ELSE Fault("sandbox")
          /\ Goto(w, "publishSE")
          /\ UNCHANGED <<status, misread>>
    /\ UNCHANGED <<streamVars, results, nodeVars, ran, expired, unanswered>>

\* The head of the loop over the test cases: a done context or the last test
\* case ends it, and what was collected is aggregated.
LoopHead(w) ==
    /\ stage[w] = "loop"
    /\ IF CtxDone(w) \/ Len(ran[w]) = Len(CaseVerdict[Task(w)])
       THEN /\ Goto(w, "publish")
            /\ status' = [status EXCEPT ![w] = aggregate(ran[w])]
       ELSE /\ Goto(w, "case")
            /\ UNCHANGED status
    /\ UNCHANGED <<streamVars, results, nodeVars, ran, expired, history, budget>>

\* What a sandbox that dies (RE, or MLE or TLE by its log), a checker that cannot run
\* or a grader that cannot start (WA) reads as; never as a pass.
Blame == CaseStatus \ {"AC", "SE"}

\* RunTestCase returns: the program's verdict, a SystemError when the orchestrator
\* failed, a verdict that takes such a failure for the program's, or anything when
\* the context killed the run.
RunTestCase(w) ==
    /\ stage[w] = "case"
    /\ \E v \in CaseStatus :
        /\ ran' = [ran EXCEPT ![w] = Append(ran[w], v)]
        /\ \/ v = CaseVerdict[Task(w)][Len(ran[w]) + 1] /\ UNCHANGED <<misread, budget>>
           \/ v = "SE" /\ Fault("sandbox") /\ UNCHANGED misread
           \/ v \in Blame /\ ~CtxDone(w) /\ Misread(w)
           \/ CtxDone(w) /\ UNCHANGED <<misread, budget>>
    /\ Goto(w, "loop")
    /\ UNCHANGED <<streamVars, results, nodeVars, status, expired, unanswered>>

\* A panic below handleMessage is recovered.
Panic(w) ==
    /\ stage[w] \in {"compile", "loop", "case", "publish"}
    /\ Fault("panic")
    /\ Goto(w, "publishSE")
    /\ UNCHANGED <<streamVars, results, nodeVars, ran, status, expired, history>>

-----------------------------------------------------------------------------
\* publishResult, publishSE and the return of handleMessage.

HandlerDone(w) ==
    /\ Goto(w, "none")
    /\ TaskQ!HandlerDone(w)

\* Mutant: publishResult(context.Background()).
PublishBackground(w) ==
    /\ stage[w] = "publish"
    /\ PublishResult(Result(w, status[w]))
    /\ HandlerDone(w)
    /\ UNCHANGED <<tasks, group, cur, batch, full, nodeVars, ran, status, expired,
                   history, budget>>

\* publishResult(taskCtx): a done context makes XADD fail.
Publish(w) ==
    /\ stage[w] = "publish"
    /\ ~CtxDone(w)
    /\ PublishResult(Result(w, status[w]))
    /\ HandlerDone(w)
    /\ UNCHANGED <<tasks, group, cur, batch, full, nodeVars, ran, status, expired,
                   history, budget>>

\* The XADD fails, with or without effect; handleMessage falls back to SE.
PublishFails(w) ==
    /\ stage[w] = "publish"
    /\ \/ CtxDone(w) /\ UNCHANGED <<results, budget>>
       \/ Fault("redis") /\ UNCHANGED results
       \/ /\ ~CtxDone(w)
          /\ Fault("redis")
          /\ PublishResult(Result(w, status[w]))
    /\ Goto(w, "publishSE")
    /\ UNCHANGED <<streamVars, nodeVars, ran, status, expired, history>>

\* publishSE(context.Background()); its error is ignored.
PublishSE(w) ==
    /\ stage[w] = "publishSE"
    /\ \/ /\ PublishResult(Result(w, "SE"))
          /\ UNCHANGED <<history, budget>>
       \/ /\ Fault("redis")
          /\ unanswered' = unanswered \cup {cur[w]}
          /\ UNCHANGED results
    /\ HandlerDone(w)
    /\ UNCHANGED <<tasks, group, cur, batch, full, nodeVars, ran, status, expired,
                   misread>>

\* dispatch: XACK with the process context, then the next entry.
XAck(w) ==
    /\ ~Stopping(w)
    /\ TaskQ!XAck(w)
    /\ StartJudging(w)
    /\ UNCHANGED <<results, nodeVars, history, budget>>

XAckFails(w) ==
    /\ TaskQ!XAckFails(w)
    /\ IF Stopping(w) THEN UNCHANGED budget ELSE Fault("redis")
    /\ StartJudging(w)
    /\ UNCHANGED <<results, nodeVars, history>>

-----------------------------------------------------------------------------
\* What happens to tasks and nodes.

\* The GlobalTimeout of the task w is judging passes.
GlobalTimeout(w) ==
    /\ stage[w] \in {"compile", "loop", "case", "publish"}
    /\ ~expired[w]
    /\ Fault("timeout")
    /\ expired' = [expired EXCEPT ![w] = TRUE]
    /\ UNCHANGED <<streamVars, results, nodeVars, stage, ran, status, history>>

\* SIGINT or SIGTERM cancels the context of the process.
Signal(n) ==
    /\ node[n] = "up"
    /\ Fault("stop")
    /\ node' = [node EXCEPT ![n] = "stopping"]
    /\ UNCHANGED <<streamVars, results, pid, judgeVars, history>>

\* The process of node n ends.
EndProcess(n) ==
    /\ TaskQ!Die(WorkersOf(n))
    /\ node' = [node EXCEPT ![n] = "down"]
    /\ stage' = [w \in Workers |-> IF NodeOf[w] = n THEN "none" ELSE stage[w]]
    /\ ran' = [w \in Workers |-> IF NodeOf[w] = n THEN <<>> ELSE ran[w]]
    /\ status' = [w \in Workers |-> IF NodeOf[w] = n THEN "SE" ELSE status[w]]
    /\ expired' = [w \in Workers |-> IF NodeOf[w] = n THEN FALSE ELSE expired[w]]
    /\ UNCHANGED <<results, pid, history>>

\* All workers have returned: Run returns and main ends.
Exit(n) ==
    /\ node[n] # "down"
    /\ \A w \in WorkersOf(n) : at[w] = "returned"
    /\ EndProcess(n)
    /\ UNCHANGED budget

\* A hard crash: power, OOM killer, a fatal runtime error.
Crash(n) ==
    /\ node[n] # "down"
    /\ Fault("crash")
    /\ EndProcess(n)

\* The supervisor starts the node again.  A restarted container keeps its host
\* name and pid 1; a re-created container or a bare process has a new name.
Restart(n) ==
    /\ node[n] = "down"
    /\ node' = [node EXCEPT ![n] = "up"]
    /\ \/ UNCHANGED <<pid, budget>>
       \/ /\ Fault("rename")
          /\ pid' = [pid EXCEPT ![n] = @ + 1]
    /\ TaskQ!Launch(WorkersOf(n))
    /\ UNCHANGED <<results, judgeVars, history>>

-----------------------------------------------------------------------------
Init ==
    /\ TaskQ!StreamInit
    /\ results = TaskQ!EmptyLog
    /\ node = [n \in Nodes |-> "up"]
    /\ pid = [n \in Nodes |-> 0]
    /\ stage = [w \in Workers |-> "none"]
    /\ ran = [w \in Workers |-> <<>>]
    /\ status = [w \in Workers |-> "SE"]
    /\ expired = [w \in Workers |-> FALSE]
    /\ unanswered = {} /\ misread = {}
    /\ budget = MaxFaults

\* The steps of worker w itself.
WorkerStep(w) ==
    \/ EnsureGroup(w) \/ DrainPending(w) \/ XReadGroup(w) \/ SubscribeReturns(w)
    \/ Compile(w) \/ LoopHead(w) \/ RunTestCase(w)
    \/ Publish(w) \/ PublishFails(w) \/ PublishSE(w)
    \/ XAck(w) \/ XAckFails(w)
    \/ EnsureGroupFails(w) \/ DrainPendingFails(w)

Disturbance ==
    \/ \E w \in Workers : XReadGroupLost(w) \/ Panic(w) \/ GlobalTimeout(w)
    \/ \E n \in Nodes : Signal(n) \/ Crash(n)

Supervise(n) == Exit(n) \/ Restart(n)

JudgerNext ==
    \/ \E w \in Workers : WorkerStep(w)
    \/ \E n \in Nodes : Supervise(n)
    \/ Disturbance

Next ==
    \/ JudgerNext
    \/ \E s \in Submissions : EnqueueTask(s) /\ UNCHANGED budget

Spec == Init /\ [][Next]_vars

\* Workers that can take a step do, and the supervisor restarts ended nodes
\* (docker-compose.yml, "restart: unless-stopped").
FairSpec ==
    /\ Spec
    /\ \A w \in Workers : WF_vars(WorkerStep(w))
    /\ \A n \in Nodes : WF_vars(Supervise(n))

-----------------------------------------------------------------------------
\* Properties.

\* Every variable keeps its type.
TypeOK ==
    /\ TaskQ!StreamTypeOK(Submissions, Names)
    /\ results \in [msgs : Seq(ResultMessage), first : Nat]
    /\ node \in [Nodes -> {"up", "stopping", "down"}]
    /\ pid \in [Nodes -> Nat]
    /\ stage \in [Workers -> Stages]
    /\ ran \in [Workers -> Seq(CaseStatus)]
    /\ status \in [Workers -> ResultStatus]
    /\ expired \in [Workers -> BOOLEAN]
    /\ unanswered \subseteq Nat /\ misread \subseteq DOMAIN tasks.msgs
    /\ budget \in Nat

\* A published result is a SystemError or the verdict of a complete, undisturbed
\* judging: runStateMachine leaves its loop with a partial tcResults when the
\* context is done, a killed compiler reads as a compile error and a killed run as
\* any status, yet none of that is ever published, because publishResult uses the
\* same context.  A failure of the sandbox or of a checker can be published as the
\* program's, but it never gets a program accepted.
VerdictSound ==
    \A i \in DOMAIN results.msgs :
        LET r == results.msgs[i]
        IN  \/ r.status \in {"SE", TrueStatus(r.sub)}
            \/ r.task \in misread /\ r.status # "AC"

\* At-least-once judging: a task that has been delivered and is pending for no
\* consumer any more has a published result, unless publishing its SystemError
\* failed as well or the stream outgrew StreamMaxLen and lost it.
SettledIsAnswered ==
    \A i \in TaskQ!Settled :
        \/ Answered(i)
        \/ i \in unanswered
        \/ i < tasks.first

\* stream.go, "each message is delivered to exactly one judger node": workers of
\* different nodes never work on the same entry, whatever was claimed after
\* whichever restart.
OneNodePerTask ==
    \A v, w \in Workers :
        stage[v] # "none" /\ stage[w] # "none" /\ cur[v] = cur[w]
            => NodeOf[v] = NodeOf[w]

\* stream.go, "messages not ACK'd within reclaimAfter are re-delivered on the
\* next Subscribe call, handling hard judger crashes": an entry does not stay
\* pending for ever while nodes keep (re)subscribing.
PendingIsRedelivered ==
    \A i \in 1 .. MaxTasks :
        i \in TaskQ!PendingIds(group) ~> i \notin TaskQ!PendingIds(group)
=============================================================================
