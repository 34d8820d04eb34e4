# A TLA+ model of my-oj

my-oj is an online judge: an API server takes submissions, judger nodes compile and run
them in a sandbox, and the API server records the verdicts and keeps the scoreboard of
the running contests. This directory holds TLA+ modules that model the part of it in
which several processes meet, TLC configurations that check them on small instances,
and TLAPS proofs that hold for every instance. `PROJECT.json` maps every definition to
the lines it models and lists the runs, the findings, the hazards and the theorems.

## 1. The system

```
 browser --HTTP--> API server --XADD--> oj:judge:tasks ---(group judger-nodes)---> judger nodes
                     |   ^                                                           |
             Postgres,  |                                                            | XADD
             MinIO      +---(groups api-server-results, ranker)--- oj:judge:results <-+
                     |
                  Redis hash/keys of a contest --PUBLISH--> WebSocket hub --> browsers
```

| Component | State | Operations | Hard because | Correct when |
|---|---|---|---|---|
| message queue (`mq/redis/stream.go`) | stream, consumer group, pending list; position of each Subscribe loop | Publish, Subscribe (ensureGroup, drainPending, XREADGROUP, dispatch, XACK) | at-least-once delivery, consumer names shared or changed, trimming, half-successful calls | nothing acknowledged is unhandled; an entry is not handled by two processes |
| judger scheduler (`judger/scheduler.go`, `cmd/judger-node`) | workers, task context, partial results | handleMessage, runStateMachine, publishResult, publishSE, shutdown | timeouts and signals in the middle of a judging, panics, crashes between publish and XACK | no partial judging is published as a verdict; every consumed task is answered |
| verdict aggregation (`judger/verdict.go`) | none | aggregate | - | worst status wins, no result is a SystemError |
| submission intake (`api/handler/submission.go`) | rows of Postgres | Submit, SubmitPractice, enqueueTask, JudgeContest | row and task are written to two systems; sweeps overlap with each other and with late submissions | a Pending row has a task or a known reason not to; in a blind contest the last submission counts and no verdict shows early |
| result writer (`cmd/api-server`, `infra/postgres/submission_repo.go`) | row, its Subscribe loop | Update, unconditional | redelivery, duplicates, SE after a verdict | rows change only to published answers |
| ICPC strategy (`core/contest`) | ScoreEntry | Apply, RevealNext, Rank | freeze boundary, order of results, CE policy | freeze hides, reveal only adds, ranks are standard |
| ranking service (`core/ranking/service.go`) | Redis entries, reveal flag, snapshot | handleResult, rebuildSnapshot, RevealContest | two goroutines read and write Redis in several calls; redelivery | the stored board catches up with the entries |
| resolver feed (`api/handler/resolver.go`) | none | ExportEventFeed, buildEventFeed, mapResult | its rules restate the strategy's; teams and runs come from separate queries | same penalty as the board, no run of an unknown team |
| WebSocket hub (`core/ranking/websocket.go`) | rooms, bounded channels, two pumps per client | ServeWS, register, unregister, broadcast, eviction, the Redis subscription, shutdown | channels closed under their senders, a snapshot racing a broadcast, full channels | no channel is closed twice, no board is missed, whoever is gone leaves the room |
| testcase cache (`judger/testcase_cache.go`) | LRU, in-flight slots, directories | EnsureTestcases, refresh, promoteEntry, evictIfNeeded, Prune | removal in a goroutine, use of a directory after eviction | a directory handed out is complete |
| orchestrators (`judger/runner_*.go`, `judger/interactive`) | none | RunTestCase of the standard, special, interactive and communication judges | several processes and a timer end in any order | the verdict follows from how the contestant ended and what the judge said |
| sandbox (`judger/sandbox/nsjail`) | pipes, processes, logs, a cgroup | Execute, ExecutePair, ExecuteGroup, parseResult | pipe ends shared between processes, logs read concurrently, limits enforced in whole seconds | nobody waits for a process that has ended; every execution ends |
| accounts (`api/handler/auth.go`, `user.go`) | users, the Redis keys of a reset | Register, Login with rehash, ChangePassword, UpdateMe, password reset | check-then-act over Postgres and Redis | a used or exhausted code is gone; a password changes only when asked |
| contest administration (`api/handler/contest.go`, `problem.go`, `infra/postgres/contest_crud_repo.go`, `problem_list_repo.go`) | contests, problems, links, participants, submissions | create, link, register, submit, export, delete | requests of several statements overlap; each page has its own rule for when a contest runs | pages agree, places are distinct, deletions are whole |
| storage, mail, frontend | objects | I/O | - | - |

## 2. Modules

| Module | Models | Uses |
|---|---|---|
| `StreamConsumer` | a Redis stream with one consumer group and `stream.go`'s Subscribe loop; no Next of its own | - |
| `Verdict` | `verdict.go` | - |
| `Scheduler` | the judger nodes: workers, `handleMessage`, `runStateMachine`, signals, crashes, restarts | INSTANCE StreamConsumer, EXTENDS Verdict |
| `JudgeService` | the abstract promise of the judging service | - |
| `JudgePipeline` | Scheduler with Submit and the DB result consumer | EXTENDS Scheduler, INSTANCE StreamConsumer and JudgeService |
| `JudgingProofs` | facts about the operators and actions of `Scheduler`; the safety theorems of `Scheduler` and `JudgePipeline`, the refinement of `JudgeService` | EXTENDS JudgePipeline |
| `IcpcStrategy` | `strategy_icpc.go`, the shared parts of `strategy.go`, the counting rules of `resolver.go` | - |
| `Ranking` | the ranking service of one ICPC contest | EXTENDS IcpcStrategy, INSTANCE StreamConsumer |
| `TestcaseCache` | the directories of test cases of one judger node | - |
| `Hub` | the WebSocket hub: ServeWS, the Run loop, pumps, subscription, shutdown | - |
| `OiContest` | the submissions of one contest, with the deferred judging of a blind one | - |
| `Contests` | the tables of contests and problems, their handlers, the rules of their pages, the export of the feed | - |
| `Accounts` | users and password resets | - |
| `Sandbox` | one test case: the processes, pipes and logs of the three Execute calls, and the verdict of the four orchestrators | - |
| `HubProofs`, `AccountsProofs`, `OiContestProofs`, `SandboxProofs`, `TestcaseCacheProofs`, `ContestsProofs`, `RankingProofs` | the theorems about the module each is named after | EXTENDS that module |
| `MCScheduler`, `MCJudgePipeline`, `MCRanking`, `MCTestcaseCache`, `MCHub`, `MCOiContest`, `MCContests`, `MCAccounts`, `MCSandbox` | small instances | |

How state and actions correspond to the code:

* **StreamConsumer.** `log` is the stream (trimmed below `log.first`), `grp` the group:
  the next entry to deliver and the Pending Entries List with its owners. `at[p]` is the
  program counter of goroutine p in Subscribe: `subscribe` (before ensureGroup), `drain`
  (XPENDING + XCLAIM), `poll` (XREADGROUP), `handle` (in the handler), `ack` (before
  XACK), `returned`, `off` (no process). `batch[p]` and `full[p]` are the claimed
  entries not yet dispatched and whether drainPending will loop. XPENDING and XCLAIM are
  one step: between them only entries of the same consumer name could be acknowledged,
  and XCLAIM skips those. A read returns one entry per call, as the code asks for.
* **Scheduler.** `stage[w]` is the place in runStateMachine; everything a call of the
  sandbox may do is chosen in `Compile` and `RunTestCase`: the program's own outcome
  (`CompileFails`, `CaseVerdict`), an error (fault `sandbox`), a refusal that the same fault
  leaves (`Misread`: a compile error of a compiler that the sandbox lost or stopped, a
  runtime error of a dead nsjail, a wrong answer of a checker that did not run, see
  `Blame`), or, with a done context, anything a killed process looks like. `misread` is a
  history variable: the tasks to which that has happened. `CtxDone` is the task's context: GlobalTimeout or
  the process's signal. `publishResult` uses that context, `publishSE` the background
  one. `pid[n]` numbers the `hostname-pid` names a node has used.
* **JudgePipeline.** `row[s]` is the status column. Create and the publication of the
  task are two steps, because the process may end between them; the INSERT may be reported
  as failed, done or not (`CreateFails`). `request[s]` records
  what the client was told (201 `accepted`, 202 `warned`, 500 `failed`). The API server's main returns
  without waiting for handlers, so an orderly end is modelled like a crash.
* **Ranking.** `entries`, `revealed` and `snapshot` are the three Redis keys.
  rebuildSnapshot is three steps (HGETALL, EXISTS, SET), run by the consumer and by
  RevealContest, each with its own `view`. HGET and HSET of an entry are one step: only
  the consumer writes entries, and one API server runs one consumer. `applied` and
  `raced` are history variables.
* **TestcaseCache.** `lru` with `entry` is lruList and index, `slot` is inProgress, `pc`
  the place of a worker in EnsureTestcases; a step is what happens under one hold of
  `mu` or one call to MinIO or the file system. `disk[p]` holds the upload its `.etag`
  names, the upload its files come from, and whether it is whole. RemoveAll is two steps,
  in evictIfNeeded's goroutines (`removers`) and in downloadAndExtract: files, `.etag`
  among them, go before the directory does. `tainted` and `leaked` are history variables
  that name what the properties except: problems evicted since their directory was
  installed, and directories whose removal failed or that `Prune` could not read: ReadDir
  may fail, and Info for any of its entries, so that `Prune` finds some of `OnDisk` only.
  One fault pays for all of them. `Scheduler` sees the cache as one
  more call that may fail.
* **Hub.** `register`, `unregister`, `broadcast`, `send[c]` and `snap[c]` are the Go
  channels with their capacities; a step of the Run loop takes one message. `serve[c]`,
  `fetch[c]`, `reader[c]` and `writer[c]` are the four goroutines of a connection.
  `closes[c]` counts how often `client.send` is closed, so that a second close is seen
  rather than assumed away; a send on a closed channel is the step `PutPanics`. A board is
  its version number. One room stands for all: rooms share only the channels.
* **OiContest.** `rows` is the table in the order of its ids, `req[r]` and `sweep[s]` the
  requests of contestants and administrator, one step per database or queue call. The
  judgers, the result writer and the ranker, which `JudgePipeline` and `Ranking` model in
  detail, appear as `Update` and `Rank`: a task may be answered at any later moment and any
  number of times. `applyContestVisibility` and `Listed` are what a submission's page and
  the lists show; a page loads the contest again, and that lookup may fail at any time if
  `lookup` is among the faults (`PageLoads`), whatever is left of the budget, since a page
  changes nothing. `unheld` is a history variable: the submissions that were not withheld,
  because the contest had ended or could not be loaded.
* **Contests.** The tables are partial functions from ids. A handler of one statement is
  one step; one of several is a `call[h]` that carries what it has read. A transaction's
  writes appear when it commits, and violated keys roll it back. The pages are operators:
  `ProblemPage`, `Bank`, `ContestPage`, `CanSubmitToContest`, `ActiveContestForProblem`
  translate the five queries; `now` stands for the clocks of the server and of Postgres.
  SubmitPractice falls back to practice when its lookup fails, and any problem may be
  submitted to for practice, a hidden one too, as in the code. `clash` records contests for which AddProblem overlapped.
* **Accounts.** One step per call to Postgres or Redis; the three keys of a reset are
  `code`, `cooldown` and `attempts`. A password stands for its hash and the format of the
  hash. Requests may end anywhere (`Abort`), and every write to Postgres or Redis, the INCR
  and EXPIRE of a wrong answer among them, may be reported as failed though done (`Fails`).
  `intended`, `raced`, `retired` and `slipped` are history variables: `retired` are the
  codes that are used up, `slipped` those of them that no request will delete, because the
  one that used it up was not told, or its DEL failed. A username may be somebody else's
  address (`auth.go:71` only limits its length). No two drawn codes coincide.
* **Sandbox.** `held[x]` is the set of pipe ends that the parent or process x holds; end of
  file and SIGPIPE follow from nobody holding the other end. Programs are arbitrary: they
  turn to a channel, read, write, exit or overrun a limit. `cause`, `spent` and `logged`
  are what the kernel, the cgroup and nsjail's log know of an end; `parseResult`,
  `Measured` and `ParseVerdict` are the translations the code makes of them.

Faults are one mechanism everywhere: an action that needs a fault takes it from
`budget`, and its kind must be in `Faults`. A Redis or database call that fails may have
had its effect (`PublishFails`, `XReadGroupLost`, `CreateFails`, `EnqueueFails`,
`WriterUpdateFails`, `ApplyFails`, `RebuildFails`, and the calls of `Accounts`).

## 3. Runs

| Run | Instance | Shows |
|---|---|---|
| `scheduler` | 2 nodes with a worker each, 2 submissions (one does not compile), 2 tasks, 2 faults of any kind, trimming from length 1 | `TypeOK`, `VerdictSound`, `SettledIsAnswered`, `OneNodePerTask` |
| `scheduler_rename` | the same with a crash and a restart under a new name, fair | `PendingIsRedelivered` is violated |
| `pipeline` | 1 node, 2 workers, 1 submission, 2 faults on either side, names may change | `PendingIsAccounted`, `ImplementsService` |
| `pipeline_liveness` | 1 node, 1 worker, 2 submissions, 2 faults that keep the name | `AcceptedIsJudged` under `FairPSpec` |
| `ranking` | 2 teams, 3 contest submissions around the freeze and a practice one, 1 reveal, 1 fault | `TypeOK`, `FreezeHides`, `RevealFollowsRules`, `RevealOnlyAdds`, `BoardCatchesUp`, `RankIsStandard` |
| `ranking_lost_entry` | 1 team, two early submissions, a failing HGET | `AcceptedIsKept` is violated |
| `testcase_cache` | 2 workers, 2 problems, room for 1, 3 calls, 2 uploads, 1 fault of any kind | `TypeOK`, `OneRefresh`, `HandedOutIsCurrent`, `DiskIsBounded`, `WaitersReturn` under `FairSpec` |
| `hub` | 2 connections, channels of capacity 1, 2 boards, 1 fault of any kind or a shutdown | `TypeOK`, `ChannelClosedOnce`, `NoBoardMissed`; `GoneLeavesRoom`, `ServeWSReturns` under `FairSpec` |
| `oi_contest` | 1 contestant, 2 problems, 2 submissions, 2 sweeps, 2 faults, OI and ICPC | `TypeOK`, `LastCounts`, `VerdictsHidden`, `SweepSettles`, `JudgedStaysJudged` |
| `contests` | 1 contest at a time, 2 problems, 2 submissions, 1 user, 2 handlers, 4 calls, 1 fault | `TypeOK`, `PagesAgree`, `OrdinalsDistinct`, `FeedTeamsKnown`, `DeletionsAreWhole` |
| `accounts` | 1 old account and 1 new one, a name that is an address, 2 handlers, 4 requests, 2 codes, 2 faults | `TypeOK`, `RetiredIsGone`, `PasswordIsKept`, `BoundOnce` |
| `sandbox` | each of the 4 modes, a group of 2 in a ring, pipes of 1 message, 1 failing start | `StuckOnPartner`, `VerdictIsDeserved`; `ExecutionEnds` under `FairSpec` |

Two runs show that the code disagrees with its own comments, quoted in `PROJECT.json`:

1. drainPending looks only at the process's own name; a node that comes back under a new
   `hostname-pid` leaves its old entries pending for ever. `reclaimAfter` is unused.
2. Any HGET error reads as "no entry", so one failing call erases a team's history.

Nine more disagreements have no run of their own. Each is a behaviour of the models, and
the reason why a property of a passing run has the exemption described below:

3. `compiler.go:127` promises a SystemError for a failure of the compiler's sandbox, but only
   an error of the call becomes one; a killed nsjail is published as CompileError.
4. Two workers of a node judge the same task: one that subscribes later claims, under the
   name they share, what the other has just read (`scheduler.go:73-74`: "no two workers
   process the same task").
5. A rebuild that overlaps the reveal stores its frozen board over the revealed one
   (`ranking/service.go:198-200`: the results "become visible to everyone").
6. The reveal charges a compile error made during the freeze, the feed does not
   (`models/contest.go:58-61`: "the two boards always agree").
7. Directories are removed after their entries, so more than `maxEntries` exist for a time
   (`testcase_cache.go:58`: "at most maxEntries problem dirs exist on disk simultaneously").
8. EnsureTestcases hands out a directory that the goroutine of an earlier eviction is
   removing (`testcase_cache.go:119-120`: "present and current on local disk").
9. A page whose own lookup of the contest fails shows the verdict and score of a blind
   submission that was judged because an earlier lookup failed (`submission.go:537-538`: "a
   misclassification here can't leak").
10. Overlapping additions to a contest get the same place, in spite of the transaction
    (`contest_crud_repo.go:167`: "concurrent inserts pick distinct ordinals").
11. A feed taken during a contest may have a run of a team it does not list
    (`contest_crud_repo.go:276`: "a run must reference a known team").

### Exemptions

Some properties except a case because the code does not guarantee it there. These are the
cases; wherever a comment says otherwise it is quoted.

* `OneNodePerTask` speaks of nodes. Workers of one node share a consumer name, and one that
  is still in drainPending claims and judges again what its neighbour has just read
  (point 4).
* `VerdictSound` and `ImplementsService` allow a refusal of a program whose judging met a
  failure of the sandbox, of a checker or of an interactor (`misread`): of the ends of a
  process the code tells apart only what nsjail's log or an error of the call says
  (point 3; `execute.go:215-228`, `runner_special.go:106`). What remains, and is proved, is
  that no such failure and no interrupted judging ever accepts a program.
* `PendingIsAccounted` counts the rows that are known to stay Pending: a client that was told
  500 or 202, an API server that ended between INSERT and XADD, a trimmed stream, and a task
  whose SystemError could not be published.
* `BoardCatchesUp` excepts a rebuild that overlaps the reveal: rebuildSnapshot reads the
  flag and stores the board in separate calls, so a rebuild that began before the reveal
  may store the frozen board last, and it stays until the next result (point 5).
* `RevealFollowsRules` excepts the cells for which the rules differ. RevealNext charges a
  frozen compile error whatever `ce_no_penalty` says (point 6). A SystemError is a wrong
  attempt on the live board and no verdict in the feed. And the feed always uses the default
  settings: `scanContest` never reads the column, so it differs from the board for a contest
  with other settings (`resolver.go:182-184`: "never disagree").
* `HandedOutIsCurrent` excepts evicted problems: the goroutine that removes an evicted
  directory may run after the problem, found unchanged or downloaded again, has been handed
  out again (point 8).
* `DiskIsBounded` excepts directories that nobody will remove before the next Prune, because
  RemoveAll failed or Prune could not read them; it allows directories that are about to be
  removed (point 7). The `<id>.tmp` staging directories are not problem directories.
* `ServeWSReturns` excepts a stopped hub, which nobody reads `register` of, a full
  send channel, which nobody drains before the pumps start, and it counts the panic of a
  send on a channel closed meanwhile as a return (net/http recovers it).
* `LastCounts` and `VerdictsHidden` except submissions that were not withheld. One that
  arrives at the very end is judged at once although an earlier one of the same cell may
  still be swept, so two of a cell count. If the contest cannot be loaded when a submission
  is classified it is judged at once; its page masks it, unless that page's own lookup fails
  too (point 9), and the lists and the board do not. The verdict of somebody else's
  submission to a running ICPC contest shows as well on a page whose lookup fails.
* `OrdinalsDistinct` excepts overlapping AddProblem calls and explicit ordinals: the table
  has no key on the place (point 10).
* `FeedTeamsKnown` is about feeds taken after the contest: during it, a submission between
  the query of the teams and that of the runs names an unknown team (point 11).
* `PasswordIsKept` excepts a password set between a login's check and its rehash, which the
  rehash overwrites (`auth.go:182`).
* `RetiredIsGone` excepts the codes in `slipped`: the deletion failed, or the request that
  used the code up was told that its UPDATE or INCR had failed and did not try. A later
  request that uses the same code up, and is told so, deletes it all the same. What it does
  not claim, so that a code may work twice: two confirmations
  that have both read a code both succeed, the deletion of a failed mail or of a late
  confirmation may hit a newer code, and a new code starts a new count of attempts.
* `VerdictIsDeserved` excepts groups for the time limits: ExecuteGroup parses a log that may
  not have been read yet, so that a time limit reads as a runtime error
  (`group.go:239`; `execute.go:86` waits). Also visible in the model: a grader or checker
  that fails to start, crashes or stays silent means a wrong answer, the interactor's own
  end is ignored, and a contestant killed by SIGPIPE after the interactor said WA gets RE.

**Bounds.** `MaxTasks` 2 and `MaxFaults` 2 let a task be judged, crashed upon, redelivered
and disturbed again; the shortest counterexamples of the mutants need one or two faults.
`PendingBatch` 1 (code: 64) makes a full batch and the second XPENDING happen with one
pending entry. `StreamMaxLen` 1 or 2 (code: 10000) makes trimming happen; where trimming
is not the question it is 10 and never reached. Two test cases suffice to tell a partial
list from a complete one: the prefix `AC` of `AC, WA` is the dangerous one. In `Ranking`,
`SecondsPerMinute` 2 (code: 60) keeps the rounding to minutes visible with small times,
one submission is made exactly at the freeze, `MaxReveals` 1 and `MaxBacklog` 1 limit how
far results run ahead of the ranker, which does not limit their order. In `TestcaseCache`,
`MaxEntries` 1 (code: 200) makes the second problem evict the first, `MaxCalls` 3 is what
using, evicting and asking again takes, and `MaxUploads` 2 lets a zip change under a
download. In `Hub`, capacities of 1 (code: 64, 256 and 2048) make every channel full after one
message, so that eviction and blocked senders happen with two boards; two connections are
needed for one to be served while the other blocks the loop. In `OiContest`, two
submissions to one problem or to two, of which the later is worth less, tell "last" from
"best" and "per problem" from "per contestant"; two sweeps overlap; time 2 is the end
itself. In `Contests`, two problems and two handlers let links, deletions and submissions
overlap; times 1, 2 and 3 are the start, the end and after it. In `Accounts`,
`maxResetAttempts` 2 (code: 5) makes the last wrong answer happen with two of four
requests. In `Sandbox`, pipes of one message make writers block as well as readers, and a
ring of two lets both wait for each other.

**Deadlock** is not checked: with all tasks done and the budget spent, idle workers wait
for ever, which is how the system should rest.

**Fairness.** `FairSpec` and `FairPSpec` assume weak fairness of each worker, of the
writer, and of the request that has been created (goroutines that can run do run), and
of the supervisor (`docker-compose.yml` says `restart: unless-stopped`). Faults are never
fair and their number is bounded. The liveness run excludes `redis` faults and renaming:
both are known to leave entries pending (finding 1, and the hazard list). `FairSpec` of
`TestcaseCache` assumes that a worker inside a refresh goes on: its calls to MinIO are
under the task's context, which GlobalTimeout ends. Uploads, expiry, removals and faults
are not fair. `FairSpec` of `Hub` assumes that the loop, the pumps and ServeWS run, and that
the read of a connection whose peer is gone fails in the end, as the read deadline and the
ping ticker make it; browsers, boards and the Redis subscription are not fair. `FairSpec`
of `Sandbox` assumes that the parent's goroutines run and that the task's deadline comes;
programs are not fair, so any of them may hang.

## 4. Proofs

Every theorem holds for every value of the constants of its module: any number of nodes,
workers, submissions, test cases and faults; of connections, boards and channel
capacities; of accounts, codes and overlapping requests; of contestants, submissions and
sweeps; of processes, channels and any graph between them; of problems, uploads and any
size of the cache; of contests, users and overlapping handlers; of teams, results and any
freeze, penalty and CE policy. The assumptions are the ones named in the modules, and TLC
evaluates them in every run:

* `Scheduler`: each worker has a node, the expected verdicts are statuses of test cases,
  the limits are natural numbers and the two sizes positive.
* `JudgePipeline` (`RowsAssumption`): no row, Pending and the final statuses differ.
* `Hub`: the capacities are positive, the bounds natural numbers.
* `Accounts`: no address is 0, which stands for none, and the table a run starts from
  satisfies the unique keys of `001_init.sql`.
* `OiContest`: what its constants are, and that the requests are finitely many, which a
  proof that counts them needs.
* `Sandbox`: a group has two processes or more, a channel joins processes of the group, a
  pipe holds at least one message.
* `TestcaseCache`: the cache has room for a problem, every problem may have been uploaded
  once, the problems are finitely many (an eviction needs a last one).
* `Contests`: ids are positive, the times of a contest and the bounds natural numbers.
* `Ranking`: no submission is both a contest's and practice, verdicts are verdicts, users,
  problems and times are numbers, the two sizes positive; `IcpcStrategy`: the settings are
  what their Go types say and a minute has at least a second.

Three theorems of `Ranking` have a hypothesis besides, each naming a failure the code does
not guard against: `"hget" \notin Faults` (a failing HGET erases an entry, finding 2),
`"exists" \notin Faults` (a failing EXISTS reads as "not revealed", and the board of a
revealed contest is stored frozen), and `results.first = 1` (once the stream has been
trimmed past a pending result, XCLAIM forgets it and with it the rebuild it stood for).

| Module, theorem | States | Inductive strengthening, and why it is needed |
|---|---|---|
| `JudgingProofs` `TypeCorrect` | `[]TypeOK` | `EntriesOK`: an entry named by the group, a batch or a handler exists; a worker is inside handleMessage exactly when dispatch called it; a node that is down has no goroutines. Without it `Task(w)` need not be a submission. |
| `VerdictsAreSound` | `[]VerdictSound` | `JudgingOK`: while the context of a judging is alive, the results collected so far are, case by case, `Sound`: the program's own, a SystemError, or, if the task was misread, anything but Accepted; the list is no longer than the test cases, and the status about to be published is sound in the same sense. Once the context is done nothing is claimed, and nothing can be published but an SE. `AggregateTrueOrSE` says why an SE in a complete list cannot produce a wrong verdict, `AggregateSound` why a misread case cannot produce an accepted one, and `MisreadStep` that a misread judging stays one. |
| `SettledTasksAreAnswered` | `[]SettledIsAnswered` | `AnswersOK`: a worker about to XACK has an answer on the stream (or gave up on its SE). `SettlesOnlyBy` lists the ways an entry can leave the pending list: XACK, or being trimmed. |
| `NodesDoNotShareTasks` | `[]OneNodePerTask` | `OwnersOK`: a pending entry has one owner, a held entry (being handled, or in a claimed batch) was delivered and is pending, if at all, for its holder's node, and is held by one node. Claimed batches have to be included, since a worker may sit on an entry for as long as the ones before it take. |
| `NoSubmissionForgotten` | `PSpec => []PendingIsAccounted` | `PInv`: `LinksOK` ties submissions, tasks and results together (a request past a successful Create has a row, an accepted one a task, a task a row, a result its task), `WrittenOK` says that a result no longer pending, or about to be acknowledged, is in its row. With `SettledIsAnswered` this follows a Pending row from the request over the task to the result. |
| `PipelineIsJudgeService` | `PSpec => ImplementsService` | the refinement. `PInv`, `JudgingOK` and `VerdictSound` make each publication a `Judge` of an accepted submission, each Update a `Record` of one of its answers, Create, failing with effect too, an `Accept`, each misreading a `Disturb` of a submission that has a row (`ServiceDisturbs`), and everything else a stutter. |
| `HubProofs` `TypeCorrect` | `[]TypeOK` | `BoardsExist` (no channel carries a board that was never stored) and `RegisteredOnce` (a connection goes through the register channel once, before anyone reads a snapshot for it). |
| `ClosedOnce` | `[]ChannelClosedOnce` | `JoinsOnce`: nothing was done to the channel of a connection that has not registered. Otherwise a closed channel could enter the room and be closed again. |
| `NothingMissed` | `[]NoBoardMissed` | `NoneNewer` (no board anywhere is newer than the stored one) and `NoGap`: the stored board is on its way to the room, or a connection in it has it as its snapshot, in its channel or received, unless the board is known to be lost. |
| `AccountsProofs` `TypeCorrect` | `[]TypeOK` | `TableOK`, `KeysOK`, `CallsOK`: a request that has looked up an account names one of the table. |
| `AddressStays` | `BoundOnce`, an action property | the same invariant |
| `LastPasswordWorks` | `[]PasswordIsKept` | `Kept`: a login waiting to rehash has checked the password that is current, or was overtaken (`raced`). |
| `RetiredCodesGo` | `[]RetiredIsGone` | `Gone`: a code belongs to one account, and one that is retired and still in Redis has the request that will delete it, or is known to have none (`slipped`). |
| `OiContestProofs` `TypeCorrect` | `[]TypeOK` | `TInv`, with `OneRowEach`: rows and requests that have not inserted yet are together no more than the requests. It bounds the table, and is proved by counting. |
| `VerdictsStay` | `JudgedStaysJudged`, an action property | `TInv` |
| `AnswerIsTrue` | `[]SweepSettles` | `SweepCovers`: what a sweep that has skipped nothing has gone past is voided, judged or on its way. |
| `NothingShown` | `[]VerdictsHidden` | `RequestKnows`, `SweepKnows`, `JudgedKnows`, `BoardKnows`: a sweep past its first check implies that the contest has ended; a task, a verdict or a score that it has, or that the submission was not withheld. `PagesFacts` says what a page shows in each of the cases, its own lookup failing or not. |
| `LastOneCounts` | `[]LastCounts` | `LastExists`, `SupersededByLater`, `OnlyLastJudged`, `SweepTakesLast`, `BoardOfLast`: a sweep that read its list before a later submission arrived cannot exist, because lists are read after the end and withheld submissions arrive before it. |
| `SandboxProofs` `NobodyLeftWaiting` | `[]StuckOnPartner` | `HeldOK`: once all are started the parent holds no end of a channel, and a process that has ended holds none. |
| `VerdictsDeserved` | `[]VerdictIsDeserved` | `ResultsOK`, `DoneOK`: what was measured and parsed of an ended process agrees with why it ended; `WorstFacts` says what the worst of a group's results is. |
| `TestcaseCacheProofs` `TypesHold` | `[]TypeOK` | `TInv`: the list holds each problem of the index once, and every removal, slot and job names one of the problems. |
| `OneRefreshHolds` | `[]OneRefresh` | `SlotOwned` and `WaiterFollows`: a worker inside a refresh is the one its slot names, and a waiter waits for a slot of its problem or has its outcome. |
| `HandedOutIsCurrentHolds` | `[]HandedOutIsCurrent` | `NothingAhead` (no ETag is newer than the zip in MinIO), `SawNewest` and `StagedCurrent` (what a leader saw and staged is what it will install), `RemoverTaints` (a directory is removed only after an eviction), and `TornIsOld`, on which the proof turns: a directory that a crash left between its files and its `.etag` names an ETag older than MinIO's, so that the comparison with it cannot call it current. |
| `DiskIsBoundedHolds` | `[]DiskIsBounded` | `ListBounded` and `DirsAccounted`: each directory off the list has an owner that will remove or replace it, or its removal has failed, or the last Prune could not read it. |
| `ContestsProofs` `TypesHold` | `[]TypeOK` | `TInv`: all ids in use are below their sequence, a handler that has read a row names an id that was given out, and the ordinals of a contest have a largest one, which MAX(ordinal) reads. |
| `PagesAgreeHolds` | `[]PagesAgree` | none: the queries agree in every state of the tables. |
| `OrdinalsDistinctHolds` | `[]OrdinalsDistinct` | `OneAdder` and `SeenIsFree`: without an overlap one handler adds to a contest, and the place it has read is still free although links may have been removed meanwhile. |
| `FeedTeamsKnownHolds` | `[]FeedTeamsKnown` | `OneExport`, `ClosedIsOver`, `FeedComplete`: a feed that was begun after the end has the team of every run its contest can still have. |
| `DeletionsAreWholeHolds` | `DeletionsAreWhole`, an action property | `TInv`: a handler's transaction can only name what the keys still allow. |
| `RankingProofs` `TypesHold` | `[]TypeOK` | `TInv`, with `EntryOK`: a cell that is solved was solved before the freeze and has nothing frozen, all that is frozen came after it; the ranker is in its handler exactly when dispatch called it. |
| `FreezeHidesHolds` | `[]FreezeHides` | `EntriesMerged` and `ViewsMerged`: the entries, and what any rebuild has loaded of them, show what a prefix of the results adds up to; a rebuild that has read the flag before the reveal shows frozen cells. |
| `RevealOnlyAddsHolds` | `[]RevealOnlyAdds` | `EntryOK` again: what the reveal solves is solved after the freeze, too late for the first blood of a problem that was solved before. |
| `BoardCatchesUpHolds` | `[](results.first = 1 => BoardCatchesUp)` | `BoardFollows`: the stored board is current, or a pending result stands for the rebuild that is missing (`Covered`). `RankerView` and `AdminView` say the same of boards that are about to be stored. |
| `RankIsStandardHolds` | `[]RankIsStandard` | `RInv`: the table is finite and its entries sound, which makes the three keys numbers. The places of sort.Slice are then the numbers from 1 on, each taken once (`PlaceFacts`), and the rank changes where the row does (`StandingFacts`). |
| `RevealFollowsRulesHolds` | `[]RevealFollowsRules` | `RulesKept`: an entry made of runs in order counts the wrong runs before its first accepted one, or before the freeze, and its frozen list is the runs after the freeze in order (`Follows`). `RoundStep` follows the reveal through that list. |

The theorems of `Scheduler` are proved from steps (`AnyStep`) that include what the API
server does around the nodes, so that they hold of the nodes inside the pipeline as well
(`NodesInPipeline`).

Each proof has one step per action. Steps of the same shape share a lemma
(`DispatchStep`, `HandlerStep`, `Undisturbed`, `OwnersShrink`, ...), and the larger ones
first prove once per action what it may do to a part of the state (`SettlesOnlyBy`,
`StreamsGrow`, `WriterMoves`, `RequestsMove`, `RowsKept`, `TasksExplained`, ...) and then
reason from that alone. TLC checked every inductive invariant on the instances of
section 3 before it was proved.

What the proofs changed in the models: the guards of two CASE expressions of `Sandbox`
overlapped, so that their value was open although TLC takes the first that holds; they are
IF chains now, in the order of the code's tests. `Accounts` and `OiContest` had to say what
their initial tables and sets of requests are. `TestcaseCache` moved a list element with
SelectSeq, about which nothing can be proved here; `MoveToFront` and `PushFront` now are the
two calls of container/list. `Ranking` had no assumption that a contest's submissions are
not practice ones, without which the type of a merged result does not follow; the reference
of `FreezeHides` is a recursive function instead of a filtered sequence and a fold, and
`RevealFollowsRules` speaks of the places of results instead of a filtered sequence.

Recursion over data (`RevealAll`, `SumOver`, `assignRanks`, the reference `Merged`) is
reasoned about by hand: the functions are shown to exist, and a property of their rounds is
proved by looking at the smallest round that would break it (`RevealLoop`, `SumLoop`,
`MergeLoop`), because the library's induction theorems cannot be instantiated here.

Left to TLC: the liveness properties (`AcceptedIsJudged`, `WaitersReturn`,
`GoneLeavesRoom`, `ServeWSReturns`, `ExecutionEnds`), since fairness and ENABLED are beyond
the prover, and the violations, which are counterexamples. Every invariant and every
other action property that a run checks is a theorem.

## 5. Not modelled, and why

* Payload encodings: a message is the record its handler uses; a malformed payload, which
  no publisher produces, is left out.
* The contest metadata cache: nothing updates a contest after its creation, so it only
  matters for a contest that is deleted while its results arrive.
* A handler that fails for ever: with `pendingBatch` such entries drainPending never
  reaches the main loop. Faults are bounded, so no run shows it.
* Test-case archives: extraction succeeds or fails as a whole. The `.tmp` directories that
  a crash leaves, which Prune passes over, are left out, and so is a zip uploaded twice
  with the same contents and hence the same ETag.
* The framing of the WebSocket: writePump appends queued boards to the frame it is writing
  (`websocket.go:351-366`) and the page parses one JSON value per frame
  (`RankingBoard.vue:176-182`), so the boards of such a frame do not show; the next one does.
* Scores: the points of test cases and partial credit, the IOI strategy and the order of
  the OI board, which are sums and one sort.
* The sandbox's mounts, seccomp (a violation reads as RE), `InteractorNoSandbox`, and the
  files a compilation leaves; `Scheduler` has the compile stage. `GlobalWallTimeLimitMs` is
  unused by the code, and a process of a group is given its index twice
  (`interactive/orchestrator.go:112`, `group.go:149`), which no property is about.
* Tokens and their expiry, profile fields, searches, lists and statistics: reads, or writes
  of a single row without a condition.
* nsjail, MinIO, the mail server and the kernel, which are external, and the frontend, which
  keeps no state of the system.

## 6. Plan

Done: the modules of section 2, the runs of section 3 and the proofs of section 4; of what
the runs check only liveness is without a proof. What would extend the project:

1. the IOI strategy and the order of the score boards, as operators beside `IcpcStrategy`;
2. the sandbox's trusted interactor and the files a compilation leaves;
3. a second API server, of which `docker-compose.yml` starts none today: two rankers would
   break the argument that only one goroutine writes entries.
