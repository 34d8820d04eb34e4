----------------------------- MODULE OiContest ------------------------------
(***************************************************************************)
(* Submissions to one contest, as the handlers of                          *)
(* internal/api/handler/submission.go treat them, with the deferred        *)
(* judging of a blind (OI) contest: submissions made while it runs are     *)
(* stored and withheld, and JudgeContest judges the latest one of each     *)
(* contestant and problem afterwards.                                      *)
(*                                                                         *)
(* Handlers run concurrently and each of their database and queue calls is *)
(* a step.  What follows the queue (the judgers, the result writer, the    *)
(* ranking service) is represented by what it does in the end: every task  *)
(* yields a result, which is written to the row and merged into the board  *)
(* at any later moment and, as the streams deliver at least once and a row *)
(* may get several tasks, any number of times.                             *)
(***************************************************************************)
EXTENDS Integers, Sequences, FiniteSets

CONSTANTS
    Cells,         \* the pairs <<user, problem>> of the contest
    Requests,      \* the submissions that may be posted
    Sweeps,        \* the calls of JudgeContest that may be made
    Score,         \* Score[i]: what the i-th created submission is worth
    Types,         \* the contest types considered, of {"oi", "icpc"}
    StartTime, EndTime, MaxTime,
    Faults,        \* of {"lookup", "create", "publish", "mark", "abort"}
    MaxFaults

ASSUME OiAssumption ==
    /\ StartTime \in Nat /\ EndTime \in Nat /\ MaxTime \in Nat
    /\ StartTime < EndTime /\ EndTime <= MaxTime
    /\ MaxFaults \in Nat
    /\ Types \subseteq {"oi", "icpc"}
    /\ IsFiniteSet(Requests) /\ Requests \cap Sweeps = {}
    /\ Score \in [1 .. Cardinality(Requests) -> Nat]

VARIABLES
    now,       \* the clock
    type,      \* contests.contest_type
    strict,    \* settings["strict_last_submission"]
    rows,      \* the table of submissions, in the order of their ids
    req,       \* req[r]: the handler of r, its cell, its contest, its row
    sweep,     \* sweep[s]: the handler of s, what it has listed, what it skipped
    judging,   \* the rows with a judge task, whose result may come in
    board,     \* Redis hash: partial function from cells to entries
    unheld,    \* history: rows created or classified once the contest had ended,
               \* or whose contest could not be loaded
    settled,   \* history: rows listed by a sweep that skipped nothing
    budget     \* faults left

history == <<unheld, settled>>

vars == <<now, type, strict, rows, req, sweep, judging, board, history, budget>>

Ids == 1 .. Cardinality(Requests)

Row == [cell : Cells, contest : BOOLEAN, status : {"Pending", "Superseded", "Judged"}]

Entry == [DisplayScore : Nat, BestSubmitTime : Nat, Accepted : BOOLEAN]

NewRequest == [pc |-> "idle", cell |-> CHOOSE c \in Cells : TRUE, contest |-> FALSE, id |-> 0]

NewSweep == [pc |-> "idle", listed |-> {}, left |-> {}, skipped |-> 0]

Fault(kind) == kind \in Faults /\ budget > 0 /\ budget' = budget - 1

NoFault == UNCHANGED budget

-----------------------------------------------------------------------------
\* contests.EffectiveStatus; a contest without freeze.
EffectiveStatus ==
    IF now < StartTime THEN "ready" ELSE IF now < EndTime THEN "running" ELSE "ended"

\* CanSubmitToContest and ActiveContestForProblem, for a problem of the contest
\* and a user who may take part: the last instant belongs to the contest, while
\* EffectiveStatus counts it as ended.
CanSubmitToContest == StartTime <= now /\ now <= EndTime

IsBlindJudged == type = "oi"

\* Mutant: submissions of a blind contest are never withheld.
deferJudgingNever(contest) == FALSE

\* deferJudging, when the contest can be loaded.
deferJudging(contest) == contest /\ IsBlindJudged /\ EffectiveStatus # "ended"

-----------------------------------------------------------------------------
\* Submit and SubmitPractice.

EndedRequest == [NewRequest EXCEPT !.pc = "end"]

RequestEnds(r) == req' = [req EXCEPT ![r] = EndedRequest]

\* POST /contests/:id/submissions.  A refusal, an unusable problem or a failed
\* upload ends the request without a trace.
Submit(r) ==
    /\ req[r].pc = "idle"
    /\ \E c \in Cells :
          req' = [req EXCEPT ![r] = IF CanSubmitToContest
                                    THEN [pc |-> "create", cell |-> c, contest |-> TRUE, id |-> 0]
                                    ELSE EndedRequest]
    /\ UNCHANGED <<now, type, strict, rows, sweep, judging, board, history, budget>>

\* POST /submissions.  It counts for the running contest of its problem; if that
\* cannot be found out it is plain practice.
SubmitPractice(r) ==
    /\ req[r].pc = "idle"
    /\ \E c \in Cells, active \in BOOLEAN :
          /\ \/ active = CanSubmitToContest /\ NoFault
             \/ ~active /\ CanSubmitToContest /\ Fault("lookup")
          /\ req' = [req EXCEPT ![r].pc = "create", ![r].cell = c, ![r].contest = active]
    /\ UNCHANGED <<now, type, strict, rows, sweep, judging, board, history>>

Unheld(i, so) == unheld' = IF so THEN unheld \cup {i} ELSE unheld

\* Mutant: an error of the insert goes unnoticed.
InsertLost(r) == UNCHANGED rows /\ Unheld(Len(rows) + 1, EffectiveStatus = "ended")

Insert(r) ==
    /\ rows' = Append(rows, [cell |-> req[r].cell, contest |-> req[r].contest, status |-> "Pending"])
    /\ Unheld(Len(rows) + 1, EffectiveStatus = "ended")

\* SubmissionRepo.Create.
Create(r) ==
    /\ req[r].pc = "create"
    /\ Insert(r)
    /\ req' = [req EXCEPT ![r].pc = "defer", ![r].id = Len(rows) + 1]
    /\ UNCHANGED <<now, type, strict, sweep, judging, board, settled, budget>>

\* The insert is reported as failed although it was done.
CreateFails(r) ==
    /\ req[r].pc = "create"
    /\ Fault("create")
    /\ Insert(r)
    /\ RequestEnds(r)
    /\ UNCHANGED <<now, type, strict, sweep, judging, board, settled>>

\* The submission is withheld, or goes to the judge at once: also when its
\* contest cannot be loaded.
Defer(r) ==
    /\ req[r].pc = "defer"
    /\ \E withhold \in BOOLEAN :
          /\ \/ /\ withhold = deferJudging(req[r].contest)
                /\ Unheld(req[r].id, EffectiveStatus = "ended")
                /\ NoFault
             \/ /\ ~withhold /\ req[r].contest
                /\ Unheld(req[r].id, TRUE)
                /\ Fault("lookup")
          /\ req' = [req EXCEPT ![r] = IF withhold THEN EndedRequest ELSE [@ EXCEPT !.pc = "enqueue"]]
    /\ UNCHANGED <<now, type, strict, rows, sweep, judging, board, settled>>

\* publishJudgeTask; under a fault its error leaves the task in the queue or not.
publishJudgeTask(i, published) ==
    judging' = IF published THEN judging \cup {i} ELSE judging

\* enqueueTask: the client gets its answer, 201 or 202, and nobody retries.
EnqueueTask(r) ==
    /\ req[r].pc = "enqueue"
    /\ \E published \in BOOLEAN :
          /\ (published /\ NoFault) \/ Fault("publish")
          /\ publishJudgeTask(req[r].id, published)
    /\ RequestEnds(r)
    /\ UNCHANGED <<now, type, strict, rows, sweep, board, history>>

\* The server ends, or the client's connection does and cancels the context.
AbortSubmit(r) ==
    /\ req[r].pc \in {"create", "defer", "enqueue"}
    /\ Fault("abort")
    /\ RequestEnds(r)
    /\ UNCHANGED <<now, type, strict, rows, sweep, judging, board, history>>

-----------------------------------------------------------------------------
\* JudgeContest.

SweepEnds(s) == sweep' = [sweep EXCEPT ![s] = [NewSweep EXCEPT !.pc = "end"]]

\* POST /admin/contests/:id/judge, refused before the end.
JudgeContest(s) ==
    /\ sweep[s].pc = "idle"
    /\ EffectiveStatus = "ended"
    /\ sweep' = [sweep EXCEPT ![s].pc = "list"]
    /\ UNCHANGED <<now, type, strict, rows, req, judging, board, history, budget>>

ListPendingByContest ==
    {i \in DOMAIN rows : rows[i].contest /\ rows[i].status = "Pending"}

List(s) ==
    /\ sweep[s].pc = "list"
    /\ sweep' = [sweep EXCEPT ![s].pc = "void", ![s].listed = ListPendingByContest,
                              ![s].left = ListPendingByContest]
    /\ UNCHANGED <<now, type, strict, rows, req, judging, board, history, budget>>

\* Mutant: the latest of a user, whatever its problem.
splitLatestPerUser(S) ==
    {i \in S : \A j \in S : rows[j].cell[1] = rows[i].cell[1] => j <= i}

\* splitLatestPerProblem: the ones to judge; the others are void.
splitLatestPerProblem(S) ==
    {i \in S : \A j \in S : rows[j].cell = rows[i].cell => j <= i}

\* Mutant: without the condition on the status.
MarkSupersededAny(S) ==
    rows' = [i \in DOMAIN rows |->
                IF i \in S THEN [rows[i] EXCEPT !.status = "Superseded"] ELSE rows[i]]

MarkSuperseded(S) ==
    rows' = [i \in DOMAIN rows |->
                IF i \in S /\ rows[i].status = "Pending"
                THEN [rows[i] EXCEPT !.status = "Superseded"]
                ELSE rows[i]]

\* In a blind contest only the latest ones go on.
Void(s) ==
    LET latest == IF IsBlindJudged THEN splitLatestPerProblem(sweep[s].listed)
                  ELSE sweep[s].listed
    IN  /\ sweep[s].pc = "void"
        /\ MarkSuperseded(sweep[s].listed \ latest)
        /\ sweep' = [sweep EXCEPT ![s].pc = "dispatch", ![s].left = latest]
        /\ UNCHANGED <<now, type, strict, req, judging, board, history, budget>>

\* MarkSuperseded reports an error, with or without effect: 500.
VoidFails(s) ==
    LET void == sweep[s].listed \ splitLatestPerProblem(sweep[s].listed)
    IN  /\ sweep[s].pc = "void"
        /\ IsBlindJudged /\ void # {}
        /\ Fault("mark")
        /\ MarkSuperseded(void) \/ UNCHANGED rows
        /\ SweepEnds(s)
        /\ UNCHANGED <<now, type, strict, req, judging, board, history>>

\* Mutant: a failed publication is not counted as skipped.
SkippedNone(n) == n

Skipped(n) == n + 1

\* One turn of the loop over toJudge, in the order of the ids: the task is
\* published, or the submission skipped (publication failed, with or without
\* effect; judge metadata of the problem not to be had).
Dispatch(s) ==
    /\ sweep[s].pc = "dispatch"
    /\ \E i \in sweep[s].left :
          /\ \A j \in sweep[s].left : i <= j
          /\ \/ /\ publishJudgeTask(i, TRUE)
                /\ sweep' = [sweep EXCEPT ![s].left = @ \ {i}]
                /\ NoFault
             \/ /\ Fault("publish")
                /\ \E published \in BOOLEAN : publishJudgeTask(i, published)
                /\ sweep' = [sweep EXCEPT ![s].left = @ \ {i}, ![s].skipped = Skipped(@)]
    /\ UNCHANGED <<now, type, strict, rows, req, board, history>>

\* The answer to the administrator, with the number of skipped submissions.
JudgeContestReturns(s) ==
    /\ sweep[s].pc = "dispatch"
    /\ sweep[s].left = {}
    /\ SweepEnds(s)
    /\ settled' = IF sweep[s].skipped = 0 THEN settled \cup sweep[s].listed ELSE settled
    /\ UNCHANGED <<now, type, strict, rows, req, judging, board, unheld, budget>>

\* A failed query, the server ends or the administrator's connection does.
AbortSweep(s) ==
    /\ sweep[s].pc \in {"list", "void", "dispatch"}
    /\ Fault("abort")
    /\ SweepEnds(s)
    /\ UNCHANGED <<now, type, strict, rows, req, judging, board, history>>

-----------------------------------------------------------------------------
\* What follows the queue.

\* SubmissionRepo.Update, whatever the row holds.
Update(i) ==
    /\ i \in judging
    /\ rows' = [rows EXCEPT ![i].status = "Judged"]
    /\ UNCHANGED <<now, type, strict, req, sweep, judging, board, history, budget>>

\* OIStrategy.Apply: the best score, or in strict mode the latest result; ids
\* stand for submission times.
Apply(i, prev) ==
    IF strict \/ Score[i] > prev.DisplayScore
    THEN [DisplayScore |-> Score[i], BestSubmitTime |-> i,
          Accepted |-> prev.Accepted \/ Score[i] > 0]
    ELSE prev

\* processContestResult of a blind contest; of an ICPC contest module Ranking has it.
Rank(i) ==
    /\ i \in judging
    /\ rows[i].contest /\ IsBlindJudged
    /\ LET c    == rows[i].cell
           prev == IF c \in DOMAIN board THEN board[c]
                   ELSE [DisplayScore |-> 0, BestSubmitTime |-> 0, Accepted |-> FALSE]
       IN  board' = [d \in DOMAIN board \cup {c} |-> IF d = c THEN Apply(i, prev) ELSE board[d]]
    /\ UNCHANGED <<now, type, strict, rows, req, sweep, judging, history, budget>>

Tick ==
    /\ now < MaxTime
    /\ now' = now + 1
    /\ UNCHANGED <<type, strict, rows, req, sweep, judging, board, history, budget>>

-----------------------------------------------------------------------------
Init ==
    /\ now = 0
    /\ type \in Types
    /\ strict \in BOOLEAN
    /\ type # "oi" => ~strict
    /\ rows = <<>>
    /\ req = [r \in Requests |-> NewRequest]
    /\ sweep = [s \in Sweeps |-> NewSweep]
    /\ judging = {}
    /\ board = <<>>
    /\ unheld = {}
    /\ settled = {}
    /\ budget = MaxFaults

Next ==
    \/ \E r \in Requests :
          \/ Submit(r) \/ SubmitPractice(r) \/ Create(r) \/ CreateFails(r)
          \/ Defer(r) \/ EnqueueTask(r) \/ AbortSubmit(r)
    \/ \E s \in Sweeps :
          \/ JudgeContest(s) \/ List(s) \/ Void(s) \/ VoidFails(s)
          \/ Dispatch(s) \/ JudgeContestReturns(s) \/ AbortSweep(s)
    \/ \E i \in Ids : Update(i) \/ Rank(i)
    \/ Tick

Spec == Init /\ [][Next]_vars

-----------------------------------------------------------------------------
\* What the pages show.

Full(i) == [Status |-> rows[i].status, Score |-> TRUE, Details |-> TRUE]

\* maskBlind and maskJudging.
Masked(status) == [Status |-> status, Score |-> FALSE, Details |-> FALSE]

\* applyContestVisibility: the status of row i that its page shows to a viewer who is
\* no administrator, whether the score is left, and whether the message and the test
\* cases are.  A page whose own lookup of the contest fails only loses the latter.
applyContestVisibility(i, author, loaded) ==
    IF ~rows[i].contest THEN Full(i)
    ELSE IF ~loaded THEN [Full(i) EXCEPT !.Details = FALSE]
    ELSE IF IsBlindJudged THEN
        IF EffectiveStatus # "ended" THEN Masked("Pending") ELSE Full(i)
    ELSE IF EffectiveStatus # "ended" /\ ~author THEN Masked("Judging")
    ELSE Masked(rows[i].status)

\* How the lookup of a page may turn out.
PageLoads == IF "lookup" \in Faults THEN BOOLEAN ELSE {TRUE}

\* What the page of row i may show to anybody.
Pages(i) == {applyContestVisibility(i, author, loaded) : author \in BOOLEAN, loaded \in PageLoads}

\* ListAll: the status a list of submissions shows, to anybody.
Listed(i) == rows[i].status

-----------------------------------------------------------------------------
\* Types: what the handlers and sweeps carry between two calls are rows that exist, and
\* only those are judged and scored.
TypeOK ==
    /\ now \in 0 .. MaxTime
    /\ type \in Types /\ strict \in BOOLEAN
    /\ rows \in Seq(Row) /\ Len(rows) <= Cardinality(Requests)
    /\ \A r \in Requests :
          /\ req[r].pc \in {"idle", "create", "defer", "enqueue", "end"}
          /\ req[r].pc \in {"defer", "enqueue"} => req[r].id \in DOMAIN rows
    /\ \A s \in Sweeps :
          /\ sweep[s].pc \in {"idle", "list", "void", "dispatch", "end"}
          /\ sweep[s].left \subseteq sweep[s].listed
          /\ sweep[s].listed \subseteq DOMAIN rows
    /\ judging \subseteq DOMAIN rows
    /\ DOMAIN board \subseteq Cells /\ \A c \in DOMAIN board : board[c] \in Entry
    /\ unheld \subseteq DOMAIN rows /\ settled \subseteq DOMAIN rows
    /\ budget \in 0 .. MaxFaults

ContestRows(c) == {i \in DOMAIN rows : rows[i].contest /\ rows[i].cell = c}

\* "each problem counts ONLY the contestant's LAST submission": if every submission
\* of a cell was withheld, then, whatever sweeps overlap, fail or are repeated,
\* only the last one is ever judged and scored, and it is never voided.
LastCounts ==
    IsBlindJudged =>
        \A c \in Cells :
            LET all == ContestRows(c)
            IN  all \cap unheld = {} =>
                    /\ \A i \in all :
                          /\ rows[i].status = "Judged" => \A j \in all : j <= i
                          /\ rows[i].status = "Superseded" => \E j \in all : j > i
                    /\ c \in DOMAIN board =>
                          \E i \in all : /\ \A j \in all : j <= i
                                         /\ board[c].DisplayScore = Score[i]

ContestPages == {i \in DOMAIN rows : rows[i].contest}

\* While a contest runs, nobody but an administrator sees test cases on a page.  In a
\* blind one nobody sees a verdict or a score, not even of a submission judged by
\* mistake, unless the lookup of the page fails as well as the one that classified
\* the submission; lists and the board, which mask nothing, show one as soon as the
\* latter failed.  In an ICPC one nobody sees the verdict of somebody else's
\* submission, unless the lookup of its page fails.
VerdictsHidden ==
    EffectiveStatus = "running" =>
        /\ \A i \in ContestPages :
              /\ \A page \in Pages(i) : ~page.Details
              /\ applyContestVisibility(i, FALSE, TRUE).Status # "Judged"
              /\ ~applyContestVisibility(i, FALSE, TRUE).Score
              /\ IsBlindJudged =>
                    /\ applyContestVisibility(i, TRUE, TRUE) = applyContestVisibility(i, FALSE, TRUE)
                    /\ i \notin unheld =>
                          Listed(i) = "Pending" /\ \A page \in Pages(i) : page.Status = "Pending"
        /\ \A c \in DOMAIN board : ContestRows(c) \cap unheld # {}

\* A submission that a sweep had listed and that was not skipped is voided, judged
\* or on its way to a verdict: answered with "skipped": 0, the administrator need
\* not run the sweep again.
SweepSettles ==
    \A i \in settled :
        rows[i].status = "Pending" => i \in judging

\* MarkSuperseded "avoids ever clobbering an already-judged submission", and no
\* other step of two overlapping sweeps and late handlers takes a verdict back.
JudgedStaysJudged ==
    [][\A i \in DOMAIN rows : rows[i].status = "Judged" => rows'[i].status = "Judged"]_vars
=============================================================================
