------------------------------ MODULE Contests ------------------------------
(***************************************************************************)
(* The administration of contests and problems and what their pages show:  *)
(* internal/api/handler/contest.go, problem.go and resolver.go with their  *)
(* queries in internal/infra/postgres.                                     *)
(*                                                                         *)
(* A handler with one statement is one step.  A handler with several is a  *)
(* call that remembers what it has read; other handlers run between its    *)
(* statements.  The writes of a transaction appear when it commits, and a  *)
(* violated foreign or primary key rolls it back (PostgreSQL, read         *)
(* committed).                                                             *)
(***************************************************************************)
EXTENDS Naturals, Sequences, FiniteSets

CONSTANTS
    ContestIds, ProblemIds, SubmissionIds,   \* initial segments of the positive numbers
    Users,
    Schedules,     \* the triples <<start_time, end_time, allow_late_register>>
    MaxTime,
    Handlers,      \* concurrent requests with more than one statement
    MaxCalls,      \* bound on such requests
    MaxFaults      \* statements that may fail

ASSUME ContestsAssumption ==
    /\ Schedules \subseteq Nat \X Nat \X BOOLEAN
    /\ MaxTime \in Nat /\ MaxCalls \in Nat /\ MaxFaults \in Nat
    /\ ContestIds \subseteq Nat \ {0} /\ ProblemIds \subseteq Nat \ {0}
    /\ SubmissionIds \subseteq Nat \ {0}

VARIABLES
    now,
    contests,       \* table: partial function from ids to contests
    problems,       \* table: partial function from ids to is_public
    links,          \* contest_problems: from pairs <<contest, problem>>
    participants,   \* contest_participants: pairs <<contest, user>>
    submissions,    \* table: partial function from ids to submissions
    fresh,          \* the sequences the ids are taken from
    call,           \* call[h]: the request h is handling
    clash,          \* history: contests two AddProblem calls have overlapped on, or
                    \* that were given an ordinal
    feed,           \* the event feed being exported
    calls,          \* requests left
    budget          \* faults left

tables == <<contests, problems, links, participants, submissions, fresh>>

vars == <<now, tables, call, clash, feed, calls, budget>>

None == 0

\* An idle handler.
NoCall == [op |-> "none", c |-> None, p |-> None, u |-> None, seen |-> None, ids |-> {}]

NoFeed == [problems |-> {}, teams |-> {}, runs |-> {}, closed |-> FALSE]

Begin(h, request) ==
    /\ call[h] = NoCall
    /\ calls > 0 /\ calls' = calls - 1
    /\ call' = [call EXCEPT ![h] = request]

Return(h) == call' = [call EXCEPT ![h] = NoCall] /\ UNCHANGED calls

Without(f, S) == [x \in DOMAIN f \ S |-> f[x]]

With(f, x, v) == [y \in DOMAIN f \cup {x} |-> IF y = x THEN v ELSE f[y]]

-----------------------------------------------------------------------------
\* What the pages show.

Running(c) == contests[c].start <= now /\ now <= contests[c].end

\* The contest is open to the user; None is an anonymous visitor.
Open(c, u) == contests[c].public \/ <<c, u>> \in participants

\* EffectiveStatus, the part registration looks at.
EffectiveStatus(c) ==
    IF now < contests[c].start THEN "ready" ELSE IF now >= contests[c].end THEN "ended" ELSE "running"

\* CanSubmitToContest.
CanSubmitToContest(c, p, u) ==
    /\ c \in DOMAIN contests
    /\ <<c, p>> \in DOMAIN links
    /\ Running(c) /\ Open(c, u)

\* ActiveContestForProblem: the contest started last of those; None if there is none.
ActiveContestForProblem(p, u) ==
    LET active == {c \in DOMAIN contests : CanSubmitToContest(c, p, u)}
    IN  IF active = {} THEN {None}
        ELSE {c \in active : \A d \in active : contests[d].start <= contests[c].start}

Ended(c) == contests[c].end < now

\* Mutant: the last instant of a contest belongs to neither side.
CanNonAdminViewStrict(p, u) ==
    \E c \in DOMAIN contests :
        /\ <<c, p>> \in DOMAIN links
        /\ Ended(c) \/ (Running(c) /\ now < contests[c].end /\ Open(c, u))

CanNonAdminView(p, u) ==
    \E c \in DOMAIN contests :
        /\ <<c, p>> \in DOMAIN links
        /\ Ended(c) \/ (Running(c) /\ Open(c, u))

\* ProblemHandler.Get for a visitor who is no administrator.
ProblemPage(p, u) == p \in DOMAIN problems /\ (problems[p] \/ CanNonAdminView(p, u))

\* ProblemHandler.List, ListProblems: the bank.
Bank == {p \in DOMAIN problems :
            problems[p] \/ \E c \in DOMAIN contests : <<c, p>> \in DOMAIN links /\ Ended(c)}

\* ContestHandler.GetProblems for a visitor who is no administrator.
ContestPage(c, u) ==
    IF c \in DOMAIN contests /\ Open(c, u) /\ now >= contests[c].start
    THEN {p \in ProblemIds : <<c, p>> \in DOMAIN links}
    ELSE {}

-----------------------------------------------------------------------------
\* Single statements.

\* ContestHandler.Create.
CreateContest ==
    /\ fresh.contest \in ContestIds
    /\ \E schedule \in Schedules, public \in BOOLEAN :
          contests' = With(contests, fresh.contest,
                           [start |-> schedule[1], end |-> schedule[2],
                            public |-> public, late |-> schedule[3]])
    /\ fresh' = [fresh EXCEPT !.contest = @ + 1]
    /\ UNCHANGED <<now, problems, links, participants, submissions, call, calls, clash, feed, budget>>

\* ProblemHandler.Create.
CreateProblem ==
    /\ fresh.problem \in ProblemIds
    /\ \E public \in BOOLEAN : problems' = With(problems, fresh.problem, public)
    /\ fresh' = [fresh EXCEPT !.problem = @ + 1]
    /\ UNCHANGED <<now, contests, links, participants, submissions, call, calls, clash, feed, budget>>

\* ProblemHandler.Update: of the fields, the one that matters here.
UpdateProblem(p) ==
    /\ p \in DOMAIN problems
    /\ \E public \in BOOLEAN : problems' = [problems EXCEPT ![p] = public]
    /\ UNCHANGED <<now, contests, links, participants, submissions, fresh, call, calls, clash, feed, budget>>

\* ContestHandler.RemoveProblem, idempotent.
RemoveProblem(c, p) ==
    /\ links' = Without(links, {<<c, p>>})
    /\ UNCHANGED <<now, contests, problems, participants, submissions, fresh, call, calls, clash, feed, budget>>

-----------------------------------------------------------------------------
\* RegisterParticipant: GetByID, the check, the insert.

RegisterParticipant(h) ==
    /\ \E c \in DOMAIN contests, u \in Users :
          /\ EffectiveStatus(c) # "ended"
          /\ contests[c].late \/ EffectiveStatus(c) # "running"
          /\ Begin(h, [NoCall EXCEPT !.op = "register", !.c = c, !.u = u])
    /\ UNCHANGED <<now, tables, clash, feed, budget>>

\* ON CONFLICT DO NOTHING; the foreign key refuses a contest deleted meanwhile.
Register(h) ==
    /\ call[h].op = "register"
    /\ participants' = IF call[h].c \in DOMAIN contests
                       THEN participants \cup {<<call[h].c, call[h].u>>}
                       ELSE participants
    /\ Return(h)
    /\ UNCHANGED <<now, contests, problems, links, submissions, fresh, clash, feed, budget>>

-----------------------------------------------------------------------------
\* AddProblem and CreateContestProblem.

OrdinalsOf(c) == {links[l].ordinal : l \in {k \in DOMAIN links : k[1] = c}}

\* Mutant: counts the problems instead of looking for the largest ordinal.
NextOrdinalByCount(c) == Cardinality({l \in DOMAIN links : l[1] = c}) + 1

\* SELECT MAX(ordinal), plus one; 1 for the first problem.
NextOrdinal(c) ==
    LET all == OrdinalsOf(c)
    IN  IF all = {} THEN 1 ELSE (CHOOSE n \in all : \A k \in all : k <= n) + 1

Adding(h, c) == call[h].op \in {"link", "author"} /\ call[h].c = c

\* The transaction's reads, for a problem of the bank (p) or a new one (None); the
\* administrator may give the ordinal.
AddProblem(h) ==
    /\ \E c \in ContestIds, p \in DOMAIN problems \cup {None}, given \in BOOLEAN :
          /\ c < fresh.contest
          /\ Begin(h, [NoCall EXCEPT !.op = IF p = None THEN "author" ELSE "link",
                                     !.c = c, !.p = p,
                                     !.seen = IF given THEN 1 ELSE NextOrdinal(c)])
          /\ clash' = IF given \/ \E g \in Handlers : Adding(g, c) THEN clash \cup {c} ELSE clash
    /\ UNCHANGED <<now, tables, feed, budget>>

\* Mutant: the problem may be gone by now.
LinkProblemUnchecked(h) ==
    /\ call[h].op = "link"
    /\ links' = With(links, <<call[h].c, call[h].p>>, [ordinal |-> call[h].seen])
    /\ Return(h)
    /\ UNCHANGED <<now, contests, problems, participants, submissions, fresh, clash, feed, budget>>

\* The insert into contest_problems and the commit; the keys refuse a contest or a
\* problem deleted meanwhile and a problem already in the contest.
LinkProblem(h) ==
    LET link == <<call[h].c, call[h].p>>
    IN  /\ call[h].op = "link"
        /\ links' = IF /\ call[h].c \in DOMAIN contests
                       /\ call[h].p \in DOMAIN problems
                       /\ link \notin DOMAIN links
                    THEN With(links, link, [ordinal |-> call[h].seen])
                    ELSE links
        /\ Return(h)
        /\ UNCHANGED <<now, contests, problems, participants, submissions, fresh, clash, feed, budget>>

\* The problem and its link appear together or not at all.
CreateContestProblem(h) ==
    /\ call[h].op = "author"
    /\ fresh.problem \in ProblemIds
    /\ fresh' = [fresh EXCEPT !.problem = @ + 1]
    /\ IF call[h].c \in DOMAIN contests
       THEN /\ problems' = With(problems, fresh.problem, FALSE)
            /\ links' = With(links, <<call[h].c, fresh.problem>>, [ordinal |-> call[h].seen])
       ELSE UNCHANGED <<problems, links>>
    /\ Return(h)
    /\ UNCHANGED <<now, contests, participants, submissions, clash, feed, budget>>

-----------------------------------------------------------------------------
\* Submit and SubmitPractice: the check, later the insert.

SubmitTo(h, p, u, c) == Begin(h, [NoCall EXCEPT !.op = "submit", !.c = c, !.p = p, !.u = u])

\* When its lookup fails SubmitPractice falls back to practice.
Submit(h) ==
    /\ \E p \in DOMAIN problems, u \in Users :
          \/ /\ \/ \E c \in DOMAIN contests : CanSubmitToContest(c, p, u) /\ SubmitTo(h, p, u, c)
                \/ \E c \in ActiveContestForProblem(p, u) : SubmitTo(h, p, u, c)
             /\ UNCHANGED budget
          \/ /\ SubmitTo(h, p, u, None)
             /\ budget > 0 /\ budget' = budget - 1
    /\ UNCHANGED <<now, tables, clash, feed>>

\* SubmissionRepo.Create.
Insert(h) ==
    LET new == [problem |-> call[h].p, user |-> call[h].u, contest |-> call[h].c,
                late |-> call[h].c \in DOMAIN contests /\ Ended(call[h].c)]
    IN  /\ call[h].op = "submit"
        /\ fresh.submission \in SubmissionIds
        /\ fresh' = [fresh EXCEPT !.submission = @ + 1]
        /\ submissions' = IF /\ call[h].p \in DOMAIN problems
                             /\ call[h].c \in DOMAIN contests \cup {None}
                          THEN With(submissions, fresh.submission, new)
                          ELSE submissions
        /\ Return(h)
        /\ UNCHANGED <<now, contests, problems, links, participants, clash, feed, budget>>

-----------------------------------------------------------------------------
\* The two deletions.

SubmissionsTo(c) == {s \in DOMAIN submissions : submissions[s].contest = c}

SubmissionsOf(p) == {s \in DOMAIN submissions : submissions[s].problem = p}

Detached(S) ==
    [s \in DOMAIN submissions |->
        IF s \in S THEN [submissions[s] EXCEPT !.contest = None] ELSE submissions[s]]

\* Mutant: the submissions are detached outside of the transaction.
DetachCommitted(h) ==
    /\ \E c \in DOMAIN contests :
          /\ Begin(h, [NoCall EXCEPT !.op = "delete", !.c = c, !.ids = SubmissionsTo(c)])
          /\ submissions' = Detached(SubmissionsTo(c))
    /\ UNCHANGED <<now, contests, problems, links, participants, fresh, clash, feed, budget>>

\* ContestRepo.Delete: UPDATE submissions, uncommitted.
Detach(h) ==
    /\ \E c \in DOMAIN contests :
          Begin(h, [NoCall EXCEPT !.op = "delete", !.c = c, !.ids = SubmissionsTo(c)])
    /\ UNCHANGED <<now, tables, clash, feed, budget>>

\* DELETE FROM contests and the commit.  A submission inserted meanwhile refers to
\* the contest and rolls everything back.
DeleteContest(h) ==
    LET c == call[h].c
    IN  /\ call[h].op = "delete"
        /\ Return(h)
        /\ IF c \in DOMAIN contests /\ SubmissionsTo(c) \subseteq call[h].ids
           THEN /\ submissions' = Detached(SubmissionsTo(c))
                /\ contests' = Without(contests, {c})
                /\ links' = Without(links, {l \in DOMAIN links : l[1] = c})
                /\ participants' = {x \in participants : x[1] # c}
           ELSE UNCHANGED <<submissions, contests, links, participants>>
        /\ UNCHANGED <<now, problems, fresh, clash, feed, budget>>

\* ProblemRepo.DeleteProblem: DELETE FROM submissions, uncommitted.
Discard(h) ==
    /\ \E p \in DOMAIN problems :
          Begin(h, [NoCall EXCEPT !.op = "discard", !.p = p, !.ids = SubmissionsOf(p)])
    /\ UNCHANGED <<now, tables, clash, feed, budget>>

DeleteProblem(h) ==
    LET p == call[h].p
    IN  /\ call[h].op = "discard"
        /\ Return(h)
        /\ IF p \in DOMAIN problems /\ SubmissionsOf(p) \subseteq call[h].ids
           THEN /\ submissions' = Without(submissions, SubmissionsOf(p))
                /\ problems' = Without(problems, {p})
                /\ links' = Without(links, {l \in DOMAIN links : l[2] = p})
           ELSE UNCHANGED <<submissions, problems, links>>
        /\ UNCHANGED <<now, contests, participants, fresh, clash, feed, budget>>

-----------------------------------------------------------------------------
\* ExportEventFeed: the problems, the teams and the submissions of a contest, read
\* one after the other.

\* Mutant: only those who registered.
ListContestTeamsRegistered(c) == {u \in Users : <<c, u>> \in participants}

ListContestTeams(c) ==
    {u \in Users : <<c, u>> \in participants \/ \E s \in SubmissionsTo(c) : submissions[s].user = u}

Submitting(c) == \E g \in Handlers : call[g].op = "submit" /\ call[g].c = c

Exporting == {"teams", "runs", "send"}

\* The export is closed if the contest is over and nobody is still submitting.
ExportEventFeed(h) ==
    /\ \E c \in DOMAIN contests :
          /\ Begin(h, [NoCall EXCEPT !.op = "teams", !.c = c])
          /\ feed' = [NoFeed EXCEPT !.problems = {p \in ProblemIds : <<c, p>> \in DOMAIN links},
                                    !.closed = Ended(c) /\ ~Submitting(c)]
    /\ \A g \in Handlers : call[g].op \notin Exporting
    /\ UNCHANGED <<now, tables, clash, budget>>

ExportTeams(h) ==
    /\ call[h].op = "teams"
    /\ feed' = [feed EXCEPT !.teams = ListContestTeams(call[h].c)]
    /\ call' = [call EXCEPT ![h].op = "runs"]
    /\ UNCHANGED <<now, tables, calls, clash, budget>>

\* ListForFeed and buildEventFeed, which leaves out what was made after the end;
\* every submission is taken to have a verdict by now.
ExportRuns(h) ==
    LET c == call[h].c
    IN  /\ call[h].op = "runs"
        /\ feed' = IF c \in DOMAIN contests
                   THEN [feed EXCEPT !.runs = {submissions[s] : s \in {k \in SubmissionsTo(c) :
                                                                        ~submissions[k].late}}]
                   ELSE feed
        /\ call' = [call EXCEPT ![h].op = "send"]
        /\ UNCHANGED <<now, tables, calls, clash, budget>>

SendFeed(h) ==
    /\ call[h].op = "send"
    /\ Return(h)
    /\ feed' = NoFeed
    /\ UNCHANGED <<now, tables, clash, budget>>

-----------------------------------------------------------------------------
\* A statement fails, or the client is gone: the transaction is rolled back.
Abort(h) ==
    /\ call[h] # NoCall
    /\ budget > 0 /\ budget' = budget - 1
    /\ Return(h)
    /\ feed' = IF call[h].op \in Exporting THEN NoFeed ELSE feed
    /\ UNCHANGED <<now, tables, clash>>

Tick ==
    /\ now < MaxTime
    /\ now' = now + 1
    /\ UNCHANGED <<tables, call, calls, clash, feed, budget>>

Init ==
    /\ now = 0
    /\ contests = <<>> /\ problems = <<>> /\ links = <<>>
    /\ participants = {} /\ submissions = <<>>
    /\ fresh = [contest |-> 1, problem |-> 1, submission |-> 1]
    /\ call = [h \in Handlers |-> NoCall]
    /\ clash = {} /\ feed = NoFeed
    /\ calls = MaxCalls /\ budget = MaxFaults

Next ==
    \/ CreateContest \/ CreateProblem \/ Tick
    \/ \E p \in ProblemIds : UpdateProblem(p)
    \/ \E c \in ContestIds, p \in ProblemIds : RemoveProblem(c, p)
    \/ \E h \in Handlers :
          \/ RegisterParticipant(h) \/ Register(h)
          \/ AddProblem(h) \/ LinkProblem(h) \/ CreateContestProblem(h)
          \/ Submit(h) \/ Insert(h)
          \/ Detach(h) \/ DeleteContest(h) \/ Discard(h) \/ DeleteProblem(h)
          \/ ExportEventFeed(h) \/ ExportTeams(h) \/ ExportRuns(h) \/ SendFeed(h)
          \/ Abort(h)

Spec == Init /\ [][Next]_vars

-----------------------------------------------------------------------------
Contest == [start : Nat, end : Nat, public : BOOLEAN, late : BOOLEAN]

\* Types, and the references between the tables, which the keys protect.
TypeOK ==
    /\ now \in 0 .. MaxTime
    /\ DOMAIN contests \subseteq ContestIds /\ \A c \in DOMAIN contests : contests[c] \in Contest
    /\ DOMAIN problems \subseteq ProblemIds /\ \A p \in DOMAIN problems : problems[p] \in BOOLEAN
    /\ DOMAIN links \subseteq (DOMAIN contests) \X (DOMAIN problems)
    /\ participants \subseteq (DOMAIN contests) \X Users
    /\ \A s \in DOMAIN submissions :
          /\ submissions[s].problem \in DOMAIN problems
          /\ submissions[s].contest \in DOMAIN contests \cup {None}
    /\ \A h \in Handlers : call[h].op \in {"none", "register", "link", "author", "submit", "delete",
                                           "discard"} \cup Exporting
    /\ budget \in 0 .. MaxFaults

Visitors == Users \cup {None}

\* The five queries that decide who sees a problem agree on the boundaries of a
\* contest: what the contest page or the bank lists can be opened, and whoever may
\* submit to a contest can read the problem, at the last instant too.
PagesAgree ==
    \A p \in DOMAIN problems, u \in Visitors :
        \/ ProblemPage(p, u)
        \/ /\ p \notin Bank
           /\ \A c \in DOMAIN contests :
                 p \notin ContestPage(c, u) /\ ~CanSubmitToContest(c, p, u)

\* Deletions are all or nothing, whatever is submitted meanwhile: a submission
\* leaves its contest only with the contest and disappears only with its problem.
DeletionsAreWhole ==
    [][\A s \in DOMAIN submissions :
          /\ s \notin DOMAIN submissions' => submissions[s].problem \notin DOMAIN problems'
          /\ s \in DOMAIN submissions' /\ submissions'[s].contest # submissions[s].contest
                => submissions[s].contest \notin DOMAIN contests']_vars

\* The problems of a contest have distinct places as long as no two AddProblem
\* calls overlapped on it and none was given an ordinal, also after a removal.
OrdinalsDistinct ==
    \A l, m \in DOMAIN links :
        l # m /\ l[1] = m[1] /\ l[1] \notin clash => links[l].ordinal # links[m].ordinal

\* "A run must reference a known team, so submitters are always included": holds of
\* a feed exported once the contest is over and nobody is submitting any more.
FeedTeamsKnown ==
    feed.closed /\ (\E h \in Handlers : call[h].op = "send")
        => \A r \in feed.runs : r.user \in feed.teams
=============================================================================
