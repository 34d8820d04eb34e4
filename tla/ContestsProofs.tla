--------------------------- MODULE ContestsProofs ---------------------------
(***************************************************************************)
(* Proofs about Contests for any numbers of contests, problems, users and  *)
(* submissions, any schedules and any number of concurrent requests.       *)
(***************************************************************************)
EXTENDS Contests, WellFoundedInduction, TLAPS

Ops == {"none", "register", "link", "author", "submit", "delete", "discard"} \cup Exporting

Call == [op : Ops, c : Nat, p : Nat, u : Users \cup {None}, seen : Nat, ids : SUBSET Nat]

Submission == [problem : Nat, user : Users, contest : Nat, late : BOOLEAN]

Feed == [problems : SUBSET Nat, teams : SUBSET Users, runs : SUBSET Submission,
         closed : BOOLEAN]

NowOK == now \in 0 .. MaxTime

FreshOK == fresh \in [contest : Nat \ {0}, problem : Nat \ {0}, submission : Nat \ {0}]

\* No id has been handed out that the sequence will hand out again.
ContestsOK ==
    /\ DOMAIN contests \subseteq ContestIds
    /\ \A c \in DOMAIN contests : contests[c] \in Contest /\ c < fresh.contest

ProblemsOK ==
    /\ DOMAIN problems \subseteq ProblemIds
    /\ \A p \in DOMAIN problems : problems[p] \in BOOLEAN /\ p < fresh.problem

LinksOK ==
    /\ DOMAIN links \subseteq (DOMAIN contests) \X (DOMAIN problems)
    /\ \A l \in DOMAIN links : links[l] \in [ordinal : Nat]

\* There is a largest ordinal: the table is finite.
LinksBounded == \E n \in Nat : \A l \in DOMAIN links : links[l].ordinal <= n

ParticipantsOK == participants \subseteq (DOMAIN contests) \X Users

SubmissionsOK ==
    /\ DOMAIN submissions \subseteq SubmissionIds
    /\ \A s \in DOMAIN submissions :
          /\ submissions[s] \in Submission
          /\ s < fresh.submission
          /\ submissions[s].problem \in DOMAIN problems
          /\ submissions[s].contest \in DOMAIN contests \cup {None}

CallsOK ==
    /\ call \in [Handlers -> Call]
    /\ \A h \in Handlers : call[h].op \in {"register", "submit"} => call[h].u \in Users

FeedOK == feed \in Feed

BoundsOK == budget \in 0 .. MaxFaults /\ calls \in Nat

TInv ==
    /\ NowOK /\ FreshOK /\ ContestsOK /\ ProblemsOK /\ LinksOK /\ LinksBounded
    /\ ParticipantsOK /\ SubmissionsOK /\ CallsOK /\ FeedOK /\ BoundsOK

\* A request that will add a problem to a contest without clashes is the only one,
\* and it has seen the ordinals that are there now.
OneAdder ==
    \A g, h \in Handlers, c \in Nat : Adding(g, c) /\ Adding(h, c) /\ c \notin clash => g = h

SeenIsFree ==
    \A h \in Handlers, l \in DOMAIN links :
        Adding(h, l[1]) /\ l[1] \notin clash => links[l].ordinal < call[h].seen

OInv == TInv /\ OneAdder /\ SeenIsFree /\ OrdinalsDistinct

\* One export at a time.
OneExport ==
    \A g, h \in Handlers : call[g].op \in Exporting /\ call[h].op \in Exporting => g = h

\* Nobody can submit to the contest of a closed export any more.
ClosedIsOver ==
    \A h \in Handlers :
        call[h].op \in Exporting /\ feed.closed =>
            /\ call[h].c # None
            /\ call[h].c \in DOMAIN contests => Ended(call[h].c)
            /\ call[h].c < fresh.contest
            /\ ~Submitting(call[h].c)

\* What has been read of a closed export so far fits together.
FeedComplete ==
    \A h \in Handlers : feed.closed =>
        /\ call[h].op \in {"teams", "runs"} => feed.runs = {}
        /\ call[h].op = "runs" =>
              \A s \in SubmissionsTo(call[h].c) : submissions[s].user \in feed.teams
        /\ call[h].op = "send" => \A r \in feed.runs : r.user \in feed.teams

FInv == TInv /\ OneExport /\ ClosedIsOver /\ FeedComplete

-----------------------------------------------------------------------------
\* What a step may do.  No request begins to add a problem, or to submit.
NoneAdds ==
    /\ clash' = clash
    /\ \A g \in Handlers : call'[g].op \in {"link", "author"} => call'[g] = call[g]

NoneSubmits == \A g \in Handlers : call'[g].op = "submit" => call'[g] = call[g]

\* No export begins or is declared closed later on.
NoneExports ==
    \A g \in Handlers : call'[g].op \in Exporting =>
        call[g].op \in Exporting /\ call'[g].c = call[g].c /\ (feed'.closed => feed.closed)

\* One link appears, with the ordinal its request has seen.
NewLink(h, k) ==
    /\ Adding(h, k[1]) /\ call'[h].op = "none" /\ links'[k].ordinal = call[h].seen
    /\ \A l \in DOMAIN links' : l # k => l \in DOMAIN links /\ links'[l] = links[l]

LinksMove ==
    \/ \A l \in DOMAIN links' : l \in DOMAIN links /\ links'[l] = links[l]
    \/ \E h \in Handlers, k \in DOMAIN links' : NewLink(h, k)

\* Time goes on, contests do not change, and an id is not used again.
TimeGoesOn ==
    /\ now' \in Nat /\ now <= now' /\ fresh.contest <= fresh'.contest
    /\ \A c \in DOMAIN contests' :
          c < fresh.contest => c \in DOMAIN contests /\ contests'[c] = contests[c]

\* A submission is one that was there, maybe detached, or one a request was making.
SubmissionsMove ==
    \A s \in DOMAIN submissions' :
        \/ /\ s \in DOMAIN submissions
           /\ submissions'[s].user = submissions[s].user
           /\ submissions'[s].contest \in {submissions[s].contest, None}
        \/ \E g \in Handlers :
              call[g].op = "submit" /\ submissions'[s].contest = call[g].c

\* No export is read further.
NoneReads ==
    /\ feed' = feed \/ ~feed'.closed
    /\ \A g \in Handlers : call'[g].op \in Exporting => call'[g] = call[g]

\* An export reads on.
ExportReads(h) == ExportEventFeed(h) \/ ExportTeams(h) \/ ExportRuns(h)

-----------------------------------------------------------------------------
\* Ids are numbers, and None is not one of them.
LEMMA IdFacts ==
    /\ ContestIds \subseteq Nat /\ ProblemIds \subseteq Nat /\ SubmissionIds \subseteq Nat
    /\ None \notin ContestIds /\ None \notin ProblemIds /\ None \notin SubmissionIds
    /\ None \in Nat
BY ContestsAssumption DEF None

\* An idle handler and the export of nothing have the types of the variables.
LEMMA EmptyFacts ==
    /\ NoCall \in Call /\ NoCall.op = "none"
    /\ NoFeed \in Feed /\ NoFeed.closed = FALSE /\ NoFeed.runs = {} /\ NoFeed.teams = {}
BY DEF NoCall, Call, Ops, None, NoFeed, Feed

\* A request begins or ends in the handler's own entry of call.
LEMMA BeginFacts ==
    ASSUME CallsOK, BoundsOK, NEW h \in Handlers, NEW r \in Call, Begin(h, r)
    PROVE  /\ call' \in [Handlers -> Call] /\ call[h] = NoCall /\ call'[h] = r
           /\ \A g \in Handlers : g # h => call'[g] = call[g]
           /\ calls' \in Nat
BY DEF CallsOK, BoundsOK, Begin

\* The handler that answers is idle, and the others go on.
LEMMA ReturnFacts ==
    ASSUME CallsOK, NEW h \in Handlers, Return(h)
    PROVE  /\ call' \in [Handlers -> Call] /\ call'[h].op = "none"
           /\ \A g \in Handlers : g # h => call'[g] = call[g]
           /\ calls' = calls
BY EmptyFacts DEF CallsOK, Return

\* There is a largest ordinal of a contest, and the next one is larger than all of them.
LEMMA NextOrdinalFacts ==
    ASSUME LinksOK, LinksBounded, NEW c
    PROVE  /\ NextOrdinal(c) \in Nat
           /\ \A l \in DOMAIN links : l[1] = c => links[l].ordinal < NextOrdinal(c)
<1> DEFINE all == OrdinalsOf(c)
           upper == {n \in Nat : \A k \in all : k <= n}
<1>1. all \subseteq Nat /\ \A l \in DOMAIN links : l[1] = c => links[l].ordinal \in all
  BY DEF LinksOK, OrdinalsOf
<1>2. \E n \in Nat : \A k \in all : k <= n
  BY DEF LinksBounded, OrdinalsOf
<1>3. CASE all = {}
  BY <1>1, <1>3 DEF NextOrdinal
<1>4. CASE all # {}
  <2>1. upper # {} /\ upper \subseteq Nat
    BY <1>2
  <2>2. PICK m \in upper : \A y \in upper : ~(<<y, m>> \in OpToRel(<, Nat))
    BY <2>1, NatLessThanWellFounded, WFMin, Zenon
  <2>3. \A y \in upper : ~(y < m)
    BY <2>1, <2>2 DEF OpToRel
  <2> HIDE DEF all
  <2>4. m \in all
    <3> SUFFICES ASSUME m \notin all PROVE FALSE
      OBVIOUS
    <3>1. \A k \in all : k \in Nat /\ k <= m /\ k # m
      BY <1>1
    <3>2. m - 1 \in Nat
      BY <3>1, <1>4
    <3>3. m - 1 \in upper
      BY <3>1, <3>2
    <3> QED
      BY <3>3, <2>3
  <2>5. \E n \in all : \A k \in all : k <= n
    BY <2>4
  <2> DEFINE top == CHOOSE n \in all : \A k \in all : k <= n
  <2>6. top \in all /\ \A k \in all : k <= top
    BY <2>5
  <2>7. NextOrdinal(c) = top + 1
    BY <1>4 DEF NextOrdinal, all
  <2> HIDE DEF top
  <2>8. top \in Nat
    BY <1>1, <2>6
  <2>9. ASSUME NEW l \in DOMAIN links, l[1] = c PROVE links[l].ordinal < top + 1
    <3>1. links[l].ordinal \in all
      BY <1>1, <2>9
    <3>2. links[l].ordinal \in Nat /\ links[l].ordinal <= top
      BY <3>1, <1>1, <2>6
    <3> QED
      BY <3>2, <2>8
  <2> QED
    BY <2>7, <2>8, <2>9
<1> QED
  BY <1>3, <1>4

\* What each of the handlers with several statements does to its entry of call.
LEMMA RegisterParticipantFacts ==
    ASSUME CallsOK, BoundsOK, ContestsOK, NEW h \in Handlers,
           RegisterParticipant(h)
    PROVE  /\ call' \in [Handlers -> Call]
           /\ \A g \in Handlers : g # h => call'[g] = call[g]
           /\ calls' \in Nat
           /\ call[h].op = "none" /\ call'[h].op = "register" /\ call'[h].u \in Users
<1>1. PICK c \in DOMAIN contests, u \in Users :
         Begin(h, [NoCall EXCEPT !.op = "register", !.c = c, !.u = u])
  BY DEF RegisterParticipant
<1> DEFINE r == [NoCall EXCEPT !.op = "register", !.c = c, !.u = u]
<1>2. r \in Call /\ r.op = "register" /\ r.u \in Users
  BY ContestsAssumption, ContestsOK DEF ContestsOK, NoCall, Call, Ops, None
<1>3. Begin(h, r)
  BY <1>1
<1> HIDE DEF r
<1> QED
  BY <1>1, <1>2, <1>3, BeginFacts, EmptyFacts

\* A contest that stays without clashes has no other adder, and the ordinal seen is the next.
LEMMA AddProblemFacts ==
    ASSUME CallsOK, BoundsOK, ProblemsOK, LinksOK, LinksBounded, NEW h \in Handlers,
           AddProblem(h)
    PROVE  /\ call' \in [Handlers -> Call]
           /\ \A g \in Handlers : g # h => call'[g] = call[g]
           /\ calls' \in Nat
           /\ call[h].op = "none" /\ call'[h].op \in {"author", "link"}
           /\ call'[h].c \in Nat
           /\ call'[h].c \notin clash' =>
                 /\ call'[h].seen = NextOrdinal(call'[h].c)
                 /\ \A g \in Handlers : ~Adding(g, call'[h].c)
           /\ clash \subseteq clash'
<1>1. PICK c \in ContestIds, p \in DOMAIN problems \cup {None}, given \in BOOLEAN :
         /\ Begin(h, [NoCall EXCEPT !.op = IF p = None THEN "author" ELSE "link",
                                               !.c = c, !.p = p,
                                               !.seen = IF given THEN 1 ELSE NextOrdinal(c)])
         /\ clash' = IF given \/ \E g \in Handlers : Adding(g, c) THEN clash \cup {c} ELSE clash
  BY DEF AddProblem
<1> DEFINE r == [NoCall EXCEPT !.op = IF p = None THEN "author" ELSE "link",
                               !.c = c, !.p = p,
                               !.seen = IF given THEN 1 ELSE NextOrdinal(c)]
<1>2. r \in Call /\ r.op \in {"author", "link"} /\ r.c = c /\ (~given => r.seen = NextOrdinal(c))
  <2> DEFINE o == IF p = None THEN "author" ELSE "link"
             n == IF given THEN 1 ELSE NextOrdinal(c)
  <2>1. n \in Nat /\ o \in {"author", "link"} /\ o \in Ops
    BY NextOrdinalFacts DEF Ops
  <2>2. c \in Nat
    BY ContestsAssumption
  <2>3. p \in Nat
    BY IdFacts, Zenon DEF ProblemsOK
  <2>4. r = [NoCall EXCEPT !.op = o, !.c = c, !.p = p, !.seen = n]
    OBVIOUS
  <2>5. ~given => n = NextOrdinal(c)
    OBVIOUS
  <2> HIDE DEF o, n, r
  <2>6. r \in Call /\ r.op = o /\ r.c = c /\ r.seen = n
    BY <2>1, <2>2, <2>3, <2>4 DEF Call, NoCall, None
  <2> QED
    BY <2>1, <2>5, <2>6
<1>3. Begin(h, r)
  BY <1>1
<1> HIDE DEF r
<1>4. call'[h] = r
  BY <1>2, <1>3, BeginFacts
<1>5. clash' = IF given \/ \E g \in Handlers : Adding(g, c) THEN clash \cup {c} ELSE clash
  BY <1>1
<1>6. clash \subseteq clash' /\ c \in Nat
  BY <1>5, ContestsAssumption
<1>7. ASSUME c \notin clash' PROVE ~given /\ \A g \in Handlers : ~Adding(g, c)
  BY <1>5, <1>7
<1> QED
  BY <1>2, <1>3, <1>4, <1>6, <1>7, BeginFacts, EmptyFacts

\* A deletion of a contest begins.
LEMMA DetachFacts ==
    ASSUME CallsOK, BoundsOK, ContestsOK, SubmissionsOK, NEW h \in Handlers,
           Detach(h)
    PROVE  /\ call' \in [Handlers -> Call]
           /\ \A g \in Handlers : g # h => call'[g] = call[g]
           /\ calls' \in Nat
           /\ call[h].op = "none" /\ call'[h].op = "delete"
<1>1. PICK c \in DOMAIN contests :
         Begin(h, [NoCall EXCEPT !.op = "delete", !.c = c, !.ids = SubmissionsTo(c)])
  BY DEF Detach
<1> DEFINE r == [NoCall EXCEPT !.op = "delete", !.c = c, !.ids = SubmissionsTo(c)]
<1>2. r \in Call /\ r.op = "delete"
  BY ContestsAssumption DEF ContestsOK, SubmissionsOK, SubmissionsTo, NoCall, Call, Ops, None
<1>3. Begin(h, r)
  BY <1>1
<1> HIDE DEF r
<1> QED
  BY <1>1, <1>2, <1>3, BeginFacts, EmptyFacts

\* A deletion of a problem begins.
LEMMA DiscardFacts ==
    ASSUME CallsOK, BoundsOK, ProblemsOK, SubmissionsOK, NEW h \in Handlers,
           Discard(h)
    PROVE  /\ call' \in [Handlers -> Call]
           /\ \A g \in Handlers : g # h => call'[g] = call[g]
           /\ calls' \in Nat
           /\ call[h].op = "none" /\ call'[h].op = "discard"
<1>1. PICK p \in DOMAIN problems :
         Begin(h, [NoCall EXCEPT !.op = "discard", !.p = p, !.ids = SubmissionsOf(p)])
  BY DEF Discard
<1> DEFINE r == [NoCall EXCEPT !.op = "discard", !.p = p, !.ids = SubmissionsOf(p)]
<1>2. r \in Call /\ r.op = "discard"
  BY ContestsAssumption DEF ProblemsOK, SubmissionsOK, SubmissionsOf, NoCall, Call, Ops, None
<1>3. Begin(h, r)
  BY <1>1
<1> HIDE DEF r
<1> QED
  BY <1>1, <1>2, <1>3, BeginFacts, EmptyFacts

\* An export begins with no submission read, closed only when its contest is over.
LEMMA ExportEventFeedFacts ==
    ASSUME CallsOK, BoundsOK, ContestsOK, NEW h \in Handlers,
           ExportEventFeed(h)
    PROVE  /\ call' \in [Handlers -> Call]
           /\ \A g \in Handlers : g # h => call'[g] = call[g]
           /\ calls' \in Nat
           /\ call[h].op = "none" /\ call'[h].op = "teams"
           /\ call'[h].c \in DOMAIN contests
           /\ feed' \in Feed /\ feed'.runs = {}
           /\ feed'.closed => Ended(call'[h].c) /\ ~Submitting(call'[h].c)
           /\ \A g \in Handlers : call[g].op \notin Exporting
<1>1. PICK c \in DOMAIN contests :
         /\ Begin(h, [NoCall EXCEPT !.op = "teams", !.c = c])
         /\ feed' = [NoFeed EXCEPT !.problems = {p \in ProblemIds : <<c, p>> \in DOMAIN links},
                                   !.closed = Ended(c) /\ ~Submitting(c)]
  BY DEF ExportEventFeed
<1> DEFINE r == [NoCall EXCEPT !.op = "teams", !.c = c]
<1>2. r \in Call /\ r.op = "teams" /\ r.c = c
  BY ContestsAssumption DEF ContestsOK, Exporting, NoCall, Call, Ops, None
<1>3. Begin(h, r)
  BY <1>1
<1> HIDE DEF r
<1>4. call'[h] = r
  BY <1>2, <1>3, BeginFacts
<1> DEFINE over == Ended(c) /\ ~Submitting(c)
           ps == {p \in ProblemIds : <<c, p>> \in DOMAIN links}
<1>5. feed' = [NoFeed EXCEPT !.problems = ps, !.closed = over]
  BY <1>1
<1>6. over \in BOOLEAN /\ ps \in SUBSET Nat
  BY ContestsAssumption
<1>7. over => Ended(c) /\ ~Submitting(c)
  OBVIOUS
<1> HIDE DEF over, ps
<1>8. feed' \in Feed /\ feed'.runs = {} /\ feed'.closed = over
  BY <1>5, <1>6, EmptyFacts DEF Feed, NoFeed
<1>9. \A g \in Handlers : call[g].op \notin Exporting
  BY DEF ExportEventFeed
<1> QED
  BY <1>2, <1>3, <1>4, <1>7, <1>8, <1>9, BeginFacts, EmptyFacts

\* A submission begins for practice or for a running contest.
LEMMA SubmitFacts ==
    ASSUME CallsOK, BoundsOK, ContestsOK, ProblemsOK, NEW h \in Handlers, Submit(h)
    PROVE  /\ call' \in [Handlers -> Call]
           /\ \A g \in Handlers : g # h => call'[g] = call[g]
           /\ calls' \in Nat
           /\ call[h].op = "none" /\ call'[h].op = "submit" /\ call'[h].u \in Users
           /\ \/ call'[h].c = None
              \/ call'[h].c \in DOMAIN contests /\ Running(call'[h].c)
<1>1. PICK p \in DOMAIN problems, u \in Users :
         \/ \E c \in DOMAIN contests : CanSubmitToContest(c, p, u) /\ SubmitTo(h, p, u, c)
         \/ \E c \in ActiveContestForProblem(p, u) : SubmitTo(h, p, u, c)
         \/ SubmitTo(h, p, u, None)
  BY DEF Submit
<1>2. PICK c : /\ SubmitTo(h, p, u, c)
               /\ c = None \/ (c \in DOMAIN contests /\ Running(c))
  <2>1. CASE \E c \in DOMAIN contests : CanSubmitToContest(c, p, u) /\ SubmitTo(h, p, u, c)
    BY <2>1 DEF CanSubmitToContest
  <2>2. CASE \E c \in ActiveContestForProblem(p, u) : SubmitTo(h, p, u, c)
    <3>1. PICK c \in ActiveContestForProblem(p, u) : SubmitTo(h, p, u, c)
      BY <2>2
    <3>2. c = None \/ (c \in DOMAIN contests /\ CanSubmitToContest(c, p, u))
      BY <3>1 DEF ActiveContestForProblem
    <3> QED
      BY <3>1, <3>2 DEF CanSubmitToContest
  <2> QED
    BY <1>1, <2>1, <2>2
<1> DEFINE r == [NoCall EXCEPT !.op = "submit", !.c = c, !.p = p, !.u = u]
<1>3. c \in Nat /\ p \in Nat
  BY <1>2, IdFacts, Zenon DEF ContestsOK, ProblemsOK
<1>4. r \in Call /\ r.op = "submit" /\ r.c = c /\ r.u = u
  BY <1>3 DEF NoCall, Call, Ops, None
<1>5. Begin(h, r)
  BY <1>2 DEF SubmitTo
<1> HIDE DEF r
<1>6. call'[h] = r
  BY <1>4, <1>5, BeginFacts
<1> QED
  BY <1>2, <1>4, <1>5, <1>6, BeginFacts, EmptyFacts

\* The second read of an export sets its teams.
LEMMA ExportTeamsFacts ==
    ASSUME CallsOK, FeedOK, NEW h \in Handlers, ExportTeams(h)
    PROVE  /\ call' \in [Handlers -> Call]
           /\ \A g \in Handlers : g # h => call'[g] = call[g]
           /\ calls' = calls
           /\ call[h].op = "teams" /\ call'[h].op = "runs" /\ call'[h].c = call[h].c
           /\ feed' \in Feed /\ feed'.teams = ListContestTeams(call[h].c)
           /\ feed'.runs = feed.runs /\ feed'.closed = feed.closed
<1> DEFINE r == [call[h] EXCEPT !.op = "runs"]
<1>1. r \in Call /\ r.op = "runs" /\ r.c = call[h].c
  BY DEF CallsOK, Call, Ops, Exporting
<1>2. call' = [call EXCEPT ![h] = r] /\ call[h].op = "teams" /\ calls' = calls
  BY DEF ExportTeams, CallsOK
<1> HIDE DEF r
<1>3. /\ call' \in [Handlers -> Call] /\ call'[h] = r
      /\ \A g \in Handlers : g # h => call'[g] = call[g]
  BY <1>1, <1>2 DEF CallsOK
<1>4. ListContestTeams(call[h].c) \in SUBSET Users
  BY DEF ListContestTeams
<1>5. feed' = [feed EXCEPT !.teams = ListContestTeams(call[h].c)]
  BY DEF ExportTeams
<1>6. feed' \in Feed /\ feed'.teams = ListContestTeams(call[h].c)
      /\ feed'.runs = feed.runs /\ feed'.closed = feed.closed
  BY <1>4, <1>5 DEF FeedOK, Feed
<1> QED
  BY <1>1, <1>2, <1>3, <1>4, <1>6

\* The third takes its runs from the submissions of the contest.
LEMMA ExportRunsFacts ==
    ASSUME CallsOK, FeedOK, SubmissionsOK, NEW h \in Handlers, ExportRuns(h)
    PROVE  /\ call' \in [Handlers -> Call]
           /\ \A g \in Handlers : g # h => call'[g] = call[g]
           /\ calls' = calls
           /\ call[h].op = "runs" /\ call'[h].op = "send" /\ call'[h].c = call[h].c
           /\ feed' \in Feed /\ feed'.teams = feed.teams /\ feed'.closed = feed.closed
           /\ \A r \in feed'.runs : \/ r \in feed.runs
                                    \/ \E k \in SubmissionsTo(call[h].c) : r = submissions[k]
<1> DEFINE r == [call[h] EXCEPT !.op = "send"]
<1>1. r \in Call /\ r.op = "send" /\ r.c = call[h].c
  BY DEF CallsOK, Call, Ops, Exporting
<1>2. call' = [call EXCEPT ![h] = r] /\ call[h].op = "runs" /\ calls' = calls
  BY DEF ExportRuns, CallsOK
<1> HIDE DEF r
<1>3. /\ call' \in [Handlers -> Call] /\ call'[h] = r
      /\ \A g \in Handlers : g # h => call'[g] = call[g]
  BY <1>1, <1>2 DEF CallsOK
<1> DEFINE found == {submissions[s] : s \in {k \in SubmissionsTo(call[h].c) :
                                                  ~submissions[k].late}}
<1>4. /\ found \in SUBSET Submission
      /\ \A x \in found : \E k \in SubmissionsTo(call[h].c) : x = submissions[k]
  BY DEF SubmissionsOK, SubmissionsTo
<1>5. feed' = [feed EXCEPT !.runs = found] \/ feed' = feed
  BY DEF ExportRuns
<1> HIDE DEF found
<1>6. feed' \in Feed /\ feed'.teams = feed.teams /\ feed'.closed = feed.closed
      /\ (feed'.runs = found \/ feed'.runs = feed.runs)
  BY <1>4, <1>5 DEF FeedOK, Feed
<1> QED
  BY <1>1, <1>2, <1>3, <1>4, <1>6

-----------------------------------------------------------------------------
\* Every step preserves each part of the types.
LEMMA NextNow ==
    TInv /\ [Next]_vars => NowOK'
<1> SUFFICES ASSUME TInv, [Next]_vars PROVE NowOK'
  OBVIOUS
<1> USE DEF TInv
<1>1. CASE CreateContest
  BY <1>1 DEF CreateContest, NowOK
<1>2. CASE CreateProblem
  BY <1>2 DEF CreateProblem, NowOK
<1>3. CASE Tick
  BY <1>3, ContestsAssumption DEF Tick, tables, NowOK, TInv
<1>4. ASSUME NEW p \in ProblemIds, UpdateProblem(p) PROVE NowOK'
  BY <1>4 DEF UpdateProblem, NowOK
<1>5. ASSUME NEW c \in ContestIds, NEW p \in ProblemIds, RemoveProblem(c, p) PROVE NowOK'
  BY <1>5 DEF RemoveProblem, NowOK
<1>6. ASSUME NEW h \in Handlers, RegisterParticipant(h) PROVE NowOK'
  BY <1>6 DEF RegisterParticipant, tables, NowOK
<1>7. ASSUME NEW h \in Handlers, Register(h) PROVE NowOK'
  BY <1>7 DEF Register, NowOK
<1>8. ASSUME NEW h \in Handlers, AddProblem(h) PROVE NowOK'
  BY <1>8 DEF AddProblem, tables, NowOK
<1>9. ASSUME NEW h \in Handlers, LinkProblem(h) PROVE NowOK'
  BY <1>9 DEF LinkProblem, NowOK
<1>10. ASSUME NEW h \in Handlers, CreateContestProblem(h) PROVE NowOK'
  BY <1>10 DEF CreateContestProblem, NowOK
<1>11. ASSUME NEW h \in Handlers, Submit(h) PROVE NowOK'
  BY <1>11 DEF Submit, tables, NowOK
<1>12. ASSUME NEW h \in Handlers, Insert(h) PROVE NowOK'
  BY <1>12 DEF Insert, NowOK
<1>13. ASSUME NEW h \in Handlers, Detach(h) PROVE NowOK'
  BY <1>13 DEF Detach, tables, NowOK
<1>14. ASSUME NEW h \in Handlers, DeleteContest(h) PROVE NowOK'
  BY <1>14 DEF DeleteContest, NowOK
<1>15. ASSUME NEW h \in Handlers, Discard(h) PROVE NowOK'
  BY <1>15 DEF Discard, tables, NowOK
<1>16. ASSUME NEW h \in Handlers, DeleteProblem(h) PROVE NowOK'
  BY <1>16 DEF DeleteProblem, NowOK
<1>17. ASSUME NEW h \in Handlers, ExportEventFeed(h) PROVE NowOK'
  BY <1>17 DEF ExportEventFeed, tables, NowOK
<1>18. ASSUME NEW h \in Handlers, ExportTeams(h) PROVE NowOK'
  BY <1>18 DEF ExportTeams, tables, NowOK
<1>19. ASSUME NEW h \in Handlers, ExportRuns(h) PROVE NowOK'
  BY <1>19 DEF ExportRuns, tables, NowOK
<1>20. ASSUME NEW h \in Handlers, SendFeed(h) PROVE NowOK'
  BY <1>20 DEF SendFeed, tables, NowOK
<1>21. ASSUME NEW h \in Handlers, Abort(h) PROVE NowOK'
  BY <1>21 DEF Abort, tables, NowOK
<1>22. CASE UNCHANGED vars
  BY <1>22 DEF vars, tables, NowOK
<1> QED
  BY <1>1, <1>2, <1>3, <1>4, <1>5, <1>6, <1>7, <1>8, <1>9, <1>10, <1>11, <1>12, <1>13,
     <1>14, <1>15, <1>16, <1>17, <1>18, <1>19, <1>20, <1>21, <1>22 DEF Next

\* The sequences hand out positive numbers.
LEMMA NextFresh ==
    TInv /\ [Next]_vars => FreshOK'
<1> SUFFICES ASSUME TInv, [Next]_vars PROVE FreshOK'
  OBVIOUS
<1> USE DEF TInv
<1>1. CASE CreateContest
  BY <1>1 DEF CreateContest, FreshOK
<1>2. CASE CreateProblem
  BY <1>2 DEF CreateProblem, FreshOK
<1>3. CASE Tick
  BY <1>3 DEF Tick, tables, FreshOK
<1>4. ASSUME NEW p \in ProblemIds, UpdateProblem(p) PROVE FreshOK'
  BY <1>4 DEF UpdateProblem, FreshOK
<1>5. ASSUME NEW c \in ContestIds, NEW p \in ProblemIds, RemoveProblem(c, p) PROVE FreshOK'
  BY <1>5 DEF RemoveProblem, FreshOK
<1>6. ASSUME NEW h \in Handlers, RegisterParticipant(h) PROVE FreshOK'
  BY <1>6 DEF RegisterParticipant, tables, FreshOK
<1>7. ASSUME NEW h \in Handlers, Register(h) PROVE FreshOK'
  BY <1>7 DEF Register, FreshOK
<1>8. ASSUME NEW h \in Handlers, AddProblem(h) PROVE FreshOK'
  BY <1>8 DEF AddProblem, tables, FreshOK
<1>9. ASSUME NEW h \in Handlers, LinkProblem(h) PROVE FreshOK'
  BY <1>9 DEF LinkProblem, FreshOK
<1>10. ASSUME NEW h \in Handlers, CreateContestProblem(h) PROVE FreshOK'
  BY <1>10 DEF CreateContestProblem, FreshOK
<1>11. ASSUME NEW h \in Handlers, Submit(h) PROVE FreshOK'
  BY <1>11 DEF Submit, tables, FreshOK
<1>12. ASSUME NEW h \in Handlers, Insert(h) PROVE FreshOK'
  BY <1>12 DEF Insert, FreshOK
<1>13. ASSUME NEW h \in Handlers, Detach(h) PROVE FreshOK'
  BY <1>13 DEF Detach, tables, FreshOK
<1>14. ASSUME NEW h \in Handlers, DeleteContest(h) PROVE FreshOK'
  BY <1>14 DEF DeleteContest, FreshOK
<1>15. ASSUME NEW h \in Handlers, Discard(h) PROVE FreshOK'
  BY <1>15 DEF Discard, tables, FreshOK
<1>16. ASSUME NEW h \in Handlers, DeleteProblem(h) PROVE FreshOK'
  BY <1>16 DEF DeleteProblem, FreshOK
<1>17. ASSUME NEW h \in Handlers, ExportEventFeed(h) PROVE FreshOK'
  BY <1>17 DEF ExportEventFeed, tables, FreshOK
<1>18. ASSUME NEW h \in Handlers, ExportTeams(h) PROVE FreshOK'
  BY <1>18 DEF ExportTeams, tables, FreshOK
<1>19. ASSUME NEW h \in Handlers, ExportRuns(h) PROVE FreshOK'
  BY <1>19 DEF ExportRuns, tables, FreshOK
<1>20. ASSUME NEW h \in Handlers, SendFeed(h) PROVE FreshOK'
  BY <1>20 DEF SendFeed, tables, FreshOK
<1>21. ASSUME NEW h \in Handlers, Abort(h) PROVE FreshOK'
  BY <1>21 DEF Abort, tables, FreshOK
<1>22. CASE UNCHANGED vars
  BY <1>22 DEF vars, tables, FreshOK
<1> QED
  BY <1>1, <1>2, <1>3, <1>4, <1>5, <1>6, <1>7, <1>8, <1>9, <1>10, <1>11, <1>12, <1>13,
     <1>14, <1>15, <1>16, <1>17, <1>18, <1>19, <1>20, <1>21, <1>22 DEF Next

\* The bounds are numbers.
LEMMA NextBounds ==
    TInv /\ [Next]_vars => BoundsOK'
<1> SUFFICES ASSUME TInv, [Next]_vars PROVE BoundsOK'
  OBVIOUS
<1> USE DEF TInv
<1>1. CASE CreateContest
  BY <1>1 DEF CreateContest, BoundsOK
<1>2. CASE CreateProblem
  BY <1>2 DEF CreateProblem, BoundsOK
<1>3. CASE Tick
  BY <1>3 DEF Tick, tables, BoundsOK
<1>4. ASSUME NEW p \in ProblemIds, UpdateProblem(p) PROVE BoundsOK'
  BY <1>4 DEF UpdateProblem, BoundsOK
<1>5. ASSUME NEW c \in ContestIds, NEW p \in ProblemIds, RemoveProblem(c, p) PROVE BoundsOK'
  BY <1>5 DEF RemoveProblem, BoundsOK
<1>6. ASSUME NEW h \in Handlers, RegisterParticipant(h) PROVE BoundsOK'
  BY <1>6, RegisterParticipantFacts DEF RegisterParticipant, tables, BoundsOK
<1>7. ASSUME NEW h \in Handlers, Register(h) PROVE BoundsOK'
  BY <1>7, ReturnFacts DEF Register, BoundsOK
<1>8. ASSUME NEW h \in Handlers, AddProblem(h) PROVE BoundsOK'
  BY <1>8, AddProblemFacts DEF AddProblem, tables, BoundsOK
<1>9. ASSUME NEW h \in Handlers, LinkProblem(h) PROVE BoundsOK'
  BY <1>9, ReturnFacts DEF LinkProblem, BoundsOK
<1>10. ASSUME NEW h \in Handlers, CreateContestProblem(h) PROVE BoundsOK'
  BY <1>10, ReturnFacts DEF CreateContestProblem, BoundsOK
<1>11. ASSUME NEW h \in Handlers, Submit(h) PROVE BoundsOK'
  <2>1. UNCHANGED budget \/ (budget > 0 /\ budget' = budget - 1)
    BY <1>11 DEF Submit
  <2>2. calls' \in Nat
    BY <1>11, SubmitFacts
  <2>3. budget' \in 0 .. MaxFaults
    BY <2>1, ContestsAssumption DEF BoundsOK
  <2> QED
    BY <2>2, <2>3 DEF BoundsOK
<1>12. ASSUME NEW h \in Handlers, Insert(h) PROVE BoundsOK'
  BY <1>12, ReturnFacts DEF Insert, BoundsOK
<1>13. ASSUME NEW h \in Handlers, Detach(h) PROVE BoundsOK'
  BY <1>13, DetachFacts DEF Detach, tables, BoundsOK
<1>14. ASSUME NEW h \in Handlers, DeleteContest(h) PROVE BoundsOK'
  BY <1>14, ReturnFacts DEF DeleteContest, BoundsOK
<1>15. ASSUME NEW h \in Handlers, Discard(h) PROVE BoundsOK'
  BY <1>15, DiscardFacts DEF Discard, tables, BoundsOK
<1>16. ASSUME NEW h \in Handlers, DeleteProblem(h) PROVE BoundsOK'
  BY <1>16, ReturnFacts DEF DeleteProblem, BoundsOK
<1>17. ASSUME NEW h \in Handlers, ExportEventFeed(h) PROVE BoundsOK'
  BY <1>17, ExportEventFeedFacts DEF ExportEventFeed, tables, BoundsOK
<1>18. ASSUME NEW h \in Handlers, ExportTeams(h) PROVE BoundsOK'
  BY <1>18, ExportTeamsFacts DEF ExportTeams, tables, BoundsOK
<1>19. ASSUME NEW h \in Handlers, ExportRuns(h) PROVE BoundsOK'
  BY <1>19, ExportRunsFacts DEF ExportRuns, tables, BoundsOK
<1>20. ASSUME NEW h \in Handlers, SendFeed(h) PROVE BoundsOK'
  BY <1>20, ReturnFacts DEF SendFeed, tables, BoundsOK
<1>21. ASSUME NEW h \in Handlers, Abort(h) PROVE BoundsOK'
  <2>1. calls' \in Nat
    BY <1>21, ReturnFacts DEF Abort, BoundsOK
  <2>2. budget' \in 0 .. MaxFaults
    BY <1>21, ContestsAssumption DEF Abort, BoundsOK
  <2> QED
    BY <2>1, <2>2 DEF BoundsOK
<1>22. CASE UNCHANGED vars
  BY <1>22 DEF vars, tables, BoundsOK
<1> QED
  BY <1>1, <1>2, <1>3, <1>4, <1>5, <1>6, <1>7, <1>8, <1>9, <1>10, <1>11, <1>12, <1>13,
     <1>14, <1>15, <1>16, <1>17, <1>18, <1>19, <1>20, <1>21, <1>22 DEF Next

\* An id is below the sequence it came from.
LEMMA NextContests ==
    TInv /\ [Next]_vars => ContestsOK'
<1> SUFFICES ASSUME TInv, [Next]_vars PROVE ContestsOK'
  OBVIOUS
<1> USE DEF TInv
<1>1. CASE CreateContest
  <2>1. PICK k \in Schedules, b \in BOOLEAN :
           contests' = With(contests, fresh.contest,
                            [start |-> k[1], end |-> k[2], public |-> b, late |-> k[3]])
    BY <1>1 DEF CreateContest
  <2> DEFINE v == [start |-> k[1], end |-> k[2], public |-> b, late |-> k[3]]
  <2>2. k[1] \in Nat /\ k[2] \in Nat /\ k[3] \in BOOLEAN
    BY ContestsAssumption
  <2>3. v \in Contest
    BY <2>2 DEF Contest
  <2> HIDE DEF v
  <2>4. fresh.contest \in ContestIds /\ fresh.contest \in Nat /\ fresh'.contest = fresh.contest + 1
    BY <1>1 DEF CreateContest, FreshOK
  <2>5. /\ DOMAIN contests' = DOMAIN contests \cup {fresh.contest}
        /\ contests'[fresh.contest] = v
        /\ \A y \in DOMAIN contests : y # fresh.contest => contests'[y] = contests[y]
    BY <2>1 DEF With, v
  <2>6. ASSUME NEW c \in DOMAIN contests' PROVE contests'[c] \in Contest /\ c < fresh'.contest
    <3>1. CASE c = fresh.contest
      BY <3>1, <2>3, <2>4, <2>5
    <3>2. CASE c # fresh.contest
      <4>1. c \in DOMAIN contests /\ c \in Nat
        BY <3>2, <2>5, IdFacts DEF ContestsOK
      <4> QED
        BY <4>1, <3>2, <2>4, <2>5 DEF ContestsOK
    <3> QED
      BY <3>1, <3>2
  <2> QED
    BY <2>4, <2>5, <2>6 DEF ContestsOK
<1>2. CASE CreateProblem
  BY <1>2 DEF CreateProblem, ContestsOK, FreshOK
<1>3. CASE Tick
  BY <1>3 DEF Tick, tables, ContestsOK, FreshOK
<1>4. ASSUME NEW p \in ProblemIds, UpdateProblem(p) PROVE ContestsOK'
  BY <1>4 DEF UpdateProblem, ContestsOK, FreshOK
<1>5. ASSUME NEW c \in ContestIds, NEW p \in ProblemIds, RemoveProblem(c, p) PROVE ContestsOK'
  BY <1>5 DEF RemoveProblem, ContestsOK, FreshOK
<1>6. ASSUME NEW h \in Handlers, RegisterParticipant(h) PROVE ContestsOK'
  BY <1>6 DEF RegisterParticipant, tables, ContestsOK, FreshOK
<1>7. ASSUME NEW h \in Handlers, Register(h) PROVE ContestsOK'
  BY <1>7 DEF Register, ContestsOK, FreshOK
<1>8. ASSUME NEW h \in Handlers, AddProblem(h) PROVE ContestsOK'
  BY <1>8 DEF AddProblem, tables, ContestsOK, FreshOK
<1>9. ASSUME NEW h \in Handlers, LinkProblem(h) PROVE ContestsOK'
  BY <1>9 DEF LinkProblem, ContestsOK, FreshOK
<1>10. ASSUME NEW h \in Handlers, CreateContestProblem(h) PROVE ContestsOK'
  BY <1>10 DEF CreateContestProblem, ContestsOK, FreshOK
<1>11. ASSUME NEW h \in Handlers, Submit(h) PROVE ContestsOK'
  BY <1>11 DEF Submit, tables, ContestsOK, FreshOK
<1>12. ASSUME NEW h \in Handlers, Insert(h) PROVE ContestsOK'
  BY <1>12 DEF Insert, ContestsOK, FreshOK
<1>13. ASSUME NEW h \in Handlers, Detach(h) PROVE ContestsOK'
  BY <1>13 DEF Detach, tables, ContestsOK, FreshOK
<1>14. ASSUME NEW h \in Handlers, DeleteContest(h) PROVE ContestsOK'
  <2>1. contests' = contests \/ contests' = Without(contests, {call[h].c})
    BY <1>14 DEF DeleteContest
  <2>2. fresh' = fresh
    BY <1>14 DEF DeleteContest
  <2> QED
    BY <2>1, <2>2 DEF Without, ContestsOK
<1>15. ASSUME NEW h \in Handlers, Discard(h) PROVE ContestsOK'
  BY <1>15 DEF Discard, tables, ContestsOK, FreshOK
<1>16. ASSUME NEW h \in Handlers, DeleteProblem(h) PROVE ContestsOK'
  BY <1>16 DEF DeleteProblem, ContestsOK, FreshOK
<1>17. ASSUME NEW h \in Handlers, ExportEventFeed(h) PROVE ContestsOK'
  BY <1>17 DEF ExportEventFeed, tables, ContestsOK, FreshOK
<1>18. ASSUME NEW h \in Handlers, ExportTeams(h) PROVE ContestsOK'
  BY <1>18 DEF ExportTeams, tables, ContestsOK, FreshOK
<1>19. ASSUME NEW h \in Handlers, ExportRuns(h) PROVE ContestsOK'
  BY <1>19 DEF ExportRuns, tables, ContestsOK, FreshOK
<1>20. ASSUME NEW h \in Handlers, SendFeed(h) PROVE ContestsOK'
  BY <1>20 DEF SendFeed, tables, ContestsOK, FreshOK
<1>21. ASSUME NEW h \in Handlers, Abort(h) PROVE ContestsOK'
  BY <1>21 DEF Abort, tables, ContestsOK, FreshOK
<1>22. CASE UNCHANGED vars
  BY <1>22 DEF vars, tables, ContestsOK, FreshOK
<1> QED
  BY <1>1, <1>2, <1>3, <1>4, <1>5, <1>6, <1>7, <1>8, <1>9, <1>10, <1>11, <1>12, <1>13,
     <1>14, <1>15, <1>16, <1>17, <1>18, <1>19, <1>20, <1>21, <1>22 DEF Next

\* The same for problems.
LEMMA NextProblems ==
    TInv /\ [Next]_vars => ProblemsOK'
<1> SUFFICES ASSUME TInv, [Next]_vars PROVE ProblemsOK'
  OBVIOUS
<1> USE DEF TInv
<1>1. CASE CreateContest
  BY <1>1 DEF CreateContest, ProblemsOK, FreshOK
<1>2. CASE CreateProblem
  <2>1. PICK b \in BOOLEAN : problems' = With(problems, fresh.problem, b)
    BY <1>2 DEF CreateProblem
  <2>2. /\ DOMAIN problems' = DOMAIN problems \cup {fresh.problem}
        /\ problems'[fresh.problem] \in BOOLEAN
        /\ \A y \in DOMAIN problems : y # fresh.problem => problems'[y] = problems[y]
    BY <2>1 DEF With
  <2>3. fresh.problem \in ProblemIds /\ fresh.problem \in Nat /\ fresh'.problem = fresh.problem + 1
    BY <1>2 DEF CreateProblem, FreshOK
  <2>4. ASSUME NEW p \in DOMAIN problems' PROVE problems'[p] \in BOOLEAN /\ p < fresh'.problem
    <3>1. CASE p = fresh.problem
      BY <3>1, <2>2, <2>3
    <3>2. CASE p # fresh.problem
      <4>1. p \in DOMAIN problems /\ p \in Nat
        BY <3>2, <2>2, IdFacts DEF ProblemsOK
      <4> QED
        BY <4>1, <3>2, <2>2, <2>3 DEF ProblemsOK
    <3> QED
      BY <3>1, <3>2
  <2> QED
    BY <2>2, <2>3, <2>4 DEF ProblemsOK
<1>3. CASE Tick
  BY <1>3 DEF Tick, tables, ProblemsOK, FreshOK
<1>4. ASSUME NEW p \in ProblemIds, UpdateProblem(p) PROVE ProblemsOK'
  <2>1. PICK b \in BOOLEAN : problems' = [problems EXCEPT ![p] = b]
    BY <1>4 DEF UpdateProblem
  <2>2. fresh' = fresh /\ DOMAIN problems' = DOMAIN problems
        /\ \A q \in DOMAIN problems : problems'[q] = IF q = p THEN b ELSE problems[q]
    BY <1>4, <2>1 DEF UpdateProblem
  <2>3. \A q \in DOMAIN problems' : problems'[q] \in BOOLEAN
    BY <2>2, Zenon DEF ProblemsOK
  <2> QED
    BY <2>2, <2>3 DEF ProblemsOK
<1>5. ASSUME NEW c \in ContestIds, NEW p \in ProblemIds, RemoveProblem(c, p) PROVE ProblemsOK'
  BY <1>5 DEF RemoveProblem, ProblemsOK, FreshOK
<1>6. ASSUME NEW h \in Handlers, RegisterParticipant(h) PROVE ProblemsOK'
  BY <1>6 DEF RegisterParticipant, tables, ProblemsOK, FreshOK
<1>7. ASSUME NEW h \in Handlers, Register(h) PROVE ProblemsOK'
  BY <1>7 DEF Register, ProblemsOK, FreshOK
<1>8. ASSUME NEW h \in Handlers, AddProblem(h) PROVE ProblemsOK'
  BY <1>8 DEF AddProblem, tables, ProblemsOK, FreshOK
<1>9. ASSUME NEW h \in Handlers, LinkProblem(h) PROVE ProblemsOK'
  BY <1>9 DEF LinkProblem, ProblemsOK, FreshOK
<1>10. ASSUME NEW h \in Handlers, CreateContestProblem(h) PROVE ProblemsOK'
  <2>a. CASE call[h].c \in DOMAIN contests
    <3>1. problems' = With(problems, fresh.problem, FALSE)
      BY <1>10, <2>a DEF CreateContestProblem
    <3>2. /\ DOMAIN problems' = DOMAIN problems \cup {fresh.problem}
          /\ problems'[fresh.problem] \in BOOLEAN
          /\ \A y \in DOMAIN problems : y # fresh.problem => problems'[y] = problems[y]
      BY <3>1 DEF With
    <3>3. fresh.problem \in ProblemIds /\ fresh.problem \in Nat /\ fresh'.problem = fresh.problem + 1
      BY <1>10 DEF CreateContestProblem, FreshOK
    <3>4. ASSUME NEW p \in DOMAIN problems' PROVE problems'[p] \in BOOLEAN /\ p < fresh'.problem
      <4>1. CASE p = fresh.problem
        BY <4>1, <3>2, <3>3
      <4>2. CASE p # fresh.problem
        <5>1. p \in DOMAIN problems /\ p \in Nat
          BY <4>2, <3>2, IdFacts DEF ProblemsOK
        <5> QED
          BY <5>1, <4>2, <3>2, <3>3 DEF ProblemsOK
      <4> QED
        BY <4>1, <4>2
    <3> QED
      BY <3>2, <3>3, <3>4 DEF ProblemsOK
  <2>b. CASE call[h].c \notin DOMAIN contests
    BY <1>10, <2>b, IdFacts DEF CreateContestProblem, ProblemsOK, FreshOK
  <2> QED
    BY <2>a, <2>b
<1>11. ASSUME NEW h \in Handlers, Submit(h) PROVE ProblemsOK'
  BY <1>11 DEF Submit, tables, ProblemsOK, FreshOK
<1>12. ASSUME NEW h \in Handlers, Insert(h) PROVE ProblemsOK'
  BY <1>12 DEF Insert, ProblemsOK, FreshOK
<1>13. ASSUME NEW h \in Handlers, Detach(h) PROVE ProblemsOK'
  BY <1>13 DEF Detach, tables, ProblemsOK, FreshOK
<1>14. ASSUME NEW h \in Handlers, DeleteContest(h) PROVE ProblemsOK'
  BY <1>14 DEF DeleteContest, ProblemsOK, FreshOK
<1>15. ASSUME NEW h \in Handlers, Discard(h) PROVE ProblemsOK'
  BY <1>15 DEF Discard, tables, ProblemsOK, FreshOK
<1>16. ASSUME NEW h \in Handlers, DeleteProblem(h) PROVE ProblemsOK'
  <2>1. problems' = problems \/ problems' = Without(problems, {call[h].p})
    BY <1>16 DEF DeleteProblem
  <2>2. fresh' = fresh
    BY <1>16 DEF DeleteProblem
  <2> QED
    BY <2>1, <2>2 DEF Without, ProblemsOK
<1>17. ASSUME NEW h \in Handlers, ExportEventFeed(h) PROVE ProblemsOK'
  BY <1>17 DEF ExportEventFeed, tables, ProblemsOK, FreshOK
<1>18. ASSUME NEW h \in Handlers, ExportTeams(h) PROVE ProblemsOK'
  BY <1>18 DEF ExportTeams, tables, ProblemsOK, FreshOK
<1>19. ASSUME NEW h \in Handlers, ExportRuns(h) PROVE ProblemsOK'
  BY <1>19 DEF ExportRuns, tables, ProblemsOK, FreshOK
<1>20. ASSUME NEW h \in Handlers, SendFeed(h) PROVE ProblemsOK'
  BY <1>20 DEF SendFeed, tables, ProblemsOK, FreshOK
<1>21. ASSUME NEW h \in Handlers, Abort(h) PROVE ProblemsOK'
  BY <1>21 DEF Abort, tables, ProblemsOK, FreshOK
<1>22. CASE UNCHANGED vars
  BY <1>22 DEF vars, tables, ProblemsOK, FreshOK
<1> QED
  BY <1>1, <1>2, <1>3, <1>4, <1>5, <1>6, <1>7, <1>8, <1>9, <1>10, <1>11, <1>12, <1>13,
     <1>14, <1>15, <1>16, <1>17, <1>18, <1>19, <1>20, <1>21, <1>22 DEF Next

\* A link refers to a contest and a problem that exist; the deletions cascade.
LEMMA NextLinks ==
    TInv /\ [Next]_vars => LinksOK'
<1> SUFFICES ASSUME TInv, [Next]_vars PROVE LinksOK'
  OBVIOUS
<1> USE DEF TInv
<1>1. CASE CreateContest
  BY <1>1 DEF CreateContest, LinksOK, With
<1>2. CASE CreateProblem
  BY <1>2 DEF CreateProblem, LinksOK, With
<1>3. CASE Tick
  BY <1>3 DEF Tick, tables, LinksOK
<1>4. ASSUME NEW p \in ProblemIds, UpdateProblem(p) PROVE LinksOK'
  BY <1>4 DEF UpdateProblem, LinksOK
<1>5. ASSUME NEW c \in ContestIds, NEW p \in ProblemIds, RemoveProblem(c, p) PROVE LinksOK'
  BY <1>5 DEF RemoveProblem, LinksOK, Without
<1>6. ASSUME NEW h \in Handlers, RegisterParticipant(h) PROVE LinksOK'
  BY <1>6 DEF RegisterParticipant, tables, LinksOK
<1>7. ASSUME NEW h \in Handlers, Register(h) PROVE LinksOK'
  BY <1>7 DEF Register, LinksOK
<1>8. ASSUME NEW h \in Handlers, AddProblem(h) PROVE LinksOK'
  BY <1>8 DEF AddProblem, tables, LinksOK
<1>9. ASSUME NEW h \in Handlers, LinkProblem(h) PROVE LinksOK'
  <2>1. CASE links' = links
    BY <1>9, <2>1 DEF LinkProblem, LinksOK
  <2>2. CASE /\ call[h].c \in DOMAIN contests /\ call[h].p \in DOMAIN problems
             /\ links' = With(links, <<call[h].c, call[h].p>>, [ordinal |-> call[h].seen])
    <3>1. call[h].seen \in Nat
      BY DEF CallsOK, Call
    <3> QED
      BY <1>9, <2>2, <3>1 DEF LinkProblem, LinksOK, With
  <2> QED
    BY <1>9, <2>1, <2>2 DEF LinkProblem
<1>10. ASSUME NEW h \in Handlers, CreateContestProblem(h) PROVE LinksOK'
  <2>1. CASE UNCHANGED <<problems, links>>
    BY <1>10, <2>1 DEF CreateContestProblem, LinksOK
  <2>2. CASE /\ call[h].c \in DOMAIN contests
             /\ problems' = With(problems, fresh.problem, FALSE)
             /\ links' = With(links, <<call[h].c, fresh.problem>>, [ordinal |-> call[h].seen])
    <3>1. call[h].seen \in Nat
      BY DEF CallsOK, Call
    <3> QED
      BY <1>10, <2>2, <3>1 DEF CreateContestProblem, LinksOK, With
  <2> QED
    BY <1>10, <2>1, <2>2 DEF CreateContestProblem
<1>11. ASSUME NEW h \in Handlers, Submit(h) PROVE LinksOK'
  BY <1>11 DEF Submit, tables, LinksOK
<1>12. ASSUME NEW h \in Handlers, Insert(h) PROVE LinksOK'
  BY <1>12 DEF Insert, LinksOK
<1>13. ASSUME NEW h \in Handlers, Detach(h) PROVE LinksOK'
  BY <1>13 DEF Detach, tables, LinksOK
<1>14. ASSUME NEW h \in Handlers, DeleteContest(h) PROVE LinksOK'
  BY <1>14 DEF DeleteContest, LinksOK, Without
<1>15. ASSUME NEW h \in Handlers, Discard(h) PROVE LinksOK'
  BY <1>15 DEF Discard, tables, LinksOK
<1>16. ASSUME NEW h \in Handlers, DeleteProblem(h) PROVE LinksOK'
  BY <1>16 DEF DeleteProblem, LinksOK, Without
<1>17. ASSUME NEW h \in Handlers, ExportEventFeed(h) PROVE LinksOK'
  BY <1>17 DEF ExportEventFeed, tables, LinksOK
<1>18. ASSUME NEW h \in Handlers, ExportTeams(h) PROVE LinksOK'
  BY <1>18 DEF ExportTeams, tables, LinksOK
<1>19. ASSUME NEW h \in Handlers, ExportRuns(h) PROVE LinksOK'
  BY <1>19 DEF ExportRuns, tables, LinksOK
<1>20. ASSUME NEW h \in Handlers, SendFeed(h) PROVE LinksOK'
  BY <1>20 DEF SendFeed, tables, LinksOK
<1>21. ASSUME NEW h \in Handlers, Abort(h) PROVE LinksOK'
  BY <1>21 DEF Abort, tables, LinksOK
<1>22. CASE UNCHANGED vars
  BY <1>22 DEF vars, tables, LinksOK
<1> QED
  BY <1>1, <1>2, <1>3, <1>4, <1>5, <1>6, <1>7, <1>8, <1>9, <1>10, <1>11, <1>12, <1>13,
     <1>14, <1>15, <1>16, <1>17, <1>18, <1>19, <1>20, <1>21, <1>22 DEF Next

\* One more link leaves a largest ordinal.
LEMMA WithBounded ==
    ASSUME LinksOK, LinksBounded, CallsOK, NEW h \in Handlers, NEW k,
           links' = links \/ links' = With(links, k, [ordinal |-> call[h].seen])
    PROVE  LinksBounded'
<1>1. CASE links' = links
  BY <1>1 DEF LinksBounded
<1>2. CASE links' = With(links, k, [ordinal |-> call[h].seen])
  <2>1. PICK n \in Nat : \A l \in DOMAIN links : links[l].ordinal <= n
    BY DEF LinksBounded
  <2>2. call[h].seen \in Nat
    BY DEF CallsOK, Call
  <2> DEFINE m == n + call[h].seen
  <2>3. m \in Nat /\ n <= m /\ call[h].seen <= m
    BY <2>2
  <2> HIDE DEF m
  <2>4. ASSUME NEW l \in DOMAIN links' PROVE links'[l].ordinal <= m
    <3>1. l = k \/ l \in DOMAIN links
      BY <1>2 DEF With
    <3>2. CASE l = k
      BY <1>2, <2>3, <3>2 DEF With
    <3>3. CASE l # k
      <4>1. links'[l] = links[l] /\ links[l].ordinal \in Nat /\ links[l].ordinal <= n
        BY <1>2, <2>1, <3>1, <3>3 DEF With, LinksOK
      <4> QED
        BY <4>1, <2>3
    <3> QED
      BY <3>2, <3>3
  <2> QED
    BY <2>3, <2>4 DEF LinksBounded
<1> QED
  BY <1>1, <1>2

\* There is always a largest ordinal.
LEMMA NextLinksBounded ==
    TInv /\ [Next]_vars => LinksBounded'
<1> SUFFICES ASSUME TInv, [Next]_vars PROVE LinksBounded'
  OBVIOUS
<1> USE DEF TInv
<1>1. CASE CreateContest
  BY <1>1 DEF CreateContest, LinksBounded
<1>2. CASE CreateProblem
  BY <1>2 DEF CreateProblem, LinksBounded
<1>3. CASE Tick
  BY <1>3 DEF Tick, tables, LinksBounded
<1>4. ASSUME NEW p \in ProblemIds, UpdateProblem(p) PROVE LinksBounded'
  BY <1>4 DEF UpdateProblem, LinksBounded
<1>5. ASSUME NEW c \in ContestIds, NEW p \in ProblemIds, RemoveProblem(c, p) PROVE LinksBounded'
  BY <1>5 DEF RemoveProblem, LinksBounded, Without
<1>6. ASSUME NEW h \in Handlers, RegisterParticipant(h) PROVE LinksBounded'
  BY <1>6 DEF RegisterParticipant, tables, LinksBounded
<1>7. ASSUME NEW h \in Handlers, Register(h) PROVE LinksBounded'
  BY <1>7 DEF Register, LinksBounded
<1>8. ASSUME NEW h \in Handlers, AddProblem(h) PROVE LinksBounded'
  BY <1>8 DEF AddProblem, tables, LinksBounded
<1>9. ASSUME NEW h \in Handlers, LinkProblem(h) PROVE LinksBounded'
  <2>1. \/ links' = links
        \/ links' = With(links, <<call[h].c, call[h].p>>, [ordinal |-> call[h].seen])
    BY <1>9 DEF LinkProblem
  <2> QED
    BY <2>1, WithBounded
<1>10. ASSUME NEW h \in Handlers, CreateContestProblem(h) PROVE LinksBounded'
  <2>1. \/ links' = links
        \/ links' = With(links, <<call[h].c, fresh.problem>>, [ordinal |-> call[h].seen])
    BY <1>10 DEF CreateContestProblem
  <2> QED
    BY <2>1, WithBounded
<1>11. ASSUME NEW h \in Handlers, Submit(h) PROVE LinksBounded'
  BY <1>11 DEF Submit, tables, LinksBounded
<1>12. ASSUME NEW h \in Handlers, Insert(h) PROVE LinksBounded'
  BY <1>12 DEF Insert, LinksBounded
<1>13. ASSUME NEW h \in Handlers, Detach(h) PROVE LinksBounded'
  BY <1>13 DEF Detach, tables, LinksBounded
<1>14. ASSUME NEW h \in Handlers, DeleteContest(h) PROVE LinksBounded'
  BY <1>14 DEF DeleteContest, LinksBounded, Without
<1>15. ASSUME NEW h \in Handlers, Discard(h) PROVE LinksBounded'
  BY <1>15 DEF Discard, tables, LinksBounded
<1>16. ASSUME NEW h \in Handlers, DeleteProblem(h) PROVE LinksBounded'
  BY <1>16 DEF DeleteProblem, LinksBounded, Without
<1>17. ASSUME NEW h \in Handlers, ExportEventFeed(h) PROVE LinksBounded'
  BY <1>17 DEF ExportEventFeed, tables, LinksBounded
<1>18. ASSUME NEW h \in Handlers, ExportTeams(h) PROVE LinksBounded'
  BY <1>18 DEF ExportTeams, tables, LinksBounded
<1>19. ASSUME NEW h \in Handlers, ExportRuns(h) PROVE LinksBounded'
  BY <1>19 DEF ExportRuns, tables, LinksBounded
<1>20. ASSUME NEW h \in Handlers, SendFeed(h) PROVE LinksBounded'
  BY <1>20 DEF SendFeed, tables, LinksBounded
<1>21. ASSUME NEW h \in Handlers, Abort(h) PROVE LinksBounded'
  BY <1>21 DEF Abort, tables, LinksBounded
<1>22. CASE UNCHANGED vars
  BY <1>22 DEF vars, tables, LinksBounded
<1> QED
  BY <1>1, <1>2, <1>3, <1>4, <1>5, <1>6, <1>7, <1>8, <1>9, <1>10, <1>11, <1>12, <1>13,
     <1>14, <1>15, <1>16, <1>17, <1>18, <1>19, <1>20, <1>21, <1>22 DEF Next

\* A registration refers to a contest that exists.
LEMMA NextParticipants ==
    TInv /\ [Next]_vars => ParticipantsOK'
<1> SUFFICES ASSUME TInv, [Next]_vars PROVE ParticipantsOK'
  OBVIOUS
<1> USE DEF TInv
<1>1. CASE CreateContest
  BY <1>1 DEF CreateContest, ParticipantsOK, With
<1>2. CASE CreateProblem
  BY <1>2 DEF CreateProblem, ParticipantsOK
<1>3. CASE Tick
  BY <1>3 DEF Tick, tables, ParticipantsOK
<1>4. ASSUME NEW p \in ProblemIds, UpdateProblem(p) PROVE ParticipantsOK'
  BY <1>4 DEF UpdateProblem, ParticipantsOK
<1>5. ASSUME NEW c \in ContestIds, NEW p \in ProblemIds, RemoveProblem(c, p) PROVE ParticipantsOK'
  BY <1>5 DEF RemoveProblem, ParticipantsOK
<1>6. ASSUME NEW h \in Handlers, RegisterParticipant(h) PROVE ParticipantsOK'
  BY <1>6 DEF RegisterParticipant, tables, ParticipantsOK
<1>7. ASSUME NEW h \in Handlers, Register(h) PROVE ParticipantsOK'
  BY <1>7 DEF Register, ParticipantsOK, CallsOK
<1>8. ASSUME NEW h \in Handlers, AddProblem(h) PROVE ParticipantsOK'
  BY <1>8 DEF AddProblem, tables, ParticipantsOK
<1>9. ASSUME NEW h \in Handlers, LinkProblem(h) PROVE ParticipantsOK'
  BY <1>9 DEF LinkProblem, ParticipantsOK
<1>10. ASSUME NEW h \in Handlers, CreateContestProblem(h) PROVE ParticipantsOK'
  BY <1>10 DEF CreateContestProblem, ParticipantsOK
<1>11. ASSUME NEW h \in Handlers, Submit(h) PROVE ParticipantsOK'
  BY <1>11 DEF Submit, tables, ParticipantsOK
<1>12. ASSUME NEW h \in Handlers, Insert(h) PROVE ParticipantsOK'
  BY <1>12 DEF Insert, ParticipantsOK
<1>13. ASSUME NEW h \in Handlers, Detach(h) PROVE ParticipantsOK'
  BY <1>13 DEF Detach, tables, ParticipantsOK
<1>14. ASSUME NEW h \in Handlers, DeleteContest(h) PROVE ParticipantsOK'
  BY <1>14 DEF DeleteContest, ParticipantsOK, Without
<1>15. ASSUME NEW h \in Handlers, Discard(h) PROVE ParticipantsOK'
  BY <1>15 DEF Discard, tables, ParticipantsOK
<1>16. ASSUME NEW h \in Handlers, DeleteProblem(h) PROVE ParticipantsOK'
  BY <1>16 DEF DeleteProblem, ParticipantsOK
<1>17. ASSUME NEW h \in Handlers, ExportEventFeed(h) PROVE ParticipantsOK'
  BY <1>17 DEF ExportEventFeed, tables, ParticipantsOK
<1>18. ASSUME NEW h \in Handlers, ExportTeams(h) PROVE ParticipantsOK'
  BY <1>18 DEF ExportTeams, tables, ParticipantsOK
<1>19. ASSUME NEW h \in Handlers, ExportRuns(h) PROVE ParticipantsOK'
  BY <1>19 DEF ExportRuns, tables, ParticipantsOK
<1>20. ASSUME NEW h \in Handlers, SendFeed(h) PROVE ParticipantsOK'
  BY <1>20 DEF SendFeed, tables, ParticipantsOK
<1>21. ASSUME NEW h \in Handlers, Abort(h) PROVE ParticipantsOK'
  BY <1>21 DEF Abort, tables, ParticipantsOK
<1>22. CASE UNCHANGED vars
  BY <1>22 DEF vars, tables, ParticipantsOK
<1> QED
  BY <1>1, <1>2, <1>3, <1>4, <1>5, <1>6, <1>7, <1>8, <1>9, <1>10, <1>11, <1>12, <1>13,
     <1>14, <1>15, <1>16, <1>17, <1>18, <1>19, <1>20, <1>21, <1>22 DEF Next

\* A submission refers to a problem that exists and to a contest that exists, or to none.
LEMMA NextSubmissions ==
    TInv /\ [Next]_vars => SubmissionsOK'
<1> SUFFICES ASSUME TInv, [Next]_vars PROVE SubmissionsOK'
  OBVIOUS
<1> USE DEF TInv
<1>1. CASE CreateContest
  BY <1>1 DEF CreateContest, SubmissionsOK, With, FreshOK
<1>2. CASE CreateProblem
  BY <1>2 DEF CreateProblem, SubmissionsOK, With, FreshOK
<1>3. CASE Tick
  BY <1>3 DEF Tick, tables, SubmissionsOK
<1>4. ASSUME NEW p \in ProblemIds, UpdateProblem(p) PROVE SubmissionsOK'
  BY <1>4 DEF UpdateProblem, SubmissionsOK
<1>5. ASSUME NEW c \in ContestIds, NEW p \in ProblemIds, RemoveProblem(c, p) PROVE SubmissionsOK'
  BY <1>5 DEF RemoveProblem, SubmissionsOK
<1>6. ASSUME NEW h \in Handlers, RegisterParticipant(h) PROVE SubmissionsOK'
  BY <1>6 DEF RegisterParticipant, tables, SubmissionsOK
<1>7. ASSUME NEW h \in Handlers, Register(h) PROVE SubmissionsOK'
  BY <1>7 DEF Register, SubmissionsOK
<1>8. ASSUME NEW h \in Handlers, AddProblem(h) PROVE SubmissionsOK'
  BY <1>8 DEF AddProblem, tables, SubmissionsOK
<1>9. ASSUME NEW h \in Handlers, LinkProblem(h) PROVE SubmissionsOK'
  BY <1>9 DEF LinkProblem, SubmissionsOK
<1>10. ASSUME NEW h \in Handlers, CreateContestProblem(h) PROVE SubmissionsOK'
  BY <1>10 DEF CreateContestProblem, SubmissionsOK, With, FreshOK
<1>11. ASSUME NEW h \in Handlers, Submit(h) PROVE SubmissionsOK'
  BY <1>11 DEF Submit, tables, SubmissionsOK
<1>12. ASSUME NEW h \in Handlers, Insert(h) PROVE SubmissionsOK'
  <2> DEFINE new == [problem |-> call[h].p, user |-> call[h].u, contest |-> call[h].c,
                     late |-> call[h].c \in DOMAIN contests /\ Ended(call[h].c)]
  <2>1. /\ fresh.submission \in SubmissionIds /\ fresh.submission \in Nat
        /\ fresh'.submission = fresh.submission + 1
        /\ UNCHANGED <<contests, problems>>
    BY <1>12 DEF Insert, FreshOK
  <2>2. CASE submissions' = submissions
    <3>1. \A s \in DOMAIN submissions : s \in Nat /\ s < fresh.submission
      BY IdFacts DEF SubmissionsOK
    <3>2. \A s \in DOMAIN submissions : s < fresh'.submission
      BY <3>1, <2>1
    <3> QED
      BY <3>2, <2>1, <2>2 DEF SubmissionsOK
  <2>3. CASE /\ call[h].p \in DOMAIN problems /\ call[h].c \in DOMAIN contests \cup {None}
             /\ submissions' = With(submissions, fresh.submission, new)
    <3>1. new \in Submission /\ new.problem = call[h].p /\ new.contest = call[h].c
      BY <1>12 DEF Insert, CallsOK, Call, Submission
    <3> HIDE DEF new
    <3>2. /\ DOMAIN submissions' = DOMAIN submissions \cup {fresh.submission}
          /\ submissions'[fresh.submission] = new
          /\ \A y \in DOMAIN submissions : y # fresh.submission => submissions'[y] = submissions[y]
      BY <2>3 DEF With, new
    <3>3. ASSUME NEW s \in DOMAIN submissions'
          PROVE  /\ submissions'[s] \in Submission
                 /\ s < fresh'.submission
                 /\ submissions'[s].problem \in DOMAIN problems'
                 /\ submissions'[s].contest \in DOMAIN contests' \cup {None}
      <4>1. CASE s = fresh.submission
        BY <4>1, <3>1, <3>2, <2>1, <2>3
      <4>2. CASE s # fresh.submission
        <5>1. s \in DOMAIN submissions /\ s \in Nat /\ submissions'[s] = submissions[s]
          BY <4>2, <3>2, IdFacts DEF SubmissionsOK
        <5> QED
          BY <5>1, <2>1 DEF SubmissionsOK
      <4> QED
        BY <4>1, <4>2
    <3> QED
      BY <2>1, <3>2, <3>3 DEF SubmissionsOK
  <2> QED
    BY <1>12, <2>2, <2>3 DEF Insert
<1>13. ASSUME NEW h \in Handlers, Detach(h) PROVE SubmissionsOK'
  BY <1>13 DEF Detach, tables, SubmissionsOK
<1>14. ASSUME NEW h \in Handlers, DeleteContest(h) PROVE SubmissionsOK'
  <2>1. CASE UNCHANGED <<submissions, contests, links, participants>>
    BY <1>14, <2>1 DEF DeleteContest, SubmissionsOK
  <2>2. CASE /\ submissions' = Detached(SubmissionsTo(call[h].c))
             /\ contests' = Without(contests, {call[h].c})
    <3>1. DOMAIN submissions' = DOMAIN submissions /\ fresh' = fresh /\ problems' = problems
      BY <1>14, <2>2 DEF DeleteContest, Detached
    <3>2. ASSUME NEW s \in DOMAIN submissions
          PROVE  /\ submissions'[s] \in Submission
                 /\ submissions'[s].problem = submissions[s].problem
                 /\ submissions'[s].contest \in DOMAIN contests' \cup {None}
      <4>0. submissions[s] \in Submission
        BY DEF SubmissionsOK
      <4>1. CASE s \in SubmissionsTo(call[h].c)
        <5>1. submissions'[s] = [submissions[s] EXCEPT !.contest = None]
          BY <2>2, <4>1 DEF Detached
        <5> QED
          BY <4>0, <5>1, IdFacts DEF Submission
      <4>2. CASE s \notin SubmissionsTo(call[h].c)
        <5>1. submissions'[s] = submissions[s] /\ submissions[s].contest # call[h].c
          BY <2>2, <4>2 DEF Detached, SubmissionsTo
        <5> QED
          BY <4>0, <5>1, <2>2 DEF SubmissionsOK, Without
      <4> QED
        BY <4>1, <4>2
    <3> QED
      BY <3>1, <3>2 DEF SubmissionsOK
  <2> QED
    BY <1>14, <2>1, <2>2 DEF DeleteContest
<1>15. ASSUME NEW h \in Handlers, Discard(h) PROVE SubmissionsOK'
  BY <1>15 DEF Discard, tables, SubmissionsOK
<1>16. ASSUME NEW h \in Handlers, DeleteProblem(h) PROVE SubmissionsOK'
  BY <1>16 DEF DeleteProblem, SubmissionsOK, Without, SubmissionsOf
<1>17. ASSUME NEW h \in Handlers, ExportEventFeed(h) PROVE SubmissionsOK'
  BY <1>17 DEF ExportEventFeed, tables, SubmissionsOK
<1>18. ASSUME NEW h \in Handlers, ExportTeams(h) PROVE SubmissionsOK'
  BY <1>18 DEF ExportTeams, tables, SubmissionsOK
<1>19. ASSUME NEW h \in Handlers, ExportRuns(h) PROVE SubmissionsOK'
  BY <1>19 DEF ExportRuns, tables, SubmissionsOK
<1>20. ASSUME NEW h \in Handlers, SendFeed(h) PROVE SubmissionsOK'
  BY <1>20 DEF SendFeed, tables, SubmissionsOK
<1>21. ASSUME NEW h \in Handlers, Abort(h) PROVE SubmissionsOK'
  BY <1>21 DEF Abort, tables, SubmissionsOK
<1>22. CASE UNCHANGED vars
  BY <1>22 DEF vars, tables, SubmissionsOK
<1> QED
  BY <1>1, <1>2, <1>3, <1>4, <1>5, <1>6, <1>7, <1>8, <1>9, <1>10, <1>11, <1>12, <1>13,
     <1>14, <1>15, <1>16, <1>17, <1>18, <1>19, <1>20, <1>21, <1>22 DEF Next

\* Requests are well formed.
LEMMA NextCalls ==
    TInv /\ [Next]_vars => CallsOK'
<1> SUFFICES ASSUME TInv, [Next]_vars PROVE CallsOK'
  OBVIOUS
<1> USE DEF TInv
<1>1. CASE CreateContest
  BY <1>1 DEF CreateContest, CallsOK
<1>2. CASE CreateProblem
  BY <1>2 DEF CreateProblem, CallsOK
<1>3. CASE Tick
  BY <1>3 DEF Tick, tables, CallsOK
<1>4. ASSUME NEW p \in ProblemIds, UpdateProblem(p) PROVE CallsOK'
  BY <1>4 DEF UpdateProblem, CallsOK
<1>5. ASSUME NEW c \in ContestIds, NEW p \in ProblemIds, RemoveProblem(c, p) PROVE CallsOK'
  BY <1>5 DEF RemoveProblem, CallsOK
<1>6. ASSUME NEW h \in Handlers, RegisterParticipant(h) PROVE CallsOK'
  BY <1>6, RegisterParticipantFacts DEF CallsOK
<1>7. ASSUME NEW h \in Handlers, Register(h) PROVE CallsOK'
  BY <1>7, ReturnFacts DEF Register, CallsOK
<1>8. ASSUME NEW h \in Handlers, AddProblem(h) PROVE CallsOK'
  BY <1>8, AddProblemFacts DEF CallsOK
<1>9. ASSUME NEW h \in Handlers, LinkProblem(h) PROVE CallsOK'
  BY <1>9, ReturnFacts DEF LinkProblem, CallsOK
<1>10. ASSUME NEW h \in Handlers, CreateContestProblem(h) PROVE CallsOK'
  BY <1>10, ReturnFacts DEF CreateContestProblem, CallsOK
<1>11. ASSUME NEW h \in Handlers, Submit(h) PROVE CallsOK'
  BY <1>11, SubmitFacts DEF CallsOK
<1>12. ASSUME NEW h \in Handlers, Insert(h) PROVE CallsOK'
  BY <1>12, ReturnFacts DEF Insert, CallsOK
<1>13. ASSUME NEW h \in Handlers, Detach(h) PROVE CallsOK'
  BY <1>13, DetachFacts DEF CallsOK
<1>14. ASSUME NEW h \in Handlers, DeleteContest(h) PROVE CallsOK'
  BY <1>14, ReturnFacts DEF DeleteContest, CallsOK
<1>15. ASSUME NEW h \in Handlers, Discard(h) PROVE CallsOK'
  BY <1>15, DiscardFacts DEF CallsOK
<1>16. ASSUME NEW h \in Handlers, DeleteProblem(h) PROVE CallsOK'
  BY <1>16, ReturnFacts DEF DeleteProblem, CallsOK
<1>17. ASSUME NEW h \in Handlers, ExportEventFeed(h) PROVE CallsOK'
  BY <1>17, ExportEventFeedFacts DEF CallsOK
<1>18. ASSUME NEW h \in Handlers, ExportTeams(h) PROVE CallsOK'
  BY <1>18, ExportTeamsFacts DEF CallsOK
<1>19. ASSUME NEW h \in Handlers, ExportRuns(h) PROVE CallsOK'
  BY <1>19, ExportRunsFacts DEF CallsOK
<1>20. ASSUME NEW h \in Handlers, SendFeed(h) PROVE CallsOK'
  BY <1>20, ReturnFacts DEF SendFeed, CallsOK
<1>21. ASSUME NEW h \in Handlers, Abort(h) PROVE CallsOK'
  BY <1>21, ReturnFacts DEF Abort, CallsOK
<1>22. CASE UNCHANGED vars
  BY <1>22 DEF vars, tables, CallsOK
<1> QED
  BY <1>1, <1>2, <1>3, <1>4, <1>5, <1>6, <1>7, <1>8, <1>9, <1>10, <1>11, <1>12, <1>13,
     <1>14, <1>15, <1>16, <1>17, <1>18, <1>19, <1>20, <1>21, <1>22 DEF Next

\* So is the export.
LEMMA NextFeed ==
    TInv /\ [Next]_vars => FeedOK'
<1> SUFFICES ASSUME TInv, [Next]_vars PROVE FeedOK'
  OBVIOUS
<1> USE DEF TInv
<1>1. CASE CreateContest
  BY <1>1 DEF CreateContest, FeedOK
<1>2. CASE CreateProblem
  BY <1>2 DEF CreateProblem, FeedOK
<1>3. CASE Tick
  BY <1>3 DEF Tick, tables, FeedOK
<1>4. ASSUME NEW p \in ProblemIds, UpdateProblem(p) PROVE FeedOK'
  BY <1>4 DEF UpdateProblem, FeedOK
<1>5. ASSUME NEW c \in ContestIds, NEW p \in ProblemIds, RemoveProblem(c, p) PROVE FeedOK'
  BY <1>5 DEF RemoveProblem, FeedOK
<1>6. ASSUME NEW h \in Handlers, RegisterParticipant(h) PROVE FeedOK'
  BY <1>6 DEF RegisterParticipant, tables, FeedOK
<1>7. ASSUME NEW h \in Handlers, Register(h) PROVE FeedOK'
  BY <1>7 DEF Register, FeedOK
<1>8. ASSUME NEW h \in Handlers, AddProblem(h) PROVE FeedOK'
  BY <1>8 DEF AddProblem, tables, FeedOK
<1>9. ASSUME NEW h \in Handlers, LinkProblem(h) PROVE FeedOK'
  BY <1>9 DEF LinkProblem, FeedOK
<1>10. ASSUME NEW h \in Handlers, CreateContestProblem(h) PROVE FeedOK'
  BY <1>10 DEF CreateContestProblem, FeedOK
<1>11. ASSUME NEW h \in Handlers, Submit(h) PROVE FeedOK'
  BY <1>11 DEF Submit, tables, FeedOK
<1>12. ASSUME NEW h \in Handlers, Insert(h) PROVE FeedOK'
  BY <1>12 DEF Insert, FeedOK
<1>13. ASSUME NEW h \in Handlers, Detach(h) PROVE FeedOK'
  BY <1>13 DEF Detach, tables, FeedOK
<1>14. ASSUME NEW h \in Handlers, DeleteContest(h) PROVE FeedOK'
  BY <1>14 DEF DeleteContest, FeedOK
<1>15. ASSUME NEW h \in Handlers, Discard(h) PROVE FeedOK'
  BY <1>15 DEF Discard, tables, FeedOK
<1>16. ASSUME NEW h \in Handlers, DeleteProblem(h) PROVE FeedOK'
  BY <1>16 DEF DeleteProblem, FeedOK
<1>17. ASSUME NEW h \in Handlers, ExportEventFeed(h) PROVE FeedOK'
  BY <1>17, ExportEventFeedFacts DEF FeedOK
<1>18. ASSUME NEW h \in Handlers, ExportTeams(h) PROVE FeedOK'
  BY <1>18, ExportTeamsFacts DEF FeedOK
<1>19. ASSUME NEW h \in Handlers, ExportRuns(h) PROVE FeedOK'
  BY <1>19, ExportRunsFacts DEF FeedOK
<1>20. ASSUME NEW h \in Handlers, SendFeed(h) PROVE FeedOK'
  BY <1>20, EmptyFacts DEF SendFeed, tables, FeedOK
<1>21. ASSUME NEW h \in Handlers, Abort(h) PROVE FeedOK'
  BY <1>21, EmptyFacts DEF Abort, tables, FeedOK
<1>22. CASE UNCHANGED vars
  BY <1>22 DEF vars, tables, FeedOK
<1> QED
  BY <1>1, <1>2, <1>3, <1>4, <1>5, <1>6, <1>7, <1>8, <1>9, <1>10, <1>11, <1>12, <1>13,
     <1>14, <1>15, <1>16, <1>17, <1>18, <1>19, <1>20, <1>21, <1>22 DEF Next

\* The initial state is well typed.
LEMMA InitTypes == Init => TInv
<1> SUFFICES ASSUME Init PROVE TInv
  OBVIOUS
<1> USE DEF Init
<1>1. NowOK /\ FreshOK /\ BoundsOK
  BY ContestsAssumption DEF NowOK, FreshOK, BoundsOK
<1>2. ContestsOK /\ ProblemsOK /\ SubmissionsOK
  BY DEF ContestsOK, ProblemsOK, SubmissionsOK
<1>3. LinksOK /\ LinksBounded /\ ParticipantsOK
  BY DEF LinksOK, LinksBounded, ParticipantsOK
<1>4. CallsOK /\ FeedOK
  BY EmptyFacts DEF CallsOK, FeedOK
<1> QED
  BY <1>1, <1>2, <1>3, <1>4 DEF TInv

\* Every step keeps it so.
LEMMA NextTypes == TInv /\ [Next]_vars => TInv'
BY NextNow, NextFresh, NextBounds, NextContests, NextProblems, NextLinks,
   NextLinksBounded, NextParticipants, NextSubmissions, NextCalls, NextFeed DEF TInv


\* The types are an invariant.
LEMMA TypesInvariant == Spec => []TInv
BY InitTypes, NextTypes, PTL DEF Spec

\* The tables keep their types and the references between them whatever requests
\* overlap: a link, a registration or a submission never names a contest or a problem
\* that is gone (ContestRepo.Delete, ProblemRepo.DeleteProblem, the foreign keys).
THEOREM TypesHold == Spec => []TypeOK
<1>1. TInv => TypeOK
  <2> SUFFICES ASSUME TInv PROVE TypeOK
    OBVIOUS
  <2>1. NowOK /\ ContestsOK /\ ProblemsOK /\ LinksOK /\ ParticipantsOK /\ SubmissionsOK /\ BoundsOK
    BY DEF TInv
  <2>2. \A h \in Handlers : call[h].op \in Ops
    BY DEF TInv, CallsOK, Call
  <2> QED
    BY <2>1, <2>2 DEF TypeOK, NowOK, ContestsOK, ProblemsOK, LinksOK, ParticipantsOK,
          SubmissionsOK, BoundsOK, Ops
<1> QED
  BY <1>1, TypesInvariant, PTL

\* The queries that decide who sees a problem agree on the boundaries of a contest
\* (CanNonAdminView, ListProblems, GetProblems, CanSubmitToContest), for every schedule.
THEOREM PagesAgreeHolds == Spec => []PagesAgree
<1>1. TInv => PagesAgree
  <2> SUFFICES ASSUME TInv, NEW p \in DOMAIN problems, NEW u \in Visitors, ~ProblemPage(p, u)
               PROVE  /\ p \notin Bank
                      /\ \A c \in DOMAIN contests :
                            p \notin ContestPage(c, u) /\ ~CanSubmitToContest(c, p, u)
    BY DEF PagesAgree
  <2>1. /\ ~problems[p]
        /\ \A c \in DOMAIN contests :
              <<c, p>> \in DOMAIN links => ~Ended(c) /\ ~(Running(c) /\ Open(c, u))
    BY DEF ProblemPage, CanNonAdminView
  <2>2. p \notin Bank
    BY <2>1 DEF Bank
  <2>3. ASSUME NEW c \in DOMAIN contests
        PROVE  p \notin ContestPage(c, u) /\ ~CanSubmitToContest(c, p, u)
    <3>1. now \in Nat /\ contests[c].start \in Nat /\ contests[c].end \in Nat
      BY ContestsAssumption DEF TInv, NowOK, ContestsOK, Contest
    <3>2. ~CanSubmitToContest(c, p, u)
      BY <2>1 DEF CanSubmitToContest
    <3>3. ASSUME p \in ContestPage(c, u) PROVE FALSE
      <4>1. <<c, p>> \in DOMAIN links /\ Open(c, u) /\ now >= contests[c].start
        BY <3>3 DEF ContestPage
      <4>2. ~Ended(c) /\ ~Running(c)
        BY <4>1, <2>1
      <4> QED
        BY <4>1, <4>2, <3>1 DEF Ended, Running
    <3> QED
      BY <3>2, <3>3
  <2> QED
    BY <2>2, <2>3
<1> QED
  BY <1>1, TypesInvariant, PTL

-----------------------------------------------------------------------------
\* Only AddProblem begins to add a problem, and only there is an overlap noted.
LEMMA AddersKept ==
    TInv /\ [Next]_vars =>
        NoneAdds \/ \E h \in Handlers : AddProblem(h)
<1> DEFINE Goal == NoneAdds \/ \E h \in Handlers : AddProblem(h)
<1> SUFFICES ASSUME TInv, [Next]_vars PROVE Goal
  OBVIOUS
<1>1. CASE CreateContest
  BY <1>1 DEF CreateContest, NoneAdds
<1>2. CASE CreateProblem
  BY <1>2 DEF CreateProblem, NoneAdds
<1>3. CASE Tick
  BY <1>3 DEF Tick, tables, NoneAdds
<1>4. ASSUME NEW p \in ProblemIds, UpdateProblem(p) PROVE Goal
  BY <1>4 DEF UpdateProblem, NoneAdds
<1>5. ASSUME NEW c \in ContestIds, NEW p \in ProblemIds, RemoveProblem(c, p) PROVE Goal
  BY <1>5 DEF RemoveProblem, NoneAdds
<1>6. ASSUME NEW h \in Handlers, RegisterParticipant(h) PROVE Goal
  BY <1>6, RegisterParticipantFacts DEF RegisterParticipant, TInv, NoneAdds
<1>7. ASSUME NEW h \in Handlers, Register(h) PROVE Goal
  BY <1>7, ReturnFacts DEF Register, TInv, NoneAdds
<1>8. ASSUME NEW h \in Handlers, AddProblem(h) PROVE Goal
  BY <1>8
<1>9. ASSUME NEW h \in Handlers, LinkProblem(h) PROVE Goal
  BY <1>9, ReturnFacts DEF LinkProblem, TInv, NoneAdds
<1>10. ASSUME NEW h \in Handlers, CreateContestProblem(h) PROVE Goal
  BY <1>10, ReturnFacts DEF CreateContestProblem, TInv, NoneAdds
<1>11. ASSUME NEW h \in Handlers, Submit(h) PROVE Goal
  BY <1>11, SubmitFacts DEF Submit, TInv, NoneAdds
<1>12. ASSUME NEW h \in Handlers, Insert(h) PROVE Goal
  BY <1>12, ReturnFacts DEF Insert, TInv, NoneAdds
<1>13. ASSUME NEW h \in Handlers, Detach(h) PROVE Goal
  BY <1>13, DetachFacts DEF Detach, TInv, NoneAdds
<1>14. ASSUME NEW h \in Handlers, DeleteContest(h) PROVE Goal
  BY <1>14, ReturnFacts DEF DeleteContest, TInv, NoneAdds
<1>15. ASSUME NEW h \in Handlers, Discard(h) PROVE Goal
  BY <1>15, DiscardFacts DEF Discard, TInv, NoneAdds
<1>16. ASSUME NEW h \in Handlers, DeleteProblem(h) PROVE Goal
  BY <1>16, ReturnFacts DEF DeleteProblem, TInv, NoneAdds
<1>17. ASSUME NEW h \in Handlers, ExportEventFeed(h) PROVE Goal
  BY <1>17, ExportEventFeedFacts DEF ExportEventFeed, TInv, NoneAdds
<1>18. ASSUME NEW h \in Handlers, ExportTeams(h) PROVE Goal
  BY <1>18, ExportTeamsFacts DEF ExportTeams, TInv, NoneAdds
<1>19. ASSUME NEW h \in Handlers, ExportRuns(h) PROVE Goal
  BY <1>19, ExportRunsFacts DEF ExportRuns, TInv, NoneAdds
<1>20. ASSUME NEW h \in Handlers, SendFeed(h) PROVE Goal
  BY <1>20, ReturnFacts DEF SendFeed, TInv, NoneAdds
<1>21. ASSUME NEW h \in Handlers, Abort(h) PROVE Goal
  BY <1>21, ReturnFacts DEF Abort, TInv, NoneAdds
<1>22. CASE UNCHANGED vars
  BY <1>22 DEF vars, tables, NoneAdds
<1> QED
  BY <1>1, <1>2, <1>3, <1>4, <1>5, <1>6, <1>7, <1>8, <1>9, <1>10, <1>11, <1>12, <1>13,
     <1>14, <1>15, <1>16, <1>17, <1>18, <1>19, <1>20, <1>21, <1>22 DEF Next

\* Only Submit begins a submission.
LEMMA SubmittersKept ==
    TInv /\ [Next]_vars =>
        NoneSubmits \/ \E h \in Handlers : Submit(h)
<1> DEFINE Goal == NoneSubmits \/ \E h \in Handlers : Submit(h)
<1> SUFFICES ASSUME TInv, [Next]_vars PROVE Goal
  OBVIOUS
<1>1. CASE CreateContest
  BY <1>1 DEF CreateContest, NoneSubmits
<1>2. CASE CreateProblem
  BY <1>2 DEF CreateProblem, NoneSubmits
<1>3. CASE Tick
  BY <1>3 DEF Tick, tables, NoneSubmits
<1>4. ASSUME NEW p \in ProblemIds, UpdateProblem(p) PROVE Goal
  BY <1>4 DEF UpdateProblem, NoneSubmits
<1>5. ASSUME NEW c \in ContestIds, NEW p \in ProblemIds, RemoveProblem(c, p) PROVE Goal
  BY <1>5 DEF RemoveProblem, NoneSubmits
<1>6. ASSUME NEW h \in Handlers, RegisterParticipant(h) PROVE Goal
  BY <1>6, RegisterParticipantFacts DEF RegisterParticipant, TInv, NoneSubmits
<1>7. ASSUME NEW h \in Handlers, Register(h) PROVE Goal
  BY <1>7, ReturnFacts DEF Register, TInv, NoneSubmits
<1>8. ASSUME NEW h \in Handlers, AddProblem(h) PROVE Goal
  BY <1>8, AddProblemFacts DEF AddProblem, TInv, NoneSubmits
<1>9. ASSUME NEW h \in Handlers, LinkProblem(h) PROVE Goal
  BY <1>9, ReturnFacts DEF LinkProblem, TInv, NoneSubmits
<1>10. ASSUME NEW h \in Handlers, CreateContestProblem(h) PROVE Goal
  BY <1>10, ReturnFacts DEF CreateContestProblem, TInv, NoneSubmits
<1>11. ASSUME NEW h \in Handlers, Submit(h) PROVE Goal
  BY <1>11
<1>12. ASSUME NEW h \in Handlers, Insert(h) PROVE Goal
  BY <1>12, ReturnFacts DEF Insert, TInv, NoneSubmits
<1>13. ASSUME NEW h \in Handlers, Detach(h) PROVE Goal
  BY <1>13, DetachFacts DEF Detach, TInv, NoneSubmits
<1>14. ASSUME NEW h \in Handlers, DeleteContest(h) PROVE Goal
  BY <1>14, ReturnFacts DEF DeleteContest, TInv, NoneSubmits
<1>15. ASSUME NEW h \in Handlers, Discard(h) PROVE Goal
  BY <1>15, DiscardFacts DEF Discard, TInv, NoneSubmits
<1>16. ASSUME NEW h \in Handlers, DeleteProblem(h) PROVE Goal
  BY <1>16, ReturnFacts DEF DeleteProblem, TInv, NoneSubmits
<1>17. ASSUME NEW h \in Handlers, ExportEventFeed(h) PROVE Goal
  BY <1>17, ExportEventFeedFacts DEF ExportEventFeed, TInv, NoneSubmits
<1>18. ASSUME NEW h \in Handlers, ExportTeams(h) PROVE Goal
  BY <1>18, ExportTeamsFacts DEF ExportTeams, TInv, NoneSubmits
<1>19. ASSUME NEW h \in Handlers, ExportRuns(h) PROVE Goal
  BY <1>19, ExportRunsFacts DEF ExportRuns, TInv, NoneSubmits
<1>20. ASSUME NEW h \in Handlers, SendFeed(h) PROVE Goal
  BY <1>20, ReturnFacts DEF SendFeed, TInv, NoneSubmits
<1>21. ASSUME NEW h \in Handlers, Abort(h) PROVE Goal
  BY <1>21, ReturnFacts DEF Abort, TInv, NoneSubmits
<1>22. CASE UNCHANGED vars
  BY <1>22 DEF vars, tables, NoneSubmits
<1> QED
  BY <1>1, <1>2, <1>3, <1>4, <1>5, <1>6, <1>7, <1>8, <1>9, <1>10, <1>11, <1>12, <1>13,
     <1>14, <1>15, <1>16, <1>17, <1>18, <1>19, <1>20, <1>21, <1>22 DEF Next

\* Only ExportEventFeed begins an export.
LEMMA ExportersKept ==
    TInv /\ [Next]_vars =>
        NoneExports \/ \E h \in Handlers : ExportEventFeed(h)
<1> DEFINE Goal == NoneExports \/ \E h \in Handlers : ExportEventFeed(h)
<1> SUFFICES ASSUME TInv, [Next]_vars PROVE Goal
  OBVIOUS
<1>1. CASE CreateContest
  BY <1>1 DEF CreateContest, NoneExports, Exporting
<1>2. CASE CreateProblem
  BY <1>2 DEF CreateProblem, NoneExports, Exporting
<1>3. CASE Tick
  BY <1>3 DEF Tick, tables, NoneExports, Exporting
<1>4. ASSUME NEW p \in ProblemIds, UpdateProblem(p) PROVE Goal
  BY <1>4 DEF UpdateProblem, NoneExports, Exporting
<1>5. ASSUME NEW c \in ContestIds, NEW p \in ProblemIds, RemoveProblem(c, p) PROVE Goal
  BY <1>5 DEF RemoveProblem, NoneExports, Exporting
<1>6. ASSUME NEW h \in Handlers, RegisterParticipant(h) PROVE Goal
  BY <1>6, RegisterParticipantFacts DEF RegisterParticipant, TInv, NoneExports, Exporting
<1>7. ASSUME NEW h \in Handlers, Register(h) PROVE Goal
  BY <1>7, ReturnFacts DEF Register, TInv, NoneExports, Exporting
<1>8. ASSUME NEW h \in Handlers, AddProblem(h) PROVE Goal
  BY <1>8, AddProblemFacts DEF AddProblem, TInv, NoneExports, Exporting
<1>9. ASSUME NEW h \in Handlers, LinkProblem(h) PROVE Goal
  BY <1>9, ReturnFacts DEF LinkProblem, TInv, NoneExports, Exporting
<1>10. ASSUME NEW h \in Handlers, CreateContestProblem(h) PROVE Goal
  BY <1>10, ReturnFacts DEF CreateContestProblem, TInv, NoneExports, Exporting
<1>11. ASSUME NEW h \in Handlers, Submit(h) PROVE Goal
  BY <1>11, SubmitFacts DEF Submit, TInv, NoneExports, Exporting
<1>12. ASSUME NEW h \in Handlers, Insert(h) PROVE Goal
  BY <1>12, ReturnFacts DEF Insert, TInv, NoneExports, Exporting
<1>13. ASSUME NEW h \in Handlers, Detach(h) PROVE Goal
  BY <1>13, DetachFacts DEF Detach, TInv, NoneExports, Exporting
<1>14. ASSUME NEW h \in Handlers, DeleteContest(h) PROVE Goal
  BY <1>14, ReturnFacts DEF DeleteContest, TInv, NoneExports, Exporting
<1>15. ASSUME NEW h \in Handlers, Discard(h) PROVE Goal
  BY <1>15, DiscardFacts DEF Discard, TInv, NoneExports, Exporting
<1>16. ASSUME NEW h \in Handlers, DeleteProblem(h) PROVE Goal
  BY <1>16, ReturnFacts DEF DeleteProblem, TInv, NoneExports, Exporting
<1>17. ASSUME NEW h \in Handlers, ExportEventFeed(h) PROVE Goal
  BY <1>17
<1>18. ASSUME NEW h \in Handlers, ExportTeams(h) PROVE Goal
  BY <1>18, ExportTeamsFacts DEF ExportTeams, TInv, NoneExports, Exporting
<1>19. ASSUME NEW h \in Handlers, ExportRuns(h) PROVE Goal
  BY <1>19, ExportRunsFacts DEF ExportRuns, TInv, NoneExports, Exporting
<1>20. ASSUME NEW h \in Handlers, SendFeed(h) PROVE Goal
  BY <1>20, ReturnFacts, EmptyFacts DEF SendFeed, TInv, NoneExports, Exporting
<1>21. ASSUME NEW h \in Handlers, Abort(h) PROVE Goal
  BY <1>21, ReturnFacts, EmptyFacts DEF Abort, TInv, NoneExports, Exporting
<1>22. CASE UNCHANGED vars
  BY <1>22 DEF vars, tables, NoneExports, Exporting
<1> QED
  BY <1>1, <1>2, <1>3, <1>4, <1>5, <1>6, <1>7, <1>8, <1>9, <1>10, <1>11, <1>12, <1>13,
     <1>14, <1>15, <1>16, <1>17, <1>18, <1>19, <1>20, <1>21, <1>22 DEF Next

\* Links come one at a time, from a request that adds a problem.
LEMMA NextLinksMove ==
    TInv /\ [Next]_vars => LinksMove
<1> SUFFICES ASSUME TInv, [Next]_vars PROVE LinksMove
  OBVIOUS
<1>1. CASE CreateContest
  BY <1>1 DEF CreateContest, LinksMove
<1>2. CASE CreateProblem
  BY <1>2 DEF CreateProblem, LinksMove
<1>3. CASE Tick
  BY <1>3 DEF Tick, tables, LinksMove
<1>4. ASSUME NEW p \in ProblemIds, UpdateProblem(p) PROVE LinksMove
  BY <1>4 DEF UpdateProblem, LinksMove
<1>5. ASSUME NEW c \in ContestIds, NEW p \in ProblemIds, RemoveProblem(c, p) PROVE LinksMove
  BY <1>5 DEF RemoveProblem, LinksMove, Without
<1>6. ASSUME NEW h \in Handlers, RegisterParticipant(h) PROVE LinksMove
  BY <1>6 DEF RegisterParticipant, tables, LinksMove
<1>7. ASSUME NEW h \in Handlers, Register(h) PROVE LinksMove
  BY <1>7 DEF Register, LinksMove
<1>8. ASSUME NEW h \in Handlers, AddProblem(h) PROVE LinksMove
  BY <1>8 DEF AddProblem, tables, LinksMove
<1>9. ASSUME NEW h \in Handlers, LinkProblem(h) PROVE LinksMove
  <2>1. Return(h)
    BY <1>9 DEF LinkProblem
  <2>2. CASE links' = links
    BY <2>2 DEF LinksMove
  <2>3. CASE links' = With(links, <<call[h].c, call[h].p>>, [ordinal |-> call[h].seen])
    <3> DEFINE k == <<call[h].c, call[h].p>>
    <3>1. /\ k \in DOMAIN links' /\ links'[k].ordinal = call[h].seen
          /\ \A l \in DOMAIN links' : l # k => l \in DOMAIN links /\ links'[l] = links[l]
      BY <2>3 DEF With
    <3>2. Adding(h, k[1]) /\ call'[h].op = "none"
      BY <1>9, <2>1, ReturnFacts DEF LinkProblem, Adding, TInv
    <3> HIDE DEF k
    <3>3. NewLink(h, k)
      BY <3>1, <3>2 DEF NewLink
    <3> QED
      BY <3>1, <3>3 DEF LinksMove
  <2> QED
    BY <1>9, <2>2, <2>3 DEF LinkProblem
<1>10. ASSUME NEW h \in Handlers, CreateContestProblem(h) PROVE LinksMove
  <2>1. Return(h)
    BY <1>10 DEF CreateContestProblem
  <2>2. CASE links' = links
    BY <2>2 DEF LinksMove
  <2>3. CASE links' = With(links, <<call[h].c, fresh.problem>>, [ordinal |-> call[h].seen])
    <3> DEFINE k == <<call[h].c, fresh.problem>>
    <3>1. /\ k \in DOMAIN links' /\ links'[k].ordinal = call[h].seen
          /\ \A l \in DOMAIN links' : l # k => l \in DOMAIN links /\ links'[l] = links[l]
      BY <2>3 DEF With
    <3>2. Adding(h, k[1]) /\ call'[h].op = "none"
      BY <1>10, <2>1, ReturnFacts DEF CreateContestProblem, Adding, TInv
    <3> HIDE DEF k
    <3>3. NewLink(h, k)
      BY <3>1, <3>2 DEF NewLink
    <3> QED
      BY <3>1, <3>3 DEF LinksMove
  <2> QED
    BY <1>10, <2>2, <2>3 DEF CreateContestProblem
<1>11. ASSUME NEW h \in Handlers, Submit(h) PROVE LinksMove
  BY <1>11 DEF Submit, tables, LinksMove
<1>12. ASSUME NEW h \in Handlers, Insert(h) PROVE LinksMove
  BY <1>12 DEF Insert, LinksMove
<1>13. ASSUME NEW h \in Handlers, Detach(h) PROVE LinksMove
  BY <1>13 DEF Detach, tables, LinksMove
<1>14. ASSUME NEW h \in Handlers, DeleteContest(h) PROVE LinksMove
  BY <1>14 DEF DeleteContest, LinksMove, Without
<1>15. ASSUME NEW h \in Handlers, Discard(h) PROVE LinksMove
  BY <1>15 DEF Discard, tables, LinksMove
<1>16. ASSUME NEW h \in Handlers, DeleteProblem(h) PROVE LinksMove
  BY <1>16 DEF DeleteProblem, LinksMove, Without
<1>17. ASSUME NEW h \in Handlers, ExportEventFeed(h) PROVE LinksMove
  BY <1>17 DEF ExportEventFeed, tables, LinksMove
<1>18. ASSUME NEW h \in Handlers, ExportTeams(h) PROVE LinksMove
  BY <1>18 DEF ExportTeams, tables, LinksMove
<1>19. ASSUME NEW h \in Handlers, ExportRuns(h) PROVE LinksMove
  BY <1>19 DEF ExportRuns, tables, LinksMove
<1>20. ASSUME NEW h \in Handlers, SendFeed(h) PROVE LinksMove
  BY <1>20 DEF SendFeed, tables, LinksMove
<1>21. ASSUME NEW h \in Handlers, Abort(h) PROVE LinksMove
  BY <1>21 DEF Abort, tables, LinksMove
<1>22. CASE UNCHANGED vars
  BY <1>22 DEF vars, tables, LinksMove
<1> QED
  BY <1>1, <1>2, <1>3, <1>4, <1>5, <1>6, <1>7, <1>8, <1>9, <1>10, <1>11, <1>12, <1>13,
     <1>14, <1>15, <1>16, <1>17, <1>18, <1>19, <1>20, <1>21, <1>22 DEF Next

\* Time goes on, contests do not change, and an id is not used again.
LEMMA NextTimeGoesOn ==
    TInv /\ [Next]_vars => TimeGoesOn
<1> SUFFICES ASSUME TInv, [Next]_vars PROVE TimeGoesOn
  OBVIOUS
<1>a. now \in Nat /\ fresh.contest \in Nat
  BY ContestsAssumption DEF TInv, NowOK, FreshOK
<1>1. CASE CreateContest
  BY <1>1, <1>a DEF CreateContest, TimeGoesOn, With, FreshOK, TInv
<1>2. CASE CreateProblem
  BY <1>2, <1>a DEF CreateProblem, TimeGoesOn, FreshOK, TInv
<1>3. CASE Tick
  BY <1>3, <1>a DEF Tick, tables, TimeGoesOn
<1>4. ASSUME NEW p \in ProblemIds, UpdateProblem(p) PROVE TimeGoesOn
  BY <1>4, <1>a DEF UpdateProblem, TimeGoesOn
<1>5. ASSUME NEW c \in ContestIds, NEW p \in ProblemIds, RemoveProblem(c, p) PROVE TimeGoesOn
  BY <1>5, <1>a DEF RemoveProblem, TimeGoesOn
<1>6. ASSUME NEW h \in Handlers, RegisterParticipant(h) PROVE TimeGoesOn
  BY <1>6, <1>a DEF RegisterParticipant, tables, TimeGoesOn
<1>7. ASSUME NEW h \in Handlers, Register(h) PROVE TimeGoesOn
  BY <1>7, <1>a DEF Register, TimeGoesOn
<1>8. ASSUME NEW h \in Handlers, AddProblem(h) PROVE TimeGoesOn
  BY <1>8, <1>a DEF AddProblem, tables, TimeGoesOn
<1>9. ASSUME NEW h \in Handlers, LinkProblem(h) PROVE TimeGoesOn
  BY <1>9, <1>a DEF LinkProblem, TimeGoesOn
<1>10. ASSUME NEW h \in Handlers, CreateContestProblem(h) PROVE TimeGoesOn
  BY <1>10, <1>a DEF CreateContestProblem, TimeGoesOn, FreshOK, TInv
<1>11. ASSUME NEW h \in Handlers, Submit(h) PROVE TimeGoesOn
  BY <1>11, <1>a DEF Submit, tables, TimeGoesOn
<1>12. ASSUME NEW h \in Handlers, Insert(h) PROVE TimeGoesOn
  BY <1>12, <1>a DEF Insert, TimeGoesOn, FreshOK, TInv
<1>13. ASSUME NEW h \in Handlers, Detach(h) PROVE TimeGoesOn
  BY <1>13, <1>a DEF Detach, tables, TimeGoesOn
<1>14. ASSUME NEW h \in Handlers, DeleteContest(h) PROVE TimeGoesOn
  BY <1>14, <1>a DEF DeleteContest, TimeGoesOn, Without
<1>15. ASSUME NEW h \in Handlers, Discard(h) PROVE TimeGoesOn
  BY <1>15, <1>a DEF Discard, tables, TimeGoesOn
<1>16. ASSUME NEW h \in Handlers, DeleteProblem(h) PROVE TimeGoesOn
  BY <1>16, <1>a DEF DeleteProblem, TimeGoesOn
<1>17. ASSUME NEW h \in Handlers, ExportEventFeed(h) PROVE TimeGoesOn
  BY <1>17, <1>a DEF ExportEventFeed, tables, TimeGoesOn
<1>18. ASSUME NEW h \in Handlers, ExportTeams(h) PROVE TimeGoesOn
  BY <1>18, <1>a DEF ExportTeams, tables, TimeGoesOn
<1>19. ASSUME NEW h \in Handlers, ExportRuns(h) PROVE TimeGoesOn
  BY <1>19, <1>a DEF ExportRuns, tables, TimeGoesOn
<1>20. ASSUME NEW h \in Handlers, SendFeed(h) PROVE TimeGoesOn
  BY <1>20, <1>a DEF SendFeed, tables, TimeGoesOn
<1>21. ASSUME NEW h \in Handlers, Abort(h) PROVE TimeGoesOn
  BY <1>21, <1>a DEF Abort, tables, TimeGoesOn
<1>22. CASE UNCHANGED vars
  BY <1>22, <1>a DEF vars, tables, TimeGoesOn
<1> QED
  BY <1>1, <1>2, <1>3, <1>4, <1>5, <1>6, <1>7, <1>8, <1>9, <1>10, <1>11, <1>12, <1>13,
     <1>14, <1>15, <1>16, <1>17, <1>18, <1>19, <1>20, <1>21, <1>22 DEF Next

\* Submissions come from requests that submit; a deletion detaches or removes them.
LEMMA NextSubmissionsMove ==
    TInv /\ [Next]_vars => SubmissionsMove
<1> SUFFICES ASSUME TInv, [Next]_vars PROVE SubmissionsMove
  OBVIOUS
<1>1. CASE CreateContest
  BY <1>1 DEF CreateContest, SubmissionsMove
<1>2. CASE CreateProblem
  BY <1>2 DEF CreateProblem, SubmissionsMove
<1>3. CASE Tick
  BY <1>3 DEF Tick, tables, SubmissionsMove
<1>4. ASSUME NEW p \in ProblemIds, UpdateProblem(p) PROVE SubmissionsMove
  BY <1>4 DEF UpdateProblem, SubmissionsMove
<1>5. ASSUME NEW c \in ContestIds, NEW p \in ProblemIds, RemoveProblem(c, p) PROVE SubmissionsMove
  BY <1>5 DEF RemoveProblem, SubmissionsMove
<1>6. ASSUME NEW h \in Handlers, RegisterParticipant(h) PROVE SubmissionsMove
  BY <1>6 DEF RegisterParticipant, tables, SubmissionsMove
<1>7. ASSUME NEW h \in Handlers, Register(h) PROVE SubmissionsMove
  BY <1>7 DEF Register, SubmissionsMove
<1>8. ASSUME NEW h \in Handlers, AddProblem(h) PROVE SubmissionsMove
  BY <1>8 DEF AddProblem, tables, SubmissionsMove
<1>9. ASSUME NEW h \in Handlers, LinkProblem(h) PROVE SubmissionsMove
  BY <1>9 DEF LinkProblem, SubmissionsMove
<1>10. ASSUME NEW h \in Handlers, CreateContestProblem(h) PROVE SubmissionsMove
  BY <1>10 DEF CreateContestProblem, SubmissionsMove
<1>11. ASSUME NEW h \in Handlers, Submit(h) PROVE SubmissionsMove
  BY <1>11 DEF Submit, tables, SubmissionsMove
<1>12. ASSUME NEW h \in Handlers, Insert(h) PROVE SubmissionsMove
  BY <1>12 DEF Insert, SubmissionsMove, With
<1>13. ASSUME NEW h \in Handlers, Detach(h) PROVE SubmissionsMove
  BY <1>13 DEF Detach, tables, SubmissionsMove
<1>14. ASSUME NEW h \in Handlers, DeleteContest(h) PROVE SubmissionsMove
  <2>1. CASE submissions' = submissions
    BY <2>1 DEF SubmissionsMove
  <2>2. CASE submissions' = Detached(SubmissionsTo(call[h].c))
    <3> SUFFICES ASSUME NEW s \in DOMAIN submissions'
                 PROVE  /\ s \in DOMAIN submissions
                        /\ submissions'[s].user = submissions[s].user
                        /\ submissions'[s].contest \in {submissions[s].contest, None}
      BY DEF SubmissionsMove
    <3>1. s \in DOMAIN submissions
      BY <2>2 DEF Detached
    <3>2. submissions[s] \in Submission
      BY <3>1 DEF TInv, SubmissionsOK
    <3>3. \/ submissions'[s] = submissions[s]
          \/ submissions'[s] = [submissions[s] EXCEPT !.contest = None]
      BY <2>2, <3>1 DEF Detached
    <3> QED
      BY <3>1, <3>2, <3>3 DEF Submission
  <2> QED
    BY <1>14, <2>1, <2>2 DEF DeleteContest
<1>15. ASSUME NEW h \in Handlers, Discard(h) PROVE SubmissionsMove
  BY <1>15 DEF Discard, tables, SubmissionsMove
<1>16. ASSUME NEW h \in Handlers, DeleteProblem(h) PROVE SubmissionsMove
  BY <1>16 DEF DeleteProblem, SubmissionsMove, Without
<1>17. ASSUME NEW h \in Handlers, ExportEventFeed(h) PROVE SubmissionsMove
  BY <1>17 DEF ExportEventFeed, tables, SubmissionsMove
<1>18. ASSUME NEW h \in Handlers, ExportTeams(h) PROVE SubmissionsMove
  BY <1>18 DEF ExportTeams, tables, SubmissionsMove
<1>19. ASSUME NEW h \in Handlers, ExportRuns(h) PROVE SubmissionsMove
  BY <1>19 DEF ExportRuns, tables, SubmissionsMove
<1>20. ASSUME NEW h \in Handlers, SendFeed(h) PROVE SubmissionsMove
  BY <1>20 DEF SendFeed, tables, SubmissionsMove
<1>21. ASSUME NEW h \in Handlers, Abort(h) PROVE SubmissionsMove
  BY <1>21 DEF Abort, tables, SubmissionsMove
<1>22. CASE UNCHANGED vars
  BY <1>22 DEF vars, tables, SubmissionsMove
<1> QED
  BY <1>1, <1>2, <1>3, <1>4, <1>5, <1>6, <1>7, <1>8, <1>9, <1>10, <1>11, <1>12, <1>13,
     <1>14, <1>15, <1>16, <1>17, <1>18, <1>19, <1>20, <1>21, <1>22 DEF Next

-----------------------------------------------------------------------------
\* A request that adds to a contest without clashes stays alone.
LEMMA NextOneAdder == OInv /\ [Next]_vars => OneAdder'
<1> SUFFICES ASSUME OInv, [Next]_vars,
                    NEW g \in Handlers, NEW h \in Handlers, NEW c \in Nat,
                    Adding(g, c)', Adding(h, c)', c \notin clash'
             PROVE  g = h
  BY DEF OneAdder
<1>0. TInv /\ OneAdder
  BY DEF OInv
<1>1. CASE NoneAdds
  <2>1. Adding(g, c) /\ Adding(h, c) /\ c \notin clash
    BY <1>1 DEF NoneAdds, Adding
  <2> QED
    BY <2>1, <1>0 DEF OneAdder
<1>2. CASE \E k \in Handlers : AddProblem(k)
  <2>1. PICK k \in Handlers : AddProblem(k)
    BY <1>2
  <2>2. /\ \A j \in Handlers : j # k => call'[j] = call[j]
        /\ clash \subseteq clash'
        /\ call'[k].c \notin clash' => \A j \in Handlers : ~Adding(j, call'[k].c)
    BY <1>0, <2>1, AddProblemFacts DEF TInv
  <2>3. CASE g # k /\ h # k
    <3>1. Adding(g, c) /\ Adding(h, c) /\ c \notin clash
      BY <2>2, <2>3 DEF Adding
    <3> QED
      BY <3>1, <1>0 DEF OneAdder
  <2>4. CASE g = k /\ h # k
    BY <2>2, <2>4 DEF Adding
  <2>5. CASE h = k /\ g # k
    BY <2>2, <2>5 DEF Adding
  <2> QED
    BY <2>3, <2>4, <2>5
<1> QED
  BY <1>0, <1>1, <1>2, AddersKept

\* What it has seen stays larger than every ordinal of the contest: removals only
\* take ordinals away, and nobody else adds one.
LEMMA NextSeenIsFree == OInv /\ [Next]_vars => SeenIsFree'
<1> SUFFICES ASSUME OInv, [Next]_vars,
                    NEW h \in Handlers, NEW l \in DOMAIN links',
                    Adding(h, l[1])', l[1] \notin clash'
             PROVE  links'[l].ordinal < call'[h].seen
  BY DEF SeenIsFree
<1>0. TInv /\ OneAdder /\ SeenIsFree
  BY DEF OInv
<1>a. l[1] \in Nat
  <2>1. LinksOK' /\ ContestsOK'
    BY <1>0, NextTypes DEF TInv
  <2> QED
    BY <2>1, IdFacts DEF LinksOK, ContestsOK
<1>1. CASE NoneAdds
  <2>1. Adding(h, l[1]) /\ l[1] \notin clash /\ call'[h] = call[h]
    BY <1>1 DEF NoneAdds, Adding
  <2>2. CASE l \in DOMAIN links /\ links'[l] = links[l]
    BY <2>1, <2>2, <1>0 DEF SeenIsFree
  <2>3. ASSUME NEW g \in Handlers, NEW k \in DOMAIN links', NewLink(g, k),
               ~(l \in DOMAIN links /\ links'[l] = links[l])
        PROVE  FALSE
    <3>1. l = k /\ Adding(g, l[1]) /\ call'[g].op = "none"
      BY <2>3 DEF NewLink
    <3>2. g = h
      BY <3>1, <2>1, <1>0, <1>a DEF OneAdder
    <3> QED
      BY <3>1, <3>2 DEF Adding
  <2> QED
    BY <2>2, <2>3, <1>0, NextLinksMove DEF LinksMove
<1>2. CASE \E k \in Handlers : AddProblem(k)
  <2>1. PICK k \in Handlers : AddProblem(k)
    BY <1>2
  <2>2. /\ \A j \in Handlers : j # k => call'[j] = call[j]
        /\ clash \subseteq clash'
        /\ call'[k].c \notin clash' => call'[k].seen = NextOrdinal(call'[k].c)
    BY <1>0, <2>1, AddProblemFacts DEF TInv
  <2>3. links' = links
    BY <2>1 DEF AddProblem, tables
  <2>4. CASE h = k
    <3>1. call'[h].c = l[1] /\ call'[h].seen = NextOrdinal(l[1])
      BY <2>2, <2>4 DEF Adding
    <3> QED
      BY <3>1, <2>3, <1>0, NextOrdinalFacts DEF TInv
  <2>5. CASE h # k
    BY <2>2, <2>3, <2>5, <1>0 DEF Adding, SeenIsFree
  <2> QED
    BY <2>4, <2>5
<1> QED
  BY <1>0, <1>1, <1>2, AddersKept

\* So the ordinal it adds is new.
LEMMA NextOrdinalsDistinct == OInv /\ [Next]_vars => OrdinalsDistinct'
<1> SUFFICES ASSUME OInv, [Next]_vars,
                    NEW l \in DOMAIN links', NEW m \in DOMAIN links',
                    l # m, l[1] = m[1], l[1] \notin clash'
             PROVE  links'[l].ordinal # links'[m].ordinal
  BY DEF OrdinalsDistinct
<1>0. TInv /\ SeenIsFree /\ OrdinalsDistinct
  BY DEF OInv
<1>1. l[1] \notin clash
  <2>1. CASE NoneAdds
    BY <2>1 DEF NoneAdds
  <2>2. CASE \E k \in Handlers : AddProblem(k)
    BY <2>2, <1>0, AddProblemFacts DEF TInv
  <2> QED
    BY <1>0, <2>1, <2>2, AddersKept
<1>2. CASE \A k \in DOMAIN links' : k \in DOMAIN links /\ links'[k] = links[k]
  BY <1>0, <1>1, <1>2 DEF OrdinalsDistinct
<1>3. ASSUME NEW h \in Handlers, NEW k \in DOMAIN links', NewLink(h, k)
      PROVE  links'[l].ordinal # links'[m].ordinal
  <2>0. /\ Adding(h, k[1]) /\ links'[k].ordinal = call[h].seen
        /\ \A j \in DOMAIN links' : j # k => j \in DOMAIN links /\ links'[j] = links[j]
    BY <1>3 DEF NewLink
  <2>1. ASSUME NEW j \in DOMAIN links', j # k, j[1] = k[1], j[1] = l[1]
        PROVE  links'[j].ordinal # links'[k].ordinal
    <3>1. j \in DOMAIN links /\ links'[j] = links[j]
      BY <2>0, <2>1
    <3>2. links[j].ordinal < call[h].seen
      BY <3>1, <2>0, <2>1, <1>0, <1>1 DEF SeenIsFree
    <3>3. links[j].ordinal \in Nat /\ call[h].seen \in Nat
      BY <3>1, <1>0 DEF TInv, LinksOK, CallsOK, Call
    <3> QED
      BY <3>1, <3>2, <3>3, <2>0
  <2>2. CASE l = k
    BY <2>1, <2>2
  <2>3. CASE m = k
    BY <2>1, <2>3
  <2>4. CASE l # k /\ m # k
    BY <2>0, <2>4, <1>0, <1>1 DEF OrdinalsDistinct
  <2> QED
    BY <2>2, <2>3, <2>4
<1> QED
  BY <1>0, <1>2, <1>3, NextLinksMove DEF LinksMove

\* The three together are an invariant.
LEMMA OrdinalsInvariant == Spec => []OInv
<1>1. Init => OInv
  <2> SUFFICES ASSUME Init PROVE OInv
    OBVIOUS
  <2>1. TInv
    BY InitTypes
  <2>2. OneAdder /\ SeenIsFree /\ OrdinalsDistinct
    BY EmptyFacts DEF Init, OneAdder, SeenIsFree, OrdinalsDistinct, Adding
  <2> QED
    BY <2>1, <2>2 DEF OInv
<1>2. OInv /\ [Next]_vars => OInv'
  BY NextTypes, NextOneAdder, NextSeenIsFree, NextOrdinalsDistinct DEF OInv
<1> QED
  BY <1>1, <1>2, PTL DEF Spec

\* SELECT MAX(ordinal) + 1 gives every problem of a contest a place of its own
\* (AddProblem, CreateContestProblem), whatever is removed or deleted meanwhile, unless
\* two additions to the contest overlapped or an administrator chose an ordinal.
THEOREM OrdinalsDistinctHolds == Spec => []OrdinalsDistinct
<1>1. OInv => OrdinalsDistinct
  BY DEF OInv
<1> QED
  BY <1>1, OrdinalsInvariant, PTL

-----------------------------------------------------------------------------
\* An export begins when there is no other.
LEMMA NextOneExport == FInv /\ [Next]_vars => OneExport'
<1> SUFFICES ASSUME FInv, [Next]_vars, NEW g \in Handlers, NEW h \in Handlers,
                    call'[g].op \in Exporting, call'[h].op \in Exporting
             PROVE  g = h
  BY DEF OneExport
<1>0. TInv /\ OneExport
  BY DEF FInv
<1>1. CASE NoneExports
  BY <1>0, <1>1 DEF NoneExports, OneExport
<1>2. CASE \E k \in Handlers : ExportEventFeed(k)
  <2>1. PICK k \in Handlers : ExportEventFeed(k)
    BY <1>2
  <2>2. /\ \A j \in Handlers : j # k => call'[j] = call[j]
        /\ \A j \in Handlers : call[j].op \notin Exporting
    BY <1>0, <2>1, ExportEventFeedFacts DEF TInv
  <2> QED
    BY <2>2
<1> QED
  BY <1>0, <1>1, <1>2, ExportersKept

\* A contest that is over stays over, and nobody begins to submit to it.
LEMMA NextClosedIsOver == FInv /\ [Next]_vars => ClosedIsOver'
<1> SUFFICES ASSUME FInv, [Next]_vars, NEW h \in Handlers,
                    call'[h].op \in Exporting, feed'.closed
             PROVE  /\ call'[h].c # None
                    /\ call'[h].c \in DOMAIN contests' => Ended(call[h].c)'
                    /\ call'[h].c < fresh'.contest
                    /\ ~Submitting(call[h].c)'
  BY DEF ClosedIsOver
<1> DEFINE c == call'[h].c
<1>0. TInv /\ ClosedIsOver /\ TInv' /\ TimeGoesOn
  BY NextTypes, NextTimeGoesOn DEF FInv
<1>a. now \in Nat /\ now' \in Nat /\ fresh.contest \in Nat /\ fresh'.contest \in Nat /\ c \in Nat
  BY <1>0, ContestsAssumption DEF TInv, NowOK, FreshOK, CallsOK, Call
<1>1. /\ c # None /\ c < fresh.contest
      /\ c \in DOMAIN contests => Ended(c)
      /\ \A g \in Handlers : ~(call[g].op = "submit" /\ call[g].c = c)
  <2>1. CASE NoneExports
    <3>1. call[h].op \in Exporting /\ call[h].c = c /\ feed.closed
      BY <2>1 DEF NoneExports
    <3> QED
      BY <3>1, <1>0 DEF ClosedIsOver, Submitting
  <2>2. CASE \E k \in Handlers : ExportEventFeed(k)
    <3>1. PICK k \in Handlers : ExportEventFeed(k)
      BY <2>2
    <3>2. /\ \A j \in Handlers : j # k => call'[j] = call[j]
          /\ \A j \in Handlers : call[j].op \notin Exporting
          /\ call'[k].c \in DOMAIN contests
          /\ feed'.closed => Ended(call'[k].c) /\ ~Submitting(call'[k].c)
      BY <1>0, <3>1, ExportEventFeedFacts DEF TInv
    <3>3. h = k
      BY <3>2
    <3>4. c \in DOMAIN contests /\ Ended(c) /\ ~Submitting(c)
      BY <3>2, <3>3
    <3>5. c \in ContestIds /\ c < fresh.contest
      BY <3>4, <1>0 DEF TInv, ContestsOK
    <3> QED
      BY <3>4, <3>5, IdFacts DEF Submitting
  <2> QED
    BY <1>0, <2>1, <2>2, ExportersKept
<1>2. c < fresh'.contest
  BY <1>0, <1>1, <1>a DEF TimeGoesOn
<1>3. ASSUME c \in DOMAIN contests' PROVE contests'[c].end < now'
  <2>1. c \in DOMAIN contests /\ contests'[c] = contests[c]
    BY <1>0, <1>1, <1>3 DEF TimeGoesOn
  <2>2. contests[c].end < now /\ contests[c].end \in Nat
    BY <2>1, <1>0, <1>1 DEF Ended, TInv, ContestsOK, Contest
  <2> QED
    BY <2>1, <2>2, <1>0, <1>a DEF TimeGoesOn
<1>4. ASSUME NEW g \in Handlers, call'[g].op = "submit", call'[g].c = c PROVE FALSE
  <2>1. CASE NoneSubmits
    BY <2>1, <1>4, <1>1 DEF NoneSubmits
  <2>2. CASE \E k \in Handlers : Submit(k)
    <3>1. PICK k \in Handlers : Submit(k)
      BY <2>2
    <3>2. /\ \A j \in Handlers : j # k => call'[j] = call[j]
          /\ \/ call'[k].c = None
             \/ call'[k].c \in DOMAIN contests /\ Running(call'[k].c)
      BY <1>0, <3>1, SubmitFacts DEF TInv
    <3>3. CASE g # k
      BY <3>2, <3>3, <1>4, <1>1
    <3>4. CASE g = k
      <4>1. c \in DOMAIN contests /\ Running(c) /\ Ended(c)
        BY <3>2, <3>4, <1>4, <1>1
      <4>2. contests[c].end \in Nat
        BY <4>1, <1>0 DEF TInv, ContestsOK, Contest
      <4> QED
        BY <4>1, <4>2, <1>a DEF Running, Ended
    <3> QED
      BY <3>3, <3>4
  <2> QED
    BY <1>0, <2>1, <2>2, SubmittersKept
<1> QED
  BY <1>1, <1>2, <1>3, <1>4 DEF Ended, Submitting

\* Only the three reads of an export change what it has.
LEMMA ReadersKept ==
    TInv /\ [Next]_vars =>
        NoneReads \/ \E h \in Handlers : ExportReads(h)
<1> DEFINE Goal == NoneReads \/ \E h \in Handlers : ExportReads(h)
<1> SUFFICES ASSUME TInv, [Next]_vars PROVE Goal
  OBVIOUS
<1>1. CASE CreateContest
  BY <1>1 DEF CreateContest, NoneReads, Exporting
<1>2. CASE CreateProblem
  BY <1>2 DEF CreateProblem, NoneReads, Exporting
<1>3. CASE Tick
  BY <1>3 DEF Tick, tables, NoneReads, Exporting
<1>4. ASSUME NEW p \in ProblemIds, UpdateProblem(p) PROVE Goal
  BY <1>4 DEF UpdateProblem, NoneReads, Exporting
<1>5. ASSUME NEW c \in ContestIds, NEW p \in ProblemIds, RemoveProblem(c, p) PROVE Goal
  BY <1>5 DEF RemoveProblem, NoneReads, Exporting
<1>6. ASSUME NEW h \in Handlers, RegisterParticipant(h) PROVE Goal
  BY <1>6, RegisterParticipantFacts DEF RegisterParticipant, TInv, NoneReads, Exporting
<1>7. ASSUME NEW h \in Handlers, Register(h) PROVE Goal
  BY <1>7, ReturnFacts DEF Register, TInv, NoneReads, Exporting
<1>8. ASSUME NEW h \in Handlers, AddProblem(h) PROVE Goal
  BY <1>8, AddProblemFacts DEF AddProblem, TInv, NoneReads, Exporting
<1>9. ASSUME NEW h \in Handlers, LinkProblem(h) PROVE Goal
  BY <1>9, ReturnFacts DEF LinkProblem, TInv, NoneReads, Exporting
<1>10. ASSUME NEW h \in Handlers, CreateContestProblem(h) PROVE Goal
  BY <1>10, ReturnFacts DEF CreateContestProblem, TInv, NoneReads, Exporting
<1>11. ASSUME NEW h \in Handlers, Submit(h) PROVE Goal
  BY <1>11, SubmitFacts DEF Submit, TInv, NoneReads, Exporting
<1>12. ASSUME NEW h \in Handlers, Insert(h) PROVE Goal
  BY <1>12, ReturnFacts DEF Insert, TInv, NoneReads, Exporting
<1>13. ASSUME NEW h \in Handlers, Detach(h) PROVE Goal
  BY <1>13, DetachFacts DEF Detach, TInv, NoneReads, Exporting
<1>14. ASSUME NEW h \in Handlers, DeleteContest(h) PROVE Goal
  BY <1>14, ReturnFacts DEF DeleteContest, TInv, NoneReads, Exporting
<1>15. ASSUME NEW h \in Handlers, Discard(h) PROVE Goal
  BY <1>15, DiscardFacts DEF Discard, TInv, NoneReads, Exporting
<1>16. ASSUME NEW h \in Handlers, DeleteProblem(h) PROVE Goal
  BY <1>16, ReturnFacts DEF DeleteProblem, TInv, NoneReads, Exporting
<1>17. ASSUME NEW h \in Handlers, ExportEventFeed(h) PROVE Goal
  BY <1>17 DEF ExportReads
<1>18. ASSUME NEW h \in Handlers, ExportTeams(h) PROVE Goal
  BY <1>18 DEF ExportReads
<1>19. ASSUME NEW h \in Handlers, ExportRuns(h) PROVE Goal
  BY <1>19 DEF ExportReads
<1>20. ASSUME NEW h \in Handlers, SendFeed(h) PROVE Goal
  BY <1>20, ReturnFacts, EmptyFacts DEF SendFeed, TInv, NoneReads, Exporting
<1>21. ASSUME NEW h \in Handlers, Abort(h) PROVE Goal
  BY <1>21, ReturnFacts, EmptyFacts DEF Abort, TInv, NoneReads, Exporting
<1>22. CASE UNCHANGED vars
  BY <1>22 DEF vars, tables, NoneReads, Exporting
<1> QED
  BY <1>1, <1>2, <1>3, <1>4, <1>5, <1>6, <1>7, <1>8, <1>9, <1>10, <1>11, <1>12, <1>13,
     <1>14, <1>15, <1>16, <1>17, <1>18, <1>19, <1>20, <1>21, <1>22 DEF Next

\* The teams of a closed export are read before the submissions, and no submission to
\* the contest comes in between.
LEMMA NextFeedComplete == FInv /\ [Next]_vars => FeedComplete'
<1> DEFINE Complete(k) ==
              /\ call[k].op \in {"teams", "runs"} => feed.runs = {}
              /\ call[k].op = "runs" =>
                    \A s \in SubmissionsTo(call[k].c) : submissions[s].user \in feed.teams
              /\ call[k].op = "send" => \A r \in feed.runs : r.user \in feed.teams
<1> SUFFICES ASSUME FInv, [Next]_vars, NEW h \in Handlers, feed'.closed
             PROVE  Complete(h)'
  BY DEF FeedComplete
<1>0. TInv /\ ClosedIsOver /\ OneExport /\ FeedComplete /\ SubmissionsMove
  BY NextSubmissionsMove DEF FInv
<1>1. CASE NoneReads
  <2>1. CASE call'[h].op \notin Exporting
    BY <2>1 DEF Exporting
  <2>2. CASE call'[h].op \in Exporting
    <3>1. feed' = feed /\ call'[h] = call[h] /\ call[h].op \in Exporting /\ feed.closed
      BY <1>1, <2>2 DEF NoneReads
    <3>2. Complete(h)
      BY <3>1, <1>0 DEF FeedComplete
    <3>3. call[h].c # None /\ \A g \in Handlers : ~(call[g].op = "submit" /\ call[g].c = call[h].c)
      BY <3>1, <1>0 DEF ClosedIsOver, Submitting
    <3>4. ASSUME NEW s \in DOMAIN submissions', submissions'[s].contest = call[h].c
          PROVE  s \in SubmissionsTo(call[h].c) /\ submissions'[s].user = submissions[s].user
      BY <3>3, <3>4, <1>0 DEF SubmissionsMove, SubmissionsTo
    <3>5. call'[h].op = "runs" =>
             \A s \in DOMAIN submissions' :
                 submissions'[s].contest = call[h].c => submissions'[s].user \in feed.teams
      BY <3>1, <3>2, <3>4
    <3> QED
      BY <3>1, <3>2, <3>5 DEF SubmissionsTo
  <2> QED
    BY <2>1, <2>2
<1>2. ASSUME NEW k \in Handlers, ExportEventFeed(k) PROVE Complete(h)'
  <2>1. /\ \A j \in Handlers : j # k => call'[j] = call[j]
        /\ \A j \in Handlers : call[j].op \notin Exporting
        /\ call'[k].op = "teams" /\ feed'.runs = {}
    BY <1>0, <1>2, ExportEventFeedFacts DEF TInv
  <2>2. CASE h = k
    BY <2>1, <2>2
  <2>3. CASE h # k
    BY <2>1, <2>3 DEF Exporting
  <2> QED
    BY <2>2, <2>3
<1>3. ASSUME NEW k \in Handlers, ExportTeams(k) PROVE Complete(h)'
  <2>1. /\ \A j \in Handlers : j # k => call'[j] = call[j]
        /\ call[k].op = "teams" /\ call'[k].op = "runs" /\ call'[k].c = call[k].c
        /\ feed'.teams = ListContestTeams(call[k].c)
        /\ feed'.runs = feed.runs /\ feed'.closed = feed.closed
        /\ submissions' = submissions
    BY <1>0, <1>3, ExportTeamsFacts DEF TInv, ExportTeams, tables
  <2>2. CASE h = k
    <3>1. feed'.runs = {}
      BY <2>1, <2>2, <1>0 DEF FeedComplete
    <3>2. ASSUME NEW s \in SubmissionsTo(call[k].c) PROVE submissions[s].user \in feed'.teams
      <4>1. submissions[s].user \in Users
        BY <1>0 DEF TInv, SubmissionsOK, Submission, SubmissionsTo
      <4> QED
        BY <4>1, <2>1 DEF ListContestTeams
    <3> QED
      BY <2>1, <2>2, <3>1, <3>2 DEF SubmissionsTo
  <2>3. CASE h # k
    BY <2>1, <2>3, <1>0 DEF OneExport, Exporting
  <2> QED
    BY <2>2, <2>3
<1>4. ASSUME NEW k \in Handlers, ExportRuns(k) PROVE Complete(h)'
  <2>1. /\ \A j \in Handlers : j # k => call'[j] = call[j]
        /\ call[k].op = "runs" /\ call'[k].op = "send"
        /\ feed'.teams = feed.teams /\ feed'.closed = feed.closed
        /\ \A r \in feed'.runs : \/ r \in feed.runs
                                 \/ \E j \in SubmissionsTo(call[k].c) : r = submissions[j]
    BY <1>0, <1>4, ExportRunsFacts DEF TInv
  <2>2. CASE h = k
    <3>1. /\ feed.runs = {}
          /\ \A s \in SubmissionsTo(call[k].c) : submissions[s].user \in feed.teams
      BY <2>1, <2>2, <1>0 DEF FeedComplete
    <3>2. \A r \in feed'.runs : r.user \in feed'.teams
      BY <2>1, <3>1
    <3> QED
      BY <2>1, <2>2, <3>2
  <2>3. CASE h # k
    BY <2>1, <2>3, <1>0 DEF OneExport, Exporting
  <2> QED
    BY <2>2, <2>3
<1> QED
  BY <1>0, <1>1, <1>2, <1>3, <1>4, ReadersKept DEF ExportReads

\* The three together are an invariant.
LEMMA FeedInvariant == Spec => []FInv
<1>1. Init => FInv
  <2> SUFFICES ASSUME Init PROVE FInv
    OBVIOUS
  <2>1. TInv
    BY InitTypes
  <2>2. OneExport /\ ClosedIsOver /\ FeedComplete
    BY EmptyFacts DEF Init, OneExport, ClosedIsOver, FeedComplete, Exporting
  <2> QED
    BY <2>1, <2>2 DEF FInv
<1>2. FInv /\ [Next]_vars => FInv'
  BY NextTypes, NextOneExport, NextClosedIsOver, NextFeedComplete DEF FInv
<1> QED
  BY <1>1, <1>2, PTL DEF Spec

\* A feed exported once its contest is over and nobody is submitting any more names
\* every team its runs refer to, although teams and runs are read by separate queries
\* between which users register, contests are deleted and time goes on
\* (ExportEventFeed, ListContestTeams, ListForFeed).
THEOREM FeedTeamsKnownHolds == Spec => []FeedTeamsKnown
<1>1. FInv => FeedTeamsKnown
  BY DEF FInv, FeedComplete, FeedTeamsKnown
<1> QED
  BY <1>1, FeedInvariant, PTL

-----------------------------------------------------------------------------
\* What DeletionsAreWhole says of a step.
WholeStep ==
    \A s \in DOMAIN submissions :
        /\ s \notin DOMAIN submissions' => submissions[s].problem \notin DOMAIN problems'
        /\ s \in DOMAIN submissions' /\ submissions'[s].contest # submissions[s].contest
              => submissions[s].contest \notin DOMAIN contests'

\* Only DeleteContest and DeleteProblem take a submission away from what it refers to,
\* and they do it in the step that deletes what it refers to.
LEMMA NextDeletions ==
    TInv /\ [Next]_vars => WholeStep
<1> SUFFICES ASSUME TInv, [Next]_vars PROVE WholeStep
  OBVIOUS
<1>1. CASE CreateContest
  BY <1>1 DEF CreateContest, WholeStep
<1>2. CASE CreateProblem
  BY <1>2 DEF CreateProblem, WholeStep
<1>3. CASE Tick
  BY <1>3 DEF Tick, tables, WholeStep
<1>4. ASSUME NEW p \in ProblemIds, UpdateProblem(p) PROVE WholeStep
  BY <1>4 DEF UpdateProblem, WholeStep
<1>5. ASSUME NEW c \in ContestIds, NEW p \in ProblemIds, RemoveProblem(c, p) PROVE WholeStep
  BY <1>5 DEF RemoveProblem, WholeStep
<1>6. ASSUME NEW h \in Handlers, RegisterParticipant(h) PROVE WholeStep
  BY <1>6 DEF RegisterParticipant, tables, WholeStep
<1>7. ASSUME NEW h \in Handlers, Register(h) PROVE WholeStep
  BY <1>7 DEF Register, WholeStep
<1>8. ASSUME NEW h \in Handlers, AddProblem(h) PROVE WholeStep
  BY <1>8 DEF AddProblem, tables, WholeStep
<1>9. ASSUME NEW h \in Handlers, LinkProblem(h) PROVE WholeStep
  BY <1>9 DEF LinkProblem, WholeStep
<1>10. ASSUME NEW h \in Handlers, CreateContestProblem(h) PROVE WholeStep
  BY <1>10 DEF CreateContestProblem, WholeStep
<1>11. ASSUME NEW h \in Handlers, Submit(h) PROVE WholeStep
  BY <1>11 DEF Submit, tables, WholeStep
<1>12. ASSUME NEW h \in Handlers, Insert(h) PROVE WholeStep
  <2>1. fresh.submission \notin DOMAIN submissions
    <3>1. fresh.submission \in Nat /\ \A s \in DOMAIN submissions : s < fresh.submission
      BY DEF TInv, FreshOK, SubmissionsOK
    <3> QED
      BY <3>1
  <2> QED
    BY <1>12, <2>1 DEF Insert, With, WholeStep
<1>13. ASSUME NEW h \in Handlers, Detach(h) PROVE WholeStep
  BY <1>13 DEF Detach, tables, WholeStep
<1>14. ASSUME NEW h \in Handlers, DeleteContest(h) PROVE WholeStep
  <2>1. CASE submissions' = submissions
    BY <2>1 DEF WholeStep
  <2>2. CASE /\ submissions' = Detached(SubmissionsTo(call[h].c))
             /\ contests' = Without(contests, {call[h].c})
    <3>1. DOMAIN submissions' = DOMAIN submissions /\ call[h].c \notin DOMAIN contests'
      BY <2>2 DEF Detached, Without
    <3>2. \A s \in DOMAIN submissions :
             s \notin SubmissionsTo(call[h].c) => submissions'[s] = submissions[s]
      BY <2>2 DEF Detached
    <3>3. \A s \in SubmissionsTo(call[h].c) : submissions[s].contest = call[h].c
      BY DEF SubmissionsTo
    <3> QED
      BY <3>1, <3>2, <3>3 DEF WholeStep
  <2> QED
    BY <1>14, <2>1, <2>2 DEF DeleteContest
<1>15. ASSUME NEW h \in Handlers, Discard(h) PROVE WholeStep
  BY <1>15 DEF Discard, tables, WholeStep
<1>16. ASSUME NEW h \in Handlers, DeleteProblem(h) PROVE WholeStep
  <2>1. CASE submissions' = submissions
    BY <2>1 DEF WholeStep
  <2>2. CASE /\ submissions' = Without(submissions, SubmissionsOf(call[h].p))
             /\ problems' = Without(problems, {call[h].p})
    BY <2>2 DEF Without, SubmissionsOf, WholeStep
  <2> QED
    BY <1>16, <2>1, <2>2 DEF DeleteProblem
<1>17. ASSUME NEW h \in Handlers, ExportEventFeed(h) PROVE WholeStep
  BY <1>17 DEF ExportEventFeed, tables, WholeStep
<1>18. ASSUME NEW h \in Handlers, ExportTeams(h) PROVE WholeStep
  BY <1>18 DEF ExportTeams, tables, WholeStep
<1>19. ASSUME NEW h \in Handlers, ExportRuns(h) PROVE WholeStep
  BY <1>19 DEF ExportRuns, tables, WholeStep
<1>20. ASSUME NEW h \in Handlers, SendFeed(h) PROVE WholeStep
  BY <1>20 DEF SendFeed, tables, WholeStep
<1>21. ASSUME NEW h \in Handlers, Abort(h) PROVE WholeStep
  BY <1>21 DEF Abort, tables, WholeStep
<1>22. CASE UNCHANGED vars
  BY <1>22 DEF vars, tables, WholeStep
<1> QED
  BY <1>1, <1>2, <1>3, <1>4, <1>5, <1>6, <1>7, <1>8, <1>9, <1>10, <1>11, <1>12, <1>13,
     <1>14, <1>15, <1>16, <1>17, <1>18, <1>19, <1>20, <1>21, <1>22 DEF Next

\* Deletions are all or nothing, whatever is submitted between their statements: a
\* submission leaves its contest only with the contest and disappears only with its
\* problem (ContestRepo.Delete, ProblemRepo.DeleteProblem).
THEOREM DeletionsAreWholeHolds == Spec => DeletionsAreWhole
<1>1. TInv /\ [Next]_vars => [WholeStep]_vars
  BY NextDeletions
<1>2. Spec => [][WholeStep]_vars
  BY <1>1, TypesInvariant, PTL DEF Spec
<1> QED
  BY <1>2 DEF DeletionsAreWhole, WholeStep

=============================================================================
