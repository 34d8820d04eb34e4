------------------------------ MODULE Ranking -------------------------------
(***************************************************************************)
(* The live scoreboard of one ICPC contest: internal/core/ranking's        *)
(* RankingService inside the API server.  Its consumer goroutine reads     *)
(* oj:judge:results with the group "ranker", merges every result into the  *)
(* (user, problem) entry in Redis and rebuilds the board; RevealContest,   *)
(* called by an HTTP handler, sets the reveal flag and rebuilds the board  *)
(* too.  The two goroutines share nothing but Redis.                       *)
(*                                                                         *)
(* A submission is a record of a constant set; its verdict is chosen when  *)
(* its result is published.  Left out: usernames, labels, the time of day  *)
(* behind the board's "frozen" badge, and contest types other than ICPC.   *)
(***************************************************************************)
EXTENDS IcpcStrategy

CONSTANTS
    Contest,        \* the contest's submissions: [user, problem, time]
    Practice,       \* submissions outside any contest
    Statuses,       \* Statuses[s]: the verdicts the judging of s may end with
    PendingBatch, StreamMaxLen,
    Faults,         \* the kinds of faults that may happen
    MaxFaults,      \* how many faults may happen altogether
    MaxReveals,     \* how many times an administrator reveals the contest
    MaxBacklog      \* how many results may be published ahead of the ranker

ASSUME ContestAssumption ==
    /\ Contest \subseteq [user : Nat, problem : Nat, time : Nat]
    /\ Contest \cap Practice = {}
    /\ Statuses \in [Contest \cup Practice -> SUBSET Verdicts]
    /\ {PendingBatch, StreamMaxLen} \subseteq Nat \ {0}
    /\ {MaxFaults, MaxReveals, MaxBacklog} \subseteq Nat

VARIABLES
    results, group, at, cur, batch, full,   \* the stream and the ranker's loop
    entries,    \* Redis hash: partial function from cells to ScoreEntry
    revealed,   \* Redis key: the reveal flag
    snapshot,   \* Redis key: the latest stored board
    api,        \* the API server process: "up" or "down"
    apiName,    \* number of host names it has used
    step,       \* step[p]: where goroutine p is in its handler
    view,       \* view[p]: what p's rebuildSnapshot has read so far
    reveal,     \* outcome of the latest RevealContest
    reveals,    \* reveals begun so far
    applied,    \* history: the results merged into entries, in order
    raced,      \* history: two rebuilds have overlapped
    budget      \* faults left

streamVars == <<results, group, at, cur, batch, full>>

boardVars == <<entries, revealed, snapshot>>

stepVars == <<step, view>>

adminVars == <<reveal, reveals>>

apiVars == <<api, apiName>>

history == <<applied, raced>>

vars == <<streamVars, boardVars, stepVars, adminVars, apiVars, history, budget>>

Ranker == "ranker"

Admin == "admin"

Goroutines == {Ranker, Admin}

ResultQ == INSTANCE StreamConsumer WITH
               Procs <- {Ranker}, log <- results, grp <- group

-----------------------------------------------------------------------------
Submissions == Contest \cup Practice

Result == [sub : Submissions, status : Verdicts]

\* entryField: the hash field of a submission.
Cell(s) == <<s.user, s.problem>>

Cells == {Cell(s) : s \in Contest}

Event(r) == [Status |-> r.status, SubmitTime |-> r.sub.time]

Message == results.msgs[cur[Ranker]]

RankerName == <<"ranking", apiName>>

Fault(kind) == kind \in Faults /\ budget > 0 /\ budget' = budget - 1

Goto(p, st) == step' = [step EXCEPT ![p] = st]

Rebuilding(p) == step[p] \in {"load", "flag", "store"}

-----------------------------------------------------------------------------
\* rebuildSnapshot, the computation.

\* assignFirstBlood: the earliest accepted entry of each problem, the smaller
\* user id among equals.
assignFirstBlood(E) ==
    {c \in DOMAIN E :
        /\ E[c].Accepted
        /\ \A d \in DOMAIN E :
              E[d].Accepted /\ d[2] = c[2] /\ d # c =>
                  \/ E[c].BestSubmitTime < E[d].BestSubmitTime
                  \/ E[c].BestSubmitTime = E[d].BestSubmitTime /\ c[1] < d[1]}

BoardRows(E) ==
    [u \in {c[1] : c \in DOMAIN E} |->
        aggregateUsers([p \in {c[2] : c \in {d \in DOMAIN E : d[1] = u}} |->
                            E[<<u, p>>]])]

\* The entries as the board shows them.
Shown(E, isRevealed) ==
    IF isRevealed THEN [c \in DOMAIN E |-> RevealAll(E[c])] ELSE E

BoardCells(E) ==
    [c \in DOMAIN E |->
        [Solved     |-> E[c].Accepted,
         Attempts   |-> E[c].WrongAttemptCount,
         Pending    |-> E[c].FrozenAttempts,
         Penalty    |-> E[c].Penalty,
         FirstBlood |-> c \in assignFirstBlood(E)]]

Board(E, isRevealed) ==
    LET shown == Shown(E, isRevealed)
        rows  == BoardRows(shown)
    IN  [revealed |-> isRevealed,
         cells    |-> BoardCells(shown),
         rows     |-> rows,
         rank     |-> assignRanks(rows)]

EmptyView == [entries |-> <<>>, revealed |-> FALSE]

NoBoard == Board(<<>>, FALSE)

-----------------------------------------------------------------------------
\* The judgers: results appear in any order, under "rejudge" more than once.
Judge(s) ==
    /\ Len(results.msgs) + 1 < group.next + MaxBacklog
    /\ \/ /\ \A k \in DOMAIN results.msgs : results.msgs[k].sub # s
          /\ UNCHANGED budget
       \/ Fault("rejudge")
    /\ \E st \in Statuses[s] : ResultQ!Publish([sub |-> s, status |-> st])
    /\ UNCHANGED <<group, at, cur, batch, full, boardVars, stepVars, adminVars,
                   apiVars, history>>

-----------------------------------------------------------------------------
\* Subscribe, called by Run.

\* An entry handed to dispatch starts handleResult.
StartHandling ==
    step' = [step EXCEPT ![Ranker] = IF at'[Ranker] = "handle" THEN "apply" ELSE "none"]

EnsureGroup ==
    /\ ResultQ!EnsureGroup(Ranker)
    /\ UNCHANGED <<boardVars, stepVars, adminVars, apiVars, history, budget>>

DrainPending ==
    /\ ResultQ!DrainPending(Ranker, RankerName)
    /\ StartHandling
    /\ UNCHANGED <<boardVars, view, adminVars, apiVars, history, budget>>

DrainPendingFails ==
    /\ ResultQ!DrainPendingFails(Ranker)
    /\ Fault("redis")
    /\ UNCHANGED <<boardVars, stepVars, adminVars, apiVars, history>>

XReadGroup ==
    /\ ResultQ!XReadGroup(Ranker, RankerName)
    /\ StartHandling
    /\ UNCHANGED <<boardVars, view, adminVars, apiVars, history, budget>>

XReadGroupLost ==
    /\ ResultQ!XReadGroupLost(Ranker, RankerName)
    /\ Fault("redis")
    /\ UNCHANGED <<boardVars, stepVars, adminVars, apiVars, history>>

XAck ==
    /\ ResultQ!XAck(Ranker)
    /\ StartHandling
    /\ UNCHANGED <<boardVars, view, adminVars, apiVars, history, budget>>

XAckFails ==
    /\ ResultQ!XAckFails(Ranker)
    /\ Fault("redis")
    /\ StartHandling
    /\ UNCHANGED <<boardVars, view, adminVars, apiVars, history>>

-----------------------------------------------------------------------------
\* handleResult and processContestResult.

\* The handler returns nil to dispatch.
HandlerDone == ResultQ!HandlerDone(Ranker) /\ Goto(Ranker, "none")

\* Mutant: the error is logged and the entry acknowledged.
HandlerFailsAcked == HandlerDone /\ UNCHANGED <<group, cur, batch, full>>

\* The handler returns an error to dispatch.
HandlerFails == ResultQ!HandlerFails(Ranker) /\ StartHandling

\* A practice result is acknowledged and ignored.
SkipPractice ==
    /\ step[Ranker] = "apply"
    /\ Message.sub \in Practice
    /\ HandlerDone
    /\ UNCHANGED <<results, group, cur, batch, full, boardVars, view, adminVars,
                   apiVars, history, budget>>

\* HGET, Apply, HSET: the entry of the result's cell, or a new one, is replaced.
HSet(prev) ==
    LET cell == Cell(Message.sub)
    IN  /\ entries' = [c \in DOMAIN entries \cup {cell} |->
                          IF c = cell THEN Apply(Event(Message), prev) ELSE entries[c]]
        /\ applied' = Append(applied, Message)

Prev ==
    IF Cell(Message.sub) \in DOMAIN entries THEN entries[Cell(Message.sub)]
    ELSE NewEntry

\* Nobody else writes entries, so reading and writing is one step.  An HGET that
\* fails for whatever reason reads as "no entry yet".
ApplyResult ==
    /\ step[Ranker] = "apply"
    /\ Message.sub \in Contest
    /\ \/ HSet(Prev) /\ UNCHANGED budget
       \/ HSet(NewEntry) /\ Fault("hget")
    /\ Goto(Ranker, "load")
    /\ raced' = (raced \/ Rebuilding(Admin))
    /\ UNCHANGED <<streamVars, revealed, snapshot, view, adminVars, apiVars>>

\* Loading the contest fails, or HSET reports an error, with or without effect.
ApplyFails ==
    /\ step[Ranker] = "apply"
    /\ Message.sub \in Contest
    /\ \/ Fault("redis") /\ HSet(Prev)
       \/ Fault("db") /\ UNCHANGED <<entries, applied>>
    /\ HandlerFails
    /\ UNCHANGED <<results, revealed, snapshot, view, adminVars, apiVars, raced>>

-----------------------------------------------------------------------------
\* rebuildSnapshot and publishSnapshot, run by the ranker or by RevealContest.

\* HGETALL.
LoadEntries(p) ==
    /\ step[p] = "load"
    /\ view' = [view EXCEPT ![p].entries = entries]
    /\ Goto(p, "flag")
    /\ UNCHANGED <<streamVars, boardVars, adminVars, apiVars, history, budget>>

\* EXISTS; its error is ignored and reads as "not revealed".
ReadFlag(p) ==
    /\ step[p] = "flag"
    /\ \/ /\ view' = [view EXCEPT ![p].revealed = revealed]
          /\ UNCHANGED budget
       \/ /\ view' = [view EXCEPT ![p].revealed = FALSE]
          /\ Fault("exists")
    /\ Goto(p, "store")
    /\ UNCHANGED <<streamVars, boardVars, adminVars, apiVars, history>>

\* The board is computed and SET.
StoreSnapshot(p) ==
    /\ step[p] = "store"
    /\ snapshot' = Board(view[p].entries, view[p].revealed)
    /\ Goto(p, "publish")
    /\ UNCHANGED <<streamVars, entries, revealed, view, adminVars, apiVars,
                   history, budget>>

\* HGETALL, the loading of labels and names, or SET fails.
RebuildFails(p) ==
    /\ \/ step[p] = "load" /\ Fault("redis") /\ UNCHANGED snapshot
       \/ step[p] = "store" /\ Fault("db") /\ UNCHANGED snapshot
       \/ /\ step[p] = "store"
          /\ Fault("redis")
          /\ snapshot' = Board(view[p].entries, view[p].revealed)
    /\ \/ p = Ranker /\ HandlerFails /\ UNCHANGED <<results, reveal>>
       \/ /\ p = Admin
          /\ Goto(Admin, "none")
          /\ reveal' = "failed"
          /\ UNCHANGED streamVars
    /\ view' = [view EXCEPT ![p] = EmptyView]
    /\ UNCHANGED <<entries, revealed, reveals, apiVars, history>>

\* PUBLISH of the stored board on the WebSocket channel; the ranker only logs a
\* failure, RevealContest reports it.
PublishSnapshot(p) ==
    /\ step[p] = "publish"
    /\ \/ /\ reveal' = IF p = Admin THEN "done" ELSE reveal
          /\ UNCHANGED budget
       \/ /\ Fault("redis")
          /\ reveal' = IF p = Admin THEN "failed" ELSE reveal
    /\ \/ /\ p = Ranker
          /\ HandlerDone
          /\ UNCHANGED <<results, group, cur, batch, full>>
       \/ p = Admin /\ Goto(Admin, "none") /\ UNCHANGED streamVars
    /\ view' = [view EXCEPT ![p] = EmptyView]
    /\ UNCHANGED <<entries, revealed, snapshot, reveals, apiVars, history>>

-----------------------------------------------------------------------------
\* RevealContest up to its rebuild: SET of the flag (with or without effect when
\* it fails), then the contest is loaded.
RevealContest ==
    /\ api = "up"
    /\ step[Admin] = "none"
    /\ reveals < MaxReveals
    /\ reveals' = reveals + 1
    /\ \/ /\ revealed' = TRUE
          /\ reveal' = "running"
          /\ Goto(Admin, "load")
          /\ raced' = (raced \/ Rebuilding(Ranker))
          /\ UNCHANGED budget
       \/ /\ Fault("redis")
          /\ revealed' \in {revealed, TRUE}
          /\ reveal' = "failed"
          /\ UNCHANGED <<step, raced>>
    /\ UNCHANGED <<streamVars, entries, snapshot, view, apiVars, applied>>

-----------------------------------------------------------------------------
\* The API server process ends, in whatever way, and is started again.
ApiEnds ==
    /\ api = "up"
    /\ Fault("apicrash")
    /\ api' = "down"
    /\ ResultQ!Die({Ranker})
    /\ step' = [p \in Goroutines |-> "none"]
    /\ view' = [p \in Goroutines |-> EmptyView]
    /\ reveal' = IF reveal = "running" THEN "failed" ELSE reveal
    /\ UNCHANGED <<boardVars, reveals, apiName, history>>

ApiRestarts ==
    /\ api = "down"
    /\ api' = "up"
    /\ \/ UNCHANGED <<apiName, budget>>
       \/ Fault("apirename") /\ apiName' = apiName + 1
    /\ ResultQ!Launch({Ranker})
    /\ UNCHANGED <<boardVars, stepVars, adminVars, history>>

-----------------------------------------------------------------------------
Init ==
    /\ ResultQ!StreamInit
    /\ entries = <<>>
    /\ revealed = FALSE
    /\ snapshot = NoBoard
    /\ api = "up"
    /\ apiName = 0
    /\ step = [p \in Goroutines |-> "none"]
    /\ view = [p \in Goroutines |-> EmptyView]
    /\ reveal = "idle"
    /\ reveals = 0
    /\ applied = <<>>
    /\ raced = FALSE
    /\ budget = MaxFaults

RankerStep ==
    \/ EnsureGroup \/ DrainPending \/ DrainPendingFails \/ XReadGroup
    \/ XReadGroupLost \/ XAck \/ XAckFails
    \/ SkipPractice \/ ApplyResult \/ ApplyFails

Rebuild(p) ==
    \/ LoadEntries(p) \/ ReadFlag(p) \/ StoreSnapshot(p) \/ RebuildFails(p)
    \/ PublishSnapshot(p)

Next ==
    \/ \E s \in Submissions : Judge(s)
    \/ RankerStep
    \/ \E p \in Goroutines : Rebuild(p)
    \/ RevealContest
    \/ ApiEnds \/ ApiRestarts

Spec == Init /\ [][Next]_vars

-----------------------------------------------------------------------------
\* Properties.

\* Every variable keeps its type, and an entry's frozen counters agree with the
\* list of its frozen results.
TypeOK ==
    /\ ResultQ!StreamTypeOK(Result, {"ranking"} \X Nat)
    /\ DOMAIN entries \subseteq Cells
    /\ \A c \in DOMAIN entries :
          /\ entries[c] \in ScoreEntry
          /\ entries[c].FrozenAttempts = Len(entries[c].FrozenResults)
          /\ entries[c].IsPending <=> entries[c].FrozenAttempts > 0
    /\ revealed \in BOOLEAN
    /\ api \in {"up", "down"}
    /\ step \in [Goroutines -> {"none", "apply", "load", "flag", "store", "publish"}]
    /\ reveal \in {"idle", "running", "done", "failed"}
    /\ budget \in 0 .. MaxFaults

Visible(cell) == [Solved |-> cell.Solved, Attempts |-> cell.Attempts,
                  Penalty |-> cell.Penalty]

\* What the first k merged results put in cell c of an unrevealed board: those of
\* them that were made before the freeze, merged one after the other.
Merged(c, k) ==
    LET e[i \in 0 .. k] ==
            IF i = 0 THEN NewEntry
            ELSE IF Cell(applied[i].sub) = c /\ applied[i].sub.time < FreezeTime
                 THEN Apply(Event(applied[i]), e[i - 1])
                 ELSE e[i - 1]
    IN  [Solved |-> e[k].Accepted, Attempts |-> e[k].WrongAttemptCount,
         Penalty |-> e[k].Penalty]

\* The stored board gives away nothing about frozen submissions before the reveal:
\* for some prefix of the merged results, every cell is what the submissions of
\* that prefix made before the freeze add up to.
FreezeHides ==
    ~revealed =>
    \E k \in 0 .. Len(applied) :
        \A c \in DOMAIN snapshot.cells : Visible(snapshot.cells[c]) = Merged(c, k)

\* The merged results of cell c, by their places in applied.
AppliedTo(c) == {i \in DOMAIN applied : Cell(applied[i].sub) = c}

InOrder(c) ==
    \A i, j \in AppliedTo(c) : i < j => applied[i].sub.time < applied[j].sub.time

EventsOf(c) == {Event(applied[i]) : i \in AppliedTo(c)}

RevealedScore(c) ==
    LET e == RevealAll(entries[c])
    IN  [solved |-> e.Accepted, wrong |-> e.WrongAttemptCount, penalty |-> e.Penalty]

\* Revealed, a cell is worth what the resolver's feed makes of the same
\* submissions, provided they were merged once each and in the order they were
\* made, none of them ended in a SystemError, no exempt CE was frozen and the
\* contest has the default settings, the only ones the feed knows.
RevealFollowsRules ==
    \A c \in DOMAIN entries :
        /\ FeedSettings = [PenaltyMinutes |-> PenaltyMinutes, CENoPenalty |-> CENoPenalty]
        /\ InOrder(c)
        /\ \A e \in EventsOf(c) :
              /\ e.Status # "SE"
              /\ e.SubmitTime >= FreezeTime => ~ignoreCE(e.Status)
        => RevealedScore(c) = FeedScore(EventsOf(c))

\* The reveal only adds to the board, in whatever order the results came in: a
\* cell solved before the reveal keeps its penalty, its attempts and its first
\* blood.
RevealOnlyAdds ==
    LET before == BoardCells(Shown(entries, FALSE))
        after  == BoardCells(Shown(entries, TRUE))
    IN  \A c \in DOMAIN entries : before[c].Solved => after[c] = before[c]

\* Once every delivered result is acknowledged and no reveal is under way, failed
\* or has overlapped with another rebuild, the stored board is the one the
\* entries and the flag call for: no crash or failed rebuild is lost.
BoardCatchesUp ==
    /\ at[Ranker] = "poll"
    /\ group.pel = {}
    /\ reveal \in {"idle", "done"}
    /\ ~raced
    => snapshot = Board(entries, revealed)

\* Standard competition ranking on every stored board: a user's rank is one more
\* than the number of users with a better score.
RankIsStandard ==
    \A u \in DOMAIN snapshot.rows :
        snapshot.rank[u] =
            1 + Cardinality({v \in DOMAIN snapshot.rows :
                                Better(snapshot.rows[v], snapshot.rows[u])})

\* strategy_icpc.go, "Accepted (pre-freeze) -> immutable".
AcceptedIsKept ==
    \A i \in DOMAIN applied :
        applied[i].status = "AC" /\ ~isPostFreeze(applied[i].sub.time)
            => entries[Cell(applied[i].sub)].Accepted
=============================================================================
