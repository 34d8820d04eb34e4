---------------------------- MODULE IcpcStrategy ----------------------------
(***************************************************************************)
(* The ICPC scoring rules of internal/core/contest/strategy_icpc.go: how   *)
(* one judged submission changes the (user, problem) entry, how frozen     *)
(* results are revealed, how entries are ranked.  All operators are pure.  *)
(*                                                                         *)
(* A time is a number of seconds since the start of the contest.           *)
(***************************************************************************)
EXTENDS Naturals, Sequences, FiniteSets

CONSTANTS
    FreezeTime,        \* Contest.FreezeTime; submissions from then on are frozen
    PenaltyMinutes,    \* ContestSettings.PenaltyMinutes
    CENoPenalty,       \* ContestSettings.CENoPenalty
    SecondsPerMinute   \* 60, or less to keep the times of an instance small

ASSUME RulesAssumption ==
    /\ FreezeTime \in Nat
    /\ PenaltyMinutes \in Nat
    /\ CENoPenalty \in BOOLEAN
    /\ SecondsPerMinute \in Nat \ {0}

Verdicts == {"AC", "WA", "TLE", "MLE", "RE", "CE", "SE"}

ScoreEntry ==
    [Accepted : BOOLEAN, Penalty : Nat, AttemptCount : Nat,
     WrongAttemptCount : Nat, BestSubmitTime : Nat, FrozenAttempts : Nat,
     IsPending : BOOLEAN, FrozenResults : Seq([Status : Verdicts, SubmitTime : Nat])]

\* cloneOrNew without a previous entry.
NewEntry ==
    [Accepted |-> FALSE, Penalty |-> 0, AttemptCount |-> 0,
     WrongAttemptCount |-> 0, BestSubmitTime |-> 0, FrozenAttempts |-> 0,
     IsPending |-> FALSE, FrozenResults |-> <<>>]

-----------------------------------------------------------------------------
\* Mutant: a submission made at the freeze counts as made before it.
isPostFreezeLate(t) == t > FreezeTime

isPostFreeze(t) == t >= FreezeTime

\* Mutant: the contest's CE policy is not read.
ignoreCENever(status) == FALSE

ignoreCE(status) == status = "CE" /\ CENoPenalty

elapsedMins(t) == t \div SecondsPerMinute

\* Mutant: earlier frozen results survive.
SolveKeepsFrozen(e, t) ==
    [e EXCEPT !.Accepted = TRUE,
              !.BestSubmitTime = t,
              !.Penalty = elapsedMins(t) + e.WrongAttemptCount * PenaltyMinutes]

\* e is solved at time t: the frozen results, if any, become moot.
Solve(e, t) ==
    [e EXCEPT !.Accepted = TRUE,
              !.IsPending = FALSE,
              !.FrozenAttempts = 0,
              !.FrozenResults = <<>>,
              !.BestSubmitTime = t,
              !.Penalty = elapsedMins(t) + e.WrongAttemptCount * PenaltyMinutes]

\* Mutant: the cell is not marked pending.
FreezeUnmarked(event, e) ==
    [e EXCEPT !.FrozenAttempts = @ + 1, !.FrozenResults = Append(@, event)]

\* The submission stays hidden until the contest is revealed.
Freeze(event, e) ==
    [e EXCEPT !.FrozenAttempts = @ + 1,
              !.IsPending = TRUE,
              !.FrozenResults = Append(@, event)]

Attempt(event, e) ==
    LET tried == [e EXCEPT !.AttemptCount = @ + 1]
    IN  IF event.Status = "AC"
        THEN Solve(tried, event.SubmitTime)
        ELSE [tried EXCEPT !.WrongAttemptCount =
                               IF ignoreCE(event.Status) THEN @ ELSE @ + 1]

Apply(event, e) ==
    IF e.Accepted THEN e
    ELSE IF isPostFreeze(event.SubmitTime) THEN Freeze(event, e)
    ELSE Attempt(event, e)

\* The first frozen result goes on the board.
RevealNext(e) ==
    LET frozen == Head(e.FrozenResults)
        left   == IF e.FrozenAttempts = 0 THEN 0 ELSE e.FrozenAttempts - 1
        popped == [e EXCEPT !.FrozenResults = Tail(@),
                            !.FrozenAttempts = left,
                            !.IsPending = @ /\ left > 0]
    IN  IF e.FrozenResults = <<>> THEN e
        ELSE IF frozen.Status = "AC" THEN Solve(popped, frozen.SubmitTime)
        ELSE [popped EXCEPT !.WrongAttemptCount = @ + 1, !.AttemptCount = @ + 1]

\* The loop of rebuildSnapshot: RevealNext until nothing is frozen.
RevealAll(e) ==
    LET after[k \in 0 .. Len(e.FrozenResults)] ==
            IF k = 0 THEN e ELSE RevealNext(after[k - 1])
    IN  after[Len(e.FrozenResults)]

-----------------------------------------------------------------------------
\* Rank.  A row is [TotalScore, TotalPenalty, LastACTime]; users are numbers.

SumOver(f, S) ==
    LET sum[T \in SUBSET S] ==
            IF T = {} THEN 0
            ELSE LET x == CHOOSE x \in T : TRUE IN f[x] + sum[T \ {x}]
    IN  sum[S]

\* aggregateUsers: the row of a user, from the entries E of its problems.
aggregateUsers(E) ==
    LET solved == {p \in DOMAIN E : E[p].Accepted}
        times  == {0} \cup {E[p].BestSubmitTime : p \in solved}
    IN  [TotalScore   |-> Cardinality(solved),
         TotalPenalty |-> SumOver([p \in solved |-> E[p].Penalty], solved),
         LastACTime   |-> CHOOSE t \in times : \A x \in times : x <= t]

\* The three keys of the ranking, without the user id.
Better(a, b) ==
    \/ a.TotalScore > b.TotalScore
    \/ /\ a.TotalScore = b.TotalScore
       /\ \/ a.TotalPenalty < b.TotalPenalty
          \/ /\ a.TotalPenalty = b.TotalPenalty
             /\ a.LastACTime < b.LastACTime

\* The order of sort.Slice: rows[u] before rows[v].
Before(rows, u, v) == Better(rows[u], rows[v]) \/ (rows[u] = rows[v] /\ u < v)

\* Mutant: tied rows do not share a rank.
assignRanksUnshared(rows) ==
    [u \in DOMAIN rows |-> 1 + Cardinality({v \in DOMAIN rows : Before(rows, v, u)})]

\* assignRanks: a row tied with the one before it shares that one's rank.
assignRanks(rows) ==
    LET place(u)  == 1 + Cardinality({v \in DOMAIN rows : Before(rows, v, u)})
        sorted    == [i \in 1 .. Cardinality(DOMAIN rows) |->
                         CHOOSE u \in DOMAIN rows : place(u) = i]
        rank[i \in DOMAIN sorted] ==
            IF i = 1 \/ rows[sorted[i - 1]] # rows[sorted[i]] THEN i ELSE rank[i - 1]
    IN  [u \in DOMAIN rows |-> rank[place(u)]]

-----------------------------------------------------------------------------
\* The resolver's event feed (internal/api/handler/resolver.go) as reference: a
\* run counts as a wrong attempt as mapResult says, and the Resolver charges the
\* wrong attempts made before the first accepted one.

\* The feed reads its settings from a contest that ContestRepo.GetByID loaded, and
\* scanContest leaves Settings empty: the feed always works with the defaults.
FeedSettings == [PenaltyMinutes |-> 20, CENoPenalty |-> TRUE]

mapResultPenalty(status) ==
    \/ status \in {"WA", "TLE", "MLE", "RE"}
    \/ status = "CE" /\ ~FeedSettings.CENoPenalty

\* The score of the runs E, a set of [Status, SubmitTime], of one cell.
FeedScore(E) ==
    LET ac    == {e.SubmitTime : e \in {x \in E : x.Status = "AC"}}
        first == CHOOSE t \in ac : \A x \in ac : t <= x
        wrong == {e \in E : /\ mapResultPenalty(e.Status)
                            /\ ac = {} \/ e.SubmitTime < first}
    IN  [solved  |-> ac # {},
         wrong   |-> Cardinality(wrong),
         penalty |-> IF ac = {} THEN 0
                     ELSE elapsedMins(first) + Cardinality(wrong) * FeedSettings.PenaltyMinutes]
=============================================================================
