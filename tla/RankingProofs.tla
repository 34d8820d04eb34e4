--------------------------- MODULE RankingProofs ----------------------------
(***************************************************************************)
(* Proofs about Ranking for any submissions and verdicts, any settings of  *)
(* the contest, any numbers of faults and reveals.                         *)
(***************************************************************************)
EXTENDS Ranking, FiniteSetTheorems, TLAPS

LoopStates == {"off", "subscribe", "drain", "poll", "handle", "ack", "returned"}

Steps == {"none", "apply", "load", "flag", "store", "publish"}

Names == {"ranking"} \X Nat

\* The tables of score entries.
Tables == UNION {[D -> ScoreEntry] : D \in SUBSET Cells}

Pending == ResultQ!PendingIds(group)

LogOK == results \in [msgs : Seq(Result), first : Nat] /\ results.first >= 1

GroupOK ==
    /\ group \in [next : Nat, pel : SUBSET [id : Nat, owner : Names]]
    /\ group.next >= 1
    /\ \A e \in group.pel : e.id \in 1 .. Len(results.msgs)

LoopOK ==
    /\ at \in [{Ranker} -> LoopStates] /\ cur \in [{Ranker} -> Nat]
    /\ batch \in [{Ranker} -> SUBSET Nat] /\ full \in [{Ranker} -> BOOLEAN]

\* The entries the ranker has claimed are pending, and each is handled once.
HeldOK ==
    /\ batch[Ranker] \subseteq Pending
    /\ IF at[Ranker] \in {"handle", "ack"}
       THEN cur[Ranker] \in Pending \ batch[Ranker]
       ELSE batch[Ranker] = {}

\* The ranker is in its handler exactly when dispatch has called it, the other
\* goroutine exactly while a reveal is running.
StepOK ==
    /\ step \in [Goroutines -> Steps]
    /\ step[Ranker] # "none" <=> at[Ranker] = "handle"
    /\ step[Admin] # "apply"
    /\ step[Admin] # "none" <=> reveal = "running"
    /\ api = "down" => at[Ranker] = "off" /\ step[Admin] = "none"

FlagsOK == revealed \in BOOLEAN /\ raced \in BOOLEAN

ServerOK ==
    /\ api \in {"up", "down"} /\ apiName \in Nat
    /\ reveal \in {"idle", "running", "done", "failed"}

BudgetOK == budget \in 0 .. MaxFaults

\* What a solved cell shows was decided before the freeze, and what it has frozen
\* came after it.
EntryOK(e) ==
    /\ e \in ScoreEntry
    /\ e.FrozenAttempts = Len(e.FrozenResults)
    /\ e.IsPending <=> e.FrozenAttempts > 0
    /\ e.Accepted => e.FrozenResults = <<>> /\ e.BestSubmitTime < FreezeTime
    /\ \A i \in 1 .. Len(e.FrozenResults) : e.FrozenResults[i].SubmitTime >= FreezeTime

CellsOK == entries \in Tables /\ \A c \in DOMAIN entries : EntryOK(entries[c])

ViewOK == view \in [Goroutines -> [entries : Tables, revealed : BOOLEAN]]

AppliedOK == applied \in Seq([sub : Contest, status : Verdicts])

\* Only the result of a contest's submission is merged.
MessageOK == step[Ranker] \notin {"none", "apply"} => Message.sub \in Contest

TInv ==
    /\ LogOK /\ GroupOK /\ LoopOK /\ HeldOK /\ StepOK /\ FlagsOK /\ ServerOK
    /\ BudgetOK /\ CellsOK /\ ViewOK /\ AppliedOK /\ MessageOK

-----------------------------------------------------------------------------
\* A result of the contest is pending and its board is still to be stored.
Unsettled(k) ==
    /\ results.msgs[k].sub \in Contest
    /\ ~(k = cur[Ranker] /\ (step[Ranker] = "publish" \/ at[Ranker] = "ack"))

Covered == \E k \in Pending : Unsettled(k)

Current == snapshot = Board(entries, revealed)

NoOverlap == ~(Rebuilding(Ranker) /\ Rebuilding(Admin))

\* Nobody but the ranker changes the entries it has loaded.
RankerView ==
    /\ step[Ranker] \in {"flag", "store"} => view[Ranker].entries = entries
    /\ step[Ranker] = "store" /\ reveal # "failed" => view[Ranker].revealed = revealed

\* Once a reveal is running the flag is set.
AdminView ==
    /\ step[Admin] # "none" => revealed
    /\ step[Admin] \in {"flag", "store"} => view[Admin].entries = entries \/ Covered
    /\ step[Admin] = "store" => view[Admin].revealed = TRUE

BoardFollows ==
    reveal \in {"idle", "done"} \/ step[Admin] = "publish" => Current \/ Covered

\* All this as long as no rebuilds overlapped and the stream was not trimmed.
Undisturbed == ~raced /\ results.first = 1

BInv ==
    TInv /\ (Undisturbed => NoOverlap /\ RankerView /\ AdminView /\ BoardFollows)

-----------------------------------------------------------------------------
\* What an entry shows on an unrevealed board.
Score(e) == [Solved |-> e.Accepted, Attempts |-> e.WrongAttemptCount, Penalty |-> e.Penalty]

\* The entries E show what the first k merged results made before the freeze add up to.
ShowsPrefix(E, k) == \A c \in DOMAIN E : Score(E[c]) = Merged(c, k)

EntriesMerged ==
    \A c \in Cells :
        Merged(c, Len(applied)) = Score(IF c \in DOMAIN entries THEN entries[c] ELSE NewEntry)

ViewsMerged ==
    \A p \in Goroutines :
        /\ step[p] \in {"flag", "store"} =>
              \E k \in 0 .. Len(applied) : ShowsPrefix(view[p].entries, k)
        /\ step[p] = "store" /\ ~revealed => ~view[p].revealed

\* HGET does not fail, EXISTS does not fail.
EntryReadable == "hget" \notin Faults

FlagReadable == "exists" \notin Faults

HInv == TInv /\ EntriesMerged /\ ViewsMerged /\ FreezeHides

-----------------------------------------------------------------------------
\* What a step may do to the stream: results are only added.
LogGrows ==
    /\ Len(results.msgs) <= Len(results'.msgs)
    /\ \A k \in 1 .. Len(results.msgs) : results'.msgs[k] = results.msgs[k]
    /\ results.first <= results'.first

-----------------------------------------------------------------------------
\* The two goroutines are different.
LEMMA Roles == Goroutines = {Ranker, Admin} /\ Ranker # Admin
BY DEF Goroutines, Ranker, Admin

\* A table is a function from cells to entries.
LEMMA TableFacts ==
    ASSUME NEW E \in Tables
    PROVE  /\ DOMAIN E \subseteq Cells
           /\ \A c \in DOMAIN E : E[c] \in ScoreEntry
BY DEF Tables

\* One entry more, or another one, makes a table again.
LEMMA TablePut ==
    ASSUME NEW E \in Tables, NEW x \in Cells, NEW v \in ScoreEntry,
           NEW F, F = [c \in DOMAIN E \cup {x} |-> IF c = x THEN v ELSE E[c]]
    PROVE  F \in Tables /\ DOMAIN F = DOMAIN E \cup {x} /\ F[x] = v
           /\ \A c \in DOMAIN E : c # x => F[c] = E[c]
<1>1. DOMAIN E \subseteq Cells /\ \A c \in DOMAIN E : E[c] \in ScoreEntry
  BY TableFacts
<1>2. F \in [DOMAIN E \cup {x} -> ScoreEntry] /\ DOMAIN E \cup {x} \in SUBSET Cells
  BY <1>1
<1> QED
  BY <1>2 DEF Tables

\* The table without entries.
LEMMA EmptyTable == <<>> \in Tables /\ DOMAIN <<>> = {}
<1>1. <<>> \in [{} -> ScoreEntry] /\ {} \in SUBSET Cells
  OBVIOUS
<1> QED
  BY <1>1 DEF Tables

\* The oldest entry of a batch is one of it.
LEMMA SmallestFacts ==
    ASSUME NEW S, S \subseteq Nat, S # {}
    PROVE  ResultQ!Smallest(S) \in S
<1>1. PICK x \in S : \A y \in S : ~ (<<y, x>> \in OpToRel(<, Nat))
  BY NatLessThanWellFounded, WFMin, Zenon
<1>2. ASSUME NEW y \in S PROVE x <= y
  <2>1. x \in Nat /\ y \in Nat
    OBVIOUS
  <2>2. ~ (y < x)
    BY <1>1, <2>1 DEF OpToRel
  <2> QED
    BY <2>1, <2>2
<1> QED
  BY <1>2 DEF ResultQ!Smallest

\* The dispatch loop goes on with an entry of its batch, or leaves it.
LEMMA ContinueFacts ==
    ASSUME LoopOK, NEW b, b \subseteq Nat, NEW again \in BOOLEAN,
           ResultQ!Continue(Ranker, b, again)
    PROVE  /\ LoopOK'
           /\ at'[Ranker] \in {"handle", "drain", "poll"}
           /\ at'[Ranker] = "handle" => cur'[Ranker] \in b /\ batch'[Ranker] = b \ {cur'[Ranker]}
           /\ at'[Ranker] # "handle" => batch'[Ranker] = {}
<1> USE DEF LoopOK, LoopStates
<1>1. CASE b # {}
  <2>1. ResultQ!Smallest(b) \in b
    BY <1>1, SmallestFacts
  <2>2. /\ cur' = [cur EXCEPT ![Ranker] = ResultQ!Smallest(b)]
        /\ batch' = [batch EXCEPT ![Ranker] = b \ {ResultQ!Smallest(b)}]
        /\ full' = [full EXCEPT ![Ranker] = again]
        /\ at' = [at EXCEPT ![Ranker] = "handle"]
    BY <1>1 DEF ResultQ!Continue
  <2> QED
    BY <2>1, <2>2
<1>2. CASE b = {}
  <2>1. /\ cur' = [cur EXCEPT ![Ranker] = 0]
        /\ batch' = [batch EXCEPT ![Ranker] = {}]
        /\ full' = [full EXCEPT ![Ranker] = FALSE]
        /\ at' = [at EXCEPT ![Ranker] = IF again THEN "drain" ELSE "poll"]
    BY <1>2 DEF ResultQ!Continue
  <2> QED
    BY <2>1
<1> QED
  BY <1>1, <1>2

\* The loop goes on with what is left of its batch.
LEMMA GoesOnFacts ==
    ASSUME LoopOK, ResultQ!Continue(Ranker, batch[Ranker], full[Ranker])
    PROVE  /\ LoopOK'
           /\ at'[Ranker] \in {"handle", "drain", "poll"}
           /\ at'[Ranker] = "handle" =>
                 cur'[Ranker] \in batch[Ranker] /\ batch'[Ranker] = batch[Ranker] \ {cur'[Ranker]}
           /\ at'[Ranker] # "handle" => batch'[Ranker] = {}
<1>1. batch[Ranker] \subseteq Nat /\ full[Ranker] \in BOOLEAN
  BY DEF LoopOK
<1> QED
  BY <1>1, ContinueFacts

\* What XREADGROUP does to the group.
LEMMA DeliverFacts ==
    ASSUME LogOK, GroupOK, ServerOK, ResultQ!HasNew, ResultQ!Deliver(RankerName),
           results' = results
    PROVE  /\ GroupOK'
           /\ ResultQ!NextEntry \in 1 .. Len(results.msgs)
           /\ Pending' = Pending \cup {ResultQ!NextEntry}
<1> DEFINE n == ResultQ!NextEntry
<1>1. RankerName \in Names
  BY DEF RankerName, Names, ServerOK
<1>2. n \in 1 .. Len(results.msgs)
  BY DEF ResultQ!HasNew, ResultQ!NextEntry, LogOK, GroupOK
<1>3. group' = [next |-> n + 1, pel |-> group.pel \cup {[id |-> n, owner |-> RankerName]}]
  BY DEF ResultQ!Deliver
<1> HIDE DEF n
<1>4. GroupOK'
  BY <1>1, <1>2, <1>3 DEF GroupOK
<1>5. Pending' = Pending \cup {n}
  <2> DEFINE r == [id |-> n, owner |-> RankerName]
  <2>1. group'.pel = group.pel \cup {r} /\ r.id = n
    BY <1>3
  <2> HIDE DEF r
  <2> QED
    BY <2>1 DEF Pending, ResultQ!PendingIds
<1> QED
  BY <1>2, <1>4, <1>5 DEF n

\* What acknowledging, or forgetting, entries does to it.
LEMMA UnpendedFacts ==
    ASSUME GroupOK, NEW ids, group' = ResultQ!Unpended(group, ids), results' = results
    PROVE  GroupOK' /\ Pending' = Pending \ ids
<1>1. group' = [group EXCEPT !.pel = {e \in group.pel : e.id \notin ids}]
  BY DEF ResultQ!Unpended
<1>2. group'.next = group.next /\ group'.pel = {e \in group.pel : e.id \notin ids}
  BY <1>1 DEF GroupOK
<1>3. GroupOK'
  BY <1>1, <1>2 DEF GroupOK
<1>4. Pending' = Pending \ ids
  BY <1>2 DEF Pending, ResultQ!PendingIds
<1> QED
  BY <1>3, <1>4

\* XADD appends the result and may move the start of the stream forward.
LEMMA PublishFacts ==
    ASSUME LogOK, NEW m \in Result, ResultQ!Publish(m)
    PROVE  /\ LogOK' /\ results'.msgs = Append(results.msgs, m)
           /\ results'.first >= results.first
<1>1. PICK f \in {results.first} \cup
                  {i \in results.first .. Len(results.msgs) + 1 :
                      Len(results.msgs) + 2 - i >= StreamMaxLen} :
            results' = [msgs |-> Append(results.msgs, m), first |-> f]
  BY DEF ResultQ!Publish, ResultQ!XAdd
<1>2. f \in Nat /\ f >= results.first
  BY <1>1 DEF LogOK
<1> QED
  BY <1>1, <1>2 DEF LogOK

-----------------------------------------------------------------------------
\* Every step preserves each part of the types.
\* The stream keeps its type.
LEMMA NextLog ==
    TInv /\ [Next]_vars => LogOK'
<1> SUFFICES ASSUME TInv, [Next]_vars PROVE LogOK'
  OBVIOUS
<1> USE DEF TInv
<1>1. ASSUME NEW s \in Submissions, Judge(s) PROVE LogOK'
  <2>1. PICK st \in Statuses[s] : ResultQ!Publish([sub |-> s, status |-> st])
    BY <1>1 DEF Judge
  <2>2. [sub |-> s, status |-> st] \in Result
    BY <2>1, ContestAssumption DEF Result, Submissions
  <2>3. /\ LogOK' /\ results'.msgs = Append(results.msgs, [sub |-> s, status |-> st])
        /\ results'.first >= results.first
    BY <2>1, <2>2, PublishFacts
  <2> QED
    BY <2>3
<1>2. CASE EnsureGroup
  BY <1>2 DEF EnsureGroup, ResultQ!EnsureGroup, streamVars, boardVars, stepVars,
     adminVars, apiVars, history, LogOK
<1>3. CASE DrainPending
  BY <1>3 DEF DrainPending, ResultQ!DrainPending, streamVars, boardVars, stepVars,
     adminVars, apiVars, history, LogOK
<1>4. CASE DrainPendingFails
  BY <1>4 DEF DrainPendingFails, ResultQ!DrainPendingFails, streamVars, boardVars,
     stepVars, adminVars, apiVars, history, LogOK
<1>5. CASE XReadGroup
  BY <1>5 DEF XReadGroup, ResultQ!XReadGroup, streamVars, boardVars, stepVars,
     adminVars, apiVars, history, LogOK
<1>6. CASE XReadGroupLost
  BY <1>6 DEF XReadGroupLost, ResultQ!XReadGroupLost, streamVars, boardVars, stepVars,
     adminVars, apiVars, history, LogOK
<1>7. CASE XAck
  BY <1>7 DEF XAck, ResultQ!XAck, streamVars, boardVars, stepVars, adminVars, apiVars,
     history, LogOK
<1>8. CASE XAckFails
  BY <1>8 DEF XAckFails, ResultQ!XAckFails, streamVars, boardVars, stepVars, adminVars,
     apiVars, history, LogOK
<1>9. CASE SkipPractice
  BY <1>9 DEF SkipPractice, HandlerDone, ResultQ!HandlerDone, streamVars, boardVars,
     stepVars, adminVars, apiVars, history, LogOK
<1>10. CASE ApplyResult
  BY <1>10 DEF ApplyResult, streamVars, boardVars, stepVars, adminVars, apiVars,
     history, LogOK
<1>11. CASE ApplyFails
  BY <1>11 DEF ApplyFails, HandlerFails, ResultQ!HandlerFails, streamVars, boardVars,
     stepVars, adminVars, apiVars, history, LogOK
<1>12. ASSUME NEW p \in Goroutines, LoadEntries(p) PROVE LogOK'
  BY <1>12 DEF LoadEntries, streamVars, boardVars, stepVars, adminVars, apiVars,
     history, LogOK
<1>13. ASSUME NEW p \in Goroutines, ReadFlag(p) PROVE LogOK'
  BY <1>13 DEF ReadFlag, streamVars, boardVars, stepVars, adminVars, apiVars, history,
     LogOK
<1>14. ASSUME NEW p \in Goroutines, StoreSnapshot(p) PROVE LogOK'
  BY <1>14 DEF StoreSnapshot, streamVars, boardVars, stepVars, adminVars, apiVars,
     history, LogOK
<1>15. ASSUME NEW p \in Goroutines, RebuildFails(p) PROVE LogOK'
  BY <1>15 DEF RebuildFails, HandlerFails, ResultQ!HandlerFails, streamVars, boardVars,
     stepVars, adminVars, apiVars, history, LogOK
<1>16. ASSUME NEW p \in Goroutines, PublishSnapshot(p) PROVE LogOK'
  BY <1>16 DEF PublishSnapshot, HandlerDone, ResultQ!HandlerDone, streamVars, boardVars,
     stepVars, adminVars, apiVars, history, LogOK
<1>17. CASE RevealContest
  BY <1>17 DEF RevealContest, streamVars, boardVars, stepVars, adminVars, apiVars,
     history, LogOK
<1>18. CASE ApiEnds
  BY <1>18 DEF ApiEnds, ResultQ!Die, streamVars, boardVars, stepVars, adminVars,
     apiVars, history, LogOK
<1>19. CASE ApiRestarts
  BY <1>19 DEF ApiRestarts, ResultQ!Launch, streamVars, boardVars, stepVars, adminVars,
     apiVars, history, LogOK
<1>20. CASE UNCHANGED vars
  BY <1>20 DEF vars, streamVars, boardVars, stepVars, adminVars, apiVars, history, LogOK
<1> QED
  BY <1>1, <1>2, <1>3, <1>4, <1>5, <1>6, <1>7, <1>8, <1>9, <1>10, <1>11, <1>12, <1>13,
     <1>14, <1>15, <1>16, <1>17, <1>18, <1>19, <1>20 DEF Next, RankerStep, Rebuild

\* Results are only added to the stream.
LEMMA NextLogGrows ==
    TInv /\ [Next]_vars => LogGrows
<1> SUFFICES ASSUME TInv, [Next]_vars PROVE LogGrows
  OBVIOUS
<1> USE DEF TInv
<1>a. results.msgs \in Seq(Result) /\ results.first \in Nat
  BY DEF TInv, LogOK
<1>1. ASSUME NEW s \in Submissions, Judge(s) PROVE LogGrows
  <2>1. PICK st \in Statuses[s] : ResultQ!Publish([sub |-> s, status |-> st])
    BY <1>1 DEF Judge
  <2>2. [sub |-> s, status |-> st] \in Result
    BY <2>1, ContestAssumption DEF Result, Submissions
  <2>3. /\ LogOK' /\ results'.msgs = Append(results.msgs, [sub |-> s, status |-> st])
        /\ results'.first >= results.first
    BY <2>1, <2>2, PublishFacts
  <2> QED
    BY <2>2, <2>3 DEF LogGrows, LogOK, TInv
<1>2. CASE EnsureGroup
  BY <1>2, <1>a DEF EnsureGroup, ResultQ!EnsureGroup, streamVars, boardVars, stepVars,
     adminVars, apiVars, history, LogGrows
<1>3. CASE DrainPending
  BY <1>3, <1>a DEF DrainPending, ResultQ!DrainPending, streamVars, boardVars, stepVars,
     adminVars, apiVars, history, LogGrows
<1>4. CASE DrainPendingFails
  BY <1>4, <1>a DEF DrainPendingFails, ResultQ!DrainPendingFails, streamVars, boardVars,
     stepVars, adminVars, apiVars, history, LogGrows
<1>5. CASE XReadGroup
  BY <1>5, <1>a DEF XReadGroup, ResultQ!XReadGroup, streamVars, boardVars, stepVars,
     adminVars, apiVars, history, LogGrows
<1>6. CASE XReadGroupLost
  BY <1>6, <1>a DEF XReadGroupLost, ResultQ!XReadGroupLost, streamVars, boardVars,
     stepVars, adminVars, apiVars, history, LogGrows
<1>7. CASE XAck
  BY <1>7, <1>a DEF XAck, ResultQ!XAck, streamVars, boardVars, stepVars, adminVars,
     apiVars, history, LogGrows
<1>8. CASE XAckFails
  BY <1>8, <1>a DEF XAckFails, ResultQ!XAckFails, streamVars, boardVars, stepVars,
     adminVars, apiVars, history, LogGrows
<1>9. CASE SkipPractice
  BY <1>9, <1>a DEF SkipPractice, HandlerDone, ResultQ!HandlerDone, streamVars,
     boardVars, stepVars, adminVars, apiVars, history, LogGrows
<1>10. CASE ApplyResult
  BY <1>10, <1>a DEF ApplyResult, streamVars, boardVars, stepVars, adminVars, apiVars,
     history, LogGrows
<1>11. CASE ApplyFails
  BY <1>11, <1>a DEF ApplyFails, HandlerFails, ResultQ!HandlerFails, streamVars,
     boardVars, stepVars, adminVars, apiVars, history, LogGrows
<1>12. ASSUME NEW p \in Goroutines, LoadEntries(p) PROVE LogGrows
  BY <1>12, <1>a DEF LoadEntries, streamVars, boardVars, stepVars, adminVars, apiVars,
     history, LogGrows
<1>13. ASSUME NEW p \in Goroutines, ReadFlag(p) PROVE LogGrows
  BY <1>13, <1>a DEF ReadFlag, streamVars, boardVars, stepVars, adminVars, apiVars,
     history, LogGrows
<1>14. ASSUME NEW p \in Goroutines, StoreSnapshot(p) PROVE LogGrows
  BY <1>14, <1>a DEF StoreSnapshot, streamVars, boardVars, stepVars, adminVars, apiVars,
     history, LogGrows
<1>15. ASSUME NEW p \in Goroutines, RebuildFails(p) PROVE LogGrows
  BY <1>15, <1>a DEF RebuildFails, HandlerFails, ResultQ!HandlerFails, streamVars,
     boardVars, stepVars, adminVars, apiVars, history, LogGrows
<1>16. ASSUME NEW p \in Goroutines, PublishSnapshot(p) PROVE LogGrows
  BY <1>16, <1>a DEF PublishSnapshot, HandlerDone, ResultQ!HandlerDone, streamVars,
     boardVars, stepVars, adminVars, apiVars, history, LogGrows
<1>17. CASE RevealContest
  BY <1>17, <1>a DEF RevealContest, streamVars, boardVars, stepVars, adminVars, apiVars,
     history, LogGrows
<1>18. CASE ApiEnds
  BY <1>18, <1>a DEF ApiEnds, ResultQ!Die, streamVars, boardVars, stepVars, adminVars,
     apiVars, history, LogGrows
<1>19. CASE ApiRestarts
  BY <1>19, <1>a DEF ApiRestarts, ResultQ!Launch, streamVars, boardVars, stepVars,
     adminVars, apiVars, history, LogGrows
<1>20. CASE UNCHANGED vars
  BY <1>20, <1>a DEF vars, streamVars, boardVars, stepVars, adminVars, apiVars, history,
     LogGrows
<1> QED
  BY <1>1, <1>2, <1>3, <1>4, <1>5, <1>6, <1>7, <1>8, <1>9, <1>10, <1>11, <1>12, <1>13,
     <1>14, <1>15, <1>16, <1>17, <1>18, <1>19, <1>20 DEF Next, RankerStep, Rebuild

\* The group names entries of the stream only.
LEMMA NextGroup ==
    TInv /\ [Next]_vars => GroupOK'
<1> SUFFICES ASSUME TInv, [Next]_vars PROVE GroupOK'
  OBVIOUS
<1> USE DEF TInv
<1>1. ASSUME NEW s \in Submissions, Judge(s) PROVE GroupOK'
  <2>1. group' = group
    BY <1>1 DEF Judge
  <2>2. /\ Len(results'.msgs) \in Nat /\ Len(results.msgs) \in Nat
        /\ Len(results.msgs) <= Len(results'.msgs)
    BY NextLog, NextLogGrows DEF LogGrows, LogOK
  <2> QED
    BY <2>1, <2>2 DEF GroupOK
<1>2. CASE EnsureGroup
  BY <1>2 DEF EnsureGroup, ResultQ!EnsureGroup, streamVars, boardVars, stepVars,
     adminVars, apiVars, history, GroupOK
<1>3. CASE DrainPending
  <2>1. PICK ids : group' = ResultQ!Unpended(group, ids) /\ results' = results
    BY <1>3 DEF DrainPending, ResultQ!DrainPending
  <2> QED
    BY <2>1, UnpendedFacts
<1>4. CASE DrainPendingFails
  BY <1>4 DEF DrainPendingFails, ResultQ!DrainPendingFails, streamVars, boardVars,
     stepVars, adminVars, apiVars, history, GroupOK
<1>5. CASE XReadGroup
  BY <1>5, DeliverFacts DEF XReadGroup, ResultQ!XReadGroup
<1>6. CASE XReadGroupLost
  BY <1>6, DeliverFacts DEF XReadGroupLost, ResultQ!XReadGroupLost
<1>7. CASE XAck
  <2>1. group' = ResultQ!Unpended(group, {cur[Ranker]}) /\ results' = results
    BY <1>7 DEF XAck, ResultQ!XAck
  <2> QED
    BY <2>1, UnpendedFacts
<1>8. CASE XAckFails
  BY <1>8 DEF XAckFails, ResultQ!XAckFails, streamVars, boardVars, stepVars, adminVars,
     apiVars, history, GroupOK
<1>9. CASE SkipPractice
  BY <1>9 DEF SkipPractice, HandlerDone, ResultQ!HandlerDone, streamVars, boardVars,
     stepVars, adminVars, apiVars, history, GroupOK
<1>10. CASE ApplyResult
  BY <1>10 DEF ApplyResult, streamVars, boardVars, stepVars, adminVars, apiVars,
     history, GroupOK
<1>11. CASE ApplyFails
  BY <1>11 DEF ApplyFails, HandlerFails, ResultQ!HandlerFails, streamVars, boardVars,
     stepVars, adminVars, apiVars, history, GroupOK
<1>12. ASSUME NEW p \in Goroutines, LoadEntries(p) PROVE GroupOK'
  BY <1>12 DEF LoadEntries, streamVars, boardVars, stepVars, adminVars, apiVars,
     history, GroupOK
<1>13. ASSUME NEW p \in Goroutines, ReadFlag(p) PROVE GroupOK'
  BY <1>13 DEF ReadFlag, streamVars, boardVars, stepVars, adminVars, apiVars, history,
     GroupOK
<1>14. ASSUME NEW p \in Goroutines, StoreSnapshot(p) PROVE GroupOK'
  BY <1>14 DEF StoreSnapshot, streamVars, boardVars, stepVars, adminVars, apiVars,
     history, GroupOK
<1>15. ASSUME NEW p \in Goroutines, RebuildFails(p) PROVE GroupOK'
  BY <1>15 DEF RebuildFails, HandlerFails, ResultQ!HandlerFails, streamVars, boardVars,
     stepVars, adminVars, apiVars, history, GroupOK
<1>16. ASSUME NEW p \in Goroutines, PublishSnapshot(p) PROVE GroupOK'
  BY <1>16 DEF PublishSnapshot, HandlerDone, ResultQ!HandlerDone, streamVars, boardVars,
     stepVars, adminVars, apiVars, history, GroupOK
<1>17. CASE RevealContest
  BY <1>17 DEF RevealContest, streamVars, boardVars, stepVars, adminVars, apiVars,
     history, GroupOK
<1>18. CASE ApiEnds
  BY <1>18 DEF ApiEnds, ResultQ!Die, streamVars, boardVars, stepVars, adminVars,
     apiVars, history, GroupOK
<1>19. CASE ApiRestarts
  BY <1>19 DEF ApiRestarts, ResultQ!Launch, streamVars, boardVars, stepVars, adminVars,
     apiVars, history, GroupOK
<1>20. CASE UNCHANGED vars
  BY <1>20 DEF vars, streamVars, boardVars, stepVars, adminVars, apiVars, history,
     GroupOK
<1> QED
  BY <1>1, <1>2, <1>3, <1>4, <1>5, <1>6, <1>7, <1>8, <1>9, <1>10, <1>11, <1>12, <1>13,
     <1>14, <1>15, <1>16, <1>17, <1>18, <1>19, <1>20 DEF Next, RankerStep, Rebuild

\* The loop of Subscribe keeps its types.
LEMMA NextLoop ==
    TInv /\ [Next]_vars => LoopOK'
<1> SUFFICES ASSUME TInv, [Next]_vars PROVE LoopOK'
  OBVIOUS
<1> USE DEF TInv
<1>1. ASSUME NEW s \in Submissions, Judge(s) PROVE LoopOK'
  BY <1>1 DEF Judge, streamVars, boardVars, stepVars, adminVars, apiVars, history,
     LoopOK, LoopStates
<1>2. CASE EnsureGroup
  BY <1>2 DEF EnsureGroup, ResultQ!EnsureGroup, streamVars, boardVars, stepVars,
     adminVars, apiVars, history, LoopOK, LoopStates
<1>3. CASE DrainPending
  <2> DEFINE mine == ResultQ!PendingOf(RankerName)
             listed == {i \in mine : ResultQ!Cardinality({j \in mine : j < i}) < PendingBatch}
             alive == {i \in listed : i >= results.first}
             again == (ResultQ!Cardinality(listed) = PendingBatch)
  <2>1. ResultQ!Continue(Ranker, alive, again)
    BY <1>3 DEF DrainPending, ResultQ!DrainPending
  <2>2. alive \subseteq Nat /\ again \in BOOLEAN
    BY DEF ResultQ!PendingOf, GroupOK
  <2> HIDE DEF alive, again
  <2> QED
    BY <2>1, <2>2, ContinueFacts
<1>4. CASE DrainPendingFails
  BY <1>4, ContinueFacts DEF DrainPendingFails, ResultQ!DrainPendingFails
<1>5. CASE XReadGroup
  <2>1. ResultQ!NextEntry \in Nat
    BY <1>5, DeliverFacts DEF XReadGroup, ResultQ!XReadGroup
  <2> QED
    BY <1>5, <2>1 DEF XReadGroup, ResultQ!XReadGroup, LoopOK, LoopStates
<1>6. CASE XReadGroupLost
  BY <1>6 DEF XReadGroupLost, ResultQ!XReadGroupLost, streamVars, boardVars, stepVars,
     adminVars, apiVars, history, LoopOK, LoopStates
<1>7. CASE XAck
  BY <1>7, GoesOnFacts DEF XAck, ResultQ!XAck
<1>8. CASE XAckFails
  BY <1>8, GoesOnFacts DEF XAckFails, ResultQ!XAckFails
<1>9. CASE SkipPractice
  BY <1>9 DEF SkipPractice, HandlerDone, ResultQ!HandlerDone, streamVars, boardVars,
     stepVars, adminVars, apiVars, history, LoopOK, LoopStates
<1>10. CASE ApplyResult
  BY <1>10 DEF ApplyResult, streamVars, boardVars, stepVars, adminVars, apiVars,
     history, LoopOK, LoopStates
<1>11. CASE ApplyFails
  BY <1>11, GoesOnFacts DEF ApplyFails, HandlerFails, ResultQ!HandlerFails
<1>12. ASSUME NEW p \in Goroutines, LoadEntries(p) PROVE LoopOK'
  BY <1>12 DEF LoadEntries, streamVars, boardVars, stepVars, adminVars, apiVars,
     history, LoopOK, LoopStates
<1>13. ASSUME NEW p \in Goroutines, ReadFlag(p) PROVE LoopOK'
  BY <1>13 DEF ReadFlag, streamVars, boardVars, stepVars, adminVars, apiVars, history,
     LoopOK, LoopStates
<1>14. ASSUME NEW p \in Goroutines, StoreSnapshot(p) PROVE LoopOK'
  BY <1>14 DEF StoreSnapshot, streamVars, boardVars, stepVars, adminVars, apiVars,
     history, LoopOK, LoopStates
<1>15. ASSUME NEW p \in Goroutines, RebuildFails(p) PROVE LoopOK'
  <2>1. CASE HandlerFails
    BY <2>1, GoesOnFacts DEF HandlerFails, ResultQ!HandlerFails
  <2>2. CASE UNCHANGED streamVars
    BY <2>2 DEF LoopOK, streamVars
  <2> QED
    BY <1>15, <2>1, <2>2 DEF RebuildFails
<1>16. ASSUME NEW p \in Goroutines, PublishSnapshot(p) PROVE LoopOK'
  BY <1>16 DEF PublishSnapshot, HandlerDone, ResultQ!HandlerDone, streamVars, boardVars,
     stepVars, adminVars, apiVars, history, LoopOK, LoopStates
<1>17. CASE RevealContest
  BY <1>17 DEF RevealContest, streamVars, boardVars, stepVars, adminVars, apiVars,
     history, LoopOK, LoopStates
<1>18. CASE ApiEnds
  BY <1>18 DEF ApiEnds, ResultQ!Die, streamVars, boardVars, stepVars, adminVars,
     apiVars, history, LoopOK, LoopStates
<1>19. CASE ApiRestarts
  BY <1>19 DEF ApiRestarts, ResultQ!Launch, streamVars, boardVars, stepVars, adminVars,
     apiVars, history, LoopOK, LoopStates
<1>20. CASE UNCHANGED vars
  BY <1>20 DEF vars, streamVars, boardVars, stepVars, adminVars, apiVars, history,
     LoopOK, LoopStates
<1> QED
  BY <1>1, <1>2, <1>3, <1>4, <1>5, <1>6, <1>7, <1>8, <1>9, <1>10, <1>11, <1>12, <1>13,
     <1>14, <1>15, <1>16, <1>17, <1>18, <1>19, <1>20 DEF Next, RankerStep, Rebuild

\* What the ranker has claimed stays pending until it is acknowledged.
LEMMA NextHeld ==
    TInv /\ [Next]_vars => HeldOK'
<1> SUFFICES ASSUME TInv, [Next]_vars PROVE HeldOK'
  OBVIOUS
<1> USE DEF TInv
<1>1. ASSUME NEW s \in Submissions, Judge(s) PROVE HeldOK'
  BY <1>1 DEF Judge, streamVars, boardVars, stepVars, adminVars, apiVars, history,
     HeldOK, Pending
<1>2. CASE EnsureGroup
  BY <1>2 DEF EnsureGroup, ResultQ!EnsureGroup, streamVars, boardVars, stepVars,
     adminVars, apiVars, history, HeldOK, Pending, LoopOK
<1>3. CASE DrainPending
  <2> DEFINE mine == ResultQ!PendingOf(RankerName)
             listed == {i \in mine : ResultQ!Cardinality({j \in mine : j < i}) < PendingBatch}
             alive == {i \in listed : i >= results.first}
             again == (ResultQ!Cardinality(listed) = PendingBatch)
  <2>1. ResultQ!Continue(Ranker, alive, again)
    BY <1>3 DEF DrainPending, ResultQ!DrainPending
  <2>2. alive \subseteq Nat /\ again \in BOOLEAN
    BY DEF ResultQ!PendingOf, GroupOK
  <2>3. group' = ResultQ!Unpended(group, listed \ alive) /\ results' = results
    BY <1>3 DEF DrainPending, ResultQ!DrainPending
  <2>4. Pending' = Pending \ (listed \ alive)
    BY <2>3, UnpendedFacts
  <2>5. alive \subseteq Pending
    BY DEF ResultQ!PendingOf, Pending, ResultQ!PendingIds
  <2>6. alive \subseteq Pending'
    BY <2>4, <2>5
  <2> HIDE DEF alive, again
  <2>7. /\ at'[Ranker] \in {"handle", "drain", "poll"}
        /\ at'[Ranker] = "handle" =>
              cur'[Ranker] \in alive /\ batch'[Ranker] = alive \ {cur'[Ranker]}
        /\ at'[Ranker] # "handle" => batch'[Ranker] = {}
    BY <2>1, <2>2, ContinueFacts
  <2> HIDE DEF TInv
  <2> QED
    BY <2>6, <2>7 DEF HeldOK
<1>4. CASE DrainPendingFails
  <2>1. ResultQ!Continue(Ranker, {}, FALSE) /\ Pending' = Pending
    BY <1>4 DEF DrainPendingFails, ResultQ!DrainPendingFails, Pending
  <2> QED
    BY <2>1, ContinueFacts DEF HeldOK
<1>5. CASE XReadGroup
  <2>1. /\ Pending' = Pending \cup {ResultQ!NextEntry}
        /\ at[Ranker] = "poll" /\ batch' = batch
        /\ cur'[Ranker] = ResultQ!NextEntry
    BY <1>5, DeliverFacts DEF XReadGroup, ResultQ!XReadGroup, LoopOK
  <2> QED
    BY <2>1 DEF HeldOK
<1>6. CASE XReadGroupLost
  <2>1. /\ Pending' = Pending \cup {ResultQ!NextEntry}
        /\ UNCHANGED <<at, cur, batch>>
    BY <1>6, DeliverFacts DEF XReadGroupLost, ResultQ!XReadGroupLost
  <2> QED
    BY <2>1 DEF HeldOK
<1>7. CASE XAck
  <2>1. /\ at[Ranker] = "ack" /\ ResultQ!Continue(Ranker, batch[Ranker], full[Ranker])
        /\ group' = ResultQ!Unpended(group, {cur[Ranker]}) /\ results' = results
    BY <1>7 DEF XAck, ResultQ!XAck
  <2>2. Pending' = Pending \ {cur[Ranker]}
    BY <2>1, UnpendedFacts
  <2> QED
    BY <2>1, <2>2, GoesOnFacts DEF HeldOK
<1>8. CASE XAckFails
  <2>1. ResultQ!Continue(Ranker, batch[Ranker], full[Ranker]) /\ Pending' = Pending
    BY <1>8 DEF XAckFails, ResultQ!XAckFails, Pending
  <2>2. at[Ranker] = "ack"
    BY <1>8 DEF XAckFails, ResultQ!XAckFails
  <2> QED
    BY <2>1, <2>2, GoesOnFacts DEF HeldOK
<1>9. CASE SkipPractice
  BY <1>9 DEF SkipPractice, HandlerDone, ResultQ!HandlerDone, streamVars, boardVars,
     stepVars, adminVars, apiVars, history, HeldOK, Pending, StepOK, LoopOK
<1>10. CASE ApplyResult
  BY <1>10 DEF ApplyResult, streamVars, boardVars, stepVars, adminVars, apiVars,
     history, HeldOK, Pending
<1>11. CASE ApplyFails
  <2>1. HandlerFails /\ at[Ranker] = "handle"
    BY <1>11 DEF ApplyFails, StepOK
  <2>2. HeldOK'
    <3>1. ResultQ!Continue(Ranker, batch[Ranker], full[Ranker]) /\ Pending' = Pending
      BY <2>1 DEF HandlerFails, ResultQ!HandlerFails, Pending
    <3> QED
      BY <3>1, GoesOnFacts DEF HeldOK
  <2> QED
    BY <2>2
<1>12. ASSUME NEW p \in Goroutines, LoadEntries(p) PROVE HeldOK'
  BY <1>12 DEF LoadEntries, streamVars, boardVars, stepVars, adminVars, apiVars,
     history, HeldOK, Pending
<1>13. ASSUME NEW p \in Goroutines, ReadFlag(p) PROVE HeldOK'
  BY <1>13 DEF ReadFlag, streamVars, boardVars, stepVars, adminVars, apiVars, history,
     HeldOK, Pending
<1>14. ASSUME NEW p \in Goroutines, StoreSnapshot(p) PROVE HeldOK'
  BY <1>14 DEF StoreSnapshot, streamVars, boardVars, stepVars, adminVars, apiVars,
     history, HeldOK, Pending
<1>15. ASSUME NEW p \in Goroutines, RebuildFails(p) PROVE HeldOK'
  <2>1. CASE HandlerFails
    <3>1. ResultQ!Continue(Ranker, batch[Ranker], full[Ranker]) /\ Pending' = Pending
      BY <2>1 DEF HandlerFails, ResultQ!HandlerFails, Pending
    <3> QED
      BY <3>1, GoesOnFacts DEF HeldOK
  <2>2. CASE UNCHANGED streamVars
    BY <2>2 DEF HeldOK, Pending, streamVars
  <2> QED
    BY <1>15, <2>1, <2>2 DEF RebuildFails
<1>16. ASSUME NEW p \in Goroutines, PublishSnapshot(p) PROVE HeldOK'
  <2>1. CASE UNCHANGED streamVars
    BY <2>1 DEF HeldOK, Pending, streamVars
  <2>2. CASE p = Ranker /\ HandlerDone /\ UNCHANGED <<results, group, cur, batch, full>>
    <3>1. at[Ranker] = "handle" /\ at'[Ranker] = "ack"
      BY <1>16, <2>2 DEF PublishSnapshot, StepOK, LoopOK, HandlerDone, ResultQ!HandlerDone
    <3> QED
      BY <2>2, <3>1 DEF HeldOK, Pending
  <2> QED
    BY <1>16, <2>1, <2>2 DEF PublishSnapshot
<1>17. CASE RevealContest
  BY <1>17 DEF RevealContest, streamVars, boardVars, stepVars, adminVars, apiVars,
     history, HeldOK, Pending
<1>18. CASE ApiEnds
  BY <1>18 DEF ApiEnds, ResultQ!Die, streamVars, boardVars, stepVars, adminVars,
     apiVars, history, HeldOK, Pending, LoopOK
<1>19. CASE ApiRestarts
  <2>1. at[Ranker] = "off" /\ at'[Ranker] = "subscribe" /\ UNCHANGED <<group, cur, batch>>
    BY <1>19 DEF ApiRestarts, ResultQ!Launch, StepOK
  <2> QED
    BY <2>1 DEF HeldOK, Pending
<1>20. CASE UNCHANGED vars
  BY <1>20 DEF vars, streamVars, boardVars, stepVars, adminVars, apiVars, history,
     HeldOK, Pending
<1> QED
  BY <1>1, <1>2, <1>3, <1>4, <1>5, <1>6, <1>7, <1>8, <1>9, <1>10, <1>11, <1>12, <1>13,
     <1>14, <1>15, <1>16, <1>17, <1>18, <1>19, <1>20 DEF Next, RankerStep, Rebuild

\* The goroutines are where their callers have put them.
LEMMA NextStepOK ==
    TInv /\ [Next]_vars => StepOK'
<1> SUFFICES ASSUME TInv, [Next]_vars PROVE StepOK'
  OBVIOUS
<1> USE DEF TInv
<1>1. ASSUME NEW s \in Submissions, Judge(s) PROVE StepOK'
  BY <1>1 DEF Judge, streamVars, boardVars, stepVars, adminVars, apiVars, history,
     StepOK
<1>2. CASE EnsureGroup
  BY <1>2, Roles DEF EnsureGroup, ResultQ!EnsureGroup, streamVars, boardVars, stepVars,
     adminVars, apiVars, history, StepOK, LoopOK
<1>3. CASE DrainPending
  <2> DEFINE mine == ResultQ!PendingOf(RankerName)
             listed == {i \in mine : ResultQ!Cardinality({j \in mine : j < i}) < PendingBatch}
             alive == {i \in listed : i >= results.first}
             again == (ResultQ!Cardinality(listed) = PendingBatch)
  <2>a. ResultQ!Continue(Ranker, alive, again)
    BY <1>3 DEF DrainPending, ResultQ!DrainPending
  <2>b. alive \subseteq Nat /\ again \in BOOLEAN
    BY DEF ResultQ!PendingOf, GroupOK
  <2> HIDE DEF alive, again
  <2>1. at'[Ranker] \in {"handle", "drain", "poll"} /\ StartHandling
    BY <1>3, <2>a, <2>b, ContinueFacts DEF DrainPending
  <2>2. UNCHANGED <<api, reveal>> /\ api # "down"
    BY <1>3 DEF DrainPending, ResultQ!DrainPending, adminVars, apiVars, StepOK
  <2> QED
    BY <2>1, <2>2, Roles DEF StepOK, StartHandling, Steps
<1>4. CASE DrainPendingFails
  <2>1. at[Ranker] = "drain" /\ at'[Ranker] \in {"drain", "poll"}
    BY <1>4 DEF DrainPendingFails, ResultQ!DrainPendingFails, ResultQ!Continue, LoopOK
  <2> QED
    BY <1>4, <2>1 DEF DrainPendingFails, StepOK,
       streamVars, boardVars, stepVars, adminVars, apiVars, history
<1>5. CASE XReadGroup
  <2>1. at'[Ranker] = "handle" /\ StartHandling
    BY <1>5 DEF XReadGroup, ResultQ!XReadGroup, LoopOK
  <2>2. UNCHANGED <<api, reveal>> /\ api # "down"
    BY <1>5 DEF XReadGroup, ResultQ!XReadGroup, adminVars, apiVars, StepOK
  <2> QED
    BY <2>1, <2>2, Roles DEF StepOK, StartHandling, Steps
<1>6. CASE XReadGroupLost
  BY <1>6 DEF XReadGroupLost, ResultQ!XReadGroupLost, streamVars, boardVars, stepVars,
     adminVars, apiVars, history, StepOK
<1>7. CASE XAck
  <2>1. at'[Ranker] \in {"handle", "drain", "poll"} /\ StartHandling
    BY <1>7, GoesOnFacts DEF XAck, ResultQ!XAck
  <2>2. UNCHANGED <<api, reveal>> /\ api # "down"
    BY <1>7 DEF XAck, ResultQ!XAck, adminVars, apiVars, StepOK
  <2> QED
    BY <2>1, <2>2, Roles DEF StepOK, StartHandling, Steps
<1>8. CASE XAckFails
  <2>1. at'[Ranker] \in {"handle", "drain", "poll"} /\ StartHandling
    BY <1>8, GoesOnFacts DEF XAckFails, ResultQ!XAckFails
  <2>2. UNCHANGED <<api, reveal>> /\ api # "down"
    BY <1>8 DEF XAckFails, ResultQ!XAckFails, adminVars, apiVars, StepOK
  <2> QED
    BY <2>1, <2>2, Roles DEF StepOK, StartHandling, Steps
<1>9. CASE SkipPractice
  BY <1>9, Roles DEF SkipPractice, HandlerDone, ResultQ!HandlerDone, streamVars,
     boardVars, stepVars, adminVars, apiVars, history, StepOK, LoopOK, Goto, Steps
<1>10. CASE ApplyResult
  BY <1>10, Roles DEF ApplyResult, streamVars, boardVars, stepVars, adminVars, apiVars,
     history, StepOK, Goto, Steps
<1>11. CASE ApplyFails
  <2>1. HandlerFails /\ at[Ranker] = "handle"
    BY <1>11 DEF ApplyFails, StepOK
  <2>2. at'[Ranker] \in {"handle", "drain", "poll"} /\ StartHandling
    BY <2>1, GoesOnFacts DEF HandlerFails, ResultQ!HandlerFails
  <2>3. UNCHANGED <<api, reveal>> /\ api # "down"
    BY <1>11, <2>1 DEF ApplyFails, adminVars, apiVars, StepOK
  <2> QED
    BY <2>2, <2>3, Roles DEF StepOK, StartHandling, Steps
<1>12. ASSUME NEW p \in Goroutines, LoadEntries(p) PROVE StepOK'
  BY <1>12, Roles DEF LoadEntries, streamVars, boardVars, stepVars, adminVars, apiVars,
     history, StepOK, Goto, Steps
<1>13. ASSUME NEW p \in Goroutines, ReadFlag(p) PROVE StepOK'
  BY <1>13, Roles DEF ReadFlag, streamVars, boardVars, stepVars, adminVars, apiVars,
     history, StepOK, Goto, Steps
<1>14. ASSUME NEW p \in Goroutines, StoreSnapshot(p) PROVE StepOK'
  BY <1>14, Roles DEF StoreSnapshot, streamVars, boardVars, stepVars, adminVars,
     apiVars, history, StepOK, Goto, Steps
<1>15. ASSUME NEW p \in Goroutines, RebuildFails(p) PROVE StepOK'
  <2>0. step[p] \in {"load", "store"} /\ UNCHANGED apiVars
    BY <1>15 DEF RebuildFails
  <2>1. CASE p = Ranker /\ HandlerFails /\ UNCHANGED <<results, reveal>>
    <3>1. at'[Ranker] \in {"handle", "drain", "poll"} /\ StartHandling
      BY <2>1, GoesOnFacts DEF HandlerFails, ResultQ!HandlerFails
    <3>2. api' = api /\ at[Ranker] = "handle"
      BY <2>0, <2>1 DEF apiVars, StepOK
    <3> QED
      BY <2>1, <3>1, <3>2, Roles DEF StepOK, StartHandling, Steps
  <2>2. CASE p = Admin /\ Goto(Admin, "none") /\ reveal' = "failed" /\ UNCHANGED streamVars
    BY <2>0, <2>2, Roles DEF StepOK, Goto, Steps, streamVars, apiVars
  <2> QED
    BY <1>15, <2>1, <2>2 DEF RebuildFails
<1>16. ASSUME NEW p \in Goroutines, PublishSnapshot(p) PROVE StepOK'
  <2>0. step[p] = "publish" /\ UNCHANGED apiVars
    BY <1>16 DEF PublishSnapshot
  <2>1. CASE p = Ranker /\ HandlerDone /\ reveal' = reveal
    BY <2>0, <2>1, Roles DEF StepOK, Goto, Steps, apiVars, HandlerDone, ResultQ!HandlerDone, LoopOK
  <2>2. CASE /\ p = Admin /\ Goto(Admin, "none")
             /\ reveal' \in {"done", "failed"} /\ UNCHANGED streamVars
    BY <2>0, <2>2, Roles DEF StepOK, Goto, Steps, streamVars, apiVars
  <2> QED
    BY <1>16, <2>1, <2>2, Roles DEF PublishSnapshot
<1>17. CASE RevealContest
  BY <1>17, Roles DEF RevealContest, streamVars, boardVars, stepVars, adminVars,
     apiVars, history, StepOK, Goto, Steps
<1>18. CASE ApiEnds
  BY <1>18, Roles DEF ApiEnds, ResultQ!Die, streamVars, boardVars, stepVars, adminVars,
     apiVars, history, StepOK, Steps, LoopOK, ServerOK
<1>19. CASE ApiRestarts
  BY <1>19, Roles DEF ApiRestarts, ResultQ!Launch, streamVars, boardVars, stepVars,
     adminVars, apiVars, history, StepOK, LoopOK
<1>20. CASE UNCHANGED vars
  BY <1>20 DEF vars, streamVars, boardVars, stepVars, adminVars, apiVars, history,
     StepOK
<1> QED
  BY <1>1, <1>2, <1>3, <1>4, <1>5, <1>6, <1>7, <1>8, <1>9, <1>10, <1>11, <1>12, <1>13,
     <1>14, <1>15, <1>16, <1>17, <1>18, <1>19, <1>20 DEF Next, RankerStep, Rebuild

\* A fault is paid for.
LEMMA FaultFacts ==
    ASSUME BudgetOK, NEW kind, Fault(kind)
    PROVE  BudgetOK' /\ kind \in Faults
<1>1. MaxFaults \in Nat
  BY ContestAssumption
<1> QED
  BY <1>1 DEF Fault, BudgetOK

\* Faults are counted.
LEMMA NextBudget ==
    TInv /\ [Next]_vars => BudgetOK'
<1> SUFFICES ASSUME TInv, [Next]_vars PROVE BudgetOK'
  OBVIOUS
<1> USE DEF TInv
<1>1. ASSUME NEW s \in Submissions, Judge(s) PROVE BudgetOK'
  BY <1>1, FaultFacts DEF Judge, BudgetOK
<1>2. CASE EnsureGroup
  BY <1>2 DEF EnsureGroup, streamVars, boardVars, stepVars, adminVars, apiVars, history,
     BudgetOK
<1>3. CASE DrainPending
  BY <1>3 DEF DrainPending, streamVars, boardVars, stepVars, adminVars, apiVars,
     history, BudgetOK
<1>4. CASE DrainPendingFails
  BY <1>4, FaultFacts DEF DrainPendingFails, BudgetOK
<1>5. CASE XReadGroup
  BY <1>5 DEF XReadGroup, streamVars, boardVars, stepVars, adminVars, apiVars, history,
     BudgetOK
<1>6. CASE XReadGroupLost
  BY <1>6, FaultFacts DEF XReadGroupLost, BudgetOK
<1>7. CASE XAck
  BY <1>7 DEF XAck, streamVars, boardVars, stepVars, adminVars, apiVars, history,
     BudgetOK
<1>8. CASE XAckFails
  BY <1>8, FaultFacts DEF XAckFails, BudgetOK
<1>9. CASE SkipPractice
  BY <1>9 DEF SkipPractice, streamVars, boardVars, stepVars, adminVars, apiVars,
     history, BudgetOK
<1>10. CASE ApplyResult
  BY <1>10, FaultFacts DEF ApplyResult, BudgetOK
<1>11. CASE ApplyFails
  BY <1>11, FaultFacts DEF ApplyFails, BudgetOK
<1>12. ASSUME NEW p \in Goroutines, LoadEntries(p) PROVE BudgetOK'
  BY <1>12 DEF LoadEntries, streamVars, boardVars, stepVars, adminVars, apiVars,
     history, BudgetOK
<1>13. ASSUME NEW p \in Goroutines, ReadFlag(p) PROVE BudgetOK'
  BY <1>13, FaultFacts DEF ReadFlag, BudgetOK
<1>14. ASSUME NEW p \in Goroutines, StoreSnapshot(p) PROVE BudgetOK'
  BY <1>14 DEF StoreSnapshot, streamVars, boardVars, stepVars, adminVars, apiVars,
     history, BudgetOK
<1>15. ASSUME NEW p \in Goroutines, RebuildFails(p) PROVE BudgetOK'
  BY <1>15, FaultFacts DEF RebuildFails, BudgetOK
<1>16. ASSUME NEW p \in Goroutines, PublishSnapshot(p) PROVE BudgetOK'
  BY <1>16, FaultFacts DEF PublishSnapshot, BudgetOK
<1>17. CASE RevealContest
  BY <1>17, FaultFacts DEF RevealContest, BudgetOK
<1>18. CASE ApiEnds
  BY <1>18, FaultFacts DEF ApiEnds, BudgetOK
<1>19. CASE ApiRestarts
  BY <1>19, FaultFacts DEF ApiRestarts, BudgetOK
<1>20. CASE UNCHANGED vars
  BY <1>20 DEF vars, streamVars, boardVars, stepVars, adminVars, apiVars, history,
     BudgetOK
<1> QED
  BY <1>1, <1>2, <1>3, <1>4, <1>5, <1>6, <1>7, <1>8, <1>9, <1>10, <1>11, <1>12, <1>13,
     <1>14, <1>15, <1>16, <1>17, <1>18, <1>19, <1>20 DEF Next, RankerStep, Rebuild

\* The state of the process and of the reveal keep their types.
LEMMA NextServer ==
    TInv /\ [Next]_vars => ServerOK'
<1> SUFFICES ASSUME TInv, [Next]_vars PROVE ServerOK'
  OBVIOUS
<1> USE DEF TInv
<1>1. ASSUME NEW s \in Submissions, Judge(s) PROVE ServerOK'
  BY <1>1 DEF Judge, streamVars, boardVars, stepVars, adminVars, apiVars, history,
     ServerOK
<1>2. CASE EnsureGroup
  BY <1>2 DEF EnsureGroup, streamVars, boardVars, stepVars, adminVars, apiVars, history,
     ServerOK
<1>3. CASE DrainPending
  BY <1>3 DEF DrainPending, streamVars, boardVars, stepVars, adminVars, apiVars,
     history, ServerOK
<1>4. CASE DrainPendingFails
  BY <1>4 DEF DrainPendingFails, streamVars, boardVars, stepVars, adminVars, apiVars,
     history, ServerOK
<1>5. CASE XReadGroup
  BY <1>5 DEF XReadGroup, streamVars, boardVars, stepVars, adminVars, apiVars, history,
     ServerOK
<1>6. CASE XReadGroupLost
  BY <1>6 DEF XReadGroupLost, streamVars, boardVars, stepVars, adminVars, apiVars,
     history, ServerOK
<1>7. CASE XAck
  BY <1>7 DEF XAck, streamVars, boardVars, stepVars, adminVars, apiVars, history,
     ServerOK
<1>8. CASE XAckFails
  BY <1>8 DEF XAckFails, streamVars, boardVars, stepVars, adminVars, apiVars, history,
     ServerOK
<1>9. CASE SkipPractice
  BY <1>9 DEF SkipPractice, streamVars, boardVars, stepVars, adminVars, apiVars,
     history, ServerOK
<1>10. CASE ApplyResult
  BY <1>10 DEF ApplyResult, streamVars, boardVars, stepVars, adminVars, apiVars,
     history, ServerOK
<1>11. CASE ApplyFails
  BY <1>11 DEF ApplyFails, streamVars, boardVars, stepVars, adminVars, apiVars, history,
     ServerOK
<1>12. ASSUME NEW p \in Goroutines, LoadEntries(p) PROVE ServerOK'
  BY <1>12 DEF LoadEntries, streamVars, boardVars, stepVars, adminVars, apiVars,
     history, ServerOK
<1>13. ASSUME NEW p \in Goroutines, ReadFlag(p) PROVE ServerOK'
  BY <1>13 DEF ReadFlag, streamVars, boardVars, stepVars, adminVars, apiVars, history,
     ServerOK
<1>14. ASSUME NEW p \in Goroutines, StoreSnapshot(p) PROVE ServerOK'
  BY <1>14 DEF StoreSnapshot, streamVars, boardVars, stepVars, adminVars, apiVars,
     history, ServerOK
<1>15. ASSUME NEW p \in Goroutines, RebuildFails(p) PROVE ServerOK'
  BY <1>15 DEF RebuildFails, streamVars, boardVars, stepVars, adminVars, apiVars,
     history, ServerOK
<1>16. ASSUME NEW p \in Goroutines, PublishSnapshot(p) PROVE ServerOK'
  BY <1>16 DEF PublishSnapshot, streamVars, boardVars, stepVars, adminVars, apiVars,
     history, ServerOK
<1>17. CASE RevealContest
  BY <1>17 DEF RevealContest, streamVars, boardVars, stepVars, adminVars, apiVars,
     history, ServerOK
<1>18. CASE ApiEnds
  BY <1>18 DEF ApiEnds, streamVars, boardVars, stepVars, adminVars, apiVars, history,
     ServerOK
<1>19. CASE ApiRestarts
  BY <1>19 DEF ApiRestarts, streamVars, boardVars, stepVars, adminVars, apiVars,
     history, ServerOK, Fault
<1>20. CASE UNCHANGED vars
  BY <1>20 DEF vars, streamVars, boardVars, stepVars, adminVars, apiVars, history,
     ServerOK
<1> QED
  BY <1>1, <1>2, <1>3, <1>4, <1>5, <1>6, <1>7, <1>8, <1>9, <1>10, <1>11, <1>12, <1>13,
     <1>14, <1>15, <1>16, <1>17, <1>18, <1>19, <1>20 DEF Next, RankerStep, Rebuild

\* So do the flags.
LEMMA NextFlags ==
    TInv /\ [Next]_vars => FlagsOK'
<1> SUFFICES ASSUME TInv, [Next]_vars PROVE FlagsOK'
  OBVIOUS
<1> USE DEF TInv
<1>1. ASSUME NEW s \in Submissions, Judge(s) PROVE FlagsOK'
  BY <1>1 DEF Judge, streamVars, boardVars, stepVars, adminVars, apiVars, history,
     FlagsOK
<1>2. CASE EnsureGroup
  BY <1>2 DEF EnsureGroup, streamVars, boardVars, stepVars, adminVars, apiVars, history,
     FlagsOK
<1>3. CASE DrainPending
  BY <1>3 DEF DrainPending, streamVars, boardVars, stepVars, adminVars, apiVars,
     history, FlagsOK
<1>4. CASE DrainPendingFails
  BY <1>4 DEF DrainPendingFails, streamVars, boardVars, stepVars, adminVars, apiVars,
     history, FlagsOK
<1>5. CASE XReadGroup
  BY <1>5 DEF XReadGroup, streamVars, boardVars, stepVars, adminVars, apiVars, history,
     FlagsOK
<1>6. CASE XReadGroupLost
  BY <1>6 DEF XReadGroupLost, streamVars, boardVars, stepVars, adminVars, apiVars,
     history, FlagsOK
<1>7. CASE XAck
  BY <1>7 DEF XAck, streamVars, boardVars, stepVars, adminVars, apiVars, history,
     FlagsOK
<1>8. CASE XAckFails
  BY <1>8 DEF XAckFails, streamVars, boardVars, stepVars, adminVars, apiVars, history,
     FlagsOK
<1>9. CASE SkipPractice
  BY <1>9 DEF SkipPractice, streamVars, boardVars, stepVars, adminVars, apiVars,
     history, FlagsOK
<1>10. CASE ApplyResult
  <2>1. revealed' = revealed /\ raced' = (raced \/ Rebuilding(Admin))
    BY <1>10 DEF ApplyResult
  <2> QED
    BY <2>1, Zenon DEF FlagsOK
<1>11. CASE ApplyFails
  BY <1>11 DEF ApplyFails, streamVars, boardVars, stepVars, adminVars, apiVars, history,
     FlagsOK
<1>12. ASSUME NEW p \in Goroutines, LoadEntries(p) PROVE FlagsOK'
  BY <1>12 DEF LoadEntries, streamVars, boardVars, stepVars, adminVars, apiVars,
     history, FlagsOK
<1>13. ASSUME NEW p \in Goroutines, ReadFlag(p) PROVE FlagsOK'
  BY <1>13 DEF ReadFlag, streamVars, boardVars, stepVars, adminVars, apiVars, history,
     FlagsOK
<1>14. ASSUME NEW p \in Goroutines, StoreSnapshot(p) PROVE FlagsOK'
  BY <1>14 DEF StoreSnapshot, streamVars, boardVars, stepVars, adminVars, apiVars,
     history, FlagsOK
<1>15. ASSUME NEW p \in Goroutines, RebuildFails(p) PROVE FlagsOK'
  BY <1>15 DEF RebuildFails, streamVars, boardVars, stepVars, adminVars, apiVars,
     history, FlagsOK
<1>16. ASSUME NEW p \in Goroutines, PublishSnapshot(p) PROVE FlagsOK'
  BY <1>16 DEF PublishSnapshot, streamVars, boardVars, stepVars, adminVars, apiVars,
     history, FlagsOK
<1>17. CASE RevealContest
  <2>1. revealed' \in {revealed, TRUE} /\ raced' \in {raced, raced \/ Rebuilding(Ranker)}
    BY <1>17 DEF RevealContest
  <2> QED
    BY <2>1, Zenon DEF FlagsOK
<1>18. CASE ApiEnds
  BY <1>18 DEF ApiEnds, streamVars, boardVars, stepVars, adminVars, apiVars, history,
     FlagsOK
<1>19. CASE ApiRestarts
  BY <1>19 DEF ApiRestarts, streamVars, boardVars, stepVars, adminVars, apiVars,
     history, FlagsOK
<1>20. CASE UNCHANGED vars
  BY <1>20 DEF vars, streamVars, boardVars, stepVars, adminVars, apiVars, history,
     FlagsOK
<1> QED
  BY <1>1, <1>2, <1>3, <1>4, <1>5, <1>6, <1>7, <1>8, <1>9, <1>10, <1>11, <1>12, <1>13,
     <1>14, <1>15, <1>16, <1>17, <1>18, <1>19, <1>20 DEF Next, RankerStep, Rebuild

-----------------------------------------------------------------------------
\* The entry of a cell nothing was submitted to.
LEMMA NewEntryFacts ==
    EntryOK(NewEntry) /\ NewEntry.Accepted = FALSE /\ NewEntry.FrozenResults = <<>>
BY DEF EntryOK, NewEntry, ScoreEntry

\* Penalties are numbers.
LEMMA PenaltyFacts ==
    ASSUME NEW t \in Nat, NEW n \in Nat
    PROVE  elapsedMins(t) + n * PenaltyMinutes \in Nat
<1>1. elapsedMins(t) \in Nat
  BY RulesAssumption DEF elapsedMins
<1>2. n * PenaltyMinutes \in Nat
  BY RulesAssumption
<1> QED
  BY <1>1, <1>2

\* A solved cell has nothing frozen and shows when it was solved.
LEMMA SolveFacts ==
    ASSUME NEW e \in ScoreEntry, NEW t \in Nat
    PROVE  /\ Solve(e, t) \in ScoreEntry
           /\ Solve(e, t).Accepted = TRUE /\ Solve(e, t).BestSubmitTime = t
           /\ Solve(e, t).FrozenResults = <<>> /\ Solve(e, t).FrozenAttempts = 0
           /\ Solve(e, t).IsPending = FALSE
           /\ Solve(e, t).WrongAttemptCount = e.WrongAttemptCount
           /\ Solve(e, t).Penalty = elapsedMins(t) + e.WrongAttemptCount * PenaltyMinutes
<1> DEFINE n == elapsedMins(t) + e.WrongAttemptCount * PenaltyMinutes
<1>1. n \in Nat
  BY PenaltyFacts DEF ScoreEntry
<1>2. Solve(e, t) = [e EXCEPT !.Accepted = TRUE, !.IsPending = FALSE, !.FrozenAttempts = 0,
                              !.FrozenResults = <<>>, !.BestSubmitTime = t, !.Penalty = n]
  BY DEF Solve
<1> HIDE DEF n
<1>3. <<>> \in Seq([Status : Verdicts, SubmitTime : Nat])
  OBVIOUS
<1>4. Solve(e, t) \in ScoreEntry
  <2>1. Solve(e, t) = [Accepted |-> TRUE, Penalty |-> n, AttemptCount |-> e.AttemptCount,
                       WrongAttemptCount |-> e.WrongAttemptCount, BestSubmitTime |-> t,
                       FrozenAttempts |-> 0, IsPending |-> FALSE, FrozenResults |-> <<>>]
    BY <1>2 DEF ScoreEntry
  <2>2. e.AttemptCount \in Nat /\ e.WrongAttemptCount \in Nat
    BY DEF ScoreEntry
  <2> QED
    BY <2>1, <2>2, <1>1, <1>3 DEF ScoreEntry
<1>5. /\ Solve(e, t).Accepted = TRUE /\ Solve(e, t).BestSubmitTime = t
      /\ Solve(e, t).FrozenResults = <<>> /\ Solve(e, t).FrozenAttempts = 0
      /\ Solve(e, t).IsPending = FALSE
      /\ Solve(e, t).WrongAttemptCount = e.WrongAttemptCount
      /\ Solve(e, t).Penalty = n
  BY <1>2 DEF ScoreEntry
<1> QED
  BY <1>4, <1>5 DEF n

JudgedEvent == [Status : Verdicts, SubmitTime : Nat]

\* A frozen submission changes nothing the unrevealed board shows.
LEMMA FreezeFacts ==
    ASSUME NEW e, EntryOK(e), ~e.Accepted, NEW v \in JudgedEvent, isPostFreeze(v.SubmitTime)
    PROVE  /\ EntryOK(Freeze(v, e))
           /\ Score(Freeze(v, e)) = Score(e)
<1> DEFINE f == Freeze(v, e)
           q == Append(e.FrozenResults, v)
<1>0. /\ e \in ScoreEntry /\ e.FrozenAttempts = Len(e.FrozenResults)
      /\ e.FrozenResults \in Seq(JudgedEvent)
      /\ \A i \in 1 .. Len(e.FrozenResults) : e.FrozenResults[i].SubmitTime >= FreezeTime
  BY DEF EntryOK, ScoreEntry, JudgedEvent
<1>1. f = [e EXCEPT !.FrozenAttempts = e.FrozenAttempts + 1, !.IsPending = TRUE,
                    !.FrozenResults = q]
  BY <1>0 DEF Freeze, ScoreEntry
<1>2. /\ q \in Seq(JudgedEvent) /\ Len(q) = Len(e.FrozenResults) + 1
      /\ \A i \in 1 .. Len(q) : q[i].SubmitTime >= FreezeTime
  <2>1. q \in Seq(JudgedEvent) /\ Len(q) = Len(e.FrozenResults) + 1 /\ Len(e.FrozenResults) \in Nat
    BY <1>0
  <2>2. ASSUME NEW i \in 1 .. Len(q) PROVE q[i].SubmitTime >= FreezeTime
    <3>1. CASE i = Len(e.FrozenResults) + 1
      BY <3>1, <1>0 DEF isPostFreeze
    <3>2. CASE i # Len(e.FrozenResults) + 1
      <4>1. i \in 1 .. Len(e.FrozenResults) /\ q[i] = e.FrozenResults[i]
        BY <3>2, <2>1, <1>0
      <4> QED
        BY <4>1, <1>0
    <3> QED
      BY <3>1, <3>2
  <2> QED
    BY <2>1, <2>2
<1> HIDE DEF q, f
<1>3. f \in ScoreEntry
  <2>1. f = [Accepted |-> e.Accepted, Penalty |-> e.Penalty, AttemptCount |-> e.AttemptCount,
             WrongAttemptCount |-> e.WrongAttemptCount, BestSubmitTime |-> e.BestSubmitTime,
             FrozenAttempts |-> e.FrozenAttempts + 1, IsPending |-> TRUE, FrozenResults |-> q]
    BY <1>0, <1>1 DEF ScoreEntry
  <2>2. /\ e.Accepted \in BOOLEAN /\ e.Penalty \in Nat /\ e.AttemptCount \in Nat
        /\ e.WrongAttemptCount \in Nat /\ e.BestSubmitTime \in Nat
        /\ e.FrozenAttempts + 1 \in Nat
    BY <1>0 DEF ScoreEntry
  <2>3. q \in Seq([Status : Verdicts, SubmitTime : Nat])
    BY <1>2 DEF JudgedEvent
  <2> QED
    BY <2>1, <2>2, <2>3 DEF ScoreEntry
<1>4. /\ f.FrozenAttempts = e.FrozenAttempts + 1 /\ f.IsPending = TRUE /\ f.FrozenResults = q
      /\ f.Accepted = e.Accepted /\ f.WrongAttemptCount = e.WrongAttemptCount
      /\ f.Penalty = e.Penalty
  BY <1>0, <1>1 DEF ScoreEntry
<1>5. e.FrozenAttempts \in Nat
  BY <1>0 DEF ScoreEntry
<1>6. EntryOK(f)
  BY <1>0, <1>2, <1>3, <1>4, <1>5 DEF EntryOK
<1>7. Score(f) = Score(e)
  BY <1>4 DEF Score
<1> QED
  BY <1>6, <1>7 DEF f

\* A submission made before the freeze changes what is shown by what is shown.
LEMMA AttemptFacts ==
    ASSUME NEW e, EntryOK(e), ~e.Accepted, NEW v \in JudgedEvent, ~isPostFreeze(v.SubmitTime)
    PROVE  /\ EntryOK(Attempt(v, e))
           /\ Score(Attempt(v, e)) =
                 IF v.Status = "AC"
                 THEN [Solved |-> TRUE, Attempts |-> e.WrongAttemptCount,
                       Penalty |-> elapsedMins(v.SubmitTime) + e.WrongAttemptCount * PenaltyMinutes]
                 ELSE [Solved |-> FALSE,
                       Attempts |-> IF ignoreCE(v.Status) THEN e.WrongAttemptCount
                                    ELSE e.WrongAttemptCount + 1,
                       Penalty |-> e.Penalty]
<1> DEFINE tried == [e EXCEPT !.AttemptCount = @ + 1]
           a == Attempt(v, e)
<1>0. e \in ScoreEntry
  BY DEF EntryOK
<1>1. /\ tried \in ScoreEntry /\ tried.WrongAttemptCount = e.WrongAttemptCount
      /\ tried.Accepted = e.Accepted /\ tried.Penalty = e.Penalty
      /\ tried.FrozenResults = e.FrozenResults /\ tried.FrozenAttempts = e.FrozenAttempts
      /\ tried.IsPending = e.IsPending /\ tried.BestSubmitTime = e.BestSubmitTime
  BY <1>0 DEF ScoreEntry
<1>2. v.Status \in Verdicts /\ v.SubmitTime \in Nat /\ v.SubmitTime < FreezeTime
  BY RulesAssumption DEF JudgedEvent, isPostFreeze
<1>3. CASE v.Status = "AC"
  <2>1. a = Solve(tried, v.SubmitTime)
    BY <1>3 DEF Attempt
  <2> HIDE DEF tried, a
  <2>a. /\ a \in ScoreEntry /\ a.Accepted = TRUE /\ a.BestSubmitTime = v.SubmitTime
        /\ a.FrozenResults = <<>> /\ a.FrozenAttempts = 0 /\ a.IsPending = FALSE
        /\ a.WrongAttemptCount = e.WrongAttemptCount
        /\ a.Penalty = elapsedMins(v.SubmitTime) + e.WrongAttemptCount * PenaltyMinutes
    <3> DEFINE u == v.SubmitTime
               z == Solve(tried, u)
    <3>1. tried \in ScoreEntry /\ u \in Nat
      BY <1>1, <1>2
    <3> HIDE DEF u
    <3>2. /\ z \in ScoreEntry /\ z.Accepted = TRUE /\ z.BestSubmitTime = u
          /\ z.FrozenResults = <<>> /\ z.FrozenAttempts = 0 /\ z.IsPending = FALSE
          /\ z.WrongAttemptCount = tried.WrongAttemptCount
          /\ z.Penalty = elapsedMins(u) + tried.WrongAttemptCount * PenaltyMinutes
      BY <3>1, SolveFacts
    <3> HIDE DEF z
    <3>3. a = z
      BY <2>1 DEF z, u
    <3> QED
      BY <3>2, <3>3, <1>1 DEF u
  <2>2. EntryOK(a)
    BY <2>a, <1>2 DEF EntryOK
  <2>3. Score(a) = [Solved |-> TRUE, Attempts |-> e.WrongAttemptCount,
                    Penalty |-> elapsedMins(v.SubmitTime) + e.WrongAttemptCount * PenaltyMinutes]
    BY <2>a DEF Score
  <2> QED
    BY <2>2, <2>3, <1>3 DEF a
<1>4. CASE v.Status # "AC"
  <2> DEFINE w == IF ignoreCE(v.Status) THEN e.WrongAttemptCount ELSE e.WrongAttemptCount + 1
  <2>1. a = [tried EXCEPT !.WrongAttemptCount = w]
    BY <1>4, <1>1 DEF Attempt, ScoreEntry
  <2>2. w \in Nat
    BY <1>0 DEF ScoreEntry
  <2> HIDE DEF w, tried, a
  <2>3. /\ a \in ScoreEntry /\ a.WrongAttemptCount = w
        /\ a.Accepted = e.Accepted /\ a.Penalty = e.Penalty
        /\ a.FrozenResults = e.FrozenResults /\ a.FrozenAttempts = e.FrozenAttempts
        /\ a.IsPending = e.IsPending /\ a.BestSubmitTime = e.BestSubmitTime
    BY <2>1, <2>2, <1>1 DEF ScoreEntry
  <2>4. EntryOK(a)
    BY <2>3 DEF EntryOK
  <2>5. e.Accepted = FALSE
    BY <1>0 DEF ScoreEntry
  <2>6. Score(a) = [Solved |-> FALSE, Attempts |-> w, Penalty |-> e.Penalty]
    BY <2>3, <2>5 DEF Score
  <2> QED
    BY <2>4, <2>6, <1>4 DEF w, a
<1> QED
  BY <1>3, <1>4

\* Apply keeps entries well formed.
LEMMA ApplyFacts ==
    ASSUME NEW e, EntryOK(e), NEW v \in JudgedEvent
    PROVE  EntryOK(Apply(v, e))
BY FreezeFacts, AttemptFacts DEF Apply

\* The result a handler has been given.
LEMMA MessageFacts ==
    ASSUME LogOK, GroupOK, HeldOK, at[Ranker] = "handle"
    PROVE  /\ Message \in Result
           /\ Message.sub \in Contest =>
                 /\ Event(Message) \in JudgedEvent /\ Cell(Message.sub) \in Cells
                 /\ Message \in [sub : Contest, status : Verdicts]
<1>1. cur[Ranker] \in 1 .. Len(results.msgs)
  BY DEF HeldOK, Pending, ResultQ!PendingIds, GroupOK
<1>2. Message \in Result
  BY <1>1 DEF Message, LogOK
<1>3. ASSUME Message.sub \in Contest
      PROVE  /\ Event(Message) \in JudgedEvent /\ Cell(Message.sub) \in Cells
             /\ Message \in [sub : Contest, status : Verdicts]
  <2>1. Message.sub.time \in Nat /\ Message.status \in Verdicts
    BY <1>2, <1>3, ContestAssumption DEF Result
  <2>2. Message = [sub |-> Message.sub, status |-> Message.status]
    BY <1>2 DEF Result
  <2> QED
    BY <1>3, <2>1, <2>2 DEF Event, JudgedEvent, Cells
<1> QED
  BY <1>2, <1>3

\* What HSET does to the table.
LEMMA HSetFacts ==
    ASSUME TInv, at[Ranker] = "handle", Message.sub \in Contest,
           NEW e, EntryOK(e), HSet(e)
    PROVE  /\ CellsOK' /\ AppliedOK'
           /\ applied' = Append(applied, Message)
           /\ Cell(Message.sub) \in Cells
           /\ DOMAIN entries' = DOMAIN entries \cup {Cell(Message.sub)}
           /\ entries'[Cell(Message.sub)] = Apply(Event(Message), e)
           /\ \A c \in DOMAIN entries : c # Cell(Message.sub) => entries'[c] = entries[c]
<1> DEFINE x == Cell(Message.sub)
           v == Apply(Event(Message), e)
<1>1. /\ Event(Message) \in JudgedEvent /\ x \in Cells
      /\ Message \in [sub : Contest, status : Verdicts]
  BY MessageFacts DEF TInv
<1>2. EntryOK(v)
  BY <1>1, ApplyFacts
<1>3. entries' = [c \in DOMAIN entries \cup {x} |-> IF c = x THEN v ELSE entries[c]]
  BY DEF HSet
<1>4. applied' = Append(applied, Message)
  BY DEF HSet
<1> HIDE DEF x, v
<1>5. entries \in Tables /\ v \in ScoreEntry
  BY <1>2 DEF TInv, CellsOK, EntryOK
<1>6. /\ entries' \in Tables /\ DOMAIN entries' = DOMAIN entries \cup {x} /\ entries'[x] = v
      /\ \A c \in DOMAIN entries : c # x => entries'[c] = entries[c]
  BY <1>1, <1>3, <1>5, TablePut
<1>7. \A c \in DOMAIN entries' : EntryOK(entries'[c])
  BY <1>2, <1>6 DEF TInv, CellsOK
<1>8. CellsOK'
  BY <1>6, <1>7 DEF CellsOK
<1>9. AppliedOK'
  BY <1>1, <1>4 DEF TInv, AppliedOK
<1> QED
  BY <1>1, <1>4, <1>6, <1>8, <1>9 DEF x, v

\* A rebuild that is over has read nothing.
LEMMA EmptyViewFacts == EmptyView \in [entries : Tables, revealed : BOOLEAN]
BY EmptyTable DEF EmptyView

\* The entry read is well formed.
LEMMA PrevFacts == TInv => EntryOK(Prev)
BY NewEntryFacts DEF TInv, CellsOK, Prev

\* Entries stay well formed.
LEMMA NextCells ==
    TInv /\ [Next]_vars => CellsOK'
<1> SUFFICES ASSUME TInv, [Next]_vars PROVE CellsOK'
  OBVIOUS
<1> USE DEF TInv
<1>1. ASSUME NEW s \in Submissions, Judge(s) PROVE CellsOK'
  BY <1>1 DEF Judge, streamVars, boardVars, stepVars, adminVars, apiVars, history,
     CellsOK
<1>2. CASE EnsureGroup
  BY <1>2 DEF EnsureGroup, streamVars, boardVars, stepVars, adminVars, apiVars, history,
     CellsOK
<1>3. CASE DrainPending
  BY <1>3 DEF DrainPending, streamVars, boardVars, stepVars, adminVars, apiVars,
     history, CellsOK
<1>4. CASE DrainPendingFails
  BY <1>4 DEF DrainPendingFails, streamVars, boardVars, stepVars, adminVars, apiVars,
     history, CellsOK
<1>5. CASE XReadGroup
  BY <1>5 DEF XReadGroup, streamVars, boardVars, stepVars, adminVars, apiVars, history,
     CellsOK
<1>6. CASE XReadGroupLost
  BY <1>6 DEF XReadGroupLost, streamVars, boardVars, stepVars, adminVars, apiVars,
     history, CellsOK
<1>7. CASE XAck
  BY <1>7 DEF XAck, streamVars, boardVars, stepVars, adminVars, apiVars, history,
     CellsOK
<1>8. CASE XAckFails
  BY <1>8 DEF XAckFails, streamVars, boardVars, stepVars, adminVars, apiVars, history,
     CellsOK
<1>9. CASE SkipPractice
  BY <1>9 DEF SkipPractice, streamVars, boardVars, stepVars, adminVars, apiVars,
     history, CellsOK
<1>10. CASE ApplyResult
  <2>1. at[Ranker] = "handle" /\ Message.sub \in Contest
    BY <1>10 DEF ApplyResult, StepOK
  <2>2. CASE HSet(Prev)
    BY <2>1, <2>2, HSetFacts, PrevFacts
  <2>3. CASE HSet(NewEntry)
    BY <2>1, <2>3, HSetFacts, NewEntryFacts
  <2> QED
    BY <1>10, <2>2, <2>3 DEF ApplyResult
<1>11. CASE ApplyFails
  <2>1. at[Ranker] = "handle" /\ Message.sub \in Contest
    BY <1>11 DEF ApplyFails, StepOK
  <2>2. CASE HSet(Prev)
    BY <2>1, <2>2, HSetFacts, PrevFacts
  <2>3. CASE UNCHANGED <<entries, applied>>
    BY <2>1, <2>3 DEF CellsOK
  <2> QED
    BY <1>11, <2>2, <2>3 DEF ApplyFails
<1>12. ASSUME NEW p \in Goroutines, LoadEntries(p) PROVE CellsOK'
  BY <1>12 DEF LoadEntries, streamVars, boardVars, stepVars, adminVars, apiVars,
     history, CellsOK
<1>13. ASSUME NEW p \in Goroutines, ReadFlag(p) PROVE CellsOK'
  BY <1>13 DEF ReadFlag, streamVars, boardVars, stepVars, adminVars, apiVars, history,
     CellsOK
<1>14. ASSUME NEW p \in Goroutines, StoreSnapshot(p) PROVE CellsOK'
  BY <1>14 DEF StoreSnapshot, streamVars, boardVars, stepVars, adminVars, apiVars,
     history, CellsOK
<1>15. ASSUME NEW p \in Goroutines, RebuildFails(p) PROVE CellsOK'
  BY <1>15 DEF RebuildFails, streamVars, boardVars, stepVars, adminVars, apiVars,
     history, CellsOK
<1>16. ASSUME NEW p \in Goroutines, PublishSnapshot(p) PROVE CellsOK'
  BY <1>16 DEF PublishSnapshot, streamVars, boardVars, stepVars, adminVars, apiVars,
     history, CellsOK
<1>17. CASE RevealContest
  BY <1>17 DEF RevealContest, streamVars, boardVars, stepVars, adminVars, apiVars,
     history, CellsOK
<1>18. CASE ApiEnds
  BY <1>18 DEF ApiEnds, streamVars, boardVars, stepVars, adminVars, apiVars, history,
     CellsOK
<1>19. CASE ApiRestarts
  BY <1>19 DEF ApiRestarts, streamVars, boardVars, stepVars, adminVars, apiVars,
     history, CellsOK
<1>20. CASE UNCHANGED vars
  BY <1>20 DEF vars, streamVars, boardVars, stepVars, adminVars, apiVars, history,
     CellsOK
<1> QED
  BY <1>1, <1>2, <1>3, <1>4, <1>5, <1>6, <1>7, <1>8, <1>9, <1>10, <1>11, <1>12, <1>13,
     <1>14, <1>15, <1>16, <1>17, <1>18, <1>19, <1>20 DEF Next, RankerStep, Rebuild

\* So does the history.
LEMMA NextApplied ==
    TInv /\ [Next]_vars => AppliedOK'
<1> SUFFICES ASSUME TInv, [Next]_vars PROVE AppliedOK'
  OBVIOUS
<1> USE DEF TInv
<1>1. ASSUME NEW s \in Submissions, Judge(s) PROVE AppliedOK'
  BY <1>1 DEF Judge, streamVars, boardVars, stepVars, adminVars, apiVars, history,
     AppliedOK
<1>2. CASE EnsureGroup
  BY <1>2 DEF EnsureGroup, streamVars, boardVars, stepVars, adminVars, apiVars, history,
     AppliedOK
<1>3. CASE DrainPending
  BY <1>3 DEF DrainPending, streamVars, boardVars, stepVars, adminVars, apiVars,
     history, AppliedOK
<1>4. CASE DrainPendingFails
  BY <1>4 DEF DrainPendingFails, streamVars, boardVars, stepVars, adminVars, apiVars,
     history, AppliedOK
<1>5. CASE XReadGroup
  BY <1>5 DEF XReadGroup, streamVars, boardVars, stepVars, adminVars, apiVars, history,
     AppliedOK
<1>6. CASE XReadGroupLost
  BY <1>6 DEF XReadGroupLost, streamVars, boardVars, stepVars, adminVars, apiVars,
     history, AppliedOK
<1>7. CASE XAck
  BY <1>7 DEF XAck, streamVars, boardVars, stepVars, adminVars, apiVars, history,
     AppliedOK
<1>8. CASE XAckFails
  BY <1>8 DEF XAckFails, streamVars, boardVars, stepVars, adminVars, apiVars, history,
     AppliedOK
<1>9. CASE SkipPractice
  BY <1>9 DEF SkipPractice, streamVars, boardVars, stepVars, adminVars, apiVars,
     history, AppliedOK
<1>10. CASE ApplyResult
  <2>1. at[Ranker] = "handle" /\ Message.sub \in Contest
    BY <1>10 DEF ApplyResult, StepOK
  <2>2. CASE HSet(Prev)
    BY <2>1, <2>2, HSetFacts, PrevFacts
  <2>3. CASE HSet(NewEntry)
    BY <2>1, <2>3, HSetFacts, NewEntryFacts
  <2> QED
    BY <1>10, <2>2, <2>3 DEF ApplyResult
<1>11. CASE ApplyFails
  <2>1. at[Ranker] = "handle" /\ Message.sub \in Contest
    BY <1>11 DEF ApplyFails, StepOK
  <2>2. CASE HSet(Prev)
    BY <2>1, <2>2, HSetFacts, PrevFacts
  <2>3. CASE UNCHANGED <<entries, applied>>
    BY <2>1, <2>3 DEF AppliedOK
  <2> QED
    BY <1>11, <2>2, <2>3 DEF ApplyFails
<1>12. ASSUME NEW p \in Goroutines, LoadEntries(p) PROVE AppliedOK'
  BY <1>12 DEF LoadEntries, streamVars, boardVars, stepVars, adminVars, apiVars,
     history, AppliedOK
<1>13. ASSUME NEW p \in Goroutines, ReadFlag(p) PROVE AppliedOK'
  BY <1>13 DEF ReadFlag, streamVars, boardVars, stepVars, adminVars, apiVars, history,
     AppliedOK
<1>14. ASSUME NEW p \in Goroutines, StoreSnapshot(p) PROVE AppliedOK'
  BY <1>14 DEF StoreSnapshot, streamVars, boardVars, stepVars, adminVars, apiVars,
     history, AppliedOK
<1>15. ASSUME NEW p \in Goroutines, RebuildFails(p) PROVE AppliedOK'
  BY <1>15 DEF RebuildFails, streamVars, boardVars, stepVars, adminVars, apiVars,
     history, AppliedOK
<1>16. ASSUME NEW p \in Goroutines, PublishSnapshot(p) PROVE AppliedOK'
  BY <1>16 DEF PublishSnapshot, streamVars, boardVars, stepVars, adminVars, apiVars,
     history, AppliedOK
<1>17. CASE RevealContest
  BY <1>17 DEF RevealContest, streamVars, boardVars, stepVars, adminVars, apiVars,
     history, AppliedOK
<1>18. CASE ApiEnds
  BY <1>18 DEF ApiEnds, streamVars, boardVars, stepVars, adminVars, apiVars, history,
     AppliedOK
<1>19. CASE ApiRestarts
  BY <1>19 DEF ApiRestarts, streamVars, boardVars, stepVars, adminVars, apiVars,
     history, AppliedOK
<1>20. CASE UNCHANGED vars
  BY <1>20 DEF vars, streamVars, boardVars, stepVars, adminVars, apiVars, history,
     AppliedOK
<1> QED
  BY <1>1, <1>2, <1>3, <1>4, <1>5, <1>6, <1>7, <1>8, <1>9, <1>10, <1>11, <1>12, <1>13,
     <1>14, <1>15, <1>16, <1>17, <1>18, <1>19, <1>20 DEF Next, RankerStep, Rebuild

\* What a rebuild has read is a table and a flag.
LEMMA NextView ==
    TInv /\ [Next]_vars => ViewOK'
<1> SUFFICES ASSUME TInv, [Next]_vars PROVE ViewOK'
  OBVIOUS
<1> USE DEF TInv
<1>1. ASSUME NEW s \in Submissions, Judge(s) PROVE ViewOK'
  BY <1>1 DEF Judge, streamVars, boardVars, stepVars, adminVars, apiVars, history,
     ViewOK
<1>2. CASE EnsureGroup
  BY <1>2 DEF EnsureGroup, streamVars, boardVars, stepVars, adminVars, apiVars, history,
     ViewOK
<1>3. CASE DrainPending
  BY <1>3 DEF DrainPending, streamVars, boardVars, stepVars, adminVars, apiVars,
     history, ViewOK
<1>4. CASE DrainPendingFails
  BY <1>4 DEF DrainPendingFails, streamVars, boardVars, stepVars, adminVars, apiVars,
     history, ViewOK
<1>5. CASE XReadGroup
  BY <1>5 DEF XReadGroup, streamVars, boardVars, stepVars, adminVars, apiVars, history,
     ViewOK
<1>6. CASE XReadGroupLost
  BY <1>6 DEF XReadGroupLost, streamVars, boardVars, stepVars, adminVars, apiVars,
     history, ViewOK
<1>7. CASE XAck
  BY <1>7 DEF XAck, streamVars, boardVars, stepVars, adminVars, apiVars, history, ViewOK
<1>8. CASE XAckFails
  BY <1>8 DEF XAckFails, streamVars, boardVars, stepVars, adminVars, apiVars, history,
     ViewOK
<1>9. CASE SkipPractice
  BY <1>9 DEF SkipPractice, streamVars, boardVars, stepVars, adminVars, apiVars,
     history, ViewOK
<1>10. CASE ApplyResult
  BY <1>10 DEF ApplyResult, streamVars, boardVars, stepVars, adminVars, apiVars,
     history, ViewOK
<1>11. CASE ApplyFails
  BY <1>11 DEF ApplyFails, streamVars, boardVars, stepVars, adminVars, apiVars, history,
     ViewOK
<1>12. ASSUME NEW p \in Goroutines, LoadEntries(p) PROVE ViewOK'
  <2> DEFINE r == [view[p] EXCEPT !.entries = entries]
  <2>1. r \in [entries : Tables, revealed : BOOLEAN]
    BY DEF ViewOK, CellsOK
  <2>2. view' = [view EXCEPT ![p] = r]
    BY <1>12 DEF LoadEntries
  <2> HIDE DEF r
  <2> QED
    BY <2>1, <2>2 DEF ViewOK
<1>13. ASSUME NEW p \in Goroutines, ReadFlag(p) PROVE ViewOK'
  <2>1. PICK b \in BOOLEAN : view' = [view EXCEPT ![p].revealed = b]
    BY <1>13 DEF ReadFlag, FlagsOK
  <2> DEFINE r == [view[p] EXCEPT !.revealed = b]
  <2>2. r \in [entries : Tables, revealed : BOOLEAN]
    BY DEF ViewOK
  <2>3. view' = [view EXCEPT ![p] = r]
    BY <2>1
  <2> HIDE DEF r
  <2> QED
    BY <2>2, <2>3 DEF ViewOK
<1>14. ASSUME NEW p \in Goroutines, StoreSnapshot(p) PROVE ViewOK'
  BY <1>14 DEF StoreSnapshot, streamVars, boardVars, stepVars, adminVars, apiVars,
     history, ViewOK
<1>15. ASSUME NEW p \in Goroutines, RebuildFails(p) PROVE ViewOK'
  <2>1. view' = [view EXCEPT ![p] = EmptyView]
    BY <1>15 DEF RebuildFails
  <2> QED
    BY <2>1, EmptyViewFacts DEF ViewOK
<1>16. ASSUME NEW p \in Goroutines, PublishSnapshot(p) PROVE ViewOK'
  <2>1. view' = [view EXCEPT ![p] = EmptyView]
    BY <1>16 DEF PublishSnapshot
  <2> QED
    BY <2>1, EmptyViewFacts DEF ViewOK
<1>17. CASE RevealContest
  BY <1>17 DEF RevealContest, streamVars, boardVars, stepVars, adminVars, apiVars,
     history, ViewOK
<1>18. CASE ApiEnds
  BY <1>18, EmptyViewFacts DEF ApiEnds, ViewOK
<1>19. CASE ApiRestarts
  BY <1>19 DEF ApiRestarts, streamVars, boardVars, stepVars, adminVars, apiVars,
     history, ViewOK
<1>20. CASE UNCHANGED vars
  BY <1>20 DEF vars, streamVars, boardVars, stepVars, adminVars, apiVars, history,
     ViewOK
<1> QED
  BY <1>1, <1>2, <1>3, <1>4, <1>5, <1>6, <1>7, <1>8, <1>9, <1>10, <1>11, <1>12, <1>13,
     <1>14, <1>15, <1>16, <1>17, <1>18, <1>19, <1>20 DEF Next, RankerStep, Rebuild

\* The handler goes on only with a result of the contest.
LEMMA NextMessage ==
    TInv /\ [Next]_vars => MessageOK'
<1> SUFFICES ASSUME TInv, [Next]_vars PROVE MessageOK'
  OBVIOUS
<1> USE DEF TInv
<1>1. ASSUME NEW s \in Submissions, Judge(s) PROVE MessageOK'
  <2>1. UNCHANGED <<cur, step, at>>
    BY <1>1 DEF Judge, stepVars
  <2>2. SUFFICES ASSUME step[Ranker] \notin {"none", "apply"} PROVE Message' = Message
    BY <2>1 DEF MessageOK
  <2>3. at[Ranker] = "handle"
    BY <2>2 DEF StepOK
  <2>4. cur[Ranker] \in 1 .. Len(results.msgs)
    BY <2>3 DEF HeldOK, Pending, ResultQ!PendingIds, GroupOK
  <2> QED
    BY <2>1, <2>4, NextLogGrows DEF LogGrows, Message
<1>2. CASE EnsureGroup
  <2>1. step[Ranker] = "none" /\ step' = step
    BY <1>2 DEF EnsureGroup, ResultQ!EnsureGroup, StepOK, stepVars
  <2> QED
    BY <2>1 DEF MessageOK
<1>3. CASE DrainPending
  BY <1>3, Roles DEF DrainPending, StartHandling, MessageOK, StepOK
<1>4. CASE DrainPendingFails
  <2>1. step[Ranker] = "none" /\ step' = step
    BY <1>4 DEF DrainPendingFails, ResultQ!DrainPendingFails, StepOK, stepVars
  <2> QED
    BY <2>1 DEF MessageOK
<1>5. CASE XReadGroup
  BY <1>5, Roles DEF XReadGroup, StartHandling, MessageOK, StepOK
<1>6. CASE XReadGroupLost
  <2>1. step[Ranker] = "none" /\ step' = step
    BY <1>6 DEF XReadGroupLost, ResultQ!XReadGroupLost, StepOK, stepVars
  <2> QED
    BY <2>1 DEF MessageOK
<1>7. CASE XAck
  BY <1>7, Roles DEF XAck, StartHandling, MessageOK, StepOK
<1>8. CASE XAckFails
  BY <1>8, Roles DEF XAckFails, StartHandling, MessageOK, StepOK
<1>9. CASE SkipPractice
  BY <1>9, Roles DEF SkipPractice, HandlerDone, Goto, MessageOK, StepOK
<1>10. CASE ApplyResult
  BY <1>10, Roles DEF ApplyResult, Goto, MessageOK, StepOK, Message, streamVars
<1>11. CASE ApplyFails
  BY <1>11, Roles DEF ApplyFails, HandlerFails, StartHandling, MessageOK, StepOK
<1>12. ASSUME NEW p \in Goroutines, LoadEntries(p) PROVE MessageOK'
  BY <1>12, Roles DEF LoadEntries, Goto, MessageOK, StepOK, Message, streamVars
<1>13. ASSUME NEW p \in Goroutines, ReadFlag(p) PROVE MessageOK'
  BY <1>13, Roles DEF ReadFlag, Goto, MessageOK, StepOK, Message, streamVars
<1>14. ASSUME NEW p \in Goroutines, StoreSnapshot(p) PROVE MessageOK'
  BY <1>14, Roles DEF StoreSnapshot, Goto, MessageOK, StepOK, Message, streamVars
<1>15. ASSUME NEW p \in Goroutines, RebuildFails(p) PROVE MessageOK'
  <2>1. CASE HandlerFails
    BY <2>1, Roles DEF HandlerFails, StartHandling, MessageOK, StepOK
  <2>2. CASE Goto(Admin, "none") /\ UNCHANGED streamVars
    BY <2>2, Roles DEF Goto, MessageOK, StepOK, Message, streamVars
  <2> QED
    BY <1>15, <2>1, <2>2 DEF RebuildFails
<1>16. ASSUME NEW p \in Goroutines, PublishSnapshot(p) PROVE MessageOK'
  <2>1. CASE HandlerDone
    BY <2>1, Roles DEF HandlerDone, Goto, MessageOK, StepOK
  <2>2. CASE Goto(Admin, "none") /\ UNCHANGED streamVars
    BY <2>2, Roles DEF Goto, MessageOK, StepOK, Message, streamVars
  <2> QED
    BY <1>16, <2>1, <2>2 DEF PublishSnapshot
<1>17. CASE RevealContest
  BY <1>17, Roles DEF RevealContest, Goto, MessageOK, StepOK, Message, streamVars
<1>18. CASE ApiEnds
  BY <1>18, Roles DEF ApiEnds, MessageOK
<1>19. CASE ApiRestarts
  BY <1>19, Roles DEF ApiRestarts, ResultQ!Launch, MessageOK, Message, stepVars
<1>20. CASE UNCHANGED vars
  BY <1>20 DEF vars, streamVars, boardVars, stepVars, adminVars, apiVars, history,
     MessageOK, Message
<1> QED
  BY <1>1, <1>2, <1>3, <1>4, <1>5, <1>6, <1>7, <1>8, <1>9, <1>10, <1>11, <1>12, <1>13,
     <1>14, <1>15, <1>16, <1>17, <1>18, <1>19, <1>20 DEF Next, RankerStep, Rebuild

\* The initial state is well formed.
LEMMA InitTypes == Init => TInv
<1> SUFFICES ASSUME Init PROVE TInv
  OBVIOUS
<1> USE DEF Init, ResultQ!StreamInit
<1>1. LogOK /\ GroupOK
  BY DEF LogOK, GroupOK, ResultQ!EmptyLog, ResultQ!NewGroup
<1>2. LoopOK /\ HeldOK
  BY DEF LoopOK, LoopStates, HeldOK, Pending
<1>3. StepOK /\ ServerOK /\ MessageOK
  BY Roles DEF StepOK, Steps, ServerOK, MessageOK
<1>4. FlagsOK /\ AppliedOK
  <2>1. revealed \in BOOLEAN /\ raced \in BOOLEAN
    BY Zenon
  <2>2. <<>> \in Seq([sub : Contest, status : Verdicts])
    OBVIOUS
  <2> QED
    BY <2>1, <2>2 DEF FlagsOK, AppliedOK
<1>5. BudgetOK
  BY ContestAssumption DEF BudgetOK
<1>6. CellsOK /\ ViewOK
  BY EmptyTable, EmptyViewFacts DEF CellsOK, ViewOK
<1> QED
  BY <1>1, <1>2, <1>3, <1>4, <1>5, <1>6 DEF TInv

\* Every step keeps it so.
LEMMA NextTypes == TInv /\ [Next]_vars => TInv'
BY NextLog, NextGroup, NextLoop, NextHeld, NextStepOK, NextBudget, NextServer,
   NextFlags, NextCells, NextApplied, NextView, NextMessage DEF TInv

\* The types are an invariant.
LEMMA TypesInvariant == Spec => []TInv
BY InitTypes, NextTypes, PTL DEF Spec

\* Every variable of the ranking service keeps its type, and the frozen counters of an
\* entry agree with the list of its frozen results, whatever order the results come in
\* and whatever is rejudged, delivered again or interrupted (processContestResult, Apply).
THEOREM TypesHold == Spec => []TypeOK
<1>1. TInv => TypeOK
  <2> SUFFICES ASSUME TInv PROVE TypeOK
    OBVIOUS
  <2>1. ResultQ!StreamTypeOK(Result, {"ranking"} \X Nat)
    BY DEF TInv, LogOK, GroupOK, LoopOK, LoopStates, Names, ResultQ!StreamTypeOK
  <2>2. entries \in Tables /\ \A c \in DOMAIN entries : EntryOK(entries[c])
    BY DEF TInv, CellsOK
  <2>3. DOMAIN entries \subseteq Cells
    BY <2>2, TableFacts
  <2>4. \A c \in DOMAIN entries :
           /\ entries[c] \in ScoreEntry
           /\ entries[c].FrozenAttempts = Len(entries[c].FrozenResults)
           /\ entries[c].IsPending <=> entries[c].FrozenAttempts > 0
    BY <2>2 DEF EntryOK
  <2>5. /\ revealed \in BOOLEAN /\ api \in {"up", "down"}
        /\ step \in [Goroutines -> Steps]
        /\ reveal \in {"idle", "running", "done", "failed"}
        /\ budget \in 0 .. MaxFaults
    BY DEF TInv, FlagsOK, ServerOK, StepOK, BudgetOK
  <2> QED
    BY <2>1, <2>3, <2>4, <2>5 DEF TypeOK, Steps
<1> QED
  BY <1>1, TypesInvariant, PTL

-----------------------------------------------------------------------------
\* An entry while its frozen results are revealed: what makes it solved comes from
\* after the freeze.
Revealing(e) ==
    /\ e \in ScoreEntry
    /\ \A i \in 1 .. Len(e.FrozenResults) : e.FrozenResults[i].SubmitTime >= FreezeTime
    /\ e.Accepted => e.BestSubmitTime >= FreezeTime

\* RevealNext keeps it so.
LEMMA RevealNextFacts ==
    ASSUME NEW e, Revealing(e)
    PROVE  Revealing(RevealNext(e))
<1> DEFINE q == e.FrozenResults
           f == Head(q)
           left == IF e.FrozenAttempts = 0 THEN 0 ELSE e.FrozenAttempts - 1
           pend == e.IsPending /\ left > 0
           popped == [e EXCEPT !.FrozenResults = Tail(q),
                               !.FrozenAttempts = left,
                               !.IsPending = pend]
<1>1. CASE q = <<>>
  BY <1>1 DEF RevealNext
<1>2. CASE q # <<>>
  <2>1. q \in Seq(JudgedEvent) /\ Len(q) \in Nat \ {0}
    BY <1>2 DEF Revealing, ScoreEntry, JudgedEvent
  <2>2. /\ f \in JudgedEvent /\ f = q[1] /\ Tail(q) \in Seq(JudgedEvent)
        /\ Len(Tail(q)) = Len(q) - 1
        /\ \A i \in 1 .. Len(Tail(q)) : Tail(q)[i] = q[i + 1]
    BY <2>1
  <2>3. f.SubmitTime >= FreezeTime /\ f.SubmitTime \in Nat
    BY <2>1, <2>2 DEF Revealing, JudgedEvent
  <2>4. \A i \in 1 .. Len(Tail(q)) : Tail(q)[i].SubmitTime >= FreezeTime
    BY <2>1, <2>2 DEF Revealing
  <2>5. left \in Nat
    BY DEF Revealing, ScoreEntry
  <2>6. pend \in BOOLEAN
    BY Zenon
  <2>7. /\ RevealNext(e) = IF f.Status = "AC" THEN Solve(popped, f.SubmitTime)
                           ELSE [popped EXCEPT !.WrongAttemptCount = @ + 1,
                                               !.AttemptCount = @ + 1]
    BY <1>2 DEF RevealNext
  <2>8. /\ popped \in ScoreEntry /\ popped.FrozenResults = Tail(q)
        /\ popped.Accepted = e.Accepted /\ popped.BestSubmitTime = e.BestSubmitTime
    <3> HIDE DEF left, pend
    <3>1. e \in ScoreEntry /\ Tail(q) \in Seq(JudgedEvent)
      BY <2>2 DEF Revealing
    <3> QED
      BY <3>1, <2>5, <2>6 DEF ScoreEntry, JudgedEvent
  <2> HIDE DEF popped
  <2>9. CASE f.Status = "AC"
    <3>1. /\ Solve(popped, f.SubmitTime) \in ScoreEntry
          /\ Solve(popped, f.SubmitTime).FrozenResults = <<>>
          /\ Solve(popped, f.SubmitTime).BestSubmitTime = f.SubmitTime
      BY <2>8, <2>3, SolveFacts
    <3> QED
      BY <3>1, <2>3, <2>7, <2>9 DEF Revealing
  <2>10. CASE f.Status # "AC"
    <3> DEFINE r == [popped EXCEPT !.WrongAttemptCount = @ + 1, !.AttemptCount = @ + 1]
    <3>1. /\ r \in ScoreEntry /\ r.FrozenResults = popped.FrozenResults
          /\ r.Accepted = popped.Accepted /\ r.BestSubmitTime = popped.BestSubmitTime
      <4>1. popped \in ScoreEntry
        BY <2>8
      <4>2. r = [popped EXCEPT !.WrongAttemptCount = popped.WrongAttemptCount + 1,
                               !.AttemptCount = popped.AttemptCount + 1]
        BY <4>1 DEF ScoreEntry
      <4>3. popped.WrongAttemptCount + 1 \in Nat /\ popped.AttemptCount + 1 \in Nat
        BY <4>1 DEF ScoreEntry
      <4> HIDE DEF r
      <4> QED
        BY <4>1, <4>2, <4>3 DEF ScoreEntry
    <3>2. RevealNext(e) = r
      BY <2>7, <2>10
    <3> HIDE DEF r
    <3> QED
      BY <3>1, <3>2, <2>4, <2>8 DEF Revealing
  <2> QED
    BY <2>9, <2>10
<1> QED
  BY <1>1, <1>2

\* The loop of rebuildSnapshot is defined for any number of rounds.
LEMMA RevealLoop ==
    ASSUME NEW e, NEW n \in Nat
    PROVE  \E f : f = [k \in 0 .. n |-> IF k = 0 THEN e ELSE RevealNext(f[k - 1])]
<1> DEFINE Def(f, m) == f = [k \in 0 .. m |-> IF k = 0 THEN e ELSE RevealNext(f[k - 1])]
           Bad == {m \in Nat : ~ \E f : Def(f, m)}
<1>1. SUFFICES ASSUME Bad # {} PROVE FALSE
  OBVIOUS
<1>2. PICK m \in Bad : \A j \in Bad : ~ (<<j, m>> \in OpToRel(<, Nat))
  BY <1>1, NatLessThanWellFounded, WFMin, Zenon
<1>3. CASE m = 0
  <2> DEFINE f == [k \in 0 .. 0 |-> e]
  <2>1. Def(f, 0)
    OBVIOUS
  <2> QED
    BY <1>3, <2>1
<1>4. CASE m # 0
  <2>1. m - 1 \in Nat /\ m - 1 < m
    BY <1>4
  <2>2. ~ (m - 1 \in Bad)
    BY <1>2, <2>1 DEF OpToRel
  <2>3. PICK g : Def(g, m - 1)
    BY <2>1, <2>2
  <2> DEFINE f == [k \in 0 .. m |-> IF k = m THEN RevealNext(g[m - 1]) ELSE g[k]]
  <2>4. \A k \in 0 .. m : f[k] = IF k = 0 THEN e ELSE RevealNext(f[k - 1])
    <3> SUFFICES ASSUME NEW k \in 0 .. m
                 PROVE  f[k] = IF k = 0 THEN e ELSE RevealNext(f[k - 1])
      OBVIOUS
    <3>1. CASE k = m
      BY <3>1, <2>1
    <3>2. CASE k # m
      <4>1. k \in 0 .. m - 1 /\ f[k] = g[k]
        BY <3>2
      <4>2. g[k] = IF k = 0 THEN e ELSE RevealNext(g[k - 1])
        BY <4>1, <2>3
      <4>3. k # 0 => f[k - 1] = g[k - 1]
        BY <3>2
      <4> QED
        BY <4>1, <4>2, <4>3
    <3> QED
      BY <3>1, <3>2
  <2>5. Def(f, m)
    BY <2>4
  <2> QED
    BY <2>5
<1> QED
  BY <1>3, <1>4

\* It ends with the last round.
LEMMA RevealIsLast ==
    ASSUME NEW e \in ScoreEntry
    PROVE  \E F : /\ RevealAll(e) = F[Len(e.FrozenResults)]
                  /\ \A k \in 0 .. Len(e.FrozenResults) :
                        F[k] = IF k = 0 THEN e ELSE RevealNext(F[k - 1])
<1> DEFINE n == Len(e.FrozenResults)
           F == CHOOSE f : f = [k \in 0 .. n |-> IF k = 0 THEN e ELSE RevealNext(f[k - 1])]
<1>1. n \in Nat
  BY DEF ScoreEntry
<1>2. RevealAll(e) = F[n]
  BY DEF RevealAll
<1>3. F = [k \in 0 .. n |-> IF k = 0 THEN e ELSE RevealNext(F[k - 1])]
  <2> HIDE DEF n
  <2>1. \E f : f = [k \in 0 .. n |-> IF k = 0 THEN e ELSE RevealNext(f[k - 1])]
    BY <1>1, RevealLoop
  <2> QED
    BY <2>1, Zenon
<1> HIDE DEF F
<1>4. \A k \in 0 .. n : F[k] = IF k = 0 THEN e ELSE RevealNext(F[k - 1])
  BY <1>3, <1>1
<1> QED
  BY <1>2, <1>4

\* What the loop does: nothing without frozen results, else it keeps the above.
LEMMA RevealAllFacts ==
    ASSUME NEW e, e \in ScoreEntry
    PROVE  /\ e.FrozenResults = <<>> => RevealAll(e) = e
           /\ Revealing(e) => Revealing(RevealAll(e))
<1> DEFINE n == Len(e.FrozenResults)
<1>1. n \in Nat
  BY DEF ScoreEntry
<1>2. PICK F : /\ RevealAll(e) = F[n]
               /\ \A k \in 0 .. n : F[k] = IF k = 0 THEN e ELSE RevealNext(F[k - 1])
  BY RevealIsLast
<1>5. e.FrozenResults = <<>> => RevealAll(e) = e
  <2>1. e.FrozenResults = <<>> => n = 0
    OBVIOUS
  <2> QED
    BY <2>1, <1>1, <1>2
<1>6. ASSUME Revealing(e) PROVE Revealing(RevealAll(e))
  <2> HIDE DEF n
  <2> DEFINE Bad == {k \in 0 .. n : ~Revealing(F[k])}
  <2>1. SUFFICES ASSUME Bad # {} PROVE FALSE
    BY <1>1, <1>2
  <2>2. PICK k \in Bad : \A j \in Bad : ~ (<<j, k>> \in OpToRel(<, Nat))
    <3>1. Bad \subseteq Nat
      BY <1>1
    <3> QED
      BY <2>1, <3>1, NatLessThanWellFounded, WFMin, Zenon
  <2>3. CASE k = 0
    BY <2>3, <2>2, <1>2, <1>6
  <2>4. CASE k # 0
    <3>0. k \in 0 .. n
      BY <2>2
    <3>1. k - 1 \in 0 .. n /\ k - 1 \in Nat /\ k \in Nat /\ k - 1 < k
      <4> HIDE DEF Bad
      <4> QED
        BY <3>0, <2>4, <1>1
    <3>2. ~ (k - 1 \in Bad)
      BY <2>2, <3>1 DEF OpToRel
    <3>3. Revealing(F[k - 1])
      BY <3>1, <3>2
    <3>4. F[k] = RevealNext(F[k - 1])
      BY <2>2, <2>4, <1>2
    <3>5. Revealing(F[k])
      BY <3>3, <3>4, RevealNextFacts
    <3> QED
      BY <2>2, <3>5
  <2> QED
    BY <2>3, <2>4
<1> QED
  BY <1>5, <1>6

\* Revealing an entry: one that is solved stays as it is, any other can only become
\* solved by a submission made after the freeze.
LEMMA RevealEntry ==
    ASSUME NEW e, EntryOK(e)
    PROVE  /\ e.Accepted => RevealAll(e) = e /\ e.BestSubmitTime < FreezeTime
           /\ ~e.Accepted /\ RevealAll(e).Accepted =>
                 RevealAll(e).BestSubmitTime >= FreezeTime
           /\ e.BestSubmitTime \in Nat /\ RevealAll(e).BestSubmitTime \in Nat
<1>1. e \in ScoreEntry /\ (e.Accepted => e.FrozenResults = <<>> /\ e.BestSubmitTime < FreezeTime)
  BY DEF EntryOK
<1>2. e.Accepted => RevealAll(e) = e
  BY <1>1, RevealAllFacts
<1>3. ~e.Accepted => Revealing(e)
  BY <1>1 DEF EntryOK, Revealing
<1>4. ~e.Accepted => Revealing(RevealAll(e))
  BY <1>1, <1>3, RevealAllFacts
<1>5. e.BestSubmitTime \in Nat
  BY <1>1 DEF ScoreEntry
<1>6. RevealAll(e).BestSubmitTime \in Nat
  BY <1>2, <1>4, <1>5 DEF Revealing, ScoreEntry
<1> QED
  BY <1>1, <1>2, <1>4, <1>5, <1>6 DEF Revealing

\* A cell solved before the reveal keeps its first blood, or its lack of it.
LEMMA RevealKeepsFirstBlood ==
    ASSUME TInv, NEW c \in DOMAIN entries, entries[c].Accepted
    PROVE  c \in assignFirstBlood(Shown(entries, TRUE)) <=> c \in assignFirstBlood(entries)
<1> DEFINE E == entries
           R == [d \in DOMAIN E |-> RevealAll(E[d])]
           Beats(T, d) == \/ T[c].BestSubmitTime < T[d].BestSubmitTime
                          \/ T[c].BestSubmitTime = T[d].BestSubmitTime /\ c[1] < d[1]
<1>1. Shown(entries, TRUE) = R
  BY DEF Shown
<1>2. DOMAIN R = DOMAIN E /\ \A d \in DOMAIN E : R[d] = RevealAll(E[d])
  OBVIOUS
<1>3. ASSUME NEW d \in DOMAIN E
      PROVE  /\ E[d].Accepted => R[d] = E[d]
             /\ ~E[d].Accepted /\ R[d].Accepted => R[d].BestSubmitTime >= FreezeTime
             /\ E[d].BestSubmitTime \in Nat /\ R[d].BestSubmitTime \in Nat
  <2>1. EntryOK(E[d])
    BY DEF TInv, CellsOK
  <2> QED
    BY <2>1, <1>2, RevealEntry
<1>4. R[c] = E[c] /\ E[c].BestSubmitTime < FreezeTime /\ R[c].Accepted
  <2>1. EntryOK(E[c])
    BY DEF TInv, CellsOK
  <2> QED
    BY <2>1, <1>2, RevealEntry
<1>5. FreezeTime \in Nat
  BY RulesAssumption
<1>6. assignFirstBlood(R) = {x \in DOMAIN R : R[x].Accepted /\ \A d \in DOMAIN R :
            R[d].Accepted /\ d[2] = x[2] /\ d # x =>
                \/ R[x].BestSubmitTime < R[d].BestSubmitTime
                \/ R[x].BestSubmitTime = R[d].BestSubmitTime /\ x[1] < d[1]}
  BY DEF assignFirstBlood
<1>7. assignFirstBlood(E) = {x \in DOMAIN E : E[x].Accepted /\ \A d \in DOMAIN E :
            E[d].Accepted /\ d[2] = x[2] /\ d # x =>
                \/ E[x].BestSubmitTime < E[d].BestSubmitTime
                \/ E[x].BestSubmitTime = E[d].BestSubmitTime /\ x[1] < d[1]}
  BY DEF assignFirstBlood
<1> HIDE DEF R, E
<1>8. c \in assignFirstBlood(R) <=>
         \A d \in DOMAIN E : R[d].Accepted /\ d[2] = c[2] /\ d # c => Beats(R, d)
  BY <1>2, <1>4, <1>6 DEF E
<1>9. c \in assignFirstBlood(E) <=>
         \A d \in DOMAIN E : E[d].Accepted /\ d[2] = c[2] /\ d # c => Beats(E, d)
  BY <1>7 DEF E
<1>10. ASSUME NEW d \in DOMAIN E
       PROVE  (R[d].Accepted => Beats(R, d)) <=> (E[d].Accepted => Beats(E, d))
  <2>1. CASE E[d].Accepted
    BY <2>1, <1>3, <1>4
  <2>2. CASE ~E[d].Accepted
    <3>1. ASSUME R[d].Accepted PROVE R[c].BestSubmitTime < R[d].BestSubmitTime
      <4>1. R[d].BestSubmitTime >= FreezeTime /\ R[d].BestSubmitTime \in Nat
        BY <2>2, <3>1, <1>3
      <4>2. R[c].BestSubmitTime < FreezeTime /\ R[c].BestSubmitTime \in Nat
        BY <1>3, <1>4 DEF E
      <4> QED
        BY <4>1, <4>2, <1>5
    <3> QED
      BY <2>2, <3>1
  <2> QED
    BY <2>1, <2>2
<1> QED
  BY <1>1, <1>8, <1>9, <1>10 DEF E

\* The reveal only adds to the board, whatever order the results were merged in: a cell
\* that was solved keeps its attempts, its penalty and its first blood, because what is
\* revealed was submitted after the freeze and what is solved was decided before it
\* (RevealNext, assignFirstBlood in rebuildSnapshot).
THEOREM RevealOnlyAddsHolds == Spec => []RevealOnlyAdds
<1>1. TInv => RevealOnlyAdds
  <2> SUFFICES ASSUME TInv, NEW c \in DOMAIN entries, entries[c].Accepted
               PROVE  BoardCells(Shown(entries, TRUE))[c] = BoardCells(Shown(entries, FALSE))[c]
    BY DEF RevealOnlyAdds, BoardCells, Shown
  <2> DEFINE R == Shown(entries, TRUE)
  <2>1. EntryOK(entries[c])
    BY DEF TInv, CellsOK
  <2>2. Shown(entries, FALSE) = entries
    BY DEF Shown
  <2>3. DOMAIN R = DOMAIN entries /\ R[c] = entries[c]
    BY <2>1, RevealEntry DEF Shown
  <2>4. c \in assignFirstBlood(R) <=> c \in assignFirstBlood(entries)
    BY RevealKeepsFirstBlood
  <2> HIDE DEF R
  <2>5. BoardCells(R)[c] =
           [Solved |-> R[c].Accepted, Attempts |-> R[c].WrongAttemptCount,
            Pending |-> R[c].FrozenAttempts, Penalty |-> R[c].Penalty,
            FirstBlood |-> c \in assignFirstBlood(R)]
    BY <2>3 DEF BoardCells
  <2>6. BoardCells(entries)[c] =
           [Solved |-> entries[c].Accepted, Attempts |-> entries[c].WrongAttemptCount,
            Pending |-> entries[c].FrozenAttempts, Penalty |-> entries[c].Penalty,
            FirstBlood |-> c \in assignFirstBlood(entries)]
    BY DEF BoardCells
  <2>7. BoardCells(R)[c] = BoardCells(entries)[c]
    <3> DEFINE S == assignFirstBlood(R)
               T == assignFirstBlood(entries)
    <3> HIDE DEF S, T
    <3>1. (c \in S) = (c \in T)
      BY <2>4 DEF S, T
    <3> QED
      BY <2>3, <2>5, <2>6, <3>1 DEF S, T
  <2> QED
    BY <2>2, <2>7 DEF R
<1> QED
  BY <1>1, TypesInvariant, PTL

-----------------------------------------------------------------------------
\* One round of the reference: the i-th merged result counts for cell c if it is one of
\* the cell's and was submitted before the freeze.
MergeOne(q, c, i, e) ==
    IF Cell(q[i].sub) = c /\ q[i].sub.time < FreezeTime THEN Apply(Event(q[i]), e) ELSE e

MergeRounds(q, c, n, f) ==
    f = [i \in 0 .. n |-> IF i = 0 THEN NewEntry ELSE MergeOne(q, c, i, f[i - 1])]

\* The entry that the first k of the results q make of cell c.
Merge(q, c, k) == (CHOOSE f : MergeRounds(q, c, k, f))[k]

\* It is the one the reference shows.
LEMMA MergedIsMerge ==
    ASSUME NEW c, NEW k
    PROVE  /\ Merged(c, k) = Score(Merge(applied, c, k))
           /\ Merged(c, k)' = Score(Merge(applied', c, k))
<1>1. Merged(c, k) = Score(Merge(applied, c, k))
  BY Zenon DEF Merged, Merge, MergeRounds, MergeOne, Score
<1>2. Merged(c, k)' = Score(Merge(applied', c, k))
  BY Zenon DEF Merged, Merge, MergeRounds, MergeOne, Score
<1> QED
  BY <1>1, <1>2

\* Any number of rounds can be made.
LEMMA MergeLoop ==
    ASSUME NEW q, NEW c, NEW n \in Nat
    PROVE  \E f : MergeRounds(q, c, n, f)
<1> DEFINE Bad == {m \in Nat : ~ \E f : MergeRounds(q, c, m, f)}
<1>1. SUFFICES ASSUME Bad # {} PROVE FALSE
  OBVIOUS
<1>2. PICK m \in Bad : \A j \in Bad : ~ (<<j, m>> \in OpToRel(<, Nat))
  BY <1>1, NatLessThanWellFounded, WFMin, Zenon
<1>3. CASE m = 0
  <2> DEFINE f == [i \in 0 .. 0 |-> NewEntry]
  <2>1. MergeRounds(q, c, 0, f)
    BY DEF MergeRounds
  <2> QED
    BY <1>2, <1>3, <2>1
<1>4. CASE m # 0
  <2>1. m - 1 \in Nat /\ m - 1 < m
    BY <1>4
  <2>2. ~ (m - 1 \in Bad)
    BY <1>2, <2>1 DEF OpToRel
  <2>3. PICK g : MergeRounds(q, c, m - 1, g)
    BY <2>1, <2>2
  <2> DEFINE f == [i \in 0 .. m |-> IF i = m THEN MergeOne(q, c, m, g[m - 1]) ELSE g[i]]
  <2>4. \A i \in 0 .. m : f[i] = IF i = 0 THEN NewEntry ELSE MergeOne(q, c, i, f[i - 1])
    <3> SUFFICES ASSUME NEW i \in 0 .. m
                 PROVE  f[i] = IF i = 0 THEN NewEntry ELSE MergeOne(q, c, i, f[i - 1])
      OBVIOUS
    <3>1. CASE i = m
      BY <3>1, <2>1
    <3>2. CASE i # m
      <4>1. i \in 0 .. m - 1 /\ f[i] = g[i]
        BY <3>2
      <4>2. g[i] = IF i = 0 THEN NewEntry ELSE MergeOne(q, c, i, g[i - 1])
        BY <4>1, <2>3 DEF MergeRounds
      <4>3. i # 0 => f[i - 1] = g[i - 1]
        BY <3>2
      <4> QED
        BY <4>1, <4>2, <4>3
    <3> QED
      BY <3>1, <3>2
  <2>5. MergeRounds(q, c, m, f)
    BY <2>4 DEF MergeRounds
  <2> QED
    BY <1>2, <2>5
<1> QED
  BY <1>3, <1>4

\* Rounds over results that agree make the same entries.
LEMMA MergeAgree ==
    ASSUME NEW q, NEW r, NEW c, NEW k \in Nat, \A i \in 1 .. k : q[i] = r[i],
           NEW m \in Nat, NEW n \in Nat, k <= m, k <= n,
           NEW f, NEW g, MergeRounds(q, c, m, f), MergeRounds(r, c, n, g)
    PROVE  f[k] = g[k]
<1> DEFINE Bad == {i \in 0 .. k : f[i] # g[i]}
<1>1. SUFFICES ASSUME Bad # {} PROVE FALSE
  OBVIOUS
<1>2. PICK i \in Bad : \A j \in Bad : ~ (<<j, i>> \in OpToRel(<, Nat))
  <2>1. Bad \subseteq Nat
    OBVIOUS
  <2> QED
    BY <1>1, <2>1, NatLessThanWellFounded, WFMin, Zenon
<1>3. i \in 0 .. k /\ i \in 0 .. m /\ i \in 0 .. n /\ i \in Nat /\ f[i] # g[i]
  <2>1. i \in 0 .. k /\ f[i] # g[i]
    BY <1>2
  <2> HIDE DEF Bad
  <2> QED
    BY <2>1
<1>4. f[i] = IF i = 0 THEN NewEntry ELSE MergeOne(q, c, i, f[i - 1])
  BY <1>3 DEF MergeRounds
<1>5. g[i] = IF i = 0 THEN NewEntry ELSE MergeOne(r, c, i, g[i - 1])
  BY <1>3 DEF MergeRounds
<1>6. i # 0
  BY <1>3, <1>4, <1>5
<1>7. i - 1 \in 0 .. k /\ i - 1 \in Nat /\ i - 1 < i /\ q[i] = r[i]
  <2> HIDE DEF Bad
  <2> QED
    BY <1>3, <1>6
<1>8. ~ (i - 1 \in Bad)
  BY <1>2, <1>3, <1>7 DEF OpToRel
<1>9. f[i - 1] = g[i - 1]
  BY <1>7, <1>8
<1>10. MergeOne(q, c, i, f[i - 1]) = MergeOne(r, c, i, g[i - 1])
  BY <1>7, <1>9 DEF MergeOne
<1> QED
  BY <1>3, <1>4, <1>5, <1>6, <1>10

\* The entry is the last one of its rounds.
LEMMA MergeIsLast ==
    ASSUME NEW q, NEW c, NEW k \in Nat
    PROVE  \E f : MergeRounds(q, c, k, f) /\ Merge(q, c, k) = f[k]
<1>1. \E f : MergeRounds(q, c, k, f)
  BY MergeLoop
<1> QED
  BY <1>1, Zenon DEF Merge

\* It reads only the results it is asked about.
LEMMA MergePrefix ==
    ASSUME NEW q, NEW r, NEW c, NEW k \in Nat, \A i \in 1 .. k : q[i] = r[i]
    PROVE  Merge(q, c, k) = Merge(r, c, k)
<1>1. PICK f : MergeRounds(q, c, k, f) /\ Merge(q, c, k) = f[k]
  BY MergeIsLast
<1>2. PICK g : MergeRounds(r, c, k, g) /\ Merge(r, c, k) = g[k]
  BY MergeIsLast
<1>3. f[k] = g[k]
  BY <1>1, <1>2, MergeAgree
<1> QED
  BY <1>1, <1>2, <1>3

\* The reference round by round.
LEMMA MergeFacts ==
    ASSUME NEW q, NEW c
    PROVE  /\ Merge(q, c, 0) = NewEntry
           /\ \A k \in Nat : Merge(q, c, k + 1) = MergeOne(q, c, k + 1, Merge(q, c, k))
<1>1. Merge(q, c, 0) = NewEntry
  <2>1. PICK f : MergeRounds(q, c, 0, f) /\ Merge(q, c, 0) = f[0]
    BY MergeIsLast
  <2> QED
    BY <2>1 DEF MergeRounds
<1>2. ASSUME NEW k \in Nat PROVE Merge(q, c, k + 1) = MergeOne(q, c, k + 1, Merge(q, c, k))
  <2>1. PICK f : MergeRounds(q, c, k + 1, f) /\ Merge(q, c, k + 1) = f[k + 1]
    BY MergeIsLast
  <2>2. PICK g : MergeRounds(q, c, k, g) /\ Merge(q, c, k) = g[k]
    BY MergeIsLast
  <2>3. f = [i \in 0 .. k + 1 |-> IF i = 0 THEN NewEntry ELSE MergeOne(q, c, i, f[i - 1])]
    BY <2>1 DEF MergeRounds
  <2>4. k + 1 \in 0 .. k + 1 /\ k + 1 # 0 /\ (k + 1) - 1 = k
    OBVIOUS
  <2>5. f[k + 1] = IF k + 1 = 0 THEN NewEntry ELSE MergeOne(q, c, k + 1, f[(k + 1) - 1])
    BY <2>3, <2>4
  <2>6. f[k + 1] = MergeOne(q, c, k + 1, f[k])
    BY <2>4, <2>5
  <2>7. f[k] = g[k]
    BY <2>1, <2>2, MergeAgree
  <2> QED
    BY <2>1, <2>2, <2>6, <2>7
<1> QED
  BY <1>1, <1>2

\* What the unrevealed board shows of an entry after Apply depends only on what it
\* showed before, and on nothing that was submitted after the freeze.
LEMMA ScoreApply ==
    ASSUME NEW e, EntryOK(e), NEW v \in JudgedEvent
    PROVE  /\ isPostFreeze(v.SubmitTime) => Score(Apply(v, e)) = Score(e)
           /\ \A d : EntryOK(d) /\ Score(d) = Score(e) /\ ~isPostFreeze(v.SubmitTime)
                        => Score(Apply(v, d)) = Score(Apply(v, e))
<1>1. isPostFreeze(v.SubmitTime) => Score(Apply(v, e)) = Score(e)
  BY FreezeFacts DEF Apply
<1>2. ASSUME NEW d, EntryOK(d), Score(d) = Score(e), ~isPostFreeze(v.SubmitTime)
      PROVE  Score(Apply(v, d)) = Score(Apply(v, e))
  <2>1. /\ d.Accepted = e.Accepted /\ d.WrongAttemptCount = e.WrongAttemptCount
        /\ d.Penalty = e.Penalty
    BY <1>2 DEF Score
  <2>2. CASE e.Accepted
    BY <2>1, <2>2, <1>2 DEF Apply
  <2>3. CASE ~e.Accepted
    <3>1. Apply(v, d) = Attempt(v, d) /\ Apply(v, e) = Attempt(v, e)
      BY <2>1, <2>3, <1>2 DEF Apply
    <3> DEFINE S(y) == IF v.Status = "AC"
                       THEN [Solved |-> TRUE, Attempts |-> y.WrongAttemptCount,
                             Penalty |-> elapsedMins(v.SubmitTime)
                                            + y.WrongAttemptCount * PenaltyMinutes]
                       ELSE [Solved |-> FALSE,
                             Attempts |-> IF ignoreCE(v.Status) THEN y.WrongAttemptCount
                                          ELSE y.WrongAttemptCount + 1,
                             Penalty |-> y.Penalty]
    <3>2. Score(Attempt(v, d)) = S(d)
      BY <2>1, <2>3, <1>2, AttemptFacts
    <3>3. Score(Attempt(v, e)) = S(e)
      BY <2>3, <1>2, AttemptFacts
    <3>4. S(d) = S(e)
      BY <2>1, Zenon
    <3> HIDE DEF S
    <3> QED
      BY <3>1, <3>2, <3>3, <3>4
  <2> QED
    BY <2>2, <2>3
<1> QED
  BY <1>1, <1>2

MergedResults == Seq([sub : Contest, status : Verdicts])

\* The event a merged result stands for.
LEMMA ResultEvent ==
    ASSUME NEW q \in MergedResults, NEW i \in 1 .. Len(q)
    PROVE  Event(q[i]) \in JudgedEvent
<1>1. q[i] \in [sub : Contest, status : Verdicts]
  <2> DEFINE S == [sub : Contest, status : Verdicts]
  <2>1. q \in Seq(S)
    BY DEF MergedResults
  <2> HIDE DEF S
  <2>2. q[i] \in S
    BY <2>1
  <2> QED
    BY <2>2 DEF S
<1>2. q[i].sub.time \in Nat /\ q[i].status \in Verdicts
  BY <1>1, ContestAssumption
<1> QED
  BY <1>2 DEF Event, JudgedEvent

\* The reference is always a well-formed entry.
LEMMA MergeOK ==
    ASSUME NEW q \in MergedResults, NEW c, NEW k \in 0 .. Len(q)
    PROVE  EntryOK(Merge(q, c, k))
<1> DEFINE Bad == {j \in 0 .. Len(q) : ~EntryOK(Merge(q, c, j))}
<1>1. SUFFICES ASSUME Bad # {} PROVE FALSE
  OBVIOUS
<1>2. Len(q) \in Nat
  BY DEF MergedResults
<1>3. PICK i \in Bad : \A j \in Bad : ~ (<<j, i>> \in OpToRel(<, Nat))
  <2>1. Bad \subseteq Nat
    BY <1>2
  <2> QED
    BY <1>1, <2>1, NatLessThanWellFounded, WFMin, Zenon
<1>4. i \in 0 .. Len(q) /\ ~EntryOK(Merge(q, c, i))
  BY <1>3
<1>5. CASE i = 0
  BY <1>4, <1>5, MergeFacts, NewEntryFacts
<1>6. CASE i # 0
  <2> DEFINE j == i - 1
  <2>1. j \in Nat /\ i = j + 1 /\ j \in 0 .. Len(q) /\ j < i /\ i \in 1 .. Len(q) /\ i \in Nat
    <3> HIDE DEF Bad
    <3> QED
      BY <1>2, <1>4, <1>6
  <2> HIDE DEF j
  <2>2. ~ (j \in Bad)
    BY <1>3, <2>1 DEF OpToRel
  <2>3. EntryOK(Merge(q, c, j))
    BY <2>1, <2>2
  <2>4. Merge(q, c, i) = MergeOne(q, c, i, Merge(q, c, j))
    BY <2>1, MergeFacts
  <2>5. Event(q[i]) \in JudgedEvent
    BY <2>1, ResultEvent
  <2>6. EntryOK(Merge(q, c, i))
    BY <2>3, <2>4, <2>5, ApplyFacts DEF MergeOne
  <2> QED
    BY <2>6, <1>4
<1> QED
  BY <1>5, <1>6

\* A step merges nothing, or the result it was given into the entry it has read.
EntriesMove ==
    \/ UNCHANGED <<entries, applied>>
    \/ at[Ranker] = "handle" /\ Message.sub \in Contest /\ HSet(Prev)

\* What is merged later changes nothing of what the reference showed before.
LEMMA MergedStays ==
    ASSUME AppliedOK, applied' = applied \/ \E m : applied' = Append(applied, m)
    PROVE  /\ Len(applied) \in Nat /\ Len(applied') \in Nat /\ Len(applied) <= Len(applied')
           /\ \A c : \A k \in 0 .. Len(applied) : Merged(c, k)' = Merged(c, k)
<1>1. applied \in MergedResults
  BY DEF AppliedOK, MergedResults
<1>2. /\ Len(applied) \in Nat /\ Len(applied') \in Nat /\ Len(applied) <= Len(applied')
      /\ \A i \in 1 .. Len(applied) : applied[i] = applied'[i]
  BY <1>1 DEF MergedResults
<1>3. ASSUME NEW c, NEW k \in 0 .. Len(applied) PROVE Merged(c, k)' = Merged(c, k)
  <2>1. k \in Nat /\ \A i \in 1 .. k : applied[i] = applied'[i]
    BY <1>2
  <2>2. Merge(applied, c, k) = Merge(applied', c, k)
    BY <2>1, MergePrefix
  <2> QED
    BY <2>2, MergedIsMerge
<1> QED
  BY <1>2, <1>3

\* Merging a result keeps every cell what the reference makes of it.
LEMMA MergeKept ==
    ASSUME TInv, EntriesMerged, EntriesMove
    PROVE  EntriesMerged'
<1> DEFINE n == Len(applied)
           E(c) == IF c \in DOMAIN entries THEN entries[c] ELSE NewEntry
<1>1. AppliedOK /\ applied \in MergedResults /\ n \in Nat
  BY DEF TInv, AppliedOK, MergedResults
<1>2. CASE UNCHANGED <<entries, applied>>
  <2>1. \A c \in Cells : Merged(c, Len(applied))' = Merged(c, Len(applied))
    BY <1>2 DEF Merged
  <2> QED
    BY <1>2, <2>1 DEF EntriesMerged
<1>3. CASE at[Ranker] = "handle" /\ Message.sub \in Contest /\ HSet(Prev)
  <2> DEFINE x == Cell(Message.sub)
             v == Event(Message)
  <2>1. EntryOK(Prev) /\ Prev = E(x)
    BY PrevFacts DEF Prev
  <2>2. /\ applied' = Append(applied, Message)
        /\ DOMAIN entries' = DOMAIN entries \cup {x}
        /\ entries'[x] = Apply(v, Prev)
        /\ \A c \in DOMAIN entries : c # x => entries'[c] = entries[c]
    BY <1>3, <2>1, HSetFacts
  <2>3. /\ v \in JudgedEvent /\ v.SubmitTime = Message.sub.time
        /\ Message.sub.time \in Nat
    <3>1. v \in JudgedEvent
      BY <1>3, MessageFacts DEF TInv
    <3>2. v.SubmitTime = Message.sub.time
      BY DEF Event
    <3> QED
      BY <3>1, <3>2 DEF JudgedEvent
  <2>4. Len(applied') = n + 1 /\ applied'[n + 1] = Message
    BY <1>1, <2>2 DEF MergedResults
  <2> HIDE DEF n, v
  <2>5. ASSUME NEW c \in Cells
        PROVE  Merged(c, Len(applied))' =
                  Score(IF c \in DOMAIN entries' THEN entries'[c] ELSE NewEntry)
    <3>1. Merged(c, Len(applied))' = Score(Merge(applied', c, n + 1))
      <4>1. Merged(c, Len(applied))' = Score(Merge(applied', c, Len(applied')))
        BY Zenon DEF Merged, Merge, MergeRounds, MergeOne, Score
      <4> QED
        BY <4>1, <2>4
    <3>2. Merge(applied', c, n + 1) = MergeOne(applied', c, n + 1, Merge(applied', c, n))
      BY <1>1, MergeFacts
    <3>3. Merge(applied', c, n) = Merge(applied, c, n)
      <4>1. \A i \in 1 .. n : applied'[i] = applied[i]
        BY <1>1, <2>2 DEF MergedResults, n
      <4> QED
        BY <4>1, <1>1, MergePrefix
    <3> DEFINE M == Merge(applied, c, n)
    <3>4. EntryOK(M) /\ Score(M) = Score(E(c))
      <4>1. EntryOK(M)
        BY <1>1, MergeOK DEF n
      <4>2. Merged(c, n) = Score(M)
        BY MergedIsMerge
      <4> QED
        BY <4>1, <4>2 DEF EntriesMerged, n
    <3> HIDE DEF M
    <3>5. CASE c # x
      <4>1. Merge(applied', c, n + 1) = M
        BY <3>2, <3>3, <3>5, <2>4 DEF MergeOne, M
      <4>2. (IF c \in DOMAIN entries' THEN entries'[c] ELSE NewEntry) = E(c)
        BY <2>2, <3>5
      <4> QED
        BY <3>1, <3>4, <4>1, <4>2
    <3>6. CASE c = x
      <4>1. (IF c \in DOMAIN entries' THEN entries'[c] ELSE NewEntry) = Apply(v, Prev)
        BY <2>2, <3>6
      <4>2. CASE Message.sub.time < FreezeTime
        <5>1. Merge(applied', c, n + 1) = Apply(v, M)
          BY <3>2, <3>3, <3>6, <4>2, <2>4 DEF MergeOne, M, v
        <5>2. ~isPostFreeze(v.SubmitTime)
          BY <4>2, <2>3, RulesAssumption DEF isPostFreeze
        <5>3. Score(Apply(v, M)) = Score(Apply(v, Prev))
          BY <5>2, <2>1, <2>3, <3>4, <3>6, ScoreApply
        <5> QED
          BY <3>1, <4>1, <5>1, <5>3
      <4>3. CASE ~(Message.sub.time < FreezeTime)
        <5>1. Merge(applied', c, n + 1) = M
          BY <3>2, <3>3, <4>3, <2>4 DEF MergeOne, M
        <5>2. isPostFreeze(v.SubmitTime)
          BY <4>3, <2>3, RulesAssumption DEF isPostFreeze
        <5>3. Score(Apply(v, Prev)) = Score(Prev)
          BY <5>2, <2>1, <2>3, ScoreApply
        <5> QED
          BY <3>1, <3>4, <3>6, <2>1, <4>1, <5>1, <5>3
      <4> QED
        BY <4>2, <4>3
    <3> QED
      BY <3>5, <3>6
  <2> QED
    BY <2>5 DEF EntriesMerged
<1> QED
  BY <1>2, <1>3 DEF EntriesMove

\* As long as HGET does not fail, results are merged into the entries they belong to.
LEMMA NextEntries ==
    TInv /\ EntryReadable /\ [Next]_vars => EntriesMove
<1> SUFFICES ASSUME TInv /\ EntryReadable, [Next]_vars PROVE EntriesMove
  OBVIOUS
<1> USE DEF TInv
<1>1. ASSUME NEW s \in Submissions, Judge(s) PROVE EntriesMove
  BY <1>1 DEF Judge, streamVars, boardVars, stepVars, adminVars, apiVars, history,
     EntriesMove
<1>2. CASE EnsureGroup
  BY <1>2 DEF EnsureGroup, streamVars, boardVars, stepVars, adminVars, apiVars, history,
     EntriesMove
<1>3. CASE DrainPending
  BY <1>3 DEF DrainPending, streamVars, boardVars, stepVars, adminVars, apiVars,
     history, EntriesMove
<1>4. CASE DrainPendingFails
  BY <1>4 DEF DrainPendingFails, streamVars, boardVars, stepVars, adminVars, apiVars,
     history, EntriesMove
<1>5. CASE XReadGroup
  BY <1>5 DEF XReadGroup, streamVars, boardVars, stepVars, adminVars, apiVars, history,
     EntriesMove
<1>6. CASE XReadGroupLost
  BY <1>6 DEF XReadGroupLost, streamVars, boardVars, stepVars, adminVars, apiVars,
     history, EntriesMove
<1>7. CASE XAck
  BY <1>7 DEF XAck, streamVars, boardVars, stepVars, adminVars, apiVars, history,
     EntriesMove
<1>8. CASE XAckFails
  BY <1>8 DEF XAckFails, streamVars, boardVars, stepVars, adminVars, apiVars, history,
     EntriesMove
<1>9. CASE SkipPractice
  BY <1>9 DEF SkipPractice, streamVars, boardVars, stepVars, adminVars, apiVars,
     history, EntriesMove
<1>10. CASE ApplyResult
  <2>1. at[Ranker] = "handle" /\ Message.sub \in Contest
    BY <1>10 DEF ApplyResult, StepOK
  <2>2. HSet(Prev)
    BY <1>10 DEF ApplyResult, Fault, EntryReadable
  <2> QED
    BY <2>1, <2>2 DEF EntriesMove
<1>11. CASE ApplyFails
  <2>1. at[Ranker] = "handle" /\ Message.sub \in Contest
    BY <1>11 DEF ApplyFails, StepOK
  <2> QED
    BY <1>11, <2>1 DEF ApplyFails, EntriesMove
<1>12. ASSUME NEW p \in Goroutines, LoadEntries(p) PROVE EntriesMove
  BY <1>12 DEF LoadEntries, streamVars, boardVars, stepVars, adminVars, apiVars,
     history, EntriesMove
<1>13. ASSUME NEW p \in Goroutines, ReadFlag(p) PROVE EntriesMove
  BY <1>13 DEF ReadFlag, streamVars, boardVars, stepVars, adminVars, apiVars, history,
     EntriesMove
<1>14. ASSUME NEW p \in Goroutines, StoreSnapshot(p) PROVE EntriesMove
  BY <1>14 DEF StoreSnapshot, streamVars, boardVars, stepVars, adminVars, apiVars,
     history, EntriesMove
<1>15. ASSUME NEW p \in Goroutines, RebuildFails(p) PROVE EntriesMove
  BY <1>15 DEF RebuildFails, streamVars, boardVars, stepVars, adminVars, apiVars,
     history, EntriesMove
<1>16. ASSUME NEW p \in Goroutines, PublishSnapshot(p) PROVE EntriesMove
  BY <1>16 DEF PublishSnapshot, streamVars, boardVars, stepVars, adminVars, apiVars,
     history, EntriesMove
<1>17. CASE RevealContest
  BY <1>17 DEF RevealContest, streamVars, boardVars, stepVars, adminVars, apiVars,
     history, EntriesMove
<1>18. CASE ApiEnds
  BY <1>18 DEF ApiEnds, streamVars, boardVars, stepVars, adminVars, apiVars, history,
     EntriesMove
<1>19. CASE ApiRestarts
  BY <1>19 DEF ApiRestarts, streamVars, boardVars, stepVars, adminVars, apiVars,
     history, EntriesMove
<1>20. CASE UNCHANGED vars
  BY <1>20 DEF vars, streamVars, boardVars, stepVars, adminVars, apiVars, history,
     EntriesMove
<1> QED
  BY <1>1, <1>2, <1>3, <1>4, <1>5, <1>6, <1>7, <1>8, <1>9, <1>10, <1>11, <1>12, <1>13,
     <1>14, <1>15, <1>16, <1>17, <1>18, <1>19, <1>20 DEF Next, RankerStep, Rebuild

\* What a goroutine has read of the entries and of the flag, it keeps until its rebuild
\* is over, or it has just read it.
ViewsMove ==
    \A p \in Goroutines :
        /\ step'[p] \in {"flag", "store"} =>
              \/ step[p] \in {"flag", "store"} /\ view'[p].entries = view[p].entries
              \/ view'[p].entries = entries /\ UNCHANGED <<entries, applied>>
        /\ step'[p] = "store" =>
              \/ step[p] = "store" /\ view'[p].revealed = view[p].revealed
              \/ view'[p].revealed => revealed'

\* The flag is never taken back, and the board is what a rebuild makes of what it read.
BoardMoves ==
    /\ revealed => revealed'
    /\ \/ snapshot' = snapshot
       \/ \E p \in Goroutines :
             step[p] = "store" /\ snapshot' = Board(view[p].entries, view[p].revealed)

\* What a rebuild has read stays with it.
LEMMA NextViews ==
    TInv /\ [Next]_vars => ViewsMove
<1> SUFFICES ASSUME TInv, [Next]_vars PROVE ViewsMove
  OBVIOUS
<1> USE DEF TInv
<1>1. ASSUME NEW s \in Submissions, Judge(s) PROVE ViewsMove
  BY <1>1 DEF Judge, streamVars, boardVars, stepVars, adminVars, apiVars, history,
     ViewsMove
<1>2. CASE EnsureGroup
  BY <1>2 DEF EnsureGroup, streamVars, boardVars, stepVars, adminVars, apiVars, history,
     ViewsMove
<1>3. CASE DrainPending
  <2>1. /\ view' = view /\ step'[Ranker] \in {"apply", "none"}
        /\ step'[Admin] = step[Admin]
    BY <1>3, Roles DEF DrainPending, StartHandling, StepOK
  <2> QED
    BY <2>1, Roles DEF ViewsMove
<1>4. CASE DrainPendingFails
  BY <1>4 DEF DrainPendingFails, streamVars, boardVars, stepVars, adminVars, apiVars,
     history, ViewsMove
<1>5. CASE XReadGroup
  <2>1. /\ view' = view /\ step'[Ranker] \in {"apply", "none"}
        /\ step'[Admin] = step[Admin]
    BY <1>5, Roles DEF XReadGroup, StartHandling, StepOK
  <2> QED
    BY <2>1, Roles DEF ViewsMove
<1>6. CASE XReadGroupLost
  BY <1>6 DEF XReadGroupLost, streamVars, boardVars, stepVars, adminVars, apiVars,
     history, ViewsMove
<1>7. CASE XAck
  <2>1. /\ view' = view /\ step'[Ranker] \in {"apply", "none"}
        /\ step'[Admin] = step[Admin]
    BY <1>7, Roles DEF XAck, StartHandling, StepOK
  <2> QED
    BY <2>1, Roles DEF ViewsMove
<1>8. CASE XAckFails
  <2>1. /\ view' = view /\ step'[Ranker] \in {"apply", "none"}
        /\ step'[Admin] = step[Admin]
    BY <1>8, Roles DEF XAckFails, StartHandling, StepOK
  <2> QED
    BY <2>1, Roles DEF ViewsMove
<1>9. CASE SkipPractice
  <2>1. view' = view /\ step'[Ranker] = "none" /\ step'[Admin] = step[Admin]
    BY <1>9, Roles DEF SkipPractice, HandlerDone, Goto, StepOK
  <2> QED
    BY <2>1, Roles DEF ViewsMove
<1>10. CASE ApplyResult
  <2>1. view' = view /\ step'[Ranker] = "load" /\ step'[Admin] = step[Admin]
    BY <1>10, Roles DEF ApplyResult, Goto, StepOK
  <2> QED
    BY <2>1, Roles DEF ViewsMove
<1>11. CASE ApplyFails
  <2>1. /\ view' = view /\ step'[Ranker] \in {"apply", "none"}
        /\ step'[Admin] = step[Admin]
    BY <1>11, Roles DEF ApplyFails, HandlerFails, StartHandling, StepOK
  <2> QED
    BY <2>1, Roles DEF ViewsMove
<1>12. ASSUME NEW p \in Goroutines, LoadEntries(p) PROVE ViewsMove
  <2>1. step'[p] = "flag" /\ view'[p].entries = entries /\ UNCHANGED <<entries, applied>>
    BY <1>12 DEF LoadEntries, Goto, StepOK, ViewOK, boardVars, history
  <2>2. \A g \in Goroutines : g # p => step'[g] = step[g] /\ view'[g] = view[g]
    BY <1>12, Roles DEF LoadEntries, Goto, StepOK, ViewOK
  <2> QED
    BY <2>1, <2>2 DEF ViewsMove
<1>13. ASSUME NEW p \in Goroutines, ReadFlag(p) PROVE ViewsMove
  <2>1. /\ step[p] = "flag" /\ step'[p] = "store" /\ view'[p].entries = view[p].entries
        /\ revealed' = revealed
    BY <1>13 DEF ReadFlag, Goto, StepOK, ViewOK, boardVars
  <2>2. \A g \in Goroutines : g # p => step'[g] = step[g] /\ view'[g] = view[g]
    BY <1>13, Roles DEF ReadFlag, Goto, StepOK, ViewOK
  <2>3. view'[p].revealed = revealed \/ view'[p].revealed = FALSE
    BY <1>13 DEF ReadFlag, ViewOK
  <2>4. view'[p].revealed => revealed'
    BY <2>1, <2>3
  <2> QED
    BY <2>1, <2>2, <2>4 DEF ViewsMove
<1>14. ASSUME NEW p \in Goroutines, StoreSnapshot(p) PROVE ViewsMove
  <2>1. step'[p] = "publish"
    BY <1>14 DEF StoreSnapshot, Goto, StepOK
  <2>2. \A g \in Goroutines : g # p => step'[g] = step[g] /\ view'[g] = view[g]
    BY <1>14, Roles DEF StoreSnapshot, Goto, StepOK, ViewOK
  <2> QED
    BY <2>1, <2>2 DEF ViewsMove
<1>15. ASSUME NEW p \in Goroutines, RebuildFails(p) PROVE ViewsMove
  <2>1. step'[p] \in {"none", "apply"}
    BY <1>15 DEF RebuildFails, HandlerFails, StartHandling, Goto, StepOK
  <2>2. \A g \in Goroutines : g # p => step'[g] = step[g] /\ view'[g] = view[g]
    BY <1>15, Roles DEF RebuildFails, Goto, StepOK, ViewOK, HandlerFails, StartHandling
  <2> QED
    BY <2>1, <2>2 DEF ViewsMove
<1>16. ASSUME NEW p \in Goroutines, PublishSnapshot(p) PROVE ViewsMove
  <2>1. step'[p] = "none"
    BY <1>16 DEF PublishSnapshot, HandlerDone, Goto, StepOK
  <2>2. \A g \in Goroutines : g # p => step'[g] = step[g] /\ view'[g] = view[g]
    BY <1>16, Roles DEF PublishSnapshot, Goto, StepOK, ViewOK, HandlerDone
  <2> QED
    BY <2>1, <2>2 DEF ViewsMove
<1>17. CASE RevealContest
  <2>1. view' = view /\ step'[Ranker] = step[Ranker] /\ step'[Admin] \in {"load", step[Admin]}
    BY <1>17, Roles DEF RevealContest, Goto, StepOK
  <2> QED
    BY <2>1, Roles DEF ViewsMove
<1>18. CASE ApiEnds
  BY <1>18 DEF ApiEnds, ViewsMove
<1>19. CASE ApiRestarts
  BY <1>19 DEF ApiRestarts, streamVars, boardVars, stepVars, adminVars, apiVars,
     history, ViewsMove
<1>20. CASE UNCHANGED vars
  BY <1>20 DEF vars, streamVars, boardVars, stepVars, adminVars, apiVars, history,
     ViewsMove
<1> QED
  BY <1>1, <1>2, <1>3, <1>4, <1>5, <1>6, <1>7, <1>8, <1>9, <1>10, <1>11, <1>12, <1>13,
     <1>14, <1>15, <1>16, <1>17, <1>18, <1>19, <1>20 DEF Next, RankerStep, Rebuild

\* The board comes from a rebuild, and the flag stays set.
LEMMA NextBoard ==
    TInv /\ [Next]_vars => BoardMoves
<1> SUFFICES ASSUME TInv, [Next]_vars PROVE BoardMoves
  OBVIOUS
<1> USE DEF TInv
<1>1. ASSUME NEW s \in Submissions, Judge(s) PROVE BoardMoves
  BY <1>1 DEF Judge, streamVars, boardVars, stepVars, adminVars, apiVars, history,
     BoardMoves
<1>2. CASE EnsureGroup
  BY <1>2 DEF EnsureGroup, streamVars, boardVars, stepVars, adminVars, apiVars, history,
     BoardMoves
<1>3. CASE DrainPending
  BY <1>3 DEF DrainPending, streamVars, boardVars, stepVars, adminVars, apiVars,
     history, BoardMoves
<1>4. CASE DrainPendingFails
  BY <1>4 DEF DrainPendingFails, streamVars, boardVars, stepVars, adminVars, apiVars,
     history, BoardMoves
<1>5. CASE XReadGroup
  BY <1>5 DEF XReadGroup, streamVars, boardVars, stepVars, adminVars, apiVars, history,
     BoardMoves
<1>6. CASE XReadGroupLost
  BY <1>6 DEF XReadGroupLost, streamVars, boardVars, stepVars, adminVars, apiVars,
     history, BoardMoves
<1>7. CASE XAck
  BY <1>7 DEF XAck, streamVars, boardVars, stepVars, adminVars, apiVars, history,
     BoardMoves
<1>8. CASE XAckFails
  BY <1>8 DEF XAckFails, streamVars, boardVars, stepVars, adminVars, apiVars, history,
     BoardMoves
<1>9. CASE SkipPractice
  BY <1>9 DEF SkipPractice, streamVars, boardVars, stepVars, adminVars, apiVars,
     history, BoardMoves
<1>10. CASE ApplyResult
  BY <1>10 DEF ApplyResult, streamVars, boardVars, stepVars, adminVars, apiVars,
     history, BoardMoves
<1>11. CASE ApplyFails
  BY <1>11 DEF ApplyFails, streamVars, boardVars, stepVars, adminVars, apiVars, history,
     BoardMoves
<1>12. ASSUME NEW p \in Goroutines, LoadEntries(p) PROVE BoardMoves
  BY <1>12 DEF LoadEntries, streamVars, boardVars, stepVars, adminVars, apiVars,
     history, BoardMoves
<1>13. ASSUME NEW p \in Goroutines, ReadFlag(p) PROVE BoardMoves
  BY <1>13 DEF ReadFlag, streamVars, boardVars, stepVars, adminVars, apiVars, history,
     BoardMoves
<1>14. ASSUME NEW p \in Goroutines, StoreSnapshot(p) PROVE BoardMoves
  BY <1>14 DEF StoreSnapshot, BoardMoves
<1>15. ASSUME NEW p \in Goroutines, RebuildFails(p) PROVE BoardMoves
  BY <1>15 DEF RebuildFails, BoardMoves
<1>16. ASSUME NEW p \in Goroutines, PublishSnapshot(p) PROVE BoardMoves
  BY <1>16 DEF PublishSnapshot, streamVars, boardVars, stepVars, adminVars, apiVars,
     history, BoardMoves
<1>17. CASE RevealContest
  <2>1. snapshot' = snapshot /\ (revealed' = TRUE \/ revealed' = revealed)
    BY <1>17 DEF RevealContest
  <2> QED
    BY <2>1 DEF BoardMoves
<1>18. CASE ApiEnds
  BY <1>18 DEF ApiEnds, streamVars, boardVars, stepVars, adminVars, apiVars, history,
     BoardMoves
<1>19. CASE ApiRestarts
  BY <1>19 DEF ApiRestarts, streamVars, boardVars, stepVars, adminVars, apiVars,
     history, BoardMoves
<1>20. CASE UNCHANGED vars
  BY <1>20 DEF vars, streamVars, boardVars, stepVars, adminVars, apiVars, history,
     BoardMoves
<1> QED
  BY <1>1, <1>2, <1>3, <1>4, <1>5, <1>6, <1>7, <1>8, <1>9, <1>10, <1>11, <1>12, <1>13,
     <1>14, <1>15, <1>16, <1>17, <1>18, <1>19, <1>20 DEF Next, RankerStep, Rebuild

\* What the views and the board show stays a prefix of what is merged.
LEMMA NextHides ==
    HInv /\ EntryReadable /\ [Next]_vars => HInv'
<1> SUFFICES ASSUME HInv, EntryReadable, [Next]_vars PROVE HInv'
  OBVIOUS
<1>1. TInv /\ TInv' /\ EntriesMove /\ ViewsMove /\ BoardMoves
  BY NextTypes, NextEntries, NextViews, NextBoard DEF HInv
<1>2. EntriesMerged'
  BY <1>1, MergeKept DEF HInv
<1>3. applied' = applied \/ \E m : applied' = Append(applied, m)
  BY <1>1 DEF EntriesMove, HSet
<1>4. /\ Len(applied) \in Nat /\ Len(applied') \in Nat /\ Len(applied) <= Len(applied')
      /\ \A c : \A k \in 0 .. Len(applied) : Merged(c, k)' = Merged(c, k)
  BY <1>1, <1>3, MergedStays DEF TInv
<1>5. \A k \in 0 .. Len(applied) : k \in 0 .. Len(applied')
  BY <1>4
<1>6. ASSUME NEW E, NEW k \in 0 .. Len(applied), ShowsPrefix(E, k)
      PROVE  \A c \in DOMAIN E : Score(E[c]) = Merged(c, k)'
  BY <1>4, <1>6 DEF ShowsPrefix
<1>7. ViewsMerged'
  <2> SUFFICES ASSUME NEW p \in Goroutines
               PROVE  /\ step'[p] \in {"flag", "store"} =>
                            \E k \in 0 .. Len(applied') : ShowsPrefix(view[p].entries, k)'
                      /\ step'[p] = "store" /\ ~revealed' => ~view'[p].revealed
    BY DEF ViewsMerged
  <2>1. ASSUME step'[p] \in {"flag", "store"}
        PROVE  \E k \in 0 .. Len(applied') : ShowsPrefix(view[p].entries, k)'
    <3>1. CASE step[p] \in {"flag", "store"} /\ view'[p].entries = view[p].entries
      <4>1. PICK k \in 0 .. Len(applied) : ShowsPrefix(view[p].entries, k)
        BY <3>1 DEF HInv, ViewsMerged
      <4>2. \A c \in DOMAIN view[p].entries : Score(view[p].entries[c]) = Merged(c, k)'
        BY <4>1, <1>6
      <4>3. ShowsPrefix(view[p].entries, k)'
        BY <3>1, <4>2 DEF ShowsPrefix
      <4> QED
        BY <4>3, <1>5
    <3>2. CASE view'[p].entries = entries /\ UNCHANGED <<entries, applied>>
      <4>1. \A c \in DOMAIN entries : Score(entries[c]) = Merged(c, Len(applied))
        <5>1. DOMAIN entries \subseteq Cells
          BY <1>1, TableFacts DEF TInv, CellsOK
        <5> QED
          BY <5>1 DEF HInv, EntriesMerged
      <4>2. ShowsPrefix(entries, Len(applied))
        BY <4>1 DEF ShowsPrefix
      <4>3. PICK k \in 0 .. Len(applied) : k = Len(applied)
        BY <1>4
      <4>4. \A c \in DOMAIN entries : Score(entries[c]) = Merged(c, k)'
        BY <4>2, <4>3, <1>6
      <4>5. ShowsPrefix(view[p].entries, k)'
        BY <3>2, <4>4 DEF ShowsPrefix
      <4> QED
        BY <4>5, <1>5
    <3> QED
      BY <1>1, <2>1, <3>1, <3>2 DEF ViewsMove
  <2>2. ASSUME step'[p] = "store", ~revealed' PROVE ~view'[p].revealed
    <3>1. ~revealed
      BY <1>1, <2>2 DEF BoardMoves
    <3>2. step[p] = "store" => ~view[p].revealed
      BY <3>1 DEF HInv, ViewsMerged
    <3> QED
      BY <1>1, <2>2, <3>2 DEF ViewsMove
  <2> QED
    BY <2>1, <2>2
<1>8. FreezeHides'
  <2> SUFFICES ASSUME ~revealed'
               PROVE  \E k \in 0 .. Len(applied') : \A c \in DOMAIN snapshot'.cells :
                         Visible(snapshot'.cells[c]) = Merged(c, k)'
    BY DEF FreezeHides
  <2>1. ~revealed
    BY <1>1 DEF BoardMoves
  <2>2. CASE snapshot' = snapshot
    <3>1. PICK k \in 0 .. Len(applied) : \A c \in DOMAIN snapshot.cells :
                 Visible(snapshot.cells[c]) = Merged(c, k)
      BY <2>1 DEF HInv, FreezeHides
    <3> QED
      BY <3>1, <2>2, <1>4, <1>5
  <2>3. ASSUME NEW p \in Goroutines, step[p] = "store",
               snapshot' = Board(view[p].entries, view[p].revealed)
        PROVE  \E k \in 0 .. Len(applied') : \A c \in DOMAIN snapshot'.cells :
                  Visible(snapshot'.cells[c]) = Merged(c, k)'
    <3> DEFINE E == view[p].entries
    <3>1. ~view[p].revealed
      BY <2>1, <2>3 DEF HInv, ViewsMerged
    <3>2. snapshot'.cells = BoardCells(E)
      BY <2>3, <3>1 DEF Board, Shown
    <3>3. PICK k \in 0 .. Len(applied) : ShowsPrefix(E, k)
      BY <2>3 DEF HInv, ViewsMerged
    <3> HIDE DEF E
    <3>4. DOMAIN BoardCells(E) = DOMAIN E
      BY DEF BoardCells
    <3>5. ASSUME NEW c \in DOMAIN E PROVE Visible(BoardCells(E)[c]) = Score(E[c])
      BY DEF BoardCells, Visible, Score
    <3>6. \A c \in DOMAIN E : Score(E[c]) = Merged(c, k)'
      BY <3>3, <1>6
    <3> QED
      BY <3>2, <3>4, <3>5, <3>6, <1>5
  <2> QED
    BY <1>1, <2>2, <2>3 DEF BoardMoves
<1> QED
  BY <1>1, <1>2, <1>7, <1>8 DEF HInv

\* At first nothing is merged and nothing is shown.
LEMMA InitHides == Init => HInv
<1> SUFFICES ASSUME Init PROVE HInv
  OBVIOUS
<1>1. TInv
  BY InitTypes
<1>2. applied = <<>> /\ Len(applied) = 0 /\ entries = <<>> /\ DOMAIN entries = {}
  BY EmptyTable DEF Init
<1>3. \A c : Merged(c, 0) = Score(NewEntry)
  BY MergedIsMerge, MergeFacts
<1>4. EntriesMerged
  BY <1>2, <1>3 DEF EntriesMerged
<1>5. ViewsMerged
  BY DEF Init, ViewsMerged
<1>6. DOMAIN snapshot.cells = {}
  <2>1. snapshot.cells = BoardCells(Shown(<<>>, FALSE))
    BY DEF Init, NoBoard, Board
  <2> QED
    BY <2>1, EmptyTable DEF Shown, BoardCells
<1>7. FreezeHides
  BY <1>2, <1>6 DEF FreezeHides
<1> QED
  BY <1>1, <1>4, <1>5, <1>7 DEF HInv

\* Before the reveal the stored board gives nothing away: it shows, cell by cell, what
\* some prefix of the merged results made before the freeze adds up to, in whatever order
\* the results came in, with results judged twice, failed rebuilds, crashes, and rebuilds
\* by two goroutines that overlap.  This needs HGET not to fail (its error reads as "no
\* entry yet" and the earlier results of the cell are lost).
THEOREM FreezeHidesHolds ==
    ASSUME "hget" \notin Faults
    PROVE  Spec => []FreezeHides
<1>1. EntryReadable
  BY DEF EntryReadable
<1>2. HInv /\ [Next]_vars => HInv'
  BY <1>1, NextHides
<1>3. HInv => FreezeHides
  BY DEF HInv
<1> QED
  BY <1>2, <1>3, InitHides, PTL DEF Spec

-----------------------------------------------------------------------------
\* What a step may do to the pending results while nothing is trimmed: a pending result
\* stays so unless it is acknowledged, and the board of the one at hand gets stored only
\* from the step before.
PendingMoves ==
    /\ \A k \in Pending : k \in Pending' \/ (k = cur[Ranker] /\ at[Ranker] = "ack")
    /\ step'[Ranker] = "publish" \/ at'[Ranker] = "ack" =>
          /\ cur'[Ranker] = cur[Ranker]
          /\ \/ step[Ranker] = "store" /\ step'[Ranker] = "publish"
             \/ step[Ranker] = "publish" \/ at[Ranker] = "ack"
             \/ Message.sub \notin Contest

\* Nothing pending gets lost while the stream is whole.
LEMMA NextPending ==
    TInv /\ results'.first = 1 /\ [Next]_vars => PendingMoves
<1> SUFFICES ASSUME TInv /\ results'.first = 1, [Next]_vars PROVE PendingMoves
  OBVIOUS
<1> USE DEF TInv
<1>1. ASSUME NEW s \in Submissions, Judge(s) PROVE PendingMoves
  <2>1. UNCHANGED <<group, cur, step, at>>
    BY <1>1 DEF Judge, stepVars
  <2> QED
    BY <2>1 DEF PendingMoves, Pending
<1>2. CASE EnsureGroup
  <2>1. /\ group' = group /\ step' = step /\ at'[Ranker] = "drain" /\ at[Ranker] = "subscribe"
    BY <1>2 DEF EnsureGroup, ResultQ!EnsureGroup, stepVars, LoopOK
  <2>2. step[Ranker] = "none"
    BY <2>1 DEF StepOK
  <2> QED
    BY <2>1, <2>2 DEF PendingMoves, Pending
<1>3. CASE DrainPending
  <2> DEFINE mine == ResultQ!PendingOf(RankerName)
             listed == {i \in mine : ResultQ!Cardinality({j \in mine : j < i}) < PendingBatch}
             alive == {i \in listed : i >= results.first}
             again == (ResultQ!Cardinality(listed) = PendingBatch)
  <2>1. ResultQ!Continue(Ranker, alive, again)
    BY <1>3 DEF DrainPending, ResultQ!DrainPending
  <2>2. alive \subseteq Nat /\ again \in BOOLEAN
    BY DEF ResultQ!PendingOf, GroupOK
  <2>3. group' = ResultQ!Unpended(group, listed \ alive) /\ results' = results
    BY <1>3 DEF DrainPending, ResultQ!DrainPending
  <2>4. Pending' = Pending \ (listed \ alive)
    BY <2>3, UnpendedFacts
  <2>5. listed \subseteq Nat /\ \A k \in listed : k >= 1
    BY DEF ResultQ!PendingOf, GroupOK
  <2>6. results.first = 1
    BY <2>3 DEF LogOK
  <2>7. listed \ alive = {}
    <3> HIDE DEF mine
    <3> DEFINE L == listed
    <3>1. L \subseteq Nat /\ \A k \in L : k >= 1
      BY <2>5
    <3>2. alive = {i \in L : i >= results.first}
      OBVIOUS
    <3> HIDE DEF L
    <3>3. L \ {i \in L : i >= results.first} = {}
      BY <3>1, <2>6
    <3> QED
      BY <3>2, <3>3 DEF L
  <2> HIDE DEF alive, again, listed
  <2>8. at'[Ranker] \in {"handle", "drain", "poll"}
    BY <2>1, <2>2, ContinueFacts
  <2>9. step'[Ranker] \in {"apply", "none"}
    BY <1>3, Roles DEF DrainPending, StartHandling, StepOK
  <2> QED
    BY <2>4, <2>7, <2>8, <2>9 DEF PendingMoves
<1>4. CASE DrainPendingFails
  <2>1. /\ group' = group /\ step' = step /\ at[Ranker] = "drain"
        /\ ResultQ!Continue(Ranker, {}, FALSE)
    BY <1>4 DEF DrainPendingFails, ResultQ!DrainPendingFails, stepVars
  <2>2. step[Ranker] = "none"
    BY <2>1 DEF StepOK
  <2>3. at'[Ranker] \in {"handle", "drain", "poll"}
    BY <2>1, ContinueFacts
  <2> QED
    BY <2>1, <2>2, <2>3 DEF PendingMoves, Pending
<1>5. CASE XReadGroup
  <2>1. /\ Pending' = Pending \cup {ResultQ!NextEntry} /\ at'[Ranker] = "handle"
    BY <1>5, DeliverFacts DEF XReadGroup, ResultQ!XReadGroup, LoopOK
  <2>2. step'[Ranker] = "apply"
    BY <1>5, <2>1, Roles DEF XReadGroup, StartHandling, StepOK
  <2> QED
    BY <2>1, <2>2 DEF PendingMoves
<1>6. CASE XReadGroupLost
  <2>1. /\ Pending' = Pending \cup {ResultQ!NextEntry} /\ at[Ranker] = "poll"
        /\ UNCHANGED <<at, cur, step>>
    BY <1>6, DeliverFacts DEF XReadGroupLost, ResultQ!XReadGroupLost, stepVars
  <2>2. step[Ranker] = "none"
    BY <2>1 DEF StepOK
  <2> QED
    BY <2>1, <2>2 DEF PendingMoves
<1>7. CASE XAck
  <2>1. /\ at[Ranker] = "ack" /\ ResultQ!Continue(Ranker, batch[Ranker], full[Ranker])
        /\ group' = ResultQ!Unpended(group, {cur[Ranker]}) /\ results' = results
    BY <1>7 DEF XAck, ResultQ!XAck
  <2>2. Pending' = Pending \ {cur[Ranker]} /\ at'[Ranker] \in {"handle", "drain", "poll"}
    BY <2>1, UnpendedFacts, GoesOnFacts
  <2>3. step'[Ranker] \in {"apply", "none"}
    BY <1>7, Roles DEF XAck, StartHandling, StepOK
  <2> QED
    BY <2>1, <2>2, <2>3 DEF PendingMoves
<1>8. CASE XAckFails
  <2>1. group' = group /\ ResultQ!Continue(Ranker, batch[Ranker], full[Ranker])
    BY <1>8 DEF XAckFails, ResultQ!XAckFails
  <2>2. at'[Ranker] \in {"handle", "drain", "poll"}
    BY <2>1, GoesOnFacts
  <2>3. step'[Ranker] \in {"apply", "none"}
    BY <1>8, Roles DEF XAckFails, StartHandling, StepOK
  <2> QED
    BY <2>1, <2>2, <2>3 DEF PendingMoves, Pending
<1>9. CASE SkipPractice
  <2>1. UNCHANGED <<group, cur>> /\ step'[Ranker] = "none" /\ Message.sub \in Practice
    BY <1>9, Roles DEF SkipPractice, HandlerDone, Goto, StepOK
  <2>2. Message.sub \notin Contest
    BY <2>1, ContestAssumption
  <2> QED
    BY <2>1, <2>2 DEF PendingMoves, Pending
<1>10. CASE ApplyResult
  <2>1. UNCHANGED <<group, cur, at>> /\ step'[Ranker] = "load"
    BY <1>10, Roles DEF ApplyResult, Goto, StepOK, streamVars
  <2> QED
    BY <2>1 DEF PendingMoves, Pending
<1>11. CASE ApplyFails
  <2>1. group' = group /\ ResultQ!Continue(Ranker, batch[Ranker], full[Ranker])
    BY <1>11 DEF ApplyFails, HandlerFails, ResultQ!HandlerFails
  <2>2. at'[Ranker] \in {"handle", "drain", "poll"}
    BY <2>1, GoesOnFacts
  <2>3. step'[Ranker] \in {"apply", "none"}
    BY <1>11, Roles DEF ApplyFails, HandlerFails, StartHandling, StepOK
  <2> QED
    BY <2>1, <2>2, <2>3 DEF PendingMoves, Pending
<1>12. ASSUME NEW p \in Goroutines, LoadEntries(p) PROVE PendingMoves
  <2>1. /\ UNCHANGED <<group, cur, at>> /\ step[p] = "load" /\ step'[p] = "flag"
        /\ \A g \in Goroutines : g # p => step'[g] = step[g]
    BY <1>12, Roles DEF LoadEntries, Goto, StepOK, streamVars
  <2> QED
    BY <2>1, Roles DEF PendingMoves, Pending
<1>13. ASSUME NEW p \in Goroutines, ReadFlag(p) PROVE PendingMoves
  <2>1. /\ UNCHANGED <<group, cur, at>> /\ step[p] = "flag" /\ step'[p] = "store"
        /\ \A g \in Goroutines : g # p => step'[g] = step[g]
    BY <1>13, Roles DEF ReadFlag, Goto, StepOK, streamVars
  <2> QED
    BY <2>1, Roles DEF PendingMoves, Pending
<1>14. ASSUME NEW p \in Goroutines, StoreSnapshot(p) PROVE PendingMoves
  <2>1. /\ UNCHANGED <<group, cur, at>> /\ step[p] = "store" /\ step'[p] = "publish"
        /\ \A g \in Goroutines : g # p => step'[g] = step[g]
    BY <1>14, Roles DEF StoreSnapshot, Goto, StepOK, streamVars
  <2> QED
    BY <2>1, Roles DEF PendingMoves, Pending
<1>15. ASSUME NEW p \in Goroutines, RebuildFails(p) PROVE PendingMoves
  <2>1. CASE HandlerFails
    <3>1. group' = group /\ ResultQ!Continue(Ranker, batch[Ranker], full[Ranker])
      BY <2>1 DEF HandlerFails, ResultQ!HandlerFails
    <3>2. at'[Ranker] \in {"handle", "drain", "poll"}
      BY <3>1, GoesOnFacts
    <3>3. step'[Ranker] \in {"apply", "none"}
      BY <2>1, Roles DEF HandlerFails, StartHandling, StepOK
    <3> QED
      BY <3>1, <3>2, <3>3 DEF PendingMoves, Pending
  <2>2. CASE Goto(Admin, "none") /\ UNCHANGED streamVars
    <3>1. UNCHANGED <<group, cur, at>> /\ step'[Ranker] = step[Ranker]
      BY <2>2, Roles DEF Goto, StepOK, streamVars
    <3> QED
      BY <3>1 DEF PendingMoves, Pending
  <2> QED
    BY <1>15, <2>1, <2>2 DEF RebuildFails
<1>16. ASSUME NEW p \in Goroutines, PublishSnapshot(p) PROVE PendingMoves
  <2>1. CASE p = Ranker /\ HandlerDone /\ UNCHANGED <<results, group, cur, batch, full>>
    <3>1. group' = group /\ cur' = cur /\ step[Ranker] = "publish" /\ step'[Ranker] = "none"
      BY <1>16, <2>1 DEF PublishSnapshot, HandlerDone, Goto, StepOK
    <3> QED
      BY <3>1 DEF PendingMoves, Pending
  <2>2. CASE Goto(Admin, "none") /\ UNCHANGED streamVars
    <3>1. UNCHANGED <<group, cur, at>> /\ step'[Ranker] = step[Ranker]
      BY <2>2, Roles DEF Goto, StepOK, streamVars
    <3> QED
      BY <3>1 DEF PendingMoves, Pending
  <2> QED
    BY <1>16, <2>1, <2>2 DEF PublishSnapshot
<1>17. CASE RevealContest
  <2>1. UNCHANGED <<group, cur, at>> /\ step'[Ranker] = step[Ranker]
    BY <1>17, Roles DEF RevealContest, Goto, StepOK, streamVars
  <2> QED
    BY <2>1 DEF PendingMoves, Pending
<1>18. CASE ApiEnds
  <2>1. group' = group /\ step'[Ranker] = "none" /\ at'[Ranker] = "off"
    BY <1>18, Roles DEF ApiEnds, ResultQ!Die
  <2> QED
    BY <2>1 DEF PendingMoves, Pending
<1>19. CASE ApiRestarts
  <2>1. group' = group /\ step' = step /\ at'[Ranker] = "subscribe" /\ at[Ranker] = "off"
    BY <1>19 DEF ApiRestarts, ResultQ!Launch, stepVars, StepOK
  <2>2. step[Ranker] = "none"
    BY <2>1 DEF StepOK
  <2> QED
    BY <2>1, <2>2 DEF PendingMoves, Pending
<1>20. CASE UNCHANGED vars
  BY <1>20 DEF vars, streamVars, boardVars, stepVars, adminVars, apiVars, history,
     PendingMoves, Pending
<1> QED
  BY <1>1, <1>2, <1>3, <1>4, <1>5, <1>6, <1>7, <1>8, <1>9, <1>10, <1>11, <1>12, <1>13,
     <1>14, <1>15, <1>16, <1>17, <1>18, <1>19, <1>20 DEF Next, RankerStep, Rebuild

\* So a result whose board is still to be stored stays one, except when it is stored.
LEMMA CoveredKept ==
    ASSUME TInv, [Next]_vars, results'.first = 1,
           ~(step[Ranker] = "store" /\ step'[Ranker] = "publish")
    PROVE  Covered => Covered'
<1> SUFFICES ASSUME Covered PROVE Covered'
  OBVIOUS
<1>1. PendingMoves /\ LogGrows
  BY NextPending, NextLogGrows
<1>2. PICK k \in Pending : Unsettled(k)
  BY DEF Covered
<1>3. k \in 1 .. Len(results.msgs)
  BY <1>2 DEF Pending, ResultQ!PendingIds, TInv, GroupOK
<1>4. results'.msgs[k].sub \in Contest
  BY <1>1, <1>2, <1>3 DEF LogGrows, Unsettled
<1>5. k \in Pending'
  BY <1>1, <1>2 DEF PendingMoves, Unsettled
<1>6. ~(k = cur'[Ranker] /\ (step'[Ranker] = "publish" \/ at'[Ranker] = "ack"))
  <2> SUFFICES ASSUME k = cur'[Ranker], step'[Ranker] = "publish" \/ at'[Ranker] = "ack"
               PROVE  FALSE
    OBVIOUS
  <2>1. /\ k = cur[Ranker]
        /\ step[Ranker] = "publish" \/ at[Ranker] = "ack" \/ Message.sub \notin Contest
    BY <1>1 DEF PendingMoves
  <2> QED
    BY <1>2, <2>1 DEF Unsettled, Message
<1>7. Unsettled(k)'
  BY <1>4, <1>6 DEF Unsettled
<1> QED
  BY <1>5, <1>7 DEF Covered

\* Once two rebuilds have overlapped this is remembered.
LEMMA NextRaced ==
    TInv /\ [Next]_vars => (raced => raced')
<1> SUFFICES ASSUME TInv, [Next]_vars PROVE (raced => raced')
  OBVIOUS
<1>1. ASSUME NEW s \in Submissions, Judge(s) PROVE (raced => raced')
  BY <1>1 DEF Judge, streamVars, boardVars, stepVars, adminVars, apiVars, history
<1>2. CASE EnsureGroup
  BY <1>2 DEF EnsureGroup, streamVars, boardVars, stepVars, adminVars, apiVars, history
<1>3. CASE DrainPending
  BY <1>3 DEF DrainPending, streamVars, boardVars, stepVars, adminVars, apiVars, history
<1>4. CASE DrainPendingFails
  BY <1>4 DEF DrainPendingFails, streamVars, boardVars, stepVars, adminVars, apiVars,
     history
<1>5. CASE XReadGroup
  BY <1>5 DEF XReadGroup, streamVars, boardVars, stepVars, adminVars, apiVars, history
<1>6. CASE XReadGroupLost
  BY <1>6 DEF XReadGroupLost, streamVars, boardVars, stepVars, adminVars, apiVars,
     history
<1>7. CASE XAck
  BY <1>7 DEF XAck, streamVars, boardVars, stepVars, adminVars, apiVars, history
<1>8. CASE XAckFails
  BY <1>8 DEF XAckFails, streamVars, boardVars, stepVars, adminVars, apiVars, history
<1>9. CASE SkipPractice
  BY <1>9 DEF SkipPractice, streamVars, boardVars, stepVars, adminVars, apiVars, history
<1>10. CASE ApplyResult
  BY <1>10 DEF ApplyResult
<1>11. CASE ApplyFails
  BY <1>11 DEF ApplyFails, streamVars, boardVars, stepVars, adminVars, apiVars, history
<1>12. ASSUME NEW p \in Goroutines, LoadEntries(p) PROVE (raced => raced')
  BY <1>12 DEF LoadEntries, streamVars, boardVars, stepVars, adminVars, apiVars, history
<1>13. ASSUME NEW p \in Goroutines, ReadFlag(p) PROVE (raced => raced')
  BY <1>13 DEF ReadFlag, streamVars, boardVars, stepVars, adminVars, apiVars, history
<1>14. ASSUME NEW p \in Goroutines, StoreSnapshot(p) PROVE (raced => raced')
  BY <1>14 DEF StoreSnapshot, streamVars, boardVars, stepVars, adminVars, apiVars,
     history
<1>15. ASSUME NEW p \in Goroutines, RebuildFails(p) PROVE (raced => raced')
  BY <1>15 DEF RebuildFails, streamVars, boardVars, stepVars, adminVars, apiVars,
     history
<1>16. ASSUME NEW p \in Goroutines, PublishSnapshot(p) PROVE (raced => raced')
  BY <1>16 DEF PublishSnapshot, streamVars, boardVars, stepVars, adminVars, apiVars,
     history
<1>17. CASE RevealContest
  BY <1>17 DEF RevealContest
<1>18. CASE ApiEnds
  BY <1>18 DEF ApiEnds, streamVars, boardVars, stepVars, adminVars, apiVars, history
<1>19. CASE ApiRestarts
  BY <1>19 DEF ApiRestarts, streamVars, boardVars, stepVars, adminVars, apiVars, history
<1>20. CASE UNCHANGED vars
  BY <1>20 DEF vars, streamVars, boardVars, stepVars, adminVars, apiVars, history
<1> QED
  BY <1>1, <1>2, <1>3, <1>4, <1>5, <1>6, <1>7, <1>8, <1>9, <1>10, <1>11, <1>12, <1>13,
     <1>14, <1>15, <1>16, <1>17, <1>18, <1>19, <1>20 DEF Next, RankerStep, Rebuild

\* What is undisturbed was so before.
LEMMA WasUndisturbed ==
    TInv /\ [Next]_vars /\ Undisturbed' => Undisturbed /\ results'.first = 1
<1> SUFFICES ASSUME TInv, [Next]_vars, Undisturbed'
             PROVE  Undisturbed /\ results'.first = 1
  OBVIOUS
<1>1. results.first \in Nat /\ results.first >= 1 /\ results.first <= results'.first
  BY NextLogGrows DEF TInv, LogOK, LogGrows
<1>2. ~raced' /\ results'.first = 1
  BY DEF Undisturbed
<1>3. ~raced
  BY <1>2, NextRaced
<1> QED
  BY <1>1, <1>2, <1>3 DEF Undisturbed

\* An overlap would be remembered.
LEMMA NextNoOverlap ==
    BInv /\ FlagReadable /\ Undisturbed' /\ [Next]_vars => NoOverlap'
<1> SUFFICES ASSUME BInv /\ FlagReadable /\ Undisturbed', [Next]_vars PROVE NoOverlap'
  OBVIOUS
<1> TInv
  BY DEF BInv
<1> USE DEF TInv
<1>a. /\ TInv /\ Undisturbed /\ results'.first = 1 /\ NoOverlap /\ RankerView /\ AdminView
      /\ BoardFollows
  BY WasUndisturbed DEF BInv
<1>1. ASSUME NEW s \in Submissions, Judge(s) PROVE NoOverlap'
  BY <1>1, <1>a DEF Judge, streamVars, boardVars, stepVars, adminVars, apiVars, history,
     NoOverlap, Rebuilding
<1>2. CASE EnsureGroup
  BY <1>2, <1>a DEF EnsureGroup, streamVars, boardVars, stepVars, adminVars, apiVars,
     history, NoOverlap, Rebuilding
<1>3. CASE DrainPending
  BY <1>3, <1>a, Roles DEF DrainPending, StartHandling, StepOK, NoOverlap, Rebuilding
<1>4. CASE DrainPendingFails
  BY <1>4, <1>a DEF DrainPendingFails, streamVars, boardVars, stepVars, adminVars,
     apiVars, history, NoOverlap, Rebuilding
<1>5. CASE XReadGroup
  BY <1>5, <1>a, Roles DEF XReadGroup, StartHandling, StepOK, NoOverlap, Rebuilding
<1>6. CASE XReadGroupLost
  BY <1>6, <1>a DEF XReadGroupLost, streamVars, boardVars, stepVars, adminVars, apiVars,
     history, NoOverlap, Rebuilding
<1>7. CASE XAck
  BY <1>7, <1>a, Roles DEF XAck, StartHandling, StepOK, NoOverlap, Rebuilding
<1>8. CASE XAckFails
  BY <1>8, <1>a, Roles DEF XAckFails, StartHandling, StepOK, NoOverlap, Rebuilding
<1>9. CASE SkipPractice
  BY <1>9, <1>a, Roles DEF SkipPractice, HandlerDone, Goto, StepOK, NoOverlap, Rebuilding
<1>10. CASE ApplyResult
  BY <1>10, <1>a, Roles DEF ApplyResult, Goto, StepOK, NoOverlap, Rebuilding, Undisturbed
<1>11. CASE ApplyFails
  BY <1>11, <1>a, Roles DEF ApplyFails, HandlerFails, StartHandling, StepOK, NoOverlap, Rebuilding
<1>12. ASSUME NEW p \in Goroutines, LoadEntries(p) PROVE NoOverlap'
  BY <1>12, <1>a, Roles DEF LoadEntries, Goto, StepOK, NoOverlap, Rebuilding
<1>13. ASSUME NEW p \in Goroutines, ReadFlag(p) PROVE NoOverlap'
  BY <1>13, <1>a, Roles DEF ReadFlag, Goto, StepOK, NoOverlap, Rebuilding
<1>14. ASSUME NEW p \in Goroutines, StoreSnapshot(p) PROVE NoOverlap'
  BY <1>14, <1>a, Roles DEF StoreSnapshot, Goto, StepOK, NoOverlap, Rebuilding
<1>15. ASSUME NEW p \in Goroutines, RebuildFails(p) PROVE NoOverlap'
  BY <1>15, <1>a, Roles DEF RebuildFails, HandlerFails, StartHandling, Goto, StepOK, NoOverlap,
     Rebuilding
<1>16. ASSUME NEW p \in Goroutines, PublishSnapshot(p) PROVE NoOverlap'
  BY <1>16, <1>a, Roles DEF PublishSnapshot, HandlerDone, Goto, StepOK, NoOverlap, Rebuilding
<1>17. CASE RevealContest
  BY <1>17, <1>a, Roles DEF RevealContest, Goto, StepOK, NoOverlap, Rebuilding, Undisturbed
<1>18. CASE ApiEnds
  BY <1>18, Roles DEF ApiEnds, NoOverlap, Rebuilding
<1>19. CASE ApiRestarts
  BY <1>19, <1>a DEF ApiRestarts, streamVars, boardVars, stepVars, adminVars, apiVars,
     history, NoOverlap, Rebuilding
<1>20. CASE UNCHANGED vars
  BY <1>20, <1>a DEF vars, streamVars, boardVars, stepVars, adminVars, apiVars, history,
     NoOverlap, Rebuilding
<1> QED
  BY <1>1, <1>2, <1>3, <1>4, <1>5, <1>6, <1>7, <1>8, <1>9, <1>10, <1>11, <1>12, <1>13,
     <1>14, <1>15, <1>16, <1>17, <1>18, <1>19, <1>20 DEF Next, RankerStep, Rebuild

\* A result that the handler gives up, or has merged, calls for a board.
LEMMA CurUnsettled ==
    ASSUME TInv, at[Ranker] = "handle", Message.sub \in Contest, UNCHANGED <<results, group>>,
           step'[Ranker] # "publish", at'[Ranker] # "ack"
    PROVE  Covered'
<1> DEFINE k == cur[Ranker]
<1>1. k \in Pending'
  BY DEF TInv, HeldOK, Pending
<1>2. results'.msgs[k].sub \in Contest
  BY DEF Message
<1> QED
  BY <1>1, <1>2 DEF Covered, Unsettled

\* Giving up goes on with another result.
LEMMA GivesUp ==
    ASSUME TInv, HandlerFails
    PROVE  /\ group' = group /\ at'[Ranker] # "ack"
           /\ step'[Ranker] \in {"apply", "none"} /\ step'[Admin] = step[Admin]
<1>1. group' = group /\ ResultQ!Continue(Ranker, batch[Ranker], full[Ranker])
  BY DEF HandlerFails, ResultQ!HandlerFails
<1>2. at'[Ranker] \in {"handle", "drain", "poll"}
  BY <1>1, GoesOnFacts DEF TInv
<1>3. step'[Ranker] \in {"apply", "none"} /\ step'[Admin] = step[Admin]
  BY Roles DEF HandlerFails, StartHandling, TInv, StepOK
<1> QED
  BY <1>1, <1>2, <1>3

\* What the ranker has loaded is what there is.
LEMMA NextRankerView ==
    BInv /\ FlagReadable /\ Undisturbed' /\ [Next]_vars => RankerView'
<1> SUFFICES ASSUME BInv /\ FlagReadable /\ Undisturbed', [Next]_vars PROVE RankerView'
  OBVIOUS
<1> TInv
  BY DEF BInv
<1> USE DEF TInv
<1>a. /\ TInv /\ Undisturbed /\ results'.first = 1 /\ NoOverlap /\ RankerView /\ AdminView
      /\ BoardFollows
  BY WasUndisturbed DEF BInv
<1>1. ASSUME NEW s \in Submissions, Judge(s) PROVE RankerView'
  BY <1>1, <1>a DEF Judge, streamVars, boardVars, stepVars, adminVars, apiVars, history,
     RankerView
<1>2. CASE EnsureGroup
  BY <1>2, <1>a DEF EnsureGroup, streamVars, boardVars, stepVars, adminVars, apiVars,
     history, RankerView
<1>3. CASE DrainPending
  <2>1. step'[Ranker] \notin {"flag", "store"}
    BY <1>3, Roles DEF DrainPending, StartHandling, StepOK
  <2> QED
    BY <2>1 DEF RankerView
<1>4. CASE DrainPendingFails
  BY <1>4, <1>a DEF DrainPendingFails, streamVars, boardVars, stepVars, adminVars,
     apiVars, history, RankerView
<1>5. CASE XReadGroup
  <2>1. step'[Ranker] \notin {"flag", "store"}
    BY <1>5, Roles DEF XReadGroup, StartHandling, StepOK
  <2> QED
    BY <2>1 DEF RankerView
<1>6. CASE XReadGroupLost
  BY <1>6, <1>a DEF XReadGroupLost, streamVars, boardVars, stepVars, adminVars, apiVars,
     history, RankerView
<1>7. CASE XAck
  <2>1. step'[Ranker] \notin {"flag", "store"}
    BY <1>7, Roles DEF XAck, StartHandling, StepOK
  <2> QED
    BY <2>1 DEF RankerView
<1>8. CASE XAckFails
  <2>1. step'[Ranker] \notin {"flag", "store"}
    BY <1>8, Roles DEF XAckFails, StartHandling, StepOK
  <2> QED
    BY <2>1 DEF RankerView
<1>9. CASE SkipPractice
  <2>1. step'[Ranker] \notin {"flag", "store"}
    BY <1>9, Roles DEF SkipPractice, HandlerDone, Goto, StepOK
  <2> QED
    BY <2>1 DEF RankerView
<1>10. CASE ApplyResult
  <2>1. step'[Ranker] \notin {"flag", "store"}
    BY <1>10, Roles DEF ApplyResult, Goto, StepOK
  <2> QED
    BY <2>1 DEF RankerView
<1>11. CASE ApplyFails
  <2>1. step'[Ranker] \notin {"flag", "store"}
    BY <1>11, Roles DEF ApplyFails, HandlerFails, StartHandling, StepOK
  <2> QED
    BY <2>1 DEF RankerView
<1>12. ASSUME NEW p \in Goroutines, LoadEntries(p) PROVE RankerView'
  <2>1. CASE p = Ranker
    <3>1. step'[Ranker] = "flag" /\ view'[Ranker].entries = entries /\ entries' = entries
      BY <1>12, <2>1, Roles DEF LoadEntries, Goto, StepOK, ViewOK, boardVars
    <3> QED
      BY <3>1 DEF RankerView
  <2>2. CASE p = Admin
    <3>1. /\ step'[Ranker] = step[Ranker] /\ view'[Ranker] = view[Ranker]
          /\ UNCHANGED <<entries, revealed, reveal>>
      BY <1>12, <2>2, Roles DEF LoadEntries, Goto, StepOK, ViewOK, boardVars, adminVars
    <3> QED
      BY <3>1, <1>a DEF RankerView
  <2> QED
    BY <2>1, <2>2 DEF Goroutines
<1>13. ASSUME NEW p \in Goroutines, ReadFlag(p) PROVE RankerView'
  <2>1. CASE p = Ranker
    <3>1. /\ step[Ranker] = "flag" /\ view'[Ranker].entries = view[Ranker].entries
          /\ view'[Ranker].revealed = revealed /\ UNCHANGED <<entries, revealed>>
      BY <1>13, <2>1, Roles DEF ReadFlag, Fault, FlagReadable, StepOK, ViewOK, boardVars
    <3> QED
      BY <3>1, <1>a DEF RankerView
  <2>2. CASE p = Admin
    <3>1. /\ step'[Ranker] = step[Ranker] /\ view'[Ranker] = view[Ranker]
          /\ UNCHANGED <<entries, revealed, reveal>>
      BY <1>13, <2>2, Roles DEF ReadFlag, Goto, StepOK, ViewOK, boardVars, adminVars
    <3> QED
      BY <3>1, <1>a DEF RankerView
  <2> QED
    BY <2>1, <2>2 DEF Goroutines
<1>14. ASSUME NEW p \in Goroutines, StoreSnapshot(p) PROVE RankerView'
  <2>1. CASE p = Ranker
    <3>1. step'[Ranker] = "publish"
      BY <1>14, <2>1, Roles DEF StoreSnapshot, Goto, StepOK
    <3> QED
      BY <3>1 DEF RankerView
  <2>2. CASE p = Admin
    <3>1. /\ step'[Ranker] = step[Ranker] /\ view'[Ranker] = view[Ranker]
          /\ UNCHANGED <<entries, revealed, reveal>>
      BY <1>14, <2>2, Roles DEF StoreSnapshot, Goto, StepOK, ViewOK, boardVars, adminVars
    <3> QED
      BY <3>1, <1>a DEF RankerView
  <2> QED
    BY <2>1, <2>2 DEF Goroutines
<1>15. ASSUME NEW p \in Goroutines, RebuildFails(p) PROVE RankerView'
  <2>1. CASE HandlerFails
    <3>1. step'[Ranker] \notin {"flag", "store"}
      BY <2>1, GivesUp
    <3> QED
      BY <3>1 DEF RankerView
  <2>2. CASE p = Admin /\ Goto(Admin, "none") /\ reveal' = "failed"
    <3>1. /\ step'[Ranker] = step[Ranker] /\ view'[Ranker] = view[Ranker]
          /\ entries' = entries /\ reveal' = "failed"
      BY <1>15, <2>2, Roles DEF RebuildFails, Goto, StepOK, ViewOK
    <3> QED
      BY <3>1, <1>a DEF RankerView
  <2> QED
    BY <1>15, <2>1, <2>2 DEF RebuildFails
<1>16. ASSUME NEW p \in Goroutines, PublishSnapshot(p) PROVE RankerView'
  <2>1. CASE p = Ranker
    <3>1. step'[Ranker] = "none"
      BY <1>16, <2>1, Roles DEF PublishSnapshot, HandlerDone, Goto, StepOK
    <3> QED
      BY <3>1 DEF RankerView
  <2>2. CASE p = Admin
    <3>1. /\ step'[Ranker] = step[Ranker] /\ view'[Ranker] = view[Ranker]
          /\ UNCHANGED <<entries, revealed>> /\ reveal # "failed"
      BY <1>16, <2>2, Roles DEF PublishSnapshot, Goto, StepOK, ViewOK, boardVars, adminVars
    <3> QED
      BY <3>1, <1>a DEF RankerView
  <2> QED
    BY <2>1, <2>2 DEF Goroutines
<1>17. CASE RevealContest
  <2>1. UNCHANGED <<view, entries>> /\ step'[Ranker] = step[Ranker]
    BY <1>17, Roles DEF RevealContest, Goto, StepOK
  <2>2. step'[Ranker] = "store" => reveal' = "failed"
    BY <1>17, <2>1, <1>a DEF RevealContest, Rebuilding, Undisturbed
  <2> QED
    BY <2>1, <2>2, <1>a DEF RankerView
<1>18. CASE ApiEnds
  <2>1. step'[Ranker] \notin {"flag", "store"}
    BY <1>18, Roles DEF ApiEnds, StepOK
  <2> QED
    BY <2>1 DEF RankerView
<1>19. CASE ApiRestarts
  BY <1>19, <1>a DEF ApiRestarts, streamVars, boardVars, stepVars, adminVars, apiVars,
     history, RankerView
<1>20. CASE UNCHANGED vars
  BY <1>20, <1>a DEF vars, streamVars, boardVars, stepVars, adminVars, apiVars, history,
     RankerView
<1> QED
  BY <1>1, <1>2, <1>3, <1>4, <1>5, <1>6, <1>7, <1>8, <1>9, <1>10, <1>11, <1>12, <1>13,
     <1>14, <1>15, <1>16, <1>17, <1>18, <1>19, <1>20 DEF Next, RankerStep, Rebuild

\* What a running reveal has loaded is what there is, or a result calls for a board.
LEMMA NextAdminView ==
    BInv /\ FlagReadable /\ Undisturbed' /\ [Next]_vars => AdminView'
<1> SUFFICES ASSUME BInv /\ FlagReadable /\ Undisturbed', [Next]_vars PROVE AdminView'
  OBVIOUS
<1> TInv
  BY DEF BInv
<1> USE DEF TInv
<1>a. /\ TInv /\ Undisturbed /\ results'.first = 1 /\ NoOverlap /\ RankerView /\ AdminView
      /\ BoardFollows
  BY WasUndisturbed DEF BInv
<1>b. ~(step[Ranker] = "store" /\ step'[Ranker] = "publish") => (Covered => Covered')
  BY <1>a, CoveredKept
<1>1. ASSUME NEW s \in Submissions, Judge(s) PROVE AdminView'
  <2>1. /\ step'[Admin] = step[Admin] /\ UNCHANGED <<entries, revealed, view>>
        /\ ~(step[Ranker] = "store" /\ step'[Ranker] = "publish")
    BY <1>1, Roles DEF Judge, StepOK, stepVars, boardVars
  <2>2. Covered => Covered'
    BY <2>1, <1>a, CoveredKept
  <2> QED
    BY <2>1, <2>2, <1>a DEF AdminView
<1>2. CASE EnsureGroup
  <2>1. /\ step'[Admin] = step[Admin] /\ UNCHANGED <<entries, revealed, view>>
        /\ ~(step[Ranker] = "store" /\ step'[Ranker] = "publish")
    BY <1>2, Roles DEF EnsureGroup, StepOK, stepVars, boardVars
  <2>2. Covered => Covered'
    BY <2>1, <1>a, CoveredKept
  <2> QED
    BY <2>1, <2>2, <1>a DEF AdminView
<1>3. CASE DrainPending
  <2>1. /\ step'[Admin] = step[Admin] /\ UNCHANGED <<entries, revealed, view>>
        /\ ~(step[Ranker] = "store" /\ step'[Ranker] = "publish")
    BY <1>3, Roles DEF DrainPending, StartHandling, StepOK, stepVars, boardVars
  <2>2. Covered => Covered'
    BY <2>1, <1>a, CoveredKept
  <2> QED
    BY <2>1, <2>2, <1>a DEF AdminView
<1>4. CASE DrainPendingFails
  <2>1. /\ step'[Admin] = step[Admin] /\ UNCHANGED <<entries, revealed, view>>
        /\ ~(step[Ranker] = "store" /\ step'[Ranker] = "publish")
    BY <1>4, Roles DEF DrainPendingFails, StepOK, stepVars, boardVars
  <2>2. Covered => Covered'
    BY <2>1, <1>a, CoveredKept
  <2> QED
    BY <2>1, <2>2, <1>a DEF AdminView
<1>5. CASE XReadGroup
  <2>1. /\ step'[Admin] = step[Admin] /\ UNCHANGED <<entries, revealed, view>>
        /\ ~(step[Ranker] = "store" /\ step'[Ranker] = "publish")
    BY <1>5, Roles DEF XReadGroup, StartHandling, StepOK, stepVars, boardVars
  <2>2. Covered => Covered'
    BY <2>1, <1>a, CoveredKept
  <2> QED
    BY <2>1, <2>2, <1>a DEF AdminView
<1>6. CASE XReadGroupLost
  <2>1. /\ step'[Admin] = step[Admin] /\ UNCHANGED <<entries, revealed, view>>
        /\ ~(step[Ranker] = "store" /\ step'[Ranker] = "publish")
    BY <1>6, Roles DEF XReadGroupLost, StepOK, stepVars, boardVars
  <2>2. Covered => Covered'
    BY <2>1, <1>a, CoveredKept
  <2> QED
    BY <2>1, <2>2, <1>a DEF AdminView
<1>7. CASE XAck
  <2>1. /\ step'[Admin] = step[Admin] /\ UNCHANGED <<entries, revealed, view>>
        /\ ~(step[Ranker] = "store" /\ step'[Ranker] = "publish")
    BY <1>7, Roles DEF XAck, StartHandling, StepOK, stepVars, boardVars
  <2>2. Covered => Covered'
    BY <2>1, <1>a, CoveredKept
  <2> QED
    BY <2>1, <2>2, <1>a DEF AdminView
<1>8. CASE XAckFails
  <2>1. /\ step'[Admin] = step[Admin] /\ UNCHANGED <<entries, revealed, view>>
        /\ ~(step[Ranker] = "store" /\ step'[Ranker] = "publish")
    BY <1>8, Roles DEF XAckFails, StartHandling, StepOK, stepVars, boardVars
  <2>2. Covered => Covered'
    BY <2>1, <1>a, CoveredKept
  <2> QED
    BY <2>1, <2>2, <1>a DEF AdminView
<1>9. CASE SkipPractice
  <2>1. /\ step'[Admin] = step[Admin] /\ UNCHANGED <<entries, revealed, view>>
        /\ ~(step[Ranker] = "store" /\ step'[Ranker] = "publish")
    BY <1>9, Roles DEF SkipPractice, HandlerDone, Goto, StepOK, stepVars, boardVars
  <2>2. Covered => Covered'
    BY <2>1, <1>a, CoveredKept
  <2> QED
    BY <2>1, <2>2, <1>a DEF AdminView
<1>10. CASE ApplyResult
  <2>1. /\ step'[Admin] = step[Admin] /\ UNCHANGED <<revealed, view, results, group, at>>
        /\ step'[Ranker] = "load" /\ at[Ranker] = "handle" /\ Message.sub \in Contest
    BY <1>10, Roles DEF ApplyResult, Goto, StepOK, streamVars
  <2>2. Covered'
    BY <2>1, CurUnsettled
  <2> QED
    BY <2>1, <2>2, <1>a DEF AdminView
<1>11. CASE ApplyFails
  <2>1. /\ UNCHANGED <<revealed, view, results>> /\ HandlerFails
        /\ at[Ranker] = "handle" /\ Message.sub \in Contest
    BY <1>11 DEF ApplyFails, StepOK
  <2>2. /\ group' = group /\ at'[Ranker] # "ack"
        /\ step'[Ranker] \in {"apply", "none"} /\ step'[Admin] = step[Admin]
    BY <2>1, GivesUp
  <2>3. Covered'
    BY <2>1, <2>2, CurUnsettled
  <2> QED
    BY <2>1, <2>2, <2>3, <1>a DEF AdminView
<1>12. ASSUME NEW p \in Goroutines, LoadEntries(p) PROVE AdminView'
  <2>1. CASE p = Ranker
    <3>1. /\ step'[Admin] = step[Admin] /\ view'[Admin] = view[Admin]
          /\ UNCHANGED <<entries, revealed>>
          /\ ~(step[Ranker] = "store" /\ step'[Ranker] = "publish")
      BY <1>12, <2>1, Roles DEF LoadEntries, Goto, StepOK, ViewOK, boardVars
    <3>2. Covered => Covered'
      BY <3>1, <1>a, CoveredKept
    <3> QED
      BY <3>1, <3>2, <1>a DEF AdminView
  <2>2. CASE p = Admin
    <3>1. /\ step'[Admin] = "flag" /\ view'[Admin].entries = entries /\ entries' = entries
          /\ step[Admin] # "none" /\ revealed' = revealed
      BY <1>12, <2>2, Roles DEF LoadEntries, Goto, StepOK, ViewOK, boardVars
    <3> QED
      BY <3>1, <1>a DEF AdminView
  <2> QED
    BY <2>1, <2>2 DEF Goroutines
<1>13. ASSUME NEW p \in Goroutines, ReadFlag(p) PROVE AdminView'
  <2>1. CASE p = Ranker
    <3>1. /\ step'[Admin] = step[Admin] /\ view'[Admin] = view[Admin]
          /\ UNCHANGED <<entries, revealed>>
          /\ ~(step[Ranker] = "store" /\ step'[Ranker] = "publish")
      BY <1>13, <2>1, Roles DEF ReadFlag, Goto, StepOK, ViewOK, boardVars
    <3>2. Covered => Covered'
      BY <3>1, <1>a, CoveredKept
    <3> QED
      BY <3>1, <3>2, <1>a DEF AdminView
  <2>2. CASE p = Admin
    <3>1. /\ step[Admin] = "flag" /\ view'[Admin].entries = view[Admin].entries
          /\ view'[Admin].revealed = revealed /\ UNCHANGED <<entries, revealed>>
          /\ step'[Ranker] = step[Ranker]
      BY <1>13, <2>2, Roles DEF ReadFlag, Goto, Fault, FlagReadable, StepOK, ViewOK, boardVars
    <3>2. revealed = TRUE
      BY <3>1, <1>a DEF AdminView, FlagsOK
    <3>3. Covered => Covered'
      BY <3>1, <1>a, CoveredKept
    <3> QED
      BY <3>1, <3>2, <3>3, <1>a DEF AdminView
  <2> QED
    BY <2>1, <2>2 DEF Goroutines
<1>14. ASSUME NEW p \in Goroutines, StoreSnapshot(p) PROVE AdminView'
  <2>1. CASE p = Ranker
    <3>1. /\ step'[Admin] = step[Admin] /\ revealed' = revealed
          /\ step[Admin] \notin {"flag", "store"}
      BY <1>14, <2>1, <1>a, Roles DEF StoreSnapshot, Goto, StepOK, NoOverlap, Rebuilding
    <3> QED
      BY <3>1, <1>a DEF AdminView
  <2>2. CASE p = Admin
    <3>1. step[Admin] = "store" /\ step'[Admin] = "publish" /\ revealed' = revealed
      BY <1>14, <2>2, Roles DEF StoreSnapshot, Goto, StepOK
    <3> QED
      BY <3>1, <1>a DEF AdminView
  <2> QED
    BY <2>1, <2>2 DEF Goroutines
<1>15. ASSUME NEW p \in Goroutines, RebuildFails(p) PROVE AdminView'
  <2>1. CASE p = Ranker /\ HandlerFails
    <3>1. /\ group' = group /\ at'[Ranker] # "ack"
          /\ step'[Ranker] \in {"apply", "none"} /\ step'[Admin] = step[Admin]
      BY <2>1, GivesUp
    <3>2. view'[Admin] = view[Admin] /\ UNCHANGED <<entries, revealed>>
      BY <1>15, <2>1, Roles DEF RebuildFails, ViewOK
    <3>3. Covered => Covered'
      BY <3>1, <1>a, CoveredKept
    <3> QED
      BY <3>1, <3>2, <3>3, <1>a DEF AdminView
  <2>2. CASE Goto(Admin, "none")
    BY <2>2 DEF Goto, StepOK, AdminView, Goroutines
  <2> QED
    BY <1>15, <2>1, <2>2 DEF RebuildFails
<1>16. ASSUME NEW p \in Goroutines, PublishSnapshot(p) PROVE AdminView'
  <2>1. CASE p = Ranker
    <3>1. /\ step'[Admin] = step[Admin] /\ view'[Admin] = view[Admin]
          /\ UNCHANGED <<entries, revealed>>
          /\ ~(step[Ranker] = "store" /\ step'[Ranker] = "publish")
      BY <1>16, <2>1, Roles DEF PublishSnapshot, HandlerDone, Goto, StepOK, ViewOK, boardVars
    <3>2. Covered => Covered'
      BY <3>1, <1>a, CoveredKept
    <3> QED
      BY <3>1, <3>2, <1>a DEF AdminView
  <2>2. CASE p = Admin
    <3>1. step'[Admin] = "none"
      BY <1>16, <2>2, Roles DEF PublishSnapshot, Goto, StepOK
    <3> QED
      BY <3>1 DEF AdminView
  <2> QED
    BY <2>1, <2>2 DEF Goroutines
<1>17. CASE RevealContest
  <2>1. step[Admin] = "none" /\ UNCHANGED <<view, entries>>
    BY <1>17 DEF RevealContest
  <2>2. \/ revealed' = TRUE /\ step'[Admin] = "load"
        \/ step'[Admin] = "none"
    BY <1>17, <2>1 DEF RevealContest, Goto, StepOK, Goroutines
  <2> QED
    BY <2>2 DEF AdminView
<1>18. CASE ApiEnds
  BY <1>18, Roles DEF ApiEnds, AdminView
<1>19. CASE ApiRestarts
  <2>1. /\ step'[Admin] = step[Admin] /\ UNCHANGED <<entries, revealed, view>>
        /\ ~(step[Ranker] = "store" /\ step'[Ranker] = "publish")
    BY <1>19, Roles DEF ApiRestarts, StepOK, stepVars, boardVars
  <2>2. Covered => Covered'
    BY <2>1, <1>a, CoveredKept
  <2> QED
    BY <2>1, <2>2, <1>a DEF AdminView
<1>20. CASE UNCHANGED vars
  BY <1>20, <1>a, <1>b DEF vars, streamVars, boardVars, stepVars, adminVars, apiVars,
     history, AdminView
<1> QED
  BY <1>1, <1>2, <1>3, <1>4, <1>5, <1>6, <1>7, <1>8, <1>9, <1>10, <1>11, <1>12, <1>13,
     <1>14, <1>15, <1>16, <1>17, <1>18, <1>19, <1>20 DEF Next, RankerStep, Rebuild

\* The board is the one called for, or a result calls for another.
LEMMA NextBoardFollows ==
    BInv /\ FlagReadable /\ Undisturbed' /\ [Next]_vars => BoardFollows'
<1> SUFFICES ASSUME BInv /\ FlagReadable /\ Undisturbed', [Next]_vars PROVE BoardFollows'
  OBVIOUS
<1> TInv
  BY DEF BInv
<1> USE DEF TInv
<1>a. /\ TInv /\ Undisturbed /\ results'.first = 1 /\ NoOverlap /\ RankerView /\ AdminView
      /\ BoardFollows
  BY WasUndisturbed DEF BInv
<1>b. ~(step[Ranker] = "store" /\ step'[Ranker] = "publish") => (Covered => Covered')
  BY <1>a, CoveredKept
<1>1. ASSUME NEW s \in Submissions, Judge(s) PROVE BoardFollows'
  <2>1. /\ step'[Admin] = step[Admin] /\ UNCHANGED <<entries, revealed, snapshot, reveal>>
        /\ ~(step[Ranker] = "store" /\ step'[Ranker] = "publish")
    BY <1>1, Roles DEF Judge, StepOK, stepVars, boardVars, adminVars
  <2> QED
    BY <2>1, <1>a, <1>b DEF BoardFollows, Current
<1>2. CASE EnsureGroup
  <2>1. /\ step'[Admin] = step[Admin] /\ UNCHANGED <<entries, revealed, snapshot, reveal>>
        /\ ~(step[Ranker] = "store" /\ step'[Ranker] = "publish")
    BY <1>2, Roles DEF EnsureGroup, StepOK, stepVars, boardVars, adminVars
  <2> QED
    BY <2>1, <1>a, <1>b DEF BoardFollows, Current
<1>3. CASE DrainPending
  <2>1. /\ step'[Admin] = step[Admin] /\ UNCHANGED <<entries, revealed, snapshot, reveal>>
        /\ ~(step[Ranker] = "store" /\ step'[Ranker] = "publish")
    BY <1>3, Roles DEF DrainPending, StartHandling, StepOK, stepVars, boardVars, adminVars
  <2> QED
    BY <2>1, <1>a, <1>b DEF BoardFollows, Current
<1>4. CASE DrainPendingFails
  <2>1. /\ step'[Admin] = step[Admin] /\ UNCHANGED <<entries, revealed, snapshot, reveal>>
        /\ ~(step[Ranker] = "store" /\ step'[Ranker] = "publish")
    BY <1>4, Roles DEF DrainPendingFails, StepOK, stepVars, boardVars, adminVars
  <2> QED
    BY <2>1, <1>a, <1>b DEF BoardFollows, Current
<1>5. CASE XReadGroup
  <2>1. /\ step'[Admin] = step[Admin] /\ UNCHANGED <<entries, revealed, snapshot, reveal>>
        /\ ~(step[Ranker] = "store" /\ step'[Ranker] = "publish")
    BY <1>5, Roles DEF XReadGroup, StartHandling, StepOK, stepVars, boardVars, adminVars
  <2> QED
    BY <2>1, <1>a, <1>b DEF BoardFollows, Current
<1>6. CASE XReadGroupLost
  <2>1. /\ step'[Admin] = step[Admin] /\ UNCHANGED <<entries, revealed, snapshot, reveal>>
        /\ ~(step[Ranker] = "store" /\ step'[Ranker] = "publish")
    BY <1>6, Roles DEF XReadGroupLost, StepOK, stepVars, boardVars, adminVars
  <2> QED
    BY <2>1, <1>a, <1>b DEF BoardFollows, Current
<1>7. CASE XAck
  <2>1. /\ step'[Admin] = step[Admin] /\ UNCHANGED <<entries, revealed, snapshot, reveal>>
        /\ ~(step[Ranker] = "store" /\ step'[Ranker] = "publish")
    BY <1>7, Roles DEF XAck, StartHandling, StepOK, stepVars, boardVars, adminVars
  <2> QED
    BY <2>1, <1>a, <1>b DEF BoardFollows, Current
<1>8. CASE XAckFails
  <2>1. /\ step'[Admin] = step[Admin] /\ UNCHANGED <<entries, revealed, snapshot, reveal>>
        /\ ~(step[Ranker] = "store" /\ step'[Ranker] = "publish")
    BY <1>8, Roles DEF XAckFails, StartHandling, StepOK, stepVars, boardVars, adminVars
  <2> QED
    BY <2>1, <1>a, <1>b DEF BoardFollows, Current
<1>9. CASE SkipPractice
  <2>1. /\ step'[Admin] = step[Admin] /\ UNCHANGED <<entries, revealed, snapshot, reveal>>
        /\ ~(step[Ranker] = "store" /\ step'[Ranker] = "publish")
    BY <1>9, Roles DEF SkipPractice, HandlerDone, Goto, StepOK, stepVars, boardVars, adminVars
  <2> QED
    BY <2>1, <1>a, <1>b DEF BoardFollows, Current
<1>10. CASE ApplyResult
  <2>1. /\ UNCHANGED <<results, group, at>> /\ step'[Ranker] = "load"
        /\ at[Ranker] = "handle" /\ Message.sub \in Contest
    BY <1>10, Roles DEF ApplyResult, Goto, StepOK, streamVars
  <2>2. Covered'
    BY <2>1, CurUnsettled
  <2> QED
    BY <2>2 DEF BoardFollows
<1>11. CASE ApplyFails
  <2>1. /\ UNCHANGED results /\ HandlerFails
        /\ at[Ranker] = "handle" /\ Message.sub \in Contest
    BY <1>11 DEF ApplyFails, StepOK
  <2>2. group' = group /\ at'[Ranker] # "ack" /\ step'[Ranker] \in {"apply", "none"}
    BY <2>1, GivesUp
  <2>3. Covered'
    BY <2>1, <2>2, CurUnsettled
  <2> QED
    BY <2>3 DEF BoardFollows
<1>12. ASSUME NEW p \in Goroutines, LoadEntries(p) PROVE BoardFollows'
  <2>1. /\ step'[Admin] = step[Admin] \/ (p = Admin /\ step'[Admin] # "publish")
        /\ UNCHANGED <<entries, revealed, snapshot, reveal>>
        /\ ~(step[Ranker] = "store" /\ step'[Ranker] = "publish")
    BY <1>12, Roles DEF LoadEntries, Goto, StepOK, boardVars, adminVars, Goroutines
  <2> QED
    BY <2>1, <1>a, <1>b DEF BoardFollows, Current
<1>13. ASSUME NEW p \in Goroutines, ReadFlag(p) PROVE BoardFollows'
  <2>1. /\ step'[Admin] = step[Admin] \/ (p = Admin /\ step'[Admin] # "publish")
        /\ UNCHANGED <<entries, revealed, snapshot, reveal>>
        /\ ~(step[Ranker] = "store" /\ step'[Ranker] = "publish")
    BY <1>13, Roles DEF ReadFlag, Goto, StepOK, boardVars, adminVars, Goroutines
  <2> QED
    BY <2>1, <1>a, <1>b DEF BoardFollows, Current
<1>14. ASSUME NEW p \in Goroutines, StoreSnapshot(p) PROVE BoardFollows'
  <2>1. CASE p = Ranker
    <3>1. /\ step[Ranker] = "store" /\ step'[Admin] = step[Admin]
          /\ UNCHANGED <<entries, revealed, reveal>>
          /\ snapshot' = Board(view[Ranker].entries, view[Ranker].revealed)
      BY <1>14, <2>1, Roles DEF StoreSnapshot, Goto, StepOK, adminVars
    <3>2. ASSUME reveal # "failed" PROVE Current'
      <4>1. view[Ranker].entries = entries /\ view[Ranker].revealed = revealed
        BY <3>1, <3>2, <1>a DEF RankerView
      <4> QED
        BY <3>1, <4>1 DEF Current
    <3>3. reveal \in {"idle", "done"} \/ step[Admin] = "publish" => reveal # "failed"
      BY DEF StepOK
    <3> QED
      BY <3>1, <3>2, <3>3 DEF BoardFollows
  <2>2. CASE p = Admin
    <3>1. /\ step[Admin] = "store" /\ step'[Ranker] = step[Ranker]
          /\ UNCHANGED <<entries, revealed>>
          /\ snapshot' = Board(view[Admin].entries, view[Admin].revealed)
      BY <1>14, <2>2, Roles DEF StoreSnapshot, Goto, StepOK
    <3>2. view[Admin].revealed = TRUE /\ revealed = TRUE
      BY <3>1, <1>a DEF AdminView, FlagsOK
    <3>3. CASE view[Admin].entries = entries
      <4>1. Current'
        BY <3>1, <3>2, <3>3 DEF Current
      <4> QED
        BY <4>1 DEF BoardFollows
    <3>4. CASE Covered
      <4>1. Covered'
        BY <3>1, <3>4, <1>b
      <4> QED
        BY <4>1 DEF BoardFollows
    <3> QED
      BY <3>1, <3>3, <3>4, <1>a DEF AdminView
  <2> QED
    BY <2>1, <2>2 DEF Goroutines
<1>15. ASSUME NEW p \in Goroutines, RebuildFails(p) PROVE BoardFollows'
  <2>1. CASE p = Ranker /\ HandlerFails
    <3>1. group' = group /\ at'[Ranker] # "ack" /\ step'[Ranker] \in {"apply", "none"}
      BY <2>1, GivesUp
    <3>2. step[Ranker] \in {"load", "store"} /\ results' = results
      BY <1>15, <2>1, Roles DEF RebuildFails
    <3>3. at[Ranker] = "handle" /\ Message.sub \in Contest
      BY <3>2 DEF StepOK, MessageOK
    <3>4. Covered'
      BY <3>1, <3>2, <3>3, CurUnsettled
    <3> QED
      BY <3>4 DEF BoardFollows
  <2>2. CASE Goto(Admin, "none") /\ reveal' = "failed"
    BY <2>2 DEF Goto, StepOK, BoardFollows, Goroutines
  <2> QED
    BY <1>15, <2>1, <2>2 DEF RebuildFails
<1>16. ASSUME NEW p \in Goroutines, PublishSnapshot(p) PROVE BoardFollows'
  <2>1. CASE p = Ranker
    <3>1. /\ step'[Admin] = step[Admin] /\ UNCHANGED <<entries, revealed, snapshot, reveal>>
          /\ step[Ranker] = "publish"
      BY <1>16, <2>1, Roles DEF PublishSnapshot, HandlerDone, Goto, StepOK
    <3> QED
      BY <3>1, <1>a, <1>b DEF BoardFollows, Current
  <2>2. CASE p = Admin
    <3>1. /\ step[Admin] = "publish" /\ step'[Ranker] = step[Ranker]
          /\ UNCHANGED <<entries, revealed, snapshot>>
      BY <1>16, <2>2, Roles DEF PublishSnapshot, Goto, StepOK
    <3> QED
      BY <3>1, <1>a, <1>b DEF BoardFollows, Current
  <2> QED
    BY <2>1, <2>2 DEF Goroutines
<1>17. CASE RevealContest
  <2>1. step[Admin] = "none" /\ reveal' \in {"running", "failed"}
    BY <1>17 DEF RevealContest
  <2>2. step'[Admin] \in {"load", "none"}
    BY <1>17, <2>1 DEF RevealContest, Goto, StepOK, Goroutines
  <2> QED
    BY <2>1, <2>2 DEF BoardFollows
<1>18. CASE ApiEnds
  <2>1. /\ step'[Admin] = "none" /\ step'[Ranker] = "none"
        /\ UNCHANGED <<entries, revealed, snapshot>>
        /\ reveal' = IF reveal = "running" THEN "failed" ELSE reveal
    BY <1>18, Roles DEF ApiEnds, boardVars
  <2> QED
    BY <2>1, <1>a, <1>b DEF BoardFollows, Current
<1>19. CASE ApiRestarts
  <2>1. /\ step'[Admin] = step[Admin] /\ UNCHANGED <<entries, revealed, snapshot, reveal>>
        /\ ~(step[Ranker] = "store" /\ step'[Ranker] = "publish")
    BY <1>19, Roles DEF ApiRestarts, StepOK, stepVars, boardVars, adminVars
  <2> QED
    BY <2>1, <1>a, <1>b DEF BoardFollows, Current
<1>20. CASE UNCHANGED vars
  BY <1>20, <1>a, <1>b DEF vars, streamVars, boardVars, stepVars, adminVars, apiVars,
     history, BoardFollows, Current
<1> QED
  BY <1>1, <1>2, <1>3, <1>4, <1>5, <1>6, <1>7, <1>8, <1>9, <1>10, <1>11, <1>12, <1>13,
     <1>14, <1>15, <1>16, <1>17, <1>18, <1>19, <1>20 DEF Next, RankerStep, Rebuild

\* So the board is what the entries and the flag call for, or will be.
LEMMA NextFollows == BInv /\ FlagReadable /\ [Next]_vars => BInv'
<1> SUFFICES ASSUME BInv, FlagReadable, [Next]_vars PROVE BInv'
  OBVIOUS
<1>1. TInv'
  BY NextTypes DEF BInv
<1>2. ASSUME Undisturbed' PROVE NoOverlap' /\ RankerView' /\ AdminView' /\ BoardFollows'
  BY <1>2, NextNoOverlap, NextRankerView, NextAdminView, NextBoardFollows
<1> QED
  BY <1>1, <1>2 DEF BInv

\* At first the board is empty, like the entries.
LEMMA InitFollows == Init => BInv
<1> SUFFICES ASSUME Init PROVE BInv
  OBVIOUS
<1>1. TInv
  BY InitTypes
<1>2. NoOverlap /\ RankerView /\ AdminView
  BY Roles DEF Init, NoOverlap, Rebuilding, RankerView, AdminView
<1>3. Current
  BY DEF Init, Current, NoBoard
<1> QED
  BY <1>1, <1>2, <1>3 DEF BInv, BoardFollows

\* No crash, failed write or redelivery loses a board: when everything delivered is
\* acknowledged and no reveal is under way, failed or has overlapped with another rebuild,
\* the stored board is the one the entries and the flag call for.  Every result whose
\* board is still to be stored is pending, so it is handled again.  Two things break it:
\* an EXISTS that fails (its error reads as "not revealed", and the board is stored as if
\* nothing was wrong), and a stream trimmed past a pending result (XCLAIM forgets it).
THEOREM BoardCatchesUpHolds ==
    ASSUME "exists" \notin Faults
    PROVE  Spec => [](results.first = 1 => BoardCatchesUp)
<1>1. FlagReadable
  BY DEF FlagReadable
<1>2. BInv /\ [Next]_vars => BInv'
  BY <1>1, NextFollows
<1>3. BInv => (results.first = 1 => BoardCatchesUp)
  <2> SUFFICES ASSUME BInv, results.first = 1, group.pel = {}, reveal \in {"idle", "done"},
                      ~raced
               PROVE  snapshot = Board(entries, revealed)
    BY DEF BoardCatchesUp
  <2>1. Current \/ Covered
    BY DEF BInv, Undisturbed, BoardFollows
  <2>2. ~Covered
    BY DEF Covered, Pending, ResultQ!PendingIds
  <2> QED
    BY <2>1, <2>2 DEF Current
<1> QED
  BY <1>2, <1>3, InitFollows, PTL DEF Spec

-----------------------------------------------------------------------------
\* A row of the board.
Row == [TotalScore : Nat, TotalPenalty : Nat, LastACTime : Nat]

\* One step of SumOver, and all of them for the sets D.
SumOne(f, g, T) ==
    IF T = {} THEN 0 ELSE LET x == CHOOSE x \in T : TRUE IN f[x] + g[T \ {x}]

Sums(f, D, g) == g = [T \in D |-> SumOne(f, g, T)]

\* The subsets of S that have at most n elements.
Small(S, n) == {T \in SUBSET S : Cardinality(T) <= n}

\* A set without one of its elements is smaller.
LEMMA SmallFacts ==
    ASSUME NEW S, IsFiniteSet(S), NEW n \in Nat
    PROVE  /\ Small(S, 0) = {{}}
           /\ \A T \in Small(S, n) : T \in Small(S, n + 1)
           /\ \A T \in Small(S, n + 1) :
                 T # {} => T \ {CHOOSE x \in T : TRUE} \in Small(S, n)
           /\ Small(S, Cardinality(S)) = SUBSET S
<1>1. \A T \in SUBSET S :
          IsFiniteSet(T) /\ Cardinality(T) \in Nat /\ Cardinality(T) <= Cardinality(S)
  BY FS_Subset, FS_CardinalityType
<1>2. Small(S, 0) = {{}}
  <2>1. \A T \in SUBSET S : Cardinality(T) <= 0 <=> T = {}
    BY <1>1, FS_EmptySet
  <2> QED
    BY <2>1 DEF Small
<1>3. \A T \in Small(S, n) : T \in Small(S, n + 1)
  BY <1>1 DEF Small
<1>4. ASSUME NEW T \in Small(S, n + 1), T # {}
      PROVE  T \ {CHOOSE x \in T : TRUE} \in Small(S, n)
  <2> DEFINE x == CHOOSE x \in T : TRUE
  <2>1. x \in T
    BY <1>4
  <2> HIDE DEF x
  <2>2. Cardinality(T \ {x}) = Cardinality(T) - 1
    BY <1>1, <1>4, <2>1, FS_RemoveElement DEF Small
  <2>3. Cardinality(T) \in Nat /\ Cardinality(T) <= n + 1 /\ T \ {x} \in SUBSET S
    BY <1>1, <1>4 DEF Small
  <2>4. T \ {x} \in Small(S, n)
    BY <2>2, <2>3 DEF Small
  <2> QED
    BY <2>4 DEF x
<1>5. Small(S, Cardinality(S)) = SUBSET S
  BY <1>1 DEF Small
<1> QED
  BY <1>2, <1>3, <1>4, <1>5

\* The sums over all subsets of a finite set exist.
LEMMA SumLoop ==
    ASSUME NEW f, NEW S, IsFiniteSet(S)
    PROVE  \E g : Sums(f, SUBSET S, g)
<1> DEFINE Bad == {n \in Nat : ~ \E g : Sums(f, Small(S, n), g)}
<1>1. SUFFICES ASSUME Bad # {} PROVE FALSE
  <2>1. Cardinality(S) \in Nat /\ Small(S, Cardinality(S)) = SUBSET S
    BY FS_CardinalityType, SmallFacts
  <2> QED
    BY <2>1
<1>2. PICK m \in Bad : \A j \in Bad : ~ (<<j, m>> \in OpToRel(<, Nat))
  BY <1>1, NatLessThanWellFounded, WFMin, Zenon
<1>3. CASE m = 0
  <2> DEFINE g == [T \in Small(S, 0) |-> 0]
  <2>1. \A T \in Small(S, 0) : SumOne(f, g, T) = 0
    BY SmallFacts DEF SumOne
  <2>2. Sums(f, Small(S, 0), g)
    BY <2>1 DEF Sums
  <2> QED
    BY <1>2, <1>3, <2>2
<1>4. CASE m # 0
  <2> DEFINE n == m - 1
  <2>1. n \in Nat /\ n < m /\ m = n + 1 /\ m \in Nat
    BY <1>4
  <2> HIDE DEF n
  <2>2. ~ (n \in Bad)
    BY <1>2, <2>1 DEF OpToRel
  <2>3. PICK h : Sums(f, Small(S, n), h)
    BY <2>1, <2>2
  <2> DEFINE g == [T \in Small(S, m) |-> SumOne(f, h, T)]
  <2>4. \A T \in Small(S, n) : T \in Small(S, m) /\ h[T] = g[T]
    BY <2>1, <2>3, SmallFacts DEF Sums
  <2>5. \A T \in Small(S, m) : T # {} => T \ {CHOOSE x \in T : TRUE} \in Small(S, n)
    BY <2>1, SmallFacts
  <2>6. ASSUME NEW T \in Small(S, m) PROVE SumOne(f, h, T) = SumOne(f, g, T)
    <3> HIDE DEF g
    <3>1. CASE T = {}
      BY <3>1 DEF SumOne
    <3>2. CASE T # {}
      <4>1. h[T \ {CHOOSE x \in T : TRUE}] = g[T \ {CHOOSE x \in T : TRUE}]
        BY <2>4, <2>5, <3>2
      <4> QED
        BY <3>2, <4>1 DEF SumOne
    <3> QED
      BY <3>1, <3>2
  <2>7. Sums(f, Small(S, m), g)
    BY <2>6 DEF Sums
  <2> QED
    BY <1>2, <2>7
<1> QED
  BY <1>3, <1>4

\* The sum of numbers is a number.
LEMMA SumFacts ==
    ASSUME NEW f, NEW S, IsFiniteSet(S), \A x \in S : f[x] \in Nat
    PROVE  SumOver(f, S) \in Nat
<1> DEFINE G == CHOOSE g : Sums(f, SUBSET S, g)
<1>1. SumOver(f, S) = G[S]
  BY Zenon DEF SumOver, Sums, SumOne
<1>2. Sums(f, SUBSET S, G)
  BY SumLoop, Zenon
<1> HIDE DEF G
<1>3. \A T \in SUBSET S : G[T] = SumOne(f, G, T)
  BY <1>2 DEF Sums
<1> DEFINE Bad == {n \in Nat : \E T \in SUBSET S : Cardinality(T) = n /\ G[T] \notin Nat}
<1>4. ASSUME Bad # {} PROVE FALSE
  <2>1. PICK m \in Bad : \A j \in Bad : ~ (<<j, m>> \in OpToRel(<, Nat))
    BY <1>4, NatLessThanWellFounded, WFMin, Zenon
  <2>2. PICK T \in SUBSET S : Cardinality(T) = m /\ G[T] \notin Nat
    BY <2>1
  <2>3. T # {}
    BY <1>3, <2>2 DEF SumOne
  <2> DEFINE x == CHOOSE x \in T : TRUE
  <2>4. x \in T
    BY <2>3
  <2>5. G[T] = f[x] + G[T \ {x}]
    BY <1>3, <2>3, Zenon DEF SumOne
  <2> HIDE DEF x
  <2>6. IsFiniteSet(T)
    BY FS_Subset
  <2>7. Cardinality(T \ {x}) = m - 1 /\ Cardinality(T \ {x}) \in Nat /\ m \in Nat
    BY <2>2, <2>4, <2>6, FS_RemoveElement, FS_CardinalityType
  <2>8. ~ (m - 1 \in Bad)
    <3>1. m - 1 \in Nat /\ m - 1 < m
      BY <2>7
    <3>2. <<m - 1, m>> \in OpToRel(<, Nat)
      BY <2>7, <3>1 DEF OpToRel
    <3> QED
      BY <2>1, <3>2
  <2>9. G[T \ {x}] \in Nat
    BY <2>7, <2>8
  <2>10. f[x] \in Nat
    BY <2>4
  <2> QED
    BY <2>2, <2>5, <2>9, <2>10
<1>5. Cardinality(S) \in Nat
  BY FS_CardinalityType
<1> QED
  BY <1>1, <1>4, <1>5

\* A finite set of numbers that is not empty has a largest one.
LEMMA LargestFacts ==
    ASSUME NEW S, S \subseteq Nat, IsFiniteSet(S), S # {}
    PROVE  \E t \in S : \A x \in S : x <= t
<1> DEFINE Bad == {n \in Nat : \E T \in SUBSET S : /\ Cardinality(T) = n /\ T # {}
                                                 /\ ~ \E t \in T : \A x \in T : x <= t}
<1>1. Cardinality(S) \in Nat
  BY FS_CardinalityType
<1>2. SUFFICES ASSUME Bad # {} PROVE FALSE
  BY <1>1
<1>3. PICK m \in Bad : \A j \in Bad : ~ (<<j, m>> \in OpToRel(<, Nat))
  BY <1>2, NatLessThanWellFounded, WFMin, Zenon
<1>4. PICK T \in SUBSET S : /\ Cardinality(T) = m /\ T # {}
                            /\ ~ \E t \in T : \A x \in T : x <= t
  BY <1>3
<1>5. PICK y : y \in T
  BY <1>4
<1>6. IsFiniteSet(T)
  BY FS_Subset
<1>7. Cardinality(T \ {y}) = m - 1 /\ Cardinality(T \ {y}) \in Nat /\ m \in Nat
  BY <1>4, <1>5, <1>6, FS_RemoveElement, FS_CardinalityType
<1>8. ~ (m - 1 \in Bad)
  <2>1. m - 1 \in Nat /\ m - 1 < m
    BY <1>7
  <2>2. <<m - 1, m>> \in OpToRel(<, Nat)
    BY <1>7, <2>1 DEF OpToRel
  <2> QED
    BY <1>3, <2>2
<1>9. CASE T \ {y} = {}
  <2>1. \A x \in T : x = y
    BY <1>9
  <2>2. y \in Nat
    BY <1>5
  <2> QED
    BY <1>4, <1>5, <2>1, <2>2
<1>10. CASE T \ {y} # {}
  <2>1. T \ {y} \in SUBSET S
    OBVIOUS
  <2>2. PICK t \in T \ {y} : \A x \in T \ {y} : x <= t
    BY <1>7, <1>8, <1>10, <2>1
  <2>3. t \in Nat /\ y \in Nat /\ t \in T
    BY <1>5
  <2> HIDE DEF Bad
  <2>4. CASE y <= t
    <3>1. \A x \in T : x <= t
      BY <2>2, <2>4
    <3> QED
      BY <1>4, <2>3, <3>1
  <2>5. CASE ~(y <= t)
    <3>1. \A x \in T : x \in Nat /\ x <= y
      BY <2>2, <2>3, <2>5
    <3> QED
      BY <1>4, <1>5, <3>1
  <2> QED
    BY <2>4, <2>5
<1> QED
  BY <1>9, <1>10

-----------------------------------------------------------------------------
\* Rows that agree on the three keys are equal, and any two rows compare.
LEMMA RowFacts ==
    ASSUME NEW a \in Row, NEW b \in Row
    PROVE  /\ a = b \/ Better(a, b) \/ Better(b, a)
           /\ ~(Better(a, b) /\ Better(b, a)) /\ ~Better(a, a)
           /\ \A c \in Row : Better(a, b) /\ Better(b, c) => Better(a, c)
<1>1. ASSUME NEW r \in Row
      PROVE  /\ r.TotalScore \in Nat /\ r.TotalPenalty \in Nat /\ r.LastACTime \in Nat
             /\ r = [TotalScore |-> r.TotalScore, TotalPenalty |-> r.TotalPenalty,
                     LastACTime |-> r.LastACTime]
  BY DEF Row
<1>2. ASSUME a.TotalScore = b.TotalScore, a.TotalPenalty = b.TotalPenalty,
             a.LastACTime = b.LastACTime
      PROVE  a = b
  <2>1. a = [TotalScore |-> a.TotalScore, TotalPenalty |-> a.TotalPenalty,
             LastACTime |-> a.LastACTime]
    BY <1>1
  <2>2. b = [TotalScore |-> b.TotalScore, TotalPenalty |-> b.TotalPenalty,
             LastACTime |-> b.LastACTime]
    BY <1>1
  <2> QED
    BY <1>2, <2>1, <2>2, Zenon
<1>3. /\ a.TotalScore \in Nat /\ a.TotalPenalty \in Nat /\ a.LastACTime \in Nat
      /\ b.TotalScore \in Nat /\ b.TotalPenalty \in Nat /\ b.LastACTime \in Nat
  BY <1>1
<1>4. a = b \/ Better(a, b) \/ Better(b, a)
  BY <1>2, <1>3 DEF Better
<1>5. ~(Better(a, b) /\ Better(b, a)) /\ ~Better(a, a)
  BY <1>3 DEF Better
<1>6. ASSUME NEW c \in Row, Better(a, b), Better(b, c) PROVE Better(a, c)
  <2>1. c.TotalScore \in Nat /\ c.TotalPenalty \in Nat /\ c.LastACTime \in Nat
    BY <1>1
  <2> QED
    BY <1>3, <1>6, <2>1 DEF Better
<1> QED
  BY <1>4, <1>5, <1>6

\* The order of sort.Slice is total.
LEMMA BeforeFacts ==
    ASSUME NEW D, D \subseteq Nat, NEW rows \in [D -> Row]
    PROVE  /\ \A u \in D : ~Before(rows, u, u)
           /\ \A u, v \in D : u = v \/ Before(rows, u, v) \/ Before(rows, v, u)
           /\ \A u, v \in D : ~(Before(rows, u, v) /\ Before(rows, v, u))
           /\ \A u, v, w \in D : Before(rows, u, v) /\ Before(rows, v, w) => Before(rows, u, w)
<1> USE DEF Before
<1>1. \A u \in D : u \in Nat /\ rows[u] \in Row
  OBVIOUS
<1>2. \A u \in D : ~Before(rows, u, u)
  BY <1>1, RowFacts
<1>3. \A u, v \in D : u = v \/ Before(rows, u, v) \/ Before(rows, v, u)
  BY <1>1, RowFacts
<1>4. \A u, v \in D : ~(Before(rows, u, v) /\ Before(rows, v, u))
  BY <1>1, RowFacts
<1>5. ASSUME NEW u \in D, NEW v \in D, NEW w \in D, Before(rows, u, v), Before(rows, v, w)
      PROVE  Before(rows, u, w)
  BY <1>1, <1>5, RowFacts
<1> QED
  BY <1>2, <1>3, <1>4, <1>5

\* The place of u in the sorted list, and the list.
Place(rows, u) == 1 + Cardinality({v \in DOMAIN rows : Before(rows, v, u)})

Sorted(rows) ==
    [i \in 1 .. Cardinality(DOMAIN rows) |-> CHOOSE u \in DOMAIN rows : Place(rows, u) = i]

\* Who comes first has the smaller place, and every place is taken once.
Places(rows, D) ==
    /\ \A u \in D : Place(rows, u) \in 1 .. Cardinality(D)
    /\ \A u, v \in D : Before(rows, u, v) <=> Place(rows, u) < Place(rows, v)
    /\ \A i \in 1 .. Cardinality(D) : \E u \in D : Place(rows, u) = i
    /\ \A u, v \in D : Place(rows, u) = Place(rows, v) => u = v

\* The places of a finite table.
LEMMA PlaceFacts ==
    ASSUME NEW D, D \subseteq Nat, IsFiniteSet(D), NEW rows \in [D -> Row]
    PROVE  Cardinality(D) \in Nat /\ Places(rows, D)
<1> DEFINE N == Cardinality(D)
           P(u) == {v \in D : Before(rows, v, u)}
<1>1. N \in Nat /\ DOMAIN rows = D
  BY FS_CardinalityType
<1>2. \A u \in D : /\ IsFiniteSet(P(u)) /\ Cardinality(P(u)) \in Nat
                   /\ Place(rows, u) = 1 + Cardinality(P(u))
  BY <1>1, FS_Subset, FS_CardinalityType DEF Place
<1>3. ASSUME NEW u \in D PROVE Place(rows, u) \in 1 .. N
  <2>1. P(u) \in SUBSET (D \ {u})
    BY BeforeFacts
  <2>2. IsFiniteSet(D \ {u}) /\ Cardinality(D \ {u}) = N - 1
    BY FS_RemoveElement
  <2>3. Cardinality(P(u)) <= N - 1
    <3> HIDE DEF P
    <3> QED
      BY <2>1, <2>2, FS_Subset
  <2> QED
    BY <1>1, <1>2, <2>3
<1>4. ASSUME NEW u \in D, NEW v \in D, Before(rows, u, v)
      PROVE  Place(rows, u) < Place(rows, v)
  <2>1. P(u) \cup {u} \in SUBSET P(v)
    BY <1>4, BeforeFacts
  <2>2. u \notin P(u)
    BY BeforeFacts
  <2> HIDE DEF P
  <2>3. Cardinality(P(u) \cup {u}) = Cardinality(P(u)) + 1
    BY <1>2, <2>2, FS_AddElement
  <2>4. Cardinality(P(u) \cup {u}) <= Cardinality(P(v))
    BY <1>2, <2>1, FS_Subset
  <2> QED
    BY <1>2, <2>3, <2>4
<1> HIDE DEF P
<1>5. \A u, v \in D : Before(rows, u, v) <=> Place(rows, u) < Place(rows, v)
  <2> SUFFICES ASSUME NEW u \in D, NEW v \in D, Place(rows, u) < Place(rows, v)
               PROVE  Before(rows, u, v)
    BY <1>4
  <2>1. Place(rows, u) \in Nat /\ Place(rows, v) \in Nat
    BY <1>2
  <2>2. u # v /\ ~Before(rows, v, u)
    BY <1>4, <2>1
  <2> QED
    BY <2>2, BeforeFacts
<1>6. \A u, v \in D : Place(rows, u) = Place(rows, v) => u = v
  <2> SUFFICES ASSUME NEW u \in D, NEW v \in D, Place(rows, u) = Place(rows, v), u # v
               PROVE  FALSE
    OBVIOUS
  <2>1. Before(rows, u, v) \/ Before(rows, v, u)
    BY BeforeFacts
  <2>2. Place(rows, u) \in Nat /\ Place(rows, v) \in Nat
    BY <1>2
  <2> QED
    BY <1>4, <2>1, <2>2
<1>7. ASSUME NEW i \in 1 .. N PROVE \E u \in D : Place(rows, u) = i
  <2> DEFINE f == [u \in D |-> Place(rows, u)]
  <2>1. f \in Injection(D, 1 .. N)
    BY <1>3, <1>6 DEF Injection, IsInjective
  <2>2. IsFiniteSet(1 .. N) /\ Cardinality(1 .. N) = N
    BY <1>1, FS_Interval
  <2> HIDE DEF f
  <2>3. f \in Surjection(D, 1 .. N)
    BY <2>1, <2>2, FS_Injection
  <2>4. \E u \in D : f[u] = i
    BY <2>3 DEF Surjection
  <2> QED
    BY <2>4 DEF f
<1> QED
  BY <1>1, <1>3, <1>5, <1>6, <1>7 DEF Places

\* The list holds everybody at his place.
LEMMA SortedFacts ==
    ASSUME NEW D, D \subseteq Nat, IsFiniteSet(D), NEW rows \in [D -> Row]
    PROVE  /\ \A i \in 1 .. Cardinality(D) :
                 Sorted(rows)[i] \in D /\ Place(rows, Sorted(rows)[i]) = i
           /\ \A u \in D : Sorted(rows)[Place(rows, u)] = u
<1> DEFINE N == Cardinality(D)
<1>0. N \in Nat /\ Places(rows, D)
  BY PlaceFacts
<1>1. \A i \in 1 .. N : Sorted(rows)[i] = CHOOSE u \in D : Place(rows, u) = i
  BY DEF Sorted
<1>2. ASSUME NEW i \in 1 .. N
      PROVE  Sorted(rows)[i] \in D /\ Place(rows, Sorted(rows)[i]) = i
  <2>1. \E u \in D : Place(rows, u) = i
    BY <1>0 DEF Places
  <2>2. Sorted(rows)[i] = CHOOSE u \in D : Place(rows, u) = i
    BY <1>1
  <2> QED
    BY <2>1, <2>2, Zenon
<1>3. ASSUME NEW u \in D PROVE Sorted(rows)[Place(rows, u)] = u
  <2> DEFINE i == Place(rows, u)
  <2>1. i \in 1 .. N
    BY <1>0 DEF Places
  <2>2. Sorted(rows)[i] \in D /\ Place(rows, Sorted(rows)[i]) = i
    BY <1>2, <2>1
  <2> QED
    BY <1>0, <2>2 DEF Places
<1> QED
  BY <1>2, <1>3

\* The users with a better row, and the rank this makes of the i-th of the list.
Ahead(rows, u) == {v \in DOMAIN rows : Better(rows[v], rows[u])}

Standing(rows, i) == 1 + Cardinality(Ahead(rows, Sorted(rows)[i]))

\* The rounds of assignRanks.
RankOne(rows, r, i) ==
    IF i = 1 \/ rows[Sorted(rows)[i - 1]] # rows[Sorted(rows)[i]] THEN i ELSE r[i - 1]

RankRounds(rows, r) == r = [i \in DOMAIN Sorted(rows) |-> RankOne(rows, r, i)]

\* Going down the list, the rank changes exactly where the row does.
LEMMA StandingFacts ==
    ASSUME NEW D, D \subseteq Nat, IsFiniteSet(D), NEW rows \in [D -> Row],
           NEW i \in 1 .. Cardinality(D)
    PROVE  Standing(rows, i) =
              IF i = 1 \/ rows[Sorted(rows)[i - 1]] # rows[Sorted(rows)[i]]
              THEN i ELSE Standing(rows, i - 1)
<1> DEFINE N == Cardinality(D)
           u == Sorted(rows)[i]
           w == Sorted(rows)[i - 1]
           P == {v \in D : Before(rows, v, u)}
<1>0. Places(rows, D)
  BY PlaceFacts
<1>1. N \in Nat /\ i \in Nat /\ DOMAIN rows = D
  BY FS_CardinalityType
<1>2. u \in D /\ Place(rows, u) = i
  BY SortedFacts
<1>3. i # 1 => w \in D /\ Place(rows, w) = i - 1
  <2>1. i # 1 => i - 1 \in 1 .. N
    BY <1>1
  <2> QED
    BY <2>1, SortedFacts
<1>4. IsFiniteSet(P) /\ Cardinality(P) \in Nat /\ 1 + Cardinality(P) = i
  <2>1. P \in SUBSET D
    OBVIOUS
  <2>2. Place(rows, u) = 1 + Cardinality(P)
    BY <1>1 DEF Place
  <2> QED
    BY <1>2, <2>1, <2>2, FS_Subset, FS_CardinalityType
<1>5. Ahead(rows, u) \subseteq P
  BY <1>1 DEF Ahead, Before
<1>6. Standing(rows, i) = 1 + Cardinality(Ahead(rows, u))
  BY DEF Standing
<1> HIDE DEF u, w
<1>7. CASE i = 1
  <2>1. P = {}
    BY <1>4, <1>7, FS_EmptySet
  <2>2. Ahead(rows, u) = P
    BY <1>5, <2>1
  <2> QED
    BY <1>4, <1>6, <1>7, <2>2
<1>8. CASE i # 1 /\ rows[w] # rows[u]
  <2>1. ASSUME NEW v \in P PROVE v \in Ahead(rows, u)
    <3>1. v \in D /\ Before(rows, v, u)
      OBVIOUS
    <3>2. SUFFICES ASSUME rows[v] = rows[u] PROVE FALSE
      BY <1>1, <3>1 DEF Before, Ahead
    <3>3. /\ Place(rows, v) \in Nat /\ Place(rows, v) < i
          /\ w \in D /\ Place(rows, w) = i - 1
      BY <1>0, <1>1, <1>2, <1>3, <1>8, <3>1 DEF Places
    <3>4. Before(rows, w, u)
      BY <1>0, <1>1, <1>2, <3>3 DEF Places
    <3>5. Better(rows[w], rows[u])
      BY <1>8, <3>4 DEF Before
    <3>6. v # w
      BY <1>8, <3>2
    <3>7. Before(rows, v, w)
      <4>1. Before(rows, v, w) \/ Before(rows, w, v)
        BY <3>1, <3>3, <3>6, BeforeFacts
      <4>2. Before(rows, w, v) => Place(rows, w) < Place(rows, v)
        BY <1>0, <3>1, <3>3 DEF Places
      <4> QED
        BY <1>1, <3>3, <4>1, <4>2
    <3>8. Better(rows[v], rows[w])
      BY <1>8, <3>2, <3>7 DEF Before
    <3>9. rows[u] \in Row /\ rows[w] \in Row
      BY <1>2, <3>3
    <3> QED
      BY <3>2, <3>5, <3>8, <3>9, RowFacts
  <2>2. Ahead(rows, u) = P
    BY <1>5, <2>1
  <2> QED
    BY <1>4, <1>6, <1>8, <2>2 DEF u, w
<1>9. CASE i # 1 /\ rows[w] = rows[u]
  <2>1. Ahead(rows, w) = Ahead(rows, u)
    BY <1>9 DEF Ahead
  <2>2. Standing(rows, i - 1) = 1 + Cardinality(Ahead(rows, w))
    BY DEF Standing, w
  <2> QED
    BY <1>6, <1>9, <2>1, <2>2 DEF u, w
<1> QED
  BY <1>7, <1>8, <1>9

\* So assignRanks computes it.
LEMMA RankFacts ==
    ASSUME NEW D, D \subseteq Nat, IsFiniteSet(D), NEW rows \in [D -> Row], NEW u \in D
    PROVE  assignRanks(rows)[u] = 1 + Cardinality(Ahead(rows, u))
<1> DEFINE N == Cardinality(D)
           G == CHOOSE r : RankRounds(rows, r)
           H == [i \in 1 .. N |-> Standing(rows, i)]
<1>1. N \in Nat /\ DOMAIN rows = D /\ DOMAIN Sorted(rows) = 1 .. N
  BY FS_CardinalityType DEF Sorted
<1>2. assignRanks(rows) = [v \in DOMAIN rows |-> G[Place(rows, v)]]
  BY Zenon DEF assignRanks, RankRounds, RankOne, Place, Sorted
<1>3. RankRounds(rows, H)
  <2>1. ASSUME NEW i \in 1 .. N PROVE H[i] = RankOne(rows, H, i)
    <3>1. i # 1 => i - 1 \in 1 .. N
      BY <1>1
    <3>2. H[i] = Standing(rows, i) /\ (i # 1 => H[i - 1] = Standing(rows, i - 1))
      BY <3>1
    <3>3. Standing(rows, i) =
             IF i = 1 \/ rows[Sorted(rows)[i - 1]] # rows[Sorted(rows)[i]]
             THEN i ELSE Standing(rows, i - 1)
      BY StandingFacts
    <3> HIDE DEF H
    <3> QED
      BY <3>2, <3>3 DEF RankOne
  <2> QED
    BY <1>1, <2>1 DEF RankRounds
<1>4. RankRounds(rows, G)
  BY <1>3, Zenon
<1> HIDE DEF G
<1>5. \A i \in 1 .. N : G[i] = RankOne(rows, G, i)
  BY <1>1, <1>4 DEF RankRounds
<1> DEFINE Bad == {i \in 1 .. N : G[i] # Standing(rows, i)}
<1>6. ASSUME Bad # {} PROVE FALSE
  <2>1. PICK i \in Bad : \A j \in Bad : ~ (<<j, i>> \in OpToRel(<, Nat))
    <3>1. Bad \subseteq Nat
      BY <1>1
    <3> QED
      BY <1>6, <3>1, NatLessThanWellFounded, WFMin, Zenon
  <2>2. i \in 1 .. N /\ G[i] # Standing(rows, i)
    BY <2>1
  <2>3. CASE i = 1 \/ rows[Sorted(rows)[i - 1]] # rows[Sorted(rows)[i]]
    BY <1>5, <2>2, <2>3, StandingFacts DEF RankOne
  <2>4. CASE i # 1 /\ rows[Sorted(rows)[i - 1]] = rows[Sorted(rows)[i]]
    <3>1. i - 1 \in 1 .. N /\ i - 1 \in Nat /\ i \in Nat /\ i - 1 < i
      <4> HIDE DEF Bad
      <4> QED
        BY <1>1, <2>2, <2>4
    <3>2. <<i - 1, i>> \in OpToRel(<, Nat)
      BY <3>1 DEF OpToRel
    <3>3. G[i - 1] = Standing(rows, i - 1)
      BY <2>1, <3>1, <3>2
    <3>4. G[i] = G[i - 1]
      BY <1>5, <2>2, <2>4 DEF RankOne
    <3>5. Standing(rows, i) = Standing(rows, i - 1)
      BY <2>2, <2>4, StandingFacts
    <3> QED
      BY <2>2, <3>3, <3>4, <3>5
  <2> QED
    BY <2>3, <2>4
<1>7. Place(rows, u) \in 1 .. N /\ Sorted(rows)[Place(rows, u)] = u
  BY PlaceFacts, SortedFacts DEF Places
<1>8. G[Place(rows, u)] = Standing(rows, Place(rows, u))
  BY <1>6, <1>7
<1>9. assignRanks(rows)[u] = G[Place(rows, u)]
  BY <1>1, <1>2
<1> QED
  BY <1>7, <1>8, <1>9 DEF Standing

-----------------------------------------------------------------------------
\* What a finite set is mapped to is finite.
LEMMA ImageFacts ==
    ASSUME NEW S, IsFiniteSet(S), NEW f
    PROVE  IsFiniteSet({f[x] : x \in S})
<1> DEFINE T == {f[x] : x \in S}
           g == [x \in S |-> f[x]]
<1>1. g \in Surjection(S, T)
  BY DEF Surjection
<1> HIDE DEF g, T
<1>2. IsFiniteSet(T)
  BY <1>1, FS_Surjection
<1> QED
  BY <1>2 DEF T

\* The row of a user is a row.
LEMMA UserRow ==
    ASSUME NEW D, IsFiniteSet(D), NEW E \in [D -> ScoreEntry]
    PROVE  aggregateUsers(E) \in Row
<1> DEFINE solved == {p \in DOMAIN E : E[p].Accepted}
           best   == [p \in solved |-> E[p].BestSubmitTime]
           pen    == [p \in solved |-> E[p].Penalty]
           times  == {0} \cup {E[p].BestSubmitTime : p \in solved}
           last   == CHOOSE t \in times : \A x \in times : x <= t
<1>1. IsFiniteSet(solved) /\ Cardinality(solved) \in Nat /\ solved \subseteq D
  <2>1. solved \in SUBSET D
    OBVIOUS
  <2> HIDE DEF solved
  <2> QED
    BY <2>1, FS_Subset, FS_CardinalityType
<1>2. \A p \in D : E[p].BestSubmitTime \in Nat /\ E[p].Penalty \in Nat
  BY DEF ScoreEntry
<1>3. SumOver(pen, solved) \in Nat
  <2>1. \A p \in solved : pen[p] \in Nat
    BY <1>1, <1>2
  <2> HIDE DEF solved, pen
  <2> QED
    BY <1>1, <2>1, SumFacts
<1>4. last \in Nat
  <2>1. times \subseteq Nat /\ times # {}
    BY <1>1, <1>2
  <2>2. times = {best[p] : p \in solved} \cup {0}
    OBVIOUS
  <2>3. IsFiniteSet({best[p] : p \in solved})
    <3> HIDE DEF best, solved
    <3> QED
      BY <1>1, ImageFacts
  <2>4. IsFiniteSet(times)
    <3> HIDE DEF times, best, solved
    <3> QED
      BY <2>2, <2>3, FS_AddElement
  <2> HIDE DEF times
  <2>5. \E t \in times : \A x \in times : x <= t
    BY <2>1, <2>4, LargestFacts
  <2>6. last \in times
    BY <2>5, Zenon
  <2> HIDE DEF last
  <2> QED
    BY <2>1, <2>6
<1>5. aggregateUsers(E) = [TotalScore   |-> Cardinality(solved),
                           TotalPenalty |-> SumOver(pen, solved),
                           LastACTime   |-> last]
  BY Zenon DEF aggregateUsers
<1> HIDE DEF solved, pen, last
<1> QED
  BY <1>1, <1>3, <1>4, <1>5 DEF Row

\* Finitely many entries, all of them sound.
Whole(E) ==
    /\ E \in Tables /\ IsFiniteSet(DOMAIN E)
    /\ \A c \in DOMAIN E : EntryOK(E[c])

\* The users of a table are finitely many numbers.
Users(E) == {c[1] : c \in DOMAIN E}

\* The rows of a table are rows, one for each of its users.
LEMMA TableRows ==
    ASSUME NEW E \in Tables, IsFiniteSet(DOMAIN E)
    PROVE  /\ Users(E) \subseteq Nat /\ IsFiniteSet(Users(E))
           /\ BoardRows(E) \in [Users(E) -> Row]
<1>1. \A c \in DOMAIN E : /\ c = <<c[1], c[2]>> /\ c[1] \in Nat
                          /\ E[c] \in ScoreEntry
  <2>1. \A c \in Cells : c = <<c[1], c[2]>> /\ c[1] \in Nat
    BY ContestAssumption DEF Cells, Cell
  <2> QED
    BY <2>1, TableFacts
<1>2. Users(E) \subseteq Nat
  BY <1>1 DEF Users
<1> DEFINE first  == [c \in DOMAIN E |-> c[1]]
           second == [c \in DOMAIN E |-> c[2]]
<1>3. IsFiniteSet(Users(E))
  <2>1. Users(E) = {first[c] : c \in DOMAIN E}
    BY DEF Users
  <2> HIDE DEF first
  <2> QED
    BY <2>1, ImageFacts
<1>4. ASSUME NEW u \in Users(E)
      PROVE  aggregateUsers([p \in {c[2] : c \in {d \in DOMAIN E : d[1] = u}} |->
                                 E[<<u, p>>]]) \in Row
  <2> DEFINE C == {d \in DOMAIN E : d[1] = u}
             D == {c[2] : c \in C}
             F == [p \in D |-> E[<<u, p>>]]
  <2>1. IsFiniteSet(C)
    <3>1. C \in SUBSET DOMAIN E
      OBVIOUS
    <3> HIDE DEF C
    <3> QED
      BY <3>1, FS_Subset
  <2>2. IsFiniteSet(D)
    <3>1. D = {second[c] : c \in C}
      OBVIOUS
    <3> HIDE DEF second, C, D
    <3> QED
      BY <2>1, <3>1, ImageFacts
  <2>3. \A p \in D : E[<<u, p>>] \in ScoreEntry
    <3> SUFFICES ASSUME NEW p \in D PROVE E[<<u, p>>] \in ScoreEntry
      OBVIOUS
    <3>1. PICK c \in DOMAIN E : c[1] = u /\ c[2] = p
      OBVIOUS
    <3>2. c = <<u, p>>
      BY <1>1, <3>1
    <3> QED
      BY <1>1, <3>2
  <2>4. F \in [D -> ScoreEntry]
    <3> HIDE DEF D
    <3> QED
      BY <2>3
  <2>5. aggregateUsers(F) \in Row
    <3> HIDE DEF D, F
    <3> QED
      BY <2>2, <2>4, UserRow
  <2> QED
    BY <2>5
<1>5. BoardRows(E) \in [Users(E) -> Row]
  <2>1. BoardRows(E) =
            [u \in Users(E) |->
                aggregateUsers([p \in {c[2] : c \in {d \in DOMAIN E : d[1] = u}} |->
                                    E[<<u, p>>]])]
    BY Zenon DEF BoardRows, Users
  <2> QED
    BY <1>4, <2>1
<1> QED
  BY <1>2, <1>3, <1>5

\* What the board shows of a table is a table.
LEMMA ShownTable ==
    ASSUME NEW E, Whole(E), NEW r \in BOOLEAN
    PROVE  Shown(E, r) \in Tables /\ IsFiniteSet(DOMAIN Shown(E, r))
<1>1. E \in Tables /\ DOMAIN E \subseteq Cells /\ IsFiniteSet(DOMAIN E)
  BY TableFacts DEF Whole
<1>2. ASSUME NEW c \in DOMAIN E PROVE RevealAll(E[c]) \in ScoreEntry
  <2>1. EntryOK(E[c]) /\ E[c] \in ScoreEntry
    BY DEF Whole, EntryOK
  <2>2. CASE E[c].Accepted
    <3>1. RevealAll(E[c]) = E[c]
      BY <2>1, <2>2, RevealEntry
    <3> QED
      BY <2>1, <3>1
  <2>3. CASE ~E[c].Accepted
    <3>1. Revealing(E[c])
      BY <2>1, <2>3 DEF EntryOK, Revealing
    <3>2. Revealing(RevealAll(E[c]))
      BY <2>1, <3>1, RevealAllFacts
    <3> QED
      BY <3>2 DEF Revealing
  <2> QED
    BY <2>2, <2>3
<1>3. CASE r
  <2>1. Shown(E, r) = [c \in DOMAIN E |-> RevealAll(E[c])]
    BY <1>3, Zenon DEF Shown
  <2> DEFINE F == [c \in DOMAIN E |-> RevealAll(E[c])]
  <2>2. F \in [DOMAIN E -> ScoreEntry] /\ DOMAIN F = DOMAIN E
    BY <1>2
  <2> HIDE DEF F
  <2>3. F \in Tables
    BY <1>1, <2>2 DEF Tables
  <2> QED
    BY <1>1, <2>1, <2>2, <2>3 DEF F
<1>4. CASE ~r
  <2>1. Shown(E, r) = E
    BY <1>4, Zenon DEF Shown
  <2> QED
    BY <1>1, <2>1
<1> QED
  BY <1>3, <1>4

\* On the board of such a table the ranks are the standard ones.
LEMMA BoardRanks ==
    ASSUME NEW E, Whole(E), NEW r \in BOOLEAN, NEW u \in DOMAIN Board(E, r).rows
    PROVE  Board(E, r).rank[u] = 1 + Cardinality(Ahead(Board(E, r).rows, u))
<1> DEFINE rows == BoardRows(Shown(E, r))
           D    == Users(Shown(E, r))
<1>1. Board(E, r).rows = rows /\ Board(E, r).rank = assignRanks(rows)
  BY DEF Board
<1>2. D \subseteq Nat /\ IsFiniteSet(D) /\ rows \in [D -> Row]
  BY ShownTable, TableRows
<1> HIDE DEF rows, D
<1>3. u \in D
  BY <1>1, <1>2
<1> QED
  BY <1>1, <1>2, <1>3, RankFacts

\* A step adds at most one cell.
CellsGrow ==
    DOMAIN entries' = DOMAIN entries \/ \E x : DOMAIN entries' = DOMAIN entries \cup {x}

\* Whatever a handler has read of its cell, it replaces only this one.
LEMMA NextGrow ==
    TInv /\ [Next]_vars => CellsGrow
<1> SUFFICES ASSUME TInv, [Next]_vars PROVE CellsGrow
  OBVIOUS
<1>1. ASSUME NEW s \in Submissions, Judge(s) PROVE CellsGrow
  BY <1>1 DEF Judge, streamVars, boardVars, stepVars, adminVars, apiVars, history,
     CellsGrow
<1>2. CASE EnsureGroup
  BY <1>2 DEF EnsureGroup, streamVars, boardVars, stepVars, adminVars, apiVars, history,
     CellsGrow
<1>3. CASE DrainPending
  BY <1>3 DEF DrainPending, streamVars, boardVars, stepVars, adminVars, apiVars,
     history, CellsGrow
<1>4. CASE DrainPendingFails
  BY <1>4 DEF DrainPendingFails, streamVars, boardVars, stepVars, adminVars, apiVars,
     history, CellsGrow
<1>5. CASE XReadGroup
  BY <1>5 DEF XReadGroup, streamVars, boardVars, stepVars, adminVars, apiVars, history,
     CellsGrow
<1>6. CASE XReadGroupLost
  BY <1>6 DEF XReadGroupLost, streamVars, boardVars, stepVars, adminVars, apiVars,
     history, CellsGrow
<1>7. CASE XAck
  BY <1>7 DEF XAck, streamVars, boardVars, stepVars, adminVars, apiVars, history,
     CellsGrow
<1>8. CASE XAckFails
  BY <1>8 DEF XAckFails, streamVars, boardVars, stepVars, adminVars, apiVars, history,
     CellsGrow
<1>9. CASE SkipPractice
  BY <1>9 DEF SkipPractice, streamVars, boardVars, stepVars, adminVars, apiVars,
     history, CellsGrow
<1>10. CASE ApplyResult
  <2>1. PICK e : HSet(e)
    BY <1>10 DEF ApplyResult
  <2>2. DOMAIN entries' = DOMAIN entries \cup {Cell(Message.sub)}
    BY <2>1 DEF HSet
  <2> QED
    BY <2>2 DEF CellsGrow
<1>11. CASE ApplyFails
  <2>1. ASSUME HSet(Prev) PROVE DOMAIN entries' = DOMAIN entries \cup {Cell(Message.sub)}
    BY <2>1 DEF HSet
  <2> QED
    BY <1>11, <2>1 DEF ApplyFails, CellsGrow
<1>12. ASSUME NEW p \in Goroutines, LoadEntries(p) PROVE CellsGrow
  BY <1>12 DEF LoadEntries, streamVars, boardVars, stepVars, adminVars, apiVars,
     history, CellsGrow
<1>13. ASSUME NEW p \in Goroutines, ReadFlag(p) PROVE CellsGrow
  BY <1>13 DEF ReadFlag, streamVars, boardVars, stepVars, adminVars, apiVars, history,
     CellsGrow
<1>14. ASSUME NEW p \in Goroutines, StoreSnapshot(p) PROVE CellsGrow
  BY <1>14 DEF StoreSnapshot, streamVars, boardVars, stepVars, adminVars, apiVars,
     history, CellsGrow
<1>15. ASSUME NEW p \in Goroutines, RebuildFails(p) PROVE CellsGrow
  BY <1>15 DEF RebuildFails, streamVars, boardVars, stepVars, adminVars, apiVars,
     history, CellsGrow
<1>16. ASSUME NEW p \in Goroutines, PublishSnapshot(p) PROVE CellsGrow
  BY <1>16 DEF PublishSnapshot, streamVars, boardVars, stepVars, adminVars, apiVars,
     history, CellsGrow
<1>17. CASE RevealContest
  BY <1>17 DEF RevealContest, streamVars, boardVars, stepVars, adminVars, apiVars,
     history, CellsGrow
<1>18. CASE ApiEnds
  BY <1>18 DEF ApiEnds, streamVars, boardVars, stepVars, adminVars, apiVars, history,
     CellsGrow
<1>19. CASE ApiRestarts
  BY <1>19 DEF ApiRestarts, streamVars, boardVars, stepVars, adminVars, apiVars,
     history, CellsGrow
<1>20. CASE UNCHANGED vars
  BY <1>20 DEF vars, streamVars, boardVars, stepVars, adminVars, apiVars, history,
     CellsGrow
<1> QED
  BY <1>1, <1>2, <1>3, <1>4, <1>5, <1>6, <1>7, <1>8, <1>9, <1>10, <1>11, <1>12, <1>13,
     <1>14, <1>15, <1>16, <1>17, <1>18, <1>19, <1>20 DEF Next, RankerStep, Rebuild

\* What the table, the rebuilds under way and the stored board are at all times.
RInv ==
    /\ TInv
    /\ Whole(entries)
    /\ \A p \in Goroutines : step[p] \in {"flag", "store"} => Whole(view[p].entries)
    /\ RankIsStandard

\* Every step keeps it.
LEMMA NextRanks == RInv /\ [Next]_vars => RInv'
<1> SUFFICES ASSUME RInv, [Next]_vars PROVE RInv'
  OBVIOUS
<1>1. TInv /\ TInv' /\ CellsGrow /\ ViewsMove /\ BoardMoves
  BY NextTypes, NextGrow, NextViews, NextBoard DEF RInv
<1>2. Whole(entries)'
  <2>1. IsFiniteSet(DOMAIN entries')
    BY <1>1, FS_AddElement DEF RInv, Whole, CellsGrow
  <2>2. CellsOK'
    BY <1>1 DEF TInv
  <2> QED
    BY <2>1, <2>2 DEF CellsOK, Whole
<1>3. (\A p \in Goroutines : step[p] \in {"flag", "store"} => Whole(view[p].entries))'
  <2> SUFFICES ASSUME NEW p \in Goroutines, step'[p] \in {"flag", "store"}
               PROVE  Whole(view'[p].entries)
    OBVIOUS
  <2> QED
    BY <1>1 DEF RInv, ViewsMove
<1>4. RankIsStandard'
  <2>1. CASE snapshot' = snapshot
    BY <2>1 DEF RInv, RankIsStandard
  <2>2. CASE \E p \in Goroutines :
                step[p] = "store" /\ snapshot' = Board(view[p].entries, view[p].revealed)
    <3>1. PICK p \in Goroutines :
                step[p] = "store" /\ snapshot' = Board(view[p].entries, view[p].revealed)
      BY <2>2
    <3>2. Whole(view[p].entries) /\ view[p].revealed \in BOOLEAN
      BY <1>1, <3>1 DEF RInv, TInv, ViewOK
    <3>3. \A u \in DOMAIN snapshot'.rows :
              snapshot'.rank[u] = 1 + Cardinality(Ahead(snapshot'.rows, u))
      BY <3>1, <3>2, BoardRanks
    <3> QED
      BY <3>3 DEF RankIsStandard, Ahead
  <2> QED
    BY <1>1, <2>1, <2>2 DEF BoardMoves
<1> QED
  BY <1>1, <1>2, <1>3, <1>4 DEF RInv

\* At first there are no entries and no rows.
LEMMA InitRanks == Init => RInv
<1> SUFFICES ASSUME Init PROVE RInv
  OBVIOUS
<1>1. TInv
  BY InitTypes
<1>2. entries = <<>> /\ snapshot = Board(<<>>, FALSE) /\ \A p \in Goroutines : step[p] = "none"
  BY DEF Init, NoBoard
<1>3. Whole(<<>>)
  BY EmptyTable, FS_EmptySet DEF Whole
<1>4. RankIsStandard
  <2>1. \A u \in DOMAIN snapshot.rows :
            snapshot.rank[u] = 1 + Cardinality(Ahead(snapshot.rows, u))
    BY <1>2, <1>3, BoardRanks
  <2> QED
    BY <2>1 DEF RankIsStandard, Ahead
<1> QED
  BY <1>1, <1>2, <1>3, <1>4 DEF RInv

\* Every board that is stored ranks by standard competition ranking (RankIsStandard): a
\* user's rank is one more than the number of users with a strictly better row, whatever
\* sort.Slice made of ties, for any number of users and any rows.
THEOREM RankIsStandardHolds == Spec => []RankIsStandard
<1>1. RInv => RankIsStandard
  BY DEF RInv
<1> QED
  BY <1>1, InitRanks, NextRanks, PTL DEF Spec

-----------------------------------------------------------------------------
\* What one round of the reveal does to an entry that has frozen results.
LEMMA RevealNextValues ==
    ASSUME NEW e \in ScoreEntry, e.FrozenResults # <<>>
    PROVE  LET q == e.FrozenResults
               r == RevealNext(e)
           IN  /\ r \in ScoreEntry
               /\ q[1].Status = "AC" =>
                     /\ r.Accepted = TRUE /\ r.FrozenResults = <<>>
                     /\ r.BestSubmitTime = q[1].SubmitTime
                     /\ r.WrongAttemptCount = e.WrongAttemptCount
                     /\ r.Penalty = elapsedMins(q[1].SubmitTime)
                                       + e.WrongAttemptCount * PenaltyMinutes
               /\ q[1].Status # "AC" =>
                     /\ r.Accepted = e.Accepted /\ r.FrozenResults = Tail(q)
                     /\ r.WrongAttemptCount = e.WrongAttemptCount + 1
                     /\ r.Penalty = e.Penalty
<1> DEFINE q == e.FrozenResults
           f == Head(q)
           left == IF e.FrozenAttempts = 0 THEN 0 ELSE e.FrozenAttempts - 1
           pend == e.IsPending /\ left > 0
           popped == [e EXCEPT !.FrozenResults = Tail(q),
                               !.FrozenAttempts = left,
                               !.IsPending = pend]
           more == [popped EXCEPT !.WrongAttemptCount = popped.WrongAttemptCount + 1,
                                  !.AttemptCount = popped.AttemptCount + 1]
<1>1. q \in Seq(JudgedEvent) /\ Len(q) \in Nat \ {0}
  BY DEF ScoreEntry, JudgedEvent
<1>2. f = q[1] /\ f \in JudgedEvent /\ Tail(q) \in Seq(JudgedEvent) /\ f.SubmitTime \in Nat
  <2> HIDE DEF q
  <2>1. f = q[1] /\ f \in JudgedEvent /\ Tail(q) \in Seq(JudgedEvent)
    BY <1>1
  <2> QED
    BY <2>1 DEF JudgedEvent
<1>3. left \in Nat /\ pend \in BOOLEAN
  <2>1. left \in Nat
    BY DEF ScoreEntry
  <2>2. pend \in BOOLEAN
    BY Zenon
  <2> QED
    BY <2>1, <2>2
<1>4. /\ popped \in ScoreEntry /\ popped.FrozenResults = Tail(q)
      /\ popped.Accepted = e.Accepted /\ popped.Penalty = e.Penalty
      /\ popped.WrongAttemptCount = e.WrongAttemptCount
  <2> HIDE DEF left, pend
  <2> QED
    BY <1>2, <1>3 DEF ScoreEntry, JudgedEvent
<1>5. RevealNext(e) = IF f.Status = "AC" THEN Solve(popped, f.SubmitTime) ELSE more
  <2>1. RevealNext(e) = IF f.Status = "AC" THEN Solve(popped, f.SubmitTime)
                        ELSE [popped EXCEPT !.WrongAttemptCount = @ + 1,
                                            !.AttemptCount = @ + 1]
    BY DEF RevealNext
  <2> HIDE DEF popped
  <2> QED
    BY <2>1, <1>4 DEF ScoreEntry
<1> HIDE DEF popped, f
<1>6. /\ more \in ScoreEntry
      /\ more.Accepted = e.Accepted /\ more.FrozenResults = Tail(q)
      /\ more.WrongAttemptCount = e.WrongAttemptCount + 1 /\ more.Penalty = e.Penalty
  <2>1. popped.WrongAttemptCount + 1 \in Nat /\ popped.AttemptCount + 1 \in Nat
    BY <1>4 DEF ScoreEntry
  <2> QED
    BY <1>4, <2>1 DEF ScoreEntry
<1>7. LET r == Solve(popped, f.SubmitTime)
      IN  /\ r \in ScoreEntry /\ r.Accepted = TRUE /\ r.FrozenResults = <<>>
          /\ r.BestSubmitTime = f.SubmitTime
          /\ r.WrongAttemptCount = e.WrongAttemptCount
          /\ r.Penalty = elapsedMins(f.SubmitTime) + e.WrongAttemptCount * PenaltyMinutes
  <2>1. Solve(popped, f.SubmitTime) \in ScoreEntry
    BY <1>2, <1>4, SolveFacts
  <2> QED
    BY <2>1, <1>4 DEF Solve, ScoreEntry
<1> HIDE DEF more
<1> QED
  BY <1>2, <1>5, <1>6, <1>7

-----------------------------------------------------------------------------
\* The wrong runs of E that the feed charges for, made before t.
Charge(E, t) == Cardinality({x \in E : mapResultPenalty(x.Status) /\ x.SubmitTime < t})

\* The first accepted run of E is made at t.
FirstSolved(E, t) ==
    /\ \E x \in E : x.Status = "AC" /\ x.SubmitTime = t
    /\ \A x \in E : x.Status = "AC" => t <= x.SubmitTime

\* What the feed makes of runs none of which is accepted.
LEMMA FeedUnsolved ==
    ASSUME NEW E, \A x \in E : x.Status # "AC"
    PROVE  FeedScore(E) = [solved  |-> FALSE,
                           wrong   |-> Cardinality({x \in E : mapResultPenalty(x.Status)}),
                           penalty |-> 0]
<1> DEFINE ac == {e.SubmitTime : e \in {x \in E : x.Status = "AC"}}
           first == CHOOSE t \in ac : \A x \in ac : t <= x
           wrong == {e \in E : /\ mapResultPenalty(e.Status)
                               /\ ac = {} \/ e.SubmitTime < first}
<1>1. FeedScore(E) = [solved  |-> ac # {},
                      wrong   |-> Cardinality(wrong),
                      penalty |-> IF ac = {} THEN 0
                                  ELSE elapsedMins(first)
                                          + Cardinality(wrong) * FeedSettings.PenaltyMinutes]
  BY Zenon DEF FeedScore
<1>2. ac = {}
  OBVIOUS
<1> HIDE DEF ac, first
<1>3. wrong = {x \in E : mapResultPenalty(x.Status)}
  BY <1>2
<1> HIDE DEF wrong
<1>4. (ac # {}) = FALSE
  BY <1>2
<1> QED
  BY <1>1, <1>2, <1>3, <1>4

\* What it makes of runs of which one is.
LEMMA FeedSolved ==
    ASSUME NEW E, E \subseteq JudgedEvent, NEW t, FirstSolved(E, t)
    PROVE  FeedScore(E) = [solved  |-> TRUE,
                           wrong   |-> Charge(E, t),
                           penalty |-> elapsedMins(t) + Charge(E, t) * FeedSettings.PenaltyMinutes]
<1> DEFINE ac == {e.SubmitTime : e \in {x \in E : x.Status = "AC"}}
           first == CHOOSE u \in ac : \A x \in ac : u <= x
           wrong == {e \in E : /\ mapResultPenalty(e.Status)
                               /\ ac = {} \/ e.SubmitTime < first}
<1>1. FeedScore(E) = [solved  |-> ac # {},
                      wrong   |-> Cardinality(wrong),
                      penalty |-> IF ac = {} THEN 0
                                  ELSE elapsedMins(first)
                                          + Cardinality(wrong) * FeedSettings.PenaltyMinutes]
  BY Zenon DEF FeedScore
<1>2. t \in ac /\ (\A x \in ac : t <= x) /\ ac \subseteq Nat
  BY DEF FirstSolved, JudgedEvent
<1> HIDE DEF ac
<1>3. first \in ac /\ \A x \in ac : first <= x
  <2>1. \E u \in ac : \A x \in ac : u <= x
    BY <1>2
  <2> QED
    BY <2>1, Zenon
<1> HIDE DEF first
<1>4. first = t
  BY <1>2, <1>3
<1>5. wrong = {x \in E : mapResultPenalty(x.Status) /\ x.SubmitTime < t}
  BY <1>2, <1>4
<1> HIDE DEF wrong
<1>6. (ac # {}) = TRUE /\ ac # {}
  BY <1>2
<1> QED
  BY <1>1, <1>4, <1>5, <1>6 DEF Charge

\* One run more, later than all before it, changes no earlier count.
LEMMA ChargeKept ==
    ASSUME NEW E, NEW x \in JudgedEvent, NEW t \in Nat, ~(x.SubmitTime < t)
    PROVE  Charge(E \cup {x}, t) = Charge(E, t)
<1>1. {y \in E \cup {x} : mapResultPenalty(y.Status) /\ y.SubmitTime < t}
         = {y \in E : mapResultPenalty(y.Status) /\ y.SubmitTime < t}
  OBVIOUS
<1> QED
  BY <1>1 DEF Charge

\* All runs made before t are counted, the last one if it is charged.
LEMMA ChargeOne ==
    ASSUME NEW E, E \subseteq JudgedEvent, IsFiniteSet(E), NEW x \in JudgedEvent,
           \A y \in E : y.SubmitTime < x.SubmitTime, NEW t \in Nat, x.SubmitTime < t
    PROVE  /\ Charge(E, t) \in Nat
           /\ Charge(E, t) = Charge(E, x.SubmitTime)
           /\ Charge(E \cup {x}, t) =
                 IF mapResultPenalty(x.Status) THEN Charge(E, t) + 1 ELSE Charge(E, t)
<1> DEFINE S == {y \in E : mapResultPenalty(y.Status) /\ y.SubmitTime < t}
<1>1. \A y \in E \cup {x} : y.SubmitTime \in Nat
  BY DEF JudgedEvent
<1>2. IsFiniteSet(S) /\ Cardinality(S) \in Nat
  <2>1. S \in SUBSET E
    OBVIOUS
  <2> HIDE DEF S
  <2> QED
    BY <2>1, FS_Subset, FS_CardinalityType
<1>3. S = {y \in E : mapResultPenalty(y.Status) /\ y.SubmitTime < x.SubmitTime}
  BY <1>1
<1>4. x \notin S
  BY <1>1
<1>5. {y \in E \cup {x} : mapResultPenalty(y.Status) /\ y.SubmitTime < t}
         = IF mapResultPenalty(x.Status) THEN S \cup {x} ELSE S
  BY <1>1
<1> HIDE DEF S
<1>6. Cardinality(S \cup {x}) = Cardinality(S) + 1
  BY <1>2, <1>4, FS_AddElement
<1>7. Charge(E, t) = Cardinality(S)
  BY DEF Charge, S
<1>8. Charge(E, x.SubmitTime) = Cardinality(S)
  BY <1>3 DEF Charge
<1>9. Charge(E \cup {x}, t) =
         Cardinality(IF mapResultPenalty(x.Status) THEN S \cup {x} ELSE S)
  BY <1>5 DEF Charge
<1> QED
  BY <1>2, <1>6, <1>7, <1>8, <1>9

-----------------------------------------------------------------------------
\* The times of the sequence rise.
Rising(q) == \A i, j \in 1 .. Len(q) : i < j => q[i].SubmitTime < q[j].SubmitTime

\* What an entry is worth that was made of the runs E in the order of their times.
Follows(e, E) ==
    /\ e.Accepted =>
          /\ FirstSolved(E, e.BestSubmitTime)
          /\ e.WrongAttemptCount = Charge(E, e.BestSubmitTime)
          /\ e.Penalty = elapsedMins(e.BestSubmitTime) + e.WrongAttemptCount * PenaltyMinutes
    /\ ~e.Accepted =>
          /\ e.Penalty = 0
          /\ e.WrongAttemptCount = Charge(E, FreezeTime)
          /\ \A x \in E : x.Status = "AC" => x.SubmitTime >= FreezeTime
          /\ \A i \in 1 .. Len(e.FrozenResults) : e.FrozenResults[i] \in E
          /\ \A x \in E : x.SubmitTime >= FreezeTime =>
                \E i \in 1 .. Len(e.FrozenResults) : e.FrozenResults[i] = x
          /\ Rising(e.FrozenResults)

\* A new entry stands for no runs.
LEMMA NewFollows == Follows(NewEntry, {})
<1>1. \A t : Charge({}, t) = 0
  BY FS_EmptySet DEF Charge
<1> QED
  BY <1>1 DEF Follows, NewEntry, Rising

\* Apply keeps the account when the next run is merged.
LEMMA ApplyFollows ==
    ASSUME NEW E, E \subseteq JudgedEvent, IsFiniteSet(E), NEW e, EntryOK(e), Follows(e, E),
           NEW x \in JudgedEvent, \A y \in E : y.SubmitTime < x.SubmitTime,
           x.Status # "SE", FeedSettings.CENoPenalty = CENoPenalty
    PROVE  Follows(Apply(x, e), E \cup {x})
<1>1. e \in ScoreEntry /\ x.SubmitTime \in Nat /\ x.Status \in Verdicts /\ FreezeTime \in Nat
  BY RulesAssumption DEF EntryOK, JudgedEvent
<1>2. \A y \in E : y.SubmitTime \in Nat
  BY DEF JudgedEvent
<1>3. CASE e.Accepted
  <2>1. Apply(x, e) = e
    BY <1>3 DEF Apply
  <2>2. PICK y \in E : y.Status = "AC" /\ y.SubmitTime = e.BestSubmitTime
    BY <1>3 DEF Follows, FirstSolved
  <2>3. e.BestSubmitTime \in Nat /\ e.BestSubmitTime < x.SubmitTime
    BY <1>2, <2>2
  <2>4. FirstSolved(E \cup {x}, e.BestSubmitTime)
    BY <1>1, <1>3, <2>3 DEF Follows, FirstSolved
  <2>5. Charge(E \cup {x}, e.BestSubmitTime) = Charge(E, e.BestSubmitTime)
    <3> DEFINE t == e.BestSubmitTime
    <3>1. t \in Nat /\ ~(x.SubmitTime < t)
      BY <1>1, <2>3
    <3> HIDE DEF t
    <3>2. Charge(E \cup {x}, t) = Charge(E, t)
      BY <3>1, ChargeKept
    <3> QED
      BY <3>2 DEF t
  <2> QED
    BY <1>3, <2>1, <2>4, <2>5 DEF Follows
<1>4. CASE ~e.Accepted /\ isPostFreeze(x.SubmitTime)
  <2> DEFINE q == e.FrozenResults
             f == Freeze(x, e)
  <2>1. Apply(x, e) = f
    BY <1>4 DEF Apply
  <2>2. /\ f.Accepted = FALSE /\ f.Penalty = e.Penalty
        /\ f.WrongAttemptCount = e.WrongAttemptCount /\ f.FrozenResults = Append(q, x)
    BY <1>1, <1>4 DEF Freeze, ScoreEntry
  <2>3. /\ q \in Seq(JudgedEvent) /\ Append(q, x) \in Seq(JudgedEvent)
        /\ Len(q) \in Nat /\ Len(Append(q, x)) = Len(q) + 1
        /\ Append(q, x)[Len(q) + 1] = x
        /\ \A i \in 1 .. Len(q) : Append(q, x)[i] = q[i]
    BY <1>1 DEF ScoreEntry, JudgedEvent
  <2>4. x.SubmitTime >= FreezeTime
    BY <1>4 DEF isPostFreeze
  <2>5. Charge(E \cup {x}, FreezeTime) = Charge(E, FreezeTime)
    BY <1>1, <2>4, ChargeKept
  <2> HIDE DEF f
  <2>6. /\ e.Penalty = 0 /\ e.WrongAttemptCount = Charge(E, FreezeTime)
        /\ \A y \in E : y.Status = "AC" => y.SubmitTime >= FreezeTime
        /\ \A i \in 1 .. Len(q) : q[i] \in E
        /\ \A y \in E : y.SubmitTime >= FreezeTime => \E i \in 1 .. Len(q) : q[i] = y
        /\ Rising(q)
    BY <1>4 DEF Follows
  <2> DEFINE r == Append(q, x)
  <2> HIDE DEF r, q
  <2>7. \A i \in 1 .. Len(r) : r[i] \in E \cup {x}
    BY <2>3, <2>6 DEF r
  <2>8. ASSUME NEW y \in E \cup {x}, y.SubmitTime >= FreezeTime
        PROVE  \E i \in 1 .. Len(r) : r[i] = y
    <3>1. CASE y = x
      BY <2>3, <3>1 DEF r
    <3>2. CASE y \in E
      <4>1. PICK i \in 1 .. Len(q) : q[i] = y
        BY <2>6, <2>8, <3>2
      <4>2. i \in 1 .. Len(r) /\ r[i] = y
        BY <2>3, <4>1 DEF r
      <4> QED
        BY <4>2
    <3> QED
      BY <3>1, <3>2
  <2>9. Rising(r)
    <3> SUFFICES ASSUME NEW i \in 1 .. Len(r), NEW j \in 1 .. Len(r), i < j
                 PROVE  r[i].SubmitTime < r[j].SubmitTime
      BY DEF Rising
    <3>1. i \in 1 .. Len(q) /\ r[i] = q[i] /\ q[i] \in E
      BY <2>3, <2>6 DEF r
    <3>2. CASE j = Len(q) + 1
      BY <2>3, <3>1, <3>2 DEF r
    <3>3. CASE j \in 1 .. Len(q)
      BY <2>3, <2>6, <3>1, <3>3 DEF r, Rising
    <3> QED
      BY <2>3, <3>2, <3>3 DEF r
  <2>10. \A y \in E \cup {x} : y.Status = "AC" => y.SubmitTime >= FreezeTime
    BY <2>4, <2>6
  <2> QED
    BY <2>1, <2>2, <2>5, <2>6, <2>7, <2>8, <2>9, <2>10 DEF Follows, r, q
<1>5. CASE ~e.Accepted /\ ~isPostFreeze(x.SubmitTime)
  <2>1. Apply(x, e) = Attempt(x, e)
    BY <1>5 DEF Apply
  <2>2. x.SubmitTime < FreezeTime
    BY <1>1, <1>5 DEF isPostFreeze
  <2>3. \A y \in E : y.SubmitTime < FreezeTime /\ y.Status # "AC"
    BY <1>1, <1>2, <1>5, <2>2 DEF Follows
  <2>4. e.FrozenResults = <<>>
    <3>1. \A i \in 1 .. Len(e.FrozenResults) : FALSE
      BY <1>1, <1>2, <1>5, <2>3 DEF Follows, EntryOK
    <3> QED
      BY <1>1, <3>1 DEF ScoreEntry
  <2>5. /\ Charge(E, FreezeTime) \in Nat
        /\ Charge(E, FreezeTime) = Charge(E, x.SubmitTime)
        /\ Charge(E \cup {x}, FreezeTime) =
              IF mapResultPenalty(x.Status) THEN Charge(E, FreezeTime) + 1
              ELSE Charge(E, FreezeTime)
    BY <1>1, <2>2, ChargeOne
  <2>6. e.Penalty = 0 /\ e.WrongAttemptCount = Charge(E, FreezeTime)
    BY <1>5 DEF Follows
  <2> DEFINE tried == [e EXCEPT !.AttemptCount = e.AttemptCount + 1]
  <2>7. /\ tried \in ScoreEntry /\ tried.Accepted = FALSE /\ tried.Penalty = 0
        /\ tried.WrongAttemptCount = e.WrongAttemptCount /\ tried.FrozenResults = <<>>
    BY <1>1, <1>5, <2>4, <2>6 DEF ScoreEntry
  <2>8. Attempt(x, e) =
           IF x.Status = "AC" THEN Solve(tried, x.SubmitTime)
           ELSE [tried EXCEPT !.WrongAttemptCount =
                    IF ignoreCE(x.Status) THEN tried.WrongAttemptCount
                    ELSE tried.WrongAttemptCount + 1]
    BY <1>1 DEF Attempt, ScoreEntry
  <2> HIDE DEF tried
  <2>9. CASE x.Status = "AC"
    <3> DEFINE f == Solve(tried, x.SubmitTime)
    <3>1. /\ f.Accepted = TRUE /\ f.BestSubmitTime = x.SubmitTime
          /\ f.WrongAttemptCount = e.WrongAttemptCount
          /\ f.Penalty = elapsedMins(x.SubmitTime) + e.WrongAttemptCount * PenaltyMinutes
      BY <2>7 DEF Solve, ScoreEntry
    <3>2. FirstSolved(E \cup {x}, x.SubmitTime)
      BY <1>1, <2>3, <2>9 DEF FirstSolved
    <3>3. Charge(E \cup {x}, x.SubmitTime) = Charge(E, x.SubmitTime)
      BY <1>1, ChargeKept
    <3> HIDE DEF f
    <3>4. Follows(f, E \cup {x})
      BY <2>5, <2>6, <3>1, <3>2, <3>3 DEF Follows
    <3> QED
      BY <2>1, <2>8, <2>9, <3>4 DEF f
  <2>10. CASE x.Status # "AC"
    <3> DEFINE w == IF ignoreCE(x.Status) THEN tried.WrongAttemptCount
                    ELSE tried.WrongAttemptCount + 1
               f == [tried EXCEPT !.WrongAttemptCount = w]
    <3>1. /\ f.Accepted = FALSE /\ f.Penalty = 0 /\ f.FrozenResults = <<>>
          /\ f.WrongAttemptCount = w
      BY <2>7 DEF ScoreEntry
    <3>2. mapResultPenalty(x.Status) <=> ~ignoreCE(x.Status)
      BY <1>1, <2>10 DEF mapResultPenalty, ignoreCE, Verdicts
    <3>3. w = Charge(E \cup {x}, FreezeTime)
      BY <2>5, <2>6, <2>7, <3>2
    <3>4. \A y \in E \cup {x} : y.Status # "AC" /\ ~(y.SubmitTime >= FreezeTime)
      BY <1>1, <1>2, <2>2, <2>3, <2>10
    <3> HIDE DEF f, w
    <3>5. Follows(f, E \cup {x})
      BY <3>1, <3>3, <3>4 DEF Follows, Rising
    <3> QED
      BY <2>1, <2>8, <2>10, <3>5 DEF f, w
  <2> QED
    BY <2>9, <2>10
<1> QED
  BY <1>3, <1>4, <1>5

-----------------------------------------------------------------------------
\* After k rounds of the reveal nothing was accepted, or the j-th frozen run was.
Open(r, q, k, w) ==
    /\ ~r.Accepted /\ r.Penalty = 0 /\ r.WrongAttemptCount = w + k
    /\ Len(r.FrozenResults) = Len(q) - k
    /\ \A i \in 1 .. Len(q) - k : r.FrozenResults[i] = q[k + i]
    /\ \A i \in 1 .. k : q[i].Status # "AC"

SolvedAt(r, q, j, w) ==
    /\ r.Accepted /\ r.FrozenResults = <<>>
    /\ r.WrongAttemptCount = w + (j - 1)
    /\ r.Penalty = elapsedMins(q[j].SubmitTime) + r.WrongAttemptCount * PenaltyMinutes
    /\ q[j].Status = "AC"
    /\ \A i \in 1 .. j - 1 : q[i].Status # "AC"

Round(r, q, k, w) ==
    /\ r \in ScoreEntry
    /\ Open(r, q, k, w) \/ \E j \in 1 .. k : SolvedAt(r, q, j, w)

\* One round more.
LEMMA RoundStep ==
    ASSUME NEW q \in Seq(JudgedEvent), NEW k \in Nat, k < Len(q), NEW w \in Nat,
           NEW r, Round(r, q, k, w)
    PROVE  Round(RevealNext(r), q, k + 1, w)
<1>1. Len(q) \in Nat /\ r \in ScoreEntry
  BY DEF Round
<1>2. CASE Open(r, q, k, w)
  <2> DEFINE f == r.FrozenResults
             n == RevealNext(r)
  <2>1. f \in Seq(JudgedEvent) /\ Len(f) = Len(q) - k /\ f # <<>> /\ Len(f) \in Nat \ {0}
    BY <1>1, <1>2 DEF Open, ScoreEntry, JudgedEvent
  <2>2. f[1] = q[k + 1] /\ \A i \in 1 .. Len(f) : f[i] = q[k + i]
    BY <1>1, <1>2, <2>1 DEF Open
  <2>3. /\ n \in ScoreEntry
        /\ f[1].Status = "AC" =>
              /\ n.Accepted = TRUE /\ n.FrozenResults = <<>>
              /\ n.WrongAttemptCount = r.WrongAttemptCount
              /\ n.Penalty = elapsedMins(f[1].SubmitTime)
                                + r.WrongAttemptCount * PenaltyMinutes
        /\ f[1].Status # "AC" =>
              /\ n.Accepted = r.Accepted /\ n.FrozenResults = Tail(f)
              /\ n.WrongAttemptCount = r.WrongAttemptCount + 1
              /\ n.Penalty = r.Penalty
    BY <1>1, <2>1, RevealNextValues
  <2> HIDE DEF n, f
  <2>4. CASE q[k + 1].Status = "AC"
    <3> DEFINE j == k + 1
    <3>1. j \in 1 .. k + 1 /\ j - 1 = k
      OBVIOUS
    <3> HIDE DEF j
    <3>2. SolvedAt(n, q, j, w)
      BY <1>2, <2>2, <2>3, <2>4, <3>1 DEF Open, SolvedAt, j
    <3> QED
      BY <2>3, <3>1, <3>2 DEF Round, n
  <2>5. CASE q[k + 1].Status # "AC"
    <3>1. Len(Tail(f)) = Len(f) - 1 /\ \A i \in 1 .. Len(f) - 1 : Tail(f)[i] = f[i + 1]
      BY <2>1
    <3>2. \A i \in 1 .. Len(q) - (k + 1) : Tail(f)[i] = q[(k + 1) + i]
      <4> SUFFICES ASSUME NEW i \in 1 .. Len(q) - (k + 1)
                   PROVE  Tail(f)[i] = q[(k + 1) + i]
        OBVIOUS
      <4>1. i \in 1 .. Len(f) - 1 /\ i + 1 \in 1 .. Len(f) /\ k + (i + 1) = (k + 1) + i
        BY <1>1, <2>1
      <4> QED
        BY <2>2, <3>1, <4>1
    <3>3. /\ ~n.Accepted /\ n.Penalty = 0 /\ n.WrongAttemptCount = w + (k + 1)
          /\ n.FrozenResults = Tail(f)
      BY <1>2, <2>2, <2>3, <2>5 DEF Open
    <3>4. \A i \in 1 .. k + 1 : q[i].Status # "AC"
      BY <1>2, <2>5 DEF Open
    <3>5. Len(Tail(f)) = Len(q) - (k + 1)
      BY <1>1, <2>1, <3>1
    <3>6. Open(n, q, k + 1, w)
      BY <3>2, <3>3, <3>4, <3>5 DEF Open
    <3> QED
      BY <2>3, <3>6 DEF Round, n
  <2> QED
    BY <2>4, <2>5
<1>3. CASE \E j \in 1 .. k : SolvedAt(r, q, j, w)
  <2>1. PICK j \in 1 .. k : SolvedAt(r, q, j, w)
    BY <1>3
  <2>2. RevealNext(r) = r
    BY <2>1 DEF SolvedAt, RevealNext
  <2>3. j \in 1 .. k + 1
    OBVIOUS
  <2> QED
    BY <1>1, <2>1, <2>2, <2>3 DEF Round
<1> QED
  BY <1>2, <1>3 DEF Round

\* All rounds.
LEMMA RevealRounds ==
    ASSUME NEW e \in ScoreEntry, ~e.Accepted, e.Penalty = 0
    PROVE  Round(RevealAll(e), e.FrozenResults, Len(e.FrozenResults), e.WrongAttemptCount)
<1> DEFINE q == e.FrozenResults
           n == Len(q)
           w == e.WrongAttemptCount
<1>1. q \in Seq(JudgedEvent) /\ n \in Nat /\ w \in Nat
  BY DEF ScoreEntry, JudgedEvent
<1>2. PICK F : /\ RevealAll(e) = F[n]
               /\ \A k \in 0 .. n : F[k] = IF k = 0 THEN e ELSE RevealNext(F[k - 1])
  BY RevealIsLast
<1>3. Round(e, q, 0, w)
  <2>1. \A i \in 1 .. n - 0 : q[i] = q[0 + i]
    BY <1>1
  <2> QED
    BY <1>1, <2>1 DEF Round, Open
<1> HIDE DEF q, n, w
<1> DEFINE Bad == {k \in 0 .. n : ~Round(F[k], q, k, w)}
<1>4. ASSUME Bad # {} PROVE FALSE
  <2>1. PICK m \in Bad : \A j \in Bad : ~ (<<j, m>> \in OpToRel(<, Nat))
    <3>1. Bad \subseteq Nat
      BY <1>1
    <3> QED
      BY <1>4, <3>1, NatLessThanWellFounded, WFMin, Zenon
  <2>2. m \in 0 .. n /\ ~Round(F[m], q, m, w)
    BY <2>1
  <2>3. m # 0
    BY <1>2, <1>3, <2>2
  <2> DEFINE k == m - 1
  <2>4. k \in Nat /\ m = k + 1 /\ k \in 0 .. n /\ k < m /\ k < n /\ m \in Nat
    <3> HIDE DEF Bad
    <3> QED
      BY <1>1, <2>2, <2>3
  <2> HIDE DEF k
  <2>5. Round(F[k], q, k, w)
    <3>1. <<k, m>> \in OpToRel(<, Nat)
      BY <2>4 DEF OpToRel
    <3> QED
      BY <2>1, <2>4, <3>1
  <2>6. F[m] = RevealNext(F[k])
    <3>1. m - 1 = k
      BY <2>4
    <3> QED
      BY <1>2, <2>2, <2>3, <3>1
  <2>7. Round(RevealNext(F[k]), q, k + 1, w)
    BY <1>1, <2>4, <2>5, RoundStep DEF n
  <2> QED
    BY <2>2, <2>4, <2>6, <2>7
<1>5. Round(F[n], q, n, w)
  BY <1>1, <1>4
<1> QED
  BY <1>2, <1>5 DEF q, n, w

\* Runs with rising times are different ones.
LEMMA RisingCount ==
    ASSUME NEW q \in Seq(JudgedEvent), Rising(q), NEW m \in 0 .. Len(q)
    PROVE  /\ IsFiniteSet({q[i] : i \in 1 .. m})
           /\ Cardinality({q[i] : i \in 1 .. m}) = m
<1> DEFINE T == {q[i] : i \in 1 .. m}
           f == [i \in 1 .. m |-> q[i]]
<1>1. Len(q) \in Nat /\ m \in Nat
  OBVIOUS
<1>2. IsFiniteSet(1 .. m) /\ Cardinality(1 .. m) = m
  BY <1>1, FS_Interval
<1>3. f \in Surjection(1 .. m, T)
  BY DEF Surjection
<1>4. ASSUME NEW i \in 1 .. m, NEW j \in 1 .. m, i # j PROVE q[i] # q[j]
  <2>1. i \in 1 .. Len(q) /\ j \in 1 .. Len(q) /\ (i < j \/ j < i)
    BY <1>1, <1>4
  <2>2. q[i].SubmitTime \in Nat /\ q[j].SubmitTime \in Nat
    <3>1. q[i] \in JudgedEvent /\ q[j] \in JudgedEvent
      BY <2>1
    <3> QED
      BY <3>1 DEF JudgedEvent
  <2>3. q[i].SubmitTime < q[j].SubmitTime \/ q[j].SubmitTime < q[i].SubmitTime
    BY <2>1 DEF Rising
  <2> QED
    BY <2>2, <2>3
<1>5. f \in Injection(1 .. m, T)
  BY <1>4 DEF Injection, IsInjective
<1> HIDE DEF f, T
<1>6. IsFiniteSet(T) /\ Cardinality(T) = m
  BY <1>2, <1>3, <1>5, FS_Surjection
<1> QED
  BY <1>6 DEF T

\* The runs charged before the freeze and the first m frozen ones.
LEMMA ChargeFrozen ==
    ASSUME NEW E, E \subseteq JudgedEvent, IsFiniteSet(E),
           NEW q \in Seq(JudgedEvent), Rising(q),
           \A i \in 1 .. Len(q) : q[i].SubmitTime >= FreezeTime,
           NEW m \in 0 .. Len(q), NEW S,
           S = {x \in E : mapResultPenalty(x.Status) /\ x.SubmitTime < FreezeTime}
                   \cup {q[i] : i \in 1 .. m}
    PROVE  Cardinality(S) = Charge(E, FreezeTime) + m
<1> DEFINE A == {x \in E : mapResultPenalty(x.Status) /\ x.SubmitTime < FreezeTime}
           B == {q[i] : i \in 1 .. m}
<1>1. IsFiniteSet(B) /\ Cardinality(B) = m /\ m \in Nat
  <2>1. IsFiniteSet(B) /\ Cardinality(B) = m
    BY RisingCount, Zenon
  <2> QED
    BY <2>1
<1>2. IsFiniteSet(A) /\ Cardinality(A) \in Nat
  <2>1. A \in SUBSET E
    OBVIOUS
  <2> HIDE DEF A
  <2> QED
    BY <2>1, FS_Subset, FS_CardinalityType
<1>3. A \cap B = {}
  <2> SUFFICES ASSUME NEW x \in A, x \in B PROVE FALSE
    OBVIOUS
  <2>1. x.SubmitTime < FreezeTime /\ x.SubmitTime \in Nat
    BY DEF JudgedEvent
  <2>2. PICK i \in 1 .. m : x = q[i]
    OBVIOUS
  <2>3. i \in 1 .. Len(q)
    OBVIOUS
  <2>4. x.SubmitTime >= FreezeTime
    BY <2>2, <2>3
  <2> QED
    BY <2>1, <2>4, RulesAssumption
<1>4. Charge(E, FreezeTime) = Cardinality(A)
  BY DEF Charge
<1>5. S = A \cup B
  OBVIOUS
<1> HIDE DEF A, B
<1>6. Cardinality(A \cup B) = Cardinality(A) + Cardinality(B) - Cardinality({})
  BY <1>1, <1>2, <1>3, FS_Union
<1>7. Cardinality({}) = 0
  BY FS_EmptySet
<1>8. Cardinality(A \cup B) = Cardinality(A) + m
  BY <1>1, <1>2, <1>6, <1>7
<1> QED
  BY <1>4, <1>5, <1>8

\* Revealed, an entry made of runs in the order of their times is worth what the feed
\* makes of these runs.
LEMMA RevealFollows ==
    ASSUME NEW E, E \subseteq JudgedEvent, IsFiniteSet(E), NEW e, EntryOK(e), Follows(e, E),
           \A x \in E : x.Status # "SE" /\ (x.SubmitTime >= FreezeTime => ~ignoreCE(x.Status)),
           FeedSettings.CENoPenalty = CENoPenalty, FeedSettings.PenaltyMinutes = PenaltyMinutes
    PROVE  LET r == RevealAll(e)
           IN  [solved |-> r.Accepted, wrong |-> r.WrongAttemptCount, penalty |-> r.Penalty]
                  = FeedScore(E)
<1> DEFINE r == RevealAll(e)
           q == e.FrozenResults
           w == e.WrongAttemptCount
<1>1. /\ e \in ScoreEntry /\ q \in Seq(JudgedEvent) /\ Len(q) \in Nat /\ w \in Nat
      /\ e.Accepted \in BOOLEAN
  BY DEF EntryOK, ScoreEntry, JudgedEvent
<1>2. CASE e.Accepted
  <2>1. r = e /\ e.Accepted = TRUE
    BY <1>1, <1>2, RevealEntry
  <2>2. /\ FirstSolved(E, e.BestSubmitTime) /\ w = Charge(E, e.BestSubmitTime)
        /\ e.Penalty = elapsedMins(e.BestSubmitTime) + w * PenaltyMinutes
    BY <1>2 DEF Follows
  <2>3. FeedScore(E) = [solved  |-> TRUE,
                        wrong   |-> Charge(E, e.BestSubmitTime),
                        penalty |-> elapsedMins(e.BestSubmitTime)
                            + Charge(E, e.BestSubmitTime) * FeedSettings.PenaltyMinutes]
    BY <2>2, FeedSolved
  <2> HIDE DEF r, w
  <2> QED
    BY <2>1, <2>2, <2>3 DEF r, w
<1>3. CASE ~e.Accepted
  <2>1. /\ e.Penalty = 0 /\ w = Charge(E, FreezeTime) /\ Rising(q)
        /\ \A x \in E : x.Status = "AC" => x.SubmitTime >= FreezeTime
        /\ \A i \in 1 .. Len(q) : q[i] \in E
        /\ \A x \in E : x.SubmitTime >= FreezeTime => \E i \in 1 .. Len(q) : q[i] = x
    BY <1>3 DEF Follows
  <2>2. Round(r, q, Len(q), w)
    BY <1>1, <1>3, <2>1, RevealRounds
  <2>3. \A i \in 1 .. Len(q) : /\ q[i].SubmitTime >= FreezeTime
                               /\ q[i].Status \in Verdicts /\ q[i].SubmitTime \in Nat
    <3>1. \A i \in 1 .. Len(q) : q[i] \in JudgedEvent
      BY <1>1
    <3> QED
      BY <3>1 DEF EntryOK, JudgedEvent
  <2>4. ASSUME NEW i \in 1 .. Len(q), q[i].Status # "AC" PROVE mapResultPenalty(q[i].Status)
    <3>1. q[i].Status # "SE" /\ ~ignoreCE(q[i].Status) /\ q[i].Status \in Verdicts
      BY <2>1, <2>3
    <3> QED
      BY <2>4, <3>1 DEF mapResultPenalty, ignoreCE, Verdicts
  <2>5. r.Accepted \in BOOLEAN /\ r.WrongAttemptCount \in Nat
    BY <2>2 DEF Round, ScoreEntry
  <2>6. \A x \in E : x.SubmitTime \in Nat /\ FreezeTime \in Nat
    BY RulesAssumption DEF JudgedEvent
  <2> HIDE DEF r, q, w
  <2> DEFINE Early == {x \in E : mapResultPenalty(x.Status) /\ x.SubmitTime < FreezeTime}
  <2>7. CASE Open(r, q, Len(q), w)
    <3>1. /\ r.Accepted = FALSE /\ r.Penalty = 0 /\ r.WrongAttemptCount = w + Len(q)
          /\ \A i \in 1 .. Len(q) : q[i].Status # "AC"
      BY <2>5, <2>7 DEF Open
    <3>2. \A x \in E : x.Status # "AC"
      BY <2>1, <3>1
    <3>3. {x \in E : mapResultPenalty(x.Status)} = Early \cup {q[i] : i \in 1 .. Len(q)}
      <4>1. ASSUME NEW x \in E, mapResultPenalty(x.Status)
            PROVE  x \in Early \cup {q[i] : i \in 1 .. Len(q)}
        BY <2>1, <2>6, <4>1
      <4>2. ASSUME NEW i \in 1 .. Len(q)
            PROVE  q[i] \in E /\ mapResultPenalty(q[i].Status)
        BY <2>1, <2>4, <3>1
      <4> QED
        BY <4>1, <4>2
    <3>4. Len(q) \in 0 .. Len(q)
      BY <1>1 DEF q
    <3>5. Cardinality({x \in E : mapResultPenalty(x.Status)}) = Charge(E, FreezeTime) + Len(q)
      <4> DEFINE n == Len(q)
                 S == Early \cup {q[i] : i \in 1 .. n}
      <4>1. n \in 0 .. Len(q) /\ q \in Seq(JudgedEvent)
        BY <1>1, <3>4 DEF q
      <4>2. \A i \in 1 .. Len(q) : q[i].SubmitTime >= FreezeTime
        BY <2>3
      <4> HIDE DEF n
      <4>3. Cardinality(S) = Charge(E, FreezeTime) + n
        <5>1. Rising(q)
          BY <2>1
        <5>2. S = {x \in E : mapResultPenalty(x.Status) /\ x.SubmitTime < FreezeTime}
                     \cup {q[i] : i \in 1 .. n}
          OBVIOUS
        <5> HIDE DEF S, Early
        <5> QED
          BY <4>1, <4>2, <5>1, <5>2, ChargeFrozen, Zenon
      <4> QED
        BY <3>3, <4>3 DEF n
    <3> QED
      BY <2>1, <3>1, <3>2, <3>5, FeedUnsolved DEF r
  <2>8. CASE \E j \in 1 .. Len(q) : SolvedAt(r, q, j, w)
    <3>1. PICK j \in 1 .. Len(q) : SolvedAt(r, q, j, w)
      BY <2>8
    <3> DEFINE t == q[j].SubmitTime
    <3>2. /\ r.Accepted = TRUE /\ r.WrongAttemptCount = w + (j - 1)
          /\ r.Penalty = elapsedMins(t) + r.WrongAttemptCount * PenaltyMinutes
          /\ q[j].Status = "AC" /\ \A i \in 1 .. j - 1 : q[i].Status # "AC"
      BY <2>5, <3>1 DEF SolvedAt
    <3>3. ASSUME NEW x \in E, x.SubmitTime >= FreezeTime, x.SubmitTime < t
          PROVE  \E i \in 1 .. j - 1 : q[i] = x
      <4>1. PICK i \in 1 .. Len(q) : q[i] = x
        BY <2>1, <3>3
      <4>2. i < j
        <5>1. ~(j < i)
          BY <2>1, <2>3, <3>3, <4>1 DEF Rising
        <5>2. i # j
          BY <2>3, <3>3, <4>1
        <5> QED
          BY <5>1, <5>2
      <4> QED
        BY <4>1, <4>2
    <3>4. FirstSolved(E, t)
      <4>1. ASSUME NEW x \in E, x.Status = "AC" PROVE t <= x.SubmitTime
        <5>1. x.SubmitTime >= FreezeTime
          BY <2>1, <4>1
        <5>2. ~(x.SubmitTime < t)
          BY <3>2, <3>3, <4>1, <5>1
        <5> QED
          BY <2>3, <2>6, <5>2
      <4>2. q[j] \in E
        BY <2>1
      <4> QED
        BY <3>2, <4>1, <4>2 DEF FirstSolved
    <3>5. {x \in E : mapResultPenalty(x.Status) /\ x.SubmitTime < t}
             = Early \cup {q[i] : i \in 1 .. j - 1}
      <4>1. ASSUME NEW x \in E, mapResultPenalty(x.Status), x.SubmitTime < t
            PROVE  x \in Early \cup {q[i] : i \in 1 .. j - 1}
        BY <2>6, <3>3, <4>1
      <4>2. ASSUME NEW i \in 1 .. j - 1
            PROVE  q[i] \in E /\ mapResultPenalty(q[i].Status) /\ q[i].SubmitTime < t
        <5>1. i \in 1 .. Len(q) /\ i < j
          OBVIOUS
        <5> QED
          BY <2>1, <2>4, <3>2, <5>1 DEF Rising
      <4>3. ASSUME NEW x \in Early PROVE x.SubmitTime < t
        BY <2>3, <2>6
      <4> QED
        BY <4>1, <4>2, <4>3
    <3>6. j - 1 \in 0 .. Len(q)
      OBVIOUS
    <3>7. Charge(E, t) = Charge(E, FreezeTime) + (j - 1)
      <4> DEFINE n == j - 1
                 S == Early \cup {q[i] : i \in 1 .. n}
      <4>1. n \in 0 .. Len(q) /\ q \in Seq(JudgedEvent)
        BY <1>1, <3>6 DEF q
      <4>2. \A i \in 1 .. Len(q) : q[i].SubmitTime >= FreezeTime
        BY <2>3
      <4> HIDE DEF n
      <4>3. Cardinality(S) = Charge(E, FreezeTime) + n
        <5>1. Rising(q)
          BY <2>1
        <5>2. S = {x \in E : mapResultPenalty(x.Status) /\ x.SubmitTime < FreezeTime}
                     \cup {q[i] : i \in 1 .. n}
          OBVIOUS
        <5> HIDE DEF S, Early
        <5> QED
          BY <4>1, <4>2, <5>1, <5>2, ChargeFrozen, Zenon
      <4>4. Charge(E, t) = Cardinality(S)
        BY <3>5 DEF Charge, n
      <4> QED
        BY <4>3, <4>4 DEF n
    <3>8. FeedScore(E) = [solved  |-> TRUE,
                          wrong   |-> Charge(E, t),
                          penalty |-> elapsedMins(t) + Charge(E, t) * FeedSettings.PenaltyMinutes]
      BY <3>4, FeedSolved
    <3> HIDE DEF t
    <3> QED
      BY <2>1, <3>2, <3>7, <3>8 DEF r
  <2> QED
    BY <2>2, <2>7, <2>8 DEF Round
<1> QED
  BY <1>1, <1>2, <1>3

-----------------------------------------------------------------------------
\* The cells RevealFollowsRules speaks of.
Regular(c) ==
    /\ FeedSettings = [PenaltyMinutes |-> PenaltyMinutes, CENoPenalty |-> CENoPenalty]
    /\ InOrder(c)
    /\ \A e \in EventsOf(c) :
          e.Status # "SE" /\ (e.SubmitTime >= FreezeTime => ~ignoreCE(e.Status))

EntryAt(c) == IF c \in DOMAIN entries THEN entries[c] ELSE NewEntry

RulesKept == \A c \in Cells : Regular(c) => Follows(EntryAt(c), EventsOf(c))

FInv == TInv /\ RulesKept

\* The events of a cell are finitely many.
LEMMA EventsFacts ==
    ASSUME AppliedOK, NEW c
    PROVE  EventsOf(c) \subseteq JudgedEvent /\ IsFiniteSet(EventsOf(c))
<1> DEFINE f == [i \in 1 .. Len(applied) |-> Event(applied[i])]
<1>1. applied \in MergedResults /\ Len(applied) \in Nat /\ DOMAIN applied = 1 .. Len(applied)
  BY DEF AppliedOK, MergedResults
<1>2. \A i \in 1 .. Len(applied) : Event(applied[i]) \in JudgedEvent
  BY <1>1, ResultEvent
<1>3. EventsOf(c) \subseteq JudgedEvent
  BY <1>1, <1>2 DEF EventsOf, AppliedTo
<1>4. IsFiniteSet({f[i] : i \in 1 .. Len(applied)})
  <2>1. IsFiniteSet(1 .. Len(applied))
    BY <1>1, FS_Interval
  <2> HIDE DEF f
  <2> QED
    BY <2>1, ImageFacts
<1>5. EventsOf(c) \in SUBSET {f[i] : i \in 1 .. Len(applied)}
  BY <1>1 DEF EventsOf, AppliedTo
<1> HIDE DEF f
<1> QED
  BY <1>3, <1>4, <1>5, FS_Subset

\* What a merged result adds to the events of its cell, and to no other.
LEMMA EventsMove ==
    ASSUME AppliedOK, NEW m \in [sub : Contest, status : Verdicts],
           applied' = Append(applied, m), NEW c
    PROVE  /\ Cell(m.sub) # c => EventsOf(c)' = EventsOf(c) /\ (InOrder(c)' => InOrder(c))
           /\ Cell(m.sub) = c =>
                 /\ EventsOf(c)' = EventsOf(c) \cup {Event(m)}
                 /\ InOrder(c)' =>
                       /\ InOrder(c)
                       /\ \A y \in EventsOf(c) : y.SubmitTime < Event(m).SubmitTime
<1> DEFINE n == Len(applied)
<1>1. /\ n \in Nat /\ DOMAIN applied = 1 .. n /\ DOMAIN applied' = 1 .. n + 1
      /\ applied'[n + 1] = m /\ \A i \in 1 .. n : applied'[i] = applied[i]
  <2> DEFINE S == [sub : Contest, status : Verdicts]
  <2>1. applied \in Seq(S) /\ m \in S
    BY DEF AppliedOK
  <2> HIDE DEF S
  <2> QED
    BY <2>1
<1> HIDE DEF n
<1>2. AppliedTo(c)' = AppliedTo(c) \cup (IF Cell(m.sub) = c THEN {n + 1} ELSE {})
  BY <1>1 DEF AppliedTo
<1>3. \A i \in AppliedTo(c) : i \in 1 .. n /\ i < n + 1 /\ applied'[i] = applied[i]
  BY <1>1 DEF AppliedTo
<1>4. InOrder(c)' => InOrder(c)
  BY <1>2, <1>3 DEF InOrder
<1>5. CASE Cell(m.sub) # c
  <2>1. EventsOf(c)' = EventsOf(c)
    BY <1>2, <1>3, <1>5 DEF EventsOf
  <2> QED
    BY <1>4, <1>5, <2>1
<1>6. CASE Cell(m.sub) = c
  <2>1. EventsOf(c)' = EventsOf(c) \cup {Event(m)}
    BY <1>1, <1>2, <1>3, <1>6 DEF EventsOf
  <2>2. ASSUME InOrder(c)', NEW y \in EventsOf(c) PROVE y.SubmitTime < Event(m).SubmitTime
    <3>1. PICK i \in AppliedTo(c) : y = Event(applied[i])
      BY DEF EventsOf
    <3>2. i \in AppliedTo(c)' /\ n + 1 \in AppliedTo(c)' /\ i < n + 1
      BY <1>2, <1>3, <1>6
    <3>3. applied'[i].sub.time < applied'[n + 1].sub.time
      BY <2>2, <3>2 DEF InOrder
    <3> QED
      BY <1>1, <1>3, <3>1, <3>3 DEF Event
  <2> QED
    BY <1>4, <1>6, <2>1, <2>2
<1> QED
  BY <1>5, <1>6

\* Every step keeps the account, as long as HGET does not fail.
LEMMA NextFollowsRules ==
    FInv /\ EntryReadable /\ [Next]_vars => FInv'
<1> SUFFICES ASSUME FInv, EntryReadable, [Next]_vars PROVE FInv'
  OBVIOUS
<1>1. TInv /\ TInv' /\ EntriesMove /\ RulesKept
  BY NextTypes, NextEntries DEF FInv
<1>2. CASE UNCHANGED <<entries, applied>>
  <2>1. \A c : UNCHANGED <<EntryAt(c), EventsOf(c), InOrder(c)>>
    BY <1>2 DEF EntryAt, EventsOf, InOrder, AppliedTo
  <2>2. RulesKept'
    BY <1>1, <2>1 DEF RulesKept, Regular
  <2> QED
    BY <1>1, <2>2 DEF FInv
<1>3. CASE at[Ranker] = "handle" /\ Message.sub \in Contest /\ HSet(Prev)
  <2> DEFINE x == Cell(Message.sub)
  <2>1. EntryOK(Prev) /\ AppliedOK /\ Prev = EntryAt(x)
    BY <1>1, PrevFacts DEF TInv, Prev, EntryAt
  <2>2. /\ applied' = Append(applied, Message)
        /\ x \in Cells
        /\ DOMAIN entries' = DOMAIN entries \cup {x}
        /\ entries'[x] = Apply(Event(Message), Prev)
        /\ \A c \in DOMAIN entries : c # x => entries'[c] = entries[c]
    BY <1>1, <1>3, <2>1, HSetFacts
  <2>3. Event(Message) \in JudgedEvent /\ Message \in [sub : Contest, status : Verdicts]
    BY <1>1, <1>3, MessageFacts DEF TInv
  <2>4. ASSUME NEW c
        PROVE  /\ c = x => EntryAt(c)' = Apply(Event(Message), EntryAt(c))
               /\ c # x => EntryAt(c)' = EntryAt(c)
    <3> HIDE DEF x
    <3> QED
      BY <2>1, <2>2 DEF EntryAt
  <2> HIDE DEF x
  <2>5. ASSUME NEW c \in Cells, Regular(c)' PROVE Follows(EntryAt(c)', EventsOf(c)')
    <3>1. CASE c # x
      <4>1. EventsOf(c)' = EventsOf(c) /\ InOrder(c)
        BY <2>1, <2>2, <2>3, <2>5, <3>1, EventsMove DEF x, Regular
      <4>2. Follows(EntryAt(c), EventsOf(c))
        BY <1>1, <2>5, <4>1 DEF RulesKept, Regular
      <4> QED
        BY <2>4, <3>1, <4>1, <4>2
    <3>2. CASE c = x
      <4>1. /\ EventsOf(c)' = EventsOf(c) \cup {Event(Message)} /\ InOrder(c)
            /\ \A y \in EventsOf(c) : y.SubmitTime < Event(Message).SubmitTime
        BY <2>1, <2>2, <2>3, <2>5, <3>2, EventsMove DEF x, Regular
      <4>2. Follows(EntryAt(c), EventsOf(c))
        BY <1>1, <2>5, <4>1 DEF RulesKept, Regular
      <4>3. Event(Message).Status # "SE" /\ FeedSettings.CENoPenalty = CENoPenalty
        BY <2>5, <4>1 DEF Regular
      <4>4. EventsOf(c) \subseteq JudgedEvent /\ IsFiniteSet(EventsOf(c))
        BY <2>1, EventsFacts
      <4>5. Follows(Apply(Event(Message), EntryAt(c)), EventsOf(c) \cup {Event(Message)})
        BY <2>1, <2>3, <3>2, <4>1, <4>2, <4>3, <4>4, ApplyFollows
      <4> QED
        BY <2>4, <3>2, <4>1, <4>5
    <3> QED
      BY <3>1, <3>2
  <2>6. RulesKept'
    BY <2>5 DEF RulesKept, Cells
  <2> QED
    BY <1>1, <2>6 DEF FInv
<1> QED
  BY <1>1, <1>2, <1>3 DEF EntriesMove

\* At first nothing is merged.
LEMMA InitFollowsRules == Init => FInv
<1> SUFFICES ASSUME Init PROVE FInv
  OBVIOUS
<1>1. TInv
  BY InitTypes
<1>2. applied = <<>> /\ entries = <<>> /\ DOMAIN entries = {}
  BY EmptyTable DEF Init
<1>3. \A c : EventsOf(c) = {} /\ EntryAt(c) = NewEntry
  BY <1>2 DEF EventsOf, AppliedTo, EntryAt
<1> QED
  BY <1>1, <1>3, NewFollows DEF FInv, RulesKept

\* What an entry is worth once it is revealed.
LEMMA FollowsRules == FInv => RevealFollowsRules
<1> SUFFICES ASSUME FInv, NEW c \in DOMAIN entries, Regular(c)
             PROVE  RevealedScore(c) = FeedScore(EventsOf(c))
  BY DEF RevealFollowsRules, Regular
<1>1. c \in Cells /\ EntryOK(entries[c]) /\ AppliedOK /\ EntryAt(c) = entries[c]
  BY TableFacts DEF FInv, TInv, CellsOK, EntryAt
<1>2. Follows(entries[c], EventsOf(c))
  BY <1>1 DEF FInv, RulesKept
<1>3. EventsOf(c) \subseteq JudgedEvent /\ IsFiniteSet(EventsOf(c))
  BY <1>1, EventsFacts
<1>4. /\ FeedSettings.CENoPenalty = CENoPenalty
      /\ FeedSettings.PenaltyMinutes = PenaltyMinutes
      /\ \A x \in EventsOf(c) :
            x.Status # "SE" /\ (x.SubmitTime >= FreezeTime => ~ignoreCE(x.Status))
  BY DEF Regular
<1> DEFINE e == entries[c]
<1> HIDE DEF e
<1>5. LET r == RevealAll(e)
      IN  [solved |-> r.Accepted, wrong |-> r.WrongAttemptCount, penalty |-> r.Penalty]
             = FeedScore(EventsOf(c))
  BY <1>1, <1>2, <1>3, <1>4, RevealFollows DEF e
<1> QED
  BY <1>5 DEF RevealedScore, e

\* The scoreboard and the resolver's feed agree (strategy_icpc.go, resolver.go): a cell
\* whose results were merged in the order of the submissions, once each and none of them
\* a SystemError or an exempt compile error in the freeze, is worth after the reveal what
\* the feed makes of the same submissions, in a contest with the default settings and as
\* long as HGET does not fail.  Any number of submissions, before and after the freeze.
THEOREM RevealFollowsRulesHolds ==
    ASSUME "hget" \notin Faults
    PROVE  Spec => []RevealFollowsRules
<1>1. EntryReadable
  BY DEF EntryReadable
<1>2. FInv /\ [Next]_vars => FInv'
  BY <1>1, NextFollowsRules
<1> QED
  BY <1>2, FollowsRules, InitFollowsRules, PTL DEF Spec

=============================================================================
