-------------------------- MODULE OiContestProofs ---------------------------
(***************************************************************************)
(* Proofs about OiContest for any number of contestants, problems,         *)
(* submissions, overlapping sweeps and faults.                             *)
(***************************************************************************)
EXTENDS OiContest, FiniteSetTheorems, TLAPS

Request == [pc : {"idle", "create", "defer", "enqueue", "end"},
            cell : Cells \cup {NewRequest.cell}, contest : BOOLEAN, id : Nat]

Judge == [pc : {"idle", "list", "void", "dispatch", "end"},
          listed : SUBSET Nat, left : SUBSET Nat, skipped : Nat]

\* What a handler carries, given the rows there are.
RequestCarries(q, ids) ==
    /\ q.pc = "create" => q.cell \in Cells
    /\ q.pc \in {"defer", "enqueue"} => q.id \in ids

SweepCarries(w, ids) == w.left \subseteq w.listed /\ w.listed \subseteq ids

BasicsOK ==
    /\ now \in 0 .. MaxTime /\ budget \in 0 .. MaxFaults
    /\ type \in Types /\ strict \in BOOLEAN

RowsOK == rows \in Seq(Row)

RequestsOK ==
    /\ req \in [Requests -> Request]
    /\ \A r \in Requests : RequestCarries(req[r], DOMAIN rows)

SweepsOK ==
    /\ sweep \in [Sweeps -> Judge]
    /\ \A s \in Sweeps : SweepCarries(sweep[s], DOMAIN rows)

RefsOK ==
    /\ judging \subseteq DOMAIN rows
    /\ unheld \subseteq DOMAIN rows /\ settled \subseteq DOMAIN rows

BoardOK == DOMAIN board \subseteq Cells /\ \A c \in DOMAIN board : board[c] \in Entry

\* A request that has not reached the insert yet.
Fresh == {r \in Requests : req[r].pc \in {"idle", "create"}}

\* Every request inserts at most one row.
OneRowEach == Len(rows) + Cardinality(Fresh) <= Cardinality(Requests)

\* No step takes a row or a verdict away, or makes a row pending again.
RowsKept ==
    /\ DOMAIN rows \subseteq DOMAIN rows'
    /\ \A i \in DOMAIN rows :
          /\ rows'[i].cell = rows[i].cell /\ rows'[i].contest = rows[i].contest
          /\ rows'[i].status = "Pending" => rows[i].status = "Pending"
          /\ rows[i].status = "Judged" => rows'[i].status = "Judged"

\* The clock does not go back, the type of the contest stays, and that a row was not
\* withheld is remembered.
Onward ==
    /\ type' = type /\ strict' = strict
    /\ EndTime <= now => EndTime <= now'
    /\ unheld \subseteq unheld'

TInv == BasicsOK /\ RowsOK /\ RequestsOK /\ SweepsOK /\ RefsOK /\ BoardOK /\ OneRowEach

\* What a sweep has gone past without skipping anything is settled.
SweepCovers ==
    \A s \in Sweeps :
        sweep[s].pc = "dispatch" /\ sweep[s].skipped = 0 =>
            \A i \in sweep[s].listed \ sweep[s].left :
                rows[i].status = "Pending" => i \in judging

Settled == SweepSettles /\ SweepCovers

\* Why a row of the contest is judged: its contest could not be loaded or was over
\* when it was classified, or it is over now.
RequestKnows ==
    \A r \in Requests :
        /\ req[r].pc \in {"defer", "enqueue"} => rows[req[r].id].contest = req[r].contest
        /\ req[r].pc = "enqueue" /\ IsBlindJudged /\ req[r].contest => req[r].id \in unheld

SweepKnows ==
    \A s \in Sweeps :
        /\ sweep[s].pc \in {"list", "void", "dispatch"} => EndTime <= now
        /\ \A i \in sweep[s].listed : rows[i].contest

JudgedKnows ==
    /\ \A i \in DOMAIN rows : rows[i].status = "Judged" => i \in judging
    /\ \A i \in DOMAIN rows : rows[i].status = "Superseded" => EndTime <= now
    /\ IsBlindJudged =>
          \A i \in judging : rows[i].contest /\ i \notin unheld => EndTime <= now

BoardKnows ==
    /\ DOMAIN board # {} => IsBlindJudged
    /\ \A c \in DOMAIN board : \E i \in judging : rows[i].contest /\ rows[i].cell = c

HInv == TInv /\ RequestKnows /\ SweepKnows /\ JudgedKnows /\ BoardKnows

IsLast(i, S) == i \in S /\ \A j \in S : j <= i

\* A cell all of whose rows were withheld.
Withheld(c) == IsBlindJudged /\ ContestRows(c) \cap unheld = {}

LastExists ==
    \A c \in Cells :
        ContestRows(c) # {} => \E i \in DOMAIN rows : IsLast(i, ContestRows(c))

SupersededByLater ==
    \A i \in DOMAIN rows :
        rows[i].status = "Superseded" => \E j \in ContestRows(rows[i].cell) : j > i

\* The last of a cell whose others are void.
OnlyOne(i, c) ==
    /\ IsLast(i, ContestRows(c))
    /\ \A j \in ContestRows(c) \ {i} : rows[j].status # "Pending"

\* Of a withheld cell only the last row is given to the judge, and not before the
\* others are void; a sweep that has listed rows of it has listed the last one too.
OnlyLastJudged ==
    \A c \in Cells : Withheld(c) =>
        \A i \in ContestRows(c) \cap judging : OnlyOne(i, c)

SweepTakesLast ==
    \A c \in Cells, s \in Sweeps : Withheld(c) =>
        /\ sweep[s].pc = "void" =>
              /\ \A i \in ContestRows(c) \ sweep[s].listed : rows[i].status # "Pending"
              /\ \A i \in ContestRows(c) :
                    IsLast(i, ContestRows(c)) /\ ContestRows(c) \cap sweep[s].listed # {}
                        => i \in sweep[s].listed
        /\ sweep[s].pc = "dispatch" =>
              \A i \in ContestRows(c) \cap sweep[s].left : OnlyOne(i, c)

\* What a sweep may do in one step.
SweepMoves(s) ==
    \/ sweep'[s] = sweep[s]
    \/ sweep'[s].pc \notin {"void", "dispatch"}
    \/ List(s)
    \/ Void(s)
    \/ /\ sweep[s].pc = "dispatch" /\ sweep'[s].pc = "dispatch"
       /\ sweep'[s].left \subseteq sweep[s].left

\* Rows are inserted at the end of the table, and those that come after the end of
\* the contest are not withheld.
RowsGrow ==
    \/ DOMAIN rows' = DOMAIN rows
    \/ /\ DOMAIN rows' = DOMAIN rows \cup {Len(rows) + 1}
       /\ EndTime <= now => Len(rows) + 1 \in unheld'

\* Where new tasks come from: a sweep, or a handler whose row was not withheld.
TasksExplained ==
    \A j \in judging' \ judging :
        /\ j \in DOMAIN rows
        /\ \/ \E t \in Sweeps : sweep[t].pc = "dispatch" /\ j \in sweep[t].left
           \/ IsBlindJudged /\ rows[j].contest => j \in unheld

\* The ones to judge.
ToJudge(s) ==
    IF IsBlindJudged THEN splitLatestPerProblem(sweep[s].listed) ELSE sweep[s].listed

\* Where void rows come from: a sweep that lists them and does not judge them.
VoidsExplained ==
    \A j \in DOMAIN rows' : rows'[j].status = "Superseded" =>
        \/ j \in DOMAIN rows /\ rows[j].status = "Superseded"
        \/ \E t \in Sweeps : j \in sweep[t].listed \ ToJudge(t)

BoardOfLast ==
    \A c \in DOMAIN board : Withheld(c) =>
        \E i \in DOMAIN rows : IsLast(i, ContestRows(c)) /\ board[c].DisplayScore = Score[i]

LInv ==
    /\ HInv /\ LastExists /\ SupersededByLater
    /\ OnlyLastJudged /\ SweepTakesLast /\ BoardOfLast

-----------------------------------------------------------------------------
\* SubmissionRepo.Create: the table gets one more row, whose id is new.
LEMMA InsertFacts ==
    ASSUME RowsOK, NEW r \in Requests, req[r] \in Request, req[r].cell \in Cells, Insert(r)
    PROVE  /\ rows' \in Seq(Row) /\ Len(rows') = Len(rows) + 1
           /\ DOMAIN rows' = DOMAIN rows \cup {Len(rows) + 1}
           /\ \A j \in DOMAIN rows : rows'[j] = rows[j] /\ j < Len(rows) + 1
           /\ rows'[Len(rows) + 1].cell = req[r].cell
           /\ rows'[Len(rows) + 1].contest = req[r].contest
           /\ rows'[Len(rows) + 1].status = "Pending"
<1> DEFINE w == [cell |-> req[r].cell, contest |-> req[r].contest, status |-> "Pending"]
<1>1. w \in Row /\ w.cell = req[r].cell /\ w.contest = req[r].contest /\ w.status = "Pending"
  BY DEF Row, Request
<1>2. rows' = Append(rows, w) /\ rows \in Seq(Row)
  BY DEF Insert, RowsOK
<1> HIDE DEF w
<1> QED
  BY <1>1, <1>2

\* SubmissionRepo.MarkSuperseded: only the status of pending rows changes.
LEMMA MarkFacts ==
    ASSUME RowsOK, NEW S, MarkSuperseded(S)
    PROVE  /\ rows' \in Seq(Row) /\ DOMAIN rows' = DOMAIN rows /\ Len(rows') = Len(rows)
           /\ \A j \in DOMAIN rows :
                 /\ rows'[j].cell = rows[j].cell /\ rows'[j].contest = rows[j].contest
                 /\ j \notin S => rows'[j].status = rows[j].status
                 /\ rows[j].status # "Pending" => rows'[j].status = rows[j].status
                 /\ j \in S /\ rows[j].status = "Pending" => rows'[j].status = "Superseded"
<1>1. \A j \in DOMAIN rows : rows[j] \in Row
  BY DEF RowsOK
<1>2. /\ DOMAIN rows' = DOMAIN rows
      /\ \A j \in DOMAIN rows :
            rows'[j] = IF j \in S /\ rows[j].status = "Pending"
                       THEN [rows[j] EXCEPT !.status = "Superseded"] ELSE rows[j]
  BY DEF MarkSuperseded
<1>3. ASSUME NEW w \in Row
      PROVE  /\ [w EXCEPT !.status = "Superseded"] \in Row
             /\ [w EXCEPT !.status = "Superseded"].cell = w.cell
             /\ [w EXCEPT !.status = "Superseded"].contest = w.contest
             /\ [w EXCEPT !.status = "Superseded"].status = "Superseded"
  BY DEF Row
<1>4. \A j \in DOMAIN rows :
          /\ rows'[j] \in Row
          /\ rows'[j].cell = rows[j].cell /\ rows'[j].contest = rows[j].contest
          /\ j \notin S => rows'[j].status = rows[j].status
          /\ rows[j].status # "Pending" => rows'[j].status = rows[j].status
          /\ j \in S /\ rows[j].status = "Pending" => rows'[j].status = "Superseded"
  <2> TAKE j \in DOMAIN rows
  <2>1. CASE j \in S /\ rows[j].status = "Pending"
    <3>1. rows'[j] = [rows[j] EXCEPT !.status = "Superseded"] /\ rows[j] \in Row
      BY <1>1, <1>2, <2>1
    <3> QED
      BY <1>3, <2>1, <3>1
  <2>2. CASE ~(j \in S /\ rows[j].status = "Pending")
    BY <1>1, <1>2, <2>2
  <2> QED
    BY <2>1, <2>2
<1>5. rows' = [j \in DOMAIN rows |-> rows'[j]] /\ DOMAIN rows = 1 .. Len(rows) /\ Len(rows) \in Nat
  BY <1>2 DEF MarkSuperseded, RowsOK
<1>6. rows' \in Seq(Row) /\ Len(rows') = Len(rows)
  BY <1>4, <1>5
<1> QED
  BY <1>2, <1>4, <1>6

\* SubmissionRepo.Update: only the status of the row changes.
LEMMA UpdateFacts ==
    ASSUME RowsOK, NEW i \in DOMAIN rows, rows' = [rows EXCEPT ![i].status = "Judged"]
    PROVE  /\ rows' \in Seq(Row) /\ DOMAIN rows' = DOMAIN rows /\ Len(rows') = Len(rows)
           /\ \A j \in DOMAIN rows :
                 /\ rows'[j].cell = rows[j].cell /\ rows'[j].contest = rows[j].contest
                 /\ j # i => rows'[j].status = rows[j].status
           /\ rows'[i].status = "Judged"
<1> DEFINE w == [rows[i] EXCEPT !.status = "Judged"]
<1>1. rows[i] \in Row /\ rows \in Seq(Row)
  BY DEF RowsOK
<1>2. w \in Row /\ w.cell = rows[i].cell /\ w.contest = rows[i].contest /\ w.status = "Judged"
  BY <1>1 DEF Row
<1>3. rows' = [rows EXCEPT ![i] = w]
  OBVIOUS
<1> HIDE DEF w
<1> QED
  BY <1>1, <1>2, <1>3

\* The clock and the number of faults stay within their bounds.
LEMMA BasicsStep ==
    TInv /\ [Next]_vars => BasicsOK'
<1> SUFFICES ASSUME TInv, [Next]_vars PROVE BasicsOK'
  OBVIOUS
<1> USE DEF history
<1>0. BasicsOK
  BY DEF TInv
<1>b. MaxTime \in Nat /\ MaxFaults \in Nat
  BY OiAssumption
<1>1. ASSUME NEW r \in Requests, Submit(r) PROVE BasicsOK'
  BY <1>1, <1>0, <1>b DEF Submit, BasicsOK
<1>2. ASSUME NEW r \in Requests, SubmitPractice(r) PROVE BasicsOK'
  BY <1>2, <1>0, <1>b DEF SubmitPractice, BasicsOK, Fault, NoFault
<1>3. ASSUME NEW r \in Requests, Create(r) PROVE BasicsOK'
  BY <1>3, <1>0, <1>b DEF Create, BasicsOK
<1>4. ASSUME NEW r \in Requests, CreateFails(r) PROVE BasicsOK'
  BY <1>4, <1>0, <1>b DEF CreateFails, BasicsOK, Fault, NoFault
<1>5. ASSUME NEW r \in Requests, Defer(r) PROVE BasicsOK'
  <2>1. UNCHANGED <<now, type, strict>>
    BY <1>5 DEF Defer
  <2>2. budget' = budget \/ (budget > 0 /\ budget' = budget - 1)
    BY <1>5 DEF Defer, Fault, NoFault
  <2> QED
    BY <1>0, <1>b, <2>1, <2>2 DEF BasicsOK
<1>6. ASSUME NEW r \in Requests, EnqueueTask(r) PROVE BasicsOK'
  BY <1>6, <1>0, <1>b DEF EnqueueTask, BasicsOK, Fault, NoFault
<1>7. ASSUME NEW r \in Requests, AbortSubmit(r) PROVE BasicsOK'
  BY <1>7, <1>0, <1>b DEF AbortSubmit, BasicsOK, Fault, NoFault
<1>8. ASSUME NEW s \in Sweeps, JudgeContest(s) PROVE BasicsOK'
  BY <1>8, <1>0, <1>b DEF JudgeContest, BasicsOK
<1>9. ASSUME NEW s \in Sweeps, List(s) PROVE BasicsOK'
  BY <1>9, <1>0, <1>b DEF List, BasicsOK
<1>10. ASSUME NEW s \in Sweeps, Void(s) PROVE BasicsOK'
  BY <1>10, <1>0, <1>b DEF Void, BasicsOK
<1>11. ASSUME NEW s \in Sweeps, VoidFails(s) PROVE BasicsOK'
  BY <1>11, <1>0, <1>b DEF VoidFails, BasicsOK, Fault, NoFault
<1>12. ASSUME NEW s \in Sweeps, Dispatch(s) PROVE BasicsOK'
  <2>1. UNCHANGED <<now, type, strict>>
    BY <1>12 DEF Dispatch
  <2>2. budget' = budget \/ (budget > 0 /\ budget' = budget - 1)
    BY <1>12 DEF Dispatch, Fault, NoFault
  <2> QED
    BY <1>0, <1>b, <2>1, <2>2 DEF BasicsOK
<1>13. ASSUME NEW s \in Sweeps, JudgeContestReturns(s) PROVE BasicsOK'
  BY <1>13, <1>0, <1>b DEF JudgeContestReturns, BasicsOK
<1>14. ASSUME NEW s \in Sweeps, AbortSweep(s) PROVE BasicsOK'
  BY <1>14, <1>0, <1>b DEF AbortSweep, BasicsOK, Fault, NoFault
<1>15. ASSUME NEW i \in Ids, Update(i) PROVE BasicsOK'
  BY <1>15, <1>0, <1>b DEF Update, BasicsOK
<1>16. ASSUME NEW i \in Ids, Rank(i) PROVE BasicsOK'
  BY <1>16, <1>0, <1>b DEF Rank, BasicsOK
<1>17. CASE Tick
  BY <1>17, <1>0, <1>b DEF Tick, BasicsOK
<1>18. CASE UNCHANGED vars
  BY <1>18, <1>0, <1>b DEF vars, BasicsOK
<1> QED
  BY <1>1, <1>2, <1>3, <1>4, <1>5, <1>6, <1>7, <1>8, <1>9, <1>10, <1>11, <1>12, <1>13,
     <1>14, <1>15, <1>16, <1>17, <1>18 DEF Next

\* Rows are only added, voided while they are pending, and judged.
LEMMA RowsStep ==
    TInv /\ [Next]_vars => (RowsOK' /\ RowsKept)
<1> SUFFICES ASSUME TInv, [Next]_vars PROVE (RowsOK' /\ RowsKept)
  OBVIOUS
<1> USE DEF history
<1>0. RowsOK /\ RequestsOK /\ RefsOK
  BY DEF TInv
<1>1. ASSUME NEW r \in Requests, Submit(r) PROVE (RowsOK' /\ RowsKept)
  BY <1>1, <1>0 DEF Submit, RowsOK, RowsKept
<1>2. ASSUME NEW r \in Requests, SubmitPractice(r) PROVE (RowsOK' /\ RowsKept)
  BY <1>2, <1>0 DEF SubmitPractice, RowsOK, RowsKept
<1>3. ASSUME NEW r \in Requests, Create(r) PROVE (RowsOK' /\ RowsKept)
  <2>1. req[r] \in Request /\ req[r].cell \in Cells /\ Insert(r)
    BY <1>0, <1>3 DEF Create, RequestsOK, RequestCarries
  <2> QED
    BY <1>0, <2>1, InsertFacts DEF RowsOK, RowsKept
<1>4. ASSUME NEW r \in Requests, CreateFails(r) PROVE (RowsOK' /\ RowsKept)
  <2>1. req[r] \in Request /\ req[r].cell \in Cells /\ Insert(r)
    BY <1>0, <1>4 DEF CreateFails, RequestsOK, RequestCarries
  <2> QED
    BY <1>0, <2>1, InsertFacts DEF RowsOK, RowsKept
<1>5. ASSUME NEW r \in Requests, Defer(r) PROVE (RowsOK' /\ RowsKept)
  BY <1>5, <1>0 DEF Defer, RowsOK, RowsKept
<1>6. ASSUME NEW r \in Requests, EnqueueTask(r) PROVE (RowsOK' /\ RowsKept)
  BY <1>6, <1>0 DEF EnqueueTask, RowsOK, RowsKept
<1>7. ASSUME NEW r \in Requests, AbortSubmit(r) PROVE (RowsOK' /\ RowsKept)
  BY <1>7, <1>0 DEF AbortSubmit, RowsOK, RowsKept
<1>8. ASSUME NEW s \in Sweeps, JudgeContest(s) PROVE (RowsOK' /\ RowsKept)
  BY <1>8, <1>0 DEF JudgeContest, RowsOK, RowsKept
<1>9. ASSUME NEW s \in Sweeps, List(s) PROVE (RowsOK' /\ RowsKept)
  BY <1>9, <1>0 DEF List, RowsOK, RowsKept
<1>10. ASSUME NEW s \in Sweeps, Void(s) PROVE (RowsOK' /\ RowsKept)
  <2>1. PICK S : MarkSuperseded(S)
    BY <1>10 DEF Void
  <2> QED
    BY <1>0, <2>1, MarkFacts DEF RowsOK, RowsKept
<1>11. ASSUME NEW s \in Sweeps, VoidFails(s) PROVE (RowsOK' /\ RowsKept)
  <2>1. CASE UNCHANGED rows
    BY <1>0, <2>1 DEF RowsOK, RowsKept
  <2>2. CASE \E S : MarkSuperseded(S)
    BY <1>0, <2>2, MarkFacts DEF RowsOK, RowsKept
  <2> QED
    BY <1>11, <2>1, <2>2 DEF VoidFails
<1>12. ASSUME NEW s \in Sweeps, Dispatch(s) PROVE (RowsOK' /\ RowsKept)
  BY <1>12, <1>0 DEF Dispatch, RowsOK, RowsKept
<1>13. ASSUME NEW s \in Sweeps, JudgeContestReturns(s) PROVE (RowsOK' /\ RowsKept)
  BY <1>13, <1>0 DEF JudgeContestReturns, RowsOK, RowsKept
<1>14. ASSUME NEW s \in Sweeps, AbortSweep(s) PROVE (RowsOK' /\ RowsKept)
  BY <1>14, <1>0 DEF AbortSweep, RowsOK, RowsKept
<1>15. ASSUME NEW i \in Ids, Update(i) PROVE (RowsOK' /\ RowsKept)
  <2>1. i \in DOMAIN rows /\ rows' = [rows EXCEPT ![i].status = "Judged"]
    BY <1>0, <1>15 DEF Update, RefsOK
  <2>2. /\ rows' \in Seq(Row) /\ DOMAIN rows' = DOMAIN rows
        /\ \A j \in DOMAIN rows :
              /\ rows'[j].cell = rows[j].cell /\ rows'[j].contest = rows[j].contest
              /\ j # i => rows'[j].status = rows[j].status
        /\ rows'[i].status = "Judged"
    BY <1>0, <2>1, UpdateFacts
  <2> QED
    BY <2>2 DEF RowsOK, RowsKept
<1>16. ASSUME NEW i \in Ids, Rank(i) PROVE (RowsOK' /\ RowsKept)
  BY <1>16, <1>0 DEF Rank, RowsOK, RowsKept
<1>17. CASE Tick
  BY <1>17, <1>0 DEF Tick, RowsOK, RowsKept
<1>18. CASE UNCHANGED vars
  BY <1>18, <1>0 DEF vars, RowsOK, RowsKept
<1> QED
  BY <1>1, <1>2, <1>3, <1>4, <1>5, <1>6, <1>7, <1>8, <1>9, <1>10, <1>11, <1>12, <1>13,
     <1>14, <1>15, <1>16, <1>17, <1>18 DEF Next

\* The requests' records.
LEMMA RequestFacts ==
    /\ NewRequest \in Request /\ NewRequest.pc = "idle"
    /\ EndedRequest \in Request /\ EndedRequest.pc = "end"
    /\ \A c \in Cells, b \in BOOLEAN, n \in Nat :
          [pc |-> "create", cell |-> c, contest |-> b, id |-> n] \in Request
  BY DEF NewRequest, EndedRequest, Request

\* The request of one handler changes.
LEMMA RequestChanges ==
    ASSUME RequestsOK, RowsKept, NEW r \in Requests, NEW q \in Request,
           RequestCarries(q, DOMAIN rows'), req' = [req EXCEPT ![r] = q]
    PROVE  RequestsOK' /\ req'[r] = q /\ \A p \in Requests \ {r} : req'[p] = req[p]
<1>1. /\ req' \in [Requests -> Request]
      /\ req'[r] = q /\ \A p \in Requests \ {r} : req'[p] = req[p]
  BY DEF RequestsOK
<1>2. \A p \in Requests \ {r} : RequestCarries(req'[p], DOMAIN rows')
  BY <1>1 DEF RequestsOK, RequestCarries, RowsKept
<1> QED
  BY <1>1, <1>2 DEF RequestsOK

\* On the step to deferJudging a request only learns the id of its row.
LEMMA MoveToDefer ==
    ASSUME NEW q \in Request, NEW n \in Nat
    PROVE  /\ [q EXCEPT !.pc = "defer", !.id = n] \in Request
           /\ [q EXCEPT !.pc = "defer", !.id = n].pc = "defer"
           /\ [q EXCEPT !.pc = "defer", !.id = n].contest = q.contest
           /\ [q EXCEPT !.pc = "defer", !.id = n].id = n
  BY DEF Request

\* On the step to enqueueTask it keeps what it has.
LEMMA MoveToEnqueue ==
    ASSUME NEW q \in Request
    PROVE  /\ [q EXCEPT !.pc = "enqueue"] \in Request
           /\ [q EXCEPT !.pc = "enqueue"].pc = "enqueue"
           /\ [q EXCEPT !.pc = "enqueue"].contest = q.contest
           /\ [q EXCEPT !.pc = "enqueue"].id = q.id
  BY DEF Request

\* A handler carries the id of a row that exists.
LEMMA RequestsStep ==
    TInv /\ [Next]_vars => RequestsOK'
<1> SUFFICES ASSUME TInv, [Next]_vars PROVE RequestsOK'
  OBVIOUS
<1> USE DEF history
<1>0. RowsOK /\ RequestsOK /\ RowsKept
  BY RowsStep DEF TInv
<1>1. ASSUME NEW r \in Requests, Submit(r) PROVE RequestsOK'
  <2>1. PICK c \in Cells :
            req' = [req EXCEPT ![r] = IF CanSubmitToContest
                        THEN [pc |-> "create", cell |-> c, contest |-> TRUE, id |-> 0]
                        ELSE EndedRequest]
    BY <1>1 DEF Submit
  <2> DEFINE q == [pc |-> "create", cell |-> c, contest |-> TRUE, id |-> 0]
  <2>2. q \in Request /\ RequestCarries(q, DOMAIN rows')
    BY RequestFacts DEF RequestCarries
  <2>3. EndedRequest \in Request /\ RequestCarries(EndedRequest, DOMAIN rows')
    BY RequestFacts DEF RequestCarries
  <2>4. req' = [req EXCEPT ![r] = q] \/ req' = [req EXCEPT ![r] = EndedRequest]
    BY <2>1
  <2> HIDE DEF q
  <2> QED
    BY <1>0, <2>2, <2>3, <2>4, RequestChanges
<1>2. ASSUME NEW r \in Requests, SubmitPractice(r) PROVE RequestsOK'
  <2>1. PICK c \in Cells, active \in BOOLEAN :
            req' = [req EXCEPT ![r].pc = "create", ![r].cell = c, ![r].contest = active]
    BY <1>2 DEF SubmitPractice
  <2>2. req[r] \in Request /\ req[r].id \in Nat
    BY <1>0 DEF RequestsOK, Request
  <2> DEFINE q == [req[r] EXCEPT !.pc = "create", !.cell = c, !.contest = active]
  <2>3. req' = [req EXCEPT ![r] = q]
    BY <1>0, <2>1 DEF RequestsOK
  <2>4. q \in Request /\ q.pc = "create" /\ q.cell = c
    BY <2>2 DEF Request
  <2>5. RequestCarries(q, DOMAIN rows')
    BY <2>4 DEF RequestCarries
  <2> HIDE DEF q
  <2> QED
    BY <1>0, <2>3, <2>4, <2>5, RequestChanges
<1>3. ASSUME NEW r \in Requests, Create(r) PROVE RequestsOK'
  <2>1. /\ req[r] \in Request /\ req[r].cell \in Cells /\ Insert(r) /\ Len(rows) + 1 \in Nat
        /\ req' = [req EXCEPT ![r].pc = "defer", ![r].id = Len(rows) + 1]
    BY <1>0, <1>3 DEF Create, RequestsOK, RequestCarries, RowsOK
  <2> DEFINE q == [req[r] EXCEPT !.pc = "defer", !.id = Len(rows) + 1]
  <2>2. req' = [req EXCEPT ![r] = q]
    BY <1>0, <2>1 DEF RequestsOK
  <2>3. q \in Request /\ q.pc = "defer" /\ q.id = Len(rows) + 1
    BY <2>1, MoveToDefer
  <2>4. Len(rows) + 1 \in DOMAIN rows'
    BY <1>0, <2>1, InsertFacts
  <2>5. q \in Request /\ RequestCarries(q, DOMAIN rows')
    BY <2>3, <2>4 DEF RequestCarries
  <2> HIDE DEF q
  <2> QED
    BY <1>0, <2>2, <2>5, RequestChanges
<1>4. ASSUME NEW r \in Requests, CreateFails(r) PROVE RequestsOK'
  <2>1. RequestCarries(EndedRequest, DOMAIN rows')
    BY RequestFacts DEF RequestCarries
  <2> QED
    BY <1>0, <1>4, <2>1, RequestFacts, RequestChanges DEF CreateFails, RequestEnds
<1>5. ASSUME NEW r \in Requests, Defer(r) PROVE RequestsOK'
  <2>1. PICK withhold \in BOOLEAN :
            req' = [req EXCEPT ![r] = IF withhold THEN EndedRequest ELSE [@ EXCEPT !.pc = "enqueue"]]
    BY <1>5 DEF Defer
  <2>2. /\ req[r].pc = "defer" /\ req[r] \in Request /\ UNCHANGED rows
        /\ req[r].id \in DOMAIN rows
    BY <1>0, <1>5 DEF Defer, RequestsOK, RequestCarries
  <2> DEFINE q == [req[r] EXCEPT !.pc = "enqueue"]
  <2>3. q \in Request /\ q.pc = "enqueue" /\ q.id = req[r].id
    BY <2>2, MoveToEnqueue
  <2>4. q \in Request /\ RequestCarries(q, DOMAIN rows')
    BY <2>2, <2>3 DEF RequestCarries
  <2>5. EndedRequest \in Request /\ RequestCarries(EndedRequest, DOMAIN rows')
    BY RequestFacts DEF RequestCarries
  <2>6. req' = [req EXCEPT ![r] = q] \/ req' = [req EXCEPT ![r] = EndedRequest]
    BY <1>0, <2>1 DEF RequestsOK
  <2> HIDE DEF q
  <2> QED
    BY <1>0, <2>4, <2>5, <2>6, RequestChanges
<1>6. ASSUME NEW r \in Requests, EnqueueTask(r) PROVE RequestsOK'
  <2>1. RequestCarries(EndedRequest, DOMAIN rows')
    BY RequestFacts DEF RequestCarries
  <2> QED
    BY <1>0, <1>6, <2>1, RequestFacts, RequestChanges DEF EnqueueTask, RequestEnds
<1>7. ASSUME NEW r \in Requests, AbortSubmit(r) PROVE RequestsOK'
  <2>1. RequestCarries(EndedRequest, DOMAIN rows')
    BY RequestFacts DEF RequestCarries
  <2> QED
    BY <1>0, <1>7, <2>1, RequestFacts, RequestChanges DEF AbortSubmit, RequestEnds
<1>8. ASSUME NEW s \in Sweeps, JudgeContest(s) PROVE RequestsOK'
  BY <1>8, <1>0 DEF JudgeContest, RequestsOK, RequestCarries, RowsKept
<1>9. ASSUME NEW s \in Sweeps, List(s) PROVE RequestsOK'
  BY <1>9, <1>0 DEF List, RequestsOK, RequestCarries, RowsKept
<1>10. ASSUME NEW s \in Sweeps, Void(s) PROVE RequestsOK'
  BY <1>10, <1>0 DEF Void, RequestsOK, RequestCarries, RowsKept
<1>11. ASSUME NEW s \in Sweeps, VoidFails(s) PROVE RequestsOK'
  BY <1>11, <1>0 DEF VoidFails, RequestsOK, RequestCarries, RowsKept
<1>12. ASSUME NEW s \in Sweeps, Dispatch(s) PROVE RequestsOK'
  BY <1>12, <1>0 DEF Dispatch, RequestsOK, RequestCarries, RowsKept
<1>13. ASSUME NEW s \in Sweeps, JudgeContestReturns(s) PROVE RequestsOK'
  BY <1>13, <1>0 DEF JudgeContestReturns, RequestsOK, RequestCarries, RowsKept
<1>14. ASSUME NEW s \in Sweeps, AbortSweep(s) PROVE RequestsOK'
  BY <1>14, <1>0 DEF AbortSweep, RequestsOK, RequestCarries, RowsKept
<1>15. ASSUME NEW i \in Ids, Update(i) PROVE RequestsOK'
  BY <1>15, <1>0 DEF Update, RequestsOK, RequestCarries, RowsKept
<1>16. ASSUME NEW i \in Ids, Rank(i) PROVE RequestsOK'
  BY <1>16, <1>0 DEF Rank, RequestsOK, RequestCarries, RowsKept
<1>17. CASE Tick
  BY <1>17, <1>0 DEF Tick, RequestsOK, RequestCarries, RowsKept
<1>18. CASE UNCHANGED vars
  BY <1>18, <1>0 DEF vars, RequestsOK, RequestCarries, RowsKept
<1> QED
  BY <1>1, <1>2, <1>3, <1>4, <1>5, <1>6, <1>7, <1>8, <1>9, <1>10, <1>11, <1>12, <1>13,
     <1>14, <1>15, <1>16, <1>17, <1>18 DEF Next

\* The sweeps' records.
LEMMA SweepFacts ==
    LET ended == [NewSweep EXCEPT !.pc = "end"]
    IN  /\ NewSweep \in Judge /\ NewSweep.listed = {} /\ NewSweep.left = {}
        /\ NewSweep.pc = "idle"
        /\ ended \in Judge /\ ended.listed = {} /\ ended.left = {} /\ ended.pc = "end"
  BY DEF NewSweep, Judge

\* The record of one sweep changes.
LEMMA SweepChanges ==
    ASSUME SweepsOK, RowsKept, NEW s \in Sweeps, NEW w \in Judge,
           SweepCarries(w, DOMAIN rows'), sweep' = [sweep EXCEPT ![s] = w]
    PROVE  SweepsOK' /\ sweep'[s] = w /\ \A t \in Sweeps \ {s} : sweep'[t] = sweep[t]
<1>1. /\ sweep' \in [Sweeps -> Judge]
      /\ sweep'[s] = w /\ \A t \in Sweeps \ {s} : sweep'[t] = sweep[t]
  BY DEF SweepsOK
<1>2. \A t \in Sweeps \ {s} : SweepCarries(sweep'[t], DOMAIN rows')
  BY <1>1 DEF SweepsOK, SweepCarries, RowsKept
<1> QED
  BY <1>1, <1>2 DEF SweepsOK

\* A sweep that returns, fails or is aborted forgets what it had listed.
LEMMA SweepEndFacts ==
    ASSUME SweepsOK, RowsKept, NEW s \in Sweeps, SweepEnds(s)
    PROVE  /\ SweepsOK'
           /\ sweep'[s].pc = "end" /\ sweep'[s].listed = {} /\ sweep'[s].left = {}
           /\ \A t \in Sweeps \ {s} : sweep'[t] = sweep[t]
<1> DEFINE w == [NewSweep EXCEPT !.pc = "end"]
<1>1. w \in Judge /\ w.listed = {} /\ w.left = {} /\ w.pc = "end"
  BY SweepFacts
<1>2. SweepCarries(w, DOMAIN rows')
  BY <1>1 DEF SweepCarries
<1>3. sweep' = [sweep EXCEPT ![s] = w]
  BY DEF SweepEnds
<1> HIDE DEF w
<1> QED
  BY <1>1, <1>2, <1>3, SweepChanges

\* The sweep starts.
LEMMA SweepStartFacts ==
    ASSUME SweepsOK, RowsKept, NEW s \in Sweeps, JudgeContest(s)
    PROVE  /\ SweepsOK'
           /\ sweep'[s].pc = "list" /\ sweep'[s].listed = sweep[s].listed
           /\ sweep'[s].left = sweep[s].left
           /\ \A t \in Sweeps \ {s} : sweep'[t] = sweep[t]
<1> DEFINE w == [sweep[s] EXCEPT !.pc = "list"]
<1>1. sweep[s] \in Judge /\ SweepCarries(sweep[s], DOMAIN rows)
  BY DEF SweepsOK
<1>2. w \in Judge /\ w.listed = sweep[s].listed /\ w.left = sweep[s].left /\ w.pc = "list"
  BY <1>1 DEF Judge
<1>3. SweepCarries(w, DOMAIN rows')
  BY <1>1, <1>2 DEF SweepCarries, RowsKept
<1>4. sweep' = [sweep EXCEPT ![s] = w]
  BY DEF JudgeContest, SweepsOK
<1> HIDE DEF w
<1> QED
  BY <1>2, <1>3, <1>4, SweepChanges

\* ListPendingByContest.
LEMMA ListFacts ==
    ASSUME RowsOK, SweepsOK, RowsKept, NEW s \in Sweeps, List(s)
    PROVE  /\ SweepsOK'
           /\ sweep'[s].pc = "void" /\ sweep'[s].listed = ListPendingByContest
           /\ sweep'[s].left = ListPendingByContest
           /\ \A t \in Sweeps \ {s} : sweep'[t] = sweep[t]
<1> DEFINE P == ListPendingByContest
<1>a. P \in SUBSET Nat /\ P \subseteq DOMAIN rows
  BY DEF ListPendingByContest, RowsOK
<1> HIDE DEF P
<1> DEFINE w == [sweep[s] EXCEPT !.pc = "void", !.listed = P, !.left = P]
<1>1. sweep[s] \in Judge
  BY DEF SweepsOK
<1>2. w \in Judge /\ w.listed = P /\ w.left = P /\ w.pc = "void"
  BY <1>1, <1>a DEF Judge
<1>3. sweep' = [sweep EXCEPT ![s] = w]
  BY DEF List, SweepsOK, P
<1> HIDE DEF w
<1>4. SweepCarries(w, DOMAIN rows')
  BY <1>2, <1>a DEF SweepCarries, RowsKept
<1>5. SweepsOK' /\ sweep'[s] = w /\ \A t \in Sweeps \ {s} : sweep'[t] = sweep[t]
  BY <1>2, <1>3, <1>4, SweepChanges
<1> QED
  BY <1>2, <1>5 DEF P

\* The sweep goes on with the ones to judge.
LEMMA VoidFacts ==
    ASSUME SweepsOK, RowsKept, NEW s \in Sweeps, Void(s)
    PROVE  /\ SweepsOK'
           /\ sweep[s].pc = "void" /\ MarkSuperseded(sweep[s].listed \ ToJudge(s))
           /\ sweep'[s].pc = "dispatch" /\ sweep'[s].listed = sweep[s].listed
           /\ sweep'[s].left = ToJudge(s)
           /\ \A t \in Sweeps \ {s} : sweep'[t] = sweep[t]
<1> DEFINE L == ToJudge(s)
<1>1. sweep[s] \in Judge /\ SweepCarries(sweep[s], DOMAIN rows)
  BY DEF SweepsOK
<1>2. L \subseteq sweep[s].listed
  BY DEF ToJudge, splitLatestPerProblem
<1>3. L \in SUBSET Nat
  BY <1>1, <1>2 DEF Judge
<1>4. /\ sweep[s].pc = "void" /\ MarkSuperseded(sweep[s].listed \ L)
      /\ sweep' = [sweep EXCEPT ![s].pc = "dispatch", ![s].left = L]
  BY DEF Void, ToJudge
<1> HIDE DEF L
<1> DEFINE w == [sweep[s] EXCEPT !.pc = "dispatch", !.left = L]
<1>5. w \in Judge /\ w.listed = sweep[s].listed /\ w.left = L /\ w.pc = "dispatch"
  BY <1>1, <1>3 DEF Judge
<1>6. sweep' = [sweep EXCEPT ![s] = w]
  BY <1>4 DEF SweepsOK
<1> HIDE DEF w
<1>7. SweepCarries(w, DOMAIN rows')
  BY <1>1, <1>2, <1>5 DEF SweepCarries, RowsKept
<1>8. SweepsOK' /\ sweep'[s] = w /\ \A t \in Sweeps \ {s} : sweep'[t] = sweep[t]
  BY <1>5, <1>6, <1>7, SweepChanges
<1> QED
  BY <1>4, <1>5, <1>8 DEF L

\* One turn of the loop: the first of the rest is published, or skipped.
LEMMA DispatchFacts ==
    ASSUME SweepsOK, RowsKept, NEW s \in Sweeps, Dispatch(s)
    PROVE  /\ SweepsOK' /\ sweep[s].pc = "dispatch"
           /\ sweep'[s].pc = "dispatch" /\ sweep'[s].listed = sweep[s].listed
           /\ \A t \in Sweeps \ {s} : sweep'[t] = sweep[t]
           /\ \E i \in sweep[s].left :
                 /\ sweep'[s].left = sweep[s].left \ {i}
                 /\ judging' = judging \/ judging' = judging \cup {i}
                 /\ sweep'[s].skipped = 0
                       => sweep[s].skipped = 0 /\ judging' = judging \cup {i}
<1>1. /\ sweep[s] \in Judge /\ SweepCarries(sweep[s], DOMAIN rows)
      /\ sweep[s].pc = "dispatch"
  BY DEF SweepsOK, Dispatch
<1>2. PICK i \in sweep[s].left :
          \/ /\ judging' = judging \cup {i}
             /\ sweep' = [sweep EXCEPT ![s].left = @ \ {i}]
          \/ /\ judging' = judging \/ judging' = judging \cup {i}
             /\ sweep' = [sweep EXCEPT ![s].left = @ \ {i}, ![s].skipped = @ + 1]
  BY DEF Dispatch, publishJudgeTask, Skipped
<1> DEFINE n == sweep[s].skipped + 1
           v == [sweep[s] EXCEPT !.left = sweep[s].left \ {i}]
           w == [sweep[s] EXCEPT !.left = sweep[s].left \ {i}, !.skipped = n]
<1>a. n \in Nat /\ n # 0 /\ n = sweep[s].skipped + 1
  BY <1>1 DEF Judge
<1> HIDE DEF n
<1>3. /\ v \in Judge /\ v.listed = sweep[s].listed /\ v.left = sweep[s].left \ {i}
      /\ v.pc = "dispatch" /\ v.skipped = sweep[s].skipped
  BY <1>1 DEF Judge
<1>4. /\ w \in Judge /\ w.listed = sweep[s].listed /\ w.left = sweep[s].left \ {i}
      /\ w.pc = "dispatch" /\ w.skipped # 0
  BY <1>1, <1>a DEF Judge
<1>5. \/ sweep' = [sweep EXCEPT ![s] = v] /\ judging' = judging \cup {i}
      \/ /\ sweep' = [sweep EXCEPT ![s] = w]
         /\ judging' = judging \/ judging' = judging \cup {i}
  BY <1>2, <1>a DEF SweepsOK
<1> HIDE DEF v, w
<1>6. SweepCarries(v, DOMAIN rows') /\ SweepCarries(w, DOMAIN rows')
  BY <1>1, <1>3, <1>4 DEF SweepCarries, RowsKept
<1>7. CASE sweep' = [sweep EXCEPT ![s] = v] /\ judging' = judging \cup {i}
  <2>1. SweepsOK' /\ sweep'[s] = v /\ \A t \in Sweeps \ {s} : sweep'[t] = sweep[t]
    BY <1>3, <1>6, <1>7, SweepChanges
  <2> QED
    BY <1>1, <1>2, <1>3, <1>7, <2>1
<1>8. CASE /\ sweep' = [sweep EXCEPT ![s] = w]
           /\ judging' = judging \/ judging' = judging \cup {i}
  <2>1. SweepsOK' /\ sweep'[s] = w /\ \A t \in Sweeps \ {s} : sweep'[t] = sweep[t]
    BY <1>4, <1>6, <1>8, SweepChanges
  <2> QED
    BY <1>1, <1>2, <1>4, <1>8, <2>1
<1> QED
  BY <1>5, <1>7, <1>8

\* A sweep carries ids of rows that exist.
LEMMA SweepsStep ==
    TInv /\ [Next]_vars => SweepsOK'
<1> SUFFICES ASSUME TInv, [Next]_vars PROVE SweepsOK'
  OBVIOUS
<1> USE DEF history
<1>0. RowsOK /\ SweepsOK /\ RowsKept
  BY RowsStep DEF TInv
<1>1. ASSUME NEW r \in Requests, Submit(r) PROVE SweepsOK'
  BY <1>1, <1>0 DEF Submit, SweepsOK, SweepCarries, RowsKept
<1>2. ASSUME NEW r \in Requests, SubmitPractice(r) PROVE SweepsOK'
  BY <1>2, <1>0 DEF SubmitPractice, SweepsOK, SweepCarries, RowsKept
<1>3. ASSUME NEW r \in Requests, Create(r) PROVE SweepsOK'
  BY <1>3, <1>0 DEF Create, SweepsOK, SweepCarries, RowsKept
<1>4. ASSUME NEW r \in Requests, CreateFails(r) PROVE SweepsOK'
  BY <1>4, <1>0 DEF CreateFails, SweepsOK, SweepCarries, RowsKept
<1>5. ASSUME NEW r \in Requests, Defer(r) PROVE SweepsOK'
  BY <1>5, <1>0 DEF Defer, SweepsOK, SweepCarries, RowsKept
<1>6. ASSUME NEW r \in Requests, EnqueueTask(r) PROVE SweepsOK'
  BY <1>6, <1>0 DEF EnqueueTask, SweepsOK, SweepCarries, RowsKept
<1>7. ASSUME NEW r \in Requests, AbortSubmit(r) PROVE SweepsOK'
  BY <1>7, <1>0 DEF AbortSubmit, SweepsOK, SweepCarries, RowsKept
<1>8. ASSUME NEW s \in Sweeps, JudgeContest(s) PROVE SweepsOK'
  BY <1>8, <1>0, SweepStartFacts
<1>9. ASSUME NEW s \in Sweeps, List(s) PROVE SweepsOK'
  BY <1>9, <1>0, ListFacts
<1>10. ASSUME NEW s \in Sweeps, Void(s) PROVE SweepsOK'
  BY <1>10, <1>0, VoidFacts
<1>11. ASSUME NEW s \in Sweeps, VoidFails(s) PROVE SweepsOK'
  BY <1>11, <1>0, SweepEndFacts DEF VoidFails
<1>12. ASSUME NEW s \in Sweeps, Dispatch(s) PROVE SweepsOK'
  BY <1>12, <1>0, DispatchFacts
<1>13. ASSUME NEW s \in Sweeps, JudgeContestReturns(s) PROVE SweepsOK'
  BY <1>13, <1>0, SweepEndFacts DEF JudgeContestReturns
<1>14. ASSUME NEW s \in Sweeps, AbortSweep(s) PROVE SweepsOK'
  BY <1>14, <1>0, SweepEndFacts DEF AbortSweep
<1>15. ASSUME NEW i \in Ids, Update(i) PROVE SweepsOK'
  BY <1>15, <1>0 DEF Update, SweepsOK, SweepCarries, RowsKept
<1>16. ASSUME NEW i \in Ids, Rank(i) PROVE SweepsOK'
  BY <1>16, <1>0 DEF Rank, SweepsOK, SweepCarries, RowsKept
<1>17. CASE Tick
  BY <1>17, <1>0 DEF Tick, SweepsOK, SweepCarries, RowsKept
<1>18. CASE UNCHANGED vars
  BY <1>18, <1>0 DEF vars, SweepsOK, SweepCarries, RowsKept
<1> QED
  BY <1>1, <1>2, <1>3, <1>4, <1>5, <1>6, <1>7, <1>8, <1>9, <1>10, <1>11, <1>12, <1>13,
     <1>14, <1>15, <1>16, <1>17, <1>18 DEF Next

\* Only rows that exist are judged, withheld or settled.
LEMMA RefsStep ==
    TInv /\ [Next]_vars => RefsOK'
<1> SUFFICES ASSUME TInv, [Next]_vars PROVE RefsOK'
  OBVIOUS
<1> USE DEF history
<1>0. RowsOK /\ RefsOK /\ RequestsOK /\ SweepsOK /\ RowsKept
  BY RowsStep DEF TInv
<1>1. ASSUME NEW r \in Requests, Submit(r) PROVE RefsOK'
  BY <1>1, <1>0 DEF Submit, RefsOK, RowsKept
<1>2. ASSUME NEW r \in Requests, SubmitPractice(r) PROVE RefsOK'
  BY <1>2, <1>0 DEF SubmitPractice, RefsOK, RowsKept
<1>3. ASSUME NEW r \in Requests, Create(r) PROVE RefsOK'
  <2>1. Len(rows) + 1 \in DOMAIN rows'
    BY <1>0, <1>3, InsertFacts DEF Create, RequestsOK, RequestCarries
  <2> QED
    BY <1>3, <1>0, <2>1 DEF Create, Insert, Unheld, RefsOK, RowsKept
<1>4. ASSUME NEW r \in Requests, CreateFails(r) PROVE RefsOK'
  <2>1. Len(rows) + 1 \in DOMAIN rows'
    BY <1>0, <1>4, InsertFacts DEF CreateFails, RequestsOK, RequestCarries
  <2> QED
    BY <1>4, <1>0, <2>1 DEF CreateFails, Insert, Unheld, RefsOK, RowsKept
<1>5. ASSUME NEW r \in Requests, Defer(r) PROVE RefsOK'
  <2>1. req[r].id \in DOMAIN rows
    BY <1>0, <1>5 DEF Defer, RequestsOK, RequestCarries
  <2>2. /\ UNCHANGED <<rows, judging, settled>>
        /\ unheld' = unheld \/ unheld' = unheld \cup {req[r].id}
    BY <1>5 DEF Defer, Unheld
  <2> QED
    BY <1>0, <2>1, <2>2 DEF RefsOK
<1>6. ASSUME NEW r \in Requests, EnqueueTask(r) PROVE RefsOK'
  <2>1. req[r].id \in DOMAIN rows
    BY <1>0, <1>6 DEF EnqueueTask, RequestsOK, RequestCarries
  <2> QED
    BY <1>6, <1>0, <2>1 DEF EnqueueTask, publishJudgeTask, RefsOK
<1>7. ASSUME NEW r \in Requests, AbortSubmit(r) PROVE RefsOK'
  BY <1>7, <1>0 DEF AbortSubmit, RefsOK, RowsKept
<1>8. ASSUME NEW s \in Sweeps, JudgeContest(s) PROVE RefsOK'
  BY <1>8, <1>0 DEF JudgeContest, RefsOK, RowsKept
<1>9. ASSUME NEW s \in Sweeps, List(s) PROVE RefsOK'
  BY <1>9, <1>0 DEF List, RefsOK, RowsKept
<1>10. ASSUME NEW s \in Sweeps, Void(s) PROVE RefsOK'
  BY <1>10, <1>0 DEF Void, RefsOK, RowsKept
<1>11. ASSUME NEW s \in Sweeps, VoidFails(s) PROVE RefsOK'
  BY <1>11, <1>0 DEF VoidFails, RefsOK, RowsKept
<1>12. ASSUME NEW s \in Sweeps, Dispatch(s) PROVE RefsOK'
  <2>1. PICK i \in sweep[s].left : judging' = judging \/ judging' = judging \cup {i}
    BY <1>12, <1>0, DispatchFacts
  <2>2. i \in DOMAIN rows
    BY <1>0, <2>1 DEF SweepsOK, SweepCarries
  <2> QED
    BY <1>12, <1>0, <2>1, <2>2 DEF Dispatch, RefsOK
<1>13. ASSUME NEW s \in Sweeps, JudgeContestReturns(s) PROVE RefsOK'
  BY <1>13, <1>0 DEF JudgeContestReturns, RefsOK, RowsKept, SweepsOK, SweepCarries
<1>14. ASSUME NEW s \in Sweeps, AbortSweep(s) PROVE RefsOK'
  BY <1>14, <1>0 DEF AbortSweep, RefsOK, RowsKept
<1>15. ASSUME NEW i \in Ids, Update(i) PROVE RefsOK'
  BY <1>15, <1>0 DEF Update, RefsOK, RowsKept
<1>16. ASSUME NEW i \in Ids, Rank(i) PROVE RefsOK'
  BY <1>16, <1>0 DEF Rank, RefsOK, RowsKept
<1>17. CASE Tick
  BY <1>17, <1>0 DEF Tick, RefsOK, RowsKept
<1>18. CASE UNCHANGED vars
  BY <1>18, <1>0 DEF vars, RefsOK, RowsKept
<1> QED
  BY <1>1, <1>2, <1>3, <1>4, <1>5, <1>6, <1>7, <1>8, <1>9, <1>10, <1>11, <1>12, <1>13,
     <1>14, <1>15, <1>16, <1>17, <1>18 DEF Next

\* OIStrategy.Apply gives an entry, with the score of the submission or the old one.
LEMMA ApplyFacts ==
    ASSUME NEW i \in Ids, NEW prev \in Entry
    PROVE  /\ Apply(i, prev) \in Entry
           /\ \/ Apply(i, prev).DisplayScore = Score[i]
              \/ Apply(i, prev) = prev /\ ~(Score[i] > prev.DisplayScore)
<1>1. Score[i] \in Nat /\ i \in Nat
  BY OiAssumption DEF Ids
<1>2. (prev.Accepted \/ Score[i] > 0) \in BOOLEAN
  OBVIOUS
<1> DEFINE a == prev.Accepted \/ Score[i] > 0
           e == [DisplayScore |-> Score[i], BestSubmitTime |-> i, Accepted |-> a]
<1> HIDE DEF a
<1>3. a \in BOOLEAN
  BY <1>2 DEF a
<1>4. e \in Entry /\ e.DisplayScore = Score[i]
  BY <1>1, <1>3 DEF Entry
<1>5. Apply(i, prev) = IF strict \/ Score[i] > prev.DisplayScore THEN e ELSE prev
  BY DEF Apply, a
<1> HIDE DEF e
<1> QED
  BY <1>4, <1>5

\* The entry of the cell of i is made or replaced; the others stay.
LEMMA RankFacts ==
    ASSUME BoardOK, RowsOK, RefsOK, NEW i \in Ids, Rank(i)
    PROVE  /\ i \in judging /\ rows[i].contest /\ IsBlindJudged /\ rows[i].cell \in Cells
           /\ DOMAIN board' = DOMAIN board \cup {rows[i].cell}
           /\ \A c \in DOMAIN board \ {rows[i].cell} : board'[c] = board[c]
           /\ board'[rows[i].cell] \in Entry
           /\ \/ board'[rows[i].cell].DisplayScore = Score[i]
              \/ rows[i].cell \in DOMAIN board /\ board'[rows[i].cell] = board[rows[i].cell]
<1> DEFINE none == [DisplayScore |-> 0, BestSubmitTime |-> 0, Accepted |-> FALSE]
           c    == rows[i].cell
           prev == IF c \in DOMAIN board THEN board[c] ELSE none
<1>1. i \in judging /\ i \in DOMAIN rows /\ rows[i].contest /\ IsBlindJudged
  BY DEF Rank, RefsOK
<1>a. rows[i] \in Row
  BY <1>1 DEF RowsOK
<1>2. c \in Cells
  BY <1>a DEF Row
<1>3. none \in Entry /\ none.DisplayScore = 0
  BY DEF Entry
<1>4. board' = [d \in DOMAIN board \cup {c} |-> IF d = c THEN Apply(i, prev) ELSE board[d]]
  BY DEF Rank
<1> HIDE DEF none, c
<1>5. prev \in Entry
  BY <1>3 DEF BoardOK
<1>6. \/ Apply(i, prev).DisplayScore = Score[i]
      \/ Apply(i, prev) = prev /\ ~(Score[i] > prev.DisplayScore)
  BY <1>5, ApplyFacts
<1>7. Apply(i, prev) \in Entry
  BY <1>5, ApplyFacts
<1>8. \/ Apply(i, prev).DisplayScore = Score[i]
      \/ c \in DOMAIN board /\ Apply(i, prev) = board[c]
  <2>1. CASE c \in DOMAIN board
    BY <1>6, <2>1
  <2>2. CASE c \notin DOMAIN board
    <3>1. prev = none
      BY <2>2
    <3>2. Score[i] \in Nat
      BY OiAssumption DEF Ids
    <3> QED
      BY <1>3, <1>6, <3>1, <3>2
  <2> QED
    BY <2>1, <2>2
<1> HIDE DEF prev
<1> QED
  BY <1>1, <1>2, <1>4, <1>7, <1>8 DEF c

\* The entries of the board.
LEMMA BoardStep ==
    TInv /\ [Next]_vars => BoardOK'
<1> SUFFICES ASSUME TInv, [Next]_vars PROVE BoardOK'
  OBVIOUS
<1> USE DEF history
<1>0. RowsOK /\ RefsOK /\ BoardOK
  BY DEF TInv
<1>1. ASSUME NEW r \in Requests, Submit(r) PROVE BoardOK'
  BY <1>1, <1>0 DEF Submit, BoardOK
<1>2. ASSUME NEW r \in Requests, SubmitPractice(r) PROVE BoardOK'
  BY <1>2, <1>0 DEF SubmitPractice, BoardOK
<1>3. ASSUME NEW r \in Requests, Create(r) PROVE BoardOK'
  BY <1>3, <1>0 DEF Create, BoardOK
<1>4. ASSUME NEW r \in Requests, CreateFails(r) PROVE BoardOK'
  BY <1>4, <1>0 DEF CreateFails, BoardOK
<1>5. ASSUME NEW r \in Requests, Defer(r) PROVE BoardOK'
  BY <1>5, <1>0 DEF Defer, BoardOK
<1>6. ASSUME NEW r \in Requests, EnqueueTask(r) PROVE BoardOK'
  BY <1>6, <1>0 DEF EnqueueTask, BoardOK
<1>7. ASSUME NEW r \in Requests, AbortSubmit(r) PROVE BoardOK'
  BY <1>7, <1>0 DEF AbortSubmit, BoardOK
<1>8. ASSUME NEW s \in Sweeps, JudgeContest(s) PROVE BoardOK'
  BY <1>8, <1>0 DEF JudgeContest, BoardOK
<1>9. ASSUME NEW s \in Sweeps, List(s) PROVE BoardOK'
  BY <1>9, <1>0 DEF List, BoardOK
<1>10. ASSUME NEW s \in Sweeps, Void(s) PROVE BoardOK'
  BY <1>10, <1>0 DEF Void, BoardOK
<1>11. ASSUME NEW s \in Sweeps, VoidFails(s) PROVE BoardOK'
  BY <1>11, <1>0 DEF VoidFails, BoardOK
<1>12. ASSUME NEW s \in Sweeps, Dispatch(s) PROVE BoardOK'
  BY <1>12, <1>0 DEF Dispatch, BoardOK
<1>13. ASSUME NEW s \in Sweeps, JudgeContestReturns(s) PROVE BoardOK'
  BY <1>13, <1>0 DEF JudgeContestReturns, BoardOK
<1>14. ASSUME NEW s \in Sweeps, AbortSweep(s) PROVE BoardOK'
  BY <1>14, <1>0 DEF AbortSweep, BoardOK
<1>15. ASSUME NEW i \in Ids, Update(i) PROVE BoardOK'
  BY <1>15, <1>0 DEF Update, BoardOK
<1>16. ASSUME NEW i \in Ids, Rank(i) PROVE BoardOK'
  BY <1>16, <1>0, RankFacts DEF BoardOK
<1>17. CASE Tick
  BY <1>17, <1>0 DEF Tick, BoardOK
<1>18. CASE UNCHANGED vars
  BY <1>18, <1>0 DEF vars, BoardOK
<1> QED
  BY <1>1, <1>2, <1>3, <1>4, <1>5, <1>6, <1>7, <1>8, <1>9, <1>10, <1>11, <1>12, <1>13,
     <1>14, <1>15, <1>16, <1>17, <1>18 DEF Next

\* A request leaves the fresh ones for good.
LEMMA FreshShrinks ==
    ASSUME RowsOK, OneRowEach, Fresh' \subseteq Fresh, Len(rows') = Len(rows)
    PROVE  OneRowEach'
<1>1. IsFiniteSet(Fresh)
  BY OiAssumption, FS_Subset DEF Fresh
<1>2. /\ Cardinality(Fresh') <= Cardinality(Fresh)
      /\ Cardinality(Fresh) \in Nat /\ Cardinality(Fresh') \in Nat
  BY <1>1, FS_Subset, FS_CardinalityType
<1>3. Cardinality(Requests) \in Nat /\ Len(rows) \in Nat
  BY OiAssumption, FS_CardinalityType DEF RowsOK
<1> QED
  BY <1>2, <1>3 DEF OneRowEach

\* A request that inserts its row is not fresh any more.
LEMMA FreshInserts ==
    ASSUME RowsOK, OneRowEach, NEW r \in Fresh, Fresh' = Fresh \ {r},
           Len(rows') = Len(rows) + 1
    PROVE  OneRowEach'
<1>1. IsFiniteSet(Fresh)
  BY OiAssumption, FS_Subset DEF Fresh
<1>2. /\ Cardinality(Fresh') = Cardinality(Fresh) - 1
      /\ Cardinality(Fresh) \in Nat
  BY <1>1, FS_RemoveElement, FS_CardinalityType
<1>3. Cardinality(Requests) \in Nat /\ Len(rows) \in Nat
  BY OiAssumption, FS_CardinalityType DEF RowsOK
<1> QED
  BY <1>2, <1>3 DEF OneRowEach

\* Every request inserts at most one row.
LEMMA CountStep ==
    TInv /\ [Next]_vars => OneRowEach'
<1> SUFFICES ASSUME TInv, [Next]_vars PROVE OneRowEach'
  OBVIOUS
<1> USE DEF history
<1>0. RowsOK /\ RequestsOK /\ RefsOK /\ OneRowEach
  BY DEF TInv
<1>1. ASSUME NEW r \in Requests, Submit(r) PROVE OneRowEach'
  <2>1. Len(rows') = Len(rows)
    BY <1>1 DEF Submit
  <2>2. req \in [Requests -> Request]
    BY <1>0 DEF RequestsOK
  <2>3. Fresh' \subseteq Fresh
    BY <1>1, <2>2, RequestFacts DEF Submit, Fresh
  <2> QED
    BY <1>0, <2>1, <2>3, FreshShrinks
<1>2. ASSUME NEW r \in Requests, SubmitPractice(r) PROVE OneRowEach'
  <2>1. Len(rows') = Len(rows)
    BY <1>2 DEF SubmitPractice
  <2>2. req \in [Requests -> Request]
    BY <1>0 DEF RequestsOK
  <2>3. Fresh' \subseteq Fresh
    BY <1>2, <2>2, RequestFacts DEF SubmitPractice, Fresh, Request
  <2> QED
    BY <1>0, <2>1, <2>3, FreshShrinks
<1>3. ASSUME NEW r \in Requests, Create(r) PROVE OneRowEach'
  <2>1. Len(rows') = Len(rows) + 1
    BY <1>0, <1>3, InsertFacts DEF Create, RequestsOK, RequestCarries
  <2>2. req \in [Requests -> Request]
    BY <1>0 DEF RequestsOK
  <2>3. r \in Fresh /\ Fresh' = Fresh \ {r}
    BY <1>3, <2>2, RequestFacts DEF Create, Fresh, Request
  <2> QED
    BY <1>0, <2>1, <2>3, FreshInserts
<1>4. ASSUME NEW r \in Requests, CreateFails(r) PROVE OneRowEach'
  <2>1. Len(rows') = Len(rows) + 1
    BY <1>0, <1>4, InsertFacts DEF CreateFails, RequestsOK, RequestCarries
  <2>2. req \in [Requests -> Request]
    BY <1>0 DEF RequestsOK
  <2>3. r \in Fresh /\ Fresh' = Fresh \ {r}
    BY <1>4, <2>2, RequestFacts DEF CreateFails, Fresh, RequestEnds
  <2> QED
    BY <1>0, <2>1, <2>3, FreshInserts
<1>5. ASSUME NEW r \in Requests, Defer(r) PROVE OneRowEach'
  <2>1. Len(rows') = Len(rows)
    BY <1>5 DEF Defer
  <2>2. req \in [Requests -> Request]
    BY <1>0 DEF RequestsOK
  <2>3. Fresh' \subseteq Fresh
    BY <1>5, <2>2, RequestFacts DEF Defer, Fresh, Request
  <2> QED
    BY <1>0, <2>1, <2>3, FreshShrinks
<1>6. ASSUME NEW r \in Requests, EnqueueTask(r) PROVE OneRowEach'
  <2>1. Len(rows') = Len(rows)
    BY <1>6 DEF EnqueueTask
  <2>2. req \in [Requests -> Request]
    BY <1>0 DEF RequestsOK
  <2>3. Fresh' \subseteq Fresh
    BY <1>6, <2>2, RequestFacts DEF EnqueueTask, Fresh, RequestEnds
  <2> QED
    BY <1>0, <2>1, <2>3, FreshShrinks
<1>7. ASSUME NEW r \in Requests, AbortSubmit(r) PROVE OneRowEach'
  <2>1. Len(rows') = Len(rows)
    BY <1>7 DEF AbortSubmit
  <2>2. req \in [Requests -> Request]
    BY <1>0 DEF RequestsOK
  <2>3. Fresh' \subseteq Fresh
    BY <1>7, <2>2, RequestFacts DEF AbortSubmit, Fresh, RequestEnds
  <2> QED
    BY <1>0, <2>1, <2>3, FreshShrinks
<1>8. ASSUME NEW s \in Sweeps, JudgeContest(s) PROVE OneRowEach'
  BY <1>8, <1>0 DEF JudgeContest, OneRowEach, Fresh
<1>9. ASSUME NEW s \in Sweeps, List(s) PROVE OneRowEach'
  BY <1>9, <1>0 DEF List, OneRowEach, Fresh
<1>10. ASSUME NEW s \in Sweeps, Void(s) PROVE OneRowEach'
  <2>1. Len(rows') = Len(rows) /\ Fresh' = Fresh
    BY <1>0, <1>10, MarkFacts DEF Void, Fresh
  <2> QED
    BY <1>0, <2>1, FreshShrinks
<1>11. ASSUME NEW s \in Sweeps, VoidFails(s) PROVE OneRowEach'
  <2>1. Len(rows') = Len(rows) /\ Fresh' = Fresh
    BY <1>0, <1>11, MarkFacts DEF VoidFails, Fresh
  <2> QED
    BY <1>0, <2>1, FreshShrinks
<1>12. ASSUME NEW s \in Sweeps, Dispatch(s) PROVE OneRowEach'
  BY <1>12, <1>0 DEF Dispatch, OneRowEach, Fresh
<1>13. ASSUME NEW s \in Sweeps, JudgeContestReturns(s) PROVE OneRowEach'
  BY <1>13, <1>0 DEF JudgeContestReturns, OneRowEach, Fresh
<1>14. ASSUME NEW s \in Sweeps, AbortSweep(s) PROVE OneRowEach'
  BY <1>14, <1>0 DEF AbortSweep, OneRowEach, Fresh
<1>15. ASSUME NEW i \in Ids, Update(i) PROVE OneRowEach'
  <2>1. Len(rows') = Len(rows) /\ Fresh' = Fresh
    BY <1>0, <1>15, UpdateFacts DEF Update, Fresh, RefsOK
  <2> QED
    BY <1>0, <2>1, FreshShrinks
<1>16. ASSUME NEW i \in Ids, Rank(i) PROVE OneRowEach'
  BY <1>16, <1>0 DEF Rank, OneRowEach, Fresh
<1>17. CASE Tick
  BY <1>17, <1>0 DEF Tick, OneRowEach, Fresh
<1>18. CASE UNCHANGED vars
  BY <1>18, <1>0 DEF vars, OneRowEach, Fresh
<1> QED
  BY <1>1, <1>2, <1>3, <1>4, <1>5, <1>6, <1>7, <1>8, <1>9, <1>10, <1>11, <1>12, <1>13,
     <1>14, <1>15, <1>16, <1>17, <1>18 DEF Next

\* TInv is inductive.
LEMMA TInvStep == TInv /\ [Next]_vars => TInv'
  BY BasicsStep, RowsStep, RequestsStep, SweepsStep, RefsStep, BoardStep, CountStep DEF TInv

\* The table is empty and no handler runs at first.
LEMMA TInvInit == Init => TInv
<1> SUFFICES ASSUME Init PROVE TInv
  OBVIOUS
<1>1. BasicsOK
  BY OiAssumption DEF Init, BasicsOK
<1>2. RowsOK /\ RefsOK /\ BoardOK
  BY DEF Init, RowsOK, RefsOK, BoardOK
<1>3. RequestsOK
  BY RequestFacts DEF Init, RequestsOK, RequestCarries
<1>4. SweepsOK
  BY SweepFacts DEF Init, SweepsOK, SweepCarries
<1>5. Fresh = Requests
  BY RequestFacts DEF Init, Fresh
<1>6. OneRowEach
  BY <1>5, OiAssumption, FS_CardinalityType DEF Init, OneRowEach
<1> QED
  BY <1>1, <1>2, <1>3, <1>4, <1>6 DEF TInv

\* TypeOK: what handlers and sweeps carry over their calls are rows that exist, and
\* no request inserts twice, whatever fails or is aborted.
THEOREM TypeCorrect == Spec => []TypeOK
<1>1. TInv => TypeOK
  <2> SUFFICES ASSUME TInv PROVE TypeOK
    OBVIOUS
  <2>1. Len(rows) <= Cardinality(Requests)
    <3>1. Cardinality(Fresh) \in Nat
      BY OiAssumption, FS_Subset, FS_CardinalityType DEF Fresh
    <3> QED
      BY <3>1, OiAssumption, FS_CardinalityType DEF TInv, OneRowEach, RowsOK
  <2>2. \A r \in Requests :
            /\ req[r].pc \in {"idle", "create", "defer", "enqueue", "end"}
            /\ req[r].pc \in {"defer", "enqueue"} => req[r].id \in DOMAIN rows
    BY DEF TInv, RequestsOK, RequestCarries, Request
  <2>3. \A s \in Sweeps :
            /\ sweep[s].pc \in {"idle", "list", "void", "dispatch", "end"}
            /\ sweep[s].left \subseteq sweep[s].listed
            /\ sweep[s].listed \subseteq DOMAIN rows
    BY DEF TInv, SweepsOK, SweepCarries, Judge
  <2> QED
    BY <2>1, <2>2, <2>3 DEF TInv, TypeOK, BasicsOK, RowsOK, RefsOK, BoardOK
<1> QED
  BY <1>1, TInvInit, TInvStep, PTL DEF Spec

\* JudgedStaysJudged: MarkSuperseded and every other step keep a verdict.
THEOREM VerdictsStay == Spec => JudgedStaysJudged
<1>1. TInv /\ [Next]_vars
        => [\A i \in DOMAIN rows : rows[i].status = "Judged" => rows'[i].status = "Judged"]_vars
  BY RowsStep DEF RowsKept
<1> QED
  BY <1>1, TInvInit, TInvStep, PTL DEF Spec, JudgedStaysJudged

\* No step takes a task back.
LEMMA TasksStay ==
    TInv /\ [Next]_vars => judging \subseteq judging'
<1> SUFFICES ASSUME TInv, [Next]_vars PROVE judging \subseteq judging'
  OBVIOUS
<1> USE DEF history
<1>1. ASSUME NEW r \in Requests, Submit(r) PROVE judging \subseteq judging'
  BY <1>1 DEF Submit
<1>2. ASSUME NEW r \in Requests, SubmitPractice(r) PROVE judging \subseteq judging'
  BY <1>2 DEF SubmitPractice
<1>3. ASSUME NEW r \in Requests, Create(r) PROVE judging \subseteq judging'
  BY <1>3 DEF Create
<1>4. ASSUME NEW r \in Requests, CreateFails(r) PROVE judging \subseteq judging'
  BY <1>4 DEF CreateFails
<1>5. ASSUME NEW r \in Requests, Defer(r) PROVE judging \subseteq judging'
  BY <1>5 DEF Defer
<1>6. ASSUME NEW r \in Requests, EnqueueTask(r) PROVE judging \subseteq judging'
  BY <1>6 DEF EnqueueTask, publishJudgeTask
<1>7. ASSUME NEW r \in Requests, AbortSubmit(r) PROVE judging \subseteq judging'
  BY <1>7 DEF AbortSubmit
<1>8. ASSUME NEW s \in Sweeps, JudgeContest(s) PROVE judging \subseteq judging'
  BY <1>8 DEF JudgeContest
<1>9. ASSUME NEW s \in Sweeps, List(s) PROVE judging \subseteq judging'
  BY <1>9 DEF List
<1>10. ASSUME NEW s \in Sweeps, Void(s) PROVE judging \subseteq judging'
  BY <1>10 DEF Void
<1>11. ASSUME NEW s \in Sweeps, VoidFails(s) PROVE judging \subseteq judging'
  BY <1>11 DEF VoidFails
<1>12. ASSUME NEW s \in Sweeps, Dispatch(s) PROVE judging \subseteq judging'
  BY <1>12 DEF Dispatch, publishJudgeTask
<1>13. ASSUME NEW s \in Sweeps, JudgeContestReturns(s) PROVE judging \subseteq judging'
  BY <1>13 DEF JudgeContestReturns
<1>14. ASSUME NEW s \in Sweeps, AbortSweep(s) PROVE judging \subseteq judging'
  BY <1>14 DEF AbortSweep
<1>15. ASSUME NEW i \in Ids, Update(i) PROVE judging \subseteq judging'
  BY <1>15 DEF Update
<1>16. ASSUME NEW i \in Ids, Rank(i) PROVE judging \subseteq judging'
  BY <1>16 DEF Rank
<1>17. CASE Tick
  BY <1>17 DEF Tick
<1>18. CASE UNCHANGED vars
  BY <1>18 DEF vars
<1> QED
  BY <1>1, <1>2, <1>3, <1>4, <1>5, <1>6, <1>7, <1>8, <1>9, <1>10, <1>11, <1>12, <1>13,
     <1>14, <1>15, <1>16, <1>17, <1>18 DEF Next

\* What a sweep lists it voids in one step or comes to in its loop.
LEMMA SettledStep ==
    TInv /\ Settled /\ [Next]_vars => Settled'
<1> SUFFICES ASSUME TInv /\ Settled, [Next]_vars PROVE Settled'
  OBVIOUS
<1> USE DEF history
<1>0. /\ TInv /\ TInv' /\ RowsKept /\ judging \subseteq judging'
      /\ SweepSettles /\ SweepCovers
  BY RowsStep, TInvStep, TasksStay DEF Settled
<1>a. /\ RowsOK /\ RequestsOK /\ SweepsOK /\ RefsOK
      /\ \A t \in Sweeps : sweep[t].listed \subseteq DOMAIN rows
  BY <1>0 DEF TInv, SweepsOK, SweepCarries
<1>b. settled' = settled => SweepSettles'
  BY <1>0, <1>a DEF SweepSettles, RowsKept, RefsOK
<1>c. sweep' = sweep => SweepCovers'
  BY <1>0, <1>a DEF SweepCovers, RowsKept
<1>d. ASSUME NEW t \in Sweeps, sweep'[t] = sweep[t]
      PROVE  sweep'[t].pc = "dispatch" /\ sweep'[t].skipped = 0 =>
                 \A i \in sweep'[t].listed \ sweep'[t].left :
                     rows'[i].status = "Pending" => i \in judging'
  BY <1>0, <1>a, <1>d DEF SweepCovers, RowsKept
<1>1. ASSUME NEW r \in Requests, Submit(r) PROVE Settled'
  BY <1>1, <1>b, <1>c DEF Submit, Settled
<1>2. ASSUME NEW r \in Requests, SubmitPractice(r) PROVE Settled'
  BY <1>2, <1>b, <1>c DEF SubmitPractice, Settled
<1>3. ASSUME NEW r \in Requests, Create(r) PROVE Settled'
  BY <1>3, <1>b, <1>c DEF Create, Settled
<1>4. ASSUME NEW r \in Requests, CreateFails(r) PROVE Settled'
  BY <1>4, <1>b, <1>c DEF CreateFails, Settled
<1>5. ASSUME NEW r \in Requests, Defer(r) PROVE Settled'
  BY <1>5, <1>b, <1>c DEF Defer, Settled
<1>6. ASSUME NEW r \in Requests, EnqueueTask(r) PROVE Settled'
  BY <1>6, <1>b, <1>c DEF EnqueueTask, Settled
<1>7. ASSUME NEW r \in Requests, AbortSubmit(r) PROVE Settled'
  BY <1>7, <1>b, <1>c DEF AbortSubmit, Settled
<1>8. ASSUME NEW s \in Sweeps, JudgeContest(s) PROVE Settled'
  <2>1. sweep'[s].pc # "dispatch" /\ \A t \in Sweeps \ {s} : sweep'[t] = sweep[t]
    BY <1>8, <1>0, <1>a, SweepStartFacts
  <2> QED
    BY <1>8, <1>b, <1>d, <2>1 DEF JudgeContest, Settled, SweepCovers
<1>9. ASSUME NEW s \in Sweeps, List(s) PROVE Settled'
  <2>1. sweep'[s].pc # "dispatch" /\ \A t \in Sweeps \ {s} : sweep'[t] = sweep[t]
    BY <1>9, <1>0, <1>a, ListFacts
  <2> QED
    BY <1>9, <1>b, <1>d, <2>1 DEF List, Settled, SweepCovers
<1>10. ASSUME NEW s \in Sweeps, Void(s) PROVE Settled'
  <2>1. /\ MarkSuperseded(sweep[s].listed \ ToJudge(s))
        /\ sweep'[s].listed = sweep[s].listed /\ sweep'[s].left = ToJudge(s)
        /\ \A t \in Sweeps \ {s} : sweep'[t] = sweep[t]
    BY <1>10, <1>0, <1>a, VoidFacts
  <2>2. \A i \in sweep[s].listed \ ToJudge(s) : rows'[i].status # "Pending"
    BY <1>a, <2>1, MarkFacts
  <2> QED
    BY <1>10, <1>b, <1>d, <2>1, <2>2 DEF Void, Settled, SweepCovers
<1>11. ASSUME NEW s \in Sweeps, VoidFails(s) PROVE Settled'
  <2>1. sweep'[s].pc # "dispatch" /\ \A t \in Sweeps \ {s} : sweep'[t] = sweep[t]
    BY <1>11, <1>0, <1>a, SweepEndFacts DEF VoidFails
  <2> QED
    BY <1>11, <1>b, <1>d, <2>1 DEF VoidFails, Settled, SweepCovers
<1>12. ASSUME NEW s \in Sweeps, Dispatch(s) PROVE Settled'
  <2>1. /\ sweep[s].pc = "dispatch" /\ sweep'[s].listed = sweep[s].listed
        /\ \A t \in Sweeps \ {s} : sweep'[t] = sweep[t]
    BY <1>12, <1>0, <1>a, DispatchFacts
  <2>2. PICK i \in sweep[s].left :
            /\ sweep'[s].left = sweep[s].left \ {i}
            /\ sweep'[s].skipped = 0
                  => sweep[s].skipped = 0 /\ judging' = judging \cup {i}
    BY <1>12, <1>0, <1>a, DispatchFacts
  <2>3. UNCHANGED <<rows, settled>>
    BY <1>12 DEF Dispatch
  <2>4. sweep'[s].skipped = 0 =>
            \A j \in sweep'[s].listed \ sweep'[s].left :
                rows'[j].status = "Pending" => j \in judging'
    BY <1>0, <2>1, <2>2, <2>3 DEF SweepCovers
  <2>5. SweepCovers'
    BY <1>d, <2>1, <2>4 DEF SweepCovers
  <2> QED
    BY <1>b, <2>3, <2>5 DEF Settled
<1>13. ASSUME NEW s \in Sweeps, JudgeContestReturns(s) PROVE Settled'
  <2>1. /\ sweep'[s].pc # "dispatch" /\ \A t \in Sweeps \ {s} : sweep'[t] = sweep[t]
        /\ sweep[s].pc = "dispatch" /\ sweep[s].left = {} /\ UNCHANGED <<rows, judging>>
        /\ settled' = settled
              \/ (sweep[s].skipped = 0 /\ settled' = settled \cup sweep[s].listed)
    BY <1>13, <1>0, <1>a, SweepEndFacts DEF JudgeContestReturns
  <2>2. SweepCovers'
    BY <1>d, <2>1 DEF SweepCovers
  <2>3. SweepSettles'
    BY <1>0, <2>1 DEF SweepSettles, SweepCovers
  <2> QED
    BY <2>2, <2>3 DEF Settled
<1>14. ASSUME NEW s \in Sweeps, AbortSweep(s) PROVE Settled'
  <2>1. sweep'[s].pc # "dispatch" /\ \A t \in Sweeps \ {s} : sweep'[t] = sweep[t]
    BY <1>14, <1>0, <1>a, SweepEndFacts DEF AbortSweep
  <2> QED
    BY <1>14, <1>b, <1>d, <2>1 DEF AbortSweep, Settled, SweepCovers
<1>15. ASSUME NEW i \in Ids, Update(i) PROVE Settled'
  BY <1>15, <1>b, <1>c DEF Update, Settled
<1>16. ASSUME NEW i \in Ids, Rank(i) PROVE Settled'
  BY <1>16, <1>b, <1>c DEF Rank, Settled
<1>17. CASE Tick
  BY <1>17, <1>b, <1>c DEF Tick, Settled
<1>18. CASE UNCHANGED vars
  BY <1>18, <1>b, <1>c DEF vars, Settled
<1> QED
  BY <1>1, <1>2, <1>3, <1>4, <1>5, <1>6, <1>7, <1>8, <1>9, <1>10, <1>11, <1>12, <1>13,
     <1>14, <1>15, <1>16, <1>17, <1>18 DEF Next

\* SweepSettles: answered with "skipped": 0, the administrator need not run the sweep
\* again, however many sweeps overlap and whatever the judges write meanwhile.
THEOREM AnswerIsTrue == Spec => []SweepSettles
<1>1. Init => TInv /\ Settled
  BY TInvInit, SweepFacts DEF Init, Settled, SweepSettles, SweepCovers
<1>2. TInv /\ Settled /\ [Next]_vars => (TInv /\ Settled)'
  BY TInvStep, SettledStep
<1>3. TInv /\ Settled => SweepSettles
  BY DEF Settled
<1> QED
  BY <1>1, <1>2, <1>3, PTL DEF Spec

\* EffectiveStatus says "ended" from the end time on, and not before.
LEMMA EndedFacts ==
    ASSUME BasicsOK
    PROVE  /\ EffectiveStatus = "ended" <=> EndTime <= now
           /\ EffectiveStatus = "running" => ~(EndTime <= now)
  BY OiAssumption DEF BasicsOK, EffectiveStatus

\* Onward holds of every step.
LEMMA TimeFlows ==
    TInv /\ [Next]_vars => Onward
<1> SUFFICES ASSUME TInv, [Next]_vars PROVE Onward
  OBVIOUS
<1> USE DEF history
<1>0. BasicsOK /\ EndTime \in Nat /\ now \in Nat
  BY OiAssumption DEF TInv, BasicsOK
<1>1. ASSUME NEW r \in Requests, Submit(r) PROVE Onward
  BY <1>1, <1>0 DEF Submit, BasicsOK, Onward
<1>2. ASSUME NEW r \in Requests, SubmitPractice(r) PROVE Onward
  BY <1>2, <1>0 DEF SubmitPractice, BasicsOK, Onward
<1>3. ASSUME NEW r \in Requests, Create(r) PROVE Onward
  BY <1>3, <1>0 DEF Create, BasicsOK, Onward, Insert, Unheld
<1>4. ASSUME NEW r \in Requests, CreateFails(r) PROVE Onward
  BY <1>4, <1>0 DEF CreateFails, BasicsOK, Onward, Insert, Unheld
<1>5. ASSUME NEW r \in Requests, Defer(r) PROVE Onward
  <2>1. UNCHANGED <<type, strict, now>>
    BY <1>5 DEF Defer
  <2>2. unheld \subseteq unheld'
    BY <1>5 DEF Defer, Unheld
  <2> QED
    BY <2>1, <2>2 DEF Onward
<1>6. ASSUME NEW r \in Requests, EnqueueTask(r) PROVE Onward
  BY <1>6, <1>0 DEF EnqueueTask, BasicsOK, Onward
<1>7. ASSUME NEW r \in Requests, AbortSubmit(r) PROVE Onward
  BY <1>7, <1>0 DEF AbortSubmit, BasicsOK, Onward
<1>8. ASSUME NEW s \in Sweeps, JudgeContest(s) PROVE Onward
  BY <1>8, <1>0 DEF JudgeContest, BasicsOK, Onward
<1>9. ASSUME NEW s \in Sweeps, List(s) PROVE Onward
  BY <1>9, <1>0 DEF List, BasicsOK, Onward
<1>10. ASSUME NEW s \in Sweeps, Void(s) PROVE Onward
  BY <1>10, <1>0 DEF Void, BasicsOK, Onward
<1>11. ASSUME NEW s \in Sweeps, VoidFails(s) PROVE Onward
  BY <1>11, <1>0 DEF VoidFails, BasicsOK, Onward
<1>12. ASSUME NEW s \in Sweeps, Dispatch(s) PROVE Onward
  BY <1>12, <1>0 DEF Dispatch, BasicsOK, Onward
<1>13. ASSUME NEW s \in Sweeps, JudgeContestReturns(s) PROVE Onward
  BY <1>13, <1>0 DEF JudgeContestReturns, BasicsOK, Onward
<1>14. ASSUME NEW s \in Sweeps, AbortSweep(s) PROVE Onward
  BY <1>14, <1>0 DEF AbortSweep, BasicsOK, Onward
<1>15. ASSUME NEW i \in Ids, Update(i) PROVE Onward
  BY <1>15, <1>0 DEF Update, BasicsOK, Onward
<1>16. ASSUME NEW i \in Ids, Rank(i) PROVE Onward
  BY <1>16, <1>0 DEF Rank, BasicsOK, Onward
<1>17. CASE Tick
  BY <1>17, <1>0 DEF Tick, BasicsOK, Onward
<1>18. CASE UNCHANGED vars
  BY <1>18, <1>0 DEF vars, BasicsOK, Onward
<1> QED
  BY <1>1, <1>2, <1>3, <1>4, <1>5, <1>6, <1>7, <1>8, <1>9, <1>10, <1>11, <1>12, <1>13,
     <1>14, <1>15, <1>16, <1>17, <1>18 DEF Next

\* A handler knows the contest of its row, and one that goes on to the judge in a
\* blind contest has found it over or could not load it.
LEMMA RequestKnowsStep ==
    HInv /\ [Next]_vars => RequestKnows'
<1> SUFFICES ASSUME HInv, [Next]_vars PROVE RequestKnows'
  OBVIOUS
<1> USE DEF history
<1>0. /\ RowsOK /\ RequestsOK /\ SweepsOK /\ RefsOK /\ BoardOK /\ BasicsOK
      /\ RequestKnows /\ SweepKnows /\ JudgedKnows /\ BoardKnows
  BY DEF HInv, TInv
<1>a. /\ RowsKept /\ judging \subseteq judging'
      /\ type' = type /\ (EndTime <= now => EndTime <= now') /\ unheld \subseteq unheld'
  BY RowsStep, TasksStay, TimeFlows DEF HInv, Onward
<1>b. ASSUME NEW p \in Requests, req'[p] = req[p]
      PROVE  /\ req'[p].pc \in {"defer", "enqueue"} => rows'[req'[p].id].contest = req'[p].contest
             /\ req'[p].pc = "enqueue" /\ IsBlindJudged' /\ req'[p].contest
                   => req'[p].id \in unheld'
  BY <1>0, <1>a, <1>b DEF RequestKnows, RequestsOK, RequestCarries, RowsKept, IsBlindJudged
<1>c. req' = req => RequestKnows'
  BY <1>b DEF RequestKnows
<1>1. ASSUME NEW r \in Requests, Submit(r) PROVE RequestKnows'
  <2>1. /\ req'[r].pc \in {"create", "end"}
        /\ \A p \in Requests \ {r} : req'[p] = req[p]
    BY <1>0, <1>1, RequestFacts DEF Submit, RequestsOK
  <2> QED
    BY <1>b, <2>1 DEF RequestKnows
<1>2. ASSUME NEW r \in Requests, SubmitPractice(r) PROVE RequestKnows'
  <2>1. req'[r].pc = "create" /\ \A p \in Requests \ {r} : req'[p] = req[p]
    BY <1>0, <1>2 DEF SubmitPractice, RequestsOK, Request
  <2> QED
    BY <1>b, <2>1 DEF RequestKnows
<1>3. ASSUME NEW r \in Requests, Create(r) PROVE RequestKnows'
  <2>1. /\ req[r] \in Request /\ req[r].cell \in Cells /\ Insert(r) /\ Len(rows) + 1 \in Nat
        /\ req' = [req EXCEPT ![r].pc = "defer", ![r].id = Len(rows) + 1]
    BY <1>0, <1>3 DEF Create, RequestsOK, RequestCarries, RowsOK
  <2> DEFINE q == [req[r] EXCEPT !.pc = "defer", !.id = Len(rows) + 1]
  <2>2. req' = [req EXCEPT ![r] = q]
    BY <1>0, <2>1 DEF RequestsOK
  <2>3. q.pc = "defer" /\ q.id = Len(rows) + 1 /\ q.contest = req[r].contest
    BY <2>1, MoveToDefer
  <2> HIDE DEF q
  <2>4. req'[r] = q /\ \A p \in Requests \ {r} : req'[p] = req[p]
    BY <1>0, <2>2 DEF RequestsOK
  <2>5. rows'[Len(rows) + 1].contest = req[r].contest
    BY <1>0, <2>1, InsertFacts
  <2> QED
    BY <1>b, <2>3, <2>4, <2>5 DEF RequestKnows
<1>4. ASSUME NEW r \in Requests, CreateFails(r) PROVE RequestKnows'
  <2>1. req'[r].pc = "end" /\ \A p \in Requests \ {r} : req'[p] = req[p]
    BY <1>0, <1>4, RequestFacts DEF CreateFails, RequestEnds, RequestsOK
  <2> QED
    BY <1>b, <2>1 DEF RequestKnows
<1>5. ASSUME NEW r \in Requests, Defer(r) PROVE RequestKnows'
  <2>1. PICK withhold \in BOOLEAN :
            /\ \/ /\ withhold = deferJudging(req[r].contest)
                  /\ Unheld(req[r].id, EffectiveStatus = "ended")
               \/ /\ ~withhold /\ req[r].contest
                  /\ Unheld(req[r].id, TRUE)
            /\ req' = [req EXCEPT ![r] = IF withhold THEN EndedRequest ELSE [@ EXCEPT !.pc = "enqueue"]]
    BY <1>5 DEF Defer
  <2>2. req[r].pc = "defer" /\ req[r] \in Request /\ UNCHANGED rows
    BY <1>0, <1>5 DEF Defer, RequestsOK
  <2>3. CASE withhold
    <3>1. req'[r].pc = "end" /\ \A p \in Requests \ {r} : req'[p] = req[p]
      BY <1>0, <2>1, <2>3, RequestFacts DEF RequestsOK
    <3> QED
      BY <1>b, <3>1 DEF RequestKnows
  <2>4. CASE ~withhold
    <3> DEFINE q == [req[r] EXCEPT !.pc = "enqueue"]
    <3>1. req' = [req EXCEPT ![r] = q]
      BY <1>0, <2>1, <2>4 DEF RequestsOK
    <3>2. q.pc = "enqueue" /\ q.id = req[r].id /\ q.contest = req[r].contest
      BY <2>2, MoveToEnqueue
    <3> HIDE DEF q
    <3>3. req'[r] = q /\ \A p \in Requests \ {r} : req'[p] = req[p]
      BY <1>0, <3>1 DEF RequestsOK
    <3>4. IsBlindJudged /\ req[r].contest => req[r].id \in unheld'
      BY <2>1, <2>4 DEF Unheld, deferJudging
    <3>5. rows'[req[r].id].contest = req[r].contest
      BY <1>0, <2>2 DEF RequestKnows
    <3>6. IsBlindJudged' = IsBlindJudged
      BY <1>a DEF IsBlindJudged
    <3> QED
      BY <1>b, <3>2, <3>3, <3>4, <3>5, <3>6 DEF RequestKnows
  <2> QED
    BY <2>3, <2>4
<1>6. ASSUME NEW r \in Requests, EnqueueTask(r) PROVE RequestKnows'
  <2>1. req'[r].pc = "end" /\ \A p \in Requests \ {r} : req'[p] = req[p]
    BY <1>0, <1>6, RequestFacts DEF EnqueueTask, RequestEnds, RequestsOK
  <2> QED
    BY <1>b, <2>1 DEF RequestKnows
<1>7. ASSUME NEW r \in Requests, AbortSubmit(r) PROVE RequestKnows'
  <2>1. req'[r].pc = "end" /\ \A p \in Requests \ {r} : req'[p] = req[p]
    BY <1>0, <1>7, RequestFacts DEF AbortSubmit, RequestEnds, RequestsOK
  <2> QED
    BY <1>b, <2>1 DEF RequestKnows
<1>8. ASSUME NEW s \in Sweeps, JudgeContest(s) PROVE RequestKnows'
  BY <1>8, <1>c DEF JudgeContest, RequestKnows
<1>9. ASSUME NEW s \in Sweeps, List(s) PROVE RequestKnows'
  BY <1>9, <1>c DEF List, RequestKnows
<1>10. ASSUME NEW s \in Sweeps, Void(s) PROVE RequestKnows'
  BY <1>10, <1>c DEF Void, RequestKnows
<1>11. ASSUME NEW s \in Sweeps, VoidFails(s) PROVE RequestKnows'
  BY <1>11, <1>c DEF VoidFails, RequestKnows
<1>12. ASSUME NEW s \in Sweeps, Dispatch(s) PROVE RequestKnows'
  BY <1>12, <1>c DEF Dispatch, RequestKnows
<1>13. ASSUME NEW s \in Sweeps, JudgeContestReturns(s) PROVE RequestKnows'
  BY <1>13, <1>c DEF JudgeContestReturns, RequestKnows
<1>14. ASSUME NEW s \in Sweeps, AbortSweep(s) PROVE RequestKnows'
  BY <1>14, <1>c DEF AbortSweep, RequestKnows
<1>15. ASSUME NEW i \in Ids, Update(i) PROVE RequestKnows'
  BY <1>15, <1>c DEF Update, RequestKnows
<1>16. ASSUME NEW i \in Ids, Rank(i) PROVE RequestKnows'
  BY <1>16, <1>c DEF Rank, RequestKnows
<1>17. CASE Tick
  BY <1>17, <1>c DEF Tick, RequestKnows
<1>18. CASE UNCHANGED vars
  BY <1>18, <1>c DEF vars, RequestKnows
<1> QED
  BY <1>1, <1>2, <1>3, <1>4, <1>5, <1>6, <1>7, <1>8, <1>9, <1>10, <1>11, <1>12, <1>13,
     <1>14, <1>15, <1>16, <1>17, <1>18 DEF Next

\* Sweeps run only after the end and list only rows of the contest.
LEMMA SweepKnowsStep ==
    HInv /\ [Next]_vars => SweepKnows'
<1> SUFFICES ASSUME HInv, [Next]_vars PROVE SweepKnows'
  OBVIOUS
<1> USE DEF history
<1>0. /\ RowsOK /\ RequestsOK /\ SweepsOK /\ RefsOK /\ BoardOK /\ BasicsOK
      /\ RequestKnows /\ SweepKnows /\ JudgedKnows /\ BoardKnows
  BY DEF HInv, TInv
<1>a. /\ RowsKept /\ judging \subseteq judging'
      /\ type' = type /\ (EndTime <= now => EndTime <= now') /\ unheld \subseteq unheld'
  BY RowsStep, TasksStay, TimeFlows DEF HInv, Onward
<1>b. ASSUME NEW t \in Sweeps, sweep'[t].listed = sweep[t].listed,
             sweep'[t].pc \in {"list", "void", "dispatch"} => EndTime <= now
      PROVE  /\ sweep'[t].pc \in {"list", "void", "dispatch"} => EndTime <= now'
             /\ \A i \in sweep'[t].listed : rows'[i].contest
  BY <1>0, <1>a, <1>b DEF SweepKnows, SweepsOK, SweepCarries, RowsKept
<1>c. ASSUME NEW t \in Sweeps, sweep'[t] = sweep[t]
      PROVE  /\ sweep'[t].pc \in {"list", "void", "dispatch"} => EndTime <= now'
             /\ \A i \in sweep'[t].listed : rows'[i].contest
  BY <1>0, <1>b, <1>c DEF SweepKnows
<1>d. sweep' = sweep => SweepKnows'
  BY <1>c DEF SweepKnows
<1>1. ASSUME NEW r \in Requests, Submit(r) PROVE SweepKnows'
  BY <1>1, <1>d DEF Submit, SweepKnows
<1>2. ASSUME NEW r \in Requests, SubmitPractice(r) PROVE SweepKnows'
  BY <1>2, <1>d DEF SubmitPractice, SweepKnows
<1>3. ASSUME NEW r \in Requests, Create(r) PROVE SweepKnows'
  BY <1>3, <1>d DEF Create, SweepKnows
<1>4. ASSUME NEW r \in Requests, CreateFails(r) PROVE SweepKnows'
  BY <1>4, <1>d DEF CreateFails, SweepKnows
<1>5. ASSUME NEW r \in Requests, Defer(r) PROVE SweepKnows'
  BY <1>5, <1>d DEF Defer, SweepKnows
<1>6. ASSUME NEW r \in Requests, EnqueueTask(r) PROVE SweepKnows'
  BY <1>6, <1>d DEF EnqueueTask, SweepKnows
<1>7. ASSUME NEW r \in Requests, AbortSubmit(r) PROVE SweepKnows'
  BY <1>7, <1>d DEF AbortSubmit, SweepKnows
<1>8. ASSUME NEW s \in Sweeps, JudgeContest(s) PROVE SweepKnows'
  <2>1. /\ sweep'[s].listed = sweep[s].listed
        /\ \A t \in Sweeps \ {s} : sweep'[t] = sweep[t]
    BY <1>0, <1>a, <1>8, SweepStartFacts
  <2>2. EndTime <= now
    BY <1>0, <1>8, EndedFacts DEF JudgeContest
  <2> QED
    BY <1>b, <1>c, <2>1, <2>2 DEF SweepKnows
<1>9. ASSUME NEW s \in Sweeps, List(s) PROVE SweepKnows'
  <2>1. /\ sweep'[s].listed = ListPendingByContest
        /\ \A t \in Sweeps \ {s} : sweep'[t] = sweep[t]
    BY <1>0, <1>a, <1>9, ListFacts
  <2>2. EndTime <= now
    BY <1>0, <1>9 DEF List, SweepKnows
  <2>3. UNCHANGED rows
    BY <1>9 DEF List
  <2> QED
    BY <1>a, <1>c, <2>1, <2>2, <2>3 DEF SweepKnows, ListPendingByContest
<1>10. ASSUME NEW s \in Sweeps, Void(s) PROVE SweepKnows'
  <2>1. /\ sweep'[s].listed = sweep[s].listed /\ sweep[s].pc = "void"
        /\ \A t \in Sweeps \ {s} : sweep'[t] = sweep[t]
    BY <1>0, <1>a, <1>10, VoidFacts
  <2>2. EndTime <= now
    BY <1>0, <2>1 DEF SweepKnows
  <2> QED
    BY <1>b, <1>c, <2>1, <2>2 DEF SweepKnows
<1>11. ASSUME NEW s \in Sweeps, VoidFails(s) PROVE SweepKnows'
  <2>1. /\ sweep'[s].pc = "end" /\ sweep'[s].listed = {}
        /\ \A t \in Sweeps \ {s} : sweep'[t] = sweep[t]
    BY <1>0, <1>a, <1>11, SweepEndFacts DEF VoidFails
  <2> QED
    BY <1>c, <2>1 DEF SweepKnows
<1>12. ASSUME NEW s \in Sweeps, Dispatch(s) PROVE SweepKnows'
  <2>1. /\ sweep'[s].listed = sweep[s].listed /\ sweep[s].pc = "dispatch"
        /\ \A t \in Sweeps \ {s} : sweep'[t] = sweep[t]
    BY <1>0, <1>a, <1>12, DispatchFacts
  <2>2. EndTime <= now
    BY <1>0, <2>1 DEF SweepKnows
  <2> QED
    BY <1>b, <1>c, <2>1, <2>2 DEF SweepKnows
<1>13. ASSUME NEW s \in Sweeps, JudgeContestReturns(s) PROVE SweepKnows'
  <2>1. /\ sweep'[s].pc = "end" /\ sweep'[s].listed = {}
        /\ \A t \in Sweeps \ {s} : sweep'[t] = sweep[t]
    BY <1>0, <1>a, <1>13, SweepEndFacts DEF JudgeContestReturns
  <2> QED
    BY <1>c, <2>1 DEF SweepKnows
<1>14. ASSUME NEW s \in Sweeps, AbortSweep(s) PROVE SweepKnows'
  <2>1. /\ sweep'[s].pc = "end" /\ sweep'[s].listed = {}
        /\ \A t \in Sweeps \ {s} : sweep'[t] = sweep[t]
    BY <1>0, <1>a, <1>14, SweepEndFacts DEF AbortSweep
  <2> QED
    BY <1>c, <2>1 DEF SweepKnows
<1>15. ASSUME NEW i \in Ids, Update(i) PROVE SweepKnows'
  BY <1>15, <1>d DEF Update, SweepKnows
<1>16. ASSUME NEW i \in Ids, Rank(i) PROVE SweepKnows'
  BY <1>16, <1>d DEF Rank, SweepKnows
<1>17. CASE Tick
  BY <1>17, <1>d DEF Tick, SweepKnows
<1>18. CASE UNCHANGED vars
  BY <1>18, <1>d DEF vars, SweepKnows
<1> QED
  BY <1>1, <1>2, <1>3, <1>4, <1>5, <1>6, <1>7, <1>8, <1>9, <1>10, <1>11, <1>12, <1>13,
     <1>14, <1>15, <1>16, <1>17, <1>18 DEF Next

\* Verdicts come from tasks, rows are voided after the end, and a withheld row is
\* given to the judge after the end.
LEMMA JudgedKnowsStep ==
    HInv /\ [Next]_vars => JudgedKnows'
<1> SUFFICES ASSUME HInv, [Next]_vars PROVE JudgedKnows'
  OBVIOUS
<1> USE DEF history
<1>0. /\ RowsOK /\ RequestsOK /\ SweepsOK /\ RefsOK /\ BoardOK /\ BasicsOK
      /\ RequestKnows /\ SweepKnows /\ JudgedKnows /\ BoardKnows
  BY DEF HInv, TInv
<1>a. /\ RowsKept /\ judging \subseteq judging'
      /\ type' = type /\ (EndTime <= now => EndTime <= now') /\ unheld \subseteq unheld'
  BY RowsStep, TasksStay, TimeFlows DEF HInv, Onward
<1>b. rows' = rows /\ judging' = judging => JudgedKnows'
  BY <1>0, <1>a DEF JudgedKnows, IsBlindJudged
<1>c. ASSUME NEW i \in DOMAIN rows, judging' = judging \cup {i}, rows' = rows,
             IsBlindJudged /\ rows[i].contest /\ i \notin unheld => EndTime <= now
      PROVE  JudgedKnows'
  BY <1>0, <1>a, <1>c DEF JudgedKnows, IsBlindJudged
<1>1. ASSUME NEW r \in Requests, Submit(r) PROVE JudgedKnows'
  BY <1>1, <1>b DEF Submit, JudgedKnows
<1>2. ASSUME NEW r \in Requests, SubmitPractice(r) PROVE JudgedKnows'
  BY <1>2, <1>b DEF SubmitPractice, JudgedKnows
<1>3. ASSUME NEW r \in Requests, Create(r) PROVE JudgedKnows'
  <2>1. /\ DOMAIN rows' = DOMAIN rows \cup {Len(rows) + 1}
        /\ \A j \in DOMAIN rows : rows'[j] = rows[j]
        /\ rows'[Len(rows) + 1].status = "Pending"
    BY <1>0, <1>3, InsertFacts DEF Create, RequestsOK, RequestCarries
  <2>2. UNCHANGED judging
    BY <1>3 DEF Create
  <2> QED
    BY <1>0, <1>a, <2>1, <2>2 DEF JudgedKnows, RefsOK, IsBlindJudged
<1>4. ASSUME NEW r \in Requests, CreateFails(r) PROVE JudgedKnows'
  <2>1. /\ DOMAIN rows' = DOMAIN rows \cup {Len(rows) + 1}
        /\ \A j \in DOMAIN rows : rows'[j] = rows[j]
        /\ rows'[Len(rows) + 1].status = "Pending"
    BY <1>0, <1>4, InsertFacts DEF CreateFails, RequestsOK, RequestCarries
  <2>2. UNCHANGED judging
    BY <1>4 DEF CreateFails
  <2> QED
    BY <1>0, <1>a, <2>1, <2>2 DEF JudgedKnows, RefsOK, IsBlindJudged
<1>5. ASSUME NEW r \in Requests, Defer(r) PROVE JudgedKnows'
  BY <1>5, <1>b DEF Defer, JudgedKnows
<1>6. ASSUME NEW r \in Requests, EnqueueTask(r) PROVE JudgedKnows'
  <2>1. /\ req[r].pc = "enqueue" /\ UNCHANGED rows
        /\ judging' = judging \/ judging' = judging \cup {req[r].id}
    BY <1>6 DEF EnqueueTask, publishJudgeTask
  <2>2. /\ req[r].id \in DOMAIN rows
        /\ IsBlindJudged /\ rows[req[r].id].contest => req[r].id \in unheld
    BY <1>0, <2>1 DEF RequestKnows, RequestsOK, RequestCarries
  <2> QED
    BY <1>b, <1>c, <2>1, <2>2
<1>7. ASSUME NEW r \in Requests, AbortSubmit(r) PROVE JudgedKnows'
  BY <1>7, <1>b DEF AbortSubmit, JudgedKnows
<1>8. ASSUME NEW s \in Sweeps, JudgeContest(s) PROVE JudgedKnows'
  BY <1>8, <1>b DEF JudgeContest, JudgedKnows
<1>9. ASSUME NEW s \in Sweeps, List(s) PROVE JudgedKnows'
  BY <1>9, <1>b DEF List, JudgedKnows
<1>10. ASSUME NEW s \in Sweeps, Void(s) PROVE JudgedKnows'
  <2>1. CASE \E S : MarkSuperseded(S)
    <3>1. EndTime <= now'
      BY <1>0, <1>a, <1>10 DEF Void, SweepKnows
    <3>2. \A i \in DOMAIN rows' :
              rows'[i].status = "Judged" => i \in DOMAIN rows /\ rows[i].status = "Judged"
      BY <1>0, <2>1, MarkFacts
    <3>3. UNCHANGED judging
      BY <1>10 DEF Void
    <3> QED
      BY <1>0, <3>1, <3>2, <3>3 DEF JudgedKnows
  <2> QED
    BY <1>10, <2>1 DEF Void
<1>11. ASSUME NEW s \in Sweeps, VoidFails(s) PROVE JudgedKnows'
  <2>1. CASE UNCHANGED rows
    BY <1>11, <1>b, <2>1 DEF VoidFails
  <2>2. CASE \E S : MarkSuperseded(S)
    <3>1. EndTime <= now'
      BY <1>0, <1>a, <1>11 DEF VoidFails, SweepKnows
    <3>2. \A i \in DOMAIN rows' :
              rows'[i].status = "Judged" => i \in DOMAIN rows /\ rows[i].status = "Judged"
      BY <1>0, <2>2, MarkFacts
    <3>3. UNCHANGED judging
      BY <1>11 DEF VoidFails
    <3> QED
      BY <1>0, <3>1, <3>2, <3>3 DEF JudgedKnows
  <2> QED
    BY <1>11, <2>1, <2>2 DEF VoidFails
<1>12. ASSUME NEW s \in Sweeps, Dispatch(s) PROVE JudgedKnows'
  <2>1. PICK i \in sweep[s].left : judging' = judging \/ judging' = judging \cup {i}
    BY <1>0, <1>a, <1>12, DispatchFacts
  <2>2. i \in DOMAIN rows /\ EndTime <= now /\ UNCHANGED rows
    BY <1>0, <1>12, <2>1 DEF Dispatch, SweepKnows, SweepsOK, SweepCarries
  <2> QED
    BY <1>b, <1>c, <2>1, <2>2
<1>13. ASSUME NEW s \in Sweeps, JudgeContestReturns(s) PROVE JudgedKnows'
  BY <1>13, <1>b DEF JudgeContestReturns, JudgedKnows
<1>14. ASSUME NEW s \in Sweeps, AbortSweep(s) PROVE JudgedKnows'
  BY <1>14, <1>b DEF AbortSweep, JudgedKnows
<1>15. ASSUME NEW i \in Ids, Update(i) PROVE JudgedKnows'
  <2>1. /\ i \in judging /\ i \in DOMAIN rows /\ UNCHANGED judging
        /\ rows' = [rows EXCEPT ![i].status = "Judged"]
    BY <1>0, <1>15 DEF Update, RefsOK
  <2>2. /\ DOMAIN rows' = DOMAIN rows
        /\ \A j \in DOMAIN rows :
              /\ rows'[j].contest = rows[j].contest
              /\ j # i => rows'[j].status = rows[j].status
        /\ rows'[i].status = "Judged"
    BY <1>0, <2>1, UpdateFacts
  <2> QED
    BY <1>0, <1>a, <2>1, <2>2 DEF JudgedKnows, IsBlindJudged, RefsOK
<1>16. ASSUME NEW i \in Ids, Rank(i) PROVE JudgedKnows'
  BY <1>16, <1>b DEF Rank, JudgedKnows
<1>17. CASE Tick
  BY <1>17, <1>b DEF Tick, JudgedKnows
<1>18. CASE UNCHANGED vars
  BY <1>18, <1>b DEF vars, JudgedKnows
<1> QED
  BY <1>1, <1>2, <1>3, <1>4, <1>5, <1>6, <1>7, <1>8, <1>9, <1>10, <1>11, <1>12, <1>13,
     <1>14, <1>15, <1>16, <1>17, <1>18 DEF Next

\* Every entry of the board comes from a task of a row of its cell.
LEMMA BoardKnowsStep ==
    HInv /\ [Next]_vars => BoardKnows'
<1> SUFFICES ASSUME HInv, [Next]_vars PROVE BoardKnows'
  OBVIOUS
<1> USE DEF history
<1>0. /\ RowsOK /\ RequestsOK /\ SweepsOK /\ RefsOK /\ BoardOK /\ BasicsOK
      /\ RequestKnows /\ SweepKnows /\ JudgedKnows /\ BoardKnows
  BY DEF HInv, TInv
<1>a. /\ RowsKept /\ judging \subseteq judging'
      /\ type' = type /\ (EndTime <= now => EndTime <= now') /\ unheld \subseteq unheld'
  BY RowsStep, TasksStay, TimeFlows DEF HInv, Onward
<1>b. board' = board => BoardKnows'
  BY <1>0, <1>a DEF BoardKnows, RefsOK, RowsKept, IsBlindJudged
<1>1. ASSUME NEW r \in Requests, Submit(r) PROVE BoardKnows'
  BY <1>1, <1>b DEF Submit, BoardKnows
<1>2. ASSUME NEW r \in Requests, SubmitPractice(r) PROVE BoardKnows'
  BY <1>2, <1>b DEF SubmitPractice, BoardKnows
<1>3. ASSUME NEW r \in Requests, Create(r) PROVE BoardKnows'
  BY <1>3, <1>b DEF Create, BoardKnows
<1>4. ASSUME NEW r \in Requests, CreateFails(r) PROVE BoardKnows'
  BY <1>4, <1>b DEF CreateFails, BoardKnows
<1>5. ASSUME NEW r \in Requests, Defer(r) PROVE BoardKnows'
  BY <1>5, <1>b DEF Defer, BoardKnows
<1>6. ASSUME NEW r \in Requests, EnqueueTask(r) PROVE BoardKnows'
  BY <1>6, <1>b DEF EnqueueTask, BoardKnows
<1>7. ASSUME NEW r \in Requests, AbortSubmit(r) PROVE BoardKnows'
  BY <1>7, <1>b DEF AbortSubmit, BoardKnows
<1>8. ASSUME NEW s \in Sweeps, JudgeContest(s) PROVE BoardKnows'
  BY <1>8, <1>b DEF JudgeContest, BoardKnows
<1>9. ASSUME NEW s \in Sweeps, List(s) PROVE BoardKnows'
  BY <1>9, <1>b DEF List, BoardKnows
<1>10. ASSUME NEW s \in Sweeps, Void(s) PROVE BoardKnows'
  BY <1>10, <1>b DEF Void, BoardKnows
<1>11. ASSUME NEW s \in Sweeps, VoidFails(s) PROVE BoardKnows'
  BY <1>11, <1>b DEF VoidFails, BoardKnows
<1>12. ASSUME NEW s \in Sweeps, Dispatch(s) PROVE BoardKnows'
  BY <1>12, <1>b DEF Dispatch, BoardKnows
<1>13. ASSUME NEW s \in Sweeps, JudgeContestReturns(s) PROVE BoardKnows'
  BY <1>13, <1>b DEF JudgeContestReturns, BoardKnows
<1>14. ASSUME NEW s \in Sweeps, AbortSweep(s) PROVE BoardKnows'
  BY <1>14, <1>b DEF AbortSweep, BoardKnows
<1>15. ASSUME NEW i \in Ids, Update(i) PROVE BoardKnows'
  BY <1>15, <1>b DEF Update, BoardKnows
<1>16. ASSUME NEW i \in Ids, Rank(i) PROVE BoardKnows'
  <2>1. /\ i \in judging /\ rows[i].contest /\ IsBlindJudged
        /\ DOMAIN board' = DOMAIN board \cup {rows[i].cell}
    BY <1>0, <1>16, RankFacts
  <2>2. UNCHANGED <<rows, judging, type>>
    BY <1>16 DEF Rank
  <2> QED
    BY <1>0, <2>1, <2>2 DEF BoardKnows, IsBlindJudged
<1>17. CASE Tick
  BY <1>17, <1>b DEF Tick, BoardKnows
<1>18. CASE UNCHANGED vars
  BY <1>18, <1>b DEF vars, BoardKnows
<1> QED
  BY <1>1, <1>2, <1>3, <1>4, <1>5, <1>6, <1>7, <1>8, <1>9, <1>10, <1>11, <1>12, <1>13,
     <1>14, <1>15, <1>16, <1>17, <1>18 DEF Next

\* HInv is inductive.
LEMMA HInvStep == HInv /\ [Next]_vars => HInv'
  BY TInvStep, RequestKnowsStep, SweepKnowsStep, JudgedKnowsStep, BoardKnowsStep DEF HInv

\* Nothing is judged at first.
LEMMA HInvInit == Init => HInv
<1> SUFFICES ASSUME Init PROVE HInv
  OBVIOUS
<1>1. TInv
  BY TInvInit
<1>2. RequestKnows /\ SweepKnows
  BY RequestFacts, SweepFacts DEF Init, RequestKnows, SweepKnows
<1>3. JudgedKnows /\ BoardKnows
  BY DEF Init, JudgedKnows, BoardKnows
<1> QED
  BY <1>1, <1>2, <1>3 DEF HInv

\* A page is what applyContestVisibility makes of it, with or without the contest.
LEMMA PagesFacts ==
    ASSUME NEW i, NEW page \in Pages(i)
    PROVE  \E author \in BOOLEAN, loaded \in BOOLEAN :
               page = applyContestVisibility(i, author, loaded)
<1>1. PICK author \in BOOLEAN, loaded \in PageLoads :
          page = applyContestVisibility(i, author, loaded)
  BY DEF Pages
<1>2. loaded \in BOOLEAN
  BY DEF PageLoads
<1> QED
  BY <1>1, <1>2

\* VerdictsHidden: while a blind contest runs its pages show a verdict only if the
\* contest could be loaded neither when the submission was classified nor for the page,
\* and lists and board only if it could not when the submission was classified
\* (submission.go, deferJudging and applyContestVisibility).
THEOREM NothingShown == Spec => []VerdictsHidden
<1>1. HInv => VerdictsHidden
  <2> SUFFICES ASSUME HInv, EffectiveStatus = "running" PROVE VerdictsHidden
    BY DEF VerdictsHidden
  <2>0. BasicsOK /\ RowsOK /\ RefsOK /\ JudgedKnows /\ BoardKnows
    BY DEF HInv, TInv
  <2>1. ~(EndTime <= now)
    BY <2>0, EndedFacts
  <2>2. ASSUME NEW i \in DOMAIN rows, rows[i].contest
        PROVE  /\ \A page \in Pages(i) : ~page.Details
               /\ applyContestVisibility(i, FALSE, TRUE).Status # "Judged"
               /\ ~applyContestVisibility(i, FALSE, TRUE).Score
               /\ IsBlindJudged => applyContestVisibility(i, TRUE, TRUE)
                                       = applyContestVisibility(i, FALSE, TRUE)
    <3>1. EffectiveStatus # "ended" /\ IsBlindJudged \in BOOLEAN
      BY DEF IsBlindJudged
    <3>2. ASSUME NEW author \in BOOLEAN, NEW loaded \in BOOLEAN
          PROVE  ~applyContestVisibility(i, author, loaded).Details
      BY <2>2, <3>1, <3>2 DEF applyContestVisibility, Masked, Full
    <3>3. /\ applyContestVisibility(i, FALSE, TRUE).Status # "Judged"
          /\ ~applyContestVisibility(i, FALSE, TRUE).Score
          /\ IsBlindJudged => applyContestVisibility(i, TRUE, TRUE)
                                  = applyContestVisibility(i, FALSE, TRUE)
      BY <2>2, <3>1 DEF applyContestVisibility, Masked
    <3> QED
      BY <3>2, <3>3, PagesFacts
  <2>3. ASSUME NEW i \in DOMAIN rows, rows[i].contest, IsBlindJudged, i \notin unheld
        PROVE  Listed(i) = "Pending" /\ \A page \in Pages(i) : page.Status = "Pending"
    <3>1. rows[i] \in Row
      BY <2>0 DEF RowsOK
    <3>2. rows[i].status # "Judged" /\ rows[i].status # "Superseded"
      BY <2>0, <2>1, <2>3 DEF JudgedKnows
    <3>3. rows[i].status = "Pending"
      BY <3>1, <3>2 DEF Row
    <3>4. ASSUME NEW author \in BOOLEAN, NEW loaded \in BOOLEAN
          PROVE  applyContestVisibility(i, author, loaded).Status = "Pending"
      BY <2>3, <3>3, <3>4 DEF applyContestVisibility, Masked, Full
    <3>5. ASSUME NEW page \in Pages(i) PROVE page.Status = "Pending"
      BY <3>4, PagesFacts
    <3> QED
      BY <3>3, <3>5 DEF Listed
  <2>4. ASSUME NEW c \in DOMAIN board PROVE ContestRows(c) \cap unheld # {}
    <3>1. PICK i \in judging : rows[i].contest /\ rows[i].cell = c
      BY <2>0 DEF BoardKnows
    <3>2. i \in DOMAIN rows /\ IsBlindJudged
      BY <2>0, <3>1 DEF RefsOK, BoardKnows
    <3>3. i \in unheld
      BY <2>0, <2>1, <3>1, <3>2 DEF JudgedKnows
    <3> QED
      BY <3>1, <3>2, <3>3 DEF ContestRows
  <2> QED
    BY <2>2, <2>3, <2>4 DEF VerdictsHidden, ContestPages
<1> QED
  BY <1>1, HInvInit, HInvStep, PTL DEF Spec

\* Where rows may come from.
LEMMA RowsGrowStep ==
    HInv /\ [Next]_vars => RowsGrow
<1> SUFFICES ASSUME HInv, [Next]_vars PROVE RowsGrow
  OBVIOUS
<1> USE DEF history
<1>0. /\ RowsOK /\ RequestsOK /\ SweepsOK /\ RefsOK /\ BoardOK /\ BasicsOK
      /\ RequestKnows /\ SweepKnows /\ JudgedKnows /\ BoardKnows
  BY DEF HInv, TInv
<1>a. /\ RowsKept /\ judging \subseteq judging'
      /\ type' = type /\ (EndTime <= now => EndTime <= now') /\ unheld \subseteq unheld'
  BY RowsStep, TasksStay, TimeFlows DEF HInv, Onward
<1>1. ASSUME NEW r \in Requests, Submit(r) PROVE RowsGrow
  BY <1>1 DEF Submit, RowsGrow
<1>2. ASSUME NEW r \in Requests, SubmitPractice(r) PROVE RowsGrow
  BY <1>2 DEF SubmitPractice, RowsGrow
<1>3. ASSUME NEW r \in Requests, Create(r) PROVE RowsGrow
  <2>1. DOMAIN rows' = DOMAIN rows \cup {Len(rows) + 1}
    BY <1>0, <1>3, InsertFacts DEF Create, RequestsOK, RequestCarries
  <2>2. EndTime <= now => Len(rows) + 1 \in unheld'
    BY <1>0, <1>3, EndedFacts DEF Create, Insert, Unheld
  <2> QED
    BY <2>1, <2>2 DEF RowsGrow
<1>4. ASSUME NEW r \in Requests, CreateFails(r) PROVE RowsGrow
  <2>1. DOMAIN rows' = DOMAIN rows \cup {Len(rows) + 1}
    BY <1>0, <1>4, InsertFacts DEF CreateFails, RequestsOK, RequestCarries
  <2>2. EndTime <= now => Len(rows) + 1 \in unheld'
    BY <1>0, <1>4, EndedFacts DEF CreateFails, Insert, Unheld
  <2> QED
    BY <2>1, <2>2 DEF RowsGrow
<1>5. ASSUME NEW r \in Requests, Defer(r) PROVE RowsGrow
  BY <1>5 DEF Defer, RowsGrow
<1>6. ASSUME NEW r \in Requests, EnqueueTask(r) PROVE RowsGrow
  BY <1>6 DEF EnqueueTask, RowsGrow
<1>7. ASSUME NEW r \in Requests, AbortSubmit(r) PROVE RowsGrow
  BY <1>7 DEF AbortSubmit, RowsGrow
<1>8. ASSUME NEW s \in Sweeps, JudgeContest(s) PROVE RowsGrow
  BY <1>8 DEF JudgeContest, RowsGrow
<1>9. ASSUME NEW s \in Sweeps, List(s) PROVE RowsGrow
  BY <1>9 DEF List, RowsGrow
<1>10. ASSUME NEW s \in Sweeps, Void(s) PROVE RowsGrow
  BY <1>0, <1>10, MarkFacts DEF Void, RowsGrow
<1>11. ASSUME NEW s \in Sweeps, VoidFails(s) PROVE RowsGrow
  BY <1>0, <1>11, MarkFacts DEF VoidFails, RowsGrow
<1>12. ASSUME NEW s \in Sweeps, Dispatch(s) PROVE RowsGrow
  BY <1>12 DEF Dispatch, RowsGrow
<1>13. ASSUME NEW s \in Sweeps, JudgeContestReturns(s) PROVE RowsGrow
  BY <1>13 DEF JudgeContestReturns, RowsGrow
<1>14. ASSUME NEW s \in Sweeps, AbortSweep(s) PROVE RowsGrow
  BY <1>14 DEF AbortSweep, RowsGrow
<1>15. ASSUME NEW i \in Ids, Update(i) PROVE RowsGrow
  BY <1>0, <1>15, UpdateFacts DEF Update, RefsOK, RowsGrow
<1>16. ASSUME NEW i \in Ids, Rank(i) PROVE RowsGrow
  BY <1>16 DEF Rank, RowsGrow
<1>17. CASE Tick
  BY <1>17 DEF Tick, RowsGrow
<1>18. CASE UNCHANGED vars
  BY <1>18 DEF vars, RowsGrow
<1> QED
  BY <1>1, <1>2, <1>3, <1>4, <1>5, <1>6, <1>7, <1>8, <1>9, <1>10, <1>11, <1>12, <1>13,
     <1>14, <1>15, <1>16, <1>17, <1>18 DEF Next

\* TasksExplained holds of every step.
LEMMA NewTasks ==
    HInv /\ [Next]_vars => TasksExplained
<1> SUFFICES ASSUME HInv, [Next]_vars PROVE TasksExplained
  OBVIOUS
<1> USE DEF history
<1>0. /\ RowsOK /\ RequestsOK /\ SweepsOK /\ RefsOK /\ BoardOK /\ BasicsOK
      /\ RequestKnows /\ SweepKnows /\ JudgedKnows /\ BoardKnows
  BY DEF HInv, TInv
<1>a. /\ RowsKept /\ judging \subseteq judging'
      /\ type' = type /\ (EndTime <= now => EndTime <= now') /\ unheld \subseteq unheld'
  BY RowsStep, TasksStay, TimeFlows DEF HInv, Onward
<1>1. ASSUME NEW r \in Requests, Submit(r) PROVE TasksExplained
  BY <1>1 DEF Submit, TasksExplained
<1>2. ASSUME NEW r \in Requests, SubmitPractice(r) PROVE TasksExplained
  BY <1>2 DEF SubmitPractice, TasksExplained
<1>3. ASSUME NEW r \in Requests, Create(r) PROVE TasksExplained
  BY <1>3 DEF Create, TasksExplained
<1>4. ASSUME NEW r \in Requests, CreateFails(r) PROVE TasksExplained
  BY <1>4 DEF CreateFails, TasksExplained
<1>5. ASSUME NEW r \in Requests, Defer(r) PROVE TasksExplained
  BY <1>5 DEF Defer, TasksExplained
<1>6. ASSUME NEW r \in Requests, EnqueueTask(r) PROVE TasksExplained
  <2>1. /\ req[r].pc = "enqueue"
        /\ judging' = judging \/ judging' = judging \cup {req[r].id}
    BY <1>6 DEF EnqueueTask, publishJudgeTask
  <2>2. /\ IsBlindJudged /\ rows[req[r].id].contest => req[r].id \in unheld
        /\ req[r].id \in DOMAIN rows
    BY <1>0, <2>1 DEF RequestKnows, RequestsOK, RequestCarries
  <2> QED
    BY <2>1, <2>2 DEF TasksExplained
<1>7. ASSUME NEW r \in Requests, AbortSubmit(r) PROVE TasksExplained
  BY <1>7 DEF AbortSubmit, TasksExplained
<1>8. ASSUME NEW s \in Sweeps, JudgeContest(s) PROVE TasksExplained
  BY <1>8 DEF JudgeContest, TasksExplained
<1>9. ASSUME NEW s \in Sweeps, List(s) PROVE TasksExplained
  BY <1>9 DEF List, TasksExplained
<1>10. ASSUME NEW s \in Sweeps, Void(s) PROVE TasksExplained
  BY <1>10 DEF Void, TasksExplained
<1>11. ASSUME NEW s \in Sweeps, VoidFails(s) PROVE TasksExplained
  BY <1>11 DEF VoidFails, TasksExplained
<1>12. ASSUME NEW s \in Sweeps, Dispatch(s) PROVE TasksExplained
  <2>1. PICK i \in sweep[s].left : judging' = judging \/ judging' = judging \cup {i}
    BY <1>0, <1>a, <1>12, DispatchFacts
  <2>2. i \in DOMAIN rows
    BY <1>0, <2>1 DEF SweepsOK, SweepCarries
  <2> QED
    BY <1>12, <2>1, <2>2 DEF Dispatch, TasksExplained
<1>13. ASSUME NEW s \in Sweeps, JudgeContestReturns(s) PROVE TasksExplained
  BY <1>13 DEF JudgeContestReturns, TasksExplained
<1>14. ASSUME NEW s \in Sweeps, AbortSweep(s) PROVE TasksExplained
  BY <1>14 DEF AbortSweep, TasksExplained
<1>15. ASSUME NEW i \in Ids, Update(i) PROVE TasksExplained
  BY <1>15 DEF Update, TasksExplained
<1>16. ASSUME NEW i \in Ids, Rank(i) PROVE TasksExplained
  BY <1>16 DEF Rank, TasksExplained
<1>17. CASE Tick
  BY <1>17 DEF Tick, TasksExplained
<1>18. CASE UNCHANGED vars
  BY <1>18 DEF vars, TasksExplained
<1> QED
  BY <1>1, <1>2, <1>3, <1>4, <1>5, <1>6, <1>7, <1>8, <1>9, <1>10, <1>11, <1>12, <1>13,
     <1>14, <1>15, <1>16, <1>17, <1>18 DEF Next

\* VoidsExplained holds of every step.
LEMMA NewlyVoid ==
    HInv /\ [Next]_vars => VoidsExplained
<1> SUFFICES ASSUME HInv, [Next]_vars PROVE VoidsExplained
  OBVIOUS
<1> USE DEF history
<1>0. /\ RowsOK /\ RequestsOK /\ SweepsOK /\ RefsOK /\ BoardOK /\ BasicsOK
      /\ RequestKnows /\ SweepKnows /\ JudgedKnows /\ BoardKnows
  BY DEF HInv, TInv
<1>a. /\ RowsKept /\ judging \subseteq judging'
      /\ type' = type /\ (EndTime <= now => EndTime <= now') /\ unheld \subseteq unheld'
  BY RowsStep, TasksStay, TimeFlows DEF HInv, Onward
<1>1. ASSUME NEW r \in Requests, Submit(r) PROVE VoidsExplained
  BY <1>1 DEF Submit, VoidsExplained
<1>2. ASSUME NEW r \in Requests, SubmitPractice(r) PROVE VoidsExplained
  BY <1>2 DEF SubmitPractice, VoidsExplained
<1>3. ASSUME NEW r \in Requests, Create(r) PROVE VoidsExplained
  <2>1. /\ DOMAIN rows' = DOMAIN rows \cup {Len(rows) + 1}
        /\ \A j \in DOMAIN rows : rows'[j] = rows[j]
        /\ rows'[Len(rows) + 1].status = "Pending"
    BY <1>0, <1>3, InsertFacts DEF Create, RequestsOK, RequestCarries
  <2> QED
    BY <2>1 DEF VoidsExplained
<1>4. ASSUME NEW r \in Requests, CreateFails(r) PROVE VoidsExplained
  <2>1. /\ DOMAIN rows' = DOMAIN rows \cup {Len(rows) + 1}
        /\ \A j \in DOMAIN rows : rows'[j] = rows[j]
        /\ rows'[Len(rows) + 1].status = "Pending"
    BY <1>0, <1>4, InsertFacts DEF CreateFails, RequestsOK, RequestCarries
  <2> QED
    BY <2>1 DEF VoidsExplained
<1>5. ASSUME NEW r \in Requests, Defer(r) PROVE VoidsExplained
  BY <1>5 DEF Defer, VoidsExplained
<1>6. ASSUME NEW r \in Requests, EnqueueTask(r) PROVE VoidsExplained
  BY <1>6 DEF EnqueueTask, VoidsExplained
<1>7. ASSUME NEW r \in Requests, AbortSubmit(r) PROVE VoidsExplained
  BY <1>7 DEF AbortSubmit, VoidsExplained
<1>8. ASSUME NEW s \in Sweeps, JudgeContest(s) PROVE VoidsExplained
  BY <1>8 DEF JudgeContest, VoidsExplained
<1>9. ASSUME NEW s \in Sweeps, List(s) PROVE VoidsExplained
  BY <1>9 DEF List, VoidsExplained
<1>10. ASSUME NEW s \in Sweeps, Void(s) PROVE VoidsExplained
  <2>1. MarkSuperseded(sweep[s].listed \ ToJudge(s))
    BY <1>0, <1>a, <1>10, VoidFacts
  <2> QED
    BY <1>0, <2>1, MarkFacts DEF VoidsExplained
<1>11. ASSUME NEW s \in Sweeps, VoidFails(s) PROVE VoidsExplained
  <2>1. MarkSuperseded(sweep[s].listed \ ToJudge(s)) \/ UNCHANGED rows
    BY <1>11 DEF VoidFails, ToJudge
  <2>2. CASE MarkSuperseded(sweep[s].listed \ ToJudge(s))
    BY <1>0, <2>2, MarkFacts DEF VoidsExplained
  <2>3. CASE UNCHANGED rows
    BY <2>3 DEF VoidsExplained
  <2> QED
    BY <2>1, <2>2, <2>3
<1>12. ASSUME NEW s \in Sweeps, Dispatch(s) PROVE VoidsExplained
  BY <1>12 DEF Dispatch, VoidsExplained
<1>13. ASSUME NEW s \in Sweeps, JudgeContestReturns(s) PROVE VoidsExplained
  BY <1>13 DEF JudgeContestReturns, VoidsExplained
<1>14. ASSUME NEW s \in Sweeps, AbortSweep(s) PROVE VoidsExplained
  BY <1>14 DEF AbortSweep, VoidsExplained
<1>15. ASSUME NEW i \in Ids, Update(i) PROVE VoidsExplained
  <2>1. /\ DOMAIN rows' = DOMAIN rows
        /\ \A j \in DOMAIN rows : j # i => rows'[j].status = rows[j].status
        /\ rows'[i].status = "Judged"
    BY <1>0, <1>15, UpdateFacts DEF Update, RefsOK
  <2> QED
    BY <2>1 DEF VoidsExplained
<1>16. ASSUME NEW i \in Ids, Rank(i) PROVE VoidsExplained
  BY <1>16 DEF Rank, VoidsExplained
<1>17. CASE Tick
  BY <1>17 DEF Tick, VoidsExplained
<1>18. CASE UNCHANGED vars
  BY <1>18 DEF vars, VoidsExplained
<1> QED
  BY <1>1, <1>2, <1>3, <1>4, <1>5, <1>6, <1>7, <1>8, <1>9, <1>10, <1>11, <1>12, <1>13,
     <1>14, <1>15, <1>16, <1>17, <1>18 DEF Next

\* A sweep goes from one query to the next.
LEMMA SweepMovesStep ==
    HInv /\ [Next]_vars => (\A t \in Sweeps : SweepMoves(t))
<1> SUFFICES ASSUME HInv, [Next]_vars PROVE (\A t \in Sweeps : SweepMoves(t))
  OBVIOUS
<1> USE DEF history
<1>0. /\ RowsOK /\ RequestsOK /\ SweepsOK /\ RefsOK /\ BoardOK /\ BasicsOK
      /\ RequestKnows /\ SweepKnows /\ JudgedKnows /\ BoardKnows
  BY DEF HInv, TInv
<1>a. /\ RowsKept /\ judging \subseteq judging'
      /\ type' = type /\ (EndTime <= now => EndTime <= now') /\ unheld \subseteq unheld'
  BY RowsStep, TasksStay, TimeFlows DEF HInv, Onward
<1>1. ASSUME NEW r \in Requests, Submit(r) PROVE (\A t \in Sweeps : SweepMoves(t))
  BY <1>1 DEF Submit, SweepMoves
<1>2. ASSUME NEW r \in Requests, SubmitPractice(r) PROVE (\A t \in Sweeps : SweepMoves(t))
  BY <1>2 DEF SubmitPractice, SweepMoves
<1>3. ASSUME NEW r \in Requests, Create(r) PROVE (\A t \in Sweeps : SweepMoves(t))
  BY <1>3 DEF Create, SweepMoves
<1>4. ASSUME NEW r \in Requests, CreateFails(r) PROVE (\A t \in Sweeps : SweepMoves(t))
  BY <1>4 DEF CreateFails, SweepMoves
<1>5. ASSUME NEW r \in Requests, Defer(r) PROVE (\A t \in Sweeps : SweepMoves(t))
  BY <1>5 DEF Defer, SweepMoves
<1>6. ASSUME NEW r \in Requests, EnqueueTask(r) PROVE (\A t \in Sweeps : SweepMoves(t))
  BY <1>6 DEF EnqueueTask, SweepMoves
<1>7. ASSUME NEW r \in Requests, AbortSubmit(r) PROVE (\A t \in Sweeps : SweepMoves(t))
  BY <1>7 DEF AbortSubmit, SweepMoves
<1>8. ASSUME NEW s \in Sweeps, JudgeContest(s) PROVE (\A t \in Sweeps : SweepMoves(t))
  BY <1>0, <1>a, <1>8, SweepStartFacts DEF SweepMoves
<1>9. ASSUME NEW s \in Sweeps, List(s) PROVE (\A t \in Sweeps : SweepMoves(t))
  BY <1>0, <1>a, <1>9, ListFacts DEF SweepMoves
<1>10. ASSUME NEW s \in Sweeps, Void(s) PROVE (\A t \in Sweeps : SweepMoves(t))
  BY <1>0, <1>a, <1>10, VoidFacts DEF SweepMoves
<1>11. ASSUME NEW s \in Sweeps, VoidFails(s) PROVE (\A t \in Sweeps : SweepMoves(t))
  BY <1>0, <1>a, <1>11, SweepEndFacts DEF VoidFails, SweepMoves
<1>12. ASSUME NEW s \in Sweeps, Dispatch(s) PROVE (\A t \in Sweeps : SweepMoves(t))
  <2>1. /\ sweep[s].pc = "dispatch" /\ sweep'[s].pc = "dispatch"
        /\ \A t \in Sweeps \ {s} : sweep'[t] = sweep[t]
    BY <1>0, <1>a, <1>12, DispatchFacts
  <2>2. PICK i \in sweep[s].left : sweep'[s].left = sweep[s].left \ {i}
    BY <1>0, <1>a, <1>12, DispatchFacts
  <2> QED
    BY <2>1, <2>2 DEF SweepMoves
<1>13. ASSUME NEW s \in Sweeps, JudgeContestReturns(s) PROVE (\A t \in Sweeps : SweepMoves(t))
  BY <1>0, <1>a, <1>13, SweepEndFacts DEF JudgeContestReturns, SweepMoves
<1>14. ASSUME NEW s \in Sweeps, AbortSweep(s) PROVE (\A t \in Sweeps : SweepMoves(t))
  BY <1>0, <1>a, <1>14, SweepEndFacts DEF AbortSweep, SweepMoves
<1>15. ASSUME NEW i \in Ids, Update(i) PROVE (\A t \in Sweeps : SweepMoves(t))
  BY <1>15 DEF Update, SweepMoves
<1>16. ASSUME NEW i \in Ids, Rank(i) PROVE (\A t \in Sweeps : SweepMoves(t))
  BY <1>16 DEF Rank, SweepMoves
<1>17. CASE Tick
  BY <1>17 DEF Tick, SweepMoves
<1>18. CASE UNCHANGED vars
  BY <1>18 DEF vars, SweepMoves
<1> QED
  BY <1>1, <1>2, <1>3, <1>4, <1>5, <1>6, <1>7, <1>8, <1>9, <1>10, <1>11, <1>12, <1>13,
     <1>14, <1>15, <1>16, <1>17, <1>18 DEF Next

\* The rows of a withheld cell: after the end none is added.
LEMMA WithheldKept ==
    ASSUME HInv, [Next]_vars, NEW c
    PROVE  /\ ContestRows(c) \subseteq ContestRows(c)'
           /\ ContestRows(c)' \cap DOMAIN rows = ContestRows(c)
           /\ Withheld(c)' => Withheld(c)
           /\ Withheld(c)' /\ EndTime <= now => ContestRows(c)' = ContestRows(c)
<1>0. /\ RowsKept /\ RowsGrow /\ type' = type /\ unheld \subseteq unheld'
  BY RowsStep, RowsGrowStep, TimeFlows DEF HInv, Onward
<1>1. ContestRows(c) \subseteq ContestRows(c)'
  BY <1>0 DEF ContestRows, RowsKept
<1>2. ContestRows(c)' \cap DOMAIN rows = ContestRows(c)
  BY <1>0 DEF ContestRows, RowsKept
<1>3. Withheld(c)' => Withheld(c)
  BY <1>0, <1>1 DEF Withheld, IsBlindJudged
<1>4. ASSUME Withheld(c)', EndTime <= now PROVE ContestRows(c)' = ContestRows(c)
  <2>1. ContestRows(c)' \subseteq DOMAIN rows
    BY <1>0, <1>4 DEF ContestRows, RowsGrow, Withheld
  <2> QED
    BY <1>2, <2>1
<1> QED
  BY <1>1, <1>2, <1>3, <1>4

\* A row of a withheld cell has a task only after the end.
LEMMA TaskAfterEnd ==
    ASSUME HInv, NEW c, Withheld(c), NEW i \in ContestRows(c) \cap judging
    PROVE  EndTime <= now
  BY DEF HInv, JudgedKnows, ContestRows, Withheld

\* That the others are void stays so.
LEMMA OnlyOneKept ==
    ASSUME HInv, [Next]_vars, NEW c, Withheld(c)', EndTime <= now, NEW i, OnlyOne(i, c)
    PROVE  OnlyOne(i, c)'
<1>1. ContestRows(c)' = ContestRows(c)
  BY WithheldKept
<1>2. RowsKept /\ ContestRows(c) \subseteq DOMAIN rows
  BY RowsStep DEF HInv, ContestRows
<1>3. \A j \in ContestRows(c) \ {i} : rows'[j].status # "Pending"
  BY <1>2 DEF OnlyOne, RowsKept
<1> QED
  BY <1>1, <1>3 DEF OnlyOne, IsLast

\* Every cell with rows has a last one: ids grow.
LEMMA LastExistsStep == HInv /\ LastExists /\ [Next]_vars => LastExists'
<1> SUFFICES ASSUME HInv, LastExists, [Next]_vars, NEW c \in Cells, ContestRows(c)' # {}
             PROVE  \E i \in DOMAIN rows' : IsLast(i, ContestRows(c))'
  BY DEF LastExists
<1>0. RowsOK /\ RowsKept /\ RowsGrow
  BY RowsStep, RowsGrowStep DEF HInv, TInv
<1>1. /\ ContestRows(c)' \cap DOMAIN rows = ContestRows(c)
      /\ ContestRows(c)' \subseteq DOMAIN rows'
  BY WithheldKept DEF ContestRows
<1>2. CASE Len(rows) + 1 \in ContestRows(c)'
  <2>1. \A j \in DOMAIN rows' : j <= Len(rows) + 1
    BY <1>0 DEF RowsGrow, RowsOK
  <2> QED
    BY <1>1, <1>2, <2>1 DEF IsLast
<1>3. CASE Len(rows) + 1 \notin ContestRows(c)'
  <2>1. ContestRows(c)' = ContestRows(c)
    BY <1>0, <1>1, <1>3 DEF RowsGrow
  <2>2. PICK i \in DOMAIN rows : IsLast(i, ContestRows(c))
    BY <2>1 DEF LastExists
  <2> QED
    BY <1>0, <2>1, <2>2 DEF IsLast, RowsKept
<1> QED
  BY <1>2, <1>3

\* A row that splitLatestPerProblem leaves out is followed by one of its cell.
LEMMA SupersededStep == HInv /\ SupersededByLater /\ [Next]_vars => SupersededByLater'
<1> SUFFICES ASSUME HInv, SupersededByLater, [Next]_vars,
                    NEW i \in DOMAIN rows', rows'[i].status = "Superseded"
             PROVE  \E j \in DOMAIN rows' :
                        rows'[j].contest /\ rows'[j].cell = rows'[i].cell /\ j > i
  BY DEF SupersededByLater, ContestRows
<1>0. RowsOK /\ RowsKept /\ SweepsOK /\ SweepKnows
  BY RowsStep DEF HInv, TInv
<1>1. /\ i \in DOMAIN rows
      /\ rows[i].status = "Superseded"
            \/ \E s \in Sweeps : i \in sweep[s].listed \ ToJudge(s)
  BY <1>0, NewlyVoid DEF SweepsOK, SweepCarries, VoidsExplained
<1>2. \E j \in DOMAIN rows : rows[j].contest /\ rows[j].cell = rows[i].cell /\ j > i
  <2>1. CASE rows[i].status = "Superseded"
    BY <1>1, <2>1 DEF SupersededByLater, ContestRows
  <2>2. CASE \E s \in Sweeps : i \in sweep[s].listed \ ToJudge(s)
    <3>1. PICK s \in Sweeps : i \in sweep[s].listed \ ToJudge(s)
      BY <2>2
    <3>2. PICK j \in sweep[s].listed : rows[j].cell = rows[i].cell /\ ~(j <= i)
      BY <3>1 DEF ToJudge, splitLatestPerProblem
    <3>3. j \in DOMAIN rows /\ rows[j].contest
      BY <1>0, <3>2 DEF SweepsOK, SweepCarries, SweepKnows
    <3>4. i \in Nat /\ j \in Nat
      BY <1>0, <1>1, <3>3 DEF RowsOK
    <3> QED
      BY <3>2, <3>3, <3>4
  <2> QED
    BY <1>1, <2>1, <2>2
<1>3. PICK j \in DOMAIN rows : rows[j].contest /\ rows[j].cell = rows[i].cell /\ j > i
  BY <1>2
<1> QED
  BY <1>0, <1>1, <1>3 DEF RowsKept

\* Tasks of withheld rows come from sweeps.
LEMMA OnlyLastStep == LInv /\ [Next]_vars => OnlyLastJudged'
<1> SUFFICES ASSUME LInv, [Next]_vars, NEW c \in Cells, Withheld(c)',
                    NEW i \in ContestRows(c)' \cap judging'
             PROVE  OnlyOne(i, c)'
  BY DEF OnlyLastJudged
<1>0. HInv /\ OnlyLastJudged /\ SweepTakesLast /\ Withheld(c)
  BY WithheldKept DEF LInv
<1>1. RefsOK /\ SweepsOK /\ SweepKnows
  BY <1>0 DEF HInv, TInv
<1>2. CASE i \in judging
  <2>1. i \in ContestRows(c)
    BY <1>0, <1>1, <1>2, WithheldKept DEF RefsOK
  <2>2. OnlyOne(i, c) /\ EndTime <= now
    BY <1>0, <1>2, <2>1, TaskAfterEnd DEF OnlyLastJudged
  <2> QED
    BY <1>0, <2>2, OnlyOneKept
<1>3. CASE i \notin judging
  <2>1. \/ \E s \in Sweeps : sweep[s].pc = "dispatch" /\ i \in sweep[s].left
        \/ IsBlindJudged /\ rows[i].contest => i \in unheld
    BY <1>0, <1>3, NewTasks DEF TasksExplained
  <2>2. CASE \E s \in Sweeps : sweep[s].pc = "dispatch" /\ i \in sweep[s].left
    <3>1. PICK s \in Sweeps : sweep[s].pc = "dispatch" /\ i \in sweep[s].left
      BY <2>2
    <3>2. i \in DOMAIN rows /\ EndTime <= now
      BY <1>1, <3>1 DEF SweepsOK, SweepCarries, SweepKnows
    <3>3. i \in ContestRows(c)
      BY <1>0, <3>2, WithheldKept
    <3>4. OnlyOne(i, c)
      BY <1>0, <3>1, <3>3 DEF SweepTakesLast
    <3> QED
      BY <1>0, <3>2, <3>4, OnlyOneKept
  <2>3. CASE IsBlindJudged /\ rows[i].contest => i \in unheld
    <3>1. i \in ContestRows(c)
      BY <1>0, <1>3, NewTasks, WithheldKept DEF TasksExplained
    <3> QED
      BY <1>0, <2>3, <3>1 DEF ContestRows, Withheld
  <2> QED
    BY <2>1, <2>2, <2>3
<1> QED
  BY <1>2, <1>3

\* What List lists of a withheld cell, if anything, includes its last row.
LEMMA ListTakesLast ==
    ASSUME LInv, [Next]_vars, NEW s \in Sweeps, List(s), NEW c \in Cells, Withheld(c)'
    PROVE  /\ sweep'[s].pc = "void"
           /\ \A i \in ContestRows(c)' \ sweep'[s].listed : rows'[i].status # "Pending"
           /\ \A i \in ContestRows(c)' :
                 IsLast(i, ContestRows(c)') /\ ContestRows(c)' \cap sweep'[s].listed # {}
                     => i \in sweep'[s].listed
<1>0. /\ RowsOK /\ SweepsOK /\ RowsKept /\ SweepKnows /\ JudgedKnows /\ Withheld(c)
      /\ OnlyLastJudged /\ SupersededByLater
  BY WithheldKept, RowsStep DEF LInv, HInv, TInv
<1>1. sweep'[s].pc = "void" /\ sweep'[s].listed = ListPendingByContest
  BY <1>0, ListFacts
<1>2. UNCHANGED rows /\ ContestRows(c)' = ContestRows(c)
  BY DEF List, ContestRows
<1>3. ASSUME NEW i \in ContestRows(c), IsLast(i, ContestRows(c)),
             NEW k \in ContestRows(c), k \in ListPendingByContest
      PROVE  i \in ListPendingByContest
  <2>1. /\ i \in DOMAIN rows /\ rows[i] \in Row /\ rows[i].cell = c /\ rows[i].contest
        /\ rows[k].status = "Pending" /\ i \in Nat
    BY <1>0, <1>3 DEF ContestRows, RowsOK, ListPendingByContest
  <2>2. rows[i].status # "Superseded"
    <3> SUFFICES ASSUME rows[i].status = "Superseded" PROVE FALSE
      OBVIOUS
    <3>1. PICK j \in ContestRows(c) : j > i
      BY <1>0, <2>1 DEF SupersededByLater
    <3>2. j \in Nat
      BY <1>0 DEF ContestRows, RowsOK
    <3> QED
      BY <1>3, <2>1, <3>1, <3>2 DEF IsLast
  <2>3. rows[i].status # "Judged"
    <3> SUFFICES ASSUME rows[i].status = "Judged" PROVE FALSE
      OBVIOUS
    <3>1. OnlyOne(i, c)
      BY <1>0, <1>3, <2>1 DEF OnlyLastJudged, JudgedKnows
    <3> QED
      BY <1>3, <2>1, <3>1 DEF OnlyOne
  <2>4. rows[i].status = "Pending"
    BY <2>1, <2>2, <2>3 DEF Row
  <2> QED
    BY <2>1, <2>4 DEF ListPendingByContest
<1>4. \A i \in ContestRows(c) \ ListPendingByContest : rows[i].status # "Pending"
  BY DEF ContestRows, ListPendingByContest
<1> QED
  BY <1>1, <1>2, <1>3, <1>4

\* Void leaves of a withheld cell at most the last row, and voids the others.
LEMMA VoidLeavesLast ==
    ASSUME LInv, [Next]_vars, NEW s \in Sweeps, Void(s), NEW c \in Cells, Withheld(c)'
    PROVE  /\ sweep'[s].pc = "dispatch"
           /\ \A i \in ContestRows(c)' \cap sweep'[s].left : OnlyOne(i, c)'
<1>0. /\ RowsOK /\ SweepsOK /\ RowsKept /\ SweepKnows /\ Withheld(c)
      /\ SweepTakesLast /\ LastExists
  BY WithheldKept, RowsStep DEF LInv, HInv, TInv
<1>1. /\ sweep[s].pc = "void" /\ MarkSuperseded(sweep[s].listed \ ToJudge(s))
      /\ sweep'[s].pc = "dispatch" /\ sweep'[s].left = ToJudge(s)
  BY <1>0, VoidFacts
<1>2. ContestRows(c)' = ContestRows(c)
  BY <1>0, <1>1, WithheldKept DEF SweepKnows, LInv
<1>3. ASSUME NEW i \in ContestRows(c), i \in ToJudge(s) PROVE OnlyOne(i, c)'
  <2>1. /\ i \in sweep[s].listed
        /\ \A j \in sweep[s].listed : rows[j].cell = rows[i].cell => j <= i
    BY <1>0, <1>3 DEF ToJudge, splitLatestPerProblem, Withheld
  <2>2. \A j \in ContestRows(c) : j \in Nat /\ j \in DOMAIN rows /\ rows[j].cell = c
    BY <1>0 DEF ContestRows, RowsOK
  <2>3. PICK m \in DOMAIN rows : IsLast(m, ContestRows(c))
    BY <1>0, <1>3 DEF LastExists
  <2>4. m \in sweep[s].listed
    BY <1>0, <1>1, <1>3, <2>1, <2>3 DEF SweepTakesLast, IsLast
  <2>5. m <= i /\ m \in ContestRows(c)
    BY <1>3, <2>1, <2>2, <2>3, <2>4 DEF IsLast
  <2>6. IsLast(i, ContestRows(c))
    BY <1>3, <2>2, <2>3, <2>5 DEF IsLast
  <2>7. ASSUME NEW j \in ContestRows(c), j # i PROVE rows'[j].status # "Pending"
    <3>1. CASE j \in sweep[s].listed
      <4>1. ~(i <= j)
        BY <1>3, <2>2, <2>6, <2>7 DEF IsLast
      <4>2. j \notin ToJudge(s)
        BY <1>0, <1>3, <2>1, <2>2, <4>1 DEF ToJudge, splitLatestPerProblem, Withheld
      <4> QED
        BY <1>0, <1>1, <2>2, <3>1, <4>2, MarkFacts
    <3>2. CASE j \notin sweep[s].listed
      <4>1. rows[j].status # "Pending"
        BY <1>0, <1>1, <3>2 DEF SweepTakesLast
      <4> QED
        BY <1>0, <2>2, <4>1 DEF RowsKept
    <3> QED
      BY <3>1, <3>2
  <2> QED
    BY <1>2, <2>6, <2>7 DEF OnlyOne, IsLast
<1> QED
  BY <1>1, <1>2, <1>3

\* A sweep judges at most the last row of a withheld cell.
LEMMA SweepTakesStep == LInv /\ [Next]_vars => SweepTakesLast'
<1> SUFFICES ASSUME LInv, [Next]_vars, NEW c \in Cells, NEW s \in Sweeps, Withheld(c)'
             PROVE  /\ sweep'[s].pc = "void" =>
                          /\ \A i \in ContestRows(c)' \ sweep'[s].listed : rows'[i].status # "Pending"
                          /\ \A i \in ContestRows(c)' :
                                IsLast(i, ContestRows(c)')
                                    /\ ContestRows(c)' \cap sweep'[s].listed # {}
                                    => i \in sweep'[s].listed
                    /\ sweep'[s].pc = "dispatch" =>
                          \A i \in ContestRows(c)' \cap sweep'[s].left : OnlyOne(i, c)'
  BY DEF SweepTakesLast, IsLast
<1>0. /\ HInv /\ RowsKept /\ SweepKnows /\ Withheld(c) /\ SweepTakesLast
      /\ ContestRows(c) \subseteq DOMAIN rows /\ SweepMoves(s)
  BY WithheldKept, RowsStep, SweepMovesStep DEF LInv, HInv, ContestRows
<1>1. CASE List(s)
  BY <1>1, ListTakesLast
<1>2. CASE Void(s)
  BY <1>2, VoidLeavesLast
<1>3. CASE sweep'[s].pc \notin {"void", "dispatch"}
  BY <1>3
<1>4. CASE /\ sweep[s].pc = "dispatch" /\ sweep'[s].pc = "dispatch"
           /\ sweep'[s].left \subseteq sweep[s].left
  <2>1. EndTime <= now
    BY <1>0, <1>4 DEF SweepKnows
  <2>2. ContestRows(c)' = ContestRows(c)
    BY <1>0, <2>1, WithheldKept
  <2>3. \A i \in ContestRows(c) \cap sweep'[s].left : OnlyOne(i, c)
    BY <1>0, <1>4 DEF SweepTakesLast
  <2> QED
    BY <1>0, <1>4, <2>1, <2>2, <2>3, OnlyOneKept
<1>5. CASE sweep'[s] = sweep[s]
  <2>1. CASE sweep[s].pc = "void"
    <3>1. EndTime <= now
      BY <1>0, <2>1 DEF SweepKnows
    <3>2. ContestRows(c)' = ContestRows(c)
      BY <1>0, <3>1, WithheldKept
    <3>3. \A i \in ContestRows(c) \ sweep[s].listed : rows[i].status # "Pending"
      BY <1>0, <2>1 DEF SweepTakesLast
    <3>4. \A i \in ContestRows(c) \ sweep[s].listed : rows'[i].status # "Pending"
      BY <1>0, <3>3 DEF RowsKept
    <3>5. \A i \in ContestRows(c) :
              IsLast(i, ContestRows(c)) /\ ContestRows(c) \cap sweep[s].listed # {}
                  => i \in sweep[s].listed
      BY <1>0, <2>1 DEF SweepTakesLast
    <3> QED
      BY <1>5, <2>1, <3>2, <3>4, <3>5
  <2>2. CASE sweep[s].pc = "dispatch"
    BY <1>4, <1>5, <2>2
  <2>3. CASE sweep[s].pc \notin {"void", "dispatch"}
    BY <1>5, <2>3
  <2> QED
    BY <2>1, <2>2, <2>3
<1> QED
  BY <1>0, <1>1, <1>2, <1>3, <1>4, <1>5 DEF SweepMoves

\* The board has the score of the last row, whatever is merged again.
LEMMA BoardOfLastStep == LInv /\ [Next]_vars => BoardOfLast'
<1> SUFFICES ASSUME LInv, [Next]_vars, NEW c \in DOMAIN board', Withheld(c)'
             PROVE  \E i \in DOMAIN rows' :
                        IsLast(i, ContestRows(c)') /\ board'[c].DisplayScore = Score[i]
  BY DEF BoardOfLast, IsLast
<1>0. /\ HInv /\ RowsOK /\ RefsOK /\ BoardOK /\ RowsKept /\ BoardKnows /\ Withheld(c)
      /\ BoardOfLast /\ OnlyLastJudged
  BY WithheldKept, RowsStep DEF LInv, HInv, TInv
<1>1. ASSUME c \in DOMAIN board, board'[c] = board[c]
      PROVE  \E i \in DOMAIN rows' :
                 IsLast(i, ContestRows(c)') /\ board'[c].DisplayScore = Score[i]
  <2>1. PICK i \in DOMAIN rows : IsLast(i, ContestRows(c)) /\ board[c].DisplayScore = Score[i]
    BY <1>0, <1>1 DEF BoardOfLast
  <2>2. EndTime <= now
    BY <1>0, <1>1, TaskAfterEnd DEF BoardKnows, ContestRows, RefsOK
  <2>3. ContestRows(c)' = ContestRows(c)
    BY <1>0, <2>2, WithheldKept
  <2> QED
    BY <1>0, <1>1, <2>1, <2>3 DEF RowsKept
<1>2. CASE UNCHANGED board
  BY <1>1, <1>2
<1>3. CASE \E i \in Ids : Rank(i)
  <2>1. PICK i \in Ids : Rank(i)
    BY <1>3
  <2>2. /\ i \in judging /\ rows[i].contest /\ rows[i].cell \in Cells
        /\ DOMAIN board' = DOMAIN board \cup {rows[i].cell}
        /\ \A d \in DOMAIN board \ {rows[i].cell} : board'[d] = board[d]
        /\ \/ board'[rows[i].cell].DisplayScore = Score[i]
           \/ rows[i].cell \in DOMAIN board /\ board'[rows[i].cell] = board[rows[i].cell]
    BY <1>0, <2>1, RankFacts
  <2>3. CASE c # rows[i].cell
    BY <1>1, <2>2, <2>3
  <2>4. CASE c = rows[i].cell
    <3>1. i \in ContestRows(c) /\ i \in DOMAIN rows
      BY <1>0, <2>2, <2>4 DEF ContestRows, RefsOK
    <3>2. OnlyOne(i, c) /\ EndTime <= now
      BY <1>0, <2>2, <2>4, <3>1, TaskAfterEnd DEF OnlyLastJudged
    <3>3. ContestRows(c)' = ContestRows(c)
      BY <1>0, <3>2, WithheldKept
    <3>4. CASE board'[c].DisplayScore = Score[i]
      BY <1>0, <3>1, <3>2, <3>3, <3>4 DEF OnlyOne, RowsKept
    <3> QED
      BY <1>1, <2>2, <2>4, <3>4
  <2> QED
    BY <2>3, <2>4
<1>4. UNCHANGED board \/ \E i \in Ids : Rank(i)
  BY DEF Next, vars, Submit, SubmitPractice, Create, CreateFails, Defer, EnqueueTask,
         AbortSubmit, JudgeContest, List, Void, VoidFails, Dispatch, JudgeContestReturns,
         AbortSweep, Update, Tick
<1> QED
  BY <1>2, <1>3, <1>4

\* LastCounts: in a blind contest the last submission of a contestant to a problem is
\* the one that is judged, scored and never voided, whatever sweeps overlap, fail or
\* are repeated, as long as every one of them was withheld.
THEOREM LastOneCounts == Spec => []LastCounts
<1>1. Init => LInv
  <2> SUFFICES ASSUME Init PROVE LInv
    OBVIOUS
  <2>1. HInv
    BY HInvInit
  <2>2. LastExists /\ SupersededByLater /\ OnlyLastJudged /\ BoardOfLast
    BY DEF Init, LastExists, SupersededByLater, OnlyLastJudged, BoardOfLast, ContestRows
  <2>3. SweepTakesLast
    BY SweepFacts DEF Init, SweepTakesLast
  <2> QED
    BY <2>1, <2>2, <2>3 DEF LInv
<1>2. LInv /\ [Next]_vars => LInv'
  BY HInvStep, LastExistsStep, SupersededStep, OnlyLastStep, SweepTakesStep, BoardOfLastStep
     DEF LInv
<1>3. LInv => LastCounts
  <2> SUFFICES ASSUME LInv, IsBlindJudged, NEW c \in Cells, ContestRows(c) \cap unheld = {}
               PROVE  /\ \A i \in ContestRows(c) :
                            /\ rows[i].status = "Judged" => \A j \in ContestRows(c) : j <= i
                            /\ rows[i].status = "Superseded" => \E j \in ContestRows(c) : j > i
                      /\ c \in DOMAIN board =>
                            \E i \in ContestRows(c) :
                                /\ \A j \in ContestRows(c) : j <= i
                                /\ board[c].DisplayScore = Score[i]
    BY DEF LastCounts
  <2>1. Withheld(c) /\ JudgedKnows
    BY DEF Withheld, LInv, HInv
  <2>2. \A i \in ContestRows(c) : rows[i].status = "Judged" => OnlyOne(i, c)
    BY <2>1 DEF LInv, OnlyLastJudged, JudgedKnows, ContestRows
  <2>3. \A i \in ContestRows(c) :
            rows[i].status = "Superseded" => \E j \in ContestRows(c) : j > i
    BY DEF LInv, SupersededByLater, ContestRows
  <2>4. c \in DOMAIN board =>
            \E i \in DOMAIN rows : IsLast(i, ContestRows(c)) /\ board[c].DisplayScore = Score[i]
    BY <2>1 DEF LInv, BoardOfLast
  <2> QED
    BY <2>2, <2>3, <2>4 DEF OnlyOne, IsLast
<1> QED
  BY <1>1, <1>2, <1>3, PTL DEF Spec

=============================================================================
