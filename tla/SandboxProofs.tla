--------------------------- MODULE SandboxProofs ----------------------------
(***************************************************************************)
(* Proofs about Sandbox for groups of any size, any graph of channels,     *)
(* pipes of any capacity and any number of failing starts.                 *)
(***************************************************************************)
EXTENDS Sandbox, WellFoundedInduction, TLAPS

Causes == {None, "ok", "error", "pipe", "killed"} \cup LimitCauses

Outcomes == {"OK", "RE", "WallTLE", "TLE", "MLE", "SE"}

ParentOK ==
    /\ step \in {"start", "close", "wait", "done", "failed"}
    /\ mode \in Modes
    /\ next \in Nat \ {0} /\ (step = "start" => next <= Len(Launch))

ProcsOK ==
    /\ status \in [Procs -> {"none", "up", "gone"}]
    /\ cause \in [Procs -> Causes]
    /\ spent \in [Procs -> {"under", "at", "over"}]
    /\ results \in [Procs -> Outcomes \cup {None}]

\* Only Execute measures.
MeasureOK ==
    /\ measured \in BOOLEAN /\ (measured => mode \in {"standard", "special"})
    /\ logged \in [Procs -> BOOLEAN]

\* Time spent fits the reason for the end.
SpentOK ==
    \A p \in Procs :
        cause[p] = "cpu" /\ mode \in {"standard", "special"} => spent[p] \in {"at", "over"}

TInv == ParentOK /\ ProcsOK /\ MeasureOK /\ SpentOK

\* Once the parent waits it holds no end itself, and a process that has not started
\* or is gone holds none either.
HeldOK ==
    /\ DOMAIN held = Procs \cup {Parent}
    /\ step \in {"wait", "done"} => held[Parent] = {}
    /\ \A p \in Procs : held[p] # {} => status[p] = "up"

HInv == TInv /\ HeldOK

\* A result says how its process ended.
Tells(p) ==
    /\ results[p] = "OK" => cause[p] = "ok" /\ (measured => spent[p] # "over")
    /\ cause[p] \in {"cpu", "wall"} /\ mode # "communication" /\ (logged[p] \/ measured)
          => results[p] \in {"TLE", "WallTLE"}

ResultsOK ==
    /\ step \in {"start", "close"} => \A p \in Procs : results[p] = None
    /\ \A p \in Procs : results[p] # None => status[p] = "gone" /\ Tells(p)

DoneOK == step = "done" => AllGone

VInv == TInv /\ ResultsOK /\ DoneOK /\ VerdictIsDeserved

-----------------------------------------------------------------------------
\* Start is called for processes there are.
LEMMA LaunchFacts ==
    ASSUME mode \in Modes
    PROVE  /\ Len(Launch) \in Nat \ {0}
           /\ \A i \in 1 .. Len(Launch) : Launch[i] \in Procs
<1>0. GroupSize \in Nat /\ GroupSize >= 2 /\ Judge \in Nat /\ Judge = GroupSize + 1
  BY SandboxAssumption DEF Judge
<1>1. CASE mode = "interactive"
  BY <1>0, <1>1 DEF Launch, Procs
<1>2. CASE mode = "communication"
  <2> DEFINE L == [i \in Procs |-> i]
  <2>1. Launch = L
    BY <1>2 DEF Launch
  <2>2. Len(L) = Judge
    BY <1>0 DEF Procs
  <2> QED
    BY <1>0, <2>1, <2>2 DEF Procs
<1>3. CASE mode \notin {"interactive", "communication"}
  BY <1>0, <1>3 DEF Launch, Procs
<1> QED
  BY <1>1, <1>2, <1>3

\* The parent starts the processes one after the other.
LEMMA ParentStep ==
    TInv /\ [Next]_vars => ParentOK'
<1> SUFFICES ASSUME TInv, [Next]_vars PROVE ParentOK'
  OBVIOUS
<1>0. ParentOK /\ mode \in Modes
  BY DEF TInv, ParentOK
<1>a. Launch' = Launch
  <2>1. UNCHANGED mode
    BY DEF Next, vars, Start, StartFails, CloseAll, Deadline, Finish, Say, Turn, Write, Read,
           Exit, Overrun, Drain, Reap
  <2> QED
    BY <2>1 DEF Launch
<1>b. Len(Launch) \in Nat \ {0}
  BY <1>0, LaunchFacts
<1>1. CASE Start
  BY <1>1, <1>0, <1>a, <1>b DEF Start, ParentOK
<1>2. CASE StartFails
  BY <1>2, <1>0, <1>a, <1>b DEF StartFails, ParentOK
<1>3. CASE CloseAll
  BY <1>3, <1>0, <1>a, <1>b DEF CloseAll, ParentOK
<1>4. CASE Deadline
  BY <1>4, <1>0, <1>a, <1>b DEF Deadline, ParentOK
<1>5. CASE Finish
  BY <1>5, <1>0, <1>a, <1>b DEF Finish, ParentOK
<1>6. CASE Say
  BY <1>6, <1>0, <1>a, <1>b DEF Say, ParentOK
<1>7. ASSUME NEW p \in Procs, Turn(p) PROVE ParentOK'
  BY <1>7, <1>0, <1>a, <1>b DEF Turn, ParentOK
<1>8. ASSUME NEW p \in Procs, Write(p) PROVE ParentOK'
  BY <1>8, <1>0, <1>a, <1>b DEF Write, ParentOK
<1>9. ASSUME NEW p \in Procs, Read(p) PROVE ParentOK'
  BY <1>9, <1>0, <1>a, <1>b DEF Read, ParentOK
<1>10. ASSUME NEW p \in Procs, Exit(p) PROVE ParentOK'
  BY <1>10, <1>0, <1>a, <1>b DEF Exit, ParentOK
<1>11. ASSUME NEW p \in Procs, Overrun(p) PROVE ParentOK'
  BY <1>11, <1>0, <1>a, <1>b DEF Overrun, ParentOK
<1>12. ASSUME NEW p \in Procs, Drain(p) PROVE ParentOK'
  BY <1>12, <1>0, <1>a, <1>b DEF Drain, ParentOK
<1>13. ASSUME NEW p \in Procs, Reap(p) PROVE ParentOK'
  BY <1>13, <1>0, <1>a, <1>b DEF Reap, ParentOK
<1>14. CASE UNCHANGED vars
  BY <1>14, <1>0, <1>a, <1>b DEF vars, ParentOK
<1> QED
  BY <1>1, <1>2, <1>3, <1>4, <1>5, <1>6, <1>7, <1>8, <1>9, <1>10, <1>11, <1>12, <1>13,
     <1>14 DEF Next

\* A process ends: it is gone, holds nothing, and the others are untouched.
LEMMA EndFacts ==
    ASSUME ProcsOK, MeasureOK, NEW p \in Procs, NEW c \in Causes \ {None}, End(p, c)
    PROVE  /\ status' \in [Procs -> {"none", "up", "gone"}]
           /\ cause' \in [Procs -> Causes]
           /\ spent' \in [Procs -> {"under", "at", "over"}]
           /\ logged' \in [Procs -> BOOLEAN]
           /\ status'[p] = "gone" /\ cause'[p] = c
           /\ c = "cpu" /\ mode \in {"standard", "special"} => spent'[p] \in {"at", "over"}
           /\ \A q \in Procs \ {p} : /\ status'[q] = status[q] /\ cause'[q] = cause[q]
                                     /\ spent'[q] = spent[q] /\ logged'[q] = logged[q]
           /\ held' = [held EXCEPT ![p] = {}]
<1>1. PICK time \in CanHaveSpent(c) : spent' = [spent EXCEPT ![p] = time]
  BY DEF End
<1>2. /\ time \in {"under", "at", "over"}
      /\ c = "cpu" /\ mode \in {"standard", "special"} => time \in {"at", "over"}
  BY <1>1 DEF CanHaveSpent
<1>3. /\ spent' \in [Procs -> {"under", "at", "over"}] /\ spent'[p] = time
      /\ \A q \in Procs \ {p} : spent'[q] = spent[q]
  BY <1>1, <1>2 DEF ProcsOK
<1>4. PICK line \in BOOLEAN : logged' = [logged EXCEPT ![p] = line]
  BY DEF End
<1>5. /\ logged' \in [Procs -> BOOLEAN]
      /\ \A q \in Procs \ {p} : logged'[q] = logged[q]
  BY <1>4 DEF MeasureOK
<1>6. /\ status' \in [Procs -> {"none", "up", "gone"}] /\ cause' \in [Procs -> Causes]
      /\ status'[p] = "gone" /\ cause'[p] = c
      /\ \A q \in Procs \ {p} : status'[q] = status[q] /\ cause'[q] = cause[q]
      /\ held' = [held EXCEPT ![p] = {}]
  BY DEF End, ProcsOK
<1> QED
  BY <1>2, <1>3, <1>5, <1>6

\* What one of the programs may do to the processes: it ends, or nobody does.
LEMMA ProgramFacts ==
    ASSUME NEW p \in Procs, Turn(p) \/ Write(p) \/ Read(p) \/ Exit(p) \/ Overrun(p)
    PROVE  /\ status[p] = "up"
           /\ \/ UNCHANGED <<status, cause, spent, held, logged>>
              \/ \E c \in Causes \ {None} : End(p, c)
           /\ UNCHANGED <<mode, measured, step, next, drained, said, results, verdict, budget>>
<1>1. CASE Turn(p)
  BY <1>1 DEF Turn
<1>2. CASE Write(p)
  BY <1>2 DEF Write, Done, Causes, None
<1>3. CASE Read(p)
  BY <1>3 DEF Read, Done
<1>4. CASE Exit(p)
  BY <1>4 DEF Exit, Causes, None
<1>5. CASE Overrun(p)
  BY <1>5 DEF Overrun, LimitsOf, LimitCauses, Causes, None
<1> QED
  BY <1>1, <1>2, <1>3, <1>4, <1>5

\* parseResult and the second half of Execute, case by case.
LEMMA ResultFacts ==
    ASSUME TInv, NEW p \in Procs, NEW line \in Lines(p),
           NEW r \in parseResult(cause[p], line),
           NEW s, s = IF measured THEN Measured(r, p) ELSE r
    PROVE  /\ s \in Outcomes
           /\ s = "OK" => cause[p] = "ok" /\ (measured => spent[p] # "over")
           /\ cause[p] \in {"cpu", "wall"} /\ mode # "communication" /\ (logged[p] \/ measured)
                 => s \in {"TLE", "WallTLE"}
<1>1. r \in Outcomes /\ (r = "OK" => cause[p] = "ok")
  BY DEF parseResult, Outcomes
<1>2. cause[p] \in {"cpu", "wall"} /\ mode # "communication" /\ logged[p]
          => r \in {"TLE", "WallTLE"}
  BY DEF Lines, parseResult
<1>3. CASE ~measured
  BY <1>1, <1>2, <1>3
<1>4. CASE measured
  <2>0. s = Measured(r, p) /\ mode \in {"standard", "special"}
    BY <1>4 DEF TInv, MeasureOK
  <2>1. s \in Outcomes
    BY <1>1, <2>0 DEF Measured, Outcomes
  <2>2. s = "OK" => r = "OK" /\ spent[p] # "over"
    BY <2>0 DEF Measured
  <2>3. cause[p] = "wall" => s \in {"TLE", "WallTLE"}
    <3> SUFFICES ASSUME cause[p] = "wall" PROVE s \in {"TLE", "WallTLE"}
      OBVIOUS
    <3>1. r \in {"RE", "WallTLE"}
      BY DEF parseResult
    <3> QED
      BY <2>0, <3>1 DEF Measured
  <2>4. cause[p] = "cpu" => s \in {"TLE", "WallTLE"}
    <3> SUFFICES ASSUME cause[p] = "cpu" PROVE s \in {"TLE", "WallTLE"}
      OBVIOUS
    <3>1. r \in {"RE", "TLE"} /\ spent[p] \in {"at", "over"}
      BY <2>0 DEF parseResult, TInv, SpentOK
    <3> QED
      BY <2>0, <3>1 DEF Measured
  <2> QED
    BY <1>1, <2>1, <2>2, <2>3, <2>4
<1> QED
  BY <1>3, <1>4

\* The processes' columns keep their types.
LEMMA ProcsStep ==
    TInv /\ [Next]_vars => ProcsOK'
<1> SUFFICES ASSUME TInv, [Next]_vars PROVE ProcsOK'
  OBVIOUS
<1>0. ParentOK /\ ProcsOK /\ MeasureOK /\ SpentOK
  BY DEF TInv
<1>1. CASE Start
  <2>1. Launch[next] \in Procs
    BY <1>0, <1>1, LaunchFacts DEF Start, ParentOK
  <2> QED
    BY <1>0, <1>1, <2>1 DEF Start, ProcsOK
<1>2. CASE StartFails
  <2>1. CASE UNCHANGED <<status, cause>>
    BY <1>0, <1>2, <2>1 DEF StartFails, ProcsOK
  <2>2. CASE /\ status' = [p \in Procs |-> IF status[p] = "up" THEN "gone" ELSE status[p]]
             /\ cause' = [p \in Procs |-> IF status[p] = "up" THEN "killed" ELSE cause[p]]
    <3>1. "killed" \in Causes
      BY DEF Causes
    <3> QED
      BY <1>0, <1>2, <2>2, <3>1 DEF StartFails, ProcsOK
  <2> QED
    BY <1>2, <2>1, <2>2 DEF StartFails
<1>3. CASE CloseAll
  BY <1>3, <1>0 DEF CloseAll, ProcsOK
<1>4. CASE Deadline
  <2>1. "killed" \in Causes /\ CanHaveSpent("killed") \subseteq {"under", "at", "over"}
    BY DEF Causes, CanHaveSpent
  <2>2. PICK time \in {"under", "at", "over"} :
            spent' = [p \in Procs |-> IF status[p] = "up" THEN time ELSE spent[p]]
    BY <1>4, <2>1 DEF Deadline
  <2> QED
    BY <1>0, <1>4, <2>1, <2>2 DEF Deadline, ProcsOK
<1>5. CASE Finish
  BY <1>5, <1>0 DEF Finish, ProcsOK
<1>6. CASE Say
  BY <1>6, <1>0 DEF Say, ProcsOK
<1>7. ASSUME NEW p \in Procs, Turn(p) PROVE ProcsOK'
  <2>1. /\ UNCHANGED results
        /\ UNCHANGED <<status, cause, spent>> \/ \E c \in Causes \ {None} : End(p, c)
    BY <1>7, ProgramFacts
  <2>2. CASE UNCHANGED <<status, cause, spent>>
    BY <1>0, <2>1, <2>2 DEF ProcsOK
  <2>3. CASE \E c \in Causes \ {None} : End(p, c)
    BY <1>0, <2>1, <2>3, EndFacts DEF ProcsOK
  <2> QED
    BY <2>1, <2>2, <2>3
<1>8. ASSUME NEW p \in Procs, Write(p) PROVE ProcsOK'
  <2>1. /\ UNCHANGED results
        /\ UNCHANGED <<status, cause, spent>> \/ \E c \in Causes \ {None} : End(p, c)
    BY <1>8, ProgramFacts
  <2>2. CASE UNCHANGED <<status, cause, spent>>
    BY <1>0, <2>1, <2>2 DEF ProcsOK
  <2>3. CASE \E c \in Causes \ {None} : End(p, c)
    BY <1>0, <2>1, <2>3, EndFacts DEF ProcsOK
  <2> QED
    BY <2>1, <2>2, <2>3
<1>9. ASSUME NEW p \in Procs, Read(p) PROVE ProcsOK'
  <2>1. /\ UNCHANGED results
        /\ UNCHANGED <<status, cause, spent>> \/ \E c \in Causes \ {None} : End(p, c)
    BY <1>9, ProgramFacts
  <2>2. CASE UNCHANGED <<status, cause, spent>>
    BY <1>0, <2>1, <2>2 DEF ProcsOK
  <2>3. CASE \E c \in Causes \ {None} : End(p, c)
    BY <1>0, <2>1, <2>3, EndFacts DEF ProcsOK
  <2> QED
    BY <2>1, <2>2, <2>3
<1>10. ASSUME NEW p \in Procs, Exit(p) PROVE ProcsOK'
  <2>1. /\ UNCHANGED results
        /\ UNCHANGED <<status, cause, spent>> \/ \E c \in Causes \ {None} : End(p, c)
    BY <1>10, ProgramFacts
  <2>2. CASE UNCHANGED <<status, cause, spent>>
    BY <1>0, <2>1, <2>2 DEF ProcsOK
  <2>3. CASE \E c \in Causes \ {None} : End(p, c)
    BY <1>0, <2>1, <2>3, EndFacts DEF ProcsOK
  <2> QED
    BY <2>1, <2>2, <2>3
<1>11. ASSUME NEW p \in Procs, Overrun(p) PROVE ProcsOK'
  <2>1. /\ UNCHANGED results
        /\ UNCHANGED <<status, cause, spent>> \/ \E c \in Causes \ {None} : End(p, c)
    BY <1>11, ProgramFacts
  <2>2. CASE UNCHANGED <<status, cause, spent>>
    BY <1>0, <2>1, <2>2 DEF ProcsOK
  <2>3. CASE \E c \in Causes \ {None} : End(p, c)
    BY <1>0, <2>1, <2>3, EndFacts DEF ProcsOK
  <2> QED
    BY <2>1, <2>2, <2>3
<1>12. ASSUME NEW p \in Procs, Drain(p) PROVE ProcsOK'
  BY <1>12, <1>0 DEF Drain, ProcsOK
<1>13. ASSUME NEW p \in Procs, Reap(p) PROVE ProcsOK'
  <2>1. PICK line \in Lines(p) : \E r \in parseResult(cause[p], line) :
            results' = [results EXCEPT ![p] = IF measured THEN Measured(r, p) ELSE r]
    BY <1>13 DEF Reap
  <2>2. PICK r \in parseResult(cause[p], line) :
            results' = [results EXCEPT ![p] = IF measured THEN Measured(r, p) ELSE r]
    BY <2>1
  <2> DEFINE o == IF measured THEN Measured(r, p) ELSE r
  <2>3. o \in Outcomes
    BY <2>1, <2>2, ResultFacts
  <2> HIDE DEF o
  <2>4. results' = [results EXCEPT ![p] = o]
    BY <2>2 DEF o
  <2> QED
    BY <1>0, <1>13, <2>3, <2>4 DEF Reap, ProcsOK
<1>14. CASE UNCHANGED vars
  BY <1>14, <1>0 DEF vars, ProcsOK
<1> QED
  BY <1>1, <1>2, <1>3, <1>4, <1>5, <1>6, <1>7, <1>8, <1>9, <1>10, <1>11, <1>12, <1>13,
     <1>14 DEF Next

\* What is measured and logged.
LEMMA MeasureStep ==
    TInv /\ [Next]_vars => MeasureOK'
<1> SUFFICES ASSUME TInv, [Next]_vars PROVE MeasureOK'
  OBVIOUS
<1>0. ParentOK /\ ProcsOK /\ MeasureOK /\ SpentOK
  BY DEF TInv
<1>1. CASE Start
  BY <1>1, <1>0 DEF Start, MeasureOK
<1>2. CASE StartFails
  BY <1>2, <1>0 DEF StartFails, MeasureOK
<1>3. CASE CloseAll
  BY <1>3, <1>0 DEF CloseAll, MeasureOK
<1>4. CASE Deadline
  BY <1>4, <1>0 DEF Deadline, MeasureOK
<1>5. CASE Finish
  BY <1>5, <1>0 DEF Finish, MeasureOK
<1>6. CASE Say
  BY <1>6, <1>0 DEF Say, MeasureOK
<1>7. ASSUME NEW p \in Procs, Turn(p) PROVE MeasureOK'
  <2>1. /\ UNCHANGED <<mode, measured>>
        /\ UNCHANGED logged \/ \E c \in Causes \ {None} : End(p, c)
    BY <1>7, ProgramFacts
  <2>2. CASE UNCHANGED logged
    BY <1>0, <2>1, <2>2 DEF MeasureOK
  <2>3. CASE \E c \in Causes \ {None} : End(p, c)
    BY <1>0, <2>1, <2>3, EndFacts DEF MeasureOK
  <2> QED
    BY <2>1, <2>2, <2>3
<1>8. ASSUME NEW p \in Procs, Write(p) PROVE MeasureOK'
  <2>1. /\ UNCHANGED <<mode, measured>>
        /\ UNCHANGED logged \/ \E c \in Causes \ {None} : End(p, c)
    BY <1>8, ProgramFacts
  <2>2. CASE UNCHANGED logged
    BY <1>0, <2>1, <2>2 DEF MeasureOK
  <2>3. CASE \E c \in Causes \ {None} : End(p, c)
    BY <1>0, <2>1, <2>3, EndFacts DEF MeasureOK
  <2> QED
    BY <2>1, <2>2, <2>3
<1>9. ASSUME NEW p \in Procs, Read(p) PROVE MeasureOK'
  <2>1. /\ UNCHANGED <<mode, measured>>
        /\ UNCHANGED logged \/ \E c \in Causes \ {None} : End(p, c)
    BY <1>9, ProgramFacts
  <2>2. CASE UNCHANGED logged
    BY <1>0, <2>1, <2>2 DEF MeasureOK
  <2>3. CASE \E c \in Causes \ {None} : End(p, c)
    BY <1>0, <2>1, <2>3, EndFacts DEF MeasureOK
  <2> QED
    BY <2>1, <2>2, <2>3
<1>10. ASSUME NEW p \in Procs, Exit(p) PROVE MeasureOK'
  <2>1. /\ UNCHANGED <<mode, measured>>
        /\ UNCHANGED logged \/ \E c \in Causes \ {None} : End(p, c)
    BY <1>10, ProgramFacts
  <2>2. CASE UNCHANGED logged
    BY <1>0, <2>1, <2>2 DEF MeasureOK
  <2>3. CASE \E c \in Causes \ {None} : End(p, c)
    BY <1>0, <2>1, <2>3, EndFacts DEF MeasureOK
  <2> QED
    BY <2>1, <2>2, <2>3
<1>11. ASSUME NEW p \in Procs, Overrun(p) PROVE MeasureOK'
  <2>1. /\ UNCHANGED <<mode, measured>>
        /\ UNCHANGED logged \/ \E c \in Causes \ {None} : End(p, c)
    BY <1>11, ProgramFacts
  <2>2. CASE UNCHANGED logged
    BY <1>0, <2>1, <2>2 DEF MeasureOK
  <2>3. CASE \E c \in Causes \ {None} : End(p, c)
    BY <1>0, <2>1, <2>3, EndFacts DEF MeasureOK
  <2> QED
    BY <2>1, <2>2, <2>3
<1>12. ASSUME NEW p \in Procs, Drain(p) PROVE MeasureOK'
  BY <1>12, <1>0 DEF Drain, MeasureOK
<1>13. ASSUME NEW p \in Procs, Reap(p) PROVE MeasureOK'
  BY <1>13, <1>0 DEF Reap, MeasureOK
<1>14. CASE UNCHANGED vars
  BY <1>14, <1>0 DEF vars, MeasureOK
<1> QED
  BY <1>1, <1>2, <1>3, <1>4, <1>5, <1>6, <1>7, <1>8, <1>9, <1>10, <1>11, <1>12, <1>13,
     <1>14 DEF Next

\* A process stopped at its limit on CPU time has used it up.
LEMMA SpentStep ==
    TInv /\ [Next]_vars => SpentOK'
<1> SUFFICES ASSUME TInv, [Next]_vars PROVE SpentOK'
  OBVIOUS
<1>0. ParentOK /\ ProcsOK /\ MeasureOK /\ SpentOK
  BY DEF TInv
<1>1. CASE Start
  BY <1>1, <1>0 DEF Start, SpentOK
<1>2. CASE StartFails
  BY <1>2, <1>0 DEF StartFails, SpentOK, ProcsOK
<1>3. CASE CloseAll
  BY <1>3, <1>0 DEF CloseAll, SpentOK
<1>4. CASE Deadline
  <2>1. PICK time :
            spent' = [p \in Procs |-> IF status[p] = "up" THEN time ELSE spent[p]]
    BY <1>4 DEF Deadline
  <2> QED
    BY <1>0, <1>4, <2>1 DEF Deadline, SpentOK
<1>5. CASE Finish
  BY <1>5, <1>0 DEF Finish, SpentOK
<1>6. CASE Say
  BY <1>6, <1>0 DEF Say, SpentOK
<1>7. ASSUME NEW p \in Procs, Turn(p) PROVE SpentOK'
  <2>1. /\ UNCHANGED mode
        /\ UNCHANGED <<cause, spent>> \/ \E c \in Causes \ {None} : End(p, c)
    BY <1>7, ProgramFacts
  <2>2. CASE UNCHANGED <<cause, spent>>
    BY <1>0, <2>1, <2>2 DEF SpentOK
  <2>3. CASE \E c \in Causes \ {None} : End(p, c)
    BY <1>0, <2>1, <2>3, EndFacts DEF SpentOK
  <2> QED
    BY <2>1, <2>2, <2>3
<1>8. ASSUME NEW p \in Procs, Write(p) PROVE SpentOK'
  <2>1. /\ UNCHANGED mode
        /\ UNCHANGED <<cause, spent>> \/ \E c \in Causes \ {None} : End(p, c)
    BY <1>8, ProgramFacts
  <2>2. CASE UNCHANGED <<cause, spent>>
    BY <1>0, <2>1, <2>2 DEF SpentOK
  <2>3. CASE \E c \in Causes \ {None} : End(p, c)
    BY <1>0, <2>1, <2>3, EndFacts DEF SpentOK
  <2> QED
    BY <2>1, <2>2, <2>3
<1>9. ASSUME NEW p \in Procs, Read(p) PROVE SpentOK'
  <2>1. /\ UNCHANGED mode
        /\ UNCHANGED <<cause, spent>> \/ \E c \in Causes \ {None} : End(p, c)
    BY <1>9, ProgramFacts
  <2>2. CASE UNCHANGED <<cause, spent>>
    BY <1>0, <2>1, <2>2 DEF SpentOK
  <2>3. CASE \E c \in Causes \ {None} : End(p, c)
    BY <1>0, <2>1, <2>3, EndFacts DEF SpentOK
  <2> QED
    BY <2>1, <2>2, <2>3
<1>10. ASSUME NEW p \in Procs, Exit(p) PROVE SpentOK'
  <2>1. /\ UNCHANGED mode
        /\ UNCHANGED <<cause, spent>> \/ \E c \in Causes \ {None} : End(p, c)
    BY <1>10, ProgramFacts
  <2>2. CASE UNCHANGED <<cause, spent>>
    BY <1>0, <2>1, <2>2 DEF SpentOK
  <2>3. CASE \E c \in Causes \ {None} : End(p, c)
    BY <1>0, <2>1, <2>3, EndFacts DEF SpentOK
  <2> QED
    BY <2>1, <2>2, <2>3
<1>11. ASSUME NEW p \in Procs, Overrun(p) PROVE SpentOK'
  <2>1. /\ UNCHANGED mode
        /\ UNCHANGED <<cause, spent>> \/ \E c \in Causes \ {None} : End(p, c)
    BY <1>11, ProgramFacts
  <2>2. CASE UNCHANGED <<cause, spent>>
    BY <1>0, <2>1, <2>2 DEF SpentOK
  <2>3. CASE \E c \in Causes \ {None} : End(p, c)
    BY <1>0, <2>1, <2>3, EndFacts DEF SpentOK
  <2> QED
    BY <2>1, <2>2, <2>3
<1>12. ASSUME NEW p \in Procs, Drain(p) PROVE SpentOK'
  BY <1>12, <1>0 DEF Drain, SpentOK
<1>13. ASSUME NEW p \in Procs, Reap(p) PROVE SpentOK'
  BY <1>13, <1>0 DEF Reap, SpentOK
<1>14. CASE UNCHANGED vars
  BY <1>14, <1>0 DEF vars, SpentOK
<1> QED
  BY <1>1, <1>2, <1>3, <1>4, <1>5, <1>6, <1>7, <1>8, <1>9, <1>10, <1>11, <1>12, <1>13,
     <1>14 DEF Next

\* TInv is inductive.
LEMMA TInvStep == TInv /\ [Next]_vars => TInv'
  BY ParentStep, ProcsStep, MeasureStep, SpentStep DEF TInv

\* Nothing is started at first.
LEMMA TInvInit == Init => TInv
<1> SUFFICES ASSUME Init PROVE TInv
  OBVIOUS
<1>1. ParentOK
  BY LaunchFacts DEF Init, ParentOK
<1>2. ProcsOK /\ SpentOK
  BY DEF Init, ProcsOK, SpentOK, Causes, None
<1>3. MeasureOK
  BY DEF Init, MeasureOK
<1> QED
  BY <1>1, <1>2, <1>3 DEF TInv

\* The parent closes its copies before it waits; the kernel closes those of a process
\* that is gone.
LEMMA HeldStep ==
    HInv /\ [Next]_vars => HeldOK'
<1> SUFFICES ASSUME HInv, [Next]_vars PROVE HeldOK'
  OBVIOUS
<1>0. ParentOK /\ ProcsOK /\ MeasureOK /\ HeldOK
  BY DEF HInv, TInv
<1>a. Parent \notin Procs
  BY SandboxAssumption DEF Parent, Procs, Judge
<1>1. CASE Start
  <2>1. Launch[next] \in Procs
    BY <1>0, <1>1, LaunchFacts DEF Start, ParentOK
  <2>2. step' \notin {"wait", "done"}
    BY <1>1 DEF Start
  <2>3. \A p \in Procs : held'[p] # {} => status'[p] = "up"
    BY <1>0, <1>1, <2>1 DEF Start, ProcsOK, HeldOK
  <2> QED
    BY <1>0, <1>1, <2>2, <2>3 DEF Start, HeldOK
<1>2. CASE StartFails
  BY <1>2, <1>0, <1>a DEF StartFails, HeldOK, ProcsOK
<1>3. CASE CloseAll
  BY <1>3, <1>0, <1>a DEF CloseAll, HeldOK
<1>4. CASE Deadline
  BY <1>4, <1>0, <1>a DEF Deadline, HeldOK, ProcsOK
<1>5. CASE Finish
  BY <1>5, <1>0, <1>a DEF Finish, HeldOK
<1>6. CASE Say
  BY <1>6, <1>0, <1>a DEF Say, HeldOK
<1>7. ASSUME NEW p \in Procs, Turn(p) PROVE HeldOK'
  <2>1. /\ UNCHANGED step
        /\ UNCHANGED <<status, held>> \/ \E c \in Causes \ {None} : End(p, c)
    BY <1>7, ProgramFacts
  <2>2. CASE UNCHANGED <<status, held>>
    BY <1>0, <2>1, <2>2 DEF HeldOK
  <2>3. CASE \E c \in Causes \ {None} : End(p, c)
    <3>1. /\ held' = [held EXCEPT ![p] = {}]
          /\ \A q \in Procs \ {p} : status'[q] = status[q]
      BY <1>0, <2>3, EndFacts
    <3> QED
      BY <1>0, <1>a, <2>1, <3>1 DEF HeldOK
  <2> QED
    BY <2>1, <2>2, <2>3
<1>8. ASSUME NEW p \in Procs, Write(p) PROVE HeldOK'
  <2>1. /\ UNCHANGED step
        /\ UNCHANGED <<status, held>> \/ \E c \in Causes \ {None} : End(p, c)
    BY <1>8, ProgramFacts
  <2>2. CASE UNCHANGED <<status, held>>
    BY <1>0, <2>1, <2>2 DEF HeldOK
  <2>3. CASE \E c \in Causes \ {None} : End(p, c)
    <3>1. /\ held' = [held EXCEPT ![p] = {}]
          /\ \A q \in Procs \ {p} : status'[q] = status[q]
      BY <1>0, <2>3, EndFacts
    <3> QED
      BY <1>0, <1>a, <2>1, <3>1 DEF HeldOK
  <2> QED
    BY <2>1, <2>2, <2>3
<1>9. ASSUME NEW p \in Procs, Read(p) PROVE HeldOK'
  <2>1. /\ UNCHANGED step
        /\ UNCHANGED <<status, held>> \/ \E c \in Causes \ {None} : End(p, c)
    BY <1>9, ProgramFacts
  <2>2. CASE UNCHANGED <<status, held>>
    BY <1>0, <2>1, <2>2 DEF HeldOK
  <2>3. CASE \E c \in Causes \ {None} : End(p, c)
    <3>1. /\ held' = [held EXCEPT ![p] = {}]
          /\ \A q \in Procs \ {p} : status'[q] = status[q]
      BY <1>0, <2>3, EndFacts
    <3> QED
      BY <1>0, <1>a, <2>1, <3>1 DEF HeldOK
  <2> QED
    BY <2>1, <2>2, <2>3
<1>10. ASSUME NEW p \in Procs, Exit(p) PROVE HeldOK'
  <2>1. /\ UNCHANGED step
        /\ UNCHANGED <<status, held>> \/ \E c \in Causes \ {None} : End(p, c)
    BY <1>10, ProgramFacts
  <2>2. CASE UNCHANGED <<status, held>>
    BY <1>0, <2>1, <2>2 DEF HeldOK
  <2>3. CASE \E c \in Causes \ {None} : End(p, c)
    <3>1. /\ held' = [held EXCEPT ![p] = {}]
          /\ \A q \in Procs \ {p} : status'[q] = status[q]
      BY <1>0, <2>3, EndFacts
    <3> QED
      BY <1>0, <1>a, <2>1, <3>1 DEF HeldOK
  <2> QED
    BY <2>1, <2>2, <2>3
<1>11. ASSUME NEW p \in Procs, Overrun(p) PROVE HeldOK'
  <2>1. /\ UNCHANGED step
        /\ UNCHANGED <<status, held>> \/ \E c \in Causes \ {None} : End(p, c)
    BY <1>11, ProgramFacts
  <2>2. CASE UNCHANGED <<status, held>>
    BY <1>0, <2>1, <2>2 DEF HeldOK
  <2>3. CASE \E c \in Causes \ {None} : End(p, c)
    <3>1. /\ held' = [held EXCEPT ![p] = {}]
          /\ \A q \in Procs \ {p} : status'[q] = status[q]
      BY <1>0, <2>3, EndFacts
    <3> QED
      BY <1>0, <1>a, <2>1, <3>1 DEF HeldOK
  <2> QED
    BY <2>1, <2>2, <2>3
<1>12. ASSUME NEW p \in Procs, Drain(p) PROVE HeldOK'
  BY <1>12, <1>0, <1>a DEF Drain, HeldOK
<1>13. ASSUME NEW p \in Procs, Reap(p) PROVE HeldOK'
  BY <1>13, <1>0, <1>a DEF Reap, HeldOK
<1>14. CASE UNCHANGED vars
  BY <1>14, <1>0, <1>a DEF vars, HeldOK
<1> QED
  BY <1>1, <1>2, <1>3, <1>4, <1>5, <1>6, <1>7, <1>8, <1>9, <1>10, <1>11, <1>12, <1>13,
     <1>14 DEF Next

\* StuckOnPartner: whoever waits on a pipe is kept waiting by a process that runs,
\* never by an end the parent forgot to close or a process that is gone.
THEOREM NobodyLeftWaiting == Spec => []StuckOnPartner
<1>1. Init => HInv
  <2> SUFFICES ASSUME Init PROVE HeldOK
    BY TInvInit DEF HInv
  <2>1. Parent \notin Procs
    BY SandboxAssumption DEF Parent, Procs, Judge
  <2> QED
    BY <2>1 DEF Init, HeldOK
<1>2. HInv /\ [Next]_vars => HInv'
  BY TInvStep, HeldStep DEF HInv
<1>3. HInv => StuckOnPartner
  <2>1. ASSUME HInv, step = "wait", NEW e, NEW x \in Holders(e)
        PROVE  x \in Procs /\ status[x] = "up"
    BY <2>1 DEF HInv, HeldOK, Holders
  <2> QED
    BY <2>1 DEF StuckOnPartner
<1> QED
  BY <1>1, <1>2, <1>3, PTL DEF Spec

\* Results are taken of processes that are gone, and say how those ended.
LEMMA ResultsStep ==
    VInv /\ [Next]_vars => ResultsOK'
<1> SUFFICES ASSUME VInv, [Next]_vars PROVE ResultsOK'
  OBVIOUS
<1>0. ParentOK /\ ProcsOK /\ MeasureOK /\ SpentOK /\ ResultsOK /\ DoneOK
  BY DEF VInv, TInv
<1>1. CASE Start
  <2>1. Launch[next] \in Procs
    BY <1>0, <1>1, LaunchFacts DEF Start, ParentOK
  <2>2. \A p \in Procs : results'[p] = None
    BY <1>0, <1>1 DEF Start, ResultsOK
  <2> QED
    BY <2>2 DEF ResultsOK
<1>2. CASE StartFails
  <2>1. \A p \in Procs : results'[p] = None
    BY <1>0, <1>2 DEF StartFails, ResultsOK
  <2> QED
    BY <2>1 DEF ResultsOK
<1>3. CASE CloseAll
  BY <1>3, <1>0 DEF CloseAll, ResultsOK, Tells
<1>4. CASE Deadline
  <2>1. PICK time :
            spent' = [p \in Procs |-> IF status[p] = "up" THEN time ELSE spent[p]]
    BY <1>4 DEF Deadline
  <2>2. /\ UNCHANGED <<step, mode, measured, logged, results>>
        /\ \A p \in Procs : status[p] = "gone" =>
              status'[p] = "gone" /\ cause'[p] = cause[p] /\ spent'[p] = spent[p]
    BY <1>4, <2>1 DEF Deadline
  <2> QED
    BY <1>0, <2>2 DEF ResultsOK, Tells
<1>5. CASE Finish
  BY <1>5, <1>0 DEF Finish, ResultsOK, Tells
<1>6. CASE Say
  BY <1>6, <1>0 DEF Say, ResultsOK, Tells
<1>7. ASSUME NEW p \in Procs, Turn(p) PROVE ResultsOK'
  <2>1. /\ status[p] = "up" /\ UNCHANGED <<step, mode, measured, results>>
        /\ \/ UNCHANGED <<status, cause, spent, logged>>
           \/ \E c \in Causes \ {None} : End(p, c)
    BY <1>7, ProgramFacts
  <2>2. CASE UNCHANGED <<status, cause, spent, logged>>
    BY <1>0, <2>1, <2>2 DEF ResultsOK, Tells
  <2>3. CASE \E c \in Causes \ {None} : End(p, c)
    <3>1. \A q \in Procs \ {p} : /\ status'[q] = status[q] /\ cause'[q] = cause[q]
                                 /\ spent'[q] = spent[q] /\ logged'[q] = logged[q]
      BY <1>0, <2>3, EndFacts
    <3>2. results[p] = None
      BY <1>0, <2>1 DEF ResultsOK
    <3> QED
      BY <1>0, <2>1, <3>1, <3>2 DEF ResultsOK, Tells
  <2> QED
    BY <2>1, <2>2, <2>3
<1>8. ASSUME NEW p \in Procs, Write(p) PROVE ResultsOK'
  <2>1. /\ status[p] = "up" /\ UNCHANGED <<step, mode, measured, results>>
        /\ \/ UNCHANGED <<status, cause, spent, logged>>
           \/ \E c \in Causes \ {None} : End(p, c)
    BY <1>8, ProgramFacts
  <2>2. CASE UNCHANGED <<status, cause, spent, logged>>
    BY <1>0, <2>1, <2>2 DEF ResultsOK, Tells
  <2>3. CASE \E c \in Causes \ {None} : End(p, c)
    <3>1. \A q \in Procs \ {p} : /\ status'[q] = status[q] /\ cause'[q] = cause[q]
                                 /\ spent'[q] = spent[q] /\ logged'[q] = logged[q]
      BY <1>0, <2>3, EndFacts
    <3>2. results[p] = None
      BY <1>0, <2>1 DEF ResultsOK
    <3> QED
      BY <1>0, <2>1, <3>1, <3>2 DEF ResultsOK, Tells
  <2> QED
    BY <2>1, <2>2, <2>3
<1>9. ASSUME NEW p \in Procs, Read(p) PROVE ResultsOK'
  <2>1. /\ status[p] = "up" /\ UNCHANGED <<step, mode, measured, results>>
        /\ \/ UNCHANGED <<status, cause, spent, logged>>
           \/ \E c \in Causes \ {None} : End(p, c)
    BY <1>9, ProgramFacts
  <2>2. CASE UNCHANGED <<status, cause, spent, logged>>
    BY <1>0, <2>1, <2>2 DEF ResultsOK, Tells
  <2>3. CASE \E c \in Causes \ {None} : End(p, c)
    <3>1. \A q \in Procs \ {p} : /\ status'[q] = status[q] /\ cause'[q] = cause[q]
                                 /\ spent'[q] = spent[q] /\ logged'[q] = logged[q]
      BY <1>0, <2>3, EndFacts
    <3>2. results[p] = None
      BY <1>0, <2>1 DEF ResultsOK
    <3> QED
      BY <1>0, <2>1, <3>1, <3>2 DEF ResultsOK, Tells
  <2> QED
    BY <2>1, <2>2, <2>3
<1>10. ASSUME NEW p \in Procs, Exit(p) PROVE ResultsOK'
  <2>1. /\ status[p] = "up" /\ UNCHANGED <<step, mode, measured, results>>
        /\ \/ UNCHANGED <<status, cause, spent, logged>>
           \/ \E c \in Causes \ {None} : End(p, c)
    BY <1>10, ProgramFacts
  <2>2. CASE UNCHANGED <<status, cause, spent, logged>>
    BY <1>0, <2>1, <2>2 DEF ResultsOK, Tells
  <2>3. CASE \E c \in Causes \ {None} : End(p, c)
    <3>1. \A q \in Procs \ {p} : /\ status'[q] = status[q] /\ cause'[q] = cause[q]
                                 /\ spent'[q] = spent[q] /\ logged'[q] = logged[q]
      BY <1>0, <2>3, EndFacts
    <3>2. results[p] = None
      BY <1>0, <2>1 DEF ResultsOK
    <3> QED
      BY <1>0, <2>1, <3>1, <3>2 DEF ResultsOK, Tells
  <2> QED
    BY <2>1, <2>2, <2>3
<1>11. ASSUME NEW p \in Procs, Overrun(p) PROVE ResultsOK'
  <2>1. /\ status[p] = "up" /\ UNCHANGED <<step, mode, measured, results>>
        /\ \/ UNCHANGED <<status, cause, spent, logged>>
           \/ \E c \in Causes \ {None} : End(p, c)
    BY <1>11, ProgramFacts
  <2>2. CASE UNCHANGED <<status, cause, spent, logged>>
    BY <1>0, <2>1, <2>2 DEF ResultsOK, Tells
  <2>3. CASE \E c \in Causes \ {None} : End(p, c)
    <3>1. \A q \in Procs \ {p} : /\ status'[q] = status[q] /\ cause'[q] = cause[q]
                                 /\ spent'[q] = spent[q] /\ logged'[q] = logged[q]
      BY <1>0, <2>3, EndFacts
    <3>2. results[p] = None
      BY <1>0, <2>1 DEF ResultsOK
    <3> QED
      BY <1>0, <2>1, <3>1, <3>2 DEF ResultsOK, Tells
  <2> QED
    BY <2>1, <2>2, <2>3
<1>12. ASSUME NEW p \in Procs, Drain(p) PROVE ResultsOK'
  BY <1>12, <1>0 DEF Drain, ResultsOK, Tells
<1>13. ASSUME NEW p \in Procs, Reap(p) PROVE ResultsOK'
  <2>0. /\ step = "wait" /\ status[p] = "gone"
        /\ UNCHANGED <<step, mode, measured, status, cause, spent, logged>>
    BY <1>13 DEF Reap
  <2>1. PICK line \in Lines(p) : \E r \in parseResult(cause[p], line) :
            results' = [results EXCEPT ![p] = IF measured THEN Measured(r, p) ELSE r]
    BY <1>13 DEF Reap
  <2>2. PICK r \in parseResult(cause[p], line) :
            results' = [results EXCEPT ![p] = IF measured THEN Measured(r, p) ELSE r]
    BY <2>1
  <2> DEFINE o == IF measured THEN Measured(r, p) ELSE r
  <2>3. /\ o = "OK" => cause[p] = "ok" /\ (measured => spent[p] # "over")
        /\ cause[p] \in {"cpu", "wall"} /\ mode # "communication" /\ (logged[p] \/ measured)
              => o \in {"TLE", "WallTLE"}
    BY <2>1, <2>2, ResultFacts DEF VInv
  <2> HIDE DEF o
  <2>4. results'[p] = o /\ \A q \in Procs \ {p} : results'[q] = results[q]
    BY <1>0, <2>2 DEF o, ProcsOK
  <2> QED
    BY <1>0, <2>0, <2>3, <2>4 DEF ResultsOK, Tells
<1>14. CASE UNCHANGED vars
  BY <1>14, <1>0 DEF vars, ResultsOK, Tells
<1> QED
  BY <1>1, <1>2, <1>3, <1>4, <1>5, <1>6, <1>7, <1>8, <1>9, <1>10, <1>11, <1>12, <1>13,
     <1>14 DEF Next

\* Nothing runs any more once the verdict is there.
LEMMA DoneStep ==
    VInv /\ [Next]_vars => DoneOK'
<1> SUFFICES ASSUME VInv, [Next]_vars PROVE DoneOK'
  OBVIOUS
<1>0. ParentOK /\ ProcsOK /\ MeasureOK /\ SpentOK /\ ResultsOK /\ DoneOK
  BY DEF VInv, TInv
<1>1. CASE Start
  BY <1>1, <1>0 DEF Start, DoneOK, AllGone
<1>2. CASE StartFails
  BY <1>2, <1>0 DEF StartFails, DoneOK, AllGone
<1>3. CASE CloseAll
  BY <1>3, <1>0 DEF CloseAll, DoneOK, AllGone
<1>4. CASE Deadline
  BY <1>4, <1>0 DEF Deadline, DoneOK, AllGone
<1>5. CASE Finish
  BY <1>5, <1>0 DEF Finish, DoneOK, AllGone
<1>6. CASE Say
  BY <1>6, <1>0 DEF Say, DoneOK, AllGone
<1>7. ASSUME NEW p \in Procs, Turn(p) PROVE DoneOK'
  <2>1. status[p] = "up" /\ UNCHANGED step
    BY <1>7, ProgramFacts
  <2> QED
    BY <1>0, <2>1 DEF DoneOK, AllGone
<1>8. ASSUME NEW p \in Procs, Write(p) PROVE DoneOK'
  <2>1. status[p] = "up" /\ UNCHANGED step
    BY <1>8, ProgramFacts
  <2> QED
    BY <1>0, <2>1 DEF DoneOK, AllGone
<1>9. ASSUME NEW p \in Procs, Read(p) PROVE DoneOK'
  <2>1. status[p] = "up" /\ UNCHANGED step
    BY <1>9, ProgramFacts
  <2> QED
    BY <1>0, <2>1 DEF DoneOK, AllGone
<1>10. ASSUME NEW p \in Procs, Exit(p) PROVE DoneOK'
  <2>1. status[p] = "up" /\ UNCHANGED step
    BY <1>10, ProgramFacts
  <2> QED
    BY <1>0, <2>1 DEF DoneOK, AllGone
<1>11. ASSUME NEW p \in Procs, Overrun(p) PROVE DoneOK'
  <2>1. status[p] = "up" /\ UNCHANGED step
    BY <1>11, ProgramFacts
  <2> QED
    BY <1>0, <2>1 DEF DoneOK, AllGone
<1>12. ASSUME NEW p \in Procs, Drain(p) PROVE DoneOK'
  BY <1>12, <1>0 DEF Drain, DoneOK, AllGone
<1>13. ASSUME NEW p \in Procs, Reap(p) PROVE DoneOK'
  BY <1>13, <1>0 DEF Reap, DoneOK, AllGone
<1>14. CASE UNCHANGED vars
  BY <1>14, <1>0 DEF vars, DoneOK, AllGone
<1> QED
  BY <1>1, <1>2, <1>3, <1>4, <1>5, <1>6, <1>7, <1>8, <1>9, <1>10, <1>11, <1>12, <1>13,
     <1>14 DEF Next

\* A non-empty set of numbers has a least one.
LEMMA LeastExists ==
    ASSUME NEW T, T \subseteq Nat, T # {}
    PROVE  \E k \in T : \A l \in T : k <= l
<1> DEFINE less == {q \in Nat \X Nat : q[1] < q[2]}
<1>1. IsWellFoundedOn(less, Nat)
  BY NatLessThanWellFounded, Zenon DEF OpToRel
<1>2. PICK k \in T : \A l \in T : ~ (<<l, k>> \in less)
  BY <1>1, WFMin
<1>3. ASSUME NEW l \in T PROVE k <= l
  <2>1. k \in Nat /\ l \in Nat
    BY <1>2
  <2>2. ~ (l < k)
    BY <1>2, <2>1
  <2> QED
    BY <2>1, <2>2
<1> QED
  BY <1>2, <1>3

\* worstProcess is the result of a process of the contestant, and none has a worse one.
LEMMA WorstFacts ==
    ASSUME VInv, \A p \in Contestants : results[p] # None
    PROVE  \E p \in Contestants :
               /\ worstProcess = results[p]
               /\ \A q \in Contestants : Severity[results[q]] <= Severity[results[p]]
<1>0. /\ Contestants \subseteq Procs /\ Contestants # {} /\ Contestants \subseteq Nat
  BY SandboxAssumption DEF Contestants, Procs, Judge
<1>1. \A o \in Outcomes : Severity[o] \in 0 .. 5
  BY DEF Severity, Outcomes
<1>2. \A p \in Contestants : results[p] \in Outcomes /\ Severity[results[p]] \in 0 .. 5
  BY <1>0, <1>1 DEF VInv, TInv, ProcsOK
<1> DEFINE Sev(p) == Severity[results[p]]
<1> HIDE DEF Sev
<1>3. \A p \in Contestants : Sev(p) \in 0 .. 5 /\ 5 - Sev(p) \in Nat
  BY <1>2 DEF Sev
<1> DEFINE K == {5 - Sev(p) : p \in Contestants}
<1>4. PICK k \in K : \A l \in K : k <= l
  <2>1. K \subseteq Nat /\ K # {}
    BY <1>0, <1>3
  <2> HIDE DEF K
  <2> QED
    BY <2>1, LeastExists
<1> DEFINE W == {p \in Contestants : 5 - Sev(p) = k}
<1>5. PICK m \in W : \A l \in W : m <= l
  <2>1. W \subseteq Nat /\ W # {}
    BY <1>0, <1>4
  <2> HIDE DEF W
  <2> QED
    BY <2>1, LeastExists
<1>6. \A q \in Contestants : Sev(q) < Sev(m) \/ (Sev(q) = Sev(m) /\ m <= q)
  <2> TAKE q \in Contestants
  <2>1. k <= 5 - Sev(q) /\ 5 - Sev(m) = k /\ m \in Contestants
    BY <1>4, <1>5
  <2>2. CASE 5 - Sev(q) = k
    BY <1>3, <1>5, <2>1, <2>2
  <2>3. CASE 5 - Sev(q) # k
    BY <1>3, <2>1, <2>3
  <2> QED
    BY <2>2, <2>3
<1> DEFINE Worst(p) == \A q \in Contestants : Sev(q) < Sev(p) \/ (Sev(q) = Sev(p) /\ p <= q)
           w == CHOOSE p \in Contestants : Worst(p)
<1>7. w \in Contestants /\ Worst(w)
  <2>1. m \in Contestants /\ Worst(m)
    BY <1>5, <1>6
  <2> HIDE DEF Worst
  <2> QED
    BY <2>1
<1>8. worstProcess = results[w]
  BY DEF worstProcess, Sev
<1> HIDE DEF w
<1>9. \A q \in Contestants : Severity[results[q]] <= Severity[results[w]]
  BY <1>3, <1>7 DEF Sev
<1> QED
  BY <1>7, <1>8, <1>9

\* ParseVerdict: the verdict of the results and of the judge's line.
LEMMA VerdictFacts ==
    ASSUME VInv, AllGone, \A p \in Contestants : results[p] # None,
           NEW line, NEW v, v = ParseVerdict(line, worstProcess)
    PROVE  /\ v = "AC" =>
                 /\ line = "AC"
                 /\ \A p \in Contestants : cause[p] = "ok" /\ (measured => spent[p] # "over")
           /\ \A p \in Contestants :
                 (cause[p] \in {"cpu", "wall"} /\ mode # "communication" /\ (logged[p] \/ measured))
                     => v = "TLE"
<1>0. Contestants \subseteq Procs /\ ResultsOK /\ ProcsOK
  BY SandboxAssumption DEF Contestants, Procs, Judge, VInv, TInv
<1>1. PICK w \in Contestants :
          /\ worstProcess = results[w]
          /\ \A q \in Contestants : Severity[results[q]] <= Severity[results[w]]
  BY WorstFacts
<1>2. \A p \in Contestants : Tells(p) /\ results[p] \in Outcomes
  BY <1>0 DEF ResultsOK, ProcsOK
<1>3. ASSUME v = "AC"
      PROVE  line = "AC" /\ \A p \in Contestants : results[p] = "OK"
  <2>a. execStatusToSubmission(results[w]) # "AC"
    BY <1>2 DEF execStatusToSubmission, Outcomes
  <2>b. results[w] = "OK"
    BY <1>1, <1>3, <2>a DEF ParseVerdict
  <2>1. results[w] = "OK" /\ line = "AC"
    BY <1>1, <1>3, <2>b DEF ParseVerdict
  <2>2. \A o \in Outcomes : Severity[o] <= Severity["OK"] => o = "OK"
    BY DEF Severity, Outcomes
  <2> QED
    BY <1>1, <1>2, <2>1, <2>2
<1>4. ASSUME NEW p \in Contestants, cause[p] \in {"cpu", "wall"},
             mode # "communication", logged[p] \/ measured
      PROVE  v = "TLE"
  <2>1. p = w
    BY <1>4 DEF Contestants
  <2>2. results[w] \in {"TLE", "WallTLE"}
    BY <1>2, <1>4, <2>1 DEF Tells
  <2>3. execStatusToSubmission(results[w]) = "TLE" /\ results[w] # "OK"
    BY <2>2 DEF execStatusToSubmission
  <2> QED
    BY <1>1, <2>3 DEF ParseVerdict
<1> QED
  BY <1>2, <1>3, <1>4 DEF Tells

\* The verdict is given once, and nothing it rests on changes afterwards.
LEMMA VerdictStep ==
    VInv /\ [Next]_vars => VerdictIsDeserved'
<1> SUFFICES ASSUME VInv, [Next]_vars PROVE VerdictIsDeserved'
  OBVIOUS
<1>0. ParentOK /\ ProcsOK /\ MeasureOK /\ SpentOK /\ ResultsOK /\ DoneOK
  BY DEF VInv, TInv
<1>a. VerdictIsDeserved
  BY DEF VInv
<1>1. CASE Start
  BY <1>1, <1>0, <1>a DEF Start, VerdictIsDeserved, Contestants
<1>2. CASE StartFails
  <2>1. step' # "done"
    BY <1>2 DEF StartFails
  <2> QED
    BY <2>1 DEF VerdictIsDeserved
<1>3. CASE CloseAll
  BY <1>3, <1>0, <1>a DEF CloseAll, VerdictIsDeserved, Contestants
<1>4. CASE Deadline
  <2>1. step' # "done"
    BY <1>4 DEF Deadline
  <2> QED
    BY <2>1 DEF VerdictIsDeserved
<1>5. CASE Finish
  <2>1. /\ AllGone /\ \A p \in Contestants : results[p] # None
        /\ verdict' = ParseVerdict(said', worstProcess)
        /\ UNCHANGED <<mode, measured, cause, spent, logged>>
    BY <1>5 DEF Finish
  <2>2. /\ verdict' = "AC" =>
              /\ said' = "AC"
              /\ \A p \in Contestants : cause[p] = "ok" /\ (measured => spent[p] # "over")
        /\ \A p \in Contestants :
              (cause[p] \in {"cpu", "wall"} /\ mode # "communication" /\ (logged[p] \/ measured))
                  => verdict' = "TLE"
    BY <2>1, VerdictFacts
  <2>3. Contestants' = Contestants
    BY <2>1 DEF Contestants
  <2> QED
    BY <2>1, <2>2, <2>3 DEF VerdictIsDeserved
<1>6. CASE Say
  <2>1. step' # "done"
    <3>1. Judge \in Procs
      BY SandboxAssumption DEF Judge, Procs
    <3> QED
      BY <1>0, <1>6, <3>1 DEF Say, DoneOK, AllGone
  <2> QED
    BY <2>1 DEF VerdictIsDeserved
<1>7. ASSUME NEW p \in Procs, Turn(p) PROVE VerdictIsDeserved'
  <2>1. status[p] = "up" /\ UNCHANGED step
    BY <1>7, ProgramFacts
  <2>2. step' # "done"
    BY <1>0, <2>1 DEF DoneOK, AllGone
  <2> QED
    BY <2>2 DEF VerdictIsDeserved
<1>8. ASSUME NEW p \in Procs, Write(p) PROVE VerdictIsDeserved'
  <2>1. status[p] = "up" /\ UNCHANGED step
    BY <1>8, ProgramFacts
  <2>2. step' # "done"
    BY <1>0, <2>1 DEF DoneOK, AllGone
  <2> QED
    BY <2>2 DEF VerdictIsDeserved
<1>9. ASSUME NEW p \in Procs, Read(p) PROVE VerdictIsDeserved'
  <2>1. status[p] = "up" /\ UNCHANGED step
    BY <1>9, ProgramFacts
  <2>2. step' # "done"
    BY <1>0, <2>1 DEF DoneOK, AllGone
  <2> QED
    BY <2>2 DEF VerdictIsDeserved
<1>10. ASSUME NEW p \in Procs, Exit(p) PROVE VerdictIsDeserved'
  <2>1. status[p] = "up" /\ UNCHANGED step
    BY <1>10, ProgramFacts
  <2>2. step' # "done"
    BY <1>0, <2>1 DEF DoneOK, AllGone
  <2> QED
    BY <2>2 DEF VerdictIsDeserved
<1>11. ASSUME NEW p \in Procs, Overrun(p) PROVE VerdictIsDeserved'
  <2>1. status[p] = "up" /\ UNCHANGED step
    BY <1>11, ProgramFacts
  <2>2. step' # "done"
    BY <1>0, <2>1 DEF DoneOK, AllGone
  <2> QED
    BY <2>2 DEF VerdictIsDeserved
<1>12. ASSUME NEW p \in Procs, Drain(p) PROVE VerdictIsDeserved'
  BY <1>12, <1>0, <1>a DEF Drain, VerdictIsDeserved, Contestants
<1>13. ASSUME NEW p \in Procs, Reap(p) PROVE VerdictIsDeserved'
  BY <1>13, <1>0, <1>a DEF Reap, VerdictIsDeserved, Contestants
<1>14. CASE UNCHANGED vars
  BY <1>14, <1>0, <1>a DEF vars, VerdictIsDeserved, Contestants
<1> QED
  BY <1>1, <1>2, <1>3, <1>4, <1>5, <1>6, <1>7, <1>8, <1>9, <1>10, <1>11, <1>12, <1>13,
     <1>14 DEF Next

\* VerdictIsDeserved: no accepted run was killed, failed or took too long, and a run
\* that was stopped at its time limit is reported as that, for groups of any size.
THEOREM VerdictsDeserved == Spec => []VerdictIsDeserved
<1>1. Init => VInv
  BY TInvInit DEF Init, VInv, ResultsOK, DoneOK, VerdictIsDeserved
<1>2. VInv /\ [Next]_vars => VInv'
  BY TInvStep, ResultsStep, DoneStep, VerdictStep DEF VInv
<1>3. VInv => VerdictIsDeserved
  BY DEF VInv
<1> QED
  BY <1>1, <1>2, <1>3, PTL DEF Spec

=============================================================================
