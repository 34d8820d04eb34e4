--------------------------- MODULE JudgingProofs ----------------------------
(***************************************************************************)
(* The safety theorems of the judger nodes and the pipeline around them,   *)
(* for any number of nodes, workers, submissions, test cases, faults and   *)
(* tasks: what is published is sound, what is consumed is answered, no two *)
(* nodes work on the same task, no pending row is unaccounted for, and the *)
(* pipeline implements the abstract judging service.                       *)
(***************************************************************************)
EXTENDS JudgePipeline, WellFoundedInduction, TLAPS

USE DEF history

-----------------------------------------------------------------------------
\* Facts about the operators and actions of Scheduler, and its types.
Consumed(w) == at[w] \in {"handle", "ack"}

\* Entries named anywhere exist, and a worker is inside handleMessage exactly
\* when dispatch has called it; a node that is down has no goroutines.
EntriesOK ==
    /\ tasks.first \in 1 .. Len(tasks.msgs) + 1
    /\ group.next \in 1 .. Len(tasks.msgs) + 1
    /\ results.first >= 1
    /\ \A e \in group.pel : e.id \in 1 .. Len(tasks.msgs) /\ e.id < group.next
    /\ \A w \in Workers :
          /\ batch[w] \subseteq 1 .. Len(tasks.msgs)
          /\ Consumed(w) => cur[w] \in 1 .. Len(tasks.msgs)
          /\ stage[w] # "none" <=> at[w] = "handle"
          /\ node[NodeOf[w]] = "down" => at[w] = "off"

TInv == TypeOK /\ EntriesOK

judgerState == <<streamVars, results, nodeVars, judgeVars, history>>

\* A step of the nodes or of what surrounds them: the API server publishes a
\* task, or does something that the nodes see nothing of but the faults left.
AnyStep ==
    \/ JudgerNext
    \/ \E s \in Submissions : EnqueueTask(s) /\ budget' \in Nat
    \/ UNCHANGED judgerState /\ budget' \in Nat

\* XADD appends the message, keeps the earlier ones and may move the start of
\* the stream forward, never past its last entry.
LEMMA XAddFacts ==
    ASSUME NEW M, NEW l \in [msgs : Seq(M), first : Nat], NEW m \in M,
           l.first >= 1, NEW k \in TaskQ!XAdd(l, m)
    PROVE  /\ k \in [msgs : Seq(M), first : Nat]
           /\ k.msgs = Append(l.msgs, m)
           /\ Len(k.msgs) = Len(l.msgs) + 1
           /\ k.first >= l.first
           /\ k.first <= Len(l.msgs) + 1 \/ k.first = l.first
           /\ \A i \in 1 .. Len(l.msgs) : k.msgs[i] = l.msgs[i]
           /\ k.msgs[Len(l.msgs) + 1] = m
<1>1. PICK f \in {l.first} \cup
                  {i \in l.first .. Len(l.msgs) + 1 :
                      Len(l.msgs) + 2 - i >= StreamMaxLen} :
            k = [msgs |-> Append(l.msgs, m), first |-> f]
  BY DEF TaskQ!XAdd
<1>2. /\ f \in Nat /\ f >= l.first
      /\ f <= Len(l.msgs) + 1 \/ f = l.first
  BY <1>1
<1>3. l.msgs \in Seq(M) /\ Append(l.msgs, m) \in Seq(M)
  OBVIOUS
<1> QED
  BY <1>1, <1>2, <1>3

\* The oldest entry of a non-empty batch is one of it.
LEMMA SmallestFacts ==
    ASSUME NEW S, S \subseteq Nat, S # {}
    PROVE  TaskQ!Smallest(S) \in S
<1> DEFINE less == {p \in Nat \X Nat : p[1] < p[2]}
<1>1. IsWellFoundedOn(less, Nat)
  BY NatLessThanWellFounded, Zenon DEF OpToRel
<1>2. PICK x \in S : \A y \in S : ~ (<<y, x>> \in less)
  BY <1>1, WFMin
<1>3. ASSUME NEW y \in S PROVE x <= y
  <2>1. x \in Nat /\ y \in Nat
    OBVIOUS
  <2>2. ~ (y < x)
    BY <1>2, <2>1
  <2> QED
    BY <2>1, <2>2
<1> QED
  BY <1>3 DEF TaskQ!Smallest

\* The dispatch loop only goes on with an entry of its batch, and touches no
\* other worker.
LEMMA ContinueFacts ==
    ASSUME TInv, NEW w \in Workers, NEW b, b \subseteq Nat,
           NEW again \in BOOLEAN, TaskQ!Continue(w, b, again)
    PROVE  /\ at' \in [Workers -> {"off", "subscribe", "drain", "poll", "handle",
                                   "ack", "returned"}]
           /\ cur' \in [Workers -> Nat]
           /\ batch' \in [Workers -> SUBSET Nat]
           /\ full' \in [Workers -> BOOLEAN]
           /\ \A v \in Workers \ {w} :
                 at'[v] = at[v] /\ cur'[v] = cur[v] /\ batch'[v] = batch[v]
           /\ at'[w] \in {"handle", "drain", "poll"}
           /\ at'[w] = "handle" => cur'[w] \in b
           /\ batch'[w] \subseteq b
<1> DEFINE At == {"off", "subscribe", "drain", "poll", "handle", "ack", "returned"}
<1>1. /\ at \in [Workers -> At] /\ cur \in [Workers -> Nat]
      /\ batch \in [Workers -> SUBSET Nat] /\ full \in [Workers -> BOOLEAN]
  BY DEF TInv, TypeOK, TaskQ!StreamTypeOK
<1>2. CASE b # {}
  <2>1. TaskQ!Smallest(b) \in b
    BY <1>2, SmallestFacts
  <2>2. /\ cur' = [cur EXCEPT ![w] = TaskQ!Smallest(b)]
        /\ batch' = [batch EXCEPT ![w] = b \ {TaskQ!Smallest(b)}]
        /\ full' = [full EXCEPT ![w] = again]
        /\ at' = [at EXCEPT ![w] = "handle"]
    BY <1>2 DEF TaskQ!Continue
  <2>3. /\ at' \in [Workers -> At] /\ full' \in [Workers -> BOOLEAN]
    BY <1>1, <2>2
  <2>4. /\ cur' \in [Workers -> Nat] /\ batch' \in [Workers -> SUBSET Nat]
    BY <1>1, <2>1, <2>2
  <2> QED
    BY <1>1, <2>1, <2>2, <2>3, <2>4
<1>3. CASE b = {}
  <2>1. /\ cur' = [cur EXCEPT ![w] = 0]
        /\ batch' = [batch EXCEPT ![w] = {}]
        /\ full' = [full EXCEPT ![w] = FALSE]
        /\ at' = [at EXCEPT ![w] = IF again THEN "drain" ELSE "poll"]
    BY <1>3 DEF TaskQ!Continue
  <2>2. /\ at' \in [Workers -> At] /\ full' \in [Workers -> BOOLEAN]
        /\ cur' \in [Workers -> Nat] /\ batch' \in [Workers -> SUBSET Nat]
    BY <1>1, <2>1
  <2> QED
    BY <1>1, <1>3, <2>1, <2>2
<1> QED
  BY <1>2, <1>3

\* Between two entries the judging state of w is reset, nobody else's.
LEMMA StartJudgingFacts ==
    ASSUME TInv, NEW w \in Workers, StartJudging(w)
    PROVE  /\ stage' \in [Workers -> Stages]
           /\ ran' \in [Workers -> Seq(CaseStatus)]
           /\ status' \in [Workers -> ResultStatus]
           /\ expired' \in [Workers -> BOOLEAN]
           /\ \A v \in Workers \ {w} :
                 /\ stage'[v] = stage[v] /\ ran'[v] = ran[v]
                 /\ status'[v] = status[v] /\ expired'[v] = expired[v]
           /\ stage'[w] = IF at'[w] = "handle" THEN "compile" ELSE "none"
  BY DEF StartJudging, TInv, TypeOK, Stages, ResultStatus, CaseStatus

\* What XREADGROUP does to the group.
LEMMA DeliverFacts ==
    ASSUME TInv, NEW w \in Workers, TaskQ!HasNew, TaskQ!Deliver(NameOf(w))
    PROVE  /\ group' \in [next : Nat, pel : SUBSET [id : Nat, owner : Names]]
           /\ TaskQ!NextEntry \in 1 .. Len(tasks.msgs)
           /\ TaskQ!NextEntry >= group.next
           /\ group'.next = TaskQ!NextEntry + 1
           /\ group'.pel = group.pel \cup
                  {[id |-> TaskQ!NextEntry, owner |-> NameOf(w)]}
<1> USE DEF TInv, TypeOK, TaskQ!StreamTypeOK, EntriesOK
<1>1. NameOf(w) \in Names
  BY NodesAssumption DEF NameOf, Names
<1>2. /\ TaskQ!NextEntry \in 1 .. Len(tasks.msgs)
      /\ TaskQ!NextEntry >= group.next
  BY DEF TaskQ!HasNew, TaskQ!NextEntry
<1> QED
  BY <1>1, <1>2 DEF TaskQ!Deliver

\* XACK and the forgetting of trimmed entries only remove pending entries.
LEMMA UnpendedFacts ==
    ASSUME TInv, NEW ids, group' = TaskQ!Unpended(group, ids)
    PROVE  /\ group' \in [next : Nat, pel : SUBSET [id : Nat, owner : Names]]
           /\ group'.next = group.next
           /\ group'.pel = {e \in group.pel : e.id \notin ids}
  BY DEF TInv, TypeOK, TaskQ!StreamTypeOK, TaskQ!Unpended

\* A published result is well typed and leaves the earlier ones in place.
LEMMA PublishFacts ==
    ASSUME TInv, NEW w \in Workers, Consumed(w), NEW st \in ResultStatus,
           PublishResult(Result(w, st))
    PROVE  /\ results' \in [msgs : Seq(ResultMessage), first : Nat]
           /\ results'.first >= 1
           /\ Len(results'.msgs) = Len(results.msgs) + 1
           /\ \A i \in 1 .. Len(results.msgs) : results'.msgs[i] = results.msgs[i]
           /\ results'.msgs[Len(results.msgs) + 1] = Result(w, st)
<1>1. Result(w, st) \in ResultMessage
  BY DEF TInv, TypeOK, TaskQ!StreamTypeOK, EntriesOK, Result, ResultMessage,
         Task, Consumed
<1>2. results \in [msgs : Seq(ResultMessage), first : Nat]
  BY DEF TInv, TypeOK
<1>3. results.first \in Nat /\ results.first >= 1
  BY <1>2 DEF TInv, EntriesOK
<1>4. results' \in TaskQ!XAdd(results, Result(w, st))
  BY DEF PublishResult
<1>5. /\ results' \in [msgs : Seq(ResultMessage), first : Nat]
      /\ Len(results'.msgs) = Len(results.msgs) + 1
      /\ results'.first >= results.first
      /\ \A i \in 1 .. Len(results.msgs) : results'.msgs[i] = results.msgs[i]
      /\ results'.msgs[Len(results.msgs) + 1] = Result(w, st)
  BY <1>1, <1>2, <1>3, <1>4, XAddFacts
<1> QED
  BY <1>3, <1>5

\* The table of verdict.go, as equations.
LEMMA Priorities ==
    /\ priority("SE") = 6 /\ priority("TLE") = 5 /\ priority("MLE") = 4
    /\ priority("RE") = 3 /\ priority("WA") = 2 /\ priority("AC") = 1
  BY DEF priority

\* Among statuses that include AC there is a worst one.
LEMMA WorstExists ==
    ASSUME NEW S, S \subseteq CaseStatus, "AC" \in S
    PROVE  \E x \in S : \A y \in S : priority(y) <= priority(x)
<1>1. \A y \in S : y \in {"AC", "WA", "RE", "MLE", "TLE", "SE"}
  BY DEF CaseStatus
<1>2. CASE "SE" \in S
  BY <1>1, <1>2, Priorities
<1>3. CASE "SE" \notin S /\ "TLE" \in S
  BY <1>1, <1>3, Priorities
<1>4. CASE "SE" \notin S /\ "TLE" \notin S /\ "MLE" \in S
  BY <1>1, <1>4, Priorities
<1>5. CASE "SE" \notin S /\ "TLE" \notin S /\ "MLE" \notin S /\ "RE" \in S
  BY <1>1, <1>5, Priorities
<1>6. CASE "SE" \notin S /\ "TLE" \notin S /\ "MLE" \notin S /\ "RE" \notin S
  BY <1>1, <1>6, Priorities
<1> QED
  BY <1>2, <1>3, <1>4, <1>5, <1>6

\* Results of test cases aggregate to a status of a test case.
LEMMA AggregateType ==
    ASSUME NEW r \in Seq(CaseStatus)
    PROVE  aggregate(r) \in CaseStatus
<1> DEFINE seen == {"AC"} \cup {r[i] : i \in DOMAIN r}
<1>1. seen \subseteq CaseStatus /\ "AC" \in seen
  BY DEF CaseStatus
<1>2. \E x \in seen : \A y \in seen : priority(y) <= priority(x)
  BY <1>1, WorstExists
<1>3. (CHOOSE x \in seen : \A y \in seen : priority(y) <= priority(x)) \in seen
  BY <1>2
<1> QED
  BY <1>1, <1>3 DEF aggregate, CaseStatus

\* A step of the dispatch loop of w (to the next claimed entry b, or out of
\* the batch) that at most forgets pending entries.
LEMMA DispatchStep ==
    ASSUME TInv, NEW w \in Workers, at[w] # "off",
           NEW b, b \subseteq 1 .. Len(tasks.msgs), NEW again \in BOOLEAN,
           TaskQ!Continue(w, b, again), StartJudging(w),
           group' \in [next : Nat, pel : SUBSET [id : Nat, owner : Names]],
           group'.next = group.next, group'.pel \subseteq group.pel,
           budget' \in Nat, UNCHANGED <<tasks, results, nodeVars, history>>
    PROVE  TInv'
<1>1. b \subseteq Nat
  BY DEF TInv
<1>2. /\ at' \in [Workers -> {"off", "subscribe", "drain", "poll", "handle",
                              "ack", "returned"}]
      /\ cur' \in [Workers -> Nat]
      /\ batch' \in [Workers -> SUBSET Nat]
      /\ full' \in [Workers -> BOOLEAN]
      /\ \A v \in Workers \ {w} :
            at'[v] = at[v] /\ cur'[v] = cur[v] /\ batch'[v] = batch[v]
      /\ at'[w] \in {"handle", "drain", "poll"}
      /\ at'[w] = "handle" => cur'[w] \in b
      /\ batch'[w] \subseteq b
  BY <1>1, ContinueFacts
<1>3. /\ stage' \in [Workers -> Stages]
      /\ ran' \in [Workers -> Seq(CaseStatus)]
      /\ status' \in [Workers -> ResultStatus]
      /\ expired' \in [Workers -> BOOLEAN]
      /\ \A v \in Workers \ {w} : stage'[v] = stage[v]
      /\ stage'[w] = IF at'[w] = "handle" THEN "compile" ELSE "none"
  BY StartJudgingFacts
<1>4. TypeOK'
  BY <1>2, <1>3 DEF TInv, TypeOK, TaskQ!StreamTypeOK, nodeVars, Names
<1>5. EntriesOK'
  <2>1. ASSUME NEW v \in Workers
        PROVE  /\ batch'[v] \subseteq 1 .. Len(tasks.msgs)
               /\ at'[v] \in {"handle", "ack"} => cur'[v] \in 1 .. Len(tasks.msgs)
               /\ stage'[v] # "none" <=> at'[v] = "handle"
               /\ node'[NodeOf[v]] = "down" => at'[v] = "off"
    <3>1. CASE v = w
      BY <1>2, <1>3, <3>1 DEF TInv, EntriesOK, nodeVars
    <3>2. CASE v # w
      BY <1>2, <1>3, <3>2 DEF TInv, Consumed, EntriesOK, nodeVars
    <3> QED
      BY <3>1, <3>2
  <2> QED
    BY <2>1 DEF TInv, EntriesOK, Consumed, nodeVars
<1> QED
  BY <1>4, <1>5 DEF TInv

\* A step inside handleMessage that publishes nothing or one result.
LEMMA HandlerStep ==
    ASSUME TInv, NEW w \in Workers, stage[w] # "none",
           NEW st \in Stages \ {"none"}, stage' = [stage EXCEPT ![w] = st],
           ran' \in [Workers -> Seq(CaseStatus)],
           status' \in [Workers -> ResultStatus],
           expired' \in [Workers -> BOOLEAN],
           results' = results \/ \E r \in ResultStatus : PublishResult(Result(w, r)),
           misread' = misread \/ misread' = misread \cup {cur[w]},
           budget' \in Nat, UNCHANGED <<streamVars, nodeVars, unanswered>>
    PROVE  TInv'
<1> USE DEF TInv
<1>1. at[w] = "handle"
  BY DEF EntriesOK
<1>0. misread' \subseteq DOMAIN tasks'.msgs
  <2>1. cur[w] \in 1 .. Len(tasks.msgs) /\ tasks.msgs \in Seq(Submissions)
    BY <1>1 DEF EntriesOK, Consumed, TypeOK, TaskQ!StreamTypeOK
  <2>2. cur[w] \in DOMAIN tasks.msgs /\ tasks' = tasks
    BY <2>1 DEF streamVars
  <2> QED
    BY <2>2 DEF TypeOK
<1>2. results' \in [msgs : Seq(ResultMessage), first : Nat] /\ results'.first >= 1
  BY <1>1, PublishFacts DEF Consumed, TypeOK, EntriesOK
<1>3. TypeOK'
  BY <1>0, <1>2 DEF TypeOK, TaskQ!StreamTypeOK, streamVars, nodeVars, Names
<1>4. EntriesOK'
  BY <1>1, <1>2 DEF EntriesOK, TypeOK, streamVars, nodeVars, Consumed
<1> QED
  BY <1>3, <1>4

\* handleMessage returns after publishing one result or none.
LEMMA DoneStep ==
    ASSUME TInv, NEW w \in Workers, stage[w] # "none", HandlerDone(w),
           results' = results \/ \E r \in ResultStatus : PublishResult(Result(w, r)),
           unanswered' = unanswered \/ unanswered' = unanswered \cup {cur[w]},
           budget' \in Nat,
           UNCHANGED <<tasks, group, cur, batch, full, nodeVars, ran, status, expired,
                       misread>>
    PROVE  TInv'
<1> USE DEF TInv
<1>1. at[w] = "handle"
  BY DEF EntriesOK
<1>2. results' \in [msgs : Seq(ResultMessage), first : Nat] /\ results'.first >= 1
  BY <1>1, PublishFacts DEF Consumed, TypeOK, EntriesOK
<1>3. TypeOK'
  BY <1>2 DEF TypeOK, TaskQ!StreamTypeOK, nodeVars, Names, HandlerDone, Goto, Stages,
              TaskQ!HandlerDone
<1>4. EntriesOK'
  BY <1>1, <1>2 DEF EntriesOK, TypeOK, TaskQ!StreamTypeOK, Consumed, nodeVars, HandlerDone, Goto,
                    TaskQ!HandlerDone
<1> QED
  BY <1>3, <1>4

\* A fault is taken from a budget that is not used up.
LEMMA FaultFacts ==
    ASSUME TypeOK, NEW k, Fault(k)
    PROVE  budget' \in Nat
  BY DEF Fault, TypeOK

\* The inductive invariant holds initially.
LEMMA TInvInit == Init => TInv
<1> SUFFICES ASSUME Init PROVE TInv
  OBVIOUS
<1>1. TypeOK
  BY LimitsAssumption DEF Init, TypeOK, TaskQ!StreamInit, TaskQ!StreamTypeOK,
     TaskQ!EmptyLog, TaskQ!NewGroup, Stages, ResultStatus, CaseStatus
<1>2. ASSUME NEW w \in Workers
      PROVE  /\ batch[w] = {} /\ at[w] = "subscribe" /\ stage[w] = "none"
             /\ node[NodeOf[w]] = "up"
  BY NodesAssumption DEF Init, TaskQ!StreamInit
<1>3. EntriesOK
  BY <1>2 DEF Init, EntriesOK, Consumed, TaskQ!StreamInit, TaskQ!EmptyLog, TaskQ!NewGroup
<1> QED
  BY <1>1, <1>3 DEF TInv

\* Every step of the judger nodes preserves the inductive invariant.
LEMMA TInvStep == TInv /\ AnyStep => TInv'
<1> SUFFICES ASSUME TInv, AnyStep PROVE TInv'
  OBVIOUS
<1> USE FaultFacts
<1>1. ASSUME NEW w \in Workers,
             EnsureGroup(w) \/ EnsureGroupFails(w) \/ SubscribeReturns(w)
      PROVE  TInv'
  <2>1. TypeOK'
    BY <1>1 DEF EnsureGroup, EnsureGroupFails, SubscribeReturns, TaskQ!EnsureGroup,
        TaskQ!EnsureGroupFails, TaskQ!Return, TInv, TypeOK, TaskQ!StreamTypeOK,
        nodeVars, judgeVars, Names
  <2>2. EntriesOK'
    BY <1>1 DEF EnsureGroup, EnsureGroupFails, SubscribeReturns, TaskQ!EnsureGroup,
        TaskQ!EnsureGroupFails, TaskQ!Return, TInv, TypeOK, TaskQ!StreamTypeOK,
        judgeVars, EntriesOK, Consumed, nodeVars
  <2> QED
    BY <2>1, <2>2 DEF TInv
<1>2. ASSUME NEW w \in Workers, DrainPending(w)
      PROVE  TInv'
  <2> DEFINE mine == TaskQ!PendingOf(NameOf(w))
             listed == {i \in mine :
                           TaskQ!Cardinality({j \in mine : j < i}) < PendingBatch}
             alive == {i \in listed : i >= tasks.first}
  <2>1. /\ at[w] = "drain"
        /\ group' = TaskQ!Unpended(group, listed \ alive)
        /\ TaskQ!Continue(w, alive, TaskQ!Cardinality(listed) = PendingBatch)
        /\ tasks' = tasks
        /\ StartJudging(w)
        /\ UNCHANGED <<results, nodeVars, history, budget>>
    BY <1>2 DEF DrainPending, TaskQ!DrainPending
  <2>2. alive \subseteq 1 .. Len(tasks.msgs)
    BY DEF TInv, EntriesOK, TaskQ!PendingOf
  <2> HIDE DEF alive, listed
  <2>3. (TaskQ!Cardinality(listed) = PendingBatch) \in BOOLEAN
    OBVIOUS
  <2>4. /\ group' \in [next : Nat, pel : SUBSET [id : Nat, owner : Names]]
        /\ group'.next = group.next /\ group'.pel \subseteq group.pel
    BY <2>1, UnpendedFacts
  <2>5. budget' \in Nat
    BY <2>1 DEF TInv, TypeOK
  <2> QED
    BY <2>1, <2>2, <2>3, <2>4, <2>5, DispatchStep
<1>3. ASSUME NEW w \in Workers, DrainPendingFails(w)
      PROVE  TInv'
  <2>1. /\ at[w] = "drain"
        /\ at' = [at EXCEPT ![w] = "poll"]
        /\ cur' = [cur EXCEPT ![w] = 0]
        /\ batch' = [batch EXCEPT ![w] = {}]
        /\ full' = [full EXCEPT ![w] = FALSE]
        /\ UNCHANGED <<tasks, group, results, nodeVars, judgeVars, history>>
    BY <1>3 DEF DrainPendingFails, TaskQ!DrainPendingFails, TaskQ!Continue
  <2>2. budget' \in Nat
    BY <1>3 DEF DrainPendingFails, TInv, TypeOK
  <2>3. TypeOK'
    BY <2>1, <2>2 DEF TInv, TypeOK, TaskQ!StreamTypeOK, nodeVars, judgeVars, Names
  <2>4. EntriesOK'
    BY <2>1 DEF TInv, TypeOK, TaskQ!StreamTypeOK, EntriesOK, Consumed, nodeVars, judgeVars
  <2> QED
    BY <2>3, <2>4 DEF TInv
<1>4. ASSUME NEW w \in Workers, XReadGroup(w)
      PROVE  TInv'
  <2>1. /\ at[w] = "poll"
        /\ cur' = [cur EXCEPT ![w] = TaskQ!NextEntry]
        /\ at' = [at EXCEPT ![w] = "handle"]
        /\ UNCHANGED <<tasks, batch, full, results, nodeVars, history, budget>>
        /\ TaskQ!HasNew /\ TaskQ!Deliver(NameOf(w)) /\ StartJudging(w)
    BY <1>4 DEF XReadGroup, TaskQ!XReadGroup
  <2>2. /\ group' \in [next : Nat, pel : SUBSET [id : Nat, owner : Names]]
        /\ TaskQ!NextEntry \in 1 .. Len(tasks.msgs)
        /\ TaskQ!NextEntry >= group.next
        /\ group'.next = TaskQ!NextEntry + 1
        /\ group'.pel = group.pel \cup
               {[id |-> TaskQ!NextEntry, owner |-> NameOf(w)]}
    BY <2>1, DeliverFacts
  <2>3. /\ stage' \in [Workers -> Stages]
        /\ ran' \in [Workers -> Seq(CaseStatus)]
        /\ status' \in [Workers -> ResultStatus]
        /\ expired' \in [Workers -> BOOLEAN]
        /\ \A v \in Workers \ {w} : stage'[v] = stage[v]
        /\ stage'[w] = IF at'[w] = "handle" THEN "compile" ELSE "none"
    BY <2>1, StartJudgingFacts
  <2>0. /\ cur' \in [Workers -> Nat]
        /\ at' \in [Workers -> {"off", "subscribe", "drain", "poll", "handle",
                                "ack", "returned"}]
    BY <2>1, <2>2 DEF TInv, TypeOK, TaskQ!StreamTypeOK
  <2>4. TypeOK'
    <3> HIDE DEF Names
    <3> QED
      BY <2>0, <2>1, <2>2, <2>3 DEF TInv, TypeOK, TaskQ!StreamTypeOK, nodeVars
  <2>5. EntriesOK'
    BY <2>1, <2>2, <2>3 DEF TInv, EntriesOK, TypeOK, TaskQ!StreamTypeOK, Consumed, nodeVars
  <2> QED
    BY <2>4, <2>5 DEF TInv
<1>5. ASSUME NEW w \in Workers, XReadGroupLost(w)
      PROVE  TInv'
  <2>1. /\ UNCHANGED <<tasks, at, cur, batch, full, results, nodeVars, judgeVars,
                       history>>
        /\ TaskQ!HasNew /\ TaskQ!Deliver(NameOf(w)) /\ Fault("redis")
    BY <1>5 DEF XReadGroupLost, TaskQ!XReadGroupLost
  <2>2. /\ group' \in [next : Nat, pel : SUBSET [id : Nat, owner : Names]]
        /\ TaskQ!NextEntry \in 1 .. Len(tasks.msgs)
        /\ TaskQ!NextEntry >= group.next
        /\ group'.next = TaskQ!NextEntry + 1
        /\ group'.pel = group.pel \cup
               {[id |-> TaskQ!NextEntry, owner |-> NameOf(w)]}
    BY <2>1, DeliverFacts
  <2>3. budget' \in Nat
    BY <2>1 DEF TInv
  <2>4. TypeOK'
    BY <2>1, <2>2, <2>3 DEF TInv, TypeOK, TaskQ!StreamTypeOK, nodeVars, judgeVars, Names
  <2>5. EntriesOK'
    <3>1. \A e \in group'.pel : e.id \in 1 .. Len(tasks.msgs) /\ e.id < group'.next
      BY <2>2 DEF TInv, EntriesOK, TypeOK, TaskQ!StreamTypeOK
    <3>2. group'.next \in 1 .. Len(tasks.msgs) + 1
      BY <2>2 DEF TInv, TypeOK, TaskQ!StreamTypeOK
    <3> QED
      BY <2>1, <3>1, <3>2 DEF TInv, EntriesOK, judgeVars, Consumed, nodeVars
  <2> QED
    BY <2>4, <2>5 DEF TInv
<1>6. ASSUME NEW w \in Workers, Compile(w)
      PROVE  TInv'
  <2>1. /\ stage[w] # "none"
        /\ \E st \in Stages \ {"none"} : stage' = [stage EXCEPT ![w] = st]
        /\ UNCHANGED <<streamVars, results, nodeVars, ran, expired, unanswered>>
        /\ misread' = misread \/ misread' = misread \cup {cur[w]}
        /\ budget' \in Nat
    BY <1>6 DEF Compile, Misread, Goto, Stages, TInv, TypeOK
  <2>2. /\ status' \in [Workers -> ResultStatus]
        /\ ran' \in [Workers -> Seq(CaseStatus)]
        /\ expired' \in [Workers -> BOOLEAN]
    BY <1>6 DEF Compile, TInv, TypeOK, ResultStatus
  <2> QED
    BY <2>1, <2>2, HandlerStep
<1>7. ASSUME NEW w \in Workers, LoopHead(w)
      PROVE  TInv'
  <2>1. /\ stage[w] # "none"
        /\ \E st \in Stages \ {"none"} : stage' = [stage EXCEPT ![w] = st]
        /\ UNCHANGED <<streamVars, results, nodeVars, ran, expired, history>>
        /\ budget' \in Nat
    BY <1>7 DEF LoopHead, Goto, Stages, TInv, TypeOK
  <2>2. aggregate(ran[w]) \in ResultStatus
    BY AggregateType DEF TInv, TypeOK, ResultStatus
  <2>3. /\ status' \in [Workers -> ResultStatus]
        /\ ran' \in [Workers -> Seq(CaseStatus)]
        /\ expired' \in [Workers -> BOOLEAN]
    BY <1>7, <2>2 DEF LoopHead, TInv, TypeOK
  <2> QED
    BY <2>1, <2>3, HandlerStep
<1>8. ASSUME NEW w \in Workers, RunTestCase(w)
      PROVE  TInv'
  <2>1. /\ stage[w] # "none"
        /\ \E st \in Stages \ {"none"} : stage' = [stage EXCEPT ![w] = st]
        /\ UNCHANGED <<streamVars, results, nodeVars, status, expired, unanswered>>
        /\ misread' = misread \/ misread' = misread \cup {cur[w]}
        /\ budget' \in Nat
    BY <1>8 DEF RunTestCase, Misread, Goto, Stages, TInv, TypeOK
  <2>2. PICK v \in CaseStatus : ran' = [ran EXCEPT ![w] = Append(ran[w], v)]
    BY <1>8 DEF RunTestCase
  <2>3. ran[w] \in Seq(CaseStatus) /\ Append(ran[w], v) \in Seq(CaseStatus)
    BY DEF TInv, TypeOK
  <2>4. /\ status' \in [Workers -> ResultStatus]
        /\ ran' \in [Workers -> Seq(CaseStatus)]
        /\ expired' \in [Workers -> BOOLEAN]
    BY <2>1, <2>2, <2>3 DEF TInv, TypeOK
  <2> QED
    BY <2>1, <2>4, HandlerStep
<1>9. ASSUME NEW w \in Workers, Panic(w) \/ GlobalTimeout(w)
      PROVE  TInv'
  <2>1. /\ stage[w] # "none"
        /\ \E st \in Stages \ {"none"} : stage' = [stage EXCEPT ![w] = st]
    BY <1>9 DEF Panic, GlobalTimeout, Goto, Stages, TInv, TypeOK
  <2>2. /\ UNCHANGED <<streamVars, results, nodeVars, ran, status, history>>
        /\ budget' \in Nat
    BY <1>9 DEF Panic, GlobalTimeout, TInv
  <2>3. /\ status' \in [Workers -> ResultStatus]
        /\ ran' \in [Workers -> Seq(CaseStatus)]
        /\ expired' \in [Workers -> BOOLEAN]
    BY <1>9 DEF Panic, GlobalTimeout, TInv, TypeOK
  <2> QED
    BY <2>1, <2>2, <2>3, HandlerStep
<1>10. ASSUME NEW w \in Workers, PublishFails(w)
       PROVE  TInv'
  <2>1. /\ stage[w] # "none"
        /\ \E st \in Stages \ {"none"} : stage' = [stage EXCEPT ![w] = st]
        /\ UNCHANGED <<streamVars, nodeVars, ran, status, expired, history>>
    BY <1>10 DEF PublishFails, Goto, Stages
  <2>2. /\ results' = results \/ PublishResult(Result(w, status[w]))
        /\ budget' \in Nat
    BY <1>10 DEF PublishFails, TInv, TypeOK
  <2>3. /\ status' \in [Workers -> ResultStatus]
        /\ ran' \in [Workers -> Seq(CaseStatus)]
        /\ expired' \in [Workers -> BOOLEAN]
        /\ status[w] \in ResultStatus
    BY <2>1 DEF TInv, TypeOK
  <2> QED
    BY <2>1, <2>2, <2>3, HandlerStep
<1>11. ASSUME NEW w \in Workers, Publish(w) \/ PublishSE(w)
       PROVE  TInv'
  <2>1. /\ stage[w] # "none" /\ HandlerDone(w)
        /\ UNCHANGED <<tasks, group, cur, batch, full, nodeVars, ran, status, expired,
                       misread>>
    BY <1>11 DEF Publish, PublishSE
  <2>2. status[w] \in ResultStatus /\ "SE" \in ResultStatus
    BY DEF TInv, TypeOK, ResultStatus, CaseStatus
  <2>3. /\ results' = results \/ \E r \in ResultStatus : PublishResult(Result(w, r))
        /\ unanswered' = unanswered \/ unanswered' = unanswered \cup {cur[w]}
        /\ budget' \in Nat
    BY <1>11, <2>2 DEF Publish, PublishSE, TInv, TypeOK
  <2> QED
    BY <2>1, <2>3, DoneStep
<1>12. ASSUME NEW w \in Workers, XAck(w) \/ XAckFails(w)
       PROVE  TInv'
  <2>1. /\ at[w] = "ack"
        /\ TaskQ!Continue(w, batch[w], full[w]) /\ StartJudging(w)
        /\ group' = TaskQ!Unpended(group, {cur[w]}) \/ group' = group
        /\ UNCHANGED <<tasks, results, nodeVars, history>>
        /\ budget' \in Nat
    BY <1>12 DEF XAck, XAckFails, TaskQ!XAck, TaskQ!XAckFails, TInv, TypeOK
  <2>2. /\ group' \in [next : Nat, pel : SUBSET [id : Nat, owner : Names]]
        /\ group'.next = group.next /\ group'.pel \subseteq group.pel
    BY <2>1, UnpendedFacts DEF TInv, TypeOK, TaskQ!StreamTypeOK
  <2>3. batch[w] \subseteq 1 .. Len(tasks.msgs) /\ full[w] \in BOOLEAN
    BY DEF TInv, EntriesOK, TypeOK, TaskQ!StreamTypeOK
  <2> QED
    BY <2>1, <2>2, <2>3, DispatchStep
<1>13. ASSUME NEW n \in Nodes, Signal(n)
       PROVE  TInv'
  <2>1. TypeOK'
    BY <1>13 DEF Signal, TInv, TypeOK, TaskQ!StreamTypeOK, streamVars, judgeVars, Names
  <2>2. EntriesOK'
    BY <1>13 DEF Signal, TInv, EntriesOK, Consumed, streamVars, judgeVars
  <2> QED
    BY <2>1, <2>2 DEF TInv
<1>14. ASSUME NEW n \in Nodes, Exit(n) \/ Crash(n)
       PROVE  TInv'
  <2>1. EndProcess(n) /\ budget' \in Nat
    BY <1>14 DEF Exit, Crash, TInv, TypeOK
  <2>0. /\ at' \in [Workers -> {"off", "subscribe", "drain", "poll", "handle",
                                "ack", "returned"}]
        /\ cur' \in [Workers -> Nat]
        /\ batch' \in [Workers -> SUBSET Nat]
        /\ full' \in [Workers -> BOOLEAN]
    BY <2>1 DEF EndProcess, TaskQ!Die, TInv, TypeOK, TaskQ!StreamTypeOK
  <2>5. /\ stage' \in [Workers -> Stages]
        /\ status' \in [Workers -> ResultStatus]
        /\ ran' \in [Workers -> Seq(CaseStatus)]
        /\ expired' \in [Workers -> BOOLEAN]
        /\ node' \in [Nodes -> {"up", "stopping", "down"}]
    <3>1. "SE" \in ResultStatus /\ "none" \in Stages /\ <<>> \in Seq(CaseStatus)
      BY DEF ResultStatus, CaseStatus, Stages
    <3> QED
      BY <2>1, <3>1 DEF EndProcess, TInv, TypeOK
  <2>2. TypeOK'
    BY <2>0, <2>1, <2>5 DEF EndProcess, TaskQ!Die, TInv, TypeOK, TaskQ!StreamTypeOK, Names
  <2>3. EntriesOK'
    BY <2>1, NodesAssumption DEF EndProcess, TaskQ!Die, TInv, EntriesOK, Consumed, WorkersOf
  <2> QED
    BY <2>2, <2>3 DEF TInv
<1>15. ASSUME NEW n \in Nodes, Restart(n)
       PROVE  TInv'
  <2>1. budget' \in Nat
    BY <1>15 DEF Restart, TInv, TypeOK
  <2>a. /\ node' \in [Nodes -> {"up", "stopping", "down"}]
        /\ at' \in [Workers -> {"off", "subscribe", "drain", "poll", "handle", "ack",
                                "returned"}]
    BY <1>15 DEF Restart, TaskQ!Launch, TInv, TypeOK, TaskQ!StreamTypeOK
  <2>b. pid' \in [Nodes -> Nat]
    BY <1>15 DEF Restart, TInv, TypeOK
  <2>c. UNCHANGED <<tasks, group, cur, batch, full, results, judgeVars, history>>
    BY <1>15 DEF Restart, TaskQ!Launch
  <2>2. TypeOK'
    BY <2>1, <2>a, <2>b, <2>c DEF TInv, TypeOK, TaskQ!StreamTypeOK, judgeVars, Names
  <2>3. /\ node' = [node EXCEPT ![n] = "up"] /\ node[n] = "down"
        /\ at' = [p \in Workers |-> IF p \in WorkersOf(n) THEN "subscribe" ELSE at[p]]
        /\ UNCHANGED <<tasks, group, cur, batch, full, results, judgeVars>>
    BY <1>15 DEF Restart, TaskQ!Launch
  <2>4. ASSUME NEW w \in Workers
        PROVE  /\ batch'[w] \subseteq 1 .. Len(tasks.msgs)
               /\ Consumed(w)' => cur'[w] \in 1 .. Len(tasks.msgs)
               /\ stage'[w] # "none" <=> at'[w] = "handle"
               /\ node'[NodeOf[w]] = "down" => at'[w] = "off"
    <3>0. NodeOf[w] \in Nodes /\ node \in [Nodes -> {"up", "stopping", "down"}]
      BY NodesAssumption DEF TInv, TypeOK
    <3>1. CASE NodeOf[w] = n
      <4>1. at[w] = "off" /\ stage[w] = "none" /\ batch[w] \subseteq 1 .. Len(tasks.msgs)
        BY <2>3, <3>1 DEF TInv, EntriesOK
      <4>2. at'[w] = "subscribe" /\ stage'[w] = "none" /\ batch'[w] = batch[w]
            /\ node'[NodeOf[w]] = "up"
        BY <2>3, <3>0, <3>1, <4>1 DEF WorkersOf, judgeVars
      <4> QED
        BY <4>1, <4>2 DEF Consumed
    <3>2. CASE NodeOf[w] # n
      <4>1. at'[w] = at[w] /\ stage'[w] = stage[w] /\ batch'[w] = batch[w]
            /\ cur'[w] = cur[w] /\ node'[NodeOf[w]] = node[NodeOf[w]]
        BY <2>3, <3>0, <3>2 DEF WorkersOf, judgeVars
      <4> QED
        BY <4>1 DEF Consumed, TInv, EntriesOK
    <3> QED
      BY <3>1, <3>2
  <2>5. EntriesOK'
    BY <2>3, <2>4 DEF TInv, EntriesOK
  <2> QED
    BY <2>2, <2>5 DEF TInv
<1>16. ASSUME NEW s \in Submissions, EnqueueTask(s), budget' \in Nat
       PROVE  TInv'
  <2>1. /\ tasks' \in TaskQ!XAdd(tasks, s)
        /\ UNCHANGED <<group, at, cur, batch, full, results, nodeVars, judgeVars,
                       history>>
        /\ budget' \in Nat
    BY <1>16 DEF EnqueueTask, TaskQ!Publish
  <2>2. /\ tasks \in [msgs : Seq(Submissions), first : Nat]
        /\ tasks.first >= 1 /\ tasks.first <= Len(tasks.msgs) + 1
        /\ Len(tasks.msgs) \in Nat
    BY DEF TInv, TypeOK, TaskQ!StreamTypeOK, EntriesOK
  <2>3. /\ tasks' \in [msgs : Seq(Submissions), first : Nat]
        /\ Len(tasks'.msgs) = Len(tasks.msgs) + 1
        /\ tasks'.first >= tasks.first
        /\ tasks'.first <= Len(tasks.msgs) + 1 \/ tasks'.first = tasks.first
    BY <2>1, <2>2, XAddFacts
  <2>6. misread' \subseteq DOMAIN tasks'.msgs
    <3>1. /\ DOMAIN tasks.msgs = 1 .. Len(tasks.msgs)
          /\ DOMAIN tasks'.msgs = 1 .. Len(tasks.msgs) + 1
      BY <2>2, <2>3
    <3> QED
      BY <2>1, <2>2, <3>1 DEF TInv, TypeOK
  <2>4. TypeOK'
    BY <2>1, <2>3, <2>6 DEF TInv, TypeOK, TaskQ!StreamTypeOK, nodeVars, judgeVars, Names
  <2>5. EntriesOK'
    BY <2>1, <2>2, <2>3 DEF TInv, EntriesOK, TypeOK, TaskQ!StreamTypeOK, judgeVars,
        Consumed, nodeVars
  <2> QED
    BY <2>4, <2>5 DEF TInv
<1>17. CASE UNCHANGED judgerState /\ budget' \in Nat
  <2>1. TypeOK'
    BY <1>17 DEF judgerState, streamVars, nodeVars, judgeVars, TInv, TypeOK,
        TaskQ!StreamTypeOK, Names
  <2>2. EntriesOK'
    BY <1>17 DEF judgerState, streamVars, nodeVars, judgeVars, TInv, EntriesOK, Consumed
  <2> QED
    BY <2>1, <2>2 DEF TInv
<1> QED
  BY <1>1, <1>2, <1>3, <1>4, <1>5, <1>6, <1>7, <1>8, <1>9, <1>10, <1>11, <1>12, <1>13,
     <1>14, <1>15, <1>16, <1>17
     DEF AnyStep, JudgerNext, WorkerStep, Disturbance, Supervise

\* The steps of the nodes' own specification are such steps.
LEMMA NextIsAnyStep == TInv /\ [Next]_vars => AnyStep
  BY DEF AnyStep, Next, vars, judgerState, streamVars, nodeVars, judgeVars, TInv, TypeOK

\* The inductive invariant holds throughout.
LEMMA TInvAlways == Spec => []TInv
  BY TInvInit, TInvStep, NextIsAnyStep, PTL DEF Spec

\* Every variable of the judger nodes keeps its type, and with it every entry a
\* worker handles or a group holds is one that was published.
THEOREM TypeCorrect == Spec => []TypeOK
<1>1. TInv => TypeOK
  BY DEF TInv
<1> QED
  BY <1>1, TInvAlways, PTL

-----------------------------------------------------------------------------
\* Sound verdicts.

\* A status v of w's task is sound when own is the program's: a SystemError, the
\* program's own, or a refusal that takes a failure for the program's.
Sound(w, v, own) == v \in {own, "SE"} \/ (cur[w] \in misread /\ v # "AC")

\* The judging of worker w is on its way to a sound result as long as its
\* context is alive: what it has collected is sound, test case by test case.
Judged(w) ==
    /\ stage[w] = "compile" => ran[w] = <<>>
    /\ stage[w] \in {"loop", "case"} => Task(w) \notin CompileFails
    /\ stage[w] \in {"loop", "case"} /\ ~CtxDone(w) =>
          /\ Len(ran[w]) <= Len(CaseVerdict[Task(w)])
          /\ \A k \in 1 .. Len(ran[w]) : Sound(w, ran[w][k], CaseVerdict[Task(w)][k])
    /\ stage[w] = "case" /\ ~CtxDone(w) =>
          Len(ran[w]) < Len(CaseVerdict[Task(w)])
    /\ stage[w] = "publish" /\ ~CtxDone(w) => Sound(w, status[w], TrueStatus(Task(w)))

JudgingOK == \A w \in Workers : Judged(w)

\* A complete list in which some results were replaced by SystemErrors
\* aggregates to the undisturbed verdict or to a SystemError.
LEMMA AggregateTrueOrSE ==
    ASSUME NEW r \in Seq(CaseStatus), NEW c \in Seq(CaseStatus), Len(r) = Len(c),
           \A k \in 1 .. Len(r) : r[k] \in {c[k], "SE"}
    PROVE  aggregate(r) \in {"SE", aggregate(c)}
<1> DEFINE seen == {"AC"} \cup {r[i] : i \in DOMAIN r}
<1>1. CASE \A k \in 1 .. Len(r) : r[k] # "SE"
  <2>1. r = c
    BY <1>1
  <2> QED
    BY <2>1
<1>2. CASE \E k \in 1 .. Len(r) : r[k] = "SE"
  <2>1. "SE" \in seen /\ r # <<>>
    BY <1>2
  <2>2. seen \subseteq CaseStatus /\ "AC" \in seen
    BY DEF CaseStatus
  <2>3. \E x \in seen : \A y \in seen : priority(y) <= priority(x)
    BY <2>2, WorstExists
  <2>4. PICK s \in seen :
            /\ s = CHOOSE x \in seen : \A y \in seen : priority(y) <= priority(x)
            /\ \A y \in seen : priority(y) <= priority(s)
    BY <2>3
  <2>5. aggregate(r) = s
    BY <2>1, <2>4 DEF aggregate
  <2>6. s \in {"AC", "WA", "RE", "MLE", "TLE", "SE"} /\ priority("SE") <= priority(s)
    BY <2>1, <2>2, <2>4 DEF CaseStatus
  <2>7. s = "SE"
    BY <2>6, Priorities
  <2> QED
    BY <2>5, <2>7
<1> QED
  BY <1>1, <1>2

\* With refusals among the results, the aggregate is a refusal as well.
LEMMA AggregateSound ==
    ASSUME NEW r \in Seq(CaseStatus), NEW c \in Seq(CaseStatus), Len(r) = Len(c),
           NEW lied \in BOOLEAN,
           \A k \in 1 .. Len(r) : r[k] \in {c[k], "SE"} \/ (lied /\ r[k] # "AC")
    PROVE  aggregate(r) \in {"SE", aggregate(c)} \/ (lied /\ aggregate(r) # "AC")
<1> DEFINE seen == {"AC"} \cup {r[i] : i \in DOMAIN r}
<1>1. CASE ~lied
  BY <1>1, AggregateTrueOrSE
<1>2. CASE lied /\ aggregate(r) # "AC"
  BY <1>2
<1>3. CASE aggregate(r) = "AC"
  <2>1. seen \subseteq CaseStatus /\ "AC" \in seen
    BY DEF CaseStatus
  <2>2. \E x \in seen : \A y \in seen : priority(y) <= priority(x)
    BY <2>1, WorstExists
  <2>3. PICK s \in seen :
            /\ s = CHOOSE x \in seen : \A y \in seen : priority(y) <= priority(x)
            /\ \A y \in seen : priority(y) <= priority(s)
    BY <2>2
  <2>4. CASE r = <<>>
    <3>1. c = <<>>
      BY <2>4
    <3> QED
      BY <2>4, <3>1
  <2>5. CASE r # <<>>
    <3>1. s = "AC"
      BY <1>3, <2>3, <2>5 DEF aggregate
    <3>2. ASSUME NEW k \in 1 .. Len(r) PROVE r[k] = c[k]
      <4>1. r[k] \in seen
        OBVIOUS
      <4>2. priority(r[k]) <= priority("AC")
        BY <2>3, <3>1, <4>1
      <4>3. r[k] \in {"AC", "WA", "RE", "MLE", "TLE", "SE"}
        BY <2>1, <4>1 DEF CaseStatus
      <4>4. r[k] = "AC"
        BY <4>2, <4>3, Priorities
      <4> QED
        BY <4>4
    <3>3. r = c
      BY <3>2
    <3> QED
      BY <3>3
  <2> QED
    BY <2>4, <2>5
<1> QED
  BY <1>1, <1>2, <1>3

\* A step that leaves the judging of worker v alone.
LEMMA Undisturbed ==
    ASSUME NEW v \in Workers, Judged(v), stage'[v] = stage[v],
           misread \subseteq misread',
           stage[v] # "none" =>
               /\ ran'[v] = ran[v] /\ status'[v] = status[v]
               /\ Task(v)' = Task(v) /\ cur'[v] = cur[v]
               /\ CtxDone(v) => CtxDone(v)'
    PROVE  Judged(v)'
<1>1. CASE stage[v] = "none"
  BY <1>1 DEF Judged
<1>2. CASE stage[v] # "none" /\ ~CtxDone(v)'
  BY <1>2 DEF Judged, TrueStatus, Sound
<1>3. CASE stage[v] # "none" /\ CtxDone(v)'
  BY <1>3 DEF Judged
<1> QED
  BY <1>1, <1>2, <1>3

\* Nothing is claimed of a worker that judges nothing or is about to publish SE.
LEMMA NotJudging ==
    ASSUME NEW v \in Workers, stage'[v] \in {"none", "publishSE"}
    PROVE  Judged(v)'
  BY DEF Judged

\* A step of the dispatch loop of w: w's judging ends or starts, the others go on.
LEMMA DispatchJudged ==
    ASSUME TInv, JudgingOK, NEW w \in Workers, StartJudging(w),
           \A v \in Workers \ {w} : cur'[v] = cur[v],
           misread \subseteq misread', UNCHANGED <<tasks, nodeVars>>
    PROVE  JudgingOK'
<1>1. ASSUME NEW v \in Workers PROVE Judged(v)'
  <2>1. /\ \A u \in Workers \ {w} :
              /\ stage'[u] = stage[u] /\ ran'[u] = ran[u]
              /\ status'[u] = status[u] /\ expired'[u] = expired[u]
        /\ stage'[w] = IF at'[w] = "handle" THEN "compile" ELSE "none"
    BY StartJudgingFacts
  <2>2. CASE v = w
    <3>1. ran'[w] = <<>>
      BY DEF StartJudging, TInv, TypeOK
    <3> QED
      BY <2>1, <2>2, <3>1 DEF Judged
  <2>3. CASE v # w
    BY <2>1, <2>3, Undisturbed DEF JudgingOK, Task, CtxDone, Stopping, nodeVars
  <2> QED
    BY <2>2, <2>3
<1> QED
  BY <1>1 DEF JudgingOK

\* A step of w inside handleMessage: the judgings of the others go on.
LEMMA OthersJudged ==
    ASSUME TInv, JudgingOK, NEW w \in Workers, NEW v \in Workers, v # w,
           stage'[v] = stage[v], ran'[v] = ran[v], status'[v] = status[v],
           expired'[v] = expired[v], misread \subseteq misread',
           UNCHANGED <<tasks, cur, nodeVars>>
    PROVE  Judged(v)'
  BY Undisturbed DEF JudgingOK, Task, CtxDone, Stopping, nodeVars

\* A worker inside handleMessage has a task that was published.
LEMMA TaskFacts ==
    ASSUME TInv, NEW w \in Workers, stage[w] # "none"
    PROVE  /\ Task(w) \in Submissions
           /\ CaseVerdict[Task(w)] \in Seq(CaseStatus)
           /\ cur[w] \in 1 .. Len(tasks.msgs)
<1>1. cur[w] \in 1 .. Len(tasks.msgs)
  BY DEF TInv, EntriesOK, Consumed
<1>2. tasks.msgs \in Seq(Submissions)
  BY DEF TInv, TypeOK, TaskQ!StreamTypeOK
<1>3. Task(w) \in Submissions
  BY <1>1, <1>2 DEF Task
<1> QED
  BY <1>1, <1>3, CasesAssumption

\* Only a worker inside handleMessage can take a failure for its program's.
LEMMA MisreadStep ==
    ASSUME TInv, AnyStep
    PROVE  \/ misread' = misread
           \/ \E w \in Workers :
                 /\ stage[w] # "none" /\ misread' = misread \cup {cur[w]}
                 /\ UNCHANGED <<tasks, results>>
<1> USE DEF nodeVars, judgeVars, streamVars
<1>1. ASSUME NEW w \in Workers,
             \/ EnsureGroup(w) \/ EnsureGroupFails(w) \/ SubscribeReturns(w)
             \/ DrainPending(w) \/ DrainPendingFails(w)
             \/ XReadGroup(w) \/ XReadGroupLost(w) \/ XAck(w) \/ XAckFails(w)
      PROVE  misread' = misread
  BY <1>1 DEF EnsureGroup, EnsureGroupFails, SubscribeReturns, DrainPending,
      DrainPendingFails, XReadGroup, XReadGroupLost, XAck, XAckFails
<1>2. ASSUME NEW w \in Workers,
             \/ LoopHead(w) \/ Panic(w) \/ GlobalTimeout(w)
             \/ Publish(w) \/ PublishFails(w) \/ PublishSE(w)
      PROVE  misread' = misread
  BY <1>2 DEF LoopHead, Panic, GlobalTimeout, Publish, PublishFails, PublishSE
<1>3. ASSUME NEW w \in Workers, Compile(w) \/ RunTestCase(w)
      PROVE  \/ misread' = misread
             \/ /\ stage[w] # "none" /\ misread' = misread \cup {cur[w]}
                /\ UNCHANGED <<tasks, results>>
  BY <1>3 DEF Compile, RunTestCase, Misread
<1>4. ASSUME NEW n \in Nodes, Signal(n) \/ Exit(n) \/ Crash(n) \/ Restart(n)
      PROVE  misread' = misread
  BY <1>4 DEF Signal, Exit, Crash, Restart, EndProcess
<1>5. ASSUME NEW s \in Submissions, EnqueueTask(s)
      PROVE  misread' = misread
  BY <1>5 DEF EnqueueTask
<1>6. CASE UNCHANGED judgerState
  BY <1>6 DEF judgerState
<1> QED
  BY <1>1, <1>2, <1>3, <1>4, <1>5, <1>6
     DEF AnyStep, JudgerNext, WorkerStep, Disturbance, Supervise

\* Initially no worker judges.
LEMMA JudgingInit == Init => JudgingOK
  BY DEF Init, JudgingOK, Judged

\* Every step keeps every judging on its way to a sound result.
LEMMA JudgingStep == TInv /\ JudgingOK /\ AnyStep => JudgingOK'
<1> SUFFICES ASSUME TInv, JudgingOK, AnyStep PROVE JudgingOK'
  OBVIOUS
<1>0. /\ stage \in [Workers -> Stages] /\ ran \in [Workers -> Seq(CaseStatus)]
      /\ status \in [Workers -> ResultStatus] /\ expired \in [Workers -> BOOLEAN]
      /\ cur \in [Workers -> Nat]
      /\ node \in [Nodes -> {"up", "stopping", "down"}]
  BY DEF TInv, TypeOK, TaskQ!StreamTypeOK
<1>m. misread \subseteq misread'
  BY MisreadStep
<1>1. ASSUME NEW w \in Workers,
             \/ EnsureGroup(w) \/ EnsureGroupFails(w) \/ SubscribeReturns(w)
             \/ XReadGroupLost(w)
      PROVE  JudgingOK'
  <2>1. UNCHANGED <<tasks, cur, nodeVars, judgeVars>>
    BY <1>1 DEF EnsureGroup, EnsureGroupFails, SubscribeReturns, XReadGroupLost,
        TaskQ!EnsureGroup, TaskQ!EnsureGroupFails, TaskQ!Return, TaskQ!XReadGroupLost
  <2> QED
    BY <2>1, <1>m, Undisturbed DEF JudgingOK, Task, CtxDone, Stopping, nodeVars, judgeVars
<1>2. ASSUME NEW w \in Workers, DrainPending(w)
      PROVE  JudgingOK'
  <2> DEFINE mine == TaskQ!PendingOf(NameOf(w))
             listed == {i \in mine :
                           TaskQ!Cardinality({j \in mine : j < i}) < PendingBatch}
             alive == {i \in listed : i >= tasks.first}
  <2>1. /\ TaskQ!Continue(w, alive, TaskQ!Cardinality(listed) = PendingBatch)
        /\ StartJudging(w) /\ UNCHANGED <<tasks, nodeVars>>
    BY <1>2 DEF DrainPending, TaskQ!DrainPending
  <2>2. alive \subseteq Nat
    BY DEF TInv, EntriesOK, TaskQ!PendingOf
  <2> HIDE DEF alive, listed
  <2>3. (TaskQ!Cardinality(listed) = PendingBatch) \in BOOLEAN
    OBVIOUS
  <2>4. \A v \in Workers \ {w} : cur'[v] = cur[v]
    BY <2>1, <2>2, <2>3, ContinueFacts
  <2> QED
    BY <2>1, <2>4, <1>m, DispatchJudged
<1>3. ASSUME NEW w \in Workers, DrainPendingFails(w)
      PROVE  JudgingOK'
  <2>1. /\ at[w] = "drain" /\ cur' = [cur EXCEPT ![w] = 0]
        /\ UNCHANGED <<tasks, nodeVars, judgeVars>>
    BY <1>3 DEF DrainPendingFails, TaskQ!DrainPendingFails, TaskQ!Continue
  <2>2. stage[w] = "none"
    BY <2>1 DEF TInv, EntriesOK
  <2>3. ASSUME NEW v \in Workers PROVE Judged(v)'
    <3>1. CASE v = w
      BY <2>1, <2>2, <3>1, NotJudging DEF judgeVars
    <3>2. CASE v # w
      BY <1>0, <2>1, <3>2, <1>m, Undisturbed
         DEF JudgingOK, Task, CtxDone, Stopping, nodeVars, judgeVars
    <3> QED
      BY <3>1, <3>2
  <2> QED
    BY <2>3 DEF JudgingOK
<1>4. ASSUME NEW w \in Workers, XReadGroup(w)
      PROVE  JudgingOK'
  <2>1. /\ cur' = [cur EXCEPT ![w] = TaskQ!NextEntry]
        /\ StartJudging(w) /\ UNCHANGED <<tasks, nodeVars>>
    BY <1>4 DEF XReadGroup, TaskQ!XReadGroup
  <2>2. \A v \in Workers \ {w} : cur'[v] = cur[v]
    BY <1>0, <2>1
  <2> QED
    BY <2>1, <2>2, <1>m, DispatchJudged
<1>5. ASSUME NEW w \in Workers, XAck(w) \/ XAckFails(w)
      PROVE  JudgingOK'
  <2>1. /\ TaskQ!Continue(w, batch[w], full[w]) /\ StartJudging(w)
        /\ UNCHANGED <<tasks, nodeVars>>
    BY <1>5 DEF XAck, XAckFails, TaskQ!XAck, TaskQ!XAckFails
  <2>2. batch[w] \subseteq Nat /\ full[w] \in BOOLEAN
    BY DEF TInv, TypeOK, TaskQ!StreamTypeOK
  <2>3. \A v \in Workers \ {w} : cur'[v] = cur[v]
    BY <2>1, <2>2, ContinueFacts
  <2> QED
    BY <2>1, <2>3, <1>m, DispatchJudged
<1>6. ASSUME NEW w \in Workers, Compile(w)
      PROVE  JudgingOK'
  <2>1. /\ stage[w] = "compile"
        /\ UNCHANGED <<streamVars, nodeVars, ran, expired>>
        /\ Task(w)' = Task(w) /\ CtxDone(w)' = CtxDone(w)
    BY <1>6 DEF Compile, Task, CtxDone, Stopping, streamVars, nodeVars
  <2>2. ASSUME NEW v \in Workers, v # w PROVE Judged(v)'
    <3>1. stage'[v] = stage[v] /\ status'[v] = status[v]
      BY <1>0, <1>6, <2>2 DEF Compile, Goto
    <3> QED
      BY <2>1, <2>2, <3>1, <1>m, OthersJudged DEF streamVars
  <2>3. Judged(w)'
    <3>1. CASE ~CtxDone(w) /\ Task(w) \notin CompileFails /\ Goto(w, "loop")
      <4>1. ran[w] = <<>>
        BY <2>1 DEF JudgingOK, Judged
      <4> QED
        BY <1>0, <2>1, <3>1, <4>1, TaskFacts DEF Judged, Goto
    <3>2. CASE /\ CtxDone(w) \/ Task(w) \in CompileFails
               /\ Goto(w, "publish") /\ status' = [status EXCEPT ![w] = "CE"]
      BY <1>0, <2>1, <3>2, TaskFacts DEF Judged, Goto, TrueStatus, Sound
    <3>4. CASE /\ misread' = misread \cup {cur[w]}
               /\ Goto(w, "publish") /\ status' = [status EXCEPT ![w] = "CE"]
      <4>1. stage'[w] = "publish" /\ status'[w] = "CE" /\ cur'[w] = cur[w]
        BY <1>0, <2>1, <3>4 DEF Goto, streamVars
      <4>2. Sound(w, status[w], TrueStatus(Task(w)))'
        BY <3>4, <4>1 DEF Sound
      <4> QED
        BY <4>1, <4>2 DEF Judged
    <3>3. CASE Goto(w, "publishSE")
      BY <1>0, <3>3, NotJudging DEF Goto
    <3> QED
      BY <1>6, <3>1, <3>2, <3>3, <3>4 DEF Compile, Misread
  <2> QED
    BY <2>2, <2>3 DEF JudgingOK
<1>7. ASSUME NEW w \in Workers, LoopHead(w)
      PROVE  JudgingOK'
  <2>1. /\ stage[w] = "loop"
        /\ UNCHANGED <<streamVars, nodeVars, ran, expired>>
        /\ Task(w)' = Task(w) /\ CtxDone(w)' = CtxDone(w)
    BY <1>7 DEF LoopHead, Task, CtxDone, Stopping, streamVars, nodeVars
  <2>2. ASSUME NEW v \in Workers, v # w PROVE Judged(v)'
    <3>1. stage'[v] = stage[v] /\ status'[v] = status[v]
      BY <1>0, <1>7, <2>2 DEF LoopHead, Goto
    <3> QED
      BY <2>1, <2>2, <3>1, <1>m, OthersJudged DEF streamVars
  <2>3. /\ Task(w) \notin CompileFails
        /\ ~CtxDone(w) =>
              /\ Len(ran[w]) <= Len(CaseVerdict[Task(w)])
              /\ \A k \in 1 .. Len(ran[w]) :
                    Sound(w, ran[w][k], CaseVerdict[Task(w)][k])
        /\ cur'[w] = cur[w] /\ misread' = misread
    BY <1>7, <2>1 DEF JudgingOK, Judged, LoopHead, streamVars
  <2>4. /\ ran[w] \in Seq(CaseStatus) /\ CaseVerdict[Task(w)] \in Seq(CaseStatus)
        /\ Len(ran[w]) \in Nat /\ Len(CaseVerdict[Task(w)]) \in Nat
    BY <1>0, <2>1, TaskFacts
  <2>5. Judged(w)'
    <3>1. CASE CtxDone(w)
      <4>1. stage'[w] = "publish"
        BY <1>0, <1>7, <3>1 DEF LoopHead, Goto
      <4> QED
        BY <2>1, <3>1, <4>1 DEF Judged
    <3>2. CASE ~CtxDone(w) /\ Len(ran[w]) = Len(CaseVerdict[Task(w)])
      <4>1. stage'[w] = "publish" /\ status'[w] = aggregate(ran[w])
        BY <1>0, <1>7, <3>2 DEF LoopHead, Goto
      <4>2. Sound(w, aggregate(ran[w]), aggregate(CaseVerdict[Task(w)]))
        <5> DEFINE lied == cur[w] \in misread
        <5>1. lied \in BOOLEAN
          OBVIOUS
        <5>2. \A k \in 1 .. Len(ran[w]) :
                 \/ ran[w][k] \in {CaseVerdict[Task(w)][k], "SE"}
                 \/ lied /\ ran[w][k] # "AC"
          BY <2>3, <3>2 DEF Sound
        <5>3. \/ aggregate(ran[w]) \in {"SE", aggregate(CaseVerdict[Task(w)])}
              \/ lied /\ aggregate(ran[w]) # "AC"
          <6> HIDE DEF lied
          <6> QED
            BY <2>4, <3>2, <5>1, <5>2, AggregateSound
        <5> QED
          BY <5>3 DEF Sound
      <4>3. TrueStatus(Task(w)) = aggregate(CaseVerdict[Task(w)])
        BY <2>3 DEF TrueStatus
      <4>4. TrueStatus(Task(w))' = TrueStatus(Task(w))
        BY <2>1 DEF TrueStatus
      <4>5. Sound(w, status[w], TrueStatus(Task(w)))'
        BY <2>3, <4>1, <4>2, <4>3, <4>4 DEF Sound
      <4> QED
        BY <4>1, <4>5 DEF Judged
    <3>3. CASE ~CtxDone(w) /\ Len(ran[w]) # Len(CaseVerdict[Task(w)])
      <4>1. stage'[w] = "case"
        BY <1>0, <1>7, <3>3 DEF LoopHead, Goto
      <4> QED
        BY <2>1, <2>3, <2>4, <3>3, <4>1 DEF Judged, Sound
    <3> QED
      BY <3>1, <3>2, <3>3
  <2> QED
    BY <2>2, <2>5 DEF JudgingOK
<1>8. ASSUME NEW w \in Workers, RunTestCase(w)
      PROVE  JudgingOK'
  <2>1. /\ stage[w] = "case" /\ stage'[w] = "loop"
        /\ UNCHANGED <<streamVars, nodeVars, status, expired>>
        /\ Task(w)' = Task(w) /\ CtxDone(w)' = CtxDone(w)
    BY <1>0, <1>8 DEF RunTestCase, Goto, Task, CtxDone, Stopping, streamVars, nodeVars
  <2>2. PICK x \in CaseStatus :
            /\ ran' = [ran EXCEPT ![w] = Append(ran[w], x)]
            /\ \/ x = CaseVerdict[Task(w)][Len(ran[w]) + 1]
               \/ x = "SE"
               \/ x # "AC" /\ misread' = misread \cup {cur[w]}
               \/ CtxDone(w)
    BY <1>8 DEF RunTestCase, Misread, Blame
  <2>3. ASSUME NEW v \in Workers, v # w PROVE Judged(v)'
    <3>1. stage'[v] = stage[v] /\ ran'[v] = ran[v]
      BY <1>0, <1>8, <2>2, <2>3 DEF RunTestCase, Goto
    <3> QED
      BY <2>1, <2>3, <3>1, <1>m, OthersJudged DEF streamVars
  <2>4. Judged(w)'
    <3>1. /\ Task(w) \notin CompileFails
          /\ ~CtxDone(w) =>
                /\ Len(ran[w]) < Len(CaseVerdict[Task(w)])
                /\ \A k \in 1 .. Len(ran[w]) :
                      Sound(w, ran[w][k], CaseVerdict[Task(w)][k])
          /\ cur'[w] = cur[w]
      BY <2>1 DEF JudgingOK, Judged, streamVars
    <3>2. /\ ran[w] \in Seq(CaseStatus) /\ Len(ran[w]) \in Nat
          /\ Len(CaseVerdict[Task(w)]) \in Nat
      BY <1>0, <2>1, TaskFacts
    <3>3. /\ ran'[w] = Append(ran[w], x)
          /\ Len(ran'[w]) = Len(ran[w]) + 1
          /\ \A k \in 1 .. Len(ran[w]) : ran'[w][k] = ran[w][k]
          /\ ran'[w][Len(ran[w]) + 1] = x
      BY <1>0, <2>2, <3>2
    <3>4. ASSUME ~CtxDone(w), NEW k \in 1 .. Len(ran'[w])
          PROVE  Sound(w, ran[w][k], CaseVerdict[Task(w)][k])'
      <4>0. CaseVerdict[Task(w)][k]' = CaseVerdict[Task(w)][k]
        BY <2>1
      <4>1. CASE k = Len(ran[w]) + 1
        BY <2>2, <3>1, <3>3, <3>4, <4>0, <4>1 DEF Sound
      <4>2. CASE k # Len(ran[w]) + 1
        <5>1. k \in 1 .. Len(ran[w]) /\ ran'[w][k] = ran[w][k]
          BY <3>2, <3>3, <3>4, <4>2
        <5>2. Sound(w, ran[w][k], CaseVerdict[Task(w)][k])
          BY <3>1, <3>4, <5>1
        <5> QED
          BY <1>m, <3>1, <4>0, <5>1, <5>2 DEF Sound
      <4> QED
        BY <4>1, <4>2
    <3> QED
      BY <2>1, <3>1, <3>2, <3>3, <3>4 DEF Judged
  <2> QED
    BY <2>3, <2>4 DEF JudgingOK
<1>9. ASSUME NEW w \in Workers,
             \/ Panic(w) \/ PublishFails(w) \/ Publish(w) \/ PublishSE(w)
      PROVE  JudgingOK'
  <2>1. /\ stage' = [stage EXCEPT ![w] = "publishSE"] \/ stage' = [stage EXCEPT ![w] = "none"]
        /\ UNCHANGED <<tasks, cur, nodeVars, ran, status, expired>>
    BY <1>9 DEF Panic, PublishFails, Publish, PublishSE, HandlerDone, Goto, streamVars
  <2>2. ASSUME NEW v \in Workers, v # w PROVE Judged(v)'
    BY <1>0, <2>1, <2>2, <1>m, OthersJudged
  <2>3. Judged(w)'
    BY <1>0, <2>1, NotJudging
  <2> QED
    BY <2>2, <2>3 DEF JudgingOK
<1>10. ASSUME NEW w \in Workers, GlobalTimeout(w)
       PROVE  JudgingOK'
  <2>1. /\ expired' = [expired EXCEPT ![w] = TRUE]
        /\ UNCHANGED <<tasks, cur, nodeVars, stage, ran, status>>
    BY <1>10 DEF GlobalTimeout, streamVars
  <2>2. ASSUME NEW v \in Workers PROVE Judged(v)'
    <3>1. CtxDone(v) => CtxDone(v)'
      BY <1>0, <2>1 DEF CtxDone, Stopping, nodeVars
    <3> QED
      BY <2>1, <3>1, <1>m, Undisturbed DEF JudgingOK, Task
  <2> QED
    BY <2>2 DEF JudgingOK
<1>11. ASSUME NEW n \in Nodes, Signal(n)
       PROVE  JudgingOK'
  <2>1. /\ node' = [node EXCEPT ![n] = "stopping"]
        /\ UNCHANGED <<tasks, cur, stage, ran, status, expired>>
    BY <1>11 DEF Signal, streamVars, judgeVars
  <2>2. ASSUME NEW v \in Workers PROVE Judged(v)'
    <3>1. CtxDone(v) => CtxDone(v)'
      BY <1>0, <2>1, NodesAssumption DEF CtxDone, Stopping
    <3> QED
      BY <2>1, <3>1, <1>m, Undisturbed DEF JudgingOK, Task
  <2> QED
    BY <2>2 DEF JudgingOK
<1>12. ASSUME NEW n \in Nodes, Exit(n) \/ Crash(n)
       PROVE  JudgingOK'
  <2>1. EndProcess(n)
    BY <1>12 DEF Exit, Crash
  <2>2. ASSUME NEW v \in Workers PROVE Judged(v)'
    <3>1. CASE NodeOf[v] = n
      <4>1. stage'[v] = "none"
        BY <2>1, <3>1 DEF EndProcess
      <4> QED
        BY <4>1, NotJudging
    <3>2. CASE NodeOf[v] # n
      <4>1. /\ stage'[v] = stage[v] /\ ran'[v] = ran[v] /\ status'[v] = status[v]
            /\ expired'[v] = expired[v] /\ cur'[v] = cur[v] /\ tasks' = tasks
            /\ node'[NodeOf[v]] = node[NodeOf[v]]
        BY <1>0, <2>1, <3>2, NodesAssumption DEF EndProcess, TaskQ!Die, WorkersOf
      <4> QED
        BY <4>1, <1>m, Undisturbed DEF JudgingOK, Task, CtxDone, Stopping
    <3> QED
      BY <3>1, <3>2
  <2> QED
    BY <2>2 DEF JudgingOK
<1>13. ASSUME NEW n \in Nodes, Restart(n)
       PROVE  JudgingOK'
  <2>1. /\ node[n] = "down" /\ node' = [node EXCEPT ![n] = "up"]
        /\ UNCHANGED <<tasks, cur, stage, ran, status, expired>>
    BY <1>13 DEF Restart, TaskQ!Launch, judgeVars
  <2>2. ASSUME NEW v \in Workers PROVE Judged(v)'
    <3>1. CtxDone(v) => CtxDone(v)'
      BY <1>0, <2>1, NodesAssumption DEF CtxDone, Stopping
    <3> QED
      BY <2>1, <3>1, <1>m, Undisturbed DEF JudgingOK, Task
  <2> QED
    BY <2>2 DEF JudgingOK
<1>14. ASSUME NEW s \in Submissions, EnqueueTask(s)
       PROVE  JudgingOK'
  <2>1. /\ tasks' \in TaskQ!XAdd(tasks, s)
        /\ UNCHANGED <<cur, nodeVars, judgeVars>>
    BY <1>14 DEF EnqueueTask, TaskQ!Publish
  <2>2. tasks \in [msgs : Seq(Submissions), first : Nat] /\ tasks.first >= 1
    BY DEF TInv, TypeOK, TaskQ!StreamTypeOK, EntriesOK
  <2>3. \A i \in 1 .. Len(tasks.msgs) : tasks'.msgs[i] = tasks.msgs[i]
    BY <2>1, <2>2, XAddFacts
  <2>4. ASSUME NEW v \in Workers PROVE Judged(v)'
    <3>1. stage[v] # "none" => Task(v)' = Task(v)
      BY <2>1, <2>3, TaskFacts DEF Task
    <3> QED
      BY <2>1, <3>1, <1>m, Undisturbed DEF JudgingOK, CtxDone, Stopping, nodeVars, judgeVars
  <2> QED
    BY <2>4 DEF JudgingOK
<1>15. CASE UNCHANGED judgerState
  BY <1>15, <1>m, Undisturbed DEF judgerState, streamVars, nodeVars, judgeVars, JudgingOK, Task,
      CtxDone, Stopping
<1> QED
  BY <1>1, <1>2, <1>3, <1>4, <1>5, <1>6, <1>7, <1>8, <1>9, <1>10, <1>11, <1>12, <1>13,
     <1>14, <1>15
     DEF AnyStep, JudgerNext, WorkerStep, Disturbance, Supervise

\* The stream of results changes only when a worker publishes, and then in one
\* of three ways.
LEMMA ResultsStep ==
    ASSUME TInv, AnyStep
    PROVE  \/ results' = results
           \/ \E w \in Workers :
                 /\ stage[w] = "publish" /\ ~CtxDone(w)
                 /\ PublishResult(Result(w, status[w]))
           \/ \E w \in Workers :
                 stage[w] = "publishSE" /\ PublishResult(Result(w, "SE"))
<1> USE DEF nodeVars, judgeVars, streamVars
<1>1. ASSUME NEW w \in Workers,
             \/ EnsureGroup(w) \/ EnsureGroupFails(w) \/ SubscribeReturns(w)
             \/ DrainPending(w) \/ DrainPendingFails(w)
             \/ XReadGroup(w) \/ XReadGroupLost(w) \/ XAck(w) \/ XAckFails(w)
      PROVE  results' = results
  BY <1>1 DEF EnsureGroup, EnsureGroupFails, SubscribeReturns, DrainPending,
      DrainPendingFails, XReadGroup, XReadGroupLost, XAck, XAckFails
<1>2. ASSUME NEW w \in Workers,
             Compile(w) \/ LoopHead(w) \/ RunTestCase(w) \/ Panic(w) \/ GlobalTimeout(w)
      PROVE  results' = results
  BY <1>2 DEF Compile, LoopHead, RunTestCase, Panic, GlobalTimeout
<1>3. ASSUME NEW w \in Workers, Publish(w) \/ PublishFails(w)
      PROVE  \/ results' = results
             \/ /\ stage[w] = "publish" /\ ~CtxDone(w)
                /\ PublishResult(Result(w, status[w]))
  BY <1>3 DEF Publish, PublishFails
<1>4. ASSUME NEW w \in Workers, PublishSE(w)
      PROVE  \/ results' = results
             \/ stage[w] = "publishSE" /\ PublishResult(Result(w, "SE"))
  BY <1>4 DEF PublishSE
<1>5. ASSUME NEW n \in Nodes, Signal(n) \/ Exit(n) \/ Crash(n) \/ Restart(n)
      PROVE  results' = results
  BY <1>5 DEF Signal, Exit, Crash, Restart, EndProcess
<1>6. ASSUME NEW s \in Submissions, EnqueueTask(s)
      PROVE  results' = results
  BY <1>6 DEF EnqueueTask
<1>7. CASE UNCHANGED judgerState
  BY <1>7 DEF judgerState, streamVars, nodeVars, judgeVars
<1> QED
  BY <1>1, <1>2, <1>3, <1>4, <1>5, <1>6, <1>7
     DEF AnyStep, JudgerNext, WorkerStep, Disturbance, Supervise

\* Every step publishes sound results only.
LEMMA VerdictStep == TInv /\ JudgingOK /\ VerdictSound /\ AnyStep => VerdictSound'
<1> SUFFICES ASSUME TInv, JudgingOK, VerdictSound, AnyStep PROVE VerdictSound'
  OBVIOUS
<1>1. results \in [msgs : Seq(ResultMessage), first : Nat]
  BY DEF TInv, TypeOK
<1>m. misread \subseteq misread'
  BY MisreadStep
<1>2. ASSUME NEW w \in Workers, stage[w] # "none", NEW st \in ResultStatus,
             Sound(w, st, TrueStatus(Task(w))), PublishResult(Result(w, st))
      PROVE  VerdictSound'
  <2>1. Consumed(w)
    BY <1>2 DEF TInv, EntriesOK, Consumed
  <2>2. /\ results' \in [msgs : Seq(ResultMessage), first : Nat]
        /\ Len(results'.msgs) = Len(results.msgs) + 1
        /\ \A i \in 1 .. Len(results.msgs) : results'.msgs[i] = results.msgs[i]
        /\ results'.msgs[Len(results.msgs) + 1] = Result(w, st)
    BY <1>2, <2>1, PublishFacts
  <2>3. /\ Result(w, st).status = st /\ Result(w, st).sub = Task(w)
        /\ Result(w, st).task = cur[w]
    BY DEF Result
  <2>4. ASSUME NEW i \in DOMAIN results'.msgs
        PROVE  \/ results'.msgs[i].status \in {"SE", TrueStatus(results'.msgs[i].sub)}
               \/ results'.msgs[i].task \in misread' /\ results'.msgs[i].status # "AC"
    <3>1. i \in 1 .. Len(results.msgs) + 1 /\ Len(results.msgs) \in Nat
      BY <1>1, <2>2, <2>4
    <3>2. CASE i = Len(results.msgs) + 1
      BY <1>2, <1>m, <2>2, <2>3, <3>2 DEF Sound
    <3>3. CASE i \in 1 .. Len(results.msgs)
      BY <1>1, <1>m, <2>2, <3>3 DEF VerdictSound
    <3> QED
      BY <3>1, <3>2, <3>3
  <2> QED
    BY <2>4 DEF VerdictSound, TrueStatus
<1>3. CASE results' = results
  BY <1>3, <1>m DEF VerdictSound, TrueStatus
<1>4. ASSUME NEW w \in Workers, stage[w] = "publish", ~CtxDone(w),
             PublishResult(Result(w, status[w]))
      PROVE  VerdictSound'
  <2>1. Sound(w, status[w], TrueStatus(Task(w))) /\ status[w] \in ResultStatus
    BY <1>4 DEF JudgingOK, Judged, TInv, TypeOK
  <2> QED
    BY <1>2, <1>4, <2>1
<1>5. ASSUME NEW w \in Workers, stage[w] = "publishSE", PublishResult(Result(w, "SE"))
      PROVE  VerdictSound'
  BY <1>2, <1>5 DEF ResultStatus, CaseStatus, Sound
<1> QED
  BY <1>3, <1>4, <1>5, ResultsStep

\* A published result is a SystemError or the verdict of a complete, undisturbed
\* judging (scheduler.go, runStateMachine and publishResult); one that takes a
\* failure of the sandbox or of a checker for the program's (compiler.go, execute.go,
\* runner_special.go) is none that accepts it.
THEOREM VerdictsAreSound == Spec => []VerdictSound
<1>1. Init => VerdictSound
  BY DEF Init, VerdictSound, TaskQ!EmptyLog
<1> QED
  BY <1>1, JudgingInit, JudgingStep, VerdictStep, TInvAlways, NextIsAnyStep, PTL DEF Spec

-----------------------------------------------------------------------------
\* At-least-once judging.

\* A worker about to acknowledge its task has answered it, or has failed to
\* publish even the SystemError.
AnswersOK ==
    \A w \in Workers : at[w] = "ack" => Answered(cur[w]) \/ cur[w] \in unanswered

\* Publishing a result answers the task of the worker and keeps all answers.
LEMMA PublishAnswers ==
    ASSUME TInv, NEW w \in Workers, stage[w] # "none", NEW st \in ResultStatus,
           PublishResult(Result(w, st))
    PROVE  /\ \E k \in DOMAIN results'.msgs : results'.msgs[k].task = cur[w]
           /\ \A i : Answered(i) => Answered(i)'
<1>1. Consumed(w) /\ results \in [msgs : Seq(ResultMessage), first : Nat]
  BY DEF TInv, TypeOK, EntriesOK, Consumed
<1>2. /\ results' \in [msgs : Seq(ResultMessage), first : Nat]
      /\ Len(results'.msgs) = Len(results.msgs) + 1
      /\ \A i \in 1 .. Len(results.msgs) : results'.msgs[i] = results.msgs[i]
      /\ results'.msgs[Len(results.msgs) + 1] = Result(w, st)
  BY <1>1, PublishFacts
<1>3. Result(w, st).task = cur[w]
  BY DEF Result
<1>4. /\ DOMAIN results.msgs = 1 .. Len(results.msgs) /\ Len(results.msgs) \in Nat
      /\ DOMAIN results'.msgs = 1 .. Len(results.msgs) + 1
  BY <1>1, <1>2
<1>5. Len(results.msgs) + 1 \in DOMAIN results'.msgs
  BY <1>4
<1>6. ASSUME NEW i, Answered(i) PROVE Answered(i)'
  <2>1. PICK k \in DOMAIN results.msgs : results.msgs[k].task = i
    BY <1>6 DEF Answered
  <2>2. k \in DOMAIN results'.msgs /\ results'.msgs[k].task = i
    BY <1>2, <1>4, <2>1
  <2> QED
    BY <2>2 DEF Answered
<1> QED
  BY <1>2, <1>3, <1>5, <1>6

\* Answers are never taken back.
LEMMA AnsweredStays ==
    ASSUME TInv, AnyStep
    PROVE  \A i : Answered(i) => Answered(i)'
<1>1. CASE results' = results
  BY <1>1 DEF Answered
<1>2. ASSUME NEW w \in Workers, stage[w] = "publish",
             PublishResult(Result(w, status[w]))
      PROVE  \A i : Answered(i) => Answered(i)'
  <2>1. status[w] \in ResultStatus
    BY DEF TInv, TypeOK
  <2> QED
    BY <1>2, <2>1, PublishAnswers
<1>3. ASSUME NEW w \in Workers, stage[w] = "publishSE", PublishResult(Result(w, "SE"))
      PROVE  \A i : Answered(i) => Answered(i)'
  <2>1. "SE" \in ResultStatus
    BY DEF ResultStatus, CaseStatus
  <2> QED
    BY <1>3, <2>1, PublishAnswers
<1> QED
  BY <1>1, <1>2, <1>3, ResultsStep

\* How an entry can become settled, and how a worker can get ready to
\* acknowledge.
SettlesOnlyBy ==
    /\ \A i \in TaskQ!Settled' :
          \/ i \in TaskQ!Settled
          \/ i < tasks'.first
          \/ \E w \in Workers : at[w] = "ack" /\ cur[w] = i
    /\ \A w \in Workers : at'[w] = "ack" =>
          \/ at[w] = "ack" /\ cur'[w] = cur[w]
          \/ Answered(cur[w])' /\ cur'[w] = cur[w]
          \/ cur[w] \in unanswered' /\ cur'[w] = cur[w]
    /\ unanswered \subseteq unanswered'
    /\ tasks.first <= tasks'.first

\* Steps that leave the stream and the group alone settle nothing.
LEMMA GroupUnchanged ==
    ASSUME TInv, tasks' = tasks, group' = group
    PROVE  /\ \A i \in TaskQ!Settled' : i \in TaskQ!Settled
           /\ tasks.first <= tasks'.first
  BY DEF TaskQ!Settled, TaskQ!PendingIds, TInv, TypeOK, TaskQ!StreamTypeOK

\* A delivery settles nothing but the trimmed entries it skips.
LEMMA GroupDelivers ==
    ASSUME TInv, NEW w \in Workers, TaskQ!HasNew, TaskQ!Deliver(NameOf(w)),
           tasks' = tasks
    PROVE  /\ \A i \in TaskQ!Settled' : i \in TaskQ!Settled \/ i < tasks'.first
           /\ tasks.first <= tasks'.first
<1>1. /\ tasks.first \in Nat /\ group.next \in Nat
      /\ group'.next = TaskQ!NextEntry + 1
      /\ group'.pel = group.pel \cup {[id |-> TaskQ!NextEntry, owner |-> NameOf(w)]}
  BY DeliverFacts DEF TInv, TypeOK, TaskQ!StreamTypeOK
<1>2. ASSUME NEW i \in TaskQ!Settled' PROVE i \in TaskQ!Settled \/ i < tasks.first
  <2>1. /\ i \in 1 .. Len(tasks.msgs) /\ i < TaskQ!NextEntry + 1
        /\ \A e \in group.pel : e.id # i
        /\ i # TaskQ!NextEntry
    BY <1>1, <1>2 DEF TaskQ!Settled, TaskQ!PendingIds
  <2>2. CASE i < group.next
    BY <2>1, <2>2 DEF TaskQ!Settled, TaskQ!PendingIds
  <2>3. CASE ~(i < group.next)
    BY <1>1, <2>1, <2>3 DEF TaskQ!NextEntry
  <2> QED
    BY <2>2, <2>3
<1> QED
  BY <1>1, <1>2

\* Forgetting pending entries settles those entries only.
LEMMA GroupForgets ==
    ASSUME TInv, NEW ids, group' = TaskQ!Unpended(group, ids), tasks' = tasks
    PROVE  /\ \A i \in TaskQ!Settled' : i \in TaskQ!Settled \/ i \in ids
           /\ tasks.first <= tasks'.first
<1>1. /\ group'.next = group.next
      /\ group'.pel = {e \in group.pel : e.id \notin ids}
      /\ tasks.first \in Nat
  BY UnpendedFacts DEF TInv, TypeOK, TaskQ!StreamTypeOK
<1> QED
  BY <1>1 DEF TaskQ!Settled, TaskQ!PendingIds

\* Every step settles entries only in the ways listed.
LEMMA SettleStep ==
    ASSUME TInv, AnyStep
    PROVE  SettlesOnlyBy
<1>0. /\ at \in [Workers -> {"off", "subscribe", "drain", "poll", "handle", "ack",
                             "returned"}]
      /\ cur \in [Workers -> Nat]
  BY DEF TInv, TypeOK, TaskQ!StreamTypeOK
<1>1. ASSUME NEW w \in Workers,
             EnsureGroup(w) \/ EnsureGroupFails(w) \/ SubscribeReturns(w)
      PROVE  SettlesOnlyBy
  <2>1. /\ UNCHANGED <<tasks, group, cur, unanswered>>
        /\ \E x \in {"drain", "returned"} : at' = [at EXCEPT ![w] = x]
    BY <1>1 DEF EnsureGroup, EnsureGroupFails, SubscribeReturns,
        TaskQ!EnsureGroup, TaskQ!EnsureGroupFails, TaskQ!Return
  <2> QED
    BY <1>0, <2>1, GroupUnchanged DEF SettlesOnlyBy
<1>2. ASSUME NEW w \in Workers, DrainPending(w)
      PROVE  SettlesOnlyBy
  <2> DEFINE mine == TaskQ!PendingOf(NameOf(w))
             listed == {i \in mine :
                           TaskQ!Cardinality({j \in mine : j < i}) < PendingBatch}
             alive == {i \in listed : i >= tasks.first}
  <2>1. /\ group' = TaskQ!Unpended(group, listed \ alive)
        /\ TaskQ!Continue(w, alive, TaskQ!Cardinality(listed) = PendingBatch)
        /\ UNCHANGED <<tasks, unanswered>>
    BY <1>2 DEF DrainPending, TaskQ!DrainPending
  <2>2. alive \subseteq Nat /\ \A i \in listed \ alive : i < tasks.first
    BY DEF TInv, EntriesOK, TaskQ!PendingOf, TypeOK, TaskQ!StreamTypeOK
  <2> HIDE DEF alive, listed
  <2>3. (TaskQ!Cardinality(listed) = PendingBatch) \in BOOLEAN
    OBVIOUS
  <2>4. /\ \A v \in Workers \ {w} : at'[v] = at[v] /\ cur'[v] = cur[v]
        /\ at'[w] \in {"handle", "drain", "poll"}
    BY <2>1, <2>2, <2>3, ContinueFacts
  <2>5. /\ \A i \in TaskQ!Settled' : i \in TaskQ!Settled \/ i \in listed \ alive
        /\ tasks.first <= tasks'.first
    BY <2>1, GroupForgets
  <2> QED
    BY <2>1, <2>2, <2>4, <2>5 DEF SettlesOnlyBy
<1>3. ASSUME NEW w \in Workers, DrainPendingFails(w)
      PROVE  SettlesOnlyBy
  <2>1. /\ at' = [at EXCEPT ![w] = "poll"] /\ cur' = [cur EXCEPT ![w] = 0]
        /\ UNCHANGED <<tasks, group, unanswered>>
    BY <1>3 DEF DrainPendingFails, TaskQ!DrainPendingFails, TaskQ!Continue
  <2> QED
    BY <1>0, <2>1, GroupUnchanged DEF SettlesOnlyBy
<1>4. ASSUME NEW w \in Workers, XReadGroup(w)
      PROVE  SettlesOnlyBy
  <2>1. /\ cur' = [cur EXCEPT ![w] = TaskQ!NextEntry]
        /\ at' = [at EXCEPT ![w] = "handle"]
        /\ UNCHANGED <<tasks, unanswered>>
        /\ TaskQ!HasNew /\ TaskQ!Deliver(NameOf(w))
    BY <1>4 DEF XReadGroup, TaskQ!XReadGroup
  <2> QED
    BY <1>0, <2>1, GroupDelivers DEF SettlesOnlyBy
<1>5. ASSUME NEW w \in Workers, XReadGroupLost(w)
      PROVE  SettlesOnlyBy
  <2>1. /\ UNCHANGED <<tasks, at, cur, unanswered>>
        /\ TaskQ!HasNew /\ TaskQ!Deliver(NameOf(w))
    BY <1>5 DEF XReadGroupLost, TaskQ!XReadGroupLost
  <2> QED
    BY <2>1, GroupDelivers DEF SettlesOnlyBy
<1>6. ASSUME NEW w \in Workers,
             Compile(w) \/ LoopHead(w) \/ RunTestCase(w) \/ Panic(w) \/ GlobalTimeout(w)
                \/ PublishFails(w)
      PROVE  SettlesOnlyBy
  <2>1. UNCHANGED <<tasks, group, at, cur, unanswered>>
    BY <1>6 DEF Compile, LoopHead, RunTestCase, Panic, GlobalTimeout, PublishFails,
                streamVars
  <2> QED
    BY <2>1, GroupUnchanged DEF SettlesOnlyBy
<1>7. ASSUME NEW w \in Workers, Publish(w) \/ PublishSE(w)
      PROVE  SettlesOnlyBy
  <2>1. /\ stage[w] # "none" /\ at' = [at EXCEPT ![w] = "ack"]
        /\ UNCHANGED <<tasks, group, cur>>
        /\ unanswered \subseteq unanswered'
        /\ \/ \E st \in {status[w], "SE"} : PublishResult(Result(w, st))
           \/ cur[w] \in unanswered'
    BY <1>7 DEF Publish, PublishSE, HandlerDone, TaskQ!HandlerDone
  <2>2. {status[w], "SE"} \subseteq ResultStatus
    BY DEF TInv, TypeOK, ResultStatus, CaseStatus
  <2>3. \/ \E k \in DOMAIN results'.msgs : results'.msgs[k].task = cur[w]
        \/ cur[w] \in unanswered'
    BY <2>1, <2>2, PublishAnswers
  <2>4. Answered(cur[w])' \/ cur[w] \in unanswered'
    BY <2>1, <2>3 DEF Answered
  <2> QED
    BY <1>0, <2>1, <2>4, GroupUnchanged DEF SettlesOnlyBy
<1>8. ASSUME NEW w \in Workers, XAck(w) \/ XAckFails(w)
      PROVE  SettlesOnlyBy
  <2>1. /\ at[w] = "ack"
        /\ TaskQ!Continue(w, batch[w], full[w])
        /\ group' = TaskQ!Unpended(group, {cur[w]}) \/ group' = group
        /\ UNCHANGED <<tasks, unanswered>>
    BY <1>8 DEF XAck, XAckFails, TaskQ!XAck, TaskQ!XAckFails
  <2>2. batch[w] \subseteq Nat /\ full[w] \in BOOLEAN
    BY DEF TInv, TypeOK, TaskQ!StreamTypeOK
  <2>3. /\ \A v \in Workers \ {w} : at'[v] = at[v] /\ cur'[v] = cur[v]
        /\ at'[w] \in {"handle", "drain", "poll"}
    BY <2>1, <2>2, ContinueFacts
  <2>4. /\ \A i \in TaskQ!Settled' : i \in TaskQ!Settled \/ i = cur[w]
        /\ tasks.first <= tasks'.first
    BY <2>1, GroupForgets, GroupUnchanged
  <2> QED
    BY <2>1, <2>3, <2>4 DEF SettlesOnlyBy
<1>9. ASSUME NEW n \in Nodes, Signal(n)
      PROVE  SettlesOnlyBy
  <2>1. UNCHANGED <<tasks, group, at, cur, unanswered>>
    BY <1>9 DEF Signal, streamVars
  <2> QED
    BY <2>1, GroupUnchanged DEF SettlesOnlyBy
<1>10. ASSUME NEW n \in Nodes, Exit(n) \/ Crash(n)
       PROVE  SettlesOnlyBy
  <2>1. EndProcess(n)
    BY <1>10 DEF Exit, Crash
  <2>2. /\ UNCHANGED <<tasks, group, unanswered>>
        /\ \A w \in Workers :
              at'[w] = "off" \/ (at'[w] = at[w] /\ cur'[w] = cur[w])
    BY <1>0, <2>1 DEF EndProcess, TaskQ!Die
  <2> QED
    BY <2>2, GroupUnchanged DEF SettlesOnlyBy
<1>11. ASSUME NEW n \in Nodes, Restart(n)
       PROVE  SettlesOnlyBy
  <2>1. /\ UNCHANGED <<tasks, group, cur, unanswered>>
        /\ \A w \in Workers : at'[w] = "subscribe" \/ at'[w] = at[w]
    BY <1>0, <1>11 DEF Restart, TaskQ!Launch
  <2> QED
    BY <2>1, GroupUnchanged DEF SettlesOnlyBy
<1>12. ASSUME NEW s \in Submissions, EnqueueTask(s)
       PROVE  SettlesOnlyBy
  <2>1. /\ tasks' \in TaskQ!XAdd(tasks, s)
        /\ UNCHANGED <<group, at, cur, unanswered>>
    BY <1>12 DEF EnqueueTask, TaskQ!Publish
  <2>2. /\ tasks \in [msgs : Seq(Submissions), first : Nat] /\ tasks.first >= 1
        /\ group.next \in 1 .. Len(tasks.msgs) + 1 /\ Len(tasks.msgs) \in Nat
    BY DEF TInv, TypeOK, TaskQ!StreamTypeOK, EntriesOK
  <2>3. Len(tasks'.msgs) = Len(tasks.msgs) + 1 /\ tasks'.first >= tasks.first
        /\ tasks'.first \in Nat
    BY <2>1, <2>2, XAddFacts
  <2>4. \A i \in TaskQ!Settled' : i \in TaskQ!Settled
    BY <2>1, <2>2, <2>3 DEF TaskQ!Settled, TaskQ!PendingIds
  <2> QED
    BY <2>1, <2>2, <2>3, <2>4 DEF SettlesOnlyBy
<1>13. CASE UNCHANGED judgerState
  BY <1>13, GroupUnchanged DEF judgerState, streamVars, nodeVars, judgeVars, SettlesOnlyBy
<1> QED
  BY <1>1, <1>2, <1>3, <1>4, <1>5, <1>6, <1>7, <1>8, <1>9, <1>10, <1>11, <1>12, <1>13
     DEF AnyStep, JudgerNext, WorkerStep, Disturbance, Supervise

\* Every step acknowledges answered tasks only.
LEMMA AnswersStep ==
    TInv /\ AnswersOK /\ SettledIsAnswered /\ AnyStep
        => AnswersOK' /\ SettledIsAnswered'
<1> SUFFICES ASSUME TInv, AnswersOK, SettledIsAnswered, AnyStep
             PROVE  AnswersOK' /\ SettledIsAnswered'
  OBVIOUS
<1>1. SettlesOnlyBy /\ \A i : Answered(i) => Answered(i)'
  BY SettleStep, AnsweredStays
<1>2. ASSUME NEW w \in Workers, at'[w] = "ack"
      PROVE  \/ Answered(cur[w])' /\ cur'[w] = cur[w]
             \/ cur'[w] \in unanswered'
  BY <1>1, <1>2 DEF SettlesOnlyBy, AnswersOK
<1>3. AnswersOK'
  BY <1>2 DEF AnswersOK, Answered
<1>4. ASSUME NEW i \in TaskQ!Settled'
      PROVE  Answered(i)' \/ i \in unanswered' \/ i < tasks'.first
  <2>1. CASE i \in TaskQ!Settled
    <3>1. Answered(i) \/ i \in unanswered \/ i < tasks.first
      BY <2>1 DEF SettledIsAnswered
    <3>2. i < tasks.first => i < tasks'.first
      <4>1. TInv'
        BY TInvStep
      <4>2. i \in Nat /\ tasks.first \in Nat /\ tasks'.first \in Nat
        BY <2>1, <4>1 DEF TaskQ!Settled, TInv, TypeOK, TaskQ!StreamTypeOK
      <4> QED
        BY <1>1, <4>2 DEF SettlesOnlyBy
    <3> QED
      BY <1>1, <3>1, <3>2 DEF SettlesOnlyBy
  <2>2. ASSUME NEW w \in Workers, at[w] = "ack", cur[w] = i
        PROVE  Answered(i)' \/ i \in unanswered'
    BY <1>1, <2>2 DEF AnswersOK, SettlesOnlyBy
  <2> QED
    BY <1>1, <2>1, <2>2 DEF SettlesOnlyBy
<1>5. SettledIsAnswered'
  BY <1>4 DEF SettledIsAnswered, Answered
<1> QED
  BY <1>3, <1>5

\* At-least-once judging (stream.go, dispatch; scheduler.go, handleMessage): a
\* task that was delivered and is no longer pending has a result, or is one whose
\* SystemError could not be published, or was trimmed.
THEOREM SettledTasksAreAnswered == Spec => []SettledIsAnswered
<1>1. Init => AnswersOK /\ SettledIsAnswered
  BY DEF Init, AnswersOK, SettledIsAnswered, TaskQ!Settled, TaskQ!StreamInit,
         TaskQ!EmptyLog
<1> QED
  BY <1>1, AnswersStep, TInvAlways, NextIsAnyStep, PTL DEF Spec

-----------------------------------------------------------------------------
\* One node per task.

\* The entries worker w has been given and not yet dealt with.
Held(w) == batch[w] \cup {i \in {cur[w]} : Consumed(w)}

\* A pending entry has one owner; held entries have been delivered, are pending,
\* if at all, for the holder's node, and are held by one node only.
OwnersOK ==
    /\ \A d, e \in group.pel : d.id = e.id => d.owner = e.owner
    /\ \A w \in Workers : \A i \in Held(w) :
          /\ i \in Nat /\ i < group.next
          /\ \A e \in group.pel : e.id = i => e.owner[1] = NodeOf[w]
    /\ \A v, w \in Workers :
          Held(v) \cap Held(w) # {} => NodeOf[v] = NodeOf[w]

\* Workers drop entries and the group forgets some.
LEMMA OwnersShrink ==
    ASSUME TInv, OwnersOK, \A v \in Workers : Held(v)' \subseteq Held(v),
           group'.next = group.next, group'.pel \subseteq group.pel
    PROVE  OwnersOK'
<1>1. \A d, e \in group'.pel : d.id = e.id => d.owner = e.owner
  BY DEF OwnersOK
<1>2. ASSUME NEW v \in Workers, NEW i \in Held(v)'
      PROVE  /\ i \in Nat /\ i < group'.next
             /\ \A e \in group'.pel : e.id = i => e.owner[1] = NodeOf[v]
  BY <1>2 DEF OwnersOK
<1>3. ASSUME NEW u \in Workers, NEW v \in Workers, Held(u)' \cap Held(v)' # {}
      PROVE  NodeOf[u] = NodeOf[v]
  <2>1. Held(u) \cap Held(v) # {}
    BY <1>3
  <2> QED
    BY <2>1 DEF OwnersOK
<1> QED
  BY <1>1, <1>2, <1>3 DEF OwnersOK

\* A new entry is delivered to w.
LEMMA OwnersDeliver ==
    ASSUME TInv, OwnersOK, NEW w \in Workers, TaskQ!HasNew, TaskQ!Deliver(NameOf(w)),
           \A v \in Workers \ {w} : Held(v)' \subseteq Held(v),
           Held(w)' \subseteq Held(w) \cup {TaskQ!NextEntry}
    PROVE  OwnersOK'
<1> DEFINE N == TaskQ!NextEntry
           new == [id |-> N, owner |-> NameOf(w)]
<1>1. /\ N \in Nat /\ N >= group.next /\ group.next \in Nat
      /\ group'.next = N + 1
      /\ group'.pel = group.pel \cup {new}
  BY DeliverFacts DEF TInv, TypeOK, TaskQ!StreamTypeOK
<1>2. \A e \in group.pel : e.id < N
  BY <1>1 DEF TInv, EntriesOK
<1>3. new.id = N /\ new.owner[1] = NodeOf[w]
  BY DEF NameOf
<1> HIDE DEF new, N
<1>4. \A d, e \in group'.pel : d.id = e.id => d.owner = e.owner
  BY <1>1, <1>2, <1>3 DEF OwnersOK
<1>5. ASSUME NEW v \in Workers, NEW i \in Held(v)
      PROVE  /\ i \in Nat /\ i < N
             /\ \A e \in group.pel : e.id = i => e.owner[1] = NodeOf[v]
  BY <1>1, <1>5 DEF OwnersOK
<1>6. ASSUME NEW v \in Workers, NEW i \in Held(v)'
      PROVE  i \in Held(v) \/ (i = N /\ v = w)
  BY <1>6 DEF N
<1>7. ASSUME NEW v \in Workers, NEW i \in Held(v)'
      PROVE  /\ i \in Nat /\ i < group'.next
             /\ \A e \in group'.pel : e.id = i => e.owner[1] = NodeOf[v]
  <2>1. CASE i \in Held(v)
    BY <1>1, <1>3, <1>5, <2>1
  <2>2. CASE i = N /\ v = w
    BY <1>1, <1>2, <1>3, <2>2
  <2> QED
    BY <1>6, <1>7, <2>1, <2>2
<1>8. ASSUME NEW u \in Workers, NEW v \in Workers, Held(u)' \cap Held(v)' # {}
      PROVE  NodeOf[u] = NodeOf[v]
  <2>1. PICK i : i \in Held(u)' /\ i \in Held(v)'
    BY <1>8
  <2>2. CASE i \in Held(u) /\ i \in Held(v)
    BY <2>2 DEF OwnersOK
  <2>3. CASE i = N /\ u = w
    BY <1>1, <1>5, <1>6, <2>1, <2>3
  <2>4. CASE i = N /\ v = w
    BY <1>1, <1>5, <1>6, <2>1, <2>4
  <2> QED
    BY <1>6, <2>1, <2>2, <2>3, <2>4
<1> QED
  BY <1>4, <1>7, <1>8 DEF OwnersOK

\* drainPending gives w entries that are pending for its own name.
LEMMA OwnersDrain ==
    ASSUME TInv, OwnersOK, NEW w \in Workers,
           \A v \in Workers \ {w} : Held(v)' \subseteq Held(v),
           Held(w)' \subseteq TaskQ!PendingOf(NameOf(w)),
           group'.next = group.next, group'.pel \subseteq group.pel
    PROVE  OwnersOK'
<1>1. ASSUME NEW i \in Held(w)'
      PROVE  /\ i \in Nat /\ i < group.next
             /\ \A e \in group.pel : e.id = i => e.owner[1] = NodeOf[w]
             /\ \A v \in Workers : i \in Held(v) => NodeOf[v] = NodeOf[w]
  <2>1. PICK x \in group.pel : x.id = i /\ x.owner = NameOf(w)
    BY <1>1 DEF TaskQ!PendingOf
  <2>2. x.owner[1] = NodeOf[w]
    BY <2>1 DEF NameOf
  <2>3. i \in Nat /\ i < group.next
    BY <2>1 DEF TInv, EntriesOK
  <2>4. \A e \in group.pel : e.id = i => e.owner[1] = NodeOf[w]
    BY <2>1, <2>2 DEF OwnersOK
  <2>5. \A v \in Workers : i \in Held(v) => NodeOf[v] = NodeOf[w]
    BY <2>1, <2>2 DEF OwnersOK
  <2> QED
    BY <2>3, <2>4, <2>5
<1>2. \A d, e \in group'.pel : d.id = e.id => d.owner = e.owner
  BY DEF OwnersOK
<1>3. ASSUME NEW v \in Workers, NEW i \in Held(v)'
      PROVE  /\ i \in Nat /\ i < group'.next
             /\ \A e \in group'.pel : e.id = i => e.owner[1] = NodeOf[v]
  <2>1. CASE v = w
    BY <1>1, <1>3, <2>1
  <2>2. CASE v # w
    BY <1>3, <2>2 DEF OwnersOK
  <2> QED
    BY <2>1, <2>2
<1>4. ASSUME NEW u \in Workers, NEW v \in Workers, Held(u)' \cap Held(v)' # {}
      PROVE  NodeOf[u] = NodeOf[v]
  <2>1. PICK i : i \in Held(u)' /\ i \in Held(v)'
    BY <1>4
  <2>2. CASE u = w
    BY <1>1, <2>1, <2>2
  <2>3. CASE v = w
    BY <1>1, <2>1, <2>3
  <2>4. CASE u # w /\ v # w
    <3>1. i \in Held(u) /\ i \in Held(v)
      BY <2>1, <2>4
    <3> QED
      BY <3>1 DEF OwnersOK
  <2> QED
    BY <2>2, <2>3, <2>4
<1> QED
  BY <1>2, <1>3, <1>4 DEF OwnersOK

\* What the dispatch loop of w does to the entries held.
LEMMA ContinueHeld ==
    ASSUME TInv, NEW w \in Workers, NEW b, b \subseteq Nat, NEW again \in BOOLEAN,
           TaskQ!Continue(w, b, again)
    PROVE  /\ \A v \in Workers \ {w} : Held(v)' = Held(v)
           /\ Held(w)' \subseteq b
<1>0. b \subseteq Nat
  OBVIOUS
<1>1. /\ at' \in [Workers -> {"off", "subscribe", "drain", "poll", "handle",
                              "ack", "returned"}]
      /\ cur' \in [Workers -> Nat]
      /\ batch' \in [Workers -> SUBSET Nat]
      /\ full' \in [Workers -> BOOLEAN]
      /\ \A v \in Workers \ {w} :
            at'[v] = at[v] /\ cur'[v] = cur[v] /\ batch'[v] = batch[v]
      /\ at'[w] \in {"handle", "drain", "poll"}
      /\ at'[w] = "handle" => cur'[w] \in b
      /\ batch'[w] \subseteq b
  BY <1>0, ContinueFacts
<1> QED
  BY <1>1 DEF Held, Consumed

\* Every step keeps each entry with one node.
LEMMA OwnersStep == TInv /\ OwnersOK /\ AnyStep => OwnersOK'
<1> SUFFICES ASSUME TInv, OwnersOK, AnyStep PROVE OwnersOK'
  OBVIOUS
<1>0. /\ at \in [Workers -> {"off", "subscribe", "drain", "poll", "handle", "ack",
                             "returned"}]
      /\ cur \in [Workers -> Nat] /\ batch \in [Workers -> SUBSET Nat]
  BY DEF TInv, TypeOK, TaskQ!StreamTypeOK
<1>1. ASSUME NEW w \in Workers,
             EnsureGroup(w) \/ EnsureGroupFails(w) \/ SubscribeReturns(w)
      PROVE  OwnersOK'
  <2>1. /\ UNCHANGED <<group, cur, batch>>
        /\ \E x \in {"drain", "returned"} : at' = [at EXCEPT ![w] = x]
    BY <1>1 DEF EnsureGroup, EnsureGroupFails, SubscribeReturns,
        TaskQ!EnsureGroup, TaskQ!EnsureGroupFails, TaskQ!Return
  <2>2. \A v \in Workers : Held(v)' \subseteq Held(v)
    BY <1>0, <2>1 DEF Held, Consumed
  <2> QED
    BY <2>1, <2>2, OwnersShrink
<1>2. ASSUME NEW w \in Workers, DrainPending(w)
      PROVE  OwnersOK'
  <2> DEFINE mine == TaskQ!PendingOf(NameOf(w))
             listed == {i \in mine :
                           TaskQ!Cardinality({j \in mine : j < i}) < PendingBatch}
             alive == {i \in listed : i >= tasks.first}
  <2>1. /\ group' = TaskQ!Unpended(group, listed \ alive)
        /\ TaskQ!Continue(w, alive, TaskQ!Cardinality(listed) = PendingBatch)
    BY <1>2 DEF DrainPending, TaskQ!DrainPending
  <2>2. alive \subseteq mine /\ mine \subseteq Nat
    BY DEF TInv, EntriesOK, TaskQ!PendingOf
  <2> HIDE DEF alive, listed
  <2>3. (TaskQ!Cardinality(listed) = PendingBatch) \in BOOLEAN
    OBVIOUS
  <2>4. /\ \A v \in Workers \ {w} : Held(v)' = Held(v)
        /\ Held(w)' \subseteq alive
    BY <2>1, <2>2, <2>3, ContinueHeld
  <2>5. group'.next = group.next /\ group'.pel \subseteq group.pel
    BY <2>1, UnpendedFacts
  <2> QED
    BY <2>2, <2>4, <2>5, OwnersDrain
<1>3. ASSUME NEW w \in Workers, DrainPendingFails(w)
      PROVE  OwnersOK'
  <2>1. /\ at' = [at EXCEPT ![w] = "poll"] /\ cur' = [cur EXCEPT ![w] = 0]
        /\ batch' = [batch EXCEPT ![w] = {}] /\ group' = group
    BY <1>3 DEF DrainPendingFails, TaskQ!DrainPendingFails, TaskQ!Continue
  <2>2. \A v \in Workers : Held(v)' \subseteq Held(v)
    BY <1>0, <2>1 DEF Held, Consumed
  <2> QED
    BY <2>1, <2>2, OwnersShrink
<1>4. ASSUME NEW w \in Workers, XReadGroup(w)
      PROVE  OwnersOK'
  <2>1. /\ cur' = [cur EXCEPT ![w] = TaskQ!NextEntry]
        /\ at' = [at EXCEPT ![w] = "handle"] /\ batch' = batch
        /\ TaskQ!HasNew /\ TaskQ!Deliver(NameOf(w))
    BY <1>4 DEF XReadGroup, TaskQ!XReadGroup
  <2>2. /\ \A v \in Workers \ {w} : Held(v)' \subseteq Held(v)
        /\ Held(w)' \subseteq Held(w) \cup {TaskQ!NextEntry}
    BY <1>0, <2>1 DEF Held, Consumed
  <2> QED
    BY <2>1, <2>2, OwnersDeliver
<1>5. ASSUME NEW w \in Workers, XReadGroupLost(w)
      PROVE  OwnersOK'
  <2>1. /\ UNCHANGED <<at, cur, batch>>
        /\ TaskQ!HasNew /\ TaskQ!Deliver(NameOf(w))
    BY <1>5 DEF XReadGroupLost, TaskQ!XReadGroupLost
  <2>2. \A v \in Workers : Held(v)' = Held(v)
    BY <2>1 DEF Held, Consumed
  <2> QED
    BY <2>1, <2>2, OwnersDeliver
<1>6. ASSUME NEW w \in Workers,
             Compile(w) \/ LoopHead(w) \/ RunTestCase(w) \/ Panic(w) \/ GlobalTimeout(w)
                \/ PublishFails(w)
      PROVE  OwnersOK'
  <2>1. UNCHANGED <<group, at, cur, batch>>
    BY <1>6 DEF Compile, LoopHead, RunTestCase, Panic, GlobalTimeout, PublishFails,
                streamVars
  <2> QED
    BY <2>1, OwnersShrink DEF Held, Consumed
<1>7. ASSUME NEW w \in Workers, Publish(w) \/ PublishSE(w)
      PROVE  OwnersOK'
  <2>1. /\ at[w] = "handle" /\ at' = [at EXCEPT ![w] = "ack"]
        /\ UNCHANGED <<group, cur, batch>>
    BY <1>7 DEF Publish, PublishSE, HandlerDone, TaskQ!HandlerDone, TInv, EntriesOK
  <2>2. \A v \in Workers : Held(v)' \subseteq Held(v)
    BY <1>0, <2>1 DEF Held, Consumed
  <2> QED
    BY <2>1, <2>2, OwnersShrink
<1>8. ASSUME NEW w \in Workers, XAck(w) \/ XAckFails(w)
      PROVE  OwnersOK'
  <2>1. /\ TaskQ!Continue(w, batch[w], full[w])
        /\ group' = TaskQ!Unpended(group, {cur[w]}) \/ group' = group
    BY <1>8 DEF XAck, XAckFails, TaskQ!XAck, TaskQ!XAckFails
  <2>2. batch[w] \subseteq Nat /\ full[w] \in BOOLEAN /\ batch[w] \subseteq Held(w)
    BY DEF TInv, TypeOK, TaskQ!StreamTypeOK, Held
  <2>3. \A v \in Workers : Held(v)' \subseteq Held(v)
    BY <2>1, <2>2, ContinueHeld
  <2>4. group'.next = group.next /\ group'.pel \subseteq group.pel
    BY <2>1, UnpendedFacts
  <2> QED
    BY <2>3, <2>4, OwnersShrink
<1>9. ASSUME NEW n \in Nodes, Signal(n)
      PROVE  OwnersOK'
  <2>1. UNCHANGED <<group, at, cur, batch>>
    BY <1>9 DEF Signal, streamVars
  <2> QED
    BY <2>1, OwnersShrink DEF Held, Consumed
<1>10. ASSUME NEW n \in Nodes, Exit(n) \/ Crash(n)
       PROVE  OwnersOK'
  <2>1. EndProcess(n)
    BY <1>10 DEF Exit, Crash
  <2>2. \A v \in Workers : Held(v)' \subseteq Held(v)
    BY <2>1 DEF EndProcess, TaskQ!Die, Held, Consumed
  <2>3. group' = group
    BY <2>1 DEF EndProcess, TaskQ!Die
  <2> QED
    BY <2>2, <2>3, OwnersShrink
<1>11. ASSUME NEW n \in Nodes, Restart(n)
       PROVE  OwnersOK'
  <2>1. \A v \in Workers : Held(v)' \subseteq Held(v)
    BY <1>11 DEF Restart, TaskQ!Launch, Held, Consumed
  <2>2. group' = group
    BY <1>11 DEF Restart, TaskQ!Launch
  <2> QED
    BY <2>1, <2>2, OwnersShrink
<1>12. ASSUME NEW s \in Submissions, EnqueueTask(s)
       PROVE  OwnersOK'
  <2>1. UNCHANGED <<group, at, cur, batch>>
    BY <1>12 DEF EnqueueTask
  <2> QED
    BY <2>1, OwnersShrink DEF Held, Consumed
<1>13. CASE UNCHANGED judgerState
  BY <1>13, OwnersShrink DEF judgerState, streamVars, nodeVars, judgeVars, Held, Consumed
<1> QED
  BY <1>1, <1>2, <1>3, <1>4, <1>5, <1>6, <1>7, <1>8, <1>9, <1>10, <1>11, <1>12, <1>13
     DEF AnyStep, JudgerNext, WorkerStep, Disturbance, Supervise

\* Workers of different nodes never work on the same entry (stream.go: "each
\* message is delivered to exactly one judger node"), whatever crashed, was
\* renamed or was claimed in between.
THEOREM NodesDoNotShareTasks == Spec => []OneNodePerTask
<1>1. Init => OwnersOK
  BY DEF Init, OwnersOK, Held, Consumed, TaskQ!StreamInit, TaskQ!NewGroup
<1>2. TInv /\ OwnersOK => OneNodePerTask
  <2> SUFFICES ASSUME TInv, OwnersOK, NEW v \in Workers, NEW w \in Workers,
                      stage[v] # "none", stage[w] # "none", cur[v] = cur[w]
               PROVE  NodeOf[v] = NodeOf[w]
    BY DEF OneNodePerTask
  <2>1. cur[v] \in Held(v) /\ cur[v] \in Held(w)
    BY DEF TInv, EntriesOK, Held, Consumed
  <2> QED
    BY <2>1 DEF OwnersOK
<1> QED
  BY <1>1, <1>2, OwnersStep, TInvAlways, NextIsAnyStep, PTL DEF Spec

-----------------------------------------------------------------------------
\* The pipeline: steps and what they leave in the streams.

Requests == {"none", "created", "accepted", "warned", "failed", "lost"}

Rows == ResultStatus \cup {NoRow, Pending}

ApiNames == {"api"} \X Nat

LoopStates == {"off", "subscribe", "drain", "poll", "handle", "ack", "returned"}

ApiTypeOK ==
    /\ row \in [Submissions -> Rows]
    /\ request \in [Submissions -> Requests]
    /\ apiName \in Nat

\* The writer's loop is well typed and names results that were published.
WriterOK ==
    /\ rgroup \in [next : Nat, pel : SUBSET [id : Nat, owner : ApiNames]]
    /\ rat \in [{Writer} -> LoopStates]
    /\ rcur \in [{Writer} -> Nat]
    /\ rbatch \in [{Writer} -> SUBSET Nat]
    /\ rfull \in [{Writer} -> BOOLEAN]
    /\ rgroup.next \in 1 .. Len(results.msgs) + 1
    /\ \A e \in rgroup.pel : e.id \in 1 .. Len(results.msgs) /\ e.id < rgroup.next
    /\ rbatch[Writer] \subseteq 1 .. Len(results.msgs)
    /\ rat[Writer] \in {"handle", "ack"} => rcur[Writer] \in 1 .. Len(results.msgs)

\* Submissions, tasks and results belong together: a request has a row as soon
\* as Create has succeeded, and may have one when Create has failed; it has a task as soon as the client was told 201; tasks are
\* about rows and results about tasks.
LinksOK ==
    /\ \A s \in Submissions :
          /\ row[s] = NoRow => request[s] \in {"none", "failed"}
          /\ request[s] = "none" => row[s] = NoRow
    /\ \A s \in Submissions : request[s] = "accepted" =>
          \E i \in DOMAIN tasks.msgs : tasks.msgs[i] = s
    /\ \A i \in DOMAIN tasks.msgs : row[tasks.msgs[i]] # NoRow
    /\ \A k \in DOMAIN results.msgs :
          /\ results.msgs[k].task \in DOMAIN tasks.msgs
          /\ tasks.msgs[results.msgs[k].task] = results.msgs[k].sub

\* A result that was delivered and is no longer pending is in its row, and so is
\* the one the writer is about to acknowledge; a trimmed one may be lost.
WrittenOK ==
    /\ \A k \in ResultQ!Settled :
          k >= results.first => row[results.msgs[k].sub] # Pending
    /\ rat[Writer] = "ack" => row[results.msgs[rcur[Writer]].sub] # Pending

PInv == TInv /\ ApiTypeOK /\ WriterOK /\ LinksOK /\ WrittenOK

\* What the nodes see of any step of the pipeline.
LEMMA PipelineSteps == TInv /\ [PNext]_pipelineVars => AnyStep
<1> SUFFICES ASSUME TInv, [PNext]_pipelineVars PROVE AnyStep
  OBVIOUS
<1>0. budget \in Nat /\ TypeOK
  BY DEF TInv, TypeOK
<1>1. CASE JudgerNext
  BY <1>1 DEF AnyStep
<1>2. ASSUME UNCHANGED <<judgerVars, results>>, budget' \in Nat
      PROVE  AnyStep
  BY <1>2 DEF AnyStep, judgerVars, judgerState, streamVars, nodeVars, judgeVars
<1>3. ASSUME NEW s \in Submissions, Create(s)
      PROVE  AnyStep
  <2>1. UNCHANGED <<judgerVars, results>> /\ budget' = budget
    BY <1>3 DEF Create, vars, judgerVars, nodeVars, judgeVars
  <2> QED
    BY <1>0, <1>2, <2>1
<1>11. ASSUME NEW s \in Submissions, CreateFails(s)
       PROVE  AnyStep
  <2>1. UNCHANGED <<judgerVars, results>> /\ budget' \in Nat
    BY <1>0, <1>11, FaultFacts DEF CreateFails
  <2> QED
    BY <1>2, <2>1
<1>4. ASSUME NEW s \in Submissions, Enqueue(s)
      PROVE  AnyStep
  BY <1>0, <1>4 DEF Enqueue, AnyStep
<1>5. ASSUME NEW s \in Submissions, EnqueueFails(s)
      PROVE  AnyStep
  <2>1. budget' \in Nat
    BY <1>0, <1>5, FaultFacts DEF EnqueueFails
  <2>2. CASE EnqueueTask(s)
    BY <2>1, <2>2 DEF AnyStep
  <2>3. CASE UNCHANGED <<judgerVars, results>>
    BY <1>2, <2>1, <2>3
  <2> QED
    BY <1>5, <2>2, <2>3 DEF EnqueueFails
<1>6. CASE WriterEnsureGroup \/ WriterUpdates
  <2>1. UNCHANGED <<judgerVars, results>> /\ budget' = budget
    BY <1>6 DEF WriterEnsureGroup, WriterUpdates, vars, judgerVars, nodeVars, judgeVars
  <2> QED
    BY <1>0, <1>2, <2>1
<1>7. CASE WriterDrainPending \/ WriterReads \/ WriterAcks
  <2>1. UNCHANGED <<judgerVars, results>> /\ budget' = budget
    BY <1>7 DEF WriterDrainPending, WriterReads, WriterAcks, ResultQ!DrainPending,
        ResultQ!XReadGroup, ResultQ!XAck
  <2> QED
    BY <1>0, <1>2, <2>1
<1>8. CASE \/ WriterDrainPendingFails \/ WriterReadLost \/ WriterAckFails
           \/ WriterUpdateFails \/ ApiEnds
  <2>1. UNCHANGED <<judgerVars, results>>
    BY <1>8 DEF WriterDrainPendingFails, WriterReadLost, WriterAckFails,
        WriterUpdateFails, ApiEnds, ResultQ!DrainPendingFails, ResultQ!XReadGroupLost,
        ResultQ!XAckFails, ResultQ!Die
  <2>2. budget' \in Nat
    BY <1>0, <1>8, FaultFacts DEF WriterDrainPendingFails, WriterReadLost,
        WriterAckFails, WriterUpdateFails, ApiEnds
  <2> QED
    BY <1>2, <2>1, <2>2
<1>9. CASE ApiRestarts
  <2>1. UNCHANGED <<judgerVars, results>>
    BY <1>9 DEF ApiRestarts, ResultQ!Launch
  <2>2. budget' \in Nat
    BY <1>0, <1>9, FaultFacts DEF ApiRestarts
  <2> QED
    BY <1>2, <2>1, <2>2
<1>10. CASE UNCHANGED pipelineVars
  <2>1. UNCHANGED <<judgerVars, results>> /\ budget' = budget
    BY <1>10 DEF pipelineVars, vars, judgerVars, nodeVars, judgeVars
  <2> QED
    BY <1>0, <1>2, <2>1
<1> QED
  BY <1>1, <1>3, <1>4, <1>5, <1>6, <1>7, <1>8, <1>9, <1>10, <1>11
     DEF PNext, ApiNext, WriterStep

\* The judger nodes never write to the stream of tasks.
LEMMA NodesKeepTasks == JudgerNext => tasks' = tasks
<1> SUFFICES ASSUME JudgerNext PROVE tasks' = tasks
  OBVIOUS
<1> USE DEF nodeVars, judgeVars, streamVars
<1>1. ASSUME NEW w \in Workers,
             \/ EnsureGroup(w) \/ EnsureGroupFails(w) \/ SubscribeReturns(w)
             \/ DrainPending(w) \/ DrainPendingFails(w)
             \/ XReadGroup(w) \/ XReadGroupLost(w) \/ XAck(w) \/ XAckFails(w)
      PROVE  tasks' = tasks
  BY <1>1 DEF EnsureGroup, EnsureGroupFails, SubscribeReturns, DrainPending,
      DrainPendingFails, XReadGroup, XReadGroupLost, XAck, XAckFails,
      TaskQ!EnsureGroup, TaskQ!EnsureGroupFails, TaskQ!Return, TaskQ!DrainPending,
      TaskQ!DrainPendingFails, TaskQ!XReadGroup, TaskQ!XReadGroupLost, TaskQ!XAck,
      TaskQ!XAckFails
<1>2. ASSUME NEW w \in Workers,
             \/ Compile(w) \/ LoopHead(w) \/ RunTestCase(w) \/ Panic(w) \/ GlobalTimeout(w)
             \/ Publish(w) \/ PublishFails(w) \/ PublishSE(w)
      PROVE  tasks' = tasks
  BY <1>2 DEF Compile, LoopHead, RunTestCase, Panic, GlobalTimeout, Publish,
      PublishFails, PublishSE
<1>3. ASSUME NEW n \in Nodes, Signal(n) \/ Exit(n) \/ Crash(n) \/ Restart(n)
      PROVE  tasks' = tasks
  BY <1>3 DEF Signal, Exit, Crash, Restart, EndProcess, TaskQ!Die, TaskQ!Launch
<1> QED
  BY <1>1, <1>2, <1>3 DEF JudgerNext, WorkerStep, Disturbance, Supervise

\* Both streams only grow at their end; a new result is the answer of a worker
\* to the task it is judging.
StreamsGrow ==
    /\ \A i \in DOMAIN tasks.msgs :
          i \in DOMAIN tasks'.msgs /\ tasks'.msgs[i] = tasks.msgs[i]
    /\ \A k \in DOMAIN results.msgs :
          k \in DOMAIN results'.msgs /\ results'.msgs[k] = results.msgs[k]
    /\ \A k \in DOMAIN results'.msgs :
          \/ k \in DOMAIN results.msgs
          \/ /\ k = Len(results.msgs) + 1
             /\ \E w \in Workers, st \in ResultStatus :
                   stage[w] # "none" /\ results'.msgs[k] = Result(w, st)
    /\ Len(results.msgs) <= Len(results'.msgs)
    /\ results.first <= results'.first

\* One published task.
LEMMA TaskGrows ==
    ASSUME TInv, NEW s \in Submissions, EnqueueTask(s)
    PROVE  /\ \A i \in DOMAIN tasks.msgs :
                 i \in DOMAIN tasks'.msgs /\ tasks'.msgs[i] = tasks.msgs[i]
           /\ \A i \in DOMAIN tasks'.msgs :
                 i \in DOMAIN tasks.msgs \/ tasks'.msgs[i] = s
           /\ \E i \in DOMAIN tasks'.msgs : tasks'.msgs[i] = s
<1>1. tasks' \in TaskQ!XAdd(tasks, s)
  BY DEF EnqueueTask, TaskQ!Publish
<1>2. tasks \in [msgs : Seq(Submissions), first : Nat] /\ tasks.first >= 1
  BY DEF TInv, TypeOK, TaskQ!StreamTypeOK, EntriesOK
<1>3. /\ tasks' \in [msgs : Seq(Submissions), first : Nat]
      /\ Len(tasks'.msgs) = Len(tasks.msgs) + 1
      /\ \A i \in 1 .. Len(tasks.msgs) : tasks'.msgs[i] = tasks.msgs[i]
      /\ tasks'.msgs[Len(tasks.msgs) + 1] = s
  BY <1>1, <1>2, XAddFacts
<1>4. /\ DOMAIN tasks.msgs = 1 .. Len(tasks.msgs) /\ Len(tasks.msgs) \in Nat
      /\ DOMAIN tasks'.msgs = 1 .. Len(tasks.msgs) + 1
  BY <1>2, <1>3
<1>5. Len(tasks.msgs) + 1 \in DOMAIN tasks'.msgs
  BY <1>4
<1> QED
  BY <1>3, <1>4, <1>5

\* XADD is all that happens to the stream of tasks.
LEMMA TasksGrow ==
    ASSUME TInv, AnyStep
    PROVE  \A i \in DOMAIN tasks.msgs :
               i \in DOMAIN tasks'.msgs /\ tasks'.msgs[i] = tasks.msgs[i]
<1>1. CASE tasks' = tasks
  BY <1>1
<1>2. ASSUME NEW s \in Submissions, EnqueueTask(s)
      PROVE  \A i \in DOMAIN tasks.msgs :
                 i \in DOMAIN tasks'.msgs /\ tasks'.msgs[i] = tasks.msgs[i]
  BY <1>2, TaskGrows
<1> QED
  BY <1>1, <1>2, NodesKeepTasks DEF AnyStep, judgerState, streamVars

\* One published result.
LEMMA ResultGrows ==
    ASSUME TInv, NEW w \in Workers, stage[w] # "none", NEW st \in ResultStatus,
           PublishResult(Result(w, st))
    PROVE  /\ \A k \in DOMAIN results.msgs :
                 k \in DOMAIN results'.msgs /\ results'.msgs[k] = results.msgs[k]
           /\ \A k \in DOMAIN results'.msgs :
                 \/ k \in DOMAIN results.msgs
                 \/ k = Len(results.msgs) + 1 /\ results'.msgs[k] = Result(w, st)
           /\ Len(results'.msgs) = Len(results.msgs) + 1
           /\ DOMAIN results'.msgs = 1 .. Len(results.msgs) + 1
           /\ results.first <= results'.first
<1>1. /\ Consumed(w) /\ results \in [msgs : Seq(ResultMessage), first : Nat]
      /\ results.first >= 1
  BY DEF TInv, TypeOK, EntriesOK, Consumed
<1>2. Result(w, st) \in ResultMessage
  BY <1>1 DEF TInv, TypeOK, TaskQ!StreamTypeOK, EntriesOK, Result, ResultMessage,
         Task, Consumed
<1>3. /\ results' \in [msgs : Seq(ResultMessage), first : Nat]
      /\ Len(results'.msgs) = Len(results.msgs) + 1
      /\ results'.first >= results.first
      /\ \A i \in 1 .. Len(results.msgs) : results'.msgs[i] = results.msgs[i]
      /\ results'.msgs[Len(results.msgs) + 1] = Result(w, st)
  BY <1>1, <1>2, XAddFacts DEF PublishResult
<1>4. /\ DOMAIN results.msgs = 1 .. Len(results.msgs) /\ Len(results.msgs) \in Nat
      /\ DOMAIN results'.msgs = 1 .. Len(results.msgs) + 1
  BY <1>1, <1>3
<1> QED
  BY <1>1, <1>3, <1>4

\* Every step leaves both streams growing only.
LEMMA Growth == TInv /\ AnyStep => StreamsGrow
<1> SUFFICES ASSUME TInv, AnyStep PROVE StreamsGrow
  OBVIOUS
<1>0. /\ results.msgs \in Seq(ResultMessage) /\ Len(results.msgs) \in Nat
      /\ results.first \in Nat
  BY DEF TInv, TypeOK
<1>1. CASE results' = results
  BY <1>0, <1>1, TasksGrow DEF StreamsGrow
<1>2. ASSUME NEW w \in Workers, stage[w] # "none", NEW st \in ResultStatus,
             PublishResult(Result(w, st))
      PROVE  StreamsGrow
  BY <1>0, <1>2, TasksGrow, ResultGrows DEF StreamsGrow
<1>3. ASSUME NEW w \in Workers, stage[w] = "publish", PublishResult(Result(w, status[w]))
      PROVE  StreamsGrow
  <2>1. status[w] \in ResultStatus
    BY DEF TInv, TypeOK
  <2> QED
    BY <1>2, <1>3, <2>1
<1>4. ASSUME NEW w \in Workers, stage[w] = "publishSE", PublishResult(Result(w, "SE"))
      PROVE  StreamsGrow
  BY <1>2, <1>4 DEF ResultStatus, CaseStatus
<1> QED
  BY <1>1, <1>3, <1>4, ResultsStep

-----------------------------------------------------------------------------
\* The pipeline: the writer's Subscribe loop.

\* What a step may do to the results the writer's group has been given: one is
\* settled when it is acknowledged or found to be trimmed, and the writer gets
\* ready to acknowledge one by writing it to its row.
WriterMoves ==
    /\ \A k \in ResultQ!Settled' :
          \/ k \in ResultQ!Settled
          \/ k < results'.first
          \/ rat[Writer] = "ack" /\ k = rcur[Writer]
    /\ rat'[Writer] = "ack" =>
          /\ rcur'[Writer] = rcur[Writer]
          /\ \/ rat[Writer] = "ack"
             \/ rat[Writer] = "handle" /\ Update(results.msgs[rcur[Writer]])

\* The dispatch loop of the writer only goes on with an entry of its batch.
LEMMA WriterContinues ==
    ASSUME WriterOK, NEW b, b \subseteq 1 .. Len(results.msgs),
           NEW again \in BOOLEAN, ResultQ!Continue(Writer, b, again)
    PROVE  /\ rat' \in [{Writer} -> LoopStates]
           /\ rcur' \in [{Writer} -> Nat]
           /\ rbatch' \in [{Writer} -> SUBSET Nat]
           /\ rfull' \in [{Writer} -> BOOLEAN]
           /\ rat'[Writer] \in {"handle", "drain", "poll"}
           /\ rat'[Writer] = "handle" => rcur'[Writer] \in b
           /\ rbatch'[Writer] \subseteq b
<1>1. /\ rat \in [{Writer} -> LoopStates] /\ rcur \in [{Writer} -> Nat]
      /\ rbatch \in [{Writer} -> SUBSET Nat] /\ rfull \in [{Writer} -> BOOLEAN]
  BY DEF WriterOK
<1>2. CASE b # {}
  <2>1. b \subseteq Nat
    OBVIOUS
  <2>2. TaskQ!Smallest(b) \in b
    BY <1>2, <2>1, SmallestFacts
  <2>3. ResultQ!Smallest(b) \in b
    BY <2>2 DEF TaskQ!Smallest, ResultQ!Smallest
  <2>4. /\ rcur' = [rcur EXCEPT ![Writer] = ResultQ!Smallest(b)]
        /\ rbatch' = [rbatch EXCEPT ![Writer] = b \ {ResultQ!Smallest(b)}]
        /\ rfull' = [rfull EXCEPT ![Writer] = again]
        /\ rat' = [rat EXCEPT ![Writer] = "handle"]
    BY <1>2 DEF ResultQ!Continue
  <2>5. rat' \in [{Writer} -> LoopStates] /\ rfull' \in [{Writer} -> BOOLEAN]
    BY <1>1, <2>4 DEF LoopStates
  <2>6. rcur' \in [{Writer} -> Nat] /\ rbatch' \in [{Writer} -> SUBSET Nat]
    BY <1>1, <2>1, <2>3, <2>4
  <2> QED
    BY <1>1, <2>3, <2>4, <2>5, <2>6
<1>3. CASE b = {}
  <2>1. /\ rcur' = [rcur EXCEPT ![Writer] = 0]
        /\ rbatch' = [rbatch EXCEPT ![Writer] = {}]
        /\ rfull' = [rfull EXCEPT ![Writer] = FALSE]
        /\ rat' = [rat EXCEPT ![Writer] = IF again THEN "drain" ELSE "poll"]
    BY <1>3 DEF ResultQ!Continue
  <2>2. /\ rat' \in [{Writer} -> LoopStates] /\ rfull' \in [{Writer} -> BOOLEAN]
        /\ rcur' \in [{Writer} -> Nat] /\ rbatch' \in [{Writer} -> SUBSET Nat]
    BY <1>1, <2>1 DEF LoopStates
  <2> QED
    BY <1>1, <1>3, <2>1, <2>2
<1> QED
  BY <1>2, <1>3

\* The group forgets pending entries that were acknowledged or trimmed, and the
\* writer goes on with its batch.
LEMMA WriterForgets ==
    ASSUME TInv, WriterOK, results' = results, NEW b, b \subseteq 1 .. Len(results.msgs),
           NEW again \in BOOLEAN, ResultQ!Continue(Writer, b, again), NEW ids,
           rgroup' = ResultQ!Unpended(rgroup, ids),
           \A k \in ids : k < results.first \/ (rat[Writer] = "ack" /\ k = rcur[Writer])
    PROVE  WriterOK' /\ WriterMoves
<1>1. /\ rat' \in [{Writer} -> LoopStates] /\ rcur' \in [{Writer} -> Nat]
      /\ rbatch' \in [{Writer} -> SUBSET Nat] /\ rfull' \in [{Writer} -> BOOLEAN]
      /\ rat'[Writer] \in {"handle", "drain", "poll"}
      /\ rat'[Writer] = "handle" => rcur'[Writer] \in b
      /\ rbatch'[Writer] \subseteq b
  BY WriterContinues
<1>2. /\ rgroup' \in [next : Nat, pel : SUBSET [id : Nat, owner : ApiNames]]
      /\ rgroup'.next = rgroup.next
      /\ rgroup'.pel = {e \in rgroup.pel : e.id \notin ids}
  BY DEF ResultQ!Unpended, WriterOK
<1>3. WriterOK'
  BY <1>1, <1>2 DEF WriterOK
<1>4. \A k \in ResultQ!Settled' : k \in ResultQ!Settled \/ k \in ids
  BY <1>2 DEF ResultQ!Settled, ResultQ!PendingIds
<1> QED
  BY <1>1, <1>3, <1>4 DEF WriterMoves

\* The group stays as it is and the writer goes on with its batch.
LEMMA WriterGoesOn ==
    ASSUME TInv, WriterOK, UNCHANGED <<results, rgroup>>,
           NEW b, b \subseteq 1 .. Len(results.msgs), NEW again \in BOOLEAN,
           ResultQ!Continue(Writer, b, again)
    PROVE  WriterOK' /\ WriterMoves
<1>1. /\ rat' \in [{Writer} -> LoopStates] /\ rcur' \in [{Writer} -> Nat]
      /\ rbatch' \in [{Writer} -> SUBSET Nat] /\ rfull' \in [{Writer} -> BOOLEAN]
      /\ rat'[Writer] \in {"handle", "drain", "poll"}
      /\ rat'[Writer] = "handle" => rcur'[Writer] \in b
      /\ rbatch'[Writer] \subseteq b
  BY WriterContinues
<1>2. WriterOK'
  BY <1>1 DEF WriterOK
<1>3. ResultQ!Settled' = ResultQ!Settled
  BY DEF ResultQ!Settled, ResultQ!PendingIds
<1> QED
  BY <1>1, <1>2, <1>3 DEF WriterMoves

\* A new result is delivered; trimmed ones are skipped.
LEMMA WriterDelivers ==
    ASSUME TInv, ApiTypeOK, WriterOK, results' = results,
           ResultQ!HasNew, ResultQ!Deliver(ApiName),
           rat' \in [{Writer} -> LoopStates], rcur' \in [{Writer} -> Nat],
           UNCHANGED <<rbatch, rfull>>, rat'[Writer] \in {"poll", "handle"},
           rat'[Writer] = "handle" => rcur'[Writer] = ResultQ!NextEntry
    PROVE  WriterOK' /\ WriterMoves
<1> DEFINE N == ResultQ!NextEntry
           new == [id |-> N, owner |-> ApiName]
<1>1. /\ results.first \in Nat /\ results.first >= 1 /\ Len(results.msgs) \in Nat
      /\ rgroup.next \in 1 .. Len(results.msgs) + 1
  BY DEF TInv, TypeOK, EntriesOK, WriterOK
<1>2. /\ N \in 1 .. Len(results.msgs) /\ N >= rgroup.next
      /\ N = rgroup.next \/ N = results.first
  BY <1>1 DEF ResultQ!HasNew, ResultQ!NextEntry
<1>3. new \in [id : Nat, owner : ApiNames] /\ new.id = N
  BY <1>2 DEF ApiName, ApiNames, ApiTypeOK
<1>4. rgroup' = [next |-> N + 1, pel |-> rgroup.pel \cup {new}]
  BY DEF ResultQ!Deliver
<1> HIDE DEF N, new
<1>5. /\ rgroup' \in [next : Nat, pel : SUBSET [id : Nat, owner : ApiNames]]
      /\ rgroup'.next = N + 1 /\ rgroup'.pel = rgroup.pel \cup {new}
  BY <1>2, <1>3, <1>4 DEF WriterOK
<1>6. WriterOK'
  <2>1. rgroup'.next \in 1 .. Len(results.msgs) + 1
    BY <1>1, <1>2, <1>5
  <2>2. \A e \in rgroup'.pel : e.id \in 1 .. Len(results.msgs) /\ e.id < rgroup'.next
    BY <1>1, <1>2, <1>3, <1>5 DEF WriterOK
  <2>3. rat'[Writer] \in {"handle", "ack"} => rcur'[Writer] \in 1 .. Len(results.msgs)
    BY <1>2 DEF N
  <2> QED
    BY <1>5, <2>1, <2>2, <2>3 DEF WriterOK
<1>7. ASSUME NEW k \in ResultQ!Settled' PROVE k \in ResultQ!Settled \/ k < results.first
  <2>1. /\ k \in 1 .. Len(results.msgs) /\ k < N + 1
        /\ \A e \in rgroup.pel : e.id # k
        /\ k # N
    BY <1>3, <1>5, <1>7 DEF ResultQ!Settled, ResultQ!PendingIds
  <2>2. CASE k < rgroup.next
    BY <2>1, <2>2 DEF ResultQ!Settled, ResultQ!PendingIds
  <2>3. CASE ~(k < rgroup.next)
    BY <1>1, <1>2, <2>1, <2>3
  <2> QED
    BY <2>2, <2>3
<1> QED
  BY <1>6, <1>7 DEF WriterMoves

\* The writer does nothing while the streams grow.
LEMMA WriterStays ==
    ASSUME TInv, WriterOK, StreamsGrow, UNCHANGED writerVars,
           results'.msgs \in Seq(ResultMessage)
    PROVE  WriterOK' /\ WriterMoves
<1>1. /\ Len(results.msgs) \in Nat /\ Len(results'.msgs) \in Nat
      /\ Len(results.msgs) <= Len(results'.msgs)
  BY DEF TInv, TypeOK, StreamsGrow
<1>2. UNCHANGED <<rgroup, rat, rcur, rbatch, rfull>>
  BY DEF writerVars
<1>3. WriterOK'
  BY <1>1, <1>2 DEF WriterOK
<1>4. \A k \in ResultQ!Settled' : k \in ResultQ!Settled
  BY <1>1, <1>2 DEF ResultQ!Settled, ResultQ!PendingIds, WriterOK
<1> QED
  BY <1>2, <1>3, <1>4 DEF WriterMoves

\* The writer's goroutine only changes its place in the loop, or is gone.
LEMMA WriterSteps ==
    ASSUME TInv, WriterOK, UNCHANGED <<results, rgroup>>,
           rat' \in [{Writer} -> LoopStates], rcur' \in [{Writer} -> Nat],
           rbatch' \in [{Writer} -> SUBSET Nat], rfull' \in [{Writer} -> BOOLEAN],
           rbatch'[Writer] \subseteq rbatch[Writer],
           rat'[Writer] \notin {"handle", "ack"}
    PROVE  WriterOK' /\ WriterMoves
<1>1. WriterOK'
  BY DEF WriterOK
<1>2. ResultQ!Settled' = ResultQ!Settled
  BY DEF ResultQ!Settled, ResultQ!PendingIds
<1> QED
  BY <1>1, <1>2 DEF WriterMoves

\* Every step of the pipeline keeps the writer's loop in order.
LEMMA WriterInOrder ==
    ASSUME TInv, ApiTypeOK, WriterOK, [PNext]_pipelineVars
    PROVE  WriterOK' /\ WriterMoves
<1>0. /\ AnyStep /\ StreamsGrow /\ TInv'
      /\ results'.msgs \in Seq(ResultMessage)
  <2>1. AnyStep
    BY PipelineSteps
  <2>2. TInv'
    BY <2>1, TInvStep
  <2>3. StreamsGrow
    BY <2>1, Growth
  <2> QED
    BY <2>1, <2>2, <2>3 DEF TInv, TypeOK
<1>t. /\ rat \in [{Writer} -> LoopStates] /\ rcur \in [{Writer} -> Nat]
      /\ rbatch \in [{Writer} -> SUBSET Nat] /\ rfull \in [{Writer} -> BOOLEAN]
      /\ rbatch[Writer] \subseteq 1 .. Len(results.msgs)
      /\ rfull[Writer] \in BOOLEAN
  BY DEF WriterOK
<1>1. CASE UNCHANGED writerVars
  BY <1>0, <1>1, WriterStays
<1>2. CASE WriterEnsureGroup
  <2>1. /\ rat' = [rat EXCEPT ![Writer] = "drain"]
        /\ UNCHANGED <<results, rgroup, rcur, rbatch, rfull>>
    BY <1>2 DEF WriterEnsureGroup, ResultQ!EnsureGroup, vars
  <2>2. /\ rat' \in [{Writer} -> LoopStates] /\ rat'[Writer] = "drain"
    BY <1>t, <2>1 DEF LoopStates
  <2> QED
    BY <1>t, <2>1, <2>2, WriterSteps
<1>3. CASE WriterDrainPending
  <2> DEFINE mine == ResultQ!PendingOf(ApiName)
             listed == {i \in mine :
                           ResultQ!Cardinality({j \in mine : j < i}) < PendingBatch}
             alive == {i \in listed : i >= results.first}
  <2>1. /\ rgroup' = ResultQ!Unpended(rgroup, listed \ alive)
        /\ ResultQ!Continue(Writer, alive, ResultQ!Cardinality(listed) = PendingBatch)
        /\ results' = results
    BY <1>3 DEF WriterDrainPending, ResultQ!DrainPending
  <2>2. /\ alive \subseteq 1 .. Len(results.msgs)
        /\ \A k \in listed \ alive : k < results.first
    BY DEF WriterOK, ResultQ!PendingOf, TInv, TypeOK
  <2> HIDE DEF alive, listed
  <2>3. (ResultQ!Cardinality(listed) = PendingBatch) \in BOOLEAN
    OBVIOUS
  <2> QED
    BY <2>1, <2>2, <2>3, WriterForgets
<1>4. CASE WriterDrainPendingFails
  <2>1. /\ ResultQ!Continue(Writer, {}, FALSE) /\ UNCHANGED <<results, rgroup>>
    BY <1>4 DEF WriterDrainPendingFails, ResultQ!DrainPendingFails
  <2>2. {} \subseteq 1 .. Len(results.msgs) /\ FALSE \in BOOLEAN
    OBVIOUS
  <2> QED
    BY <2>1, <2>2, WriterGoesOn
<1>5. CASE WriterReads
  <2>1. /\ ResultQ!HasNew /\ ResultQ!Deliver(ApiName)
        /\ rcur' = [rcur EXCEPT ![Writer] = ResultQ!NextEntry]
        /\ rat' = [rat EXCEPT ![Writer] = "handle"]
        /\ UNCHANGED <<results, rbatch, rfull>>
    BY <1>5 DEF WriterReads, ResultQ!XReadGroup
  <2>2. ResultQ!NextEntry \in Nat
    BY DEF ResultQ!NextEntry, WriterOK, TInv, TypeOK
  <2>3. /\ rat' \in [{Writer} -> LoopStates] /\ rat'[Writer] = "handle"
        /\ rcur' \in [{Writer} -> Nat] /\ rcur'[Writer] = ResultQ!NextEntry
    BY <1>t, <2>1, <2>2 DEF LoopStates
  <2> QED
    BY <2>1, <2>3, WriterDelivers
<1>6. CASE WriterReadLost
  <2>1. /\ ResultQ!HasNew /\ ResultQ!Deliver(ApiName) /\ rat[Writer] = "poll"
        /\ UNCHANGED <<results, rat, rcur, rbatch, rfull>>
    BY <1>6 DEF WriterReadLost, ResultQ!XReadGroupLost
  <2> QED
    BY <1>t, <2>1, WriterDelivers
<1>7. CASE WriterUpdates
  <2>1. /\ rat[Writer] = "handle" /\ rat' = [rat EXCEPT ![Writer] = "ack"]
        /\ Update(results.msgs[rcur[Writer]])
        /\ UNCHANGED <<results, rgroup, rcur, rbatch, rfull>>
    BY <1>7 DEF WriterUpdates, ResultQ!HandlerDone, vars
  <2>2. rat' \in [{Writer} -> LoopStates] /\ rat'[Writer] = "ack"
    BY <1>t, <2>1 DEF LoopStates
  <2>3. WriterOK'
    BY <2>1, <2>2 DEF WriterOK
  <2>4. ResultQ!Settled' = ResultQ!Settled
    BY <2>1 DEF ResultQ!Settled, ResultQ!PendingIds
  <2> QED
    BY <2>1, <2>3, <2>4 DEF WriterMoves
<1>8. CASE WriterUpdateFails \/ WriterAckFails
  <2>1. /\ ResultQ!Continue(Writer, rbatch[Writer], rfull[Writer])
        /\ UNCHANGED <<results, rgroup>>
    BY <1>8 DEF WriterUpdateFails, WriterAckFails, ResultQ!HandlerFails, ResultQ!XAckFails
  <2> QED
    BY <1>t, <2>1, WriterGoesOn
<1>9. CASE WriterAcks
  <2>1. /\ rat[Writer] = "ack" /\ rgroup' = ResultQ!Unpended(rgroup, {rcur[Writer]})
        /\ ResultQ!Continue(Writer, rbatch[Writer], rfull[Writer])
        /\ results' = results
    BY <1>9 DEF WriterAcks, ResultQ!XAck
  <2>2. \A k \in {rcur[Writer]} : rat[Writer] = "ack" /\ k = rcur[Writer]
    BY <2>1
  <2> QED
    BY <1>t, <2>1, <2>2, WriterForgets
<1>10. CASE ApiEnds
  <2>1. /\ rat' = [p \in {Writer} |-> IF p \in {Writer} THEN "off" ELSE rat[p]]
        /\ rcur' = [p \in {Writer} |-> IF p \in {Writer} THEN 0 ELSE rcur[p]]
        /\ rbatch' = [p \in {Writer} |-> IF p \in {Writer} THEN {} ELSE rbatch[p]]
        /\ rfull' = [p \in {Writer} |-> IF p \in {Writer} THEN FALSE ELSE rfull[p]]
        /\ UNCHANGED <<results, rgroup>>
    BY <1>10 DEF ApiEnds, ResultQ!Die
  <2>2. /\ rat' \in [{Writer} -> LoopStates] /\ rat'[Writer] = "off"
        /\ rcur' \in [{Writer} -> Nat]
        /\ rbatch' \in [{Writer} -> SUBSET Nat] /\ rbatch'[Writer] = {}
        /\ rfull' \in [{Writer} -> BOOLEAN]
    BY <2>1 DEF LoopStates
  <2> QED
    BY <2>1, <2>2, WriterSteps
<1>11. CASE ApiRestarts
  <2>1. /\ rat' = [p \in {Writer} |-> IF p \in {Writer} THEN "subscribe" ELSE rat[p]]
        /\ UNCHANGED <<results, rgroup, rcur, rbatch, rfull>>
    BY <1>11 DEF ApiRestarts, ResultQ!Launch
  <2>2. rat' \in [{Writer} -> LoopStates] /\ rat'[Writer] = "subscribe"
    BY <2>1 DEF LoopStates
  <2> QED
    BY <1>t, <2>1, <2>2, WriterSteps
<1>12. ASSUME NEW s \in Submissions,
              Create(s) \/ CreateFails(s) \/ Enqueue(s) \/ EnqueueFails(s)
       PROVE  UNCHANGED writerVars
  BY <1>12 DEF Create, CreateFails, Enqueue, EnqueueFails
<1>13. (JudgerNext /\ UNCHANGED apiVars) \/ UNCHANGED pipelineVars => UNCHANGED writerVars
  BY DEF apiVars, pipelineVars
<1> QED
  BY <1>1, <1>2, <1>3, <1>4, <1>5, <1>6, <1>7, <1>8, <1>9, <1>10, <1>11, <1>12, <1>13
     DEF PNext, ApiNext, WriterStep

-----------------------------------------------------------------------------
\* The pipeline: requests and rows.

\* What a step may do to a submission: Create makes its row, a Create that fails may
\* have made it, the request goes on
\* or is lost, the writer puts the result it is handling into the row.
RequestsMove ==
    \A s \in Submissions :
        \/ row'[s] = row[s] /\ request'[s] = request[s]
        \/ row'[s] = Pending /\ request[s] = "none" /\ request'[s] = "created"
        \/ /\ row'[s] \in {row[s], Pending}
           /\ request[s] = "none" /\ request'[s] = "failed"
        \/ /\ row'[s] = row[s] /\ request[s] = "created"
           /\ \/ request'[s] \in {"warned", "lost"}
              \/ request'[s] = "accepted" /\ EnqueueTask(s)
        \/ /\ request'[s] = request[s] /\ rat[Writer] = "handle"
           /\ s = results.msgs[rcur[Writer]].sub
           /\ row'[s] = results.msgs[rcur[Writer]].status

\* The result the writer is handling was published.
LEMMA HandledResult ==
    ASSUME TInv, WriterOK, rat[Writer] = "handle"
    PROVE  results.msgs[rcur[Writer]] \in ResultMessage
<1>1. rcur[Writer] \in 1 .. Len(results.msgs) /\ results.msgs \in Seq(ResultMessage)
  BY DEF WriterOK, TInv, TypeOK
<1> QED
  BY <1>1

\* Every step treats requests and rows in these ways, and keeps their types.
LEMMA RequestsStep ==
    ASSUME TInv, ApiTypeOK, WriterOK, [PNext]_pipelineVars
    PROVE  ApiTypeOK' /\ RequestsMove
<1>0. /\ row \in [Submissions -> Rows] /\ request \in [Submissions -> Requests]
      /\ apiName \in Nat
  BY DEF ApiTypeOK
<1>1. CASE UNCHANGED <<row, request, apiName>>
  BY <1>1 DEF ApiTypeOK, RequestsMove
<1>2. ASSUME NEW s \in Submissions, Create(s)
      PROVE  ApiTypeOK' /\ RequestsMove
  <2>1. /\ row' = [row EXCEPT ![s] = Pending] /\ request[s] = "none"
        /\ request' = [request EXCEPT ![s] = "created"] /\ apiName' = apiName
    BY <1>2 DEF Create
  <2>2. ApiTypeOK'
    BY <1>0, <2>1 DEF ApiTypeOK, Rows, Requests
  <2> QED
    BY <1>0, <2>1, <2>2 DEF RequestsMove
<1>10. ASSUME NEW s \in Submissions, CreateFails(s)
       PROVE  ApiTypeOK' /\ RequestsMove
  <2>1. /\ row' = [row EXCEPT ![s] = Pending] \/ row' = row
        /\ request[s] = "none"
        /\ request' = [request EXCEPT ![s] = "failed"] /\ apiName' = apiName
    BY <1>10 DEF CreateFails
  <2>2. ApiTypeOK'
    BY <1>0, <2>1 DEF ApiTypeOK, Rows, Requests
  <2> QED
    BY <1>0, <2>1, <2>2 DEF RequestsMove
<1>3. ASSUME NEW s \in Submissions, Enqueue(s) \/ EnqueueFails(s)
      PROVE  ApiTypeOK' /\ RequestsMove
  <2>1. /\ UNCHANGED <<row, apiName>> /\ request[s] = "created"
        /\ \/ request' = [request EXCEPT ![s] = "accepted"] /\ EnqueueTask(s)
           \/ request' = [request EXCEPT ![s] = "warned"]
    BY <1>3 DEF Enqueue, EnqueueFails
  <2>2. ApiTypeOK'
    BY <1>0, <2>1 DEF ApiTypeOK, Requests
  <2> QED
    BY <1>0, <2>1, <2>2 DEF RequestsMove
<1>4. CASE /\ rat[Writer] = "handle" /\ Update(results.msgs[rcur[Writer]])
           /\ UNCHANGED <<request, apiName>>
  <2> DEFINE r == results.msgs[rcur[Writer]]
  <2>1. /\ r.sub \in Submissions /\ r.status \in ResultStatus
        /\ row' = [row EXCEPT ![r.sub] = r.status]
    BY <1>4, HandledResult DEF Update, ResultMessage
  <2>2. ApiTypeOK'
    BY <1>0, <1>4, <2>1 DEF ApiTypeOK, Rows
  <2> QED
    BY <1>0, <1>4, <2>1, <2>2 DEF RequestsMove
<1>5. CASE ApiEnds
  <2>1. /\ UNCHANGED <<row, apiName>>
        /\ request' = [s \in Submissions |->
                          IF request[s] = "created" THEN "lost" ELSE request[s]]
    BY <1>5 DEF ApiEnds
  <2>2. ApiTypeOK'
    BY <1>0, <2>1 DEF ApiTypeOK, Requests
  <2> QED
    BY <1>0, <2>1, <2>2 DEF RequestsMove
<1>6. CASE ApiRestarts
  <2>1. UNCHANGED <<row, request>> /\ apiName' \in Nat
    BY <1>0, <1>6 DEF ApiRestarts
  <2> QED
    BY <2>1 DEF ApiTypeOK, RequestsMove
<1>7. CASE \/ WriterEnsureGroup \/ WriterDrainPending \/ WriterDrainPendingFails
           \/ WriterReads \/ WriterReadLost \/ WriterAcks \/ WriterAckFails
  BY <1>1, <1>7 DEF WriterEnsureGroup, WriterDrainPending, WriterDrainPendingFails,
      WriterReads, WriterReadLost, WriterAcks, WriterAckFails
<1>8. CASE WriterUpdates \/ WriterUpdateFails
  BY <1>1, <1>4, <1>8 DEF WriterUpdates, WriterUpdateFails
<1>9. CASE (JudgerNext /\ UNCHANGED apiVars) \/ UNCHANGED pipelineVars
  BY <1>1, <1>9 DEF apiVars, pipelineVars
<1> QED
  BY <1>2, <1>3, <1>5, <1>6, <1>7, <1>8, <1>9, <1>10 DEF PNext, ApiNext, WriterStep

\* A task is only ever published for a request past Create.
LEMMA TasksOfRequests ==
    ASSUME TInv, [PNext]_pipelineVars
    PROVE  \A i \in DOMAIN tasks'.msgs :
               \/ i \in DOMAIN tasks.msgs
               \/ /\ tasks'.msgs[i] \in Submissions
                  /\ request[tasks'.msgs[i]] = "created"
<1>1. CASE tasks' = tasks
  BY <1>1
<1>2. ASSUME NEW s \in Submissions, request[s] = "created", EnqueueTask(s)
      PROVE  \A i \in DOMAIN tasks'.msgs :
                 \/ i \in DOMAIN tasks.msgs
                 \/ /\ tasks'.msgs[i] \in Submissions
                    /\ request[tasks'.msgs[i]] = "created"
  BY <1>2, TaskGrows
<1>3. ASSUME NEW s \in Submissions, Create(s) \/ CreateFails(s)
      PROVE  tasks' = tasks
  BY <1>3 DEF Create, CreateFails, judgerVars, vars
<1>4. ASSUME NEW s \in Submissions, Enqueue(s) \/ EnqueueFails(s)
      PROVE  request[s] = "created" /\ (EnqueueTask(s) \/ tasks' = tasks)
  BY <1>4 DEF Enqueue, EnqueueFails, judgerVars
<1>5. CASE WriterStep \/ WriterReadLost \/ ApiEnds \/ ApiRestarts
  BY <1>1, <1>5 DEF WriterStep, WriterEnsureGroup, WriterDrainPending,
      WriterDrainPendingFails, WriterReads, WriterReadLost, WriterAcks, WriterAckFails,
      WriterUpdates, WriterUpdateFails, ApiEnds, ApiRestarts, judgerVars, vars
<1>6. CASE (JudgerNext /\ UNCHANGED apiVars) \/ UNCHANGED pipelineVars
  BY <1>1, <1>6, NodesKeepTasks DEF pipelineVars, vars
<1> QED
  BY <1>1, <1>2, <1>3, <1>4, <1>5, <1>6 DEF PNext, ApiNext

\* A published result is about a submission with a row.
LEMMA ResultHasRow ==
    ASSUME TInv, LinksOK, NEW k \in DOMAIN results.msgs
    PROVE  /\ results.msgs[k].sub \in Submissions
           /\ row[results.msgs[k].sub] # NoRow
<1>1. results.msgs \in Seq(ResultMessage)
  BY DEF TInv, TypeOK
<1>2. results.msgs[k] \in ResultMessage
  BY <1>1
<1> QED
  BY <1>2 DEF LinksOK, ResultMessage

\* A row, once there, stays there, and once judged stays judged.
LEMMA RowsOnward ==
    ASSUME TInv, ApiTypeOK, WriterOK, LinksOK, RequestsMove, NEW s \in Submissions,
           row[s] # NoRow
    PROVE  /\ row'[s] # NoRow
           /\ row[s] # Pending => row'[s] # Pending
<1>1. request[s] # "none"
  BY DEF LinksOK
<1>2. rat[Writer] = "handle" => results.msgs[rcur[Writer]].status \in ResultStatus
  BY HandledResult DEF ResultMessage
<1> QED
  BY <1>1, <1>2, RowsAssumption DEF RequestsMove

\* Every step keeps submissions, tasks and results together.
LEMMA LinksStep ==
    ASSUME TInv, ApiTypeOK, WriterOK, LinksOK, [PNext]_pipelineVars
    PROVE  LinksOK'
<1>1. StreamsGrow /\ RequestsMove /\ ApiTypeOK'
  BY PipelineSteps, Growth, RequestsStep
<1>2. ASSUME NEW s \in Submissions
      PROVE  /\ row'[s] = NoRow => request'[s] \in {"none", "failed"}
             /\ request'[s] = "none" => row'[s] = NoRow
  <2>1. /\ row[s] = NoRow => request[s] \in {"none", "failed"}
        /\ request[s] = "none" => row[s] = NoRow
    BY DEF LinksOK
  <2>2. CASE row[s] = NoRow
    <3>1. /\ rat[Writer] = "handle" =>
                /\ results.msgs[rcur[Writer]].status \in ResultStatus
                /\ rcur[Writer] \in DOMAIN results.msgs
      BY HandledResult DEF ResultMessage, WriterOK, TInv, TypeOK
    <3>2. rat[Writer] = "handle" => s # results.msgs[rcur[Writer]].sub
      BY <2>2, <3>1, ResultHasRow
    <3> QED
      BY <1>1, <2>1, <2>2, <3>2, RowsAssumption DEF RequestsMove
  <2>3. CASE row[s] # NoRow
    <3>1. row'[s] # NoRow
      BY <1>1, <2>3, RowsOnward
    <3> QED
      BY <1>1, <2>1, <2>3, <3>1 DEF RequestsMove
  <2> QED
    BY <2>2, <2>3
<1>3. ASSUME NEW s \in Submissions, request'[s] = "accepted"
      PROVE  \E i \in DOMAIN tasks'.msgs : tasks'.msgs[i] = s
  <2>1. CASE request[s] = "accepted"
    <3>1. PICK i \in DOMAIN tasks.msgs : tasks.msgs[i] = s
      BY <2>1 DEF LinksOK
    <3> QED
      BY <1>1, <3>1 DEF StreamsGrow
  <2>2. CASE request[s] # "accepted"
    <3>1. EnqueueTask(s)
      BY <1>1, <1>3, <2>2 DEF RequestsMove
    <3> QED
      BY <3>1, TaskGrows
  <2> QED
    BY <2>1, <2>2
<1>4. ASSUME NEW i \in DOMAIN tasks'.msgs
      PROVE  row'[tasks'.msgs[i]] # NoRow
  <2>1. CASE i \in DOMAIN tasks.msgs
    <3>1. tasks.msgs \in Seq(Submissions)
      BY DEF TInv, TypeOK, TaskQ!StreamTypeOK
    <3>2. /\ tasks.msgs[i] \in Submissions /\ row[tasks.msgs[i]] # NoRow
          /\ tasks'.msgs[i] = tasks.msgs[i]
      BY <1>1, <2>1, <3>1 DEF StreamsGrow, LinksOK
    <3> QED
      BY <1>1, <3>2, RowsOnward
  <2>2. CASE i \notin DOMAIN tasks.msgs
    <3>1. tasks'.msgs[i] \in Submissions /\ request[tasks'.msgs[i]] = "created"
      BY <1>4, <2>2, TasksOfRequests
    <3>2. row[tasks'.msgs[i]] # NoRow
      BY <3>1 DEF LinksOK
    <3> QED
      BY <1>1, <3>1, <3>2, RowsOnward
  <2> QED
    BY <2>1, <2>2
<1>5. ASSUME NEW k \in DOMAIN results'.msgs
      PROVE  /\ results'.msgs[k].task \in DOMAIN tasks'.msgs
             /\ tasks'.msgs[results'.msgs[k].task] = results'.msgs[k].sub
  <2>1. CASE k \in DOMAIN results.msgs
    BY <1>1, <2>1 DEF StreamsGrow, LinksOK
  <2>2. CASE k \notin DOMAIN results.msgs
    <3>1. PICK w \in Workers, st \in ResultStatus :
              stage[w] # "none" /\ results'.msgs[k] = Result(w, st)
      BY <1>1, <1>5, <2>2 DEF StreamsGrow
    <3>2. results'.msgs[k].task = cur[w] /\ results'.msgs[k].sub = tasks.msgs[cur[w]]
      BY <3>1 DEF Result, Task
    <3>3. cur[w] \in 1 .. Len(tasks.msgs) /\ tasks.msgs \in Seq(Submissions)
      BY <3>1, TaskFacts DEF TInv, TypeOK, TaskQ!StreamTypeOK
    <3>4. cur[w] \in DOMAIN tasks.msgs
      BY <3>3
    <3> QED
      BY <1>1, <3>2, <3>4 DEF StreamsGrow
  <2> QED
    BY <2>1, <2>2
<1> QED
  BY <1>2, <1>3, <1>4, <1>5 DEF LinksOK

\* Every step acknowledges results only after they were written.
LEMMA WrittenStep ==
    ASSUME TInv, ApiTypeOK, WriterOK, LinksOK, WrittenOK, [PNext]_pipelineVars
    PROVE  WrittenOK'
<1>1. StreamsGrow /\ RequestsMove /\ WriterMoves
  BY PipelineSteps, Growth, RequestsStep, WriterInOrder
<1>2. TInv' /\ WriterOK'
  BY PipelineSteps, TInvStep, WriterInOrder
<1>3. /\ results.msgs \in Seq(ResultMessage) /\ DOMAIN results.msgs = 1 .. Len(results.msgs)
      /\ results.first \in Nat /\ results'.first \in Nat
  BY <1>2 DEF TInv, TypeOK
<1>4. ASSUME NEW k \in DOMAIN results.msgs, row[results.msgs[k].sub] # Pending
      PROVE  row'[results'.msgs[k].sub] # Pending
  <2>1. /\ results.msgs[k].sub \in Submissions
        /\ row[results.msgs[k].sub] # NoRow
        /\ results'.msgs[k] = results.msgs[k]
    BY <1>1, ResultHasRow DEF StreamsGrow
  <2> QED
    BY <1>1, <1>4, <2>1, RowsOnward
<1>5. rat[Writer] \in {"handle", "ack"} => rcur[Writer] \in DOMAIN results.msgs
  BY <1>3 DEF WriterOK
<1>6. ASSUME NEW k \in ResultQ!Settled', k >= results'.first
      PROVE  row'[results'.msgs[k].sub] # Pending
  <2>1. k \in Nat
    BY DEF ResultQ!Settled
  <2>2. CASE k \in ResultQ!Settled
    <3>1. k \in DOMAIN results.msgs /\ k >= results.first
      BY <1>1, <1>3, <1>6, <2>1, <2>2 DEF ResultQ!Settled, StreamsGrow
    <3> QED
      BY <1>4, <2>2, <3>1 DEF WrittenOK
  <2>3. CASE rat[Writer] = "ack" /\ k = rcur[Writer]
    BY <1>4, <1>5, <2>3 DEF WrittenOK
  <2> QED
    BY <1>1, <1>3, <1>6, <2>1, <2>2, <2>3 DEF WriterMoves
<1>7. ASSUME rat'[Writer] = "ack"
      PROVE  row'[results'.msgs[rcur'[Writer]].sub] # Pending
  <2>1. CASE rat[Writer] = "ack"
    BY <1>1, <1>4, <1>5, <1>7, <2>1 DEF WriterMoves, WrittenOK
  <2>2. CASE rat[Writer] = "handle" /\ Update(results.msgs[rcur[Writer]])
    <3> DEFINE r == results.msgs[rcur[Writer]]
    <3>1. /\ r.sub \in Submissions /\ r.status \in ResultStatus
          /\ row' = [row EXCEPT ![r.sub] = r.status]
      BY <2>2, HandledResult DEF ResultMessage, Update
    <3>2. row'[r.sub] = r.status
      BY <3>1 DEF ApiTypeOK
    <3>3. results'.msgs[rcur'[Writer]] = r
      BY <1>1, <1>5, <1>7, <2>2 DEF StreamsGrow, WriterMoves
    <3> QED
      BY <3>1, <3>2, <3>3, RowsAssumption
  <2> QED
    BY <1>1, <1>7, <2>1, <2>2 DEF WriterMoves
<1> QED
  BY <1>6, <1>7 DEF WrittenOK

\* The pipeline's inductive invariant holds initially and is kept by every step.
LEMMA PInvInit == PInit => PInv
<1> SUFFICES ASSUME PInit PROVE PInv
  OBVIOUS
<1>1. TInv /\ tasks = TaskQ!EmptyLog /\ results = TaskQ!EmptyLog
  BY TInvInit DEF PInit, Init, TaskQ!StreamInit
<1>2. /\ tasks.msgs = <<>> /\ results.msgs = <<>> /\ results.first = 1
      /\ DOMAIN tasks.msgs = {} /\ DOMAIN results.msgs = {} /\ Len(results.msgs) = 0
  BY <1>1 DEF TaskQ!EmptyLog
<1>3. /\ rgroup.next = 1 /\ rgroup.pel = {}
      /\ rgroup \in [next : Nat, pel : SUBSET [id : Nat, owner : ApiNames]]
  BY DEF PInit, ResultQ!NewGroup
<1>4. /\ rat \in [{Writer} -> LoopStates] /\ rat[Writer] = "subscribe"
      /\ rcur \in [{Writer} -> Nat] /\ rbatch \in [{Writer} -> SUBSET Nat]
      /\ rbatch[Writer] = {} /\ rfull \in [{Writer} -> BOOLEAN]
  BY DEF PInit, LoopStates
<1>5. ApiTypeOK
  BY DEF PInit, ApiTypeOK, Rows, Requests
<1>6. WriterOK
  BY <1>2, <1>3, <1>4 DEF WriterOK
<1>7. LinksOK
  BY <1>2 DEF PInit, LinksOK
<1>8. WrittenOK
  BY <1>2, <1>4 DEF WrittenOK, ResultQ!Settled
<1> QED
  BY <1>1, <1>5, <1>6, <1>7, <1>8 DEF PInv

\* Every step of the pipeline preserves its inductive invariant.
LEMMA PInvStep == PInv /\ [PNext]_pipelineVars => PInv'
<1> SUFFICES ASSUME PInv, [PNext]_pipelineVars PROVE PInv'
  OBVIOUS
<1>1. TInv /\ ApiTypeOK /\ WriterOK /\ LinksOK /\ WrittenOK
  BY DEF PInv
<1>2. TInv'
  BY <1>1, PipelineSteps, TInvStep
<1>3. ApiTypeOK' /\ WriterOK' /\ LinksOK' /\ WrittenOK'
  BY <1>1, RequestsStep, WriterInOrder, LinksStep, WrittenStep
<1> QED
  BY <1>2, <1>3 DEF PInv

\* The inductive invariant holds throughout.
LEMMA PInvAlways == PSpec => []PInv
  BY PInvInit, PInvStep, PTL DEF PSpec

\* What was shown of the nodes alone also holds of the nodes in the pipeline.
LEMMA NodesInPipeline ==
    PSpec => [](JudgingOK /\ VerdictSound /\ AnswersOK /\ SettledIsAnswered)
<1>1. PInit => JudgingOK /\ VerdictSound
  BY JudgingInit DEF PInit, Init, VerdictSound, TaskQ!EmptyLog
<1>2. PInit => AnswersOK /\ SettledIsAnswered
  BY DEF PInit, Init, AnswersOK, SettledIsAnswered, TaskQ!Settled, TaskQ!StreamInit,
         TaskQ!EmptyLog
<1>3. PInv => TInv
  BY DEF PInv
<1> QED
  BY <1>1, <1>2, <1>3, PInvAlways, PipelineSteps, JudgingStep, VerdictStep, AnswersStep,
     PTL DEF PSpec

\* No acknowledgement anywhere on the way from the request to the row discards a
\* submission: a row that still says Pending has its request under way or known
\* to be lost or answered with an error, a task, or a result that a stream still
\* holds or is known to have trimmed (submission.go, Submit; stream.go, dispatch; scheduler.go,
\* handleMessage; cmd/api-server, the DB result consumer).
THEOREM NoSubmissionForgotten == PSpec => []PendingIsAccounted
<1>1. PInv /\ SettledIsAnswered => PendingIsAccounted
  <2> SUFFICES ASSUME PInv, SettledIsAnswered, NEW s \in Submissions, row[s] = Pending,
                      request[s] \notin {"created", "lost", "warned", "failed"}
               PROVE  TaskUnderway(s) \/ ResultUnderway(s)
    BY DEF PendingIsAccounted
  <2>1. TInv /\ ApiTypeOK /\ WriterOK /\ LinksOK /\ WrittenOK
    BY DEF PInv
  <2>2. request[s] = "accepted"
    BY <2>1, RowsAssumption DEF ApiTypeOK, Requests, LinksOK
  <2>3. PICK i \in DOMAIN tasks.msgs : tasks.msgs[i] = s
    BY <2>1, <2>2 DEF LinksOK
  <2>4. /\ i \in 1 .. Len(tasks.msgs) /\ group.next \in Nat /\ tasks.first \in Nat
        /\ results.msgs \in Seq(ResultMessage) /\ results.first \in Nat
        /\ rgroup.next \in Nat
    BY <2>1, <2>3 DEF TInv, TypeOK, TaskQ!StreamTypeOK, WriterOK
  <2>5. CASE InStream(tasks, group, i) \/ i \in unanswered
    BY <2>3, <2>5 DEF TaskUnderway
  <2>6. CASE ~InStream(tasks, group, i) /\ i \notin unanswered
    <3>1. i \in TaskQ!Settled /\ ~(i < tasks.first)
      BY <2>4, <2>6 DEF InStream, TaskQ!Settled, TaskQ!PendingIds
    <3>2. PICK k \in DOMAIN results.msgs : results.msgs[k].task = i
      BY <2>6, <3>1 DEF SettledIsAnswered, Answered
    <3>3. results.msgs[k].sub = s /\ k \in 1 .. Len(results.msgs)
      BY <2>1, <2>3, <2>4, <3>2 DEF LinksOK
    <3>4. InStream(results, rgroup, k)
      <4>1. ~(k \in ResultQ!Settled /\ k >= results.first)
        BY <2>1, <3>3 DEF WrittenOK
      <4> QED
        BY <2>4, <3>3, <4>1 DEF InStream, ResultQ!Settled, ResultQ!PendingIds
    <3> QED
      BY <3>2, <3>3, <3>4 DEF ResultUnderway
  <2> QED
    BY <2>5, <2>6
<1> QED
  BY <1>1, PInvAlways, NodesInPipeline, PTL

-----------------------------------------------------------------------------
\* The pipeline implements the abstract service.

\* The pairs published so far: what the abstract service calls its answers.
Published == {<<results.msgs[k].sub, results.msgs[k].status>> : k \in DOMAIN results.msgs}

\* The submissions of the tasks whose judging was disturbed.
Disturbed == {tasks.msgs[i] : i \in misread}

\* No other task disturbs a judging.
LEMMA DisturbedKept ==
    ASSUME TInv, AnyStep, misread' = misread
    PROVE  Disturbed' = Disturbed
<1>1. \A i \in misread : tasks'.msgs[i] = tasks.msgs[i]
  BY TasksGrow DEF TInv, TypeOK
<1> QED
  BY <1>1 DEF Disturbed

\* A step that writes neither rows nor results is no step of the service.
LEMMA ServiceStutters ==
    ASSUME UNCHANGED <<row, results, Disturbed>>
    PROVE  UNCHANGED Service!serviceVars
  BY DEF Service!serviceVars, Disturbed

\* A failure that is taken for the program's disturbs an accepted submission.
LEMMA ServiceDisturbs ==
    ASSUME PInv, UNCHANGED <<row, tasks, results>>, NEW w \in Workers,
           stage[w] # "none", misread' = misread \cup {cur[w]}
    PROVE  Service!Next
<1>1. /\ Task(w) \in Submissions /\ cur[w] \in 1 .. Len(tasks.msgs)
      /\ tasks.msgs \in Seq(Submissions)
  BY TaskFacts DEF PInv, TInv, TypeOK, TaskQ!StreamTypeOK
<1>2. row[Task(w)] # NoRow
  BY <1>1 DEF PInv, LinksOK, Task
<1>3. PICK s \in Submissions : s = Task(w)
  BY <1>1
<1>4. Disturbed' = Disturbed \cup {s}
  BY <1>3 DEF Disturbed, Task
<1>5. Published' = Published
  BY DEF Published
<1>6. Service!Disturb(s)
  BY <1>2, <1>3, <1>4, <1>5 DEF Service!Disturb, Disturbed, Published
<1> QED
  BY <1>6 DEF Service!Next

\* A published result is an answer to an accepted submission.
LEMMA ServiceJudges ==
    ASSUME PInv, UNCHANGED <<row, Disturbed>>, NEW w \in Workers, stage[w] # "none",
           NEW st \in ResultStatus, Sound(w, st, TrueStatus(Task(w))),
           PublishResult(Result(w, st))
    PROVE  Service!Next
<1>1. TInv /\ LinksOK
  BY DEF PInv
<1>2. /\ Task(w) \in Submissions /\ cur[w] \in 1 .. Len(tasks.msgs)
      /\ tasks.msgs \in Seq(Submissions)
  BY <1>1, TaskFacts DEF TInv, TypeOK, TaskQ!StreamTypeOK
<1>3. row[Task(w)] # NoRow
  BY <1>1, <1>2 DEF LinksOK, Task
<1>4. /\ \A k \in DOMAIN results.msgs :
            k \in DOMAIN results'.msgs /\ results'.msgs[k] = results.msgs[k]
      /\ \A k \in DOMAIN results'.msgs :
            \/ k \in DOMAIN results.msgs
            \/ k = Len(results.msgs) + 1 /\ results'.msgs[k] = Result(w, st)
      /\ DOMAIN results'.msgs = 1 .. Len(results.msgs) + 1
  BY <1>1, ResultGrows
<1>5. /\ results.msgs \in Seq(ResultMessage) /\ Len(results.msgs) \in Nat
      /\ Len(results.msgs) + 1 \in DOMAIN results'.msgs
      /\ Len(results.msgs) + 1 \notin DOMAIN results.msgs
  BY <1>1, <1>4 DEF TInv, TypeOK
<1>6. results'.msgs[Len(results.msgs) + 1] = Result(w, st)
  BY <1>4, <1>5
<1>7. Result(w, st).sub = Task(w) /\ Result(w, st).status = st
  BY DEF Result
<1>8. Published' = Published \cup {<<Task(w), st>>}
  <2>1. ASSUME NEW p \in Published' PROVE p \in Published \cup {<<Task(w), st>>}
    BY <1>4, <1>7, <2>1 DEF Published
  <2>2. ASSUME NEW p \in Published PROVE p \in Published'
    BY <1>4, <2>2 DEF Published
  <2>3. <<Task(w), st>> \in Published'
    BY <1>5, <1>6, <1>7 DEF Published
  <2> QED
    BY <2>1, <2>2, <2>3
<1>9. Service!Judge(Task(w), st)
  BY <1>3, <1>8 DEF Service!Judge, Published, Disturbed
<1>10. st \in Service!Verdicts(Task(w))
  BY DEF Sound, Service!Verdicts, Task
<1> QED
  BY <1>2, <1>9, <1>10 DEF Service!Next

\* What the writer puts into a row is one of the submission's answers.
LEMMA ServiceRecords ==
    ASSUME PInv, VerdictSound, UNCHANGED <<results, Disturbed>>, rat[Writer] = "handle",
           Update(results.msgs[rcur[Writer]])
    PROVE  Service!Next
<1> DEFINE r == results.msgs[rcur[Writer]]
<1>1. r \in ResultMessage /\ rcur[Writer] \in DOMAIN results.msgs
  BY HandledResult DEF PInv, WriterOK, TInv, TypeOK
<1>2. r.sub \in Submissions /\ r.status \in Service!Verdicts(r.sub)
  <2>1. /\ r.sub \in Submissions /\ r.status \in ResultStatus
        /\ r.status \in {"SE", TrueStatus(r.sub)} \/ (r.task \in misread /\ r.status # "AC")
    BY <1>1 DEF ResultMessage, VerdictSound
  <2>2. r.sub = tasks.msgs[r.task]
    BY <1>1 DEF PInv, LinksOK
  <2> HIDE DEF r
  <2> QED
    BY <2>1, <2>2 DEF Service!Verdicts
<1>3. <<r.sub, r.status>> \in Published
  BY <1>1 DEF Published
<1>4. Published' = Published
  BY DEF Published
<1>5. row' = [row EXCEPT ![r.sub] = r.status]
  BY DEF Update
<1>6. Service!Record(r.sub, r.status)
  BY <1>3, <1>4, <1>5 DEF Service!Record, Published, Disturbed
<1> QED
  BY <1>2, <1>6 DEF Service!Next

\* Create accepts a submission that has no row yet, whether it says so or not.
LEMMA ServiceAccepts ==
    ASSUME PInv, NEW s \in Submissions, Create(s) \/ CreateFails(s),
           UNCHANGED <<results, Disturbed>>
    PROVE  Service!Next \/ UNCHANGED row
<1>1. /\ row[s] = NoRow
      /\ row' = [row EXCEPT ![s] = Pending] \/ UNCHANGED row
  BY DEF Create, CreateFails, PInv, LinksOK
<1>2. Published' = Published
  BY DEF Published
<1>3. row' = [row EXCEPT ![s] = Pending] => Service!Accept(s)
  BY <1>1, <1>2 DEF Service!Accept, Published, Disturbed
<1> QED
  BY <1>1, <1>3 DEF Service!Next

\* Every step of the pipeline is one of the service, or none.
LEMMA ServiceStep ==
    PInv /\ JudgingOK /\ VerdictSound /\ [PNext]_pipelineVars
        => [Service!Next]_(Service!serviceVars)
<1> SUFFICES ASSUME PInv, JudgingOK, VerdictSound, [PNext]_pipelineVars
             PROVE  Service!Next \/ UNCHANGED Service!serviceVars
  OBVIOUS
<1>0. TInv /\ AnyStep
  BY PipelineSteps DEF PInv
<1>1. ASSUME UNCHANGED <<row, results>>, misread' = misread
      PROVE  UNCHANGED Service!serviceVars
  BY <1>0, <1>1, DisturbedKept, ServiceStutters
<1>2. CASE JudgerNext /\ UNCHANGED apiVars
  <2>1. UNCHANGED <<row, tasks>>
    BY <1>2, NodesKeepTasks DEF apiVars
  <2>2. ASSUME NEW w \in Workers, stage[w] = "publish", ~CtxDone(w),
               misread' = misread, PublishResult(Result(w, status[w]))
        PROVE  Service!Next
    <3>1. Sound(w, status[w], TrueStatus(Task(w))) /\ status[w] \in ResultStatus
      BY <1>0, <2>2 DEF JudgingOK, Judged, TInv, TypeOK
    <3>2. Disturbed' = Disturbed
      BY <1>0, <2>2, DisturbedKept
    <3> QED
      BY <2>1, <2>2, <3>1, <3>2, ServiceJudges
  <2>3. ASSUME NEW w \in Workers, stage[w] = "publishSE", misread' = misread,
               PublishResult(Result(w, "SE"))
        PROVE  Service!Next
    <3>1. "SE" \in ResultStatus /\ Sound(w, "SE", TrueStatus(Task(w)))
      BY DEF ResultStatus, CaseStatus, Sound
    <3>2. Disturbed' = Disturbed
      BY <1>0, <2>3, DisturbedKept
    <3> QED
      BY <2>1, <2>3, <3>1, <3>2, ServiceJudges
  <2>4. ASSUME NEW w \in Workers, stage[w] # "none", misread' = misread \cup {cur[w]},
               UNCHANGED results
        PROVE  Service!Next
    BY <2>1, <2>4, ServiceDisturbs
  <2> QED
    BY <1>0, <1>1, <2>1, <2>2, <2>3, <2>4, ResultsStep, MisreadStep
<1>3. ASSUME NEW s \in Submissions, Create(s) \/ CreateFails(s)
      PROVE  Service!Next \/ UNCHANGED Service!serviceVars
  <2>1. UNCHANGED results /\ misread' = misread
    BY <1>3 DEF Create, CreateFails, vars, judgerVars
  <2>2. Disturbed' = Disturbed
    BY <1>0, <2>1, DisturbedKept
  <2> QED
    BY <1>1, <1>3, <2>1, <2>2, ServiceAccepts
<1>4. ASSUME NEW s \in Submissions, Enqueue(s) \/ EnqueueFails(s)
      PROVE  UNCHANGED <<row, results>> /\ misread' = misread
  BY <1>4 DEF Enqueue, EnqueueFails, EnqueueTask, judgerVars
<1>5. CASE \/ WriterEnsureGroup \/ WriterDrainPending \/ WriterDrainPendingFails
           \/ WriterReads \/ WriterReadLost \/ WriterAcks \/ WriterAckFails
           \/ ApiEnds \/ ApiRestarts
  <2>1. UNCHANGED <<row, results>> /\ misread' = misread
    BY <1>5 DEF WriterEnsureGroup, WriterDrainPending, WriterDrainPendingFails,
        WriterReads, WriterReadLost, WriterAcks, WriterAckFails, ApiEnds, ApiRestarts,
        ResultQ!DrainPending, ResultQ!DrainPendingFails, ResultQ!XReadGroup,
        ResultQ!XReadGroupLost, ResultQ!XAck, ResultQ!XAckFails, ResultQ!Die,
        ResultQ!Launch, vars, judgerVars
  <2> QED
    BY <1>1, <2>1
<1>6. CASE WriterUpdates \/ WriterUpdateFails
  <2>1. /\ rat[Writer] = "handle" /\ UNCHANGED results /\ misread' = misread
        /\ Update(results.msgs[rcur[Writer]]) \/ UNCHANGED row
    BY <1>6 DEF WriterUpdates, WriterUpdateFails, vars, judgerVars
  <2>2. Disturbed' = Disturbed
    BY <1>0, <2>1, DisturbedKept
  <2> QED
    BY <1>1, <2>1, <2>2, ServiceRecords
<1>7. CASE UNCHANGED pipelineVars
  BY <1>1, <1>7 DEF pipelineVars, vars, apiVars
<1> QED
  BY <1>1, <1>2, <1>3, <1>4, <1>5, <1>6, <1>7 DEF PNext, ApiNext, WriterStep

\* The pipeline, with all its streams, workers, crashes and retries, is an
\* implementation of the judging service of JudgeService: rows go from nothing to
\* Pending to published answers, and every answer is a SystemError or the verdict
\* of a complete judging of an accepted submission, or refuses one whose judging a
\* failure of the sandbox or of a checker disturbed.
THEOREM PipelineIsJudgeService == PSpec => ImplementsService
<1>1. PInit => Service!Init
  BY DEF PInit, Init, Service!Init, TaskQ!EmptyLog
<1> QED
  BY <1>1, ServiceStep, PInvAlways, NodesInPipeline, PTL
     DEF PSpec, ImplementsService, Service!Spec
=============================================================================
