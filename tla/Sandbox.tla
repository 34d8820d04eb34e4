------------------------------- MODULE Sandbox ------------------------------
(***************************************************************************)
(* One test case in the sandbox: internal/judger/sandbox/nsjail (Execute,  *)
(* ExecutePair and ExecuteGroup) under the four orchestrators, which turn  *)
(* what the processes did into a verdict.                                  *)
(*                                                                         *)
(* The parent creates the pipes, starts the processes, closes its own      *)
(* copies of the ends, drains the logs and waits.  A program is anything   *)
(* that reads, writes and ends; the kernel and nsjail stop it at its       *)
(* limits.  A pipe has a capacity; reading from one nobody can write to    *)
(* gives end of file, writing to one nobody can read from kills.           *)
(***************************************************************************)
EXTENDS Naturals, Sequences, FiniteSets, SequencesExt

CONSTANTS
    Modes,          \* the orchestrators to look at
    GroupSize,      \* JudgeConfig.CommProcessCount
    CommChannels,   \* JudgeConfig.CommChannels: pairs <<from, to>>
    Capacity,       \* messages a pipe can hold
    MaxFaults       \* starts that may fail

ASSUME SandboxAssumption ==
    /\ Modes \subseteq {"standard", "special", "interactive", "communication"}
    /\ GroupSize \in Nat \ {0, 1}
    /\ CommChannels \subseteq (1 .. GroupSize) \X (1 .. GroupSize)
    /\ Capacity \in Nat \ {0} /\ MaxFaults \in Nat

VARIABLES
    mode,
    measured,   \* the judger has a cgroup of its own to measure in
    step,       \* of the parent: start, close, wait, done, failed
    next,       \* the process to start next, as an index into Launch
    status,     \* status[p]: none, up or gone
    cause,      \* cause[p]: why p ended
    spent,      \* spent[p]: its CPU time against the limit: under, at, over
    held,       \* held[x]: the ends of pipes the parent or process x holds
    want,       \* want[p]: the end p is reading from or writing to
    fill,       \* fill[c]: messages in channel c
    logged,     \* logged[p]: nsjail's log names the limit p ran into
    drained,    \* drained[p]: that log has been read to its end
    said,       \* first line of the interactor, grader or checker
    results,    \* results[p]: the ExecStatus of p
    verdict, budget

vars == <<mode, measured, step, next, status, cause, spent, held, want, fill,
          logged, drained, said, results, verdict, budget>>

None == "none"

Idle == <<>>   \* p is at no end

Parent == 0

Judge == GroupSize + 1   \* the interactor, or the grader

Procs == 1 .. Judge

Contestants == IF mode = "communication" THEN 1 .. GroupSize ELSE {1}

\* The order of the Start calls.
Launch ==
    CASE mode = "interactive"   -> <<1, Judge>>
      [] mode = "communication" -> [i \in Procs |-> i]
      [] OTHER                  -> <<1>>

\* c2i and i2c, or the configured graph.
Channels ==
    CASE mode = "interactive"   -> {<<1, Judge>>, <<Judge, 1>>}
      [] mode = "communication" -> CommChannels
      [] OTHER                  -> {}

AllChannels == CommChannels \cup {<<1, Judge>>, <<Judge, 1>>}

ReadEnd(c) == <<c, "r">>

WriteEnd(c) == <<c, "w">>

LogEnd(p) == <<<<p, p>>, "log">>

\* The grader runs without nsjail.
HasLog(p) == p \in ToSet(Launch) /\ (mode = "communication" => p # Judge)

\* stdin, stdout, the extra channels and the log.
EndsOf(p) ==
    {ReadEnd(c) : c \in {d \in Channels : d[2] = p}}
        \cup {WriteEnd(c) : c \in {d \in Channels : d[1] = p}}
        \cup (IF HasLog(p) THEN {LogEnd(p)} ELSE {})

Holders(e) == {x \in DOMAIN held : e \in held[x]}

-----------------------------------------------------------------------------
\* The parent until all processes run.

\* The process has its ends from the start; the parent keeps its own copies.
Start ==
    LET p == Launch[next]
    IN  /\ step = "start"
        /\ status' = [status EXCEPT ![p] = "up"]
        /\ held' = [held EXCEPT ![p] = EndsOf(p)]
        /\ next' = next + 1
        /\ step' = IF next = Len(Launch) THEN "close" ELSE "start"
        /\ UNCHANGED <<mode, measured, cause, spent, want, fill, logged, drained, said,
                       results, verdict, budget>>

\* Pipe or Start fails: the processes already started are killed and waited for, and
\* everything is closed.  Without a grader the group goes on.
StartFails ==
    /\ step = "start" /\ budget > 0 /\ budget' = budget - 1
    /\ IF mode = "communication" /\ Launch[next] = Judge
       THEN step' = "close" /\ UNCHANGED <<status, cause, held, want>>
       ELSE /\ step' = "failed"
            /\ status' = [p \in Procs |-> IF status[p] = "up" THEN "gone" ELSE status[p]]
            /\ cause' = [p \in Procs |-> IF status[p] = "up" THEN "killed" ELSE cause[p]]
            /\ held' = [x \in DOMAIN held |-> {}]
            /\ want' = [p \in Procs |-> Idle]
    /\ UNCHANGED <<mode, measured, next, spent, fill, logged, drained, said, results, verdict>>

\* Mutant: the write ends of the channels stay open in the parent.
CloseAllButWriters ==
    /\ step = "close" /\ step' = "wait"
    /\ held' = [held EXCEPT ![Parent] = {WriteEnd(c) : c \in Channels}]
    /\ UNCHANGED <<mode, measured, next, status, cause, spent, want, fill, logged, drained,
                   said, results, verdict, budget>>

\* Mutant: the write ends of the logs stay open in the parent.
CloseAllButLogs ==
    /\ step = "close" /\ step' = "wait"
    /\ held' = [held EXCEPT ![Parent] = {LogEnd(p) : p \in {q \in Procs : HasLog(q)}}]
    /\ UNCHANGED <<mode, measured, next, status, cause, spent, want, fill, logged, drained,
                   said, results, verdict, budget>>

\* closeAll: every end the parent does not read from itself.
CloseAll ==
    /\ step = "close" /\ step' = "wait"
    /\ held' = [held EXCEPT ![Parent] = {}]
    /\ UNCHANGED <<mode, measured, next, status, cause, spent, want, fill, logged, drained,
                   said, results, verdict, budget>>

-----------------------------------------------------------------------------
\* The processes.

\* nsjail may or may not log the limit it enforced.
LimitCauses == {"cpu", "mem", "wall"}

\* The CPU time a process that ended for reason c can have used; only Execute
\* measures it.  --rlimit_cpu counts whole seconds, so a program may end well past
\* its limit.
CanHaveSpent(c) ==
    IF mode \notin {"standard", "special"} THEN {"under"}
    ELSE IF c = "cpu" THEN {"at", "over"} ELSE {"under", "at", "over"}

End(p, c) ==
    /\ status' = [status EXCEPT ![p] = "gone"]
    /\ cause' = [cause EXCEPT ![p] = c]
    /\ held' = [held EXCEPT ![p] = {}]
    /\ want' = [want EXCEPT ![p] = Idle]
    /\ \E line \in (IF c \in LimitCauses THEN BOOLEAN ELSE {FALSE}) :
          logged' = [logged EXCEPT ![p] = line]
    /\ \E time \in CanHaveSpent(c) : spent' = [spent EXCEPT ![p] = time]

\* Program p turns to one of its channels.
Turn(p) ==
    /\ status[p] = "up" /\ want[p] = Idle
    /\ \E e \in held[p] \ {LogEnd(p)} : want' = [want EXCEPT ![p] = e]
    /\ UNCHANGED <<mode, measured, step, next, status, cause, spent, held, fill, logged,
                   drained, said, results, verdict, budget>>

Done(p, c, n) ==
    /\ fill' = [fill EXCEPT ![c] = n]
    /\ want' = [want EXCEPT ![p] = Idle]
    /\ UNCHANGED <<status, cause, spent, held, logged>>

Write(p) ==
    /\ status[p] = "up"
    /\ \E c \in Channels :
          /\ want[p] = WriteEnd(c)
          /\ \/ Holders(ReadEnd(c)) = {} /\ End(p, "pipe") /\ UNCHANGED fill
             \/ Holders(ReadEnd(c)) # {} /\ fill[c] < Capacity /\ Done(p, c, fill[c] + 1)
    /\ UNCHANGED <<mode, measured, step, next, drained, said, results, verdict, budget>>

Read(p) ==
    /\ status[p] = "up"
    /\ \E c \in Channels :
          /\ want[p] = ReadEnd(c)
          /\ \/ fill[c] > 0 /\ Done(p, c, fill[c] - 1)
             \/ fill[c] = 0 /\ Holders(WriteEnd(c)) = {} /\ Done(p, c, 0)
    /\ UNCHANGED <<mode, measured, step, next, drained, said, results, verdict, budget>>

\* The interactor or grader writes its line to stderr.
Say ==
    /\ status[Judge] = "up" /\ said = None /\ want[Judge] = Idle
    /\ said' \in {"AC", "WA"}
    /\ UNCHANGED <<mode, measured, step, next, status, cause, spent, held, want, fill,
                   logged, drained, results, verdict, budget>>

Exit(p) ==
    /\ status[p] = "up" /\ want[p] = Idle
    /\ \E c \in {"ok", "error"} : End(p, c)
    /\ UNCHANGED <<mode, measured, step, next, fill, drained, said, results, verdict, budget>>

\* The limits a process has: the interactor has no limit on CPU time, the grader none.
LimitsOf(p) ==
    IF p # Judge THEN LimitCauses ELSE IF mode = "interactive" THEN {"mem", "wall"} ELSE {}

\* nsjail or the kernel stops p; one that waits uses neither CPU nor more memory.
Overrun(p) ==
    /\ status[p] = "up"
    /\ \E c \in LimitsOf(p) : (want[p] # Idle => c = "wall") /\ End(p, c)
    /\ UNCHANGED <<mode, measured, step, next, fill, drained, said, results, verdict, budget>>

\* The deadline of the task: exec.CommandContext kills what runs.
Deadline ==
    /\ step \in {"close", "wait"}
    /\ \E p \in Procs : status[p] = "up"
    /\ status' = [p \in Procs |-> IF status[p] = "up" THEN "gone" ELSE status[p]]
    /\ cause' = [p \in Procs |-> IF status[p] = "up" THEN "killed" ELSE cause[p]]
    /\ held' = [x \in DOMAIN held |-> IF x = Parent THEN held[x] ELSE {}]
    /\ want' = [p \in Procs |-> Idle]
    /\ \E time \in CanHaveSpent("killed") :
          spent' = [p \in Procs |-> IF status[p] = "up" THEN time ELSE spent[p]]
    /\ UNCHANGED <<mode, measured, step, next, fill, logged, drained, said, results, verdict,
                   budget>>

-----------------------------------------------------------------------------
\* The parent after that.

\* io.Copy of a log returns at its end of file.
Drain(p) ==
    /\ step = "wait" /\ HasLog(p) /\ ~drained[p]
    /\ Holders(LogEnd(p)) = {}
    /\ drained' = [drained EXCEPT ![p] = TRUE]
    /\ UNCHANGED <<mode, measured, step, next, status, cause, spent, held, want, fill,
                   logged, said, results, verdict, budget>>

\* parseResult, of the way the process ended and of what the log tells.  A killed
\* nsjail is a system error if its log mentions itself.
parseResult(c, line) ==
    CASE c = "ok"                -> {"OK"}
      [] c = "wall" /\ line      -> {"WallTLE"}
      [] c = "cpu" /\ line       -> {"TLE"}
      [] c = "mem" /\ line       -> {"MLE"}
      [] c = "killed"            -> {"SE", "RE"}
      [] OTHER                   -> {"RE"}

\* The second half of Execute: what the cgroup measured overrides what the log said.
Measured(s, p) ==
    LET oom  == IF s \notin {"TLE", "WallTLE"} /\ cause[p] = "mem" THEN "MLE" ELSE s
        over == spent[p] \in (IF oom = "OK" THEN {"over"} ELSE {"at", "over"})
        time == IF oom # "MLE" /\ over THEN "TLE" ELSE oom
    IN  IF time \notin {"OK", "MLE", "TLE"} /\ cause[p] = "wall" THEN "WallTLE" ELSE time

\* The lines of the log that have been read; ExecuteGroup parses the buffer while it
\* may still be written to.
Lines(p) ==
    IF mode = "communication" /\ ~drained[p] THEN {logged[p], FALSE} ELSE {logged[p]}

AllDrained == \A p \in Procs : HasLog(p) => drained[p]

AllGone == \A p \in Procs : status[p] # "up"

\* The result of a process; in a group they are taken one by one.
Reap(p) ==
    /\ step = "wait"
    /\ p \in Contestants /\ status[p] = "gone" /\ results[p] = None
    /\ IF mode = "communication"
       THEN \A q \in 1 .. p - 1 : results[q] # None
       ELSE AllGone /\ AllDrained
    /\ \E line \in Lines(p) : \E s \in parseResult(cause[p], line) :
          results' = [results EXCEPT ![p] = IF measured THEN Measured(s, p) ELSE s]
    /\ UNCHANGED <<mode, measured, step, next, status, cause, spent, held, want, fill,
                   logged, drained, said, verdict, budget>>

Severity == [OK |-> 0, RE |-> 1, WallTLE |-> 2, TLE |-> 2, MLE |-> 3, SE |-> 5]

\* The first of the worst results.
worstProcess ==
    results[CHOOSE p \in Contestants :
               \A q \in Contestants : \/ Severity[results[q]] < Severity[results[p]]
                                      \/ Severity[results[q]] = Severity[results[p]] /\ p <= q]

\* execStatusToSubmission.
execStatusToSubmission(s) ==
    CASE s \in {"TLE", "WallTLE"} -> "TLE"
      [] s \in {"MLE", "SE"}      -> s
      [] OTHER                    -> "RE"

\* Mutant: the judge's line is looked at first.
ParseVerdictLineFirst(line, s) ==
    IF line = "AC" THEN "AC"
    ELSE IF s # "OK" THEN execStatusToSubmission(s)
    ELSE IF line = "FAIL" THEN "SE" ELSE "WA"

\* DefaultVerdictParser and parseCheckerOutput; no line at all is a wrong answer.
ParseVerdict(line, s) ==
    IF s # "OK" THEN execStatusToSubmission(s)
    ELSE IF line = "AC" THEN "AC"
    ELSE IF line = "FAIL" THEN "SE" ELSE "WA"

\* What is said of an output that is only looked at now: by the comparison of the
\* tokens, or by the checker, which may also fail or say nothing.
Lately ==
    CASE mode = "standard" -> {"AC", "WA"}
      [] mode = "special"  -> {"AC", "WA", "FAIL", None}
      [] OTHER             -> {said}

Finish ==
    /\ step = "wait" /\ step' = "done"
    /\ AllGone /\ AllDrained
    /\ \A p \in Contestants : results[p] # None
    /\ said' \in Lately
    /\ verdict' = ParseVerdict(said', worstProcess)
    /\ UNCHANGED <<mode, measured, next, status, cause, spent, held, want, fill, logged,
                   drained, results, budget>>

-----------------------------------------------------------------------------
Init ==
    /\ mode \in Modes
    /\ measured \in (IF mode \in {"standard", "special"} THEN BOOLEAN ELSE {FALSE})
    /\ step = "start" /\ next = 1
    /\ status = [p \in Procs |-> "none"]
    /\ cause = [p \in Procs |-> None]
    /\ spent = [p \in Procs |-> "under"]
    /\ held = [x \in Procs \cup {Parent} |->
                  IF x = Parent THEN UNION {EndsOf(p) : p \in Procs} ELSE {}]
    /\ want = [p \in Procs |-> Idle]
    /\ fill = [c \in AllChannels |-> 0]
    /\ logged = [p \in Procs |-> FALSE] /\ drained = [p \in Procs |-> FALSE]
    /\ said = None
    /\ results = [p \in Procs |-> None]
    /\ verdict = None
    /\ budget = MaxFaults

Next ==
    \/ Start \/ StartFails \/ CloseAll \/ Deadline \/ Finish \/ Say
    \/ \E p \in Procs : Turn(p) \/ Write(p) \/ Read(p) \/ Exit(p) \/ Overrun(p) \/ Drain(p) \/ Reap(p)

Spec == Init /\ [][Next]_vars

\* The parent and its goroutines run, and the deadline comes.
Fairness ==
    /\ WF_vars(Start) /\ WF_vars(CloseAll) /\ WF_vars(Finish) /\ WF_vars(Deadline)
    /\ \A p \in Procs : WF_vars(Drain(p)) /\ WF_vars(Reap(p))

FairSpec == Spec /\ Fairness

-----------------------------------------------------------------------------
\* "Deadlock prevention": a process that is stuck on a channel is kept waiting by a
\* live partner.  Once one of the two has ended the other gets its end of file or
\* its signal, and nobody is left to run into the wall-clock limit for want of it
\* (ExecutePair, ExecuteGroup).
StuckOnPartner ==
    step = "wait" =>
        \A c \in Channels :
            /\ \A p \in Procs : want[p] = ReadEnd(c) /\ fill[c] = 0
                  => \A x \in Holders(WriteEnd(c)) : x \in Procs /\ status[x] = "up"
            /\ \A p \in Procs : want[p] = WriteEnd(c) /\ fill[c] = Capacity
                  => \A x \in Holders(ReadEnd(c)) : x \in Procs /\ status[x] = "up"

\* A verdict is deserved.  Accepted takes a clean end of every process of the
\* contestant, within the limit where it is measured, and a judge that says so; a
\* process stopped at its time limit means TLE if the log says so and was read to
\* its end (which ExecuteGroup does not wait for) or if the time was measured.
VerdictIsDeserved ==
    step = "done" =>
        /\ verdict = "AC" =>
              /\ said = "AC"
              /\ \A p \in Contestants : cause[p] = "ok" /\ (measured => spent[p] # "over")
        /\ \A p \in Contestants :
              (cause[p] \in {"cpu", "wall"} /\ mode # "communication" /\ (logged[p] \/ measured))
                  => verdict = "TLE"

\* Every execution comes to an end, with a verdict or with an error, whichever
\* process hangs, dies or fails to start (Execute, ExecutePair, ExecuteGroup).
ExecutionEnds == <>(step \in {"done", "failed"})
=============================================================================
