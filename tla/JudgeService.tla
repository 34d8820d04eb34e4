---------------------------- MODULE JudgeService ----------------------------
(***************************************************************************)
(* What the judging service promises, without streams, workers or crashes: *)
(* a submission is accepted as Pending; answers to accepted submissions    *)
(* are published, each of them the submission's own verdict, a system      *)
(* error, or, when its judging was disturbed, a refusal; the row of a      *)
(* submission only ever changes to one of its answers.                     *)
(***************************************************************************)
CONSTANTS
    Submissions,
    TrueStatus(_),  \* the verdict of a complete, undisturbed judging
    Refusals,       \* the verdicts that do not accept a program
    NoRow, Pending

VARIABLES
    row,        \* row[s]: NoRow, Pending or a verdict
    disturbed,  \* the submissions whose judging was disturbed
    answers     \* the pairs of a submission and a status published for it

serviceVars == <<row, disturbed, answers>>

Init ==
    /\ row = [s \in Submissions |-> NoRow]
    /\ disturbed = {}
    /\ answers = {}

Accept(s) ==
    /\ row[s] = NoRow
    /\ row' = [row EXCEPT ![s] = Pending]
    /\ UNCHANGED <<disturbed, answers>>

Disturb(s) ==
    /\ row[s] # NoRow
    /\ disturbed' = disturbed \cup {s}
    /\ UNCHANGED <<row, answers>>

Verdicts(s) == {"SE", TrueStatus(s)} \cup (IF s \in disturbed THEN Refusals ELSE {})

Judge(s, st) ==
    /\ row[s] # NoRow
    /\ answers' = answers \cup {<<s, st>>}
    /\ UNCHANGED <<row, disturbed>>

Record(s, st) ==
    /\ <<s, st>> \in answers
    /\ row' = [row EXCEPT ![s] = st]
    /\ UNCHANGED <<disturbed, answers>>

Next ==
    \E s \in Submissions :
        \/ Accept(s) \/ Disturb(s)
        \/ \E st \in Verdicts(s) : Judge(s, st) \/ Record(s, st)

Spec == Init /\ [][Next]_serviceVars
=============================================================================
