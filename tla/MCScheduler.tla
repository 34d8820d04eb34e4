---------------------------- MODULE MCScheduler -----------------------------
(***************************************************************************)
(* Small instances of Scheduler: two workers on one node or on two; one    *)
(* submission with two test cases and one that does not compile.           *)
(***************************************************************************)
EXTENDS Scheduler

CONSTANTS n1, n2, w1, w2, s1, s2

NodesDef == {n1, n2}

OneNodeDef == {n1}

TwoWorkers == {w1, w2}

OnOneNode == [w \in TwoWorkers |-> n1]

OnTwoNodes == [w \in TwoWorkers |-> IF w = w1 THEN n1 ELSE n2]

SubmissionsDef == {s1, s2}

CompileFailsDef == {s2}

CaseVerdictDef == [s \in SubmissionsDef |-> <<"AC", "WA">>]
=============================================================================
