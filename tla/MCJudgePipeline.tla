-------------------------- MODULE MCJudgePipeline ---------------------------
(***************************************************************************)
(* Small instances of JudgePipeline: one judger node, submissions with one *)
(* or two test cases.                                                      *)
(***************************************************************************)
EXTENDS JudgePipeline

CONSTANTS n1, w1, w2, s1, s2

OneNode == {n1}

OneWorker == {w1}

TwoWorkers == {w1, w2}

OneWorkerOnNode == [w \in OneWorker |-> n1]

TwoWorkersOnNode == [w \in TwoWorkers |-> n1]

OneSubmission == {s1}

TwoSubmissions == {s1, s2}

NoneFails == {}

OneCase == [s \in OneSubmission |-> <<"WA">>]

OneCaseEach == [s \in TwoSubmissions |-> IF s = s1 THEN <<"AC">> ELSE <<"RE">>]
=============================================================================
