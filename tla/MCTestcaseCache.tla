-------------------------- MODULE MCTestcaseCache ---------------------------
(***************************************************************************)
(* Small instances of TestcaseCache: a cache for one problem that two      *)
(* workers use for two.                                                    *)
(***************************************************************************)
EXTENDS TestcaseCache

CONSTANTS p1, p2, w1, w2

TwoProblems == {p1, p2}

TwoWorkers == {w1, w2}
=============================================================================
