------------------------------ MODULE Verdict -------------------------------
(***************************************************************************)
(* internal/judger/verdict.go: the statuses a test case or a submission    *)
(* can end with, and how the per-test-case results are folded into the     *)
(* status of the submission.  Scores are left to the contest strategies.   *)
(***************************************************************************)
EXTENDS Naturals, Sequences

\* What an orchestrator may report for one test case.
CaseStatus == {"AC", "WA", "RE", "MLE", "TLE", "SE"}

\* What a judge result may carry.
ResultStatus == CaseStatus \cup {"CE"}

priority(s) ==
    CASE s = "SE"  -> 6
      [] s = "TLE" -> 5
      [] s = "MLE" -> 4
      [] s = "RE"  -> 3
      [] s = "WA"  -> 2
      [] s = "AC"  -> 1
      [] OTHER     -> 0

\* The status of highest priority among the results; no result at all is a
\* system error.  The code's loop starts from AC and replaces it by anything
\* strictly worse; the statuses have pairwise different priorities.
aggregate(results) ==
    LET seen == {"AC"} \cup {results[i] : i \in DOMAIN results}
    IN  IF results = <<>>
        THEN "SE"
        ELSE CHOOSE s \in seen : \A t \in seen : priority(t) <= priority(s)
=============================================================================
