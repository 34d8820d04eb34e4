---------------------------- MODULE MCOiContest -----------------------------
(***************************************************************************)
(* One contestant with two problems, or more than one submission to one of *)
(* them; later submissions are worth less, so that the best is not the     *)
(* last.                                                                   *)
(***************************************************************************)
EXTENDS OiContest, TLC

TwoProblems == {<<1, 1>>, <<1, 2>>}

Falling == [i \in 1 .. Cardinality(Requests) |-> Cardinality(Requests) - i]

CONSTANTS r1, r2, s1, s2

\* Requests and sweeps are interchangeable.
Symmetry == {p @@ q : p \in Permutations(Requests), q \in Permutations(Sweeps)}
=============================================================================
