----------------------------- MODULE MCContests -----------------------------
(***************************************************************************)
(* One contest at a time with up to two problems, one user and two         *)
(* handlers.                                                               *)
(***************************************************************************)
EXTENDS Contests, TLC

\* Late registration is allowed: without it there are only fewer behaviours.
OneHour == {<<1, 2, TRUE>>}

CONSTANTS h1, h2

\* The handlers are interchangeable.
Symmetry == Permutations(Handlers)
=============================================================================
