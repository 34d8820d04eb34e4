----------------------------- MODULE MCRanking ------------------------------
(***************************************************************************)
(* Small instances of Ranking.  Times are seconds of two-second minutes;   *)
(* the freeze starts at second 4, when one of the submissions is made.     *)
(***************************************************************************)
EXTENDS Ranking

Sub(u, p, t) == [user |-> u, problem |-> p, time |-> t]

OnePractice == {Sub(3, 9, 2)}

NoPractice == {}

\* Two teams on one problem: one has a submission before and one at the freeze,
\* the other one before it.
TwoTeams == {Sub(1, 1, 1), Sub(1, 1, 4), Sub(2, 1, 1)}

TwoTeamsStatuses ==
    [s \in TwoTeams \cup OnePractice |->
        CASE s = Sub(2, 1, 1)   -> {"CE"}
          [] s \in OnePractice -> {"AC"}
          [] OTHER             -> {"AC", "WA"}]

\* One team, two submissions before the freeze.
EarlyTeam == {Sub(1, 1, 1), Sub(1, 1, 3)}

EarlyTeamStatuses == [s \in EarlyTeam |-> {"AC", "WA"}]
=============================================================================
