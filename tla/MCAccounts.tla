----------------------------- MODULE MCAccounts -----------------------------
(***************************************************************************)
(* One account from before, its password in the old format and with or     *)
(* without an address, and one that may register, maybe under a name that  *)
(* is an address.                                                          *)
(***************************************************************************)
EXTENDS Accounts, TLC

CONSTANTS h1, h2, n1, e1, e2, p1, p2

OldAccount ==
    {<<[name |-> n1, email |-> email, password |-> p1, legacy |-> TRUE]>> : email \in {None, e1}}

\* The handlers are interchangeable.
Symmetry == Permutations(Handlers)
=============================================================================
