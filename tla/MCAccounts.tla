---------------------------- MODULE MCAccounts ----------------------------
(***************************************************************************)
(* Instances of Accounts for TLC.                                          *)
(***************************************************************************)
EXTENDS Accounts, TLC

CONSTANTS i1, i2, i3

\* Two ids stand for one number.
MCNumber == (i1 :> 1) @@ (i2 :> 1) @@ (i3 :> 2)

\* Handlers, passwords and the ids of one number are interchangeable.
AccountSymmetry ==
  Permutations(Handlers) \cup Permutations(Passwords) \cup Permutations({i1, i2})

===========================================================================
