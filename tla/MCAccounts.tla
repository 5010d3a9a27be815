----------------------------- MODULE MCAccounts -----------------------------
(***************************************************************************)
(* Accounts with one user at a browser with two tabs, which are alike.     *)
(***************************************************************************)
EXTENDS Accounts, TLC

CallersDef  == Tabs \X {"form", "refresh"}
Symmetry    == Permutations(Tabs) \cup Permutations(Writers)
=============================================================================
