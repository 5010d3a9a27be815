----------------------------- MODULE MCPayment -----------------------------
(***************************************************************************)
(* Payment with the constants of its configuration: one order that is     *)
(* paid in at most two attempts, the first of which changes, and a payment *)
(* of somebody else.  Workers are alike.                                   *)
(***************************************************************************)
EXTENDS Payment, TLC

CONSTANTS o1, x1

OrdersDef    == {o1}
PaymentsDef  == {1, 2, 3}
ReferenceDef == [p \in PaymentsDef |-> IF p < 3 THEN o1 ELSE x1]
ChangesDef   == [p \in PaymentsDef |-> IF p = 1 THEN 2 ELSE 1]
WorkerSymmetry == Permutations(Workers)
=============================================================================
