------------------------------ MODULE MCIntake ------------------------------
(***************************************************************************)
(* The intakes TLC explores: a small content and a large one.              *)
(***************************************************************************)
EXTENDS Intake

CONSTANTS small, large

Sizes == [c \in Contents |-> IF c = small THEN 1 ELSE 2]

=============================================================================
