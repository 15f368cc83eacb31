------------------------------ MODULE MCSession ------------------------------
(* Instances of Session for TLC. *)
EXTENDS Session, TLC

CONSTANTS b1, b2, q1, q2

\* Two messages about the same baby, and one about each of two.
OneBaby   == <<b1, b1>>
TwoBabies == <<b1, b2>>

\* Both pollers poll the first baby, or each has its own.
SameBaby == [p \in Pollers |-> b1]
EachBaby == [p \in Pollers |-> IF p = q1 THEN b1 ELSE b2]

\* Pollers of the same baby can be exchanged.
PollerSymmetry == Permutations(Pollers)
=============================================================================
