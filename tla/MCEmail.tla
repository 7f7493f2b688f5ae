------------------------------ MODULE MCEmail ------------------------------
(***************************************************************************)
(* Instances of the email outbox for TLC.                                  *)
(***************************************************************************)
EXTENDS EmailProps, TLC

CONSTANTS w1, w2, m1, m2, owner

OneRecipient == [m \in Messages |-> owner]
EmailSymmetry == Permutations({w1, w2}) \cup Permutations({m1, m2})
=============================================================================
