--------------------------- MODULE MCSubscriptions ---------------------------
(* Instances of the subscription sweep for TLC. *)
EXTENDS Subscriptions

CONSTANTS b1, b2, u1, u2, s1, s2, s3, s4, s5, s6, s7, s8

OwnBoxes == [b \in Boxes |-> IF b = b1 THEN u1 ELSE u2]
=============================================================================
