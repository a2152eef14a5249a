---------------------------- MODULE MCPluginQueue ----------------------------
(* Instances of the plugin queue for TLC. *)
EXTENDS PluginQueue

CONSTANTS p1, p2, w1, w2, created, updated, manual, m1

(* Two notifications about one message, and a trigger without a token. *)
Tokens == [e \in Events |-> IF e = manual THEN NoKey ELSE m1]
Registered == [e \in Events |-> IF e = manual THEN <<p2>> ELSE <<p1, p2>>]
=============================================================================
