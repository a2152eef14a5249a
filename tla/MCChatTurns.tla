---------------------------- MODULE MCChatTurns -----------------------------
(* A turn and editors for TLC. *)
EXTENDS ChatTurns

CONSTANTS t1, e1, e2, e3, seed
=============================================================================
