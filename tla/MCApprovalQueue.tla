--------------------------- MODULE MCApprovalQueue ---------------------------
(* Instances of the approval queue for TLC. *)
EXTENDS ApprovalQueue

CONSTANTS i1, i2, u1, u2, r1, r2, r3

Letters == {"email_draft", "engagement_letter"}
Sensitive == {"engagement_letter"}
Emails == {"email_draft"}

(* Users, payload versions and request slots are interchangeable. *)
Interchangeable == Permutations(Users) \cup Permutations(Requests)
=============================================================================
