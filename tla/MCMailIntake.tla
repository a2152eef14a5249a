----------------------------- MODULE MCMailIntake -----------------------------
(* Instances of the mail intake for TLC. *)
EXTENDS MailIntake

CONSTANTS m1, d1, e1

Places == [i \in Items |->
  CASE i = d1 -> "other" [] i = e1 -> "calendar" [] OTHER -> "inbox"]
=============================================================================
