------------------------------ MODULE MCAuditLog ------------------------------
(* Instances of the audit log for TLC. *)
EXTENDS AuditLog

CONSTANTS f1, f2, f3, s1, s2, s3

(* Two of the firms have keys that collide, as 32 bits of a hash may. *)
SharedKey == [f \in {f1, f2, f3} |-> IF f = f3 THEN 2 ELSE 1]

(* A hash without collisions. *)
Digest(content, prev) == <<content, prev>>
=============================================================================
