------------------------------ MODULE MCAccess ------------------------------
(* Small instances of Access for TLC. *)
EXTENDS Access, TLC

CONSTANTS q1, q2, u1, u2, w1, c1

OneWorkspace == [u \in Users |-> w1]
OneOwner == [c \in Clients |-> u1]
Seeded == [u \in Users |-> IF u = u1 THEN "MEMBER" ELSE "VIEWER"]
RequestSymmetry == Permutations(Requests)
=============================================================================
