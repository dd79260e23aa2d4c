------------------------------ MODULE MCSlots ------------------------------
(* Small instances of Slots for TLC.                                        *)
EXTENDS Slots
CONSTANTS a, b, c, q1, q2, q3, s1, s2

(* Two requests of one user and one of another.                             *)
MCRefOf == [q \in Reqs |-> IF q = q3 THEN b ELSE a]
=============================================================================
