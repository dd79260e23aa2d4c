------------------------------- MODULE MCWeb -------------------------------
(* One token and two agent keys of a user with one agent, and a window that *)
(* visits any page.                                                         *)
EXTENDS WebConsole, TLC

CONSTANTS x1, k1, k2, p1

KeySymmetry == Permutations(Keys)
=============================================================================
