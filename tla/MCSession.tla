------------------------------- MODULE MCSession -------------------------------
(* Session on small instances: two requests of any kinds, and a change of      *)
(* account.                                                                   *)
EXTENDS Session, TLC

Symmetry == Permutations(Req)
=============================================================================
