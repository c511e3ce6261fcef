---------------------------- MODULE MCEyreChannel ----------------------------
(* Small instances of EyreChannel: the bounds of each run are in its cfg. *)
EXTENDS EyreChannel, TLC

CONSTANTS Facts, Kicks, Fails, Breaks

MCBudget == [facts |-> Facts, kicks |-> Kicks, fails |-> Fails, breaks |-> Breaks]

(* The pokes are interchangeable. *)
Symmetry == Permutations(Poke)
=============================================================================
