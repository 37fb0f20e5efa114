------------------------------ MODULE MCRunShell ------------------------------
(* Small instances of RunShell.                                            *)
EXTENDS RunShell, TLC

CONSTANTS c1, c2, n1

(* c1 was saved earlier, c2 is an id the next created configuration gets.  *)
SavedEarlier == (c1 :> [name |-> n1, start |-> 1, end |-> 1]) @@ (c2 :> NoConfig)

ThreeDays == 0..2

RequestSymmetry == Permutations(Requests)
=============================================================================
