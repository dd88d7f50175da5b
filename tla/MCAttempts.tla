------------------------------ MODULE MCAttempts ------------------------------
(* Attempts on small instances: one task with a file or two.  Uploads are     *)
(* interchangeable and so are tags.                                         *)
EXTENDS Attempts, TLC

CONSTANTS t1, own1, own2

OnePattern  == t1 :> {own1}
BothFiles   == t1 :> {own1, own2}
LimitTwo    == [t \in Task |-> 2]
LimitOne    == [t \in Task |-> 1]

Symmetry == Permutations(Request) \cup Permutations(Tag)
===============================================================================
