--------------------------- MODULE MCHeldExecution ---------------------------
(* Instances of HeldExecution for TLC.                                      *)
EXTENDS HeldExecution, TLC

CONSTANTS d1, d2, h1, h2, k1, i1

OneKey == [h \in Holds |-> k1]

\* Drivers are interchangeable, and so are the holds of one key.
DriverSymmetry == Permutations(Drivers)
HeldSymmetry == DriverSymmetry \cup Permutations(Holds)
=============================================================================
