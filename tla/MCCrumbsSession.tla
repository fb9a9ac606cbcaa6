--------------------------- MODULE MCCrumbsSession ---------------------------
(* CrumbsSession for TLC: the two threads, one or two devices and two       *)
(* reply opcodes.                                                          *)
EXTENDS CrumbsSession, TLC

\* Threads, addresses and opcodes are interchangeable.
Symmetry == Permutations(Callers) \cup Permutations(Addresses)
                \cup Permutations(Opcodes)
=============================================================================
