------------------------- MODULE MCSyncAnnularQueue -------------------------
(* Instances of MSyncAnnularQueue for TLC.  The threads of one role are      *)
(* interchangeable.                                                          *)
EXTENDS MSyncAnnularQueue, TLC

Symmetry == Permutations(Producers) \cup Permutations(Consumers)
=============================================================================
