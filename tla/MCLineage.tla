------------------------------ MODULE MCLineage ------------------------------
(* Lineage for TLC.                                                          *)
EXTENDS Lineage, TLC

CONSTANTS d1, d2

MCEnrolled == <<d1>>

\* The device at two epochs, and one that is not enrolled.
MCContext == [epoch : {0, 1}, device_id16 : {d1}] \cup [epoch : {0}, device_id16 : {d2}]

Symmetry == Permutations(Slot) \cup Permutations(Root)
=============================================================================
