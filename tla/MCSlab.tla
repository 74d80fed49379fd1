------------------------------- MODULE MCSlab -------------------------------
(***************************************************************************)
(* Instances of Slab for TLC: eight slots of which four may be used, scans*)
(* of four slots and two closes per collection.                            *)
(***************************************************************************)
EXTENDS Slab
=============================================================================
