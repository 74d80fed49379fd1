---------------------------- MODULE MCArithmetic -----------------------------
(***************************************************************************)
(* Limbs of four bits with halves of two, the narrowest in which every     *)
(* carry of the schoolbook products can happen; the limbs at the ends, at  *)
(* the sign bit and with one half full.  The price of the DLMM reader has  *)
(* the width of a limb, its products that of two.                          *)
(***************************************************************************)
EXTENDS Arithmetic

MCLimbs == {0, 1, 7, 8, 15}
=============================================================================
