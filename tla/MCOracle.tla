------------------------------ MODULE MCOracle ------------------------------
(* A feed over two source accounts, each readable as any kind. *)
EXTENDS Oracle

MCWords == 0 .. 3
MCBinIds == {-3, -1, 0, 1}
=============================================================================
