----------------------------- MODULE MCReserve ------------------------------
(***************************************************************************)
(* Reserve for TLC: PnL between -1 and 3, horizons up to 3 slots, four     *)
(* slots, other claims of at most one unit, and a residual that backs      *)
(* nothing or two units.                                                   *)
(***************************************************************************)
EXTENDS Reserve

MCPnl == {-1, 0, 1, 3}
MCResidual == {0, 2}
=============================================================================
