----------------------------- MODULE MCListing -----------------------------
(* Two slabs, two payers, one rejected and two accepted sets of parameters; the      *)
(* validators are compared on every set that differs from a valid one in up to two   *)
(* fields, each moved across its bounds.                                             *)
EXTENDS Listing, TLC

CONSTANTS s1, s2, p1, p2, m1

MCSlabs == {s1, s2}
MCPayers == {p1, p2}
MCKeys == {m1, Zero}

Valid == [max_accounts |-> 2, max_active_positions_per_side |-> 2,
          maintenance_margin_bps |-> 1, initial_margin_bps |-> 2, trading_fee_bps |-> 0,
          liquidation_fee_bps |-> 1, min_nonzero_mm_req |-> 1, min_nonzero_im_req |-> 2,
          min_initial_deposit |-> 2, min_liquidation_abs |-> 1, liquidation_fee_cap |-> 2,
          insurance_floor |-> 1, h_min |-> 0, h_max |-> 1, resolve_price_deviation_bps |-> 1,
          max_accrual_dt_slots |-> 1, max_abs_funding_e9_per_slot |-> 1,
          min_funding_lifetime_slots |-> 2]

Values == {0, 1, 2, 3, 10001}
Vary(S) == {[p EXCEPT ![f] = v] : p \in S, f \in DOMAIN Valid, v \in Values}

MCParamSpace == Vary(Vary({Valid}))
MCParams == {Valid, [Valid EXCEPT !.h_max = 2], [Valid EXCEPT !.h_max = 0]}
MCPriceSpace == {0, 1, 3}
=============================================================================
