------------------------------- MODULE MCSides --------------------------------
(***************************************************************************)
(* Three accounts, of which account 0 is the counterparty of the others.   *)
(*                                                                         *)
(* adl: liquidations and trades at one slot; the sides are deleveraged,    *)
(* drained, reset and reopened while positions of the old epoch are still  *)
(* unsettled.                                                              *)
(* crank: partial and full closes by a keeper, hints that are refused, two *)
(* candidates of which the first schedules a reset.                        *)
(* resolve: the market is resolved at a price inside the band or without   *)
(* one, with positions of the current and of an earlier epoch still open,  *)
(* and then closed account by account in any order.                        *)
(***************************************************************************)
EXTENDS Engine

MCAccounts == 0..2

Market(lp, price, trades) ==
    [cap |-> [i \in MCAccounts |-> IF i = 0 THEN lp ELSE 2], ins |-> 0, price |-> price,
     trades |-> trades]

Crowded == << <<1, 0, 1>>, <<2, 0, 2>> >>      \* both on the long side
Crossed == << <<1, 0, 2>>, <<0, 2, 1>> >>      \* one on each side

Nothing ==
    [openings |-> {}, max_slot |-> 0, steps |-> {0}, prices |-> {1, 2, 4}, exec_prices |-> {},
     rates |-> {0}, pairs |-> {<<0, h_max>>}, parties |-> {}, sizes |-> {}, amounts |-> {},
     policies |-> {}, lists |-> {},
     budget |-> [deposit |-> 0, withdraw |-> 0, settle |-> 0, trade |-> 0, liquidate |-> 0,
                 crank |-> 0, convert |-> 0, close |-> 0, fees |-> 0, resolve |-> 0]]

Adl ==
    [Nothing EXCEPT !.openings = {Market(4, 2, Crowded), Market(4, 2, Crossed)},
        !.exec_prices = {2}, !.parties = {<<0, 1>>, <<2, 0>>}, !.sizes = {1, 2},
        !.policies = {FullClose, ExactPartial(1)},
        !.budget.trade = 2, !.budget.liquidate = 2]

Crank3 ==
    [Nothing EXCEPT
        !.openings = {Market(9, 2, Crowded), Market(9, 2, Crossed), Market(9, 4, << <<0, 1, 1>> >>)},
        !.exec_prices = {1}, !.parties = {<<1, 0>>, <<0, 2>>}, !.sizes = {3},
        !.lists =
            {<<[idx |-> i, hint |-> h]>> : i \in MCAccounts, h \in {FullClose, ExactPartial(1)}}
            \union {<<[idx |-> 0, hint |-> FullClose], [idx |-> 1, hint |-> FullClose]>>,
                    <<[idx |-> 2, hint |-> ExactPartial(1)],
                      [idx |-> 0, hint |-> [kind |-> "None", q |-> 0]]>>},
        !.budget.trade = 1, !.budget.crank = 2]

Resolve ==
    [Nothing EXCEPT !.openings = {Market(6, 2, Crowded), Market(6, 2, Crossed)},
        !.max_slot = 1, !.steps = {0, 1}, !.prices = {1, 4}, !.rates = {1},
        !.policies = {FullClose},
        !.budget.settle = 1, !.budget.liquidate = 1, !.budget.resolve = 1]

MCScenes == [adl |-> Adl, crank |-> Crank3, resolve |-> Resolve]
=============================================================================
