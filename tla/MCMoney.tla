------------------------------- MODULE MCMoney --------------------------------
(***************************************************************************)
(* Two accounts.                                                           *)
(*                                                                         *)
(* profit: gains are reserved, mature with the clock (also when nothing    *)
(* backs them yet), are haircut, converted and withdrawn, while the losing *)
(* side is settled early, late or in a liquidation.                        *)
(* funding: both signs of the funding rate, several slots at once, calls   *)
(* that move the clock without accruing, trades away from the oracle       *)
(* price.                                                                  *)
(* lifecycle: accounts come and go while fees are charged, forgiven and    *)
(* paid, with a funded position open or not.                               *)
(***************************************************************************)
EXTENDS Engine

MCAccounts == 0..1

Market(c0, c1, ins, price, trades) ==
    [cap |-> [i \in MCAccounts |-> IF i = 0 THEN c0 ELSE c1], ins |-> ins, price |-> price,
     trades |-> trades]

Base ==
    [openings |-> {}, max_slot |-> 2, steps |-> {0, 1}, prices |-> {2, 3}, exec_prices |-> {2},
     rates |-> {0}, pairs |-> {<<0, h_max>>}, parties |-> {<<0, 1>>}, sizes |-> {1},
     amounts |-> {2}, policies |-> {}, lists |-> {},
     budget |-> [deposit |-> 0, withdraw |-> 0, settle |-> 0, trade |-> 1, liquidate |-> 0,
                 crank |-> 0, convert |-> 0, close |-> 0, fees |-> 0, resolve |-> 0]]

Profit ==
    [Base EXCEPT
        !.openings = {Market(4, 3, 1, 2, << <<1, 0, 2>> >>), Market(2, 6, 1, 2, << <<1, 0, 2>> >>)},
        !.prices = {1, 4}, !.pairs = {<<0, 2>>, <<1, 1>>}, !.sizes = {2},
        !.policies = {FullClose},
        !.budget.withdraw = 1, !.budget.settle = 1, !.budget.liquidate = 1, !.budget.convert = 1]

Funding ==
    [Base EXCEPT
        !.openings = {Market(4, 4, 0, 2, << <<1, 0, 2>> >>)},
        !.max_slot = 3, !.steps = {0, 1, 2}, !.rates = {-1, 1},
        !.budget.settle = 2, !.budget.fees = 1]

Lifecycle ==
    [Base EXCEPT
        !.openings = {Market(3, 2, 0, 3, << <<1, 0, 1>> >>), Market(3, 2, 0, 3, <<>>)},
        !.exec_prices = {3}, !.rates = {1},
        !.budget.deposit = 1, !.budget.withdraw = 1, !.budget.close = 2, !.budget.fees = 2]

MCScenes == [profit |-> Profit, funding |-> Funding, lifecycle |-> Lifecycle]
MCWithdrawals == [profit |-> Profit]
=============================================================================
