------------------------------ MODULE MCKeeper --------------------------------
(***************************************************************************)
(* One keeper, the LP and two users on a table of three slots: a new       *)
(* market whose first deposits race BootstrapLp, and markets with          *)
(* positions whose feed moves and goes stale, which fall behind the clock  *)
(* by more than the accrual envelope, and in which users trade and leave   *)
(* dust between the keeper's snapshot and its transaction.                 *)
(***************************************************************************)
EXTENDS Keeper

CONSTANTS ann, bob

MCAccounts == 0..2
MCUsers == {ann, bob}

Fresh == [owners |-> <<>>, cap |-> [i \in MCAccounts |-> 0], ins |-> 0, price |-> 2,
          trades |-> <<>>,
          budget |-> [deposit |-> 2, withdraw |-> 1, order |-> 1, tick |-> 2, publish |-> 1,
                     source |-> 0]]
Trading(trades) ==
    [owners |-> <<LP, ann, bob>>, cap |-> [i \in MCAccounts |-> IF i = 0 THEN 6 ELSE 3],
     ins |-> 0, price |-> 2, trades |-> trades,
     budget |-> [deposit |-> 0, withdraw |-> 1, order |-> 1, tick |-> 2, publish |-> 1,
                source |-> 0]]

\* One position, and a source that stops showing a price or is replaced.
Failing ==
    [Trading(<< <<1, 0, 2>> >>) EXCEPT !.budget.order = 0, !.budget.tick = 3,
                                       !.budget.publish = 1, !.budget.source = 2]

MCOpenings ==
    {Fresh, Trading(<< <<1, 0, 3>> >>), Trading(<< <<1, 0, 2>>, <<0, 2, 1>> >>), Failing}
MCAmounts == {2, 3}
MCSizes == {1, 3}
MCPrices == {1, 4, 5}
=============================================================================
