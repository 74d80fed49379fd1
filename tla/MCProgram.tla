----------------------------- MODULE MCProgram --------------------------------
(***************************************************************************)
(* The program without a keeper of its own: everyone who may crank does.   *)
(* Markets in which a side is reset with a position left on it, and a      *)
(* market of flat users on a table longer than the collector's budget.     *)
(***************************************************************************)
EXTENDS Program

CONSTANTS ann, bob

MCAccounts == 0..2
MCUsers == {ann, bob}

Idle == [deposit |-> 0, withdraw |-> 0, order |-> 0, tick |-> 0, publish |-> 0]
Market(trades, budget) ==
    [owners |-> <<LP, ann, bob>>, cap |-> [i \in MCAccounts |-> IF i = 0 THEN 6 ELSE 3],
     ins |-> 0, price |-> 2, trades |-> trades, budget |-> budget]

Reset == {Market(<< <<1, 0, 2>>, <<0, 2, 2>> >>, [Idle EXCEPT !.order = 1, !.publish = 1, !.tick = 1])}
Flat == {Market(<<>>, [Idle EXCEPT !.withdraw = 2, !.tick = 2])}
MCAmounts == {3}
MCSizes == {1, 3}
MCPrices == {1, 4}
=============================================================================
