-------------------------------- MODULE Keeper --------------------------------
(***************************************************************************)
(* The keeper (src/keeper/src/strategy.rs) against the program: decide()   *)
(* looks at a snapshot of the slab and the feed and names one action, and  *)
(* the action is submitted later, when users, the clock and the feed may   *)
(* have moved on.  A submission the program refuses changes nothing; the   *)
(* keeper then takes the next snapshot.  Others may send the same calls.   *)
(* (main.rs is a scaffold without the loop; its rule not to submit what    *)
(* earns less than it costs is the threshold on the bounty.)               *)
(*                                                                         *)
(* Of the feed the module keeps what decides whether Oracle.Update is      *)
(* accepted.  The ring is in module Oracle: the median is one of the       *)
(* prices read, so any price may be published, also one beyond the         *)
(* program's MAX_ORACLE_PRICE, which the oracle does not know.             *)
(***************************************************************************)
EXTENDS Program

CONSTANTS
    MIN_BOUNTY_THRESHOLD,
    funding_staleness_slots      \* how far the market may lag behind the clock

ASSUME KeeperAssumption ==
    {MIN_BOUNTY_THRESHOLD, funding_staleness_slots} \subseteq Nat

VARIABLES
    pending,                     \* the action decided on and not yet submitted
    oracle                       \* the kind of the feed's source, whether the feed
                                 \* graduated, whether the source shows a price

kvars == <<vars, pending, oracle>>
Idle == [act |-> "Skip", victim |-> 0]

-----------------------------------------------------------------------------
(* decide() *)

Stale == feed.price = 0 \/ clock - feed.slot > STALE_SLOTS

\* What the move of the feed since the last accrual costs the position q.
MarkedLoss(q) ==
    FloorDiv(Abs(q) * Pos(Sign(SideOf(q)) * (eng.last_oracle_price - feed.price)), POS_SCALE)

EstRequirement(q) == FloorDiv(NotionalOf(q, feed.price) * maintenance_margin_bps, BPS)

EstBounty(i) == FloorDiv(eng.acc[i].capital * LIQ_BOUNTY_BPS, BPS)

Candidates ==
    {i \in eng.used \ {PROTOCOL_LP_SLOT} :
        LET a == eng.acc[i]
            q == a.position_basis_q
        IN  /\ q # 0
            /\ a.capital + a.pnl - MarkedLoss(q) < EstRequirement(q)
            /\ EstBounty(i) >= MIN_BOUNTY_THRESHOLD}

Lagging == clock - eng.last_market_slot > funding_staleness_slots

ResetRipe == \E s \in Side : eng.side[s].mode = "DrainOnly" /\ eng.side[s].oi = 0

V_DustSeen == \E i \in eng.used : GcEligible(eng, i) /\ eng.acc[i].capital = 0  \* only empty accounts

DustSeen == \E i \in eng.used : GcEligible(eng, i)

Wanted(act) ==
    CASE act = "RefreshOracle" -> Stale
      [] act = "Liquidate"     -> Candidates # {}
      [] act = "CrankFunding"  -> Lagging
      [] act = "CrankAdlReset" -> ResetRipe
      [] act = "CrankGc"       -> DustSeen

V_Order == <<"RefreshOracle", "Liquidate", "CrankGc", "CrankAdlReset", "CrankFunding">>  \* dust first

Order == <<"RefreshOracle", "Liquidate", "CrankFunding", "CrankAdlReset", "CrankGc">>

Decision ==
    LET wanted == SelectSeq(Order, Wanted)
    IN  IF wanted = <<>> THEN Idle
        ELSE [act |-> Head(wanted),
              victim |-> IF Head(wanted) = "Liquidate" THEN First(Candidates) ELSE 0]

-----------------------------------------------------------------------------
(* The loop around it: one decision, one submission.                       *)

Decide ==
    /\ pending = Idle /\ Decision # Idle
    /\ pending' = Decision
    /\ UNCHANGED <<vars, oracle>>

\* Oracle.Update, which anyone may send, with whatever the source says now: an
\* error for a curve that has graduated (AlreadyGraduated), and for an account
\* without reserves or with the price 0 (StaleSource).
UpdateRefused == (oracle.kind = "PumpBonding" /\ oracle.graduated) \/ ~oracle.readable

Refresh ==
    /\ ~UpdateRefused
    /\ \E price \in Prices : feed' = [price |-> price, slot |-> clock]
    /\ UNCHANGED <<eng, tokens, clock, left>> /\ SlotsKept

Send ==
    \/ pending.act = "RefreshOracle" /\ Refresh
    \/ pending.act = "Liquidate"     /\ Liquidate(pending.victim)
    \/ pending.act = "CrankFunding"  /\ CrankFunding
    \/ pending.act = "CrankAdlReset" /\ CrankAdlReset
    \/ pending.act = "CrankGc"       /\ CrankGc

Refused ==
    \/ pending.act = "RefreshOracle" /\ UpdateRefused
    \/ pending.act = "Liquidate"     /\ ~LiquidateDue(pending.victim)
    \/ pending.act = "CrankFunding"  /\ ~FundingDue
    \/ pending.act = "CrankAdlReset" /\ ~AdlResetDue
    \/ pending.act = "CrankGc"       /\ ~GcDue

Submit ==
    /\ pending # Idle
    /\ Send \/ (Refused /\ UNCHANGED vars)
    /\ pending' = Idle
    /\ UNCHANGED oracle

-----------------------------------------------------------------------------
(* Everybody else.  The keeper has no action that graduates or converts a  *)
(* feed; others may.  The reserves of a source come and go.                *)

SomeoneUpdates == ~UpdateRefused /\ Published /\ UNCHANGED oracle

Graduates ==
    /\ Spend("source")
    /\ oracle.kind = "PumpBonding" /\ ~oracle.graduated
    /\ oracle' = [oracle EXCEPT !.graduated = TRUE]

\* To a pool or, graduated as the feed is, to another curve.
SomeoneConverts ==
    /\ oracle.graduated
    /\ Published
    /\ \E kind \in {"PumpBonding", "PumpSwap"} :
           oracle' = [oracle EXCEPT !.kind = kind, !.readable = TRUE]

ReservesChange ==
    /\ Spend("source")
    /\ oracle' = [oracle EXCEPT !.readable = ~@]

SourceStep ==
    /\ Graduates \/ ReservesChange
    /\ UNCHANGED <<eng, tokens, clock, feed>> /\ SlotsKept

Others ==
    /\ \/ (Instruction \/ Tick) /\ UNCHANGED oracle
       \/ SomeoneUpdates \/ SomeoneConverts \/ SourceStep
    /\ UNCHANGED pending

\* The feed starts on a curve; one that starts on a pool behaves like one
\* whose curve never ends.
KeeperInit ==
    /\ Init
    /\ pending = Idle
    /\ oracle = [kind |-> "PumpBonding", graduated |-> FALSE, readable |-> TRUE]

KeeperNext == Decide \/ Submit \/ Others

\* The loop never stops: a decision is taken whenever there is one to take,
\* and is submitted.
KeeperSpec ==
    /\ KeeperInit
    /\ [][KeeperNext]_kvars
    /\ []<><<Decide>>_kvars \/ []<>(pending # Idle \/ Decision = Idle)
    /\ []<><<Submit>>_kvars \/ []<>(pending = Idle)

-----------------------------------------------------------------------------
(* Properties *)

\* The feed is stale, and nobody but outsiders can change that.
FeedStuck == Stale /\ UpdateRefused

\* The keeper keeps the market current.  A feed that the program refuses is
\* refreshed, so the keeper does not go on sending liquidations that fail with
\* StaleOracle: it calls the feed stale when the program does, but for a price
\* beyond MAX_ORACLE_PRICE, which a refresh need not cure.  And the keeper
\* brings the market up to the clock unless a liquidation candidate or a feed
\* that refuses its updates holds it up; dust does not (Crank(Gc) fails while
\* the market lags by more than the envelope).
KeepsCurrent ==
    /\ ~FeedFresh ~> (FeedFresh \/ UpdateRefused \/ feed.price > MAX_ORACLE_PRICE)
    /\ Lagging ~> (~Lagging \/ Candidates # {} \/ FeedStuck)

\* ... and it has every dust account collected, where the collector's scan
\* reaches the whole table and funding_staleness_slots is within the
\* envelope, with the same two exceptions.
DustCollected ==
    \A i \in Accounts :
        GcEligible(eng, i) ~> (~GcEligible(eng, i) \/ Candidates # {} \/ FeedStuck)
=============================================================================
