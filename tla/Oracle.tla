------------------------------- MODULE Oracle -------------------------------
(***************************************************************************)
(* One price feed of the oracle program (src/oracle).  A feed reads a      *)
(* source account, pushes the price into a ring and publishes the median   *)
(* of the ring.  All four instructions are permissionless; the caller      *)
(* picks the source account it passes.                                     *)
(*                                                                         *)
(* The source accounts belong to other programs.  Their reserves are any   *)
(* words at every read; what persists is the curve's `complete` byte,      *)
(* which that program sets once.  An instruction that fails is no step.    *)
(***************************************************************************)
EXTENDS Dlmm

CONSTANTS
    Sources,       \* the source accounts
    RING_LEN,
    STALE_SLOTS,
    POS_SCALE,
    Words,         \* the reserves, base prices and bin steps an account may hold
    BinIds         \* the active bins of a DLMM pool

ASSUME OracleAssumption ==
    /\ RING_LEN \in Nat \ {0, 1} /\ STALE_SLOTS \in Nat
    /\ POS_SCALE \in Nat \ {0}
    /\ Words \subseteq 0 .. U64_MAX /\ BinIds \subseteq Int

VARIABLES
    feed,       \* the feed account
    complete,   \* the sources whose curve is complete
    age,        \* clock.slot - feed.last_update_slot, counted up to MAX_AGE
    origin      \* history: for each ring slot, what its price was read from

vars == <<feed, complete, age, origin>>

PumpBonding == "PumpBonding"
SourceKind == {PumpBonding, "PumpSwap", "RaydiumCpmm", "MeteoraDlmm"}
RingSlots == 0 .. RING_LEN - 1
Nowhere == <<"nowhere", "nothing">>   \* the zeroed source of a fresh account

\* Beyond STALE_SLOTS all ages are alike.
MAX_AGE == STALE_SLOTS + 1

(***************************************************************************)
(* The readers.  A price is what is left of a reserve ratio scaled by      *)
(* POS_SCALE; an empty reserve or a price beyond u64 is an error, which is *)
(* told apart from the price 0 only by the error code.                     *)
(***************************************************************************)
amm_price(numerator, denominator) ==
    LET p == (numerator * POS_SCALE) \div denominator
    IN  IF p > U64_MAX THEN ReadError ELSE p

\* The curve stores the quote reserve first, the pools the base reserve.
read_reserves(kind, w) ==
    IF 0 \in {w[1], w[2]} THEN ReadError
    ELSE IF kind = PumpBonding THEN amm_price(w[1], w[2])
    ELSE amm_price(w[2], w[1])

\* The prices the reader of a kind may return for some content of the account.
read_source_price(kind) ==
    IF kind = "MeteoraDlmm"
    THEN {read_meteora_dlmm(w[1], w[2], id) : w \in Words \X Words, id \in BinIds}
    ELSE {read_reserves(kind, w) : w \in Words \X Words}

\* What InitializeFeed, Update and ConvertSource go on with.
FreshPrices(kind) == read_source_price(kind) \ {0, ReadError}

(***************************************************************************)
(* The median: the non-zero entries, sorted by insertion.                  *)
(***************************************************************************)
InsertSorted(s, v) ==
    SelectSeq(s, LAMBDA x : x <= v) \o <<v>> \o SelectSeq(s, LAMBDA x : x > v)

RingSeq(ring) == [k \in 1 .. RING_LEN |-> ring[k - 1]]

Sorted(ring) == FoldLeft(InsertSorted, <<>>, SelectSeq(RingSeq(ring), LAMBDA x : x # 0))

\* The upper median of an even number of prices.
V_ring_median(ring) == LET s == Sorted(ring) IN s[(Len(s) \div 2) + 1]

ring_median(ring) ==
    LET s == Sorted(ring)
        n == Len(s)
    IN  IF n % 2 = 1 THEN s[(n \div 2) + 1] ELSE s[n \div 2]

(***************************************************************************)
(* The instructions.                                                       *)
(***************************************************************************)
EmptyRing(x) == [i \in RingSlots |-> x]

\* A ring that holds one price.
Seed(p) == [EmptyRing(0) EXCEPT ![0] = p]
SeedOrigin(s, kind) == [EmptyRing(Nowhere) EXCEPT ![0] = <<s, kind>>]

Init ==
    /\ feed = [price |-> 0, source |-> Nowhere[1], source_kind |-> PumpBonding,
               graduated |-> FALSE, initialized |-> FALSE, ring_idx |-> 0,
               ring_buffer |-> EmptyRing(0)]
    /\ complete = {}
    /\ age = MAX_AGE
    /\ origin = EmptyRing(Nowhere)

InitializeFeed(s, kind) ==
    /\ ~feed.initialized
    /\ \E p \in FreshPrices(kind) :
           feed' = [price |-> p, source |-> s, source_kind |-> kind, graduated |-> FALSE,
                    initialized |-> TRUE, ring_idx |-> 1, ring_buffer |-> Seed(p)]
    /\ origin' = SeedOrigin(s, kind)
    /\ age' = 0
    /\ UNCHANGED complete

\* The price p is written at the cursor, which moves on, and the median is published.
Pushed(f, p) ==
    LET ring == [f.ring_buffer EXCEPT ![f.ring_idx] = p]
    IN  [f EXCEPT !.ring_buffer = ring,
                  !.ring_idx = (f.ring_idx + 1) % RING_LEN,
                  !.price = ring_median(ring)]

Push(s) ==
    /\ \E p \in FreshPrices(feed.source_kind) : feed' = Pushed(feed, p)
    /\ origin' = [origin EXCEPT ![feed.ring_idx] = <<s, feed.source_kind>>]
    /\ age' = 0
    /\ UNCHANGED complete

\* The source passed is not compared with the feed's.
V_UpdateGuard(s) ==
    /\ feed.initialized
    /\ ~(feed.source_kind = PumpBonding /\ feed.graduated)

UpdateGuard(s) ==
    /\ feed.initialized
    /\ feed.source = s
    /\ ~(feed.source_kind = PumpBonding /\ feed.graduated)

Update(s) == UpdateGuard(s) /\ Push(s)

Graduate(s) ==
    /\ feed.initialized
    /\ feed.source = s
    /\ ~feed.graduated
    /\ feed.source_kind = PumpBonding
    /\ s \in complete
    /\ feed' = [feed EXCEPT !.graduated = TRUE]
    /\ UNCHANGED <<complete, age, origin>>

\* Only feeds that quote a pool may be converted.
V_ConvertGuard == feed.initialized /\ feed.graduated /\ feed.source_kind # PumpBonding

ConvertGuard == feed.initialized /\ feed.graduated

ConvertSource(s, kind) ==
    /\ ConvertGuard
    /\ \E p \in FreshPrices(kind) :
           feed' = [feed EXCEPT !.source = s, !.source_kind = kind, !.price = p,
                                !.ring_buffer = Seed(p), !.ring_idx = 1]
    /\ origin' = SeedOrigin(s, kind)
    /\ age' = 0
    /\ UNCHANGED complete

(***************************************************************************)
(* The environment: slots pass and curves complete.                        *)
(***************************************************************************)
Tick ==
    /\ age < MAX_AGE
    /\ age' = age + 1
    /\ UNCHANGED <<feed, complete, origin>>

CurveCompletes(s) ==
    /\ s \notin complete
    /\ complete' = complete \cup {s}
    /\ UNCHANGED <<feed, age, origin>>

AnyInitialize == \E s \in Sources, kind \in SourceKind : InitializeFeed(s, kind)
AnyUpdate == \E s \in Sources : Update(s)
AnyGraduate == \E s \in Sources : Graduate(s)
AnyConvert == \E s \in Sources, kind \in SourceKind : ConvertSource(s, kind)
AnyCompletion == \E s \in Sources : CurveCompletes(s)

Next ==
    \/ AnyInitialize
    \/ AnyUpdate
    \/ AnyGraduate
    \/ AnyConvert
    \/ Tick
    \/ AnyCompletion

\* The keeper sends Update when the feed is stale (RefreshOracle), and nothing else: no
\* part of the repository sends Graduate or ConvertSource, so those get no fairness.  That
\* a source keeps a readable price is up to the programs it belongs to; module Keeper has
\* the feeds whose source does not.
Stale == age > STALE_SLOTS
RefreshOracle == Stale /\ AnyUpdate

Fairness == WF_vars(RefreshOracle)

Spec == Init /\ [][Next]_vars
FairSpec == Spec /\ Fairness

(***************************************************************************)
(* Properties.                                                             *)
(***************************************************************************)
\* The ring in the order it was written: from the cursor on if it has wrapped.
Window ==
    SelectSeq([k \in 1 .. RING_LEN |-> feed.ring_buffer[(feed.ring_idx + k - 1) % RING_LEN]],
              LAMBDA x : x # 0)

\* The feed names a curve that is gone: Update refuses it.
Dead == feed.graduated /\ feed.source_kind = PumpBonding

Abstract == INSTANCE PriceWindow WITH
    quoted <- <<feed.source, feed.source_kind>>, window <- Window, price <- feed.price,
    closed <- feed.graduated, dead <- Dead

\* The feed implements the price window: whatever wraps, resets or repeats, the published
\* price is the lower median of the last RING_LEN prices of the source quoted now, and a
\* feed that names a curve that is gone publishes nothing more until it is repointed
\* (process_update, ring_median; process_convert_source's reset of ring and cursor).
ImplementsWindow == Abstract!PWSpec

\* Every price still in the ring was read from the account the feed names, as the kind
\* the feed names: a median never mixes two sources (process_update's identity check,
\* process_convert_source's ring reset).
RingOfOneSource ==
    \A i \in RingSlots :
        IF feed.ring_buffer[i] = 0 THEN origin[i] = Nowhere
        ELSE origin[i] = <<feed.source, feed.source_kind>>

\* What is asked of outsiders: a feed that stays dead and stale is converted by someone.
OutsidersConvert == WF_vars(Stale /\ Dead /\ AnyConvert)

\* Then the keeper refreshes the feed for ever.  Where the curve is not gone the assumption
\* asks nothing, and the keeper does it alone, also with a pool that replaced a curve
\* (process_update's refusal of graduated feeds).  A dead feed comes back, every time:
\* ConvertSource is never refused for good, not even to a feed that was converted to a
\* second curve (process_convert_source).
RevivedByConversion == OutsidersConvert => ((feed.initialized /\ Stale) ~> ~Stale)
=============================================================================
