---------------------------- MODULE OracleProofs ----------------------------
(***************************************************************************)
(* Proofs about Oracle, for any number of sources, any length of the ring  *)
(* and whatever the source accounts hold at each read.                     *)
(***************************************************************************)
EXTENDS Oracle, TLAPS

\* The fields of the feed that decide where prices go.  The published price is left
\* open: it is a function of the ring.
FeedType ==
    /\ feed = [price |-> feed.price, source |-> feed.source,
               source_kind |-> feed.source_kind, graduated |-> feed.graduated,
               initialized |-> feed.initialized, ring_idx |-> feed.ring_idx,
               ring_buffer |-> feed.ring_buffer]
    /\ feed.ring_idx \in RingSlots
    /\ feed.ring_buffer = [i \in RingSlots |-> feed.ring_buffer[i]]
    /\ origin = [i \in RingSlots |-> origin[i]]

OracleInv == FeedType /\ RingOfOneSource

\* The first two slots of the ring exist, and the cursor stays in it.
LEMMA Cursor ==
    0 \in RingSlots /\ 1 \in RingSlots /\ \A i \in RingSlots : (i + 1) % RING_LEN \in RingSlots
  BY OracleAssumption DEF RingSlots

\* A feed starts with an empty ring.
LEMMA OracleStarts == ASSUME Init PROVE OracleInv
  BY Cursor DEF Init, OracleInv, FeedType, RingOfOneSource, EmptyRing

\* A restart drops every earlier price together with its origin.
LEMMA SeedKeeps ==
    ASSUME NEW s, NEW kind, NEW p \in FreshPrices(kind),
           feed' = [price |-> p, source |-> s, source_kind |-> kind,
                    graduated |-> feed'.graduated, initialized |-> feed'.initialized,
                    ring_idx |-> 1, ring_buffer |-> Seed(p)],
           origin' = SeedOrigin(s, kind)
    PROVE  OracleInv'
<1>1. p # 0
  BY DEF FreshPrices
<1>2. FeedType'
  BY Cursor DEF FeedType, Seed, SeedOrigin, EmptyRing
<1>3. RingOfOneSource'
  BY <1>1, Cursor DEF RingOfOneSource, Seed, SeedOrigin, EmptyRing
<1>4. QED
  BY <1>2, <1>3 DEF OracleInv

\* A push writes one price and its origin, of the source the feed names.
LEMMA PushKeeps ==
    ASSUME OracleInv, NEW s, feed.source = s, Push(s)
    PROVE  OracleInv'
<1>1. PICK p \in FreshPrices(feed.source_kind) : feed' = Pushed(feed, p)
  BY DEF Push
<1>2. p # 0
  BY DEF FreshPrices
<1>3. PICK m : m = ring_median([feed.ring_buffer EXCEPT ![feed.ring_idx] = p])
  OBVIOUS
<1>4. feed' = [feed EXCEPT !.ring_buffer = [feed.ring_buffer EXCEPT ![feed.ring_idx] = p],
                           !.ring_idx = (feed.ring_idx + 1) % RING_LEN, !.price = m]
  BY <1>1, <1>3 DEF Pushed
<1>5. /\ feed' = [price |-> m, source |-> feed.source, source_kind |-> feed.source_kind,
                  graduated |-> feed.graduated, initialized |-> feed.initialized,
                  ring_idx |-> (feed.ring_idx + 1) % RING_LEN,
                  ring_buffer |-> [feed.ring_buffer EXCEPT ![feed.ring_idx] = p]]
      /\ origin' = [origin EXCEPT ![feed.ring_idx] = <<feed.source, feed.source_kind>>]
  BY <1>4 DEF OracleInv, FeedType, Push
<1>6. FeedType'
  BY <1>5, Cursor DEF OracleInv, FeedType
<1>7. \A i \in RingSlots :
          /\ feed'.ring_buffer[i] = IF i = feed.ring_idx THEN p ELSE feed.ring_buffer[i]
          /\ origin'[i] = IF i = feed.ring_idx THEN <<feed.source, feed.source_kind>>
                          ELSE origin[i]
  BY <1>5 DEF OracleInv, FeedType
<1>8. feed'.source = feed.source /\ feed'.source_kind = feed.source_kind
  BY <1>5
<1>9. RingOfOneSource'
  BY <1>2, <1>7, <1>8 DEF OracleInv, RingOfOneSource
<1>10. QED
  BY <1>6, <1>9 DEF OracleInv

\* Every step keeps the invariant.
LEMMA OracleStep == ASSUME OracleInv, [Next]_vars PROVE OracleInv'
<1>1. CASE UNCHANGED <<feed, origin>>
  BY <1>1 DEF OracleInv, FeedType, RingOfOneSource
<1>2. ASSUME NEW s \in Sources, NEW kind \in SourceKind, InitializeFeed(s, kind)
      PROVE  OracleInv'
  <2>1. PICK p \in FreshPrices(kind) :
           feed' = [price |-> p, source |-> s, source_kind |-> kind, graduated |-> FALSE,
                    initialized |-> TRUE, ring_idx |-> 1, ring_buffer |-> Seed(p)]
    BY <1>2 DEF InitializeFeed
  <2>2. QED
    BY <1>2, <2>1, SeedKeeps DEF InitializeFeed
<1>3. ASSUME NEW s \in Sources, Update(s)
      PROVE  OracleInv'
  BY <1>3, PushKeeps DEF Update, UpdateGuard
<1>4. ASSUME NEW s \in Sources, Graduate(s)
      PROVE  OracleInv'
  <2>1. feed' = [feed EXCEPT !.graduated = TRUE] /\ origin' = origin
    BY <1>4 DEF Graduate
  <2>2. feed' = [price |-> feed.price, source |-> feed.source,
                 source_kind |-> feed.source_kind, graduated |-> TRUE,
                 initialized |-> feed.initialized, ring_idx |-> feed.ring_idx,
                 ring_buffer |-> feed.ring_buffer]
    BY <2>1 DEF OracleInv, FeedType
  <2>3. FeedType' /\ RingOfOneSource'
    BY <2>1, <2>2 DEF OracleInv, FeedType, RingOfOneSource
  <2>4. QED
    BY <2>3 DEF OracleInv
<1>5. ASSUME NEW s \in Sources, NEW kind \in SourceKind, ConvertSource(s, kind)
      PROVE  OracleInv'
  <2>1. PICK p \in FreshPrices(kind) :
           feed' = [feed EXCEPT !.source = s, !.source_kind = kind, !.price = p,
                                !.ring_buffer = Seed(p), !.ring_idx = 1]
    BY <1>5 DEF ConvertSource
  <2>2. feed' = [price |-> p, source |-> s, source_kind |-> kind,
                 graduated |-> feed.graduated, initialized |-> feed.initialized,
                 ring_idx |-> 1, ring_buffer |-> Seed(p)]
    BY <2>1 DEF OracleInv, FeedType
  <2>3. QED
    BY <1>5, <2>2, SeedKeeps DEF ConvertSource
<1>6. QED
  BY <1>1, <1>2, <1>3, <1>4, <1>5
     DEF vars, Next, AnyInitialize, AnyUpdate, AnyGraduate, AnyConvert, AnyCompletion,
         Tick, CurveCompletes

(***************************************************************************)
(* A median never mixes two sources: in every state each price in the ring *)
(* was read from the account the feed names, as the kind it names, however *)
(* updates, graduations and conversions interleave (process_update's       *)
(* identity check, process_convert_source's ring reset).                   *)
(***************************************************************************)
THEOREM RingIsOfOneSource == Spec => []RingOfOneSource
<1>1. Init => OracleInv
  BY OracleStarts
<1>2. OracleInv /\ [Next]_vars => OracleInv'
  BY OracleStep
<1>3. OracleInv => RingOfOneSource
  BY DEF OracleInv
<1>4. QED
  BY <1>1, <1>2, <1>3, PTL DEF Spec
=============================================================================
