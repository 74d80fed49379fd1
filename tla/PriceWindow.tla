---------------------------- MODULE PriceWindow ----------------------------
(***************************************************************************)
(* What an oracle feed promises its readers, without rings or cursors: the *)
(* published price is the lower median of the last RING_LEN prices read    *)
(* from the source the feed quotes now; only a feed whose curve closed     *)
(* leaves its source, and then the window starts again; a closed curve     *)
(* that is quoted still keeps its last price.  Module Oracle is            *)
(* shown to implement this specification.                                  *)
(***************************************************************************)
EXTENDS Naturals, Sequences, FiniteSets

CONSTANTS RING_LEN   \* the size of the window
VARIABLES quoted,    \* what the feed quotes: a source and the way it is read
          window,    \* the last prices read from it, oldest first
          price,     \* the published price; 0 before the first
          closed,    \* the bonding curve the feed started on is complete
          dead       \* ... and the feed still quotes it, or another curve

pwvars == <<quoted, window, price, closed, dead>>

\* The lower median by counting: fewer than half of the window lies strictly below it,
\* and at least half is not above it.
LowerMedian(w) ==
    CHOOSE p \in {w[i] : i \in DOMAIN w} :
        /\ 2 * Cardinality({i \in DOMAIN w : w[i] < p}) < Len(w)
        /\ 2 * Cardinality({i \in DOMAIN w : w[i] <= p}) >= Len(w)

\* The window after one more price.
Slide(w, p) == IF Len(w) < RING_LEN THEN Append(w, p) ELSE Append(Tail(w), p)

PWInit == window = <<>> /\ price = 0 /\ ~closed /\ ~dead

\* The feed starts to quote a source, or leaves a closed one for another: nothing that
\* was read before counts any more.
Restart ==
    /\ window = <<>> \/ closed
    /\ Len(window') = 1
    /\ price' = window'[1]
    /\ price' > 0
    /\ closed' = closed /\ (dead' => closed)

\* One more price from the same source, unless it is dead.
Observe ==
    /\ window # <<>> /\ ~dead
    /\ window' = Slide(window, window'[Len(window')])
    /\ price' = LowerMedian(window')
    /\ price' > 0
    /\ UNCHANGED <<quoted, closed, dead>>

\* The curve is complete; its last price stands until the feed leaves it.
Close ==
    /\ window # <<>>
    /\ closed' /\ dead'
    /\ UNCHANGED <<quoted, window, price>>

PWNext == Restart \/ Observe \/ Close

PWSpec == PWInit /\ [][PWNext]_pwvars
=============================================================================
