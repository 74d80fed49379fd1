-------------------------------- MODULE Slab --------------------------------
(***************************************************************************)
(* The account slab of the risk engine (src/src/percolator.rs): the bitmap *)
(* of used slots, the doubly linked list that threads the free slots, the  *)
(* two account counters and the cursor of the dust collector.              *)
(*                                                                         *)
(* The contents of an account are abstracted to one bit: an account in     *)
(* `dust' is flat, clean and below min_initial_deposit, so that            *)
(* garbage_collect_dust and reclaim_empty_account may recycle it.          *)
(***************************************************************************)
EXTENDS Integers, FiniteSets

CONSTANTS
    MAX_ACCOUNTS,       \* slots compiled into the slab
    CfgMaxAccounts,     \* params.max_accounts: the slots this market may use
    MAX_MATERIALIZED_ACCOUNTS,
    ACCOUNTS_PER_CRANK, \* slots one collection visits at most
    GC_CLOSE_BUDGET     \* slots one collection frees at most

ASSUME SlabAssumption ==
    /\ MAX_ACCOUNTS \in Nat \ {0}
    /\ CfgMaxAccounts \in 1..MAX_ACCOUNTS
    /\ MAX_MATERIALIZED_ACCOUNTS \in Nat
    /\ ACCOUNTS_PER_CRANK \in Nat \ {0}
    /\ GC_CLOSE_BUDGET \in Nat \ {0}

Slots == 0..(MAX_ACCOUNTS - 1)

\* The null link, u16::MAX in the code.
NIL == -1

Links == Slots \cup {NIL}

VARIABLES
    used,                        \* the bitmap
    next_free, prev_free,        \* the links; meaningful for free slots only
    free_head,
    num_used_accounts,
    materialized_account_count,
    gc_cursor,
    dust,                        \* used slots that may be recycled
    corrupt                      \* some operation returned CorruptState

lists == <<next_free, prev_free, free_head>>
counts == <<num_used_accounts, materialized_account_count>>
vars == <<used, lists, counts, gc_cursor, dust, corrupt>>

(***************************************************************************)
(* A definition named V_... is a variant of the definition after it with   *)
(* one plausible slip.  No specification uses the variants; they show that *)
(* the properties notice such a slip.                                      *)
(***************************************************************************)
V_Init ==  \* the free list is threaded downwards
    /\ used = {}
    /\ next_free = [i \in Slots |-> i - 1]
    /\ prev_free = [i \in Slots |-> IF i = MAX_ACCOUNTS - 1 THEN NIL ELSE i + 1]
    /\ free_head = MAX_ACCOUNTS - 1
    /\ num_used_accounts = 0
    /\ materialized_account_count = 0
    /\ gc_cursor = 0
    /\ dust = {}
    /\ corrupt = FALSE

(***************************************************************************)
(* init_in_place: every slot free, in increasing order.                    *)
(***************************************************************************)
Init ==
    /\ used = {}
    /\ next_free = [i \in Slots |-> IF i = MAX_ACCOUNTS - 1 THEN NIL ELSE i + 1]
    /\ prev_free = [i \in Slots |-> IF i = 0 THEN NIL ELSE i - 1]
    /\ free_head = 0
    /\ num_used_accounts = 0
    /\ materialized_account_count = 0
    /\ gc_cursor = 0
    /\ dust = {}
    /\ corrupt = FALSE

(***************************************************************************)
(* materialize_at.  The link checks come before the unlink; when one of    *)
(* them fails the call returns CorruptState and changes nothing.           *)
(***************************************************************************)
LinksAgree(i) ==
    /\ IF prev_free[i] = NIL
       THEN free_head = i
       ELSE next_free[prev_free[i]] = i /\ prev_free[i] \notin used
    /\ next_free[i] # NIL => prev_free[next_free[i]] = i /\ next_free[i] \notin used

V_UnlinkNext(i) == [next_free EXCEPT ![i] = NIL]  \* predecessor not relinked

UnlinkNext(i) ==
    [j \in Slots |-> CASE j = i            -> NIL
                       [] j = prev_free[i] -> next_free[i]
                       [] OTHER            -> next_free[j]]

UnlinkPrev(i) ==
    [j \in Slots |-> CASE j = i            -> NIL
                       [] j = next_free[i] -> prev_free[i]
                       [] OTHER            -> prev_free[j]]

MaterializeAllowed(i) ==
    /\ i < CfgMaxAccounts
    /\ num_used_accounts < CfgMaxAccounts
    /\ materialized_account_count + 1 <= MAX_MATERIALIZED_ACCOUNTS
    /\ i \notin used

Materialize(i) ==
    /\ MaterializeAllowed(i)
    /\ IF LinksAgree(i)
       THEN /\ free_head' = IF prev_free[i] = NIL THEN next_free[i] ELSE free_head
            /\ next_free' = UnlinkNext(i)
            /\ prev_free' = UnlinkPrev(i)
            /\ used' = used \cup {i}
            /\ num_used_accounts' = num_used_accounts + 1
            /\ materialized_account_count' = materialized_account_count + 1
            /\ UNCHANGED corrupt
       ELSE /\ corrupt' = TRUE
            /\ UNCHANGED <<used, lists, counts>>
    /\ UNCHANGED <<gc_cursor, dust>>

(***************************************************************************)
(* free_slot, for the slots q[1], ..., q[n] one after the other: each one  *)
(* is pushed on the head of the list.  Freeing a slot that is not used     *)
(* returns CorruptState, as does a counter that would go below zero.       *)
(***************************************************************************)
V_PushNext(q, n) ==  \* the head is read once, before the loop
    [j \in Slots |-> IF \E k \in 1..n : q[k] = j THEN free_head ELSE next_free[j]]

PushNext(q, n) ==
    [j \in Slots |->
        IF \E k \in 1..n : q[k] = j
        THEN LET k == CHOOSE m \in 1..n : q[m] = j
             IN  IF k = 1 THEN free_head ELSE q[k - 1]
        ELSE next_free[j]]

V_PushPrev(q, n) ==  \* the old head is not told its new predecessor
    [j \in Slots |->
        IF \E k \in 1..n : q[k] = j
        THEN LET k == CHOOSE m \in 1..n : q[m] = j
             IN  IF k = n THEN NIL ELSE q[k + 1]
        ELSE prev_free[j]]

PushPrev(q, n) ==
    [j \in Slots |->
        IF \E k \in 1..n : q[k] = j
        THEN LET k == CHOOSE m \in 1..n : q[m] = j
             IN  IF k = n THEN NIL ELSE q[k + 1]
        ELSE IF j = free_head /\ n > 0 THEN q[1] ELSE prev_free[j]]

FreeAllowed(q, n) ==
    /\ \A k \in 1..n : q[k] \in used
    /\ num_used_accounts >= n
    /\ materialized_account_count >= n

V_ReleaseCounts(n) ==  \* one decrement for the whole batch
    /\ num_used_accounts' = IF n > 0 THEN num_used_accounts - 1 ELSE num_used_accounts
    /\ materialized_account_count' = materialized_account_count - n

ReleaseCounts(n) ==
    /\ num_used_accounts' = num_used_accounts - n
    /\ materialized_account_count' = materialized_account_count - n

FreeSlots(q, n) ==
    IF FreeAllowed(q, n)
    THEN /\ next_free' = PushNext(q, n)
         /\ prev_free' = PushPrev(q, n)
         /\ free_head' = IF n > 0 THEN q[n] ELSE free_head
         /\ used' = used \ {q[k] : k \in 1..n}
         /\ dust' = dust \ {q[k] : k \in 1..n}
         /\ ReleaseCounts(n)
         /\ UNCHANGED corrupt
    ELSE /\ corrupt' = TRUE
         /\ UNCHANGED <<used, lists, counts, dust>>

(* close_account and close_resolved_terminal: the owner's account, emptied *)
(* by the caller, is freed.  reclaim_empty_account frees a dust account.   *)
Close(i) ==
    /\ i \in used
    /\ FreeSlots([k \in 1..1 |-> i], 1)
    /\ UNCHANGED gc_cursor

Reclaim(i) ==
    /\ i \in dust
    /\ FreeSlots([k \in 1..1 |-> i], 1)
    /\ UNCHANGED gc_cursor

(***************************************************************************)
(* garbage_collect_dust.  The scan visits offsets 0, 1, ... from the       *)
(* cursor; it stops after max_scan slots, or as soon as the close budget   *)
(* is used up.  The cursor moves by the number of offsets visited.         *)
(***************************************************************************)
MaxScan == IF ACCOUNTS_PER_CRANK < MAX_ACCOUNTS THEN ACCOUNTS_PER_CRANK ELSE MAX_ACCOUNTS

ScanSlot(offset) == (gc_cursor + offset) % MAX_ACCOUNTS

DustBefore(offset) == {o \in 0..(offset - 1) : ScanSlot(o) \in dust}

Visited == {o \in 0..(MaxScan - 1) : Cardinality(DustBefore(o)) < GC_CLOSE_BUDGET}

\* q lists the dust slots visited, in the order of the scan.
IsScanOrder(q, n) ==
    LET hits == {o \in Visited : ScanSlot(o) \in dust}
    IN  \E at \in [1..n -> hits] :
            /\ \A k \in 1..n : q[k] = ScanSlot(at[k])
            /\ \A j, k \in 1..n : j < k => at[j] < at[k]
            /\ \A o \in hits : \E k \in 1..n : at[k] = o

V_NextCursor ==  \* moves by the full scan length after an early stop too
    (gc_cursor + MaxScan) % MAX_ACCOUNTS

NextCursor == (gc_cursor + Cardinality(Visited)) % MAX_ACCOUNTS

GarbageCollect ==
    \E n \in 0..GC_CLOSE_BUDGET : \E q \in [1..n -> dust] :
        /\ IsScanOrder(q, n)
        /\ FreeSlots(q, n)
        /\ gc_cursor' = NextCursor

(***************************************************************************)
(* What traders do to an account: it runs out of capital with no position  *)
(* (withdrawal, losses, fees), or a deposit refills it.                    *)
(***************************************************************************)
BecomeDust(i) ==
    /\ i \in used \ dust
    /\ dust' = dust \cup {i}
    /\ UNCHANGED <<used, lists, counts, gc_cursor, corrupt>>

Refill(i) ==
    /\ i \in dust
    /\ dust' = dust \ {i}
    /\ UNCHANGED <<used, lists, counts, gc_cursor, corrupt>>

Next ==
    \/ \E i \in Slots : Materialize(i)
    \/ \E i \in Slots : Close(i)
    \/ \E i \in Slots : Reclaim(i)
    \/ \E i \in Slots : BecomeDust(i)
    \/ \E i \in Slots : Refill(i)
    \/ GarbageCollect

Spec == Init /\ [][Next]_vars

(***************************************************************************)
(* What garbage_collect_dust promises a caller that keeps calling it: the  *)
(* call never fails, so such a caller makes collection weakly fair.  (The  *)
(* program collects with a loop of its own, see ProgramSlab.)              *)
(***************************************************************************)
FairSpec == Spec /\ WF_vars(GarbageCollect)

-----------------------------------------------------------------------------
(* Properties *)

\* Every variable keeps the shape of its field of RiskEngine.
TypeOK ==
    /\ used \subseteq Slots
    /\ next_free \in [Slots -> Links]
    /\ prev_free \in [Slots -> Links]
    /\ free_head \in Links
    /\ num_used_accounts \in Nat
    /\ materialized_account_count \in Nat
    /\ gc_cursor \in Slots
    /\ dust \subseteq used
    /\ corrupt \in BOOLEAN

\* The links of the free slots form a doubly linked structure: neighbours of
\* a free slot are free and point back, and only the head has no predecessor.
LinksConsistent ==
    /\ free_head # NIL => free_head \notin used /\ prev_free[free_head] = NIL
    /\ \A i \in Slots \ used :
        /\ prev_free[i] = NIL => free_head = i
        /\ prev_free[i] # NIL => prev_free[i] \notin used /\ next_free[prev_free[i]] = i
        /\ next_free[i] # NIL => next_free[i] \notin used /\ prev_free[next_free[i]] = i

\* No slot at or above params.max_accounts is ever used, and the free list
\* never leads from such a slot back into the market's range.
RangeSeparated ==
    /\ \A i \in used : i < CfgMaxAccounts
    /\ \A i \in Slots \ used :
        i >= CfgMaxAccounts /\ next_free[i] # NIL => next_free[i] >= CfgMaxAccounts

\* Both account counters equal the number of bits set in the bitmap, so that
\* capacity checks and the empty-market test see the real population.
CountsExact ==
    /\ num_used_accounts = Cardinality(used)
    /\ materialized_account_count = Cardinality(used)

\* No call of materialize_at or free_slot finds the slab corrupt.
NeverCorrupt == ~corrupt

\* The n-th slot of the free list.
Walk[n \in 0..MAX_ACCOUNTS] ==
    IF n = 0 THEN free_head
    ELSE IF Walk[n - 1] = NIL THEN NIL ELSE next_free[Walk[n - 1]]

\* No slot is leaked and the list has no cycle: following next_free from
\* free_head meets every free slot and then ends.
NoLeak ==
    /\ Walk[MAX_ACCOUNTS] = NIL
    /\ {Walk[n] : n \in 0..MAX_ACCOUNTS} \ {NIL} = Slots \ used

\* The program claims free_head for a new depositor: as long as the market
\* has a slot left, that head is one materialize_at accepts.
NeverStuck ==
    num_used_accounts < CfgMaxAccounts => free_head \in 0..(CfgMaxAccounts - 1)

\* garbage_collect_dust reaches every account that stays dust, whatever the
\* cursor, the scan length and the close budget are.
DustCollected == \A i \in Slots : i \in dust ~> i \notin dust
=============================================================================
