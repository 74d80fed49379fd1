----------------------------- MODULE SlabProofs -----------------------------
(***************************************************************************)
(* Proofs about Slab, for every size of the slab, every configured market  *)
(* size and every budget of the collector.                                 *)
(***************************************************************************)
EXTENDS Slab, FoldLemmas

(***************************************************************************)
(* The inductive invariant.  LinksConsistent alone admits a cycle of free  *)
(* slots off the list; Acyclic excludes it with a rank that falls from a   *)
(* slot to its predecessor.                                                *)
(***************************************************************************)
Acyclic ==
    \E rank \in [Slots -> Nat] :
        \A i \in Slots \ used : prev_free[i] # NIL => rank[prev_free[i]] < rank[i]

SlabInv ==
    /\ TypeOK
    /\ LinksConsistent
    /\ RangeSeparated
    /\ CountsExact
    /\ NeverCorrupt
    /\ Acyclic

-----------------------------------------------------------------------------
(* Arithmetic of the ring of slots. *)

\* Adding an offset shorter than the slab wraps at most once.
LEMMA RingOffset ==
    ASSUME NEW c \in Slots, NEW o \in Slots
    PROVE  (c + o) % MAX_ACCOUNTS =
               IF c + o < MAX_ACCOUNTS THEN c + o ELSE c + o - MAX_ACCOUNTS
  BY SlabAssumption DEF Slots

\* A scan never visits a slot twice.
LEMMA RingInjective ==
    ASSUME NEW c \in Slots, NEW o \in Slots, NEW p \in Slots,
           (c + o) % MAX_ACCOUNTS = (c + p) % MAX_ACCOUNTS
    PROVE  o = p
<1>1. (IF c + o < MAX_ACCOUNTS THEN c + o ELSE c + o - MAX_ACCOUNTS)
        = (IF c + p < MAX_ACCOUNTS THEN c + p ELSE c + p - MAX_ACCOUNTS)
  BY RingOffset
<1>2. QED
  BY <1>1, SlabAssumption DEF Slots

\* Different offsets of the scan are different slots.
LEMMA ScanInjective ==
    ASSUME gc_cursor \in Slots, NEW o \in 0..(MaxScan - 1), NEW p \in 0..(MaxScan - 1),
           ScanSlot(o) = ScanSlot(p)
    PROVE  o = p
<1>1. o \in Slots /\ p \in Slots
  BY SlabAssumption DEF MaxScan, Slots
<1>2. QED
  BY <1>1, RingInjective DEF ScanSlot

\* Used slots are finitely many.
LEMMA UsedFinite == ASSUME TypeOK PROVE IsFiniteSet(used) /\ Cardinality(used) \in Nat
<1>1. IsFiniteSet(Slots)
  BY FS_Interval, SlabAssumption DEF Slots
<1>2. QED
  BY <1>1, FS_Subset, FS_CardinalityType DEF TypeOK

\* A list of n distinct used slots has n members and leaves the rest.
LEMMA BatchCardinality ==
    ASSUME NEW n \in Nat, NEW q \in [1..n -> used], IsFiniteSet(used),
           \A j, k \in 1..n : q[j] = q[k] => j = k
    PROVE  /\ Cardinality(used \ {q[k] : k \in 1..n}) = Cardinality(used) - n
           /\ Cardinality(used) >= n
<1> DEFINE F == {q[k] : k \in 1..n}
<1>1. IsFiniteSet(1..n) /\ Cardinality(1..n) = n
  BY FS_Interval
<1>2. q \in Bijection(1..n, F)
  BY DEF Bijection, Injection, Surjection, IsInjective
<1>3. ExistsBijection(1..n, F)
  BY <1>2 DEF ExistsBijection
<1>4. IsFiniteSet(F) /\ Cardinality(F) = n
  BY <1>1, <1>3, FS_Bijection
<1>5. F \subseteq used /\ used \cap F = F
  OBVIOUS
<1>6. Cardinality(F) <= Cardinality(used)
  BY <1>5, FS_Subset
<1>7. Cardinality(used) \in Nat
  BY FS_CardinalityType
<1>8. Cardinality(used \ F) = Cardinality(used) - Cardinality(used \cap F)
  BY FS_Difference
<1>9. QED
  BY <1>4, <1>5, <1>6, <1>7, <1>8

-----------------------------------------------------------------------------
\* The empty slab satisfies the invariant.
LEMMA InitInv == Init => SlabInv
<1> SUFFICES ASSUME Init PROVE SlabInv
  OBVIOUS
<1>1. TypeOK
  <2>1. next_free \in [Slots -> Links] /\ prev_free \in [Slots -> Links]
    BY SlabAssumption DEF Init, Slots, Links, NIL
  <2>2. free_head \in Links /\ gc_cursor \in Slots
    BY SlabAssumption DEF Init, Slots, Links
  <2>3. QED
    BY <2>1, <2>2 DEF Init, TypeOK
<1>2. LinksConsistent
  BY SlabAssumption DEF Init, LinksConsistent, Slots, NIL
<1>3. RangeSeparated
  BY SlabAssumption DEF Init, RangeSeparated, Slots, NIL
<1>4. CountsExact /\ NeverCorrupt
  BY FS_EmptySet DEF Init, CountsExact, NeverCorrupt
<1>5. Acyclic
  <2> DEFINE rank == [i \in Slots |-> i]
  <2>1. rank \in [Slots -> Nat]
    BY SlabAssumption DEF Slots
  <2>2. \A i \in Slots \ used : prev_free[i] # NIL => rank[prev_free[i]] < rank[i]
    BY SlabAssumption DEF Init, Slots, NIL
  <2>3. QED
    BY <2>1, <2>2 DEF Acyclic
<1>6. QED
  BY <1>1, <1>2, <1>3, <1>4, <1>5 DEF SlabInv

\* materialize_at on an unused slot always passes its link checks.
LEMMA LinksAgreeForFree ==
    ASSUME TypeOK, LinksConsistent, NEW i \in Slots \ used
    PROVE  LinksAgree(i)
  BY DEF LinksConsistent, LinksAgree

\* materialize_at, behind either of its guards, keeps the invariant.
LEMMA MaterializeInv ==
    ASSUME SlabInv, NEW i \in Slots, Materialize(i)
    PROVE  SlabInv'
<1>1. i \notin used /\ i < CfgMaxAccounts
  BY DEF Materialize, MaterializeAllowed
<1>2. LinksAgree(i)
  BY <1>1, LinksAgreeForFree DEF SlabInv
<1>3. /\ free_head' = IF prev_free[i] = NIL THEN next_free[i] ELSE free_head
      /\ next_free' = UnlinkNext(i)
      /\ prev_free' = UnlinkPrev(i)
      /\ used' = used \cup {i}
      /\ num_used_accounts' = num_used_accounts + 1
      /\ materialized_account_count' = materialized_account_count + 1
      /\ corrupt' = corrupt
      /\ gc_cursor' = gc_cursor
      /\ dust' = dust
  BY <1>2 DEF Materialize
<1>4. TypeOK'
  BY <1>3 DEF SlabInv, TypeOK, UnlinkNext, UnlinkPrev, Links
<1>5. LinksConsistent'
  <2> USE DEF SlabInv, TypeOK, LinksConsistent, UnlinkNext, UnlinkPrev, Links, Slots, NIL
  <2>1. free_head' # NIL => free_head' \notin used' /\ prev_free'[free_head'] = NIL
    BY <1>1, <1>3
  <2>2. ASSUME NEW j \in Slots \ used'
        PROVE  prev_free'[j] = NIL => free_head' = j
    BY <1>1, <1>3, <2>2
  <2>3. ASSUME NEW j \in Slots \ used', prev_free'[j] # NIL
        PROVE  prev_free'[j] \notin used' /\ next_free'[prev_free'[j]] = j
    BY <1>1, <1>3, <2>3
  <2>4. ASSUME NEW j \in Slots \ used', next_free'[j] # NIL
        PROVE  next_free'[j] \notin used' /\ prev_free'[next_free'[j]] = j
    BY <1>1, <1>3, <2>4
  <2>5. QED
    BY <2>1, <2>2, <2>3, <2>4
<1>6. RangeSeparated'
  BY <1>1, <1>2, <1>3 DEF SlabInv, TypeOK, RangeSeparated, LinksConsistent, LinksAgree, UnlinkNext, Links, Slots, NIL
<1>7. CountsExact' /\ NeverCorrupt'
  BY <1>1, <1>3, UsedFinite, FS_AddElement DEF SlabInv, CountsExact, NeverCorrupt
<1>8. Acyclic'
  <2>1. PICK rank \in [Slots -> Nat] :
          \A j \in Slots \ used : prev_free[j] # NIL => rank[prev_free[j]] < rank[j]
    BY DEF SlabInv, Acyclic
  <2>2. ASSUME NEW j \in Slots \ used', prev_free'[j] # NIL
        PROVE  rank[prev_free'[j]] < rank[j]
    <3>1. CASE j = next_free[i]
      <4>1. prev_free[j] = i /\ prev_free'[j] = prev_free[i]
        BY <3>1, <1>1, <1>2, <1>3, <2>2 DEF LinksAgree, UnlinkPrev, Slots, NIL
      <4>2. rank[i] < rank[j] /\ rank[prev_free[i]] < rank[i]
        BY <4>1, <1>1, <1>3, <2>1, <2>2 DEF Slots, NIL
      <4>3. rank[i] \in Nat /\ rank[j] \in Nat /\ rank[prev_free[i]] \in Nat
        BY <2>1, <2>2, <4>1 DEF SlabInv, TypeOK, Links
      <4>4. QED
        BY <4>1, <4>2, <4>3
    <3>2. CASE j # next_free[i]
      BY <3>2, <1>3, <2>1, <2>2 DEF UnlinkPrev
    <3>3. QED
      BY <3>1, <3>2
  <2>3. QED
    BY <2>2 DEF Acyclic
<1>9. QED
  BY <1>4, <1>5, <1>6, <1>7, <1>8 DEF SlabInv

\* What the links of the slots freed, and of the others, become.
LEMMA PushLinks ==
    ASSUME NEW n \in Nat, NEW q \in [1..n -> Slots],
           \A j, k \in 1..n : q[j] = q[k] => j = k
    PROVE  /\ \A k \in 1..n :
                /\ PushNext(q, n)[q[k]] = IF k = 1 THEN free_head ELSE q[k - 1]
                /\ PushPrev(q, n)[q[k]] = IF k = n THEN NIL ELSE q[k + 1]
           /\ \A j \in Slots : (\A k \in 1..n : q[k] # j) =>
                /\ PushNext(q, n)[j] = next_free[j]
                /\ PushPrev(q, n)[j] = IF j = free_head /\ n > 0 THEN q[1] ELSE prev_free[j]
<1>1. ASSUME NEW k \in 1..n
      PROVE  /\ PushNext(q, n)[q[k]] = IF k = 1 THEN free_head ELSE q[k - 1]
             /\ PushPrev(q, n)[q[k]] = IF k = n THEN NIL ELSE q[k + 1]
  <2>1. (CHOOSE m \in 1..n : q[m] = q[k]) = k
    OBVIOUS
  <2>2. q[k] \in Slots /\ \E m \in 1..n : q[m] = q[k]
    OBVIOUS
  <2>3. QED
    BY <2>1, <2>2 DEF PushNext, PushPrev
<1>2. ASSUME NEW j \in Slots, \A k \in 1..n : q[k] # j
      PROVE  /\ PushNext(q, n)[j] = next_free[j]
             /\ PushPrev(q, n)[j] = IF j = free_head /\ n > 0 THEN q[1] ELSE prev_free[j]
  BY <1>2 DEF PushNext, PushPrev
<1>3. QED
  BY <1>1, <1>2

\* free_slot keeps the invariant.
LEMMA FreeInv ==
    ASSUME SlabInv, NEW n \in Nat, NEW q \in [1..n -> used],
           \A j, k \in 1..n : q[j] = q[k] => j = k,
           FreeSlots(q, n), gc_cursor' \in Slots
    PROVE  SlabInv'
<1>1. IsFiniteSet(used) /\ Cardinality(used) \in Nat
  BY UsedFinite DEF SlabInv
<1>2. /\ Cardinality(used \ {q[k] : k \in 1..n}) = Cardinality(used) - n
      /\ Cardinality(used) >= n
  BY <1>1, BatchCardinality
<1>3. FreeAllowed(q, n)
  BY <1>2 DEF SlabInv, CountsExact, FreeAllowed
<1>4. /\ next_free' = PushNext(q, n)
      /\ prev_free' = PushPrev(q, n)
      /\ free_head' = IF n > 0 THEN q[n] ELSE free_head
      /\ used' = used \ {q[k] : k \in 1..n}
      /\ dust' = dust \ {q[k] : k \in 1..n}
      /\ num_used_accounts' = num_used_accounts - n
      /\ materialized_account_count' = materialized_account_count - n
      /\ corrupt' = corrupt
  BY <1>3 DEF FreeSlots, ReleaseCounts
<1>5. q \in [1..n -> Slots]
  BY DEF SlabInv, TypeOK
<1>6. /\ \A k \in 1..n :
            /\ next_free'[q[k]] = IF k = 1 THEN free_head ELSE q[k - 1]
            /\ prev_free'[q[k]] = IF k = n THEN NIL ELSE q[k + 1]
      /\ \A j \in Slots : (\A k \in 1..n : q[k] # j) =>
            /\ next_free'[j] = next_free[j]
            /\ prev_free'[j] = IF j = free_head /\ n > 0 THEN q[1] ELSE prev_free[j]
  BY <1>4, <1>5, PushLinks
<1>7. \A j \in Slots \ used' : j \notin used \/ \E k \in 1..n : q[k] = j
  BY <1>4
<1>8. \A j \in Slots \ used : \A k \in 1..n : q[k] # j
  OBVIOUS
<1>9. TypeOK'
  <2>1. next_free' \in [Slots -> Links] /\ prev_free' \in [Slots -> Links]
    <3>1. \A j \in Slots : next_free'[j] \in Links /\ prev_free'[j] \in Links
      BY <1>5, <1>6 DEF SlabInv, TypeOK, Links
    <3>2. QED
      BY <3>1, <1>4 DEF PushNext, PushPrev
  <2>2. free_head' \in Links
    BY <1>4, <1>5 DEF SlabInv, TypeOK, Links
  <2>3. num_used_accounts' \in Nat /\ materialized_account_count' \in Nat
    BY <1>2, <1>4 DEF SlabInv, TypeOK, CountsExact
  <2>4. QED
    BY <2>1, <2>2, <2>3, <1>4 DEF SlabInv, TypeOK
<1>10. LinksConsistent'
  <2> USE DEF SlabInv, TypeOK, LinksConsistent, Links, Slots, NIL
  <2>1. free_head' # NIL => free_head' \notin used' /\ prev_free'[free_head'] = NIL
    BY <1>4, <1>5, <1>6, <1>8
  <2>2. ASSUME NEW j \in Slots \ used'
        PROVE  /\ prev_free'[j] = NIL => free_head' = j
               /\ prev_free'[j] # NIL =>
                    prev_free'[j] \notin used' /\ next_free'[prev_free'[j]] = j
               /\ next_free'[j] # NIL =>
                    next_free'[j] \notin used' /\ prev_free'[next_free'[j]] = j
    <3>1. CASE j \notin used
      <4>1. /\ next_free'[j] = next_free[j]
            /\ prev_free'[j] = IF j = free_head /\ n > 0 THEN q[1] ELSE prev_free[j]
        BY <3>1, <1>6, <1>8
      <4>2. CASE j = free_head /\ n > 0
        <5>1. 1 \in 1..n /\ q[1] \in Slots /\ q[1] \notin used' /\ q[1] # NIL
          BY <4>2, <1>4, <1>5
        <5>2. prev_free'[j] = q[1] /\ next_free'[q[1]] = j
          BY <4>1, <4>2, <5>1, <1>6
        <5>3. ASSUME next_free[j] # NIL
              PROVE  next_free[j] \notin used' /\ prev_free'[next_free[j]] = j
          <6>1. next_free[j] \in Slots \ used /\ prev_free[next_free[j]] = j
            BY <3>1, <5>3
          <6>2. next_free[j] # free_head
            BY <6>1, <4>2
          <6>3. prev_free'[next_free[j]] = prev_free[next_free[j]]
            BY <6>1, <6>2, <1>6, <1>8
          <6>4. QED
            BY <6>1, <6>3, <1>4
        <5>4. QED
          BY <4>1, <5>1, <5>2, <5>3
      <4>3. CASE ~(j = free_head /\ n > 0)
        BY <3>1, <4>1, <4>3, <1>4, <1>5, <1>6, <1>8
      <4>4. QED
        BY <4>2, <4>3
    <3>2. CASE j \in used
      <4>1. PICK k \in 1..n : q[k] = j
        BY <1>7, <3>2
      <4>2. /\ next_free'[j] = IF k = 1 THEN free_head ELSE q[k - 1]
            /\ prev_free'[j] = IF k = n THEN NIL ELSE q[k + 1]
        BY <4>1, <1>6
      <4>3. /\ prev_free'[j] = NIL => free_head' = j
            /\ prev_free'[j] # NIL =>
                    prev_free'[j] \notin used' /\ next_free'[prev_free'[j]] = j
        <5>1. CASE k = n
          BY <4>1, <4>2, <5>1, <1>4
        <5>2. CASE k # n
          <6>1. k + 1 \in 1..n /\ q[k + 1] \in Slots /\ (k + 1) - 1 = k
            BY <5>2, <1>5
          <6>2. prev_free'[j] = q[k + 1] /\ q[k + 1] # NIL
            BY <4>2, <5>2, <6>1
          <6>3. next_free'[q[k + 1]] = q[k]
            BY <6>1, <1>6
          <6>4. q[k + 1] \notin used'
            BY <6>1, <1>4
          <6>5. QED
            BY <6>2, <6>3, <6>4, <4>1
        <5>3. QED
          BY <5>1, <5>2
      <4>4. next_free'[j] # NIL =>
                    next_free'[j] \notin used' /\ prev_free'[next_free'[j]] = j
        <5>1. CASE k = 1
          BY <4>1, <4>2, <5>1, <1>4, <1>6, <1>8
        <5>2. CASE k # 1
          <6>1. k - 1 \in 1..n /\ q[k - 1] \in Slots /\ (k - 1) + 1 = k /\ k - 1 # n
            BY <5>2, <1>5
          <6>2. prev_free'[q[k - 1]] = q[k] /\ q[k - 1] \notin used'
            BY <6>1, <1>4, <1>6
          <6>3. QED
            BY <6>2, <4>1, <4>2, <5>2
        <5>3. QED
          BY <5>1, <5>2
      <4>5. QED
        BY <4>3, <4>4
    <3>3. QED
      BY <3>1, <3>2
  <2>3. QED
    BY <2>1, <2>2
<1>11. RangeSeparated'
  <2>1. \A j \in used' : j < CfgMaxAccounts
    BY <1>4 DEF SlabInv, RangeSeparated
  <2>2. ASSUME NEW j \in Slots \ used', j >= CfgMaxAccounts, next_free'[j] # NIL
        PROVE  next_free'[j] >= CfgMaxAccounts
    <3>1. j \notin used
      BY <2>2, SlabAssumption DEF SlabInv, TypeOK, RangeSeparated, Slots
    <3>2. next_free'[j] = next_free[j]
      BY <3>1, <1>6, <1>8
    <3>3. QED
      BY <2>2, <3>1, <3>2 DEF SlabInv, RangeSeparated
  <2>3. QED
    BY <2>1, <2>2 DEF RangeSeparated
<1>12. CountsExact' /\ NeverCorrupt'
  BY <1>2, <1>4 DEF SlabInv, CountsExact, NeverCorrupt
<1>13. Acyclic'
  <2>1. PICK rank \in [Slots -> Nat] :
          \A j \in Slots \ used : prev_free[j] # NIL => rank[prev_free[j]] < rank[j]
    BY DEF SlabInv, Acyclic
  <2> DEFINE position(j) == CHOOSE k \in 1..n : q[k] = j
             rank2 == [j \in Slots |-> IF \E k \in 1..n : q[k] = j
                                       THEN n - position(j) ELSE rank[j] + n]
  <2>2. \A k \in 1..n : position(q[k]) = k
    OBVIOUS
  <2> HIDE DEF position
  <2>3. \A k \in 1..n : q[k] \in Slots /\ rank2[q[k]] = n - k
    BY <2>2, <1>5
  <2>4. \A j \in Slots : (\A k \in 1..n : q[k] # j) => rank2[j] = rank[j] + n
    OBVIOUS
  <2>5. rank2 \in [Slots -> Nat]
    <3>1. rank2 = [j \in Slots |-> rank2[j]]
      OBVIOUS
    <3> HIDE DEF rank2
    <3>2. \A k \in 1..n : n - k \in Nat
      OBVIOUS
    <3>3. \A j \in Slots : rank[j] + n \in Nat
      BY <2>1
    <3>4. ASSUME NEW j \in Slots PROVE rank2[j] \in Nat
      <4>1. CASE \A k \in 1..n : q[k] # j
        BY <4>1, <2>4, <3>3
      <4>2. CASE \E k \in 1..n : q[k] = j
        <5>1. PICK k \in 1..n : q[k] = j
          BY <4>2
        <5>2. rank2[j] = n - k
          BY <5>1, <2>3
        <5>3. QED
          BY <5>2, <3>2
      <4>3. QED
        BY <4>1, <4>2
    <3>5. QED
      BY <3>1, <3>4
  <2> HIDE DEF rank2
  <2>6. ASSUME NEW j \in Slots \ used', prev_free'[j] # NIL
        PROVE  rank2[prev_free'[j]] < rank2[j]
    <3>1. CASE j \notin used
      <4>1. prev_free'[j] = IF j = free_head /\ n > 0 THEN q[1] ELSE prev_free[j]
        BY <3>1, <1>6, <1>8
      <4>2. rank2[j] = rank[j] + n /\ rank[j] \in Nat
        BY <3>1, <1>8, <2>1, <2>4
      <4>3. CASE j = free_head /\ n > 0
        <5>1. prev_free'[j] = q[1] /\ 1 \in 1..n
          BY <4>1, <4>3
        <5>2. rank2[q[1]] = n - 1
          BY <5>1, <2>3
        <5>3. QED
          BY <5>1, <5>2, <4>2
      <4>4. CASE ~(j = free_head /\ n > 0)
        <5>1. prev_free'[j] = prev_free[j] /\ prev_free[j] # NIL
          BY <4>1, <4>4, <2>6
        <5>2. prev_free[j] \in Slots \ used /\ rank[prev_free[j]] < rank[j]
          BY <5>1, <3>1, <2>1 DEF SlabInv, TypeOK, LinksConsistent, Links
        <5>3. rank2[prev_free[j]] = rank[prev_free[j]] + n /\ rank[prev_free[j]] \in Nat
          BY <5>2, <1>8, <2>1, <2>4
        <5>4. QED
          BY <5>1, <5>2, <5>3, <4>2
      <4>5. QED
        BY <4>3, <4>4
    <3>2. CASE j \in used
      <4>1. PICK k \in 1..n : q[k] = j
        BY <1>7, <3>2
      <4>2. k # n /\ prev_free'[j] = q[k + 1] /\ k + 1 \in 1..n
        BY <4>1, <1>6, <2>6
      <4>3. rank2[q[k + 1]] = n - (k + 1) /\ rank2[j] = n - k
        BY <4>1, <4>2, <2>3
      <4>4. QED
        BY <4>2, <4>3
    <3>3. QED
      BY <3>1, <3>2
  <2>7. QED
    BY <2>5, <2>6 DEF Acyclic
<1>14. QED
  BY <1>9, <1>10, <1>11, <1>12, <1>13 DEF SlabInv

\* The dust sweep keeps the invariant.
LEMMA CollectInv == SlabInv /\ GarbageCollect => SlabInv'
<1> SUFFICES ASSUME SlabInv, GarbageCollect PROVE SlabInv'
  OBVIOUS
<1>0. PICK n \in 0..GC_CLOSE_BUDGET :
        \E q \in [1..n -> dust] :
            /\ IsScanOrder(q, n)
            /\ FreeSlots(q, n)
            /\ gc_cursor' = NextCursor
  BY DEF GarbageCollect
<1>1. PICK q \in [1..n -> dust] :
        /\ IsScanOrder(q, n)
        /\ FreeSlots(q, n)
        /\ gc_cursor' = NextCursor
  BY <1>0
<1>2. n \in Nat
  BY SlabAssumption
<1>3. q \in [1..n -> used]
  BY DEF SlabInv, TypeOK
<1>4. \A j, k \in 1..n : q[j] = q[k] => j = k
  <2>1. PICK at \in [1..n -> Visited] :
          /\ \A k \in 1..n : q[k] = ScanSlot(at[k])
          /\ \A j, k \in 1..n : j < k => at[j] < at[k]
    BY <1>1 DEF IsScanOrder
  <2>2. \A k \in 1..n : at[k] \in 0..(MaxScan - 1)
    BY <2>1 DEF Visited
  <2>3. \A j, k \in 1..n : q[j] = q[k] => at[j] = at[k]
    BY <2>1, <2>2, ScanInjective DEF SlabInv, TypeOK
  <2>4. \A k \in 1..n : at[k] \in Int
    BY <2>2, SlabAssumption DEF MaxScan
  <2>5. QED
    BY <1>2, <2>1, <2>3, <2>4
<1>5. gc_cursor' \in Slots
  <2>1. IsFiniteSet(Visited)
    <3>1. IsFiniteSet(0..(MaxScan - 1))
      BY FS_Interval, SlabAssumption DEF MaxScan
    <3>2. QED
      BY <3>1, FS_Subset DEF Visited
  <2>2. Cardinality(Visited) \in Nat
    BY <2>1, FS_CardinalityType
  <2>3. gc_cursor + Cardinality(Visited) \in Nat
    BY <2>2, SlabAssumption DEF SlabInv, TypeOK, Slots
  <2>4. (gc_cursor + Cardinality(Visited)) % MAX_ACCOUNTS \in 0..(MAX_ACCOUNTS - 1)
    BY <2>3, SlabAssumption
  <2>5. QED
    BY <1>1, <2>4 DEF NextCursor, Slots
<1>6. QED
  BY <1>1, <1>2, <1>3, <1>4, <1>5, FreeInv

\* Close and Reclaim free one slot.
LEMMA FreeOneInv ==
    ASSUME SlabInv, NEW i \in used, FreeSlots([k \in 1..1 |-> i], 1), UNCHANGED gc_cursor
    PROVE  SlabInv'
<1> DEFINE q == [k \in 1..1 |-> i]
<1>1. q \in [1..1 -> used] /\ \A j, k \in 1..1 : q[j] = q[k] => j = k
  OBVIOUS
<1>2. gc_cursor' \in Slots
  BY DEF SlabInv, TypeOK
<1> HIDE DEF q
<1>3. FreeSlots(q, 1)
  BY DEF q
<1>4. QED
  BY <1>1, <1>2, <1>3, FreeInv

\* So does every step.
LEMMA NextInv == SlabInv /\ [Next]_vars => SlabInv'
<1> SUFFICES ASSUME SlabInv, [Next]_vars PROVE SlabInv'
  OBVIOUS
<1>1. ASSUME NEW i \in Slots, Materialize(i) PROVE SlabInv'
  BY <1>1, MaterializeInv
<1>2. ASSUME NEW i \in Slots, Close(i) PROVE SlabInv'
  BY <1>2, FreeOneInv DEF Close
<1>3. ASSUME NEW i \in Slots, Reclaim(i) PROVE SlabInv'
  BY <1>3, FreeOneInv DEF Reclaim, SlabInv, TypeOK
<1>4. ASSUME NEW i \in Slots, BecomeDust(i) \/ Refill(i) PROVE SlabInv'
  BY <1>4 DEF BecomeDust, Refill, SlabInv, TypeOK, LinksConsistent, RangeSeparated,
              CountsExact, NeverCorrupt, Acyclic, lists, counts
<1>5. CASE UNCHANGED vars
  BY <1>5 DEF vars, SlabInv, TypeOK, LinksConsistent, RangeSeparated,
              CountsExact, NeverCorrupt, Acyclic, lists, counts
<1>6. QED
  BY <1>1, <1>2, <1>3, <1>4, <1>5, CollectInv DEF Next

\* In every reachable state of the slab the bitmap, the free list and the
\* counters of RiskEngine have their types and agree with one another.
THEOREM SlabInvariant == Spec => []SlabInv
  BY InitInv, NextInv, PTL DEF Spec

\* The fields of the slab keep their shape for every slab size.
THEOREM SlabTypeCorrect == Spec => []TypeOK
<1>1. SlabInv => TypeOK
  BY DEF SlabInv
<1>2. QED
  BY <1>1, SlabInvariant, PTL

\* The free list is a consistent doubly linked list after any sequence of
\* materialize_at, free_slot and garbage_collect_dust calls.
THEOREM FreeListConsistent == Spec => []LinksConsistent
<1>1. SlabInv => LinksConsistent
  BY DEF SlabInv
<1>2. QED
  BY <1>1, SlabInvariant, PTL

\* No call ever takes the CorruptState exits of materialize_at and free_slot.
THEOREM SlabNeverCorrupt == Spec => []NeverCorrupt
<1>1. SlabInv => NeverCorrupt
  BY DEF SlabInv
<1>2. QED
  BY <1>1, SlabInvariant, PTL

\* num_used_accounts and materialized_account_count count the bitmap.
THEOREM SlabCountsExact == Spec => []CountsExact
<1>1. SlabInv => CountsExact
  BY DEF SlabInv
<1>2. QED
  BY <1>1, SlabInvariant, PTL

\* A non-empty set of slots has a member of least rank.
LEMMA LeastRank ==
    ASSUME NEW T \in SUBSET Slots, T # {}, NEW rank \in [Slots -> Nat]
    PROVE  \E i \in T : \A j \in T : ~(rank[j] < rank[i])
<1> DEFINE R == {rank[i] : i \in T}
<1>1. R \subseteq Nat /\ R # {}
  OBVIOUS
<1>2. \E x \in R : \A y \in R : ~(<<y, x>> \in OpToRel(<, Nat))
  BY <1>1, WFMin, NatLessThanWellFounded
<1>3. PICK x \in R : \A y \in R : ~(y < x)
  BY <1>1, <1>2 DEF OpToRel
<1>4. PICK i \in T : rank[i] = x
  BY <1>3
<1>5. QED
  BY <1>3, <1>4

\* The least-ranked free slot of the market's range is the head of the list.
LEMMA HeadInRange == SlabInv => NeverStuck
<1> SUFFICES ASSUME SlabInv, num_used_accounts < CfgMaxAccounts
             PROVE  free_head \in 0..(CfgMaxAccounts - 1)
  BY DEF NeverStuck
<1> DEFINE L == {i \in Slots \ used : i < CfgMaxAccounts}
<1>1. L # {}
  <2>1. SUFFICES ASSUME L = {} PROVE FALSE
    OBVIOUS
  <2>2. used = 0..(CfgMaxAccounts - 1)
    <3>1. \A i \in Slots : i < CfgMaxAccounts => i \in used
      BY <2>1
    <3>2. \A i : i \in 0..(CfgMaxAccounts - 1) => i \in used
      BY <3>1, SlabAssumption DEF Slots
    <3>3. \A i \in used : i \in 0..(CfgMaxAccounts - 1)
      BY SlabAssumption DEF SlabInv, TypeOK, RangeSeparated, Slots
    <3>4. QED
      BY <3>2, <3>3
  <2>3. Cardinality(used) = CfgMaxAccounts
    BY <2>2, FS_Interval, SlabAssumption
  <2>4. QED
    BY <2>3, SlabAssumption DEF SlabInv, CountsExact
<1>2. PICK rank \in [Slots -> Nat] :
        \A j \in Slots \ used : prev_free[j] # NIL => rank[prev_free[j]] < rank[j]
  BY DEF SlabInv, Acyclic
<1>3. PICK i \in L : \A j \in L : ~(rank[j] < rank[i])
  BY <1>1, LeastRank
<1>4. prev_free[i] = NIL
  <2> SUFFICES ASSUME prev_free[i] # NIL PROVE FALSE
    OBVIOUS
  <2>1. prev_free[i] \in Slots \ used /\ next_free[prev_free[i]] = i /\ i # NIL
    BY SlabAssumption DEF SlabInv, TypeOK, LinksConsistent, Links, Slots, NIL
  <2>2. prev_free[i] \notin L
    BY <1>2, <1>3
  <2>3. prev_free[i] >= CfgMaxAccounts
    BY <2>1, <2>2, SlabAssumption DEF Slots
  <2>4. i >= CfgMaxAccounts
    BY <2>1, <2>3 DEF SlabInv, RangeSeparated
  <2>5. QED
    BY <2>4, SlabAssumption DEF Slots
<1>5. free_head = i
  BY <1>4 DEF SlabInv, LinksConsistent
<1>6. QED
  BY <1>5, SlabAssumption DEF Slots

\* While the market has a slot left, the head of the free list is a slot of
\* the market: the program's Deposit, which claims free_head for a new
\* depositor, is never refused by the range check of materialize_at.
THEOREM AllocatorNeverStuck == Spec => []NeverStuck
  BY HeadInRange, SlabInvariant, PTL

-----------------------------------------------------------------------------
(* No slot is leaked *)

\* w follows the free list from its head for n steps.
Follows(w, n) ==
    /\ w \in [0..n -> Links] /\ w[0] = free_head
    /\ \A k \in 1..n : w[k] = IF w[k - 1] = NIL THEN NIL ELSE next_free[w[k - 1]]

\* A walk of any length exists.
LEMMA FollowsExists == ASSUME TypeOK PROVE \A n \in Nat : \E w : Follows(w, n)
<1> DEFINE T == {n \in Nat : \E w : Follows(w, n)}
<1>1. 0 \in T
  <2>1. Follows([k \in 0..0 |-> free_head], 0)
    BY DEF Follows, TypeOK
  <2>2. QED
    BY <2>1
<1>2. ASSUME NEW n \in Nat, n \in T PROVE n + 1 \in T
  <2>1. PICK w : Follows(w, n)
    BY <1>2
  <2> DEFINE x == IF w[n] = NIL THEN NIL ELSE next_free[w[n]]
             v == [k \in 0..(n + 1) |-> IF k = n + 1 THEN x ELSE w[k]]
  <2>2. n \in 0..n /\ w[n] \in Links
    BY <2>1 DEF Follows
  <2>3. x \in Links
    BY <2>2 DEF TypeOK, Links
  <2>4. v \in [0..(n + 1) -> Links] /\ v[0] = free_head
    BY <2>1, <2>3 DEF Follows
  <2>5. \A k \in 1..(n + 1) : v[k] = IF v[k - 1] = NIL THEN NIL ELSE next_free[v[k - 1]]
    <3> SUFFICES ASSUME NEW k \in 1..(n + 1)
                 PROVE  v[k] = IF v[k - 1] = NIL THEN NIL ELSE next_free[v[k - 1]]
      OBVIOUS
    <3>1. v[k - 1] = w[k - 1]
      OBVIOUS
    <3>2. CASE k = n + 1
      BY <3>1, <3>2
    <3>3. CASE k # n + 1
      BY <2>1, <3>1, <3>3 DEF Follows
    <3>4. QED
      BY <3>2, <3>3
  <2>6. Follows(v, n + 1)
    BY <2>4, <2>5 DEF Follows
  <2>7. QED
    BY <2>6
<1> HIDE DEF T
<1>3. \A n \in Nat : n \in T
  BY <1>1, <1>2, NatSetInduction
<1>4. QED
  BY <1>3 DEF T

\* Walk is such a walk.
LEMMA WalkFollows == ASSUME TypeOK PROVE Follows(Walk, MAX_ACCOUNTS)
<1> DEFINE Body(w) == [n \in 0..MAX_ACCOUNTS |->
               IF n = 0 THEN free_head
               ELSE IF w[n - 1] = NIL THEN NIL ELSE next_free[w[n - 1]]]
<1>1. PICK w : Follows(w, MAX_ACCOUNTS)
  BY FollowsExists, SlabAssumption
<1>2. w = Body(w)
  BY <1>1, SlabAssumption DEF Follows
<1>3. Walk = CHOOSE u : u = Body(u)
  BY DEF Walk
<1>4. Walk = Body(Walk)
  BY <1>2, <1>3
<1>5. \A n \in 0..MAX_ACCOUNTS : Walk[n] \in Links
  <2> DEFINE T == {n \in Nat : n <= MAX_ACCOUNTS => Walk[n] \in Links}
  <2>1. 0 \in T
    BY <1>4, SlabAssumption DEF TypeOK
  <2>2. ASSUME NEW n \in Nat, n \in T PROVE n + 1 \in T
    <3> SUFFICES ASSUME n + 1 <= MAX_ACCOUNTS PROVE Walk[n + 1] \in Links
      OBVIOUS
    <3>1. n + 1 \in 0..MAX_ACCOUNTS /\ n + 1 # 0 /\ (n + 1) - 1 = n
      BY SlabAssumption
    <3>2. Walk[n + 1] = IF Walk[n] = NIL THEN NIL ELSE next_free[Walk[n]]
      BY <1>4, <3>1
    <3>3. Walk[n] \in Links
      BY <2>2, SlabAssumption
    <3>4. QED
      BY <3>2, <3>3 DEF TypeOK, Links
  <2> HIDE DEF T
  <2>3. \A n \in Nat : n \in T
    BY <2>1, <2>2, NatSetInduction
  <2>4. QED
    BY <2>3 DEF T
<1>6. QED
  BY <1>4, <1>5, SlabAssumption DEF Follows

\* A walk stays on free slots, and its rank rises.
LEMMA WalkClimbs ==
    ASSUME SlabInv, NEW rank \in [Slots -> Nat],
           \A i \in Slots \ used : prev_free[i] # NIL => rank[prev_free[i]] < rank[i],
           NEW N \in Nat, NEW w, Follows(w, N)
    PROVE  \A n \in 0..N : w[n] # NIL =>
              /\ w[n] \in Slots \ used
              /\ \A m \in 0..(n - 1) : w[m] # NIL /\ rank[w[m]] < rank[w[n]]
<1> DEFINE Good(n) == w[n] # NIL =>
               /\ w[n] \in Slots \ used
               /\ \A m \in 0..(n - 1) : w[m] # NIL /\ rank[w[m]] < rank[w[n]]
           T == {n \in Nat : n <= N => Good(n)}
<1>1. 0 \in T
  BY DEF Follows, SlabInv, TypeOK, LinksConsistent, Links
<1>2. ASSUME NEW n \in Nat, n \in T PROVE n + 1 \in T
  <2> SUFFICES ASSUME n + 1 <= N, w[n + 1] # NIL
               PROVE  /\ w[n + 1] \in Slots \ used
                      /\ \A m \in 0..n : w[m] # NIL /\ rank[w[m]] < rank[w[n + 1]]
    OBVIOUS
  <2>1. Good(n)
    BY <1>2
  <2>2. n + 1 \in 1..N /\ (n + 1) - 1 = n
    OBVIOUS
  <2>3. w[n + 1] = IF w[n] = NIL THEN NIL ELSE next_free[w[n]]
    BY <2>2 DEF Follows
  <2>4. PICK x : x = w[n]
    OBVIOUS
  <2>5. PICK y : y = w[n + 1]
    OBVIOUS
  <2>6. x # NIL /\ x \in Slots \ used /\ y = next_free[x] /\ y # NIL
    BY <2>1, <2>3, <2>4, <2>5
  <2>7. y \in Slots \ used /\ prev_free[y] = x
    BY <2>6 DEF SlabInv, LinksConsistent, TypeOK, Links
  <2>8. rank[x] < rank[y] /\ rank[x] \in Nat /\ rank[y] \in Nat
    BY <2>6, <2>7
  <2>9. \A m \in 0..(n - 1) : w[m] # NIL /\ rank[w[m]] < rank[x] /\ rank[w[m]] \in Nat
    <3> SUFFICES ASSUME NEW m \in 0..(n - 1)
                 PROVE  w[m] # NIL /\ rank[w[m]] < rank[x] /\ rank[w[m]] \in Nat
      OBVIOUS
    <3>1. w[m] \in Links
      BY DEF Follows
    <3>2. w[m] # NIL /\ rank[w[m]] < rank[x]
      BY <2>1, <2>4, <2>6
    <3>3. QED
      BY <3>1, <3>2 DEF Links
  <2>10. QED
    BY <2>4, <2>5, <2>6, <2>7, <2>8, <2>9
<1> HIDE DEF T
<1>3. \A n \in Nat : n \in T
  BY <1>1, <1>2, NatSetInduction
<1>4. QED
  BY <1>3 DEF T

\* A list of distinct slots is no longer than the slab, so the walk ends; a free slot
\* of least rank that it missed would have its predecessor on it.
LEMMA WalkComplete == ASSUME SlabInv PROVE NoLeak
<1>1. Follows(Walk, MAX_ACCOUNTS)
  BY WalkFollows DEF SlabInv
<1>2. PICK rank \in [Slots -> Nat] :
        \A j \in Slots \ used : prev_free[j] # NIL => rank[prev_free[j]] < rank[j]
  BY DEF SlabInv, Acyclic
<1>3. \A n \in 0..MAX_ACCOUNTS : Walk[n] # NIL =>
         /\ Walk[n] \in Slots \ used
         /\ \A m \in 0..(n - 1) : Walk[m] # NIL /\ rank[Walk[m]] < rank[Walk[n]]
  BY <1>1, <1>2, WalkClimbs, SlabAssumption
<1>4. Walk[MAX_ACCOUNTS] = NIL
  <2> SUFFICES ASSUME Walk[MAX_ACCOUNTS] # NIL PROVE FALSE
    OBVIOUS
  <2>1. \A n \in 0..MAX_ACCOUNTS : Walk[n] \in Slots
    BY <1>3, SlabAssumption
  <2> DEFINE f == [n \in 0..MAX_ACCOUNTS |-> Walk[n]]
  <2>2. f \in [0..MAX_ACCOUNTS -> Slots]
    BY <2>1
  <2>3. /\ IsFiniteSet(0..MAX_ACCOUNTS) /\ Cardinality(0..MAX_ACCOUNTS) = MAX_ACCOUNTS + 1
        /\ IsFiniteSet(Slots) /\ Cardinality(Slots) = MAX_ACCOUNTS
    BY FS_Interval, SlabAssumption DEF Slots
  <2>4. Cardinality(Slots) < Cardinality(0..MAX_ACCOUNTS)
    BY <2>3, SlabAssumption
  <2> HIDE DEF f
  <2>5. PICK x \in 0..MAX_ACCOUNTS, y \in 0..MAX_ACCOUNTS : x # y /\ f[x] = f[y]
    <3>1. PICK S, T : S = 0..MAX_ACCOUNTS /\ T = Slots
      OBVIOUS
    <3>2. IsFiniteSet(S) /\ IsFiniteSet(T) /\ Cardinality(T) < Cardinality(S) /\ f \in [S -> T]
      BY <2>2, <2>3, <2>4, <3>1
    <3>3. \E a, b \in S : a # b /\ f[a] = f[b]
      BY <3>2, FS_PigeonHole
    <3>4. QED
      BY <3>1, <3>3
  <2>6. Walk[x] = Walk[y] /\ rank[Walk[x]] \in Nat
    BY <2>1, <2>5 DEF f
  <2>7. x \in 0..(y - 1) \/ y \in 0..(x - 1)
    BY <2>5, SlabAssumption
  <2>8. Walk[x] # NIL /\ Walk[y] # NIL
    BY <2>1, <2>5, SlabAssumption DEF Slots, NIL
  <2>9. rank[Walk[x]] < rank[Walk[y]] \/ rank[Walk[y]] < rank[Walk[x]]
    BY <1>3, <2>7, <2>8
  <2>10. QED
    BY <2>6, <2>9
<1>5. \A i \in Slots \ used : \E n \in 0..MAX_ACCOUNTS : Walk[n] = i
  <2> DEFINE Missed == {i \in Slots \ used : ~\E n \in 0..MAX_ACCOUNTS : Walk[n] = i}
  <2> SUFFICES ASSUME Missed # {} PROVE FALSE
    OBVIOUS
  <2>1. Missed \in SUBSET Slots
    OBVIOUS
  <2> HIDE DEF Missed
  <2>2. PICK i \in Missed : \A j \in Missed : ~(rank[j] < rank[i])
    BY <2>1, LeastRank
  <2> USE DEF Missed
  <2>3. i \in Slots \ used /\ \A n \in 0..MAX_ACCOUNTS : Walk[n] # i
    OBVIOUS
  <2>4. i # free_head
    BY <1>1, <2>3, SlabAssumption DEF Follows
  <2>5. PICK p : p = prev_free[i]
    OBVIOUS
  <2>6. p # NIL /\ p \in Slots \ used /\ next_free[p] = i /\ rank[p] < rank[i]
    BY <1>2, <2>3, <2>4, <2>5 DEF SlabInv, TypeOK, LinksConsistent, Links
  <2>7. PICK n \in 0..MAX_ACCOUNTS : Walk[n] = p
    BY <2>2, <2>6
  <2>8. n # MAX_ACCOUNTS
    BY <1>4, <2>6, <2>7
  <2>9. n + 1 \in 1..MAX_ACCOUNTS /\ n + 1 \in 0..MAX_ACCOUNTS /\ (n + 1) - 1 = n
    BY <2>8, SlabAssumption
  <2>10. Walk[n + 1] = i
    BY <1>1, <2>6, <2>7, <2>9 DEF Follows
  <2>11. QED
    BY <2>3, <2>9, <2>10
<1>6. NIL \notin Slots
  BY SlabAssumption DEF Slots, NIL
<1>7. QED
  BY <1>3, <1>4, <1>5, <1>6 DEF NoLeak

\* The free list holds every slot that is not in use and ends: no sequence of claims,
\* frees and collections leaks a slot or ties a loop.
THEOREM NoSlotLeaks == Spec => []NoLeak
  BY WalkComplete, SlabInvariant, PTL
=============================================================================
