---------------------------- MODULE ReserveProofs ---------------------------
(***************************************************************************)
(* Proofs about Reserve: for every horizon range, every sequence of PnL    *)
(* values and every behaviour of the rest of the market, the two-bucket    *)
(* reserve stays well formed, the totals stay exact, and no helper returns *)
(* CorruptState.                                                           *)
(***************************************************************************)
EXTENDS Reserve, TLAPS

AccountType == [pnl : Int, reserved_pnl : Nat, sched : SchedType, pending : PendingType]

\* The bucket has released no more than its schedule allows at slot now.
BucketOnSchedule(b, now) ==
    b.present => b.start <= now /\ b.release <= ScheduledTotal(b, now)

\* The inductive invariant: the properties of Reserve, and three facts they
\* need: the bucket is on schedule, the reserve fits in the positive PnL in
\* both modes, and the rest of the market never releases more than it has.
ReserveInv ==
    /\ TypeOK
    /\ ReserveWellFormed
    /\ TotalsExact
    /\ Live => BucketOnSchedule(a.sched, current_slot)
    /\ NeverCorrupt
    /\ a.reserved_pnl <= Pos(a.pnl)
    /\ rest.matured <= rest.pos
    /\ ~Live => rest.matured = rest.pos

-----------------------------------------------------------------------------
(* Arithmetic of the linear schedule. *)

\* The defining bounds of floor division.
LEMMA DivFloor ==
    ASSUME NEW n \in Nat, NEW h \in Nat \ {0}
    PROVE  /\ n \div h \in Nat
           /\ h * (n \div h) <= n
           /\ n < h * (n \div h) + h
  OBVIOUS

\* The quotient is at least every x whose multiple fits.
LEMMA DivLeast ==
    ASSUME NEW n \in Nat, NEW h \in Nat \ {0}, NEW x \in Nat, h * x <= n
    PROVE  x <= n \div h
<1> DEFINE d == n \div h
<1>1. d \in Nat /\ n < h * d + h
  BY DivFloor
<1> HIDE DEF d
<1>2. SUFFICES ASSUME d + 1 <= x PROVE FALSE
  BY <1>1 DEF d
<1>3. h * (d + 1) <= h * x
  BY <1>1, <1>2
<1>4. h * (d + 1) = h * d + h
  BY <1>1
<1>5. h * x \in Nat /\ h * d \in Nat
  BY <1>1
<1>6. QED
  BY <1>1, <1>3, <1>4, <1>5

\* The quotient is at most every x whose multiple covers n.
LEMMA DivMost ==
    ASSUME NEW n \in Nat, NEW h \in Nat \ {0}, NEW x \in Nat, n <= h * x
    PROVE  n \div h <= x
<1> DEFINE d == n \div h
<1>1. d \in Nat /\ h * d <= n
  BY DivFloor
<1> HIDE DEF d
<1>2. SUFFICES ASSUME x + 1 <= d PROVE FALSE
  BY <1>1 DEF d
<1>3. h * (x + 1) <= h * d
  BY <1>1, <1>2
<1>4. h * (x + 1) = h * x + h
  OBVIOUS
<1>5. h * x \in Nat /\ h * d \in Nat
  BY <1>1
<1>6. QED
  BY <1>1, <1>3, <1>4, <1>5

\* What the schedule has released lies between zero and the anchor.
LEMMA ScheduleBounds ==
    ASSUME NEW b \in SchedType, b.horizon > 0, NEW now \in Nat, b.start <= now
    PROVE  /\ ScheduledTotal(b, now) \in Nat
           /\ ScheduledTotal(b, now) <= b.anchor
<1> DEFINE e == now - b.start
           x == b.anchor
           h == b.horizon
<1>1. e \in Nat /\ x \in Nat /\ h \in Nat \ {0}
  BY DEF SchedType
<1>2. CASE e >= h
  BY <1>1, <1>2 DEF ScheduledTotal
<1>3. CASE e < h
  <2>1. x * e \in Nat /\ x * e <= h * x
    <3> HIDE DEF e, x, h
    <3>1. QED
      BY <1>1, <1>3
  <2>2. (x * e) \div h \in Nat /\ (x * e) \div h <= x
    <3> HIDE DEF e, x, h
    <3>1. QED
      BY <1>1, <2>1, DivFloor, DivMost
  <2>3. ScheduledTotal(b, now) = (x * e) \div h
    BY <1>1, <1>3 DEF ScheduledTotal
  <2>4. QED
    BY <2>2, <2>3
<1>4. QED
  BY <1>1, <1>2, <1>3

\* One slot later the schedule has released at least as much.
LEMMA ScheduleMonotone ==
    ASSUME NEW b \in SchedType, b.horizon > 0, NEW now \in Nat, b.start <= now
    PROVE  ScheduledTotal(b, now) <= ScheduledTotal(b, now + 1)
<1> DEFINE e == now - b.start
           x == b.anchor
           h == b.horizon
<1>1. e \in Nat /\ x \in Nat /\ h \in Nat \ {0} /\ (now + 1) - b.start = e + 1
  BY DEF SchedType
<1>2. CASE e + 1 >= h
  <2>1. ScheduledTotal(b, now + 1) = b.anchor
    BY <1>1, <1>2 DEF ScheduledTotal
  <2>2. QED
    BY <2>1, ScheduleBounds
<1>3. CASE e + 1 < h
  <2>1. ScheduledTotal(b, now) = (x * e) \div h /\ ScheduledTotal(b, now + 1) = (x * (e + 1)) \div h
    BY <1>1, <1>3 DEF ScheduledTotal
  <2>2. x * e \in Nat /\ x * (e + 1) \in Nat /\ x * e <= x * (e + 1)
    <3> HIDE DEF e, x, h
    <3>1. QED
      BY <1>1
  <2>3. (x * e) \div h \in Nat /\ h * ((x * e) \div h) <= x * e
    <3> HIDE DEF e, x, h
    <3>1. QED
      BY <1>1, <2>2, DivFloor
  <2>4. (x * e) \div h <= (x * (e + 1)) \div h
    <3> HIDE DEF e, x, h
    <3> DEFINE d == (x * e) \div h
    <3>1. d \in Nat /\ h * d <= x * (e + 1)
      <4>1. h * d \in Nat
        BY <1>1, <2>3
      <4>2. QED
        BY <4>1, <2>2, <2>3
    <3> HIDE DEF d
    <3>2. d <= (x * (e + 1)) \div h
      BY <1>1, <2>2, <3>1, DivLeast
    <3>3. QED
      BY <3>2 DEF d
  <2>5. QED
    BY <2>1, <2>4
<1>4. QED
  BY <1>1, <1>2, <1>3

-----------------------------------------------------------------------------
(* What each helper does to a well-formed account. *)

\* The promoted pending bucket is a well-formed scheduled bucket that has
\* released nothing; nothing else about the account changes.
LEMMA PromoteFacts ==
    ASSUME NEW x \in AccountType, NEW now \in Nat, ShapeOk(x),
           BucketOnSchedule(x.sched, now)
    PROVE  /\ PromotePending(x, now) \in AccountType
           /\ ShapeOk(PromotePending(x, now))
           /\ BucketOnSchedule(PromotePending(x, now).sched, now)
           /\ PromotePending(x, now).pnl = x.pnl
           /\ PromotePending(x, now).reserved_pnl = x.reserved_pnl
           /\ ~PromotePending(x, now).sched.present => x.reserved_pnl = 0
<1> DEFINE p == PromotePending(x, now)
           b == [present |-> TRUE, remaining |-> x.pending.remaining,
                 anchor |-> x.pending.remaining, start |-> now,
                 horizon |-> x.pending.horizon, release |-> 0]
<1>1. CASE x.pending.present /\ ~x.sched.present
  <2>1. p = [x EXCEPT !.sched = b, !.pending = NoPending]
    BY <1>1 DEF PromotePending
  <2>2. b \in SchedType /\ NoPending \in PendingType
    BY DEF AccountType, SchedType, PendingType, NoPending
  <2>3. p \in AccountType /\ p.sched = b /\ p.pending = NoPending /\ p.pnl = x.pnl
         /\ p.reserved_pnl = x.reserved_pnl
    BY <2>1, <2>2 DEF AccountType
  <2>4. HorizonOk(b.horizon) /\ b.remaining # 0
    BY <1>1 DEF ShapeOk, PendingShapeOk
  <2>5. x.sched.remaining = 0
    BY <1>1 DEF ShapeOk, SchedShapeOk, NoSched
  <2>6. ScheduledTotal(b, now) \in Nat
    <3>1. b.horizon > 0 /\ b.start <= now
      BY <2>4 DEF HorizonOk
    <3>2. QED
      BY <2>2, <3>1, ScheduleBounds
  <2>7. ShapeOk(p)
    BY <2>3, <2>4, <2>5 DEF ShapeOk, SchedShapeOk, PendingShapeOk, NoPending, AccountType, PendingType
  <2>8. BucketOnSchedule(p.sched, now)
    BY <2>3, <2>6 DEF BucketOnSchedule
  <2>9. QED
    BY <2>3, <2>7, <2>8
<1>2. CASE ~(x.pending.present /\ ~x.sched.present)
  <2>1. p = x
    BY <1>2 DEF PromotePending
  <2>2. ~x.sched.present => x.reserved_pnl = 0
    BY <1>2 DEF ShapeOk, SchedShapeOk, PendingShapeOk, NoSched, NoPending, AccountType
  <2>3. QED
    BY <2>1, <2>2
<1>3. QED
  BY <1>1, <1>2

\* append_or_route_new_reserve adds exactly the gain to the reserve and
\* keeps both buckets well formed.
LEMMA AppendFacts ==
    ASSUME NEW x \in AccountType, NEW now \in Nat, NEW add \in Nat \ {0}, NEW h \in Nat,
           ShapeOk(x), BucketOnSchedule(x.sched, now), HorizonOk(h),
           x.reserved_pnl + add <= Pos(x.pnl)
    PROVE  /\ AppendReserve(x, add, now, h) \in AccountType
           /\ ShapeOk(AppendReserve(x, add, now, h))
           /\ BucketOnSchedule(AppendReserve(x, add, now, h).sched, now)
           /\ AppendReserve(x, add, now, h).pnl = x.pnl
           /\ AppendReserve(x, add, now, h).reserved_pnl = x.reserved_pnl + add
<1> DEFINE p == PromotePending(x, now)
<1>1. /\ p \in AccountType /\ ShapeOk(p) /\ BucketOnSchedule(p.sched, now)
      /\ p.pnl = x.pnl /\ p.reserved_pnl = x.reserved_pnl
  BY PromoteFacts
<1> HIDE DEF p
<1> DEFINE r == Placed(p, add, now, h)
           y == [r EXCEPT !.reserved_pnl = @ + add]
<1>2. AppendReserve(x, add, now, h) = y
  BY DEF AppendReserve, p
<1>3. SUFFICES /\ r \in AccountType /\ r.pnl = p.pnl /\ r.reserved_pnl = p.reserved_pnl
               /\ SchedShapeOk(r.sched) /\ PendingShapeOk(r.pending)
               /\ r.sched.remaining + r.pending.remaining = p.reserved_pnl + add
               /\ BucketOnSchedule(r.sched, now)
  <2> HIDE DEF r
  <2>1. /\ y \in AccountType /\ y.pnl = x.pnl /\ y.reserved_pnl = x.reserved_pnl + add
        /\ y.sched = r.sched /\ y.pending = r.pending
    BY <1>1, <1>3 DEF AccountType
  <2>2. ShapeOk(y)
    BY <1>1, <1>3, <2>1 DEF ShapeOk
  <2>3. QED
    BY <1>2, <1>3, <2>1, <2>2
<1> USE DEF AccountType, SchedType, PendingType
<1>4. CASE ~p.sched.present
  <2> DEFINE b == [present |-> TRUE, remaining |-> add, anchor |-> add,
                   start |-> now, horizon |-> h, release |-> 0]
  <2>1. r = [p EXCEPT !.sched = b]
    BY <1>4 DEF Placed, MergesIntoSched
  <2>2. b \in SchedType /\ b.horizon > 0 /\ b.start <= now
    BY DEF HorizonOk
  <2>3. ScheduledTotal(b, now) \in Nat
    BY <2>2, ScheduleBounds
  <2>4. p.sched.remaining = 0
    BY <1>1, <1>4 DEF ShapeOk, SchedShapeOk, NoSched
  <2>5. r \in AccountType /\ r.sched = b /\ r.pending = p.pending /\ r.pnl = p.pnl
        /\ r.reserved_pnl = p.reserved_pnl
    BY <1>1, <2>1, <2>2
  <2>6. SchedShapeOk(b) /\ BucketOnSchedule(b, now)
    BY <2>3 DEF SchedShapeOk, BucketOnSchedule
  <2>7. QED
    BY <1>1, <2>4, <2>5, <2>6 DEF ShapeOk
<1>5. CASE MergesIntoSched(p, now, h)
  <2> DEFINE b == [p.sched EXCEPT !.remaining = @ + add, !.anchor = @ + add]
  <2>1. r = [p EXCEPT !.sched = b]
    BY <1>1, <1>5 DEF Placed, MergesIntoSched
  <2>a. p.sched \in SchedType
    BY <1>1
  <2>b. b \in SchedType /\ b.remaining = p.sched.remaining + add
        /\ b.anchor = p.sched.anchor + add /\ b.start = p.sched.start
        /\ b.horizon = p.sched.horizon /\ b.release = p.sched.release
        /\ b.present = p.sched.present
    <3>1. p.sched.remaining + add \in Nat /\ p.sched.anchor + add \in Nat
      BY <2>a
    <3>2. b = [p.sched EXCEPT !.remaining = p.sched.remaining + add,
                              !.anchor = p.sched.anchor + add]
      OBVIOUS
    <3> DEFINE rem == p.sched.remaining + add
               anc == p.sched.anchor + add
               old == p.sched
    <3>3. rem \in Nat /\ anc \in Nat /\ old \in SchedType
      BY <2>a, <3>1
    <3>4. b = [old EXCEPT !.remaining = rem, !.anchor = anc]
      OBVIOUS
    <3> HIDE DEF b, rem, anc, old, SchedType
    <3>5. b \in SchedType
      BY <3>3, <3>4 DEF SchedType
    <3>6. b.remaining = rem /\ b.anchor = anc
      BY <3>3, <3>4 DEF SchedType
    <3>7. b.start = old.start /\ b.horizon = old.horizon /\ b.release = old.release
      BY <3>3, <3>4 DEF SchedType
    <3>8. b.present = old.present
      BY <3>3, <3>4 DEF SchedType
    <3>9. QED
      BY <3>5, <3>6, <3>7, <3>8, Zenon DEF rem, anc, old
  <2>2. b \in SchedType /\ b.horizon > 0 /\ b.start <= now /\ b.release = 0 /\ b.present
        /\ b.remaining = p.sched.remaining + add /\ b.anchor = p.sched.anchor + add
        /\ b.horizon = h
    <3> HIDE DEF b
    <3>1. QED
      BY <2>b, <1>5 DEF MergesIntoSched, HorizonOk
  <2> HIDE DEF b
  <2>3. ScheduledTotal(b, now) \in Nat
    BY <2>2, ScheduleBounds
  <2>4. r \in AccountType /\ r.sched = b /\ r.pending = p.pending /\ r.pnl = p.pnl
        /\ r.reserved_pnl = p.reserved_pnl
    BY <1>1, <2>1, <2>2
  <2>5. p.sched.remaining + p.sched.release <= p.sched.anchor
    BY <1>1, <1>5 DEF ShapeOk, SchedShapeOk, MergesIntoSched
  <2>6. SchedShapeOk(b)
    BY <1>1, <2>2, <2>5 DEF SchedShapeOk
  <2>7. BucketOnSchedule(b, now)
    BY <2>2, <2>3 DEF BucketOnSchedule
  <2>8. b.remaining + p.pending.remaining = p.reserved_pnl + add
    BY <1>1, <2>2 DEF ShapeOk
  <2>9. QED
    BY <1>1, <2>4, <2>6, <2>7, <2>8 DEF ShapeOk
<1>6. CASE p.sched.present /\ ~MergesIntoSched(p, now, h) /\ ~p.pending.present
  <2> DEFINE b == [present |-> TRUE, remaining |-> add, horizon |-> h, created |-> now]
  <2>1. r = [p EXCEPT !.pending = b]
    BY <1>6 DEF Placed
  <2>2. b \in PendingType /\ PendingShapeOk(b)
    BY DEF PendingShapeOk
  <2>3. p.pending.remaining = 0
    BY <1>1, <1>6 DEF ShapeOk, PendingShapeOk, NoPending
  <2>4. r \in AccountType /\ r.sched = p.sched /\ r.pending = b /\ r.pnl = p.pnl
        /\ r.reserved_pnl = p.reserved_pnl
    BY <1>1, <2>1, <2>2
  <2>5. QED
    BY <1>1, <2>2, <2>3, <2>4 DEF ShapeOk
<1>7. CASE p.sched.present /\ p.pending.present
  <2> DEFINE b == [p.pending EXCEPT !.remaining = @ + add, !.horizon = Greater(@, h)]
  <2>1. r = [p EXCEPT !.pending = b]
    BY <1>1, <1>7 DEF Placed, MergesIntoSched
  <2>2. b \in PendingType /\ PendingShapeOk(b) /\ b.remaining = p.pending.remaining + add
    <3>1. p.pending \in PendingType /\ PendingShapeOk(p.pending)
      BY <1>1 DEF ShapeOk
    <3>2. b \in PendingType /\ b.remaining = p.pending.remaining + add
          /\ b.horizon = Greater(p.pending.horizon, h) /\ b.present = p.pending.present
      <4>1. p.pending.remaining + add \in Nat /\ Greater(p.pending.horizon, h) \in Nat
        BY <3>1 DEF Greater
      <4>2. b = [p.pending EXCEPT !.remaining = p.pending.remaining + add,
                                  !.horizon = Greater(p.pending.horizon, h)]
        OBVIOUS
      <4> DEFINE rem == p.pending.remaining + add
                 hor == Greater(p.pending.horizon, h)
                 old == p.pending
      <4>3. rem \in Nat /\ hor \in Nat /\ old \in PendingType
        BY <3>1, <4>1
      <4>4. b = [old EXCEPT !.remaining = rem, !.horizon = hor]
        OBVIOUS
      <4> HIDE DEF b, rem, hor, old, PendingType
      <4>5. b \in PendingType
        BY <4>3, <4>4 DEF PendingType
      <4>6. b.remaining = rem /\ b.horizon = hor
        BY <4>3, <4>4 DEF PendingType
      <4>7. b.present = old.present
        BY <4>3, <4>4 DEF PendingType
      <4>8. QED
        BY <4>5, <4>6, <4>7, Zenon DEF rem, hor, old
    <3> HIDE DEF b
    <3>3. HorizonOk(b.horizon)
      BY <1>7, <3>1, <3>2 DEF PendingShapeOk, Greater
    <3>4. b.remaining # 0
      BY <3>1, <3>2
    <3>5. PendingShapeOk(b)
      BY <1>7, <3>2, <3>3, <3>4 DEF PendingShapeOk
    <3>6. QED
      BY <3>2, <3>5
  <2> HIDE DEF b
  <2>3. r \in AccountType /\ r.sched = p.sched /\ r.pending = b /\ r.pnl = p.pnl
        /\ r.reserved_pnl = p.reserved_pnl
    BY <1>1, <2>1, <2>2
  <2>4. QED
    BY <1>1, <2>2, <2>3 DEF ShapeOk
<1>8. QED
  BY <1>4, <1>5, <1>6, <1>7 DEF MergesIntoSched

\* apply_reserve_loss_newest_first removes exactly the loss.
LEMMA TakeFacts ==
    ASSUME NEW x \in AccountType, NEW now \in Nat, NEW loss \in Nat,
           ShapeOk(x), BucketOnSchedule(x.sched, now), loss <= x.reserved_pnl
    PROVE  /\ TakeReserve(x, loss) \in AccountType
           /\ SchedShapeOk(TakeReserve(x, loss).sched)
           /\ PendingShapeOk(TakeReserve(x, loss).pending)
           /\ TakeReserve(x, loss).sched.remaining + TakeReserve(x, loss).pending.remaining
                = x.reserved_pnl - loss
           /\ BucketOnSchedule(TakeReserve(x, loss).sched, now)
           /\ TakeReserve(x, loss).pnl = x.pnl
           /\ TakeReserve(x, loss).reserved_pnl = x.reserved_pnl - loss
<1> USE DEF AccountType, SchedType, PendingType
<1> DEFINE tp == Lesser(loss, x.pending.remaining)
           ts == loss - tp
<1>1. tp \in Nat /\ ts \in Nat /\ tp <= x.pending.remaining /\ ts <= x.sched.remaining
      /\ tp + ts = loss
  BY DEF Lesser, ShapeOk
<1>2. /\ TakePending(x.pending, tp) \in PendingType
      /\ PendingShapeOk(TakePending(x.pending, tp))
      /\ TakePending(x.pending, tp).remaining = x.pending.remaining - tp
  <2> HIDE DEF tp, ts
  <2>1. QED
    BY <1>1 DEF TakePending, ShapeOk, PendingShapeOk, NoPending
<1>3. /\ TakeSched(x.sched, ts) \in SchedType
      /\ SchedShapeOk(TakeSched(x.sched, ts))
      /\ TakeSched(x.sched, ts).remaining = x.sched.remaining - ts
  <2> HIDE DEF tp, ts
  <2>1. QED
    BY <1>1 DEF TakeSched, ShapeOk, SchedShapeOk, NoSched
<1>4. BucketOnSchedule(TakeSched(x.sched, ts), now)
  <2> HIDE DEF tp, ts
  <2>1. QED
    BY <1>1 DEF TakeSched, BucketOnSchedule, NoSched, ScheduledTotal
<1>5. TakeReserve(x, loss) = [x EXCEPT !.pending = TakePending(@, tp),
                                       !.sched = TakeSched(@, ts),
                                       !.reserved_pnl = @ - loss]
  BY DEF TakeReserve
<1> HIDE DEF tp, ts
<1>6. /\ TakeReserve(x, loss) \in AccountType
      /\ TakeReserve(x, loss).sched = TakeSched(x.sched, ts)
      /\ TakeReserve(x, loss).pending = TakePending(x.pending, tp)
      /\ TakeReserve(x, loss).pnl = x.pnl
      /\ TakeReserve(x, loss).reserved_pnl = x.reserved_pnl - loss
  <2> DEFINE np == TakePending(x.pending, tp)
             ns == TakeSched(x.sched, ts)
  <2>1. TakeReserve(x, loss) = [x EXCEPT !.pending = np, !.sched = ns,
                                         !.reserved_pnl = x.reserved_pnl - loss]
    BY <1>5
  <2>2. np \in PendingType /\ ns \in SchedType
    BY <1>2, <1>3
  <2>3. x.reserved_pnl - loss \in Nat
    OBVIOUS
  <2> HIDE DEF np, ns
  <2>4. QED
    BY <2>1, <2>2, <2>3 DEF np, ns
<1>7. QED
  BY <1>1, <1>2, <1>3, <1>4, <1>6 DEF ShapeOk

\* A reserve of zero has no buckets.
LEMMA EmptyReserve ==
    ASSUME NEW x \in AccountType, ShapeOk(x), x.reserved_pnl = 0
    PROVE  ~x.sched.present /\ ~x.pending.present
<1>1. x.sched.remaining = 0 /\ x.pending.remaining = 0
  BY DEF ShapeOk, AccountType, SchedType, PendingType
<1>2. QED
  BY <1>1 DEF ShapeOk, SchedShapeOk, PendingShapeOk

\* advance_profit_warmup passes its own checks, releases some of the reserve
\* and leaves the buckets well formed and on schedule.
LEMMA AdvanceFacts ==
    ASSUME NEW x \in AccountType, NEW now \in Nat, ShapeOk(x),
           BucketOnSchedule(x.sched, now)
    PROVE  /\ AdvanceOk(x, now)
           /\ AdvanceWarmup(x, now) \in AccountType
           /\ ShapeOk(AdvanceWarmup(x, now))
           /\ BucketOnSchedule(AdvanceWarmup(x, now).sched, now)
           /\ AdvanceWarmup(x, now).pnl = x.pnl
           /\ AdvanceWarmup(x, now).reserved_pnl <= x.reserved_pnl
<1>1. CASE x.reserved_pnl = 0
  BY <1>1 DEF AdvanceOk, AdvanceWarmup
<1>2. CASE x.reserved_pnl # 0
  <2> DEFINE p == PromotePending(x, now)
             b == p.sched
             t == ScheduledTotal(b, now)
             rel == WarmupRelease(b, now)
             nb == [b EXCEPT !.remaining = b.remaining - rel, !.release = t]
             q == [p EXCEPT !.sched = nb, !.reserved_pnl = p.reserved_pnl - rel]
  <2>1. /\ p \in AccountType /\ ShapeOk(p) /\ BucketOnSchedule(b, now)
        /\ p.pnl = x.pnl /\ p.reserved_pnl = x.reserved_pnl /\ b.present
    BY <1>2, PromoteFacts
  <2>2. AdvanceWarmup(x, now) = PromoteWhenEmpty(q, now)
    BY <1>2 DEF AdvanceWarmup, Advanced
  <2>3. AdvanceOk(x, now)
    BY <2>1 DEF AdvanceOk, BucketOnSchedule
  <2> HIDE DEF p
  <2>4. b \in SchedType /\ p.pending \in PendingType
    BY <2>1 DEF AccountType
  <2>5. SchedShapeOk(b) /\ PendingShapeOk(p.pending) /\ HorizonOk(b.horizon)
        /\ b.remaining + b.release <= b.anchor
        /\ b.remaining + p.pending.remaining = p.reserved_pnl
        /\ p.reserved_pnl <= Pos(p.pnl)
    BY <2>1 DEF ShapeOk, SchedShapeOk
  <2>6. b.start <= now /\ b.release <= t
    BY <2>1 DEF BucketOnSchedule
  <2>7. t \in Nat /\ t <= b.anchor
    <3>1. b.horizon > 0
      BY <2>5 DEF HorizonOk
    <3>2. QED
      BY <3>1, <2>4, <2>6, ScheduleBounds
  <2> HIDE DEF b, t
  <2>8. rel \in Nat /\ rel <= b.remaining /\ (b.remaining - rel) + t <= b.anchor
    BY <2>4, <2>5, <2>6, <2>7 DEF WarmupRelease, Lesser, SchedType, t
  <2> HIDE DEF rel
  <2>9. /\ nb \in SchedType /\ nb.remaining = b.remaining - rel /\ nb.release = t
        /\ nb.anchor = b.anchor /\ nb.start = b.start /\ nb.horizon = b.horizon
        /\ nb.present
    <3> DEFINE rem == b.remaining - rel
    <3>1. rem \in Nat
      BY <2>4, <2>8 DEF SchedType
    <3>2. nb = [b EXCEPT !.remaining = rem, !.release = t]
      OBVIOUS
    <3> HIDE DEF nb, rem
    <3>3. nb \in SchedType
      BY <2>4, <2>7, <3>1, <3>2 DEF SchedType
    <3>4. nb.remaining = rem /\ nb.release = t
      BY <2>4, <2>7, <3>1, <3>2 DEF SchedType
    <3>5. nb.anchor = b.anchor /\ nb.start = b.start /\ nb.horizon = b.horizon
      BY <2>4, <2>7, <3>1, <3>2 DEF SchedType
    <3>6. nb.present = b.present
      BY <2>4, <2>7, <3>1, <3>2 DEF SchedType
    <3>7. b.present
      BY <2>1 DEF b
    <3>8. QED
      BY <3>3, <3>4, <3>5, <3>6, <3>7, Zenon DEF rem
  <2> HIDE DEF nb
  <2>10. /\ q \in AccountType /\ q.sched = nb /\ q.pending = p.pending
         /\ q.pnl = x.pnl /\ q.reserved_pnl = x.reserved_pnl - rel
    <3>1. p.reserved_pnl - rel \in Nat
      BY <2>1, <2>4, <2>5, <2>8 DEF SchedType, PendingType, AccountType
    <3>2. QED
      BY <2>1, <2>9, <3>1 DEF AccountType
  <2>11. nb.remaining + p.pending.remaining = q.reserved_pnl /\ q.reserved_pnl <= Pos(q.pnl)
         /\ q.reserved_pnl <= x.reserved_pnl
    <3>1. q.reserved_pnl = p.reserved_pnl - rel /\ q.pnl = p.pnl
      BY <2>1, <2>10
    <3>2. p.reserved_pnl \in Nat /\ Pos(p.pnl) \in Int
      BY <2>1 DEF AccountType, Pos
    <3> HIDE DEF q
    <3>3. QED
      BY <2>1, <2>4, <2>5, <2>8, <2>9, <3>1, <3>2 DEF SchedType, PendingType
  <2> HIDE DEF q
  <2>12. BucketOnSchedule(nb, now)
    BY <2>6, <2>7, <2>9 DEF BucketOnSchedule, ScheduledTotal, t
  <2>13. CASE nb.remaining # 0
    <3>1. AdvanceWarmup(x, now) = q
      BY <2>2, <2>10, <2>13 DEF PromoteWhenEmpty
    <3>2. SchedShapeOk(nb)
      BY <2>4, <2>5, <2>7, <2>8, <2>9, <2>13 DEF SchedShapeOk, SchedType
    <3>3. ShapeOk(q)
      BY <2>5, <2>10, <2>11, <3>2 DEF ShapeOk
    <3>4. QED
      BY <2>3, <2>10, <2>11, <2>12, <3>1, <3>3
  <2>14. CASE nb.remaining = 0
    <3> DEFINE z == [q EXCEPT !.sched = NoSched]
    <3>1. AdvanceWarmup(x, now) = PromotePending(z, now)
      BY <2>2, <2>10, <2>14 DEF PromoteWhenEmpty
    <3>2. NoSched \in SchedType /\ NoSched.remaining = 0 /\ ~NoSched.present
      BY DEF NoSched, SchedType
    <3>3. /\ z \in AccountType /\ z.sched = NoSched /\ z.pending = p.pending
          /\ z.pnl = q.pnl /\ z.reserved_pnl = q.reserved_pnl
      <4> HIDE DEF NoSched
      <4>1. QED
        BY <2>10, <3>2 DEF AccountType
    <3> HIDE DEF z
    <3>4. SchedShapeOk(NoSched) /\ BucketOnSchedule(NoSched, now)
      BY <3>2 DEF SchedShapeOk, BucketOnSchedule
    <3>5. NoSched.remaining + p.pending.remaining = q.reserved_pnl
      BY <2>4, <2>11, <2>14, <3>2 DEF PendingType
    <3>6. ShapeOk(z)
      BY <2>5, <2>11, <3>3, <3>4, <3>5 DEF ShapeOk
    <3>7. BucketOnSchedule(z.sched, now)
      BY <3>3, <3>4
    <3>8. /\ PromotePending(z, now) \in AccountType /\ ShapeOk(PromotePending(z, now))
          /\ BucketOnSchedule(PromotePending(z, now).sched, now)
          /\ PromotePending(z, now).pnl = z.pnl
          /\ PromotePending(z, now).reserved_pnl = z.reserved_pnl
      BY <3>3, <3>6, <3>7, PromoteFacts
    <3>9. QED
      BY <2>3, <2>10, <2>11, <3>1, <3>3, <3>8
  <2>15. QED
    BY <2>13, <2>14
<1>3. QED
  BY <1>1, <1>2

\* set_pnl_with_reserve: a gain is reserved in full or not at all, a loss
\* takes the reserve first; the buckets stay well formed and on schedule.
LEMMA PnlSetFacts ==
    ASSUME NEW x \in AccountType, NEW now \in Nat, NEW new \in Int, NEW h \in Nat,
           h = 0 \/ HorizonOk(h), ShapeOk(x), BucketOnSchedule(x.sched, now)
    PROVE  /\ PnlSet(x, new, h, now) \in AccountType
           /\ ShapeOk(PnlSet(x, new, h, now))
           /\ BucketOnSchedule(PnlSet(x, new, h, now).sched, now)
           /\ PnlSet(x, new, h, now).pnl = new
           /\ Gain(x, new) > 0 => PnlSet(x, new, h, now).reserved_pnl
                                    = x.reserved_pnl + (IF h = 0 THEN 0 ELSE Gain(x, new))
           /\ ~(Gain(x, new) > 0) => PnlSet(x, new, h, now).reserved_pnl
                                    = x.reserved_pnl - ReserveLoss(x, new)
           /\ Gain(x, new) > 0 => ShapeOk([x EXCEPT !.pnl = new])
<1> DEFINE y == PnlSet(x, new, h, now)
           m == [x EXCEPT !.pnl = new]
           g == Gain(x, new)
           l == ReserveLoss(x, new)
<1>1. /\ m \in AccountType /\ m.pnl = new /\ m.reserved_pnl = x.reserved_pnl
      /\ m.sched = x.sched /\ m.pending = x.pending
  BY DEF AccountType
<1>2. x.reserved_pnl \in Nat /\ x.reserved_pnl <= Pos(x.pnl) /\ x.pnl \in Int
  BY DEF ShapeOk, AccountType
<1>3. g \in Int /\ g = Pos(new) - Pos(x.pnl) /\ Pos(new) \in Nat /\ Pos(x.pnl) \in Nat
  BY <1>2 DEF Gain, Pos
<1>4. SchedShapeOk(x.sched) /\ PendingShapeOk(x.pending)
      /\ x.sched.remaining + x.pending.remaining = x.reserved_pnl
  BY DEF ShapeOk
<1> HIDE DEF m
<1>5. x.reserved_pnl <= Pos(new) => ShapeOk(m)
  BY <1>1, <1>4 DEF ShapeOk
<1>6. CASE g > 0
  <2>1. ShapeOk(m)
    BY <1>2, <1>3, <1>5, <1>6
  <2>2. CASE h = 0
    <3>1. y = m
      BY <1>6, <2>2 DEF PnlSet, m
    <3> HIDE DEF y, g
    <3>2. /\ y \in AccountType /\ ShapeOk(y) /\ BucketOnSchedule(y.sched, now) /\ y.pnl = new
          /\ y.reserved_pnl = x.reserved_pnl + 0
      BY <1>1, <1>2, <2>1, <3>1
    <3>3. g > 0 => y.reserved_pnl = x.reserved_pnl + (IF h = 0 THEN 0 ELSE g)
      BY <2>2, <3>2
    <3>4. QED
      BY <1>6, <2>1, <3>2, <3>3 DEF y, g, m
  <2>3. CASE h # 0
    <3>1. y = AppendReserve(m, g, now, h)
      BY <1>6, <2>3 DEF PnlSet, m
    <3>2. g \in Nat \ {0} /\ HorizonOk(h) /\ m.reserved_pnl + g <= Pos(m.pnl)
      BY <1>1, <1>2, <1>3, <1>6, <2>3
    <3>3. BucketOnSchedule(m.sched, now)
      BY <1>1
    <3> HIDE DEF g
    <3>4. /\ AppendReserve(m, g, now, h) \in AccountType
          /\ ShapeOk(AppendReserve(m, g, now, h))
          /\ BucketOnSchedule(AppendReserve(m, g, now, h).sched, now)
          /\ AppendReserve(m, g, now, h).pnl = m.pnl
          /\ AppendReserve(m, g, now, h).reserved_pnl = m.reserved_pnl + g
      BY <1>1, <2>1, <3>2, <3>3, AppendFacts
    <3> HIDE DEF y
    <3>5. /\ y \in AccountType /\ ShapeOk(y) /\ BucketOnSchedule(y.sched, now) /\ y.pnl = new
          /\ y.reserved_pnl = x.reserved_pnl + g
      BY <1>1, <3>1, <3>4
    <3>6. g > 0 => y.reserved_pnl = x.reserved_pnl + (IF h = 0 THEN 0 ELSE g)
      BY <2>3, <3>5
    <3>7. QED
      BY <1>6, <2>1, <3>5, <3>6 DEF y, g, m
  <2>4. QED
    BY <2>2, <2>3
<1>7. CASE ~(g > 0)
  <2>1. l \in Nat /\ l <= x.reserved_pnl /\ x.reserved_pnl - l <= Pos(new)
        /\ x.reserved_pnl - l \in Nat
    <3>1. l = Lesser(Pos(x.pnl) - Pos(new), x.reserved_pnl)
      BY DEF ReserveLoss
    <3>2. Pos(x.pnl) - Pos(new) \in Nat
      BY <1>3, <1>7
    <3> HIDE DEF l, g
    <3>3. QED
      BY <1>2, <1>3, <3>1, <3>2 DEF Lesser
  <2>2. CASE l > 0
    <3> DEFINE k == TakeReserve(x, l)
    <3>1. y = [k EXCEPT !.pnl = new]
      BY <1>7, <2>2 DEF PnlSet
    <3> HIDE DEF l
    <3>2. /\ k \in AccountType /\ SchedShapeOk(k.sched) /\ PendingShapeOk(k.pending)
          /\ k.sched.remaining + k.pending.remaining = x.reserved_pnl - l
          /\ BucketOnSchedule(k.sched, now) /\ k.pnl = x.pnl
          /\ k.reserved_pnl = x.reserved_pnl - l
      BY <2>1, TakeFacts
    <3> HIDE DEF k
    <3> DEFINE w == [k EXCEPT !.pnl = new]
    <3>3. /\ w \in AccountType /\ w.pnl = new /\ w.reserved_pnl = k.reserved_pnl
          /\ w.sched = k.sched /\ w.pending = k.pending
      BY <3>2 DEF AccountType
    <3> HIDE DEF w
    <3>4. ShapeOk(w)
      BY <2>1, <3>2, <3>3 DEF ShapeOk
    <3>5. y = w
      BY <3>1 DEF w
    <3> HIDE DEF y
    <3>6. /\ y \in AccountType /\ ShapeOk(y) /\ BucketOnSchedule(y.sched, now) /\ y.pnl = new
          /\ y.reserved_pnl = x.reserved_pnl - l
      BY <3>2, <3>3, <3>4, <3>5
    <3>7. QED
      BY <1>7, <3>6 DEF y, l
  <2>3. CASE l = 0
    <3>1. y = m
      BY <1>7, <2>3 DEF PnlSet, m
    <3>2. ShapeOk(m)
      BY <1>2, <1>5, <2>1, <2>3
    <3> HIDE DEF y
    <3>3. /\ y \in AccountType /\ ShapeOk(y) /\ BucketOnSchedule(y.sched, now) /\ y.pnl = new
          /\ y.reserved_pnl = x.reserved_pnl - l
      BY <1>1, <1>2, <2>3, <3>1, <3>2
    <3>4. QED
      BY <1>7, <3>3 DEF y, l
  <2>4. QED
    BY <2>1, <2>2, <2>3
<1>8. QED
  BY <1>6, <1>7

-----------------------------------------------------------------------------
(* Every action preserves ReserveInv. *)

\* The horizon set_pnl_with_reserve reserves for is zero or in range.
LEMMA AdmittedInRange ==
    ASSUME NEW lo \in 0..h_max, NEW hi \in 0..h_max, AdmissionPairOk(lo, hi),
           NEW st \in BOOLEAN, NEW fresh \in Int, NEW matured \in Int, NEW res \in Int
    PROVE  /\ AdmittedHorizon(st, fresh, matured, res, lo, hi) \in Nat
           /\ \/ AdmittedHorizon(st, fresh, matured, res, lo, hi) = 0
              \/ HorizonOk(AdmittedHorizon(st, fresh, matured, res, lo, hi))
<1> DEFINE h == AdmittedHorizon(st, fresh, matured, res, lo, hi)
<1>1. h = lo \/ h = hi
  BY DEF AdmittedHorizon
<1> HIDE DEF h
<1>2. h \in Nat /\ (h = 0 \/ HorizonOk(h))
  BY <1>1, HorizonAssumption DEF AdmissionPairOk, HorizonOk
<1>3. QED
  BY <1>2 DEF h

\* What ReserveInv says of a live market, in the form the steps use.
LEMMA LiveFacts ==
    ASSUME ReserveInv, Live
    PROVE  /\ a \in AccountType /\ ShapeOk(a) /\ BucketOnSchedule(a.sched, current_slot)
           /\ current_slot \in Nat
           /\ a.pnl \in Int /\ a.reserved_pnl \in Nat /\ a.reserved_pnl <= Pos(a.pnl)
           /\ Pos(a.pnl) \in Nat
           /\ rest.pos \in Nat /\ rest.matured \in Nat /\ rest.matured <= rest.pos
           /\ pnl_pos_tot = Pos(a.pnl) + rest.pos
           /\ pnl_matured_pos_tot = (Pos(a.pnl) - a.reserved_pnl) + rest.matured
           /\ pnl_pos_tot \in Nat /\ pnl_matured_pos_tot \in Nat
<1>1. a \in AccountType /\ current_slot \in Nat /\ rest \in [pos : Nat, matured : Nat]
      /\ pnl_pos_tot \in Nat /\ pnl_matured_pos_tot \in Nat
  BY DEF ReserveInv, TypeOK, AccountType
<1>2. ShapeOk(a) /\ BucketOnSchedule(a.sched, current_slot) /\ rest.matured <= rest.pos
  BY DEF ReserveInv, ReserveWellFormed
<1>3. a.pnl \in Int /\ a.reserved_pnl \in Nat
  BY <1>1 DEF AccountType
<1>4. a.reserved_pnl <= Pos(a.pnl) /\ Pos(a.pnl) \in Nat
  BY <1>2, <1>3 DEF ShapeOk, Pos
<1>5. /\ pnl_pos_tot = Pos(a.pnl) + rest.pos
      /\ pnl_matured_pos_tot = (Pos(a.pnl) - a.reserved_pnl) + rest.matured
  BY DEF ReserveInv, TotalsExact
<1>6. QED
  BY <1>1, <1>2, <1>3, <1>4, <1>5

\* set_pnl_with_reserve passes every check it makes and keeps the invariant.
LEMMA SetPnlStep ==
    ASSUME ReserveInv, NEW new \in PnlValues, NEW lo \in 0..h_max, NEW hi \in 0..h_max,
           SetPnl(new, lo, hi)
    PROVE  ReserveInv'
<1> DEFINE h == AdmittedHorizon(sticky, Gain(a, new), pnl_matured_pos_tot, residual, lo, hi)
           b == PnlSet(a, new, h, current_slot)
           matured == MaturedAfter(a, new, h, pnl_matured_pos_tot)
           pos == pnl_pos_tot + Gain(a, new)
           g == Gain(a, new)
           l == ReserveLoss(a, new)
<1>1. /\ Live /\ AdmissionPairOk(lo, hi)
      /\ IF SetPnlOk(new, h, b, matured, pos)
         THEN /\ a' = b /\ pnl_matured_pos_tot' = matured /\ pnl_pos_tot' = pos
              /\ sticky' = (sticky \/ (g > 0 /\ h = hi))
              /\ UNCHANGED <<env, current_slot, market_mode, corrupt>>
         ELSE Failed
  BY DEF SetPnl
<1>2. /\ a \in AccountType /\ ShapeOk(a) /\ BucketOnSchedule(a.sched, current_slot)
      /\ current_slot \in Nat
      /\ a.pnl \in Int /\ a.reserved_pnl \in Nat /\ a.reserved_pnl <= Pos(a.pnl)
      /\ Pos(a.pnl) \in Nat
      /\ rest.pos \in Nat /\ rest.matured \in Nat /\ rest.matured <= rest.pos
      /\ pnl_pos_tot = Pos(a.pnl) + rest.pos
      /\ pnl_matured_pos_tot = (Pos(a.pnl) - a.reserved_pnl) + rest.matured
      /\ pnl_pos_tot \in Nat /\ pnl_matured_pos_tot \in Nat
  BY <1>1, LiveFacts
<1>3. new \in Int /\ Pos(new) \in Nat
  BY ReserveAssumption DEF Pos
<1>4. g \in Int /\ g = Pos(new) - Pos(a.pnl)
  BY <1>2, <1>3 DEF Gain
<1>5. sticky \in BOOLEAN /\ residual \in Int
  BY DEF ReserveInv, TypeOK
<1>6. h \in Nat /\ (h = 0 \/ HorizonOk(h))
  BY <1>1, <1>2, <1>4, <1>5, AdmittedInRange
<1> HIDE DEF h
<1>7. /\ b \in AccountType /\ ShapeOk(b) /\ BucketOnSchedule(b.sched, current_slot)
      /\ b.pnl = new
      /\ g > 0 => b.reserved_pnl = a.reserved_pnl + (IF h = 0 THEN 0 ELSE g)
      /\ ~(g > 0) => b.reserved_pnl = a.reserved_pnl - l
      /\ g > 0 => ShapeOk([a EXCEPT !.pnl = new])
  BY <1>2, <1>3, <1>6, PnlSetFacts
<1>8. b.reserved_pnl \in Nat /\ b.reserved_pnl <= Pos(new)
  BY <1>7 DEF AccountType, ShapeOk
<1>9. matured = (Pos(new) - b.reserved_pnl) + rest.matured
  <2> DEFINE br == b.reserved_pnl
  <2>1. br \in Nat /\ (g > 0 => br = a.reserved_pnl + (IF h = 0 THEN 0 ELSE g))
        /\ (~(g > 0) => br = a.reserved_pnl - l)
    BY <1>7, <1>8
  <2>2. CASE g > 0
    <3>1. matured = IF h = 0 THEN pnl_matured_pos_tot + g ELSE pnl_matured_pos_tot
      BY <2>2 DEF MaturedAfter
    <3> HIDE DEF br, g, matured, b
    <3>2. QED
      BY <1>2, <1>3, <1>4, <2>1, <2>2, <3>1 DEF br
  <2>3. CASE ~(g > 0)
    <3>1. matured = pnl_matured_pos_tot - ((Pos(a.pnl) - Pos(new)) - l)
      BY <2>3 DEF MaturedAfter
    <3>2. l \in Int
      BY <1>2, <1>3 DEF ReserveLoss, Lesser
    <3> HIDE DEF br, g, l, matured, b
    <3>3. QED
      BY <1>2, <1>3, <1>4, <2>1, <2>3, <3>1, <3>2 DEF br
  <2>4. QED
    BY <2>2, <2>3
<1>10. pos = Pos(new) + rest.pos
  BY <1>2, <1>3, <1>4
<1> HIDE DEF matured, pos, b
<1>11. matured \in Nat /\ pos \in Nat /\ matured <= pos
  BY <1>2, <1>3, <1>8, <1>9, <1>10
<1>12. SetPnlOk(new, h, b, matured, pos)
  <2>1. HelperShapeOk(new, h)
    BY <1>2, <1>7 DEF HelperShapeOk
  <2>2. Pos(new) = 0 => b.reserved_pnl = 0 /\ ~b.sched.present /\ ~b.pending.present
    BY <1>7, <1>8, EmptyReserve
  <2>3. QED
    BY <1>2, <1>8, <1>11, <2>1, <2>2 DEF SetPnlOk
<1>13. /\ a' = b /\ pnl_matured_pos_tot' = matured /\ pnl_pos_tot' = pos
       /\ sticky' = (sticky \/ (g > 0 /\ h = hi))
       /\ rest' = rest /\ residual' = residual
       /\ current_slot' = current_slot /\ market_mode' = market_mode /\ corrupt' = corrupt
  BY <1>1, <1>12 DEF env
<1>14. TypeOK'
  <2>1. sticky' \in BOOLEAN
    BY <1>5, <1>13, Zenon
  <2>2. QED
    BY <1>7, <1>11, <1>13, <2>1 DEF ReserveInv, TypeOK, AccountType
<1>15. TotalsExact'
  BY <1>1, <1>7, <1>9, <1>10, <1>13 DEF TotalsExact, Live
<1>16. QED
  BY <1>7, <1>8, <1>13, <1>14, <1>15
     DEF ReserveInv, ReserveWellFormed, NeverCorrupt, Live

\* admit_outstanding_reserve_on_touch releases a backed reserve without error.
LEMMA AdmitOutstandingStep ==
    ASSUME ReserveInv, AdmitOutstanding
    PROVE  ReserveInv'
<1> DEFINE b == ClearReserve(a)
<1>1. Live
  BY DEF AdmitOutstanding
<1>2. /\ a \in AccountType /\ ShapeOk(a)
      /\ a.pnl \in Int /\ a.reserved_pnl \in Nat /\ a.reserved_pnl <= Pos(a.pnl)
      /\ Pos(a.pnl) \in Nat
      /\ rest.pos \in Nat /\ rest.matured \in Nat /\ rest.matured <= rest.pos
      /\ pnl_pos_tot = Pos(a.pnl) + rest.pos
      /\ pnl_matured_pos_tot = (Pos(a.pnl) - a.reserved_pnl) + rest.matured
      /\ pnl_pos_tot \in Nat /\ pnl_matured_pos_tot \in Nat
  BY <1>1, LiveFacts
<1>3. pnl_matured_pos_tot + a.reserved_pnl <= pnl_pos_tot
  BY <1>2
<1>4. /\ a' = b /\ pnl_matured_pos_tot' = pnl_matured_pos_tot + a.reserved_pnl
      /\ pnl_pos_tot' = pnl_pos_tot /\ rest' = rest /\ residual' = residual
      /\ current_slot' = current_slot /\ sticky' = sticky
      /\ market_mode' = market_mode /\ corrupt' = corrupt
  BY <1>2, <1>3 DEF AdmitOutstanding, env
<1>5. NoSched \in SchedType /\ NoPending \in PendingType /\ NoSched.remaining = 0
      /\ NoPending.remaining = 0 /\ ~NoSched.present /\ ~NoPending.present
  BY DEF NoSched, NoPending, SchedType, PendingType
<1>6. /\ b \in AccountType /\ b.pnl = a.pnl /\ b.reserved_pnl = 0
      /\ b.sched = NoSched /\ b.pending = NoPending
  BY <1>2, <1>5 DEF AccountType, ClearReserve
<1> HIDE DEF b
<1>7. ShapeOk(b) /\ BucketOnSchedule(b.sched, current_slot)
  <2>1. SchedShapeOk(NoSched) /\ PendingShapeOk(NoPending)
        /\ BucketOnSchedule(NoSched, current_slot)
    BY <1>5 DEF SchedShapeOk, PendingShapeOk, BucketOnSchedule
  <2>2. QED
    BY <1>2, <1>5, <1>6, <2>1 DEF ShapeOk
<1>8. TypeOK'
  BY <1>2, <1>4, <1>6 DEF ReserveInv, TypeOK, AccountType
<1>9. TotalsExact'
  BY <1>1, <1>2, <1>4, <1>6 DEF TotalsExact, Live
<1>10. QED
  BY <1>2, <1>4, <1>6, <1>7, <1>8, <1>9
     DEF ReserveInv, ReserveWellFormed, NeverCorrupt, Live

\* advance_profit_warmup passes every check it makes and keeps the invariant.
LEMMA AdvanceStep ==
    ASSUME ReserveInv, Advance
    PROVE  ReserveInv'
<1> DEFINE b == AdvanceWarmup(a, current_slot)
           matured == pnl_matured_pos_tot + (a.reserved_pnl - b.reserved_pnl)
<1>1. Live
  BY DEF Advance
<1>2. /\ a \in AccountType /\ ShapeOk(a) /\ BucketOnSchedule(a.sched, current_slot)
      /\ current_slot \in Nat
      /\ a.pnl \in Int /\ a.reserved_pnl \in Nat /\ a.reserved_pnl <= Pos(a.pnl)
      /\ Pos(a.pnl) \in Nat
      /\ rest.pos \in Nat /\ rest.matured \in Nat /\ rest.matured <= rest.pos
      /\ pnl_pos_tot = Pos(a.pnl) + rest.pos
      /\ pnl_matured_pos_tot = (Pos(a.pnl) - a.reserved_pnl) + rest.matured
      /\ pnl_pos_tot \in Nat /\ pnl_matured_pos_tot \in Nat
  BY <1>1, LiveFacts
<1>3. /\ AdvanceOk(a, current_slot) /\ b \in AccountType /\ ShapeOk(b)
      /\ BucketOnSchedule(b.sched, current_slot)
      /\ b.pnl = a.pnl /\ b.reserved_pnl <= a.reserved_pnl
  BY <1>2, AdvanceFacts
<1>4. b.reserved_pnl \in Nat /\ b.reserved_pnl <= Pos(a.pnl)
  BY <1>2, <1>3 DEF AccountType, ShapeOk
<1>5. b.reserved_pnl = 0 => ~b.sched.present /\ ~b.pending.present
  BY <1>3, EmptyReserve
<1>6. matured \in Nat /\ matured <= pnl_pos_tot
      /\ matured = (Pos(a.pnl) - b.reserved_pnl) + rest.matured
  <2> HIDE DEF b
  <2>1. QED
    BY <1>2, <1>3, <1>4
<1>7. /\ a' = b /\ pnl_matured_pos_tot' = matured
      /\ pnl_pos_tot' = pnl_pos_tot /\ rest' = rest /\ residual' = residual
      /\ current_slot' = current_slot /\ sticky' = sticky
      /\ market_mode' = market_mode /\ corrupt' = corrupt
  BY <1>2, <1>3, <1>5, <1>6 DEF Advance, env
<1> HIDE DEF b, matured
<1>8. TypeOK'
  BY <1>3, <1>6, <1>7 DEF ReserveInv, TypeOK, AccountType
<1>9. TotalsExact'
  BY <1>1, <1>2, <1>3, <1>6, <1>7 DEF TotalsExact, Live
<1>10. QED
  BY <1>2, <1>3, <1>4, <1>7, <1>8, <1>9
     DEF ReserveInv, ReserveWellFormed, NeverCorrupt, Live

\* consume_released_pnl never finds less PnL or smaller totals than it is
\* asked to consume, in either mode.
LEMMA ConsumeStep ==
    ASSUME ReserveInv, NEW x \in 1..ReleasedPos(a), ConsumeReleased(x)
    PROVE  ReserveInv'
<1> DEFINE b == [a EXCEPT !.pnl = a.pnl - x]
<1>1. /\ a \in AccountType /\ rest \in [pos : Nat, matured : Nat]
      /\ pnl_pos_tot \in Nat /\ pnl_matured_pos_tot \in Nat
      /\ a.reserved_pnl <= Pos(a.pnl) /\ rest.matured <= rest.pos
  BY DEF ReserveInv, TypeOK, AccountType
<1>2. a.pnl \in Int /\ a.reserved_pnl \in Nat /\ rest.pos \in Nat /\ rest.matured \in Nat
  BY <1>1 DEF AccountType
<1>3. /\ x \in Nat /\ x >= 1 /\ x <= Pos(a.pnl) - a.reserved_pnl
      /\ a.pnl - x \in Int /\ Pos(a.pnl - x) = Pos(a.pnl) - x
  BY <1>1, <1>2 DEF ReleasedPos, Greater, Pos
<1>4. Pos(a.pnl) \in Nat
  BY <1>2 DEF Pos
<1>5. pnl_pos_tot = Pos(a.pnl) + rest.pos
  BY DEF ReserveInv, TotalsExact
<1>6. /\ Live => pnl_matured_pos_tot = (Pos(a.pnl) - a.reserved_pnl) + rest.matured
      /\ ~Live => pnl_matured_pos_tot = pnl_pos_tot
  BY DEF ReserveInv, TotalsExact
<1>7. x <= pnl_pos_tot /\ x <= pnl_matured_pos_tot
      /\ pnl_matured_pos_tot - x <= pnl_pos_tot - x
  BY <1>1, <1>2, <1>3, <1>4, <1>5, <1>6
<1>8. /\ a' = b /\ pnl_matured_pos_tot' = pnl_matured_pos_tot - x
      /\ pnl_pos_tot' = pnl_pos_tot - x /\ rest' = rest /\ residual' = residual
      /\ current_slot' = current_slot /\ sticky' = sticky
      /\ market_mode' = market_mode /\ corrupt' = corrupt
  BY <1>1, <1>3, <1>7 DEF ConsumeReleased, env
<1>9. /\ b \in AccountType /\ b.pnl = a.pnl - x /\ b.reserved_pnl = a.reserved_pnl
      /\ b.sched = a.sched /\ b.pending = a.pending
  BY <1>1, <1>3 DEF AccountType
<1> HIDE DEF b
<1>10. b.reserved_pnl <= Pos(b.pnl)
  BY <1>2, <1>3, <1>4, <1>9
<1>11. Live => ShapeOk(b) /\ BucketOnSchedule(b.sched, current_slot)
  <2>1. Live => ShapeOk(a) /\ BucketOnSchedule(a.sched, current_slot)
    BY DEF ReserveInv, ReserveWellFormed
  <2>2. QED
    BY <1>9, <1>10, <2>1 DEF ShapeOk
<1>12. TypeOK'
  <2>1. pnl_matured_pos_tot' \in Nat /\ pnl_pos_tot' \in Nat
    BY <1>1, <1>3, <1>7, <1>8
  <2>2. QED
    BY <1>8, <1>9, <2>1 DEF ReserveInv, TypeOK, AccountType
<1>13. TotalsExact'
  <2>1. pnl_pos_tot' = Pos(a'.pnl) + rest'.pos
    BY <1>1, <1>2, <1>3, <1>4, <1>5, <1>8, <1>9
  <2>2. Live => pnl_matured_pos_tot' = (Pos(a'.pnl) - a'.reserved_pnl) + rest'.matured
    BY <1>1, <1>2, <1>3, <1>4, <1>6, <1>8, <1>9
  <2>3. ~Live => pnl_matured_pos_tot' = pnl_pos_tot'
    BY <1>6, <1>8
  <2>4. QED
    BY <1>8, <2>1, <2>2, <2>3 DEF TotalsExact, Live
<1>14. QED
  BY <1>1, <1>8, <1>10, <1>11, <1>12, <1>13
     DEF ReserveInv, ReserveWellFormed, NeverCorrupt, Live

\* resolve_market makes every positive claim a released one.
LEMMA ResolveStep ==
    ASSUME ReserveInv, ResolveMarket
    PROVE  ReserveInv'
<1>1. /\ a' = a /\ pnl_pos_tot' = pnl_pos_tot /\ residual' = residual
      /\ current_slot' = current_slot /\ sticky' = sticky /\ corrupt' = corrupt
      /\ pnl_matured_pos_tot' = pnl_pos_tot /\ rest' = [rest EXCEPT !.matured = rest.pos]
      /\ market_mode' = "Resolved"
  BY DEF ResolveMarket
<1>2. rest \in [pos : Nat, matured : Nat]
  BY DEF ReserveInv, TypeOK
<1>3. /\ rest' \in [pos : Nat, matured : Nat]
      /\ rest'.pos = rest.pos /\ rest'.matured = rest.pos /\ rest.pos \in Nat
  BY <1>1, <1>2
<1>4. TypeOK'
  BY <1>1, <1>3 DEF ReserveInv, TypeOK
<1>5. TotalsExact'
  BY <1>1, <1>3 DEF ReserveInv, TotalsExact, Live
<1>6. QED
  BY <1>1, <1>3, <1>4, <1>5 DEF ReserveInv, ReserveWellFormed, NeverCorrupt, Live

\* reconcile_resolved never underflows the totals, whatever PnL the terminal
\* settlement sets.
LEMMA ReconcileStep ==
    ASSUME ReserveInv, NEW new \in PnlValues, ReconcileResolved(new)
    PROVE  ReserveInv'
<1> DEFINE b == ClearReserve(a)
           c == [b EXCEPT !.pnl = new]
           g == Pos(new) - Pos(a.pnl)
<1>1. /\ a \in AccountType /\ rest \in [pos : Nat, matured : Nat]
      /\ pnl_pos_tot \in Nat
  BY DEF ReserveInv, TypeOK, AccountType
<1>2. a.pnl \in Int /\ rest.pos \in Nat /\ new \in Int
  BY <1>1, ReserveAssumption DEF AccountType
<1>3. Pos(a.pnl) \in Nat /\ Pos(new) \in Nat
  BY <1>2 DEF Pos
<1>4. ~Live /\ pnl_pos_tot = Pos(a.pnl) + rest.pos /\ pnl_matured_pos_tot = pnl_pos_tot
      /\ rest.matured = rest.pos
  BY DEF ReserveInv, TotalsExact, ReconcileResolved
<1>5. NoSched \in SchedType /\ NoPending \in PendingType
  BY DEF NoSched, NoPending, SchedType, PendingType
<1>6. /\ b \in AccountType /\ b.pnl = a.pnl /\ b.reserved_pnl = 0
  BY <1>1, <1>5 DEF AccountType, ClearReserve
<1>7. Gain(b, new) = g
  BY <1>6 DEF Gain
<1> HIDE DEF b
<1>8. c \in AccountType /\ c.pnl = new /\ c.reserved_pnl = 0
  BY <1>2, <1>6 DEF AccountType
<1> HIDE DEF c
<1>9. pnl_pos_tot + g \in Nat /\ pnl_pos_tot + g = Pos(new) + rest.pos
  BY <1>2, <1>3, <1>4
<1> HIDE DEF g
<1>10. /\ a' = c /\ pnl_pos_tot' = pnl_pos_tot + g /\ pnl_matured_pos_tot' = pnl_pos_tot + g
       /\ rest' = rest /\ residual' = residual
       /\ current_slot' = current_slot /\ sticky' = sticky
       /\ market_mode' = market_mode /\ corrupt' = corrupt
  BY <1>4, <1>7, <1>9 DEF ReconcileResolved, env, b, c
<1>11. TypeOK'
  BY <1>8, <1>9, <1>10 DEF ReserveInv, TypeOK, AccountType
<1>12. TotalsExact'
  BY <1>4, <1>8, <1>9, <1>10 DEF TotalsExact, Live
<1>13. QED
  BY <1>3, <1>4, <1>8, <1>10, <1>11, <1>12
     DEF ReserveInv, ReserveWellFormed, NeverCorrupt, Live

\* Time only lets the schedule release more.
LEMMA TickStep ==
    ASSUME ReserveInv, Tick
    PROVE  ReserveInv'
<1>1. /\ a' = a /\ pnl_pos_tot' = pnl_pos_tot /\ pnl_matured_pos_tot' = pnl_matured_pos_tot
      /\ rest' = rest /\ residual' = residual /\ market_mode' = market_mode
      /\ corrupt' = corrupt /\ current_slot' = current_slot + 1 /\ sticky' = FALSE
  BY DEF Tick, totals, env
<1>2. current_slot \in Nat
  BY DEF ReserveInv, TypeOK
<1>3. TypeOK'
  <2>1. current_slot' \in Nat
    BY <1>1, <1>2
  <2>2. sticky' \in BOOLEAN
    BY <1>1
  <2>3. QED
    BY <1>1, <2>1, <2>2, Zenon DEF ReserveInv, TypeOK
<1>4. Live => BucketOnSchedule(a.sched, current_slot + 1)
  <2>1. SUFFICES ASSUME Live, a.sched.present
                 PROVE  /\ a.sched.start <= current_slot + 1
                        /\ a.sched.release <= ScheduledTotal(a.sched, current_slot + 1)
    BY DEF BucketOnSchedule
  <2> DEFINE b == a.sched
  <2>2. a \in AccountType /\ ShapeOk(a) /\ BucketOnSchedule(b, current_slot)
    BY <2>1, LiveFacts
  <2>3. b \in SchedType /\ b.horizon > 0
    BY <2>1, <2>2 DEF AccountType, ShapeOk, SchedShapeOk, HorizonOk
  <2>4. b.start <= current_slot /\ b.release <= ScheduledTotal(b, current_slot)
    BY <2>1, <2>2 DEF BucketOnSchedule
  <2> HIDE DEF b
  <2>5. b.start \in Nat /\ b.release \in Nat /\ b.start <= current_slot + 1
    BY <1>2, <2>3, <2>4 DEF SchedType
  <2>6. ScheduledTotal(b, current_slot) <= ScheduledTotal(b, current_slot + 1)
    BY <1>2, <2>3, <2>4, ScheduleMonotone
  <2>7. ScheduledTotal(b, current_slot) \in Nat /\ ScheduledTotal(b, current_slot + 1) \in Nat
    <3>1. current_slot + 1 \in Nat
      BY <1>2
    <3>2. QED
      BY <1>2, <2>3, <2>4, <2>5, <3>1, ScheduleBounds
  <2>8. b.release <= ScheduledTotal(b, current_slot + 1)
    BY <2>4, <2>5, <2>6, <2>7
  <2>9. QED
    BY <2>5, <2>8 DEF b
<1>5. QED
  BY <1>1, <1>3, <1>4 DEF ReserveInv, ReserveWellFormed, TotalsExact, NeverCorrupt, Live

\* Whatever the other accounts do, the totals follow.
LEMMA OthersStep ==
    ASSUME ReserveInv, NEW pos \in 0..MaxRest, NEW matured \in 0..MaxRest,
           NEW r \in ResidualValues, OthersChange(pos, matured, r)
    PROVE  ReserveInv'
<1>1. /\ a' = a /\ current_slot' = current_slot /\ sticky' = sticky
      /\ market_mode' = market_mode /\ corrupt' = corrupt
      /\ rest' = [pos |-> pos, matured |-> matured] /\ residual' = r
      /\ pnl_pos_tot' = pnl_pos_tot - rest.pos + pos
      /\ pnl_matured_pos_tot' = pnl_matured_pos_tot - rest.matured + matured
      /\ matured <= pos /\ (~Live => matured = pos)
  BY DEF OthersChange
<1>2. pos \in Nat /\ matured \in Nat /\ r \in Nat
  BY ReserveAssumption
<1>3. /\ a \in AccountType /\ rest \in [pos : Nat, matured : Nat]
      /\ pnl_pos_tot \in Nat /\ pnl_matured_pos_tot \in Nat
      /\ a.reserved_pnl <= Pos(a.pnl) /\ (~Live => rest.matured = rest.pos)
  BY DEF ReserveInv, TypeOK, AccountType
<1>4. a.pnl \in Int /\ a.reserved_pnl \in Nat /\ rest.pos \in Nat /\ rest.matured \in Nat
  BY <1>3 DEF AccountType
<1>5. Pos(a.pnl) \in Nat
  BY <1>4 DEF Pos
<1>6. /\ pnl_pos_tot = Pos(a.pnl) + rest.pos
      /\ Live => pnl_matured_pos_tot = (Pos(a.pnl) - a.reserved_pnl) + rest.matured
      /\ ~Live => pnl_matured_pos_tot = pnl_pos_tot
  BY DEF ReserveInv, TotalsExact
<1>7. /\ rest'.pos = pos /\ rest'.matured = matured
      /\ rest' \in [pos : Nat, matured : Nat]
  BY <1>1, <1>2
<1>8. pnl_pos_tot' = Pos(a.pnl) + pos
  BY <1>1, <1>2, <1>3, <1>4, <1>5, <1>6
<1>9. Live => pnl_matured_pos_tot' = (Pos(a.pnl) - a.reserved_pnl) + matured
  BY <1>1, <1>2, <1>3, <1>4, <1>5, <1>6
<1>10. ~Live => pnl_matured_pos_tot' = pnl_pos_tot'
  BY <1>1, <1>2, <1>3, <1>4, <1>5, <1>6
<1>11. TypeOK'
  <2>1. pnl_pos_tot' \in Nat /\ pnl_matured_pos_tot' \in Nat
    BY <1>2, <1>3, <1>4, <1>5, <1>8, <1>9, <1>10
  <2>2. QED
    BY <1>1, <1>2, <1>7, <2>1 DEF ReserveInv, TypeOK
<1>12. TotalsExact'
  BY <1>1, <1>7, <1>8, <1>9, <1>10 DEF TotalsExact, Live
<1>13. QED
  BY <1>1, <1>7, <1>11, <1>12 DEF ReserveInv, ReserveWellFormed, NeverCorrupt, Live

\* A step that leaves everything but the sticky flag alone.
LEMMA IdleStep ==
    ASSUME ReserveInv, NewInstruction \/ UNCHANGED vars
    PROVE  ReserveInv'
<1>1. /\ a' = a /\ pnl_pos_tot' = pnl_pos_tot /\ pnl_matured_pos_tot' = pnl_matured_pos_tot
      /\ rest' = rest /\ residual' = residual /\ market_mode' = market_mode
      /\ corrupt' = corrupt /\ current_slot' = current_slot
      /\ (sticky' = FALSE \/ sticky' = sticky)
  BY DEF NewInstruction, vars, totals, env
<1>2. TypeOK'
  BY <1>1 DEF ReserveInv, TypeOK
<1>3. QED
  BY <1>1, <1>2 DEF ReserveInv, ReserveWellFormed, TotalsExact, NeverCorrupt, Live

\* A fresh account in an empty market satisfies the invariant.
LEMMA ReserveInitially == Init => ReserveInv
<1> SUFFICES ASSUME Init PROVE ReserveInv
  OBVIOUS
<1>1. NoSched \in SchedType /\ NoPending \in PendingType /\ NoSched.remaining = 0
      /\ NoPending.remaining = 0 /\ ~NoSched.present /\ ~NoPending.present
  BY DEF NoSched, NoPending, SchedType, PendingType
<1>2. /\ a \in AccountType /\ a.pnl = 0 /\ a.reserved_pnl = 0
      /\ a.sched = NoSched /\ a.pending = NoPending
  BY <1>1 DEF Init, AccountType
<1>3. Pos(a.pnl) = 0
  BY <1>2 DEF Pos
<1>4. ShapeOk(a) /\ BucketOnSchedule(a.sched, current_slot)
  <2>1. SchedShapeOk(NoSched) /\ PendingShapeOk(NoPending)
        /\ BucketOnSchedule(NoSched, current_slot)
    BY <1>1 DEF SchedShapeOk, PendingShapeOk, BucketOnSchedule
  <2>2. QED
    BY <1>1, <1>2, <1>3, <2>1 DEF ShapeOk
<1>5. TypeOK
  BY <1>2 DEF Init, TypeOK, AccountType
<1>6. TotalsExact
  BY <1>2, <1>3 DEF Init, TotalsExact, Live
<1>7. QED
  BY <1>2, <1>3, <1>4, <1>5, <1>6 DEF Init, ReserveInv, ReserveWellFormed, NeverCorrupt, Live

\* Every step of the specification preserves the invariant.
LEMMA ReserveInductive == ReserveInv /\ [Next]_vars => ReserveInv'
<1> SUFFICES ASSUME ReserveInv, [Next]_vars PROVE ReserveInv'
  OBVIOUS
<1>1. ASSUME NEW new \in PnlValues, NEW lo \in 0..h_max, NEW hi \in 0..h_max,
             SetPnl(new, lo, hi)
      PROVE  ReserveInv'
  BY <1>1, SetPnlStep
<1>2. ASSUME NEW x \in 1..ReleasedPos(a), ConsumeReleased(x)
      PROVE  ReserveInv'
  BY <1>2, ConsumeStep
<1>3. ASSUME NEW new \in PnlValues, ReconcileResolved(new)
      PROVE  ReserveInv'
  BY <1>3, ReconcileStep
<1>4. ASSUME NEW pos \in 0..MaxRest, NEW matured \in 0..MaxRest,
             NEW r \in ResidualValues, OthersChange(pos, matured, r)
      PROVE  ReserveInv'
  BY <1>4, OthersStep
<1>5. CASE AdmitOutstanding \/ Advance
  BY <1>5, AdmitOutstandingStep, AdvanceStep, Zenon
<1>6. CASE ResolveMarket \/ Tick
  BY <1>6, ResolveStep, TickStep, Zenon
<1>7. CASE NewInstruction \/ UNCHANGED vars
  BY <1>7, IdleStep, Zenon
<1>8. QED
  BY <1>1, <1>2, <1>3, <1>4, <1>5, <1>6, <1>7, Zenon DEF Next

\* The inductive invariant holds in every reachable state, for every horizon
\* range and every sequence of PnL values.
THEOREM ReserveInvariant == Spec => []ReserveInv
  BY ReserveInitially, ReserveInductive, PTL DEF Spec

\* Account, buckets and totals keep the types of the source: no reserve or
\* total ever goes negative.
THEOREM ReserveTypeCorrect == Spec => []TypeOK
<1>1. ReserveInv => TypeOK
  BY DEF ReserveInv
<1>2. QED
  BY <1>1, ReserveInvariant, PTL

\* validate_reserve_shape holds of the account whenever the market is live.
THEOREM ReserveShapeKept == Spec => []ReserveWellFormed
<1>1. ReserveInv => ReserveWellFormed
  BY DEF ReserveInv
<1>2. QED
  BY <1>1, ReserveInvariant, PTL

\* pnl_pos_tot and pnl_matured_pos_tot are the exact sums in both modes.
THEOREM ReserveTotalsExact == Spec => []TotalsExact
<1>1. ReserveInv => TotalsExact
  BY DEF ReserveInv
<1>2. QED
  BY <1>1, ReserveInvariant, PTL

\* The scheduled bucket never runs ahead of its linear schedule.
THEOREM ReserveOnSchedule == Spec => []OnSchedule
<1>1. ReserveInv => OnSchedule
  BY DEF ReserveInv, OnSchedule, BucketOnSchedule
<1>2. QED
  BY <1>1, ReserveInvariant, PTL

\* No reserve helper ever returns CorruptState.
THEOREM ReserveNeverCorrupt == Spec => []NeverCorrupt
<1>1. ReserveInv => NeverCorrupt
  BY DEF ReserveInv
<1>2. QED
  BY <1>1, ReserveInvariant, PTL

-----------------------------------------------------------------------------
(* Admission: what may be released beyond the residual. *)

\* The body of UnbackedOnlyByWarmup.
WarmupStep ==
    /\ Live' /\ UNCHANGED env
    /\ pnl_matured_pos_tot' > pnl_matured_pos_tot
    /\ pnl_matured_pos_tot' > residual
    => /\ a'.pnl = a.pnl
       /\ a.sched.present
       /\ pnl_matured_pos_tot' - pnl_matured_pos_tot
            <= ScheduledTotal(a.sched, current_slot) - a.sched.release

\* One call of advance_profit_warmup releases no more than the schedule of
\* the bucket it found has accrued; a bucket it promotes itself releases
\* nothing in the same slot.
LEMMA AdvanceBound ==
    ASSUME NEW x \in AccountType, NEW now \in Nat, ShapeOk(x),
           BucketOnSchedule(x.sched, now),
           AdvanceWarmup(x, now).reserved_pnl # x.reserved_pnl
    PROVE  /\ x.sched.present
           /\ x.reserved_pnl - AdvanceWarmup(x, now).reserved_pnl
                <= ScheduledTotal(x.sched, now) - x.sched.release
<1> DEFINE p == PromotePending(x, now)
           b == p.sched
           t == ScheduledTotal(b, now)
           rel == WarmupRelease(b, now)
           q == [p EXCEPT !.sched.remaining = @ - rel, !.sched.release = t,
                          !.reserved_pnl = @ - rel]
<1>1. AdvanceWarmup(x, now) = PromoteWhenEmpty(q, now)
  BY DEF AdvanceWarmup, Advanced
<1>2. /\ p \in AccountType /\ ShapeOk(p) /\ BucketOnSchedule(b, now)
      /\ p.reserved_pnl = x.reserved_pnl
      /\ ~b.present => x.reserved_pnl = 0
  BY PromoteFacts
<1>3. b.present
  <2>1. x.reserved_pnl # 0
    BY DEF AdvanceWarmup
  <2>2. QED
    BY <1>2, <2>1
<1>4. /\ b \in SchedType /\ p.reserved_pnl \in Nat /\ b.horizon > 0
      /\ b.start <= now /\ b.release <= t
  BY <1>2, <1>3 DEF AccountType, ShapeOk, SchedShapeOk, HorizonOk, BucketOnSchedule
<1>5. t \in Nat
  BY <1>4, ScheduleBounds
<1>6. rel \in Int /\ rel <= t - b.release /\ b.release \in Nat /\ b.remaining \in Nat
  <2>1. b.release \in Nat /\ b.remaining \in Nat
    BY <1>4 DEF SchedType
  <2> HIDE DEF b, t
  <2>2. QED
    BY <1>5, <2>1 DEF WarmupRelease, Lesser, t
<1>7. q.reserved_pnl = p.reserved_pnl - rel
  <2> HIDE DEF b, t, rel, p
  <2>1. QED
    BY <1>2 DEF AccountType
<1>8. PromoteWhenEmpty(q, now).reserved_pnl = q.reserved_pnl
  <2>1. q \in [pnl : Int, reserved_pnl : Int,
               sched : [present : BOOLEAN, remaining : Int, anchor : Nat,
                        start : Nat, horizon : Nat, release : Nat],
               pending : PendingType]
    <3> DEFINE nb == [b EXCEPT !.remaining = b.remaining - rel, !.release = t]
               S == [present : BOOLEAN, remaining : Int, anchor : Nat,
                     start : Nat, horizon : Nat, release : Nat]
    <3>1. q = [p EXCEPT !.sched = nb, !.reserved_pnl = p.reserved_pnl - rel]
      BY <1>2 DEF AccountType
    <3>2. nb \in S
      <4>1. b.remaining - rel \in Int
        BY <1>6
      <4> DEFINE rem == b.remaining - rel
      <4> HIDE DEF b, t, rem
      <4>2. rem \in Int
        BY <4>1 DEF rem
      <4>3. QED
        BY <1>4, <1>5, <4>2 DEF SchedType, rem
    <3>3. p.reserved_pnl - rel \in Int
      BY <1>4, <1>6
    <3> HIDE DEF nb, q, p, rel, S
    <3>4. QED
      BY <1>2, <3>1, <3>2, <3>3 DEF AccountType, S
  <2> HIDE DEF q
  <2>2. QED
    BY <2>1 DEF PromoteWhenEmpty, PromotePending
<1>9. x.reserved_pnl - AdvanceWarmup(x, now).reserved_pnl = rel /\ rel # 0
  <2> DEFINE w == AdvanceWarmup(x, now).reserved_pnl
  <2>1. w = p.reserved_pnl - rel
    BY <1>1, <1>7, <1>8
  <2>2. w # x.reserved_pnl
    OBVIOUS
  <2> HIDE DEF w, rel, p
  <2>3. x.reserved_pnl - w = rel /\ rel # 0
    BY <1>2, <1>4, <1>6, <2>1, <2>2
  <2>4. QED
    BY <2>3 DEF w
<1>10. CASE x.sched.present
  <2>1. b = x.sched
    BY <1>10 DEF PromotePending
  <2>2. QED
    BY <1>6, <1>9, <1>10, <2>1
<1>11. CASE ~x.sched.present
  <2>1. x.pending.present
    BY <1>3, <1>11 DEF PromotePending
  <2>2. b.start = now /\ b.release = 0
    BY <1>11, <2>1 DEF PromotePending, AccountType
  <2>3. t = 0
    <3>1. now - b.start = 0
      BY <2>2
    <3>2. t = (b.anchor * 0) \div b.horizon
      BY <1>4, <3>1 DEF ScheduledTotal, SchedType
    <3>3. b.anchor \in Nat /\ b.horizon \in Nat \ {0}
      BY <1>4 DEF SchedType
    <3> HIDE DEF b, t
    <3>4. b.anchor * 0 = 0
      BY <3>3
    <3>5. 0 \div b.horizon <= 0
      BY <3>3, DivMost
    <3>6. QED
      BY <1>5, <3>2, <3>4, <3>5
  <2>4. rel = 0
    <3>1. b.remaining \in Nat
      BY <1>6
    <3> HIDE DEF b, t
    <3>2. QED
      BY <2>2, <2>3, <3>1 DEF WarmupRelease, Lesser, t
  <2>5. QED
    BY <1>9, <2>4
<1>12. QED
  BY <1>10, <1>11

\* Every step that releases more than the residual backs is a warmup step.
LEMMA UnbackedStep == ReserveInv /\ [Next]_vars => WarmupStep
<1> SUFFICES ASSUME ReserveInv, [Next]_vars, Live', UNCHANGED env,
                    pnl_matured_pos_tot' > pnl_matured_pos_tot,
                    pnl_matured_pos_tot' > residual
             PROVE  /\ a'.pnl = a.pnl
                    /\ a.sched.present
                    /\ pnl_matured_pos_tot' - pnl_matured_pos_tot
                         <= ScheduledTotal(a.sched, current_slot) - a.sched.release
  BY DEF WarmupStep
<1>1. pnl_matured_pos_tot \in Nat /\ residual \in Nat /\ sticky \in BOOLEAN
      /\ rest' = rest /\ residual' = residual
  BY DEF ReserveInv, TypeOK, env
<1>2. pnl_matured_pos_tot' # pnl_matured_pos_tot
  BY <1>1
<1>3. CASE Advance
  <2> DEFINE b == AdvanceWarmup(a, current_slot)
  <2>1. Live
    BY <1>3 DEF Advance
  <2>2. /\ a \in AccountType /\ ShapeOk(a) /\ BucketOnSchedule(a.sched, current_slot)
        /\ current_slot \in Nat /\ a.reserved_pnl \in Nat
    BY <2>1, LiveFacts
  <2>3. b.pnl = a.pnl /\ b \in AccountType
    BY <2>2, AdvanceFacts
  <2>4. /\ a' = b
        /\ pnl_matured_pos_tot' = pnl_matured_pos_tot + (a.reserved_pnl - b.reserved_pnl)
    BY <1>2, <1>3 DEF Advance, Failed, totals
  <2>5. b.reserved_pnl \in Nat
    BY <2>3 DEF AccountType
  <2>6. b.reserved_pnl # a.reserved_pnl
    <3> HIDE DEF b
    <3>1. QED
      BY <1>1, <1>2, <2>2, <2>4, <2>5
  <2>7. /\ a.sched.present
        /\ a.reserved_pnl - b.reserved_pnl
             <= ScheduledTotal(a.sched, current_slot) - a.sched.release
    BY <2>2, <2>6, AdvanceBound
  <2>8. pnl_matured_pos_tot' - pnl_matured_pos_tot = a.reserved_pnl - b.reserved_pnl
    <3> HIDE DEF b
    <3>1. QED
      BY <1>1, <2>2, <2>4, <2>5
  <2>9. QED
    BY <2>3, <2>4, <2>7, <2>8
<1>4. CASE AdmitOutstanding
  <2>1. Live
    BY <1>4 DEF AdmitOutstanding
  <2>2. ShapeOk(a) /\ a.reserved_pnl \in Nat
    BY <2>1, LiveFacts
  <2>3. pnl_matured_pos_tot' = pnl_matured_pos_tot + a.reserved_pnl
        /\ pnl_matured_pos_tot + a.reserved_pnl <= residual
    BY <1>2, <1>4, <2>2 DEF AdmitOutstanding, Failed, totals
  <2>4. QED
    BY <1>1, <2>2, <2>3
<1>5. ASSUME NEW new \in PnlValues, NEW lo \in 0..h_max, NEW hi \in 0..h_max,
             SetPnl(new, lo, hi)
      PROVE  FALSE
  <2> DEFINE g == Gain(a, new)
             h == AdmittedHorizon(sticky, g, pnl_matured_pos_tot, residual, lo, hi)
             l == ReserveLoss(a, new)
  <2>1. Live /\ AdmissionPairOk(lo, hi)
    BY <1>5 DEF SetPnl
  <2>2. pnl_matured_pos_tot' = MaturedAfter(a, new, h, pnl_matured_pos_tot)
    BY <1>2, <1>5 DEF SetPnl, Failed, totals
  <2>3. a.pnl \in Int /\ a.reserved_pnl \in Nat /\ Pos(a.pnl) \in Nat
    BY <2>1, LiveFacts
  <2>4. new \in Int /\ Pos(new) \in Nat
    BY ReserveAssumption DEF Pos
  <2>5. g \in Int /\ g = Pos(new) - Pos(a.pnl)
    BY <2>3, <2>4 DEF Gain
  <2>6. CASE g > 0
    <3>1. h = 0 /\ pnl_matured_pos_tot' = pnl_matured_pos_tot + g
      BY <1>2, <2>2, <2>6 DEF MaturedAfter
    <3>2. hi # 0
      BY <2>1 DEF AdmissionPairOk
    <3>3. pnl_matured_pos_tot + g <= residual
      <4> HIDE DEF g
      <4>1. QED
        BY <3>1, <3>2 DEF AdmittedHorizon
    <3>4. QED
      BY <1>1, <2>5, <3>1, <3>3
  <2>7. CASE ~(g > 0)
    <3>1. pnl_matured_pos_tot' = pnl_matured_pos_tot - ((Pos(a.pnl) - Pos(new)) - l)
      BY <2>2, <2>7 DEF MaturedAfter
    <3>2. l \in Int /\ l <= Pos(a.pnl) - Pos(new)
      BY <2>3, <2>4 DEF ReserveLoss, Lesser
    <3> HIDE DEF l
    <3>3. QED
      BY <1>1, <2>3, <2>4, <3>1, <3>2
  <2>8. QED
    BY <2>6, <2>7
<1>6. ASSUME NEW x \in 1..ReleasedPos(a), ConsumeReleased(x)
      PROVE  FALSE
  <2>1. x \in Nat /\ pnl_matured_pos_tot' = pnl_matured_pos_tot - x
    BY <1>2, <1>6 DEF ConsumeReleased, Failed, totals
  <2>2. QED
    BY <1>1, <2>1
<1>7. ASSUME NEW pos \in 0..MaxRest, NEW matured \in 0..MaxRest,
             NEW r \in ResidualValues, OthersChange(pos, matured, r)
      PROVE  FALSE
  <2>1. rest'.matured = matured /\ matured \in Nat
        /\ pnl_matured_pos_tot' = pnl_matured_pos_tot - rest.matured + matured
    BY <1>7, ReserveAssumption DEF OthersChange
  <2>2. QED
    BY <1>1, <1>2, <2>1
<1>8. ASSUME NEW new \in PnlValues, ReconcileResolved(new)
      PROVE  FALSE
  BY <1>2, <1>8 DEF ReconcileResolved, Failed, Live, totals
<1>9. CASE ResolveMarket
  BY <1>9 DEF ResolveMarket, Live
<1>10. CASE Tick \/ NewInstruction \/ UNCHANGED vars
  BY <1>2, <1>10 DEF Tick, NewInstruction, vars, totals
<1>11. QED
  BY <1>3, <1>4, <1>5, <1>6, <1>7, <1>8, <1>9, <1>10, Zenon DEF Next

\* Admission preserves h = 1: released claims outgrow the residual only by
\* warming up on schedule, never by a fresh gain or an accelerated release.
THEOREM ReserveAdmissionSound == Spec => UnbackedOnlyByWarmup
<1>1. ReserveInv /\ [Next]_vars => [WarmupStep]_vars
  BY UnbackedStep
<1>2. Spec => [][WarmupStep]_vars
  BY <1>1, ReserveInvariant, PTL DEF Spec
<1>3. QED
  BY <1>2 DEF UnbackedOnlyByWarmup, WarmupStep
=============================================================================
