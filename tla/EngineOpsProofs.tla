--------------------------- MODULE EngineOpsProofs ---------------------------
(***************************************************************************)
(* What every helper and every instruction of the engine preserves, for    *)
(* every number of accounts, every scale and every limit: the types of the *)
(* fields, the exactness of the aggregates (Books), who has a slot, and    *)
(* what must hold of a market between two instructions (Market).           *)
(*                                                                         *)
(* A helper relates the record before to the record after (Sound, Moved,   *)
(* Traded), also when it fails, so that the lemmas compose the way the     *)
(* calls do.  An instruction ends in a Result.                             *)
(***************************************************************************)
EXTENDS EngineOps, FoldLemmas

-----------------------------------------------------------------------------
(* Types *)

SchedType ==
    [present : BOOLEAN, remaining : Nat, anchor : Int, start : Int, horizon : Int, release : Int]

PendingType == [present : BOOLEAN, remaining : Nat, horizon : Int, created : Int]

AccountType ==
    [capital : Int, pnl : Int, reserved_pnl : Nat, sched : SchedType, pending : PendingType,
     position_basis_q : Int, adl_a_basis : Nat \ {0}, adl_k_snap : Int, f_snap : Int,
     adl_epoch_snap : Int, fee_credits : Int, last_fee_slot : Int]

SideType ==
    [mult : Nat \ {0}, coeff : Int, f : Int, epoch : Int, epoch_start_k : Int,
     f_epoch_start : Int, oi : Int, mode : {"Normal", "DrainOnly", "ResetPending"},
     stored : Int, stale : Int, dust : Int]

ContextType ==
    [lo : Int, hi : Int, touched : SUBSET Accounts, sticky : SUBSET Accounts,
     pending_reset : SUBSET Side]

ResolvedType ==
    [price : Int, slot : Int, k_delta : [Side -> Int], ready : BOOLEAN, h_num : Nat, h_den : Nat]

EngineType ==
    [vault : Int, insurance : Int, c_tot : Int, pnl_pos_tot : Int, pnl_matured_pos_tot : Int,
     neg_pnl_account_count : Int, current_slot : Int, last_market_slot : Int,
     last_oracle_price : Int, market_mode : {"Live", "Resolved"},
     side : [Side -> SideType], acc : [Accounts -> AccountType], used : SUBSET Accounts,
     resolved : ResolvedType, ctx : ContextType, err : {"none", "Reject", "Corrupt"}]

-----------------------------------------------------------------------------
(* The books *)

Bit(cond) == IF cond THEN 1 ELSE 0

Capitals(e) == [i \in Accounts |-> e.acc[i].capital]
Profits(e) == [i \in Accounts |-> Pos(e.acc[i].pnl)]
Releases(e) == [i \in Accounts |-> Pos(e.acc[i].pnl) - e.acc[i].reserved_pnl]
Negatives(e) == [i \in Accounts |-> Bit(e.acc[i].pnl < 0)]
Stored(e, s) == [i \in Accounts |-> Bit(SideOf(e.acc[i].position_basis_q) = s)]

\* The aggregates are the sums over the accounts.
Sums(e) ==
    /\ e.c_tot = Sum(Capitals(e))
    /\ e.pnl_pos_tot = Sum(Profits(e))
    /\ e.pnl_matured_pos_tot =
          IF e.market_mode = "Live" THEN Sum(Releases(e)) ELSE e.pnl_pos_tot
    /\ e.neg_pnl_account_count = Sum(Negatives(e))
    /\ \A s \in Side : e.side[s].stored = Sum(Stored(e, s))

Unclaimed(a) ==
    a.capital = 0 /\ a.pnl = 0 /\ a.reserved_pnl = 0 /\ a.position_basis_q = 0

\* ... no account is overdrawn or has reserved more than it gained, and an
\* unused slot holds nothing.
Books(e) ==
    /\ Sums(e)
    /\ \A i \in Accounts : e.acc[i].capital >= 0 /\ e.acc[i].reserved_pnl <= Pos(e.acc[i].pnl)
    /\ \A i \in Accounts : i \notin e.used => Unclaimed(e.acc[i])

\* A record that has failed is of the right type and otherwise arbitrary.
Good(e) == e \in EngineType /\ (Ok(e) => Books(e))

\* Only accounts in use have been touched.
Tracked(e) == Ok(e) => e.ctx.touched \subseteq e.used

\* Every position is of its side's epoch; while a drained side waits for its
\* reset, of the epoch before, and the side counts all of them as stale.
Age(o) == IF o.mode = "ResetPending" THEN 1 ELSE 0

Aged(o) ==
    /\ o.mode = "ResetPending" => o.oi = 0 /\ o.stale = o.stored
    /\ o.mode # "ResetPending" => o.stale = 0

OfEpoch(a, s, o) == SideOf(a.position_basis_q) = s => a.adl_epoch_snap + Age(o) = o.epoch

Epochs(e) ==
    \A s \in Side : /\ Aged(e.side[s])
                    /\ \A i \in Accounts : OfEpoch(e.acc[i], s, e.side[s])

\* The positions on side s that are of epoch t, by account, and what A was
\* when they were taken.
InForce(acc, s, t) ==
    [i \in Accounts |-> IF SideOf(acc[i].position_basis_q) = s /\ acc[i].adl_epoch_snap = t
                        THEN Abs(acc[i].position_basis_q) ELSE 0]
Bases(acc) == [i \in Accounts |-> acc[i].adl_a_basis]

\* The open interest of a side covers the exact positions on it, and exceeds
\* the effective ones by no more than the side's dust bound.
BacksWith(acc, s, o, oi) ==
    Covers(Accounts, InForce(acc, s, o.epoch), Bases(acc), o.mult, oi, o.dust)
Backs(acc, s, o) == BacksWith(acc, s, o, o.oi)

\* A side that is to be reset has dropped its open interest before its
\* positions.
Pending(e, s) == s \in e.ctx.pending_reset

Covered(e) ==
    e.market_mode = "Live" =>
        \A s \in Side : e.side[s].dust >= 0 /\ (Pending(e, s) \/ Backs(e.acc, s, e.side[s]))

\* ... between two instructions.
SideBacked(e, s) ==
    e.market_mode = "Live" => e.side[s].dust >= 0 /\ Backs(e.acc, s, e.side[s])

Backed(e) == \A s \in Side : SideBacked(e, s)

\* What is left alone by every helper between the start and the end of an
\* instruction, ...
Alike(e, f) ==
    /\ f.used = e.used /\ f.market_mode = e.market_mode /\ f.resolved = e.resolved
    /\ Ok(f) => Ok(e)
    /\ Tracked(e) => Tracked(f)
    /\ Ok(f) /\ e.used = {} => f.vault = e.vault /\ f.insurance = e.insurance

\* ... and what is kept by every complete one.
Kept(e, f) ==
    /\ Alike(e, f)
    /\ Ok(f) /\ Epochs(e) => Epochs(f)
    /\ Ok(f) /\ Epochs(e) /\ Covered(e) => Covered(f)

\* Nobody has a position.
Flat(e) == \A i \in Accounts : e.acc[i].position_basis_q = 0

\* Money has moved in or out of the vault, ...
Moved(e, f) == Good(f) /\ Kept(e, f) /\ (Ok(f) /\ Flat(e) => Flat(f))

\* ... or only between those who have a claim on it ...
Sound(e, f) == Moved(e, f) /\ f.vault = e.vault

\* ... in a trade, which may open positions where nobody had one.
Traded(e, f) == Good(f) /\ Kept(e, f) /\ f.vault = e.vault

\* A part of a helper, after which the epochs may be out of order.
Written(e, f) == Good(f) /\ Alike(e, f) /\ f.vault = e.vault
Drafted(e, f) == Written(e, f) /\ (Ok(f) /\ Flat(e) => Flat(f))

Member(e, i) == i \in Accounts /\ (Ok(e) => i \in e.used)

-----------------------------------------------------------------------------
(* Basic facts *)

\* What the proofs use of the constants.
LEMMA Consts ==
    /\ IsFiniteSet(Accounts) /\ Accounts \subseteq Nat
    /\ POS_SCALE \in Nat \ {0} /\ ADL_ONE \in Nat \ {0} /\ FUNDING_DEN \in Nat \ {0}
    /\ BPS \in Nat \ {0}
    /\ insurance_floor \in Nat /\ I128_MAX \in Nat /\ MAX_ORACLE_PRICE \in Nat
    /\ h_min \in Nat /\ h_max \in Nat
  BY EngineAssumption, HorizonAssumption

\* The fields of the record are of their types: the engine's, ...
LEMMA EngineFields ==
    ASSUME NEW e \in EngineType
    PROVE  /\ e.vault \in Int /\ e.insurance \in Int /\ e.c_tot \in Int
           /\ e.pnl_pos_tot \in Int /\ e.pnl_matured_pos_tot \in Int
           /\ e.neg_pnl_account_count \in Int /\ e.current_slot \in Int
           /\ e.last_market_slot \in Int /\ e.last_oracle_price \in Int
           /\ e.market_mode \in {"Live", "Resolved"}
           /\ e.side \in [Side -> SideType] /\ e.acc \in [Accounts -> AccountType]
           /\ e.used \in SUBSET Accounts /\ e.resolved \in ResolvedType
           /\ e.ctx \in ContextType /\ e.err \in {"none", "Reject", "Corrupt"}
  BY DEF EngineType

\* ... an account's ...
LEMMA AccountFields ==
    ASSUME NEW a \in AccountType
    PROVE  /\ a.capital \in Int /\ a.pnl \in Int /\ a.reserved_pnl \in Nat
           /\ a.sched \in SchedType /\ a.pending \in PendingType
           /\ a.position_basis_q \in Int /\ a.adl_a_basis \in Nat \ {0}
           /\ a.adl_k_snap \in Int /\ a.f_snap \in Int /\ a.adl_epoch_snap \in Int
           /\ a.fee_credits \in Int /\ a.last_fee_slot \in Int
  BY DEF AccountType

\* ... and a side's.
LEMMA SideFields ==
    ASSUME NEW o \in SideType
    PROVE  /\ o.mult \in Nat \ {0} /\ o.coeff \in Int /\ o.f \in Int /\ o.epoch \in Int
           /\ o.epoch_start_k \in Int /\ o.f_epoch_start \in Int /\ o.oi \in Int
           /\ o.mode \in {"Normal", "DrainOnly", "ResetPending"}
           /\ o.stored \in Int /\ o.stale \in Int /\ o.dust \in Int
  BY DEF SideType

\* max(x, 0)
LEMMA PosInt == ASSUME NEW x \in Int PROVE Pos(x) \in Nat /\ Pos(x) >= x
  BY DEF Pos

\* |x|
LEMMA AbsNat == ASSUME NEW x \in Int PROVE Abs(x) \in Nat
  BY DEF Abs

-----------------------------------------------------------------------------
(* The positions in force *)

\* They are natural numbers, and A was positive.
LEMMA InForceNat ==
    ASSUME NEW acc \in [Accounts -> AccountType], NEW s, NEW t
    PROVE  InForce(acc, s, t) \in [Accounts -> Nat] /\ Bases(acc) \in [Accounts -> Nat \ {0}]
<1>1. \A i \in Accounts : Abs(acc[i].position_basis_q) \in Nat /\ acc[i].adl_a_basis \in Nat \ {0}
  BY AccountFields, AbsNat
<1>2. QED
  BY <1>1 DEF InForce, Bases

\* Nobody's position differs between acc and bcc.
SamePositions(acc, bcc) ==
    \A i \in Accounts : /\ bcc[i].position_basis_q = acc[i].position_basis_q
                        /\ bcc[i].adl_a_basis = acc[i].adl_a_basis
                        /\ bcc[i].adl_epoch_snap = acc[i].adl_epoch_snap

\* The cover of a side does not change when the positions, A and the open
\* interest do not, and the dust does not shrink.
SameCover(o, p) == p.epoch = o.epoch /\ p.mult = o.mult /\ p.oi = o.oi /\ p.dust >= o.dust

LEMMA BacksSame ==
    ASSUME NEW acc \in [Accounts -> AccountType], NEW bcc, SamePositions(acc, bcc),
           NEW s, NEW o \in SideType, NEW p \in SideType, SameCover(o, p), Backs(acc, s, o)
    PROVE  Backs(bcc, s, p)
<1>1. InForce(bcc, s, p.epoch) = InForce(acc, s, o.epoch) /\ Bases(bcc) = Bases(acc)
  BY DEF InForce, Bases, SamePositions, SameCover
<1>2. o.mult \in Nat /\ o.oi \in Int /\ o.dust \in Int /\ p.dust \in Int
  BY SideFields
<1>3. Covers(Accounts, InForce(acc, s, o.epoch), Bases(acc), o.mult, o.oi, o.dust)
  BY DEF Backs, BacksWith
<1>4. Covers(Accounts, InForce(acc, s, o.epoch), Bases(acc), o.mult, o.oi, p.dust)
  BY <1>2, <1>3, InForceNat, CoversLooser, Consts DEF SameCover
<1>5. QED
  BY <1>1, <1>4 DEF Backs, BacksWith, SameCover

\* The positions, A and the dust are all that the cover by a given open
\* interest rests on.
LEMMA BacksWithSame ==
    ASSUME NEW acc, NEW bcc, SamePositions(acc, bcc), NEW s, NEW o, NEW p, NEW n,
           p.epoch = o.epoch, p.mult = o.mult, p.dust = o.dust, BacksWith(acc, s, o, n)
    PROVE  BacksWith(bcc, s, p, n)
<1>1. InForce(bcc, s, p.epoch) = InForce(acc, s, o.epoch) /\ Bases(bcc) = Bases(acc)
  BY DEF InForce, Bases, SamePositions
<1>2. QED
  BY <1>1 DEF BacksWith

\* The same for both sides.
LEMMA CoveredSame ==
    ASSUME NEW e \in EngineType, NEW f \in EngineType, SamePositions(e.acc, f.acc),
           f.market_mode = e.market_mode, \A s \in Side : SameCover(e.side[s], f.side[s]),
           e.ctx.pending_reset \subseteq f.ctx.pending_reset
    PROVE  Covered(e) => Covered(f)
<1> SUFFICES ASSUME Covered(e), f.market_mode = "Live", NEW s \in Side
             PROVE  f.side[s].dust >= 0 /\ (Pending(f, s) \/ Backs(f.acc, s, f.side[s]))
  BY DEF Covered
<1>1. e.acc \in [Accounts -> AccountType] /\ e.side[s] \in SideType /\ f.side[s] \in SideType
  BY EngineFields
<1>2. e.side[s].dust >= 0 /\ (Pending(e, s) \/ Backs(e.acc, s, e.side[s]))
  BY DEF Covered
<1>3. f.side[s].dust >= 0
  BY <1>1, <1>2, SideFields DEF SameCover
<1>4. Backs(e.acc, s, e.side[s]) => Backs(f.acc, s, f.side[s])
  BY <1>1, BacksSame
<1>5. QED
  BY <1>2, <1>3, <1>4 DEF Pending

-----------------------------------------------------------------------------
(* Replacing one account and the totals that count it *)

Put(e, i, a, c, p, m, n) ==
    [e EXCEPT !.acc[i] = a, !.c_tot = c, !.pnl_pos_tot = p, !.pnl_matured_pos_tot = m,
              !.neg_pnl_account_count = n]

\* Writing one account and the totals keeps the types ...
LEMMA PutType ==
    ASSUME NEW e \in EngineType, NEW i \in Accounts, NEW a \in AccountType,
           NEW c \in Int, NEW p \in Int, NEW m \in Int, NEW n \in Int
    PROVE  Put(e, i, a, c, p, m, n) \in EngineType
  BY DEF Put, EngineType

\* ... and leaves every other field alone.
LEMMA PutFields ==
    ASSUME NEW e \in EngineType, NEW i \in Accounts, NEW a \in AccountType,
           NEW c \in Int, NEW p \in Int, NEW m \in Int, NEW n \in Int,
           NEW f, f = Put(e, i, a, c, p, m, n)
    PROVE  /\ f.acc = [e.acc EXCEPT ![i] = a] /\ f.c_tot = c /\ f.pnl_pos_tot = p
           /\ f.pnl_matured_pos_tot = m /\ f.neg_pnl_account_count = n
           /\ f.vault = e.vault /\ f.insurance = e.insurance /\ f.current_slot = e.current_slot
           /\ f.last_market_slot = e.last_market_slot
           /\ f.last_oracle_price = e.last_oracle_price /\ f.market_mode = e.market_mode
           /\ f.side = e.side /\ f.used = e.used /\ f.resolved = e.resolved /\ f.ctx = e.ctx
           /\ f.err = e.err
  BY DEF Put, EngineType

\* The sums follow when each total changes by what its term changes.
Follows(e, i, a, c, p, m, n) ==
    LET b == e.acc[i]
    IN  /\ c = e.c_tot + (a.capital - b.capital)
        /\ p = e.pnl_pos_tot + (Pos(a.pnl) - Pos(b.pnl))
        /\ e.market_mode = "Live" =>
              m = e.pnl_matured_pos_tot
                    + ((Pos(a.pnl) - a.reserved_pnl) - (Pos(b.pnl) - b.reserved_pnl))
        /\ e.market_mode # "Live" => m = p
        /\ n = e.neg_pnl_account_count + (Bit(a.pnl < 0) - Bit(b.pnl < 0))
        /\ a.position_basis_q = b.position_basis_q
        /\ a.adl_epoch_snap = b.adl_epoch_snap
        /\ a.adl_a_basis = b.adl_a_basis
        /\ a.capital >= 0 /\ a.reserved_pnl <= Pos(a.pnl)

\* The terms of the aggregates are integers.
LEMMA TermTypes ==
    ASSUME NEW e \in EngineType
    PROVE  /\ Capitals(e) \in [Accounts -> Int] /\ Profits(e) \in [Accounts -> Int]
           /\ Releases(e) \in [Accounts -> Int] /\ Negatives(e) \in [Accounts -> Int]
           /\ \A s \in Side : Stored(e, s) \in [Accounts -> Int]
<1>1. ASSUME NEW i \in Accounts
      PROVE  e.acc[i].capital \in Int /\ e.acc[i].pnl \in Int /\ e.acc[i].reserved_pnl \in Int
  BY EngineFields, AccountFields
<1>2. \A i \in Accounts : Pos(e.acc[i].pnl) \in Int
  BY <1>1, PosInt
<1>3. QED
  BY <1>1, <1>2 DEF Capitals, Profits, Releases, Negatives, Stored, Bit

\* A sum over the accounts changes by what one term changes.
LEMMA SumOfUpdate ==
    ASSUME NEW f \in [Accounts -> Int], NEW g \in [Accounts -> Int], NEW i \in Accounts,
           \A j \in Accounts : j # i => g[j] = f[j]
    PROVE  Sum(g) = Sum(f) + (g[i] - f[i])
  BY SumUpdate, Consts DEF Sum

\* A sum over the accounts is an integer.
LEMMA SumType == ASSUME NEW f \in [Accounts -> Int] PROVE Sum(f) \in Int
  BY SumInt, Consts DEF Sum

\* Totals that follow one account's fields stay the sums.
LEMMA PutSums ==
    ASSUME NEW e \in EngineType, NEW i \in Accounts, NEW a \in AccountType,
           NEW c \in Int, NEW p \in Int, NEW m \in Int, NEW n \in Int,
           Sums(e), Follows(e, i, a, c, p, m, n)
    PROVE  Sums(Put(e, i, a, c, p, m, n))
<1> DEFINE f == Put(e, i, a, c, p, m, n)
<1>1. f \in EngineType
  BY PutType
<1>2. /\ f.acc = [e.acc EXCEPT ![i] = a] /\ f.c_tot = c /\ f.pnl_pos_tot = p
      /\ f.pnl_matured_pos_tot = m /\ f.neg_pnl_account_count = n
      /\ f.market_mode = e.market_mode /\ f.side = e.side
  BY PutFields
<1>3. e.acc \in [Accounts -> AccountType]
  BY EngineFields
<1> HIDE DEF f
<1>4. f.acc[i] = a /\ \A j \in Accounts : j # i => f.acc[j] = e.acc[j]
  BY <1>2, <1>3
<1>5. c = Sum(Capitals(f))
  <2>1. Sum(Capitals(f)) = Sum(Capitals(e)) + (Capitals(f)[i] - Capitals(e)[i])
    <3>1. \A j \in Accounts : j # i => Capitals(f)[j] = Capitals(e)[j]
      BY <1>4 DEF Capitals
    <3>2. QED
      BY <1>1, <3>1, TermTypes, SumOfUpdate
  <2>2. QED
    BY <2>1, <1>4 DEF Sums, Follows, Capitals
<1>6. p = Sum(Profits(f))
  <2>1. Sum(Profits(f)) = Sum(Profits(e)) + (Profits(f)[i] - Profits(e)[i])
    <3>1. \A j \in Accounts : j # i => Profits(f)[j] = Profits(e)[j]
      BY <1>4 DEF Profits
    <3>2. QED
      BY <1>1, <3>1, TermTypes, SumOfUpdate
  <2>2. QED
    BY <2>1, <1>4 DEF Sums, Follows, Profits
<1>7. e.market_mode = "Live" => m = Sum(Releases(f))
  <2>1. Sum(Releases(f)) = Sum(Releases(e)) + (Releases(f)[i] - Releases(e)[i])
    <3>1. \A j \in Accounts : j # i => Releases(f)[j] = Releases(e)[j]
      BY <1>4 DEF Releases
    <3>2. QED
      BY <1>1, <3>1, TermTypes, SumOfUpdate
  <2>2. QED
    BY <2>1, <1>4 DEF Sums, Follows, Releases
<1>8. n = Sum(Negatives(f))
  <2>1. Sum(Negatives(f)) = Sum(Negatives(e)) + (Negatives(f)[i] - Negatives(e)[i])
    <3>1. \A j \in Accounts : j # i => Negatives(f)[j] = Negatives(e)[j]
      BY <1>4 DEF Negatives
    <3>2. QED
      BY <1>1, <3>1, TermTypes, SumOfUpdate
  <2>2. QED
    BY <2>1, <1>4 DEF Sums, Follows, Negatives
<1>9. \A s \in Side : Stored(f, s) = Stored(e, s)
  <2>1. \A j \in Accounts : f.acc[j].position_basis_q = e.acc[j].position_basis_q
    BY <1>4 DEF Follows
  <2>2. QED
    BY <2>1 DEF Stored
<1>10. e.market_mode # "Live" => m = p
  BY DEF Follows
<1>11. QED
  BY <1>2, <1>5, <1>6, <1>7, <1>8, <1>9, <1>10 DEF Sums, f

\* Replacing one account, with the totals following, is sound.
LEMMA PutSound ==
    ASSUME NEW e, Good(e), NEW i, Member(e, i), NEW a \in AccountType,
           NEW c \in Int, NEW p \in Int, NEW m \in Int, NEW n \in Int,
           Ok(e) => Follows(e, i, a, c, p, m, n)
    PROVE  Sound(e, Put(e, i, a, c, p, m, n))
<1> DEFINE f == Put(e, i, a, c, p, m, n)
<1>1. e \in EngineType /\ i \in Accounts /\ e.acc \in [Accounts -> AccountType]
  BY EngineFields DEF Good, Member
<1>2. f \in EngineType
  BY <1>1, PutType
<1>3. /\ f.acc = [e.acc EXCEPT ![i] = a] /\ f.market_mode = e.market_mode
      /\ f.used = e.used /\ f.resolved = e.resolved /\ f.err = e.err /\ f.ctx = e.ctx
      /\ f.vault = e.vault /\ f.insurance = e.insurance
  BY <1>1 DEF Put, EngineType
<1>4. ASSUME Ok(e) PROVE Books(f)
  <2>1. Books(e) /\ Follows(e, i, a, c, p, m, n) /\ i \in e.used
    BY <1>4 DEF Good, Member
  <2>2. Sums(f)
    BY <1>1, <2>1, PutSums DEF Books
  <2> HIDE DEF f
  <2>3. \A j \in Accounts : f.acc[j] = IF j = i THEN a ELSE e.acc[j]
    BY <1>1, <1>3
  <2>4. \A j \in Accounts : f.acc[j].capital >= 0 /\ f.acc[j].reserved_pnl <= Pos(f.acc[j].pnl)
    BY <2>1, <2>3 DEF Books, Follows
  <2>5. \A j \in Accounts : j \notin f.used => Unclaimed(f.acc[j])
    BY <1>3, <2>1, <2>3 DEF Books
  <2>6. QED
    BY <2>2, <2>4, <2>5 DEF Books
<1>5. ASSUME Ok(e), Flat(e) PROVE Flat(f)
  <2>1. a.position_basis_q = e.acc[i].position_basis_q
    BY <1>5 DEF Follows
  <2>2. \A j \in Accounts : f.acc[j] = IF j = i THEN a ELSE e.acc[j]
    BY <1>1, <1>3
  <2> HIDE DEF f
  <2>3. QED
    BY <1>1, <1>5, <2>1, <2>2 DEF Flat
<1>6. ASSUME Ok(e), Epochs(e) PROVE Epochs(f)
  <2>1. a.position_basis_q = e.acc[i].position_basis_q /\ a.adl_epoch_snap = e.acc[i].adl_epoch_snap
    BY <1>6 DEF Follows
  <2>2. \A j \in Accounts : f.acc[j] = IF j = i THEN a ELSE e.acc[j]
    BY <1>1, <1>3
  <2>3. f.side = e.side
    BY <1>1 DEF Put, EngineType
  <2> HIDE DEF f
  <2>4. QED
    BY <1>6, <2>1, <2>2, <2>3 DEF Epochs, OfEpoch
<1>7. ASSUME Ok(e), Covered(e) PROVE Covered(f)
  <2>1. /\ a.position_basis_q = e.acc[i].position_basis_q
        /\ a.adl_epoch_snap = e.acc[i].adl_epoch_snap /\ a.adl_a_basis = e.acc[i].adl_a_basis
    BY <1>7 DEF Follows
  <2>2. \A j \in Accounts : f.acc[j] = IF j = i THEN a ELSE e.acc[j]
    BY <1>1, <1>3
  <2>3. f.side = e.side
    BY <1>1 DEF Put, EngineType
  <2> HIDE DEF f
  <2>4. SamePositions(e.acc, f.acc)
    BY <2>1, <2>2 DEF SamePositions
  <2>5. \A s \in Side : SameCover(e.side[s], f.side[s])
    BY <1>1, <2>3, EngineFields, SideFields DEF SameCover
  <2>6. QED
    BY <1>1, <1>2, <1>3, <1>7, <2>4, <2>5, CoveredSame
<1>8. QED
  BY <1>2, <1>3, <1>4, <1>5, <1>6, <1>7 DEF Sound, Moved, Good, Kept, Alike, Ok, Tracked

-----------------------------------------------------------------------------
(* Updates that touch no account and no total *)

SameBooks(e, f) ==
    /\ f.acc = e.acc /\ f.c_tot = e.c_tot /\ f.pnl_pos_tot = e.pnl_pos_tot
    /\ f.pnl_matured_pos_tot = e.pnl_matured_pos_tot
    /\ f.neg_pnl_account_count = e.neg_pnl_account_count
    /\ f.used = e.used /\ f.market_mode = e.market_mode /\ f.resolved = e.resolved
    /\ \A s \in Side : f.side[s].stored = e.side[s].stored
    /\ Ok(f) => Ok(e) /\ f.ctx.touched \subseteq e.ctx.touched
    /\ f.vault = e.vault
    /\ Ok(f) /\ e.used = {} => f.insurance = e.insurance

\* A write of fields that no total counts keeps the books ...
LEMMA NeutralDrafted ==
    ASSUME NEW e, Good(e), NEW f \in EngineType, SameBooks(e, f)
    PROVE  Drafted(e, f)
<1>1. /\ Capitals(f) = Capitals(e) /\ Profits(f) = Profits(e) /\ Releases(f) = Releases(e)
      /\ Negatives(f) = Negatives(e) /\ \A s \in Side : Stored(f, s) = Stored(e, s)
  BY DEF SameBooks, Capitals, Profits, Releases, Negatives, Stored
<1>2. ASSUME Books(e) PROVE Books(f)
  BY <1>1, <1>2 DEF Books, Sums, SameBooks
<1>3. Flat(e) => Flat(f)
  BY DEF Flat, SameBooks
<1>4. QED
  BY <1>2, <1>3 DEF Drafted, Written, Alike, Good, SameBooks, Tracked

\* ... and, when it leaves the epochs in order, is sound.
LEMMA NeutralSound ==
    ASSUME NEW e, Good(e), NEW f \in EngineType, SameBooks(e, f),
           Ok(e) /\ Epochs(e) => Epochs(f), Ok(e) /\ Epochs(e) /\ Covered(e) => Covered(f)
    PROVE  Sound(e, f)
  BY NeutralDrafted DEF Drafted, Written, Sound, Moved, Kept, Alike

\* The epochs are a matter of the sides and of the accounts.
LEMMA EpochsSame ==
    ASSUME NEW e, NEW f, f.acc = e.acc, f.side = e.side
    PROVE  Epochs(e) => Epochs(f)
  BY DEF Epochs

\* So is what covers the positions.
LEMMA CoverSame ==
    ASSUME NEW e \in EngineType, NEW f \in EngineType, f.acc = e.acc, f.side = e.side,
           f.market_mode = e.market_mode, e.ctx.pending_reset \subseteq f.ctx.pending_reset
    PROVE  Covered(e) => Covered(f)
<1>1. SamePositions(e.acc, f.acc)
  BY DEF SamePositions
<1>2. \A s \in Side : SameCover(e.side[s], f.side[s])
  BY EngineFields, SideFields DEF SameCover
<1>3. QED
  BY <1>1, <1>2, CoveredSame

\* The relations between the records before and after a helper compose:
\* doing nothing is sound, ...
LEMMA SoundRefl == ASSUME NEW e, Good(e) PROVE Sound(e, e)
  BY DEF Sound, Moved, Kept, Alike

\* ... and so is one helper after another, ...
LEMMA SoundTrans ==
    ASSUME NEW e, NEW f, NEW g, Sound(e, f), Sound(f, g)
    PROVE  Sound(e, g)
  BY DEF Sound, Moved, Kept, Alike

\* ... with money moved in or out ...
LEMMA MovedTrans ==
    ASSUME NEW e, NEW f, NEW g, Moved(e, f), Moved(f, g)
    PROVE  Moved(e, g)
  BY DEF Moved, Kept, Alike

\* ... or not, ...
LEMMA SoundMoved == ASSUME NEW e, NEW f, Sound(e, f) PROVE Moved(e, f)
  BY DEF Sound

\* What holds of a trade that opens nothing, and of every other step.
LEMMA TradedSound ==
    ASSUME NEW e, NEW f, Traded(e, f), Ok(f) => ~Flat(e)
    PROVE  Sound(e, f)
  BY DEF Traded, Sound, Moved

\* ... and within a trade.
LEMMA SoundTraded == ASSUME NEW e, NEW f, Sound(e, f) PROVE Traded(e, f)
  BY DEF Traded, Sound, Moved

\* Trades compose too.
LEMMA TradedTrans ==
    ASSUME NEW e, NEW f, NEW g, Traded(e, f), Traded(f, g)
    PROVE  Traded(e, g)
  BY DEF Traded, Kept, Alike

\* An account stays a member across a trade, ...
LEMMA MemberTraded ==
    ASSUME NEW e, NEW f, NEW i, Traded(e, f), Member(e, i)
    PROVE  Member(f, i) /\ Good(f)
  BY DEF Traded, Kept, Alike, Member

\* ... across a movement of money ...
LEMMA MemberMoved ==
    ASSUME NEW e, NEW f, NEW i, Moved(e, f), Member(e, i)
    PROVE  Member(f, i) /\ Good(f)
  BY DEF Moved, Kept, Alike, Member

\* ... and across a sound helper.
LEMMA MemberKept ==
    ASSUME NEW e, NEW f, NEW i, Sound(e, f), Member(e, i)
    PROVE  Member(f, i) /\ Good(f)
  BY DEF Sound, Moved, Kept, Alike, Member

\* Parts of a helper compose as well, ...
LEMMA WrittenTrans ==
    ASSUME NEW e, NEW f, NEW g, Written(e, f), Written(f, g)
    PROVE  Written(e, g)
  BY DEF Written, Alike

\* ... also where they open nothing.
LEMMA DraftedTrans ==
    ASSUME NEW e, NEW f, NEW g, Drafted(e, f), Drafted(f, g)
    PROVE  Drafted(e, g)
  BY WrittenTrans DEF Drafted, Written, Alike

\* A complete helper is also a part of one.
LEMMA SoundDrafted == ASSUME NEW e, NEW f, Sound(e, f) PROVE Drafted(e, f) /\ Written(e, f)
  BY DEF Drafted, Written, Sound, Moved, Kept

\* An account stays a member across a part of a helper.
LEMMA MemberWritten ==
    ASSUME NEW e, NEW f, NEW i, Written(e, f), Member(e, i)
    PROVE  Member(f, i) /\ Good(f)
  BY DEF Written, Alike, Member

\* A failed record keeps everything but err.
LEMMA FailFields ==
    ASSUME NEW e \in EngineType, NEW k \in {"Reject", "Corrupt"}
    PROVE  /\ Fail(e, k) \in EngineType /\ ~Ok(Fail(e, k))
           /\ SameBooks(e, Fail(e, k)) /\ Fail(e, k).side = e.side
           /\ Fail(e, k).vault = e.vault /\ Fail(e, k).insurance = e.insurance
           /\ Fail(e, k).ctx = e.ctx /\ Fail(e, k).current_slot = e.current_slot
  BY DEF Fail, Ok, EngineType, SameBooks

\* A rejected record, ...
LEMMA RejectSound ==
    ASSUME NEW e \in EngineType
    PROVE  /\ Good(Reject(e)) /\ ~Ok(Reject(e)) /\ Kept(e, Reject(e))
           /\ Reject(e).acc = e.acc /\ Reject(e).side = e.side /\ Reject(e).vault = e.vault
           /\ Reject(e).c_tot = e.c_tot /\ Reject(e).insurance = e.insurance
           /\ Reject(e).ctx = e.ctx
  BY FailFields DEF Reject, Good, Kept, Alike, SameBooks, Tracked

\* ... or a corrupt one, keeps everything but the error.
LEMMA CorruptSound ==
    ASSUME NEW e \in EngineType
    PROVE  /\ Good(Corrupt(e)) /\ ~Ok(Corrupt(e)) /\ Kept(e, Corrupt(e))
           /\ Corrupt(e).acc = e.acc /\ Corrupt(e).side = e.side /\ Corrupt(e).vault = e.vault
           /\ Corrupt(e).c_tot = e.c_tot /\ Corrupt(e).insurance = e.insurance
           /\ Corrupt(e).ctx = e.ctx
  BY FailFields DEF Corrupt, Good, Kept, Alike, SameBooks, Tracked

\* A new context is sound, when it forgets no side that is to be reset ...
LEMMA CtxSound ==
    ASSUME NEW e, Good(e), NEW c \in ContextType, c.touched \subseteq e.ctx.touched,
           e.ctx.pending_reset \subseteq c.pending_reset
    PROVE  Sound(e, [e EXCEPT !.ctx = c])
<1>1. [e EXCEPT !.ctx = c] \in EngineType
  BY DEF Good, EngineType
<1>2. SameBooks(e, [e EXCEPT !.ctx = c])
  BY DEF Good, EngineType, SameBooks, Ok
<1>3. /\ [e EXCEPT !.ctx = c].acc = e.acc /\ [e EXCEPT !.ctx = c].side = e.side
      /\ [e EXCEPT !.ctx = c].ctx = c /\ [e EXCEPT !.ctx = c].market_mode = e.market_mode
  BY DEF Good, EngineType
<1>4. QED
  BY <1>1, <1>2, <1>3, EpochsSame, CoverSame, NeutralSound DEF Good

\* The positions are covered between two instructions when they are within one
\* in which no side is to be reset.
LEMMA BackedIdle ==
    ASSUME NEW e
    PROVE  /\ Backed(e) => Covered(e)
           /\ Covered(e) /\ e.ctx.pending_reset = {} => Backed(e)
  BY DEF Backed, SideBacked, Covered, Pending

\* A new context that forgets the sides to be reset, in a record whose
\* positions are covered.
LEMMA CtxDrafted ==
    ASSUME NEW e, Good(e), NEW c \in ContextType, c.touched \subseteq e.ctx.touched,
           NEW f, f = [e EXCEPT !.ctx = c]
    PROVE  /\ Drafted(e, f) /\ (Epochs(e) => Epochs(f)) /\ (Backed(e) => Covered(f))
           /\ f.side = e.side /\ f.acc = e.acc /\ f.ctx = c
<1>1. f \in EngineType /\ SameBooks(e, f)
  BY DEF Good, EngineType, SameBooks, Ok
<1>2. f.acc = e.acc /\ f.side = e.side /\ f.market_mode = e.market_mode /\ f.ctx = c
  BY DEF Good, EngineType
<1>3. Backed(e) => Covered(f)
  BY <1>2 DEF Covered, Backed, SideBacked
<1>4. QED
  BY <1>1, <1>2, <1>3, EpochsSame, NeutralDrafted

\* ... or when none is.
LEMMA CtxBacked ==
    ASSUME NEW e, Good(e), NEW c \in ContextType, c.touched \subseteq e.ctx.touched,
           Ok(e) /\ Epochs(e) /\ Covered(e) => Backed(e)
    PROVE  Sound(e, [e EXCEPT !.ctx = c])
<1>1. [e EXCEPT !.ctx = c] \in EngineType
  BY DEF Good, EngineType
<1>2. SameBooks(e, [e EXCEPT !.ctx = c])
  BY DEF Good, EngineType, SameBooks, Ok
<1>3. /\ [e EXCEPT !.ctx = c].acc = e.acc /\ [e EXCEPT !.ctx = c].side = e.side
      /\ [e EXCEPT !.ctx = c].market_mode = e.market_mode
  BY DEF Good, EngineType
<1>4. Ok(e) /\ Epochs(e) /\ Covered(e) => Covered([e EXCEPT !.ctx = c])
  BY <1>3 DEF Covered, Backed, SideBacked
<1>5. QED
  BY <1>1, <1>2, <1>3, <1>4, EpochsSame, NeutralSound

Cash(e, v, w) == [e EXCEPT !.vault = v, !.insurance = w]

\* The money of a market, whether or not it has accounts.
LEMMA MoneyGood ==
    ASSUME NEW e, Good(e), NEW v \in Int, NEW w \in Int,
           NEW f, f = Cash(e, v, w)
    PROVE  Good(f)
<1>1. /\ f \in EngineType /\ f.vault = v /\ f.insurance = w /\ f.c_tot = e.c_tot
      /\ f.side = e.side /\ f.acc = e.acc /\ f.used = e.used
      /\ f.market_mode = e.market_mode /\ f.resolved = e.resolved /\ f.err = e.err
      /\ f.pnl_pos_tot = e.pnl_pos_tot /\ f.pnl_matured_pos_tot = e.pnl_matured_pos_tot
      /\ f.neg_pnl_account_count = e.neg_pnl_account_count
  BY DEF Good, EngineType, Cash
<1>2. /\ Capitals(f) = Capitals(e) /\ Profits(f) = Profits(e) /\ Releases(f) = Releases(e)
      /\ Negatives(f) = Negatives(e) /\ \A s \in Side : Stored(f, s) = Stored(e, s)
  BY <1>1 DEF Capitals, Profits, Releases, Negatives, Stored
<1>3. Books(e) => Books(f)
  BY <1>1, <1>2 DEF Books, Sums
<1>4. QED
  BY <1>1, <1>3 DEF Good, Ok

\* The vault and the insurance fund may change as long as somebody has a slot.
LEMMA MoneyMoved ==
    ASSUME NEW e, Good(e), NEW v \in Int, NEW w \in Int, Ok(e) => e.used # {},
           NEW f, f = Cash(e, v, w)
    PROVE  Moved(e, f) /\ f.vault = v
<1>1. Good(f)
  BY MoneyGood
<1>2. /\ f.vault = v /\ f.used = e.used /\ f.market_mode = e.market_mode
      /\ f.resolved = e.resolved /\ f.err = e.err /\ f.ctx = e.ctx
      /\ f.acc = e.acc /\ f.side = e.side
  BY DEF Good, EngineType, Cash
<1>3. Covered(e) => Covered(f)
  BY <1>1, <1>2, CoverSame DEF Good
<1>4. QED
  BY <1>1, <1>2, <1>3, EpochsSame DEF Moved, Kept, Alike, Ok, Tracked, Flat

\* Between the insurance fund and the rest of the vault.
LEMMA InsuranceSound ==
    ASSUME NEW e, Good(e), NEW w \in Int, Ok(e) => e.used # {}
    PROVE  Sound(e, [e EXCEPT !.insurance = w])
<1> DEFINE f == [e EXCEPT !.insurance = w]
<1>1. f \in EngineType
  BY DEF Good, EngineType
<1>2. SameBooks(e, f)
  BY DEF Good, EngineType, SameBooks, Ok
<1>3. f.acc = e.acc /\ f.side = e.side /\ f.ctx = e.ctx /\ f.market_mode = e.market_mode
  BY DEF Good, EngineType
<1>4. QED
  BY <1>1, <1>2, <1>3, EpochsSame, CoverSame, NeutralSound DEF Good

\* The clock and the last price are in no sum.
LEMMA ClockSound ==
    ASSUME NEW e, Good(e), NEW t \in Int, NEW u \in Int, NEW p \in Int
    PROVE  Sound(e, [e EXCEPT !.current_slot = t, !.last_market_slot = u, !.last_oracle_price = p])
<1> DEFINE f == [e EXCEPT !.current_slot = t, !.last_market_slot = u, !.last_oracle_price = p]
<1>1. f \in EngineType
  BY DEF Good, EngineType
<1>2. SameBooks(e, f)
  BY DEF Good, EngineType, SameBooks, Ok
<1>3. f.acc = e.acc /\ f.side = e.side /\ f.ctx = e.ctx /\ f.market_mode = e.market_mode
  BY DEF Good, EngineType
<1>4. QED
  BY <1>1, <1>2, <1>3, EpochsSame, CoverSame, NeutralSound DEF Good

\* What a side becomes, with the epochs still in order.
Renewed(e, s, o) ==
    Ok(e) /\ Epochs(e) => Aged(o) /\ \A i \in Accounts : OfEpoch(e.acc[i], s, o)

\* ... and its positions covered, unless it is to be reset.
Rebacked(e, s, o) ==
    Ok(e) /\ Epochs(e) /\ Covered(e) /\ e.market_mode = "Live" =>
        o.dust >= 0 /\ (Pending(e, s) \/ Backs(e.acc, s, o))

\* The fields of a side that the epochs and the cover rest on.
Undated(o, p) ==
    /\ p.mode = o.mode /\ p.oi = o.oi /\ p.epoch = o.epoch /\ p.stale = o.stale
    /\ p.stored = o.stored /\ p.mult = o.mult /\ p.dust >= o.dust

\* A side that keeps those fields stays in order.
LEMMA RenewedSame ==
    ASSUME NEW e, NEW s \in Side, NEW o, Undated(e.side[s], o)
    PROVE  Renewed(e, s, o)
  BY DEF Renewed, Undated, Epochs, Aged, OfEpoch, Age

\* ... and covered, ...
LEMMA RebackedCover ==
    ASSUME NEW e \in EngineType, NEW s \in Side, NEW o \in SideType, SameCover(e.side[s], o)
    PROVE  Rebacked(e, s, o)
<1> SUFFICES ASSUME Covered(e), e.market_mode = "Live"
             PROVE  o.dust >= 0 /\ (Pending(e, s) \/ Backs(e.acc, s, o))
  BY DEF Rebacked
<1>1. e.acc \in [Accounts -> AccountType] /\ e.side[s] \in SideType
  BY EngineFields
<1>2. e.side[s].dust >= 0 /\ (Pending(e, s) \/ Backs(e.acc, s, e.side[s]))
  BY DEF Covered
<1>3. SamePositions(e.acc, e.acc)
  BY DEF SamePositions
<1>4. QED
  BY <1>1, <1>2, <1>3, BacksSame, SideFields DEF SameCover

\* ... with all of them.
LEMMA RebackedSame ==
    ASSUME NEW e \in EngineType, NEW s \in Side, NEW o \in SideType, Undated(e.side[s], o)
    PROVE  Rebacked(e, s, o)
  BY RebackedCover DEF Undated, SameCover

\* A side that is to be reset may lose its open interest.
LEMMA RebackedPending ==
    ASSUME NEW e \in EngineType, NEW s \in Side, NEW o \in SideType, Pending(e, s),
           o.dust = e.side[s].dust
    PROVE  Rebacked(e, s, o)
  BY DEF Rebacked, Covered

\* A side that is drained stays in order, ...
LEMMA RenewedDry ==
    ASSUME NEW e, NEW s \in Side, NEW o, o.oi = 0, o.mode = e.side[s].mode,
           o.epoch = e.side[s].epoch, o.stale = e.side[s].stale, o.stored = e.side[s].stored
    PROVE  Renewed(e, s, o)
  BY DEF Renewed, Epochs, Aged, OfEpoch, Age

\* The side does not wait for a reset.
Running(e, s) == Ok(e) /\ Epochs(e) => e.side[s].mode # "ResetPending"

\* ... and so does one that neither waits for a reset nor begins one.
LEMMA RenewedRunning ==
    ASSUME NEW e, NEW s \in Side, NEW o, Running(e, s),
           e.side[s].mode # "ResetPending" => o.mode # "ResetPending",
           o.epoch = e.side[s].epoch, o.stale = e.side[s].stale
    PROVE  Renewed(e, s, o)
  BY DEF Renewed, Running, Epochs, Aged, OfEpoch, Age

\* A side with open interest does not wait for its reset.
LEMMA OiRunning ==
    ASSUME NEW e, NEW s \in Side, e.side[s].oi # 0
    PROVE  Running(e, s)
  BY DEF Running, Epochs, Aged

\* New sides that store as many positions ...
LEMMA SidesDrafted ==
    ASSUME NEW e, Good(e), NEW g \in [Side -> SideType],
           \A s \in Side : g[s].stored = e.side[s].stored
    PROVE  /\ [e EXCEPT !.side = g] \in EngineType /\ Drafted(e, [e EXCEPT !.side = g])
           /\ SameBooks(e, [e EXCEPT !.side = g])
           /\ [e EXCEPT !.side = g].side = g /\ [e EXCEPT !.side = g].acc = e.acc
<1> DEFINE f == [e EXCEPT !.side = g]
<1>1. f \in EngineType
  BY DEF Good, EngineType
<1>2. f.side = g /\ f.acc = e.acc
  BY DEF Good, EngineType
<1>3. SameBooks(e, f)
  BY <1>2 DEF Good, EngineType, SameBooks, Ok
<1>4. QED
  BY <1>1, <1>2, <1>3, NeutralDrafted

\* ... and keep the epochs in order.
LEMMA SidesSound ==
    ASSUME NEW e, Good(e), NEW g \in [Side -> SideType],
           \A s \in Side : /\ g[s].stored = e.side[s].stored
                           /\ Renewed(e, s, g[s]) /\ Rebacked(e, s, g[s])
    PROVE  Sound(e, [e EXCEPT !.side = g])
<1>1. PICK f : f = [e EXCEPT !.side = g]
  OBVIOUS
<1>2. f \in EngineType /\ SameBooks(e, f) /\ f.side = g /\ f.acc = e.acc
  BY <1>1, SidesDrafted
<1>3. Ok(e) /\ Epochs(e) => Epochs(f)
  BY <1>2 DEF Epochs, Renewed
<1>4. f.ctx = e.ctx /\ f.market_mode = e.market_mode
  BY <1>1 DEF Good, EngineType
<1>5. Ok(e) /\ Epochs(e) /\ Covered(e) => Covered(f)
  BY <1>2, <1>4 DEF Covered, Rebacked, Pending
<1>6. QED
  BY <1>1, <1>2, <1>3, <1>5, NeutralSound

\* One side may change, but for its count of positions ...
LEMMA OneSideDrafted ==
    ASSUME NEW e, Good(e), NEW s \in Side, NEW o \in SideType, o.stored = e.side[s].stored
    PROVE  Drafted(e, [e EXCEPT !.side[s] = o])
<1> DEFINE g == [e.side EXCEPT ![s] = o]
<1>1. e.side \in [Side -> SideType]
  BY EngineFields DEF Good
<1>2. g \in [Side -> SideType] /\ \A t \in Side : g[t].stored = e.side[t].stored
  BY <1>1
<1>3. [e EXCEPT !.side[s] = o] = [e EXCEPT !.side = g]
  OBVIOUS
<1>4. QED
  BY <1>2, <1>3, SidesDrafted

\* ... and its epoch.
LEMMA OneSideSound ==
    ASSUME NEW e, Good(e), NEW s \in Side, NEW o \in SideType, o.stored = e.side[s].stored,
           Renewed(e, s, o), Rebacked(e, s, o)
    PROVE  Sound(e, [e EXCEPT !.side[s] = o])
<1> DEFINE g == [e.side EXCEPT ![s] = o]
<1>1. e.side \in [Side -> SideType]
  BY EngineFields DEF Good
<1>2. g \in [Side -> SideType] /\ \A t \in Side : g[t].stored = e.side[t].stored
  BY <1>1
<1>3. \A t \in Side : Renewed(e, t, g[t]) /\ Rebacked(e, t, g[t])
  <2>1. \A t \in Side : Undated(e.side[t], e.side[t]) /\ e.side[t] \in SideType
    BY <1>1, SideFields DEF Undated
  <2>2. \A t \in Side : Renewed(e, t, e.side[t]) /\ Rebacked(e, t, e.side[t])
    BY <2>1, RenewedSame, RebackedSame DEF Good
  <2>3. \A t \in Side : g[t] = IF t = s THEN o ELSE e.side[t]
    BY <1>1
  <2>4. QED
    BY <2>2, <2>3
<1>4. [e EXCEPT !.side[s] = o] = [e EXCEPT !.side = g]
  OBVIOUS
<1>5. QED
  BY <1>2, <1>3, <1>4, SidesSound

-----------------------------------------------------------------------------
(* Setters *)

\* The totals as they are.
Totals(e, i, a) ==
    Put(e, i, a, e.c_tot, e.pnl_pos_tot, e.pnl_matured_pos_tot, e.neg_pnl_account_count)

\* set_capital keeps c_tot exact.
LEMMA SetCapitalSound ==
    ASSUME NEW e, Good(e), NEW i, Member(e, i), NEW new \in Int, Ok(e) => new >= 0
    PROVE  Sound(e, SetCapital(e, i, new))
<1> DEFINE a == [e.acc[i] EXCEPT !.capital = new]
           c == e.c_tot + (new - e.acc[i].capital)
           p == e.pnl_pos_tot
           m == e.pnl_matured_pos_tot
           n == e.neg_pnl_account_count
<1>1. e \in EngineType /\ i \in Accounts /\ e.acc[i] \in AccountType
  BY EngineFields DEF Good, Member
<1>2. /\ a \in AccountType /\ a.capital = new /\ a.pnl = e.acc[i].pnl
      /\ a.reserved_pnl = e.acc[i].reserved_pnl
      /\ a.position_basis_q = e.acc[i].position_basis_q
      /\ a.adl_epoch_snap = e.acc[i].adl_epoch_snap /\ a.adl_a_basis = e.acc[i].adl_a_basis
  BY <1>1 DEF AccountType
<1>3. c \in Int /\ p \in Int /\ m \in Int /\ n \in Int
  BY <1>1, EngineFields, AccountFields
<1>4. SetCapital(e, i, new) = Put(e, i, a, c, p, m, n)
  BY <1>1 DEF SetCapital, Put, EngineType
<1> HIDE DEF a
<1>5. ASSUME Ok(e) PROVE Follows(e, i, a, c, p, m, n)
  <2>1. Books(e)
    BY <1>5 DEF Good
  <2>2. Pos(e.acc[i].pnl) \in Int /\ e.acc[i].reserved_pnl \in Int
    BY <1>1, AccountFields, PosInt
  <2>3. e.market_mode # "Live" => m = p
    BY <2>1 DEF Books, Sums
  <2>4. a.reserved_pnl <= Pos(a.pnl)
    BY <1>1, <1>2, <2>1 DEF Books
  <2>5. Bit(a.pnl < 0) - Bit(e.acc[i].pnl < 0) = 0
    BY <1>2 DEF Bit
  <2>6. QED
    BY <1>2, <1>3, <1>5, <2>2, <2>3, <2>4, <2>5 DEF Follows
<1> HIDE DEF c, p, m, n
<1>6. QED
  BY <1>2, <1>3, <1>4, <1>5, PutSound

-----------------------------------------------------------------------------
(* The reserve of one account *)

\* b differs from a at most in its PnL and its reserve.
SameRest(a, b) ==
    /\ b.capital = a.capital /\ b.position_basis_q = a.position_basis_q
    /\ b.adl_a_basis = a.adl_a_basis /\ b.adl_k_snap = a.adl_k_snap /\ b.f_snap = a.f_snap
    /\ b.adl_epoch_snap = a.adl_epoch_snap /\ b.fee_credits = a.fee_credits
    /\ b.last_fee_slot = a.last_fee_slot

\* The empty warmup buckets are of their types.
LEMMA NoBuckets == NoSched \in SchedType /\ NoPending \in PendingType
  BY DEF NoSched, NoPending, SchedType, PendingType

\* promote_pending_to_scheduled
LEMMA PromoteSound ==
    ASSUME NEW a \in AccountType, NEW now \in Int, NEW b, b = PromotePending(a, now)
    PROVE  /\ b \in AccountType /\ SameRest(a, b) /\ b.pnl = a.pnl
           /\ b.reserved_pnl = a.reserved_pnl
           /\ b.sched.remaining + b.pending.remaining
                = IF a.pending.present /\ ~a.sched.present THEN a.pending.remaining
                  ELSE a.sched.remaining + a.pending.remaining
<1> DEFINE s == [present |-> TRUE, remaining |-> a.pending.remaining,
                 anchor |-> a.pending.remaining, start |-> now,
                 horizon |-> a.pending.horizon, release |-> 0]
<1>1. s \in SchedType /\ s.remaining = a.pending.remaining /\ a.pending.remaining \in Int
  BY AccountFields DEF SchedType, PendingType
<1>2. CASE a.pending.present /\ ~a.sched.present
  <2>1. b = [a EXCEPT !.sched = s, !.pending = NoPending]
    BY <1>2 DEF PromotePending
  <2> HIDE DEF s
  <2>2. /\ b \in AccountType /\ SameRest(a, b) /\ b.pnl = a.pnl
        /\ b.reserved_pnl = a.reserved_pnl /\ b.sched = s /\ b.pending = NoPending
    BY <1>1, <2>1, NoBuckets DEF AccountType, SameRest
  <2>3. NoPending.remaining = 0
    BY DEF NoPending
  <2>4. QED
    BY <1>1, <1>2, <2>2, <2>3
<1>3. CASE ~(a.pending.present /\ ~a.sched.present)
  <2>1. b = a
    BY <1>3 DEF PromotePending
  <2>2. QED
    BY <1>3, <2>1 DEF SameRest
<1>4. QED
  BY <1>2, <1>3

\* append_new_reserve: into which bucket a new reserve goes
LEMMA PlacedSound ==
    ASSUME NEW p \in AccountType, NEW add \in Nat, NEW now \in Int, NEW h \in Int,
           NEW b, b = Placed(p, add, now, h)
    PROVE  /\ b \in AccountType /\ SameRest(p, b) /\ b.pnl = p.pnl
           /\ b.reserved_pnl = p.reserved_pnl
<1> DEFINE fresh == [present |-> TRUE, remaining |-> add, anchor |-> add,
                     start |-> now, horizon |-> h, release |-> 0]
           grown == [p.sched EXCEPT !.remaining = @ + add, !.anchor = @ + add]
           later == [present |-> TRUE, remaining |-> add, horizon |-> h, created |-> now]
           more == [p.pending EXCEPT !.remaining = @ + add, !.horizon = Greater(@, h)]
<1>1. fresh \in SchedType /\ later \in PendingType
  BY DEF SchedType, PendingType
<1>2. p.sched \in SchedType /\ p.pending \in PendingType /\ p.pnl \in Int /\ p.reserved_pnl \in Nat
  BY AccountFields
<1>3. grown \in SchedType
  <2>1. p.sched.remaining + add \in Nat /\ p.sched.anchor + add \in Int
    BY <1>2 DEF SchedType
  <2>2. PICK r \in Nat, c \in Int : r = p.sched.remaining + add /\ c = p.sched.anchor + add
    BY <2>1
  <2>3. grown = [p.sched EXCEPT !.remaining = r, !.anchor = c]
    BY <2>2
  <2>4. QED
    BY <1>2, <2>3 DEF SchedType
<1>4. more \in PendingType
  <2>1. p.pending.remaining + add \in Nat /\ Greater(p.pending.horizon, h) \in Int
    BY <1>2 DEF PendingType, Greater
  <2>2. PICK r \in Nat, c \in Int : r = p.pending.remaining + add /\ c = Greater(p.pending.horizon, h)
    BY <2>1
  <2>3. more = [p.pending EXCEPT !.remaining = r, !.horizon = c]
    BY <2>2
  <2>4. QED
    BY <1>2, <2>3 DEF PendingType
<1>5. CASE ~p.sched.present
  <2>1. b = [p EXCEPT !.sched = fresh]
    BY <1>5 DEF Placed, MergesIntoSched
  <2> HIDE DEF fresh
  <2>2. QED
    BY <1>1, <2>1 DEF AccountType, SameRest
<1>6. CASE p.sched.present /\ MergesIntoSched(p, now, h)
  <2>1. b = [p EXCEPT !.sched = grown]
    BY <1>6 DEF Placed
  <2> HIDE DEF grown
  <2>2. QED
    BY <1>3, <2>1 DEF AccountType, SameRest
<1>7. CASE p.sched.present /\ ~MergesIntoSched(p, now, h) /\ ~p.pending.present
  <2>1. b = [p EXCEPT !.pending = later]
    BY <1>7 DEF Placed
  <2> HIDE DEF later
  <2>2. QED
    BY <1>1, <2>1 DEF AccountType, SameRest
<1>8. CASE p.sched.present /\ ~MergesIntoSched(p, now, h) /\ p.pending.present
  <2>1. b = [p EXCEPT !.pending = more]
    BY <1>8 DEF Placed
  <2> HIDE DEF more
  <2>2. QED
    BY <1>4, <2>1 DEF AccountType, SameRest
<1>9. QED
  BY <1>5, <1>6, <1>7, <1>8

\* append_new_reserve adds what it is given.
LEMMA AppendSound ==
    ASSUME NEW a \in AccountType, NEW add \in Nat, NEW now \in Int, NEW h \in Int,
           NEW b, b = AppendReserve(a, add, now, h)
    PROVE  /\ b \in AccountType /\ SameRest(a, b) /\ b.pnl = a.pnl
           /\ b.reserved_pnl = a.reserved_pnl + add
<1> DEFINE p == PromotePending(a, now)
           q == Placed(p, add, now, h)
<1>1. p \in AccountType /\ SameRest(a, p) /\ p.pnl = a.pnl /\ p.reserved_pnl = a.reserved_pnl
  BY PromoteSound
<1> HIDE DEF p
<1>2. q \in AccountType /\ SameRest(p, q) /\ q.pnl = p.pnl /\ q.reserved_pnl = p.reserved_pnl
  BY <1>1, PlacedSound
<1> HIDE DEF q
<1>3. q.reserved_pnl \in Nat /\ q.reserved_pnl + add \in Nat
  BY <1>2, AccountFields
<1>4. PICK r \in Nat : r = q.reserved_pnl + add
  BY <1>3
<1>5. b = [q EXCEPT !.reserved_pnl = r]
  BY <1>4 DEF AppendReserve, p, q
<1>6. b \in AccountType /\ SameRest(q, b) /\ b.pnl = q.pnl /\ b.reserved_pnl = r
  BY <1>2, <1>5 DEF AccountType, SameRest
<1>7. QED
  BY <1>1, <1>2, <1>4, <1>6 DEF SameRest

\* apply_reserve_loss_newest_first: a loss comes out of the buckets in full
LEMMA TakeSound ==
    ASSUME NEW a \in AccountType, NEW loss \in Nat, loss <= a.reserved_pnl, ShapeOk(a),
           NEW b, b = TakeReserve(a, loss)
    PROVE  /\ b \in AccountType /\ SameRest(a, b) /\ b.pnl = a.pnl
           /\ b.reserved_pnl = a.reserved_pnl - loss
<1> DEFINE x == Lesser(loss, a.pending.remaining)
           q == TakePending(a.pending, x)
           s == TakeSched(a.sched, loss - x)
           r == a.reserved_pnl - loss
<1>1. /\ a.sched \in SchedType /\ a.pending \in PendingType /\ a.pnl \in Int
      /\ a.reserved_pnl \in Nat /\ a.sched.remaining \in Nat /\ a.pending.remaining \in Nat
  BY AccountFields DEF SchedType, PendingType
<1>2. a.sched.remaining + a.pending.remaining = a.reserved_pnl
  BY DEF ShapeOk
<1>3. x \in Nat /\ x <= a.pending.remaining /\ loss - x \in Nat /\ loss - x <= a.sched.remaining
  BY <1>1, <1>2 DEF Lesser
<1> HIDE DEF x
<1>4. q \in PendingType
  BY <1>1, <1>3, NoBuckets DEF TakePending, PendingType
<1>5. s \in SchedType
  <2>1. PICK y : y = loss - x
    OBVIOUS
  <2>2. QED
    BY <1>1, <1>3, <2>1, NoBuckets DEF TakeSched, SchedType
<1>6. r \in Nat
  BY <1>1
<1>7. b = [a EXCEPT !.pending = q, !.sched = s, !.reserved_pnl = r]
  BY DEF TakeReserve, x
<1> HIDE DEF q, s, r
<1>8. b \in AccountType /\ SameRest(a, b) /\ b.pnl = a.pnl /\ b.reserved_pnl = r
  BY <1>4, <1>5, <1>6, <1>7 DEF AccountType, SameRest
<1>9. QED
  BY <1>8 DEF r

\* The account's side of set_pnl_with_reserve.
LEMMA PnlSetSound ==
    ASSUME NEW a \in AccountType, NEW new \in Int, NEW h \in Int, NEW now \in Int,
           Gain(a, new) <= 0 /\ ReserveLoss(a, new) > 0 => ShapeOk(a),
           NEW b, b = PnlSet(a, new, h, now)
    PROVE  /\ b \in AccountType /\ SameRest(a, b) /\ b.pnl = new
           /\ b.reserved_pnl = a.reserved_pnl
                + (IF Gain(a, new) > 0 THEN IF h = 0 THEN 0 ELSE Gain(a, new)
                   ELSE -ReserveLoss(a, new))
<1> DEFINE g == Gain(a, new)
           l == ReserveLoss(a, new)
           z == [a EXCEPT !.pnl = new]
<1>1. /\ a.pnl \in Int /\ a.reserved_pnl \in Nat /\ Pos(new) \in Nat /\ Pos(a.pnl) \in Nat
  BY AccountFields, PosInt
<1>2. g \in Int /\ l \in Int /\ (g <= 0 => l \in Nat /\ l <= a.reserved_pnl)
  BY <1>1 DEF Gain, ReserveLoss, Lesser
<1>3. z \in AccountType /\ SameRest(a, z) /\ z.pnl = new /\ z.reserved_pnl = a.reserved_pnl
  BY DEF AccountType, SameRest
<1>4. b =
        IF g > 0 THEN IF h = 0 THEN z ELSE AppendReserve(z, g, now, h)
        ELSE IF l > 0 THEN [TakeReserve(a, l) EXCEPT !.pnl = new] ELSE z
  BY DEF PnlSet
<1> HIDE DEF g, l, z
<1>5. CASE g > 0 /\ h = 0
  BY <1>1, <1>2, <1>3, <1>4, <1>5 DEF g
<1>6. CASE g > 0 /\ h # 0
  <2>1. g \in Nat /\ b = AppendReserve(z, g, now, h)
    BY <1>2, <1>4, <1>6
  <2>2. b \in AccountType /\ SameRest(z, b) /\ b.pnl = z.pnl /\ b.reserved_pnl = z.reserved_pnl + g
    BY <1>3, <2>1, AppendSound
  <2>3. SameRest(a, b)
    BY <1>3, <2>2 DEF SameRest
  <2>4. QED
    BY <1>3, <1>6, <2>2, <2>3 DEF g
<1>7. CASE ~(g > 0) /\ l > 0
  <2> DEFINE t == TakeReserve(a, l)
  <2>1. ShapeOk(a) /\ l \in Nat /\ l <= a.reserved_pnl
    BY <1>2, <1>7 DEF g, l
  <2>2. t \in AccountType /\ SameRest(a, t) /\ t.reserved_pnl = a.reserved_pnl - l
    BY <2>1, TakeSound
  <2> HIDE DEF t
  <2>3. b = [t EXCEPT !.pnl = new]
    BY <1>4, <1>7 DEF t
  <2>4. b \in AccountType /\ SameRest(t, b) /\ b.pnl = new /\ b.reserved_pnl = t.reserved_pnl
    BY <2>2, <2>3 DEF AccountType, SameRest
  <2>5. SameRest(a, b)
    BY <2>2, <2>4 DEF SameRest
  <2>6. QED
    BY <1>1, <1>2, <1>7, <2>1, <2>2, <2>3, <2>4, <2>5 DEF g, l
<1>8. CASE ~(g > 0) /\ ~(l > 0)
  <2>1. l = 0 /\ b = z
    BY <1>2, <1>4, <1>8
  <2>2. QED
    BY <1>1, <1>3, <1>8, <2>1 DEF g, l
<1>9. QED
  BY <1>2, <1>5, <1>6, <1>7, <1>8

\* The books follow set_pnl_with_reserve: the released part of a gain or a loss is what
\* the matured total changes by, whatever the reserve absorbs.
LEMMA PnlFollows ==
    ASSUME NEW e \in EngineType, Books(e), NEW i \in Accounts, NEW new \in Int, NEW h \in Int,
           e.market_mode # "Live" =>
               e.acc[i].reserved_pnl = 0 /\ (Gain(e.acc[i], new) > 0 => h = 0),
           NEW b \in AccountType, SameRest(e.acc[i], b), b.pnl = new,
           b.reserved_pnl = e.acc[i].reserved_pnl
               + (IF Gain(e.acc[i], new) > 0 THEN IF h = 0 THEN 0 ELSE Gain(e.acc[i], new)
                  ELSE -ReserveLoss(e.acc[i], new))
    PROVE  Follows(e, i, b, e.c_tot, e.pnl_pos_tot + Gain(e.acc[i], new),
                   MaturedAfter(e.acc[i], new, h, e.pnl_matured_pos_tot),
                   NegCountAfter(e, e.acc[i].pnl, new))
<1>1. PICK a \in AccountType : a = e.acc[i]
  BY EngineFields
<1>2. /\ e.c_tot \in Int /\ e.pnl_pos_tot \in Int /\ e.pnl_matured_pos_tot \in Int
      /\ e.neg_pnl_account_count \in Int
  BY EngineFields
<1>3. PICK y \in Nat, z \in Nat, r \in Nat : y = Pos(a.pnl) /\ z = Pos(new) /\ r = a.reserved_pnl
  BY <1>1, AccountFields, PosInt
<1>4. /\ r <= y /\ a.capital >= 0
      /\ e.market_mode # "Live" => e.pnl_matured_pos_tot = e.pnl_pos_tot
  BY <1>1, <1>3 DEF Books, Sums
<1>5. Gain(a, new) = z - y /\ ReserveLoss(a, new) = IF y - z <= r THEN y - z ELSE r
  BY <1>3 DEF Gain, ReserveLoss, Lesser
<1>6. /\ b.capital = a.capital /\ b.position_basis_q = a.position_basis_q
      /\ b.adl_epoch_snap = a.adl_epoch_snap /\ b.adl_a_basis = a.adl_a_basis
      /\ Pos(b.pnl) = z /\ a.capital \in Int /\ a.pnl \in Int
  BY <1>1, <1>3, AccountFields DEF SameRest
<1>7. b.reserved_pnl = r + (IF z - y > 0 THEN IF h = 0 THEN 0 ELSE z - y
                            ELSE -(IF y - z <= r THEN y - z ELSE r))
  BY <1>1, <1>3, <1>5
<1>8. MaturedAfter(a, new, h, e.pnl_matured_pos_tot) =
        IF z - y > 0 THEN IF h = 0 THEN e.pnl_matured_pos_tot + (z - y) ELSE e.pnl_matured_pos_tot
        ELSE e.pnl_matured_pos_tot - ((y - z) - (IF y - z <= r THEN y - z ELSE r))
  BY <1>3, <1>5 DEF MaturedAfter
<1>9. NegCountAfter(e, a.pnl, new)
        = e.neg_pnl_account_count + (Bit(b.pnl < 0) - Bit(a.pnl < 0))
  BY <1>2, <1>6 DEF NegCountAfter, Bit
<1>10. b.reserved_pnl <= z
  BY <1>4, <1>7
<1>11. e.market_mode = "Live" =>
         MaturedAfter(a, new, h, e.pnl_matured_pos_tot)
           = e.pnl_matured_pos_tot + ((z - b.reserved_pnl) - (y - r))
  BY <1>2, <1>7, <1>8
<1>12. e.market_mode # "Live" =>
         MaturedAfter(a, new, h, e.pnl_matured_pos_tot) = e.pnl_pos_tot + (z - y)
  BY <1>1, <1>2, <1>3, <1>4, <1>5, <1>8
<1>13. QED
  BY <1>1, <1>2, <1>3, <1>4, <1>5, <1>6, <1>9, <1>10, <1>11, <1>12 DEF Follows

\* The open interest of both sides, and what is to be reset, is as it was.
EqualOi(e, f) ==
    /\ f.ctx.pending_reset = e.ctx.pending_reset
    /\ \A s \in Side : f.side[s].oi = e.side[s].oi

\* Nobody's position has moved.
SamePlaces(e, f) ==
    /\ f.side = e.side
    /\ f.ctx.pending_reset = e.ctx.pending_reset
    /\ \A j \in Accounts : /\ f.acc[j].position_basis_q = e.acc[j].position_basis_q
                           /\ f.acc[j].adl_epoch_snap = e.acc[j].adl_epoch_snap
                           /\ f.acc[j].adl_a_basis = e.acc[j].adl_a_basis

\* A record that fails or passes a check: sound if it was.
LEMMA CheckSound ==
    ASSUME NEW e, NEW f, Sound(e, f)
    PROVE  /\ Sound(e, Corrupt(f)) /\ Sound(e, Reject(f))
<1>1. f \in EngineType /\ Kept(e, f)
  BY DEF Sound, Moved, Good
<1>2. QED
  BY <1>1, CorruptSound, RejectSound DEF Sound, Moved, Kept, Alike

\* A failed check within a trade.
LEMMA CheckTraded ==
    ASSUME NEW e, NEW f, Traded(e, f)
    PROVE  /\ Traded(e, Corrupt(f)) /\ Traded(e, Reject(f))
<1>1. f \in EngineType /\ Kept(e, f)
  BY DEF Traded, Good
<1>2. QED
  BY <1>1, CorruptSound, RejectSound DEF Traded, Kept, Alike

\* A failed check within a part of a helper.
LEMMA CheckWritten ==
    ASSUME NEW e, NEW f, Drafted(e, f)
    PROVE  /\ Drafted(e, Corrupt(f)) /\ Drafted(e, Reject(f))
<1>1. f \in EngineType /\ Drafted(e, f)
  BY DEF Drafted, Written, Good
<1>2. QED
  BY <1>1, CorruptSound, RejectSound DEF Drafted, Written, Kept, Alike

\* set_pnl_with_reserve keeps the totals exact, in both modes and for every horizon.
LEMMA PnlAtHorizonSound ==
    ASSUME NEW e, Good(e), Ok(e), NEW i, Member(e, i), NEW new \in Int, NEW gains, NEW h \in Int,
           e.market_mode # "Live" =>
               e.acc[i].reserved_pnl = 0 /\ (Gain(e.acc[i], new) > 0 => h = 0)
    PROVE  /\ Sound(e, PnlAtHorizon(e, i, new, gains, h))
           /\ SamePlaces(e, PnlAtHorizon(e, i, new, gains, h))
<1>1. e \in EngineType /\ Books(e) /\ i \in Accounts /\ e.acc[i] \in AccountType
      /\ e.current_slot \in Int
  BY EngineFields DEF Good, Member
<1>2. PICK a \in AccountType : a = e.acc[i]
  BY <1>1
<1>3. CASE ~PnlShapeOk(e, a, new, h)
  <2>1. PnlAtHorizon(e, i, new, gains, h) = Corrupt(e)
    BY <1>2, <1>3 DEF PnlAtHorizon
  <2>2. QED
    BY <1>1, <2>1, CorruptSound DEF Sound, Moved, SamePlaces
<1>4. CASE PnlShapeOk(e, a, new, h)
  <2>1. PICK b : b = PnlSet(a, new, h, e.current_slot)
    OBVIOUS
  <2>2. a.reserved_pnl \in Nat /\ Pos(a.pnl) \in Nat /\ Pos(new) \in Nat
    BY AccountFields, PosInt
  <2>3. Gain(a, new) <= 0 /\ ReserveLoss(a, new) > 0 => ShapeOk(a)
    <3>1. e.market_mode # "Live" /\ Gain(a, new) <= 0 => ~(ReserveLoss(a, new) > 0)
      BY <1>2, <2>2 DEF Gain, ReserveLoss, Lesser
    <3>2. Gain(a, new) \in Int
      BY <2>2 DEF Gain
    <3>3. QED
      BY <1>4, <3>1, <3>2 DEF PnlShapeOk
  <2>4. /\ b \in AccountType /\ SameRest(a, b) /\ b.pnl = new
        /\ b.reserved_pnl = a.reserved_pnl
             + (IF Gain(a, new) > 0 THEN IF h = 0 THEN 0 ELSE Gain(a, new)
                ELSE -ReserveLoss(a, new))
    BY <1>1, <2>1, <2>3, PnlSetSound
  <2>5. PICK p, m, n : /\ p = e.pnl_pos_tot + Gain(a, new)
                       /\ m = MaturedAfter(a, new, h, e.pnl_matured_pos_tot)
                       /\ n = NegCountAfter(e, a.pnl, new)
    OBVIOUS
  <2>6. p \in Int /\ m \in Int /\ n \in Int /\ e.c_tot \in Int
    <3>1. /\ e.pnl_pos_tot \in Int /\ e.pnl_matured_pos_tot \in Int
          /\ e.neg_pnl_account_count \in Int /\ e.c_tot \in Int
      BY <1>1, EngineFields
    <3>2. QED
      BY <2>2, <2>5, <3>1 DEF Gain, MaturedAfter, NegCountAfter, ReserveLoss, Lesser
  <2>7. Follows(e, i, b, e.c_tot, p, m, n)
    BY <1>1, <1>2, <2>4, <2>5, PnlFollows
  <2>8. Sound(e, Put(e, i, b, e.c_tot, p, m, n))
    BY <2>4, <2>6, <2>7, PutSound
  <2>9. PICK g : g = Put(e, i, b, e.c_tot, p, m, n)
    OBVIOUS
  <2>10. g.ctx = e.ctx /\ e.ctx \in ContextType
    BY <1>1, <2>9 DEF Put, EngineType
  <2>11. PICK k : k = IF gains = "Admit" /\ Gain(a, new) > 0 /\ h = e.ctx.hi
                      THEN e.ctx.sticky \union {i} ELSE e.ctx.sticky
    OBVIOUS
  <2>12. /\ [e.ctx EXCEPT !.sticky = k] \in ContextType
         /\ [e.ctx EXCEPT !.sticky = k].touched \subseteq g.ctx.touched
         /\ [e.ctx EXCEPT !.sticky = k].pending_reset = e.ctx.pending_reset
    BY <1>1, <2>10, <2>11 DEF ContextType
  <2>13. PICK f : f = [g EXCEPT !.ctx = [e.ctx EXCEPT !.sticky = k]]
    OBVIOUS
  <2>14. Sound(e, f)
    <3>1. PICK c : c = [e.ctx EXCEPT !.sticky = k]
      OBVIOUS
    <3>2. Good(g) /\ c \in ContextType /\ c.touched \subseteq g.ctx.touched
          /\ g.ctx.pending_reset \subseteq c.pending_reset
      BY <2>8, <2>9, <2>10, <2>12, <3>1 DEF Sound, Moved
    <3>3. f = [g EXCEPT !.ctx = c]
      BY <2>13, <3>1
    <3>4. QED
      BY <2>8, <2>9, <3>2, <3>3, CtxSound, SoundTrans
  <2>15. f = [e EXCEPT !.acc[i] = b, !.pnl_pos_tot = p, !.pnl_matured_pos_tot = m,
                       !.neg_pnl_account_count = n, !.ctx.sticky = k]
    BY <1>1, <2>9, <2>13 DEF Put, EngineType
  <2>16. PnlAtHorizon(e, i, new, gains, h) = PnlChecked(f, i)
    BY <1>2, <1>4, <2>1, <2>5, <2>11, <2>15 DEF PnlAtHorizon
  <2>17. PnlChecked(f, i) = f \/ PnlChecked(f, i) = Corrupt(f)
    BY DEF PnlChecked, CorruptUnless
  <2>18. f \in EngineType /\ SamePlaces(e, f)
    <3>1. f.side = e.side /\ f.acc = [e.acc EXCEPT ![i] = b]
      BY <1>1, <2>15 DEF EngineType
    <3>2. \A j \in Accounts : f.acc[j] = IF j = i THEN b ELSE e.acc[j]
      BY <1>1, <3>1, EngineFields
    <3>3. f.ctx.pending_reset = e.ctx.pending_reset
      <4>1. f.ctx = [e.ctx EXCEPT !.sticky = k]
        BY <1>1, <2>8, <2>9, <2>13 DEF Sound, Moved, Good, EngineType
      <4>2. QED
        BY <2>12, <4>1
    <3>4. QED
      BY <1>2, <2>4, <2>14, <3>1, <3>2, <3>3 DEF SamePlaces, SameRest, Sound, Moved, Good
  <2>19. SamePlaces(e, Corrupt(f))
    BY <2>18, CorruptSound DEF SamePlaces
  <2>20. QED
    BY <2>14, <2>16, <2>17, <2>18, <2>19, CheckSound
<1>5. QED
  BY <1>3, <1>4

\* set_pnl keeps the totals exact, under any admission policy.
LEMMA SetPnlSound ==
    ASSUME NEW e, Good(e), NEW i, Member(e, i), NEW new \in Int, NEW gains
    PROVE  Sound(e, SetPnl(e, i, new, gains)) /\ SamePlaces(e, SetPnl(e, i, new, gains))
<1>1. e \in EngineType /\ i \in Accounts /\ e.acc[i] \in AccountType
  BY EngineFields DEF Good, Member
<1>2. /\ Sound(e, e) /\ Sound(e, Corrupt(e)) /\ Sound(e, Reject(e))
      /\ SamePlaces(e, e) /\ SamePlaces(e, Corrupt(e)) /\ SamePlaces(e, Reject(e))
  BY <1>1, SoundRefl, CheckSound, CorruptSound, RejectSound DEF SamePlaces
<1>3. PICK h : h = GainHorizon(e, i, new, gains)
  OBVIOUS
<1>4. h \in Int
  <2>1. e.ctx.lo \in Int /\ e.ctx.hi \in Int
    BY <1>1, EngineFields DEF ContextType
  <2>2. QED
    BY <1>3, <2>1 DEF GainHorizon, AdmittedHorizon
<1>5. CASE /\ Ok(e) /\ ~(e.acc[i].reserved_pnl > Pos(e.acc[i].pnl))
           /\ ~(e.market_mode # "Live" /\ e.acc[i].reserved_pnl # 0)
           /\ PnlGateOk(e, i, new, gains)
  <2>1. SetPnl(e, i, new, gains) = PnlAtHorizon(e, i, new, gains, h)
    BY <1>3, <1>5 DEF SetPnl
  <2>2. e.market_mode # "Live" /\ Gain(e.acc[i], new) > 0 => h = 0
    BY <1>3, <1>5 DEF PnlGateOk, GainHorizon
  <2>3. QED
    BY <1>4, <1>5, <2>1, <2>2, PnlAtHorizonSound
<1>6. CASE ~(/\ Ok(e) /\ ~(e.acc[i].reserved_pnl > Pos(e.acc[i].pnl))
             /\ ~(e.market_mode # "Live" /\ e.acc[i].reserved_pnl # 0)
             /\ PnlGateOk(e, i, new, gains))
  <2>1. SetPnl(e, i, new, gains) \in {e, Corrupt(e), Reject(e)}
    BY <1>6 DEF SetPnl
  <2>2. QED
    BY <1>2, <2>1
<1>7. QED
  BY <1>5, <1>6

-----------------------------------------------------------------------------
(* Fields of an account that no total counts *)

SameClaims(a, b) ==
    /\ b.capital = a.capital /\ b.pnl = a.pnl /\ b.reserved_pnl = a.reserved_pnl
    /\ b.position_basis_q = a.position_basis_q /\ b.adl_epoch_snap = a.adl_epoch_snap
    /\ b.adl_a_basis = a.adl_a_basis

\* A change of an account that leaves its claims alone.
LEMMA QuietSound ==
    ASSUME NEW e, Good(e), NEW i, Member(e, i), NEW b \in AccountType,
           SameClaims(e.acc[i], b)
    PROVE  Sound(e, [e EXCEPT !.acc[i] = b])
<1>1. e \in EngineType /\ i \in Accounts /\ e.acc[i] \in AccountType
  BY EngineFields DEF Good, Member
<1>2. PICK c, p, m, n : /\ c = e.c_tot /\ p = e.pnl_pos_tot /\ m = e.pnl_matured_pos_tot
                        /\ n = e.neg_pnl_account_count
  OBVIOUS
<1>3. c \in Int /\ p \in Int /\ m \in Int /\ n \in Int
  BY <1>1, <1>2, EngineFields
<1>4. [e EXCEPT !.acc[i] = b] = Put(e, i, b, c, p, m, n)
  BY <1>1, <1>2 DEF Put, EngineType
<1>5. ASSUME Ok(e) PROVE Follows(e, i, b, c, p, m, n)
  <2>1. Books(e)
    BY <1>5 DEF Good
  <2>2. PICK y \in Int, r \in Int, k \in Int :
           y = Pos(e.acc[i].pnl) /\ r = e.acc[i].reserved_pnl /\ k = e.acc[i].capital
    BY <1>1, AccountFields, PosInt
  <2>3. Pos(b.pnl) = y /\ b.reserved_pnl = r /\ b.capital = k /\ r <= y /\ k >= 0
    BY <1>1, <2>1, <2>2 DEF Books, SameClaims
  <2>4. e.market_mode # "Live" => m = p
    BY <1>2, <2>1 DEF Books, Sums
  <2>5. Bit(b.pnl < 0) - Bit(e.acc[i].pnl < 0) = 0
    BY DEF Bit, SameClaims
  <2>6. /\ b.position_basis_q = e.acc[i].position_basis_q
        /\ b.adl_epoch_snap = e.acc[i].adl_epoch_snap /\ b.adl_a_basis = e.acc[i].adl_a_basis
    BY DEF SameClaims
  <2>7. QED
    BY <1>2, <1>3, <2>2, <2>3, <2>4, <2>5, <2>6 DEF Follows
<1>6. QED
  BY <1>3, <1>4, <1>5, PutSound

\* Fee credits and the insurance fund.
LEMMA FeeMoved ==
    ASSUME NEW e, Good(e), NEW i, Member(e, i), NEW x \in Int, NEW w \in Int
    PROVE  Sound(e, [e EXCEPT !.acc[i].fee_credits = x, !.insurance = w])
<1>1. e \in EngineType /\ i \in Accounts /\ e.acc[i] \in AccountType
  BY EngineFields DEF Good, Member
<1>2. PICK b : b = [e.acc[i] EXCEPT !.fee_credits = x]
  OBVIOUS
<1>3. b \in AccountType /\ SameClaims(e.acc[i], b)
  BY <1>1, <1>2 DEF AccountType, SameClaims
<1>4. PICK f : f = [e EXCEPT !.acc[i] = b]
  OBVIOUS
<1>5. Sound(e, f)
  BY <1>3, <1>4, QuietSound
<1>6. Good(f) /\ Member(f, i)
  BY <1>5, MemberKept
<1>7. Sound(f, [f EXCEPT !.insurance = w])
  BY <1>6, InsuranceSound DEF Member
<1>8. [f EXCEPT !.insurance = w]
        = [e EXCEPT !.acc[i].fee_credits = x, !.insurance = w]
  BY <1>1, <1>2, <1>4 DEF EngineType
<1>9. QED
  BY <1>5, <1>7, <1>8, SoundTrans

\* The position of i is now q, of the epoch t, and its sides count it.
Replaced(e, f, i, q, t) ==
    /\ \A j \in Accounts : /\ f.acc[j].position_basis_q = IF j = i THEN q ELSE e.acc[j].position_basis_q
                           /\ f.acc[j].adl_epoch_snap = IF j = i THEN t ELSE e.acc[j].adl_epoch_snap
                           /\ j # i => f.acc[j].adl_a_basis = e.acc[j].adl_a_basis
    /\ f.ctx.pending_reset = e.ctx.pending_reset
    /\ \A s \in Side :
           /\ f.side[s].mult = e.side[s].mult /\ f.side[s].dust >= e.side[s].dust
           /\ f.side[s].mode = e.side[s].mode /\ f.side[s].oi = e.side[s].oi
           /\ f.side[s].epoch = e.side[s].epoch /\ f.side[s].stale = e.side[s].stale
           /\ f.side[s].stored
                 = e.side[s].stored + (Bit(SideOf(q) = s) - Bit(SideOf(e.acc[i].position_basis_q) = s))

\* set_position_basis_q keeps the position counts of both sides exact.
LEMMA SetBasisDrafted ==
    ASSUME NEW e, Good(e), NEW i, Member(e, i), NEW new \in Int
    PROVE  /\ Written(e, SetBasis(e, i, new))
           /\ new = 0 => Drafted(e, SetBasis(e, i, new))
           /\ Replaced(e, SetBasis(e, i, new), i, new, e.acc[i].adl_epoch_snap)
<1>1. e \in EngineType /\ i \in Accounts /\ e.acc \in [Accounts -> AccountType]
      /\ e.acc[i] \in AccountType /\ e.side \in [Side -> SideType]
  BY EngineFields DEF Good, Member
<1>2. PICK old, now : old = SideOf(e.acc[i].position_basis_q) /\ now = SideOf(new)
  OBVIOUS
<1>3. PICK b : b = [e.acc[i] EXCEPT !.position_basis_q = new]
  OBVIOUS
<1>4. /\ b \in AccountType /\ b.position_basis_q = new /\ b.capital = e.acc[i].capital
      /\ b.pnl = e.acc[i].pnl /\ b.reserved_pnl = e.acc[i].reserved_pnl
      /\ b.adl_epoch_snap = e.acc[i].adl_epoch_snap /\ b.adl_a_basis = e.acc[i].adl_a_basis
  BY <1>1, <1>3 DEF AccountType
<1>5. PICK n : n = [s \in Side |-> e.side[s].stored - (IF s = old THEN 1 ELSE 0)
                                                     + (IF s = now THEN 1 ELSE 0)]
  OBVIOUS
<1>6. n \in [Side -> Int]
      /\ \A s \in Side : n[s] = e.side[s].stored + (Bit(now = s) - Bit(old = s))
  <2>1. \A s \in Side : e.side[s].stored \in Int
    BY <1>1, SideFields
  <2>2. QED
    BY <1>5, <2>1 DEF Bit
<1>7. PICK g : g = [s \in Side |-> [e.side[s] EXCEPT !.stored = n[s]]]
  OBVIOUS
<1>8. /\ g \in [Side -> SideType]
      /\ \A s \in Side : /\ g[s].stored = n[s] /\ g[s].mode = e.side[s].mode
                          /\ g[s].oi = e.side[s].oi /\ g[s].epoch = e.side[s].epoch
                          /\ g[s].stale = e.side[s].stale
                          /\ g[s].mult = e.side[s].mult /\ g[s].dust >= e.side[s].dust
  <2>1. ASSUME NEW s \in Side
        PROVE  /\ g[s] \in SideType /\ g[s].stored = n[s] /\ g[s].mode = e.side[s].mode
               /\ g[s].oi = e.side[s].oi /\ g[s].epoch = e.side[s].epoch
               /\ g[s].stale = e.side[s].stale
               /\ g[s].mult = e.side[s].mult /\ g[s].dust >= e.side[s].dust
    <3>1. PICK o \in SideType, m \in Int : o = e.side[s] /\ m = n[s]
      BY <1>1, <1>6
    <3>2. g[s] = [o EXCEPT !.stored = m]
      BY <1>7, <3>1
    <3>3. QED
      BY <3>1, <3>2 DEF SideType
  <2>2. QED
    BY <1>7, <2>1
<1>9. PICK f : f = [e EXCEPT !.acc[i] = b, !.side = g]
  OBVIOUS
<1>10. f \in EngineType
  BY <1>1, <1>4, <1>8, <1>9 DEF EngineType
<1>11. /\ f.acc = [e.acc EXCEPT ![i] = b] /\ f.side = g /\ f.c_tot = e.c_tot
       /\ f.pnl_pos_tot = e.pnl_pos_tot /\ f.pnl_matured_pos_tot = e.pnl_matured_pos_tot
       /\ f.neg_pnl_account_count = e.neg_pnl_account_count /\ f.used = e.used
       /\ f.market_mode = e.market_mode /\ f.resolved = e.resolved /\ f.err = e.err
       /\ f.ctx = e.ctx /\ f.vault = e.vault
  BY <1>1, <1>9 DEF EngineType
<1>12. \A j \in Accounts : f.acc[j] = IF j = i THEN b ELSE e.acc[j]
  BY <1>1, <1>11
<1>13. /\ Capitals(f) = Capitals(e) /\ Profits(f) = Profits(e) /\ Releases(f) = Releases(e)
       /\ Negatives(f) = Negatives(e)
  BY <1>4, <1>12 DEF Capitals, Profits, Releases, Negatives
<1>14. ASSUME NEW s \in Side
       PROVE  Sum(Stored(f, s)) = Sum(Stored(e, s)) + (Bit(now = s) - Bit(old = s))
  <2>1. \A j \in Accounts : j # i => Stored(f, s)[j] = Stored(e, s)[j]
    BY <1>12 DEF Stored
  <2>2. Stored(f, s)[i] = Bit(now = s) /\ Stored(e, s)[i] = Bit(old = s)
    BY <1>1, <1>2, <1>4, <1>12 DEF Stored
  <2>3. Stored(f, s) \in [Accounts -> Int] /\ Stored(e, s) \in [Accounts -> Int]
    BY <1>1, <1>10, TermTypes
  <2>4. QED
    BY <1>1, <2>1, <2>2, <2>3, SumOfUpdate
<1>15. ASSUME Ok(e) PROVE Books(f)
  <2>1. Books(e) /\ i \in e.used
    BY <1>15 DEF Good, Member
  <2>2. \A s \in Side : f.side[s].stored = Sum(Stored(f, s))
    BY <1>6, <1>8, <1>11, <1>14, <2>1 DEF Books, Sums
  <2>3. Sums(f)
    BY <1>11, <1>13, <2>1, <2>2 DEF Books, Sums
  <2>4. \A j \in Accounts : f.acc[j].capital >= 0 /\ f.acc[j].reserved_pnl <= Pos(f.acc[j].pnl)
    BY <1>4, <1>12, <2>1 DEF Books
  <2>5. \A j \in Accounts : j \notin f.used => Unclaimed(f.acc[j])
    BY <1>11, <1>12, <2>1 DEF Books
  <2>6. QED
    BY <2>3, <2>4, <2>5 DEF Books
<1>16. Written(e, f) /\ (new = 0 => Drafted(e, f))
  <2>1. Written(e, f)
    BY <1>10, <1>11, <1>15 DEF Written, Good, Alike, Ok, Tracked, Member
  <2>2. new = 0 /\ Flat(e) => Flat(f)
    BY <1>4, <1>12 DEF Flat
  <2>3. QED
    BY <2>1, <2>2 DEF Drafted
<1>17. SetBasis(e, i, new) = f \/ SetBasis(e, i, new) = Corrupt(f)
  <2>1. \A s \in Side : n[s] = e.side[s].stored - (IF s = old THEN 1 ELSE 0)
                                               + (IF s = now THEN 1 ELSE 0)
    BY <1>5
  <2>2. f = [e EXCEPT !.acc[i].position_basis_q = new,
                      !.side = [s \in Side |-> [e.side[s] EXCEPT !.stored =
                          e.side[s].stored - (IF s = old THEN 1 ELSE 0)
                                           + (IF s = now THEN 1 ELSE 0)]]]
    BY <1>3, <1>7, <1>9, <2>1
  <2>3. QED
    BY <1>2, <2>2 DEF SetBasis, CorruptUnless
<1>18. Replaced(e, f, i, new, e.acc[i].adl_epoch_snap)
  BY <1>2, <1>4, <1>6, <1>8, <1>11, <1>12 DEF Replaced
<1>19. /\ Corrupt(f).acc = f.acc /\ Corrupt(f).side = f.side /\ Corrupt(f).ctx = f.ctx
       /\ Written(e, Corrupt(f)) /\ (new = 0 => Drafted(e, Corrupt(f)))
  BY <1>10, <1>16, CorruptSound DEF Written, Drafted, Kept, Alike
<1>20. Replaced(e, Corrupt(f), i, new, e.acc[i].adl_epoch_snap)
  BY <1>18, <1>19 DEF Replaced
<1>21. QED
  BY <1>16, <1>17, <1>18, <1>19, <1>20

\* The position's snapshot of its side.
Snap(e, i, a, k, f, t) ==
    [e EXCEPT !.acc[i].adl_a_basis = a, !.acc[i].adl_k_snap = k,
              !.acc[i].f_snap = f, !.acc[i].adl_epoch_snap = t]

\* The snapshots of a position's indices are in no sum.
LEMMA SnapDrafted ==
    ASSUME NEW e, Good(e), NEW i, Member(e, i), NEW a \in Nat \ {0}, NEW k \in Int,
           NEW f \in Int, NEW t \in Int
    PROVE  /\ Drafted(e, Snap(e, i, a, k, f, t))
           /\ \A d, q, u : Replaced(d, e, i, q, u) => Replaced(d, Snap(e, i, a, k, f, t), i, q, t)
           /\ t = e.acc[i].adl_epoch_snap /\ a = e.acc[i].adl_a_basis =>
                 Sound(e, Snap(e, i, a, k, f, t))
           /\ Snap(e, i, a, k, f, t).side = e.side /\ Snap(e, i, a, k, f, t).ctx = e.ctx
           /\ Snap(e, i, a, k, f, t).acc[i].adl_a_basis = a
<1>1. e \in EngineType /\ i \in Accounts /\ e.acc[i] \in AccountType
      /\ e.acc \in [Accounts -> AccountType]
  BY EngineFields DEF Good, Member
<1>2. PICK b : b = [e.acc[i] EXCEPT !.adl_a_basis = a, !.adl_k_snap = k, !.f_snap = f,
                                    !.adl_epoch_snap = t]
  OBVIOUS
<1>3. /\ b \in AccountType /\ b.capital = e.acc[i].capital /\ b.pnl = e.acc[i].pnl
      /\ b.reserved_pnl = e.acc[i].reserved_pnl
      /\ b.position_basis_q = e.acc[i].position_basis_q /\ b.adl_epoch_snap = t
      /\ b.adl_a_basis = a
  BY <1>1, <1>2 DEF AccountType
<1>4. PICK g : g = [e EXCEPT !.acc[i] = b]
  OBVIOUS
<1>5. g = Snap(e, i, a, k, f, t)
  BY <1>1, <1>2, <1>4 DEF EngineType, Snap
<1>6. /\ g \in EngineType /\ g.side = e.side /\ g.acc = [e.acc EXCEPT ![i] = b]
      /\ g.c_tot = e.c_tot /\ g.pnl_pos_tot = e.pnl_pos_tot
      /\ g.pnl_matured_pos_tot = e.pnl_matured_pos_tot
      /\ g.neg_pnl_account_count = e.neg_pnl_account_count
      /\ g.used = e.used /\ g.market_mode = e.market_mode /\ g.resolved = e.resolved
      /\ g.err = e.err /\ g.ctx = e.ctx /\ g.vault = e.vault /\ g.insurance = e.insurance
  BY <1>1, <1>3, <1>4 DEF EngineType
<1>7. \A j \in Accounts : g.acc[j] = IF j = i THEN b ELSE e.acc[j]
  BY <1>1, <1>6
<1>8. Drafted(e, g)
  <2>1. /\ Capitals(g) = Capitals(e) /\ Profits(g) = Profits(e) /\ Releases(g) = Releases(e)
        /\ Negatives(g) = Negatives(e) /\ \A s \in Side : Stored(g, s) = Stored(e, s)
    BY <1>3, <1>7 DEF Capitals, Profits, Releases, Negatives, Stored
  <2>2. ASSUME Books(e) PROVE Books(g)
    BY <1>3, <1>6, <1>7, <2>1, <2>2 DEF Books, Sums, Unclaimed
  <2>3. Flat(e) => Flat(g)
    BY <1>3, <1>7 DEF Flat
  <2>4. QED
    BY <1>6, <2>2, <2>3 DEF Drafted, Written, Alike, Good, Tracked, Ok
<1>9. \A d, q, u : Replaced(d, e, i, q, u) => Replaced(d, g, i, q, t)
  BY <1>1, <1>3, <1>6, <1>7 DEF Replaced
<1>10. t = e.acc[i].adl_epoch_snap => (Epochs(e) => Epochs(g))
  BY <1>3, <1>6, <1>7 DEF Epochs, OfEpoch
<1>11. t = e.acc[i].adl_epoch_snap /\ a = e.acc[i].adl_a_basis => (Covered(e) => Covered(g))
  <2> SUFFICES ASSUME t = e.acc[i].adl_epoch_snap, a = e.acc[i].adl_a_basis
               PROVE  Covered(e) => Covered(g)
    OBVIOUS
  <2>1. SamePositions(e.acc, g.acc)
    BY <1>3, <1>7 DEF SamePositions
  <2>2. \A s \in Side : SameCover(e.side[s], g.side[s])
    BY <1>1, <1>6, EngineFields, SideFields DEF SameCover
  <2>3. QED
    BY <1>1, <1>6, <2>1, <2>2, CoveredSame
<1>12. t = e.acc[i].adl_epoch_snap /\ a = e.acc[i].adl_a_basis => Sound(e, g)
  BY <1>8, <1>10, <1>11 DEF Drafted, Written, Sound, Moved, Kept
<1>13. QED
  BY <1>1, <1>3, <1>5, <1>6, <1>7, <1>8, <1>9, <1>12

\* Closing a position takes it out of its side's count.
LEMMA FlattenDrafted ==
    ASSUME NEW e, Good(e), NEW i, Member(e, i)
    PROVE  Drafted(e, Flatten(e, i)) /\ Replaced(e, Flatten(e, i), i, 0, 0)
<1>1. PICK f : f = SetBasis(e, i, 0)
  OBVIOUS
<1>2. Drafted(e, f) /\ Replaced(e, f, i, 0, e.acc[i].adl_epoch_snap)
  BY <1>1, SetBasisDrafted
<1>3. Good(f) /\ Member(f, i)
  BY <1>2, MemberWritten DEF Drafted
<1>4. Flatten(e, i) = Snap(f, i, ADL_ONE, 0, 0, 0)
  BY <1>1 DEF Flatten, Snap
<1>5. Drafted(f, Flatten(e, i)) /\ Replaced(e, Flatten(e, i), i, 0, 0)
  <2>1. PICK o \in Nat \ {0}, z \in Int : o = ADL_ONE /\ z = 0
    BY Consts
  <2>2. PICK g : g = Snap(f, i, o, z, z, z)
    OBVIOUS
  <2>3. Drafted(f, g) /\ \A d, q, u : Replaced(d, f, i, q, u) => Replaced(d, g, i, q, z)
    BY <1>3, <2>2, SnapDrafted
  <2>4. Replaced(e, g, i, 0, z)
    BY <1>2, <2>3
  <2>5. Flatten(e, i) = g
    BY <1>4, <2>1, <2>2
  <2>6. QED
    BY <2>1, <2>3, <2>4, <2>5
<1>6. QED
  BY <1>2, <1>5, DraftedTrans

\* The account's side is not waiting for its reset.
InStep(e, i) ==
    \A s \in Side : SideOf(e.acc[i].position_basis_q) = s => e.side[s].mode # "ResetPending"

\* A position may be replaced when neither its side nor the side of the new
\* one is waiting.
LEMMA EpochsReplaced ==
    ASSUME NEW e, NEW f, NEW i \in Accounts, NEW q, NEW t, Good(e), Epochs(e),
           InStep(e, i), Replaced(e, f, i, q, t),
           \A s \in Side : SideOf(q) = s => e.side[s].mode # "ResetPending" /\ t = e.side[s].epoch
    PROVE  Epochs(f)
<1>1. SUFFICES ASSUME NEW s \in Side
               PROVE  Aged(f.side[s]) /\ \A j \in Accounts : OfEpoch(f.acc[j], s, f.side[s])
  BY DEF Epochs
<1>2. e.side[s] \in SideType /\ e.side[s].epoch \in Int /\ e.side[s].stored \in Int
  BY EngineFields, SideFields DEF Good
<1>3. /\ f.side[s].mode = e.side[s].mode /\ f.side[s].oi = e.side[s].oi
      /\ f.side[s].epoch = e.side[s].epoch /\ f.side[s].stale = e.side[s].stale
      /\ f.side[s].stored
            = e.side[s].stored + (Bit(SideOf(q) = s) - Bit(SideOf(e.acc[i].position_basis_q) = s))
  BY DEF Replaced
<1>4. e.side[s].mode = "ResetPending" => f.side[s].stored = e.side[s].stored
  BY <1>2, <1>3 DEF InStep, Bit
<1>5. Aged(f.side[s])
  BY <1>3, <1>4 DEF Epochs, Aged
<1>6. ASSUME NEW j \in Accounts PROVE OfEpoch(f.acc[j], s, f.side[s])
  <2>1. CASE j = i
    BY <1>2, <1>3, <2>1 DEF Replaced, OfEpoch, Age
  <2>2. CASE j # i
    BY <1>3, <2>2 DEF Replaced, OfEpoch, Age, Epochs
  <2>3. QED
    BY <2>1, <2>2
<1>7. QED
  BY <1>5, <1>6

\* What account i holds of side s, at the side's A.
Portion(e, i, s) ==
    Share(InForce(e.acc, s, e.side[s].epoch)[i], e.acc[i].adl_a_basis, e.side[s].mult)

\* The cover of a side when a position is replaced: the open interest gives
\* up what was held and takes up the new basis.
LEMMA BacksReplaced ==
    ASSUME NEW e \in EngineType, NEW f \in EngineType, NEW i \in Accounts, NEW q, NEW t,
           Replaced(e, f, i, q, t), NEW s \in Side,
           NEW x, x = InForce(f.acc, s, f.side[s].epoch)[i],
           x # 0 => f.acc[i].adl_a_basis = f.side[s].mult,
           NEW n \in Int, BacksWith(e.acc, s, e.side[s], n)
    PROVE  /\ Portion(e, i, s) \in Nat /\ x \in Nat
           /\ BacksWith(f.acc, s, f.side[s], (n - Portion(e, i, s)) + x)
<1>1. PICK o \in SideType, p \in SideType : o = e.side[s] /\ p = f.side[s]
  BY EngineFields
<1>2. /\ p.mult = o.mult /\ p.epoch = o.epoch /\ p.dust >= o.dust
      /\ o.mult \in Nat \ {0} /\ o.dust \in Int /\ p.dust \in Int
  BY <1>1, SideFields DEF Replaced
<1>3. PICK u, a : u = InForce(e.acc, s, o.epoch) /\ a = Bases(e.acc)
  OBVIOUS
<1>4. PICK v, b : v = InForce(f.acc, s, p.epoch) /\ b = Bases(f.acc)
  OBVIOUS
<1>5. /\ u \in [Accounts -> Nat] /\ a \in [Accounts -> Nat \ {0}]
      /\ v \in [Accounts -> Nat] /\ b \in [Accounts -> Nat \ {0}]
  BY <1>3, <1>4, InForceNat, EngineFields
<1>6. \A j \in Accounts : j # i => v[j] = u[j] /\ b[j] = a[j]
  BY <1>2, <1>3, <1>4 DEF Replaced, InForce, Bases
<1>7. v[i] = x /\ x \in Nat /\ a[i] = e.acc[i].adl_a_basis /\ b[i] = f.acc[i].adl_a_basis
  BY <1>1, <1>3, <1>4, <1>5 DEF Bases
<1>8. PICK h \in Nat : h = Portion(e, i, s) /\ h = Share(u[i], a[i], o.mult)
  BY <1>1, <1>2, <1>3, <1>5, <1>7, ShareNat DEF Portion
<1>9. PICK r : r = [v EXCEPT ![i] = 0]
  OBVIOUS
<1>10. /\ r \in [Accounts -> Nat] /\ r[i] = 0
       /\ (\A j \in Accounts : j # i => r[j] = v[j])
       /\ x = 0 => r = v
  BY <1>5, <1>7, <1>9
<1>11. Covers(Accounts, u, a, o.mult, n, p.dust)
  <2>1. Covers(Accounts, u, a, o.mult, n, o.dust)
    BY <1>1, <1>3 DEF BacksWith
  <2>2. QED
    BY <1>2, <1>5, <2>1, CoversLooser, Consts
<1>12. Covers(Accounts, r, b, o.mult, n - h, p.dust)
  <2>1. \A j \in Accounts : j # i => r[j] = u[j] /\ b[j] = a[j]
    BY <1>6, <1>10
  <2>2. IsFiniteSet(Accounts) /\ o.mult \in Nat /\ r[i] = 0
    BY <1>2, <1>10, Consts
  <2>3. Covers(Accounts, r, b, o.mult, n - Share(u[i], a[i], o.mult), p.dust)
    BY <1>2, <1>5, <1>10, <1>11, <2>1, <2>2, CoversDropped
  <2>4. QED
    BY <1>8, <2>3
<1>13. Covers(Accounts, v, b, o.mult, (n - h) + x, p.dust)
  <2>1. CASE x = 0
    BY <1>8, <1>10, <1>12, <2>1
  <2>2. CASE x # 0
    <3>1. b[i] = o.mult
      BY <1>1, <1>2, <1>7, <2>2
    <3>2. \A j \in Accounts : j # i => v[j] = r[j] /\ b[j] = b[j]
      BY <1>10
    <3>3. n - h \in Int /\ r[i] = 0
      BY <1>8, <1>10
    <3>4. Covers(Accounts, v, b, o.mult, (n - h) + v[i], p.dust)
      BY <1>2, <1>5, <1>10, <1>12, <3>1, <3>2, <3>3, CoversAdded, Consts
    <3>5. QED
      BY <1>7, <3>4
  <2>3. QED
    BY <2>1, <2>2
<1>14. QED
  BY <1>1, <1>2, <1>4, <1>7, <1>8, <1>13 DEF BacksWith

\* Who has no basis on a side holds nothing of it.
LEMMA PortionZero ==
    ASSUME NEW e \in EngineType, NEW i \in Accounts, NEW s \in Side,
           InForce(e.acc, s, e.side[s].epoch)[i] = 0
    PROVE  Portion(e, i, s) = 0
<1>1. PICK a \in Nat \ {0}, m \in Nat : a = e.acc[i].adl_a_basis /\ m = e.side[s].mult
  BY EngineFields, AccountFields, SideFields
<1>2. Share(0, a, m) = 0
  BY ShareNat
<1>3. QED
  BY <1>1, <1>2 DEF Portion

\* A position that is worth nothing can be closed, whatever the open interest:
\* one side, ...
LEMMA BacksClosed ==
    ASSUME NEW e \in EngineType, NEW f \in EngineType, NEW i \in Accounts, NEW t,
           Replaced(e, f, i, 0, t), NEW s \in Side, Portion(e, i, s) = 0,
           Backs(e.acc, s, e.side[s])
    PROVE  Backs(f.acc, s, f.side[s])
<1>1. PICK n \in Int : n = e.side[s].oi
  BY EngineFields, SideFields
<1>2. PICK x : x = InForce(f.acc, s, f.side[s].epoch)[i]
  OBVIOUS
<1>3. x = 0
  BY <1>2 DEF InForce, Replaced, SideOf, Side
<1>4. BacksWith(e.acc, s, e.side[s], n)
  BY <1>1 DEF Backs
<1>5. BacksWith(f.acc, s, f.side[s], (n - Portion(e, i, s)) + x)
  BY <1>2, <1>3, <1>4, BacksReplaced
<1>6. (n - Portion(e, i, s)) + x = n
  BY <1>3
<1>7. f.side[s].oi = n
  BY <1>1 DEF Replaced
<1>8. QED
  BY <1>5, <1>6, <1>7 DEF Backs

\* ... and both.
LEMMA CoveredClosed ==
    ASSUME NEW e \in EngineType, NEW f \in EngineType, NEW i \in Accounts, NEW t,
           f.market_mode = e.market_mode, Replaced(e, f, i, 0, t),
           \A s \in Side : Portion(e, i, s) = 0
    PROVE  Covered(e) => Covered(f)
<1> SUFFICES ASSUME Covered(e), f.market_mode = "Live", NEW s \in Side
             PROVE  f.side[s].dust >= 0 /\ (Pending(f, s) \/ Backs(f.acc, s, f.side[s]))
  BY DEF Covered
<1>1. e.side[s].dust >= 0 /\ (Pending(e, s) \/ Backs(e.acc, s, e.side[s]))
  BY DEF Covered
<1>2. e.side[s] \in SideType /\ f.side[s] \in SideType
  BY EngineFields
<1>3. e.side[s].oi \in Int /\ f.side[s].oi = e.side[s].oi /\ f.side[s].dust >= 0
  BY <1>1, <1>2, SideFields DEF Replaced
<1>4. Backs(e.acc, s, e.side[s]) => Backs(f.acc, s, f.side[s])
  BY BacksClosed
<1>5. Pending(e, s) => Pending(f, s)
  BY DEF Replaced, Pending
<1>6. QED
  BY <1>1, <1>3, <1>4, <1>5

\* Closing a position of the current epoch that is worth nothing.
LEMMA FlattenSound ==
    ASSUME NEW e, Good(e), NEW i, Member(e, i), Epochs(e) => InStep(e, i),
           \A s \in Side : Portion(e, i, s) = 0
    PROVE  Sound(e, Flatten(e, i))
<1>1. PICK f : f = Flatten(e, i)
  OBVIOUS
<1>2. Drafted(e, f) /\ Replaced(e, f, i, 0, 0)
  BY <1>1, FlattenDrafted
<1>3. \A s \in Side : SideOf(0) # s
  BY DEF SideOf, Side
<1>4. Epochs(e) => Epochs(f)
  BY <1>2, <1>3, EpochsReplaced DEF Member
<1>5. Covered(e) => Covered(f)
  BY <1>2, CoveredClosed DEF Member, Drafted, Written, Alike, Good
<1>6. QED
  BY <1>1, <1>2, <1>4, <1>5 DEF Drafted, Written, Sound, Moved, Kept

\* inc_phantom_dust_bound
LEMMA AddDustSound ==
    ASSUME NEW e, Good(e), NEW sides, NEW n \in Nat
    PROVE  /\ Sound(e, AddDust(e, sides, n)) /\ AddDust(e, sides, n).acc = e.acc
           /\ AddDust(e, sides, n).ctx = e.ctx
           /\ \A s \in Side : Undated(e.side[s], AddDust(e, sides, n).side[s])
<1>1. e \in EngineType /\ e.side \in [Side -> SideType]
  BY EngineFields DEF Good
<1> DEFINE g == [s \in Side |-> IF s \in sides THEN [e.side[s] EXCEPT !.dust = @ + n] ELSE e.side[s]]
<1>2. AddDust(e, sides, n) = [e EXCEPT !.side = g]
  BY DEF AddDust
<1>3. ASSUME NEW s \in Side
      PROVE  g[s] \in SideType /\ g[s].stored = e.side[s].stored /\ Undated(e.side[s], g[s])
  <2>1. PICK d : d = e.side[s].dust + n
    OBVIOUS
  <2>2. e.side[s] \in SideType /\ d \in Int
    BY <1>1, <2>1, SideFields
  <2>3. g[s] = IF s \in sides THEN [e.side[s] EXCEPT !.dust = d] ELSE e.side[s]
    BY <2>1
  <2>4. e.side[s].dust \in Int /\ d >= e.side[s].dust
    BY <2>1, <2>2, SideFields
  <2> HIDE DEF g
  <2>5. CASE s \in sides
    BY <2>2, <2>3, <2>4, <2>5 DEF SideType, Undated
  <2>6. CASE s \notin sides
    BY <2>2, <2>3, <2>4, <2>6 DEF Undated
  <2>7. QED
    BY <2>5, <2>6
<1>4. g \in [Side -> SideType]
  BY <1>3
<1> HIDE DEF g
<1>5. /\ [e EXCEPT !.side = g].side = g /\ [e EXCEPT !.side = g].acc = e.acc
      /\ [e EXCEPT !.side = g].ctx = e.ctx
  BY <1>1 DEF EngineType
<1>6. \A s \in Side : Renewed(e, s, g[s]) /\ Rebacked(e, s, g[s])
  BY <1>1, <1>3, RenewedSame, RebackedSame
<1>7. QED
  BY <1>2, <1>3, <1>4, <1>5, <1>6, SidesSound

-----------------------------------------------------------------------------
(* Quantities *)

\* Arithmetic: the side of a position, ...
LEMMA SideOfSide == ASSUME NEW q \in Int, q # 0 PROVE SideOf(q) \in Side
  BY DEF SideOf, Side

\* ... quotients rounded down ...
LEMMA FloorInt == ASSUME NEW x \in Int, NEW d \in Nat \ {0} PROVE FloorDiv(x, d) \in Int
  BY DEF FloorDiv

\* ... that are not negative, ...
LEMMA FloorNat == ASSUME NEW x \in Nat, NEW d \in Nat \ {0} PROVE FloorDiv(x, d) \in Nat
  BY DEF FloorDiv

\* ... and rounded up ...
LEMMA CeilInt == ASSUME NEW x \in Int, NEW d \in Nat \ {0} PROVE CeilDiv(x, d) \in Int
  BY DEF CeilDiv

\* ... that are not negative, ...
LEMMA CeilNat == ASSUME NEW x \in Nat, NEW d \in Nat \ {0} PROVE CeilDiv(x, d) \in Nat
  BY DEF CeilDiv

\* ... and products.
LEMMA ProductPositive ==
    ASSUME NEW x \in Nat \ {0}, NEW y \in Nat \ {0} PROVE x * y \in Nat \ {0}
  OBVIOUS

\* Also of integers; the solvers need it by name.
LEMMA ProductInt == ASSUME NEW x \in Int, NEW y \in Int PROVE x * y \in Int
  OBVIOUS

\* effective_pos_q returns an integer.
LEMMA EffectivePosInt ==
    ASSUME NEW e \in EngineType, NEW i \in Accounts
    PROVE  EffectivePos(e, i) \in Int
<1>1. PICK a \in AccountType : a = e.acc[i]
  BY EngineFields
<1>2. a.position_basis_q \in Int /\ a.adl_a_basis \in Nat \ {0}
  BY AccountFields
<1>3. CASE a.position_basis_q = 0
  BY <1>1, <1>3 DEF EffectivePos, SideOf
<1>4. CASE a.position_basis_q # 0
  <2>1. PICK s \in Side : s = SideOf(a.position_basis_q)
    BY <1>2, <1>4, SideOfSide
  <2>2. e.side[s].mult \in Int
    BY EngineFields, SideFields
  <2>3. PICK x : x = Abs(a.position_basis_q) * e.side[s].mult
    OBVIOUS
  <2>4. x \in Int
    BY <1>2, <2>2, <2>3, AbsNat, ProductInt
  <2>5. FloorDiv(x, a.adl_a_basis) \in Int
    BY <1>2, <2>4, FloorInt
  <2>6. EffectivePos(e, i) \in {0, FloorDiv(x, a.adl_a_basis), -FloorDiv(x, a.adl_a_basis)}
    BY <1>1, <2>1, <2>3 DEF EffectivePos
  <2>7. QED
    BY <2>5, <2>6
<1>5. QED
  BY <1>3, <1>4

\* The part of the open interest that a position makes up is what its holder
\* has on the side.
LEMMA PortionEffective ==
    ASSUME NEW e \in EngineType, NEW i \in Accounts, NEW s \in Side
    PROVE  OiComponent(s, EffectivePos(e, i)) = Portion(e, i, s)
<1>1. PICK a \in AccountType : a = e.acc[i]
  BY EngineFields
<1>2. PICK q \in Int, d \in Nat \ {0} : q = a.position_basis_q /\ d = a.adl_a_basis
  BY <1>1, AccountFields
<1>3. ASSUME NEW t \in Side PROVE FloorDiv(Abs(q) * e.side[t].mult, d) \in Nat
  <2>1. PICK b \in Nat, m \in Nat : b = Abs(q) /\ m = e.side[t].mult
    BY <1>2, AbsNat, EngineFields, SideFields
  <2>2. b * m \in Nat
    OBVIOUS
  <2>3. QED
    BY <2>1, <2>2, FloorNat
<1>4. CASE SideOf(q) = s /\ a.adl_epoch_snap = e.side[s].epoch
  <2>1. PICK x \in Nat : x = FloorDiv(Abs(q) * e.side[s].mult, d)
    BY <1>3
  <2>2. EffectivePos(e, i) = IF s = "Long" THEN x ELSE -x
    BY <1>1, <1>2, <1>4, <2>1 DEF EffectivePos, Side
  <2>3. OiComponent(s, EffectivePos(e, i)) = x
    BY <2>1, <2>2 DEF OiComponent, Sign, Pos, Side
  <2>4. InForce(e.acc, s, e.side[s].epoch)[i] = Abs(q)
    BY <1>1, <1>2, <1>4 DEF InForce
  <2>5. QED
    BY <1>1, <1>2, <2>1, <2>3, <2>4 DEF Portion, Share, FloorDiv
<1>5. CASE ~(SideOf(q) = s /\ a.adl_epoch_snap = e.side[s].epoch)
  <2>1. InForce(e.acc, s, e.side[s].epoch)[i] = 0
    BY <1>1, <1>2, <1>5 DEF InForce
  <2>2. Portion(e, i, s) = 0
    BY <2>1, PortionZero
  <2>3. CASE SideOf(q) = "None" \/ a.adl_epoch_snap # e.side[SideOf(q)].epoch
    <3>1. EffectivePos(e, i) = 0
      BY <1>1, <1>2, <2>3 DEF EffectivePos
    <3>2. QED
      BY <2>2, <3>1 DEF OiComponent, Sign, Pos
  <2>4. CASE ~(SideOf(q) = "None" \/ a.adl_epoch_snap # e.side[SideOf(q)].epoch)
    <3>1. SideOf(q) # s
      BY <1>5, <2>4
    <3>2. q # 0
      BY <2>4 DEF SideOf
    <3>3. PICK t \in Side : t = SideOf(q)
      BY <3>2, SideOfSide
    <3>4. PICK x \in Nat : x = FloorDiv(Abs(q) * e.side[t].mult, d)
      BY <1>3
    <3>5. EffectivePos(e, i) = IF t = "Long" THEN x ELSE -x
      BY <1>1, <1>2, <2>4, <3>3, <3>4 DEF EffectivePos, Side
    <3>6. OiComponent(s, EffectivePos(e, i)) = 0
      BY <3>1, <3>3, <3>4, <3>5 DEF OiComponent, Sign, Pos, Side
    <3>7. QED
      BY <2>2, <3>6
  <2>5. QED
    BY <2>3, <2>4
<1>6. QED
  BY <1>4, <1>5

\* The PnL of an index move is an integer.
LEMMA KfPnlDeltaInt ==
    ASSUME NEW a \in AccountType, NEW k \in Int, NEW f \in Int
    PROVE  KfPnlDelta(a, k, f) \in Int
<1>1. /\ a.position_basis_q \in Int /\ a.adl_a_basis \in Nat \ {0}
      /\ a.adl_k_snap \in Int /\ a.f_snap \in Int
  BY AccountFields
<1>2. POS_SCALE \in Nat \ {0} /\ FUNDING_DEN \in Nat \ {0}
  BY Consts
<1>3. a.adl_a_basis * POS_SCALE \in Nat \ {0}
  BY <1>1, <1>2, ProductPositive
<1>4. a.adl_a_basis * POS_SCALE * FUNDING_DEN \in Nat \ {0}
  BY <1>2, <1>3, ProductPositive
<1>5. (k - a.adl_k_snap) * FUNDING_DEN \in Int
  BY <1>1, <1>2, ProductInt
<1>6. (k - a.adl_k_snap) * FUNDING_DEN + (f - a.f_snap) \in Int
  BY <1>1, <1>5
<1>7. Abs(a.position_basis_q) * ((k - a.adl_k_snap) * FUNDING_DEN + (f - a.f_snap)) \in Int
  BY <1>1, <1>6, AbsNat, ProductInt
<1>8. QED
  BY <1>4, <1>7, FloorInt DEF KfPnlDelta

-----------------------------------------------------------------------------
(* Positions and money of one account *)

\* A position's indices brought up to its side's.
LEMMA SnappedDrafted ==
    ASSUME NEW e, Good(e), NEW i, Member(e, i), NEW o \in SideType
    PROVE  /\ Drafted(e, Snapped(e, i, o))
           /\ \A d, q, u : Replaced(d, e, i, q, u) => Replaced(d, Snapped(e, i, o), i, q, o.epoch)
           /\ Snapped(e, i, o).acc[i].adl_a_basis = o.mult
<1>1. Snapped(e, i, o) = Snap(e, i, o.mult, o.coeff, o.f, o.epoch)
  BY DEF Snapped, Snap
<1>2. QED
  BY <1>1, SideFields, SnapDrafted

\* The epoch of a new position.
EpochFor(e, q) == IF q = 0 THEN 0 ELSE e.side[SideOf(q)].epoch

\* What replaced a position after the dust of the old one was counted.
LEMMA ReplacedAfterDust ==
    ASSUME NEW e, NEW d, NEW f, NEW i \in Accounts, NEW q, NEW t, d.acc = e.acc,
           d.ctx.pending_reset = e.ctx.pending_reset, e \in EngineType, d \in EngineType,
           f \in EngineType, \A s \in Side : Undated(e.side[s], d.side[s]),
           Replaced(d, f, i, q, t)
    PROVE  Replaced(e, f, i, q, t)
<1>1. ASSUME NEW s \in Side PROVE f.side[s].dust >= e.side[s].dust
  <2>1. e.side[s].dust \in Int /\ d.side[s].dust \in Int /\ f.side[s].dust \in Int
    BY EngineFields, SideFields
  <2>2. f.side[s].dust >= d.side[s].dust /\ d.side[s].dust >= e.side[s].dust
    BY DEF Replaced, Undated
  <2>3. QED
    BY <2>1, <2>2
<1>2. QED
  BY <1>1 DEF Replaced, Undated

\* attach_effective_position
LEMMA AttachWritten ==
    ASSUME NEW e, Good(e), NEW i, Member(e, i), NEW q \in Int
    PROVE  /\ Written(e, AttachPosition(e, i, q))
           /\ Replaced(e, AttachPosition(e, i, q), i, q, EpochFor(e, q))
           /\ q # 0 => AttachPosition(e, i, q).acc[i].adl_a_basis = e.side[SideOf(q)].mult
<1>1. PICK d : d = AddDust(e, OrphanedDust(e, i), 1)
  OBVIOUS
<1>2. /\ Sound(e, d) /\ Written(e, d) /\ d.acc = e.acc /\ d.ctx = e.ctx
      /\ \A s \in Side : Undated(e.side[s], d.side[s])
  BY <1>1, AddDustSound, SoundDrafted
<1>3. Good(d) /\ Member(d, i) /\ i \in Accounts /\ d \in EngineType /\ e \in EngineType
  BY <1>2, MemberKept DEF Member, Good
<1>4. CASE q = 0
  <2>1. AttachPosition(e, i, q) = Flatten(d, i)
    BY <1>1, <1>4 DEF AttachPosition
  <2>2. Drafted(d, Flatten(d, i)) /\ Replaced(d, Flatten(d, i), i, 0, 0)
    BY <1>3, FlattenDrafted
  <2>3. Replaced(e, Flatten(d, i), i, 0, 0)
    BY <1>2, <1>3, <2>2, ReplacedAfterDust DEF Drafted, Written, Good
  <2>4. QED
    BY <1>2, <1>4, <2>1, <2>2, <2>3, WrittenTrans DEF Drafted, EpochFor
<1>5. CASE q # 0
  <2>1. e.side[SideOf(q)] \in SideType
    BY <1>5, SideOfSide, EngineFields DEF Good
  <2>2. PICK o \in SideType : o = e.side[SideOf(q)]
    BY <2>1
  <2>3. PICK r : r = RejectUnless(d, Abs(q) <= MAX_POSITION_ABS_Q)
    OBVIOUS
  <2>4. /\ r = d \/ r = Reject(d)
        /\ r.acc = e.acc /\ r.ctx = e.ctx /\ \A s \in Side : Undated(e.side[s], r.side[s])
    BY <1>2, <1>3, <2>3, RejectSound DEF RejectUnless
  <2>5. Sound(e, r)
    BY <1>2, <2>4, CheckSound
  <2>6. PICK b : b = SetBasis(r, i, q)
    OBVIOUS
  <2>7. Good(r) /\ Member(r, i) /\ Written(e, r)
    BY <2>5, MemberKept, SoundDrafted
  <2>8. Written(r, b) /\ Replaced(r, b, i, q, r.acc[i].adl_epoch_snap)
    BY <2>6, <2>7, SetBasisDrafted
  <2>9. Good(b) /\ Member(b, i) /\ Written(e, b)
    BY <2>7, <2>8, MemberWritten, WrittenTrans
  <2>10. Replaced(e, b, i, q, r.acc[i].adl_epoch_snap)
    BY <1>3, <2>4, <2>7, <2>8, <2>9, ReplacedAfterDust DEF Good
  <2>11. AttachPosition(e, i, q) = Snapped(b, i, o)
    BY <1>1, <1>5, <2>2, <2>3, <2>6 DEF AttachPosition
  <2>12. /\ Drafted(b, Snapped(b, i, o))
         /\ Replaced(e, Snapped(b, i, o), i, q, o.epoch)
         /\ Snapped(b, i, o).acc[i].adl_a_basis = o.mult
    BY <2>2, <2>9, <2>10, SnappedDrafted
  <2>13. Written(e, Snapped(b, i, o))
    BY <2>9, <2>12, WrittenTrans DEF Drafted
  <2>14. QED
    BY <1>5, <2>2, <2>11, <2>12, <2>13 DEF EpochFor
<1>6. QED
  BY <1>4, <1>5

\* A new position on a side that is not waiting leaves the epochs in order.
LEMMA AttachEpochs ==
    ASSUME NEW e, Good(e), NEW i, Member(e, i), NEW q \in Int, Epochs(e), InStep(e, i),
           \A s \in Side : SideOf(q) = s => e.side[s].mode # "ResetPending"
    PROVE  Epochs(AttachPosition(e, i, q))
<1>1. PICK f : f = AttachPosition(e, i, q)
  OBVIOUS
<1>2. Replaced(e, f, i, q, EpochFor(e, q))
  BY <1>1, AttachWritten
<1>3. \A s \in Side : SideOf(q) = s => EpochFor(e, q) = e.side[s].epoch
  BY DEF EpochFor, SideOf, Side
<1>4. QED
  BY <1>1, <1>2, <1>3, EpochsReplaced DEF Member

\* The open interest that covers a side gives up what the account held of it
\* and takes up its new position.
LEMMA AttachBacks ==
    ASSUME NEW e, Good(e), NEW i, Member(e, i), NEW q \in Int, NEW f,
           f = AttachPosition(e, i, q), NEW s \in Side, NEW n \in Int,
           BacksWith(e.acc, s, e.side[s], n)
    PROVE  /\ BacksWith(f.acc, s, f.side[s], (n - Portion(e, i, s)) + OiComponent(s, q))
           /\ Portion(e, i, s) \in Nat /\ OiComponent(s, q) \in Nat
<1>1. e \in EngineType /\ f \in EngineType /\ i \in Accounts
  BY AttachWritten DEF Good, Member, Written
<1>2. Replaced(e, f, i, q, EpochFor(e, q))
  BY AttachWritten
<1>3. PICK x : x = InForce(f.acc, s, f.side[s].epoch)[i]
  OBVIOUS
<1>4. x = IF SideOf(q) = s THEN Abs(q) ELSE 0
  <2>1. /\ f.acc[i].position_basis_q = q /\ f.acc[i].adl_epoch_snap = EpochFor(e, q)
        /\ f.side[s].epoch = e.side[s].epoch
    BY <1>1, <1>2 DEF Replaced
  <2>2. SideOf(q) = s => EpochFor(e, q) = e.side[s].epoch
    BY DEF EpochFor, SideOf, Side
  <2>3. QED
    BY <1>1, <1>3, <2>1, <2>2 DEF InForce
<1>5. OiComponent(s, q) = x
  BY <1>4 DEF OiComponent, Pos, Sign, SideOf, Abs, Side
<1>6. ASSUME x # 0 PROVE f.acc[i].adl_a_basis = f.side[s].mult
  <2>1. SideOf(q) = s /\ q # 0
    BY <1>4, <1>6 DEF Abs
  <2>2. f.acc[i].adl_a_basis = e.side[SideOf(q)].mult
    BY <2>1, AttachWritten
  <2>3. QED
    BY <1>2, <2>1, <2>2 DEF Replaced
<1>7. QED
  BY <1>1, <1>2, <1>3, <1>5, <1>6, BacksReplaced

\* What another account holds does not change.
LEMMA PortionOther ==
    ASSUME NEW e \in EngineType, NEW f \in EngineType, NEW i \in Accounts, NEW q, NEW t,
           Replaced(e, f, i, q, t), NEW j \in Accounts, j # i, NEW s \in Side
    PROVE  Portion(f, j, s) = Portion(e, j, s)
  BY DEF Portion, InForce, Replaced

\* A position that is still worth something is of its side's epoch, so the
\* side is not waiting, and the position may be replaced by one on that side.
LEMMA EffectiveInStep ==
    ASSUME NEW e \in EngineType, NEW i \in Accounts, EffectivePos(e, i) # 0,
           NEW q \in Int, q = 0 \/ SideOf(q) = SideOf(EffectivePos(e, i))
    PROVE  Epochs(e) => /\ InStep(e, i)
                        /\ \A s \in Side : SideOf(q) = s => e.side[s].mode # "ResetPending"
<1>1. PICK a \in AccountType : a = e.acc[i]
  BY EngineFields
<1>2. a.position_basis_q \in Int /\ a.adl_a_basis \in Nat \ {0}
  BY <1>1, AccountFields
<1>3. PICK s : s = SideOf(a.position_basis_q)
  OBVIOUS
<1>4. s \in Side
  <2>1. s # "None"
    BY <1>1, <1>3 DEF EffectivePos
  <2>2. a.position_basis_q # 0
    BY <1>3, <2>1 DEF SideOf
  <2>3. QED
    BY <1>2, <1>3, <2>2, SideOfSide
<1>5. e.side[s].mult \in Nat /\ e.side[s].epoch \in Int
  BY <1>4, EngineFields, SideFields
<1>6. a.adl_epoch_snap = e.side[s].epoch
  BY <1>1, <1>3 DEF EffectivePos
<1>7. PICK x \in Nat : x = FloorDiv(Abs(a.position_basis_q) * e.side[s].mult, a.adl_a_basis)
  <2>1. Abs(a.position_basis_q) * e.side[s].mult \in Nat
    <3>1. PICK y \in Nat, m \in Nat : y = Abs(a.position_basis_q) /\ m = e.side[s].mult
      BY <1>2, <1>5, AbsNat
    <3>2. y * m \in Nat
      OBVIOUS
    <3>3. QED
      BY <3>1, <3>2
  <2>2. QED
    BY <1>2, <2>1, FloorNat
<1>8. EffectivePos(e, i) \in {0, IF s = "Long" THEN x ELSE -x}
  BY <1>1, <1>3, <1>7 DEF EffectivePos
<1>9. SideOf(EffectivePos(e, i)) = s
  BY <1>4, <1>7, <1>8 DEF SideOf, Side
<1>10. Epochs(e) => e.side[s].mode # "ResetPending"
  BY <1>1, <1>3, <1>4, <1>5, <1>6 DEF Epochs, OfEpoch, Age
<1>11. q = 0 => \A t \in Side : SideOf(q) # t
  BY DEF SideOf, Side
<1>12. QED
  BY <1>1, <1>3, <1>9, <1>10, <1>11 DEF InStep

\* settle_losses
LEMMA SettleLossesSound ==
    ASSUME NEW e, Good(e), NEW i, Member(e, i)
    PROVE  Sound(e, SettleLosses(e, i))
<1>1. PICK c \in Int, x \in Int : c = e.acc[i].capital /\ x = e.acc[i].pnl
  BY EngineFields, AccountFields DEF Good, Member
<1>2. PICK pay : pay = Lesser(Pos(-x), c)
  OBVIOUS
<1>3. pay \in Int /\ pay <= c
  BY <1>1, <1>2 DEF Lesser, Pos
<1>4. CASE pay = 0
  <2>1. SettleLosses(e, i) = e
    BY <1>1, <1>2, <1>4 DEF SettleLosses
  <2>2. QED
    BY <2>1, SoundRefl
<1>5. CASE pay # 0
  <2>1. PICK y \in Int, z \in Int : y = c - pay /\ z = x + pay
    BY <1>1, <1>3
  <2>2. PICK f : f = SetCapital(e, i, y)
    OBVIOUS
  <2>3. Sound(e, f)
    BY <1>3, <2>1, <2>2, SetCapitalSound
  <2>4. Good(f) /\ Member(f, i)
    BY <2>3, MemberKept
  <2>5. SettleLosses(e, i) = SetPnl(f, i, z, "Resolved")
    BY <1>1, <1>2, <1>5, <2>1, <2>2 DEF SettleLosses
  <2>6. QED
    BY <2>3, <2>4, <2>5, SetPnlSound, SoundTrans
<1>6. QED
  BY <1>4, <1>5

\* What the insurance fund pays of a loss is an integer.
LEMMA InsurancePaysInt ==
    ASSUME NEW e \in EngineType, NEW d \in Int
    PROVE  InsurancePays(e, d) \in Int /\ (d >= 0 => d - InsurancePays(e, d) \in Nat)
<1>1. e.insurance \in Int /\ insurance_floor \in Nat
  BY EngineFields, Consts
<1>2. QED
  BY <1>1 DEF InsurancePays, Lesser, Greater

\* use_insurance_buffer
LEMMA UseInsuranceSound ==
    ASSUME NEW e, Good(e), NEW d \in Int, Ok(e) => e.used # {}
    PROVE  Sound(e, UseInsurance(e, d)) /\ UseInsurance(e, d).side = e.side
<1>1. e \in EngineType
  BY DEF Good
<1>2. PICK w : w = e.insurance - InsurancePays(e, d)
  OBVIOUS
<1>3. w \in Int
  BY <1>1, <1>2, InsurancePaysInt, EngineFields
<1>4. UseInsurance(e, d) = [e EXCEPT !.insurance = w]
  BY <1>2 DEF UseInsurance
<1>5. [e EXCEPT !.insurance = w].side = e.side
  BY <1>1 DEF EngineType
<1>6. QED
  BY <1>3, <1>4, <1>5, InsuranceSound

\* resolve_flat_negative
LEMMA FlatNegativeSound ==
    ASSUME NEW e, Good(e), NEW i, Member(e, i)
    PROVE  Sound(e, ResolveFlatNegative(e, i))
<1>1. e.acc[i].pnl \in Int
  BY EngineFields, AccountFields DEF Good, Member
<1>2. CASE EffectivePos(e, i) = 0 /\ e.acc[i].pnl < 0
  <2>1. PICK d \in Int : d = -e.acc[i].pnl
    BY <1>1
  <2>2. PICK f : f = UseInsurance(e, d)
    OBVIOUS
  <2>3. Sound(e, f)
    BY <2>2, UseInsuranceSound DEF Member
  <2>4. Good(f) /\ Member(f, i)
    BY <2>3, MemberKept
  <2>5. ResolveFlatNegative(e, i) = SetPnl(f, i, 0, "Resolved")
    BY <1>2, <2>1, <2>2 DEF ResolveFlatNegative
  <2>6. QED
    BY <2>3, <2>4, <2>5, SetPnlSound, SoundTrans
<1>3. CASE ~(EffectivePos(e, i) = 0 /\ e.acc[i].pnl < 0)
  <2>1. ResolveFlatNegative(e, i) = e
    BY <1>3 DEF ResolveFlatNegative
  <2>2. QED
    BY <2>1, SoundRefl
<1>4. QED
  BY <1>2, <1>3

FeeMove(e, i, x, w) == [e EXCEPT !.acc[i].fee_credits = x, !.insurance = w]

\* fee_debt_sweep
LEMMA FeeDebtSweepSound ==
    ASSUME NEW e, Good(e), NEW i, Member(e, i)
    PROVE  Sound(e, FeeDebtSweep(e, i))
<1>1. PICK c \in Int, d \in Int : c = e.acc[i].capital /\ d = e.acc[i].fee_credits
  BY EngineFields, AccountFields DEF Good, Member
<1>2. PICK pay : pay = Lesser(Pos(-d), c)
  OBVIOUS
<1>3. pay \in Int /\ pay <= c
  BY <1>1, <1>2 DEF Lesser, Pos
<1>4. PICK y \in Int : y = c - pay
  BY <1>1, <1>3
<1>5. PICK f : f = SetCapital(e, i, y)
  OBVIOUS
<1>6. Sound(e, f)
  BY <1>3, <1>4, <1>5, SetCapitalSound
<1>7. Good(f) /\ Member(f, i)
  BY <1>6, MemberKept
<1>8. f.acc[i].fee_credits \in Int /\ f.insurance \in Int
  BY <1>7, EngineFields, AccountFields DEF Good, Member
<1>9. PICK x \in Int, w \in Int : x = f.acc[i].fee_credits + pay /\ w = f.insurance + pay
  BY <1>3, <1>8
<1>10. FeeDebtSweep(e, i) = FeeMove(f, i, x, w)
  BY <1>1, <1>2, <1>4, <1>5, <1>9 DEF FeeDebtSweep, FeeDebt, FeeMove
<1>11. QED
  BY <1>6, <1>7, <1>10, FeeMoved, SoundTrans DEF FeeMove

\* charge_fee_to_insurance
LEMMA ChargeFeeSound ==
    ASSUME NEW e, Good(e), NEW i, Member(e, i), NEW fee \in Int
    PROVE  Sound(e, ChargeFee(e, i, fee))
<1>1. PICK c \in Int, d \in Int : c = e.acc[i].capital /\ d = e.acc[i].fee_credits
  BY EngineFields, AccountFields DEF Good, Member
<1>2. PICK paid, impact : paid = FeePaid(e.acc[i], fee) /\ impact = FeeImpact(e.acc[i], fee)
  OBVIOUS
<1>3. paid \in Int /\ paid <= c /\ impact \in Int
  BY <1>1, <1>2, Consts DEF FeePaid, FeeImpact, Lesser, Greater
<1>4. PICK y \in Int : y = c - paid
  BY <1>1, <1>3
<1>5. PICK f : f = SetCapital(e, i, y)
  OBVIOUS
<1>6. Sound(e, f)
  BY <1>3, <1>4, <1>5, SetCapitalSound
<1>7. Good(f) /\ Member(f, i)
  BY <1>6, MemberKept
<1>8. f.acc[i].fee_credits \in Int /\ f.insurance \in Int
  BY <1>7, EngineFields, AccountFields DEF Good, Member
<1>9. PICK x \in Int, w \in Int : x = f.acc[i].fee_credits - (impact - paid) /\ w = f.insurance + paid
  BY <1>3, <1>8
<1>10. ChargeFee(e, i, fee) = FeeMove(f, i, x, w)
  <2>1. f \in EngineType /\ i \in Accounts
    BY <1>7 DEF Good, Member
  <2>2. QED
    BY <1>1, <1>2, <1>4, <1>5, <1>9, <2>1 DEF ChargeFee, FeeMove, EngineType
<1>11. QED
  BY <1>6, <1>7, <1>10, FeeMoved, SoundTrans DEF FeeMove

-----------------------------------------------------------------------------
(* Released profit *)

\* consume_released_pnl takes the same amount from the account and from both totals.
LEMMA ConsumeSound ==
    ASSUME NEW e, Good(e), NEW i, Member(e, i), NEW x \in Nat
    PROVE  Sound(e, ConsumeReleased(e, i, x))
<1>1. e \in EngineType /\ i \in Accounts /\ e.acc[i] \in AccountType
  BY EngineFields DEF Good, Member
<1>2. PICK y \in Int, r \in Nat, c \in Int, p \in Int, m \in Int, n \in Int :
         /\ y = e.acc[i].pnl /\ r = e.acc[i].reserved_pnl /\ c = e.c_tot
         /\ p = e.pnl_pos_tot - x /\ m = e.pnl_matured_pos_tot - x
         /\ n = e.neg_pnl_account_count
  <2>1. /\ e.acc[i].pnl \in Int /\ e.acc[i].reserved_pnl \in Nat /\ e.c_tot \in Int
        /\ e.pnl_pos_tot \in Int /\ e.pnl_matured_pos_tot \in Int
        /\ e.neg_pnl_account_count \in Int
    BY <1>1, AccountFields, EngineFields
  <2>2. e.pnl_pos_tot - x \in Int /\ e.pnl_matured_pos_tot - x \in Int
    BY <2>1
  <2>3. QED
    BY <2>1, <2>2
<1>3. c \in Int /\ p \in Int /\ m \in Int /\ n \in Int
  BY <1>1, <1>2, EngineFields
<1>4. PICK z \in Int : z = y - x
  OBVIOUS
<1>5. PICK b : b = [e.acc[i] EXCEPT !.pnl = z]
  OBVIOUS
<1>6. /\ b \in AccountType /\ b.pnl = z /\ b.capital = e.acc[i].capital
      /\ b.reserved_pnl = r /\ b.position_basis_q = e.acc[i].position_basis_q
      /\ b.adl_epoch_snap = e.acc[i].adl_epoch_snap /\ b.adl_a_basis = e.acc[i].adl_a_basis
  BY <1>1, <1>2, <1>5 DEF AccountType
<1>7. PICK f : f = Put(e, i, b, c, p, m, n)
  OBVIOUS
<1>8. f = [e EXCEPT !.acc[i].pnl = @ - x, !.pnl_pos_tot = @ - x, !.pnl_matured_pos_tot = @ - x]
  BY <1>1, <1>2, <1>4, <1>5, <1>7 DEF Put, EngineType
<1>9. CASE x # 0 /\ x <= Pos(y) - r
  <2>1. Pos(y) = y /\ Pos(z) = z /\ z >= r /\ y > 0
    BY <1>4, <1>9 DEF Pos
  <2>2. ASSUME Ok(e) PROVE Follows(e, i, b, c, p, m, n)
    <3>1. Books(e) /\ e.acc[i].capital >= 0 /\ e.acc[i].capital \in Int
      BY <1>1, <2>2, AccountFields DEF Good, Books
    <3>2. e.pnl_pos_tot \in Int /\ e.pnl_matured_pos_tot \in Int /\ e.neg_pnl_account_count \in Int
      BY <1>1, EngineFields
    <3>3. e.market_mode # "Live" => m = p
      BY <1>2, <3>1 DEF Books, Sums
    <3>4. Bit(b.pnl < 0) - Bit(e.acc[i].pnl < 0) = 0
      BY <1>2, <1>6, <2>1 DEF Bit
    <3>5. Pos(e.acc[i].pnl) = y /\ Pos(b.pnl) = y - x /\ b.reserved_pnl = e.acc[i].reserved_pnl
          /\ e.acc[i].reserved_pnl \in Int /\ b.reserved_pnl <= y - x
      BY <1>2, <1>4, <1>6, <2>1
    <3>6. QED
      BY <1>2, <1>3, <1>6, <3>1, <3>2, <3>3, <3>4, <3>5 DEF Follows
  <2>3. Sound(e, f)
    BY <1>3, <1>6, <1>7, <2>2, PutSound
  <2>4. ConsumeReleased(e, i, x) = f \/ ConsumeReleased(e, i, x) = Corrupt(f)
    BY <1>8 DEF ConsumeReleased, CorruptUnless
  <2>5. QED
    BY <2>3, <2>4, CheckSound
<1>10. CASE ~(x # 0 /\ x <= Pos(y) - r)
  <2>1. f \in EngineType /\ f.used = e.used /\ f.market_mode = e.market_mode
        /\ f.resolved = e.resolved /\ f.err = e.err /\ f.ctx = e.ctx /\ f.vault = e.vault
    <3>1. f \in EngineType
      BY <1>1, <1>3, <1>6, <1>7, PutType
    <3>2. QED
      BY <1>1, <1>7, <3>1 DEF Put, EngineType
  <2>2. ConsumeReleased(e, i, x) = IF Ok(f) THEN Corrupt(f) ELSE f
    BY <1>2, <1>8, <1>10 DEF ConsumeReleased, CorruptUnless
  <2>3. CASE Ok(f)
    BY <2>1, <2>2, <2>3, CorruptSound DEF Sound, Moved, Kept, Alike, Tracked
  <2>4. CASE ~Ok(f)
    BY <2>1, <2>2, <2>4 DEF Sound, Moved, Good, Kept, Alike, Tracked
  <2>5. QED
    BY <2>3, <2>4
<1>11. QED
  BY <1>9, <1>10

\* An account whose reserve changes, with the matured total following.
LEMMA ReserveSound ==
    ASSUME NEW e, Good(e), Ok(e), e.market_mode = "Live", NEW i, Member(e, i),
           NEW b \in AccountType, SameRest(e.acc[i], b), b.pnl = e.acc[i].pnl,
           b.reserved_pnl <= e.acc[i].reserved_pnl,
           NEW m, m = e.pnl_matured_pos_tot + (e.acc[i].reserved_pnl - b.reserved_pnl)
    PROVE  Sound(e, [e EXCEPT !.acc[i] = b, !.pnl_matured_pos_tot = m])
<1>1. e \in EngineType /\ i \in Accounts /\ e.acc[i] \in AccountType /\ Books(e)
  BY EngineFields DEF Good, Member
<1>2. PICK y \in Int, r \in Nat, s \in Nat, k \in Int, c \in Int, p \in Int, n \in Int :
         /\ y = e.acc[i].pnl /\ r = e.acc[i].reserved_pnl /\ s = b.reserved_pnl
         /\ k = e.acc[i].capital
         /\ c = e.c_tot /\ p = e.pnl_pos_tot /\ n = e.neg_pnl_account_count
  BY <1>1, AccountFields, EngineFields
<1>3. c \in Int /\ p \in Int /\ m \in Int /\ n \in Int /\ e.pnl_matured_pos_tot \in Int
  BY <1>1, <1>2, EngineFields
<1>4. [e EXCEPT !.acc[i] = b, !.pnl_matured_pos_tot = m] = Put(e, i, b, c, p, m, n)
  BY <1>1, <1>2 DEF Put, EngineType
<1>5. /\ b.capital = k /\ b.pnl = y /\ b.position_basis_q = e.acc[i].position_basis_q
      /\ b.adl_epoch_snap = e.acc[i].adl_epoch_snap /\ b.adl_a_basis = e.acc[i].adl_a_basis
  BY <1>2 DEF SameRest
<1>6. Pos(y) \in Int /\ r <= Pos(y) /\ k >= 0
  BY <1>1, <1>2, PosInt DEF Books
<1>7. Bit(b.pnl < 0) - Bit(e.acc[i].pnl < 0) = 0
  BY <1>2, <1>5 DEF Bit
<1>8. Follows(e, i, b, c, p, m, n)
  <2>1. PICK x \in Int, d \in Int : /\ x = Pos(b.pnl) /\ x = Pos(e.acc[i].pnl)
                                   /\ d = e.pnl_matured_pos_tot
    BY <1>2, <1>3, <1>5, <1>6
  <2>2. m = d + ((x - s) - (x - r)) /\ s <= x
    BY <1>2, <1>5, <1>6, <2>1
  <2>3. c = e.c_tot + (b.capital - e.acc[i].capital) /\ p = e.pnl_pos_tot + (x - x)
    BY <1>2, <1>5, <2>1
  <2>4. n = e.neg_pnl_account_count + (Bit(b.pnl < 0) - Bit(e.acc[i].pnl < 0))
    BY <1>2, <1>7
  <2>5. QED
    BY <1>2, <1>5, <1>6, <2>1, <2>2, <2>3, <2>4 DEF Follows
<1>9. QED
  BY <1>3, <1>4, <1>8, PutSound

\* A cleared reserve is of its type and holds nothing.
LEMMA ClearReserveSound ==
    ASSUME NEW a \in AccountType, NEW b, b = ClearReserve(a)
    PROVE  /\ b \in AccountType /\ SameRest(a, b) /\ b.pnl = a.pnl /\ b.reserved_pnl = 0
           /\ ShapeOk(b)
<1>1. b = [a EXCEPT !.sched = NoSched, !.pending = NoPending, !.reserved_pnl = 0]
  BY DEF ClearReserve
<1>2. /\ b \in AccountType /\ SameRest(a, b) /\ b.pnl = a.pnl /\ b.reserved_pnl = 0
      /\ b.sched = NoSched /\ b.pending = NoPending
  <2>1. PICK z \in Nat : z = 0
    OBVIOUS
  <2>2. b = [a EXCEPT !.sched = NoSched, !.pending = NoPending, !.reserved_pnl = z]
    BY <1>1, <2>1
  <2>3. QED
    BY <2>1, <2>2, NoBuckets DEF AccountType, SameRest
<1>3. /\ ~NoSched.present /\ NoSched.remaining = 0 /\ ~NoPending.present
      /\ NoPending.remaining = 0
  BY DEF NoSched, NoPending
<1>4. Pos(b.pnl) >= 0
  BY <1>2, AccountFields, PosInt
<1>5. QED
  BY <1>2, <1>3, <1>4 DEF ShapeOk, SchedShapeOk, PendingShapeOk

\* admit_outstanding_reserve_on_touch
LEMMA AdmitSound ==
    ASSUME NEW e, Good(e), NEW i, Member(e, i), e.market_mode = "Live",
           Ok(e) => ShapeOk(e.acc[i]), NEW f, f = AdmitOutstanding(e, i)
    PROVE  Sound(e, f) /\ (Ok(f) => ShapeOk(f.acc[i]))
<1>1. e \in EngineType /\ i \in Accounts /\ e.acc[i] \in AccountType
      /\ e.acc \in [Accounts -> AccountType]
  BY EngineFields DEF Good, Member
<1>2. Sound(e, e) /\ Sound(e, Corrupt(e)) /\ ~Ok(Corrupt(e))
  BY <1>1, SoundRefl, CheckSound, CorruptSound
<1>3. CASE f \in {e, Corrupt(e)}
  BY <1>2, <1>3
<1>4. CASE f \notin {e, Corrupt(e)}
  <2>1. PICK r \in Nat, m \in Int : r = e.acc[i].reserved_pnl /\ m = e.pnl_matured_pos_tot + r
    <3>1. e.acc[i].reserved_pnl \in Nat /\ e.pnl_matured_pos_tot \in Int
      BY <1>1, AccountFields, EngineFields
    <3>2. e.pnl_matured_pos_tot + e.acc[i].reserved_pnl \in Int
      BY <3>1
    <3>3. QED
      BY <3>1, <3>2
  <2>2. PICK b : b = ClearReserve(e.acc[i])
    OBVIOUS
  <2>3. /\ b \in AccountType /\ SameRest(e.acc[i], b) /\ b.pnl = e.acc[i].pnl
        /\ b.reserved_pnl = 0 /\ ShapeOk(b)
    BY <1>1, <2>2, ClearReserveSound
  <2>4. PICK g : g = [e EXCEPT !.acc[i] = b, !.pnl_matured_pos_tot = m]
    OBVIOUS
  <2>5. f = g \/ f = Corrupt(g)
    <3>1. g = [e EXCEPT !.pnl_matured_pos_tot = m, !.acc[i] = ClearReserve(@)]
      BY <1>1, <2>2, <2>4 DEF EngineType
    <3>2. QED
      BY <1>4, <2>1, <3>1 DEF AdmitOutstanding, CorruptUnless
  <2>6. g \in EngineType /\ g.used = e.used /\ g.market_mode = e.market_mode
        /\ g.resolved = e.resolved /\ g.err = e.err /\ g.acc[i] = b /\ g.vault = e.vault
    <3>1. m \in Int
      BY <1>1, <2>1, EngineFields
    <3>2. QED
      BY <1>1, <2>3, <2>4, <3>1 DEF EngineType
  <2>7. CASE ~Ok(e)
    <3>1. Sound(e, g)
      BY <2>6, <2>7 DEF Sound, Moved, Good, Kept, Alike, Ok, Tracked
    <3>2. ~Ok(f)
      BY <2>5, <2>6, <2>7, CorruptSound DEF Ok
    <3>3. QED
      BY <2>5, <3>1, <3>2, CheckSound
  <2>8. CASE Ok(e)
    <3>1. /\ b.reserved_pnl <= e.acc[i].reserved_pnl
          /\ m = e.pnl_matured_pos_tot + (e.acc[i].reserved_pnl - b.reserved_pnl)
      BY <2>1, <2>3
    <3>2. Sound(e, g)
      BY <2>3, <2>4, <2>8, <3>1, ReserveSound
    <3>3. Sound(e, f)
      BY <2>5, <3>2, CheckSound
    <3>4. Ok(f) => f = g
      BY <2>5, <2>6, CorruptSound
    <3>5. QED
      BY <2>3, <2>6, <3>3, <3>4
  <2>9. QED
    BY <2>7, <2>8
<1>5. QED
  BY <1>3, <1>4

\* The account's side of advance_profit_warmup: what is released leaves the reserve.
LEMMA WarmupSound ==
    ASSUME NEW a \in AccountType, ShapeOk(a), NEW now \in Int, AdvanceOk(a, now),
           NEW b, b = AdvanceWarmup(a, now)
    PROVE  /\ b \in AccountType /\ SameRest(a, b) /\ b.pnl = a.pnl
           /\ b.reserved_pnl <= a.reserved_pnl
<1>1. a.reserved_pnl \in Nat /\ a.sched \in SchedType /\ a.pending \in PendingType
  BY AccountFields
<1>2. CASE a.reserved_pnl = 0
  <2>1. b = a
    BY <1>2 DEF AdvanceWarmup
  <2>2. QED
    BY <1>1, <2>1 DEF SameRest
<1>3. CASE a.reserved_pnl # 0
  <2>1. PICK p : p = PromotePending(a, now)
    OBVIOUS
  <2>2. /\ p \in AccountType /\ SameRest(a, p) /\ p.pnl = a.pnl
        /\ p.reserved_pnl = a.reserved_pnl
        /\ p.sched.remaining + p.pending.remaining
             = IF a.pending.present /\ ~a.sched.present THEN a.pending.remaining
               ELSE a.sched.remaining + a.pending.remaining
    BY <2>1, PromoteSound
  <2>3. /\ a.sched.remaining \in Nat /\ a.pending.remaining \in Nat
        /\ a.sched.remaining + a.pending.remaining = a.reserved_pnl
        /\ ~a.sched.present => a.sched.remaining = 0
    BY <1>1 DEF ShapeOk, SchedType, PendingType, SchedShapeOk, NoSched
  <2>4. PICK o \in SchedType : o = p.sched
    BY <2>2, AccountFields
  <2>5. /\ o.remaining \in Nat /\ o.anchor \in Int /\ o.start \in Int /\ o.horizon \in Int
        /\ o.release \in Int /\ p.pending.remaining \in Nat
    BY <2>2, AccountFields DEF SchedType, PendingType
  <2>6. o.remaining <= p.reserved_pnl
    BY <1>1, <2>2, <2>3, <2>4, <2>5
  <2>7. now >= o.start /\ ScheduledTotal(o, now) >= o.release
    BY <1>3, <2>1, <2>4 DEF AdvanceOk
  <2>8. PICK t : t = ScheduledTotal(o, now)
    OBVIOUS
  <2>9. t \in Int
    <3>1. CASE now - o.start >= o.horizon
      BY <2>5, <2>8, <3>1 DEF ScheduledTotal
    <3>2. CASE ~(now - o.start >= o.horizon)
      <4>1. o.horizon \in Nat \ {0} /\ now - o.start \in Int
        BY <2>5, <2>7, <3>2
      <4>2. o.anchor * (now - o.start) \in Int
        BY <2>5, <4>1, ProductInt
      <4>3. (o.anchor * (now - o.start)) \div o.horizon \in Int
        BY <4>1, <4>2, FloorInt DEF FloorDiv
      <4>4. QED
        BY <2>8, <3>2, <4>3 DEF ScheduledTotal
    <3>3. QED
      BY <3>1, <3>2
  <2>10. PICK w : w = WarmupRelease(o, now)
    OBVIOUS
  <2>11. w \in Nat /\ w <= o.remaining
    BY <2>5, <2>7, <2>8, <2>9, <2>10 DEF WarmupRelease, Lesser
  <2>12. PICK x \in Nat, r \in Nat : x = o.remaining - w /\ r = p.reserved_pnl - w
    <3>1. p.reserved_pnl \in Nat
      BY <1>1, <2>2
    <3>2. o.remaining - w \in Nat /\ p.reserved_pnl - w \in Nat
      BY <2>5, <2>6, <2>11, <3>1
    <3>3. QED
      BY <3>2
  <2>13. PICK u : u = [o EXCEPT !.remaining = x, !.release = t]
    OBVIOUS
  <2>14. u \in SchedType
    BY <2>9, <2>12, <2>13 DEF SchedType
  <2>15. PICK q : q = [p EXCEPT !.sched = u, !.reserved_pnl = r]
    OBVIOUS
  <2>16. q \in AccountType /\ SameRest(p, q) /\ q.pnl = p.pnl /\ q.reserved_pnl = r
    BY <2>2, <2>12, <2>14, <2>15 DEF AccountType, SameRest
  <2>17. b = PromoteWhenEmpty(q, now)
    <3>1. q = [p EXCEPT !.sched.remaining = @ - WarmupRelease(p.sched, now),
                        !.sched.release = ScheduledTotal(p.sched, now),
                        !.reserved_pnl = @ - WarmupRelease(p.sched, now)]
      BY <2>2, <2>4, <2>8, <2>10, <2>12, <2>13, <2>15 DEF AccountType
    <3>2. QED
      BY <1>3, <2>1, <3>1 DEF AdvanceWarmup, Advanced
  <2>18. PICK v : v = [q EXCEPT !.sched = NoSched]
    OBVIOUS
  <2>19. v \in AccountType /\ SameRest(q, v) /\ v.pnl = q.pnl /\ v.reserved_pnl = q.reserved_pnl
    BY <2>16, <2>18, NoBuckets DEF AccountType, SameRest
  <2>20. b = q \/ b = PromotePending(v, now)
    BY <2>17, <2>18 DEF PromoteWhenEmpty
  <2>21. /\ b \in AccountType /\ SameRest(q, b) /\ b.pnl = q.pnl
         /\ b.reserved_pnl = q.reserved_pnl
    <3>1. CASE b = q
      BY <2>16, <3>1 DEF SameRest
    <3>2. CASE b = PromotePending(v, now)
      <4>1. /\ b \in AccountType /\ SameRest(v, b) /\ b.pnl = v.pnl
            /\ b.reserved_pnl = v.reserved_pnl
        BY <2>19, <3>2, PromoteSound
      <4>2. QED
        BY <2>19, <4>1 DEF SameRest
    <3>3. QED
      BY <2>20, <3>1, <3>2
  <2>22. SameRest(a, b) /\ b.pnl = a.pnl
    BY <2>2, <2>16, <2>21 DEF SameRest
  <2>23. b.reserved_pnl <= a.reserved_pnl
    BY <1>1, <2>2, <2>11, <2>12, <2>16, <2>21
  <2>24. QED
    BY <2>21, <2>22, <2>23
<1>4. QED
  BY <1>2, <1>3

\* advance_profit_warmup
LEMMA AdvanceSound ==
    ASSUME NEW e, Good(e), NEW i, Member(e, i), e.market_mode = "Live",
           Ok(e) => ShapeOk(e.acc[i])
    PROVE  Sound(e, AdvanceProfitWarmup(e, i))
<1>1. e \in EngineType /\ i \in Accounts /\ e.acc[i] \in AccountType /\ e.current_slot \in Int
  BY EngineFields DEF Good, Member
<1>2. Sound(e, e) /\ Sound(e, Corrupt(e))
  BY SoundRefl, CheckSound
<1>3. CASE ~Ok(e) \/ ~AdvanceOk(e.acc[i], e.current_slot)
  <2>1. AdvanceProfitWarmup(e, i) \in {e, Corrupt(e)}
    BY <1>3 DEF AdvanceProfitWarmup
  <2>2. QED
    BY <1>2, <2>1
<1>4. CASE Ok(e) /\ AdvanceOk(e.acc[i], e.current_slot)
  <2>1. PICK b : b = AdvanceWarmup(e.acc[i], e.current_slot)
    OBVIOUS
  <2>2. /\ b \in AccountType /\ SameRest(e.acc[i], b) /\ b.pnl = e.acc[i].pnl
        /\ b.reserved_pnl <= e.acc[i].reserved_pnl
    BY <1>1, <1>4, <2>1, WarmupSound
  <2>3. PICK m : m = e.pnl_matured_pos_tot + (e.acc[i].reserved_pnl - b.reserved_pnl)
    OBVIOUS
  <2>4. PICK g : g = [e EXCEPT !.acc[i] = b, !.pnl_matured_pos_tot = m]
    OBVIOUS
  <2>5. Sound(e, g)
    BY <1>4, <2>2, <2>3, <2>4, ReserveSound
  <2>6. AdvanceProfitWarmup(e, i) = g \/ AdvanceProfitWarmup(e, i) = Corrupt(g)
    BY <1>4, <2>1, <2>3, <2>4 DEF AdvanceProfitWarmup, WarmedUp, CorruptUnless
  <2>7. QED
    BY <2>5, <2>6, CheckSound
<1>5. QED
  BY <1>3, <1>4
-----------------------------------------------------------------------------
(* What the money of an account moves without its position *)

\* The sides and all positions are as they were, and so is the PnL of the
\* accounts in S.
Steady(e, f, S) ==
    /\ f.side = e.side
    /\ f.ctx.pending_reset = e.ctx.pending_reset
    /\ SamePositions(e.acc, f.acc)
    /\ \A j \in S : f.acc[j].pnl = e.acc[j].pnl

\* Steadiness composes ...
LEMMA SteadyTrans ==
    ASSUME NEW S, NEW e, NEW f, NEW g, Steady(e, f, S), Steady(f, g, S)
    PROVE  Steady(e, g, S)
  BY DEF Steady, SamePositions

\* ... and holds of fewer accounts.
LEMMA SteadyLess ==
    ASSUME NEW S, NEW R, R \subseteq S, NEW e, NEW f, Steady(e, f, S)
    PROVE  Steady(e, f, R)
  BY DEF Steady

\* A failed check is steady, ...
LEMMA FailSteady ==
    ASSUME NEW e \in EngineType
    PROVE  Steady(e, Reject(e), Accounts) /\ Steady(e, Corrupt(e), Accounts)
  BY RejectSound, CorruptSound DEF Steady, SamePositions

\* One account is replaced.
LEMMA ReplaceSteady ==
    ASSUME NEW e \in EngineType, NEW i \in Accounts, NEW b, NEW f, f.side = e.side,
           f.ctx.pending_reset = e.ctx.pending_reset, f.acc = [e.acc EXCEPT ![i] = b],
           b.position_basis_q = e.acc[i].position_basis_q,
           b.adl_epoch_snap = e.acc[i].adl_epoch_snap, b.adl_a_basis = e.acc[i].adl_a_basis,
           b.pnl = e.acc[i].pnl
    PROVE  Steady(e, f, Accounts)
<1>1. e.acc \in [Accounts -> AccountType]
  BY EngineFields
<1>2. \A j \in Accounts : f.acc[j] = IF j = i THEN b ELSE e.acc[j]
  BY <1>1
<1>3. QED
  BY <1>2 DEF Steady, SamePositions

\* ... and so are set_capital, ...
LEMMA CapitalSteady ==
    ASSUME NEW e \in EngineType, NEW i \in Accounts, NEW n
    PROVE  Steady(e, SetCapital(e, i, n), Accounts)
<1>1. PICK b : b = [e.acc[i] EXCEPT !.capital = n]
  OBVIOUS
<1>2. e.acc[i] \in AccountType
  BY EngineFields
<1>3. /\ b.position_basis_q = e.acc[i].position_basis_q /\ b.pnl = e.acc[i].pnl
      /\ b.adl_epoch_snap = e.acc[i].adl_epoch_snap /\ b.adl_a_basis = e.acc[i].adl_a_basis
  BY <1>1, <1>2 DEF AccountType
<1>4. PICK f : f = SetCapital(e, i, n)
  OBVIOUS
<1>5. f.side = e.side /\ f.acc = [e.acc EXCEPT ![i] = b] /\ f.ctx = e.ctx
  BY <1>1, <1>4 DEF SetCapital, EngineType
<1>6. QED
  BY <1>3, <1>4, <1>5, ReplaceSteady

\* ... a fee, ...
LEMMA FeeMoveSteady ==
    ASSUME NEW e \in EngineType, NEW i \in Accounts, NEW x, NEW w
    PROVE  Steady(e, FeeMove(e, i, x, w), Accounts)
<1>1. PICK b : b = [e.acc[i] EXCEPT !.fee_credits = x]
  OBVIOUS
<1>2. e.acc[i] \in AccountType
  BY EngineFields
<1>3. /\ b.position_basis_q = e.acc[i].position_basis_q /\ b.pnl = e.acc[i].pnl
      /\ b.adl_epoch_snap = e.acc[i].adl_epoch_snap /\ b.adl_a_basis = e.acc[i].adl_a_basis
  BY <1>1, <1>2 DEF AccountType
<1>4. PICK f : f = FeeMove(e, i, x, w)
  OBVIOUS
<1>5. f.side = e.side /\ f.acc = [e.acc EXCEPT ![i] = b] /\ f.ctx = e.ctx
  BY <1>1, <1>4 DEF FeeMove, EngineType
<1>6. QED
  BY <1>3, <1>4, <1>5, ReplaceSteady

\* The PnL of everybody but i is as it was.
OthersPnl(e, f, i) == \A j \in Accounts \ {i} : f.acc[j].pnl = e.acc[j].pnl

\* ... set_pnl of all others, ...
LEMMA SetPnlSteady ==
    ASSUME NEW e, Good(e), NEW i, Member(e, i), NEW new \in Int, NEW gains
    PROVE  Steady(e, SetPnl(e, i, new, gains), Accounts \ {i})
<1> e \in EngineType /\ i \in Accounts
  BY DEF Good, Member
<1>1. OthersPnl(e, e, i) /\ OthersPnl(e, Reject(e), i) /\ OthersPnl(e, Corrupt(e), i)
  BY RejectSound, CorruptSound DEF OthersPnl
<1>2. PICK h : h = GainHorizon(e, i, new, gains)
  OBVIOUS
<1>3. SetPnl(e, i, new, gains) \in {e, Reject(e), Corrupt(e), PnlAtHorizon(e, i, new, gains, h)}
  BY <1>2 DEF SetPnl
<1>4. PICK b, p, m, n, k :
        /\ b = PnlSet(e.acc[i], new, h, e.current_slot)
        /\ p = e.pnl_pos_tot + Gain(e.acc[i], new)
        /\ m = MaturedAfter(e.acc[i], new, h, e.pnl_matured_pos_tot)
        /\ n = NegCountAfter(e, e.acc[i].pnl, new)
        /\ k = IF gains = "Admit" /\ Gain(e.acc[i], new) > 0 /\ h = e.ctx.hi
               THEN e.ctx.sticky \union {i} ELSE e.ctx.sticky
  OBVIOUS
<1>5. PICK f : f = [e EXCEPT !.acc[i] = b, !.pnl_pos_tot = p, !.pnl_matured_pos_tot = m,
                             !.neg_pnl_account_count = n, !.ctx.sticky = k]
  OBVIOUS
<1>6. f.acc = [e.acc EXCEPT ![i] = b] /\ e.acc \in [Accounts -> AccountType]
  BY <1>5, EngineFields DEF EngineType
<1>7. OthersPnl(e, f, i)
  BY <1>6 DEF OthersPnl
<1>8. PnlAtHorizon(e, i, new, gains, h) \in {Corrupt(e), PnlChecked(f, i)}
  BY <1>4, <1>5 DEF PnlAtHorizon
<1>9. PnlChecked(f, i).acc = f.acc
  <2>1. PnlChecked(f, i) \in {f, Corrupt(f)}
    BY DEF PnlChecked, CorruptUnless
  <2>2. Corrupt(f).acc = f.acc
    <3>1. Corrupt(f) \in {f, [f EXCEPT !.err = "Corrupt"]}
      BY DEF Corrupt, Fail
    <3>2. QED
      BY <1>5, <3>1 DEF EngineType
  <2>3. QED
    BY <2>1, <2>2
<1>10. OthersPnl(e, PnlChecked(f, i), i)
  BY <1>7, <1>9 DEF OthersPnl
<1>11. OthersPnl(e, SetPnl(e, i, new, gains), i)
  BY <1>1, <1>3, <1>8, <1>10
<1>12. SamePlaces(e, SetPnl(e, i, new, gains))
  BY SetPnlSound
<1>13. QED
  BY <1>11, <1>12 DEF Steady, SamePlaces, SamePositions, OthersPnl

\* ... a settled loss, ...
LEMMA SettleLossesSteady ==
    ASSUME NEW e, Good(e), NEW i, Member(e, i)
    PROVE  /\ Steady(e, SettleLosses(e, i), Accounts \ {i})
           /\ Ok(e) /\ e.acc[i].pnl >= 0 => SettleLosses(e, i) = e
<1>1. PICK c \in Int, x \in Int : c = e.acc[i].capital /\ x = e.acc[i].pnl
  BY EngineFields, AccountFields DEF Good, Member
<1>2. PICK pay : pay = Lesser(Pos(-x), c)
  OBVIOUS
<1>3. e \in EngineType /\ i \in Accounts /\ pay \in Int /\ pay <= c
  BY <1>1, <1>2 DEF Good, Member, Lesser, Pos
<1>4. c - pay \in Int /\ x + pay \in Int
  BY <1>1, <1>3
<1>5. PICK y \in Int, z \in Int : y = c - pay /\ z = x + pay
  BY <1>4
<1>6. PICK f : f = SetCapital(e, i, y)
  OBVIOUS
<1>7. Sound(e, f)
  BY <1>3, <1>5, <1>6, SetCapitalSound
<1>8. Steady(e, f, Accounts \ {i})
  BY <1>3, <1>6, CapitalSteady, SteadyLess
<1>9. Steady(f, SetPnl(f, i, z, "Resolved"), Accounts \ {i})
  BY <1>5, <1>7, MemberKept, SetPnlSteady
<1>10. SettleLosses(e, i) = IF pay = 0 THEN e ELSE SetPnl(f, i, z, "Resolved")
  BY <1>1, <1>2, <1>5, <1>6 DEF SettleLosses
<1>11. Steady(e, e, Accounts \ {i})
  BY DEF Steady, SamePositions
<1>12. Ok(e) /\ x >= 0 => pay = 0
  <2>1. Ok(e) => c >= 0
    BY <1>1, <1>3 DEF Good, Books
  <2>2. QED
    BY <1>2, <2>1 DEF Lesser, Pos
<1>13. QED
  BY <1>1, <1>8, <1>9, <1>10, <1>11, <1>12, SteadyTrans

\* ... a loss absorbed, ...
LEMMA FlatNegativeSteady ==
    ASSUME NEW e, Good(e), NEW i, Member(e, i)
    PROVE  /\ Steady(e, ResolveFlatNegative(e, i), Accounts \ {i})
           /\ e.acc[i].pnl >= 0 => ResolveFlatNegative(e, i) = e
<1>1. PICK x \in Int : x = e.acc[i].pnl
  BY EngineFields, AccountFields DEF Good, Member
<1>2. PICK d \in Int : d = -x
  OBVIOUS
<1>3. PICK f : f = UseInsurance(e, d)
  OBVIOUS
<1>4. Sound(e, f)
  BY <1>3, UseInsuranceSound DEF Member
<1>5. f.side = e.side /\ f.acc = e.acc /\ f.ctx = e.ctx
  BY <1>3 DEF UseInsurance, Good, EngineType
<1>6. Steady(e, f, Accounts \ {i}) /\ Steady(e, e, Accounts \ {i})
  BY <1>5 DEF Steady, SamePositions
<1>7. Steady(f, SetPnl(f, i, 0, "Resolved"), Accounts \ {i})
  BY <1>4, MemberKept, SetPnlSteady
<1>8. ResolveFlatNegative(e, i)
        = IF EffectivePos(e, i) = 0 /\ x < 0 THEN SetPnl(f, i, 0, "Resolved") ELSE e
  BY <1>1, <1>2, <1>3 DEF ResolveFlatNegative
<1>9. QED
  BY <1>1, <1>6, <1>7, <1>8, SteadyTrans

\* ... a fee debt swept, ...
LEMMA FeeDebtSweepSteady ==
    ASSUME NEW e, Good(e), NEW i, Member(e, i)
    PROVE  Steady(e, FeeDebtSweep(e, i), Accounts)
<1>1. PICK c \in Int, d \in Int : c = e.acc[i].capital /\ d = e.acc[i].fee_credits
  BY EngineFields, AccountFields DEF Good, Member
<1>2. PICK pay : pay = Lesser(Pos(-d), c)
  OBVIOUS
<1>3. pay \in Int /\ pay <= c /\ e \in EngineType /\ i \in Accounts
  BY <1>1, <1>2 DEF Lesser, Pos, Good, Member
<1>4. PICK y \in Int : y = c - pay
  BY <1>1, <1>3
<1>5. PICK f : f = SetCapital(e, i, y)
  OBVIOUS
<1>6. Sound(e, f)
  BY <1>3, <1>4, <1>5, SetCapitalSound
<1>7. f \in EngineType
  BY <1>6 DEF Sound, Moved, Good
<1>8. PICK x, w : x = f.acc[i].fee_credits + pay /\ w = f.insurance + pay
  OBVIOUS
<1>9. FeeDebtSweep(e, i) = FeeMove(f, i, x, w)
  BY <1>1, <1>2, <1>4, <1>5, <1>8 DEF FeeDebtSweep, FeeDebt, FeeMove
<1>10. QED
  BY <1>3, <1>5, <1>7, <1>9, CapitalSteady, FeeMoveSteady, SteadyTrans

\* ... a fee charged, ...
LEMMA ChargeFeeSteady ==
    ASSUME NEW e, Good(e), NEW i, Member(e, i), NEW fee \in Int
    PROVE  Steady(e, ChargeFee(e, i, fee), Accounts)
<1>1. PICK c \in Int, d \in Int : c = e.acc[i].capital /\ d = e.acc[i].fee_credits
  BY EngineFields, AccountFields DEF Good, Member
<1>2. PICK paid, impact : paid = FeePaid(e.acc[i], fee) /\ impact = FeeImpact(e.acc[i], fee)
  OBVIOUS
<1>3. paid \in Int /\ paid <= c /\ e \in EngineType /\ i \in Accounts
  BY <1>1, <1>2 DEF FeePaid, Lesser, Good, Member
<1>4. PICK y \in Int : y = c - paid
  BY <1>1, <1>3
<1>5. PICK f : f = SetCapital(e, i, y)
  OBVIOUS
<1>6. Sound(e, f)
  BY <1>3, <1>4, <1>5, SetCapitalSound
<1>7. f \in EngineType
  BY <1>6 DEF Sound, Moved, Good
<1>8. PICK x, w : x = f.acc[i].fee_credits - (impact - paid) /\ w = f.insurance + paid
  OBVIOUS
<1>9. ChargeFee(e, i, fee) = FeeMove(f, i, x, w)
  BY <1>1, <1>2, <1>3, <1>4, <1>5, <1>7, <1>8 DEF ChargeFee, FeeMove, EngineType
<1>10. QED
  BY <1>3, <1>5, <1>7, <1>9, CapitalSteady, FeeMoveSteady, SteadyTrans

\* ... and what warms up or is released of a reserve.
LEMMA WarmupSide ==
    ASSUME NEW e \in EngineType, NEW i
    PROVE  /\ AdmitOutstanding(e, i).side = e.side /\ AdmitOutstanding(e, i).ctx = e.ctx
           /\ AdvanceProfitWarmup(e, i).side = e.side /\ AdvanceProfitWarmup(e, i).ctx = e.ctx
<1>1. Corrupt(e).side = e.side /\ Corrupt(e).ctx = e.ctx
  BY CorruptSound
<1>2. ASSUME NEW b, NEW m, NEW f, f = [e EXCEPT !.pnl_matured_pos_tot = m, !.acc[i] = b]
      PROVE  /\ f.side = e.side /\ Corrupt(f).side = e.side
             /\ f.ctx = e.ctx /\ Corrupt(f).ctx = e.ctx
  <2>1. /\ f.side = e.side /\ [f EXCEPT !.err = "Corrupt"].side = e.side
        /\ f.ctx = e.ctx /\ [f EXCEPT !.err = "Corrupt"].ctx = e.ctx
    BY <1>2 DEF EngineType
  <2>2. Corrupt(f) \in {f, [f EXCEPT !.err = "Corrupt"]}
    BY DEF Corrupt, Fail
  <2>3. QED
    BY <2>1, <2>2
<1>3. AdmitOutstanding(e, i).side = e.side /\ AdmitOutstanding(e, i).ctx = e.ctx
  <2>1. PICK b, m : b = ClearReserve(e.acc[i]) /\ m = e.pnl_matured_pos_tot + e.acc[i].reserved_pnl
    OBVIOUS
  <2>2. PICK f : f = [e EXCEPT !.pnl_matured_pos_tot = m, !.acc[i] = b]
    OBVIOUS
  <2>3. /\ f.side = e.side /\ Corrupt(f).side = e.side
        /\ f.ctx = e.ctx /\ Corrupt(f).ctx = e.ctx
    BY <1>2, <2>2
  <2>4. AdmitOutstanding(e, i) \in {e, Corrupt(e), f, Corrupt(f)}
    BY <2>1, <2>2 DEF AdmitOutstanding, CorruptUnless
  <2>5. QED
    BY <1>1, <2>3, <2>4
<1>4. AdvanceProfitWarmup(e, i).side = e.side /\ AdvanceProfitWarmup(e, i).ctx = e.ctx
  <2>1. PICK b : b = AdvanceWarmup(e.acc[i], e.current_slot)
    OBVIOUS
  <2>2. PICK m : m = e.pnl_matured_pos_tot + (e.acc[i].reserved_pnl - b.reserved_pnl)
    OBVIOUS
  <2>3. PICK f : f = [e EXCEPT !.pnl_matured_pos_tot = m, !.acc[i] = b]
    OBVIOUS
  <2>4. f = [e EXCEPT !.acc[i] = b, !.pnl_matured_pos_tot = m]
    BY <2>3 DEF EngineType
  <2>5. /\ f.side = e.side /\ Corrupt(f).side = e.side
        /\ f.ctx = e.ctx /\ Corrupt(f).ctx = e.ctx
    BY <1>2, <2>3
  <2>6. AdvanceProfitWarmup(e, i) \in {e, Corrupt(e), f, Corrupt(f)}
    BY <2>1, <2>2, <2>4 DEF AdvanceProfitWarmup, WarmedUp, CorruptUnless
  <2>7. QED
    BY <1>1, <2>5, <2>6
<1>5. QED
  BY <1>3, <1>4

-----------------------------------------------------------------------------
(* The touch of an account *)

\* One stale position of a side is counted as settled, ...
OneSettled(e, s) == [e EXCEPT !.side[s].stale = @ - 1]

LEMMA StaleDrafted ==
    ASSUME NEW e, Good(e), NEW s \in Side, NEW f, f = OneSettled(e, s)
    PROVE  /\ Drafted(e, f) /\ f.acc = e.acc /\ f.ctx = e.ctx
           /\ \A t \in Side :
                  /\ f.side[t].mult = e.side[t].mult /\ f.side[t].dust = e.side[t].dust
                  /\ f.side[t].mode = e.side[t].mode /\ f.side[t].oi = e.side[t].oi
                  /\ f.side[t].epoch = e.side[t].epoch /\ f.side[t].stored = e.side[t].stored
                  /\ f.side[t].stale = IF t = s THEN e.side[t].stale - 1 ELSE e.side[t].stale
<1>1. e \in EngineType /\ e.side \in [Side -> SideType]
  BY EngineFields DEF Good
<1>2. PICK n \in Int : n = e.side[s].stale - 1
  BY <1>1, SideFields
<1>3. PICK o : o = [e.side[s] EXCEPT !.stale = n]
  OBVIOUS
<1>4. /\ o \in SideType /\ o.stored = e.side[s].stored /\ o.mode = e.side[s].mode
      /\ o.oi = e.side[s].oi /\ o.epoch = e.side[s].epoch /\ o.stale = e.side[s].stale - 1
      /\ o.mult = e.side[s].mult /\ o.dust = e.side[s].dust
  BY <1>1, <1>2, <1>3 DEF SideType
<1>5. f = [e EXCEPT !.side[s] = o]
  BY <1>1, <1>2, <1>3 DEF EngineType, OneSettled
<1>6. Drafted(e, f)
  BY <1>4, <1>5, OneSideDrafted
<1>7. /\ f.acc = e.acc /\ f.ctx = e.ctx
      /\ \A t \in Side : f.side[t] = IF t = s THEN o ELSE e.side[t]
  BY <1>1, <1>5 DEF EngineType
<1>8. QED
  BY <1>4, <1>6, <1>7

\* ... when it is also closed.
LEMMA StaleFlattened ==
    ASSUME NEW e, Good(e), NEW i, Member(e, i), NEW s \in Side,
           SideOf(e.acc[i].position_basis_q) = s,
           Epochs(e) => e.side[s].mode = "ResetPending",
           e.acc[i].adl_epoch_snap # e.side[s].epoch
    PROVE  Sound(e, Flatten(OneSettled(e, s), i)) /\ EqualOi(e, Flatten(OneSettled(e, s), i))
<1>1. PICK g : g = OneSettled(e, s)
  OBVIOUS
<1>2. /\ Drafted(e, g) /\ g.acc = e.acc /\ g.ctx = e.ctx
      /\ \A t \in Side :
             /\ g.side[t].mult = e.side[t].mult /\ g.side[t].dust = e.side[t].dust
             /\ g.side[t].mode = e.side[t].mode /\ g.side[t].oi = e.side[t].oi
             /\ g.side[t].epoch = e.side[t].epoch /\ g.side[t].stored = e.side[t].stored
             /\ g.side[t].stale = IF t = s THEN e.side[t].stale - 1 ELSE e.side[t].stale
  BY <1>1, StaleDrafted
<1>3. Good(g) /\ Member(g, i) /\ i \in Accounts
  BY <1>2, MemberWritten DEF Drafted, Member
<1>4. PICK l : l = Flatten(g, i)
  OBVIOUS
<1>5. Drafted(g, l) /\ Replaced(g, l, i, 0, 0)
  BY <1>3, <1>4, FlattenDrafted
<1>6. Drafted(e, l)
  BY <1>2, <1>5, DraftedTrans
<1>7. ASSUME Epochs(e), NEW t \in Side
      PROVE  Aged(l.side[t]) /\ \A j \in Accounts : OfEpoch(l.acc[j], t, l.side[t])
  <2>1. /\ e.side[t].stored \in Int /\ e.side[t].stale \in Int
    BY EngineFields, SideFields DEF Good
  <2>2. SideOf(0) # t
    BY DEF SideOf, Side
  <2>3. /\ l.side[t].mode = e.side[t].mode /\ l.side[t].oi = e.side[t].oi
        /\ l.side[t].epoch = e.side[t].epoch
    BY <1>2, <1>5 DEF Replaced
  <2>4. /\ l.side[t].stored = e.side[t].stored - (IF t = s THEN 1 ELSE 0)
        /\ l.side[t].stale = e.side[t].stale - (IF t = s THEN 1 ELSE 0)
    BY <1>2, <1>5, <2>1, <2>2 DEF Replaced, Bit
  <2>5. Aged(e.side[t]) /\ (t = s => e.side[t].mode = "ResetPending")
    BY <1>7 DEF Epochs
  <2>6. Aged(l.side[t])
    BY <2>1, <2>3, <2>4, <2>5 DEF Aged
  <2>7. ASSUME NEW j \in Accounts PROVE OfEpoch(l.acc[j], t, l.side[t])
    <3>1. CASE j = i
      BY <1>5, <2>2, <3>1 DEF Replaced, OfEpoch
    <3>2. CASE j # i
      BY <1>2, <1>5, <1>7, <2>3, <3>2 DEF Replaced, OfEpoch, Age, Epochs
    <3>3. QED
      BY <3>1, <3>2
  <2>8. QED
    BY <2>6, <2>7
<1>8. Epochs(e) => Epochs(l)
  BY <1>7 DEF Epochs
<1>9. EqualOi(e, l)
  BY <1>2, <1>5 DEF EqualOi, Replaced
<1>10. Covered(e) => Covered(g)
  <2>1. SamePositions(e.acc, g.acc)
    BY <1>2 DEF SamePositions
  <2>2. \A t \in Side : SameCover(e.side[t], g.side[t])
    BY <1>2, EngineFields, SideFields DEF SameCover, Good
  <2>3. e \in EngineType /\ g \in EngineType /\ g.market_mode = e.market_mode
    BY <1>2 DEF Good, Drafted, Written, Alike
  <2>4. QED
    BY <1>2, <2>1, <2>2, <2>3, CoveredSame
<1>11. Covered(g) => Covered(l)
  <2>1. g \in EngineType /\ l \in EngineType /\ l.market_mode = g.market_mode
    BY <1>3, <1>5 DEF Good, Drafted, Written, Alike
  <2>2. \A t \in Side : InForce(g.acc, t, g.side[t].epoch)[i] = 0
    BY <1>2, <1>3 DEF InForce
  <2>3. \A t \in Side : Portion(g, i, t) = 0
    BY <1>3, <2>1, <2>2, PortionZero
  <2>4. QED
    BY <1>3, <1>5, <2>1, <2>3, CoveredClosed
<1>12. QED
  BY <1>1, <1>4, <1>6, <1>8, <1>9, <1>10, <1>11 DEF Drafted, Written, Sound, Moved, Kept

\* settle_side_effects_live, a position of the current epoch
LEMMA SettleSameSound ==
    ASSUME NEW e, Good(e), NEW i, Member(e, i), NEW s \in Side,
           SideOf(e.acc[i].position_basis_q) = s, e.acc[i].adl_epoch_snap = e.side[s].epoch
    PROVE  Sound(e, SettleSameEpoch(e, i, s)) /\ EqualOi(e, SettleSameEpoch(e, i, s))
<1>1. e \in EngineType /\ i \in Accounts /\ e.acc[i] \in AccountType
  BY EngineFields DEF Good, Member
<1>2. PICK o \in SideType : o = e.side[s]
  BY <1>1, EngineFields
<1>3. PICK x \in Int : x = e.acc[i].pnl + KfPnlDelta(e.acc[i], o.coeff, o.f)
  BY <1>1, KfPnlDeltaInt, AccountFields, SideFields
<1>4. PICK f : f = SetPnl(e, i, x, "Admit")
  OBVIOUS
<1>5. PICK q : q = FloorDiv(Abs(e.acc[i].position_basis_q) * o.mult, e.acc[i].adl_a_basis)
  OBVIOUS
<1>6. Sound(e, f) /\ SamePlaces(e, f)
  BY <1>4, SetPnlSound
<1>7. Good(f) /\ Member(f, i)
  BY <1>6, MemberKept
<1>8. CASE q = 0
  <2>1. PICK d : d = AddDust(f, {s}, 1)
    OBVIOUS
  <2>2. /\ Sound(e, d) /\ d.acc = f.acc /\ d.ctx = f.ctx
        /\ \A t \in Side : Undated(f.side[t], d.side[t])
    BY <1>6, <1>7, <2>1, AddDustSound, SoundTrans
  <2>3. Good(d) /\ Member(d, i) /\ (Epochs(d) => InStep(d, i))
    <3>1. /\ SideOf(d.acc[i].position_basis_q) = s
          /\ d.acc[i].adl_epoch_snap = d.side[s].epoch
      BY <1>1, <1>6, <2>2 DEF SamePlaces, Undated
    <3>2. d.side[s].epoch \in Int
      BY <2>2, EngineFields, SideFields DEF Sound, Moved, Good
    <3>3. Epochs(d) => InStep(d, i)
      BY <1>1, <3>1, <3>2 DEF Epochs, OfEpoch, Age, InStep
    <3>4. QED
      BY <2>2, <3>3, MemberKept
  <2>7. ASSUME NEW t \in Side PROVE Portion(d, i, t) = 0
    <3>1. d \in EngineType /\ i \in Accounts
      BY <1>1, <2>3 DEF Good
    <3>2. /\ d.acc[i].position_basis_q = e.acc[i].position_basis_q
          /\ d.acc[i].adl_a_basis = e.acc[i].adl_a_basis /\ d.side[t].mult = e.side[t].mult
      BY <1>1, <1>6, <2>2 DEF SamePlaces, Undated
    <3>3. CASE InForce(d.acc, t, d.side[t].epoch)[i] = 0
      BY <3>1, <3>3, PortionZero
    <3>4. CASE InForce(d.acc, t, d.side[t].epoch)[i] # 0
      <4>1. t = s /\ InForce(d.acc, t, d.side[t].epoch)[i] = Abs(e.acc[i].position_basis_q)
        BY <3>1, <3>2, <3>4 DEF InForce
      <4>2. QED
        BY <1>2, <1>5, <1>8, <3>2, <4>1 DEF Portion, Share, FloorDiv
    <3>5. QED
      BY <3>3, <3>4
  <2>4. SettleSameEpoch(e, i, s) = Flatten(d, i)
    BY <1>2, <1>3, <1>4, <1>5, <1>8, <2>1 DEF SettleSameEpoch
  <2>5. EqualOi(e, Flatten(d, i))
    <3>1. Replaced(d, Flatten(d, i), i, 0, 0)
      BY <2>3, FlattenDrafted
    <3>2. QED
      BY <1>6, <2>2, <3>1 DEF EqualOi, Replaced, Undated, SamePlaces
  <2>6. QED
    BY <2>2, <2>3, <2>4, <2>5, <2>7, FlattenSound, SoundTrans
<1>9. CASE q # 0
  <2>1. f \in EngineType /\ f.acc[i] \in AccountType
    BY <1>7, EngineFields DEF Good, Member
  <2>2. PICK b \in Nat \ {0} : b = f.acc[i].adl_a_basis
    BY <2>1, AccountFields
  <2>3. [f EXCEPT !.acc[i].adl_k_snap = o.coeff, !.acc[i].f_snap = o.f,
                  !.acc[i].adl_epoch_snap = o.epoch]
          = Snap(f, i, b, o.coeff, o.f, o.epoch)
    <3>1. PICK k, h, t : k = o.coeff /\ h = o.f /\ t = o.epoch
      OBVIOUS
    <3>2. PICK c \in AccountType : c = f.acc[i]
      BY <2>1
    <3>3. [c EXCEPT !.adl_k_snap = k, !.f_snap = h, !.adl_epoch_snap = t]
            = [c EXCEPT !.adl_a_basis = b, !.adl_k_snap = k, !.f_snap = h, !.adl_epoch_snap = t]
      BY <2>2, <3>2 DEF AccountType
    <3>4. PICK z : z = [c EXCEPT !.adl_k_snap = k, !.f_snap = h, !.adl_epoch_snap = t]
      OBVIOUS
    <3>5. [f EXCEPT !.acc[i].adl_k_snap = k, !.acc[i].f_snap = h, !.acc[i].adl_epoch_snap = t]
            = [f EXCEPT !.acc[i] = z]
      BY <1>1, <2>1, <3>2, <3>4 DEF EngineType
    <3>6. Snap(f, i, b, k, h, t) = [f EXCEPT !.acc[i] = z]
      <4>1. PICK y : y = [f.acc[i] EXCEPT !.adl_a_basis = b, !.adl_k_snap = k, !.f_snap = h,
                                          !.adl_epoch_snap = t]
        OBVIOUS
      <4>2. [f EXCEPT !.acc[i] = y] = Snap(f, i, b, k, h, t)
        BY <1>1, <2>1, <4>1 DEF EngineType, Snap
      <4>3. QED
        BY <3>2, <3>3, <3>4, <4>1, <4>2
    <3>7. QED
      BY <3>1, <3>5, <3>6
  <2>4. SettleSameEpoch(e, i, s) = Snap(f, i, b, o.coeff, o.f, o.epoch)
    BY <1>2, <1>3, <1>4, <1>5, <1>9, <2>3 DEF SettleSameEpoch
  <2>5. PICK k \in Int, h \in Int, t \in Int : k = o.coeff /\ h = o.f /\ t = o.epoch
    BY SideFields
  <2>6. t = f.acc[i].adl_epoch_snap
    BY <1>1, <1>2, <1>6, <2>5 DEF SamePlaces
  <2>7. PICK g : g = Snap(f, i, b, k, h, t)
    OBVIOUS
  <2>8. Sound(f, g) /\ g.side = f.side /\ g.ctx = f.ctx
    BY <1>7, <2>2, <2>6, <2>7, SnapDrafted
  <2>9. Sound(e, g) /\ EqualOi(e, g)
    BY <1>6, <2>8, SoundTrans DEF SamePlaces, EqualOi
  <2>10. QED
    BY <2>4, <2>5, <2>7, <2>9
<1>10. QED
  BY <1>8, <1>9

\* settle_side_effects_live, a position of the epoch before
LEMMA SettleStaleSound ==
    ASSUME NEW e, Good(e), NEW i, Member(e, i), NEW s \in Side,
           SideOf(e.acc[i].position_basis_q) = s, e.acc[i].adl_epoch_snap # e.side[s].epoch
    PROVE  Sound(e, SettleStaleEpoch(e, i, s)) /\ EqualOi(e, SettleStaleEpoch(e, i, s))
<1>1. e \in EngineType /\ i \in Accounts /\ e.acc[i] \in AccountType
  BY EngineFields DEF Good, Member
<1>2. PICK o \in SideType : o = e.side[s]
  BY <1>1, EngineFields
<1>3. PICK x \in Int : x = e.acc[i].pnl + KfPnlDelta(e.acc[i], o.epoch_start_k, o.f_epoch_start)
  BY <1>1, KfPnlDeltaInt, AccountFields, SideFields
<1>4. PICK f : f = SetPnl(e, i, x, "Admit")
  OBVIOUS
<1>5. Sound(e, f) /\ SamePlaces(e, f)
  BY <1>4, SetPnlSound
<1>6. /\ Good(f) /\ Member(f, i) /\ SideOf(f.acc[i].position_basis_q) = s
      /\ f.side[s].mode = e.side[s].mode /\ f.side[s].epoch = e.side[s].epoch
      /\ f.acc[i].adl_epoch_snap = e.acc[i].adl_epoch_snap
  BY <1>1, <1>5, MemberKept DEF SamePlaces
<1>7. PICK g : g = Flatten(OneSettled(f, s), i)
  OBVIOUS
<1>8. e.side[s].mode = "ResetPending" => Sound(e, g) /\ EqualOi(e, g)
  BY <1>5, <1>6, <1>7, StaleFlattened, SoundTrans DEF EqualOi, SamePlaces
<1>9. \/ SettleStaleEpoch(e, i, s) = Corrupt(e)
      \/ SettleStaleEpoch(e, i, s) = g /\ e.side[s].mode = "ResetPending"
  BY <1>2, <1>3, <1>4, <1>7 DEF SettleStaleEpoch, OneSettled
<1>10. Sound(e, Corrupt(e)) /\ EqualOi(e, Corrupt(e))
  BY <1>1, CorruptSound DEF Sound, Moved, EqualOi
<1>11. QED
  BY <1>8, <1>9, <1>10

\* settle_side_effects_live
LEMMA SideEffectsSound ==
    ASSUME NEW e, Good(e), NEW i, Member(e, i)
    PROVE  Sound(e, SettleSideEffects(e, i)) /\ EqualOi(e, SettleSideEffects(e, i))
<1>1. e.acc[i].position_basis_q \in Int
  BY EngineFields, AccountFields DEF Good, Member
<1>2. PICK s : s = SideOf(e.acc[i].position_basis_q)
  OBVIOUS
<1>3. s = "None" \/ s \in Side
  BY <1>1, <1>2 DEF SideOf, Side
<1>4. /\ Sound(e, e) /\ Sound(e, Corrupt(e))
      /\ EqualOi(e, e) /\ EqualOi(e, Corrupt(e))
  BY SoundRefl, CheckSound, CorruptSound DEF EqualOi, Good
<1>5. CASE s = "None"
  <2>1. SettleSideEffects(e, i) = e
    BY <1>2, <1>5 DEF SettleSideEffects
  <2>2. QED
    BY <1>4, <2>1
<1>6. CASE s \in Side
  <2>1. /\ e.acc[i].adl_epoch_snap = e.side[s].epoch =>
               Sound(e, SettleSameEpoch(e, i, s)) /\ EqualOi(e, SettleSameEpoch(e, i, s))
        /\ e.acc[i].adl_epoch_snap # e.side[s].epoch =>
               Sound(e, SettleStaleEpoch(e, i, s)) /\ EqualOi(e, SettleStaleEpoch(e, i, s))
    BY <1>2, <1>6, SettleSameSound, SettleStaleSound
  <2>2. \/ SettleSideEffects(e, i) \in {e, Corrupt(e)}
        \/ /\ SettleSideEffects(e, i) = SettleSameEpoch(e, i, s)
           /\ e.acc[i].adl_epoch_snap = e.side[s].epoch
        \/ /\ SettleSideEffects(e, i) = SettleStaleEpoch(e, i, s)
           /\ e.acc[i].adl_epoch_snap # e.side[s].epoch
    BY <1>2 DEF SettleSideEffects
  <2>3. QED
    BY <1>4, <2>1, <2>2
<1>7. QED
  BY <1>3, <1>5, <1>6

\* An account in use is recorded as touched.
LEMMA TouchStartSound ==
    ASSUME NEW e, Good(e), NEW i \in e.used, i \in Accounts
    PROVE  Sound(e, [e EXCEPT !.ctx.touched = @ \union {i}])
<1>1. e \in EngineType /\ e.ctx \in ContextType /\ e.used \in SUBSET Accounts
  BY EngineFields DEF Good
<1>2. PICK c : c = [e.ctx EXCEPT !.touched = e.ctx.touched \union {i}]
  OBVIOUS
<1>3. c \in ContextType /\ c.touched = e.ctx.touched \union {i}
  BY <1>1, <1>2 DEF ContextType
<1>4. PICK f : f = [e EXCEPT !.ctx = c]
  OBVIOUS
<1>5. /\ f \in EngineType /\ f.ctx = c /\ f.acc = e.acc /\ f.c_tot = e.c_tot
      /\ f.pnl_pos_tot = e.pnl_pos_tot /\ f.pnl_matured_pos_tot = e.pnl_matured_pos_tot
      /\ f.neg_pnl_account_count = e.neg_pnl_account_count /\ f.used = e.used
      /\ f.market_mode = e.market_mode /\ f.resolved = e.resolved /\ f.side = e.side
      /\ f.err = e.err /\ f.vault = e.vault
      /\ f.ctx.pending_reset = e.ctx.pending_reset
  BY <1>1, <1>2, <1>3, <1>4 DEF EngineType, ContextType
<1>6. /\ Capitals(f) = Capitals(e) /\ Profits(f) = Profits(e) /\ Releases(f) = Releases(e)
      /\ Negatives(f) = Negatives(e) /\ \A s \in Side : Stored(f, s) = Stored(e, s)
  BY <1>5 DEF Capitals, Profits, Releases, Negatives, Stored
<1>7. ASSUME Books(e) PROVE Books(f)
  BY <1>5, <1>6, <1>7 DEF Books, Sums
<1>8. Sound(e, f)
  BY <1>1, <1>3, <1>5, <1>7, EpochsSame, CoverSame
     DEF Flat, Sound, Moved, Kept, Alike, Good, Tracked, Ok
<1>9. f = [e EXCEPT !.ctx.touched = @ \union {i}]
  BY <1>1, <1>2, <1>4 DEF EngineType, ContextType
<1>10. QED
  BY <1>8, <1>9

\* touch_account_live_local
LEMMA TouchSound ==
    ASSUME NEW e, Good(e), NEW i \in Accounts
    PROVE  /\ Sound(e, Touch(e, i)) /\ EqualOi(e, Touch(e, i))
           /\ Ok(Touch(e, i)) => i \in e.used /\ e.market_mode = "Live"
<1>1. e \in EngineType
  BY DEF Good
<1>2. CASE ~Ok(e) \/ e.market_mode # "Live" \/ i \notin e.used
  <2>1. Touch(e, i) = IF Ok(e) THEN Reject(e) ELSE e
    BY <1>2 DEF Touch
  <2>2. QED
    BY <1>1, <2>1, SoundRefl, RejectSound DEF Sound, Moved, EqualOi
<1>3. CASE Ok(e) /\ e.market_mode = "Live" /\ i \in e.used
  <2>1. PICK s : s = [e EXCEPT !.ctx.touched = @ \union {i}]
    OBVIOUS
  <2>2. Sound(e, s) /\ s.acc = e.acc /\ s.side = e.side
        /\ s.ctx.pending_reset = e.ctx.pending_reset
    <3>1. /\ s.acc = e.acc /\ s.side = e.side
          /\ s.ctx.pending_reset = e.ctx.pending_reset
      BY <1>1, <2>1 DEF EngineType, ContextType
    <3>2. QED
      BY <1>3, <2>1, <3>1, TouchStartSound
  <2>3. PICK t : t = CorruptUnless(s, ShapeOk(e.acc[i]))
    OBVIOUS
  <2>4. Sound(e, t) /\ (Ok(t) => ShapeOk(t.acc[i])) /\ t.side = e.side
        /\ t.ctx.pending_reset = e.ctx.pending_reset
    <3>1. t = s \/ t = Corrupt(s)
      BY <2>3 DEF CorruptUnless
    <3>2. Ok(t) => t = s /\ ShapeOk(e.acc[i])
      BY <2>2, <2>3, <3>1, CorruptSound DEF CorruptUnless, Sound, Moved, Good
    <3>3. t.side = e.side /\ t.ctx.pending_reset = e.ctx.pending_reset
      BY <2>2, <3>1, CorruptSound DEF Sound, Moved, Good
    <3>4. QED
      BY <2>2, <3>1, <3>2, <3>3, CheckSound
  <2>5. Member(e, i)
    BY <1>3 DEF Member
  <2>6. Good(t) /\ Member(t, i) /\ t.market_mode = "Live"
    BY <1>3, <2>4, <2>5, MemberKept DEF Sound, Moved, Kept, Alike
  <2>7. PICK u : u = AdmitOutstanding(t, i)
    OBVIOUS
  <2>8. Sound(t, u) /\ (Ok(u) => ShapeOk(u.acc[i]))
    BY <2>4, <2>6, <2>7, AdmitSound
  <2>9. Good(u) /\ Member(u, i) /\ u.market_mode = "Live"
    BY <2>6, <2>8, MemberKept DEF Sound, Moved, Kept, Alike
  <2>10. PICK w : w = AdvanceProfitWarmup(u, i)
    OBVIOUS
  <2>11. Sound(u, w)
    BY <2>8, <2>9, <2>10, AdvanceSound
  <2>12. Good(w) /\ Member(w, i)
    BY <2>9, <2>11, MemberKept
  <2>13. PICK x : x = SettleSideEffects(w, i)
    OBVIOUS
  <2>14. Sound(w, x) /\ EqualOi(w, x)
    BY <2>12, <2>13, SideEffectsSound
  <2>15. Good(x) /\ Member(x, i)
    BY <2>12, <2>14, MemberKept
  <2>16. PICK y : y = SettleLosses(x, i)
    OBVIOUS
  <2>17. Sound(x, y)
    BY <2>15, <2>16, SettleLossesSound
  <2>18. Good(y) /\ Member(y, i)
    BY <2>15, <2>17, MemberKept
  <2>19. Touch(e, i) = ResolveFlatNegative(y, i)
    BY <1>3, <2>1, <2>3, <2>7, <2>10, <2>13, <2>16 DEF Touch
  <2>20. Sound(y, Touch(e, i))
    BY <2>18, <2>19, FlatNegativeSound
  <2>21. u.side = t.side /\ w.side = u.side /\ u.ctx = t.ctx /\ w.ctx = u.ctx
    BY <2>4, <2>7, <2>9, <2>10, WarmupSide DEF Sound, Moved, Good
  <2>22. /\ y.side = x.side /\ Touch(e, i).side = y.side
         /\ y.ctx.pending_reset = x.ctx.pending_reset
         /\ Touch(e, i).ctx.pending_reset = y.ctx.pending_reset
    BY <2>15, <2>16, <2>18, <2>19, SettleLossesSteady, FlatNegativeSteady DEF Steady
  <2>23. EqualOi(e, Touch(e, i))
    BY <2>4, <2>14, <2>21, <2>22 DEF EqualOi
  <2>24. QED
    BY <1>3, <2>4, <2>8, <2>11, <2>14, <2>17, <2>20, <2>23, SoundTrans
<1>4. QED
  BY <1>2, <1>3
-----------------------------------------------------------------------------
(* The finalisation of the touched accounts *)

\* One account of finalize_touched_accounts_post_live.
LEMMA FinalizeOneSound ==
    ASSUME NEW e, Good(e), NEW i, Member(e, i), NEW whole
    PROVE  Sound(e, FinalizeOne(e, i, whole))
<1>1. e \in EngineType /\ i \in Accounts /\ e.acc[i] \in AccountType
  BY EngineFields DEF Good, Member
<1>2. PICK x, c : x = ReleasedPos(e.acc[i]) /\ c = e.acc[i].capital
  OBVIOUS
<1>3. x \in Int /\ c \in Int
  BY <1>1, <1>2, AccountFields, PosInt DEF ReleasedPos, Greater
<1>4. PICK f : f = IF whole /\ e.acc[i].position_basis_q = 0 /\ e.acc[i].pnl > 0 /\ x > 0
                   THEN SetCapital(ConsumeReleased(e, i, x), i, c + x) ELSE e
  OBVIOUS
<1>5. Sound(e, f)
  <2>1. CASE ~(x > 0)
    <3>1. f = e
      BY <1>4, <2>1
    <3>2. QED
      BY <3>1, SoundRefl
  <2>2. CASE x > 0
    <3>1. PICK n \in Int : n = c + x
      BY <1>3
    <3>2. PICK d : d = ConsumeReleased(e, i, x)
      OBVIOUS
    <3>3. x \in Nat
      BY <1>3, <2>2
    <3>4. Sound(e, d)
      BY <3>2, <3>3, ConsumeSound
    <3>5. Good(d) /\ Member(d, i)
      BY <3>4, MemberKept
    <3>6. Ok(d) => n >= 0
      <4>1. Ok(d) => Books(e)
        BY <3>4 DEF Sound, Moved, Kept, Alike, Good
      <4>2. Books(e) => c >= 0
        BY <1>1, <1>2 DEF Books
      <4>3. QED
        BY <1>3, <2>2, <3>1, <4>1, <4>2
    <3>7. Sound(e, SetCapital(d, i, n))
      BY <3>4, <3>5, <3>6, SetCapitalSound, SoundTrans
    <3>8. f = SetCapital(d, i, n) \/ f = e
      BY <1>4, <3>1, <3>2
    <3>9. QED
      BY <3>7, <3>8, SoundRefl
  <2>3. QED
    BY <2>1, <2>2
<1>6. FinalizeOne(e, i, whole) = FeeDebtSweep(f, i)
  BY <1>2, <1>4 DEF FinalizeOne
<1>7. Good(f) /\ Member(f, i)
  BY <1>5, MemberKept
<1>8. QED
  BY <1>5, <1>6, <1>7, FeeDebtSweepSound, SoundTrans

\* The records the engine may be in after e within an instruction.
After(e) == {f \in EngineType : Sound(e, f)}

\* The records a sound helper may return.
LEMMA AfterSound == ASSUME NEW e, NEW f PROVE f \in After(e) <=> Sound(e, f)
  BY DEF After, Sound, Moved, Good

\* finalize_touched_accounts_post_live
LEMMA FinalizeTouchedSound ==
    ASSUME NEW e, Good(e), Tracked(e)
    PROVE  Sound(e, FinalizeTouched(e))
<1>1. CASE ~Ok(e)
  BY <1>1, SoundRefl DEF FinalizeTouched
<1>2. CASE Ok(e)
  <2>1. PICK D, w : D = e.ctx.touched /\ w = IsWhole(e)
    OBVIOUS
  <2>2. /\ D \subseteq Accounts /\ D \subseteq e.used /\ IsFiniteSet(D) /\ D \subseteq Int
    <3>1. D \subseteq Accounts /\ D \subseteq e.used
      BY <1>2, <2>1, EngineFields DEF Good, Tracked, ContextType
    <3>2. IsFiniteSet(D)
      BY <3>1, Consts, FS_Subset
    <3>3. Accounts \subseteq Nat
      BY Consts
    <3>4. QED
      BY <3>1, <3>2, <3>3
  <2> DEFINE S == After(e)
             Body(it) == [s \in SUBSET D |->
                            IF s = {} THEN e
                            ELSE FinalizeOne(it[s \ {Max(s)}], Max(s), w)]
             fold == CHOOSE it : it = Body(it)
             step == [p \in S \X D |-> FinalizeOne(p[1], p[2], w)]
  <2>3. FinalizeTouched(e) = fold[D]
    BY <1>2, <2>1, Zenon DEF FinalizeTouched, InOrder, MapThenFoldSet
  <2>4. e \in S
    BY SoundRefl, AfterSound
  <2>5. ASSUME NEW f \in S, NEW i \in D PROVE FinalizeOne(f, i, w) \in S
    <3>1. Sound(e, f)
      BY <2>5, AfterSound
    <3>2. Member(e, i)
      BY <2>2, <2>5 DEF Member
    <3>3. Good(f) /\ Member(f, i)
      BY <3>1, <3>2, MemberKept
    <3>4. Sound(e, FinalizeOne(f, i, w))
      BY <3>1, <3>3, FinalizeOneSound, SoundTrans
    <3>5. QED
      BY <3>4, AfterSound
  <2> HIDE DEF S
  <2>6. step \in [S \X D -> S]
    BY <2>5
  <2>7. Picks(MaxPick(D), D)
    BY <2>2, MaxPicks
  <2>8. PICK g \in [SUBSET D -> S] : Unfolds(g, D, MaxPick(D), e, step)
    <3> HIDE DEF step, fold, Body
    <3>1. QED
      BY <2>2, <2>4, <2>6, <2>7, FoldExists
  <2>9. g = Body(g)
    <3>1. ASSUME NEW s \in SUBSET D, s # {} PROVE g[s] = FinalizeOne(g[s \ {Max(s)}], Max(s), w)
      <4>1. MaxPick(D)[s] = Max(s) /\ MaxPick(D)[s] \in s
        BY <2>7, <3>1 DEF MaxPick, Picks
      <4>2. Max(s) \in D /\ g[s \ {Max(s)}] \in S
        BY <4>1
      <4>3. g[s] = step[<<g[s \ {Max(s)}], Max(s)>>]
        BY <2>8, <3>1, <4>1 DEF Unfolds
      <4>4. QED
        BY <4>2, <4>3
    <3>2. g[{}] = e
      BY <2>8 DEF Unfolds
    <3>3. QED
      BY <3>1, <3>2
  <2>10. fold = Body(fold)
    <3> HIDE DEF Body
    <3>1. \E h : h = Body(h)
      BY <2>9
    <3>2. QED
      BY <3>1
  <2>11. FoldsTo(fold, D, e, S)
    <3> HIDE DEF fold
    <3>1. fold[{}] = e
      BY <2>10
    <3>2. ASSUME NEW s \in SUBSET D, s # {}, fold[s \ {Max(s)}] \in S PROVE fold[s] \in S
      <4>1. fold[s] = FinalizeOne(fold[s \ {Max(s)}], Max(s), w)
        BY <2>10, <3>2
      <4>2. Max(s) \in D
        BY <2>7, <3>2 DEF MaxPick, Picks
      <4>3. QED
        BY <2>5, <3>2, <4>1, <4>2
    <3>3. QED
      BY <3>1, <3>2 DEF FoldsTo
  <2>12. fold[D] \in S
    <3> HIDE DEF fold
    <3>1. QED
      BY <2>2, <2>4, <2>11, FoldStays
  <2> HIDE DEF fold
  <2>13. QED
    BY <2>3, <2>12, AfterSound DEF S
<1>3. QED
  BY <1>1, <1>2
-----------------------------------------------------------------------------
(* The sides *)

\* Sides are scheduled for their reset.
LEMMA MarkResetSound ==
    ASSUME NEW e, Good(e), NEW sides \in SUBSET Side, NEW f, f = MarkPendingReset(e, sides)
    PROVE  /\ Sound(e, f) /\ Good(f) /\ f.side = e.side /\ f.acc = e.acc
           /\ \A s \in sides : Pending(f, s)
<1>1. e \in EngineType /\ e.ctx \in ContextType
  BY EngineFields DEF Good
<1>2. PICK c : c = [e.ctx EXCEPT !.pending_reset = e.ctx.pending_reset \union sides]
  OBVIOUS
<1>3. /\ c \in ContextType /\ c.touched \subseteq e.ctx.touched
      /\ c.pending_reset = e.ctx.pending_reset \union sides
  BY <1>1, <1>2 DEF ContextType
<1>4. f = [e EXCEPT !.ctx = c]
  BY <1>1, <1>2 DEF MarkPendingReset, EngineType
<1>5. Sound(e, f)
  BY <1>3, <1>4, CtxSound
<1>6. f.side = e.side /\ f.acc = e.acc /\ f.ctx = c
  BY <1>1, <1>4 DEF EngineType
<1>7. QED
  BY <1>3, <1>5, <1>6 DEF Pending, Sound, Moved

\* The scheduling may as well come before a change of the sides.
LEMMA MarkCommutes ==
    ASSUME NEW e \in EngineType, NEW g \in [Side -> SideType], NEW sides \in SUBSET Side
    PROVE  MarkPendingReset([e EXCEPT !.side = g], sides)
             = [MarkPendingReset(e, sides) EXCEPT !.side = g]
<1>1. PICK c : c = [e.ctx EXCEPT !.pending_reset = e.ctx.pending_reset \union sides]
  OBVIOUS
<1>2. e.ctx \in ContextType
  BY EngineFields
<1>3. MarkPendingReset(e, sides) = [e EXCEPT !.ctx = c]
  BY <1>1, <1>2 DEF MarkPendingReset, EngineType
<1>4. PICK f : f = [e EXCEPT !.side = g]
  OBVIOUS
<1>5. f \in EngineType /\ f.ctx = e.ctx
  BY <1>4 DEF EngineType
<1>6. MarkPendingReset(f, sides) = [f EXCEPT !.ctx = c]
  BY <1>1, <1>2, <1>5 DEF MarkPendingReset, EngineType
<1>7. [f EXCEPT !.ctx = c] = [[e EXCEPT !.ctx = c] EXCEPT !.side = g]
  BY <1>4 DEF EngineType
<1>8. QED
  BY <1>3, <1>4, <1>6, <1>7

\* The positions on a side are covered by open interest n, unless it is to be
\* reset.
OiBacked(e, s, n) ==
    Ok(e) /\ Epochs(e) /\ Covered(e) /\ e.market_mode = "Live" =>
        Pending(e, s) \/ BacksWith(e.acc, s, e.side[s], n)

\* The open interest of one side.
LEMMA OiSound ==
    ASSUME NEW e, Good(e), NEW s \in Side, NEW n \in Int, n = 0 \/ Running(e, s),
           OiBacked(e, s, n)
    PROVE  Sound(e, [e EXCEPT !.side[s].oi = n])
<1>1. e \in EngineType /\ e.side \in [Side -> SideType]
  BY EngineFields DEF Good
<1>2. PICK o : o = [e.side[s] EXCEPT !.oi = n]
  OBVIOUS
<1>3. /\ o \in SideType /\ o.stored = e.side[s].stored /\ o.oi = n
      /\ o.mode = e.side[s].mode /\ o.epoch = e.side[s].epoch /\ o.stale = e.side[s].stale
      /\ o.mult = e.side[s].mult /\ o.dust = e.side[s].dust
  BY <1>1, <1>2 DEF SideType
<1>4. [e EXCEPT !.side[s].oi = n] = [e EXCEPT !.side[s] = o]
  BY <1>1, <1>2 DEF EngineType
<1>5. Renewed(e, s, o)
  BY <1>3, RenewedDry, RenewedRunning
<1>6. BacksWith(e.acc, s, e.side[s], n) => Backs(e.acc, s, o)
  BY <1>3 DEF Backs, BacksWith
<1>7. Rebacked(e, s, o)
  BY <1>3, <1>6 DEF Rebacked, OiBacked, Covered
<1>8. QED
  BY <1>3, <1>4, <1>5, <1>7, OneSideSound

\* The K index of one side.
LEMMA CoeffSound ==
    ASSUME NEW e, Good(e), NEW s \in Side, NEW n \in Int
    PROVE  Sound(e, [e EXCEPT !.side[s].coeff = n])
<1>1. e \in EngineType /\ e.side \in [Side -> SideType]
  BY EngineFields DEF Good
<1>2. PICK o : o = [e.side[s] EXCEPT !.coeff = n]
  OBVIOUS
<1>3. o \in SideType /\ o.stored = e.side[s].stored /\ Undated(e.side[s], o)
  <2>1. PICK p \in SideType : p = e.side[s]
    BY <1>1
  <2>2. o \in SideType /\ o.stored = p.stored /\ p.dust \in Int /\ o.dust = p.dust
    BY <1>2, <2>1 DEF SideType
  <2>3. /\ o.mode = p.mode /\ o.oi = p.oi /\ o.epoch = p.epoch /\ o.stale = p.stale
        /\ o.mult = p.mult
    BY <1>2, <2>1 DEF SideType
  <2>4. QED
    BY <2>1, <2>2, <2>3 DEF Undated
<1>4. [e EXCEPT !.side[s].coeff = n] = [e EXCEPT !.side[s] = o]
  BY <1>1, <1>2 DEF EngineType
<1>5. QED
  BY <1>1, <1>3, <1>4, RenewedSame, RebackedSame, OneSideSound

\* The open interest of both sides is dropped.
NoOi(e) == [e EXCEPT !.side = [s \in Side |-> [e.side[s] EXCEPT !.oi = 0]]]

\* ... where both sides are to be reset ...
LEMMA NoOiSound ==
    ASSUME NEW e, Good(e), \A s \in Side : Pending(e, s)
    PROVE  Sound(e, NoOi(e)) /\ \A s \in Side : NoOi(e).side[s].oi = 0
<1>1. e \in EngineType /\ e.side \in [Side -> SideType]
  BY EngineFields DEF Good
<1>2. PICK g : g = [s \in Side |-> [e.side[s] EXCEPT !.oi = 0]]
  OBVIOUS
<1>3. ASSUME NEW s \in Side
      PROVE  /\ g[s] \in SideType /\ g[s].stored = e.side[s].stored /\ g[s].oi = 0
             /\ Renewed(e, s, g[s]) /\ Rebacked(e, s, g[s])
  <2>1. PICK o \in SideType, z \in Int : o = e.side[s] /\ z = 0
    BY <1>1
  <2>2. g[s] = [o EXCEPT !.oi = z]
    BY <1>2, <2>1
  <2>3. /\ g[s] \in SideType /\ g[s].stored = o.stored /\ g[s].oi = 0
        /\ g[s].mode = o.mode /\ g[s].epoch = o.epoch /\ g[s].stale = o.stale
        /\ g[s].dust = o.dust
    BY <2>1, <2>2 DEF SideType
  <2>4. QED
    BY <1>1, <2>1, <2>3, RenewedDry, RebackedPending
<1>4. g \in [Side -> SideType]
  BY <1>2, <1>3
<1>5. NoOi(e) = [e EXCEPT !.side = g]
  BY <1>2 DEF NoOi
<1>6. NoOi(e).side = g
  BY <1>1, <1>5 DEF EngineType
<1>7. QED
  BY <1>3, <1>4, <1>5, <1>6, SidesSound

\* ... as the code schedules them.
LEMMA NoOiMarked ==
    ASSUME NEW e, Good(e), NEW f, f = MarkPendingReset(NoOi(e), Side)
    PROVE  Sound(e, f) /\ \A s \in Side : f.side[s].oi = 0
<1>1. e \in EngineType /\ e.side \in [Side -> SideType]
  BY EngineFields DEF Good
<1>2. PICK g : g = [s \in Side |-> [e.side[s] EXCEPT !.oi = 0]]
  OBVIOUS
<1>3. g \in [Side -> SideType]
  <2>1. ASSUME NEW s \in Side PROVE g[s] \in SideType
    <3>1. PICK o \in SideType, z \in Int : o = e.side[s] /\ z = 0
      BY <1>1
    <3>2. g[s] = [o EXCEPT !.oi = z]
      BY <1>2, <3>1
    <3>3. QED
      BY <3>1, <3>2 DEF SideType
  <2>2. QED
    BY <1>2, <2>1
<1>4. PICK h : h = MarkPendingReset(e, Side)
  OBVIOUS
<1>5. Sound(e, h) /\ Good(h) /\ h.side = e.side /\ \A s \in Side : Pending(h, s)
  BY <1>4, MarkResetSound
<1>6. f = [h EXCEPT !.side = g]
  BY <1>1, <1>2, <1>3, <1>4, MarkCommutes DEF NoOi
<1>7. NoOi(h) = [h EXCEPT !.side = g]
  BY <1>2, <1>5 DEF NoOi
<1>8. Sound(h, f) /\ \A s \in Side : f.side[s].oi = 0
  BY <1>5, <1>6, <1>7, NoOiSound
<1>9. QED
  BY <1>5, <1>8, SoundTrans

\* The opposite side is a side.
LEMMA OppositeSide == ASSUME NEW s \in Side PROVE Opposite(s) \in Side
  BY DEF Opposite, Side

\* A drained side keeps the books.
LEMMA DrainedSound ==
    ASSUME NEW e, Good(e), NEW opp \in Side
    PROVE  Sound(e, Drained(e, opp))
<1>1. e \in EngineType /\ e.side \in [Side -> SideType]
  BY EngineFields DEF Good
<1>2. PICK m : m = IF e.side[Opposite(opp)].oi = 0 THEN Side ELSE {opp}
  OBVIOUS
<1>3. m \in SUBSET Side /\ opp \in m
  BY <1>2
<1>4. PICK o : o = [e.side[opp] EXCEPT !.oi = 0]
  OBVIOUS
<1>5. PICK g : g = [e.side EXCEPT ![opp] = o]
  OBVIOUS
<1>6. g \in [Side -> SideType]
  <2>1. PICK p \in SideType, z \in Int : p = e.side[opp] /\ z = 0
    BY <1>1
  <2>2. o = [p EXCEPT !.oi = z]
    BY <1>4, <2>1
  <2>3. o \in SideType
    BY <2>1, <2>2 DEF SideType
  <2>4. QED
    BY <1>1, <1>5, <2>3
<1>7. [e EXCEPT !.side[opp].oi = 0] = [e EXCEPT !.side = g]
  BY <1>1, <1>4, <1>5 DEF EngineType
<1>8. PICK h : h = MarkPendingReset(e, m)
  OBVIOUS
<1>9. Sound(e, h) /\ Good(h) /\ h.side = e.side /\ Pending(h, opp) /\ h \in EngineType
  BY <1>3, <1>8, MarkResetSound DEF Good
<1>10. Drained(e, opp) = [h EXCEPT !.side = g]
  BY <1>1, <1>2, <1>3, <1>6, <1>7, <1>8, MarkCommutes DEF Drained
<1>11. [h EXCEPT !.side = g] = [h EXCEPT !.side[opp].oi = 0]
  BY <1>4, <1>5, <1>9 DEF EngineType
<1>12. Sound(h, [h EXCEPT !.side[opp].oi = 0])
  BY <1>9, OiSound DEF OiBacked
<1>13. QED
  BY <1>9, <1>10, <1>11, <1>12, SoundTrans

\* A side that counts no position has none.
LEMMA NobodyThere ==
    ASSUME NEW e, Good(e), Ok(e), NEW s \in Side, e.side[s].stored = 0
    PROVE  \A j \in Accounts : SideOf(e.acc[j].position_basis_q) # s
<1>1. Sum(Stored(e, s)) = 0
  BY DEF Good, Books, Sums
<1>2. Stored(e, s) \in [Accounts -> Int]
  BY TermTypes DEF Good
<1>3. \A j \in Accounts : Stored(e, s)[j] >= 0
  BY DEF Stored, Bit
<1>4. \A j \in Accounts : Stored(e, s)[j] = 0
  BY <1>1, <1>2, <1>3, Consts, SumZeroTerm DEF Sum
<1>5. QED
  BY <1>4 DEF Stored, Bit

\* Where nobody has a position of the side's epoch, open interest up to the
\* dust bound covers the side.
LEMMA BacksNobody ==
    ASSUME NEW acc \in [Accounts -> AccountType], NEW s, NEW o \in SideType, NEW n \in Int,
           \A j \in Accounts : SideOf(acc[j].position_basis_q) = s => acc[j].adl_epoch_snap # o.epoch
    PROVE  BacksWith(acc, s, o, n) <=> n >= 0 /\ n <= o.dust
<1>1. PICK q, a : q = InForce(acc, s, o.epoch) /\ a = Bases(acc)
  OBVIOUS
<1>2. q \in [Accounts -> Nat] /\ a \in [Accounts -> Nat \ {0}] /\ \A j \in Accounts : q[j] = 0
  BY <1>1, InForceNat DEF InForce
<1>3. o.mult \in Nat /\ o.dust \in Int /\ IsFiniteSet(Accounts)
  BY SideFields, Consts
<1>4. Covers(Accounts, q, a, o.mult, n, o.dust) <=> n >= 0 /\ n <= o.dust
  BY <1>2, <1>3, CoversNobody
<1>5. QED
  BY <1>1, <1>4 DEF BacksWith

\* A side counts at least the positions of its own epoch.
LEMMA StoredCounts ==
    ASSUME NEW e, Good(e), Ok(e), NEW s \in Side,
           NEW c \in [Accounts -> Int], NEW q, q = InForce(e.acc, s, e.side[s].epoch),
           \A j \in Accounts : c[j] = IF q[j] = 0 THEN 0 ELSE 1
    PROVE  e.side[s].stored \in Nat /\ SumFunctionOnSet(c, Accounts) <= e.side[s].stored
<1>1. PICK d : d = Stored(e, s)
  OBVIOUS
<1>2. d \in [Accounts -> Int] /\ IsFiniteSet(Accounts)
  BY <1>1, TermTypes, Consts DEF Good
<1>3. \A j \in Accounts : d[j] >= 0 /\ c[j] <= d[j]
  BY <1>1 DEF Stored, Bit, InForce
<1>4. e.side[s].stored = SumFunctionOnSet(d, Accounts)
  BY <1>1 DEF Good, Books, Sums, Sum
<1>5. SumFunctionOnSet(d, Accounts) >= 0
  BY <1>2, <1>3, SumNat
<1>6. SumFunctionOnSet(c, Accounts) <= SumFunctionOnSet(d, Accounts)
  BY <1>2, <1>3, SumMonotone
<1>7. SumFunctionOnSet(d, Accounts) \in Int
  BY <1>2, SumInt
<1>8. QED
  BY <1>4, <1>5, <1>6, <1>7

\* A quotient rounded up is large enough.
LEMMA CeilCovers ==
    ASSUME NEW x \in Nat, NEW d \in Nat \ {0}
    PROVE  CeilDiv(x, d) \in Nat /\ d * CeilDiv(x, d) >= x
<1>1. PICK y \in Int : y = (-x) \div d
  OBVIOUS
<1>2. PICK r \in 0..(d - 1) : -x = d * y + r
  BY <1>1
<1>3. d * (-y) = -(d * y) /\ d * y \in Int
  BY <1>2
<1>4. d * (-y) >= x
  BY <1>2, <1>3
<1>5. QED
  BY <1>1, <1>4, CeilNat DEF CeilDiv

\* The side still covers its positions when A and the open interest shrink
\* together, with the dust the code adds for it.
LEMMA ShrunkCovers ==
    ASSUME NEW e, Good(e), Ok(e), NEW s \in Side, NEW o, o = e.side[s], o.dust >= 0,
           Backs(e.acc, s, o), NEW n \in Nat, n <= o.oi, o.oi \in Nat \ {0}
    PROVE  /\ o.dust + AdlDust(o) >= 0
           /\ Covers(Accounts, InForce(e.acc, s, o.epoch), Bases(e.acc),
                     FloorDiv(o.mult * n, o.oi), n, o.dust + AdlDust(o))
<1>1. e \in EngineType /\ o \in SideType /\ e.acc \in [Accounts -> AccountType]
  BY EngineFields DEF Good
<1>2. PICK q, a : q = InForce(e.acc, s, o.epoch) /\ a = Bases(e.acc)
  OBVIOUS
<1>3. q \in [Accounts -> Nat] /\ a \in [Accounts -> Nat \ {0}] /\ IsFiniteSet(Accounts)
  BY <1>1, <1>2, InForceNat, Consts
<1>4. PICK c : c = [j \in Accounts |-> IF q[j] = 0 THEN 0 ELSE 1]
  OBVIOUS
<1>5. c \in [Accounts -> Int] /\ \A j \in Accounts : c[j] = IF q[j] = 0 THEN 0 ELSE 1
  BY <1>4
<1>6. PICK C \in Int : C = SumFunctionOnSet(c, Accounts)
  BY <1>3, <1>5, SumInt
<1>7. o.stored \in Nat /\ C <= o.stored
  BY <1>2, <1>5, <1>6, StoredCounts
<1>8. PICK m \in Nat \ {0}, t \in Nat \ {0}, d \in Nat, k \in Nat :
         m = o.mult /\ t = o.oi /\ d = o.dust /\ k = o.stored
  BY <1>1, <1>7, SideFields
<1>9. PICK x \in Nat : x = CeilDiv(t + k, m) /\ m * x >= t + k
  BY CeilCovers, t + k \in Nat
<1>10. m * x >= t
  BY <1>9, m * x \in Int
<1>11. Covers(Accounts, q, a, m, t, d)
  BY <1>2, <1>8 DEF Backs, BacksWith
<1>12. Covers(Accounts, q, a, (m * n) \div t, n, d + SumFunctionOnSet(c, Accounts) + x)
  <2>1. m \in Nat /\ t \in Nat /\ t # 0 /\ n <= t /\ x \in Int
    BY <1>8
  <2>2. QED
    BY <1>3, <1>5, <1>10, <1>11, <2>1, CoversShrunk
<1>13. (m * n) \div t \in Nat
  BY Quotient, m * n \in Nat
<1>14. AdlDust(o) = k + x
  BY <1>8, <1>9 DEF AdlDust
<1>15. d + C + x <= d + (k + x)
  BY <1>7, <1>8
<1>16. Covers(Accounts, q, a, (m * n) \div t, n, d + C + x)
  BY <1>6, <1>12
<1>17. Covers(Accounts, q, a, (m * n) \div t, n, d + (k + x))
  <2>1. d + C + x \in Int /\ d + (k + x) \in Int
    OBVIOUS
  <2>2. QED
    BY <1>3, <1>13, <1>15, <1>16, <2>1, CoversLooser
<1>18. QED
  BY <1>2, <1>8, <1>14, <1>17 DEF FloorDiv

\* The K index with a loss spread over it is an integer.
LEMMA SocializedKInt ==
    ASSUME NEW e \in EngineType, NEW opp \in Side, e.side[opp].oi \in Nat \ {0}, NEW d \in Int
    PROVE  SocializedK(e, opp, d) \in Int
<1>1. PICK o \in SideType : o = e.side[opp]
  BY EngineFields
<1>2. o.mult \in Int /\ o.coeff \in Int /\ o.oi \in Nat \ {0} /\ POS_SCALE \in Int
  BY <1>1, SideFields, Consts
<1>3. d * o.mult \in Int
  BY <1>2, ProductInt
<1>4. d * o.mult * POS_SCALE \in Int
  BY <1>2, <1>3, ProductInt
<1>5. PICK x : x = CeilDiv(d * o.mult * POS_SCALE, o.oi)
  OBVIOUS
<1>6. x \in Int
  BY <1>2, <1>4, <1>5, CeilInt
<1>7. SocializedK(e, opp, d) \in {o.coeff, o.coeff - x}
  BY <1>1, <1>5 DEF SocializedK
<1>8. QED
  BY <1>2, <1>6, <1>7

\* What the code adds to the dust bound is no less than nothing.
LEMMA AdlDustNat ==
    ASSUME NEW e, Good(e), Ok(e), NEW s \in Side, NEW o, o = e.side[s], o.oi \in Nat
    PROVE  AdlDust(o) \in Nat
<1>1. o \in SideType /\ e.acc \in [Accounts -> AccountType]
  BY EngineFields DEF Good
<1>2. PICK q : q = InForce(e.acc, s, o.epoch)
  OBVIOUS
<1>3. PICK c : c = [j \in Accounts |-> IF q[j] = 0 THEN 0 ELSE 1]
  OBVIOUS
<1>4. c \in [Accounts -> Int] /\ \A j \in Accounts : c[j] = IF q[j] = 0 THEN 0 ELSE 1
  BY <1>3
<1>5. PICK k \in Nat, t \in Nat, m \in Nat \ {0} : k = o.stored /\ t = o.oi /\ m = o.mult
  BY <1>1, <1>2, <1>4, StoredCounts, SideFields
<1>6. CeilDiv(t + k, m) \in Nat
  BY CeilNat, t + k \in Nat
<1>7. QED
  BY <1>5, <1>6 DEF AdlDust

\* An exact quotient.
LEMMA QuotientExact ==
    ASSUME NEW m \in Nat, NEW t \in Nat \ {0}
    PROVE  (m * t) \div t = m
<1>1. PICK y \in Nat : y = (m * t) \div t /\ t * y <= m * t /\ m * t < t * y + t
  BY Quotient, m * t \in Nat
<1>2. m * t = t * m /\ t * y \in Int /\ t * m \in Int
  OBVIOUS
<1>3. y <= m
  BY <1>1, <1>2, Cancel
<1>4. ASSUME m >= y + 1 PROVE FALSE
  <2>1. t * (y + 1) <= t * m
    BY <1>4, Multiply
  <2>2. t * (y + 1) = t * y + t
    OBVIOUS
  <2>3. QED
    BY <1>1, <1>2, <2>1, <2>2
<1>5. QED
  BY <1>1, <1>3, <1>4

\* The side that has shrunk covers its positions.
LEMMA ShrunkRebacked ==
    ASSUME NEW e, Good(e), NEW s \in Side, NEW o, o = e.side[s], o.oi \in Nat \ {0},
           NEW n \in Nat, n <= o.oi, NEW p \in SideType, p.epoch = o.epoch, p.oi = n,
           p.mult = FloorDiv(o.mult * n, o.oi),
           p.dust = IF n < o.oi THEN o.dust + AdlDust(o) ELSE o.dust
    PROVE  Rebacked(e, s, p)
<1> SUFFICES ASSUME Ok(e), Covered(e), e.market_mode = "Live"
             PROVE  p.dust >= 0 /\ (Pending(e, s) \/ Backs(e.acc, s, p))
  BY DEF Rebacked
<1>1. o \in SideType /\ e.acc \in [Accounts -> AccountType]
  BY EngineFields DEF Good
<1>2. o.dust >= 0 /\ (Pending(e, s) \/ Backs(e.acc, s, o))
  BY DEF Covered
<1>3. o.dust \in Int /\ o.mult \in Nat \ {0}
  BY <1>1, SideFields
<1>4. CASE n < o.oi
  <2>1. AdlDust(o) \in Nat
    BY AdlDustNat
  <2>2. p.dust >= 0
    BY <1>2, <1>3, <1>4, <2>1
  <2>3. ASSUME Backs(e.acc, s, o) PROVE Backs(e.acc, s, p)
    <3>1. Covers(Accounts, InForce(e.acc, s, o.epoch), Bases(e.acc),
                 FloorDiv(o.mult * n, o.oi), n, o.dust + AdlDust(o))
      BY <1>2, <2>3, ShrunkCovers
    <3>2. QED
      BY <1>4, <3>1 DEF Backs, BacksWith
  <2>4. QED
    BY <1>2, <2>2, <2>3
<1>5. CASE ~(n < o.oi)
  <2>1. n = o.oi
    BY <1>5
  <2>2. PICK m \in Nat, t \in Nat \ {0} : m = o.mult /\ t = o.oi
    BY <1>3
  <2>3. (m * t) \div t = m
    BY <2>2, QuotientExact
  <2>4. p.mult = o.mult
    BY <2>1, <2>2, <2>3 DEF FloorDiv
  <2>5. SameCover(o, p) /\ SamePositions(e.acc, e.acc)
    BY <1>3, <1>5, <2>1, <2>4 DEF SameCover, SamePositions
  <2>6. QED
    BY <1>1, <1>2, <1>5, <2>5, BacksSame
<1>6. QED
  BY <1>4, <1>5

\* enqueue_adl, the opposite side shrinks through A.
LEMMA ShrunkSound ==
    ASSUME NEW e, Good(e), NEW opp \in Side, e.side[opp].oi \in Nat \ {0}, NEW n \in Nat,
           n <= e.side[opp].oi
    PROVE  Sound(e, Shrunk(e, opp, n))
<1>1. e \in EngineType /\ e.side \in [Side -> SideType]
  BY EngineFields DEF Good
<1>2. PICK o \in SideType : o = e.side[opp]
  BY <1>1
<1>3. /\ o.mult \in Nat \ {0} /\ o.oi \in Nat \ {0} /\ o.stored \in Int /\ o.dust \in Int
      /\ o.mode \in {"Normal", "DrainOnly", "ResetPending"}
  BY <1>2, SideFields
<1>4. PICK a : a = FloorDiv(o.mult * n, o.oi)
  OBVIOUS
<1>5. a \in Int
  BY <1>3, <1>4, ProductInt, FloorInt
<1>6. CASE a > 0
  <2>1. PICK d, m : /\ d = (IF n < o.oi THEN o.dust + AdlDust(o) ELSE o.dust)
                    /\ m = (IF a < MIN_A_SIDE THEN "DrainOnly" ELSE o.mode)
    OBVIOUS
  <2>2. d \in Int
    <3>1. CeilDiv(o.oi + o.stored, o.mult) \in Int
      BY <1>3, CeilInt
    <3>2. QED
      BY <1>3, <2>1, <3>1 DEF AdlDust
  <2>3. m \in {"Normal", "DrainOnly", "ResetPending"}
    BY <1>3, <2>1
  <2>4. PICK p : p = [o EXCEPT !.mult = a, !.oi = n, !.dust = d, !.mode = m]
    OBVIOUS
  <2>5. a \in Nat \ {0} /\ n \in Int
    BY <1>5, <1>6
  <2>6. /\ p \in SideType /\ p.stored = o.stored /\ p.mode = m
        /\ p.epoch = o.epoch /\ p.stale = o.stale
        /\ p.mult = a /\ p.oi = n /\ p.dust = d
    BY <2>2, <2>3, <2>4, <2>5 DEF SideType
  <2>7. Shrunk(e, opp, n) = [e EXCEPT !.side[opp] = p]
    BY <1>2, <1>4, <1>6, <2>1, <2>4 DEF Shrunk
  <2>8. Running(e, opp)
    BY OiRunning
  <2>9. Renewed(e, opp, p)
    BY <1>2, <2>1, <2>6, <2>8, RenewedRunning
  <2>10. Rebacked(e, opp, p)
    BY <1>2, <1>4, <2>1, <2>6, ShrunkRebacked
  <2>11. QED
    BY <1>2, <2>6, <2>7, <2>9, <2>10, OneSideSound
<1>7. CASE ~(a > 0)
  <2>1. Shrunk(e, opp, n) = MarkPendingReset(NoOi(e), Side)
    BY <1>2, <1>4, <1>7 DEF Shrunk, NoOi
  <2>2. QED
    BY <2>1, NoOiMarked
<1>8. QED
  BY <1>6, <1>7

\* The open interest of a side that counts no position may shrink.
LEMMA OiNobody ==
    ASSUME NEW e, Good(e), NEW s \in Side, e.side[s].stored = 0, NEW n \in Nat, NEW m \in Nat,
           m = e.side[s].oi, n <= m
    PROVE  OiBacked(e, s, n)
<1> SUFFICES ASSUME Ok(e), Covered(e), e.market_mode = "Live", ~Pending(e, s)
             PROVE  BacksWith(e.acc, s, e.side[s], n)
  BY DEF OiBacked
<1>1. PICK o : o = e.side[s]
  OBVIOUS
<1>2. o \in SideType /\ e.acc \in [Accounts -> AccountType] /\ o.dust \in Int
  BY <1>1, EngineFields, SideFields DEF Good
<1>3. BacksWith(e.acc, s, o, m)
  BY <1>1 DEF Covered, Backs
<1>4. \A j \in Accounts : SideOf(e.acc[j].position_basis_q) = s => e.acc[j].adl_epoch_snap # o.epoch
  BY NobodyThere
<1>5. m <= o.dust
  BY <1>2, <1>3, <1>4, BacksNobody
<1>6. n >= 0 /\ n <= o.dust
  BY <1>2, <1>5
<1>7. QED
  BY <1>1, <1>2, <1>4, <1>6, BacksNobody

\* The opposite side of a bankruptcy: shrunk, drained, or charged through K.
LEMMA DeleveragedSound ==
    ASSUME NEW e, Good(e), NEW opp \in Side, NEW q \in Nat, NEW d \in Int
    PROVE  Sound(e, Deleveraged(e, opp, q, d))
<1>1. e \in EngineType /\ e.side \in [Side -> SideType]
  BY EngineFields DEF Good
<1>2. PICK n \in Int : n = e.side[opp].oi
  BY <1>1, SideFields
<1>3. CASE n = 0 \/ q > n
  <2>1. PICK m : m = IF e.side[Opposite(opp)].oi = 0 THEN Side ELSE {}
    OBVIOUS
  <2>2. Deleveraged(e, opp, q, d) \in {MarkPendingReset(e, m), Corrupt(e)}
    BY <1>2, <1>3, <2>1 DEF Deleveraged
  <2>3. m \in SUBSET Side
    BY <2>1
  <2>4. Sound(e, MarkPendingReset(e, m))
    BY <2>3, MarkResetSound
  <2>5. QED
    BY <2>2, <2>4, SoundRefl, CheckSound
<1>4. CASE ~(n = 0 \/ q > n)
  <2>1. n \in Nat \ {0} /\ n - q \in Nat
    BY <1>4
  <2>2. PICK x : x = SocializedK(e, opp, d)
    OBVIOUS
  <2>3. x \in Int
    BY <1>1, <1>2, <2>1, <2>2, SocializedKInt
  <2>4. PICK k : k = [e EXCEPT !.side[opp].coeff = x]
    OBVIOUS
  <2>5. Sound(e, k) /\ Good(k)
    BY <2>3, <2>4, CoeffSound DEF Sound, Moved
  <2>6. k.side[opp].oi = n
    BY <1>1, <1>2, <2>4 DEF EngineType, SideType
  <2>7. PICK y \in Nat : y = n - q /\ y <= n
    BY <2>1
  <2>8. e.side[opp].stored = 0 => Sound(e, [e EXCEPT !.side[opp].oi = y])
    <3>1. e.side[opp].stored = 0 => OiBacked(e, opp, y)
      BY <1>2, <2>1, <2>7, OiNobody
    <3>2. QED
      BY <1>2, <2>1, <3>1, OiRunning, OiSound
  <2>9. [e EXCEPT !.side[opp].oi = @ - q] = [e EXCEPT !.side[opp].oi = y]
    BY <1>1, <1>2, <2>7 DEF EngineType
  <2>10. Sound(e, Drained(e, opp)) /\ Sound(k, Drained(k, opp))
    BY <2>5, DrainedSound
  <2>11. Sound(k, Shrunk(k, opp, y))
    BY <2>1, <2>5, <2>6, <2>7, ShrunkSound
  <2>12. \/ Deleveraged(e, opp, q, d) \in {Drained(e, opp), Drained(k, opp), Shrunk(k, opp, y)}
         \/ /\ Deleveraged(e, opp, q, d) = [e EXCEPT !.side[opp].oi = y]
            /\ e.side[opp].stored = 0
    BY <1>2, <1>4, <2>2, <2>4, <2>7, <2>9 DEF Deleveraged
  <2>13. QED
    BY <2>5, <2>8, <2>10, <2>11, <2>12, SoundTrans
<1>5. QED
  BY <1>3, <1>4

\* A part of a helper that has failed is a complete one.
LEMMA FailedSound ==
    ASSUME NEW e, NEW f, Written(e, f), ~Ok(f)
    PROVE  Sound(e, f)
  BY DEF Written, Sound, Moved, Kept

\* The open interest w has left side s.
OiLess(e, s, w) == [e EXCEPT !.side[s].oi = @ - w]

\* enqueue_adl, of a position that has left the side already: its quantity
\* follows.
LEMMA EnqueueAdlSound ==
    ASSUME NEW e, NEW c, Written(e, c), NEW liq \in Side, NEW q \in Nat, NEW d \in Int,
           Ok(c) => c.used # {}, Ok(c) => Sound(e, OiLess(c, liq, q))
    PROVE  Sound(e, EnqueueAdl(c, liq, q, d))
<1>1. c \in EngineType /\ c.side \in [Side -> SideType]
  BY EngineFields DEF Written, Good
<1>2. CASE ~Ok(c)
  <2>1. EnqueueAdl(c, liq, q, d) = c
    BY <1>2 DEF EnqueueAdl
  <2>2. QED
    BY <1>2, <2>1, FailedSound
<1>3. CASE Ok(c) /\ q > c.side[liq].oi
  <2>1. EnqueueAdl(c, liq, q, d) = Corrupt(c)
    BY <1>3 DEF EnqueueAdl
  <2>2. Written(e, Corrupt(c)) /\ ~Ok(Corrupt(c))
    BY <1>1, CorruptSound DEF Written, Kept, Alike
  <2>3. QED
    BY <2>1, <2>2, FailedSound
<1>4. CASE Ok(c) /\ ~(q > c.side[liq].oi)
  <2>1. PICK n, w : n = c.side[liq].oi - q /\ w = c.insurance - InsurancePays(c, d)
    OBVIOUS
  <2>2. PICK x : x = [c EXCEPT !.side[liq].oi = n]
    OBVIOUS
  <2>3. x = OiLess(c, liq, q)
    BY <1>1, <2>1, <2>2 DEF OiLess, EngineType
  <2>4. Sound(e, x) /\ Good(x)
    BY <1>4, <2>3 DEF Sound, Moved
  <2>5. x.insurance = c.insurance /\ Ok(x) /\ x.used = c.used
    BY <1>1, <1>4, <2>2 DEF EngineType, Ok
  <2>6. PICK f : f = UseInsurance(x, d)
    OBVIOUS
  <2>7. Sound(x, f)
    BY <1>4, <2>4, <2>5, <2>6, UseInsuranceSound
  <2>8. Sound(e, f) /\ Good(f)
    BY <2>4, <2>7, SoundTrans DEF Sound, Moved
  <2>9. PICK y : y = d - InsurancePays(c, d)
    OBVIOUS
  <2>10. y \in Int
    BY <1>1, <2>9, InsurancePaysInt
  <2>11. Sound(f, Deleveraged(f, Opposite(liq), q, y))
    BY <2>8, <2>10, OppositeSide, DeleveragedSound
  <2>12. f = [UseInsurance(c, d) EXCEPT !.side[liq].oi = @ - q]
    <3>1. UseInsurance(c, d) = [c EXCEPT !.insurance = w]
      BY <2>1 DEF UseInsurance
    <3>2. f = [x EXCEPT !.insurance = w]
      BY <2>1, <2>5, <2>6 DEF UseInsurance, InsurancePays
    <3>3. [[c EXCEPT !.insurance = w] EXCEPT !.side[liq].oi = @ - q]
            = [[c EXCEPT !.insurance = w] EXCEPT !.side[liq].oi = n]
      BY <1>1, <2>1 DEF EngineType
    <3>4. [[c EXCEPT !.insurance = w] EXCEPT !.side[liq].oi = n] = [x EXCEPT !.insurance = w]
      BY <1>1, <2>2 DEF EngineType
    <3>5. QED
      BY <3>1, <3>2, <3>3, <3>4
  <2>13. EnqueueAdl(c, liq, q, d) = Deleveraged(f, Opposite(liq), q, y)
    BY <1>4, <2>9, <2>12 DEF EnqueueAdl
  <2>14. QED
    BY <2>8, <2>11, <2>13, SoundTrans
<1>5. QED
  BY <1>2, <1>3, <1>4

-----------------------------------------------------------------------------
(* Resets and the end of an instruction *)

\* A market without positions has no open interest.
Cleared(e) ==
    (\A s \in Side : e.side[s].stored = 0) => (\A s \in Side : e.side[s].oi = 0)

\* The open interest and the number of positions of both sides are the same.
SameOi(e, f) ==
    \A s \in Side : f.side[s].oi = e.side[s].oi /\ f.side[s].stored = e.side[s].stored

\* The same open interest and counts: still clear.
LEMMA ClearedKept ==
    ASSUME NEW e, NEW f, SameOi(e, f), Cleared(e)
    PROVE  Cleared(f)
  BY DEF SameOi, Cleared

\* Steps that keep the open interest compose.
LEMMA SameOiTrans ==
    ASSUME NEW e, NEW f, NEW g, SameOi(e, f), SameOi(f, g)
    PROVE  SameOi(e, g)
  BY DEF SameOi

\* The open interest of both sides is the same.
Even(e) == e.side["Long"].oi = e.side["Short"].oi

\* Still the same.
LEMMA EvenKept ==
    ASSUME NEW e, NEW f, SameOi(e, f), Even(e)
    PROVE  Even(f)
  BY DEF SameOi, Even, Side

\* It may reopen.
LEMMA RenewedReopened ==
    ASSUME NEW e, Good(e), NEW s \in Side, NEW o, ReadyToReopen(e.side[s]),
           o = [e.side[s] EXCEPT !.mode = "Normal"]
    PROVE  /\ Renewed(e, s, o) /\ o \in SideType /\ SameCover(e.side[s], o)
           /\ o.stored = e.side[s].stored /\ o.oi = e.side[s].oi
<1>1. e.side[s] \in SideType /\ e.side[s].dust \in Int
  BY EngineFields, SideFields DEF Good
<1>2. /\ o.mode = "Normal" /\ o.stale = e.side[s].stale /\ o \in SideType
      /\ o.stored = e.side[s].stored /\ o.oi = e.side[s].oi
      /\ o.epoch = e.side[s].epoch /\ o.mult = e.side[s].mult /\ o.dust = e.side[s].dust
  BY <1>1 DEF SideType
<1>3. Ok(e) => \A j \in Accounts : OfEpoch(e.acc[j], s, o)
  BY NobodyThere DEF ReadyToReopen, OfEpoch
<1>4. Aged(o)
  BY <1>2 DEF ReadyToReopen, Aged
<1>5. SameCover(e.side[s], o)
  BY <1>1, <1>2 DEF SameCover
<1>6. QED
  BY <1>2, <1>3, <1>4, <1>5 DEF Renewed

\* A side without open interest whose positions are of other epochs is
\* covered.
LEMMA BacksDrained ==
    ASSUME NEW acc \in [Accounts -> AccountType], NEW s, NEW o \in SideType, o.oi = 0, o.dust >= 0,
           \A j \in Accounts : SideOf(acc[j].position_basis_q) = s => acc[j].adl_epoch_snap # o.epoch
    PROVE  Backs(acc, s, o)
<1>1. PICK n \in Int : n = o.oi /\ n >= 0 /\ n <= o.dust
  BY SideFields
<1>2. BacksWith(acc, s, o, n)
  BY <1>1, BacksNobody
<1>3. QED
  BY <1>1, <1>2 DEF Backs

\* begin_full_drain_reset
LEMMA BeginResetSound ==
    ASSUME NEW e, Good(e), NEW s \in Side, e.side[s].mode # "ResetPending",
           NEW g, g = BeginReset(e, s)
    PROVE  /\ Sound(e, g) /\ SameOi(e, g)
           /\ Ok(g) /\ Epochs(e) => SideBacked(g, s)
           /\ g.acc = e.acc /\ \A t \in Side \ {s} : g.side[t] = e.side[t]
<1>1. e \in EngineType /\ e.side \in [Side -> SideType] /\ e.acc \in [Accounts -> AccountType]
  BY EngineFields DEF Good
<1>2. CASE e.side[s].oi # 0
  <2>1. g = Corrupt(e)
    BY <1>2 DEF BeginReset
  <2>2. QED
    BY <1>1, <2>1, CorruptSound DEF Sound, Moved, SameOi
<1>3. CASE e.side[s].oi = 0
  <2>1. PICK o \in SideType : o = e.side[s]
    BY <1>1
  <2>2. PICK k, f, n, t : k = o.coeff /\ f = o.f /\ n = o.stored /\ t = o.epoch + 1
    OBVIOUS
  <2>3. k \in Int /\ f \in Int /\ n \in Int /\ t \in Int /\ ADL_ONE \in Nat \ {0} /\ 0 \in Int
    BY <2>2, SideFields, Consts
  <2>4. PICK p : p = [o EXCEPT !.epoch_start_k = k, !.f_epoch_start = f, !.coeff = 0, !.f = 0,
                        !.epoch = t, !.mult = ADL_ONE, !.stale = n, !.dust = 0,
                        !.mode = "ResetPending"]
    OBVIOUS
  <2>5. p = NewEpoch(o)
    BY <2>2, <2>4 DEF NewEpoch, SideType
  <2>6. /\ p \in SideType /\ p.stored = o.stored /\ p.oi = o.oi
        /\ p.mode = "ResetPending" /\ p.epoch = o.epoch + 1 /\ p.stale = o.stored
        /\ p.dust = 0
    BY <2>2, <2>3, <2>4 DEF SideType
  <2>7. g = [e EXCEPT !.side[s] = p]
    BY <1>1, <1>3, <2>1, <2>5 DEF BeginReset, EngineType
  <2>8. g.side = [e.side EXCEPT ![s] = p] /\ g.acc = e.acc
    BY <1>1, <2>7 DEF EngineType
  <2>9. Renewed(e, s, p)
    <3>1. o.epoch \in Int /\ \A j \in Accounts : e.acc[j].adl_epoch_snap \in Int
      BY <1>1, <2>1, EngineFields, SideFields, AccountFields
    <3>2. Aged(p)
      BY <1>3, <2>1, <2>6 DEF Aged
    <3>3. Epochs(e) => \A j \in Accounts : OfEpoch(e.acc[j], s, p)
      BY <2>1, <2>6, <3>1 DEF Epochs, OfEpoch, Age
    <3>4. QED
      BY <3>2, <3>3 DEF Renewed
  <2>10. Epochs(e) => Backs(e.acc, s, p)
    <3>1. o.epoch \in Int /\ \A j \in Accounts : e.acc[j].adl_epoch_snap \in Int
      BY <1>1, <2>1, EngineFields, SideFields, AccountFields
    <3>2. ASSUME Epochs(e)
          PROVE  \A j \in Accounts : SideOf(e.acc[j].position_basis_q) = s
                                       => e.acc[j].adl_epoch_snap # p.epoch
      BY <2>1, <2>6, <3>1, <3>2 DEF Epochs, OfEpoch, Age
    <3>3. p.oi = 0 /\ p.dust >= 0
      BY <1>3, <2>1, <2>6
    <3>4. QED
      BY <1>1, <2>6, <3>2, <3>3, BacksDrained
  <2>11. Rebacked(e, s, p)
    BY <2>6, <2>10 DEF Rebacked
  <2>12. SameOi(e, g) /\ \A r \in Side \ {s} : g.side[r] = e.side[r]
    BY <1>1, <2>1, <2>6, <2>8 DEF SameOi
  <2>13. Epochs(e) => SideBacked(g, s)
    BY <1>1, <2>6, <2>8, <2>10 DEF SideBacked
  <2>14. QED
    BY <2>1, <2>6, <2>7, <2>8, <2>9, <2>11, <2>12, <2>13, OneSideSound
<1>4. QED
  BY <1>2, <1>3

\* maybe_finalize_ready_reset_sides
LEMMA ReopenSound ==
    ASSUME NEW e, Good(e)
    PROVE  /\ Sound(e, ReopenReadySides(e)) /\ SameOi(e, ReopenReadySides(e))
           /\ ReopenReadySides(e).acc = e.acc
           /\ \A s \in Side : SameCover(e.side[s], ReopenReadySides(e).side[s])
           /\ Backed(e) => Backed(ReopenReadySides(e))
<1>1. e \in EngineType /\ e.side \in [Side -> SideType] /\ e.acc \in [Accounts -> AccountType]
  BY EngineFields DEF Good
<1>2. PICK g : g = [s \in Side |-> IF ReadyToReopen(e.side[s])
                                   THEN [e.side[s] EXCEPT !.mode = "Normal"] ELSE e.side[s]]
  OBVIOUS
<1>3. ASSUME NEW s \in Side
      PROVE  /\ g[s] \in SideType /\ g[s].stored = e.side[s].stored
             /\ g[s].oi = e.side[s].oi /\ Renewed(e, s, g[s]) /\ SameCover(e.side[s], g[s])
  <2>1. CASE ReadyToReopen(e.side[s])
    BY <1>2, <2>1, RenewedReopened
  <2>2. CASE ~ReadyToReopen(e.side[s])
    <3>1. e.side[s].dust \in Int
      BY <1>1, SideFields
    <3>2. g[s] = e.side[s] /\ Undated(e.side[s], g[s]) /\ SameCover(e.side[s], g[s])
      BY <1>2, <2>2, <3>1 DEF Undated, SameCover
    <3>3. QED
      BY <1>1, <3>2, RenewedSame
  <2>3. QED
    BY <2>1, <2>2
<1>4. g \in [Side -> SideType]
  BY <1>2, <1>3
<1>5. \A s \in Side : Rebacked(e, s, g[s])
  BY <1>1, <1>3, RebackedCover
<1>6. PICK f : f = ReopenReadySides(e)
  OBVIOUS
<1>7. f = [e EXCEPT !.side = g]
  BY <1>2, <1>6 DEF ReopenReadySides
<1>8. f.side = g /\ f.acc = e.acc /\ f.market_mode = e.market_mode
  BY <1>1, <1>7 DEF EngineType
<1>9. Sound(e, f)
  BY <1>3, <1>4, <1>5, <1>7, SidesSound
<1>10. Backed(e) => Backed(f)
  <2> SUFFICES ASSUME Backed(e), f.market_mode = "Live", NEW s \in Side
               PROVE  f.side[s].dust >= 0 /\ Backs(f.acc, s, f.side[s])
    BY DEF Backed, SideBacked
  <2>1. e.side[s].dust >= 0 /\ Backs(e.acc, s, e.side[s]) /\ SameCover(e.side[s], f.side[s])
    BY <1>3, <1>8 DEF Backed, SideBacked
  <2>2. SamePositions(e.acc, f.acc) /\ e.side[s] \in SideType /\ f.side[s] \in SideType
    BY <1>1, <1>4, <1>8 DEF SamePositions
  <2>3. Backs(f.acc, s, f.side[s])
    BY <1>1, <2>1, <2>2, BacksSame
  <2>4. QED
    BY <2>1, <2>2, <2>3, SideFields DEF SameCover
<1>11. QED
  BY <1>3, <1>6, <1>8, <1>9, <1>10 DEF SameOi

\* The dust of a market without positions is cleared, or the instruction fails.
LEMMA ClearDustSound ==
    ASSUME NEW e, Good(e)
    PROVE  /\ Sound(e, ClearDust(e)) /\ (Ok(ClearDust(e)) => Cleared(ClearDust(e)))
           /\ Even(e) => Even(ClearDust(e))
<1>1. e \in EngineType /\ e.side \in [Side -> SideType]
  BY EngineFields DEF Good
<1>2. PICK f : f = MarkPendingReset(NoOi(e), Side)
  OBVIOUS
<1>3. \A s \in Side : f.side[s].oi = 0
  BY <1>2, NoOiMarked
<1>4. Sound(e, f)
  BY <1>2, NoOiMarked
<1>5. "Long" \in Side /\ "Short" \in Side
  BY DEF Side
<1>6. Cleared(f) /\ Even(f)
  BY <1>3, <1>5 DEF Cleared, Even
<1>7. CASE EmptySides(e) = {} \/ ~(\/ \E s \in Side : e.side[s].oi # 0
                                   \/ \E s \in EmptySides(e) : e.side[s].dust # 0)
  <2>1. ClearDust(e) = e
    BY <1>7 DEF ClearDust
  <2>2. Cleared(e)
    BY <1>7 DEF Cleared, EmptySides, Side
  <2>3. QED
    BY <2>1, <2>2, SoundRefl
<1>8. CASE ~(EmptySides(e) = {} \/ ~(\/ \E s \in Side : e.side[s].oi # 0
                                     \/ \E s \in EmptySides(e) : e.side[s].dust # 0))
  <2>1. ClearDust(e) = f \/ ClearDust(e) = Corrupt(e)
    BY <1>2, <1>8 DEF ClearDust, NoOi
  <2>2. QED
    BY <1>1, <1>4, <1>6, <2>1, CorruptSound DEF Sound, Moved, Even
<1>9. QED
  BY <1>7, <1>8

\* schedule_end_of_instruction_resets
LEMMA ScheduleSound ==
    ASSUME NEW e, Good(e)
    PROVE  /\ Sound(e, ScheduleResets(e)) /\ (Ok(ScheduleResets(e)) => Cleared(ScheduleResets(e)))
           /\ Even(e) => Even(ScheduleResets(e))
<1>1. PICK c : c = ClearDust(e)
  OBVIOUS
<1>2. /\ Sound(e, c) /\ Good(c) /\ c \in EngineType /\ (Ok(c) => Cleared(c))
      /\ Even(e) => Even(c)
  BY <1>1, ClearDustSound DEF Sound, Moved, Good
<1>3. PICK m : m = {s \in Side : c.side[s].mode = "DrainOnly" /\ c.side[s].oi = 0}
  OBVIOUS
<1>4. ScheduleResets(e) = MarkPendingReset(c, m)
  BY <1>1, <1>3 DEF ScheduleResets, ResetDrained
<1>5. m \in SUBSET Side
  BY <1>3
<1>6. Sound(c, MarkPendingReset(c, m))
  BY <1>2, <1>5, MarkResetSound
<1>7. MarkPendingReset(c, m).side = c.side
  BY <1>2 DEF MarkPendingReset, EngineType
<1>8. QED
  BY <1>2, <1>4, <1>6, <1>7, SoundTrans DEF Cleared, Even, Sound, Moved, Kept, Alike

\* One side at the end of an instruction: its reset begins, unless it waits
\* for it already.  Its positions are covered then.
BeginPending(e, s) ==
    IF s \in e.ctx.pending_reset /\ e.side[s].mode # "ResetPending" THEN BeginReset(e, s) ELSE e

LEMMA BeginPendingSound ==
    ASSUME NEW e, Good(e), NEW s \in Side, NEW f, f = BeginPending(e, s)
    PROVE  /\ Sound(e, f) /\ SameOi(e, f) /\ Good(f)
           /\ Ok(f) /\ Epochs(e) /\ Covered(e) => SideBacked(f, s)
           /\ \A t \in Side \ {s} : Ok(f) /\ SideBacked(e, t) => SideBacked(f, t)
<1>1. CASE Pending(e, s) /\ e.side[s].mode # "ResetPending"
  <2>1. f = BeginReset(e, s)
    BY <1>1 DEF BeginPending, Pending
  <2>2. /\ Sound(e, f) /\ SameOi(e, f) /\ (Ok(f) /\ Epochs(e) => SideBacked(f, s))
        /\ f.acc = e.acc /\ \A t \in Side \ {s} : f.side[t] = e.side[t]
    BY <1>1, <2>1, BeginResetSound
  <2>3. \A t \in Side \ {s} : SideBacked(e, t) => SideBacked(f, t)
    BY <2>2 DEF SideBacked, Sound, Moved, Kept, Alike
  <2>4. QED
    BY <2>2, <2>3 DEF Sound, Moved
<1>2. CASE ~(Pending(e, s) /\ e.side[s].mode # "ResetPending")
  <2>1. f = e
    BY <1>2 DEF BeginPending, Pending
  <2>2. Sound(e, f) /\ SameOi(e, f)
    BY <2>1, SoundRefl DEF SameOi
  <2>3. ASSUME Epochs(e), Covered(e), e.market_mode = "Live"
        PROVE  e.side[s].dust >= 0 /\ Backs(e.acc, s, e.side[s])
    <3>1. e.side[s].dust >= 0 /\ (Pending(e, s) \/ Backs(e.acc, s, e.side[s]))
      BY <2>3 DEF Covered
    <3>2. CASE e.side[s].mode = "ResetPending"
      <4>1. PICK o \in SideType : o = e.side[s] /\ o.epoch \in Int
        BY EngineFields, SideFields DEF Good
      <4>2. \A j \in Accounts : e.acc[j].adl_epoch_snap \in Int
        BY EngineFields, AccountFields DEF Good
      <4>3. \A j \in Accounts : SideOf(e.acc[j].position_basis_q) = s
                                  => e.acc[j].adl_epoch_snap # o.epoch
        BY <2>3, <3>2, <4>1, <4>2 DEF Epochs, OfEpoch, Age
      <4>4. o.oi = 0
        BY <2>3, <3>2, <4>1 DEF Epochs, Aged
      <4>5. e.acc \in [Accounts -> AccountType]
        BY EngineFields DEF Good
      <4>6. QED
        BY <3>1, <4>1, <4>3, <4>4, <4>5, BacksDrained
    <3>3. QED
      BY <1>2, <3>1, <3>2
  <2>4. QED
    BY <2>1, <2>2, <2>3 DEF SideBacked
<1>3. QED
  BY <1>1, <1>2

\* finalize_end_of_instruction_resets
LEMMA FinalizeResetsSound ==
    ASSUME NEW e, Good(e), NEW f, f = FinalizeResets(e)
    PROVE  /\ Sound(e, f) /\ SameOi(e, f)
           /\ Ok(f) /\ Epochs(e) /\ Covered(e) => Backed(f)
<1>1. "Long" \in Side /\ "Short" \in Side /\ Side = {"Long", "Short"}
  BY DEF Side
<1>2. PICK c : c = BeginPending(e, "Long")
  OBVIOUS
<1>3. /\ Sound(e, c) /\ SameOi(e, c) /\ Good(c)
      /\ Ok(c) /\ Epochs(e) /\ Covered(e) => SideBacked(c, "Long")
  BY <1>1, <1>2, BeginPendingSound
<1>4. PICK g : g = BeginPending(c, "Short")
  OBVIOUS
<1>5. /\ Sound(c, g) /\ SameOi(c, g) /\ Good(g)
      /\ Ok(g) /\ Epochs(c) /\ Covered(c) => SideBacked(g, "Short")
      /\ Ok(g) /\ SideBacked(c, "Long") => SideBacked(g, "Long")
  BY <1>1, <1>3, <1>4, BeginPendingSound
<1>6. f = ReopenReadySides(g)
  BY <1>2, <1>4 DEF FinalizeResets, BeginPending
<1>7. Sound(g, f) /\ SameOi(g, f) /\ (Backed(g) => Backed(f))
  BY <1>5, <1>6, ReopenSound
<1>8. ASSUME Ok(f), Epochs(e), Covered(e) PROVE Backed(f)
  <2>1. Ok(g) /\ Ok(c)
    BY <1>5, <1>7, <1>8 DEF Sound, Moved, Kept, Alike
  <2>2. Epochs(c) /\ Covered(c)
    BY <1>3, <1>8, <2>1 DEF Sound, Moved, Kept, Alike
  <2>3. SideBacked(g, "Long") /\ SideBacked(g, "Short")
    BY <1>3, <1>5, <1>8, <2>1, <2>2
  <2>4. QED
    BY <1>1, <1>7, <2>3 DEF Backed
<1>9. QED
  BY <1>3, <1>5, <1>7, <1>8, SoundTrans, SameOiTrans

\* The end of an instruction: what has no position has no open interest.
LEMMA EndSound ==
    ASSUME NEW e, Good(e), NEW f, f = EndOfInstruction(e)
    PROVE  /\ Sound(e, f) /\ (Ok(f) => Cleared(f)) /\ (Even(e) => Even(f))
           /\ Ok(f) /\ Epochs(e) /\ Covered(e) => Backed(f)
<1>1. CASE ~Ok(e)
  BY <1>1, SoundRefl DEF EndOfInstruction
<1>2. CASE Ok(e)
  <2>1. PICK c : c = ScheduleResets(e)
    OBVIOUS
  <2>2. Sound(e, c) /\ (Ok(c) => Cleared(c)) /\ Good(c) /\ (Even(e) => Even(c))
    BY <2>1, ScheduleSound DEF Sound, Moved
  <2>3. f = FinalizeResets(c)
    BY <1>2, <2>1 DEF EndOfInstruction
  <2>4. Sound(c, f) /\ SameOi(c, f) /\ (Ok(f) /\ Epochs(c) /\ Covered(c) => Backed(f))
    BY <2>2, <2>3, FinalizeResetsSound
  <2>5. Sound(e, f) /\ (Ok(f) => Cleared(f)) /\ (Even(e) => Even(f))
    BY <2>2, <2>4, SoundTrans, ClearedKept, EvenKept DEF Sound, Moved, Kept, Alike
  <2>6. Ok(f) /\ Epochs(e) /\ Covered(e) => Epochs(c) /\ Covered(c)
    BY <2>2, <2>4 DEF Sound, Moved, Kept, Alike
  <2>7. QED
    BY <2>4, <2>5, <2>6
<1>3. QED
  BY <1>1, <1>2

\* assert_public_postconditions
LEMMA PostconditionsSound ==
    ASSUME NEW e, Good(e), NEW f, f = AssertPostconditions(e)
    PROVE  Sound(e, f) /\ (Ok(f) => f = e /\ PostconditionsHold(e))
<1>1. f = e \/ f = Corrupt(e)
  BY DEF AssertPostconditions, CorruptUnless
<1>2. Sound(e, e) /\ Sound(e, Corrupt(e)) /\ ~Ok(Corrupt(e))
  BY SoundRefl, CheckSound, CorruptSound DEF Good
<1>3. QED
  BY <1>1, <1>2 DEF AssertPostconditions, CorruptUnless

\* The end of a live instruction.
LEMMA FinishSound ==
    ASSUME NEW e, Good(e), NEW f, f = Finish(e)
    PROVE  /\ Sound(e, f) /\ (Ok(f) => Cleared(f) /\ PostconditionsHold(f))
           /\ Ok(f) /\ Epochs(e) /\ Covered(e) => Backed(f)
<1>1. PICK g : g = EndOfInstruction(e)
  OBVIOUS
<1>2. /\ Sound(e, g) /\ (Ok(g) => Cleared(g)) /\ Good(g)
      /\ Ok(g) /\ Epochs(e) /\ Covered(e) => Backed(g)
  BY <1>1, EndSound DEF Sound, Moved
<1>3. f = AssertPostconditions(g)
  BY <1>1 DEF Finish
<1>4. Sound(g, f) /\ (Ok(f) => f = g /\ PostconditionsHold(g))
  BY <1>2, <1>3, PostconditionsSound
<1>5. QED
  BY <1>2, <1>4, SoundTrans

-----------------------------------------------------------------------------
(* Accrual and the start of an instruction *)

\* The sign of a side is an integer.
LEMMA SignInt == ASSUME NEW s PROVE Sign(s) \in Int
  BY DEF Sign

\* The K index after a mark ...
LEMMA MarkedKInt ==
    ASSUME NEW e \in EngineType, NEW s \in Side, NEW price \in Int
    PROVE  MarkedK(e, s, price) \in Int
<1>1. e.side[s].coeff \in Int /\ e.side[s].mult \in Int /\ e.last_oracle_price \in Int
  BY EngineFields, SideFields
<1>2. Sign(s) * e.side[s].mult \in Int
  BY <1>1, SignInt, ProductInt
<1>3. price - e.last_oracle_price \in Int
  BY <1>1
<1>4. Sign(s) * e.side[s].mult * (price - e.last_oracle_price) \in Int
  BY <1>2, <1>3, ProductInt
<1>5. QED
  BY <1>1, <1>4 DEF MarkedK

\* ... and the F index after funding are integers.
LEMMA FundedFInt ==
    ASSUME NEW e \in EngineType, NEW s \in Side, NEW dt \in Int, NEW rate \in Int
    PROVE  FundedF(e, s, dt, rate) \in Int
<1>1. e.side[s].f \in Int /\ e.side[s].mult \in Int /\ e.last_oracle_price \in Int
  BY EngineFields, SideFields
<1>2. Sign(s) * e.side[s].mult \in Int
  BY <1>1, SignInt, ProductInt
<1>3. e.last_oracle_price * rate \in Int
  BY <1>1, ProductInt
<1>4. e.last_oracle_price * rate * dt \in Int
  BY <1>3, ProductInt
<1>5. Sign(s) * e.side[s].mult * (e.last_oracle_price * rate * dt) \in Int
  BY <1>2, <1>4, ProductInt
<1>6. QED
  BY <1>1, <1>5 DEF FundedF

\* accrue_market_to
LEMMA AccrueSound ==
    ASSUME NEW e, Good(e), NEW now \in Int, NEW price \in Int, NEW rate \in Int
    PROVE  /\ Sound(e, AccrueMarket(e, now, price, rate))
           /\ EqualOi(e, AccrueMarket(e, now, price, rate))
           /\ AccrueMarket(e, now, price, rate).ctx = e.ctx
<1>1. e \in EngineType /\ e.side \in [Side -> SideType] /\ e.last_market_slot \in Int
      /\ e.last_oracle_price \in Int
  BY EngineFields DEF Good
<1>2. PICK dt \in Int : dt = now - e.last_market_slot
  BY <1>1
<1>3. PICK k, f : /\ k = [s \in Side |-> MarkedK(e, s, price)]
                  /\ f = [s \in Side |-> FundedF(e, s, dt, rate)]
  OBVIOUS
<1>4. k \in [Side -> Int] /\ f \in [Side -> Int]
  BY <1>1, <1>3, MarkedKInt, FundedFInt
<1>5. PICK g : g = [s \in Side |-> [e.side[s] EXCEPT !.coeff = k[s], !.f = f[s]]]
  OBVIOUS
<1>6. ASSUME NEW s \in Side
      PROVE  /\ g[s] \in SideType /\ g[s].stored = e.side[s].stored
             /\ g[s].oi = e.side[s].oi /\ Renewed(e, s, g[s]) /\ Rebacked(e, s, g[s])
  <2>1. PICK o \in SideType, x \in Int, y \in Int : o = e.side[s] /\ x = k[s] /\ y = f[s]
    BY <1>1, <1>4
  <2>2. g[s] = [o EXCEPT !.coeff = x, !.f = y]
    BY <1>5, <2>1
  <2>3. g[s] \in SideType /\ g[s].dust = o.dust /\ o.dust \in Int
    BY <2>1, <2>2 DEF SideType
  <2>4. Undated(o, g[s])
    BY <2>1, <2>2, <2>3 DEF SideType, Undated
  <2>5. QED
    BY <1>1, <2>1, <2>3, <2>4, RenewedSame, RebackedSame DEF Undated
<1>7. g \in [Side -> SideType]
  BY <1>5, <1>6
<1>8. PICK h : h = [e EXCEPT !.side = g]
  OBVIOUS
<1>9. Sound(e, h) /\ Good(h) /\ h \in EngineType
  BY <1>6, <1>7, <1>8, SidesSound DEF Sound, Moved, Good
<1>10. PICK r : r = [h EXCEPT !.current_slot = now, !.last_market_slot = now, !.last_oracle_price = price]
  OBVIOUS
<1>11. Sound(e, r)
  BY <1>9, <1>10, ClockSound, SoundTrans
<1>12. PICK c : c = [e EXCEPT !.current_slot = now]
  OBVIOUS
<1>13. Sound(e, c)
  <2>1. c = [e EXCEPT !.current_slot = now, !.last_market_slot = e.last_market_slot,
                      !.last_oracle_price = e.last_oracle_price]
    BY <1>1, <1>12 DEF EngineType
  <2>2. QED
    BY <1>1, <2>1, ClockSound
<1>14. AccrueMarket(e, now, price, rate) \in {Reject(e), c, r}
  <2>1. r = [e EXCEPT !.side = [s \in Side |-> [e.side[s] EXCEPT !.coeff = MarkedK(e, s, price),
                                                 !.f = FundedF(e, s, dt, rate)]],
                      !.current_slot = now, !.last_market_slot = now, !.last_oracle_price = price]
    BY <1>1, <1>3, <1>5, <1>8, <1>10 DEF EngineType
  <2>2. QED
    BY <1>2, <1>12, <2>1 DEF AccrueMarket
<1>15. /\ EqualOi(e, Reject(e)) /\ EqualOi(e, c) /\ EqualOi(e, r)
       /\ Reject(e).ctx = e.ctx /\ c.ctx = e.ctx /\ r.ctx = e.ctx
  <2>1. c.side = e.side /\ r.side = g /\ c.ctx = e.ctx /\ r.ctx = e.ctx
    BY <1>1, <1>8, <1>9, <1>10, <1>12 DEF EngineType
  <2>2. QED
    BY <1>1, <1>6, <2>1, RejectSound DEF EqualOi
<1>16. QED
  BY <1>11, <1>13, <1>14, <1>15, SoundRefl, CheckSound

\* The start of a live instruction: nothing is touched yet.
LEMMA BeginSound ==
    ASSUME NEW e, Good(e), NEW now \in Int, NEW price \in Int, NEW rate \in Int,
           NEW pair \in Int \X Int, NEW f, f = Begin(e, now, price, rate, pair),
           Ok(e) /\ Epochs(e) /\ Covered(e) => Backed(e)
    PROVE  /\ Sound(e, f) /\ Tracked(f) /\ (Even(e) => Even(f))
           /\ Ok(f) => e.market_mode = "Live" /\ f.ctx.pending_reset = {}
<1>1. e \in EngineType
  BY DEF Good
<1>2. PICK c : c = Context(pair[1], pair[2])
  OBVIOUS
<1>3. c \in ContextType /\ c.touched = {} /\ c.pending_reset = {}
  BY <1>2 DEF Context, ContextType
<1>4. PICK g : g = [e EXCEPT !.ctx = c]
  OBVIOUS
<1>5. Sound(e, g) /\ Good(g)
  BY <1>3, <1>4, CtxBacked DEF Sound, Moved
<1>6. g.ctx = c
  BY <1>1, <1>4 DEF EngineType
<1>7. Tracked(g)
  BY <1>3, <1>6 DEF Tracked
<1>8. /\ Sound(g, AccrueMarket(g, now, price, rate)) /\ EqualOi(g, AccrueMarket(g, now, price, rate))
      /\ AccrueMarket(g, now, price, rate).ctx = g.ctx
  BY <1>5, AccrueSound
<1>9. f = Reject(e) \/ f = AccrueMarket(g, now, price, rate)
  BY <1>2, <1>4 DEF Begin
<1>10. Sound(e, Reject(e)) /\ Tracked(Reject(e)) /\ ~Ok(Reject(e))
  BY <1>1, RejectSound DEF Sound, Moved, Tracked
<1>11. Sound(e, f) /\ Tracked(f)
  BY <1>5, <1>7, <1>8, <1>9, <1>10, SoundTrans DEF Sound, Moved, Kept, Alike
<1>12. Ok(f) => e.market_mode = "Live" /\ f.ctx.pending_reset = {}
  BY <1>2, <1>3, <1>4, <1>6, <1>8, <1>10 DEF Begin
<1>13. Even(e) => Even(f)
  <2>1. g.side = e.side /\ Reject(e).side = e.side
    BY <1>1, <1>4, RejectSound DEF EngineType
  <2>2. QED
    BY <1>8, <1>9, <2>1 DEF EqualOi, Even, Side
<1>14. QED
  BY <1>11, <1>12, <1>13
-----------------------------------------------------------------------------
(* Liquidation *)

\* The fee parameters are naturals.
LEMMA FeeConsts ==
    /\ trading_fee_bps \in Nat /\ liquidation_fee_bps \in Nat /\ min_liquidation_abs \in Nat
    /\ liquidation_fee_cap \in Nat /\ min_initial_deposit \in Nat /\ MAX_VAULT_TVL \in Nat
    /\ max_accrual_dt_slots \in Nat
  BY EngineAssumption

\* A notional value is an integer, ...
LEMMA NotionalInt ==
    ASSUME NEW q \in Int, NEW price \in Int
    PROVE  NotionalOf(q, price) \in Int
<1>1. Abs(q) * price \in Int
  BY AbsNat, ProductInt
<1>2. QED
  BY <1>1, FloorInt, Consts DEF NotionalOf

\* ... and so is a liquidation fee.
LEMMA LiquidationFeeInt ==
    ASSUME NEW q \in Int, NEW price \in Int
    PROVE  LiquidationFee(q, price) \in Int
<1>1. PICK n \in Int : n = NotionalOf(q, price)
  BY NotionalInt
<1>2. n * liquidation_fee_bps \in Int
  BY FeeConsts, ProductInt
<1>3. CeilDiv(n * liquidation_fee_bps, BPS) \in Int
  BY <1>2, CeilInt, Consts
<1>4. QED
  BY <1>1, <1>3, FeeConsts DEF LiquidationFee, Lesser, Greater

\* The sizes of positions on one side, ...
LEMMA OnOneSide ==
    ASSUME NEW x \in Int, NEW y \in Int, x # 0, y = 0 \/ SideOf(y) = SideOf(x),
           NEW t \in Side
    PROVE  /\ SideOf(x) \in Side
           /\ OiComponent(t, x) = (IF t = SideOf(x) THEN Abs(x) ELSE 0)
           /\ OiComponent(t, y) = (IF t = SideOf(x) THEN Abs(y) ELSE 0)
<1>1. SideOf(x) \in Side
  BY SideOfSide
<1>2. OiComponent(t, x) = (IF t = SideOf(x) THEN Abs(x) ELSE 0)
  BY DEF OiComponent, Sign, Pos, SideOf, Abs, Side
<1>3. OiComponent(t, y) = (IF t = SideOf(x) THEN Abs(y) ELSE 0)
  <2>1. CASE y = 0
    BY <2>1 DEF OiComponent, Sign, Pos, Abs
  <2>2. CASE y # 0
    <3>1. SideOf(y) = SideOf(x)
      BY <2>2
    <3>2. OiComponent(t, y) = (IF t = SideOf(y) THEN Abs(y) ELSE 0)
      BY <2>2 DEF OiComponent, Sign, Pos, SideOf, Abs, Side
    <3>3. QED
      BY <3>1, <3>2
  <2>3. QED
    BY <2>1, <2>2
<1>4. QED
  BY <1>1, <1>2, <1>3

\* ... and what is left to cover when a position on side s is closed down.
LEMMA ClosedBacks ==
    ASSUME NEW e, Good(e), NEW i, Member(e, i), NEW eff \in Int, NEW new \in Int,
           eff = EffectivePos(e, i), eff # 0, new = 0 \/ SideOf(new) = SideOf(eff),
           NEW a, a = AttachPosition(e, i, new), NEW t \in Side, Backs(e.acc, t, e.side[t])
    PROVE  BacksWith(a.acc, t, a.side[t],
                     e.side[t].oi - (IF t = SideOf(eff) THEN Abs(eff) - Abs(new) ELSE 0))
<1>1. e \in EngineType /\ i \in Accounts
  BY DEF Good, Member
<1>2. PICK n \in Int : n = e.side[t].oi
  BY <1>1, EngineFields, SideFields
<1>3. PICK h, k : h = Portion(e, i, t) /\ k = OiComponent(t, new)
  OBVIOUS
<1>4. BacksWith(a.acc, t, a.side[t], (n - h) + k)
  <2>1. BacksWith(e.acc, t, e.side[t], n)
    BY <1>2 DEF Backs
  <2>2. QED
    BY <1>3, <2>1, AttachBacks
<1>5. h = OiComponent(t, eff)
  BY <1>1, <1>3, PortionEffective
<1>6. /\ h = (IF t = SideOf(eff) THEN Abs(eff) ELSE 0)
      /\ k = (IF t = SideOf(eff) THEN Abs(new) ELSE 0)
  BY <1>3, <1>5, OnOneSide
<1>7. PICK x \in Int, y \in Int : x = Abs(eff) /\ y = Abs(new)
  BY AbsNat
<1>8. (n - h) + k = n - (IF t = SideOf(eff) THEN x - y ELSE 0)
  BY <1>6, <1>7
<1>9. QED
  BY <1>2, <1>4, <1>7, <1>8

\* A close of a position, whole or in part, is complete once the open interest
\* has followed.
LEMMA CloseDownSound ==
    ASSUME NEW e, Good(e), NEW i, Member(e, i), NEW price \in Int, NEW eff \in Int, NEW new \in Int,
           eff = EffectivePos(e, i), eff # 0, new = 0 \/ SideOf(new) = SideOf(eff),
           NEW w, w = Abs(eff) - Abs(new), NEW c, c = CloseDown(e, i, price, eff, new)
    PROVE  /\ Written(e, c) /\ Member(c, i)
           /\ Ok(c) => Sound(e, OiLess(c, SideOf(eff), w))
<1>1. e \in EngineType /\ i \in Accounts /\ SideOf(eff) \in Side /\ w \in Int
  BY AbsNat, SideOfSide DEF Good, Member
<1>2. PICK s \in Side : s = SideOf(eff)
  BY <1>1
<1>3. PICK a : a = AttachPosition(e, i, new)
  OBVIOUS
<1>4. Written(e, a) /\ Replaced(e, a, i, new, EpochFor(e, new))
  BY <1>3, AttachWritten
<1>5. Good(a) /\ Member(a, i)
  BY <1>4, MemberWritten
<1>6. PICK g : g = SettleLosses(a, i)
  OBVIOUS
<1>7. Sound(a, g) /\ Steady(a, g, Accounts \ {i})
  BY <1>5, <1>6, SettleLossesSound, SettleLossesSteady
<1>8. Good(g) /\ Member(g, i)
  BY <1>5, <1>7, MemberKept
<1>9. PICK x : x = LiquidationFee(w, price)
  OBVIOUS
<1>10. x \in Int
  BY <1>1, <1>9, LiquidationFeeInt
<1>11. c = ChargeFee(g, i, x)
  BY <1>3, <1>6, <1>9 DEF CloseDown
<1>12. Sound(g, c) /\ Steady(g, c, Accounts \ {i})
  BY <1>8, <1>10, <1>11, ChargeFeeSound, ChargeFeeSteady, SteadyLess
<1>13. Sound(a, c) /\ Steady(a, c, Accounts \ {i})
  BY <1>7, <1>12, SoundTrans, SteadyTrans
<1>14. Written(e, c) /\ Member(c, i) /\ Good(c)
  BY <1>4, <1>5, <1>13, SoundDrafted, WrittenTrans, MemberKept
<1>15. PICK o : o = [c.side[s] EXCEPT !.oi = @ - w]
  OBVIOUS
<1>16. /\ o \in SideType /\ o.stored = c.side[s].stored /\ o.mode = c.side[s].mode
       /\ o.oi = c.side[s].oi - w /\ o.epoch = c.side[s].epoch /\ o.stale = c.side[s].stale
       /\ o.mult = c.side[s].mult /\ o.dust = c.side[s].dust
  <2>1. PICK u \in SideType : u = c.side[s]
    BY <1>14, EngineFields DEF Good
  <2>2. PICK z \in Int : z = u.oi - w
    BY <1>1, SideFields
  <2>3. o = [u EXCEPT !.oi = z]
    BY <1>15, <2>1, <2>2
  <2>4. QED
    BY <2>1, <2>2, <2>3 DEF SideType
<1>17. PICK l : l = OiLess(c, s, w)
  OBVIOUS
<1>18. l = [c EXCEPT !.side[s] = o]
  BY <1>14, <1>15, <1>17 DEF OiLess, Good, EngineType
<1>19. /\ Drafted(c, l) /\ l.acc = c.acc /\ l.ctx = c.ctx
       /\ \A t \in Side : l.side[t] = IF t = s THEN o ELSE c.side[t]
  <2>1. Drafted(c, l)
    BY <1>14, <1>16, <1>18, OneSideDrafted
  <2>2. QED
    BY <1>14, <1>18, <2>1 DEF Good, EngineType
<1>20. Written(e, l) /\ (Ok(l) => Ok(c) /\ Ok(e)) /\ l.market_mode = e.market_mode
  BY <1>14, <1>19, WrittenTrans DEF Drafted, Written, Alike
<1>21. ~Flat(e)
  <2>1. SideOf(e.acc[i].position_basis_q) # "None"
    BY DEF EffectivePos
  <2>2. e.acc[i].position_basis_q # 0
    BY <2>1 DEF SideOf
  <2>3. QED
    BY <1>1, <2>2 DEF Flat
<1>22. ASSUME Ok(l), Epochs(e) PROVE Epochs(l)
  <2>1. /\ InStep(e, i) /\ e.side[s].mode # "ResetPending"
        /\ \A t \in Side : SideOf(new) = t => e.side[t].mode # "ResetPending"
    BY <1>1, <1>2, <1>22, EffectiveInStep
  <2>2. Epochs(a)
    BY <1>3, <1>22, <2>1, AttachEpochs
  <2>3. Epochs(c)
    BY <1>13, <1>20, <1>22, <2>2 DEF Sound, Moved, Kept
  <2>4. c.side[s].mode # "ResetPending"
    BY <1>4, <1>13, <2>1 DEF Replaced, Steady
  <2>5. QED
    BY <1>16, <1>19, <2>3, <2>4 DEF Epochs, Aged, OfEpoch, Age
<1>23. ASSUME Covered(e) PROVE Covered(l)
  <2> SUFFICES ASSUME l.market_mode = "Live", NEW t \in Side
               PROVE  l.side[t].dust >= 0 /\ (Pending(l, t) \/ Backs(l.acc, t, l.side[t]))
    BY DEF Covered
  <2>1. e.side[t].dust >= 0 /\ (Pending(e, t) \/ Backs(e.acc, t, e.side[t]))
    BY <1>20, <1>23 DEF Covered
  <2>2. /\ l.side[t].epoch = a.side[t].epoch /\ l.side[t].mult = a.side[t].mult
        /\ l.side[t].dust = a.side[t].dust
        /\ l.side[t].oi = IF t = s THEN a.side[t].oi - w ELSE a.side[t].oi
    BY <1>13, <1>16, <1>19 DEF Steady
  <2>3. a.side[t].oi = e.side[t].oi /\ a.side[t].dust >= e.side[t].dust
    BY <1>4 DEF Replaced
  <2>4. l.side[t].dust >= 0
    BY <1>1, <1>5, <2>1, <2>2, <2>3, EngineFields, SideFields DEF Good
  <2>5. Pending(e, t) => Pending(l, t)
    BY <1>4, <1>13, <1>19 DEF Replaced, Steady, Pending
  <2>6. ASSUME Backs(e.acc, t, e.side[t]) PROVE Backs(l.acc, t, l.side[t])
    <3>1. BacksWith(a.acc, t, a.side[t], e.side[t].oi - (IF t = s THEN w ELSE 0))
      BY <1>2, <1>3, <2>6, ClosedBacks
    <3>2. SamePositions(a.acc, l.acc)
      BY <1>13, <1>19 DEF Steady
    <3>3. BacksWith(l.acc, t, l.side[t], e.side[t].oi - (IF t = s THEN w ELSE 0))
      BY <2>2, <3>1, <3>2, BacksWithSame
    <3>4. e.side[t].oi \in Int
      BY <1>1, EngineFields, SideFields
    <3>5. l.side[t].oi = e.side[t].oi - (IF t = s THEN w ELSE 0)
      BY <1>1, <2>2, <2>3, <3>4
    <3>6. QED
      BY <3>3, <3>5 DEF Backs
  <2>7. QED
    BY <2>1, <2>4, <2>5, <2>6
<1>24. Sound(e, l)
  BY <1>20, <1>21, <1>22, <1>23 DEF Written, Sound, Moved, Kept
<1>25. QED
  BY <1>2, <1>14, <1>17, <1>24

\* liquidate, partially
LEMMA LiquidatePartialSound ==
    ASSUME NEW e, Good(e), NEW i, Member(e, i), NEW price \in Int, NEW q \in Nat,
           NEW eff \in Int, eff # 0, eff = EffectivePos(e, i)
    PROVE  Sound(e, LiquidatePartial(e, i, price, q, eff))
<1>1. PICK new : new = Sign(SideOf(eff)) * (Abs(eff) - q)
  OBVIOUS
<1>2. new \in Int
  <2>1. Abs(eff) - q \in Int
    BY AbsNat
  <2>2. QED
    BY <1>1, <2>1, SignInt, ProductInt
<1>3. CASE q = 0 \/ q >= Abs(eff)
  <2>1. LiquidatePartial(e, i, price, q, eff) = Reject(e)
    BY <1>3 DEF LiquidatePartial
  <2>2. QED
    BY <2>1, SoundRefl, CheckSound
<1>4. CASE ~(q = 0 \/ q >= Abs(eff))
  <2>1. SideOf(new) = SideOf(eff) /\ q = Abs(eff) - Abs(new)
    <3>1. PICK x \in Int : x = Abs(eff) - q /\ x > 0
      BY <1>4, AbsNat
    <3>2. new = IF eff > 0 THEN x ELSE -x
      BY <1>1, <3>1 DEF Sign, SideOf
    <3>3. Abs(new) = x
      BY <3>1, <3>2 DEF Abs
    <3>4. q = Abs(eff) - x
      BY <3>1, AbsNat
    <3>5. QED
      BY <3>1, <3>2, <3>3, <3>4 DEF SideOf
  <2>2. PICK f : f = CloseDown(e, i, price, eff, new)
    OBVIOUS
  <2>3. Written(e, f) /\ Member(f, i) /\ (Ok(f) => Sound(e, OiLess(f, SideOf(eff), q)))
    BY <1>2, <2>1, <2>2, CloseDownSound
  <2>4. PICK g : g = EnqueueAdl(f, SideOf(eff), q, 0)
    OBVIOUS
  <2>5. Sound(e, g)
    <3>1. SideOf(eff) \in Side
      BY SideOfSide
    <3>2. Ok(f) => f.used # {}
      BY <2>3 DEF Member
    <3>3. QED
      BY <2>3, <2>4, <3>1, <3>2, EnqueueAdlSound
  <2>6. LiquidatePartial(e, i, price, q, eff) \in {g, Reject(g)}
    BY <1>1, <1>4, <2>2, <2>4 DEF LiquidatePartial, HealthRestored, RejectUnless
  <2>7. QED
    BY <2>5, <2>6, CheckSound
<1>5. QED
  BY <1>3, <1>4

\* The deficit of a full close, through the insurance fund and the other side.
LEMMA DeficitSpreadSound ==
    ASSUME NEW e, NEW i, Member(e, i), NEW c, Written(e, c), NEW s \in Side, NEW q \in Nat,
           Ok(c) => Sound(e, OiLess(c, s, q))
    PROVE  Sound(e, DeficitSpread(c, i, s, q))
<1>1. PICK d : d = Pos(-c.acc[i].pnl)
  OBVIOUS
<1>2. d \in Int
  <2>1. -c.acc[i].pnl \in Int
    BY EngineFields, AccountFields DEF Written, Good, Member
  <2>2. QED
    BY <1>1, <2>1, PosInt
<1>3. PICK f : f = EnqueueAdl(c, s, q, d)
  OBVIOUS
<1>4. Sound(e, f)
  <2>1. Ok(c) => c.used # {}
    BY MemberWritten DEF Member
  <2>2. QED
    BY <1>2, <1>3, <2>1, EnqueueAdlSound
<1>5. Good(f) /\ Member(f, i)
  BY <1>4, MemberKept
<1>6. Sound(f, SetPnl(f, i, 0, "None"))
  BY <1>5, SetPnlSound
<1>7. DeficitSpread(c, i, s, q) \in {f, SetPnl(f, i, 0, "None")}
  BY <1>1, <1>3 DEF DeficitSpread
<1>8. QED
  BY <1>4, <1>6, <1>7, SoundTrans

\* liquidate, fully
LEMMA LiquidateFullSound ==
    ASSUME NEW e, Good(e), NEW i, Member(e, i), NEW price \in Int, NEW eff \in Int, eff # 0,
           eff = EffectivePos(e, i)
    PROVE  Sound(e, LiquidateFull(e, i, price, eff))
<1>1. PICK f : f = CloseDown(e, i, price, eff, 0)
  OBVIOUS
<1>2. SideOf(eff) \in Side /\ Abs(eff) \in Nat /\ Abs(eff) = Abs(eff) - Abs(0)
  BY SideOfSide, AbsNat DEF Abs
<1>3. Written(e, f) /\ (Ok(f) => Sound(e, OiLess(f, SideOf(eff), Abs(eff))))
  BY <1>1, <1>2, CloseDownSound
<1>4. LiquidateFull(e, i, price, eff) = DeficitSpread(f, i, SideOf(eff), Abs(eff))
  BY <1>1 DEF LiquidateFull
<1>5. QED
  BY <1>2, <1>3, <1>4, DeficitSpreadSound

\* liquidate_at_oracle_internal
LEMMA LiquidateTouchedSound ==
    ASSUME NEW e, Good(e), NEW i, Member(e, i), NEW price \in Int, NEW policy, policy.q \in Nat
    PROVE  Sound(e, LiquidateTouched(e, i, price, policy))
<1>1. CASE ~Ok(e) \/ ~Liquidatable(e, i, price)
  <2>1. LiquidateTouched(e, i, price, policy) = e
    BY <1>1 DEF LiquidateTouched
  <2>2. QED
    BY <2>1, SoundRefl
<1>2. CASE Ok(e) /\ Liquidatable(e, i, price)
  <2>1. PICK eff \in Int : eff = EffectivePos(e, i)
    BY EffectivePosInt DEF Good, Member
  <2>2. eff # 0
    BY <1>2, <2>1 DEF Liquidatable
  <2>3. PICK q \in Nat : q = policy.q
    OBVIOUS
  <2>4. Sound(e, LiquidateFull(e, i, price, eff)) /\ Sound(e, LiquidatePartial(e, i, price, q, eff))
    BY <2>1, <2>2, LiquidateFullSound, LiquidatePartialSound
  <2>5. LiquidateTouched(e, i, price, policy)
          \in {LiquidateFull(e, i, price, eff), LiquidatePartial(e, i, price, q, eff)}
    BY <1>2, <2>1, <2>3 DEF LiquidateTouched
  <2>6. QED
    BY <2>4, <2>5
<1>3. QED
  BY <1>1, <1>2

-----------------------------------------------------------------------------
(* Trade *)

TermsType ==
    [who : Accounts \X Accounts, price : Int, fee : Int, olds : Int \X Int, news : Int \X Int,
     gains : Int \X Int, pre : Int \X Int]

\* The fields of a trade's terms.
LEMMA TermsFields ==
    ASSUME NEW t \in TermsType
    PROVE  /\ t.who[1] \in Accounts /\ t.who[2] \in Accounts /\ t.fee \in Int
           /\ t.olds[1] \in Int /\ t.olds[2] \in Int /\ t.news[1] \in Int /\ t.news[2] \in Int
           /\ t.gains[1] \in Int /\ t.gains[2] \in Int
  BY DEF TermsType

\* The open interest a trade would leave is an integer.
LEMMA OiAfterInt ==
    ASSUME NEW e \in EngineType, NEW s \in Side, NEW t \in TermsType
    PROVE  OiAfter(e, s, t.olds, t.news) \in Int
<1>1. \A q \in Int : OiComponent(s, q) \in Int
  BY SignInt, ProductInt, PosInt DEF OiComponent
<1>2. e.side[s].oi \in Int
  BY EngineFields, SideFields
<1>3. QED
  BY <1>1, <1>2, TermsFields DEF OiAfter, OiBefore

\* What passes a check is what was checked.
LEMMA CheckPassed ==
    ASSUME NEW e \in EngineType, NEW c, NEW f, f = RejectUnless(e, c) \/ f = CorruptUnless(e, c)
    PROVE  f.side = e.side /\ (Ok(f) => f = e /\ c)
<1>1. CASE c \/ ~Ok(e)
  BY <1>1 DEF RejectUnless, CorruptUnless
<1>2. CASE ~c /\ Ok(e)
  <2>1. f = Reject(e) \/ f = Corrupt(e)
    BY <1>2 DEF RejectUnless, CorruptUnless
  <2>2. /\ Reject(e).side = e.side /\ ~Ok(Reject(e))
        /\ Corrupt(e).side = e.side /\ ~Ok(Corrupt(e))
    BY RejectSound, CorruptSound
  <2>3. QED
    BY <2>1, <2>2
<1>3. QED
  BY <1>1, <1>2

\* bilateral_oi_after and the gates of a trade
LEMMA TradeGatesSound ==
    ASSUME NEW e, Good(e), NEW olds, NEW news
    PROVE  /\ Sound(e, TradeGates(e, olds, news))
           /\ TradeGates(e, olds, news).side = e.side
           /\ Ok(TradeGates(e, olds, news)) => TradeGates(e, olds, news) = e
           /\ Ok(TradeGates(e, olds, news)) =>
                  \A s \in Side : OiBefore(s, olds) <= e.side[s].oi /\ SideAllows(e, s, olds, news)
<1>1. PICK f1 : f1 = RejectUnless(e, \A j \in 1..2 : Abs(news[j]) <= MAX_POSITION_ABS_Q)
  OBVIOUS
<1>2. PICK f2 : f2 = CorruptUnless(f1, \A s \in Side : OiBefore(s, olds) <= e.side[s].oi)
  OBVIOUS
<1>3. PICK f3 : f3 = RejectUnless(f2, \A s \in Side : /\ OiAfter(e, s, olds, news) <= MAX_OI_SIDE_Q
                                                      /\ SideAllows(e, s, olds, news))
  OBVIOUS
<1>4. PICK f4 : f4 = CorruptUnless(f3, \A s \in Side :
                        e.side[s].stored + CountOn(s, news) - CountOn(s, olds) >= 0)
  OBVIOUS
<1>5. PICK f5 : f5 = RejectUnless(f4, \A s \in Side :
                        e.side[s].stored + CountOn(s, news) - CountOn(s, olds)
                            <= max_active_positions_per_side)
  OBVIOUS
<1>6. TradeGates(e, olds, news) = f5
  BY <1>1, <1>2, <1>3, <1>4, <1>5 DEF TradeGates
<1>7. Sound(e, f1)
  BY <1>1, SoundRefl, CheckSound DEF RejectUnless
<1>8. Sound(e, f2)
  BY <1>2, <1>7, CheckSound DEF CorruptUnless
<1>9. Sound(e, f3)
  BY <1>3, <1>8, CheckSound DEF RejectUnless
<1>10. Sound(e, f4)
  BY <1>4, <1>9, CheckSound DEF CorruptUnless
<1>11. Sound(e, f5)
  BY <1>5, <1>10, CheckSound DEF RejectUnless
<1>12. {e, f1, f2, f3, f4} \subseteq EngineType
  BY <1>7, <1>8, <1>9, <1>10 DEF Sound, Moved, Good
<1>13. f5.side = e.side
  <2>1. f1.side = e.side
    BY <1>1, <1>12, CheckPassed
  <2>2. f2.side = f1.side
    BY <1>2, <1>12, CheckPassed
  <2>3. f3.side = f2.side
    BY <1>3, <1>12, CheckPassed
  <2>4. f4.side = f3.side
    BY <1>4, <1>12, CheckPassed
  <2>5. f5.side = f4.side
    BY <1>5, <1>12, CheckPassed
  <2>6. QED
    BY <2>1, <2>2, <2>3, <2>4, <2>5
<1>14. ASSUME Ok(f5)
       PROVE  \A s \in Side : OiBefore(s, olds) <= e.side[s].oi /\ SideAllows(e, s, olds, news)
  <2>1. Ok(f4)
    BY <1>5, <1>12, <1>14, CheckPassed
  <2>2. Ok(f3)
    BY <1>4, <1>12, <2>1, CheckPassed
  <2>3. Ok(f2) /\ \A s \in Side : SideAllows(e, s, olds, news)
    BY <1>3, <1>12, <2>2, CheckPassed
  <2>4. \A s \in Side : OiBefore(s, olds) <= e.side[s].oi
    BY <1>2, <1>12, <2>3, CheckPassed
  <2>5. QED
    BY <2>3, <2>4
<1>15. ASSUME Ok(f5) PROVE f5 = e
  <2>1. f5 = f4 /\ Ok(f4)
    BY <1>5, <1>12, <1>15, CheckPassed
  <2>2. f4 = f3 /\ Ok(f3)
    BY <1>4, <1>12, <2>1, CheckPassed
  <2>3. f3 = f2 /\ Ok(f2)
    BY <1>3, <1>12, <2>2, CheckPassed
  <2>4. f2 = f1 /\ Ok(f1)
    BY <1>2, <1>12, <2>3, CheckPassed
  <2>5. f1 = e
    BY <1>1, <1>12, <2>4, CheckPassed
  <2>6. QED
    BY <2>1, <2>2, <2>3, <2>4, <2>5
<1>16. QED
  BY <1>6, <1>11, <1>13, <1>14, <1>15

\* Neither side waits for a reset.
NoneWaits(e) == \A s \in Side : e.side[s].mode # "ResetPending"

\* No trade passes the gates while a side waits: nobody has open interest
\* then, so the trade would open some on both sides.
LEMMA GatesNoneWait ==
    ASSUME NEW e \in EngineType, Even(e), \A s \in Side : Aged(e.side[s]),
           NEW size \in Int, size > 0, NEW x \in Int, NEW y \in Int, NEW olds, NEW news,
           olds = <<x, y>>, news = <<x + size, y - size>>,
           \A s \in Side : OiBefore(s, olds) <= e.side[s].oi /\ SideAllows(e, s, olds, news)
    PROVE  NoneWaits(e)
<1>1. SUFFICES ASSUME NEW s \in Side, e.side[s].mode = "ResetPending"
               PROVE  FALSE
  BY DEF NoneWaits
<1>2. "Long" \in Side /\ "Short" \in Side /\ e.side[s].oi = 0
  BY <1>1 DEF Side, Aged
<1>3. e.side["Long"].oi = 0 /\ e.side["Short"].oi = 0
  BY <1>2 DEF Even, Side
<1>4. \A q \in Int : OiComponent("Long", q) = Pos(q) /\ OiComponent("Short", q) = Pos(-q)
  BY DEF OiComponent, Sign
<1>5. /\ OiBefore("Long", olds) = Pos(x) + Pos(y)
      /\ OiBefore("Short", olds) = Pos(-x) + Pos(-y)
  BY <1>4 DEF OiBefore
<1>6. x = 0 /\ y = 0
  <2>1. Pos(x) + Pos(y) <= 0 /\ Pos(-x) + Pos(-y) <= 0
    BY <1>2, <1>3, <1>5
  <2>2. QED
    BY <2>1 DEF Pos
<1>7. news = <<size, -size>> /\ -size \in Int
  BY <1>6
<1>8. /\ OiBefore("Long", olds) = 0 /\ OiBefore("Short", olds) = 0
      /\ OiComponent("Long", size) = size /\ OiComponent("Long", -size) = 0
      /\ OiComponent("Short", size) = 0 /\ OiComponent("Short", -size) = size
  BY <1>4, <1>5, <1>6, <1>7 DEF Pos
<1>9. OiAfter(e, "Long", olds, news) = size /\ OiAfter(e, "Short", olds, news) = size
  BY <1>3, <1>7, <1>8 DEF OiAfter
<1>10. OiAfter(e, s, olds, news) <= 0
  BY <1>1, <1>2 DEF SideAllows
<1>11. QED
  BY <1>9, <1>10 DEF Side

\* The slippage of a trade, booked to both parties.
LEMMA TradePnlSound ==
    ASSUME NEW e, Good(e), NEW t \in TermsType, Member(e, t.who[1]), Member(e, t.who[2])
    PROVE  Sound(e, TradePnlSet(e, t)) /\ Steady(e, TradePnlSet(e, t), {})
<1>1. PICK a, b, x, y : /\ a = t.who[1] /\ b = t.who[2] /\ x = e.acc[a].pnl + t.gains[1]
                        /\ y = e.acc[b].pnl + t.gains[2]
  OBVIOUS
<1>2. Member(e, a) /\ Member(e, b) /\ x \in Int /\ y \in Int
  BY <1>1, EngineFields, AccountFields, TermsFields DEF Good
<1>3. PICK f : f = SetPnl(e, a, x, "Admit")
  OBVIOUS
<1>4. Sound(e, f)
  BY <1>2, <1>3, SetPnlSound
<1>5. Good(f) /\ Member(f, b)
  BY <1>2, <1>4, MemberKept
<1>6. TradePnlSet(e, t) = SetPnl(f, b, y, "Admit")
  BY <1>1, <1>3 DEF TradePnlSet
<1>7. Steady(e, f, {}) /\ Steady(f, SetPnl(f, b, y, "Admit"), {})
  <2>1. Steady(e, f, Accounts \ {a}) /\ Steady(f, SetPnl(f, b, y, "Admit"), Accounts \ {b})
    BY <1>2, <1>3, <1>5, SetPnlSteady
  <2>2. QED
    BY <2>1 DEF Steady
<1>8. QED
  BY <1>2, <1>4, <1>5, <1>6, <1>7, SetPnlSound, SoundTrans, SteadyTrans

\* New open interest on both sides.
OiSet(e, n) == [e EXCEPT !.side = [s \in Side |-> [e.side[s] EXCEPT !.oi = n[s]]]]

\* The open interest of both sides is written.
LEMMA OiSetDrafted ==
    ASSUME NEW e, Good(e), NEW n \in [Side -> Int]
    PROVE  /\ Drafted(e, OiSet(e, n))
           /\ Epochs(e) /\ NoneWaits(e) => Epochs(OiSet(e, n))
           /\ OiSet(e, n).acc = e.acc /\ OiSet(e, n).ctx = e.ctx
           /\ \A s \in Side :
                 /\ OiSet(e, n).side[s].epoch = e.side[s].epoch
                 /\ OiSet(e, n).side[s].mult = e.side[s].mult
                 /\ OiSet(e, n).side[s].dust = e.side[s].dust /\ OiSet(e, n).side[s].oi = n[s]
<1>1. e \in EngineType /\ e.side \in [Side -> SideType]
  BY EngineFields DEF Good
<1>2. PICK g : g = [s \in Side |-> [e.side[s] EXCEPT !.oi = n[s]]]
  OBVIOUS
<1>3. ASSUME NEW s \in Side
      PROVE  /\ g[s] \in SideType /\ g[s].stored = e.side[s].stored
             /\ g[s].mode = e.side[s].mode /\ g[s].epoch = e.side[s].epoch
             /\ g[s].stale = e.side[s].stale /\ g[s].mult = e.side[s].mult
             /\ g[s].dust = e.side[s].dust /\ g[s].oi = n[s]
  <2>1. PICK o \in SideType, z \in Int : o = e.side[s] /\ z = n[s]
    BY <1>1
  <2>2. g[s] = [o EXCEPT !.oi = z]
    BY <1>2, <2>1
  <2>3. QED
    BY <2>1, <2>2 DEF SideType
<1>4. g \in [Side -> SideType]
  BY <1>2, <1>3
<1>5. OiSet(e, n) = [e EXCEPT !.side = g]
  BY <1>2 DEF OiSet
<1>6. Drafted(e, OiSet(e, n)) /\ OiSet(e, n).side = g /\ OiSet(e, n).acc = e.acc
  BY <1>3, <1>4, <1>5, SidesDrafted
<1>7. ASSUME Epochs(e), NoneWaits(e) PROVE Epochs(OiSet(e, n))
  BY <1>3, <1>6, <1>7 DEF Epochs, NoneWaits, Aged, OfEpoch, Age
<1>8. OiSet(e, n).ctx = e.ctx
  BY <1>1, <1>5 DEF EngineType
<1>9. QED
  BY <1>3, <1>6, <1>7, <1>8

\* A position attached while no side waits.
LEMMA AttachNoneWait ==
    ASSUME NEW e, Good(e), NEW i, Member(e, i), NEW q \in Int, Epochs(e), NoneWaits(e)
    PROVE  Epochs(AttachPosition(e, i, q)) /\ NoneWaits(AttachPosition(e, i, q))
<1>1. PICK f : f = AttachPosition(e, i, q)
  OBVIOUS
<1>2. Replaced(e, f, i, q, EpochFor(e, q)) /\ i \in Accounts
  BY <1>1, AttachWritten DEF Member
<1>3. \A s \in Side : SideOf(q) = s => EpochFor(e, q) = e.side[s].epoch
  BY DEF EpochFor, SideOf, Side
<1>4. Epochs(f)
  BY <1>2, <1>3, EpochsReplaced DEF NoneWaits, InStep
<1>5. NoneWaits(f)
  BY <1>2 DEF NoneWaits, Replaced
<1>6. QED
  BY <1>1, <1>4, <1>5

\* The old positions of a trade's terms are what its parties hold.
TermsOf(e, t) ==
    \A s \in Side : /\ OiComponent(s, t.olds[1]) = Portion(e, t.who[1], s)
                     /\ OiComponent(s, t.olds[2]) = Portion(e, t.who[2], s)

\* The open interest after a trade is what covers the positions after it.
LEMMA TradedBacks ==
    ASSUME NEW e, Good(e), NEW t \in TermsType, t.who[1] # t.who[2], Member(e, t.who[1]),
           Member(e, t.who[2]), TermsOf(e, t),
           NEW f, f = AttachPosition(e, t.who[1], t.news[1]),
           NEW g, g = AttachPosition(f, t.who[2], t.news[2]),
           NEW s \in Side, Backs(e.acc, s, e.side[s])
    PROVE  BacksWith(g.acc, s, g.side[s], OiAfter(e, s, t.olds, t.news))
<1>1. PICK a, b, x, y : a = t.who[1] /\ b = t.who[2] /\ x = t.news[1] /\ y = t.news[2]
  OBVIOUS
<1>2. Member(e, a) /\ Member(e, b) /\ x \in Int /\ y \in Int /\ a # b
  BY <1>1, TermsFields
<1>3. e \in EngineType /\ a \in Accounts /\ b \in Accounts
  BY <1>2 DEF Good, Member
<1>4. PICK n \in Int : n = e.side[s].oi
  BY <1>3, EngineFields, SideFields
<1>5. PICK h, k : h = Portion(e, a, s) /\ k = OiComponent(s, x)
  OBVIOUS
<1>6. BacksWith(f.acc, s, f.side[s], (n - h) + k) /\ h \in Nat /\ k \in Nat
  <2>1. BacksWith(e.acc, s, e.side[s], n)
    BY <1>4 DEF Backs
  <2>2. QED
    BY <1>1, <1>2, <1>5, <2>1, AttachBacks
<1>7. Written(e, f) /\ Replaced(e, f, a, x, EpochFor(e, x))
  BY <1>1, <1>2, AttachWritten
<1>8. Good(f) /\ Member(f, b)
  BY <1>2, <1>7, MemberWritten
<1>9. PICK m \in Int : m = (n - h) + k
  BY <1>6
<1>10. PICK u, v : u = Portion(f, b, s) /\ v = OiComponent(s, y)
  OBVIOUS
<1>11. BacksWith(g.acc, s, g.side[s], (m - u) + v) /\ u \in Nat /\ v \in Nat
  <2>1. BacksWith(f.acc, s, f.side[s], m)
    BY <1>6, <1>9
  <2>2. QED
    BY <1>1, <1>2, <1>8, <1>10, <2>1, AttachBacks
<1>12. u = Portion(e, b, s)
  BY <1>2, <1>3, <1>7, <1>8, <1>10, PortionOther DEF Good
<1>13. h = OiComponent(s, t.olds[1]) /\ u = OiComponent(s, t.olds[2])
  BY <1>1, <1>5, <1>12 DEF TermsOf
<1>14. OiAfter(e, s, t.olds, t.news) = (n - (h + u)) + k + v
  BY <1>1, <1>4, <1>5, <1>10, <1>13 DEF OiAfter, OiBefore
<1>15. (m - u) + v = (n - (h + u)) + k + v
  BY <1>6, <1>9, <1>11
<1>16. QED
  BY <1>11, <1>14, <1>15

\* Both positions of a trade are attached.
LEMMA TradeAttachedTraded ==
    ASSUME NEW e, Good(e), NEW t \in TermsType, Member(e, t.who[1]), Member(e, t.who[2]),
           t.who[1] # t.who[2], Ok(e) => TermsOf(e, t), Ok(e) /\ Epochs(e) => NoneWaits(e)
    PROVE  Traded(e, TradeAttached(e, t))
<1>1. PICK a, b, x, y : a = t.who[1] /\ b = t.who[2] /\ x = t.news[1] /\ y = t.news[2]
  OBVIOUS
<1>2. Member(e, a) /\ Member(e, b) /\ x \in Int /\ y \in Int
  BY <1>1, TermsFields
<1>3. PICK f : f = AttachPosition(e, a, x)
  OBVIOUS
<1>4. Written(e, f)
  BY <1>2, <1>3, AttachWritten
<1>5. Good(f) /\ Member(f, b)
  BY <1>2, <1>4, MemberWritten
<1>6. PICK g : g = AttachPosition(f, b, y)
  OBVIOUS
<1>7. Written(e, g) /\ Good(g)
  <2>1. Written(f, g)
    BY <1>2, <1>5, <1>6, AttachWritten
  <2>2. QED
    BY <1>4, <2>1, WrittenTrans DEF Written
<1>8. PICK n : n = [s \in Side |-> OiAfter(e, s, t.olds, t.news)]
  OBVIOUS
<1>9. n \in [Side -> Int]
  BY <1>8, OiAfterInt DEF Good
<1>10. PICK h : h = OiSet(g, n)
  OBVIOUS
<1>11. TradeAttached(e, t) = h
  BY <1>1, <1>3, <1>6, <1>8, <1>10 DEF TradeAttached, OiSet
<1>12. /\ Written(e, h) /\ (Epochs(g) /\ NoneWaits(g) => Epochs(h))
       /\ h.acc = g.acc /\ h.ctx = g.ctx
       /\ \A s \in Side : /\ h.side[s].epoch = g.side[s].epoch /\ h.side[s].mult = g.side[s].mult
                           /\ h.side[s].dust = g.side[s].dust
                           /\ h.side[s].oi = OiAfter(e, s, t.olds, t.news)
  BY <1>7, <1>8, <1>9, <1>10, OiSetDrafted, WrittenTrans DEF Drafted
<1>13. ASSUME Ok(h), Epochs(e) PROVE Epochs(h)
  <2>1. NoneWaits(e)
    BY <1>12, <1>13 DEF Written, Alike
  <2>2. Epochs(f) /\ NoneWaits(f)
    BY <1>2, <1>3, <1>13, <2>1, AttachNoneWait
  <2>3. Epochs(g) /\ NoneWaits(g)
    BY <1>2, <1>5, <1>6, <2>2, AttachNoneWait
  <2>4. QED
    BY <1>12, <2>3
<1>14. ASSUME Ok(h), Covered(e) PROVE Covered(h)
  <2> SUFFICES ASSUME h.market_mode = "Live", NEW s \in Side
               PROVE  h.side[s].dust >= 0 /\ (Pending(h, s) \/ Backs(h.acc, s, h.side[s]))
    BY DEF Covered
  <2>1. Ok(e) /\ e.market_mode = "Live"
    BY <1>12, <1>14 DEF Written, Alike
  <2>2. e.side[s].dust >= 0 /\ (Pending(e, s) \/ Backs(e.acc, s, e.side[s]))
    BY <1>14, <2>1 DEF Covered
  <2>3. Replaced(e, f, a, x, EpochFor(e, x)) /\ Replaced(f, g, b, y, EpochFor(f, y))
    BY <1>2, <1>3, <1>5, <1>6, AttachWritten
  <2>4. g.side[s].dust >= f.side[s].dust /\ f.side[s].dust >= e.side[s].dust
    BY <2>3 DEF Replaced
  <2>5. h.side[s].dust >= 0
    BY <1>5, <1>7, <1>12, <2>2, <2>4, EngineFields, SideFields DEF Good
  <2>6. Pending(e, s) => Pending(h, s)
    BY <1>12, <2>3 DEF Replaced, Pending
  <2>7. ASSUME Backs(e.acc, s, e.side[s]) PROVE Backs(h.acc, s, h.side[s])
    <3>1. BacksWith(g.acc, s, g.side[s], OiAfter(e, s, t.olds, t.news))
      BY <1>1, <1>3, <1>6, <2>1, <2>7, TradedBacks
    <3>2. QED
      BY <1>12, <3>1 DEF Backs, BacksWith
  <2>8. QED
    BY <2>2, <2>5, <2>6, <2>7
<1>15. QED
  BY <1>11, <1>12, <1>13, <1>14 DEF Written, Traded, Kept

\* The fees of a trade.
LEMMA TradeFeesSound ==
    ASSUME NEW e, Good(e), NEW t \in TermsType, Member(e, t.who[1]), Member(e, t.who[2])
    PROVE  Sound(e, TradeFees(e, t))
<1>1. PICK a, b, x : a = t.who[1] /\ b = t.who[2] /\ x = t.fee
  OBVIOUS
<1>2. Member(e, a) /\ Member(e, b) /\ x \in Int
  BY <1>1, TermsFields
<1>3. PICK f : f = ChargeFee(e, a, x)
  OBVIOUS
<1>4. Sound(e, f)
  BY <1>2, <1>3, ChargeFeeSound
<1>5. Good(f) /\ Member(f, b)
  BY <1>2, <1>4, MemberKept
<1>6. PICK g : g = ChargeFee(f, b, x)
  OBVIOUS
<1>7. Sound(e, g)
  BY <1>2, <1>4, <1>5, <1>6, ChargeFeeSound, SoundTrans
<1>8. TradeFees(e, t) \in {g, Reject(g)}
  BY <1>1, <1>3, <1>6 DEF TradeFees, TradeChecked, RejectUnless
<1>9. QED
  BY <1>7, <1>8, CheckSound

\* A trade whose gates are open, booked.
LEMMA TradeBookedTraded ==
    ASSUME NEW e, Good(e), NEW t \in TermsType, Member(e, t.who[1]), Member(e, t.who[2]),
           t.who[1] # t.who[2], Ok(e) => TermsOf(e, t), Ok(e) /\ Epochs(e) => NoneWaits(e)
    PROVE  Traded(e, TradeBooked(e, t))
<1>1. PICK a, b : a = t.who[1] /\ b = t.who[2]
  OBVIOUS
<1>2. PICK f : f = TradeAttached(e, t)
  OBVIOUS
<1>3. Traded(e, f) /\ Good(f) /\ Member(f, a) /\ Member(f, b)
  BY <1>1, <1>2, TradeAttachedTraded, MemberTraded
<1>4. PICK g : g = SettleLosses(f, a)
  OBVIOUS
<1>5. Sound(f, g) /\ Good(g) /\ Member(g, a) /\ Member(g, b)
  BY <1>3, <1>4, SettleLossesSound, MemberKept
<1>6. PICK h : h = SettleLosses(g, b)
  OBVIOUS
<1>7. Sound(g, h) /\ Good(h) /\ Member(h, a) /\ Member(h, b)
  BY <1>5, <1>6, SettleLossesSound, MemberKept
<1>8. Sound(h, TradeFees(h, t))
  BY <1>1, <1>7, TradeFeesSound
<1>9. Traded(e, TradeFees(h, t))
  BY <1>3, <1>5, <1>7, <1>8, SoundTraded, TradedTrans
<1>10. TradeBooked(e, t) \in {e, TradeFees(h, t)}
  BY <1>1, <1>2, <1>4, <1>6 DEF TradeBooked
<1>11. QED
  BY <1>9, <1>10, SoundRefl, SoundTraded

\* The terms of a trade are of their types.
LEMMA TermsTyped ==
    ASSUME NEW e \in EngineType, NEW a \in Accounts, NEW b \in Accounts, NEW price \in Int,
           NEW size \in Int, NEW exec \in Int
    PROVE  TradeTerms(e, a, b, price, size, exec) \in TermsType
<1>1. PICK x \in Int, y \in Int : x = EffectivePos(e, a) /\ y = EffectivePos(e, b)
  BY EffectivePosInt
<1>2. \A i \in Accounts : EquityMaint(e.acc[i]) \in Int
  <2>1. ASSUME NEW i \in Accounts PROVE EquityMaint(e.acc[i]) \in Int
    <3>1. PICK c \in Int, p \in Int, d \in Int :
             c = e.acc[i].capital /\ p = e.acc[i].pnl /\ d = e.acc[i].fee_credits
      BY EngineFields, AccountFields
    <3>2. Pos(-d) \in Int
      BY PosInt
    <3>3. EquityMaint(e.acc[i]) = c + p - Pos(-d)
      BY <3>1 DEF EquityMaint, FeeDebt
    <3>4. QED
      BY <3>2, <3>3
  <2>2. QED
    BY <2>1
<1>3. PICK u \in Int, v \in Int : u = EquityMaint(e.acc[a]) /\ v = EquityMaint(e.acc[b])
  BY <1>2
<1>4. TradingFee(size, exec) \in Int
  <2>1. PICK n \in Int : n = NotionalOf(size, exec)
    BY NotionalInt
  <2>2. n * trading_fee_bps \in Int
    BY FeeConsts, ProductInt
  <2>3. QED
    BY <2>1, <2>2, CeilInt, Consts DEF TradingFee
<1>5. TradePnl(size, price, exec) \in Int
  <2>1. size * (price - exec) \in Int
    BY ProductInt
  <2>2. QED
    BY <2>1, FloorInt, Consts DEF TradePnl
<1>6. PICK w \in Int, g \in Int : w = TradingFee(size, exec) /\ g = TradePnl(size, price, exec)
  BY <1>4, <1>5
<1>7. TradeTerms(e, a, b, price, size, exec)
        = [who |-> <<a, b>>, price |-> price, fee |-> w, olds |-> <<x, y>>,
           news |-> <<x + size, y - size>>, gains |-> <<g, -g>>, pre |-> <<u, v>>]
  BY <1>1, <1>3, <1>6 DEF TradeTerms
<1>8. QED
  BY <1>7 DEF TermsType

\* execute_trade_not_atomic, between the touches and the finalisation
LEMMA TradeLegsTraded ==
    ASSUME NEW e, Good(e), NEW a, Member(e, a), NEW b, Member(e, b), NEW price \in Int,
           NEW size \in Int, NEW exec \in Int, size > 0, Ok(e) => Even(e),
           a # b
    PROVE  Traded(e, TradeLegs(e, a, b, price, size, exec))
<1>1. PICK t : t = TradeTerms(e, a, b, price, size, exec)
  OBVIOUS
<1>2. t \in TermsType
  BY <1>1, TermsTyped DEF Good, Member
<1>3. t.who[1] = a /\ t.who[2] = b
  BY <1>1 DEF TradeTerms
<1>4. PICK f : f = ReopenReadySides(e)
  OBVIOUS
<1>5. /\ Sound(e, f) /\ Good(f) /\ Member(f, a) /\ Member(f, b) /\ SameOi(e, f)
      /\ f.acc = e.acc /\ \A s \in Side : SameCover(e.side[s], f.side[s])
  BY <1>4, ReopenSound, MemberKept
<1>6. PICK g : g = TradeGates(f, t.olds, t.news)
  OBVIOUS
<1>7. /\ Sound(f, g) /\ g.side = f.side /\ (Ok(g) => g = f)
      /\ Ok(g) => \A s \in Side : /\ OiBefore(s, t.olds) <= f.side[s].oi
                                    /\ SideAllows(f, s, t.olds, t.news)
  BY <1>5, <1>6, TradeGatesSound
<1>8. Good(g) /\ Member(g, a) /\ Member(g, b)
  BY <1>5, <1>7, MemberKept
<1>9. PICK h : h = TradePnlSet(g, t)
  OBVIOUS
<1>10. Sound(g, h) /\ Steady(g, h, {}) /\ h.side = g.side
  BY <1>2, <1>3, <1>8, <1>9, TradePnlSound DEF Steady
<1>11. Good(h) /\ Member(h, a) /\ Member(h, b)
  BY <1>8, <1>10, MemberKept
<1>12. Traded(h, TradeBooked(h, t))
  <2>1. ASSUME Ok(h), Epochs(h) PROVE NoneWaits(h)
    <3>1. Ok(g) /\ Ok(e)
      BY <1>5, <1>7, <1>10, <2>1 DEF Sound, Moved, Kept, Alike
    <3>2. Even(f) /\ f \in EngineType
      BY <1>5, <3>1, EvenKept DEF Good
    <3>3. \A s \in Side : Aged(f.side[s])
      BY <1>7, <1>10, <2>1 DEF Epochs
    <3>4. PICK x \in Int, y \in Int : x = EffectivePos(e, a) /\ y = EffectivePos(e, b)
      BY EffectivePosInt DEF Good, Member
    <3>5. t.olds = <<x, y>> /\ t.news = <<x + size, y - size>>
      BY <1>1, <3>4 DEF TradeTerms
    <3>6. NoneWaits(f)
      BY <1>7, <3>1, <3>2, <3>3, <3>5, GatesNoneWait
    <3>7. QED
      BY <1>7, <1>10, <3>6 DEF NoneWaits
  <2>2. ASSUME Ok(h) PROVE TermsOf(h, t)
    <3>1. g = f
      BY <1>7, <1>10, <2>2 DEF Sound, Moved, Kept, Alike
    <3>2. SamePositions(e.acc, h.acc)
      BY <1>5, <1>10, <3>1 DEF Steady
    <3>3. e \in EngineType /\ a \in Accounts /\ b \in Accounts
      BY DEF Good, Member
    <3>4. ASSUME NEW i \in Accounts, NEW s \in Side
          PROVE  OiComponent(s, EffectivePos(e, i)) = Portion(h, i, s)
      <4>1. h.side[s].epoch = e.side[s].epoch /\ h.side[s].mult = e.side[s].mult
        BY <1>5, <1>7, <1>10 DEF SameCover
      <4>2. Portion(h, i, s) = Portion(e, i, s)
        BY <3>2, <4>1 DEF Portion, InForce, SamePositions
      <4>3. QED
        BY <3>3, <4>2, PortionEffective
    <3>5. t.olds = <<EffectivePos(e, a), EffectivePos(e, b)>>
      BY <1>1 DEF TradeTerms
    <3>6. QED
      BY <1>3, <3>3, <3>4, <3>5 DEF TermsOf
  <2>3. QED
    BY <1>2, <1>3, <1>11, <2>1, <2>2, TradeBookedTraded
<1>13. Traded(e, TradeBooked(h, t))
  BY <1>5, <1>7, <1>10, <1>12, SoundTraded, TradedTrans
<1>14. TradeLegs(e, a, b, price, size, exec) \in {e, TradeBooked(h, t)}
  BY <1>1, <1>4, <1>6, <1>9 DEF TradeLegs, TradeLegsOn
<1>15. QED
  BY <1>13, <1>14, SoundRefl, SoundTraded
-----------------------------------------------------------------------------
(* What holds of the engine between two instructions *)

AllSettled(e) == \A i \in Accounts : e.acc[i].position_basis_q = 0 /\ e.acc[i].pnl >= 0

NoOpenInterest(e) == \A s \in Side : e.side[s].oi = 0

Market(e) ==
    /\ Epochs(e) /\ Even(e) /\ Backed(e)
    /\ Cleared(e)
    /\ e.vault >= e.c_tot + e.insurance
    /\ e.used = {} => e.vault = e.insurance
    /\ e.market_mode # "Live" => NoOpenInterest(e)
    /\ e.market_mode = "Live" => ~e.resolved.ready
    /\ e.resolved.ready => AllSettled(e)

\* The result of an instruction: failed, or a market that satisfies all of it.
Result(e) == Good(e) /\ (Ok(e) => Market(e))

\* An instruction of a live market that ends with Finish.
LEMMA FinishGood ==
    ASSUME NEW e, Result(e), NEW g, Good(g), Kept(e, g), Ok(g) => e.market_mode = "Live"
    PROVE  Result(Finish(g)) /\ Sound(g, Finish(g))
<1>1. PICK f : f = Finish(g)
  OBVIOUS
<1>2. /\ Sound(g, f) /\ (Ok(f) => Cleared(f) /\ PostconditionsHold(f))
      /\ Ok(f) /\ Epochs(g) /\ Covered(g) => Backed(f)
  BY <1>1, FinishSound
<1>3. Kept(e, f)
  BY <1>2 DEF Sound, Moved, Kept, Alike
<1>4. ASSUME Ok(f) PROVE Market(f)
  <2>1. Ok(e) /\ Market(e) /\ e.market_mode = "Live"
    BY <1>2, <1>3, <1>4 DEF Sound, Moved, Kept, Alike, Result
  <2>2. f.used = e.used /\ f.market_mode = "Live" /\ f.resolved = e.resolved
    BY <1>3, <2>1 DEF Kept, Alike
  <2>3. f.vault >= f.c_tot + f.insurance /\ Cleared(f)
    BY <1>2, <1>4 DEF PostconditionsHold
  <2>4. f.used = {} => f.vault = f.insurance
    BY <1>3, <1>4, <2>1, <2>2 DEF Market, Kept, Alike
  <2>5. ~f.resolved.ready
    BY <2>1, <2>2 DEF Market
  <2>6. Epochs(f) /\ Even(f)
    BY <1>2, <1>3, <1>4, <2>1 DEF Market, Kept, PostconditionsHold, Even
  <2>7. Epochs(g) /\ Covered(g)
    BY <1>2, <1>4, <2>1, BackedIdle DEF Market, Sound, Moved, Kept, Alike
  <2>8. Backed(f)
    BY <1>2, <1>4, <2>7
  <2>9. QED
    BY <2>2, <2>3, <2>4, <2>5, <2>6, <2>8 DEF Market
<1>5. Result(f)
  BY <1>2, <1>4 DEF Result, Sound, Moved
<1>6. QED
  BY <1>1, <1>2, <1>5

\* ... and may have moved money in or out of the vault, ...
LEMMA FinishMoved ==
    ASSUME NEW e, Result(e), NEW g, Moved(e, g), Ok(g) => e.market_mode = "Live"
    PROVE  Result(Finish(g)) /\ Moved(e, Finish(g)) /\ Finish(g).vault = g.vault
<1>1. PICK f : f = Finish(g)
  OBVIOUS
<1>2. Result(f) /\ Sound(g, f)
  BY <1>1, FinishGood DEF Moved
<1>3. Moved(e, f) /\ f.vault = g.vault
  BY <1>2, SoundMoved, MovedTrans DEF Sound
<1>4. QED
  BY <1>1, <1>2, <1>3

\* ... has moved none, ...
LEMMA FinishResult ==
    ASSUME NEW e, Result(e), NEW g, Sound(e, g), Ok(g) => e.market_mode = "Live"
    PROVE  Result(Finish(g)) /\ Sound(e, Finish(g)) /\ Finish(g).vault = e.vault
<1>1. PICK f : f = Finish(g)
  OBVIOUS
<1>2. Result(f) /\ Moved(e, f) /\ f.vault = g.vault
  BY <1>1, FinishMoved DEF Sound
<1>3. QED
  BY <1>1, <1>2 DEF Sound

\* ... or is a trade.
LEMMA FinishTraded ==
    ASSUME NEW e, Result(e), NEW g, Traded(e, g), Ok(g) => e.market_mode = "Live"
    PROVE  Result(Finish(g)) /\ Traded(e, Finish(g))
<1>1. PICK f : f = Finish(g)
  OBVIOUS
<1>2. Result(f) /\ Sound(g, f)
  BY <1>1, FinishGood DEF Traded
<1>3. Traded(e, f)
  BY <1>2, SoundTraded, TradedTrans
<1>4. QED
  BY <1>1, <1>2, <1>3

\* A rejected or corrupt call is a failed result.
LEMMA FailedResult ==
    ASSUME NEW e \in EngineType
    PROVE  Result(Reject(e)) /\ Result(Corrupt(e))
  BY RejectSound, CorruptSound DEF Result

\* Between two instructions nothing is to be reset.
LEMMA ResultBacked ==
    ASSUME NEW e, Result(e)
    PROVE  Good(e) /\ (Ok(e) /\ Epochs(e) /\ Covered(e) => Backed(e))
  BY DEF Result, Market

\* An instruction begins and touches its account.
LEMMA BeginTouchSound ==
    ASSUME NEW e, Good(e), NEW i \in Accounts, NEW now \in Int, NEW price \in Int,
           NEW rate \in Int, NEW pair \in Int \X Int,
           NEW f, f = BeginTouch(e, i, now, price, rate, pair),
           Ok(e) /\ Epochs(e) /\ Covered(e) => Backed(e)
    PROVE  /\ Sound(e, f) /\ Tracked(f) /\ Member(f, i) /\ Good(f) /\ (Even(e) => Even(f))
           /\ Ok(f) => e.market_mode = "Live" /\ i \in e.used /\ f.ctx.pending_reset = {}
<1>1. PICK b : b = Begin(e, now, price, rate, pair)
  OBVIOUS
<1>2. /\ Sound(e, b) /\ Tracked(b) /\ Good(b) /\ (Even(e) => Even(b))
      /\ Ok(b) => e.market_mode = "Live" /\ b.ctx.pending_reset = {}
  BY <1>1, BeginSound DEF Sound, Moved
<1>3. f = Touch(b, i)
  BY <1>1 DEF BeginTouch
<1>4. Sound(b, f) /\ EqualOi(b, f) /\ (Ok(f) => i \in b.used /\ b.market_mode = "Live")
  BY <1>2, <1>3, TouchSound
<1>5. Even(b) => Even(f)
  BY <1>4 DEF EqualOi, Even, Side
<1>6. Ok(f) => Ok(b) /\ f.ctx.pending_reset = {}
  BY <1>2, <1>4 DEF EqualOi, Sound, Moved, Kept, Alike
<1>7. QED
  BY <1>2, <1>4, <1>5, <1>6, SoundTrans DEF Sound, Moved, Kept, Alike, Member

\* Money in or out of the vault, for one account.
LEMMA PaidMoved ==
    ASSUME NEW e, Good(e), NEW i, Member(e, i), NEW amount \in Int,
           Ok(e) => e.acc[i].capital + amount >= 0
    PROVE  Moved(e, Paid(e, i, amount)) /\ Paid(e, i, amount).vault = e.vault + amount
<1>1. e \in EngineType /\ i \in Accounts /\ e.acc[i] \in AccountType
  BY EngineFields DEF Good, Member
<1>2. PICK v \in Int, w \in Int, n \in Int :
         v = e.vault + amount /\ w = e.insurance /\ n = e.acc[i].capital + amount
  BY <1>1, EngineFields, AccountFields
<1>3. PICK f : f = Cash(e, v, w)
  OBVIOUS
<1>4. Moved(e, f) /\ f.vault = v
  <2>1. Ok(e) => e.used # {}
    BY DEF Member
  <2>2. QED
    BY <1>3, <2>1, MoneyMoved
<1>5. Good(f) /\ Member(f, i)
  BY <1>4, MemberMoved
<1>6. Ok(f) => n >= 0
  BY <1>2, <1>4 DEF Moved, Kept, Alike
<1>7. f = [e EXCEPT !.vault = @ + amount]
  BY <1>1, <1>2, <1>3 DEF EngineType, Cash
<1>8. Paid(e, i, amount) = SetCapital(f, i, n)
  BY <1>2, <1>7 DEF Paid
<1>9. Sound(f, SetCapital(f, i, n))
  BY <1>5, <1>6, SetCapitalSound
<1>10. QED
  BY <1>2, <1>4, <1>8, <1>9, SoundMoved, MovedTrans DEF Sound

\* What a withdrawal takes leaves the account and the vault.
LEMMA WithdrawnMoved ==
    ASSUME NEW e, Good(e), NEW i, Member(e, i), NEW amount \in Int, NEW price
    PROVE  /\ Moved(e, Withdrawn(e, i, amount, price))
           /\ Withdrawn(e, i, amount, price).vault = e.vault - amount
<1>1. e \in EngineType /\ e.acc[i] \in AccountType /\ e.vault \in Int
  BY EngineFields DEF Good, Member
<1>2. PICK f : f = RejectUnless(e, WithdrawOk(e, i, amount, price))
  OBVIOUS
<1>3. f = e \/ f = Reject(e)
  BY <1>2 DEF RejectUnless
<1>4. Sound(e, f)
  BY <1>3, SoundRefl, CheckSound
<1>5. Good(f) /\ Member(f, i)
  BY <1>4, MemberKept
<1>6. Ok(f) => f = e /\ e.acc[i].capital - amount >= 0
  BY <1>1, <1>2, <1>3, RejectSound DEF RejectUnless, WithdrawOk
<1>7. PICK m \in Int : m = -amount
  OBVIOUS
<1>8. Ok(f) => f.acc[i].capital + m >= 0
  BY <1>1, <1>6, <1>7, AccountFields
<1>9. PICK g : g = Paid(f, i, m)
  OBVIOUS
<1>10. Moved(e, g) /\ g.vault = e.vault - amount /\ Good(g)
  <2>1. Moved(f, g) /\ g.vault = f.vault + m
    BY <1>5, <1>8, <1>9, PaidMoved
  <2>2. Moved(e, g)
    BY <1>4, <2>1, SoundMoved, MovedTrans
  <2>3. QED
    BY <1>1, <1>4, <1>7, <2>1, <2>2 DEF Sound, Moved
<1>11. Withdrawn(e, i, amount, price) \in {g, Corrupt(g)}
  BY <1>2, <1>7, <1>9 DEF Withdrawn, CorruptUnless
<1>12. Sound(g, g) /\ Sound(g, Corrupt(g))
  BY <1>10, SoundRefl, CheckSound
<1>13. QED
  BY <1>10, <1>11, <1>12, SoundMoved, MovedTrans DEF Sound

\* withdraw_not_atomic
LEMMA WithdrawResult ==
    ASSUME NEW e, Result(e), NEW i \in Accounts, NEW amount \in Int, NEW now \in Int,
           NEW price \in Int, NEW rate \in Int, NEW pair \in Int \X Int
    PROVE  /\ Result(WithdrawOp(e, i, amount, now, price, rate, pair))
           /\ Moved(e, WithdrawOp(e, i, amount, now, price, rate, pair))
           /\ WithdrawOp(e, i, amount, now, price, rate, pair).vault = e.vault - amount
<1>1. PICK t : t = BeginTouch(e, i, now, price, rate, pair)
  OBVIOUS
<1>2. /\ Sound(e, t) /\ Tracked(t) /\ Member(t, i) /\ Good(t)
      /\ Ok(t) => e.market_mode = "Live"
  BY <1>1, BeginTouchSound, ResultBacked
<1>3. PICK f : f = FinalizeTouched(t)
  OBVIOUS
<1>4. Sound(t, f)
  BY <1>2, <1>3, FinalizeTouchedSound
<1>5. Good(f) /\ Member(f, i)
  BY <1>2, <1>4, MemberKept
<1>6. PICK g : g = Withdrawn(f, i, amount, price)
  OBVIOUS
<1>7. Moved(f, g) /\ g.vault = f.vault - amount
  BY <1>5, <1>6, WithdrawnMoved
<1>8. Moved(e, g) /\ (Ok(g) => e.market_mode = "Live") /\ g.vault = e.vault - amount
  <2>1. Moved(e, t) /\ Moved(t, f) /\ f.vault = e.vault
    BY <1>2, <1>4 DEF Sound
  <2>2. Moved(e, g)
    BY <1>7, <2>1, MovedTrans
  <2>3. Ok(g) => Ok(t)
    BY <1>7, <2>1 DEF Moved, Kept, Alike
  <2>4. QED
    BY <1>2, <1>7, <2>1, <2>2, <2>3
<1>9. WithdrawOp(e, i, amount, now, price, rate, pair) = Finish(g)
  BY <1>1, <1>3, <1>6 DEF WithdrawOp
<1>10. QED
  BY <1>8, <1>9, FinishMoved

\* settle_account_not_atomic
LEMMA SettleResult ==
    ASSUME NEW e, Result(e), NEW i \in Accounts, NEW now \in Int,
           NEW price \in Int, NEW rate \in Int, NEW pair \in Int \X Int
    PROVE  /\ Result(SettleOp(e, i, now, price, rate, pair))
           /\ Sound(e, SettleOp(e, i, now, price, rate, pair))
<1>1. PICK t : t = BeginTouch(e, i, now, price, rate, pair)
  OBVIOUS
<1>2. /\ Sound(e, t) /\ Tracked(t) /\ Good(t)
      /\ Ok(t) => e.market_mode = "Live"
  BY <1>1, BeginTouchSound, ResultBacked
<1>3. PICK f : f = FinalizeTouched(t)
  OBVIOUS
<1>4. Sound(t, f)
  BY <1>2, <1>3, FinalizeTouchedSound
<1>5. Sound(e, f) /\ (Ok(f) => e.market_mode = "Live")
  BY <1>2, <1>4, SoundTrans DEF Sound, Moved, Kept, Alike
<1>6. SettleOp(e, i, now, price, rate, pair) = Finish(f)
  BY <1>1, <1>3 DEF SettleOp
<1>7. QED
  BY <1>5, <1>6, FinishResult

\* liquidate_at_oracle_not_atomic
LEMMA LiquidateResult ==
    ASSUME NEW e, Result(e), NEW i \in Accounts, NEW now \in Int, NEW price \in Int,
           NEW policy, policy.q \in Nat, NEW rate \in Int, NEW pair \in Int \X Int
    PROVE  /\ Result(LiquidateOp(e, i, now, price, policy, rate, pair))
           /\ Sound(e, LiquidateOp(e, i, now, price, policy, rate, pair))
<1>1. PICK t : t = BeginTouch(e, i, now, price, rate, pair)
  OBVIOUS
<1>2. /\ Sound(e, t) /\ Tracked(t) /\ Member(t, i) /\ Good(t)
      /\ Ok(t) => e.market_mode = "Live"
  BY <1>1, BeginTouchSound, ResultBacked
<1>3. PICK l : l = LiquidateTouched(t, i, price, policy)
  OBVIOUS
<1>4. Sound(t, l)
  BY <1>2, <1>3, LiquidateTouchedSound
<1>5. Good(l) /\ Tracked(l)
  BY <1>2, <1>4 DEF Sound, Moved, Kept, Alike
<1>6. PICK f : f = FinalizeTouched(l)
  OBVIOUS
<1>7. Sound(l, f)
  BY <1>5, <1>6, FinalizeTouchedSound
<1>8. Sound(e, f) /\ (Ok(f) => e.market_mode = "Live")
  BY <1>2, <1>4, <1>7, SoundTrans DEF Sound, Moved, Kept, Alike
<1>9. LiquidateOp(e, i, now, price, policy, rate, pair) = Finish(f)
  BY <1>1, <1>3, <1>6 DEF LiquidateOp
<1>10. QED
  BY <1>8, <1>9, FinishResult

\* The flush of dust-only sides before a trade.
LEMMA FlushSound ==
    ASSUME NEW e, Good(e), Ok(e) => e.ctx.pending_reset = {}
    PROVE  Sound(e, FlushResets(e)) /\ (Even(e) => Even(FlushResets(e)))
<1>1. e \in EngineType /\ e.ctx \in ContextType
  BY EngineFields DEF Good
<1>2. PICK c : c = [e.ctx EXCEPT !.pending_reset = {}]
  OBVIOUS
<1>3. c \in ContextType /\ c.touched \subseteq e.ctx.touched
  BY <1>1, <1>2 DEF ContextType
<1>4. PICK f : f = [e EXCEPT !.ctx = c]
  OBVIOUS
<1>5. Sound(e, f) /\ Good(f)
  BY <1>3, <1>4, BackedIdle, CtxBacked DEF Sound, Moved
<1>6. f = [e EXCEPT !.ctx.pending_reset = {}]
  BY <1>1, <1>2, <1>4 DEF EngineType
<1>7. PICK g : g = EndOfInstruction(f)
  OBVIOUS
<1>8. Sound(e, g) /\ Good(g) /\ (Ok(g) /\ Epochs(e) /\ Covered(e) => Backed(g))
  <2>1. Sound(f, g) /\ (Ok(g) /\ Epochs(f) /\ Covered(f) => Backed(g))
    BY <1>5, <1>7, EndSound
  <2>2. Ok(g) /\ Epochs(e) /\ Covered(e) => Epochs(f) /\ Covered(f)
    BY <1>5, <2>1 DEF Sound, Moved, Kept, Alike
  <2>3. QED
    BY <1>5, <2>1, <2>2, SoundTrans DEF Sound, Moved
<1>9. g \in EngineType /\ g.ctx \in ContextType
  BY <1>8, EngineFields DEF Good
<1>10. PICK d : d = [g.ctx EXCEPT !.pending_reset = {}]
  OBVIOUS
<1>11. d \in ContextType /\ d.touched \subseteq g.ctx.touched
  BY <1>9, <1>10 DEF ContextType
<1>12. [g EXCEPT !.ctx = d] = [g EXCEPT !.ctx.pending_reset = {}]
  BY <1>9, <1>10 DEF EngineType
<1>13. FlushResets(e) = [g EXCEPT !.ctx = d]
  BY <1>6, <1>7, <1>12 DEF FlushResets
<1>14. Even(e) => Even(FlushResets(e))
  <2>1. f.side = e.side /\ [g EXCEPT !.ctx = d].side = g.side
    BY <1>1, <1>4, <1>9 DEF EngineType
  <2>2. Even(f) => Even(g)
    BY <1>5, <1>7, EndSound
  <2>3. QED
    BY <1>13, <2>1, <2>2 DEF Even
<1>15. PICK h : h = [g EXCEPT !.ctx = d]
  OBVIOUS
<1>16. Drafted(g, h) /\ (Epochs(g) => Epochs(h)) /\ (Backed(g) => Covered(h))
  BY <1>8, <1>11, <1>15, CtxDrafted
<1>17. Sound(e, h)
  <2>1. Drafted(e, h)
    BY <1>8, <1>16, SoundDrafted, DraftedTrans
  <2>2. Ok(h) => Ok(g)
    BY <1>16 DEF Drafted, Written, Alike
  <2>3. Ok(h) /\ Epochs(e) => Epochs(h)
    BY <1>8, <1>16, <2>2 DEF Sound, Moved, Kept
  <2>4. QED
    BY <1>8, <1>16, <2>1, <2>2, <2>3 DEF Drafted, Written, Sound, Moved, Kept
<1>18. QED
  BY <1>13, <1>14, <1>15, <1>17

\* execute_trade_not_atomic
LEMMA TradeResult ==
    ASSUME NEW e, Result(e), NEW a \in Accounts, NEW b \in Accounts, NEW now \in Int,
           NEW price \in Int, NEW size \in Int, NEW exec \in Int, NEW rate \in Int,
           NEW pair \in Int \X Int
    PROVE  /\ Result(TradeOp(e, a, b, now, price, size, exec, rate, pair))
           /\ Traded(e, TradeOp(e, a, b, now, price, size, exec, rate, pair))
<1>0. SUFFICES ASSUME size \in 1..MAX_POSITION_ABS_Q, a # b
               PROVE  /\ Result(TradeOp(e, a, b, now, price, size, exec, rate, pair))
                      /\ Traded(e, TradeOp(e, a, b, now, price, size, exec, rate, pair))
  <2>1. CASE size \notin 1..MAX_POSITION_ABS_Q \/ a = b
    <3>1. TradeOp(e, a, b, now, price, size, exec, rate, pair) = Reject(e)
      BY <2>1 DEF TradeOp
    <3>2. e \in EngineType /\ Good(e)
      BY DEF Result, Good
    <3>3. QED
      BY <3>1, <3>2, FailedResult, CheckTraded, SoundRefl, SoundTraded
  <2>2. QED
    BY <2>1
<1>1. PICK t : t = BeginTouch(e, a, now, price, rate, pair)
  OBVIOUS
<1>2. /\ Sound(e, t) /\ Tracked(t) /\ Member(t, a) /\ Good(t)
      /\ Ok(t) => e.market_mode = "Live" /\ t.ctx.pending_reset = {}
      /\ Even(e) => Even(t)
  BY <1>1, BeginTouchSound, ResultBacked
<1>3. PICK u : u = Touch(t, b)
  OBVIOUS
<1>4. Sound(t, u) /\ (Ok(u) => b \in t.used) /\ EqualOi(t, u)
  BY <1>2, <1>3, TouchSound
<1>5. Good(u) /\ Member(u, a) /\ Member(u, b)
  BY <1>2, <1>4, MemberKept DEF Sound, Moved, Kept, Alike, Member
<1>6. PICK v : v = FlushResets(u)
  OBVIOUS
<1>7. Sound(u, v) /\ (Even(u) => Even(v))
  <2>1. Ok(u) => u.ctx.pending_reset = {}
    BY <1>2, <1>4 DEF EqualOi, Sound, Moved, Kept, Alike
  <2>2. QED
    BY <1>5, <1>6, <2>1, FlushSound
<1>8. Good(v) /\ Member(v, a) /\ Member(v, b)
  BY <1>5, <1>7, MemberKept
<1>9. PICK l : l = TradeLegs(v, a, b, price, size, exec)
  OBVIOUS
<1>10. Traded(v, l)
  <2>1. size > 0
    BY <1>0, Consts
  <2>2. ASSUME Ok(v) PROVE Even(v)
    <3>1. Ok(e)
      BY <1>2, <1>4, <1>7, <2>2 DEF Sound, Moved, Kept, Alike
    <3>2. Even(t)
      BY <1>2, <3>1 DEF Result, Market
    <3>3. Even(u)
      BY <1>4, <3>2 DEF Even, EqualOi, Side
    <3>4. QED
      BY <1>7, <3>3
  <2>3. QED
    BY <1>0, <1>8, <1>9, <2>1, <2>2, TradeLegsTraded
<1>11. Traded(t, l)
  BY <1>4, <1>7, <1>10, SoundTraded, TradedTrans
<1>12. Good(l) /\ Tracked(l)
  BY <1>2, <1>11 DEF Traded, Kept, Alike
<1>13. PICK f : f = FinalizeTouched(l)
  OBVIOUS
<1>14. Sound(l, f)
  BY <1>12, <1>13, FinalizeTouchedSound
<1>15. Traded(e, f) /\ (Ok(f) => e.market_mode = "Live")
  <2>1. Traded(e, f)
    BY <1>2, <1>11, <1>14, SoundTraded, TradedTrans
  <2>2. Ok(f) => Ok(t)
    BY <1>11, <1>14 DEF Traded, Sound, Moved, Kept, Alike
  <2>3. QED
    BY <1>2, <2>1, <2>2
<1>16. /\ Result(Finish(f)) /\ Traded(e, Finish(f))
       /\ Result(Reject(e)) /\ Traded(e, Reject(e))
  BY <1>15, FinishTraded, FailedResult, SoundRefl, SoundTraded, CheckTraded DEF Result, Good
<1>17. TradeOp(e, a, b, now, price, size, exec, rate, pair) \in {Reject(e), Finish(f)}
  BY <1>1, <1>3, <1>6, <1>9, <1>13 DEF TradeOp
<1>18. QED
  BY <1>16, <1>17

\* The haircut's fraction and the residual are numbers.
LEMMA HaircutInt ==
    ASSUME NEW e \in EngineType
    PROVE  HaircutNum(e) \in Int /\ HaircutDen(e) \in Int /\ Residual(e) \in Nat
<1>1. e.vault \in Int /\ e.c_tot \in Int /\ e.insurance \in Int /\ e.pnl_matured_pos_tot \in Int
  BY EngineFields
<1>2. Residual(e) \in Nat
  BY <1>1, PosInt DEF Residual
<1>3. QED
  BY <1>1, <1>2 DEF HaircutNum, HaircutDen, Lesser

\* The total of positive claims is not negative, and covers what has matured.
LEMMA TotalsOrdered ==
    ASSUME NEW e \in EngineType, Books(e)
    PROVE  0 <= e.pnl_matured_pos_tot /\ e.pnl_matured_pos_tot <= e.pnl_pos_tot
<1>0. PICK z \in [Accounts -> Int] : \A i \in Accounts : z[i] = 0
  <2>1. [i \in Accounts |-> 0] \in [Accounts -> Int]
    OBVIOUS
  <2>2. QED
    BY <2>1
<1>1. Sum(z) = 0
  BY <1>0, SumZero, Consts DEF Sum
<1>2. Releases(e) \in [Accounts -> Int] /\ Profits(e) \in [Accounts -> Int]
  BY TermTypes
<1>3. ASSUME NEW i \in Accounts PROVE z[i] <= Releases(e)[i] /\ Releases(e)[i] <= Profits(e)[i]
  <2>1. PICK p \in Nat, r \in Nat : p = Pos(e.acc[i].pnl) /\ r = e.acc[i].reserved_pnl
    BY EngineFields, AccountFields, PosInt
  <2>2. r <= p
    BY <2>1 DEF Books
  <2>3. Releases(e)[i] = p - r /\ Profits(e)[i] = p /\ z[i] = 0
    BY <1>0, <2>1 DEF Releases, Profits
  <2>4. QED
    BY <2>2, <2>3
<1>4. Sum(z) <= Sum(Releases(e)) /\ Sum(Releases(e)) <= Sum(Profits(e))
  BY <1>1, <1>2, <1>3, SumMonotone, Consts DEF Sum
<1>5. Sum(Releases(e)) \in Int /\ Sum(Profits(e)) \in Int
  BY <1>2, SumType
<1>6. QED
  BY <1>1, <1>4, <1>5 DEF Books, Sums

\* convert_released_pnl_not_atomic, once touched
LEMMA ConvertTouchedSound ==
    ASSUME NEW e, Good(e), NEW i, Member(e, i), NEW x \in Int
    PROVE  Sound(e, ConvertTouched(e, i, x))
<1>1. e \in EngineType /\ i \in Accounts /\ e.acc[i] \in AccountType
  BY EngineFields DEF Good, Member
<1>2. CASE ~Ok(e) \/ ~ConvertOk(e, i, x)
  <2>1. ConvertTouched(e, i, x) \in {e, Reject(e)}
    BY <1>2 DEF ConvertTouched
  <2>2. QED
    BY <2>1, SoundRefl, CheckSound
<1>3. CASE Ok(e) /\ ConvertOk(e, i, x)
  <2>1. Books(e)
    BY <1>3 DEF Good
  <2>2. x \in Nat /\ x >= 1
    <3>1. ReleasedPos(e.acc[i]) \in Int
      BY <1>1, AccountFields, PosInt DEF ReleasedPos, Greater
    <3>2. QED
      BY <1>3, <3>1 DEF ConvertOk
  <2>3. PICK h, d : h = HaircutNum(e) /\ d = HaircutDen(e)
    OBVIOUS
  <2>4. h \in Nat /\ d \in Nat \ {0}
    <3>1. e.pnl_matured_pos_tot \in Nat /\ Residual(e) \in Nat
      BY <1>1, <2>1, TotalsOrdered, EngineFields, HaircutInt
    <3>2. QED
      BY <2>3, <3>1 DEF HaircutNum, HaircutDen, Lesser
  <2>5. PICK y : y = FloorDiv(x * h, d)
    OBVIOUS
  <2>6. y \in Nat
    <3>1. x * h \in Nat
      BY <2>2, <2>4
    <3>2. QED
      BY <2>4, <2>5, <3>1, FloorNat
  <2>7. PICK n \in Int : n = e.acc[i].capital + y
    BY <1>1, <2>6, AccountFields
  <2>8. n >= 0
    BY <1>1, <2>1, <2>6, <2>7, AccountFields DEF Books
  <2>9. PICK f : f = ConsumeReleased(e, i, x)
    OBVIOUS
  <2>10. Sound(e, f)
    BY <2>2, <2>9, ConsumeSound
  <2>11. Good(f) /\ Member(f, i)
    BY <2>10, MemberKept
  <2>12. PICK g : g = SetCapital(f, i, n)
    OBVIOUS
  <2>13. Sound(f, g)
    BY <2>8, <2>11, <2>12, SetCapitalSound
  <2>14. Good(g) /\ Member(g, i)
    BY <2>11, <2>13, MemberKept
  <2>15. ConvertTouched(e, i, x) = FeeDebtSweep(g, i)
    BY <1>3, <2>3, <2>5, <2>7, <2>9, <2>12 DEF ConvertTouched, Converted
  <2>16. QED
    BY <2>10, <2>13, <2>14, <2>15, FeeDebtSweepSound, SoundTrans
<1>4. QED
  BY <1>2, <1>3

\* convert_released_pnl_not_atomic
LEMMA ConvertResult ==
    ASSUME NEW e, Result(e), NEW i \in Accounts, NEW x \in Int, NEW now \in Int,
           NEW price \in Int, NEW rate \in Int, NEW pair \in Int \X Int
    PROVE  Result(ConvertOp(e, i, x, now, price, rate, pair))
<1>1. PICK t : t = BeginTouch(e, i, now, price, rate, pair)
  OBVIOUS
<1>2. /\ Sound(e, t) /\ Tracked(t) /\ Member(t, i) /\ Good(t)
      /\ Ok(t) => e.market_mode = "Live"
  BY <1>1, BeginTouchSound, ResultBacked
<1>3. PICK c : c = ConvertTouched(t, i, x)
  OBVIOUS
<1>4. Sound(t, c)
  BY <1>2, <1>3, ConvertTouchedSound
<1>5. PICK l : l = StillSound(c, i, price)
  OBVIOUS
<1>6. l = c \/ l = Reject(c)
  BY <1>5 DEF StillSound, RejectUnless
<1>7. Sound(t, l)
  BY <1>4, <1>6, CheckSound
<1>8. Good(l) /\ Tracked(l)
  BY <1>2, <1>7 DEF Sound, Moved, Kept, Alike
<1>9. PICK f : f = FinalizeTouched(l)
  OBVIOUS
<1>10. Sound(l, f)
  BY <1>8, <1>9, FinalizeTouchedSound
<1>11. Sound(e, f) /\ (Ok(f) => e.market_mode = "Live")
  BY <1>2, <1>7, <1>10, SoundTrans DEF Sound, Moved, Kept, Alike
<1>12. ConvertOp(e, i, x, now, price, rate, pair) = Finish(f)
  BY <1>1, <1>3, <1>5, <1>9 DEF ConvertOp
<1>13. QED
  BY <1>11, <1>12, FinishResult
-----------------------------------------------------------------------------
(* The crank *)

\* One candidate of a crank.
LEMMA CrankOneSound ==
    ASSUME NEW e, Good(e), NEW c \in CandidateType, NEW price \in Int
    PROVE  Sound(e, CrankOne(e, c, price))
<1>1. PICK i \in Accounts, h \in [kind : STRING, q : Nat] : i = c.idx /\ h = c.hint
  BY DEF CandidateType
<1>2. PICK t : t = Touch(e, i)
  OBVIOUS
<1>3. Sound(e, t) /\ (Ok(t) => i \in e.used)
  BY <1>2, TouchSound
<1>4. Good(t) /\ Member(t, i)
  BY <1>3 DEF Sound, Moved, Kept, Alike, Member
<1>5. Sound(t, LiquidateTouched(t, i, price, h))
  BY <1>1, <1>4, LiquidateTouchedSound
<1>6. CrankOne(e, c, price) \in {e, t, LiquidateTouched(t, i, price, h)}
  BY <1>1, <1>2 DEF CrankOne, ActOnHint
<1>7. QED
  BY <1>3, <1>5, <1>6, SoundRefl, SoundTrans

\* keeper_crank_not_atomic, the loop over the candidates
LEMMA CrankLoopSound ==
    ASSUME NEW e, Good(e), NEW cs \in Seq(CandidateType), NEW price \in Int
    PROVE  Sound(e, FoldLeft(LAMBDA f, c : CrankOne(f, c, price), e, cs))
<1>1. PICK D : D = DOMAIN cs
  OBVIOUS
<1>2. IsFiniteSet(D) /\ D \subseteq Int /\ \A j \in D : cs[j] \in CandidateType
  <2>1. D = 1 .. Len(cs) /\ Len(cs) \in Nat
    BY <1>1
  <2>2. IsFiniteSet(1 .. Len(cs))
    BY <2>1, FS_Interval
  <2>3. QED
    BY <2>1, <2>2
<1> DEFINE S == After(e)
           Body(it) == [s \in SUBSET D |->
                          IF s = {} THEN e ELSE CrankOne(it[s \ {Max(s)}], cs[Max(s)], price)]
           fold == CHOOSE it : it = Body(it)
           step == [p \in S \X D |-> CrankOne(p[1], cs[p[2]], price)]
<1>3. FoldLeft(LAMBDA f, c : CrankOne(f, c, price), e, cs) = fold[D]
  BY <1>1, Zenon DEF FoldLeft, MapThenFoldSet
<1>4. e \in S
  BY SoundRefl, AfterSound
<1>5. ASSUME NEW f \in S, NEW j \in D PROVE CrankOne(f, cs[j], price) \in S
  <2>1. Sound(e, f) /\ Good(f) /\ cs[j] \in CandidateType
    BY <1>2, <1>5, AfterSound DEF Sound, Moved
  <2>2. Sound(e, CrankOne(f, cs[j], price))
    BY <2>1, CrankOneSound, SoundTrans
  <2>3. QED
    BY <2>2, AfterSound
<1> HIDE DEF S
<1>6. step \in [S \X D -> S]
  BY <1>5
<1>7. Picks(MaxPick(D), D)
  BY <1>2, MaxPicks
<1>8. PICK g \in [SUBSET D -> S] : Unfolds(g, D, MaxPick(D), e, step)
  <2> HIDE DEF step, fold, Body
  <2>1. QED
    BY <1>2, <1>4, <1>6, <1>7, FoldExists
<1>9. g = Body(g)
  <2>1. ASSUME NEW s \in SUBSET D, s # {}
        PROVE  g[s] = CrankOne(g[s \ {Max(s)}], cs[Max(s)], price)
    <3>1. MaxPick(D)[s] = Max(s) /\ MaxPick(D)[s] \in s
      BY <1>7, <2>1 DEF MaxPick, Picks
    <3>2. Max(s) \in D /\ g[s \ {Max(s)}] \in S
      BY <3>1
    <3>3. g[s] = step[<<g[s \ {Max(s)}], Max(s)>>]
      BY <1>8, <2>1, <3>1 DEF Unfolds
    <3>4. QED
      BY <3>2, <3>3
  <2>2. g[{}] = e
    BY <1>8 DEF Unfolds
  <2>3. QED
    BY <2>1, <2>2
<1>10. fold = Body(fold)
  <2> HIDE DEF Body
  <2>1. \E h : h = Body(h)
    BY <1>9
  <2>2. QED
    BY <2>1
<1>11. FoldsTo(fold, D, e, S)
  <2> HIDE DEF fold
  <2>1. fold[{}] = e
    BY <1>10
  <2>2. ASSUME NEW s \in SUBSET D, s # {}, fold[s \ {Max(s)}] \in S PROVE fold[s] \in S
    <3>1. fold[s] = CrankOne(fold[s \ {Max(s)}], cs[Max(s)], price)
      BY <1>10, <2>2
    <3>2. Max(s) \in D
      BY <1>7, <2>2 DEF MaxPick, Picks
    <3>3. QED
      BY <1>5, <2>2, <3>1, <3>2
  <2>3. QED
    BY <2>1, <2>2 DEF FoldsTo
<1>12. fold[D] \in S
  <2> HIDE DEF fold
  <2>1. QED
    BY <1>2, <1>4, <1>11, FoldStays
<1> HIDE DEF fold
<1>13. QED
  BY <1>3, <1>12, AfterSound DEF S

\* keeper_crank_not_atomic
LEMMA CrankResult ==
    ASSUME NEW e, Result(e), NEW cs \in Seq(CandidateType), NEW now \in Int,
           NEW price \in Int, NEW rate \in Int, NEW pair \in Int \X Int
    PROVE  Result(CrankOp(e, cs, now, price, rate, pair))
<1>1. PICK b : b = Begin(e, now, price, rate, pair)
  OBVIOUS
<1>2. Sound(e, b) /\ Tracked(b) /\ Good(b) /\ (Ok(b) => e.market_mode = "Live")
  BY <1>1, BeginSound, ResultBacked DEF Sound, Moved
<1>3. PICK l : l = FoldLeft(LAMBDA f, c : CrankOne(f, c, price), b, cs)
  OBVIOUS
<1>4. Sound(b, l)
  BY <1>2, <1>3, CrankLoopSound
<1>5. Good(l) /\ Tracked(l)
  BY <1>2, <1>4 DEF Sound, Moved, Kept, Alike
<1>6. PICK f : f = FinalizeTouched(l)
  OBVIOUS
<1>7. Sound(l, f)
  BY <1>5, <1>6, FinalizeTouchedSound
<1>8. Sound(e, f) /\ (Ok(f) => e.market_mode = "Live")
  BY <1>2, <1>4, <1>7, SoundTrans DEF Sound, Moved, Kept, Alike
<1>9. CrankOp(e, cs, now, price, rate, pair) = Finish(f)
  BY <1>1, <1>3, <1>6, Zenon DEF CrankOp
<1>10. QED
  BY <1>8, <1>9, FinishResult

-----------------------------------------------------------------------------
(* More of what leaves the positions alone *)

\* A payment leaves them alone, too.
LEMMA PaidSteady ==
    ASSUME NEW e \in EngineType, NEW i \in Accounts, NEW amount \in Int
    PROVE  Steady(e, Paid(e, i, amount), Accounts)
<1>1. PICK v, n : v = e.vault + amount /\ n = e.acc[i].capital + amount
  OBVIOUS
<1>2. v \in Int
  BY <1>1, EngineFields
<1>3. PICK f : f = [e EXCEPT !.vault = v]
  OBVIOUS
<1>4. f \in EngineType /\ f.side = e.side /\ f.acc = e.acc /\ f.ctx = e.ctx
  BY <1>2, <1>3 DEF EngineType
<1>5. Paid(e, i, amount) = SetCapital(f, i, n)
  BY <1>1, <1>3 DEF Paid
<1>6. Steady(e, f, Accounts)
  BY <1>4 DEF Steady, SamePositions
<1>7. QED
  BY <1>4, <1>5, <1>6, CapitalSteady, SteadyTrans
-----------------------------------------------------------------------------
(* Instructions that leave the sides alone *)

\* A check that fails rejects or corrupts the record and changes nothing else.
LEMMA RejectUnlessSound ==
    ASSUME NEW e, Good(e), NEW cond, NEW f, f = RejectUnless(e, cond)
    PROVE  /\ Sound(e, f) /\ f \in {e, Reject(e)} /\ (Ok(f) => f = e /\ cond)
           /\ f.acc = e.acc /\ f.side = e.side /\ f.vault = e.vault /\ f.c_tot = e.c_tot
           /\ f.insurance = e.insurance /\ Steady(e, f, Accounts)
<1>1. f \in {e, Reject(e)}
  BY DEF RejectUnless
<1>2. Sound(e, e) /\ Sound(e, Reject(e)) /\ ~Ok(Reject(e))
  BY SoundRefl, RejectSound DEF Good, Sound, Moved
<1>3. Reject(e).acc = e.acc /\ Reject(e).side = e.side /\ Reject(e).vault = e.vault
      /\ Reject(e).c_tot = e.c_tot /\ Reject(e).insurance = e.insurance
  BY RejectSound DEF Good
<1>4. Ok(f) => f = e /\ cond
  BY <1>1, <1>2 DEF RejectUnless
<1>5. Steady(e, e, Accounts) /\ Steady(e, Reject(e), Accounts)
  BY FailSteady DEF Steady, SamePositions, Good
<1>6. QED
  BY <1>1, <1>2, <1>3, <1>4, <1>5

\* The same for the check that corrupts.
LEMMA CorruptUnlessSound ==
    ASSUME NEW e, Good(e), NEW cond, NEW f, f = CorruptUnless(e, cond)
    PROVE  /\ Sound(e, f) /\ f \in {e, Corrupt(e)} /\ (Ok(f) => f = e /\ cond)
           /\ f.acc = e.acc /\ f.side = e.side /\ f.vault = e.vault /\ f.c_tot = e.c_tot
           /\ f.insurance = e.insurance /\ Steady(e, f, Accounts)
<1>1. f \in {e, Corrupt(e)}
  BY DEF CorruptUnless
<1>2. Sound(e, e) /\ Sound(e, Corrupt(e)) /\ ~Ok(Corrupt(e))
  BY SoundRefl, CorruptSound DEF Good, Sound, Moved
<1>3. Corrupt(e).acc = e.acc /\ Corrupt(e).side = e.side /\ Corrupt(e).vault = e.vault
      /\ Corrupt(e).c_tot = e.c_tot /\ Corrupt(e).insurance = e.insurance
  BY CorruptSound DEF Good
<1>4. Ok(f) => f = e /\ cond
  BY <1>1, <1>2 DEF CorruptUnless
<1>5. Steady(e, e, Accounts) /\ Steady(e, Corrupt(e), Accounts)
  BY FailSteady DEF Steady, SamePositions, Good
<1>6. QED
  BY <1>1, <1>2, <1>3, <1>4, <1>5

\* The clock of the endpoints that do not accrue.
LEMMA ClockOnlySound ==
    ASSUME NEW e, Good(e), NEW now \in Int, NEW f, f = ClockOnly(e, now)
    PROVE  /\ Sound(e, f) /\ Steady(e, f, Accounts) /\ (Ok(f) => e.market_mode = "Live")
           /\ f.acc = e.acc /\ f.vault = e.vault /\ f.c_tot = e.c_tot
           /\ f.insurance = e.insurance
<1>1. e \in EngineType /\ e.last_market_slot \in Int /\ e.last_oracle_price \in Int
  BY EngineFields DEF Good
<1>2. PICK g : g = [e EXCEPT !.current_slot = now, !.last_market_slot = e.last_market_slot,
                             !.last_oracle_price = e.last_oracle_price]
  OBVIOUS
<1>3. g = [e EXCEPT !.current_slot = now]
  BY <1>1, <1>2 DEF EngineType
<1>4. Sound(e, g)
  BY <1>1, <1>2, ClockSound
<1>5. g.acc = e.acc /\ g.vault = e.vault /\ g.c_tot = e.c_tot /\ g.insurance = e.insurance
      /\ g.side = e.side /\ g.ctx = e.ctx
  BY <1>1, <1>3 DEF EngineType
<1>6. IF e.market_mode = "Live" THEN f \in {g, Reject(e)} ELSE f = Reject(e)
  BY <1>3 DEF ClockOnly
<1>7. Sound(e, Reject(e)) /\ ~Ok(Reject(e))
  BY <1>1, RejectSound DEF Sound, Moved
<1>8. Steady(e, g, Accounts) /\ Steady(e, Reject(e), Accounts)
  BY <1>1, <1>5, FailSteady DEF Steady, SamePositions
<1>9. QED
  BY <1>1, <1>4, <1>5, <1>6, <1>7, <1>8, RejectSound

\* What covers the positions between two instructions, when no position
\* changes and no side's cover does, ...
LEMMA BackedCover ==
    ASSUME NEW e \in EngineType, NEW f \in EngineType,
           \A s \in Side : SameCover(e.side[s], f.side[s]),
           SamePositions(e.acc, f.acc), f.market_mode = e.market_mode, Backed(e)
    PROVE  Backed(f)
<1> SUFFICES ASSUME f.market_mode = "Live", NEW s \in Side
             PROVE  f.side[s].dust >= 0 /\ Backs(f.acc, s, f.side[s])
  BY DEF Backed, SideBacked
<1>1. e.acc \in [Accounts -> AccountType] /\ e.side[s] \in SideType /\ f.side[s] \in SideType
  BY EngineFields
<1>2. e.side[s].dust >= 0 /\ Backs(e.acc, s, e.side[s])
  BY DEF Backed, SideBacked
<1>3. f.side[s].dust >= 0
  BY <1>1, <1>2, SideFields DEF SameCover
<1>4. QED
  BY <1>1, <1>2, <1>3, BacksSame

\* ... or no side at all.
LEMMA BackedSame ==
    ASSUME NEW e \in EngineType, NEW f \in EngineType, f.side = e.side,
           SamePositions(e.acc, f.acc), f.market_mode = e.market_mode, Backed(e)
    PROVE  Backed(f)
<1>1. \A s \in Side : SameCover(e.side[s], f.side[s])
  BY EngineFields, SideFields DEF SameCover
<1>2. QED
  BY <1>1, BackedCover

\* In a closed market there is nothing to cover.
LEMMA ClosedBacked == ASSUME NEW e, e.market_mode # "Live" PROVE Backed(e)
  BY DEF Backed, SideBacked

\* Every PnL is as it was.
SamePnl(e, g) == \A i \in Accounts : g.acc[i].pnl = e.acc[i].pnl

\* The result of an instruction that moves money and no position: the sides
\* are the same, and in a resolved market so is all PnL.
LEMMA SteadyResult ==
    ASSUME NEW e, Result(e), NEW g, Moved(e, g), g.side = e.side, SamePositions(e.acc, g.acc),
           Ok(g) => e.market_mode = "Live" \/ SamePnl(e, g),
           Ok(g) => g.vault >= g.c_tot + g.insurance
    PROVE  Result(g)
<1>1. ASSUME Ok(g) PROVE Market(g)
  <2>1. Ok(e) /\ Market(e) /\ g.used = e.used /\ g.market_mode = e.market_mode
        /\ g.resolved = e.resolved
    BY <1>1 DEF Result, Sound, Moved, Kept, Alike
  <2>2. Cleared(g)
    BY <2>1 DEF Market, Cleared
  <2>3. g.used = {} => g.vault = g.insurance
    BY <1>1, <2>1 DEF Market, Sound, Moved, Kept, Alike
  <2>4. g.market_mode # "Live" => NoOpenInterest(g)
    BY <2>1 DEF Market, NoOpenInterest
  <2>5. g.market_mode = "Live" => ~g.resolved.ready
    BY <2>1 DEF Market
  <2>6. g.resolved.ready => AllSettled(g)
    <3>1. SUFFICES ASSUME g.resolved.ready PROVE AllSettled(g)
      OBVIOUS
    <3>2. e.market_mode # "Live" /\ AllSettled(e)
      BY <2>1, <2>5, <3>1 DEF Market
    <3>3. SamePnl(e, g)
      BY <1>1, <3>2
    <3>4. QED
      BY <3>2, <3>3 DEF SamePnl, SamePositions, AllSettled
  <2>7. Epochs(g) /\ Even(g)
    BY <1>1, <2>1 DEF Market, Moved, Kept, Even
  <2>8. Backed(g)
    BY <2>1, BackedSame DEF Market, Moved, Result, Good
  <2>9. QED
    BY <1>1, <2>2, <2>3, <2>4, <2>5, <2>6, <2>7, <2>8 DEF Market
<1>2. QED
  BY <1>1 DEF Result, Sound, Moved

\* ... and after the postconditions.
LEMMA AssertSteadyResult ==
    ASSUME NEW e, Result(e), NEW g, Moved(e, g), g.side = e.side, SamePositions(e.acc, g.acc),
           Ok(g) => e.market_mode = "Live" \/ SamePnl(e, g),
           NEW f, f = AssertPostconditions(g)
    PROVE  Result(f) /\ Moved(e, f) /\ f.vault = g.vault
<1>1. Sound(g, f) /\ (Ok(f) => f = g /\ PostconditionsHold(g))
  BY PostconditionsSound DEF Moved
<1>2. ~Ok(f) => Result(f)
  BY <1>1 DEF Result, Sound, Moved
<1>3. ASSUME Ok(f) PROVE Result(f)
  <2>1. f = g /\ PostconditionsHold(g)
    BY <1>1, <1>3
  <2>2. Ok(g) => g.vault >= g.c_tot + g.insurance
    BY <2>1 DEF PostconditionsHold
  <2>3. Result(g)
    BY <2>2, SteadyResult
  <2>4. QED
    BY <2>1, <2>3
<1>4. QED
  BY <1>1, <1>2, <1>3, SoundMoved, MovedTrans DEF Sound

\* charge_account_fee_not_atomic
LEMMA ChargeFeeResult ==
    ASSUME NEW e, Result(e), NEW i \in Accounts, NEW fee \in Int, NEW now \in Int
    PROVE  Result(ChargeFeeOp(e, i, fee, now))
<1>1. PICK c : c = ClockOnly(e, now)
  OBVIOUS
<1>2. Sound(e, c) /\ Steady(e, c, Accounts) /\ Good(c)
  BY <1>1, ClockOnlySound DEF Result, Sound, Moved
<1>3. PICK cond : cond = (i \in e.used)
  OBVIOUS
<1>4. PICK r : r = RejectUnless(c, cond)
  OBVIOUS
<1>5. Sound(c, r) /\ Steady(c, r, Accounts) /\ (Ok(r) => i \in e.used)
  <2>1. Sound(c, r) /\ Steady(c, r, Accounts) /\ (Ok(r) => cond)
    BY <1>2, <1>4, RejectUnlessSound
  <2>2. QED
    BY <1>3, <2>1, Zenon
<1>6. Sound(e, r) /\ Steady(e, r, Accounts) /\ Good(r)
  BY <1>2, <1>5, SoundTrans, SteadyTrans DEF Sound, Moved
<1>7. Member(r, i)
  BY <1>5, <1>6 DEF Member, Sound, Moved, Kept, Alike
<1>8. PICK g : g = ChargeFee(r, i, fee)
  OBVIOUS
<1>9. Sound(e, g) /\ Steady(e, g, Accounts)
  BY <1>6, <1>7, <1>8, ChargeFeeSound, ChargeFeeSteady, SoundTrans, SteadyTrans
<1>10. ChargeFeeOp(e, i, fee, now) = AssertPostconditions(g)
  BY <1>1, <1>3, <1>4, <1>8 DEF ChargeFeeOp
<1>11. QED
  BY <1>9, <1>10, SoundMoved, AssertSteadyResult DEF Steady, SamePnl

\* settle_flat_negative_pnl_not_atomic
LEMMA SettleFlatNegativeResult ==
    ASSUME NEW e, Result(e), NEW i \in Accounts, NEW now \in Int
    PROVE  Result(SettleFlatNegativeOp(e, i, now))
<1>1. PICK c : c = ClockOnly(e, now)
  OBVIOUS
<1>2. Sound(e, c) /\ Steady(e, c, Accounts) /\ Good(c) /\ (Ok(c) => e.market_mode = "Live")
  BY <1>1, ClockOnlySound DEF Result, Sound, Moved
<1>3. PICK cond : cond = (i \in e.used /\ Untouched(e.acc[i]))
  OBVIOUS
<1>4. PICK r : r = RejectUnless(c, cond)
  OBVIOUS
<1>5. Sound(c, r) /\ Steady(c, r, Accounts) /\ (Ok(r) => r = c /\ i \in e.used)
  BY <1>2, <1>3, <1>4, RejectUnlessSound
<1>6. Sound(e, r) /\ Steady(e, r, Accounts) /\ Good(r) /\ (Ok(r) => e.market_mode = "Live")
  BY <1>2, <1>5, SoundTrans, SteadyTrans DEF Sound, Moved
<1>7. Member(r, i)
  BY <1>5, <1>6 DEF Member, Sound, Moved, Kept, Alike
<1>8. PICK l : l = SettleLosses(r, i)
  OBVIOUS
<1>9. Sound(r, l) /\ Steady(r, l, Accounts \ {i})
  BY <1>6, <1>7, <1>8, SettleLossesSound, SettleLossesSteady
<1>10. Good(l) /\ Member(l, i)
  BY <1>7, <1>9, MemberKept
<1>11. PICK g : g = ResolveFlatNegative(l, i)
  OBVIOUS
<1>12. Sound(l, g) /\ Steady(l, g, Accounts \ {i})
  BY <1>10, <1>11, FlatNegativeSound, FlatNegativeSteady
<1>13. Sound(e, g) /\ g.side = e.side /\ SamePositions(e.acc, g.acc)
       /\ (Ok(g) => e.market_mode = "Live")
  <2>1. Sound(e, g)
    BY <1>6, <1>9, <1>12, SoundTrans
  <2>2. g.side = e.side /\ SamePositions(e.acc, g.acc)
    BY <1>6, <1>9, <1>12 DEF Steady, SamePositions
  <2>3. Ok(g) => Ok(r)
    BY <1>9, <1>12 DEF Sound, Moved, Kept, Alike
  <2>4. QED
    BY <1>6, <2>1, <2>2, <2>3
<1>14. SettleFlatNegativeOp(e, i, now) \in {e, AssertPostconditions(g)}
  BY <1>1, <1>3, <1>4, <1>8, <1>11 DEF SettleFlatNegativeOp
<1>15. QED
  BY <1>13, <1>14, SoundMoved, AssertSteadyResult

\* deposit_fee_credits: the vault and the insurance fund grow alike.
LEMMA DepositFeeCreditsResult ==
    ASSUME NEW e, Result(e), NEW i \in Accounts, NEW amount \in Int, NEW now \in Int
    PROVE  Result(DepositFeeCreditsOp(e, i, amount, now))
<1>1. PICK c : c = ClockOnly(e, now)
  OBVIOUS
<1>2. Sound(e, c) /\ Steady(e, c, Accounts) /\ Good(c) /\ c.vault = e.vault /\ c.c_tot = e.c_tot
      /\ c.insurance = e.insurance /\ (Ok(c) => e.market_mode = "Live")
  BY <1>1, ClockOnlySound DEF Result, Sound, Moved
<1>3. PICK cond : cond = (/\ i \in e.used /\ amount <= FeeDebt(e.acc[i])
                          /\ e.vault + amount <= MAX_VAULT_TVL)
  OBVIOUS
<1>4. PICK r : r = RejectUnless(c, cond)
  OBVIOUS
<1>5. Sound(c, r) /\ Steady(c, r, Accounts) /\ (Ok(r) => i \in e.used) /\ r.vault = e.vault
      /\ r.c_tot = e.c_tot /\ r.insurance = e.insurance
  <2>1. Sound(c, r) /\ Steady(c, r, Accounts) /\ (Ok(r) => cond) /\ r.vault = c.vault
        /\ r.c_tot = c.c_tot /\ r.insurance = c.insurance
    BY <1>2, <1>4, RejectUnlessSound
  <2>2. cond => i \in e.used
    BY <1>3, Zenon
  <2>3. QED
    BY <1>2, <2>1, <2>2
<1>6. Sound(e, r) /\ Steady(e, r, Accounts) /\ Good(r)
  BY <1>2, <1>5, SoundTrans, SteadyTrans DEF Sound, Moved
<1>7. Member(r, i)
  BY <1>5, <1>6 DEF Member, Sound, Moved, Kept, Alike
<1>8. r \in EngineType /\ r.acc[i] \in AccountType /\ e \in EngineType
  BY <1>6, EngineFields DEF Good, Result
<1>9. r.acc[i].fee_credits \in Int /\ r.insurance \in Int /\ r.vault \in Int /\ r.c_tot \in Int
  BY <1>8, EngineFields, AccountFields
<1>10. PICK x \in Int, w \in Int, v \in Int :
          x = r.acc[i].fee_credits + amount /\ w = r.insurance + amount /\ v = r.vault + amount
  BY <1>9
<1>11. PICK m : m = FeeMove(r, i, x, w)
  OBVIOUS
<1>12. Sound(r, m) /\ Steady(r, m, Accounts) /\ Good(m)
  <2>1. Sound(r, m)
    BY <1>6, <1>7, <1>10, <1>11, FeeMoved DEF FeeMove
  <2>2. Steady(r, m, Accounts)
    BY <1>8, <1>11, FeeMoveSteady
  <2>3. QED
    BY <2>1, <2>2 DEF Sound, Moved
<1>13. PICK g : g = Cash(m, v, w)
  OBVIOUS
<1>14. Member(m, i)
  BY <1>7, <1>12, MemberKept
<1>15. Moved(m, g)
  <2>1. Ok(m) => m.used # {}
    BY <1>14 DEF Member
  <2>2. QED
    BY <1>12, <1>13, <2>1, MoneyMoved
<1>16. g.side = m.side /\ g.vault = v /\ g.insurance = w /\ g.c_tot = r.c_tot /\ m.side = r.side
  BY <1>8, <1>11, <1>12, <1>13 DEF EngineType, FeeMove, Good, Cash
<1>17. Moved(e, g) /\ g.side = e.side /\ SamePositions(e.acc, g.acc)
  <2>1. g.acc = m.acc
    BY <1>12, <1>13 DEF EngineType, Good, Cash
  <2>2. QED
    BY <1>6, <1>12, <1>15, <1>16, <2>1, SoundMoved, MovedTrans DEF Steady, SamePositions
<1>18. Ok(g) => g.vault >= g.c_tot + g.insurance
  <2>1. ASSUME Ok(g) PROVE e.vault >= e.c_tot + e.insurance
    BY <1>17, <2>1 DEF Sound, Moved, Kept, Alike, Result, Market
  <2>2. QED
    BY <1>5, <1>9, <1>10, <1>16, <2>1
<1>19. Ok(g) => e.market_mode = "Live"
  BY <1>2, <1>5, <1>12, <1>15 DEF Sound, Moved, Kept, Alike
<1>20. DepositFeeCreditsOp(e, i, amount, now) = g
  <2>1. DepositFeeCreditsOp(e, i, amount, now)
          = [r EXCEPT !.vault = @ + amount, !.insurance = @ + amount,
                      !.acc[i].fee_credits = @ + amount]
    BY <1>1, <1>3, <1>4 DEF DepositFeeCreditsOp
  <2>2. QED
    BY <1>8, <1>10, <1>11, <1>13, <2>1 DEF FeeMove, EngineType, Cash
<1>21. QED
  BY <1>17, <1>18, <1>19, <1>20, SteadyResult

\* sync_account_fee_to_slot_not_atomic, live or resolved
LEMMA FeeSlotSteady ==
    ASSUME NEW e, Good(e), NEW i, Member(e, i), NEW t \in Int, NEW f,
           f = [e EXCEPT !.acc[i].last_fee_slot = t]
    PROVE  Sound(e, f) /\ Steady(e, f, Accounts)
<1>1. e \in EngineType /\ i \in Accounts /\ e.acc[i] \in AccountType
  BY EngineFields DEF Good, Member
<1>2. PICK b : b = [e.acc[i] EXCEPT !.last_fee_slot = t]
  OBVIOUS
<1>3. b \in AccountType /\ SameClaims(e.acc[i], b)
  BY <1>1, <1>2 DEF AccountType, SameClaims
<1>4. f = [e EXCEPT !.acc[i] = b]
  BY <1>1, <1>2 DEF EngineType
<1>5. Sound(e, f)
  BY <1>3, <1>4, QuietSound
<1>6. f.side = e.side /\ f.acc = [e.acc EXCEPT ![i] = b] /\ f.ctx = e.ctx
  BY <1>1, <1>4 DEF EngineType
<1>7. /\ b.position_basis_q = e.acc[i].position_basis_q /\ b.pnl = e.acc[i].pnl
      /\ b.adl_epoch_snap = e.acc[i].adl_epoch_snap /\ b.adl_a_basis = e.acc[i].adl_a_basis
  BY <1>1, <1>2 DEF AccountType
<1>8. QED
  BY <1>1, <1>5, <1>6, <1>7, ReplaceSteady

\* sync_account_fee_to_slot_not_atomic
LEMMA SyncFeeResult ==
    ASSUME NEW e, Result(e), NEW i \in Accounts, NEW now \in Int, NEW fee_rate \in Int
    PROVE  Result(SyncFeeOp(e, i, now, fee_rate))
<1>1. e \in EngineType /\ Good(e) /\ e.acc[i] \in AccountType /\ e.resolved.slot \in Int
  BY EngineFields DEF Result, Good, ResolvedType
<1>2. PICK anchor \in Int : anchor = IF e.market_mode = "Live" THEN now ELSE e.resolved.slot
  BY <1>1
<1>3. PICK dt \in Int : dt = anchor - e.acc[i].last_fee_slot
  <2>1. e.acc[i].last_fee_slot \in Int
    BY <1>1, AccountFields
  <2>2. anchor - e.acc[i].last_fee_slot \in Int
    BY <1>2, <2>1
  <2>3. QED
    BY <2>2
<1>4. PICK cond : cond = (now >= e.current_slot)
  OBVIOUS
<1>5. PICK ok : ok = IF e.market_mode = "Live" THEN ClockOnly(e, now) ELSE RejectUnless(e, cond)
  OBVIOUS
<1>6. Sound(e, ok) /\ Steady(e, ok, Accounts) /\ Good(ok)
  BY <1>1, <1>5, ClockOnlySound, RejectUnlessSound DEF Sound, Moved
<1>7. PICK paid : paid = (i \in e.used /\ dt >= 0)
  OBVIOUS
<1>8. PICK r : r = RejectUnless(ok, paid)
  OBVIOUS
<1>9. Sound(ok, r) /\ Steady(ok, r, Accounts) /\ (Ok(r) => i \in e.used)
  BY <1>6, <1>7, <1>8, RejectUnlessSound
<1>10. Sound(e, r) /\ Steady(e, r, Accounts) /\ Good(r)
  BY <1>6, <1>9, SoundTrans, SteadyTrans DEF Sound, Moved
<1>11. Member(r, i)
  BY <1>9, <1>10 DEF Member, Sound, Moved, Kept, Alike
<1>12. PICK x \in Int : x = fee_rate * dt
  BY ProductInt
<1>13. PICK fee : fee = ChargeFee(r, i, x)
  OBVIOUS
<1>14. Sound(r, fee) /\ Steady(r, fee, Accounts)
  BY <1>10, <1>11, <1>13, ChargeFeeSound, ChargeFeeSteady
<1>15. Good(fee) /\ Member(fee, i)
  BY <1>11, <1>14, MemberKept
<1>16. PICK g : g = [fee EXCEPT !.acc[i].last_fee_slot = anchor]
  OBVIOUS
<1>17. Sound(fee, g) /\ Steady(fee, g, Accounts)
  BY <1>15, <1>16, FeeSlotSteady
<1>18. Sound(e, g) /\ Steady(e, g, Accounts)
  BY <1>10, <1>14, <1>17, SoundTrans, SteadyTrans
<1>19. SyncFeeOp(e, i, now, fee_rate) = AssertPostconditions(g)
  BY <1>2, <1>3, <1>4, <1>5, <1>7, <1>8, <1>12, <1>13, <1>16 DEF SyncFeeOp
<1>20. QED
  BY <1>18, <1>19, SoundMoved, AssertSteadyResult DEF Steady, SamePnl

\* top_up_insurance_fund
LEMMA TopUpResult ==
    ASSUME NEW e, Result(e), NEW amount \in Int, NEW now \in Int
    PROVE  /\ Result(TopUpOp(e, amount, now))
           /\ Ok(TopUpOp(e, amount, now)) => Ok(e)
           /\ TopUpOp(e, amount, now).used = e.used /\ TopUpOp(e, amount, now).acc = e.acc
<1>1. PICK c : c = ClockOnly(e, now)
  OBVIOUS
<1>2. /\ Sound(e, c) /\ Steady(e, c, Accounts) /\ Good(c) /\ c.vault = e.vault
      /\ c.c_tot = e.c_tot /\ c.insurance = e.insurance /\ c.acc = e.acc
  BY <1>1, ClockOnlySound DEF Result, Sound, Moved
<1>3. PICK cond : cond = (e.vault + amount <= MAX_VAULT_TVL)
  OBVIOUS
<1>4. PICK r : r = RejectUnless(c, cond)
  OBVIOUS
<1>5. /\ Sound(c, r) /\ Steady(c, r, Accounts) /\ r.vault = c.vault
      /\ r.c_tot = c.c_tot /\ r.insurance = c.insurance /\ r.acc = c.acc
  BY <1>2, <1>4, RejectUnlessSound
<1>6. Sound(e, r) /\ Steady(e, r, Accounts) /\ Good(r) /\ r.side = e.side
  BY <1>2, <1>5, SoundTrans, SteadyTrans DEF Sound, Moved, Steady
<1>7. Result(r)
  <2>1. Ok(r) => r.vault >= r.c_tot + r.insurance
    BY <1>2, <1>5, <1>6 DEF Sound, Moved, Kept, Alike, Result, Market
  <2>2. SamePositions(e.acc, r.acc) /\ SamePnl(e, r)
    BY <1>6 DEF Steady, SamePnl
  <2>3. QED
    BY <1>6, <2>1, <2>2, SoundMoved, SteadyResult
<1>8. r.vault \in Int /\ r.insurance \in Int /\ r.c_tot \in Int
  BY <1>6, EngineFields DEF Good
<1>9. PICK v \in Int, w \in Int : v = r.vault + amount /\ w = r.insurance + amount
  BY <1>8
<1>10. PICK f : f = Cash(r, v, w)
  OBVIOUS
<1>11. /\ Good(f) /\ f.vault = v /\ f.insurance = w /\ f.c_tot = r.c_tot
       /\ f.side = r.side /\ f.acc = r.acc /\ f.used = r.used
       /\ f.market_mode = r.market_mode /\ f.resolved = r.resolved /\ f.err = r.err
  <2>1. Good(f)
    BY <1>6, <1>10, MoneyGood
  <2>2. QED
    BY <1>6, <1>10, <2>1 DEF EngineType, Good, Cash
<1>12. TopUpOp(e, amount, now) = f
  BY <1>1, <1>3, <1>4, <1>9, <1>10 DEF TopUpOp, Cash
<1>13. ASSUME Ok(f) PROVE Market(f)
  <2>1. Market(r)
    BY <1>7, <1>11, <1>13 DEF Result, Ok
  <2>2. f.vault >= f.c_tot + f.insurance /\ (f.used = {} => f.vault = f.insurance)
    BY <1>8, <1>9, <1>11, <2>1 DEF Market
  <2>3. Cleared(f) /\ (NoOpenInterest(r) => NoOpenInterest(f)) /\ (AllSettled(r) => AllSettled(f))
    BY <1>11, <2>1 DEF Market, Cleared, NoOpenInterest, AllSettled
  <2>4. Epochs(f) /\ Even(f)
    BY <1>11, <2>1 DEF Market, Epochs, Even
  <2>5. Backed(f)
    BY <1>11, <2>1 DEF Market, Backed, SideBacked
  <2>6. QED
    BY <1>11, <2>1, <2>2, <2>3, <2>4, <2>5 DEF Market
<1>14. f.used = e.used /\ f.acc = e.acc /\ (Ok(f) => Ok(e))
  BY <1>2, <1>5, <1>6, <1>11 DEF Sound, Moved, Kept, Alike, Ok
<1>15. QED
  BY <1>11, <1>12, <1>13, <1>14 DEF Result

-----------------------------------------------------------------------------
(* Opening and freeing an account's slot *)

\* An empty account is of its type and holds nothing.
LEMMA EmptyAccountSound == EmptyAccount \in AccountType /\ Unclaimed(EmptyAccount)
<1>1. PICK o : o = ADL_ONE
  OBVIOUS
<1>2. o \in Nat \ {0}
  BY <1>1, Consts
<1>3. EmptyAccount =
        [capital |-> 0, pnl |-> 0, reserved_pnl |-> 0, sched |-> NoSched, pending |-> NoPending,
         position_basis_q |-> 0, adl_a_basis |-> o, adl_k_snap |-> 0, f_snap |-> 0,
         adl_epoch_snap |-> 0, fee_credits |-> 0, last_fee_slot |-> 0]
  BY <1>1 DEF EmptyAccount
<1>4. QED
  BY <1>2, <1>3, NoBuckets DEF AccountType, Unclaimed

\* An account without a position is of every epoch.
LEMMA FlatOfEpoch ==
    ASSUME NEW a, a.position_basis_q = 0, NEW s \in Side, NEW o
    PROVE  OfEpoch(a, s, o)
  BY DEF OfEpoch, SideOf, Side

\* The record of an account that claims nothing is replaced by another such
\* record, and the account enters or leaves the set of those in use.
SlotAs(e, i, u, a) == [e EXCEPT !.used = u, !.acc[i] = a]

\* A slot is claimed or freed while its account holds nothing.
LEMMA SlotSound ==
    ASSUME NEW e, Good(e), NEW i \in Accounts, NEW a \in AccountType, Unclaimed(a),
           Ok(e) => Unclaimed(e.acc[i]), NEW u \in SUBSET Accounts,
           e.used \subseteq u \union {i}, NEW f, f = SlotAs(e, i, u, a)
    PROVE  Good(f)
<1>1. e \in EngineType /\ e.acc \in [Accounts -> AccountType]
  BY EngineFields DEF Good
<1>2. /\ f \in EngineType /\ f.acc = [e.acc EXCEPT ![i] = a] /\ f.used = u
      /\ f.c_tot = e.c_tot /\ f.pnl_pos_tot = e.pnl_pos_tot
      /\ f.pnl_matured_pos_tot = e.pnl_matured_pos_tot /\ f.market_mode = e.market_mode
      /\ f.neg_pnl_account_count = e.neg_pnl_account_count /\ f.side = e.side /\ f.err = e.err
  BY <1>1 DEF SlotAs, EngineType
<1>3. \A j \in Accounts : f.acc[j] = IF j = i THEN a ELSE e.acc[j]
  BY <1>1, <1>2
<1>4. ASSUME Ok(e) PROVE Books(f)
  <2>1. Books(e) /\ Unclaimed(e.acc[i])
    BY <1>4 DEF Good
  <2>2. \A j \in Accounts : /\ f.acc[j].capital = e.acc[j].capital
                            /\ f.acc[j].pnl = e.acc[j].pnl
                            /\ f.acc[j].reserved_pnl = e.acc[j].reserved_pnl
                            /\ f.acc[j].position_basis_q = e.acc[j].position_basis_q
    BY <1>3, <2>1 DEF Unclaimed
  <2>3. /\ Capitals(f) = Capitals(e) /\ Profits(f) = Profits(e) /\ Releases(f) = Releases(e)
        /\ Negatives(f) = Negatives(e) /\ \A s \in Side : Stored(f, s) = Stored(e, s)
    BY <2>2 DEF Capitals, Profits, Releases, Negatives, Stored
  <2>4. Sums(f)
    BY <1>2, <2>1, <2>3 DEF Books, Sums
  <2>5. \A j \in Accounts : f.acc[j].capital >= 0 /\ f.acc[j].reserved_pnl <= Pos(f.acc[j].pnl)
    BY <2>1, <2>2 DEF Books
  <2>6. ASSUME NEW j \in Accounts, j \notin f.used PROVE Unclaimed(f.acc[j])
    <3>1. CASE j = i
      BY <1>3, <3>1
    <3>2. CASE j # i
      BY <1>2, <1>3, <2>1, <2>6, <3>2 DEF Books
    <3>3. QED
      BY <3>1, <3>2
  <2>7. QED
    BY <2>4, <2>5, <2>6 DEF Books
<1>5. QED
  BY <1>2, <1>4 DEF Good, Ok

\* ... and is in no side's open interest.
LEMMA SlotBacked ==
    ASSUME NEW e \in EngineType, NEW f \in EngineType, NEW i \in Accounts, NEW a \in AccountType,
           e.acc[i].position_basis_q = 0, a.position_basis_q = 0,
           f.acc = [e.acc EXCEPT ![i] = a], f.side = e.side, f.ctx = e.ctx,
           f.market_mode = e.market_mode, Backed(e)
    PROVE  Backed(f)
<1>1. \A j \in Accounts : f.acc[j] = IF j = i THEN a ELSE e.acc[j]
  BY EngineFields
<1>2. \A s \in Side : e.side[s].dust \in Int /\ e.side[s].stored \in Int
  BY EngineFields, SideFields
<1>3. \A s \in Side : SideOf(0) # s
  BY DEF SideOf, Side
<1>4. Replaced(e, f, i, 0, a.adl_epoch_snap)
  BY <1>1, <1>2, <1>3 DEF Replaced, Bit
<1>5. \A s \in Side : Portion(e, i, s) = 0
  <2>1. \A s \in Side : InForce(e.acc, s, e.side[s].epoch)[i] = 0
    BY <1>3 DEF InForce
  <2>2. QED
    BY <2>1, PortionZero
<1>6. QED
  BY <1>4, <1>5, BacksClosed DEF Backed, SideBacked

\* materialize_at
LEMMA MaterializedResult ==
    ASSUME NEW e, Result(e), Ok(e) => e.market_mode = "Live", NEW i \in Accounts,
           Ok(e) => i \notin e.used, NEW now \in Int, NEW f, f = Materialized(e, i, now)
    PROVE  /\ Result(f) /\ Member(f, i) /\ f.market_mode = e.market_mode /\ f.vault = e.vault
           /\ f.used = e.used \union {i} /\ (Ok(f) => Ok(e)) /\ (Ok(f) /\ Flat(e) => Flat(f))
<1>1. e \in EngineType /\ Good(e) /\ e.used \in SUBSET Accounts
  BY EngineFields DEF Result, Good
<1>2. PICK z : z = EmptyAccount
  OBVIOUS
<1>3. z \in AccountType /\ Unclaimed(z)
  BY <1>2, EmptyAccountSound
<1>4. PICK a : a = [z EXCEPT !.last_fee_slot = now]
  OBVIOUS
<1>5. a \in AccountType /\ Unclaimed(a)
  BY <1>3, <1>4 DEF AccountType, Unclaimed
<1>6. PICK u : u = e.used \union {i}
  OBVIOUS
<1>7. f = SlotAs(e, i, u, a)
  BY <1>2, <1>4, <1>6 DEF Materialized, SlotAs
<1>8. Ok(e) => Unclaimed(e.acc[i])
  BY <1>1 DEF Good, Books
<1>9. Good(f)
  BY <1>1, <1>5, <1>6, <1>7, <1>8, SlotSound
<1>10. /\ f.used = u /\ f.side = e.side /\ f.vault = e.vault /\ f.insurance = e.insurance
       /\ f.c_tot = e.c_tot /\ f.market_mode = e.market_mode /\ f.resolved = e.resolved
       /\ f.err = e.err /\ f.acc = [e.acc EXCEPT ![i] = a] /\ f.ctx = e.ctx
  BY <1>1, <1>7 DEF SlotAs, EngineType
<1>11. ASSUME Ok(f) PROVE Market(f)
  <2>1. Market(e) /\ e.market_mode = "Live"
    BY <1>10, <1>11 DEF Result, Ok
  <2>2. e.acc \in [Accounts -> AccountType] /\ a.position_basis_q = 0
    BY <1>1, <1>5, EngineFields DEF Unclaimed
  <2>3. \A j \in Accounts : f.acc[j] = IF j = i THEN a ELSE e.acc[j]
    BY <1>10, <2>2
  <2>4. Epochs(f) /\ Even(f)
    BY <1>10, <2>1, <2>2, <2>3, FlatOfEpoch DEF Market, Epochs, Even
  <2>5. Backed(f)
    <3>1. e.acc[i].position_basis_q = 0
      BY <1>8, <1>10, <1>11 DEF Unclaimed, Ok
    <3>2. QED
      BY <1>1, <1>5, <1>9, <1>10, <2>1, <2>2, <3>1, SlotBacked DEF Market, Good
  <2>6. QED
    BY <1>6, <1>10, <2>1, <2>4, <2>5 DEF Market, Cleared
<1>12. Flat(e) => Flat(f)
  <2>1. e.acc \in [Accounts -> AccountType] /\ a.position_basis_q = 0
    BY <1>1, <1>5, EngineFields DEF Unclaimed
  <2>2. QED
    BY <1>10, <2>1 DEF Flat
<1>13. QED
  BY <1>6, <1>9, <1>10, <1>11, <1>12 DEF Result, Member, Ok

\* deposit_not_atomic, after the account is there
LEMMA DepositedResult ==
    ASSUME NEW o, Result(o), Ok(o) => o.market_mode = "Live", NEW i, Member(o, i),
           NEW amount \in Nat, NEW now \in Int, NEW paid,
           paid = Paid([o EXCEPT !.current_slot = now], i, amount)
    PROVE  /\ Result(AssertPostconditions(SweepWhenFlat(SettleLosses(paid, i), i)))
           /\ Moved(o, AssertPostconditions(SweepWhenFlat(SettleLosses(paid, i), i)))
           /\ AssertPostconditions(SweepWhenFlat(SettleLosses(paid, i), i)).vault = o.vault + amount
<1>1. o \in EngineType /\ Good(o) /\ o.last_market_slot \in Int /\ o.last_oracle_price \in Int
      /\ i \in Accounts
  BY EngineFields DEF Result, Good, Member
<1>2. PICK c : c = [o EXCEPT !.current_slot = now, !.last_market_slot = o.last_market_slot,
                             !.last_oracle_price = o.last_oracle_price]
  OBVIOUS
<1>3. c = [o EXCEPT !.current_slot = now]
  BY <1>1, <1>2 DEF EngineType
<1>4. Sound(o, c) /\ c.side = o.side
  <2>1. Sound(o, c)
    BY <1>1, <1>2, ClockSound
  <2>2. QED
    BY <1>1, <1>3, <2>1 DEF EngineType
<1>5. Good(c) /\ Member(c, i) /\ c \in EngineType
  BY <1>4, MemberKept DEF Good
<1>6. paid = Paid(c, i, amount)
  BY <1>3
<1>7. Moved(c, paid) /\ Steady(c, paid, Accounts) /\ paid.vault = c.vault + amount
  <2>1. c.acc[i].capital \in Int
    BY <1>1, <1>5, EngineFields, AccountFields
  <2>2. Ok(c) => c.acc[i].capital + amount >= 0
    BY <1>1, <1>5, <2>1 DEF Good, Books
  <2>3. amount \in Int
    OBVIOUS
  <2>4. QED
    BY <1>1, <1>5, <1>6, <2>2, <2>3, PaidMoved, PaidSteady
<1>8. Good(paid) /\ Member(paid, i)
  BY <1>5, <1>7, MemberMoved
<1>9. PICK l : l = SettleLosses(paid, i)
  OBVIOUS
<1>10. Sound(paid, l) /\ Steady(paid, l, Accounts \ {i})
  BY <1>8, <1>9, SettleLossesSound, SettleLossesSteady
<1>11. Good(l) /\ Member(l, i)
  BY <1>8, <1>10, MemberKept
<1>12. PICK g : g = SweepWhenFlat(l, i)
  OBVIOUS
<1>13. Sound(l, g) /\ g.side = l.side /\ SamePositions(l.acc, g.acc)
  <2>1. g \in {l, FeeDebtSweep(l, i)}
    BY <1>12 DEF SweepWhenFlat
  <2>2. SamePositions(l.acc, l.acc)
    BY DEF SamePositions
  <2>3. QED
    BY <1>11, <2>1, <2>2, SoundRefl, FeeDebtSweepSound, FeeDebtSweepSteady DEF Steady
<1>14. Moved(o, g) /\ g.vault = o.vault + amount
  <2>1. Moved(o, c) /\ Moved(paid, l) /\ Moved(l, g)
    BY <1>4, <1>10, <1>13 DEF Sound
  <2>2. QED
    BY <1>4, <1>7, <1>10, <1>13, <2>1, MovedTrans DEF Sound
<1>15. g.side = o.side /\ SamePositions(o.acc, g.acc)
  <2>1. c.acc = o.acc
    BY <1>1, <1>3 DEF EngineType
  <2>2. QED
    BY <1>4, <1>7, <1>10, <1>13, <2>1 DEF Steady, SamePositions
<1>16. Ok(g) => o.market_mode = "Live"
  BY <1>14 DEF Moved, Kept, Alike
<1>17. QED
  BY <1>9, <1>12, <1>14, <1>15, <1>16, AssertSteadyResult

\* deposit_not_atomic
LEMMA DepositResult ==
    ASSUME NEW e, Result(e), NEW i \in Accounts, NEW amount \in Nat, NEW now \in Int
    PROVE  /\ Result(DepositOp(e, i, amount, now))
           /\ Ok(DepositOp(e, i, amount, now)) =>
                 /\ Ok(e)
                 /\ DepositOp(e, i, amount, now).vault = e.vault + amount
                 /\ DepositOp(e, i, amount, now).used = e.used \union {i}
                 /\ Flat(e) => Flat(DepositOp(e, i, amount, now))
<1>1. PICK o : o = IF i \in e.used THEN e ELSE Materialized(e, i, now)
  OBVIOUS
<1>2. PICK paid : paid = Paid([o EXCEPT !.current_slot = now], i, amount)
  OBVIOUS
<1>3. PICK g : g = AssertPostconditions(SweepWhenFlat(SettleLosses(paid, i), i))
  OBVIOUS
<1>4. IF e.market_mode # "Live" THEN DepositOp(e, i, amount, now) = Reject(e)
      ELSE DepositOp(e, i, amount, now) \in {Reject(e), g}
  BY <1>1, <1>2, <1>3 DEF DepositOp
<1>5. Result(Reject(e)) /\ ~Ok(Reject(e))
  BY FailedResult, RejectSound DEF Result, Good
<1>6. ASSUME e.market_mode = "Live"
      PROVE  /\ Result(g) /\ g.vault = e.vault + amount
             /\ Ok(g) => Ok(e) /\ g.used = e.used \union {i} /\ (Flat(e) => Flat(g))
  <2>1. Result(o) /\ Member(o, i) /\ o.market_mode = "Live" /\ o.vault = e.vault
        /\ o.used = e.used \union {i} /\ (Ok(o) => Ok(e)) /\ (Ok(o) /\ Flat(e) => Flat(o))
    <3>1. CASE i \in e.used
      BY <1>1, <1>6, <3>1 DEF Member
    <3>2. CASE i \notin e.used
      BY <1>1, <1>6, <3>2, MaterializedResult
    <3>3. QED
      BY <3>1, <3>2
  <2>2. Result(g) /\ Moved(o, g) /\ g.vault = o.vault + amount
    BY <1>2, <1>3, <2>1, DepositedResult
  <2>3. Ok(g) => Ok(o)
    BY <2>2 DEF Moved, Kept, Alike
  <2>4. QED
    BY <2>1, <2>2, <2>3 DEF Moved, Kept, Alike
<1>7. QED
  BY <1>4, <1>5, <1>6

\* A market without accounts has no totals and no positions.
LEMMA EmptyBooks ==
    ASSUME NEW e \in EngineType, Books(e), e.used = {}
    PROVE  /\ e.c_tot = 0 /\ e.pnl_pos_tot = 0 /\ e.pnl_matured_pos_tot = 0
           /\ \A s \in Side : e.side[s].stored = 0
<1>1. \A j \in Accounts : Unclaimed(e.acc[j])
  BY DEF Books
<1>2. /\ \A j \in Accounts : Capitals(e)[j] = 0 /\ Profits(e)[j] = 0 /\ Releases(e)[j] = 0
      /\ \A s \in Side : \A j \in Accounts : Stored(e, s)[j] = 0
  BY <1>1 DEF Unclaimed, Capitals, Profits, Releases, Stored, Bit, Pos, SideOf, Side
<1>3. /\ Sum(Capitals(e)) = 0 /\ Sum(Profits(e)) = 0 /\ Sum(Releases(e)) = 0
      /\ \A s \in Side : Sum(Stored(e, s)) = 0
  BY <1>2, TermTypes, Consts, SumZero DEF Sum
<1>4. QED
  BY <1>3 DEF Books, Sums

\* The slot of i is free, and nothing else has changed hands.
Left(e, f, i) == Ok(e) /\ f.used = e.used \ {i} /\ (Flat(e) => Flat(f))

\* Everything that must hold before the slot of i is freed.
Closable(e, i) ==
    /\ Cleared(e) /\ Epochs(e) /\ Backed(e)
    /\ e.market_mode # "Live" => NoOpenInterest(e)
    /\ e.market_mode = "Live" => ~e.resolved.ready
    /\ e.resolved.ready =>
          \A j \in Accounts \ {i} : e.acc[j].position_basis_q = 0 /\ e.acc[j].pnl >= 0

\* free_slot: the books stay exact, and the other accounts are as they were.
LEMMA FreedSound ==
    ASSUME NEW e, Good(e), NEW i, Member(e, i), Ok(e) => Closable(e, i),
           NEW f, f = Freed(e, i)
    PROVE  /\ Good(f) /\ f.vault = e.vault
           /\ Ok(f) => /\ Cleared(f) /\ Epochs(f) /\ Backed(f)
                       /\ f.market_mode # "Live" => NoOpenInterest(f)
                       /\ f.market_mode = "Live" => ~f.resolved.ready
                       /\ f.resolved.ready => AllSettled(f)
                       /\ Left(e, f, i)
<1>1. e \in EngineType /\ e.acc \in [Accounts -> AccountType] /\ e.used \in SUBSET Accounts
      /\ i \in Accounts
  BY EngineFields DEF Good, Member
<1>2. PICK z : z = EmptyAccount
  OBVIOUS
<1>3. z \in AccountType /\ Unclaimed(z)
  BY <1>2, EmptyAccountSound
<1>4. PICK u : u = e.used \ {i}
  OBVIOUS
<1>5. PICK cond : cond = (/\ e.acc[i].pnl = 0 /\ e.acc[i].reserved_pnl = 0
                          /\ e.acc[i].position_basis_q = 0
                          /\ ~e.acc[i].sched.present /\ ~e.acc[i].pending.present
                          /\ e.acc[i].capital = 0 /\ e.acc[i].fee_credits = 0)
  OBVIOUS
<1>6. PICK g : g = SlotAs(e, i, u, z)
  OBVIOUS
<1>7. f = CorruptUnless(g, cond)
  BY <1>2, <1>4, <1>5, <1>6, Zenon DEF Freed, SlotAs
<1>8. cond => Unclaimed(e.acc[i])
  BY <1>5, Zenon DEF Unclaimed
<1>9. /\ g \in EngineType /\ g.acc = [e.acc EXCEPT ![i] = z] /\ g.used = u /\ g.side = e.side
      /\ g.market_mode = e.market_mode /\ g.resolved = e.resolved /\ g.err = e.err
      /\ g.vault = e.vault /\ g.ctx = e.ctx
  BY <1>1, <1>3, <1>4, <1>6 DEF SlotAs, EngineType
<1>10. CASE ~Ok(e) \/ ~cond
  <2>1. (f = g /\ ~Ok(g)) \/ f = Corrupt(g)
    BY <1>7, <1>9, <1>10 DEF CorruptUnless, Ok
  <2>2. QED
    BY <1>9, <2>1, CorruptSound DEF Good, Kept, Alike
<1>11. CASE Ok(e) /\ cond
  <2>1. f = g /\ Unclaimed(e.acc[i])
    BY <1>7, <1>8, <1>11 DEF CorruptUnless
  <2>2. Good(f)
    BY <1>1, <1>3, <1>4, <1>6, <2>1, SlotSound
  <2>3. Closable(e, i)
    BY <1>11
  <2>4. \A j \in Accounts : f.acc[j] = IF j = i THEN z ELSE e.acc[j]
    BY <1>1, <1>9, <2>1
  <2>5. f.resolved.ready => AllSettled(f)
    <3>1. z.position_basis_q = 0 /\ z.pnl >= 0
      BY <1>3 DEF Unclaimed
    <3>2. QED
      BY <1>9, <2>1, <2>3, <2>4, <3>1 DEF AllSettled, Closable
  <2>6. Left(e, f, i)
    <3>1. z.position_basis_q = 0
      BY <1>3 DEF Unclaimed
    <3>2. QED
      BY <1>4, <1>9, <1>11, <2>1, <2>4, <3>1 DEF Left, Flat
  <2>7. Epochs(f)
    <3>1. z.position_basis_q = 0
      BY <1>3 DEF Unclaimed
    <3>2. QED
      BY <1>9, <2>1, <2>3, <2>4, <3>1, FlatOfEpoch DEF Closable, Epochs
  <2>8. Backed(f)
    <3>1. z.position_basis_q = 0 /\ e.acc[i].position_basis_q = 0
      BY <1>3, <2>1 DEF Unclaimed
    <3>2. QED
      BY <1>1, <1>3, <1>9, <2>1, <2>3, <3>1, SlotBacked DEF Closable
  <2>9. QED
    BY <1>9, <2>1, <2>2, <2>3, <2>5, <2>6, <2>7, <2>8 DEF Closable, Cleared, NoOpenInterest
<1>12. QED
  BY <1>10, <1>11

\* free_slot, the sweep of an empty market and the postconditions
LEMMA FreeResult ==
    ASSUME NEW e, Good(e), NEW i, Member(e, i), Ok(e) => Closable(e, i)
    PROVE  /\ Result(FreeAndSweep(e, i)) /\ FreeAndSweep(e, i).vault = e.vault
           /\ Ok(FreeAndSweep(e, i)) => Left(e, FreeAndSweep(e, i), i)
<1>1. PICK f : f = Freed(e, i)
  OBVIOUS
<1>2. /\ Good(f) /\ f \in EngineType /\ f.vault = e.vault
      /\ Ok(f) => /\ Cleared(f) /\ Epochs(f) /\ Backed(f)
                  /\ f.market_mode # "Live" => NoOpenInterest(f)
                  /\ f.market_mode = "Live" => ~f.resolved.ready
                  /\ f.resolved.ready => AllSettled(f)
                  /\ Left(e, f, i)
  BY <1>1, FreedSound DEF Good
<1>3. f.vault \in Int /\ f.insurance \in Int
  BY <1>2, EngineFields
<1>4. PICK v \in Int : v = f.vault
  BY <1>3
<1>5. PICK s : s = Cash(f, v, v)
  OBVIOUS
<1>6. /\ Good(s) /\ s.vault = v /\ s.insurance = v /\ s.side = f.side /\ s.acc = f.acc
      /\ s.market_mode = f.market_mode /\ s.resolved = f.resolved /\ s.err = f.err
      /\ s.used = f.used
  <2>1. Good(s)
    BY <1>2, <1>5, MoneyGood
  <2>2. QED
    BY <1>2, <1>5, <2>1 DEF EngineType, Cash
<1>7. [f EXCEPT !.insurance = f.vault] = s
  BY <1>2, <1>4, <1>5 DEF EngineType, Cash
<1>8. PICK cond : cond = (f.vault >= f.insurance)
  OBVIOUS
<1>9. PICK g : g = SweepSurplus(f)
  OBVIOUS
<1>10. g \in {f, CorruptUnless(s, cond)}
  BY <1>7, <1>8, <1>9 DEF SweepSurplus
<1>11. PICK h : h = CorruptUnless(s, cond)
  OBVIOUS
<1>12. Good(h) /\ (Ok(h) => h = s) /\ h.vault = f.vault
  BY <1>4, <1>6, <1>11, CorruptUnlessSound DEF Sound, Moved
<1>13. Good(g) /\ g.vault = f.vault
  BY <1>2, <1>10, <1>11, <1>12
<1>14. PICK r : r = AssertPostconditions(g)
  OBVIOUS
<1>15. Good(r) /\ (Ok(r) => r = g /\ PostconditionsHold(g)) /\ r.vault = g.vault
  BY <1>13, <1>14, PostconditionsSound DEF Sound, Moved
<1>16. ASSUME Ok(r) PROVE Market(r)
  <2>1. r = g /\ PostconditionsHold(g) /\ Ok(g)
    BY <1>15, <1>16
  <2>2. g = f \/ g = s
    BY <1>10, <1>11, <1>12, <2>1
  <2>3. Ok(f) /\ Books(f)
    BY <1>2, <1>6, <2>1, <2>2 DEF Good, Ok
  <2>4. g.side = f.side /\ g.acc = f.acc /\ g.market_mode = f.market_mode
        /\ g.resolved = f.resolved /\ g.used = f.used
    BY <1>6, <2>2
  <2>5. g.used = {} => g.vault = g.insurance
    <3>1. SUFFICES ASSUME f.used = {} PROVE g.vault = g.insurance
      BY <2>4
    <3>2. /\ f.c_tot = 0 /\ f.pnl_pos_tot = 0 /\ f.pnl_matured_pos_tot = 0
          /\ \A t \in Side : f.side[t].stored = 0
      BY <1>2, <2>3, <3>1, EmptyBooks
    <3>3. \A t \in Side : f.side[t].oi = 0
      BY <1>2, <2>3, <3>2 DEF Cleared
    <3>4. g = h
      BY <1>7, <1>8, <1>9, <1>11, <3>1, <3>2, <3>3 DEF SweepSurplus
    <3>5. QED
      BY <1>6, <1>12, <2>1, <3>4
  <2>6. g.vault >= g.c_tot + g.insurance
    BY <2>1 DEF PostconditionsHold
  <2>7. Cleared(g) /\ (g.market_mode # "Live" => NoOpenInterest(g))
    BY <1>2, <2>3, <2>4 DEF Cleared, NoOpenInterest
  <2>8. g.resolved.ready => AllSettled(g)
    BY <1>2, <2>3, <2>4 DEF AllSettled
  <2>9. g.market_mode = "Live" => ~g.resolved.ready
    BY <1>2, <2>3, <2>4
  <2>10. Epochs(g) /\ Even(g)
    BY <1>2, <2>1, <2>3, <2>4 DEF Epochs, PostconditionsHold, Even
  <2>11. Backed(g)
    <3>1. SamePositions(f.acc, g.acc)
      BY <2>4 DEF SamePositions
    <3>2. g \in EngineType
      BY <1>13 DEF Good
    <3>3. QED
      BY <1>2, <2>3, <2>4, <3>1, <3>2, BackedSame
  <2>12. QED
    BY <2>1, <2>5, <2>6, <2>7, <2>8, <2>9, <2>10, <2>11 DEF Market
<1>17. FreeAndSweep(e, i) = r
  BY <1>1, <1>9, <1>14 DEF FreeAndSweep
<1>18. ASSUME Ok(r) PROVE Left(e, r, i)
  <2>1. r = g /\ Ok(g)
    BY <1>15, <1>18
  <2>2. g = f \/ g = s
    BY <1>10, <1>11, <1>12, <2>1
  <2>3. g.acc = f.acc /\ g.used = f.used /\ Ok(f)
    BY <1>6, <2>1, <2>2 DEF Ok
  <2>4. QED
    BY <1>2, <2>1, <2>3 DEF Left, Flat
<1>19. QED
  BY <1>2, <1>13, <1>15, <1>16, <1>17, <1>18 DEF Result

\* An account's capital leaves the vault.
LEMMA CapitalReturnedMoved ==
    ASSUME NEW e, Good(e), NEW i, Member(e, i), NEW f, f = CapitalReturned(e, i)
    PROVE  Moved(e, f) /\ Steady(e, f, Accounts)
<1>1. e \in EngineType /\ i \in Accounts /\ e.acc[i].capital \in Int
  BY EngineFields, AccountFields DEF Good, Member
<1>2. PICK x \in Int : x = -e.acc[i].capital
  BY <1>1
<1>3. e.acc[i].capital + x >= 0
  BY <1>1, <1>2
<1>4. f = Paid(e, i, x)
  BY <1>2 DEF CapitalReturned
<1>5. QED
  BY <1>1, <1>3, <1>4, PaidMoved, PaidSteady

\* close_account_not_atomic
LEMMA CloseResult ==
    ASSUME NEW e, Result(e), NEW i \in Accounts, NEW now \in Int,
           NEW price \in Int, NEW rate \in Int, NEW pair \in Int \X Int
    PROVE  Result(CloseOp(e, i, now, price, rate, pair))
<1>1. PICK t : t = BeginTouch(e, i, now, price, rate, pair)
  OBVIOUS
<1>2. Sound(e, t) /\ Tracked(t) /\ Member(t, i) /\ Good(t) /\ (Ok(t) => e.market_mode = "Live")
  BY <1>1, BeginTouchSound, ResultBacked
<1>3. PICK l : l = FinalizeTouched(t)
  OBVIOUS
<1>4. Sound(t, l)
  BY <1>2, <1>3, FinalizeTouchedSound
<1>5. Good(l) /\ Member(l, i)
  BY <1>2, <1>4, MemberKept
<1>6. PICK cond : cond = CloseOk(l, i)
  OBVIOUS
<1>7. PICK r : r = RejectUnless(l, cond)
  OBVIOUS
<1>8. Sound(l, r)
  BY <1>5, <1>7, RejectUnlessSound
<1>9. Good(r) /\ Member(r, i)
  BY <1>5, <1>8, MemberKept
<1>10. PICK c : c = CapitalReturned(r, i)
  OBVIOUS
<1>11. Moved(r, c) /\ Good(c)
  BY <1>9, <1>10, CapitalReturnedMoved DEF Moved
<1>12. PICK f : f = EndOfInstruction(c)
  OBVIOUS
<1>13. /\ Sound(c, f) /\ (Ok(f) => Cleared(f))
       /\ Ok(f) /\ Epochs(c) /\ Covered(c) => Backed(f)
  BY <1>11, <1>12, EndSound
<1>14. Moved(t, f)
  BY <1>4, <1>8, <1>11, <1>13, SoundMoved, MovedTrans
<1>15. Moved(e, f) /\ Good(f) /\ Member(f, i) /\ (Ok(f) => Ok(t))
  BY <1>2, <1>14, SoundMoved, MovedTrans, MemberMoved DEF Moved, Kept, Alike
<1>16. ASSUME Ok(f) PROVE Closable(f, i)
  <2>1. Ok(e) /\ e.market_mode = "Live" /\ ~e.resolved.ready
    BY <1>2, <1>15, <1>16 DEF Sound, Moved, Kept, Alike, Result, Market
  <2>2. f.market_mode = "Live" /\ ~f.resolved.ready
    BY <1>15, <2>1 DEF Sound, Moved, Kept, Alike
  <2>3. Epochs(f)
    BY <1>15, <1>16, <2>1 DEF Moved, Kept, Result, Market
  <2>4. Backed(f)
    <3>1. Ok(c) /\ Moved(e, c)
      BY <1>2, <1>4, <1>8, <1>11, <1>13, <1>16, SoundMoved, MovedTrans
         DEF Sound, Moved, Kept, Alike
    <3>2. Epochs(e) /\ Covered(e)
      BY <2>1, BackedIdle DEF Result, Market
    <3>3. Epochs(c) /\ Covered(c)
      BY <3>1, <3>2 DEF Moved, Kept
    <3>4. QED
      BY <1>13, <1>16, <3>3
  <2>5. QED
    BY <1>13, <1>16, <2>2, <2>3, <2>4 DEF Closable
<1>17. CloseOp(e, i, now, price, rate, pair) = FreeAndSweep(f, i)
  BY <1>1, <1>3, <1>6, <1>7, <1>10, <1>12 DEF CloseOp, CloseTouched
<1>18. QED
  BY <1>15, <1>16, <1>17, FreeResult

\* reclaim_empty_account_not_atomic
LEMMA ReclaimResult ==
    ASSUME NEW e, Result(e), NEW i \in Accounts, NEW now \in Int
    PROVE  /\ Result(ReclaimOp(e, i, now)) /\ ReclaimOp(e, i, now).vault = e.vault
           /\ Ok(ReclaimOp(e, i, now)) => i \in e.used /\ Left(e, ReclaimOp(e, i, now), i)
<1>1. PICK c : c = ClockOnly(e, now)
  OBVIOUS
<1>2. Sound(e, c) /\ Steady(e, c, Accounts) /\ Good(c) /\ (Ok(c) => e.market_mode = "Live")
  BY <1>1, ClockOnlySound DEF Result, Sound, Moved
<1>3. PICK cond : cond = (/\ i \in e.used /\ Untouched(e.acc[i]) /\ e.acc[i].pnl = 0
                          /\ e.acc[i].capital < min_initial_deposit)
  OBVIOUS
<1>4. PICK r : r = RejectUnless(c, cond)
  OBVIOUS
<1>5. Sound(c, r) /\ Steady(c, r, Accounts) /\ (Ok(r) => i \in e.used) /\ Good(r)
  <2>1. Sound(c, r) /\ Steady(c, r, Accounts) /\ (Ok(r) => cond)
    BY <1>2, <1>4, RejectUnlessSound
  <2>2. cond => i \in e.used
    BY <1>3, Zenon
  <2>3. QED
    BY <2>1, <2>2 DEF Sound, Moved
<1>6. PICK owes : owes = (e.acc[i].fee_credits <= 0)
  OBVIOUS
<1>7. PICK d : d = CorruptUnless(r, owes)
  OBVIOUS
<1>8. Sound(r, d) /\ Steady(r, d, Accounts)
  BY <1>5, <1>7, CorruptUnlessSound
<1>9. Sound(e, d) /\ Steady(e, d, Accounts) /\ Good(d) /\ (Ok(d) => e.market_mode = "Live" /\ i \in e.used)
  <2>1. Sound(e, d) /\ Steady(e, d, Accounts) /\ Good(d)
    BY <1>2, <1>5, <1>8, SoundTrans, SteadyTrans DEF Sound, Moved
  <2>2. Ok(d) => Ok(r) /\ Ok(c)
    BY <1>5, <1>8 DEF Sound, Moved, Kept, Alike
  <2>3. QED
    BY <1>2, <1>5, <2>1, <2>2
<1>10. Member(d, i) /\ d \in EngineType
  BY <1>9 DEF Member, Sound, Moved, Kept, Alike, Good
<1>11. PICK k : k = SetCapital(d, i, 0)
  OBVIOUS
<1>12. Sound(d, k) /\ k.side = d.side /\ SamePositions(d.acc, k.acc)
  BY <1>9, <1>10, <1>11, SetCapitalSound, CapitalSteady DEF Steady
<1>13. Good(k) /\ Member(k, i) /\ k \in EngineType /\ k.insurance = d.insurance
  <2>1. Good(k) /\ Member(k, i)
    BY <1>10, <1>12, MemberKept
  <2>2. k.insurance = d.insurance
    BY <1>10, <1>11 DEF SetCapital, EngineType
  <2>3. QED
    BY <2>1, <2>2 DEF Good
<1>14. PICK w \in Int : w = k.insurance + d.acc[i].capital
  <2>1. k.insurance \in Int /\ d.acc[i].capital \in Int
    BY <1>10, <1>13, EngineFields, AccountFields
  <2>2. k.insurance + d.acc[i].capital \in Int
    BY <2>1
  <2>3. QED
    BY <2>2
<1>15. PICK z \in Int : z = 0
  OBVIOUS
<1>16. PICK f : f = FeeMove(k, i, z, w)
  OBVIOUS
<1>17. Sound(k, f) /\ f.side = k.side /\ SamePositions(k.acc, f.acc)
  <2>1. Sound(k, f)
    BY <1>13, <1>16, FeeMoved DEF FeeMove
  <2>2. Steady(k, f, Accounts)
    BY <1>13, <1>16, FeeMoveSteady
  <2>3. QED
    BY <2>1, <2>2 DEF Steady
<1>18. Sound(e, f) /\ f.side = e.side /\ Good(f) /\ Member(f, i) /\ SamePositions(e.acc, f.acc)
  BY <1>9, <1>10, <1>12, <1>13, <1>17, SoundTrans, MemberKept DEF Steady, SamePositions
<1>19. DustSwept(d, i) = f
  BY <1>10, <1>11, <1>13, <1>14, <1>15, <1>16 DEF DustSwept, FeeMove, EngineType
<1>20. ASSUME Ok(f) PROVE Closable(f, i)
  <2>1. Ok(d)
    BY <1>12, <1>17, <1>20 DEF Sound, Moved, Kept, Alike
  <2>2. Ok(e) /\ Market(e) /\ e.market_mode = "Live"
    BY <1>9, <2>1 DEF Sound, Moved, Kept, Alike, Result
  <2>3. f.market_mode = "Live" /\ f.resolved = e.resolved
    BY <1>18, <2>2 DEF Sound, Moved, Kept, Alike
  <2>4. Epochs(f)
    BY <1>18, <1>20, <2>2 DEF Market, Sound, Moved, Kept
  <2>5. Backed(f)
    BY <1>18, <2>2, <2>3, BackedSame DEF Market, Good, Result
  <2>6. QED
    BY <1>18, <2>2, <2>3, <2>4, <2>5 DEF Market, Closable, Cleared
<1>21. ReclaimOp(e, i, now) = FreeAndSweep(f, i)
  BY <1>1, <1>3, <1>4, <1>6, <1>7, <1>19 DEF ReclaimOp
<1>22. PICK h : h = FreeAndSweep(f, i)
  OBVIOUS
<1>23. Result(h) /\ h.vault = e.vault /\ (Ok(h) => Left(f, h, i))
  BY <1>18, <1>20, <1>22, FreeResult DEF Sound
<1>24. ASSUME Ok(h) PROVE i \in e.used /\ Left(e, h, i)
  <2>1. Ok(f) /\ Ok(d) /\ Ok(e)
    BY <1>12, <1>17, <1>18, <1>23, <1>24 DEF Sound, Moved, Kept, Alike, Left
  <2>2. f.used = e.used /\ (Flat(e) => Flat(f))
    BY <1>18, <2>1 DEF Sound, Moved, Kept, Alike
  <2>3. QED
    BY <1>9, <1>23, <1>24, <2>1, <2>2 DEF Left
<1>25. QED
  BY <1>21, <1>22, <1>23, <1>24

-----------------------------------------------------------------------------
(* Resolution *)

\* The engine right after the market mode has changed.
Terminal(e, f) ==
    /\ f.market_mode = "Resolved" /\ ~f.resolved.ready /\ NoOpenInterest(f)
    /\ f.used = e.used /\ (Ok(f) => Ok(e))
    /\ Ok(f) /\ e.used = {} => f.vault = e.vault /\ f.insurance = e.insurance
    /\ Ok(f) /\ Epochs(e) => Epochs(f)

\* The market is closed at a price: types and totals.
LEMMA ResolvedSound ==
    ASSUME NEW e, Good(e), NEW price \in Int, NEW slot \in Int, NEW diff \in Int,
           NEW f, f = Resolved(e, price, slot, diff)
    PROVE  Good(f) /\ Terminal(e, f)
<1>1. e \in EngineType /\ e.side \in [Side -> SideType] /\ e.pnl_pos_tot \in Int
  BY EngineFields DEF Good
<1>2. PICK g : g = [s \in Side |-> [e.side[s] EXCEPT !.oi = 0]]
  OBVIOUS
<1>3. ASSUME NEW s \in Side
      PROVE  /\ g[s] \in SideType /\ g[s].stored = e.side[s].stored /\ g[s].oi = 0
             /\ Renewed(e, s, g[s])
  <2>1. PICK o \in SideType, z \in Int : o = e.side[s] /\ z = 0
    BY <1>1
  <2>2. g[s] = [o EXCEPT !.oi = z]
    BY <1>2, <2>1
  <2>3. /\ g[s] \in SideType /\ g[s].stored = o.stored /\ g[s].oi = 0
        /\ g[s].mode = o.mode /\ g[s].epoch = o.epoch /\ g[s].stale = o.stale
    BY <2>1, <2>2 DEF SideType
  <2>4. QED
    BY <2>1, <2>3, RenewedDry
<1>4. g \in [Side -> SideType]
  BY <1>2, <1>3
<1>5. PICK k : k = [s \in Side |-> TerminalDelta(e, s, diff)]
  OBVIOUS
<1>6. k \in [Side -> Int]
  <2>1. ASSUME NEW s \in Side PROVE TerminalDelta(e, s, diff) \in Int
    <3>1. e.side[s].mult \in Int
      BY <1>1, SideFields
    <3>2. Sign(s) * e.side[s].mult \in Int
      BY <3>1, SignInt, ProductInt
    <3>3. Sign(s) * e.side[s].mult * diff \in Int
      BY <3>2, ProductInt
    <3>4. QED
      BY <3>3 DEF TerminalDelta
  <2>2. QED
    BY <1>5, <2>1
<1>7. PICK z \in Nat : z = 0
  OBVIOUS
<1>8. PICK r : r = [price |-> price, slot |-> slot, k_delta |-> k, ready |-> FALSE,
                    h_num |-> z, h_den |-> z]
  OBVIOUS
<1>9. r \in ResolvedType /\ r.ready = FALSE
  BY <1>6, <1>8 DEF ResolvedType
<1>10. PICK p : p = e.pnl_pos_tot
  OBVIOUS
<1>11. f = [e EXCEPT !.market_mode = "Resolved", !.resolved = r, !.pnl_matured_pos_tot = p,
                     !.side = g]
  BY <1>2, <1>5, <1>7, <1>8, <1>10 DEF Resolved
<1>12. /\ f \in EngineType /\ f.acc = e.acc /\ f.used = e.used /\ f.c_tot = e.c_tot
       /\ f.pnl_pos_tot = p /\ f.pnl_matured_pos_tot = p /\ f.market_mode = "Resolved"
       /\ f.neg_pnl_account_count = e.neg_pnl_account_count /\ f.side = g /\ f.resolved = r
       /\ f.err = e.err /\ f.vault = e.vault /\ f.insurance = e.insurance
  BY <1>1, <1>4, <1>9, <1>10, <1>11 DEF EngineType
<1>13. /\ Capitals(f) = Capitals(e) /\ Profits(f) = Profits(e)
       /\ Negatives(f) = Negatives(e) /\ \A s \in Side : Stored(f, s) = Stored(e, s)
  BY <1>12 DEF Capitals, Profits, Negatives, Stored
<1>14. Books(e) => Books(f)
  BY <1>3, <1>10, <1>12, <1>13 DEF Books, Sums
<1>15. Good(f)
  BY <1>12, <1>14 DEF Good, Ok
<1>16. Ok(f) /\ Epochs(e) => Epochs(f)
  BY <1>3, <1>12 DEF Epochs, Renewed, Ok
<1>17. QED
  BY <1>3, <1>9, <1>12, <1>15, <1>16 DEF Terminal, NoOpenInterest, Ok

\* A closed market stays closed through sound helpers that keep the open interest.
LEMMA TerminalKept ==
    ASSUME NEW e, NEW f, NEW g, Terminal(e, f), Sound(f, g), SameOi(f, g)
    PROVE  Terminal(e, g)
  BY DEF Terminal, Sound, Moved, Kept, Alike, SameOi, NoOpenInterest

\* A side that is not in a reset yet begins its last.
LEMMA BeginResetOnceSound ==
    ASSUME NEW e, Good(e), NEW s \in Side, NEW f, f = BeginResetOnce(e, s)
    PROVE  Sound(e, f) /\ SameOi(e, f)
<1>1. f = e \/ (f = BeginReset(e, s) /\ e.side[s].mode # "ResetPending")
  BY DEF BeginResetOnce
<1>2. QED
  BY <1>1, SoundRefl, BeginResetSound DEF SameOi

\* A side that nobody is left on reopens.
LEMMA ReopenResolvedSound ==
    ASSUME NEW e, Good(e), NEW s \in Side, NEW f, f = ReopenResolved(e, s)
    PROVE  Sound(e, f) /\ SameOi(e, f)
<1>1. e \in EngineType /\ e.side \in [Side -> SideType]
  BY EngineFields DEF Good
<1>2. CASE ~ReadyToReopen(e.side[s])
  BY <1>2, SoundRefl DEF ReopenResolved, SameOi
<1>3. CASE ReadyToReopen(e.side[s])
  <2>1. PICK o : o = [e.side[s] EXCEPT !.mode = "Normal"]
    OBVIOUS
  <2>2. /\ Renewed(e, s, o) /\ o \in SideType /\ SameCover(e.side[s], o)
        /\ o.stored = e.side[s].stored /\ o.oi = e.side[s].oi
    BY <1>3, <2>1, RenewedReopened
  <2>3. f = [e EXCEPT !.side[s] = o]
    BY <1>3, <2>1 DEF ReopenResolved
  <2>4. Sound(e, f)
    BY <1>1, <2>2, <2>3, RebackedCover, OneSideSound
  <2>5. f.side = [e.side EXCEPT ![s] = o]
    BY <1>1, <2>3 DEF EngineType
  <2>6. QED
    BY <1>1, <2>2, <2>4, <2>5 DEF SameOi
<1>4. QED
  BY <1>2, <1>3

\* resolve_market_not_atomic, from the change of mode on
LEMMA TerminalResult ==
    ASSUME NEW e, Result(e), NEW c, Good(c), Terminal(e, c),
           NEW reset, reset = BeginResetOnce(BeginResetOnce(c, "Long"), "Short"),
           NEW f, f = ReopenResolved(ReopenResolved(reset, "Long"), "Short")
    PROVE  Result(AssertPostconditions(f))
<1>1. "Long" \in Side /\ "Short" \in Side
  BY DEF Side
<1>2. PICK a : a = BeginResetOnce(c, "Long")
  OBVIOUS
<1>3. Terminal(e, a) /\ Good(a)
  BY <1>1, <1>2, BeginResetOnceSound, TerminalKept DEF Sound, Moved
<1>4. reset = BeginResetOnce(a, "Short")
  BY <1>2
<1>5. Terminal(e, reset) /\ Good(reset)
  BY <1>1, <1>3, <1>4, BeginResetOnceSound, TerminalKept DEF Sound, Moved
<1>6. PICK b : b = ReopenResolved(reset, "Long")
  OBVIOUS
<1>7. Terminal(e, b) /\ Good(b)
  BY <1>1, <1>5, <1>6, ReopenResolvedSound, TerminalKept DEF Sound, Moved
<1>8. f = ReopenResolved(b, "Short")
  BY <1>6
<1>9. Terminal(e, f) /\ Good(f)
  BY <1>1, <1>7, <1>8, ReopenResolvedSound, TerminalKept DEF Sound, Moved
<1>10. PICK r : r = AssertPostconditions(f)
  OBVIOUS
<1>11. Good(r) /\ (Ok(r) => r = f /\ PostconditionsHold(f))
  BY <1>9, <1>10, PostconditionsSound DEF Sound, Moved
<1>12. ASSUME Ok(r) PROVE Market(r)
  <2>1. r = f /\ PostconditionsHold(r)
    BY <1>11, <1>12
  <2>2. Ok(e) /\ Market(e)
    BY <1>9, <1>12, <2>1 DEF Terminal, Result
  <2>3. r.used = {} => r.vault = r.insurance
    BY <1>9, <1>12, <2>1, <2>2 DEF Terminal, Market
  <2>4. Epochs(r) /\ Even(r)
    BY <1>9, <1>12, <2>1, <2>2 DEF Terminal, Market, PostconditionsHold, Even
  <2>5. Backed(r)
    BY <1>9, <2>1, ClosedBacked DEF Terminal
  <2>6. QED
    BY <1>9, <2>1, <2>3, <2>4, <2>5
       DEF Terminal, Market, PostconditionsHold, Cleared, NoOpenInterest
<1>13. QED
  BY <1>10, <1>11, <1>12 DEF Result

\* resolve_market_not_atomic
LEMMA ResolveResult ==
    ASSUME NEW e, Result(e), NEW mode, NEW price \in Int, NEW live \in Int, NEW now \in Int,
           NEW rate \in Int
    PROVE  Result(ResolveOp(e, mode, price, live, now, rate))
<1>1. e \in EngineType /\ Good(e) /\ e.last_oracle_price \in Int
  BY EngineFields DEF Result, Good
<1>2. PICK g : g = [e EXCEPT !.current_slot = now, !.last_market_slot = now,
                             !.last_oracle_price = e.last_oracle_price]
  OBVIOUS
<1>3. g = [e EXCEPT !.current_slot = now, !.last_market_slot = now]
  BY <1>1, <1>2 DEF EngineType
<1>4. Sound(e, g) /\ Good(g)
  <2>1. Sound(e, g)
    BY <1>1, <1>2, ClockSound
  <2>2. QED
    BY <2>1 DEF Sound, Moved
<1>5. PICK cond : cond = (/\ now >= e.current_slot /\ now >= e.last_market_slot
                          /\ live = e.last_oracle_price /\ rate = 0)
  OBVIOUS
<1>6. PICK s : s = IF mode = "Degenerate" THEN RejectUnless(g, cond)
                   ELSE AccrueMarket(e, now, live, rate)
  OBVIOUS
<1>7. Sound(e, s) /\ Good(s)
  <2>1. CASE mode = "Degenerate"
    BY <1>4, <1>6, <2>1, RejectUnlessSound, SoundTrans DEF Sound, Moved
  <2>2. CASE mode # "Degenerate"
    BY <1>1, <1>6, <2>2, AccrueSound DEF Sound, Moved
  <2>3. QED
    BY <2>1, <2>2
<1>8. PICK p : p = PriceInBand(s, mode, price)
  OBVIOUS
<1>9. Sound(e, p) /\ Good(p)
  <2>1. p \in {s, Reject(s)}
    BY <1>8 DEF PriceInBand, RejectUnless
  <2>2. Sound(s, s) /\ Sound(s, Reject(s))
    BY <1>7, SoundRefl, RejectSound DEF Sound, Moved, Good
  <2>3. QED
    BY <1>7, <2>1, <2>2, SoundTrans DEF Sound, Moved
<1>10. PICK diff \in Int : diff = price - live
  OBVIOUS
<1>11. PICK c : c = Resolved(p, price, now, diff)
  OBVIOUS
<1>12. Good(c) /\ Terminal(p, c)
  BY <1>9, <1>11, ResolvedSound
<1>13. Terminal(e, c)
  BY <1>9, <1>12 DEF Terminal, Sound, Moved, Kept, Alike
<1>14. PICK reset : reset = BeginResetOnce(BeginResetOnce(c, "Long"), "Short")
  OBVIOUS
<1>15. PICK f : f = ReopenResolved(ReopenResolved(reset, "Long"), "Short")
  OBVIOUS
<1>16. Result(AssertPostconditions(f))
  BY <1>12, <1>13, <1>14, <1>15, TerminalResult
<1>17. ResolveOp(e, mode, price, live, now, rate) \in {Reject(e), AssertPostconditions(f)}
  BY <1>3, <1>5, <1>6, <1>8, <1>10, <1>11, <1>14, <1>15 DEF ResolveOp
<1>18. QED
  BY <1>1, <1>16, <1>17, FailedResult

-----------------------------------------------------------------------------
(* Reconciling an account of a resolved market *)

\* In a resolved market all profit is matured, so this changes nothing.
LEMMA AllMaturedSound ==
    ASSUME NEW e, Good(e), Ok(e) => e.market_mode # "Live", NEW f, f = AllMatured(e)
    PROVE  Sound(e, f) /\ SamePlaces(e, f)
<1>1. e \in EngineType /\ e.pnl_pos_tot \in Int
  BY EngineFields DEF Good
<1>2. CASE Ok(e)
  <2>1. e.pnl_matured_pos_tot = e.pnl_pos_tot
    BY <1>2 DEF Good, Books, Sums
  <2>2. f = e
    BY <1>1, <2>1 DEF AllMatured, EngineType
  <2>3. QED
    BY <2>2, SoundRefl DEF SamePlaces
<1>3. CASE ~Ok(e)
  <2>1. PICK p \in Int : p = e.pnl_pos_tot
    BY <1>1
  <2>2. f = [e EXCEPT !.pnl_matured_pos_tot = p]
    BY <2>1 DEF AllMatured
  <2>3. /\ f \in EngineType /\ f.err = e.err /\ f.used = e.used /\ f.side = e.side
        /\ f.market_mode = e.market_mode /\ f.resolved = e.resolved /\ f.vault = e.vault
        /\ f.acc = e.acc /\ f.ctx = e.ctx
    BY <1>1, <2>2 DEF EngineType
  <2>4. QED
    BY <1>3, <2>3 DEF Sound, Moved, Good, Kept, Alike, Ok, Tracked, SamePlaces
<1>4. QED
  BY <1>2, <1>3

\* The settled PnL of a closed market is matured at once.
LEMMA PnlMaturedSound ==
    ASSUME NEW e, Good(e), Ok(e) => e.market_mode # "Live", NEW i, Member(e, i),
           NEW delta \in Int, NEW f, f = PnlMatured(e, i, delta)
    PROVE  Sound(e, f) /\ SamePlaces(e, f)
<1>1. PICK x \in Int : x = e.acc[i].pnl + delta
  <2>1. e.acc[i].pnl \in Int
    BY EngineFields, AccountFields DEF Good, Member
  <2>2. QED
    BY <2>1
<1>2. PICK g : g = SetPnl(e, i, x, "Resolved")
  OBVIOUS
<1>3. Sound(e, g) /\ SamePlaces(e, g)
  BY <1>1, <1>2, SetPnlSound
<1>4. Good(g) /\ (Ok(g) => g.market_mode # "Live")
  BY <1>3 DEF Sound, Moved, Kept, Alike
<1>5. PICK h : h = AllMatured(g)
  OBVIOUS
<1>6. Sound(g, h) /\ SamePlaces(g, h)
  BY <1>4, <1>5, AllMaturedSound
<1>7. f \in {e, h}
  BY <1>1, <1>2, <1>5 DEF PnlMatured
<1>8. Sound(e, e) /\ SamePlaces(e, e) /\ Sound(e, h) /\ SamePlaces(e, h)
  BY <1>3, <1>6, SoundRefl, SoundTrans DEF SamePlaces
<1>9. QED
  BY <1>7, <1>8

\* reconcile_resolved_not_atomic, an open position
LEMMA ReconcilePositionSound ==
    ASSUME NEW e, Good(e), Ok(e) => e.market_mode # "Live", NEW i, Member(e, i),
           NEW s \in Side, SideOf(e.acc[i].position_basis_q) = s,
           NEW f, f = ReconcilePosition(e, i, s)
    PROVE  Sound(e, f) /\ EqualOi(e, f)
<1>1. e \in EngineType /\ i \in Accounts /\ e.acc[i] \in AccountType
      /\ e.side[s] \in SideType /\ e.resolved.k_delta \in [Side -> Int]
  BY EngineFields DEF Good, Member, ResolvedType
<1>2. PICK k \in Int, fe \in Int :
         k = e.side[s].epoch_start_k + e.resolved.k_delta[s] /\ fe = e.side[s].f_epoch_start
  <2>1. e.side[s].epoch_start_k \in Int /\ e.resolved.k_delta[s] \in Int
        /\ e.side[s].f_epoch_start \in Int
    BY <1>1, SideFields
  <2>2. e.side[s].epoch_start_k + e.resolved.k_delta[s] \in Int
    BY <2>1
  <2>3. QED
    BY <2>1, <2>2
<1>3. PICK d \in Int : d = KfPnlDelta(e.acc[i], k, fe)
  BY <1>1, KfPnlDeltaInt
<1>4. PICK g : g = PnlMatured(e, i, d)
  OBVIOUS
<1>5. Sound(e, g) /\ SamePlaces(e, g) /\ Good(g) /\ Member(g, i)
  BY <1>4, PnlMaturedSound, MemberKept
<1>6. PICK l : l = Flatten(OneSettled(g, s), i)
  OBVIOUS
<1>7. e.acc[i].adl_epoch_snap + 1 = e.side[s].epoch => Sound(e, l) /\ EqualOi(e, l)
  <2>1. ASSUME e.acc[i].adl_epoch_snap + 1 = e.side[s].epoch, Epochs(g)
        PROVE  g.side[s].mode = "ResetPending"
    <3>1. SideOf(g.acc[i].position_basis_q) = s /\ g.acc[i].adl_epoch_snap + 1 = g.side[s].epoch
      BY <1>1, <1>5, <2>1 DEF SamePlaces
    <3>2. g.side[s].epoch \in Int /\ g.acc[i].adl_epoch_snap \in Int
      BY <1>1, <1>5, EngineFields, SideFields, AccountFields DEF Good
    <3>3. QED
      BY <1>1, <2>1, <3>1, <3>2 DEF Epochs, OfEpoch, Age
  <2>2. SideOf(g.acc[i].position_basis_q) = s
    BY <1>1, <1>5 DEF SamePlaces
  <2>3. ASSUME e.acc[i].adl_epoch_snap + 1 = e.side[s].epoch
        PROVE  Sound(g, l) /\ EqualOi(g, l)
    <3>1. g.acc[i].adl_epoch_snap + 1 = g.side[s].epoch /\ g.acc[i].adl_epoch_snap \in Int
      BY <1>1, <1>5, <2>3, EngineFields, AccountFields DEF SamePlaces, Good
    <3>2. g.acc[i].adl_epoch_snap # g.side[s].epoch
      BY <3>1
    <3>3. Epochs(g) => g.side[s].mode = "ResetPending"
      BY <2>1, <2>3
    <3>4. QED
      BY <1>5, <1>6, <2>2, <3>2, <3>3, StaleFlattened
  <2>4. EqualOi(g, l) => EqualOi(e, l)
    BY <1>5 DEF EqualOi, SamePlaces
  <2>5. QED
    BY <1>5, <2>3, <2>4, SoundTrans
<1>8. \/ f = Corrupt(e)
      \/ f = l /\ e.acc[i].adl_epoch_snap + 1 = e.side[s].epoch
  BY <1>2, <1>3, <1>4, <1>6 DEF ReconcilePosition, OneSettled
<1>9. Sound(e, Corrupt(e)) /\ EqualOi(e, Corrupt(e))
  BY <1>1, CorruptSound DEF Sound, Moved, EqualOi
<1>10. QED
  BY <1>7, <1>8, <1>9

\* prepare_account_for_resolved_touch
LEMMA ClearedSteady ==
    ASSUME NEW e, Good(e), Ok(e) => e.market_mode # "Live", NEW i, Member(e, i),
           NEW f, f = [e EXCEPT !.acc[i] = ClearReserve(@)]
    PROVE  /\ Sound(e, f) /\ Steady(e, f, Accounts)
           /\ f.vault = e.vault /\ f.c_tot = e.c_tot /\ f.insurance = e.insurance
           /\ f.err = e.err
<1>1. e \in EngineType /\ i \in Accounts /\ e.acc[i] \in AccountType
  BY EngineFields DEF Good, Member
<1>2. PICK b : b = ClearReserve(e.acc[i])
  OBVIOUS
<1>3. /\ b \in AccountType /\ SameRest(e.acc[i], b) /\ b.pnl = e.acc[i].pnl
      /\ b.reserved_pnl = 0
  BY <1>1, <1>2, ClearReserveSound
<1>4. PICK c, p, m, n : /\ c = e.c_tot /\ p = e.pnl_pos_tot /\ m = e.pnl_matured_pos_tot
                        /\ n = e.neg_pnl_account_count
  OBVIOUS
<1>5. c \in Int /\ p \in Int /\ m \in Int /\ n \in Int
  BY <1>1, <1>4, EngineFields
<1>6. f = Put(e, i, b, c, p, m, n)
  BY <1>1, <1>2, <1>4 DEF Put, EngineType
<1>7. ASSUME Ok(e) PROVE Follows(e, i, b, c, p, m, n)
  <2>1. Books(e) /\ e.market_mode # "Live"
    BY <1>7 DEF Good
  <2>2. m = p /\ e.acc[i].capital >= 0
    BY <1>1, <1>4, <2>1 DEF Books, Sums
  <2>3. PICK y \in Int, k \in Int : y = e.acc[i].pnl /\ k = e.acc[i].capital
    BY <1>1, AccountFields
  <2>4. Pos(y) \in Nat
    BY <2>3, PosInt
  <2>5. /\ b.capital = k /\ b.pnl = y /\ b.position_basis_q = e.acc[i].position_basis_q
        /\ b.adl_epoch_snap = e.acc[i].adl_epoch_snap
        /\ b.adl_a_basis = e.acc[i].adl_a_basis
    BY <1>3, <2>3 DEF SameRest
  <2>6. Bit(b.pnl < 0) - Bit(e.acc[i].pnl < 0) = 0
    BY <1>3 DEF Bit
  <2>7. QED
    BY <1>3, <1>4, <1>5, <2>1, <2>2, <2>3, <2>4, <2>5, <2>6 DEF Follows
<1>8. Sound(e, f)
  BY <1>3, <1>5, <1>6, <1>7, PutSound
<1>9. /\ f.acc = [e.acc EXCEPT ![i] = b] /\ f.side = e.side /\ f.vault = e.vault
      /\ f.c_tot = e.c_tot /\ f.insurance = e.insurance /\ f.err = e.err /\ f.ctx = e.ctx
  BY <1>1, <1>4, <1>6 DEF Put, EngineType
<1>10. /\ b.position_basis_q = e.acc[i].position_basis_q
       /\ b.adl_epoch_snap = e.acc[i].adl_epoch_snap /\ b.adl_a_basis = e.acc[i].adl_a_basis
  BY <1>3 DEF SameRest
<1>11. QED
  BY <1>1, <1>3, <1>8, <1>9, <1>10, ReplaceSteady

\* reconcile_resolved_not_atomic.  Once the payout is fixed there is nothing
\* left to settle.
LEMMA ReconciledResult ==
    ASSUME NEW e, Result(e), NEW i \in Accounts, NEW r, r = Reconciled(e, i)
    PROVE  Result(r) /\ (Ok(r) => r.market_mode # "Live" /\ i \in r.used)
<1>1. e \in EngineType /\ Good(e) /\ e.resolved.slot \in Int /\ e.last_market_slot \in Int
      /\ e.last_oracle_price \in Int
  BY EngineFields DEF Result, Good, ResolvedType
<1>2. CASE e.market_mode # "Resolved" \/ i \notin e.used
  <2>1. r = Reject(e)
    BY <1>2 DEF Reconciled
  <2>2. QED
    BY <1>1, <2>1, FailedResult, RejectSound
<1>3. CASE e.market_mode = "Resolved" /\ i \in e.used
  <2>1. PICK a : a = [e EXCEPT !.acc[i] = ClearReserve(@)]
    OBVIOUS
  <2>2. Member(e, i) /\ e.market_mode # "Live"
    BY <1>3 DEF Member
  <2>3. Sound(e, a) /\ Steady(e, a, Accounts) /\ a.err = e.err
    BY <1>1, <2>1, <2>2, ClearedSteady
  <2>4. a \in EngineType /\ Good(a) /\ a.last_market_slot \in Int /\ a.last_oracle_price \in Int
    BY <2>3, EngineFields DEF Sound, Moved, Good
  <2>5. PICK b : b = [a EXCEPT !.current_slot = e.resolved.slot,
                               !.last_market_slot = a.last_market_slot,
                               !.last_oracle_price = a.last_oracle_price]
    OBVIOUS
  <2>6. Sound(a, b)
    BY <1>1, <2>4, <2>5, ClockSound
  <2>7. b.acc = a.acc /\ b.side = a.side /\ b.err = a.err /\ b.ctx = a.ctx
    BY <2>4, <2>5 DEF EngineType
  <2>8. b = [e EXCEPT !.current_slot = e.resolved.slot, !.acc[i] = ClearReserve(@)]
    BY <1>1, <2>1, <2>4, <2>5 DEF EngineType
  <2>9. Sound(e, b) /\ Steady(e, b, Accounts) /\ (Ok(b) <=> Ok(e))
    BY <2>3, <2>6, <2>7, SoundTrans DEF Steady, Ok
  <2>10. Good(b) /\ Member(b, i) /\ b.market_mode # "Live"
    BY <2>2, <2>9, MemberKept DEF Sound, Moved, Kept, Alike
  <2>11. PICK s : s = ReconcileSettled(b, i)
    OBVIOUS
  <2>12. Sound(b, s) /\ EqualOi(b, s)
    <3>1. CASE b.acc[i].position_basis_q = 0
      BY <2>10, <2>11, <3>1, SoundRefl DEF ReconcileSettled, EqualOi
    <3>2. CASE b.acc[i].position_basis_q # 0
      <4>1. b.acc[i].position_basis_q \in Int
        BY <2>10, EngineFields, AccountFields DEF Good, Member
      <4>2. PICK t \in Side : t = SideOf(b.acc[i].position_basis_q)
        BY <3>2, <4>1, SideOfSide
      <4>3. s = ReconcilePosition(b, i, t)
        BY <2>11, <3>2, <4>2 DEF ReconcileSettled
      <4>4. QED
        BY <2>10, <4>2, <4>3, ReconcilePositionSound
    <3>3. QED
      BY <3>1, <3>2
  <2>13. Good(s) /\ Member(s, i)
    BY <2>10, <2>12, MemberKept
  <2>14. PICK l : l = SettleLosses(s, i)
    OBVIOUS
  <2>15. Sound(s, l) /\ EqualOi(s, l)
    BY <2>13, <2>14, SettleLossesSound, SettleLossesSteady DEF Steady, EqualOi
  <2>16. Good(l) /\ Member(l, i)
    BY <2>13, <2>15, MemberKept
  <2>17. PICK f : f = ResolveFlatNegative(l, i)
    OBVIOUS
  <2>18. Sound(l, f) /\ EqualOi(l, f)
    BY <2>16, <2>17, FlatNegativeSound, FlatNegativeSteady DEF Steady, EqualOi
  <2>19. r = AssertPostconditions(f)
    BY <1>3, <2>8, <2>11, <2>14, <2>17 DEF Reconciled
  <2>20. Sound(e, f)
    BY <2>9, <2>12, <2>15, <2>18, SoundTrans
  <2>21. EqualOi(e, f)
    BY <2>9, <2>12, <2>15, <2>18 DEF EqualOi, Steady
  <2>22. Good(r) /\ (Ok(r) => r = f /\ PostconditionsHold(f)) /\ Sound(f, r)
    BY <2>19, <2>20, PostconditionsSound DEF Sound, Moved
  <2>23. ASSUME Ok(r) PROVE Market(r) /\ r.market_mode # "Live" /\ i \in r.used
    <3>1. r = f /\ PostconditionsHold(f) /\ Ok(e) /\ Market(e)
      BY <2>20, <2>22, <2>23 DEF Sound, Moved, Kept, Alike, Result
    <3>2. f.used = e.used /\ f.market_mode = "Resolved" /\ f.resolved = e.resolved
      BY <1>3, <2>20 DEF Sound, Moved, Kept, Alike
    <3>3. NoOpenInterest(f)
      BY <2>2, <2>21, <3>1 DEF Market, NoOpenInterest, EqualOi
    <3>4. f.resolved.ready => AllSettled(f)
      <4>1. SUFFICES ASSUME e.resolved.ready PROVE AllSettled(f)
        BY <3>2
      <4>2. AllSettled(e)
        BY <3>1, <4>1 DEF Market
      <4>3. AllSettled(b)
        BY <2>9, <4>2 DEF AllSettled, Steady, SamePositions
      <4>4. b.acc[i].position_basis_q = 0 /\ b.acc[i].pnl >= 0
        BY <4>3 DEF AllSettled
      <4>5. s = b
        BY <2>11, <4>4 DEF ReconcileSettled
      <4>6. Ok(b)
        BY <2>9, <3>1
      <4>7. l = b
        BY <2>10, <2>14, <4>4, <4>5, <4>6, SettleLossesSteady
      <4>8. f = b
        BY <2>10, <2>17, <4>4, <4>7, FlatNegativeSteady
      <4>9. QED
        BY <4>3, <4>8
    <3>5. f.vault >= f.c_tot + f.insurance
      BY <3>1 DEF PostconditionsHold
    <3>6. Epochs(f) /\ Even(f)
      BY <2>20, <2>23, <3>1 DEF Market, Sound, Moved, Kept, PostconditionsHold, Even
    <3>7. Backed(f)
      BY <3>2, ClosedBacked
    <3>8. QED
      BY <1>3, <3>1, <3>2, <3>3, <3>4, <3>5, <3>6, <3>7 DEF Market, Cleared, NoOpenInterest
  <2>24. QED
    BY <2>22, <2>23 DEF Result
<1>4. QED
  BY <1>1, <1>2, <1>3, EngineFields

\* maybe_finalize_ready_reset_sides
LEMMA ReopenResult ==
    ASSUME NEW e, Result(e), NEW f, f = ReopenReadySides(e)
    PROVE  /\ Result(f) /\ f.acc = e.acc /\ f.used = e.used
           /\ f.market_mode = e.market_mode /\ (Ok(f) => Ok(e))
<1>1. e \in EngineType /\ Good(e)
  BY DEF Result, Good
<1>2. Sound(e, f) /\ SameOi(e, f) /\ (Backed(e) => Backed(f))
  BY <1>1, ReopenSound
<1>3. /\ f.acc = e.acc /\ f.used = e.used /\ f.market_mode = e.market_mode
      /\ f.resolved = e.resolved /\ f.vault = e.vault /\ f.c_tot = e.c_tot
      /\ f.insurance = e.insurance /\ f.err = e.err
  BY <1>1 DEF ReopenReadySides, EngineType
<1>4. ASSUME Ok(f) PROVE Market(f)
  <2>1. Market(e)
    BY <1>3, <1>4 DEF Result, Ok
  <2>2. Cleared(f)
    BY <1>2, <2>1, ClearedKept DEF Market
  <2>3. (NoOpenInterest(e) => NoOpenInterest(f)) /\ (AllSettled(e) => AllSettled(f))
    BY <1>2, <1>3 DEF NoOpenInterest, SameOi, AllSettled
  <2>4. Epochs(f) /\ Even(f)
    BY <1>2, <1>4, <2>1, EvenKept DEF Market, Sound, Moved, Kept
  <2>5. Backed(f)
    BY <1>2, <2>1 DEF Market
  <2>6. QED
    BY <1>3, <2>1, <2>2, <2>3, <2>4, <2>5 DEF Market
<1>5. QED
  BY <1>2, <1>3, <1>4 DEF Result, Sound, Moved, Ok

-----------------------------------------------------------------------------
(* The terminal close *)

\* The counters that is_terminal_ready reads speak for all accounts.
LEMMA CountersSettled ==
    ASSUME NEW e \in EngineType, Books(e), \A s \in Side : e.side[s].stored = 0,
           e.neg_pnl_account_count = 0
    PROVE  AllSettled(e)
<1>1. /\ Sum(Negatives(e)) = 0 /\ \A s \in Side : Sum(Stored(e, s)) = 0
  BY DEF Books, Sums
<1>2. Negatives(e) \in [Accounts -> Int] /\ \A s \in Side : Stored(e, s) \in [Accounts -> Int]
  BY TermTypes
<1>3. \A j \in Accounts : Negatives(e)[j] >= 0 /\ \A s \in Side : Stored(e, s)[j] >= 0
  BY DEF Negatives, Stored, Bit
<1>4. \A j \in Accounts : Negatives(e)[j] = 0
  BY <1>1, <1>2, <1>3, Consts, SumZeroTerm DEF Sum
<1>5. ASSUME NEW s \in Side PROVE \A j \in Accounts : Stored(e, s)[j] = 0
  BY <1>1, <1>2, <1>3, Consts, SumZeroTerm DEF Sum
<1>6. ASSUME NEW j \in Accounts PROVE e.acc[j].position_basis_q = 0 /\ e.acc[j].pnl >= 0
  <2>1. PICK q \in Int, x \in Int : q = e.acc[j].position_basis_q /\ x = e.acc[j].pnl
    BY EngineFields, AccountFields
  <2>2. ~(x < 0)
    BY <1>4, <2>1 DEF Negatives, Bit
  <2>3. \A s \in Side : SideOf(q) # s
    BY <1>5, <2>1 DEF Stored, Bit
  <2>4. q = 0
    BY <2>3, SideOfSide
  <2>5. QED
    BY <2>1, <2>2, <2>4
<1>7. QED
  BY <1>6 DEF AllSettled

\* What is known of the account that is being closed, and of the others.
Closing(e, i) ==
    /\ Good(e) /\ Member(e, i)
    /\ Ok(e) => e.market_mode # "Live" /\ Closable(e, i)

\* What a closing account's last steps need, kept by helpers.
LEMMA ClosingKept ==
    ASSUME NEW e, NEW i, Closing(e, i), NEW f, Moved(e, f), Steady(e, f, Accounts \ {i})
    PROVE  Closing(f, i)
<1>1. Good(f) /\ Member(f, i)
  BY MemberMoved DEF Closing
<1>2. ASSUME Ok(f) PROVE f.market_mode # "Live" /\ Closable(f, i)
  <2>1. Ok(e) /\ e.market_mode # "Live" /\ Closable(e, i)
    BY <1>2 DEF Sound, Moved, Kept, Alike, Closing
  <2>2. f.market_mode = e.market_mode /\ f.resolved = e.resolved /\ f.side = e.side
    BY DEF Sound, Moved, Kept, Alike, Steady
  <2>3. f.resolved.ready => \A j \in Accounts \ {i} :
           f.acc[j].position_basis_q = 0 /\ f.acc[j].pnl >= 0
    BY <2>1, <2>2 DEF Closable, Steady, SamePositions
  <2>4. Epochs(f) /\ Backed(f)
    BY <1>2, <2>1, <2>2, ClosedBacked DEF Closable, Moved, Kept
  <2>5. QED
    BY <2>1, <2>2, <2>3, <2>4 DEF Closable, Cleared, NoOpenInterest
<1>3. QED
  BY <1>1, <1>2 DEF Closing

\* close_resolved_terminal_not_atomic fixes the payout ratio.
LEMMA SnapshotClosing ==
    ASSUME NEW e, NEW i, Closing(e, i), Ok(e), TerminalReady(e), NEW f, f = PayoutSnapshot(e)
    PROVE  Closing(f, i) /\ f.acc = e.acc /\ f.err = e.err
<1>1. e \in EngineType /\ Books(e) /\ e.resolved \in ResolvedType /\ e.market_mode # "Live"
      /\ Closable(e, i) /\ i \in Accounts /\ i \in e.used
  BY EngineFields DEF Closing, Good, Member
<1>2. CASE e.resolved.ready
  BY <1>2 DEF PayoutSnapshot
<1>3. CASE ~e.resolved.ready
  <2>1. AllSettled(e)
    <3>1. (\A s \in Side : e.side[s].stored = 0) /\ e.neg_pnl_account_count = 0
      BY <1>3 DEF TerminalReady
    <3>2. QED
      BY <1>1, <3>1, CountersSettled
  <2>2. PICK p : p = e.pnl_pos_tot
    OBVIOUS
  <2>3. p \in Nat
    <3>1. p \in Int /\ e.pnl_matured_pos_tot \in Int
      BY <1>1, <2>2, EngineFields
    <3>2. 0 <= e.pnl_matured_pos_tot /\ e.pnl_matured_pos_tot <= p
      BY <1>1, <2>2, TotalsOrdered
    <3>3. QED
      BY <3>1, <3>2
  <2>4. PICK n : n = Lesser(Residual(e), e.pnl_pos_tot)
    OBVIOUS
  <2>5. n \in Nat
    <3>1. e.vault - (e.c_tot + e.insurance) \in Int
      BY <1>1, EngineFields
    <3>2. Residual(e) \in Nat
      BY <3>1, PosInt DEF Residual
    <3>3. QED
      BY <2>2, <2>3, <2>4, <3>2 DEF Lesser
  <2>6. PICK r : r = [e.resolved EXCEPT !.ready = TRUE, !.h_den = p, !.h_num = n]
    OBVIOUS
  <2>7. r \in ResolvedType
    BY <1>1, <2>3, <2>5, <2>6 DEF ResolvedType
  <2>8. f = [e EXCEPT !.pnl_matured_pos_tot = p, !.resolved = r]
    BY <1>1, <1>3, <2>2, <2>4, <2>6 DEF PayoutSnapshot, EngineType
  <2>9. /\ f \in EngineType /\ f.acc = e.acc /\ f.used = e.used /\ f.c_tot = e.c_tot
        /\ f.pnl_pos_tot = p /\ f.pnl_matured_pos_tot = p /\ f.market_mode = e.market_mode
        /\ f.neg_pnl_account_count = e.neg_pnl_account_count /\ f.side = e.side
        /\ f.err = e.err /\ f.resolved = r
    BY <1>1, <2>2, <2>3, <2>7, <2>8 DEF EngineType
  <2>10. /\ Capitals(f) = Capitals(e) /\ Profits(f) = Profits(e)
         /\ Negatives(f) = Negatives(e) /\ \A s \in Side : Stored(f, s) = Stored(e, s)
    BY <2>9 DEF Capitals, Profits, Negatives, Stored
  <2>11. Sums(f)
    BY <1>1, <2>2, <2>9, <2>10 DEF Books, Sums
  <2>12. Books(f)
    BY <1>1, <2>9, <2>11 DEF Books
  <2>13. Closable(f, i)
    <3>1. \A j \in Accounts \ {i} : f.acc[j].position_basis_q = 0 /\ f.acc[j].pnl >= 0
      BY <2>1, <2>9 DEF AllSettled
    <3>2. Cleared(f) /\ NoOpenInterest(f) /\ Epochs(f)
      BY <1>1, <2>9 DEF Closable, Cleared, NoOpenInterest, Epochs
    <3>3. Backed(f)
      BY <1>1, <2>9, ClosedBacked
    <3>4. QED
      BY <1>1, <2>9, <3>1, <3>2, <3>3 DEF Closable
  <2>14. QED
    BY <1>1, <2>9, <2>12, <2>13 DEF Closing, Good, Member
<1>4. QED
  BY <1>2, <1>3

\* The winner is paid at the fixed ratio.
LEMMA PaidOutClosing ==
    ASSUME NEW e, NEW i, Closing(e, i), Ok(e), e.acc[i].pnl > 0, NEW f, f = PaidOut(e, i)
    PROVE  Closing(f, i)
<1>1. e \in EngineType /\ Good(e) /\ Member(e, i) /\ i \in Accounts /\ e.acc[i] \in AccountType
      /\ e.resolved.h_num \in Nat /\ e.resolved.h_den \in Nat
  BY EngineFields DEF Closing, Good, Member, ResolvedType
<1>2. CASE e.resolved.h_den = 0
  <2>1. f = Corrupt(e)
    BY <1>2 DEF PaidOut
  <2>2. QED
    BY <1>1, <2>1, CorruptSound DEF Closing, Member
<1>3. CASE e.resolved.h_den # 0
  <2>1. PICK x \in Nat, n \in Nat, d \in Nat \ {0}, c \in Int :
           x = e.acc[i].pnl /\ n = e.resolved.h_num /\ d = e.resolved.h_den
           /\ c = e.acc[i].capital
    <3>1. e.acc[i].pnl \in Nat /\ e.acc[i].capital \in Int
      BY <1>1, AccountFields
    <3>2. QED
      BY <1>1, <1>3, <3>1
  <2>2. PICK y : y = FloorDiv(x * n, d)
    OBVIOUS
  <2>3. y \in Nat
    <3>1. x * n \in Nat
      BY <2>1
    <3>2. QED
      BY <2>1, <2>2, <3>1, FloorNat
  <2>4. c >= 0
    BY <1>1, <2>1 DEF Good, Books
  <2>5. PICK k \in Int : k = c + y
    BY <2>1, <2>3
  <2>6. k >= 0
    BY <2>1, <2>3, <2>4, <2>5
  <2>7. PICK g : g = SetPnl(e, i, 0, "None")
    OBVIOUS
  <2>8. Sound(e, g) /\ Steady(e, g, Accounts \ {i})
    BY <1>1, <2>7, SetPnlSound, SetPnlSteady
  <2>9. Closing(g, i)
    BY <2>8, SoundMoved, ClosingKept
  <2>10. f = SetCapital(g, i, k)
    BY <1>3, <2>1, <2>2, <2>5, <2>7 DEF PaidOut
  <2>11. Sound(g, f)
    BY <2>5, <2>6, <2>9, <2>10, SetCapitalSound DEF Closing
  <2>12. Steady(g, f, Accounts)
    BY <1>1, <2>9, <2>10, CapitalSteady DEF Closing, Good
  <2>13. QED
    BY <2>9, <2>11, <2>12, SteadyLess, SoundMoved, ClosingKept
<1>4. QED
  BY <1>2, <1>3

\* The fee debt is swept, and what is left of it forgiven.
LEMMA DebtForgivenClosing ==
    ASSUME NEW e, NEW i, Closing(e, i), NEW f, f = DebtForgiven(e, i)
    PROVE  Closing(f, i)
<1>1. Good(e) /\ Member(e, i) /\ i \in Accounts
  BY DEF Closing, Member
<1>2. PICK g : g = FeeDebtSweep(e, i)
  OBVIOUS
<1>3. Sound(e, g) /\ Steady(e, g, Accounts)
  BY <1>1, <1>2, FeeDebtSweepSound, FeeDebtSweepSteady
<1>4. Closing(g, i)
  BY <1>3, SteadyLess, SoundMoved, ClosingKept
<1>5. g \in EngineType /\ g.insurance \in Int
  BY <1>4, EngineFields DEF Closing, Good
<1>6. PICK z \in Int, w \in Int : z = 0 /\ w = g.insurance
  <2>1. 0 \in Int /\ g.insurance \in Int
    BY <1>5
  <2>2. QED
    BY <2>1
<1>7. PICK h : h = FeeMove(g, i, z, w)
  OBVIOUS
<1>8. Sound(g, h)
  <2>1. Good(g) /\ Member(g, i)
    BY <1>4 DEF Closing
  <2>2. QED
    BY <1>7, <2>1, FeeMoved DEF FeeMove
<1>9. f = FeeMove(g, i, z, w)
  BY <1>1, <1>2, <1>5, <1>6 DEF DebtForgiven, FeeMove, EngineType
<1>10. Sound(g, f)
  BY <1>7, <1>8, <1>9
<1>11. Steady(g, f, Accounts)
  BY <1>1, <1>5, <1>9, FeeMoveSteady
<1>12. QED
  BY <1>4, <1>10, <1>11, SteadyLess, SoundMoved, ClosingKept

\* The last capital leaves.
LEMMA CloseOutClosing ==
    ASSUME NEW e, NEW i, Closing(e, i), NEW f, f = CloseOut(e, i)
    PROVE  Closing(f, i)
<1>1. Good(e) /\ Member(e, i)
  BY DEF Closing
<1>2. PICK cond : cond = (e.acc[i].capital <= e.vault)
  OBVIOUS
<1>3. PICK g : g = RejectUnless(e, cond)
  OBVIOUS
<1>4. Sound(e, g) /\ Steady(e, g, Accounts)
  BY <1>1, <1>3, RejectUnlessSound
<1>5. Closing(g, i)
  BY <1>4, SteadyLess, SoundMoved, ClosingKept
<1>6. f = CapitalReturned(g, i)
  BY <1>2, <1>3 DEF CloseOut
<1>7. Moved(g, f) /\ Steady(g, f, Accounts)
  BY <1>5, <1>6, CapitalReturnedMoved DEF Closing
<1>8. QED
  BY <1>5, <1>7, SteadyLess, ClosingKept

\* close_resolved_terminal_not_atomic
LEMMA CloseTerminalResult ==
    ASSUME NEW e, Result(e), Ok(e), NEW i \in Accounts, NEW r, r = CloseTerminal(e, i)
    PROVE  Result(r)
<1>1. e \in EngineType /\ Good(e) /\ Market(e)
  BY DEF Result, Good
<1>2. CASE ~TerminalCloseOk(e, i)
  BY <1>1, <1>2, FailedResult DEF CloseTerminal
<1>3. CASE TerminalCloseOk(e, i)
  <2>1. /\ e.market_mode = "Resolved" /\ i \in e.used /\ (e.acc[i].pnl > 0 => TerminalReady(e))
    BY <1>3 DEF TerminalCloseOk
  <2>2. Closing(e, i)
    BY <1>1, <2>1 DEF Closing, Closable, Market, Member, AllSettled
  <2>3. PICK a : a = [e EXCEPT !.acc[i] = ClearReserve(@)]
    OBVIOUS
  <2>4. Sound(e, a) /\ Steady(e, a, Accounts) /\ a.err = e.err
    BY <1>1, <2>1, <2>2, <2>3, ClearedSteady DEF Closing
  <2>5. Closing(a, i) /\ Ok(a)
    BY <2>2, <2>4, SteadyLess, SoundMoved, ClosingKept DEF Ok
  <2>6. a.acc[i].pnl = e.acc[i].pnl
    BY <2>4 DEF Steady
  <2>7. PICK p : p = ProfitPaid(a, i)
    OBVIOUS
  <2>8. Closing(p, i)
    <3>1. CASE a.acc[i].pnl > 0
      <4>1. TerminalReady(a)
        <5>1. TerminalReady(e)
          BY <2>1, <2>6, <3>1
        <5>2. a.side = e.side /\ a.resolved = e.resolved
              /\ a.neg_pnl_account_count = e.neg_pnl_account_count
          BY <1>1, <2>3 DEF EngineType
        <5>3. QED
          BY <5>1, <5>2 DEF TerminalReady
      <4>2. PICK s : s = PayoutSnapshot(a)
        OBVIOUS
      <4>3. Closing(s, i) /\ s.acc = a.acc /\ s.err = a.err
        BY <2>5, <4>1, <4>2, SnapshotClosing
      <4>4. p = PaidOut(s, i)
        BY <2>7, <3>1, <4>2 DEF ProfitPaid
      <4>5. Ok(s)
        BY <2>5, <4>3 DEF Ok
      <4>6. QED
        BY <3>1, <4>3, <4>4, <4>5, PaidOutClosing
    <3>2. CASE ~(a.acc[i].pnl > 0)
      BY <2>5, <2>7, <3>2 DEF ProfitPaid
    <3>3. QED
      BY <3>1, <3>2
  <2>9. PICK d : d = DebtForgiven(p, i)
    OBVIOUS
  <2>10. Closing(d, i)
    BY <2>8, <2>9, DebtForgivenClosing
  <2>11. PICK c : c = CloseOut(d, i)
    OBVIOUS
  <2>12. Closing(c, i)
    BY <2>10, <2>11, CloseOutClosing
  <2>13. r = FreeAndSweep(c, i)
    BY <1>3, <2>3, <2>7, <2>9, <2>11 DEF CloseTerminal
  <2>14. QED
    BY <2>12, <2>13, FreeResult DEF Closing
<1>4. QED
  BY <1>2, <1>3

\* force_close_resolved_not_atomic
LEMMA ForceCloseResult ==
    ASSUME NEW e, Result(e), NEW i \in Accounts
    PROVE  Result(ForceCloseOp(e, i))
<1>1. PICK r : r = Reconciled(e, i)
  OBVIOUS
<1>2. Result(r)
  BY <1>1, ReconciledResult
<1>3. PICK f : f = ReopenReadySides(r)
  OBVIOUS
<1>4. Result(f)
  BY <1>2, <1>3, ReopenResult
<1>5. ForceCloseOp(e, i) = f \/ (Ok(f) /\ ForceCloseOp(e, i) = CloseTerminal(f, i))
  BY <1>1, <1>3 DEF ForceCloseOp, CloseWhenReady
<1>6. QED
  BY <1>4, <1>5, CloseTerminalResult

-----------------------------------------------------------------------------
(* A new market *)

\* A fresh side is of its type and clear.
LEMMA EmptySideSound ==
    /\ EmptySide \in SideType /\ EmptySide.stored = 0 /\ EmptySide.oi = 0
    /\ Aged(EmptySide)
<1>1. PICK o \in Nat \ {0}, z \in Int : o = ADL_ONE /\ z = 0
  BY Consts
<1>2. EmptySide =
        [mult |-> o, coeff |-> z, f |-> z, epoch |-> z, epoch_start_k |-> z,
         f_epoch_start |-> z, oi |-> z, mode |-> "Normal", stored |-> z, stale |-> z, dust |-> z]
  BY <1>1 DEF EmptySide
<1>3. QED
  BY <1>1, <1>2 DEF SideType, Aged

\* init_in_place
LEMMA NewMarketResult ==
    ASSUME NEW slot \in Int, NEW price \in Int, NEW e, e = NewMarket(slot, price)
    PROVE  Result(e) /\ e.used = {} /\ Flat(e)
<1>1. PICK z \in Int, n \in Nat : z = 0 /\ n = 0
  OBVIOUS
<1>2. PICK sides : sides = [s \in Side |-> EmptySide]
  OBVIOUS
<1>3. /\ sides \in [Side -> SideType]
      /\ \A s \in Side : sides[s].stored = 0 /\ sides[s].oi = 0 /\ Aged(sides[s])
  BY <1>2, EmptySideSound
<1>4. PICK acc : acc = [i \in Accounts |-> EmptyAccount]
  OBVIOUS
<1>5. acc \in [Accounts -> AccountType] /\ \A i \in Accounts : Unclaimed(acc[i])
  BY <1>4, EmptyAccountSound
<1>6. PICK k : k = [s \in Side |-> 0]
  OBVIOUS
<1>7. PICK r : r = [price |-> z, slot |-> z, k_delta |-> k, ready |-> FALSE,
                    h_num |-> n, h_den |-> n]
  OBVIOUS
<1>8. r \in ResolvedType /\ ~r.ready
  <2>1. k \in [Side -> Int]
    BY <1>6
  <2>2. QED
    BY <1>1, <1>7, <2>1 DEF ResolvedType
<1>9. PICK c : c = NoContext
  OBVIOUS
<1>10. c \in ContextType
  BY <1>9 DEF NoContext, Context, ContextType
<1>11. e = [vault |-> z, insurance |-> z, c_tot |-> z, pnl_pos_tot |-> z,
            pnl_matured_pos_tot |-> z, neg_pnl_account_count |-> z, current_slot |-> slot,
            last_market_slot |-> slot, last_oracle_price |-> price, market_mode |-> "Live",
            side |-> sides, acc |-> acc, used |-> {}, resolved |-> r, ctx |-> c,
            err |-> "none"]
  BY <1>1, <1>2, <1>4, <1>6, <1>7, <1>9 DEF NewMarket
<1>12. e \in EngineType
  BY <1>1, <1>3, <1>5, <1>8, <1>10, <1>11 DEF EngineType
<1>13. /\ e.vault = 0 /\ e.insurance = 0 /\ e.c_tot = 0 /\ e.pnl_pos_tot = 0
       /\ e.pnl_matured_pos_tot = 0 /\ e.neg_pnl_account_count = 0 /\ e.market_mode = "Live"
       /\ e.side = sides /\ e.acc = acc /\ e.used = {} /\ e.resolved = r
  BY <1>1, <1>11
<1>14. /\ \A j \in Accounts : /\ Capitals(e)[j] = 0 /\ Profits(e)[j] = 0 /\ Releases(e)[j] = 0
                              /\ Negatives(e)[j] = 0
       /\ \A s \in Side : \A j \in Accounts : Stored(e, s)[j] = 0
  BY <1>5, <1>13
     DEF Unclaimed, Capitals, Profits, Releases, Negatives, Stored, Bit, Pos, SideOf, Side
<1>15. /\ Sum(Capitals(e)) = 0 /\ Sum(Profits(e)) = 0 /\ Sum(Releases(e)) = 0
       /\ Sum(Negatives(e)) = 0 /\ \A s \in Side : Sum(Stored(e, s)) = 0
  BY <1>12, <1>14, TermTypes, Consts, SumZero DEF Sum
<1>16. Sums(e)
  BY <1>3, <1>13, <1>15 DEF Sums
<1>17. Books(e)
  BY <1>5, <1>13, <1>16 DEF Books, Unclaimed, Pos
<1>18. Market(e)
  <2>1. Even(e)
    BY <1>3, <1>13 DEF Even, Side
  <2>2. Epochs(e)
    BY <1>3, <1>5, <1>13, FlatOfEpoch DEF Epochs, Unclaimed
  <2>3. Backed(e)
    <3>1. ASSUME NEW s \in Side PROVE sides[s].dust >= 0 /\ Backs(acc, s, sides[s])
      <4>1. PICK o \in SideType, n0 \in Int : o = sides[s] /\ n0 = 0 /\ o.oi = n0 /\ o.dust = n0
        BY <1>2, <1>3 DEF EmptySide
      <4>2. \A j \in Accounts : SideOf(acc[j].position_basis_q) # s
        BY <1>5 DEF Unclaimed, SideOf, Side
      <4>3. BacksWith(acc, s, o, n0)
        BY <1>5, <4>1, <4>2, BacksNobody
      <4>4. QED
        BY <4>1, <4>3 DEF Backs
    <3>2. QED
      BY <1>13, <3>1 DEF Backed, SideBacked
  <2>4. QED
    BY <1>3, <1>8, <1>13, <2>1, <2>2, <2>3 DEF Market, Cleared
<1>19. QED
  BY <1>5, <1>12, <1>13, <1>17, <1>18 DEF Result, Good, Flat, Unclaimed

\* The context of an instruction is not part of the market.
LEMMA DropContextResult ==
    ASSUME NEW e, Result(e), NEW f, f = [e EXCEPT !.ctx = NoContext]
    PROVE  Result(f) /\ f.err = e.err
<1>1. PICK c : c = NoContext
  OBVIOUS
<1>2. c \in ContextType /\ c.touched = {}
  BY <1>1 DEF NoContext, Context, ContextType
<1>3. e \in EngineType /\ Good(e)
  BY DEF Result, Good
<1>4. f = [e EXCEPT !.ctx = c]
  BY <1>1
<1>5. Sound(e, f)
  BY <1>2, <1>3, <1>4, ResultBacked, CtxBacked
<1>6. f.side = e.side /\ f.acc = e.acc /\ f.err = e.err /\ f.vault = e.vault
      /\ f.c_tot = e.c_tot /\ f.insurance = e.insurance
  BY <1>3, <1>4 DEF EngineType
<1>7. SamePositions(e.acc, f.acc) /\ SamePnl(e, f)
      /\ (Ok(f) => f.vault >= f.c_tot + f.insurance)
  BY <1>6 DEF SamePositions, SamePnl, Result, Market, Ok
<1>8. QED
  BY <1>5, <1>6, <1>7, SoundMoved, SteadyResult

-----------------------------------------------------------------------------
(* A market after its first instructions *)

\* The engine records an instruction may return.
Results == {e \in EngineType : Result(e)}

\* The set of the results, for the folds.
LEMMA ResultsAre == ASSUME NEW e PROVE e \in Results <=> Result(e)
  BY DEF Results, Result, Good

\* Deposits were made for the accounts of s that have one, and nothing else.
Funded(f, s, cap) ==
    Result(f) /\ (Ok(f) => f.used = {i \in s : cap[i] # 0} /\ Flat(f))

\* One more deposit.
LEMMA FundedOne ==
    ASSUME NEW cap \in [Accounts -> Nat], NEW s \in SUBSET Accounts, NEW i \in s,
           NEW e, Funded(e, s \ {i}, cap), cap[i] # 0
    PROVE  Funded(DepositOp(e, i, cap[i], 0), s, cap)
<1>1. PICK c \in Nat, z \in Int, j \in Accounts : c = cap[i] /\ z = 0 /\ j = i
  OBVIOUS
<1>2. PICK f : f = DepositOp(e, j, c, z)
  OBVIOUS
<1>3. Result(f) /\ (Ok(f) => Ok(e) /\ f.used = e.used \union {i} /\ (Flat(e) => Flat(f)))
  BY <1>1, <1>2, DepositResult DEF Funded
<1>4. {k \in s : cap[k] # 0} = {k \in s \ {i} : cap[k] # 0} \union {i}
  OBVIOUS
<1>5. Funded(f, s, cap)
  BY <1>3, <1>4 DEF Funded
<1>6. QED
  BY <1>1, <1>2, <1>5

\* The first deposits.
LEMMA FundedResult ==
    ASSUME NEW cap \in [Accounts -> Nat], NEW e, Result(e), e.used = {}, Flat(e)
    PROVE  Funded(InOrder(LAMBDA i, f : IF cap[i] = 0 THEN f ELSE DepositOp(f, i, cap[i], 0),
                          e, Accounts), Accounts, cap)
<1> DEFINE D == Accounts
           S == Results
           op(i, f) == IF cap[i] = 0 THEN f ELSE DepositOp(f, i, cap[i], 0)
           Body(it) == [s \in SUBSET D |->
                          IF s = {} THEN e ELSE op(Max(s), it[s \ {Max(s)}])]
           fold == CHOOSE it : it = Body(it)
           step == [p \in S \X D |-> op(p[2], p[1])]
<1>1. InOrder(LAMBDA i, f : IF cap[i] = 0 THEN f ELSE DepositOp(f, i, cap[i], 0), e, Accounts)
        = fold[D]
  BY Zenon DEF InOrder, MapThenFoldSet
<1>2. IsFiniteSet(D) /\ D \subseteq Int
  BY Consts
<1>3. e \in S
  BY ResultsAre
<1>4. ASSUME NEW f \in S, NEW j \in D PROVE op(j, f) \in S
  <2>1. Result(f)
    BY <1>4, ResultsAre
  <2>2. PICK c \in Nat : c = cap[j]
    OBVIOUS
  <2>3. Result(DepositOp(f, j, c, 0))
    BY <1>4, <2>1, DepositResult
  <2>4. Result(op(j, f))
    BY <2>1, <2>2, <2>3
  <2>5. QED
    BY <2>4, ResultsAre
<1> HIDE DEF S, op
<1>5. step \in [S \X D -> S]
  BY <1>4
<1>6. Picks(MaxPick(D), D)
  BY <1>2, MaxPicks
<1>7. PICK g \in [SUBSET D -> S] : Unfolds(g, D, MaxPick(D), e, step)
  <2> HIDE DEF step, fold, Body
  <2>1. QED
    BY <1>2, <1>3, <1>5, <1>6, FoldExists
<1>8. g = Body(g)
  <2>1. ASSUME NEW s \in SUBSET D, s # {} PROVE g[s] = op(Max(s), g[s \ {Max(s)}])
    <3>1. MaxPick(D)[s] = Max(s) /\ MaxPick(D)[s] \in s
      BY <1>6, <2>1 DEF MaxPick, Picks
    <3>2. Max(s) \in D /\ g[s \ {Max(s)}] \in S
      BY <3>1
    <3>3. g[s] = step[<<g[s \ {Max(s)}], Max(s)>>]
      BY <1>7, <2>1, <3>1 DEF Unfolds
    <3>4. QED
      BY <3>2, <3>3
  <2>2. g[{}] = e
    BY <1>7 DEF Unfolds
  <2>3. QED
    BY <2>1, <2>2
<1>9. fold = Body(fold)
  <2> HIDE DEF Body
  <2>1. \E h : h = Body(h)
    BY <1>8
  <2>2. QED
    BY <2>1
<1> DEFINE T == {s \in SUBSET D : Funded(fold[s], s, cap)}
<1>10. {} \in T
  BY <1>9 DEF Funded
<1>11. ASSUME NEW s \in SUBSET D, s # {}, s \ {MaxPick(D)[s]} \in T PROVE s \in T
  <2> HIDE DEF fold
  <2>1. PICK i \in s : i = Max(s) /\ i = MaxPick(D)[s]
    BY <1>6, <1>11 DEF MaxPick, Picks
  <2>2. PICK f : f = fold[s \ {i}]
    OBVIOUS
  <2>3. Funded(f, s \ {i}, cap)
    BY <1>11, <2>1, <2>2
  <2>4. fold[s] = op(i, f)
    BY <1>9, <1>11, <2>1, <2>2
  <2>5. Funded(op(i, f), s, cap)
    <3>1. CASE cap[i] = 0
      <4>1. {k \in s : cap[k] # 0} = {k \in s \ {i} : cap[k] # 0} /\ op(i, f) = f
        BY <3>1 DEF op
      <4>2. QED
        BY <2>3, <4>1 DEF Funded
    <3>2. CASE cap[i] # 0
      <4>1. Funded(DepositOp(f, i, cap[i], 0), s, cap)
        BY <2>3, <3>2, FundedOne
      <4>2. QED
        BY <3>2, <4>1 DEF op
    <3>3. QED
      BY <3>1, <3>2
  <2>6. QED
    BY <2>4, <2>5
<1> HIDE DEF T
<1>12. \A s \in SUBSET D : s \in T
  <2>1. Inductive(T, D, MaxPick(D))
    BY <1>10, <1>11 DEF Inductive
  <2>2. QED
    BY <1>2, <1>6, <2>1, InductiveSet
<1>13. Funded(fold[D], D, cap)
  <2> HIDE DEF fold
  <2>1. QED
    BY <1>12 DEF T
<1> HIDE DEF fold
<1>14. QED
  BY <1>1, <1>13

\* The result of trades, if there were any.
TradedFrom(e, ts, f) == Result(f) /\ Traded(e, f) /\ (ts = <<>> => f = e)

\* The first trades.
LEMMA TradesResult ==
    ASSUME NEW ts \in Seq(Accounts \X Accounts \X Int), NEW price \in Int, NEW e, Result(e)
    PROVE  TradedFrom(e, ts, FoldLeft(LAMBDA f, t : TradeOp(f, t[1], t[2], 0, price, t[3], price,
                                                           0, <<h_max, h_max>>), e, ts))
<1>1. PICK D : D = DOMAIN ts
  OBVIOUS
<1>2. IsFiniteSet(D) /\ D \subseteq Int /\ \A j \in D : ts[j] \in Accounts \X Accounts \X Int
  <2>1. D = 1 .. Len(ts) /\ Len(ts) \in Nat
    BY <1>1
  <2>2. IsFiniteSet(1 .. Len(ts))
    BY <2>1, FS_Interval
  <2>3. QED
    BY <2>1, <2>2
<1> DEFINE S == {f \in Results : Traded(e, f)}
           op(f, t) == TradeOp(f, t[1], t[2], 0, price, t[3], price, 0, <<h_max, h_max>>)
           Body(it) == [s \in SUBSET D |->
                          IF s = {} THEN e ELSE op(it[s \ {Max(s)}], ts[Max(s)])]
           fold == CHOOSE it : it = Body(it)
           step == [p \in S \X D |-> op(p[1], ts[p[2]])]
<1>3. FoldLeft(LAMBDA f, t : TradeOp(f, t[1], t[2], 0, price, t[3], price, 0, <<h_max, h_max>>),
               e, ts) = fold[D]
  BY <1>1, Zenon DEF FoldLeft, MapThenFoldSet
<1>4. e \in S
  BY ResultsAre, SoundRefl, SoundTraded DEF Result
<1>5. ASSUME NEW f \in S, NEW j \in D PROVE op(f, ts[j]) \in S
  <2>1. Result(f) /\ Traded(e, f)
    BY <1>5, ResultsAre
  <2>2. PICK a \in Accounts, b \in Accounts, n \in Int :
           a = ts[j][1] /\ b = ts[j][2] /\ n = ts[j][3]
    BY <1>2, <1>5
  <2>3. PICK pair \in Int \X Int : pair = <<h_max, h_max>>
    <3>1. <<h_max, h_max>> \in Int \X Int
      BY Consts
    <3>2. QED
      BY <3>1
  <2>4. PICK z \in Int : z = 0
    OBVIOUS
  <2>5. Result(TradeOp(f, a, b, z, price, n, price, z, pair))
        /\ Traded(f, TradeOp(f, a, b, z, price, n, price, z, pair))
    BY <2>1, TradeResult
  <2>6. Result(op(f, ts[j])) /\ Traded(e, op(f, ts[j]))
    BY <2>1, <2>2, <2>3, <2>4, <2>5, TradedTrans
  <2>7. QED
    BY <2>6, ResultsAre
<1> HIDE DEF S, op
<1>6. step \in [S \X D -> S]
  BY <1>5
<1>7. Picks(MaxPick(D), D)
  BY <1>2, MaxPicks
<1>8. PICK g \in [SUBSET D -> S] : Unfolds(g, D, MaxPick(D), e, step)
  <2> HIDE DEF step, fold, Body
  <2>1. QED
    BY <1>2, <1>4, <1>6, <1>7, FoldExists
<1>9. g = Body(g)
  <2>1. ASSUME NEW s \in SUBSET D, s # {}
        PROVE  g[s] = op(g[s \ {Max(s)}], ts[Max(s)])
    <3>1. MaxPick(D)[s] = Max(s) /\ MaxPick(D)[s] \in s
      BY <1>7, <2>1 DEF MaxPick, Picks
    <3>2. Max(s) \in D /\ g[s \ {Max(s)}] \in S
      BY <3>1
    <3>3. g[s] = step[<<g[s \ {Max(s)}], Max(s)>>]
      BY <1>8, <2>1, <3>1 DEF Unfolds
    <3>4. QED
      BY <3>2, <3>3
  <2>2. g[{}] = e
    BY <1>8 DEF Unfolds
  <2>3. QED
    BY <2>1, <2>2
<1>10. fold = Body(fold)
  <2> HIDE DEF Body
  <2>1. \E h : h = Body(h)
    BY <1>9
  <2>2. QED
    BY <2>1
<1>11. FoldsTo(fold, D, e, S)
  <2> HIDE DEF fold
  <2>1. fold[{}] = e
    BY <1>10
  <2>2. ASSUME NEW s \in SUBSET D, s # {}, fold[s \ {Max(s)}] \in S PROVE fold[s] \in S
    <3>1. fold[s] = op(fold[s \ {Max(s)}], ts[Max(s)])
      BY <1>10, <2>2
    <3>2. Max(s) \in D
      BY <1>7, <2>2 DEF MaxPick, Picks
    <3>3. QED
      BY <1>5, <2>2, <3>1, <3>2
  <2>3. QED
    BY <2>1, <2>2 DEF FoldsTo
<1>12. fold[D] \in S
  <2> HIDE DEF fold
  <2>1. QED
    BY <1>2, <1>4, <1>11, FoldStays
<1>13. ts = <<>> => fold[D] = e
  <2>1. ts = <<>> => D = {}
    BY <1>1
  <2> HIDE DEF fold
  <2>2. QED
    BY <1>10, <2>1
<1> HIDE DEF fold
<1>14. QED
  BY <1>3, <1>12, <1>13, ResultsAre DEF S, TradedFrom

\* A market after its first instructions: nobody holds a slot without a
\* deposit, and nobody a position without a trade.
LEMMA OpenedResult ==
    ASSUME NEW o, IsOpening(o)
    PROVE  /\ Result(Opened(o))
           /\ Ok(Opened(o)) => /\ Opened(o).used = {i \in Accounts : o.cap[i] # 0}
                               /\ o.trades = <<>> => Flat(Opened(o))
<1>1. /\ o.cap \in [Accounts -> Nat] /\ o.ins \in Int /\ o.price \in Int
      /\ o.trades \in Seq(Accounts \X Accounts \X Int)
  BY DEF IsOpening
<1> DEFINE m == NewMarket(0, o.price)
           f == InOrder(LAMBDA i, e : IF o.cap[i] = 0 THEN e ELSE DepositOp(e, i, o.cap[i], 0),
                        m, Accounts)
           u == TopUpOp(f, o.ins, 0)
           l == FoldLeft(LAMBDA e, t : TradeOp(e, t[1], t[2], 0, o.price, t[3], o.price, 0,
                                               <<h_max, h_max>>), u, o.trades)
<1>2. Opened(o) = [l EXCEPT !.ctx = NoContext]
  BY Zenon DEF Opened
<1>3. Result(m) /\ m.used = {} /\ Flat(m)
  BY <1>1, NewMarketResult
<1> HIDE DEF m
<1>4. Funded(f, Accounts, o.cap)
  BY <1>1, <1>3, FundedResult, Zenon
<1> HIDE DEF f
<1>5. Result(u) /\ (Ok(u) => Ok(f)) /\ u.used = f.used /\ u.acc = f.acc
  BY <1>1, <1>4, TopUpResult DEF Funded
<1> HIDE DEF u
<1>6. TradedFrom(u, o.trades, l)
  BY <1>1, <1>5, TradesResult, Zenon
<1> HIDE DEF l
<1>7. PICK g : g = [l EXCEPT !.ctx = NoContext]
  OBVIOUS
<1>8. Result(g) /\ g.err = l.err /\ g.used = l.used /\ g.acc = l.acc
  <2>1. Result(l)
    BY <1>6 DEF TradedFrom
  <2>2. Result(g) /\ g.err = l.err
    BY <1>7, <2>1, DropContextResult
  <2>3. QED
    BY <1>7, <2>1, <2>2 DEF Result, Good, EngineType
<1>9. ASSUME Ok(g) PROVE g.used = {i \in Accounts : o.cap[i] # 0} /\ (o.trades = <<>> => Flat(g))
  <2>1. Ok(u) /\ l.used = u.used /\ (o.trades = <<>> => l = u)
    BY <1>6, <1>8, <1>9 DEF TradedFrom, Traded, Kept, Alike, Ok
  <2>2. f.used = {i \in Accounts : o.cap[i] # 0} /\ Flat(f)
    BY <1>4, <1>5, <2>1 DEF Funded
  <2>3. QED
    BY <1>5, <1>8, <2>1, <2>2 DEF Flat
<1>10. QED
  BY <1>2, <1>7, <1>8, <1>9

\* accrue_market_to, called as an instruction: marks the sides and moves no money.
LEMMA AccrueResult ==
    ASSUME NEW e, Result(e), NEW now \in Int, NEW price \in Int, NEW rate \in Int
    PROVE  /\ Result(AccrueMarket(e, now, price, rate))
           /\ Sound(e, AccrueMarket(e, now, price, rate))
<1>1. e \in EngineType /\ Good(e) /\ e.side \in [Side -> SideType] /\ e.last_market_slot \in Int
      /\ e.last_oracle_price \in Int
  BY EngineFields DEF Good, Result
<1>2. PICK dt \in Int : dt = now - e.last_market_slot
  BY <1>1
<1>3. PICK g : g = [s \in Side |-> [e.side[s] EXCEPT !.coeff = MarkedK(e, s, price),
                                                     !.f = FundedF(e, s, dt, rate)]]
  OBVIOUS
<1>4. \A s \in Side : /\ g[s].oi = e.side[s].oi /\ g[s].stored = e.side[s].stored
                      /\ g[s].epoch = e.side[s].epoch /\ g[s].mult = e.side[s].mult
                      /\ g[s].dust = e.side[s].dust
  BY <1>1, <1>3 DEF SideType
<1>5. PICK r : r = [e EXCEPT !.side = g, !.current_slot = now, !.last_market_slot = now,
                             !.last_oracle_price = price]
  OBVIOUS
<1>6. PICK c : c = [e EXCEPT !.current_slot = now]
  OBVIOUS
<1>7. PICK f : f = AccrueMarket(e, now, price, rate)
  OBVIOUS
<1>8. f \in {Reject(e), c, r}
  BY <1>1, <1>2, <1>3, <1>5, <1>6, <1>7 DEF AccrueMarket, EngineType
<1>9. Sound(e, f)
  BY <1>1, <1>7, AccrueSound
<1>10. Result(Reject(e)) /\ ~Ok(Reject(e))
  BY <1>1, FailedResult, RejectSound
<1>11. r.side = g /\ r.acc = e.acc /\ r.c_tot = e.c_tot /\ r.insurance = e.insurance
  BY <1>1, <1>5 DEF EngineType
<1>12. c.side = e.side /\ c.acc = e.acc /\ c.c_tot = e.c_tot /\ c.insurance = e.insurance
  BY <1>1, <1>6 DEF EngineType
<1>13. ASSUME Ok(f) PROVE Market(f)
  <2>1. /\ SameOi(e, f) /\ f.acc = e.acc /\ f.c_tot = e.c_tot /\ f.insurance = e.insurance
    BY <1>4, <1>8, <1>10, <1>11, <1>12, <1>13 DEF SameOi
  <2>2. Ok(e) /\ Market(e)
    BY <1>9, <1>13 DEF Sound, Moved, Kept, Alike, Result
  <2>3. f.vault = e.vault /\ f.used = e.used /\ f.market_mode = e.market_mode
        /\ f.resolved = e.resolved
    BY <1>9 DEF Sound, Moved, Kept, Alike
  <2>4. Cleared(f)
    BY <2>1, <2>2, ClearedKept DEF Market
  <2>5. (NoOpenInterest(e) => NoOpenInterest(f)) /\ (AllSettled(e) => AllSettled(f))
    BY <2>1 DEF SameOi, NoOpenInterest, AllSettled
  <2>6. Epochs(f) /\ Even(f)
    BY <1>9, <1>13, <2>1, <2>2, EvenKept DEF Market, Sound, Moved, Kept
  <2>7. Backed(f)
    <3>1. SamePositions(e.acc, f.acc)
      BY <2>1 DEF SamePositions
    <3>2. f.side = g \/ f.side = e.side
      BY <1>8, <1>10, <1>11, <1>12, <1>13
    <3>3. \A s \in Side : e.side[s].dust \in Int
      BY <1>1, SideFields
    <3>4. \A s \in Side : SameCover(e.side[s], f.side[s])
      BY <1>4, <3>2, <3>3 DEF SameCover
    <3>5. f \in EngineType
      BY <1>9 DEF Sound, Moved, Good
    <3>6. QED
      BY <1>1, <2>2, <2>3, <3>1, <3>4, <3>5, BackedCover DEF Market
  <2>8. QED
    BY <2>1, <2>2, <2>3, <2>4, <2>5, <2>6, <2>7 DEF Market
<1>14. QED
  BY <1>7, <1>9, <1>13 DEF Result, Sound, Moved
=============================================================================
